----------------------------- MODULE Lifecycle -----------------------------
(***************************************************************************)
(* Daemon processes of one store coming and going, and the clients that    *)
(* find or start them: bin/sift-daemon.rs, Daemon::try_bind and the two    *)
(* ends of serve (crates/daemon/src/server.rs), the runtime directory      *)
(* (paths.rs), DaemonClient::connect_or_spawn (client.rs) and the cached   *)
(* connection of the MCP server (crates/mcp-client/src/server.rs).         *)
(*                                                                         *)
(* What the processes share is in the file system: the runtime directory,  *)
(* the lock file and the socket's path.  A step is one system call that    *)
(* another process can see.  What happens inside a serving daemon is the   *)
(* subject of module Daemon; here it accepts, answers, has at most one     *)
(* thread at work on the store, and goes stale when that thread fails.     *)
(*                                                                         *)
(* Time.  A start and a load take less than connect_deadline (60 s), so a  *)
(* client gives up only when no daemon is on its way.                      *)
(***************************************************************************)
EXTENDS Integers, FiniteSets

CONSTANTS
    Clients,    \* client processes, one call at a time each
    Daemons,    \* bound: daemon processes alive at the same time
    None,       \* no process; no file
    StaleFile,  \* a socket file whose listener is gone
    Requests,   \* what clients ask: "search", "index", "shutdown"
    MaxFaults   \* bound: kills, failed loads and failed runs in one behaviour

ASSUME LifecycleAssumption ==
    /\ None \notin Daemons
    /\ StaleFile \notin Daemons
    /\ None # StaleFile
    /\ Requests \subseteq {"search", "index", "shutdown"}
    /\ MaxFaults \in Nat

VARIABLES
    runtimeDir, \* the runtime directory exists
    lock,       \* the process that holds the lock file
    socket,     \* what is at the socket's path
    proc,       \* per process: how far main, try_bind and serve are
    work,       \* per process: the thread that has the store open, or stale
    client,     \* per client: its call and its connection
    faults      \* kills, failed loads and failed runs so far

vars == <<runtimeDir, lock, socket, proc, work, client, faults>>

\* A process: not running; loading the model; about to create the runtime
\* directory; about to lock, unlink, bind; in the select loop; waiting for
\* its connections; after removing the socket; after serve has returned.
Starting == {"load", "mkdir", "lock", "unlink", "bind"}
Phases == Starting \cup {"absent", "serve", "drain", "unlinked", "leaving"}

\* "stale": the load or the last run has failed, and ServingState is Stale.
Works == {"none", "loader", "index", "stale"}

\* A client: no connection and no call; in the loop of connect_or_spawn;
\* between its probe and connect; waiting for Hello; connected without a
\* call; waiting for an answer; waiting for an index run.
ClientPcs == {"none", "probe", "connect", "hello", "ready", "call", "index"}

ClientStates ==
    [pc : ClientPcs,
     spawned : BOOLEAN,                  \* this call has started a daemon
     conn : Daemons \cup {None},         \* peer of its socket
     accepted : BOOLEAN,                 \* the peer has a handler for it
     req : Requests \cup {"none"},
     outcome : {"none", "ok", "failed"}, \* of the last call
     disturbed : BOOLEAN]                \* a daemon left or failed since then

NewClient ==
    [pc |-> "none", spawned |-> FALSE, conn |-> None, accepted |-> FALSE,
     req |-> "none", outcome |-> "none", disturbed |-> FALSE]

TypeOK ==
    /\ runtimeDir \in BOOLEAN
    /\ lock \in Daemons \cup {None}
    /\ socket \in Daemons \cup {None, StaleFile}
    /\ proc \in [Daemons -> Phases]
    /\ work \in [Daemons -> Works]
    /\ client \in [Clients -> ClientStates]
    /\ faults \in 0 .. MaxFaults

Init ==
    /\ runtimeDir = FALSE
    /\ lock = None
    /\ socket = None
    /\ proc = [d \in Daemons |-> "absent"]
    /\ work = [d \in Daemons |-> "none"]
    /\ client = [c \in Clients |-> NewClient]
    /\ faults = 0

-----------------------------------------------------------------------------
(* Connections. *)

\* UnixStream::connect succeeds: the file at the path belongs to an open
\* listener.  The listener is open from bind until serve returns, whether
\* or not anybody accepts.
Reachable ==
    /\ socket \in Daemons
    /\ proc[socket] \in {"serve", "drain"}

\* The connections that handle_connection tasks of d are serving.
Served(d) == {c \in Clients : client[c].conn = d /\ client[c].accepted}

\* History: a daemon is going, has gone or has failed in the clients' time.
Disturbed(cl) == [c \in Clients |-> [cl[c] EXCEPT !.disturbed = TRUE]]

\* The peer d closes its end of every connection.
Dropped(d) ==
    [c \in Clients |->
        IF client[c].conn = d
        THEN [client[c] EXCEPT !.conn = None, !.accepted = FALSE]
        ELSE client[c]]

-----------------------------------------------------------------------------
(* A daemon process starts. *)

\* OnnxEmbedder::load, then ensure_runtime_dir looks for the directory.
LoadEmbedder(d) ==
    /\ proc[d] = "load"
    /\ proc' = [proc EXCEPT ![d] = IF runtimeDir THEN "lock" ELSE "mkdir"]
    /\ UNCHANGED <<runtimeDir, lock, socket, work, client, faults>>

\* The model cannot be loaded: exit code 1.
LoadFails(d) ==
    /\ proc[d] = "load"
    /\ faults < MaxFaults
    /\ faults' = faults + 1
    /\ proc' = [proc EXCEPT ![d] = "absent"]
    /\ client' = Disturbed(client)
    /\ UNCHANGED <<runtimeDir, lock, socket, work>>

\* DirBuilder::create, not recursive: when another process has created the
\* directory since the check, AlreadyExists is an error and main exits.
MakeRuntimeDir(d) ==
    /\ proc[d] = "mkdir"
    /\ runtimeDir' = TRUE
    /\ proc' = [proc EXCEPT ![d] = IF runtimeDir THEN "absent" ELSE "lock"]
    /\ UNCHANGED <<lock, socket, work, client, faults>>

\* Slip: the lock is not exclusive.
TryLockShared(d) ==
    /\ proc[d] = "lock"
    /\ lock' = d
    /\ proc' = [proc EXCEPT ![d] = "unlink"]
    /\ UNCHANGED <<runtimeDir, socket, work, client, faults>>

\* try_lock_exclusive: the loser exits with "lock held by another daemon".
TryLock(d) ==
    /\ proc[d] = "lock"
    /\ IF lock = None
       THEN /\ lock' = d
            /\ proc' = [proc EXCEPT ![d] = "unlink"]
       ELSE /\ proc' = [proc EXCEPT ![d] = "absent"]
            /\ UNCHANGED lock
    /\ UNCHANGED <<runtimeDir, socket, work, client, faults>>

\* Slip: a socket that is still there is taken for a running daemon's.
PrepareSocketPathKeeps(d) ==
    /\ proc[d] = "unlink"
    /\ proc' = [proc EXCEPT ![d] = "bind"]
    /\ UNCHANGED <<runtimeDir, lock, socket, work, client, faults>>

\* prepare_socket_path removes whatever is there, now that the lock is held.
PrepareSocketPath(d) ==
    /\ proc[d] = "unlink"
    /\ socket' = None
    /\ proc' = [proc EXCEPT ![d] = "bind"]
    /\ UNCHANGED <<runtimeDir, lock, work, client, faults>>

\* UnixListener::bind, which fails when the path exists, and the start of
\* serve, which spawns the loader.
Bind(d) ==
    /\ proc[d] = "bind"
    /\ IF socket = None
       THEN /\ socket' = d
            /\ proc' = [proc EXCEPT ![d] = "serve"]
            /\ work' = [work EXCEPT ![d] = "loader"]
            /\ UNCHANGED lock
       ELSE /\ proc' = [proc EXCEPT ![d] = "absent"]
            /\ lock' = None
            /\ UNCHANGED <<socket, work>>
    /\ UNCHANGED <<runtimeDir, client, faults>>

-----------------------------------------------------------------------------
(* A daemon serves and leaves. *)

\* Resident::load ends.  The loader is a blocking task: it goes on when
\* serve has returned.
LoaderDone(d) ==
    /\ work[d] = "loader"
    /\ work' = [work EXCEPT ![d] = "none"]
    /\ UNCHANGED <<runtimeDir, lock, socket, proc, client, faults>>

\* The accept branch of the select.
Accept(d, c) ==
    /\ proc[d] = "serve"
    /\ client[c].conn = d
    /\ ~client[c].accepted
    /\ client' = [client EXCEPT ![c] = [@ EXCEPT !.accepted = TRUE]]
    /\ UNCHANGED <<runtimeDir, lock, socket, proc, work, faults>>

\* The load, or the run, fails: the daemon stays, stale, and loads nothing any
\* more.  The requester of a run is told.
GoStale(d) ==
    /\ work[d] \in {"loader", "index"}
    /\ faults < MaxFaults
    /\ faults' = faults + 1
    /\ work' = [work EXCEPT ![d] = "stale"]
    /\ client' = Disturbed([c \in Clients |->
         IF client[c].pc = "index" /\ client[c].conn = d
         THEN [client[c] EXCEPT !.pc = "ready", !.outcome = "failed"]
         ELSE client[c]])
    /\ UNCHANGED <<runtimeDir, lock, socket, proc>>

\* Slip: the lock is released when the loop ends, before the unlink.
IdleExitReleasing(d) ==
    /\ proc[d] = "serve"
    /\ work[d] # "loader"
    /\ Served(d) = {}
    /\ lock' = None
    /\ proc' = [proc EXCEPT ![d] = "drain"]
    /\ client' = Disturbed(client)
    /\ UNCHANGED <<runtimeDir, socket, work, faults>>

\* The timer branch: no connections, no request for idle_timeout, and not
\* starting.  A connection in the backlog does not count.
IdleExit(d) ==
    /\ proc[d] = "serve"
    /\ work[d] # "loader"
    /\ Served(d) = {}
    /\ proc' = [proc EXCEPT ![d] = "drain"]
    /\ client' = Disturbed(client)
    /\ UNCHANGED <<runtimeDir, lock, socket, work, faults>>

\* join_next until no connection is left, then remove_file, which removes
\* whatever is at the path.
DrainAndUnlink(d) ==
    /\ proc[d] = "drain"
    /\ Served(d) = {}
    /\ socket' = None
    /\ proc' = [proc EXCEPT ![d] = "unlinked"]
    /\ UNCHANGED <<runtimeDir, lock, work, client, faults>>

\* Slip: connections nobody accepted are left open.
ReleaseKeepingBacklog(d) ==
    /\ proc[d] = "unlinked"
    /\ lock' = None
    /\ proc' = [proc EXCEPT ![d] = "leaving"]
    /\ client' = Disturbed(client)
    /\ UNCHANGED <<runtimeDir, socket, work, faults>>

\* serve returns: lock file and listener are closed, and connections nobody
\* accepted are reset.
Release(d) ==
    /\ proc[d] = "unlinked"
    /\ lock' = None
    /\ proc' = [proc EXCEPT ![d] = "leaving"]
    /\ client' = Disturbed(Dropped(d))
    /\ UNCHANGED <<runtimeDir, socket, work, faults>>

\* The runtime waits for the loader; a detached index thread ends with the
\* process.
End(d) ==
    /\ proc[d] = "leaving"
    /\ work[d] # "loader"
    /\ proc' = [proc EXCEPT ![d] = "absent"]
    /\ work' = [work EXCEPT ![d] = "none"]
    /\ UNCHANGED <<runtimeDir, lock, socket, client, faults>>

\* The process is killed; its socket file stays.
Kill(d) ==
    /\ proc[d] # "absent"
    /\ faults < MaxFaults
    /\ faults' = faults + 1
    /\ proc' = [proc EXCEPT ![d] = "absent"]
    /\ work' = [work EXCEPT ![d] = "none"]
    /\ lock' = IF lock = d THEN None ELSE lock
    /\ socket' = IF socket = d THEN StaleFile ELSE socket
    /\ client' = Disturbed(Dropped(d))
    /\ UNCHANGED runtimeDir

-----------------------------------------------------------------------------
(* A client calls. *)

\* At this moment a daemon is leaving, or serves nothing because it is stale.
Trouble == \E d \in Daemons : \/ proc[d] \in {"drain", "unlinked"}
                              \/ proc[d] = "serve" /\ work[d] = "stale"

\* ensure_client without a connection: connect_or_spawn begins.
InvokeUnconnected(c, r) ==
    /\ client[c].pc = "none"
    /\ client' = [client EXCEPT ![c] =
         [NewClient EXCEPT !.pc = "probe", !.req = r,
                           !.disturbed = Trouble]]
    /\ UNCHANGED <<runtimeDir, lock, socket, proc, work, faults>>

\* ensure_client with a connection, which is used whatever has become of it.
InvokeConnected(c, r) ==
    /\ client[c].pc = "ready"
    /\ client' = [client EXCEPT ![c] =
         [@ EXCEPT !.pc = "call", !.req = r, !.spawned = FALSE,
                   !.outcome = "none"]]
    /\ UNCHANGED <<runtimeDir, lock, socket, proc, work, faults>>

\* The first connect of an iteration; the stream is dropped again.
Probe(c) ==
    /\ client[c].pc = "probe"
    /\ Reachable
    /\ client' = [client EXCEPT ![c] = [@ EXCEPT !.pc = "connect"]]
    /\ UNCHANGED <<runtimeDir, lock, socket, proc, work, faults>>

\* The probe fails for the first time: one daemon is started, once.
SpawnDaemon(c, d) ==
    /\ client[c].pc = "probe"
    /\ ~Reachable
    /\ ~client[c].spawned
    /\ proc[d] = "absent"
    /\ proc' = [proc EXCEPT ![d] = "load"]
    /\ client' = [client EXCEPT ![c] = [@ EXCEPT !.spawned = TRUE]]
    /\ UNCHANGED <<runtimeDir, lock, socket, work, faults>>

\* The call of c fails.  A connection that was made is kept, dead or not.
Failed(c) ==
    [client EXCEPT ![c] =
        [@ EXCEPT !.outcome = "failed",
                  !.pc = IF client[c].pc \in {"call", "index"}
                         THEN "ready" ELSE "none"]]

\* connect_deadline passes: no daemon listens and none is on its way.
GiveUp(c) ==
    /\ client[c].pc = "probe"
    /\ client[c].spawned
    /\ ~Reachable
    /\ \A d \in Daemons : proc[d] \notin Starting
    /\ client' = Failed(c)
    /\ UNCHANGED <<runtimeDir, lock, socket, proc, work, faults>>

\* DaemonClient::connect: a second connect, then Hello is written.
Connect(c) ==
    /\ client[c].pc = "connect"
    /\ Reachable
    /\ client' = [client EXCEPT ![c] =
         [@ EXCEPT !.pc = "hello", !.conn = socket, !.accepted = FALSE]]
    /\ UNCHANGED <<runtimeDir, lock, socket, proc, work, faults>>

\* The daemon of the probe has gone: the error is returned, not retried.
ConnectFails(c) ==
    /\ client[c].pc = "connect"
    /\ ~Reachable
    /\ client' = Failed(c)
    /\ UNCHANGED <<runtimeDir, lock, socket, proc, work, faults>>

\* Reading or writing fails because the peer has closed.
ConnectionLost(c) ==
    /\ client[c].pc \in {"hello", "call", "index"}
    /\ client[c].conn = None
    /\ client' = Failed(c)
    /\ UNCHANGED <<runtimeDir, lock, socket, proc, work, faults>>

\* A handler of d answers c.  Handlers go on while d drains.
Handles(d, c) ==
    /\ c \in Served(d)
    /\ proc[d] \in {"serve", "drain"}

\* Hello is answered also while the daemon loads; the request follows.
AnswerHello(d, c) ==
    /\ client[c].pc = "hello"
    /\ Handles(d, c)
    /\ work[d] # "stale"
    /\ client' = [client EXCEPT ![c] = [@ EXCEPT !.pc = "call"]]
    /\ UNCHANGED <<runtimeDir, lock, socket, proc, work, faults>>

\* A search is answered once the index is resident; until then the answer
\* is Starting and with_client_request asks again.
AnswerSearch(d, c) ==
    /\ client[c].pc = "call" /\ client[c].req = "search"
    /\ Handles(d, c)
    /\ work[d] \in {"none", "index"}
    /\ client' = [client EXCEPT ![c] =
         [@ EXCEPT !.pc = "ready", !.outcome = "ok"]]
    /\ UNCHANGED <<runtimeDir, lock, socket, proc, work, faults>>

\* A stale daemon answers StoreStale: to Hello, and connect drops the new
\* connection with the error; or to a search on one that was made before.
RefuseStale(d, c) ==
    /\ Handles(d, c)
    /\ work[d] = "stale"
    /\ \/ /\ client[c].pc = "hello"
          /\ client' = [client EXCEPT ![c] =
               [@ EXCEPT !.pc = "none", !.outcome = "failed", !.conn = None,
                         !.accepted = FALSE]]
       \/ /\ client[c].pc = "call" /\ client[c].req = "search"
          /\ client' = Failed(c)
    /\ UNCHANGED <<runtimeDir, lock, socket, proc, work, faults>>

\* An index run starts on a thread of its own, if the index is resident.
StartIndex(d, c) ==
    /\ client[c].pc = "call" /\ client[c].req = "index"
    /\ Handles(d, c)
    /\ work[d] = "none"
    /\ work' = [work EXCEPT ![d] = "index"]
    /\ client' = [client EXCEPT ![c] = [@ EXCEPT !.pc = "index"]]
    /\ UNCHANGED <<runtimeDir, lock, socket, proc, faults>>

\* Not ready for index, stale, or an index in progress: index_repository reports
\* the error and does not ask again.
RefuseIndex(d, c) ==
    /\ client[c].pc = "call" /\ client[c].req = "index"
    /\ Handles(d, c)
    /\ work[d] # "none"
    /\ client' = Failed(c)
    /\ UNCHANGED <<runtimeDir, lock, socket, proc, work, faults>>

\* The run succeeds, whether or not somebody still waits for it.
IndexDone(d) ==
    /\ work[d] = "index"
    /\ work' = [work EXCEPT ![d] = "none"]
    /\ client' = [c \in Clients |->
         IF client[c].pc = "index" /\ client[c].conn = d
         THEN [client[c] EXCEPT !.pc = "ready", !.outcome = "ok"]
         ELSE client[c]]
    /\ UNCHANGED <<runtimeDir, lock, socket, proc, faults>>

\* Shutdown is answered, the loop is notified and the handler ends.  A loop
\* that is busy with a branch does not hear the notification.
AnswerShutdown(d, c) ==
    /\ client[c].pc = "call" /\ client[c].req = "shutdown"
    /\ Handles(d, c)
    /\ \/ proc' = [proc EXCEPT ![d] = "drain"]
       \/ UNCHANGED proc
    /\ client' = Disturbed([client EXCEPT ![c] =
         [@ EXCEPT !.pc = "ready", !.outcome = "ok", !.conn = None,
                   !.accepted = FALSE]])
    /\ UNCHANGED <<runtimeDir, lock, socket, work, faults>>

\* The client process ends and another takes its place.
Leave(c) ==
    /\ client[c].pc # "none"
    /\ client' = [client EXCEPT ![c] = NewClient]
    /\ UNCHANGED <<runtimeDir, lock, socket, proc, work, faults>>

-----------------------------------------------------------------------------

DaemonStep(d) ==
    \/ LoadEmbedder(d) \/ MakeRuntimeDir(d) \/ TryLock(d)
    \/ PrepareSocketPath(d) \/ Bind(d)
    \/ LoaderDone(d) \/ IndexDone(d)
    \/ DrainAndUnlink(d) \/ Release(d) \/ End(d)

HandlerStep(d, c) ==
    \/ Accept(d, c) \/ AnswerHello(d, c) \/ AnswerSearch(d, c)
    \/ RefuseStale(d, c) \/ StartIndex(d, c) \/ RefuseIndex(d, c)
    \/ AnswerShutdown(d, c)

ClientStep(c) ==
    \/ \E d \in Daemons : SpawnDaemon(c, d)
    \/ Connect(c) \/ ConnectFails(c) \/ ConnectionLost(c)

Next ==
    \/ \E d \in Daemons :
         \/ DaemonStep(d) \/ LoadFails(d) \/ GoStale(d) \/ IdleExit(d)
         \/ Kill(d)
         \/ \E c \in Clients : HandlerStep(d, c)
    \/ \E c \in Clients :
         \/ \E r \in Requests : InvokeUnconnected(c, r) \/ InvokeConnected(c, r)
         \/ Probe(c) \/ GiveUp(c) \/ ClientStep(c) \/ Leave(c)

Spec == Init /\ [][Next]_vars

-----------------------------------------------------------------------------

\* A serving daemon can be found: the socket's path leads to it, whatever
\* other processes start, lose the race for the lock, leave or are killed.
SocketLeadsToServer ==
    \A d \in Daemons : proc[d] = "serve" => socket = d

\* A thread of d has the store open.
AtWork(d) == work[d] \in {"loader", "index"}

\* Two processes have the store open at once only when one of them has left
\* serve and given up the lock with a thread still at work.
StoreSharedOnlyWithLeaver ==
    \A d, e \in Daemons :
        d # e /\ AtWork(d) /\ AtWork(e) =>
            proc[d] = "leaving" \/ proc[e] = "leaving"

\* A search finds a daemon and gets past it: it fails only when some daemon
\* left, was killed, could not load its model or its store, or had an index run
\* fail since the client began to connect, or was leaving or stale at that
\* moment.  Two clients that start daemons at the same moment are both served.
\* (What else can be wrong inside a serving daemon is in module Daemon.)
SearchFailsOnlyWhenDisturbed ==
    \A c \in Clients :
        client[c].outcome = "failed" /\ client[c].req # "index" =>
            client[c].disturbed

\* A client that waits on an open connection waits for a process that still
\* runs serve, and one that waits for an index run waits for a run that is in
\* progress: nobody is left waiting by a daemon that has gone.
NobodyWaitsForTheGone ==
    \A c \in Clients : client[c].conn # None =>
        /\ proc[client[c].conn] \in {"serve", "drain", "unlinked"}
        /\ client[c].pc = "index" => work[client[c].conn] = "index"

-----------------------------------------------------------------------------
(* The inductive invariant from which the properties follow. *)

\* Phases between a successful try_lock_exclusive and the end of serve.
Holding == {"unlink", "bind", "serve", "drain", "unlinked"}

LockPart == \A d \in Daemons : proc[d] \in Holding <=> lock = d

\* Only the holder of the lock touches the socket's path.
SocketPart ==
    \A d \in Daemons :
        /\ proc[d] \in {"serve", "drain"} => socket = d
        /\ proc[d] = "bind" => socket = None

WorkPart ==
    \A d \in Daemons :
        work[d] # "none" => proc[d] \in {"serve", "drain", "unlinked", "leaving"}

\* A process that will serve, unless it leaves, is killed, or another one does.
Coming(d) ==
    \/ proc[d] \in {"load", "lock", "unlink", "bind", "serve"}
    \/ proc[d] = "mkdir" /\ ~runtimeDir

\* What an undisturbed client can rely on at each point of its call.
UndisturbedPart ==
    \A c \in Clients : ~client[c].disturbed =>
        /\ client[c].pc # "none" => ~Trouble
        /\ client[c].pc = "probe" /\ client[c].spawned =>
               \E d \in Daemons : Coming(d)
        /\ client[c].pc = "connect" => \E d \in Daemons : proc[d] = "serve"
        /\ client[c].pc \in {"hello", "ready", "call", "index"} =>
               client[c].conn # None

\* Lock and socket belong together, a thread has its process, a connection
\* has its peer, and an undisturbed client has a daemon or one on its way.
LifecycleInv ==
    /\ TypeOK
    /\ LockPart
    /\ SocketPart
    /\ WorkPart
    /\ UndisturbedPart
    /\ NobodyWaitsForTheGone
    /\ SearchFailsOnlyWhenDisturbed

=============================================================================
