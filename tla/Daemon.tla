------------------------------- MODULE Daemon -------------------------------
(***************************************************************************)
(* One daemon process from bind to exit (crates/daemon/src/server.rs and   *)
(* resident.rs): the loader that makes the index resident, the accept loop *)
(* with its idle timer and its shutdown notification, one handler task per *)
(* connection, and the detached thread an Index request starts.            *)
(*                                                                         *)
(* What is shared is SharedState: the serving state behind a RwLock, the   *)
(* indexing flag, the search semaphore, the connection count and the time  *)
(* of the last request.  A step below is what one task or thread does      *)
(* between two points where another can see or change SharedState: a lock  *)
(* section, a compare-and-exchange, a frame read or written.               *)
(*                                                                         *)
(* Abstraction.  The contents of the index are a generation: the number of *)
(* lexical commits made so far.  A resident carries the generation of its  *)
(* chunk table and vectors, the store directory whose files it has open,   *)
(* and the directory its StoreIdentity names.  A response is its kind, and *)
(* what a client keeps of it is that it came; the answer of a search also  *)
(* says which generations it was computed from.                            *)
(* Search and SearchSimilar take the same steps and are one request.       *)
(***************************************************************************)
EXTENDS Integers, FiniteSets

CONSTANTS
    Clients,    \* processes that connect, one connection at a time each
    Requests,   \* the frames they send: a subset of Frames
    Permits,    \* max_concurrent_searches
    MaxGen,     \* bound: lexical commits in one behaviour
    MaxDir,     \* bound: times the store directory is replaced
    Faults      \* what goes wrong: "load", "split", "index", "panic"

Frames == {"Hello", "BadHello", "Malformed", "Status", "Search", "GetSymbol",
           "Index", "Shutdown"}

ASSUME DaemonAssumption ==
    /\ IsFiniteSet(Clients)
    /\ Requests \subseteq Frames
    /\ Permits \in Nat \ {0}
    /\ MaxGen \in Nat
    /\ MaxDir \in Nat
    /\ Faults \subseteq {"load", "split", "index", "panic"}

VARIABLES
    serving,    \* SharedState.serving: its variant and the resident in it
    indexing,   \* SharedState.indexing
    clients,    \* SharedState.connected_clients
    quiet,      \* last_request_at is idle_timeout or more in the past
    main,       \* where serve() is: its select, a branch's body, draining
    loader,     \* where the loader task is, and the directory it has opened
    handler,    \* per client: the task of its connection
    thread,     \* per client: the index thread its request started
    done,       \* per client: what the thread sent on done_tx
    client,     \* per client: its end of the socket
    disk,       \* lexical commits so far
    dir,        \* which directory is at the store's path now
    adopted     \* history: directories whose identity was captured for the
                \* open files of another one

vars == <<serving, indexing, clients, quiet, main, loader, handler, thread,
          done, client, disk, dir, adopted>>

Gens == 0 .. MaxGen
Dirs == 0 .. MaxDir

\* Resident and FrozenSearch: the generation of records, vectors and bodies,
\* the directory whose files are open and the one StoreIdentity captured.
Residents == [gen : Gens, store : Dirs, identity : Dirs]

NoResident == [gen |-> 0, store |-> 0, identity |-> 0]

ServingState == [state : {"Starting", "Ready", "Indexing", "Stale"},
                 resident : Residents]

Starting == [state |-> "Starting", resident |-> NoResident]
Ready(r) == [state |-> "Ready", resident |-> r]
Indexing(r) == [state |-> "Indexing", resident |-> r]
Stale == [state |-> "Stale", resident |-> NoResident]

\* A handler's position: no connection, connected but not accepted, reading
\* a frame, waiting for a permit, holding the Arc of a ready resident or of
\* a frozen view, waiting for the index thread.
HandlerPcs == {"away", "backlog", "read", "permit", "borrow", "frozen",
               "index"}

\* checked: check_still_valid has passed.  History, for the properties: since
\* is the generation that was being served when the request was read, asked
\* the directory that was at the store's path.
Handlers == [pc : HandlerPcs, hello : BOOLEAN, req : Frames \cup {"none"},
             resident : Residents, checked : BOOLEAN, since : Gens,
             asked : Dirs]

NoHandler == [pc |-> "away", hello |-> FALSE, req |-> "none",
              resident |-> NoResident, checked |-> FALSE, since |-> 0,
              asked |-> 0]

\* Resident::load opens the store, and later captures its identity.
Loaders == [pc : {"open", "capture", "done"}, store : Dirs]
Loaded == [pc |-> "done", store |-> 0]

ThreadPcs == {"none", "take", "split", "run", "clear"}
Results == {"none", "IndexDone", "Borrowed", "NotReady", "Failed", "Vanished"}
Threads == [pc : ThreadPcs, resident : Residents, result : Results]
NoThread == [pc |-> "none", resident |-> NoResident, result |-> "none"]

Errors == {"Starting", "StoreStale", "IndexInProgress", "Malformed",
           "ProtocolVersion"} \cup (Results \ {"none", "IndexDone"})

Responses == {"Hello", "Status", "Bye", "Found", "IndexDone"} \cup Errors

\* A client waits for a response or not; whatever the response says, it may go
\* on as it likes.  That a search was answered is kept for the properties.
Replies == {"idle", "pending", "Found"}
Kept(reply) == IF reply = "Found" THEN "Found" ELSE "idle"

\* What the client knows: whether its end is open, the frame on its way to
\* the daemon, what it keeps of the last reply, and for a search what it was
\* computed from.
ClientEnds == [open : BOOLEAN, frame : Requests \cup {"none"}, reply : Replies,
               from : Residents, lex : Gens, since : Gens, asked : Dirs]

NoClient == [open |-> FALSE, frame |-> "none", reply |-> "idle",
             from |-> NoResident, lex |-> 0, since |-> 0, asked |-> 0]

-----------------------------------------------------------------------------
\* What a search asked for now must include (history, for Handlers.since):
\* while the daemon is ready no run is under way and all that was committed
\* is served; during a run, what was served before it.
Committed == CASE serving.state = "Ready" -> disk
               [] serving.state = "Indexing" -> serving.resident.gen
               [] OTHER -> 0

\* The identity of the directory at the path is captured for files that were
\* opened in this one (history, for adopted).
Adopt(store) == adopted' = IF store = dir THEN adopted ELSE adopted \cup {dir}

Init ==
    /\ serving = Starting
    /\ indexing = FALSE
    /\ clients = 0
    /\ quiet = FALSE
    /\ main = "select"
    /\ loader = [pc |-> "open", store |-> 0]
    /\ handler = [c \in Clients |-> NoHandler]
    /\ thread = [c \in Clients |-> NoThread]
    /\ done = [c \in Clients |-> "none"]
    /\ client = [c \in Clients |-> NoClient]
    /\ disk = 0
    /\ dir = 0
    /\ adopted = {}

\* The loader task has not finished: the daemon is bound and serving before.
Loading == loader.pc # "done"

\* A step of Resident::load fails.
LoadFails ==
    /\ "load" \in Faults
    /\ serving' = Stale
    /\ loader' = Loaded
    /\ UNCHANGED adopted

\* Resident::load opens or creates the store at the path.
OpenStore ==
    /\ main # "exited"
    /\ loader.pc = "open"
    /\ \/ /\ loader' = [pc |-> "capture", store |-> dir]
          /\ UNCHANGED <<serving, adopted>>
       \/ LoadFails
    /\ UNCHANGED <<indexing, clients, quiet, main, handler, thread, done,
                   client, disk, dir>>

\* The rest of Resident::load, and the swap: the lexical and dense indexes are
\* opened (no run can commit meanwhile), then StoreIdentity::capture looks at
\* the path again.  Nobody sees the resident before the swap.
CaptureIdentity ==
    /\ main # "exited"
    /\ loader.pc = "capture"
    /\ \/ /\ serving' = Ready([gen |-> disk, store |-> loader.store,
                               identity |-> dir])
          /\ loader' = Loaded
          /\ Adopt(loader.store)
       \/ LoadFails
    /\ UNCHANGED <<indexing, clients, quiet, main, handler, thread, done,
                   client, disk, dir>>

-----------------------------------------------------------------------------
(* The accept loop *)

\* The idle timer's condition.  A running index does not count as activity.
IdleExit == clients = 0 /\ quiet /\ serving.state # "Starting"

\* The 100 ms branch of the select.
Tick ==
    /\ main = "select"
    /\ main' = IF IdleExit THEN "drain" ELSE "body"
    /\ UNCHANGED <<serving, indexing, clients, quiet, loader, handler, thread,
                   done, client, disk, dir, adopted>>

\* The accept branch: count the connection and spawn its handler.
Accept(c) ==
    /\ main = "select"
    /\ handler[c].pc = "backlog"
    /\ main' = "body"
    /\ clients' = clients + 1
    /\ handler' = [handler EXCEPT ![c].pc = "read"]
    /\ UNCHANGED <<serving, indexing, quiet, loader, thread, done, client,
                   disk, dir, adopted>>

\* The next iteration registers for the shutdown notification again.  While
\* a branch's body ran nobody was registered.
Rearm ==
    /\ main = "body"
    /\ main' = "select"
    /\ UNCHANGED <<serving, indexing, clients, quiet, loader, handler, thread,
                   done, client, disk, dir, adopted>>

\* shutdown.notify_waiters: wakes the select if it is waiting, else nothing.
Notify == IF main = "select" THEN "drain" ELSE main

\* Handlers that the JoinSet waits for.
Running(c) == handler[c].pc \notin {"away", "backlog"}

\* Slip: a connection that waits for its next frame is taken for finished.
DrainedOfRequests == \A c \in Clients : handler[c].pc \in {"away", "backlog", "read"}

\* Every handler has ended: drop the resident, remove the socket, return.
\* The process ends: index threads end with it, wherever they are, and what
\* is still in the listener's backlog is reset.
Drained == \A c \in Clients : ~Running(c)

Exit ==
    /\ main = "drain"
    /\ Drained
    /\ main' = "exited"
    /\ serving' = Starting
    /\ indexing' = FALSE
    /\ handler' = [c \in Clients |-> NoHandler]
    /\ thread' = [c \in Clients |-> NoThread]
    /\ done' = [c \in Clients |-> "none"]
    /\ client' = [c \in Clients |->
                    IF handler[c].pc = "backlog" /\ client[c].open
                    THEN [client[c] EXCEPT !.open = FALSE, !.reply = "idle",
                                           !.frame = "none"]
                    ELSE client[c]]
    /\ UNCHANGED <<clients, quiet, loader, disk, dir, adopted>>

\* idle_timeout passes without a request.
TimePasses ==
    /\ main # "exited"
    /\ ~quiet
    /\ quiet' = TRUE
    /\ UNCHANGED <<serving, indexing, clients, main, loader, handler, thread,
                   done, client, disk, dir, adopted>>

-----------------------------------------------------------------------------
(* The clients: they connect, send one frame at a time, and leave at will. *)

\* The client's end once it has received this response.
Received(reply) == [NoClient EXCEPT !.open = TRUE, !.reply = Kept(reply)]

Connect(c) ==
    /\ main # "exited"
    /\ handler[c].pc = "away"
    /\ handler' = [handler EXCEPT ![c] = [NoHandler EXCEPT !.pc = "backlog"]]
    /\ client' = [client EXCEPT ![c] = [NoClient EXCEPT !.open = TRUE]]
    /\ UNCHANGED <<serving, indexing, clients, quiet, main, loader, thread,
                   done, disk, dir, adopted>>

Send(c, r) ==
    /\ client[c].open
    /\ client[c].reply # "pending"
    /\ client' = [client EXCEPT ![c] = [NoClient EXCEPT !.open = TRUE, !.reply = "pending",
                                                      !.frame = r]]
    /\ UNCHANGED <<serving, indexing, clients, quiet, main, loader, handler,
                   thread, done, disk, dir, adopted>>

Close(c) ==
    /\ client[c].open
    /\ client' = [client EXCEPT ![c] = [NoClient EXCEPT !.frame = client[c].frame]]
    /\ UNCHANGED <<serving, indexing, clients, quiet, main, loader, handler,
                   thread, done, disk, dir, adopted>>

\* Someone replaces the store directory under the daemon.  (Before the loader
\* opens the store it makes no difference which directory is there.)
ReplaceStore ==
    /\ dir < MaxDir
    /\ loader.pc # "open" /\ main # "exited"
    /\ dir' = dir + 1
    /\ UNCHANGED <<serving, indexing, clients, quiet, main, loader, handler,
                   thread, done, client, disk, adopted>>

-----------------------------------------------------------------------------
(* A connection's handler *)

\* Slip: the connection count is not decremented.
LeaveUncounted(c) ==
    /\ handler' = [handler EXCEPT ![c] = NoHandler]
    /\ UNCHANGED clients

\* The connection's task returns and is uncounted; touch() follows.
Leave(c) ==
    /\ handler' = [handler EXCEPT ![c] = NoHandler]
    /\ clients' = clients - 1

\* write_response, then the next frame; a closed peer ends the handler.
Write(c, end) ==
    /\ client' = [client EXCEPT ![c] = IF @.open THEN end ELSE @]
    /\ IF client[c].open
       THEN /\ handler' = [handler EXCEPT ![c] =
                             [NoHandler EXCEPT !.pc = "read",
                                               !.hello = handler[c].hello]]
            /\ UNCHANGED clients
       ELSE Leave(c)

Answer(c, reply) == Write(c, Received(reply))

\* write_response, then leave the loop: the socket is closed.
AnswerAndLeave(c, reply) ==
    /\ client' = [client EXCEPT ![c] =
                    IF @.open THEN [Received(reply) EXCEPT !.open = FALSE]
                    ELSE @]
    /\ Leave(c)

\* A frame is there to be read.
HasFrame(c, r) ==
    /\ handler[c].pc = "read"
    /\ client[c].frame = r

\* A frame has been read and decoded; touch() comes before anything else.
Read(c, r) == HasFrame(c, r) /\ quiet' = FALSE

\* No request was read: only a handler that ends calls touch().
NoTouch(c) == quiet' = (quiet /\ client[c].open)

\* End of file: the only way out of the loop for a client that just leaves.
ReadEof(c) ==
    /\ HasFrame(c, "none")
    /\ ~client[c].open
    /\ Leave(c)
    /\ quiet' = FALSE
    /\ UNCHANGED <<serving, indexing, main, loader, thread, done, client,
                   disk, dir, adopted>>

\* A frame that does not decode, or is over MAX_REQUEST_BYTES: an error with
\* request id 0, and the connection goes on.
ReadMalformed(c) ==
    /\ HasFrame(c, "Malformed")
    /\ Answer(c, "Malformed")
    /\ NoTouch(c)
    /\ UNCHANGED <<serving, indexing, main, loader, thread, done, disk, dir,
                   adopted>>

\* What a request before Hello gets while the daemon cannot serve it.
BeforeHello(r) ==
    CASE serving.state = "Stale" -> "StoreStale"
      [] r = "Status" -> "Status"
      [] OTHER -> "Starting"

\* Before Hello: a stale daemon answers nothing else, a starting one knows
\* Hello and Status only, and otherwise anything but a Hello at this
\* protocol version is refused and ends the connection.
Handshake(c, r) ==
    /\ r # "Malformed"
    /\ Read(c, r)
    /\ ~handler[c].hello
    /\ \/ /\ \/ serving.state = "Stale"
             \/ serving.state = "Starting" /\ r \notin {"Hello", "BadHello"}
          /\ Answer(c, BeforeHello(r))
       \/ /\ serving.state # "Stale"
          /\ r = "Hello"
          /\ client' = [client EXCEPT ![c] =
                          IF @.open THEN Received("Hello") ELSE @]
          /\ IF client[c].open
             THEN /\ handler' = [handler EXCEPT ![c].hello = TRUE]
                  /\ UNCHANGED clients
             ELSE Leave(c)
       \/ /\ serving.state # "Stale"
          /\ r = "BadHello"
          /\ AnswerAndLeave(c, "ProtocolVersion")
       \/ /\ serving.state \in {"Ready", "Indexing"}
          /\ r \notin {"Hello", "BadHello"}
          /\ AnswerAndLeave(c, "Malformed")
    /\ UNCHANGED <<serving, indexing, main, loader, thread, done, disk, dir,
                   adopted>>

\* A second Hello is an error; Status is answered in every serving state.
ReadSimple(c) ==
    /\ handler[c].hello
    /\ \/ \E r \in {"Hello", "BadHello"} : Read(c, r) /\ Answer(c, "Malformed")
       \/ Read(c, "Status") /\ Answer(c, "Status")
    /\ UNCHANGED <<serving, indexing, main, loader, thread, done, disk, dir,
                   adopted>>

\* Shutdown: the reply, then the notification.  If the reply cannot be
\* written the handler ends before it notifies.
ReadShutdown(c) ==
    /\ handler[c].hello
    /\ Read(c, "Shutdown")
    /\ AnswerAndLeave(c, "Bye")
    /\ main' = IF client[c].open THEN Notify ELSE main
    /\ UNCHANGED <<serving, indexing, loader, thread, done, disk, dir,
                   adopted>>

\* Search and SearchSimilar queue for the semaphore first.
ReadSearch(c) ==
    /\ handler[c].hello
    /\ Read(c, "Search")
    /\ handler' = [handler EXCEPT ![c] =
                     [@ EXCEPT !.pc = "permit", !.req = "Search",
                               !.since = Committed, !.asked = dir]]
    /\ UNCHANGED <<serving, indexing, clients, main, loader, thread, done,
                   client, disk, dir, adopted>>

\* Clone the Arc the serving state holds, or answer with its error.
Target(c, since, asked) ==
    \/ /\ serving.state \in {"Ready", "Indexing"}
       /\ handler' = [handler EXCEPT ![c] =
                        [@ EXCEPT !.pc = IF serving.state = "Ready"
                                         THEN "borrow" ELSE "frozen",
                                  !.resident = serving.resident,
                                  !.since = since, !.asked = asked]]
       /\ UNCHANGED <<clients, client>>
    \/ /\ serving.state = "Starting"
       /\ Answer(c, "Starting")
    \/ /\ serving.state = "Stale"
       /\ Answer(c, "StoreStale")

\* GetSymbol takes no permit.
ReadGetSymbol(c) ==
    /\ handler[c].hello
    /\ Read(c, "GetSymbol")
    /\ Target(c, Committed, dir)
    /\ UNCHANGED <<serving, indexing, main, loader, thread, done, disk, dir,
                   adopted>>

\* Handlers that hold a permit of search_sem.
PermitHolders ==
    {c \in Clients : /\ handler[c].req = "Search"
                     /\ handler[c].pc \in {"borrow", "frozen"}}

\* Slip: one permit is never handed out.
PermitFreeOffByOne == Cardinality(PermitHolders) + 1 < Permits

PermitFree == Cardinality(PermitHolders) < Permits

AcquirePermit(c) ==
    /\ handler[c].pc = "permit"
    /\ PermitFree
    /\ Target(c, handler[c].since, handler[c].asked)
    /\ IF serving.state \in {"Ready", "Indexing"} THEN UNCHANGED quiet
       ELSE NoTouch(c)
    /\ UNCHANGED <<serving, indexing, main, loader, thread, done, disk, dir,
                   adopted>>

\* Slip: any directory at the path passes for the one captured.
StillValidIfPresent(r) == TRUE

\* check_still_valid: the directory at the path is the one captured.
StillValid(r) == r.identity = dir

\* Generations a lexical reader may serve: that of the ready resident is the
\* one its writer committed last.  The frozen view keeps a clone of the
\* reader, which the library reloads in the background whenever the index
\* thread commits.
ReaderGens(c) ==
    IF handler[c].pc = "borrow" THEN {handler[c].resident.gen}
    ELSE handler[c].resident.gen .. disk

\* The search begins with check_still_valid, on the resident's identity.  (The
\* mutex that puts the searches of a ready resident one after another is left
\* out: nothing below depends on it.)
CheckStore(c) ==
    /\ handler[c].pc \in {"borrow", "frozen"}
    /\ ~handler[c].checked
    /\ \/ /\ StillValid(handler[c].resident)
          /\ handler' = [handler EXCEPT ![c].checked = TRUE]
          /\ UNCHANGED <<clients, client, quiet>>
       \/ /\ ~StillValid(handler[c].resident)
          /\ Answer(c, "StoreStale")
          /\ NoTouch(c)
    /\ UNCHANGED <<serving, indexing, main, loader, thread, done, disk, dir,
                   adopted>>

\* Then run the search or look the symbol up in the files that are open, drop
\* the Arc, answer.  (A search that fails inside is answered by an error in
\* the same step, with no other effect; it is not told apart from "Found".)
Serve(c) ==
    /\ handler[c].pc \in {"borrow", "frozen"}
    /\ handler[c].checked
    /\ \E g \in ReaderGens(c) :
          Write(c, [Received("Found") EXCEPT
                       !.from = handler[c].resident, !.lex = g,
                       !.since = handler[c].since, !.asked = handler[c].asked])
    /\ NoTouch(c)
    /\ UNCHANGED <<serving, indexing, main, loader, thread, done, disk, dir,
                   adopted>>

-----------------------------------------------------------------------------
(* Index requests *)

\* Slip: the flag is stored, not compared and exchanged.
ClaimIndexingUnchecked == TRUE

\* The compare-and-exchange on the flag.
ClaimIndexing == ~indexing

\* Index: refuse when the flag is set, else set it and spawn the thread.
ReadIndex(c) ==
    /\ handler[c].hello
    /\ Read(c, "Index")
    /\ \/ /\ ~ClaimIndexing
          /\ Answer(c, "IndexInProgress")
          /\ UNCHANGED <<indexing, thread, done>>
       \/ /\ ClaimIndexing
          /\ indexing' = TRUE
          /\ thread' = [thread EXCEPT ![c] = [NoThread EXCEPT !.pc = "take"]]
          /\ done' = [done EXCEPT ![c] = "none"]
          /\ handler' = [handler EXCEPT ![c].pc = "index"]
          /\ UNCHANGED <<clients, client>>
    /\ UNCHANGED <<serving, main, loader, disk, dir, adopted>>

\* done_tx.send: nobody receives it if the handler is gone.
SendDone(c, result) ==
    done' = [done EXCEPT ![c] =
               IF handler[c].pc = "index" THEN result ELSE @]

\* Slip: the thread returns without clear_indexing.
ReturnWithFlag(c, result) ==
    /\ thread' = [thread EXCEPT ![c] = NoThread]
    /\ UNCHANGED indexing
    /\ SendDone(c, result)

\* clear_indexing and done_tx.send: the thread returns.
Return(c, result) ==
    /\ thread' = [thread EXCEPT ![c] = NoThread]
    /\ indexing' = FALSE
    /\ SendDone(c, result)

\* Slip: the resident is taken although its Arc is shared.
BorrowedNever == FALSE

\* Handlers with a clone of the ready resident's Arc: try_unwrap fails.
Borrowed == \E c \in Clients : handler[c].pc = "borrow"

\* Under the write lock: take the resident out, or put back what was there.
TakeResident(c) ==
    /\ thread[c].pc = "take"
    /\ \/ /\ serving.state = "Ready"
          /\ ~Borrowed
          /\ serving' = Starting
          /\ thread' = [thread EXCEPT ![c] = [@ EXCEPT !.pc = "split",
                                                 !.resident = serving.resident]]
          /\ UNCHANGED <<indexing, done>>
       \/ /\ serving.state = "Ready"
          /\ Borrowed
          /\ Return(c, "Borrowed")
          /\ UNCHANGED serving
       \/ /\ serving.state # "Ready"
          /\ Return(c, "NotReady")
          /\ UNCHANGED serving
    /\ UNCHANGED <<clients, quiet, main, loader, handler, client, disk, dir,
                   adopted>>

\* Slip: the frozen view captures the identity anew.
FreezeRecaptured(r) == [r EXCEPT !.identity = dir]

\* What the frozen view keeps of the resident: its dense index, its records
\* and bodies, and a clone of its identity.
Freeze(r) == r

\* split_for_index: publish the frozen view.  If it fails, the serving state
\* is left as TakeResident set it.
SplitForIndex(c) ==
    /\ thread[c].pc = "split"
    /\ \/ /\ serving' = Indexing(Freeze(thread[c].resident))
          /\ thread' = [thread EXCEPT ![c].pc = "run"]
          /\ UNCHANGED <<indexing, done>>
       \/ /\ "split" \in Faults
          /\ Return(c, "Failed")
          /\ UNCHANGED serving
    /\ UNCHANGED <<clients, quiet, main, loader, handler, client, disk, dir,
                   adopted>>

\* run_index: one lexical commit of the run.
CommitLexical(c) ==
    /\ thread[c].pc = "run"
    /\ disk < MaxGen
    /\ disk' = disk + 1
    /\ UNCHANGED <<serving, indexing, clients, quiet, main, loader, handler,
                   thread, done, client, dir, adopted>>

\* Slip: the dense half keeps the rows of before the run.
RebuildWithoutRefresh(c) == [gen |-> thread[c].resident.gen,
                             store |-> thread[c].resident.store,
                             identity |-> dir]

\* rebuild_resident on the store handle the thread owns: the generation on
\* disk, and the identity of whatever directory is at the path now.
Rebuild(c) == [gen |-> disk, store |-> thread[c].resident.store,
               identity |-> dir]

\* The run is over and verified: swap the rebuilt resident in, which nobody sees
\* before, or go stale.  The run may fail on any error, and fails or not on a
\* replaced directory depending on what is in it.
FinishRun(c) ==
    /\ thread[c].pc = "run"
    /\ \/ /\ serving' = Ready(Rebuild(c))
          /\ thread' = [thread EXCEPT ![c] = [@ EXCEPT !.pc = "clear",
                                                       !.result = "IndexDone"]]
          /\ Adopt(thread[c].resident.store)
       \/ /\ "index" \in Faults \/ thread[c].resident.store # dir
          /\ serving' = Stale
          /\ thread' = [thread EXCEPT ![c] = [@ EXCEPT !.pc = "clear",
                                                       !.result = "Failed"]]
          /\ UNCHANGED adopted
    /\ UNCHANGED <<indexing, clients, quiet, main, loader, handler, done,
                   client, disk, dir>>

ClearIndexing(c) ==
    /\ thread[c].pc = "clear"
    /\ Return(c, thread[c].result)
    /\ UNCHANGED <<serving, clients, quiet, main, loader, handler, client,
                   disk, dir, adopted>>

\* The thread panics: its senders are dropped and nothing else happens.
Panic(c) ==
    /\ "panic" \in Faults
    /\ thread[c].pc \in {"split", "run"}
    /\ thread' = [thread EXCEPT ![c] = NoThread]
    /\ SendDone(c, "Vanished")
    /\ UNCHANGED <<serving, indexing, clients, quiet, main, loader, handler,
                   client, disk, dir, adopted>>

\* The requester's select loop: the result arrives.
TakeDone(c) ==
    /\ handler[c].pc = "index"
    /\ done[c] # "none"
    /\ Answer(c, done[c])
    /\ NoTouch(c)
    /\ done' = [done EXCEPT ![c] = "none"]
    /\ UNCHANGED <<serving, indexing, main, loader, thread, disk, dir,
                   adopted>>

\* A progress frame cannot be written: the requester went away.  The thread
\* is detached and goes on.
ProgressFails(c) ==
    /\ handler[c].pc = "index"
    /\ thread[c].pc = "run"
    /\ ~client[c].open
    /\ Leave(c)
    /\ quiet' = FALSE
    /\ UNCHANGED <<serving, indexing, main, loader, thread, done, client,
                   disk, dir, adopted>>

-----------------------------------------------------------------------------
LoadStep == OpenStore \/ CaptureIdentity

HandlerStep(c) ==
    \/ ReadEof(c)
    \/ ReadMalformed(c)
    \/ \E r \in Requests : Handshake(c, r)
    \/ ReadSimple(c)
    \/ ReadShutdown(c)
    \/ ReadSearch(c)
    \/ ReadGetSymbol(c)
    \/ ReadIndex(c)
    \/ CheckStore(c)
    \/ Serve(c)
    \/ TakeDone(c)
    \/ ProgressFails(c)

ThreadStep(c) ==
    \/ TakeResident(c)
    \/ SplitForIndex(c)
    \/ FinishRun(c)
    \/ ClearIndexing(c)

Next ==
    \/ LoadStep
    \/ Tick
    \/ Rearm
    \/ Exit
    \/ TimePasses
    \/ ReplaceStore
    \/ \E c \in Clients :
          \/ Connect(c)
          \/ \E r \in Requests : Send(c, r)
          \/ Close(c)
          \/ Accept(c)
          \/ AcquirePermit(c)
          \/ HandlerStep(c)
          \/ ThreadStep(c)
          \/ CommitLexical(c)
          \/ Panic(c)

Spec == Init /\ [][Next]_vars

\* The runtime polls every ready task and the kernel every runnable thread;
\* the semaphore is first-in first-out and the select reaches its accept
\* branch in every 100 ms.  Nothing is assumed of the clients.
Fairness ==
    /\ WF_vars(LoadStep)
    /\ SF_vars(Tick)
    /\ WF_vars(Rearm)
    /\ WF_vars(Exit)
    /\ WF_vars(TimePasses)
    /\ \A c \in Clients :
          /\ SF_vars(Accept(c))
          /\ SF_vars(AcquirePermit(c))
          /\ WF_vars(HandlerStep(c))
          /\ WF_vars(ThreadStep(c))

FairSpec == Spec /\ Fairness

-----------------------------------------------------------------------------
(* Properties *)

\* Every variable holds a value the program can hold.
TypeOK ==
    /\ serving \in ServingState
    /\ indexing \in BOOLEAN
    /\ clients \in 0 .. Cardinality(Clients)
    /\ quiet \in BOOLEAN
    /\ main \in {"select", "body", "drain", "exited"}
    /\ loader \in Loaders
    /\ handler \in [Clients -> Handlers]
    /\ thread \in [Clients -> Threads]
    /\ done \in [Clients -> Results]
    /\ client \in [Clients -> ClientEnds]
    /\ disk \in Gens
    /\ dir \in Dirs
    /\ adopted \subseteq Dirs

\* A thread that owns the store's parts.
OwnsStore(c) == thread[c].pc \in {"split", "run"}

\* The store has a single writer (dispatch_request, Index): while an index
\* thread owns it no other thread does, no search holds the resident it was
\* taken from, and no new one can get it.
SingleWriter ==
    \A c \in Clients : OwnsStore(c) =>
        /\ \A d \in Clients \ {c} : ~OwnsStore(d)
        /\ \A d \in Clients : handler[d].pc # "borrow"
        /\ serving.state # "Ready"

\* The indexing flag is set while a thread is between its spawn and its return,
\* on every path through it: a request that is refused, or a run that fails,
\* neither leaves it set nor clears another's.  Only a thread that panicked
\* leaves it set, and then the store was taken out of service with it.
IndexFlagExact ==
    /\ \A c \in Clients : thread[c].pc # "none" => indexing
    /\ indexing => \/ \E c \in Clients : thread[c].pc # "none"
                   \/ /\ "panic" \in Faults
                      /\ serving.state \in {"Starting", "Indexing"}

\* connected_clients counts the handlers that are running, whichever way the
\* others ended; the idle timer relies on it.
ClientCountExact == clients = Cardinality({c \in Clients : Running(c)})

\* At most one index thread, and only while the flag is set.
ThreadPart ==
    \A c \in Clients : thread[c].pc # "none" =>
        /\ indexing
        /\ \A d \in Clients \ {c} : thread[d].pc = "none"

\* A flag that is set with no thread is what a panic left behind: the loader
\* is done and the store out of service, so no Ready will come any more.
FlagPart ==
    indexing /\ (\A c \in Clients : thread[c].pc = "none") =>
        /\ "panic" \in Faults
        /\ serving.state \in {"Starting", "Indexing"}
        /\ ~Loading

\* Where the resident is: with the loader, with the thread that took it out,
\* or shared between a run and the frozen view it published.
StorePart ==
    /\ Loading => /\ serving.state = "Starting"
                  /\ \A c \in Clients : thread[c].pc \in {"none", "take"}
    /\ \A c \in Clients :
         /\ thread[c].pc = "split" => /\ serving.state = "Starting"
                                      /\ thread[c].resident.gen = disk
         /\ thread[c].pc = "run" => serving = Indexing(thread[c].resident)

\* A search holds the ready resident only while no thread owns the store.
BorrowPart ==
    \A c, d \in Clients : handler[c].pc = "borrow" =>
        thread[d].pc \notin {"split", "run"}

\* An open connection has a handler or is in the backlog; none outlives the
\* daemon.
EndPart ==
    /\ \A c \in Clients : client[c].open => handler[c].pc # "away"
    /\ main = "exited" => \A c \in Clients : handler[c].pc = "away"

\* What is served is never older than what a waiting or running search must
\* see: a ready resident is at the last commit, a frozen view at the last
\* one before the run.
GenPart ==
    /\ serving.state = "Ready" => serving.resident.gen = disk
    /\ serving.state = "Indexing" => serving.resident.gen <= disk
    /\ \A c \in Clients :
         /\ handler[c].pc = "permit" =>
              /\ handler[c].since <= disk
              /\ serving.state = "Indexing" =>
                    handler[c].since <= serving.resident.gen
         /\ handler[c].pc \in {"borrow", "frozen"} =>
              /\ handler[c].since <= handler[c].resident.gen
              /\ handler[c].resident.gen <= disk

\* Whose files a resident has open is known by its identity, however it was
\* loaded, taken, frozen, rebuilt or cloned, except where the identity is
\* adopted; and a search that has passed its check, or been answered, has the
\* identity of a directory no older than the one it was asked of.
IdentityPart ==
    /\ \A c \in Clients : \A r \in {serving.resident, thread[c].resident,
                                    handler[c].resident, client[c].from} :
         r.identity = r.store \/ r.identity \in adopted
    /\ \A c \in Clients :
         /\ handler[c].asked <= dir
         /\ handler[c].checked => /\ handler[c].pc \in {"borrow", "frozen"}
                                  /\ handler[c].asked <=
                                        handler[c].resident.identity
         /\ client[c].asked <= client[c].from.identity

\* The state is one the program can be in: the count of clients follows every
\* way a connection can end (the task serve spawns), and the flag, the thread,
\* the serving state, the searches and the commits agree with one another.
DaemonInv ==
    /\ TypeOK
    /\ ClientCountExact
    /\ ThreadPart
    /\ FlagPart
    /\ StorePart
    /\ BorrowPart
    /\ EndPart
    /\ GenPart
    /\ IdentityPart

\* serve() returns only when no accepted client is still owed an answer:
\* in-flight requests complete on shutdown and on idle exit.
ExitAnswersEveryone ==
    main = "exited" =>
        \A c \in Clients : client[c].open => client[c].reply # "pending"

\* A search sees everything that was committed before it was asked: new
\* searches see the new resident after a swap, wherever they queued.  The
\* lexical documents it reads are never older than the records it answers
\* with; they may be newer, since the reader of a frozen view moves on.
SearchesSeeCommitted ==
    \A c \in Clients : client[c].reply = "Found" =>
        /\ client[c].from.gen >= client[c].since
        /\ client[c].lex >= client[c].from.gen

\* A request that is read after the store directory was replaced is not
\* answered from the files of the replaced one: whichever way the daemon came
\* by its resident and wherever the request waited, check_still_valid refuses
\* it.  The exceptions are the two places that capture an identity for files
\* opened before, when the replacement fell in between: the load in progress,
\* and an index run that succeeded all the same.  They do not outlast the
\* next replacement.
RefusesReplacedStore ==
    \A c \in Clients : client[c].reply = "Found" =>
        \/ client[c].from.store >= client[c].asked
        \/ \E d \in adopted : d >= client[c].asked

\* A request on an accepted connection is answered, or the client leaves.
Answered ==
    \A c \in Clients :
        (handler[c].pc = "read" /\ client[c].reply = "pending")
            ~> (client[c].reply # "pending" \/ ~client[c].open)

\* The indexing flag is always released: a later index request can run.
IndexFlagReleased == indexing ~> ~indexing

\* Once no client is connected any more the daemon exits.
IdleDaemonExits ==
    <>[](\A c \in Clients : handler[c].pc = "away") => <>(main = "exited")
=============================================================================
