-------------------------- MODULE LifecycleProofs --------------------------
(***************************************************************************)
(* Theorems about Lifecycle, for any number of clients and daemons, any    *)
(* requests and any number of kills.                                       *)
(*                                                                         *)
(* The argument.  LifecycleInv is inductive.  Its parts are proved one by  *)
(* one, each over the actions that change what the part is about; the      *)
(* other actions leave its variables alone.  The lock is what everything   *)
(* rests on: LockPart makes the phases that touch the socket's path        *)
(* exclusive, so SocketPart survives other processes; UndisturbedPart says *)
(* why losing the race for the lock is harmless.                           *)
(***************************************************************************)
EXTENDS Lifecycle, TLAPS

USE DEF Phases, Starting, Works, ClientPcs

\* Steps that change nothing but one client's record.
ClientOnly(c) ==
    \/ \E d \in Daemons :
         \/ Accept(d, c) \/ AnswerHello(d, c) \/ AnswerSearch(d, c)
         \/ RefuseStale(d, c) \/ RefuseIndex(d, c)
    \/ \E r \in Requests : InvokeUnconnected(c, r) \/ InvokeConnected(c, r)
    \/ Probe(c) \/ GiveUp(c) \/ Connect(c) \/ ConnectFails(c)
    \/ ConnectionLost(c) \/ Leave(c)

\* What all of them leave alone: files, processes and threads.
LEMMA ClientOnlyFrame ==
    ASSUME NEW c \in Clients, ClientOnly(c)
    PROVE  UNCHANGED <<runtimeDir, lock, socket, proc, work, faults>>
BY DEF ClientOnly, Accept, AnswerHello, AnswerSearch, RefuseStale, RefuseIndex,
       InvokeUnconnected, InvokeConnected, Probe, GiveUp, Connect,
       ConnectFails, ConnectionLost, Leave

\* The initial state satisfies the invariant: no process and no file.
LEMMA InitInv == Init => LifecycleInv
<1> SUFFICES ASSUME Init PROVE LifecycleInv
  OBVIOUS
<1>1. TypeOK
  <2>1. NewClient \in ClientStates
    BY DEF ClientStates, NewClient
  <2>2. faults \in 0 .. MaxFaults
    BY LifecycleAssumption DEF Init
  <2> QED
    BY <2>1, <2>2 DEF Init, TypeOK
<1>2. LockPart /\ SocketPart /\ WorkPart
  BY LifecycleAssumption
  DEF Init, LockPart, SocketPart, WorkPart, Holding
<1>3. UndisturbedPart /\ NobodyWaitsForTheGone /\ SearchFailsOnlyWhenDisturbed
  BY DEF Init, NewClient, UndisturbedPart, NobodyWaitsForTheGone,
         SearchFailsOnlyWhenDisturbed
<1> QED
  BY <1>1, <1>2, <1>3 DEF LifecycleInv

\* Updating some fields of a client record with values of their types leaves
\* a client record.
LEMMA RecordUpdates ==
    ASSUME NEW rec \in ClientStates, NEW pc \in ClientPcs
    PROVE  /\ [rec EXCEPT !.pc = pc] \in ClientStates
           /\ [rec EXCEPT !.accepted = TRUE] \in ClientStates
           /\ [rec EXCEPT !.disturbed = TRUE] \in ClientStates
           /\ [rec EXCEPT !.spawned = TRUE] \in ClientStates
           /\ [rec EXCEPT !.conn = None, !.accepted = FALSE] \in ClientStates
           /\ \A o \in {"none", "ok", "failed"} :
                [rec EXCEPT !.outcome = o, !.pc = pc] \in ClientStates
           /\ \A o \in {"none", "ok", "failed"} :
                [rec EXCEPT !.pc = pc, !.outcome = o] \in ClientStates
           /\ [rec EXCEPT !.pc = pc, !.outcome = "ok", !.conn = None,
                          !.accepted = FALSE] \in ClientStates
<1>1. /\ [rec EXCEPT !.pc = pc] \in ClientStates
      /\ [rec EXCEPT !.accepted = TRUE] \in ClientStates
  BY DEF ClientStates
<1>2. /\ [rec EXCEPT !.disturbed = TRUE] \in ClientStates
      /\ [rec EXCEPT !.spawned = TRUE] \in ClientStates
  BY DEF ClientStates
<1>3. [rec EXCEPT !.conn = None, !.accepted = FALSE] \in ClientStates
  BY DEF ClientStates
<1>4. ASSUME NEW o \in {"none", "ok", "failed"}
      PROVE  /\ [rec EXCEPT !.outcome = o, !.pc = pc] \in ClientStates
             /\ [rec EXCEPT !.pc = pc, !.outcome = o] \in ClientStates
  BY DEF ClientStates
<1>5. [rec EXCEPT !.pc = pc, !.outcome = "ok", !.conn = None,
                  !.accepted = FALSE] \in ClientStates
  BY DEF ClientStates
<1> QED
  BY <1>1, <1>2, <1>3, <1>4, <1>5

\* A client that starts again, or starts a call, has a well-formed record.
LEMMA NewClientType ==
    ASSUME NEW r \in Requests, NEW b \in BOOLEAN
    PROVE  /\ NewClient \in ClientStates
           /\ [NewClient EXCEPT !.pc = "probe", !.req = r, !.disturbed = b]
                \in ClientStates
BY DEF ClientStates, NewClient

\* Each client-only step leaves a well-formed client record.
LEMMA ClientOnlyType ==
    ASSUME TypeOK, NEW c \in Clients, ClientOnly(c)
    PROVE  client' \in [Clients -> ClientStates]
<1>1. client \in [Clients -> ClientStates] /\ client[c] \in ClientStates
  BY DEF TypeOK
<1>2. \A rec \in ClientStates :
        [client EXCEPT ![c] = rec] \in [Clients -> ClientStates]
  BY <1>1
<1>3. CASE \E d \in Daemons : Accept(d, c) \/ AnswerHello(d, c)
                              \/ AnswerSearch(d, c)
  <2> "call" \in ClientPcs /\ "ready" \in ClientPcs
    BY DEF ClientPcs
  <2>1. CASE \E d \in Daemons : Accept(d, c)
    BY <1>1, <1>2, <2>1, RecordUpdates DEF Accept
  <2>2. CASE \E d \in Daemons : AnswerHello(d, c)
    BY <1>1, <1>2, <2>2, RecordUpdates DEF AnswerHello
  <2>3. CASE \E d \in Daemons : AnswerSearch(d, c)
    BY <1>1, <1>2, <2>3, RecordUpdates DEF AnswerSearch
  <2> QED
    BY <1>3, <2>1, <2>2, <2>3
<1>4. Failed(c) \in [Clients -> ClientStates]
  BY <1>1, <1>2, RecordUpdates DEF Failed
<1>5. CASE \E d \in Daemons : RefuseIndex(d, c) \/ RefuseStale(d, c)
  <2>1. [client[c] EXCEPT !.pc = "none", !.outcome = "failed", !.conn = None,
                          !.accepted = FALSE] \in ClientStates
    BY <1>1 DEF ClientStates
  <2> QED
    BY <1>2, <1>4, <1>5, <2>1 DEF RefuseIndex, RefuseStale
<1>6. CASE \E r \in Requests : InvokeUnconnected(c, r)
  <2>1. Trouble \in BOOLEAN
    BY DEF Trouble
  <2>2. PICK r \in Requests : InvokeUnconnected(c, r)
    BY <1>6
  <2>3. [NewClient EXCEPT !.pc = "probe", !.req = r,
                          !.disturbed = Trouble] \in ClientStates
    BY <2>1, NewClientType
  <2> QED
    BY <1>2, <2>2, <2>3 DEF InvokeUnconnected
<1>7. CASE \E r \in Requests : InvokeConnected(c, r)
  <2>1. PICK r \in Requests : InvokeConnected(c, r)
    BY <1>7
  <2>2. [client[c] EXCEPT !.pc = "call", !.req = r, !.spawned = FALSE,
                          !.outcome = "none"] \in ClientStates
    BY <1>1 DEF ClientStates
  <2> QED
    BY <1>2, <2>1, <2>2 DEF InvokeConnected
<1>8. CASE Probe(c) \/ Connect(c)
  <2>1. CASE Probe(c)
    BY <1>1, <1>2, <2>1, RecordUpdates DEF Probe
  <2>2. CASE Connect(c)
    <3>1. socket \in Daemons
      BY <2>2 DEF Connect, Reachable
    <3>2. [client[c] EXCEPT !.pc = "hello", !.conn = socket, !.accepted = FALSE]
            \in ClientStates
      BY <1>1, <3>1 DEF ClientStates
    <3> QED
      BY <1>2, <2>2, <3>2 DEF Connect
  <2> QED
    BY <1>8, <2>1, <2>2
<1>9. CASE GiveUp(c) \/ ConnectFails(c) \/ ConnectionLost(c)
  BY <1>4, <1>9 DEF GiveUp, ConnectFails, ConnectionLost
<1>10. CASE Leave(c)
  <2>1. NewClient \in ClientStates
    BY DEF NewClient, ClientStates
  <2> QED
    BY <1>2, <1>10, <2>1 DEF Leave
<1> QED
  BY <1>3, <1>5, <1>6, <1>7, <1>8, <1>9, <1>10 DEF ClientOnly

\* Disturbed leaves well-formed client records.
LEMMA DisturbedKeepsType ==
    ASSUME NEW cl \in [Clients -> ClientStates]
    PROVE  Disturbed(cl) \in [Clients -> ClientStates]
BY DEF ClientStates, Disturbed

\* Dropping connections leaves well-formed client records.
LEMMA DroppedType ==
    ASSUME TypeOK, NEW d \in Daemons
    PROVE  Dropped(d) \in [Clients -> ClientStates]
<1>1. ASSUME NEW c \in Clients
      PROVE  [client[c] EXCEPT !.conn = None, !.accepted = FALSE] \in ClientStates
  <2>1. client[c] \in ClientStates
    BY DEF TypeOK
  <2> QED
    BY <2>1 DEF ClientStates
<1> QED
  BY <1>1 DEF TypeOK, Dropped

\* Steps of one process that no client takes part in.
ProcessStep(d) ==
    \/ LoadEmbedder(d) \/ LoadFails(d) \/ MakeRuntimeDir(d) \/ TryLock(d)
    \/ PrepareSocketPath(d) \/ Bind(d) \/ LoaderDone(d) \/ IndexDone(d)
    \/ GoStale(d)
    \/ IdleExit(d) \/ DrainAndUnlink(d) \/ Release(d) \/ End(d) \/ Kill(d)

\* Steps that change a process and one client.
JointStep(d, c) ==
    StartIndex(d, c) \/ AnswerShutdown(d, c) \/ SpawnDaemon(c, d)

\* The three kinds of steps are all there are.
LEMMA NextCases ==
    ASSUME Next
    PROVE  \/ \E c \in Clients : ClientOnly(c)
           \/ \E d \in Daemons : ProcessStep(d)
           \/ \E d \in Daemons, c \in Clients : JointStep(d, c)
BY DEF Next, DaemonStep, HandlerStep, ClientStep, ClientOnly, ProcessStep,
       JointStep

\* What Disturbed does to a client's record.
LEMMA DisturbedFields ==
    ASSUME NEW cl \in [Clients -> ClientStates], NEW c \in Clients
    PROVE  /\ Disturbed(cl)[c].disturbed
           /\ Disturbed(cl)[c].pc = cl[c].pc
           /\ Disturbed(cl)[c].conn = cl[c].conn
BY DEF Disturbed, ClientStates

\* What Dropped does to a client's record.
LEMMA DroppedFields ==
    ASSUME TypeOK, NEW d \in Daemons, NEW c \in Clients
    PROVE  /\ Dropped(d)[c].pc = client[c].pc
           /\ Dropped(d)[c].conn =
                IF client[c].conn = d THEN None ELSE client[c].conn
BY DEF TypeOK, ClientStates, Dropped

\* What a failed call does to the clients' records.
LEMMA FailedFields ==
    ASSUME TypeOK, NEW c \in Clients, NEW b \in Clients
    PROVE  /\ Failed(c)[b].conn = client[b].conn
           /\ Failed(c)[b].disturbed <=> client[b].disturbed
           /\ Failed(c)[b].spawned <=> client[b].spawned
           /\ Failed(c)[b].req = client[b].req
           /\ b # c => Failed(c)[b] = client[b]
           /\ Failed(c)[c].pc =
                IF client[c].pc \in {"call", "index"} THEN "ready" ELSE "none"
<1>1. client[c] \in ClientStates /\ client \in [Clients -> ClientStates]
  BY DEF TypeOK
<1>2. b # c => Failed(c)[b] = client[b]
  BY <1>1 DEF Failed
<1> DEFINE pc == IF client[c].pc \in {"call", "index"} THEN "ready" ELSE "none"
<1>3. Failed(c)[c] = [client[c] EXCEPT !.outcome = "failed", !.pc = pc]
  BY <1>1 DEF Failed
<1>4. /\ Failed(c)[c].conn = client[c].conn
      /\ Failed(c)[c].disturbed <=> client[c].disturbed
      /\ Failed(c)[c].spawned <=> client[c].spawned
      /\ Failed(c)[c].req = client[c].req
      /\ Failed(c)[c].pc = pc
  BY <1>1, <1>3 DEF ClientStates
<1> QED
  BY <1>2, <1>4

\* What a failed load or run does to the clients' records: every one of them
\* is disturbed, and who waited for the run waits no more.
LEMMA StaleFields ==
    ASSUME TypeOK, NEW d \in Daemons, GoStale(d)
    PROVE  /\ \E cl \in [Clients -> ClientStates] : client' = Disturbed(cl)
           /\ client' \in [Clients -> ClientStates]
           /\ \A c \in Clients :
                /\ client'[c].conn = client[c].conn
                /\ client'[c].pc = IF client[c].pc = "index" /\ client[c].conn = d
                                   THEN "ready" ELSE client[c].pc
<1> DEFINE cl == [c \in Clients |->
                    IF client[c].pc = "index" /\ client[c].conn = d
                    THEN [client[c] EXCEPT !.pc = "ready", !.outcome = "failed"]
                    ELSE client[c]]
<1>1. ASSUME NEW c \in Clients
      PROVE  /\ cl[c] \in ClientStates
             /\ cl[c].conn = client[c].conn
             /\ cl[c].pc = IF client[c].pc = "index" /\ client[c].conn = d
                           THEN "ready" ELSE client[c].pc
  <2>1. client[c] \in ClientStates
    BY DEF TypeOK
  <2> QED
    BY <2>1 DEF ClientStates
<1>2. cl \in [Clients -> ClientStates] /\ client' = Disturbed(cl)
  BY <1>1 DEF GoStale
<1> HIDE DEF cl
<1> QED
  BY <1>1, <1>2, DisturbedKeepsType, DisturbedFields

\* What a stale daemon's refusal does to the clients' records.
LEMMA RefusedFields ==
    ASSUME TypeOK, NEW d \in Daemons, NEW c \in Clients, RefuseStale(d, c)
    PROVE  /\ client'[c].disturbed <=> client[c].disturbed
           /\ \A b \in Clients \ {c} : client'[b] = client[b]
<1>1. CASE client' = Failed(c)
  BY <1>1, FailedFields
<1>2. CASE client' = [client EXCEPT ![c] =
             [@ EXCEPT !.pc = "none", !.outcome = "failed", !.conn = None,
                       !.accepted = FALSE]]
  BY <1>2 DEF TypeOK, ClientStates
<1> QED
  BY <1>1, <1>2 DEF RefuseStale

\* Every step keeps the types.
LEMMA TypeStep ==
    ASSUME TypeOK, Next
    PROVE  TypeOK'
<1>1. CASE \E c \in Clients : ClientOnly(c)
  BY <1>1, ClientOnlyFrame, ClientOnlyType DEF TypeOK
<1>2. ASSUME NEW d \in Daemons, ProcessStep(d) PROVE TypeOK'
  <2>1. CASE LoadEmbedder(d) \/ MakeRuntimeDir(d) \/ TryLock(d)
             \/ PrepareSocketPath(d) \/ LoaderDone(d) \/ DrainAndUnlink(d)
             \/ End(d)
    BY <2>1 DEF TypeOK, LoadEmbedder, MakeRuntimeDir, TryLock,
                PrepareSocketPath, LoaderDone, DrainAndUnlink, End
  <2>2. CASE Bind(d)
    BY <2>2 DEF TypeOK, Bind
  <2>3. CASE IndexDone(d)
    <3>1. client' \in [Clients -> ClientStates]
      BY <2>3, RecordUpdates DEF TypeOK, IndexDone
    <3> QED
      BY <2>3, <3>1 DEF TypeOK, IndexDone
  <2>4. CASE LoadFails(d) \/ Kill(d)
    <3>1. faults' \in 0 .. MaxFaults
      BY <2>4, LifecycleAssumption DEF TypeOK, LoadFails, Kill
    <3>2. client' \in [Clients -> ClientStates]
      BY <2>4, DisturbedKeepsType, DroppedType DEF TypeOK, LoadFails, Kill
    <3> QED
      BY <2>4, <3>1, <3>2 DEF TypeOK, LoadFails, Kill
  <2>6. CASE GoStale(d)
    <3>1. faults' \in 0 .. MaxFaults
      <4>1. faults < MaxFaults /\ faults' = faults + 1
        BY <2>6 DEF GoStale
      <4> QED
        BY <4>1, LifecycleAssumption DEF TypeOK
    <3>2. client' \in [Clients -> ClientStates]
      BY <2>6, StaleFields
    <3> QED
      BY <2>6, <3>1, <3>2 DEF TypeOK, GoStale
  <2>5. CASE IdleExit(d) \/ Release(d)
    <3>1. client' \in [Clients -> ClientStates]
      BY <2>5, DisturbedKeepsType, DroppedType DEF TypeOK, IdleExit, Release
    <3> QED
      BY <2>5, <3>1 DEF TypeOK, IdleExit, Release
  <2> QED
    BY <1>2, <2>1, <2>2, <2>3, <2>4, <2>5, <2>6 DEF ProcessStep
<1>3. ASSUME NEW d \in Daemons, NEW c \in Clients, JointStep(d, c)
      PROVE  TypeOK'
  <2>1. client[c] \in ClientStates
    BY DEF TypeOK
  <2>2. \A rec \in ClientStates :
          [client EXCEPT ![c] = rec] \in [Clients -> ClientStates]
    BY DEF TypeOK
  <2>3. CASE StartIndex(d, c)
    BY <2>1, <2>2, <2>3, RecordUpdates DEF TypeOK, StartIndex
  <2>4. CASE AnswerShutdown(d, c)
    <3> DEFINE cl == [client EXCEPT ![c] =
                        [@ EXCEPT !.pc = "ready", !.outcome = "ok",
                                  !.conn = None, !.accepted = FALSE]]
    <3>1. cl \in [Clients -> ClientStates]
      BY <2>1, <2>2, RecordUpdates
    <3>2. client' \in [Clients -> ClientStates]
      BY <2>4, <3>1, DisturbedKeepsType DEF AnswerShutdown
    <3> QED
      BY <2>4, <3>2 DEF TypeOK, AnswerShutdown
  <2>5. CASE SpawnDaemon(c, d)
    BY <2>1, <2>2, <2>5, RecordUpdates DEF TypeOK, SpawnDaemon
  <2> QED
    BY <1>3, <2>3, <2>4, <2>5 DEF JointStep
<1> QED
  BY <1>1, <1>2, <1>3, NextCases

\* The lock belongs to the one process between try_lock and the end of serve.
LEMMA LockStep ==
    ASSUME LifecycleInv, Next
    PROVE  LockPart'
<1> USE LifecycleAssumption DEF LifecycleInv, TypeOK, LockPart, Holding
<1>1. CASE \E c \in Clients : ClientOnly(c)
  BY <1>1, ClientOnlyFrame
<1>2. ASSUME NEW d \in Daemons, ProcessStep(d) PROVE LockPart'
  <2>1. CASE LoadEmbedder(d) \/ LoadFails(d) \/ MakeRuntimeDir(d) \/ TryLock(d)
    BY <2>1 DEF LoadEmbedder, LoadFails, MakeRuntimeDir, TryLock
  <2>2. CASE PrepareSocketPath(d) \/ Bind(d)
    BY <2>2 DEF PrepareSocketPath, Bind
  <2>3. CASE LoaderDone(d) \/ IndexDone(d) \/ GoStale(d)
    BY <2>3 DEF LoaderDone, IndexDone, GoStale
  <2>4. CASE IdleExit(d) \/ DrainAndUnlink(d)
    BY <2>4 DEF IdleExit, DrainAndUnlink
  <2>5. CASE Release(d) \/ End(d)
    BY <2>5 DEF Release, End
  <2>6. CASE Kill(d)
    BY <2>6 DEF Kill
  <2> QED
    BY <1>2, <2>1, <2>2, <2>3, <2>4, <2>5, <2>6 DEF ProcessStep
<1>3. ASSUME NEW d \in Daemons, NEW c \in Clients, JointStep(d, c)
      PROVE  LockPart'
  BY <1>3 DEF JointStep, StartIndex, AnswerShutdown, SpawnDaemon, Handles
<1> QED
  BY <1>1, <1>2, <1>3, NextCases

\* A serving daemon's socket stays at the path: whoever removes or creates a
\* file there holds the lock.
LEMMA SocketStep ==
    ASSUME LifecycleInv, Next
    PROVE  SocketPart'
<1> USE LifecycleAssumption
    DEF LifecycleInv, TypeOK, LockPart, Holding, SocketPart
<1>1. CASE \E c \in Clients : ClientOnly(c)
  BY <1>1, ClientOnlyFrame
<1>2. ASSUME NEW d \in Daemons, ProcessStep(d) PROVE SocketPart'
  <2>1. CASE LoadEmbedder(d) \/ LoadFails(d) \/ MakeRuntimeDir(d) \/ TryLock(d)
    BY <2>1 DEF LoadEmbedder, LoadFails, MakeRuntimeDir, TryLock
  <2>2. CASE PrepareSocketPath(d)
    BY <2>2 DEF PrepareSocketPath
  <2>3. CASE Bind(d)
    BY <2>3 DEF Bind
  <2>4. CASE LoaderDone(d) \/ IndexDone(d) \/ GoStale(d)
    BY <2>4 DEF LoaderDone, IndexDone, GoStale
  <2>5. CASE IdleExit(d)
    BY <2>5 DEF IdleExit
  <2>6. CASE DrainAndUnlink(d)
    BY <2>6 DEF DrainAndUnlink
  <2>7. CASE Release(d) \/ End(d)
    BY <2>7 DEF Release, End
  <2>8. CASE Kill(d)
    BY <2>8 DEF Kill
  <2> QED
    BY <1>2, <2>1, <2>2, <2>3, <2>4, <2>5, <2>6, <2>7, <2>8 DEF ProcessStep
<1>3. ASSUME NEW d \in Daemons, NEW c \in Clients, JointStep(d, c)
      PROVE  SocketPart'
  BY <1>3 DEF JointStep, StartIndex, AnswerShutdown, SpawnDaemon, Handles
<1> QED
  BY <1>1, <1>2, <1>3, NextCases

\* A thread is at work on the store only in a process that has bound.
LEMMA WorkStep ==
    ASSUME LifecycleInv, Next
    PROVE  WorkPart'
<1> USE DEF LifecycleInv, TypeOK, WorkPart
<1>1. CASE \E c \in Clients : ClientOnly(c)
  BY <1>1, ClientOnlyFrame
<1>2. ASSUME NEW d \in Daemons, ProcessStep(d) PROVE WorkPart'
  <2>1. CASE LoadEmbedder(d) \/ LoadFails(d) \/ MakeRuntimeDir(d) \/ TryLock(d)
    BY <2>1 DEF LoadEmbedder, LoadFails, MakeRuntimeDir, TryLock
  <2>2. CASE PrepareSocketPath(d) \/ Bind(d)
    BY <2>2 DEF PrepareSocketPath, Bind
  <2>3. CASE LoaderDone(d) \/ IndexDone(d) \/ GoStale(d)
    BY <2>3 DEF LoaderDone, IndexDone, GoStale
  <2>4. CASE IdleExit(d) \/ DrainAndUnlink(d)
    BY <2>4 DEF IdleExit, DrainAndUnlink
  <2>5. CASE Release(d) \/ End(d) \/ Kill(d)
    BY <2>5 DEF Release, End, Kill
  <2> QED
    BY <1>2, <2>1, <2>2, <2>3, <2>4, <2>5 DEF ProcessStep
<1>3. ASSUME NEW d \in Daemons, NEW c \in Clients, JointStep(d, c)
      PROVE  WorkPart'
  BY <1>3 DEF JointStep, StartIndex, AnswerShutdown, SpawnDaemon, Handles
<1> QED
  BY <1>1, <1>2, <1>3, NextCases

\* What the end of a run changes in a client's record.
LEMMA IndexDoneFields ==
    ASSUME client \in [Clients -> ClientStates],
           NEW d \in Daemons, IndexDone(d), NEW c \in Clients
    PROVE  /\ client'[c].conn = client[c].conn
           /\ client'[c].disturbed = client[c].disturbed
           /\ client'[c].spawned = client[c].spawned
           /\ client'[c].req = client[c].req
           /\ \/ client'[c].outcome = client[c].outcome
              \/ client'[c].outcome = "ok"
           /\ client'[c].pc = IF client[c].pc = "index" /\ client[c].conn = d
                              THEN "ready" ELSE client[c].pc
<1>1. CASE client[c].pc = "index" /\ client[c].conn = d
  <2>1. client'[c] = [client[c] EXCEPT !.pc = "ready", !.outcome = "ok"]
    BY <1>1 DEF IndexDone
  <2>2. client[c] \in ClientStates
    OBVIOUS
  <2>3. /\ client'[c].conn = client[c].conn
        /\ client'[c].disturbed = client[c].disturbed
        /\ client'[c].spawned = client[c].spawned
        /\ client'[c].req = client[c].req
        /\ client'[c].outcome = "ok"
        /\ client'[c].pc = "ready"
    BY <2>1, <2>2 DEF ClientStates
  <2> QED
    BY <1>1, <2>3
<1>2. CASE ~(client[c].pc = "index" /\ client[c].conn = d)
  <2>1. client'[c] = client[c]
    BY <1>2 DEF IndexDone
  <2> QED
    BY <1>2, <2>1
<1> QED
  BY <1>1, <1>2

\* A step that disturbs every client: what it leaves to an undisturbed client
\* is vacuous.
LEMMA AllDisturbed ==
    ASSUME NEW cl \in [Clients -> ClientStates], client' = Disturbed(cl)
    PROVE  UndisturbedPart' /\ SearchFailsOnlyWhenDisturbed'
BY DisturbedFields DEF UndisturbedPart, SearchFailsOnlyWhenDisturbed

\* Only a client that knows of a failure is refused by a stale daemon.
LEMMA RefusedIsDisturbed ==
    ASSUME LifecycleInv, NEW c \in Clients, NEW d \in Daemons, RefuseStale(d, c)
    PROVE  client[c].disturbed
<1>1. proc[d] \in {"serve", "drain"} /\ work[d] = "stale"
  BY DEF RefuseStale, Handles
<1>2. Trouble /\ client[c].pc # "none"
  BY <1>1 DEF Trouble, RefuseStale
<1> QED
  BY <1>2 DEF LifecycleInv, UndisturbedPart

\* An undisturbed client keeps a daemon, or one that is on its way.
LEMMA UndisturbedStep ==
    ASSUME LifecycleInv, Next
    PROVE  UndisturbedPart'
<1> USE DEF LifecycleInv
<1>1. ASSUME NEW c \in Clients, ClientOnly(c) PROVE UndisturbedPart'
  <2> USE ClientOnlyFrame DEF TypeOK, ClientStates, UndisturbedPart,
          Trouble, Coming
  <2>1. CASE \E d \in Daemons : Accept(d, c) \/ AnswerHello(d, c)
                                \/ AnswerSearch(d, c)
    <3>1. CASE \E d \in Daemons : Accept(d, c)
      BY <1>1, <3>1 DEF Accept
    <3>2. CASE \E d \in Daemons : AnswerHello(d, c)
      BY <1>1, <3>2 DEF AnswerHello
    <3>3. CASE \E d \in Daemons : AnswerSearch(d, c)
      BY <1>1, <3>3 DEF AnswerSearch
    <3> QED
      BY <2>1, <3>1, <3>2, <3>3
  <2>8. CASE \E d \in Daemons : RefuseStale(d, c)
    <3>1. client[c].disturbed
      BY <2>8, RefusedIsDisturbed
    <3>2. /\ client'[c].disturbed
          /\ \A b \in Clients \ {c} : client'[b] = client[b]
      BY <2>8, <3>1, RefusedFields
    <3> QED
      BY <1>1, <3>2
  <2>2. CASE (\E d \in Daemons : RefuseIndex(d, c)) \/ GiveUp(c)
             \/ ConnectFails(c) \/ ConnectionLost(c)
    <3>1. client' = Failed(c) /\ client[c].pc # "none"
      BY <2>2 DEF RefuseIndex, GiveUp, ConnectFails, ConnectionLost
    <3> QED
      BY <1>1, <3>1, FailedFields
  <2>3. CASE \E r \in Requests : InvokeUnconnected(c, r)
    BY <1>1, <2>3 DEF InvokeUnconnected, NewClient
  <2>4. CASE \E r \in Requests : InvokeConnected(c, r)
    BY <1>1, <2>4 DEF InvokeConnected
  <2>5. CASE Probe(c)
    BY <1>1, <2>5 DEF Probe, Reachable
  <2>6. CASE Connect(c)
    BY <1>1, <2>6, LifecycleAssumption DEF Connect, Reachable
  <2>7. CASE Leave(c)
    BY <1>1, <2>7 DEF Leave, NewClient
  <2> QED
    BY <1>1, <2>1, <2>2, <2>3, <2>4, <2>5, <2>6, <2>7, <2>8 DEF ClientOnly
<1>2. ASSUME NEW d \in Daemons, ProcessStep(d) PROVE UndisturbedPart'
  <2>1. CASE LoadEmbedder(d) \/ PrepareSocketPath(d) \/ LoaderDone(d)
    BY <2>1 DEF TypeOK, UndisturbedPart, Trouble, Coming,
                LoadEmbedder, PrepareSocketPath, LoaderDone
  <2>2. CASE MakeRuntimeDir(d)
    BY <2>2 DEF TypeOK, UndisturbedPart, Trouble, Coming, MakeRuntimeDir
  <2>3. CASE TryLock(d)
    BY <2>3 DEF TypeOK, UndisturbedPart, Trouble, Coming, TryLock,
                LockPart, Holding
  <2>4. CASE Bind(d)
    BY <2>4 DEF TypeOK, UndisturbedPart, Trouble, Coming, Bind,
                SocketPart
  <2>5. CASE IndexDone(d)
    <3>1. ASSUME NEW c \in Clients
          PROVE  /\ client'[c].conn = client[c].conn
                 /\ client'[c].disturbed <=> client[c].disturbed
                 /\ client'[c].spawned <=> client[c].spawned
                 /\ \/ client'[c].pc = client[c].pc
                    \/ client[c].pc = "index" /\ client'[c].pc = "ready"
      BY <2>5, IndexDoneFields DEF TypeOK
    <3>2. /\ proc' = proc /\ runtimeDir' = runtimeDir
          /\ work[d] = "index" /\ work' = [work EXCEPT ![d] = "none"]
      BY <2>5 DEF IndexDone
    <3>3. /\ Trouble' <=> Trouble
          /\ \A e \in Daemons : Coming(e)' <=> Coming(e)
      BY <3>2 DEF Trouble, Coming, TypeOK
    <3>4. ASSUME NEW c \in Clients, ~client'[c].disturbed
          PROVE  /\ client'[c].pc # "none" => ~Trouble'
                 /\ client'[c].pc = "probe" /\ client'[c].spawned =>
                        \E e \in Daemons : Coming(e)'
                 /\ client'[c].pc = "connect" =>
                        \E e \in Daemons : proc'[e] = "serve"
                 /\ client'[c].pc \in {"hello", "ready", "call", "index"} =>
                        client'[c].conn # None
      BY <3>1, <3>2, <3>3, <3>4 DEF UndisturbedPart
    <3> QED
      BY <3>4 DEF UndisturbedPart
  <2>6. CASE LoadFails(d) \/ IdleExit(d) \/ Release(d) \/ Kill(d)
    BY <2>6, AllDisturbed, DroppedType
    DEF TypeOK, LoadFails, IdleExit, Release, Kill
  <2>7. CASE DrainAndUnlink(d) \/ End(d)
    BY <2>7 DEF TypeOK, UndisturbedPart, Trouble, Coming,
                DrainAndUnlink, End
  <2>8. CASE GoStale(d)
    BY <2>8, StaleFields, AllDisturbed
  <2> QED
    BY <1>2, <2>1, <2>2, <2>3, <2>4, <2>5, <2>6, <2>7, <2>8 DEF ProcessStep
<1>3. ASSUME NEW d \in Daemons, NEW c \in Clients, JointStep(d, c)
      PROVE  UndisturbedPart'
  <2>1. CASE StartIndex(d, c)
    BY <2>1 DEF TypeOK, ClientStates, UndisturbedPart, Trouble, Coming,
                StartIndex
  <2>2. CASE AnswerShutdown(d, c)
    <3>1. client[c] \in ClientStates
      BY DEF TypeOK
    <3>2. [client EXCEPT ![c] =
             [@ EXCEPT !.pc = "ready", !.outcome = "ok", !.conn = None,
                       !.accepted = FALSE]] \in [Clients -> ClientStates]
      BY <3>1, RecordUpdates DEF TypeOK
    <3> QED
      BY <2>2, <3>2, AllDisturbed DEF AnswerShutdown
  <2>3. CASE SpawnDaemon(c, d)
    BY <2>3 DEF TypeOK, ClientStates, UndisturbedPart, Trouble, Coming,
                SpawnDaemon
  <2> QED
    BY <1>3, <2>1, <2>2, <2>3 DEF JointStep
<1> QED
  BY <1>1, <1>2, <1>3, NextCases

\* No open connection outlives the peer's serve, and no wait for an index run
\* outlives the run.
LEMMA WaitStep ==
    ASSUME LifecycleInv, Next
    PROVE  NobodyWaitsForTheGone'
<1> USE LifecycleAssumption DEF LifecycleInv, TypeOK, NobodyWaitsForTheGone
<1>0. \A c \in Clients : client[c].conn \in Daemons \cup {None}
  BY DEF ClientStates
<1>1. ASSUME NEW c \in Clients, ClientOnly(c) PROVE NobodyWaitsForTheGone'
  <2> USE <1>1, ClientOnlyFrame
  <2>1. CASE \E d \in Daemons : Accept(d, c)
    BY <2>1 DEF Accept, ClientStates
  <2>2. CASE \E d \in Daemons : AnswerHello(d, c)
    BY <2>2 DEF AnswerHello, ClientStates
  <2>3. CASE \E d \in Daemons : AnswerSearch(d, c)
    BY <2>3 DEF AnswerSearch, ClientStates
  <2>4. CASE (\E d \in Daemons : RefuseIndex(d, c)) \/ GiveUp(c)
             \/ ConnectFails(c) \/ ConnectionLost(c)
    <3>1. client' = Failed(c)
      BY <2>4 DEF RefuseIndex, GiveUp, ConnectFails, ConnectionLost
    <3> QED
      BY <3>1, FailedFields
  <2>10. CASE \E d \in Daemons : RefuseStale(d, c)
    <3>1. CASE client' = Failed(c)
      BY <3>1, FailedFields
    <3>2. CASE client' = [client EXCEPT ![c] =
                 [@ EXCEPT !.pc = "none", !.outcome = "failed", !.conn = None,
                           !.accepted = FALSE]]
      BY <3>2 DEF ClientStates
    <3> QED
      BY <2>10, <3>1, <3>2 DEF RefuseStale
  <2>5. CASE \E r \in Requests : InvokeUnconnected(c, r)
    BY <2>5 DEF InvokeUnconnected, NewClient
  <2>6. CASE \E r \in Requests : InvokeConnected(c, r)
    BY <2>6 DEF InvokeConnected, ClientStates
  <2>7. CASE Probe(c)
    BY <2>7 DEF Probe, ClientStates
  <2>8. CASE Connect(c)
    BY <2>8 DEF Connect, Reachable, ClientStates
  <2>9. CASE Leave(c)
    BY <2>9 DEF Leave, NewClient
  <2> QED
    BY <2>1, <2>2, <2>3, <2>4, <2>5, <2>6, <2>7, <2>8, <2>9, <2>10
    DEF ClientOnly
<1>2. ASSUME NEW d \in Daemons, ProcessStep(d) PROVE NobodyWaitsForTheGone'
  <2>1. CASE LoadEmbedder(d) \/ MakeRuntimeDir(d) \/ TryLock(d)
    BY <1>0, <2>1 DEF LoadEmbedder, MakeRuntimeDir, TryLock
  <2>2. CASE PrepareSocketPath(d) \/ Bind(d)
    BY <1>0, <2>2 DEF PrepareSocketPath, Bind
  <2>3. CASE LoaderDone(d) \/ DrainAndUnlink(d) \/ End(d)
    BY <1>0, <2>3 DEF LoaderDone, DrainAndUnlink, End
  <2>4. CASE IndexDone(d) \/ GoStale(d)
    <3>1. ASSUME NEW c \in Clients
          PROVE  /\ client'[c].conn = client[c].conn
                 /\ client'[c].pc = IF client[c].pc = "index" /\ client[c].conn = d
                                    THEN "ready" ELSE client[c].pc
      BY <2>4, IndexDoneFields, StaleFields
    <3>2. ASSUME NEW c \in Clients, client'[c].conn # None
          PROVE  /\ proc'[client'[c].conn] \in {"serve", "drain", "unlinked"}
                 /\ client'[c].pc = "index" => work'[client'[c].conn] = "index"
      <4>1. client[c].conn \in Daemons /\ client'[c].conn = client[c].conn
        BY <1>0, <3>1, <3>2
      <4>2. CASE client[c].conn = d
        <5>1. client'[c].pc # "index"
          BY <3>1, <4>2
        <5>2. proc' = proc
          BY <2>4 DEF IndexDone, GoStale
        <5>3. proc[client[c].conn] \in {"serve", "drain", "unlinked"}
          BY <3>2, <4>1
        <5> QED
          BY <4>1, <5>1, <5>2, <5>3
      <4>3. CASE client[c].conn # d
        <5>1. /\ proc' = proc
              /\ \A e \in Daemons \ {d} : work'[e] = work[e]
          BY <2>4 DEF IndexDone, GoStale
        <5>2. client'[c].pc = client[c].pc
          BY <3>1, <4>3
        <5> QED
          BY <3>2, <4>1, <4>3, <5>1, <5>2
      <4> QED
        BY <4>2, <4>3
    <3> QED
      BY <3>2
  <2>5. CASE LoadFails(d) \/ IdleExit(d)
    <3>1. ASSUME NEW c \in Clients
          PROVE  client'[c].conn = client[c].conn /\ client'[c].pc = client[c].pc
      BY <2>5, DisturbedFields DEF LoadFails, IdleExit
    <3> QED
      BY <1>0, <2>5, <3>1 DEF LoadFails, IdleExit
  <2>6. CASE Release(d) \/ Kill(d)
    <3>1. ASSUME NEW c \in Clients
          PROVE  /\ client'[c].pc = client[c].pc
                 /\ client'[c].conn =
                      IF client[c].conn = d THEN None ELSE client[c].conn
      BY <2>6, DisturbedFields, DroppedFields, DroppedType DEF Release, Kill
    <3> QED
      BY <1>0, <2>6, <3>1 DEF Release, Kill
  <2> QED
    BY <1>2, <2>1, <2>2, <2>3, <2>4, <2>5, <2>6 DEF ProcessStep
<1>3. ASSUME NEW d \in Daemons, NEW c \in Clients, JointStep(d, c)
      PROVE  NobodyWaitsForTheGone'
  <2>1. CASE StartIndex(d, c)
    BY <2>1 DEF StartIndex, Handles, Served, ClientStates
  <2>2. CASE AnswerShutdown(d, c)
    <3> DEFINE cl == [client EXCEPT ![c] =
                        [@ EXCEPT !.pc = "ready", !.outcome = "ok",
                                  !.conn = None, !.accepted = FALSE]]
    <3>1. cl \in [Clients -> ClientStates]
      BY RecordUpdates
    <3>2. cl[c].conn = None /\ \A b \in Clients : b # c => cl[b] = client[b]
      BY DEF ClientStates
    <3>3. ASSUME NEW b \in Clients
          PROVE  client'[b].conn = cl[b].conn /\ client'[b].pc = cl[b].pc
      BY <2>2, <3>1, DisturbedFields DEF AnswerShutdown
    <3>4. \A e \in Daemons : proc'[e] = proc[e] \/ proc'[e] = "drain"
      <4>1. CASE proc' = [proc EXCEPT ![d] = "drain"]
        BY <4>1
      <4>2. CASE UNCHANGED proc
        BY <4>2
      <4> QED
        BY <2>2, <4>1, <4>2 DEF AnswerShutdown
    <3>5. work' = work
      BY <2>2 DEF AnswerShutdown
    <3> HIDE DEF cl
    <3>6. ASSUME NEW b \in Clients, client'[b].conn # None
          PROVE  /\ proc'[client'[b].conn] \in {"serve", "drain", "unlinked"}
                 /\ client'[b].pc = "index" => work'[client'[b].conn] = "index"
      <4>1. /\ client'[b].conn = client[b].conn /\ client'[b].pc = client[b].pc
            /\ client[b].conn \in Daemons
        BY <1>0, <3>2, <3>3, <3>6
      <4> QED
        BY <3>4, <3>5, <3>6, <4>1
    <3> QED
      BY <3>6
  <2>3. CASE SpawnDaemon(c, d)
    BY <2>3 DEF SpawnDaemon, ClientStates
  <2> QED
    BY <1>3, <2>1, <2>2, <2>3 DEF JointStep
<1> QED
  BY <1>1, <1>2, <1>3, NextCases

\* A search that fails has been disturbed: at every point where a call can
\* fail, an undisturbed client has what it needs.
LEMMA SearchStep ==
    ASSUME LifecycleInv, Next
    PROVE  SearchFailsOnlyWhenDisturbed'
<1> USE DEF LifecycleInv, TypeOK, SearchFailsOnlyWhenDisturbed
<1>1. ASSUME NEW c \in Clients, ClientOnly(c)
      PROVE  SearchFailsOnlyWhenDisturbed'
  <2>1. CASE \E d \in Daemons : Accept(d, c)
    BY <2>1 DEF Accept, ClientStates
  <2>2. CASE \E d \in Daemons : AnswerHello(d, c)
    BY <2>2 DEF AnswerHello, ClientStates
  <2>3. CASE \E d \in Daemons : AnswerSearch(d, c)
    BY <2>3 DEF AnswerSearch, ClientStates
  <2>4. CASE \E d \in Daemons : RefuseIndex(d, c)
    <3>1. client' = Failed(c) /\ client[c].req = "index"
      BY <2>4 DEF RefuseIndex
    <3> QED
      BY <3>1, FailedFields
  <2>11. CASE \E d \in Daemons : RefuseStale(d, c)
    <3>1. client[c].disturbed
      BY <2>11, RefusedIsDisturbed
    <3>2. /\ client'[c].disturbed
          /\ \A b \in Clients \ {c} : client'[b] = client[b]
      BY <2>11, <3>1, RefusedFields
    <3> QED
      BY <3>2
  <2>5. CASE GiveUp(c) \/ ConnectFails(c) \/ ConnectionLost(c)
    <3>1. client' = Failed(c)
      BY <2>5 DEF GiveUp, ConnectFails, ConnectionLost
    <3>2. client[c].disturbed
      <4>1. CASE GiveUp(c)
        BY <4>1 DEF GiveUp, UndisturbedPart, Coming, SocketPart, Reachable
      <4>2. CASE ConnectFails(c)
        BY <4>2 DEF ConnectFails, UndisturbedPart, SocketPart, Reachable
      <4>3. CASE ConnectionLost(c)
        BY <4>3 DEF ConnectionLost, UndisturbedPart
      <4> QED
        BY <2>5, <4>1, <4>2, <4>3
    <3> QED
      BY <3>1, <3>2, FailedFields
  <2>6. CASE \E r \in Requests : InvokeUnconnected(c, r)
    BY <2>6 DEF InvokeUnconnected, NewClient
  <2>7. CASE \E r \in Requests : InvokeConnected(c, r)
    BY <2>7 DEF InvokeConnected, ClientStates
  <2>8. CASE Probe(c)
    BY <2>8 DEF Probe, ClientStates
  <2>9. CASE Connect(c)
    BY <2>9 DEF Connect, ClientStates
  <2>10. CASE Leave(c)
    BY <2>10 DEF Leave, NewClient
  <2> QED
    BY <1>1, <2>1, <2>2, <2>3, <2>4, <2>5, <2>6, <2>7, <2>8, <2>9, <2>10,
       <2>11
    DEF ClientOnly
<1>2. ASSUME NEW d \in Daemons, ProcessStep(d)
      PROVE  SearchFailsOnlyWhenDisturbed'
  <2>1. CASE LoadEmbedder(d) \/ MakeRuntimeDir(d) \/ TryLock(d)
             \/ PrepareSocketPath(d) \/ Bind(d) \/ LoaderDone(d)
             \/ DrainAndUnlink(d) \/ End(d)
    BY <2>1 DEF LoadEmbedder, MakeRuntimeDir, TryLock, PrepareSocketPath, Bind,
                LoaderDone, DrainAndUnlink, End
  <2>2. CASE LoadFails(d) \/ IdleExit(d) \/ Release(d) \/ Kill(d)
    BY <2>2, AllDisturbed, DroppedType DEF LoadFails, IdleExit, Release, Kill
  <2>3. CASE IndexDone(d)
    BY <2>3, IndexDoneFields
  <2>4. CASE GoStale(d)
    BY <2>4, StaleFields, AllDisturbed
  <2> QED
    BY <1>2, <2>1, <2>2, <2>3, <2>4 DEF ProcessStep
<1>3. ASSUME NEW d \in Daemons, NEW c \in Clients, JointStep(d, c)
      PROVE  SearchFailsOnlyWhenDisturbed'
  <2>1. CASE StartIndex(d, c)
    BY <2>1 DEF StartIndex, ClientStates
  <2>2. CASE AnswerShutdown(d, c)
    <3>1. [client EXCEPT ![c] =
             [@ EXCEPT !.pc = "ready", !.outcome = "ok", !.conn = None,
                       !.accepted = FALSE]] \in [Clients -> ClientStates]
      BY RecordUpdates
    <3> QED
      BY <2>2, <3>1, AllDisturbed DEF AnswerShutdown
  <2>3. CASE SpawnDaemon(c, d)
    BY <2>3 DEF SpawnDaemon, ClientStates
  <2> QED
    BY <1>3, <2>1, <2>2, <2>3 DEF JointStep
<1> QED
  BY <1>1, <1>2, <1>3, NextCases

-----------------------------------------------------------------------------

\* LifecycleInv holds in every reachable state, for any clients, daemons,
\* requests and faults.
THEOREM LifecycleInvariance == Spec => []LifecycleInv
<1>1. LifecycleInv /\ [Next]_vars => LifecycleInv'
  <2> SUFFICES ASSUME LifecycleInv, [Next]_vars PROVE LifecycleInv'
    OBVIOUS
  <2>1. CASE Next
    <3>1. TypeOK'
      BY <2>1, TypeStep DEF LifecycleInv
    <3> QED
      BY <2>1, <3>1, LockStep, SocketStep, WorkStep, UndisturbedStep, WaitStep,
         SearchStep
      DEF LifecycleInv
  <2>2. CASE UNCHANGED vars
    BY <2>2 DEF vars, LifecycleInv, TypeOK, LockPart, SocketPart, WorkPart,
                UndisturbedPart, NobodyWaitsForTheGone,
                SearchFailsOnlyWhenDisturbed, Trouble, Coming
  <2> QED
    BY <2>1, <2>2
<1> QED
  BY InitInv, <1>1, PTL DEF Spec

\* A serving daemon can always be found at the socket's path.
THEOREM ServerAlwaysFound == Spec => []SocketLeadsToServer
<1>1. LifecycleInv => SocketLeadsToServer
  BY DEF LifecycleInv, SocketPart, SocketLeadsToServer
<1> QED
  BY LifecycleInvariance, <1>1, PTL

\* Two processes have the store open only when one is past the end of serve.
THEOREM StoreHasOneServer == Spec => []StoreSharedOnlyWithLeaver
<1>1. LifecycleInv => StoreSharedOnlyWithLeaver
  BY DEF LifecycleInv, LockPart, Holding, WorkPart, StoreSharedOnlyWithLeaver,
         AtWork
<1> QED
  BY LifecycleInvariance, <1>1, PTL

\* Losing the race to start a daemon never fails a search: some daemon left or
\* failed if one does.
THEOREM LostRaceIsHarmless == Spec => []SearchFailsOnlyWhenDisturbed
<1>1. LifecycleInv => SearchFailsOnlyWhenDisturbed
  BY DEF LifecycleInv
<1> QED
  BY LifecycleInvariance, <1>1, PTL

\* No client waits on a connection whose daemon has left serve, or for an
\* index run that is over.
THEOREM NobodyLeftWaiting == Spec => []NobodyWaitsForTheGone
<1>1. LifecycleInv => NobodyWaitsForTheGone
  BY DEF LifecycleInv
<1> QED
  BY LifecycleInvariance, <1>1, PTL

=============================================================================
