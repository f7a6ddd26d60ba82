---------------------------- MODULE DaemonProofs ----------------------------
(***************************************************************************)
(* Theorems about Daemon, for any finite set of clients, any requests, any *)
(* number of permits, commits and replaced directories, and any faults.    *)
(*                                                                         *)
(* The argument.  DaemonInv is inductive.  A step of one connection either *)
(* ends its handler or keeps it running (ConnectionStep), which carries    *)
(* the types, the count of clients and EndPart.  The other parts are about *)
(* the index thread: the compare-and-exchange makes it one (ThreadPart),   *)
(* so StorePart can say where the resident is at each of its positions,    *)
(* and from that follow BorrowPart, FlagPart and GenPart.  IdentityPart    *)
(* follows every resident and every clone of one from the loader to the    *)
(* clients' answers: its identity is that of its files, or was captured by *)
(* the loader or by a run after the directory had been replaced.           *)
(***************************************************************************)
EXTENDS Daemon, FiniteSetTheorems, TLAPS

USE DEF Loading, Freeze
USE DEF Frames, HandlerPcs, ThreadPcs, Results, Errors, Replies, Responses, Kept

\* The records the actions build have their types.
LEMMA Records ==
    /\ NoResident \in Residents
    /\ Starting \in ServingState
    /\ Stale \in ServingState
    /\ \A r \in Residents : Ready(r) \in ServingState
    /\ \A r \in Residents : Indexing(r) \in ServingState
    /\ NoHandler \in Handlers
    /\ NoThread \in Threads
    /\ NoClient \in ClientEnds
    /\ Loaded \in Loaders
<1>1. NoResident \in Residents
  BY DaemonAssumption DEF NoResident, Residents, Gens, Dirs
<1>2. 0 \in Gens /\ 0 \in Dirs
  BY DaemonAssumption DEF Gens, Dirs
<1> QED
  BY <1>1, <1>2
  DEF Starting, Stale, Ready, Indexing, ServingState, NoHandler, Handlers,
      NoThread, Threads, NoClient, ClientEnds, Loaded, Loaders

\* An end of the socket that has been told nothing it found.
Blank(e) == e.reply # "Found" /\ e.from = NoResident /\ e.asked = 0

\* The ends of the socket after a reply, a frame or an answer.
LEMMA Ends ==
    /\ \A reply \in Responses :
         /\ Received(reply) \in ClientEnds
         /\ Received(reply).open
         /\ Received(reply).reply = Kept(reply)
         /\ [Received(reply) EXCEPT !.open = FALSE] \in ClientEnds
         /\ ~[Received(reply) EXCEPT !.open = FALSE].open
    /\ \A r \in Requests :
         [NoClient EXCEPT !.open = TRUE, !.reply = "pending", !.frame = r] \in ClientEnds
    /\ \A r \in Residents, g \in Gens, s \in Gens, d \in Dirs :
         [Received("Found") EXCEPT !.from = r, !.lex = g, !.since = s,
                                   !.asked = d] \in ClientEnds
<1>1. ASSUME NEW reply \in Responses
      PROVE  /\ Received(reply) \in ClientEnds
             /\ Received(reply).open
             /\ Received(reply).reply = Kept(reply)
             /\ [Received(reply) EXCEPT !.open = FALSE] \in ClientEnds
             /\ ~[Received(reply) EXCEPT !.open = FALSE].open
  BY Records DEF Received, NoClient, ClientEnds
<1>2. ASSUME NEW r \in Requests
      PROVE  [NoClient EXCEPT !.open = TRUE, !.reply = "pending", !.frame = r] \in ClientEnds
  <2>1. NoClient \in ClientEnds
    BY Records
  <2> QED
    BY <2>1 DEF ClientEnds
<1>3. ASSUME NEW r \in Residents, NEW g \in Gens, NEW s \in Gens,
             NEW d \in Dirs
      PROVE  [Received("Found") EXCEPT !.from = r, !.lex = g, !.since = s,
                                       !.asked = d] \in ClientEnds
  <2>1. Received("Found") \in ClientEnds
    BY <1>1
  <2> QED
    BY <2>1 DEF ClientEnds
<1> QED
  BY <1>1, <1>2, <1>3

-----------------------------------------------------------------------------
(* The steps of a connection *)

\* The handler ends and its end of the socket is closed.
Ending(c) ==
    /\ handler' = [handler EXCEPT ![c] = NoHandler]
    /\ clients' = clients - 1
    /\ ~client'[c].open

\* The handler goes on.
Going(c, h) ==
    /\ h \in Handlers
    /\ h.pc \notin {"away", "backlog"}
    /\ handler' = [handler EXCEPT ![c] = h]
    /\ clients' = clients

ConnectionMove(c) ==
    /\ Running(c)
    /\ \E e \in ClientEnds : client' = [client EXCEPT ![c] = e]
    /\ Ending(c) \/ \E h \in Handlers : Going(c, h)

ConnectionStep(c) == HandlerStep(c) \/ AcquirePermit(c)

\* Writing a reply.
LEMMA WriteMove ==
    ASSUME TypeOK, NEW c \in Clients, Running(c), NEW e \in ClientEnds,
           Write(c, e)
    PROVE  ConnectionMove(c)
<1>1. \E f \in ClientEnds : client' = [client EXCEPT ![c] = f]
  BY DEF Write, TypeOK
<1>2. CASE client[c].open
  <2> DEFINE h == [NoHandler EXCEPT !.pc = "read", !.hello = handler[c].hello]
  <2>1. h \in Handlers /\ h.pc = "read"
    BY Records DEF TypeOK, Handlers, NoHandler
  <2>2. handler' = [handler EXCEPT ![c] = h] /\ clients' = clients
    BY <1>2 DEF Write
  <2> QED
    BY <1>1, <2>1, <2>2 DEF ConnectionMove, Going
<1>3. CASE ~client[c].open
  <2>1. ~client'[c].open
    BY <1>3 DEF Write, TypeOK
  <2> QED
    BY <1>1, <1>3, <2>1 DEF ConnectionMove, Ending, Write, Leave
<1> QED
  BY <1>2, <1>3

\* A handler that answers, or finds its client gone, has moved as a handler may.
LEMMA AnswerMove ==
    ASSUME TypeOK, NEW c \in Clients, Running(c), NEW reply \in Responses,
           Answer(c, reply)
    PROVE  ConnectionMove(c)
BY WriteMove, Ends DEF Answer

\* Writing a reply and leaving the loop.
LEMMA LeaveMove ==
    ASSUME TypeOK, NEW c \in Clients, Running(c), NEW reply \in Responses,
           AnswerAndLeave(c, reply)
    PROVE  ConnectionMove(c) /\ Ending(c)
<1>1. [Received(reply) EXCEPT !.open = FALSE] \in ClientEnds
      /\ ~[Received(reply) EXCEPT !.open = FALSE].open
  BY Ends
<1>2. \E f \in ClientEnds : client' = [client EXCEPT ![c] = f]
  BY <1>1 DEF AnswerAndLeave, TypeOK
<1>3. ~client'[c].open
  BY <1>1 DEF AnswerAndLeave, TypeOK
<1> QED
  BY <1>2, <1>3 DEF AnswerAndLeave, Leave, Ending, ConnectionMove

\* Looking for what to search in: an answer, or the Arc and a position.
LEMMA TargetMove ==
    ASSUME TypeOK, NEW c \in Clients, Running(c), NEW since \in Gens,
           NEW asked \in Dirs, Target(c, since, asked)
    PROVE  ConnectionMove(c)
<1>1. CASE serving.state \in {"Ready", "Indexing"}
  <2> DEFINE h == [handler[c] EXCEPT !.pc = IF serving.state = "Ready"
                                            THEN "borrow" ELSE "frozen",
                                     !.resident = serving.resident,
                                     !.since = since, !.asked = asked]
  <2>0. handler[c] \in Handlers /\ serving.resident \in Residents
    BY DEF TypeOK, ServingState
  <2>1. h \in Handlers /\ h.pc \in {"borrow", "frozen"}
    BY <2>0 DEF Handlers
  <2>2. handler' = [handler EXCEPT ![c] = h] /\ clients' = clients
        /\ client' = client
    BY <1>1 DEF Target, TypeOK
  <2>3. client' = [client EXCEPT ![c] = client[c]] /\ client[c] \in ClientEnds
    BY <2>2 DEF TypeOK
  <2> QED
    BY <2>1, <2>2, <2>3 DEF ConnectionMove, Going
<1>2. CASE serving.state \notin {"Ready", "Indexing"}
  BY <1>2, AnswerMove DEF Target
<1> QED
  BY <1>1, <1>2

\* The generation a search must see is a generation.
LEMMA CommittedGen == TypeOK => Committed \in Gens
<1>1. 0 \in Gens
  BY DaemonAssumption DEF Gens
<1>2. TypeOK => serving.resident.gen \in Gens
  BY DEF TypeOK, ServingState, Residents
<1> QED
  BY <1>1, <1>2 DEF TypeOK, Committed

\* Every step of a connection is a move of its handler; the serving state,
\* the loader and the index stay as they are.
LEMMA ConnectionSteps ==
    ASSUME TypeOK, NEW c \in Clients, ConnectionStep(c)
    PROVE  /\ ConnectionMove(c)
           /\ UNCHANGED <<serving, loader, disk, dir, adopted>>
           /\ quiet' \in BOOLEAN
           /\ main' = main \/ (main = "select" /\ main' = "drain")
<1>0. /\ client[c] \in ClientEnds
      /\ client[c].open \in BOOLEAN
      /\ client = [client EXCEPT ![c] = client[c]]
      /\ quiet \in BOOLEAN
      /\ handler[c] \in Handlers
  BY DEF TypeOK, ClientEnds
<1>1. CASE ReadEof(c)
  BY <1>0, <1>1 DEF ReadEof, HasFrame, Running, Leave, ConnectionMove, Ending
<1>2. CASE ReadMalformed(c)
  <2>1. Running(c)
    BY <1>2 DEF ReadMalformed, HasFrame, Running
  <2> QED
    BY <1>0, <1>2, <2>1, AnswerMove DEF ReadMalformed, NoTouch
<1>3. CASE \E r \in Requests : Handshake(c, r)
  <2> PICK r \in Requests : Handshake(c, r)
    BY <1>3
  <2>1. Running(c) /\ UNCHANGED <<serving, loader, disk, dir, adopted, main>>
        /\ quiet' \in BOOLEAN
    BY DEF Handshake, Read, HasFrame, Running
  <2>2. BeforeHello(r) \in Responses
    BY DEF BeforeHello
  <2>3. CASE Answer(c, BeforeHello(r))
    BY <2>1, <2>2, <2>3, AnswerMove
  <2>4. CASE AnswerAndLeave(c, "ProtocolVersion")
    BY <2>1, <2>4, LeaveMove
  <2>5. CASE AnswerAndLeave(c, "Malformed")
    BY <2>1, <2>5, LeaveMove
  <2>6. ASSUME client' = [client EXCEPT ![c] =
                            IF @.open THEN Received("Hello") ELSE @],
               IF client[c].open
               THEN /\ handler' = [handler EXCEPT ![c].hello = TRUE]
                    /\ UNCHANGED clients
               ELSE Leave(c)
        PROVE  ConnectionMove(c)
    <3>1. \E e \in ClientEnds : client' = [client EXCEPT ![c] = e]
      BY <1>0, <2>6, Ends
    <3>2. CASE client[c].open
      <4> DEFINE h == [handler[c] EXCEPT !.hello = TRUE]
      <4>1. h \in Handlers /\ h.pc = handler[c].pc
        BY <1>0 DEF Handlers
      <4>2. handler' = [handler EXCEPT ![c] = h] /\ clients' = clients
        BY <2>6, <3>2
      <4> QED
        BY <2>1, <3>1, <4>1, <4>2 DEF ConnectionMove, Going, Running
    <3>3. CASE ~client[c].open
      <4>1. ~client'[c].open
        BY <2>6, <3>3 DEF TypeOK
      <4> QED
        BY <2>1, <2>6, <3>1, <3>3, <4>1 DEF ConnectionMove, Ending, Leave
    <3> QED
      BY <3>2, <3>3
  <2> QED
    BY <2>1, <2>3, <2>4, <2>5, <2>6 DEF Handshake
<1>4. CASE ReadSimple(c)
  <2>1. Running(c)
    BY <1>4 DEF ReadSimple, Read, HasFrame, Running
  <2> QED
    BY <1>4, <2>1, AnswerMove DEF ReadSimple, Read
<1>5. CASE ReadShutdown(c)
  <2>1. Running(c)
    BY <1>5 DEF ReadShutdown, Read, HasFrame, Running
  <2> QED
    BY <1>5, <2>1, LeaveMove DEF ReadShutdown, Read, Notify
<1>6. CASE ReadSearch(c)
  <2> DEFINE h == [handler[c] EXCEPT !.pc = "permit", !.req = "Search",
                                     !.since = Committed, !.asked = dir]
  <2>1. h \in Handlers /\ h.pc = "permit"
    BY <1>0, CommittedGen DEF Handlers, TypeOK
  <2>2. handler' = [handler EXCEPT ![c] = h] /\ clients' = clients
    BY <1>6 DEF ReadSearch
  <2> QED
    BY <1>0, <1>6, <2>1, <2>2
    DEF ReadSearch, Read, HasFrame, Running, ConnectionMove, Going
<1>7. CASE ReadGetSymbol(c)
  <2>1. Running(c)
    BY <1>7 DEF ReadGetSymbol, Read, HasFrame, Running
  <2> QED
    BY <1>7, <2>1, CommittedGen, TargetMove
    DEF ReadGetSymbol, Read, TypeOK
<1>8. CASE ReadIndex(c)
  <2>1. Running(c)
    BY <1>8 DEF ReadIndex, Read, HasFrame, Running
  <2>2. CASE Answer(c, "IndexInProgress")
    BY <1>8, <2>1, <2>2, AnswerMove DEF ReadIndex, Read
  <2>3. CASE /\ handler' = [handler EXCEPT ![c].pc = "index"]
             /\ UNCHANGED <<clients, client>>
    <3> DEFINE h == [handler[c] EXCEPT !.pc = "index"]
    <3>1. h \in Handlers /\ h.pc = "index"
      BY <1>0 DEF Handlers
    <3>2. handler' = [handler EXCEPT ![c] = h] /\ clients' = clients
      BY <2>3
    <3> QED
      BY <1>0, <1>8, <2>1, <2>3, <3>1, <3>2
      DEF ReadIndex, Read, ConnectionMove, Going
  <2> QED
    BY <1>8, <2>2, <2>3 DEF ReadIndex
<1>9. CASE Serve(c)
  <2>1. Running(c)
    BY <1>9 DEF Serve, Running
  <2>2. ASSUME NEW g \in ReaderGens(c),
               Write(c, [Received("Found") EXCEPT
                            !.from = handler[c].resident, !.lex = g,
                            !.since = handler[c].since,
                            !.asked = handler[c].asked])
        PROVE  ConnectionMove(c)
    <3>1. /\ handler[c].resident \in Residents
          /\ handler[c].since \in Gens
          /\ handler[c].asked \in Dirs
          /\ handler[c].resident.gen \in Gens
      BY <1>0 DEF Handlers, Residents
    <3>2. g \in Gens
      BY <3>1, DaemonAssumption DEF ReaderGens, TypeOK, Gens
    <3> QED
      BY <2>1, <2>2, <3>1, <3>2, Ends, WriteMove
  <2> QED
    BY <1>0, <1>9, <2>1, <2>2 DEF Serve, NoTouch
<1>10. CASE TakeDone(c)
  <2>1. Running(c)
    BY <1>10 DEF TakeDone, Running
  <2>2. done[c] \in Responses
    BY <1>10 DEF TakeDone, TypeOK
  <2> QED
    BY <1>0, <1>10, <2>1, <2>2, AnswerMove DEF TakeDone, NoTouch
<1>11. CASE ProgressFails(c)
  BY <1>0, <1>11 DEF ProgressFails, Running, Leave, ConnectionMove, Ending
<1>12. CASE AcquirePermit(c)
  <2>1. Running(c) /\ handler[c].since \in Gens /\ handler[c].asked \in Dirs
    BY <1>0, <1>12 DEF AcquirePermit, Running, Handlers
  <2> QED
    BY <1>0, <1>12, <2>1, TargetMove DEF AcquirePermit, NoTouch
<1>13. CASE CheckStore(c)
  <2>1. Running(c)
    BY <1>13 DEF CheckStore, Running
  <2>2. CASE Answer(c, "StoreStale")
    BY <1>0, <1>13, <2>1, <2>2, AnswerMove DEF CheckStore, NoTouch
  <2>3. CASE /\ handler' = [handler EXCEPT ![c].checked = TRUE]
             /\ UNCHANGED <<clients, client, quiet>>
    <3> DEFINE h == [handler[c] EXCEPT !.checked = TRUE]
    <3>1. h \in Handlers /\ h.pc = handler[c].pc
      BY <1>0 DEF Handlers
    <3>2. handler' = [handler EXCEPT ![c] = h] /\ clients' = clients
      BY <2>3
    <3> QED
      BY <1>0, <1>13, <2>1, <2>3, <3>1, <3>2
      DEF CheckStore, ConnectionMove, Going, Running
  <2> QED
    BY <1>13, <2>2, <2>3 DEF CheckStore
<1> QED
  BY <1>1, <1>2, <1>3, <1>4, <1>5, <1>6, <1>7, <1>8, <1>9, <1>10, <1>11, <1>12,
     <1>13
  DEF ConnectionStep, HandlerStep

-----------------------------------------------------------------------------
(* Types, the count of clients and the ends of the connections *)

\* The handlers that run are finitely many, at most one per client.
LEMMA RunningFinite ==
    /\ IsFiniteSet({d \in Clients : Running(d)})
    /\ Cardinality({d \in Clients : Running(d)}) \in 0 .. Cardinality(Clients)
<1>1. {d \in Clients : Running(d)} \subseteq Clients
  OBVIOUS
<1> QED
  BY <1>1, DaemonAssumption, FS_Subset, FS_CardinalityType

\* A move of a connection keeps the count: a handler that ends is uncounted.
LEMMA MoveCounts ==
    ASSUME TypeOK, ClientCountExact, NEW c \in Clients, ConnectionMove(c)
    PROVE  ClientCountExact'
<1> DEFINE R == {d \in Clients : Running(d)}
<1>1. CASE Ending(c)
  <2>1. R' = R \ {c} /\ c \in R
    BY <1>1 DEF ConnectionMove, Ending, Running, NoHandler, TypeOK
  <2>2. Cardinality(R \ {c}) = Cardinality(R) - 1
    BY <2>1, RunningFinite, FS_RemoveElement
  <2> QED
    BY <1>1, <2>1, <2>2 DEF Ending, ClientCountExact
<1>2. ASSUME NEW h \in Handlers, Going(c, h) PROVE ClientCountExact'
  <2>1. R' = R
    BY <1>2 DEF ConnectionMove, Going, Running, TypeOK
  <2> QED
    BY <1>2, <2>1 DEF Going, ClientCountExact
<1> QED
  BY <1>1, <1>2 DEF ConnectionMove

\* A step that leaves the handlers and the counter alone keeps the count.
LEMMA SameCounts ==
    ASSUME ClientCountExact, UNCHANGED <<handler, clients>>
    PROVE  ClientCountExact'
BY DEF ClientCountExact, Running

\* The steps of the clients' ends and the accept branch.
Socket(c) ==
    \/ Connect(c) \/ (\E r \in Requests : Send(c, r)) \/ Close(c) \/ Accept(c)

\* The steps of the index thread.
Indexes(c) == ThreadStep(c) \/ CommitLexical(c) \/ Panic(c)

\* Every step is one of these.
LEMMA Cases ==
    ASSUME Next
    PROVE  \/ LoadStep \/ Tick \/ Rearm \/ Exit \/ TimePasses
           \/ ReplaceStore
           \/ \E c \in Clients : Socket(c) \/ Indexes(c) \/ ConnectionStep(c)
BY DEF Next, Socket, Indexes, ConnectionStep

\* A step of the loader: it opens the store, fails, or puts in service what it
\* opened under the identity it captures.
LEMMA LoadMoves ==
    ASSUME TypeOK, LoadStep
    PROVE  /\ UNCHANGED <<indexing, clients, quiet, main, handler, thread, done,
                          client, disk, dir>>
           /\ Loading
           /\ loader' \in Loaders
           /\ serving' \in ServingState
           /\ adopted' \subseteq Dirs
           /\ \/ UNCHANGED <<serving, adopted>>
              \/ loader' = Loaded /\ serving' = Stale /\ UNCHANGED adopted
              \/ /\ loader' = Loaded
                 /\ serving' = Ready([gen |-> disk, store |-> loader.store,
                                      identity |-> dir])
                 /\ Adopt(loader.store)
<1>0. /\ loader.store \in Dirs /\ disk \in Gens /\ dir \in Dirs
      /\ [pc |-> "capture", store |-> dir] \in Loaders
  BY DEF TypeOK, Loaders
<1>1. [gen |-> disk, store |-> loader.store, identity |-> dir] \in Residents
  BY <1>0 DEF Residents
<1>2. CASE OpenStore
  BY <1>0, <1>2, Records DEF OpenStore, LoadFails, TypeOK
<1>3. CASE CaptureIdentity
  BY <1>0, <1>1, <1>3, Records DEF CaptureIdentity, LoadFails, Adopt, TypeOK
<1> QED
  BY <1>2, <1>3 DEF LoadStep

\* The count of clients follows every step.
LEMMA CountStep ==
    ASSUME TypeOK, ClientCountExact, [Next]_vars
    PROVE  ClientCountExact'
<1> DEFINE R == {d \in Clients : Running(d)}
<1>1. CASE Exit
  <2>1. R = {} /\ R' = {}
    BY <1>1 DEF Exit, Drained, Running, NoHandler
  <2> QED
    BY <1>1, <2>1 DEF Exit, ClientCountExact
<1>2. ASSUME NEW c \in Clients, Connect(c) PROVE ClientCountExact'
  <2>1. R' = R
    BY <1>2 DEF Connect, Running, NoHandler, TypeOK
  <2> QED
    BY <1>2, <2>1 DEF Connect, ClientCountExact
<1>3. ASSUME NEW c \in Clients, Accept(c) PROVE ClientCountExact'
  <2>1. R' = R \cup {c} /\ c \notin R
    BY <1>3 DEF Accept, Running, TypeOK, Handlers
  <2>2. Cardinality(R \cup {c}) = Cardinality(R) + 1
    BY <2>1, RunningFinite, FS_AddElement
  <2> QED
    BY <1>3, <2>1, <2>2 DEF Accept, ClientCountExact
<1>4. ASSUME NEW c \in Clients, ConnectionStep(c) PROVE ClientCountExact'
  BY <1>4, ConnectionSteps, MoveCounts
<1>5. ASSUME NEW c \in Clients, Indexes(c) PROVE UNCHANGED <<handler, clients>>
  BY <1>5 DEF Indexes, ThreadStep, TakeResident, SplitForIndex, FinishRun,
              ClearIndexing, CommitLexical, Panic
<1>6. CASE LoadStep \/ Tick \/ Rearm \/ TimePasses \/ ReplaceStore
  BY <1>6, SameCounts, LoadMoves DEF Tick, Rearm, TimePasses, ReplaceStore
<1>7. ASSUME NEW c \in Clients, (\E r \in Requests : Send(c, r)) \/ Close(c)
      PROVE  UNCHANGED <<handler, clients>>
  BY <1>7 DEF Send, Close
<1>8. CASE UNCHANGED vars
  BY <1>8, SameCounts DEF vars
<1> QED
  BY <1>1, <1>2, <1>3, <1>4, <1>5, <1>6, <1>7, <1>8, SameCounts, Cases
  DEF Socket

\* The steps of the index thread keep the types.
LEMMA ThreadTypes ==
    ASSUME TypeOK, NEW c \in Clients, Indexes(c)
    PROVE  /\ serving' \in ServingState
           /\ indexing' \in BOOLEAN
           /\ thread' \in [Clients -> Threads]
           /\ done' \in [Clients -> Results]
           /\ disk' \in Gens
           /\ adopted' \subseteq Dirs
           /\ UNCHANGED <<clients, quiet, main, loader, handler, client, dir>>
<1>0. /\ thread[c] \in Threads
      /\ thread[c].resident \in Residents
      /\ thread[c].result \in Results
      /\ serving.resident \in Residents
  BY DEF TypeOK, Threads, ServingState
<1>1. ASSUME NEW result \in Results, Return(c, result)
      PROVE  /\ indexing' \in BOOLEAN
             /\ thread' \in [Clients -> Threads]
             /\ done' \in [Clients -> Results]
  BY <1>1, Records DEF Return, SendDone, TypeOK
<1>2. CASE TakeResident(c)
  <2>1. [thread[c] EXCEPT !.pc = "split", !.resident = serving.resident]
           \in Threads
    BY <1>0 DEF Threads
  <2> QED
    BY <1>1, <1>2, <2>1, Records DEF TakeResident, TypeOK
<1>3. CASE SplitForIndex(c)
  <2>1. [thread[c] EXCEPT !.pc = "run"] \in Threads
    BY <1>0 DEF Threads
  <2> QED
    BY <1>0, <1>1, <1>3, <2>1, Records DEF SplitForIndex, TypeOK
<1>4. CASE FinishRun(c)
  <2>1. \A r \in Results :
           [thread[c] EXCEPT !.pc = "clear", !.result = r] \in Threads
    BY <1>0 DEF Threads
  <2>2. Rebuild(c) \in Residents
    BY <1>0 DEF Rebuild, Residents, TypeOK
  <2> QED
    BY <1>4, <2>1, <2>2, Records DEF FinishRun, Adopt, TypeOK
<1>5. CASE ClearIndexing(c)
  BY <1>0, <1>1, <1>5 DEF ClearIndexing, TypeOK
<1>6. CASE CommitLexical(c)
  BY <1>6, DaemonAssumption DEF CommitLexical, TypeOK, Gens
<1>7. CASE Panic(c)
  BY <1>7, Records DEF Panic, SendDone, TypeOK
<1> QED
  BY <1>2, <1>3, <1>4, <1>5, <1>6, <1>7 DEF Indexes, ThreadStep

\* The thread, flag and channel a connection's step leaves are of their types.
LEMMA ConnectionTypes ==
    ASSUME TypeOK, NEW c \in Clients, ConnectionStep(c)
    PROVE  /\ indexing' \in BOOLEAN
           /\ thread' \in [Clients -> Threads]
           /\ done' \in [Clients -> Results]
<1>1. CASE ReadIndex(c)
  <2>1. [NoThread EXCEPT !.pc = "take"] \in Threads
    BY Records DEF Threads
  <2> QED
    BY <1>1, <2>1 DEF ReadIndex, TypeOK
<1>2. CASE TakeDone(c)
  BY <1>2 DEF TakeDone, TypeOK
<1>3. CASE ~ReadIndex(c) /\ ~TakeDone(c)
  <2>1. UNCHANGED <<indexing, thread, done>>
    BY <1>3 DEF ConnectionStep, HandlerStep, ReadEof, ReadMalformed, Handshake,
                ReadSimple, ReadShutdown, ReadSearch, ReadGetSymbol,
              CheckStore, Serve,
                ProgressFails, AcquirePermit
  <2> QED
    BY <2>1 DEF TypeOK
<1> QED
  BY <1>1, <1>2, <1>3

\* Every step keeps the types.
LEMMA TypeStep ==
    ASSUME TypeOK, ClientCountExact, [Next]_vars
    PROVE  TypeOK'
<1>0. clients' \in 0 .. Cardinality(Clients)
  <2>1. {d \in Clients : Running(d)'} \subseteq Clients
    OBVIOUS
  <2>2. Cardinality({d \in Clients : Running(d)'}) \in 0 .. Cardinality(Clients)
    BY <2>1, DaemonAssumption, FS_Subset, FS_CardinalityType
  <2> QED
    BY <2>2, CountStep DEF ClientCountExact
<1>1. CASE LoadStep
  BY <1>0, <1>1, LoadMoves DEF TypeOK
<1>2. CASE Tick \/ Rearm \/ TimePasses
  BY <1>0, <1>2 DEF Tick, Rearm, TimePasses, TypeOK
<1>3. CASE ReplaceStore
  BY <1>0, <1>3, DaemonAssumption DEF ReplaceStore, TypeOK, Dirs
<1>4. CASE Exit
  <2>1. \A c \in Clients : [client[c] EXCEPT !.open = FALSE, !.reply = "idle",
                                             !.frame = "none"] \in ClientEnds
    BY Zenon DEF TypeOK, ClientEnds
  <2> QED
    BY <1>0, <1>4, <2>1, Records DEF Exit, TypeOK
<1>5. ASSUME NEW c \in Clients, Socket(c) PROVE TypeOK'
  <2>1. CASE Connect(c)
    <3>1. /\ [NoHandler EXCEPT !.pc = "backlog"] \in Handlers
          /\ [NoClient EXCEPT !.open = TRUE] \in ClientEnds
      BY Records DEF Handlers, ClientEnds
    <3> QED
      BY <1>0, <2>1, <3>1 DEF Connect, TypeOK
  <2>2. ASSUME NEW r \in Requests, Send(c, r) PROVE TypeOK'
    BY <1>0, <2>2, Ends DEF Send, TypeOK
  <2>3. CASE Close(c)
    <3>1. [NoClient EXCEPT !.frame = client[c].frame] \in ClientEnds
      BY Records DEF TypeOK, ClientEnds
    <3> QED
      BY <1>0, <2>3, <3>1 DEF Close, TypeOK
  <2>4. CASE Accept(c)
    <3>1. [handler[c] EXCEPT !.pc = "read"] \in Handlers
      BY DEF TypeOK, Handlers
    <3> QED
      BY <1>0, <2>4, <3>1 DEF Accept, TypeOK
  <2> QED
    BY <1>5, <2>1, <2>2, <2>3, <2>4 DEF Socket
<1>6. ASSUME NEW c \in Clients, ConnectionStep(c) PROVE TypeOK'
  <2>1. /\ ConnectionMove(c)
        /\ UNCHANGED <<serving, loader, disk, dir, adopted>>
        /\ quiet' \in BOOLEAN
        /\ main' = main \/ (main = "select" /\ main' = "drain")
    BY <1>6, ConnectionSteps
  <2>2. handler' \in [Clients -> Handlers] /\ client' \in [Clients -> ClientEnds]
    BY <2>1, Records DEF ConnectionMove, Ending, Going, TypeOK
  <2>3. /\ indexing' \in BOOLEAN
        /\ thread' \in [Clients -> Threads]
        /\ done' \in [Clients -> Results]
    BY <1>6, ConnectionTypes
  <2> QED
    BY <1>0, <2>1, <2>2, <2>3 DEF TypeOK
<1>7. ASSUME NEW c \in Clients, Indexes(c) PROVE TypeOK'
  BY <1>0, <1>7, ThreadTypes DEF TypeOK
<1>8. CASE UNCHANGED vars
  BY <1>8 DEF vars, TypeOK
<1> QED
  BY <1>1, <1>2, <1>3, <1>4, <1>5, <1>6, <1>7, <1>8, Cases

\* A connection that is open has a handler, and the daemon exits after all
\* of them.
LEMMA EndStep ==
    ASSUME TypeOK, EndPart, [Next]_vars
    PROVE  EndPart'
<1>1. CASE LoadStep \/ Tick \/ Rearm \/ TimePasses \/ ReplaceStore
  BY <1>1, LoadMoves DEF Tick, Rearm, TimePasses, ReplaceStore, EndPart
<1>2. CASE Exit
  <2>1. \A c \in Clients : ~client'[c].open
    <3> SUFFICES ASSUME NEW c \in Clients PROVE ~client'[c].open
      OBVIOUS
    <3>1. handler[c].pc \in {"away", "backlog"}
      BY <1>2 DEF Exit, Drained, Running
    <3>2. CASE client[c].open
      <4>1. handler[c].pc = "backlog"
        BY <3>1, <3>2 DEF EndPart
      <4>2. client'[c] = [client[c] EXCEPT !.open = FALSE, !.reply = "idle",
                                           !.frame = "none"]
        BY <1>2, <3>2, <4>1 DEF Exit
      <4> QED
        BY <4>2 DEF TypeOK, ClientEnds
    <3> QED
      BY <1>2, <3>2 DEF Exit
  <2> QED
    BY <1>2, <2>1 DEF Exit, EndPart, NoHandler
<1>3. ASSUME NEW c \in Clients, Connect(c) PROVE EndPart'
  BY <1>3 DEF Connect, EndPart, TypeOK, NoHandler
<1>4. ASSUME NEW c \in Clients, NEW r \in Requests, Send(c, r) PROVE EndPart'
  BY <1>4 DEF Send, EndPart, TypeOK
<1>5. ASSUME NEW c \in Clients, Close(c) PROVE EndPart'
  BY <1>5 DEF Close, EndPart, TypeOK, NoClient
<1>6. ASSUME NEW c \in Clients, Accept(c) PROVE EndPart'
  BY <1>6 DEF Accept, EndPart, TypeOK, Handlers
<1>7. ASSUME NEW c \in Clients, ConnectionStep(c) PROVE EndPart'
  <2>1. /\ ConnectionMove(c)
        /\ main' = main \/ (main = "select" /\ main' = "drain")
    BY <1>7, ConnectionSteps
  <2>2. main # "exited" /\ main' # "exited"
    BY <2>1 DEF ConnectionMove, Running, EndPart
  <2>3. client'[c].open => handler'[c].pc # "away"
    BY <2>1 DEF ConnectionMove, Ending, Going, TypeOK
  <2>4. \A d \in Clients \ {c} : client'[d] = client[d] /\ handler'[d] = handler[d]
    BY <2>1 DEF ConnectionMove, Ending, Going, TypeOK
  <2> QED
    BY <2>2, <2>3, <2>4 DEF EndPart
<1>8. ASSUME NEW c \in Clients, Indexes(c) PROVE EndPart'
  BY <1>8, ThreadTypes DEF EndPart
<1>9. CASE UNCHANGED vars
  BY <1>9 DEF vars, EndPart
<1> QED
  BY <1>1, <1>2, <1>3, <1>4, <1>5, <1>6, <1>7, <1>8, <1>9, Cases DEF Socket

-----------------------------------------------------------------------------
(* The index thread, the flag and the serving state *)

\* Of a connection's steps only an Index request touches the flag and the
\* thread, and only when it finds the flag clear.
LEMMA ClaimStep ==
    ASSUME TypeOK, NEW c \in Clients, ConnectionStep(c)
    PROVE  \/ UNCHANGED <<indexing, thread>>
           \/ /\ ~indexing
              /\ indexing' = TRUE
              /\ thread' = [thread EXCEPT ![c] = [NoThread EXCEPT !.pc = "take"]]
<1>1. CASE ReadIndex(c)
  BY <1>1 DEF ReadIndex, ClaimIndexing
<1>2. CASE ~ReadIndex(c)
  BY <1>2 DEF ConnectionStep, HandlerStep, ReadEof, ReadMalformed, Handshake,
              ReadSimple, ReadShutdown, ReadSearch, ReadGetSymbol,
              CheckStore, Serve,
              ProgressFails, TakeDone, AcquirePermit
<1> QED
  BY <1>1, <1>2

\* The flag, the thread and the serving state after a step of the thread.
LEMMA ThreadMoves ==
    ASSUME TypeOK, NEW c \in Clients, Indexes(c)
    PROVE  \/ /\ thread[c].pc = "take"
              /\ serving.state = "Ready"
              /\ \A d \in Clients : handler[d].pc # "borrow"
              /\ serving' = Starting
              /\ thread' = [thread EXCEPT ![c] =
                              [@ EXCEPT !.pc = "split",
                                        !.resident = serving.resident]]
              /\ UNCHANGED <<indexing, disk, adopted>>
           \/ /\ thread[c].pc \in {"take", "split", "clear"}
              /\ thread' = [thread EXCEPT ![c] = NoThread]
              /\ indexing' = FALSE
              /\ UNCHANGED <<serving, disk, adopted>>
           \/ /\ thread[c].pc = "split"
              /\ serving' = Indexing(thread[c].resident)
              /\ thread' = [thread EXCEPT ![c].pc = "run"]
              /\ UNCHANGED <<indexing, disk, adopted>>
           \/ /\ thread[c].pc = "run"
              /\ disk' = disk + 1
              /\ UNCHANGED <<serving, indexing, thread, adopted>>
           \/ /\ thread[c].pc = "run"
              /\ \/ serving' = Stale /\ UNCHANGED adopted
                 \/ /\ serving' = Ready(Rebuild(c))
                    /\ Adopt(thread[c].resident.store)
              /\ \E r \in Results : thread' = [thread EXCEPT ![c] =
                                  [@ EXCEPT !.pc = "clear", !.result = r]]
              /\ UNCHANGED <<indexing, disk>>
           \/ /\ "panic" \in Faults
              /\ thread[c].pc \in {"split", "run"}
              /\ thread' = [thread EXCEPT ![c] = NoThread]
              /\ UNCHANGED <<serving, indexing, disk, adopted>>
<1>1. CASE TakeResident(c)
  BY <1>1 DEF TakeResident, Return, Borrowed
<1>2. CASE SplitForIndex(c)
  BY <1>2 DEF SplitForIndex, Return
<1>3. CASE FinishRun(c)
  BY <1>3 DEF FinishRun
<1>4. CASE ClearIndexing(c)
  BY <1>4 DEF ClearIndexing, Return
<1>5. CASE CommitLexical(c)
  BY <1>5 DEF CommitLexical
<1>6. CASE Panic(c)
  BY <1>6 DEF Panic
<1> QED
  BY <1>1, <1>2, <1>3, <1>4, <1>5, <1>6 DEF Indexes, ThreadStep

\* The accept loop, the timer, the clients and whoever replaces the store
\* leave the index thread and what it works on alone.
LEMMA Bystanders ==
    ASSUME \/ Tick \/ Rearm \/ TimePasses \/ ReplaceStore \/ UNCHANGED vars
           \/ \E c \in Clients : Socket(c)
    PROVE  UNCHANGED <<indexing, thread, serving, loader, disk>>
BY DEF Tick, Rearm, TimePasses, ReplaceStore, vars, Socket, Connect, Send,
       Close, Accept

\* There is one index thread at most: the flag is claimed before it is spawned
\* and cleared when it returns.
LEMMA ThreadPartStep ==
    ASSUME TypeOK, ThreadPart, [Next]_vars
    PROVE  ThreadPart'
<1>1. CASE LoadStep
  BY <1>1, LoadMoves DEF ThreadPart
<1>2. CASE Exit
  BY <1>2 DEF Exit, ThreadPart, NoThread
<1>3. ASSUME NEW c \in Clients, ConnectionStep(c) PROVE ThreadPart'
  <2>1. CASE UNCHANGED <<indexing, thread>>
    BY <2>1 DEF ThreadPart
  <2>2. CASE /\ ~indexing
             /\ indexing' = TRUE
             /\ thread' = [thread EXCEPT ![c] = [NoThread EXCEPT !.pc = "take"]]
    BY <2>2 DEF ThreadPart, TypeOK
  <2> QED
    BY <1>3, <2>1, <2>2, ClaimStep
<1>4. ASSUME NEW c \in Clients, Indexes(c) PROVE ThreadPart'
  <2>1. \A d \in Clients \ {c} : thread'[d] = thread[d]
    BY Zenon, <1>4, ThreadMoves DEF TypeOK
  <2>2. thread[c].pc # "none"
    BY <1>4, ThreadMoves
  <2>3. \A d \in Clients \ {c} : thread'[d].pc = "none"
    BY <2>1, <2>2 DEF ThreadPart
  <2>4. thread'[c].pc = "none" \/ indexing'
    <3>1. CASE thread' = [thread EXCEPT ![c] = NoThread]
      BY <3>1 DEF TypeOK, NoThread
    <3>2. CASE thread' # [thread EXCEPT ![c] = NoThread]
      <4>1. indexing
        BY SMTT(30), <2>2 DEF ThreadPart
      <4>2. UNCHANGED indexing
        BY <1>4, <3>2, ThreadMoves
      <4> QED
        BY <4>1, <4>2
    <3> QED
      BY <3>1, <3>2
  <2> QED
    BY <2>3, <2>4 DEF ThreadPart
<1> QED
  BY <1>1, <1>2, <1>3, <1>4, Bystanders, Cases DEF ThreadPart

\* At every position of the thread the resident is where StorePart says.
LEMMA StorePartStep ==
    ASSUME TypeOK, ThreadPart, FlagPart, StorePart, GenPart, [Next]_vars
    PROVE  StorePart'
<1>1. CASE LoadStep
  BY <1>1, LoadMoves DEF StorePart, Loaded
<1>2. CASE Exit
  BY <1>2 DEF Exit, StorePart, NoThread, Starting
<1>3. ASSUME NEW c \in Clients, ConnectionStep(c) PROVE StorePart'
  <2>1. UNCHANGED <<serving, loader, disk>>
    BY <1>3, ConnectionSteps
  <2>2. CASE UNCHANGED <<indexing, thread>>
    BY <2>1, <2>2 DEF StorePart
  <2>3. CASE thread' = [thread EXCEPT ![c] = [NoThread EXCEPT !.pc = "take"]]
    <3>1. /\ thread'[c].pc = "take"
          /\ \A d \in Clients \ {c} : thread'[d] = thread[d]
      BY <2>3 DEF TypeOK, NoThread
    <3> QED
      BY <2>1, <3>1 DEF StorePart
  <2> QED
    BY <1>3, <2>2, <2>3, ClaimStep
<1>4. ASSUME NEW c \in Clients, Indexes(c) PROVE StorePart'
  <2>0. /\ loader' = loader
        /\ thread[c] \in Threads
        /\ disk \in Nat
    BY <1>4, ThreadTypes, DaemonAssumption DEF TypeOK, Gens
  <2>1. \A d \in Clients \ {c} : thread'[d].pc = "none"
    <3>1. thread[c].pc # "none"
      BY Zenon, <1>4, ThreadMoves
    <3>2. \A d \in Clients \ {c} : thread'[d] = thread[d]
      BY <1>4, ThreadMoves DEF TypeOK
    <3> QED
      BY <3>1, <3>2 DEF ThreadPart
  <2>2. ASSUME thread[c].pc = "take", serving.state = "Ready",
               serving' = Starting, disk' = disk,
               thread' = [thread EXCEPT ![c] =
                            [@ EXCEPT !.pc = "split",
                                      !.resident = serving.resident]]
        PROVE  StorePart'
    <3>1. thread'[c].pc = "split" /\ thread'[c].resident = serving.resident
      BY <2>0, <2>2 DEF TypeOK, Threads
    <3>2. ~Loading
      BY <2>2 DEF StorePart
    <3> QED
      BY <2>0, <2>1, <2>2, <3>1, <3>2 DEF StorePart, GenPart, Starting
  <2>3. ASSUME thread' = [thread EXCEPT ![c] = NoThread], serving' = serving,
               disk' = disk
        PROVE  StorePart'
    <3>1. thread'[c].pc = "none"
      BY <2>3 DEF TypeOK, NoThread
    <3> QED
      BY <2>0, <2>1, <2>3, <3>1 DEF StorePart
  <2>4. ASSUME thread[c].pc = "split", serving' = Indexing(thread[c].resident),
               thread' = [thread EXCEPT ![c].pc = "run"]
        PROVE  StorePart'
    <3>1. thread'[c].pc = "run" /\ thread'[c].resident = thread[c].resident
      BY <2>0, <2>4 DEF TypeOK, Threads
    <3>2. ~Loading
      BY <2>4 DEF StorePart
    <3> QED
      BY <2>0, <2>1, <2>4, <3>1, <3>2 DEF StorePart, Indexing
  <2>5. ASSUME thread[c].pc = "run", UNCHANGED <<serving, thread>>
        PROVE  StorePart'
    BY <2>0, <2>1, <2>5 DEF StorePart
  <2>6. ASSUME thread[c].pc = "run",
               NEW r \in Results,
               thread' = [thread EXCEPT ![c] =
                            [@ EXCEPT !.pc = "clear", !.result = r]]
        PROVE  StorePart'
    <3>1. thread'[c].pc = "clear"
      BY <2>0, <2>6 DEF TypeOK, Threads
    <3>2. ~Loading
      BY <2>6 DEF StorePart
    <3> QED
      BY <2>0, <2>1, <3>1, <3>2 DEF StorePart
  <2> QED
    BY Zenon, <1>4, <2>2, <2>3, <2>4, <2>5, <2>6, ThreadMoves
<1>5. CASE UNCHANGED <<indexing, thread, serving, loader, disk>>
  BY <1>5 DEF StorePart
<1> QED
  BY <1>1, <1>2, <1>3, <1>4, <1>5, Bystanders, Cases

\* The flag is left set only by a panic, and then the store is out of service.
LEMMA FlagPartStep ==
    ASSUME TypeOK, FlagPart, StorePart, [Next]_vars
    PROVE  FlagPart'
<1>1. CASE LoadStep
  BY <1>1, LoadMoves DEF FlagPart
<1>2. CASE Exit
  BY <1>2 DEF Exit, FlagPart
<1>3. ASSUME NEW c \in Clients, ConnectionStep(c) PROVE FlagPart'
  <2>1. UNCHANGED <<serving, loader>>
    BY <1>3, ConnectionSteps
  <2>2. UNCHANGED <<indexing, thread>> \/ thread'[c].pc # "none"
    BY Zenon, <1>3, ClaimStep DEF TypeOK, NoThread
  <2> QED
    BY <2>1, <2>2 DEF FlagPart
<1>4. ASSUME NEW c \in Clients, Indexes(c) PROVE FlagPart'
  <2>0. loader' = loader /\ thread[c] \in Threads
    BY <1>4, ThreadTypes DEF TypeOK
  <2>1. \/ indexing' = FALSE
        \/ thread'[c].pc # "none"
        \/ /\ "panic" \in Faults
           /\ thread[c].pc \in {"split", "run"}
           /\ serving' = serving
    <3>1. thread \in [Clients -> Threads]
      BY DEF TypeOK
    <3>2. \/ thread'[c] = [thread[c] EXCEPT !.pc = "split", !.resident = serving.resident]
          \/ indexing' = FALSE
          \/ thread'[c] = [thread[c] EXCEPT !.pc = "run"]
          \/ thread[c].pc = "run" /\ thread' = thread
          \/ \E x \in Results : thread'[c] = [thread[c] EXCEPT !.pc = "clear", !.result = x]
          \/ /\ "panic" \in Faults
             /\ thread[c].pc \in {"split", "run"}
             /\ serving' = serving
      BY <1>4, <3>1, ThreadMoves
    <3>3. \A r, x : /\ [thread[c] EXCEPT !.pc = "split", !.resident = r].pc # "none"
                    /\ [thread[c] EXCEPT !.pc = "run"].pc # "none"
                    /\ [thread[c] EXCEPT !.pc = "clear", !.result = x].pc # "none"
      BY <2>0 DEF Threads
    <3> QED
      BY <3>2, <3>3
  <2>2. CASE thread[c].pc \in {"split", "run"}
    <3>1. serving.state \in {"Starting", "Indexing"} /\ ~Loading
      BY <2>2 DEF StorePart, Indexing
    <3> QED
      BY <2>0, <2>1, <3>1 DEF FlagPart
  <2> QED
    BY <2>1, <2>2 DEF FlagPart
<1>5. CASE UNCHANGED <<indexing, thread, serving, loader, disk>>
  BY <1>5 DEF FlagPart
<1> QED
  BY <1>1, <1>2, <1>3, <1>4, <1>5, Bystanders, Cases

-----------------------------------------------------------------------------
(* The searches *)

\* Where a connection's step can leave a search: queueing with what is
\* committed now, or holding what is served now.
LEMMA Positions ==
    ASSUME TypeOK, NEW c \in Clients, ConnectionStep(c)
    PROVE  /\ \A d \in Clients \ {c} : handler'[d] = handler[d]
           /\ handler'[c].pc = "permit" => handler'[c].since = Committed
           /\ handler'[c].pc \in {"borrow", "frozen"} =>
                \/ /\ handler[c].pc \in {"borrow", "frozen"}
                   /\ StillValid(handler[c].resident)
                   /\ handler'[c] = [handler[c] EXCEPT !.checked = TRUE]
                \/ /\ \/ handler'[c].pc = "borrow" /\ serving.state = "Ready"
                      \/ handler'[c].pc = "frozen" /\ serving.state = "Indexing"
                   /\ handler'[c].resident = serving.resident
                   /\ \/ handler'[c].since = Committed
                      \/ /\ handler[c].pc = "permit"
                         /\ handler'[c].since = handler[c].since
<1>0. handler[c] \in Handlers /\ handler \in [Clients -> Handlers]
  BY DEF TypeOK
<1>1. \A d \in Clients \ {c} : handler'[d] = handler[d]
  BY <1>0, ConnectionSteps DEF ConnectionMove, Ending, Going
<1>2. ASSUME NEW e, Write(c, e) PROVE handler'[c].pc \in {"read", "away"}
  <2>1. /\ [NoHandler EXCEPT !.pc = "read", !.hello = handler[c].hello].pc = "read"
        /\ NoHandler.pc = "away"
    BY DEF NoHandler
  <2> QED
    BY <1>0, <1>2, <2>1 DEF Write, Leave
<1>3. ASSUME Leave(c) PROVE handler'[c].pc = "away"
  BY <1>0, <1>3 DEF Leave, NoHandler
<1>4. ASSUME NEW since, NEW asked, Target(c, since, asked)
      PROVE  \/ handler'[c].pc \in {"read", "away"}
             \/ /\ \/ handler'[c].pc = "borrow" /\ serving.state = "Ready"
                   \/ handler'[c].pc = "frozen" /\ serving.state = "Indexing"
                /\ handler'[c].resident = serving.resident
                /\ handler'[c].since = since
  <2>1. CASE serving.state \in {"Ready", "Indexing"}
    <3>1. handler'[c] = [handler[c] EXCEPT !.pc = IF serving.state = "Ready"
                                                  THEN "borrow" ELSE "frozen",
                                           !.resident = serving.resident,
                                           !.since = since, !.asked = asked]
      BY <1>0, <1>4, <2>1 DEF Target
    <3> QED
      BY <1>0, <2>1, <3>1 DEF Handlers
  <2>2. CASE serving.state \notin {"Ready", "Indexing"}
    BY <1>2, <1>4, <2>2 DEF Target, Answer
  <2> QED
    BY <2>1, <2>2
<1>5. CASE \E r \in Requests : Handshake(c, r)
  <2>1. handler'[c].pc \in {"read", "away"}
    BY <1>0, <1>2, <1>3, <1>5
    DEF Handshake, Read, HasFrame, Answer, AnswerAndLeave, Handlers
  <2> QED
    BY <1>1, <2>1
<1>6. CASE ReadSearch(c)
  <2>1. handler'[c] = [handler[c] EXCEPT !.pc = "permit", !.req = "Search",
                                         !.since = Committed, !.asked = dir]
    BY <1>0, <1>6 DEF ReadSearch
  <2> QED
    BY <1>0, <1>1, <2>1 DEF Handlers
<1>7. CASE ReadGetSymbol(c)
  <2>1. Target(c, Committed, dir)
    BY <1>7 DEF ReadGetSymbol
  <2> QED
    BY <1>1, <1>4, <2>1
<1>8. CASE AcquirePermit(c)
  <2>1. /\ Target(c, handler[c].since, handler[c].asked)
        /\ handler[c].pc = "permit"
    BY <1>8 DEF AcquirePermit
  <2> QED
    BY <1>1, <1>4, <2>1
<1>9. CASE ReadIndex(c)
  <2>1. handler'[c].pc \in {"read", "away", "index"}
    BY <1>0, <1>2, <1>9 DEF ReadIndex, Answer, Handlers
  <2> QED
    BY <1>1, <2>1
<1>10. CASE \/ ReadEof(c) \/ ReadMalformed(c) \/ ReadSimple(c)
            \/ ReadShutdown(c) \/ Serve(c) \/ TakeDone(c) \/ ProgressFails(c)
  <2>1. handler'[c].pc \in {"read", "away"}
    BY <1>2, <1>3, <1>10
    DEF ReadEof, ReadMalformed, ReadSimple, ReadShutdown, Serve, TakeDone,
        ProgressFails, Answer, AnswerAndLeave
  <2> QED
    BY <1>1, <2>1
<1>11. CASE CheckStore(c)
  <2>1. CASE Answer(c, "StoreStale")
    BY <1>1, <1>2, <2>1 DEF Answer
  <2>2. CASE /\ StillValid(handler[c].resident)
             /\ handler' = [handler EXCEPT ![c].checked = TRUE]
    <3>1. handler'[c] = [handler[c] EXCEPT !.checked = TRUE]
      BY <1>0, <2>2
    <3>2. handler'[c].pc = handler[c].pc
      BY <1>0, <3>1 DEF Handlers
    <3> QED
      BY <1>1, <1>11, <2>2, <3>1, <3>2 DEF CheckStore
  <2> QED
    BY <1>11, <2>1, <2>2 DEF CheckStore
<1> QED
  BY <1>5, <1>6, <1>7, <1>8, <1>9, <1>10, <1>11 DEF ConnectionStep, HandlerStep

\* A handler that is connecting, accepted or ended searches nothing.
LEMMA SocketPositions ==
    ASSUME TypeOK, NEW c \in Clients, Socket(c), NEW d \in Clients
    PROVE  handler'[d] = handler[d] \/ handler'[d].pc \in {"backlog", "read"}
<1>1. CASE Connect(c)
  <2>1. [NoHandler EXCEPT !.pc = "backlog"].pc = "backlog"
    BY DEF NoHandler
  <2> QED
    BY <1>1, <2>1 DEF Connect, TypeOK
<1>2. CASE Accept(c)
  BY <1>2 DEF Accept, TypeOK, Handlers
<1>3. CASE (\E r \in Requests : Send(c, r)) \/ Close(c)
  BY <1>3 DEF Send, Close
<1> QED
  BY <1>1, <1>2, <1>3 DEF Socket

\* A search holds the ready resident only while no thread owns the store.
LEMMA BorrowPartStep ==
    ASSUME TypeOK, ThreadPart, StorePart, BorrowPart, [Next]_vars
    PROVE  BorrowPart'
<1>1. CASE LoadStep \/ Tick \/ Rearm \/ TimePasses \/ ReplaceStore
  BY <1>1, LoadMoves DEF Tick, Rearm, TimePasses, ReplaceStore, BorrowPart
<1>2. CASE Exit
  BY <1>2 DEF Exit, BorrowPart, NoHandler
<1>3. ASSUME NEW c \in Clients, ConnectionStep(c) PROVE BorrowPart'
  <2> SUFFICES ASSUME NEW a \in Clients, NEW d \in Clients,
                      handler'[a].pc = "borrow"
               PROVE  thread'[d].pc \notin {"split", "run"}
    BY DEF BorrowPart
  <2>1. thread'[d].pc = thread[d].pc \/ thread'[d].pc = "take"
    BY <1>3, ClaimStep DEF TypeOK, NoThread
  <2>2. CASE a = c
    <3>1. \/ serving.state = "Ready"
          \/ handler'[c] = [handler[c] EXCEPT !.checked = TRUE]
      BY <1>3, <2>2, Positions
    <3>2. CASE serving.state = "Ready"
      BY <2>1, <3>2 DEF StorePart, Indexing
    <3>3. CASE handler'[c] = [handler[c] EXCEPT !.checked = TRUE]
      <4>1. handler[c].pc = "borrow"
        BY <2>2, <3>3 DEF TypeOK, Handlers
      <4> QED
        BY <2>1, <4>1 DEF BorrowPart
    <3> QED
      BY <3>1, <3>2, <3>3
  <2>3. CASE a # c
    <3>1. handler[a].pc = "borrow"
      BY <1>3, <2>3, Positions
    <3> QED
      BY <2>1, <3>1 DEF BorrowPart
  <2> QED
    BY <2>2, <2>3
<1>4. ASSUME NEW c \in Clients, Indexes(c) PROVE BorrowPart'
  <2> SUFFICES ASSUME NEW a \in Clients, NEW d \in Clients,
                      handler[a].pc = "borrow"
               PROVE  thread'[d].pc \notin {"split", "run"}
    BY <1>4, ThreadTypes DEF BorrowPart
  <2>1. thread[c].pc \notin {"split", "run"}
    BY DEF BorrowPart
  <2>2. thread' = [thread EXCEPT ![c] = NoThread]
    BY <1>4, <2>1, ThreadMoves
  <2> QED
    BY <2>2 DEF BorrowPart, NoThread, TypeOK
<1>5. ASSUME NEW c \in Clients, Socket(c) PROVE BorrowPart'
  <2>1. thread' = thread
    BY <1>5, Bystanders
  <2> QED
    BY <1>5, <2>1, SocketPositions DEF BorrowPart
<1>6. CASE UNCHANGED vars
  BY <1>6 DEF vars, BorrowPart
<1> QED
  BY <1>1, <1>2, <1>3, <1>4, <1>5, <1>6, Cases

\* Numbers the generations are compared as.
LEMMA GenNumbers ==
    ASSUME TypeOK
    PROVE  /\ disk \in Nat
           /\ serving.resident.gen \in Nat
           /\ \A c \in Clients : /\ handler[c].since \in Nat
                                 /\ handler[c].resident.gen \in Nat
                                 /\ thread[c].resident.gen \in Nat
<1>1. \A r \in Residents : r.gen \in Nat
  BY DaemonAssumption DEF Residents, Gens
<1> QED
  BY <1>1, DaemonAssumption DEF TypeOK, ServingState, Handlers, Threads, Gens

\* What is committed now is at most what is on disk, and during a run what
\* the frozen view has.
LEMMA CommittedBound ==
    ASSUME TypeOK, GenPart
    PROVE  /\ Committed <= disk
           /\ serving.state \in {"Ready", "Indexing"} =>
                 Committed <= serving.resident.gen
BY GenNumbers DEF GenPart, Committed

\* The generations keep their order: a search that queues or runs never has
\* to see more than what it is or will be given.
LEMMA GenPartStep ==
    ASSUME TypeOK, ThreadPart, StorePart, BorrowPart, GenPart, [Next]_vars
    PROVE  GenPart'
<1>0. disk \in Nat
  BY GenNumbers
<1>1. CASE LoadStep
  <2>1. \/ serving' = serving
        \/ serving'.state = "Ready" /\ serving'.resident.gen = disk
        \/ serving'.state = "Stale"
    BY <1>1, LoadMoves DEF Ready, Stale
  <2> QED
    BY <1>0, <1>1, <2>1, LoadMoves DEF GenPart
<1>2. CASE Exit
  BY <1>2 DEF Exit, GenPart, NoHandler, Starting
<1>3. ASSUME NEW c \in Clients, ConnectionStep(c) PROVE GenPart'
  <2>1. UNCHANGED <<serving, disk>>
    BY <1>3, ConnectionSteps
  <2>2. \A d \in Clients \ {c} : handler'[d] = handler[d]
    BY <1>3, Positions
  <2>3. handler'[c].pc = "permit" =>
           /\ handler'[c].since <= disk
           /\ serving.state = "Indexing" =>
                 handler'[c].since <= serving.resident.gen
    BY <1>3, Positions, CommittedBound
  <2>4. ASSUME handler'[c].pc \in {"borrow", "frozen"}
        PROVE  /\ handler'[c].since <= handler'[c].resident.gen
               /\ handler'[c].resident.gen <= disk
    <3>1. CASE /\ handler[c].pc \in {"borrow", "frozen"}
               /\ handler'[c] = [handler[c] EXCEPT !.checked = TRUE]
      <4>1. /\ handler'[c].since = handler[c].since
            /\ handler'[c].resident = handler[c].resident
        BY <3>1 DEF TypeOK, Handlers
      <4> QED
        BY <3>1, <4>1 DEF GenPart
    <3>2. CASE /\ serving.state \in {"Ready", "Indexing"}
               /\ handler'[c].resident = serving.resident
               /\ \/ handler'[c].since = Committed
                  \/ /\ handler[c].pc = "permit"
                     /\ handler'[c].since = handler[c].since
      <4>1. serving.resident.gen <= disk
        BY <1>0, <3>2 DEF GenPart
      <4>2. CASE handler'[c].since = Committed
        BY <3>2, <4>1, <4>2, CommittedBound
      <4>3. CASE handler[c].pc = "permit" /\ handler'[c].since = handler[c].since
        BY SMTT(30), <3>2, <4>1, <4>3 DEF GenPart
      <4> QED
        BY <3>2, <4>2, <4>3
    <3> QED
      BY <1>3, <2>4, <3>1, <3>2, Positions
  <2> QED
    BY <2>1, <2>2, <2>3, <2>4 DEF GenPart
<1>4. ASSUME NEW c \in Clients, Indexes(c) PROVE GenPart'
  <2>0. handler' = handler
    BY <1>4, ThreadTypes
  <2>1. CASE disk' = disk + 1 /\ serving' = serving /\ thread[c].pc = "run"
    <3>1. serving.state = "Indexing"
      BY <2>1 DEF StorePart, Indexing
    <3> QED
      BY <2>0, <2>1, <3>1, GenNumbers DEF GenPart
  <2>2. CASE serving' = Starting /\ disk' = disk
    BY <2>0, <2>2 DEF GenPart, Starting
  <2>3. CASE serving' = serving /\ disk' = disk
    BY <2>0, <2>3 DEF GenPart
  <2>4. CASE /\ serving' = Indexing(thread[c].resident)
             /\ thread[c].pc = "split" /\ disk' = disk
    <3>1. /\ serving'.state = "Indexing"
          /\ serving'.resident.gen = disk
      BY <2>4 DEF StorePart, Indexing
    <3> QED
      BY <1>0, <2>0, <2>4, <3>1 DEF GenPart
  <2>5. CASE (serving' = Stale \/ serving' = Ready(Rebuild(c))) /\ disk' = disk
    <3>1. \/ serving'.state = "Ready" /\ serving'.resident.gen = disk
          \/ serving'.state = "Stale"
      BY <2>5 DEF Stale, Ready, Rebuild
    <3> QED
      BY <2>0, <2>5, <3>1 DEF GenPart
  <2> QED
    BY <1>4, <2>1, <2>2, <2>3, <2>4, <2>5, ThreadMoves
<1>5. ASSUME NEW c \in Clients, Socket(c) PROVE GenPart'
  <2>1. UNCHANGED <<serving, disk>>
    BY <1>5, Bystanders
  <2> QED
    BY <1>5, <2>1, SocketPositions DEF GenPart
<1>6. CASE Tick \/ Rearm \/ TimePasses \/ ReplaceStore \/ UNCHANGED vars
  BY <1>6 DEF Tick, Rearm, TimePasses, ReplaceStore, vars, GenPart
<1> QED
  BY <1>1, <1>2, <1>3, <1>4, <1>5, <1>6, Cases

\* A client is told "Found" by Serve only; every other step leaves its end
\* alone or tells it something else, and nothing of what was found.
LEMMA FoundByServe ==
    ASSUME TypeOK, NEW c \in Clients, ConnectionStep(c), ~Serve(c)
    PROVE  client'[c] = client[c] \/ Blank(client'[c])
<1>0. client \in [Clients -> ClientEnds]
  BY DEF TypeOK
<1>a. ASSUME NEW reply \in Responses \ {"Found"}
       PROVE  /\ Blank(Received(reply))
              /\ Blank([Received(reply) EXCEPT !.open = FALSE])
  BY DEF Blank, Received, NoClient
<1>1. ASSUME NEW reply \in Responses \ {"Found"}, Answer(c, reply)
      PROVE  client'[c] = client[c] \/ Blank(client'[c])
  BY <1>0, <1>1, <1>a DEF Answer, Write
<1>2. ASSUME NEW reply \in Responses \ {"Found"}, AnswerAndLeave(c, reply)
      PROVE  client'[c] = client[c] \/ Blank(client'[c])
  BY <1>0, <1>2, <1>a DEF AnswerAndLeave
<1>3. ASSUME NEW since, NEW asked, Target(c, since, asked)
      PROVE  client'[c] = client[c] \/ Blank(client'[c])
  BY <1>1, <1>3 DEF Target
<1>4. CASE \E r \in Requests : Handshake(c, r)
  <2> PICK r \in Requests : Handshake(c, r)
    BY <1>4
  <2>1. BeforeHello(r) \in Responses \ {"Found"}
    BY DEF BeforeHello
  <2> QED
    BY <1>0, <1>1, <1>2, <1>a, <2>1 DEF Handshake
<1>5. CASE TakeDone(c)
  <2>1. done[c] \in Responses \ {"Found"}
    BY <1>5 DEF TakeDone, TypeOK
  <2> QED
    BY <1>1, <1>5, <2>1 DEF TakeDone
<1>6. CASE ReadMalformed(c) \/ ReadSimple(c) \/ ReadIndex(c)
  BY <1>1, <1>6 DEF ReadMalformed, ReadSimple, ReadIndex
<1>7. CASE ReadShutdown(c)
  BY <1>2, <1>7 DEF ReadShutdown
<1>8. CASE ReadEof(c) \/ ReadSearch(c) \/ ProgressFails(c)
  BY <1>8 DEF ReadEof, ReadSearch, ProgressFails
<1>9. CASE ReadGetSymbol(c) \/ AcquirePermit(c)
  BY <1>3, <1>9 DEF ReadGetSymbol, AcquirePermit
<1>10. CASE CheckStore(c)
  BY <1>1, <1>10 DEF CheckStore
<1> QED
  BY <1>4, <1>5, <1>6, <1>7, <1>8, <1>9, <1>10 DEF ConnectionStep, HandlerStep

\* What Serve tells a client that is told "Found".
LEMMA ServeFinds ==
    ASSUME TypeOK, NEW c \in Clients, Serve(c), client'[c] # client[c]
    PROVE  /\ client'[c].from = handler[c].resident
           /\ client'[c].since = handler[c].since
           /\ client'[c].asked = handler[c].asked
           /\ client'[c].lex \in ReaderGens(c)
<1> PICK g \in ReaderGens(c) :
           Write(c, [Received("Found") EXCEPT
                        !.from = handler[c].resident, !.lex = g,
                        !.since = handler[c].since, !.asked = handler[c].asked])
  BY DEF Serve
<1>1. client'[c] = [Received("Found") EXCEPT
                       !.from = handler[c].resident, !.lex = g,
                       !.since = handler[c].since, !.asked = handler[c].asked]
  BY DEF Write, TypeOK
<1> QED
  BY <1>1 DEF Received, NoClient

\* A client that is newly told "Found" was told so by its own Serve step; any
\* other step leaves no new trace of what was found.
LEMMA NewlyFound ==
    ASSUME TypeOK, [Next]_vars, NEW c \in Clients
    PROVE  \/ client'[c] = client[c]
           \/ Serve(c)
           \/ /\ client'[c].reply # "Found"
              /\ \/ Blank(client'[c])
                 \/ /\ client'[c].from = client[c].from
                    /\ client'[c].asked = client[c].asked
<1> SUFFICES ASSUME client'[c] # client[c], ~Serve(c)
             PROVE  /\ client'[c].reply # "Found"
                    /\ \/ Blank(client'[c])
                       \/ /\ client'[c].from = client[c].from
                          /\ client'[c].asked = client[c].asked
  OBVIOUS
<1>1. ASSUME NEW d \in Clients, ConnectionStep(d)
      PROVE  Blank(client'[c])
  <2>1. d = c
    BY <1>1, ConnectionSteps DEF ConnectionMove, TypeOK
  <2> QED
    BY <1>1, <2>1, FoundByServe
<1>2. ASSUME NEW d \in Clients, Socket(d) PROVE Blank(client'[c])
  <2>1. ASSUME NEW r \in Requests
        PROVE  Blank([NoClient EXCEPT !.open = TRUE, !.reply = "pending", !.frame = r])
    BY DEF Blank, Received, NoClient
  <2>2. /\ Blank([NoClient EXCEPT !.open = TRUE])
        /\ Blank([NoClient EXCEPT !.frame = client[d].frame])
    BY DEF Blank, NoClient
  <2>3. CASE Connect(d)
    BY <2>2, <2>3 DEF Connect, TypeOK
  <2>4. ASSUME NEW r \in Requests, Send(d, r) PROVE Blank(client'[c])
    BY <2>1, <2>4 DEF Send, TypeOK
  <2>5. CASE Close(d)
    BY <2>2, <2>5 DEF Close, TypeOK
  <2>6. CASE Accept(d)
    BY <2>6 DEF Accept
  <2> QED
    BY <1>2, <2>3, <2>4, <2>5, <2>6 DEF Socket
<1>3. CASE Exit
  <2> DEFINE e == [client[c] EXCEPT !.open = FALSE, !.reply = "idle",
                                    !.frame = "none"]
  <2>1. e.reply = "idle" /\ e.from = client[c].from /\ e.asked = client[c].asked
    BY DEF TypeOK, ClientEnds
  <2>2. client'[c] = e
    BY <1>3 DEF Exit
  <2> QED
    BY <2>1, <2>2
<1>4. ASSUME NEW d \in Clients, Indexes(d) PROVE FALSE
  BY <1>4, ThreadTypes
<1>5. ~(LoadStep \/ Tick \/ Rearm \/ TimePasses \/ ReplaceStore
        \/ UNCHANGED vars)
  BY LoadMoves DEF Tick, Rearm, TimePasses, ReplaceStore, vars
<1> QED
  BY <1>1, <1>2, <1>3, <1>4, <1>5, Cases DEF Blank

\* What a client was told it found stays as fresh as it was.
LEMMA FreshStep ==
    ASSUME TypeOK, GenPart, SearchesSeeCommitted, [Next]_vars
    PROVE  SearchesSeeCommitted'
<1> SUFFICES ASSUME NEW c \in Clients, client'[c].reply = "Found"
             PROVE  /\ client'[c].from.gen >= client'[c].since
                    /\ client'[c].lex >= client'[c].from.gen
  BY DEF SearchesSeeCommitted
<1>1. CASE client'[c] = client[c]
  BY <1>1 DEF SearchesSeeCommitted
<1>2. CASE client'[c] # client[c]
  <2>1. Serve(c)
    BY <1>2, NewlyFound
  <2>2. /\ client'[c].from = handler[c].resident
        /\ client'[c].since = handler[c].since
        /\ client'[c].lex \in ReaderGens(c)
    BY <1>2, <2>1, ServeFinds
  <2>3. handler[c].since <= handler[c].resident.gen
    BY <2>1 DEF Serve, GenPart
  <2>4. \A g \in ReaderGens(c) : g >= handler[c].resident.gen
    BY GenNumbers DEF ReaderGens
  <2> QED
    BY <2>2, <2>3, <2>4, GenNumbers
<1> QED
  BY <1>1, <1>2

-----------------------------------------------------------------------------
(* The identity of the store *)

\* The resident, the directory and the check of a handler after a step of its
\* connection: none, what it had, what is served, or a check that passed.
LEMMA HandlerIdentity ==
    ASSUME TypeOK, IdentityPart, NEW c \in Clients, ConnectionStep(c)
    PROVE  \/ /\ handler'[c].resident \in
                    {NoResident, handler[c].resident, serving.resident}
              /\ handler'[c].asked \in {0, dir, handler[c].asked}
              /\ ~handler'[c].checked
           \/ /\ handler'[c] = [handler[c] EXCEPT !.checked = TRUE]
              /\ handler[c].pc \in {"borrow", "frozen"}
              /\ StillValid(handler[c].resident)
<1> DEFINE Plain == /\ handler'[c].resident \in
                          {NoResident, handler[c].resident, serving.resident}
                    /\ handler'[c].asked \in {0, dir, handler[c].asked}
                    /\ ~handler'[c].checked
<1>0. handler[c] \in Handlers /\ handler \in [Clients -> Handlers]
  BY DEF TypeOK
<1>1. handler[c].pc \in {"read", "permit"} => ~handler[c].checked
  BY DEF IdentityPart
<1>2. ASSUME NEW e, Write(c, e) PROVE Plain
  <2> DEFINE h == [NoHandler EXCEPT !.pc = "read", !.hello = handler[c].hello]
  <2>1. handler'[c] = h \/ handler'[c] = NoHandler
    BY <1>0, <1>2 DEF Write, Leave
  <2>2. /\ h.resident = NoResident /\ h.asked = 0 /\ ~h.checked
        /\ NoHandler.resident = NoResident
        /\ NoHandler.asked = 0 /\ ~NoHandler.checked
    BY DEF NoHandler
  <2> QED
    BY <2>1, <2>2
<1>3. ASSUME Leave(c) PROVE Plain
  BY <1>0, <1>3 DEF Leave, NoHandler
<1>4. ASSUME NEW since, NEW asked \in {dir, handler[c].asked},
             handler[c].pc \in {"read", "permit"}, Target(c, since, asked)
      PROVE  Plain
  <2>1. CASE serving.state \in {"Ready", "Indexing"}
    <3>1. handler'[c] = [handler[c] EXCEPT !.pc = IF serving.state = "Ready"
                                                  THEN "borrow" ELSE "frozen",
                                           !.resident = serving.resident,
                                           !.since = since, !.asked = asked]
      BY <1>0, <1>4, <2>1 DEF Target
    <3> QED
      BY <1>0, <1>1, <1>4, <3>1 DEF Handlers
  <2>2. CASE serving.state \notin {"Ready", "Indexing"}
    BY <1>2, <1>4, <2>2 DEF Target, Answer
  <2> QED
    BY <2>1, <2>2
<1>5. CASE \E r \in Requests : Handshake(c, r)
  <2> PICK r \in Requests : Handshake(c, r)
    BY <1>5
  <2>1. handler[c].pc = "read"
    BY DEF Handshake, Read, HasFrame
  <2>2. CASE handler' = [handler EXCEPT ![c].hello = TRUE]
    <3>1. handler'[c] = [handler[c] EXCEPT !.hello = TRUE]
      BY <1>0, <2>2
    <3> QED
      BY <1>0, <1>1, <2>1, <3>1 DEF Handlers
  <2>3. CASE Leave(c) \/ \E reply : Answer(c, reply) \/ AnswerAndLeave(c, reply)
    BY <1>2, <1>3, <2>3 DEF Answer, AnswerAndLeave
  <2> QED
    BY <2>2, <2>3 DEF Handshake
<1>6. CASE ReadSearch(c)
  <2>1. /\ handler'[c] = [handler[c] EXCEPT !.pc = "permit", !.req = "Search",
                                            !.since = Committed, !.asked = dir]
        /\ handler[c].pc = "read"
    BY <1>0, <1>6 DEF ReadSearch, Read, HasFrame
  <2> QED
    BY <1>0, <1>1, <2>1 DEF Handlers
<1>7. CASE ReadGetSymbol(c)
  BY <1>4, <1>7 DEF ReadGetSymbol, Read, HasFrame
<1>8. CASE AcquirePermit(c)
  BY <1>4, <1>8 DEF AcquirePermit
<1>9. CASE ReadIndex(c)
  <2>1. CASE handler' = [handler EXCEPT ![c].pc = "index"]
    <3>1. /\ handler'[c] = [handler[c] EXCEPT !.pc = "index"]
          /\ handler[c].pc = "read"
      BY <1>0, <1>9, <2>1 DEF ReadIndex, Read, HasFrame
    <3> QED
      BY <1>0, <1>1, <3>1 DEF Handlers
  <2> QED
    BY <1>2, <1>9, <2>1 DEF ReadIndex, Answer
<1>10. CASE \/ ReadEof(c) \/ ReadMalformed(c) \/ ReadSimple(c)
            \/ ReadShutdown(c) \/ Serve(c) \/ TakeDone(c) \/ ProgressFails(c)
  BY <1>2, <1>3, <1>10
  DEF ReadEof, ReadMalformed, ReadSimple, ReadShutdown, Serve, TakeDone,
      ProgressFails, Answer, AnswerAndLeave
<1>11. CASE CheckStore(c)
  BY <1>0, <1>2, <1>11 DEF CheckStore, Answer
<1> QED
  BY <1>5, <1>6, <1>7, <1>8, <1>9, <1>10, <1>11 DEF ConnectionStep, HandlerStep

\* Connecting starts a handler afresh and accepting carries it over; a handler
\* in the backlog has checked nothing.
LEMMA SocketIdentity ==
    ASSUME TypeOK, IdentityPart, NEW d \in Clients, Socket(d), NEW c \in Clients
    PROVE  \/ handler'[c] = handler[c]
           \/ /\ handler'[c].resident \in {NoResident, handler[c].resident}
              /\ handler'[c].asked \in {0, handler[c].asked}
              /\ ~handler'[c].checked
<1>1. CASE Connect(d)
  <2>1. /\ [NoHandler EXCEPT !.pc = "backlog"].resident = NoResident
        /\ [NoHandler EXCEPT !.pc = "backlog"].asked = 0
        /\ ~[NoHandler EXCEPT !.pc = "backlog"].checked
    BY DEF NoHandler
  <2> QED
    BY <1>1, <2>1 DEF Connect, TypeOK
<1>2. CASE Accept(d)
  <2>1. ~handler[d].checked
    BY <1>2 DEF Accept, IdentityPart
  <2>2. /\ [handler[d] EXCEPT !.pc = "read"].resident = handler[d].resident
        /\ [handler[d] EXCEPT !.pc = "read"].asked = handler[d].asked
        /\ [handler[d] EXCEPT !.pc = "read"].checked = handler[d].checked
    BY DEF TypeOK, Handlers
  <2> QED
    BY <1>2, <2>1, <2>2 DEF Accept, TypeOK
<1>3. CASE (\E r \in Requests : Send(d, r)) \/ Close(d)
  BY <1>3 DEF Send, Close
<1> QED
  BY <1>1, <1>2, <1>3 DEF Socket

\* The directories are numbers.
LEMMA DirNumbers ==
    ASSUME TypeOK
    PROVE  /\ dir \in Nat
           /\ \A c \in Clients : /\ handler[c].asked \in Nat
                                 /\ handler[c].resident.identity \in Nat
<1>1. \A r \in Residents : r.identity \in Nat
  BY DaemonAssumption DEF Residents, Dirs
<1> QED
  BY <1>1, DaemonAssumption DEF TypeOK, Handlers, Dirs

\* The residents of a state are known when each of them is, was, or is none.
LEMMA KnownStep ==
    ASSUME TypeOK, IdentityPart, [Next]_vars, NEW c \in Clients
    PROVE  \A r \in {serving.resident, thread[c].resident,
                     handler[c].resident, client[c].from}' :
              r.identity = r.store \/ r.identity \in adopted'
<1> DEFINE Kn(r) == r.identity = r.store \/ r.identity \in adopted'
<1>1. adopted \subseteq adopted'
  <2>1. \A d \in Clients : Indexes(d) => adopted \subseteq adopted'
    BY ThreadMoves DEF Adopt
  <2>2. LoadStep => adopted \subseteq adopted'
    BY LoadMoves DEF Adopt
  <2>3. \A d \in Clients : ConnectionStep(d) => adopted' = adopted
    BY ConnectionSteps
  <2>4. \A d \in Clients : Socket(d) => adopted' = adopted
    BY DEF Socket, Connect, Send, Close, Accept
  <2> QED
    BY Zenon, <2>1, <2>2, <2>3, <2>4, Cases
    DEF Tick, Rearm, Exit, TimePasses, ReplaceStore, vars
<1>2. /\ Kn(NoResident) /\ Kn(serving.resident)
      /\ \A d \in Clients : /\ Kn(thread[d].resident)
                            /\ Kn(handler[d].resident)
                            /\ Kn(client[d].from)
  BY <1>1 DEF IdentityPart, NoResident
<1>3. Kn(serving'.resident)
  <2>0. /\ Starting.resident = NoResident /\ Stale.resident = NoResident
        /\ \A r : Ready(r).resident = r /\ Indexing(r).resident = r
    BY DEF Starting, Stale, Ready, Indexing
  <2>1. CASE LoadStep
    <3> DEFINE r == [gen |-> disk, store |-> loader.store, identity |-> dir]
    <3>1. Adopt(loader.store) => Kn(r)
      BY DEF Adopt
    <3> QED
      BY <1>2, <2>0, <2>1, <3>1, LoadMoves
  <2>2. CASE Exit
    BY <1>2, <2>0, <2>2 DEF Exit
  <2>3. ASSUME NEW d \in Clients, Indexes(d) PROVE Kn(serving'.resident)
    <3>1. Adopt(thread[d].resident.store) => Kn(Rebuild(d))
      BY SMTT(30) DEF Adopt, Rebuild
    <3>2. \/ serving'.resident \in
               {NoResident, serving.resident, thread[d].resident}
          \/ /\ serving'.resident = Rebuild(d)
             /\ Adopt(thread[d].resident.store)
      BY Zenon, <2>0, <2>3, ThreadMoves
    <3> QED
      BY <1>2, <3>1, <3>2
  <2>4. CASE serving' = serving
    BY <1>2, <2>4
  <2> QED
    BY <2>1, <2>2, <2>3, <2>4, Bystanders, ConnectionSteps, Cases
<1>4. Kn(thread'[c].resident)
  <2>1. ASSUME NEW d \in Clients, Indexes(d)
        PROVE  thread'[c].resident \in
                  {NoResident, thread[c].resident, serving.resident}
    <3>1. thread[d] \in Threads /\ thread \in [Clients -> Threads]
      BY DEF TypeOK
    <3>2. /\ NoThread.resident = NoResident
          /\ [thread[d] EXCEPT !.pc = "split",
                  !.resident = serving.resident].resident = serving.resident
          /\ [thread[d] EXCEPT !.pc = "run"].resident = thread[d].resident
          /\ \A x \in Results :
                [thread[d] EXCEPT !.pc = "clear", !.result = x].resident
                   = thread[d].resident
      BY <3>1 DEF NoThread, Threads
    <3> QED
      BY <2>1, <3>1, <3>2, ThreadMoves
  <2>2. ASSUME NEW d \in Clients, ConnectionStep(d)
        PROVE  thread'[c].resident \in {NoResident, thread[c].resident}
    BY Zenon, <2>2, ClaimStep DEF TypeOK, NoThread
  <2>3. CASE Exit
    BY <1>2, <2>3 DEF Exit, NoThread
  <2>4. CASE thread' = thread
    BY <1>2, <2>4
  <2> QED
    BY <1>2, <2>1, <2>2, <2>3, <2>4, Bystanders, LoadMoves, Cases
<1>5. Kn(handler'[c].resident)
  <2>1. ASSUME NEW d \in Clients, ConnectionStep(d)
        PROVE  handler'[c].resident \in
                  {NoResident, handler[c].resident, serving.resident}
    <3>1. CASE d = c
      <4>1. [handler[c] EXCEPT !.checked = TRUE].resident = handler[c].resident
        BY DEF TypeOK, Handlers
      <4> QED
        BY <2>1, <3>1, <4>1, HandlerIdentity
    <3>2. CASE d # c
      BY <2>1, <3>2, Positions
    <3> QED
      BY <3>1, <3>2
  <2>2. CASE Exit
    BY <1>2, <2>2 DEF Exit, NoHandler
  <2>3. ASSUME NEW d \in Clients, Socket(d)
        PROVE  handler'[c].resident \in {NoResident, handler[c].resident}
    BY <2>3, SocketIdentity
  <2>4. CASE handler' = handler
    BY <1>2, <2>4
  <2>5. \A d \in Clients : Indexes(d) => handler' = handler
    BY ThreadTypes
  <2>6. Tick \/ Rearm \/ TimePasses \/ ReplaceStore \/ UNCHANGED vars =>
           handler' = handler
    BY DEF Tick, Rearm, TimePasses, ReplaceStore, vars
  <2> QED
    BY <1>2, <2>1, <2>2, <2>3, <2>4, <2>5, <2>6, LoadMoves, Cases
<1>6. Kn(client'[c].from)
  BY <1>2, NewlyFound, ServeFinds DEF Blank
<1> QED
  BY <1>3, <1>4, <1>5, <1>6

\* Every step keeps whose files a resident has open known by its identity, and
\* a search that passed its check has an identity as new as its request.
LEMMA IdentityPartStep ==
    ASSUME TypeOK, ClientCountExact, IdentityPart, [Next]_vars
    PROVE  IdentityPart'
<1>0. dir' >= dir
  <2>1. \A d \in Clients : /\ ConnectionStep(d) => dir' = dir
                           /\ Indexes(d) => dir' = dir
    BY ConnectionSteps, ThreadTypes
  <2>2. \A d \in Clients : Socket(d) => dir' = dir
    BY DEF Socket, Connect, Send, Close, Accept
  <2>3. dir' = dir \/ dir' = dir + 1
    BY <2>1, <2>2, LoadMoves, Cases
    DEF Tick, Rearm, Exit, TimePasses, ReplaceStore, vars
  <2> QED
    BY <2>3, DirNumbers
<1> SUFFICES ASSUME NEW c \in Clients
             PROVE  /\ handler'[c].asked <= dir'
                    /\ handler'[c].checked =>
                          /\ handler'[c].pc \in {"borrow", "frozen"}
                          /\ handler'[c].asked <= handler'[c].resident.identity
                    /\ client'[c].asked <= client'[c].from.identity
  BY KnownStep DEF IdentityPart
<1>1. dir \in Nat /\ dir' \in Nat
  <2>1. dir' \in Dirs
    BY TypeStep DEF TypeOK
  <2> QED
    BY <2>1, DirNumbers, DaemonAssumption DEF Dirs
<1> DEFINE Fine(h) == /\ h.asked <= dir'
                      /\ h.checked => /\ h.pc \in {"borrow", "frozen"}
                                      /\ h.asked <= h.resident.identity
<1>2. Fine(handler[c]) /\ Fine(NoHandler)
  BY <1>0, <1>1, DirNumbers DEF IdentityPart, NoHandler
<1>3. Fine(handler'[c])
  <2>1. ASSUME NEW d \in Clients, ConnectionStep(d) PROVE Fine(handler'[c])
    <3>1. CASE d # c
      BY <1>2, <2>1, <3>1, Positions
    <3>2. CASE /\ handler'[c].asked \in {0, dir, handler[c].asked}
               /\ ~handler'[c].checked
      BY <1>0, <1>1, <1>2, <3>2
    <3>3. CASE /\ handler'[c] = [handler[c] EXCEPT !.checked = TRUE]
               /\ handler[c].pc \in {"borrow", "frozen"}
               /\ StillValid(handler[c].resident)
      <4>1. /\ handler'[c].asked = handler[c].asked
            /\ handler'[c].pc = handler[c].pc
            /\ handler'[c].resident = handler[c].resident
        BY <3>3 DEF TypeOK, Handlers
      <4>2. handler[c].asked <= handler[c].resident.identity
        BY <3>3 DEF StillValid, IdentityPart
      <4> QED
        BY <1>2, <3>3, <4>1, <4>2
    <3> QED
      BY <2>1, <3>1, <3>2, <3>3, HandlerIdentity
  <2>2. CASE Exit
    BY <1>2, <2>2 DEF Exit
  <2>3. ASSUME NEW d \in Clients, Socket(d) PROVE Fine(handler'[c])
    <3>1. \/ handler'[c] = handler[c]
          \/ /\ handler'[c].asked \in {0, handler[c].asked}
             /\ ~handler'[c].checked
      BY <2>3, SocketIdentity
    <3> QED
      BY <1>1, <1>2, <3>1
  <2>4. CASE handler' = handler
    BY <1>2, <2>4
  <2>5. \A d \in Clients : Indexes(d) => handler' = handler
    BY ThreadTypes
  <2>6. Tick \/ Rearm \/ TimePasses \/ ReplaceStore \/ UNCHANGED vars =>
           handler' = handler
    BY DEF Tick, Rearm, TimePasses, ReplaceStore, vars
  <2> QED
    BY <2>1, <2>2, <2>3, <2>4, <2>5, <2>6, LoadMoves, Cases
<1>4. client'[c].asked <= client'[c].from.identity
  <2>1. CASE Serve(c) /\ client'[c] # client[c]
    <3>1. handler[c].asked <= handler[c].resident.identity
      BY <2>1 DEF Serve, IdentityPart
    <3> QED
      BY <2>1, <3>1, ServeFinds
  <2>2. NoResident.identity = 0
    BY DEF NoResident
  <2> QED
    BY <2>1, <2>2, NewlyFound DEF Blank, IdentityPart
<1> QED
  BY <1>3, <1>4

-----------------------------------------------------------------------------
(* The theorems *)

\* The initial state: the daemon is bound and has loaded nothing.
LEMMA InitInv == Init => DaemonInv /\ SearchesSeeCommitted
<1> SUFFICES ASSUME Init PROVE DaemonInv /\ SearchesSeeCommitted
  OBVIOUS
<1>1. ClientCountExact
  <2>1. {c \in Clients : Running(c)} = {}
    BY DEF Init, Running, NoHandler
  <2> QED
    BY <2>1, FS_EmptySet DEF Init, ClientCountExact
<1>2. TypeOK
  <2>1. clients \in 0 .. Cardinality(Clients)
    BY <1>1, RunningFinite DEF ClientCountExact
  <2>2. 0 \in Gens /\ 0 \in Dirs
    BY DaemonAssumption DEF Gens, Dirs
  <2> QED
    BY <2>1, <2>2, Records DEF Init, TypeOK, Loaders
<1>3. ThreadPart /\ FlagPart /\ StorePart
  BY DEF Init, ThreadPart, FlagPart, StorePart, NoThread, Starting
<1>4. BorrowPart /\ EndPart /\ GenPart
  BY DEF Init, BorrowPart, EndPart, GenPart, NoHandler, NoClient, Starting
<1>5. SearchesSeeCommitted
  BY DEF Init, SearchesSeeCommitted, NoClient
<1>6. IdentityPart
  BY DEF Init, IdentityPart, NoHandler, NoClient, NoThread, NoResident, Starting
<1> QED
  BY <1>1, <1>2, <1>3, <1>4, <1>5, <1>6 DEF DaemonInv

\* DaemonInv is inductive and holds in every state of the daemon.
THEOREM DaemonInvariant == Spec => []DaemonInv
<1>1. Init => DaemonInv
  BY InitInv
<1>2. DaemonInv /\ [Next]_vars => DaemonInv'
  BY CountStep, TypeStep, ThreadPartStep, FlagPartStep, StorePartStep,
     BorrowPartStep, EndStep, GenPartStep, IdentityPartStep
  DEF DaemonInv
<1> QED
  BY <1>1, <1>2, PTL DEF Spec

\* dispatch_request, Index: the store has one writer, no search holds the
\* resident it took and none can get it, however requests, commits, failures
\* and panics interleave.
THEOREM StoreHasOneWriter == Spec => []SingleWriter
<1>1. DaemonInv => SingleWriter
  BY DEF DaemonInv, ThreadPart, StorePart, BorrowPart, SingleWriter, OwnsStore,
         Indexing
<1> QED
  BY <1>1, DaemonInvariant, PTL

\* clear_indexing: the flag is set exactly while a thread is at work, except
\* after a panic, which also takes the store out of service.
THEOREM FlagIsExact == Spec => []IndexFlagExact
<1>1. DaemonInv => IndexFlagExact
  BY DEF DaemonInv, ThreadPart, FlagPart, IndexFlagExact
<1> QED
  BY <1>1, DaemonInvariant, PTL

\* serve() waits for its JoinSet: whoever was accepted has been answered when
\* it returns.
THEOREM NobodyLeftWaiting == Spec => []ExitAnswersEveryone
<1>1. DaemonInv => ExitAnswersEveryone
  BY DEF DaemonInv, EndPart, ExitAnswersEveryone
<1> QED
  BY <1>1, DaemonInvariant, PTL

\* Searches see what was committed before they were asked, whatever runs
\* start and end while they wait for a permit.
THEOREM SearchesAreFresh == Spec => []SearchesSeeCommitted
<1>1. Init => SearchesSeeCommitted
  BY InitInv
<1>2. DaemonInv /\ SearchesSeeCommitted /\ [Next]_vars => SearchesSeeCommitted'
  BY FreshStep DEF DaemonInv
<1> QED
  BY <1>1, <1>2, DaemonInvariant, PTL DEF Spec

\* check_still_valid: a request read after a replacement is not answered from
\* the replaced directory, whatever loads, runs, freezes and searches were
\* under way, unless a load or a run captured the new one's identity for the
\* old one's files.
THEOREM ReplacedStoreIsRefused == Spec => []RefusesReplacedStore
<1>1. DaemonInv => RefusesReplacedStore
  <2> SUFFICES ASSUME DaemonInv, NEW c \in Clients, client[c].reply = "Found"
               PROVE  \/ client[c].from.store >= client[c].asked
                      \/ \E d \in adopted : d >= client[c].asked
    BY DEF RefusesReplacedStore
  <2>1. \A r \in Residents : r.identity \in Nat /\ r.store \in Nat
    BY DaemonAssumption DEF Residents, Dirs
  <2>2. /\ client[c].from.identity \in Nat
        /\ client[c].from.store \in Nat
        /\ client[c].asked \in Nat
    BY <2>1, DaemonAssumption DEF DaemonInv, TypeOK, ClientEnds, Dirs
  <2>3. /\ client[c].asked <= client[c].from.identity
        /\ \/ client[c].from.identity = client[c].from.store
           \/ client[c].from.identity \in adopted
    BY DEF DaemonInv, IdentityPart
  <2> QED
    BY <2>2, <2>3
<1> QED
  BY <1>1, DaemonInvariant, PTL

=============================================================================
