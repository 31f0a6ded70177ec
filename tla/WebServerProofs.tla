-------------------------- MODULE WebServerProofs --------------------------
(***************************************************************************)
(* Proofs about WebServer.  The invariants of the first half hold in every *)
(* setting, with workers that close connections under the event loop:      *)
(* Types, ContentRight (whose bytes an object holds), KernelRight (which   *)
(* object and which timer node a descriptor has) and ToldRight (who closes *)
(* a connection that was told so) give FailureContained.  The second half  *)
(* is about servers that can build every response (NoFailure), in either   *)
(* model, however slow and overloaded: there the event loop alone closes   *)
(* connections (HandRight), which settles what leaks, what is adjusted,    *)
(* what is counted and why a connection is closed.  WebServerParties goes  *)
(* on with who works on a connection.                                      *)
(***************************************************************************)
EXTENDS WebServer, FiniteSetTheorems, SequenceTheorems, TLAPS

-----------------------------------------------------------------------------
(* Type correctness.                                                        *)

MainPlaces == {"epoll_wait", "dispatch", "accept", "count_up", "append_read",
               "append_write", "post", "write", "reset", "close", "remove",
               "clear", "count_down", "tick"}
WorkerPlaces == {"idle", "run", "read", "process", "prepare", "rearm_in", "rearm_out",
                 "write", "reset", "close", "remove", "clear", "count_down", "done"}
HoldPlaces == {"count_up", "append_read", "append_write", "write", "reset", "close", "remove",
               "clear"}

ClientsOK ==
  /\ peer \in [Conns -> PeerState]
  /\ inbox \in [Conns -> Nat]
  /\ sent \in [Conns -> Nat]
  /\ answered \in [Conns -> Nat]
  /\ got \in [Conns -> SUBSET Conns]
  /\ \A c \in Conns : inbox[c] =< sent[c] /\ sent[c] =< Longest * MaxAsked

ObjectsOK ==
  /\ sock \in [Fds -> Conns \cup {None}]
  /\ epoll \in [Fds -> {"off", "in", "out", "spent"}]
  /\ attached \subseteq Fds
  /\ rbuf \in [Fds -> Seq(Conns)]
  /\ m_read_idx \in [Fds -> 0..READ_BUFFER_SIZE]
  /\ resp \in [Fds -> [for : SUBSET Conns, left : 0..Parts]]
  /\ linger \in [Fds -> BOOLEAN]
  /\ m_state \in [Fds -> 0..1]

LoopOK ==
  /\ m_user_count \in Int
  /\ batch \subseteq {Listen, Pipe} \cup ({"hup", "in", "out"} \X Fds)
  /\ timeout \in BOOLEAN
  /\ alarm \in {"armed", "pending", "off"}
  /\ timer \in [Fds -> {"none", "fresh", "due"}]
  /\ mainfd \in Fds \cup {None}
  /\ at[Main] \in HoldPlaces => mainfd \in Fds

ThreadsOK ==
  /\ at \in [Threads -> MainPlaces \cup WorkerPlaces]
  /\ at[Main] \in MainPlaces
  /\ \A w \in Workers : at[w] \in WorkerPlaces
  /\ reg \in [Threads -> Int]
  /\ parsed \in [Workers -> SUBSET Conns]
  /\ \A w \in Workers : at[w] = "idle" <=> worker[w] # "running"
  /\ owed = 1 <=> at[Main] = "post"
  /\ Pool!TypeOK

Types == ClientsOK /\ ObjectsOK /\ LoopOK /\ ThreadsOK

\* A thread that is working on an object has one.
LEMMA HeldObject ==
  ASSUME Types, NEW t \in Threads,
         \/ t = Main /\ at[t] \in HoldPlaces
         \/ t # Main /\ at[t] # "idle"
  PROVE  Obj(t) \in Fds
<1>1. CASE t = Main
  BY <1>1, ServerAssumption DEF Types, LoopOK, Obj, Threads, ServerAssumption, HoldPlaces,
     ThreadsOK, WorkerPlaces
<1>2. CASE t # Main
  <2>1. t \in Workers /\ worker[t] = "running"
    BY <1>2, ServerAssumption
    DEF Types, ThreadsOK, Threads, Pool!TypeOK, Pool!WorkerState
  <2> QED
    BY <1>2, <2>1 DEF Types, ThreadsOK, Obj, Pool!TypeOK
<1> QED
  BY <1>1, <1>2

\* A client that may still ask has not sent all that it may send.
LEMMA MoreToSend ==
  ASSUME NEW a \in Nat, a < MaxAsked
  PROVE  Longest * (a + 1) =< Longest * MaxAsked
<1>1. Longest \in Nat /\ MaxAsked \in Nat /\ a + 1 =< MaxAsked
  BY ServerAssumption DEF ServerAssumption
<1>2. PICK d \in Nat : MaxAsked = (a + 1) + d
  <2>1. MaxAsked - (a + 1) \in Nat
    BY <1>1
  <2> QED
    BY <1>1, <2>1
<1>3. Longest * MaxAsked = Longest * (a + 1) + Longest * d
  BY <1>1, <1>2
<1>4. Longest * d \in Nat /\ Longest * (a + 1) \in Nat
  BY <1>1, <1>2
<1> QED
  BY <1>1, <1>2, <1>3, <1>4

\* What recv takes: all there is, or as much as there is room for.
Taken(f) == IF inbox[sock[f]] < Room(f) THEN inbox[sock[f]] ELSE Room(f)

\* read_once() moves what it takes from the receive buffer into the read buffer.
LEMMA ReadOnceDoes ==
  ASSUME Types, NEW f \in Fds, ReadOnce(f), f \in attached, sock[f] # None
  PROVE  /\ sock[f] \in Conns
         /\ Taken(f) \in Nat /\ Taken(f) =< inbox[sock[f]]
         /\ m_read_idx[f] + Taken(f) \in 0..READ_BUFFER_SIZE
         /\ [i \in 1..Taken(f) |-> sock[f]] \in Seq(Conns)
         /\ rbuf' = [rbuf EXCEPT ![f] = @ \o [i \in 1..Taken(f) |-> sock[f]]]
         /\ m_read_idx' = [m_read_idx EXCEPT ![f] = @ + Taken(f)]
         /\ inbox' = [inbox EXCEPT ![sock[f]] = @ - Taken(f)]
<1>1. sock[f] \in Conns /\ inbox[sock[f]] \in Nat /\ m_read_idx[f] \in 0..READ_BUFFER_SIZE
  BY DEF Types, ObjectsOK, ClientsOK
<1>2. READ_BUFFER_SIZE \in Nat
  BY ServerAssumption DEF ServerAssumption
<1>3. /\ Taken(f) \in Nat /\ Taken(f) =< inbox[sock[f]]
      /\ m_read_idx[f] + Taken(f) \in 0..READ_BUFFER_SIZE
  BY <1>1, <1>2 DEF Taken, Room
<1>4. [i \in 1..Taken(f) |-> sock[f]] \in Seq(Conns)
  BY <1>1, <1>3
<1>5. /\ rbuf' = [rbuf EXCEPT ![f] = @ \o [i \in 1..Taken(f) |-> sock[f]]]
      /\ m_read_idx' = [m_read_idx EXCEPT ![f] = @ + Taken(f)]
      /\ inbox' = [inbox EXCEPT ![sock[f]] = @ - Taken(f)]
  BY Zenon DEF ReadOnce, Taken
<1> QED
  BY <1>1, <1>3, <1>4, <1>5

\* The types after read_once().
LEMMA ReadOnceTypes ==
  ASSUME Types, NEW f \in Fds, ReadOnce(f)
  PROVE  /\ inbox' \in [Conns -> Nat]
         /\ \A c \in Conns : inbox'[c] =< inbox[c]
         /\ rbuf' \in [Fds -> Seq(Conns)]
         /\ m_read_idx' \in [Fds -> 0..READ_BUFFER_SIZE]
<1>1. CASE f \in attached /\ sock[f] # None
  <2>1. PICK n \in Nat, q \in Seq(Conns) :
          /\ sock[f] \in Conns /\ n =< inbox[sock[f]]
          /\ m_read_idx[f] + n \in 0..READ_BUFFER_SIZE
          /\ rbuf' = [rbuf EXCEPT ![f] = @ \o q]
          /\ m_read_idx' = [m_read_idx EXCEPT ![f] = @ + n]
          /\ inbox' = [inbox EXCEPT ![sock[f]] = @ - n]
    BY <1>1, ReadOnceDoes
  <2>2. /\ inbox \in [Conns -> Nat] /\ rbuf \in [Fds -> Seq(Conns)]
        /\ m_read_idx \in [Fds -> 0..READ_BUFFER_SIZE]
    BY DEF Types, ObjectsOK, ClientsOK
  <2>3. rbuf[f] \o q \in Seq(Conns) /\ inbox[sock[f]] - n \in Nat
    BY <2>1, <2>2
  <2>4. inbox' \in [Conns -> Nat] /\ \A c \in Conns : inbox'[c] =< inbox[c]
    BY <2>1, <2>2, <2>3
  <2>5. rbuf' \in [Fds -> Seq(Conns)]
    BY <2>1, <2>2, <2>3
  <2>6. m_read_idx' \in [Fds -> 0..READ_BUFFER_SIZE]
    BY <2>1, <2>2
  <2> QED
    BY <2>4, <2>5, <2>6
<1>2. CASE ~(f \in attached /\ sock[f] # None)
  <2>1. UNCHANGED <<rbuf, m_read_idx, inbox>>
    BY <1>2 DEF ReadOnce
  <2> QED
    BY <2>1 DEF Types, ObjectsOK, ClientsOK
<1> QED
  BY <1>1, <1>2

\* Every step keeps the types of what clients and kernel hold for a connection.
LEMMA ClientsInductive == Types /\ [Next]_vars => ClientsOK'
<1> SUFFICES ASSUME Types, [Next]_vars PROVE ClientsOK'
  OBVIOUS
<1>0. CASE UNCHANGED <<peer, inbox, sent, answered, got>>
  BY <1>0 DEF Types, ClientsOK
<1>1. ASSUME NEW c \in Conns, Connect(c)
      PROVE  ClientsOK'
  BY <1>1 DEF Connect, Types, ClientsOK, PeerState
<1>2. ASSUME NEW c \in Conns, Send(c)
      PROVE  ClientsOK'
  <2>1. answered[c] \in Nat /\ answered[c] < MaxAsked
    BY <1>2 DEF Send, Types, ClientsOK
  <2>2. /\ sent[c] \in Nat /\ inbox[c] \in Nat /\ inbox[c] =< sent[c]
        /\ Longest * (answered[c] + 1) \in Nat /\ Longest * MaxAsked \in Nat
    BY <2>1, ServerAssumption DEF Types, ClientsOK, ServerAssumption
  <2>3. sent[c] + 1 =< Longest * MaxAsked
    BY <1>2, <2>1, <2>2, MoreToSend DEF Send
  <2> QED
    BY <1>2, <2>2, <2>3 DEF Send, Types, ClientsOK
<1>3. ASSUME NEW c \in Conns, Hangup(c)
      PROVE  ClientsOK'
  BY <1>3 DEF Hangup, Types, ClientsOK, PeerState
<1>4. CASE AcceptRefuses
  BY <1>4 DEF AcceptRefuses, Backlog, Types, ClientsOK, PeerState
<1>5. ASSUME NEW f \in Fds, NEW c \in Conns, Accept(c, f)
      PROVE  ClientsOK'
  BY <1>5 DEF Accept, Types, ClientsOK, PeerState
<1>6. ASSUME NEW f \in Fds, inbox' = inbox \/ ReadOnce(f),
             UNCHANGED <<peer, sent, answered, got>>
      PROVE  ClientsOK'
  <2>1. /\ inbox' \in [Conns -> Nat]
        /\ \A c \in Conns : inbox'[c] =< inbox[c] /\ inbox[c] \in Nat
    BY <1>6, ReadOnceTypes DEF Types, ClientsOK
  <2> QED
    BY <1>6, <2>1 DEF Types, ClientsOK
<1>7. ASSUME NEW t \in Threads, CloseRemove(t)
      PROVE  ClientsOK'
  BY <1>7 DEF CloseRemove, Types, ClientsOK, PeerState
<1>8. ASSUME NEW t \in Threads, WriteSome(t)
      PROVE  ClientsOK'
  <2>1. Obj(t) \in Fds /\ sock[Obj(t)] \in Conns /\ resp[Obj(t)].for \subseteq Conns
    BY <1>8 DEF WriteSome, Types, ObjectsOK
  <2>2. got' \in [Conns -> SUBSET Conns]
    BY <1>8, <2>1 DEF WriteSome, Types, ClientsOK
  <2>3. \/ answered' = answered
        \/ answered' = [answered EXCEPT ![sock[Obj(t)]] = @ + 1]
    BY <1>8 DEF WriteSome
  <2>4. answered' \in [Conns -> Nat] /\ UNCHANGED <<peer, inbox, sent>>
    BY <1>8, <2>1, <2>3 DEF WriteSome, Types, ClientsOK
  <2> QED
    BY <2>2, <2>4 DEF Types, ClientsOK
<1>9. ASSUME NEW t \in Threads, Close(t)
      PROVE  ClientsOK'
  BY <1>0, <1>7, <1>9 DEF Close, CloseCheck, CloseClear, CloseCount, clientVars
<1>10. ASSUME NEW t \in Threads, Write(t)
      PROVE  ClientsOK'
  BY <1>0, <1>8, <1>10 DEF Write, WriteNothing, WriteError, WriteReset, clientVars
<1>11. CASE MainStep
  BY <1>0, <1>4, <1>5, <1>6, <1>9, <1>10, <1>11
  DEF MainStep, EpollWait, AcceptFails, CountUp, DealWithSignal, EndBatch, TickEnd,
      AppendRequest, PostRequest, HandleHup, DealWithRead, DealWithWrite, TickOne,
      clientVars, Threads
<1>12. ASSUME NEW w \in Workers, WorkerStep(w) \/ WorkerInterrupted(w)
       PROVE  ClientsOK'
  <2>1. CASE WorkerReads(w)
    <3>1. w \in Threads /\ w # Main /\ Obj(w) = request[w] /\ at[w] = "read"
      BY <2>1, ServerAssumption DEF WorkerReads, Threads, Obj, ServerAssumption
    <3>2. request[w] \in Fds
      BY <3>1, HeldObject
    <3> QED
      BY <1>6, <2>1, <3>2 DEF WorkerReads
  <2> QED
    BY <1>0, <1>9, <1>10, <1>12, <2>1
    DEF WorkerStep, WorkerInterrupted, WorkerWakes, WorkerTakes, WorkerRuns, Process,
        ProcessWrite, Rearm, WorkerDone, clientVars, Threads
<1> QED
  BY <1>0, <1>1, <1>2, <1>3, <1>11, <1>12
  DEF Next, ClientStep, AlarmFires, Expire, vars, clientVars

\* Every step keeps the types of what descriptors and their objects hold.
LEMMA ObjectsInductive == Types /\ [Next]_vars => ObjectsOK'
<1> SUFFICES ASSUME Types, [Next]_vars PROVE ObjectsOK'
  OBVIOUS
<1>0. CASE UNCHANGED <<sock, epoll, attached, objVars, m_state>>
  BY <1>0 DEF Types, ObjectsOK, objVars
<1>1. ASSUME NEW f \in Fds, UNCHANGED <<sock, epoll, attached>>, Reset(f)
      PROVE  ObjectsOK'
  <2>1. NoResponse \in [for : SUBSET Conns, left : 0..Parts]
    BY ServerAssumption DEF NoResponse, ServerAssumption
  <2>2. <<>> \in Seq(Conns)
    OBVIOUS
  <2>3. /\ rbuf' \in [Fds -> Seq(Conns)] /\ resp' \in [Fds -> [for : SUBSET Conns, left : 0..Parts]]
        /\ linger' \in [Fds -> BOOLEAN]
    BY <1>1, <2>1, <2>2 DEF Reset, Types, ObjectsOK
  <2>4. 0 \in 0..READ_BUFFER_SIZE /\ 0 \in 0..1
    BY ServerAssumption DEF ServerAssumption
  <2>5. m_read_idx' \in [Fds -> 0..READ_BUFFER_SIZE] /\ m_state' \in [Fds -> 0..1]
    BY <1>1, <2>4 DEF Reset, Types, ObjectsOK
  <2> QED
    BY <1>1, <2>3, <2>5 DEF Types, ObjectsOK
<1>2. ASSUME NEW f, NEW ev \in {"in", "out"}, Modfd(f, ev),
             UNCHANGED <<sock, attached, objVars, m_state>>
      PROVE  ObjectsOK'
  BY <1>2 DEF Modfd, Types, ObjectsOK, objVars
<1>3. CASE EpollWait
  BY <1>3 DEF EpollWait, objVars, Types, ObjectsOK
<1>4. ASSUME NEW f \in Fds, NEW c \in Conns, Accept(c, f)
      PROVE  ObjectsOK'
  BY <1>4 DEF Accept, objVars, Types, ObjectsOK
<1>5. CASE AppendRequest
  <2>1. at[Main] \in HoldPlaces
    BY <1>5 DEF AppendRequest, HoldPlaces
  <2>2. mainfd \in Fds
    BY <2>1 DEF Types, LoopOK
  <2> QED
    BY <1>5, <2>2 DEF AppendRequest, objVars, Types, ObjectsOK
<1>6. ASSUME NEW f \in Fds, UNCHANGED <<rbuf, m_read_idx>> \/ ReadOnce(f),
             UNCHANGED <<sock, epoll, attached, resp, linger, m_state>>
      PROVE  ObjectsOK'
  <2>1. rbuf' \in [Fds -> Seq(Conns)] /\ m_read_idx' \in [Fds -> 0..READ_BUFFER_SIZE]
    BY <1>6, ReadOnceTypes DEF Types, ObjectsOK
  <2> QED
    BY <1>6, <2>1 DEF Types, ObjectsOK
<1>7. ASSUME NEW t \in Threads, Close(t)
      PROVE  ObjectsOK'
  <2>1. CASE CloseRemove(t)
    BY <2>1 DEF CloseRemove, objVars, Types, ObjectsOK
  <2> QED
    BY <1>0, <1>7, <2>1 DEF Close, CloseCheck, CloseClear, CloseCount, objVars, Types, ObjectsOK
<1>8. ASSUME NEW t \in Threads, Write(t)
      PROVE  ObjectsOK'
  <2>1. CASE WriteNothing(t)
    BY <1>2, <2>1 DEF WriteNothing, objVars
  <2>2. CASE WriteSome(t)
    <3> DEFINE f == Obj(t)
    <3>1. f \in Fds /\ resp[f] \in [for : SUBSET Conns, left : 0..Parts]
      BY <2>2 DEF WriteSome, Types, ObjectsOK
    <3>2. PICK k \in 1..resp[f].left : resp' = [resp EXCEPT ![f].left = @ - k]
      BY <2>2 DEF WriteSome
    <3>3. [resp[f] EXCEPT !.left = @ - k] \in [for : SUBSET Conns, left : 0..Parts]
      BY <3>1, <3>2, ServerAssumption DEF ServerAssumption
    <3>4. resp' \in [Fds -> [for : SUBSET Conns, left : 0..Parts]]
      BY <3>1, <3>2, <3>3 DEF Types, ObjectsOK
    <3>5. Modfd(f, "in") \/ Modfd(f, "out")
      BY <2>2 DEF WriteSome
    <3>6. epoll' \in [Fds -> {"off", "in", "out", "spent"}]
      BY <3>5 DEF Modfd, Types, ObjectsOK
    <3> QED
      BY <2>2, <3>4, <3>6 DEF WriteSome, Types, ObjectsOK
  <2>3. CASE WriteReset(t)
    <3>1. Obj(t) \in Fds
      BY <2>3, HeldObject DEF WriteReset, HoldPlaces
    <3> QED
      BY <1>1, <2>3, <3>1 DEF WriteReset
  <2> QED
    BY <1>0, <1>8, <2>1, <2>2, <2>3 DEF Write, WriteError, objVars
<1>9. ASSUME NEW w \in Workers, WorkerStep(w) \/ WorkerInterrupted(w)
      PROVE  ObjectsOK'
  <2>0. w \in Threads /\ w # Main /\ Obj(w) = request[w]
    BY ServerAssumption DEF Threads, Obj, ServerAssumption
  <2>1. CASE WorkerReads(w)
    <3>1. request[w] \in Fds
      BY <2>0, <2>1, HeldObject DEF WorkerReads
    <3> QED
      BY <1>6, <2>1, <3>1 DEF WorkerReads
  <2>2. CASE Process(w)
    <3>1. request[w] \in Fds
      BY <2>0, <2>2, HeldObject DEF Process
    <3>2. rbuf[request[w]] \in Seq(Conns)
      BY <3>1 DEF Types, ObjectsOK
    <3>3. CASE UNCHANGED <<rbuf, linger>>
      BY <1>0, <2>2, <3>3 DEF Process, objVars
    <3>4. ASSUME NEW n \in Chunks..Longest, n =< Len(rbuf[request[w]]),
                 rbuf' = [rbuf EXCEPT ![request[w]] = SubSeq(@, n + 1, Len(@))],
                 \E o \in Outcomes : linger' = [linger EXCEPT ![request[w]] = (o = "keep")]
          PROVE  ObjectsOK'
      <4>1. SubSeq(rbuf[request[w]], n + 1, Len(rbuf[request[w]])) \in Seq(Conns)
        BY <3>2, <3>4, ServerAssumption DEF ServerAssumption
      <4>2. UNCHANGED <<sock, epoll, attached, m_read_idx, resp, m_state>>
        BY <2>2 DEF Process
      <4> QED
        BY <3>1, <3>4, <4>1, <4>2 DEF Types, ObjectsOK
    <3> QED
      BY <2>2, <3>3, <3>4 DEF Process
  <2>3. CASE ProcessWrite(w)
    <3>1. [for |-> parsed[w], left |-> Parts] \in [for : SUBSET Conns, left : 0..Parts]
      BY ServerAssumption DEF ServerAssumption, Types, ThreadsOK
    <3> QED
      BY <2>3, <3>1 DEF ProcessWrite, Types, ObjectsOK
  <2>4. CASE Rearm(w)
    BY <1>2, <2>4 DEF Rearm, objVars
  <2> QED
    BY <1>0, <1>7, <1>8, <1>9, <2>0, <2>1, <2>2, <2>3, <2>4
    DEF WorkerStep, WorkerInterrupted, WorkerWakes, WorkerTakes, WorkerRuns, WorkerDone,
        objVars
<1>10. ASSUME NEW f \in Fds, DealWithRead(f)
       PROVE  ObjectsOK'
  BY <1>6, <1>10 DEF DealWithRead
<1>11. CASE CountUp
  <2>1. mainfd \in Fds
    BY <1>11 DEF CountUp, HoldPlaces, Types, LoopOK
  <2> QED
    BY <1>1, <1>11, <2>1 DEF CountUp
<1>12. CASE MainStep
  BY <1>0, <1>3, <1>4, <1>5, <1>7, <1>8, <1>10, <1>11, <1>12
  DEF MainStep, AcceptFails, AcceptRefuses, DealWithSignal, EndBatch, TickEnd,
      PostRequest, HandleHup, DealWithWrite, TickOne, objVars, Threads
<1> QED
  BY <1>0, <1>9, <1>12
  DEF Next, ClientStep, Connect, Send, Hangup, AlarmFires, Expire, vars, objVars

\* What a step of a worker leaves alone.
LEMMA WorkerFrame ==
  ASSUME Types, NEW w \in Workers, WorkerStep(w) \/ WorkerInterrupted(w)
  PROVE  /\ at'[Main] = at[Main]
         /\ UNCHANGED <<batch, timeout, alarm, timer, mainfd, owed>>
         /\ at' \in [Threads -> MainPlaces \cup WorkerPlaces] /\ at'[w] \in WorkerPlaces
         /\ \A v \in Workers \ {w} : at'[v] = at[v]
<1>0. w # Main /\ at \in [Threads -> MainPlaces \cup WorkerPlaces]
  BY ServerAssumption DEF ServerAssumption, Types, ThreadsOK
<1>1. UNCHANGED <<batch, timeout, alarm, mainfd, owed>>
  BY DEF WorkerStep, WorkerInterrupted, WorkerWakes, WorkerTakes, WorkerRuns, WorkerReads,
         Process, ProcessWrite, Rearm, WorkerDone, Close, CloseCheck, CloseRemove,
         CloseClear, CloseCount, Write, WriteNothing, WriteSome, WriteError, WriteReset,
         loopVars, poolVars, Pool!Wake, Pool!Interrupted, Pool!Take, Pool!Finish
<1>2. timer' = timer
  BY <1>0
  DEF WorkerStep, WorkerInterrupted, WorkerWakes, WorkerTakes, WorkerRuns, WorkerReads,
      Process, ProcessWrite, Rearm, WorkerDone, Close, CloseCheck, CloseRemove,
      CloseClear, CloseCount, Write, WriteNothing, WriteSome, WriteError, WriteReset,
      WriteReturns, loopVars
<1>3. at' \in [Threads -> MainPlaces \cup WorkerPlaces]
      /\ at'[w] \in WorkerPlaces /\ at' = [at EXCEPT ![w] = at'[w]]
  <2> USE DEF WorkerPlaces, Goto
  <2>0. at[w] \in WorkerPlaces /\ w \in Threads
    BY DEF Types, ThreadsOK, Threads
  <2>1. CASE WriteSome(w)
    <3>1. \/ at' = [at EXCEPT ![w] = "done"]
          \/ at' = [at EXCEPT ![w] = "reset"]
      BY <1>0, <2>1 DEF WriteSome, WriteReturns
    <3> QED
      BY <1>0, <2>0, <3>1
  <2>2. CASE Process(w)
    <3>1. \/ at' = [at EXCEPT ![w] = "rearm_in"]
          \/ at' = [at EXCEPT ![w] = "close"]
          \/ at' = [at EXCEPT ![w] = "prepare"]
      BY <2>2 DEF Process
    <3> QED
      BY <1>0, <2>0, <3>1
  <2>3. CASE Close(w)
    BY <1>0, <2>0, <2>3
    DEF Close, CloseCheck, CloseRemove, CloseClear, CloseCount, CloseReturn
  <2>4. CASE WriteNothing(w) \/ WriteError(w) \/ WriteReset(w)
    BY <1>0, <2>0, <2>4 DEF WriteNothing, WriteError, WriteReset, WriteReturns
  <2>5. CASE WorkerWakes(w) \/ WorkerInterrupted(w) \/ WorkerTakes(w)
    BY <1>0, <2>0, <2>5 DEF WorkerWakes, WorkerInterrupted, WorkerTakes
  <2>6. CASE WorkerRuns(w) \/ WorkerReads(w)
    BY <1>0, <2>0, <2>6 DEF WorkerRuns, WorkerReads
  <2>7. CASE ProcessWrite(w) \/ Rearm(w) \/ WorkerDone(w)
    BY <1>0, <2>0, <2>7 DEF ProcessWrite, Rearm, WorkerDone
  <2> QED
    BY <2>1, <2>2, <2>3, <2>4, <2>5, <2>6, <2>7 DEF WorkerStep, Write
<1> QED
  BY <1>0, <1>1, <1>2, <1>3 DEF Threads

\* Every step keeps the types of the event loop's variables.
LEMMA LoopInductive == Types /\ [Next]_vars => LoopOK'
<1> SUFFICES ASSUME Types, [Next]_vars PROVE LoopOK'
  OBVIOUS
<1> USE DEF HoldPlaces
<1>0. Main \in Threads /\ at \in [Threads -> MainPlaces \cup WorkerPlaces] /\ LoopOK
  BY DEF Types, ThreadsOK, Threads
<1>1. CASE UNCHANGED <<m_user_count, loopVars, at>>
  BY <1>0, <1>1 DEF LoopOK, loopVars
<1>2. ASSUME NEW f \in Fds, Expire(f)
      PROVE  LoopOK'
  BY <1>0, <1>2 DEF Expire, LoopOK
<1>3. CASE AlarmFires
  BY <1>0, <1>3 DEF AlarmFires, LoopOK
<1>4. ASSUME NEW w \in Workers, WorkerStep(w) \/ WorkerInterrupted(w)
      PROVE  LoopOK'
  <2>1. m_user_count' \in Int
    <3>1. m_user_count' = m_user_count \/ m_user_count' = reg[w] - 1
      BY <1>4
      DEF WorkerStep, WorkerInterrupted, WorkerWakes, WorkerTakes, WorkerRuns, WorkerReads,
          Process, ProcessWrite, Rearm, WorkerDone, Close, CloseCheck, CloseRemove,
          CloseClear, CloseCount, Write, WriteNothing, WriteSome, WriteError, WriteReset
    <3> QED
      BY <1>0, <3>1 DEF Types, ThreadsOK, LoopOK, Threads
  <2> QED
    BY <1>0, <1>4, <2>1, WorkerFrame DEF LoopOK
<1>5. CASE EpollWait
  <2>1. \A f \in Fired : <<Event(f), f>> \in {"hup", "in", "out"} \X Fds
    BY DEF Fired, Event
  <2>2. Ready \subseteq {Listen, Pipe} \cup ({"hup", "in", "out"} \X Fds)
    BY <2>1 DEF Ready
  <2> QED
    BY <1>0, <1>5, <2>2 DEF EpollWait, Goto, LoopOK
<1>6. CASE AcceptFails \/ AcceptRefuses
  BY <1>0, <1>6 DEF AcceptFails, AcceptRefuses, Accepting, Goto, LoopOK
<1>7. ASSUME NEW f \in Fds, NEW c \in Conns, Accept(c, f)
      PROVE  LoopOK'
  BY <1>0, <1>7 DEF Accept, Accepting, Goto, LoopOK
<1>8. CASE CountUp
  BY <1>0, <1>8 DEF CountUp, Goto, LoopOK, loopVars, Types, ThreadsOK
<1>9. ASSUME NEW f \in Fds, HandleHup(f) \/ DealWithRead(f) \/ DealWithWrite(f)
      PROVE  LoopOK'
  <2>1. /\ mainfd' = f /\ batch' \subseteq batch
        /\ UNCHANGED <<m_user_count, timeout, alarm, timer>>
    BY <1>9 DEF HandleHup, DealWithRead, DealWithWrite, Handle
  <2> QED
    BY <1>0, <2>1 DEF LoopOK
<1>10. CASE AppendRequest
  <2>1. mainfd \in Fds
    BY <1>0, <1>10 DEF AppendRequest, LoopOK
  <2> QED
    BY <1>0, <1>10, <2>1 DEF AppendRequest, Adjusted, Goto, LoopOK
<1>11. CASE PostRequest \/ EndBatch
  BY <1>0, <1>11 DEF PostRequest, EndBatch, Goto, LoopOK, loopVars
<1>12. CASE DealWithSignal
  BY <1>0, <1>12 DEF DealWithSignal, Handle, Pipe, Goto, LoopOK
<1>13. ASSUME NEW f \in Fds, TickOne(f)
       PROVE  LoopOK'
  BY <1>0, <1>13 DEF TickOne, Goto, LoopOK
<1>14. CASE TickEnd
  BY <1>0, <1>14 DEF TickEnd, Goto, LoopOK
<1>15. CASE Close(Main)
  <2>1. CASE CloseCount(Main)
    BY <1>0, <2>1 DEF CloseCount, CloseReturn, Goto, LoopOK, loopVars, Types, ThreadsOK
  <2> QED
    BY <1>0, <1>15, <2>1
    DEF Close, CloseCheck, CloseRemove, CloseClear, CloseReturn, Goto, LoopOK, loopVars
<1>16. CASE Write(Main)
  <2>1. at[Main] \in {"write", "reset"} /\ mainfd \in Fds
    BY <1>0, <1>16 DEF Write, WriteNothing, WriteSome, WriteError, WriteReset, LoopOK
  <2>2. timer' = timer \/ timer' = Adjusted(mainfd)
    BY <1>16 DEF Write, WriteNothing, WriteSome, WriteError, WriteReset, WriteReturns, loopVars
  <2>3. timer' \in [Fds -> {"none", "fresh", "due"}]
    BY <1>0, <2>1, <2>2 DEF Adjusted, LoopOK
  <2>4. UNCHANGED <<m_user_count, batch, timeout, alarm, mainfd>>
    BY <1>16 DEF Write, WriteNothing, WriteSome, WriteError, WriteReset, loopVars
  <2> QED
    BY <1>0, <2>1, <2>3, <2>4 DEF LoopOK
<1>17. CASE MainStep
  BY <1>5, <1>6, <1>7, <1>8, <1>9, <1>10, <1>11, <1>12, <1>13, <1>14, <1>15, <1>16, <1>17
  DEF MainStep
<1> QED
  BY <1>1, <1>2, <1>3, <1>4, <1>17
  DEF Next, ClientStep, Connect, Send, Hangup, vars, loopVars

\* The length of a queue.
LEMMA Measured ==
  ASSUME NEW q \in Seq(Fds)
  PROVE  Len(q) \in Nat /\ (Len(q) < MaxRequests => Len(q) + 1 =< MaxRequests)
<1> MaxRequests \in Nat
  BY ServerAssumption DEF ServerAssumption
<1> QED
  OBVIOUS

\* A queue after a push.
LEMMA LongerQueue ==
  ASSUME NEW q \in Seq(Fds), NEW f \in Fds
  PROVE  Append(q, f) \in Seq(Fds) /\ Len(Append(q, f)) = Len(q) + 1
OBVIOUS

\* A queue after a pop.
LEMMA ShorterQueue ==
  ASSUME NEW q \in Seq(Fds), q # <<>>, Len(q) =< MaxRequests
  PROVE  Head(q) \in Fds /\ Tail(q) \in Seq(Fds) /\ Len(Tail(q)) =< MaxRequests
<1> MaxRequests \in Nat
  BY ServerAssumption DEF ServerAssumption
<1> QED
  OBVIOUS

\* The operations of the queue keep its types.
LEMMA QueueTypes ==
  ASSUME Pool!TypeOK,
         \/ \E f \in Fds : Pool!Enqueue(f)
         \/ Pool!Post
         \/ \E w \in Workers :
              Pool!Wake(w) \/ Pool!Interrupted(w) \/ Pool!Take(w) \/ Pool!Finish(w)
  PROVE  Pool!TypeOK'
<1> USE ServerAssumption DEF ServerAssumption, Pool!TypeOK, Pool!WorkerState
<1>1. ASSUME NEW f \in Fds, Pool!Enqueue(f)
      PROVE  Pool!TypeOK'
  <2>1. CASE Pool!Full
    BY <1>1, <2>1 DEF Pool!Enqueue
  <2>2. CASE ~Pool!Full
    <3>1. workqueue' \in Seq(Fds) /\ Len(workqueue') = Len(workqueue) + 1
      BY <1>1, <2>2, LongerQueue DEF Pool!Enqueue
    <3>2. Len(workqueue') =< MaxRequests
      BY <2>2, <3>1, Measured DEF Pool!Full
    <3> QED
      BY <1>1, <2>2, <3>1, <3>2 DEF Pool!Enqueue
  <2> QED
    BY <2>1, <2>2
<1>2. CASE Pool!Post
  BY <1>2 DEF Pool!Post
<1>3. ASSUME NEW w \in Workers, Pool!Wake(w) \/ Pool!Interrupted(w)
      PROVE  Pool!TypeOK'
  <2>1. UNCHANGED <<workqueue, owed, request>> /\ worker[w] # "running"
    BY <1>3 DEF Pool!Wake, Pool!Interrupted
  <2>2. worker' = [worker EXCEPT ![w] = "woken"] /\ queuestat' \in 0..SemMax
    BY <1>3 DEF Pool!Wake, Pool!Interrupted
  <2>3. /\ worker' \in [Workers -> Pool!WorkerState]
        /\ \A v \in Workers : request'[v] # None <=> worker'[v] = "running"
    BY <2>1, <2>2
  <2> QED
    BY <2>1, <2>2, <2>3
<1>4. ASSUME NEW w \in Workers, Pool!Take(w)
      PROVE  Pool!TypeOK'
  <2>1. CASE workqueue = <<>>
    BY <1>4, <2>1 DEF Pool!Take
  <2>2. CASE workqueue # <<>>
    <3>1. /\ Head(workqueue) \in Fds /\ Tail(workqueue) \in Seq(Fds)
          /\ Len(Tail(workqueue)) =< MaxRequests
      BY <2>2, ShorterQueue
    <3>2. PICK f \in Fds, q \in Seq(Fds) : f = Head(workqueue) /\ q = Tail(workqueue)
      BY <3>1
    <3>3. /\ request' = [request EXCEPT ![w] = f]
          /\ worker' = [worker EXCEPT ![w] = "running"]
      BY <1>4, <2>2, <3>2 DEF Pool!Take
    <3>4. workqueue' = q /\ Len(q) =< MaxRequests /\ UNCHANGED <<queuestat, owed>>
      BY <1>4, <2>2, <3>1, <3>2 DEF Pool!Take
    <3>5. /\ worker' \in [Workers -> Pool!WorkerState]
          /\ request' \in [Workers -> Fds \cup {None}]
          /\ \A v \in Workers : request'[v] # None <=> worker'[v] = "running"
      BY <3>2, <3>3
    <3> QED
      BY <3>2, <3>4, <3>5
  <2> QED
    BY <2>1, <2>2
<1>5. ASSUME NEW w \in Workers, Pool!Finish(w)
      PROVE  Pool!TypeOK'
  BY <1>5 DEF Pool!Finish
<1> QED
  BY <1>1, <1>2, <1>3, <1>4, <1>5

\* Every step keeps the positions of the threads and what they carry.
LEMMA ThreadsInductive == Types /\ [Next]_vars => ThreadsOK'
<1> SUFFICES ASSUME Types, [Next]_vars PROVE ThreadsOK'
  OBVIOUS
<1>0. /\ Main \in Threads /\ Main \notin Workers /\ Workers \subseteq Threads
      /\ ThreadsOK /\ ObjectsOK /\ LoopOK
  BY ServerAssumption DEF ServerAssumption, Types, Threads
<1>1. CASE UNCHANGED <<at, reg, parsed, poolVars>>
  BY <1>0, <1>1 DEF ThreadsOK, poolVars, Pool!TypeOK
<1>2. ASSUME NEW p \in MainPlaces \ {"post"}, Goto(Main, p), at[Main] # "post",
             reg' \in [Threads -> Int], UNCHANGED <<parsed, poolVars>>
      PROVE  ThreadsOK'
  <2>1. UNCHANGED <<owed, worker>> /\ Pool!TypeOK'
    BY <1>0, <1>2 DEF ThreadsOK, poolVars, Pool!TypeOK
  <2> QED
    BY <1>0, <1>2, <2>1 DEF ThreadsOK, Goto
<1>3. CASE AppendRequest
  <2>1. mainfd \in Fds
    BY <1>0, <1>3 DEF AppendRequest, LoopOK, HoldPlaces
  <2>2. Pool!TypeOK'
    BY <1>0, <1>3, <2>1, QueueTypes DEF AppendRequest, ThreadsOK
  <2>3. /\ UNCHANGED <<reg, parsed, worker>>
        /\ \/ owed' = owed /\ at' = [at EXCEPT ![Main] = "dispatch"]
           \/ owed' = 1 /\ at' = [at EXCEPT ![Main] = "post"]
        /\ at[Main] # "post"
    BY <1>3 DEF AppendRequest, Pool!Enqueue, Goto
  <2> QED
    BY <1>0, <2>2, <2>3 DEF ThreadsOK, MainPlaces
<1>4. CASE PostRequest
  <2>1. Pool!TypeOK'
    BY <1>0, <1>4, QueueTypes DEF PostRequest, ThreadsOK
  <2>2. /\ UNCHANGED <<reg, parsed, worker>> /\ owed' = 0
        /\ at' = [at EXCEPT ![Main] = "dispatch"]
    BY <1>4 DEF PostRequest, Pool!Post, Goto
  <2> QED
    BY <1>0, <2>1, <2>2 DEF ThreadsOK, MainPlaces
<1>5. CASE Close(Main)
  <2>1. reg' \in [Threads -> Int]
    BY <1>0, <1>5 DEF Close, CloseCheck, CloseRemove, CloseClear, CloseCount, ThreadsOK, LoopOK
  <2>2. \E p \in MainPlaces \ {"post"} : Goto(Main, p)
    BY <1>5 DEF Close, CloseCheck, CloseRemove, CloseClear, CloseCount, CloseReturn, MainPlaces
  <2> QED
    BY <1>2, <1>5, <2>1, <2>2 DEF Close, CloseCheck, CloseRemove, CloseClear, CloseCount
<1>6. CASE Write(Main)
  <2>1. reg' \in [Threads -> Int] /\ at[Main] # "post" /\ UNCHANGED <<parsed, poolVars>>
    BY <1>0, <1>6 DEF Write, WriteNothing, WriteSome, WriteError, WriteReset, ThreadsOK
  <2>2. Goto(Main, "dispatch") \/ Goto(Main, "close") \/ Goto(Main, "reset")
    BY <1>6 DEF Write, WriteNothing, WriteSome, WriteError, WriteReset, WriteReturns
  <2> QED
    BY <1>2, <2>1, <2>2 DEF MainPlaces
<1>7. CASE MainStep
  <2>1. CASE EpollWait \/ EndBatch \/ TickEnd
    BY <1>0, <1>2, <2>1 DEF EpollWait, EndBatch, TickEnd, MainPlaces, ThreadsOK
  <2>2. CASE AcceptFails \/ AcceptRefuses
    BY <1>0, <1>2, <2>2 DEF AcceptFails, AcceptRefuses, Accepting, MainPlaces, ThreadsOK
  <2>3. ASSUME NEW f \in Fds, NEW c \in Conns, Accept(c, f)
        PROVE  ThreadsOK'
    <3>1. reg' \in [Threads -> Int]
      BY <1>0, <2>3 DEF Accept, ThreadsOK, LoopOK
    <3> QED
      BY <1>2, <2>3, <3>1 DEF Accept, Accepting, MainPlaces
  <2>4. CASE CountUp
    BY <1>0, <1>2, <2>4 DEF CountUp, MainPlaces, ThreadsOK
  <2>5. CASE DealWithSignal
    BY <1>0, <1>1, <2>5 DEF DealWithSignal
  <2>6. ASSUME NEW f \in Fds, HandleHup(f) \/ DealWithRead(f) \/ DealWithWrite(f)
        PROVE  ThreadsOK'
    <3>1. \/ Goto(Main, "close") \/ Goto(Main, "append_read")
          \/ Goto(Main, "append_write") \/ Goto(Main, "write")
      BY <2>6 DEF HandleHup, DealWithRead, DealWithWrite
    <3>2. reg' = reg /\ at[Main] = "dispatch" /\ UNCHANGED <<parsed, poolVars>>
      BY <2>6 DEF HandleHup, DealWithRead, DealWithWrite, Handle
    <3> QED
      BY <1>0, <1>2, <3>1, <3>2 DEF MainPlaces, ThreadsOK
  <2>7. ASSUME NEW f \in Fds, TickOne(f)
        PROVE  ThreadsOK'
    BY <1>0, <1>2, <2>7 DEF TickOne, MainPlaces, ThreadsOK
  <2> QED
    BY <1>3, <1>4, <1>5, <1>6, <1>7, <2>1, <2>2, <2>3, <2>4, <2>5, <2>6, <2>7 DEF MainStep
<1>8. ASSUME NEW w \in Workers, WorkerStep(w) \/ WorkerInterrupted(w)
      PROVE  ThreadsOK'
  <2>1. /\ at' \in [Threads -> MainPlaces \cup WorkerPlaces] /\ at'[Main] = at[Main]
        /\ \A v \in Workers : at'[v] \in WorkerPlaces
        /\ \A v \in Workers \ {w} : at'[v] = at[v]
        /\ owed' = owed
    BY <1>0, <1>8, WorkerFrame DEF ThreadsOK
  <2>2. reg' \in [Threads -> Int]
    <3>1. reg' = reg \/ reg' = [reg EXCEPT ![w] = m_user_count]
      BY <1>8
      DEF WorkerStep, WorkerInterrupted, WorkerWakes, WorkerTakes, WorkerRuns, WorkerReads,
          Process, ProcessWrite, Rearm, WorkerDone, Close, CloseCheck, CloseRemove,
          CloseClear, CloseCount, Write, WriteNothing, WriteSome, WriteError, WriteReset
    <3> QED
      BY <1>0, <3>1 DEF ThreadsOK, LoopOK
  <2>3. parsed' \in [Workers -> SUBSET Conns]
    <3>1. CASE Process(w) /\ parsed' # parsed
      <4>1. request[w] \in Fds
        BY <1>0, <3>1, HeldObject DEF Process, Obj
      <4>2. PICK n \in Chunks..Longest :
              /\ n <= Len(rbuf[request[w]])
              /\ parsed' = [parsed EXCEPT ![w] = {rbuf[request[w]][i] : i \in 1..n}]
        BY <3>1 DEF Process
      <4>3. rbuf[request[w]] \in Seq(Conns) /\ n \in Nat
        BY <1>0, <4>1, ServerAssumption DEF ObjectsOK, ServerAssumption
      <4>4. {rbuf[request[w]][i] : i \in 1..n} \subseteq Conns
        BY <4>2, <4>3
      <4> QED
        BY <1>0, <4>2, <4>4 DEF ThreadsOK
    <3>2. CASE ~Process(w)
      <4>1. parsed' = parsed \/ parsed' = [parsed EXCEPT ![w] = {}]
        BY <1>8, <3>2
        DEF WorkerStep, WorkerInterrupted, WorkerWakes, WorkerTakes, WorkerRuns, WorkerReads,
            ProcessWrite, Rearm, WorkerDone, Close, CloseCheck, CloseRemove,
            CloseClear, CloseCount, Write, WriteNothing, WriteSome, WriteError, WriteReset
      <4> QED
        BY <1>0, <4>1 DEF ThreadsOK
    <3> QED
      BY <1>0, <3>1, <3>2 DEF ThreadsOK
  <2>4. Pool!TypeOK' /\ \A v \in Workers : at'[v] = "idle" <=> worker'[v] # "running"
    <3>1. CASE WorkerWakes(w) \/ WorkerInterrupted(w)
      <4>1. Pool!TypeOK'
        BY <1>0, <3>1, QueueTypes DEF ThreadsOK, WorkerWakes, WorkerInterrupted
      <4>2. worker' = [worker EXCEPT ![w] = "woken"] /\ worker[w] = "waiting" /\ at' = at
        BY <3>1 DEF WorkerWakes, WorkerInterrupted, Pool!Wake, Pool!Interrupted
      <4> QED
        BY <1>0, <4>1, <4>2 DEF ThreadsOK, Pool!TypeOK
    <3>2. CASE WorkerTakes(w)
      <4>1. Pool!TypeOK'
        BY <1>0, <3>2, QueueTypes DEF ThreadsOK, WorkerTakes
      <4>2. CASE workqueue = <<>>
        BY <1>0, <3>2, <4>1, <4>2 DEF ThreadsOK, WorkerTakes, Pool!Take, Pool!TypeOK
      <4>3. CASE workqueue # <<>>
        BY <1>0, <3>2, <4>1, <4>3 DEF ThreadsOK, WorkerTakes, Pool!Take, Pool!TypeOK
      <4> QED
        BY <4>2, <4>3
    <3>3. CASE WorkerDone(w)
      <4>1. Pool!TypeOK'
        BY <1>0, <3>3, QueueTypes DEF ThreadsOK, WorkerDone
      <4> QED
        BY <1>0, <3>3, <4>1 DEF ThreadsOK, WorkerDone, Pool!Finish, Pool!TypeOK, Goto
    <3>4. CASE UNCHANGED poolVars /\ at[w] # "idle" /\ at'[w] # "idle"
      BY <1>0, <2>1, <3>4 DEF ThreadsOK, poolVars, Pool!TypeOK
    <3>5. \/ at[w] # "idle" /\ UNCHANGED poolVars /\ at'[w] # "idle"
          \/ WorkerWakes(w) \/ WorkerInterrupted(w) \/ WorkerTakes(w) \/ WorkerDone(w)
      <4>1. at \in [Threads -> MainPlaces \cup WorkerPlaces] /\ w \in Threads /\ w # Main
        BY <1>0 DEF ThreadsOK
      <4>2. CASE WriteSome(w)
        BY <4>1, <4>2 DEF WriteSome, WriteReturns, Goto
      <4>3. CASE Process(w)
        BY <4>1, <4>3 DEF Process, Goto
      <4>4. CASE Close(w)
        BY <4>1, <4>4
        DEF Close, CloseCheck, CloseRemove, CloseClear, CloseCount, CloseReturn, Goto
      <4>5. CASE WriteNothing(w) \/ WriteError(w) \/ WriteReset(w)
        BY <4>1, <4>5 DEF WriteNothing, WriteError, WriteReset, WriteReturns, Goto
      <4>6. CASE WorkerRuns(w) \/ WorkerReads(w) \/ ProcessWrite(w) \/ Rearm(w)
        BY <4>1, <4>6 DEF WorkerRuns, WorkerReads, ProcessWrite, Rearm, Goto
      <4> QED
        BY <1>8, <4>2, <4>3, <4>4, <4>5, <4>6 DEF WorkerStep, Write
    <3> QED
      BY <3>1, <3>2, <3>3, <3>4, <3>5
  <2> QED
    BY <1>0, <2>1, <2>2, <2>3, <2>4 DEF ThreadsOK
<1> QED
  BY <1>1, <1>7, <1>8
  DEF Next, ClientStep, Connect, Send, Hangup, AlarmFires, Expire, vars

\* The state the server starts in has the types.
LEMMA TypesInitially == Init => Types
<1> SUFFICES ASSUME Init PROVE Types
  OBVIOUS
<1> USE ServerAssumption DEF ServerAssumption, Init
<1>1. ClientsOK
  <2>1. Longest * MaxAsked \in Nat
    OBVIOUS
  <2> QED
    BY <2>1 DEF ClientsOK, PeerState
<1>2. ObjectsOK
  <2>1. NoResponse \in [for : SUBSET Conns, left : 0..Parts] /\ <<>> \in Seq(Conns)
    BY DEF NoResponse
  <2> QED
    BY <2>1 DEF ObjectsOK
<1>3. LoopOK
  <2>1. at[Main] = "epoll_wait"
    BY DEF Threads
  <2>2. /\ m_user_count \in Int /\ batch = {} /\ timeout = FALSE /\ alarm = "armed"
        /\ timer \in [Fds -> {"none", "fresh", "due"}] /\ mainfd = None
    OBVIOUS
  <2> QED
    BY <2>1, <2>2 DEF LoopOK, HoldPlaces
<1>4. ThreadsOK
  <2>1. Pool!TypeOK
    BY DEF Pool!Init, Pool!TypeOK, Pool!WorkerState
  <2> QED
    BY <2>1 DEF ThreadsOK, MainPlaces, WorkerPlaces, Threads, Pool!Init
<1> QED
  BY <1>1, <1>2, <1>3, <1>4 DEF Types

\* Every step keeps the types of all the variables.
LEMMA TypesInductive == Types /\ [Next]_vars => Types'
BY ClientsInductive, ObjectsInductive, LoopInductive, ThreadsInductive DEF Types

\* In every setting, proactor or reactor, overloaded or not, with responses
\* that cannot be built and interrupted waits: a worker is busy exactly while
\* the pool has handed it an object, append's post() is owed exactly between
\* its unlock() and post(), a client's unread input is bounded by what it may
\* send, what has been read by the buffer, and no more of a response is left than
\* it has.
THEOREM TypeCorrect == Spec => []TypeOK
<1>1. Types => TypeOK
  <2> SUFFICES ASSUME Types PROVE TypeOK
    OBVIOUS
  <2>1. \A c \in Conns : inbox[c] \in 0..(Longest * MaxAsked)
    <3>1. Longest * MaxAsked \in Nat
      BY ServerAssumption DEF ServerAssumption
    <3> QED
      BY <3>1 DEF Types, ClientsOK
  <2> QED
    BY <2>1 DEF Types, ClientsOK, ObjectsOK, LoopOK, ThreadsOK, TypeOK
<1> QED
  BY <1>1, TypesInitially, TypesInductive, PTL DEF Spec

-----------------------------------------------------------------------------
(* Whose requests and responses an object holds, whatever the setting.      *)

\* An open descriptor whose object has been reset for its connection, which did
\* not cross a worker's former one.
Clean(f) == sock[f] # None /\ sock[f] \notin crossed /\ ~InAccept(f)

\* What such a descriptor's object holds belongs to its connection.
ContentRight ==
  /\ \A f \in Fds : Clean(f) =>
       /\ \A i \in DOMAIN rbuf[f] : rbuf[f][i] = sock[f]
       /\ resp[f].for \subseteq {sock[f]}
  /\ \A w \in Workers : at[w] = "prepare" /\ Clean(request[w]) =>
       parsed[w] \subseteq {sock[request[w]]}
  /\ \A c \in Conns \ crossed : got[c] \subseteq {c}

\* A step that opens no descriptor to its connection.
CleanStays ==
  /\ crossed \subseteq crossed'
  /\ \A f \in Fds : (Clean(f))' => Clean(f) /\ sock'[f] = sock[f]

\* That is any step but the two by which the event loop accepts.
LEMMA NothingOpened ==
  ASSUME Types, [Next]_vars, ~CountUp, \A f \in Fds, c \in Conns : ~Accept(c, f)
  PROVE  CleanStays
<1>1. /\ crossed \subseteq crossed'
      /\ \A f \in Fds : sock'[f] = sock[f] \/ sock'[f] = None
  <2>1. CASE UNCHANGED <<sock, crossed>>
    BY <2>1
  <2>2. ASSUME NEW t \in Threads, Close(t)
        PROVE  /\ crossed' = crossed
               /\ \A f \in Fds : sock'[f] = sock[f] \/ sock'[f] = None
    <3>1. crossed' = crossed /\ (sock' = sock \/ sock' = [sock EXCEPT ![Obj(t)] = None])
      BY <2>2 DEF Close, CloseCheck, CloseRemove, CloseClear, CloseCount, clientVars, pastVars
    <3> QED
      BY <3>1 DEF Types, ObjectsOK
  <2>3. ASSUME NEW t \in Threads, Write(t)
        PROVE  sock' = sock /\ crossed \subseteq crossed'
    BY <2>3 DEF Write, WriteNothing, WriteSome, WriteError, WriteReset, clientVars, pastVars
  <2>4. CASE MainStep
    BY <2>1, <2>2, <2>3, <2>4
    DEF MainStep, EpollWait, AcceptFails, AcceptRefuses, DealWithSignal, EndBatch, TickEnd,
        AppendRequest, PostRequest, HandleHup, DealWithRead, DealWithWrite, TickOne,
        clientVars, pastVars, Threads
  <2>5. ASSUME NEW w \in Workers, WorkerStep(w) \/ WorkerInterrupted(w)
        PROVE  /\ crossed \subseteq crossed'
               /\ \A f \in Fds : sock'[f] = sock[f] \/ sock'[f] = None
    BY <2>1, <2>2, <2>3, <2>5
    DEF WorkerStep, WorkerInterrupted, WorkerWakes, WorkerTakes, WorkerRuns, WorkerReads,
        Process, ProcessWrite, Rearm, WorkerDone, clientVars, pastVars, Threads
  <2> QED
    BY <2>1, <2>4, <2>5
    DEF Next, ClientStep, Connect, Send, Hangup, AlarmFires, Expire, vars, clientVars, pastVars
<1>2. at[Main] = "count_up" => at'[Main] = at[Main] /\ mainfd' = mainfd
  <2>1. CASE UNCHANGED <<at, mainfd>>
    BY <2>1
  <2>2. CASE MainStep
    BY <2>2
    DEF MainStep, EpollWait, AcceptFails, AcceptRefuses, Accepting, DealWithSignal, EndBatch,
        TickEnd, AppendRequest, PostRequest, HandleHup, DealWithRead, DealWithWrite, Handle,
        TickOne, Close, CloseCheck, CloseRemove, CloseClear, CloseCount, Write, WriteNothing,
        WriteSome, WriteError, WriteReset
  <2>3. ASSUME NEW w \in Workers, WorkerStep(w) \/ WorkerInterrupted(w)
        PROVE  UNCHANGED <<at[Main], mainfd>>
    BY <2>3, WorkerFrame
  <2> QED
    BY <2>1, <2>2, <2>3
    DEF Next, ClientStep, Connect, Send, Hangup, AlarmFires, Expire, vars, loopVars
<1>3. \A f \in Fds : InAccept(f) => (InAccept(f))'
  BY <1>2 DEF InAccept
<1> QED
  BY <1>1, <1>3 DEF CleanStays, Clean

\* A worker about to build a response has an object.
LEMMA PreparedObject ==
  ASSUME Types, NEW w \in Workers, at[w] = "prepare"
  PROVE  request[w] \in Fds
<1>1. w \in Threads /\ w # Main /\ Obj(w) = request[w]
  BY ServerAssumption DEF ServerAssumption, Threads, Obj
<1> QED
  BY <1>1, HeldObject

\* What a buffer holds after n pieces of c are appended to it.
LEMMA PiecesAdded ==
  ASSUME NEW s \in Seq(Conns), NEW c \in Conns, NEW n \in Nat, NEW q,
         q = s \o [j \in 1..n |-> c], NEW i \in DOMAIN q
  PROVE  (i \in DOMAIN s /\ q[i] = s[i]) \/ q[i] = c
<1> DEFINE added == [j \in 1..n |-> c]
<1>0. added \in Seq(Conns)
  OBVIOUS
<1>1. PICK r \in Seq(Conns) : r = added
  BY <1>0
<1>2. Len(r) = n /\ \A j \in 1..n : r[j] = c
  BY <1>1
<1>3. /\ q \in Seq(Conns) /\ Len(q) = Len(s) + n
      /\ \A k \in 1..(Len(s) + n) : q[k] = IF k <= Len(s) THEN s[k] ELSE r[k - Len(s)]
  BY <1>1, <1>2, ConcatProperties
<1>4. i \in 1..(Len(s) + n) /\ Len(s) \in Nat /\ DOMAIN s = 1..Len(s)
  BY <1>3
<1>5. CASE i <= Len(s)
  BY <1>3, <1>4, <1>5
<1>6. CASE i > Len(s)
  <2>1. i - Len(s) \in 1..n
    BY <1>4, <1>6
  <2> QED
    BY <1>2, <1>3, <1>4, <1>6, <2>1
<1> QED
  BY <1>4, <1>5, <1>6

\* What a buffer holds after its first n pieces are taken out of it.
LEMMA PiecesTaken ==
  ASSUME NEW s \in Seq(Conns), NEW n \in Nat \ {0}, n <= Len(s), NEW q,
         q = SubSeq(s, n + 1, Len(s)), NEW i \in DOMAIN q
  PROVE  i + n \in DOMAIN s /\ q[i] = s[i + n]
<1>1. Len(s) \in Nat /\ DOMAIN s = 1..Len(s) /\ \A k \in (n + 1)..Len(s) : s[k] \in Conns
  OBVIOUS
<1>2. /\ q \in Seq(Conns) /\ Len(q) = IF n + 1 <= Len(s) THEN Len(s) - (n + 1) + 1 ELSE 0
      /\ \A k \in 1..(Len(s) - (n + 1) + 1) : q[k] = s[(n + 1) + k - 1]
  <2>1. n + 1 \in Int /\ Len(s) \in Int
    BY <1>1
  <2> QED
    BY <1>1, <2>1, SubSeqProperties
<1>3. i \in 1..Len(q)
  BY <1>2
<1>4. PICK m \in Nat : m = Len(s)
  BY <1>1
<1>5. n \in Nat /\ n <= m
  BY <1>4
<1>6. Len(q) = m - n
  <2>1. Len(q) = IF n + 1 <= m THEN m - (n + 1) + 1 ELSE 0
    BY <1>2, <1>4
  <2> QED
    BY <1>5, <2>1
<1>7. i \in 1..(m - (n + 1) + 1) /\ (n + 1) + i - 1 = i + n /\ i + n \in 1..m
  <2>1. i \in 1..(m - n)
    BY <1>3, <1>6
  <2> QED
    BY <1>5, <2>1
<1>8. q[i] = s[(n + 1) + i - 1]
  BY <1>2, <1>4, <1>7
<1> QED
  BY <1>1, <1>4, <1>7, <1>8

\* read_once() adds pieces of the descriptor's connection only.
LEMMA ReadContent ==
  ASSUME Types, ContentRight, NEW f \in Fds, ReadOnce(f) \/ rbuf' = rbuf, CleanStays,
         UNCHANGED <<resp, got, request, parsed>>,
         \A w \in Workers : at'[w] = "prepare" => at[w] = "prepare"
  PROVE  ContentRight'
<1>1. ASSUME NEW g \in Fds, Clean(g), NEW i \in DOMAIN rbuf'[g]
      PROVE  rbuf'[g][i] = sock[g]
  <2>1. CASE rbuf'[g] = rbuf[g]
    BY <1>1, <2>1 DEF ContentRight
  <2>2. CASE rbuf'[g] # rbuf[g]
    <3>0. f \in attached /\ sock[f] # None /\ ReadOnce(f)
      BY <2>2 DEF ReadOnce
    <3>1. /\ sock[f] \in Conns /\ Taken(f) \in Nat
          /\ rbuf' = [rbuf EXCEPT ![f] = @ \o [j \in 1..Taken(f) |-> sock[f]]]
      BY <3>0, ReadOnceDoes
    <3>2. g = f /\ rbuf[f] \in Seq(Conns)
      BY <2>2, <3>1 DEF Types, ObjectsOK
    <3>3. rbuf'[f] = rbuf[f] \o [j \in 1..Taken(f) |-> sock[f]]
      BY <3>1 DEF Types, ObjectsOK
    <3>4. (i \in DOMAIN rbuf[f] /\ rbuf'[f][i] = rbuf[f][i]) \/ rbuf'[f][i] = sock[f]
      <4>1. PICK s \in Seq(Conns), c \in Conns, n \in Nat :
              s = rbuf[f] /\ c = sock[f] /\ n = Taken(f)
        BY <3>1, <3>2
      <4>2. PICK q : q = s \o [j \in 1..n |-> c]
        OBVIOUS
      <4>3. rbuf'[f] = q
        BY <3>3, <4>1, <4>2
      <4>4. i \in DOMAIN q
        BY <1>1, <3>2, <4>3
      <4>5. (i \in DOMAIN s /\ q[i] = s[i]) \/ q[i] = c
        BY <4>2, <4>4, PiecesAdded
      <4> QED
        BY <4>1, <4>3, <4>5
    <3> QED
      BY <1>1, <3>2, <3>4 DEF ContentRight
  <2> QED
    BY <2>1, <2>2
<1>2. \A g \in Fds : (Clean(g))' => \A i \in DOMAIN rbuf'[g] : rbuf'[g][i] = sock'[g]
  BY <1>1 DEF CleanStays
<1>3. \A g \in Fds : (Clean(g))' => resp'[g].for \subseteq {sock'[g]}
  BY DEF ContentRight, CleanStays
<1>4. \A w \in Workers : at'[w] = "prepare" /\ (Clean(request[w]))' =>
        parsed'[w] \subseteq {sock'[request'[w]]}
  BY PreparedObject DEF ContentRight, CleanStays
<1>5. \A c \in Conns \ crossed' : got'[c] \subseteq {c}
  BY DEF ContentRight, CleanStays
<1> QED
  BY <1>2, <1>3, <1>4, <1>5 DEF ContentRight

\* A step that leaves the contents alone.
LEMMA SameContent ==
  ASSUME Types, ContentRight, CleanStays, UNCHANGED <<rbuf, resp, got, parsed, request>>,
         \A w \in Workers : at'[w] = "prepare" => at[w] = "prepare"
  PROVE  ContentRight'
<1>1. \A w \in Workers : at'[w] = "prepare" /\ (Clean(request[w]))' =>
        parsed'[w] \subseteq {sock'[request'[w]]}
  BY PreparedObject DEF ContentRight, CleanStays
<1> QED
  BY <1>1 DEF ContentRight, CleanStays

\* accept() changes no object, and the one it takes is not reset yet.
LEMMA AcceptContent ==
  ASSUME Types, ContentRight, NEW f \in Fds, NEW c \in Conns, Accept(c, f)
  PROVE  ContentRight'
<1>1. /\ sock' = [sock EXCEPT ![f] = c] /\ crossed' = crossed /\ mainfd' = f
      /\ UNCHANGED <<rbuf, resp, got, parsed, request>>
      /\ at'[Main] = "count_up" /\ at[Main] # "count_up"
      /\ \A w \in Workers : at'[w] = at[w]
  BY ServerAssumption
  DEF Accept, Accepting, Goto, objVars, poolVars, Types, ThreadsOK, Threads, ServerAssumption
<1>2. \A g \in Fds : (Clean(g))' => Clean(g) /\ sock'[g] = sock[g]
  <2> SUFFICES ASSUME NEW g \in Fds, (Clean(g))'
               PROVE  Clean(g) /\ sock'[g] = sock[g]
    OBVIOUS
  <2>1. g # f
    BY <1>1 DEF Clean, InAccept
  <2>2. sock'[g] = sock[g]
    BY <1>1, <2>1 DEF Types, ObjectsOK
  <2> QED
    BY <1>1, <2>2 DEF Clean, InAccept
<1>3. CleanStays
  BY <1>1, <1>2 DEF CleanStays
<1> QED
  BY <1>1, <1>3, SameContent

\* init() empties the object of a new connection; a worker with a parsed request
\* of a former one crosses it.
LEMMA CountUpContent ==
  ASSUME Types, ContentRight, CountUp
  PROVE  ContentRight'
<1> DEFINE f == mainfd
<1>0. f \in Fds
  BY DEF CountUp, HoldPlaces, Types, LoopOK
<1>1. /\ UNCHANGED <<sock, mainfd, got, parsed, request>>
      /\ rbuf' = [rbuf EXCEPT ![f] = <<>>] /\ resp' = [resp EXCEPT ![f] = NoResponse]
      /\ \A w \in Workers : at'[w] = at[w]
  BY ServerAssumption
  DEF CountUp, Reset, Goto, loopVars, poolVars, Types, ThreadsOK, Threads, ServerAssumption
<1>2. at[Main] = "count_up" /\ crossed \subseteq crossed'
  BY DEF CountUp
<1>3. \A w \in Workers :
        at[w] = "prepare" /\ request[w] = f => sock[f] \in crossed' \cup {None}
  BY DEF CountUp, UsedAt
<1>4. /\ rbuf'[f] = <<>> /\ resp'[f].for = {}
      /\ \A g \in Fds : g # f => rbuf'[g] = rbuf[g] /\ resp'[g] = resp[g]
  BY <1>0, <1>1 DEF Types, ObjectsOK, NoResponse
<1>5. \A g \in Fds : g # f /\ (Clean(g))' => Clean(g)
  BY <1>1, <1>2 DEF Clean, InAccept
<1> HIDE DEF f
<1>6. ASSUME NEW w \in Workers, at'[w] = "prepare", (Clean(request[w]))'
      PROVE  parsed'[w] \subseteq {sock'[request'[w]]}
  <2>1. at[w] = "prepare" /\ request[w] \in Fds
    BY <1>1, <1>6, PreparedObject
  <2>2. request[w] # f
    BY <1>1, <1>3, <1>6, <2>1 DEF Clean
  <2>3. Clean(request[w])
    BY <1>1, <1>5, <1>6, <2>1, <2>2
  <2> QED
    BY <1>1, <2>1, <2>3 DEF ContentRight
<1>7. \A g \in Fds : (Clean(g))' =>
        /\ \A i \in DOMAIN rbuf'[g] : rbuf'[g][i] = sock'[g]
        /\ resp'[g].for \subseteq {sock'[g]}
  BY <1>1, <1>4, <1>5 DEF ContentRight
<1>8. \A d \in Conns \ crossed' : got'[d] \subseteq {d}
  BY <1>1, <1>2 DEF ContentRight
<1> QED
  BY <1>1, <1>6, <1>7, <1>8 DEF ContentRight

\* close_conn() takes the connection away from its descriptor.
LEMMA CloseContent ==
  ASSUME Types, ContentRight, CleanStays, NEW t \in Threads, Close(t)
  PROVE  ContentRight'
<1>1. UNCHANGED <<rbuf, resp, got, parsed, request>>
  BY DEF Close, CloseCheck, CloseRemove, CloseClear, CloseCount, clientVars, objVars, poolVars
<1>2. \A w \in Workers : at'[w] = "prepare" => at[w] = "prepare"
  BY DEF Close, CloseCheck, CloseRemove, CloseClear, CloseCount, CloseReturn, Goto,
         Types, ThreadsOK, Threads
<1> QED
  BY <1>1, <1>2, SameContent

\* write() sends what the object holds for its connection, or empties it; one
\* that sends before init() has reset the object crosses the new connection.
LEMMA WriteContent ==
  ASSUME Types, ContentRight, CleanStays, NEW t \in Threads, Write(t)
  PROVE  ContentRight'
<1>1. \A w \in Workers : at'[w] = "prepare" => at[w] = "prepare"
  <2>1. \/ Goto(t, "dispatch") \/ Goto(t, "close") \/ Goto(t, "reset") \/ Goto(t, "done")
    BY DEF Write, WriteNothing, WriteSome, WriteError, WriteReset, WriteReturns
  <2> QED
    BY <2>1 DEF Goto, Types, ThreadsOK, Threads
<1>2. CASE WriteSome(t)
  <2> DEFINE f == Obj(t)
  <2>1. /\ UNCHANGED <<rbuf, parsed, request>>
        /\ f \in Fds /\ sock[f] \in Conns /\ sock[f] # None
        /\ got' = [got EXCEPT ![sock[f]] = @ \cup resp[f].for]
        /\ InAccept(f) => sock[f] \in crossed'
    BY <1>2 DEF WriteSome, poolVars, pastVars, Types, ObjectsOK
  <2>2. \A g \in Fds : resp'[g].for = resp[g].for
    <3>1. PICK k \in 1..resp[f].left : resp' = [resp EXCEPT ![f].left = @ - k]
      BY <1>2 DEF WriteSome
    <3>2. resp[f] \in [for : SUBSET Conns, left : 0..Parts]
      BY <2>1 DEF Types, ObjectsOK
    <3> QED
      BY <2>1, <3>1, <3>2 DEF Types, ObjectsOK
  <2>3. sock[f] \notin crossed' => resp[f].for \subseteq {sock[f]}
    BY <2>1 DEF ContentRight, Clean, CleanStays
  <2> HIDE DEF f
  <2>4. \A c \in Conns \ crossed' : got'[c] \subseteq {c}
    BY <2>1, <2>3 DEF ContentRight, CleanStays, Types, ClientsOK
  <2>5. \A w \in Workers : at'[w] = "prepare" /\ (Clean(request[w]))' =>
          parsed'[w] \subseteq {sock'[request'[w]]}
    BY <1>1, <2>1, PreparedObject DEF ContentRight, CleanStays
  <2>6. \A g \in Fds : (Clean(g))' =>
          /\ \A i \in DOMAIN rbuf'[g] : rbuf'[g][i] = sock'[g]
          /\ resp'[g].for \subseteq {sock'[g]}
    BY <2>1, <2>2 DEF ContentRight, CleanStays
  <2> QED
    BY <2>1, <2>4, <2>5, <2>6 DEF ContentRight
<1>3. CASE WriteReset(t)
  <2> DEFINE f == Obj(t)
  <2>1. /\ rbuf' = [rbuf EXCEPT ![f] = <<>>]
        /\ resp' = [resp EXCEPT ![f] = NoResponse]
        /\ UNCHANGED <<got, parsed, request>>
        /\ f \in Fds
    BY <1>3, HeldObject
    DEF WriteReset, Reset, clientVars, poolVars, HoldPlaces
  <2>2. /\ rbuf'[f] = <<>> /\ resp'[f].for = {}
        /\ \A g \in Fds : g # f => rbuf'[g] = rbuf[g] /\ resp'[g] = resp[g]
    BY <2>1 DEF Types, ObjectsOK, NoResponse
  <2> HIDE DEF f
  <2>3. \A w \in Workers : at'[w] = "prepare" /\ (Clean(request[w]))' =>
          parsed'[w] \subseteq {sock'[request'[w]]}
    BY <1>1, <2>1, PreparedObject DEF ContentRight, CleanStays
  <2>4. \A g \in Fds : (Clean(g))' =>
          /\ \A i \in DOMAIN rbuf'[g] : rbuf'[g][i] = sock'[g]
          /\ resp'[g].for \subseteq {sock'[g]}
    BY <2>2 DEF ContentRight, CleanStays
  <2>5. \A c \in Conns \ crossed' : got'[c] \subseteq {c}
    BY <2>1 DEF ContentRight, CleanStays
  <2> QED
    BY <2>1, <2>3, <2>4, <2>5 DEF ContentRight
<1>4. CASE WriteNothing(t) \/ WriteError(t)
  <2>1. UNCHANGED <<rbuf, resp, got, parsed, request>>
    BY <1>4 DEF WriteNothing, WriteError, clientVars, objVars, poolVars
  <2> QED
    BY <1>1, <2>1, SameContent
<1> QED
  BY <1>2, <1>3, <1>4 DEF Write

\* A worker parses a request out of the pieces the object holds.
LEMMA ProcessContent ==
  ASSUME Types, ContentRight, CleanStays, NEW w \in Workers, Process(w)
  PROVE  ContentRight'
<1> DEFINE f == request[w]
<1>1. w \in Threads /\ w # Main /\ f \in Fds /\ rbuf[f] \in Seq(Conns) /\ at[w] = "process"
  <2>1. w \in Threads /\ w # Main /\ Obj(w) = request[w]
    BY ServerAssumption DEF ServerAssumption, Threads, Obj
  <2>2. f \in Fds
    BY <2>1, HeldObject DEF Process
  <2> QED
    BY <2>1, <2>2 DEF Types, ObjectsOK, Process
<1>2. \A v \in Workers \ {w} : at'[v] = at[v]
  BY WorkerFrame DEF WorkerStep
<1>3. CASE UNCHANGED rbuf /\ Goto(w, "rearm_in") /\ UNCHANGED parsed
  <2>1. UNCHANGED <<rbuf, resp, got, parsed, request>> /\ at'[w] # "prepare"
    BY <1>1, <1>3 DEF Process, Goto, clientVars, poolVars, Types, ThreadsOK
  <2> QED
    BY <1>2, <2>1, SameContent
<1>4. ASSUME NEW n \in Chunks..Longest, n <= Len(rbuf[f]),
             parsed' = [parsed EXCEPT ![w] = {rbuf[f][i] : i \in 1..n}],
             rbuf' = [rbuf EXCEPT ![f] = SubSeq(@, n + 1, Len(@))]
      PROVE  ContentRight'
  <2>0. n \in Nat \ {0} /\ Len(rbuf[f]) \in Nat
    BY <1>1, ServerAssumption DEF ServerAssumption
  <2>1. UNCHANGED <<resp, got, request>>
    BY DEF Process, clientVars, poolVars
  <2>2. \A i \in DOMAIN SubSeq(rbuf[f], n + 1, Len(rbuf[f])) :
          /\ i + n \in DOMAIN rbuf[f]
          /\ SubSeq(rbuf[f], n + 1, Len(rbuf[f]))[i] = rbuf[f][i + n]
    <3>1. PICK s \in Seq(Conns) : s = rbuf[f]
      BY <1>1
    <3>2. ASSUME NEW i \in DOMAIN SubSeq(s, n + 1, Len(s))
          PROVE  i + n \in DOMAIN s /\ SubSeq(s, n + 1, Len(s))[i] = s[i + n]
      <4>1. n <= Len(s)
        BY <1>4, <3>1
      <4> QED
        BY <2>0, <4>1, PiecesTaken
    <3> HIDE DEF f
    <3> QED
      BY <3>1, <3>2
  <2>3. {rbuf[f][i] : i \in 1..n} \subseteq {rbuf[f][i] : i \in DOMAIN rbuf[f]}
    BY <1>1, <1>4, <2>0
  <2>4. /\ rbuf'[f] = SubSeq(rbuf[f], n + 1, Len(rbuf[f]))
        /\ \A g \in Fds : g # f => rbuf'[g] = rbuf[g]
    BY <1>1, <1>4 DEF Types, ObjectsOK
  <2>5. /\ parsed'[w] = {rbuf[f][i] : i \in 1..n}
        /\ \A v \in Workers \ {w} : parsed'[v] = parsed[v]
    BY <1>4 DEF Types, ThreadsOK
  <2> HIDE DEF f
  <2>6. Clean(f) => \A i \in DOMAIN rbuf[f] : rbuf[f][i] = sock[f]
    BY <1>1 DEF ContentRight
  <2>7. \A i \in DOMAIN rbuf'[f] : \E j \in DOMAIN rbuf[f] : rbuf'[f][i] = rbuf[f][j]
    BY <2>2, <2>4
  <2>8. \A g \in Fds : (Clean(g))' =>
          /\ \A i \in DOMAIN rbuf'[g] : rbuf'[g][i] = sock'[g]
          /\ resp'[g].for \subseteq {sock'[g]}
    <3>1. ASSUME NEW g \in Fds, Clean(g), NEW i \in DOMAIN rbuf'[g]
          PROVE  rbuf'[g][i] = sock[g]
      <4>1. CASE g = f
        BY <2>6, <2>7, <3>1, <4>1
      <4>2. CASE g # f
        BY <2>4, <3>1, <4>2 DEF ContentRight
      <4> QED
        BY <4>1, <4>2
    <3> QED
      BY <2>1, <3>1 DEF ContentRight, CleanStays
  <2>9. Clean(f) => parsed'[w] \subseteq {sock[f]}
    BY <2>3, <2>5, <2>6
  <2>10. \A v \in Workers : at'[v] = "prepare" /\ (Clean(request[v]))' =>
           parsed'[v] \subseteq {sock'[request'[v]]}
    <3>1. ASSUME NEW v \in Workers, at'[v] = "prepare", (Clean(request[v]))'
          PROVE  parsed'[v] \subseteq {sock'[request'[v]]}
      <4>1. CASE v = w
        BY <1>1, <2>1, <2>9, <3>1, <4>1 DEF CleanStays, f
      <4>2. CASE v # w
        BY <1>2, <2>1, <2>5, <3>1, <4>2, PreparedObject DEF ContentRight, CleanStays
      <4> QED
        BY <4>1, <4>2
    <3> QED
      BY <3>1
  <2>11. \A c \in Conns \ crossed' : got'[c] \subseteq {c}
    BY <2>1 DEF ContentRight, CleanStays
  <2> QED
    BY <2>1, <2>8, <2>10, <2>11 DEF ContentRight
<1> QED
  BY <1>3, <1>4 DEF Process

\* A worker hands what it has parsed over to the response.
LEMMA RespondContent ==
  ASSUME Types, ContentRight, CleanStays, NEW w \in Workers, ProcessWrite(w)
  PROVE  ContentRight'
<1> DEFINE f == request[w]
<1>1. w \in Threads /\ w # Main /\ f \in Fds /\ at[w] = "prepare"
  <2>1. w \in Threads /\ w # Main
    BY ServerAssumption DEF ServerAssumption, Threads
  <2> QED
    BY <2>1, PreparedObject DEF ProcessWrite
<1>2. /\ resp' = [resp EXCEPT ![f] = [for |-> parsed[w], left |-> Parts]]
      /\ UNCHANGED <<rbuf, got, request>>
      /\ at'[w] # "prepare"
      /\ \A v \in Workers \ {w} : at'[v] = at[v] /\ parsed'[v] = parsed[v]
  BY <1>1 DEF ProcessWrite, Goto, clientVars, poolVars, Types, ThreadsOK
<1>3. resp'[f].for = parsed[w] /\ \A g \in Fds : g # f => resp'[g] = resp[g]
  BY <1>1, <1>2 DEF Types, ObjectsOK
<1>4. \A g \in Fds : Clean(g) => resp'[g].for \subseteq {sock[g]}
  BY <1>1, <1>3 DEF ContentRight
<1>5. \A v \in Workers : at'[v] = "prepare" /\ (Clean(request[v]))' =>
        parsed'[v] \subseteq {sock'[request'[v]]}
  BY <1>2, PreparedObject DEF ContentRight, CleanStays
<1> QED
  BY <1>2, <1>4, <1>5 DEF ContentRight, CleanStays

\* Every step keeps the contents with their connection.
LEMMA ContentInductive == Types /\ ContentRight /\ [Next]_vars => ContentRight'
<1> SUFFICES ASSUME Types, ContentRight, [Next]_vars PROVE ContentRight'
  OBVIOUS
<1>0. /\ Main \in Threads /\ Main \notin Workers /\ Workers \subseteq Threads
      /\ at \in [Threads -> MainPlaces \cup WorkerPlaces]
  BY ServerAssumption DEF Types, ThreadsOK, Threads, ServerAssumption
<1>a. CASE CountUp
  BY <1>a, CountUpContent
<1>b. CASE \E f \in Fds, c \in Conns : Accept(c, f)
  BY <1>b, AcceptContent
<1>c. CASE ~CountUp /\ \A f \in Fds, c \in Conns : ~Accept(c, f)
  <2> USE SameContent
  <2>0. CleanStays
    BY <1>c, NothingOpened
  <2>1. CASE MainStep
    <3>1. ASSUME NEW f \in Fds, DealWithRead(f)
          PROVE  ContentRight'
      <4>1. /\ ReadOnce(f) \/ rbuf' = rbuf
            /\ UNCHANGED <<resp, got, request, parsed>>
            /\ \A w \in Workers : at'[w] = at[w]
        BY <1>0, <3>1 DEF DealWithRead, Goto, poolVars
      <4> QED
        BY <2>0, <4>1, ReadContent
    <3>2. ASSUME NEW f \in Fds, HandleHup(f) \/ DealWithWrite(f) \/ TickOne(f)
          PROVE  ContentRight'
      BY <1>0, <2>0, <3>2 DEF HandleHup, DealWithWrite, TickOne, Goto, clientVars, objVars, poolVars
    <3>3. CASE EpollWait \/ AcceptFails \/ AcceptRefuses
      BY <1>0, <2>0, <3>3
      DEF EpollWait, AcceptFails, AcceptRefuses, Goto, clientVars, objVars, poolVars
    <3>4. CASE DealWithSignal \/ EndBatch \/ TickEnd
      BY <1>0, <2>0, <3>4
      DEF DealWithSignal, EndBatch, TickEnd, Goto, clientVars, objVars, poolVars
    <3>5. CASE AppendRequest \/ PostRequest
      BY <1>0, <2>0, <3>5
      DEF AppendRequest, PostRequest, Pool!Enqueue, Pool!Post, Goto, clientVars, objVars
    <3> QED
      BY <1>0, <1>c, <2>0, <2>1, <3>1, <3>2, <3>3, <3>4, <3>5, CloseContent, WriteContent
      DEF MainStep
  <2>2. ASSUME NEW w \in Workers, WorkerStep(w) \/ WorkerInterrupted(w)
        PROVE  ContentRight'
    <3>0. w \in Threads /\ w # Main /\ Obj(w) = request[w]
      BY <1>0 DEF Obj
    <3>1. CASE WorkerWakes(w) \/ WorkerInterrupted(w)
      BY <2>0, <3>1
      DEF WorkerWakes, WorkerInterrupted, Pool!Wake, Pool!Interrupted, clientVars, objVars
    <3>2. CASE WorkerTakes(w) \/ WorkerDone(w)
      <4>1. UNCHANGED <<rbuf, resp, got>> /\ at'[w] # "prepare"
        BY <1>0, <3>0, <3>2
        DEF WorkerTakes, WorkerDone, Goto, clientVars, objVars, Types, ThreadsOK
      <4>2. \A v \in Workers \ {w} :
              at'[v] = at[v] /\ request'[v] = request[v] /\ parsed'[v] = parsed[v]
        BY <1>0, <3>0, <3>2
        DEF WorkerTakes, Pool!Take, WorkerDone, Pool!Finish, Goto, Types, ThreadsOK,
            Pool!TypeOK
      <4>3. \A v \in Workers : at'[v] = "prepare" /\ (Clean(request[v]))' =>
              parsed'[v] \subseteq {sock'[request'[v]]}
        BY <2>0, <4>1, <4>2, PreparedObject DEF ContentRight, CleanStays
      <4> QED
        BY <2>0, <4>1, <4>3 DEF ContentRight, CleanStays
    <3>3. CASE WorkerReads(w)
      <4>1. /\ request[w] \in Fds /\ ReadOnce(request[w])
            /\ UNCHANGED <<resp, got, request, parsed>>
        BY <3>0, <3>3, HeldObject DEF WorkerReads, poolVars
      <4>2. \A v \in Workers : at'[v] = "prepare" => at[v] = "prepare"
        BY <1>0, <3>0, <3>3 DEF WorkerReads, Goto
      <4> QED
        BY <2>0, <4>1, <4>2, ReadContent
    <3>4. CASE Rearm(w) \/ WorkerRuns(w)
      BY <1>0, <2>0, <3>0, <3>4 DEF Rearm, WorkerRuns, Goto, clientVars, objVars, poolVars
    <3> QED
      BY <2>0, <2>2, <3>0, <3>1, <3>2, <3>3, <3>4, ProcessContent, RespondContent, CloseContent,
         WriteContent
      DEF WorkerStep
  <2>3. CASE ClientStep \/ AlarmFires \/ (\E f \in Fds : Expire(f)) \/ UNCHANGED vars
    BY <2>0, <2>3
    DEF ClientStep, Connect, Send, Hangup, AlarmFires, Expire, vars, clientVars, objVars, poolVars
  <2> QED
    BY <2>1, <2>2, <2>3 DEF Next
<1> QED
  BY <1>a, <1>b, <1>c

\* At the start nothing is open and nothing has been sent.
LEMMA ContentInitially == Init => ContentRight
<1> SUFFICES ASSUME Init PROVE ContentRight
  OBVIOUS
<1>1. /\ \A f \in Fds : sock[f] = None
      /\ \A c \in Conns : got[c] = {}
      /\ \A w \in Workers : at[w] = "idle"
  <2>1. \A w \in Workers : w \in Threads /\ w # Main
    BY ServerAssumption DEF ServerAssumption, Threads
  <2> QED
    BY <2>1 DEF Init
<1> QED
  BY <1>1 DEF ContentRight, Clean

\* In every setting a client receives only responses to its own requests, unless
\* its connection took over a descriptor for which a worker had parsed a request
\* of the former one and not yet built the response, or sent one before init()
\* reset the object: all that a stale worker, a dropped request or a response that
\* cannot be built can do is named there.
THEOREM ResponsesContained == Spec => [](\A c \in Conns \ crossed : got[c] \subseteq {c})
<1>1. Init => Types /\ ContentRight
  BY TypesInitially, ContentInitially
<1>2. Types /\ ContentRight /\ [Next]_vars => (Types /\ ContentRight)'
  BY TypesInductive, ContentInductive
<1>3. ContentRight => \A c \in Conns \ crossed : got[c] \subseteq {c}
  BY DEF ContentRight
<1> QED
  BY <1>1, <1>2, <1>3, PTL DEF Spec

-----------------------------------------------------------------------------
(* Descriptors, objects and timers, whatever the setting.                   *)

\* The connections of no use to their descriptor's object.
Stray == orphaned \cup {None}

Reported(f) == \E k \in {"hup", "in", "out"} : <<k, f>> \in batch

BatchRight ==
  /\ at[Main] \in {"tick", "epoll_wait"} => batch = {}
  /\ \A f \in Fds : epoll[f] = "off" <=> sock[f] = None

\* An open descriptor's object refers to it, and whoever is about to set
\* m_sockfd to -1 has closed it, but for the connections marked as orphaned.
ReferRight ==
  /\ \A f \in Fds : sock[f] \notin Stray => f \in attached
  /\ \A w \in Workers : at[w] = "clear" => sock[request[w]] \in Stray
  /\ at[Main] = "clear" => sock[mainfd] \in Stray

\* A descriptor whose node is gone is closed, or tick() is closing it; the
\* event loop handles no event of it.
NodeRight ==
  \A f \in Fds : timer[f] = "none" =>
    /\ \/ f \notin attached \/ sock[f] = None
       \/ mainfd = f /\ at[Main] \in {"close", "remove"} /\ batch = {}
    /\ sock[f] \notin orphaned =>
         /\ ~Reported(f)
         /\ at[Main] \in {"append_read", "append_write", "write", "reset"} => mainfd # f

KernelRight == BatchRight /\ ReferRight /\ NodeRight

\* The variables these are about.
kernelVars == <<at, batch, epoll, sock, attached, timer, mainfd, request, orphaned>>

\* A step that leaves them alone.
LEMMA SameKernel == KernelRight /\ UNCHANGED kernelVars => KernelRight'
BY DEF kernelVars, KernelRight, BatchRight, ReferRight, NodeRight, Stray, Reported

\* The event loop goes on, with an event less perhaps, and closes nothing.
LEMMA MainKernel ==
  ASSUME Types, KernelRight, NEW p, at' = [at EXCEPT ![Main] = p],
         at[Main] \notin {"close", "remove"}, p \notin {"clear", "remove"},
         p \in {"tick", "epoll_wait"} => batch' = {},
         batch' \subseteq batch,
         UNCHANGED <<sock, attached, request, orphaned>>,
         \A f \in Fds : (epoll'[f] = "off" <=> epoll[f] = "off")
                        /\ (timer'[f] = "none" <=> timer[f] = "none"),
         p \in {"append_read", "append_write", "write", "reset"} =>
           \/ mainfd' = mainfd
                /\ at[Main] \in {"append_read", "append_write", "write", "reset"}
           \/ mainfd' \in Fds /\ Reported(mainfd')
  PROVE  KernelRight'
<1>1. /\ at'[Main] = p
      /\ \A w \in Workers : at'[w] = at[w]
  BY ServerAssumption DEF Types, ThreadsOK, Threads, ServerAssumption
<1>2. \A f \in Fds : (Reported(f))' => Reported(f)
  BY DEF Reported
<1>3. BatchRight'
  BY <1>1 DEF KernelRight, BatchRight
<1>4. ReferRight'
  BY <1>1 DEF KernelRight, ReferRight, Stray
<1>5. NodeRight'
  <2> SUFFICES ASSUME NEW f \in Fds, timer'[f] = "none"
               PROVE  /\ f \notin attached \/ sock[f] = None
                      /\ sock[f] \notin orphaned =>
                           /\ ~(Reported(f))'
                           /\ at'[Main] \in {"append_read", "append_write", "write", "reset"}
                                => mainfd' # f
    BY DEF NodeRight
  <2> QED
    BY <1>1, <1>2 DEF KernelRight, NodeRight
<1> QED
  BY <1>3, <1>4, <1>5 DEF KernelRight

\* epoll_wait reports open descriptors only, and those have nodes.
LEMMA WaitKernel ==
  ASSUME Types, KernelRight, EpollWait
  PROVE  KernelRight'
<1>1. /\ at'[Main] = "dispatch" /\ at[Main] = "epoll_wait"
      /\ \A w \in Workers : at'[w] = at[w]
      /\ UNCHANGED <<request, sock, attached, timer, orphaned>>
  BY ServerAssumption
  DEF Types, ThreadsOK, Threads, ServerAssumption, EpollWait, Goto, poolVars, pastVars
<1>2. \A f \in Fds : (Reported(f))' => f \in Fired
  <2> SUFFICES ASSUME NEW f \in Fds, (Reported(f))'
               PROVE  f \in Fired
    OBVIOUS
  <2>1. PICK k \in {"hup", "in", "out"} : <<k, f>> \in Ready
    BY DEF Reported, EpollWait
  <2>2. <<k, f>> # Listen /\ <<k, f>> # Pipe
    BY DEF Listen, Pipe
  <2> QED
    BY <2>1, <2>2 DEF Ready
<1>3. \A f \in Fds : f \in Fired => sock[f] # None
  BY DEF Fired, KernelRight, BatchRight
<1>4. \A f \in Fds : epoll'[f] = "off" <=> epoll[f] = "off"
  BY DEF EpollWait, Fired, Types, ObjectsOK
<1>5. BatchRight'
  BY <1>1, <1>4 DEF KernelRight, BatchRight
<1>6. ReferRight'
  BY <1>1 DEF KernelRight, ReferRight, Stray
<1>7. NodeRight'
  <2> SUFFICES ASSUME NEW f \in Fds, timer[f] = "none"
               PROVE  /\ f \notin attached \/ sock[f] = None
                      /\ sock[f] \notin orphaned => ~(Reported(f))'
    BY <1>1 DEF NodeRight
  <2>1. f \notin attached \/ sock[f] = None
    BY <1>1 DEF KernelRight, NodeRight
  <2>2. sock[f] \notin orphaned => sock[f] = None
    BY <2>1 DEF KernelRight, ReferRight, Stray
  <2> QED
    BY <1>2, <1>3, <2>1, <2>2
<1> QED
  BY <1>5, <1>6, <1>7 DEF KernelRight

\* A new connection gets an object, a node and, should a worker be about to set
\* the object's m_sockfd to -1, its mark.
LEMMA AcceptKernel ==
  ASSUME Types, KernelRight, NEW f \in Fds, NEW c \in Conns, Accept(c, f)
  PROVE  KernelRight'
<1>1. /\ at'[Main] = "count_up" /\ at[Main] \in {"dispatch", "accept"}
      /\ \A w \in Workers : at'[w] = at[w]
      /\ request' = request /\ batch' \subseteq batch
      /\ sock' = [sock EXCEPT ![f] = c] /\ c # None
      /\ epoll' = [epoll EXCEPT ![f] = "in"]
      /\ attached' = attached \cup {f}
      /\ timer' = [timer EXCEPT ![f] = "fresh"]
  BY ServerAssumption
  DEF Types, ThreadsOK, Threads, ServerAssumption, Accept, Accepting, Goto, poolVars
<1>2. /\ orphaned \subseteq orphaned'
      /\ \A w \in Workers : at[w] = "clear" /\ request[w] = f => c \in orphaned'
  BY DEF Accept, UsedAt
<1>3. /\ sock'[f] = c /\ epoll'[f] = "in" /\ timer'[f] = "fresh"
      /\ \A g \in Fds : g # f =>
           sock'[g] = sock[g] /\ epoll'[g] = epoll[g] /\ timer'[g] = timer[g]
  BY <1>1 DEF Types, ObjectsOK, LoopOK
<1>4. BatchRight'
  BY <1>1, <1>3 DEF KernelRight, BatchRight
<1>5. ReferRight'
  <2>1. \A g \in Fds : sock'[g] \notin Stray' => g \in attached'
    BY <1>1, <1>2, <1>3 DEF KernelRight, ReferRight, Stray
  <2>2. ASSUME NEW w \in Workers, at'[w] = "clear"
        PROVE  sock'[request'[w]] \in Stray'
    <3>1. w \in Threads /\ w # Main /\ Obj(w) = request[w]
      BY ServerAssumption DEF ServerAssumption, Threads, Obj
    <3>2. request[w] \in Fds
      BY <1>1, <2>2, <3>1, HeldObject
    <3> QED
      BY <1>1, <1>2, <1>3, <2>2, <3>2 DEF KernelRight, ReferRight, Stray
  <2> QED
    BY <1>1, <2>1, <2>2 DEF ReferRight
<1>6. NodeRight'
  <2> SUFFICES ASSUME NEW g \in Fds, timer'[g] = "none"
               PROVE  /\ g \notin attached' \/ sock'[g] = None
                      /\ sock'[g] \notin orphaned' => ~(Reported(g))'
    BY <1>1 DEF NodeRight
  <2>1. g # f /\ timer[g] = "none" /\ sock'[g] = sock[g]
    BY <1>3
  <2> QED
    BY <1>1, <1>2, <2>1 DEF KernelRight, NodeRight, Reported
<1> QED
  BY <1>4, <1>5, <1>6 DEF KernelRight

\* tick() takes a due node away, with no event of the batch left.
LEMMA TickKernel ==
  ASSUME Types, KernelRight, NEW f \in Fds, TickOne(f)
  PROVE  KernelRight'
<1>1. /\ at[Main] = "tick" /\ at'[Main] = "close" /\ mainfd' = f /\ batch = {}
      /\ \A w \in Workers : at'[w] = at[w]
      /\ UNCHANGED <<request, epoll, sock, attached, batch, orphaned>>
      /\ timer' = [timer EXCEPT ![f] = "none"]
  BY ServerAssumption
  DEF Types, ThreadsOK, Threads, ServerAssumption, TickOne, Goto, poolVars, clientVars, pastVars,
      KernelRight, BatchRight
<1>2. \A g \in Fds : g # f => timer'[g] = timer[g]
  BY <1>1 DEF Types, LoopOK
<1>3. BatchRight'
  BY <1>1 DEF KernelRight, BatchRight
<1>4. ReferRight'
  BY <1>1 DEF KernelRight, ReferRight, Stray
<1>5. NodeRight'
  BY <1>1, <1>2 DEF KernelRight, NodeRight, Reported
<1> QED
  BY <1>3, <1>4, <1>5 DEF KernelRight

\* close_conn(), of any thread: a descriptor whose node is gone is closed by
\* tick() alone, for no other object refers to it.
LEMMA CloseKernel ==
  ASSUME Types, KernelRight, NEW t \in Threads, Close(t)
  PROVE  KernelRight'
<1> DEFINE f == Obj(t)
<1>0. /\ Main \in Threads /\ Main \notin Workers /\ Workers \subseteq Threads
      /\ at \in [Threads -> MainPlaces \cup WorkerPlaces] /\ Obj(Main) = mainfd
      /\ \A w \in Workers : Obj(w) = request[w]
  BY ServerAssumption DEF Types, ThreadsOK, Threads, ServerAssumption, Obj
<1>1. UNCHANGED <<request, batch, mainfd, timer, orphaned>>
  BY DEF Close, CloseCheck, CloseRemove, CloseClear, CloseCount, poolVars, loopVars, clientVars,
         pastVars
<1>2. ASSUME NEW w \in Workers, at[w] = "clear"
      PROVE  request[w] \in Fds
  BY <1>0, <1>2, HeldObject
<1>3. CASE CloseCheck(t)
  <2>1. /\ UNCHANGED <<sock, epoll, attached>>
        /\ at[t] = "close"
        /\ at' = [at EXCEPT ![t] = IF f \in attached THEN "remove" ELSE
                                   IF t = Main THEN "dispatch" ELSE "rearm_out"]
    BY <1>3 DEF CloseCheck, CloseReturn, Goto, clientVars
  <2>2. /\ at'[t] # "clear" /\ \A u \in Threads : u # t => at'[u] = at[u]
        /\ at'[Main] \in {"tick", "epoll_wait"} => at'[Main] = at[Main]
    BY <1>0, <2>1
  <2>3. BatchRight'
    BY <1>1, <2>1, <2>2 DEF KernelRight, BatchRight
  <2>4. ReferRight'
    BY <1>0, <1>1, <2>1, <2>2 DEF KernelRight, ReferRight, Stray
  <2>5. NodeRight'
    <3> SUFFICES ASSUME NEW g \in Fds, timer[g] = "none"
                 PROVE  /\ \/ g \notin attached \/ sock[g] = None
                           \/ mainfd = g /\ at'[Main] \in {"close", "remove"} /\ batch = {}
                        /\ sock[g] \notin orphaned =>
                             /\ ~Reported(g)
                             /\ at'[Main] \in {"append_read", "append_write", "write", "reset"}
                                  => mainfd # g
      BY <1>1, <2>1 DEF NodeRight, Reported
    <3>1. CASE t = Main
      BY <1>0, <2>1, <3>1 DEF KernelRight, NodeRight
    <3>2. CASE t # Main
      BY <1>0, <2>2, <3>2 DEF KernelRight, NodeRight
    <3> QED
      BY <3>1, <3>2
  <2> QED
    BY <2>3, <2>4, <2>5 DEF KernelRight
<1>4. CASE CloseRemove(t)
  <2>1. /\ attached' = attached
        /\ at[t] = "remove" /\ at' = [at EXCEPT ![t] = "clear"] /\ f \in Fds
        /\ \/ /\ f \in attached /\ sock[f] # None
              /\ sock' = [sock EXCEPT ![f] = None] /\ epoll' = [epoll EXCEPT ![f] = "off"]
           \/ (f \notin attached \/ sock[f] = None) /\ UNCHANGED <<sock, epoll>>
    BY <1>0, <1>4, HeldObject DEF CloseRemove, Goto, HoldPlaces
  <2>2. /\ at'[t] = "clear" /\ \A u \in Threads : u # t => at'[u] = at[u]
    BY <1>0, <2>1
  <2>3. /\ sock'[f] \in Stray
        /\ \A g \in Fds : g # f => sock'[g] = sock[g] /\ epoll'[g] = epoll[g]
        /\ \A g \in Fds : sock'[g] = None <=> epoll'[g] = "off"
        /\ \A g \in Fds : sock'[g] = sock[g] \/ (sock'[g] = None /\ g = f /\ f \in attached)
    BY <2>1 DEF Types, ObjectsOK, KernelRight, BatchRight, ReferRight, Stray
  <2> HIDE DEF f
  <2>4. BatchRight'
    BY <1>0, <1>1, <2>2, <2>3 DEF KernelRight, BatchRight
  <2>5. ReferRight'
    <3>1. \A g \in Fds : sock'[g] \notin Stray => g \in attached
      BY <2>3 DEF KernelRight, ReferRight, Stray
    <3>2. ASSUME NEW w \in Workers, at'[w] = "clear"
          PROVE  sock'[request[w]] \in Stray
      <4>1. CASE w = t
        BY <1>0, <2>3, <4>1 DEF f
      <4>2. CASE w # t
        <5>1. at[w] = "clear" /\ request[w] \in Fds
          BY <1>0, <1>2, <2>2, <3>2, <4>2
        <5> QED
          BY <2>3, <5>1 DEF KernelRight, ReferRight, Stray
      <4> QED
        BY <4>1, <4>2
    <3>3. at'[Main] = "clear" => sock'[mainfd] \in Stray
      <4>1. CASE Main = t
        BY <1>0, <2>3, <4>1 DEF f
      <4>2. CASE Main # t
        BY <1>0, <2>2, <2>3, <4>2
        DEF KernelRight, ReferRight, Stray, Types, LoopOK, HoldPlaces
      <4> QED
        BY <4>1, <4>2
    <3> QED
      BY <1>1, <2>1, <3>1, <3>2, <3>3 DEF ReferRight, Stray
  <2>6. NodeRight'
    <3> SUFFICES ASSUME NEW g \in Fds, timer[g] = "none"
                 PROVE  /\ \/ g \notin attached \/ sock'[g] = None
                           \/ mainfd = g /\ at'[Main] \in {"close", "remove"} /\ batch = {}
                        /\ sock'[g] \notin orphaned =>
                             /\ ~Reported(g)
                             /\ at'[Main] \in {"append_read", "append_write", "write", "reset"}
                                  => mainfd # g
      BY <1>1, <2>1 DEF NodeRight, Reported
    <3>1. /\ \/ g \notin attached \/ sock[g] = None
             \/ mainfd = g /\ at[Main] \in {"close", "remove"} /\ batch = {}
          /\ sock[g] \notin orphaned =>
               /\ ~Reported(g)
               /\ at[Main] \in {"append_read", "append_write", "write", "reset"} => mainfd # g
      BY DEF KernelRight, NodeRight
    <3>2. at'[Main] = at[Main] \/ (t = Main /\ at[Main] = "remove" /\ at'[Main] = "clear")
      BY <1>0, <2>1, <2>2
    <3>3. CASE sock'[g] = sock[g] /\ t # Main
      BY <1>0, <2>2, <3>1, <3>3
    <3>4. CASE sock'[g] = sock[g] /\ t = Main
      <4>1. mainfd = g => g \notin attached \/ sock[g] = None
        BY <1>0, <2>1, <3>4 DEF f, Types, ObjectsOK
      <4> QED
        BY <2>2, <3>1, <3>4, <4>1
    <3>5. CASE sock'[g] # sock[g]
      <4>1. sock'[g] = None /\ g = f /\ f \in attached /\ sock[f] # None
        BY <2>3, <3>5
      <4>2. mainfd = g /\ at[Main] \in {"close", "remove"} /\ batch = {}
        BY <3>1, <4>1
      <4> QED
        BY <3>2, <4>1, <4>2 DEF Reported
    <3> QED
      BY <3>3, <3>4, <3>5
  <2> QED
    BY <2>4, <2>5, <2>6 DEF KernelRight
<1>5. CASE CloseClear(t)
  <2>1. /\ UNCHANGED <<sock, epoll>> /\ attached' = attached \ {f} /\ f \in Fds
        /\ at[t] = "clear" /\ at' = [at EXCEPT ![t] = "count_down"]
    BY <1>0, <1>5, HeldObject DEF CloseClear, Goto, HoldPlaces, clientVars
  <2>2. /\ at'[t] = "count_down" /\ \A u \in Threads : u # t => at'[u] = at[u]
        /\ sock[f] \in Stray
    BY <1>0, <2>1 DEF KernelRight, ReferRight, Threads
  <2> HIDE DEF f
  <2>3. BatchRight'
    BY <1>0, <1>1, <2>1, <2>2 DEF KernelRight, BatchRight
  <2>4. ReferRight'
    BY <1>0, <1>1, <2>1, <2>2 DEF KernelRight, ReferRight, Stray
  <2>5. NodeRight'
    BY <1>0, <1>1, <2>1, <2>2 DEF KernelRight, NodeRight, Reported
  <2> QED
    BY <2>3, <2>4, <2>5 DEF KernelRight
<1>6. CASE CloseCount(t)
  <2>1. /\ UNCHANGED <<sock, epoll, attached>> /\ at[t] = "count_down"
        /\ at' = [at EXCEPT ![t] = IF t = Main THEN "dispatch" ELSE "rearm_out"]
    BY <1>6 DEF CloseCount, CloseReturn, Goto, clientVars
  <2>2. /\ at'[t] \in {"dispatch", "rearm_out"} /\ \A u \in Threads : u # t => at'[u] = at[u]
    BY <1>0, <2>1
  <2>3. BatchRight'
    BY <1>0, <1>1, <2>1, <2>2 DEF KernelRight, BatchRight
  <2>4. ReferRight'
    BY <1>0, <1>1, <2>1, <2>2 DEF KernelRight, ReferRight, Stray
  <2>5. NodeRight'
    BY <1>0, <1>1, <2>1, <2>2 DEF KernelRight, NodeRight, Reported
  <2> QED
    BY <2>3, <2>4, <2>5 DEF KernelRight
<1> QED
  BY <1>3, <1>4, <1>5, <1>6 DEF Close

\* A worker goes on and closes nothing.
LEMMA WorkerKernel ==
  ASSUME Types, KernelRight, NEW w \in Workers,
         WorkerStep(w) \/ WorkerInterrupted(w), ~Close(w)
  PROVE  KernelRight'
<1>0. /\ w \in Threads /\ w # Main /\ Obj(w) = request[w]
      /\ at \in [Threads -> MainPlaces \cup WorkerPlaces]
      /\ epoll \in [Fds -> {"off", "in", "out", "spent"}]
      /\ request \in [Workers -> Fds \cup {None}]
  BY ServerAssumption DEF Types, ThreadsOK, ObjectsOK, Threads, ServerAssumption, Obj, Pool!TypeOK
<1>1. /\ at'[Main] = at[Main] /\ \A v \in Workers \ {w} : at'[v] = at[v]
      /\ UNCHANGED <<batch, timer, mainfd>>
  BY WorkerFrame
<1>2. UNCHANGED <<sock, attached, orphaned>>
  BY DEF WorkerStep, WorkerInterrupted, WorkerWakes, WorkerTakes, WorkerRuns, WorkerReads,
         Process, ProcessWrite, Rearm, WorkerDone, Write, WriteNothing, WriteSome, WriteError,
         WriteReset, clientVars, pastVars
<1>3. epoll' = epoll \/ \E ev \in {"in", "out"} : Modfd(request[w], ev)
  BY <1>0
  DEF WorkerStep, WorkerInterrupted, WorkerWakes, WorkerTakes, WorkerRuns, WorkerReads,
      Process, ProcessWrite, Rearm, WorkerDone, Write, WriteNothing, WriteSome, WriteError,
      WriteReset
<1>4. \A f \in Fds : epoll'[f] = "off" <=> epoll[f] = "off"
  BY <1>0, <1>3 DEF Modfd
<1>5. at'[w] = "clear" => at[w] = "clear" /\ request' = request
  <2>1. CASE Write(w)
    <3>1. Goto(w, "done") \/ Goto(w, "reset")
      BY <1>0, <2>1 DEF Write, WriteNothing, WriteSome, WriteError, WriteReset, WriteReturns
    <3> QED
      BY <1>0, <3>1 DEF Goto
  <2>2. CASE WorkerWakes(w) \/ WorkerInterrupted(w)
    BY <2>2 DEF WorkerWakes, WorkerInterrupted, Pool!Wake, Pool!Interrupted
  <2>3. CASE WorkerTakes(w)
    BY <1>0, <2>3 DEF WorkerTakes, Pool!Take
  <2>4. CASE Process(w)
    <3>1. Goto(w, "rearm_in") \/ Goto(w, "close") \/ Goto(w, "prepare")
      BY <2>4 DEF Process
    <3> QED
      BY <1>0, <3>1 DEF Goto
  <2>5. CASE WorkerRuns(w) \/ WorkerReads(w) \/ ProcessWrite(w) \/ Rearm(w) \/ WorkerDone(w)
    BY <1>0, <2>5 DEF WorkerRuns, WorkerReads, ProcessWrite, Rearm, WorkerDone, Goto
  <2> QED
    BY <2>1, <2>2, <2>3, <2>4, <2>5 DEF WorkerStep
<1>6. \A v \in Workers \ {w} : request'[v] = request[v]
  BY <1>0
  DEF WorkerStep, WorkerInterrupted, WorkerWakes, WorkerTakes, WorkerRuns, WorkerReads,
      Process, ProcessWrite, Rearm, WorkerDone, Write, WriteNothing, WriteSome, WriteError,
      WriteReset, poolVars, Pool!Wake, Pool!Interrupted, Pool!Take, Pool!Finish
<1>7. BatchRight'
  BY <1>1, <1>2, <1>4 DEF KernelRight, BatchRight
<1>8. ReferRight'
  BY <1>1, <1>2, <1>5, <1>6 DEF KernelRight, ReferRight, Stray
<1>9. NodeRight'
  BY <1>1, <1>2 DEF KernelRight, NodeRight, Reported
<1> QED
  BY <1>7, <1>8, <1>9 DEF KernelRight

\* adjust_timer() makes no node and takes none away.
LEMMA AdjustedNodes ==
  ASSUME Types, NEW f
  PROVE  \A g \in Fds : Adjusted(f)[g] = "none" <=> timer[g] = "none"
BY DEF Adjusted, Types, LoopOK

\* The event loop writes.
LEMMA WriteKernel ==
  ASSUME Types, KernelRight, Write(Main)
  PROVE  KernelRight'
<1>1. Main \in Threads /\ Obj(Main) = mainfd
  BY DEF Threads, Obj
<1>2. /\ at[Main] \in {"write", "reset"}
      /\ UNCHANGED <<batch, mainfd, sock, attached, request, orphaned>>
  BY DEF Write, WriteNothing, WriteSome, WriteError, WriteReset, poolVars, loopVars, clientVars,
         pastVars
<1>3. PICK p \in {"dispatch", "close", "reset"} : at' = [at EXCEPT ![Main] = p]
  <2>1. Goto(Main, "dispatch") \/ Goto(Main, "close") \/ Goto(Main, "reset")
    BY DEF Write, WriteNothing, WriteSome, WriteError, WriteReset, WriteReturns
  <2> QED
    BY <2>1 DEF Goto
<1>4. timer' = timer \/ timer' = Adjusted(mainfd)
  BY DEF Write, WriteNothing, WriteSome, WriteError, WriteReset, WriteReturns, loopVars
<1>5. epoll' = epoll \/ Modfd(mainfd, "in") \/ Modfd(mainfd, "out")
  BY <1>1 DEF Write, WriteNothing, WriteSome, WriteError, WriteReset
<1>6. \A f \in Fds : (epoll'[f] = "off" <=> epoll[f] = "off")
                     /\ (timer'[f] = "none" <=> timer[f] = "none")
  BY <1>4, <1>5, AdjustedNodes DEF Modfd, Types, ObjectsOK
<1> QED
  BY <1>2, <1>3, <1>6, MainKernel

\* The event loop takes an event of a descriptor out of the batch.
LEMMA HandleKernel ==
  ASSUME Types, KernelRight, NEW f \in Fds,
         HandleHup(f) \/ DealWithRead(f) \/ DealWithWrite(f)
  PROVE  KernelRight'
<1>1. PICK k \in {"hup", "in", "out"} : Handle(<<k, f>>)
  BY DEF HandleHup, DealWithRead, DealWithWrite
<1>2. /\ at[Main] = "dispatch" /\ Reported(f) /\ batch' \subseteq batch /\ mainfd' = f
      /\ UNCHANGED <<epoll, timer, sock, attached, request, orphaned>>
  BY <1>1
  DEF HandleHup, DealWithRead, DealWithWrite, Handle, Reported, poolVars, clientVars, pastVars
<1>3. PICK p \in {"close", "append_read", "append_write", "write"} :
        at' = [at EXCEPT ![Main] = p]
  <2>1. \/ Goto(Main, "close") \/ Goto(Main, "append_read") \/ Goto(Main, "append_write")
        \/ Goto(Main, "write")
    BY DEF HandleHup, DealWithRead, DealWithWrite
  <2> QED
    BY <2>1 DEF Goto
<1> QED
  BY <1>2, <1>3, MainKernel

\* Every step keeps descriptors, objects and timers in order.
LEMMA KernelInductive == Types /\ KernelRight /\ [Next]_vars => KernelRight'
<1> SUFFICES ASSUME Types, KernelRight, [Next]_vars PROVE KernelRight'
  OBVIOUS
<1>1. CASE UNCHANGED vars \/ ClientStep \/ AlarmFires
  BY <1>1, SameKernel
  DEF vars, ClientStep, Connect, Send, Hangup, AlarmFires, kernelVars, loopVars, poolVars,
      clientVars, pastVars
<1>2. ASSUME NEW f \in Fds, Expire(f)
      PROVE  KernelRight'
  <2>1. /\ UNCHANGED <<at, batch, epoll, sock, attached, mainfd, request, orphaned>>
        /\ \A g \in Fds : timer'[g] = "none" <=> timer[g] = "none"
    BY <1>2 DEF Expire, poolVars, clientVars, pastVars, Types, LoopOK
  <2> QED
    BY <2>1 DEF KernelRight, BatchRight, ReferRight, NodeRight, Stray, Reported
<1>3. CASE MainStep
  <2>1. CASE AcceptFails \/ AcceptRefuses
    <3>1. /\ at[Main] \in {"dispatch", "accept"} /\ batch' \subseteq batch
          /\ UNCHANGED <<epoll, timer, sock, attached, request, orphaned>>
      BY <2>1
      DEF AcceptFails, AcceptRefuses, Accepting, poolVars, clientVars, pastVars
    <3>2. PICK p \in {"dispatch"} : at' = [at EXCEPT ![Main] = p]
      BY <2>1 DEF AcceptFails, AcceptRefuses, Goto
    <3> QED
      BY <3>1, <3>2, MainKernel
  <2>2. CASE CountUp \/ PostRequest \/ EndBatch \/ TickEnd
    <3>1. PICK p \in {"epoll_wait", "dispatch", "accept", "tick"} :
            at' = [at EXCEPT ![Main] = p] /\ (p \in {"tick", "epoll_wait"} => batch' = {})
      BY <2>2
      DEF CountUp, PostRequest, EndBatch, TickEnd, Goto, loopVars, KernelRight, BatchRight
    <3>2. /\ at[Main] \in {"count_up", "post", "dispatch", "tick"} /\ batch' = batch
          /\ UNCHANGED <<epoll, timer, sock, attached, request, orphaned>>
      BY <2>2
      DEF CountUp, PostRequest, EndBatch, TickEnd, loopVars, poolVars, clientVars, pastVars,
          Pool!Post
    <3> QED
      BY <3>1, <3>2, MainKernel
  <2>3. CASE DealWithSignal
    <3>1. /\ at[Main] = "dispatch" /\ at' = at /\ batch' \subseteq batch
          /\ UNCHANGED <<epoll, timer, sock, attached, request, orphaned>>
      BY <2>3 DEF DealWithSignal, Handle, poolVars, clientVars, pastVars
    <3>2. at' = [at EXCEPT ![Main] = "dispatch"]
      BY <3>1 DEF Types, ThreadsOK
    <3> QED
      BY <3>1, <3>2, MainKernel
  <2>4. CASE AppendRequest
    <3>1. /\ at[Main] \in {"append_read", "append_write"} /\ batch' = batch
          /\ UNCHANGED <<epoll, sock, attached, request, orphaned>>
          /\ timer' = Adjusted(mainfd)
      BY <2>4 DEF AppendRequest, Pool!Enqueue, clientVars, pastVars
    <3>2. PICK p \in {"dispatch", "post"} : at' = [at EXCEPT ![Main] = p]
      BY <2>4 DEF AppendRequest, Goto
    <3>3. \A f \in Fds : timer'[f] = "none" <=> timer[f] = "none"
      BY <3>1, AdjustedNodes
    <3> QED
      BY <3>1, <3>2, <3>3, MainKernel
  <2>5. CASE Close(Main)
    BY <2>5, CloseKernel DEF Threads
  <2> QED
    BY <1>3, <2>1, <2>2, <2>3, <2>4, <2>5, WaitKernel, AcceptKernel, HandleKernel, TickKernel,
       WriteKernel
    DEF MainStep
<1>4. ASSUME NEW w \in Workers, WorkerStep(w) \/ WorkerInterrupted(w)
      PROVE  KernelRight'
  BY <1>4, WorkerKernel, CloseKernel DEF Threads
<1> QED
  BY <1>1, <1>2, <1>3, <1>4 DEF Next

\* At the start no descriptor is open.
LEMMA KernelInitially == Init => KernelRight
<1> SUFFICES ASSUME Init PROVE KernelRight
  OBVIOUS
<1>1. /\ at[Main] = "epoll_wait" /\ batch = {} /\ attached = {}
      /\ \A f \in Fds : epoll[f] = "off" /\ sock[f] = None
      /\ \A w \in Workers : at[w] = "idle"
  BY ServerAssumption DEF ServerAssumption, Threads, Init
<1> QED
  BY <1>1 DEF KernelRight, BatchRight, ReferRight, NodeRight, Stray, Reported

\* What the theorems below have in common.
LEMMA KernelInvariant == Spec => [](Types /\ KernelRight)
<1>1. Init => Types /\ KernelRight
  BY TypesInitially, KernelInitially
<1>2. Types /\ KernelRight /\ [Next]_vars => (Types /\ KernelRight)'
  BY TypesInductive, KernelInductive
<1> QED
  BY <1>1, <1>2, PTL DEF Spec

-----------------------------------------------------------------------------
(* Connections that were told they would be closed, whatever the setting.   *)

\* In the proactor workers neither read nor write, and a client that has its
\* last response is closed or about to be.
ToldRight ==
  ~Reactor =>
    /\ toldClose \subseteq Conns
    /\ at[Main] # "append_write"
    /\ \A w \in Workers : at[w] \notin {"run", "read", "write", "reset"}
    /\ \A c \in toldClose \ orphaned :
         \/ peer[c] = "closed"
         \/ mainfd \in Fds /\ sock[mainfd] = c /\ at[Main] \in {"close", "remove"}

\* The event loop closes the connection it has told so.
LEMMA CloseTold ==
  ASSUME Types, KernelRight, ToldRight, ~Reactor, NEW t \in Threads, Close(t)
  PROVE  ToldRight'
<1> DEFINE f == Obj(t)
<1>0. /\ Main \in Threads /\ Main \notin Workers /\ Workers \subseteq Threads
      /\ at \in [Threads -> MainPlaces \cup WorkerPlaces] /\ Obj(Main) = mainfd
      /\ peer \in [Conns -> PeerState] /\ sock \in [Fds -> Conns \cup {None}]
      /\ None \notin Conns
  BY ServerAssumption
  DEF Types, ThreadsOK, ClientsOK, ObjectsOK, Threads, ServerAssumption, Obj
<1>1. UNCHANGED <<toldClose, orphaned, mainfd>>
  BY DEF Close, CloseCheck, CloseRemove, CloseClear, CloseCount, loopVars, clientVars, pastVars
<1>2. PICK p \in {"dispatch", "rearm_out", "remove", "clear", "count_down"} :
        /\ at' = [at EXCEPT ![t] = p]
        /\ t = Main => p # "rearm_out"
  BY DEF Close, CloseCheck, CloseRemove, CloseClear, CloseCount, CloseReturn, Goto
<1>3. \/ UNCHANGED <<peer, sock>>
      \/ /\ CloseRemove(t) /\ f \in Fds /\ sock[f] \in Conns
         /\ peer' = [peer EXCEPT ![sock[f]] = "closed"]
         /\ sock' = [sock EXCEPT ![f] = None]
  <2>1. CASE CloseRemove(t)
    <3>1. f \in Fds
      BY <1>0, <2>1, HeldObject DEF CloseRemove, HoldPlaces
    <3> QED
      BY <1>0, <2>1, <3>1 DEF CloseRemove
  <2> QED
    BY <2>1 DEF Close, CloseCheck, CloseClear, CloseCount, clientVars
<1>4. ASSUME NEW c \in toldClose \ orphaned
      PROVE  \/ peer'[c] = "closed"
             \/ sock'[mainfd] = c /\ at'[Main] \in {"close", "remove"} /\ mainfd \in Fds
  <2>0. c \in Conns
    BY DEF ToldRight
  <2>1. CASE peer[c] = "closed"
    BY <1>0, <1>3, <2>0, <2>1
  <2>2. CASE sock[mainfd] = c /\ at[Main] \in {"close", "remove"} /\ mainfd \in Fds
    <3>1. mainfd \in attached
      BY <1>0, <2>0, <2>2 DEF KernelRight, ReferRight, Stray
    <3>2. CASE t = Main
      <4>1. CASE CloseCheck(Main)
        BY <1>0, <2>2, <3>1, <4>1 DEF CloseCheck, Goto, clientVars
      <4>2. CASE CloseRemove(Main)
        BY <1>0, <2>0, <2>2, <3>1, <4>2 DEF CloseRemove
      <4> QED
        BY <2>2, <3>2, <4>1, <4>2 DEF Close, CloseClear, CloseCount
    <3>3. CASE t # Main
      <4>1. at'[Main] = at[Main]
        BY <1>0, <1>2, <3>3
      <4>2. peer'[c] = "closed" \/ sock'[mainfd] = c
        BY <1>0, <1>3, <2>0, <2>2
      <4> QED
        BY <2>2, <4>1, <4>2
    <3> QED
      BY <3>2, <3>3
  <2> QED
    BY <2>1, <2>2 DEF ToldRight
<1>5. /\ at'[Main] # "append_write"
      /\ \A w \in Workers : at'[w] \notin {"run", "read", "write", "reset"}
  BY <1>0, <1>2 DEF ToldRight
<1> QED
  BY <1>1, <1>4, <1>5 DEF ToldRight

\* The event loop goes on after all that it has told so are closed.
LEMMA MainTold ==
  ASSUME Types, ToldRight, ~Reactor, at[Main] \notin {"close", "remove"},
         NEW p, p # "append_write", at' = [at EXCEPT ![Main] = p],
         toldClose' = toldClose, orphaned \subseteq orphaned',
         \A c \in Conns : peer[c] = "closed" => peer'[c] = "closed"
  PROVE  ToldRight'
BY ServerAssumption DEF ToldRight, Types, ThreadsOK, Threads, ServerAssumption

\* The event loop writes, and goes to close after a last response.
LEMMA WriteTold ==
  ASSUME Types, ToldRight, ~Reactor, Write(Main)
  PROVE  ToldRight'
<1>0. /\ Main \in Threads /\ Main \notin Workers /\ Workers \subseteq Threads
      /\ at \in [Threads -> MainPlaces \cup WorkerPlaces] /\ Obj(Main) = mainfd
      /\ at[Main] \in {"write", "reset"}
      /\ UNCHANGED <<peer, orphaned, sock, mainfd>>
  BY ServerAssumption
  DEF Types, ThreadsOK, Threads, ServerAssumption, Obj, Write, WriteNothing, WriteSome,
      WriteError, WriteReset, clientVars, pastVars, loopVars
<1>1. PICK p \in {"dispatch", "close", "reset"} : at' = [at EXCEPT ![Main] = p]
  <2>1. Goto(Main, "dispatch") \/ Goto(Main, "close") \/ Goto(Main, "reset")
    BY DEF Write, WriteNothing, WriteSome, WriteError, WriteReset, WriteReturns
  <2> QED
    BY <2>1 DEF Goto
<1>2. \/ toldClose' = toldClose
      \/ /\ toldClose' = toldClose \cup {sock[mainfd]} /\ WriteReturns(Main, FALSE)
         /\ mainfd \in Fds /\ sock[mainfd] \in Conns
  <2>1. CASE WriteSome(Main)
    <3>1. mainfd \in Fds /\ sock[mainfd] \in Conns
      BY <1>0, <2>1 DEF WriteSome, Types, ObjectsOK
    <3> QED
      BY <1>0, <2>1, <3>1 DEF WriteSome
  <2> QED
    BY <2>1 DEF Write, WriteNothing, WriteError, WriteReset, clientVars
<1>3. CASE toldClose' = toldClose
  BY <1>0, <1>1, <1>3, MainTold
<1>4. CASE toldClose' = toldClose \cup {sock[mainfd]} /\ WriteReturns(Main, FALSE)
           /\ mainfd \in Fds /\ sock[mainfd] \in Conns
  <2>1. at'[Main] = "close" /\ \A w \in Workers : at'[w] = at[w]
    BY <1>0, <1>4 DEF WriteReturns, Goto
  <2> QED
    BY <1>0, <1>4, <2>1 DEF ToldRight
<1> QED
  BY <1>2, <1>3, <1>4

\* Every step keeps what the event loop has told in order.
LEMMA ToldInductive == Types /\ KernelRight /\ ToldRight /\ [Next]_vars => ToldRight'
<1> SUFFICES ASSUME Types, KernelRight, ToldRight, [Next]_vars, ~Reactor PROVE ToldRight'
  BY DEF ToldRight
<1>0. /\ Main \in Threads /\ Main \notin Workers /\ Workers \subseteq Threads
      /\ at \in [Threads -> MainPlaces \cup WorkerPlaces]
      /\ peer \in [Conns -> PeerState]
  BY ServerAssumption DEF Types, ThreadsOK, ClientsOK, Threads, ServerAssumption
<1>1. ASSUME UNCHANGED <<toldClose, orphaned, mainfd, sock, at>>,
             \A c \in Conns : peer[c] = "closed" => peer'[c] = "closed"
      PROVE  ToldRight'
  BY <1>1 DEF ToldRight
<1>2. CASE UNCHANGED vars \/ AlarmFires \/ \E f \in Fds : Expire(f)
  BY <1>1, <1>2 DEF vars, AlarmFires, Expire, clientVars, pastVars, loopVars
<1>3. CASE ClientStep
  <2>1. \A c \in Conns : peer[c] = "closed" => peer'[c] = "closed"
    BY <1>0, <1>3 DEF ClientStep, Connect, Send, Hangup
  <2> QED
    BY <1>1, <1>3, <2>1 DEF ClientStep, Connect, Send, Hangup, pastVars, loopVars
<1>4. CASE MainStep
  <2>1. CASE EpollWait \/ AcceptFails \/ AcceptRefuses \/ CountUp
    <3>1. PICK p \in {"dispatch", "accept"} : at' = [at EXCEPT ![Main] = p]
      BY <2>1 DEF EpollWait, AcceptFails, AcceptRefuses, CountUp, Goto
    <3>2. /\ at[Main] \in {"epoll_wait", "dispatch", "accept", "count_up"}
          /\ toldClose' = toldClose /\ orphaned' = orphaned
          /\ \A c \in Conns : peer[c] = "closed" => peer'[c] = "closed"
      BY <1>0, <2>1
      DEF EpollWait, AcceptFails, AcceptRefuses, CountUp, Accepting, Backlog, clientVars, pastVars
    <3> QED
      BY <3>1, <3>2, MainTold
  <2>2. CASE DealWithSignal \/ EndBatch \/ TickEnd \/ PostRequest
    <3>1. PICK p \in {"dispatch", "epoll_wait", "tick"} : at' = [at EXCEPT ![Main] = p]
      <4>1. CASE DealWithSignal
        BY <1>0, <4>1 DEF DealWithSignal, Handle
      <4> QED
        BY <2>2, <4>1 DEF EndBatch, TickEnd, PostRequest, Goto
    <3>2. /\ at[Main] \in {"dispatch", "tick", "post"}
          /\ toldClose' = toldClose /\ orphaned' = orphaned /\ peer' = peer
      BY <2>2 DEF DealWithSignal, EndBatch, TickEnd, PostRequest, Handle, clientVars, pastVars
    <3> QED
      BY <3>1, <3>2, MainTold
  <2>3. CASE AppendRequest
    <3>1. PICK p \in {"dispatch", "post"} : at' = [at EXCEPT ![Main] = p]
      BY <2>3 DEF AppendRequest, Goto
    <3>2. /\ at[Main] \in {"append_read", "append_write"}
          /\ toldClose' = toldClose /\ orphaned' = orphaned /\ peer' = peer
      BY <2>3 DEF AppendRequest, clientVars, pastVars
    <3> QED
      BY <3>1, <3>2, MainTold
  <2>4. ASSUME NEW f \in Fds,
               HandleHup(f) \/ DealWithRead(f) \/ DealWithWrite(f) \/ TickOne(f)
        PROVE  ToldRight'
    <3>1. PICK p \in {"close", "append_read", "write"} : at' = [at EXCEPT ![Main] = p]
      BY <2>4 DEF HandleHup, DealWithRead, DealWithWrite, TickOne, Goto
    <3>2. /\ at[Main] \in {"dispatch", "tick"}
          /\ toldClose' = toldClose /\ orphaned' = orphaned /\ peer' = peer
      BY <2>4 DEF HandleHup, DealWithRead, DealWithWrite, TickOne, Handle, clientVars, pastVars
    <3> QED
      BY <3>1, <3>2, MainTold
  <2>5. ASSUME NEW f \in Fds, NEW c \in Conns, Accept(c, f)
        PROVE  ToldRight'
    <3>1. PICK p \in {"count_up"} : at' = [at EXCEPT ![Main] = p]
      BY <2>5 DEF Accept, Goto
    <3>2. /\ at[Main] \in {"dispatch", "accept"}
          /\ toldClose' = toldClose /\ orphaned \subseteq orphaned'
          /\ \A d \in Conns : peer[d] = "closed" => peer'[d] = "closed"
      BY <1>0, <2>5 DEF Accept, Accepting, UsedAt
    <3> QED
      BY <3>1, <3>2, MainTold
  <2> QED
    BY <1>0, <1>4, <2>1, <2>2, <2>3, <2>4, <2>5, CloseTold, WriteTold DEF MainStep
<1>5. ASSUME NEW w \in Workers, WorkerStep(w) \/ WorkerInterrupted(w)
      PROVE  ToldRight'
  <2>0. w \in Threads /\ w # Main
    BY <1>0
  <2>1. CASE Close(w)
    BY <2>0, <2>1, CloseTold
  <2>2. CASE ~Close(w)
    <3>1. ~Write(w) /\ ~WorkerRuns(w) /\ ~WorkerReads(w)
      BY DEF ToldRight, Write, WriteNothing, WriteSome, WriteError, WriteReset, WorkerRuns,
             WorkerReads
    <3>2. UNCHANGED <<toldClose, orphaned, mainfd, sock, peer>>
      BY <1>5, <2>2, <3>1
      DEF WorkerStep, WorkerInterrupted, WorkerWakes, WorkerTakes, Process, ProcessWrite, Rearm,
          WorkerDone, clientVars, pastVars, loopVars
    <3>3. /\ at'[Main] = at[Main] /\ \A v \in Workers \ {w} : at'[v] = at[v]
      BY <1>5, WorkerFrame
    <3>4. at'[w] \notin {"run", "read", "write", "reset"}
      <4>1. CASE Process(w)
        <5>1. Goto(w, "rearm_in") \/ Goto(w, "close") \/ Goto(w, "prepare")
          BY <4>1 DEF Process
        <5> QED
          BY <1>0, <5>1 DEF Goto
      <4>2. CASE WorkerTakes(w) \/ WorkerWakes(w) \/ WorkerInterrupted(w)
        BY <1>0, <4>2
        DEF WorkerTakes, WorkerWakes, WorkerInterrupted, ToldRight
      <4>3. CASE ProcessWrite(w) \/ Rearm(w) \/ WorkerDone(w)
        BY <1>0, <4>3 DEF ProcessWrite, Rearm, WorkerDone, Goto
      <4> QED
        BY <1>5, <2>2, <3>1, <4>1, <4>2, <4>3 DEF WorkerStep
    <3> QED
      BY <3>2, <3>3, <3>4 DEF ToldRight
  <2> QED
    BY <2>1, <2>2
<1> QED
  BY <1>2, <1>3, <1>4, <1>5 DEF Next

\* At the start nobody has been told anything.
LEMMA ToldInitially == Init => ToldRight
<1> SUFFICES ASSUME Init PROVE ToldRight
  OBVIOUS
<1>1. at[Main] = "epoll_wait" /\ toldClose = {} /\ \A w \in Workers : at[w] = "idle"
  BY ServerAssumption DEF ServerAssumption, Threads, Init
<1> QED
  BY <1>1 DEF ToldRight

\* What the theorems below have in common.
LEMMA Invariant == Spec => [](Types /\ ContentRight /\ KernelRight /\ ToldRight)
<1>1. Init => Types /\ ContentRight /\ KernelRight /\ ToldRight
  BY TypesInitially, ContentInitially, KernelInitially, ToldInitially
<1>2. /\ Types /\ ContentRight /\ KernelRight /\ ToldRight
      /\ [Next]_vars
      => (Types /\ ContentRight /\ KernelRight /\ ToldRight)'
  BY TypesInductive, ContentInductive, KernelInductive, ToldInductive
<1> QED
  BY <1>1, <1>2, PTL DEF Spec

\* A connection that is not orphaned is kept, and one about to be told so is
\* about to be closed.
LEMMA KeptOrOrphaned ==
  ASSUME Types, KernelRight, NEW f \in Fds, sock[f] \notin orphaned
  PROVE  Kept(f) /\ (Adjusting(f) => timer[f] # "none")
<1>1. sock[f] # None => f \in attached
  BY DEF KernelRight, ReferRight, Stray
<1>2. timer[f] = "none" /\ f \in attached /\ sock[f] # None =>
        mainfd = f /\ at[Main] \in {"close", "remove"}
  BY DEF KernelRight, NodeRight
<1>3. Main \in Threads /\ Obj(Main) = mainfd
  BY DEF Threads, Obj
<1>4. Kept(f)
  BY <1>1, <1>2, <1>3 DEF Kept, Closing
<1>5. Adjusting(f) => timer[f] # "none"
  BY DEF Adjusting, KernelRight, NodeRight
<1> QED
  BY <1>4, <1>5

\* In every setting, with workers that close connections, requests that outlive
\* their timers, and the reactor's two workers on one object: harm comes only to
\* connections that took over a descriptor at one of the places where a worker
\* still uses the object it has lost: between process_read() and process_write(),
\* between removefd() and m_sockfd = -1, or in write() before init() has reset it.
THEOREM FailuresContained == Spec => []FailureContained
<1>1. Types /\ ContentRight /\ KernelRight /\ ToldRight => FailureContained
  <2> SUFFICES ASSUME Types, ContentRight, KernelRight, ToldRight PROVE FailureContained
    OBVIOUS
  <2>1. \A c \in Conns \ crossed : got[c] \subseteq {c}
    BY DEF ContentRight
  <2>2. \A f \in Fds : sock[f] \notin orphaned => Kept(f) /\ (Adjusting(f) => timer[f] # "none")
    BY KeptOrOrphaned
  <2>3. ~Reactor => \A c \in toldClose \ orphaned : Honoured(c)
    BY DEF ToldRight, Honoured, Closing, Threads, Obj
  <2> QED
    BY <2>1, <2>2, <2>3 DEF FailureContained
<1> QED
  BY <1>1, Invariant, PTL

-----------------------------------------------------------------------------
(* Responses that can be built: the event loop alone closes connections.    *)

NoFailure == "fail" \notin Outcomes

InHand(f) == at[Main] \in HoldPlaces /\ mainfd = f

\* No worker closes anything; the event loop has a descriptor out of the batch
\* and in its hands, or in the batch, and knows it is open.
HandRight ==
  /\ orphaned = {}
  /\ \A w \in Workers : at[w] \notin {"close", "remove", "clear", "count_down"}
  /\ \A f \in Fds : Reported(f) => sock[f] # None /\ ~InHand(f)
  /\ \A f \in Fds, k, l \in {"hup", "in", "out"} :
       <<k, f>> \in batch /\ <<l, f>> \in batch => k = l
  /\ at[Main] \in {"append_read", "append_write", "write", "reset", "remove"} =>
       sock[mainfd] # None
  /\ \A f \in Fds : f \in attached <=> sock[f] # None \/ (at[Main] = "clear" /\ mainfd = f)

\* Only the event loop closes: what no worker changes.
LEMMA WorkersCloseNothing ==
  ASSUME NoFailure, Types, HandRight, NEW w \in Workers, WorkerStep(w) \/ WorkerInterrupted(w)
  PROVE  /\ UNCHANGED <<batch, mainfd, timer, sock, attached, orphaned, peer, reg>>
         /\ m_user_count' = m_user_count
         /\ at'[Main] = at[Main] /\ \A v \in Workers \ {w} : at'[v] = at[v]
         /\ at'[w] \notin {"close", "remove", "clear", "count_down"}
         /\ toldClose \subseteq toldClose'
         /\ inbox' = inbox \/ at[w] = "read"
<1>0. /\ w \in Threads /\ w # Main
      /\ at \in [Threads -> MainPlaces \cup WorkerPlaces]
  BY ServerAssumption DEF Types, ThreadsOK, Threads, ServerAssumption
<1>1. ~Close(w)
  BY DEF HandRight, Close, CloseCheck, CloseRemove, CloseClear, CloseCount
<1>2. /\ UNCHANGED <<sock, attached, orphaned, peer, m_user_count, reg>>
      /\ toldClose \subseteq toldClose'
      /\ inbox' = inbox \/ at[w] = "read"
  BY <1>1
  DEF WorkerStep, WorkerInterrupted, WorkerWakes, WorkerTakes, WorkerRuns, WorkerReads,
      Process, ProcessWrite, Rearm, WorkerDone, Write, WriteNothing, WriteSome, WriteError,
      WriteReset, clientVars, pastVars
<1>3. at'[w] \notin {"close", "remove", "clear", "count_down"}
  <2>1. CASE Write(w)
    <3>1. Goto(w, "done") \/ Goto(w, "reset")
      BY <1>0, <2>1 DEF Write, WriteNothing, WriteSome, WriteError, WriteReset, WriteReturns
    <3> QED
      BY <1>0, <3>1 DEF Goto
  <2>2. CASE WorkerWakes(w) \/ WorkerInterrupted(w) \/ WorkerTakes(w)
    BY <1>0, <2>2 DEF WorkerWakes, WorkerInterrupted, WorkerTakes, HandRight
  <2>3. CASE Process(w)
    <3>1. Goto(w, "rearm_in") \/ Goto(w, "prepare")
      BY <2>3 DEF Process, NoFailure
    <3> QED
      BY <1>0, <3>1 DEF Goto
  <2>4. CASE WorkerRuns(w) \/ WorkerReads(w) \/ ProcessWrite(w) \/ Rearm(w) \/ WorkerDone(w)
    BY <1>0, <2>4 DEF WorkerRuns, WorkerReads, ProcessWrite, Rearm, WorkerDone, Goto
  <2> QED
    BY <1>1, <2>1, <2>2, <2>3, <2>4 DEF WorkerStep
<1> QED
  BY <1>2, <1>3, WorkerFrame

\* The event loop goes on, with an event less perhaps, and closes nothing.
LEMMA MainHand ==
  ASSUME Types, HandRight, at[Main] # "clear",
         NEW p \in {"epoll_wait", "dispatch", "accept", "post", "tick", "reset", "close"},
         at' = [at EXCEPT ![Main] = p],
         p \in {"reset", "close"} => InHand(mainfd) /\ mainfd' = mainfd /\ sock[mainfd] # None,
         batch' \subseteq batch,
         UNCHANGED <<sock, attached, orphaned>>
  PROVE  HandRight'
<1>1. /\ at'[Main] = p
      /\ \A w \in Workers : at'[w] = at[w]
  BY ServerAssumption DEF Types, ThreadsOK, Threads, ServerAssumption
<1>2. \A f \in Fds : (Reported(f))' => Reported(f) /\ ~(InHand(f))'
  BY <1>1 DEF Reported, InHand, HoldPlaces, HandRight
<1> QED
  BY <1>1, <1>2 DEF HandRight

\* epoll_wait reports open descriptors, each with one event.
LEMMA WaitHand ==
  ASSUME Types, KernelRight, HandRight, EpollWait
  PROVE  HandRight'
<1>1. /\ at'[Main] = "dispatch" /\ at[Main] = "epoll_wait"
      /\ \A w \in Workers : at'[w] = at[w]
      /\ UNCHANGED <<sock, attached, orphaned, mainfd>> /\ batch' = Ready
  BY ServerAssumption
  DEF Types, ThreadsOK, Threads, ServerAssumption, EpollWait, Goto, pastVars
<1>2. ASSUME NEW f \in Fds, NEW k \in {"hup", "in", "out"}, <<k, f>> \in Ready
      PROVE  sock[f] # None /\ k = Event(f)
  <2>1. <<k, f>> # Listen /\ <<k, f>> # Pipe
    BY DEF Listen, Pipe
  <2>2. f \in Fired /\ k = Event(f)
    BY <1>2, <2>1 DEF Ready
  <2> QED
    BY <2>2 DEF Fired, KernelRight, BatchRight
<1>3. \A f \in Fds : (Reported(f))' => sock[f] # None /\ ~(InHand(f))'
  BY <1>1, <1>2 DEF Reported, InHand, HoldPlaces
<1> QED
  BY <1>1, <1>2, <1>3 DEF HandRight

\* accept() returns a closed descriptor, of which no event is in the batch.
LEMMA AcceptHand ==
  ASSUME Types, HandRight, NEW f \in Fds, NEW c \in Conns, Accept(c, f)
  PROVE  HandRight'
<1>1. /\ at'[Main] = "count_up" /\ at[Main] \in {"dispatch", "accept"}
      /\ \A w \in Workers : at'[w] = at[w]
      /\ batch' \subseteq batch
      /\ sock[f] = None /\ sock' = [sock EXCEPT ![f] = c] /\ c # None
      /\ attached' = attached \cup {f}
  BY ServerAssumption
  DEF Types, ThreadsOK, Threads, ServerAssumption, Accept, Accepting, Goto
<1>2. orphaned' = {}
  BY DEF Accept, UsedAt, HandRight
<1>3. sock'[f] = c /\ \A g \in Fds : g # f => sock'[g] = sock[g]
  BY <1>1 DEF Types, ObjectsOK
<1>4. \A g \in Fds : (Reported(g))' => Reported(g) /\ g # f
  BY <1>1 DEF Reported, HandRight
<1>5. \A g \in Fds : (Reported(g))' => Reported(g) /\ ~(InHand(g))'
  BY <1>4 DEF InHand, Accept
<1> QED
  BY <1>1, <1>2, <1>3, <1>4, <1>5 DEF HandRight

\* A descriptor whose event is taken out of the batch has no other there.
LEMMA HandleHand ==
  ASSUME Types, HandRight, NEW f \in Fds,
         HandleHup(f) \/ DealWithRead(f) \/ DealWithWrite(f)
  PROVE  HandRight'
<1>1. PICK k \in {"hup", "in", "out"} : Handle(<<k, f>>)
  BY DEF HandleHup, DealWithRead, DealWithWrite
<1>2. /\ at[Main] = "dispatch" /\ <<k, f>> \in batch /\ batch' = batch \ {<<k, f>>}
      /\ mainfd' = f
      /\ UNCHANGED <<sock, attached, orphaned>>
  BY <1>1 DEF HandleHup, DealWithRead, DealWithWrite, Handle, clientVars, pastVars
<1>3. /\ at'[Main] \in {"close", "append_read", "append_write", "write"}
      /\ \A w \in Workers : at'[w] = at[w]
  <2>1. \/ Goto(Main, "close") \/ Goto(Main, "append_read") \/ Goto(Main, "append_write")
        \/ Goto(Main, "write")
    BY DEF HandleHup, DealWithRead, DealWithWrite
  <2> QED
    BY <2>1, ServerAssumption DEF Goto, Types, ThreadsOK, Threads, ServerAssumption
<1>4. Reported(f) /\ ~(Reported(f))' /\ \A g \in Fds : (Reported(g))' => Reported(g)
  BY <1>2 DEF Reported, HandRight
<1>5. sock[f] # None
  BY <1>4 DEF HandRight
<1> QED
  BY <1>2, <1>3, <1>4, <1>5 DEF HandRight, InHand

\* tick() takes a descriptor when the batch is empty.
LEMMA TickHand ==
  ASSUME Types, KernelRight, HandRight, NEW f \in Fds, TickOne(f)
  PROVE  HandRight'
<1>1. /\ at[Main] = "tick" /\ at'[Main] = "close" /\ batch' = {}
      /\ \A w \in Workers : at'[w] = at[w]
      /\ UNCHANGED <<sock, attached, orphaned>>
  BY ServerAssumption
  DEF Types, ThreadsOK, Threads, ServerAssumption, TickOne, Goto, clientVars, pastVars,
      KernelRight, BatchRight
<1> QED
  BY <1>1 DEF HandRight, Reported

\* The event loop closes the descriptor in its hands.
LEMMA CloseHand ==
  ASSUME Types, KernelRight, HandRight, Close(Main)
  PROVE  HandRight'
<1>0. /\ Main \in Threads /\ Main \notin Workers /\ Workers \subseteq Threads
      /\ at \in [Threads -> MainPlaces \cup WorkerPlaces] /\ Obj(Main) = mainfd
  BY ServerAssumption DEF Types, ThreadsOK, Threads, ServerAssumption, Obj
<1>1. /\ UNCHANGED <<batch, mainfd, orphaned>>
      /\ \A w \in Workers : at'[w] = at[w]
  BY <1>0
  DEF Close, CloseCheck, CloseRemove, CloseClear, CloseCount, CloseReturn, Goto, loopVars,
      clientVars, pastVars
<1>2. \A f \in Fds : (Reported(f))' <=> Reported(f)
  BY <1>1 DEF Reported
<1>3. CASE CloseCheck(Main)
  <2>1. /\ at[Main] = "close" /\ mainfd \in Fds /\ UNCHANGED <<sock, attached>>
        /\ at'[Main] = IF mainfd \in attached THEN "remove" ELSE "dispatch"
    BY <1>0, <1>3
    DEF CloseCheck, CloseReturn, Goto, clientVars, Types, LoopOK, HoldPlaces
  <2> QED
    BY <1>1, <1>2, <2>1 DEF HandRight, InHand, HoldPlaces
<1>4. CASE CloseRemove(Main)
  <2>1. /\ at[Main] = "remove" /\ mainfd \in Fds /\ at'[Main] = "clear"
        /\ sock[mainfd] # None /\ mainfd \in attached
    BY <1>0, <1>4 DEF CloseRemove, Goto, HandRight, Types, LoopOK, HoldPlaces
  <2>2. sock' = [sock EXCEPT ![mainfd] = None] /\ attached' = attached
    BY <1>0, <1>4, <2>1 DEF CloseRemove
  <2>3. sock'[mainfd] = None /\ \A g \in Fds : g # mainfd => sock'[g] = sock[g]
    BY <2>1, <2>2 DEF Types, ObjectsOK
  <2>4. ~Reported(mainfd)
    BY <2>1 DEF HandRight, InHand, HoldPlaces
  <2> QED
    BY <1>1, <1>2, <2>1, <2>2, <2>3, <2>4 DEF HandRight, InHand, HoldPlaces
<1>5. CASE CloseClear(Main)
  <2>1. /\ at[Main] = "clear" /\ mainfd \in Fds /\ at'[Main] = "count_down"
        /\ attached' = attached \ {mainfd} /\ sock' = sock
    BY <1>0, <1>5 DEF CloseClear, Goto, Types, LoopOK, HoldPlaces
  <2>2. sock[mainfd] = None
    BY <2>1 DEF KernelRight, ReferRight, Stray, HandRight
  <2> QED
    BY <1>1, <1>2, <2>1, <2>2 DEF HandRight, InHand, HoldPlaces
<1>6. CASE CloseCount(Main)
  <2>1. /\ at[Main] = "count_down" /\ at'[Main] = "dispatch" /\ UNCHANGED <<sock, attached>>
    BY <1>0, <1>6 DEF CloseCount, CloseReturn, Goto
  <2> QED
    BY <1>1, <1>2, <2>1 DEF HandRight, InHand, HoldPlaces
<1> QED
  BY <1>3, <1>4, <1>5, <1>6 DEF Close

\* Every step leaves what is in the event loop's hands in order.
LEMMA HandInductive ==
  NoFailure /\ Types /\ KernelRight /\ HandRight /\ [Next]_vars => HandRight'
<1> SUFFICES ASSUME NoFailure, Types, KernelRight, HandRight, [Next]_vars PROVE HandRight'
  OBVIOUS
<1>1. CASE UNCHANGED vars \/ ClientStep \/ AlarmFires \/ \E f \in Fds : Expire(f)
  <2>1. UNCHANGED <<at, batch, mainfd, sock, attached, orphaned>>
    BY <1>1
    DEF vars, ClientStep, Connect, Send, Hangup, AlarmFires, Expire, loopVars, clientVars, pastVars
  <2> QED
    BY <2>1 DEF HandRight, Reported, InHand
<1>2. CASE MainStep
  <2>1. CASE AcceptFails \/ AcceptRefuses \/ CountUp \/ DealWithSignal \/ EndBatch
             \/ TickEnd \/ AppendRequest \/ PostRequest
    <3>1. PICK p \in {"epoll_wait", "dispatch", "accept", "post", "tick"} :
            at' = [at EXCEPT ![Main] = p]
      <4>1. CASE DealWithSignal
        BY <4>1 DEF DealWithSignal, Handle, Types, ThreadsOK
      <4> QED
        BY <2>1, <4>1
        DEF AcceptFails, AcceptRefuses, CountUp, EndBatch, TickEnd, AppendRequest, PostRequest,
            Goto
    <3>2. /\ at[Main] # "clear" /\ batch' \subseteq batch
          /\ UNCHANGED <<sock, attached, orphaned>>
      BY <2>1
      DEF AcceptFails, AcceptRefuses, CountUp, DealWithSignal, EndBatch, TickEnd, AppendRequest,
          PostRequest, Accepting, Handle, loopVars, clientVars, pastVars
    <3> QED
      BY <3>1, <3>2, MainHand
  <2>2. CASE Write(Main)
    <3>1. PICK p \in {"dispatch", "close", "reset"} : at' = [at EXCEPT ![Main] = p]
      <4>1. Goto(Main, "dispatch") \/ Goto(Main, "close") \/ Goto(Main, "reset")
        BY <2>2 DEF Write, WriteNothing, WriteSome, WriteError, WriteReset, WriteReturns
      <4> QED
        BY <4>1 DEF Goto
    <3>2. /\ at[Main] \in {"write", "reset"}
          /\ UNCHANGED <<batch, mainfd, sock, attached, orphaned>>
      BY <2>2
      DEF Write, WriteNothing, WriteSome, WriteError, WriteReset, loopVars, clientVars, pastVars
    <3>3. InHand(mainfd) /\ sock[mainfd] # None
      BY <3>2 DEF InHand, HoldPlaces, HandRight
    <3> QED
      BY <3>1, <3>2, <3>3, MainHand
  <2> QED
    BY <1>2, <2>1, <2>2, WaitHand, AcceptHand, HandleHand, TickHand, CloseHand DEF MainStep
<1>3. ASSUME NEW w \in Workers, WorkerStep(w) \/ WorkerInterrupted(w)
      PROVE  HandRight'
  BY <1>3, WorkersCloseNothing DEF HandRight, Reported, InHand
<1> QED
  BY <1>1, <1>2, <1>3 DEF Next

\* At the start nothing is open.
LEMMA HandInitially == Init => HandRight
<1> SUFFICES ASSUME Init PROVE HandRight
  OBVIOUS
<1>1. /\ at[Main] = "epoll_wait" /\ batch = {} /\ attached = {} /\ orphaned = {}
      /\ \A f \in Fds : sock[f] = None
      /\ \A w \in Workers : at[w] = "idle"
  BY ServerAssumption DEF ServerAssumption, Threads, Init
<1> QED
  BY <1>1 DEF HandRight, Reported

\* What the theorems below have in common.
LEMMA HandInvariant == Spec => [](NoFailure => HandRight)
<1>1. Init => (NoFailure => HandRight)
  BY HandInitially
<1>2. Types /\ KernelRight /\ (NoFailure => HandRight) /\ [Next]_vars => (NoFailure => HandRight)'
  <2>1. NoFailure' <=> NoFailure
    BY DEF NoFailure
  <2> QED
    BY <2>1, HandInductive
<1> QED
  BY <1>1, <1>2, KernelInvariant, PTL DEF Spec

\* With responses that can be built, in both models and however slow the
\* workers, no open descriptor is ever without an object that refers to it and a
\* node in the heap timer, unless it is being closed.
THEOREM NothingLeaks == Spec => [](NoFailure => NoLeak)
<1>1. Types /\ KernelRight /\ HandRight => NoLeak
  <2>1. orphaned = {} => \A f \in Fds : sock[f] \notin orphaned
    OBVIOUS
  <2> QED
    BY <2>1, KeptOrOrphaned DEF HandRight, NoLeak
<1> QED
  BY <1>1, KernelInvariant, HandInvariant, PTL

\* Under the same condition adjust_timer() is only called for a descriptor that
\* has a node: what HeapTimer::adjust does not test, and HeapTimerProofs assumes.
THEOREM AdjustsSafely == Spec => [](NoFailure => AdjustHasNode)
<1>1. Types /\ KernelRight /\ HandRight => AdjustHasNode
  <2>1. orphaned = {} => \A f \in Fds : sock[f] \notin orphaned
    OBVIOUS
  <2> QED
    BY <2>1, KeptOrOrphaned DEF HandRight, AdjustHasNode
<1> QED
  BY <1>1, KernelInvariant, HandInvariant, PTL

\* In the proactor, with responses that can be built, requests dropped by a full
\* queue, refused connections and timers that run out under a worker leave no
\* descriptor behind and no promised close undone.
THEOREM OverloadsContained == Spec => [](NoFailure /\ ~Reactor => OverloadContained)
<1>1. Types /\ KernelRight /\ ToldRight /\ HandRight /\ ~Reactor => OverloadContained
  <2> SUFFICES ASSUME Types, KernelRight, ToldRight, HandRight, ~Reactor PROVE OverloadContained
    OBVIOUS
  <2>1. \A f \in Fds : sock[f] \notin orphaned
    BY DEF HandRight
  <2>2. NoLeak
    BY <2>1, KeptOrOrphaned DEF NoLeak
  <2>3. CloseHonoured
    BY DEF ToldRight, HandRight, CloseHonoured, Honoured, Closing, Threads, Obj
  <2> QED
    BY <2>2, <2>3 DEF OverloadContained
<1> QED
  BY <1>1, Invariant, HandInvariant, PTL

-----------------------------------------------------------------------------
(* The count of connections.                                                *)

Opened == {f \in Fds : sock[f] # None}

CountRight ==
  /\ IsFiniteSet(Opened)
  /\ at[Main] \in {"count_up", "count_down"} => reg[Main] = m_user_count
  /\ m_user_count = CASE at[Main] = "count_up" -> Cardinality(Opened) - 1
                      [] at[Main] \in {"clear", "count_down"} -> Cardinality(Opened) + 1
                      [] OTHER -> Cardinality(Opened)

\* Every step keeps the count.
LEMMA CountInductive ==
  NoFailure /\ Types /\ HandRight /\ CountRight /\ [Next]_vars => CountRight'
<1> SUFFICES ASSUME NoFailure, Types, HandRight, CountRight, [Next]_vars PROVE CountRight'
  OBVIOUS
<1>0. /\ Main \in Threads /\ Main \notin Workers /\ Workers \subseteq Threads
      /\ at \in [Threads -> MainPlaces \cup WorkerPlaces] /\ reg \in [Threads -> Int]
      /\ m_user_count \in Int /\ IsFiniteSet(Opened) /\ Cardinality(Opened) \in Nat
      /\ Obj(Main) = mainfd
  BY ServerAssumption, FS_CardinalityType
  DEF Types, ThreadsOK, LoopOK, Threads, ServerAssumption, CountRight, Obj
<1>1. ASSUME sock' = sock, m_user_count' = m_user_count,
             \/ at'[Main] = at[Main] /\ reg'[Main] = reg[Main]
             \/ /\ at[Main] \notin {"count_up", "clear", "count_down"}
                /\ at'[Main] \notin {"count_up", "clear", "count_down"}
      PROVE  CountRight'
  <2>1. Opened' = Opened
    BY <1>1 DEF Opened
  <2> QED
    BY <1>0, <1>1, <2>1 DEF CountRight
<1>2. ASSUME NEW f \in Fds, NEW c \in Conns, Accept(c, f)
      PROVE  CountRight'
  <2>1. /\ at[Main] \in {"dispatch", "accept"} /\ at'[Main] = "count_up"
        /\ reg'[Main] = m_user_count /\ m_user_count' = m_user_count
        /\ sock[f] = None /\ sock' = [sock EXCEPT ![f] = c] /\ c # None
    BY <1>0, <1>2, ServerAssumption DEF Accept, Accepting, Goto, ServerAssumption
  <2>2. Opened' = Opened \cup {f} /\ f \notin Opened
    BY <2>1 DEF Opened, Types, ObjectsOK
  <2>3. IsFiniteSet(Opened') /\ Cardinality(Opened') = Cardinality(Opened) + 1
    BY <1>0, <2>2, FS_AddElement
  <2> QED
    BY <1>0, <2>1, <2>3 DEF CountRight
<1>3. CASE CountUp
  <2>1. /\ at[Main] = "count_up" /\ at'[Main] \in {"accept", "dispatch"}
        /\ m_user_count' = reg[Main] + 1 /\ sock' = sock
    BY <1>0, <1>3 DEF CountUp, Goto
  <2>2. Opened' = Opened
    BY <2>1 DEF Opened
  <2> QED
    BY <1>0, <2>1, <2>2 DEF CountRight
<1>4. CASE CloseRemove(Main)
  <2>1. /\ at[Main] = "remove" /\ at'[Main] = "clear" /\ m_user_count' = m_user_count
        /\ mainfd \in Fds /\ sock[mainfd] # None /\ mainfd \in attached
    BY <1>0, <1>4
    DEF CloseRemove, Goto, HandRight, Types, LoopOK, HoldPlaces
  <2>2. sock' = [sock EXCEPT ![mainfd] = None]
    BY <1>0, <1>4, <2>1 DEF CloseRemove
  <2>3. Opened' = Opened \ {mainfd} /\ mainfd \in Opened
    BY <2>1, <2>2 DEF Opened, Types, ObjectsOK
  <2>4. IsFiniteSet(Opened') /\ Cardinality(Opened') = Cardinality(Opened) - 1
    BY <1>0, <2>3, FS_RemoveElement
  <2> QED
    BY <1>0, <2>1, <2>4 DEF CountRight
<1>5. CASE CloseClear(Main)
  <2>1. /\ at[Main] = "clear" /\ at'[Main] = "count_down" /\ m_user_count' = m_user_count
        /\ reg'[Main] = m_user_count /\ sock' = sock
    BY <1>0, <1>5 DEF CloseClear, Goto
  <2>2. Opened' = Opened
    BY <2>1 DEF Opened
  <2> QED
    BY <1>0, <2>1, <2>2 DEF CountRight
<1>6. CASE CloseCount(Main)
  <2>1. /\ at[Main] = "count_down" /\ at'[Main] = "dispatch"
        /\ m_user_count' = reg[Main] - 1 /\ sock' = sock
    BY <1>0, <1>6 DEF CloseCount, CloseReturn, Goto
  <2>2. Opened' = Opened
    BY <2>1 DEF Opened
  <2> QED
    BY <1>0, <2>1, <2>2 DEF CountRight
<1>7. CASE CloseCheck(Main)
  BY <1>0, <1>1, <1>7 DEF CloseCheck, CloseReturn, Goto
<1>8. CASE Write(Main)
  <2>1. /\ at[Main] \in {"write", "reset"} /\ sock' = sock /\ m_user_count' = m_user_count
        /\ Goto(Main, "dispatch") \/ Goto(Main, "close") \/ Goto(Main, "reset")
    BY <1>8 DEF Write, WriteNothing, WriteSome, WriteError, WriteReset, WriteReturns
  <2> QED
    BY <1>0, <1>1, <2>1 DEF Goto
<1>9. CASE MainStep
  <2>1. CASE AppendRequest \/ PostRequest
    BY <1>0, <1>1, <2>1 DEF AppendRequest, PostRequest, Goto
  <2>2. ASSUME NEW f \in Fds, HandleHup(f) \/ DealWithRead(f) \/ DealWithWrite(f)
        PROVE  CountRight'
    <3>1. \/ Goto(Main, "close") \/ Goto(Main, "append_read")
          \/ Goto(Main, "append_write") \/ Goto(Main, "write")
      BY <2>2 DEF HandleHup, DealWithRead, DealWithWrite
    <3>2. at[Main] = "dispatch" /\ sock' = sock /\ m_user_count' = m_user_count
      BY <2>2 DEF HandleHup, DealWithRead, DealWithWrite, Handle
    <3> QED
      BY <1>0, <1>1, <3>1, <3>2 DEF Goto
  <2>3. CASE EpollWait \/ AcceptFails \/ AcceptRefuses
    BY <1>0, <1>1, <2>3 DEF EpollWait, AcceptFails, AcceptRefuses, Accepting, Goto
  <2>4. CASE DealWithSignal \/ EndBatch \/ TickEnd
    BY <1>0, <1>1, <2>4 DEF DealWithSignal, EndBatch, TickEnd, Handle, Goto
  <2>5. ASSUME NEW f \in Fds, TickOne(f)
        PROVE  CountRight'
    BY <1>0, <1>1, <2>5 DEF TickOne, Goto
  <2> QED
    BY <1>2, <1>3, <1>4, <1>5, <1>6, <1>7, <1>8, <1>9, <2>1, <2>2, <2>3, <2>4, <2>5
    DEF MainStep, Close
<1>10. ASSUME NEW w \in Workers, WorkerStep(w) \/ WorkerInterrupted(w)
       PROVE  CountRight'
  <2> QED
    BY <1>1, <1>10, WorkersCloseNothing
<1> QED
  BY <1>1, <1>9, <1>10
  DEF Next, ClientStep, Connect, Send, Hangup, AlarmFires, Expire, vars

\* At the start nothing is open and nothing is counted.
LEMMA CountInitially == Init => CountRight
<1> SUFFICES ASSUME Init PROVE CountRight
  OBVIOUS
<1>1. Opened = {} /\ at[Main] = "epoll_wait" /\ m_user_count = 0
  BY DEF Init, Opened, Threads
<1> QED
  BY <1>1, FS_EmptySet DEF CountRight

\* Under the same condition m_user_count, which is read and written back
\* without a lock, is the number of open connections whenever the event loop is
\* not inside accept or close: the limit of dealclientdata() stays what it says.
THEOREM CountAlwaysExact == Spec => [](NoFailure => CountExact)
<1>1. HandRight /\ CountRight => CountExact
  <2> SUFFICES ASSUME CountRight,
                      \A t \in Threads : at[t] \notin {"count_up", "remove", "clear", "count_down"}
               PROVE  m_user_count = Cardinality(Opened)
    BY DEF CountExact, Opened
  <2> QED
    BY DEF CountRight, Threads
<1>2. /\ Types /\ (NoFailure => HandRight) /\ (NoFailure => CountRight)
      /\ [Next]_vars
      => (NoFailure => CountRight)'
  <2>1. NoFailure' <=> NoFailure
    BY DEF NoFailure
  <2> QED
    BY <2>1, CountInductive
<1>3. Init => (NoFailure => CountRight)
  BY CountInitially
<1> QED
  BY <1>1, <1>2, <1>3, KernelInvariant, HandInvariant, PTL DEF Spec

-----------------------------------------------------------------------------
(* Why connections are closed.                                              *)

\* In the proactor, where the event loop reads: a full read buffer.
BufferFull(f) == ~Reactor /\ m_read_idx[f] = READ_BUFFER_SIZE

\* A reason to close the connection of a descriptor: its client has gone or has
\* its last response, it has filled the read buffer, or the idle timer has taken
\* its node.
Cause(f) ==
  peer[sock[f]] = "half" \/ sock[f] \in toldClose \/ BufferFull(f) \/ timer[f] = "none"

\* Every connection has one descriptor; whoever is about to close one has a
\* cause; an event in the batch is still true of the connection.
CauseRight ==
  /\ \A f, g \in Fds : sock[f] # None /\ sock[f] = sock[g] => f = g
  /\ \A f \in Fds : sock[f] # None => peer[sock[f]] \in {"open", "half"}
  /\ at[Main] \in {"close", "remove"} /\ sock[mainfd] # None => Cause(mainfd)
  /\ \A f \in Fds : <<"hup", f>> \in batch => peer[sock[f]] = "half"
  /\ ~Reactor => \A f \in Fds : <<"in", f>> \in batch => ET \/ inbox[sock[f]] > 0

\* A step that closes and opens nothing and takes no cause away.
LEMMA SameCause ==
  ASSUME Types, Types', HandRight, CauseRight, UNCHANGED sock, batch' \subseteq batch,
         toldClose \subseteq toldClose',
         \A c \in Conns : peer'[c] = peer[c]
           \/ (peer[c] = "open" /\ peer'[c] = "half") \/ peer[c] \in {"away", "backlog"},
         ~Reactor => \A f \in Fds : <<"in", f>> \in batch' => inbox'[sock[f]] >= inbox[sock[f]],
         at'[Main] \in {"close", "remove"} /\ sock[mainfd'] # None =>
           /\ mainfd' \in Fds
           /\ \/ /\ Cause(mainfd') /\ timer'[mainfd'] = timer[mainfd']
                 /\ ~Reactor => m_read_idx'[mainfd'] = m_read_idx[mainfd']
              \/ peer'[sock[mainfd']] = "half" \/ sock[mainfd'] \in toldClose'
              \/ timer'[mainfd'] = "none"
              \/ ~Reactor /\ m_read_idx'[mainfd'] = READ_BUFFER_SIZE
  PROVE  CauseRight'
<1>0. \A f \in Fds : sock[f] # None => sock[f] \in Conns
  BY DEF Types, ObjectsOK
<1>1. \A f \in Fds : Reported(f) => sock[f] \in Conns
  BY <1>0 DEF HandRight
<1>2. \A f \in Fds : sock[f] # None =>
        /\ peer'[sock[f]] \in {"open", "half"}
        /\ peer[sock[f]] = "half" => peer'[sock[f]] = "half"
  BY <1>0 DEF CauseRight
<1>3. \A f \in Fds : <<"hup", f>> \in batch' => peer'[sock[f]] = "half"
  BY <1>2, <1>1, ServerAssumption DEF CauseRight, Reported, ServerAssumption
<1>4. ~Reactor => \A f \in Fds : <<"in", f>> \in batch' => ET \/ inbox'[sock[f]] > 0
  <2> SUFFICES ASSUME ~Reactor, NEW f \in Fds, <<"in", f>> \in batch', ~ET
               PROVE  inbox'[sock[f]] > 0
    OBVIOUS
  <2>1. sock[f] \in Conns /\ inbox[sock[f]] > 0
    BY <1>1 DEF CauseRight, Reported
  <2>2. inbox'[sock[f]] >= inbox[sock[f]] /\ inbox[sock[f]] \in Nat /\ inbox'[sock[f]] \in Nat
    BY <2>1 DEF Types, ClientsOK
  <2> QED
    BY <2>1, <2>2
<1>5. at'[Main] \in {"close", "remove"} /\ sock[mainfd'] # None =>
        \/ peer'[sock[mainfd']] = "half" \/ sock[mainfd'] \in toldClose'
        \/ timer'[mainfd'] = "none"
        \/ ~Reactor /\ m_read_idx'[mainfd'] = READ_BUFFER_SIZE
  BY <1>2 DEF Cause, BufferFull
<1> QED
  BY <1>2, <1>3, <1>4, <1>5 DEF CauseRight, Cause, BufferFull

\* Input that nobody takes stays.
LEMMA UnreadInput ==
  ASSUME Types, HandRight, batch' \subseteq batch,
         inbox' = inbox \/ \A c \in Conns : inbox'[c] >= inbox[c]
  PROVE  \A f \in Fds : <<"in", f>> \in batch' => inbox'[sock[f]] >= inbox[sock[f]]
<1> SUFFICES ASSUME NEW f \in Fds, <<"in", f>> \in batch
             PROVE  inbox'[sock[f]] >= inbox[sock[f]]
  OBVIOUS
<1>1. Reported(f)
  BY DEF Reported
<1>2. sock[f] \in Conns /\ inbox[sock[f]] \in Nat
  BY <1>1 DEF HandRight, Types, ObjectsOK, ClientsOK
<1> QED
  BY <1>2

\* epoll_wait reports what is true of the connections.
LEMMA WaitCause ==
  ASSUME Types, KernelRight, CauseRight, EpollWait
  PROVE  CauseRight'
<1>1. /\ at'[Main] = "dispatch" /\ UNCHANGED <<sock, peer, inbox>> /\ batch' = Ready
  BY ServerAssumption
  DEF Types, ThreadsOK, Threads, ServerAssumption, EpollWait, Goto
<1>2. ASSUME NEW f \in Fds, NEW k \in {"hup", "in", "out"}, <<k, f>> \in Ready
      PROVE  f \in Fired /\ k = Event(f)
  <2>1. <<k, f>> # Listen /\ <<k, f>> # Pipe
    BY DEF Listen, Pipe
  <2> QED
    BY <1>2, <2>1 DEF Ready
<1>3. \A f \in Fds : <<"hup", f>> \in Ready => peer[sock[f]] = "half"
  BY <1>2 DEF Event
<1>4. \A f \in Fds : <<"in", f>> \in Ready => inbox[sock[f]] > 0
  BY <1>2 DEF Event
<1> QED
  BY <1>1, <1>3, <1>4 DEF CauseRight

\* accept() returns a closed descriptor for a connection that has none.
LEMMA AcceptCause ==
  ASSUME Types, HandRight, CauseRight, NEW f \in Fds, NEW c \in Conns, Accept(c, f)
  PROVE  CauseRight'
<1>1. /\ at'[Main] = "count_up" /\ batch' \subseteq batch /\ inbox' = inbox
      /\ sock[f] = None /\ sock' = [sock EXCEPT ![f] = c] /\ c # None
      /\ peer[c] = "backlog" /\ peer' = [peer EXCEPT ![c] = "open"]
  BY ServerAssumption
  DEF Types, ThreadsOK, Threads, ServerAssumption, Accept, Accepting, Goto
<1>2. /\ sock'[f] = c /\ \A g \in Fds : g # f => sock'[g] = sock[g]
      /\ \A g \in Fds : sock[g] # c
  BY <1>1 DEF Types, ObjectsOK, CauseRight
<1>3. \A g \in Fds : g # f /\ sock[g] # None => peer'[sock[g]] = peer[sock[g]]
  BY <1>1, <1>2 DEF Types, ClientsOK, ObjectsOK
<1>4. \A g \in Fds : sock'[g] # None => peer'[sock'[g]] \in {"open", "half"}
  BY <1>1, <1>2, <1>3 DEF CauseRight, Types, ClientsOK
<1>5. \A g \in Fds, k \in {"hup", "in"} : <<k, g>> \in batch' =>
        <<k, g>> \in batch /\ g # f /\ sock[g] # None
  BY <1>1 DEF HandRight, Reported
<1>6. \A g, h \in Fds : sock'[g] # None /\ sock'[g] = sock'[h] => g = h
  BY <1>2 DEF CauseRight
<1>7. \A g \in Fds : <<"hup", g>> \in batch' => peer'[sock'[g]] = "half"
  BY <1>2, <1>3, <1>5 DEF CauseRight
<1>8. ~Reactor => \A g \in Fds : <<"in", g>> \in batch' => ET \/ inbox'[sock'[g]] > 0
  BY <1>1, <1>2, <1>5 DEF CauseRight
<1> QED
  BY <1>1, <1>4, <1>6, <1>7, <1>8 DEF CauseRight

\* A failed read and a hang-up are causes; what the event loop reads is its own.
LEMMA HandleCause ==
  ASSUME Types, Types', HandRight, CauseRight, NEW f \in Fds,
         HandleHup(f) \/ DealWithRead(f) \/ DealWithWrite(f)
  PROVE  CauseRight'
<1>1. /\ mainfd' = f /\ UNCHANGED <<sock, peer, toldClose, timer>>
      /\ batch' \subseteq batch
      /\ \E k \in {"hup", "in", "out"} : <<k, f>> \in batch
  BY DEF HandleHup, DealWithRead, DealWithWrite, Handle, clientVars
<1>2. sock[f] # None /\ f \in attached
  BY <1>1 DEF HandRight, Reported
<1>3. ~Reactor => \A g \in Fds : <<"in", g>> \in batch' => inbox'[sock[g]] >= inbox[sock[g]]
  <2> SUFFICES ASSUME ~Reactor, NEW g \in Fds, <<"in", g>> \in batch'
               PROVE  inbox'[sock[g]] >= inbox[sock[g]]
    OBVIOUS
  <2>1. sock[g] \in Conns /\ inbox \in [Conns -> Nat]
    BY <1>1 DEF HandRight, Reported, Types, ClientsOK, ObjectsOK
  <2>2. CASE HandleHup(f) \/ DealWithWrite(f)
    BY <2>1, <2>2 DEF HandleHup, DealWithWrite, clientVars
  <2>3. CASE DealWithRead(f)
    <3>1. f # g
      BY <2>3 DEF DealWithRead, Handle
    <3>2. sock[f] # sock[g]
      BY <1>2, <3>1 DEF CauseRight
    <3>3. inbox' = [inbox EXCEPT ![sock[f]] = @ - Taken(f)]
      BY <1>2, <2>3, ReadOnceDoes DEF DealWithRead
    <3> QED
      BY <2>1, <3>2, <3>3
  <2> QED
    BY <2>2, <2>3
<1>4. at'[Main] \in {"close", "remove"} =>
        peer[sock[f]] = "half" \/ (~Reactor /\ m_read_idx'[f] = READ_BUFFER_SIZE)
  <2>1. CASE HandleHup(f)
    BY <2>1 DEF HandleHup, Handle, CauseRight
  <2>2. CASE DealWithRead(f)
    <3> SUFFICES ASSUME at'[Main] \in {"close", "remove"}, peer[sock[f]] # "half"
                 PROVE  ~Reactor /\ m_read_idx'[f] = READ_BUFFER_SIZE
      OBVIOUS
    <3>1. ~Reactor /\ ~ReadOk(f) /\ ReadOnce(f)
      BY <2>2 DEF DealWithRead, Goto, Types, ThreadsOK, Threads
    <3>2. ET \/ inbox[sock[f]] > 0
      BY <2>2, <3>1 DEF DealWithRead, Handle, CauseRight
    <3>3. ~(Room(f) > 0) \/ ~(inbox[sock[f]] < Room(f))
      BY <1>2, <3>1, <3>2 DEF ReadOk
    <3>4. /\ inbox[sock[f]] \in Nat /\ m_read_idx[f] \in 0..READ_BUFFER_SIZE
          /\ READ_BUFFER_SIZE \in Nat
      BY <1>2, ServerAssumption DEF ServerAssumption, Types, ClientsOK, ObjectsOK
    <3>5. Taken(f) = Room(f)
      BY <3>3, <3>4 DEF Taken, Room
    <3>6. m_read_idx'[f] = m_read_idx[f] + Taken(f)
      <4>1. m_read_idx' = [m_read_idx EXCEPT ![f] = @ + Taken(f)]
        BY <1>2, <3>1, ReadOnceDoes
      <4>2. DOMAIN m_read_idx = Fds
        BY DEF Types, ObjectsOK
      <4>3. PICK n : n = Taken(f)
        OBVIOUS
      <4> QED
        BY <4>1, <4>2, <4>3
    <3> QED
      BY <3>1, <3>4, <3>5, <3>6 DEF Room
  <2>3. CASE DealWithWrite(f)
    BY <2>3 DEF DealWithWrite, Goto, Types, ThreadsOK, Threads
  <2> QED
    BY <2>1, <2>2, <2>3
<1> QED
  BY <1>1, <1>2, <1>3, <1>4, SameCause

\* write() in the event loop closes after a last response or a failure.
LEMMA WriteCause ==
  ASSUME Types, Types', HandRight, CauseRight, Write(Main)
  PROVE  CauseRight'
<1>1. /\ at[Main] \in {"write", "reset"} /\ mainfd \in Fds /\ Obj(Main) = mainfd
      /\ Main \in Threads /\ at \in [Threads -> MainPlaces \cup WorkerPlaces]
      /\ mainfd' = mainfd /\ UNCHANGED <<sock, peer, inbox, batch>>
  BY DEF Write, WriteNothing, WriteSome, WriteError, WriteReset, Types, ThreadsOK, LoopOK,
         HoldPlaces, Threads, Obj, clientVars, loopVars
<1>2. sock[mainfd] \in Conns /\ mainfd \in attached /\ sock[mainfd] # None
  BY <1>1 DEF HandRight, Types, ObjectsOK
<1>3. toldClose \subseteq toldClose'
  BY DEF Write, WriteNothing, WriteSome, WriteError, WriteReset, clientVars
<1>4. at'[Main] \in {"close", "remove"} =>
        peer'[sock[mainfd]] = "half" \/ sock[mainfd] \in toldClose'
  <2>1. CASE WriteNothing(Main) \/ WriteReset(Main)
    BY <1>1, <2>1 DEF WriteNothing, WriteReset, WriteReturns, Goto
  <2>2. CASE WriteError(Main)
    BY <1>1, <1>2, <2>2 DEF WriteError
  <2>3. CASE WriteSome(Main)
    <3>1. \/ Goto(Main, "dispatch") \/ Goto(Main, "reset")
          \/ toldClose' = toldClose \cup {sock[mainfd]}
      BY <1>1, <2>3 DEF WriteSome, WriteReturns
    <3> QED
      BY <1>1, <3>1 DEF Goto
  <2> QED
    BY <2>1, <2>2, <2>3 DEF Write
<1>5. \A f \in Fds : <<"in", f>> \in batch' => inbox'[sock[f]] >= inbox[sock[f]]
  BY <1>1, UnreadInput
<1> QED
  BY <1>1, <1>3, <1>4, <1>5, SameCause

\* The event loop closes what it has a cause to close.
LEMMA CloseCause ==
  ASSUME Types, Types', HandRight, CauseRight, Close(Main)
  PROVE  CauseRight'
<1>1. /\ Main \in Threads /\ at \in [Threads -> MainPlaces \cup WorkerPlaces]
      /\ mainfd' = mainfd /\ Obj(Main) = mainfd
      /\ UNCHANGED <<batch, toldClose, inbox, timer, m_read_idx>>
      /\ inbox \in [Conns -> Nat]
  BY DEF Close, CloseCheck, CloseRemove, CloseClear, CloseCount, Types, ThreadsOK, ClientsOK,
         Threads, Obj, clientVars, loopVars, objVars
<1>3. \A f \in Fds : <<"in", f>> \in batch' => inbox'[sock[f]] >= inbox[sock[f]]
  BY <1>1, UnreadInput
<1>4. CASE CloseCheck(Main)
  <2>1. at[Main] = "close" /\ mainfd \in Fds /\ UNCHANGED <<sock, peer>>
    BY <1>4 DEF CloseCheck, Types, LoopOK, HoldPlaces, clientVars
  <2> QED
    BY <1>1, <1>3, <2>1, SameCause DEF CauseRight
<1>5. CASE CloseClear(Main) \/ CloseCount(Main)
  <2>1. UNCHANGED <<sock, peer>> /\ at'[Main] \notin {"close", "remove"}
    BY <1>1, <1>5 DEF CloseClear, CloseCount, CloseReturn, Goto, clientVars
  <2> QED
    BY <1>1, <1>3, <2>1, SameCause
<1>6. CASE CloseRemove(Main)
  <2>1. /\ at[Main] = "remove" /\ at'[Main] = "clear" /\ mainfd \in Fds
        /\ sock[mainfd] # None /\ mainfd \in attached
    BY <1>1, <1>6 DEF CloseRemove, Goto, Types, LoopOK, HoldPlaces, HandRight
  <2>2. /\ sock' = [sock EXCEPT ![mainfd] = None]
        /\ peer' = [peer EXCEPT ![sock[mainfd]] = "closed"]
    BY <1>1, <1>6, <2>1 DEF CloseRemove
  <2>3. /\ sock'[mainfd] = None
        /\ \A g \in Fds : g # mainfd => sock'[g] = sock[g] /\ (sock[g] # None =>
             sock[g] # sock[mainfd] /\ peer'[sock[g]] = peer[sock[g]])
    BY <2>1, <2>2 DEF Types, ObjectsOK, ClientsOK, CauseRight
  <2>4. \A g \in Fds : Reported(g) => g # mainfd /\ sock[g] # None
    BY <2>1 DEF HandRight, InHand, HoldPlaces
  <2>5. \A g, h \in Fds : sock'[g] # None /\ sock'[g] = sock'[h] => g = h
    BY <2>3 DEF CauseRight
  <2>6. \A g \in Fds : sock'[g] # None => peer'[sock'[g]] \in {"open", "half"}
    BY <2>3 DEF CauseRight
  <2>7. \A g \in Fds : <<"hup", g>> \in batch' => peer'[sock'[g]] = "half"
    BY <1>1, <2>3, <2>4 DEF CauseRight, Reported
  <2>8. ~Reactor => \A g \in Fds : <<"in", g>> \in batch' => ET \/ inbox'[sock'[g]] > 0
    BY <1>1, <2>3, <2>4 DEF CauseRight, Reported
  <2> QED
    BY <2>1, <2>5, <2>6, <2>7, <2>8 DEF CauseRight
<1> QED
  BY <1>4, <1>5, <1>6 DEF Close

\* Every step leaves the closing thread its cause.
LEMMA CauseInductive ==
  NoFailure /\ Types /\ Types' /\ KernelRight /\ ToldRight /\ HandRight /\ CauseRight /\ [Next]_vars
    => CauseRight'
<1> SUFFICES ASSUME NoFailure, Types, Types', KernelRight, ToldRight, HandRight, CauseRight,
                    [Next]_vars
             PROVE  CauseRight'
  OBVIOUS
<1>0. /\ Main \in Threads /\ at \in [Threads -> MainPlaces \cup WorkerPlaces]
      /\ inbox \in [Conns -> Nat] /\ peer \in [Conns -> PeerState]
      /\ at[Main] \in {"close", "remove"} => mainfd \in Fds
  BY DEF Types, ThreadsOK, ClientsOK, LoopOK, HoldPlaces, Threads
<1>1. CASE UNCHANGED vars \/ ClientStep \/ AlarmFires \/ \E f \in Fds : Expire(f)
  <2>1. UNCHANGED <<at, batch, mainfd, sock, toldClose>>
    BY <1>1 DEF vars, ClientStep, Connect, Send, Hangup, AlarmFires, Expire, loopVars, clientVars
  <2>2. \A c \in Conns : inbox'[c] >= inbox[c]
    BY <1>0, <1>1
    DEF vars, ClientStep, Connect, Send, Hangup, AlarmFires, Expire, clientVars
  <2>3. \A f \in Fds : <<"in", f>> \in batch' => inbox'[sock[f]] >= inbox[sock[f]]
    BY <2>1, <2>2, UnreadInput
  <2>4. \A c \in Conns : peer'[c] = peer[c]
           \/ (peer[c] = "open" /\ peer'[c] = "half") \/ peer[c] \in {"away", "backlog"}
    <3>1. ASSUME NEW c \in Conns, Connect(c) \/ Hangup(c), NEW d \in Conns
          PROVE  \/ peer'[d] = peer[d]
                 \/ (peer[d] = "open" /\ peer'[d] = "half") \/ peer[d] \in {"away", "backlog"}
      BY <1>0, <3>1 DEF Connect, Hangup
    <3>2. CASE peer' = peer
      BY <3>2
    <3> QED
      BY <1>1, <3>1, <3>2 DEF vars, ClientStep, Send, AlarmFires, Expire, clientVars
  <2>5. \A f \in Fds : timer[f] = "none" => timer'[f] = "none"
    BY <1>1
    DEF vars, ClientStep, Connect, Send, Hangup, AlarmFires, Expire, loopVars, Types, LoopOK
  <2>6. \A f \in Fds : sock[f] # None => sock[f] \in Conns
    BY DEF Types, ObjectsOK
  <2>7. at[Main] \in {"close", "remove"} /\ sock[mainfd] # None =>
          \/ peer'[sock[mainfd]] = "half" \/ sock[mainfd] \in toldClose
          \/ timer'[mainfd] = "none"
          \/ ~Reactor /\ m_read_idx'[mainfd] = READ_BUFFER_SIZE
    <3>1. m_read_idx' = m_read_idx
      BY <1>1 DEF vars, ClientStep, Connect, Send, Hangup, AlarmFires, Expire, objVars
    <3> QED
      BY <1>0, <2>4, <2>5, <2>6, <3>1 DEF CauseRight, Cause, BufferFull
  <2> QED
    BY <1>0, <2>1, <2>3, <2>4, <2>7, SameCause
<1>2. CASE MainStep
  <2>1. CASE AcceptFails \/ AcceptRefuses \/ CountUp \/ DealWithSignal \/ EndBatch
             \/ TickEnd \/ AppendRequest \/ PostRequest
    <3>1. /\ at'[Main] \notin {"close", "remove"} /\ batch' \subseteq batch
          /\ UNCHANGED <<sock, inbox, toldClose>>
      BY <1>0, <2>1
      DEF AcceptFails, AcceptRefuses, CountUp, DealWithSignal, EndBatch, TickEnd, AppendRequest,
          PostRequest, Accepting, Handle, Goto, loopVars, clientVars
    <3>2. \A f \in Fds : <<"in", f>> \in batch' => inbox'[sock[f]] >= inbox[sock[f]]
      BY <3>1, UnreadInput
    <3>3. \A c \in Conns : peer'[c] = peer[c] \/ peer[c] = "backlog"
      BY <2>1
      DEF AcceptFails, AcceptRefuses, CountUp, DealWithSignal, EndBatch, TickEnd, AppendRequest,
          PostRequest, Backlog, clientVars, Types, ClientsOK
    <3> QED
      BY <3>1, <3>2, <3>3, SameCause
  <2>2. ASSUME NEW f \in Fds, TickOne(f)
        PROVE  CauseRight'
    <3>1. /\ mainfd' = f /\ timer'[f] = "none" /\ UNCHANGED <<sock, peer, inbox, batch, toldClose>>
      BY <2>2 DEF TickOne, clientVars, Types, LoopOK
    <3>2. \A g \in Fds : <<"in", g>> \in batch' => inbox'[sock[g]] >= inbox[sock[g]]
      BY <3>1, UnreadInput
    <3> QED
      BY <3>1, <3>2, SameCause
  <2> QED
    BY <1>2, <2>1, <2>2, WaitCause, AcceptCause, HandleCause, WriteCause, CloseCause DEF MainStep
<1>3. ASSUME NEW w \in Workers, WorkerStep(w) \/ WorkerInterrupted(w)
      PROVE  CauseRight'
  <2>1. /\ UNCHANGED <<batch, mainfd, timer, sock, peer>> /\ at'[Main] = at[Main]
        /\ toldClose \subseteq toldClose' /\ (inbox' = inbox \/ at[w] = "read")
    BY <1>3, WorkersCloseNothing
  <2>2. ~Reactor => \A f \in Fds : <<"in", f>> \in batch' => inbox'[sock[f]] >= inbox[sock[f]]
    BY <2>1, UnreadInput DEF ToldRight
  <2>3. ~Reactor => m_read_idx' = m_read_idx
    <3> SUFFICES ASSUME ~Reactor PROVE m_read_idx' = m_read_idx
      OBVIOUS
    <3>1. at[w] \notin {"read", "reset"}
      BY DEF ToldRight
    <3> QED
      BY <1>3, <3>1
      DEF WorkerStep, WorkerInterrupted, WorkerWakes, WorkerTakes, WorkerRuns, WorkerReads,
          Process, ProcessWrite, Rearm, WorkerDone, Close, CloseCheck, CloseRemove, CloseClear,
          CloseCount, Write, WriteNothing, WriteSome, WriteError, WriteReset, objVars
  <2> QED
    BY <1>0, <2>1, <2>2, <2>3, SameCause DEF CauseRight
<1> QED
  BY <1>1, <1>2, <1>3 DEF Next

\* At the start nothing is open.
LEMMA CauseInitially == Init => CauseRight
<1> SUFFICES ASSUME Init PROVE CauseRight
  OBVIOUS
<1>1. batch = {} /\ at[Main] = "epoll_wait" /\ \A f \in Fds : sock[f] = None
  BY DEF Init, Threads
<1> QED
  BY <1>1 DEF CauseRight

\* With responses that can be built, in both models, however slow the workers
\* and however overloaded the server: it closes an open connection only when the
\* client has gone, has been told so or has filled the read buffer, or when the
\* idle timer has taken its node.
THEOREM ClosesForCause == Spec => (NoFailure => ClosedForCause)
<1>1. Init => CauseRight
  BY CauseInitially
<1>2. /\ NoFailure /\ Types /\ Types' /\ KernelRight /\ ToldRight /\ HandRight /\ CauseRight
      /\ [Next]_vars
      => CauseRight'
  BY CauseInductive
<1>3. NoFailure => NoFailure'
  BY DEF NoFailure
<1>4. NoFailure /\ Types /\ HandRight /\ CauseRight /\ [Next]_vars =>
        [\A f \in Fds : sock[f] # None /\ sock'[f] = None =>
           \/ peer[sock[f]] = "half"
           \/ sock[f] \in toldClose
           \/ m_read_idx[f] = READ_BUFFER_SIZE
           \/ timer[f] = "none"]_vars
  <2> SUFFICES ASSUME NoFailure, Types, HandRight, CauseRight, [Next]_vars,
                      NEW f \in Fds, sock[f] # None, sock'[f] = None
               PROVE  Cause(f)
    BY DEF Cause, BufferFull
  <2>1. CASE UNCHANGED vars \/ ClientStep \/ AlarmFires \/ \E g \in Fds : Expire(g)
    BY <2>1 DEF vars, ClientStep, Connect, Send, Hangup, AlarmFires, Expire
  <2>2. ASSUME NEW w \in Workers, WorkerStep(w) \/ WorkerInterrupted(w)
        PROVE  Cause(f)
    BY <2>2, WorkersCloseNothing
  <2>3. ASSUME NEW g \in Fds, NEW c \in Conns, Accept(c, g)
        PROVE  Cause(f)
    BY <2>3 DEF Accept, Types, ObjectsOK
  <2>4. CASE CloseRemove(Main)
    <3>1. at[Main] = "remove" /\ mainfd \in Fds /\ Obj(Main) = mainfd
      BY <2>4 DEF CloseRemove, Types, LoopOK, HoldPlaces, Obj
    <3>2. f = mainfd
      BY <2>4, <3>1 DEF CloseRemove, Types, ObjectsOK
    <3> QED
      BY <3>1, <3>2 DEF CauseRight
  <2>5. CASE MainStep /\ ~CloseRemove(Main) /\ ~(\E g \in Fds, c \in Conns : Accept(c, g))
    <3>1. sock' = sock
      BY <2>5
      DEF MainStep, EpollWait, AcceptFails, AcceptRefuses, CountUp, DealWithSignal, EndBatch,
          TickEnd, AppendRequest, PostRequest, HandleHup, DealWithRead, DealWithWrite, TickOne,
          Close, CloseCheck, CloseClear, CloseCount, Write, WriteNothing, WriteSome, WriteError,
          WriteReset
    <3> QED
      BY <3>1
  <2> QED
    BY <2>1, <2>2, <2>3, <2>4, <2>5 DEF Next
<1> QED
  BY <1>1, <1>2, <1>3, <1>4, Invariant, HandInvariant, PTL DEF Spec, ClosedForCause

=============================================================================
