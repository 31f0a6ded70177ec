-------------------------- MODULE WebServerParties --------------------------
(***************************************************************************)
(* Who works on a connection.  Proofs, for every number of clients,        *)
(* descriptors and workers, about servers that are Steady: no request      *)
(* outlives its idle timer and every response can be built.                *)
(*                                                                         *)
(* The inductive invariant is PartyRight: a descriptor is armed, or it is  *)
(* reported in the batch, or in the event loop's hands, or queued once, or *)
(* with one worker that has not rearmed it yet, and no two of these at a   *)
(* time.  EPOLLONESHOT, the renewal of the timer before the request is     *)
(* queued and the order of the rearming calls keep it; in the reactor it   *)
(* does not cover the init() that write() calls after it has rearmed.      *)
(***************************************************************************)
EXTENDS WebServerProofs

Steady == ~SlowWork /\ NoFailure

\* Where a worker has an object that it has yet to rearm.
WorkPlaces == {"run", "read", "process", "prepare", "rearm_in", "rearm_out", "write"}

InWork(w, f) == at[w] \in WorkPlaces /\ request[w] = f
Queued(f) == \E i \in DOMAIN workqueue : workqueue[i] = f
Engaged(f) == Queued(f) \/ \E w \in Workers : InWork(w, f)

PartyRight ==
  /\ crossed = {}
  /\ \A i, j \in DOMAIN workqueue : workqueue[i] = workqueue[j] => i = j
  /\ \A f \in Fds, v, w \in Workers : InWork(v, f) /\ InWork(w, f) => v = w
  /\ \A f \in Fds, w \in Workers : InWork(w, f) => ~Queued(f)
  /\ \A f \in Fds : Engaged(f) =>
       ~Reported(f) /\ ~InHand(f) /\ timer[f] # "due" /\ epoll[f] = "spent"
  /\ \A f \in Fds : Reported(f) => epoll[f] = "spent"
  /\ at[Main] \in {"append_read", "append_write", "write"} => epoll[mainfd] = "spent"

\* What a queue holds after a push.
LEMMA PushedQueue ==
  ASSUME NEW q \in Seq(Fds), NEW f \in Fds
  PROVE  /\ DOMAIN Append(q, f) = 1..(Len(q) + 1) /\ DOMAIN q = 1..Len(q) /\ Len(q) \in Nat
         /\ \A i \in DOMAIN q : Append(q, f)[i] = q[i]
         /\ Append(q, f)[Len(q) + 1] = f
  OBVIOUS

\* What a queue holds after its oldest entry is popped.
LEMMA PoppedQueue ==
  ASSUME NEW q \in Seq(Fds), q # <<>>
  PROVE  /\ Head(q) = q[1] /\ 1 \in DOMAIN q
         /\ \A i \in DOMAIN Tail(q) :
              i \in Nat \ {0} /\ i + 1 \in DOMAIN q /\ Tail(q)[i] = q[i + 1]
  OBVIOUS

\* What follows the oldest entry of a queue is still there without it.
LEMMA LaterEntry ==
  ASSUME NEW q \in Seq(Fds), NEW i \in DOMAIN q, i # 1
  PROVE  i - 1 \in DOMAIN Tail(q) /\ Tail(q)[i - 1] = q[i]
  OBVIOUS

\* A step after which nobody else works on a descriptor.
LEMMA SameParties ==
  ASSUME PartyRight, UNCHANGED <<workqueue, request, crossed>>,
         \A w \in Workers : at'[w] = at[w],
         \A f \in Fds : Engaged(f) =>
           ~(Reported(f))' /\ ~(InHand(f))' /\ timer'[f] # "due" /\ epoll'[f] = "spent",
         \A f \in Fds : (Reported(f))' => epoll'[f] = "spent",
         at'[Main] \in {"append_read", "append_write", "write"} => epoll'[mainfd'] = "spent"
  PROVE  PartyRight'
<1>1. \A f \in Fds, w \in Workers : (InWork(w, f))' <=> InWork(w, f)
  BY DEF InWork
<1>2. \A f \in Fds : ((Queued(f))' <=> Queued(f)) /\ ((Engaged(f))' <=> Engaged(f))
  BY <1>1 DEF Queued, Engaged
<1> QED
  BY <1>1, <1>2 DEF PartyRight

\* The event loop goes on without a descriptor in its hands.
LEMMA EmptyHanded ==
  ASSUME PartyRight, UNCHANGED <<workqueue, request, crossed, epoll>>,
         \A w \in Workers : at'[w] = at[w], at'[Main] \notin HoldPlaces,
         batch' \subseteq batch, \A f \in Fds : timer'[f] # "due" \/ timer[f] = "due"
  PROVE  PartyRight'
<1>1. \A f \in Fds : ((Reported(f))' => Reported(f)) /\ ~(InHand(f))'
  BY DEF Reported, InHand
<1> QED
  BY <1>1, SameParties DEF PartyRight, HoldPlaces

\* epoll_wait reports armed descriptors.
LEMMA WaitParty ==
  ASSUME Types, PartyRight, EpollWait
  PROVE  PartyRight'
<1>1. /\ at'[Main] = "dispatch" /\ \A w \in Workers : at'[w] = at[w]
      /\ UNCHANGED <<workqueue, request, crossed, timer>> /\ batch' = Ready
      /\ epoll' = [f \in Fds |-> IF f \in Fired THEN "spent" ELSE epoll[f]]
  BY ServerAssumption
  DEF Types, ThreadsOK, Threads, ServerAssumption, EpollWait, Goto, pastVars, poolVars
<1>2. \A f \in Fds : (Reported(f))' => f \in Fired
  <2> SUFFICES ASSUME NEW f \in Fds, (Reported(f))'
               PROVE  f \in Fired
    OBVIOUS
  <2>1. PICK k \in {"hup", "in", "out"} : <<k, f>> \in Ready
    BY <1>1 DEF Reported
  <2>2. <<k, f>> # Listen /\ <<k, f>> # Pipe
    BY DEF Listen, Pipe
  <2> QED
    BY <2>1, <2>2 DEF Ready
<1>3. \A f \in Fds : Engaged(f) => f \notin Fired
  BY DEF PartyRight, Fired
<1> QED
  BY <1>1, <1>2, <1>3, SameParties DEF PartyRight, InHand, HoldPlaces

\* accept() returns a descriptor that nobody works on.
LEMMA AcceptParty ==
  ASSUME Types, KernelRight, PartyRight, NEW f \in Fds, NEW c \in Conns, Accept(c, f)
  PROVE  PartyRight'
<1>1. /\ at'[Main] = "count_up" /\ \A w \in Workers : at'[w] = at[w]
      /\ UNCHANGED <<workqueue, request>> /\ batch' \subseteq batch /\ sock[f] = None
      /\ epoll' = [epoll EXCEPT ![f] = "in"] /\ timer' = [timer EXCEPT ![f] = "fresh"]
      /\ mainfd' = f /\ crossed' = crossed
  BY ServerAssumption
  DEF Types, ThreadsOK, Threads, ServerAssumption, Accept, Accepting, Goto, poolVars
<1>2. ~Engaged(f) /\ ~Reported(f)
  BY <1>1 DEF KernelRight, BatchRight, PartyRight
<1>3. \A g \in Fds \ {f} : epoll'[g] = epoll[g] /\ timer'[g] = timer[g]
  BY <1>1 DEF Types, ObjectsOK, LoopOK
<1>4. \A g \in Fds : ((Reported(g))' => Reported(g)) /\ ((InHand(g))' => g = f)
  BY <1>1 DEF Reported, InHand
<1> QED
  BY <1>1, <1>2, <1>3, <1>4, SameParties DEF PartyRight

\* The event loop takes up a descriptor that was reported, or whose time is up.
LEMMA TakenUp ==
  ASSUME Types, Types', KernelRight, HandRight', PartyRight, NEW f \in Fds,
         HandleHup(f) \/ DealWithRead(f) \/ DealWithWrite(f) \/ TickOne(f)
  PROVE  PartyRight'
<1>1. /\ UNCHANGED <<workqueue, request, crossed, epoll>> /\ batch' \subseteq batch
      /\ \A w \in Workers : at'[w] = at[w]
      /\ at'[Main] \in HoldPlaces /\ mainfd' = f
  <2>1. \/ Goto(Main, "close") \/ Goto(Main, "append_read")
        \/ Goto(Main, "append_write") \/ Goto(Main, "write")
    BY DEF HandleHup, DealWithRead, DealWithWrite, TickOne
  <2> QED
    BY <2>1, ServerAssumption
    DEF HandleHup, DealWithRead, DealWithWrite, TickOne, Handle, Goto, HoldPlaces, clientVars,
        pastVars, poolVars, Types, ThreadsOK, Threads, ServerAssumption
<1>2. ~Engaged(f) /\ \A g \in Fds : timer'[g] # "due" \/ timer'[g] = timer[g]
  <2>1. CASE TickOne(f)
    BY <2>1 DEF TickOne, PartyRight, Types, LoopOK
  <2>2. CASE HandleHup(f) \/ DealWithRead(f) \/ DealWithWrite(f)
    <3>1. Reported(f) /\ timer' = timer
      BY <2>2 DEF HandleHup, DealWithRead, DealWithWrite, Handle, Reported
    <3> QED
      BY <3>1 DEF PartyRight
  <2> QED
    BY <2>1, <2>2
<1>3. \A g \in Fds : ((Reported(g))' => Reported(g)) /\ ((InHand(g))' => g = f)
  BY <1>1 DEF Reported, InHand
<1>4. at'[Main] \in {"append_read", "append_write", "write"} => epoll[f] = "spent"
  <2>1. CASE TickOne(f)
    BY <2>1 DEF TickOne, Goto, Types, ThreadsOK, Threads
  <2>2. CASE HandleHup(f) \/ DealWithRead(f) \/ DealWithWrite(f)
    BY <2>2 DEF HandleHup, DealWithRead, DealWithWrite, Handle, Reported, PartyRight
  <2> QED
    BY <2>1, <2>2
<1> QED
  BY <1>1, <1>2, <1>3, <1>4, SameParties DEF PartyRight

\* close_conn() and write() in the event loop work on the descriptor in its hands.
LEMMA HeldParty ==
  ASSUME Types, HandRight, PartyRight, Close(Main) \/ Write(Main)
  PROVE  PartyRight'
<1>0. /\ at \in [Threads -> MainPlaces \cup WorkerPlaces] /\ Main \in Threads
      /\ Main \notin Workers /\ Workers \subseteq Threads /\ Obj(Main) = mainfd
  BY ServerAssumption DEF Types, ThreadsOK, Threads, ServerAssumption, Obj
<1>1. /\ UNCHANGED <<workqueue, request, crossed, batch, mainfd>>
      /\ \A w \in Workers : at'[w] = at[w]
      /\ at'[Main] \in {"dispatch", "close", "reset", "remove", "clear", "count_down"}
  <2>1. \E p \in {"dispatch", "close", "reset", "remove", "clear", "count_down"} : Goto(Main, p)
    BY <1>0 DEF Close, CloseCheck, CloseRemove, CloseClear, CloseCount, CloseReturn, Write,
                WriteNothing, WriteSome, WriteError, WriteReset, WriteReturns
  <2>2. UNCHANGED <<workqueue, request, crossed, batch, mainfd>>
    BY DEF Close, CloseCheck, CloseRemove, CloseClear, CloseCount, Write, WriteNothing,
           WriteSome, InAccept, WriteError, WriteReset, clientVars, pastVars, poolVars, loopVars
  <2> QED
    BY <1>0, <2>1, <2>2 DEF Goto
<1>2. CASE CloseCount(Main)
  <2>1. UNCHANGED <<epoll, timer>> /\ at'[Main] = "dispatch"
    BY <1>0, <1>2 DEF CloseCount, CloseReturn, Goto, loopVars
  <2> QED
    BY <1>1, <2>1, EmptyHanded DEF HoldPlaces
<1>3. CASE ~CloseCount(Main)
  <2>1. mainfd \in Fds /\ InHand(mainfd)
    BY <1>3 DEF Close, CloseCheck, CloseRemove, CloseClear, Write, WriteNothing, WriteSome,
                WriteError, WriteReset, HoldPlaces, Types, LoopOK, InHand
  <2>2. ~Engaged(mainfd) /\ ~Reported(mainfd)
    BY <2>1 DEF PartyRight, HandRight
  <2>3. \A g \in Fds \ {mainfd} : epoll'[g] = epoll[g]
    <3>1. \/ epoll' = epoll \/ epoll' = [epoll EXCEPT ![mainfd] = "off"]
          \/ epoll' = [epoll EXCEPT ![mainfd] = "in"] \/ epoll' = [epoll EXCEPT ![mainfd] = "out"]
      BY <1>0 DEF Close, CloseCheck, CloseRemove, CloseClear, CloseCount, Write,
                  WriteNothing, WriteSome, WriteError, WriteReset, Modfd
    <3> QED
      BY <3>1 DEF Types, ObjectsOK
  <2>4. \A g \in Fds \ {mainfd} : timer'[g] = timer[g]
    <3>1. timer' = timer \/ timer' = [timer EXCEPT ![mainfd] = "fresh"]
      BY <1>0 DEF Close, CloseCheck, CloseRemove, CloseClear, CloseCount, Write, WriteNothing,
                  WriteSome, WriteError, WriteReset, WriteReturns, Adjusted, loopVars
    <3> QED
      BY <3>1 DEF Types, LoopOK
  <2>5. \A g \in Fds : ((Reported(g))' <=> Reported(g)) /\ ((InHand(g))' => g = mainfd)
    BY <1>1 DEF Reported, InHand
  <2> QED
    BY <1>1, <2>1, <2>2, <2>3, <2>4, <2>5, SameParties DEF PartyRight
<1> QED
  BY <1>2, <1>3

\* append() queues the descriptor in the event loop's hands, its timer renewed.
LEMMA AppendParty ==
  ASSUME Types, HandRight, PartyRight, AppendRequest
  PROVE  PartyRight'
<1> DEFINE f == mainfd
<1>0. /\ at[Main] \in {"append_read", "append_write"} /\ f \in Fds /\ InHand(f)
      /\ workqueue \in Seq(Fds) /\ epoll[f] = "spent" /\ ~Engaged(f) /\ ~Reported(f)
  BY DEF AppendRequest, HoldPlaces, InHand, Types, ThreadsOK, LoopOK, PartyRight, HandRight,
         Pool!TypeOK
<1>1. /\ UNCHANGED <<request, crossed, epoll, batch>> /\ \A w \in Workers : at'[w] = at[w]
      /\ at'[Main] \in {"dispatch", "post"}
  BY ServerAssumption
  DEF AppendRequest, Pool!Enqueue, Goto, clientVars, pastVars, Types, ThreadsOK, Threads,
      ServerAssumption
<1>2. /\ timer'[f] # "due" /\ \A g \in Fds \ {f} : timer'[g] = timer[g]
  BY <1>0 DEF AppendRequest, Adjusted, Types, LoopOK
<1>3. \A g \in Fds : ((Reported(g))' <=> Reported(g)) /\ ~(InHand(g))'
  BY <1>1 DEF Reported, InHand, HoldPlaces
<1>4. \A g \in Fds, w \in Workers : (InWork(w, g))' <=> InWork(w, g)
  BY <1>1 DEF InWork
<1>5. CASE workqueue' = workqueue
  <2>1. \A g \in Fds : Engaged(g) => timer'[g] # "due"
    BY <1>0, <1>2 DEF PartyRight
  <2> QED
    BY <1>1, <1>3, <1>5, <2>1, SameParties DEF PartyRight
<1>6. CASE workqueue' = Append(workqueue, f)
  <2>1. \A g \in Fds : (Queued(g))' <=> Queued(g) \/ g = f
    BY <1>0, <1>6, PushedQueue DEF Queued
  <2>2. \A i, j \in DOMAIN workqueue' : workqueue'[i] = workqueue'[j] => i = j
    <3>1. \A i \in DOMAIN workqueue : workqueue[i] # f
      BY <1>0 DEF Engaged, Queued
    <3> QED
      BY <1>0, <1>6, <3>1, PushedQueue DEF PartyRight
  <2>3. \A g \in Fds : (Engaged(g))' <=> Engaged(g) \/ g = f
    BY <1>4, <2>1 DEF Engaged
  <2>4. \A w \in Workers : ~InWork(w, f)
    BY <1>0 DEF Engaged
  <2> QED
    BY <1>0, <1>1, <1>2, <1>3, <1>4, <2>1, <2>2, <2>3, <2>4 DEF PartyRight
<1> QED
  BY <1>5, <1>6 DEF AppendRequest, Pool!Enqueue

\* A worker keeps its object, or lets go of it, rearmed or not.
LEMMA WorkParty ==
  ASSUME PartyRight, NEW w \in Workers,
         UNCHANGED <<workqueue, batch, mainfd, timer, crossed>>, at'[Main] = at[Main],
         \A v \in Workers \ {w} : at'[v] = at[v] /\ request'[v] = request[v],
         \A f \in Fds : (InWork(w, f))' => InWork(w, f) /\ epoll'[f] = epoll[f],
         \A f \in Fds : epoll'[f] = epoll[f] \/ InWork(w, f),
         at[Main] \in {"append_read", "append_write", "write"} => mainfd \in Fds
  PROVE  PartyRight'
<1>1. \A f \in Fds, v \in Workers \ {w} : (InWork(v, f))' <=> InWork(v, f)
  BY DEF InWork
<1>2. \A f \in Fds : /\ (Queued(f))' <=> Queued(f)
                     /\ (Reported(f))' <=> Reported(f)
                     /\ (InHand(f))' <=> InHand(f)
  BY DEF Queued, Reported, InHand
<1>3. \A f \in Fds : (Engaged(f))' => Engaged(f) /\ epoll'[f] = epoll[f]
  <2> SUFFICES ASSUME NEW f \in Fds, (Engaged(f))'
               PROVE  Engaged(f) /\ epoll'[f] = epoll[f]
    OBVIOUS
  <2>1. CASE (InWork(w, f))'
    BY <2>1 DEF Engaged
  <2>2. CASE Queued(f)
    BY <2>2 DEF Engaged, PartyRight
  <2>3. ASSUME NEW v \in Workers \ {w}, InWork(v, f)
        PROVE  Engaged(f) /\ epoll'[f] = epoll[f]
    BY <2>3 DEF Engaged, PartyRight
  <2> QED
    BY <1>1, <1>2, <2>1, <2>2, <2>3 DEF Engaged
<1>4. \A f \in Fds : Engaged(f) => ~Reported(f) /\ ~InHand(f)
  BY DEF PartyRight
<1>5. \A f \in Fds : (Reported(f))' => epoll'[f] = "spent"
  BY <1>2, <1>4 DEF PartyRight, Engaged
<1>6. at'[Main] \in {"append_read", "append_write", "write"} => epoll'[mainfd'] = "spent"
  BY <1>4 DEF PartyRight, Engaged, InHand, HoldPlaces
<1>7. \A f \in Fds, u, v \in Workers : (InWork(u, f))' /\ (InWork(v, f))' => u = v
  BY <1>1 DEF PartyRight
<1>8. \A f \in Fds, v \in Workers : (InWork(v, f))' => ~(Queued(f))'
  BY <1>1, <1>2 DEF PartyRight
<1> QED
  BY <1>2, <1>3, <1>4, <1>5, <1>6, <1>7, <1>8 DEF PartyRight

\* A worker takes the oldest entry of the queue.
LEMMA TakeParty ==
  ASSUME Types, PartyRight, NEW w \in Workers, WorkerTakes(w)
  PROVE  PartyRight'
<1>0. /\ at \in [Threads -> MainPlaces \cup WorkerPlaces] /\ Main \notin Workers
      /\ Workers \subseteq Threads /\ workqueue \in Seq(Fds)
      /\ request \in [Workers -> Fds \cup {None}]
      /\ at[Main] \in {"append_read", "append_write", "write"} => mainfd \in Fds
  BY ServerAssumption
  DEF Types, ThreadsOK, LoopOK, HoldPlaces, Threads, ServerAssumption, Pool!TypeOK
<1>1. /\ UNCHANGED <<batch, mainfd, timer, crossed, epoll>> /\ at'[Main] = at[Main]
      /\ at[w] = "idle"
      /\ \A v \in Workers \ {w} : at'[v] = at[v] /\ request'[v] = request[v]
  BY <1>0 DEF WorkerTakes, Pool!Take, loopVars, clientVars, pastVars
<1>2. \A f \in Fds : ~InWork(w, f)
  BY <1>1 DEF InWork, WorkPlaces
<1>3. CASE workqueue = <<>>
  <2>1. UNCHANGED <<at, workqueue, request>>
    BY <1>3 DEF WorkerTakes, Pool!Take
  <2> QED
    BY <1>0, <1>1, <1>2, <2>1, WorkParty DEF InWork
<1>4. CASE workqueue # <<>>
  <2>1. /\ request'[w] = Head(workqueue) /\ workqueue' = Tail(workqueue)
        /\ at'[w] \in {"run", "process"}
    BY <1>0, <1>4 DEF WorkerTakes, Pool!Take
  <2>2. PICK f \in Fds : f = workqueue[1] /\ f = Head(workqueue)
    BY <1>0, <1>4, PoppedQueue
  <2>3. Queued(f) /\ \A g \in Fds : (Queued(g))' => Queued(g) /\ g # f
    <3>1. 1 \in DOMAIN workqueue
      BY <1>0, <1>4, PoppedQueue
    <3>2. ASSUME NEW g \in Fds, (Queued(g))'
          PROVE  Queued(g) /\ g # f
      <4>1. PICK i \in DOMAIN Tail(workqueue) : Tail(workqueue)[i] = g
        BY <2>1, <3>2 DEF Queued
      <4>2. i \in Nat \ {0} /\ i + 1 \in DOMAIN workqueue /\ workqueue[i + 1] = g
        BY <1>0, <1>4, <4>1, PoppedQueue
      <4>3. i + 1 # 1
        BY <4>2
      <4> QED
        BY <2>2, <3>1, <4>2, <4>3 DEF Queued, PartyRight
    <3> QED
      BY <2>2, <3>1, <3>2 DEF Queued
  <2>4. \A i, j \in DOMAIN workqueue' : workqueue'[i] = workqueue'[j] => i = j
    <3> SUFFICES ASSUME NEW i \in DOMAIN Tail(workqueue), NEW j \in DOMAIN Tail(workqueue),
                        Tail(workqueue)[i] = Tail(workqueue)[j]
                 PROVE  i = j
      BY <2>1
    <3>1. /\ i \in Nat /\ j \in Nat /\ i + 1 \in DOMAIN workqueue /\ j + 1 \in DOMAIN workqueue
          /\ workqueue[i + 1] = workqueue[j + 1]
      BY <1>0, <1>4, PoppedQueue
    <3>2. i + 1 = j + 1
      BY <3>1 DEF PartyRight
    <3> QED
      BY <3>1, <3>2
  <2>5. \A g \in Fds, v \in Workers : (InWork(v, g))' <=> InWork(v, g) \/ (v = w /\ g = f)
    BY <1>1, <1>2, <2>1, <2>2 DEF InWork, WorkPlaces
  <2>6. \A g \in Fds : /\ (Engaged(g))' => Engaged(g)
                       /\ (Reported(g))' <=> Reported(g)
                       /\ (InHand(g))' <=> InHand(g)
    BY <1>1, <2>3, <2>5 DEF Engaged, Reported, InHand
  <2>7. \A v \in Workers : ~InWork(v, f)
    BY <2>3 DEF PartyRight
  <2> QED
    BY <1>1, <2>3, <2>4, <2>5, <2>6, <2>7 DEF PartyRight
<1> QED
  BY <1>3, <1>4

\* No worker sends a response while the event loop is still accepting.
LEMMA SendsNoneEarly ==
  ASSUME NoFailure, Types, HandRight, PartyRight,
         NEW w \in Workers, WorkerStep(w) \/ WorkerInterrupted(w)
  PROVE  crossed' = crossed
<1>0. w # Main /\ w \in Threads /\ Obj(w) = request[w]
  BY ServerAssumption DEF ServerAssumption, Threads, Obj
<1>1. CASE WriteSome(w)
  <2>1. at[w] = "write" /\ request[w] \in Fds /\ InWork(w, request[w])
    BY <1>0, <1>1, HeldObject DEF WriteSome, InWork, WorkPlaces
  <2>2. ~InAccept(request[w])
    BY <2>1 DEF PartyRight, Engaged, InHand, HoldPlaces, InAccept
  <2> QED
    BY <1>0, <1>1, <2>2 DEF WriteSome
<1>2. CASE ~WriteSome(w)
  BY <1>2
  DEF WorkerStep, WorkerWakes, WorkerTakes, WorkerRuns, WorkerReads, Process, ProcessWrite, Rearm,
      WorkerDone, WorkerInterrupted, Close, CloseCheck, CloseRemove, CloseClear, CloseCount,
      Write, WriteNothing, WriteError, WriteReset, clientVars, pastVars
<1> QED
  BY <1>1, <1>2

\* Whatever a worker does, a descriptor has one party at a time.
LEMMA WorkerParty ==
  ASSUME NoFailure, Types, HandRight, PartyRight,
         NEW w \in Workers, WorkerStep(w) \/ WorkerInterrupted(w)
  PROVE  PartyRight'
<1>0. /\ at \in [Threads -> MainPlaces \cup WorkerPlaces] /\ w # Main /\ w \in Threads
      /\ request \in [Workers -> Fds \cup {None}] /\ None \notin Fds /\ Obj(w) = request[w]
      /\ at[Main] \in {"append_read", "append_write", "write"} => mainfd \in Fds
  BY ServerAssumption
  DEF Types, ThreadsOK, LoopOK, HoldPlaces, Threads, ServerAssumption, Pool!TypeOK, Obj
<1>1. /\ UNCHANGED <<batch, mainfd, timer, crossed>> /\ at'[Main] = at[Main]
      /\ \A v \in Workers \ {w} : at'[v] = at[v]
  BY WorkersCloseNothing, SendsNoneEarly
<1>2. ~Close(w)
  BY DEF HandRight, Close, CloseCheck, CloseRemove, CloseClear, CloseCount
<1>3. CASE WorkerWakes(w) \/ WorkerInterrupted(w)
  <2>1. UNCHANGED <<at, workqueue, request, epoll>>
    BY <1>3 DEF WorkerWakes, WorkerInterrupted, Pool!Wake, Pool!Interrupted
  <2> QED
    BY <1>0, <1>1, <2>1, WorkParty DEF InWork
<1>4. CASE WorkerRuns(w) \/ WorkerReads(w) \/ Process(w) \/ ProcessWrite(w)
  <2>1. UNCHANGED <<workqueue, request, epoll>>
    BY <1>4 DEF WorkerRuns, WorkerReads, Process, ProcessWrite, poolVars
  <2>2. at[w] \in WorkPlaces
    BY <1>4 DEF WorkerRuns, WorkerReads, Process, ProcessWrite, WorkPlaces
  <2> QED
    BY <1>0, <1>1, <2>1, <2>2, WorkParty DEF InWork
<1>5. CASE Rearm(w) \/ WriteNothing(w) \/ WriteSome(w) \/ WriteError(w)
  <2>1. UNCHANGED <<workqueue, request>> /\ at[w] \in WorkPlaces
    BY <1>5 DEF Rearm, WriteNothing, WriteSome, WriteError, poolVars, WorkPlaces
  <2>2. at'[w] \in {"done", "reset"}
    <3>1. Goto(w, "done") \/ Goto(w, "reset")
      BY <1>0, <1>5 DEF Rearm, WriteNothing, WriteSome, WriteError, WriteReturns
    <3> QED
      BY <1>0, <3>1 DEF Goto
  <2>3. \A f \in Fds : epoll'[f] = epoll[f] \/ f = request[w]
    <3>1. epoll' = epoll \/ Modfd(request[w], "in") \/ Modfd(request[w], "out")
      BY <1>0, <1>5 DEF Rearm, WriteNothing, WriteSome, WriteError
    <3> QED
      BY <3>1 DEF Modfd, Types, ObjectsOK
  <2> QED
    BY <1>0, <1>1, <2>1, <2>2, <2>3, WorkParty DEF InWork, WorkPlaces
<1>6. CASE WriteReset(w) \/ WorkerDone(w)
  <2>1. /\ UNCHANGED <<workqueue, epoll>> /\ at'[w] \in {"done", "idle"}
        /\ \A v \in Workers \ {w} : request'[v] = request[v]
    BY <1>0, <1>6 DEF WriteReset, WriteReturns, WorkerDone, Pool!Finish, Goto, poolVars
  <2> QED
    BY <1>0, <1>1, <2>1, WorkParty DEF InWork, WorkPlaces
<1> QED
  BY <1>2, <1>3, <1>4, <1>5, <1>6, TakeParty DEF WorkerStep, Write

\* Every step leaves each descriptor with one party.
LEMMA PartyInductive ==
  /\ Steady /\ Types /\ KernelRight /\ HandRight /\ PartyRight /\ [Next]_vars
  /\ Types' /\ HandRight'
  => PartyRight'
<1> SUFFICES ASSUME Steady, Types, KernelRight, HandRight, PartyRight, [Next]_vars,
                    Types', HandRight'
             PROVE  PartyRight'
  OBVIOUS
<1>0. /\ ~SlowWork /\ NoFailure /\ Main \in Threads /\ Main \notin Workers
      /\ Workers \subseteq Threads /\ at \in [Threads -> MainPlaces \cup WorkerPlaces]
  BY ServerAssumption DEF Steady, Types, ThreadsOK, Threads, ServerAssumption
<1>1. CASE UNCHANGED vars \/ ClientStep \/ AlarmFires
  <2>1. UNCHANGED <<workqueue, request, crossed, epoll, at, batch, mainfd, timer>>
    BY <1>1
    DEF vars, ClientStep, Connect, Send, Hangup, AlarmFires, loopVars, clientVars, pastVars,
        poolVars
  <2> QED
    BY <2>1 DEF PartyRight, Engaged, InWork, Queued, Reported, InHand
<1>2. ASSUME NEW f \in Fds, Expire(f)
      PROVE  PartyRight'
  <2>1. /\ UNCHANGED <<workqueue, request, crossed, epoll, at, batch, mainfd>>
        /\ timer' = [timer EXCEPT ![f] = "due"] /\ ~Busy(f)
    BY <1>0, <1>2 DEF Expire, clientVars, pastVars, poolVars
  <2>2. ~Engaged(f) /\ \A g \in Fds \ {f} : timer'[g] = timer[g]
    BY <2>1 DEF Busy, Engaged, InWork, Queued, Types, LoopOK
  <2>3. \A g \in Fds : ((Reported(g))' <=> Reported(g)) /\ ((InHand(g))' <=> InHand(g))
    BY <2>1 DEF Reported, InHand
  <2> QED
    BY <2>1, <2>2, <2>3, SameParties DEF PartyRight
<1>3. CASE MainStep
  <2>1. CASE AcceptFails \/ AcceptRefuses \/ CountUp \/ DealWithSignal \/ EndBatch
             \/ TickEnd \/ PostRequest
    <3>0. CountUp => crossed' = crossed
      <4>1. CountUp => mainfd \in Fds /\ InHand(mainfd)
        BY DEF CountUp, InHand, HoldPlaces, Types, LoopOK
      <4>2. CountUp => ~UsedAt(mainfd, "prepare")
        BY <4>1 DEF PartyRight, Engaged, InWork, WorkPlaces, UsedAt
      <4> QED
        BY <4>2 DEF CountUp
    <3>1. /\ UNCHANGED <<workqueue, request, crossed, epoll, timer>> /\ batch' \subseteq batch
      BY <2>1, <3>0
      DEF AcceptFails, AcceptRefuses, CountUp, DealWithSignal, EndBatch, TickEnd, PostRequest,
          Accepting, Handle, Pool!Post, loopVars, clientVars, pastVars, poolVars
    <3>2. /\ \A w \in Workers : at'[w] = at[w]
          /\ at'[Main] \in {"epoll_wait", "dispatch", "accept", "tick"}
      BY <1>0, <2>1
      DEF AcceptFails, AcceptRefuses, CountUp, DealWithSignal, EndBatch, TickEnd, PostRequest,
          Handle, Goto
    <3> QED
      BY <3>1, <3>2, EmptyHanded DEF HoldPlaces
  <2> QED
    BY <1>3, <2>1, WaitParty, AcceptParty, TakenUp, HeldParty, AppendParty DEF MainStep
<1> QED
  BY <1>0, <1>1, <1>2, <1>3, WorkerParty DEF Next

\* At the start nobody works on anything.
LEMMA PartyInitially == Init => PartyRight
<1> SUFFICES ASSUME Init PROVE PartyRight
  OBVIOUS
<1>1. /\ workqueue = <<>> /\ batch = {} /\ at[Main] = "epoll_wait" /\ crossed = {}
      /\ \A w \in Workers : at[w] = "idle"
  BY ServerAssumption DEF Init, Threads, Pool!Init, ServerAssumption
<1>2. DOMAIN workqueue = {}
  BY <1>1
<1> QED
  BY <1>1, <1>2 DEF PartyRight, Engaged, Queued, InWork, WorkPlaces, Reported, InHand, HoldPlaces

\* What the theorems below have in common.
LEMMA PartyInvariant == Spec => [](Steady => HandRight /\ PartyRight)
<1>1. Init => (Steady => PartyRight)
  BY PartyInitially
<1>2. /\ Types /\ KernelRight /\ (NoFailure => HandRight) /\ (Steady => PartyRight)
      /\ Types' /\ (NoFailure => HandRight)' /\ [Next]_vars
      => (Steady => PartyRight)'
  <2>1. (Steady' <=> Steady) /\ (NoFailure' <=> NoFailure) /\ (Steady => NoFailure)
    BY DEF NoFailure, Steady
  <2> QED
    BY <2>1, PartyInductive
<1>3. Steady => NoFailure
  BY DEF Steady
<1> QED
  BY <1>1, <1>2, <1>3, KernelInvariant, HandInvariant, PTL DEF Spec
-----------------------------------------------------------------------------
(* What follows.                                                            *)
\* For any number of clients, descriptors and workers, in the proactor whose
\* requests end before their timers and whose responses can be built, no two
\* threads operate on one http_conn: EPOLLONESHOT, the order of the rearming
\* calls and the timer's renewal before the request is posted see to it.
THEOREM OneThreadAtATime == Spec => [](Steady /\ ~Reactor => OneThreadPerConn)
<1>1. Types /\ ToldRight /\ HandRight /\ PartyRight /\ ~Reactor => OneThreadPerConn
  <2> SUFFICES ASSUME Types, ToldRight, HandRight, PartyRight, ~Reactor,
                      NEW t \in Threads, NEW u \in Threads, t # u, Using(t), Using(u),
                      Obj(t) = Obj(u)
               PROVE  FALSE
    BY DEF OneThreadPerConn
  <2>1. \A w \in Workers : Using(w) => w # Main /\ InWork(w, request[w]) /\ request[w] \in Fds
    <3>1. \A w \in Workers : Using(w) => w # Main /\ at[w] # "idle" /\ Obj(w) = request[w]
      BY ServerAssumption DEF Using, Obj, ServerAssumption
    <3> QED
      BY <3>1, HeldObject, ServerAssumption
      DEF Using, InWork, WorkPlaces, ToldRight, HandRight, Threads, Types, ThreadsOK, WorkerPlaces
  <2>2. Using(Main) => InHand(mainfd)
    BY DEF Using, InHand, HoldPlaces, Types, ThreadsOK, MainPlaces
  <2>3. CASE t # Main /\ u # Main
    BY <2>1, <2>3 DEF PartyRight, Obj, Threads
  <2>4. CASE t = Main \/ u = Main
    BY <2>1, <2>2, <2>4 DEF PartyRight, Engaged, Obj, Threads
  <2> QED
    BY <2>3, <2>4
<1> QED
  BY <1>1, Invariant, PartyInvariant, PTL

\* With requests that end before their timers and responses that can be built,
\* whatever connections are opened and closed on one descriptor and however
\* their requests are cut and queued, no client receives a response made of
\* another client's bytes; in the reactor too, where a worker may still reset
\* the object that the next one already reads into.
THEOREM ResponsesNeverAstray == Spec => [](Steady => ResponseToRequester)
<1>1. ContentRight /\ PartyRight => ResponseToRequester
  BY DEF ContentRight, PartyRight, ResponseToRequester
<1> QED
  BY <1>1, Invariant, PartyInvariant, PTL

\* Under the same conditions, in both models: no response goes astray, nothing
\* leaks, adjust_timer() finds a node and m_user_count is right.
THEOREM AllServedRightly == Spec => [](Steady => ServedRightly)
<1>1. Steady => NoFailure
  BY DEF Steady
<1>2. ResponseToRequester /\ NoLeak /\ AdjustHasNode /\ CountExact => ServedRightly
  BY DEF ServedRightly
<1> QED
  BY <1>1, <1>2, ResponsesNeverAstray, NothingLeaks, AdjustsSafely, CountAlwaysExact, PTL
-----------------------------------------------------------------------------
(* No descriptor is left disarmed.                                          *)

\* The rest is about a steady proactor.
Undisturbed == Steady /\ ~Reactor

Orderly == KernelRight /\ ToldRight /\ HandRight /\ PartyRight

\* The queue has room for every descriptor.
Roomy == IsFiniteSet(Fds) /\ Cardinality(Fds) =< MaxRequests

\* Somebody is going to rearm or close the descriptor.
Owned(f) == Reported(f) \/ Queued(f) \/ InHand(f) \/ \E w \in Workers : InWork(w, f)

StrandRight ==
  /\ \A f \in Fds : epoll[f] = "spent" => Owned(f)
  /\ at[Main] \in {"count_up", "reset"} => epoll[mainfd] # "spent"

\* A queue that holds no descriptor twice and lacks one is not full.
LEMMA NeverFull ==
  ASSUME Types, Orderly, Roomy, NEW f \in Fds, ~Queued(f)
  PROVE  ~Pool!Full
<1> SUFFICES ASSUME Pool!Full PROVE FALSE
  OBVIOUS
<1> DEFINE n == Len(workqueue)
           others == Fds \ {f}
<1>1. workqueue \in Seq(Fds) /\ n \in Nat /\ MaxRequests \in Nat /\ n >= MaxRequests
  BY ServerAssumption DEF Types, ThreadsOK, Pool!TypeOK, Pool!Full, ServerAssumption
<1>2. /\ IsFiniteSet(others) /\ Cardinality(others) = Cardinality(Fds) - 1
      /\ Cardinality(Fds) \in Nat
  BY FS_RemoveElement, FS_CardinalityType DEF Roomy
<1>3. IsFiniteSet(1..n) /\ Cardinality(1..n) = n
  <2>1. ASSUME NEW m \in Nat PROVE IsFiniteSet(1..m) /\ Cardinality(1..m) = m
    <3>1. IsFiniteSet(1..m) /\ Cardinality(1..m) = IF 1 > m THEN 0 ELSE m - 1 + 1
      BY FS_Interval
    <3> QED
      BY <3>1
  <2> HIDE DEF n
  <2> QED
    BY <1>1, <2>1
<1>4. \A i \in 1..n : workqueue[i] \in others
  BY <1>1 DEF Queued
<1>5. Cardinality(others) < Cardinality(1..n)
  BY <1>1, <1>2, <1>3 DEF Roomy
<1>6. PICK q \in [1..n -> others] : \A i \in 1..n : q[i] = workqueue[i]
  <2> DEFINE q == [i \in 1..n |-> workqueue[i]]
  <2>1. q \in [1..n -> others] /\ \A i \in 1..n : q[i] = workqueue[i]
    BY <1>4
  <2> QED
    BY <2>1
<1>7. \E i, j \in 1..n : i # j /\ q[i] = q[j]
  <2>1. PICK D, R : D = 1..n /\ R = others
    OBVIOUS
  <2> HIDE DEF others, n
  <2>2. IsFiniteSet(D) /\ IsFiniteSet(R) /\ Cardinality(R) < Cardinality(D) /\ q \in [D -> R]
    BY <1>2, <1>3, <1>5, <1>6, <2>1
  <2>3. \E x, y \in D : x # y /\ q[x] = q[y]
    BY <2>2, FS_PigeonHole
  <2> QED
    BY <2>1, <2>3
<1> QED
  BY <1>1, <1>6, <1>7 DEF Orderly, PartyRight

\* A step of the event loop that concerns one descriptor or none.
LEMMA MainStrand ==
  ASSUME StrandRight, NEW f,
         UNCHANGED request, \A w \in Workers : at'[w] = at[w],
         \A g \in Fds : Queued(g) => (Queued(g))',
         \A g \in Fds \ {f} : /\ epoll'[g] = "spent" => epoll[g] = "spent"
                              /\ Reported(g) => (Reported(g))'
                              /\ ~InHand(g),
         f \in Fds /\ epoll'[f] = "spent" => (Queued(f))' \/ (Reported(f))' \/ (InHand(f))',
         at'[Main] \in {"count_up", "reset"} => epoll'[mainfd'] # "spent"
  PROVE  StrandRight'
<1>1. \A g \in Fds, w \in Workers : InWork(w, g) => (InWork(w, g))'
  BY DEF InWork
<1>2. \A g \in Fds \ {f} : epoll'[g] = "spent" => (Owned(g))'
  BY <1>1 DEF StrandRight, Owned
<1>3. f \in Fds /\ epoll'[f] = "spent" => (Owned(f))'
  BY DEF Owned
<1> QED
  BY <1>2, <1>3 DEF StrandRight

\* A step that concerns no descriptor.
LEMMA NobodyStrands ==
  ASSUME Types, StrandRight, NEW p \in MainPlaces \ HoldPlaces,
         at[Main] \notin HoldPlaces, at' = [at EXCEPT ![Main] = p],
         UNCHANGED <<workqueue, request, epoll>>,
         \A g \in Fds : Reported(g) => (Reported(g))'
  PROVE  StrandRight'
<1>1. \A w \in Workers : at'[w] = at[w]
  BY ServerAssumption DEF Types, ThreadsOK, Threads, ServerAssumption
<1>2. at'[Main] = p
  BY DEF Types, ThreadsOK, Threads
<1>3. \A g \in Fds : ~InHand(g) /\ (Queued(g) => (Queued(g))') /\ epoll'[g] = epoll[g]
  BY DEF InHand, Queued
<1>4. None \notin Fds /\ p \notin {"count_up", "reset"}
  BY ServerAssumption DEF ServerAssumption, HoldPlaces
<1> QED
  BY <1>1, <1>2, <1>3, <1>4, MainStrand

\* The steps of the event loop that read events keep every descriptor owned.
LEMMA LoopStrand ==
  ASSUME Types, Orderly, StrandRight, ~Reactor,
         \/ EpollWait \/ AcceptFails \/ AcceptRefuses \/ CountUp \/ DealWithSignal
         \/ EndBatch \/ TickEnd \/ PostRequest
  PROVE  StrandRight'
<1>0. /\ at \in [Threads -> MainPlaces \cup WorkerPlaces] /\ Main \in Threads
      /\ Main \notin Workers /\ Workers \subseteq Threads
  BY ServerAssumption DEF Types, ThreadsOK, Threads, ServerAssumption
<1>1. CASE EpollWait
  <2>1. /\ at[Main] = "epoll_wait" /\ at'[Main] = "dispatch" /\ batch = {}
        /\ \A w \in Workers : at'[w] = at[w]
        /\ UNCHANGED <<workqueue, request>>
    BY <1>0, <1>1 DEF EpollWait, Goto, poolVars, Orderly, KernelRight,
                     BatchRight
  <2>2. ASSUME NEW g \in Fds, epoll'[g] = "spent"
        PROVE  (Owned(g))'
    <3>1. CASE g \in Fired
      <4>1. Event(g) \in {"hup", "in", "out"}
        BY <3>1 DEF Fired, Event
      <4>2. <<Event(g), g>> \in batch'
        BY <1>1, <3>1 DEF EpollWait, Ready
      <4>3. (Reported(g))'
        <5>1. PICK k \in {"hup", "in", "out"} : k = Event(g)
          BY <4>1
        <5>2. <<k, g>> \in batch'
          BY <4>2, <5>1
        <5> QED
          BY <5>2 DEF Reported
      <4> QED
        BY <4>3 DEF Owned
    <3>2. CASE g \notin Fired
      <4>1. epoll[g] = "spent"
        BY <1>1, <2>2, <3>2 DEF EpollWait
      <4>2. ~Reported(g) /\ ~InHand(g)
        BY <2>1 DEF Reported, InHand, HoldPlaces
      <4>3. Queued(g) \/ \E w \in Workers : InWork(w, g)
        BY <4>1, <4>2 DEF StrandRight, Owned
      <4>4. (Queued(g) => (Queued(g))') /\ \A w \in Workers : InWork(w, g) => (InWork(w, g))'
        BY <2>1 DEF Queued, InWork
      <4> QED
        BY <4>3, <4>4 DEF Owned
    <3> QED
      BY <3>1, <3>2
  <2> QED
    BY <2>1, <2>2 DEF StrandRight
<1>2. CASE AcceptFails \/ AcceptRefuses \/ DealWithSignal
  <2>1. /\ at[Main] \in {"dispatch", "accept"}
        /\ UNCHANGED <<workqueue, request, epoll>>
        /\ batch' = batch \ {Listen} \/ batch' = batch \ {Pipe}
    BY <1>2 DEF AcceptFails, AcceptRefuses, DealWithSignal, Accepting, Handle, poolVars
  <2>2. at' = [at EXCEPT ![Main] = "dispatch"]
    BY <1>0, <1>2 DEF AcceptFails, AcceptRefuses, DealWithSignal, Handle, Goto
  <2>3. \A g \in Fds : Reported(g) => (Reported(g))'
    BY <2>1 DEF Reported, Listen, Pipe
  <2>4. "dispatch" \in MainPlaces \ HoldPlaces /\ at[Main] \notin HoldPlaces
    BY <2>1 DEF MainPlaces, HoldPlaces
  <2> QED
    BY <2>1, <2>2, <2>3, <2>4, NobodyStrands
<1>3. CASE EndBatch \/ TickEnd \/ PostRequest
  <2>1. /\ at[Main] \in {"dispatch", "tick", "post"}
        /\ UNCHANGED <<workqueue, request, epoll, batch>>
    BY <1>3 DEF EndBatch, TickEnd, PostRequest, Pool!Post, loopVars, poolVars
  <2>2. PICK p \in {"dispatch", "tick", "epoll_wait"} : at' = [at EXCEPT ![Main] = p]
    BY <1>3 DEF EndBatch, TickEnd, PostRequest, Goto
  <2>3. \A g \in Fds : Reported(g) => (Reported(g))'
    BY <2>1 DEF Reported
  <2>4. p \in MainPlaces \ HoldPlaces /\ at[Main] \notin HoldPlaces
    BY <2>1 DEF MainPlaces, HoldPlaces
  <2> QED
    BY <2>1, <2>2, <2>3, <2>4, NobodyStrands
<1>4. CASE CountUp
  <2>1. PICK f \in Fds : f = mainfd
    BY <1>4 DEF CountUp, HoldPlaces, Types, LoopOK
  <2>2. /\ UNCHANGED <<workqueue, request, epoll, batch>> /\ epoll[f] # "spent"
        /\ \A g \in Fds \ {f} : ~InHand(g)
    BY <1>4, <2>1 DEF CountUp, StrandRight, InHand, loopVars, poolVars
  <2>3. at'[Main] \in {"accept", "dispatch"} /\ \A w \in Workers : at'[w] = at[w]
    BY <1>0, <1>4 DEF CountUp, Goto
  <2>4. \A g \in Fds : (Queued(g) => (Queued(g))') /\ (Reported(g) => (Reported(g))')
    BY <2>2 DEF Queued, Reported
  <2> QED
    BY <2>2, <2>3, <2>4, MainStrand
<1> QED
  BY <1>1, <1>2, <1>3, <1>4

\* The steps by which the event loop takes a descriptor up or passes it on.
LEMMA TakeUpStrand ==
  ASSUME Types, Orderly, StrandRight, ~Reactor, Roomy, NEW f \in Fds,
         \/ HandleHup(f) \/ DealWithRead(f) \/ DealWithWrite(f) \/ TickOne(f)
         \/ \E c \in Conns : Accept(c, f)
         \/ AppendRequest /\ f = mainfd
  PROVE  StrandRight'
<1>0. /\ at \in [Threads -> MainPlaces \cup WorkerPlaces] /\ Main \in Threads
      /\ Main \notin Workers /\ Workers \subseteq Threads
  BY ServerAssumption DEF Types, ThreadsOK, Threads, ServerAssumption
<1>1. CASE HandleHup(f) \/ DealWithRead(f) \/ DealWithWrite(f) \/ TickOne(f)
  <2>1. /\ UNCHANGED <<workqueue, request, epoll>> /\ at[Main] \in {"dispatch", "tick"}
        /\ \A w \in Workers : at'[w] = at[w]
        /\ at'[Main] \in {"close", "append_read", "write"} /\ mainfd' = f
    BY <1>0, <1>1
    DEF HandleHup, DealWithRead, DealWithWrite, TickOne, Handle, Goto, poolVars
  <2>2. \A g \in Fds \ {f} : Reported(g) => (Reported(g))'
    BY <1>1 DEF HandleHup, DealWithRead, DealWithWrite, TickOne, Handle, Reported
  <2>3. (InHand(f))' /\ \A g \in Fds : ~InHand(g) /\ (Queued(g) => (Queued(g))')
    BY <2>1 DEF InHand, HoldPlaces, Queued
  <2> QED
    BY <2>1, <2>2, <2>3, MainStrand
<1>2. ASSUME NEW c \in Conns, Accept(c, f)
      PROVE  StrandRight'
  <2>1. /\ UNCHANGED <<workqueue, request>> /\ at[Main] \in {"dispatch", "accept"}
        /\ \A w \in Workers : at'[w] = at[w]
        /\ at'[Main] = "count_up" /\ mainfd' = f /\ batch' = batch \ {Listen}
        /\ epoll' = [epoll EXCEPT ![f] = "in"]
    BY <1>0, <1>2 DEF Accept, Accepting, Goto, poolVars
  <2>2. epoll'[f] = "in" /\ \A g \in Fds \ {f} : epoll'[g] = epoll[g]
    BY <2>1 DEF Types, ObjectsOK
  <2>3. \A g \in Fds : Reported(g) => (Reported(g))'
    BY <2>1 DEF Reported, Listen
  <2>4. \A g \in Fds : ~InHand(g) /\ (Queued(g) => (Queued(g))')
    BY <2>1 DEF InHand, HoldPlaces, Queued
  <2> QED
    BY <2>1, <2>2, <2>3, <2>4, MainStrand
<1>3. CASE AppendRequest /\ f = mainfd
  <2>1. /\ at[Main] \in HoldPlaces /\ InHand(f)
        /\ \A g \in Fds \ {f} : ~InHand(g)
    BY <1>3 DEF AppendRequest, HoldPlaces, InHand
  <2>2. ~Queued(f) /\ workqueue \in Seq(Fds)
    BY <2>1 DEF Orderly, PartyRight, Engaged, Types, ThreadsOK, LoopOK, Pool!TypeOK
  <2>3. ~Pool!Full
    BY <2>2, NeverFull
  <2>4. /\ workqueue' = Append(workqueue, f) /\ UNCHANGED <<request, epoll, batch>>
        /\ at'[Main] = "post" /\ \A w \in Workers : at'[w] = at[w]
    BY <1>0, <1>3, <2>3 DEF AppendRequest, Pool!Enqueue, Goto
  <2>5. (Queued(f))' /\ \A g \in Fds : Queued(g) => (Queued(g))'
    BY <2>2, <2>4, PushedQueue DEF Queued
  <2>6. \A g \in Fds : Reported(g) => (Reported(g))'
    BY <2>4 DEF Reported
  <2> QED
    BY <2>1, <2>4, <2>5, <2>6, MainStrand
<1> QED
  BY <1>1, <1>2, <1>3

\* The event loop lets go of a descriptor only when it is closed or armed.
LEMMA LetGoStrand ==
  ASSUME Types, Orderly, StrandRight, Close(Main) \/ Write(Main)
  PROVE  StrandRight'
<1>f. PICK f : f = mainfd
  OBVIOUS
<1>0. /\ at \in [Threads -> MainPlaces \cup WorkerPlaces] /\ Main \in Threads
      /\ Main \notin Workers /\ Workers \subseteq Threads /\ Obj(Main) = f
  BY <1>f, ServerAssumption DEF Types, ThreadsOK, Threads, ServerAssumption, Obj
<1>1. /\ UNCHANGED <<workqueue, request, batch, mainfd>>
      /\ mainfd' = f /\ \A w \in Workers : at'[w] = at[w]
  <2>1. \E p \in {"dispatch", "close", "reset", "remove", "clear", "count_down"} : Goto(Main, p)
    BY <1>0 DEF Close, CloseCheck, CloseRemove, CloseClear, CloseCount, CloseReturn, Write,
                WriteNothing, WriteSome, WriteError, WriteReset, WriteReturns
  <2>2. UNCHANGED <<workqueue, request, batch, mainfd>>
    BY DEF Close, CloseCheck, CloseRemove, CloseClear, CloseCount, Write,
           WriteNothing, WriteSome, WriteError, WriteReset, poolVars, loopVars
  <2> QED
    BY <1>f, <1>0, <2>1, <2>2 DEF Goto
<1>2. \A g \in Fds : (Queued(g) => (Queued(g))') /\ (Reported(g) => (Reported(g))')
  BY <1>1 DEF Queued, Reported
<1>3. \A g \in Fds \ {f} : ~InHand(g) /\ epoll'[g] = epoll[g]
  <2>1. \/ epoll' = epoll \/ epoll' = [epoll EXCEPT ![f] = "off"]
        \/ epoll' = [epoll EXCEPT ![f] = "in"] \/ epoll' = [epoll EXCEPT ![f] = "out"]
    BY <1>0 DEF Close, CloseCheck, CloseRemove, CloseClear, CloseCount, Write,
                WriteNothing, WriteSome, WriteError, WriteReset, Modfd
  <2> QED
    BY <1>f, <2>1 DEF InHand, Types, ObjectsOK
<1>4. ASSUME ~CloseCount(Main)
      PROVE  /\ f \in Fds /\ epoll'[f] = "spent" => (InHand(f))'
             /\ at'[Main] \in {"count_up", "reset"} => epoll'[f] # "spent"
  <2>1. CASE Close(Main)
    <3>1. CASE CloseCheck(Main)
      BY <1>f, <1>0, <1>1, <3>1
      DEF CloseCheck, CloseReturn, Goto, InHand, HoldPlaces, Orderly, HandRight, KernelRight,
          BatchRight
    <3>2. CASE CloseRemove(Main)
      BY <1>f, <1>0, <1>1, <3>2 DEF CloseRemove, Goto, InHand, HoldPlaces
    <3>3. CASE CloseClear(Main)
      BY <1>f, <1>0, <1>1, <3>3
      DEF CloseClear, Goto, InHand, HoldPlaces, Orderly, HandRight, KernelRight, BatchRight,
          ReferRight, Stray
    <3> QED
      BY <1>4, <2>1, <3>1, <3>2, <3>3 DEF Close
  <2>2. CASE Write(Main)
    <3>1. /\ at[Main] \in {"write", "reset"} /\ f \in Fds
          /\ sock[f] # None /\ f \in attached /\ epoll[f] # "off"
      BY <1>f, <2>2 DEF Write, WriteNothing, WriteSome, WriteError, WriteReset, Types, LoopOK,
                  HoldPlaces, Orderly, HandRight, KernelRight, BatchRight
    <3>2. CASE WriteNothing(Main) \/ WriteSome(Main)
      <4>1. Modfd(f, "in") \/ Modfd(f, "out")
        BY <1>f, <1>0, <3>2 DEF WriteNothing, WriteSome
      <4>2. epoll'[f] \in {"in", "out"}
        BY <3>1, <4>1 DEF Modfd, Types, ObjectsOK
      <4> QED
        BY <4>2
    <3>3. CASE WriteError(Main)
      BY <1>f, <1>0, <1>1, <3>3 DEF WriteError, WriteReturns, Goto, InHand, HoldPlaces
    <3>4. CASE WriteReset(Main)
      BY <1>f, <1>0, <3>4 DEF WriteReset, WriteReturns, Goto, StrandRight
    <3> QED
      BY <2>2, <3>2, <3>3, <3>4 DEF Write
  <2> QED
    BY <2>1, <2>2
<1>5. CASE CloseCount(Main)
  <2>1. /\ at[Main] \notin HoldPlaces /\ at' = [at EXCEPT ![Main] = "dispatch"]
        /\ "dispatch" \in MainPlaces \ HoldPlaces /\ UNCHANGED epoll
    BY <1>5 DEF CloseCount, CloseReturn, Goto, HoldPlaces, MainPlaces
  <2>2. \A g \in Fds : Reported(g) => (Reported(g))'
    BY <1>1 DEF Reported
  <2> QED
    BY <1>1, <2>1, <2>2, NobodyStrands
<1>6. CASE ~CloseCount(Main)
  BY <1>1, <1>2, <1>3, <1>4, <1>6, MainStrand
<1> QED
  BY <1>5, <1>6

\* A worker lets go of a descriptor only when it has armed it.
LEMMA WorkerStrand ==
  ASSUME Types, Orderly, StrandRight, ~Reactor, NoFailure, NEW w \in Workers,
         WorkerTakes(w) \/ Process(w) \/ ProcessWrite(w) \/ Rearm(w) \/ WorkerDone(w)
  PROVE  StrandRight'
<1>0. /\ at \in [Threads -> MainPlaces \cup WorkerPlaces] /\ Main \in Threads
      /\ Main \notin Workers /\ Workers \subseteq Threads /\ w \in Threads
      /\ Obj(w) = request[w]
      /\ request \in [Workers -> Fds \cup {None}] /\ workqueue \in Seq(Fds)
  BY ServerAssumption DEF Types, ThreadsOK, Threads, ServerAssumption, Obj, Pool!TypeOK
<1>1. /\ UNCHANGED <<batch, mainfd>> /\ at'[Main] = at[Main]
      /\ \A v \in Workers \ {w} : at'[v] = at[v] /\ request'[v] = request[v]
  <2>1. CASE WorkerTakes(w)
    BY <1>0, <2>1 DEF WorkerTakes, Pool!Take, loopVars
  <2>2. CASE WorkerDone(w)
    BY <1>0, <2>2 DEF WorkerDone, Pool!Finish, Goto, loopVars
  <2>3. CASE Process(w) \/ ProcessWrite(w) \/ Rearm(w)
    <3>1. \E p \in {"rearm_in", "rearm_out", "prepare", "close", "done"} : Goto(w, p)
      BY <2>3 DEF Process, ProcessWrite, Rearm
    <3> QED
      BY <1>0, <2>3, <3>1 DEF Goto, Process, ProcessWrite, Rearm, loopVars, poolVars
  <2> QED
    BY <2>1, <2>2, <2>3
<1>2. \A g \in Fds :
        /\ Reported(g) => (Reported(g))'
        /\ InHand(g) => (InHand(g))'
        /\ \A v \in Workers \ {w} : InWork(v, g) => (InWork(v, g))'
  BY <1>1 DEF Reported, InHand, InWork
<1>3. ASSUME NEW g \in Fds, epoll'[g] = "spent"
      PROVE  epoll[g] = "spent" /\ (Queued(g) \/ InWork(w, g) => (Owned(g))')
  <2>1. CASE WorkerTakes(w) /\ workqueue = <<>>
    <3>1. UNCHANGED <<workqueue, request, at, epoll>>
      BY <2>1 DEF WorkerTakes, Pool!Take
    <3> QED
      BY <1>3, <3>1 DEF Queued, InWork, WorkPlaces, Owned
  <2>2. CASE WorkerTakes(w) /\ workqueue # <<>>
    <3>1. /\ at[w] = "idle" /\ at'[w] = "process" /\ epoll' = epoll
          /\ request'[w] = Head(workqueue) /\ workqueue' = Tail(workqueue)
      BY <1>0, <2>2 DEF WorkerTakes, Pool!Take
    <3>2. ~InWork(w, g)
      BY <3>1 DEF InWork, WorkPlaces
    <3>3. ASSUME Queued(g) PROVE (Queued(g))' \/ (InWork(w, g))'
      <4>1. PICK i \in DOMAIN workqueue : workqueue[i] = g
        BY <3>3 DEF Queued
      <4>2. CASE i = 1
        <5>1. request'[w] = g
          BY <1>0, <2>2, <3>1, <4>1, <4>2
        <5> QED
          BY <3>1, <5>1 DEF InWork, WorkPlaces
      <4>3. CASE i # 1
        <5>1. i - 1 \in DOMAIN Tail(workqueue) /\ Tail(workqueue)[i - 1] = workqueue[i]
          BY <1>0, <2>2, <4>1, <4>3, LaterEntry
        <5> QED
          BY <3>1, <4>1, <5>1 DEF Queued
      <4> QED
        BY <4>2, <4>3
    <3> QED
      BY <1>3, <3>1, <3>2, <3>3 DEF Owned
  <2>3. CASE Process(w) \/ ProcessWrite(w)
    <3>1. /\ UNCHANGED <<workqueue, request, epoll>>
          /\ at'[w] \in {"rearm_in", "rearm_out", "prepare"}
      BY <1>0, <2>3 DEF Process, ProcessWrite, Goto, poolVars, NoFailure
    <3> QED
      BY <1>3, <3>1 DEF Queued, InWork, WorkPlaces, Owned
  <2>4. CASE Rearm(w)
    <3>1. /\ at[w] \in {"rearm_in", "rearm_out"} /\ UNCHANGED <<workqueue, request>>
          /\ Modfd(request[w], "in") \/ Modfd(request[w], "out")
      BY <2>4 DEF Rearm, poolVars
    <3>2. request[w] \in Fds /\ InWork(w, request[w])
      BY <1>0, <3>1, HeldObject DEF InWork, WorkPlaces
    <3>3. sock[request[w]] # None /\ request[w] \in attached /\ epoll[request[w]] # "off"
      <4>1. epoll[request[w]] = "spent"
        BY <3>2 DEF Orderly, PartyRight, Engaged
      <4> QED
        BY <3>2, <4>1 DEF Orderly, KernelRight, BatchRight, HandRight
    <3>4. /\ epoll'[request[w]] \in {"in", "out"}
          /\ \A h \in Fds \ {request[w]} : epoll'[h] = epoll[h]
      BY <3>1, <3>2, <3>3 DEF Modfd, Types, ObjectsOK
    <3> QED
      BY <1>3, <3>1, <3>4 DEF Queued, InWork, WorkPlaces, Owned
  <2>5. CASE WorkerDone(w)
    <3>1. at[w] = "done" /\ UNCHANGED <<workqueue, epoll>>
      BY <2>5 DEF WorkerDone, Pool!Finish
    <3> QED
      BY <1>3, <3>1 DEF Queued, InWork, WorkPlaces, Owned
  <2> QED
    BY <2>1, <2>2, <2>3, <2>4, <2>5
<1>4. \A g \in Fds : epoll'[g] = "spent" => (Owned(g))'
  <2> SUFFICES ASSUME NEW g \in Fds, epoll'[g] = "spent" PROVE (Owned(g))'
    OBVIOUS
  <2>1. Owned(g)
    BY <1>3 DEF StrandRight
  <2> QED
    BY <1>2, <1>3, <2>1 DEF Owned
<1>5. at'[Main] \in {"count_up", "reset"} => epoll'[mainfd'] # "spent"
  <2>1. at[Main] \in {"count_up", "reset"} => mainfd \in Fds
    BY DEF Types, LoopOK, HoldPlaces
  <2> QED
    BY <1>1, <1>3, <2>1 DEF StrandRight
<1> QED
  BY <1>4, <1>5 DEF StrandRight

\* Every step leaves a disarmed descriptor with somebody.
LEMMA StrandInductive ==
  Undisturbed /\ Roomy /\ Types /\ Orderly /\ StrandRight /\ [Next]_vars => StrandRight'
<1> SUFFICES ASSUME Undisturbed, Roomy, Types, Orderly, StrandRight, [Next]_vars
             PROVE  StrandRight'
  OBVIOUS
<1>0. ~Reactor /\ NoFailure
  BY DEF Undisturbed, Steady
<1>1. ASSUME UNCHANGED <<workqueue, batch, at, mainfd, request, epoll>>
      PROVE  StrandRight'
  BY <1>1 DEF StrandRight, Owned, Queued, Reported, InHand, InWork
<1>2. CASE UNCHANGED vars \/ ClientStep \/ AlarmFires \/ \E f \in Fds : Expire(f)
  BY <1>1, <1>2
  DEF vars, ClientStep, Connect, Send, Hangup, AlarmFires, Expire, loopVars, poolVars
<1>3. CASE MainStep
  <2>1. CASE AppendRequest
    <3>1. mainfd \in Fds
      BY <2>1 DEF AppendRequest, Types, LoopOK, HoldPlaces
    <3> QED
      BY <1>0, <2>1, <3>1, TakeUpStrand
  <2> QED
    BY <1>0, <1>3, <2>1, LoopStrand, TakeUpStrand, LetGoStrand DEF MainStep
<1>4. ASSUME NEW w \in Workers, WorkerStep(w) \/ WorkerInterrupted(w)
      PROVE  StrandRight'
  <2>1. at[w] \in {"idle", "process", "prepare", "rearm_in", "rearm_out", "done"}
    BY <1>0 DEF Orderly, ToldRight, HandRight, Types, ThreadsOK, WorkerPlaces
  <2>2. CASE WorkerWakes(w) \/ WorkerInterrupted(w)
    BY <1>1, <2>2
    DEF WorkerWakes, WorkerInterrupted, Pool!Wake, Pool!Interrupted, loopVars
  <2>3. ~WorkerRuns(w) /\ ~WorkerReads(w) /\ ~Close(w) /\ ~Write(w)
    BY <2>1 DEF WorkerRuns, WorkerReads, Close, CloseCheck, CloseRemove, CloseClear, CloseCount,
                Write, WriteNothing, WriteSome, WriteError, WriteReset
  <2> QED
    BY <1>0, <1>4, <2>2, <2>3, WorkerStrand DEF WorkerStep
<1> QED
  BY <1>2, <1>3, <1>4 DEF Next

\* Under the same conditions, if the queue has room for every descriptor, an
\* open connection's descriptor is never left disarmed with nobody to rearm or
\* close it: its next request or its hang-up will be noticed.
THEOREM NobodyStranded == Spec => [](Undisturbed /\ Roomy => NotStranded)
<1>1. Types /\ StrandRight => NotStranded
  <2> SUFFICES ASSUME Types, StrandRight, NEW f \in Fds, epoll[f] = "spent"
               PROVE  \/ \E k \in {"hup", "in", "out"} : <<k, f>> \in batch
                      \/ \E i \in DOMAIN workqueue : workqueue[i] = f
                      \/ \E t \in Threads : Using(t) /\ Obj(t) = f
    BY DEF NotStranded
  <2>1. CASE Reported(f) \/ Queued(f)
    BY <2>1 DEF Reported, Queued
  <2>2. CASE InHand(f)
    BY <2>2 DEF InHand, HoldPlaces, StrandRight, Using, Obj, Threads
  <2>3. ASSUME NEW w \in Workers, InWork(w, f)
        PROVE  \E t \in Threads : Using(t) /\ Obj(t) = f
    <3>1. w \in Threads /\ Obj(w) = f /\ Using(w)
      BY <2>3, ServerAssumption DEF InWork, WorkPlaces, Using, Obj, Threads, ServerAssumption
    <3> QED
      BY <3>1
  <2> QED
    BY <2>1, <2>2, <2>3 DEF StrandRight, Owned
<1>2. /\ Types /\ (Undisturbed => Orderly) /\ (Undisturbed /\ Roomy => StrandRight)
      /\ [Next]_vars
      => (Undisturbed /\ Roomy => StrandRight)'
  <2>1. (Undisturbed' <=> Undisturbed) /\ (Roomy' <=> Roomy)
    BY DEF Undisturbed, Steady, NoFailure, Roomy
  <2> QED
    BY <2>1, StrandInductive
<1>3. Init => (Undisturbed /\ Roomy => StrandRight)
  BY DEF Init, StrandRight, Threads
<1>4. KernelRight /\ ToldRight /\ (Steady => HandRight /\ PartyRight) => (Undisturbed => Orderly)
  BY DEF Undisturbed, Orderly
<1> QED
  BY <1>1, <1>2, <1>3, <1>4, Invariant, PartyInvariant, PTL DEF Spec
=============================================================================
