-------------------------- MODULE ThreadPoolProofs --------------------------
(***************************************************************************)
(* Proofs about ThreadPool for any number of workers, requests and any     *)
(* queue limit: the queue stays within m_max_requests and no wake-up is    *)
(* lost.                                                                   *)
(***************************************************************************)
EXTENDS ThreadPool, FiniteSetTheorems, TLAPS

\* Len and Tail on a non-empty queue of requests, as run() uses them.
LEMMA PopFront ==
  ASSUME NEW q \in Seq(Requests), q # <<>>
  PROVE  /\ Head(q) \in Requests
         /\ Tail(q) \in Seq(Requests)
         /\ Len(Tail(q)) = Len(q) - 1
         /\ Len(q) \in Nat \ {0}
  OBVIOUS

\* Every action of the thread pool keeps the variables in their types, the
\* queue within m_max_requests and `request' set exactly in running workers.
LEMMA TypeInductive == TypeOK /\ [Next]_vars => TypeOK'
<1> USE PoolAssumption DEF PoolAssumption, WorkerState
<1> SUFFICES ASSUME TypeOK, [Next]_vars PROVE TypeOK'
  OBVIOUS
<1>1. ASSUME NEW r \in Requests, Enqueue(r)
      PROVE  TypeOK'
  <2>1. CASE Full
    BY <1>1, <2>1 DEF Enqueue, TypeOK
  <2>2. CASE ~Full
    <3>1. Len(workqueue) + 1 =< MaxRequests
      BY <2>2 DEF Full, TypeOK
    <3>2. /\ Append(workqueue, r) \in Seq(Requests)
          /\ Len(Append(workqueue, r)) = Len(workqueue) + 1
      BY DEF TypeOK
    <3> QED
      BY <1>1, <2>2, <3>1, <3>2 DEF Enqueue, TypeOK
  <2> QED
    BY <2>1, <2>2
<1>2. CASE Post
  BY <1>2 DEF Post, TypeOK
<1>3. ASSUME NEW w \in Workers, Wake(w) \/ Interrupted(w)
      PROVE  TypeOK'
  BY <1>3 DEF Wake, Interrupted, TypeOK
<1>4. ASSUME NEW w \in Workers, Take(w)
      PROVE  TypeOK'
  <2>1. CASE workqueue = <<>>
    BY <1>4, <2>1 DEF Take, TypeOK
  <2>2. CASE workqueue # <<>>
    <3>1. /\ Head(workqueue) \in Requests
          /\ Tail(workqueue) \in Seq(Requests)
          /\ Len(Tail(workqueue)) =< MaxRequests
      BY <2>2, PopFront DEF TypeOK
    <3> QED
      BY <1>4, <2>2, <3>1 DEF Take, TypeOK
  <2> QED
    BY <2>1, <2>2
<1>5. ASSUME NEW w \in Workers, Finish(w)
      PROVE  TypeOK'
  BY <1>5 DEF Finish, TypeOK
<1>6. CASE UNCHANGED vars
  BY <1>6 DEF vars, TypeOK
<1> QED
  BY <1>1, <1>2, <1>3, <1>4, <1>5, <1>6 DEF Next

\* The thread pool keeps its queue within m_max_requests, and a worker holds
\* a request exactly while it runs it.
THEOREM TypeCorrect == Spec => []TypeOK
<1>1. Init => TypeOK
  BY PoolAssumption DEF PoolAssumption, Init, TypeOK, WorkerState
<1> QED
  BY <1>1, TypeInductive, PTL DEF Spec

-----------------------------------------------------------------------------

\* The workers that are between wait() and lock() are finitely many.
LEMMA WokenFinite == IsFiniteSet(Woken) /\ Cardinality(Woken) \in Nat
BY PoolAssumption, FS_Subset, FS_CardinalityType DEF PoolAssumption, Woken

\* A worker that returns from wait() is one more to come for a request.
LEMMA OneMoreWoken ==
  ASSUME TypeOK, NEW w \in Workers, worker[w] # "woken",
         worker' = [worker EXCEPT ![w] = "woken"]
  PROVE  Cardinality(Woken') = Cardinality(Woken) + 1
<1>1. Woken' = Woken \cup {w} /\ w \notin Woken
  BY DEF TypeOK, Woken
<1> QED
  BY <1>1, WokenFinite, FS_AddElement

\* A worker that has been to the queue is one less.
LEMMA OneLessWoken ==
  ASSUME TypeOK, NEW w \in Workers, worker[w] = "woken",
         NEW s \in WorkerState \ {"woken"},
         worker' = [worker EXCEPT ![w] = s]
  PROVE  Cardinality(Woken') = Cardinality(Woken) - 1
<1>1. Woken' = Woken \ {w} /\ w \in Woken
  BY DEF TypeOK, Woken
<1> QED
  BY <1>1, WokenFinite, FS_RemoveElement

\* Every action preserves the balance of tokens, woken workers and the
\* outstanding post against the length of the queue.
LEMMA WakeupInductive == TypeOK /\ NoLostWakeup /\ [Next]_vars => NoLostWakeup'
<1> USE PoolAssumption DEF PoolAssumption
<1> SUFFICES ASSUME TypeOK, NoLostWakeup, [Next]_vars PROVE NoLostWakeup'
  OBVIOUS
<1>0. /\ Cardinality(Woken) \in Nat
      /\ Len(workqueue) \in Nat
      /\ queuestat \in Nat
      /\ owed \in 0..1
      /\ Len(workqueue) =< queuestat + Cardinality(Woken) + owed
  BY WokenFinite DEF TypeOK, NoLostWakeup
<1>1. ASSUME NEW r \in Requests, Enqueue(r)
      PROVE  NoLostWakeup'
  <2>1. Woken' = Woken
    BY <1>1 DEF Enqueue, Woken
  <2>2. CASE Full
    BY <1>1, <2>1, <2>2 DEF Enqueue, NoLostWakeup
  <2>3. CASE ~Full
    <3>1. Len(workqueue') = Len(workqueue) + 1 /\ owed' = 1 /\ owed = 0
      BY <1>1, <2>3 DEF Enqueue, TypeOK
    <3> QED
      BY <1>0, <1>1, <2>1, <3>1 DEF Enqueue, NoLostWakeup
  <2> QED
    BY <2>2, <2>3
<1>2. CASE Post
  <2>1. Woken' = Woken /\ workqueue' = workqueue /\ owed = 1 /\ owed' = 0
    BY <1>2 DEF Post, Woken, TypeOK
  <2>2. CASE queuestat < SemMax
    BY <1>0, <1>2, <2>1, <2>2 DEF Post, NoLostWakeup
  <2>3. CASE ~(queuestat < SemMax)
    <3>1. queuestat' = SemMax /\ Len(workqueue') =< SemMax
      BY <1>0, <1>2, <2>1, <2>3 DEF Post, TypeOK
    <3> QED
      BY <1>0, <2>1, <3>1 DEF NoLostWakeup
  <2> QED
    BY <2>2, <2>3
<1>3. ASSUME NEW w \in Workers, Wake(w)
      PROVE  NoLostWakeup'
  <2>1. Cardinality(Woken') = Cardinality(Woken) + 1
    BY <1>3, OneMoreWoken DEF Wake
  <2> QED
    BY <1>0, <1>3, <2>1 DEF Wake, NoLostWakeup
<1>4. ASSUME NEW w \in Workers, Interrupted(w)
      PROVE  NoLostWakeup'
  <2>1. Cardinality(Woken') = Cardinality(Woken) + 1
    BY <1>4, OneMoreWoken DEF Interrupted
  <2> QED
    BY <1>0, <1>4, <2>1 DEF Interrupted, NoLostWakeup
<1>5. ASSUME NEW w \in Workers, Take(w)
      PROVE  NoLostWakeup'
  <2>1. Cardinality(Woken') = Cardinality(Woken) - 1
    BY <1>5, OneLessWoken DEF Take, WorkerState
  <2>2. CASE workqueue = <<>>
    <3>1. Len(workqueue') = 0
      BY <1>5, <2>2 DEF Take
    <3>2. Cardinality(Woken') \in Nat
      BY <1>5, <2>1, FS_Subset, FS_CardinalityType DEF Woken
    <3> QED
      BY <1>0, <1>5, <3>1, <3>2 DEF Take, NoLostWakeup
  <2>3. CASE workqueue # <<>>
    <3>1. Len(workqueue') = Len(workqueue) - 1
      BY <1>5, <2>3, PopFront DEF Take, TypeOK
    <3> QED
      BY <1>0, <1>5, <2>1, <3>1 DEF Take, NoLostWakeup
  <2> QED
    BY <2>2, <2>3
<1>6. ASSUME NEW w \in Workers, Finish(w)
      PROVE  NoLostWakeup'
  <2>1. Woken' = Woken
    BY <1>6 DEF Finish, Woken, TypeOK
  <2> QED
    BY <1>0, <1>6, <2>1 DEF Finish, NoLostWakeup
<1>7. CASE UNCHANGED vars
  BY <1>7 DEF vars, Woken, NoLostWakeup
<1> QED
  BY <1>1, <1>2, <1>3, <1>4, <1>5, <1>6, <1>7 DEF Next

\* No interleaving of append, signals and workers leaves a queued request
\* without a token, a worker on its way or a post that is still owed.
THEOREM WakeupsNotLost == Spec => []NoLostWakeup
<1>1. Init => NoLostWakeup
  <2> SUFFICES ASSUME Init PROVE NoLostWakeup
    OBVIOUS
  <2>1. Len(workqueue) = 0 /\ queuestat = 0 /\ owed = 0
    BY DEF Init
  <2> QED
    BY <2>1, WokenFinite DEF NoLostWakeup
<1> QED
  BY <1>1, WakeupInductive, TypeCorrect, PTL DEF Spec

=============================================================================
