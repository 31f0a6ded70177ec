----------------------------- MODULE ThreadPool -----------------------------
(***************************************************************************)
(* The work queue of threadpool/threadpool.h: one producer (the thread     *)
(* that runs WebServer::eventLoop, the only caller of append and append_p) *)
(* pushes http_conn objects, the workers sleep on the semaphore            *)
(* m_queuestat and pop one object each.                                    *)
(*                                                                         *)
(* A critical section of m_queuelocker is one step: the queue is touched   *)
(* nowhere else.  The semaphore operations are steps of their own, because *)
(* append posts AFTER it has unlocked and a worker locks AFTER it has been *)
(* woken: other threads run in both gaps.                                  *)
(***************************************************************************)
EXTENDS Naturals, Sequences, FiniteSets

CONSTANTS
  Workers,      \* the m_thread_number detached threads that execute run()
  Requests,     \* the objects that can be queued: http_conn*
  MaxRequests,  \* m_max_requests
  SemMax,       \* SEM_VALUE_MAX: at this value sem_post fails and posts nothing
  None          \* "no request"

ASSUME PoolAssumption ==
  /\ IsFiniteSet(Workers)
  /\ MaxRequests \in Nat \ {0}      \* the constructor throws otherwise
  /\ SemMax \in Nat
  /\ MaxRequests =< SemMax          \* 10000 against 2^31 - 1
  /\ None \notin Requests

VARIABLES
  workqueue,  \* m_workqueue
  queuestat,  \* the value of m_queuestat
  owed,       \* 1 while the producer is between unlock() and post() of append
  worker,     \* where each worker is in run()
  request     \* the local variable `request' of each worker

vars == <<workqueue, queuestat, owed, worker, request>>

\* waiting: in m_queuestat.wait(); woken: returned from it, about to lock;
\* running: executing the request it popped.
WorkerState == {"waiting", "woken", "running"}

Init ==
  /\ workqueue = <<>>
  /\ queuestat = 0
  /\ owed = 0
  /\ worker = [w \in Workers |-> "waiting"]
  /\ request = [w \in Workers |-> None]

-----------------------------------------------------------------------------
(* Variants of the definitions below, each with one mistake a maintainer    *)
(* could make; no specification uses them.                                  *)

\* Posting only when the queue was empty before the push.
PostOnlyFirst ==
  /\ owed = 1
  /\ owed' = 0
  /\ queuestat' = IF Len(workqueue) = 1 THEN queuestat + 1 ELSE queuestat
  /\ UNCHANGED <<workqueue, worker, request>>

\* A worker that takes the newest entry instead of the oldest.
TakeNewest(w) ==
  /\ worker[w] = "woken"
  /\ IF workqueue = <<>>
     THEN /\ worker' = [worker EXCEPT ![w] = "waiting"]
          /\ UNCHANGED <<workqueue, request>>
     ELSE /\ request' = [request EXCEPT ![w] = workqueue[Len(workqueue)]]
          /\ workqueue' = SubSeq(workqueue, 1, Len(workqueue) - 1)
          /\ worker' = [worker EXCEPT ![w] = "running"]
  /\ UNCHANGED <<queuestat, owed>>

\* The limit tested one entry too late.
FullTooLate == Len(workqueue) > MaxRequests

-----------------------------------------------------------------------------
(* The producer.                                                            *)

Full == Len(workqueue) >= MaxRequests

\* append / append_p up to unlock(): a full queue refuses the request (the
\* caller ignores the result), otherwise it is pushed and post() is still due.
Enqueue(r) ==
  /\ owed = 0
  /\ IF Full
     THEN UNCHANGED <<workqueue, owed>>
     ELSE /\ workqueue' = Append(workqueue, r)
          /\ owed' = 1
  /\ UNCHANGED <<queuestat, worker, request>>

\* m_queuestat.post(), whose failure at SEM_VALUE_MAX is ignored.
Post ==
  /\ owed = 1
  /\ owed' = 0
  /\ queuestat' = IF queuestat < SemMax THEN queuestat + 1 ELSE queuestat
  /\ UNCHANGED <<workqueue, worker, request>>

-----------------------------------------------------------------------------
(* The workers.                                                             *)

\* m_queuestat.wait() takes a token.
Wake(w) ==
  /\ worker[w] = "waiting"
  /\ queuestat > 0
  /\ queuestat' = queuestat - 1
  /\ worker' = [worker EXCEPT ![w] = "woken"]
  /\ UNCHANGED <<workqueue, owed, request>>

\* m_queuestat.wait() fails with EINTR: SIGALRM and SIGTERM are installed
\* without SA_RESTART and may be delivered to any thread.  run() ignores the
\* result and goes on without a token.
Interrupted(w) ==
  /\ worker[w] = "waiting"
  /\ worker' = [worker EXCEPT ![w] = "woken"]
  /\ UNCHANGED <<workqueue, queuestat, owed, request>>

\* lock, test for empty, pop the oldest entry, unlock.
Take(w) ==
  /\ worker[w] = "woken"
  /\ IF workqueue = <<>>
     THEN /\ worker' = [worker EXCEPT ![w] = "waiting"]
          /\ UNCHANGED <<workqueue, request>>
     ELSE /\ request' = [request EXCEPT ![w] = Head(workqueue)]
          /\ workqueue' = Tail(workqueue)
          /\ worker' = [worker EXCEPT ![w] = "running"]
  /\ UNCHANGED <<queuestat, owed>>

\* The end of the loop body: the request has been executed.
Finish(w) ==
  /\ worker[w] = "running"
  /\ worker' = [worker EXCEPT ![w] = "waiting"]
  /\ request' = [request EXCEPT ![w] = None]
  /\ UNCHANGED <<workqueue, queuestat, owed>>

Next ==
  \/ \E r \in Requests : Enqueue(r)
  \/ Post
  \/ \E w \in Workers : Wake(w) \/ Interrupted(w) \/ Take(w) \/ Finish(w)

\* Every thread keeps running and process() returns; nothing obliges the
\* producer to append, or a signal to arrive.
Fairness ==
  /\ WF_vars(Post)
  /\ \A w \in Workers : WF_vars(Wake(w)) /\ WF_vars(Take(w)) /\ WF_vars(Finish(w))

Spec == Init /\ [][Next]_vars /\ Fairness

-----------------------------------------------------------------------------
(* Properties.                                                              *)

\* The queue never exceeds m_max_requests (append, append_p) and a worker
\* holds a request exactly while it runs it.
TypeOK ==
  /\ workqueue \in Seq(Requests)
  /\ Len(workqueue) =< MaxRequests
  /\ queuestat \in 0..SemMax
  /\ owed \in 0..1
  /\ worker \in [Workers -> WorkerState]
  /\ request \in [Workers -> Requests \cup {None}]
  /\ \A w \in Workers : request[w] # None <=> worker[w] = "running"

Woken == {w \in Workers : worker[w] = "woken"}

\* No lost wake-up: for every queued request there is a token, a worker that
\* is on its way to the queue, or the post() append still owes, although
\* posts are made outside the lock, waits are interrupted by signals and
\* workers that find the queue empty drop their token.
NoLostWakeup ==
  Len(workqueue) =< queuestat + Cardinality(Woken) + owed

\* Every request that append accepted is eventually executed by a worker,
\* whatever the producer appends after it and however waits are interrupted.
EveryRequestRuns ==
  \A r \in Requests :
    (\E i \in DOMAIN workqueue : workqueue[i] = r)
      ~> (\E w \in Workers : request[w] = r)

=============================================================================
