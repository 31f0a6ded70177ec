----------------------------- MODULE BlockQueue -----------------------------
(***************************************************************************)
(* log/block_queue.h: a ring with a mutex and a condition variable.  Every *)
(* critical section of m_mutex is a step; m_cond.wait splits pop in two.   *)
(***************************************************************************)
EXTENDS Integers, Sequences

CONSTANTS
  Readers,     \* the threads that pop
  Items,       \* what can be pushed
  m_max_size,
  NoItem       \* what the slots hold before the first push

ASSUME QueueAssumption ==
  /\ m_max_size \in Nat \ {0}
  /\ NoItem \notin Items

VARIABLES
  m_array, m_size,
  m_front,     \* the slot popped last, -1 at first
  m_back,      \* the slot pushed last, -1 at first
  waiting,     \* the threads asleep in m_cond.wait
  taken        \* what each reader's last pop() stored through its reference

ring == <<m_array, m_size, m_front, m_back>>
queueVars == <<ring, waiting, taken>>

Slots == 0..(m_max_size - 1)

QueueInit ==
  /\ m_array = [i \in Slots |-> NoItem]
  /\ m_size = 0 /\ m_front = -1 /\ m_back = -1
  /\ waiting = {}
  /\ taken = [t \in Readers |-> NoItem]

Full == m_size >= m_max_size

\* Variant: m_back wraps one slot early.
PushWrapsEarly(x) ==
  /\ ~Full
  /\ m_back' = IF m_back + 2 >= m_max_size THEN 0 ELSE m_back + 1
  /\ m_array' = [m_array EXCEPT ![m_back'] = x]
  /\ m_size' = m_size + 1
  /\ waiting' = {}
  /\ UNCHANGED <<m_front, taken>>

\* Variant: nobody is woken.
PushSilent(x) ==
  /\ ~Full
  /\ m_back' = (m_back + 1) % m_max_size
  /\ m_array' = [m_array EXCEPT ![m_back'] = x]
  /\ m_size' = m_size + 1
  /\ UNCHANGED <<m_front, waiting, taken>>

\* push() with room: the item goes behind m_back and everybody is woken.
Push(x) ==
  /\ ~Full
  /\ m_back' = (m_back + 1) % m_max_size
  /\ m_array' = [m_array EXCEPT ![m_back'] = x]
  /\ m_size' = m_size + 1
  /\ waiting' = {}
  /\ UNCHANGED <<m_front, taken>>

\* push() without room wakes everybody and returns false.
PushFails ==
  /\ Full
  /\ waiting' = {}
  /\ UNCHANGED <<ring, taken>>

\* pop(): the test of the while loop finds nothing; m_cond.wait gives the
\* mutex back and sleeps.
PopWaits(t) ==
  /\ t \notin waiting
  /\ m_size <= 0
  /\ waiting' = waiting \cup {t}
  /\ UNCHANGED <<ring, taken>>

\* m_cond.wait may return without a broadcast; pop() tests again.
Spurious(t) ==
  /\ t \in waiting
  /\ waiting' = waiting \ {t}
  /\ UNCHANGED <<ring, taken>>

\* Variant: the item pushed last.
PopNewest(t) ==
  /\ t \notin waiting
  /\ m_size > 0
  /\ m_back' = (m_back - 1) % m_max_size
  /\ taken' = [taken EXCEPT ![t] = m_array[m_back]]
  /\ m_size' = m_size - 1
  /\ UNCHANGED <<m_array, m_front, waiting>>

\* pop(): the item behind m_front.
Pop(t) ==
  /\ t \notin waiting
  /\ m_size > 0
  /\ m_front' = (m_front + 1) % m_max_size
  /\ taken' = [taken EXCEPT ![t] = m_array[m_front']]
  /\ m_size' = m_size - 1
  /\ UNCHANGED <<m_array, m_back, waiting>>

\* clear(): nobody in src/ calls it.
Clear ==
  /\ m_size' = 0 /\ m_front' = -1 /\ m_back' = -1
  /\ UNCHANGED <<m_array, waiting, taken>>

\* pop(item, ms_timeout), which nobody calls either, takes the same steps: it
\* gives up where pop() tests again.
QueueNext ==
  \/ Clear \/ PushFails \/ \E x \in Items : Push(x)
  \/ \E t \in Readers : PopWaits(t) \/ Spurious(t) \/ Pop(t)

QueueSpec == QueueInit /\ [][QueueNext]_queueVars
-----------------------------------------------------------------------------
\* The items inside, oldest first.
Contents == [i \in 1..m_size |-> m_array[(m_front + i) % m_max_size]]

\* back(), of a queue that is not empty.
Back == m_array[m_back]

\* The indices stay inside the ring, and m_back is m_size slots behind m_front.
RingOK ==
  /\ m_array \in [Slots -> Items \cup {NoItem}]
  /\ m_size \in 0..m_max_size
  /\ m_front \in -1..(m_max_size - 1) /\ m_back \in -1..(m_max_size - 1)
  /\ m_back - m_front \in {m_size, m_size - m_max_size}
  /\ m_back = -1 => m_size = 0
  /\ waiting \subseteq Readers
  /\ taken \in [Readers -> Items \cup {NoItem}]
  /\ \A i \in 1..m_size : m_array[(m_front + i) % m_max_size] \in Items

Fifo == INSTANCE BoundedFifo WITH items <- Contents

\* The ring implements the bounded queue: whatever push() and pop() do to the
\* two indices, at every wrap-around, items leave in order and once
\* (block_queue.h's push and pop, which test m_size and never the indices).
ImplementsFifo == Fifo!Spec

=============================================================================
