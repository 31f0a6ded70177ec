----------------------------- MODULE HeapTimer ------------------------------
(***************************************************************************)
(* The min-heap of idle timers, timer/heaptimer.cpp: a vector m_heap of    *)
(* nodes and an index m_ref from descriptors to positions.  Only the event *)
(* loop uses it, one operation at a time; still every iteration of the     *)
(* sifting loops is a step, so that the loop invariants can be stated.     *)
(*                                                                         *)
(* Positions count from 1 here and from 0 in the code.  A node's callback  *)
(* is always WebServer::deal_timer of its own descriptor and is left out.  *)
(***************************************************************************)
EXTENDS Naturals, Sequences

CONSTANTS
  Ids,         \* file descriptors
  Timeout,     \* 3 * TIMESLOT, the only timeout ever given
  MaxNow,      \* bound on the clock
  ClockSteps,  \* 1: time(NULL), the wall clock, may be set back
  Stray        \* 1: the user may adjust a descriptor that has no node

ASSUME HeapAssumption ==
  /\ Timeout \in Nat /\ MaxNow \in Nat
  /\ ClockSteps \in 0..1 /\ Stray \in 0..1

VARIABLES
  m_heap,  \* the nodes
  m_ref,   \* the position of each descriptor's node
  now,     \* time(NULL)
  pc,      \* idle; tick: at the head of tick's loop; down, up: in sift_down,
           \* sift_up; pop: at the end of del_
  mode,    \* the operation that sifts: add, adjust or del
  pos,     \* the index of sift_up, sift_down
  start,   \* the first index of sift_down
  limit    \* the argument n of sift_down

vars == <<m_heap, m_ref, now, pc, mode, pos, start, limit>>

Node == [id : Ids, expires : Nat]
Parent(i) == i \div 2

Init ==
  /\ m_heap = <<>>
  /\ m_ref = [id \in {} |-> 0]
  /\ now = 0
  /\ pc = "idle" /\ mode = "add"
  /\ pos = 0 /\ start = 0 /\ limit = 0

Swapped(i, j) == [m_heap EXCEPT ![i] = m_heap[j], ![j] = m_heap[i]]

(* Variants with one mistake each; no specification uses them.              *)

\* swap_node that corrects one of the two references only.
SwapHalf(i, j) ==
  /\ m_heap' = Swapped(i, j)
  /\ m_ref' = [m_ref EXCEPT ![m_heap[j].id] = i]

\* swap_node(i, j).
SwapNode(i, j) ==
  /\ m_heap' = Swapped(i, j)
  /\ m_ref' = [m_ref EXCEPT ![m_heap[j].id] = i, ![m_heap[i].id] = j]

(* More variants with one mistake each.                                     *)

\* sift_up(m_heap.size()) after push_back.
SiftUpBeyond(i) == pc' = "up" /\ pos' = i + 1 /\ UNCHANGED <<start, limit>>

\* sift_down that always takes the left child.
LeftChild(c) == c

\* sift_up without i = parent.
SiftUpStays ==
  /\ pc = "up"
  /\ pos > 1
  /\ ~ (m_heap[Parent(pos)].expires < m_heap[pos].expires)
  /\ SwapNode(pos, Parent(pos))
  /\ UNCHANGED <<pos, now, pc, mode, start, limit>>

SiftDownFrom(i, n) == pc' = "down" /\ pos' = i /\ start' = i /\ limit' = n
SiftUpFrom(i) == pc' = "up" /\ pos' = i /\ UNCHANGED <<start, limit>>

\* m_ref[id], which inserts 0 when there is no entry.
RefOf(id) == IF id \in DOMAIN m_ref THEN m_ref[id] ELSE 1
RefWith(id, i) == [j \in DOMAIN m_ref \cup {id} |-> IF j = id THEN i ELSE m_ref[j]]
-----------------------------------------------------------------------------
\* add(id, Timeout, cb) of a new descriptor.
AddNew(id) ==
  /\ pc = "idle"
  /\ id \notin DOMAIN m_ref
  /\ m_ref' = RefWith(id, Len(m_heap) + 1)
  /\ m_heap' = Append(m_heap, [id |-> id, expires |-> now + Timeout])
  /\ mode' = "add"
  /\ SiftUpFrom(Len(m_heap) + 1)
  /\ UNCHANGED now

\* add(id, Timeout, cb) of a descriptor that has a node: its expiry is renewed.
AddAgain(id) ==
  /\ pc = "idle"
  /\ id \in DOMAIN m_ref
  /\ m_heap' = [m_heap EXCEPT ![m_ref[id]].expires = now + Timeout]
  /\ mode' = "add"
  /\ SiftDownFrom(m_ref[id], Len(m_heap))
  /\ UNCHANGED <<m_ref, now>>

\* adjust(id, Timeout): no test for the entry, and sifts down only.
Adjust(id) ==
  /\ pc = "idle"
  /\ id \in DOMAIN m_ref \/ (Stray = 1 /\ m_heap # <<>>)
  /\ m_ref' = RefWith(id, RefOf(id))
  /\ m_heap' = [m_heap EXCEPT ![RefOf(id)].expires = now + Timeout]
  /\ mode' = "adjust"
  /\ SiftDownFrom(RefOf(id), Len(m_heap))
  /\ UNCHANGED now

\* One round of sift_down(i, n): the smaller child moves up.
Smaller(c) ==
  IF c + 1 =< limit /\ m_heap[c + 1].expires < m_heap[c].expires THEN c + 1 ELSE c

SiftDownSwaps ==
  LET c == Smaller(2 * pos) IN
  /\ pc = "down"
  /\ 2 * pos =< limit
  /\ m_heap[c].expires =< m_heap[pos].expires
  /\ SwapNode(pos, c)
  /\ pos' = c
  /\ UNCHANGED <<now, pc, mode, start, limit>>

\* sift_down returns; add and del_ sift up if it has not moved the node.
SiftDownEnds ==
  /\ pc = "down"
  /\ 2 * pos =< limit => m_heap[Smaller(2 * pos)].expires > m_heap[pos].expires
  /\ pc' = IF pos = start /\ mode # "adjust" THEN "up"
           ELSE IF mode = "del" THEN "pop" ELSE "idle"
  /\ UNCHANGED <<m_heap, m_ref, now, mode, pos, start, limit>>

\* One round of sift_up(i).
SiftUpSwaps ==
  /\ pc = "up"
  /\ pos > 1
  /\ ~ (m_heap[Parent(pos)].expires < m_heap[pos].expires)
  /\ SwapNode(pos, Parent(pos))
  /\ pos' = Parent(pos)
  /\ UNCHANGED <<now, pc, mode, start, limit>>

SiftUpEnds ==
  /\ pc = "up"
  /\ pos > 1 => m_heap[Parent(pos)].expires < m_heap[pos].expires
  /\ pc' = IF mode = "del" THEN "pop" ELSE "idle"
  /\ UNCHANGED <<m_heap, m_ref, now, mode, pos, start, limit>>

\* tick() is called.
Tick ==
  /\ pc = "idle"
  /\ pc' = "tick"
  /\ UNCHANGED <<m_heap, m_ref, now, mode, pos, start, limit>>

\* tick(): the front has expired: its callback, then del(node.id) up to
\* sift_down in del_.
TickFires ==
  LET i == m_ref[m_heap[1].id]
      last == Len(m_heap)
  IN
  /\ pc = "tick"
  /\ m_heap # <<>>
  /\ m_heap[1].expires =< now
  /\ mode' = "del"
  /\ IF i < last
     THEN SwapNode(i, last) /\ SiftDownFrom(i, last - 1)
     ELSE pc' = "pop" /\ UNCHANGED <<m_heap, m_ref, pos, start, limit>>
  /\ UNCHANGED now

\* The end of del_: the last node goes; tick() looks at the front again.
Pop ==
  LET last == Len(m_heap) IN
  /\ pc = "pop"
  /\ m_ref' = [j \in DOMAIN m_ref \ {m_heap[last].id} |-> m_ref[j]]
  /\ m_heap' = SubSeq(m_heap, 1, last - 1)
  /\ pc' = "tick"
  /\ UNCHANGED <<now, mode, pos, start, limit>>

\* tick() returns at a front that has not expired.
TickEnds ==
  /\ pc = "tick"
  /\ m_heap # <<>> => m_heap[1].expires > now
  /\ pc' = "idle"
  /\ UNCHANGED <<m_heap, m_ref, now, mode, pos, start, limit>>

Clock ==
  /\ now' \in 0..MaxNow
  /\ ClockSteps = 1 \/ now' > now
  /\ UNCHANGED <<m_heap, m_ref, pc, mode, pos, start, limit>>

\* The steps inside an operation.
Step == SiftDownSwaps \/ SiftDownEnds \/ SiftUpSwaps \/ SiftUpEnds
        \/ TickFires \/ Pop \/ TickEnds

Next ==
  \/ \E id \in Ids : AddNew(id) \/ AddAgain(id) \/ Adjust(id)
  \/ Tick \/ Step \/ Clock

\* The thread that runs an operation keeps running.
Spec == Init /\ [][Next]_vars /\ WF_vars(Step)
-----------------------------------------------------------------------------
(* Properties.                                                              *)

\* Types; the loops stay inside the vector.
TypeOK ==
  /\ m_heap \in Seq(Node)
  /\ m_ref \in [DOMAIN m_ref -> Nat] /\ DOMAIN m_ref \subseteq Ids
  /\ now \in 0..MaxNow
  /\ pc \in {"idle", "tick", "down", "up", "pop"}
  /\ mode \in {"add", "adjust", "del"}
  /\ pos \in Nat /\ start \in Nat /\ limit \in Nat
  /\ pc \in {"down", "up"} => pos \in 1..Len(m_heap)

\* m_ref is exactly the inverse of m_heap, at every iteration of every loop:
\* each descriptor with a node is found in one step, at its only node.
RefExact ==
  /\ \A i \in 1..Len(m_heap) :
       m_heap[i].id \in DOMAIN m_ref /\ m_ref[m_heap[i].id] = i
  /\ \A id \in DOMAIN m_ref :
       m_ref[id] \in 1..Len(m_heap) /\ m_heap[m_ref[id]].id = id

\* Between operations, and whenever tick() looks at it, the front node is one
\* of those that expire first: tick() misses none by looking at it only.
TopEarliest ==
  pc \in {"idle", "tick"} =>
    \A i \in 1..Len(m_heap) : m_heap[1].expires =< m_heap[i].expires

\* Every operation returns.
OperationsEnd == pc # "idle" ~> pc = "idle"

\* The heap implements the deadlines of TimerService.  While del_ runs its
\* node, the last one, is no longer a deadline.
Deleting == mode = "del" /\ pc \in {"down", "up", "pop"}
LiveNodes == 1..(IF Deleting THEN Len(m_heap) - 1 ELSE Len(m_heap))
Deadlines == [id \in {m_heap[i].id : i \in LiveNodes} |->
                m_heap[CHOOSE i \in LiveNodes : m_heap[i].id = id].expires]
Ticking == IF pc = "tick" \/ Deleting THEN 1 ELSE 0

Service == INSTANCE TimerService WITH deadline <- Deadlines, ticking <- Ticking

\* Every step of the heap is a step of the service it stands for, or none:
\* renewing changes one deadline, tick calls back in the order of expiry.
ImplementsService == Service!Spec

=============================================================================
