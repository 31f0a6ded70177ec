-------------------------- MODULE HeapTimerProofs ---------------------------
(***************************************************************************)
(* Proofs about HeapTimer for any number of descriptors and any timeout,   *)
(* under the two conditions the event loop has to provide: a descriptor is *)
(* adjusted only while it has a node, and the clock is not set back.       *)
(***************************************************************************)
EXTENDS HeapTimer, SequenceTheorems, WellFoundedInduction, TLAPS
-----------------------------------------------------------------------------
(***************************************************************************)
(* The order of a binary heap while HeapTimer sifts, as facts about a      *)
(* function e from positions to expiries: the loop invariants of sift_up   *)
(* and sift_down of timer/heaptimer.cpp and what one round does to them.   *)
(***************************************************************************)

Children(i) == {2 * i, 2 * i + 1}

\* The first n positions are a heap.
Ordered(e, n) ==
  \A i \in 1..n, k \in 1..n : k \in Children(i) => e[i] =< e[k]

\* They are one but for the node at p, which may have to sink: its parent is
\* still no later than its children.
OrderedAbove(e, n, p) ==
  /\ \A i \in 1..n, k \in 1..n : i # p /\ k \in Children(i) => e[i] =< e[k]
  /\ \A i \in 1..n, k \in 1..n : p \in Children(i) /\ k \in Children(p) => e[i] =< e[k]

\* They are one but for the node at p, which may have to rise.
OrderedBelow(e, n, p) ==
  /\ \A i \in 1..n, k \in 1..n : k # p /\ k \in Children(i) => e[i] =< e[k]
  /\ \A i \in 1..n, k \in 1..n : p \in Children(i) /\ k \in Children(p) => e[i] =< e[k]

\* f is e with the expiries of positions i and j exchanged.
Exchanged(e, f, n, i, j) ==
  \A k \in 1..n : f[k] = IF k = i THEN e[j] ELSE IF k = j THEN e[i] ELSE e[k]

\* A round of sift_down: the earlier child c and its parent p change places.
LEMMA RoundDown ==
  ASSUME NEW n \in Nat, NEW e, NEW f, \A k \in 1..n : e[k] \in Nat,
         NEW p \in 1..n, NEW c \in 1..n, c \in Children(p),
         OrderedAbove(e, n, p), e[c] =< e[p],
         \A k \in 1..n : k \in Children(p) => e[c] =< e[k],
         Exchanged(e, f, n, p, c)
  PROVE  OrderedAbove(f, n, c)
<1> USE DEF Children
<1>1. f[p] = e[c] /\ f[c] = e[p] /\ p # c /\ \A k \in 1..n : k # p /\ k # c => f[k] = e[k]
  BY DEF Exchanged
<1>2. ASSUME NEW i \in 1..n, NEW k \in 1..n, i # c, k \in Children(i)
      PROVE  f[i] =< f[k]
  <2>1. CASE i = p
    BY <1>1, <1>2, <2>1
  <2>2. CASE k = p
    <3>1. e[i] =< e[c] /\ i # p
      BY <1>2, <2>2 DEF OrderedAbove
    <3> QED
      BY <1>1, <1>2, <2>2, <3>1
  <2>3. CASE i # p /\ k # p
    <3>1. k # c
      BY <1>2, <2>3
    <3> QED
      BY <1>1, <1>2, <2>3, <3>1 DEF OrderedAbove
  <2> QED
    BY <2>1, <2>2, <2>3
<1>3. ASSUME NEW i \in 1..n, NEW k \in 1..n, c \in Children(i), k \in Children(c)
      PROVE  f[i] =< f[k]
  <2>1. i = p /\ k # p /\ k # c
    BY <1>3
  <2>2. e[c] =< e[k]
    BY <1>1, <1>3 DEF OrderedAbove
  <2> QED
    BY <1>1, <2>1, <2>2
<1> QED
  BY <1>2, <1>3 DEF OrderedAbove

\* sift_down returns when no child is earlier: the heap is in order.
LEMMA DownEnds ==
  ASSUME NEW n \in Nat, NEW e, NEW p \in 1..n,
         OrderedAbove(e, n, p),
         \A k \in 1..n : k \in Children(p) => e[p] =< e[k]
  PROVE  Ordered(e, n)
BY DEF Ordered, OrderedAbove

\* A round of sift_up: the node at p and its parent q change places.
LEMMA RoundUp ==
  ASSUME NEW n \in Nat, NEW e, NEW f, \A k \in 1..n : e[k] \in Nat,
         NEW p \in 1..n, NEW q \in 1..n, p \in Children(q),
         OrderedBelow(e, n, p), e[p] =< e[q],
         Exchanged(e, f, n, p, q)
  PROVE  OrderedBelow(f, n, q)
<1> USE DEF Children
<1>1. f[p] = e[q] /\ f[q] = e[p] /\ p # q /\ \A k \in 1..n : k # p /\ k # q => f[k] = e[k]
  BY DEF Exchanged
<1>2. ASSUME NEW i \in 1..n, NEW k \in 1..n, k # q, k \in Children(i)
      PROVE  f[i] =< f[k]
  <2>1. CASE k = p
    <3>1. i = q
      BY <1>2, <2>1
    <3> QED
      BY <1>1, <2>1, <3>1
  <2>2. CASE i = p
    <3>1. e[q] =< e[k] /\ k # p
      BY <1>2, <2>2 DEF OrderedBelow
    <3> QED
      BY <1>1, <1>2, <2>2, <3>1
  <2>3. CASE i = q /\ k # p
    <3>1. e[q] =< e[k]
      BY <1>2, <2>3 DEF OrderedBelow
    <3>2. e[p] =< e[k]
      BY <3>1
    <3> QED
      BY <1>1, <1>2, <2>3, <3>2
  <2>4. CASE i # p /\ i # q /\ k # p
    BY <1>1, <1>2, <2>4 DEF OrderedBelow
  <2> QED
    BY <2>1, <2>2, <2>3, <2>4
<1>3. ASSUME NEW i \in 1..n, NEW k \in 1..n, q \in Children(i), k \in Children(q)
      PROVE  f[i] =< f[k]
  <2>1. i # p /\ i # q /\ k # q /\ q # p
    BY <1>1, <1>3
  <2>2. e[i] =< e[q]
    BY <1>1, <1>3 DEF OrderedBelow
  <2>3. CASE k = p
    BY <1>1, <2>1, <2>2, <2>3
  <2>4. CASE k # p
    <3>1. e[q] =< e[k]
      BY <1>3, <2>4 DEF OrderedBelow
    <3>2. e[i] =< e[k]
      BY <2>2, <3>1
    <3> QED
      BY <1>1, <2>1, <2>4, <3>2
  <2> QED
    BY <2>3, <2>4
<1> QED
  BY <1>2, <1>3 DEF OrderedBelow

\* sift_up returns at the root or below an earlier parent: the heap is in order.
LEMMA UpEnds ==
  ASSUME NEW n \in Nat, NEW e, NEW p \in 1..n,
         OrderedBelow(e, n, p),
         \A q \in 1..n : p \in Children(q) => e[q] =< e[p]
  PROVE  Ordered(e, n)
BY DEF Ordered, OrderedBelow

\* A heap in order is in order but for any one node.
LEMMA OrderedAnywhere ==
  ASSUME NEW n \in Nat, NEW e, \A k \in 1..n : e[k] \in Nat,
         NEW p \in 1..n, Ordered(e, n)
  PROVE  OrderedBelow(e, n, p) /\ OrderedAbove(e, n, p)
BY DEF Ordered, OrderedBelow, OrderedAbove

\* A later expiry at p leaves only p's children to be compared with it.
LEMMA Postponed ==
  ASSUME NEW n \in Nat, NEW e, NEW f,
         \A k \in 1..n : e[k] \in Nat /\ f[k] \in Nat,
         NEW p \in 1..n, Ordered(e, n), e[p] =< f[p],
         \A k \in 1..n : k # p => f[k] = e[k]
  PROVE  OrderedAbove(f, n, p)
<1> USE DEF Children
<1>1. ASSUME NEW i \in 1..n, NEW k \in 1..n, i # p, k \in Children(i)
      PROVE  f[i] =< f[k]
  <2>1. e[i] =< e[k] /\ f[i] = e[i]
    BY <1>1 DEF Ordered
  <2>2. e[k] =< f[k]
    BY <1>1
  <2> QED
    BY <2>1, <2>2
<1>2. ASSUME NEW i \in 1..n, NEW k \in 1..n, p \in Children(i), k \in Children(p)
      PROVE  f[i] =< f[k]
  <2>1. e[i] =< e[p] /\ e[p] =< e[k] /\ i # p /\ k # p
    BY <1>2 DEF Ordered
  <2> QED
    BY <2>1
<1> QED
  BY <1>1, <1>2 DEF OrderedAbove

\* A new last node is all that may have to rise.
LEMMA Pushed ==
  ASSUME NEW n \in Nat, NEW e, NEW f, Ordered(e, n), \A k \in 1..n : f[k] = e[k]
  PROVE  OrderedBelow(f, n + 1, n + 1)
BY DEF Ordered, OrderedBelow, Children

\* With another node in front, the last one dropped, only the front may sink.
LEMMA FrontReplaced ==
  ASSUME NEW n \in Nat, NEW e, NEW f, Ordered(e, n + 1),
         \A k \in 2..n : f[k] = e[k]
  PROVE  OrderedAbove(f, n, 1)
BY DEF Ordered, OrderedAbove, Children

\* Each position but the first has a parent, nearer to the front.
LEMMA ParentExists ==
  ASSUME NEW i \in Nat, i > 1
  PROVE  i \div 2 \in 1..(i - 1) /\ i \in Children(i \div 2)
BY DEF Children

\* No expiry of a heap in order is before that of the front.
LEMMA FrontEarliest ==
  ASSUME NEW n \in Nat, NEW e, \A k \in 1..n : e[k] \in Nat,
         Ordered(e, n), NEW i \in 1..n
  PROVE  e[1] =< e[i]
<1> DEFINE T == {k \in 1..n : e[k] < e[1]}
<1>1. SUFFICES ASSUME T # {} PROVE FALSE
  <2>1. 1 \in 1..n
    OBVIOUS
  <2> QED
    BY <1>1, <2>1
<1>2. T \subseteq Nat
  OBVIOUS
<1>3. \E x \in T : \A y \in T : ~(<<y, x>> \in OpToRel(<, Nat))
  BY <1>1, <1>2, NatLessThanWellFounded, WFMin, Zenon
<1>4. PICK x \in T : \A y \in T : ~(y < x)
  BY <1>2, <1>3 DEF OpToRel
<1>5. x \in 1..n /\ e[x] < e[1] /\ x > 1
  BY <1>4
<1> DEFINE q == x \div 2
<1>6. q \in 1..n /\ q < x /\ x \in Children(q)
  BY <1>5, ParentExists
<1> HIDE DEF q
<1>7. e[q] =< e[x] /\ 1 \in 1..n
  BY <1>5, <1>6 DEF Ordered
<1>8. e[q] < e[1]
  BY <1>5, <1>6, <1>7
<1> QED
  BY <1>4, <1>6, <1>8
-----------------------------------------------------------------------------

\* Overwriting an element of a sequence.
LEMMA Overwrite ==
  ASSUME NEW S, NEW q \in Seq(S), NEW i \in 1..Len(q), NEW x \in S
  PROVE  /\ [q EXCEPT ![i] = x] \in Seq(S)
         /\ Len([q EXCEPT ![i] = x]) = Len(q)
         /\ \A j \in 1..Len(q) : [q EXCEPT ![i] = x][j] = IF j = i THEN x ELSE q[j]
  OBVIOUS

\* push_back().
LEMMA PushBack ==
  ASSUME NEW S, NEW q \in Seq(S), NEW x \in S
  PROVE  /\ Append(q, x) \in Seq(S)
         /\ Len(q) \in Nat
         /\ Len(Append(q, x)) = Len(q) + 1
         /\ \A i \in 1..Len(q) : Append(q, x)[i] = q[i]
         /\ Append(q, x)[Len(q) + 1] = x
  OBVIOUS

\* pop_back().
LEMMA PopBack ==
  ASSUME NEW S, NEW q \in Seq(S), Len(q) >= 1
  PROVE  /\ SubSeq(q, 1, Len(q) - 1) \in Seq(S)
         /\ Len(SubSeq(q, 1, Len(q) - 1)) = Len(q) - 1
         /\ \A i \in 1..(Len(q) - 1) : SubSeq(q, 1, Len(q) - 1)[i] = q[i]
<1> DEFINE n == Len(q) - 1
<1>1. n \in Nat /\ 1 \in Int /\ \A i \in 1..n : q[i] \in S
  OBVIOUS
<1> HIDE DEF n
<1>2. /\ SubSeq(q, 1, n) \in Seq(S)
      /\ Len(SubSeq(q, 1, n)) = IF 1 =< n THEN n - 1 + 1 ELSE 0
      /\ \A i \in 1..(n - 1 + 1) : SubSeq(q, 1, n)[i] = q[1 + i - 1]
  BY <1>1, SubSeqProperties
<1>3. Len(SubSeq(q, 1, n)) = n /\ \A i \in 1..n : SubSeq(q, 1, n)[i] = q[i]
  BY <1>1, <1>2
<1> QED
  BY <1>2, <1>3 DEF n

\* swap_node(i, j).
LEMMA SwapHeap ==
  ASSUME m_heap \in Seq(Node), NEW i \in 1..Len(m_heap), NEW j \in 1..Len(m_heap)
  PROVE  /\ Swapped(i, j) \in Seq(Node)
         /\ Len(Swapped(i, j)) = Len(m_heap)
         /\ \A k \in 1..Len(m_heap) :
              Swapped(i, j)[k] = IF k = j THEN m_heap[i] ELSE IF k = i THEN m_heap[j]
                                 ELSE m_heap[k]
BY DEF Swapped
-----------------------------------------------------------------------------
\* The nodes in the heap proper: all but the one del_ is about to remove.
Size == IF Deleting THEN Len(m_heap) - 1 ELSE Len(m_heap)

\* Where the indices of the loops are.
Indices ==
  /\ pc \in {"down", "up"} => pos \in 1..Size
  /\ pc = "down" => limit = Size /\ start \in 1..Size
  /\ pc = "pop" => mode = "del" /\ m_heap # <<>>

\* The inductive strengthening of RefExact.
RefInv == TypeOK /\ RefExact /\ Indices

\* swap_node keeps m_ref the inverse of m_heap.
LEMMA SwapRef ==
  ASSUME TypeOK, RefExact,
         NEW i \in 1..Len(m_heap), NEW j \in 1..Len(m_heap), i # j,
         SwapNode(i, j)
  PROVE  /\ RefExact'
         /\ m_heap' \in Seq(Node) /\ Len(m_heap') = Len(m_heap)
         /\ m_ref' \in [DOMAIN m_ref' -> Nat] /\ DOMAIN m_ref' \subseteq Ids
<1> DEFINE n == Len(m_heap)
<1>1. /\ m_heap' \in Seq(Node) /\ Len(m_heap') = n
      /\ \A k \in 1..n : m_heap'[k] = IF k = j THEN m_heap[i] ELSE IF k = i THEN m_heap[j]
                                      ELSE m_heap[k]
  BY SwapHeap DEF SwapNode, TypeOK
<1>2. /\ \A k \in 1..n : m_heap[k].id \in DOMAIN m_ref /\ m_ref[m_heap[k].id] = k
      /\ \A id \in DOMAIN m_ref : m_ref[id] \in 1..n /\ m_heap[m_ref[id]].id = id
  BY DEF RefExact
<1> DEFINE a == m_heap[i].id
           b == m_heap[j].id
<1>3. a \in DOMAIN m_ref /\ b \in DOMAIN m_ref /\ a # b /\ m_ref[a] = i /\ m_ref[b] = j
  BY <1>2
<1>4. /\ DOMAIN m_ref' = DOMAIN m_ref
      /\ \A id \in DOMAIN m_ref : m_ref'[id] = IF id = a THEN j ELSE IF id = b THEN i
                                               ELSE m_ref[id]
  BY <1>3 DEF SwapNode, TypeOK
<1>5. \A k \in 1..n : m_heap'[k].id \in DOMAIN m_ref' /\ m_ref'[m_heap'[k].id] = k
  <2> SUFFICES ASSUME NEW k \in 1..n
               PROVE  m_heap'[k].id \in DOMAIN m_ref' /\ m_ref'[m_heap'[k].id] = k
    OBVIOUS
  <2>1. CASE k = i
    BY <1>1, <1>3, <1>4, <2>1
  <2>2. CASE k = j
    BY <1>1, <1>3, <1>4, <2>2
  <2>3. CASE k # i /\ k # j
    <3> DEFINE c == m_heap[k].id
    <3>1. m_heap'[k] = m_heap[k] /\ c # a /\ c # b /\ c \in DOMAIN m_ref /\ m_ref[c] = k
      BY <1>1, <1>2, <1>3, <2>3
    <3>2. m_heap'[k].id = c
      BY <3>1
    <3> HIDE DEF a, b, c
    <3>3. m_ref'[c] = k
      BY <1>4, <3>1
    <3> QED
      BY <1>4, <3>1, <3>2, <3>3
  <2> QED
    BY <2>1, <2>2, <2>3
<1>6. \A id \in DOMAIN m_ref' : m_ref'[id] \in 1..n /\ m_heap'[m_ref'[id]].id = id
  <2> SUFFICES ASSUME NEW id \in DOMAIN m_ref
               PROVE  m_ref'[id] \in 1..n /\ m_heap'[m_ref'[id]].id = id
    BY <1>4
  <2>1. CASE id = a
    BY <1>1, <1>4, <2>1
  <2>2. CASE id = b
    BY <1>1, <1>3, <1>4, <2>2
  <2>3. CASE id # a /\ id # b
    <3> DEFINE r == m_ref[id]
    <3>1. m_ref'[id] = r /\ r # i /\ r # j
      BY <1>2, <1>4, <2>3
    <3>2. r \in 1..n /\ m_heap[r].id = id
      BY <1>2
    <3> HIDE DEF r
    <3>3. m_heap'[r] = m_heap[r]
      BY <1>1, <3>1, <3>2
    <3> QED
      BY <3>1, <3>2, <3>3
  <2> QED
    BY <2>1, <2>2, <2>3
<1>7. m_ref' \in [DOMAIN m_ref' -> Nat]
  <2>1. i \in Nat /\ j \in Nat
    OBVIOUS
  <2> QED
    BY <1>4, <2>1 DEF SwapNode, TypeOK
<1>8. DOMAIN m_ref' \subseteq Ids
  BY <1>4 DEF TypeOK
<1> QED
  BY <1>1, <1>5, <1>6, <1>7, <1>8 DEF RefExact

\* A new deadline in place: add of a known descriptor, adjust.
LEMMA RenewRef ==
  ASSUME TypeOK, RefExact, NEW id \in DOMAIN m_ref,
         m_heap' = [m_heap EXCEPT ![m_ref[id]].expires = now + Timeout],
         m_ref' = m_ref
  PROVE  /\ RefExact'
         /\ m_ref[id] \in 1..Len(m_heap)
         /\ m_heap' \in Seq(Node) /\ Len(m_heap') = Len(m_heap)
         /\ \A k \in 1..Len(m_heap) :
              m_heap'[k].expires = IF k = m_ref[id] THEN now + Timeout ELSE m_heap[k].expires
<1> DEFINE i == m_ref[id]
           x == [id |-> m_heap[i].id, expires |-> now + Timeout]
<1>1. i \in 1..Len(m_heap)
  BY DEF RefExact
<1>2. m_heap[i] \in Node
  BY <1>1 DEF TypeOK
<1>3. x \in Node /\ x.id = m_heap[i].id /\ x.expires = now + Timeout
  BY <1>2, HeapAssumption DEF Node, TypeOK, HeapAssumption
<1>4. m_heap' = [m_heap EXCEPT ![i] = x]
  <2>1. [m_heap[i] EXCEPT !.expires = now + Timeout] = x
    BY <1>2 DEF Node
  <2> QED
    BY <2>1
<1> HIDE DEF x
<1>5. /\ m_heap' \in Seq(Node) /\ Len(m_heap') = Len(m_heap)
      /\ \A k \in 1..Len(m_heap) : m_heap'[k] = IF k = i THEN x ELSE m_heap[k]
  <2>1. m_heap \in Seq(Node) /\ x \in Node
    BY <1>3 DEF TypeOK
  <2> HIDE DEF i
  <2>2. /\ [m_heap EXCEPT ![i] = x] \in Seq(Node)
        /\ Len([m_heap EXCEPT ![i] = x]) = Len(m_heap)
        /\ \A j \in 1..Len(m_heap) :
             [m_heap EXCEPT ![i] = x][j] = IF j = i THEN x ELSE m_heap[j]
    BY <1>1, <2>1, Overwrite
  <2> QED
    BY <1>4, <2>2
<1>6. \A k \in 1..Len(m_heap) : m_heap'[k].id = m_heap[k].id
  BY <1>3, <1>5
<1>7. RefExact'
  BY <1>5, <1>6 DEF RefExact
<1> QED
  BY <1>1, <1>3, <1>5, <1>7

\* push_back of a new node.
LEMMA AddRef ==
  ASSUME TypeOK, RefExact, NEW id \in Ids, AddNew(id)
  PROVE  /\ RefExact'
         /\ m_heap' \in Seq(Node) /\ Len(m_heap') = Len(m_heap) + 1
         /\ m_ref' \in [DOMAIN m_ref' -> Nat] /\ DOMAIN m_ref' \subseteq Ids
         /\ \A k \in 1..Len(m_heap) : m_heap'[k] = m_heap[k]
         /\ m_heap'[Len(m_heap) + 1].expires = now + Timeout
<1> DEFINE n == Len(m_heap)
           x == [id |-> id, expires |-> now + Timeout]
<1>1. x \in Node /\ x.id = id /\ x.expires = now + Timeout
  BY HeapAssumption DEF HeapAssumption, Node, TypeOK
<1>2. m_heap' = Append(m_heap, x)
  BY DEF AddNew
<1> HIDE DEF x
<1>3. /\ m_heap' \in Seq(Node) /\ Len(m_heap') = n + 1 /\ n \in Nat
      /\ \A k \in 1..n : m_heap'[k] = m_heap[k]
      /\ m_heap'[n + 1] = x
  BY <1>1, <1>2, PushBack DEF TypeOK
<1>4. /\ id \notin DOMAIN m_ref
      /\ DOMAIN m_ref' = DOMAIN m_ref \cup {id}
      /\ \A j \in DOMAIN m_ref : m_ref'[j] = m_ref[j]
      /\ m_ref'[id] = n + 1
      /\ m_ref' = [j \in DOMAIN m_ref' |-> m_ref'[j]]
  BY DEF AddNew, RefWith
<1>5. \A k \in 1..(n + 1) : m_heap'[k].id \in DOMAIN m_ref' /\ m_ref'[m_heap'[k].id] = k
  <2> SUFFICES ASSUME NEW k \in 1..(n + 1)
               PROVE  m_heap'[k].id \in DOMAIN m_ref' /\ m_ref'[m_heap'[k].id] = k
    OBVIOUS
  <2>1. CASE k = n + 1
    BY <1>1, <1>3, <1>4, <2>1
  <2>2. CASE k \in 1..n
    <3> DEFINE c == m_heap[k].id
    <3>1. c \in DOMAIN m_ref /\ m_ref[c] = k /\ m_heap'[k] = m_heap[k]
      BY <1>3, <2>2 DEF RefExact
    <3>2. m_heap'[k].id = c
      BY <3>1
    <3> HIDE DEF c
    <3> QED
      BY <1>4, <3>1, <3>2
  <2> QED
    BY <1>3, <2>1, <2>2
<1>6. \A j \in DOMAIN m_ref' : m_ref'[j] \in 1..(n + 1) /\ m_heap'[m_ref'[j]].id = j
  <2> SUFFICES ASSUME NEW j \in DOMAIN m_ref'
               PROVE  m_ref'[j] \in 1..(n + 1) /\ m_heap'[m_ref'[j]].id = j
    OBVIOUS
  <2>1. CASE j = id
    BY <1>1, <1>3, <1>4, <2>1
  <2>2. CASE j \in DOMAIN m_ref
    <3>1. m_ref[j] \in 1..n /\ m_heap[m_ref[j]].id = j /\ m_ref'[j] = m_ref[j]
      BY <1>4, <2>2 DEF RefExact
    <3> QED
      BY <1>3, <3>1
  <2> QED
    BY <1>4, <2>1, <2>2
<1>7. m_ref' \in [DOMAIN m_ref' -> Nat] /\ DOMAIN m_ref' \subseteq Ids
  BY <1>3, <1>4, <1>6 DEF TypeOK
<1> QED
  BY <1>1, <1>3, <1>5, <1>6, <1>7 DEF RefExact

\* erase and pop_back at the end of del_.
LEMMA PopRef ==
  ASSUME TypeOK, RefExact, Indices, Pop
  PROVE  /\ RefExact'
         /\ m_heap' \in Seq(Node) /\ Len(m_heap) >= 1 /\ Len(m_heap') = Len(m_heap) - 1
         /\ m_ref' \in [DOMAIN m_ref' -> Nat] /\ DOMAIN m_ref' \subseteq Ids
         /\ \A k \in 1..(Len(m_heap) - 1) : m_heap'[k] = m_heap[k]
<1> DEFINE n == Len(m_heap)
           a == m_heap[n].id
<1>1. n \in Nat /\ n >= 1
  BY DEF TypeOK, Indices, Pop
<1>2. /\ m_heap' \in Seq(Node) /\ Len(m_heap') = n - 1
      /\ \A k \in 1..(n - 1) : m_heap'[k] = m_heap[k]
  BY <1>1, PopBack DEF TypeOK, Pop
<1>3. a \in DOMAIN m_ref /\ m_ref[a] = n
  BY <1>1 DEF RefExact
<1>4. /\ DOMAIN m_ref' = DOMAIN m_ref \ {a}
      /\ \A j \in DOMAIN m_ref' : m_ref'[j] = m_ref[j]
      /\ m_ref' = [j \in DOMAIN m_ref' |-> m_ref'[j]]
  BY DEF Pop
<1> HIDE DEF a
<1>5. \A k \in 1..(n - 1) : m_heap'[k].id \in DOMAIN m_ref' /\ m_ref'[m_heap'[k].id] = k
  <2> SUFFICES ASSUME NEW k \in 1..(n - 1)
               PROVE  m_heap'[k].id \in DOMAIN m_ref' /\ m_ref'[m_heap'[k].id] = k
    OBVIOUS
  <2> DEFINE c == m_heap[k].id
  <2>1. k \in 1..n /\ k # n /\ m_heap'[k] = m_heap[k]
    BY <1>1, <1>2
  <2>2. c \in DOMAIN m_ref /\ m_ref[c] = k
    BY <2>1 DEF RefExact
  <2>3. m_heap'[k].id = c
    BY <2>1
  <2> HIDE DEF c
  <2>4. c # a
    BY <1>3, <2>1, <2>2
  <2> QED
    BY <1>4, <2>2, <2>3, <2>4
<1>6. \A j \in DOMAIN m_ref' : m_ref'[j] \in 1..(n - 1) /\ m_heap'[m_ref'[j]].id = j
  <2> SUFFICES ASSUME NEW j \in DOMAIN m_ref'
               PROVE  m_ref'[j] \in 1..(n - 1) /\ m_heap'[m_ref'[j]].id = j
    OBVIOUS
  <2>1. j \in DOMAIN m_ref /\ j # a /\ m_ref'[j] = m_ref[j]
    BY <1>4
  <2>2. m_ref[j] \in 1..n /\ m_heap[m_ref[j]].id = j
    BY <2>1 DEF RefExact
  <2>3. m_ref[j] # n
    BY <2>1, <2>2 DEF a
  <2> QED
    BY <1>1, <1>2, <2>1, <2>2, <2>3
<1>7. m_ref' \in [DOMAIN m_ref' -> Nat] /\ DOMAIN m_ref' \subseteq Ids
  BY <1>4, <1>6 DEF TypeOK
<1> QED
  BY <1>1, <1>2, <1>5, <1>6, <1>7 DEF RefExact

\* The child sift_down compares with is one of the two, inside the heap.
LEMMA SmallerChild ==
  ASSUME TypeOK, Indices, pc = "down", 2 * pos =< limit
  PROVE  /\ Smaller(2 * pos) \in {2 * pos, 2 * pos + 1}
         /\ Smaller(2 * pos) \in 1..limit
         /\ Smaller(2 * pos) # pos
         /\ limit =< Len(m_heap)
BY DEF TypeOK, Indices, Smaller, Size

\* Every step keeps m_ref the inverse of m_heap and the loops inside it.
LEMMA RefInductive ==
  ASSUME Stray = 0
  PROVE  RefInv /\ [Next]_vars => RefInv'
<1> USE HeapAssumption DEF HeapAssumption
<1> SUFFICES ASSUME TypeOK, RefExact, Indices, [Next]_vars
             PROVE  TypeOK' /\ RefExact' /\ Indices'
  BY DEF RefInv
<1>0. Len(m_heap) \in Nat
  BY DEF TypeOK
<1>1. ASSUME NEW id \in Ids, AddNew(id)
      PROVE  TypeOK' /\ RefExact' /\ Indices'
  <2>1. /\ RefExact'
        /\ m_heap' \in Seq(Node) /\ Len(m_heap') = Len(m_heap) + 1
        /\ m_ref' \in [DOMAIN m_ref' -> Nat] /\ DOMAIN m_ref' \subseteq Ids
    BY <1>1, AddRef
  <2>2. /\ pc' = "up" /\ pos' = Len(m_heap) + 1 /\ mode' = "add" /\ start' = start
        /\ limit' = limit /\ now' = now
    BY <1>1 DEF AddNew, SiftUpFrom
  <2> QED
    BY <1>0, <2>1, <2>2 DEF TypeOK, Indices, Size, Deleting
<1>2. ASSUME NEW id \in Ids, AddAgain(id) \/ Adjust(id)
      PROVE  TypeOK' /\ RefExact' /\ Indices'
  <2>1. /\ id \in DOMAIN m_ref /\ m_ref' = m_ref
        /\ m_heap' = [m_heap EXCEPT ![m_ref[id]].expires = now + Timeout]
    <3>1. CASE AddAgain(id)
      BY <3>1 DEF AddAgain
    <3>2. CASE Adjust(id)
      <4>1. id \in DOMAIN m_ref
        BY <3>2 DEF Adjust
      <4>2. m_ref' = m_ref
        BY <3>2, <4>1 DEF Adjust, RefOf, RefWith, TypeOK
      <4> QED
        BY <3>2, <4>1, <4>2 DEF Adjust, RefOf
    <3> QED
      BY <1>2, <3>1, <3>2
  <2>2. /\ RefExact'
        /\ m_ref[id] \in 1..Len(m_heap)
        /\ m_heap' \in Seq(Node) /\ Len(m_heap') = Len(m_heap)
    BY <2>1, RenewRef
  <2>3. /\ pc' = "down" /\ pos' = m_ref[id] /\ start' = m_ref[id] /\ limit' = Len(m_heap)
        /\ mode' \in {"add", "adjust"} /\ now' = now
    BY <1>2, <2>1 DEF AddAgain, Adjust, SiftDownFrom, RefOf
  <2> QED
    BY <1>0, <2>1, <2>2, <2>3 DEF TypeOK, Indices, Size, Deleting
<1>3. CASE SiftDownSwaps
  <2> DEFINE c == Smaller(2 * pos)
  <2>1. /\ pc = "down" /\ SwapNode(pos, c) /\ pos' = c /\ 2 * pos =< limit
        /\ UNCHANGED <<now, pc, mode, start, limit>>
    BY <1>3 DEF SiftDownSwaps
  <2>2. c \in 1..limit /\ c # pos /\ limit =< Len(m_heap)
    BY <2>1, SmallerChild
  <2>3. pos \in 1..Len(m_heap) /\ limit = Size
    BY <2>1 DEF TypeOK, Indices
  <2>4. limit \in Nat
    BY DEF TypeOK
  <2> HIDE DEF c
  <2>5. c \in 1..Len(m_heap)
    BY <1>0, <2>2, <2>4
  <2>6. /\ RefExact'
        /\ m_heap' \in Seq(Node) /\ Len(m_heap') = Len(m_heap)
        /\ m_ref' \in [DOMAIN m_ref' -> Nat] /\ DOMAIN m_ref' \subseteq Ids
    BY <2>1, <2>2, <2>3, <2>5, SwapRef
  <2> QED
    BY <1>0, <2>1, <2>2, <2>3, <2>5, <2>6 DEF TypeOK, Indices, Size, Deleting
<1>4. CASE SiftDownEnds
  <2>1. pc = "down" /\ pc' \in {"up", "pop", "idle"} /\ (pc' = "pop" => mode = "del")
    BY <1>4 DEF SiftDownEnds
  <2> QED
    BY <1>0, <1>4, <2>1 DEF SiftDownEnds, TypeOK, RefExact, Indices, Size, Deleting
<1>5. CASE SiftUpSwaps
  <2> DEFINE p == Parent(pos)
  <2>1. /\ pc = "up" /\ SwapNode(pos, p) /\ pos' = p /\ pos > 1
        /\ UNCHANGED <<now, pc, mode, start, limit>>
    BY <1>5 DEF SiftUpSwaps
  <2>2. pos \in 1..Len(m_heap) /\ pos \in 1..Size
    BY <2>1 DEF TypeOK, Indices
  <2>3. p \in 1..(pos - 1)
    BY <2>1, <2>2 DEF Parent
  <2> HIDE DEF p
  <2>4. p \in 1..Len(m_heap) /\ p # pos
    BY <1>0, <2>2, <2>3
  <2>5. /\ RefExact'
        /\ m_heap' \in Seq(Node) /\ Len(m_heap') = Len(m_heap)
        /\ m_ref' \in [DOMAIN m_ref' -> Nat] /\ DOMAIN m_ref' \subseteq Ids
    BY <2>1, <2>2, <2>4, SwapRef
  <2> QED
    BY <1>0, <2>1, <2>2, <2>3, <2>4, <2>5 DEF TypeOK, Indices, Size, Deleting
<1>6. CASE SiftUpEnds
  <2>1. pc = "up" /\ pc' \in {"pop", "idle"} /\ (pc' = "pop" => mode = "del")
    BY <1>6 DEF SiftUpEnds
  <2> QED
    BY <1>0, <1>6, <2>1 DEF SiftUpEnds, TypeOK, RefExact, Indices, Size, Deleting
<1>7. CASE TickFires
  <2> DEFINE n == Len(m_heap)
  <2>1. /\ n >= 1 /\ m_ref[m_heap[1].id] = 1 /\ mode' = "del" /\ now' = now
    BY <1>0, <1>7 DEF TickFires, RefExact
  <2>2. CASE 1 < n
    <3>1. SwapNode(1, n) /\ SiftDownFrom(1, n - 1)
      <4> DEFINE k == m_ref[m_heap[1].id]
      <4>1. k < n => SwapNode(k, n) /\ SiftDownFrom(k, n - 1)
        BY <1>7 DEF TickFires
      <4>2. k = 1 /\ k < n
        BY <2>1, <2>2
      <4> HIDE DEF k
      <4> QED
        BY <4>1, <4>2 DEF SwapNode, Swapped, SiftDownFrom
    <3>2. 1 \in 1..n /\ n \in 1..n /\ 1 # n
      <4>1. n \in Nat /\ 1 < n
        BY <1>0, <2>2
      <4> HIDE DEF n
      <4> QED
        BY <4>1
    <3>3. /\ RefExact'
          /\ m_heap' \in Seq(Node) /\ Len(m_heap') = Len(m_heap)
          /\ m_ref' \in [DOMAIN m_ref' -> Nat] /\ DOMAIN m_ref' \subseteq Ids
      BY <3>1, <3>2, SwapRef
    <3>4. pc' = "down" /\ pos' = 1 /\ start' = 1 /\ limit' = n - 1
      BY <3>1 DEF SiftDownFrom
    <3>5. n - 1 \in Nat /\ 1 \in 1..(n - 1) /\ 1 \in 1..n /\ 1 \in Nat
      BY <1>0, <2>2
    <3> HIDE DEF n
    <3>6. TypeOK'
      BY <2>1, <3>3, <3>4, <3>5 DEF TypeOK, n
    <3>7. Size' = n - 1
      BY <2>1, <3>3, <3>4 DEF Size, Deleting, n
    <3>8. Indices'
      BY <3>4, <3>5, <3>7 DEF Indices
    <3> QED
      BY <3>3, <3>6, <3>8
  <2>3. CASE ~(1 < n)
    <3>1. pc' = "pop" /\ UNCHANGED <<m_heap, m_ref, pos, start, limit>> /\ m_heap # <<>>
      BY <1>7, <2>1, <2>3 DEF TickFires
    <3> QED
      BY <2>1, <3>1 DEF TypeOK, RefExact, Indices, Size, Deleting
  <2> QED
    BY <2>2, <2>3
<1>8. CASE Pop
  <2>1. /\ RefExact'
        /\ m_heap' \in Seq(Node)
        /\ m_ref' \in [DOMAIN m_ref' -> Nat] /\ DOMAIN m_ref' \subseteq Ids
    BY <1>8, PopRef
  <2> QED
    BY <1>8, <2>1 DEF Pop, TypeOK, Indices
<1>9. CASE Tick \/ TickEnds \/ Clock \/ UNCHANGED vars
  BY <1>9 DEF Tick, TickEnds, Clock, vars, TypeOK, RefExact, Indices, Size, Deleting
<1> QED
  BY <1>1, <1>2, <1>3, <1>4, <1>5, <1>6, <1>7, <1>8, <1>9 DEF Next, Step

LEMMA RefInit == Init => RefInv
BY HeapAssumption DEF HeapAssumption, Init, RefInv, TypeOK, RefExact, Indices

\* The heap stays well typed and its loops inside the vector, if only
\* descriptors with a node are adjusted.
THEOREM TypeCorrect ==
  ASSUME Stray = 0
  PROVE  Spec => []TypeOK
<1>1. RefInv => TypeOK
  BY DEF RefInv
<1> QED
  BY <1>1, RefInit, RefInductive, PTL DEF Spec

\* m_ref is the inverse of m_heap after every iteration of every loop, if only
\* descriptors with a node are adjusted; the clock may do what it likes.
THEOREM RefAlwaysExact ==
  ASSUME Stray = 0
  PROVE  Spec => []RefExact
<1>1. RefInv => RefExact
  BY DEF RefInv
<1> QED
  BY <1>1, RefInit, RefInductive, PTL DEF Spec
-----------------------------------------------------------------------------
\* The expiries of the nodes, by position.
Keys(h) == [i \in 1..Len(h) |-> h[i].expires]

\* The inductive strengthening of TopEarliest: no node expires later than one
\* that is added or renewed now, and the heap is in order but for the node
\* that sifts.
HeapInv ==
  /\ \A i \in 1..Len(m_heap) : m_heap[i].expires =< now + Timeout
  /\ pc \in {"idle", "tick", "pop"} => Ordered(Keys(m_heap), Size)
  /\ pc = "down" => OrderedAbove(Keys(m_heap), Size, pos)
  /\ pc = "up" => OrderedBelow(Keys(m_heap), Size, pos)

\* The nodes of a heap expire at some time.
LEMMA ExpiresNat ==
  ASSUME NEW h \in Seq(Node), NEW k \in 1..Len(h)
  PROVE  h[k].expires \in Nat
<1>1. h[k] \in Node
  OBVIOUS
<1> QED
  BY <1>1 DEF Node

\* The expiries of the heap proper are natural numbers.
LEMMA KeysNat ==
  ASSUME RefInv
  PROVE  /\ Len(m_heap) \in Nat /\ Size =< Len(m_heap)
         /\ m_heap # <<>> => Size \in Nat
         /\ ~Deleting => Size = Len(m_heap)
         /\ \A k \in 1..Len(m_heap) :
              Keys(m_heap)[k] = m_heap[k].expires /\ Keys(m_heap)[k] \in Nat
<1>1. Len(m_heap) \in Nat /\ (m_heap # <<>> => Len(m_heap) >= 1)
  BY DEF RefInv, TypeOK
<1>2. \A k \in 1..Len(m_heap) : m_heap[k].expires \in Nat
  BY ExpiresNat DEF RefInv, TypeOK
<1> QED
  BY <1>1, <1>2 DEF Keys, Size

\* swap_node exchanges the expiries of two positions.
LEMMA KeysSwap ==
  ASSUME RefInv, NEW i \in 1..Len(m_heap), NEW j \in 1..Len(m_heap), i # j, SwapNode(i, j)
  PROVE  /\ Len(m_heap') = Len(m_heap)
         /\ \A k \in 1..Len(m_heap) :
              Keys(m_heap')[k] = IF k = i THEN Keys(m_heap)[j]
                                 ELSE IF k = j THEN Keys(m_heap)[i] ELSE Keys(m_heap)[k]
         /\ (\A k \in 1..Len(m_heap) : m_heap[k].expires =< now + Timeout)
              => \A k \in 1..Len(m_heap') : m_heap'[k].expires =< now + Timeout
<1>1. /\ Len(m_heap') = Len(m_heap)
      /\ \A k \in 1..Len(m_heap) : m_heap'[k] = IF k = j THEN m_heap[i] ELSE IF k = i THEN m_heap[j]
                                                ELSE m_heap[k]
  BY SwapHeap DEF SwapNode, RefInv, TypeOK
<1> QED
  BY <1>1 DEF Keys

\* Every step keeps the heap in order but for the node that sifts.
LEMMA HeapInductive ==
  ASSUME Stray = 0, ClockSteps = 0
  PROVE  RefInv /\ HeapInv /\ [Next]_vars => HeapInv'
<1> USE HeapAssumption DEF HeapAssumption
<1> SUFFICES ASSUME RefInv, HeapInv, [Next]_vars PROVE HeapInv'
  OBVIOUS
<1> DEFINE n == Size
           e == Keys(m_heap)
           f == Keys(m_heap')
<1>a. RefInv'
  BY RefInductive
<1>b. TypeOK /\ RefExact /\ Indices
  BY DEF RefInv
<1>c. /\ Len(m_heap) \in Nat /\ Size =< Len(m_heap) /\ (m_heap # <<>> => Size \in Nat)
      /\ (~Deleting => Size = Len(m_heap))
      /\ \A k \in 1..Len(m_heap) : e[k] = m_heap[k].expires /\ e[k] \in Nat
  BY KeysNat
<1>d. \A k \in 1..Len(m_heap) : m_heap[k].expires =< now + Timeout
  BY DEF HeapInv
<1>e. \A k \in 1..Len(m_heap') : f[k] = m_heap'[k].expires
  BY DEF Keys
<1>f. \A k \in 1..Len(m_heap') : f[k] \in Nat
  <2>1. m_heap' \in Seq(Node)
    BY <1>a DEF RefInv, TypeOK
  <2> QED
    BY <1>e, <2>1, ExpiresNat
<1>1. ASSUME NEW id \in Ids, AddNew(id)
      PROVE  HeapInv'
  <2>1. /\ Len(m_heap') = n + 1 /\ n = Len(m_heap) /\ n \in Nat /\ Size' = n + 1
        /\ \A k \in 1..n : m_heap'[k] = m_heap[k]
        /\ m_heap'[n + 1].expires = now + Timeout
    <3>1. /\ Len(m_heap') = Len(m_heap) + 1
          /\ \A k \in 1..Len(m_heap) : m_heap'[k] = m_heap[k]
          /\ m_heap'[Len(m_heap) + 1].expires = now + Timeout
      BY <1>1, <1>b, AddRef
    <3>2. ~Deleting /\ ~Deleting'
      BY <1>1 DEF AddNew, SiftUpFrom, Deleting
    <3> QED
      BY <1>c, <3>1, <3>2 DEF Size
  <2>2. pc = "idle" /\ pc' = "up" /\ pos' = n + 1 /\ now' = now
    BY <1>1, <2>1 DEF AddNew, SiftUpFrom
  <2>3. Ordered(e, n)
    BY <2>2 DEF HeapInv
  <2>4. \A k \in 1..n : f[k] = e[k]
    BY <1>c, <1>e, <2>1
  <2> HIDE DEF n, e, f
  <2>5. OrderedBelow(f, n + 1, n + 1)
    BY <2>1, <2>3, <2>4, Pushed
  <2>6. \A k \in 1..Len(m_heap') : m_heap'[k].expires =< now' + Timeout
    <3> SUFFICES ASSUME NEW k \in 1..(n + 1)
                 PROVE  m_heap'[k].expires =< now + Timeout
      BY <2>1, <2>2
    <3>1. CASE k = n + 1
      <4>1. now + Timeout \in Nat
        BY <1>b DEF TypeOK
      <4> QED
        BY <2>1, <3>1, <4>1
    <3>2. CASE k # n + 1
      <4>1. k \in 1..n
        BY <2>1, <3>2
      <4> QED
        BY <1>d, <2>1, <4>1 DEF n
    <3> QED
      BY <3>1, <3>2
  <2> QED
    BY <2>1, <2>2, <2>5, <2>6 DEF HeapInv, f
<1>2. ASSUME NEW id \in Ids, AddAgain(id) \/ Adjust(id)
      PROVE  HeapInv'
  <2>1. /\ id \in DOMAIN m_ref /\ m_ref' = m_ref
        /\ m_heap' = [m_heap EXCEPT ![m_ref[id]].expires = now + Timeout]
    <3>1. CASE AddAgain(id)
      BY <3>1 DEF AddAgain
    <3>2. CASE Adjust(id)
      <4>1. id \in DOMAIN m_ref
        BY <3>2 DEF Adjust
      <4>2. m_ref' = m_ref
        BY <1>b, <3>2, <4>1 DEF Adjust, RefOf, RefWith, TypeOK
      <4> QED
        BY <3>2, <4>1, <4>2 DEF Adjust, RefOf
    <3> QED
      BY <1>2, <3>1, <3>2
  <2>2. /\ m_ref[id] \in 1..Len(m_heap)
        /\ Len(m_heap') = Len(m_heap)
        /\ \A k \in 1..Len(m_heap) :
             m_heap'[k].expires = IF k = m_ref[id] THEN now + Timeout ELSE m_heap[k].expires
    BY <1>b, <2>1, RenewRef
  <2>3. pc = "idle" /\ pc' = "down" /\ pos' = m_ref[id] /\ mode' # "del" /\ now' = now
    BY <1>2, <2>1 DEF AddAgain, Adjust, SiftDownFrom, RefOf
  <2>4. n = Len(m_heap) /\ Size' = n /\ n \in Nat
    BY <1>c, <2>2, <2>3 DEF Size, Deleting
  <2>5. Ordered(e, n)
    BY <2>3 DEF HeapInv
  <2> DEFINE p == m_ref[id]
  <2>6. /\ p \in 1..n
        /\ \A k \in 1..n : e[k] \in Nat /\ f[k] \in Nat
        /\ e[p] =< f[p]
        /\ \A k \in 1..n : k # p => f[k] = e[k]
    BY <1>c, <1>d, <1>e, <1>f, <2>2, <2>4
  <2>7. \A k \in 1..Len(m_heap') : m_heap'[k].expires =< now' + Timeout
    BY <1>b, <1>d, <2>2, <2>3 DEF TypeOK
  <2> HIDE DEF n, e, f, p
  <2>8. OrderedAbove(f, n, p)
    BY <2>4, <2>5, <2>6, Postponed
  <2> QED
    BY <2>3, <2>4, <2>7, <2>8 DEF HeapInv, f, p
<1>3. CASE SiftDownSwaps
  <2> DEFINE c == Smaller(2 * pos)
             p == pos
  <2>1. /\ pc = "down" /\ SwapNode(p, c) /\ pos' = c /\ 2 * p =< limit
        /\ m_heap[c].expires =< m_heap[p].expires
        /\ UNCHANGED <<now, pc, mode, start, limit>>
    BY <1>3 DEF SiftDownSwaps
  <2>2. c \in Children(p) /\ c \in 1..limit /\ c # p
    BY <1>b, <2>1, SmallerChild DEF Children
  <2>3. limit = n /\ p \in 1..n /\ n \in Nat /\ n =< Len(m_heap)
    BY <1>b, <1>c, <2>1 DEF TypeOK, Indices
  <2>4. \A k \in 1..n : k \in Children(p) => m_heap[c].expires =< m_heap[k].expires
    <3>1. \A k \in 1..n : m_heap[k].expires \in Nat
      BY <1>c, <2>3
    <3> HIDE DEF n
    <3> QED
      BY <2>1, <2>3, <3>1 DEF Smaller, Children
  <2> HIDE DEF c
  <2>5. p \in 1..Len(m_heap) /\ c \in 1..Len(m_heap)
    BY <1>c, <2>2, <2>3
  <2>6. /\ Len(m_heap') = Len(m_heap)
        /\ \A k \in 1..Len(m_heap) :
             f[k] = IF k = p THEN e[c] ELSE IF k = c THEN e[p] ELSE e[k]
        /\ \A k \in 1..Len(m_heap') : m_heap'[k].expires =< now + Timeout
    BY <1>d, <2>1, <2>2, <2>5, KeysSwap
  <2>7. Exchanged(e, f, n, p, c)
    BY <1>c, <2>3, <2>6 DEF Exchanged
  <2>8. /\ \A k \in 1..n : e[k] \in Nat
        /\ e[c] =< e[p]
        /\ \A k \in 1..n : k \in Children(p) => e[c] =< e[k]
        /\ c \in 1..n
    BY <1>c, <2>1, <2>2, <2>3, <2>4, <2>5
  <2>9. OrderedAbove(e, n, p)
    BY <2>1 DEF HeapInv
  <2>10. Size' = n
    BY <2>1, <2>6 DEF Size, Deleting
  <2> HIDE DEF n, e, f, p
  <2>11. OrderedAbove(f, n, c)
    BY <2>2, <2>3, <2>7, <2>8, <2>9, RoundDown
  <2> QED
    BY <2>1, <2>6, <2>10, <2>11 DEF HeapInv, f
<1>4. CASE SiftDownEnds
  <2>1. /\ pc = "down" /\ pc' \in {"up", "pop", "idle"}
        /\ 2 * pos =< limit => m_heap[Smaller(2 * pos)].expires > m_heap[pos].expires
        /\ UNCHANGED <<m_heap, m_ref, now, mode, pos, start, limit>>
        /\ pc' = "idle" => mode # "del"
    BY <1>4, <1>b DEF SiftDownEnds, TypeOK
  <2>2. limit = n /\ pos \in 1..n /\ n \in Nat /\ n =< Len(m_heap)
    BY <1>b, <1>c, <2>1 DEF TypeOK, Indices
  <2>3. \A k \in 1..n : k \in Children(pos) => m_heap[pos].expires =< m_heap[k].expires
    <3>1. \A k \in 1..n : m_heap[k].expires \in Nat
      BY <1>c, <2>2
    <3> HIDE DEF n
    <3> QED
      BY <2>1, <2>2, <3>1, SMTT(30) DEF Smaller, Children
  <2>4. /\ \A k \in 1..n : e[k] \in Nat
        /\ \A k \in 1..n : k \in Children(pos) => e[pos] =< e[k]
    BY <1>c, <2>2, <2>3
  <2>5. OrderedAbove(e, n, pos)
    BY <2>1 DEF HeapInv
  <2>6. Size' = n
    BY <2>1 DEF Size, Deleting
  <2> HIDE DEF n, e, f
  <2>7. Ordered(e, n)
    BY <2>2, <2>4, <2>5, DownEnds
  <2>8. OrderedBelow(e, n, pos)
    BY <2>2, <2>4, <2>7, OrderedAnywhere
  <2> QED
    BY <1>d, <2>1, <2>6, <2>7, <2>8 DEF HeapInv, e
<1>5. CASE SiftUpSwaps
  <2> DEFINE q == Parent(pos)
             p == pos
  <2>1. /\ pc = "up" /\ SwapNode(p, q) /\ pos' = q /\ p > 1
        /\ ~(m_heap[q].expires < m_heap[p].expires)
        /\ UNCHANGED <<now, pc, mode, start, limit>>
    BY <1>5 DEF SiftUpSwaps
  <2>2. p \in 1..n /\ n \in Nat /\ n =< Len(m_heap)
    BY <1>b, <1>c, <2>1 DEF TypeOK, Indices
  <2>3. q \in 1..(p - 1) /\ p \in Children(q)
    BY <2>1, <2>2, ParentExists DEF Parent
  <2> HIDE DEF q
  <2>4. p \in 1..Len(m_heap) /\ q \in 1..Len(m_heap) /\ q \in 1..n /\ p # q
    BY <1>c, <2>2, <2>3
  <2>5. /\ Len(m_heap') = Len(m_heap)
        /\ \A k \in 1..Len(m_heap) :
             f[k] = IF k = p THEN e[q] ELSE IF k = q THEN e[p] ELSE e[k]
        /\ \A k \in 1..Len(m_heap') : m_heap'[k].expires =< now + Timeout
    BY <1>d, <2>1, <2>4, KeysSwap
  <2>6. Exchanged(e, f, n, p, q)
    BY <1>c, <2>2, <2>5 DEF Exchanged
  <2>7. (\A k \in 1..n : e[k] \in Nat) /\ e[p] =< e[q]
    BY <1>c, <2>1, <2>2, <2>4
  <2>8. OrderedBelow(e, n, p)
    BY <2>1 DEF HeapInv
  <2>9. Size' = n
    BY <2>1, <2>5 DEF Size, Deleting
  <2> HIDE DEF n, e, f, p
  <2>10. OrderedBelow(f, n, q)
    BY <2>2, <2>3, <2>4, <2>6, <2>7, <2>8, RoundUp
  <2> QED
    BY <2>1, <2>5, <2>9, <2>10 DEF HeapInv, f
<1>6. CASE SiftUpEnds
  <2>1. /\ pc = "up" /\ pc' \in {"pop", "idle"}
        /\ pos > 1 => m_heap[Parent(pos)].expires < m_heap[pos].expires
        /\ UNCHANGED <<m_heap, m_ref, now, mode, pos, start, limit>>
        /\ pc' = "idle" => mode # "del"
    BY <1>6 DEF SiftUpEnds
  <2>2. pos \in 1..n /\ n \in Nat /\ n =< Len(m_heap)
    BY <1>b, <1>c, <2>1 DEF TypeOK, Indices
  <2>3. \A q \in 1..n : pos \in Children(q) => pos > 1 /\ Parent(pos) = q
    BY <2>2 DEF Children, Parent
  <2>4. \A q \in 1..n : pos \in Children(q) => e[q] =< e[pos]
    BY <1>c, <2>1, <2>2, <2>3
  <2>5. OrderedBelow(e, n, pos)
    BY <2>1 DEF HeapInv
  <2>6. Size' = n
    BY <2>1 DEF Size, Deleting
  <2> HIDE DEF n, e, f
  <2>7. Ordered(e, n)
    BY <2>2, <2>4, <2>5, UpEnds
  <2> QED
    BY <1>d, <2>1, <2>6, <2>7 DEF HeapInv, e
<1>7. CASE TickFires
  <2> DEFINE m == Len(m_heap)
  <2>1. /\ m >= 1 /\ m_ref[m_heap[1].id] = 1 /\ mode' = "del" /\ now' = now /\ pc = "tick"
    BY <1>b, <1>c, <1>7 DEF TickFires, RefExact
  <2>2. n = m /\ Ordered(e, m)
    BY <1>c, <2>1 DEF HeapInv, Deleting
  <2>3. CASE 1 < m
    <3>1. SwapNode(1, m) /\ SiftDownFrom(1, m - 1)
      <4> DEFINE k == m_ref[m_heap[1].id]
      <4>1. k < m => SwapNode(k, m) /\ SiftDownFrom(k, m - 1)
        BY <1>7 DEF TickFires
      <4>2. k = 1 /\ k < m
        BY <2>1, <2>3
      <4> HIDE DEF k
      <4> QED
        BY <4>1, <4>2 DEF SwapNode, Swapped, SiftDownFrom
    <3>2. 1 \in 1..m /\ m \in 1..m /\ 1 # m /\ m - 1 \in Nat /\ (m - 1) + 1 = m
      <4>1. m \in Nat /\ 1 < m
        BY <1>c, <2>3
      <4> HIDE DEF m
      <4> QED
        BY <4>1
    <3>3. /\ Len(m_heap') = m
          /\ \A k \in 1..m :
               f[k] = IF k = 1 THEN e[m] ELSE IF k = m THEN e[1] ELSE e[k]
          /\ \A k \in 1..Len(m_heap') : m_heap'[k].expires =< now + Timeout
      BY <1>d, <3>1, <3>2, KeysSwap
    <3>4. pc' = "down" /\ pos' = 1
      BY <3>1 DEF SiftDownFrom
    <3>5. Size' = m - 1
      BY <2>1, <3>3, <3>4 DEF Size, Deleting
    <3> HIDE DEF n, e, f, m
    <3>6. \A k \in 2..(m - 1) : f[k] = e[k]
      BY <3>2, <3>3
    <3>7. OrderedAbove(f, m - 1, 1)
      BY <2>2, <3>2, <3>6, FrontReplaced
    <3> QED
      BY <2>1, <3>3, <3>4, <3>5, <3>7 DEF HeapInv, f
  <2>4. CASE ~(1 < m)
    <3>1. pc' = "pop" /\ UNCHANGED <<m_heap, m_ref, pos, start, limit>>
      BY <1>7, <2>1, <2>4 DEF TickFires
    <3>2. Size' = 0
      BY <1>c, <2>1, <2>4, <3>1 DEF Size, Deleting
    <3>3. Ordered(f, 0)
      BY DEF Ordered
    <3> QED
      BY <1>d, <2>1, <3>1, <3>2, <3>3 DEF HeapInv
  <2> QED
    BY <2>3, <2>4
<1>8. CASE Pop
  <2>1. /\ Len(m_heap) >= 1 /\ Len(m_heap') = Len(m_heap) - 1
        /\ \A k \in 1..(Len(m_heap) - 1) : m_heap'[k] = m_heap[k]
    BY <1>8, <1>b, PopRef
  <2>2. pc = "pop" /\ mode = "del" /\ pc' = "tick" /\ now' = now
    BY <1>8, <1>b DEF Pop, Indices
  <2>3. n = Len(m_heap) - 1 /\ Size' = n /\ n \in Nat
    BY <1>c, <2>1, <2>2 DEF Size, Deleting
  <2>4. Ordered(e, n)
    BY <2>2 DEF HeapInv
  <2>5. \A k \in 1..n : f[k] = e[k]
    BY <1>c, <1>e, <2>1, <2>3, SMTT(30)
  <2>6. \A k \in 1..Len(m_heap') : m_heap'[k].expires =< now' + Timeout
    BY <1>c, <1>d, <2>1, <2>2
  <2> HIDE DEF n, e, f
  <2>7. Ordered(f, n)
    BY <2>4, <2>5 DEF Ordered
  <2> QED
    BY <2>2, <2>3, <2>6, <2>7 DEF HeapInv, f
<1>9. CASE Tick \/ TickEnds \/ UNCHANGED vars
  <2>1. UNCHANGED <<m_heap, now>> /\ Size' = Size
    BY <1>9 DEF Tick, TickEnds, vars, Size, Deleting
  <2>2. \/ pc \in {"idle", "tick"} /\ pc' \in {"idle", "tick"}
        \/ UNCHANGED vars
    BY <1>9 DEF Tick, TickEnds
  <2> QED
    BY <2>1, <2>2 DEF HeapInv, vars
<1>10. CASE Clock
  <2>1. UNCHANGED <<m_heap, pc, mode, pos>> /\ now' \in Nat /\ now' > now
    BY <1>10 DEF Clock
  <2>2. Size' = Size
    BY <2>1 DEF Size, Deleting
  <2>3. \A k \in 1..Len(m_heap') : m_heap'[k].expires =< now' + Timeout
    <3>1. now \in Nat /\ \A k \in 1..Len(m_heap) : m_heap[k].expires \in Nat
      BY <1>b, <1>c DEF TypeOK
    <3> QED
      BY <1>d, <2>1, <3>1
  <2> QED
    BY <2>1, <2>2, <2>3 DEF HeapInv
<1> QED
  BY <1>1, <1>2, <1>3, <1>4, <1>5, <1>6, <1>7, <1>8, <1>9, <1>10 DEF Next, Step

\* If descriptors without a node are not adjusted and the clock is not set
\* back, the front of the heap is one of the nodes that expire first whenever
\* tick() looks at it: for any number of descriptors and any timeout.
THEOREM TopAlwaysEarliest ==
  ASSUME Stray = 0, ClockSteps = 0
  PROVE  Spec => []TopEarliest
<1>1. Init => HeapInv
  BY HeapAssumption
     DEF HeapAssumption, Init, HeapInv, Size, Deleting, Keys, Ordered
<1>2. RefInv /\ HeapInv => TopEarliest
  <2> SUFFICES ASSUME RefInv, HeapInv, pc \in {"idle", "tick"},
                      NEW i \in 1..Len(m_heap)
               PROVE  m_heap[1].expires =< m_heap[i].expires
    BY DEF TopEarliest
  <2> DEFINE n == Len(m_heap)
             e == Keys(m_heap)
  <2>1. n \in Nat /\ \A k \in 1..n : e[k] = m_heap[k].expires /\ e[k] \in Nat
    BY KeysNat
  <2>2. Ordered(e, n)
    BY KeysNat DEF HeapInv, Deleting
  <2>3. 1 \in 1..n /\ i \in 1..n
    BY <2>1
  <2> HIDE DEF n, e
  <2>4. e[1] =< e[i]
    BY <2>1, <2>2, <2>3, FrontEarliest
  <2> QED
    BY <2>1, <2>3, <2>4
<1> QED
  BY <1>1, <1>2, RefInit, RefInductive, HeapInductive, PTL DEF Spec

-----------------------------------------------------------------------------
(***************************************************************************)
(* The heap implements the deadlines of TimerService.  The deadlines are   *)
(* what the first n nodes of the heap say, wherever they stand.            *)
(***************************************************************************)
DeadlinesIn(h, n) == [id \in {h[i].id : i \in 1..n} |->
                        h[CHOOSE i \in 1..n : h[i].id = id].expires]
Has(h, n, id, x) == \E i \in 1..n : h[i].id = id /\ h[i].expires = x
Distinct(h, n) == \A i, j \in 1..n : h[i].id = h[j].id => i = j

\* Each node is a deadline and there are no others.
LEMMA DeadlineOf ==
  ASSUME NEW h, NEW n, Distinct(h, n)
  PROVE  \A id, x : Has(h, n, id, x) <=>
           id \in DOMAIN DeadlinesIn(h, n) /\ DeadlinesIn(h, n)[id] = x
<1> SUFFICES ASSUME NEW id, NEW x
             PROVE  Has(h, n, id, x) <=>
                      id \in DOMAIN DeadlinesIn(h, n) /\ DeadlinesIn(h, n)[id] = x
  OBVIOUS
<1>1. CASE \E i \in 1..n : h[i].id = id
  <2> DEFINE k == CHOOSE i \in 1..n : h[i].id = id
  <2>1. k \in 1..n /\ h[k].id = id
    BY <1>1
  <2>2. id \in DOMAIN DeadlinesIn(h, n) /\ DeadlinesIn(h, n)[id] = h[k].expires
    BY <1>1 DEF DeadlinesIn
  <2> HIDE DEF k
  <2>3. Has(h, n, id, x) <=> h[k].expires = x
    BY <2>1 DEF Has, Distinct
  <2> QED
    BY <2>2, <2>3
<1>2. CASE ~\E i \in 1..n : h[i].id = id
  BY <1>2 DEF DeadlinesIn, Has
<1> QED
  BY <1>1, <1>2

\* The same nodes in other places are the same deadlines ...
LEMMA DeadlinesSame ==
  ASSUME NEW h, NEW n, NEW g, NEW m, Distinct(h, n), Distinct(g, m),
         \A id, x : Has(g, m, id, x) <=> Has(h, n, id, x)
  PROVE  DeadlinesIn(g, m) = DeadlinesIn(h, n)
<1> DEFINE G == DeadlinesIn(g, m)
           H == DeadlinesIn(h, n)
<1>1. \A id, x : id \in DOMAIN G /\ G[id] = x <=> id \in DOMAIN H /\ H[id] = x
  BY DeadlineOf
<1>2. G = [id \in DOMAIN G |-> G[id]] /\ H = [id \in DOMAIN H |-> H[id]]
  BY DEF DeadlinesIn
<1> HIDE DEF G, H
<1>3. DOMAIN G = DOMAIN H /\ \A id \in DOMAIN G : G[id] = H[id]
  BY <1>1
<1>4. G = H
  BY <1>2, <1>3
<1> QED
  BY <1>4 DEF G, H

\* ... one more node, or one renewed, sets a deadline ...
LEMMA DeadlineSet ==
  ASSUME NEW h, NEW n, NEW g, NEW m, Distinct(h, n), Distinct(g, m), NEW id, NEW x,
         NEW H, H = DeadlinesIn(h, n), NEW G, G = DeadlinesIn(g, m), Has(g, m, id, x),
         \A j, y : j # id => (Has(g, m, j, y) <=> Has(h, n, j, y))
  PROVE  G = [j \in DOMAIN H \cup {id} |-> IF j = id THEN x ELSE H[j]]
<1>1. \A j, y : /\ j \in DOMAIN G /\ G[j] = y <=> Has(g, m, j, y)
                /\ j \in DOMAIN H /\ H[j] = y <=> Has(h, n, j, y)
  BY DeadlineOf
<1>2. G = [j \in DOMAIN G |-> G[j]]
  BY DEF DeadlinesIn
<1>3. id \in DOMAIN G /\ G[id] = x
  BY <1>1
<1>4. \A j : j # id => (j \in DOMAIN G <=> j \in DOMAIN H)
  BY <1>1
<1>5. \A j \in DOMAIN H : j # id => G[j] = H[j]
  BY <1>1
<1>6. DOMAIN G = DOMAIN H \cup {id}
  BY <1>3, <1>4
<1> QED
  BY <1>2, <1>3, <1>5, <1>6

\* ... and one less ends one.
LEMMA DeadlineDropped ==
  ASSUME NEW h, NEW n, NEW g, NEW m, Distinct(h, n), Distinct(g, m), NEW id,
         NEW H, H = DeadlinesIn(h, n), NEW G, G = DeadlinesIn(g, m),
         \A j, y : Has(g, m, j, y) <=> j # id /\ Has(h, n, j, y)
  PROVE  G = [j \in DOMAIN H \ {id} |-> H[j]]
<1>1. \A j, y : j \in DOMAIN G /\ G[j] = y <=> j # id /\ j \in DOMAIN H /\ H[j] = y
  BY DeadlineOf
<1>2. G = [j \in DOMAIN G |-> G[j]]
  BY DEF DeadlinesIn
<1>3. \A j : j \in DOMAIN G <=> j \in DOMAIN H \ {id}
  BY <1>1
<1>4. \A j \in DOMAIN G : G[j] = H[j]
  BY <1>1
<1> QED
  BY <1>2, <1>3, <1>4

\* m_ref sees to it that no two nodes have one descriptor.
LEMMA NodesDistinct ==
  ASSUME NEW h, NEW ref, NEW n, NEW len \in Nat, n \in Int, n =< len,
         \A i \in 1..len : ref[h[i].id] = i
  PROVE  Distinct(h, n)
  BY DEF Distinct

\* The deadlines before and after a step that keeps m_ref exact.
LEMMA DeadlinesNow ==
  ASSUME RefInv, RefInv'
  PROVE  /\ Deadlines = DeadlinesIn(m_heap, Size)
         /\ Deadlines' = DeadlinesIn(m_heap', Size')
         /\ Distinct(m_heap, Size) /\ Distinct(m_heap', Size')
         /\ Size \in Int /\ Size' \in Int
         /\ Len(m_heap) \in Nat /\ Size =< Len(m_heap)
<1>1. /\ Len(m_heap) \in Nat /\ Size \in Int /\ Size =< Len(m_heap)
      /\ \A i \in 1..Len(m_heap) : m_ref[m_heap[i].id] = i
  BY DEF RefInv, RefExact, TypeOK, Size
<1>2. /\ Len(m_heap') \in Nat /\ Size' \in Int /\ Size' =< Len(m_heap')
      /\ \A i \in 1..Len(m_heap') : m_ref'[m_heap'[i].id] = i
  BY DEF RefInv, RefExact, TypeOK, Size
<1>3. Distinct(m_heap, Size) /\ Distinct(m_heap', Size')
  BY <1>1, <1>2, NodesDistinct
<1>4. Deadlines = DeadlinesIn(m_heap, Size)
  BY DEF Deadlines, LiveNodes, Size, DeadlinesIn
<1>5. Deadlines' = DeadlinesIn(m_heap', Size')
  BY DEF Deadlines, LiveNodes, Size, DeadlinesIn
<1> QED
  BY <1>1, <1>2, <1>3, <1>4, <1>5

\* swap_node neither adds nor drops a node.
LEMMA SwapLength ==
  ASSUME RefInv, NEW i \in 1..Size, NEW j \in 1..Size, SwapNode(i, j)
  PROVE  Len(m_heap') = Len(m_heap)
<1>1. m_heap \in Seq(Node) /\ m_heap' = Swapped(i, j)
  BY DEF SwapNode, RefInv, TypeOK
<1>2. Len(m_heap) \in Nat /\ Size \in Int /\ Size =< Len(m_heap)
  BY DEF RefInv, RefExact, TypeOK, Size
<1>3. i \in 1..Len(m_heap) /\ j \in 1..Len(m_heap)
  BY <1>2
<1> QED
  BY <1>1, <1>3, SwapHeap

\* swap_node changes no deadline.
LEMMA DeadlinesSwap ==
  ASSUME RefInv, RefInv', NEW i \in 1..Size, NEW j \in 1..Size, i # j,
         SwapNode(i, j), Size' = Size
  PROVE  Deadlines' = Deadlines
<1>1. /\ Deadlines = DeadlinesIn(m_heap, Size) /\ Deadlines' = DeadlinesIn(m_heap', Size)
      /\ Distinct(m_heap, Size) /\ Distinct(m_heap', Size)
      /\ Size \in Int /\ Len(m_heap) \in Nat /\ Size =< Len(m_heap)
  BY DeadlinesNow
<1>2. \A k \in 1..Size : m_heap'[k] = IF k = j THEN m_heap[i] ELSE IF k = i THEN m_heap[j]
                                      ELSE m_heap[k]
  <2>1. m_heap \in Seq(Node) /\ m_heap' = Swapped(i, j)
    BY DEF SwapNode, RefInv, TypeOK
  <2>2. i \in 1..Len(m_heap) /\ j \in 1..Len(m_heap) /\ 1..Size \subseteq 1..Len(m_heap)
    BY <1>1
  <2> QED
    BY <2>1, <2>2, SwapHeap
<1>3. ASSUME NEW id, NEW x
      PROVE  Has(m_heap', Size, id, x) <=> Has(m_heap, Size, id, x)
  <2>1. ASSUME NEW k \in 1..Size, m_heap'[k].id = id, m_heap'[k].expires = x
        PROVE  Has(m_heap, Size, id, x)
    BY <1>2, <2>1 DEF Has
  <2>2. ASSUME NEW k \in 1..Size, m_heap[k].id = id, m_heap[k].expires = x
        PROVE  Has(m_heap', Size, id, x)
    <3>1. CASE k = i
      BY <1>2, <2>2, <3>1 DEF Has
    <3>2. CASE k = j
      BY <1>2, <2>2, <3>2 DEF Has
    <3>3. CASE k # i /\ k # j
      BY <1>2, <2>2, <3>3 DEF Has
    <3> QED
      BY <3>1, <3>2, <3>3
  <2> QED
    BY <2>1, <2>2 DEF Has
<1> QED
  BY <1>1, <1>3, DeadlinesSame

\* One descriptor more among the nodes, or one with a new time, is a deadline set.
LEMMA DeadlineNew ==
  ASSUME RefInv, RefInv', NEW id, NEW x, Has(m_heap', Size', id, x),
         \A j, y : j # id => (Has(m_heap', Size', j, y) <=> Has(m_heap, Size, j, y))
  PROVE  Deadlines' = [j \in DOMAIN Deadlines \cup {id} |->
                         IF j = id THEN x ELSE Deadlines[j]]
<1>1. /\ Deadlines = DeadlinesIn(m_heap, Size) /\ Deadlines' = DeadlinesIn(m_heap', Size')
      /\ Distinct(m_heap, Size) /\ Distinct(m_heap', Size')
  BY DeadlinesNow
<1> QED
  BY <1>1, DeadlineSet

\* A renewed node is the node of its descriptor, with a new time.
LEMMA NodeRenewed ==
  ASSUME RefInv, RefInv', NEW id \in DOMAIN m_ref, NEW x, x = now + Timeout,
         m_heap' = [m_heap EXCEPT ![m_ref[id]].expires = x],
         m_ref' = m_ref, Size = Len(m_heap), Size' = Len(m_heap')
  PROVE  /\ Has(m_heap', Size', id, x)
         /\ \A j, y : j # id => (Has(m_heap', Size', j, y) <=> Has(m_heap, Size, j, y))
<1> DEFINE n == Len(m_heap)
           p == m_ref[id]
<1>1. /\ p \in 1..n /\ Len(m_heap') = n
      /\ \A k \in 1..n : m_heap'[k].expires = IF k = p THEN x ELSE m_heap[k].expires
  BY RenewRef, ZenonT(40) DEF RefInv
<1>2. \A k \in 1..n : m_heap'[k].id = m_heap[k].id
  BY <1>1 DEF RefInv, RefExact
<1>3. m_heap[p].id = id /\ \A k \in 1..n : m_heap[k].id = id => k = p
  BY DEF RefInv, RefExact
<1>4. Size = n /\ Size' = n
  BY <1>1
<1> HIDE DEF n, p
<1>5. /\ Has(m_heap', n, id, x)
      /\ \A j, y : j # id => (Has(m_heap', n, j, y) <=> Has(m_heap, n, j, y))
  BY <1>1, <1>2, <1>3 DEF Has
<1> QED
  BY <1>4, <1>5

\* A step that leaves nodes and Deleting alone.
LEMMA DeadlinesStay ==
  ASSUME m_heap' = m_heap, Deleting' = Deleting
  PROVE  Deadlines' = Deadlines
  BY DEF Deadlines, LiveNodes

\* Every step of the heap is a step of the service, or none.
LEMMA StepRefines ==
  ASSUME Stray = 0, ClockSteps = 0, RefInv, RefInv', TopEarliest, [Next]_vars
  PROVE  [Service!Next]_(Service!vars)
<1> USE HeapAssumption DEF HeapAssumption
<1>0. /\ TypeOK /\ RefExact /\ Indices /\ Len(m_heap) \in Nat
      /\ Deadlines = DeadlinesIn(m_heap, Size)
      /\ Distinct(m_heap, Size) /\ Distinct(m_heap', Size')
      /\ Deadlines' = DeadlinesIn(m_heap', Size')
  BY DeadlinesNow DEF RefInv
<1>1. ASSUME NEW id \in Ids, AddNew(id)
      PROVE  Service!Set(id)
  <2> DEFINE n == Len(m_heap)
  <2>1. Size = n /\ Size' = n + 1 /\ Ticking = 0 /\ Ticking' = 0 /\ now' = now
    BY <1>0, <1>1, AddRef DEF AddNew, SiftUpFrom, Size, Deleting, Ticking
  <2>2. /\ \A k \in 1..n : m_heap'[k] = m_heap[k] /\ m_heap[k].id # id
        /\ m_heap'[n + 1].expires = now + Timeout /\ n \in Nat
    BY <1>0, <1>1, AddRef DEF AddNew, RefExact
  <2>3. m_heap'[n + 1].id = id
    <3>1. id \in DOMAIN m_ref' /\ m_ref'[id] = n + 1
      BY <1>1 DEF AddNew, RefWith
    <3> QED
      BY <3>1 DEF RefInv, RefExact
  <2> DEFINE x == now + Timeout
             m == n + 1
  <2> HIDE DEF n, x
  <2>4. /\ Has(m_heap', m, id, x)
        /\ \A j, y : j # id => (Has(m_heap', m, j, y) <=> Has(m_heap, n, j, y))
    <3>1. \A k : k \in 1..(n + 1) <=> k \in 1..n \/ k = n + 1
      BY <2>2
    <3> QED
      BY <2>2, <2>3, <3>1 DEF Has, x
  <2>5. Deadlines' = [j \in DOMAIN Deadlines \cup {id} |->
                        IF j = id THEN x ELSE Deadlines[j]]
    BY <2>1, <2>4, DeadlineNew
  <2> QED
    BY <2>1, <2>5 DEF Service!Set, x
<1>2. ASSUME NEW id \in Ids, AddAgain(id) \/ Adjust(id)
      PROVE  Service!Set(id)
  <2>1. id \in DOMAIN m_ref
    BY <1>2 DEF AddAgain, Adjust
  <2>2. RefOf(id) = m_ref[id] /\ RefWith(id, RefOf(id)) = m_ref
    BY <1>0, <2>1 DEF RefOf, RefWith, TypeOK
  <2> DEFINE x == now + Timeout
  <2>3. /\ m_heap' = [m_heap EXCEPT ![m_ref[id]].expires = x]
        /\ m_ref' = m_ref /\ now' = now
        /\ pc = "idle" /\ pc' = "down" /\ mode' # "del"
    BY <1>2, <2>2 DEF AddAgain, Adjust, SiftDownFrom
  <2>4. Size = Len(m_heap) /\ Size' = Len(m_heap') /\ Ticking = 0 /\ Ticking' = 0
    BY <2>3 DEF Size, Deleting, Ticking
  <2> HIDE DEF x
  <2>5. /\ Has(m_heap', Size', id, x)
        /\ \A j, y : j # id => (Has(m_heap', Size', j, y) <=> Has(m_heap, Size, j, y))
    <3>1. x = now + Timeout
      BY DEF x
    <3> QED
      BY <2>1, <2>3, <2>4, <3>1, NodeRenewed, ZenonT(40)
  <2>6. Deadlines' = [j \in DOMAIN Deadlines \cup {id} |->
                        IF j = id THEN x ELSE Deadlines[j]]
    BY <2>5, DeadlineNew, ZenonT(40)
  <2> QED
    BY <2>3, <2>4, <2>6 DEF Service!Set, x
<1>3. CASE Tick
  <2>1. Deadlines' = Deadlines /\ now' = now /\ Ticking = 0 /\ Ticking' = 1
    BY <1>3, DeadlinesStay DEF Tick, Deleting, Ticking
  <2> QED
    BY <2>1 DEF Service!Next, Service!Begin
<1>4. CASE SiftDownSwaps
  <2> DEFINE c == Smaller(2 * pos)
  <2>1. /\ pc = "down" /\ 2 * pos =< limit /\ SwapNode(pos, c)
        /\ UNCHANGED <<now, pc, mode>>
    BY <1>4 DEF SiftDownSwaps
  <2>2. c \in 1..Size /\ pos \in 1..Size /\ pos # c
    BY <1>0, <2>1, SmallerChild DEF Indices
  <2>3. Len(m_heap') = Len(m_heap)
    BY <2>1, <2>2, SwapLength
  <2>4. Size' = Size /\ Ticking' = Ticking
    BY <2>1, <2>3 DEF Size, Deleting, Ticking
  <2> HIDE DEF c
  <2>5. Deadlines' = Deadlines
    BY <2>1, <2>2, <2>4, DeadlinesSwap
  <2> QED
    BY <2>1, <2>4, <2>5 DEF Service!vars
<1>5. CASE SiftUpSwaps
  <2> DEFINE c == Parent(pos)
  <2>1. /\ pc = "up" /\ pos > 1 /\ SwapNode(pos, c)
        /\ UNCHANGED <<now, pc, mode>>
    BY <1>5 DEF SiftUpSwaps
  <2>2. c \in 1..Size /\ pos \in 1..Size /\ pos # c
    <3>1. pos \in Nat /\ pos \in 1..Size /\ Size \in Int
      BY <1>0, <2>1, DeadlinesNow DEF Indices, TypeOK
    <3> QED
      BY <2>1, <3>1 DEF Parent
  <2>3. Len(m_heap') = Len(m_heap)
    BY <2>1, <2>2, SwapLength
  <2>4. Size' = Size /\ Ticking' = Ticking
    BY <2>1, <2>3 DEF Size, Deleting, Ticking
  <2> HIDE DEF c
  <2>5. Deadlines' = Deadlines
    BY <2>1, <2>2, <2>4, DeadlinesSwap
  <2> QED
    BY <2>1, <2>4, <2>5 DEF Service!vars
<1>6. CASE SiftDownEnds \/ SiftUpEnds
  <2>1. /\ UNCHANGED <<m_heap, now>> /\ Deleting' = Deleting
        /\ pc # "tick" /\ pc' # "tick"
    BY <1>6 DEF SiftDownEnds, SiftUpEnds, Deleting
  <2>2. Deadlines' = Deadlines /\ Ticking' = Ticking
    BY <2>1, DeadlinesStay DEF Ticking
  <2> QED
    BY <2>1, <2>2 DEF Service!vars
<1>7. CASE TickFires
  <2> DEFINE n == Len(m_heap)
             id == m_heap[1].id
  <2>0. n >= 1 /\ n \in Nat
    BY <1>0, <1>7, EmptySeq DEF TickFires, TypeOK
  <2>1. /\ n >= 1 /\ n \in Nat /\ pc = "tick" /\ m_heap[1].expires =< now /\ now' = now
        /\ m_ref[id] = 1 /\ id \in Ids
    <3>1. m_heap[1] \in Node
      BY <1>0, <2>0 DEF TypeOK
    <3> QED
      BY <1>0, <1>7, <2>0, <3>1 DEF TickFires, RefExact, Node
  <2>2. /\ Size = n /\ Size' = Len(m_heap') - 1 /\ Ticking = 1 /\ Ticking' = 1
    BY <1>7, <2>1 DEF TickFires, SiftDownFrom, Size, Deleting, Ticking
  <2>3. /\ Len(m_heap') = n
        /\ \A k \in 1..(n - 1) : m_heap'[k] = IF k = 1 THEN m_heap[n] ELSE m_heap[k]
    <3>1. CASE 1 < n
      <4>1. SwapNode(1, n)
        BY <1>7, <2>1, <3>1 DEF TickFires
      <4>2. m_heap \in Seq(Node) /\ m_heap' = Swapped(1, n)
        BY <1>0, <4>1 DEF SwapNode, TypeOK
      <4>3. 1 \in 1..Len(m_heap) /\ n \in 1..Len(m_heap)
        BY <2>1, <3>1
      <4>4. /\ Len(m_heap') = Len(m_heap)
            /\ \A k \in 1..Len(m_heap) :
                 m_heap'[k] = IF k = n THEN m_heap[1] ELSE IF k = 1 THEN m_heap[n]
                              ELSE m_heap[k]
        BY <4>2, <4>3, SwapHeap
      <4> QED
        BY <2>1, <3>1, <4>4
    <3>2. CASE n = 1
      <4>1. m_heap' = m_heap
        BY <1>7, <2>1, <3>2 DEF TickFires
      <4> QED
        BY <3>2, <4>1
    <3>3. 1 < n \/ n = 1
      BY <2>0
    <3> QED
      BY <3>1, <3>2, <3>3
  <2>4. \A k \in 1..n : m_heap[k].id = id => k = 1
    BY <1>0, <2>1 DEF RefExact
  <2>5. ASSUME NEW j, NEW y
        PROVE  Has(m_heap', n - 1, j, y) <=> j # id /\ Has(m_heap, n, j, y)
    <3>1. ASSUME NEW k \in 1..(n - 1), m_heap'[k].id = j, m_heap'[k].expires = y
          PROVE  j # id /\ Has(m_heap, n, j, y)
      <4>1. CASE k = 1
        <5>1. n \in 1..n /\ n # 1 /\ m_heap'[1] = m_heap[n]
          BY <2>1, <2>3, <4>1
        <5> QED
          BY <2>4, <3>1, <4>1, <5>1 DEF Has
      <4>2. CASE k # 1
        <5>1. k \in 1..n /\ m_heap'[k] = m_heap[k]
          BY <2>1, <2>3, <4>2
        <5> QED
          BY <2>4, <3>1, <4>2, <5>1 DEF Has
      <4> QED
        BY <4>1, <4>2
    <3>2. ASSUME NEW k \in 1..n, m_heap[k].id = j, m_heap[k].expires = y, j # id
          PROVE  Has(m_heap', n - 1, j, y)
      <4>1. k # 1
        BY <3>2
      <4>2. CASE k = n
        <5>1. 1 \in 1..(n - 1) /\ m_heap'[1] = m_heap[k]
          BY <2>1, <2>3, <4>1, <4>2
        <5> QED
          BY <3>2, <5>1 DEF Has
      <4>3. CASE k # n
        <5>1. k \in 1..(n - 1) /\ m_heap'[k] = m_heap[k]
          BY <2>1, <2>3, <4>1, <4>3
        <5> QED
          BY <3>2, <5>1 DEF Has
      <4> QED
        BY <4>2, <4>3
    <3> QED
      BY <3>1, <3>2 DEF Has
  <2>6. Deadlines' = [j \in DOMAIN Deadlines \ {id} |-> Deadlines[j]]
    <3> HIDE DEF n, id
    <3> QED
      <4>1. /\ Distinct(m_heap, n) /\ Distinct(m_heap', n - 1)
            /\ Deadlines = DeadlinesIn(m_heap, n) /\ Deadlines' = DeadlinesIn(m_heap', n - 1)
        BY <1>0, <2>2, <2>3
      <4> QED
        BY <2>5, <4>1, DeadlineDropped
  <2>7. id \in DOMAIN Deadlines /\ Deadlines[id] = m_heap[1].expires
    <3>1. Has(m_heap, n, id, m_heap[1].expires)
      BY <2>1 DEF Has
    <3> QED
      BY <1>0, <2>2, <3>1, DeadlineOf
  <2>8. \A j \in DOMAIN Deadlines : m_heap[1].expires =< Deadlines[j]
    <3> SUFFICES ASSUME NEW j \in DOMAIN Deadlines PROVE m_heap[1].expires =< Deadlines[j]
      OBVIOUS
    <3>1. Has(m_heap, n, j, Deadlines[j])
      BY <1>0, <2>2, DeadlineOf
    <3> QED
      BY <2>1, <3>1 DEF Has, TopEarliest
  <2>9. Service!Fire(id)
    BY <2>1, <2>2, <2>6, <2>7, <2>8 DEF Service!Fire
  <2> QED
    BY <2>1, <2>9 DEF Service!Next
<1>8. CASE Pop
  <2> DEFINE n == Len(m_heap)
  <2>1. /\ pc = "pop" /\ mode = "del" /\ pc' = "tick" /\ now' = now /\ n \in Nat
        /\ Len(m_heap') = n - 1 /\ \A k \in 1..(n - 1) : m_heap'[k] = m_heap[k]
    BY <1>0, <1>8, PopRef DEF Pop, Indices
  <2>2. Size = n - 1 /\ Size' = n - 1 /\ Ticking = 1 /\ Ticking' = 1
    BY <2>1 DEF Size, Deleting, Ticking
  <2>3. \A j, y : Has(m_heap', n - 1, j, y) <=> Has(m_heap, n - 1, j, y)
    BY <2>1 DEF Has
  <2>4. Deadlines' = Deadlines
    BY <1>0, <2>2, <2>3, DeadlinesSame
  <2> QED
    BY <2>1, <2>2, <2>4 DEF Service!vars
<1>9. CASE TickEnds
  <2>1. /\ UNCHANGED <<m_heap, now>> /\ pc = "tick" /\ pc' = "idle"
        /\ m_heap # <<>> => m_heap[1].expires > now
    BY <1>9 DEF TickEnds
  <2>2. Size = Len(m_heap) /\ Ticking = 1 /\ Ticking' = 0 /\ Deleting' = Deleting
    BY <2>1 DEF Size, Deleting, Ticking
  <2>3. \A j \in DOMAIN Deadlines : Deadlines[j] > now
    <3> SUFFICES ASSUME NEW j \in DOMAIN Deadlines PROVE Deadlines[j] > now
      OBVIOUS
    <3>1. Has(m_heap, Len(m_heap), j, Deadlines[j])
      BY <1>0, <2>2, DeadlineOf
    <3>2. PICK i \in 1..Len(m_heap) : m_heap[i].expires = Deadlines[j]
      BY <3>1 DEF Has
    <3>3. m_heap # <<>> /\ 1 \in 1..Len(m_heap)
      BY <1>0, <3>2
    <3>4. m_heap[1].expires =< m_heap[i].expires
      BY <2>1, <3>2 DEF TopEarliest
    <3>5. m_heap[1].expires \in Nat /\ m_heap[i].expires \in Nat /\ now \in Nat
      BY <1>0, <3>2, <3>3, ExpiresNat DEF TypeOK
    <3> QED
      BY <2>1, <3>2, <3>3, <3>4, <3>5
  <2>4. Deadlines' = Deadlines
    BY <2>1, <2>2, DeadlinesStay
  <2> QED
    BY <2>1, <2>2, <2>3, <2>4 DEF Service!Next, Service!End
<1>10. CASE Clock
  <2>1. Deadlines' = Deadlines /\ Ticking' = Ticking /\ now' \in 0..MaxNow
    BY <1>10, DeadlinesStay DEF Clock, Deleting, Ticking
  <2> QED
    BY <2>1 DEF Service!Next, Service!Clock
<1>11. CASE UNCHANGED vars
  <2>1. Deadlines' = Deadlines /\ Ticking' = Ticking /\ now' = now
    BY <1>11, DeadlinesStay DEF vars, Deleting, Ticking
  <2> QED
    BY <2>1 DEF Service!vars
<1> QED
  BY <1>1, <1>2, <1>3, <1>4, <1>5, <1>6, <1>7, <1>8, <1>9, <1>10, <1>11
     DEF Next, Step, Service!Next

\* Under the same two conditions the heap is what timer/heaptimer.h promises,
\* for any number of descriptors, at every iteration of every loop: add and
\* adjust set one deadline, tick() ends the expired ones, earliest first, and
\* returns when none is left.
THEOREM HeapIsService ==
  ASSUME Stray = 0, ClockSteps = 0
  PROVE  Spec => ImplementsService
<1>1. Init => Service!Init
  <2> SUFFICES ASSUME Init PROVE Service!Init
    OBVIOUS
  <2>1. m_heap = <<>> /\ ~Deleting /\ now = 0 /\ Ticking = 0
    BY DEF Init, Deleting, Ticking
  <2>2. LiveNodes = {}
    BY <2>1 DEF LiveNodes
  <2>3. Deadlines = [id \in {} |-> 0]
    BY <2>2 DEF Deadlines
  <2> QED
    BY <2>1, <2>3 DEF Service!Init
<1>2. RefInv /\ RefInv' /\ TopEarliest /\ [Next]_vars => [Service!Next]_(Service!vars)
  BY StepRefines
<1>3. Spec => []TopEarliest
  BY TopAlwaysEarliest
<1>4. RefInv /\ [Next]_vars => RefInv'
  BY RefInductive
<1> QED
  BY <1>1, <1>2, <1>3, <1>4, RefInit, PTL DEF Spec, ImplementsService, Service!Spec

=============================================================================
