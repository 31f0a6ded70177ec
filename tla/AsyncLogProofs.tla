--------------------------- MODULE AsyncLogProofs ---------------------------
(***************************************************************************)
(* Proofs about AsyncLog and the queue below it, for any number of writers *)
(* and lines and a ring of any size.  First the ring: its two indices stay *)
(* m_size slots apart at every wrap-around, and it implements the bounded  *)
(* queue of BoundedFifo.  Then the log: where its lines are and in which   *)
(* order, and in which file they end.                                      *)
(***************************************************************************)
EXTENDS AsyncLog, SequenceTheorems, FiniteSetTheorems, TLAPS
-----------------------------------------------------------------------------
(***************************************************************************)
(* The ring of log/block_queue.h.                                          *)
(***************************************************************************)

\* The remainder that the ring takes of an index, which is below two rounds.
LEMMA SlotOf ==
  ASSUME NEW N \in Nat \ {0}, NEW x \in 0..(2 * N - 1)
  PROVE  x % N = IF x < N THEN x ELSE x - N
<1>1. CASE x < N
  BY <1>1
<1>2. CASE x >= N
  BY <1>2
<1> QED
  BY <1>1, <1>2

\* The next slot, where push() puts its item and pop() finds one.
LEMMA NextSlot ==
  ASSUME NEW N \in Nat \ {0}, NEW k \in -1..(N - 1)
  PROVE  /\ (k + 1) % N = IF k = N - 1 THEN 0 ELSE k + 1
         /\ (k + 1) % N \in 0..(N - 1)
<1>1. CASE k = N - 1
  <2>1. N % N = 0
    OBVIOUS
  <2> QED
    BY <1>1, <2>1
<1>2. CASE k < N - 1
  <2>1. k + 1 \in 0..(N - 1)
    BY <1>2
  <2>2. (k + 1) % N = k + 1
    BY <2>1
  <2> QED
    BY <1>2, <2>1, <2>2
<1> QED
  BY <1>1, <1>2

\* The slots of the ring, counted from m_front, are the slots of the array.
LEMMA SlotInside ==
  ASSUME RingOK, NEW i \in 1..m_max_size
  PROVE  /\ (m_front + i) % m_max_size =
              IF m_front + i < m_max_size THEN m_front + i ELSE m_front + i - m_max_size
         /\ (m_front + i) % m_max_size \in Slots
<1>1. m_front + i \in 0..(2 * m_max_size - 1) /\ m_max_size \in Nat \ {0}
  BY QueueAssumption DEF QueueAssumption, RingOK
<1>2. (m_front + i) % m_max_size =
        IF m_front + i < m_max_size THEN m_front + i ELSE m_front + i - m_max_size
  <2> USE QueueAssumption DEF QueueAssumption
  <2>1. m_front \in -1..(m_max_size - 1)
    BY DEF RingOK
  <2>2. CASE m_front + i < m_max_size
    BY <1>1, <2>1, <2>2
  <2>3. CASE m_front + i >= m_max_size
    BY <1>1, <2>1, <2>3
  <2> QED
    BY <2>1, <2>2, <2>3
<1>3. (m_front + i) % m_max_size \in Slots
  BY <1>1, <1>2 DEF Slots
<1> QED
  BY <1>2, <1>3

\* push() uses the slot behind the newest item, which holds none of the queue.
LEMMA PushSlot ==
  ASSUME RingOK, m_size < m_max_size
  PROVE  /\ (m_back + 1) % m_max_size = (m_front + (m_size + 1)) % m_max_size
         /\ (m_back + 1) % m_max_size \in Slots
         /\ \A i \in 1..m_size :
              (m_front + i) % m_max_size # (m_back + 1) % m_max_size
<1> USE QueueAssumption DEF QueueAssumption
<1> DEFINE N == m_max_size
           new == (m_front + (m_size + 1)) % m_max_size
<1>1. /\ N \in Nat \ {0} /\ m_size \in 0..(N - 1) /\ m_size + 1 \in 1..N
      /\ m_front \in -1..(N - 1) /\ m_back \in -1..(N - 1)
      /\ m_back - m_front \in {m_size, m_size - N}
  BY DEF RingOK
<1>2. /\ new = IF m_front + (m_size + 1) < N THEN m_front + (m_size + 1)
                                             ELSE m_front + (m_size + 1) - N
      /\ new \in Slots
  BY <1>1, SlotInside
<1>3. (m_back + 1) % N = IF m_back = N - 1 THEN 0 ELSE m_back + 1
  BY <1>1, NextSlot
<1> HIDE DEF N, new
<1>4. (m_back + 1) % N = new
  BY <1>1, <1>2, <1>3
<1>5. ASSUME NEW i \in 1..m_size
      PROVE  (m_front + i) % N # new
  <2>1. i \in 1..N
    BY <1>1
  <2>2. (m_front + i) % N = IF m_front + i < N THEN m_front + i ELSE m_front + i - N
    BY <2>1, SlotInside DEF N
  <2> QED
    BY <1>1, <1>2, <2>1, <2>2
<1> QED
  BY <1>2, <1>4, <1>5 DEF N, new

\* The contents are a sequence of items.
LEMMA ContentsSeq ==
  ASSUME RingOK
  PROVE  Contents \in Seq(Items) /\ Len(Contents) = m_size /\ m_size \in 0..m_max_size
<1>1. m_size \in Nat /\ m_size \in 0..m_max_size
  BY QueueAssumption DEF RingOK, QueueAssumption
<1>2. Contents \in [1..m_size -> Items]
  BY DEF Contents, RingOK
<1> QED
  BY <1>1, <1>2 DEF Contents

\* push() appends to the contents and keeps the indices apart.
LEMMA PushCorrect ==
  ASSUME RingOK, NEW x \in Items, Push(x)
  PROVE  RingOK' /\ Contents' = Append(Contents, x)
<1> USE QueueAssumption DEF QueueAssumption
<1>1. /\ m_max_size \in Nat \ {0} /\ m_size \in 0..(m_max_size - 1)
      /\ m_front \in -1..(m_max_size - 1) /\ m_back \in -1..(m_max_size - 1)
      /\ m_back - m_front \in {m_size, m_size - m_max_size}
      /\ m_size' = m_size + 1 /\ m_front' = m_front
      /\ m_back' = (m_back + 1) % m_max_size
      /\ m_array' = [m_array EXCEPT ![m_back'] = x]
      /\ m_array \in [Slots -> Items \cup {NoItem}]
      /\ waiting' = {} /\ taken' = taken
  BY DEF Push, Full, RingOK
<1>2. /\ m_back' \in Slots
      /\ m_back' = (m_front + (m_size + 1)) % m_max_size
      /\ \A i \in 1..m_size : (m_front + i) % m_max_size # m_back'
  BY <1>1, PushSlot
<1>3. m_back' = IF m_back = m_max_size - 1 THEN 0 ELSE m_back + 1
  BY <1>1, NextSlot
<1>4. m_back' - m_front' \in {m_size', m_size' - m_max_size}
  BY <1>1, <1>3
<1>5. \A i \in 1..m_size :
        /\ (m_front + i) % m_max_size \in Slots
        /\ m_array'[(m_front + i) % m_max_size] = m_array[(m_front + i) % m_max_size]
        /\ m_array[(m_front + i) % m_max_size] \in Items
  <2> SUFFICES ASSUME NEW i \in 1..m_size
               PROVE  /\ (m_front + i) % m_max_size \in Slots
                      /\ m_array'[(m_front + i) % m_max_size] = m_array[(m_front + i) % m_max_size]
                      /\ m_array[(m_front + i) % m_max_size] \in Items
    OBVIOUS
  <2> DEFINE slot == (m_front + i) % m_max_size
  <2>1. i \in 1..m_max_size
    BY <1>1
  <2>2. slot \in Slots /\ slot # m_back'
    BY <1>2, <2>1, SlotInside
  <2>3. m_array[slot] \in Items
    BY DEF RingOK
  <2> HIDE DEF slot
  <2>4. m_array'[slot] = m_array[slot]
    BY <1>1, <1>2, <2>2
  <2> QED
    BY <2>2, <2>3, <2>4 DEF slot
<1>6. m_array'[(m_front + (m_size + 1)) % m_max_size] = x
  BY <1>1, <1>2
<1>7. \A i \in 1..m_size' : m_array'[(m_front' + i) % m_max_size] \in Items
  <2> SUFFICES ASSUME NEW i \in 1..m_size'
               PROVE  m_array'[(m_front' + i) % m_max_size] \in Items
    OBVIOUS
  <2>1. i \in 1..m_size \/ i = m_size + 1
    BY <1>1
  <2> QED
    BY <1>1, <1>5, <1>6, <2>1
<1>8. RingOK'
  <2>1. m_array' \in [Slots -> Items \cup {NoItem}]
    BY <1>1, <1>2
  <2>2. m_size' \in 0..m_max_size /\ m_front' \in -1..(m_max_size - 1)
    BY <1>1
  <2>3. m_back' \in -1..(m_max_size - 1)
    BY <1>1, <1>3
  <2>4. waiting' \subseteq Readers /\ taken' \in [Readers -> Items \cup {NoItem}]
    BY <1>1 DEF RingOK
  <2> QED
    BY <1>1, <1>3, <1>4, <1>7, <2>1, <2>2, <2>3, <2>4 DEF RingOK, Slots
<1>9. Contents' = Append(Contents, x)
  <2>1. /\ Contents \in Seq(Items) /\ Len(Contents) = m_size
        /\ Contents' \in Seq(Items) /\ Len(Contents') = m_size'
    BY <1>8, ContentsSeq, <1>1 DEF Contents, RingOK
  <2>2. /\ Append(Contents, x) \in Seq(Items)
        /\ Len(Append(Contents, x)) = m_size + 1
        /\ \A i \in 1..m_size : Append(Contents, x)[i] = Contents[i]
        /\ Append(Contents, x)[m_size + 1] = x
    BY <2>1, AppendProperties
  <2>3. \A i \in 1..m_size : Contents'[i] = Contents[i]
    BY <1>1, <1>5 DEF Contents
  <2>4. Contents'[m_size + 1] = x
    BY <1>1, <1>6 DEF Contents
  <2>5. \A i \in 1..(m_size + 1) : Contents'[i] = Append(Contents, x)[i]
    <3> SUFFICES ASSUME NEW i \in 1..(m_size + 1)
                 PROVE  Contents'[i] = Append(Contents, x)[i]
      OBVIOUS
    <3>1. i \in 1..m_size \/ i = m_size + 1
      BY <1>1
    <3> QED
      BY <2>2, <2>3, <2>4, <3>1
  <2> QED
    BY <1>1, <2>1, <2>2, <2>5, SeqEqual
<1> QED
  BY <1>8, <1>9

\* pop() takes the oldest of the contents and keeps the indices apart.
LEMMA PopCorrect ==
  ASSUME RingOK, NEW t \in Readers, Pop(t)
  PROVE  /\ RingOK'
         /\ Contents # <<>>
         /\ taken' = [taken EXCEPT ![t] = Head(Contents)]
         /\ Contents' = Tail(Contents)
<1> USE QueueAssumption DEF QueueAssumption
<1>1. /\ m_max_size \in Nat \ {0} /\ m_size \in 1..m_max_size
      /\ m_front \in -1..(m_max_size - 1) /\ m_back \in -1..(m_max_size - 1)
      /\ m_back - m_front \in {m_size, m_size - m_max_size}
      /\ m_size' = m_size - 1 /\ m_back' = m_back
      /\ m_front' = (m_front + 1) % m_max_size
      /\ m_array' = m_array /\ waiting' = waiting
      /\ taken' = [taken EXCEPT ![t] = m_array[m_front']]
  BY DEF Pop, RingOK
<1>2. /\ m_front' = IF m_front = m_max_size - 1 THEN 0 ELSE m_front + 1
      /\ m_front' \in 0..(m_max_size - 1)
  BY <1>1, NextSlot
<1>3. m_back' - m_front' \in {m_size', m_size' - m_max_size}
  BY <1>1, <1>2
<1>4. ASSUME NEW i \in 1..m_size'
      PROVE  (m_front' + i) % m_max_size = (m_front + (i + 1)) % m_max_size
  <2> DEFINE x == m_front' + i
             y == m_front + (i + 1)
  <2>1. /\ x \in 0..(2 * m_max_size - 1) /\ y \in 0..(2 * m_max_size - 1)
        /\ x = IF m_front = m_max_size - 1 THEN y - m_max_size ELSE y
        /\ x < m_max_size \/ x = y
    BY <1>1, <1>2
  <2> HIDE DEF x, y
  <2>2. /\ x % m_max_size = IF x < m_max_size THEN x ELSE x - m_max_size
        /\ y % m_max_size = IF y < m_max_size THEN y ELSE y - m_max_size
    BY <1>1, <2>1, SlotOf
  <2> QED
    BY <1>1, <2>1, <2>2 DEF x, y
<1>5. \A i \in 1..m_size' : m_array'[(m_front' + i) % m_max_size] \in Items
  <2> SUFFICES ASSUME NEW i \in 1..m_size'
               PROVE  m_array'[(m_front' + i) % m_max_size] \in Items
    OBVIOUS
  <2>1. i + 1 \in 1..m_size
    BY <1>1
  <2> QED
    BY <1>1, <1>4, <2>1 DEF RingOK
<1>6. m_array[m_front'] \in Items
  BY <1>1 DEF RingOK
<1>7. RingOK'
  <2>1. m_size' \in 0..m_max_size /\ m_front' \in -1..(m_max_size - 1)
    BY <1>1, <1>2
  <2>2. taken' \in [Readers -> Items \cup {NoItem}]
    BY <1>1, <1>6 DEF RingOK
  <2> QED
    BY <1>1, <1>3, <1>5, <2>1, <2>2 DEF RingOK
<1>8. /\ Contents \in Seq(Items) /\ Len(Contents) = m_size
      /\ Contents' \in Seq(Items) /\ Len(Contents') = m_size'
  BY <1>7, ContentsSeq, <1>1 DEF Contents, RingOK
<1>9. Contents # <<>>
  BY <1>1, <1>8, EmptySeq
<1>10. Head(Contents) = m_array[m_front']
  <2>1. Head(Contents) = Contents[1]
    BY <1>8, <1>9
  <2> QED
    BY <1>1, <2>1 DEF Contents
<1>11. Contents' = Tail(Contents)
  <2>1. /\ Tail(Contents) \in Seq(Items) /\ Len(Tail(Contents)) = m_size'
        /\ \A i \in 1..m_size' : Tail(Contents)[i] = Contents[i + 1]
    BY <1>1, <1>8, <1>9, HeadTailProperties
  <2>2. \A i \in 1..m_size' : Contents'[i] = Contents[i + 1]
    <3> SUFFICES ASSUME NEW i \in 1..m_size'
                 PROVE  Contents'[i] = Contents[i + 1]
      OBVIOUS
    <3>1. i + 1 \in 1..m_size
      BY <1>1
    <3> QED
      BY <1>1, <1>4, <3>1 DEF Contents
  <2> QED
    BY <1>8, <2>1, <2>2, SeqEqual
<1> QED
  BY <1>1, <1>7, <1>9, <1>10, <1>11

\* clear() leaves nothing.
LEMMA ClearCorrect ==
  ASSUME RingOK, Clear
  PROVE  RingOK' /\ Contents' = <<>>
<1> USE QueueAssumption DEF QueueAssumption
<1>1. RingOK'
  BY DEF RingOK, Clear, Slots
<1>2. Contents' \in Seq(Items) /\ Len(Contents') = 0
  BY <1>1, ContentsSeq DEF Clear, Contents, RingOK
<1> QED
  BY <1>1, <1>2, EmptySeq

\* What else may happen touches neither indices nor slots.
LEMMA OthersCorrect ==
  ASSUME RingOK,
         \/ PushFails \/ UNCHANGED queueVars
         \/ \E t \in Readers : PopWaits(t) \/ Spurious(t)
  PROVE  RingOK' /\ Contents' = Contents /\ taken' = taken
<1>1. UNCHANGED <<ring, taken>> /\ waiting' \subseteq Readers
  BY DEF PushFails, PopWaits, Spurious, queueVars, RingOK
<1> QED
  BY <1>1 DEF RingOK, ring, Contents

LEMMA RingInductive == RingOK /\ [QueueNext]_queueVars => RingOK'
  BY PushCorrect, PopCorrect, ClearCorrect, OthersCorrect DEF QueueNext

LEMMA QueueInitCorrect == QueueInit => RingOK /\ Contents = <<>>
<1> SUFFICES ASSUME QueueInit PROVE RingOK /\ Contents = <<>>
  OBVIOUS
<1>1. RingOK
  BY QueueAssumption DEF QueueAssumption, QueueInit, RingOK, Slots
<1>2. Contents \in Seq(Items) /\ Len(Contents) = 0
  BY <1>1, ContentsSeq DEF QueueInit
<1> QED
  BY <1>1, <1>2, EmptySeq

\* In a ring of any size, after any pushes, pops and clears, the indices are in
\* range and m_size slots apart, and the slots between them hold items.
THEOREM RingAlwaysOK == QueueSpec => []RingOK
<1>1. QueueInit => RingOK
  BY QueueInitCorrect
<1> QED
  BY <1>1, RingInductive, PTL DEF QueueSpec

\* The ring implements the bounded queue: push() is Put, pop() is Get, clear()
\* is Clear and every other step a stutter.
THEOREM RingIsFifo == QueueSpec => ImplementsFifo
<1>1. QueueInit => Fifo!Init
  BY QueueInitCorrect DEF Fifo!Init, QueueInit
<1>2. RingOK /\ [QueueNext]_queueVars => [Fifo!Next]_<<Contents, taken>>
  <2> SUFFICES ASSUME RingOK, [QueueNext]_queueVars
               PROVE  [Fifo!Next]_<<Contents, taken>>
    OBVIOUS
  <2>1. CASE Clear
    BY <2>1, ClearCorrect DEF Clear, Fifo!Next, Fifo!Clear
  <2>2. ASSUME NEW x \in Items, Push(x)
        PROVE  Fifo!Put(x)
    <3>1. Len(Contents) < m_max_size
      BY <2>2, ContentsSeq, QueueAssumption DEF QueueAssumption, Push, Full
    <3> QED
      BY <2>2, <3>1, PushCorrect DEF Push, Fifo!Put
  <2>3. ASSUME NEW t \in Readers, Pop(t)
        PROVE  Fifo!Get(t)
    BY <2>3, PopCorrect DEF Fifo!Get
  <2>4. CASE \/ PushFails \/ UNCHANGED queueVars
             \/ \E t \in Readers : PopWaits(t) \/ Spurious(t)
    BY <2>4, OthersCorrect
  <2> QED
    BY <2>1, <2>2, <2>3, <2>4 DEF QueueNext, Fifo!Next
<1> QED
  BY <1>1, <1>2, RingAlwaysOK, PTL DEF QueueSpec, ImplementsFifo, Fifo!Spec

\* back() gives the item pushed last; front(), which reads the slot m_front,
\* gives the one popped last, and no item of the queue.
THEOREM BackIsNewest == RingOK /\ m_size > 0 => Back = Contents[m_size]
<1> SUFFICES ASSUME RingOK, m_size > 0 PROVE Back = Contents[m_size]
  OBVIOUS
<1> USE QueueAssumption DEF QueueAssumption
<1>1. m_size \in 1..m_max_size /\ m_max_size \in Nat \ {0}
  BY DEF RingOK
<1>2. (m_front + m_size) % m_max_size = m_back
  <2>1. (m_front + m_size) % m_max_size =
          IF m_front + m_size < m_max_size THEN m_front + m_size
          ELSE m_front + m_size - m_max_size
    BY <1>1, SlotInside
  <2>2. /\ m_front \in -1..(m_max_size - 1) /\ m_back \in -1..(m_max_size - 1)
        /\ m_back - m_front \in {m_size, m_size - m_max_size}
        /\ m_back # -1
    BY <1>1 DEF RingOK
  <2> QED
    BY <1>1, <2>1, <2>2
<1> QED
  BY <1>1, <1>2 DEF Back, Contents

-----------------------------------------------------------------------------
(***************************************************************************)
(* The log: types, and where the threads are.                              *)
(***************************************************************************)
Threads == Writers \cup {Flusher}
Records == [line : Lines, file : Nat \X Nat, by : Threads]

\* TypeOK with what the threads' places say: a writer past write_log's start
\* has a line to write, the flusher past pop() holds one, and without a queue
\* nobody pushes or pops.
Types ==
  /\ LogTypes
  /\ written \in Seq(Records)
  /\ at \in [Threads -> {"idle", "count", "choose", "push", "fputs", "flush", "pop"}]
  /\ at[Flusher] \in {"pop", "fputs"}
  /\ at[Flusher] = "fputs" => taken[Flusher] \in Lines
  /\ \A w \in Writers : at[w] # "pop" /\ (at[w] # "idle" => no[w] =< MaxLines)
  /\ ~m_is_async =>
       m_size = 0 /\ at[Flusher] = "pop" /\ \A w \in Writers : at[w] # "push"

\* push_back of a history, or of a queue.
LEMMA Appended ==
  ASSUME NEW S, NEW q \in Seq(S), NEW x \in S
  PROVE  /\ Append(q, x) \in Seq(S)
         /\ Len(q) \in Nat
         /\ Len(Append(q, x)) = Len(q) + 1
         /\ \A i \in 1..Len(q) : Append(q, x)[i] = q[i]
         /\ Append(q, x)[Len(q) + 1] = x
  OBVIOUS

\* Division with a positive divisor.
LEMMA Division ==
  ASSUME NEW n \in Nat, NEW s \in Nat, s >= 1
  PROVE  /\ n \div s \in Nat /\ s * (n \div s) \in Nat
         /\ s * (n \div s) =< n /\ n < s * (n \div s) + s
<1>1. n = s * (n \div s) + (n % s) /\ n % s \in 0..(s - 1)
  OBVIOUS
<1>2. n \div s \in Nat
  OBVIOUS
<1> QED
  BY <1>1, <1>2

\* The bounds of the model are numbers.
LEMMA Bounds ==
  /\ MaxLines \in Nat /\ MaxLines >= 1 /\ m_split_lines \in Nat /\ m_split_lines >= 1
  /\ Days \in Nat /\ Days >= 1 /\ Flusher \notin Writers /\ Flusher \in Readers
  /\ Items = Lines
  BY LogAssumption DEF LogAssumption

\* The line a writer is at is one of its lines.
LEMMA OwnLine ==
  ASSUME Types, NEW w \in Writers, at[w] # "idle"
  PROVE  /\ Line(w) \in Lines /\ no[w] \in 1..MaxLines
         /\ Line(w)[1] = w /\ Line(w)[2] = no[w]
  BY Bounds DEF Types, LogTypes, Line, Lines

LEMMA TypesInit == Init => Types
<1> SUFFICES ASSUME Init PROVE Types
  OBVIOUS
<1>1. RingOK
  BY QueueInitCorrect DEF Init
<1>2. LogTypes
  BY <1>1, Bounds DEF Init, LogTypes
<1>3. written \in Seq(Records)
  BY DEF Init
<1>4. at[Flusher] = "pop" /\ \A w \in Writers : at[w] = "idle"
  BY Bounds DEF Init
<1> QED
  BY <1>2, <1>3, <1>4 DEF Init, Types, Threads, QueueInit

\* fputs keeps the types.
LEMMA FputsTypes ==
  ASSUME Types, NEW x \in Lines, NEW t \in Threads, Fputs(x, t)
  PROVE  /\ written' \in Seq(Records)
         /\ Len(written) \in Nat /\ Len(written') = Len(written) + 1
         /\ \A i \in 1..Len(written) : written'[i] = written[i]
         /\ written'[Len(written) + 1] = [line |-> x, file |-> m_fp, by |-> t]
         /\ DOMAIN written = 1..Len(written) /\ DOMAIN written' = 1..Len(written')
         /\ \A i \in DOMAIN written' : written'[i].line \in Lines
<1> DEFINE r == [line |-> x, file |-> m_fp, by |-> t]
<1>1. m_fp \in Nat \X Nat
  BY DEF Types, LogTypes
<1>2. r \in Records /\ written \in Seq(Records) /\ written' = Append(written, r)
  BY <1>1 DEF Records, Fputs, Types
<1> HIDE DEF r
<1>3. /\ written' \in Seq(Records)
      /\ Len(written) \in Nat /\ Len(written') = Len(written) + 1
      /\ \A i \in 1..Len(written) : written'[i] = written[i]
      /\ written'[Len(written) + 1] = r
  BY <1>2, Appended
<1>4. DOMAIN written = 1..Len(written) /\ DOMAIN written' = 1..Len(written')
  BY <1>2, <1>3
<1>5. \A i \in DOMAIN written' : written'[i].line \in Lines
  <2>1. \A i \in 1..Len(written') : written'[i] \in Records
    BY <1>3
  <2> QED
    BY <1>4, <2>1 DEF Records
<1> QED
  BY <1>3, <1>4, <1>5 DEF r

LEMMA TypesInductive == Types /\ [Next]_vars => Types'
<1> SUFFICES ASSUME Types, [Next]_vars PROVE Types'
  OBVIOUS
<1> USE Bounds
<1>1. RingOK /\ Len(written) \in Nat /\ DOMAIN written = 1..Len(written)
  BY DEF Types, LogTypes
<1>2. CASE Midnight
  <2>1. RingOK'
    BY <1>1, <1>2, OthersCorrect DEF Midnight
  <2> QED
    BY <1>1, <1>2, <2>1 DEF Midnight, Types, LogTypes, fileVars, queueVars, ring
<1>3. ASSUME NEW w \in Writers, Begin(w) PROVE Types'
  <2>1. RingOK'
    BY <1>1, <1>3, OthersCorrect DEF Begin
  <2> QED
    BY <1>1, <1>3, <2>1
       DEF Begin, Types, LogTypes, fileVars, queueVars, ring, Goto, Threads
<1>4. ASSUME NEW w \in Writers, Count(w) PROVE Types'
  <2>1. RingOK'
    BY <1>1, <1>4, OthersCorrect DEF Count
  <2>2. m_count' \in Nat /\ m_today' \in 1..day
    BY <1>4 DEF Count, Types, LogTypes
  <2>3. m_count' \div m_split_lines \in Nat
    BY <2>2, Division
  <2>4. m_fp' \in (1..day) \X Nat /\ flushed' \in 0..Len(written)
    BY <1>1, <1>4, <2>3 DEF Count, Types, LogTypes
  <2>5. LogTypes'
    BY <1>1, <1>4, <2>1, <2>2, <2>4 DEF Count, Types, LogTypes, queueVars
  <2> QED
    BY <1>4, <2>5 DEF Count, Types, queueVars, ring, Goto, Threads
<1>5. ASSUME NEW w \in Writers, Choose(w) PROVE Types'
  <2>1. RingOK'
    BY <1>1, <1>5, OthersCorrect DEF Choose
  <2>2. LogTypes'
    BY <1>5, <2>1 DEF Choose, Types, LogTypes, fileVars
  <2> QED
    BY <1>5, <2>2 DEF Choose, Types, fileVars, queueVars, ring, Goto, Threads
<1>6. ASSUME NEW w \in Writers, PushLine(w) PROVE Types'
  <2>1. Line(w) \in Lines /\ m_is_async
    BY <1>6, OwnLine DEF PushLine, Types
  <2>2. RingOK' /\ taken' = taken
    BY <1>1, <1>6, <2>1, PushCorrect, OthersCorrect DEF PushLine, Push
  <2>3. dropped' \subseteq Lines
    BY <1>6, <2>1 DEF PushLine, Types, LogTypes
  <2>4. LogTypes'
    BY <1>6, <2>2, <2>3 DEF PushLine, Types, LogTypes, fileVars
  <2> QED
    BY <1>6, <2>1, <2>2, <2>4 DEF PushLine, Types, fileVars, Goto, Threads
<1>7. ASSUME NEW w \in Writers, WriteLine(w) PROVE Types'
  <2>1. Line(w) \in Lines /\ w \in Threads
    BY <1>7, OwnLine DEF WriteLine, Threads
  <2>2. RingOK'
    BY <1>1, <1>7, OthersCorrect DEF WriteLine
  <2>3. /\ written' \in Seq(Records) /\ Len(written') = Len(written) + 1
        /\ \A i \in DOMAIN written' : written'[i].line \in Lines
    BY <1>7, <2>1, FputsTypes DEF WriteLine
  <2>4. LogTypes'
    BY <1>1, <1>7, <2>2, <2>3 DEF WriteLine, Types, LogTypes, fileVars
  <2> QED
    BY <1>7, <2>3, <2>4
       DEF WriteLine, Types, fileVars, Goto, Threads, queueVars, ring
<1>8. ASSUME NEW w \in Writers, Flush(w) PROVE Types'
  <2>1. RingOK'
    BY <1>1, <1>8, OthersCorrect DEF Flush
  <2>2. no[w] \in 1..MaxLines
    BY <1>8, OwnLine DEF Flush
  <2>3. no' \in [Writers -> 1..(MaxLines + 1)]
    BY <1>8, <2>2 DEF Flush, Types, LogTypes
  <2>4. LogTypes'
    BY <1>1, <1>8, <2>1, <2>3 DEF Flush, Types, LogTypes, fileVars
  <2> QED
    BY <1>8, <2>4 DEF Flush, Types, LogTypes, fileVars, Goto, Threads, queueVars, ring
<1>9. CASE FlusherWaits
  <2>1. RingOK' /\ taken' = taken /\ m_size' = m_size
    BY <1>1, <1>9, OthersCorrect DEF FlusherWaits, PopWaits, Spurious, ring
  <2>2. LogTypes'
    BY <1>9, <2>1 DEF FlusherWaits, Types, LogTypes, logVars, fileVars
  <2> QED
    BY <1>9, <2>1, <2>2 DEF FlusherWaits, Types, logVars, fileVars
<1>10. CASE FlusherPops
  <2>1. RingOK' /\ taken'[Flusher] \in Lines
    <3>1. /\ RingOK' /\ Contents # <<>>
          /\ taken' = [taken EXCEPT ![Flusher] = Head(Contents)]
      BY <1>1, <1>10, PopCorrect DEF FlusherPops
    <3>2. Contents \in Seq(Items)
      BY <1>1, ContentsSeq
    <3>3. Head(Contents) \in Items
      BY <3>1, <3>2
    <3>4. taken \in [Readers -> Items \cup {NoItem}]
      BY <1>1 DEF RingOK
    <3> QED
      BY <3>1, <3>3, <3>4
  <2>2. m_is_async
    BY <1>1, <1>10 DEF FlusherPops, Pop, Types, RingOK
  <2>3. LogTypes'
    BY <1>10, <2>1 DEF FlusherPops, Types, LogTypes, fileVars
  <2> QED
    BY <1>10, <2>1, <2>2, <2>3 DEF FlusherPops, Types, fileVars, Goto, Threads
<1>11. CASE FlusherWrites
  <2>1. taken[Flusher] \in Lines /\ Flusher \in Threads
    BY <1>11 DEF FlusherWrites, Types, Threads
  <2>2. RingOK'
    BY <1>1, <1>11, OthersCorrect DEF FlusherWrites
  <2>3. /\ written' \in Seq(Records) /\ Len(written') = Len(written) + 1
        /\ \A i \in DOMAIN written' : written'[i].line \in Lines
    BY <1>11, <2>1, FputsTypes DEF FlusherWrites
  <2>4. LogTypes'
    BY <1>1, <1>11, <2>2, <2>3 DEF FlusherWrites, Types, LogTypes, fileVars
  <2> QED
    BY <1>11, <2>3, <2>4
       DEF FlusherWrites, Types, fileVars, Goto, Threads, queueVars, ring
<1>12. CASE UNCHANGED vars
  <2>1. RingOK'
    BY <1>1, <1>12, OthersCorrect DEF vars
  <2>2. LogTypes'
    BY <1>12, <2>1 DEF vars, Types, LogTypes, logVars, fileVars
  <2> QED
    BY <1>12, <2>2 DEF vars, Types, logVars, fileVars, queueVars, ring
<1> QED
  BY <1>2, <1>3, <1>4, <1>5, <1>6, <1>7, <1>8, <1>9, <1>10, <1>11, <1>12
     DEF Next, WriterStep

\* For any writers, lines, days and queue: the ring and the files have their types,
\* and between pop() and fputs() the flusher has a line in its hands.
THEOREM TypeCorrect == Spec => []TypeOK
<1>1. Types => TypeOK
  BY DEF Types, TypeOK
<1> QED
  BY <1>1, TypesInit, TypesInductive, PTL DEF Spec

\* What the threads of the log do to the queue is what a queue's users may do.
LEMMA QueueUsed == Types /\ [Next]_vars => [QueueNext]_queueVars
<1> SUFFICES ASSUME Types, [Next]_vars PROVE [QueueNext]_queueVars
  OBVIOUS
<1>1. ASSUME NEW w \in Writers, PushLine(w) PROVE QueueNext
  <2>1. Line(w) \in Items
    BY <1>1, OwnLine, Bounds DEF PushLine
  <2> QED
    BY <1>1, <2>1 DEF PushLine, QueueNext
<1>2. CASE FlusherWaits \/ FlusherPops
  BY <1>2, Bounds DEF FlusherWaits, FlusherPops, QueueNext
<1>3. CASE Midnight \/ FlusherWrites \/ UNCHANGED vars
  BY <1>3 DEF Midnight, FlusherWrites, vars
<1>4. ASSUME NEW w \in Writers,
             Begin(w) \/ Count(w) \/ Choose(w) \/ WriteLine(w) \/ Flush(w)
      PROVE  UNCHANGED queueVars
  BY <1>4 DEF Begin, Count, Choose, WriteLine, Flush
<1> QED
  BY <1>1, <1>2, <1>3, <1>4 DEF Next, WriterStep

\* The queue of the log is the bounded queue, whoever pushes and whatever
\* push() and pop() meet.
THEOREM LogUsesFifo == Spec => ImplementsFifo
<1>1. Init => QueueInit
  BY DEF Init
<1>2. Spec => QueueSpec
  BY <1>1, TypesInit, TypesInductive, QueueUsed, PTL DEF Spec, QueueSpec
<1> QED
  BY <1>2, RingIsFifo

-----------------------------------------------------------------------------
(***************************************************************************)
(* Where the lines are.  A line is in the file, in the queue, in the hands *)
(* of the flusher or refused; a step moves one line, and each lemma below  *)
(* follows one kind of move.                                               *)
(***************************************************************************)
InFile(l) == \E i \in 1..Len(written) : written[i].line = l
InQueue(l) == \E i \in 1..m_size : Contents[i] = l
InHand(l) == at[Flusher] = "fputs" /\ taken[Flusher] = l

\* What LinesKept needs in order to be inductive, first part: the lines logged
\* are those in one of the four places, and in one only.
Kept ==
  /\ \A l \in Lines :
       l \in Logged <=> InFile(l) \/ InQueue(l) \/ InHand(l) \/ l \in dropped
  /\ \A l \in Lines :
       /\ InFile(l) => ~InQueue(l) /\ ~InHand(l) /\ l \notin dropped
       /\ InQueue(l) => ~InHand(l) /\ l \notin dropped
       /\ InHand(l) => l \notin dropped
  /\ \A i, j \in 1..Len(written) : written[i].line = written[j].line => i = j
  /\ \A i, j \in 1..m_size : Contents[i] = Contents[j] => i = j

Later(a, b) == a[1] = b[1] /\ a[2] > b[2]

\* The line at i was written by its own thread, past the queue.
Past(i) == written[i].by = written[i].line[1] /\ m_is_async

\* Second part: no line overtakes an earlier one of its thread between push()
\* and fputs, and whatever is in the file already was allowed to.
Ordered ==
  /\ \A i, j \in 1..m_size : Later(Contents[i], Contents[j]) => j < i
  /\ \A l \in Lines, i \in 1..m_size : InHand(l) => ~Later(l, Contents[i])
  /\ \A i \in 1..Len(written), l \in Lines :
       (InQueue(l) \/ InHand(l)) /\ Later(written[i].line, l) => Past(i)
  /\ \A i, j \in 1..Len(written) :
       i < j /\ Later(written[i].line, written[j].line) => Past(i)

Accounts == Types /\ Kept /\ Ordered

LEMMA LineParts ==
  ASSUME NEW l \in Lines
  PROVE  l = <<l[1], l[2]>> /\ l[1] \in Writers /\ l[2] \in 1..MaxLines
  BY DEF Lines

\* The contents of the queue are lines.
LEMMA QueuedLines ==
  ASSUME Types
  PROVE  /\ Contents \in Seq(Lines) /\ Len(Contents) = m_size /\ m_size \in Nat
         /\ \A i \in 1..m_size : Contents[i] \in Lines
<1>1. Contents \in Seq(Items) /\ Len(Contents) = m_size /\ m_size \in 0..m_max_size
  BY ContentsSeq DEF Types, LogTypes
<1> QED
  BY <1>1, Bounds, QueueAssumption DEF QueueAssumption

\* So are those of the file.
LEMMA WrittenLines ==
  ASSUME Types
  PROVE  /\ Len(written) \in Nat /\ DOMAIN written = 1..Len(written)
         /\ \A i \in 1..Len(written) : written[i] \in Records /\ written[i].line \in Lines
<1>1. written \in Seq(Records)
  BY DEF Types
<1>2. /\ Len(written) \in Nat /\ DOMAIN written = 1..Len(written)
      /\ \A i \in 1..Len(written) : written[i] \in Records
  BY <1>1
<1> QED
  BY <1>2 DEF Records

\* A step that disposes of no line leaves the lines logged as they are ...
LEMMA LoggedSame ==
  ASSUME no' = no, \A w \in Writers : at'[w] = "flush" <=> at[w] = "flush"
  PROVE  Logged' = Logged
<1>1. \A l \in Lines : l \in Logged' <=> l \in Logged
  BY LineParts DEF Logged
<1> QED
  BY <1>1 DEF Logged

\* ... push and fputs add the line of their thread, its last so far ...
LEMMA LoggedOne ==
  ASSUME Types, NEW w \in Writers, at[w] \in {"push", "fputs"}, Goto(w, "flush"), no' = no
  PROVE  /\ Line(w) \notin Logged
         /\ \A l \in Lines : l \in Logged' <=> l \in Logged \/ l = Line(w)
         /\ \A l \in Logged : ~Later(l, Line(w))
<1>1. Line(w) \in Lines /\ Line(w) = <<w, no[w]>> /\ no[w] \in Nat
  BY OwnLine DEF Line
<1>2. /\ at'[w] = "flush" /\ at[w] # "flush"
      /\ \A v \in Writers : v # w => at'[v] = at[v]
  BY Bounds DEF Goto, Types, Threads
<1>3. no \in [Writers -> Nat]
  BY Bounds DEF Types, LogTypes
<1>4. ASSUME NEW l \in Lines
      PROVE  /\ l \in Logged' <=> l \in Logged \/ l = Line(w)
             /\ l \in Logged => l # Line(w) /\ ~Later(l, Line(w))
  <2>1. l = <<l[1], l[2]>> /\ l[1] \in Writers /\ l[2] \in Nat /\ no[l[1]] \in Nat
    BY <1>3, LineParts, Bounds
  <2>2. CASE l[1] = w
    BY <1>1, <1>2, <1>3, <2>1, <2>2 DEF Logged, Later
  <2>3. CASE l[1] # w
    BY <1>1, <1>2, <1>3, <2>1, <2>3 DEF Logged, Later
  <2> QED
    BY <2>2, <2>3
<1> QED
  BY <1>1, <1>4 DEF Logged

\* ... and flush() turns to the next line.
LEMMA LoggedFlush ==
  ASSUME Types, NEW w \in Writers, Flush(w)
  PROVE  Logged' = Logged
<1>1. /\ at'[w] = "idle" /\ at[w] = "flush" /\ no'[w] = no[w] + 1 /\ no[w] \in Nat
      /\ \A v \in Writers : v # w => at'[v] = at[v] /\ no'[v] = no[v]
  BY Bounds DEF Flush, Goto, Types, LogTypes, Threads
<1>2. ASSUME NEW l \in Lines PROVE l \in Logged' <=> l \in Logged
  <2>1. l[1] \in Writers /\ l[2] \in Nat
    BY LineParts, Bounds
  <2> QED
    BY <1>1, <2>1 DEF Logged
<1> QED
  BY <1>2 DEF Logged

\* A step that moves no line.
LEMMA NoLineMoves ==
  ASSUME Kept, Ordered, Logged' = Logged,
         UNCHANGED <<written, Contents, m_size, dropped, m_is_async>>,
         at'[Flusher] = at[Flusher], taken'[Flusher] = taken[Flusher]
  PROVE  Kept' /\ Ordered'
<1>1. \A l : /\ InFile(l)' <=> InFile(l)
             /\ InQueue(l)' <=> InQueue(l)
             /\ InHand(l)' <=> InHand(l)
  BY DEF InFile, InQueue, InHand
<1>2. Kept'
  BY <1>1 DEF Kept
<1>3. Ordered'
  BY <1>1 DEF Ordered, Past
<1> QED
  BY <1>2, <1>3

\* A line that nobody has disposed of is refused by push().
LEMMA LineRefused ==
  ASSUME Kept, Ordered, NEW x \in Lines, x \notin Logged,
         \A l \in Lines : l \in Logged' <=> l \in Logged \/ l = x,
         UNCHANGED <<written, Contents, m_size, m_is_async>>, dropped' = dropped \cup {x},
         at'[Flusher] = at[Flusher], taken'[Flusher] = taken[Flusher]
  PROVE  Kept' /\ Ordered'
<1>1. \A l : /\ InFile(l)' <=> InFile(l)
             /\ InQueue(l)' <=> InQueue(l)
             /\ InHand(l)' <=> InHand(l)
  BY DEF InFile, InQueue, InHand
<1>2. ~InFile(x) /\ ~InQueue(x) /\ ~InHand(x)
  BY DEF Kept
<1>3. Kept'
  BY <1>1, <1>2 DEF Kept
<1>4. Ordered'
  BY <1>1 DEF Ordered, Past
<1> QED
  BY <1>3, <1>4

\* Or it goes behind the others in the queue.
LEMMA LineQueued ==
  ASSUME Types, Kept, Ordered, NEW x \in Lines, x \notin Logged,
         \A l \in Lines : l \in Logged' <=> l \in Logged \/ l = x,
         \A l \in Logged : ~Later(l, x),
         UNCHANGED <<written, dropped, m_is_async>>,
         Contents' = Append(Contents, x), m_size' = m_size + 1,
         at'[Flusher] = at[Flusher], taken'[Flusher] = taken[Flusher]
  PROVE  Kept' /\ Ordered'
<1>1. /\ m_size \in Nat /\ Contents'[m_size + 1] = x
      /\ \A i \in 1..m_size : Contents'[i] = Contents[i] /\ Contents[i] \in Lines
  BY QueuedLines, Appended
<1>2. ASSUME NEW i \in 1..m_size'
      PROVE  i \in 1..m_size \/ i = m_size + 1
  BY <1>1
<1>3. \A l : /\ InFile(l)' <=> InFile(l)
             /\ InHand(l)' <=> InHand(l)
  BY DEF InFile, InHand
<1>4. \A l : InQueue(l)' <=> InQueue(l) \/ l = x
  <2> SUFFICES ASSUME NEW l PROVE InQueue(l)' <=> InQueue(l) \/ l = x
    OBVIOUS
  <2>1. InQueue(l) => InQueue(l)'
    <3>1. \A i \in 1..m_size : i \in 1..m_size'
      BY <1>1
    <3> QED
      BY <1>1, <3>1 DEF InQueue
  <2>2. l = x => InQueue(l)'
    <3>1. m_size + 1 \in 1..m_size'
      BY <1>1
    <3> QED
      BY <1>1, <3>1 DEF InQueue
  <2>3. InQueue(l)' => InQueue(l) \/ l = x
    BY <1>1, <1>2 DEF InQueue
  <2> QED
    BY <2>1, <2>2, <2>3
<1>5. ~InFile(x) /\ ~InQueue(x) /\ ~InHand(x) /\ x \notin dropped
  BY DEF Kept
<1>6. \A i \in 1..m_size : Contents[i] # x /\ ~Later(Contents[i], x)
  <2> SUFFICES ASSUME NEW i \in 1..m_size PROVE Contents[i] # x /\ ~Later(Contents[i], x)
    OBVIOUS
  <2>1. InQueue(Contents[i]) /\ Contents[i] \in Lines
    BY <1>1 DEF InQueue
  <2> QED
    BY <1>5, <2>1 DEF Kept
<1>7. Kept'
  <2>1. \A i, j \in 1..m_size' : Contents'[i] = Contents'[j] => i = j
    BY <1>1, <1>2, <1>6 DEF Kept
  <2>2. \A l \in Lines :
          l \in Logged' <=> (InFile(l) \/ InQueue(l) \/ InHand(l) \/ l \in dropped)'
    BY <1>3, <1>4 DEF Kept
  <2>3. \A l \in Lines :
          /\ InFile(l)' => ~InQueue(l)' /\ ~InHand(l)' /\ l \notin dropped'
          /\ InQueue(l)' => ~InHand(l)' /\ l \notin dropped'
          /\ InHand(l)' => l \notin dropped'
    BY <1>3, <1>4, <1>5 DEF Kept
  <2>4. \A i, j \in 1..Len(written') : written'[i].line = written'[j].line => i = j
    BY DEF Kept
  <2> QED
    BY <2>1, <2>2, <2>3, <2>4 DEF Kept
<1>8. Ordered'
  <2>1. ASSUME NEW i \in 1..m_size', NEW j \in 1..m_size', Later(Contents'[i], Contents'[j])
        PROVE  j < i
    <3>1. ~Later(x, x) /\ m_size \in Nat
      BY <1>1, LineParts, Bounds DEF Later
    <3>2. j \in 1..m_size
      BY <1>1, <1>2, <1>6, <2>1, <3>1
    <3>3. CASE i \in 1..m_size
      BY <1>1, <2>1, <3>2, <3>3 DEF Ordered
    <3>4. CASE i = m_size + 1
      BY <1>1, <3>2, <3>4
    <3> QED
      BY <1>2, <3>3, <3>4
  <2>2. ASSUME NEW l \in Lines, NEW i \in 1..m_size', InHand(l)'
        PROVE  ~Later(l, Contents'[i])
    <3>1. InHand(l) /\ l \in Logged
      BY <1>3, <2>2 DEF Kept
    <3> QED
      BY <1>1, <1>2, <3>1 DEF Ordered
  <2>3. ASSUME NEW i \in 1..Len(written), NEW l \in Lines,
               InQueue(l)' \/ InHand(l)', Later(written[i].line, l)
        PROVE  Past(i)'
    <3>1. l # x
      <4>1. written[i].line \in Lines /\ InFile(written[i].line)
        BY WrittenLines DEF InFile
      <4> QED
        BY <2>3, <4>1 DEF Kept
    <3> QED
      BY <1>3, <1>4, <2>3, <3>1 DEF Ordered, Past
  <2>4. \A i, j \in 1..Len(written) :
          i < j /\ Later(written[i].line, written[j].line) => Past(i)'
    BY DEF Ordered, Past
  <2> QED
    BY <2>1, <2>2, <2>3, <2>4 DEF Ordered, Later
<1> QED
  BY <1>7, <1>8

\* The flusher takes the oldest line of the queue in hand.
LEMMA LineTaken ==
  ASSUME Types, Kept, Ordered, Logged' = Logged,
         UNCHANGED <<written, dropped, m_is_async>>, Contents # <<>>,
         Contents' = Tail(Contents), m_size' = m_size - 1,
         at[Flusher] = "pop", at'[Flusher] = "fputs", taken'[Flusher] = Head(Contents)
  PROVE  Kept' /\ Ordered'
<1>1. /\ m_size \in Nat /\ m_size >= 1 /\ Contents \in Seq(Lines) /\ Len(Contents) = m_size
      /\ \A i \in 1..m_size : Contents[i] \in Lines
  BY QueuedLines, EmptySeq
<1>2. /\ taken'[Flusher] = Contents[1] /\ Contents[1] \in Lines
      /\ \A i \in 1..m_size' : Contents'[i] = Contents[i + 1] /\ i + 1 \in 1..m_size
  BY <1>1, HeadTailProperties
<1>3. \A l : /\ InFile(l)' <=> InFile(l)
             /\ InHand(l)' <=> l = Contents[1]
             /\ ~InHand(l)
  BY <1>2 DEF InFile, InHand
<1>4. \A l : InQueue(l)' <=> InQueue(l) /\ l # Contents[1]
  <2> SUFFICES ASSUME NEW l PROVE InQueue(l)' <=> InQueue(l) /\ l # Contents[1]
    OBVIOUS
  <2>1. ASSUME InQueue(l)' PROVE InQueue(l) /\ l # Contents[1]
    <3>1. PICK i \in 1..m_size' : Contents'[i] = l
      BY <2>1 DEF InQueue
    <3>2. i + 1 \in 1..m_size /\ Contents[i + 1] = l /\ i + 1 # 1 /\ 1 \in 1..m_size
      BY <1>1, <1>2, <3>1
    <3> QED
      BY <3>2 DEF InQueue, Kept
  <2>2. ASSUME InQueue(l), l # Contents[1] PROVE InQueue(l)'
    <3>1. PICK i \in 1..m_size : Contents[i] = l
      BY <2>2 DEF InQueue
    <3>2. i - 1 \in 1..m_size'
      BY <1>1, <2>2, <3>1
    <3>3. Contents'[i - 1] = l
      <4>1. (i - 1) + 1 = i
        OBVIOUS
      <4>2. Contents'[i - 1] = Contents[(i - 1) + 1]
        BY <1>2, <3>2
      <4> QED
        BY <3>1, <4>1, <4>2
    <3> QED
      BY <3>2, <3>3 DEF InQueue
  <2> QED
    BY <2>1, <2>2
<1>5. InQueue(Contents[1])
  BY <1>1 DEF InQueue
<1>6. Kept'
  <2>1. \A i, j \in 1..m_size' : Contents'[i] = Contents'[j] => i = j
    <3> SUFFICES ASSUME NEW i \in 1..m_size', NEW j \in 1..m_size', Contents'[i] = Contents'[j]
                 PROVE  i = j
      OBVIOUS
    <3>1. /\ i + 1 \in 1..m_size /\ j + 1 \in 1..m_size
          /\ Contents[i + 1] = Contents[j + 1]
      BY <1>2
    <3>2. i + 1 = j + 1
      BY <3>1 DEF Kept
    <3> QED
      BY <3>2
  <2>2. \A l \in Lines :
          l \in Logged' <=> (InFile(l) \/ InQueue(l) \/ InHand(l) \/ l \in dropped)'
    BY <1>3, <1>4, <1>5 DEF Kept
  <2>3. \A l \in Lines :
          /\ InFile(l)' => ~InQueue(l)' /\ ~InHand(l)' /\ l \notin dropped'
          /\ InQueue(l)' => ~InHand(l)' /\ l \notin dropped'
          /\ InHand(l)' => l \notin dropped'
    BY <1>2, <1>3, <1>4, <1>5 DEF Kept
  <2>4. \A i, j \in 1..Len(written') : written'[i].line = written'[j].line => i = j
    BY DEF Kept
  <2> QED
    BY <2>1, <2>2, <2>3, <2>4 DEF Kept
<1>7. Ordered'
  <2>1. ASSUME NEW i \in 1..m_size', NEW j \in 1..m_size', Later(Contents'[i], Contents'[j])
        PROVE  j < i
    <3>1. j + 1 < i + 1
      BY <1>2, <2>1 DEF Ordered
    <3> QED
      BY <3>1
  <2>2. ASSUME NEW l \in Lines, NEW i \in 1..m_size', InHand(l)'
        PROVE  ~Later(l, Contents'[i])
    <3>1. l = Contents[1] /\ Contents'[i] = Contents[i + 1] /\ i + 1 \in 1..m_size
      BY <1>2, <1>3, <2>2
    <3>2. 1 \in 1..m_size /\ ~(i + 1 < 1)
      BY <1>1
    <3> QED
      BY <3>1, <3>2 DEF Ordered
  <2>3. ASSUME NEW i \in 1..Len(written), NEW l \in Lines,
               InQueue(l)' \/ InHand(l)', Later(written[i].line, l)
        PROVE  Past(i)'
    <3>1. InQueue(l)
      BY <1>3, <1>4, <1>5, <2>3
    <3> QED
      BY <2>3, <3>1 DEF Ordered, Past
  <2>4. \A i, j \in 1..Len(written) :
          i < j /\ Later(written[i].line, written[j].line) => Past(i)'
    BY DEF Ordered, Past
  <2> QED
    BY <2>1, <2>2, <2>3, <2>4 DEF Ordered, Later
<1> QED
  BY <1>6, <1>7

\* fputs, by the flusher of the line in its hands or by a writer of its own.
LEMMA LineWritten ==
  ASSUME Types, Kept, Ordered, NEW x \in Lines, NEW t \in Threads, Fputs(x, t),
         UNCHANGED <<Contents, m_size, dropped, m_is_async>>,
         \A l \in Lines : l \in Logged' <=> l \in Logged \/ l = x,
         \A l \in Lines : InHand(l)' <=> InHand(l) /\ l # x,
         ~InFile(x), ~InQueue(x), x \notin dropped,
         \A l \in Lines :
           (InQueue(l) \/ InHand(l)') /\ Later(x, l) => t = x[1] /\ m_is_async,
         \A i \in 1..Len(written) : Later(written[i].line, x) => Past(i)
  PROVE  Kept' /\ Ordered'
<1>1. /\ Len(written) \in Nat /\ Len(written') = Len(written) + 1
      /\ \A i \in 1..Len(written) : written'[i] = written[i] /\ written[i].line \in Lines
      /\ written'[Len(written) + 1] = [line |-> x, file |-> m_fp, by |-> t]
  BY FputsTypes, WrittenLines
<1>2. ASSUME NEW i \in 1..Len(written')
      PROVE  i \in 1..Len(written) \/ i = Len(written) + 1
  BY <1>1
<1>3. written'[Len(written) + 1].line = x /\ written'[Len(written) + 1].by = t
  BY <1>1
<1>4. \A l : InQueue(l)' <=> InQueue(l)
  BY DEF InQueue
<1>5. \A l : InFile(l)' <=> InFile(l) \/ l = x
  <2> SUFFICES ASSUME NEW l PROVE InFile(l)' <=> InFile(l) \/ l = x
    OBVIOUS
  <2>1. InFile(l) => InFile(l)'
    <3>1. \A i \in 1..Len(written) : i \in 1..Len(written')
      BY <1>1
    <3> QED
      BY <1>1, <3>1 DEF InFile
  <2>2. l = x => InFile(l)'
    <3>1. Len(written) + 1 \in 1..Len(written')
      BY <1>1
    <3> QED
      BY <1>3, <3>1 DEF InFile
  <2>3. InFile(l)' => InFile(l) \/ l = x
    BY <1>1, <1>2, <1>3 DEF InFile
  <2> QED
    BY <2>1, <2>2, <2>3
<1>6. \A i \in 1..Len(written) : written[i].line # x
  BY DEF InFile
<1>7. Kept'
  <2>1. \A i, j \in 1..m_size' : Contents'[i] = Contents'[j] => i = j
    BY DEF Kept
  <2>2. \A l \in Lines :
          l \in Logged' <=> (InFile(l) \/ InQueue(l) \/ InHand(l) \/ l \in dropped)'
    BY <1>4, <1>5 DEF Kept
  <2>3. \A l \in Lines :
          /\ InFile(l)' => ~InQueue(l)' /\ ~InHand(l)' /\ l \notin dropped'
          /\ InQueue(l)' => ~InHand(l)' /\ l \notin dropped'
          /\ InHand(l)' => l \notin dropped'
    BY <1>4, <1>5 DEF Kept
  <2>4. ASSUME NEW i \in 1..Len(written'), NEW j \in 1..Len(written'),
               written'[i].line = written'[j].line
        PROVE  i = j
    BY <1>1, <1>2, <1>3, <1>6, <2>4 DEF Kept
  <2> QED
    BY <2>1, <2>2, <2>3, <2>4 DEF Kept
<1>8. \A i \in 1..Len(written) : Past(i)' <=> Past(i)
  BY <1>1 DEF Past
<1>9. Ordered'
  <2>1. \A i, j \in 1..m_size' : Later(Contents'[i], Contents'[j]) => j < i
    BY DEF Ordered
  <2>2. ASSUME NEW l \in Lines, NEW i \in 1..m_size', InHand(l)'
        PROVE  ~Later(l, Contents'[i])
    BY <2>2 DEF Ordered
  <2>3. ASSUME NEW i \in 1..Len(written'), NEW l \in Lines,
               InQueue(l)' \/ InHand(l)', Later(written'[i].line, l)
        PROVE  Past(i)'
    <3>1. CASE i \in 1..Len(written)
      BY <1>1, <1>4, <1>8, <2>3, <3>1 DEF Ordered
    <3>2. CASE i = Len(written) + 1
      BY <1>3, <1>4, <2>3, <3>2 DEF Past
    <3> QED
      BY <1>2, <3>1, <3>2
  <2>4. ASSUME NEW i \in 1..Len(written'), NEW j \in 1..Len(written'),
               i < j, Later(written'[i].line, written'[j].line)
        PROVE  Past(i)'
    <3>1. i \in 1..Len(written)
      BY <1>1, <1>2, <2>4
    <3>2. CASE j \in 1..Len(written)
      BY <1>1, <1>8, <2>4, <3>1, <3>2 DEF Ordered
    <3>3. CASE j = Len(written) + 1
      BY <1>1, <1>3, <1>8, <2>4, <3>1, <3>3
    <3> QED
      BY <1>2, <3>2, <3>3
  <2> QED
    BY <2>1, <2>2, <2>3, <2>4 DEF Ordered
<1> QED
  BY <1>7, <1>9

-----------------------------------------------------------------------------
(***************************************************************************)
(* The steps of the log: each is one of the moves above.                   *)
(***************************************************************************)

LEMMA AccountsInit == Init => Accounts
<1> SUFFICES ASSUME Init PROVE Accounts
  OBVIOUS
<1>1. Types /\ Len(written) = 0 /\ m_size = 0 /\ dropped = {}
  BY TypesInit DEF Init, QueueInit
<1>2. \A l : ~InFile(l) /\ ~InQueue(l)
  BY <1>1 DEF InFile, InQueue
<1>3. \A l : ~InHand(l)
  BY Bounds DEF Init, InHand
<1>4. Logged = {}
  <2>1. \A w \in Writers : no[w] = 1 /\ at[w] = "idle"
    BY Bounds DEF Init
  <2>2. \A l \in Lines : ~(l[2] < no[l[1]] + (IF at[l[1]] = "flush" THEN 1 ELSE 0))
    BY <2>1, LineParts, Bounds
  <2> QED
    BY <2>2 DEF Logged
<1>5. Kept
  BY <1>1, <1>2, <1>3, <1>4 DEF Kept
<1>6. Ordered
  BY <1>1, <1>2, <1>3 DEF Ordered
<1> QED
  BY <1>1, <1>5, <1>6 DEF Accounts

\* What a thread that is not at push() leaves of the queue.
LEMMA QueueSame ==
  ASSUME Types, PushFails \/ UNCHANGED queueVars \/ PopWaits(Flusher) \/ Spurious(Flusher)
  PROVE  UNCHANGED <<Contents, m_size, taken>>
<1>1. Contents' = Contents /\ taken' = taken
  BY OthersCorrect, Bounds DEF Types, LogTypes
<1>2. m_size' = m_size
  BY DEF PushFails, PopWaits, Spurious, queueVars, ring
<1> QED
  BY <1>1, <1>2

LEMMA StepKeeps ==
  ASSUME Accounts, [Next]_vars
  PROVE  Kept' /\ Ordered'
<1> USE Bounds
<1>0. Types /\ Kept /\ Ordered /\ at = [t \in Threads |-> at[t]] /\ Flusher \in Threads
  BY DEF Accounts, Types, Threads
<1>1. CASE Midnight \/ UNCHANGED vars
  <2>1. /\ UNCHANGED <<written, dropped, m_is_async, at, no>>
        /\ UNCHANGED queueVars
    BY <1>1 DEF Midnight, vars, logVars
  <2> QED
    BY <1>0, <2>1, QueueSame, LoggedSame, NoLineMoves
<1>2. ASSUME NEW w \in Writers, Begin(w) \/ Count(w) \/ Choose(w)
      PROVE  Kept' /\ Ordered'
  <2>1. UNCHANGED <<written, dropped, m_is_async, no>> /\ UNCHANGED queueVars
    BY <1>2 DEF Begin, Count, Choose
  <2>2. PICK place \in {"count", "choose", "push", "fputs"} :
          at' = [at EXCEPT ![w] = place] /\ at[w] # "flush"
    BY <1>2 DEF Begin, Count, Choose, Goto
  <2>3. /\ at'[Flusher] = at[Flusher]
        /\ \A v \in Writers : at'[v] = "flush" <=> at[v] = "flush"
    BY <1>0, <2>2 DEF Threads
  <2> QED
    BY <1>0, <2>1, <2>3, QueueSame, LoggedSame, NoLineMoves
<1>3. ASSUME NEW w \in Writers, Flush(w)
      PROVE  Kept' /\ Ordered'
  <2>1. UNCHANGED <<written, dropped, m_is_async>> /\ UNCHANGED queueVars
    BY <1>3 DEF Flush
  <2>2. at'[Flusher] = at[Flusher]
    BY <1>0, <1>3 DEF Flush, Goto
  <2> QED
    BY <1>0, <1>3, <2>1, <2>2, QueueSame, LoggedFlush, NoLineMoves
<1>4. ASSUME NEW w \in Writers, PushLine(w)
      PROVE  Kept' /\ Ordered'
  <2>1. /\ UNCHANGED <<written, m_is_async, no>> /\ Goto(w, "flush") /\ at[w] = "push"
        /\ Line(w) \in Lines
    BY <1>0, <1>4, OwnLine DEF PushLine
  <2>2. at'[Flusher] = at[Flusher]
    BY <1>0, <2>1 DEF Goto
  <2>3. /\ Line(w) \notin Logged
        /\ \A l \in Lines : l \in Logged' <=> l \in Logged \/ l = Line(w)
        /\ \A l \in Logged : ~Later(l, Line(w))
    BY <1>0, <2>1, LoggedOne
  <2>4. CASE Push(Line(w)) /\ UNCHANGED dropped
    <3>1. /\ Contents' = Append(Contents, Line(w)) /\ m_size' = m_size + 1
          /\ taken' = taken
      BY <1>0, <2>1, <2>4, PushCorrect DEF Types, LogTypes, Push
    <3> QED
      BY <1>0, <2>1, <2>2, <2>3, <2>4, <3>1, LineQueued
  <2>5. CASE PushFails /\ dropped' = dropped \cup {Line(w)}
    <3>1. UNCHANGED <<Contents, m_size, taken>>
      BY <1>0, <2>5, QueueSame
    <3> QED
      BY <1>0, <2>1, <2>2, <2>3, <2>5, <3>1, LineRefused
  <2> QED
    BY <1>4, <2>4, <2>5 DEF PushLine
<1>5. ASSUME NEW w \in Writers, WriteLine(w)
      PROVE  Kept' /\ Ordered'
  <2> DEFINE x == Line(w)
  <2>1. /\ UNCHANGED <<dropped, m_is_async, no>> /\ Goto(w, "flush") /\ at[w] = "fputs"
        /\ Fputs(x, w) /\ x \in Lines /\ w \in Threads /\ x[1] = w
        /\ UNCHANGED queueVars
    BY <1>0, <1>5, OwnLine DEF WriteLine, Threads
  <2>2. UNCHANGED <<Contents, m_size, taken>>
    BY <1>0, <2>1, QueueSame
  <2>3. /\ x \notin Logged
        /\ \A l \in Lines : l \in Logged' <=> l \in Logged \/ l = x
        /\ \A l \in Logged : ~Later(l, x)
    BY <1>0, <2>1, LoggedOne
  <2>4. ~InFile(x) /\ ~InQueue(x) /\ ~InHand(x) /\ x \notin dropped
    BY <1>0, <2>1, <2>3 DEF Kept
  <2>5. \A l : InHand(l)' <=> InHand(l)
    BY <1>0, <2>1, <2>2 DEF Goto, InHand
  <2>6. \A l \in Lines : InQueue(l) \/ InHand(l) => m_is_async
    BY <1>0 DEF Types, InQueue, InHand
  <2>7. \A i \in 1..Len(written) : ~Later(written[i].line, x)
    <3> SUFFICES ASSUME NEW i \in 1..Len(written) PROVE ~Later(written[i].line, x)
      OBVIOUS
    <3>1. written[i].line \in Lines /\ InFile(written[i].line)
      BY <1>0, WrittenLines DEF InFile
    <3>2. written[i].line \in Logged
      BY <1>0, <3>1 DEF Kept
    <3> QED
      BY <2>3, <3>2
  <2> HIDE DEF x
  <2> QED
    BY <1>0, <2>1, <2>2, <2>3, <2>4, <2>5, <2>6, <2>7, LineWritten
<1>6. CASE FlusherWaits
  <2>1. /\ UNCHANGED <<written, dropped, m_is_async, at, no>>
        /\ PopWaits(Flusher) \/ Spurious(Flusher)
    BY <1>6 DEF FlusherWaits, logVars
  <2> QED
    BY <1>0, <2>1, QueueSame, LoggedSame, NoLineMoves
<1>7. CASE FlusherPops
  <2>1. /\ UNCHANGED <<written, dropped, m_is_async, no>> /\ Pop(Flusher)
        /\ Goto(Flusher, "fputs") /\ at[Flusher] = "pop"
    BY <1>7 DEF FlusherPops
  <2>2. at'[Flusher] = "fputs" /\ \A w \in Writers : at'[w] = at[w]
    BY <1>0, <2>1 DEF Goto, Threads
  <2>3. /\ Contents # <<>> /\ Contents' = Tail(Contents)
        /\ taken' = [taken EXCEPT ![Flusher] = Head(Contents)]
        /\ taken \in [Readers -> Items \cup {NoItem}]
    BY <1>0, <2>1, PopCorrect DEF Types, LogTypes, RingOK
  <2>4. taken'[Flusher] = Head(Contents) /\ m_size' = m_size - 1
    BY <2>1, <2>3 DEF Pop
  <2>5. Logged' = Logged
    BY <2>1, <2>2, LoggedSame
  <2> QED
    BY <1>0, <2>1, <2>2, <2>3, <2>4, <2>5, LineTaken
<1>8. CASE FlusherWrites
  <2> DEFINE x == taken[Flusher]
  <2>1. /\ UNCHANGED <<dropped, m_is_async, no>> /\ Goto(Flusher, "pop")
        /\ at[Flusher] = "fputs" /\ Fputs(x, Flusher) /\ x \in Lines
        /\ UNCHANGED queueVars
    BY <1>0, <1>8 DEF FlusherWrites, Types
  <2>2. UNCHANGED <<Contents, m_size, taken>>
    BY <1>0, <2>1, QueueSame
  <2>3. at'[Flusher] = "pop" /\ \A w \in Writers : at'[w] = at[w]
    BY <1>0, <2>1 DEF Goto, Threads
  <2>4. Logged' = Logged /\ InHand(x) /\ \A l : InHand(l) => l = x
    BY <2>1, <2>3, LoggedSame DEF InHand
  <2>5. ~InFile(x) /\ ~InQueue(x) /\ x \notin dropped /\ x \in Logged
    BY <1>0, <2>1, <2>4 DEF Kept
  <2>6. \A l : ~InHand(l)'
    BY <2>3 DEF InHand
  <2>7. \A l \in Lines : InQueue(l) => ~Later(x, l)
    BY <1>0, <2>1, <2>4 DEF Ordered, InQueue
  <2>8. \A i \in 1..Len(written) : Later(written[i].line, x) => Past(i)
    BY <1>0, <2>1, <2>4 DEF Ordered
  <2> HIDE DEF x
  <2> QED
    BY <1>0, <2>1, <2>2, <2>4, <2>5, <2>6, <2>7, <2>8, LineWritten
<1> QED
  BY <1>1, <1>2, <1>3, <1>4, <1>5, <1>6, <1>7, <1>8 DEF Next, WriterStep

LEMMA AccountsInductive == Accounts /\ [Next]_vars => Accounts'
  BY StepKeeps, TypesInductive DEF Accounts

\* The number of places is what the four predicates say.
LEMMA AtMostOne ==
  ASSUME NEW S, \A i, j \in S : i = j
  PROVE  Cardinality(S) = IF S = {} THEN 0 ELSE 1
<1>1. CASE S = {}
  BY <1>1, FS_EmptySet
<1>2. CASE S # {}
  <2>1. PICK i \in S : TRUE
    BY <1>2
  <2>2. S = {i}
    BY <2>1
  <2> QED
    BY <1>2, <2>2, FS_Singleton
<1> QED
  BY <1>1, <1>2

LEMMA LinesAccounted == Accounts => LinesKept
<1> SUFFICES ASSUME Accounts PROVE LinesKept
  OBVIOUS
<1>0. Types /\ Kept /\ Ordered
  BY DEF Accounts
<1>1. /\ Len(written) \in Nat /\ DOMAIN written = 1..Len(written) /\ m_size \in Nat
      /\ \A i \in 1..Len(written) : written[i].line \in Lines
  BY <1>0, WrittenLines, QueuedLines
<1>2. ASSUME NEW l \in Lines
      PROVE  Places(l) = IF l \in Logged THEN 1 ELSE 0
  <2>1. Cardinality({i \in 1..Len(written) : written[i].line = l})
          = IF InFile(l) THEN 1 ELSE 0
    <3> DEFINE S == {i \in 1..Len(written) : written[i].line = l}
    <3>1. (\A i, j \in S : i = j) /\ (S = {} <=> ~InFile(l))
      BY <1>0 DEF Kept, InFile
    <3> HIDE DEF S
    <3>2. Cardinality(S) = IF S = {} THEN 0 ELSE 1
      BY <3>1, AtMostOne
    <3> QED
      BY <3>1, <3>2 DEF S
  <2>2. Cardinality({i \in 1..m_size : Contents[i] = l}) = IF InQueue(l) THEN 1 ELSE 0
    <3> DEFINE S == {i \in 1..m_size : Contents[i] = l}
    <3>1. (\A i, j \in S : i = j) /\ (S = {} <=> ~InQueue(l))
      BY <1>0 DEF Kept, InQueue
    <3> HIDE DEF S
    <3>2. Cardinality(S) = IF S = {} THEN 0 ELSE 1
      BY <3>1, AtMostOne
    <3> QED
      BY <3>1, <3>2 DEF S
  <2>3. Places(l) = (IF InFile(l) THEN 1 ELSE 0) + (IF InQueue(l) THEN 1 ELSE 0)
                      + (IF InHand(l) THEN 1 ELSE 0) + (IF l \in dropped THEN 1 ELSE 0)
    BY <1>1, <2>1, <2>2 DEF Places, InHand
  <2> QED
    BY <1>0, <2>3 DEF Kept
<1>3. OrderKept
  <2> SUFFICES ASSUME NEW i \in 1..Len(written), NEW j \in 1..Len(written),
                      written[i].line[1] = written[j].line[1],
                      written[i].line[2] > written[j].line[2], i < j
               PROVE  written[i].by = written[i].line[1] /\ m_is_async
    BY <1>1 DEF OrderKept
  <2> QED
    BY <1>0 DEF Ordered, Later, Past
<1> QED
  BY <1>2, <1>3 DEF LinesKept, OnePlace

\* Each line that a thread logged is in the file, in the queue, in the hands of
\* the flusher or refused by push(), once, and only a line that found the queue
\* full is written ahead of an earlier one of its thread.
THEOREM LinesAlwaysKept == Spec => []LinesKept
  BY AccountsInit, AccountsInductive, LinesAccounted, PTL DEF Spec

-----------------------------------------------------------------------------
(***************************************************************************)
(* Which file the lines are in, and whether they have left the buffer.     *)
(***************************************************************************)

\* A line its own thread wrote was flushed before the thread turned to the
\* next one: what the thread did since cannot have undone that.
LEMMA DurableInductive == Types /\ DurableAtReturn /\ [Next]_vars => DurableAtReturn'
<1> SUFFICES ASSUME Types, DurableAtReturn, [Next]_vars PROVE DurableAtReturn'
  OBVIOUS
<1> USE Bounds
<1>1. /\ Len(written) \in Nat /\ DOMAIN written = 1..Len(written)
      /\ flushed \in Nat /\ flushed =< Len(written)
      /\ \A i \in 1..Len(written) : written[i].line \in Lines
      /\ no \in [Writers -> Nat]
  BY WrittenLines DEF Types, LogTypes
<1>2. CASE UNCHANGED <<written, flushed, no>>
  BY <1>2 DEF DurableAtReturn
<1>3. ASSUME NEW w \in Writers, Count(w) PROVE DurableAtReturn'
  <2>1. UNCHANGED <<written, no>> /\ flushed' \in {flushed, Len(written)}
    BY <1>3 DEF Count
  <2> QED
    BY <1>1, <2>1 DEF DurableAtReturn
<1>4. ASSUME NEW w \in Writers, Flush(w) PROVE DurableAtReturn'
  <2>1. written' = written /\ flushed' = Len(written)
    BY <1>4 DEF Flush
  <2> QED
    BY <1>1, <2>1 DEF DurableAtReturn
<1>5. ASSUME NEW x \in Lines, NEW t \in Threads, Fputs(x, t), UNCHANGED <<flushed, no>>,
             t = Flusher \/ x[2] = no[x[1]]
      PROVE  DurableAtReturn'
  <2>1. /\ Len(written') = Len(written) + 1 /\ DOMAIN written' = 1..Len(written')
        /\ \A i \in 1..Len(written) : written'[i] = written[i]
        /\ written'[Len(written) + 1].line = x /\ written'[Len(written) + 1].by = t
    <3>1. written'[Len(written) + 1] = [line |-> x, file |-> m_fp, by |-> t]
      BY <1>5, FputsTypes
    <3> QED
      BY <1>5, <3>1, FputsTypes
  <2>2. x[1] \in Writers /\ x[2] \in Nat
    BY LineParts
  <2> SUFFICES ASSUME NEW i \in DOMAIN written', written'[i].by # Flusher,
                      written'[i].line[2] < no[written'[i].line[1]]
               PROVE  i =< flushed
    BY <1>5 DEF DurableAtReturn
  <2>3. CASE i \in 1..Len(written)
    BY <1>1, <2>1, <2>3 DEF DurableAtReturn
  <2>4. CASE i = Len(written) + 1
    BY <1>1, <1>5, <2>1, <2>2, <2>4
  <2> QED
    BY <1>1, <2>1, <2>3, <2>4
<1>6. ASSUME NEW w \in Writers, WriteLine(w) PROVE DurableAtReturn'
  <2>1. /\ Line(w) \in Lines /\ w \in Threads /\ Line(w)[2] = no[Line(w)[1]]
        /\ Fputs(Line(w), w) /\ UNCHANGED <<flushed, no>>
    BY <1>6, OwnLine DEF WriteLine, Threads
  <2> QED
    BY <1>5, <2>1
<1>7. CASE FlusherWrites
  <2>1. /\ taken[Flusher] \in Lines /\ Flusher \in Threads
        /\ Fputs(taken[Flusher], Flusher) /\ UNCHANGED <<flushed, no>>
    BY <1>7 DEF FlusherWrites, Types, Threads
  <2> QED
    BY <1>5, <2>1
<1>8. ASSUME NEW w \in Writers, Begin(w) \/ Choose(w) \/ PushLine(w)
      PROVE  UNCHANGED <<written, flushed, no>>
  BY <1>8 DEF Begin, Choose, PushLine
<1>9. CASE Midnight \/ FlusherWaits \/ FlusherPops \/ UNCHANGED vars
  BY <1>2, <1>9 DEF Midnight, FlusherWaits, FlusherPops, vars, logVars
<1> QED
  BY <1>2, <1>3, <1>4, <1>6, <1>7, <1>8, <1>9 DEF Next, WriterStep

\* The writers that have counted a line and not yet written it.
Pending == {w \in Writers : at[w] \in {"choose", "fputs"}}

\* What SplitKept needs in order to be inductive: without a queue every line
\* counted is in the file or pending, so that the position of a line in the
\* history is a number that m_count had at most a round of the writers before,
\* and the number of a file is the quotient it had when the file was opened.
Counted ==
  ~m_is_async /\ day = 1 =>
    /\ m_fp = <<1, m_count \div m_split_lines>>
    /\ m_count = Len(written) + Cardinality(Pending)
    /\ \A i \in 1..Len(written) :
         /\ written[i].file[1] = 1
         /\ m_split_lines * written[i].file[2] - Cardinality(Writers) < i
         /\ i < m_split_lines * written[i].file[2] + m_split_lines

LEMMA PendingFinite ==
  /\ IsFiniteSet(Writers) /\ IsFiniteSet(Pending) /\ Pending \subseteq Writers
  /\ Cardinality(Writers) \in Nat /\ Cardinality(Pending) \in Nat
  /\ Cardinality(Pending) =< Cardinality(Writers)
<1>1. IsFiniteSet(Writers) /\ Pending \subseteq Writers
  BY LogAssumption DEF LogAssumption, Pending
<1> QED
  BY <1>1, FS_Subset, FS_CardinalityType

\* The quotient changes only where the remainder is nothing.
LEMMA SameQuotient ==
  ASSUME NEW n \in Nat, NEW s \in Nat, s >= 1, (n + 1) % s # 0
  PROVE  (n + 1) \div s = n \div s
<1> DEFINE q == n \div s
           p == (n + 1) \div s
<1>1. q \in Nat /\ s * q =< n /\ n < s * q + s
  BY Division
<1>2. n + 1 \in Nat
  OBVIOUS
<1>3. p \in Nat /\ s * p =< n + 1 /\ n + 1 < s * p + s
  BY <1>2, Division
<1>4. n + 1 = s * p + ((n + 1) % s)
  BY <1>2
<1>5. (n + 1) % s \in Nat
  BY <1>2
<1> HIDE DEF p, q
<1>6. s * p \in Nat /\ s * q \in Nat
  BY <1>1, <1>3
<1>7. s * p =< n
  BY <1>3, <1>4, <1>5, <1>6
<1>8. ~(p < q)
  <2>1. p < q => s * p + s =< s * q
    BY <1>1, <1>3
  <2> QED
    BY <1>1, <1>3, <1>6, <2>1
<1>9. ~(q < p)
  <2>1. q < p => s * q + s =< s * p
    BY <1>1, <1>3
  <2> QED
    BY <1>1, <1>6, <1>7, <2>1
<1> QED
  BY <1>1, <1>3, <1>8, <1>9 DEF p, q

LEMMA CountedInit == Init => Counted
<1> SUFFICES ASSUME Init PROVE Counted
  OBVIOUS
<1>1. Pending = {} /\ Len(written) = 0 /\ m_count = 0 /\ m_fp = <<1, 0>>
  BY Bounds DEF Init, Pending
<1>2. 0 \div m_split_lines = 0
  BY Bounds
<1> QED
  BY <1>1, <1>2, FS_EmptySet DEF Counted

LEMMA CountedInductive == Types /\ Counted /\ [Next]_vars => Counted'
<1> SUFFICES ASSUME Types, Counted, [Next]_vars, ~m_is_async', day' = 1 PROVE Counted'
  BY DEF Counted
<1> USE Bounds
<1>1. UNCHANGED m_is_async
  BY DEF Next, WriterStep, Midnight, Begin, Count, Choose, PushLine, WriteLine, Flush,
         FlusherWaits, FlusherPops, FlusherWrites, vars, logVars
<1>2. /\ ~m_is_async /\ day = 1 /\ ~Midnight
      /\ m_size = 0 /\ at[Flusher] = "pop" /\ \A w \in Writers : at[w] # "push"
  <2>1. ~m_is_async
    BY <1>1
  <2>2. day' = day \/ Midnight
    BY DEF Next, WriterStep, Begin, Count, Choose, PushLine, WriteLine, Flush,
           FlusherWaits, FlusherPops, FlusherWrites, vars, logVars
  <2>3. day \in Nat /\ day >= 1
    BY DEF Types, LogTypes
  <2> QED
    BY <2>1, <2>2, <2>3 DEF Types, Midnight
<1>3. /\ m_fp = <<1, m_count \div m_split_lines>>
      /\ m_count = Len(written) + Cardinality(Pending)
      /\ m_count \in Nat /\ Len(written) \in Nat
  BY <1>2, WrittenLines DEF Counted, Types, LogTypes
<1>4. \A w \in Writers : w \in Threads
  BY DEF Threads
<1>5. ASSUME UNCHANGED <<m_fp, m_count, written, Pending>> PROVE Counted'
  BY <1>2, <1>5 DEF Counted
<1>6. CASE UNCHANGED vars
  BY <1>5, <1>6 DEF vars, logVars, fileVars, Pending
<1>7. ASSUME NEW w \in Writers, Begin(w) \/ Choose(w) \/ Flush(w) PROVE Counted'
  <2>1. PICK place \in {"count", "fputs", "idle"} :
          /\ at' = [at EXCEPT ![w] = place]
          /\ place = "fputs" <=> at[w] = "choose"
          /\ at[w] # "fputs"
    BY <1>2, <1>7 DEF Begin, Choose, Flush, Goto
  <2>2. Pending' = Pending
    BY <1>4, <2>1 DEF Pending, Types
  <2> QED
    BY <1>5, <1>7, <2>2 DEF Begin, Choose, Flush, fileVars
<1>8. ASSUME NEW w \in Writers, Count(w) PROVE Counted'
  <2>1. m_today = 1 /\ my_tm[w] = 1
    BY <1>2 DEF Types, LogTypes
  <2>2. /\ m_count' = m_count + 1 /\ written' = written
        /\ IF m_count' % m_split_lines = 0
           THEN m_fp' = <<1, m_count' \div m_split_lines>> ELSE m_fp' = m_fp
    BY <1>8, <2>1 DEF Count
  <2>3. m_fp' = <<1, m_count' \div m_split_lines>>
    BY <1>3, <2>2, SameQuotient
  <2>4. Pending' = Pending \cup {w} /\ w \notin Pending
    BY <1>4, <1>8 DEF Count, Goto, Pending, Types
  <2>5. Cardinality(Pending') = Cardinality(Pending) + 1
    BY <2>4, PendingFinite, FS_AddElement
  <2> QED
    BY <1>2, <1>3, <2>2, <2>3, <2>5, PendingFinite DEF Counted
<1>9. ASSUME NEW w \in Writers, WriteLine(w) PROVE Counted'
  <2> DEFINE n == Len(written)
             s == m_split_lines
             q == m_count \div s
             before == Cardinality(Pending)
             all == Cardinality(Writers)
  <2>1. /\ Len(written') = n + 1 /\ \A i \in 1..n : written'[i] = written[i]
        /\ written'[n + 1].file = m_fp
    <3>1. Fputs(Line(w), w) /\ Line(w) \in Lines /\ w \in Threads
      BY <1>4, <1>9, OwnLine DEF WriteLine
    <3>2. written'[n + 1] = [line |-> Line(w), file |-> m_fp, by |-> w]
      BY <3>1, FputsTypes
    <3> QED
      BY <3>1, <3>2, FputsTypes
  <2>2. Pending' = Pending \ {w} /\ w \in Pending
    BY <1>4, <1>9 DEF WriteLine, Goto, Pending, Types
  <2>3. /\ Cardinality(Pending') = before - 1 /\ before \in Nat /\ before >= 1
        /\ all \in Nat /\ before =< all
    <3>1. Cardinality(Pending') = before - 1 /\ before \in Nat /\ all \in Nat /\ before =< all
      BY <2>2, PendingFinite, FS_RemoveElement
    <3>2. Pending # {} => before # 0
      BY PendingFinite, FS_EmptySet
    <3> QED
      BY <2>2, <3>1, <3>2
  <2>4. q \in Nat /\ s * q =< m_count /\ m_count < s * q + s /\ s * q \in Nat /\ s \in Nat
    BY <1>3, Division
  <2>5. m_fp' = m_fp /\ m_count' = m_count /\ m_fp = <<1, q>>
    BY <1>3, <1>9 DEF WriteLine, fileVars
  <2> HIDE DEF n, q, before, all, s
  <2>6. n \in Nat /\ m_count = n + before
    BY <1>3 DEF n, before
  <2>7. ASSUME NEW i \in 1..(n + 1)
        PROVE  /\ written'[i].file[1] = 1
               /\ s * written'[i].file[2] - all < i
               /\ i < s * written'[i].file[2] + s
    <3>1. CASE i \in 1..n
      BY <1>2, <2>1, <3>1 DEF Counted, n, s, all
    <3>2. CASE i = n + 1
      <4>1. written'[i].file[1] = 1 /\ written'[i].file[2] = q
        BY <2>1, <2>5, <3>2
      <4>2. s * q - all < n + 1 /\ n + 1 < s * q + s
        BY <2>3, <2>4, <2>6
      <4> QED
        BY <3>2, <4>1, <4>2
    <3> QED
      BY <2>6, <3>1, <3>2
  <2>8. m_count' = Len(written') + Cardinality(Pending')
    BY <2>1, <2>3, <2>5, <2>6
  <2> QED
    BY <2>1, <2>5, <2>7, <2>8 DEF Counted, q, s, all
<1>10. ~FlusherWaits /\ ~FlusherPops /\ ~FlusherWrites /\ \A w \in Writers : ~PushLine(w)
  BY <1>2 DEF FlusherWaits, FlusherPops, Pop, FlusherWrites, PushLine
<1> QED
  BY <1>2, <1>6, <1>7, <1>8, <1>9, <1>10 DEF Next, WriterStep

\* The lines of one file have positions less than m_split_lines plus the number
\* of writers apart.
LEMMA CountedSplits == Types /\ Counted => SplitKept
<1> SUFFICES ASSUME Types, Counted, ~m_is_async, day = 1, NEW i \in DOMAIN written
             PROVE  Cardinality({j \in DOMAIN written : written[j].file = written[i].file})
                      < m_split_lines + Cardinality(Writers)
  BY DEF SplitKept
<1> DEFINE same == {j \in DOMAIN written : written[j].file = written[i].file}
           first == m_split_lines * written[i].file[2]
           lo == first - Cardinality(Writers) + 1
           hi == first + m_split_lines - 1
<1>1. /\ DOMAIN written = 1..Len(written) /\ written[i] \in Records /\ Len(written) \in Nat
      /\ m_split_lines \in Nat /\ m_split_lines >= 1 /\ Cardinality(Writers) \in Nat
  BY WrittenLines, Bounds, PendingFinite
<1>2. written[i].file[2] \in Nat
  BY <1>1 DEF Records
<1>3. first \in Nat /\ lo \in Int /\ hi \in Int
  BY <1>1, <1>2
<1>4. same \subseteq lo..hi
  <2> SUFFICES ASSUME NEW j \in same PROVE j \in lo..hi
    OBVIOUS
  <2>1. first - Cardinality(Writers) < j /\ j < first + m_split_lines /\ j \in Nat
    BY <1>1 DEF Counted
  <2> HIDE DEF first, same
  <2> QED
    BY <1>1, <1>3, <2>1
<1> HIDE DEF first, same
<1>5. IsFiniteSet(lo..hi) /\ Cardinality(lo..hi) < m_split_lines + Cardinality(Writers)
  <2>1. Cardinality(lo..hi) = IF lo > hi THEN 0 ELSE hi - lo + 1
    BY <1>3, FS_Interval
  <2>2. IsFiniteSet(lo..hi)
    BY <1>3, FS_Interval
  <2>3. hi - lo + 1 = m_split_lines + Cardinality(Writers) - 1
    BY <1>1, <1>3
  <2> QED
    BY <1>1, <2>1, <2>2, <2>3
<1>6. /\ Cardinality(same) =< Cardinality(lo..hi)
      /\ Cardinality(same) \in Nat /\ Cardinality(lo..hi) \in Nat
  BY <1>4, <1>5, FS_Subset, FS_CardinalityType
<1>7. Cardinality(same) < m_split_lines + Cardinality(Writers)
  BY <1>1, <1>5, <1>6
<1> QED
  BY <1>7 DEF same

\* When a LOG_ macro returns, what its thread wrote is on its way to the disk,
\* and without a queue no file gets more than its m_split_lines lines and one
\* per other writer, whatever other threads do between counting and writing.
THEOREM FilesAlwaysRight == Spec => []FilesRight
<1>1. Init => DurableAtReturn
  BY DEF Init, DurableAtReturn
<1>2. Types /\ DurableAtReturn /\ Counted => FilesRight
  BY CountedSplits DEF FilesRight
<1> QED
  BY <1>1, <1>2, TypesInit, TypesInductive, CountedInit, CountedInductive,
     DurableInductive, PTL DEF Spec

=============================================================================
