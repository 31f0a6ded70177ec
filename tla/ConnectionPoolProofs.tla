------------------------ MODULE ConnectionPoolProofs ------------------------
(***************************************************************************)
(* Proofs about ConnectionPool for any number of workers, connections,     *)
(* objects and signals: a connection is in one place only, none is lost    *)
(* and none is used after it was closed, except those whose guard read     *)
(* another thread's value back from http_conn::mysql; and the semaphore    *)
(* promises at most one connection too many per interrupted wait.          *)
(***************************************************************************)
EXTENDS ConnectionPool, FiniteSetTheorems, TLAPS

\* front() and pop_front() on a non-empty list.
LEMMA PopFront ==
  ASSUME NEW S, NEW q \in Seq(S), q # <<>>
  PROVE  /\ Head(q) = q[1] /\ Head(q) \in S
         /\ Tail(q) \in Seq(S)
         /\ Len(q) \in Nat \ {0}
         /\ Len(Tail(q)) = Len(q) - 1
         /\ \A i \in 1..Len(Tail(q)) : Tail(q)[i] = q[i + 1]
  OBVIOUS

\* push_back().
LEMMA PushBack ==
  ASSUME NEW S, NEW q \in Seq(S), NEW x \in S
  PROVE  /\ Append(q, x) \in Seq(S)
         /\ Len(q) \in Nat
         /\ Len(Append(q, x)) = Len(q) + 1
         /\ \A i \in 1..Len(q) : Append(q, x)[i] = q[i]
         /\ Append(q, x)[Len(q) + 1] = x
  OBVIOUS

\* What is in the list after push_back().
LEMMA ElementsPush ==
  ASSUME NEW S, NEW q \in Seq(S), NEW x \in S
  PROVE  Elements(Append(q, x)) = Elements(q) \cup {x}
BY PushBack DEF Elements

\* What is in the list before pop_front(): the front and the rest.
LEMMA ElementsPop ==
  ASSUME NEW S, NEW q \in Seq(S), q # <<>>
  PROVE  Elements(q) = {Head(q)} \cup Elements(Tail(q))
<1>1. Elements(q) \subseteq {Head(q)} \cup Elements(Tail(q))
  <2> SUFFICES ASSUME NEW i \in 1..Len(q), q[i] # Head(q)
               PROVE  q[i] \in Elements(Tail(q))
    BY DEF Elements
  <2>1. i - 1 \in 1..Len(Tail(q)) /\ Tail(q)[i - 1] = q[i]
    BY PopFront
  <2>2. DOMAIN Tail(q) = 1..Len(Tail(q))
    BY PopFront
  <2> QED
    BY <2>1, <2>2 DEF Elements
<1>2. Head(q) \in Elements(q)
  BY PopFront DEF Elements
<1>3. Elements(Tail(q)) \subseteq Elements(q)
  <2> SUFFICES ASSUME NEW i \in 1..Len(Tail(q)) PROVE Tail(q)[i] \in Elements(q)
    BY PopFront DEF Elements
  <2> QED
    BY PopFront DEF Elements
<1> QED
  BY <1>1, <1>2, <1>3

\* The steps of GetConnection and the constructor before and after the critical
\* section, which leave the list and the counters alone.
Outside(t) ==
  \/ \E o \in Objects : Look(t, o)
  \/ Wait(t) \/ Interrupted(t) \/ Store(t) \/ Post(t)

\* Every step keeps the variables in their types, and a worker's connection
\* between Take and Release.
LEMMA TypeInductive == TypeOK /\ [Next]_vars => TypeOK'
<1> USE PoolAssumption DEF PoolAssumption
<1> SUFFICES ASSUME TypeOK, [Next]_vars PROVE TypeOK'
  OBVIOUS
<1>1. ASSUME NEW t \in Threads, NEW o \in Objects, Look(t, o)
      PROVE  TypeOK'
  BY <1>1 DEF Look, Goto, TypeOK, Places, listVars, endVars
<1>2. ASSUME NEW t \in Threads, Wait(t)
      PROVE  TypeOK'
  BY <1>2 DEF Wait, Goto, TypeOK, Places, endVars
<1>3. ASSUME NEW t \in Threads, Interrupted(t)
      PROVE  TypeOK'
  BY <1>3 DEF Interrupted, Goto, TypeOK, Places, listVars, endVars
<1>4. ASSUME NEW t \in Threads, Take(t)
      PROVE  TypeOK'
  <2>1. /\ at' = [at EXCEPT ![t] = "returned"] /\ at[t] = "granted"
        /\ m_FreeConn' = m_FreeConn - 1 /\ m_CurConn' = m_CurConn + 1
        /\ UNCHANGED <<reserve, destroyed, closed, interrupted, mysql, spoiled, obj>>
    BY <1>4 DEF Take, Goto, endVars
  <2>2. /\ connList' \in Seq(Conns) /\ missing' \in Nat
        /\ \E c \in Conns \cup {NULL} : conRAII' = [conRAII EXCEPT ![t] = c]
    <3>1. CASE connList = <<>>
      <4>1. connList' = connList /\ missing' = missing + 1 /\ conRAII' = conRAII
        BY <1>4, <3>1 DEF Take
      <4>2. conRAII[t] = NULL /\ conRAII = [conRAII EXCEPT ![t] = NULL]
        BY <2>1 DEF TypeOK
      <4> QED
        BY <4>1, <4>2 DEF TypeOK
    <3>2. CASE connList # <<>>
      <4>1. connList' = Tail(connList) /\ missing' = missing
        BY <1>4, <3>2 DEF Take
      <4>2. conRAII' = [conRAII EXCEPT ![t] = Head(connList)]
        BY <1>4, <3>2 DEF Take
      <4>3. Head(connList) \in Conns /\ Tail(connList) \in Seq(Conns)
        BY <3>2, PopFront DEF TypeOK
      <4> QED
        BY <4>1, <4>2, <4>3 DEF TypeOK
    <3> QED
      BY <3>1, <3>2
  <2>3. PICK c \in Conns \cup {NULL} : conRAII' = [conRAII EXCEPT ![t] = c]
    BY <2>2
  <2>4. conRAII' \in [Threads -> Conns \cup {NULL}] /\ at' \in [Threads -> Places]
    BY <2>1, <2>3 DEF TypeOK, Places
  <2>5. \A u \in Threads : /\ conRAII'[u] # NULL => at'[u] \in {"returned", "stored", "holding"}
                           /\ (obj'[u] = NULL) <=> (at'[u] \in {"outside", "holding", "owed"})
    BY <2>1, <2>3 DEF TypeOK
  <2>6. m_FreeConn' \in Int /\ m_CurConn' \in Int
    BY <2>1 DEF TypeOK
  <2> QED
    BY <2>1, <2>2, <2>4, <2>5, <2>6 DEF TypeOK
<1>5. ASSUME NEW t \in Threads, Store(t)
      PROVE  TypeOK'
  <2>1. obj[t] \in Objects
    BY <1>5 DEF Store, TypeOK
  <2> QED
    BY <1>5, <2>1 DEF Store, Goto, TypeOK, Places, listVars, endVars
<1>6. ASSUME NEW t \in Threads, Adopt(t)
      PROVE  TypeOK'
  <2> DEFINE got == mysql[obj[t]]
  <2>1. obj[t] \in Objects
    BY <1>6 DEF Adopt, TypeOK
  <2>2. got \in Conns \cup {NULL} /\ conRAII[t] \in Conns \cup {NULL}
    BY <2>1 DEF TypeOK
  <2>3. spoiled' \subseteq spoiled \cup ({got, conRAII[t]} \ {NULL})
    BY <1>6 DEF Adopt
  <2>4. spoiled' \subseteq Conns
    BY <2>2, <2>3 DEF TypeOK
  <2>5. /\ at' = [at EXCEPT ![t] = "holding"] /\ obj' = [obj EXCEPT ![t] = NULL]
        /\ conRAII' = [conRAII EXCEPT ![t] = got]
        /\ UNCHANGED <<connList, missing, reserve, m_FreeConn, m_CurConn, destroyed, closed,
                       interrupted, mysql>>
    BY <1>6 DEF Adopt, Goto, listVars, endVars
  <2> HIDE DEF got
  <2> QED
    BY <2>2, <2>4, <2>5 DEF TypeOK, Places
<1>7. ASSUME NEW t \in Threads, Release(t)
      PROVE  TypeOK'
  <2>1. /\ conRAII' = [conRAII EXCEPT ![t] = NULL] /\ at[t] = "holding"
        /\ UNCHANGED <<missing, reserve, destroyed, closed, interrupted, mysql, spoiled, obj>>
    BY <1>7 DEF Release, endVars
  <2>2. /\ connList' \in Seq(Conns) /\ m_FreeConn' \in Int /\ m_CurConn' \in Int
        /\ \E p \in {"outside", "owed"} : at' = [at EXCEPT ![t] = p]
    <3>1. CASE conRAII[t] = NULL
      BY <1>7, <3>1 DEF Release, Goto, TypeOK
    <3>2. CASE conRAII[t] # NULL
      <4>1. Append(connList, conRAII[t]) \in Seq(Conns)
        BY <3>2, PushBack DEF TypeOK
      <4>2. /\ connList' = Append(connList, conRAII[t])
            /\ at' = [at EXCEPT ![t] = "owed"]
            /\ m_FreeConn' = m_FreeConn + 1 /\ m_CurConn' = m_CurConn - 1
        BY <1>7, <3>2 DEF Release, Goto
      <4>3. m_FreeConn' \in Int /\ m_CurConn' \in Int
        BY <4>2 DEF TypeOK
      <4> QED
        BY <4>1, <4>2, <4>3
    <3> QED
      BY <3>1, <3>2
  <2>3. conRAII' \in [Threads -> Conns \cup {NULL}] /\ at' \in [Threads -> Places]
    BY <2>1, <2>2 DEF TypeOK, Places
  <2>4. \A u \in Threads : /\ conRAII'[u] # NULL => at'[u] \in {"returned", "stored", "holding"}
                           /\ (obj'[u] = NULL) <=> (at'[u] \in {"outside", "holding", "owed"})
    BY <2>1, <2>2 DEF TypeOK
  <2> QED
    BY <2>1, <2>2, <2>3, <2>4 DEF TypeOK
<1>8. ASSUME NEW t \in Threads, Post(t)
      PROVE  TypeOK'
  BY <1>8 DEF Post, Goto, TypeOK, Places, endVars
<1>9. ASSUME NEW o \in Objects, Reset(o)
      PROVE  TypeOK'
  BY <1>9 DEF Reset, TypeOK, listVars, endVars
<1>10. CASE DestroyPool
  <2>1. Elements(connList) \subseteq Conns
    BY DEF TypeOK, Elements
  <2>2. /\ connList' \in Seq(Conns) /\ m_FreeConn' \in Int /\ m_CurConn' \in Int
        /\ missing' \in Nat /\ closed' \subseteq Conns /\ destroyed' = TRUE
        /\ UNCHANGED <<reserve, interrupted, mysql, spoiled, at, obj, conRAII>>
    <3>1. CASE Size = 0
      BY <1>10, <3>1 DEF DestroyPool, TypeOK, guardVars
    <3>2. CASE Size # 0
      BY <1>10, <2>1, <3>2 DEF DestroyPool, TypeOK, guardVars
    <3> QED
      BY <3>1, <3>2
  <2> QED
    BY <2>2 DEF TypeOK
<1>11. CASE UNCHANGED vars
  BY <1>11 DEF vars, listVars, endVars, guardVars, TypeOK
<1> QED
  BY <1>1, <1>2, <1>3, <1>4, <1>5, <1>6, <1>7, <1>8, <1>9, <1>10, <1>11 DEF Next, Step

\* init() leaves every connection in the list once.
LEMMA InitList ==
  ASSUME Init
  PROVE  /\ Cardinality(Conns) \in Nat
         /\ connList \in Seq(Conns)
         /\ Len(connList) = Cardinality(Conns)
         /\ \A i, j \in DOMAIN connList : i # j => connList[i] # connList[j]
<1>1. Cardinality(Conns) \in Nat
  BY PoolAssumption, FS_CardinalityType DEF PoolAssumption
<1> DEFINE N == Cardinality(Conns)
<1>2. connList \in [1..N -> Conns] /\ Elements(connList) = Conns
  BY DEF Init
<1>3. connList \in Surjection(1..N, Conns)
  BY <1>2 DEF Surjection, Elements
<1>4. IsFiniteSet(1..N) /\ Cardinality(1..N) = N
  BY <1>1, FS_Interval
<1>5. connList \in Injection(1..N, Conns)
  BY <1>3, <1>4, FS_Surjection
<1>6. \A i, j \in 1..N : i # j => connList[i] # connList[j]
  BY <1>5 DEF Injection, IsInjective
<1>7. connList \in Seq(Conns) /\ Len(connList) = N /\ DOMAIN connList = 1..N
  BY <1>1, <1>2
<1> QED
  BY <1>1, <1>6, <1>7

\* All variables of the pool stay in their types; a worker has a connection only
\* from Take to Release, and an object from Look to Adopt.
THEOREM TypeCorrect == Spec => []TypeOK
<1>1. ASSUME Init PROVE TypeOK
  <2>1. connList \in Seq(Conns) /\ Cardinality(Conns) \in Nat
    BY <1>1, InitList
  <2>2. MaxSignals \in Nat /\ NULL \notin Conns \cup Objects
    BY PoolAssumption DEF PoolAssumption
  <2>3. /\ at = [t \in Threads |-> "outside"]
        /\ obj = [t \in Threads |-> NULL] /\ conRAII = [t \in Threads |-> NULL]
        /\ mysql = [o \in Objects |-> NULL]
    BY <1>1 DEF Init
  <2>4. /\ at \in [Threads -> Places]
        /\ obj \in [Threads -> Objects \cup {NULL}] /\ conRAII \in [Threads -> Conns \cup {NULL}]
        /\ mysql \in [Objects -> Conns \cup {NULL}]
        /\ \A t \in Threads : conRAII[t] = NULL /\ obj[t] = NULL /\ at[t] = "outside"
    BY <2>3 DEF Places
  <2>5. /\ missing = 0 /\ reserve = Cardinality(Conns) /\ interrupted = 0
        /\ m_FreeConn = Cardinality(Conns) /\ m_CurConn = 0
        /\ destroyed = FALSE /\ closed = {} /\ spoiled = {}
    BY <1>1 DEF Init
  <2>6. /\ missing \in Nat /\ reserve \in Nat /\ interrupted \in 0..MaxSignals
        /\ m_FreeConn \in Int /\ m_CurConn \in Int
    BY <2>1, <2>2, <2>5
  <2>7. /\ destroyed \in BOOLEAN /\ closed \subseteq Conns /\ (closed # {} => destroyed)
        /\ spoiled \subseteq Conns
    BY <2>5
  <2>8. \A t \in Threads : /\ conRAII[t] # NULL => at[t] \in {"returned", "stored", "holding"}
                           /\ (obj[t] = NULL) <=> (at[t] \in {"outside", "holding", "owed"})
    BY <2>4
  <2> QED
    BY <2>1, <2>4, <2>6, <2>7, <2>8 DEF TypeOK
<1> QED
  BY <1>1, TypeInductive, PTL DEF Spec
-----------------------------------------------------------------------------
\* What adopting the field's value does to the guard's connection and to spoiled:
\* nothing if it is the guard's own, else both connections are spoiled.
LEMMA AdoptSpoils ==
  ASSUME TypeOK, NEW t \in Threads, Adopt(t)
  PROVE  \E got \in Conns \cup {NULL} :
           /\ conRAII' = [conRAII EXCEPT ![t] = got]
           /\ spoiled \subseteq spoiled'
           /\ got = conRAII[t] => spoiled' = spoiled
           /\ got # conRAII[t] => spoiled' = spoiled \cup ({got, conRAII[t]} \ {NULL})
<1>1. obj[t] \in Objects
  BY DEF Adopt, TypeOK
<1>2. mysql[obj[t]] \in Conns \cup {NULL}
  BY <1>1 DEF TypeOK
<1> WITNESS mysql[obj[t]] \in Conns \cup {NULL}
<1> QED
  BY DEF Adopt

\* An exception, once made, stays: no step takes a connection out of spoiled.
LEMMA SpoiledStays ==
  ASSUME TypeOK, [Next]_vars
  PROVE  spoiled \subseteq spoiled'
<1>1. ASSUME NEW t \in Threads, Adopt(t)
      PROVE  spoiled \subseteq spoiled'
  BY <1>1, AdoptSpoils
<1> QED
  BY <1>1 DEF Next, Step, Look, Wait, Interrupted, Take, Store, Release, Post, Reset,
     DestroyPool, vars, guardVars

\* No step puts a connection in two places.
LEMMA ExclusiveInductive == TypeOK /\ Exclusive /\ [Next]_vars => Exclusive'
<1> USE PoolAssumption DEF PoolAssumption
<1> SUFFICES ASSUME TypeOK, Exclusive, [Next]_vars PROVE Exclusive'
  OBVIOUS
<1>1. ASSUME UNCHANGED <<connList, conRAII, spoiled>>
      PROVE  Exclusive'
  BY <1>1 DEF Exclusive
<1>2. ASSUME NEW t \in Threads, Take(t)
      PROVE  Exclusive'
  <2>0. spoiled' = spoiled
    BY <1>2 DEF Take
  <2>1. CASE connList = <<>>
    BY <1>1, <1>2, <2>0, <2>1 DEF Take
  <2>2. CASE connList # <<>>
    <3> DEFINE c == Head(connList)
    <3>1. /\ connList' = Tail(connList)
          /\ conRAII' = [conRAII EXCEPT ![t] = c]
      BY <1>2, <2>2 DEF Take
    <3>2. /\ Elements(connList) = {c} \cup Elements(connList')
          /\ connList' \in Seq(Conns)
          /\ c = connList[1] /\ c \in Conns
          /\ Len(connList') = Len(connList) - 1
          /\ Len(connList) \in Nat \ {0}
          /\ \A i \in 1..Len(connList') : connList'[i] = connList[i + 1]
      BY <2>2, <3>1, PopFront, ElementsPop DEF TypeOK
    <3>3. DOMAIN connList = 1..Len(connList) /\ DOMAIN connList' = 1..Len(connList')
      BY <3>2 DEF TypeOK
    <3>4. \A i, j \in DOMAIN connList' :
            i # j /\ connList'[i] \notin spoiled => connList'[i] # connList'[j]
      <4> SUFFICES ASSUME NEW i \in DOMAIN connList', NEW j \in DOMAIN connList',
                          i # j, connList'[i] \notin spoiled
                   PROVE  connList'[i] # connList'[j]
        OBVIOUS
      <4>1. i \in 1..Len(connList') /\ j \in 1..Len(connList')
        BY <3>3
      <4>2. i + 1 \in DOMAIN connList /\ j + 1 \in DOMAIN connList /\ i + 1 # j + 1
        BY <3>2, <3>3, <4>1
      <4>3. connList'[i] = connList[i + 1] /\ connList'[j] = connList[j + 1]
        BY <3>2, <4>1
      <4>4. connList[i + 1] # connList[j + 1]
        BY <4>2, <4>3 DEF Exclusive
      <4> QED
        BY <4>3, <4>4
    <3>5. c \in spoiled \/ c \notin Elements(connList')
      <4> SUFFICES ASSUME c \notin spoiled, NEW i \in 1..Len(connList')
                   PROVE  connList'[i] # c
        BY <3>3 DEF Elements
      <4>1. i + 1 \in DOMAIN connList /\ 1 \in DOMAIN connList /\ i + 1 # 1
        BY <3>2, <3>3
      <4> QED
        BY <3>2, <4>1 DEF Exclusive
    <3>6. \A u \in Threads : conRAII'[u] \notin Elements(connList') \ spoiled
      BY <3>1, <3>2, <3>5 DEF Exclusive, TypeOK
    <3>7. \A u \in Threads : c \in spoiled \/ conRAII[u] # c
      BY <3>2 DEF Exclusive
    <3>8. \A u, v \in Threads :
            u # v /\ conRAII'[u] \notin {NULL} \cup spoiled => conRAII'[u] # conRAII'[v]
      BY <3>1, <3>2, <3>7 DEF Exclusive, TypeOK
    <3> QED
      BY <2>0, <3>4, <3>6, <3>8 DEF Exclusive
  <2> QED
    BY <2>1, <2>2
<1>3. ASSUME NEW t \in Threads, Release(t)
      PROVE  Exclusive'
  <2>1. conRAII' = [conRAII EXCEPT ![t] = NULL] /\ spoiled' = spoiled
    BY <1>3 DEF Release
  <2>2. \A u, v \in Threads :
          u # v /\ conRAII'[u] \notin {NULL} \cup spoiled => conRAII'[u] # conRAII'[v]
    BY <2>1 DEF Exclusive, TypeOK
  <2>3. CASE conRAII[t] = NULL
    <3>1. connList' = connList
      BY <1>3, <2>3 DEF Release
    <3>2. conRAII' = conRAII
      BY <2>1, <2>3 DEF TypeOK
    <3> QED
      BY <1>1, <2>1, <3>1, <3>2
  <2>4. CASE conRAII[t] # NULL
    <3> DEFINE c == conRAII[t]
    <3>1. connList' = Append(connList, c) /\ c \in Conns
      BY <1>3, <2>4 DEF Release, TypeOK
    <3>2. /\ Elements(connList') = Elements(connList) \cup {c}
          /\ Len(connList) \in Nat
          /\ DOMAIN connList' = 1..(Len(connList) + 1)
          /\ DOMAIN connList = 1..Len(connList)
          /\ \A i \in 1..Len(connList) : connList'[i] = connList[i]
          /\ connList'[Len(connList) + 1] = c
      BY <3>1, PushBack, ElementsPush DEF TypeOK
    <3>3. \A i \in 1..Len(connList) : c \in spoiled \/ connList[i] # c
      BY <3>2 DEF Exclusive, Elements
    <3>4. \A i, j \in DOMAIN connList' :
            i # j /\ connList'[i] \notin spoiled => connList'[i] # connList'[j]
      BY <3>2, <3>3 DEF Exclusive
    <3>5. NULL \notin Elements(connList')
      BY <3>1, <3>2 DEF TypeOK, Elements
    <3>6. \A u \in Threads : conRAII'[u] \notin Elements(connList') \ spoiled
      BY <2>1, <2>4, <3>2, <3>5 DEF Exclusive, TypeOK
    <3> QED
      BY <2>1, <2>2, <3>4, <3>6 DEF Exclusive
  <2> QED
    BY <2>3, <2>4
<1>4. ASSUME NEW t \in Threads, Adopt(t)
      PROVE  Exclusive'
  <2>1. connList' = connList
    BY <1>4 DEF Adopt, listVars
  <2>2. PICK got \in Conns \cup {NULL} :
           /\ conRAII' = [conRAII EXCEPT ![t] = got]
           /\ spoiled \subseteq spoiled'
           /\ got = conRAII[t] => spoiled' = spoiled
           /\ got # conRAII[t] => spoiled' = spoiled \cup ({got, conRAII[t]} \ {NULL})
    BY <1>4, AdoptSpoils
  <2>3. CASE got = conRAII[t]
    <3>1. conRAII' = conRAII
      BY <2>2, <2>3 DEF TypeOK
    <3> QED
      BY <1>1, <2>1, <2>2, <2>3, <3>1
  <2>4. CASE got # conRAII[t]
    <3>1. got = NULL \/ got \in spoiled'
      BY <2>2, <2>4
    <3>2. \A u, v \in Threads :
            u # v /\ conRAII'[u] \notin {NULL} \cup spoiled' => conRAII'[u] # conRAII'[v]
      BY <2>2, <3>1 DEF Exclusive, TypeOK
    <3>3. NULL \notin Elements(connList)
      BY DEF TypeOK, Elements
    <3>4. \A u \in Threads : conRAII'[u] \notin Elements(connList') \ spoiled'
      BY <2>1, <2>2, <3>1, <3>3 DEF Exclusive, TypeOK
    <3> QED
      BY <2>1, <2>2, <3>2, <3>4 DEF Exclusive
  <2> QED
    BY <2>3, <2>4
<1>5. CASE DestroyPool
  <2>1. /\ conRAII' = conRAII /\ spoiled' = spoiled
        /\ connList' = connList \/ connList' = <<>>
    BY <1>5 DEF DestroyPool, guardVars
  <2>2. CASE connList' = <<>>
    <3>1. DOMAIN connList' = {} /\ Elements(connList') = {}
      BY <2>2 DEF Elements
    <3> QED
      BY <2>1, <3>1 DEF Exclusive
  <2> QED
    BY <1>1, <2>1, <2>2
<1>6. ASSUME NEW t \in Threads, Outside(t)
      PROVE  Exclusive'
  BY <1>1, <1>6 DEF Outside, Look, Wait, Interrupted, Store, Post, listVars
<1>7. ASSUME NEW o \in Objects, Reset(o)
      PROVE  Exclusive'
  BY <1>1, <1>7 DEF Reset, listVars
<1>8. CASE UNCHANGED vars
  BY <1>1, <1>8 DEF vars, listVars, guardVars
<1> QED
  BY <1>2, <1>3, <1>4, <1>5, <1>6, <1>7, <1>8 DEF Next, Step, Outside

\* No two workers ever use one connection, and no connection in use is in the
\* list, with or without interrupted waits and during destruction, as long as its
\* guards read back from http_conn::mysql what they stored there.
THEOREM ConnectionsExclusive == Spec => []Exclusive
<1>1. ASSUME Init PROVE Exclusive
  <2>1. NULL \notin Elements(connList) /\ \A t \in Threads : conRAII[t] = NULL
    BY <1>1, PoolAssumption DEF PoolAssumption, Init
  <2> QED
    BY <1>1, <2>1, InitList DEF Exclusive
<1> QED
  BY <1>1, ExclusiveInductive, TypeCorrect, PTL DEF Spec
-----------------------------------------------------------------------------
\* NoUseAfterClose, strengthened: the closed connections are neither held nor
\* in the list, from where they would be handed out.
ClosedApart == NoUseAfterClose /\ closed \cap Elements(connList) \subseteq spoiled

\* A connection that no worker has when it is closed gets to none.
LEMMA ClosedInductive ==
  TypeOK /\ Exclusive /\ ClosedApart /\ [Next]_vars => ClosedApart'
<1> USE PoolAssumption DEF PoolAssumption
<1> SUFFICES ASSUME TypeOK, Exclusive, ClosedApart, [Next]_vars PROVE ClosedApart'
  OBVIOUS
<1>1. ASSUME UNCHANGED <<connList, conRAII, closed, spoiled>>
      PROVE  ClosedApart'
  BY <1>1 DEF ClosedApart, NoUseAfterClose
<1>2. ASSUME NEW t \in Threads, Take(t)
      PROVE  ClosedApart'
  <2>0. closed' = closed /\ spoiled' = spoiled
    BY <1>2 DEF Take, endVars
  <2>1. CASE connList = <<>>
    BY <1>1, <1>2, <2>0, <2>1 DEF Take
  <2>2. CASE connList # <<>>
    <3>0. /\ connList' = Tail(connList)
          /\ conRAII' = [conRAII EXCEPT ![t] = Head(connList)]
      BY <1>2, <2>2 DEF Take
    <3>1. Elements(connList) = {Head(connList)} \cup Elements(connList')
      BY <2>2, <3>0, ElementsPop DEF TypeOK
    <3>2. \A u \in Threads : conRAII'[u] = conRAII[u] \/ conRAII'[u] = Head(connList)
      BY <3>0 DEF TypeOK
    <3>3. closed \cap Elements(connList) \subseteq spoiled
      BY DEF ClosedApart
    <3>4. NoUseAfterClose'
      BY <2>0, <3>1, <3>2, <3>3 DEF ClosedApart, NoUseAfterClose
    <3> QED
      BY <2>0, <3>1, <3>3, <3>4 DEF ClosedApart
  <2> QED
    BY <2>1, <2>2
<1>3. ASSUME NEW t \in Threads, Release(t)
      PROVE  ClosedApart'
  <2>1. /\ conRAII' = [conRAII EXCEPT ![t] = NULL] /\ closed' = closed /\ spoiled' = spoiled
        /\ NULL \notin closed
    BY <1>3 DEF Release, TypeOK, endVars
  <2>2. Elements(connList') \subseteq Elements(connList) \cup ({conRAII[t]} \ {NULL})
    <3>1. CASE conRAII[t] = NULL
      BY <1>3, <3>1 DEF Release
    <3>2. CASE conRAII[t] # NULL
      <4>1. connList' = Append(connList, conRAII[t]) /\ conRAII[t] \in Conns
        BY <1>3, <3>2 DEF Release, TypeOK
      <4> QED
        BY <3>2, <4>1, ElementsPush DEF TypeOK
    <3> QED
      BY <3>1, <3>2
  <2> QED
    BY <2>1, <2>2 DEF ClosedApart, NoUseAfterClose, TypeOK
<1>4. ASSUME NEW t \in Threads, Adopt(t)
      PROVE  ClosedApart'
  <2>1. connList' = connList /\ closed' = closed /\ NULL \notin closed
    BY <1>4 DEF Adopt, listVars, endVars, TypeOK
  <2>2. PICK got \in Conns \cup {NULL} :
           /\ conRAII' = [conRAII EXCEPT ![t] = got]
           /\ spoiled \subseteq spoiled'
           /\ got = conRAII[t] => spoiled' = spoiled
           /\ got # conRAII[t] => spoiled' = spoiled \cup ({got, conRAII[t]} \ {NULL})
    BY <1>4, AdoptSpoils
  <2>3. got = conRAII[t] \/ got = NULL \/ got \in spoiled'
    BY <2>2
  <2> QED
    BY <2>1, <2>2, <2>3 DEF ClosedApart, NoUseAfterClose, TypeOK
<1>5. CASE DestroyPool
  <2>1. conRAII' = conRAII /\ spoiled' = spoiled /\ closed = {}
    BY <1>5 DEF DestroyPool, guardVars, TypeOK
  <2>2. CASE Size = 0
    BY <1>1, <1>5, <2>1, <2>2 DEF DestroyPool
  <2>3. CASE Size # 0
    <3>1. closed' = Elements(connList) /\ connList' = <<>>
      BY <1>5, <2>3 DEF DestroyPool
    <3>2. Elements(connList') = {}
      BY <3>1 DEF Elements
    <3> QED
      BY <2>1, <3>1, <3>2 DEF ClosedApart, NoUseAfterClose, Exclusive
  <2> QED
    BY <2>2, <2>3
<1>6. ASSUME NEW t \in Threads, Outside(t)
      PROVE  ClosedApart'
  BY <1>1, <1>6 DEF Outside, Look, Wait, Interrupted, Store, Post, listVars, endVars
<1>7. ASSUME NEW o \in Objects, Reset(o)
      PROVE  ClosedApart'
  BY <1>1, <1>7 DEF Reset, listVars, endVars
<1>8. CASE UNCHANGED vars
  BY <1>1, <1>8 DEF vars, listVars, endVars, guardVars
<1> QED
  BY <1>2, <1>3, <1>4, <1>5, <1>6, <1>7, <1>8 DEF Next, Step, Outside

\* Destroying the pool while requests run closes no connection in use, and no
\* closed connection is ever handed out, with the exception of Exclusive.
THEOREM ClosedUnused == Spec => []NoUseAfterClose
<1>1. Init => ClosedApart
  BY DEF Init, ClosedApart, NoUseAfterClose
<1>2. ClosedApart => NoUseAfterClose
  BY DEF ClosedApart
<1> QED
  BY <1>1, <1>2, ClosedInductive, TypeCorrect, ConnectionsExclusive, PTL DEF Spec
-----------------------------------------------------------------------------
Granted == {t \in Threads : at[t] = "granted"}
Owing == {t \in Threads : at[t] = "owed"}

\* The tokens in the semaphore, taken but not used, and due, and the fronts that
\* were not there, are covered by connections in the list and by signals.
Covered ==
  reserve + Cardinality(Granted) + Cardinality(Owing) + missing =< Len(connList) + interrupted

\* The workers about to lock and about to post are finitely many.
LEMMA CountsFinite ==
  /\ IsFiniteSet(Granted) /\ Cardinality(Granted) \in Nat
  /\ IsFiniteSet(Owing) /\ Cardinality(Owing) \in Nat
BY PoolAssumption, FS_Subset, FS_CardinalityType DEF PoolAssumption, Granted, Owing

\* A pool that is not destroyed was not destroyed before, nor in this step.
LEMMA StillOpen ==
  ASSUME TypeOK, [Next]_vars, ~destroyed'
  PROVE  ~destroyed /\ ~DestroyPool
BY DEF Next, Step, Look, Wait, Take, Store, Adopt, Release, Post, Interrupted, Reset, DestroyPool,
   vars, endVars, TypeOK

\* Before destruction every step keeps the tokens covered.
LEMMA CoveredInductive ==
  TypeOK /\ (~destroyed => Covered) /\ [Next]_vars => (~destroyed => Covered)'
<1> SUFFICES ASSUME TypeOK, ~destroyed => Covered, [Next]_vars, ~destroyed'
             PROVE  Covered'
  OBVIOUS
<1>a. Covered /\ ~DestroyPool
  BY StillOpen
<1>0. /\ Cardinality(Granted) \in Nat /\ Cardinality(Owing) \in Nat
      /\ reserve \in Nat /\ Len(connList) \in Nat /\ missing \in Nat /\ interrupted \in Nat
      /\ reserve + Cardinality(Granted) + Cardinality(Owing) + missing
           =< Len(connList) + interrupted
  BY <1>a, CountsFinite, PoolAssumption DEF PoolAssumption, TypeOK, Covered
<1>1. ASSUME UNCHANGED <<listVars, interrupted>>, Granted' = Granted, Owing' = Owing
      PROVE  Covered'
  BY <1>a, <1>1 DEF Covered, listVars
<1>2. ASSUME NEW t \in Threads, NEW o \in Objects, Look(t, o)
      PROVE  Covered'
  <2>1. Granted' = Granted /\ Owing' = Owing
    BY <1>2 DEF Look, Goto, Granted, Owing, TypeOK
  <2> QED
    BY <1>1, <1>2, <2>1 DEF Look
<1>3. ASSUME NEW t \in Threads, Wait(t) \/ Interrupted(t)
      PROVE  Covered'
  <2>1. Granted' = Granted \cup {t} /\ t \notin Granted /\ Owing' = Owing
    BY <1>3 DEF Wait, Interrupted, Goto, Granted, Owing, TypeOK
  <2>2. Cardinality(Granted') = Cardinality(Granted) + 1
    BY <2>1, CountsFinite, FS_AddElement
  <2>3. \/ reserve' = reserve - 1 /\ interrupted' = interrupted
        \/ reserve' = reserve /\ interrupted' = interrupted + 1
    BY <1>3 DEF Wait, Interrupted, listVars
  <2>4. connList' = connList /\ missing' = missing
    BY <1>3 DEF Wait, Interrupted, listVars
  <2> QED
    BY <1>0, <2>1, <2>2, <2>3, <2>4 DEF Covered
<1>4. ASSUME NEW t \in Threads, Take(t)
      PROVE  Covered'
  <2>1. t \in Granted
    BY <1>4 DEF Take, Granted
  <2>2. at' = [at EXCEPT ![t] = "returned"] /\ reserve' = reserve /\ interrupted' = interrupted
    BY <1>4 DEF Take, Goto
  <2>3. Granted' = Granted \ {t} /\ Owing' = Owing
    BY <2>1, <2>2 DEF Granted, Owing, TypeOK
  <2>4. Cardinality(Granted') = Cardinality(Granted) - 1
    BY <2>1, <2>3, CountsFinite, FS_RemoveElement
  <2>5. Len(connList') - missing' = Len(connList) - missing - 1 /\ missing' \in Nat
        /\ Len(connList') \in Nat
    <3>1. CASE connList = <<>>
      <4>1. connList' = connList /\ missing' = missing + 1
        BY <1>4, <3>1 DEF Take
      <4> QED
        BY <1>0, <4>1
    <3>2. CASE connList # <<>>
      <4>1. connList' = Tail(connList) /\ missing' = missing
        BY <1>4, <3>2 DEF Take
      <4>2. Len(connList') = Len(connList) - 1 /\ Len(connList) \in Nat \ {0}
        BY <3>2, <4>1, PopFront DEF TypeOK
      <4> QED
        BY <1>0, <4>1, <4>2
    <3> QED
      BY <3>1, <3>2
  <2> QED
    BY <1>0, <2>2, <2>3, <2>4, <2>5, SMTT(30) DEF Covered
<1>5. ASSUME NEW t \in Threads, Store(t) \/ Adopt(t)
      PROVE  Covered'
  <2>1. Granted' = Granted /\ Owing' = Owing
    BY <1>5 DEF Store, Adopt, Goto, Granted, Owing, TypeOK
  <2> QED
    BY <1>1, <1>5, <2>1 DEF Store, Adopt
<1>6. ASSUME NEW t \in Threads, Release(t)
      PROVE  Covered'
  <2>1. CASE conRAII[t] = NULL
    <3>1. Granted' = Granted /\ Owing' = Owing
      BY <1>6, <2>1 DEF Release, Goto, Granted, Owing, TypeOK
    <3> QED
      BY <1>1, <1>6, <2>1, <3>1 DEF Release, listVars
  <2>2. CASE conRAII[t] # NULL
    <3>1. /\ connList' = Append(connList, conRAII[t])
          /\ at' = [at EXCEPT ![t] = "owed"] /\ at[t] = "holding"
          /\ UNCHANGED <<reserve, missing, interrupted>>
      BY <1>6, <2>2 DEF Release, Goto
    <3>2. Granted' = Granted /\ Owing' = Owing \cup {t} /\ t \notin Owing
      BY <3>1 DEF Granted, Owing, TypeOK
    <3>3. Cardinality(Owing') = Cardinality(Owing) + 1
      BY <3>2, CountsFinite, FS_AddElement
    <3>4. Len(connList') = Len(connList) + 1
      BY <2>2, <3>1, PushBack DEF TypeOK
    <3> QED
      BY <1>0, <3>1, <3>2, <3>3, <3>4 DEF Covered
  <2> QED
    BY <2>1, <2>2
<1>7. ASSUME NEW t \in Threads, Post(t)
      PROVE  Covered'
  <2>1. Granted' = Granted /\ Owing' = Owing \ {t} /\ t \in Owing
    BY <1>7 DEF Post, Goto, Granted, Owing, TypeOK
  <2>2. Cardinality(Owing') = Cardinality(Owing) - 1
    BY <2>1, CountsFinite, FS_RemoveElement
  <2>3. reserve' = reserve + 1 /\ UNCHANGED <<connList, missing, interrupted>>
    BY <1>7 DEF Post
  <2> QED
    BY <1>0, <2>1, <2>2, <2>3 DEF Covered
<1>8. ASSUME NEW o \in Objects, Reset(o)
      PROVE  Covered'
  BY <1>1, <1>8 DEF Reset, Granted, Owing
<1>9. CASE UNCHANGED vars
  BY <1>1, <1>9 DEF vars, guardVars, Granted, Owing
<1> QED
  BY <1>a, <1>2, <1>3, <1>4, <1>5, <1>6, <1>7, <1>8, <1>9 DEF Next, Step

\* Until the pool is destroyed, the tokens are covered, for any number of workers,
\* connections and signals.
LEMMA AlwaysCovered == Spec => [](~destroyed => Covered)
<1>1. ASSUME Init PROVE ~destroyed => Covered
  <2>1. Granted = {} /\ Owing = {}
    BY <1>1 DEF Init, Granted, Owing
  <2>2. /\ Cardinality(Conns) \in Nat /\ Len(connList) = Cardinality(Conns)
        /\ reserve = Cardinality(Conns) /\ missing = 0 /\ interrupted = 0
    BY <1>1, InitList DEF Init
  <2> QED
    BY <2>1, <2>2, FS_EmptySet DEF Covered
<1> QED
  BY <1>1, CoveredInductive, TypeCorrect, PTL DEF Spec

\* A Take that finds the list empty is paid for by a signal.
LEMMA EmptyFrontPaid ==
  ASSUME TypeOK, Covered, NEW t \in Threads, Take(t), connList = <<>>
  PROVE  missing + 1 =< interrupted
<1>1. /\ Cardinality(Granted) \in Nat /\ Cardinality(Owing) \in Nat
      /\ reserve \in Nat /\ missing \in Nat /\ interrupted \in Nat
  BY CountsFinite, PoolAssumption DEF PoolAssumption, TypeOK
<1>2. t \in Granted
  BY DEF Take, Granted
<1>3. Cardinality(Granted) # 0
  BY <1>2, CountsFinite, FS_EmptySet
<1>4. Len(connList) = 0
  OBVIOUS
<1> QED
  BY <1>1, <1>3, <1>4 DEF Covered

\* Until the pool is destroyed, each interrupted wait costs one empty front at most
\* and nothing else does, for any number of workers, connections and signals.
THEOREM SemaphoreKeepsPromise == Spec => []NoEmptyFront
<1>1. Init => NoEmptyFront
  BY DEF Init, NoEmptyFront
<1>2. TypeOK /\ (~destroyed => Covered) /\ NoEmptyFront /\ [Next]_vars => NoEmptyFront'
  <2> SUFFICES ASSUME TypeOK, ~destroyed => Covered, NoEmptyFront, [Next]_vars, ~destroyed'
               PROVE  (missing =< interrupted)'
    BY DEF NoEmptyFront
  <2>a. Covered /\ ~DestroyPool /\ missing =< interrupted
    BY StillOpen DEF NoEmptyFront
  <2>0. missing \in Nat /\ interrupted \in Nat
    BY PoolAssumption DEF PoolAssumption, TypeOK
  <2>1. ASSUME NEW t \in Threads, Take(t)
        PROVE  (missing =< interrupted)'
    <3>1. interrupted' = interrupted
      BY <2>1 DEF Take
    <3>2. CASE connList = <<>>
      <4>1. missing' = missing + 1
        BY <2>1, <3>2 DEF Take
      <4> QED
        BY <2>a, <2>1, <3>1, <3>2, <4>1, EmptyFrontPaid
    <3>3. CASE connList # <<>>
      BY <2>a, <2>1, <3>1, <3>3 DEF Take
    <3> QED
      BY <3>2, <3>3
  <2>2. ASSUME missing' = missing, interrupted' \in {interrupted, interrupted + 1}
        PROVE  (missing =< interrupted)'
    BY <2>a, <2>0, <2>2
  <2>3. ASSUME NEW t \in Threads, Outside(t) \/ Adopt(t) \/ Release(t)
        PROVE  (missing =< interrupted)'
    BY <2>2, <2>3 DEF Outside, Look, Wait, Interrupted, Store, Post, Adopt, Release, listVars
  <2>4. ASSUME NEW o \in Objects, Reset(o)
        PROVE  (missing =< interrupted)'
    BY <2>2, <2>4 DEF Reset, listVars
  <2>5. CASE UNCHANGED vars
    BY <2>2, <2>5 DEF vars, listVars
  <2> QED
    BY <2>a, <2>1, <2>3, <2>4, <2>5 DEF Next, Step, Outside
<1> QED
  BY <1>1, <1>2, AlwaysCovered, TypeCorrect, PTL DEF Spec
-----------------------------------------------------------------------------
\* A connection leaves the list only into a worker's hands or by being closed, and
\* these only into the list, or by being spoiled.
LEMMA NoConnLostInductive ==
  TypeOK /\ NoConnLost /\ [Next]_vars => NoConnLost'
<1> SUFFICES ASSUME TypeOK, NoConnLost, [Next]_vars,
                    NEW c \in Conns, c \notin spoiled'
             PROVE  \/ c \in Elements(connList') \cup closed'
                    \/ \E t \in Threads : conRAII'[t] = c
  BY DEF NoConnLost
<1>0. c \in Elements(connList) \cup closed \/ \E t \in Threads : conRAII[t] = c
  BY SpoiledStays DEF NoConnLost
<1>a. c # NULL
  BY PoolAssumption DEF PoolAssumption
<1> DEFINE Kept == c \in Elements(connList') \cup closed' \/ \E t \in Threads : conRAII'[t] = c
<1>1. ASSUME UNCHANGED <<connList, conRAII, closed>>
      PROVE  Kept
  BY <1>0, <1>1
<1>2. ASSUME NEW t \in Threads, Take(t)
      PROVE  Kept
  <2>0. closed' = closed /\ at[t] = "granted"
    BY <1>2 DEF Take, endVars
  <2>1. CASE connList = <<>>
    BY <1>1, <1>2, <2>0, <2>1 DEF Take
  <2>2. CASE connList # <<>>
    <3>1. /\ connList' = Tail(connList)
          /\ conRAII' = [conRAII EXCEPT ![t] = Head(connList)]
      BY <1>2, <2>2 DEF Take
    <3>2. Elements(connList) = {Head(connList)} \cup Elements(connList')
      BY <2>2, <3>1, ElementsPop DEF TypeOK
    <3>3. conRAII[t] = NULL
      BY <2>0 DEF TypeOK
    <3>4. conRAII'[t] = Head(connList) /\ \A u \in Threads \ {t} : conRAII'[u] = conRAII[u]
      BY <3>1 DEF TypeOK
    <3> QED
      BY <1>0, <1>a, <2>0, <3>2, <3>3, <3>4
  <2> QED
    BY <2>1, <2>2
<1>3. ASSUME NEW t \in Threads, Release(t)
      PROVE  Kept
  <2>1. conRAII' = [conRAII EXCEPT ![t] = NULL] /\ closed' = closed
    BY <1>3 DEF Release, endVars
  <2>2. CASE conRAII[t] = NULL
    <3>1. connList' = connList /\ conRAII' = conRAII
      BY <1>3, <2>1, <2>2 DEF Release, TypeOK
    <3> QED
      BY <1>1, <2>1, <3>1
  <2>3. CASE conRAII[t] # NULL
    <3>1. connList' = Append(connList, conRAII[t]) /\ conRAII[t] \in Conns
      BY <1>3, <2>3 DEF Release, TypeOK
    <3>2. Elements(connList') = Elements(connList) \cup {conRAII[t]}
      BY <3>1, ElementsPush DEF TypeOK
    <3>3. \A u \in Threads \ {t} : conRAII'[u] = conRAII[u]
      BY <2>1 DEF TypeOK
    <3> QED
      BY <1>0, <2>1, <3>2, <3>3
  <2> QED
    BY <2>2, <2>3
<1>4. ASSUME NEW t \in Threads, Adopt(t)
      PROVE  Kept
  <2>1. connList' = connList /\ closed' = closed
    BY <1>4 DEF Adopt, listVars, endVars
  <2>2. PICK got \in Conns \cup {NULL} :
           /\ conRAII' = [conRAII EXCEPT ![t] = got]
           /\ spoiled \subseteq spoiled'
           /\ got = conRAII[t] => spoiled' = spoiled
           /\ got # conRAII[t] => spoiled' = spoiled \cup ({got, conRAII[t]} \ {NULL})
    BY <1>4, AdoptSpoils
  <2>3. conRAII[t] = c => got = c
    BY <1>a, <2>2
  <2>4. conRAII'[t] = got /\ \A u \in Threads \ {t} : conRAII'[u] = conRAII[u]
    BY <2>2 DEF TypeOK
  <2> QED
    BY <1>0, <2>1, <2>3, <2>4
<1>5. ASSUME NEW t \in Threads, Outside(t)
      PROVE  Kept
  BY <1>1, <1>5 DEF Outside, Look, Wait, Interrupted, Store, Post, listVars, endVars
<1>6. ASSUME NEW o \in Objects, Reset(o)
      PROVE  Kept
  BY <1>1, <1>6 DEF Reset, listVars, endVars
<1>7. CASE DestroyPool
  <2>1. conRAII' = conRAII
    BY <1>7 DEF DestroyPool, guardVars
  <2>2. closed = {}
    BY <1>7 DEF DestroyPool, TypeOK
  <2>3. CASE Size = 0
    BY <1>1, <1>7, <2>1, <2>3 DEF DestroyPool
  <2>4. CASE Size # 0
    <3>1. closed' = Elements(connList)
      BY <1>7, <2>4 DEF DestroyPool
    <3> QED
      BY <1>0, <2>1, <2>2, <3>1
  <2> QED
    BY <2>3, <2>4
<1>8. CASE UNCHANGED vars
  BY <1>1, <1>8 DEF vars, listVars, endVars, guardVars
<1> QED
  BY <1>2, <1>3, <1>4, <1>5, <1>6, <1>7, <1>8 DEF Next, Step, Outside

\* RAII returns every connection that was taken, whatever the number of threads
\* and connections, interrupted waits and destruction included, unless a guard
\* reads another thread's value back.
LEMMA ConnectionsKept == Spec => []NoConnLost
<1>1. Init => NoConnLost
  BY DEF Init, NoConnLost
<1> QED
  BY <1>1, NoConnLostInductive, TypeCorrect, PTL DEF Spec
-----------------------------------------------------------------------------
\* Until the pool is destroyed every step moves m_FreeConn with the list and
\* m_CurConn with the connections handed out.
LEMMA CountsInductive ==
  TypeOK /\ CountsExact /\ [Next]_vars => CountsExact'
<1> USE PoolAssumption DEF PoolAssumption
<1> DEFINE Counted == /\ m_FreeConn = Len(connList) - missing
                      /\ m_FreeConn + m_CurConn = Cardinality(Conns)
                      /\ spoiled = {} => m_CurConn = Cardinality(Held) + missing
<1> SUFFICES ASSUME TypeOK, CountsExact, [Next]_vars, ~destroyed'
             PROVE  Counted'
  BY DEF CountsExact
<1>1. Counted /\ ~DestroyPool
  BY StillOpen DEF CountsExact
<1>2. /\ IsFiniteSet(Held) /\ Cardinality(Held) \in Nat /\ Cardinality(Conns) \in Nat
      /\ connList \in Seq(Conns) /\ missing \in Nat /\ Len(connList) \in Nat
      /\ m_FreeConn \in Int /\ m_CurConn \in Int
  BY FS_Subset, FS_CardinalityType DEF Held, TypeOK
<1>3. ASSUME UNCHANGED <<listVars, conRAII, spoiled>>
      PROVE  Counted'
  BY <1>1, <1>3 DEF Held, listVars
<1>4. ASSUME NEW t \in Threads, Take(t)
      PROVE  Counted'
  <2>0. /\ at[t] = "granted" /\ spoiled' = spoiled
        /\ m_FreeConn' = m_FreeConn - 1 /\ m_CurConn' = m_CurConn + 1
    BY <1>4 DEF Take
  <2>1. CASE connList = <<>>
    <3>1. connList' = connList /\ conRAII' = conRAII /\ missing' = missing + 1
      BY <1>4, <2>1 DEF Take
    <3>2. Held' = Held
      BY <3>1 DEF Held
    <3> QED
      BY <1>1, <1>2, <2>0, <3>1, <3>2
  <2>2. CASE connList # <<>>
    <3>1. /\ connList' = Tail(connList) /\ missing' = missing
          /\ conRAII' = [conRAII EXCEPT ![t] = Head(connList)]
      BY <1>4, <2>2 DEF Take
    <3>2. /\ Head(connList) \in Conns /\ Len(connList') = Len(connList) - 1
          /\ conRAII[t] = NULL
      BY <1>2, <2>0, <2>2, <3>1, PopFront DEF TypeOK
    <3>3. Held' = Held \cup {t} /\ t \notin Held
      BY <3>1, <3>2 DEF Held, TypeOK
    <3>4. Cardinality(Held') = Cardinality(Held) + 1
      BY <1>2, <3>3, FS_AddElement
    <3> QED
      BY <1>1, <1>2, <2>0, <3>1, <3>2, <3>4
  <2> QED
    BY <2>1, <2>2
<1>5. ASSUME NEW t \in Threads, Release(t)
      PROVE  Counted'
  <2>1. conRAII' = [conRAII EXCEPT ![t] = NULL] /\ missing' = missing /\ spoiled' = spoiled
    BY <1>5 DEF Release
  <2>2. CASE conRAII[t] = NULL
    <3>1. UNCHANGED <<connList, m_FreeConn, m_CurConn, conRAII>>
      BY <1>5, <2>1, <2>2 DEF Release, TypeOK
    <3>2. Held' = Held
      BY <3>1 DEF Held
    <3> QED
      BY <1>1, <2>1, <3>1, <3>2
  <2>3. CASE conRAII[t] # NULL
    <3>1. /\ connList' = Append(connList, conRAII[t]) /\ conRAII[t] \in Conns
          /\ m_FreeConn' = m_FreeConn + 1 /\ m_CurConn' = m_CurConn - 1
      BY <1>5, <2>3 DEF Release, TypeOK
    <3>2. Len(connList') = Len(connList) + 1
      BY <1>2, <3>1, PushBack
    <3>3. Held' = Held \ {t} /\ t \in Held
      BY <2>1, <2>3 DEF Held, TypeOK
    <3>4. Cardinality(Held') = Cardinality(Held) - 1
      BY <1>2, <3>3, FS_RemoveElement
    <3> QED
      BY <1>1, <1>2, <2>1, <3>1, <3>2, <3>4
  <2> QED
    BY <2>2, <2>3
<1>6. ASSUME NEW t \in Threads, Adopt(t)
      PROVE  Counted'
  <2>1. UNCHANGED <<connList, missing, m_FreeConn, m_CurConn>>
    BY <1>6 DEF Adopt, listVars
  <2>2. PICK got \in Conns \cup {NULL} :
           /\ conRAII' = [conRAII EXCEPT ![t] = got]
           /\ spoiled \subseteq spoiled'
           /\ got = conRAII[t] => spoiled' = spoiled
           /\ got # conRAII[t] => spoiled' = spoiled \cup ({got, conRAII[t]} \ {NULL})
    BY <1>6, AdoptSpoils
  <2>3. CASE got = conRAII[t]
    <3>1. conRAII' = conRAII /\ spoiled' = spoiled
      BY <2>2, <2>3 DEF TypeOK
    <3>2. Held' = Held
      BY <3>1 DEF Held
    <3> QED
      BY <1>1, <2>1, <3>1, <3>2
  <2>4. CASE got # conRAII[t]
    <3>1. spoiled' # {}
      BY <2>2, <2>4
    <3> QED
      BY <1>1, <2>1, <3>1
  <2> QED
    BY <2>3, <2>4
<1>7. ASSUME NEW t \in Threads, \/ \E o \in Objects : Look(t, o)
                                \/ Interrupted(t) \/ Store(t)
      PROVE  Counted'
  BY <1>3, <1>7 DEF Look, Interrupted, Store
<1>8. ASSUME NEW t \in Threads, Wait(t) \/ Post(t)
      PROVE  Counted'
  <2>1. UNCHANGED <<connList, missing, m_FreeConn, m_CurConn, conRAII, spoiled>>
    BY <1>8 DEF Wait, Post
  <2> QED
    BY <1>1, <2>1 DEF Held
<1>9. ASSUME NEW o \in Objects, Reset(o)
      PROVE  Counted'
  BY <1>3, <1>9 DEF Reset
<1>10. CASE UNCHANGED vars
  BY <1>3, <1>10 DEF vars, guardVars
<1> QED
  BY <1>1, <1>4, <1>5, <1>6, <1>7, <1>8, <1>9, <1>10 DEF Next, Step

\* For any number of threads, connections and signals: until the pool is destroyed
\* the counters add up, m_FreeConn is the length of the list less the empty fronts,
\* and no connection is ever lost except by a guard that read another thread's
\* value from http_conn::mysql.
THEOREM ConnectionsAccounted == Spec => []Accounted
<1>1. ASSUME Init PROVE CountsExact
  <2>1. Len(connList) = Cardinality(Conns) /\ Cardinality(Conns) \in Nat
    BY <1>1, InitList
  <2>2. Held = {}
    BY <1>1 DEF Init, Held
  <2>3. m_FreeConn = Cardinality(Conns) /\ m_CurConn = 0 /\ missing = 0
    BY <1>1 DEF Init
  <2> QED
    BY <2>1, <2>2, <2>3, FS_EmptySet DEF CountsExact
<1>2. CountsExact /\ NoConnLost => Accounted
  BY DEF Accounted
<1> QED
  BY <1>1, <1>2, CountsInductive, TypeCorrect, ConnectionsKept, PTL DEF Spec
-----------------------------------------------------------------------------
\* With at least as many connections as workers, a worker that looks at the
\* list finds it non-empty: every connection outside it needs a worker of its
\* own to hold it.
LEMMA EnoughForAll ==
  ASSUME Cardinality(Threads) =< Cardinality(Conns),
         ~destroyed, spoiled = {}, TypeOK, NoConnLost, NEW t \in Threads, conRAII[t] = NULL
  PROVE  connList # <<>>
<1> USE PoolAssumption DEF PoolAssumption
<1> SUFFICES ASSUME connList = <<>> PROVE FALSE
  OBVIOUS
<1> DEFINE h == [c \in Conns |-> CHOOSE u \in Threads : conRAII[u] = c]
<1>0. closed = {}
  BY DEF TypeOK
<1>1. \A c \in Conns : \E u \in Threads : conRAII[u] = c
  BY <1>0 DEF NoConnLost, Elements
<1>2. \A c \in Conns : h[c] \in Threads /\ conRAII[h[c]] = c
  BY <1>1
<1>3. \A c \in Conns : h[c] \in Threads \ {t}
  BY <1>2
<1>4. h \in Injection(Conns, Threads \ {t})
  BY <1>2, <1>3 DEF Injection, IsInjective
<1>5. /\ IsFiniteSet(Threads \ {t})
      /\ Cardinality(Threads \ {t}) = Cardinality(Threads) - 1
  BY FS_RemoveElement
<1>6. Cardinality(Conns) =< Cardinality(Threads \ {t})
  BY <1>4, <1>5, FS_Injection
<1>7. Cardinality(Conns) \in Nat /\ Cardinality(Threads) \in Nat
  BY FS_CardinalityType
<1> QED
  BY <1>5, <1>6, <1>7

\* With at least as many connections as workers, which is how config.cpp sets
\* the defaults, no guard holds NULL, until the pool is destroyed, a signal ends a
\* wait or a guard reads another thread's value.
THEOREM NullNeverHanded ==
  ASSUME Cardinality(Threads) =< Cardinality(Conns)
  PROVE  Spec => []NeverNull
<1>1. Init => NeverNull
  BY DEF Init, NeverNull
<1>2. TypeOK /\ NoConnLost /\ NoEmptyFront /\ NoEmptyFront' /\ NeverNull /\ [Next]_vars
        => NeverNull'
  <2> SUFFICES ASSUME TypeOK, NoConnLost, NoEmptyFront, NoEmptyFront', NeverNull, [Next]_vars,
                      ~destroyed', interrupted' = 0, spoiled' = {}
               PROVE  NeverNull'
    BY DEF NeverNull
  <2>a. ~destroyed /\ ~DestroyPool /\ spoiled = {}
    BY StillOpen, SpoiledStays
  <2>b. interrupted = 0
    BY <2>a, PoolAssumption DEF PoolAssumption, Next, Step, Look, Wait, Interrupted, Take, Store,
       Adopt, Release, Post, Reset, vars, TypeOK
  <2>c. \A u \in Threads : at[u] \in {"returned", "stored", "holding"} => conRAII[u] # NULL
    BY <2>a, <2>b DEF NeverNull
  <2>d. missing = 0 /\ (missing' \in Nat => missing' = 0)
    BY <2>a, <2>b DEF NoEmptyFront, TypeOK
  <2> DEFINE Good == \A u \in Threads :
                       at'[u] \in {"returned", "stored", "holding"} => conRAII'[u] # NULL
  <2> SUFFICES Good
    BY DEF NeverNull
  <2>1. ASSUME NEW t \in Threads, NEW o \in Objects, Look(t, o)
        PROVE  Good
    <3>1. conRAII[t] = NULL
      BY <2>1 DEF Look, TypeOK
    <3>2. connList # <<>>
      BY <2>a, <3>1, EnoughForAll
    <3>3. connList \in Seq(Conns)
      BY DEF TypeOK
    <3>4. Len(connList) \in Nat /\ Len(connList) # 0
      BY <3>2, <3>3
    <3>5. Size # 0
      BY <2>d, <3>4 DEF Size
    <3>6. at' = [at EXCEPT ![t] = "waiting"] /\ conRAII' = conRAII
      BY <2>1, <3>5 DEF Look, Goto
    <3> QED
      BY <2>c, <3>6 DEF TypeOK
  <2>2. ASSUME NEW t \in Threads, Wait(t) \/ Interrupted(t) \/ Post(t)
        PROVE  Good
    BY <2>c, <2>2 DEF Wait, Interrupted, Post, Goto, TypeOK
  <2>3. ASSUME NEW t \in Threads, Store(t)
        PROVE  Good
    BY <2>c, <2>3 DEF Store, Goto, TypeOK
  <2>4. ASSUME NEW t \in Threads, Take(t)
        PROVE  Good
    <3>1. CASE connList = <<>>
      <4>1. missing' = missing + 1
        BY <2>4, <3>1 DEF Take
      <4> QED
        BY <2>d, <4>1
    <3>2. CASE connList # <<>>
      <4>1. /\ Head(connList) \in Conns
            /\ conRAII' = [conRAII EXCEPT ![t] = Head(connList)]
            /\ at' = [at EXCEPT ![t] = "returned"]
        BY <2>4, <3>2, PopFront DEF Take, Goto, TypeOK
      <4> QED
        BY <2>c, <4>1, PoolAssumption DEF PoolAssumption, TypeOK
    <3> QED
      BY <3>1, <3>2
  <2>5. ASSUME NEW t \in Threads, Adopt(t)
        PROVE  Good
    <3>1. PICK got \in Conns \cup {NULL} :
           /\ conRAII' = [conRAII EXCEPT ![t] = got]
           /\ spoiled \subseteq spoiled'
           /\ got = conRAII[t] => spoiled' = spoiled
           /\ got # conRAII[t] => spoiled' = spoiled \cup ({got, conRAII[t]} \ {NULL})
      BY <2>5, AdoptSpoils
    <3>2. got = conRAII[t]
      BY <3>1
    <3>3. conRAII' = conRAII /\ at[t] = "stored" /\ at' = [at EXCEPT ![t] = "holding"]
      BY <2>5, <3>1, <3>2 DEF Adopt, Goto, TypeOK
    <3> QED
      BY <2>c, <3>3 DEF TypeOK
  <2>6. ASSUME NEW t \in Threads, Release(t)
        PROVE  Good
    <3>1. conRAII' = [conRAII EXCEPT ![t] = NULL]
      BY <2>6 DEF Release
    <3>2. \E p \in {"outside", "owed"} : at' = [at EXCEPT ![t] = p]
      BY <2>6 DEF Release, Goto
    <3> QED
      BY <2>c, <3>1, <3>2 DEF TypeOK
  <2>7. ASSUME NEW o \in Objects, Reset(o)
        PROVE  Good
    BY <2>c, <2>7 DEF Reset
  <2>8. CASE UNCHANGED vars
    BY <2>c, <2>8 DEF vars, guardVars
  <2> QED
    BY <2>a, <2>1, <2>2, <2>3, <2>4, <2>5, <2>6, <2>7, <2>8 DEF Next, Step
<1> QED
  BY <1>1, <1>2, ConnectionsKept, SemaphoreKeepsPromise, TypeCorrect, PTL DEF Spec

=============================================================================
