------------------------- MODULE UserRegistryProofs -------------------------
(***************************************************************************)
(* Proofs about UserRegistry for any number of workers, names, passwords   *)
(* and restarts, whatever the database answers: a name without overlapping *)
(* registrations keeps map and table in agreement, and a password in the   *)
(* map is never replaced.                                                  *)
(***************************************************************************)
EXTENDS UserRegistry, TLAPS

\* The rows of a name after one more.
LEMMA RowAdded ==
  ASSUME NEW S, NEW rows \in Seq(S), NEW x \in S
  PROVE  /\ Append(rows, x) \in Seq(S)
         /\ DOMAIN rows = 1..Len(rows) /\ Len(rows) \in Nat
         /\ DOMAIN Append(rows, x) = 1..(Len(rows) + 1)
         /\ \A i \in DOMAIN rows : Append(rows, x)[i] = rows[i]
         /\ Append(rows, x)[Len(rows) + 1] = x
         /\ rows = <<>> => Append(rows, x) = <<x>>
<1>1. rows = <<>> => Append(rows, x) = <<x>>
  OBVIOUS
<1> QED
  BY <1>1

\* The last row of a name that has one.
LEMMA LastRow ==
  ASSUME NEW S, NEW rows \in Seq(S), rows # <<>>
  PROVE  Len(rows) \in DOMAIN rows /\ Len(rows) \in Nat \ {0}
  OBVIOUS

\* get_salted_hash() gives a pair with the name as salt.
LEMMA HashType ==
  ASSUME NEW n \in Names, NEW h \in Hashes(n)
  PROVE  h \in Names \X Passwords
BY DEF Hashes, Hash

\* What stays as it is as long as map and table do.
LEMMA DataKept == DataOK /\ users' = users /\ table' = table => DataOK'
BY DEF DataOK

\* Every step keeps the salts of map and table.
LEMMA DataInductive == TypeOK /\ [Next]_vars => DataOK'
<1> SUFFICES ASSUME TypeOK, [Next]_vars PROVE DataOK'
  OBVIOUS
<1> USE DEF TypeOK
<1>1. CASE users' = users /\ table' = table
  BY <1>1, DataKept
<1>2. CASE Restart
  <2>1. users' = Loaded /\ table' = table
    BY <1>2 DEF Restart
  <2>2. ASSUME NEW n \in DOMAIN users'
        PROVE  n \in Names /\ users'[n] \in Hashes(n) /\ users'[n] \in Names \X Passwords
    <3>1. n \in Names /\ table[n] \in Seq(Names \X Passwords) /\ table[n] # <<>>
      BY <2>1, <2>2 DEF Loaded, DataOK
    <3>2. users'[n] = table[n][Len(table[n])]
      BY <2>1, <3>1 DEF Loaded
    <3>3. users'[n] \in Hashes(n)
      BY <3>1, <3>2, LastRow DEF DataOK
    <3> QED
      BY <3>1, <3>3, HashType
  <2>3. users' = [n \in DOMAIN users' |-> users'[n]]
    BY <2>1 DEF Loaded
  <2>4. users' \in [DOMAIN users' -> Names \X Passwords] /\ DOMAIN users' \subseteq Names
    BY <2>2, <2>3
  <2> QED
    BY <2>1, <2>2, <2>4 DEF DataOK
<1>3. ASSUME NEW w \in Workers, Query(w)
      PROVE  DataOK'
  <2>1. pc[w] = "query" /\ users' = users
    BY <1>3 DEF Query
  <2>2. name[w] \in Names /\ hash[w] \in Hashes(name[w])
    BY <2>1 DEF WorkersOK
  <2>3. hash[w] \in Names \X Passwords
    BY <2>2, HashType
  <2>4. CASE table' = table
    BY <2>1, <2>4, DataKept
  <2>5. CASE table' = [table EXCEPT ![name[w]] = Append(@, hash[w])]
    <3>1. table[name[w]] \in Seq(Names \X Passwords)
      BY <2>2 DEF DataOK
    <3>2. Append(table[name[w]], hash[w]) \in Seq(Names \X Passwords)
      BY <2>3, <3>1, RowAdded
    <3>3. ASSUME NEW m \in Names, NEW i \in DOMAIN table'[m]
          PROVE  table'[m][i] \in Hashes(m)
      <4>1. CASE m = name[w]
        <5>1. table'[m] = Append(table[m], hash[w]) /\ table[m] \in Seq(Names \X Passwords)
          BY <2>5, <3>1, <4>1 DEF DataOK
        <5>2. CASE i \in DOMAIN table[m]
          BY <2>3, <5>1, <5>2, RowAdded DEF DataOK
        <5>3. CASE i = Len(table[m]) + 1
          BY <2>2, <2>3, <4>1, <5>1, <5>3, RowAdded
        <5> QED
          BY <2>3, <3>3, <5>1, <5>2, <5>3, RowAdded
      <4>2. CASE m # name[w]
        BY <2>5, <3>3, <4>2 DEF DataOK
      <4> QED
        BY <4>1, <4>2
    <3>4. table' \in [Names -> Seq(Names \X Passwords)]
      BY <2>5, <3>2 DEF DataOK
    <3> QED
      BY <2>1, <3>3, <3>4 DEF DataOK
  <2> QED
    BY <1>3, <2>4, <2>5 DEF Query
<1>4. ASSUME NEW w \in Workers, Cache(w)
      PROVE  DataOK'
  <2>1. pc[w] = "cache" /\ table' = table
    BY <1>4 DEF Cache
  <2>2. name[w] \in Names /\ hash[w] \in Hashes(name[w])
    BY <2>1 DEF WorkersOK
  <2>3. hash[w] \in Names \X Passwords
    BY <2>2, HashType
  <2>4. users' = [n \in DOMAIN users \cup {name[w]} |->
                    IF n \in DOMAIN users THEN users[n] ELSE hash[w]]
    BY <1>4 DEF Cache
  <2>5. \A n \in DOMAIN users' :
           n \in Names /\ users'[n] \in Hashes(n) /\ users'[n] \in Names \X Passwords
    BY <2>2, <2>3, <2>4 DEF DataOK
  <2>6. DOMAIN users' = DOMAIN users \cup {name[w]}
    BY <2>4
  <2>7. users' = [n \in DOMAIN users' |-> users'[n]]
    BY <2>4, <2>6
  <2>8. users' \in [DOMAIN users' -> Names \X Passwords] /\ DOMAIN users' \subseteq Names
    BY <2>5, <2>7
  <2> QED
    BY <2>1, <2>5, <2>8 DEF DataOK
<1> QED
  BY <1>1, <1>2, <1>3, <1>4
  DEF Next, Request, Register, Lock, Holding, Unlock, Login, data, vars

\* Every step keeps what the registrations carry.
LEMMA WorkersInductive == TypeOK /\ [Next]_vars => WorkersOK'
<1> SUFFICES ASSUME WorkersOK, [Next]_vars PROVE WorkersOK'
  BY DEF TypeOK
<1>1. CASE UNCHANGED vars
  BY <1>1 DEF vars, local, WorkersOK
<1>2. CASE Restart
  BY <1>2 DEF Restart, WorkersOK
<1>3. ASSUME NEW w \in Workers, NEW n \in Names, NEW h \in Hashes(n), Register(w, n, h)
      PROVE  WorkersOK'
  <2>1. CASE pc' = pc /\ name' = name /\ hash' = hash /\ res' = res
    BY <2>1 DEF WorkersOK
  <2>2. CASE /\ pc' = [pc EXCEPT ![w] = "lock"] /\ res' = res
             /\ name' = [name EXCEPT ![w] = n] /\ hash' = [hash EXCEPT ![w] = h]
    BY <2>2, HashType DEF WorkersOK
  <2> QED
    BY <1>3, <2>1, <2>2 DEF Register, Goto
<1>4. ASSUME NEW w \in Workers, Lock(w)
      PROVE  WorkersOK'
  BY <1>4 DEF Lock, Goto, WorkersOK
<1>5. ASSUME NEW w \in Workers, Query(w)
      PROVE  WorkersOK'
  <2>1. /\ pc[w] = "query" /\ pc' = [pc EXCEPT ![w] = "cache"]
        /\ name' = name /\ hash' = hash
    BY <1>5 DEF Query, Goto
  <2>2. res' \in [Workers -> BOOLEAN]
    BY <1>5 DEF Query, WorkersOK
  <2> QED
    BY <2>1, <2>2 DEF WorkersOK
<1>6. ASSUME NEW w \in Workers, Cache(w)
      PROVE  WorkersOK'
  BY <1>6 DEF Cache, Goto, WorkersOK
<1>7. ASSUME NEW w \in Workers, Unlock(w)
      PROVE  WorkersOK'
  BY <1>7 DEF Unlock, Answered, Goto, WorkersOK
<1>8. ASSUME NEW w \in Workers, NEW n \in Names, NEW h \in Hashes(n), Login(w, n, h)
      PROVE  WorkersOK'
  BY <1>8 DEF Login, local, WorkersOK
<1> QED
  BY <1>1, <1>2, <1>3, <1>4, <1>5, <1>6, <1>7, <1>8 DEF Next, Request, Holding

\* Every step keeps the lock with the worker between lock() and unlock().
LEMMA LockInductive == TypeOK /\ [Next]_vars => LockOK'
<1> SUFFICES ASSUME LockOK, pc \in [Workers -> {"idle", "lock", "query", "cache", "unlock"}],
                    [Next]_vars
             PROVE  LockOK'
  BY DEF TypeOK, WorkersOK
<1>1. CASE pc' = pc /\ m_lock' = m_lock
  BY <1>1 DEF LockOK
<1>2. CASE Restart
  BY <1>2, RegistryAssumption DEF Restart, LockOK
<1>3. ASSUME NEW w \in Workers, pc[w] = "idle", m_lock' = m_lock, pc' = [pc EXCEPT ![w] = "lock"]
      PROVE  LockOK'
  BY <1>3 DEF LockOK
<1>4. ASSUME NEW w \in Workers, Lock(w)
      PROVE  LockOK'
  BY <1>4, RegistryAssumption DEF Lock, Goto, LockOK
<1>5. ASSUME NEW w \in Workers, Query(w) \/ Cache(w)
      PROVE  LockOK'
  BY <1>5 DEF Query, Cache, Goto, LockOK
<1>6. ASSUME NEW w \in Workers, Unlock(w)
      PROVE  LockOK'
  BY <1>6, RegistryAssumption DEF Unlock, Answered, Goto, LockOK
<1> QED
  BY <1>1, <1>2, <1>3, <1>4, <1>5, <1>6
  DEF Next, Request, Register, Login, Holding, Goto, local, vars

\* The types of the initial state.
LEMMA InitialTypes == Init => TypeOK
<1> SUFFICES ASSUME Init PROVE TypeOK
  OBVIOUS
<1>0. <<>> \in Seq(Names \X Passwords)
  OBVIOUS
<1>1. table \in [Names -> Seq(Names \X Passwords)] /\ \A n \in Names : table[n] = <<>>
  BY <1>0 DEF Init
<1>2. users = Loaded /\ DOMAIN users = {}
  BY <1>1 DEF Init, Loaded
<1>3. users = [n \in DOMAIN users |-> users[n]]
  BY <1>2 DEF Loaded
<1>4. users \in [DOMAIN users -> Names \X Passwords]
  BY <1>2, <1>3
<1>5. \A n \in Names : \A i \in DOMAIN table[n] : table[n][i] \in Hashes(n)
  BY <1>1
<1>6. DataOK
  BY <1>1, <1>2, <1>4, <1>5 DEF DataOK
<1>7. WorkersOK /\ LockOK
  BY RegistryAssumption DEF Init, WorkersOK, LockOK
<1> QED
  BY <1>6, <1>7 DEF TypeOK

\* The types, and the lock held by exactly the worker between lock() and
\* unlock() (do_request's m_lock): TypeOK for every value of the constants.
THEOREM TypeCorrect == Spec => []TypeOK
<1>1. Init => TypeOK
  BY InitialTypes
<1>2. TypeOK /\ [Next]_vars => TypeOK'
  BY DataInductive, WorkersInductive, LockInductive DEF TypeOK
<1> QED
  BY <1>1, <1>2, PTL DEF Spec

\* The invariant that joins map, table, answers and registrations under way.
RegistryInv == TypeOK /\ RegistryConsistent /\ RegistrationsApart /\ CacheEarned

\* An INSERT either adds the row behind the others or leaves the table alone,
\* and then the map is all that will know of it.
LEMMA QueryEffect ==
  ASSUME TypeOK, NEW w \in Workers, Query(w)
  PROVE  /\ pc[w] = "query" /\ name[w] \in Names /\ hash[w] \in Hashes(name[w])
         /\ pc' = [pc EXCEPT ![w] = "cache"]
         /\ UNCHANGED <<users, m_lock, name, hash, page, told, contested>>
         /\ \A m \in Names \ {name[w]} : table'[m] = table[m]
         /\ \/ /\ table'[name[w]] = Append(table[name[w]], hash[w])
               /\ unsaved' = unsaved
            \/ /\ table' = table /\ ~res'[w]
               /\ unsaved' = unsaved \cup {<<name[w], hash[w]>>}
         /\ \A v \in Workers \ {w} : res'[v] = res[v]
<1>1. pc[w] = "query" /\ name[w] \in Names /\ hash[w] \in Hashes(name[w])
  BY DEF Query, TypeOK, WorkersOK
<1>2. PICK added \in BOOLEAN :
        /\ table' = IF added THEN [table EXCEPT ![name[w]] = Append(@, hash[w])] ELSE table
        /\ res' \in {[res EXCEPT ![w] = ok] : ok \in {added, FALSE}}
        /\ unsaved' = IF added THEN unsaved ELSE unsaved \cup {<<name[w], hash[w]>>}
  BY DEF Query
<1>3. /\ pc' = [pc EXCEPT ![w] = "cache"]
      /\ UNCHANGED <<users, m_lock, name, hash, page, told, contested>>
  BY DEF Query, Goto
<1>4. DOMAIN table = Names /\ DOMAIN res = Workers
  BY DEF TypeOK, DataOK, WorkersOK
<1>5. CASE added
  BY <1>1, <1>2, <1>3, <1>4, <1>5
<1>6. CASE ~added
  <2>1. res' = [res EXCEPT ![w] = FALSE]
    BY <1>2, <1>6
  <2> QED
    BY <1>1, <1>2, <1>3, <1>4, <1>6, <2>1
<1> QED
  BY <1>5, <1>6

\* What an uncontested registration finds when it starts: nothing under its
\* name, and nobody else on the way there.
LEMMA RegisterEffect ==
  ASSUME RegistryInv, NEW w \in Workers, NEW n \in Names, NEW h \in Hashes(n), Register(w, n, h)
  PROVE  /\ pc[w] = "idle" /\ contested \subseteq contested'
         /\ UNCHANGED <<users, table, m_lock, res, told, unsaved>>
         /\ \/ UNCHANGED <<pc, name, hash, contested>> /\ page' = Page("registerError")
            \/ /\ pc' = [pc EXCEPT ![w] = "lock"] /\ name' = [name EXCEPT ![w] = n]
               /\ hash' = [hash EXCEPT ![w] = h] /\ page' = page
               /\ n \notin contested' =>
                    /\ n \notin DOMAIN users /\ table[n] = <<>>
                    /\ \A v \in Workers \ {w} : ~Registering(v, n)
<1>1. /\ pc[w] = "idle"
      /\ UNCHANGED <<users, table, m_lock, res, told, unsaved>>
  BY DEF Register, data
<1>2. CASE UNCHANGED <<pc, name, hash, contested>> /\ page' = Page("registerError")
  BY <1>1, <1>2
<1>3. CASE /\ pc' = [pc EXCEPT ![w] = "lock"] /\ name' = [name EXCEPT ![w] = n]
           /\ hash' = [hash EXCEPT ![w] = h] /\ page' = page
           /\ contested' = IF \/ n \in DOMAIN users
                              \/ \E v \in Workers \ {w} : Registering(v, n)
                           THEN contested \cup {n} ELSE contested
  <2>1. contested \subseteq contested'
    BY <1>3
  <2>2. ASSUME n \notin contested'
        PROVE  /\ n \notin DOMAIN users /\ table[n] = <<>>
               /\ \A v \in Workers \ {w} : ~Registering(v, n)
    <3>1. /\ n \notin contested /\ n \notin DOMAIN users
          /\ \A v \in Workers \ {w} : ~Registering(v, n)
      BY <1>3, <2>2
    <3>2. \A v \in Workers : pc[v] = "cache" => name[v] # n
      BY <1>1, <3>1 DEF Registering
    <3>3. table[n] = <<>>
      BY <3>1, <3>2 DEF RegistryInv, RegistryConsistent, CacheMatchesTable
    <3> QED
      BY <3>1, <3>3
  <2> QED
    BY <1>1, <1>3, <2>1, <2>2
<1> QED
  BY <1>2, <1>3 DEF Register, Goto

\* Every step keeps the registrations of an uncontested name apart.
LEMMA AloneInductive == RegistryInv /\ [Next]_vars => Alone'
<1> SUFFICES ASSUME RegistryInv, [Next]_vars PROVE Alone'
  OBVIOUS
<1>0. Alone /\ WorkersOK
  BY DEF RegistryInv, TypeOK, RegistrationsApart
<1>1. CASE UNCHANGED <<pc, name, contested>>
  BY <1>0, <1>1 DEF Alone, Registering
<1>2. CASE Restart
  BY <1>2 DEF Restart, Alone, Registering
<1>3. ASSUME NEW w \in Workers, NEW n \in Names, NEW h \in Hashes(n), Register(w, n, h)
      PROVE  Alone'
  <2>1. CASE UNCHANGED <<pc, name, hash, contested>>
    BY <1>1, <2>1
  <2>2. CASE /\ pc' = [pc EXCEPT ![w] = "lock"] /\ name' = [name EXCEPT ![w] = n]
             /\ contested \subseteq contested' /\ pc[w] = "idle"
             /\ n \notin contested' => \A v \in Workers \ {w} : ~Registering(v, n)
    <3> SUFFICES ASSUME NEW u \in Workers, NEW v \in Workers, u # v, name'[u] \notin contested',
                        Registering(u, name[u])', Registering(v, name[u])'
                 PROVE  FALSE
      BY DEF Alone, Registering
    <3>1. CASE u = w
      BY <1>0, <2>2, <3>1 DEF Registering, WorkersOK
    <3>2. CASE v = w
      BY <1>0, <2>2, <3>2 DEF Registering, WorkersOK
    <3>3. CASE u # w /\ v # w
      BY <1>0, <2>2, <3>3 DEF Registering, Alone, WorkersOK
    <3> QED
      BY <3>1, <3>2, <3>3
  <2> QED
    BY <1>3, <2>1, <2>2, RegisterEffect
<1>4. ASSUME NEW w \in Workers, Lock(w) \/ Query(w) \/ Cache(w)
      PROVE  Alone'
  <2>1. /\ pc[w] \in {"lock", "query", "cache"} /\ UNCHANGED <<name, contested>>
        /\ \E p \in {"query", "cache", "unlock"} : pc' = [pc EXCEPT ![w] = p]
    BY <1>4 DEF Lock, Query, Cache, Goto, history
  <2> QED
    BY <1>0, <2>1 DEF Alone, Registering, WorkersOK
<1>5. ASSUME NEW w \in Workers, Unlock(w)
      PROVE  Alone'
  <2>1. /\ pc' = [pc EXCEPT ![w] = "idle"] /\ name' = [name EXCEPT ![w] = None]
        /\ contested' = contested
    BY <1>5 DEF Unlock, Answered, Goto
  <2> SUFFICES ASSUME NEW u \in Workers, NEW v \in Workers, u # v, name'[u] \notin contested',
                      Registering(u, name[u])', Registering(v, name[u])'
               PROVE  FALSE
    BY DEF Alone, Registering
  <2>2. u # w /\ v # w
    BY <1>0, <2>1 DEF Registering, WorkersOK
  <2> QED
    BY <1>0, <2>1, <2>2 DEF Registering, Alone, WorkersOK
<1>6. ASSUME NEW w \in Workers, NEW n \in Names, NEW h \in Hashes(n), Login(w, n, h)
      PROVE  Alone'
  BY <1>1, <1>6 DEF Login, local, history
<1>7. CASE UNCHANGED vars
  BY <1>1, <1>7 DEF vars, local, history
<1> QED
  BY <1>2, <1>3, <1>4, <1>5, <1>6, <1>7 DEF Next, Request, Holding

\* A worker that registers an uncontested name past the lookup meets no other
\* worker there.
LEMMA NoRival ==
  ASSUME RegistryInv, NEW w \in Workers, NEW v \in Workers, v # w,
         pc[w] \in {"lock", "query", "cache"}, name[w] \notin contested,
         pc[v] \in {"lock", "query", "cache"}
  PROVE  name[v] # name[w]
BY DEF RegistryInv, RegistrationsApart, Alone, Registering

\* Every step keeps what an uncontested registration found and left.
LEMMA PreparedInductive ==
  ASSUME RegistryInv, [Next]_vars, NEW v \in Workers
  PROVE  Prepared(v)'
<1>0. TypeOK /\ WorkersOK /\ DataOK /\ LockOK /\ Prepared(v)
  BY DEF RegistryInv, TypeOK, RegistrationsApart
<1>1. CASE UNCHANGED <<users, table, pc, name, hash, res, unsaved, contested>>
  BY <1>0, <1>1 DEF Prepared
<1>2. CASE Restart
  BY <1>2 DEF Restart, Prepared
<1>3. ASSUME NEW w \in Workers, NEW n \in Names, NEW h \in Hashes(n), Register(w, n, h)
      PROVE  Prepared(v)'
  <2>1. /\ pc[w] = "idle" /\ contested \subseteq contested'
        /\ UNCHANGED <<users, table, res, unsaved>>
    BY <1>3, RegisterEffect
  <2>2. CASE UNCHANGED <<pc, name, hash, contested>>
    BY <1>1, <2>1, <2>2
  <2>3. CASE /\ pc' = [pc EXCEPT ![w] = "lock"] /\ name' = [name EXCEPT ![w] = n]
             /\ hash' = [hash EXCEPT ![w] = h]
             /\ n \notin contested' => n \notin DOMAIN users /\ table[n] = <<>>
    <3>1. CASE v = w
      BY <1>0, <2>1, <2>3, <3>1 DEF Prepared, WorkersOK
    <3>2. CASE v # w
      <4>1. pc'[v] = pc[v] /\ name'[v] = name[v] /\ hash'[v] = hash[v]
        BY <1>0, <2>3, <3>2 DEF WorkersOK
      <4> QED
        BY <1>0, <2>1, <4>1 DEF Prepared
    <3> QED
      BY <3>1, <3>2
  <2> QED
    BY <1>3, <2>2, <2>3, RegisterEffect
<1>4. ASSUME NEW w \in Workers, Lock(w)
      PROVE  Prepared(v)'
  <2>1. /\ pc[w] = "lock" /\ pc' = [pc EXCEPT ![w] = "query"]
        /\ UNCHANGED <<users, table, name, hash, res, unsaved, contested>>
    BY <1>4 DEF Lock, Goto, data, history
  <2>2. CASE v = w
    <3>1. pc'[v] = "query" /\ pc[v] = "lock"
      BY <1>0, <2>1, <2>2 DEF WorkersOK
    <3> QED
      BY <1>0, <2>1, <3>1 DEF Prepared
  <2>3. CASE v # w
    <3>1. pc'[v] = pc[v]
      BY <1>0, <2>1, <2>3 DEF WorkersOK
    <3> QED
      BY <1>0, <2>1, <3>1 DEF Prepared
  <2> QED
    BY <2>2, <2>3
<1>5. ASSUME NEW w \in Workers, Query(w)
      PROVE  Prepared(v)'
  <2>1. /\ pc[w] = "query" /\ name[w] \in Names /\ hash[w] \in Names \X Passwords
        /\ pc' = [pc EXCEPT ![w] = "cache"]
        /\ UNCHANGED <<users, name, hash, contested>>
        /\ unsaved \subseteq unsaved'
        /\ \A m \in Names \ {name[w]} : table'[m] = table[m]
    BY <1>0, <1>5, QueryEffect, HashType
  <2>2. CASE v = w
    <3> SUFFICES ASSUME name[w] \notin contested
                 PROVE  /\ name[w] \notin DOMAIN users
                        /\ \/ table'[name[w]] = <<hash[w]>>
                           \/ /\ table'[name[w]] = <<>> /\ ~res'[w]
                              /\ <<name[w], hash[w]>> \in unsaved'
      BY <1>0, <2>1, <2>2 DEF Prepared, WorkersOK
    <3>1. name[w] \notin DOMAIN users /\ table[name[w]] = <<>>
      BY <1>0, <2>1, <2>2 DEF Prepared
    <3>2. <<>> \in Seq(Names \X Passwords) /\ Append(<<>>, hash[w]) = <<hash[w]>>
      BY <2>1
    <3> QED
      BY <1>0, <1>5, <3>1, <3>2, QueryEffect
  <2>3. CASE v # w
    <3>1. pc'[v] = pc[v] /\ res'[v] = res[v]
      BY <1>0, <1>5, <2>1, <2>3, QueryEffect DEF WorkersOK
    <3>2. CASE name[v] = name[w] /\ name[v] \notin contested
      <4>1. pc[v] \notin {"lock", "query", "cache"}
        BY <2>1, <2>3, <3>2, NoRival
      <4>2. pc[v] # "unlock"
        BY <1>0, <2>1, <2>3 DEF LockOK
      <4> QED
        BY <3>1, <4>1, <4>2 DEF Prepared
    <3>3. CASE name[v] # name[w] /\ pc[v] # "idle"
      <4>1. name[v] \in Names /\ table'[name[v]] = table[name[v]]
        BY <1>0, <2>1, <3>3 DEF WorkersOK
      <4> QED
        BY <1>0, <2>1, <3>1, <4>1 DEF Prepared
    <3>4. CASE name[v] \in contested \/ pc[v] = "idle"
      BY <2>1, <3>1, <3>4 DEF Prepared
    <3> QED
      BY <3>2, <3>3, <3>4
  <2> QED
    BY <2>2, <2>3
<1>6. ASSUME NEW w \in Workers, Cache(w)
      PROVE  Prepared(v)'
  <2>1. /\ pc[w] = "cache" /\ pc' = [pc EXCEPT ![w] = "unlock"]
        /\ DOMAIN users' = DOMAIN users \cup {name[w]}
        /\ UNCHANGED <<table, name, hash, res, unsaved, contested>>
    BY <1>6 DEF Cache, Goto, history
  <2>2. CASE v = w
    <3>1. pc'[v] = "unlock"
      BY <1>0, <2>1, <2>2 DEF WorkersOK
    <3> QED
      BY <1>0, <2>1, <2>2, <3>1 DEF Prepared
  <2>3. CASE v # w
    <3>1. pc'[v] = pc[v]
      BY <1>0, <2>1, <2>3 DEF WorkersOK
    <3>2. CASE pc[v] \in {"lock", "query", "cache"} /\ name[v] \notin contested
      <4>1. name[v] # name[w]
        BY <2>1, <2>3, <3>2, NoRival
      <4> QED
        BY <1>0, <2>1, <3>1, <4>1 DEF Prepared
    <3>3. CASE pc[v] \notin {"lock", "query", "cache"} \/ name[v] \in contested
      BY <1>0, <2>1, <3>1, <3>3 DEF Prepared
    <3> QED
      BY <3>2, <3>3
  <2> QED
    BY <2>2, <2>3
<1>7. ASSUME NEW w \in Workers, Unlock(w)
      PROVE  Prepared(v)'
  <2>1. /\ pc' = [pc EXCEPT ![w] = "idle"] /\ name' = [name EXCEPT ![w] = None]
        /\ hash' = [hash EXCEPT ![w] = None] /\ res' = [res EXCEPT ![w] = FALSE]
        /\ UNCHANGED <<users, table, unsaved, contested>>
    BY <1>7 DEF Unlock, Answered, Goto, data
  <2>2. CASE v = w
    <3>1. pc'[v] = "idle"
      BY <1>0, <2>1, <2>2 DEF WorkersOK
    <3> QED
      BY <3>1 DEF Prepared
  <2>3. CASE v # w
    <3>1. pc'[v] = pc[v] /\ name'[v] = name[v] /\ hash'[v] = hash[v] /\ res'[v] = res[v]
      BY <1>0, <2>1, <2>3 DEF WorkersOK
    <3> QED
      BY <1>0, <2>1, <3>1 DEF Prepared
  <2> QED
    BY <2>2, <2>3
<1>8. ASSUME NEW w \in Workers, NEW n \in Names, NEW h \in Hashes(n), Login(w, n, h)
      PROVE  Prepared(v)'
  BY <1>1, <1>8 DEF Login, data, local, history
<1>9. CASE UNCHANGED vars
  BY <1>1, <1>9 DEF vars, data, local, history
<1> QED
  BY <1>2, <1>3, <1>4, <1>5, <1>6, <1>7, <1>8, <1>9 DEF Next, Request, Holding

\* Every step keeps map and table of an uncontested name in agreement.
LEMMA CacheInductive == RegistryInv /\ [Next]_vars => CacheMatchesTable'
<1> SUFFICES ASSUME RegistryInv, [Next]_vars, NEW n \in Names, n \notin contested'
             PROVE  /\ Len(table'[n]) <= 1
                    /\ (\A w \in Workers : pc'[w] = "cache" => name'[w] # n) =>
                         IF table'[n] # <<>> THEN n \in DOMAIN users' /\ users'[n] = table'[n][1]
                         ELSE n \in DOMAIN users' => <<n, users'[n]>> \in unsaved'
  BY DEF CacheMatchesTable
<1> DEFINE
  Matches == /\ Len(table[n]) <= 1
             /\ (\A w \in Workers : pc[w] = "cache" => name[w] # n) =>
                  IF table[n] # <<>> THEN n \in DOMAIN users /\ users[n] = table[n][1]
                  ELSE n \in DOMAIN users => <<n, users[n]>> \in unsaved
<1>0. /\ WorkersOK /\ DataOK /\ LockOK /\ \A w \in Workers : Prepared(w)
      /\ n \notin contested => Matches
  BY DEF RegistryInv, TypeOK, RegistrationsApart, RegistryConsistent, CacheMatchesTable
<1>1. CASE UNCHANGED <<users, table, pc, name, unsaved, contested>>
  BY <1>0, <1>1
<1>2. CASE Restart
  <2>1. users' = Loaded /\ table' = table /\ contested' = contested
    BY <1>2 DEF Restart
  <2>2. Len(table[n]) <= 1 /\ table[n] \in Seq(Names \X Passwords)
    BY <1>0, <2>1 DEF DataOK
  <2>3. CASE table[n] = <<>>
    BY <2>1, <2>2, <2>3 DEF Loaded
  <2>4. CASE table[n] # <<>>
    <3>0. Len(table[n]) \in Nat \ {0}
      BY <2>2, <2>4, LastRow
    <3>1. Len(table[n]) = 1
      <4>1. \A k \in Nat \ {0} : k <= 1 => k = 1
        OBVIOUS
      <4> QED
        BY <2>2, <3>0, <4>1
    <3>2. n \in DOMAIN users'
      BY <2>1, <2>4 DEF Loaded
    <3>3. users'[n] = table[n][1]
      BY <2>1, <2>4, <3>1 DEF Loaded
    <3> QED
      BY <2>1, <2>2, <2>4, <3>2, <3>3
  <2> QED
    BY <2>3, <2>4
<1>3. ASSUME NEW w \in Workers, NEW m \in Names, NEW h \in Hashes(m), Register(w, m, h)
      PROVE  Matches'
  <2>1. /\ pc[w] = "idle" /\ n \notin contested
        /\ UNCHANGED <<users, table, unsaved>>
    BY <1>3, RegisterEffect
  <2>2. CASE UNCHANGED <<pc, name, hash, contested>>
    BY <1>1, <2>1, <2>2
  <2>3. CASE pc' = [pc EXCEPT ![w] = "lock"] /\ name' = [name EXCEPT ![w] = m]
    <3>1. ASSUME NEW v \in Workers
          PROVE  (pc'[v] = "cache" => name'[v] # n) <=> (pc[v] = "cache" => name[v] # n)
      BY <1>0, <2>1, <2>3 DEF WorkersOK
    <3> QED
      BY <1>0, <2>1, <3>1
  <2> QED
    BY <1>3, <2>2, <2>3, RegisterEffect
<1>4. ASSUME NEW w \in Workers, Lock(w)
      PROVE  Matches'
  <2>1. /\ pc[w] = "lock" /\ pc' = [pc EXCEPT ![w] = "query"]
        /\ UNCHANGED <<users, table, name, unsaved, contested>>
    BY <1>4 DEF Lock, Goto, data, history
  <2>2. ASSUME NEW v \in Workers
        PROVE  (pc'[v] = "cache" => name'[v] # n) <=> (pc[v] = "cache" => name[v] # n)
    BY <1>0, <2>1 DEF WorkersOK
  <2> QED
    BY <1>0, <2>1, <2>2
<1>5. ASSUME NEW w \in Workers, Query(w)
      PROVE  Matches'
  <2>1. /\ pc[w] = "query" /\ name[w] \in Names /\ hash[w] \in Names \X Passwords
        /\ pc' = [pc EXCEPT ![w] = "cache"]
        /\ UNCHANGED <<users, name, hash, contested>>
        /\ unsaved \subseteq unsaved'
        /\ \A m \in Names \ {name[w]} : table'[m] = table[m]
    BY <1>0, <1>5, QueryEffect, HashType DEF RegistryInv
  <2>2. pc'[w] = "cache" /\ \A v \in Workers \ {w} : pc'[v] = pc[v]
    BY <1>0, <2>1 DEF WorkersOK
  <2>3. CASE name[w] = n
    <3>1. table[n] = <<>>
      BY <1>0, <2>1, <2>3 DEF Prepared
    <3>2. <<>> \in Seq(Names \X Passwords) /\ Append(<<>>, hash[w]) = <<hash[w]>>
      BY <2>1
    <3>3. table'[n] = <<>> \/ table'[n] = <<hash[w]>>
      BY <1>5, <2>3, <3>1, <3>2, QueryEffect DEF RegistryInv
    <3>4. Len(table'[n]) <= 1
      <4>1. Len(<<>>) <= 1 /\ Len(<<hash[w]>>) <= 1
        OBVIOUS
      <4> QED
        BY <3>3, <4>1
    <3> QED
      BY <2>1, <2>2, <2>3, <3>4
  <2>4. CASE name[w] # n
    <3>1. ASSUME \A v \in Workers : pc'[v] = "cache" => name'[v] # n
          PROVE  \A v \in Workers : pc[v] = "cache" => name[v] # n
      BY <2>1, <2>2, <3>1
    <3> QED
      BY <1>0, <2>1, <2>4, <3>1
  <2> QED
    BY <2>3, <2>4
<1>6. ASSUME NEW w \in Workers, Cache(w)
      PROVE  Matches'
  <2>1. /\ pc[w] = "cache" /\ pc' = [pc EXCEPT ![w] = "unlock"]
        /\ users' = [m \in DOMAIN users \cup {name[w]} |->
                       IF m \in DOMAIN users THEN users[m] ELSE hash[w]]
        /\ UNCHANGED <<table, name, hash, res, unsaved, contested>>
    BY <1>6 DEF Cache, Goto, history
  <2>2. CASE name[w] = n
    <3>0. n \notin contested /\ Prepared(w)
      BY <1>0, <2>1
    <3>1. /\ n \notin DOMAIN users
          /\ \/ table[n] = <<hash[w]>>
             \/ table[n] = <<>> /\ <<n, hash[w]>> \in unsaved
      BY <2>1, <2>2, <3>0 DEF Prepared
    <3>2. n \in DOMAIN users' /\ users'[n] = hash[w]
      BY <2>1, <2>2, <3>1
    <3>3. CASE table[n] = <<hash[w]>>
      <4>1. table[n] # <<>> /\ table[n][1] = hash[w] /\ Len(table[n]) = 1
        BY <3>3
      <4> QED
        BY <2>1, <3>2, <4>1
    <3>4. CASE table[n] = <<>> /\ <<n, hash[w]>> \in unsaved
      BY <2>1, <3>2, <3>4
    <3> QED
      BY <3>1, <3>3, <3>4
  <2>3. CASE name[w] # n
    <3>1. (n \in DOMAIN users' <=> n \in DOMAIN users) /\ (n \in DOMAIN users => users'[n] = users[n])
      BY <2>1, <2>3
    <3>2. ASSUME \A v \in Workers : pc'[v] = "cache" => name'[v] # n
          PROVE  \A v \in Workers : pc[v] = "cache" => name[v] # n
      BY <1>0, <2>1, <2>3, <3>2 DEF WorkersOK
    <3> QED
      BY <1>0, <2>1, <3>1, <3>2
  <2> QED
    BY <2>2, <2>3
<1>7. ASSUME NEW w \in Workers, Unlock(w)
      PROVE  Matches'
  <2>1. /\ pc[w] = "unlock"
        /\ pc' = [pc EXCEPT ![w] = "idle"] /\ name' = [name EXCEPT ![w] = None]
        /\ UNCHANGED <<users, table, unsaved, contested>>
    BY <1>7 DEF Unlock, Answered, Goto, data
  <2>2. ASSUME NEW v \in Workers
        PROVE  (pc'[v] = "cache" => name'[v] # n) <=> (pc[v] = "cache" => name[v] # n)
    BY <1>0, <2>1 DEF WorkersOK
  <2> QED
    BY <1>0, <2>1, <2>2
<1>8. ASSUME NEW w \in Workers, NEW m \in Names, NEW h \in Hashes(m), Login(w, m, h)
      PROVE  Matches'
  BY <1>1, <1>8 DEF Login, data, local, history
<1>9. CASE UNCHANGED vars
  BY <1>1, <1>9 DEF vars, data, local, history
<1> QED
  BY <1>2, <1>3, <1>4, <1>5, <1>6, <1>7, <1>8, <1>9 DEF Next, Request, Holding

\* Every step keeps the row of an uncontested name whose registration was
\* answered with success.
LEMMA DurableInductive == RegistryInv /\ [Next]_vars => SuccessDurable'
<1> SUFFICES ASSUME RegistryInv, [Next]_vars, NEW n \in Names, n \notin contested',
                    NEW h \in Hashes(n), <<n, h>> \in told'
             PROVE  table'[n] = <<h>>
  BY DEF SuccessDurable
<1>0. /\ \A w \in Workers : Prepared(w)
      /\ n \notin contested /\ <<n, h>> \in told => table[n] = <<h>>
  BY DEF RegistryInv, RegistrationsApart, RegistryConsistent, SuccessDurable
<1>1. CASE UNCHANGED <<table, told>> /\ contested \subseteq contested'
  BY <1>0, <1>1
<1>2. ASSUME NEW w \in Workers, Query(w)
      PROVE  table'[n] = <<h>>
  <2>1. /\ pc[w] = "query" /\ UNCHANGED <<told, contested>>
        /\ \A m \in Names \ {name[w]} : table'[m] = table[m]
    BY <1>2, QueryEffect DEF RegistryInv
  <2>2. name[w] # n
    <3>1. table[n] = <<h>> /\ <<h>> # <<>>
      BY <1>0, <2>1
    <3> QED
      BY <1>0, <2>1, <3>1 DEF Prepared
  <2> QED
    BY <1>0, <2>1, <2>2
<1>3. ASSUME NEW w \in Workers, Unlock(w)
      PROVE  table'[n] = <<h>>
  <2>1. /\ pc[w] = "unlock" /\ UNCHANGED <<table, contested>>
        /\ told' = IF res[w] THEN told \cup {<<name[w], hash[w]>>} ELSE told
    BY <1>3 DEF Unlock, data
  <2>2. CASE <<n, h>> \in told
    BY <1>0, <2>1, <2>2
  <2>3. CASE res[w] /\ name[w] = n /\ hash[w] = h
    BY <1>0, <2>1, <2>3 DEF Prepared
  <2> QED
    BY <2>1, <2>2, <2>3
<1>4. ASSUME NEW w \in Workers, NEW m \in Names, NEW g \in Hashes(m), Register(w, m, g)
      PROVE  table'[n] = <<h>>
  BY <1>1, <1>4, RegisterEffect
<1>5. CASE Restart
  BY <1>1, <1>5 DEF Restart
<1> QED
  BY <1>1, <1>2, <1>3, <1>4, <1>5
  DEF Next, Request, Holding, Lock, Cache, Login, data, history, vars

\* What a registration has earned stays earned until the process stops.
LEMMA EarnedKept ==
  ASSUME RegistryInv, [Next]_vars, ~Restart, NEW n \in Names, NEW h, Earned(n, h)
  PROVE  Earned(n, h)'
<1>1. CASE UNCHANGED <<table, unsaved>>
  BY <1>1 DEF Earned
<1>2. ASSUME NEW w \in Workers, Query(w)
      PROVE  Earned(n, h)'
  <2>1. /\ hash[w] \in Names \X Passwords /\ unsaved \subseteq unsaved'
        /\ \A m \in Names \ {name[w]} : table'[m] = table[m]
        /\ table'[name[w]] = table[name[w]] \/ table'[name[w]] = Append(table[name[w]], hash[w])
    BY <1>2, QueryEffect, HashType DEF RegistryInv
  <2>2. table[n] \in Seq(Names \X Passwords)
    BY DEF RegistryInv, TypeOK, DataOK
  <2>3. CASE table'[n] = table[n]
    BY <2>1, <2>3 DEF Earned
  <2>4. CASE table'[n] = Append(table[n], hash[w])
    <3>1. CASE <<n, h>> \in unsaved
      BY <2>1, <3>1 DEF Earned
    <3>2. ASSUME NEW i \in DOMAIN table[n], table[n][i] = h
          PROVE  Earned(n, h)'
      <4>1. i \in DOMAIN table'[n] /\ table'[n][i] = h
        BY <2>1, <2>2, <2>4, <3>2, RowAdded
      <4> QED
        BY <4>1 DEF Earned
    <3> QED
      BY <3>1, <3>2 DEF Earned
  <2> QED
    BY <2>1, <2>3, <2>4
<1>3. ASSUME NEW w \in Workers, NEW m \in Names, NEW g \in Hashes(m), Register(w, m, g)
      PROVE  Earned(n, h)'
  BY <1>1, <1>3, RegisterEffect
<1> QED
  BY <1>1, <1>2, <1>3
  DEF Next, Request, Holding, Lock, Cache, Unlock, Login, data, history, vars

\* Every step keeps what is in the map, or on its way there, earned.
LEMMA CacheEarnedInductive == RegistryInv /\ [Next]_vars => CacheEarned'
<1> SUFFICES ASSUME RegistryInv, [Next]_vars PROVE CacheEarned'
  OBVIOUS
<1>0. /\ WorkersOK /\ DataOK /\ CacheEarned
  BY DEF RegistryInv, TypeOK
<1>1. CASE Restart
  <2>1. /\ users' = Loaded /\ table' = table
        /\ \A w \in Workers : pc'[w] = "idle"
    BY <1>1 DEF Restart
  <2>2. ASSUME NEW n \in DOMAIN users'
        PROVE  \E i \in DOMAIN table'[n] : table'[n][i] = users'[n]
    <3>1. n \in Names /\ table[n] # <<>> /\ users'[n] = table[n][Len(table[n])]
      BY <2>1, <2>2 DEF Loaded
    <3>2. Len(table[n]) \in DOMAIN table[n]
      BY <1>0, <3>1, LastRow DEF DataOK
    <3> QED
      BY <2>1, <3>1, <3>2
  <2> QED
    BY <2>1, <2>2 DEF CacheEarned, Earned
<1>2. CASE ~Restart
  <2> DEFINE StaysEarned(n, h) == \/ <<n, h>> \in unsaved'
                                  \/ \E i \in DOMAIN table'[n] : table'[n][i] = h
  <2>1. ASSUME NEW n \in Names, NEW h, Earned(n, h)
        PROVE  StaysEarned(n, h)
    BY <1>2, <2>1, EarnedKept DEF Earned
  <2>2. ASSUME NEW n \in DOMAIN users
        PROVE  StaysEarned(n, users[n])
    BY <1>0, <2>1, <2>2 DEF CacheEarned, DataOK
  <2>3. ASSUME NEW w \in Workers, pc[w] = "cache"
        PROVE  StaysEarned(name[w], hash[w])
    BY <1>0, <2>1, <2>3 DEF CacheEarned, WorkersOK
  <2>4. ASSUME users' = users,
               \A w \in Workers : pc'[w] = "cache" =>
                  pc[w] = "cache" /\ name'[w] = name[w] /\ hash'[w] = hash[w]
        PROVE  CacheEarned'
    BY <2>2, <2>3, <2>4 DEF CacheEarned, Earned
  <2>5. ASSUME NEW w \in Workers, NEW n \in Names, NEW h \in Hashes(n),
               Register(w, n, h) \/ Login(w, n, h)
        PROVE  CacheEarned'
    <3>1. /\ users' = users
          /\ \/ UNCHANGED <<pc, name, hash>>
             \/ /\ pc' = [pc EXCEPT ![w] = "lock"]
                /\ name' = [name EXCEPT ![w] = n] /\ hash' = [hash EXCEPT ![w] = h]
      BY <2>5 DEF Register, Login, Goto, data, local
    <3> QED
      BY <1>0, <2>4, <3>1 DEF WorkersOK
  <2>6. ASSUME NEW w \in Workers, Lock(w)
        PROVE  CacheEarned'
    <3>1. /\ users' = users /\ name' = name /\ hash' = hash
          /\ pc' = [pc EXCEPT ![w] = "query"]
      BY <2>6 DEF Lock, Goto, data
    <3> QED
      BY <1>0, <2>4, <3>1 DEF WorkersOK
  <2>7. ASSUME NEW w \in Workers, Unlock(w)
        PROVE  CacheEarned'
    <3>1. /\ users' = users /\ pc' = [pc EXCEPT ![w] = "idle"]
          /\ name' = [name EXCEPT ![w] = None] /\ hash' = [hash EXCEPT ![w] = None]
      BY <2>7 DEF Unlock, Answered, Goto, data
    <3> QED
      BY <1>0, <2>4, <3>1 DEF WorkersOK
  <2>8. ASSUME NEW w \in Workers, Query(w)
        PROVE  CacheEarned'
    <3>1. /\ users' = users /\ name' = name /\ hash' = hash
          /\ pc' = [pc EXCEPT ![w] = "cache"]
          /\ hash[w] \in Names \X Passwords /\ name[w] \in Names
          /\ \/ table'[name[w]] = Append(table[name[w]], hash[w])
             \/ <<name[w], hash[w]>> \in unsaved'
      BY <2>8, QueryEffect, HashType DEF RegistryInv
    <3>2. StaysEarned(name[w], hash[w])
      <4>1. CASE table'[name[w]] = Append(table[name[w]], hash[w])
        <5>1. table[name[w]] \in Seq(Names \X Passwords)
          BY <1>0, <3>1 DEF DataOK
        <5>2. /\ Len(table[name[w]]) + 1 \in DOMAIN table'[name[w]]
              /\ table'[name[w]][Len(table[name[w]]) + 1] = hash[w]
          BY <3>1, <4>1, <5>1, RowAdded
        <5> QED
          BY <5>2
      <4> QED
        BY <3>1, <4>1
    <3>3. ASSUME NEW v \in Workers, pc'[v] = "cache"
          PROVE  StaysEarned(name'[v], hash'[v])
      <4>1. v = w \/ pc[v] = "cache"
        BY <1>0, <3>1, <3>3 DEF WorkersOK
      <4> QED
        BY <2>3, <3>1, <3>2, <4>1
    <3> QED
      BY <2>2, <3>1, <3>3 DEF CacheEarned, Earned
  <2>9. ASSUME NEW w \in Workers, Cache(w)
        PROVE  CacheEarned'
    <3>1. /\ users' = [n \in DOMAIN users \cup {name[w]} |->
                         IF n \in DOMAIN users THEN users[n] ELSE hash[w]]
          /\ name' = name /\ hash' = hash /\ pc[w] = "cache"
          /\ pc' = [pc EXCEPT ![w] = "unlock"]
      BY <2>9 DEF Cache, Goto
    <3>2. ASSUME NEW n \in DOMAIN users'
          PROVE  StaysEarned(n, users'[n])
      <4>1. CASE n \in DOMAIN users
        <5>1. users'[n] = users[n]
          BY <3>1, <4>1
        <5> QED
          BY <2>2, <4>1, <5>1
      <4>2. CASE n \notin DOMAIN users
        <5>1. n = name[w] /\ users'[n] = hash[w]
          BY <3>1, <3>2, <4>2
        <5> QED
          BY <2>3, <3>1, <5>1
      <4> QED
        BY <4>1, <4>2
    <3>3. \A v \in Workers : pc'[v] = "cache" => pc[v] = "cache"
      BY <1>0, <3>1 DEF WorkersOK
    <3> QED
      BY <2>3, <3>1, <3>2, <3>3 DEF CacheEarned, Earned
  <2>10. CASE UNCHANGED vars
    BY <2>4, <2>10 DEF vars, data, local
  <2> QED
    BY <1>2, <2>5, <2>6, <2>7, <2>8, <2>9, <2>10 DEF Next, Request, Holding
<1> QED
  BY <1>1, <1>2

\* Nobody is greeted for a password that was not earned.
LEMMA WelcomeInductive == RegistryInv /\ [Next]_vars => WelcomeEarned'
<1> SUFFICES ASSUME RegistryInv, [Next]_vars, page'[1] = "welcome"
             PROVE  page'[2] \in Names /\ Earned(page[2], page[3])'
  BY DEF WelcomeEarned
<1>0. DataOK /\ CacheEarned /\ WelcomeEarned
  BY DEF RegistryInv, TypeOK, RegistryConsistent
<1>1. ~Restart
  BY DEF Restart, Page
<1> DEFINE StaysEarned(n, h) == \/ <<n, h>> \in unsaved'
                                \/ \E i \in DOMAIN table'[n] : table'[n][i] = h
<1>2. ASSUME NEW n \in Names, NEW h, Earned(n, h)
      PROVE  StaysEarned(n, h)
  BY <1>1, <1>2, EarnedKept DEF Earned
<1>3. CASE page' = page
  <2>1. page[2] \in Names /\ StaysEarned(page[2], page[3])
    BY <1>0, <1>2, <1>3 DEF WelcomeEarned
  <2> QED
    BY <1>3, <2>1 DEF Earned
<1>4. ASSUME NEW w \in Workers, NEW n \in Names, NEW h \in Hashes(n), Login(w, n, h)
      PROVE  page'[2] \in Names /\ Earned(page[2], page[3])'
  <2>1. n \in DOMAIN users /\ users[n] = h /\ page' = <<"welcome", n, h>>
    <3>1. PICK found \in Found(w, n) :
            page' = IF found /\ users[n] = h THEN <<"welcome", n, h>> ELSE Page("logError")
      BY <1>4 DEF Login
    <3>2. found = (n \in DOMAIN users) \/ found = FALSE
      BY <3>1 DEF Found
    <3>3. found /\ users[n] = h
      BY <3>1 DEF Page
    <3>4. page' = <<"welcome", n, h>>
      BY <3>1, <3>3
    <3> QED
      BY <3>2, <3>3, <3>4
  <2>2. StaysEarned(n, h)
    BY <1>0, <1>2, <2>1 DEF CacheEarned
  <2> QED
    BY <2>1, <2>2 DEF Earned
<1>5. ASSUME NEW w \in Workers, NEW n \in Names, NEW h \in Hashes(n), Register(w, n, h)
      PROVE  page' = page
  BY <1>5, RegisterEffect DEF Page
<1>6. ASSUME NEW w \in Workers, Unlock(w)
      PROVE  FALSE
  BY <1>6 DEF Unlock, Page
<1> QED
  BY <1>1, <1>3, <1>4, <1>5, <1>6 DEF Next, Request, Holding, Lock, Query, Cache, vars

\* Map, table and answers agree for every name of which no two registrations
\* overlapped (do_request, initmysql_result): RegistryConsistent for any number
\* of workers, names, passwords and restarts, whatever the database answers.
THEOREM RegistryAlwaysConsistent == Spec => []RegistryConsistent
<1>1. Init => RegistryInv
  <2> SUFFICES ASSUME Init PROVE RegistryInv
    OBVIOUS
  <2>1. TypeOK
    BY InitialTypes
  <2>2. /\ \A n \in Names : table[n] = <<>>
        /\ DOMAIN users = {} /\ told = {}
        /\ \A w \in Workers : pc[w] = "idle"
        /\ page[1] = "none"
    BY DEF Init, Loaded, Page
  <2>3. CacheMatchesTable
    <3>1. Len(<<>>) <= 1
      OBVIOUS
    <3> QED
      BY <2>2, <3>1 DEF CacheMatchesTable
  <2>4. RegistrationsApart
    BY <2>2 DEF RegistrationsApart, Alone, Prepared, Registering
  <2> QED
    BY <2>1, <2>2, <2>3, <2>4
    DEF RegistryInv, RegistryConsistent, SuccessDurable, WelcomeEarned, CacheEarned
<1>2. RegistryInv /\ [Next]_vars => RegistryInv'
  <2> SUFFICES ASSUME RegistryInv, [Next]_vars PROVE RegistryInv'
    OBVIOUS
  <2>1. TypeOK'
    BY DataInductive, WorkersInductive, LockInductive DEF RegistryInv, TypeOK
  <2>2. RegistrationsApart'
    BY AloneInductive, PreparedInductive DEF RegistrationsApart
  <2> QED
    BY <2>1, <2>2, CacheInductive, DurableInductive, CacheEarnedInductive, WelcomeInductive
    DEF RegistryInv, RegistryConsistent
<1>3. RegistryInv => RegistryConsistent
  BY DEF RegistryInv
<1> QED
  BY <1>1, <1>2, <1>3, PTL DEF Spec

\* A password in the map is only replaced by a restart: users.insert() keeps
\* what is there (do_request): PasswordStable, races included.
THEOREM PasswordsStable == Spec => PasswordStable
<1> DEFINE Stable == restarts' = restarts =>
                       \A n \in DOMAIN users : n \in DOMAIN users' /\ users'[n] = users[n]
<1>1. Init => restarts \in Nat
  BY DEF Init
<1>2. restarts \in Nat /\ [Next]_vars => (restarts \in Nat)'
  <2>1. Restart => restarts' = restarts + 1
    BY DEF Restart
  <2>2. ASSUME NEW w \in Workers, Request(w) \/ Lock(w) \/ Holding(w)
        PROVE  restarts' = restarts
    BY <2>2 DEF Request, Register, Login, Lock, Holding, Query, Cache, Unlock
  <2>3. UNCHANGED vars => restarts' = restarts
    BY DEF vars
  <2> QED
    BY <2>1, <2>2, <2>3 DEF Next
<1>3. restarts \in Nat /\ [Next]_vars => [Stable]_vars
  <2> SUFFICES ASSUME restarts \in Nat, Next, restarts' = restarts, NEW n \in DOMAIN users
               PROVE  n \in DOMAIN users' /\ users'[n] = users[n]
    OBVIOUS
  <2>1. ~Restart
    BY DEF Restart
  <2>2. CASE users' = users
    BY <2>2
  <2>3. ASSUME NEW w \in Workers, Cache(w)
        PROVE  n \in DOMAIN users' /\ users'[n] = users[n]
    BY <2>3 DEF Cache
  <2> QED
    BY <2>1, <2>2, <2>3
    DEF Next, Request, Register, Login, Lock, Holding, Query, Unlock, data
<1> QED
  BY <1>1, <1>2, <1>3, PTL DEF Spec, PasswordStable

=============================================================================
