--------------------------- MODULE ConnectionPool ---------------------------
(***************************************************************************)
(* The MySQL connection pool of CGImysql/sql_connection_pool.cpp and its   *)
(* RAII guard connectionRAII, used by every worker of the thread pool      *)
(* around process().                                                       *)
(*                                                                         *)
(* GetConnection looks at the list without the lock, then waits on the     *)
(* semaphore, then locks; ReleaseConnection unlocks before it posts.  The  *)
(* guard's constructor stores the connection in http_conn::mysql, a field  *)
(* other threads write too, and reads it back.  Each of these is a step:   *)
(* other threads run between them.                                         *)
(***************************************************************************)
EXTENDS Integers, Sequences, FiniteSets

CONSTANTS
  Threads,     \* the workers
  Conns,       \* the connections init() opened
  Objects,     \* the http_conn objects requests arrive on
  NULL,        \* the null MYSQL*, and no object
  MaxSignals,  \* bound: the signals that interrupt a wait
  Shutdown     \* may the pool be destroyed while workers run (main returns)?

ASSUME PoolAssumption ==
  /\ IsFiniteSet(Threads)
  /\ IsFiniteSet(Conns)
  /\ NULL \notin Conns \cup Objects
  /\ MaxSignals \in Nat
  /\ Shutdown \in BOOLEAN

VARIABLES
  connList,    \* the free connections, oldest first
  missing,     \* the nodes pop_front() removed from an empty list
  reserve,     \* the value of the semaphore
  m_FreeConn, m_CurConn,
  destroyed,   \* has DestroyPool() run?
  closed,      \* the connections mysql_close() was called on
  interrupted, \* history: the waits that a signal ended
  mysql,       \* http_conn::mysql of each object
  spoiled,     \* history: the connections a guard lost to, or got from, another thread
  at,          \* where each worker is
  obj,         \* the object its guard is constructed for
  conRAII      \* what GetConnection() returned, then the guard's conRAII

listVars == <<connList, missing, reserve, m_FreeConn, m_CurConn>>
endVars == <<destroyed, closed>>
guardVars == <<mysql, spoiled, at, obj, conRAII>>
vars == <<listVars, endVars, interrupted, guardVars>>

\* outside: no guard; waiting: in reserve.wait(); granted: about to lock;
\* returned: out of GetConnection; stored: *SQL is set; holding: the guard lives;
\* owed: released, post() is due.
Places == {"outside", "waiting", "granted", "returned", "stored", "holding", "owed"}

Elements(s) == {s[i] : i \in DOMAIN s}
Goto(t, place) == at' = [at EXCEPT ![t] = place]

\* What connList.size() returns, up to wrapping around: libstdc++ counts nodes.
Size == Len(connList) - missing

\* init(): every connection is pushed, counted and covered by the semaphore.
Init ==
  /\ connList \in [1..Cardinality(Conns) -> Conns]
  /\ Elements(connList) = Conns /\ missing = 0
  /\ reserve = Cardinality(Conns)
  /\ m_FreeConn = Cardinality(Conns) /\ m_CurConn = 0
  /\ destroyed = FALSE /\ closed = {} /\ interrupted = 0
  /\ mysql = [o \in Objects |-> NULL] /\ spoiled = {}
  /\ at = [t \in Threads |-> "outside"]
  /\ obj = [t \in Threads |-> NULL]
  /\ conRAII = [t \in Threads |-> NULL]
-----------------------------------------------------------------------------
(* Variants with one mistake each; no specification uses them.              *)

\* The front is used but not popped.
TakeNoPop(t) ==
  /\ at[t] = "granted"
  /\ m_FreeConn' = m_FreeConn - 1
  /\ m_CurConn' = m_CurConn + 1
  /\ IF connList = <<>>
     THEN missing' = missing + 1 /\ UNCHANGED conRAII
     ELSE conRAII' = [conRAII EXCEPT ![t] = Head(connList)] /\ UNCHANGED missing
  /\ Goto(t, "returned")
  /\ UNCHANGED <<connList, reserve, endVars, interrupted, mysql, spoiled, obj>>

\* The null pointer is released like a connection: only post() is skipped.
ReleaseMiscounts(t) ==
  /\ at[t] = "holding"
  /\ m_FreeConn' = m_FreeConn + 1
  /\ m_CurConn' = m_CurConn - 1
  /\ IF conRAII[t] = NULL
     THEN Goto(t, "outside") /\ UNCHANGED connList
     ELSE connList' = Append(connList, conRAII[t]) /\ Goto(t, "owed")
  /\ conRAII' = [conRAII EXCEPT ![t] = NULL]
  /\ UNCHANGED <<missing, reserve, endVars, interrupted, mysql, spoiled, obj>>

\* The guard goes on referring to the connection it has given back.
ReleaseKeeps(t) ==
  /\ at[t] = "holding"
  /\ IF conRAII[t] = NULL
     THEN /\ Goto(t, "outside")
          /\ UNCHANGED <<connList, m_FreeConn, m_CurConn>>
     ELSE /\ connList' = Append(connList, conRAII[t])
          /\ m_FreeConn' = m_FreeConn + 1
          /\ m_CurConn' = m_CurConn - 1
          /\ Goto(t, "owed")
  /\ UNCHANGED <<missing, reserve, endVars, interrupted, mysql, spoiled, obj, conRAII>>

\* push_back forgotten: the token is posted without the connection.
ReleaseDrops(t) ==
  /\ at[t] = "holding"
  /\ IF conRAII[t] = NULL
     THEN /\ Goto(t, "outside")
          /\ UNCHANGED <<connList, m_FreeConn, m_CurConn>>
     ELSE /\ connList' = connList
          /\ m_FreeConn' = m_FreeConn + 1
          /\ m_CurConn' = m_CurConn - 1
          /\ Goto(t, "owed")
  /\ conRAII' = [conRAII EXCEPT ![t] = NULL]
  /\ UNCHANGED <<missing, reserve, endVars, interrupted, mysql, spoiled, obj>>

\* A connection is returned to the list but its token is not.
PostForgotten(t) ==
  /\ at[t] = "owed"
  /\ Goto(t, "outside")
  /\ UNCHANGED <<listVars, endVars, interrupted, mysql, spoiled, obj, conRAII>>

\* DestroyPool() closes every connection ever opened.
DestroyAll ==
  /\ Shutdown /\ ~destroyed
  /\ destroyed' = TRUE
  /\ closed' = Conns
  /\ connList' = <<>> /\ missing' = 0
  /\ m_FreeConn' = 0 /\ m_CurConn' = 0
  /\ UNCHANGED <<reserve, interrupted, guardVars>>
-----------------------------------------------------------------------------
(* GetConnection, from the constructor of connectionRAII.                   *)

\* A worker constructs a guard for object o.  The list is looked at without the
\* lock: if it is empty, NULL is the answer.  Bound: once the pool is destroyed the
\* workers in GetConnection and the guards are followed to their end, no new guard.
Look(t, o) ==
  /\ at[t] = "outside"
  /\ ~destroyed
  /\ obj' = [obj EXCEPT ![t] = o]
  /\ Goto(t, IF Size = 0 THEN "returned" ELSE "waiting")
  /\ UNCHANGED <<listVars, endVars, interrupted, mysql, spoiled, conRAII>>

\* reserve.wait() takes a token.
Wait(t) ==
  /\ at[t] = "waiting"
  /\ reserve > 0
  /\ reserve' = reserve - 1
  /\ Goto(t, "granted")
  /\ UNCHANGED <<connList, missing, m_FreeConn, m_CurConn, endVars, interrupted,
                 mysql, spoiled, obj, conRAII>>

\* reserve.wait() fails with EINTR, even if a post() comes in between; the result
\* is ignored.
Interrupted(t) ==
  /\ at[t] = "waiting"
  /\ interrupted < MaxSignals
  /\ interrupted' = interrupted + 1
  /\ Goto(t, "granted")
  /\ UNCHANGED <<listVars, endVars, mysql, spoiled, obj, conRAII>>

\* The critical section.  front() and pop_front() of an empty list are undefined:
\* if the process survives them, libstdc++ hands out the list's size field, which
\* is the null pointer, counts a node less, and the counters move all the same.
Take(t) ==
  /\ at[t] = "granted"
  /\ m_FreeConn' = m_FreeConn - 1
  /\ m_CurConn' = m_CurConn + 1
  /\ IF connList = <<>>
     THEN missing' = missing + 1 /\ UNCHANGED <<connList, conRAII>>
     ELSE /\ conRAII' = [conRAII EXCEPT ![t] = Head(connList)]
          /\ connList' = Tail(connList)
          /\ UNCHANGED missing
  /\ Goto(t, "returned")
  /\ UNCHANGED <<reserve, endVars, interrupted, mysql, spoiled, obj>>

(* The rest of the constructor, and the field it shares.                    *)

\* *SQL = connPool->GetConnection().
Store(t) ==
  /\ at[t] = "returned"
  /\ mysql' = [mysql EXCEPT ![obj[t]] = conRAII[t]]
  /\ Goto(t, "stored")
  /\ UNCHANGED <<listVars, endVars, interrupted, spoiled, obj, conRAII>>

\* conRAII = *SQL: whatever is in the field by now.
Adopt(t) ==
  /\ at[t] = "stored"
  /\ LET got == mysql[obj[t]]
     IN /\ conRAII' = [conRAII EXCEPT ![t] = got]
        /\ spoiled' = IF got = conRAII[t] THEN spoiled
                      ELSE spoiled \cup ({got, conRAII[t]} \ {NULL})
  /\ obj' = [obj EXCEPT ![t] = NULL]
  /\ Goto(t, "holding")
  /\ UNCHANGED <<listVars, endVars, interrupted, mysql>>

\* init() of an object, by the event loop for a new connection or by a worker
\* after a response.
Reset(o) ==
  /\ mysql' = [mysql EXCEPT ![o] = NULL]
  /\ UNCHANGED <<listVars, endVars, interrupted, spoiled, at, obj, conRAII>>

(* ReleaseConnection, from the destructor.                                  *)

\* NULL is not returned; a connection goes to the back of the list.
Release(t) ==
  /\ at[t] = "holding"
  /\ IF conRAII[t] = NULL
     THEN /\ Goto(t, "outside")
          /\ UNCHANGED <<connList, m_FreeConn, m_CurConn>>
     ELSE /\ connList' = Append(connList, conRAII[t])
          /\ m_FreeConn' = m_FreeConn + 1
          /\ m_CurConn' = m_CurConn - 1
          /\ Goto(t, "owed")
  /\ conRAII' = [conRAII EXCEPT ![t] = NULL]
  /\ UNCHANGED <<missing, reserve, endVars, interrupted, mysql, spoiled, obj>>

\* reserve.post(), after unlock().
Post(t) ==
  /\ at[t] = "owed"
  /\ reserve' = reserve + 1
  /\ Goto(t, "outside")
  /\ UNCHANGED <<connList, missing, m_FreeConn, m_CurConn, endVars, interrupted,
                 mysql, spoiled, obj, conRAII>>

\* DestroyPool(), once, from the destructor of the static pool: the free
\* connections are closed, the semaphore keeps its value.
DestroyPool ==
  /\ Shutdown /\ ~destroyed
  /\ destroyed' = TRUE
  /\ IF Size = 0
     THEN UNCHANGED <<connList, missing, m_FreeConn, m_CurConn, closed>>
     ELSE /\ closed' = Elements(connList)
          /\ connList' = <<>> /\ missing' = 0
          /\ m_FreeConn' = 0 /\ m_CurConn' = 0
  /\ UNCHANGED <<reserve, interrupted, guardVars>>

Step(t) ==
  \/ \E o \in Objects : Look(t, o)
  \/ Wait(t) \/ Take(t) \/ Store(t) \/ Adopt(t)
  \/ Release(t) \/ Post(t)

Next ==
  \/ \E t \in Threads : Step(t) \/ Interrupted(t)
  \/ \E o \in Objects : Reset(o)
  \/ DestroyPool

\* Workers run and requests end; nothing obliges a worker to start another one.
Fairness ==
  \A t \in Threads :
    /\ WF_vars(Wait(t)) /\ WF_vars(Take(t)) /\ WF_vars(Store(t)) /\ WF_vars(Adopt(t))
    /\ WF_vars(Release(t)) /\ WF_vars(Post(t))

Spec == Init /\ [][Next]_vars /\ Fairness
-----------------------------------------------------------------------------
(* Properties.                                                              *)

\* Types, and: a worker has a connection only from Take to Release, and an
\* object from Look to Adopt.
TypeOK ==
  /\ connList \in Seq(Conns)
  /\ missing \in Nat /\ reserve \in Nat
  /\ m_FreeConn \in Int /\ m_CurConn \in Int
  /\ destroyed \in BOOLEAN /\ closed \subseteq Conns /\ (closed # {} => destroyed)
  /\ interrupted \in 0..MaxSignals
  /\ mysql \in [Objects -> Conns \cup {NULL}]
  /\ spoiled \subseteq Conns
  /\ at \in [Threads -> Places]
  /\ obj \in [Threads -> Objects \cup {NULL}]
  /\ conRAII \in [Threads -> Conns \cup {NULL}]
  /\ \A t \in Threads :
       /\ conRAII[t] # NULL => at[t] \in {"returned", "stored", "holding"}
       /\ (obj[t] = NULL) <=> (at[t] \in {"outside", "holding", "owed"})

\* A connection is in one place only: no two workers use it at a time, none is
\* both free and in use, none is twice in the list (GetConnection and
\* ReleaseConnection on behalf of connectionRAII).  The exception is a connection
\* whose guard read another thread's value back from http_conn::mysql.
Exclusive ==
  /\ \A t, u \in Threads :
       t # u /\ conRAII[t] \notin {NULL} \cup spoiled => conRAII[t] # conRAII[u]
  /\ \A t \in Threads : conRAII[t] \notin Elements(connList) \ spoiled
  /\ \A i, j \in DOMAIN connList : i # j /\ connList[i] \notin spoiled => connList[i] # connList[j]

\* No worker uses a connection that mysql_close() was called on, even when the
\* pool is destroyed while requests are being processed: with the exception of
\* Exclusive.
NoUseAfterClose == \A t \in Threads : conRAII[t] \notin closed \ spoiled

\* The workers that have a connection.
Held == {t \in Threads : conRAII[t] # NULL}

\* Until the pool is destroyed, which zeroes both, m_FreeConn is the number of
\* free connections less the fronts that were not there, and m_FreeConn and
\* m_CurConn add up to all connections, although NULL is handed out and released
\* too; m_CurConn counts the workers that have a connection and the fronts that
\* were not there as long as no guard read another thread's value.
CountsExact ==
  ~destroyed =>
    /\ m_FreeConn = Len(connList) - missing
    /\ m_FreeConn + m_CurConn = Cardinality(Conns)
    /\ spoiled = {} => m_CurConn = Cardinality(Held) + missing

\* Every connection is free, held or closed by DestroyPool: RAII returns what
\* was taken, unless the guard read another thread's value.
NoConnLost ==
  \A c \in Conns \ spoiled : \/ c \in Elements(connList) \cup closed
                             \/ \E t \in Threads : conRAII[t] = c

\* The two counters are right and no connection is lost, through interrupted
\* waits and NULLs: but an empty front leaves both counters one off for good, and
\* a guard that reads another thread's value loses its own connection.
Accounted == CountsExact /\ NoConnLost

\* Until the pool is destroyed, a worker past reserve.wait() finds a connection
\* unless a signal ended a wait, and each signal costs one empty front at most:
\* the semaphore never promises more than the list holds, although it is posted
\* and taken outside the lock.
NoEmptyFront == ~destroyed => missing =< interrupted

\* Until the pool is destroyed no guard holds NULL, provided that there are as
\* many connections as workers, no signal ended a wait and no guard read another
\* thread's value: then the list is not empty when GetConnection looks at it.
NeverNull ==
  ~destroyed /\ interrupted = 0 /\ spoiled = {} =>
    \A t \in Threads : at[t] \in {"returned", "stored", "holding"} => conRAII[t] # NULL

\* While a worker waits for a connection, again and again some worker is let
\* through: a token taken comes back.  The exceptions are a connection that a guard
\* lost, whose token is lost with it, and the destruction of the pool.
WaitEnds ==
  (\E t \in Threads : at[t] = "waiting")
    ~> ((\E t \in Threads : at[t] = "granted") \/ spoiled # {} \/ destroyed)

=============================================================================
