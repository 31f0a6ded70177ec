---------------------------- MODULE UserRegistry ----------------------------
(***************************************************************************)
(* Registration and login: the map users, which caches the table user of   *)
(* the database, and the workers that use it in do_request                 *)
(* (http/http_conn.cpp).  m_lock guards the INSERT and the insertion into  *)
(* the map, and nothing else: users.find() runs without it.                *)
(*                                                                         *)
(* The database is external: an INSERT may add a row, be refused, or add   *)
(* the row and lose the answer.  Whether the table admits a name twice is  *)
(* not known here, so it may.  The process may stop at any moment, and     *)
(* initmysql_result fills the map from the table when it starts again.     *)
(***************************************************************************)
EXTENDS Naturals, Sequences, FiniteSets

CONSTANTS
  Workers, Names, Passwords,
  MaxInserts,    \* bound of the model: registrations that find the name free
  MaxRestarts,   \* bound of the model
  None

ASSUME RegistryAssumption ==
  /\ MaxInserts \in Nat /\ MaxRestarts \in Nat
  /\ None \notin Workers

VARIABLES
  users,       \* the map: a function from the cached names
  table,       \* the rows of each name, in the order of the table
  m_lock,      \* who holds it
  pc,          \* idle, lock, query, cache, unlock
  name, hash,  \* what the registration under way carries
  res,         \* the INSERT succeeded
  page,        \* the last answer: its kind, and whom it welcomes
  inserts, restarts,
  told,        \* history: registrations answered with success
  unsaved,     \* history: what entered the map without a row, since the start
  contested    \* history: names two registrations found missing

data == <<users, table>>
local == <<pc, name, hash, res>>
history == <<told, unsaved, contested>>
vars == <<data, m_lock, local, page, inserts, restarts, history>>

\* get_salted_hash(): the name is the salt.
Hash(n, password) == <<n, password>>
Hashes(n) == {Hash(n, p) : p \in Passwords}

\* A page that welcomes nobody.
Page(kind) == <<kind, None, None>>

\* initmysql_result(): users[row[0]] = row[1], row after row.
Loaded == [n \in {m \in Names : table[m] # <<>>} |-> table[n][Len(table[n])]]

Init ==
  /\ table \in [Names -> {<<>>}] /\ users = Loaded
  /\ m_lock = None
  /\ pc = [w \in Workers |-> "idle"]
  /\ name = [w \in Workers |-> None] /\ hash = [w \in Workers |-> None]
  /\ res = [w \in Workers |-> FALSE] /\ page = Page("none")
  /\ inserts = 0 /\ restarts = 0
  /\ told = {} /\ unsaved = {} /\ contested = {}

Goto(w, state) == pc' = [pc EXCEPT ![w] = state]

\* The registration of w is over.
Answered(w) ==
  /\ Goto(w, "idle")
  /\ name' = [name EXCEPT ![w] = None] /\ hash' = [hash EXCEPT ![w] = None]
  /\ res' = [res EXCEPT ![w] = FALSE]

\* Past the test of users.find() with this name.
Registering(w, n) == name[w] = n /\ pc[w] \in {"lock", "query", "cache"}

\* users.find(n) by w.  While another thread inserts into the map this is a
\* data race, and the search may miss a name that is there.
Found(w, n) ==
  IF \E v \in Workers \ {w} : pc[v] = "cache"
  THEN {(n \in DOMAIN users), FALSE}
  ELSE {(n \in DOMAIN users)}

\* register.cgi: the name is looked up, without the lock.
Register(w, n, h) ==
  /\ pc[w] = "idle"
  /\ \E found \in Found(w, n) :
       IF found
       THEN page' = Page("registerError") /\ UNCHANGED <<pc, name, hash, inserts, contested>>
       ELSE /\ inserts < MaxInserts /\ inserts' = inserts + 1
            /\ Goto(w, "lock")
            /\ name' = [name EXCEPT ![w] = n] /\ hash' = [hash EXCEPT ![w] = h]
            /\ contested' = IF \/ n \in DOMAIN users
                               \/ \E v \in Workers \ {w} : Registering(v, n)
                            THEN contested \cup {n} ELSE contested
            /\ UNCHANGED page
  /\ UNCHANGED <<data, m_lock, res, restarts, told, unsaved>>

\* Variant: without the lock.
LockLeftOut(w) ==
  /\ pc[w] = "lock"
  /\ Goto(w, "query")
  /\ UNCHANGED <<data, m_lock, name, hash, res, page, inserts, restarts, history>>

\* m_lock.lock()
Lock(w) ==
  /\ pc[w] = "lock" /\ m_lock = None
  /\ m_lock' = w
  /\ Goto(w, "query")
  /\ UNCHANGED <<data, name, hash, res, page, inserts, restarts, history>>

\* mysql_query(): the INSERT.
Query(w) ==
  /\ pc[w] = "query"
  /\ \E added \in BOOLEAN :
       /\ table' = IF added THEN [table EXCEPT ![name[w]] = Append(@, hash[w])] ELSE table
       /\ res' \in {[res EXCEPT ![w] = ok] : ok \in {added, FALSE}}
       /\ unsaved' = IF added THEN unsaved ELSE unsaved \cup {<<name[w], hash[w]>>}
  /\ Goto(w, "cache")
  /\ UNCHANGED <<users, m_lock, name, hash, page, inserts, restarts, told, contested>>

\* Variant: users[name] = hashed_pwd.
CacheOverwrites(w) ==
  /\ pc[w] = "cache"
  /\ users' = [n \in DOMAIN users \cup {name[w]} |-> IF n = name[w] THEN hash[w] ELSE users[n]]
  /\ Goto(w, "unlock")
  /\ UNCHANGED <<table, m_lock, name, hash, res, page, inserts, restarts, history>>

\* users.insert(): a name that is there keeps its value.
Cache(w) ==
  /\ pc[w] = "cache"
  /\ users' = [n \in DOMAIN users \cup {name[w]} |->
                 IF n \in DOMAIN users THEN users[n] ELSE hash[w]]
  /\ Goto(w, "unlock")
  /\ UNCHANGED <<table, m_lock, name, hash, res, page, inserts, restarts, history>>

\* Variant: the result of the INSERT does not matter.
UnlockAlwaysTold(w) ==
  /\ pc[w] = "unlock"
  /\ m_lock' = None
  /\ page' = Page("log")
  /\ told' = told \cup {<<name[w], hash[w]>>}
  /\ Answered(w)
  /\ UNCHANGED <<data, inserts, restarts, unsaved, contested>>

\* Variant: an INSERT that failed returns early.
UnlockIfDone(w) ==
  /\ pc[w] = "unlock"
  /\ m_lock' = IF res[w] THEN None ELSE m_lock
  /\ page' = IF res[w] THEN Page("log") ELSE Page("registerError")
  /\ told' = IF res[w] THEN told \cup {<<name[w], hash[w]>>} ELSE told
  /\ Answered(w)
  /\ UNCHANGED <<data, inserts, restarts, unsaved, contested>>

\* m_lock.unlock(), and the answer.
Unlock(w) ==
  /\ pc[w] = "unlock"
  /\ m_lock' = None
  /\ page' = IF res[w] THEN Page("log") ELSE Page("registerError")
  /\ told' = IF res[w] THEN told \cup {<<name[w], hash[w]>>} ELSE told
  /\ Answered(w)
  /\ UNCHANGED <<data, inserts, restarts, unsaved, contested>>

\* login.cgi: find() and the comparison, without the lock.
Login(w, n, h) ==
  /\ pc[w] = "idle"
  /\ \E found \in Found(w, n) :
       page' = IF found /\ users[n] = h THEN <<"welcome", n, h>> ELSE Page("logError")
  /\ UNCHANGED <<data, m_lock, local, inserts, restarts, history>>

\* The process stops and starts again.
Restart ==
  /\ restarts < MaxRestarts
  /\ restarts' = restarts + 1
  /\ users' = Loaded
  /\ m_lock' = None
  /\ pc' = [w \in Workers |-> "idle"]
  /\ name' = [w \in Workers |-> None] /\ hash' = [w \in Workers |-> None]
  /\ res' = [w \in Workers |-> FALSE] /\ page' = Page("none")
  /\ unsaved' = {}
  /\ UNCHANGED <<table, inserts, told, contested>>

Request(w) ==
  \E n \in Names : \E h \in Hashes(n) : Register(w, n, h) \/ Login(w, n, h)

Holding(w) == Query(w) \/ Cache(w) \/ Unlock(w)

Next == Restart \/ \E w \in Workers : Request(w) \/ Lock(w) \/ Holding(w)

\* A worker that holds the lock goes on.
Spec == Init /\ [][Next]_vars /\ \A w \in Workers : WF_vars(Holding(w))
-----------------------------------------------------------------------------
(* Properties.                                                              *)

\* What is cached or stored under a name is a hash with that name as salt.
DataOK ==
  /\ users \in [DOMAIN users -> Names \X Passwords] /\ DOMAIN users \subseteq Names
  /\ table \in [Names -> Seq(Names \X Passwords)]
  /\ \A n \in DOMAIN users : users[n] \in Hashes(n)
  /\ \A n \in Names : \A i \in DOMAIN table[n] : table[n][i] \in Hashes(n)

\* So is what a registration carries.
WorkersOK ==
  /\ pc \in [Workers -> {"idle", "lock", "query", "cache", "unlock"}]
  /\ name \in [Workers -> Names \cup {None}]
  /\ hash \in [Workers -> (Names \X Passwords) \cup {None}]
  /\ res \in [Workers -> BOOLEAN]
  /\ \A w \in Workers : pc[w] # "idle" => name[w] \in Names /\ hash[w] \in Hashes(name[w])

\* The lock is held by the worker between lock() and unlock().
LockOK ==
  /\ m_lock \in Workers \cup {None}
  /\ \A w \in Workers : m_lock = w <=> pc[w] \in {"query", "cache", "unlock"}

\* Types, salts and the lock, which excludes what the INSERT and the insertion
\* into the map rely on.
TypeOK == DataOK /\ WorkersOK /\ LockOK

\* The row of a name is in the map, unless its registration is about to put it
\* there; what is in the map without a row comes from an INSERT that failed
\* since the start (http_conn.cpp:414: its result is looked at afterwards).
CacheMatchesTable ==
  \A n \in Names \ contested :
    /\ Len(table[n]) <= 1
    /\ (\A w \in Workers : pc[w] = "cache" => name[w] # n) =>
         IF table[n] # <<>> THEN n \in DOMAIN users /\ users[n] = table[n][1]
         ELSE n \in DOMAIN users => <<n, users[n]>> \in unsaved

\* Who was told that a registration succeeded has the one row of that name, now
\* and after every restart.
SuccessDurable ==
  \A n \in Names \ contested : \A h \in Hashes(n) : <<n, h>> \in told => table[n] = <<h>>

\* A registration has brought this hash into the table, or into the map of the
\* running server.
Earned(n, h) == <<n, h>> \in unsaved \/ \E i \in DOMAIN table[n] : table[n][i] = h

\* Nobody is welcome with a password that nobody registered.
WelcomeEarned == page[1] = "welcome" => page[2] \in Names /\ Earned(page[2], page[3])

\* A name of which no two registrations overlapped between users.find() and
\* users.insert() keeps map and table in agreement, whatever the database
\* answers and whenever the process stops (do_request, initmysql_result).
RegistryConsistent == CacheMatchesTable /\ SuccessDurable /\ WelcomeEarned

\* What makes it inductive: the registration of a free name is alone, ...
Alone ==
  \A v, w \in Workers :
    v # w /\ name[v] \notin contested /\ Registering(v, name[v]) => ~Registering(w, name[v])

\* ... finds it free in the table as well, and leaves there what the map and its
\* answer will say.
Prepared(w) ==
  name[w] \notin contested =>
    /\ pc[w] \in {"lock", "query"} => name[w] \notin DOMAIN users /\ table[name[w]] = <<>>
    /\ pc[w] = "cache" =>
         /\ name[w] \notin DOMAIN users
         /\ \/ table[name[w]] = <<hash[w]>>
            \/ table[name[w]] = <<>> /\ ~res[w] /\ <<name[w], hash[w]>> \in unsaved
    /\ pc[w] = "unlock" /\ res[w] => table[name[w]] = <<hash[w]>>

RegistrationsApart == Alone /\ \A w \in Workers : Prepared(w)

CacheEarned ==
  /\ \A n \in DOMAIN users : Earned(n, users[n])
  /\ \A w \in Workers : pc[w] = "cache" => Earned(name[w], hash[w])

\* While the process runs, a user's password never changes: of two
\* registrations of one name the first to get the lock wins, races included.
PasswordStable ==
  [][restarts' = restarts =>
       \A n \in DOMAIN users : n \in DOMAIN users' /\ users'[n] = users[n]]_vars

\* The lock is released again, however the INSERT ends.
LockReleased == \A w \in Workers : m_lock = w ~> m_lock # w

=============================================================================
