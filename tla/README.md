# A verification model of the Web server

This directory holds TLA+ modules that model the server, TLC configurations
that check them on small instances, and proofs for every value of the
constants. Paths and line numbers refer to the repository's source.

## 1. The system

| Component | State it keeps | Operations | Talks to |
|---|---|---|---|
| Event loop, `webserver.cpp` | the batch of the last `epoll_wait`, `timeout`, `m_timer` | `eventLoop`, `dealclientdata`, `dealwithread`, `dealwithwrite`, `dealwithsignal`, `timer`, `adjust_timer`, `deal_timer` | `http_conn` objects, thread pool, heap timer, signal pipe |
| `http_conn`, `http/http_conn.cpp` | one object per descriptor: `m_sockfd`, both buffers and their indices, `m_linger`, `m_state`, the two iovecs; static `m_user_count` | `init`, `read_once`, `process`, `write`, `close_conn` | called by the event loop and by workers, on the same object, without a lock |
| HTTP parser, same file | `m_check_state`, `m_checked_idx`, `m_start_line`, `m_content_length` | `process_read`, `parse_*` | `read_once` before it, `do_request` behind it |
| Responses, same file | `m_write_buf`, `m_file_address`, `m_iv`, `bytes_to_send`, `bytes_have_send` | `process_write`, `add_*`, `do_request`, `write`, `unmap` | file system |
| Users, same file | the map `users`, `m_lock` | register and login in `do_request`, `initmysql_result` | a MySQL connection |
| Thread pool, `threadpool/threadpool.h` | `m_workqueue`, `m_queuelocker`, `m_queuestat` | `append`, `append_p`, `run` | event loop puts, workers take |
| Connection pool, `CGImysql/sql_connection_pool.cpp` | `connList`, `reserve`, `m_FreeConn`, `m_CurConn` | `GetConnection`, `ReleaseConnection`, `DestroyPool`, `connectionRAII` | a guard around every `process()` |
| Heap timer, `timer/heaptimer.cpp` | `m_heap`, `m_ref` | `add`, `adjust`, `del`, `tick` | event loop only; calls back `deal_timer` |
| Signals, `timer/utils.cpp` | the pipe, `alarm` | `sig_handler`, `addsig` | any thread; read by the event loop |
| Log, `log/*` | the ring of `block_queue`, the file, `m_count`, `m_today` | `write_log`, `flush`, `async_write_log`, `push`, `pop` | called by every thread; a thread of its own empties the queue |
| Configuration, `config.cpp`, `main.cpp` | the options | `parse_arg` | sets the constants of the models |

A connection goes from `accept` through `init(connfd, ...)` and `HeapTimer::add`
to epoll. A readable descriptor is read by the event loop (proactor,
`m_actormodel = 0`, the default) or by a worker (reactor); a worker parses it,
prepares the response and rearms the descriptor for writing; the event loop
(proactor) or a worker (reactor) sends it, rearms for reading and resets the
object. EPOLLONESHOT is all that keeps two threads off one object.

What makes it hard:

* **Reuse.** An object belongs to a descriptor, not to a connection. A thread
  that is still in the object when `accept` returns the same number acts on
  the next client's connection.
* **Order of rearming and resetting** in `write()` and `process()`, and of
  `close` and `m_sockfd = -1` in `close_conn`.
* **Dropped results**: of `append`, `sem_wait`, `read_once` and `write` in the
  reactor.
* **Overload**: the queue is full, the limit on connections is reached, the
  timer fires while a request is queued.
* **Semaphores posted outside the lock** in both pools.
* **Cuts.** A request may be cut anywhere by the network and a response by a
  full socket; both state machines have to go on where they stopped, and the
  object must not remember the request before.
* **Look, then lock**: `users.find()`, `m_log_queue->full()`, `connList.empty()`
  are all asked before the lock is taken that protects the answer.
* **Two copies of the users**, the map and the table, and an INSERT that can
  fail between them.
* **An index and a heap** that have to agree after every swap.

## 2. The modules

| Module | Models | Refers to |
|---|---|---|
| `ThreadPool` | `m_workqueue` and `m_queuestat`: one producer, any number of workers | |
| `WebServer` | event loop, workers, `http_conn` life cycle, epoll, clients, alarm | `INSTANCE ThreadPool` |
| `ConnectionPool` | the MySQL pool and its guard | |
| `TimerService` | abstract: what the heap timer promises, a deadline per descriptor | |
| `HeapTimer` | the heap and its index, each loop iteration a step | implements `TimerService` |
| `HttpParser` | the read buffer and the two state machines of `process_read` | |
| `ResponseWriter` | `process_write`, the mapped file, the iovecs in `write()` | |
| `HttpExchange` | one object over requests and connections | `EXTENDS` both |
| `UserRegistry` | the map `users`, the table, `m_lock`, register and login | |
| `BoundedFifo` | abstract: what a bounded queue promises | |
| `BlockQueue` | the ring of `log/block_queue.h` and its condition variable | implements `BoundedFifo` |
| `AsyncLog` | `write_log`, rotation, the thread that empties the queue | `EXTENDS BlockQueue` |
| `MC*` | instances for TLC | |
| `WebServerProofs` | theorems about what is open, told, counted and closed | `EXTENDS WebServer` |
| `WebServerParties` | theorems about who works on a connection | `EXTENDS WebServerProofs` |
| `ThreadPoolProofs`, `ConnectionPoolProofs`, `HeapTimerProofs`, `HttpExchangeProofs`, `UserRegistryProofs`, `AsyncLogProofs` | theorems | each `EXTENDS` its component |

### ThreadPool

A critical section of `m_queuelocker` is one step, since nothing outside one
touches the queue. `Enqueue` is `append` / `append_p` up to `unlock()`, `Post`
its `post()`; `Wake`, `Interrupted` and `Take` are the three steps of the head
of `run()`: the semaphore, the semaphore failing with EINTR (SIGALRM and
SIGTERM are installed without SA_RESTART and blocked nowhere, and `run`
ignores the result), the critical section. `Finish` is the end of the loop
body. The same object may be queued more than once, as the code allows.

### WebServer

`at[t]` is where thread `t` is; the variables are grouped as clients and
kernel (`peer`, `inbox`, `sock`, `epoll`, ...), `http_conn` (`attached`,
`rbuf`, `resp`, `linger`, `m_state`), event loop and pool. `attached` says
whether `m_sockfd` is the descriptor or -1. Accesses to an object are separate
steps where another thread in between makes a difference to a property: so
`close_conn` is `CloseCheck`, `CloseRemove`, `CloseClear`, `CloseCount`, and
`m_user_count++` and `--` are a load and a store. `write()` is `WriteSome` or
`WriteError`, then `WriteReset`: the `modfd` and the `init()` behind it are
separate steps. Three pairs are merged. A `writev` and the `modfd` behind it are
one step. `Accept` is `accept()`, the store of `m_sockfd`, `addfd` and the load of
`m_user_count++`: a stale worker that runs inside it acts on a descriptor that
has the newcomer's number already, as it does right behind it, with two
exceptions, both harmless: before `m_sockfd` is stored it still finds -1 and does
nothing, and before `addfd` its `modfd` fails. What `init(connfd, ...)` does after
that load, up to the reset of the object, is a step of its own, `CountUp`, and a
worker can come before it, with what the former connection left in the object.
`HeapTimer::add`, which follows `init`, is part of `Accept`: only the event loop
sees nodes, and it looks at none in between.

Data is abstracted to what the properties tell apart. A request is `Chunks` to
`Longest` pieces, each the name of its connection; a response is the set of
connections whose pieces went into it, and how many pieces are left to send. The
read buffer has room for `READ_BUFFER_SIZE` pieces since the last `init()`
(`m_read_idx`), and `recv` takes no more than that (`ReadOnce`). A full buffer is
a failure of `read_once` (`ReadOk`): at once if it was full before
(http_conn.cpp:166), and in ET mode also when it has just been filled, since the
`recv` of 0 bytes that comes next returns 0 (190-200). So ET refuses a request as
long as the buffer, which LT takes. Parsing ends
in one of `Outcomes`: keep-alive, close, or `fail`, a response that
`process_write` does not build (`NO_RESOURCE` has no case there, and an empty
file falls through to `default`). The idle timer is one mark per descriptor:
no node, fresh, due.

Level- and edge-triggered registration do not differ in what epoll reports
here: with EPOLLONESHOT every report disarms and every `modfd` looks at the
descriptor again. That `init` passes the former `m_TRIGMode` to `addfd`
(http_conn.cpp:106, before line 111) is therefore without effect. The modes
differ in `read_once` (`ReadOk`).

The listening socket is not one-shot, and there the modes do differ
(`ListenET`): level triggered it is reported as long as `Backlog` is not empty
and `dealclientdata` accepts once; edge triggered it is reported once for the
connections that `arrived`, and the accept loop goes on until `accept` fails, for
want of connections or of descriptors, or a connection is refused.

Two history variables say which connections met a stale worker. A connection has
`crossed` a request if it was accepted on a descriptor for which a worker, after
`init()` has reset the object (`CountUp`), is still between `process_read()` and
`process_write()`, or sent something of the former response before that reset
(`WriteSome` with `InAccept`; only a reactor's worker can be there). It is
`orphaned` if a worker stood between `removefd()` and `m_sockfd = -1`, which is
then carried out on the newcomer. No action reads either of them.

A client sends, waits for the response and may hang up; one that never reads, so
that its socket stays full, is not modelled: `Event` reports a descriptor armed
for writing as writable whenever it is looked at.

Two workers may hold one object at a time (section 6); what they then do to
single characters of a buffer is not modelled, only whose pieces it holds.

### ConnectionPool

`Look` is the test of the list without the lock, `Wait` and `Interrupted` the
semaphore, `Take` the critical section of `GetConnection`, `Store` and `Adopt` the
two lines of `connectionRAII`'s constructor, `Release` and `Post` the two parts of
`ReleaseConnection`. Between `Store` (`*SQL = ...`, sql_connection_pool.cpp:126)
and `Adopt` (`conRAII = *SQL`, 128) the connection is in `http_conn::mysql`, a
field of the object: another worker's guard on the same object may overwrite it,
and so may `init()` (`Reset`, http_conn.cpp:130). Both happen: in the reactor
`write()` rearms before its `init()`, and two workers can hold one object (section
6). Here any worker may construct a guard for any object and `Reset` may come at
any time. `spoiled`, a history variable, holds the connections that a guard lost
or got that way. What `do_request` does with the field (414) is left out: when it
is overwritten while the guard lives, for the same two reasons, the query goes to
NULL or over another worker's connection, of which the pool knows nothing.
`Exclusive` is about the guards.

A signal may end a wait, and nobody looks at the result
(sql_connection_pool.cpp:72); `interrupted` counts these, up to `MaxSignals`. The
worker then goes on, and may take the front of an empty list. That is undefined
in C++. If the process survives it, libstdc++ returns the word behind the list's
sentinel, which is its size, 0, so NULL; `pop_front` counts one node less
(`missing`; `Size` is what `size()` returns then), and `--m_FreeConn` and
`++m_CurConn` are carried out all the same. This is `Take` with an empty list;
what a second `pop_front` of an empty list destroys beyond that is not followed.

`DestroyPool` comes once, at any time, if `Shutdown`: the pool is a static object,
destroyed when `main` returns while the detached workers run. What they have
begun is followed to its end; no new guard is constructed after it (`Look`'s
bound).

### TimerService and HeapTimer

`TimerService` has a deadline per descriptor; `Set` sets one, `Fire` removes
the earliest if it has passed, `End` ends a tick when none has passed.
`HeapTimer` is the vector and the index with every iteration of `sift_up` and
`sift_down` a step. Positions count from 1. `ClockSteps = 1` lets the wall
clock go back, `Stray = 1` lets the user adjust a descriptor without a node.
Comparisons are the code's: `sift_down` stops at a child that is strictly
later, `sift_up` at a parent that is strictly earlier, so equal nodes move.

The refinement mapping takes a descriptor's deadline to be the expiry of its
node. While `del_` runs the last node is no deadline any more: the deletion
counts from the swap on.

### HttpParser, ResponseWriter, HttpExchange

`WebServer` asks who works on an object; these three ask what one thread at a
time does with it, byte by byte. `HttpExchange` is one `http_conn` over its
requests and connections: `Read` is `read_once`, `ProcessRead` one iteration of
the loop of `process_read`, `Answer` `do_request` and `process_write`, `Write`
one `writev` with the arithmetic behind it, `Finish` the end of `write()` with
`unmap` and `init`, `Accept` the `init` of the next connection. `BufferFull`,
`ReadError`, `WriteError` and `Abort` are the ways out.

The text of a line is one symbol, since `parse_line` passes over it without
looking; CR and LF are symbols of their own, so that cuts fall before, between
and behind them. A request line is known or not (`RequestLines`), a header is
keep-alive, a length or of no interest; an ill-formed header, with a CR or an LF
of its own, is any bytes (`IsRequest`, `IllFormed`). A byte of a response is the place it
lies in, `<<"buf", i>>` or `<<"map", i>>`: what the client has got (`out`) is
compared with `Response` place by place, so a byte sent twice, left out or
taken from elsewhere shows. A mapping is a number; `mapped` are those there
are. `m_file_address` survives `init()`, as in the code. `cuts` counts, as a
history, how often a `writev` ended inside the header (section 6).

The reference definitions `Expected`, `LengthOf` and `KeepAlive` say of a whole
request what it is to lead to, without any state of the parser.

### UserRegistry

`Register` is the look-up without the lock, `Lock`, `Query`, `Cache`, `Unlock`
the steps that follow it, `Login` a look-up and a comparison. The database is
external: an INSERT adds a row, or fails, or adds the row and loses the answer;
whether the table has a unique key is not in the repository, so it may admit a
name twice. A search in the map while another worker inserts is a data race: it
may miss what is there (`Found`). `Restart` loses the map and loads it from the
table. Names for which two registrations overlapped are recorded in
`contested`; what is promised of them is less (section 6).

### BlockQueue and AsyncLog

A critical section of `block_queue`'s mutex is a step; `m_cond.wait` splits
`pop` in two, may return for nothing, and needs a broadcast otherwise. The
refinement mapping of `BoundedFifo` reads the ring from `m_front` on.
`AsyncLog` has the three critical sections of `write_log` and what is between
them: `Count` with the change of files, `Choose` (`full()`), then `PushLine` or
`WriteLine`, then `Flush`, with which every LOG_ macro ends. A line is its
writer and its number; a file the day and the number in its name. Each writer
reads the clock at its `Begin`, so that two of them can disagree about the day.
`taken` is the flusher's `single_log`: it has a line from `pop()` on, keeps it
after `fputs()` as the variable does, and is only used between the two.

## 3. The runs

| Run | Instance | Shows |
|---|---|---|
| `ThreadPool` | 3 workers, 2 objects, queue of 3 | no lost wake-up; every accepted request runs |
| `ServerProactor` | 2 connections, 2 descriptors, 2 workers, LT, requests of 2 pieces, responses of up to 2 | one thread per object; a response goes to its requester; no leak; exact count; nobody stranded |
| `ServerReactor` | 2 connections on 1 descriptor, 2 workers, LT, the listening socket ET, 2 requests each of 2 pieces, queue of 1, signals | what is left of this in the reactor (`ServedRightly`) |
| `ServerOverload` | 2 connections, 2 descriptors, limit 1, queue of 1, slow worker, ET | refused connections, dropped requests and timers that fire under a worker neither leak nor last; `Connection: close` honoured; the backlog is emptied |
| `ServerShort` | 2 connections, 1 descriptor, limit 2, queue of 1, slow worker, ET, requests of 1 or 2 pieces, a buffer of 2 | `accept` without a descriptor: the client in the backlog gets its turn; a full buffer, and no close without a cause |
| `ServerFail` | 3 connections on 1 descriptor, 2 workers, proactor, ET, responses that keep, close or fail | closing workers against an accepting event loop: harm stays with the connections that met a stale worker |
| `PoolScarce` | 3 workers, 2 connections, 1 object, 1 signal, destruction | exclusive, counted and never lost but for the exact exceptions; one empty front per signal at most; no use after close; waits end; no deadlock |
| `HeapTimer` | 4 descriptors, timeout 1, clock to 3 | heap order, exact index, refinement, termination |
| `HttpExchange` | 2 requests out of 17, buffer of 12, LT | cuts and predecessors do not matter; the response byte for byte; no mapping left |
| `BodyInPieces` | the same | expects a violation (section 6) |
| `UserRegistry` | 2 workers, 2 names, 2 passwords, 3 INSERTs, 1 restart | map, table and answers agree; passwords stay; the lock is released |
| `AsyncLog` | 2 writers of 2 lines each, ring of 2, files of 2 lines, 2 days | no line lost, doubled or overtaken but in two known cases; rotation; the FIFO; the queue is emptied |

**Why these bounds.** Trouble between connections needs one that leaves and
one that follows on the same descriptor, so two connections suffice, on one
descriptor where reuse is the point and on two where both are open at a time.
Between threads it needs the event loop and two workers. `ServerFail` has a third
connection: a stale worker of the first can then do its harm to the second or to
the third, and the second can be closed for a cause of its own in between. Its
3.3 million and `ServerReactor`'s 2.0 million states are the largest. A client is
refused only where a descriptor is free and the limit reached (`ServerOverload`,
2 descriptors and `MAX_FD = 1`); `accept` fails for want of a descriptor only
where the limit is not what stops it (`ServerShort`, 1 descriptor, `MAX_FD = 2`).
`ServerShort`'s longest request just fills the buffer; in `ServerFail` the buffer
is larger than what is ever in it, so that a leftover would be parsed, not refused. Two pieces per
request make the incomplete request happen, two per response the full socket,
`MaxAsked = 2` keep-alive. With four nodes a heap has three levels and an inner node
with one child and one with two is met on the way; the clock reaches values
at which some nodes are due and some are not, and equal expiries. `SemMax` is never
reached, as 10000 queued requests never reach SEM_VALUE_MAX. `MaxNow` and
`MaxAsked` bound counters that have no bound in the code. With three workers on two
connections (`PoolScarce`) one finds the list empty at the look, or not yet empty
and waits until another one posts; with one object every guard shares its field;
one signal leads to an empty front, and 0 wait to a token that covers nothing.

In `HttpExchange` the 17 requests are each resource with and without
keep-alive, bodies that are complete, short and too long, an unknown method,
and headers with a bare CR and a bare LF. Two requests in a row are what it
takes to see state that `init()` forgets; they come on one connection or two.
The longest requests do not fit 12 bytes, so a full buffer is met. The header of 3 bytes
can be cut twice. Requests follow each other only when the response is out:
clients do not pipeline. Two registrations of one name need two workers; the
third INSERT comes after a race, the restart before or after any of them. In `AsyncLog` the
ring is full before the last line, each writer changes the file, and the day
changes between any two steps.

**Symmetry** is used in the safety runs of `WebServer` over connections,
descriptors and workers, which the specification treats alike; never where a
liveness property is checked.

`CHECK_DEADLOCK` is off in `HttpExchange`, `BodyInPieces` and `AsyncLog`, which stop
when all requests are served or all lines are logged, and on everywhere else.

**Fairness.** Weak fairness of each thread's steps: threads are scheduled and
`process()` terminates (MySQL answers). A worker that waits for a token has no
more than weak fairness: POSIX semaphores promise no order. In `WebServer`
also of `AlarmFires` and `Expire`: time passes. Clients are under no fairness,
they may stop at any point; nor are signals other than the alarm. In
`HeapTimer` only the loop that runs is fair: operations need not be called. In
`HttpExchange` the thread that has a request goes on and a full socket becomes
writable again, or the peer goes away; bytes need not arrive. In `UserRegistry`
a worker with the lock goes on (MySQL answers in some way); in `AsyncLog`
threads run, but a thread asleep in `m_cond.wait` is not woken without a
broadcast: `Spurious` is under no fairness.
`ConnReaped` rests on the chain alarm, pipe, `dealwithsignal`, `tick`, `alarm`;
its variant that does not set the alarm again violates it.

## 4. The properties and the hazards they are for

* `NoLostWakeup`, `EveryRequestRuns`: `append` posts after it unlocked.
* `OneThreadPerConn`: the order of the rearming calls.
* `ResponseToRequester`: objects and descriptors are reused; `process` rearms
  a descriptor after it closed it.
* `NoLeak`, `ConnReaped`: an open descriptor has an object that refers to it
  and a node in the heap timer, or is being closed; so it is closed in the end,
  and the clients in the backlog are accepted or refused before, at the limit
  (`ServerOverload`) and without a descriptor (`ServerShort`), with a
  level-triggered listening socket.
* `CountExact`: `m_user_count` against the descriptors that are open.
* `NotStranded`: a disarmed descriptor has a thread or a queue entry that will
  rearm or close it.
* `CloseHonoured`, `ClosedForCause`: closed if and only if there is a reason. A
  full read buffer is one, and the only one that the client's peer or its own
  response does not give.
* `AdjustHasNode`: the precondition `HeapTimer::adjust` does not test. This
  is what the event loop owes the heap (`Stray = 0` in `HeapTimer`).
* `ServedRightly`, `OverloadContained`: which of these hold in the reactor and
  under overload.
* `FailureContained`: what is left with responses that are not built. The plain
  properties fail there (section 6); what holds in every setting is that only a
  connection that `crossed` can get bytes that are not its own, and only an
  `orphaned` one can keep its descriptor, be adjusted without a node, or wait for
  a close it was promised.
* `Exclusive`, `Accounted`, `NoEmptyFront`, `NoUseAfterClose`, `WaitEnds`: the
  connection pool. `Accounted` says by how much empty fronts put the counters out,
  and that only a `spoiled` connection is lost; `NoEmptyFront` that each empty
  front has cost a signal; `WaitEnds` that while somebody waits somebody is let
  through, unless a connection is lost with its token or the pool destroyed.
  `NeverNull` is proved only: it holds because the list cannot be empty where
  there are as many connections as workers, and nobody waits there.
* `RefExact`, `TopEarliest`, `ImplementsService`, `OperationsEnd`: the heap.
* `AnsweredAsSent`: what a request leads to is a function of the request, not of
  the cuts or of what the object served before. Its second half says which
  requests get no answer: incomplete ones, ill-formed ones, and those whose
  body was cut.
* `SentExact`, `SendingEnds`: the response byte for byte, and `write()` stops;
  up to the second cut of one header.
* `MappingsReturned`: every `mmap` has its `munmap`, but for connections closed
  between `process()` and `write()`.
* `RegistryConsistent`: `CacheMatchesTable`, `SuccessDurable` over restarts,
  `WelcomeEarned`. `PasswordStable` holds for contested names too.
  `LockReleased`: however the INSERT ends.
* `LinesKept`, `FilesRight`, `ImplementsFifo`, `QueueDrains`: the log. The
  exceptions in `LinesKept` and `FilesRight` are exact: they are the two places
  where `write_log` trusts an old answer of `full()`, and the midnight.

Each module has variants of its actions with one mistake each (a post that is
forgotten, a `close_conn` without its test, a swap that corrects one
reference), after "Variant" or in a section of their own. No specification uses them; they record which mistake each property
catches, and `PROJECT.json` pairs them.

## 5. What is proved

For any number of workers, connections, descriptors and any limits:

* `ThreadPoolProofs`: `TypeCorrect`, and `WakeupsNotLost`. The latter is
  inductive together with the types: `Enqueue` adds an entry and the post it
  owes, `Post` turns that into a token, `Wake` a token into a woken worker,
  `Take` uses one awake worker for one entry, or finds the queue empty.
  Assumption: `MaxRequests =< SemMax`.
* `ConnectionPoolProofs`, whatever signals come and whenever the pool is destroyed:
  `TypeCorrect`; `ConnectionsExclusive` (`Exclusive`) and `ClosedUnused`
  (`NoUseAfterClose`), for connections that are not `spoiled`: their invariant says
  the same of the connection a guard has put into the shared field and is about
  to read back. `SemaphoreKeepsPromise` (`NoEmptyFront`) follows from "tokens,
  granted and owed posts are no more than the list is long, but for the
  signals that have not been paid with an empty front", which is needed since the
  property alone does not say why `Take` finds an entry. `ConnectionsAccounted`
  (`Accounted`): the counters move with the list, or with `missing`, in every
  critical section. `NullNeverHanded` (`NeverNull`) if there are no more workers than
  connections: were the list empty at the look, every connection would have a holder
  of its own, one worker more than there are besides the one that looks.
* `HeapTimerProofs`: with `Stray = 0`, `TypeCorrect` (the loops stay inside
  the vector) and `RefAlwaysExact`. The invariant joins both with the bounds of
  the loop indices while `sift_down` works on `n - 1` nodes.
  `TopAlwaysEarliest` (`TopEarliest`) also needs `ClockSteps = 0`. Its invariant
  is that no node expires after `now + Timeout`, so that a renewed node can
  only sink, and that the heap is in order but for the node at `pos`: while it
  sinks (`OrderedAbove`) or rises (`OrderedBelow`), its parent is not after
  its children. What a round of either loop does to such a heap is proved of a
  function from positions to expiries; that the front of an ordered heap is
  earliest follows from the first position that would be earlier, whose parent
  would be too. `HeapIsService` (`ImplementsService`), under the same two
  conditions, is the refinement of `TimerService`: by `RefExact` no descriptor has
  two nodes, so the deadlines do not depend on where the nodes stand
  (`DeadlinesIn`), a swap is a stutter, a push or a renewal is `Set`, the swap of
  `del_` takes the front's deadline away, and `TopEarliest` makes that `Fire`, and
  the end of `tick` `End`.
* `HttpExchangeProofs`, for any buffer, files, requests and lengths, in LT and
  ET mode: `TypeCorrect` (the indices of the read buffer; that `parse_line`
  stops inside it follows from the least element of `Stops`),
  `MappingsAlwaysReturned`, and `SentAlwaysExact`. The invariant of the last
  (`Exactly`) says what the iovecs hold before the second cut: while fewer
  bytes than the header are out, the rest of it and the whole file; from then
  on the rest of the file, `bytes_to_send` long. `Covered` adds that the iovecs
  never hold more than `bytes_to_send`, second cut or not, so that it stays
  non-negative. Assumptions: the files' sizes are natural numbers, a header
  and a page are not empty, and the names of `NoFile` are no files.
  `AnsweredAsAnnounced` is `AnsweredAsSent` for a request whose body is no longer
  than it says (`~Exceeds(req)`), if no length is negative and no request with
  keep-alive is followed by bytes that nobody announced (`Announced`, which the
  run satisfies). Both conditions are needed: section 6 has a body that exceeds,
  and bytes left behind a request are taken for the beginning of the next. The
  proof has three parts. Where the lines of a request are in its bytes
  (`RequestLaid`), and that the first CR or LF of a line ends it exactly if the
  line is well-formed (`FirstEndExists`): the prefixes of the request are a
  recursive function, and what holds of every prefix follows from the least one
  for which it fails. What `parse_line` makes of a line (`ParseLineIn`): if no CR
  or LF of it has been passed, it is LINE_OK if and only if it is well-formed and
  has arrived with its end, whatever follows it in the buffer; otherwise no CR or
  LF is passed, so the next read finds the same. And the invariant `ParseInv`: in
  the i-th line `m_start_line` is where that line starts, the fields are what the
  lines before it say (`HeadersRead`), the parser only waits where the line is
  not there or ill-formed (`InLine`), and in a body that was not complete
  the loop has moved `m_checked_idx` or bytes are missing (`InBody`). A
  body no longer than announced is then only accepted at its first byte.
* `UserRegistryProofs`: `TypeCorrect`, `RegistryAlwaysConsistent` and
  `PasswordsStable`. The property is not inductive: `Cache` keeps map and table
  together only because the registration found the name in neither, and
  nobody else is registering it. `RegistrationsApart` says this (`Alone`,
  `Prepared`), `CacheEarned` that what is about to be cached was inserted or
  refused. Names and passwords are any sets; the table may hold a name twice.
* `WebServerProofs`. In every setting: `TypeCorrect`; `ResponsesContained` and
  `FailuresContained` (`FailureContained`), from `ContentRight` (an object whose
  connection has not crossed, once `init()` has reset it, holds bytes of that
  connection alone),
  `KernelRight` (an open descriptor's object refers to it and its node is there,
  except for orphans) and `ToldRight` (in the proactor the event loop closes what
  it told so). If every response can be built (`NoFailure`), reactor or proactor,
  however slow the workers and however full the queue: `NothingLeaks` (`NoLeak`),
  `AdjustsSafely` (`AdjustHasNode`, the premise of `HeapTimerProofs`),
  `CountAlwaysExact`, `ClosesForCause` (the client has gone, was told so, has filled
  the buffer, or its node is gone) and, in the proactor, `OverloadsContained`.
  They rest on `HandRight`: no worker closes anything, and the event loop has no
  event left for a descriptor that it holds; `CountRight` adds that the value
  loaded by `++` or `--` is still the current one when it is stored, `CauseRight`
  that an event in the batch is still true of its connection.
* `WebServerParties`, when moreover requests end before their timer (`Steady`):
  `ResponsesNeverAstray` and `AllServedRightly` (`ServedRightly`) in both models,
  `OneThreadAtATime` in the proactor. The invariant is `PartyRight`: a
  descriptor with a worker that has yet to rearm it, or in the queue, is there
  once, is spent in epoll and in nobody else's hands. It is
  inductive because whoever gives a descriptor away stops using it in the same
  step: EPOLLONESHOT when it is reported, the last `modfd` of `process` and
  `write`, the push of `append`; and because `tick` only takes a descriptor that
  nobody works on, the timer being renewed when a request is queued. In the
  reactor a worker may still reset an object that the next one reads into, which
  loses bytes but mixes none. `NobodyStranded` (`NotStranded`), in the proactor,
  adds that a descriptor which is not armed has an owner, and that the event loop
  has armed it before it resets the object; a queue with room for every
  descriptor (`Roomy`) is never full, since it holds none twice and lacks the one
  to be pushed. The code's queue has 10000 places and `MAX_FD` is 65536: the theorem
  is about servers with at most 10000 connections at a time; with more, a request
  may be dropped and its descriptor wait for the timer (`OverloadsContained`). Where these conditions fail section 6 shows how the properties break.
* `AsyncLogProofs`: of the ring alone `RingAlwaysOK`, `RingIsFifo`
  (`ImplementsFifo`: each step of the ring is a step of `BoundedFifo` or none) and
  `BackIsNewest`, for any capacity. The indices agree with `m_size` modulo the
  capacity (`RingOK`); that a push leaves the older items where they are rests on
  a lemma on remainders. Of the log, for any number of writers, lines and days:
  `TypeCorrect`, `LogUsesFifo` (the log's steps are steps of the queue or leave it
  alone), `LinesAlwaysKept` (`LinesKept`) and `FilesAlwaysRight` (`FilesRight`).
  `LinesKept` becomes inductive with `Kept` (a line logged is in the file, in the
  queue, in the flusher's hands or dropped, in one of them, once) and `Ordered`
  (the queue and the flusher's line are in the order of their writer, and what
  passed them found the queue full). The split of files needs `Counted`: without a
  queue `m_count` is the number of lines written and of writers between counting
  and writing, so a line is at most a round of the writers late. Assumption:
  `IsFiniteSet(Writers)`, which this cardinality needs.

The constants' assumptions are stated by name in the modules and evaluated by
the runs. A theorem of the form `Spec => [](C => P)` has a condition `C` on
constants: it is about the servers configured so, and the runs listed for `P`
satisfy it. The invariants (`RefInv`, `HeapInv`, `Types`, `Kept`, `Ordered`, `Counted`,
...) were checked by TLC on the runs' instances before they were proved.

Model-checked only: liveness (`EveryRequestRuns`, `ConnReaped`, `WaitEnds`,
`OperationsEnd`, `SendingEnds`, `LockReleased`, `QueueDrains`), which rests on fairness and
is beyond the prover; and of `AnsweredAsSent` what the run says of a body that
exceeds its length by one byte without a CR or LF. Every other invariant, action
property and refinement of the passing runs is a theorem.

## 6. Where documentation and code disagree

One run expects a violation. `BodyInPieces`: http_conn.h:61 says of NO_REQUEST
that the request is not complete. When a POST's body arrives in pieces,
`process_read` looks for a line in the first one (http_conn.cpp:584); this moves
`m_checked_idx`, from which `parse_content` counts (567), so the complete request
is NO_REQUEST too and the client gets no answer.

The models show more with other constants. Each row is one change to a
configuration that is here, and the property it then violates:

| Configuration and change | Property | Because |
|---|---|---|
| `ServerReactor.cfg`: `Outcomes = {"keep"}` | `OneWorkerPerConn` | `write()` rearms before `init()`, http_conn.cpp:273-277; root/module_epoll.html:237-238 promises one worker at a time |
| `ServerFail.cfg` *small*: `Outcomes = {"fail"}` | `ConnReaped` | `close` before `m_sockfd = -1`, http_conn.cpp:89-90; root/module_timer.html:227 promises that idle connections are closed. It takes a request whose response is not built |
| `ServerFail.cfg` *small*, `Workers = {w1, w2}`, `Outcomes = {"keep", "fail"}` | `CountExact` | unsynchronised `m_user_count`, http_conn.cpp:91 |
| `ServerFail.cfg` | `ResponseToRequester` | a worker builds a response from what it parsed before its descriptor was closed and accepted again, http_conn.cpp:623-628 |
| `ServerFail.cfg` | `NoLeak`, `AdjustHasNode`, `CloseHonoured` | `m_sockfd = -1` after the descriptor was accepted again, http_conn.cpp:89-90: `close_conn` of the newcomer does nothing. Hence `FailureContained` |
| `ServerReactor.cfg`: `Outcomes = {"close"}` | `CloseHonoured` | `timer_flag` is never read, threadpool.h:157 and 167 |
| `ServerReactor.cfg`: `Outcomes = {"keep", "fail"}` | `AdjustHasNode` | `adjust_timer` before any test, webserver.cpp:262 |
| `ServerReactor.cfg`: `Reactor = FALSE`, `SlowWork = TRUE` | `OneWorkerPerConn` | `tick()` closes under a worker, webserver.cpp:319 |
| `ServerShort.cfg`: `ListenET = TRUE` | `ConnReaped` | the accept loop ends with a client in the backlog when `accept` fails (webserver.cpp:217-220), and epoll does not report it again. The same at the limit (221-225): `ServerOverload.cfg` with `ListenET = TRUE` and 3 connections |
| `PoolScarce.cfg` | `NeverNull` | `GetConnection` answers NULL rather than wait, sql_connection_pool.cpp:70 |
| `HeapTimer.cfg`: 3 descriptors, `ClockSteps = 1`, `MaxNow = 2` | `TopEarliest` | the wall clock was set back, heaptimer.cpp:48; root/module_timer.html:235 |
| `HeapTimer.cfg`: 3 descriptors, `Stray = 1` | `RefExact` | `m_ref[id]` inserts, heaptimer.cpp:46 |

*small* stands for `Conns = {c1, c2}`, `Workers = {w1}`, `MaxRequests = 1` and
`ET = FALSE`, without `SYMMETRY`.

Further observations, each visible in a model's history variable or guard:

* A second cut inside one header makes `iov_len` shorter by what the first one
  sent (http_conn.cpp:265): bytes are left out, or `writev` is given nothing
  while `bytes_to_send` is positive. Hence `cuts <= 1` in `SentExact`.
* Two racing registrations of one name can both be told success; the table
  then holds two rows, and after a restart the other password may be the right
  one (http_conn.cpp:412). Hence `contested`.
* A failed INSERT leaves the name in the map: registering again is refused
  and logging in works until the next start (414). Hence `unsaved`.
* With two writers a log line is dropped when the queue fills up between
  `full()` and `push()` (log.cpp:136-137), and a line that found it full
  overtakes the queued ones (139). Hence `dropped` and `OrderKept`'s exception.
* At midnight a writer that read the clock before another one changed the file
  changes it back. An asynchronous file may exceed `m_split_lines`, since lines
  are counted when logged and written later (root/module_log.html:237-238).
* `front()` of `block_queue` returns the slot popped last, not the next one
  (block_queue.h:74); nobody calls it.
* A body that exceeds its Content-length and arrives in three pieces is answered
  with the wrong bytes: `m_start_line` has moved with `m_checked_idx`
  (http_conn.cpp:586), so `m_string` is a later part of it. With `POST page`,
  `Length2` and the body `<<"c", "LF", "LF">>` or `<<"c", "d", "e", "f">>` among the
  requests, and a buffer of 13, TLC finds `AnsweredAsSent` violated. The body of
  `HttpExchange.cfg` that exceeds has one byte more and no LF: in three pieces
  the loop passes all of it, and the request is left unanswered. Hence `Exceeds`.
* A negative Content-length puts the terminating 0 in front of the body (568):
  the model has none, and `Announced` says so.
* `NO_RESOURCE` has no page and an empty file falls through to `default`: both
  end in a close without an answer. `LINE_BAD` is never answered either.
* `m_file_address` survives `init()`; a request that fills the buffer exactly
  fails in ET mode, and its client is closed (`ClosedForCause`'s third cause);
  pipelined bytes are dropped by `init()`. The branch for `bytes_to_send == 0` at the
  top of `write()` is reached when `process()`, having closed its connection, rearms
  the descriptor of the next one for writing (634): the newcomer is rearmed for
  reading, and its object reset.
* Two guards on one object share `http_conn::mysql` (sql_connection_pool.cpp:126 and
  128), and `init()` clears it: a connection read back by the wrong guard is in
  two, and the other one is lost with its token. Hence `spoiled`.
* After an interrupted wait on an empty list `m_FreeConn` and `m_CurConn` are one
  off for good (72-81). Hence `missing`.
* A reactor's worker that has kept the former connection's response may send it to
  the client just accepted, until `init()` resets the object (`crossed`).

## 7. Not modelled, and the plan

The plan has one item left: SIGTERM and the destructor against detached workers
(webserver.cpp:21). `PoolScarce` has the connection pool's part of it.

Left out for good: option parsing and start-up (`config.cpp`, `main.cpp`, one
sequence of calls), page contents, password hashing, the extraction of names
from a body, the layout of log lines and of HTTP headers, MySQL itself,
`get_next_tick` (declared, without a body), the length that `unmap` passes to
`munmap` (the size of the last `stat`, http_conn.cpp:223: a mapping is a number in
`ResponseWriter`, and is unmapped as a whole).
