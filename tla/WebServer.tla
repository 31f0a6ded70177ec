----------------------------- MODULE WebServer ------------------------------
(***************************************************************************)
(* The life of client connections: WebServer::eventLoop and its handlers   *)
(* (webserver.cpp), the http_conn operations that are shared between the   *)
(* event loop and the workers (http/http_conn.cpp), the workers' run loop  *)
(* (threadpool/threadpool.h, whose queue is the module ThreadPool) and the *)
(* idle timers (timer/heaptimer.cpp, abstracted to one mark per node).     *)
(*                                                                         *)
(* One http_conn object exists per file descriptor and is reused by every  *)
(* connection that gets the descriptor.  Nothing but EPOLLONESHOT keeps    *)
(* two threads from working on the same object, so every access of an      *)
(* object that another thread can separate from the next one is a step.    *)
(*                                                                         *)
(* Request text is abstracted to the connection it came from: a request is *)
(* Chunks to Longest pieces, a response Parts pieces, the read buffer has  *)
(* room for READ_BUFFER_SIZE pieces, and what parsing finds is one of      *)
(* Outcomes.                                                               *)
(***************************************************************************)
EXTENDS Integers, Sequences, FiniteSets

CONSTANTS
  Conns,        \* client connections; each connects at most once
  Fds,          \* the file descriptors accept() can return
  Workers,      \* the threads of the pool
  Main,         \* the thread that runs eventLoop
  None,
  MaxRequests, SemMax,  \* see ThreadPool
  MAX_FD,       \* the limit dealclientdata compares m_user_count with
  Reactor,      \* TRUE: m_actormodel = 1; FALSE: proactor
  ET,           \* TRUE: m_CONNTrigmode = 1 (edge triggered)
  ListenET,     \* TRUE: m_LISTENTrigmode = 1
  Outcomes,     \* what requests lead to: subset of {"keep", "close", "fail"}
  Signals,      \* may a signal interrupt a worker that waits for a request?
  SlowWork,     \* may a request stay queued or running until its timer is due?
  Chunks,       \* pieces the shortest request arrives in
  Longest,      \* pieces the longest request arrives in
  READ_BUFFER_SIZE,  \* pieces m_read_buf has room for
  Parts,        \* pieces the kernel accepts a response in, at most
  MaxAsked      \* requests a client sends on one connection

ASSUME ServerAssumption ==
  /\ Main \notin Workers
  /\ None \notin Conns \cup Fds
  /\ {Reactor, ET, ListenET} \subseteq BOOLEAN
  /\ Signals \in BOOLEAN /\ SlowWork \in BOOLEAN
  /\ Outcomes \subseteq {"keep", "close", "fail"}
  /\ {Chunks, Parts, MaxAsked, MAX_FD, MaxRequests, READ_BUFFER_SIZE} \subseteq Nat \ {0}
  /\ Longest \in Nat /\ Chunks <= Longest
  /\ SemMax \in Nat

Threads == Workers \cup {Main}

VARIABLES
  \* The clients and the kernel.
  peer,       \* each connection's state, see PeerState
  inbox,      \* pieces of requests in the connection's receive buffer
  sent,       \* pieces the client has sent
  answered,   \* complete responses the connection has carried
  got,        \* the connections whose responses have been sent to this one
  arrived,    \* ListenET: a connection has arrived that epoll has not reported
  toldClose,  \* connections that got a complete "Connection: close" response
  crossed,    \* history: accepted on a descriptor for which a worker, still at
              \* work for a former user, builds a response afterwards or sends
              \* one before init() has reset the object
  orphaned,   \* history: accepted on a descriptor for which a worker is yet to
              \* set m_sockfd to -1, having closed it
  sock,       \* the connection an open descriptor refers to
  epoll,      \* what each descriptor is registered for
  \* http_conn, one object per descriptor.
  attached,   \* the objects whose m_sockfd is their descriptor and not -1
  rbuf,       \* m_read_buf from m_checked_idx on: whose pieces it holds
  m_read_idx, \* pieces read since the last init()
  resp,       \* the prepared response: for whom, and bytes_to_send
  linger,     \* m_linger
  m_state,    \* Reactor: 0 read, 1 write
  m_user_count,
  \* The event loop.
  batch,      \* the events of the last epoll_wait not handled yet
  timeout, alarm,
  timer,      \* the fd's node in m_timer: none, fresh, or due (expires <= now)
  mainfd,     \* the descriptor whose event the loop is handling
  \* Threads.
  at,         \* where each thread is
  reg,        \* m_user_count as loaded by a ++ or -- of this thread
  parsed,     \* workers: whose request process_read has returned
  \* ThreadPool.
  workqueue, queuestat, owed, worker, request

pastVars   == <<crossed, orphaned>>
clientVars == <<peer, inbox, sent, answered, got, arrived, toldClose, pastVars>>
objVars    == <<rbuf, m_read_idx, resp, linger>>
loopVars   == <<batch, timeout, alarm, timer, mainfd>>
poolVars   == <<workqueue, queuestat, owed, worker, request>>
vars == <<clientVars, sock, epoll, attached, objVars, m_state, m_user_count,
          loopVars, at, reg, parsed, poolVars>>

Pool == INSTANCE ThreadPool WITH Requests <- Fds

PeerState == {"away", "backlog", "open", "half", "closed"}
NoResponse == [for |-> {}, left |-> 0]
Listen == <<"listen", None>>
Pipe   == <<"pipe", None>>

Init ==
  /\ peer = [c \in Conns |-> "away"]
  /\ inbox = [c \in Conns |-> 0]
  /\ sent = [c \in Conns |-> 0]
  /\ answered = [c \in Conns |-> 0]
  /\ got = [c \in Conns |-> {}]
  /\ arrived = FALSE
  /\ toldClose = {}
  /\ crossed = {} /\ orphaned = {}
  /\ sock = [f \in Fds |-> None]
  /\ epoll = [f \in Fds |-> "off"]
  /\ attached = {}
  /\ rbuf = [f \in Fds |-> <<>>]
  /\ m_read_idx = [f \in Fds |-> 0]
  /\ resp = [f \in Fds |-> NoResponse]
  /\ linger = [f \in Fds |-> FALSE]
  /\ m_state = [f \in Fds |-> 0]
  /\ m_user_count = 0
  /\ batch = {} /\ timeout = FALSE /\ alarm = "armed"
  /\ timer = [f \in Fds |-> "none"]
  /\ mainfd = None
  /\ at = [t \in Threads |-> IF t = Main THEN "epoll_wait" ELSE "idle"]
  /\ reg = [t \in Threads |-> 0]
  /\ parsed = [w \in Workers |-> {}]
  /\ Pool!Init

\* The object a thread is working on.
Obj(t) == IF t = Main THEN mainfd ELSE request[t]

Goto(t, label) == at' = [at EXCEPT ![t] = label]
-----------------------------------------------------------------------------
(* The clients.                                                             *)

Connect(c) ==
  /\ peer[c] = "away"
  /\ peer' = [peer EXCEPT ![c] = "backlog"]
  /\ arrived' = ListenET
  /\ UNCHANGED <<inbox, sent, answered, got, toldClose, pastVars, sock, epoll, attached,
                 objVars, m_state, m_user_count, loopVars, at, reg, parsed, poolVars>>

\* Clients wait for a response before they send the next request.
Send(c) ==
  /\ peer[c] \in {"backlog", "open"}
  /\ c \notin toldClose
  /\ answered[c] < MaxAsked
  /\ sent[c] < Longest * (answered[c] + 1)
  /\ sent' = [sent EXCEPT ![c] = @ + 1]
  /\ inbox' = [inbox EXCEPT ![c] = @ + 1]
  /\ UNCHANGED <<peer, answered, got, arrived, toldClose, pastVars, sock, epoll,
                 attached, objVars, m_state, m_user_count, loopVars, at, reg, parsed,
                 poolVars>>

\* The client closes its end (FIN: EPOLLRDHUP).
Hangup(c) ==
  /\ peer[c] = "open"
  /\ peer' = [peer EXCEPT ![c] = "half"]
  /\ UNCHANGED <<inbox, sent, answered, got, arrived, toldClose, pastVars, sock, epoll,
                 attached, objVars, m_state, m_user_count, loopVars, at, reg, parsed,
                 poolVars>>

(* Time.                                                                    *)

Busy(f) == \/ \E i \in DOMAIN workqueue : workqueue[i] = f
           \/ \E w \in Workers : request[w] = f

\* 3 * TIMESLOT seconds have passed since the node was added or adjusted.
Expire(f) ==
  /\ timer[f] = "fresh"
  /\ SlowWork \/ ~Busy(f)
  /\ timer' = [timer EXCEPT ![f] = "due"]
  /\ UNCHANGED <<clientVars, sock, epoll, attached, objVars, m_state,
                 m_user_count, batch, timeout, alarm, mainfd, at, reg, parsed, poolVars>>

\* SIGALRM: sig_handler writes a byte into the pipe.
AlarmFires ==
  /\ alarm = "armed"
  /\ alarm' = "pending"
  /\ UNCHANGED <<clientVars, sock, epoll, attached, objVars, m_state, m_user_count,
                 batch, timeout, timer, mainfd, at, reg, parsed, poolVars>>

-----------------------------------------------------------------------------
(* http_conn.                                                               *)

\* modfd(m_epollfd, m_sockfd, ev): fails on -1 and on a closed descriptor.
Modfd(f, ev) ==
  epoll' = IF f \in attached /\ epoll[f] # "off"
           THEN [epoll EXCEPT ![f] = ev] ELSE epoll

\* Variant: init() leaves the read buffer and its indices alone.
ResetKeepsInput(f) ==
  /\ rbuf' = rbuf
  /\ m_read_idx' = m_read_idx
  /\ resp' = [resp EXCEPT ![f] = NoResponse]
  /\ linger' = [linger EXCEPT ![f] = FALSE]
  /\ m_state' = [m_state EXCEPT ![f] = 0]

\* init(): the per-request fields are reset.
Reset(f) ==
  /\ rbuf' = [rbuf EXCEPT ![f] = <<>>]
  /\ m_read_idx' = [m_read_idx EXCEPT ![f] = 0]
  /\ resp' = [resp EXCEPT ![f] = NoResponse]
  /\ linger' = [linger EXCEPT ![f] = FALSE]
  /\ m_state' = [m_state EXCEPT ![f] = 0]

\* Variant: read_once() takes EAGAIN for a failure in ET mode too.
EagainFails(f) ==
  LET c == sock[f] IN
  f \in attached /\ c # None /\ ~ET /\ inbox[c] > 0

\* read_once(): what it returns and what it does.  A full buffer is a failure.
\* LT makes one recv and takes EAGAIN for a failure; ET receives until EAGAIN
\* and fails if the end of the stream comes first, or a recv of 0 bytes into
\* the buffer it has just filled.
Room(f) == READ_BUFFER_SIZE - m_read_idx[f]

ReadOk(f) ==
  LET c == sock[f] IN
  /\ Room(f) > 0
  /\ f \in attached /\ c # None
  /\ IF ET THEN peer[c] # "half" /\ inbox[c] < Room(f) ELSE inbox[c] > 0

\* recv takes no more than there is room for; the rest stays in the kernel.
ReadOnce(f) ==
  LET c == sock[f]
      n == IF inbox[c] < Room(f) THEN inbox[c] ELSE Room(f)
  IN
  IF f \in attached /\ c # None
  THEN /\ rbuf' = [rbuf EXCEPT ![f] = @ \o [i \in 1..n |-> c]]
       /\ m_read_idx' = [m_read_idx EXCEPT ![f] = @ + n]
       /\ inbox' = [inbox EXCEPT ![c] = @ - n]
  ELSE UNCHANGED <<rbuf, m_read_idx, inbox>>

\* adjust_timer(): the node is renewed; AdjustHasNode is about one that is not
\* there, for which HeapTimer::adjust renews another.
Adjusted(f) == IF timer[f] = "none" THEN timer ELSE [timer EXCEPT ![f] = "fresh"]

\* Variant: the result of write() is ignored.
WriteResultIgnored(t, ok) ==
  /\ Goto(t, IF t = Main THEN "dispatch" ELSE "done")
  /\ timer' = IF t = Main /\ ok THEN Adjusted(mainfd) ELSE timer

\* What the caller of write() does with its result: the event loop adjusts the
\* timer or closes; a worker sets improv and timer_flag, which nobody reads.
WriteReturns(t, ok) ==
  /\ Goto(t, IF t # Main THEN "done" ELSE IF ok THEN "dispatch" ELSE "close")
  /\ timer' = IF t = Main /\ ok THEN Adjusted(mainfd) ELSE timer

\* write(): nothing to send; the connection is rearmed, then reset.
WriteNothing(t) ==
  LET f == Obj(t) IN
  /\ at[t] = "write"
  /\ resp[f].left = 0
  /\ Modfd(f, "in")
  /\ Goto(t, "reset")
  /\ UNCHANGED <<clientVars, sock, attached, objVars, m_state, m_user_count,
                 loopVars, reg, parsed, poolVars>>

\* The event loop is inside init(connfd, ...) of this object.
InAccept(f) == at[Main] = "count_up" /\ mainfd = f

\* write(): writev accepts k pieces, then the response is complete or the
\* socket is full (EAGAIN).  A complete response rearms the connection for
\* reading first; then it is reset (keep-alive) or write fails (close).
WriteSome(t) ==
  LET f == Obj(t)
      c == sock[f]
  IN
  /\ at[t] = "write"
  /\ f \in attached /\ c # None
  /\ \E k \in 1..resp[f].left :
       /\ resp' = [resp EXCEPT ![f].left = @ - k]
       /\ got' = [got EXCEPT ![c] = @ \cup resp[f].for]
       /\ crossed' = IF InAccept(f) THEN crossed \cup {c} ELSE crossed
       /\ IF k < resp[f].left
          THEN /\ Modfd(f, "out")
               /\ WriteReturns(t, TRUE)
               /\ UNCHANGED <<answered, toldClose>>
          ELSE /\ answered' = [answered EXCEPT ![c] = @ + 1]
               /\ Modfd(f, "in")
               /\ IF linger[f]
                  THEN Goto(t, "reset") /\ UNCHANGED <<toldClose, timer>>
                  ELSE WriteReturns(t, FALSE) /\ toldClose' = toldClose \cup {c}
  /\ UNCHANGED <<peer, inbox, sent, arrived, orphaned, sock, attached, rbuf, m_read_idx,
                 linger, m_state, m_user_count, batch, timeout, alarm, mainfd, reg, parsed,
                 poolVars>>

\* write(): writev fails, on a closed descriptor or a peer that has gone.
WriteError(t) ==
  LET f == Obj(t) IN
  /\ at[t] = "write"
  /\ resp[f].left > 0
  /\ f \in attached /\ sock[f] # None => peer[sock[f]] = "half"
  /\ WriteReturns(t, FALSE)
  /\ UNCHANGED <<clientVars, sock, epoll, attached, objVars, m_state, m_user_count,
                 batch, timeout, alarm, mainfd, reg, parsed, poolVars>>

\* write(): init() at its end, after the connection has been rearmed.
WriteReset(t) ==
  /\ at[t] = "reset"
  /\ Reset(Obj(t))
  /\ WriteReturns(t, TRUE)
  /\ UNCHANGED <<clientVars, sock, epoll, attached, m_user_count, batch, timeout,
                 alarm, mainfd, reg, parsed, poolVars>>

\* close_conn(), first test of m_sockfd.
CloseReturn(t) == Goto(t, IF t = Main THEN "dispatch" ELSE "rearm_out")

\* Variant: close_conn() does not test m_sockfd.
CloseNoCheck(t) ==
  /\ at[t] = "close"
  /\ Goto(t, "remove")
  /\ UNCHANGED <<clientVars, sock, epoll, attached, objVars, m_state,
                 m_user_count, loopVars, reg, parsed, poolVars>>

CloseCheck(t) ==
  /\ at[t] = "close"
  /\ IF Obj(t) \in attached THEN Goto(t, "remove") ELSE CloseReturn(t)
  /\ UNCHANGED <<clientVars, sock, epoll, attached, objVars, m_state,
                 m_user_count, loopVars, reg, parsed, poolVars>>

\* removefd(m_epollfd, m_sockfd): from here on accept() can return the fd.
CloseRemove(t) ==
  LET f == Obj(t) IN
  /\ at[t] = "remove"
  /\ IF f \in attached /\ sock[f] # None
     THEN /\ peer' = [peer EXCEPT ![sock[f]] = "closed"]
          /\ sock' = [sock EXCEPT ![f] = None]
          /\ epoll' = [epoll EXCEPT ![f] = "off"]
     ELSE UNCHANGED <<peer, sock, epoll>>
  /\ Goto(t, "clear")
  /\ UNCHANGED <<inbox, sent, answered, got, arrived, toldClose, pastVars, attached,
                 objVars, m_state, m_user_count, loopVars, reg, parsed, poolVars>>

\* m_sockfd = -1, then m_user_count-- loads ...
CloseClear(t) ==
  /\ at[t] = "clear"
  /\ attached' = attached \ {Obj(t)}
  /\ reg' = [reg EXCEPT ![t] = m_user_count]
  /\ Goto(t, "count_down")
  /\ UNCHANGED <<clientVars, sock, epoll, objVars, m_state, m_user_count, loopVars,
                 parsed, poolVars>>

\* ... and stores: m_user_count is a plain static int shared by all threads.
CloseCount(t) ==
  /\ at[t] = "count_down"
  /\ m_user_count' = reg[t] - 1
  /\ CloseReturn(t)
  /\ UNCHANGED <<clientVars, sock, epoll, attached, objVars, m_state, loopVars, reg,
                 parsed, poolVars>>

Close(t) == CloseCheck(t) \/ CloseRemove(t) \/ CloseClear(t) \/ CloseCount(t)
Write(t) == WriteNothing(t) \/ WriteSome(t) \/ WriteError(t) \/ WriteReset(t)
-----------------------------------------------------------------------------
(* The event loop.                                                          *)

\* What epoll reports of an armed descriptor; a response can always be sent on.
Event(f) ==
  LET c == sock[f] IN
  IF peer[c] = "half" THEN "hup"
  ELSE IF epoll[f] = "out" THEN "out"
  ELSE IF epoll[f] = "in" /\ inbox[c] > 0 THEN "in" ELSE "none"

Fired == {f \in Fds : epoll[f] \in {"in", "out"} /\ Event(f) # "none"}

Backlog == {c \in Conns : peer[c] = "backlog"}

Ready == {<<Event(f), f>> : f \in Fired}
         \cup {e \in {Listen} : Backlog # {} /\ (ListenET => arrived)}
         \cup {e \in {Pipe} : alarm = "pending"}

\* Variant: descriptors registered without EPOLLONESHOT.
EpollWaitNoOneshot ==
  /\ at[Main] = "epoll_wait"
  /\ Ready # {}
  /\ batch' = Ready
  /\ arrived' = FALSE
  /\ Goto(Main, "dispatch")
  /\ UNCHANGED <<peer, inbox, sent, answered, got, toldClose, pastVars, sock, epoll,
                 attached, objVars, m_state, m_user_count, timeout, alarm, timer,
                 mainfd, reg, parsed, poolVars>>

\* epoll_wait: EPOLLONESHOT disarms what it reports; an edge is reported once.
EpollWait ==
  /\ at[Main] = "epoll_wait"
  /\ Ready # {}
  /\ batch' = Ready
  /\ epoll' = [f \in Fds |-> IF f \in Fired THEN "spent" ELSE epoll[f]]
  /\ arrived' = FALSE
  /\ Goto(Main, "dispatch")
  /\ UNCHANGED <<peer, inbox, sent, answered, got, toldClose, pastVars, sock, attached,
                 objVars, m_state, m_user_count, timeout, alarm, timer, mainfd, reg,
                 parsed, poolVars>>

\* The next event of the batch, in any order.
Handle(e) ==
  /\ at[Main] = "dispatch"
  /\ e \in batch
  /\ batch' = batch \ {e}
  /\ mainfd' = e[2]

\* dealclientdata() calls accept(): once, or edge triggered again and again.
Accepting ==
  /\ \/ at[Main] = "dispatch" /\ Listen \in batch
     \/ at[Main] = "accept"
  /\ batch' = batch \ {Listen}

\* Variant: an accept() that fails is the end of the event loop.
AcceptFailsFatal ==
  /\ Accepting
  /\ Backlog = {} \/ \A f \in Fds : sock[f] # None
  /\ mainfd' = None
  /\ Goto(Main, "ended")
  /\ UNCHANGED <<clientVars, sock, epoll, attached, objVars, m_state, m_user_count,
                 timeout, alarm, timer, reg, parsed, poolVars>>

\* accept() fails, for want of descriptors or of connections: the loop ends.
AcceptFails ==
  /\ Accepting
  /\ Backlog = {} \/ \A f \in Fds : sock[f] # None
  /\ mainfd' = None
  /\ Goto(Main, "dispatch")
  /\ UNCHANGED <<clientVars, sock, epoll, attached, objVars, m_state, m_user_count,
                 timeout, alarm, timer, reg, parsed, poolVars>>

\* Too many users: show_error() closes the connection, and the loop ends.
AcceptRefuses ==
  /\ Accepting
  /\ \E f \in Fds : sock[f] = None
  /\ m_user_count >= MAX_FD
  /\ \E c \in Backlog : peer' = [peer EXCEPT ![c] = "closed"]
  /\ mainfd' = None
  /\ Goto(Main, "dispatch")
  /\ UNCHANGED <<inbox, sent, answered, got, arrived, toldClose, pastVars, sock, epoll,
                 attached, objVars, m_state, m_user_count, timeout, alarm, timer, reg,
                 parsed, poolVars>>

\* Is a worker at this place with the object of f?
UsedAt(f, label) == \E w \in Workers : request[w] = f /\ at[w] = label

\* Variant: timer() creates no node.
AcceptNoTimer(c, f) ==
  /\ Accepting
  /\ peer[c] = "backlog"
  /\ sock[f] = None
  /\ m_user_count < MAX_FD
  /\ peer' = [peer EXCEPT ![c] = "open"]
  /\ sock' = [sock EXCEPT ![f] = c]
  /\ attached' = attached \cup {f}
  /\ epoll' = [epoll EXCEPT ![f] = "in"]
  /\ orphaned' = IF UsedAt(f, "clear") THEN orphaned \cup {c} ELSE orphaned
  /\ mainfd' = f
  /\ reg' = [reg EXCEPT ![Main] = m_user_count]
  /\ Goto(Main, "count_up")
  /\ UNCHANGED <<inbox, sent, answered, got, arrived, toldClose, crossed, objVars, m_state,
                 m_user_count, timeout, alarm, timer, parsed, poolVars>>

\* dealclientdata() and timer(), first part: accept(), and init(connfd, ...) up to
\* the load of m_user_count++, by which the object and epoll have the descriptor.
\* HeapTimer::add, which makes its node or renews the one a former user left,
\* comes after init(): only the event loop sees nodes.
Accept(c, f) ==
  /\ Accepting
  /\ peer[c] = "backlog"
  /\ sock[f] = None
  /\ m_user_count < MAX_FD
  /\ peer' = [peer EXCEPT ![c] = "open"]
  /\ sock' = [sock EXCEPT ![f] = c]
  /\ attached' = attached \cup {f}
  /\ epoll' = [epoll EXCEPT ![f] = "in"]
  /\ orphaned' = IF UsedAt(f, "clear") THEN orphaned \cup {c} ELSE orphaned
  /\ timer' = [timer EXCEPT ![f] = "fresh"]
  /\ mainfd' = f
  /\ reg' = [reg EXCEPT ![Main] = m_user_count]
  /\ Goto(Main, "count_up")
  /\ UNCHANGED <<inbox, sent, answered, got, arrived, toldClose, crossed, objVars, m_state,
                 m_user_count, timeout, alarm, parsed, poolVars>>

\* init(connfd, ...), the rest: the store of m_user_count++, and init().
CountUp ==
  LET f == mainfd IN
  /\ at[Main] = "count_up"
  /\ m_user_count' = reg[Main] + 1
  /\ Reset(f)
  /\ crossed' = IF UsedAt(f, "prepare") THEN crossed \cup ({sock[f]} \ {None}) ELSE crossed
  /\ Goto(Main, IF ListenET THEN "accept" ELSE "dispatch")
  /\ UNCHANGED <<peer, inbox, sent, answered, got, arrived, toldClose, orphaned, sock, epoll,
                 attached, loopVars, reg, parsed, poolVars>>

\* eventLoop: EPOLLRDHUP, EPOLLHUP or EPOLLERR: deal_timer(), which leaves the
\* node of the heap timer in place.
HandleHup(f) ==
  /\ Handle(<<"hup", f>>)
  /\ Goto(Main, "close")
  /\ UNCHANGED <<clientVars, sock, epoll, attached, objVars, m_state, m_user_count,
                 timeout, alarm, timer, reg, parsed, poolVars>>

\* dealwithread() up to append: the reactor leaves reading to a worker.
DealWithRead(f) ==
  /\ Handle(<<"in", f>>)
  /\ IF Reactor
     THEN Goto(Main, "append_read") /\ UNCHANGED <<rbuf, m_read_idx, inbox>>
     ELSE ReadOnce(f) /\ Goto(Main, IF ReadOk(f) THEN "append_read" ELSE "close")
  /\ UNCHANGED <<peer, sent, answered, got, arrived, toldClose, pastVars, sock, epoll,
                 attached, resp, linger, m_state, m_user_count, timeout, alarm, timer,
                 reg, parsed, poolVars>>

\* dealwithwrite() up to append or write().
DealWithWrite(f) ==
  /\ Handle(<<"out", f>>)
  /\ Goto(Main, IF Reactor THEN "append_write" ELSE "write")
  /\ UNCHANGED <<clientVars, sock, epoll, attached, objVars, m_state, m_user_count,
                 timeout, alarm, timer, reg, parsed, poolVars>>

\* append() / append_p() and adjust_timer(): the result is ignored, a refused
\* request is dropped with its descriptor disarmed.
AppendRequest ==
  /\ at[Main] \in {"append_read", "append_write"}
  /\ Pool!Enqueue(mainfd)
  /\ timer' = Adjusted(mainfd)
  /\ m_state' = IF Reactor /\ ~Pool!Full
                THEN [m_state EXCEPT ![mainfd] = IF at[Main] = "append_read" THEN 0 ELSE 1]
                ELSE m_state
  /\ Goto(Main, IF Pool!Full THEN "dispatch" ELSE "post")
  /\ UNCHANGED <<clientVars, sock, epoll, attached, objVars, m_user_count, batch,
                 timeout, alarm, mainfd, reg, parsed>>

\* Variant: append() returns without the post().
PostForgotten ==
  /\ at[Main] = "post"
  /\ Goto(Main, "dispatch")
  /\ UNCHANGED <<clientVars, sock, epoll, attached, objVars, m_state, m_user_count,
                 loopVars, reg, parsed, poolVars>>

PostRequest ==
  /\ at[Main] = "post"
  /\ Pool!Post
  /\ Goto(Main, "dispatch")
  /\ UNCHANGED <<clientVars, sock, epoll, attached, objVars, m_state, m_user_count,
                 loopVars, reg, parsed>>

\* dealwithsignal(): SIGALRM only; SIGTERM ends the loop and is not modelled.
DealWithSignal ==
  /\ Handle(Pipe)
  /\ timeout' = TRUE
  /\ alarm' = "off"
  /\ UNCHANGED <<clientVars, sock, epoll, attached, objVars, m_state, m_user_count,
                 timer, at, reg, parsed, poolVars>>

\* The end of the batch.
EndBatch ==
  /\ at[Main] = "dispatch" /\ batch = {}
  /\ Goto(Main, IF timeout THEN "tick" ELSE "epoll_wait")
  /\ UNCHANGED <<clientVars, sock, epoll, attached, objVars, m_state, m_user_count,
                 loopVars, reg, parsed, poolVars>>

\* HeapTimer::tick(): the callback of a due node closes the fd.  The node goes
\* right after the callback, here before it: only the event loop sees nodes.
TickOne(f) ==
  /\ at[Main] = "tick"
  /\ timer[f] = "due"
  /\ timer' = [timer EXCEPT ![f] = "none"]
  /\ mainfd' = f
  /\ Goto(Main, "close")
  /\ UNCHANGED <<clientVars, sock, epoll, attached, objVars, m_state, m_user_count,
                 batch, timeout, alarm, reg, parsed, poolVars>>

\* Variant: the alarm is not set again.
TickEndNoAlarm ==
  /\ at[Main] = "tick"
  /\ \A f \in Fds : timer[f] # "due"
  /\ alarm' = "off"
  /\ timeout' = FALSE
  /\ Goto(Main, "epoll_wait")
  /\ UNCHANGED <<clientVars, sock, epoll, attached, objVars, m_state, m_user_count,
                 batch, timer, mainfd, reg, parsed, poolVars>>

\* tick() returns; alarm(TIMESLOT) is set again.
TickEnd ==
  /\ at[Main] = "tick"
  /\ \A f \in Fds : timer[f] # "due"
  /\ alarm' = "armed"
  /\ timeout' = FALSE
  /\ Goto(Main, "epoll_wait")
  /\ UNCHANGED <<clientVars, sock, epoll, attached, objVars, m_state, m_user_count,
                 batch, timer, mainfd, reg, parsed, poolVars>>

MainStep ==
  \/ EpollWait \/ AcceptFails \/ AcceptRefuses \/ CountUp \/ DealWithSignal
  \/ EndBatch \/ TickEnd \/ AppendRequest \/ PostRequest
  \/ \E f \in Fds : \/ HandleHup(f) \/ DealWithRead(f) \/ DealWithWrite(f)
                    \/ TickOne(f) \/ \E c \in Conns : Accept(c, f)
  \/ Close(Main) \/ Write(Main)
-----------------------------------------------------------------------------
(* The workers: threadpool::run.                                            *)

\* m_queuestat.wait() returns, with a token or interrupted.
WorkerWakes(w) ==
  /\ Pool!Wake(w)
  /\ UNCHANGED <<clientVars, sock, epoll, attached, objVars, m_state, m_user_count,
                 loopVars, at, reg, parsed>>

WorkerInterrupted(w) ==
  /\ Signals
  /\ Pool!Interrupted(w)
  /\ UNCHANGED <<clientVars, sock, epoll, attached, objVars, m_state, m_user_count,
                 loopVars, at, reg, parsed>>

\* A request is popped; the object's m_state is read later, without the lock.
WorkerTakes(w) ==
  /\ at[w] = "idle"
  /\ Pool!Take(w)
  /\ at' = IF workqueue = <<>> THEN at
           ELSE [at EXCEPT ![w] = IF Reactor THEN "run" ELSE "process"]
  /\ UNCHANGED <<clientVars, sock, epoll, attached, objVars, m_state, m_user_count,
                 loopVars, reg, parsed>>

\* run(), reactor: m_state tells reading from writing.
WorkerRuns(w) ==
  /\ at[w] = "run"
  /\ Goto(w, IF m_state[request[w]] = 0 THEN "read" ELSE "write")
  /\ UNCHANGED <<clientVars, sock, epoll, attached, objVars, m_state, m_user_count,
                 loopVars, reg, parsed, poolVars>>

\* run(), reactor: a failed read_once() sets timer_flag, which nobody reads.
WorkerReads(w) ==
  /\ at[w] = "read"
  /\ ReadOnce(request[w])
  /\ Goto(w, IF ReadOk(request[w]) THEN "process" ELSE "done")
  /\ UNCHANGED <<peer, sent, answered, got, arrived, toldClose, pastVars, sock, epoll,
                 attached, resp, linger, m_state, m_user_count, loopVars, reg, parsed,
                 poolVars>>

\* process(): process_read() finds the request incomplete, or complete with
\* one of the outcomes: a response that keeps or closes the connection, or one
\* that process_write() cannot build.
Process(w) ==
  LET f == request[w] IN
  /\ at[w] = "process"
  /\ \/ /\ Len(rbuf[f]) < Longest
        /\ Goto(w, "rearm_in")
        /\ UNCHANGED <<rbuf, linger, parsed>>
     \/ \E o \in Outcomes, n \in Chunks..Longest :
          /\ n <= Len(rbuf[f])
          /\ parsed' = [parsed EXCEPT ![w] = {rbuf[f][i] : i \in 1..n}]
          /\ rbuf' = [rbuf EXCEPT ![f] = SubSeq(@, n + 1, Len(@))]
          /\ linger' = [linger EXCEPT ![f] = (o = "keep")]
          /\ Goto(w, IF o = "fail" THEN "close" ELSE "prepare")
  /\ UNCHANGED <<clientVars, sock, epoll, attached, m_read_idx, resp, m_state, m_user_count,
                 loopVars, reg, poolVars>>

\* process_write(): the response and bytes_to_send.
ProcessWrite(w) ==
  /\ at[w] = "prepare"
  /\ resp' = [resp EXCEPT ![request[w]] = [for |-> parsed[w], left |-> Parts]]
  /\ parsed' = [parsed EXCEPT ![w] = {}]
  /\ Goto(w, "rearm_out")
  /\ UNCHANGED <<clientVars, sock, epoll, attached, rbuf, m_read_idx, linger, m_state,
                 m_user_count, loopVars, reg, poolVars>>

\* Variant: an incomplete request is left without modfd(EPOLLIN).
RearmOutOnly(w) ==
  /\ at[w] \in {"rearm_in", "rearm_out"}
  /\ IF at[w] = "rearm_out" THEN Modfd(request[w], "out") ELSE UNCHANGED epoll
  /\ Goto(w, "done")
  /\ UNCHANGED <<clientVars, sock, attached, objVars, m_state, m_user_count, loopVars,
                 reg, parsed, poolVars>>

\* process(): the final modfd, EPOLLIN for more input, EPOLLOUT otherwise,
\* also after close_conn().
Rearm(w) ==
  /\ at[w] \in {"rearm_in", "rearm_out"}
  /\ Modfd(request[w], IF at[w] = "rearm_in" THEN "in" ELSE "out")
  /\ Goto(w, "done")
  /\ UNCHANGED <<clientVars, sock, attached, objVars, m_state, m_user_count, loopVars,
                 reg, parsed, poolVars>>

WorkerDone(w) ==
  /\ at[w] = "done"
  /\ Pool!Finish(w)
  /\ Goto(w, "idle")
  /\ parsed' = [parsed EXCEPT ![w] = {}]
  /\ UNCHANGED <<clientVars, sock, epoll, attached, objVars, m_state, m_user_count,
                 loopVars, reg>>

WorkerStep(w) ==
  \/ WorkerWakes(w) \/ WorkerTakes(w) \/ WorkerRuns(w) \/ WorkerReads(w)
  \/ Process(w) \/ ProcessWrite(w) \/ Rearm(w) \/ WorkerDone(w)
  \/ Close(w) \/ Write(w)

ClientStep == \E c \in Conns : Connect(c) \/ Send(c) \/ Hangup(c)

Next ==
  \/ ClientStep
  \/ AlarmFires \/ \E f \in Fds : Expire(f)
  \/ MainStep
  \/ \E w \in Workers : WorkerStep(w) \/ WorkerInterrupted(w)

\* Threads run, time passes and the alarm goes off; clients may stop at any
\* point, and no signal has to interrupt a wait.
Fairness ==
  /\ WF_vars(MainStep)
  /\ \A w \in Workers : WF_vars(WorkerStep(w))
  /\ WF_vars(AlarmFires)
  /\ \A f \in Fds : WF_vars(Expire(f))

Spec == Init /\ [][Next]_vars /\ Fairness
-----------------------------------------------------------------------------
(* Properties.                                                              *)

\* Only connection states, thread positions and descriptors the code has; a
\* worker is busy exactly while the pool has handed it an object, and the
\* event loop owes a post() exactly between append's unlock() and post().
TypeOK ==
  /\ peer \in [Conns -> PeerState]
  /\ inbox \in [Conns -> 0..(Longest * MaxAsked)]
  /\ m_read_idx \in [Fds -> 0..READ_BUFFER_SIZE]
  /\ sock \in [Fds -> Conns \cup {None}]
  /\ epoll \in [Fds -> {"off", "in", "out", "spent"}]
  /\ attached \subseteq Fds
  /\ timer \in [Fds -> {"none", "fresh", "due"}]
  /\ alarm \in {"armed", "pending", "off"} /\ timeout \in BOOLEAN
  /\ m_user_count \in Int
  /\ \A f \in Fds : resp[f].for \subseteq Conns /\ resp[f].left \in 0..Parts
  /\ batch \subseteq {Listen, Pipe} \cup ({"hup", "in", "out"} \X Fds)
  /\ \A w \in Workers : at[w] = "idle" <=> worker[w] # "running"
  /\ owed = 1 <=> at[Main] = "post"
  /\ Pool!TypeOK

\* A thread is between its first and its last access of its object.
Using(t) == at[t] \in {"append_read", "append_write", "run", "read", "write", "reset",
                       "process", "prepare", "rearm_in", "rearm_out",
                       "close", "remove", "clear"}

\* EPOLLONESHOT and the rearming order of process() and write() let one thread
\* at a time operate on an http_conn.
OneThreadPerConn ==
  \A t, u \in Threads : t # u /\ Using(t) /\ Using(u) => Obj(t) # Obj(u)

\* The claim of root/module_epoll.html for the workers alone: at any moment one
\* worker at most operates on a connection.
OneWorkerPerConn ==
  \A v, w \in Workers : v # w /\ Using(v) /\ Using(w) => request[v] # request[w]

\* A client is only sent responses to requests of its own, although objects
\* and descriptors are reused by the connections that follow.
ResponseToRequester == \A c \in Conns : got[c] \subseteq {c}

Closing(f) == \E t \in Threads : Obj(t) = f /\ at[t] \in {"close", "remove", "clear"}

\* An open descriptor is referred to by its object, so that closing it works,
\* and has a node in the heap timer, so that it will be closed.
Kept(f) == sock[f] # None => Closing(f) \/ (f \in attached /\ timer[f] # "none")

NoLeak == \A f \in Fds : Kept(f)

\* adjust_timer() is only called for a node that exists: HeapTimer::adjust
\* does not test.
Adjusting(f) ==
  mainfd = f /\ at[Main] \in {"append_read", "append_write", "write", "reset"}

AdjustHasNode == \A f \in Fds : Adjusting(f) => timer[f] # "none"

\* When no thread is inside accept or close, m_user_count is the number of
\* open connections.
CountExact ==
  (\A t \in Threads : at[t] \notin {"count_up", "remove", "clear", "count_down"})
    => m_user_count = Cardinality({f \in Fds : sock[f] # None})

\* The descriptor of an open connection is armed, or somebody is going to
\* rearm or close it: its event is to be handled, it is queued, or in use.
NotStranded ==
  \A f \in Fds : epoll[f] = "spent" =>
    \/ \E k \in {"hup", "in", "out"} : <<k, f>> \in batch
    \/ \E i \in DOMAIN workqueue : workqueue[i] = f
    \/ \E t \in Threads : Using(t) /\ Obj(t) = f

\* A client that got a complete response with "Connection: close" is closed,
\* or the thread that sent the response is about to close it.
Honoured(c) == peer[c] # "closed" => \E f \in Fds : sock[f] = c /\ Closing(f)

CloseHonoured == \A c \in toldClose : Honoured(c)

\* In the reactor two workers may hold one object, because write() rearms the
\* descriptor before it resets the object; even so responses reach their
\* requesters, nothing leaks, adjust() finds a node and the count is right.
ServedRightly == ResponseToRequester /\ NoLeak /\ AdjustHasNode /\ CountExact

\* Dropped requests, refused connections and connections closed under their
\* worker leave no descriptor without a timer and no promised close undone.
OverloadContained == NoLeak /\ CloseHonoured

\* A worker that closes a connection or goes on with one that has been closed
\* harms none but the connections accepted meanwhile on its descriptor: only
\* one that crossed a parsed request can get a response that is not its own, and
\* only one orphaned by m_sockfd = -1 can keep its descriptor, be without a node
\* when its timer is adjusted or, in the proactor, wait for a promised close.
FailureContained ==
  /\ \A c \in Conns \ crossed : got[c] \subseteq {c}
  /\ \A f \in Fds : sock[f] \notin orphaned =>
       Kept(f) /\ (Adjusting(f) => timer[f] # "none")
  /\ ~Reactor => \A c \in toldClose \ orphaned : Honoured(c)

\* The server closes an open connection whose client is there and was not told
\* so for two reasons only: the client has sent more than the read buffer holds
\* (read_once() fails, http_conn.cpp:166 and 190), or the idle timer has removed
\* the node.  Requests in pieces, EAGAIN and dropped requests are no reasons.
ClosedForCause ==
  [][\A f \in Fds : sock[f] # None /\ sock'[f] = None =>
       \/ peer[sock[f]] = "half"
       \/ sock[f] \in toldClose
       \/ m_read_idx[f] = READ_BUFFER_SIZE
       \/ timer[f] = "none"]_vars

\* Every client that connects is accepted or refused and closed in the end, be it
\* by the peer, after a response or by the idle timer: at the limit, where
\* dealclientdata refuses it, and without a free descriptor, where accept() fails
\* and a level-triggered listening socket is reported until one is closed.
ConnReaped ==
  \A c \in Conns : peer[c] \in {"backlog", "open", "half"} ~> peer[c] = "closed"

=============================================================================
