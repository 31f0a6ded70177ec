---------------------------- MODULE HttpExchange ----------------------------
(***************************************************************************)
(* One http_conn object over the requests and connections it serves: bytes *)
(* arrive in any pieces, HttpParser makes a request of them, do_request    *)
(* and process_write answer it and ResponseWriter sends the answer in any  *)
(* pieces (read_once, process, write and init in http/http_conn.cpp).      *)
(* One thread at a time works on the object: that this is so is the        *)
(* subject of the module WebServer.                                        *)
(***************************************************************************)
EXTENDS HttpParser, ResponseWriter

CONSTANTS
  Requests,     \* records of a request line, headers and a body
  MaxRequests   \* requests the object serves

VARIABLES
  pc,        \* in, parse, answer, out, write, sent, closed
  req,       \* the request the client is sending
  stream,    \* its bytes that read_once has not taken yet
  served,    \* how many requests there have been
  aborted    \* history: connections closed with a response pending

exchangeVars == <<pc, req, stream, served, aborted>>
vars == <<parserVars, writerVars, exchangeVars>>

\* The bytes of the first i lines, and of all of them.
LinesUpTo(texts) ==
  LET upTo[i \in 0..Len(texts)] ==
        IF i = 0 THEN <<>> ELSE upTo[i - 1] \o texts[i] \o <<"CR", "LF">>
  IN  upTo

Lines(texts) == LinesUpTo(texts)[Len(texts)]

\* The head of a request ends with an empty line.
Texts(r) == <<<<r.line>>>> \o r.headers \o <<<<>>>>
HeadBytes(r) == Lines(Texts(r))
ToBytes(r) == HeadBytes(r) \o r.body

\* The bytes that parse_line() looks for.
Ends == {"CR", "LF"}

\* The first CR or LF of the text is not the end of a line.
IllFormed(text) ==
  \E j \in DOMAIN text :
    /\ text[j] \in Ends /\ \A k \in 1..(j - 1) : text[k] \notin Ends
    /\ text[j] = "CR" /\ j # Len(text) => text[j + 1] # "LF"

\* A request line is one byte, and so is a header, or it is ill-formed.
IsRequest(r) ==
  /\ r.line \in STRING \ Ends
  /\ r.headers \in Seq(Seq(STRING))
  /\ \A i \in DOMAIN r.headers :
       \/ IllFormed(r.headers[i])
       \/ Len(r.headers[i]) = 1 /\ r.headers[i][1] \notin Ends
  /\ r.body \in Seq(STRING)

\* What a well-formed request line asks for is a file, or one of the three
\* resources that have none to send.
ASSUME ExchangeAssumption ==
  /\ MaxRequests \in Nat \ {0}
  /\ \A r \in Requests : IsRequest(r)
  /\ DOMAIN FileSize \cap NoFile = {}
  /\ \A line \in DOMAIN RequestLines : RequestLines[line] \in DOMAIN FileSize \cup NoFile

Init ==
  /\ ParserInit /\ WriterInit
  /\ pc = "in" /\ served = 1 /\ aborted = 0
  /\ \E r \in Requests : req = r /\ stream = ToBytes(r)

\* The next request follows these bytes of its connection.
NextRequest(before) ==
  /\ served < MaxRequests
  /\ served' = served + 1
  /\ \E r \in Requests : req' = r /\ stream' = before \o ToBytes(r)

\* EPOLLIN: the next n bytes are there, and there is room for them.
Read(n) ==
  /\ pc = "in"
  /\ LET piece == SubSeq(stream, 1, n)
     IN  Fits(piece) /\ ReadPiece(piece)
  /\ stream' = SubSeq(stream, n + 1, Len(stream))
  /\ pc' = "parse"
  /\ UNCHANGED <<writerVars, req, served, aborted>>

\* EPOLLIN, but the buffer has no room: the caller closes the connection.
BufferFull(n) ==
  /\ pc = "in"
  /\ Overflows(SubSeq(stream, 1, n))
  /\ pc' = "closed"
  /\ UNCHANGED <<parserVars, writerVars, req, stream, served, aborted>>

\* Variant: the result of read_once() is ignored.
ReadErrorIgnored ==
  /\ pc = "in"
  /\ RecvFails
  /\ pc' = "parse"
  /\ UNCHANGED <<writerVars, req, stream, served, aborted>>

\* EPOLLIN, but recv fails: the caller closes the connection.
ReadError ==
  /\ pc = "in"
  /\ RecvFails
  /\ pc' = "closed"
  /\ UNCHANGED <<writerVars, req, stream, served, aborted>>

\* process_read().
ProcessRead ==
  /\ pc = "parse"
  /\ Parse
  /\ pc' = IF code' = "NO_REQUEST" THEN "in"
           ELSE IF code' \in {"GET_REQUEST", "BAD_REQUEST"} THEN "answer" ELSE "parse"
  /\ UNCHANGED <<writerVars, req, stream, served, aborted>>

\* do_request() for a complete request, then process_write(); a response that
\* is not built closes the connection.
Answer ==
  /\ pc = "answer"
  /\ LET get == code = "GET_REQUEST"
         ret == IF get THEN RequestCode(m_url) ELSE "BAD_REQUEST"
     IN  /\ IF get THEN MapFile(m_url) ELSE UNCHANGED <<m_file_address, st_size, mapped, mmaps>>
         /\ IF Builds(ret, st_size')
            THEN ProcessWrite(ret, st_size') /\ pc' = "out"
            ELSE /\ pc' = "closed"
                 /\ UNCHANGED <<m_write_idx, bytes_to_send, bytes_have_send, m_iv,
                                m_iv_count, out, cuts>>
  /\ UNCHANGED <<parserVars, req, stream, served, aborted>>

\* EPOLLOUT: write() is called.
Writable ==
  /\ pc = "out"
  /\ pc' = "write"
  /\ UNCHANGED <<parserVars, writerVars, req, stream, served, aborted>>

\* write(): one writev; the next one follows or finds the socket full.
Write(n) ==
  /\ pc = "write"
  /\ Writev(n)
  /\ IF bytes_to_send' <= 0 THEN pc' = "sent" ELSE pc' \in {"write", "out"}
  /\ UNCHANGED <<parserVars, m_file_address, st_size, mapped, mmaps, req, stream, served,
                 aborted>>

\* Variant: the failing write() returns without unmap().
WriteErrorKeeps ==
  /\ pc = "write"
  /\ pc' = "closed"
  /\ UNCHANGED <<parserVars, writerVars, req, stream, served, aborted>>

\* write(): writev fails, the file is unmapped and the caller closes.
WriteError ==
  /\ pc = "write"
  /\ Pending # <<>>
  /\ Unmap
  /\ pc' = "closed"
  /\ UNCHANGED <<parserVars, m_write_idx, bytes_to_send, bytes_have_send, m_iv, m_iv_count,
                 out, cuts, req, stream, served, aborted>>

\* write(): everything is sent.  The file is unmapped; a connection that stays
\* open is reset for the next request.
Finish ==
  /\ pc = "sent"
  /\ Unmap
  /\ IF m_linger
     THEN /\ ParserReset /\ WriterReset
          /\ pc' = "in"
          /\ NextRequest(stream)
     ELSE /\ pc' = "closed"
          /\ UNCHANGED <<parserVars, m_write_idx, bytes_to_send, bytes_have_send, m_iv,
                         m_iv_count, out, cuts, req, stream, served>>
  /\ UNCHANGED aborted

\* The peer goes away or the idle timer fires between two steps of the server:
\* the event loop closes the connection.
Abort ==
  /\ pc \in {"in", "out"}
  /\ pc' = "closed"
  /\ aborted' = aborted + (IF pc = "out" THEN 1 ELSE 0)
  /\ UNCHANGED <<parserVars, writerVars, req, stream, served>>

\* init(connfd, ...): the object serves the next connection.
Accept ==
  /\ pc = "closed"
  /\ ParserReset /\ WriterReset
  /\ pc' = "in"
  /\ NextRequest(<<>>)
  /\ UNCHANGED <<m_file_address, st_size, mapped, mmaps, aborted>>

Sending == Writable \/ WriteError \/ Finish \/ \E n \in 1..(HeaderLen + FormLen + st_size) : Write(n)

Next ==
  \/ \E n \in 1..Len(stream) : Read(n) \/ BufferFull(n)
  \/ ReadError \/ ProcessRead \/ Answer \/ Sending \/ Abort \/ Accept

\* The thread runs, and a socket that is full becomes writable again.
Spec == Init /\ [][Next]_vars /\ WF_vars(ProcessRead) /\ WF_vars(Answer) /\ WF_vars(Sending)
-----------------------------------------------------------------------------
(* Reference: what a request, taken as a whole, is to lead to.              *)

Framed(r) == \A i \in DOMAIN r.headers : ~IllFormed(r.headers[i])

LengthOf(r) ==
  LET given == {i \in DOMAIN r.headers : r.headers[i][1] \in DOMAIN ContentLengths}
  IN  IF given = {} THEN 0 ELSE ContentLengths[r.headers[Max(given)][1]]

Expected(r) ==
  IF r.line \notin DOMAIN RequestLines THEN "BAD_REQUEST"
  ELSE IF ~Framed(r) \/ Len(r.body) < LengthOf(r) THEN "NO_REQUEST"
  ELSE "GET_REQUEST"

KeepAlive(r) == \E i \in DOMAIN r.headers : r.headers[i] = <<"keep-alive">>

\* A process_read has gone over the beginning of a body that was not complete.
BodyCut == m_check_state = "CONTENT" /\ m_checked_idx > Len(HeadBytes(req))
-----------------------------------------------------------------------------
(* Properties.                                                              *)

\* While the object is in use its indices are in order and inside the buffer,
\* and m_read_idx counts what was received: recv's -1 never stays in it.
TypeOK ==
  /\ pc # "closed" =>
       /\ 0 <= m_start_line /\ m_start_line <= m_checked_idx
       /\ m_checked_idx <= m_read_idx /\ m_read_idx <= READ_BUFFER_SIZE
       /\ m_read_idx = Len(m_read_buf)
  /\ code \in {"none", "NO_REQUEST", "BAD_REQUEST", "GET_REQUEST"}
  /\ m_file_address \in -1..mmaps /\ mapped \subseteq 1..mmaps
  /\ bytes_to_send \in Nat /\ cuts \in Nat

\* However the bytes of a request are cut into reads, and whatever the object
\* served before, the request is understood as it would be in one piece, with
\* its own body and its own Connection header (process_read and init).
UnderstoodAsSent ==
  pc \in {"answer", "out", "write", "sent"} =>
    /\ code = Expected(req)
    /\ code = "GET_REQUEST" =>
         /\ m_url = RequestLines[req.line]
         /\ m_linger = KeepAlive(req)
         /\ LengthOf(req) > 0 => m_string = SubSeq(req.body, 1, LengthOf(req))

\* A request that has arrived is left unanswered in two cases only: it is not
\* complete or not well-formed, or its body came in pieces; of the second case
\* NoRequestIncomplete tells more (process_read, parse_line, parse_content).
UnansweredOnlyIf ==
  pc = "in" /\ stream = <<>> => Expected(req) = "NO_REQUEST" \/ BodyCut

\* Where the reads cut a request and what the object served before has no
\* influence on what is answered, nor, but for cut bodies, on whether.
AnsweredAsSent == UnderstoodAsSent /\ UnansweredOnlyIf

\* What http_conn.h:61 says of NO_REQUEST: the request is not complete yet.  The
\* code also returns it for a complete one whose body came in pieces: the loop of
\* process_read looked for a line in the first piece (http_conn.cpp:584), which
\* moved m_checked_idx, and from there parse_content counts the body (567).
NoRequestIncomplete ==
  code = "NO_REQUEST" /\ stream = <<>> => Expected(req) = "NO_REQUEST"

\* The client gets the bytes of the response in order and once, wherever the
\* socket fills up and stops write(), but for two stops inside one header:
\* the second one makes iov_len shorter by what the first one sent
\* (http_conn.cpp:256, 265).
SentExact ==
  cuts <= 1 =>
    /\ out = SubSeq(Response, 1, Len(out))
    /\ pc = "sent" => out = Response

\* No file stays mapped when its connection has been served; a mapping is only
\* lost with a connection that was closed before its response was sent, since
\* nothing but write() unmaps (http_conn.cpp:270).
MappingsReturned ==
  /\ Cardinality(mapped \ {m_file_address}) <= aborted
  /\ pc = "in" /\ aborted = 0 => mapped = {}

\* A prepared response is sent, or the connection closed; write() does not go
\* on for ever, unless a header was cut twice.
SendingEnds == pc \in {"out", "write"} ~> pc \in {"in", "closed", "sent"} \/ cuts > 1

=============================================================================
