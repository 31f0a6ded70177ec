----------------------------- MODULE HttpParser -----------------------------
(***************************************************************************)
(* The read buffer of http_conn and the two state machines that cut it     *)
(* into lines and lines into a request: read_once, parse_line,             *)
(* parse_request_line, parse_headers, parse_content and the loop of        *)
(* process_read, one iteration a step (http/http_conn.cpp).                *)
(*                                                                         *)
(* The text of a line, which parse_line passes over byte by byte, is one   *)
(* byte here; CR and LF are bytes of their own, so a cut can fall before,  *)
(* between and after them.  Positions count the bytes before them, as the  *)
(* indices of the code do.                                                 *)
(***************************************************************************)
EXTENDS Integers, Sequences, FiniteSetsExt

CONSTANTS
  READ_BUFFER_SIZE,
  ET,               \* TRUE: m_TRIGMode = 1
  RequestLines,     \* the well-formed request lines: a function to what they ask for
  ContentLengths    \* the Content-length headers: a function to their value

ASSUME ParserAssumption ==
  /\ READ_BUFFER_SIZE \in Nat \ {0}
  /\ ET \in BOOLEAN

VARIABLES
  m_read_buf,       \* the bytes received
  m_read_idx, m_checked_idx, m_start_line,
  m_check_state, m_content_length,
  m_url, m_linger,
  m_string,         \* the body
  line_status,      \* local to process_read
  code              \* what process_read returned

parserVars == <<m_read_buf, m_read_idx, m_checked_idx, m_start_line, m_check_state,
                m_content_length, m_url, m_linger, m_string, line_status, code>>

\* init(), the fields of the parser; m_string keeps its value.
ParserReset ==
  /\ m_read_buf' = <<>> /\ m_read_idx' = 0
  /\ m_checked_idx' = 0 /\ m_start_line' = 0
  /\ m_check_state' = "REQUESTLINE"
  /\ m_content_length' = 0
  /\ m_url' = "" /\ m_linger' = FALSE
  /\ code' = "none"
  /\ UNCHANGED <<m_string, line_status>>

ParserInit ==
  /\ m_read_buf = <<>> /\ m_read_idx = 0
  /\ m_checked_idx = 0 /\ m_start_line = 0
  /\ m_check_state = "REQUESTLINE"
  /\ m_content_length = 0
  /\ m_url = "" /\ m_linger = FALSE
  /\ m_string = <<>> /\ line_status = "OK" /\ code = "none"

\* read_once() takes the next bytes.  LT receives once, at most what there is
\* room for; ET receives until EAGAIN.
Fits(piece) ==
  IF ET THEN m_read_idx + Len(piece) < READ_BUFFER_SIZE
        ELSE m_read_idx + Len(piece) <= READ_BUFFER_SIZE

\* read_once() fails: LT finds the buffer full, ET fills it, and then recv with
\* no room left returns 0.
Overflows(piece) ==
  IF ET THEN ~Fits(piece) ELSE m_read_idx = READ_BUFFER_SIZE

ReadPiece(piece) ==
  /\ m_read_buf' = m_read_buf \o piece
  /\ m_read_idx' = m_read_idx + Len(piece)
  /\ line_status' = "OK" /\ code' = "none"       \* process_read() begins
  /\ UNCHANGED <<m_checked_idx, m_start_line, m_check_state, m_content_length, m_url,
                 m_linger, m_string>>

\* read_once() fails in recv; LT has added the -1 to m_read_idx by then.
RecvFails ==
  /\ m_read_idx' = IF ET THEN m_read_idx ELSE m_read_idx - 1
  /\ UNCHANGED <<m_read_buf, m_checked_idx, m_start_line, m_check_state,
                 m_content_length, m_url, m_linger, m_string, line_status, code>>

Stops == {i \in (m_checked_idx + 1)..m_read_idx : m_read_buf[i] \in {"CR", "LF"}}

\* Variant: an LF that comes in a later piece than its CR ends no line.
ParseLineOnePiece ==
  LET i == Min(Stops)
      to(status, n) == [status |-> status, checked |-> n]
  IN  IF Stops = {} THEN to("OPEN", m_read_idx)
      ELSE IF m_read_buf[i] = "CR" /\ i = m_read_idx THEN to("OPEN", i)
      ELSE IF m_read_buf[i] = "CR" /\ m_read_buf[i + 1] = "LF" THEN to("OK", i + 1)
      ELSE to("BAD", i - 1)

\* parse_line(): the status and where m_checked_idx ends up.  A CR at the end
\* of the input is left unchecked until the next byte is there.
ParseLine ==
  LET i == Min(Stops)
      to(status, n) == [status |-> status, checked |-> n]
  IN  IF Stops = {} THEN to("OPEN", m_read_idx)
      ELSE IF m_read_buf[i] = "CR"
      THEN IF i = m_read_idx THEN to("OPEN", i - 1)
           ELSE IF m_read_buf[i + 1] = "LF" THEN to("OK", i + 1) ELSE to("BAD", i - 1)
      ELSE IF i > 2 /\ m_read_buf[i - 1] = "CR" THEN to("OK", i) ELSE to("BAD", i - 1)

\* The condition of the while loop: in the body it takes no line at first.
Line ==
  IF m_check_state = "CONTENT" /\ line_status = "OK"
  THEN [status |-> "OK", checked |-> m_checked_idx]
  ELSE ParseLine

\* get_line(), up to the CR LF which parse_line overwrote.
Text == SubSeq(m_read_buf, m_start_line + 1, Line.checked - 2)

LineEnds(state) ==
  /\ m_check_state = state
  /\ Line.status = "OK"
  /\ m_checked_idx' = Line.checked
  /\ m_start_line' = Line.checked

\* parse_request_line()
ParseRequestLine ==
  /\ LineEnds("REQUESTLINE")
  /\ IF Len(Text) = 1 /\ Text[1] \in DOMAIN RequestLines
     THEN m_url' = RequestLines[Text[1]] /\ m_check_state' = "HEADER" /\ UNCHANGED code
     ELSE code' = "BAD_REQUEST" /\ UNCHANGED <<m_url, m_check_state>>
  /\ UNCHANGED <<m_read_buf, m_read_idx, m_content_length, m_linger, m_string, line_status>>

\* parse_headers(): an empty line ends the headers, and the request if there is
\* no body.
ParseHeader ==
  /\ LineEnds("HEADER")
  /\ IF Text = <<>>
     THEN /\ IF m_content_length # 0
             THEN m_check_state' = "CONTENT" /\ UNCHANGED code
             ELSE code' = "GET_REQUEST" /\ UNCHANGED m_check_state
          /\ UNCHANGED <<m_linger, m_content_length>>
     ELSE /\ m_linger' = (m_linger \/ Text[1] = "keep-alive")
          /\ m_content_length' = IF Text[1] \in DOMAIN ContentLengths
                                 THEN ContentLengths[Text[1]] ELSE m_content_length
          /\ UNCHANGED <<m_check_state, code>>
  /\ UNCHANGED <<m_read_buf, m_read_idx, m_url, m_string, line_status>>

\* parse_content(): the body is complete, or the loop looks for a line in it.
ParseContent ==
  /\ LineEnds("CONTENT")
  /\ IF m_read_idx >= m_content_length + Line.checked
     THEN /\ code' = "GET_REQUEST"
          /\ m_string' = SubSeq(m_read_buf, m_start_line + 1, m_start_line + m_content_length)
          /\ UNCHANGED line_status
     ELSE line_status' = "OPEN" /\ UNCHANGED <<code, m_string>>
  /\ UNCHANGED <<m_read_buf, m_read_idx, m_check_state, m_content_length, m_url, m_linger>>

\* The loop ends without a line, LINE_BAD included: NO_REQUEST.
ParseEnds ==
  /\ Line.status # "OK"
  /\ m_checked_idx' = Line.checked
  /\ code' = "NO_REQUEST"
  /\ UNCHANGED <<m_read_buf, m_read_idx, m_start_line, m_check_state, m_content_length,
                 m_url, m_linger, m_string, line_status>>

Parse == ParseRequestLine \/ ParseHeader \/ ParseContent \/ ParseEnds

=============================================================================
