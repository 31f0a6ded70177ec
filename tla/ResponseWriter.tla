--------------------------- MODULE ResponseWriter ---------------------------
(***************************************************************************)
(* The response of http_conn: process_write, the file do_request maps, and *)
(* the arithmetic on two iovecs by which write() goes on where the socket  *)
(* was full (http/http_conn.cpp).                                          *)
(*                                                                         *)
(* A byte is where it lies: <<"buf", i>> in m_write_buf, <<"map", i>> in   *)
(* the mapped file, counted from 1.  Every header has HeaderLen bytes,     *)
(* every error page FormLen: all of them fit WRITE_BUFFER_SIZE.            *)
(***************************************************************************)
EXTENDS Integers, Sequences, FiniteSets

CONSTANTS
  FileSize,             \* the readable files: a function to st_size
  HeaderLen, FormLen

ASSUME WriterAssumption ==
  /\ HeaderLen \in Nat \ {0} /\ FormLen \in Nat \ {0}
  /\ FileSize \in [DOMAIN FileSize -> Nat]

\* What a request can ask for without there being a file to send.
NoFile == {"missing", "secret", "dir"}

VARIABLES
  m_write_idx, bytes_to_send, bytes_have_send,
  m_iv,             \* per iovec where it begins and its length
  m_iv_count,
  m_file_address,   \* 0: null; -1: MAP_FAILED; else a mapping
  st_size,          \* m_file_stat.st_size
  mapped,           \* the mappings there are
  mmaps,            \* how many mmap() has made
  out,              \* the bytes of this response the kernel has accepted
  cuts              \* history: how often a writev ended inside m_iv[0]

writerVars == <<m_write_idx, bytes_to_send, bytes_have_send, m_iv, m_iv_count,
                m_file_address, st_size, mapped, mmaps, out, cuts>>

NoIov == [base |-> 0, len |-> 0]

WriterInit ==
  /\ m_write_idx = 0 /\ bytes_to_send = 0 /\ bytes_have_send = 0
  /\ m_iv = <<NoIov, NoIov>> /\ m_iv_count = 0
  /\ m_file_address = 0 /\ st_size = 0 /\ mapped = {} /\ mmaps = 0
  /\ out = <<>> /\ cuts = 0

\* init(), the fields of the response: the mapping is none of them.
WriterReset ==
  /\ m_write_idx' = 0 /\ bytes_to_send' = 0 /\ bytes_have_send' = 0
  /\ out' = <<>> /\ cuts' = 0
  /\ UNCHANGED <<m_iv, m_iv_count>>

\* do_request() from stat() on: the code, and the mapping of a readable file.
RequestCode(url) ==
  CASE url = "missing" -> "NO_RESOURCE"
    [] url = "secret"  -> "FORBIDDEN_REQUEST"
    [] url = "dir"     -> "BAD_REQUEST"
    [] OTHER           -> "FILE_REQUEST"

MapFile(url) ==
  /\ st_size' = IF url = "missing" THEN st_size
                ELSE IF url \in DOMAIN FileSize THEN FileSize[url] ELSE 1
  /\ IF url \notin DOMAIN FileSize THEN UNCHANGED <<m_file_address, mapped, mmaps>>
     ELSE IF FileSize[url] = 0 THEN m_file_address' = -1 /\ UNCHANGED <<mapped, mmaps>>
     ELSE /\ mmaps' = mmaps + 1
          /\ m_file_address' = mmaps'
          /\ mapped' = mapped \cup {mmaps'}

\* process_write(): FILE_REQUEST of a file with contents, or an error page.
\* NO_RESOURCE has no case, an empty file falls through to default.
Builds(ret, size) ==
  ret # "NO_RESOURCE" /\ (ret = "FILE_REQUEST" => size # 0)

\* Variant: the page counts with the NUL that ends it.
ProcessWriteCountsNul(ret, size) ==
  /\ Builds(ret, size)
  /\ m_write_idx' = HeaderLen + (IF ret = "FILE_REQUEST" THEN 0 ELSE FormLen)
  /\ IF ret = "FILE_REQUEST"
     THEN /\ m_iv' = <<[base |-> 0, len |-> m_write_idx'], [base |-> 0, len |-> size]>>
          /\ m_iv_count' = 2
          /\ bytes_to_send' = m_write_idx' + size
     ELSE /\ m_iv' = [m_iv EXCEPT ![1] = [base |-> 0, len |-> m_write_idx']]
          /\ m_iv_count' = 1
          /\ bytes_to_send' = m_write_idx' + 1
  /\ UNCHANGED <<bytes_have_send, out, cuts>>

ProcessWrite(ret, size) ==
  /\ Builds(ret, size)
  /\ m_write_idx' = HeaderLen + (IF ret = "FILE_REQUEST" THEN 0 ELSE FormLen)
  /\ IF ret = "FILE_REQUEST"
     THEN /\ m_iv' = <<[base |-> 0, len |-> m_write_idx'], [base |-> 0, len |-> size]>>
          /\ m_iv_count' = 2
          /\ bytes_to_send' = m_write_idx' + size
     ELSE /\ m_iv' = [m_iv EXCEPT ![1] = [base |-> 0, len |-> m_write_idx']]
          /\ m_iv_count' = 1
          /\ bytes_to_send' = m_write_idx'
  /\ UNCHANGED <<bytes_have_send, out, cuts>>

\* What the iovecs refer to.
Bytes(where, iov) == [i \in 1..iov.len |-> <<where, iov.base + i>>]

Pending ==
  Bytes("buf", m_iv[1]) \o (IF m_iv_count = 2 THEN Bytes("map", m_iv[2]) ELSE <<>>)

\* Variant: the second iovec starts over after every writev.
AdvanceFromStart(have, left) ==
  IF have >= m_iv[1].len
  THEN <<[m_iv[1] EXCEPT !.len = 0], [base |-> 0, len |-> left]>>
  ELSE [m_iv EXCEPT ![1] = [base |-> have, len |-> @.len - have]]

\* write(): the iovecs after a writev.
Advance(have, left) ==
  IF have >= m_iv[1].len
  THEN <<[m_iv[1] EXCEPT !.len = 0], [base |-> have - m_write_idx, len |-> left]>>
  ELSE [m_iv EXCEPT ![1] = [base |-> have, len |-> @.len - have]]

\* writev() accepts n bytes.
Writev(n) ==
  /\ n \in 1..Len(Pending)
  /\ out' = out \o SubSeq(Pending, 1, n)
  /\ bytes_have_send' = bytes_have_send + n
  /\ bytes_to_send' = bytes_to_send - n
  /\ m_iv' = Advance(bytes_have_send', bytes_to_send')
  /\ cuts' = cuts + (IF n < m_iv[1].len THEN 1 ELSE 0)
  /\ UNCHANGED <<m_write_idx, m_iv_count>>

\* unmap()
Unmap ==
  /\ mapped' = mapped \ {m_file_address}
  /\ m_file_address' = 0
  /\ UNCHANGED <<st_size, mmaps>>

\* What process_write prepared: the header, then the page or the file.
Response ==
  [i \in 1..m_write_idx |-> <<"buf", i>>]
    \o (IF m_iv_count = 2 THEN [i \in 1..st_size |-> <<"map", i>>] ELSE <<>>)

=============================================================================
