------------------------- MODULE HttpExchangeProofs -------------------------
(***************************************************************************)
(* Proofs about HttpExchange for any requests, files and lengths, however  *)
(* the bytes are cut on either side and whoever closes when: mappings are  *)
(* returned, the indices of the read buffer stay in order, the client      *)
(* gets the bytes of the response in order and once, and a request is      *)
(* understood as it would be in one piece.                                 *)
(*                                                                         *)
(* The last of them is the longest way: where the lines of a request are   *)
(* in its bytes, what parse_line makes of a line wherever the reads have   *)
(* cut it, and what the two state machines know between two lines.         *)
(***************************************************************************)
EXTENDS HttpExchange, FiniteSetTheorems, WellFoundedInduction, TLAPS

-----------------------------------------------------------------------------
(* Mappings.                                                                *)

\* A mapping that is not m_file_address has been lost with a connection that
\* was closed with its response pending, and while nothing is being sent
\* m_file_address refers to no mapping that is still there.
MappingInv ==
  /\ mmaps \in Nat /\ aborted \in Nat
  /\ mapped \subseteq 1..mmaps
  /\ m_file_address \in -1..mmaps
  /\ pc \in {"in", "parse", "answer", "out", "write", "sent", "closed"}
  /\ pc \in {"in", "parse", "answer", "closed"} => Cardinality(mapped) <= aborted
  /\ pc \in {"out", "write", "sent"} => Cardinality(mapped \ {m_file_address}) <= aborted

mappingVars == <<mmaps, aborted, mapped, m_file_address>>

\* Sets of mappings are finite.
LEMMA MappingsFinite ==
  ASSUME NEW n \in Nat, NEW S \in SUBSET (1..n)
  PROVE  IsFiniteSet(S) /\ Cardinality(S) \in Nat
<1>1. IsFiniteSet(1..n)
  BY FS_Interval
<1> QED
  BY <1>1, FS_Subset, FS_CardinalityType

\* Taking one mapping away leaves as many or one less.
LEMMA RemoveOne ==
  ASSUME NEW S, IsFiniteSet(S), NEW x
  PROVE  /\ Cardinality(S) \in Nat
         /\ Cardinality(S \ {x}) \in Nat
         /\ Cardinality(S \ {x}) <= Cardinality(S)
         /\ Cardinality(S) <= Cardinality(S \ {x}) + 1
<1>1. Cardinality(S) \in Nat
  BY FS_CardinalityType
<1>2. IsFiniteSet(S \ {x})
  BY FS_RemoveElement
<1>3. Cardinality(S \ {x}) \in Nat
  BY <1>2, FS_CardinalityType
<1>4. Cardinality(S \ {x}) = IF x \in S THEN Cardinality(S) - 1 ELSE Cardinality(S)
  BY FS_RemoveElement
<1> QED
  BY <1>1, <1>2, <1>3, <1>4

\* A step that changes no mapping, and goes from the phases in which nothing
\* is sent to one of them.
LEMMA MappingQuiet ==
  ASSUME MappingInv, UNCHANGED mappingVars,
         \/ /\ pc \in {"in", "parse", "answer", "closed"}
            /\ pc' \in {"in", "parse", "answer", "closed"}
         \/ pc \in {"out", "write", "sent"} /\ pc' \in {"out", "write", "sent"}
  PROVE  MappingInv'
  BY DEF MappingInv, mappingVars

\* do_request() maps at most one file, and only if the response is built.
LEMMA MappingAnswer ==
  ASSUME MappingInv, Answer
  PROVE  MappingInv'
<1> USE ExchangeAssumption DEF ExchangeAssumption
<1> DEFINE quiet == UNCHANGED <<m_file_address, mapped, mmaps>>
<1>1. /\ pc = "answer" /\ pc' \in {"out", "closed"}
      /\ UNCHANGED aborted
      /\ Cardinality(mapped) <= aborted
  BY DEF Answer, MappingInv
<1>2. IsFiniteSet(mapped) /\ aborted \in Nat
  BY MappingsFinite DEF MappingInv
<1>a. ASSUME NEW x PROVE Cardinality(mapped \ {x}) <= aborted
  <2>1. /\ Cardinality(mapped) \in Nat /\ Cardinality(mapped \ {x}) \in Nat
        /\ Cardinality(mapped \ {x}) <= Cardinality(mapped)
    BY <1>2, RemoveOne
  <2> QED
    BY <1>1, <1>2, <2>1
<1>3. CASE quiet
  BY <1>1, <1>3, <1>a DEF MappingInv
<1>4. CASE code = "GET_REQUEST" /\ ~quiet
  <2>1. MapFile(m_url)
    BY <1>4 DEF Answer
  <2>2. m_url \in DOMAIN FileSize /\ st_size' = FileSize[m_url]
    BY <1>4, <2>1 DEF MapFile, NoFile
  <2>3. RequestCode(m_url) = "FILE_REQUEST"
    BY <2>2 DEF RequestCode, NoFile
  <2>4. CASE FileSize[m_url] = 0
    <3>1. m_file_address' = -1 /\ UNCHANGED <<mapped, mmaps>>
      BY <2>1, <2>2, <2>4 DEF MapFile
    <3>2. Cardinality(mapped \ {-1}) <= aborted
      BY <1>a
    <3> QED
      BY <1>1, <3>1, <3>2 DEF MappingInv
  <2>5. CASE FileSize[m_url] # 0
    <3>1. /\ mmaps' = mmaps + 1
          /\ m_file_address' = mmaps'
          /\ mapped' = mapped \cup {mmaps'}
      BY <2>1, <2>2, <2>5 DEF MapFile
    <3>2. pc' = "out"
      BY <1>1, <1>4, <2>2, <2>3, <2>5 DEF Answer, Builds
    <3>3. mmaps' \notin mapped
      BY <3>1 DEF MappingInv
    <3>4. mapped' \ {m_file_address'} = mapped
      BY <3>1, <3>3
    <3>5. Cardinality((mapped \ {m_file_address})') <= aborted'
      BY <1>1, <3>4
    <3>6. /\ mmaps' \in Nat /\ aborted' \in Nat
          /\ mapped' \subseteq 1..mmaps' /\ m_file_address' \in -1..mmaps'
      BY <1>1, <3>1 DEF MappingInv
    <3> QED
      BY <3>2, <3>5, <3>6 DEF MappingInv
  <2> QED
    BY <2>4, <2>5
<1>5. CASE code # "GET_REQUEST"
  BY <1>3, <1>5 DEF Answer
<1> QED
  BY <1>3, <1>4, <1>5

\* unmap() returns what m_file_address refers to.
LEMMA MappingUnmap ==
  ASSUME MappingInv, pc \in {"write", "sent"}, Unmap, UNCHANGED aborted,
         pc' \in {"in", "closed"}
  PROVE  MappingInv'
  BY DEF MappingInv, Unmap

\* Closing with a response pending loses at most its mapping.
LEMMA MappingAbort ==
  ASSUME MappingInv, Abort
  PROVE  MappingInv'
<1>1. CASE pc = "in"
  BY <1>1 DEF MappingInv, Abort, writerVars
<1>2. CASE pc = "out"
  <2>1. IsFiniteSet(mapped)
    BY MappingsFinite DEF MappingInv
  <2>2. /\ Cardinality(mapped) \in Nat /\ Cardinality(mapped \ {m_file_address}) \in Nat
        /\ Cardinality(mapped) <= Cardinality(mapped \ {m_file_address}) + 1
    BY <2>1, RemoveOne
  <2>4. aborted' = aborted + 1 /\ pc' = "closed" /\ UNCHANGED <<mmaps, mapped, m_file_address>>
    BY <1>2 DEF Abort, writerVars
  <2>5. Cardinality(mapped) <= aborted + 1
    BY <1>2, <2>1, <2>2 DEF MappingInv
  <2> QED
    BY <2>4, <2>5 DEF MappingInv
<1> QED
  BY <1>1, <1>2 DEF Abort

LEMMA MappingInductive == MappingInv /\ [Next]_vars => MappingInv'
<1> SUFFICES ASSUME MappingInv, [Next]_vars PROVE MappingInv'
  OBVIOUS
<1>1. ASSUME NEW n \in 1..Len(stream), Read(n) \/ BufferFull(n)
      PROVE  MappingInv'
  BY <1>1, MappingQuiet DEF Read, BufferFull, writerVars, mappingVars
<1>2. CASE ReadError
  BY <1>2, MappingQuiet DEF ReadError, writerVars, mappingVars
<1>3. CASE ProcessRead
  BY <1>3, MappingQuiet DEF ProcessRead, writerVars, mappingVars
<1>4. CASE Answer
  BY <1>4, MappingAnswer
<1>5. CASE Writable
  BY <1>5, MappingQuiet DEF Writable, writerVars, mappingVars
<1>6. ASSUME NEW n \in 1..(HeaderLen + FormLen + st_size), Write(n)
      PROVE  MappingInv'
  BY <1>6, MappingQuiet DEF Write, mappingVars
<1>7. CASE WriteError
  BY <1>7, MappingUnmap DEF WriteError
<1>8. CASE Finish
  <2>1. pc' \in {"in", "closed"} /\ pc = "sent" /\ Unmap /\ UNCHANGED aborted
    BY <1>8 DEF Finish
  <2> QED
    BY <2>1, MappingUnmap
<1>9. CASE Abort
  BY <1>9, MappingAbort
<1>10. CASE Accept
  BY <1>10, MappingQuiet DEF Accept, mappingVars
<1>11. CASE UNCHANGED vars
  BY <1>11 DEF vars, writerVars, exchangeVars, MappingInv
<1> QED
  BY <1>1, <1>2, <1>3, <1>4, <1>5, <1>6, <1>7, <1>8, <1>9, <1>10, <1>11 DEF Next, Sending

LEMMA MappingsHold == MappingInv => MappingsReturned
<1> SUFFICES ASSUME MappingInv PROVE MappingsReturned
  OBVIOUS
<1>1. IsFiniteSet(mapped) /\ Cardinality(mapped) \in Nat
  BY MappingsFinite DEF MappingInv
<1>2. /\ Cardinality(mapped \ {m_file_address}) \in Nat
      /\ Cardinality(mapped \ {m_file_address}) <= Cardinality(mapped)
  BY <1>1, RemoveOne
<1>4. Cardinality(mapped \ {m_file_address}) <= aborted
  BY <1>1, <1>2 DEF MappingInv
<1>5. pc = "in" /\ aborted = 0 => mapped = {}
  BY <1>1, FS_EmptySet DEF MappingInv
<1> QED
  BY <1>4, <1>5 DEF MappingsReturned

\* However many requests and connections the object serves and whatever is
\* asked of it, no file stays mapped but those of connections that were closed
\* with their response pending: at most one for each.
THEOREM MappingsAlwaysReturned == Spec => []MappingsReturned
<1>1. Init => MappingInv
  BY FS_EmptySet DEF Init, WriterInit, MappingInv
<1> QED
  BY <1>1, MappingInductive, MappingsHold, PTL DEF Spec

-----------------------------------------------------------------------------
(* The bytes that are sent.                                                 *)

Places == {"buf", "map"} \X Int
Second == IF m_iv_count = 2 THEN st_size ELSE 0
Phases == {"in", "parse", "answer", "out", "write", "sent", "closed"}

SendTypes ==
  /\ m_write_idx \in Nat /\ st_size \in Nat /\ bytes_have_send \in Nat
  /\ bytes_to_send \in Nat /\ cuts \in Nat
  /\ m_iv \in [1..2 -> [base : Int, len : Nat]]
  /\ m_iv_count \in 0..2
  /\ out \in Seq(Places) /\ Len(out) = bytes_have_send
  /\ pc \in Phases

\* What is left in the iovecs is never more than bytes_to_send.
Covered ==
  m_iv[1].len + (IF m_iv_count = 2 THEN m_iv[2].len ELSE 0) <= bytes_to_send

\* Before the second cut of a header the iovecs are where the response goes on.
Exactly ==
  /\ bytes_have_send + bytes_to_send = m_write_idx + Second
  /\ bytes_have_send < m_write_idx =>
       /\ m_iv[1] = [base |-> bytes_have_send, len |-> m_write_idx - bytes_have_send]
       /\ m_iv_count = 2 => m_iv[2] = [base |-> 0, len |-> st_size]
       /\ cuts = 0 => bytes_have_send = 0
  /\ bytes_have_send >= m_write_idx =>
       /\ m_iv[1].len = 0
       /\ m_iv_count = 2 =>
            m_iv[2] = [base |-> bytes_have_send - m_write_idx, len |-> bytes_to_send]

\* The client has the first bytes of the response.
Delivered ==
  /\ bytes_have_send <= m_write_idx + Second
  /\ \A i \in 1..bytes_have_send :
       out[i] = IF i <= m_write_idx THEN <<"buf", i>> ELSE <<"map", i - m_write_idx>>

SendInv ==
  /\ SendTypes
  /\ pc \in {"in", "parse", "answer"} => bytes_have_send = 0 /\ cuts = 0
  /\ pc \in {"out", "write", "sent"} => Covered
  /\ cuts <= 1 => Delivered
  /\ pc \in {"out", "write", "sent"} /\ cuts <= 1 => Exactly
  /\ pc = "sent" => bytes_to_send = 0

\* A function on 1..n is a sequence.
LEMMA IsSequence ==
  ASSUME NEW S, NEW n \in Nat, NEW f \in [1..n -> S]
  PROVE  f \in Seq(S) /\ Len(f) = n
  OBVIOUS

\* What is left in an iovec, byte by byte.
LEMMA BytesOfIov ==
  ASSUME NEW where \in {"buf", "map"}, NEW iov \in [base : Int, len : Nat]
  PROVE  /\ Bytes(where, iov) \in Seq(Places)
         /\ Len(Bytes(where, iov)) = iov.len
         /\ \A i \in 1..iov.len : Bytes(where, iov)[i] = <<where, iov.base + i>>
<1>1. \A i \in 1..iov.len : <<where, iov.base + i>> \in Places
  BY DEF Places
<1>2. Bytes(where, iov) \in [1..iov.len -> Places]
  BY <1>1 DEF Bytes
<1>3. \A i \in 1..iov.len : Bytes(where, iov)[i] = <<where, iov.base + i>>
  BY DEF Bytes
<1>4. iov.len \in Nat
  OBVIOUS
<1> QED
  BY <1>2, <1>3, <1>4, IsSequence

\* One sequence behind another, byte by byte.
LEMMA Concatenated ==
  ASSUME NEW S, NEW s \in Seq(S), NEW t \in Seq(S)
  PROVE  /\ s \o t \in Seq(S)
         /\ Len(s \o t) = Len(s) + Len(t)
         /\ \A i \in 1..(Len(s) + Len(t)) :
              (s \o t)[i] = IF i <= Len(s) THEN s[i] ELSE t[i - Len(s)]
  OBVIOUS

\* The iovecs together, byte by byte.
LEMMA PendingBytes ==
  ASSUME SendTypes
  PROVE  /\ Pending \in Seq(Places)
         /\ Len(Pending) = m_iv[1].len + (IF m_iv_count = 2 THEN m_iv[2].len ELSE 0)
         /\ \A i \in 1..Len(Pending) :
              Pending[i] = IF i <= m_iv[1].len THEN <<"buf", m_iv[1].base + i>>
                           ELSE <<"map", m_iv[2].base + i - m_iv[1].len>>
<1> DEFINE first == Bytes("buf", m_iv[1])
           rest == IF m_iv_count = 2 THEN Bytes("map", m_iv[2]) ELSE <<>>
<1>1. m_iv[1] \in [base : Int, len : Nat] /\ m_iv[2] \in [base : Int, len : Nat]
  BY DEF SendTypes
<1>2. /\ first \in Seq(Places) /\ Len(first) = m_iv[1].len
      /\ \A i \in 1..m_iv[1].len : first[i] = <<"buf", m_iv[1].base + i>>
  BY <1>1, BytesOfIov
<1>3. /\ Bytes("map", m_iv[2]) \in Seq(Places) /\ Len(Bytes("map", m_iv[2])) = m_iv[2].len
      /\ \A i \in 1..m_iv[2].len : Bytes("map", m_iv[2])[i] = <<"map", m_iv[2].base + i>>
  BY <1>1, BytesOfIov
<1>4. /\ rest \in Seq(Places)
      /\ Len(rest) = IF m_iv_count = 2 THEN m_iv[2].len ELSE 0
      /\ \A i \in 1..Len(rest) : rest[i] = <<"map", m_iv[2].base + i>>
  BY <1>3
<1> HIDE DEF first, rest
<1>5. /\ first \o rest \in Seq(Places) /\ Len(first \o rest) = Len(first) + Len(rest)
      /\ \A i \in 1..(Len(first) + Len(rest)) :
           (first \o rest)[i] = IF i <= Len(first) THEN first[i] ELSE rest[i - Len(first)]
  BY <1>2, <1>4, Concatenated
<1>6. \A i \in 1..Len(first \o rest) :
        (first \o rest)[i] = IF i <= m_iv[1].len THEN <<"buf", m_iv[1].base + i>>
                             ELSE <<"map", m_iv[2].base + i - m_iv[1].len>>
  <2> TAKE i \in 1..Len(first \o rest)
  <2>1. CASE i <= m_iv[1].len
    BY <1>2, <1>5, <2>1
  <2>2. CASE i > m_iv[1].len
    <3>1. i - m_iv[1].len \in 1..Len(rest)
      BY <1>1, <1>2, <1>4, <1>5, <2>2, SMTT(30)
    <3>2. (first \o rest)[i] = rest[i - m_iv[1].len]
      BY <1>1, <1>2, <1>5, <2>2
    <3>3. m_iv[2].base + (i - m_iv[1].len) = m_iv[2].base + i - m_iv[1].len
      BY <1>1
    <3>4. rest[i - m_iv[1].len] = <<"map", m_iv[2].base + (i - m_iv[1].len)>>
      BY <1>4, <3>1
    <3>5. ~(i <= m_iv[1].len)
      BY <1>1, <2>2
    <3> QED
      BY <3>2, <3>3, <3>4, <3>5
  <2> QED
    BY <1>1, <2>1, <2>2
<1>7. Pending = first \o rest
  BY DEF Pending, first, rest
<1> QED
  BY <1>2, <1>4, <1>5, <1>6, <1>7

\* In the exact case the iovecs hold the rest of the response.
LEMMA PendingIsRest ==
  ASSUME SendTypes, Exactly
  PROVE  /\ Len(Pending) = bytes_to_send
         /\ \A i \in 1..Len(Pending) :
              Pending[i] = IF bytes_have_send + i <= m_write_idx
                           THEN <<"buf", bytes_have_send + i>>
                           ELSE <<"map", bytes_have_send + i - m_write_idx>>
<1>1. /\ m_write_idx \in Nat /\ st_size \in Nat /\ bytes_have_send \in Nat
      /\ bytes_to_send \in Nat
      /\ m_iv[1] \in [base : Int, len : Nat] /\ m_iv[2] \in [base : Int, len : Nat]
  BY DEF SendTypes
<1>2. CASE bytes_have_send < m_write_idx
  <2>1. m_iv[1].base = bytes_have_send /\ m_iv[1].len = m_write_idx - bytes_have_send
    BY <1>2 DEF Exactly
  <2>2. m_iv_count = 2 => m_iv[2].base = 0 /\ m_iv[2].len = st_size
    BY <1>2 DEF Exactly
  <2>3. Len(Pending) = bytes_to_send
    BY <1>1, <2>1, <2>2, PendingBytes DEF Exactly, Second
  <2> SUFFICES ASSUME NEW i \in 1..Len(Pending)
               PROVE  Pending[i] = IF bytes_have_send + i <= m_write_idx
                                   THEN <<"buf", bytes_have_send + i>>
                                   ELSE <<"map", bytes_have_send + i - m_write_idx>>
    BY <2>3
  <2>4. Pending[i] = IF i <= m_iv[1].len THEN <<"buf", m_iv[1].base + i>>
                     ELSE <<"map", m_iv[2].base + i - m_iv[1].len>>
    BY PendingBytes
  <2>5. i <= m_iv[1].len <=> bytes_have_send + i <= m_write_idx
    BY <1>1, <2>1, <2>3
  <2>6. i > m_iv[1].len => m_iv_count = 2
    BY <1>1, PendingBytes
  <2>7. CASE i <= m_iv[1].len
    BY <2>1, <2>4, <2>5, <2>7
  <2>8. CASE ~(i <= m_iv[1].len)
    <3>1. m_iv[2].base + i - m_iv[1].len = bytes_have_send + i - m_write_idx
      BY <1>1, <2>1, <2>2, <2>3, <2>6, <2>8
    <3> QED
      BY <2>4, <2>5, <2>8, <3>1
  <2> QED
    BY <2>7, <2>8
<1>3. CASE bytes_have_send >= m_write_idx
  <2>1. m_iv[1].len = 0
    BY <1>3 DEF Exactly
  <2>2. m_iv_count = 2 =>
          m_iv[2].base = bytes_have_send - m_write_idx /\ m_iv[2].len = bytes_to_send
    BY <1>3 DEF Exactly
  <2>3. Len(Pending) = bytes_to_send
    BY <1>1, <1>3, <2>1, <2>2, PendingBytes DEF Exactly, Second
  <2> SUFFICES ASSUME NEW i \in 1..Len(Pending)
               PROVE  Pending[i] = IF bytes_have_send + i <= m_write_idx
                                   THEN <<"buf", bytes_have_send + i>>
                                   ELSE <<"map", bytes_have_send + i - m_write_idx>>
    BY <2>3
  <2>4. Pending[i] = IF i <= m_iv[1].len THEN <<"buf", m_iv[1].base + i>>
                     ELSE <<"map", m_iv[2].base + i - m_iv[1].len>>
    BY PendingBytes
  <2>5. ~(i <= m_iv[1].len) /\ ~(bytes_have_send + i <= m_write_idx)
    BY <1>1, <1>3, <2>1, <2>3
  <2>6. m_iv_count = 2
    BY <1>1, <2>1, <2>3, PendingBytes
  <2>7. m_iv[2].base + i - m_iv[1].len = bytes_have_send + i - m_write_idx
    BY <1>1, <2>1, <2>2, <2>3, <2>6
  <2> QED
    BY <2>4, <2>5, <2>7
<1> QED
  BY <1>1, <1>2, <1>3

\* writev() and the arithmetic behind it.
LEMMA SendWritev ==
  ASSUME SendInv, pc = "write", NEW n \in Int, Writev(n), UNCHANGED st_size,
         IF bytes_to_send' <= 0 THEN pc' = "sent" ELSE pc' \in {"write", "out"}
  PROVE  SendInv'
<1> DEFINE have == bytes_have_send
           left == bytes_to_send
           w == m_write_idx
<1>1. /\ SendTypes /\ Covered
      /\ w \in Nat /\ st_size \in Nat /\ have \in Nat /\ left \in Nat /\ cuts \in Nat
      /\ m_iv[1] \in [base : Int, len : Nat] /\ m_iv[2] \in [base : Int, len : Nat]
  BY DEF SendInv, SendTypes
<1>2. /\ Pending \in Seq(Places)
      /\ Len(Pending) = m_iv[1].len + (IF m_iv_count = 2 THEN m_iv[2].len ELSE 0)
      /\ n \in 1..Len(Pending) /\ n <= left
  BY <1>1, PendingBytes DEF Writev, Covered
<1>3. /\ have' = have + n /\ left' = left - n
      /\ w' = w /\ st_size' = st_size /\ m_iv_count' = m_iv_count /\ Second' = Second
      /\ cuts' = cuts + (IF n < m_iv[1].len THEN 1 ELSE 0)
      /\ out' = out \o SubSeq(Pending, 1, n)
  BY DEF Writev, Second
<1>4. have' \in Nat /\ left' \in Nat /\ cuts' \in Nat
  BY <1>1, <1>2, <1>3
<1>5. /\ SubSeq(Pending, 1, n) \in Seq(Places) /\ Len(SubSeq(Pending, 1, n)) = n
      /\ \A i \in 1..n : SubSeq(Pending, 1, n)[i] = Pending[i]
  BY <1>2
<1>6. /\ out' \in Seq(Places) /\ Len(out') = have'
      /\ \A i \in 1..have' : out'[i] = IF i <= have THEN out[i] ELSE Pending[i - have]
  <2>1. out \in Seq(Places) /\ Len(out) = have
    BY <1>1 DEF SendTypes
  <2>2. /\ out' \in Seq(Places) /\ Len(out') = have'
        /\ \A i \in 1..have' :
             out'[i] = IF i <= have THEN out[i] ELSE SubSeq(Pending, 1, n)[i - have]
    BY <1>3, <1>5, <2>1, Concatenated, SMTT(30)
  <2>3. \A i \in 1..have' : ~(i <= have) => i - have \in 1..n
    BY <1>1, <1>2, <1>3
  <2> QED
    BY <1>5, <2>2, <2>3
<1>7. m_iv' = IF have' >= m_iv[1].len
              THEN <<[base |-> m_iv[1].base, len |-> 0], [base |-> have' - w, len |-> left']>>
              ELSE [m_iv EXCEPT ![1] = [base |-> have', len |-> m_iv[1].len - have']]
  <2>1. [m_iv[1] EXCEPT !.len = 0] = [base |-> m_iv[1].base, len |-> 0]
    BY <1>1
  <2> QED
    BY <2>1 DEF Writev, Advance
<1>8. /\ have' >= m_iv[1].len =>
           /\ m_iv'[1] = [base |-> m_iv[1].base, len |-> 0]
           /\ m_iv'[2] = [base |-> have' - w, len |-> left']
      /\ have' < m_iv[1].len =>
           /\ m_iv'[1] = [base |-> have', len |-> m_iv[1].len - have']
           /\ m_iv'[2] = m_iv[2]
  BY <1>1, <1>4, <1>7 DEF SendTypes
<1>9. m_iv' \in [1..2 -> [base : Int, len : Nat]]
  <2>1. CASE have' >= m_iv[1].len
    BY <1>1, <1>4, <1>7, <2>1
  <2>2. CASE ~(have' >= m_iv[1].len)
    <3>1. [base |-> have', len |-> m_iv[1].len - have'] \in [base : Int, len : Nat]
      BY <1>1, <1>4, <2>2
    <3> QED
      BY <1>1, <1>7, <2>2, <3>1 DEF SendTypes
  <2> QED
    BY <2>1, <2>2
<1>10. SendTypes'
  <2>1. pc' \in Phases
    BY DEF Phases
  <2>2. m_iv_count' \in 0..2
    BY <1>1, <1>3 DEF SendTypes
  <2> QED
    BY <1>1, <1>3, <1>4, <1>6, <1>9, <2>1, <2>2 DEF SendTypes
<1>11. Covered'
  <2>1. CASE have' >= m_iv[1].len
    BY <1>4, <1>8, <2>1 DEF Covered
  <2>2. CASE ~(have' >= m_iv[1].len)
    <3> DEFINE rest == IF m_iv_count = 2 THEN m_iv[2].len ELSE 0
    <3>1. /\ rest \in Nat /\ m_iv[1].len \in Nat /\ m_iv[1].len + rest <= left
          /\ n \in Nat /\ have \in Nat /\ left \in Nat
          /\ have' = have + n /\ left' = left - n
      BY <1>1, <1>2, <1>3 DEF Covered
    <3> HIDE DEF rest
    <3>2. m_iv[1].len - have' + rest <= left'
      BY <3>1
    <3>3. /\ m_iv'[1].len = m_iv[1].len - have'
          /\ m_iv'[2].len = m_iv[2].len
      BY <1>1, <1>4, <1>8, <2>2
    <3> QED
      BY <1>3, <3>2, <3>3 DEF Covered, rest
  <2> QED
    BY <2>1, <2>2
<1>12. ASSUME cuts' <= 1
       PROVE  Delivered' /\ Exactly'
  <2>1. cuts <= 1 /\ Delivered /\ Exactly
    BY <1>1, <1>3, <1>12, SMTT(30) DEF SendInv
  <2>2. /\ Len(Pending) = left
        /\ \A i \in 1..left : Pending[i] = IF have + i <= w THEN <<"buf", have + i>>
                                           ELSE <<"map", have + i - w>>
    BY <1>1, <2>1, PendingIsRest
  <2>3. Delivered'
    <3>1. have' <= w' + Second'
      BY <1>1, <1>2, <1>3, <2>1, <2>2 DEF Exactly, Second
    <3> SUFFICES ASSUME NEW i \in 1..have'
                 PROVE  out'[i] = IF i <= w THEN <<"buf", i>> ELSE <<"map", i - w>>
      BY <1>3, <3>1 DEF Delivered
    <3>2. CASE i <= have
      <4>1. i \in 1..have
        BY <1>1, <3>2
      <4>2. out[i] = IF i <= w THEN <<"buf", i>> ELSE <<"map", i - w>>
        BY <2>1, <4>1 DEF Delivered
      <4>3. out'[i] = out[i]
        BY <1>6, <3>2
      <4> QED
        BY <4>2, <4>3
    <3>3. CASE ~(i <= have)
      <4>1. i - have \in 1..left /\ have + (i - have) = i
        BY <1>1, <1>2, <1>3, <1>4, <3>3
      <4>2. out'[i] = Pending[i - have]
        BY <1>6, <3>3
      <4>3. Pending[i - have] = IF have + (i - have) <= w THEN <<"buf", have + (i - have)>>
                                ELSE <<"map", have + (i - have) - w>>
        BY <2>2, <4>1
      <4>4. w \in Int /\ have \in Int /\ i \in Int
        BY <1>1, <1>4
      <4> QED
        BY <4>1, <4>2, <4>3, <4>4
    <3> QED
      BY <3>2, <3>3
  <2>4. have' + left' = w' + Second'
    BY <1>1, <1>2, <1>3, <2>1 DEF Exactly, Second
  <2>5. CASE have < w
    <3>1. /\ m_iv[1].base = have /\ m_iv[1].len = w - have
          /\ m_iv_count = 2 => m_iv[2] = [base |-> 0, len |-> st_size]
          /\ cuts = 0 => have = 0
      BY <2>1, <2>5 DEF Exactly
    <3>2. CASE n < m_iv[1].len
      <4>1. cuts' # 0 /\ have = 0
        BY <1>1, <1>3, <1>12, <3>1, <3>2
      <4>2. have' < w /\ have' < m_iv[1].len /\ m_iv[1].len - have' = w - have'
        BY <1>1, <1>2, <1>3, <3>1, <3>2, <4>1
      <4> QED
        BY <1>3, <1>4, <1>8, <2>3, <2>4, <3>1, <4>1, <4>2, <1>1 DEF Exactly
    <3>3. CASE ~(n < m_iv[1].len)
      <4>1. /\ m_iv[1].len = w - have /\ n >= w - have /\ n \in Int
            /\ have' = have + n /\ have \in Nat /\ w \in Nat
        BY <1>1, <1>3, <3>1, <3>3
      <4>2. have' >= w /\ have' >= m_iv[1].len
        BY <4>1
      <4> QED
        BY <1>3, <1>4, <1>8, <2>3, <2>4, <4>2, <1>1 DEF Exactly
    <3> QED
      BY <3>2, <3>3
  <2>6. CASE ~(have < w)
    <3>1. m_iv[1].len = 0
      BY <1>1, <2>1, <2>6 DEF Exactly
    <3>2. have' >= w /\ have' >= m_iv[1].len
      BY <1>1, <1>2, <1>3, <2>6, <3>1
    <3> QED
      BY <1>3, <1>4, <1>8, <2>3, <2>4, <3>2, <1>1 DEF Exactly
  <2> QED
    BY <2>5, <2>6
<1>13. pc' = "sent" => left' = 0
  BY <1>4
<1> QED
  BY <1>10, <1>11, <1>12, <1>13 DEF SendInv, Phases

sendVars == <<m_write_idx, st_size, bytes_have_send, bytes_to_send, cuts, m_iv, m_iv_count, out>>

\* A step that sends nothing, and does not begin a response.
LEMMA SendQuiet ==
  ASSUME SendInv, UNCHANGED sendVars,
         \/ pc' = "closed"
         \/ pc \in {"in", "parse", "answer"} /\ pc' \in {"in", "parse", "answer"}
         \/ pc \in {"out", "write"} /\ pc' \in {"out", "write"}
         \/ UNCHANGED pc
  PROVE  SendInv'
<1>1. SendTypes'
  BY DEF SendInv, SendTypes, sendVars, Phases
<1>2. (Covered' <=> Covered) /\ (Exactly' <=> Exactly) /\ (Delivered' <=> Delivered)
  BY DEF sendVars, Covered, Exactly, Delivered, Second
<1> QED
  BY <1>1, <1>2 DEF SendInv, sendVars

\* init() makes the object ready for the next response.
LEMMA SendReset ==
  ASSUME SendInv, WriterReset, UNCHANGED st_size, pc' = "in"
  PROVE  SendInv'
<1>1. /\ m_write_idx' = 0 /\ bytes_to_send' = 0 /\ bytes_have_send' = 0
      /\ out' = <<>> /\ cuts' = 0 /\ m_iv' = m_iv /\ m_iv_count' = m_iv_count
  BY DEF WriterReset
<1>2. <<>> \in Seq(Places) /\ Len(<<>>) = 0
  OBVIOUS
<1>3. SendTypes'
  BY <1>1, <1>2 DEF SendInv, SendTypes, Phases
<1>4. Delivered'
  BY <1>1, <1>3 DEF Delivered, Second, SendTypes
<1> QED
  BY <1>1, <1>3, <1>4 DEF SendInv

\* Sums of lengths.
LEMMA SumOfLengths ==
  ASSUME NEW a \in Nat, NEW b \in Nat
  PROVE  a + b \in Nat /\ 0 <= a + b /\ a + 0 <= a
  OBVIOUS

\* Before the first byte there is nothing to compare.
LEMMA NothingDelivered ==
  ASSUME SendTypes', bytes_have_send' = 0
  PROVE  Delivered'
<1>1. m_write_idx' \in Nat /\ Second' \in Nat
  BY DEF SendTypes, Second
<1>2. bytes_have_send' <= m_write_idx' + Second'
  BY <1>1, SumOfLengths
<1>3. 1..bytes_have_send' = {}
  OBVIOUS
<1> QED
  BY <1>2, <1>3 DEF Delivered

\* process_write() prepares the response from its first byte on.
LEMMA SendAnswer ==
  ASSUME SendInv, Answer
  PROVE  SendInv'
<1> DEFINE get == code = "GET_REQUEST"
           ret == IF get THEN RequestCode(m_url) ELSE "BAD_REQUEST"
<1>1. /\ SendTypes /\ pc = "answer" /\ bytes_have_send = 0 /\ cuts = 0
      /\ bytes_have_send' = 0 /\ cuts' = 0 /\ out' = out
      /\ out \in Seq(Places) /\ Len(out) = 0
  BY DEF SendInv, SendTypes, Answer, ProcessWrite
<1>2. st_size' \in Nat
  <2>1. CASE get
    BY <1>1, <2>1, WriterAssumption DEF Answer, MapFile, SendTypes, WriterAssumption
  <2>2. CASE ~get
    BY <1>1, <2>2 DEF Answer, SendTypes
  <2> QED
    BY <2>1, <2>2
<1>3. CASE Builds(ret, st_size')
  <2>1. ProcessWrite(ret, st_size') /\ pc' = "out"
    BY <1>3 DEF Answer
  <2>2. HeaderLen \in Nat /\ FormLen \in Nat /\ HeaderLen > 0
    BY WriterAssumption DEF WriterAssumption
  <2>3. m_write_idx' \in Nat /\ m_write_idx' > 0
    BY <2>1, <2>2 DEF ProcessWrite
  <2>6. pc' \in Phases /\ out' \in Seq(Places) /\ Len(out') = bytes_have_send'
    BY <1>1, <2>1 DEF Phases
  <2>4. CASE ret = "FILE_REQUEST"
    <3>1. /\ m_iv' = <<[base |-> 0, len |-> m_write_idx'], [base |-> 0, len |-> st_size']>>
          /\ m_iv_count' = 2
          /\ bytes_to_send' = m_write_idx' + st_size'
      BY <2>1, <2>4 DEF ProcessWrite
    <3>2. /\ m_iv' \in [1..2 -> [base : Int, len : Nat]]
          /\ m_iv'[1] = [base |-> 0, len |-> m_write_idx']
          /\ m_iv'[2] = [base |-> 0, len |-> st_size']
      BY <1>2, <2>3, <3>1
    <3>3. bytes_to_send' \in Nat /\ m_iv_count' \in 0..2
      <4>1. bytes_to_send' \in Nat
        BY <1>2, <2>3, <3>1, SumOfLengths
      <4>2. 2 \in 0..2
        OBVIOUS
      <4> QED
        BY <3>1, <4>1, <4>2
    <3>4. SendTypes'
      BY <1>1, <1>2, <2>3, <2>6, <3>2, <3>3 DEF SendTypes
    <3>5. Covered'
      BY <1>2, <2>3, <3>1, <3>2 DEF Covered
    <3>6. Exactly'
      BY <1>1, <1>2, <2>3, <3>1, <3>2 DEF Exactly, Second
    <3>7. Delivered'
      BY <1>1, <3>4, NothingDelivered
    <3> QED
      BY <1>1, <2>1, <3>4, <3>5, <3>6, <3>7 DEF SendInv
  <2>5. CASE ret # "FILE_REQUEST"
    <3>1. /\ m_iv' = [m_iv EXCEPT ![1] = [base |-> 0, len |-> m_write_idx']]
          /\ m_iv_count' = 1
          /\ bytes_to_send' = m_write_idx'
      BY <2>1, <2>5 DEF ProcessWrite
    <3>2. /\ m_iv' \in [1..2 -> [base : Int, len : Nat]]
          /\ m_iv'[1] = [base |-> 0, len |-> m_write_idx']
      BY <1>1, <2>3, <3>1 DEF SendTypes
    <3>3. bytes_to_send' \in Nat /\ m_iv_count' \in 0..2
      BY <1>2, <2>3, <3>1
    <3>4. SendTypes'
      BY <1>1, <1>2, <2>3, <2>6, <3>2, <3>3 DEF SendTypes
    <3>5. Covered'
      <4>1. m_iv'[1].len = m_write_idx'
        BY <3>2
      <4>2. m_iv'[1].len + 0 <= bytes_to_send'
        BY <2>3, <3>1, <4>1, SumOfLengths
      <4>3. m_iv_count' # 2
        BY <3>1
      <4> QED
        BY <4>2, <4>3 DEF Covered
    <3>6. Exactly'
      BY <1>1, <1>2, <2>3, <3>1, <3>2 DEF Exactly, Second
    <3>7. Delivered'
      BY <1>1, <3>4, NothingDelivered
    <3> QED
      BY <1>1, <2>1, <3>4, <3>5, <3>6, <3>7 DEF SendInv
  <2> QED
    BY <2>4, <2>5
<1>4. CASE ~Builds(ret, st_size')
  <2>1. /\ pc' = "closed"
        /\ UNCHANGED <<m_write_idx, bytes_to_send, bytes_have_send, m_iv, m_iv_count, out, cuts>>
    BY <1>4 DEF Answer
  <2>2. SendTypes'
    BY <1>1, <1>2, <2>1 DEF SendTypes, Phases
  <2>3. Delivered'
    BY <1>1, <2>2, NothingDelivered
  <2> QED
    BY <2>1, <2>2, <2>3 DEF SendInv
<1> QED
  BY <1>3, <1>4

LEMMA SendInductive == SendInv /\ [Next]_vars => SendInv'
<1> SUFFICES ASSUME SendInv, [Next]_vars PROVE SendInv'
  OBVIOUS
<1>1. ASSUME NEW n \in 1..Len(stream), Read(n) \/ BufferFull(n)
      PROVE  SendInv'
  BY <1>1, SendQuiet DEF Read, BufferFull, writerVars, sendVars
<1>2. CASE ReadError
  BY <1>2, SendQuiet DEF ReadError, writerVars, sendVars
<1>3. CASE ProcessRead
  BY <1>3, SendQuiet DEF ProcessRead, writerVars, sendVars
<1>4. CASE Answer
  BY <1>4, SendAnswer
<1>5. CASE Writable
  BY <1>5, SendQuiet DEF Writable, writerVars, sendVars
<1>6. ASSUME NEW n \in 1..(HeaderLen + FormLen + st_size), Write(n)
      PROVE  SendInv'
  BY <1>6, SendWritev DEF Write
<1>7. CASE WriteError
  BY <1>7, SendQuiet DEF WriteError, Unmap, sendVars
<1>8. CASE Finish
  <2>1. CASE m_linger
    BY <1>8, <2>1, SendReset DEF Finish, Unmap
  <2>2. CASE ~m_linger
    BY <1>8, <2>2, SendQuiet DEF Finish, Unmap, sendVars
  <2> QED
    BY <2>1, <2>2
<1>9. CASE Abort
  BY <1>9, SendQuiet DEF Abort, writerVars, sendVars
<1>10. CASE Accept
  BY <1>10, SendReset DEF Accept
<1>11. CASE UNCHANGED vars
  BY <1>11, SendQuiet DEF vars, writerVars, exchangeVars, sendVars
<1> QED
  BY <1>1, <1>2, <1>3, <1>4, <1>5, <1>6, <1>7, <1>8, <1>9, <1>10, <1>11 DEF Next, Sending

LEMMA SendInitially == Init => SendInv
<1> SUFFICES ASSUME Init PROVE SendInv
  OBVIOUS
<1>1. <<>> \in Seq(Places) /\ Len(<<>>) = 0
  OBVIOUS
<1>2. SendTypes
  BY <1>1 DEF Init, WriterInit, SendTypes, NoIov, Phases
<1>3. Delivered
  BY <1>2 DEF Init, WriterInit, Delivered, Second, SendTypes
<1> QED
  BY <1>2, <1>3 DEF Init, WriterInit, SendInv

\* The response, byte by byte.
LEMMA ResponseBytes ==
  ASSUME SendTypes
  PROVE  /\ Response \in Seq(Places)
         /\ Len(Response) = m_write_idx + Second
         /\ \A i \in 1..(m_write_idx + Second) :
              Response[i] = IF i <= m_write_idx THEN <<"buf", i>>
                            ELSE <<"map", i - m_write_idx>>
<1> DEFINE header == [i \in 1..m_write_idx |-> <<"buf", i>>]
           file == [i \in 1..st_size |-> <<"map", i>>]
           rest == IF m_iv_count = 2 THEN file ELSE <<>>
<1>1. m_write_idx \in Nat /\ st_size \in Nat /\ Second \in Nat
  BY DEF SendTypes, Second
<1>2. header \in [1..m_write_idx -> Places] /\ file \in [1..st_size -> Places]
  BY DEF Places
<1>3. header \in Seq(Places) /\ Len(header) = m_write_idx
  BY <1>1, <1>2, IsSequence
<1>4. file \in Seq(Places) /\ Len(file) = st_size
  BY <1>1, <1>2, IsSequence
<1>5. rest \in Seq(Places) /\ Len(rest) = Second
  <2> HIDE DEF file
  <2>1. <<>> \in Seq(Places) /\ Len(<<>>) = 0
    OBVIOUS
  <2> QED
    BY <1>4, <2>1 DEF Second
<1>6. /\ \A i \in 1..m_write_idx : header[i] = <<"buf", i>>
      /\ \A i \in 1..Second : rest[i] = <<"map", i>>
  BY DEF Second
<1> HIDE DEF header, file, rest
<1>7. /\ header \o rest \in Seq(Places) /\ Len(header \o rest) = m_write_idx + Second
      /\ \A i \in 1..(m_write_idx + Second) :
           (header \o rest)[i] = IF i <= m_write_idx THEN header[i] ELSE rest[i - m_write_idx]
  BY <1>3, <1>5, Concatenated
<1>8. ASSUME NEW i \in 1..(m_write_idx + Second)
      PROVE  (header \o rest)[i] = IF i <= m_write_idx THEN <<"buf", i>>
                                   ELSE <<"map", i - m_write_idx>>
  <2>1. i <= m_write_idx => i \in 1..m_write_idx
    BY <1>1
  <2>2. ~(i <= m_write_idx) => i - m_write_idx \in 1..Second
    BY <1>1
  <2> QED
    BY <1>6, <1>7, <2>1, <2>2
<1>9. Response = header \o rest
  BY DEF Response, header, rest, file
<1> QED
  BY <1>7, <1>8, <1>9

LEMMA SendHolds == SendInv => SentExact
<1> SUFFICES ASSUME SendInv, cuts <= 1
             PROVE  /\ out = SubSeq(Response, 1, Len(out))
                    /\ pc = "sent" => out = Response
  BY DEF SentExact
<1>1. /\ SendTypes /\ Delivered
      /\ m_write_idx \in Nat /\ bytes_have_send \in Nat /\ Second \in Nat
      /\ out \in Seq(Places) /\ Len(out) = bytes_have_send
  BY DEF SendInv, SendTypes, Second
<1>2. /\ Response \in Seq(Places) /\ Len(Response) = m_write_idx + Second
      /\ \A i \in 1..(m_write_idx + Second) :
           Response[i] = IF i <= m_write_idx THEN <<"buf", i>> ELSE <<"map", i - m_write_idx>>
  BY <1>1, ResponseBytes
<1>3. bytes_have_send <= Len(Response)
  BY <1>1, <1>2 DEF Delivered
<1>4. \A i \in 1..bytes_have_send : out[i] = Response[i]
  <2> TAKE i \in 1..bytes_have_send
  <2>1. i \in 1..(m_write_idx + Second)
    BY <1>1, <1>2, <1>3
  <2> QED
    BY <1>1, <1>2, <2>1 DEF Delivered
<1> DEFINE R == Response
<1>5. R \in Seq(Places) /\ bytes_have_send <= Len(R) /\ \A i \in 1..bytes_have_send : out[i] = R[i]
  BY <1>2, <1>3, <1>4
<1>6. pc = "sent" => bytes_have_send = Len(R)
  BY <1>1, <1>2 DEF SendInv, Exactly
<1> HIDE DEF R
<1>7. out = SubSeq(R, 1, Len(out))
  <2>1. /\ SubSeq(R, 1, bytes_have_send) \in Seq(Places)
        /\ Len(SubSeq(R, 1, bytes_have_send)) = bytes_have_send
        /\ \A i \in 1..bytes_have_send : SubSeq(R, 1, bytes_have_send)[i] = R[i]
    BY <1>1, <1>5
  <2> DEFINE T == SubSeq(R, 1, bytes_have_send)
  <2>2. T \in Seq(Places) /\ Len(T) = Len(out) /\ \A i \in 1..Len(out) : out[i] = T[i]
    BY <1>1, <1>5, <2>1
  <2> HIDE DEF T
  <2>3. out = T
    BY <1>1, <2>2
  <2> QED
    BY <1>1, <2>3 DEF T
<1>8. pc = "sent" => out = R
  BY <1>1, <1>5, <1>6
<1> QED
  BY <1>7, <1>8 DEF R

\* For every length of header, page and file, wherever the socket fills up and
\* whatever the object sent before: the client gets the bytes of the response
\* in order and once, as long as no header is cut twice.
THEOREM SentAlwaysExact == Spec => []SentExact
  BY SendInitially, SendInductive, SendHolds, PTL DEF Spec

-----------------------------------------------------------------------------
(* The lines of a request.  What holds of the first line, and of a line if  *)
(* it holds of the one before, holds of every line: the least line it does  *)
(* not hold of does not exist.                                              *)

\* The end of a line, and a set of bytes that CR and LF are in.
CrLf == <<"CR", "LF">>
Byte == STRING \cup Ends

\* A set of natural numbers that is not empty has a least element.
LEMMA LeastOf ==
  ASSUME NEW S \in SUBSET Nat, S # {}
  PROVE  \E x \in S : \A y \in S : x =< y
<1>1. \E x \in S : \A y \in S : ~(<<y, x>> \in OpToRel(<, Nat))
  BY NatLessThanWellFounded, WFMin, Zenon
<1>2. PICK x \in S : \A y \in S : ~(y < x)
  BY <1>1 DEF OpToRel
<1> QED
  BY <1>2

\* Concatenated, with the two parts apart.
LEMMA Behind ==
  ASSUME NEW S, NEW s \in Seq(S), NEW t \in Seq(S)
  PROVE  /\ s \o t \in Seq(S) /\ Len(s) \in Nat /\ Len(t) \in Nat
         /\ Len(s \o t) = Len(s) + Len(t)
         /\ \A k \in 1..Len(s) : (s \o t)[k] = s[k]
         /\ \A k \in 1..Len(t) : (s \o t)[Len(s) + k] = t[k]
<1>1. Len(s) \in Nat /\ Len(t) \in Nat
  OBVIOUS
<1> PICK v : v = s \o t
  OBVIOUS
<1>2. /\ v \in Seq(S) /\ Len(v) = Len(s) + Len(t)
      /\ \A i \in 1..(Len(s) + Len(t)) : v[i] = IF i <= Len(s) THEN s[i] ELSE t[i - Len(s)]
  BY Concatenated, Zenon
<1>3. ASSUME NEW k \in 1..Len(s) PROVE v[k] = s[k]
  <2>1. k \in 1..(Len(s) + Len(t)) /\ k <= Len(s)
    BY <1>1
  <2> QED
    BY <1>2, <2>1
<1>4. ASSUME NEW k \in 1..Len(t) PROVE v[Len(s) + k] = t[k]
  <2>1. /\ Len(s) + k \in 1..(Len(s) + Len(t)) /\ ~(Len(s) + k <= Len(s))
        /\ Len(s) + k - Len(s) = k
    BY <1>1
  <2> QED
    BY <1>2, <2>1
<1> QED
  BY <1>1, <1>2, <1>3, <1>4, Zenon

\* The end of a line.
LEMMA EndOfLine == CrLf \in Seq(Byte) /\ Len(CrLf) = 2 /\ CrLf[1] = "CR" /\ CrLf[2] = "LF"
  BY DEF CrLf, Byte, Ends

\* The end of a line behind other bytes.
LEMMA EndBehind ==
  ASSUME NEW u \in Seq(Byte)
  PROVE  LET v == u \o CrLf
         IN  /\ v \in Seq(Byte) /\ Len(u) \in Nat /\ Len(v) = Len(u) + 2
             /\ \A k \in 1..Len(u) : v[k] = u[k]
             /\ v[Len(u) + 1] = "CR" /\ v[Len(u) + 2] = "LF"
<1>0. CrLf \in Seq(Byte)
  BY EndOfLine
<1> PICK v : v = u \o CrLf
  OBVIOUS
<1>1. /\ v \in Seq(Byte) /\ Len(u) \in Nat /\ Len(v) = Len(u) + Len(CrLf)
      /\ \A k \in 1..Len(u) : v[k] = u[k]
      /\ \A k \in 1..Len(CrLf) : v[Len(u) + k] = CrLf[k]
  BY <1>0, Behind
<1>2. 1 \in 1..2 /\ 2 \in 1..2
  OBVIOUS
<1>3. Len(v) = Len(u) + 2 /\ v[Len(u) + 1] = "CR" /\ v[Len(u) + 2] = "LF"
  BY <1>1, <1>2, EndOfLine
<1> QED
  BY <1>1, <1>3, Zenon

\* A line and its end behind other bytes.
LEMMA LineBehind ==
  ASSUME NEW s \in Seq(Byte), NEW t \in Seq(Byte)
  PROVE  LET v == s \o t \o CrLf
         IN  /\ v \in Seq(Byte) /\ Len(s) \in Nat /\ Len(t) \in Nat
             /\ Len(v) = Len(s) + Len(t) + 2
             /\ \A k \in 1..Len(s) : v[k] = s[k]
             /\ \A k \in 1..Len(t) : v[Len(s) + k] = t[k]
             /\ v[Len(s) + Len(t) + 1] = "CR" /\ v[Len(s) + Len(t) + 2] = "LF"
<1> PICK u : u = s \o t
  OBVIOUS
<1>1. /\ u \in Seq(Byte) /\ Len(s) \in Nat /\ Len(t) \in Nat /\ Len(u) = Len(s) + Len(t)
      /\ \A k \in 1..Len(s) : u[k] = s[k]
      /\ \A k \in 1..Len(t) : u[Len(s) + k] = t[k]
  BY Behind
<1> PICK v : v = u \o CrLf
  OBVIOUS
<1>2. /\ v \in Seq(Byte) /\ Len(v) = Len(u) + 2
      /\ \A k \in 1..Len(u) : v[k] = u[k]
      /\ v[Len(u) + 1] = "CR" /\ v[Len(u) + 2] = "LF"
  BY <1>1, EndBehind, Zenon
<1>3. /\ Len(v) = Len(s) + Len(t) + 2
      /\ v[Len(s) + Len(t) + 1] = "CR" /\ v[Len(s) + Len(t) + 2] = "LF"
  BY <1>1, <1>2
<1>4. ASSUME NEW k \in 1..Len(s) PROVE v[k] = s[k]
  <2>1. k \in 1..Len(u)
    BY <1>1
  <2> QED
    BY <1>1, <1>2, <2>1
<1>5. ASSUME NEW k \in 1..Len(t) PROVE v[Len(s) + k] = t[k]
  <2>1. Len(s) + k \in 1..Len(u)
    BY <1>1
  <2> QED
    BY <1>1, <1>2, <2>1
<1> QED
  BY <1>1, <1>2, <1>3, <1>4, <1>5, Zenon

\* The recursion of LinesUpTo as far as the m-th line.
Unfolds(T, f, m) ==
  /\ f \in [0..m -> Seq(Byte)]
  /\ f[0] = <<>>
  /\ \A i \in 1..m : f[i] = f[i - 1] \o T[i] \o CrLf

\* ... there is such a function ...
LEMMA Unfolding ==
  ASSUME NEW T, NEW n \in Nat, \A i \in 1..n : T[i] \in Seq(Byte)
  PROVE  \E f : Unfolds(T, f, n)
<1> DEFINE Bad == {m \in 0..n : ~\E f : Unfolds(T, f, m)}
<1>1. 0 \notin Bad
  <2> DEFINE f == [i \in 0..0 |-> <<>>]
  <2>1. <<>> \in Seq(Byte) /\ 0 \in 0..0
    OBVIOUS
  <2>2. f \in [0..0 -> Seq(Byte)] /\ f[0] = <<>>
    BY <2>1
  <2>3. \A i \in 1..0 : FALSE
    OBVIOUS
  <2> HIDE DEF f
  <2> QED
    BY <2>2, <2>3 DEF Unfolds
<1>2. ASSUME NEW m \in 1..n, m - 1 \notin Bad PROVE m \notin Bad
  <2>1. /\ m - 1 \in 0..n /\ m \in 0..m /\ m - 1 \in 0..(m - 1)
        /\ T[m] \in Seq(Byte) /\ 0 \in 0..m /\ 0 # m
    OBVIOUS
  <2>2. PICK f : Unfolds(T, f, m - 1)
    BY <1>2, <2>1
  <2>3. /\ f \in [0..(m - 1) -> Seq(Byte)]
        /\ f[0] = <<>>
        /\ \A i \in 1..(m - 1) : f[i] = f[i - 1] \o T[i] \o CrLf
    BY <2>2 DEF Unfolds
  <2> DEFINE last == f[m - 1] \o T[m] \o CrLf
             g == [i \in 0..m |-> IF i = m THEN last ELSE f[i]]
  <2>4. last \in Seq(Byte)
    <3>1. f[m - 1] \in Seq(Byte)
      BY <2>1, <2>3
    <3> QED
      BY <2>1, <3>1, LineBehind
  <2> HIDE DEF last
  <2>5. g \in [0..m -> Seq(Byte)]
    <3> SUFFICES ASSUME NEW i \in 0..m, i # m PROVE f[i] \in Seq(Byte)
      BY <2>4
    <3>1. i \in 0..(m - 1)
      OBVIOUS
    <3> QED
      BY <2>3, <3>1
  <2>6. g[m] = last /\ \A i \in 0..(m - 1) : g[i] = f[i]
    OBVIOUS
  <2> HIDE DEF g
  <2>7. ASSUME NEW i \in 1..m PROVE g[i] = g[i - 1] \o T[i] \o CrLf
    <3>1. i - 1 \in 0..(m - 1)
      OBVIOUS
    <3>2. CASE i = m
      BY <2>6, <3>1, <3>2 DEF last
    <3>3. CASE i # m
      <4>1. i \in 1..(m - 1) /\ i \in 0..(m - 1)
        BY <3>3
      <4> QED
        BY <2>3, <2>6, <3>1, <4>1
    <3> QED
      BY <3>2, <3>3
  <2>8. g[0] = <<>>
    <3>1. 0 \in 0..(m - 1)
      OBVIOUS
    <3> QED
      BY <2>3, <2>6, <3>1
  <2>9. Unfolds(T, g, m)
    BY <2>5, <2>7, <2>8 DEF Unfolds
  <2> QED
    BY <2>9
<1>3. Bad = {}
  <2> SUFFICES ASSUME Bad # {} PROVE FALSE
    OBVIOUS
  <2>0. Bad \in SUBSET Nat
    OBVIOUS
  <2>1. PICK m \in Bad : \A j \in Bad : m =< j
    BY <2>0, LeastOf
  <2> HIDE DEF Bad
  <2>2. m \in 1..n /\ m - 1 \notin Bad
    <3>1. m \in 0..n
      BY DEF Bad
    <3>2. m # 0
      BY <1>1
    <3> QED
      BY <2>1, <3>1, <3>2
  <2> QED
    BY <1>2, <2>2
<1> QED
  BY <1>3

\* ... and LinesUpTo is one.
LEMMA LinesUnfold ==
  ASSUME NEW T \in Seq(Seq(Byte))
  PROVE  Unfolds(T, LinesUpTo(T), Len(T))
<1> DEFINE n == Len(T)
           Is(f) == f = [i \in 0..n |-> IF i = 0 THEN <<>> ELSE f[i - 1] \o T[i] \o <<"CR", "LF">>]
<1>1. n \in Nat /\ \A i \in 1..n : T[i] \in Seq(Byte)
  OBVIOUS
<1>2. PICK f : Unfolds(T, f, n)
  BY <1>1, Unfolding
<1>3. Is(f)
  <2>1. /\ f \in [0..n -> Seq(Byte)] /\ f[0] = <<>>
        /\ \A i \in 1..n : f[i] = f[i - 1] \o T[i] \o CrLf
    BY <1>2 DEF Unfolds
  <2> HIDE DEF n
  <2>2. ASSUME NEW i \in 0..n
        PROVE  f[i] = IF i = 0 THEN <<>> ELSE f[i - 1] \o T[i] \o <<"CR", "LF">>
    <3>1. i # 0 => i \in 1..n
      BY <1>1
    <3> QED
      BY <2>1, <3>1 DEF CrLf
  <2> QED
    BY <2>1, <2>2
<1>4. Is(LinesUpTo(T))
  BY <1>3 DEF LinesUpTo
<1> DEFINE F == LinesUpTo(T)
<1>5. /\ F = [i \in 0..n |-> F[i]]
      /\ F[0] = <<>>
      /\ \A i \in 1..n : F[i] = F[i - 1] \o T[i] \o CrLf
  <2> HIDE DEF F
  <2>1. 0 \in 0..n /\ \A i \in 1..n : i \in 0..n /\ i # 0
    BY <1>1
  <2>2. F = [i \in 0..n |-> IF i = 0 THEN <<>> ELSE F[i - 1] \o T[i] \o <<"CR", "LF">>]
    BY <1>4 DEF F
  <2> HIDE DEF n
  <2>3. DOMAIN F = 0..n
    BY <2>2
  <2>4. F = [i \in 0..n |-> F[i]]
    BY <2>2, <2>3
  <2>5. ASSUME NEW i \in 1..n PROVE F[i] = F[i - 1] \o T[i] \o CrLf
    BY <2>1, <2>2 DEF CrLf
  <2>6. F[0] = <<>>
    BY <2>1, <2>2
  <2> QED
    BY <2>4, <2>5, <2>6
<1> HIDE DEF F
<1>6. \A i \in 0..n : F[i] \in Seq(Byte)
  <2> DEFINE Bad == {i \in 0..n : F[i] \notin Seq(Byte)}
  <2> SUFFICES ASSUME Bad # {} PROVE FALSE
    OBVIOUS
  <2>1. Bad \in SUBSET Nat
    BY <1>1
  <2>2. PICK i \in Bad : \A j \in Bad : i =< j
    BY <2>1, LeastOf
  <2>3. i # 0
    <3>1. <<>> \in Seq(Byte)
      OBVIOUS
    <3> QED
      BY <1>5, <3>1
  <2>4. i \in 1..n /\ i - 1 \in 0..n /\ ~(i =< i - 1)
    BY <1>1, <2>3
  <2>5. F[i - 1] \in Seq(Byte) /\ T[i] \in Seq(Byte)
    BY <1>1, <2>2, <2>4
  <2>6. F[i] \in Seq(Byte)
    <3>1. F[i - 1] \o T[i] \o CrLf \in Seq(Byte)
      BY <2>5, LineBehind
    <3> QED
      BY <1>5, <2>4, <3>1
  <2> QED
    BY <2>6
<1> QED
  BY <1>5, <1>6 DEF Unfolds, F
\* The first lines stay where they are when others follow.
LEMMA LinesStay ==
  ASSUME NEW T, NEW F, NEW n \in Nat, Unfolds(T, F, n), \A i \in 1..n : T[i] \in Seq(Byte)
  PROVE  \A m \in 0..n : \A i \in 0..m :
           Len(F[i]) <= Len(F[m]) /\ \A k \in 1..Len(F[i]) : F[m][k] = F[i][k]
<1> DEFINE Stay(m) == \A i \in 0..m :
             Len(F[i]) <= Len(F[m]) /\ \A k \in 1..Len(F[i]) : F[m][k] = F[i][k]
           Bad == {m \in 0..n : ~Stay(m)}
<1>1. /\ F \in [0..n -> Seq(Byte)]
      /\ \A i \in 1..n : F[i] = F[i - 1] \o T[i] \o CrLf
  BY DEF Unfolds
<1>2. \A i \in 0..n : F[i] \in Seq(Byte) /\ Len(F[i]) \in Nat
  BY <1>1
<1>3. Stay(0)
  BY <1>2
<1>4. ASSUME NEW m \in 1..n, Stay(m - 1) PROVE Stay(m)
  <2>1. m - 1 \in 0..n /\ m \in 0..n /\ T[m] \in Seq(Byte)
    OBVIOUS
  <2>2. /\ Len(F[m]) = Len(F[m - 1]) + Len(T[m]) + 2 /\ Len(T[m]) \in Nat
        /\ \A k \in 1..Len(F[m - 1]) : F[m][k] = F[m - 1][k]
    <3>1. F[m - 1] \in Seq(Byte) /\ F[m] = F[m - 1] \o T[m] \o CrLf
      BY <1>1, <1>2, <2>1
    <3>2. PICK s \in Seq(Byte) : s = F[m - 1]
      BY <3>1
    <3>3. PICK t \in Seq(Byte) : t = T[m]
      BY <2>1
    <3>4. PICK v : v = s \o t \o CrLf
      OBVIOUS
    <3>5. /\ Len(v) = Len(s) + Len(t) + 2 /\ Len(t) \in Nat
          /\ \A k \in 1..Len(s) : v[k] = s[k]
      BY <3>4, LineBehind
    <3> QED
      BY <3>1, <3>2, <3>3, <3>4, <3>5, Zenon
  <2>3. ASSUME NEW i \in 0..m
        PROVE  Len(F[i]) <= Len(F[m]) /\ \A k \in 1..Len(F[i]) : F[m][k] = F[i][k]
    <3>1. CASE i = m
      BY <1>2, <2>1, <3>1
    <3>2. CASE i # m
      <4>1. i \in 0..(m - 1) /\ i \in 0..n
        BY <3>2
      <4>2. Len(F[i]) <= Len(F[m - 1]) /\ \A k \in 1..Len(F[i]) : F[m - 1][k] = F[i][k]
        BY <1>4, <4>1
      <4> HIDE DEF Stay
      <4>3. Len(F[i]) \in Nat /\ Len(F[m - 1]) \in Nat /\ Len(F[i]) <= Len(F[m])
        <5>1. Len(F[i]) \in Nat /\ Len(F[m - 1]) \in Nat
          BY <1>2, <2>1, <4>1
        <5>2. Len(F[i]) <= Len(F[m - 1]) /\ Len(F[m]) = Len(F[m - 1]) + Len(T[m]) + 2
              /\ Len(T[m]) \in Nat
          BY <2>2, <4>2
        <5>3. \A a, b, c, t \in Nat : a <= b /\ c = b + t + 2 => a <= c
          OBVIOUS
        <5>4. Len(F[m]) \in Nat
          BY <1>2, <2>1
        <5> QED
          BY <5>1, <5>2, <5>3, <5>4, Zenon
      <4>4. ASSUME NEW k \in 1..Len(F[i]) PROVE F[m][k] = F[i][k]
        <5>1. k \in 1..Len(F[m - 1])
          BY <4>2, <4>3
        <5> QED
          BY <2>2, <4>2, <5>1
      <4> QED
        BY <4>3, <4>4
    <3> QED
      BY <3>1, <3>2
  <2> QED
    BY <2>3
<1> HIDE DEF Stay
<1>5. Bad = {}
  <2> SUFFICES ASSUME Bad # {} PROVE FALSE
    OBVIOUS
  <2>0. Bad \in SUBSET Nat
    OBVIOUS
  <2>1. PICK m \in Bad : \A j \in Bad : m =< j
    BY <2>0, LeastOf
  <2>2. m \in 1..n /\ m - 1 \in 0..n /\ ~(m =< m - 1)
    BY <1>3
  <2>3. Stay(m - 1)
    BY <2>1, <2>2
  <2> QED
    BY <1>4, <2>2, <2>3
<1> QED
  BY <1>5 DEF Stay

\* The lines of a request: the request line, the headers and an empty line.
LEMMA TextsOfRequest ==
  ASSUME NEW r, IsRequest(r)
  PROVE  LET n == Len(r.headers)
         IN  /\ n \in Nat
             /\ Texts(r) \in Seq(Seq(Byte)) /\ Len(Texts(r)) = n + 2
             /\ Texts(r)[1] = <<r.line>> /\ Texts(r)[n + 2] = <<>>
             /\ \A i \in 1..n : Texts(r)[i + 1] = r.headers[i]
<1> PICK n : n = Len(r.headers)
  OBVIOUS
<1> DEFINE B == Seq(Byte)
<1>1. r.headers \in Seq(B)
  BY DEF IsRequest, Byte
<1>2. <<<<r.line>>>> \in Seq(B) /\ <<<<>>>> \in Seq(B)
  BY DEF IsRequest, Byte
<1> PICK a : a = <<<<r.line>>>>
  OBVIOUS
<1> PICK h : h = r.headers
  OBVIOUS
<1> PICK z : z = <<<<>>>>
  OBVIOUS
<1> HIDE DEF B
<1>3. a \in Seq(B) /\ Len(a) = 1 /\ a[1] = <<r.line>> /\ z \in Seq(B) /\ Len(z) = 1 /\ z[1] = <<>>
  BY <1>2
<1>4. h \in Seq(B) /\ Len(h) = n
  BY <1>1
<1> PICK u : u = a \o h
  OBVIOUS
<1>5. /\ u \in Seq(B) /\ Len(h) \in Nat /\ Len(u) = Len(a) + Len(h)
      /\ \A k \in 1..Len(a) : u[k] = a[k]
      /\ \A k \in 1..Len(h) : u[Len(a) + k] = h[k]
  <2>1. a \in Seq(B) /\ h \in Seq(B)
    BY <1>3, <1>4
  <2> QED
    BY <2>1, Behind
<1> PICK v : v = u \o z
  OBVIOUS
<1>6. /\ v \in Seq(B) /\ Len(v) = Len(u) + Len(z)
      /\ \A k \in 1..Len(u) : v[k] = u[k]
      /\ \A k \in 1..Len(z) : v[Len(u) + k] = z[k]
  <2>1. z \in Seq(B) /\ u \in Seq(B)
    BY <1>3, <1>5
  <2> QED
    BY <2>1, Behind
<1>7. Texts(r) = v
  BY DEF Texts
<1>8. /\ n \in Nat /\ Len(v) = n + 2 /\ v[1] = <<r.line>> /\ v[n + 2] = <<>>
      /\ \A i \in 1..n : v[i + 1] = h[i]
  <2>1. 1 \in 1..1
    OBVIOUS
  <2>2. n \in Nat /\ Len(u) = n + 1 /\ Len(v) = n + 2
    BY <1>3, <1>4, <1>5, <1>6
  <2>3. 1 \in 1..Len(u) /\ n + 1 + 1 = n + 2
    BY <2>2
  <2>4. v[1] = <<r.line>>
    BY <1>3, <1>5, <1>6, <2>1, <2>3
  <2>5. v[n + 2] = <<>>
    BY <1>3, <1>6, <2>1, <2>2, <2>3
  <2>6. ASSUME NEW i \in 1..n PROVE v[i + 1] = h[i]
    <3>1. i + 1 \in 1..Len(u) /\ i \in 1..Len(h) /\ i + 1 = 1 + i
      BY <1>4, <2>2
    <3> QED
      BY <1>3, <1>5, <1>6, <3>1
  <2> QED
    BY <2>2, <2>4, <2>5, <2>6
<1> QED
  BY <1>6, <1>7, <1>8, Zenon DEF B

\* Where the i-th line of a request begins: the bytes before it.
Start(r, i) == Len(LinesUpTo(Texts(r))[i - 1])

\* The text t is at s in R, with its end behind it and the next line after that.
LaidAt(R, s, t, next) ==
  /\ s \in Nat /\ t \in Seq(Byte) /\ Len(t) \in Nat /\ next = s + Len(t) + 2
  /\ \A k \in 1..Len(t) : R[s + k] = t[k]
  /\ R[s + Len(t) + 1] = "CR" /\ R[s + Len(t) + 2] = "LF"

\* A line that is put behind other bytes is there.
LEMMA LineLaid ==
  ASSUME NEW s \in Seq(Byte), NEW t \in Seq(Byte)
  PROVE  LET v == s \o t \o CrLf
         IN  LaidAt(v, Len(s), t, Len(v)) /\ Len(v) \in Nat
<1> DEFINE v == s \o t \o CrLf
<1>1. /\ v \in Seq(Byte) /\ Len(s) \in Nat /\ Len(t) \in Nat
      /\ Len(v) = Len(s) + Len(t) + 2
      /\ \A k \in 1..Len(s) : v[k] = s[k]
      /\ \A k \in 1..Len(t) : v[Len(s) + k] = t[k]
      /\ v[Len(s) + Len(t) + 1] = "CR" /\ v[Len(s) + Len(t) + 2] = "LF"
  BY LineBehind, Zenon
<1> HIDE DEF v
<1>2. LaidAt(v, Len(s), t, Len(v))
  BY <1>1, Zenon DEF LaidAt
<1>3. Len(v) \in Nat
  BY <1>1
<1> QED
  BY <1>2, <1>3, Zenon DEF v

\* It stays there when more follows.
LEMMA LaidStays ==
  ASSUME NEW H, NEW n \in Nat, NEW R, \A k \in 1..n : R[k] = H[k],
         NEW s, NEW t, NEW next, LaidAt(H, s, t, next), next <= n
  PROVE  LaidAt(R, s, t, next)
<1> PICK l : l = Len(t)
  OBVIOUS
<1>1. /\ s \in Nat /\ l \in Nat /\ next = s + l + 2
      /\ \A k \in 1..l : H[s + k] = t[k]
      /\ H[s + l + 1] = "CR" /\ H[s + l + 2] = "LF"
  BY DEF LaidAt
<1>2. ASSUME NEW k \in 1..l PROVE R[s + k] = t[k]
  <2>1. s + k \in 1..n
    BY <1>1
  <2> QED
    BY <1>1, <2>1
<1>3. s + l + 1 \in 1..n /\ s + l + 2 \in 1..n
  BY <1>1
<1> QED
  BY <1>1, <1>2, <1>3 DEF LaidAt

\* The lines one behind the other ...
LEMMA HeadLaid ==
  ASSUME NEW T \in Seq(Seq(Byte)), NEW n \in Nat, n = Len(T), NEW F, F = LinesUpTo(T)
  PROVE  /\ F[n] \in Seq(Byte) /\ Len(F[n]) \in Nat /\ Len(F[0]) = 0
         /\ \A i \in 1..n : LaidAt(F[n], Len(F[i - 1]), T[i], Len(F[i])) /\ Len(F[i]) <= Len(F[n])
<1>0. \A i \in 1..n : T[i] \in Seq(Byte)
  OBVIOUS
<1>1. Unfolds(T, F, n)
  BY LinesUnfold
<1>2. /\ \A i \in 0..n : F[i] \in Seq(Byte)
      /\ F[0] = <<>>
      /\ \A i \in 1..n : F[i] = F[i - 1] \o T[i] \o CrLf
  BY <1>1 DEF Unfolds
<1>3. \A i \in 0..n : Len(F[i]) <= Len(F[n]) /\ \A k \in 1..Len(F[i]) : F[n][k] = F[i][k]
  <2>1. n \in 0..n
    OBVIOUS
  <2>2. \A m \in 0..n : \A i \in 0..m :
          Len(F[i]) <= Len(F[m]) /\ \A k \in 1..Len(F[i]) : F[m][k] = F[i][k]
    BY <1>0, <1>1, LinesStay
  <2> QED
    BY <2>1, <2>2, Zenon
<1>4. ASSUME NEW i \in 1..n
      PROVE  LaidAt(F[n], Len(F[i - 1]), T[i], Len(F[i])) /\ Len(F[i]) <= Len(F[n])
  <2>1. i - 1 \in 0..n /\ i \in 0..n
    OBVIOUS
  <2>2. PICK s : s = F[i - 1]
    OBVIOUS
  <2>3. PICK t : t = T[i]
    OBVIOUS
  <2>4. PICK v : v = F[i]
    OBVIOUS
  <2>5. s \in Seq(Byte) /\ t \in Seq(Byte) /\ v = s \o t \o CrLf
    BY <1>0, <1>2, <2>1, <2>2, <2>3, <2>4
  <2>7. LaidAt(v, Len(s), t, Len(v)) /\ Len(v) \in Nat
    BY <2>5, LineLaid, Zenon
  <2>6. Len(v) <= Len(v)
    BY <2>7
  <2>8. Len(v) <= Len(F[n]) /\ \A k \in 1..Len(v) : F[n][k] = v[k]
    BY <1>3, <2>1, <2>4, Zenon
  <2>9. LaidAt(F[n], Len(s), t, Len(v))
    BY <2>6, <2>7, <2>8, LaidStays, Zenon
  <2> QED
    BY <2>2, <2>3, <2>4, <2>8, <2>9, Zenon
<1>5. F[n] \in Seq(Byte) /\ Len(F[n]) \in Nat /\ Len(F[0]) = 0
  <2>1. n \in 0..n
    OBVIOUS
  <2> QED
    BY <1>2, <2>1
<1> QED
  BY <1>4, <1>5, Zenon
\* ... and the body behind them.
LEMMA RequestLaid ==
  ASSUME NEW r, IsRequest(r)
  PROVE  LET n == Len(r.headers) + 2
             T == Texts(r)
             R == ToBytes(r)
             head == Len(HeadBytes(r))
         IN  /\ n \in Nat /\ R \in Seq(Byte) /\ Len(R) = head + Len(r.body) /\ head \in Nat
             /\ Start(r, 1) = 0 /\ Start(r, n + 1) = head
             /\ \A k \in 1..Len(r.body) : R[head + k] = r.body[k]
             /\ \A i \in 1..n : /\ LaidAt(R, Start(r, i), T[i], Start(r, i + 1))
                               /\ Start(r, i + 1) <= head
<1> PICK n : n = Len(r.headers) + 2
  OBVIOUS
<1> PICK T : T = Texts(r)
  OBVIOUS
<1> PICK R : R = ToBytes(r)
  OBVIOUS
<1> PICK head : head = Len(HeadBytes(r))
  OBVIOUS
<1>1. PICK F : F = LinesUpTo(T)
  OBVIOUS
<1>2. n \in Nat /\ n = Len(T) /\ T \in Seq(Seq(Byte))
  BY TextsOfRequest
<1>3. /\ F[n] \in Seq(Byte) /\ Len(F[n]) \in Nat /\ Len(F[0]) = 0
      /\ \A i \in 1..n : LaidAt(F[n], Len(F[i - 1]), T[i], Len(F[i])) /\ Len(F[i]) <= Len(F[n])
  BY <1>1, <1>2, HeadLaid, Zenon
<1>4. \A i : Start(r, i) = Len(F[i - 1])
  BY <1>1 DEF Start
<1>5. HeadBytes(r) = F[n] /\ head = Len(F[n])
  BY <1>1, <1>2 DEF HeadBytes, Lines
<1>6. PICK H \in Seq(Byte) : H = F[n]
  BY <1>3
<1>7. PICK b \in Seq(Byte) : b = r.body
  BY DEF IsRequest, Byte
<1>8. R = H \o b
  BY <1>5, <1>6, <1>7 DEF ToBytes
<1>9. /\ R \in Seq(Byte) /\ Len(H) \in Nat /\ Len(b) \in Nat
      /\ Len(R) = Len(H) + Len(b)
      /\ \A k \in 1..Len(H) : R[k] = H[k]
      /\ \A k \in 1..Len(b) : R[Len(H) + k] = b[k]
  BY <1>8, Behind
<1>10. ASSUME NEW i \in 1..n
       PROVE  LaidAt(R, Start(r, i), T[i], Start(r, i + 1)) /\ Start(r, i + 1) <= head
  <2>1. i + 1 - 1 = i
    OBVIOUS
  <2>2. Start(r, i) = Len(F[i - 1]) /\ Start(r, i + 1) = Len(F[i])
    BY <1>4, <2>1
  <2>3. LaidAt(H, Len(F[i - 1]), T[i], Len(F[i])) /\ Len(F[i]) <= Len(H)
    BY <1>3, <1>6, Zenon
  <2>4. LaidAt(R, Len(F[i - 1]), T[i], Len(F[i]))
    BY <1>9, <2>3, LaidStays, ZenonT(30)
  <2> QED
    BY <1>5, <1>6, <2>2, <2>3, <2>4, Zenon
<1>11. Start(r, 1) = 0 /\ Start(r, n + 1) = head
  <2>1. 1 - 1 = 0 /\ n + 1 - 1 = n
    BY <1>2
  <2> QED
    BY <1>3, <1>4, <1>5, <2>1
<1> QED
  BY <1>2, <1>5, <1>6, <1>7, <1>9, <1>10, <1>11, Zenon

\* Where the first CR or LF of a line is, and that it ends the line if the text
\* is well-formed.
FirstEnd(r, i, e) ==
  LET R == ToBytes(r)
  IN  /\ e \in Nat /\ Start(r, i) < e /\ e < Start(r, i + 1)
      /\ R[e] \in Ends
      /\ \A k \in (Start(r, i) + 1)..(e - 1) : R[k] \notin Ends
      /\ R[e] = "CR" /\ R[e + 1] = "LF" <=> ~IllFormed(Texts(r)[i])
      /\ ~IllFormed(Texts(r)[i]) =>
           e + 1 = Start(r, i + 1) /\ e = Start(r, i) + Len(Texts(r)[i]) + 1
      /\ R[e] = "LF" => R[e - 1] # "CR"

\* A text that is well-formed is one byte or nothing.
LEMMA TextOfRequest ==
  ASSUME NEW r, IsRequest(r), NEW T, T = Texts(r), NEW i \in 1..(Len(r.headers) + 2),
         ~IllFormed(T[i])
  PROVE  /\ i # Len(r.headers) + 2 => Len(T[i]) = 1 /\ T[i][1] \notin Ends
         /\ i = Len(r.headers) + 2 => Len(T[i]) = 0
<1> PICK n : n = Len(r.headers)
  OBVIOUS
<1>1. /\ n \in Nat /\ T[1] = <<r.line>> /\ T[n + 2] = <<>>
      /\ \A j \in 1..n : T[j + 1] = r.headers[j]
  BY TextsOfRequest
<1>2. CASE i = 1
  <2>1. T[1][1] = r.line /\ Len(T[1]) = 1 /\ 1 # n + 2
    BY <1>1
  <2> QED
    BY <1>2, <2>1 DEF IsRequest
<1>3. CASE i = n + 2
  BY <1>1, <1>3
<1>4. CASE i # 1 /\ i # n + 2
  <2>1. i - 1 \in 1..n /\ i - 1 + 1 = i
    BY <1>1, <1>4
  <2>2. T[i] = r.headers[i - 1]
    BY <1>1, <2>1
  <2>3. i - 1 \in DOMAIN r.headers
    BY <2>1 DEF IsRequest
  <2> QED
    BY <1>4, <2>2, <2>3 DEF IsRequest
<1> QED
  BY <1>2, <1>3, <1>4

\* The request line is well-formed, and so is the empty line.
LEMMA EdgesWellFormed ==
  ASSUME NEW r, IsRequest(r), NEW T, T = Texts(r)
  PROVE  ~IllFormed(T[1]) /\ ~IllFormed(T[Len(r.headers) + 2])
<1>1. T[1] = <<r.line>> /\ T[Len(r.headers) + 2] = <<>>
  BY TextsOfRequest
<1>2. r.line \notin Ends
  BY DEF IsRequest
<1>3. DOMAIN <<r.line>> = {1} /\ <<r.line>>[1] = r.line
  OBVIOUS
<1> QED
  BY <1>1, <1>2, <1>3 DEF IllFormed

\* Every line has a first CR or LF: the one of its end if the text is well-formed.
LEMMA EndOfText ==
  ASSUME NEW R, NEW t, NEW s, NEW next, LaidAt(R, s, t, next),
         IF IllFormed(t) THEN R[s] = "LF" ELSE \A k \in 1..Len(t) : t[k] \notin Ends
  PROVE  \E e \in Nat :
           /\ s < e /\ e < next /\ R[e] \in Ends
           /\ \A k \in (s + 1)..(e - 1) : R[k] \notin Ends
           /\ R[e] = "CR" /\ R[e + 1] = "LF" <=> ~IllFormed(t)
           /\ ~IllFormed(t) => e = s + Len(t) + 1 /\ e + 1 = next
           /\ R[e] = "LF" => R[e - 1] # "CR"
<1>a. PICK l : l = Len(t)
  OBVIOUS
<1>b. /\ s \in Nat /\ t \in Seq(Byte) /\ l \in Nat /\ next = s + l + 2
      /\ \A k \in 1..l : R[s + k] = t[k]
      /\ R[s + l + 1] = "CR" /\ R[s + l + 2] = "LF"
  BY <1>a DEF LaidAt
<1>0. ASSUME NEW j \in 1..(l + 1), \A k \in 1..(j - 1) : t[k] \notin Ends
      PROVE  \A k \in (s + 1)..((s + j) - 1) : R[k] \notin Ends
  <2> SUFFICES ASSUME NEW k \in (s + 1)..((s + j) - 1) PROVE R[k] \notin Ends
    OBVIOUS
  <2>1. k - s \in 1..(j - 1) /\ k - s \in 1..l /\ s + (k - s) = k
    BY <1>b
  <2> QED
    BY <1>b, <1>0, <2>1
<1>1. CASE ~IllFormed(t)
  <2> DEFINE e == s + l + 1
  <2>1. l + 1 \in 1..(l + 1) /\ l + 1 - 1 = l /\ s + (l + 1) = e
    BY <1>b
  <2>2. \A k \in (s + 1)..((s + (l + 1)) - 1) : R[k] \notin Ends
    BY <1>0, <1>1, <1>a, <1>b, <2>1
  <2>3. e \in Nat /\ s < e /\ e < s + l + 2 /\ e + 1 = s + l + 2
    BY <1>b
  <2>4. R[e] = "CR" /\ R[e + 1] = "LF" /\ R[e] \in Ends /\ R[e] # "LF"
    BY <1>b, <2>3 DEF Ends
  <2> HIDE DEF e
  <2> QED
    BY <1>a, <1>b, <1>1, <2>1, <2>2, <2>3, <2>4 DEF e
<1>2. CASE IllFormed(t)
  <2>0. DOMAIN t = 1..l
    BY <1>a, <1>b
  <2>1. PICK j \in 1..l : /\ t[j] \in Ends /\ \A k \in 1..(j - 1) : t[k] \notin Ends
                          /\ t[j] = "CR" /\ j # l => t[j + 1] # "LF"
    BY <1>2, <1>a, <2>0, Zenon DEF IllFormed
  <2> DEFINE e == s + j
  <2>2. \A k \in (s + 1)..(e - 1) : R[k] \notin Ends
    <3>1. j \in 1..(l + 1)
      BY <1>b
    <3>2. \A k \in (s + 1)..((s + j) - 1) : R[k] \notin Ends
      BY <1>0, <2>1, <3>1, Zenon
    <3> QED
      BY <3>2, Zenon
  <2>3. e \in Nat /\ s < e /\ e < s + l + 2
    BY <1>b
  <2>4. R[e] = t[j] /\ R[e] \in Ends
    BY <1>b, <2>1
  <2>5. R[e] = "CR" => R[e + 1] # "LF"
    <3>1. CASE j = l
      <4>1. e + 1 = s + l + 1
        BY <1>b, <3>1
      <4> QED
        BY <1>b, <4>1
    <3>2. CASE j # l
      <4>1. j + 1 \in 1..l /\ e + 1 = s + (j + 1)
        BY <1>b, <3>2
      <4>2. R[e + 1] = t[j + 1]
        BY <1>b, <4>1
      <4> QED
        BY <2>1, <2>4, <3>2, <4>2
    <3> QED
      BY <3>1, <3>2
  <2>6. R[e - 1] # "CR"
    <3>1. CASE j = 1
      <4>1. e - 1 = s
        BY <1>b, <3>1
      <4> QED
        BY <1>2, <4>1
    <3>2. CASE j # 1
      <4>1. e - 1 \in (s + 1)..(e - 1)
        BY <1>b, <3>2
      <4> QED
        BY <2>2, <4>1 DEF Ends
    <3> QED
      BY <3>1, <3>2
  <2> HIDE DEF e
  <2> QED
    BY <1>b, <1>2, <2>2, <2>3, <2>4, <2>5, <2>6
<1> QED
  BY <1>1, <1>2

\* ... in a request.
LEMMA FirstEndExists ==
  ASSUME NEW r, IsRequest(r), NEW i \in 1..(Len(r.headers) + 2)
  PROVE  \E e : FirstEnd(r, i, e)
<1>1. PICK R : R = ToBytes(r)
  OBVIOUS
<1>2. PICK t : t = Texts(r)[i]
  OBVIOUS
<1>3. PICK s : s = Start(r, i)
  OBVIOUS
<1>4. \A j \in 1..(Len(r.headers) + 2) : LaidAt(R, Start(r, j), Texts(r)[j], Start(r, j + 1))
  BY <1>1, RequestLaid
<1>5. LaidAt(R, s, t, Start(r, i + 1))
  BY <1>2, <1>3, <1>4, Zenon
<1>6. ASSUME IllFormed(t) PROVE R[s] = "LF"
  <2>1. i # 1
    BY <1>2, <1>6, EdgesWellFormed
  <2>2. Len(r.headers) + 2 \in Nat
    BY RequestLaid
  <2>3. i - 1 \in 1..(Len(r.headers) + 2) /\ i - 1 + 1 = i
    BY <2>1, <2>2
  <2>4. LaidAt(R, Start(r, i - 1), Texts(r)[i - 1], s)
    BY <1>3, <1>4, <2>3
  <2> QED
    BY <2>4, Zenon DEF LaidAt
<1>7. ASSUME ~IllFormed(t) PROVE \A k \in 1..Len(t) : t[k] \notin Ends
  <2>1. (Len(t) = 1 /\ t[1] \notin Ends) \/ Len(t) = 0
    BY <1>2, <1>7, TextOfRequest
  <2> QED
    BY <2>1
<1>8. PICK e \in Nat :
           /\ s < e /\ e < Start(r, i + 1) /\ R[e] \in Ends
           /\ \A k \in (s + 1)..(e - 1) : R[k] \notin Ends
           /\ R[e] = "CR" /\ R[e + 1] = "LF" <=> ~IllFormed(t)
           /\ ~IllFormed(t) => e = s + Len(t) + 1 /\ e + 1 = Start(r, i + 1)
           /\ R[e] = "LF" => R[e - 1] # "CR"
  <2>1. IF IllFormed(t) THEN R[s] = "LF" ELSE \A k \in 1..Len(t) : t[k] \notin Ends
    BY <1>6, <1>7, Zenon
  <2> QED
    BY <1>5, <2>1, EndOfText, ZenonT(30)
<1>10. FirstEnd(r, i, e)
  BY <1>1, <1>2, <1>3, <1>8, Zenon DEF FirstEnd
<1> QED
  BY <1>10
-----------------------------------------------------------------------------
(* The indices of the read buffer.                                          *)

IndexOK ==
  /\ m_start_line \in Nat /\ m_checked_idx \in Nat /\ m_read_idx \in Nat
  /\ m_start_line <= m_checked_idx
  /\ m_checked_idx <= m_read_idx /\ m_read_idx <= READ_BUFFER_SIZE
  /\ m_read_buf \in Seq(Byte) /\ m_read_idx = Len(m_read_buf)

IndexInv ==
  /\ stream \in Seq(Byte)
  /\ pc # "closed" => IndexOK
  /\ code \in {"none", "NO_REQUEST", "BAD_REQUEST", "GET_REQUEST"}

indexVars == <<m_start_line, m_checked_idx, m_read_idx, m_read_buf, code>>

\* ... which is Min(S).
LEMMA LeastExists ==
  ASSUME NEW S \in SUBSET Nat, S # {}
  PROVE  Min(S) \in S
  BY LeastOf, Zenon DEF Min

\* Wherever parse_line() stops, it is between where it began and the last byte
\* received.
LEMMA LineInside ==
  ASSUME IndexOK
  PROVE  /\ Line.checked \in Nat
         /\ m_checked_idx <= Line.checked /\ Line.checked <= m_read_idx
<1>1. m_checked_idx \in Nat /\ m_read_idx \in Nat /\ m_checked_idx <= m_read_idx
  BY DEF IndexOK
<1>2. CASE m_check_state = "CONTENT" /\ line_status = "OK"
  BY <1>1, <1>2 DEF Line
<1>3. CASE Stops = {}
  <2>1. ParseLine = [status |-> "OPEN", checked |-> m_read_idx]
    BY <1>3 DEF ParseLine
  <2> QED
    BY <1>1, <1>2, <2>1 DEF Line
<1>4. CASE Stops # {}
  <2> DEFINE i == Min(Stops)
  <2>1. Stops \in SUBSET Nat /\ Stops \subseteq (m_checked_idx + 1)..m_read_idx
    BY <1>1 DEF Stops
  <2>2. i \in (m_checked_idx + 1)..m_read_idx
    BY <1>4, <2>1, LeastExists
  <2>3. \/ ParseLine.checked = i - 1
        \/ ParseLine.checked = i
        \/ ParseLine.checked = i + 1 /\ i # m_read_idx
    BY <1>4 DEF ParseLine
  <2> HIDE DEF i
  <2>4. /\ ParseLine.checked \in Nat
        /\ m_checked_idx <= ParseLine.checked /\ ParseLine.checked <= m_read_idx
    BY <1>1, <2>2, <2>3
  <2> QED
    BY <1>1, <1>2, <2>4 DEF Line
<1> QED
  BY <1>3, <1>4

\* Every round of process_read() moves the indices within what was received.
LEMMA IndexParse ==
  ASSUME IndexInv, pc = "parse", Parse, UNCHANGED stream
  PROVE  IndexInv'
<1>1. IndexOK
  BY DEF IndexInv
<1>2. /\ Line.checked \in Nat
      /\ m_checked_idx <= Line.checked /\ Line.checked <= m_read_idx
  BY <1>1, LineInside
<1>3. /\ m_checked_idx' = Line.checked
      /\ m_start_line' \in {m_start_line, Line.checked}
      /\ UNCHANGED <<m_read_buf, m_read_idx>>
  BY DEF Parse, ParseRequestLine, ParseHeader, ParseContent, ParseEnds, LineEnds
<1>4. code' \in {"none", "NO_REQUEST", "BAD_REQUEST", "GET_REQUEST"}
  BY DEF IndexInv, Parse, ParseRequestLine, ParseHeader, ParseContent, ParseEnds
<1>5. IndexOK'
  BY <1>1, <1>2, <1>3 DEF IndexOK
<1> QED
  BY <1>4, <1>5 DEF IndexInv

\* Bytes are taken only if there is room for them.
LEMMA IndexRead ==
  ASSUME IndexInv, NEW n \in 1..Len(stream), Read(n)
  PROVE  IndexInv'
<1> DEFINE piece == SubSeq(stream, 1, n)
<1>1. /\ stream \in Seq(Byte) /\ IndexOK /\ READ_BUFFER_SIZE \in Nat
  BY ParserAssumption DEF IndexInv, Read, ParserAssumption
<1>2. piece \in Seq(Byte) /\ Len(piece) = n /\ n \in Nat
  BY <1>1
<1>3. SubSeq(stream, n + 1, Len(stream)) \in Seq(Byte)
  BY <1>1
<1> HIDE DEF piece
<1>4. /\ m_read_buf' = m_read_buf \o piece /\ m_read_idx' = m_read_idx + n
      /\ UNCHANGED <<m_checked_idx, m_start_line>> /\ code' = "none"
      /\ stream' = SubSeq(stream, n + 1, Len(stream))
      /\ Fits(piece)
  BY <1>2 DEF Read, ReadPiece, piece
<1>5. m_read_idx + n <= READ_BUFFER_SIZE
  BY <1>1, <1>2, <1>4 DEF Fits, IndexOK
<1>6. m_read_buf \o piece \in Seq(Byte) /\ Len(m_read_buf \o piece) = m_read_idx + n
  BY <1>1, <1>2 DEF IndexOK
<1>7. IndexOK'
  BY <1>1, <1>2, <1>4, <1>5, <1>6 DEF IndexOK
<1> QED
  BY <1>3, <1>4, <1>7 DEF IndexInv

\* A step that neither receives nor parses.
LEMMA IndexQuiet ==
  ASSUME IndexInv, UNCHANGED <<stream, code>>,
         pc' = "closed" \/ (pc # "closed" /\ UNCHANGED indexVars)
  PROVE  IndexInv'
  BY DEF IndexInv, IndexOK, indexVars

\* The empty buffer.
LEMMA NoBytes == <<>> \in Seq(Byte) /\ Len(<<>>) = 0 /\ 0 \in Nat /\ 0 <= READ_BUFFER_SIZE
  BY ParserAssumption DEF ParserAssumption

\* A request is a sequence of bytes.
LEMMA RequestsTyped ==
  ASSUME NEW r \in Requests
  PROVE  IsRequest(r) /\ ToBytes(r) \in Seq(Byte)
<1>1. IsRequest(r)
  BY ExchangeAssumption, Zenon DEF ExchangeAssumption
<1> QED
  BY <1>1, RequestLaid

\* init() begins with an empty buffer.
LEMMA IndexReset ==
  ASSUME IndexInv, ParserReset, NEW before \in {stream, <<>>}, NextRequest(before)
  PROVE  IndexInv'
<1>1. PICK r \in Requests : stream' = before \o ToBytes(r)
  BY DEF NextRequest
<1>2. ToBytes(r) \in Seq(Byte) /\ before \in Seq(Byte)
  <2>1. ToBytes(r) \in Seq(Byte)
    BY RequestsTyped
  <2>2. stream \in Seq(Byte)
    BY DEF IndexInv
  <2> QED
    BY <2>1, <2>2, NoBytes, Zenon
<1>3. stream' \in Seq(Byte)
  BY <1>1, <1>2
<1>4. IndexOK'
  <2>1. /\ m_read_buf' = <<>> /\ m_read_idx' = 0
        /\ m_checked_idx' = 0 /\ m_start_line' = 0
    BY DEF ParserReset
  <2>2. 0 <= 0
    OBVIOUS
  <2> QED
    BY <2>1, <2>2, NoBytes, Zenon DEF IndexOK
<1> QED
  BY <1>3, <1>4 DEF IndexInv, ParserReset

LEMMA IndexInductive == IndexInv /\ [Next]_vars => IndexInv'
<1> SUFFICES ASSUME IndexInv, [Next]_vars PROVE IndexInv'
  OBVIOUS
<1>1. ASSUME NEW n \in 1..Len(stream), Read(n) PROVE IndexInv'
  BY <1>1, IndexRead
<1>2. ASSUME NEW n \in 1..Len(stream), BufferFull(n) PROVE IndexInv'
  BY <1>2, IndexQuiet DEF BufferFull, parserVars
<1>3. CASE ReadError
  BY <1>3, IndexQuiet DEF ReadError, RecvFails
<1>4. CASE ProcessRead
  BY <1>4, IndexParse DEF ProcessRead
<1>5. CASE Answer
  BY <1>5, IndexQuiet DEF Answer, parserVars, indexVars
<1>6. CASE Writable
  BY <1>6, IndexQuiet DEF Writable, parserVars, indexVars
<1>7. ASSUME NEW n \in 1..(HeaderLen + FormLen + st_size), Write(n) PROVE IndexInv'
  BY <1>7, IndexQuiet DEF Write, parserVars, indexVars
<1>8. CASE WriteError
  BY <1>8, IndexQuiet DEF WriteError, parserVars
<1>9. CASE Finish
  <2>1. CASE m_linger
    BY <1>9, <2>1, IndexReset DEF Finish
  <2>2. CASE ~m_linger
    BY <1>9, <2>2, IndexQuiet DEF Finish, parserVars
  <2> QED
    BY <2>1, <2>2
<1>10. CASE Abort
  BY <1>10, IndexQuiet DEF Abort, parserVars
<1>11. CASE Accept
  BY <1>11, IndexReset DEF Accept
<1>12. CASE UNCHANGED vars
  BY <1>12 DEF vars, parserVars, exchangeVars, IndexInv, IndexOK
<1> QED
  BY <1>1, <1>2, <1>3, <1>4, <1>5, <1>6, <1>7, <1>8, <1>9, <1>10, <1>11, <1>12
     DEF Next, Sending

LEMMA IndexInitially == Init => IndexInv
<1> SUFFICES ASSUME Init PROVE IndexInv
  OBVIOUS
<1>1. PICK r \in Requests : stream = ToBytes(r)
  BY DEF Init
<1>2. stream \in Seq(Byte)
  BY <1>1, RequestsTyped
<1>3. IndexOK
  <2>1. /\ m_read_buf = <<>> /\ m_read_idx = 0
        /\ m_checked_idx = 0 /\ m_start_line = 0
    BY DEF Init, ParserInit
  <2>2. 0 <= 0
    OBVIOUS
  <2> QED
    BY <2>1, <2>2, NoBytes, Zenon DEF IndexOK
<1> QED
  BY <1>2, <1>3 DEF Init, ParserInit, IndexInv

\* For any buffer, in LT and in ET mode and however the bytes are cut, no index
\* of the object leaves what was received while the object is in use.
THEOREM TypeCorrect == Spec => []TypeOK
<1>1. Init => MappingInv
  BY FS_EmptySet DEF Init, WriterInit, MappingInv
<1>2. IndexInv /\ SendInv /\ MappingInv => TypeOK
  <2>1. IndexInv /\ pc # "closed" =>
          /\ 0 <= m_start_line /\ m_start_line <= m_checked_idx
          /\ m_checked_idx <= m_read_idx /\ m_read_idx <= READ_BUFFER_SIZE
          /\ m_read_idx = Len(m_read_buf)
    BY DEF IndexInv, IndexOK
  <2> QED
    BY <2>1 DEF IndexInv, SendInv, SendTypes, MappingInv, TypeOK
<1> QED
  BY <1>1, <1>2, IndexInitially, IndexInductive, SendInitially, SendInductive,
     MappingInductive, PTL DEF Spec

-----------------------------------------------------------------------------
(* What is made of a request.                                               *)

\* The first n headers gave x as the length of the body.
Given(r, i) == r.headers[i][1] \in DOMAIN ContentLengths
LengthUpTo(r, n, x) ==
  \/ x = 0 /\ \A i \in 1..n : ~Given(r, i)
  \/ \E i \in 1..n : /\ Given(r, i) /\ x = ContentLengths[r.headers[i][1]]
                     /\ \A j \in (i + 1)..n : ~Given(r, j)

\* The i-th line is being read, and no CR or LF of it has been passed; the parser
\* waits in it only if it is not complete or not well-formed.
InLine(i) ==
  /\ m_start_line = Start(req, i)
  /\ \A k \in (m_start_line + 1)..m_checked_idx : m_read_buf[k] \notin Ends
  /\ pc = "in" => m_read_idx < Start(req, i + 1) \/ IllFormed(Texts(req)[i])
  /\ pc = "parse" => line_status = "OK"

\* What is known after the request line and n headers.
HeadersRead(n) ==
  /\ req.line \in DOMAIN RequestLines /\ m_url = RequestLines[req.line]
  /\ \A i \in 1..n : ~IllFormed(req.headers[i])
  /\ m_linger = (\E i \in 1..n : req.headers[i] = <<"keep-alive">>)
  /\ LengthUpTo(req, n, m_content_length)

\* The body is being read; if it was not complete, the loop has been in it.
InBody ==
  LET head == Len(HeadBytes(req))
  IN  /\ m_content_length # 0
      /\ m_start_line >= head
      /\ line_status \in {"OK", "OPEN"}
      /\ line_status = "OPEN" => m_checked_idx > head \/ m_read_idx < head + m_content_length
      /\ pc = "in" => line_status = "OPEN"

AtLine ==
  \/ m_check_state = "REQUESTLINE" /\ InLine(1) /\ m_linger = FALSE /\ m_content_length = 0
  \/ /\ m_check_state = "HEADER"
     /\ \E n \in 0..Len(req.headers) : InLine(n + 2) /\ HeadersRead(n)
  \/ m_check_state = "CONTENT" /\ InBody /\ HeadersRead(Len(req.headers))

Parsing ==
  /\ m_read_buf \o stream = ToBytes(req)
  /\ AtLine
  /\ pc = "parse" => code = "none"

\* The body is longer than the request says.
Exceeds(r) == LengthOf(r) > 0 /\ Len(r.body) > LengthOf(r)

Answering ==
  /\ code = Expected(req)
  /\ code = "GET_REQUEST" =>
       /\ m_url = RequestLines[req.line]
       /\ m_linger = KeepAlive(req)
       /\ LengthOf(req) > 0 /\ ~Exceeds(req) => m_string = SubSeq(req.body, 1, LengthOf(req))
  /\ m_linger => stream = <<>>

ParseInv ==
  /\ req \in Requests
  /\ pc \in Phases
  /\ pc \in {"in", "parse"} => Parsing
  /\ pc \in {"answer", "out", "write", "sent"} => Answering

\* No length is negative, and a request with keep-alive is not followed on its
\* connection by bytes that it does not announce.
Announced ==
  /\ \A h \in DOMAIN ContentLengths : ContentLengths[h] \in Nat
  /\ \A r \in Requests : KeepAlive(r) => Len(r.body) <= LengthOf(r)

\* The largest element.
LEMMA MaxIs ==
  ASSUME NEW S \in SUBSET Int, NEW x \in S, \A y \in S : y <= x
  PROVE  Max(S) = x
<1> PICK m : m = Max(S)
  OBVIOUS
<1>1. \A y \in S : x >= y
  OBVIOUS
<1>2. m \in S /\ \A y \in S : m >= y
  BY <1>1, Zenon DEF Max
<1>3. m \in Int /\ m >= x /\ m <= x
  BY <1>2
<1> QED
  BY <1>3

\* The smallest.
LEMMA MinIs ==
  ASSUME NEW S \in SUBSET Int, NEW x \in S, \A y \in S : x <= y
  PROVE  Min(S) = x
<1> PICK m : m = Min(S)
  OBVIOUS
<1>1. m \in S /\ \A y \in S : m =< y
  BY Zenon DEF Min
<1>2. m \in Int /\ m <= x /\ x <= m
  BY <1>1
<1> QED
  BY <1>2

\* After all the headers the length is the one of the last Content-length.
LEMMA LengthKnown ==
  ASSUME NEW r, IsRequest(r), NEW x, LengthUpTo(r, Len(r.headers), x)
  PROVE  x = LengthOf(r)
<1> DEFINE n == Len(r.headers)
           given == {i \in DOMAIN r.headers : r.headers[i][1] \in DOMAIN ContentLengths}
<1>1. DOMAIN r.headers = 1..n /\ n \in Nat
  BY DEF IsRequest
<1> HIDE DEF n
<1>2. LengthOf(r) = IF given = {} THEN 0 ELSE ContentLengths[r.headers[Max(given)][1]]
  BY DEF LengthOf
<1>3. given \in SUBSET Int /\ \A i \in 1..n : i \in given <=> Given(r, i)
  BY <1>1 DEF Given
<1>4. CASE x = 0 /\ \A i \in 1..n : ~Given(r, i)
  <2>1. given = {}
    BY <1>1, <1>3, <1>4
  <2> QED
    BY <1>2, <1>4, <2>1
<1>5. ASSUME NEW i \in 1..n, Given(r, i), x = ContentLengths[r.headers[i][1]],
             \A j \in (i + 1)..n : ~Given(r, j)
      PROVE  x = LengthOf(r)
  <2>1. i \in given
    BY <1>3, <1>5
  <2>2. ASSUME NEW y \in given PROVE y <= i
    <3>1. y \in 1..n /\ Given(r, y)
      BY <1>1, <1>3
    <3> HIDE DEF given
    <3> QED
      BY <1>1, <1>5, <3>1
  <2>3. Max(given) = i
    BY <1>3, <2>1, <2>2, MaxIs
  <2> QED
    BY <1>2, <1>5, <2>1, <2>3
<1> QED
  BY <1>4, <1>5 DEF LengthUpTo, n

\* One header more.
LEMMA LengthStep ==
  ASSUME NEW r, NEW n \in Nat, NEW x, LengthUpTo(r, n, x)
  PROVE  LengthUpTo(r, n + 1, IF Given(r, n + 1) THEN ContentLengths[r.headers[n + 1][1]] ELSE x)
<1>1. CASE Given(r, n + 1)
  <2>1. n + 1 \in 1..(n + 1) /\ \A j \in (n + 1 + 1)..(n + 1) : ~Given(r, j)
    OBVIOUS
  <2> QED
    BY <1>1, <2>1 DEF LengthUpTo
<1>2. CASE ~Given(r, n + 1)
  <2>1. CASE x = 0 /\ \A i \in 1..n : ~Given(r, i)
    <3>1. \A i \in 1..(n + 1) : i \in 1..n \/ i = n + 1
      OBVIOUS
    <3> QED
      BY <1>2, <2>1, <3>1 DEF LengthUpTo
  <2>2. ASSUME NEW i \in 1..n, Given(r, i), x = ContentLengths[r.headers[i][1]],
               \A j \in (i + 1)..n : ~Given(r, j)
        PROVE  LengthUpTo(r, n + 1, x)
    <3>1. i \in 1..(n + 1) /\ \A j \in (i + 1)..(n + 1) : j \in (i + 1)..n \/ j = n + 1
      OBVIOUS
    <3> QED
      BY <1>2, <2>2, <3>1 DEF LengthUpTo
  <2> QED
    BY <1>2, <2>1, <2>2 DEF LengthUpTo
<1> QED
  BY <1>1, <1>2

\* A length is a number.
LEMMA LengthTyped ==
  ASSUME Announced, NEW r, NEW n, NEW x, LengthUpTo(r, n, x)
  PROVE  x \in Nat
  BY DEF LengthUpTo, Announced, Given

\* What is in the buffer are the first bytes of the request.
LEMMA Prefix ==
  ASSUME IndexInv, pc # "closed", m_read_buf \o stream = ToBytes(req)
  PROVE  /\ \A k \in 1..m_read_idx : m_read_buf[k] = ToBytes(req)[k]
         /\ Len(ToBytes(req)) = m_read_idx + Len(stream) /\ Len(stream) \in Nat
<1>1. m_read_buf \in Seq(Byte) /\ stream \in Seq(Byte) /\ m_read_idx = Len(m_read_buf)
  BY DEF IndexInv, IndexOK
<1> QED
  BY <1>1, Behind

-----------------------------------------------------------------------------
(* The line that is being read.                                             *)

\* What the invariant says of the line that is being read, in any phase.
Scanned(i) ==
  /\ IndexInv /\ pc # "closed" /\ req \in Requests
  /\ m_read_buf \o stream = ToBytes(req)
  /\ m_start_line = Start(req, i)
  /\ \A k \in (m_start_line + 1)..m_checked_idx : m_read_buf[k] \notin Ends

\* parse_line() in the i-th line: LINE_OK if and only if it is well-formed and has
\* arrived with its end, however much follows it; else no CR or LF is passed.
LEMMA ParseLineIn ==
  ASSUME NEW i \in 1..(Len(req.headers) + 2), Scanned(i)
  PROVE  /\ ParseLine.status = "OK" <=>
              ~IllFormed(Texts(req)[i]) /\ Start(req, i + 1) <= m_read_idx
         /\ ParseLine.status = "OK" => ParseLine.checked = Start(req, i + 1)
         /\ ParseLine.status # "OK" =>
              \A k \in (m_start_line + 1)..ParseLine.checked : m_read_buf[k] \notin Ends
<1> PICK R : R = ToBytes(req)
  OBVIOUS
<1> PICK ill : ill = IllFormed(Texts(req)[i]) /\ ill \in BOOLEAN
  BY DEF IllFormed
<1> PICK next : next = Start(req, i + 1)
  OBVIOUS
<1>1. /\ m_start_line \in Nat /\ m_checked_idx \in Nat /\ m_read_idx \in Nat
      /\ m_start_line <= m_checked_idx /\ m_checked_idx <= m_read_idx
  BY DEF Scanned, IndexInv, IndexOK
<1>2. \A k \in 1..m_read_idx : m_read_buf[k] = R[k]
  BY Prefix DEF Scanned
<1>3. IsRequest(req)
  BY RequestsTyped DEF Scanned
<1>4. PICK e : FirstEnd(req, i, e)
  BY <1>3, FirstEndExists
<1>5. /\ e \in Nat /\ m_start_line < e /\ e < next
      /\ R[e] \in Ends
      /\ \A k \in (m_start_line + 1)..(e - 1) : R[k] \notin Ends
      /\ R[e] = "CR" /\ R[e + 1] = "LF" <=> ~ill
      /\ ~ill => e + 1 = next
      /\ R[e] = "LF" => R[e - 1] # "CR"
  BY <1>4, Zenon DEF FirstEnd, Scanned
<1>6. next \in Nat
  <2>1. LaidAt(R, Start(req, i), Texts(req)[i], next)
    BY <1>3, RequestLaid
  <2>2. \E s \in Nat, l \in Nat : next = s + l + 2
    BY <2>1, Zenon DEF LaidAt
  <2> QED
    BY <2>2
<1>7. m_checked_idx < e
  <2> SUFFICES ASSUME e <= m_checked_idx PROVE FALSE
    BY <1>1, <1>5
  <2>1. e \in (m_start_line + 1)..m_checked_idx /\ e \in 1..m_read_idx
    BY <1>1, <1>5
  <2> QED
    BY <1>2, <1>5, <2>1 DEF Scanned
<1>8. ASSUME NEW k \in (m_start_line + 1)..(e - 1), k <= m_read_idx PROVE m_read_buf[k] \notin Ends
  <2>1. k \in 1..m_read_idx
    BY <1>1, <1>5, <1>8
  <2> QED
    BY <1>2, <1>5, <2>1
<1>9. CASE m_read_idx < e
  <2>1. Stops = {}
    <3> SUFFICES ASSUME NEW k \in (m_checked_idx + 1)..m_read_idx, m_read_buf[k] \in Ends
                 PROVE  FALSE
      BY DEF Stops, Ends
    <3>1. k \in (m_start_line + 1)..(e - 1) /\ k <= m_read_idx
      BY <1>1, <1>5, <1>9
    <3> QED
      BY <1>8, <3>1
  <2>2. ParseLine = [status |-> "OPEN", checked |-> m_read_idx]
    BY <2>1 DEF ParseLine
  <2>3. ParseLine.status = "OPEN" /\ ParseLine.checked = m_read_idx
    BY <2>2
  <2>4. ~(next <= m_read_idx)
    BY <1>1, <1>5, <1>6, <1>9
  <2>5. ASSUME NEW k \in (m_start_line + 1)..m_read_idx PROVE m_read_buf[k] \notin Ends
    <3>1. k \in (m_start_line + 1)..(e - 1) /\ k <= m_read_idx
      BY <1>1, <1>5, <1>9
    <3> QED
      BY <1>8, <3>1
  <2> QED
    BY <2>3, <2>4, <2>5
<1>10. CASE e <= m_read_idx
  <2>1. e \in 1..m_read_idx /\ m_read_buf[e] = R[e]
    BY <1>1, <1>2, <1>5, <1>10
  <2>2. e \in Stops
    <3>1. e \in (m_checked_idx + 1)..m_read_idx
      BY <1>1, <1>5, <1>7, <1>10
    <3> QED
      BY <1>5, <2>1, <3>1 DEF Stops, Ends
  <2>3. ASSUME NEW k \in Stops PROVE e <= k
    <3>1. k \in (m_checked_idx + 1)..m_read_idx /\ m_read_buf[k] \in Ends
      BY DEF Stops, Ends
    <3> SUFFICES ASSUME k < e PROVE FALSE
      BY <1>1, <1>5, <3>1
    <3>2. k \in (m_start_line + 1)..(e - 1) /\ k <= m_read_idx
      BY <1>1, <1>5, <3>1
    <3> QED
      BY <1>8, <3>1, <3>2
  <2>4. Stops \in SUBSET Int
    BY <1>1 DEF Stops
  <2>5. Min(Stops) = e /\ Stops # {}
    BY <2>2, <2>3, <2>4, MinIs, Zenon
  <2>6. ASSUME NEW k \in (m_start_line + 1)..(e - 1) PROVE m_read_buf[k] \notin Ends
    BY <1>1, <1>5, <1>8, <1>10
  <2>7. CASE R[e] = "CR" /\ e = m_read_idx
    <3>1. ParseLine.status = "OPEN" /\ ParseLine.checked = e - 1
      BY <2>1, <2>5, <2>7 DEF ParseLine
    <3>2. ~(~ill /\ next <= m_read_idx)
      BY <1>5, <1>6, <2>7
    <3> QED
      BY <2>6, <3>1, <3>2
  <2>8. CASE R[e] = "CR" /\ e # m_read_idx
    <3>1. e + 1 \in 1..m_read_idx
      BY <1>1, <1>5, <1>10, <2>8
    <3>2. m_read_buf[e + 1] = R[e + 1]
      BY <1>2, <3>1
    <3>3. CASE R[e + 1] = "LF"
      <4>1. ParseLine.status = "OK" /\ ParseLine.checked = e + 1
        BY <2>1, <2>5, <2>8, <3>2, <3>3 DEF ParseLine
      <4>2. ~ill /\ e + 1 = next /\ next <= m_read_idx
        BY <1>5, <2>8, <3>1, <3>3
      <4> QED
        BY <4>1, <4>2
    <3>4. CASE R[e + 1] # "LF"
      <4>1. ParseLine.status = "BAD" /\ ParseLine.checked = e - 1
        BY <2>1, <2>5, <2>8, <3>2, <3>4 DEF ParseLine
      <4>2. ill
        BY <1>5, <3>4
      <4> QED
        BY <2>6, <4>1, <4>2
    <3> QED
      BY <3>3, <3>4
  <2>9. CASE R[e] = "LF"
    <3>1. e > 2 => m_read_buf[e - 1] # "CR"
      <4> SUFFICES ASSUME e > 2 PROVE m_read_buf[e - 1] # "CR"
        OBVIOUS
      <4>1. e - 1 \in 1..m_read_idx
        BY <1>1, <1>5, <1>10
      <4> QED
        BY <1>2, <1>5, <2>9, <4>1
    <3>2. ParseLine.status = "BAD" /\ ParseLine.checked = e - 1
      BY <2>1, <2>5, <2>9, <3>1 DEF ParseLine
    <3>3. ill
      BY <1>5, <2>9
    <3> QED
      BY <2>6, <3>2, <3>3
  <2> QED
    BY <1>5, <2>7, <2>8, <2>9 DEF Ends
<1> QED
  BY <1>1, <1>5, <1>9, <1>10

\* A piece of one byte.
LEMMA OneByte ==
  ASSUME NEW S, NEW b \in Seq(S), NEW j \in 1..Len(b)
  PROVE  Len(SubSeq(b, j, j)) = 1 /\ SubSeq(b, j, j)[1] = b[j]
<1>1. j \in Nat /\ j - j + 1 = 1 /\ 1 + j - 1 = j
  OBVIOUS
<1>2. /\ SubSeq(b, j, j) \in Seq(S)
      /\ Len(SubSeq(b, j, j)) = 1
  BY <1>1
<1> QED
  BY <1>1, <1>2

\* The text of the line is then the one that was sent.
LEMMA TextIn ==
  ASSUME NEW i \in 1..(Len(req.headers) + 2), Scanned(i), Line = ParseLine, ParseLine.status = "OK"
  PROVE  /\ i = Len(req.headers) + 2 => Text = <<>>
         /\ i # Len(req.headers) + 2 =>
              Len(Text) = 1 /\ Text # <<>> /\ Text[1] = Texts(req)[i][1] /\ Len(Texts(req)[i]) = 1
<1> PICK R : R = ToBytes(req)
  OBVIOUS
<1> PICK t : t = Texts(req)[i]
  OBVIOUS
<1> PICK next : next = Start(req, i + 1)
  OBVIOUS
<1> PICK s : s = m_start_line
  OBVIOUS
<1>1. IsRequest(req)
  BY RequestsTyped DEF Scanned
<1>2. ~IllFormed(t) /\ next <= m_read_idx /\ ParseLine.checked = next
  BY ParseLineIn
<1>3. LaidAt(R, s, t, next)
  BY <1>1, RequestLaid DEF Scanned
<1>4. /\ i # Len(req.headers) + 2 => Len(t) = 1
      /\ i = Len(req.headers) + 2 => Len(t) = 0
  BY <1>1, <1>2, TextOfRequest
<1>5. /\ s \in Nat /\ next = s + Len(t) + 2 /\ Len(t) \in Nat
      /\ \A k \in 1..Len(t) : R[s + k] = t[k]
  BY <1>3, Zenon DEF LaidAt
<1>6. Text = SubSeq(m_read_buf, s + 1, next - 2)
  BY <1>2 DEF Text
<1>7. m_read_idx \in Nat /\ m_read_buf \in Seq(Byte) /\ m_read_idx = Len(m_read_buf)
  BY DEF Scanned, IndexInv, IndexOK
<1>8. CASE Len(t) = 0
  <2>1. next - 2 = s
    BY <1>5, <1>8
  <2>2. Text = <<>>
    BY <1>5, <1>6, <1>7, <2>1, SMTT(30)
  <2> QED
    BY <1>4, <1>8, <2>2
<1>9. CASE Len(t) = 1
  <2>1. next - 2 = s + 1 /\ s + 1 \in 1..m_read_idx
    BY <1>2, <1>5, <1>7, <1>9
  <2>2. Len(Text) = 1 /\ Text[1] = m_read_buf[s + 1]
    <3>1. Text = SubSeq(m_read_buf, s + 1, s + 1) /\ s + 1 \in 1..Len(m_read_buf)
      BY <1>6, <1>7, <2>1
    <3>2. m_read_buf \in Seq(Byte)
      BY <1>7
    <3>3. PICK j : j = s + 1
      OBVIOUS
    <3> QED
      BY <3>1, <3>2, <3>3, OneByte, Zenon
  <2>3. m_read_buf[s + 1] = R[s + 1]
    BY <2>1, Prefix DEF Scanned
  <2>4. 1 \in 1..1 /\ R[s + 1] = t[1]
    BY <1>5, <1>9
  <2> QED
    BY <1>4, <1>9, <2>2, <2>3, <2>4
<1> QED
  BY <1>4, <1>8, <1>9

-----------------------------------------------------------------------------
(* A request begins, and its bytes come in.                                 *)

\* The object as init() leaves it, with a request on its way.
Fresh ==
  /\ m_read_buf = <<>> /\ m_read_idx = 0 /\ m_checked_idx = 0 /\ m_start_line = 0
  /\ m_check_state = "REQUESTLINE" /\ m_content_length = 0 /\ m_linger = FALSE
  /\ pc = "in" /\ req \in Requests /\ stream = ToBytes(req)

\* It waits for the first byte of the request line.
LEMMA FreshParses == Fresh => ParseInv
<1> SUFFICES ASSUME Fresh PROVE ParseInv
  OBVIOUS
<1>1. IsRequest(req) /\ stream \in Seq(Byte)
  BY RequestsTyped DEF Fresh
<1>2. m_read_buf \o stream = ToBytes(req)
  BY <1>1 DEF Fresh
<1>3. PICK next : next = Start(req, 1 + 1)
  OBVIOUS
<1>4. LaidAt(ToBytes(req), 0, Texts(req)[1], next)
  <2>1. 1 \in 1..(Len(req.headers) + 2)
    BY <1>1, TextsOfRequest
  <2> QED
    BY <1>1, <1>3, <2>1, RequestLaid
<1>5. Start(req, 1) = 0
  BY <1>1, RequestLaid
<1>6. 0 < next
  <2>1. \E l \in Nat : next = 0 + l + 2
    BY <1>4, Zenon DEF LaidAt
  <2> QED
    BY <2>1
<1>7. InLine(1)
  BY <1>3, <1>5, <1>6 DEF Fresh, InLine
<1> QED
  BY <1>2, <1>7 DEF Fresh, ParseInv, Parsing, AtLine, Phases

\* Sequences are equal if their elements are.
LEMMA SameBytes ==
  ASSUME NEW S, NEW v \in Seq(S), NEW w \in Seq(S), NEW n \in Nat, Len(v) = n, Len(w) = n,
         \A k \in 1..n : v[k] = w[k]
  PROVE  v = w
  OBVIOUS

\* w is s, of length m, and behind it t, of length n.
Joins(S, w, m, s, n, t) ==
  /\ w \in Seq(S) /\ Len(w) = m + n
  /\ \A k \in 1..m : w[k] = s[k]
  /\ \A k \in 1..n : w[m + k] = t[k]

\* That is s \o t.
LEMMA Joined ==
  ASSUME NEW S, NEW s \in Seq(S), NEW t \in Seq(S)
  PROVE  Joins(S, s \o t, Len(s), s, Len(t), t)
<1>1. /\ s \o t \in Seq(S) /\ Len(s) \in Nat /\ Len(t) \in Nat
      /\ Len(s \o t) = Len(s) + Len(t)
      /\ \A k \in 1..Len(s) : (s \o t)[k] = s[k]
      /\ \A k \in 1..Len(t) : (s \o t)[Len(s) + k] = t[k]
  BY Behind
<1> QED
  BY <1>1, Zenon DEF Joins

\* Wherever what follows is cut.
LEMMA CutAnywhere ==
  ASSUME NEW S, NEW b \in Seq(S), NEW s \in Seq(S), NEW n \in 1..Len(s)
  PROVE  /\ (b \o SubSeq(s, 1, n)) \o SubSeq(s, n + 1, Len(s)) = b \o s
         /\ \A k \in 1..Len(b) : (b \o SubSeq(s, 1, n))[k] = b[k]
<1>a. PICK l : l = Len(s)
  OBVIOUS
<1>b. PICK m : m = Len(b)
  OBVIOUS
<1>p. PICK p : p = SubSeq(s, 1, n)
  OBVIOUS
<1>q. PICK q : q = SubSeq(s, n + 1, l)
  OBVIOUS
<1>1. l \in Nat /\ n \in Nat /\ n <= l /\ m \in Nat /\ n \in Int
  BY <1>a, <1>b
<1>2. p \in Seq(S) /\ Len(p) = n /\ \A k \in 1..n : p[k] = s[k]
  BY <1>1, <1>a, <1>p
<1>3. q \in Seq(S) /\ Len(q) = l - n /\ \A k \in 1..(l - n) : q[k] = s[n + k]
  BY <1>1, <1>a, <1>q
<1>u. PICK u : u = b \o p
  OBVIOUS
<1>4. /\ u \in Seq(S) /\ Len(u) = m + n
      /\ \A k \in 1..m : u[k] = b[k]
      /\ \A k \in 1..n : u[m + k] = p[k]
  <2>1. Joins(S, u, m, b, n, p)
    BY <1>b, <1>u, <1>2, Joined
  <2> QED
    BY <2>1, Zenon DEF Joins
<1>v. PICK v : v = u \o q
  OBVIOUS
<1>5. /\ v \in Seq(S) /\ Len(v) = (m + n) + (l - n)
      /\ \A k \in 1..(m + n) : v[k] = u[k]
      /\ \A k \in 1..(l - n) : v[(m + n) + k] = q[k]
  <2>1. Joins(S, v, m + n, u, l - n, q)
    BY <1>v, <1>3, <1>4, Joined
  <2> QED
    BY <2>1, Zenon DEF Joins
<1>w. PICK w : w = b \o s
  OBVIOUS
<1>6. /\ w \in Seq(S) /\ Len(w) = m + l
      /\ \A k \in 1..m : w[k] = b[k]
      /\ \A k \in 1..l : w[m + k] = s[k]
  <2>1. Joins(S, w, m, b, l, s)
    BY <1>a, <1>b, <1>w, Joined
  <2> QED
    BY <2>1, Zenon DEF Joins
<1>7. m + l \in Nat /\ Len(v) = m + l
  BY <1>1, <1>5
<1>8. ASSUME NEW k \in 1..(m + l) PROVE v[k] = w[k]
  <2>1. CASE k <= m
    <3>1. k \in 1..m /\ k \in 1..(m + n)
      BY <1>1, <2>1
    <3> QED
      BY <1>4, <1>5, <1>6, <3>1
  <2>2. CASE m < k /\ k <= m + n
    <3>1. PICK j \in 1..n : k = m + j
      <4>1. k - m \in 1..n /\ k = m + (k - m)
        BY <1>1, <2>2
      <4> QED
        BY <4>1
    <3>2. j \in 1..l /\ k \in 1..(m + n)
      BY <1>1, <2>2
    <3>3. v[k] = u[k]
      BY <1>5, <3>2
    <3>4. u[k] = s[j] /\ w[k] = s[j]
      BY <1>2, <1>4, <1>6, <3>1, <3>2
    <3> QED
      BY <3>3, <3>4
  <2>3. CASE m + n < k
    <3>1. PICK j \in 1..(l - n) : k = (m + n) + j
      <4>1. k - (m + n) \in 1..(l - n) /\ k = (m + n) + (k - (m + n))
        BY <1>1, <2>3
      <4> QED
        BY <4>1
    <3>2. n + j \in 1..l /\ k = m + (n + j)
      BY <1>1, <3>1
    <3>3. v[k] = s[n + j]
      BY <1>3, <1>5, <3>1
    <3>4. w[k] = s[n + j]
      BY <1>6, <3>2
    <3> QED
      BY <3>3, <3>4
  <2> QED
    BY <1>1, <2>1, <2>2, <2>3
<1>9. v = w
  BY <1>5, <1>6, <1>7, <1>8, SameBytes
<1>10. \A k \in 1..m : u[k] = b[k]
  BY <1>4
<1> QED
  BY <1>9, <1>10, <1>a, <1>b, <1>p, <1>q, <1>u, <1>v, <1>w

\* The next bytes change nothing of what has been passed.
LEMMA ParseRead ==
  ASSUME IndexInv, ParseInv, NEW n \in 1..Len(stream), Read(n)
  PROVE  ParseInv'
<1> DEFINE piece == SubSeq(stream, 1, n)
           rest == SubSeq(stream, n + 1, Len(stream))
<1>1. /\ stream \in Seq(Byte) /\ m_read_buf \in Seq(Byte)
      /\ m_checked_idx \in Nat /\ m_start_line \in Nat /\ m_checked_idx <= Len(m_read_buf)
  BY DEF IndexInv, IndexOK, Read
<1>2. pc = "in" /\ req \in Requests /\ m_read_buf \o stream = ToBytes(req) /\ AtLine
  BY DEF Read, ParseInv, Parsing
<1>3. /\ m_read_buf' = m_read_buf \o piece /\ stream' = rest
      /\ line_status' = "OK" /\ code' = "none" /\ pc' = "parse" /\ req' = req
      /\ UNCHANGED <<m_checked_idx, m_start_line, m_check_state, m_content_length, m_url, m_linger>>
  BY DEF Read, ReadPiece
<1>4. /\ (m_read_buf \o piece) \o rest = m_read_buf \o stream
      /\ \A k \in 1..m_checked_idx : (m_read_buf \o piece)[k] = m_read_buf[k]
  <2>1. /\ (m_read_buf \o piece) \o rest = m_read_buf \o stream
        /\ \A k \in 1..Len(m_read_buf) : (m_read_buf \o piece)[k] = m_read_buf[k]
    BY <1>1, CutAnywhere, ZenonT(30)
  <2>2. \A k \in 1..m_checked_idx : k \in 1..Len(m_read_buf)
    BY <1>1
  <2> QED
    BY <2>1, <2>2, Zenon
<1> HIDE DEF piece, rest
<1>5. (m_read_buf \o stream = ToBytes(req))'
  BY <1>2, <1>3, <1>4
<1>6. ASSUME NEW i \in Int, InLine(i) PROVE InLine(i)'
  <2>1. m_start_line' = Start(req', i)
    BY <1>3, <1>6 DEF InLine
  <2>2. ASSUME NEW k \in (m_start_line + 1)..m_checked_idx PROVE m_read_buf'[k] \notin Ends
    <3>1. k \in 1..m_checked_idx
      BY <1>1
    <3>2. m_read_buf'[k] = m_read_buf[k]
      BY <1>3, <1>4, <3>1
    <3> QED
      BY <1>6, <3>2 DEF InLine
  <2> QED
    BY <1>3, <2>1, <2>2 DEF InLine
<1>7. ASSUME NEW j, HeadersRead(j) PROVE HeadersRead(j)'
  BY <1>3, <1>7 DEF HeadersRead
<1>8. InBody => InBody'
  BY <1>3 DEF InBody
<1>9. AtLine'
  <2>1. CASE m_check_state = "REQUESTLINE"
    BY <1>2, <1>3, <1>6, <2>1 DEF AtLine
  <2>2. CASE m_check_state = "HEADER"
    <3>1. PICK j \in 0..Len(req.headers) : InLine(j + 2) /\ HeadersRead(j)
      BY <1>2, <2>2 DEF AtLine
    <3>2. j + 2 \in Int
      OBVIOUS
    <3>3. InLine(j + 2)' /\ HeadersRead(j)'
      BY <1>6, <1>7, <3>1, <3>2
    <3> QED
      BY <1>3, <2>2, <3>3 DEF AtLine
  <2>3. CASE m_check_state = "CONTENT"
    <3>1. PICK j : j = Len(req.headers)
      OBVIOUS
    <3>2. InBody /\ HeadersRead(j)
      BY <1>2, <2>3, <3>1 DEF AtLine
    <3>3. InBody' /\ HeadersRead(j)'
      BY <1>7, <1>8, <3>2
    <3> QED
      BY <1>3, <2>3, <3>1, <3>3 DEF AtLine
  <2> QED
    BY <1>2, <2>1, <2>2, <2>3 DEF AtLine
<1> QED
  BY <1>2, <1>3, <1>5, <1>9 DEF ParseInv, Parsing, Phases

-----------------------------------------------------------------------------
(* The rounds of process_read().                                            *)

\* A round of the loop of process_read(), and what is known before it.
Round == IndexInv /\ ParseInv /\ ProcessRead

\* It takes no bytes.
LEMMA RoundBegins ==
  ASSUME Round
  PROVE  /\ pc = "parse" /\ code = "none" /\ Parse
         /\ req \in Requests /\ IsRequest(req)
         /\ m_read_buf \o stream = ToBytes(req) /\ AtLine
         /\ UNCHANGED <<req, stream, m_read_buf, m_read_idx>>
         /\ pc' = IF code' = "NO_REQUEST" THEN "in"
                  ELSE IF code' \in {"GET_REQUEST", "BAD_REQUEST"} THEN "answer" ELSE "parse"
<1>1. /\ pc = "parse" /\ Parse /\ UNCHANGED <<req, stream>>
      /\ pc' = IF code' = "NO_REQUEST" THEN "in"
               ELSE IF code' \in {"GET_REQUEST", "BAD_REQUEST"} THEN "answer" ELSE "parse"
  BY DEF Round, ProcessRead
<1>2. req \in Requests /\ Parsing
  BY <1>1 DEF Round, ParseInv
<1>3. UNCHANGED <<m_read_buf, m_read_idx>>
  BY <1>1 DEF Parse, ParseRequestLine, ParseHeader, ParseContent, ParseEnds
<1>4. IsRequest(req)
  BY <1>2, RequestsTyped
<1> QED
  BY <1>1, <1>2, <1>3, <1>4 DEF Parsing

\* What the invariant says after it.
LEMMA RoundEnds ==
  ASSUME Round, pc' \in {"in", "parse"} => AtLine', pc' = "answer" => Answering',
         pc' = "parse" => code' = "none"
  PROVE  ParseInv'
<1>1. /\ req \in Requests /\ m_read_buf \o stream = ToBytes(req)
      /\ UNCHANGED <<req, stream, m_read_buf>>
      /\ pc' \in {"in", "parse", "answer"}
  BY RoundBegins
<1> QED
  BY <1>1 DEF ParseInv, Parsing, Phases

\* The line that is read is one that has been read so far.
LEMMA LineScanned ==
  ASSUME Round, NEW i, InLine(i)
  PROVE  Scanned(i)
  BY RoundBegins DEF Round, InLine, Scanned

\* A new line begins where the last one ends.
LEMMA NextLine ==
  ASSUME NEW i, m_start_line' = Start(req', i), m_checked_idx' = m_start_line',
         m_start_line' \in Nat, pc' = "parse", line_status' = "OK"
  PROVE  InLine(i)'
<1>1. (m_start_line' + 1)..m_checked_idx' = {}
  OBVIOUS
<1> QED
  BY <1>1 DEF InLine

\* parse_request_line() refuses what is none, and only that.
LEMMA RoundRequestLine ==
  ASSUME Round, ParseRequestLine
  PROVE  ParseInv'
<1>1. /\ req \in Requests /\ IsRequest(req) /\ AtLine /\ pc = "parse" /\ code = "none"
      /\ UNCHANGED <<req, stream>>
  BY RoundBegins
<1>2. m_check_state = "REQUESTLINE" /\ Line.status = "OK"
  BY DEF ParseRequestLine, LineEnds
<1>3. InLine(1) /\ m_linger = FALSE /\ m_content_length = 0
  BY <1>1, <1>2 DEF AtLine
<1>4. line_status = "OK" /\ Scanned(1)
  BY <1>1, <1>3, LineScanned DEF InLine
<1>5. Line = ParseLine
  BY <1>2 DEF Line
<1>6. ParseLine.status = "OK"
  BY <1>2, <1>5
<1>7. 1 \in 1..(Len(req.headers) + 2) /\ 1 # Len(req.headers) + 2 /\ 1 + 1 = 0 + 2
  BY <1>1, TextsOfRequest
<1>8. Line.checked = Start(req, 0 + 2)
  BY <1>4, <1>5, <1>6, <1>7, ParseLineIn
<1>9. Len(Text) = 1 /\ Text[1] = req.line
  <2>1. Len(Text) = 1 /\ Text[1] = Texts(req)[1][1]
    BY <1>4, <1>5, <1>6, <1>7, TextIn
  <2>2. Texts(req)[1] = <<req.line>>
    BY <1>1, TextsOfRequest
  <2> QED
    BY <2>1, <2>2
<1>10. CASE req.line \in DOMAIN RequestLines
  <2>1. /\ m_url' = RequestLines[req'.line] /\ m_check_state' = "HEADER" /\ code' = "none"
        /\ m_linger' = FALSE /\ m_content_length' = 0 /\ line_status' = "OK"
        /\ m_start_line' = Line.checked /\ m_checked_idx' = m_start_line'
    BY <1>1, <1>3, <1>4, <1>9, <1>10 DEF ParseRequestLine, LineEnds
  <2>2. pc' = "parse"
    BY <2>1, RoundBegins
  <2>3. InLine(0 + 2)'
    <3>1. m_start_line' \in Nat
      BY <2>1, LineInside, <1>1 DEF Round, IndexInv
    <3> QED
      BY <1>1, <1>8, <2>1, <2>2, <3>1, NextLine
  <2>4. HeadersRead(0)'
    <3>1. 1..0 = {} /\ req'.line \in DOMAIN RequestLines
      BY <1>1, <1>10
    <3> QED
      BY <2>1, <3>1 DEF HeadersRead, LengthUpTo
  <2>5. AtLine'
    <3>1. 0 \in 0..Len(req'.headers)
      BY <1>1, TextsOfRequest
    <3> QED
      BY <2>1, <2>3, <2>4, <3>1 DEF AtLine
  <2> QED
    BY <2>1, <2>2, <2>5, RoundEnds
<1>11. CASE req.line \notin DOMAIN RequestLines
  <2>1. code' = "BAD_REQUEST" /\ m_linger' = FALSE
    BY <1>3, <1>9, <1>11 DEF ParseRequestLine
  <2>2. pc' = "answer"
    BY <2>1, RoundBegins
  <2>3. Expected(req)' = "BAD_REQUEST"
    BY <1>1, <1>11 DEF Expected
  <2>4. Answering'
    BY <2>1, <2>3 DEF Answering
  <2> QED
    BY <2>2, <2>4, RoundEnds
<1> QED
  BY <1>10, <1>11

\* What a round finds in the headers: the (n + 2)-th line, complete and well-formed.
InHeader(n) ==
  /\ InLine(n + 2) /\ HeadersRead(n)
  /\ ~IllFormed(Texts(req)[n + 2])
  /\ Line.checked = Start(req, n + 3) /\ Line.checked <= m_read_idx /\ Line.checked \in Nat
  /\ n = Len(req.headers) => Text = <<>>
  /\ n # Len(req.headers) =>
       /\ n + 1 \in 1..Len(req.headers)
       /\ Text # <<>> /\ Text[1] = req.headers[n + 1][1] /\ Len(req.headers[n + 1]) = 1
       /\ ~IllFormed(req.headers[n + 1])

\* It is one of the headers or the empty line behind them.
LEMMA RoundInHeader ==
  ASSUME Round, ParseHeader
  PROVE  \E n \in 0..Len(req.headers) : InHeader(n)
<1>1. req \in Requests /\ IsRequest(req) /\ AtLine
  BY RoundBegins
<1>2. m_check_state = "HEADER" /\ Line.status = "OK"
  BY DEF ParseHeader, LineEnds
<1>3. PICK n \in 0..Len(req.headers) : InLine(n + 2) /\ HeadersRead(n)
  BY <1>1, <1>2 DEF AtLine
<1>4. Line = ParseLine /\ ParseLine.status = "OK"
  BY <1>2 DEF Line
<1>5. PICK last : last = Len(req.headers) /\ last \in Nat
  BY <1>1, TextsOfRequest
<1>6. n + 2 \in 1..(last + 2) /\ (n = last <=> n + 2 = last + 2) /\ n + 2 + 1 = n + 3
  BY <1>3, <1>5
<1>7. Scanned(n + 2)
  BY <1>3, LineScanned
<1>8. /\ ~IllFormed(Texts(req)[n + 2])
      /\ Line.checked = Start(req, n + 2 + 1) /\ Line.checked <= m_read_idx
  BY <1>4, <1>5, <1>6, <1>7, ParseLineIn
<1>9. Line.checked \in Nat
  BY LineInside, RoundBegins DEF Round, IndexInv
<1>10. /\ n = last => Text = <<>>
       /\ n # last => Text # <<>> /\ Text[1] = Texts(req)[n + 2][1] /\ Len(Texts(req)[n + 2]) = 1
  BY <1>4, <1>5, <1>6, <1>7, TextIn
<1>11. ASSUME n # last PROVE n + 1 \in 1..last /\ Texts(req)[n + 2] = req.headers[n + 1]
  <2>1. n + 1 \in 1..last /\ n + 1 + 1 = n + 2
    BY <1>3, <1>5, <1>11
  <2>2. Texts(req)[n + 1 + 1] = req.headers[n + 1]
    BY <1>1, <1>5, <2>1, TextsOfRequest
  <2> QED
    BY <2>1, <2>2
<1>12. InHeader(n)
  BY <1>3, <1>5, <1>6, <1>8, <1>9, <1>10, <1>11, Zenon DEF InHeader
<1> QED
  BY <1>3, <1>12

\* A header is taken in.
LEMMA RoundOneHeader ==
  ASSUME Round, ParseHeader, NEW n \in 0..Len(req.headers), InHeader(n), n # Len(req.headers)
  PROVE  ParseInv'
<1>1. /\ req \in Requests /\ IsRequest(req) /\ AtLine /\ pc = "parse" /\ code = "none"
      /\ UNCHANGED <<req, stream>>
  BY RoundBegins
<1>2. line_status = "OK" /\ HeadersRead(n)
  BY <1>1 DEF InHeader, InLine
<1>3. /\ n + 1 \in 1..Len(req.headers)
      /\ Text # <<>> /\ Text[1] = req.headers[n + 1][1] /\ Len(req.headers[n + 1]) = 1
      /\ ~IllFormed(req.headers[n + 1])
      /\ Line.checked = Start(req, n + 3) /\ Line.checked \in Nat
  BY DEF InHeader
<1>4. /\ m_linger' = (m_linger \/ Text[1] = "keep-alive")
      /\ m_content_length' = IF Text[1] \in DOMAIN ContentLengths
                             THEN ContentLengths[Text[1]] ELSE m_content_length
      /\ m_check_state' = "HEADER" /\ code' = "none" /\ line_status' = "OK" /\ m_url' = m_url
      /\ m_start_line' = Line.checked /\ m_checked_idx' = m_start_line'
  BY <1>1, <1>2, <1>3 DEF ParseHeader, LineEnds
<1>5. pc' = "parse"
  BY <1>4, RoundBegins
<1>6. PICK m : m = n + 1
  OBVIOUS
<1>7. n \in Nat /\ m \in 0..Len(req.headers) /\ m + 2 = n + 3
  BY <1>3, <1>6
<1>8. InLine(m + 2)'
  BY <1>1, <1>3, <1>4, <1>5, <1>7, NextLine
<1>9. HeadersRead(m)'
  <2>1. \A i \in 1..m : i \in 1..n \/ i = m
    BY <1>6, <1>7
  <2>2. \A i \in 1..n : i \in 1..m
    BY <1>6, <1>7
  <2>3. m \in 1..m
    BY <1>6, <1>7
  <2>4. \A i \in 1..m : ~IllFormed(req.headers[i])
    BY <1>2, <1>3, <1>6, <2>1 DEF HeadersRead
  <2>5. req.headers[m] = <<"keep-alive">> <=> Text[1] = "keep-alive"
    <3>1. PICK h : h = req.headers[m]
      OBVIOUS
    <3>2. h \in Seq(STRING) /\ Len(h) = 1
      BY <1>1, <1>3, <1>6, <3>1 DEF IsRequest
    <3>3. h = <<"keep-alive">> <=> h[1] = "keep-alive"
      BY <3>2
    <3> QED
      BY <1>3, <1>6, <3>1, <3>3
  <2>6. m_linger' = (\E i \in 1..m : req.headers[i] = <<"keep-alive">>)
    BY <1>2, <1>4, <2>1, <2>2, <2>3, <2>5 DEF HeadersRead
  <2>7. LengthUpTo(req, m, m_content_length')
    <3>1. LengthUpTo(req, n, m_content_length)
      BY <1>2 DEF HeadersRead
    <3>2. m_content_length' = IF Given(req, n + 1) THEN ContentLengths[req.headers[n + 1][1]]
                              ELSE m_content_length
      BY <1>3, <1>4 DEF Given
    <3> QED
      BY <1>6, <1>7, <3>1, <3>2, LengthStep
  <2> QED
    BY <1>1, <1>2, <1>4, <2>4, <2>6, <2>7 DEF HeadersRead
<1>10. AtLine'
  BY <1>1, <1>4, <1>7, <1>8, <1>9 DEF AtLine
<1> QED
  BY <1>4, <1>5, <1>10, RoundEnds

\* After the last header: a request without a body is complete, and nothing has
\* been sent behind it if the connection stays open.
LEMMA RoundEmptyLine ==
  ASSUME Round, Announced, ParseHeader, InHeader(Len(req.headers))
  PROVE  ParseInv'
<1>1. /\ req \in Requests /\ IsRequest(req) /\ pc = "parse" /\ code = "none"
      /\ m_read_buf \o stream = ToBytes(req)
      /\ UNCHANGED <<req, stream>>
  BY RoundBegins
<1>2. PICK n : n = Len(req.headers) /\ n \in Nat
  BY <1>1, TextsOfRequest
<1>3. PICK head : head = Len(HeadBytes(req))
  OBVIOUS
<1>4. line_status = "OK" /\ HeadersRead(n) /\ Text = <<>>
  BY <1>1, <1>2 DEF InHeader, InLine
<1>5. Line.checked = head /\ head \in Nat /\ head <= m_read_idx
  <2>1. Start(req, n + 3) = head
    <3>1. n + 2 + 1 = n + 3
      BY <1>2
    <3>2. Start(req, n + 2 + 1) = head
      BY <1>1, <1>2, <1>3, RequestLaid
    <3> QED
      BY <3>1, <3>2
  <2> QED
    BY <1>2, <2>1 DEF InHeader
<1>6. /\ m_linger' = m_linger /\ m_content_length' = m_content_length
      /\ line_status' = "OK" /\ m_url' = m_url
      /\ m_start_line' = head /\ m_checked_idx' = head
      /\ IF m_content_length # 0
         THEN m_check_state' = "CONTENT" /\ code' = "none"
         ELSE code' = "GET_REQUEST" /\ m_check_state' = m_check_state
  BY <1>1, <1>4, <1>5 DEF ParseHeader, LineEnds
<1>7. HeadersRead(n)'
  BY <1>1, <1>4, <1>6 DEF HeadersRead
<1>8. m_content_length = LengthOf(req)
  BY <1>1, <1>2, <1>4, LengthKnown DEF HeadersRead
<1>9. DOMAIN req.headers = 1..n
  BY <1>1, <1>2 DEF IsRequest
<1>10. CASE m_content_length # 0
  <2>1. pc' = "parse"
    BY <1>6, <1>10, RoundBegins
  <2>2. InBody'
    BY <1>1, <1>3, <1>5, <1>6, <1>10, <2>1 DEF InBody
  <2>3. AtLine'
    BY <1>1, <1>2, <1>6, <1>7, <1>10, <2>2 DEF AtLine
  <2> QED
    BY <1>6, <1>10, <2>1, <2>3, RoundEnds
<1>11. CASE m_content_length = 0
  <2>1. code' = "GET_REQUEST" /\ pc' = "answer"
    BY <1>6, <1>11, RoundBegins
  <2>2. m_linger = KeepAlive(req)
    BY <1>4, <1>9 DEF HeadersRead, KeepAlive
  <2>3. Expected(req) = "GET_REQUEST"
    <3>1. req.line \in DOMAIN RequestLines /\ Framed(req)
      BY <1>4, <1>9 DEF HeadersRead, Framed
    <3>2. ~(Len(req.body) < LengthOf(req))
      <4>1. Len(req.body) \in Nat
        BY <1>1 DEF IsRequest
      <4> QED
        BY <1>8, <1>11, <4>1
    <3> QED
      BY <3>1, <3>2 DEF Expected
  <2>4. ASSUME m_linger PROVE stream = <<>>
    <3>1. Len(req.body) <= LengthOf(req)
      BY <1>1, <2>2, <2>4 DEF Announced
    <3>2. Len(req.body) \in Nat
      BY <1>1 DEF IsRequest
    <3>3. Len(req.body) = 0
      BY <1>8, <1>11, <3>1, <3>2
    <3>4. Len(ToBytes(req)) = head + Len(req.body)
      BY <1>1, <1>3, RequestLaid
    <3>5. Len(ToBytes(req)) = m_read_idx + Len(stream) /\ Len(stream) \in Nat
      BY <1>1, Prefix DEF Round
    <3>6. m_read_idx \in Nat /\ stream \in Seq(Byte)
      BY <1>1 DEF Round, IndexInv, IndexOK
    <3>7. Len(stream) = 0
      BY <1>5, <3>3, <3>4, <3>5, <3>6
    <3> QED
      BY <3>6, <3>7
  <2>5. /\ code' = Expected(req') /\ m_url' = RequestLines[req'.line]
        /\ m_linger' = KeepAlive(req') /\ ~(LengthOf(req') > 0)
    <3>1. code' = Expected(req')
      BY <1>1, <2>1, <2>3
    <3>2. m_url' = RequestLines[req'.line]
      BY <1>7 DEF HeadersRead
    <3>3. m_linger' = KeepAlive(req')
      BY <1>1, <1>6, <2>2
    <3>4. ~(LengthOf(req') > 0)
      BY <1>1, <1>8, <1>11
    <3> QED
      BY <3>1, <3>2, <3>3, <3>4
  <2>6. Answering'
    BY <1>1, <1>6, <2>4, <2>5 DEF Answering
  <2> QED
    BY <2>1, <2>6, RoundEnds
<1> QED
  BY <1>10, <1>11

\* parse_headers()
LEMMA RoundHeader ==
  ASSUME Round, Announced, ParseHeader
  PROVE  ParseInv'
<1>1. PICK n \in 0..Len(req.headers) : InHeader(n)
  BY RoundInHeader
<1>2. CASE n = Len(req.headers)
  BY <1>1, <1>2, RoundEmptyLine
<1>3. CASE n # Len(req.headers)
  BY <1>1, <1>3, RoundOneHeader
<1> QED
  BY <1>2, <1>3

\* The loop ends without a line: the parser waits for its end, or for the body.
LEMMA RoundNoLine ==
  ASSUME Round, ParseEnds
  PROVE  ParseInv'
<1>1. /\ req \in Requests /\ IsRequest(req) /\ AtLine /\ pc = "parse" /\ code = "none"
      /\ UNCHANGED <<req, stream, m_read_buf, m_read_idx>>
  BY RoundBegins
<1>2. /\ Line.status # "OK" /\ m_checked_idx' = Line.checked /\ code' = "NO_REQUEST"
      /\ UNCHANGED <<m_start_line, m_check_state, m_content_length, m_url, m_linger, line_status>>
  BY DEF ParseEnds
<1>3. pc' = "in"
  BY <1>2, RoundBegins
<1>4. Line = ParseLine
  BY <1>2 DEF Line
<1>5. ASSUME NEW i \in 1..(Len(req.headers) + 2), InLine(i) PROVE InLine(i)'
  <2>1. Scanned(i)
    BY <1>5, LineScanned
  <2>2. ParseLine.status # "OK" /\ m_checked_idx' = ParseLine.checked
    BY <1>2, <1>4
  <2>3. /\ \A k \in (m_start_line + 1)..ParseLine.checked : m_read_buf[k] \notin Ends
        /\ ~(~IllFormed(Texts(req)[i]) /\ Start(req, i + 1) <= m_read_idx)
    BY <2>1, <2>2, ParseLineIn
  <2>4. m_read_idx < Start(req, i + 1) \/ IllFormed(Texts(req)[i])
    <3>1. Start(req, i + 1) \in Nat
      <4>1. LaidAt(ToBytes(req), Start(req, i), Texts(req)[i], Start(req, i + 1))
        BY <1>1, RequestLaid
      <4>2. \E s \in Nat, l \in Nat : Start(req, i + 1) = s + l + 2
        BY <4>1, Zenon DEF LaidAt
      <4> QED
        BY <4>2
    <3>2. m_read_idx \in Nat
      BY <1>1 DEF Round, IndexInv, IndexOK
    <3> QED
      BY <2>3, <3>1, <3>2
  <2> QED
    BY <1>1, <1>2, <1>3, <1>5, <2>2, <2>3, <2>4 DEF InLine
<1>6. ASSUME NEW n, HeadersRead(n) PROVE HeadersRead(n)'
  BY <1>1, <1>2, <1>6 DEF HeadersRead
<1>7. Len(req.headers) \in Nat
  BY <1>1, TextsOfRequest
<1>8. CASE m_check_state = "REQUESTLINE"
  <2>1. 1 \in 1..(Len(req.headers) + 2)
    BY <1>7
  <2>2. InLine(1)' /\ m_linger' = FALSE /\ m_content_length' = 0
    BY <1>1, <1>2, <1>5, <1>8, <2>1 DEF AtLine
  <2>3. AtLine'
    BY <1>2, <1>8, <2>2 DEF AtLine
  <2> QED
    BY <1>3, <2>3, RoundEnds
<1>9. CASE m_check_state = "HEADER"
  <2>1. PICK n \in 0..Len(req.headers) : InLine(n + 2) /\ HeadersRead(n)
    BY <1>1, <1>9 DEF AtLine
  <2>2. n + 2 \in 1..(Len(req.headers) + 2)
    BY <1>7
  <2>3. InLine(n + 2)' /\ HeadersRead(n)'
    BY <1>5, <1>6, <2>1, <2>2
  <2>4. AtLine'
    BY <1>1, <1>2, <1>9, <2>3 DEF AtLine
  <2> QED
    BY <1>3, <2>4, RoundEnds
<1>10. CASE m_check_state = "CONTENT"
  <2>1. PICK n : n = Len(req.headers)
    OBVIOUS
  <2>2. InBody /\ HeadersRead(n)
    BY <1>1, <1>10, <2>1 DEF AtLine
  <2>3. HeadersRead(n)'
    BY <1>6, <2>2
  <2>4. line_status = "OPEN"
    BY <1>2, <1>10, <2>2 DEF InBody, Line
  <2>5. PICK head : head = Len(HeadBytes(req)) /\ head \in Nat
    BY <1>1, RequestLaid
  <2>6. m_checked_idx > head => m_checked_idx' > head
    <3>1. m_checked_idx \in Nat /\ m_checked_idx' \in Nat /\ m_checked_idx <= m_checked_idx'
      BY <1>1, <1>2, LineInside DEF Round, IndexInv, IndexOK
    <3> QED
      BY <2>5, <3>1
  <2>7. InBody'
    BY <1>1, <1>2, <2>2, <2>4, <2>5, <2>6 DEF InBody
  <2>8. AtLine'
    BY <1>1, <1>2, <1>10, <2>1, <2>3, <2>7 DEF AtLine
  <2> QED
    BY <1>3, <2>8, RoundEnds
<1> QED
  BY <1>1, <1>8, <1>9, <1>10 DEF AtLine

-----------------------------------------------------------------------------
(* The body.                                                                *)

\* The piece behind the first h bytes.
LEMMA PieceBehind ==
  ASSUME NEW S, NEW b \in Seq(S), NEW c \in Seq(S), NEW h \in Nat, NEW l \in Nat,
         l <= Len(c), h + l <= Len(b), \A k \in 1..l : b[h + k] = c[k]
  PROVE  SubSeq(b, h + 1, h + l) = SubSeq(c, 1, l)
<1>1. PICK v : v = SubSeq(b, h + 1, h + l)
  OBVIOUS
<1>2. PICK w : w = SubSeq(c, 1, l)
  OBVIOUS
<1>3. v \in Seq(S) /\ Len(v) = l /\ \A k \in 1..l : v[k] = b[h + k]
  BY <1>1
<1>4. w \in Seq(S) /\ Len(w) = l /\ \A k \in 1..l : w[k] = c[k]
  BY <1>2
<1>5. \A k \in 1..l : v[k] = w[k]
  BY <1>3, <1>4
<1>6. v = w
  BY <1>3, <1>4, <1>5, SameBytes
<1> QED
  BY <1>1, <1>2, <1>6

\* parse_content(): if no more bytes come than are announced, the body is complete
\* only where it begins, and then it is the one that was sent.
LEMMA RoundContent ==
  ASSUME Round, Announced, ParseContent
  PROVE  ParseInv'
<1>1. /\ req \in Requests /\ IsRequest(req) /\ AtLine /\ pc = "parse" /\ code = "none"
      /\ m_read_buf \o stream = ToBytes(req)
      /\ UNCHANGED <<req, stream, m_read_buf, m_read_idx>>
  BY RoundBegins
<1>2. /\ m_check_state = "CONTENT" /\ Line.status = "OK"
      /\ m_checked_idx' = Line.checked /\ m_start_line' = Line.checked
      /\ UNCHANGED <<m_check_state, m_content_length, m_url, m_linger>>
  BY DEF ParseContent, LineEnds
<1>3. PICK n : n = Len(req.headers) /\ n \in Nat
  BY <1>1, TextsOfRequest
<1>4. PICK head : head = Len(HeadBytes(req))
  OBVIOUS
<1>5. InBody /\ HeadersRead(n)
  BY <1>1, <1>2, <1>3 DEF AtLine
<1>6. HeadersRead(n)'
  BY <1>1, <1>2, <1>5 DEF HeadersRead
<1>7. PICK l : l = m_content_length /\ l = LengthOf(req) /\ l \in Nat /\ l # 0
  BY <1>1, <1>3, <1>5, LengthKnown, LengthTyped DEF HeadersRead, InBody
<1>8. PICK body : body = req.body /\ body \in Seq(STRING)
  BY <1>1 DEF IsRequest
<1>9. /\ head \in Nat /\ Len(ToBytes(req)) = head + Len(body)
      /\ \A k \in 1..Len(body) : ToBytes(req)[head + k] = body[k]
  BY <1>1, <1>4, <1>8, RequestLaid
<1>10. /\ Len(body) \in Nat
       /\ ~Exceeds(req) => Len(body) <= l
       /\ KeepAlive(req) => Len(body) <= l
  BY <1>1, <1>7, <1>8 DEF Announced, Exceeds
<1>11. PICK read : read = m_read_idx /\ read \in Nat /\ read = Len(m_read_buf)
  BY <1>1 DEF Round, IndexInv, IndexOK
<1>12. /\ Len(ToBytes(req)) = read + Len(stream) /\ Len(stream) \in Nat
       /\ \A k \in 1..read : m_read_buf[k] = ToBytes(req)[k]
  BY <1>1, <1>11, Prefix DEF Round
<1>13. PICK checked : checked = Line.checked /\ checked \in Nat /\ head <= m_start_line
                      /\ m_start_line <= checked /\ m_start_line \in Nat
  BY <1>1, <1>4, <1>5, LineInside, <1>9 DEF Round, IndexInv, IndexOK, InBody
<1>14. CASE read >= l + checked
  <2>1. code' = "GET_REQUEST" /\ pc' = "answer"
    BY <1>7, <1>11, <1>13, <1>14, RoundBegins DEF ParseContent
  <2>2. m_string' = SubSeq(m_read_buf, m_start_line + 1, m_start_line + l)
    BY <1>7, <1>11, <1>13, <1>14 DEF ParseContent
  <2>3. ~(Len(body) < l)
    BY <1>7, <1>9, <1>10, <1>11, <1>12, <1>13, <1>14
  <2>4. Len(body) <= l =>
          Len(body) = l /\ m_start_line = head /\ Len(stream) = 0 /\ read = head + l
    BY <1>7, <1>9, <1>10, <1>11, <1>12, <1>13, <1>14
  <2>5. ASSUME KeepAlive(req) PROVE stream = <<>>
    <3>1. stream \in Seq(Byte)
      BY DEF Round, IndexInv
    <3> QED
      BY <1>10, <2>4, <2>5, <3>1
  <2>6. ASSUME ~Exceeds(req) PROVE m_string' = SubSeq(body, 1, l)
    <3>0. Len(body) = l /\ m_start_line = head /\ read = head + l
      BY <1>10, <2>4, <2>6
    <3>1. \A k \in 1..l : head + k \in 1..read
      BY <1>7, <1>9, <3>0
    <3>2. \A k \in 1..l : m_read_buf[head + k] = body[k]
      BY <1>9, <1>12, <3>0, <3>1
    <3>3. m_read_buf \in Seq(Byte) /\ body \in Seq(Byte)
      BY <1>1, <1>8 DEF Round, IndexInv, IndexOK, Byte
    <3>4. head + l <= Len(m_read_buf) /\ l <= Len(body)
      BY <1>7, <1>9, <1>11, <3>0
    <3>5. SubSeq(m_read_buf, head + 1, head + l) = SubSeq(body, 1, l)
      BY <1>7, <1>9, <3>2, <3>3, <3>4, PieceBehind
    <3> QED
      BY <2>2, <3>0, <3>5
  <2>7. m_linger = KeepAlive(req)
    <3>1. DOMAIN req.headers = 1..n
      BY <1>1, <1>3 DEF IsRequest
    <3> QED
      BY <1>5, <3>1 DEF HeadersRead, KeepAlive
  <2>8. Expected(req) = "GET_REQUEST"
    <3>1. DOMAIN req.headers = 1..n
      BY <1>1, <1>3 DEF IsRequest
    <3>2. req.line \in DOMAIN RequestLines /\ Framed(req)
      BY <1>5, <3>1 DEF HeadersRead, Framed
    <3>3. ~(Len(req.body) < LengthOf(req))
      BY <1>7, <1>8, <2>3
    <3> QED
      BY <3>2, <3>3 DEF Expected
  <2>9. /\ code' = Expected(req') /\ m_url' = RequestLines[req'.line]
        /\ m_linger' = KeepAlive(req')
    BY <1>1, <1>2, <1>6, <2>1, <2>7, <2>8 DEF HeadersRead
  <2>10. ~Exceeds(req') => m_string' = SubSeq(req'.body, 1, LengthOf(req'))
    BY <1>1, <1>7, <1>8, <2>6
  <2>11. m_linger' => stream' = <<>>
    BY <1>1, <2>5, <2>9
  <2>12. Answering'
    BY <2>9, <2>10, <2>11 DEF Answering
  <2> QED
    BY <2>1, <2>12, RoundEnds
<1>15. CASE ~(read >= l + checked)
  <2>1. line_status' = "OPEN" /\ code' = "none"
    BY <1>1, <1>7, <1>11, <1>13, <1>15 DEF ParseContent
  <2>2. pc' = "parse"
    BY <2>1, RoundBegins
  <2>3. checked > head \/ read < head + l
    BY <1>7, <1>9, <1>11, <1>13, <1>15
  <2>4. head <= checked
    BY <1>9, <1>13
  <2>5. InBody'
    BY <1>1, <1>2, <1>4, <1>7, <1>11, <1>13, <2>1, <2>2, <2>3, <2>4 DEF InBody
  <2>6. AtLine'
    BY <1>1, <1>2, <1>3, <1>6, <2>5 DEF AtLine
  <2> QED
    BY <2>1, <2>2, <2>6, RoundEnds
<1> QED
  BY <1>14, <1>15

\* Every round of process_read().
LEMMA ParseProcessRead ==
  ASSUME IndexInv, ParseInv, Announced, ProcessRead
  PROVE  ParseInv'
<1>1. Round /\ Parse
  BY DEF Round, ProcessRead
<1> QED
  BY <1>1, RoundRequestLine, RoundHeader, RoundContent, RoundNoLine DEF Parse

\* What has been understood is kept while the request is answered.
LEMMA ParseQuiet ==
  ASSUME ParseInv, UNCHANGED <<code, m_url, m_linger, m_string, req, stream>>,
         \/ pc' = "closed"
         \/ /\ pc \in {"answer", "out", "write", "sent"}
            /\ pc' \in {"answer", "out", "write", "sent"}
  PROVE  ParseInv'
  BY DEF ParseInv, Answering, Phases

\* A new request finds the object as init() leaves it.
LEMMA ParseReset ==
  ASSUME ParserReset, NextRequest(<<>>), pc' = "in"
  PROVE  ParseInv'
<1>1. PICK r \in Requests : req' = r /\ stream' = <<>> \o ToBytes(r)
  BY DEF NextRequest
<1>2. <<>> \o ToBytes(r) = ToBytes(r)
  <2>1. ToBytes(r) \in Seq(Byte)
    BY RequestsTyped
  <2> QED
    BY <2>1
<1>3. Fresh'
  BY <1>1, <1>2 DEF Fresh, ParserReset
<1>4. (Fresh => ParseInv)'
  BY FreshParses, PTL
<1> QED
  BY <1>3, <1>4

\* The invariant is inductive ...
LEMMA ParseInductive == Announced /\ IndexInv /\ ParseInv /\ [Next]_vars => ParseInv'
<1> SUFFICES ASSUME Announced, IndexInv, ParseInv, [Next]_vars PROVE ParseInv'
  OBVIOUS
<1>1. ASSUME NEW n \in 1..Len(stream), Read(n) PROVE ParseInv'
  BY <1>1, ParseRead
<1>2. ASSUME NEW n \in 1..Len(stream), BufferFull(n) PROVE ParseInv'
  BY <1>2, ParseQuiet DEF BufferFull, parserVars
<1>3. CASE ReadError
  BY <1>3, ParseQuiet DEF ReadError, RecvFails
<1>4. CASE ProcessRead
  BY <1>4, ParseProcessRead
<1>5. CASE Answer
  <2>1. /\ pc = "answer" /\ pc' \in {"out", "closed"}
        /\ UNCHANGED <<parserVars, req, stream>>
    BY <1>5 DEF Answer
  <2> QED
    BY <2>1, ParseQuiet DEF parserVars
<1>6. CASE Writable
  BY <1>6, ParseQuiet DEF Writable, parserVars
<1>7. ASSUME NEW n \in 1..(HeaderLen + FormLen + st_size), Write(n) PROVE ParseInv'
  <2>1. /\ pc = "write" /\ pc' \in {"write", "out", "sent"}
        /\ UNCHANGED <<code, m_url, m_linger, m_string>>
        /\ UNCHANGED <<req, stream>>
    BY <1>7 DEF Write, Writev, parserVars
  <2> QED
    BY <2>1, ParseQuiet
<1>8. CASE WriteError
  BY <1>8, ParseQuiet DEF WriteError, parserVars
<1>9. CASE Finish
  <2>1. CASE m_linger
    <3>1. stream = <<>>
      BY <1>9, <2>1 DEF Finish, ParseInv, Answering
    <3> QED
      BY <1>9, <2>1, <3>1, ParseReset DEF Finish
  <2>2. CASE ~m_linger
    BY <1>9, <2>2, ParseQuiet DEF Finish, parserVars
  <2> QED
    BY <2>1, <2>2
<1>10. CASE Abort
  BY <1>10, ParseQuiet DEF Abort, parserVars
<1>11. CASE Accept
  BY <1>11, ParseReset DEF Accept
<1>12. CASE UNCHANGED vars
  <2>1. UNCHANGED <<m_read_buf, m_read_idx, m_checked_idx, m_start_line, m_check_state,
                    m_content_length, m_url, m_linger, m_string, line_status, code, pc,
                    req, stream>>
    BY <1>12 DEF vars, parserVars, exchangeVars
  <2> QED
    BY <2>1 DEF ParseInv, Parsing, AtLine, InLine, InBody, HeadersRead, Answering, Phases
<1> QED
  BY <1>1, <1>2, <1>3, <1>4, <1>5, <1>6, <1>7, <1>8, <1>9, <1>10, <1>11, <1>12
     DEF Next, Sending

\* ... and holds of a new object.
LEMMA ParseInitially == Init => ParseInv
<1>1. Init => Fresh
  BY DEF Init, ParserInit, Fresh
<1> QED
  BY <1>1, FreshParses

\* A request that has arrived and is not answered is not complete or not
\* well-formed, or the loop has been in its body.
LEMMA ParseHolds == Announced /\ IndexInv /\ ParseInv /\ ~Exceeds(req) => AnsweredAsSent
<1> SUFFICES ASSUME Announced, IndexInv, ParseInv, ~Exceeds(req) PROVE AnsweredAsSent
  OBVIOUS
<1>1. UnderstoodAsSent
  BY DEF ParseInv, Answering, UnderstoodAsSent
<1>2. ASSUME pc = "in", stream = <<>> PROVE Expected(req) = "NO_REQUEST" \/ BodyCut
  <2>1. /\ req \in Requests /\ IsRequest(req) /\ AtLine
        /\ m_read_buf \o stream = ToBytes(req)
    BY <1>2, RequestsTyped DEF ParseInv, Parsing
  <2>2. PICK n : n = Len(req.headers) /\ n \in Nat
    BY <2>1, TextsOfRequest
  <2>3. PICK head : head = Len(HeadBytes(req))
    OBVIOUS
  <2>4. PICK read : read = m_read_idx /\ read \in Nat
    BY <1>2 DEF IndexInv, IndexOK
  <2>5. PICK body : body = Len(req.body) /\ body \in Nat
    <3>1. Len(req.body) \in Nat
      BY <2>1 DEF IsRequest
    <3> QED
      BY <3>1
  <2>6. read = head + body /\ head \in Nat
    <3>1. Len(ToBytes(req)) = head + body /\ head \in Nat
      BY <2>1, <2>3, <2>5, RequestLaid
    <3>2. Len(ToBytes(req)) = read + Len(stream)
      BY <1>2, <2>1, <2>4, Prefix
    <3> QED
      BY <1>2, <2>4, <2>5, <3>1, <3>2
  <2>7. ASSUME NEW i \in 1..(n + 2), InLine(i) PROVE IllFormed(Texts(req)[i])
    <3>1. Start(req, i + 1) <= head
      BY <2>1, <2>2, <2>3, RequestLaid
    <3>2. \E s \in Nat, l \in Nat : Start(req, i + 1) = s + l + 2
      <4>1. LaidAt(ToBytes(req), Start(req, i), Texts(req)[i], Start(req, i + 1))
        BY <2>1, <2>2, RequestLaid
      <4> QED
        BY <4>1, Zenon DEF LaidAt
    <3>3. ~(read < Start(req, i + 1))
      BY <2>5, <2>6, <3>1, <3>2
    <3> QED
      BY <1>2, <2>4, <2>7, <3>3 DEF InLine
  <2>8. ~IllFormed(Texts(req)[1]) /\ ~IllFormed(Texts(req)[n + 2])
    BY <2>1, <2>2, EdgesWellFormed
  <2>9. CASE m_check_state = "REQUESTLINE"
    <3>1. InLine(1) /\ 1 \in 1..(n + 2)
      BY <2>1, <2>2, <2>9 DEF AtLine
    <3> QED
      BY <2>7, <2>8, <3>1
  <2>10. CASE m_check_state = "HEADER"
    <3>1. PICK k \in 0..n : InLine(k + 2) /\ HeadersRead(k)
      BY <2>1, <2>2, <2>10 DEF AtLine
    <3>2. k + 2 \in 1..(n + 2)
      BY <2>2
    <3>3. IllFormed(Texts(req)[k + 2])
      BY <2>7, <3>1, <3>2
    <3>4. k # n
      BY <2>8, <3>3
    <3>5. k + 1 \in 1..n /\ k + 1 + 1 = k + 2
      BY <2>2, <3>4
    <3>6. Texts(req)[k + 1 + 1] = req.headers[k + 1]
      BY <2>1, <2>2, <3>5, TextsOfRequest
    <3>7. k + 1 \in DOMAIN req.headers
      BY <2>1, <2>2, <3>5 DEF IsRequest
    <3>8. ~Framed(req)
      BY <3>3, <3>5, <3>6, <3>7 DEF Framed
    <3> QED
      BY <3>1, <3>8 DEF Expected, HeadersRead
  <2>11. CASE m_check_state = "CONTENT"
    <3>1. InBody /\ HeadersRead(n)
      BY <2>1, <2>2, <2>11 DEF AtLine
    <3>2. m_checked_idx > head \/ read < head + m_content_length
      BY <1>2, <2>3, <2>4, <3>1 DEF InBody
    <3>3. CASE m_checked_idx > head
      BY <2>3, <2>11, <3>3 DEF BodyCut
    <3>4. CASE read < head + m_content_length
      <4>1. m_content_length = LengthOf(req)
        BY <2>1, <2>2, <3>1, LengthKnown DEF HeadersRead
      <4>2. LengthOf(req) \in Int
        <5>1. LengthUpTo(req, n, LengthOf(req)) /\ Announced
          BY <3>1, <4>1 DEF HeadersRead
        <5> QED
          BY <5>1, LengthTyped
      <4>3. body < LengthOf(req)
        BY <2>5, <2>6, <3>4, <4>1, <4>2
      <4>4. ~(req.line \notin DOMAIN RequestLines)
        BY <3>1 DEF HeadersRead
      <4> QED
        BY <2>5, <4>3, <4>4 DEF Expected
    <3> QED
      BY <3>2, <3>3, <3>4
  <2> QED
    BY <2>1, <2>9, <2>10, <2>11 DEF AtLine
<1> QED
  BY <1>1, <1>2 DEF AnsweredAsSent, UnansweredOnlyIf

\* Whatever is requested, with any headers and lengths, and wherever the reads cut
\* it: a request is understood as if it had come in one piece, and left unanswered
\* only if it is not complete or not well-formed, or its body came in pieces; for
\* requests whose body is no longer than they say, and where none is followed by
\* bytes that nobody announced.
THEOREM AnsweredAsAnnounced ==
  ASSUME Announced
  PROVE  Spec => [](~Exceeds(req) => AnsweredAsSent)
<1>1. IndexInv /\ ParseInv /\ [Next]_vars => ParseInv'
  BY ParseInductive
<1>2. IndexInv /\ ParseInv => (~Exceeds(req) => AnsweredAsSent)
  BY ParseHolds
<1> QED
  BY <1>1, <1>2, IndexInitially, IndexInductive, ParseInitially, PTL DEF Spec

=============================================================================
