-------------------------- MODULE TlsClientProofs --------------------------
(* That CInv is inductive, for any answers and any sizes of the buffers. *)
EXTENDS TlsClient, SequenceTheorems, TLAPS

-----------------------------------------------------------------------------
(* What fwrite does to the file.                                           *)

\* The file stays one of units of the answer, and grows by all of s unless short is set.
LEMMA Written ==
  ASSUME NEW S, file \in Seq(S), NEW s \in Seq(S), short \in BOOLEAN, fwrite(s)
  PROVE  /\ file' \in Seq(S) /\ short' \in BOOLEAN
         /\ ~short' => ~short /\ file' = file \o s
<1>1. PICK k \in 0..Len(s) :
        file' = file \o SubSeq(s, 1, k) /\ short' = (short \/ k < Len(s))
  BY DEF fwrite
<1>2. SubSeq(s, 1, k) \in Seq(S)
  BY <1>1, SubSeqProperties
<1>3. file' \in Seq(S)
  BY <1>1, <1>2, ConcatProperties
<1>4. short' \in BOOLEAN
  BY <1>1
<1>5. ASSUME ~short' PROVE ~short /\ file' = file \o s
  <2>1. ~short /\ ~(k < Len(s))
    BY <1>1, <1>5, Zenon
  <2>2. k = Len(s)
    BY <1>1, <2>1, LenProperties
  <2>3. SubSeq(s, 1, Len(s)) = s
    BY SubSeqFull
  <2> QED BY <1>1, <2>1, <2>2, <2>3
<1> QED BY <1>3, <1>4, <1>5

\* n units of the answer, the first of them f; and the last of them l.
From(f, n) == [j \in 1..n |-> f + j - 1]

UpTo(l, n) == [j \in 1..n |-> l - n + j]

\* A stretch of the answer and the one that follows it make one.
LEMMA Stretches ==
  ASSUME NEW b \in Nat, NEW n \in Nat, NEW from \in Nat, NEW r \in Nat, from + b + n = r + 1
  PROVE  From(from, b) \o UpTo(r, n) = From(from, b + n)
<1> USE DEF From, UpTo
<1> DEFINE f == [j \in 1..b |-> from + j - 1]
           s == [j \in 1..n |-> r - n + j]
<1>1. f \in Seq(Int) /\ s \in Seq(Int) /\ Len(f) = b /\ Len(s) = n
  OBVIOUS
<1>2. /\ Len(f \o s) = b + n /\ f \o s \in Seq(Int)
      /\ \A j \in 1..(b + n) : (f \o s)[j] = IF j <= b THEN f[j] ELSE s[j - b]
  <2> HIDE DEF f, s
  <2> QED BY <1>1, ConcatProperties
<1>3. ASSUME NEW j \in 1..(b + n) PROVE (f \o s)[j] = from + j - 1
  <2>1. CASE j <= b
    <3>1. (f \o s)[j] = f[j] /\ j \in 1..b
      BY <1>2, <1>3, <2>1
    <3> QED BY <3>1
  <2>2. CASE j > b
    <3>1. j - b \in 1..n /\ (f \o s)[j] = s[j - b]
      BY <1>2, <1>3, <2>2
    <3>2. s[j - b] = r - n + (j - b)
      BY <3>1
    <3>3. r - n + (j - b) = from + j - 1
      OBVIOUS
    <3> QED BY <3>1, <3>2, <3>3
  <2> QED BY <2>1, <2>2
<1>4. f \o s = [j \in 1..(b + n) |-> (f \o s)[j]]
  <2> DEFINE t == f \o s
  <2>1. t \in Seq(Int) /\ Len(t) = b + n
    BY <1>2
  <2> HIDE DEF t
  <2>2. t = [j \in 1..(b + n) |-> t[j]]
    BY <2>1, LenProperties
  <2> QED BY <2>2 DEF t
<1> QED BY <1>3, <1>4

\* b units behind n are the last b of h + b units only if n is h.
LEMMA Seam ==
  ASSUME NEW h \in Nat, NEW b \in Nat, NEW n \in Nat, b = h + b - (n + 1) + 1
  PROVE  n = h
OBVIOUS

\* The n units up to r are units of an answer of t.
LEMMA UnitsOf ==
  ASSUME NEW t \in Nat, NEW r \in 0..t, NEW n \in Nat, n <= r
  PROVE  [j \in 1..n |-> r - n + j] \in Seq(1..t)
<1>1. \A j \in 1..n : r - n + j \in 1..t
  OBVIOUS
<1> QED BY <1>1

LEMMA SumBound ==
  ASSUME NEW a \in Nat, NEW b \in Nat
  PROVE  b <= a + b
OBVIOUS

LEMMA AnswerSize ==
  ASSUME answer \in Answer
  PROVE  answer.head \in Nat /\ answer.body \in Nat /\ Total \in Nat
         /\ answer.length \in Nat \cup {NoLength}
BY DEF Answer, Total

\* What a read leaves behind.
LEMMA ReadGives ==
  ASSUME CTypeOK, NEW n \in Nat, mbedtls_ssl_read(n)
  PROVE  /\ ret' \in Results /\ ret' <= n /\ link' \in {"open", "closed", "failed"}
         /\ received' = received + (IF ret' > 0 THEN ret' ELSE 0)
         /\ received' \in 0..Total /\ UNCHANGED answer
<1> USE DEF Results, Error, CloseNotify
<1>1. received \in 0..Total /\ Total \in Nat
  BY AnswerSize DEF CTypeOK
<1>2. CASE link = "open" /\ (\E k \in 1..Smaller(n, Total - received) :
              ret' = k /\ received' = received + k) /\ UNCHANGED <<answer, link>>
  <2>1. PICK k \in 1..Smaller(n, Total - received) : ret' = k /\ received' = received + k
    BY <1>2
  <2>2. k \in 1..n /\ received + k <= Total
    BY <1>1, <2>1 DEF Smaller
  <2> QED BY <1>1, <1>2, <2>1, <2>2
<1>3. CASE ret' \in {0, CloseNotify, Error} /\ UNCHANGED <<answer, received>>
           /\ link' \in {"closed", "failed"}
  <2>1. ret' \in {0, -1, -2} /\ received' = received + 0
    BY <1>1, <1>3
  <2>2. ret' <= n /\ (IF ret' > 0 THEN ret' ELSE 0) = 0
    BY <2>1
  <2>3. received' = received /\ received' \in 0..Total
    BY <1>1, <1>3
  <2>4. ret' \in Results
    BY <2>1
  <2>5. received' = received + (IF ret' > 0 THEN ret' ELSE 0)
    BY <2>1, <2>2
  <2>6. UNCHANGED answer /\ link' \in {"open", "closed", "failed"}
    BY <1>3
  <2> QED BY <2>2, <2>3, <2>4, <2>5, <2>6
<1> QED BY <1>2, <1>3 DEF mbedtls_ssl_read

-----------------------------------------------------------------------------
(* The steps, each of which keeps CInv.                                    *)

LEMMA CStart == CInit => CInv
<1> SUFFICES ASSUME CInit PROVE CInv
  OBVIOUS
<1>1. CTypeOK
  <2>1. Total \in Nat
    BY AnswerAssumption DEF CInit, Total, Answer
  <2>2. store \in BOOLEAN /\ answer \in Answer /\ file \in Seq(1..Total)
    BY BuildAssumption, AnswerAssumption DEF CInit
  <2>3. 0 \in 0..Total /\ 0 \in 0..RequestLen /\ 0 \in Results
    BY <2>1, SizeAssumption DEF Results
  <2> QED BY <2>2, <2>3 DEF CInit, CTypeOK, Places
<1>2. HeadInv
  BY SizeAssumption DEF CInit, HeadInv, Early, Stored
<1> QED BY <1>1, <1>2
        DEF CInit, CInv, HeldInv, HeldAt, ExitInv, StoredInOrder, Downloaded, Stored, SizeOkIsBody,
            CleansUp, FailuresTold

LEMMA StartStep == CInv /\ app_main => CInv'
<1> SUFFICES ASSUME CInv, app_main PROVE CInv'
  OBVIOUS
<1> USE DEF app_main, netVars, headVars, fileVars, taskVars
<1>1. CTypeOK'
  BY DEF CInv, CTypeOK, Places, Total, Tls
<1>2. HeadInv'
  BY DEF CInv, HeadInv, Early, Stored
<1>3. HeldInv'
  BY DEF HeldInv, HeldAt
<1>4. said' = {}
  BY DEF CInv, HeadInv, Early
<1> QED BY <1>1, <1>2, <1>3, <1>4
        DEF CInv, ExitInv, StoredInOrder, Downloaded, Stored, SizeOkIsBody, CleansUp, FailuresTold

\* The steps before the answer is read.
Opening == Configure \/ mbedtls_net_connect \/ mbedtls_ssl_handshake \/ SendRequest \/ Allocate

LEMMA OpeningStep == CInv /\ Opening => CInv'
<1> SUFFICES ASSUME CInv, Opening PROVE CInv'
  OBVIOUS
<1> USE DEF Opening, Configure, mbedtls_net_connect, mbedtls_ssl_handshake, SendRequest, Allocate,
            GotoExit, netVars, headVars, fileVars, taskVars
<1>1. CTypeOK'
  <2> ret \in Results /\ written_bytes \in 0..RequestLen
    BY DEF CInv, CTypeOK
  <2>1. ret' \in Results /\ pc' \in Places /\ written_bytes' \in 0..RequestLen
    BY SizeAssumption DEF Places, Results, Error, CloseNotify
  <2>2. UNCHANGED <<answer, received, link, file, short, said, store>>
    OBVIOUS
  <2> QED BY <2>1, <2>2 DEF CInv, CTypeOK, Total, Tls
<1>2. HeadInv'
  <2>1. 0 < HTTP_HDR_BUF_SIZE - 1
    BY SizeAssumption
  <2>2. written_bytes \in 0..RequestLen /\ HeadInv
    BY DEF CInv, CTypeOK
  <2> QED BY <2>1, <2>2, SizeAssumption DEF HeadInv, Early, Stored
<1>3. HeldInv'
  BY DEF CInv, HeldInv, HeldAt
<1>4. ExitInv' /\ said' = {}
  BY DEF CInv, HeadInv, Early, ExitInv, Error
<1>5. ~Downloaded'
  <2>1. written_bytes < RequestLen => written_bytes # RequestLen
    <3>1. ~(RequestLen < RequestLen)
      BY SizeAssumption
    <3> QED BY <3>1, Zenon
  <2>2. pc' = "exit" => written_bytes' # RequestLen
    BY <2>1 DEF CInv, HeadInv
  <2>3. pc' \notin Stored \cup {"deleted"}
    BY DEF Stored
  <2> QED BY <2>2, <2>3 DEF Downloaded
<1> QED BY <1>1, <1>2, <1>3, <1>4, <1>5
        DEF CInv, StoredInOrder, SizeOkIsBody, HeldInv, HeldAt, CleansUp, FailuresTold

\* The steps after it, but for the two that report something.
Closing == BodyRead \/ HashSetup \/ HashFile \/ mbedtls_ssl_close_notify

LEMMA ClosingStep == CInv /\ Closing => CInv'
<1> SUFFICES ASSUME CInv, Closing PROVE CInv'
  OBVIOUS
<1> USE DEF Closing, BodyRead, HashSetup, HashFile, mbedtls_ssl_close_notify,
            netVars, headVars, fileVars, taskVars
<1>1. CTypeOK'
  BY DEF CInv, CTypeOK, Places, Total, Tls, HashFailed
<1>2. HeadInv'
  BY DEF CInv, HeadInv, Early, Stored
<1>3. HeldInv'
  BY DEF CInv, HeldInv, HeldAt, Tls, HashFailed
<1>4. ExitInv'
  <2>1. pc \in Stored => ~(written_bytes < RequestLen)
    BY SizeAssumption DEF CInv, HeadInv
  <2> QED BY <2>1 DEF CInv, ExitInv, Stored
<1>5. StoredInOrder'
  BY DEF CInv, StoredInOrder, Downloaded, Stored, FirstStored
<1>6. SizeOkIsBody'
  BY DEF CInv, SizeOkIsBody, Truthful
<1>7. CleansUp' /\ FailuresTold'
  BY <1>3 DEF CInv, HeldInv, HeldAt, CleansUp, FailuresTold, ExitInv
<1> QED BY <1>1, <1>2, <1>3, <1>4, <1>5, <1>6, <1>7 DEF CInv

LEMMA ExitStep == CInv /\ Exit => CInv'
<1> SUFFICES ASSUME CInv, Exit PROVE CInv'
  OBVIOUS
<1> USE DEF Exit, netVars, headVars, fileVars, taskVars
<1>1. CTypeOK'
  BY DEF CInv, CTypeOK, Places, Total, Tls, HashFailed
<1>2. HeadInv'
  BY DEF CInv, HeadInv, Early, Stored
<1>3. HeldInv'
  BY DEF CInv, HeldInv, HeldAt, Tls, HashFailed
<1>4. ExitInv'
  BY DEF ExitInv
<1>5. StoredInOrder'
  BY DEF CInv, StoredInOrder, Downloaded, Stored, FirstStored
<1>6. SizeOkIsBody'
  BY DEF CInv, SizeOkIsBody, Truthful
<1>7. CleansUp' /\ FailuresTold'
  BY <1>3 DEF CInv, HeldInv, HeldAt, CleansUp, FailuresTold, ExitInv
<1> QED BY <1>1, <1>2, <1>3, <1>4, <1>5, <1>6, <1>7 DEF CInv

LEMMA HeaderStep == CInv /\ ReadHeader => CInv'
<1> SUFFICES ASSUME CInv, ReadHeader PROVE CInv'
  OBVIOUS
<1> USE DEF ReadHeader, headVars, fileVars, taskVars
<1> DEFINE n == Smaller(Space, HTTP_HDR_READ_CHUNK)
<1>1. /\ pc = "header" /\ hdr_len \in Nat /\ hdr_len < HTTP_HDR_BUF_SIZE - 1
      /\ received = hdr_len
  BY DEF CInv, CTypeOK, HeadInv
<1>2. n \in Nat /\ hdr_len + n <= HTTP_HDR_BUF_SIZE - 1
  BY <1>1, SizeAssumption DEF Smaller, Space
<1>3. /\ ret' \in Results /\ ret' <= n /\ link' \in {"open", "closed", "failed"}
      /\ received' = received + (IF ret' > 0 THEN ret' ELSE 0)
      /\ received' \in 0..Total /\ UNCHANGED answer
  <2> mbedtls_ssl_read(n) /\ CTypeOK
    BY DEF CInv
  <2> HIDE DEF n
  <2> QED BY <1>2, ReadGives
<1>4. received' = hdr_len' /\ hdr_len' \in Nat /\ hdr_len' <= HTTP_HDR_BUF_SIZE - 1
  <2> DEFINE k == IF ret' > 0 THEN ret' ELSE 0
  <2>1. ret' \in Int /\ ret' <= n
    BY <1>3 DEF Results, Error, CloseNotify
  <2>2. k \in Nat /\ k <= n
    <3> HIDE DEF n
    <3> QED BY <1>2, <2>1
  <2>3. hdr_len' = hdr_len + k /\ received' = received + k
    BY <1>3
  <2> HIDE DEF n, k
  <2> QED BY <1>1, <1>2, <2>2, <2>3, SizeAssumption
<1>5. pc' \in {"header", "parse"} /\ (pc' = "header" => hdr_len' < HTTP_HDR_BUF_SIZE - 1)
  BY <1>4, SizeAssumption
<1>6. CTypeOK'
  <2>1. UNCHANGED <<answer, file, short, said, store, held, ssl_setup_done, server_fd>>
    BY <1>3
  <2>2. Total' = Total
    BY <1>3 DEF Total
  <2> QED BY <1>3, <1>4, <1>5, <2>1, <2>2 DEF CInv, CTypeOK, Places
<1>7. HeadInv'
  <2>1. hdr_len' < HTTP_HDR_BUF_SIZE
    BY <1>4, SizeAssumption
  <2> QED BY <1>1, <1>3, <1>4, <1>5, <2>1 DEF CInv, HeadInv, Early, Stored
<1>8. HeldInv'
  BY <1>1, <1>5 DEF CInv, HeldInv, HeldAt
<1>9. said' = {}
  BY <1>1 DEF CInv, HeadInv
<1> QED BY <1>5, <1>6, <1>7, <1>8, <1>9
        DEF CInv, ExitInv, StoredInOrder, Downloaded, Stored, SizeOkIsBody, CleansUp, FailuresTold

LEMMA ParseStep == CInv /\ ParseHeader => CInv'
<1> SUFFICES ASSUME CInv, ParseHeader PROVE CInv'
  OBVIOUS
<1> USE DEF ParseHeader, netVars, taskVars
<1> DEFINE raw == [j \in 1..hdr_len |-> j]
<1>1. /\ pc = "parse" /\ hdr_len \in Nat /\ received = hdr_len /\ received \in 0..Total
      /\ body_bytes = 0 /\ file = <<>> /\ short = FALSE /\ content_length = NoLength
      /\ answer \in Answer /\ store \in BOOLEAN /\ hdr_len < HTTP_HDR_BUF_SIZE
      /\ written_bytes = RequestLen /\ said = {}
  BY DEF CInv, CTypeOK, HeadInv
<1>2. raw \in Seq(1..Total) /\ Len(raw) = hdr_len
  <2>1. Total \in Nat
    BY <1>1, AnswerSize
  <2> QED BY <1>1, <2>1
<1>3. headers_found' \in BOOLEAN /\ pc' \in {"aborted", "body"}
      /\ content_length' \in Nat \cup {NoLength}
      /\ (content_length' # NoLength =>
            headers_found' /\ (answer.head > 0 /\ hdr_len >= answer.head
                                 => content_length' = answer.length))
  <2>1. answer.length \in Nat \cup {NoLength} /\ 0..answer.length \subseteq Nat
    BY <1>1, AnswerSize DEF NoLength
  <2> QED BY <2>1
<1>4. CASE pc' = "aborted"
  <2>1. UNCHANGED <<body_bytes, file, short, held>>
    BY <1>4 DEF fileVars
  <2>2. CTypeOK'
    BY <1>1, <1>3, <1>4, <2>1 DEF CInv, CTypeOK, Places, Total
  <2>3. HeadInv'
    BY <1>1, <1>3, <1>4 DEF HeadInv, Early, Stored
  <2> QED BY <1>1, <1>4, <2>2, <2>3
          DEF CInv, HeldInv, ExitInv, StoredInOrder, Downloaded, Stored, SizeOkIsBody,
              CleansUp, FailuresTold
<1>5. CASE pc' = "body"
  <2>1. body_bytes' = (IF headers_found' THEN 0 ELSE hdr_len) /\ body_bytes' \in Nat
    BY <1>1, <1>5 DEF RawCount
  <2>2. /\ file' \in Seq(1..Total) /\ short' \in BOOLEAN
        /\ store /\ ~short' => file' = IF headers_found' THEN <<>> ELSE raw
    <3>1. CASE store /\ ~headers_found'
      <4>1. fwrite(raw)
        BY <1>5, <3>1
      <4>2. file \in Seq(1..Total)
        BY <1>1
      <4>3. /\ file' \in Seq(1..Total) /\ short' \in BOOLEAN
            /\ ~short' => ~short /\ file' = file \o raw
        <5> HIDE DEF raw
        <5> QED BY <1>1, <1>2, <4>1, <4>2, Written
      <4>4. <<>> \o raw = raw
        <5> HIDE DEF raw
        <5> QED BY <1>2, ConcatEmptySeq
      <4> QED BY <1>1, <3>1, <4>3, <4>4
    <3>2. CASE ~(store /\ ~headers_found')
      <4>1. UNCHANGED <<file, short>>
        BY <1>5, <3>2
      <4>2. store => headers_found'
        BY <3>2
      <4>3. file' = <<>> /\ short' = FALSE
        BY <1>1, <4>1
      <4>4. <<>> \in Seq(1..Total)
        OBVIOUS
      <4>5. file' \in Seq(1..Total) /\ short' \in BOOLEAN
        BY <4>3, <4>4
      <4>6. ASSUME store PROVE file' = IF headers_found' THEN <<>> ELSE raw
        <5> HIDE DEF raw
        <5> QED BY <4>2, <4>3, <4>6
      <4> QED BY <4>5, <4>6
    <3> QED BY <3>1, <3>2
  <2>3. CTypeOK'
    <3>1. held' = held \cup (IF store THEN {"f"} ELSE {})
      BY <1>5
    <3> QED BY <1>1, <1>3, <1>5, <2>1, <2>2, <3>1 DEF CInv, CTypeOK, Places, Total
  <2>4. HeadInv'
    BY <1>1, <1>3, <1>5 DEF HeadInv, Early, Stored
  <2>5. StoredInOrder'
    <3>1. body_bytes' = received' - FirstStored' + 1
      BY <1>1, <1>3, <2>1 DEF FirstStored
    <3>2. CASE headers_found'
      <4>1. [j \in 1..0 |-> FirstStored' + j - 1] = <<>>
        OBVIOUS
      <4> QED BY <2>1, <2>2, <3>1, <3>2, <4>1 DEF StoredInOrder, Downloaded
    <3>3. CASE ~headers_found'
      <4>1. [j \in 1..body_bytes' |-> FirstStored' + j - 1] = raw
        BY <1>1, <2>1, <3>3 DEF FirstStored
      <4> QED BY <2>2, <3>1, <3>3, <4>1 DEF StoredInOrder, Downloaded
    <3> QED BY <3>2, <3>3
  <2>6. HeldInv'
    BY <1>1, <1>5 DEF CInv, HeldInv, HeldAt
  <2> QED BY <1>1, <1>5, <2>3, <2>4, <2>5, <2>6
          DEF CInv, ExitInv, SizeOkIsBody, CleansUp, FailuresTold
<1> QED BY <1>3, <1>4, <1>5

LEMMA BodyStep == CInv /\ ReadBody => CInv'
<1> SUFFICES ASSUME CInv, ReadBody PROVE CInv'
  OBVIOUS
<1> DEFINE k == IF ret' > 0 THEN ret' ELSE 0
<1>0. /\ pc = "body" /\ mbedtls_ssl_read(READ_BUF_SIZE) /\ body_bytes' = body_bytes + k
      /\ pc' \in {"body", "close"}
      /\ store /\ ret' > 0 => fwrite(Latest(ret'))
      /\ ~(store /\ ret' > 0) => UNCHANGED <<file, short>>
      /\ UNCHANGED <<store, ssl_setup_done, server_fd, hdr_len, content_length, headers_found,
                     written_bytes, held, said>>
  BY DEF ReadBody, headVars, taskVars
<1>1. /\ received \in 0..Total /\ store \in BOOLEAN /\ said = {} /\ answer \in Answer
      /\ short \in BOOLEAN /\ file \in Seq(1..Total) /\ FirstStored \in Nat
      /\ body_bytes \in Nat /\ body_bytes = received - FirstStored + 1
      /\ (store /\ ~short => file = [j \in 1..body_bytes |-> FirstStored + j - 1])
  <2>1. pc = "body" /\ CTypeOK /\ HeadInv /\ StoredInOrder
    BY <1>0 DEF CInv
  <2>2. /\ received \in 0..Total /\ store \in BOOLEAN /\ answer \in Answer /\ short \in BOOLEAN
        /\ file \in Seq(1..Total) /\ body_bytes \in Nat
    BY <2>1 DEF CTypeOK
  <2>3. FirstStored \in Nat
    <3>1. hdr_len \in Nat
      BY <2>1 DEF CTypeOK
    <3> QED BY <3>1 DEF FirstStored
  <2>4. said = {}
    BY <2>1 DEF HeadInv
  <2>5. /\ body_bytes = received - FirstStored + 1
        /\ (store /\ ~short => file = [j \in 1..body_bytes |-> FirstStored + j - 1])
    BY <2>1 DEF StoredInOrder, Downloaded, Stored
  <2> QED BY <2>1, <2>2, <2>3, <2>4, <2>5
<1>2. /\ ret' \in Results /\ link' \in {"open", "closed", "failed"}
      /\ received' = received + k
      /\ received' \in 0..Total /\ UNCHANGED answer
  <2>1. READ_BUF_SIZE \in Nat /\ CTypeOK
    BY SizeAssumption DEF CInv
  <2> QED BY <1>0, <2>1, ReadGives
<1>3. k \in Nat
  BY <1>2 DEF Results, Error, CloseNotify
<1>4. Total \in Nat /\ Total' = Total /\ FirstStored' = FirstStored
  BY <1>0, <1>1, <1>2, AnswerSize DEF Total, FirstStored
<1>5. /\ file' \in Seq(1..Total) /\ short' \in BOOLEAN
      /\ store /\ ~short' => file' = [j \in 1..body_bytes' |-> FirstStored + j - 1]
  <2>1. CASE store /\ ret' > 0
    <3> DEFINE new == Latest(ret')
    <3>1. ret' \in Nat /\ k = ret'
      BY <1>2, <2>1 DEF Results, Error, CloseNotify
    <3>2. received \in Nat /\ received' = received + ret' /\ received' \in Nat
      <4>1. received' = received + ret' /\ received \in 0..Total /\ received' \in 0..Total
        BY <1>1, <1>2, <3>1
      <4> QED BY <1>4, <4>1
    <3>3. new = [j \in 1..ret' |-> received' - ret' + j]
      BY DEF Latest
    <3>4. new \in Seq(1..Total)
      <4>1. [j \in 1..ret' |-> received' - ret' + j] \in Seq(1..Total)
        <5>1. ret' <= received + ret'
          BY <3>1, <3>2, SumBound
        <5>2. ret' <= received'
          BY <3>2, <5>1
        <5> HIDE DEF k, new
        <5> QED BY <1>2, <1>4, <3>1, <5>2, UnitsOf
      <4> QED BY <3>3, <4>1
    <3>5. /\ file' \in Seq(1..Total) /\ short' \in BOOLEAN
          /\ ~short' => ~short /\ file' = file \o new
      <4>1. fwrite(new)
        BY <1>0, <2>1
      <4> HIDE DEF new, k
      <4> QED BY <1>1, <3>4, <4>1, Written
    <3>6. ASSUME ~short' PROVE file' = [j \in 1..body_bytes' |-> FirstStored + j - 1]
      <4>1. file' = file \o new /\ file = [j \in 1..body_bytes |-> FirstStored + j - 1]
        BY <1>1, <2>1, <3>5, <3>6
      <4>2. FirstStored + body_bytes + ret' = received' + 1
        <5>1. FirstStored + body_bytes = received + 1
          BY <1>1, <3>2
        <5> QED BY <3>1, <3>2, <5>1
      <4>3. body_bytes' = body_bytes + ret'
        BY <1>0, <3>1
      <4>4. /\ body_bytes \in Nat /\ ret' \in Nat /\ FirstStored \in Nat /\ received' \in Nat
            /\ file \in Seq(1..Total)
        BY <1>1, <3>1, <3>2
      <4>5. file \o new = [j \in 1..(body_bytes + ret') |-> FirstStored + j - 1]
        <5>1. From(FirstStored, body_bytes) \o UpTo(received', ret')
              = From(FirstStored, body_bytes + ret')
          BY <4>2, <4>4, Stretches
        <5>2. file = From(FirstStored, body_bytes) /\ new = UpTo(received', ret')
          BY <3>3, <4>1 DEF From, UpTo
        <5>3. From(FirstStored, body_bytes + ret')
              = [j \in 1..(body_bytes + ret') |-> FirstStored + j - 1]
          BY DEF From
        <5> HIDE DEF new, k
        <5> QED BY <5>1, <5>2, <5>3
      <4> QED BY <4>1, <4>3, <4>5
    <3> QED BY <3>5, <3>6
  <2>2. CASE ~(store /\ ret' > 0)
    <3>1. UNCHANGED <<file, short>>
      BY <1>0, <2>2
    <3>2. store => k = 0
      BY <2>2
    <3>3. store => body_bytes' = body_bytes
      BY <1>0, <1>1, <3>2
    <3> QED BY <1>1, <3>1, <3>3
  <2> QED BY <2>1, <2>2
<1>6. body_bytes' \in Nat /\ body_bytes' = received' - FirstStored' + 1
  <2> HIDE DEF k
  <2> QED BY <1>0, <1>1, <1>2, <1>3, <1>4
<1>7. CTypeOK'
  BY <1>0, <1>2, <1>4, <1>5, <1>6 DEF CInv, CTypeOK, Places
<1>8. HeadInv'
  BY <1>0, <1>1, <1>2 DEF CInv, HeadInv, Early, Stored
<1>9. StoredInOrder'
  BY <1>0, <1>4, <1>5, <1>6 DEF StoredInOrder, Downloaded
<1>10. HeldInv'
  BY <1>0 DEF CInv, HeldInv, HeldAt
<1> QED BY <1>0, <1>1, <1>7, <1>8, <1>9, <1>10
        DEF CInv, ExitInv, SizeOkIsBody, CleansUp, FailuresTold

\* Where "File size OK" is reported.
LEMMA SizeFits ==
  ASSUME NEW h \in Nat, NEW b \in Nat, NEW l \in Nat, NEW r \in Nat,
         r <= h + b, l >= h, b = r - (l + 1) + 1
  PROVE  l = h
OBVIOUS

LEMMA Shifted ==
  ASSUME NEW h \in Nat, NEW b \in Nat
  PROVE  [j \in 1..b |-> h + 1 + j - 1] = [j \in 1..b |-> h + j]
<1>1. \A j \in 1..b : h + 1 + j - 1 = h + j
  OBVIOUS
<1> QED BY <1>1

LEMMA CloseStep == CInv /\ CloseFile => CInv'
<1> SUFFICES ASSUME CInv, CloseFile PROVE CInv'
  OBVIOUS
<1>0. /\ pc = "close" /\ pc' \in {"verify", "notify"}
      /\ ret' = IF ret = CloseNotify THEN 0 ELSE ret
      /\ held' = held \ {"f", "hdr_buf", "dl_buf"}
      /\ said' = said \cup (IF store /\ SizeOk THEN {"size OK"} ELSE {})
      /\ UNCHANGED <<netVars, headVars, fileVars, taskVars, written_bytes>>
  BY DEF CloseFile
<1> USE DEF netVars, headVars, fileVars, taskVars
<1>1. /\ received \in 0..Total /\ store \in BOOLEAN /\ said = {}
      /\ answer \in Answer /\ ret \in Results /\ hdr_len \in Nat /\ body_bytes \in Nat
      /\ body_bytes = received - FirstStored + 1
      /\ (store /\ ~short => file = [j \in 1..body_bytes |-> FirstStored + j - 1])
      /\ (content_length # NoLength =>
            headers_found /\ (answer.head > 0 /\ hdr_len >= answer.head => content_length = answer.length))
  <2>1. CTypeOK /\ HeadInv /\ StoredInOrder
    BY DEF CInv
  <2>2. /\ received \in 0..Total /\ store \in BOOLEAN /\ answer \in Answer /\ ret \in Results
        /\ hdr_len \in Nat /\ body_bytes \in Nat
    BY <2>1 DEF CTypeOK
  <2>3. said = {} /\ (content_length # NoLength =>
            headers_found /\ (answer.head > 0 /\ hdr_len >= answer.head => content_length = answer.length))
    BY <1>0, <2>1 DEF HeadInv
  <2>4. /\ body_bytes = received - FirstStored + 1
        /\ (store /\ ~short => file = [j \in 1..body_bytes |-> FirstStored + j - 1])
    BY <1>0, <2>1 DEF StoredInOrder, Downloaded, Stored
  <2> QED BY <2>2, <2>3, <2>4
<1>2. CTypeOK'
  <2>1. ret' \in Results
    BY <1>0, <1>1 DEF Results
  <2> QED BY <1>0, <2>1 DEF CInv, CTypeOK, Places, Total
<1>3. HeadInv'
  BY <1>0, <1>1 DEF CInv, HeadInv, Early, Stored
<1>4. StoredInOrder'
  BY <1>0, <1>1 DEF StoredInOrder, FirstStored
<1>5. ASSUME "size OK" \in said', content_length >= 0, hdr_len >= answer.head, Truthful, ~short
      PROVE  file = [j \in 1..answer.body |-> answer.head + j]
  <2>1. store /\ SizeOk /\ answer.head > 0
    BY <1>0, <1>1, <1>5 DEF Truthful
  <2>2. headers_found /\ content_length = answer.length /\ body_bytes = content_length
        /\ content_length # NoLength
    <3>1. content_length \in Nat \cup {-1} /\ content_length >= 0
      BY <1>5 DEF CInv, CTypeOK, NoLength
    <3>2. content_length # -1 /\ ~(content_length < 0)
      BY <3>1
    <3> QED BY <1>1, <1>5, <2>1, <3>2 DEF SizeOk, NoLength
  <2>3. answer.length = answer.body /\ answer.head \in Nat /\ answer.body \in Nat
    BY <1>1, <1>5, <2>2, AnswerSize DEF Truthful
  <2>4. FirstStored = hdr_len + 1 /\ body_bytes = answer.body
    BY <2>2, <2>3 DEF FirstStored
  <2>5. received \in Nat /\ received <= answer.head + answer.body
    <3>1. answer.head + answer.body \in Nat
      BY <2>3
    <3> QED BY <1>1, <3>1 DEF Total
  <2>6. hdr_len = answer.head
    <3>1. answer.body = received - (hdr_len + 1) + 1
      BY <1>1, <2>4
    <3> QED BY <1>1, <1>5, <2>3, <2>5, <3>1, SizeFits
  <2>7. file = [j \in 1..answer.body |-> answer.head + 1 + j - 1]
    <3>1. file = [j \in 1..body_bytes |-> FirstStored + j - 1]
      BY <1>1, <1>5, <2>1
    <3> QED BY <2>4, <2>6, <3>1
  <2>8. [j \in 1..answer.body |-> answer.head + 1 + j - 1]
          = [j \in 1..answer.body |-> answer.head + j]
    BY <2>3, Shifted
  <2> QED BY <2>7, <2>8
<1>6. SizeOkIsBody'
  BY <1>0, <1>5 DEF SizeOkIsBody, Truthful
<1>7. HeldInv'
  BY <1>0, <1>1 DEF CInv, HeldInv, HeldAt, Tls
<1> QED BY <1>0, <1>2, <1>3, <1>4, <1>6, <1>7 DEF CInv, ExitInv, CleansUp, FailuresTold

LEMMA CUnchanged == CInv /\ UNCHANGED cvars => CInv'
<1> SUFFICES ASSUME CInv, UNCHANGED cvars PROVE CInv'
  OBVIOUS
<1> USE DEF cvars, netVars, headVars, fileVars, taskVars
<1>1. CTypeOK'
  BY DEF CInv, CTypeOK, Total
<1>2. HeadInv'
  BY DEF CInv, HeadInv
<1>3. HeldInv' /\ ExitInv'
  BY DEF CInv, HeldInv, HeldAt, ExitInv
<1>4. StoredInOrder'
  BY DEF CInv, StoredInOrder, Downloaded, FirstStored
<1>5. SizeOkIsBody'
  BY DEF CInv, SizeOkIsBody, Truthful
<1>6. CleansUp' /\ FailuresTold'
  BY DEF CInv, CleansUp, FailuresTold
<1> QED BY <1>1, <1>2, <1>3, <1>4, <1>5, <1>6 DEF CInv

-----------------------------------------------------------------------------
(* Theorems.                                                               *)

\* https_get_task: CInv holds in every state, for any answers and any sizes.
THEOREM CInvariant == CSpec => []CInv
<1>1. CInit => CInv
  BY CStart
<1>2. CInv /\ [CNext]_cvars => CInv'
  <2> SUFFICES ASSUME CInv, [CNext]_cvars PROVE CInv'
    OBVIOUS
  <2>1. CASE app_main \/ Opening
    BY <2>1, StartStep, OpeningStep
  <2>2. CASE ReadHeader \/ ParseHeader
    BY <2>2, HeaderStep, ParseStep
  <2>3. CASE ReadBody \/ CloseFile
    BY <2>3, BodyStep, CloseStep
  <2>4. CASE Closing \/ Exit
    BY <2>4, ClosingStep, ExitStep
  <2>5. CASE UNCHANGED cvars
    BY <2>5, CUnchanged
  <2> QED BY <2>1, <2>2, <2>3, <2>4, <2>5 DEF CNext, https_get_task, Opening, Closing
<1> QED BY <1>1, <1>2, PTL DEF CSpec

\* https_get_task: the type of every variable, for any answers and any sizes.
THEOREM CTypeCorrect == CSpec => []CTypeOK
<1>1. CInv => CTypeOK
  BY DEF CInv
<1> QED BY <1>1, CInvariant, PTL

\* The header loop: the string's terminator is written inside hdr_buf.
THEOREM CHeaderInBuffer == CSpec => []HeaderInBuffer
<1>1. CInv => HeaderInBuffer
  BY DEF CInv, HeadInv, HeaderInBuffer
<1> QED BY <1>1, CInvariant, PTL

\* Both loops: what is stored is a stretch of the answer, and body_bytes is its length.
THEOREM CStoredInOrder == CSpec => []StoredInOrder
<1>1. CInv => StoredInOrder
  BY DEF CInv
<1> QED BY <1>1, CInvariant, PTL

\* The size check: next to a Content-Length, "File size OK" is said of the body alone.
THEOREM CSizeOkIsBody == CSpec => []SizeOkIsBody
<1>1. CInv => SizeOkIsBody
  BY DEF CInv
<1> QED BY <1>1, CInvariant, PTL

\* The seam of the two loops: of a download that ran to its end the body is in the file just
\* when the last read of the header loop ended with the header.
THEOREM CStoresWhatIsLeft == CSpec => []StoresWhatIsLeft
<1>1. CInv => StoresWhatIsLeft
  <2> SUFFICES ASSUME CInv, pc = "deleted", store, headers_found, Truthful, ~short,
                      received = Total
               PROVE  file = [j \in 1..answer.body |-> answer.head + j]
                        <=> hdr_len = answer.head
    BY DEF StoresWhatIsLeft
  <2>1. /\ answer.head \in Nat /\ answer.body \in Nat /\ answer.head > 0
        /\ received = answer.head + answer.body /\ hdr_len \in Nat /\ body_bytes \in Nat
        /\ written_bytes \in 0..RequestLen
    BY AnswerSize DEF CInv, CTypeOK, Truthful, Total
  <2>2. written_bytes = RequestLen
    BY <2>1, SizeAssumption DEF CInv, HeadInv
  <2>3. /\ body_bytes = answer.head + answer.body - (hdr_len + 1) + 1
        /\ file = [j \in 1..body_bytes |-> hdr_len + 1 + j - 1]
    BY <2>1, <2>2 DEF CInv, StoredInOrder, Downloaded, FirstStored
  <2>4. ASSUME hdr_len = answer.head PROVE file = [j \in 1..answer.body |-> answer.head + j]
    <3>1. body_bytes = answer.body
      BY <2>1, <2>3, <2>4
    <3> QED BY <2>1, <2>3, <2>4, <3>1, Shifted
  <2>5. ASSUME file = [j \in 1..answer.body |-> answer.head + j] PROVE hdr_len = answer.head
    <3>1. 1..body_bytes = 1..answer.body
      BY <2>3, <2>5, Zenon
    <3>2. body_bytes = answer.body
      BY <2>1, <3>1
    <3>3. answer.body = answer.head + answer.body - (hdr_len + 1) + 1
      BY <2>3, <3>2
    <3> QED BY <2>1, <3>3, Seam
  <2> QED BY <2>4, <2>5
<1> QED BY <1>1, CInvariant, PTL

\* The gotos and the common exit: everything is released on every path.
THEOREM CCleansUp == CSpec => []CleansUp
<1>1. CInv => CleansUp
  BY DEF CInv
<1> QED BY <1>1, CInvariant, PTL

\* The gotos before the answer: the final message tells of every failure.
THEOREM CFailuresTold == CSpec => []FailuresTold
<1>1. CInv => FailuresTold
  BY DEF CInv
<1> QED BY <1>1, CInvariant, PTL
=============================================================================
