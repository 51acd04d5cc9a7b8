----------------------------- MODULE TlsClient -----------------------------
(***************************************************************************)
(* https_get_task of examples/esp_hybrid_tls: one request over TLS, the    *)
(* answer read in two loops, stored, hashed, and the common exit.          *)
(*                                                                         *)
(* The answer is a stream of units: head of them are the HTTP header, the  *)
(* last of these ends it, and the others are the body.  The k-th unit is   *)
(* the number k, so what is stored shows what was lost.  A read gives any  *)
(* number of units up to what was asked for.  Reads that ask for another   *)
(* try, WANT_READ, WANT_WRITE or a session ticket, change nothing, and so  *)
(* are no steps.                                                           *)
(***************************************************************************)
EXTENDS Integers, Sequences

CONSTANTS
  Builds,          \* values of CONFIG_EXAMPLE_HTTP_DOWNLOAD
  Answers,         \* what servers answer: head, length (or none) and body
  RequestLen,      \* strlen(REQUEST)
  HTTP_HDR_BUF_SIZE, HTTP_HDR_READ_CHUNK, READ_BUF_SIZE

NoLength == -1     \* no Content-Length

Answer == [head : Nat, length : Nat \cup {NoLength}, body : Nat]

ASSUME BuildAssumption  == Builds \subseteq BOOLEAN
ASSUME AnswerAssumption == Answers \subseteq Answer
ASSUME SizeAssumption   ==
  /\ HTTP_HDR_BUF_SIZE \in Nat \ {0, 1} /\ RequestLen \in Nat \ {0}
  /\ HTTP_HDR_READ_CHUNK \in Nat \ {0} /\ READ_BUF_SIZE \in Nat \ {0}

VARIABLES
  store,           \* whether this build stores what it downloads
  answer,          \* what the server will answer
  pc,              \* the program's place
  ret, ssl_setup_done, server_fd, written_bytes,
  hdr_len, content_length, headers_found, body_bytes,
  received,        \* units that the reads have given so far
  link,            \* the connection: open, closed by the server, failed
  file,            \* the stored file
  held,            \* what has to be released
  short,           \* history: some fwrite wrote less than it was given
  said             \* what the task reports: its size check and its final error

netVars  == <<answer, received, link>>
headVars == <<hdr_len, content_length, headers_found>>
fileVars == <<body_bytes, file, short>>
taskVars == <<store, ssl_setup_done, server_fd>>
cvars == <<netVars, headVars, fileVars, taskVars, pc, ret, written_bytes, held, said>>

\* Results of mbedtls_ssl_read and other calls that are no counts.
Error       == -1
CloseNotify == -2
Results     == {Error, CloseNotify} \cup Nat

Smaller(a, b) == IF a < b THEN a ELSE b

Total == answer.head + answer.body

\* A read of at most n units: some of what is left, or the end of the connection, which
\* may come early. A connection that has ended goes on giving the same.
mbedtls_ssl_read(n) ==
  \/ /\ link = "open"
     /\ \E k \in 1..Smaller(n, Total - received) : ret' = k /\ received' = received + k
     /\ UNCHANGED <<answer, link>>
  \/ /\ link # "failed" /\ ret' \in {0, CloseNotify}
     /\ link' = "closed" /\ UNCHANGED <<answer, received>>
  \/ /\ link # "closed" /\ ret' = Error
     /\ link' = "failed" /\ UNCHANGED <<answer, received>>

\* Mutant: the whole buffer is stored, whatever the read gave.
LatestWhole(n) == [j \in 1..READ_BUF_SIZE |-> received' - n + j]

\* The last n units given.
Latest(n) == [j \in 1..n |-> received' - n + j]

\* fwrite of the first n of s; its result is not looked at.
fwrite(s) ==
  \E k \in 0..Len(s) :
    file' = file \o SubSeq(s, 1, k) /\ short' = (short \/ k < Len(s))

GotoExit(r) == pc' = "exit" /\ ret' = r

Tls == {"ssl", "conf", "cacert"}
-----------------------------------------------------------------------------
CInit ==
  /\ store \in Builds /\ answer \in Answers
  /\ pc = "boot" /\ ret = 0 /\ ssl_setup_done = FALSE /\ server_fd = "unset"
  /\ written_bytes = 0 /\ hdr_len = 0 /\ content_length = NoLength
  /\ headers_found = FALSE /\ body_bytes = 0 /\ received = 0 /\ link = "open"
  /\ file = <<>> /\ held = {} /\ short = FALSE /\ said = {}

\* app_main: the file system, the network and the task, or neither. A failed
\* ESP_ERROR_CHECK aborts.
app_main ==
  /\ pc = "boot"
  /\ pc' \in {"task", "idle", "aborted"}
  /\ held' = IF pc' = "task" THEN Tls ELSE {}
  /\ UNCHANGED <<netVars, headVars, fileVars, taskVars, ret, written_bytes, said>>

\* PSA, the host name, the configuration, the trust anchor, the TLS context.
Configure ==
  /\ pc = "task"
  /\ \/ pc' = "aborted" /\ UNCHANGED <<ret, ssl_setup_done, server_fd>>
     \/ GotoExit(Error) /\ UNCHANGED <<ssl_setup_done, server_fd>>
     \/ pc' = "connect" /\ ret' = 0 /\ ssl_setup_done' = TRUE /\ server_fd' = "none"
  /\ UNCHANGED <<netVars, headVars, fileVars, store, written_bytes, held, said>>

\* Mutant: a failure is taken to the exit without its result.
ConnectFailedSilently ==
  /\ pc = "connect"
  /\ \/ pc' = "exit" /\ UNCHANGED <<ret, server_fd>>
     \/ pc' = "handshake" /\ ret' = 0 /\ server_fd' = "open"
  /\ UNCHANGED <<netVars, headVars, fileVars, store, ssl_setup_done, written_bytes, held, said>>

\* The socket.
mbedtls_net_connect ==
  /\ pc = "connect"
  /\ \/ GotoExit(Error) /\ UNCHANGED server_fd
     \/ pc' = "handshake" /\ ret' = 0 /\ server_fd' = "open"
  /\ UNCHANGED <<netVars, headVars, fileVars, store, ssl_setup_done, written_bytes, held, said>>

\* The loop around mbedtls_ssl_handshake.
mbedtls_ssl_handshake ==
  /\ pc = "handshake"
  /\ GotoExit(Error) \/ (pc' = "request" /\ ret' = 0)
  /\ UNCHANGED <<netVars, headVars, fileVars, taskVars, written_bytes, held, said>>

\* A turn of the loop that sends the request.
SendRequest ==
  /\ pc = "request"
  /\ \/ GotoExit(Error) /\ UNCHANGED written_bytes
     \/ \E n \in 1..(RequestLen - written_bytes) :
          /\ ret' = n /\ written_bytes' = written_bytes + n
          /\ pc' = IF written_bytes' < RequestLen THEN "request" ELSE "alloc"
  /\ UNCHANGED <<netVars, headVars, fileVars, taskVars, held, said>>

\* The two buffers, each followed by an assertion.
Allocate ==
  /\ pc = "alloc"
  /\ \/ pc' = "aborted" /\ UNCHANGED held
     \/ pc' = "header" /\ held' = held \cup {"dl_buf", "hdr_buf"}
  /\ UNCHANGED <<netVars, headVars, fileVars, taskVars, ret, written_bytes, said>>

\* Mutant: the last byte of the buffer is not kept for the terminator.
SpaceUnreserved == HTTP_HDR_BUF_SIZE - hdr_len

Space == HTTP_HDR_BUF_SIZE - 1 - hdr_len

\* hdr_buf holds the end of the header.
EndSeen == answer.head > 0 /\ hdr_len' >= answer.head

\* A turn of the loop that reads the header.
ReadHeader ==
  /\ pc = "header"
  /\ mbedtls_ssl_read(Smaller(Space, HTTP_HDR_READ_CHUNK))
  /\ hdr_len' = hdr_len + (IF ret' > 0 THEN ret' ELSE 0)
  /\ pc' = IF ret' <= 0 \/ EndSeen \/ hdr_len' >= HTTP_HDR_BUF_SIZE - 1
           THEN "parse" ELSE "header"
  /\ UNCHANGED <<content_length, headers_found, fileVars, taskVars, written_bytes, held, said>>

\* Mutant: what was read in raw mode is stored and not counted.
RawUncounted(n) == 0

RawCount(n) == n

\* Whether the header was complete, its length field, the file, and in raw mode its first
\* bytes. Of an incomplete header hdr_buf may hold the field, some of its digits, or nothing.
ParseHeader ==
  /\ pc = "parse"
  /\ headers_found' = (hdr_len < HTTP_HDR_BUF_SIZE - 1)
  /\ content_length' \in
       IF ~headers_found' THEN {NoLength}
       ELSE IF answer.head > 0 /\ hdr_len >= answer.head THEN {answer.length}
       ELSE {NoLength} \cup 0..answer.length
  /\ \/ store /\ pc' = "aborted" /\ UNCHANGED <<fileVars, held>>
     \/ /\ pc' = "body"
        /\ held' = held \cup (IF store THEN {"f"} ELSE {})
        /\ body_bytes' = IF headers_found' THEN 0 ELSE RawCount(hdr_len)
        /\ IF store /\ ~headers_found'
             THEN fwrite([j \in 1..hdr_len |-> j])
             ELSE UNCHANGED <<file, short>>
  /\ UNCHANGED <<netVars, hdr_len, taskVars, ret, written_bytes, said>>

\* Mutant: the loop goes on after an error.
GoesOnAfterError(r) == r > 0 \/ r = Error

GoesOn(r) == r > 0

\* A turn of the loop that reads the body.
ReadBody ==
  /\ pc = "body"
  /\ content_length < 0 \/ body_bytes < content_length
  /\ mbedtls_ssl_read(READ_BUF_SIZE)
  /\ pc' = IF GoesOn(ret') THEN "body" ELSE "close"
  /\ body_bytes' = body_bytes + (IF ret' > 0 THEN ret' ELSE 0)
  /\ IF store /\ ret' > 0 THEN fwrite(Latest(ret')) ELSE UNCHANGED <<file, short>>
  /\ UNCHANGED <<headVars, taskVars, written_bytes, held, said>>

BodyRead ==
  /\ pc = "body" /\ content_length >= 0 /\ body_bytes >= content_length
  /\ pc' = "close"
  /\ UNCHANGED <<netVars, headVars, fileVars, taskVars, ret, written_bytes, held, said>>

\* Mutant: any file with something in it has the right size.
AnySize == body_bytes > 0

SizeOk == body_bytes > 0 /\ (content_length < 0 \/ body_bytes = content_length)

\* fclose, both buffers, the normalised result, the size check.
CloseFile ==
  /\ pc = "close"
  /\ held' = held \ {"f", "hdr_buf", "dl_buf"}
  /\ ret' = IF ret = CloseNotify THEN 0 ELSE ret
  /\ said' = said \cup (IF store /\ SizeOk THEN {"size OK"} ELSE {})
  /\ pc' = IF store THEN "verify" ELSE "notify"
  /\ UNCHANGED <<netVars, headVars, fileVars, taskVars, written_bytes>>

\* The file is opened again; PSA fails, or the hash is set up.
HashSetup ==
  /\ pc = "verify"
  /\ \/ pc' = "notify" /\ UNCHANGED held
     \/ pc' = "exit" /\ UNCHANGED held
     \/ pc' = "hash" /\ held' = held \cup {"vf", "hash_op"}
  /\ UNCHANGED <<netVars, headVars, fileVars, taskVars, ret, written_bytes, said>>

\* Mutant: the file is not closed when hashing it fails.
HashFailedOpen == held \ {"hash_op"}

HashFailed == held \ {"vf", "hash_op"}

\* psa_hash_update fails, or the file is read to its end; psa_hash_finish.
HashFile ==
  /\ pc = "hash"
  /\ \/ pc' = "exit" /\ held' = HashFailed
     \/ pc' = "notify" /\ held' = held \ {"vf", "hash_op"}
  /\ UNCHANGED <<netVars, headVars, fileVars, taskVars, ret, written_bytes, said>>

\* The end of the session.
mbedtls_ssl_close_notify ==
  /\ pc = "notify"
  /\ pc' = "exit"
  /\ UNCHANGED <<netVars, headVars, fileVars, taskVars, ret, written_bytes, held, said>>

\* The common exit. mbedtls_net_free closes whatever descriptor it finds.
Exit ==
  /\ pc = "exit"
  /\ pc' = "deleted"
  /\ server_fd' = IF server_fd = "unset" THEN "unset" ELSE "none"
  /\ held' = held \ Tls
  /\ said' = said \cup (IF ret # 0 THEN {"final error"} ELSE {})
  /\ UNCHANGED <<netVars, headVars, fileVars, store, ssl_setup_done, ret, written_bytes>>

https_get_task ==
  \/ Configure \/ mbedtls_net_connect \/ mbedtls_ssl_handshake \/ SendRequest \/ Allocate
  \/ ReadHeader \/ ParseHeader \/ ReadBody \/ BodyRead \/ CloseFile \/ HashSetup \/ HashFile
  \/ mbedtls_ssl_close_notify \/ Exit

CNext == app_main \/ https_get_task

CSpec == CInit /\ [][CNext]_cvars

\* The task runs; and the server answers or the connection ends, for the reads wait forever.
CFairSpec == CSpec /\ WF_cvars(CNext)
-----------------------------------------------------------------------------
(* Properties.                                                             *)

Places == {"boot", "task", "connect", "handshake", "request", "alloc", "header", "parse",
           "body", "close", "verify", "hash", "notify", "exit", "deleted", "idle", "aborted"}

CTypeOK ==
  /\ store \in BOOLEAN /\ answer \in Answer /\ pc \in Places /\ ret \in Results
  /\ ssl_setup_done \in BOOLEAN /\ server_fd \in {"unset", "none", "open"}
  /\ written_bytes \in 0..RequestLen
  /\ hdr_len \in Nat /\ content_length \in Nat \cup {NoLength}
  /\ headers_found \in BOOLEAN /\ body_bytes \in Nat
  /\ received \in 0..Total /\ link \in {"open", "closed", "failed"}
  /\ file \in Seq(1..Total) /\ short \in BOOLEAN
  /\ held \subseteq Tls \cup {"dl_buf", "hdr_buf", "f", "vf", "hash_op"}
  /\ said \subseteq {"size OK", "final error"}

\* The byte after what was read, which ends the string, is still in hdr_buf.
HeaderInBuffer == hdr_len < HTTP_HDR_BUF_SIZE

\* Where the stored part of the answer begins: everything in raw mode, and otherwise what
\* the header loop has left.
FirstStored == IF headers_found THEN hdr_len + 1 ELSE 1

Early == {"boot", "task", "connect", "handshake", "request", "alloc"}

Stored == {"body", "close", "verify", "hash", "notify"}

\* The answer has been stored, in this step or one before: after an early goto it has not.
Downloaded == pc \in Stored \/ (pc \in {"exit", "deleted"} /\ written_bytes = RequestLen)

\* body_bytes counts the units behind FirstStored, and unless fwrite fell short the file is
\* these, in order and without a gap, to the end of the task.
StoredInOrder == Downloaded =>
  /\ body_bytes = received - FirstStored + 1
  /\ store /\ ~short => file = [j \in 1..body_bytes |-> FirstStored + j - 1]

\* The server sends the body it announces, or announces none.
Truthful == answer.head > 0 /\ answer.length \in {NoLength, answer.body}

\* "File size OK" next to a Content-Length: the file is the body, from its first byte, for a
\* server that announces what it sends and a header that was read whole.
SizeOkIsBody ==
  "size OK" \in said /\ content_length >= 0 /\ hdr_len >= answer.head /\ Truthful /\ ~short
    => file = [j \in 1..answer.body |-> answer.head + j]

\* Every goto arrives at the exit with the TLS contexts and nothing else to be released,
\* and the task ends with nothing left, not even its socket.
CleansUp ==
  /\ pc = "exit" => held = Tls
  /\ pc = "deleted" => held = {} /\ server_fd # "open"

\* Before the request is out every failure reaches the final message: no goto loses its
\* result on the way.
FailuresTold == pc = "deleted" /\ written_bytes < RequestLen => "final error" \in said

\* The task ends, whatever fails, if the server answers or the connection ends.
Finishes == pc = "task" ~> pc \in {"deleted", "aborted"}

\* What the Kconfig help says of the download: the response body is stored. Body bytes in the
\* read that ends the header are not.
StoresBody ==
  pc = "deleted" /\ store /\ headers_found /\ Truthful /\ ~short /\ received = Total
    => file = [j \in 1..answer.body |-> answer.head + j]

\* What is stored instead is what the header loop has left, so the body it is when that loop
\* stops at the very end of the header.
StoresWhatIsLeft ==
  pc = "deleted" /\ store /\ headers_found /\ Truthful /\ ~short /\ received = Total
    => (file = [j \in 1..answer.body |-> answer.head + j] <=> hdr_len = answer.head)

\* Why: nothing is stored before the header is parsed, ...
HeadInv ==
  /\ hdr_len < HTTP_HDR_BUF_SIZE
  /\ pc \in Early => received = 0 /\ hdr_len = 0
  /\ written_bytes # RequestLen => received = 0
  /\ pc \in {"header", "parse"} => received = hdr_len
  /\ pc = "header" => hdr_len < HTTP_HDR_BUF_SIZE - 1
  /\ pc \in Early \cup {"header", "parse"} =>
       body_bytes = 0 /\ file = <<>> /\ ~short /\ content_length = NoLength
  /\ pc \in Early \cup {"header", "parse", "body", "close"} => said = {}
  /\ pc \in {"boot", "task", "connect", "handshake", "request"} => written_bytes < RequestLen
  /\ pc \in {"alloc", "header", "parse"} \cup Stored => written_bytes = RequestLen
  /\ content_length # NoLength =>
       headers_found /\ (answer.head > 0 /\ hdr_len >= answer.head => content_length = answer.length)

\* ... what is held at which point, ...
HeldAt(p) ==
  CASE p \in {"boot", "deleted", "idle"} -> {}
    [] p \in {"header", "parse"} -> Tls \cup {"dl_buf", "hdr_buf"}
    [] p \in {"body", "close"} ->
         Tls \cup {"dl_buf", "hdr_buf"} \cup (IF store THEN {"f"} ELSE {})
    [] p = "hash" -> Tls \cup {"vf", "hash_op"}
    [] OTHER -> Tls

HeldInv == pc # "aborted" => held = HeldAt(pc)

\* ... and what a failure takes along to the exit.
ExitInv == pc = "exit" /\ written_bytes < RequestLen => ret # 0

CInv ==
  /\ CTypeOK /\ HeadInv /\ HeldInv /\ ExitInv
  /\ StoredInOrder /\ SizeOkIsBody /\ CleansUp /\ FailuresTold
=============================================================================
