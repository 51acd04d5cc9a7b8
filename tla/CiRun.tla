------------------------------- MODULE CiRun -------------------------------
(***************************************************************************)
(* One of the two benchmark applications on a chip of its own, or in the   *)
(* emulator under ci/emu_run.py as .gitlab-ci.yml calls it: the            *)
(* composition of SignatureExample, KemExample and EmuRun.  They share the *)
(* printed lines.  Without the emulator nothing runs.                      *)
(***************************************************************************)
EXTENDS SignatureExample, KemExample, EmuRun

VARIABLE app      \* the application that was built

civars == <<svars, rvars, app>>

\* The expectations of the two jobs.
Expects == [ signature |-> {"statistics"}, kem |-> {"iterations", "complete"} ]

Powered == proc \in {"none", "up"}

-----------------------------------------------------------------------------
CiInit ==
  /\ SigInit /\ RunnerInit
  /\ app \in DOMAIN Expects
  /\ expects = Expects[app]
  /\ app = "kem" => ~fixed       \* it has no fixed keys

Chip(A)   == Powered /\ A /\ UNCHANGED <<app, rvars>>
SigRun(A) == app = "signature" /\ Chip(A)
KemRun(A) == app = "kem" /\ Chip(A) /\ UNCHANGED ownVars
Runner(A) == A /\ UNCHANGED <<app, svars>>

CiNext ==
  \/ SigRun(SigNext)
  \/ KemRun(KemNext)
  \/ Runner(RunnerNext)

CiSpec == CiInit /\ [][CiNext]_civars

\* A task that is ready gets the processor, the main loop runs, and time passes.
CiFairSpec ==
  /\ CiSpec
  /\ WF_civars(SigRun(signature_test_task))
  /\ WF_civars(SigRun(classical_rsa_ecdsa_task))
  /\ WF_civars(Runner(run_emulator)) /\ WF_civars(Runner(Time))

-----------------------------------------------------------------------------
(* Properties.                                                             *)

MainPlaces  == {"reset", "app_main", "create_sig", "create_classical",
                "create_kem", "over", "down"}
BenchPlaces == {"none", "start", "new", "keypair", "round", "sign", "verify", "corrupt",
                "decaps", "compare", "cleanup", "finish", "give", "deleted", "down"}
ClassicalPlaces == {"none", "take", "rsa", "ecdsa", "disable", "deleted", "down"}
Buffers == SigBuffers \cup KemBuffers \cup {"sig", "kem", "original_signature"}

ExampleTypeOK ==
  /\ rng \in BOOLEAN /\ entropy \in BOOLEAN /\ weak \in BOOLEAN
  /\ held \subseteq Buffers /\ secrets \subseteq Buffers /\ spilled \in BOOLEAN
  /\ DOMAIN task = Tasks /\ task["main"] \in MainPlaces
  /\ task["bench"] \in BenchPlaces /\ task["classical"] \in ClassicalPlaces
  /\ sem \in {"NULL", "empty", "full"}
  /\ i \in 0..iterations /\ boot \in 0..MaxReboots
  /\ checked \in [0..MaxReboots -> 0..iterations]
  /\ fixed \in BOOLEAN /\ metrics \in [Phases -> Nat]

RunnerTypeOK ==
  /\ uart \in Seq(Lines)
  /\ proc \in {"none", "up", "exited", "ended"}
  /\ got \in 0..Len(uart) /\ taken \in 0..got
  /\ judge \in {"loop", "get", "poll", "empty", "report", "finally", "wait", "kill",
                "returned"}
  /\ expects \subseteq Lines /\ seen \subseteq expects
  /\ late \in BOOLEAN /\ verdict \in {"none", "PASS", "FAIL"}

\* The type of every variable.
CiTypeOK == ExampleTypeOK /\ RunnerTypeOK /\ app \in DOMAIN Expects

\* Random bytes that are used, for keys, messages, signatures and encapsulated secrets, are
\* drawn by the hardware generator while its entropy source is on, whichever task draws
\* and whatever failed before.
DrawnFromEntropy == ~weak

\* The two tasks of signature_basic run one after the other: the classical algorithms are
\* measured only when the first task is through and has given all its memory back.
OneAfterTheOther ==
  task["classical"] \in {"rsa", "ecdsa", "disable"} =>
    At("bench", "deleted") /\ held = {}

\* Whichever call failed, test_signature and test_kem return with everything freed, and
\* no memory is given back with a secret in it.
Released ==
  /\ ~spilled
  /\ task["bench"] \in {"finish", "give", "deleted"} => held = {}

\* PASS is said only of an application that made all its iterations, each with the right
\* result, in its first boot: neither a crash nor a failed check is passed over.
PassMeansDone ==
  verdict = "PASS" =>
    checked[0] = iterations /\ \A k \in 1..taken : uart[k] # "crash"

\* FAIL is said only after a crash, at the deadline, or when the emulator has exited.
FailForCause ==
  verdict = "FAIL" =>
    late \/ proc = "exited" \/ \E k \in 1..taken : uart[k] = "crash"

\* Whatever the application does, run_emulator returns, with a verdict, and leaves no
\* emulator running.
Judged == (proc = "up") ~> (judge = "returned" /\ verdict # "none" /\ proc # "up")

\* On a chip, once both tasks of signature_basic were created, the entropy source goes off
\* in the end.
SourceOff ==
  (proc = "none" /\ At("classical", "take")) ~> ~entropy

-----------------------------------------------------------------------------
(* Why they hold.                                                          *)

Idle == {"none", "down"}

\* Who is where: a crash stops all tasks, the classical one is created last, and it waits
\* for the other.
PlacesInv ==
  /\ At("bench", "down") \/ At("classical", "down") => At("main", "down")
  /\ task["bench"] \notin Idle => task["main"] \in {"create_classical", "over"}
  /\ task["classical"] \notin Idle => At("main", "over")
  /\ sem = "full" => At("bench", "deleted")
  /\ task["classical"] \in {"rsa", "ecdsa", "disable", "deleted"} => At("bench", "deleted")

\* Where the callback is registered and the source is on.
RandomInv ==
  /\ ~weak
  /\ task["main"] \notin {"reset", "down"} => rng
  /\ app = "signature" =>
       /\ task["main"] \in {"create_sig", "create_classical"} => entropy
       /\ task["bench"] \notin Idle \cup {"deleted"} => entropy
       /\ task["classical"] \notin Idle \cup {"deleted"} => entropy
  /\ app = "kem" /\ task["bench"] \notin Idle \cup {"start", "give", "deleted"} => entropy

\* Nothing is held outside the test, and what is secret is wiped at its end.
HeapInv ==
  /\ ~spilled
  /\ secrets \subseteq IF app = "kem" THEN {"secret_key", "shared_secret_e", "shared_secret_d"}
                       ELSE {"secret_key"}
  /\ task["bench"] \in Idle \cup {"start", "new", "finish", "give", "deleted"} =>
       held = {} /\ secrets = {}

\* Of this boot as many iterations came out right as were begun before.
LoopInv ==
  /\ \A b \in 0..MaxReboots : b > boot => checked[b] = 0
  /\ task["bench"] \in {"none", "start", "new", "keypair"} => checked[boot] = 0
  /\ task["bench"] \in {"round", "sign", "verify", "corrupt", "decaps", "compare"} =>
       checked[boot] = i
  /\ task["bench"] \in {"sign", "verify", "corrupt", "decaps", "compare"} => i < iterations

CrashIn(n) == \E k \in 1..n : uart[k] = "crash"

\* A later boot has a crash before it, and a line that tells of success was printed after
\* all iterations of the first boot or after a crash.
LinesInv ==
  /\ boot > 0 \/ At("main", "down") => CrashIn(Len(uart))
  /\ \A k \in 1..Len(uart) :
       uart[k] \in {"statistics", "iterations"} =>
         checked[0] = iterations \/ CrashIn(k - 1)

\* What the main loop knows at each place.
JudgeInv ==
  /\ expects = Expects[app]
  /\ \A line \in seen : \E k \in 1..taken : uart[k] = line
  /\ verdict # "FAIL" => ~CrashIn(taken)
  /\ verdict = "PASS" => seen = expects
  /\ judge \in {"loop", "get", "poll", "empty", "report"} => verdict = "none"
  /\ judge \in {"loop", "get", "poll", "empty", "report", "finally"} =>
       proc \in {"up", "exited"}
  /\ judge = "empty" => proc = "exited"
  /\ judge = "report" => late \/ proc = "exited"
  /\ verdict = "FAIL" => late \/ proc = "exited" \/ CrashIn(taken)

ChipInv == PlacesInv /\ RandomInv /\ HeapInv /\ LoopInv

\* The inductive invariant.
CiInv == CiTypeOK /\ ChipInv /\ LinesInv /\ JudgeInv
=============================================================================
