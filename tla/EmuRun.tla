------------------------------- MODULE EmuRun -------------------------------
(***************************************************************************)
(* run_emulator of ci/emu_run.py: the emulator prints lines into a pipe, a *)
(* thread moves them into a queue, and the main loop takes them, until     *)
(* every expected line was seen, one that means a failure, the emulator    *)
(* has exited, or the deadline is over.  Then the emulator is terminated.  *)
(*                                                                         *)
(* Lines are never changed once printed, so the pipe, the queue and what   *)
(* was taken from it are stretches of one sequence: the reader has moved   *)
(* got of them and the main loop has taken the first taken.                *)
(***************************************************************************)
EXTENDS Uart

VARIABLES
  expects,    \* the lines to be seen
  proc,       \* the emulator: "none" (a real chip), "up", "exited" by itself, "ended"
  got,        \* lines the reader has put into the queue
  taken,      \* lines the main loop has taken
  judge,      \* where the main loop is
  seen,       \* the expected lines seen
  late,       \* the deadline is over
  verdict     \* "none", "PASS", "FAIL"

mainVars == <<taken, judge, seen, verdict>>
rvars == <<expects, proc, got, mainVars, late>>

\* DEFAULT_FAIL_PATTERNS
DEFAULT_FAIL_PATTERNS == {"crash"}

Judging(place) == judge = place /\ UNCHANGED <<expects, uart>>

-----------------------------------------------------------------------------
(* The reader, the clock and the emulator.                                 *)

\* q.put of the next line. What was printed can be read after the exit too.
reader ==
  /\ proc # "none" /\ got < Len(uart)
  /\ got' = got + 1
  /\ UNCHANGED <<expects, uart, proc, mainVars, late>>

Time ==
  /\ judge \in {"loop", "get", "poll", "empty"} /\ ~late
  /\ late' = TRUE
  /\ UNCHANGED <<expects, uart, proc, got, mainVars>>

\* The emulator stops by itself, or because it was told to.
EmulatorExits ==
  /\ proc = "up"
  /\ proc' = IF judge \in {"wait", "kill"} THEN "ended" ELSE "exited"
  /\ UNCHANGED <<expects, uart, got, mainVars, late>>

-----------------------------------------------------------------------------
(* The main loop.                                                          *)

CheckDeadline ==
  /\ Judging("loop")
  /\ judge' = IF late THEN "report" ELSE "get"
  /\ UNCHANGED <<proc, got, taken, seen, late, verdict>>

\* q.get gives a line: first the failures, then the expectations.
JudgeLine ==
  /\ Judging("get") /\ taken < got
  /\ taken' = taken + 1
  /\ LET line == uart[taken + 1]
     IN  \/ /\ line \in DEFAULT_FAIL_PATTERNS
            /\ judge' = "finally" /\ verdict' = "FAIL" /\ UNCHANGED seen
         \/ /\ line \notin DEFAULT_FAIL_PATTERNS
            /\ seen' = seen \cup ({line} \cap expects)
            /\ IF seen' = expects
               THEN judge' = "finally" /\ verdict' = "PASS"
               ELSE judge' = "loop" /\ UNCHANGED verdict
  /\ UNCHANGED <<proc, got, late>>

\* Mutant: back to the queue without a look at the clock.
PollForever ==
  /\ Judging("poll")
  /\ judge' = IF proc = "up" THEN "get" ELSE "empty"
  /\ UNCHANGED <<proc, got, taken, seen, late, verdict>>

\* q.get finds nothing for half a second.
QueueEmpty ==
  /\ Judging("get") /\ taken = got
  /\ judge' = "poll"
  /\ UNCHANGED <<proc, got, taken, seen, late, verdict>>

\* Mutant: whether the emulator has exited is not asked.
QuietIsOver ==
  /\ Judging("poll")
  /\ judge' = "empty"
  /\ UNCHANGED <<proc, got, taken, seen, late, verdict>>

\* proc.poll()
Poll ==
  /\ Judging("poll")
  /\ judge' = IF proc = "up" THEN "loop" ELSE "empty"
  /\ UNCHANGED <<proc, got, taken, seen, late, verdict>>

\* ... and q.empty(), which the reader may have overtaken by now.
CheckEmpty ==
  /\ Judging("empty")
  /\ judge' = IF taken = got THEN "report" ELSE "loop"
  /\ UNCHANGED <<proc, got, taken, seen, late, verdict>>

\* After the loop: always a failure, and always told as a timeout.
Report ==
  /\ Judging("report")
  /\ judge' = "finally" /\ verdict' = "FAIL"
  /\ UNCHANGED <<proc, got, taken, seen, late>>

\* proc.terminate()
Terminate ==
  /\ Judging("finally")
  /\ judge' = "wait"
  /\ UNCHANGED <<proc, got, taken, seen, late, verdict>>

\* proc.wait() sees the end, or runs out of time.
Wait ==
  /\ Judging("wait")
  /\ judge' = IF proc = "up" THEN "kill" ELSE "returned"
  /\ UNCHANGED <<proc, got, taken, seen, late, verdict>>

\* proc.kill() cannot be refused.
Kill ==
  /\ Judging("kill")
  /\ proc' = IF proc = "up" THEN "ended" ELSE proc
  /\ judge' = "returned"
  /\ UNCHANGED <<got, taken, seen, late, verdict>>

run_emulator ==
  \/ CheckDeadline \/ JudgeLine \/ QueueEmpty \/ Poll \/ CheckEmpty
  \/ Report \/ Terminate \/ Wait \/ Kill

RunnerInit ==
  /\ proc \in {"none", "up"}
  /\ got = 0 /\ taken = 0 /\ seen = {} /\ late = FALSE /\ verdict = "none"
  /\ judge = IF proc = "up" THEN "loop" ELSE "returned"

RunnerNext == reader \/ Time \/ EmulatorExits \/ run_emulator
=============================================================================
