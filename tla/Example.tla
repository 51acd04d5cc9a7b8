------------------------------ MODULE Example ------------------------------
(***************************************************************************)
(* What the two benchmark applications, signature_basic and kem_basic,     *)
(* have in common: the start-up code of the liboqs port and its random     *)
(* numbers, the semaphore xSemaphoreSequential, up to three FreeRTOS       *)
(* tasks, what the benchmark allocates, and the serial output.             *)
(*                                                                         *)
(* The crash of a task takes the whole chip with it: the panic handler     *)
(* prints and restarts it.                                                 *)
(***************************************************************************)
EXTENDS Uart

CONSTANTS
  iterations,   \* iterations and NUM_ITERATIONS, 20 in both applications
  MaxReboots    \* bound on the restarts after a crash

ASSUME IterationsAssumption == iterations \in Nat \ {0}
ASSUME RebootsAssumption    == MaxReboots \in Nat

VARIABLES
  rng,          \* liboqs draws from esp_liboqs_randombytes
  entropy,      \* the entropy source is on
  weak,         \* history: random bytes that are used were drawn without it
  held,         \* the buffers of the benchmark that are allocated
  secrets,      \* those of them that hold a secret
  spilled,      \* history: a buffer was given back with a secret in it
  task,         \* where each task is
  sem,          \* xSemaphoreSequential
  i,            \* the iteration, iter in kem_basic
  boot,         \* restarts so far
  checked       \* history: iterations of each boot that came out right

randVars == <<rng, entropy, weak>>
heapVars == <<held, secrets, spilled>>
loopVars == <<i, checked>>
bootVars == <<boot>>
evars == <<randVars, heapVars, loopVars, bootVars, uart, task, sem>>

\* app_main, the benchmark's task, and the task of the classical algorithms.
Tasks == {"main", "bench", "classical"}

At(t, place)   == task[t] = place
Goto(t, place) == task' = [task EXCEPT ![t] = place]

-----------------------------------------------------------------------------
(* Random numbers.                                                         *)

bootloader_random_enable  == entropy' = TRUE /\ UNCHANGED <<rng, weak>>
bootloader_random_disable == entropy' = FALSE /\ UNCHANGED <<rng, weak>>

\* esp_fill_random for bytes that are used: PSA draws with it, and liboqs through the
\* callback it was given. No caller asks for nothing.
esp_fill_random == weak' = (weak \/ ~entropy) /\ UNCHANGED <<rng, entropy>>
esp_liboqs_randombytes == esp_fill_random
OQS_randombytes ==
  IF rng THEN esp_liboqs_randombytes ELSE weak' = TRUE /\ UNCHANGED <<rng, entropy>>

\* The callback is registered. The eight bytes drawn as a test, before any application
\* can have turned the source on, are not used.
esp_liboqs_rng_init == rng' = TRUE /\ UNCHANGED <<entropy, weak>>

\* The constructor that runs before app_main. What it prints nobody looks for.
esp_liboqs_init ==
  /\ At("main", "reset")
  /\ esp_liboqs_rng_init
  /\ Goto("main", "app_main")
  /\ UNCHANGED <<heapVars, loopVars, bootVars, uart, sem>>

-----------------------------------------------------------------------------
(* Memory.                                                                 *)

malloc(buffers) == held' = held \cup buffers
Holds(buffers)  == secrets' = secrets \cup buffers

\* Everything is freed, and what is in wiped with OQS_MEM_secure_free.
FreeAll(wiped) ==
  /\ held' = {} /\ secrets' = {}
  /\ spilled' = (spilled \/ secrets \ wiped # {})

-----------------------------------------------------------------------------
(* Tasks and restarts.                                                     *)

NoTasks == [t \in Tasks |-> IF t = "main" THEN "reset" ELSE "none"]

\* Mutant: the semaphore is free from the start, as vSemaphoreCreateBinary's was.
CreatedFull == sem' = "full"

xSemaphoreCreateBinary == sem' = "empty"

\* The panic handler prints and resets the chip, which forgets all but the histories.
Crash ==
  /\ log("crash")
  /\ task' = [t \in Tasks |-> "down"] /\ sem' = "NULL" /\ i' = 0
  /\ rng' = FALSE /\ entropy' = FALSE /\ held' = {} /\ secrets' = {}
  /\ UNCHANGED <<weak, spilled, checked, boot>>

\* Whatever brings a chip down: a stack that is too small, the watchdog.
Panic == ~At("main", "down") /\ Crash

Reboot ==
  /\ At("main", "down") /\ boot < MaxReboots
  /\ boot' = boot + 1
  /\ task' = NoTasks
  /\ UNCHANGED <<randVars, heapVars, loopVars, uart, sem>>

\* xSemaphoreGive asserts that there is a semaphore.
xSemaphoreGive(t) ==
  /\ sem # "NULL"
  /\ sem' = "full" /\ Goto(t, "deleted")

\* The iteration's checks all came out right.
NextIteration ==
  /\ i' = i + 1
  /\ checked' = [checked EXCEPT ![boot] = @ + 1]

EInit ==
  /\ rng = FALSE /\ entropy = FALSE /\ weak = FALSE /\ uart = <<>>
  /\ held = {} /\ secrets = {} /\ spilled = FALSE
  /\ task = NoTasks /\ sem = "NULL" /\ i = 0
  /\ boot = 0 /\ checked = [b \in 0..MaxReboots |-> 0]
=============================================================================
