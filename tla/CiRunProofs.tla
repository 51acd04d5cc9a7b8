---------------------------- MODULE CiRunProofs ----------------------------
(***************************************************************************)
(* Proofs about CiRun: its inductive invariant, for any number of          *)
(* iterations and restarts, and the safety properties.  The chip's steps   *)
(* and the runner's touch different parts of the state; what they share    *)
(* are the printed lines, of which the chip only adds some (Told) and the  *)
(* runner only reads.                                                      *)
(***************************************************************************)
EXTENDS CiRun, TLAPS

\* The part of the invariant that is about the chip.
ChipState == ExampleTypeOK /\ ChipInv /\ app \in DOMAIN Expects

\* A line the chip prints: of success only when the boot's iterations are all through.
Printed(line) ==
  /\ line \in Lines
  /\ uart' = Append(uart, line)
  /\ line \in {"statistics", "iterations"} => (boot = 0 => checked[0] = iterations)

\* What the runner may rely on in a step of the chip.
Told ==
  /\ uart' = uart \/ \E line \in Lines : Printed(line)
  /\ checked[0] = iterations => checked'[0] = iterations
  /\ boot' > 0 \/ task'["main"] = "down" =>
       boot > 0 \/ At("main", "down") \/ uart' = Append(uart, "crash")

ChipStep == ChipState' /\ Told

-----------------------------------------------------------------------------
(* The steps of the chip.                                                  *)

\* The first task of signature_basic.
LEMMA SigBenchStep ==
  ASSUME ChipState, app = "signature", signature_test_task, UNCHANGED app
  PROVE  ChipStep
<1> USE IterationsAssumption, RebootsAssumption
        DEF IterationsAssumption, RebootsAssumption, ChipState, ExampleTypeOK, Expects,
            Tasks, At, Goto, Quiet, log, Lines,
            randVars, heapVars, loopVars, bootVars, ownVars
<1>1. CASE SigStart
  <2>1. ExampleTypeOK'
    BY <1>1 DEF SigStart, MainPlaces, BenchPlaces, ClassicalPlaces
  <2>2. ChipInv'
    BY <1>1 DEF SigStart, ChipInv, PlacesInv, RandomInv, HeapInv, LoopInv, Idle
  <2>3. Told
    BY <1>1 DEF SigStart, Told, Printed, ChipInv, LoopInv
  <2> QED
    BY <2>1, <2>2, <2>3 DEF ChipStep
<1>2. CASE SigAllocate
  <2>1. ExampleTypeOK'
    <3>1. /\ DOMAIN task' = Tasks /\ task'["main"] \in MainPlaces
             /\ task'["bench"] \in BenchPlaces /\ task'["classical"] \in ClassicalPlaces
      BY <1>2 DEF SigAllocate, MainPlaces, BenchPlaces, ClassicalPlaces
    <3>2. /\ i' \in 0..iterations /\ boot' \in 0..MaxReboots
             /\ checked' \in [0..MaxReboots -> 0..iterations]
      BY <1>2 DEF SigAllocate, malloc, Holds, NotStarted, Buffers, SigBuffers, KemBuffers,
          ChipInv, LoopInv
    <3>3. metrics' \in [Phases -> Nat] /\ fixed' \in BOOLEAN
      BY <1>2 DEF SigAllocate, NotStarted, Phases
    <3>4. /\ rng' \in BOOLEAN /\ entropy' \in BOOLEAN /\ weak' \in BOOLEAN
             /\ held' \subseteq Buffers /\ secrets' \subseteq Buffers /\ spilled' \in BOOLEAN
             /\ sem' \in {"NULL", "empty", "full"}
      BY <1>2 DEF SigAllocate, malloc, Holds, NotStarted, Phases, Buffers, SigBuffers, KemBuffers
    <3> QED
      BY <3>1, <3>2, <3>3, <3>4
  <2>2. ChipInv'
    <3>1. PlacesInv'
      BY <1>2 DEF SigAllocate, ChipInv, PlacesInv, Idle
    <3>2. RandomInv'
      BY <1>2 DEF SigAllocate, ChipInv, RandomInv, Idle
    <3>3. HeapInv'
      <4>1. /\ held = {} /\ secrets = {} /\ ~spilled
            /\ secrets' \subseteq {"secret_key"} /\ ~spilled'
        BY <1>2 DEF SigAllocate, malloc, Holds, ChipInv, HeapInv
      <4>2. task'["bench"] \in {"round", "cleanup"} \/ (held' = {} /\ secrets' = {})
        BY <1>2, <4>1 DEF SigAllocate
      <4> QED
        BY <1>2, <4>1, <4>2 DEF HeapInv, Idle
    <3>4. LoopInv'
      BY <1>2 DEF SigAllocate, ChipInv, LoopInv, Idle
    <3> QED
      BY <3>1, <3>2, <3>3, <3>4 DEF ChipInv
  <2>3. Told
    BY <1>2 DEF SigAllocate, malloc, Holds, NotStarted, Phases, Buffers, SigBuffers, KemBuffers,
        Told, Printed, ChipInv, LoopInv
  <2> QED
    BY <2>1, <2>2, <2>3 DEF ChipStep
<1>3. CASE SigKeys
  <2>1. ExampleTypeOK'
    <3>1. /\ DOMAIN task' = Tasks /\ task'["main"] \in MainPlaces
             /\ task'["bench"] \in BenchPlaces /\ task'["classical"] \in ClassicalPlaces
      BY <1>3 DEF SigKeys, Measured, SigFails, MainPlaces, BenchPlaces, ClassicalPlaces
    <3>2. /\ i' \in 0..iterations /\ boot' \in 0..MaxReboots
             /\ checked' \in [0..MaxReboots -> 0..iterations]
      BY <1>3 DEF SigKeys, Holds, Measured, SigFails, Buffers, SigBuffers, KemBuffers,
          ChipInv, LoopInv
    <3>3. metrics' \in [Phases -> Nat] /\ fixed' \in BOOLEAN
      BY <1>3 DEF SigKeys, Measured, SigFails, Phases
    <3>4. /\ rng' \in BOOLEAN /\ entropy' \in BOOLEAN /\ weak' \in BOOLEAN
             /\ held' \subseteq Buffers /\ secrets' \subseteq Buffers /\ spilled' \in BOOLEAN
             /\ sem' \in {"NULL", "empty", "full"}
      BY <1>3 DEF SigKeys, Holds, Measured, SigFails, Phases, Buffers, SigBuffers, KemBuffers,
          OQS_randombytes, esp_liboqs_randombytes, esp_fill_random
    <3> QED
      BY <3>1, <3>2, <3>3, <3>4
  <2>2. ChipInv'
    <3>1. PlacesInv'
      BY <1>3 DEF SigKeys, Measured, SigFails, ChipInv, PlacesInv, Idle
    <3>2. RandomInv'
      <4>1. rng /\ entropy /\ ~weak
        BY <1>3 DEF SigKeys, ChipInv, PlacesInv, RandomInv, Idle
      <4>2. UNCHANGED <<rng, entropy, weak>> \/ OQS_randombytes
        BY <1>3, Zenon DEF SigKeys
      <4>3. OQS_randombytes => rng' = rng /\ entropy' = entropy /\ ~weak'
        BY <4>1 DEF OQS_randombytes, esp_liboqs_randombytes, esp_fill_random
      <4>4. rng' = rng /\ entropy' = entropy /\ (weak' = weak \/ ~weak')
        BY <4>2, <4>3
      <4> QED
        BY <4>1, <4>4 DEF RandomInv
    <3>3. HeapInv'
      BY <1>3 DEF SigKeys, Holds, Measured, SigFails, OQS_randombytes, esp_liboqs_randombytes,
          esp_fill_random, ChipInv, HeapInv, Idle
    <3>4. LoopInv'
      BY <1>3 DEF SigKeys, Measured, SigFails, ChipInv, LoopInv, Idle
    <3> QED
      BY <3>1, <3>2, <3>3, <3>4 DEF ChipInv
  <2>3. Told
    BY <1>3 DEF SigKeys, Holds, Measured, SigFails, Phases, Buffers, SigBuffers, KemBuffers,
        OQS_randombytes, esp_liboqs_randombytes, esp_fill_random, Told, Printed, ChipInv,
        LoopInv
  <2> QED
    BY <2>1, <2>2, <2>3 DEF ChipStep
<1>4. CASE OQS_SIG_sign
  <2>1. ExampleTypeOK'
    <3>1. /\ DOMAIN task' = Tasks /\ task'["main"] \in MainPlaces
             /\ task'["bench"] \in BenchPlaces /\ task'["classical"] \in ClassicalPlaces
      BY <1>4 DEF OQS_SIG_sign, Measured, SigFails, MainPlaces, BenchPlaces, ClassicalPlaces
    <3>2. /\ i' \in 0..iterations /\ boot' \in 0..MaxReboots
             /\ checked' \in [0..MaxReboots -> 0..iterations]
      BY <1>4 DEF OQS_SIG_sign, Measured, SigFails, ChipInv, LoopInv
    <3>3. metrics' \in [Phases -> Nat] /\ fixed' \in BOOLEAN
      BY <1>4 DEF OQS_SIG_sign, Measured, SigFails, Phases
    <3>4. /\ rng' \in BOOLEAN /\ entropy' \in BOOLEAN /\ weak' \in BOOLEAN
             /\ held' \subseteq Buffers /\ secrets' \subseteq Buffers /\ spilled' \in BOOLEAN
             /\ sem' \in {"NULL", "empty", "full"}
      BY <1>4 DEF OQS_SIG_sign, Measured, SigFails, Phases, OQS_randombytes,
          esp_liboqs_randombytes, esp_fill_random
    <3> QED
      BY <3>1, <3>2, <3>3, <3>4
  <2>2. ChipInv'
    BY <1>4 DEF OQS_SIG_sign, Measured, SigFails, Phases, OQS_randombytes,
        esp_liboqs_randombytes, esp_fill_random, ChipInv, PlacesInv, RandomInv, HeapInv,
        LoopInv, Idle
  <2>3. Told
    BY <1>4 DEF OQS_SIG_sign, Measured, SigFails, Phases, OQS_randombytes,
        esp_liboqs_randombytes, esp_fill_random, Told, Printed, ChipInv, LoopInv
  <2> QED
    BY <2>1, <2>2, <2>3 DEF ChipStep
<1>5. CASE OQS_SIG_verify
  <2>1. ExampleTypeOK'
    BY <1>5 DEF OQS_SIG_verify, Measured, SigFails, Phases, malloc, Buffers, MainPlaces,
        BenchPlaces, ClassicalPlaces
  <2>2. ChipInv'
    BY <1>5 DEF OQS_SIG_verify, Measured, SigFails, Phases, malloc, Buffers, ChipInv, PlacesInv,
        RandomInv, HeapInv, LoopInv, Idle
  <2>3. Told
    BY <1>5 DEF OQS_SIG_verify, Measured, SigFails, Phases, malloc, Buffers, Told, Printed,
        ChipInv, LoopInv
  <2> QED
    BY <2>1, <2>2, <2>3 DEF ChipStep
<1>6. CASE VerifyCorrupted
  <2>1. ExampleTypeOK'
    <3>1. /\ DOMAIN task' = Tasks /\ task'["main"] \in MainPlaces
             /\ task'["bench"] \in BenchPlaces /\ task'["classical"] \in ClassicalPlaces
      BY <1>6 DEF VerifyCorrupted, NextIteration, SigFails, MainPlaces, BenchPlaces, ClassicalPlaces
    <3>2. /\ i' \in 0..iterations /\ boot' \in 0..MaxReboots
             /\ checked' \in [0..MaxReboots -> 0..iterations]
      BY <1>6 DEF VerifyCorrupted, NextIteration, SigFails, ChipInv, LoopInv
    <3>3. metrics' \in [Phases -> Nat] /\ fixed' \in BOOLEAN
      BY <1>6 DEF VerifyCorrupted, NextIteration, SigFails
    <3>4. /\ rng' \in BOOLEAN /\ entropy' \in BOOLEAN /\ weak' \in BOOLEAN
             /\ held' \subseteq Buffers /\ secrets' \subseteq Buffers /\ spilled' \in BOOLEAN
             /\ sem' \in {"NULL", "empty", "full"}
      BY <1>6 DEF VerifyCorrupted, NextIteration, SigFails, OQS_randombytes,
          esp_liboqs_randombytes, esp_fill_random
    <3> QED
      BY <3>1, <3>2, <3>3, <3>4
  <2>2. ChipInv'
    <3>1. PlacesInv'
      BY <1>6 DEF VerifyCorrupted, NextIteration, SigFails, ChipInv, LoopInv, PlacesInv, Idle
    <3>2. RandomInv'
      BY <1>6 DEF VerifyCorrupted, NextIteration, SigFails, ChipInv, LoopInv, OQS_randombytes,
          esp_liboqs_randombytes, esp_fill_random, RandomInv, Idle, PlacesInv
    <3>3. HeapInv'
      BY <1>6 DEF VerifyCorrupted, NextIteration, SigFails, ChipInv, LoopInv, OQS_randombytes,
          esp_liboqs_randombytes, esp_fill_random, HeapInv, Idle
    <3>4. LoopInv'
      BY <1>6 DEF VerifyCorrupted, NextIteration, SigFails, ChipInv, LoopInv, Idle
    <3> QED
      BY <3>1, <3>2, <3>3, <3>4 DEF ChipInv
  <2>3. Told
    BY <1>6 DEF VerifyCorrupted, NextIteration, SigFails, ChipInv, LoopInv, OQS_randombytes,
        esp_liboqs_randombytes, esp_fill_random, Told, Printed
  <2> QED
    BY <2>1, <2>2, <2>3 DEF ChipStep
<1>7. CASE SigStatistics
  <2>1. ExampleTypeOK'
    BY <1>7 DEF SigStatistics, display_performance_statistics, MainPlaces, BenchPlaces,
        ClassicalPlaces
  <2>2. ChipInv'
    BY <1>7 DEF SigStatistics, display_performance_statistics, ChipInv, PlacesInv, RandomInv,
        HeapInv, LoopInv, Idle
  <2>3. Told
    BY <1>7 DEF SigStatistics, display_performance_statistics, Told, Printed, ChipInv, LoopInv
  <2> QED
    BY <2>1, <2>2, <2>3 DEF ChipStep
<1>8. CASE SigCleanup
  <2>1. ExampleTypeOK'
    BY <1>8 DEF SigCleanup, FreeAll, MainPlaces, BenchPlaces, ClassicalPlaces
  <2>2. ChipInv'
    BY <1>8 DEF SigCleanup, FreeAll, ChipInv, PlacesInv, RandomInv, HeapInv, LoopInv, Idle
  <2>3. Told
    BY <1>8 DEF SigCleanup, FreeAll, Told, Printed, ChipInv, LoopInv
  <2> QED
    BY <2>1, <2>2, <2>3 DEF ChipStep
<1>9. CASE SigGive
  <2>1. ExampleTypeOK'
    BY <1>9 DEF SigGive, xSemaphoreGive, MainPlaces, BenchPlaces, ClassicalPlaces
  <2>2. ChipInv'
    BY <1>9 DEF SigGive, xSemaphoreGive, ChipInv, PlacesInv, RandomInv, HeapInv, LoopInv, Idle
  <2>3. Told
    BY <1>9 DEF SigGive, xSemaphoreGive, Told, Printed, ChipInv, LoopInv
  <2> QED
    BY <2>1, <2>2, <2>3 DEF ChipStep
<1> QED
  BY <1>1, <1>2, <1>3, <1>4, <1>5, <1>6, <1>7, <1>8, <1>9 DEF signature_test_task

\* The second task.
LEMMA ClassicalStep ==
  ASSUME ChipState, app = "signature", classical_rsa_ecdsa_task, UNCHANGED app
  PROVE  ChipStep
<1> USE IterationsAssumption, RebootsAssumption
        DEF IterationsAssumption, RebootsAssumption, ChipState, ExampleTypeOK, Expects,
            Tasks, At, Goto, Quiet, log, Lines,
            randVars, heapVars, loopVars, bootVars, ownVars
<1>1. CASE xSemaphoreTake
  <2>1. ExampleTypeOK'
    BY <1>1 DEF xSemaphoreTake, MainPlaces, BenchPlaces, ClassicalPlaces
  <2>2. ChipInv'
    BY <1>1 DEF xSemaphoreTake, ChipInv, PlacesInv, RandomInv, HeapInv, LoopInv, Idle
  <2>3. Told
    BY <1>1 DEF xSemaphoreTake, Told, Printed, ChipInv, LoopInv
  <2> QED
    BY <2>1, <2>2, <2>3 DEF ChipStep
<1>2. CASE ClassicalTests
  <2>1. ExampleTypeOK'
    BY <1>2 DEF ClassicalTests, esp_fill_random, MainPlaces, BenchPlaces, ClassicalPlaces
  <2>2. ChipInv'
    BY <1>2 DEF ClassicalTests, esp_fill_random, ChipInv, PlacesInv, RandomInv, HeapInv,
        LoopInv, Idle
  <2>3. Told
    BY <1>2 DEF ClassicalTests, esp_fill_random, Told, Printed, ChipInv, LoopInv
  <2> QED
    BY <2>1, <2>2, <2>3 DEF ChipStep
<1>3. CASE ClassicalOver
  <2>1. ExampleTypeOK'
    BY <1>3 DEF ClassicalOver, bootloader_random_disable, xSemaphoreGive, MainPlaces,
        BenchPlaces, ClassicalPlaces
  <2>2. ChipInv'
    BY <1>3 DEF ClassicalOver, bootloader_random_disable, xSemaphoreGive, ChipInv, PlacesInv,
        RandomInv, HeapInv, LoopInv, Idle
  <2>3. Told
    BY <1>3 DEF ClassicalOver, bootloader_random_disable, xSemaphoreGive, Told, Printed,
        ChipInv, LoopInv
  <2> QED
    BY <2>1, <2>2, <2>3 DEF ChipStep
<1> QED
  BY <1>1, <1>2, <1>3 DEF classical_rsa_ecdsa_task

SigMain == sig_app_main \/ SigCrash
KemMain == kem_app_main \/ Panic \/ Reboot

\* The start, app_main of signature_basic, and the crashes.
LEMMA SigMainStep ==
  ASSUME ChipState, app = "signature", SigMain, UNCHANGED app
  PROVE  ChipStep
<1> USE IterationsAssumption, RebootsAssumption
        DEF IterationsAssumption, RebootsAssumption, ChipState, ExampleTypeOK, Expects,
            Tasks, At, Goto, Quiet, log, Lines,
            randVars, heapVars, loopVars, bootVars, ownVars
<1>1. CASE esp_liboqs_init /\ UNCHANGED ownVars
  <2>1. ExampleTypeOK'
    BY <1>1 DEF esp_liboqs_init, esp_liboqs_rng_init, MainPlaces, BenchPlaces, ClassicalPlaces
  <2>2. ChipInv'
    BY <1>1 DEF esp_liboqs_init, esp_liboqs_rng_init, ChipInv, PlacesInv, RandomInv, HeapInv,
        LoopInv, Idle
  <2>3. Told
    BY <1>1 DEF esp_liboqs_init, esp_liboqs_rng_init, Told, Printed, ChipInv, LoopInv
  <2> QED
    BY <2>1, <2>2, <2>3 DEF ChipStep
<1>2. CASE CreateSemaphore
  <2>1. ExampleTypeOK'
    BY <1>2 DEF CreateSemaphore, xSemaphoreCreateBinary, bootloader_random_enable, MainPlaces,
        BenchPlaces, ClassicalPlaces
  <2>2. ChipInv'
    <3>1. PlacesInv'
      BY <1>2 DEF CreateSemaphore, xSemaphoreCreateBinary, bootloader_random_enable, ChipInv,
          PlacesInv, Idle
    <3>2. RandomInv'
      BY <1>2 DEF CreateSemaphore, xSemaphoreCreateBinary, bootloader_random_enable, ChipInv,
          RandomInv, Idle, PlacesInv
    <3>3. HeapInv'
      BY <1>2 DEF CreateSemaphore, xSemaphoreCreateBinary, bootloader_random_enable, ChipInv,
          HeapInv, Idle
    <3>4. LoopInv'
      BY <1>2 DEF CreateSemaphore, xSemaphoreCreateBinary, bootloader_random_enable, ChipInv,
          LoopInv, Idle
    <3> QED
      BY <3>1, <3>2, <3>3, <3>4 DEF ChipInv
  <2>3. Told
    BY <1>2 DEF CreateSemaphore, xSemaphoreCreateBinary, bootloader_random_enable, Told,
        Printed, ChipInv, LoopInv
  <2> QED
    BY <2>1, <2>2, <2>3 DEF ChipStep
<1>3. CASE CreateSigTask
  <2>1. ExampleTypeOK'
    BY <1>3 DEF CreateSigTask, MainPlaces, BenchPlaces, ClassicalPlaces
  <2>2. ChipInv'
    <3>1. PlacesInv'
      BY <1>3 DEF CreateSigTask, ChipInv, PlacesInv, Idle
    <3>2. RandomInv'
      BY <1>3 DEF CreateSigTask, ChipInv, RandomInv, Idle
    <3>3. HeapInv'
      BY <1>3 DEF CreateSigTask, ChipInv, HeapInv, Idle, PlacesInv
    <3>4. LoopInv'
      BY <1>3 DEF CreateSigTask, ChipInv, LoopInv, Idle, PlacesInv
    <3> QED
      BY <3>1, <3>2, <3>3, <3>4 DEF ChipInv
  <2>3. Told
    BY <1>3 DEF CreateSigTask, Told, Printed, ChipInv, LoopInv
  <2> QED
    BY <2>1, <2>2, <2>3 DEF ChipStep
<1>4. CASE CreateClassicalTask
  <2>1. ExampleTypeOK'
    BY <1>4 DEF CreateClassicalTask, MainPlaces, BenchPlaces, ClassicalPlaces
  <2>2. ChipInv'
    BY <1>4 DEF CreateClassicalTask, ChipInv, PlacesInv, RandomInv, HeapInv, LoopInv, Idle
  <2>3. Told
    BY <1>4 DEF CreateClassicalTask, Told, Printed, ChipInv, LoopInv
  <2> QED
    BY <2>1, <2>2, <2>3 DEF ChipStep
<1>5. CASE Panic /\ metrics' = NotStarted /\ UNCHANGED fixed
  <2>1. ExampleTypeOK'
    <3>1. /\ DOMAIN task' = Tasks /\ task'["main"] \in MainPlaces
             /\ task'["bench"] \in BenchPlaces /\ task'["classical"] \in ClassicalPlaces
      BY <1>5 DEF Panic, Crash, MainPlaces, BenchPlaces, ClassicalPlaces
    <3>2. /\ i' \in 0..iterations /\ boot' \in 0..MaxReboots
             /\ checked' \in [0..MaxReboots -> 0..iterations]
      BY <1>5 DEF Panic, Crash, NotStarted, ChipInv, LoopInv
    <3>3. metrics' \in [Phases -> Nat] /\ fixed' \in BOOLEAN
      BY <1>5 DEF Panic, Crash, NotStarted, Phases
    <3>4. /\ rng' \in BOOLEAN /\ entropy' \in BOOLEAN /\ weak' \in BOOLEAN
             /\ held' \subseteq Buffers /\ secrets' \subseteq Buffers /\ spilled' \in BOOLEAN
             /\ sem' \in {"NULL", "empty", "full"}
      BY <1>5 DEF Panic, Crash, NotStarted, Phases
    <3> QED
      BY <3>1, <3>2, <3>3, <3>4
  <2>2. ChipInv'
    BY <1>5 DEF Panic, Crash, NotStarted, Phases, ChipInv, PlacesInv, RandomInv, HeapInv,
        LoopInv, Idle
  <2>3. Told
    BY <1>5 DEF Panic, Crash, NotStarted, Phases, Told, Printed, ChipInv, LoopInv
  <2> QED
    BY <2>1, <2>2, <2>3 DEF ChipStep
<1>6. CASE Reboot /\ UNCHANGED ownVars
  <2>1. ExampleTypeOK'
    BY <1>6 DEF Reboot, NoTasks, MainPlaces, BenchPlaces, ClassicalPlaces
  <2>2. ChipInv'
    BY <1>6 DEF Reboot, NoTasks, ChipInv, PlacesInv, RandomInv, HeapInv, LoopInv, Idle
  <2>3. Told
    BY <1>6 DEF Reboot, NoTasks, Told, Printed, ChipInv, LoopInv
  <2> QED
    BY <2>1, <2>2, <2>3 DEF ChipStep
<1> QED
  BY <1>1, <1>2, <1>3, <1>4, <1>5, <1>6 DEF SigMain, sig_app_main, SigCrash

\* The task of kem_basic.
LEMMA KemBenchStep ==
  ASSUME ChipState, app = "kem", kem_test_task, UNCHANGED app, UNCHANGED ownVars
  PROVE  ChipStep
<1> USE IterationsAssumption, RebootsAssumption
        DEF IterationsAssumption, RebootsAssumption, ChipState, ExampleTypeOK, Expects,
            Tasks, At, Goto, Quiet, log, Lines,
            randVars, heapVars, loopVars, bootVars, ownVars
<1>1. CASE KemStart
  <2>1. ExampleTypeOK'
    BY <1>1 DEF KemStart, bootloader_random_enable, MainPlaces, BenchPlaces, ClassicalPlaces
  <2>2. ChipInv'
    BY <1>1 DEF KemStart, bootloader_random_enable, ChipInv, PlacesInv, RandomInv, HeapInv,
        LoopInv, Idle
  <2>3. Told
    BY <1>1 DEF KemStart, bootloader_random_enable, Told, Printed, ChipInv, LoopInv
  <2> QED
    BY <2>1, <2>2, <2>3 DEF ChipStep
<1>2. CASE KemAllocate
  <2>1. ExampleTypeOK'
    BY <1>2 DEF KemAllocate, malloc, KemFails, Buffers, KemBuffers, MainPlaces, BenchPlaces,
        ClassicalPlaces
  <2>2. ChipInv'
    BY <1>2 DEF KemAllocate, malloc, KemFails, Buffers, KemBuffers, ChipInv, PlacesInv,
        RandomInv, HeapInv, LoopInv, Idle
  <2>3. Told
    BY <1>2 DEF KemAllocate, malloc, KemFails, Buffers, KemBuffers, Told, Printed, ChipInv, LoopInv
  <2> QED
    BY <2>1, <2>2, <2>3 DEF ChipStep
<1>3. CASE OQS_KEM_keypair
  <2>1. ExampleTypeOK'
    <3>1. /\ DOMAIN task' = Tasks /\ task'["main"] \in MainPlaces
             /\ task'["bench"] \in BenchPlaces /\ task'["classical"] \in ClassicalPlaces
      BY <1>3 DEF OQS_KEM_keypair, KemFails, MainPlaces, BenchPlaces, ClassicalPlaces
    <3>2. /\ i' \in 0..iterations /\ boot' \in 0..MaxReboots
             /\ checked' \in [0..MaxReboots -> 0..iterations]
      BY <1>3 DEF OQS_KEM_keypair, Holds, KemFails, Buffers, KemBuffers, ChipInv, LoopInv
    <3>3. metrics' \in [Phases -> Nat] /\ fixed' \in BOOLEAN
      BY <1>3 DEF OQS_KEM_keypair, KemFails
    <3>4. /\ rng' \in BOOLEAN /\ entropy' \in BOOLEAN /\ weak' \in BOOLEAN
             /\ held' \subseteq Buffers /\ secrets' \subseteq Buffers /\ spilled' \in BOOLEAN
             /\ sem' \in {"NULL", "empty", "full"}
      BY <1>3 DEF OQS_KEM_keypair, Holds, KemFails, Buffers, KemBuffers, OQS_randombytes,
          esp_liboqs_randombytes, esp_fill_random
    <3> QED
      BY <3>1, <3>2, <3>3, <3>4
  <2>2. ChipInv'
    BY <1>3 DEF OQS_KEM_keypair, Holds, KemFails, Buffers, KemBuffers, OQS_randombytes,
        esp_liboqs_randombytes, esp_fill_random, ChipInv, PlacesInv, RandomInv, HeapInv,
        LoopInv, Idle
  <2>3. Told
    BY <1>3 DEF OQS_KEM_keypair, Holds, KemFails, Buffers, KemBuffers, OQS_randombytes,
        esp_liboqs_randombytes, esp_fill_random, Told, Printed, ChipInv, LoopInv
  <2> QED
    BY <2>1, <2>2, <2>3 DEF ChipStep
<1>4. CASE OQS_KEM_encaps
  <2>1. ExampleTypeOK'
    BY <1>4 DEF OQS_KEM_encaps, Holds, KemFails, Buffers, KemBuffers, OQS_randombytes,
        esp_liboqs_randombytes, esp_fill_random, MainPlaces, BenchPlaces, ClassicalPlaces
  <2>2. ChipInv'
    BY <1>4 DEF OQS_KEM_encaps, Holds, KemFails, Buffers, KemBuffers, OQS_randombytes,
        esp_liboqs_randombytes, esp_fill_random, ChipInv, PlacesInv, RandomInv, HeapInv,
        LoopInv, Idle
  <2>3. Told
    BY <1>4 DEF OQS_KEM_encaps, Holds, KemFails, Buffers, KemBuffers, OQS_randombytes,
        esp_liboqs_randombytes, esp_fill_random, Told, Printed, ChipInv, LoopInv
  <2> QED
    BY <2>1, <2>2, <2>3 DEF ChipStep
<1>5. CASE OQS_KEM_decaps
  <2>1. ExampleTypeOK'
    BY <1>5 DEF OQS_KEM_decaps, Holds, KemFails, Buffers, KemBuffers, MainPlaces, BenchPlaces,
        ClassicalPlaces
  <2>2. ChipInv'
    BY <1>5 DEF OQS_KEM_decaps, Holds, KemFails, Buffers, KemBuffers, ChipInv, PlacesInv,
        RandomInv, HeapInv, LoopInv, Idle
  <2>3. Told
    BY <1>5 DEF OQS_KEM_decaps, Holds, KemFails, Buffers, KemBuffers, Told, Printed, ChipInv,
        LoopInv
  <2> QED
    BY <2>1, <2>2, <2>3 DEF ChipStep
<1>6. CASE CompareSecrets
  <2>1. ExampleTypeOK'
    <3>1. /\ DOMAIN task' = Tasks /\ task'["main"] \in MainPlaces
             /\ task'["bench"] \in BenchPlaces /\ task'["classical"] \in ClassicalPlaces
      BY <1>6 DEF CompareSecrets, NextIteration, KemFails, MainPlaces, BenchPlaces, ClassicalPlaces
    <3>2. /\ i' \in 0..iterations /\ boot' \in 0..MaxReboots
             /\ checked' \in [0..MaxReboots -> 0..iterations]
      BY <1>6 DEF CompareSecrets, NextIteration, KemFails, ChipInv, LoopInv
    <3>3. metrics' \in [Phases -> Nat] /\ fixed' \in BOOLEAN
      BY <1>6 DEF CompareSecrets, NextIteration, KemFails
    <3>4. /\ rng' \in BOOLEAN /\ entropy' \in BOOLEAN /\ weak' \in BOOLEAN
             /\ held' \subseteq Buffers /\ secrets' \subseteq Buffers /\ spilled' \in BOOLEAN
             /\ sem' \in {"NULL", "empty", "full"}
      BY <1>6 DEF CompareSecrets, NextIteration, KemFails
    <3> QED
      BY <3>1, <3>2, <3>3, <3>4
  <2>2. ChipInv'
    <3>1. PlacesInv'
      BY <1>6 DEF CompareSecrets, NextIteration, KemFails, ChipInv, LoopInv, PlacesInv, Idle
    <3>2. RandomInv'
      BY <1>6 DEF CompareSecrets, NextIteration, KemFails, ChipInv, LoopInv, RandomInv, Idle
    <3>3. HeapInv'
      BY <1>6 DEF CompareSecrets, NextIteration, KemFails, ChipInv, LoopInv, HeapInv, Idle
    <3>4. LoopInv'
      BY <1>6 DEF CompareSecrets, NextIteration, KemFails, ChipInv, LoopInv, Idle
    <3> QED
      BY <3>1, <3>2, <3>3, <3>4 DEF ChipInv
  <2>3. Told
    BY <1>6 DEF CompareSecrets, NextIteration, KemFails, ChipInv, LoopInv, Told, Printed
  <2> QED
    BY <2>1, <2>2, <2>3 DEF ChipStep
<1>7. CASE KemStatistics
  <2>1. ExampleTypeOK'
    BY <1>7 DEF KemStatistics, MainPlaces, BenchPlaces, ClassicalPlaces
  <2>2. ChipInv'
    BY <1>7 DEF KemStatistics, ChipInv, PlacesInv, RandomInv, HeapInv, LoopInv, Idle
  <2>3. Told
    BY <1>7 DEF KemStatistics, Told, Printed, ChipInv, LoopInv
  <2> QED
    BY <2>1, <2>2, <2>3 DEF ChipStep
<1>8. CASE KemCleanup
  <2>1. ExampleTypeOK'
    BY <1>8 DEF KemCleanup, FreeAll, MainPlaces, BenchPlaces, ClassicalPlaces
  <2>2. ChipInv'
    BY <1>8 DEF KemCleanup, FreeAll, ChipInv, PlacesInv, RandomInv, HeapInv, LoopInv, Idle
  <2>3. Told
    BY <1>8 DEF KemCleanup, FreeAll, Told, Printed, ChipInv, LoopInv
  <2> QED
    BY <2>1, <2>2, <2>3 DEF ChipStep
<1>9. CASE KemComplete
  <2>1. ExampleTypeOK'
    BY <1>9 DEF KemComplete, bootloader_random_disable, MainPlaces, BenchPlaces, ClassicalPlaces
  <2>2. ChipInv'
    BY <1>9 DEF KemComplete, bootloader_random_disable, ChipInv, PlacesInv, RandomInv, HeapInv,
        LoopInv, Idle
  <2>3. Told
    BY <1>9 DEF KemComplete, bootloader_random_disable, Told, Printed, ChipInv, LoopInv
  <2> QED
    BY <2>1, <2>2, <2>3 DEF ChipStep
<1>10. CASE KemGive
  <2>1. ExampleTypeOK'
    <3>1. /\ DOMAIN task' = Tasks /\ task'["main"] \in MainPlaces
             /\ task'["bench"] \in BenchPlaces /\ task'["classical"] \in ClassicalPlaces
      BY <1>10 DEF KemGive, xSemaphoreGive, Crash, MainPlaces, BenchPlaces, ClassicalPlaces
    <3>2. /\ i' \in 0..iterations /\ boot' \in 0..MaxReboots
             /\ checked' \in [0..MaxReboots -> 0..iterations]
      BY <1>10 DEF KemGive, xSemaphoreGive, Crash, ChipInv, LoopInv
    <3>3. metrics' \in [Phases -> Nat] /\ fixed' \in BOOLEAN
      BY <1>10 DEF KemGive, xSemaphoreGive, Crash
    <3>4. /\ rng' \in BOOLEAN /\ entropy' \in BOOLEAN /\ weak' \in BOOLEAN
             /\ held' \subseteq Buffers /\ secrets' \subseteq Buffers /\ spilled' \in BOOLEAN
             /\ sem' \in {"NULL", "empty", "full"}
      BY <1>10 DEF KemGive, xSemaphoreGive, Crash
    <3> QED
      BY <3>1, <3>2, <3>3, <3>4
  <2>2. ChipInv'
    <3>1. PlacesInv'
      BY <1>10 DEF KemGive, xSemaphoreGive, Crash, ChipInv, PlacesInv, Idle
    <3>2. RandomInv'
      BY <1>10 DEF KemGive, xSemaphoreGive, Crash, ChipInv, RandomInv, Idle
    <3>3. HeapInv'
      <4>1. held = {} /\ secrets = {} /\ ~spilled
        BY <1>10 DEF KemGive, ChipInv, HeapInv
      <4>2. held' = {} /\ secrets' = {} /\ ~spilled'
        BY <1>10, <4>1 DEF KemGive, Crash
      <4> QED
        BY <1>10, <4>2 DEF HeapInv
    <3>4. LoopInv'
      BY <1>10 DEF KemGive, xSemaphoreGive, Crash, ChipInv, LoopInv, Idle
    <3> QED
      BY <3>1, <3>2, <3>3, <3>4 DEF ChipInv
  <2>3. Told
    BY <1>10 DEF KemGive, xSemaphoreGive, Crash, Told, Printed, ChipInv, LoopInv
  <2> QED
    BY <2>1, <2>2, <2>3 DEF ChipStep
<1> QED
  BY <1>1, <1>2, <1>3, <1>4, <1>5, <1>6, <1>7, <1>8, <1>9, <1>10 DEF kem_test_task

\* The start and app_main of kem_basic, and the crashes.
LEMMA KemMainStep ==
  ASSUME ChipState, app = "kem", KemMain, UNCHANGED app, UNCHANGED ownVars
  PROVE  ChipStep
<1> USE IterationsAssumption, RebootsAssumption
        DEF IterationsAssumption, RebootsAssumption, ChipState, ExampleTypeOK, Expects,
            Tasks, At, Goto, Quiet, log, Lines,
            randVars, heapVars, loopVars, bootVars, ownVars
<1>1. CASE esp_liboqs_init
  <2>1. ExampleTypeOK'
    BY <1>1 DEF esp_liboqs_init, esp_liboqs_rng_init, MainPlaces, BenchPlaces, ClassicalPlaces
  <2>2. ChipInv'
    BY <1>1 DEF esp_liboqs_init, esp_liboqs_rng_init, ChipInv, PlacesInv, RandomInv, HeapInv,
        LoopInv, Idle
  <2>3. Told
    BY <1>1 DEF esp_liboqs_init, esp_liboqs_rng_init, Told, Printed, ChipInv, LoopInv
  <2> QED
    BY <2>1, <2>2, <2>3 DEF ChipStep
<1>2. CASE KemCreateSemaphore
  <2>1. ExampleTypeOK'
    BY <1>2 DEF KemCreateSemaphore, xSemaphoreCreateBinary, MainPlaces, BenchPlaces, ClassicalPlaces
  <2>2. ChipInv'
    BY <1>2 DEF KemCreateSemaphore, xSemaphoreCreateBinary, ChipInv, PlacesInv, RandomInv,
        HeapInv, LoopInv, Idle
  <2>3. Told
    BY <1>2 DEF KemCreateSemaphore, xSemaphoreCreateBinary, Told, Printed, ChipInv, LoopInv
  <2> QED
    BY <2>1, <2>2, <2>3 DEF ChipStep
<1>3. CASE CreateKemTask
  <2>1. ExampleTypeOK'
    BY <1>3 DEF CreateKemTask, MainPlaces, BenchPlaces, ClassicalPlaces
  <2>2. ChipInv'
    <3>1. PlacesInv'
      BY <1>3 DEF CreateKemTask, ChipInv, PlacesInv, Idle
    <3>2. RandomInv'
      BY <1>3 DEF CreateKemTask, ChipInv, RandomInv, Idle
    <3>3. HeapInv'
      BY <1>3 DEF CreateKemTask, ChipInv, HeapInv, Idle, PlacesInv
    <3>4. LoopInv'
      BY <1>3 DEF CreateKemTask, ChipInv, LoopInv, Idle, PlacesInv
    <3> QED
      BY <3>1, <3>2, <3>3, <3>4 DEF ChipInv
  <2>3. Told
    BY <1>3 DEF CreateKemTask, Told, Printed, ChipInv, LoopInv
  <2> QED
    BY <2>1, <2>2, <2>3 DEF ChipStep
<1>4. CASE Panic
  <2>1. ExampleTypeOK'
    <3>1. /\ DOMAIN task' = Tasks /\ task'["main"] \in MainPlaces
             /\ task'["bench"] \in BenchPlaces /\ task'["classical"] \in ClassicalPlaces
      BY <1>4 DEF Panic, Crash, MainPlaces, BenchPlaces, ClassicalPlaces
    <3>2. /\ i' \in 0..iterations /\ boot' \in 0..MaxReboots
             /\ checked' \in [0..MaxReboots -> 0..iterations]
      BY <1>4 DEF Panic, Crash, ChipInv, LoopInv
    <3>3. metrics' \in [Phases -> Nat] /\ fixed' \in BOOLEAN
      BY <1>4 DEF Panic, Crash
    <3>4. /\ rng' \in BOOLEAN /\ entropy' \in BOOLEAN /\ weak' \in BOOLEAN
             /\ held' \subseteq Buffers /\ secrets' \subseteq Buffers /\ spilled' \in BOOLEAN
             /\ sem' \in {"NULL", "empty", "full"}
      BY <1>4 DEF Panic, Crash
    <3> QED
      BY <3>1, <3>2, <3>3, <3>4
  <2>2. ChipInv'
    BY <1>4 DEF Panic, Crash, ChipInv, PlacesInv, RandomInv, HeapInv, LoopInv, Idle
  <2>3. Told
    BY <1>4 DEF Panic, Crash, Told, Printed, ChipInv, LoopInv
  <2> QED
    BY <2>1, <2>2, <2>3 DEF ChipStep
<1>5. CASE Reboot
  <2>1. ExampleTypeOK'
    BY <1>5 DEF Reboot, NoTasks, MainPlaces, BenchPlaces, ClassicalPlaces
  <2>2. ChipInv'
    BY <1>5 DEF Reboot, NoTasks, ChipInv, PlacesInv, RandomInv, HeapInv, LoopInv, Idle
  <2>3. Told
    BY <1>5 DEF Reboot, NoTasks, Told, Printed, ChipInv, LoopInv
  <2> QED
    BY <2>1, <2>2, <2>3 DEF ChipStep
<1> QED
  BY <1>1, <1>2, <1>3, <1>4, <1>5 DEF KemMain, kem_app_main

\* A step of the chip, of either application, changes nothing of the runner.
LEMMA ChipKeeps ==
  ASSUME ChipState, SigRun(SigNext) \/ KemRun(KemNext)
  PROVE  ChipStep /\ UNCHANGED <<app, rvars>>
<1>1. CASE SigRun(SigNext)
  <2>1. app = "signature" /\ SigNext /\ UNCHANGED <<app, rvars>>
    BY <1>1 DEF SigRun, Chip
  <2>2. signature_test_task \/ classical_rsa_ecdsa_task \/ SigMain
    BY <2>1 DEF SigNext, SigMain
  <2> QED
    BY <2>1, <2>2, SigBenchStep, ClassicalStep, SigMainStep
<1>2. CASE KemRun(KemNext)
  <2>1. app = "kem" /\ KemNext /\ UNCHANGED <<app, rvars>> /\ UNCHANGED ownVars
    BY <1>2 DEF KemRun, Chip
  <2>2. kem_test_task \/ KemMain
    BY <2>1 DEF KemNext, KemMain
  <2> QED
    BY <2>1, <2>2, KemBenchStep, KemMainStep
<1> QED
  BY <1>1, <1>2

-----------------------------------------------------------------------------
(* The printed lines.                                                      *)

\* Lines are added, and those that were there stay.
LEMMA Grows ==
  ASSUME uart \in Seq(Lines), Told
  PROVE  /\ uart' \in Seq(Lines)
         /\ Len(uart') \in {Len(uart), Len(uart) + 1}
         /\ \A k \in 1..Len(uart) : uart'[k] = uart[k]
<1>1. CASE uart' = uart
  BY <1>1
<1>2. CASE \E line \in Lines : uart' = Append(uart, line)
  BY <1>2
<1> QED
  BY <1>1, <1>2 DEF Told, Printed

\* What the chip does keeps the runner's part and what is known of the lines.
LEMMA RunnerKept ==
  ASSUME CiInv, Told, boot' \in Nat, UNCHANGED <<app, rvars>>
  PROVE  RunnerTypeOK' /\ LinesInv' /\ JudgeInv'
<1>1. /\ uart \in Seq(Lines) /\ got \in 0..Len(uart) /\ taken \in 0..got
      /\ boot \in Nat
  BY RebootsAssumption DEF CiInv, CiTypeOK, RunnerTypeOK, ExampleTypeOK, RebootsAssumption
<1>2. /\ uart' \in Seq(Lines)
      /\ Len(uart') \in {Len(uart), Len(uart) + 1}
      /\ \A k \in 1..Len(uart) : uart'[k] = uart[k]
  BY <1>1, Grows
<1>3. /\ Len(uart) \in Nat /\ Len(uart') \in Nat /\ Len(uart) <= Len(uart')
      /\ got \in Nat /\ taken \in Nat /\ taken <= Len(uart)
  BY <1>1, <1>2
<1>4. RunnerTypeOK'
  <2>1. got' \in 0..Len(uart')
    BY <1>1, <1>3 DEF rvars
  <2> QED
    BY <1>2, <2>1 DEF CiInv, CiTypeOK, RunnerTypeOK, rvars, mainVars
<1>5. ASSUME NEW n \in 0..Len(uart)
      PROVE  CrashIn(n) <=> \E k \in 1..n : uart'[k] = "crash"
  BY <1>2, <1>3 DEF CrashIn
<1>6. LinesInv'
  <2>1. boot' > 0 \/ task'["main"] = "down" => \E k \in 1..Len(uart') : uart'[k] = "crash"
    <3>1. CASE boot > 0 \/ At("main", "down")
      <4>1. CrashIn(Len(uart))
        BY <3>1 DEF CiInv, LinesInv
      <4> QED
        BY <1>2, <1>3, <4>1 DEF CrashIn
    <3>2. CASE uart' = Append(uart, "crash")
      <4>1. uart'[Len(uart) + 1] = "crash" /\ Len(uart') = Len(uart) + 1
        BY <1>1, <3>2
      <4> QED
        BY <1>3, <4>1
    <3> QED
      BY <3>1, <3>2 DEF Told
  <2>2. ASSUME NEW k \in 1..Len(uart'), uart'[k] \in {"statistics", "iterations"}
        PROVE  checked'[0] = iterations \/ \E j \in 1..(k - 1) : uart'[j] = "crash"
    <3>1. CASE k <= Len(uart)
      <4>1. k \in 1..Len(uart) /\ k - 1 \in 0..Len(uart)
        BY <1>3, <3>1
      <4>2. checked[0] = iterations \/ CrashIn(k - 1)
        BY <1>2, <2>2, <4>1 DEF CiInv, LinesInv
      <4>3. CrashIn(k - 1) => \E j \in 1..(k - 1) : uart'[j] = "crash"
        BY <1>5, <4>1
      <4> QED
        BY <4>2, <4>3 DEF Told
    <3>2. CASE k > Len(uart)
      <4>1. k = Len(uart) + 1 /\ k - 1 = Len(uart) /\ uart' # uart
        BY <1>2, <1>3, <3>2
      <4>2. PICK line \in Lines : Printed(line)
        BY <4>1 DEF Told
      <4>3. line = uart'[k]
        <5>1. uart' = Append(uart, line)
          BY <4>2 DEF Printed
        <5>2. uart'[Len(uart) + 1] = line
          BY <1>1, <5>1
        <5> QED
          BY <4>1, <5>2
      <4>4. boot = 0 => checked[0] = iterations
        BY <2>2, <4>2, <4>3 DEF Printed
      <4>5. boot > 0 => CrashIn(Len(uart))
        BY DEF CiInv, LinesInv
      <4>6. CrashIn(Len(uart)) => \E j \in 1..(k - 1) : uart'[j] = "crash"
        BY <1>3, <1>5, <4>1
      <4> QED
        BY <1>1, <4>4, <4>5, <4>6 DEF Told
    <3> QED
      BY <1>3, <3>1, <3>2
  <2> QED
    BY <2>1, <2>2 DEF LinesInv, CrashIn, At
<1>7. JudgeInv'
  <2>1. /\ UNCHANGED <<app, expects, proc, taken, judge, seen, late, verdict>>
    BY DEF rvars, mainVars
  <2>2. CrashIn(taken)' <=> CrashIn(taken)
    BY <1>3, <1>5, <2>1 DEF CrashIn
  <2>3. \A line \in seen : \E k \in 1..taken : uart'[k] = line
    BY <1>2, <1>3 DEF CiInv, JudgeInv
  <2> QED
    BY <2>1, <2>2, <2>3 DEF CiInv, JudgeInv, Expects
<1> QED
  BY <1>4, <1>6, <1>7

-----------------------------------------------------------------------------
(* The steps of the runner.                                                *)

\* A step that takes no line.
LEMMA NoLine ==
  ASSUME CiInv,
         \/ reader \/ Time \/ EmulatorExits \/ CheckDeadline \/ QueueEmpty \/ Poll
         \/ CheckEmpty \/ Report \/ Terminate \/ Wait \/ Kill,
         UNCHANGED <<app, uart>>
  PROVE  RunnerTypeOK' /\ JudgeInv'
<1> USE DEF CiInv, CiTypeOK, Judging, mainVars
<1>1. UNCHANGED <<expects, taken, seen>>
  BY DEF reader, Time, EmulatorExits, CheckDeadline, QueueEmpty, Poll, CheckEmpty, Report,
         Terminate, Wait, Kill
<1>2. RunnerTypeOK'
  <2>1. /\ Len(uart) \in Nat /\ got \in 0..Len(uart)
        /\ got' \in 0..Len(uart) /\ got <= got'
    BY DEF RunnerTypeOK, reader, Time, EmulatorExits, CheckDeadline, QueueEmpty, Poll,
           CheckEmpty, Report, Terminate, Wait, Kill
  <2>2. got' \in 0..Len(uart') /\ taken' \in 0..got'
    BY <1>1, <2>1 DEF RunnerTypeOK
  <2> QED
    BY <1>1, <2>2 DEF RunnerTypeOK, reader, Time, EmulatorExits, CheckDeadline, QueueEmpty, Poll,
           CheckEmpty, Report, Terminate, Wait, Kill
<1>3. JudgeInv'
  <2>1. CrashIn(taken)' <=> CrashIn(taken)
    BY <1>1 DEF CrashIn
  <2>2. \A line \in seen' : \E k \in 1..taken' : uart'[k] = line
    BY <1>1 DEF JudgeInv
  <2>3. expects' = Expects[app'] /\ (verdict' = "PASS" => verdict = "PASS")
    BY <1>1 DEF JudgeInv, Expects, reader, Time, EmulatorExits, CheckDeadline, QueueEmpty,
           Poll, CheckEmpty, Report, Terminate, Wait, Kill
  <2> QED
    BY <1>1, <2>1, <2>2, <2>3 DEF JudgeInv, RunnerTypeOK, reader, Time, EmulatorExits,
           CheckDeadline, QueueEmpty, Poll, CheckEmpty, Report, Terminate, Wait, Kill
<1> QED
  BY <1>2, <1>3

\* The main loop takes a line.
LEMMA OneLine ==
  ASSUME CiInv, JudgeLine, UNCHANGED <<app, uart>>
  PROVE  RunnerTypeOK' /\ JudgeInv'
<1>1. /\ taken \in Nat /\ got \in Nat /\ Len(uart) \in Nat /\ uart \in Seq(Lines)
      /\ taken < got /\ got <= Len(uart) /\ taken' = taken + 1 /\ UNCHANGED got
  BY DEF CiInv, CiTypeOK, RunnerTypeOK, JudgeLine
<1> DEFINE line == uart[taken + 1]
<1>2. line \in Lines
  BY <1>1
<1>3. /\ UNCHANGED <<expects, proc, late>> /\ judge = "get" /\ verdict = "none"
      /\ judge' \in {"loop", "finally"}
      /\ seen' = seen \/ seen' = seen \cup ({line} \cap expects)
  BY DEF CiInv, JudgeInv, JudgeLine, Judging
<1>4. \/ line = "crash" /\ judge' = "finally" /\ verdict' = "FAIL"
      \/ line # "crash" /\ judge' = "finally" /\ verdict' = "PASS" /\ seen' = expects
      \/ line # "crash" /\ judge' = "loop" /\ verdict' = "none"
  <2>1. \/ line \in {"crash"} /\ judge' = "finally" /\ verdict' = "FAIL"
        \/ line \notin {"crash"} /\ seen' = expects /\ judge' = "finally" /\ verdict' = "PASS"
        \/ line \notin {"crash"} /\ judge' = "loop" /\ verdict' = verdict
    BY Zenon DEF JudgeLine, DEFAULT_FAIL_PATTERNS
  <2> QED
    BY <1>3, <2>1
<1>5. CrashIn(taken)' <=> line = "crash"
  <2>1. ~CrashIn(taken)
    BY <1>3 DEF CiInv, JudgeInv
  <2> QED
    BY <1>1, <2>1 DEF CrashIn
<1>6. RunnerTypeOK'
  BY <1>1, <1>3, <1>4 DEF CiInv, CiTypeOK, RunnerTypeOK
<1>7. JudgeInv'
  <2>1. \A l \in seen' : \E k \in 1..taken' : uart'[k] = l
    BY <1>1, <1>3 DEF CiInv, JudgeInv
  <2>2. proc' \in {"up", "exited"} /\ expects' = Expects[app']
    BY <1>3 DEF CiInv, JudgeInv, Expects
  <2> QED
    BY <1>3, <1>4, <1>5, <2>1, <2>2 DEF JudgeInv
<1> QED
  BY <1>6, <1>7

\* A step of the runner changes nothing of the chip.
LEMMA RunnerStep ==
  ASSUME CiInv, Runner(RunnerNext)
  PROVE  CiInv'
<1>1. RunnerNext /\ UNCHANGED <<app, svars>>
  BY DEF Runner
<1>2. RunnerTypeOK' /\ JudgeInv'
  BY <1>1, NoLine, OneLine DEF RunnerNext, run_emulator, svars, evars
<1>3. ExampleTypeOK' /\ ChipInv' /\ LinesInv' /\ app' \in DOMAIN Expects
  BY <1>1 DEF CiInv, CiTypeOK, ExampleTypeOK, ChipInv, PlacesInv, RandomInv, HeapInv, LoopInv,
         LinesInv, CrashIn, At, svars, evars, ownVars, randVars, heapVars, loopVars, bootVars,
         Expects
<1> QED
  BY <1>2, <1>3 DEF CiInv, CiTypeOK

-----------------------------------------------------------------------------
(* The theorems.                                                           *)

\* CiInv holds at the start.
LEMMA CiStart == CiInit => CiInv
<1> SUFFICES ASSUME CiInit PROVE CiInv
  OBVIOUS
<1> USE IterationsAssumption, RebootsAssumption
    DEF IterationsAssumption, RebootsAssumption, CiInit, SigInit, EInit, RunnerInit, Expects
<1>1. ExampleTypeOK
  BY DEF ExampleTypeOK, NoTasks, Tasks, MainPlaces, BenchPlaces, ClassicalPlaces, NotStarted,
         Buffers
<1>2. RunnerTypeOK
  BY DEF RunnerTypeOK, Lines
<1>3. ChipInv
  BY DEF ChipInv, PlacesInv, RandomInv, HeapInv, LoopInv, NoTasks, Tasks, At, Idle
<1>4. LinesInv
  BY DEF LinesInv, CrashIn, NoTasks, Tasks, At
<1>5. JudgeInv
  BY DEF JudgeInv, CrashIn
<1> QED
  BY <1>1, <1>2, <1>3, <1>4, <1>5 DEF CiInv, CiTypeOK

\* Every step keeps CiInv.
LEMMA CiKeeps == CiInv /\ [CiNext]_civars => CiInv'
<1> SUFFICES ASSUME CiInv, [CiNext]_civars PROVE CiInv'
  OBVIOUS
<1>1. CASE SigRun(SigNext) \/ KemRun(KemNext)
  <2>1. ChipState
    BY DEF ChipState, CiInv, CiTypeOK
  <2>2. ChipState' /\ Told /\ UNCHANGED <<app, rvars>>
    BY <1>1, <2>1, ChipKeeps DEF ChipStep
  <2>3. boot' \in Nat
    BY <2>2, RebootsAssumption DEF ChipState, ExampleTypeOK, RebootsAssumption
  <2>4. RunnerTypeOK' /\ LinesInv' /\ JudgeInv'
    BY <2>2, <2>3, RunnerKept
  <2> QED
    BY <2>2, <2>4 DEF CiInv, CiTypeOK, ChipState
<1>2. CASE Runner(RunnerNext)
  BY <1>2, RunnerStep
<1>3. CASE UNCHANGED civars
  <2>1. RunnerTypeOK' /\ JudgeInv'
    BY <1>3 DEF CiInv, CiTypeOK, RunnerTypeOK, JudgeInv, CrashIn, Expects, civars, svars, evars,
           rvars, mainVars
  <2>2. ExampleTypeOK' /\ ChipInv' /\ LinesInv' /\ app' \in DOMAIN Expects
    BY <1>3 DEF CiInv, CiTypeOK, ExampleTypeOK, ChipInv, PlacesInv, RandomInv, HeapInv, LoopInv,
           LinesInv, CrashIn, At, civars, svars, evars, ownVars, randVars, heapVars, loopVars,
           bootVars, Expects
  <2> QED
    BY <2>1, <2>2 DEF CiInv, CiTypeOK
<1> QED
  BY <1>1, <1>2, <1>3 DEF CiNext

\* The invariant of the composition holds in every reachable state.
THEOREM CiInvariant == CiSpec => []CiInv
<1> QED
  BY CiStart, CiKeeps, PTL DEF CiSpec

\* Every variable of the chip and of the runner stays in its type: no iteration is counted
\* twice, and the main loop never takes a line that was not printed.
THEOREM CiTypeCorrect == CiSpec => []CiTypeOK
<1>1. CiInv => CiTypeOK
  BY DEF CiInv
<1> QED
  BY <1>1, CiInvariant, PTL

\* All random bytes that are used were drawn while the entropy source was on
\* (signature_basic.c:598, kem_basic.c:463).
THEOREM CiDrawnFromEntropy == CiSpec => []DrawnFromEntropy
<1>1. CiInv => DrawnFromEntropy
  BY DEF CiInv, ChipInv, RandomInv, DrawnFromEntropy
<1> QED
  BY <1>1, CiInvariant, PTL

\* The classical algorithms run only after the first task (signature_basic.c:558).
THEOREM CiOneAfterTheOther == CiSpec => []OneAfterTheOther
<1>1. CiInv => OneAfterTheOther
  BY DEF CiInv, ChipInv, PlacesInv, HeapInv, OneAfterTheOther, At
<1> QED
  BY <1>1, CiInvariant, PTL

\* Both tests return with everything freed and wiped (signature_basic.c:468, kem_basic.c:402).
THEOREM CiReleased == CiSpec => []Released
<1>1. CiInv => Released
  BY DEF CiInv, ChipInv, HeapInv, Released
<1> QED
  BY <1>1, CiInvariant, PTL

\* A PASS of ci/emu_run.py means that all iterations came out right in the first boot.
THEOREM CiPassMeansDone == CiSpec => []PassMeansDone
<1>1. CiInv => PassMeansDone
  <2> SUFFICES ASSUME CiInv, verdict = "PASS"
               PROVE  checked[0] = iterations /\ \A k \in 1..taken : uart[k] # "crash"
    BY DEF PassMeansDone
  <2>1. /\ ~CrashIn(taken) /\ seen = Expects[app]
        /\ \A line \in seen : \E k \in 1..taken : uart[k] = line
        /\ app \in {"signature", "kem"}
    BY DEF CiInv, CiTypeOK, JudgeInv, Expects
  <2>2. PICK line \in seen : line \in {"statistics", "iterations"}
    BY <2>1 DEF Expects
  <2>3. PICK k \in 1..taken : uart[k] = line
    BY <2>1, <2>2
  <2>4. taken \in Nat /\ k \in 1..Len(uart) /\ \A j \in 1..(k - 1) : j \in 1..taken
    BY <2>3 DEF CiInv, CiTypeOK, RunnerTypeOK
  <2>5. checked[0] = iterations \/ CrashIn(k - 1)
    BY <2>2, <2>3, <2>4 DEF CiInv, LinesInv
  <2> QED
    BY <2>1, <2>4, <2>5 DEF CrashIn
<1> QED
  BY <1>1, CiInvariant, PTL

\* A FAIL of ci/emu_run.py has one of three causes.
THEOREM CiFailForCause == CiSpec => []FailForCause
<1>1. CiInv => FailForCause
  BY DEF CiInv, JudgeInv, CrashIn, FailForCause
<1> QED
  BY <1>1, CiInvariant, PTL
=============================================================================
