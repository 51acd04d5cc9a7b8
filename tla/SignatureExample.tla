-------------------------- MODULE SignatureExample --------------------------
(***************************************************************************)
(* examples/signature_basic: app_main turns the entropy source on and      *)
(* creates two tasks, which run one after the other by way of a            *)
(* semaphore; the first signs and verifies with ML-DSA, the second runs    *)
(* RSA and ECDSA and turns the source off.  Each call that may fail is a   *)
(* step of its own, with its goto.                                         *)
(***************************************************************************)
EXTENDS Example

VARIABLES
  fixed,      \* USE_COMMON_TEST_KEYS
  metrics     \* ml_dsa_metrics[phase].iterations

ownVars == <<fixed, metrics>>
svars == <<evars, ownVars>>

Phases     == {"keygen", "sign", "verify"}
NotStarted == [p \in Phases |-> 0]

\* public_key, message and signature hold no secret and are one.
SigBuffers == {"secret_key", "open"}

Measured(p) == metrics' = [metrics EXCEPT ![p] = @ + 1]

\* A failure is logged and taken to the cleanup label.
SigFails == log("other") /\ Goto("bench", "cleanup") /\ UNCHANGED <<sem, metrics>>

-----------------------------------------------------------------------------
(* app_main.                                                               *)

\* The semaphore, without which nothing runs, and the entropy source.
CreateSemaphore ==
  /\ At("main", "app_main")
  /\ \/ xSemaphoreCreateBinary /\ bootloader_random_enable
        /\ Goto("main", "create_sig") /\ Quiet
     \/ log("other") /\ Goto("main", "over") /\ UNCHANGED <<sem, randVars>>
  /\ UNCHANGED <<heapVars, loopVars, bootVars, ownVars>>

\* xTaskCreate of signature_test_task; a failure is the end of app_main.
CreateSigTask ==
  /\ At("main", "create_sig")
  /\ \/ /\ task' = [task EXCEPT !["main"] = "create_classical", !["bench"] = "start"]
        /\ Quiet
     \/ log("other") /\ Goto("main", "over")
  /\ UNCHANGED <<randVars, heapVars, loopVars, bootVars, sem, ownVars>>

\* xTaskCreate of classical_rsa_ecdsa_task, whose result is not looked at.
CreateClassicalTask ==
  /\ At("main", "create_classical")
  /\ \/ task' = [task EXCEPT !["main"] = "over", !["classical"] = "take"]
     \/ Goto("main", "over")
  /\ UNCHANGED <<randVars, heapVars, loopVars, bootVars, uart, sem, ownVars>>

-----------------------------------------------------------------------------
(* signature_test_task and test_signature.                                 *)

\* Mutant: without the algorithm the task ends, and the semaphore stays taken.
SigStartReturns ==
  /\ At("bench", "start")
  /\ \/ Goto("bench", "new") /\ Quiet
     \/ Goto("bench", "deleted") /\ log("other")
  /\ UNCHANGED <<randVars, heapVars, loopVars, bootVars, sem, ownVars>>

\* The algorithm is in the build, or there is nothing to do.
SigStart ==
  /\ At("bench", "start")
  /\ \/ Goto("bench", "new") /\ Quiet
     \/ Goto("bench", "give") /\ log("other")
  /\ UNCHANGED <<randVars, heapVars, loopVars, bootVars, sem, ownVars>>

\* Mutant: a failed allocation returns at once.
AllocReturns ==
  /\ At("bench", "new")
  /\ \/ UNCHANGED heapVars /\ Goto("bench", "give") /\ log("other")
     \/ /\ malloc({"sig"} \cup SigBuffers)
        /\ IF fixed THEN Holds({"secret_key"}) ELSE UNCHANGED secrets
        /\ Goto("bench", "round") /\ Quiet /\ UNCHANGED spilled
     \/ \E got \in SUBSET SigBuffers :
          /\ got # SigBuffers /\ malloc({"sig"} \cup got)
          /\ Goto("bench", "give") /\ log("other") /\ UNCHANGED <<secrets, spilled>>
  /\ i' = 0 /\ metrics' = NotStarted
  /\ UNCHANGED <<randVars, bootVars, checked, sem, fixed>>

\* OQS_SIG_new and the four buffers, into which the fixed keys are copied. Without an
\* object there is nothing to clean up.
SigAllocate ==
  /\ At("bench", "new")
  /\ \/ UNCHANGED heapVars /\ Goto("bench", "give") /\ log("other")
     \/ /\ malloc({"sig"} \cup SigBuffers)
        /\ IF fixed THEN Holds({"secret_key"}) ELSE UNCHANGED secrets
        /\ Goto("bench", "round") /\ Quiet /\ UNCHANGED spilled
     \/ \E got \in SUBSET SigBuffers :
          /\ got # SigBuffers /\ malloc({"sig"} \cup got)
          /\ Goto("bench", "cleanup") /\ log("other") /\ UNCHANGED <<secrets, spilled>>
  /\ i' = 0 /\ metrics' = NotStarted
  /\ UNCHANGED <<randVars, bootVars, checked, sem, fixed>>

\* The keys of an iteration: the fixed ones with their message, or new ones, which are
\* measured, and a message of random bytes.
SigKeys ==
  /\ At("bench", "round") /\ i < iterations
  /\ Holds({"secret_key"})
  /\ \/ fixed /\ Goto("bench", "sign") /\ Quiet /\ UNCHANGED <<sem, metrics, randVars>>
     \/ ~fixed /\ OQS_randombytes
        /\ Measured("keygen") /\ Goto("bench", "sign") /\ Quiet /\ UNCHANGED sem
     \/ ~fixed /\ OQS_randombytes /\ SigFails
  /\ UNCHANGED <<held, spilled, loopVars, bootVars, fixed>>

\* OQS_SIG_sign, which draws random bytes.
OQS_SIG_sign ==
  /\ At("bench", "sign")
  /\ OQS_randombytes
  /\ \/ Measured("sign") /\ Goto("bench", "verify") /\ Quiet /\ UNCHANGED sem
     \/ SigFails
  /\ UNCHANGED <<heapVars, loopVars, bootVars, fixed>>

\* OQS_SIG_verify of the signature, which has to accept, and the copy made of it, for
\* which there may be no memory.
OQS_SIG_verify ==
  /\ At("bench", "verify")
  /\ \/ /\ Measured("verify") /\ Goto("bench", "corrupt") /\ Quiet /\ UNCHANGED sem
        /\ malloc({}) \/ malloc({"original_signature"})
     \/ SigFails /\ UNCHANGED held
  /\ UNCHANGED <<randVars, secrets, spilled, loopVars, bootVars, fixed>>

\* Mutant: the corrupted signature's result is not looked at.
CorruptedUnchecked ==
  /\ At("bench", "corrupt")
  /\ OQS_randombytes
  /\ held' = held \ {"original_signature"}
  /\ \/ NextIteration /\ Goto("bench", "round") /\ Quiet /\ UNCHANGED <<sem, metrics>>
     \/ i' = i + 1 /\ Goto("bench", "round") /\ Quiet /\ UNCHANGED <<sem, metrics, checked>>
  /\ UNCHANGED <<secrets, spilled, bootVars, fixed>>

\* Random bytes in place of the signature have to be refused.
VerifyCorrupted ==
  /\ At("bench", "corrupt")
  /\ OQS_randombytes
  /\ held' = held \ {"original_signature"}
  /\ \/ NextIteration /\ Goto("bench", "round") /\ Quiet /\ UNCHANGED <<sem, metrics>>
     \/ SigFails /\ UNCHANGED loopVars
  /\ UNCHANGED <<secrets, spilled, bootVars, fixed>>

\* A phase that was not measured says so, and has no table.
display_performance_statistics(p) ==
  IF metrics[p] = 0 THEN log("other") ELSE log("statistics")

\* The loop is through. Of the three tables only the last is looked for.
SigStatistics ==
  /\ At("bench", "round") /\ i >= iterations
  /\ display_performance_statistics("verify")
  /\ Goto("bench", "cleanup")
  /\ UNCHANGED <<randVars, heapVars, loopVars, bootVars, sem, ownVars>>

\* The cleanup label; only the secret key is wiped.
SigCleanup ==
  /\ At("bench", "cleanup")
  /\ FreeAll({"secret_key"})
  /\ Goto("bench", "give")
  /\ UNCHANGED <<randVars, loopVars, bootVars, uart, sem, ownVars>>

\* Mutant: the first task turns the source off when it is through.
SigGiveAndDisable ==
  /\ At("bench", "give")
  /\ xSemaphoreGive("bench")
  /\ bootloader_random_disable
  /\ UNCHANGED <<heapVars, loopVars, bootVars, uart, ownVars>>

\* The next task may run, and this one deletes itself: one step, since nothing that is
\* modelled lies between the two. The stack that is given back is left out.
SigGive ==
  /\ At("bench", "give")
  /\ xSemaphoreGive("bench")
  /\ UNCHANGED <<randVars, heapVars, loopVars, bootVars, uart, ownVars>>

signature_test_task ==
  \/ SigStart \/ SigAllocate \/ SigKeys \/ OQS_SIG_sign \/ OQS_SIG_verify
  \/ VerifyCorrupted \/ SigStatistics \/ SigCleanup \/ SigGive

-----------------------------------------------------------------------------
(* classical_rsa_ecdsa_task.                                               *)

\* It waits until the other task has given the semaphore.
xSemaphoreTake ==
  /\ At("classical", "take") /\ sem = "full"
  /\ sem' = "empty"
  /\ Goto("classical", "rsa")
  /\ UNCHANGED <<randVars, heapVars, loopVars, bootVars, uart, ownVars>>

\* RSA-2048 and RSA-3072 keys, RSA operations and the ECDSA tests: all of them with
\* random bytes, and with buffers of their own.
ClassicalTests ==
  /\ \/ At("classical", "rsa") /\ Goto("classical", "ecdsa")
     \/ At("classical", "ecdsa") /\ Goto("classical", "disable")
  /\ esp_fill_random
  /\ UNCHANGED <<heapVars, loopVars, bootVars, uart, sem, ownVars>>

\* The last task turns the source off.
ClassicalOver ==
  /\ At("classical", "disable")
  /\ bootloader_random_disable
  /\ xSemaphoreGive("classical")
  /\ UNCHANGED <<heapVars, loopVars, bootVars, uart, ownVars>>

classical_rsa_ecdsa_task == xSemaphoreTake \/ ClassicalTests \/ ClassicalOver

sig_app_main ==
  \/ esp_liboqs_init /\ UNCHANGED ownVars
  \/ CreateSemaphore \/ CreateSigTask \/ CreateClassicalTask

SigCrash ==
  \/ Panic /\ metrics' = NotStarted /\ UNCHANGED fixed
  \/ Reboot /\ UNCHANGED ownVars

SigInit == EInit /\ fixed \in BOOLEAN /\ metrics = NotStarted

SigNext ==
  sig_app_main \/ signature_test_task \/ classical_rsa_ecdsa_task \/ SigCrash

SigSpec == SigInit /\ [][SigNext]_svars
=============================================================================
