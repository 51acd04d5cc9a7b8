----------------------------- MODULE KemExample -----------------------------
(***************************************************************************)
(* examples/kem_basic: app_main creates one task, which turns the entropy  *)
(* source on, encapsulates and decapsulates with ML-KEM under one pair of  *)
(* keys, compares the secrets, and turns the source off.                   *)
(***************************************************************************)
EXTENDS Example

\* public_key and ciphertext hold no secret and are one.
KemBuffers == {"secret_key", "shared_secret_e", "shared_secret_d", "open"}

\* A failure is logged and taken to the cleanup label.
KemFails == log("other") /\ Goto("bench", "cleanup")

\* The semaphore, whose creation is not looked at.
KemCreateSemaphore ==
  /\ At("main", "app_main")
  /\ xSemaphoreCreateBinary \/ UNCHANGED sem
  /\ Goto("main", "create_kem")
  /\ UNCHANGED <<randVars, heapVars, loopVars, bootVars, uart>>

\* xTaskCreate of kem_test_task.
CreateKemTask ==
  /\ At("main", "create_kem")
  /\ \/ task' = [task EXCEPT !["main"] = "over", !["bench"] = "start"] /\ Quiet
     \/ log("other") /\ Goto("main", "over")
  /\ UNCHANGED <<randVars, heapVars, loopVars, bootVars, sem>>

\* The entropy source, and whether the algorithm is in the build.
KemStart ==
  /\ At("bench", "start")
  /\ bootloader_random_enable
  /\ \/ Goto("bench", "new") /\ Quiet
     \/ Goto("bench", "finish") /\ log("other")
  /\ UNCHANGED <<heapVars, loopVars, bootVars, sem>>

\* OQS_KEM_new and the five buffers. Without an object there is nothing to clean up.
KemAllocate ==
  /\ At("bench", "new")
  /\ \/ UNCHANGED held /\ Goto("bench", "finish") /\ log("other")
     \/ malloc({"kem"} \cup KemBuffers) /\ Goto("bench", "keypair") /\ Quiet
     \/ \E got \in SUBSET KemBuffers :
          got # KemBuffers /\ malloc({"kem"} \cup got) /\ KemFails
  /\ UNCHANGED <<randVars, secrets, spilled, loopVars, bootVars, sem>>

\* One pair of keys for all iterations.
OQS_KEM_keypair ==
  /\ At("bench", "keypair")
  /\ OQS_randombytes
  /\ Holds({"secret_key"})
  /\ i' = 0
  /\ \/ Goto("bench", "round") /\ Quiet
     \/ KemFails
  /\ UNCHANGED <<held, spilled, checked, bootVars, sem>>

\* Mutant: one iteration more.
EncapsOnceMore ==
  /\ At("bench", "round") /\ i <= iterations
  /\ OQS_randombytes
  /\ Holds({"shared_secret_e"})
  /\ \/ Goto("bench", "decaps") /\ Quiet
     \/ KemFails
  /\ UNCHANGED <<held, spilled, loopVars, bootVars, sem>>

\* A secret is drawn and encapsulated.
OQS_KEM_encaps ==
  /\ At("bench", "round") /\ i < iterations
  /\ OQS_randombytes
  /\ Holds({"shared_secret_e"})
  /\ \/ Goto("bench", "decaps") /\ Quiet
     \/ KemFails
  /\ UNCHANGED <<held, spilled, loopVars, bootVars, sem>>

OQS_KEM_decaps ==
  /\ At("bench", "decaps")
  /\ Holds({"shared_secret_d"})
  /\ \/ Goto("bench", "compare") /\ Quiet
     \/ KemFails
  /\ UNCHANGED <<randVars, held, spilled, loopVars, bootVars, sem>>

\* memcmp of the two secrets
CompareSecrets ==
  /\ At("bench", "compare")
  /\ \/ NextIteration /\ Goto("bench", "round") /\ Quiet
     \/ KemFails /\ UNCHANGED loopVars
  /\ UNCHANGED <<randVars, heapVars, bootVars, sem>>

\* The loop is through.
KemStatistics ==
  /\ At("bench", "round") /\ i >= iterations
  /\ log("iterations")
  /\ Goto("bench", "cleanup")
  /\ UNCHANGED <<randVars, heapVars, loopVars, bootVars, sem>>

\* The cleanup label
KemCleanup ==
  /\ At("bench", "cleanup")
  /\ FreeAll({"secret_key", "shared_secret_e", "shared_secret_d"})
  /\ Goto("bench", "finish")
  /\ UNCHANGED <<randVars, loopVars, bootVars, uart, sem>>

\* Said whether the test succeeded or not.
KemComplete ==
  /\ At("bench", "finish")
  /\ bootloader_random_disable
  /\ log("complete")
  /\ Goto("bench", "give")
  /\ UNCHANGED <<heapVars, loopVars, bootVars, sem>>

\* Nobody waits for the semaphore; without one this is a failed assertion.
KemGive ==
  /\ At("bench", "give")
  /\ \/ /\ xSemaphoreGive("bench")
        /\ UNCHANGED <<randVars, heapVars, loopVars, bootVars, uart>>
     \/ sem = "NULL" /\ Crash

kem_test_task ==
  \/ KemStart \/ KemAllocate \/ OQS_KEM_keypair \/ OQS_KEM_encaps \/ OQS_KEM_decaps
  \/ CompareSecrets \/ KemStatistics \/ KemCleanup \/ KemComplete \/ KemGive

kem_app_main == esp_liboqs_init \/ KemCreateSemaphore \/ CreateKemTask

KemNext == kem_app_main \/ kem_test_task \/ Panic \/ Reboot

KemSpec == EInit /\ [][KemNext]_evars
=============================================================================
