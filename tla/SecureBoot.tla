----------------------------- MODULE SecureBoot -----------------------------
(***************************************************************************)
(* What the bootloader promises, without saying how: the chip runs no      *)
(* application, or one whose image both signature schemes vouch for and    *)
(* whose security version is not rolled back.  It may stop at any time     *)
(* (reset, power loss, deep sleep) and may refuse any image.               *)
(***************************************************************************)
CONSTANTS
  AppSlots,        \* the application partitions
  NoSlot,          \* no partition
  Trusted(_)       \* what a slot's content must satisfy

VARIABLES
  flash,           \* what each partition holds
  running          \* the slot whose application runs

Init == running = NoSlot

Start(s) ==
  /\ running = NoSlot
  /\ Trusted(flash[s])
  /\ running' = s

Stop ==
  /\ running # NoSlot
  /\ running' = NoSlot

Next == (Stop \/ \E s \in AppSlots : Start(s)) /\ UNCHANGED flash

Spec == Init /\ [][Next]_<<flash, running>>
=============================================================================
