--------------------------- MODULE LoadAddresses ---------------------------
(***************************************************************************)
(* verify_load_addresses: where in memory image_load may put a segment.    *)
(*                                                                         *)
(* Source: esp_image_format.c.  A region of addresses is a record [lo, hi] *)
(* without its end.  The same SRAM is seen by loads and stores (DRAM) and  *)
(* by instruction fetches (IRAM); the part of both where this is so is     *)
(* called D/IRAM.  On ESP32-C3 the two have different addresses, on the    *)
(* chips with one sram_seg (memory.ld.in of ESP32-C5, C6 and S31) they are *)
(* the same.  Neither reverses the order of words, so the exchange of the  *)
(* two ends of a converted region has nothing to do.                       *)
(***************************************************************************)
EXTENDS Integers

CONSTANTS
  Dram, Iram,           \* SOC_DRAM_LOW, _HIGH and SOC_IRAM_LOW, _HIGH
  DiramDram, DiramIram, \* SOC_DIRAM_DRAM_LOW, _HIGH and SOC_DIRAM_IRAM_LOW, _HIGH
  RtcMem,               \* RTC fast and slow memory
  BootStack,            \* sp - STACK_LOAD_HEADROOM to ROM_STACK_START
  BootData,             \* _dram_start to _dram_end
  LoaderText            \* _loader_text_start to _loader_text_end

Region == [lo : Nat, hi : Nat]

In(p, r) == r.lo <= p /\ p < r.hi
Part(r, s) == s.lo <= r.lo /\ r.hi <= s.hi

ASSUME RegionAssumption ==
  /\ {Dram, Iram, DiramDram, DiramIram, RtcMem, BootStack, BootData, LoaderText}
       \subseteq Region
  /\ Part(DiramDram, Dram) /\ Part(DiramIram, Iram)
  /\ DiramDram.hi - DiramDram.lo = DiramIram.hi - DiramIram.lo
  /\ Part(BootStack, Dram) /\ Part(BootData, Dram) /\ Part(LoaderText, Iram)

-----------------------------------------------------------------------------
\* Both the first and the last byte are in it.
Spans(r, lo, hi) == In(lo, r) /\ In(hi - 1, r)

\* bootloader_util_regions_overlap
Overlaps(r, lo, hi) == r.hi > lo /\ hi > r.lo

\* esp_ptr_diram_dram_to_iram and esp_ptr_diram_iram_to_dram
ToIram(p) == p - DiramDram.lo + DiramIram.lo
ToDram(p) == p - DiramIram.lo + DiramDram.lo

\* What is asked of a region as it is addressed, the call with no_recurse.
ClearAsAddressed(lo, hi) ==
  \/ hi = lo
  \/ /\ Spans(Dram, lo, hi)
     /\ ~Overlaps(BootStack, lo, hi) /\ ~Overlaps(BootData, lo, hi)
  \/ /\ ~Spans(Dram, lo, hi) /\ Spans(Iram, lo, hi)
     /\ ~Overlaps(LoaderText, lo, hi)
  \/ /\ ~Spans(Dram, lo, hi) /\ ~Spans(Iram, lo, hi) /\ Spans(RtcMem, lo, hi)

\* The part in D/IRAM as the other bus addresses it. The end is taken from the last
\* byte's place, as the end itself may be outside.
ClearAsFetched(lo, hi) ==
  ClearAsAddressed(IF In(lo, DiramDram) THEN ToIram(lo) ELSE ToIram(DiramDram.lo),
                   IF In(hi - 1, DiramDram) THEN ToIram(hi) ELSE ToIram(DiramDram.hi))

ClearAsData(lo, hi) ==
  ClearAsAddressed(IF In(lo, DiramIram) THEN ToDram(lo) ELSE ToDram(DiramIram.lo),
                   IF In(hi - 1, DiramIram) THEN ToDram(hi) ELSE ToDram(DiramIram.hi))

\* Mutant: the other bus is not looked at.
AddressesAllowedOnce(lo, hi) == ClearAsAddressed(lo, hi)

\* The whole check, with its second look through the other bus.
AddressesAllowed(lo, hi) ==
  /\ ClearAsAddressed(lo, hi)
  /\ lo < hi /\ Spans(Dram, lo, hi) /\ Overlaps(DiramDram, lo, hi) =>
       ClearAsFetched(lo, hi)
  /\ lo < hi /\ ~Spans(Dram, lo, hi) /\ Spans(Iram, lo, hi) /\ Overlaps(DiramIram, lo, hi) =>
       ClearAsData(lo, hi)

-----------------------------------------------------------------------------
(* Reference.                                                              *)

OfBootloader(q) == In(q, BootStack) \/ In(q, BootData) \/ In(q, LoaderText)

\* No byte from lo up to hi is one of the bootloader's, by whichever address.
ClearOfBootloader(lo, hi) ==
  \A p \in lo..(hi - 1) :
    /\ ~OfBootloader(p)
    /\ In(p, DiramDram) => ~OfBootloader(ToIram(p))
    /\ In(p, DiramIram) => ~OfBootloader(ToDram(p))

\* An address means data or instructions, not both (ESP32-C3).
SeparateBuses ==
  /\ \/ Dram.hi <= Iram.lo \/ Iram.hi <= Dram.lo
  /\ \A r \in {Dram, Iram} : RtcMem.hi <= r.lo \/ r.hi <= RtcMem.lo
=============================================================================
