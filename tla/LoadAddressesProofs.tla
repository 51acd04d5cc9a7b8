------------------------ MODULE LoadAddressesProofs ------------------------
(***************************************************************************)
(* What verify_load_addresses excludes, for every layout of a chip whose   *)
(* two buses have addresses of their own, and every segment.               *)
(***************************************************************************)
EXTENDS LoadAddresses, TLAPS

\* The regions' ends are numbers, and how the regions lie in each other.
LEMMA Layout ==
  /\ \A r \in {Dram, Iram, DiramDram, DiramIram, RtcMem, BootStack, BootData, LoaderText} :
       r.lo \in Nat /\ r.hi \in Nat
  /\ Dram.lo <= DiramDram.lo /\ DiramDram.hi <= Dram.hi
  /\ Iram.lo <= DiramIram.lo /\ DiramIram.hi <= Iram.hi
  /\ DiramDram.hi - DiramDram.lo = DiramIram.hi - DiramIram.lo
  /\ Dram.lo <= BootStack.lo /\ BootStack.hi <= Dram.hi
  /\ Dram.lo <= BootData.lo /\ BootData.hi <= Dram.hi
  /\ Iram.lo <= LoaderText.lo /\ LoaderText.hi <= Iram.hi
BY RegionAssumption DEF Region, Part

\* Moving a byte to the other bus keeps its place in D/IRAM.
LEMMA Moved ==
  ASSUME NEW p \in Int
  PROVE  /\ ToIram(p) \in Int /\ ToDram(p) \in Int
         /\ In(p, DiramDram) => In(ToIram(p), DiramIram) /\ In(ToIram(p), Iram)
         /\ In(p, DiramIram) => In(ToDram(p), DiramDram) /\ In(ToDram(p), Dram)
BY Layout DEF In, ToIram, ToDram

\* Data bytes are in DRAM only, and code bytes in IRAM only.
LEMMA WhoseAddress ==
  ASSUME SeparateBuses, NEW p \in Int
  PROVE  /\ In(p, Dram) => ~In(p, Iram) /\ ~In(p, LoaderText) /\ ~In(p, DiramIram)
         /\ In(p, Iram) => ~In(p, Dram) /\ ~In(p, BootStack) /\ ~In(p, BootData)
                           /\ ~In(p, DiramDram)
         /\ In(p, RtcMem) => /\ ~OfBootloader(p)
                             /\ ~In(p, DiramDram) /\ ~In(p, DiramIram)
BY Layout DEF SeparateBuses, In, OfBootloader

\* A region that is allowed as addressed, seen by its bytes.
LEMMA AsAddressed ==
  ASSUME SeparateBuses, NEW lo \in Int, NEW hi \in Int, ClearAsAddressed(lo, hi),
         NEW p \in Int, lo <= p, p < hi
  PROVE  /\ ~OfBootloader(p)
         /\ \/ Spans(Dram, lo, hi) /\ In(p, Dram)
            \/ ~Spans(Dram, lo, hi) /\ Spans(Iram, lo, hi) /\ In(p, Iram)
            \/ In(p, RtcMem)
<1>1. CASE Spans(Dram, lo, hi) /\ ~Overlaps(BootStack, lo, hi) /\ ~Overlaps(BootData, lo, hi)
  BY <1>1, Layout, WhoseAddress DEF Spans, Overlaps, In, OfBootloader
<1>2. CASE /\ ~Spans(Dram, lo, hi) /\ Spans(Iram, lo, hi)
           /\ ~Overlaps(LoaderText, lo, hi)
  BY <1>2, Layout, WhoseAddress DEF Spans, Overlaps, In, OfBootloader
<1>3. CASE Spans(RtcMem, lo, hi)
  BY <1>3, Layout, WhoseAddress DEF Spans, In
<1> QED
  BY <1>1, <1>2, <1>3 DEF ClearAsAddressed

\* The other bus's view of a region holds the other address of each of its bytes.
LEMMA AsFetched ==
  ASSUME SeparateBuses, NEW lo \in Int, NEW hi \in Int, ClearAsFetched(lo, hi),
         NEW p \in Int, lo <= p, p < hi, In(p, DiramDram)
  PROVE  ~OfBootloader(ToIram(p))
<1> DEFINE from == IF In(lo, DiramDram) THEN ToIram(lo) ELSE ToIram(DiramDram.lo)
           to   == IF In(hi - 1, DiramDram) THEN ToIram(hi) ELSE ToIram(DiramDram.hi)
<1>1. from \in Int /\ to \in Int /\ ToIram(p) \in Int
  BY Layout DEF ToIram
<1>2. from <= ToIram(p) /\ ToIram(p) < to
  BY Layout DEF ToIram, In
<1>3. ClearAsAddressed(from, to)
  BY DEF ClearAsFetched
<1> QED
  BY <1>1, <1>2, <1>3, AsAddressed

LEMMA AsData ==
  ASSUME SeparateBuses, NEW lo \in Int, NEW hi \in Int, ClearAsData(lo, hi),
         NEW p \in Int, lo <= p, p < hi, In(p, DiramIram)
  PROVE  ~OfBootloader(ToDram(p))
<1> DEFINE from == IF In(lo, DiramIram) THEN ToDram(lo) ELSE ToDram(DiramIram.lo)
           to   == IF In(hi - 1, DiramIram) THEN ToDram(hi) ELSE ToDram(DiramIram.hi)
<1>1. from \in Int /\ to \in Int /\ ToDram(p) \in Int
  BY Layout DEF ToDram
<1>2. from <= ToDram(p) /\ ToDram(p) < to
  BY Layout DEF ToDram, In
<1>3. ClearAsAddressed(from, to)
  BY DEF ClearAsData
<1> QED
  BY <1>1, <1>2, <1>3, AsAddressed

\* Whatever verify_load_addresses allows takes no byte of the bootloader's stack, data
\* or loader, under either of the addresses the byte has.
THEOREM AllowedIsClear ==
  ASSUME SeparateBuses, NEW lo \in Int, NEW hi \in Int, AddressesAllowed(lo, hi)
  PROVE  ClearOfBootloader(lo, hi)
<1> SUFFICES ASSUME NEW p \in lo..(hi - 1)
             PROVE  /\ ~OfBootloader(p)
                    /\ In(p, DiramDram) => ~OfBootloader(ToIram(p))
                    /\ In(p, DiramIram) => ~OfBootloader(ToDram(p))
  BY DEF ClearOfBootloader
<1>1. p \in Int /\ lo <= p /\ p < hi /\ lo < hi
  OBVIOUS
<1>2. ClearAsAddressed(lo, hi)
  BY DEF AddressesAllowed
<1>3. /\ ~OfBootloader(p)
      /\ \/ Spans(Dram, lo, hi) /\ In(p, Dram)
         \/ ~Spans(Dram, lo, hi) /\ Spans(Iram, lo, hi) /\ In(p, Iram)
         \/ In(p, RtcMem)
  BY <1>1, <1>2, AsAddressed
<1>4. ASSUME In(p, DiramDram) PROVE ~OfBootloader(ToIram(p))
  <2>1. Spans(Dram, lo, hi)
    BY <1>1, <1>3, <1>4, WhoseAddress
  <2>2. Overlaps(DiramDram, lo, hi)
    BY <1>1, <1>4, Layout DEF In, Overlaps
  <2>3. ClearAsFetched(lo, hi)
    BY <1>1, <2>1, <2>2 DEF AddressesAllowed
  <2> QED
    BY <1>1, <1>4, <2>3, AsFetched
<1>5. ASSUME In(p, DiramIram) PROVE ~OfBootloader(ToDram(p))
  <2>1. ~Spans(Dram, lo, hi) /\ Spans(Iram, lo, hi)
    BY <1>1, <1>3, <1>5, WhoseAddress
  <2>2. Overlaps(DiramIram, lo, hi)
    BY <1>1, <1>5, Layout DEF In, Overlaps
  <2>3. ClearAsData(lo, hi)
    BY <1>1, <2>1, <2>2 DEF AddressesAllowed
  <2> QED
    BY <1>1, <1>5, <2>3, AsData
<1> QED
  BY <1>3, <1>4, <1>5
=============================================================================
