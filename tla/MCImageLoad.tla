---------------------------- MODULE MCImageLoad ----------------------------
(* ImageLoad on two application partitions, with one image per way to fail. *)
EXTENDS ImageLoad

CONSTANTS ota0, ota1, boot,    \* two application partitions, the bootloader's
          b1, b2, b3,        \* three bodies; the classical signature of b3 is bad
          owner, stranger,   \* two keys; owner's is in the bootloader
          sram, app, head, stk, rtc, \* application SRAM (two), pool, PQC stack, RTC memory
          Overlap,           \* whether images may reach into the pool
          Faulty             \* whether the full catalogue of bad images is used

MCBodies == {b1, b2, b3}
MCKeys   == {owner, stranger}
MCCells  == {sram, app, head, stk, rtc}

\* SRAM at 10 to 16, fetched at 20 to 26, with a cell of instruction cache before it.
\* The loader is at 12 (22), the data at 13, the stack at 15; RTC memory is at 30.
Span(lo, hi) == [lo |-> lo, hi |-> hi]
MCDram       == Span(10, 16)
MCIram       == Span(19, 26)
MCDiramDram  == MCDram
MCDiramIram  == Span(20, 26)
MCRtcMem     == Span(30, 31)
MCBootStack  == Span(15, 16)
MCBootData   == Span(13, 14)
MCLoaderText == Span(22, 23)

Seg(kind, cells, lo) ==
  [kind |-> kind, cells |-> cells, lo |-> lo, hi |-> lo + 1, valid |-> TRUE]
MCSegs == << Seg("map", {}, 40), Seg("ram", {sram}, 10), Seg("rtc", {rtc}, 30) >>

MCGood ==
  [body |-> b1, block |-> BuildBlock(owner, owner, b1), len |-> 2, hdr |-> TRUE,
   segs |-> MCSegs, desc |-> TRUE, sum |-> TRUE, efuse |-> TRUE, ver |-> 1]

\* Two segments share a cell that is an odd number of words into the first.
MCShared ==
  [MCGood EXCEPT !.segs = << Seg("map", {}, 40),
                             [Seg("ram", {sram, app}, 10) EXCEPT !.hi = 12],
                             Seg("ram", {app}, 11) >>]

\* Links up to the end of SRAM_SEG, so its data ends inside the pool.
MCLarge == [MCGood EXCEPT !.segs[2].cells = {sram, head}]

MCStranger == [MCGood EXCEPT !.block = BuildBlock(stranger, stranger, b1)]

\* Complete images that must not run: signed by somebody else, with the block of
\* another build, with none, with a bad classical signature, too old.
MCBad ==
  { MCStranger,
    [MCGood EXCEPT !.block = BuildBlock(owner, owner, b2)],
    [MCGood EXCEPT !.block = Blank],
    [MCGood EXCEPT !.body = b3, !.block = BuildBlock(owner, owner, b3)],
    [MCGood EXCEPT !.ver = 0] }

\* Segments for every short stretch of addresses in and around the SRAM.
MCPlaced ==
  { [MCGood EXCEPT !.segs[2].lo = a, !.segs[2].hi = a + n] : a \in 7..27, n \in 1..3 }

\* The wrong header, segment, checksum, eFuse version or length never get as far
\* as a signature; a first segment without an app descriptor, or one whose end has come
\* round, ends in an assertion.
MCBroken ==
  { [MCGood EXCEPT !.hdr = FALSE],
    [MCGood EXCEPT !.sum = FALSE],
    [MCGood EXCEPT !.efuse = FALSE],
    [MCGood EXCEPT !.segs[1].valid = FALSE],
    [MCGood EXCEPT !.desc = FALSE],
    [MCGood EXCEPT !.segs[2].lo = 50, !.segs[2].hi = 1],
    [MCGood EXCEPT !.len = PartLen] }

MCImages ==
  {MCGood, MCShared, [MCGood EXCEPT !.len = PartLen - 1]} \cup MCBad
  \cup (IF Faulty THEN MCBroken \cup MCPlaced ELSE {})
  \cup (IF Overlap THEN {MCLarge} ELSE {})

\* Any image in one partition, next to an image that boots or one that must not.
MCInit ==
  /\ LInit
  /\ flash[boot] \in {MCGood, MCStranger}
  /\ flash[ota1] \in {MCGood, MCStranger}

MCSpec     == MCInit /\ [][LNext]_lvars
MCFairSpec == MCSpec /\ WF_lvars(Progress)
=============================================================================
