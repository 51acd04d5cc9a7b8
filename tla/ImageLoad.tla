----------------------------- MODULE ImageLoad -----------------------------
(***************************************************************************)
(* image_load: checking an image in flash and loading it into SRAM, with   *)
(* the PQC check inside it, over the life of the bootloader.               *)
(*                                                                         *)
(* Source: esp_image_format.c, built for the bootloader with Secure Boot   *)
(* V2 as in sdkconfig.defaults.  image_load is one action per step of its  *)
(* body, in order, with every early exit to its err label; the call of     *)
(* pqc_bootloader_verify runs the steps of PqcVerify.  Who calls           *)
(* image_load is ESP-IDF's bootloader, outside this repository: it walks   *)
(* over the application partitions until one loads, checks images without  *)
(* loading them, and on waking from deep sleep may first load the          *)
(* partition that ran before without checking it again.                    *)
(*                                                                         *)
(* Between boots the SRAM keeps unknown bytes, except RTC memory, which    *)
(* the application relies on when it wakes from deep sleep.                *)
(***************************************************************************)
EXTENDS PqcVerify, LoadAddresses, Sequences, FiniteSets

CONSTANTS
  AppSlots,      \* the application partitions
  Bootloader,    \* the bootloader's own partition
  ClassicValid,  \* bodies whose Secure Boot V2 sector verifies
  RtcCells,      \* the cells of RTC memory
  PartLen,       \* sectors in a partition
  AntiRollback,  \* CONFIG_BOOTLOADER_APP_ANTI_ROLLBACK
  EfuseVersion,  \* security version burnt in the chip
  SkipInDeepSleep, \* CONFIG_BOOTLOADER_SKIP_VALIDATE_IN_DEEP_SLEEP
  MaxVerify,     \* bound on the checks without loading in one boot
  MaxResets      \* bound on resets and deep sleeps

\* A segment is for the addresses from lo up to hi, counted in words, which are these
\* cells. Beyond the largest intptr_t the end comes round below the start.
Segment == [kind : {"map", "ram", "rtc"}, cells : SUBSET Cells, lo : Nat, hi : Nat,
            valid : BOOLEAN]

ASSUME LoadSlotAssumption ==
  /\ Bootloader \notin AppSlots
  /\ Slots = AppSlots \cup {Bootloader}
ASSUME LoadImageAssumption ==
  \A im \in Images :
    /\ im.hdr \in BOOLEAN      \* magic, chip and segment count are right
    /\ im.segs \in Seq(Segment)
    /\ \A i \in DOMAIN im.segs :
         /\ im.segs[i].kind = "rtc" <=> In(im.segs[i].lo, RtcMem)
         /\ im.segs[i].lo # im.segs[i].hi
    /\ im.desc \in BOOLEAN     \* the first segment begins with the app descriptor
    /\ im.sum \in BOOLEAN      \* the checksum byte is right
    /\ im.efuse \in BOOLEAN    \* this chip's eFuse block version is supported
    /\ im.ver \in Nat          \* secure_version of the app descriptor
ASSUME LoadConfigAssumption ==
  /\ RtcCells \subseteq Cells \ (Pool \cup Stack)
  /\ ClassicValid \subseteq Bodies
  /\ AntiRollback \in BOOLEAN /\ SkipInDeepSleep \in BOOLEAN
  /\ {PartLen, EfuseVersion, MaxVerify, MaxResets} \subseteq Nat

VARIABLES
  pc,        \* where image_load is; "boot": nowhere, "up": the application runs
  mode,      \* its argument mode
  cur,       \* the slot it works on
  seg,       \* the segment process_segments is at
  data,      \* the caller's esp_image_metadata_t
  obfs,      \* ram_obfs_value has been drawn
  verified,  \* verified_digest equals image_digest
  ret,       \* what image_load returned last
  todo,      \* the partitions not tried in this boot
  loaded,    \* the slot the last successful load put in SRAM
  calls,     \* checks without loading made in this boot
  wake,      \* the reset reason: "power" or "deepsleep"
  running,   \* the slot whose application runs
  sleeper,   \* the slot that ran before deep sleep
  resets,    \* resets and deep sleeps so far
  fault      \* history: a resource failed since reset

callVars == <<mode, cur>>
bootVars == <<todo, loaded, calls, wake, running, sleeper, resets>>
pqcVars  == <<heap, sigObj, digest, blk, off, vpc, vslot, vaddr, verdict, vret,
              vfault>>
lvars == <<vvars, pc, mode, cur, seg, data, obfs, verified, ret, todo, loaded,
           calls, wake, running, sleeper, resets, fault>>

\* esp_image_metadata_t
Data == [slot : Slots \cup {NoSlot}, len : Nat, ver : Nat]

ZeroData == [slot |-> NoSlot, len |-> 0, ver |-> 0]

\* Mutant: esp_image_verify loads too.
DoLoadAlways == TRUE

do_load   == mode \in {"LOAD", "NO_VALIDATE"}
do_verify == mode \in {"LOAD", "VERIFY"}

\* Mutant: RTC memory is loaded on wake-up.
ShouldLoadRtc(g) == g.kind # "map"

\* should_load: flash-mapped segments are not loaded, and RTC memory only when
\* this is not a wake-up from deep sleep.
should_load(g) == g.kind = "ram" \/ (g.kind = "rtc" /\ wake # "deepsleep")

\* The loaded segments that hold a cell.
Holders(im, c) == {i \in DOMAIN im.segs : should_load(im.segs[i]) /\ c \in im.segs[i].cells}

LoadCells(im) == {c \in Cells : Holders(im, c) # {}}

\* The header is for this chip, and a segment's length and alignment are legal: what
\* these two checks say of an image is part of the image.
verify_image_header(im)  == im.hdr
verify_segment_header(g) == g.valid

\* It asserts that the end is above the start.
verify_load_addresses(g) == g.lo < g.hi /\ AddressesAllowed(g.lo, g.hi)

\* Mutant: no exception on wake-up.
NeverSkip == FALSE

skip_verify == SkipInDeepSleep /\ wake = "deepsleep" /\ mode = "NO_VALIDATE"

-----------------------------------------------------------------------------
(* Parts of the steps.                                                     *)

\* Mutant: the words are drawn for the plain load too.
DrawAlways == obfs' = TRUE

\* process_segment_data draws the two obfuscation words before the first word it
\* stores in a load that is verified, and keeps them for the whole boot.
ram_obfs_value == obfs' = (obfs \/ do_verify)

\* The eFuse block version and the security version are those of an application's
\* first segment, when its words are looked at.
HoldsAppDesc(k) == do_verify /\ k = 1 /\ cur # Bootloader
ReadsVersion(k) == HoldsAppDesc(k) /\ AntiRollback

\* The word that comes first at each turn.
Phase(g) == IF g.lo % 2 = 0 THEN "even" ELSE "odd"

\* Mutant: stored in the clear.
StoredPlain(k) == Raw(cur)

\* How the words of segment k are stored: the load without verification is a memcpy.
\* Where the app descriptor was read before them, the rest is stored from the start.
Stored(k) ==
  [what |-> cur,
   obf  |-> {m \in Marks : \/ do_verify /\ m = Phase(flash[cur].segs[k])
                           \/ ReadsVersion(k) /\ m = "moved"}]

\* Every loaded segment is XORed by itself, a cell as often as there are segments that
\* hold it.
XoredBy(im, c, m) == {i \in Holders(im, c) : Phase(im.segs[i]) = m}
Deobfuscated(im, c) ==
  [ram[c] EXCEPT !.obf =
     {m \in Marks : (m \in ram[c].obf) # (Cardinality(XoredBy(im, c, m)) % 2 = 1)}]

finish_sha == sha' = sha \ {"load"}

\* Mutant: the metadata stays.
DataLeft == UNCHANGED data

\* The err label wipes the caller's metadata.
bzero_metadata == data' = ZeroData

PqcAccepted == vret = "OK"

\* Mutant: the classical result is not looked at.
ClassicUnchecked == TRUE

\* esp_secure_boot_verify_sbv2_signature_block (ESP-IDF)
ClassicAccepted == flash[cur].body \in ClassicValid

\* Mutant: the version is confirmed in the wrong mode.
RolledBackInVerify == AntiRollback /\ mode = "VERIFY" /\ data.ver < EfuseVersion

\* esp_efuse_check_secure_version fails.
RolledBack == AntiRollback /\ do_load /\ data.ver < EfuseVersion

-----------------------------------------------------------------------------
LInit ==
  /\ VInit
  /\ pc = "boot" /\ mode = "VERIFY" /\ cur = Bootloader /\ seg = 1
  /\ data = ZeroData
  /\ obfs = FALSE /\ verified = FALSE /\ ret = "FAIL"
  /\ todo = AppSlots /\ loaded = NoSlot /\ calls = 0
  /\ wake = "power" /\ running = NoSlot /\ sleeper = NoSlot
  /\ resets = 0 /\ fault = FALSE

(* The bootloader's calls of image_load.                                   *)

Call(m, s) ==
  /\ pc = "boot"
  /\ pc' = "header"
  /\ mode' = m /\ cur' = s
  /\ seg' = 1 /\ verified' = FALSE
  /\ UNCHANGED <<vvars, data, obfs, ret, wake, running, sleeper, resets, fault>>

\* bootloader_load_image
bootloader_load_image(s) ==
  /\ s \in todo /\ loaded = NoSlot
  /\ Call("LOAD", s)
  /\ todo' = todo \ {s}
  /\ UNCHANGED <<loaded, calls>>

\* bootloader_load_image_no_verify: only the partition that ran before the deep
\* sleep, and before anything else in this boot.
bootloader_load_image_no_verify(s) ==
  /\ s = sleeper /\ wake = "deepsleep" /\ SkipInDeepSleep
  /\ calls = 0 /\ todo = AppSlots
  /\ Call("NO_VALIDATE", s)
  /\ calls' = calls + 1
  /\ UNCHANGED <<todo, loaded>>

\* esp_image_verify, also of the bootloader (esp_image_verify_bootloader)
esp_image_verify(s) ==
  /\ calls < MaxVerify
  /\ Call("VERIFY", s)
  /\ calls' = calls + 1
  /\ UNCHANGED <<todo, loaded>>

-----------------------------------------------------------------------------
(* image_load.                                                             *)

Next_(to) == pc' = to /\ UNCHANGED fault
Err       == Next_("err")
ErrNoResource == MayFail /\ pc' = "err" /\ fault' = TRUE

\* process_image_header; without verification the header is not looked at.
process_image_header ==
  /\ pc = "header"
  /\ data' = [ZeroData EXCEPT !.slot = cur]
  /\ \/ ErrNoResource /\ UNCHANGED sha
     \/ /\ do_verify
        /\ sha' = sha \cup {"load"}
        /\ IF verify_image_header(flash[cur]) THEN Next_("segs") ELSE Err
     \/ ~do_verify /\ Next_("segs") /\ UNCHANGED sha
  /\ UNCHANGED <<flash, ram, map, pqcVars, callVars, seg, obfs, verified, ret,
                 bootVars>>

\* What process_segment checks before it touches the data.
SegmentAllowed(g) ==
  /\ verify_segment_header(g)
  /\ do_load /\ should_load(g) => verify_load_addresses(g)

StoreSegment(g) ==
  ram' = IF do_load /\ should_load(g) THEN Written(g.cells, Stored(seg)) ELSE ram

\* This chip's eFuse version is wrong; the app descriptor is not there, which
\* process_esp_app_desc_data asserts.
EfuseRefused   == HoldsAppDesc(seg) /\ ~flash[cur].efuse
AppDescMissing == ReadsVersion(seg) /\ flash[cur].efuse /\ ~flash[cur].desc

\* process_segment_data on the last piece. The segment's words are stored obfuscated,
\* except by the plain memcpy of a load without verification.
process_segment_data(g) ==
  /\ ram_obfs_value
  /\ \/ EfuseRefused /\ Err /\ UNCHANGED <<ram, seg, data>>
     \/ AppDescMissing /\ Next_("abort") /\ UNCHANGED <<ram, seg, data>>
     \/ /\ ~EfuseRefused /\ ~AppDescMissing
        /\ Next_("segs")
        /\ seg' = seg + 1
        /\ StoreSegment(g)
        /\ data' = IF ReadsVersion(seg) THEN [data EXCEPT !.ver = flash[cur].ver] ELSE data

\* The end of a segment to be loaded is below its start.
EndsBelowStart(g) ==
  verify_segment_header(g) /\ do_load /\ should_load(g) /\ g.hi < g.lo

\* process_segment. The segment is mapped in pieces, and mapping may fail before or
\* after one has been stored. A failed assertion ends in abort.
process_segment ==
  /\ pc = "segs"
  /\ seg \in DOMAIN flash[cur].segs
  /\ LET g == flash[cur].segs[seg]
     IN  \/ ErrNoResource /\ UNCHANGED <<ram, seg, data, obfs>>
         \/ /\ do_load /\ should_load(g) /\ SegmentAllowed(g) /\ map = "none"
            /\ ~EfuseRefused /\ ~AppDescMissing
            /\ ErrNoResource
            /\ ram_obfs_value
            /\ StoreSegment(g)
            /\ UNCHANGED <<seg, data>>
         \/ /\ ~SegmentAllowed(g) \/ map # "none"
            /\ Next_(IF EndsBelowStart(g) THEN "abort" ELSE "err")
            /\ UNCHANGED <<ram, seg, data, obfs>>
         \/ /\ SegmentAllowed(g) /\ map = "none"
            /\ process_segment_data(g)
  /\ UNCHANGED <<flash, map, sha, pqcVars, callVars, verified, ret, bootVars>>

\* process_segments is through; process_checksum
process_checksum ==
  /\ pc = "segs"
  /\ seg \notin DOMAIN flash[cur].segs
  /\ \/ do_verify /\ ErrNoResource
     \/ IF do_verify /\ ~flash[cur].sum THEN Err ELSE Next_("tail")
  /\ UNCHANGED <<vvars, callVars, seg, data, obfs, verified, ret, bootVars>>

\* process_appended_hash_and_sig: room for the image and the classical sector.
process_appended_hash_and_sig ==
  /\ pc = "tail"
  /\ \/ do_verify /\ ErrNoResource /\ UNCHANGED data
     \/ IF flash[cur].len + 1 > PartLen
        THEN Err /\ UNCHANGED data
        ELSE /\ Next_(IF do_verify THEN "digest" ELSE "assert")
             /\ data' = [data EXCEPT !.len = flash[cur].len]
  /\ UNCHANGED <<vvars, callVars, seg, obfs, verified, ret, bootVars>>

\* verify_secure_boot_signature: finish the image's SHA, then the PQC check
\* unless the image is a bootloader's.
verify_secure_boot_signature ==
  /\ pc = "digest"
  /\ finish_sha
  /\ IF cur = Bootloader
     THEN Next_("classic") /\ UNCHANGED pqcVars
     ELSE /\ Next_("pqc")
          /\ vpc = "idle"
          /\ vpc' = "heap" /\ vslot' = cur /\ vaddr' = flash[cur].len + 1
          /\ vfault' = FALSE
          /\ UNCHANGED <<heap, sigObj, digest, blk, off, verdict, vret>>
  /\ UNCHANGED <<flash, ram, map, callVars, seg, data, obfs, verified, ret,
                 bootVars>>

\* pqc_bootloader_verify runs.
PqcStep ==
  /\ pc = "pqc"
  /\ VerifyStep
  /\ fault' = (fault \/ vfault')
  /\ UNCHANGED <<pc, callVars, seg, data, obfs, verified, ret, bootVars>>

\* verify_signature_and_adjust_image_len: the PQC result ...
PqcResult ==
  /\ pc = "pqc"
  /\ VerifyReturn
  /\ Next_(IF PqcAccepted THEN "classic" ELSE "err")
  /\ UNCHANGED <<callVars, seg, data, obfs, verified, ret, bootVars>>

\* ... and the classical check, which sets verified_digest. On failure the image
\* is hashed again for a message; that leaves nothing behind.
ClassicSignature ==
  /\ pc = "classic"
  /\ \/ ErrNoResource /\ UNCHANGED <<data, verified>>
     \/ IF ClassicAccepted
        THEN /\ verified' = TRUE
             /\ data' = [data EXCEPT !.len = flash[cur].len + 1]
             /\ Next_("assert")
        ELSE Err /\ UNCHANGED <<data, verified>>
  /\ UNCHANGED <<vvars, callVars, seg, obfs, ret, bootVars>>

\* ESP_FAULT_ASSERT, then deobfuscation of what was loaded, segment by segment. A failed
\* assertion restarts the chip: nothing but Reset follows, here as in "abort".
Deobfuscate ==
  /\ pc = "assert"
  /\ verified \/ skip_verify
  /\ Next_("rollback")
  /\ ram' = IF do_load /\ obfs
            THEN [c \in Cells |-> IF c \in LoadCells(flash[cur])
                                  THEN Deobfuscated(flash[cur], c) ELSE ram[c]]
            ELSE ram
  /\ UNCHANGED <<flash, map, sha, pqcVars, callVars, seg, data, obfs, verified,
                 ret, bootVars>>

\* The security version is confirmed and image_load returns ESP_OK.
Success ==
  /\ pc = "rollback"
  /\ IF RolledBack
     THEN Err /\ UNCHANGED <<ret, loaded>>
     ELSE /\ Next_("boot")
          /\ ret' = "OK"
          /\ loaded' = IF do_load THEN cur ELSE loaded
  /\ UNCHANGED <<vvars, callVars, seg, data, obfs, verified, todo, calls, wake,
                 running, sleeper, resets>>

\* The err label: finish the SHA, wipe the metadata.
Failure ==
  /\ pc = "err"
  /\ Next_("boot")
  /\ ret' = "FAIL"
  /\ finish_sha
  /\ bzero_metadata
  /\ UNCHANGED <<flash, ram, map, pqcVars, callVars, seg, obfs, verified,
                 bootVars>>

image_load ==
  \/ process_image_header \/ process_segment \/ process_checksum
  \/ process_appended_hash_and_sig \/ verify_secure_boot_signature
  \/ PqcStep \/ PqcResult \/ ClassicSignature
  \/ Deobfuscate \/ Success \/ Failure

-----------------------------------------------------------------------------
(* Starting the application, and the chip restarting.                      *)

StartApp ==
  /\ pc = "boot" /\ loaded # NoSlot
  /\ Next_("up")
  /\ running' = loaded
  /\ UNCHANGED <<vvars, callVars, seg, data, obfs, verified, ret, todo, loaded,
                 calls, wake, sleeper, resets>>

\* No partition is left to try.
NoBootableApp ==
  /\ pc = "boot" /\ loaded = NoSlot /\ todo = {}
  /\ Next_("halt")
  /\ UNCHANGED <<vvars, callVars, seg, data, obfs, verified, ret, bootVars>>

\* All static variables are initialised anew and SRAM content is unknown.
Restart(reason, rtc) ==
  /\ resets < MaxResets
  /\ resets' = resets + 1
  /\ wake' = reason
  /\ ram' = [c \in Cells |-> IF c \in RtcCells THEN rtc[c] ELSE Raw("init")]
  /\ heap' = FALSE /\ sigObj' = "none" /\ digest' = NoBody /\ blk' = NoSlot
  /\ map' = "none" /\ sha' = {} /\ off' = 0 /\ vpc' = "idle" /\ vslot' = NoSlot
  /\ vaddr' = 0 /\ verdict' = "ERROR" /\ vret' = "INVALID" /\ vfault' = FALSE
  /\ pc' = "boot" /\ mode' = "VERIFY" /\ cur' = Bootloader /\ seg' = 1
  /\ data' = ZeroData /\ obfs' = FALSE /\ verified' = FALSE /\ ret' = "FAIL"
  /\ todo' = AppSlots /\ loaded' = NoSlot /\ calls' = 0 /\ running' = NoSlot
  /\ fault' = FALSE
  /\ UNCHANGED flash

\* A reset at any moment: watchdog, power loss, failed assertion.
Reset == Restart("power", ram) /\ sleeper' = NoSlot

\* The application sleeps; what it left in RTC memory must still be there.
DeepSleep ==
  /\ pc = "up"
  /\ Restart("deepsleep", [c \in RtcCells |-> Raw("kept")])
  /\ sleeper' = running

LNext ==
  \/ \E s \in AppSlots : bootloader_load_image(s)
  \/ \E s \in AppSlots : bootloader_load_image_no_verify(s)
  \/ \E s \in Slots : esp_image_verify(s)
  \/ image_load
  \/ StartApp \/ NoBootableApp \/ Reset \/ DeepSleep

LSpec == LInit /\ [][LNext]_lvars

\* The bootloader goes on until it has started an application or tried all.
Progress ==
  \/ \E s \in AppSlots : bootloader_load_image(s)
  \/ image_load \/ StartApp \/ NoBootableApp

LFairSpec == LSpec /\ WF_lvars(Progress)

-----------------------------------------------------------------------------
(* Properties.                                                             *)

LoadPoints == {"boot", "header", "segs", "tail", "digest", "pqc", "classic",
               "assert", "rollback", "err", "abort", "up", "halt"}

LoadTypeOK ==
  /\ pc \in LoadPoints
  /\ mode \in {"LOAD", "VERIFY", "NO_VALIDATE"}
  /\ cur \in Slots
  /\ seg \in Nat
  /\ data \in Data
  /\ obfs \in BOOLEAN /\ verified \in BOOLEAN /\ fault \in BOOLEAN
  /\ ret \in {"OK", "FAIL"}

BootTypeOK ==
  /\ todo \subseteq AppSlots
  /\ loaded \in AppSlots \cup {NoSlot}
  /\ running \in AppSlots \cup {NoSlot}
  /\ sleeper \in AppSlots \cup {NoSlot}
  /\ calls \in Nat /\ resets \in Nat
  /\ wake \in {"power", "deepsleep"}

\* The type of every variable.
LTypeOK == VTypeOK /\ LoadTypeOK /\ BootTypeOK

\* Both signatures are the owner's: ML-DSA over image and classical sector, and
\* the classical one over the image.
Authentic(im) == SignedByOwner(im.body, im.block) /\ im.body \in ClassicValid

Trusted(im) == Authentic(im) /\ (AntiRollback => im.ver >= EfuseVersion)

\* An image the owner built, signed and sized correctly for this chip. Its first segment
\* holds the app descriptor with the security version.
Bootable(im) ==
  /\ im.segs # <<>>
  /\ AntiRollback => im.desc
  /\ WellSigned(im) /\ Trusted(im)
  /\ verify_image_header(im) /\ im.sum /\ im.efuse /\ im.len + 1 <= PartLen
  /\ \A i \in DOMAIN im.segs :
       LET g == im.segs[i]
       IN  verify_segment_header(g) /\ (g.kind # "map" => verify_load_addresses(g))

\* Checking this image may end in an assertion that the code takes for granted, before
\* any signature is looked at.
EndsInAssertion(im) ==
  /\ verify_image_header(im)
  /\ \/ AntiRollback /\ im.efuse /\ ~im.desc
     \/ \E i \in DOMAIN im.segs : im.segs[i].kind # "map" /\ im.segs[i].hi < im.segs[i].lo

\* What one loaded segment holds alone; in an anti-rollback build the first is not meant
\* to be loaded.
SoleCells(im) ==
  {c \in Cells : \E i \in DOMAIN im.segs : Holders(im, c) = {i} /\ ~(AntiRollback /\ i = 1)}

\* Whatever was tried before, skipped on wake-up or interrupted by a reset, an
\* application that runs is one both schemes vouch for and not rolled back.
RunsOnlyTrusted == running # NoSlot => Trusted(flash[running])

\* Code of an image lies in SRAM in the clear only after both signatures of that
\* image were checked, in this boot or before the deep sleep it woke from.
PlainOnlyAuthentic ==
  \A c \in Cells :
    ram[c].what \in Slots /\ ram[c].obf = {} => Authentic(flash[ram[c].what])

\* The application starts with exactly what its image holds, wherever its segments do
\* not overlap: obfuscation came off once, and neither the verifier's pool nor another
\* image wrote over it.
RamIsImage ==
  running # NoSlot =>
    \A c \in SoleCells(flash[running]) : ram[c] = Raw(running)

\* RTC memory survives deep sleep and every load after it, whichever partition
\* is loaded, checked or refused on the way.
RtcKept == wake = "deepsleep" => \A c \in RtcCells : ram[c] = Raw("kept")

\* The chip's SHA engine serves one context at a time: the one image_load feeds
\* while it reads the image is finished before the PQC check opens its own.
OneShaContext == sha # {"load", "pqc"}

\* image_load returns with every SHA context finished and nothing mapped, and
\* the caller's metadata is that of an accepted image or all zero.
CleanReturn ==
  pc = "boot" =>
    /\ sha = {} /\ map = "none" /\ vpc = "idle"
    /\ data.slot # NoSlot <=> ret = "OK"

\* The bootloader gives up only when no partition holds a bootable image, or
\* a resource failed: no refused image spoils the attempt at the next one.
HaltsOnlyForCause ==
  pc = "halt" /\ ~fault => \A s \in AppSlots : ~Bootable(flash[s])

\* When some partition holds a bootable image, none an image that ends in an assertion,
\* and no resource fails, an application runs in the end, after however many resets and
\* deep sleeps.
BootsInTheEnd ==
  /\ \E s \in AppSlots : Bootable(flash[s])
  /\ \A s \in AppSlots : ~EndsInAssertion(flash[s])
  => []<>(running # NoSlot)

\* While the bootloader runs, no segment is loaded over its stack, its data or its
\* loader, by whichever of its two addresses a byte is reached.
BootloaderKept ==
  do_load =>
    \A i \in 1..(seg - 1) :
      LET g == flash[cur].segs[i]
      IN  should_load(g) => ClearOfBootloader(g.lo, g.hi)

\* image_load's length check says an image must fit in its partition. The PQC
\* block is a part of the signed image, and the check forgets its two sectors.
AcceptedFits == loaded # NoSlot => flash[loaded].len + 3 <= PartLen

-----------------------------------------------------------------------------
(* Why they hold.                                                          *)

\* The assumption on the link-time layout that the proofs need, and the overlap
\* run does without: no image is loaded into the memory the verifier borrows.
ImagesClear ==
  \A im \in Images :
    \A i \in DOMAIN im.segs : im.segs[i].cells \cap Borrowed = {}

\* Who calls whom: the verifier works for image_load and on its slot, loads are
\* of application partitions, and a load without verification is of the one
\* that ran before the sleep.
CallInv ==
  /\ pc # "pqc" => vpc = "idle"
  /\ pc = "pqc" => vpc # "idle" /\ vslot = cur /\ cur # Bootloader
  /\ pc \in {"digest", "pqc", "classic"} => do_verify
  /\ do_load => cur \in AppSlots
  /\ mode = "NO_VALIDATE" => cur = sleeper
  /\ running # NoSlot => pc = "up"
  /\ "load" \in sha => pc \in {"segs", "tail", "digest", "err", "abort"} /\ do_verify

\* What has been established about the image at each point of its load.
AuthInv ==
  /\ pc = "classic" /\ cur # Bootloader =>
       SignedByOwner(flash[cur].body, flash[cur].block)
  /\ verified /\ cur # Bootloader => Authentic(flash[cur])
  /\ pc = "rollback" => verified \/ mode = "NO_VALIDATE"
  /\ mode = "LOAD" /\ AntiRollback /\ pc \notin {"boot", "header", "up", "halt"} =>
       data.ver \in {0, flash[cur].ver}

\* What was loaded, what runs and what ran before the sleep is trusted.
TrustInv ==
  \A s \in {loaded, running, sleeper} : s # NoSlot => Trusted(flash[s])

\* The inductive invariant behind RunsOnlyTrusted and ImplementsSecureBoot.
LInv == LTypeOK /\ VInv /\ CallInv /\ AuthInv /\ TrustInv

\* The other assumption on the link-time layout: what is not linked to the addresses of
\* RTC memory does not lie there.
RtcApart ==
  \A im \in Images :
    \A i \in DOMAIN im.segs : im.segs[i].kind = "ram" => im.segs[i].cells \cap RtcCells = {}

Idle    == {"boot", "up", "halt"}
Checked == {"tail", "digest", "pqc", "classic", "assert"}

\* What is to be loaded of a slot's image, by one segment, lies in SRAM in the clear.
LoadedClear(s) == \A c \in SoleCells(flash[s]) : ram[c] = Raw(s)

\* What the segments loaded so far hold is this image's, and lies in SRAM as it was stored
\* where no other segment is to be loaded; all of them are when the checks begin, and
\* after deobfuscation what one holds alone is in the clear.
StoredInv ==
  /\ seg > 0 /\ (pc = "header" => seg = 1)
  /\ do_load /\ pc \in {"segs"} \cup Checked =>
       \A k \in DOMAIN flash[cur].segs :
         k < seg /\ should_load(flash[cur].segs[k]) =>
           \A c \in flash[cur].segs[k].cells :
             /\ ram[c].what = cur
             /\ Holders(flash[cur], c) = {k} => ram[c] = Stored(k)
  /\ pc \in Checked => \A k \in DOMAIN flash[cur].segs : k < seg
  /\ do_load /\ pc = "rollback" => LoadedClear(cur)
  /\ loaded # NoSlot => LoadedClear(loaded)
  /\ running # NoSlot => running = loaded

\* The obfuscation words are drawn before the first segment is stored, and never before a
\* load without verification, which is the first call of its boot.
ObfsInv ==
  /\ obfs \/ loaded # NoSlot \/ pc \notin Idle => calls > 0 \/ todo # AppSlots
  /\ mode = "NO_VALIDATE" /\ pc \notin Idle => ~obfs
  /\ do_load /\ pc \notin Idle => loaded = NoSlot
  /\ do_verify /\ seg > 1 /\ pc \in {"segs"} \cup Checked => obfs

\* The caller's metadata.
DataInv ==
  /\ pc = "boot" => (data.slot # NoSlot <=> ret = "OK")
  /\ pc \in {"segs", "rollback"} \cup Checked => data.slot = cur

\* The inductive invariant, on top of LInv, behind what is said of SRAM and RTC memory.
MemInv == PlainOnlyAuthentic /\ RtcKept /\ StoredInv /\ ObfsInv /\ DataInv

\* Where the image's segments are processed; the security version that the load confirms
\* in the end is the one in the first of them.
VersionInv ==
  /\ seg > 0 /\ (pc = "header" => seg = 1)
  /\ pc \in {"rollback"} \cup Checked => seg \notin DOMAIN flash[cur].segs
  /\ mode = "LOAD" /\ AntiRollback /\ seg > 1 /\ pc \in {"segs", "rollback"} \cup Checked =>
       data.ver = flash[cur].ver

\* The bootloader is loading slot s and has not refused it.
Trying(s) == mode = "LOAD" /\ cur = s /\ pc \notin Idle \cup {"err", "abort"}

\* A partition that was tried in vain holds no bootable image, or a resource failed.
TriedInv ==
  /\ pc = "pqc" /\ vfault => fault
  /\ pc = "halt" => todo = {} /\ loaded = NoSlot
  /\ \A s \in AppSlots \ todo :
       loaded = NoSlot /\ ~fault /\ Bootable(flash[s]) => Trying(s)

\* The inductive invariant, on top of LInv, behind HaltsOnlyForCause.
HaltInv == VersionInv /\ TriedInv

-----------------------------------------------------------------------------
\* The promise kept: image_load and its callers implement SecureBoot. What a partition
\* holds is the whole signed image, and what runs is what the application started from.
SB == INSTANCE SecureBoot WITH
        AppSlots <- AppSlots, NoSlot <- NoSlot, Trusted <- Trusted,
        flash <- flash, running <- running
ImplementsSecureBoot == SB!Spec

=============================================================================
