------------------------- MODULE ImageMemoryProofs -------------------------
(***************************************************************************)
(* Proofs about ImageLoad's memory: what lies in SRAM in the clear is      *)
(* authentic, the application starts with exactly what its image holds,    *)
(* and RTC memory survives.  MemInv is inductive on top of LInv: a step    *)
(* that stores a segment, the one that takes the obfuscation off, and the  *)
(* restarts are treated one by one; all others write borrowed memory at    *)
(* the most.                                                               *)
(***************************************************************************)
EXTENDS ImageLoadProofs, FiniteSetTheorems

-----------------------------------------------------------------------------
(* Steps that write borrowed memory at the most.                           *)

\* Whatever is written to borrowed memory is nobody's code.
Aside ==
  /\ UNCHANGED <<flash, wake>>
  /\ \A c \in Cells : ram'[c] = ram[c] \/ (c \in Borrowed /\ ram'[c].what \notin Slots)

\* RTC memory and loaded segments are not borrowed.
LEMMA Apart ==
  ASSUME LInv, ImagesClear
  PROVE  /\ \A c \in RtcCells : c \in Cells /\ c \notin Borrowed
         /\ \A s \in Slots :
              /\ flash[s] \in Images
              /\ \A k \in DOMAIN flash[s].segs :
                   \A c \in flash[s].segs[k].cells : c \in Cells /\ c \notin Borrowed
<1>1. \A c \in RtcCells : c \in Cells /\ c \notin Borrowed
  BY RtcPlace
<1>2. ASSUME NEW s \in Slots, NEW k \in DOMAIN flash[s].segs, NEW c \in flash[s].segs[k].cells
      PROVE  c \in Cells /\ c \notin Borrowed
  <2>1. flash[s] \in Images /\ flash[s].segs \in Seq(Segment)
    BY SlotFacts, LoadImageAssumption DEF LInv
  <2>2. flash[s].segs[k] \in Segment
    BY <2>1
  <2> QED
    BY <2>1, <2>2 DEF ImagesClear, Segment
<1> QED
  BY <1>1, <1>2, SlotFacts DEF LInv

\* Who holds a cell depends on the image and the reset reason only.
LEMMA HoldersKept ==
  ASSUME UNCHANGED wake
  PROVE  /\ \A g : should_load(g)' <=> should_load(g)
         /\ \A im, c : Holders(im, c)' = Holders(im, c)
         /\ \A im : LoadCells(im)' = LoadCells(im) /\ SoleCells(im)' = SoleCells(im)
BY DEF should_load, Holders, LoadCells, SoleCells

\* A cell that one segment holds alone is a cell of that segment.
LEMMA HeldOnce ==
  ASSUME NEW im, NEW c \in SoleCells(im)
  PROVE  /\ c \in LoadCells(im)
         /\ \E k \in DOMAIN im.segs :
              /\ should_load(im.segs[k]) /\ c \in im.segs[k].cells
              /\ Holders(im, c) = {k} /\ ~(AntiRollback /\ k = 1)
<1>1. c \in Cells
  BY DEF SoleCells
<1>2. PICK k \in DOMAIN im.segs : Holders(im, c) = {k} /\ ~(AntiRollback /\ k = 1)
  BY DEF SoleCells
<1>3. k \in Holders(im, c)
  BY <1>2
<1> QED
  BY <1>1, <1>2, <1>3 DEF LoadCells, Holders

\* Such a step keeps what is said of SRAM alone.
LEMMA AsideKeeps ==
  ASSUME LInv, MemInv, ImagesClear, Aside
  PROVE  /\ PlainOnlyAuthentic' /\ RtcKept'
         /\ \A s \in Slots : LoadedClear(s) => \A c \in SoleCells(flash[s]) : ram'[c] = Raw(s)
         /\ \A s \in Slots : \A k \in DOMAIN flash[s].segs :
              \A c \in flash[s].segs[k].cells : ram'[c] = ram[c]
<1>1. PlainOnlyAuthentic'
  BY DEF Aside, MemInv, PlainOnlyAuthentic, Authentic
<1>2. RtcKept'
  BY Apart DEF Aside, MemInv, RtcKept
<1>3. \A s \in Slots : \A k \in DOMAIN flash[s].segs :
        \A c \in flash[s].segs[k].cells : ram'[c] = ram[c]
  BY Apart DEF Aside
<1>4. ASSUME NEW s \in Slots, LoadedClear(s)
      PROVE  \A c \in SoleCells(flash[s]) : ram'[c] = Raw(s)
  BY <1>3, <1>4, HeldOnce DEF LoadedClear
<1> QED
  BY <1>1, <1>2, <1>3, <1>4

\* A slot's segments are numbered from 1.
LEMMA Numbered ==
  ASSUME LInv, NEW s \in Slots
  PROVE  \E n \in Nat : DOMAIN flash[s].segs = 1..n
<1>1. flash[s].segs \in Seq(Segment)
  BY SlotFacts, LoadImageAssumption DEF LInv
<1> QED
  BY <1>1

\* Where image_load may go without touching a segment.
Onward ==
  \/ pc' \in Idle \cup {"err", "abort"}
  \/ pc' = pc /\ pc # "rollback"
  \/ pc = "header" /\ pc' = "segs"
  \/ pc = "segs" /\ seg \notin DOMAIN flash[cur].segs /\ pc' \in Checked
  \/ pc \in Checked /\ pc' \in Checked

\* Going on, and returning, keeps what is known of the loaded segments.
LEMMA StoredKeeps ==
  ASSUME LInv, MemInv, ImagesClear, Aside, Onward, UNCHANGED <<mode, cur, seg>>,
         \/ UNCHANGED loaded
         \/ do_load /\ pc = "rollback" /\ loaded' = cur,
         UNCHANGED running \/ (running' = loaded /\ UNCHANGED loaded),
         running = NoSlot \/ UNCHANGED loaded
  PROVE  StoredInv'
<1> USE DEF Aside
<1>1. cur \in Slots /\ seg \in Nat
  BY DEF LInv, LTypeOK, LoadTypeOK
<1>2. PICK n \in Nat : DOMAIN flash[cur].segs = 1..n
  BY <1>1, Numbered
<1>3. seg' > 0 /\ (pc' = "header" => seg' = 1)
  BY <1>1 DEF MemInv, StoredInv, Onward, Checked, Idle
<1>4. ASSUME do_load', pc' \in {"segs"} \cup Checked,
             NEW k \in DOMAIN flash[cur].segs, k < seg, should_load(flash[cur].segs[k]),
             NEW c \in flash[cur].segs[k].cells
      PROVE  ram'[c].what = cur /\ (Holders(flash[cur], c) = {k} => ram'[c] = Stored(k))
  <2>1. pc # "header"
    BY <1>1, <1>2, <1>4 DEF MemInv, StoredInv
  <2>2. do_load /\ pc \in {"segs"} \cup Checked
    BY <1>4, <2>1 DEF do_load, Onward, Idle, Checked
  <2>3. ram[c].what = cur /\ (Holders(flash[cur], c) = {k} => ram[c] = Stored(k))
    BY <1>4, <2>2 DEF MemInv, StoredInv
  <2> QED
    BY <1>1, <1>4, <2>3, AsideKeeps
<1>5. ASSUME pc' \in Checked, NEW k \in DOMAIN flash[cur].segs
      PROVE  k < seg
  <2>1. CASE pc \in Checked
    BY <2>1 DEF MemInv, StoredInv
  <2>2. CASE pc = "segs" /\ seg \notin DOMAIN flash[cur].segs
    BY <1>1, <1>2, <2>2 DEF MemInv, StoredInv
  <2> QED
    BY <1>5, <2>1, <2>2 DEF Onward, Idle, Checked
<1>6. pc' # "rollback"
  BY DEF Onward, Idle, Checked
<1>7. loaded' # NoSlot => \A c \in SoleCells(flash[loaded']) : ram'[c] = Raw(loaded')
  <2>1. CASE UNCHANGED loaded
    <3>1. loaded # NoSlot => loaded \in Slots /\ LoadedClear(loaded)
      BY SlotFacts DEF LInv, LTypeOK, BootTypeOK, MemInv, StoredInv
    <3> QED
      BY <2>1, <3>1, AsideKeeps
  <2>2. CASE do_load /\ pc = "rollback" /\ loaded' = cur
    <3>1. LoadedClear(cur)
      BY <2>2 DEF MemInv, StoredInv
    <3> QED
      BY <1>1, <2>2, <3>1, AsideKeeps
  <2> QED
    BY <2>1, <2>2
<1>8. running' # NoSlot => running' = loaded'
  BY DEF MemInv, StoredInv
<1>9. \A c \in SoleCells(flash[loaded])' : c \in SoleCells(flash[loaded'])
  BY HoldersKept
<1>10. (loaded # NoSlot => LoadedClear(loaded))'
  BY <1>7, <1>9 DEF LoadedClear, Raw
<1>11. \A k : Stored(k)' = Stored(k)
  BY DEF Stored, ReadsVersion, HoldsAppDesc, do_verify
<1>12. /\ \A g : should_load(g)' <=> should_load(g)
       /\ \A c : Holders(flash[cur], c)' = Holders(flash[cur], c)
  BY HoldersKept DEF Holders, should_load
<1> QED
  BY <1>3, <1>4, <1>5, <1>6, <1>8, <1>10, <1>11, <1>12 DEF StoredInv

-----------------------------------------------------------------------------
(* The steps that load nothing.                                            *)

\* What AsideKeeps and StoredKeeps leave to say of a step.
LEMMA MemKept ==
  ASSUME LInv, MemInv, ImagesClear, Aside, StoredInv', ObfsInv', DataInv'
  PROVE  MemInv'
BY AsideKeeps DEF MemInv

\* A step of the verifier writes borrowed memory only, and nobody's code there.
LEMMA VerifyAside == ASSUME LInv, VerifyStep, UNCHANGED wake PROVE Aside
<1>1. /\ flash' = flash
      /\ \/ UNCHANGED ram
         \/ ram' = Written(HeadCells, Raw("heap"))
         \/ ram' = Written(StackCells, Raw("fill"))
         \/ ram' = Written(Borrowed, Raw("heap"))
         \/ ram' = Written(Borrowed, Raw("zero"))
  BY DEF VerifyStep, tlsf_ensure_init, NewSigObject, HashStart, HashOneChunk, HashFinish,
         MapBlock, CheckBlock, pqc_verify_on_stack, CleanUp, pqc_zero_temp_region, flashVars,
         heapVars
<1>2. HeadCells \subseteq Borrowed /\ StackCells \subseteq Borrowed
  BY HeadPlace DEF Borrowed
<1>3. \A u \in {"heap", "fill", "zero"} : Raw(u).what \notin Slots
  BY OwnerAssumption DEF Raw
<1> QED
  BY <1>1, <1>2, <1>3 DEF Written, Aside

\* A load with verification begins.
LEMMA bootloader_load_image_Mem ==
  ASSUME LInv, MemInv, ImagesClear, NEW s \in AppSlots, bootloader_load_image(s)
  PROVE  MemInv'
<1> USE DEF bootloader_load_image, Call, vvars
<1>1. Aside
  BY DEF Aside
<1>2. StoredInv'
  BY DEF MemInv, StoredInv, Checked, LoadedClear, SoleCells, Holders, should_load
<1>3. ObfsInv'
  <2>1. calls \in Nat /\ todo \subseteq AppSlots
    BY DEF LInv, LTypeOK, BootTypeOK
  <2> QED
    BY <2>1 DEF MemInv, ObfsInv, Checked, Idle, do_load
<1>4. DataInv'
  BY DEF DataInv, Checked
<1> QED
  BY <1>1, <1>2, <1>3, <1>4, MemKept

\* A load without verification begins.
LEMMA bootloader_load_image_no_verify_Mem ==
  ASSUME LInv, MemInv, ImagesClear, NEW s \in AppSlots, bootloader_load_image_no_verify(s)
  PROVE  MemInv'
<1> USE DEF bootloader_load_image_no_verify, Call, vvars
<1>1. Aside
  BY DEF Aside
<1>2. StoredInv'
  BY DEF MemInv, StoredInv, Checked, LoadedClear, SoleCells, Holders, should_load
<1>3. ObfsInv'
  <2>1. calls \in Nat /\ todo \subseteq AppSlots
    BY DEF LInv, LTypeOK, BootTypeOK
  <2> QED
    BY <2>1 DEF MemInv, ObfsInv, Checked, Idle, do_load
<1>4. DataInv'
  BY DEF DataInv, Checked
<1> QED
  BY <1>1, <1>2, <1>3, <1>4, MemKept

\* A check without loading begins.
LEMMA esp_image_verify_Mem ==
  ASSUME LInv, MemInv, ImagesClear, NEW s \in Slots, esp_image_verify(s)
  PROVE  MemInv'
<1> USE DEF esp_image_verify, Call, vvars
<1>1. Aside
  BY DEF Aside
<1>2. StoredInv'
  BY DEF MemInv, StoredInv, Checked, LoadedClear, SoleCells, Holders, should_load
<1>3. ObfsInv'
  <2>1. calls \in Nat /\ todo \subseteq AppSlots
    BY DEF LInv, LTypeOK, BootTypeOK
  <2> QED
    BY <2>1 DEF MemInv, ObfsInv, Checked, Idle, do_load
<1>4. DataInv'
  BY DEF DataInv, Checked
<1> QED
  BY <1>1, <1>2, <1>3, <1>4, MemKept

\* The header.
LEMMA process_image_header_Mem ==
  ASSUME LInv, MemInv, ImagesClear, process_image_header PROVE MemInv'
<1> USE DEF process_image_header, Err, ErrNoResource, Next_, callVars, bootVars, vvars
<1>1. Aside
  BY DEF Aside
<1>2. StoredInv'
  <2>1. Onward /\ UNCHANGED <<mode, cur, seg>>
    BY DEF Onward, Idle, Checked, LInv, LTypeOK, LoadTypeOK, LoadPoints
  <2> QED
    BY <1>1, <2>1, StoredKeeps
<1>3. ObfsInv'
  BY DEF LInv, LTypeOK, BootTypeOK, LoadTypeOK, MemInv, StoredInv, ObfsInv,
         Checked, Idle, do_load, do_verify
<1>4. DataInv'
  BY SlotAssumption DEF LInv, LTypeOK, LoadTypeOK, MemInv, DataInv, Checked, Data, ZeroData
<1> QED
  BY <1>1, <1>2, <1>3, <1>4, MemKept

\* The checksum, when the segments are through.
LEMMA process_checksum_Mem ==
  ASSUME LInv, MemInv, ImagesClear, process_checksum PROVE MemInv'
<1> USE DEF process_checksum, Err, ErrNoResource, Next_, callVars, bootVars, vvars
<1>1. Aside
  BY DEF Aside
<1>2. StoredInv'
  <2>1. Onward /\ UNCHANGED <<mode, cur, seg>>
    BY DEF Onward, Idle, Checked, LInv, LTypeOK, LoadTypeOK, LoadPoints
  <2> QED
    BY <1>1, <2>1, StoredKeeps
<1>3. ObfsInv'
  BY DEF LInv, LTypeOK, BootTypeOK, LoadTypeOK, MemInv, StoredInv, ObfsInv,
         Checked, Idle, do_load, do_verify
<1>4. DataInv'
  BY SlotAssumption DEF LInv, LTypeOK, LoadTypeOK, MemInv, DataInv, Checked, Data, ZeroData
<1> QED
  BY <1>1, <1>2, <1>3, <1>4, MemKept

\* The length.
LEMMA process_appended_hash_and_sig_Mem ==
  ASSUME LInv, MemInv, ImagesClear, process_appended_hash_and_sig PROVE MemInv'
<1> USE DEF process_appended_hash_and_sig, Err, ErrNoResource, Next_, callVars, bootVars, vvars
<1>1. Aside
  BY DEF Aside
<1>2. StoredInv'
  <2>1. Onward /\ UNCHANGED <<mode, cur, seg>>
    BY DEF Onward, Idle, Checked, LInv, LTypeOK, LoadTypeOK, LoadPoints
  <2> QED
    BY <1>1, <2>1, StoredKeeps
<1>3. ObfsInv'
  BY DEF LInv, LTypeOK, BootTypeOK, LoadTypeOK, MemInv, StoredInv, ObfsInv,
         Checked, Idle, do_load, do_verify
<1>4. DataInv'
  BY SlotAssumption DEF LInv, LTypeOK, LoadTypeOK, MemInv, DataInv, Checked, Data, ZeroData
<1> QED
  BY <1>1, <1>2, <1>3, <1>4, MemKept

\* The verifier is called.
LEMMA verify_secure_boot_signature_Mem ==
  ASSUME LInv, MemInv, ImagesClear, verify_secure_boot_signature PROVE MemInv'
<1> USE DEF verify_secure_boot_signature, Next_, callVars, bootVars, vvars
<1>1. Aside
  BY DEF Aside
<1>2. StoredInv'
  <2>1. Onward /\ UNCHANGED <<mode, cur, seg>>
    BY DEF Onward, Idle, Checked, LInv, LTypeOK, LoadTypeOK, LoadPoints
  <2> QED
    BY <1>1, <2>1, StoredKeeps
<1>3. ObfsInv'
  BY DEF LInv, LTypeOK, BootTypeOK, LoadTypeOK, MemInv, StoredInv, ObfsInv,
         Checked, Idle, do_load, do_verify
<1>4. DataInv'
  BY SlotAssumption DEF LInv, LTypeOK, LoadTypeOK, MemInv, DataInv, Checked, Data, ZeroData
<1> QED
  BY <1>1, <1>2, <1>3, <1>4, MemKept

\* The verifier runs.
LEMMA PqcStep_Mem ==
  ASSUME LInv, MemInv, ImagesClear, PqcStep PROVE MemInv'
<1> USE DEF PqcStep, callVars, bootVars, vvars
<1>1. Aside
  BY VerifyAside
<1>2. StoredInv'
  <2>1. Onward /\ UNCHANGED <<mode, cur, seg>>
    BY DEF Onward, Idle, Checked, LInv, LTypeOK, LoadTypeOK, LoadPoints
  <2> QED
    BY <1>1, <2>1, StoredKeeps
<1>3. ObfsInv'
  BY DEF LInv, LTypeOK, BootTypeOK, LoadTypeOK, MemInv, StoredInv, ObfsInv,
         Checked, Idle, do_load, do_verify
<1>4. DataInv'
  BY SlotAssumption DEF LInv, LTypeOK, LoadTypeOK, MemInv, DataInv, Checked, Data, ZeroData
<1> QED
  BY <1>1, <1>2, <1>3, <1>4, MemKept

\* The verifier returns.
LEMMA PqcResult_Mem ==
  ASSUME LInv, MemInv, ImagesClear, PqcResult PROVE MemInv'
<1> USE DEF PqcResult, Next_, callVars, bootVars, vvars
<1>1. Aside
  BY DEF Aside, VerifyReturn, flashVars, heapVars
<1>2. StoredInv'
  <2>1. Onward /\ UNCHANGED <<mode, cur, seg>>
    BY DEF Onward, Idle, Checked, LInv, LTypeOK, LoadTypeOK, LoadPoints
  <2> QED
    BY <1>1, <2>1, StoredKeeps
<1>3. ObfsInv'
  BY DEF LInv, LTypeOK, BootTypeOK, LoadTypeOK, MemInv, StoredInv, ObfsInv,
         Checked, Idle, do_load, do_verify
<1>4. DataInv'
  BY SlotAssumption DEF LInv, LTypeOK, LoadTypeOK, MemInv, DataInv, Checked, Data, ZeroData
<1> QED
  BY <1>1, <1>2, <1>3, <1>4, MemKept

\* The classical check.
LEMMA ClassicSignature_Mem ==
  ASSUME LInv, MemInv, ImagesClear, ClassicSignature PROVE MemInv'
<1> USE DEF ClassicSignature, Err, ErrNoResource, Next_, callVars, bootVars, vvars
<1>1. Aside
  BY DEF Aside
<1>2. StoredInv'
  <2>1. Onward /\ UNCHANGED <<mode, cur, seg>>
    BY DEF Onward, Idle, Checked, LInv, LTypeOK, LoadTypeOK, LoadPoints
  <2> QED
    BY <1>1, <2>1, StoredKeeps
<1>3. ObfsInv'
  BY DEF LInv, LTypeOK, BootTypeOK, LoadTypeOK, MemInv, StoredInv, ObfsInv,
         Checked, Idle, do_load, do_verify
<1>4. DataInv'
  BY SlotAssumption DEF LInv, LTypeOK, LoadTypeOK, MemInv, DataInv, Checked, Data, ZeroData
<1> QED
  BY <1>1, <1>2, <1>3, <1>4, MemKept

\* image_load succeeds, or the version is too old.
LEMMA Success_Mem ==
  ASSUME LInv, MemInv, ImagesClear, Success PROVE MemInv'
<1> USE DEF Success, Err, Next_, callVars, bootVars, vvars
<1>1. Aside
  BY DEF Aside
<1>2. StoredInv'
  <2>1. Onward /\ UNCHANGED <<mode, cur, seg>>
    BY DEF Onward, Idle, Checked, LInv, LTypeOK, LoadTypeOK, LoadPoints
  <2> QED
    BY <1>1, <2>1, StoredKeeps DEF LInv, CallInv
<1>3. ObfsInv'
  BY DEF LInv, LTypeOK, BootTypeOK, LoadTypeOK, MemInv, StoredInv, ObfsInv,
         Checked, Idle, do_load, do_verify
<1>4. DataInv'
  BY SlotAssumption DEF LInv, LTypeOK, LoadTypeOK, MemInv, DataInv, Checked, Data, ZeroData
<1> QED
  BY <1>1, <1>2, <1>3, <1>4, MemKept

\* image_load fails.
LEMMA Failure_Mem ==
  ASSUME LInv, MemInv, ImagesClear, Failure PROVE MemInv'
<1> USE DEF Failure, Next_, bzero_metadata, callVars, bootVars, vvars
<1>1. Aside
  BY DEF Aside
<1>2. StoredInv'
  <2>1. Onward /\ UNCHANGED <<mode, cur, seg>>
    BY DEF Onward, Idle, Checked, LInv, LTypeOK, LoadTypeOK, LoadPoints
  <2> QED
    BY <1>1, <2>1, StoredKeeps
<1>3. ObfsInv'
  BY DEF LInv, LTypeOK, BootTypeOK, LoadTypeOK, MemInv, StoredInv, ObfsInv,
         Checked, Idle, do_load, do_verify
<1>4. DataInv'
  BY SlotAssumption DEF LInv, LTypeOK, LoadTypeOK, MemInv, DataInv, Checked, Data, ZeroData
<1> QED
  BY <1>1, <1>2, <1>3, <1>4, MemKept

\* The application starts.
LEMMA StartApp_Mem ==
  ASSUME LInv, MemInv, ImagesClear, StartApp PROVE MemInv'
<1> USE DEF StartApp, Next_, callVars, bootVars, vvars
<1>1. Aside
  BY DEF Aside
<1>2. StoredInv'
  <2>1. Onward /\ UNCHANGED <<mode, cur, seg>>
    BY DEF Onward, Idle, Checked, LInv, LTypeOK, LoadTypeOK, LoadPoints
  <2> QED
    BY <1>1, <2>1, StoredKeeps DEF LInv, CallInv
<1>3. ObfsInv'
  BY DEF LInv, LTypeOK, BootTypeOK, LoadTypeOK, MemInv, StoredInv, ObfsInv,
         Checked, Idle, do_load, do_verify
<1>4. DataInv'
  BY SlotAssumption DEF LInv, LTypeOK, LoadTypeOK, MemInv, DataInv, Checked, Data, ZeroData
<1> QED
  BY <1>1, <1>2, <1>3, <1>4, MemKept

\* The bootloader gives up.
LEMMA NoBootableApp_Mem ==
  ASSUME LInv, MemInv, ImagesClear, NoBootableApp PROVE MemInv'
<1> USE DEF NoBootableApp, Next_, callVars, bootVars, vvars
<1>1. Aside
  BY DEF Aside
<1>2. StoredInv'
  <2>1. Onward /\ UNCHANGED <<mode, cur, seg>>
    BY DEF Onward, Idle, Checked, LInv, LTypeOK, LoadTypeOK, LoadPoints
  <2> QED
    BY <1>1, <2>1, StoredKeeps
<1>3. ObfsInv'
  BY DEF LInv, LTypeOK, BootTypeOK, LoadTypeOK, MemInv, StoredInv, ObfsInv,
         Checked, Idle, do_load, do_verify
<1>4. DataInv'
  BY SlotAssumption DEF LInv, LTypeOK, LoadTypeOK, MemInv, DataInv, Checked, Data, ZeroData
<1> QED
  BY <1>1, <1>2, <1>3, <1>4, MemKept

-----------------------------------------------------------------------------
(* A segment is stored.                                                    *)

\* What process_segment does, whichever way it goes: it stops before it stores, stops
\* after it has stored, or stores and goes on.
LEMMA SegmentStored ==
  ASSUME LInv, process_segment, NEW g, g = flash[cur].segs[seg]
  PROVE  /\ pc = "segs" /\ cur \in Slots /\ seg \in DOMAIN flash[cur].segs
         /\ UNCHANGED <<flash, mode, cur, wake, loaded, running, todo, calls>>
         /\ ram' = ram \/ (do_load /\ should_load(g) /\ ram' = Written(g.cells, Stored(seg)))
         /\ \/ pc' \in {"err", "abort"} /\ seg' = seg /\ (obfs' = obfs \/ ram_obfs_value)
            \/ /\ pc' = "segs" /\ seg' = seg + 1 /\ ram_obfs_value
               /\ do_load /\ should_load(g) => ram' = Written(g.cells, Stored(seg))
               /\ data' = data \/ data' = [data EXCEPT !.ver = flash[cur].ver]
<1> USE DEF process_segment, process_segment_data, StoreSegment, Err, ErrNoResource, Next_,
            callVars, bootVars
<1>1. pc = "segs" /\ seg \in DOMAIN flash[cur].segs
  OBVIOUS
<1>2. cur \in Slots
  BY DEF LInv, LTypeOK, LoadTypeOK
<1>3. UNCHANGED <<flash, mode, cur, wake, loaded, running, todo, calls>>
  OBVIOUS
<1>4. ram' = ram \/ (do_load /\ should_load(g) /\ ram' = Written(g.cells, Stored(seg)))
  OBVIOUS
<1>5. \/ pc' \in {"err", "abort"} /\ seg' = seg /\ (obfs' = obfs \/ ram_obfs_value)
      \/ /\ pc' = "segs" /\ seg' = seg + 1 /\ ram_obfs_value
         /\ do_load /\ should_load(g) => ram' = Written(g.cells, Stored(seg))
         /\ data' = data \/ data' = [data EXCEPT !.ver = flash[cur].ver]
  OBVIOUS
<1> QED
  BY <1>1, <1>2, <1>3, <1>4, <1>5

\* A segment is stored obfuscated, or it is of the image that ran before the sleep; it
\* never lies in RTC memory after a deep sleep, and no load has succeeded yet.
LEMMA process_segment_Mem ==
  ASSUME LInv, MemInv, ImagesClear, RtcApart, process_segment
  PROVE  MemInv'
<1> DEFINE g == flash[cur].segs[seg]
<1>1. /\ pc = "segs" /\ cur \in Slots /\ seg \in DOMAIN flash[cur].segs
      /\ UNCHANGED <<flash, mode, cur, wake, loaded, running, todo, calls>>
      /\ ram' = ram \/ (do_load /\ should_load(g) /\ ram' = Written(g.cells, Stored(seg)))
      /\ \/ pc' \in {"err", "abort"} /\ seg' = seg /\ (obfs' = obfs \/ ram_obfs_value)
         \/ /\ pc' = "segs" /\ seg' = seg + 1 /\ ram_obfs_value
            /\ do_load /\ should_load(g) => ram' = Written(g.cells, Stored(seg))
            /\ data' = data \/ data' = [data EXCEPT !.ver = flash[cur].ver]
  BY SegmentStored
<1>2. seg \in Nat /\ data \in Data /\ obfs \in BOOLEAN /\ flash[cur] \in Images
  BY <1>1, SlotFacts DEF LInv, LTypeOK, LoadTypeOK
<1>3. \A c \in Cells : \/ ram'[c] = ram[c]
                       \/ c \in g.cells /\ do_load /\ should_load(g) /\ ram'[c] = Stored(seg)
  BY <1>1 DEF Written
<1>4. PlainOnlyAuthentic'
  <2> SUFFICES ASSUME NEW c \in Cells, ram'[c].what \in Slots, ram'[c].obf = {}
               PROVE  Authentic(flash[ram'[c].what])
    BY <1>1 DEF PlainOnlyAuthentic, Authentic
  <2>1. CASE ram'[c] = ram[c]
    BY <2>1 DEF MemInv, PlainOnlyAuthentic
  <2>2. CASE do_load /\ ram'[c] = Stored(seg)
    <3>1. ~do_verify /\ ram'[c].what = cur
      BY <2>2 DEF Stored, Phase, Marks
    <3>2. mode = "NO_VALIDATE"
      BY <2>2, <3>1 DEF do_load, do_verify
    <3>3. cur = sleeper /\ sleeper # NoSlot
      BY <1>1, <3>2, SlotAssumption DEF LInv, CallInv
    <3>4. Trusted(flash[cur])
      BY <3>3 DEF LInv, TrustInv
    <3> QED
      BY <3>1, <3>4 DEF Trusted
  <2> QED
    BY <1>3, <2>1, <2>2
<1>5. RtcKept'
  <2> SUFFICES ASSUME wake = "deepsleep", NEW c \in RtcCells PROVE ram'[c] = Raw("kept")
    BY <1>1 DEF RtcKept, Raw
  <2>1. ram[c] = Raw("kept") /\ c \in Cells
    BY RtcPlace DEF MemInv, RtcKept
  <2>2. should_load(g) => c \notin g.cells
    BY <1>1, <1>2 DEF should_load, RtcApart
  <2> QED
    BY <1>3, <2>1, <2>2
<1>6. StoredInv'
  <2>1. seg' > 0 /\ pc' # "header" /\ pc' \notin Checked /\ pc' # "rollback"
    BY <1>1, <1>2 DEF MemInv, StoredInv, Checked
  <2>2. ASSUME do_load, pc' = "segs",
               NEW k \in DOMAIN flash[cur].segs, k < seg', should_load(flash[cur].segs[k]),
               NEW c \in flash[cur].segs[k].cells
        PROVE  ram'[c].what = cur /\ (Holders(flash[cur], c) = {k} => ram'[c] = Stored(k))
    <3>1. c \in Cells /\ Stored(seg).what = cur
      BY <1>1, Apart DEF Stored
    <3>2. CASE k = seg
      BY <1>1, <2>2, <3>1, <3>2 DEF Written
    <3>3. CASE k < seg
      <4>1. ram[c].what = cur /\ (Holders(flash[cur], c) = {k} => ram[c] = Stored(k))
        BY <1>1, <2>2, <3>3 DEF MemInv, StoredInv
      <4>2. Holders(flash[cur], c) = {k} => c \notin g.cells \/ ~should_load(g)
        BY <1>1, <1>2, <3>3 DEF Holders
      <4> QED
        BY <1>3, <3>1, <4>1, <4>2
    <3>4. PICK n \in Nat : DOMAIN flash[cur].segs = 1..n
      BY <1>1, Numbered
    <3> QED
      BY <1>1, <1>2, <2>2, <3>2, <3>3, <3>4
  <2>3. loaded # NoSlot => ram' = ram
    BY <1>1 DEF MemInv, ObfsInv, Idle
  <2>4. (loaded # NoSlot => LoadedClear(loaded))'
    BY <1>1, <2>3 DEF MemInv, StoredInv, LoadedClear, SoleCells, Holders, should_load
  <2>5. /\ \A k : Stored(k)' = Stored(k)
        /\ (do_load' <=> do_load) /\ \A h : should_load(h)' <=> should_load(h)
        /\ \A c : Holders(flash[cur], c)' = Holders(flash[cur], c)
    BY <1>1 DEF Stored, ReadsVersion, HoldsAppDesc, do_load, do_verify, Holders, should_load
  <2>6. running' # NoSlot => running' = loaded'
    BY <1>1 DEF MemInv, StoredInv
  <2> QED
    BY <1>1, <2>1, <2>2, <2>4, <2>5, <2>6 DEF StoredInv, Checked
<1>7. ObfsInv'
  <2>1. pc' \notin Idle /\ pc \notin Idle /\ pc' \in {"segs", "err", "abort"}
    BY <1>1 DEF Idle
  <2>2. mode = "NO_VALIDATE" => ~obfs'
    BY <1>1, <2>1 DEF MemInv, ObfsInv, ram_obfs_value, do_verify
  <2>3. do_verify /\ pc' = "segs" => obfs'
    BY <1>1 DEF ram_obfs_value
  <2> QED
    BY <1>1, <2>1, <2>2, <2>3 DEF MemInv, ObfsInv, do_load, do_verify, Checked
<1>8. DataInv'
  <2>1. pc' = "segs" => data'.slot = data.slot
    BY <1>1, <1>2 DEF Data
  <2> QED
    BY <1>1, <2>1 DEF MemInv, DataInv, Checked
<1> QED
  BY <1>4, <1>5, <1>6, <1>7, <1>8 DEF MemInv

-----------------------------------------------------------------------------
(* The obfuscation comes off.                                              *)

\* When the assertion is reached all that is to be loaded is this image's, and lies in SRAM
\* as it was stored where one segment holds it alone.
LEMMA AllStored ==
  ASSUME LInv, MemInv, do_load, pc = "assert"
  PROVE  /\ \A c \in LoadCells(flash[cur]) : ram[c].what = cur
         /\ \A c \in SoleCells(flash[cur]) :
              \E k \in DOMAIN flash[cur].segs :
                /\ Holders(flash[cur], c) = {k} /\ ram[c] = Stored(k)
                /\ ~(AntiRollback /\ k = 1)
<1>1. \A k \in DOMAIN flash[cur].segs :
        should_load(flash[cur].segs[k]) =>
          \A c \in flash[cur].segs[k].cells :
            ram[c].what = cur /\ (Holders(flash[cur], c) = {k} => ram[c] = Stored(k))
  BY DEF MemInv, StoredInv, Checked
<1>2. \A c \in LoadCells(flash[cur]) : ram[c].what = cur
  BY <1>1 DEF LoadCells, Holders
<1> QED
  BY <1>1, <1>2, HeldOnce

\* What a verified load stored with the word of one segment, and that segment alone is XORed
\* once more, is in the clear.
LEMMA ObfuscationOff ==
  ASSUME NEW c \in Cells, NEW k, do_verify, ram[c] = Stored(k),
         Holders(flash[cur], c) = {k}, ~(AntiRollback /\ k = 1)
  PROVE  Deobfuscated(flash[cur], c) = Raw(cur)
<1> DEFINE p == Phase(flash[cur].segs[k])
           S == {m \in Marks :
                   (m \in ram[c].obf) # (Cardinality(XoredBy(flash[cur], c, m)) % 2 = 1)}
<1>1. p \in Marks /\ p # "moved"
  BY DEF Phase, Marks
<1>2. ram[c].what = cur /\ ram[c].obf = {p}
  <2>1. ~ReadsVersion(k)
    BY DEF ReadsVersion, HoldsAppDesc
  <2>2. {m \in Marks : (do_verify /\ m = p) \/ (ReadsVersion(k) /\ m = "moved")} = {p}
    BY <1>1, <2>1
  <2> QED
    BY <2>2 DEF Stored
<1>3. ASSUME NEW m \in Marks
      PROVE  (Cardinality(XoredBy(flash[cur], c, m)) % 2 = 1) <=> m = p
  <2>1. CASE m = p
    <3>1. XoredBy(flash[cur], c, m) = {k}
      BY <2>1 DEF XoredBy
    <3>2. Cardinality({k}) = 1
      BY FS_Singleton
    <3> QED
      BY <2>1, <3>1, <3>2
  <2>2. CASE m # p
    <3>1. XoredBy(flash[cur], c, m) = {}
      BY <2>2 DEF XoredBy
    <3>2. Cardinality({}) = 0
      BY FS_EmptySet
    <3> QED
      BY <2>2, <3>1, <3>2
  <2> QED
    BY <2>1, <2>2
<1>4. S = {}
  BY <1>2, <1>3
<1>5. ram[c] = [what |-> cur, obf |-> {p}]
  <2>1. {m \in Marks : (do_verify /\ m = p) \/ (ReadsVersion(k) /\ m = "moved")} = {p}
    BY <1>1 DEF ReadsVersion, HoldsAppDesc
  <2> QED
    BY <2>1 DEF Stored
<1> HIDE DEF p, S
<1>6. [ram[c] EXCEPT !.obf = S] = [what |-> cur, obf |-> S]
  BY <1>5
<1> QED
  BY <1>4, <1>6 DEF S, Deobfuscated, Raw

\* Only a load with verification has drawn the words, and what it deobfuscates is of an
\* image both of whose signatures were checked.
LEMMA Deobfuscate_Mem ==
  ASSUME LInv, MemInv, ImagesClear, RtcApart, Deobfuscate
  PROVE  MemInv'
<1> USE DEF Deobfuscate, Next_, callVars, bootVars
<1> DEFINE L == LoadCells(flash[cur])
           Sole == SoleCells(flash[cur])
<1>1. /\ pc = "assert" /\ pc' = "rollback" /\ (verified \/ skip_verify)
      /\ UNCHANGED <<flash, mode, cur, seg, obfs, data, ret, loaded, running, wake, todo,
                     calls>>
  OBVIOUS
<1>2. cur \in Slots /\ seg \in Nat /\ flash[cur] \in Images
  BY SlotFacts DEF LInv, LTypeOK, LoadTypeOK
<1>3. do_load => loaded = NoSlot
  BY <1>1 DEF MemInv, ObfsInv, Idle
<1>4. /\ PlainOnlyAuthentic' /\ RtcKept'
      /\ do_load => \A c \in Sole : ram'[c] = Raw(cur)
      /\ ~do_load => ram' = ram
  <2>1. CASE do_load /\ obfs
    <3>1. mode = "LOAD"
      BY <1>1, <2>1 DEF do_load, MemInv, ObfsInv, Idle
    <3>2. Authentic(flash[cur])
      <4>1. verified /\ cur # Bootloader
        BY <1>1, <2>1, <3>1, SlotFacts DEF skip_verify, LInv, CallInv
      <4> QED
        BY <4>1 DEF LInv, AuthInv
    <3>3. \A c \in Cells : \/ c \in L /\ ram'[c] = Deobfuscated(flash[cur], c)
                           \/ c \notin L /\ ram'[c] = ram[c]
      BY <2>1
    <3>4. ASSUME NEW c \in Sole PROVE ram'[c] = Raw(cur)
      <4>1. c \in Cells /\ c \in L
        BY HeldOnce DEF SoleCells
      <4>2. PICK k \in DOMAIN flash[cur].segs :
              /\ Holders(flash[cur], c) = {k} /\ ram[c] = Stored(k)
              /\ ~(AntiRollback /\ k = 1)
        BY <1>1, <2>1, AllStored
      <4>3. Deobfuscated(flash[cur], c) = Raw(cur)
        BY <3>1, <4>1, <4>2, ObfuscationOff DEF do_verify
      <4> QED
        BY <3>3, <4>1, <4>3
    <3>5. \A c \in Cells : c \in L => ram'[c].what = cur
      <4> SUFFICES ASSUME NEW c \in Cells, c \in L PROVE ram'[c].what = cur
        OBVIOUS
      <4>1. ram[c].what = cur /\ ram[c] \in Value
        BY <1>1, <2>1, AllStored DEF LInv, LTypeOK, VTypeOK
      <4>2. Deobfuscated(flash[cur], c).what = cur
        BY <4>1 DEF Deobfuscated, Value
      <4> QED
        BY <3>3, <4>2
    <3>6. PlainOnlyAuthentic'
      BY <1>1, <3>2, <3>3, <3>5 DEF MemInv, PlainOnlyAuthentic, Authentic
    <3>7. RtcKept'
      <4>1. wake = "deepsleep" => \A c \in RtcCells : c \notin L
        BY <1>2 DEF RtcApart, LoadCells, Holders, should_load
      <4> QED
        BY <1>1, <3>3, <4>1, RtcPlace DEF MemInv, RtcKept
    <3> QED
      BY <2>1, <3>4, <3>6, <3>7
  <2>2. CASE ~(do_load /\ obfs)
    <3>1. ram' = ram
      BY <2>2
    <3>2. PlainOnlyAuthentic' /\ RtcKept'
      BY <1>1, <3>1 DEF MemInv, PlainOnlyAuthentic, RtcKept, Authentic
    <3>3. ASSUME do_load, NEW c \in Sole PROVE ram'[c] = Raw(cur)
      <4>0. PICK k \in DOMAIN flash[cur].segs : ram[c] = Stored(k)
        BY <1>1, <3>3, AllStored
      <4>1. CASE mode = "NO_VALIDATE"
        <5>1. {m \in Marks : \/ do_verify /\ m = Phase(flash[cur].segs[k])
                             \/ ReadsVersion(k) /\ m = "moved"} = {}
          BY <4>1 DEF do_verify, ReadsVersion, HoldsAppDesc
        <5> QED
          BY <3>1, <4>0, <5>1 DEF Stored, Raw
      <4>2. CASE mode = "LOAD"
        <5>1. ~(seg > 1)
          BY <1>1, <2>2, <3>3, <4>2 DEF MemInv, ObfsInv, do_verify, Checked
        <5>2. k < seg
          BY <1>1 DEF MemInv, StoredInv, Checked
        <5>3. PICK n \in Nat : DOMAIN flash[cur].segs = 1..n
          BY <1>2, Numbered
        <5> QED
          BY <1>2, <5>1, <5>2, <5>3
      <4> QED
        BY <3>3, <4>1, <4>2 DEF do_load
    <3> QED
      BY <3>1, <3>2, <3>3
  <2> QED
    BY <2>1, <2>2
<1>5. StoredInv'
  <2>0. SoleCells(flash[cur])' = SoleCells(flash[cur]) /\ (do_load' <=> do_load) /\ cur' = cur
    BY <1>1 DEF SoleCells, Holders, should_load, do_load
  <2>1. (do_load => LoadedClear(cur))'
    BY <1>4, <2>0 DEF LoadedClear, Raw
  <2>2. (loaded # NoSlot => LoadedClear(loaded))'
    BY <1>1, <1>3, <1>4 DEF MemInv, StoredInv, LoadedClear, SoleCells, Holders, should_load, do_load
  <2>3. running' # NoSlot => running' = loaded'
    BY <1>1 DEF MemInv, StoredInv
  <2>4. seg' > 0
    BY <1>1 DEF MemInv, StoredInv
  <2> QED
    BY <1>1, <2>1, <2>2, <2>3, <2>4 DEF StoredInv, Checked
<1>6. ObfsInv'
  BY <1>1 DEF MemInv, ObfsInv, Idle, Checked, do_load, do_verify
<1>7. DataInv'
  BY <1>1 DEF MemInv, DataInv, Checked
<1> QED
  BY <1>4, <1>5, <1>6, <1>7 DEF MemInv

-----------------------------------------------------------------------------
(* The chip restarts.                                                      *)

\* A restart leaves in RTC memory what was there or what the application left, and
\* nobody's code elsewhere.
LEMMA Restart_Mem ==
  ASSUME LInv, MemInv, NEW reason, NEW rtc, Restart(reason, rtc),
         \A c \in RtcCells : rtc[c] = ram[c] \/ rtc[c] = Raw("kept"),
         reason = "deepsleep" => \A c \in RtcCells : rtc[c] = Raw("kept")
  PROVE  MemInv'
<1> USE DEF Restart
<1>1. \A c \in Cells : ram'[c] \in {ram[c], Raw("kept"), Raw("init")}
  OBVIOUS
<1>2. Raw("kept").what \notin Slots /\ Raw("init").what \notin Slots
  BY OwnerAssumption DEF Raw
<1>3. PlainOnlyAuthentic'
  BY <1>1, <1>2 DEF MemInv, PlainOnlyAuthentic, Authentic
<1>4. RtcKept'
  BY RtcPlace DEF RtcKept, Raw
<1>5. StoredInv'
  BY DEF StoredInv, Checked, do_load
<1>6. ObfsInv'
  BY DEF ObfsInv, Checked, Idle, do_load
<1>7. DataInv'
  BY DEF DataInv, Checked, ZeroData
<1> QED
  BY <1>3, <1>4, <1>5, <1>6, <1>7 DEF MemInv

-----------------------------------------------------------------------------
(* The invariant.                                                          *)

\* Nothing happens.
LEMMA MemStutter == ASSUME MemInv, UNCHANGED lvars PROVE MemInv'
<1> USE DEF lvars, vvars
<1>1. PlainOnlyAuthentic' /\ RtcKept'
  BY DEF MemInv, PlainOnlyAuthentic, RtcKept, Authentic
<1>2. StoredInv'
  BY DEF MemInv, StoredInv, LoadedClear, SoleCells, Holders, should_load, Stored, ReadsVersion,
         HoldsAppDesc, do_load, do_verify, Checked
<1>3. ObfsInv' /\ DataInv'
  BY DEF MemInv, ObfsInv, DataInv, do_load, do_verify, Checked, Idle
<1> QED
  BY <1>1, <1>2, <1>3 DEF MemInv

\* At power on SRAM holds nobody's code.
LEMMA MemInit == LInit => MemInv
<1> SUFFICES ASSUME LInit PROVE MemInv
  OBVIOUS
<1> USE DEF LInit, VInit
<1>1. \A c \in Cells : ram[c].what \notin Slots
  BY OwnerAssumption DEF Raw
<1>2. PlainOnlyAuthentic /\ RtcKept
  BY <1>1 DEF PlainOnlyAuthentic, RtcKept
<1>3. StoredInv /\ ObfsInv /\ DataInv
  BY DEF StoredInv, ObfsInv, DataInv, do_load, Checked, Idle, ZeroData
<1> QED
  BY <1>2, <1>3 DEF MemInv

\* Every step.
LEMMA MemNext ==
  ASSUME LInv, MemInv, ImagesClear, RtcApart, [LNext]_lvars
  PROVE  MemInv'
<1>1. CASE Reset
  BY <1>1, Restart_Mem DEF Reset
<1>2. CASE DeepSleep
  BY <1>2, Restart_Mem DEF DeepSleep
<1> QED
  BY <1>1, <1>2, bootloader_load_image_Mem, bootloader_load_image_no_verify_Mem,
     esp_image_verify_Mem, process_image_header_Mem, process_segment_Mem,
     process_checksum_Mem, process_appended_hash_and_sig_Mem,
     verify_secure_boot_signature_Mem, PqcStep_Mem, PqcResult_Mem, ClassicSignature_Mem,
     Deobfuscate_Mem, Success_Mem, Failure_Mem, StartApp_Mem, NoBootableApp_Mem, MemStutter
  DEF LNext, image_load

\* For every layout that keeps images out of the borrowed memory and out of RTC memory
\* that is not theirs, and whatever the partitions hold: the invariant.
THEOREM MemInvariant == ImagesClear /\ RtcApart => (LSpec => [](LInv /\ MemInv))
<1> SUFFICES ASSUME ImagesClear, RtcApart PROVE LSpec => [](LInv /\ MemInv)
  OBVIOUS
<1>1. LInit => MemInv
  BY MemInit
<1>2. LInv /\ MemInv /\ [LNext]_lvars => MemInv'
  BY MemNext
<1>3. LSpec => []LInv
  BY LInvariant
<1> QED
  BY <1>1, <1>2, <1>3, PTL DEF LSpec

\* No unverified image ever lies in SRAM in the clear.
THEOREM LPlainOnlyAuthentic == ImagesClear /\ RtcApart => (LSpec => []PlainOnlyAuthentic)
<1>1. MemInv => PlainOnlyAuthentic
  BY DEF MemInv
<1> QED
  BY <1>1, MemInvariant, PTL

\* The application starts with exactly what its image holds, wherever one segment alone is
\* to be loaded.
THEOREM LRamIsImage == ImagesClear /\ RtcApart => (LSpec => []RamIsImage)
<1>1. MemInv => RamIsImage
  BY DEF MemInv, StoredInv, LoadedClear, RamIsImage
<1> QED
  BY <1>1, MemInvariant, PTL

\* RTC memory survives deep sleep and every load after it.
THEOREM LRtcKept == ImagesClear /\ RtcApart => (LSpec => []RtcKept)
<1>1. MemInv => RtcKept
  BY DEF MemInv
<1> QED
  BY <1>1, MemInvariant, PTL

\* image_load returns with everything finished, unmapped and wiped.
THEOREM LCleanReturn == ImagesClear /\ RtcApart => (LSpec => []CleanReturn)
<1>1. LInv /\ MemInv => CleanReturn
  BY DEF MemInv, DataInv, LInv, VInv, OpenInv, CallInv, LTypeOK, VTypeOK, CleanReturn
<1> QED
  BY <1>1, MemInvariant, PTL

=============================================================================
