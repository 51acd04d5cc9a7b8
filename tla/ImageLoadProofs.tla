-------------------------- MODULE ImageLoadProofs --------------------------
(***************************************************************************)
(* Proofs about ImageLoad: whatever is tried, refused, skipped on wake-up  *)
(* or cut short by a reset, an application that runs is trusted, and       *)
(* image_load with its callers implements SecureBoot.  The verifier's own  *)
(* invariant comes from PqcVerifyProofs; what is added here is that        *)
(* image_load's steps leave it alone.                                      *)
(***************************************************************************)
EXTENDS ImageLoad, PqcVerifyProofs, LoadAddressesProofs

-----------------------------------------------------------------------------
(* image_load and the verifier's state.                                    *)

\* The verifier's invariant does not depend on what image_load does with its own
\* SHA context and with memory that is not borrowed.
LEMMA VFrame ==
  ASSUME VInv, UNCHANGED <<flash, map, pqcVars>>,
         sha' \subseteq {"load", "pqc"}, "pqc" \in sha' => "pqc" \in sha,
         ram' \in [Cells -> Value],
         \A c \in Borrowed : ram'[c] = ram[c]
  PROVE  VInv'
<1> USE DEF VInv, pqcVars
<1>1. VTypeOK'
  BY DEF VTypeOK
<1>2. ArgsInv' /\ OpenInv'
  BY DEF ArgsInv, OpenInv, BlockOffset
<1>3. HeapInv'
  BY HeadPlace DEF HeapInv, HeapIntact
<1>4. VerdictInv' /\ AcceptsOnlySigned' /\ RefusesOnlyForCause'
  BY DEF VerdictInv, AcceptsOnlySigned, RefusesOnlyForCause, WellSigned
<1> QED
  BY <1>1, <1>2, <1>3, <1>4

\* What image_load's invariant depends on besides its own variables: the steps
\* that change only the verifier's leave the rest of it alone.
LEMMA DataType ==
  /\ ZeroData \in Data
  /\ \A s : [ZeroData EXCEPT !.slot = s].ver = 0
  /\ \A d \in Data, s \in Slots : [d EXCEPT !.slot = s] \in Data
  /\ \A d \in Data, n \in Nat : /\ [d EXCEPT !.len = n] \in Data
                                /\ [d EXCEPT !.len = n].ver = d.ver
                                /\ [d EXCEPT !.ver = n] \in Data
                                /\ [d EXCEPT !.ver = n].ver = n
BY DEF Data, ZeroData

\* An image's length and version are numbers.
LEMMA ImageFacts ==
  ASSUME LTypeOK, NEW s \in Slots
  PROVE  /\ flash[s].len \in Nat /\ flash[s].len + 1 \in Nat
         /\ flash[s].ver \in Nat
BY ImageAssumption, LoadImageAssumption DEF LTypeOK, VTypeOK

LEMMA SlotFacts ==
  ASSUME LTypeOK
  PROVE  /\ \A s \in Slots : flash[s] \in Images
         /\ \A s \in AppSlots : s \in Slots /\ s # NoSlot /\ s # Bootloader
         /\ NoSlot \notin Slots
BY SlotAssumption, LoadSlotAssumption DEF LTypeOK, VTypeOK

\* Loading and deobfuscating stay off the borrowed memory.
LEMMA LoadPlace ==
  ASSUME LTypeOK, ImagesClear, NEW s \in Slots
  PROVE  /\ \A i \in DOMAIN flash[s].segs : flash[s].segs[i].cells \cap Borrowed = {}
         /\ LoadCells(flash[s]) \cap Borrowed = {}
BY SlotFacts DEF ImagesClear, LoadCells, Holders

\* A stored and a deobfuscated word are words.
LEMMA WordType ==
  ASSUME LTypeOK
  PROVE  /\ \A k : Stored(k) \in Value
         /\ \A im, c : c \in Cells => Deobfuscated(im, c) \in Value
<1>1. cur \in Owners
  BY DEF LTypeOK, LoadTypeOK, Owners
<1>2. \A k : Stored(k) \in Value
  BY <1>1 DEF Stored, Value
<1>3. \A v \in Value, S \in SUBSET Marks : [v EXCEPT !.obf = S] \in Value
  BY DEF Value
<1>4. ASSUME NEW im, NEW c \in Cells PROVE Deobfuscated(im, c) \in Value
  <2> DEFINE S == {m \in Marks : (m \in ram[c].obf) # (Cardinality(XoredBy(im, c, m)) % 2 = 1)}
  <2>1. ram[c] \in Value /\ S \in SUBSET Marks
    BY DEF LTypeOK, VTypeOK
  <2> HIDE DEF S
  <2>2. [ram[c] EXCEPT !.obf = S] \in Value
    BY <1>3, <2>1
  <2> QED
    BY <2>2 DEF S, Deobfuscated
<1> QED
  BY <1>2, <1>4

-----------------------------------------------------------------------------
(* The steps.                                                              *)

\* The initial state.
LEMMA LInitInv == LInit => LInv
<1> SUFFICES ASSUME LInit PROVE LInv OBVIOUS
<1>1. VInv
  BY VInitInv DEF LInit
<1>2. LTypeOK
  <2>0. seg \in Nat
    BY DEF LInit
  <2>1. LoadTypeOK
    BY <2>0, DataType, LoadSlotAssumption DEF LInit, LoadTypeOK, LoadPoints
  <2>2. BootTypeOK
    BY DEF LInit, BootTypeOK
  <2> QED
    BY <1>1, <2>1, <2>2 DEF VInv, LTypeOK
<1>3. CallInv /\ AuthInv /\ TrustInv
  BY DEF LInit, VInit, CallInv, AuthInv, TrustInv, do_load, do_verify
<1> QED
  BY <1>1, <1>2, <1>3 DEF LInv

\* A load with verification begins.
LEMMA bootloader_load_image_Inv == ASSUME LInv, NEW s \in AppSlots, bootloader_load_image(s) PROVE LInv'
<1> USE DEF LInv, bootloader_load_image, callVars, bootVars, Call
<1>1. VInv'
  BY VStutterInv
<1>2. LTypeOK'
  <2>1. seg' \in Nat
    BY DEF LTypeOK, LoadTypeOK
  <2>2. data' \in Data
    BY DataType DEF LTypeOK, LoadTypeOK
  <2>3. LoadTypeOK'
    BY <2>1, <2>2, SlotFacts DEF LTypeOK, LoadTypeOK, LoadPoints
  <2>4. BootTypeOK'
    BY SlotFacts DEF CallInv, LTypeOK, LoadTypeOK, BootTypeOK
  <2> QED
    BY <1>1, <2>3, <2>4 DEF VInv, LTypeOK
<1>3. CallInv'
  BY SlotFacts DEF CallInv, vvars, do_load, do_verify, LTypeOK, LoadTypeOK
<1>4. AuthInv'
  BY DataType DEF AuthInv, CallInv, vvars, Authentic, LTypeOK, LoadTypeOK
<1>5. TrustInv'
  BY SlotFacts DEF TrustInv, CallInv, AuthInv, vvars, Trusted, Authentic, do_load, LTypeOK, LoadTypeOK
<1> QED
  BY <1>1, <1>2, <1>3, <1>4, <1>5

\* A load without verification begins.
LEMMA bootloader_load_image_no_verify_Inv == ASSUME LInv, NEW s \in AppSlots, bootloader_load_image_no_verify(s) PROVE LInv'
<1> USE DEF LInv, bootloader_load_image_no_verify, callVars, bootVars, Call
<1>1. VInv'
  BY VStutterInv
<1>2. LTypeOK'
  <2>1. seg' \in Nat
    BY DEF LTypeOK, LoadTypeOK
  <2>2. data' \in Data
    BY DataType DEF LTypeOK, LoadTypeOK
  <2>3. LoadTypeOK'
    BY <2>1, <2>2, SlotFacts DEF LTypeOK, LoadTypeOK, LoadPoints
  <2>4. BootTypeOK'
    BY SlotFacts DEF CallInv, LTypeOK, LoadTypeOK, BootTypeOK
  <2> QED
    BY <1>1, <2>3, <2>4 DEF VInv, LTypeOK
<1>3. CallInv'
  BY SlotFacts DEF CallInv, vvars, do_load, do_verify, LTypeOK, LoadTypeOK
<1>4. AuthInv'
  BY DataType DEF AuthInv, CallInv, vvars, Authentic, LTypeOK, LoadTypeOK
<1>5. TrustInv'
  BY SlotFacts DEF TrustInv, CallInv, AuthInv, vvars, Trusted, Authentic, do_load, LTypeOK, LoadTypeOK
<1> QED
  BY <1>1, <1>2, <1>3, <1>4, <1>5

\* A check without loading begins.
LEMMA esp_image_verify_Inv == ASSUME LInv, NEW s \in Slots, esp_image_verify(s) PROVE LInv'
<1> USE DEF LInv, esp_image_verify, callVars, bootVars, Call
<1>1. VInv'
  BY VStutterInv
<1>2. LTypeOK'
  <2>1. seg' \in Nat
    BY DEF LTypeOK, LoadTypeOK
  <2>2. data' \in Data
    BY DataType DEF LTypeOK, LoadTypeOK
  <2>3. LoadTypeOK'
    BY <2>1, <2>2, SlotFacts DEF LTypeOK, LoadTypeOK, LoadPoints
  <2>4. BootTypeOK'
    BY SlotFacts DEF CallInv, LTypeOK, LoadTypeOK, BootTypeOK
  <2> QED
    BY <1>1, <2>3, <2>4 DEF VInv, LTypeOK
<1>3. CallInv'
  BY SlotFacts DEF CallInv, vvars, do_load, do_verify, LTypeOK, LoadTypeOK
<1>4. AuthInv'
  BY DataType DEF AuthInv, CallInv, vvars, Authentic, LTypeOK, LoadTypeOK
<1>5. TrustInv'
  BY SlotFacts DEF TrustInv, CallInv, AuthInv, vvars, Trusted, Authentic, do_load, LTypeOK, LoadTypeOK
<1> QED
  BY <1>1, <1>2, <1>3, <1>4, <1>5

\* The checksum is right, wrong or unreadable.
LEMMA process_checksum_Inv == ASSUME LInv, process_checksum PROVE LInv'
<1> USE DEF LInv, process_checksum, callVars, bootVars, Next_, Err, ErrNoResource
<1>1. VInv'
  BY VStutterInv
<1>2. LTypeOK'
  <2>1. seg' \in Nat
    BY DEF LTypeOK, LoadTypeOK
  <2>2. data' \in Data
    BY DataType DEF LTypeOK, LoadTypeOK
  <2>3. LoadTypeOK'
    BY <2>1, <2>2, SlotFacts DEF LTypeOK, LoadTypeOK, LoadPoints
  <2>4. BootTypeOK'
    BY SlotFacts DEF CallInv, LTypeOK, LoadTypeOK, BootTypeOK
  <2> QED
    BY <1>1, <2>3, <2>4 DEF VInv, LTypeOK
<1>3. CallInv'
  BY SlotFacts DEF CallInv, vvars, do_load, do_verify, LTypeOK, LoadTypeOK
<1>4. AuthInv'
  BY DataType DEF AuthInv, CallInv, vvars, Authentic, LTypeOK, LoadTypeOK
<1>5. TrustInv'
  BY SlotFacts DEF TrustInv, CallInv, AuthInv, vvars, Trusted, Authentic, do_load, LTypeOK, LoadTypeOK
<1> QED
  BY <1>1, <1>2, <1>3, <1>4, <1>5

\* The image fits, or not.
LEMMA process_appended_hash_and_sig_Inv == ASSUME LInv, process_appended_hash_and_sig PROVE LInv'
<1> USE DEF LInv, process_appended_hash_and_sig, callVars, bootVars, Next_, Err, ErrNoResource
<1>f. /\ flash[cur].len \in Nat /\ flash[cur].len + 1 \in Nat
      /\ flash[cur].ver \in Nat
  BY ImageFacts DEF LTypeOK, LoadTypeOK
<1>1. VInv'
  BY VStutterInv
<1>2. LTypeOK'
  <2>1. seg' \in Nat
    BY DEF LTypeOK, LoadTypeOK
  <2>2. data' \in Data
    BY <1>f, DataType DEF LTypeOK, LoadTypeOK
  <2>3. LoadTypeOK'
    BY <2>1, <2>2, SlotFacts DEF LTypeOK, LoadTypeOK, LoadPoints
  <2>4. BootTypeOK'
    BY SlotFacts DEF CallInv, LTypeOK, LoadTypeOK, BootTypeOK
  <2> QED
    BY <1>1, <2>3, <2>4 DEF VInv, LTypeOK
<1>3. CallInv'
  <2>1. pc' \in {"err", "digest", "assert"} /\ (pc' = "digest" => do_verify)
    BY DEF do_verify
  <2> QED
    BY <2>1 DEF CallInv, vvars, do_load, do_verify, LTypeOK, LoadTypeOK
<1>4. AuthInv'
  <2>1. data'.ver = data.ver
    <3>1. CASE UNCHANGED data
      BY <3>1
    <3>2. CASE data' = [data EXCEPT !.len = flash[cur].len]
      BY <1>f, <3>2, DataType DEF LTypeOK, LoadTypeOK
    <3> QED
      BY <3>1, <3>2
  <2>2. pc' \in {"err", "digest", "assert"}
    OBVIOUS
  <2> QED
    BY <2>1, <2>2 DEF AuthInv, vvars, Authentic
<1>5. TrustInv'
  BY SlotFacts DEF TrustInv, CallInv, AuthInv, vvars, Trusted, Authentic, do_load, LTypeOK, LoadTypeOK
<1> QED
  BY <1>1, <1>2, <1>3, <1>4, <1>5

\* Both signatures are good from here on.
LEMMA ClassicSignature_Inv == ASSUME LInv, ClassicSignature PROVE LInv'
<1> USE DEF LInv, ClassicSignature, callVars, bootVars, Next_, Err, ErrNoResource, ClassicAccepted
<1>f. /\ flash[cur].len \in Nat /\ flash[cur].len + 1 \in Nat
      /\ flash[cur].ver \in Nat
  BY ImageFacts DEF LTypeOK, LoadTypeOK
<1>1. VInv'
  BY VStutterInv
<1>2. LTypeOK'
  <2>1. seg' \in Nat
    BY DEF LTypeOK, LoadTypeOK
  <2>2. data' \in Data
    BY <1>f, DataType DEF LTypeOK, LoadTypeOK
  <2>3. LoadTypeOK'
    BY <2>1, <2>2, SlotFacts DEF LTypeOK, LoadTypeOK, LoadPoints
  <2>4. BootTypeOK'
    BY SlotFacts DEF CallInv, LTypeOK, LoadTypeOK, BootTypeOK
  <2> QED
    BY <1>1, <2>3, <2>4 DEF VInv, LTypeOK
<1>3. CallInv'
  BY SlotFacts DEF CallInv, vvars, do_load, do_verify, LTypeOK, LoadTypeOK
<1>4. AuthInv'
  <2>1. data'.ver = data.ver
    <3>1. CASE UNCHANGED data
      BY <3>1
    <3>2. CASE data' = [data EXCEPT !.len = flash[cur].len + 1]
      BY <1>f, <3>2, DataType DEF LTypeOK, LoadTypeOK
    <3> QED
      BY <3>1, <3>2
  <2>2. pc' \in {"err", "assert"}
    OBVIOUS
  <2>3. verified' /\ cur # Bootloader => Authentic(flash[cur])
    BY DEF AuthInv, Authentic
  <2> QED
    BY <2>1, <2>2, <2>3 DEF AuthInv, vvars, Authentic
<1>5. TrustInv'
  BY SlotFacts DEF TrustInv, CallInv, AuthInv, vvars, Trusted, Authentic, do_load, LTypeOK, LoadTypeOK
<1> QED
  BY <1>1, <1>2, <1>3, <1>4, <1>5

\* image_load returns.
LEMMA Success_Inv == ASSUME LInv, Success PROVE LInv'
<1> USE DEF LInv, Success, callVars, bootVars, Next_, Err, ErrNoResource, RolledBack
<1>f. /\ flash[cur].len \in Nat /\ flash[cur].len + 1 \in Nat
      /\ flash[cur].ver \in Nat
  BY ImageFacts DEF LTypeOK, LoadTypeOK
<1>1. VInv'
  BY VStutterInv
<1>2. LTypeOK'
  <2>1. seg' \in Nat
    BY DEF LTypeOK, LoadTypeOK
  <2>2. data' \in Data
    BY <1>f, DataType DEF LTypeOK, LoadTypeOK
  <2>3. LoadTypeOK'
    BY <2>1, <2>2, SlotFacts DEF LTypeOK, LoadTypeOK, LoadPoints
  <2>4. BootTypeOK'
    BY SlotFacts DEF CallInv, LTypeOK, LoadTypeOK, BootTypeOK
  <2> QED
    BY <1>1, <2>3, <2>4 DEF VInv, LTypeOK
<1>3. CallInv'
  BY SlotFacts DEF CallInv, vvars, do_load, do_verify, LTypeOK, LoadTypeOK
<1>4. AuthInv'
  BY <1>f, DataType DEF AuthInv, CallInv, vvars, Authentic, LTypeOK, LoadTypeOK
<1>5. TrustInv'
  <2>1. CASE loaded' = loaded
    BY <2>1 DEF TrustInv, vvars, Trusted, Authentic
  <2>2. CASE loaded' = cur /\ do_load /\ ~RolledBack
    <3>1. ASSUME mode = "LOAD" PROVE Trusted(flash[cur])
      <4>1. Authentic(flash[cur])
        BY <2>2, <3>1, SlotFacts DEF AuthInv, CallInv
      <4>2. AntiRollback => flash[cur].ver >= EfuseVersion
        BY <1>f, <2>2, <3>1, LoadConfigAssumption DEF AuthInv, CallInv
      <4> QED
        BY <4>1, <4>2 DEF Trusted
    <3>2. ASSUME mode = "NO_VALIDATE" PROVE Trusted(flash[cur])
      BY <2>2, <3>2, SlotFacts DEF TrustInv, CallInv
    <3>3. Trusted(flash[cur])
      BY <2>2, <3>1, <3>2 DEF do_load
    <3> QED
      BY <2>2, <3>3 DEF TrustInv, vvars, Trusted, Authentic
  <2> QED
    BY <2>1, <2>2
<1> QED
  BY <1>1, <1>2, <1>3, <1>4, <1>5

\* The application starts.
LEMMA StartApp_Inv == ASSUME LInv, StartApp PROVE LInv'
<1> USE DEF LInv, StartApp, callVars, bootVars, Next_, Err, ErrNoResource
<1>1. VInv'
  BY VStutterInv
<1>2. LTypeOK'
  <2>1. seg' \in Nat
    BY DEF LTypeOK, LoadTypeOK
  <2>2. data' \in Data
    BY DataType DEF LTypeOK, LoadTypeOK
  <2>3. LoadTypeOK'
    BY <2>1, <2>2, SlotFacts DEF LTypeOK, LoadTypeOK, LoadPoints
  <2>4. BootTypeOK'
    BY SlotFacts DEF CallInv, LTypeOK, LoadTypeOK, BootTypeOK
  <2> QED
    BY <1>1, <2>3, <2>4 DEF VInv, LTypeOK
<1>3. CallInv'
  BY SlotFacts DEF CallInv, vvars, do_load, do_verify, LTypeOK, LoadTypeOK
<1>4. AuthInv'
  BY DataType DEF AuthInv, CallInv, vvars, Authentic, LTypeOK, LoadTypeOK
<1>5. TrustInv'
  BY SlotFacts DEF TrustInv, CallInv, AuthInv, vvars, Trusted, Authentic, do_load, LTypeOK, LoadTypeOK
<1> QED
  BY <1>1, <1>2, <1>3, <1>4, <1>5

\* The bootloader gives up.
LEMMA NoBootableApp_Inv == ASSUME LInv, NoBootableApp PROVE LInv'
<1> USE DEF LInv, NoBootableApp, callVars, bootVars, Next_, Err, ErrNoResource
<1>1. VInv'
  BY VStutterInv
<1>2. LTypeOK'
  <2>1. seg' \in Nat
    BY DEF LTypeOK, LoadTypeOK
  <2>2. data' \in Data
    BY DataType DEF LTypeOK, LoadTypeOK
  <2>3. LoadTypeOK'
    BY <2>1, <2>2, SlotFacts DEF LTypeOK, LoadTypeOK, LoadPoints
  <2>4. BootTypeOK'
    BY SlotFacts DEF CallInv, LTypeOK, LoadTypeOK, BootTypeOK
  <2> QED
    BY <1>1, <2>3, <2>4 DEF VInv, LTypeOK
<1>3. CallInv'
  BY SlotFacts DEF CallInv, vvars, do_load, do_verify, LTypeOK, LoadTypeOK
<1>4. AuthInv'
  BY DataType DEF AuthInv, CallInv, vvars, Authentic, LTypeOK, LoadTypeOK
<1>5. TrustInv'
  BY SlotFacts DEF TrustInv, CallInv, AuthInv, vvars, Trusted, Authentic, do_load, LTypeOK, LoadTypeOK
<1> QED
  BY <1>1, <1>2, <1>3, <1>4, <1>5

\* The metadata starts from zero.
LEMMA process_image_header_Inv == ASSUME LInv, process_image_header PROVE LInv'
<1> USE DEF LInv, process_image_header, callVars, bootVars, Next_, Err, ErrNoResource
<1>f. /\ flash[cur].len \in Nat /\ flash[cur].len + 1 \in Nat
      /\ flash[cur].ver \in Nat
  BY ImageFacts DEF LTypeOK, LoadTypeOK
<1>1. VInv'
  BY VFrame DEF VInv, VTypeOK
<1>2. LTypeOK'
  <2>1. seg' \in Nat
    BY DEF LTypeOK, LoadTypeOK
  <2>2. data' \in Data
    BY <1>f, DataType DEF LTypeOK, LoadTypeOK
  <2>3. LoadTypeOK'
    BY <2>1, <2>2, SlotFacts DEF LTypeOK, LoadTypeOK, LoadPoints
  <2>4. BootTypeOK'
    BY DEF LTypeOK, BootTypeOK
  <2> QED
    BY <1>1, <2>3, <2>4 DEF VInv, LTypeOK
<1>3. CallInv'
  BY SlotFacts DEF CallInv, pqcVars, do_load, do_verify, LTypeOK
<1>4. AuthInv'
  <2>1. data'.ver = 0
    BY DataType
  <2>2. pc' \in {"err", "segs"}
    OBVIOUS
  <2> QED
    BY <2>1, <2>2 DEF AuthInv, Authentic
<1>5. TrustInv'
  BY SlotFacts DEF TrustInv, Trusted, Authentic, LTypeOK
<1> QED
  BY <1>1, <1>2, <1>3, <1>4, <1>5

\* image_load fails.
LEMMA Failure_Inv == ASSUME LInv, Failure PROVE LInv'
<1> USE DEF LInv, Failure, callVars, bootVars, Next_, finish_sha, bzero_metadata
<1>1. VInv'
  BY VFrame DEF VInv, VTypeOK
<1>2. LTypeOK'
  <2>1. seg' \in Nat
    BY DEF LTypeOK, LoadTypeOK
  <2>2. data' \in Data
    BY DataType DEF LTypeOK, LoadTypeOK
  <2>3. LoadTypeOK'
    BY <2>1, <2>2, SlotFacts DEF LTypeOK, LoadTypeOK, LoadPoints
  <2>4. BootTypeOK'
    BY DEF LTypeOK, BootTypeOK
  <2> QED
    BY <1>1, <2>3, <2>4 DEF VInv, LTypeOK
<1>3. CallInv'
  BY SlotFacts DEF CallInv, pqcVars, do_load, do_verify, LTypeOK
<1>4. AuthInv'
  BY DataType DEF AuthInv, CallInv, Authentic, LTypeOK, LoadTypeOK
<1>5. TrustInv'
  BY SlotFacts DEF TrustInv, Trusted, Authentic, LTypeOK
<1> QED
  BY <1>1, <1>2, <1>3, <1>4, <1>5

\* A segment is loaded outside the borrowed memory.
LEMMA process_segment_Inv == ASSUME LInv, ImagesClear, process_segment PROVE LInv'
<1> USE DEF LInv, process_segment, process_segment_data, StoreSegment, callVars,
           bootVars, Next_, Err, ErrNoResource, ram_obfs_value
<1>a. ram' \in [Cells -> Value] /\ \A c \in Borrowed : ram'[c] = ram[c]
  <2>1. CASE UNCHANGED ram
    BY <2>1 DEF LTypeOK, VTypeOK
  <2>2. CASE /\ ram' = Written(flash[cur].segs[seg].cells, Stored(seg))
             /\ seg \in DOMAIN flash[cur].segs
    <3>1. ram' \in [Cells -> Value]
      BY <2>2, WrittenType, WordType DEF LTypeOK, VTypeOK
    <3>2. flash[cur].segs[seg].cells \cap Borrowed = {}
      BY <2>2, LoadPlace DEF LTypeOK, LoadTypeOK
    <3> QED
      BY <2>2, <3>1, <3>2, HeadPlace DEF Written
  <2> QED
    BY <2>1, <2>2
<1>f. /\ flash[cur].len \in Nat /\ flash[cur].len + 1 \in Nat
      /\ flash[cur].ver \in Nat
  BY ImageFacts DEF LTypeOK, LoadTypeOK
<1>1. VInv'
  BY <1>a, VFrame DEF VInv, VTypeOK
<1>2. LTypeOK'
  <2>1. seg' \in Nat
    BY DEF LTypeOK, LoadTypeOK
  <2>2. data' \in Data
    <3>1. CASE UNCHANGED data
      BY <3>1 DEF LTypeOK, LoadTypeOK
    <3>2. CASE data' = [data EXCEPT !.ver = flash[cur].ver]
      BY <1>f, <3>2, DataType DEF LTypeOK, LoadTypeOK
    <3> QED
      BY <3>1, <3>2
  <2>3. LoadTypeOK'
    BY <2>1, <2>2, SlotFacts DEF LTypeOK, LoadTypeOK, LoadPoints
  <2>4. BootTypeOK'
    BY DEF LTypeOK, BootTypeOK
  <2> QED
    BY <1>1, <2>3, <2>4 DEF VInv, LTypeOK
<1>3. CallInv'
  BY SlotFacts DEF CallInv, pqcVars, do_load, do_verify, LTypeOK
<1>4. AuthInv'
  <2>1. data'.ver \in {data.ver, flash[cur].ver}
    <3>1. CASE UNCHANGED data
      BY <3>1
    <3>2. CASE data' = [data EXCEPT !.ver = flash[cur].ver]
      BY <1>f, <3>2, DataType DEF LTypeOK, LoadTypeOK
    <3> QED
      BY <3>1, <3>2
  <2>2. pc' \in {"err", "segs", "abort"}
    OBVIOUS
  <2> QED
    BY <2>1, <2>2 DEF AuthInv, Authentic
<1>5. TrustInv'
  BY SlotFacts DEF TrustInv, Trusted, Authentic, LTypeOK
<1> QED
  BY <1>1, <1>2, <1>3, <1>4, <1>5

\* What was loaded is put in the clear.
LEMMA Deobfuscate_Inv == ASSUME LInv, ImagesClear, Deobfuscate PROVE LInv'
<1> USE DEF LInv, Deobfuscate, callVars, bootVars, Next_, Err, ErrNoResource, skip_verify
<1>a. ram' \in [Cells -> Value] /\ \A c \in Borrowed : ram'[c] = ram[c]
  <2>1. CASE UNCHANGED ram
    BY <2>1 DEF LTypeOK, VTypeOK
  <2>2. CASE ram' = [c \in Cells |-> IF c \in LoadCells(flash[cur])
                                     THEN Deobfuscated(flash[cur], c) ELSE ram[c]]
    <3>1. ram' \in [Cells -> Value]
      BY <2>2, WordType DEF LTypeOK, VTypeOK
    <3>2. LoadCells(flash[cur]) \cap Borrowed = {}
      BY LoadPlace DEF LTypeOK, LoadTypeOK
    <3> QED
      BY <2>2, <3>1, <3>2, HeadPlace
  <2> QED
    BY <2>1, <2>2
<1>1. VInv'
  BY <1>a, VFrame DEF VInv, VTypeOK
<1>2. LTypeOK'
  <2>1. seg' \in Nat
    BY DEF LTypeOK, LoadTypeOK
  <2>2. data' \in Data
    BY DataType DEF LTypeOK, LoadTypeOK
  <2>3. LoadTypeOK'
    BY <2>1, <2>2, SlotFacts DEF LTypeOK, LoadTypeOK, LoadPoints
  <2>4. BootTypeOK'
    BY DEF LTypeOK, BootTypeOK
  <2> QED
    BY <1>1, <2>3, <2>4 DEF VInv, LTypeOK
<1>3. CallInv'
  BY SlotFacts DEF CallInv, pqcVars, do_load, do_verify, LTypeOK
<1>4. AuthInv'
  BY DataType DEF AuthInv, CallInv, Authentic, LTypeOK, LoadTypeOK
<1>5. TrustInv'
  BY SlotFacts DEF TrustInv, Trusted, Authentic, LTypeOK
<1> QED
  BY <1>1, <1>2, <1>3, <1>4, <1>5

\* The image's SHA context is finished before the verifier is called.
LEMMA verify_secure_boot_signature_Inv ==
  ASSUME LInv, verify_secure_boot_signature PROVE LInv'
<1> USE DEF LInv, verify_secure_boot_signature, callVars, bootVars, Next_,
        finish_sha
<1>1. LTypeOK'
  <2>1. vaddr' \in Nat /\ vslot' \in Slots \cup {NoSlot} /\ vfault' \in BOOLEAN
    BY ImageFacts DEF LTypeOK, LoadTypeOK, VTypeOK, pqcVars
  <2>2. vpc' \in VerifyPoints
    BY DEF LTypeOK, VTypeOK, VerifyPoints, pqcVars
  <2>3. VTypeOK'
    BY <2>1, <2>2 DEF LTypeOK, VTypeOK, pqcVars
  <2>4. LoadTypeOK' /\ BootTypeOK'
    BY DEF LTypeOK, LoadTypeOK, BootTypeOK, LoadPoints
  <2> QED
    BY <2>3, <2>4 DEF LTypeOK
<1>2. VInv'
  <2> USE <1>1 DEF VInv, pqcVars
  <2>1. ArgsInv' /\ OpenInv'
    BY DEF ArgsInv, OpenInv, BlockOffset, LTypeOK, LoadTypeOK
  <2>2. HeapInv'
    BY DEF HeapInv, HeapIntact
  <2> QED
    BY <2>1, <2>2 DEF LTypeOK, VerdictInv, AcceptsOnlySigned,
       RefusesOnlyForCause, WellSigned
<1>3. CallInv'
  BY DEF CallInv, pqcVars, do_load, do_verify
<1>4. AuthInv' /\ TrustInv'
  BY DEF AuthInv, TrustInv, Trusted, Authentic
<1> QED
  BY <1>1, <1>2, <1>3, <1>4

\* A step of the verifier changes neither flash nor anything of image_load's.
LEMMA VerifyStepFrame ==
  ASSUME VInv, VerifyStep
  PROVE  /\ UNCHANGED <<flash, vslot>>
         /\ "load" \in sha' => "load" \in sha
         /\ vpc' # "idle"
BY DEF VerifyStep, tlsf_ensure_init, NewSigObject, HashStart, HashOneChunk,
       HashFinish, MapBlock, CheckBlock, pqc_verify_on_stack, CleanUp, Goto,
       Fail, Refuse, MmapFail, flashVars, argVars

\* pqc_bootloader_verify runs.
LEMMA PqcStep_Inv == ASSUME LInv, PqcStep PROVE LInv'
<1> USE DEF LInv, PqcStep, callVars, bootVars
<1>1. VInv'
  BY VerifyStepInv
<1>2. /\ UNCHANGED <<flash, vslot>>
      /\ "load" \in sha' => "load" \in sha
      /\ vpc' # "idle"
  BY VerifyStepFrame
<1>3. LTypeOK'
  <2>1. fault' \in BOOLEAN
    BY <1>1 DEF VInv, VTypeOK, LTypeOK, LoadTypeOK
  <2>2. LoadTypeOK' /\ BootTypeOK'
    BY <2>1 DEF LTypeOK, LoadTypeOK, BootTypeOK
  <2> QED
    BY <1>1, <2>2 DEF VInv, LTypeOK
<1>4. CallInv'
  BY <1>2 DEF CallInv, do_load, do_verify
<1>5. AuthInv' /\ TrustInv'
  BY <1>2 DEF AuthInv, TrustInv, Trusted, Authentic
<1> QED
  BY <1>1, <1>3, <1>4, <1>5

\* Only an accepted image goes on to the classical check.
LEMMA PqcResult_Inv == ASSUME LInv, PqcResult PROVE LInv'
<1> USE DEF LInv, PqcResult, Next_, PqcAccepted, callVars, bootVars
<1>1. VInv'
  BY VerifyReturn_Inv
<1>2. /\ UNCHANGED <<flash, vslot, sha, vret>>
      /\ vpc = "ret" /\ vpc' = "idle"
  BY DEF VerifyReturn, Goto, flashVars, argVars
<1>3. pc' \in {"classic", "err"} /\ (pc' = "classic" => vret = "OK")
  OBVIOUS
<1>4. LTypeOK'
  <2>1. LoadTypeOK' /\ BootTypeOK'
    BY <1>3 DEF LTypeOK, LoadTypeOK, BootTypeOK, LoadPoints
  <2> QED
    BY <1>1, <2>1 DEF VInv, LTypeOK
<1>5. CallInv'
  BY <1>2, <1>3 DEF VInv, OpenInv, CallInv, do_load, do_verify
<1>6. AuthInv'
  BY <1>2, <1>3 DEF VInv, AcceptsOnlySigned, CallInv, AuthInv, Authentic
<1>7. TrustInv'
  BY <1>2 DEF TrustInv, Trusted, Authentic
<1> QED
  BY <1>1, <1>4, <1>5, <1>6, <1>7

\* A restart with memory of the right type in RTC memory.
LEMMA RestartInv ==
  ASSUME LInv, NEW reason \in {"power", "deepsleep"}, NEW rtc,
         \A c \in RtcCells : rtc[c] \in Value /\ c \notin Borrowed,
         Restart(reason, rtc), sleeper' \in {NoSlot, running}
  PROVE  LInv'
<1> USE DEF LInv, Restart
<1>1. VInv'
  <2>1. ram' \in [Cells -> Value]
    BY RawType DEF Owners
  <2>2. VTypeOK'
    BY <2>1 DEF LTypeOK, VTypeOK, Digests, VerifyPoints
  <2>3. HeapInv'
    BY HeadPlace DEF HeapInv, Raw
  <2> QED
    BY <2>2, <2>3 DEF VInv, ArgsInv, OpenInv, VerdictInv, AcceptsOnlySigned,
       RefusesOnlyForCause
<1>2. LTypeOK'
  <2>1. LoadTypeOK'
    BY DataType, LoadSlotAssumption DEF LoadTypeOK, LoadPoints
  <2>2. BootTypeOK'
    BY DEF LTypeOK, BootTypeOK
  <2> QED
    BY <1>1, <2>1, <2>2 DEF VInv, LTypeOK
<1>3. CallInv' /\ AuthInv'
  BY DEF CallInv, AuthInv, do_load, do_verify
<1>4. TrustInv'
  BY DEF TrustInv, Trusted, Authentic
<1> QED
  BY <1>1, <1>2, <1>3, <1>4

\* RTC memory is not borrowed.
LEMMA RtcPlace == \A c \in RtcCells : c \in Cells /\ c \notin Borrowed
BY LoadConfigAssumption DEF Borrowed, PoolCells, StackCells

\* A reset at any moment.
LEMMA Reset_Inv == ASSUME LInv, Reset PROVE LInv'
BY RestartInv, RtcPlace DEF Reset, LInv, LTypeOK, VTypeOK

\* The application goes to sleep.
LEMMA DeepSleep_Inv == ASSUME LInv, DeepSleep PROVE LInv'
BY RestartInv, RtcPlace, RawType DEF DeepSleep, Owners

\* Nothing happens.
LEMMA LStutterInv == ASSUME LInv, UNCHANGED lvars PROVE LInv'
<1> USE DEF LInv, lvars
<1>1. VInv'
  BY VStutterInv
<1>2. LTypeOK'
  BY <1>1 DEF VInv, LTypeOK, LoadTypeOK, BootTypeOK
<1>3. CallInv' /\ AuthInv' /\ TrustInv'
  BY DEF vvars, CallInv, AuthInv, TrustInv, Trusted, Authentic, do_load, do_verify
<1> QED
  BY <1>1, <1>2, <1>3

\* Every step, when no image is loaded into the memory the verifier borrows.
LEMMA LNextInv == ASSUME LInv, ImagesClear, [LNext]_lvars PROVE LInv'
BY bootloader_load_image_Inv, bootloader_load_image_no_verify_Inv,
   esp_image_verify_Inv, process_image_header_Inv, process_segment_Inv,
   process_checksum_Inv, process_appended_hash_and_sig_Inv,
   verify_secure_boot_signature_Inv, PqcStep_Inv, PqcResult_Inv,
   ClassicSignature_Inv, Deobfuscate_Inv, Success_Inv, Failure_Inv,
   StartApp_Inv, NoBootableApp_Inv, Reset_Inv, DeepSleep_Inv, LStutterInv
   DEF LNext, image_load

-----------------------------------------------------------------------------
(* The theorems.                                                           *)

\* The inductive invariant holds in every reachable state, for any number of
\* partitions, images, resets and checks, whenever images stay clear of the
\* memory the verifier borrows.
THEOREM LInvariant == ImagesClear => (LSpec => []LInv)
<1> SUFFICES ASSUME ImagesClear PROVE LSpec => []LInv
  OBVIOUS
<1>1. LInit => LInv
  BY LInitInv
<1>2. LInv /\ [LNext]_lvars => LInv'
  BY LNextInv
<1> QED
  BY <1>1, <1>2, PTL DEF LSpec

\* Every variable keeps its type.
THEOREM LTypeCorrect == ImagesClear => (LSpec => []LTypeOK)
<1>1. LInv => LTypeOK
  BY DEF LInv
<1> QED
  BY <1>1, LInvariant, PTL

\* An application that runs is one both signatures vouch for and not rolled back.
THEOREM LRunsOnlyTrusted == ImagesClear => (LSpec => []RunsOnlyTrusted)
<1>1. LInv => RunsOnlyTrusted
  BY DEF LInv, TrustInv, RunsOnlyTrusted
<1> QED
  BY <1>1, LInvariant, PTL

\* The chip's SHA engine never has to serve two contexts.
THEOREM LOneShaContext == ImagesClear => (LSpec => []OneShaContext)
<1>1. LInv => OneShaContext
  BY DEF LInv, VInv, OpenInv, CallInv, OneShaContext
<1> QED
  BY <1>1, LInvariant, PTL

-----------------------------------------------------------------------------
(* Segments and the bootloader's own memory.                               *)

\* A step starts a call or a boot afresh, goes on to the next segment, or leaves
\* alone which segments of which image have been loaded how.
LEMMA SegmentSteps ==
  ASSUME LInv, LNext
  PROVE  \/ seg' = 1
         \/ process_segment
         \/ UNCHANGED <<flash, mode, cur, seg, wake>>
<1> USE DEF bootVars, callVars
<1>1. CASE \E s \in AppSlots : bootloader_load_image(s) \/ bootloader_load_image_no_verify(s)
  BY <1>1 DEF bootloader_load_image, bootloader_load_image_no_verify, Call
<1>2. CASE \E s \in Slots : esp_image_verify(s)
  BY <1>2 DEF esp_image_verify, Call
<1>3. CASE PqcStep
  BY <1>3, VerifyStepFrame DEF LInv, PqcStep
<1>4. CASE PqcResult
  BY <1>4 DEF PqcResult, VerifyReturn, flashVars
<1>5. CASE process_image_header \/ process_checksum \/ process_appended_hash_and_sig
           \/ verify_secure_boot_signature
  BY <1>5 DEF process_image_header, process_checksum, process_appended_hash_and_sig,
     verify_secure_boot_signature, vvars
<1>6. CASE ClassicSignature \/ Deobfuscate \/ Success \/ Failure
  BY <1>6 DEF ClassicSignature, Deobfuscate, Success, Failure, vvars
<1>7. CASE StartApp \/ NoBootableApp
  BY <1>7 DEF StartApp, NoBootableApp, vvars
<1>8. CASE Reset \/ DeepSleep
  BY <1>8 DEF Reset, DeepSleep, Restart
<1> QED
  BY <1>1, <1>2, <1>3, <1>4, <1>5, <1>6, <1>7, <1>8 DEF LNext, image_load

\* process_segment goes past a segment only after verify_load_addresses has allowed it.
LEMMA SegmentChecked ==
  ASSUME LInv, process_segment
  PROVE  /\ UNCHANGED <<flash, mode, cur, wake>>
         /\ \/ seg' = seg
            \/ /\ seg' = seg + 1
               /\ LET g == flash[cur].segs[seg]
                  IN  do_load /\ should_load(g) =>
                        g.lo \in Int /\ g.hi \in Int /\ AddressesAllowed(g.lo, g.hi)
<1>1. UNCHANGED <<flash, mode, cur, wake>>
  BY DEF process_segment, callVars, bootVars
<1>2. flash[cur].segs[seg] \in Segment
  <2>1. flash[cur] \in Images
    BY SlotFacts DEF LInv, LTypeOK, LoadTypeOK
  <2>2. flash[cur].segs \in Seq(Segment) /\ seg \in DOMAIN flash[cur].segs
    BY <2>1, LoadImageAssumption DEF process_segment
  <2> QED
    BY <2>2
<1>3. \/ seg' = seg
      \/ /\ seg' = seg + 1
         /\ SegmentAllowed(flash[cur].segs[seg])
  BY DEF process_segment, process_segment_data
<1> QED
  BY <1>1, <1>2, <1>3 DEF SegmentAllowed, verify_load_addresses, Segment

\* On a chip whose two buses have addresses of their own, no segment is loaded over
\* the bootloader, whatever the layout, the images and the order of the calls.
THEOREM LBootloaderKept ==
  ImagesClear /\ SeparateBuses => (LSpec => []BootloaderKept)
<1> SUFFICES ASSUME ImagesClear, SeparateBuses PROVE LSpec => []BootloaderKept
  OBVIOUS
<1>1. LInit => BootloaderKept
  BY DEF LInit, BootloaderKept, do_load
<1>2. LInv /\ BootloaderKept /\ [LNext]_lvars => BootloaderKept'
  <2> SUFFICES ASSUME LInv, BootloaderKept, [LNext]_lvars PROVE BootloaderKept'
    OBVIOUS
  <2>1. seg \in Nat
    BY DEF LInv, LTypeOK, LoadTypeOK
  <2>2. CASE seg' = 1
    BY <2>2 DEF BootloaderKept
  <2>3. CASE process_segment
    <3>1. PICK g : g = flash[cur].segs[seg]
      OBVIOUS
    <3>2. do_load /\ should_load(g) /\ seg' # seg => ClearOfBootloader(g.lo, g.hi)
      BY <2>3, <3>1, SegmentChecked, AllowedIsClear
    <3> QED
      BY <2>1, <2>3, <3>1, <3>2, SegmentChecked DEF BootloaderKept, do_load, should_load
  <2>4. CASE UNCHANGED <<flash, mode, cur, seg, wake>>
    BY <2>4 DEF BootloaderKept, do_load, should_load
  <2> QED
    BY <2>2, <2>3, <2>4, SegmentSteps DEF lvars, vvars
<1>3. LSpec => []LInv
  BY LInvariant
<1> QED
  BY <1>1, <1>2, <1>3, PTL DEF LSpec

-----------------------------------------------------------------------------
(* No attempt spoils the next one.                                         *)

\* A step of image_load, seen from the list of partitions.
LEMMA LoadFrame ==
  ASSUME LInv, image_load
  PROVE  /\ UNCHANGED <<flash, mode, cur, todo>>
         /\ fault => fault'
         /\ loaded' = loaded \/ loaded' # NoSlot
         /\ pc \notin Idle /\ pc' # "halt"
         /\ pc' = "pqc" /\ vfault' => fault' \/ (pc = "pqc" /\ vfault)
<1> USE DEF bootVars, callVars, Next_, Err, ErrNoResource, Idle
<1>1. CASE process_image_header \/ process_segment
  BY <1>1 DEF process_image_header, process_segment, process_segment_data
<1>2. CASE process_checksum \/ process_appended_hash_and_sig \/ verify_secure_boot_signature
  BY <1>2 DEF process_checksum, process_appended_hash_and_sig,
     verify_secure_boot_signature, vvars
<1>3. CASE PqcStep
  BY <1>3, VerifyStepFrame DEF PqcStep, LInv, LTypeOK, LoadTypeOK
<1>4. CASE PqcResult
  BY <1>4 DEF PqcResult, VerifyReturn, flashVars
<1>5. CASE ClassicSignature \/ Deobfuscate \/ Failure
  BY <1>5 DEF ClassicSignature, Deobfuscate, Failure, vvars
<1>6. CASE Success
  <2>1. loaded' = loaded \/ (do_load /\ loaded' = cur)
    BY <1>6 DEF Success
  <2>2. do_load => cur # NoSlot
    BY SlotFacts DEF LInv, CallInv
  <2> QED BY <1>6, <2>1, <2>2 DEF Success, vvars
<1> QED
  BY <1>1, <1>2, <1>3, <1>4, <1>5, <1>6 DEF image_load

\* A number outside 1..Len of a sequence that is not empty is beyond its first element.
LEMMA PastFirst ==
  ASSUME NEW S, NEW s \in Seq(S), s # <<>>, NEW i \in Nat, i > 0, i \notin DOMAIN s
  PROVE  i > 1
<1>1. Len(s) \in Nat /\ DOMAIN s = 1..Len(s) /\ Len(s) # 0
  OBVIOUS
<1> QED
  BY <1>1

\* The security version that the load confirms is the image's.
LEMMA VersionRead ==
  ASSUME LInv, VersionInv, pc = "rollback", mode = "LOAD", AntiRollback, Bootable(flash[cur])
  PROVE  data.ver = flash[cur].ver
<1>1. seg \in Nat /\ seg > 0 /\ seg \notin DOMAIN flash[cur].segs /\ flash[cur].segs # <<>>
  BY DEF LInv, LTypeOK, LoadTypeOK, VersionInv, Bootable
<1>2. flash[cur].segs \in Seq(Segment)
  BY SlotFacts, LoadImageAssumption DEF LInv, LTypeOK, LoadTypeOK
<1>3. seg > 1
  BY <1>1, <1>2, PastFirst
<1> QED
  BY <1>3 DEF VersionInv

\* The verifier refuses a bootable image only when a resource fails.
LEMMA PqcRefusal ==
  ASSUME LInv, TriedInv, Override, PqcResult, Bootable(flash[cur]), ~fault
  PROVE  vret = "OK"
<1>1. vpc = "ret" /\ vslot = cur /\ pc = "pqc"
  BY DEF PqcResult, VerifyReturn, LInv, CallInv
<1>2. vret \in {"OK", "INVALID"}
  BY DEF LInv, VInv, VTypeOK
<1>3. ~vfault /\ WellSigned(flash[vslot])
  BY <1>1 DEF TriedInv, Bootable
<1> QED
  BY <1>1, <1>2, <1>3 DEF LInv, VInv, RefusesOnlyForCause

\* image_load of a bootable image goes on, or succeeds, or a resource fails.
LEMMA GoesOn ==
  ASSUME LInv, HaltInv, Override, image_load, mode = "LOAD", Bootable(flash[cur]),
         pc \notin {"err", "abort"}, ~fault'
  PROVE  pc' \notin Idle \cup {"err", "abort"} \/ loaded' # NoSlot
<1> USE DEF Next_, Err, ErrNoResource, Idle
<1>1. do_verify /\ do_load /\ cur \in AppSlots /\ flash[cur] \in Images
  BY SlotFacts DEF do_verify, do_load, LInv, LTypeOK, CallInv
<1>2. CASE process_image_header
  BY <1>1, <1>2 DEF process_image_header, Bootable
<1>3. CASE process_segment
  <2> DEFINE g == flash[cur].segs[seg]
  <2>1. verify_segment_header(g) /\ (g.kind # "map" => verify_load_addresses(g))
    BY <1>3 DEF process_segment, Bootable
  <2>2. SegmentAllowed(g)
    BY <2>1 DEF SegmentAllowed, should_load
  <2>3. map = "none"
    BY <1>3 DEF process_segment, LInv, CallInv, VInv, OpenInv, VTypeOK
  <2>4. process_segment_data(g)
    <3> HIDE DEF SegmentAllowed
    <3> QED BY <1>3, <2>2, <2>3 DEF process_segment
  <2>5. ~EfuseRefused /\ ~AppDescMissing
    BY DEF EfuseRefused, AppDescMissing, ReadsVersion, Bootable
  <2> QED BY <2>4, <2>5 DEF process_segment_data
<1>4. CASE process_checksum
  BY <1>1, <1>4 DEF process_checksum, Bootable
<1>5. CASE process_appended_hash_and_sig
  <2>1. ~(flash[cur].len + 1 > PartLen)
    BY <1>1, ImageAssumption, LoadConfigAssumption DEF Bootable
  <2> QED BY <1>1, <1>5, <2>1 DEF process_appended_hash_and_sig
<1>6. CASE verify_secure_boot_signature
  BY <1>6 DEF verify_secure_boot_signature
<1>7. CASE PqcStep
  BY <1>7 DEF PqcStep
<1>8. CASE PqcResult
  <2>1. ~fault
    BY <1>8, LoadFrame
  <2> QED BY <1>8, <2>1, PqcRefusal DEF PqcResult, PqcAccepted, HaltInv
<1>9. CASE ClassicSignature
  BY <1>9 DEF ClassicSignature, ClassicAccepted, Bootable, Trusted, Authentic
<1>10. CASE Deobfuscate
  BY <1>10 DEF Deobfuscate
<1>11. CASE Success
  <2>1. ~RolledBack
    <3>1. ASSUME AntiRollback PROVE ~(data.ver < EfuseVersion)
      <4>1. data.ver = flash[cur].ver
        BY <1>11, <3>1, VersionRead DEF Success, HaltInv
      <4>2. flash[cur].ver >= EfuseVersion /\ flash[cur].ver \in Nat /\ EfuseVersion \in Nat
        BY <1>1, <3>1, LoadImageAssumption, LoadConfigAssumption DEF Bootable, Trusted
      <4> QED BY <4>1, <4>2
    <3> QED BY <3>1 DEF RolledBack
  <2> QED BY <1>1, <1>11, <2>1, SlotFacts DEF Success, LInv
<1>12. CASE Failure
  BY <1>12 DEF Failure
<1> QED
  BY <1>2, <1>3, <1>4, <1>5, <1>6, <1>7, <1>8, <1>9, <1>10, <1>11, <1>12 DEF image_load

LEMMA VersionStepInv == ASSUME LInv, VersionInv, LNext PROVE VersionInv'
<1> USE DEF bootVars, callVars, Next_, Err, ErrNoResource, Checked
<1>1. seg \in Nat /\ data \in Data /\ cur \in Slots
  BY DEF LInv, LTypeOK, LoadTypeOK
<1>2. CASE \E s \in AppSlots : bootloader_load_image(s) \/ bootloader_load_image_no_verify(s)
  BY <1>2 DEF bootloader_load_image, bootloader_load_image_no_verify, Call, VersionInv
<1>3. CASE \E s \in Slots : esp_image_verify(s)
  BY <1>3 DEF esp_image_verify, Call, VersionInv
<1>4. CASE Reset \/ DeepSleep
  BY <1>4 DEF Reset, DeepSleep, Restart, VersionInv
<1>5. CASE process_image_header
  BY <1>5 DEF process_image_header, VersionInv
<1>6. CASE process_segment
  <2>1. flash[cur].ver \in Nat /\ (mode = "LOAD" => do_verify /\ cur # Bootloader)
    BY <1>1, ImageFacts, SlotFacts DEF LInv, CallInv, do_verify, do_load
  <2>2. CASE pc' \in {"err", "abort"} /\ seg' = seg
    BY <2>2 DEF VersionInv
  <2>3. CASE pc' = "segs" /\ seg' = seg + 1 /\ UNCHANGED <<flash, mode, cur>>
    <3>1. data' = IF ReadsVersion(seg)
                  THEN [data EXCEPT !.ver = flash[cur].ver] ELSE data
      BY <1>6, <2>3 DEF process_segment, process_segment_data
    <3>2. ASSUME mode = "LOAD", AntiRollback PROVE data'.ver = flash[cur].ver
      <4>1. CASE seg = 1
        BY <1>1, <2>1, <3>1, <3>2, <4>1, DataType DEF HoldsAppDesc, ReadsVersion
      <4>2. CASE seg > 1
        BY <1>6, <3>1, <3>2, <4>2 DEF HoldsAppDesc, ReadsVersion, VersionInv, process_segment
      <4> QED BY <1>1, <4>1, <4>2 DEF VersionInv
    <3> QED BY <1>1, <2>3, <3>2 DEF VersionInv
  <2> QED BY <1>6, <2>2, <2>3 DEF process_segment, process_segment_data
<1>7. CASE process_checksum
  BY <1>7 DEF process_checksum, VersionInv, vvars
<1>8. CASE process_appended_hash_and_sig \/ ClassicSignature
  <2>1. /\ UNCHANGED <<flash, mode, cur, seg>>
        /\ pc \in Checked /\ pc' \in Checked \cup {"err"}
        /\ \/ UNCHANGED data
           \/ data' = [data EXCEPT !.len = flash[cur].len]
           \/ data' = [data EXCEPT !.len = flash[cur].len + 1]
    BY <1>8 DEF process_appended_hash_and_sig, ClassicSignature, vvars
  <2>2. flash[cur].len \in Nat /\ flash[cur].len + 1 \in Nat
    BY <1>1, ImageFacts DEF LInv
  <2>3. \A n \in Nat : [data EXCEPT !.len = n].ver = data.ver
    BY <1>1, DataType
  <2>4. data'.ver = data.ver
    <3>1. data' = data \/ \E n \in Nat : data' = [data EXCEPT !.len = n]
      BY <2>1, <2>2
    <3>2. CASE data' = data
      BY <3>2
    <3>3. CASE \E n \in Nat : data' = [data EXCEPT !.len = n]
      BY <2>3, <3>3
    <3> QED BY <3>1, <3>2, <3>3
  <2> QED BY <2>1, <2>4 DEF VersionInv
<1>9. CASE verify_secure_boot_signature \/ PqcStep \/ PqcResult \/ Deobfuscate
  <2>1. /\ UNCHANGED <<flash, mode, cur, seg, data>>
        /\ pc \in Checked /\ pc' \in Checked \cup {"rollback", "err"}
    BY <1>9, VerifyStepFrame DEF verify_secure_boot_signature, PqcStep, PqcResult,
       Deobfuscate, VerifyReturn, flashVars, LInv
  <2> QED BY <2>1 DEF VersionInv
<1>10. CASE Success \/ Failure \/ StartApp \/ NoBootableApp
  BY <1>10 DEF Success, Failure, StartApp, NoBootableApp, VersionInv
<1> QED
  BY <1>2, <1>3, <1>4, <1>5, <1>6, <1>7, <1>8, <1>9, <1>10 DEF LNext, image_load

LEMMA TriedStepInv == ASSUME LInv, HaltInv, Override, LNext PROVE TriedInv'
<1> DEFINE Vain(s) == loaded = NoSlot /\ ~fault => ~Bootable(flash[s])
<1>1. pc \in Idle => \A s \in AppSlots \ todo : Vain(s)
  BY DEF HaltInv, TriedInv, Trying
<1> USE DEF Idle
<1>2. CASE \E s \in AppSlots : bootloader_load_image(s)
  <2>1. PICK s \in AppSlots : bootloader_load_image(s)
    BY <1>2
  <2>2. /\ pc = "boot" /\ pc' = "header" /\ UNCHANGED <<flash, loaded, fault>>
        /\ mode' = "LOAD" /\ cur' = s /\ todo' = todo \ {s}
    BY <2>1 DEF bootloader_load_image, Call, vvars
  <2> QED BY <1>1, <2>2 DEF TriedInv, Trying
<1>3. CASE \/ \E s \in AppSlots : bootloader_load_image_no_verify(s)
           \/ \E s \in Slots : esp_image_verify(s)
  <2>1. pc = "boot" /\ pc' = "header" /\ UNCHANGED <<flash, loaded, fault, todo>>
    BY <1>3 DEF bootloader_load_image_no_verify, esp_image_verify, Call, vvars
  <2> QED BY <1>1, <2>1 DEF TriedInv
<1>4. CASE image_load
  <2>1. /\ UNCHANGED <<flash, mode, cur, todo>>
        /\ fault => fault'
        /\ loaded' = loaded \/ loaded' # NoSlot
        /\ pc' # "halt"
        /\ pc' = "pqc" /\ vfault' => fault' \/ (pc = "pqc" /\ vfault)
    BY <1>4, LoadFrame
  <2>2. ASSUME NEW s \in AppSlots \ todo, loaded' = NoSlot, ~fault', Bootable(flash[s])
        PROVE  Trying(s)'
    <3>1. Trying(s)
      BY <2>1, <2>2 DEF HaltInv, TriedInv
    <3>2. pc' \notin Idle \cup {"err", "abort"}
      BY <1>4, <2>2, <3>1, GoesOn DEF Trying
    <3> QED BY <2>1, <3>1, <3>2 DEF Trying
  <2>3. pc' = "pqc" /\ vfault' => fault'
    BY <2>1 DEF HaltInv, TriedInv
  <2> QED BY <2>1, <2>2, <2>3 DEF TriedInv
<1>5. CASE StartApp \/ NoBootableApp
  <2>1. /\ pc = "boot" /\ pc' \in {"up", "halt"} /\ UNCHANGED <<flash, loaded, fault, todo>>
        /\ pc' = "halt" => todo = {} /\ loaded = NoSlot
    BY <1>5 DEF StartApp, NoBootableApp, Next_, bootVars, vvars
  <2> QED BY <1>1, <2>1 DEF TriedInv
<1>6. CASE Reset \/ DeepSleep
  BY <1>6 DEF Reset, DeepSleep, Restart, TriedInv
<1> QED
  BY <1>2, <1>3, <1>4, <1>5, <1>6 DEF LNext

\* Whatever was tried before, by whichever calls: a partition that was refused holds no
\* bootable image, or a resource failed in this boot.
THEOREM LHaltInvariant == ImagesClear /\ Override => (LSpec => []HaltInv)
<1> SUFFICES ASSUME ImagesClear, Override PROVE LSpec => []HaltInv
  OBVIOUS
<1>1. LInit => HaltInv
  BY DEF LInit, HaltInv, VersionInv, TriedInv, Checked
<1>2. LInv /\ HaltInv /\ [LNext]_lvars => HaltInv'
  <2> SUFFICES ASSUME LInv, HaltInv, [LNext]_lvars PROVE HaltInv'
    OBVIOUS
  <2>1. CASE LNext
    BY <2>1, VersionStepInv, TriedStepInv DEF HaltInv
  <2>2. CASE UNCHANGED lvars
    BY <2>2 DEF HaltInv, VersionInv, TriedInv, Trying, lvars, vvars
  <2> QED BY <2>1, <2>2
<1>3. LSpec => []LInv
  BY LInvariant
<1> QED
  BY <1>1, <1>2, <1>3, PTL DEF LSpec

\* The bootloader gives up only when no partition holds a bootable image or a resource
\* failed, with the verifier's heap made anew on every call.
THEOREM LHaltsOnlyForCause == ImagesClear /\ Override => (LSpec => []HaltsOnlyForCause)
<1>1. HaltInv => HaltsOnlyForCause
  BY DEF HaltInv, TriedInv, Trying, Idle, HaltsOnlyForCause
<1> QED
  BY <1>1, LHaltInvariant, PTL

-----------------------------------------------------------------------------
(* The refinement of SecureBoot.                                           *)

\* No step writes flash, and only three change which application runs: starting
\* it, and the two ways to stop it.
LEMMA RunningSteps ==
  ASSUME LInv, LNext
  PROVE  /\ UNCHANGED flash
         /\ UNCHANGED running \/ running' = NoSlot \/ StartApp
<1> USE DEF bootVars, callVars
<1>1. CASE \E s \in AppSlots : bootloader_load_image(s)
  BY <1>1 DEF bootloader_load_image, Call, vvars
<1>2. CASE \E s \in AppSlots : bootloader_load_image_no_verify(s)
  BY <1>2 DEF bootloader_load_image_no_verify, Call, vvars
<1>3. CASE \E s \in Slots : esp_image_verify(s)
  BY <1>3 DEF esp_image_verify, Call, vvars
<1>4. CASE PqcStep
  BY <1>4, VerifyStepFrame DEF LInv, PqcStep
<1>5. CASE PqcResult
  BY <1>5 DEF PqcResult, VerifyReturn, flashVars
<1>6. CASE process_image_header \/ process_segment \/ process_checksum
           \/ process_appended_hash_and_sig \/ verify_secure_boot_signature
  BY <1>6 DEF process_image_header, process_segment, process_checksum,
     process_appended_hash_and_sig, verify_secure_boot_signature, vvars
<1>7. CASE ClassicSignature \/ Deobfuscate \/ Success \/ Failure
  BY <1>7 DEF ClassicSignature, Deobfuscate, Success, Failure, vvars
<1>8. CASE StartApp \/ NoBootableApp
  BY <1>8 DEF StartApp, NoBootableApp, vvars
<1>9. CASE Reset \/ DeepSleep
  BY <1>9 DEF Reset, DeepSleep, Restart
<1> QED
  BY <1>1, <1>2, <1>3, <1>4, <1>5, <1>6, <1>7, <1>8, <1>9 DEF LNext, image_load

\* image_load and its callers keep the promise of SecureBoot: what they start is
\* trusted, nothing runs before it is started, and starting is the only way.
THEOREM LImplementsSecureBoot == ImagesClear => (LSpec => ImplementsSecureBoot)
<1> SUFFICES ASSUME ImagesClear PROVE LSpec => ImplementsSecureBoot
  OBVIOUS
<1>1. LInit => SB!Init
  BY DEF LInit, SB!Init
<1>2. LInv /\ [LNext]_lvars => [SB!Next]_<<flash, running>>
  <2> SUFFICES ASSUME LInv, LNext PROVE [SB!Next]_<<flash, running>>
    BY DEF lvars, vvars
  <2>1. CASE UNCHANGED running
    BY <2>1, RunningSteps
  <2>2. CASE running' = NoSlot /\ running # NoSlot
    BY <2>2, RunningSteps DEF SB!Next, SB!Stop
  <2>3. CASE StartApp
    <3>1. loaded \in AppSlots /\ Trusted(flash[loaded]) /\ running = NoSlot
      BY <2>3 DEF StartApp, LInv, LTypeOK, BootTypeOK, TrustInv, CallInv
    <3>2. SB!Start(loaded)
      BY <2>3, <3>1 DEF StartApp, SB!Start
    <3> QED
      BY <3>1, <3>2, RunningSteps DEF SB!Next
  <2> QED
    BY <2>1, <2>2, <2>3, RunningSteps
<1>3. LSpec => []LInv
  BY LInvariant
<1> QED
  BY <1>1, <1>2, <1>3, PTL DEF LSpec, ImplementsSecureBoot, SB!Spec
=============================================================================
