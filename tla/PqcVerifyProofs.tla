-------------------------- MODULE PqcVerifyProofs --------------------------
(***************************************************************************)
(* Proofs about PqcVerify.  VInv is inductive: every step of the verifier, *)
(* whether it goes on, fails or refuses, preserves it, for any slots,      *)
(* images, memory layout, strategy and chunk size.  The properties of a    *)
(* single call and those across calls follow.                              *)
(***************************************************************************)
EXTENDS PqcVerify, TLAPS

-----------------------------------------------------------------------------
(* Memory.                                                                 *)

\* A cell value made by the verifier is one.
LEMMA RawType == ASSUME NEW o \in Owners PROVE Raw(o) \in Value
BY DEF Raw, Value

\* A store leaves a memory.
LEMMA WrittenType ==
  ASSUME ram \in [Cells -> Value], NEW C, NEW v \in Value
  PROVE  Written(C, v) \in [Cells -> Value]
BY DEF Written

\* The pool's head is in the borrowed memory and not on the PQC stack.
LEMMA HeadPlace ==
  /\ HeadCells \subseteq Borrowed
  /\ HeadCells \cap StackCells = {}
  /\ Borrowed \subseteq Cells
BY MemoryAssumption DEF HeadCells, PoolCells, StackCells, Borrowed

-----------------------------------------------------------------------------
(* What signing makes the checks of the bootloader say.                    *)

\* A block the build wrote with the right keys passes every check on it, against
\* the digest of the body it was written for.
LEMMA WellSignedPasses ==
  ASSUME NEW im \in Images, WellSigned(im)
  PROVE  /\ HeaderValid(im.block)
         /\ DigestAndKeyMatch(im.block, im.body)
         /\ MlDsaVerify(im.body, im.block.sig, im.block.sigLen, BootKey)
BY DEF WellSigned, BuildBlock, HeaderValid, KnownAlg, DigestAndKeyMatch,
       MlDsaVerify, PQC_PUBLIC_KEY_LEN, AlgSizes, PQC_ALG_ML_DSA_65,
       PQC_SIGNATURE_MAGIC, PQC_SIGNATURE_VERSION

\* The slot in hand holds an image.
LEMMA SlotImage ==
  ASSUME VInv, vpc # "idle"
  PROVE  /\ vslot \in Slots
         /\ flash[vslot] \in Images
         /\ flash[vslot].body \in Bodies
         /\ flash[vslot].len \in Nat
         /\ vaddr = BlockOffset(vslot)
         /\ BlockAt(vslot, vaddr) = flash[vslot].block
         /\ Hashed(vslot, vaddr) = flash[vslot].body
BY ImageAssumption DEF VInv, VTypeOK, ArgsInv, BlockAt, Hashed

-----------------------------------------------------------------------------
(* The steps.                                                              *)

\* The initial state.
LEMMA VInitInv == VInit => VInv
<1> SUFFICES ASSUME VInit PROVE VInv OBVIOUS
<1>1. VTypeOK
  BY RawType DEF VInit, VTypeOK, Digests, VerifyPoints, Owners
<1>2. HeapInv
  BY HeadPlace DEF VInit, HeapInv, Raw
<1> QED
  BY <1>1, <1>2 DEF VInit, VInv, ArgsInv, OpenInv, VerdictInv, AcceptsOnlySigned,
     RefusesOnlyForCause

\* A call from its caller, with the block where the slot's image puts it.
LEMMA VerifyCallInv ==
  ASSUME VInv, NEW s \in Slots, VerifyCall(s, BlockOffset(s)) PROVE VInv'
<1> USE DEF VInv, VerifyCall, flashVars, heapVars
<1>1. BlockOffset(s) \in Nat
  BY ImageAssumption DEF VTypeOK, BlockOffset
<1>2. VTypeOK'
  BY <1>1 DEF VTypeOK, VerifyPoints
<1>3. ArgsInv' /\ OpenInv'
  BY DEF ArgsInv, OpenInv, BlockOffset
<1>4. HeapInv'
  BY DEF HeapInv, HeapIntact
<1> QED
  BY <1>2, <1>3, <1>4 DEF VerdictInv, AcceptsOnlySigned, RefusesOnlyForCause

\* The pool is set up, found set up, or cannot be.
LEMMA tlsf_ensure_init_Inv == ASSUME VInv, tlsf_ensure_init PROVE VInv'
<1> USE DEF VInv, tlsf_ensure_init, Goto, Fail, flashVars, argVars
<1>1. VTypeOK'
  <2>1. ram' \in [Cells -> Value]
    BY WrittenType, RawType DEF VTypeOK, Owners
  <2> QED
    BY <2>1 DEF VTypeOK, VerifyPoints
<1>2. ArgsInv' /\ OpenInv'
  BY DEF ArgsInv, OpenInv, BlockOffset
<1>3. HeapInv'
  <2>1. CASE ram' = Written(HeadCells, Raw("heap")) /\ heap'
    BY <2>1, HeadPlace DEF HeapInv, HeapIntact, Written
  <2>2. CASE UNCHANGED <<heap, ram>>
    BY <2>2 DEF HeapInv, HeapIntact
  <2> QED
    BY <2>1, <2>2
<1> QED
  BY <1>1, <1>2, <1>3 DEF VerdictInv, AcceptsOnlySigned, RefusesOnlyForCause

\* The signature object is kept, allocated, or refused when it came from
\* somewhere else.
LEMMA NewSigObject_Inv == ASSUME VInv, NewSigObject PROVE VInv'
<1> USE DEF VInv, NewSigObject, AllocatedFrom, Goto, Fail, Refuse, flashVars, argVars
<1>1. VTypeOK'
  BY DEF VTypeOK, VerifyPoints
<1>2. ArgsInv' /\ OpenInv'
  BY DEF ArgsInv, OpenInv, BlockOffset
<1>3. HeapInv'
  BY DEF HeapInv, HeapIntact
<1> QED
  BY <1>1, <1>2, <1>3 DEF VerdictInv, AcceptsOnlySigned, RefusesOnlyForCause

\* A SHA context is opened or not.
LEMMA HashStart_Inv == ASSUME VInv, HashStart PROVE VInv'
<1> USE DEF VInv, HashStart, Goto, Fail, heapVars, argVars
<1>1. VTypeOK'
  <2>1. sha' \subseteq {"load", "pqc"}
    BY DEF VTypeOK
  <2>2. off' \in Nat
    BY DEF VTypeOK
  <2> QED
    BY <2>1, <2>2 DEF VTypeOK, VerifyPoints
<1>2. ArgsInv' /\ OpenInv'
  BY DEF VTypeOK, ArgsInv, OpenInv, BlockOffset
<1>3. HeapInv'
  BY DEF HeapInv, HeapIntact
<1> QED
  BY <1>1, <1>2, <1>3 DEF VerdictInv, AcceptsOnlySigned, RefusesOnlyForCause

\* A chunk never passes the end.
LEMMA ChunkFits ==
  ASSUME off \in Nat, vaddr \in Nat, off < vaddr
  PROVE  ChunkLen \in Nat /\ off + ChunkLen <= vaddr
BY ConfigAssumption DEF ChunkLen

\* A chunk is hashed, or its mapping fails and the context is closed.
LEMMA HashOneChunk_Inv == ASSUME VInv, HashOneChunk PROVE VInv'
<1> USE DEF VInv, HashOneChunk, Goto, MmapFail, heapVars, argVars
<1>1. VTypeOK'
  <2>1. sha' \subseteq {"load", "pqc"}
    BY DEF VTypeOK
  <2>2. off' \in Nat
    BY ChunkFits DEF VTypeOK
  <2> QED
    BY <2>1, <2>2 DEF VTypeOK, VerifyPoints
<1>2. ArgsInv'
  BY ChunkFits DEF VTypeOK, ArgsInv, BlockOffset
<1>3. OpenInv'
  BY DEF OpenInv
<1>4. HeapInv'
  BY DEF HeapInv, HeapIntact
<1>5. RefusesOnlyForCause'
  BY DEF OpenInv, VTypeOK, RefusesOnlyForCause
<1> QED
  BY <1>1, <1>2, <1>3, <1>4, <1>5 DEF VerdictInv, AcceptsOnlySigned

\* The digest is that of everything before the block.
LEMMA HashFinish_Inv == ASSUME VInv, HashFinish PROVE VInv'
<1> USE DEF VInv, HashFinish, Goto, heapVars, argVars
<1>1. off = vaddr
  BY DEF VTypeOK, ArgsInv
<1>2. digest' = flash[vslot].body /\ digest' \in Bodies
  BY <1>1, SlotImage
<1>3. VTypeOK'
  BY <1>2 DEF VTypeOK, VerifyPoints, Digests
<1>4. ArgsInv' /\ OpenInv'
  BY DEF ArgsInv, OpenInv, BlockOffset
<1>5. HeapInv'
  BY DEF HeapInv, HeapIntact
<1> QED
  BY <1>2, <1>3, <1>4, <1>5 DEF VerdictInv, AcceptsOnlySigned,
     RefusesOnlyForCause

\* The block is mapped or not.
LEMMA MapBlock_Inv == ASSUME VInv, MapBlock PROVE VInv'
<1> USE DEF VInv, MapBlock, Goto, MmapFail, heapVars, argVars
<1>1. VTypeOK'
  BY DEF VTypeOK, VerifyPoints
<1>2. ArgsInv' /\ OpenInv'
  BY DEF ArgsInv, OpenInv, BlockOffset
<1>3. HeapInv'
  BY DEF HeapInv, HeapIntact
<1>4. RefusesOnlyForCause'
  BY DEF OpenInv, VTypeOK, RefusesOnlyForCause
<1> QED
  BY <1>1, <1>2, <1>3, <1>4 DEF VerdictInv, AcceptsOnlySigned

\* A bad header is refused and unmapped; a good one fills the PQC stack.
LEMMA CheckBlock_Inv == ASSUME VInv, CheckBlock PROVE VInv'
<1> USE DEF VInv, CheckBlock
<1> DEFINE valid == HeaderValid(BlockAt(vslot, vaddr))
<1>1. CASE valid /\ blk' = vslot /\ ram' = Written(StackCells, Raw("fill"))
           /\ Goto("stack") /\ UNCHANGED map
  <2> USE <1>1 DEF Goto, argVars
  <2>1. ram' \in [Cells -> Value]
    BY WrittenType, RawType DEF VTypeOK, Owners
  <2>2. VTypeOK'
    BY <2>1, SlotImage DEF VTypeOK, VerifyPoints
  <2>3. ArgsInv' /\ OpenInv'
    BY SlotImage DEF VTypeOK, ArgsInv, OpenInv, BlockOffset
  <2>4. HeapInv'
    BY HeadPlace DEF HeapInv, HeapIntact, Written, VTypeOK
  <2> QED
    BY <2>2, <2>3, <2>4 DEF VerdictInv, AcceptsOnlySigned, RefusesOnlyForCause
<1>2. CASE ~valid /\ bootloader_munmap /\ Refuse /\ UNCHANGED <<blk, ram>>
  <2> USE <1>2 DEF Refuse, bootloader_munmap, argVars
  <2>1. VTypeOK'
    BY DEF VTypeOK, VerifyPoints
  <2>2. ArgsInv' /\ OpenInv'
    BY DEF ArgsInv, OpenInv, BlockOffset
  <2>3. HeapInv'
    BY DEF HeapInv, HeapIntact
  <2>4. ~WellSigned(flash[vslot])
    BY SlotImage, WellSignedPasses
  <2> QED
    BY <2>1, <2>2, <2>3, <2>4 DEF VerdictInv, AcceptsOnlySigned,
       RefusesOnlyForCause, WellSigned
<1> QED
  BY <1>1, <1>2

\* The verdict is right: the memory of the signature object is the allocator's,
\* the digest is the image's and the block is the slot's.
LEMMA pqc_verify_on_stack_Inv == ASSUME VInv, pqc_verify_on_stack PROVE VInv'
<1> USE DEF VInv, pqc_verify_on_stack
<1> DEFINE b       == flash[vslot].block
           matches == DigestAndKeyMatch(b, digest)
           genuine == MlDsaVerify(digest, b.sig, b.sigLen, BootKey)
<1>1. /\ BlockAt(blk, vaddr) = b
      /\ digest = flash[vslot].body
      /\ sigObj # "none"
      /\ HeapIntact
  BY SlotImage DEF OpenInv, VerdictInv, HeapInv
<1>2. \/ UNCHANGED vfault /\ verdict' = IF matches /\ genuine THEN "SUCCESS" ELSE "ERROR"
      \/ verdict' = "ERROR" /\ vfault'
  BY <1>1
<1>3. VerdictInv'
  <2>1. verdict' = "SUCCESS" => SignedByOwner(flash[vslot].body, b)
    BY <1>1, <1>2 DEF MlDsaVerify, SignedByOwner
  <2>2. WellSigned(flash[vslot]) => matches /\ genuine
    BY <1>1, SlotImage, WellSignedPasses
  <2>3. verdict' # "SUCCESS" => vfault' \/ ~WellSigned(flash[vslot])
    BY <1>2, <2>2
  <2> QED
    BY <1>1, <2>1, <2>3 DEF VerdictInv, argVars, flashVars, WellSigned
<1>4. VTypeOK'
  <2>1. ram' \in [Cells -> Value]
    BY WrittenType, RawType DEF VTypeOK, Owners
  <2>2. verdict' \in {"SUCCESS", "ERROR"} /\ vfault' \in BOOLEAN
    BY <1>2 DEF VTypeOK
  <2> QED
    BY <2>1, <2>2 DEF VTypeOK, VerifyPoints, argVars, flashVars
<1>5. ArgsInv' /\ OpenInv'
  BY DEF ArgsInv, OpenInv, BlockOffset, argVars, flashVars
<1>6. HeapInv'
  BY HeadPlace DEF HeapInv, HeapIntact, Written, VTypeOK, flashVars
<1> QED
  BY <1>3, <1>4, <1>5, <1>6 DEF AcceptsOnlySigned, RefusesOnlyForCause

\* The end of a call that got to the signature.
LEMMA CleanUp_Inv == ASSUME VInv, CleanUp PROVE VInv'
<1> USE DEF VInv, CleanUp, bootloader_munmap, DestroyHeap, pqc_zero_temp_region,
        argVars
<1>1. VTypeOK'
  <2>1. ram' \in [Cells -> Value]
    BY WrittenType, RawType DEF VTypeOK, Owners
  <2>2. heap' \in BOOLEAN /\ sigObj' \in {"none", "pool", "outside"}
    BY DEF VTypeOK
  <2> QED
    BY <2>1, <2>2 DEF VTypeOK, VerifyPoints
<1>2. ArgsInv' /\ OpenInv'
  BY DEF ArgsInv, OpenInv, BlockOffset
<1>3. HeapInv'
  <2>1. CASE Strategy = "TLSF"
    BY <2>1, HeadPlace DEF HeapInv, Written, Raw
  <2>2. CASE Strategy # "TLSF"
    BY <2>2 DEF HeapInv, HeapIntact
  <2> QED
    BY <2>1, <2>2
<1>4. AcceptsOnlySigned' /\ RefusesOnlyForCause'
  BY DEF VerdictInv, AcceptsOnlySigned, RefusesOnlyForCause, WellSigned
<1> QED
  BY <1>1, <1>2, <1>3, <1>4 DEF VerdictInv

\* The caller takes the result.
LEMMA VerifyReturn_Inv == ASSUME VInv, VerifyReturn PROVE VInv'
<1> USE DEF VInv, VerifyReturn, Goto, flashVars, heapVars, argVars
<1>1. VTypeOK'
  BY DEF VTypeOK, VerifyPoints
<1>2. ArgsInv' /\ OpenInv'
  BY DEF ArgsInv, OpenInv, BlockOffset
<1>3. HeapInv'
  BY DEF HeapInv, HeapIntact
<1> QED
  BY <1>1, <1>2, <1>3 DEF VerdictInv, AcceptsOnlySigned, RefusesOnlyForCause

\* Every step of a call.
LEMMA VerifyStepInv == ASSUME VInv, VerifyStep PROVE VInv'
BY tlsf_ensure_init_Inv, NewSigObject_Inv, HashStart_Inv, HashOneChunk_Inv,
   HashFinish_Inv, MapBlock_Inv, CheckBlock_Inv, pqc_verify_on_stack_Inv,
   CleanUp_Inv
   DEF VerifyStep

\* Nothing happens.
LEMMA VStutterInv == ASSUME VInv, UNCHANGED vvars PROVE VInv'
BY DEF vvars, VInv, VTypeOK, ArgsInv, OpenInv, HeapInv, VerdictInv, HeapIntact,
       AcceptsOnlySigned, RefusesOnlyForCause, WellSigned, BlockOffset

-----------------------------------------------------------------------------
(* The theorems.                                                           *)

\* The inductive invariant holds in every reachable state: any calls, in any
\* order, ending at any of their returns.
THEOREM VInvariant == VSpec => []VInv
<1>1. VInit => VInv
  BY VInitInv
<1>2. VInv /\ [VNext]_vvars => VInv'
  BY VerifyCallInv, VerifyStepInv, VerifyReturn_Inv, VStutterInv DEF VNext
<1> QED
  BY <1>1, <1>2, PTL DEF VSpec

\* Every variable keeps its type: vret is one of the two codes that
\* pqc_bootloader_verify returns, digest is that of a body or of no body.
THEOREM VTypeCorrect == VSpec => []VTypeOK
<1>1. VInv => VTypeOK
  BY DEF VInv
<1> QED
  BY <1>1, VInvariant, PTL

\* Only what the owner of the key signed is accepted, whatever was tried before.
THEOREM VAcceptsOnlySigned == VSpec => []AcceptsOnlySigned
<1>1. VInv => AcceptsOnlySigned
  BY DEF VInv
<1> QED
  BY <1>1, VInvariant, PTL

\* What an earlier call left behind never makes a well signed image fail.
THEOREM VRefusesOnlyForCause == VSpec => []RefusesOnlyForCause
<1>1. VInv => RefusesOnlyForCause
  BY DEF VInv
<1> QED
  BY <1>1, VInvariant, PTL

\* Every return leaves the SHA engine and the mapping window free.
THEOREM VNothingLeftOpen == VSpec => []NothingLeftOpen
<1>1. VInv => NothingLeftOpen
  BY DEF VInv, VTypeOK, OpenInv, NothingLeftOpen
<1> QED
  BY <1>1, VInvariant, PTL

\* The signature object never outlives the heap it lives in.
THEOREM VSigObjAlive == VSpec => []SigObjAlive
<1>1. VInv => SigObjAlive
  BY DEF VInv, HeapInv, SigObjAlive
<1> QED
  BY <1>1, VInvariant, PTL

\* Borrowed memory is zero again, or accounted for by s_tlsf_heap.
THEOREM VBorrowAccounted == VSpec => []BorrowAccounted
<1>1. VInv => BorrowAccounted
  BY DEF VInv, HeapInv, BorrowAccounted
<1> QED
  BY <1>1, VInvariant, PTL
=============================================================================
