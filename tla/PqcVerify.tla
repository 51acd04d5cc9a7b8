----------------------------- MODULE PqcVerify -----------------------------
(***************************************************************************)
(* pqc_bootloader_verify: the ML-DSA-65 check of one application image.    *)
(*                                                                         *)
(* Source: pqc_bootloader_verify.c.  One call hashes the image in flash in *)
(* chunks, maps the signature block, checks its header, verifies on a      *)
(* separate stack and cleans up.  Every step that can fail has its own     *)
(* early return, and what each return leaves behind is kept: the static    *)
(* pointers s_tlsf_heap, s_sig_obj and s_block, the SHA context, the flash *)
(* mapping and, in the TLSF strategy, the borrowed part of the             *)
(* application's SRAM.                                                     *)
(*                                                                         *)
(* Flash addresses are counted in 4 KB sectors from the image's start:     *)
(* blocks and signature sectors are sector aligned, so the 4-byte ALIGN_UP *)
(* of a chunk never changes it.                                            *)
(***************************************************************************)
EXTENDS SigBlock

CONSTANTS
  Slots,      \* flash partitions that may hold an image
  NoSlot,     \* no partition
  Images,     \* what a partition may hold
  Cells,      \* pieces of the SRAM the application is loaded into
  PoolHead,   \* cell of the pool's control block and of the OQS_SIG object
  Pool,       \* cells of the TLSF pool, PQC_TEMP_REGION_START onwards
  Stack,      \* cells of the PQC call stack, just above the pool
  Strategy,   \* PQC_MEMORY_STRATEGY: "TLSF" or "STACK"
  Override,   \* whether oqs_platform_malloc is linked in place of malloc
  HashChunk,  \* PQC_HASH_CHUNK_SIZE in sectors
  MayFail     \* whether flash mappings, SHA contexts and allocations may fail

ASSUME SlotAssumption  == NoSlot \notin Slots
ASSUME OwnerAssumption == Slots \cap {"init", "zero", "heap", "fill", "kept"} = {}
ASSUME ImageAssumption ==
  \A im \in Images : im.body \in Bodies /\ im.block \in Block /\ im.len \in Nat
ASSUME MemoryAssumption ==
  /\ PoolHead \in Pool
  /\ Pool \subseteq Cells
  /\ Stack \subseteq Cells
  /\ Pool \cap Stack = {}
ASSUME ConfigAssumption ==
  /\ Strategy \in {"TLSF", "STACK"}
  /\ Override \in BOOLEAN
  /\ HashChunk \in Nat \ {0}
  /\ MayFail \in BOOLEAN

VARIABLES
  flash,      \* what each partition holds; nothing here writes it
  ram,        \* the application's SRAM
  heap,       \* s_tlsf_heap # NULL
  sigObj,     \* s_sig_obj: "none" (NULL), "pool" or "outside" the pool
  digest,     \* s_digest
  blk,        \* s_block: the slot whose block it points into
  map,        \* what the flash mapping window shows: "none" or "block"
  sha,        \* the open SHA-256 contexts, by owner
  off,        \* sectors hashed so far
  vpc,        \* where pqc_bootloader_verify is
  vslot,      \* its arguments: the image's slot ...
  vaddr,      \* ... and the block's offset in it
  verdict,    \* what the check on the PQC stack returned
  vret,       \* what pqc_bootloader_verify returned
  vfault      \* history: a resource failed during this call

flashVars == <<flash, map, sha>>
heapVars  == <<ram, heap, sigObj>>
argVars   == <<vslot, vaddr>>
vvars == <<flash, ram, heap, sigObj, digest, blk, map, sha, off, vpc, vslot,
           vaddr, verdict, vret, vfault>>

-----------------------------------------------------------------------------
(* Memory.  A cell holds data of some owner, and obf says what still       *)
(* stands between the two: it is XORed with the bootloader's obfuscation   *)
(* words, which alternate from the first word of a segment, be that at an  *)
(* even or at an odd address, or it lies two words off its place.          *)

Owners == Slots \cup {"init", "zero", "heap", "fill", "kept"}
Marks  == {"even", "odd", "moved"}
Value  == [what : Owners, obf : SUBSET Marks]
Raw(o) == [what |-> o, obf |-> {}]

\* The application SRAM a strategy uses: none when it has bootloader memory.
PoolCells  == IF Strategy = "TLSF" THEN Pool ELSE {}
StackCells == IF Strategy = "TLSF" THEN Stack ELSE {}
HeadCells  == PoolCells \cap {PoolHead}
\* PQC_TEMP_REGION_START .. PQC_STACK_END
Borrowed   == PoolCells \cup StackCells

Written(C, v) == [c \in Cells |-> IF c \in C THEN v ELSE ram[c]]

\* The control block and the signature object are as the allocator left them.
HeapIntact == \A c \in HeadCells : ram[c] = Raw("heap")

-----------------------------------------------------------------------------
(* Flash.                                                                  *)

Blank == [magic |-> 255, version |-> 255, alg |-> 255, digest |-> NoBody,
          pkLen |-> 255, sigLen |-> 255, key |-> BootKey,
          sig |-> [by |-> BootKey, over |-> NoBody], crc |-> FALSE]

\* An image of len sectors, its classical signature sector, its PQC block.
BlockOffset(s) == flash[s].len + 1
BlockAt(s, a)  == IF a = BlockOffset(s) THEN flash[s].block ELSE Blank
Hashed(s, n)   == IF n = BlockOffset(s) THEN flash[s].body ELSE NoBody

-----------------------------------------------------------------------------
\* Mutant: bootloader_munmap is forgotten.
LeaveMapped == UNCHANGED map

bootloader_munmap == map' = "none"

\* Mutant: s_sig_obj is not cleared.
DestroyHeapOnly == heap' = FALSE /\ UNCHANGED sigObj

\* tlsf_destroy, and the pointers into the pool are cleared.
DestroyHeap == heap' = FALSE /\ sigObj' = "none"

\* Mutant: the stack is not zeroed.
ZeroPoolOnly == ram' = Written(PoolCells, Raw("zero"))

pqc_zero_temp_region == ram' = Written(Borrowed, Raw("zero"))

-----------------------------------------------------------------------------
VInit ==
  /\ flash \in [Slots -> Images]
  /\ ram = [c \in Cells |-> Raw("init")]
  /\ heap = FALSE
  /\ sigObj = "none"
  /\ digest = NoBody
  /\ blk = NoSlot
  /\ map = "none"
  /\ sha = {}
  /\ off = 0
  /\ vpc = "idle"
  /\ vslot = NoSlot
  /\ vaddr = 0
  /\ verdict = "ERROR"
  /\ vret = "INVALID"
  /\ vfault = FALSE

\* pqc_bootloader_verify(pqc_block_flash_addr, image_start_addr)
VerifyCall(s, a) ==
  /\ vpc = "idle"
  /\ vpc' = "heap"
  /\ vslot' = s
  /\ vaddr' = a
  /\ vfault' = FALSE
  /\ UNCHANGED <<flashVars, heapVars, digest, blk, off, verdict, vret>>

Goto(to) == vpc' = to /\ UNCHANGED <<vret, vfault>>

\* The early returns: ESP_ERR_IMAGE_INVALID and nothing else.
Refuse == vpc' = "ret" /\ vret' = "INVALID" /\ UNCHANGED vfault

\* An early return because a resource could not be had.
Fail == MayFail /\ vpc' = "ret" /\ vret' = "INVALID" /\ vfault' = TRUE

\* bootloader_mmap returned NULL: for want of a resource, or because its one
\* window is still open, which is nobody's fault but the verifier's.
MmapFail ==
  /\ MayFail \/ map # "none"
  /\ vpc' = "ret"
  /\ vret' = "INVALID"
  /\ vfault' = (map = "none")

tlsf_ensure_init ==
  /\ vpc = "heap"
  /\ \/ heap /\ Goto("sig") /\ UNCHANGED <<heap, ram>>
     \/ /\ ~heap
        /\ heap' = TRUE
        /\ ram' = Written(HeadCells, Raw("heap"))
        /\ Goto("sig")
     \/ ~heap /\ Fail /\ UNCHANGED <<heap, ram>>
  /\ UNCHANGED <<flashVars, sigObj, digest, blk, off, argVars, verdict>>

\* Where liboqs gets memory: oqs_platform_malloc takes it from the pool, if it is linked in.
AllocatedFrom == IF Override THEN "pool" ELSE "outside"

\* OQS_SIG_ml_dsa_65_new and the test that it came from the pool. The object is
\* kept from one call to the next, and only a new one is tested.
NewSigObject ==
  /\ vpc = "sig"
  /\ \/ sigObj # "none" /\ Goto("hash") /\ UNCHANGED sigObj
     \/ sigObj = "none" /\ Fail /\ UNCHANGED sigObj
     \/ /\ sigObj = "none"
        /\ sigObj' = AllocatedFrom
        /\ IF AllocatedFrom = "pool" THEN Goto("hash") ELSE Refuse
  /\ UNCHANGED <<flashVars, ram, heap, digest, blk, off, argVars, verdict>>

\* sha256_flash_region: bootloader_sha256_start
HashStart ==
  /\ vpc = "hash"
  /\ \/ /\ sha' = sha \cup {"pqc"}
        /\ off' = 0
        /\ Goto("chunk")
     \/ Fail /\ UNCHANGED <<sha, off>>
  /\ UNCHANGED <<flash, map, heapVars, digest, blk, argVars, verdict>>

\* Mutant: the last chunk is not cut.
ChunkUncut  == HashChunk

\* The next chunk: PQC_HASH_CHUNK_SIZE or what is left.
ChunkLen == IF vaddr - off > HashChunk THEN HashChunk ELSE vaddr - off

\* Mutant: the result of sha256_flash_region is not looked at.
HashErrorUnchecked ==
  /\ vpc = "chunk"
  /\ off < vaddr
  /\ \/ map = "none" /\ off' = off + ChunkLen /\ Goto("chunk") /\ UNCHANGED sha
     \/ MayFail /\ Goto("block") /\ sha' = sha \ {"pqc"} /\ UNCHANGED off
  /\ UNCHANGED <<flash, map, heapVars, digest, blk, argVars, verdict>>

\* Mutant: a chunk that cannot be mapped starts the hash again.
HashRetried ==
  /\ vpc = "chunk"
  /\ off < vaddr
  /\ \/ map = "none" /\ off' = off + ChunkLen /\ Goto("chunk") /\ UNCHANGED sha
     \/ MayFail /\ Goto("hash") /\ sha' = sha \ {"pqc"} /\ UNCHANGED off
  /\ UNCHANGED <<flash, map, heapVars, digest, blk, argVars, verdict>>

\* One turn of the loop: map a chunk, hash it and unmap it.
HashOneChunk ==
  /\ vpc = "chunk"
  /\ off < vaddr
  /\ \/ map = "none" /\ off' = off + ChunkLen /\ Goto("chunk") /\ UNCHANGED sha
     \/ MmapFail /\ sha' = sha \ {"pqc"} /\ UNCHANGED off
  /\ UNCHANGED <<flash, map, heapVars, digest, blk, argVars, verdict>>

HashFinish ==
  /\ vpc = "chunk"
  /\ off >= vaddr
  /\ digest' = Hashed(vslot, off)
  /\ sha' = sha \ {"pqc"}
  /\ Goto("block")
  /\ UNCHANGED <<flash, map, heapVars, blk, off, argVars, verdict>>

MapBlock ==
  /\ vpc = "block"
  /\ \/ map = "none" /\ map' = "block" /\ Goto("check")
     \/ MmapFail /\ UNCHANGED map
  /\ UNCHANGED <<flash, sha, heapVars, digest, blk, off, argVars, verdict>>

\* validate_pqc_block; a valid header also fills the PQC stack with its pattern.
CheckBlock ==
  /\ vpc = "check"
  /\ LET valid == HeaderValid(BlockAt(vslot, vaddr))
     IN  \/ /\ valid
            /\ blk' = vslot
            /\ ram' = Written(StackCells, Raw("fill"))
            /\ Goto("stack")
            /\ UNCHANGED map
         \/ /\ ~valid
            /\ bootloader_munmap
            /\ Refuse
            /\ UNCHANGED <<blk, ram>>
  /\ UNCHANGED <<flash, sha, heap, sigObj, digest, off, argVars, verdict>>

\* run_with_pqc_stack(pqc_verify_on_stack): uses the stack and the whole pool.
\* liboqs may run out of pool. A signature object that something else wrote
\* over is called through a wild pointer, and then any verdict is possible.
pqc_verify_on_stack ==
  /\ vpc = "stack"
  /\ LET b       == BlockAt(blk, vaddr)
         matches == sigObj # "none" /\ DigestAndKeyMatch(b, digest)
         genuine == MlDsaVerify(digest, b.sig, b.sigLen, BootKey)
         result  == IF genuine THEN "SUCCESS" ELSE "ERROR"
     IN  \/ /\ verdict' \in IF ~matches      THEN {"ERROR"}
                            ELSE IF HeapIntact THEN {result}
                                               ELSE {"SUCCESS", "ERROR"}
            /\ UNCHANGED vfault
         \/ matches /\ MayFail /\ verdict' = "ERROR" /\ vfault' = TRUE
  /\ ram' = Written(Borrowed, Raw("heap"))
  /\ vpc' = "clean"
  /\ UNCHANGED <<flashVars, heap, sigObj, digest, blk, off, argVars, vret>>

\* Unmap the block, give the borrowed memory back zeroed, report the verdict.
CleanUp ==
  /\ vpc = "clean"
  /\ bootloader_munmap
  /\ blk' = NoSlot
  /\ IF Strategy = "TLSF"
     THEN DestroyHeap /\ pqc_zero_temp_region
     ELSE UNCHANGED <<heap, sigObj, ram>>
  /\ vpc' = "ret"
  /\ vret' = IF verdict = "SUCCESS" THEN "OK" ELSE "INVALID"
  /\ UNCHANGED <<flash, sha, digest, off, argVars, verdict, vfault>>

VerifyStep ==
  \/ tlsf_ensure_init \/ NewSigObject
  \/ HashStart \/ HashOneChunk \/ HashFinish
  \/ MapBlock \/ CheckBlock
  \/ pqc_verify_on_stack \/ CleanUp

\* The caller takes the result.
VerifyReturn ==
  /\ vpc = "ret"
  /\ Goto("idle")
  /\ UNCHANGED <<flashVars, heapVars, digest, blk, off, argVars, verdict>>

\* The caller on its own: any image, in any order, the block where
\* verify_signature_and_adjust_image_len looks for it.
VNext ==
  \/ \E s \in Slots : VerifyCall(s, BlockOffset(s))
  \/ VerifyStep
  \/ VerifyReturn

VSpec == VInit /\ [][VNext]_vvars

\* A call runs to its end on the one CPU of the bootloader.
VFairSpec == VSpec /\ WF_vvars(VerifyStep) /\ WF_vvars(VerifyReturn)

-----------------------------------------------------------------------------
(* Properties.                                                             *)

VerifyPoints == {"idle", "heap", "sig", "hash", "chunk", "block", "check",
                 "stack", "clean", "ret"}

\* The type of every variable.
VTypeOK ==
  /\ flash \in [Slots -> Images]
  /\ ram \in [Cells -> Value]
  /\ heap \in BOOLEAN
  /\ sigObj \in {"none", "pool", "outside"}
  /\ digest \in Digests
  /\ blk \in Slots \cup {NoSlot}
  /\ map \in {"none", "block"}
  /\ sha \subseteq {"load", "pqc"}
  /\ off \in Nat
  /\ vpc \in VerifyPoints
  /\ vslot \in Slots \cup {NoSlot}
  /\ vaddr \in Nat
  /\ verdict \in {"SUCCESS", "ERROR"}
  /\ vret \in {"OK", "INVALID"}
  /\ vfault \in BOOLEAN

\* An image the build signed with the key the bootloader has.
WellSigned(im) == im.block = BuildBlock(BootKey, BootKey, im.body)

\* An image is accepted only if the key's owner signed the bytes that are in the
\* slot now: neither a digest left over from the image tried before nor a part
\* of the image can be what the signature is checked against.
AcceptsOnlySigned ==
  vpc = "ret" /\ vret = "OK" => SignedByOwner(flash[vslot].body, flash[vslot].block)

\* A correctly signed image is refused only when a resource failed during its own
\* call: nothing an earlier call left behind (heap, signature object, mapping,
\* digest) makes a later one fail.
RefusesOnlyForCause ==
  vpc = "ret" /\ vret = "INVALID" /\ Override =>
    vfault \/ ~WellSigned(flash[vslot])

\* However a call ends, its SHA context is finished, the block is unmapped and
\* s_block does not point into the closed mapping.
NothingLeftOpen ==
  /\ vpc \in {"idle", "ret"} => "pqc" \notin sha /\ map = "none"
  /\ blk # NoSlot => map = "block"

\* s_sig_obj never dangles: while it is set, the heap it was allocated from
\* exists and its memory is the allocator's, also across calls that returned
\* early and left both behind.
SigObjAlive == sigObj = "pool" => heap /\ HeapIntact

\* Between calls, the borrowed SRAM holds something of the verifier only while
\* s_tlsf_heap still says so; after a completed verification it holds nothing.
BorrowAccounted ==
  vpc \in {"idle", "ret"} /\ ~heap =>
    \A c \in Borrowed : ram[c].what \notin {"heap", "fill"}

-----------------------------------------------------------------------------
(* Why they hold.                                                          *)

\* The arguments stay those of the call, and hashing never passes the block.
ArgsInv ==
  vpc # "idle" =>
    /\ vslot \in Slots
    /\ vaddr = BlockOffset(vslot)
    /\ vpc = "chunk" => off <= vaddr

\* One SHA context while hashing, one mapping while the block is looked at.
OpenInv ==
  /\ "pqc" \in sha => vpc = "chunk"
  /\ map # "none" <=> vpc \in {"check", "stack", "clean"}
  /\ vpc = "stack" => blk = vslot
  /\ blk # NoSlot => vpc \in {"stack", "clean"} /\ map = "block"

\* The heap and the signature object come and go together, and their memory
\* changes hands only with them.
HeapInv ==
  /\ vpc \notin {"idle", "heap", "ret"} => heap
  /\ vpc \notin {"idle", "heap", "sig", "ret"} => sigObj # "none"
  /\ sigObj = "pool" => heap
  /\ heap => HeapIntact
  /\ ~heap => \A c \in Borrowed : ram[c].what \notin {"heap", "fill"}

\* From the end of hashing on, the digest is that of the image in the slot, and
\* the verdict on it is the right one unless a resource failed.
VerdictInv ==
  /\ vpc \in {"block", "check", "stack", "clean"} => digest = flash[vslot].body
  /\ vpc = "clean" =>
       IF verdict = "SUCCESS"
       THEN SignedByOwner(flash[vslot].body, flash[vslot].block)
       ELSE vfault \/ ~WellSigned(flash[vslot])

\* The inductive invariant behind the five properties above.
VInv ==
  /\ VTypeOK /\ ArgsInv /\ OpenInv /\ HeapInv /\ VerdictInv
  /\ AcceptsOnlySigned /\ RefusesOnlyForCause

-----------------------------------------------------------------------------
\* A call that started is answered.
Answered == vpc = "heap" ~> vpc = "ret"

\* What the README says of the pool: borrowed during verification, zeroed
\* afterwards. The early returns do not.
BorrowReturned ==
  vpc = "ret" => \A c \in Borrowed : ram[c].what \notin {"heap", "fill"}

=============================================================================
