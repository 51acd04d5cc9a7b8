------------------------------- MODULE Sponge -------------------------------
(***************************************************************************)
(* The incremental SHAKE functions of ports/fips202_kyber.c on one context.*)
(*                                                                         *)
(* The Keccak permutation is left uninterpreted: the 25 lanes are known by *)
(* what was XORed into them, a set of <<b, i, x>> saying that x went into  *)
(* byte i after b permutations, and by the number of permutations.  XORing *)
(* the same thing twice takes it out again.  The k-th message byte is the  *)
(* number k, so a byte that is lost, doubled or misplaced shows.           *)
(*                                                                         *)
(* A call is one step, and so is every turn of its loops.  Rates are       *)
(* multiples of the lane size, so absorbing by lanes or by bytes is one.   *)
(***************************************************************************)
EXTENDS Integers, Sequences

CONSTANTS
  Rate,       \* SHAKE128_RATE, SHAKE256_RATE: bytes per block
  Dom,        \* the domain separation byte, 0x1F or 0x06
  End,        \* the last bit of the padding, 0x80 in the block's last byte
  MaxIn,      \* bound on the message
  MaxOut      \* bound on the output

ASSUME RateAssumption == Rate \in Nat \ {0}
ASSUME PaddingAssumption == Dom \notin Nat /\ End \notin Nat /\ Dom # End
ASSUME BoundAssumption == MaxIn \in Nat /\ MaxOut \in Nat

VARIABLES
  mix, perms, \* keccak_state.s
  pos,        \* keccak_state.pos
  phase,      \* how far the caller is: "absorb" or "squeeze"
  pc,         \* the loop that runs, "ready" between calls
  left,       \* inlen, outlen or nblocks
  fed,        \* message bytes read so far
  offered,    \* history: message bytes in all calls
  out,        \* bytes written so far, as <<number of permutations, position>>
  asked       \* history: bytes asked for in all calls

stateVars == <<mix, perms, pos>>
spongeVars == <<stateVars, phase, pc, left, fed, offered, out, asked>>

Smaller(a, b) == IF a < b THEN a ELSE b

\* s[i / 8] ^= ...
Xor(xs) == mix' = (mix \ xs) \cup (xs \ mix)

\* The next n message bytes at positions from onwards.
Input(from, n) == { <<perms, from + j, fed + j>> : j \in 0..(n - 1) }

\* The block's bytes from position b onwards, n of them, after q permutations.
Emit(q, b, n) == out' = out \o [j \in 1..n |-> <<q, b + j - 1>>]

-----------------------------------------------------------------------------
(* Absorbing.                                                              *)

Fresh == /\ mix' = {} /\ perms' = 0 /\ fed' = 0 /\ out' = <<>> /\ asked' = 0

\* shake128_init, shake256_init: a context may be used again at any time.
shake_init ==
  /\ pc = "ready"
  /\ Fresh
  /\ pos' = 0 /\ phase' = "absorb" /\ offered' = 0
  /\ UNCHANGED <<pc, left>>

\* shake128_absorb, shake256_absorb.
shake_absorb(inlen) ==
  /\ pc = "ready" /\ phase = "absorb"
  /\ offered + inlen <= MaxIn
  /\ pc' = "absorb" /\ left' = inlen /\ offered' = offered + inlen
  /\ UNCHANGED <<stateVars, phase, fed, out, asked>>

\* Mutant: a block that is just full waits for the next byte.
BlockOverfull == pos + left > Rate

\* The condition of keccak_absorb's loop.
BlockFull == pos + left >= Rate

\* keccak_absorb, a turn of its loop: a whole block, or what is missing of one.
AbsorbBlock ==
  /\ pc = "absorb" /\ BlockFull
  /\ Xor(Input(pos, Rate - pos))
  /\ fed' = fed + (Rate - pos) /\ left' = left - (Rate - pos)
  /\ perms' = perms + 1 /\ pos' = 0
  /\ UNCHANGED <<phase, pc, offered, out, asked>>

\* Mutant: a call without input does not come back.
RestWithInput ==
  /\ pc = "absorb" /\ ~BlockFull
  /\ Xor(Input(pos, left))
  /\ fed' = fed + left /\ left' = 0
  /\ pos' = pos + left
  /\ pc' = IF left > 0 THEN "ready" ELSE pc
  /\ UNCHANGED <<perms, phase, offered, out, asked>>

\* keccak_absorb, the rest.
AbsorbRest ==
  /\ pc = "absorb" /\ ~BlockFull
  /\ Xor(Input(pos, left))
  /\ fed' = fed + left /\ left' = 0
  /\ pos' = pos + left
  /\ pc' = "ready"
  /\ UNCHANGED <<perms, phase, offered, out, asked>>

\* Mutant: the last bit goes where the domain byte is.
PadShort(p) == { <<perms, p, Dom>>, <<perms, p, End>> }

\* keccak_finalize at byte p.
Pad(p) == { <<perms, p, Dom>>, <<perms, Rate - 1, End>> }

\* shake128_finalize, shake256_finalize.
shake_finalize ==
  /\ pc = "ready" /\ phase = "absorb"
  /\ Xor(Pad(pos))
  /\ pos' = Rate /\ phase' = "squeeze"
  /\ UNCHANGED <<perms, pc, left, fed, offered, out, asked>>

\* keccak_absorb_once: whatever the context was.
shake_absorb_once(inlen) ==
  /\ pc = "ready"
  /\ Fresh
  /\ pc' = "once" /\ phase' = "absorb" /\ left' = inlen /\ offered' = inlen
  /\ UNCHANGED pos

\* keccak_absorb_once, a turn of its first loop.
OnceBlock ==
  /\ pc = "once" /\ left >= Rate
  /\ Xor(Input(0, Rate))
  /\ fed' = fed + Rate /\ left' = left - Rate
  /\ perms' = perms + 1
  /\ UNCHANGED <<pos, phase, pc, offered, out, asked>>

\* keccak_absorb_once, the tail by lanes and bytes, and the padding; pos by the wrapper.
OnceRest ==
  /\ pc = "once" /\ left < Rate
  /\ Xor(Input(0, left) \cup Pad(left))
  /\ fed' = fed + left /\ left' = 0
  /\ pos' = Rate /\ phase' = "squeeze" /\ pc' = "ready"
  /\ UNCHANGED <<perms, offered, out, asked>>

-----------------------------------------------------------------------------
(* Squeezing.                                                              *)

\* shake128_squeeze, shake256_squeeze.
shake_squeeze(outlen) ==
  /\ pc = "ready" /\ phase = "squeeze"
  /\ asked + outlen <= MaxOut
  /\ pc' = "squeeze" /\ left' = outlen /\ asked' = asked + outlen
  /\ UNCHANGED <<stateVars, phase, fed, offered, out>>

\* Mutant: a whole block is copied whatever the caller has room for.
SqueezeWhole ==
  /\ pc = "squeeze" /\ left > 0
  /\ LET q == IF pos = Rate THEN perms + 1 ELSE perms
         b == IF pos = Rate THEN 0 ELSE pos
     IN  /\ Emit(q, b, Rate - b)
         /\ perms' = q /\ pos' = Rate
         /\ left' = IF left > Rate - b THEN left - (Rate - b) ELSE 0
  /\ UNCHANGED <<mix, phase, pc, fed, offered, asked>>

\* Output goes on with the first loop: whole blocks, with pos still 0.
FirstLoop == pos = 0 /\ left >= Rate

\* keccak_squeeze, a turn of a loop. The second one permutes if the block is used up,
\* then gives a whole block at once or what is left of it.
SqueezeChunk ==
  /\ pc = "squeeze" /\ left > 0
  /\ LET q == IF pos = Rate \/ FirstLoop THEN perms + 1 ELSE perms
         b == IF pos = Rate THEN 0 ELSE pos
         n == Smaller(Rate - b, left)
     IN  /\ Emit(q, b, n)
         /\ perms' = q /\ left' = left - n
         /\ pos' = IF FirstLoop THEN 0 ELSE b + n
  /\ UNCHANGED <<mix, phase, pc, fed, offered, asked>>

\* shake128_squeezeblocks, for callers at the start of a block as its comment asks.
shake_squeezeblocks(nblocks) ==
  /\ pc = "ready" /\ phase = "squeeze" /\ pos = Rate
  /\ asked + nblocks * Rate <= MaxOut
  /\ pc' = "blocks" /\ left' = nblocks /\ asked' = asked + nblocks * Rate
  /\ UNCHANGED <<stateVars, phase, fed, offered, out>>

\* Mutant: the block is output before the permutation.
SqueezeBlockEarly ==
  /\ pc = "blocks" /\ left > 0
  /\ Emit(perms, 0, Rate)
  /\ perms' = perms + 1 /\ left' = left - 1
  /\ UNCHANGED <<mix, pos, phase, pc, fed, offered, asked>>

\* keccak_squeezeblocks, a turn of its loop; pos is left alone.
SqueezeBlock ==
  /\ pc = "blocks" /\ left > 0
  /\ Emit(perms + 1, 0, Rate)
  /\ perms' = perms + 1 /\ left' = left - 1
  /\ UNCHANGED <<mix, pos, phase, pc, fed, offered, asked>>

\* A squeezing loop ends.
SqueezeDone ==
  /\ pc \in {"squeeze", "blocks"} /\ left = 0
  /\ pc' = "ready"
  /\ UNCHANGED <<stateVars, phase, left, fed, offered, out, asked>>

-----------------------------------------------------------------------------
SpongeInit ==
  /\ mix = {} /\ perms = 0 /\ pos = 0 /\ phase = "absorb" /\ pc = "ready"
  /\ left = 0 /\ fed = 0 /\ offered = 0 /\ out = <<>> /\ asked = 0

\* The loops of a call.
Turn == AbsorbBlock \/ AbsorbRest \/ OnceBlock \/ OnceRest
        \/ SqueezeChunk \/ SqueezeBlock \/ SqueezeDone

SpongeNext ==
  \/ shake_init \/ shake_finalize
  \/ \E n \in 0..MaxIn : shake_absorb(n) \/ shake_absorb_once(n)
  \/ \E n \in 0..MaxOut : shake_squeeze(n) \/ shake_squeezeblocks(n)
  \/ AbsorbBlock \/ AbsorbRest \/ OnceBlock \/ OnceRest
  \/ SqueezeChunk \/ SqueezeBlock \/ SqueezeDone

SpongeSpec == SpongeInit /\ [][SpongeNext]_spongeVars

\* The caller waits: a loop that can turn does.
SpongeFairSpec == SpongeSpec /\ WF_spongeVars(Turn)
-----------------------------------------------------------------------------
(* Properties. Message byte k belongs into byte i of block b with k = b * Rate + i. *)

\* What the first n message bytes leave in the sponge.
Consumed(n) ==
  { t \in (0..n) \X (0..(Rate - 1)) \X (0..(n - 1)) : t[1] * Rate + t[2] = t[3] }

\* b is the block that a message of n bytes ends in.
LastBlock(n, b) == b * Rate <= n /\ n < b * Rate + Rate

\* FIPS 202: the message, the domain byte behind it, and the last bit of its block.
Padded(n) ==
  Consumed(n)
  \cup { t \in (0..n) \X (0..(Rate - 1)) \X {Dom} : t[1] * Rate + t[2] = n }
  \cup { t \in (0..n) \X {Rate - 1} \X {End} : LastBlock(n, t[1]) }

SpongeTypeOK ==
  /\ perms \in Nat /\ pos \in 0..Rate
  /\ phase \in {"absorb", "squeeze"}
  /\ pc \in {"ready", "absorb", "once", "squeeze", "blocks"}
  /\ left \in Nat /\ fed \in Nat /\ offered \in 0..MaxIn
  /\ out \in Seq(Nat \X (0..(Rate - 1))) /\ asked \in 0..MaxOut

\* However the message was cut into calls, empty ones included, the permutations see the
\* padded message, byte for byte.
AbsorbsPadded == phase = "squeeze" => mix = Padded(offered)

\* However the output was cut into calls, of bytes or of blocks, it is the stream: every
\* block has a permutation of its own, and no byte is left out or given twice.
StreamInOrder == phase = "squeeze" =>
  \E b \in 0..offered :
    /\ LastBlock(offered, b)
    /\ \A j \in 1..Len(out) : (out[j][1] - b - 1) * Rate + out[j][2] = j - 1

\* A call reads and writes as many bytes as it was given room for, and never more.
ExactlyAsked ==
  /\ fed + (IF phase = "absorb" THEN left ELSE 0) = offered
  /\ Len(out) + (IF pc = "squeeze" THEN left ELSE IF pc = "blocks" THEN left * Rate ELSE 0)
       = asked

\* A squeeze starts after finalize or where another one ended, and never at position 0:
\* there keccak_squeeze would give a short output from the absorbed block, unpermuted.
NeverAtZero == phase = "squeeze" => pos > 0

\* Why: where the next byte goes while absorbing, and comes from while squeezing.
AbsorbInv == phase = "absorb" =>
  LET place == IF pc = "once" THEN 0 ELSE pos
  IN  /\ pc \in {"ready", "absorb", "once"}
      /\ place < Rate /\ fed = perms * Rate + place
      /\ mix = Consumed(fed)
      /\ out = <<>>

SqueezeInv == phase = "squeeze" =>
  /\ pc \in {"ready", "squeeze", "blocks"}
  /\ pc = "blocks" => pos = Rate
  /\ \E b \in 0..offered :
       /\ LastBlock(offered, b)
       /\ Len(out) = (perms - b - 1) * Rate + pos
       /\ \A j \in 1..Len(out) : (out[j][1] - b - 1) * Rate + out[j][2] = j - 1

SpongeInv ==
  /\ SpongeTypeOK /\ AbsorbInv /\ SqueezeInv
  /\ AbsorbsPadded /\ ExactlyAsked /\ NeverAtZero
  /\ pc = "ready" => left = 0

\* Every call returns.
Returns == pc # "ready" ~> pc = "ready"
=============================================================================
