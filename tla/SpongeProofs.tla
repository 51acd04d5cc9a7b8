---------------------------- MODULE SpongeProofs ----------------------------
(* That SpongeInv is inductive, for any rate and any sequence of calls. *)
EXTENDS Sponge, SequenceTheorems, TLAPS

-----------------------------------------------------------------------------
(* Blocks and bytes.                                                       *)

\* A later block begins where the earlier one has ended, or after it.
LEMMA BlocksApart == \A a, b \in Int : a < b => a * Rate + Rate <= b * Rate
<1> SUFFICES ASSUME NEW a \in Int, NEW b \in Int, a < b
             PROVE  a * Rate + Rate <= b * Rate
  OBVIOUS
<1> DEFINE d == b - a - 1
<1>1. d \in Nat /\ b = a + 1 + d
  OBVIOUS
<1>2. Rate \in Nat
  BY RateAssumption
<1>3. d * Rate >= 0
  BY <1>1, <1>2, SMTT(30)
<1>4. (a + 1 + d) * Rate = a * Rate + Rate + d * Rate
  BY <1>1, <1>2, SMTT(30)
<1>5. d * Rate \in Int /\ a * Rate \in Int /\ b * Rate \in Int
  BY <1>1, <1>2, SMTT(30)
<1> QED BY <1>1, <1>2, <1>3, <1>4, <1>5

\* A byte lies in one block, at one place.
LEMMA OnePlace ==
  ASSUME NEW a \in Int, NEW b \in Int, NEW i \in 0..(Rate - 1), NEW j \in 0..(Rate - 1),
         a * Rate + i = b * Rate + j
  PROVE  a = b /\ i = j
<1>1. Rate \in Nat \ {0} /\ a * Rate \in Int /\ b * Rate \in Int
  BY RateAssumption
<1>2. ~(a < b) /\ ~(b < a)
  BY <1>1, BlocksApart
<1> QED BY <1>1, <1>2

\* A block's number is at most that of its bytes.
LEMMA BlockBound == \A b \in Nat : b * Rate \in Nat /\ b <= b * Rate
<1> SUFFICES ASSUME NEW b \in Nat PROVE b * Rate \in Nat /\ b <= b * Rate
  OBVIOUS
<1>1. Rate - 1 \in Nat /\ Rate \in Nat
  BY RateAssumption
<1>2. b * (Rate - 1) >= 0 /\ b * Rate \in Nat
  BY <1>1, SMTT(30)
<1>3. b * Rate = b * (Rate - 1) + b
  BY <1>1, SMTT(30)
<1> QED BY <1>1, <1>2, <1>3, SMTT(30)

LEMMA NextBlock == \A b \in Int : (b + 1) * Rate = b * Rate + Rate /\ b * Rate \in Int
BY RateAssumption, SMTT(30)

\* Reading on from byte fed, which is byte from of the present block.
LEMMA AbsorbMore ==
  ASSUME perms \in Nat, fed \in Nat, NEW from \in 0..(Rate - 1), NEW n \in Nat,
         from + n <= Rate, fed = perms * Rate + from,
         mix = Consumed(fed)
  PROVE  Consumed(fed + n) = (mix \ Input(from, n)) \cup (Input(from, n) \ mix)
<1>1. Rate \in Nat \ {0} /\ perms * Rate \in Nat /\ perms <= perms * Rate
  BY RateAssumption, BlockBound
<1>2. ASSUME NEW t \in mix PROVE t \notin Input(from, n) /\ t \in Consumed(fed + n)
  <2>1. t[3] \in 0..(fed - 1)
    BY <1>2 DEF Consumed
  <2>2. t \notin Input(from, n)
    BY <2>1 DEF Input
  <2>3. t \in Consumed(fed + n)
    BY <1>2 DEF Consumed
  <2> QED BY <2>2, <2>3
<1>3. ASSUME NEW t \in Input(from, n) PROVE t \in Consumed(fed + n)
  <2>1. PICK j \in 0..(n - 1) : t = <<perms, from + j, fed + j>>
    BY <1>3 DEF Input
  <2> QED BY <1>1, <2>1 DEF Consumed
<1>4. ASSUME NEW t \in Consumed(fed + n), t \notin mix PROVE t \in Input(from, n)
  <2>1. /\ t \in (0..(fed + n)) \X (0..(Rate - 1)) \X (0..(fed + n - 1))
        /\ t[1] * Rate + t[2] = t[3]
    BY DEF Consumed
  <2>2. t[3] >= fed
    <3> SUFFICES ASSUME t[3] < fed PROVE FALSE
      BY <2>1
    <3>1. t[1] * Rate \in Nat /\ t[1] <= t[1] * Rate
      BY <2>1, BlockBound
    <3>2. t[1] \in 0..fed /\ t[3] \in 0..(fed - 1)
      BY <1>1, <2>1, <3>1
    <3> QED BY <1>4, <2>1, <3>2 DEF Consumed
  <2> DEFINE j == t[3] - fed
  <2>3. j \in 0..(n - 1) /\ t[3] = fed + j
    BY <2>1, <2>2
  <2>4. t[1] * Rate + t[2] = perms * Rate + (from + j) /\ from + j \in 0..(Rate - 1)
    BY <1>1, <2>1, <2>3
  <2>5. t[1] = perms /\ t[2] = from + j
    BY <2>1, <2>4, OnePlace
  <2> QED BY <2>1, <2>3, <2>5 DEF Input
<1> QED BY <1>2, <1>3, <1>4

\* Padding a message that ends at byte from of the present block.
LEMMA PadLast ==
  ASSUME perms \in Nat, NEW n \in Nat, NEW from \in 0..(Rate - 1),
         n = perms * Rate + from
  PROVE  /\ Padded(n) = Consumed(n) \cup Pad(from)
         /\ Consumed(n) \cap Pad(from) = {}
         /\ LastBlock(n, perms) /\ perms \in 0..n
<1>1. Rate \in Nat \ {0} /\ perms * Rate \in Nat /\ perms <= perms * Rate
  BY RateAssumption, BlockBound
<1>2. perms \in 0..n /\ LastBlock(n, perms)
  BY <1>1 DEF LastBlock
<1>3. { t \in (0..n) \X (0..(Rate - 1)) \X {Dom} : t[1] * Rate + t[2] = n }
        = { <<perms, from, Dom>> }
  <2>1. ASSUME NEW t \in (0..n) \X (0..(Rate - 1)) \X {Dom}, t[1] * Rate + t[2] = n
        PROVE  t = <<perms, from, Dom>>
    <3>1. t[1] = perms /\ t[2] = from
      BY <2>1, OnePlace
    <3> QED BY <2>1, <3>1
  <2> QED BY <1>2, <2>1
<1>4. { t \in (0..n) \X {Rate - 1} \X {End} : LastBlock(n, t[1]) }
        = { <<perms, Rate - 1, End>> }
  <2>1. ASSUME NEW t \in (0..n) \X {Rate - 1} \X {End}, LastBlock(n, t[1])
        PROVE  t = <<perms, Rate - 1, End>>
    <3>1. t[1] * Rate \in Int
      BY <1>1
    <3>2. ~(t[1] < perms) /\ ~(perms < t[1])
      BY <1>1, <1>2, <2>1, <3>1, BlocksApart DEF LastBlock
    <3>3. t[1] = perms
      BY <1>2, <2>1, <3>2
    <3> QED BY <2>1, <3>3
  <2> QED BY <1>2, <2>1
<1>5. Consumed(n) \cap Pad(from) = {}
  BY PaddingAssumption DEF Consumed, Pad
<1> QED BY <1>2, <1>3, <1>4, <1>5 DEF Padded, Pad

-----------------------------------------------------------------------------
(* Output.                                                                 *)

\* The bytes of one block follow those before them.
LEMMA EmitNext ==
  ASSUME out \in Seq(Nat \X (0..(Rate - 1))), NEW q \in Nat, NEW at \in 0..(Rate - 1),
         NEW n \in Nat, at + n <= Rate, NEW b \in Nat,
         Emit(q, at, n), Len(out) = (q - b - 1) * Rate + at,
         \A j \in 1..Len(out) : (out[j][1] - b - 1) * Rate + out[j][2] = j - 1
  PROVE  /\ out' \in Seq(Nat \X (0..(Rate - 1)))
         /\ Len(out') = Len(out) + n
         /\ \A j \in 1..Len(out') : (out'[j][1] - b - 1) * Rate + out'[j][2] = j - 1
<1> DEFINE more == [j \in 1..n |-> <<q, at + j - 1>>]
<1>1. Rate \in Nat \ {0}
  BY RateAssumption
<1>2. more \in Seq(Nat \X (0..(Rate - 1))) /\ Len(more) = n
  BY <1>1
<1>3. out' = out \o more
  BY DEF Emit
<1>4. out' \in Seq(Nat \X (0..(Rate - 1))) /\ Len(out') = Len(out) + n
  <2> HIDE DEF more
  <2> QED BY <1>2, <1>3, ConcatProperties
<1>5. \A j \in 1..(Len(out) + Len(more)) :
        out'[j] = IF j <= Len(out) THEN out[j] ELSE more[j - Len(out)]
  <2> HIDE DEF more
  <2> QED BY <1>2, <1>3, ConcatProperties
<1>6. ASSUME NEW j \in 1..Len(out')
      PROVE  (out'[j][1] - b - 1) * Rate + out'[j][2] = j - 1
  <2>1. j \in 1..(Len(out) + Len(more)) /\ Len(out) \in Nat
    BY <1>2, <1>4
  <2>2. CASE j <= Len(out)
    <3>1. out'[j] = out[j] /\ j \in 1..Len(out)
      <4>1. j \in 1..Len(out)
        BY <2>1, <2>2
      <4>2. out'[j] = out[j]
        <5> HIDE DEF more
        <5> QED BY <1>5, <2>1, <2>2
      <4> QED BY <4>1, <4>2
    <3> QED BY <3>1
  <2>3. CASE j > Len(out)
    <3> DEFINE k == j - Len(out)
    <3>1. k \in 1..n
      BY <1>2, <2>1, <2>3
    <3>2. out'[j] = more[k]
      <4> HIDE DEF more
      <4> QED BY <1>5, <2>1, <2>3
    <3>3. out'[j] = <<q, at + k - 1>>
      BY <3>1, <3>2
    <3>4. (q - b - 1) * Rate \in Int
      BY <1>1, NextBlock
    <3> QED BY <1>1, <3>1, <3>3, <3>4
  <2> QED BY <2>1, <2>2, <2>3
<1> QED BY <1>4, <1>6

-----------------------------------------------------------------------------
(* SpongeInv holds initially, and every step keeps it.                     *)

LEMMA SpongeStart == SpongeInit => SpongeInv
<1> SUFFICES ASSUME SpongeInit PROVE SpongeInv
  OBVIOUS
<1>1. Rate \in Nat \ {0} /\ 0 \in 0..MaxIn /\ 0 \in 0..MaxOut
  BY RateAssumption, BoundAssumption
<1>2. SpongeTypeOK
  BY <1>1 DEF SpongeInit, SpongeTypeOK
<1>3. AbsorbInv
  <2>1. Consumed(0) = {}
    BY DEF Consumed
  <2> QED BY <1>1, <2>1 DEF SpongeInit, AbsorbInv
<1> QED BY <1>2, <1>3 DEF SpongeInit, SpongeInv, SqueezeInv, AbsorbsPadded, ExactlyAsked,
                       NeverAtZero

LEMMA InitStep == SpongeInv /\ shake_init => SpongeInv'
<1> SUFFICES ASSUME SpongeInv, shake_init PROVE SpongeInv'
  OBVIOUS
<1> USE DEF shake_init, Fresh
<1>1. Rate \in Nat \ {0} /\ 0 \in 0..MaxIn /\ 0 \in 0..MaxOut
  BY RateAssumption, BoundAssumption
<1>2. SpongeTypeOK' /\ left' = 0 /\ pc' = "ready"
  BY <1>1 DEF SpongeInv, SpongeTypeOK
<1>3. AbsorbInv'
  <2>1. Consumed(0) = {}
    BY DEF Consumed
  <2>2. fed' = 0 /\ mix' = Consumed(fed')
    BY <2>1
  <2> QED BY <1>1, <1>2, <2>2 DEF AbsorbInv
<1> QED BY <1>2, <1>3 DEF SpongeInv, SqueezeInv, AbsorbsPadded, ExactlyAsked, NeverAtZero

LEMMA AbsorbStep ==
  ASSUME SpongeInv, NEW n \in Nat, shake_absorb(n) PROVE SpongeInv'
<1> USE DEF shake_absorb, stateVars
<1>1. SpongeTypeOK' /\ offered' = offered + n /\ left' = n
  BY BoundAssumption DEF SpongeInv, SpongeTypeOK
<1>2. AbsorbInv'
  <2>1. Consumed(fed)' = Consumed(fed)
    BY DEF Consumed
  <2> QED BY <2>1 DEF SpongeInv, AbsorbInv
<1>3. ExactlyAsked'
  BY <1>1 DEF SpongeInv, SpongeTypeOK, ExactlyAsked
<1> QED BY <1>1, <1>2, <1>3 DEF SpongeInv, SqueezeInv, AbsorbsPadded, NeverAtZero

LEMMA AbsorbBlockStep == SpongeInv /\ AbsorbBlock => SpongeInv'
<1> SUFFICES ASSUME SpongeInv, AbsorbBlock PROVE SpongeInv'
  OBVIOUS
<1> USE DEF AbsorbBlock, BlockFull
<1> DEFINE n == Rate - pos
<1>1. Rate \in Nat \ {0} /\ perms * Rate \in Nat /\ (perms + 1) * Rate = perms * Rate + Rate
  BY RateAssumption, BlockBound, NextBlock DEF SpongeInv, SpongeTypeOK
<1>2. phase = "absorb" /\ pos \in 0..(Rate - 1) /\ fed = perms * Rate + pos
      /\ mix = Consumed(fed) /\ out = <<>>
  BY <1>1 DEF SpongeInv, SpongeTypeOK, AbsorbInv, SqueezeInv
<1>3. n \in Nat /\ fed' = fed + n /\ left' = left - n /\ left >= n /\ left \in Nat
      /\ fed \in Nat /\ perms \in Nat
  BY <1>1, <1>2 DEF SpongeInv, SpongeTypeOK
<1>4. SpongeTypeOK'
  BY <1>1, <1>3 DEF SpongeInv, SpongeTypeOK
<1>5. AbsorbInv'
  <2>1. mix' = Consumed(fed + n)
    BY <1>1, <1>2, <1>3, AbsorbMore DEF Xor
  <2>2. mix' = Consumed(fed')
    BY <1>3, <2>1
  <2>3. fed' = perms' * Rate + pos'
    BY <1>1, <1>2, <1>3
  <2> QED BY <1>1, <1>2, <2>2, <2>3 DEF AbsorbInv
<1>6. ExactlyAsked'
  BY <1>2, <1>3 DEF SpongeInv, ExactlyAsked, SpongeTypeOK
<1> QED BY <1>2, <1>4, <1>5, <1>6 DEF SpongeInv, SqueezeInv, AbsorbsPadded, NeverAtZero

LEMMA AbsorbRestStep == SpongeInv /\ AbsorbRest => SpongeInv'
<1> SUFFICES ASSUME SpongeInv, AbsorbRest PROVE SpongeInv'
  OBVIOUS
<1> USE DEF AbsorbRest, BlockFull
<1>1. Rate \in Nat \ {0} /\ perms * Rate \in Nat
  BY RateAssumption, BlockBound DEF SpongeInv, SpongeTypeOK
<1>2. phase = "absorb" /\ pos \in 0..(Rate - 1) /\ fed = perms * Rate + pos
      /\ mix = Consumed(fed) /\ out = <<>>
  BY <1>1 DEF SpongeInv, SpongeTypeOK, AbsorbInv, SqueezeInv
<1>3. left \in Nat /\ pos + left < Rate /\ fed' = fed + left /\ fed \in Nat /\ perms \in Nat
  BY <1>1 DEF SpongeInv, SpongeTypeOK
<1>4. SpongeTypeOK'
  BY <1>1, <1>2, <1>3 DEF SpongeInv, SpongeTypeOK
<1>5. AbsorbInv'
  <2>1. mix' = Consumed(fed + left)
    BY <1>1, <1>2, <1>3, AbsorbMore DEF Xor
  <2>2. mix' = Consumed(fed')
    BY <1>3, <2>1
  <2>3. fed' = perms' * Rate + pos'
    BY <1>1, <1>2, <1>3
  <2> QED BY <1>1, <1>2, <1>3, <2>2, <2>3 DEF AbsorbInv
<1>6. ExactlyAsked'
  BY <1>2, <1>3 DEF SpongeInv, ExactlyAsked, SpongeTypeOK
<1> QED BY <1>2, <1>4, <1>5, <1>6 DEF SpongeInv, SqueezeInv, AbsorbsPadded, NeverAtZero

LEMMA FinalizeStep == SpongeInv /\ shake_finalize => SpongeInv'
<1> SUFFICES ASSUME SpongeInv, shake_finalize PROVE SpongeInv'
  OBVIOUS
<1> USE DEF shake_finalize
<1>1. Rate \in Nat \ {0} /\ perms * Rate \in Nat
  BY RateAssumption, BlockBound DEF SpongeInv, SpongeTypeOK
<1>2. /\ pos \in 0..(Rate - 1) /\ fed = perms * Rate + pos /\ mix = Consumed(fed)
      /\ out = <<>> /\ left = 0 /\ perms \in Nat /\ fed \in Nat
  BY <1>1 DEF SpongeInv, SpongeTypeOK, AbsorbInv
<1>3. fed = offered /\ offered' = offered
  BY <1>2 DEF SpongeInv, ExactlyAsked
<1>4. /\ Padded(offered) = Consumed(offered) \cup Pad(pos)
      /\ Consumed(offered) \cap Pad(pos) = {}
      /\ LastBlock(offered, perms) /\ perms \in 0..offered
  BY <1>1, <1>2, <1>3, PadLast
<1>5. SpongeTypeOK'
  BY <1>1 DEF SpongeInv, SpongeTypeOK
<1>6. mix' = Padded(offered)
  BY <1>2, <1>3, <1>4 DEF Xor
<1>7. AbsorbsPadded'
  BY <1>3, <1>6 DEF AbsorbsPadded, Padded, Consumed, LastBlock
<1>8. SqueezeInv'
  <2>1. /\ LastBlock(offered, perms)' /\ (perms \in 0..offered)'
    BY <1>3, <1>4 DEF LastBlock
  <2>2. Len(out') = (perms' - perms' - 1) * Rate + pos'
    <3>1. perms' - perms' - 1 = -1
      BY <1>2
    <3>2. (-1) * Rate = -Rate
      BY <1>1, NextBlock
    <3> QED BY <1>1, <1>2, <3>1, <3>2
  <2>3. \A j \in 1..Len(out') : (out'[j][1] - perms' - 1) * Rate + out'[j][2] = j - 1
    BY <1>2
  <2> QED BY <2>1, <2>2, <2>3 DEF SqueezeInv, LastBlock
<1>9. ExactlyAsked' /\ NeverAtZero'
  BY <1>1, <1>2 DEF SpongeInv, ExactlyAsked, NeverAtZero
<1> QED BY <1>2, <1>5, <1>7, <1>8, <1>9 DEF SpongeInv, AbsorbInv

LEMMA OnceStep ==
  ASSUME SpongeInv, NEW n \in 0..MaxIn, shake_absorb_once(n) PROVE SpongeInv'
<1> USE DEF shake_absorb_once, Fresh
<1>1. Rate \in Nat \ {0} /\ 0 \in 0..MaxOut
  BY RateAssumption, BoundAssumption
<1>2. SpongeTypeOK'
  BY <1>1 DEF SpongeInv, SpongeTypeOK
<1>3. AbsorbInv'
  <2>1. Consumed(0) = {}
    BY DEF Consumed
  <2>2. fed' = 0 /\ mix' = Consumed(fed')
    BY <2>1
  <2> QED BY <1>1, <2>2 DEF AbsorbInv
<1>4. ExactlyAsked'
  BY DEF ExactlyAsked
<1> QED BY <1>2, <1>3, <1>4 DEF SpongeInv, SqueezeInv, AbsorbsPadded, NeverAtZero

LEMMA OnceBlockStep == SpongeInv /\ OnceBlock => SpongeInv'
<1> SUFFICES ASSUME SpongeInv, OnceBlock PROVE SpongeInv'
  OBVIOUS
<1> USE DEF OnceBlock
<1>1. Rate \in Nat \ {0} /\ perms * Rate \in Nat /\ (perms + 1) * Rate = perms * Rate + Rate
  BY RateAssumption, BlockBound, NextBlock DEF SpongeInv, SpongeTypeOK
<1>2. phase = "absorb" /\ fed = perms * Rate + 0 /\ mix = Consumed(fed) /\ out = <<>>
  BY <1>1 DEF SpongeInv, SpongeTypeOK, AbsorbInv, SqueezeInv
<1>3. fed' = fed + Rate /\ left' = left - Rate /\ left >= Rate /\ left \in Nat
      /\ fed \in Nat /\ perms \in Nat
  BY DEF SpongeInv, SpongeTypeOK
<1>4. SpongeTypeOK'
  BY <1>1, <1>3 DEF SpongeInv, SpongeTypeOK
<1>5. AbsorbInv'
  <2>1. mix' = Consumed(fed + Rate)
    BY <1>1, <1>2, <1>3, AbsorbMore DEF Xor
  <2>2. mix' = Consumed(fed')
    BY <1>3, <2>1
  <2> QED BY <1>1, <1>2, <1>3, <2>2 DEF AbsorbInv
<1>6. ExactlyAsked'
  BY <1>1, <1>2, <1>3 DEF SpongeInv, ExactlyAsked, SpongeTypeOK
<1> QED BY <1>2, <1>4, <1>5, <1>6 DEF SpongeInv, SqueezeInv, AbsorbsPadded, NeverAtZero

LEMMA OnceRestStep == SpongeInv /\ OnceRest => SpongeInv'
<1> SUFFICES ASSUME SpongeInv, OnceRest PROVE SpongeInv'
  OBVIOUS
<1> USE DEF OnceRest
<1>1. Rate \in Nat \ {0} /\ perms * Rate \in Nat
  BY RateAssumption, BlockBound DEF SpongeInv, SpongeTypeOK
<1>2. phase = "absorb" /\ fed = perms * Rate + 0 /\ mix = Consumed(fed) /\ out = <<>>
  BY <1>1 DEF SpongeInv, SpongeTypeOK, AbsorbInv, SqueezeInv
<1>3. left \in 0..(Rate - 1) /\ fed' = fed + left /\ fed \in Nat /\ perms \in Nat
  BY <1>1 DEF SpongeInv, SpongeTypeOK
<1>4. offered = fed + left /\ offered \in Nat /\ offered' = offered
      /\ offered = perms * Rate + left
  BY <1>1, <1>2, <1>3 DEF SpongeInv, ExactlyAsked
<1>5. /\ Padded(offered) = Consumed(offered) \cup Pad(left)
      /\ Consumed(offered) \cap Pad(left) = {}
      /\ LastBlock(offered, perms) /\ perms \in 0..offered
  BY <1>1, <1>3, <1>4, PadLast
<1>6. Consumed(offered) = (mix \ Input(0, left)) \cup (Input(0, left) \ mix)
  BY <1>1, <1>2, <1>3, <1>4, AbsorbMore
<1>7. mix \cap Pad(left) = {} /\ Input(0, left) \cap Pad(left) = {}
  BY <1>2, <1>3, PaddingAssumption DEF Consumed, Input, Pad
<1>8. mix' = Padded(offered)
  BY <1>5, <1>6, <1>7 DEF Xor
<1>9. SpongeTypeOK'
  BY <1>1, <1>3 DEF SpongeInv, SpongeTypeOK
<1>10. AbsorbsPadded'
  BY <1>4, <1>8 DEF AbsorbsPadded, Padded, Consumed, LastBlock
<1>11. SqueezeInv'
  <2>1. /\ LastBlock(offered, perms)' /\ (perms \in 0..offered)'
    BY <1>4, <1>5 DEF LastBlock
  <2>2. Len(out') = (perms' - perms' - 1) * Rate + pos'
    <3>1. perms' - perms' - 1 = -1
      BY <1>3
    <3>2. (-1) * Rate = -Rate
      BY <1>1, NextBlock
    <3> QED BY <1>1, <1>2, <3>1, <3>2
  <2>3. \A j \in 1..Len(out') : (out'[j][1] - perms' - 1) * Rate + out'[j][2] = j - 1
    BY <1>2
  <2> QED BY <2>1, <2>2, <2>3 DEF SqueezeInv, LastBlock
<1>12. ExactlyAsked' /\ NeverAtZero'
  BY <1>1, <1>3, <1>4 DEF SpongeInv, ExactlyAsked, NeverAtZero
<1> QED BY <1>9, <1>10, <1>11, <1>12 DEF SpongeInv, AbsorbInv

LEMMA SqueezeStep ==
  ASSUME SpongeInv, NEW n \in Nat, shake_squeeze(n) PROVE SpongeInv'
<1> USE DEF shake_squeeze, stateVars
<1>1. SpongeTypeOK'
  BY BoundAssumption DEF SpongeInv, SpongeTypeOK
<1>2. ExactlyAsked'
  <2>1. Len(out) \in Nat /\ asked \in Nat /\ Len(out) = asked
    BY DEF SpongeInv, SpongeTypeOK, ExactlyAsked
  <2> QED BY <2>1 DEF SpongeInv, ExactlyAsked
<1>3. AbsorbsPadded' /\ NeverAtZero'
  BY DEF SpongeInv, AbsorbsPadded, NeverAtZero, Padded, Consumed, LastBlock
<1>4. SqueezeInv'
  BY DEF SpongeInv, SqueezeInv, LastBlock
<1> QED BY <1>1, <1>2, <1>3, <1>4 DEF SpongeInv, AbsorbInv

LEMMA SqueezeChunkStep == SpongeInv /\ SqueezeChunk => SpongeInv'
<1> SUFFICES ASSUME SpongeInv, SqueezeChunk PROVE SpongeInv'
  OBVIOUS
<1> DEFINE q == IF pos = Rate THEN perms + 1 ELSE perms
           b == IF pos = Rate THEN 0 ELSE pos
           n == Smaller(Rate - b, left)
<1>1. Rate \in Nat \ {0} /\ perms \in Nat /\ pos \in 1..Rate /\ left \in Nat /\ left > 0
      /\ phase = "squeeze" /\ pc = "squeeze"
      /\ out \in Seq(Nat \X (0..(Rate - 1)))
  BY RateAssumption
     DEF SqueezeChunk, SpongeInv, SpongeTypeOK, AbsorbInv, NeverAtZero
<1>2. Emit(q, b, n) /\ perms' = q /\ left' = left - n /\ pos' = b + n
      /\ UNCHANGED <<mix, phase, pc, fed, offered, asked>>
  BY <1>1 DEF SqueezeChunk, FirstLoop
<1>3. q \in Nat /\ b \in 0..(Rate - 1) /\ n \in 1..left /\ b + n <= Rate
  BY <1>1 DEF Smaller
<1>4. PICK k \in 0..offered :
        /\ LastBlock(offered, k)
        /\ Len(out) = (perms - k - 1) * Rate + pos
        /\ \A j \in 1..Len(out) : (out[j][1] - k - 1) * Rate + out[j][2] = j - 1
  BY <1>1 DEF SpongeInv, SqueezeInv
<1>5. k \in Nat /\ (perms - k - 1) * Rate \in Int
      /\ (perms - k - 1 + 1) * Rate = (perms - k - 1) * Rate + Rate
  BY <1>1, <1>4, NextBlock DEF SpongeInv, SpongeTypeOK
<1>6. Len(out) = (q - k - 1) * Rate + b
  <2>1. CASE pos = Rate
    <3>1. q - k - 1 = perms - k - 1 + 1
      BY <1>1, <1>5, <2>1
    <3>2. (q - k - 1) * Rate = (perms - k - 1) * Rate + Rate
      BY <1>5, <3>1
    <3> QED BY <1>1, <1>4, <1>5, <2>1, <3>2
  <2>2. CASE pos # Rate
    BY <1>4, <2>2
  <2> QED BY <2>1, <2>2
<1>7. /\ out' \in Seq(Nat \X (0..(Rate - 1)))
      /\ Len(out') = Len(out) + n
      /\ \A j \in 1..Len(out') : (out'[j][1] - k - 1) * Rate + out'[j][2] = j - 1
  <2> HIDE DEF q, b, n
  <2>1. n \in Nat
    BY <1>1, <1>3
  <2>2. Emit(q, b, n)
    BY <1>2
  <2>3. out \in Seq(Nat \X (0..(Rate - 1))) /\ k \in Nat
    BY <1>1, <1>5
  <2>4. q \in Nat /\ b \in 0..(Rate - 1) /\ b + n <= Rate
    BY <1>3
  <2>5. \A j \in 1..Len(out) : (out[j][1] - k - 1) * Rate + out[j][2] = j - 1
    BY <1>4
  <2> QED BY <1>6, <2>1, <2>2, <2>3, <2>4, <2>5, EmitNext
<1>8. SpongeTypeOK'
  <2> HIDE DEF q, b, n
  <2>1. perms' \in Nat /\ pos' \in 0..Rate /\ left' \in Nat
    BY <1>1, <1>2, <1>3
  <2> QED BY <1>2, <1>7, <2>1 DEF SpongeInv, SpongeTypeOK
<1>9. SqueezeInv'
  <2>1. Len(out') = (perms' - k - 1) * Rate + pos'
    <3> HIDE DEF q, b, n
    <3>1. (q - k - 1) * Rate \in Int
      BY <1>3, <1>5, NextBlock
    <3> QED BY <1>2, <1>3, <1>6, <1>7, <3>1
  <2> HIDE DEF q, b, n
  <2> QED BY <1>1, <1>2, <1>4, <1>7, <2>1 DEF SqueezeInv, LastBlock
<1>10. ExactlyAsked' /\ NeverAtZero'
  <2> HIDE DEF q, b, n
  <2>1. Len(out) \in Nat /\ Len(out) + left = asked /\ fed + 0 = offered
    BY <1>1 DEF SpongeInv, ExactlyAsked
  <2> QED BY <1>1, <1>2, <1>3, <1>7, <2>1 DEF ExactlyAsked, NeverAtZero
<1>11. AbsorbsPadded'
  BY <1>2 DEF SpongeInv, AbsorbsPadded, Padded, Consumed, LastBlock
<1> QED BY <1>1, <1>2, <1>8, <1>9, <1>10, <1>11 DEF SpongeInv, AbsorbInv

LEMMA BlocksStep ==
  ASSUME SpongeInv, NEW n \in Nat, shake_squeezeblocks(n) PROVE SpongeInv'
<1> USE DEF shake_squeezeblocks, stateVars
<1>1. n * Rate \in Nat
  BY BlockBound
<1>2. SpongeTypeOK'
  BY <1>1, BoundAssumption DEF SpongeInv, SpongeTypeOK
<1>3. ExactlyAsked'
  <2>1. Len(out) \in Nat /\ asked \in Nat /\ Len(out) = asked
    BY DEF SpongeInv, SpongeTypeOK, ExactlyAsked
  <2> QED BY <1>1, <2>1 DEF SpongeInv, ExactlyAsked
<1>4. AbsorbsPadded' /\ NeverAtZero'
  BY DEF SpongeInv, AbsorbsPadded, NeverAtZero, Padded, Consumed, LastBlock
<1>5. SqueezeInv'
  BY DEF SpongeInv, SqueezeInv, LastBlock
<1> QED BY <1>2, <1>3, <1>4, <1>5 DEF SpongeInv, AbsorbInv

LEMMA SqueezeBlockStep == SpongeInv /\ SqueezeBlock => SpongeInv'
<1> SUFFICES ASSUME SpongeInv, SqueezeBlock PROVE SpongeInv'
  OBVIOUS
<1> USE DEF SqueezeBlock
<1>1. Rate \in Nat \ {0} /\ perms \in Nat /\ left \in Nat \ {0}
      /\ phase = "squeeze" /\ pos = Rate
      /\ out \in Seq(Nat \X (0..(Rate - 1)))
  BY RateAssumption DEF SpongeInv, SpongeTypeOK, AbsorbInv, SqueezeInv
<1>2. PICK k \in 0..offered :
        /\ LastBlock(offered, k)
        /\ Len(out) = (perms - k - 1) * Rate + pos
        /\ \A j \in 1..Len(out) : (out[j][1] - k - 1) * Rate + out[j][2] = j - 1
  BY <1>1 DEF SpongeInv, SqueezeInv
<1>3. k \in Nat /\ (perms - k - 1) * Rate \in Int
      /\ (perms - k - 1 + 1) * Rate = (perms - k - 1) * Rate + Rate
      /\ perms + 1 - k - 1 = perms - k - 1 + 1
  BY <1>1, <1>2, NextBlock DEF SpongeInv, SpongeTypeOK
<1>4. Len(out) = (perms + 1 - k - 1) * Rate + 0
  BY <1>1, <1>2, <1>3
<1>5. /\ out' \in Seq(Nat \X (0..(Rate - 1)))
      /\ Len(out') = Len(out) + Rate
      /\ \A j \in 1..Len(out') : (out'[j][1] - k - 1) * Rate + out'[j][2] = j - 1
  BY <1>1, <1>2, <1>3, <1>4, EmitNext
<1>6. SpongeTypeOK'
  BY <1>1, <1>5 DEF SpongeInv, SpongeTypeOK
<1>7. SqueezeInv'
  <2>1. Len(out') = (perms' - k - 1) * Rate + pos'
    <3>1. perms' - k - 1 = perms + 1 - k - 1 /\ (perms + 1 - k - 1) * Rate \in Int
      BY <1>1, <1>3
    <3>2. Len(out') = (perms + 1 - k - 1) * Rate + Rate
      BY <1>1, <1>4, <1>5, <3>1
    <3> QED BY <1>1, <3>1, <3>2
  <2> QED BY <1>1, <1>2, <1>5, <2>1 DEF SqueezeInv, LastBlock
<1>8. ExactlyAsked'
  <2>1. (left - 1 + 1) * Rate = (left - 1) * Rate + Rate /\ (left - 1) * Rate \in Int
    BY <1>1, NextBlock
  <2>2. left - 1 + 1 = left /\ left' = left - 1 /\ pc' = "blocks" /\ pc = "blocks"
    BY <1>1
  <2>3. Len(out) \in Nat /\ Len(out) + left * Rate = asked /\ fed + 0 = offered
    BY <1>1, <2>2 DEF SpongeInv, ExactlyAsked
  <2>4. left * Rate = left' * Rate + Rate /\ left' * Rate \in Int
    BY <2>1, <2>2
  <2> QED BY <1>1, <1>5, <2>2, <2>3, <2>4 DEF ExactlyAsked
<1>9. AbsorbsPadded' /\ NeverAtZero'
  BY DEF SpongeInv, AbsorbsPadded, NeverAtZero, Padded, Consumed, LastBlock
<1> QED BY <1>1, <1>6, <1>7, <1>8, <1>9 DEF SpongeInv, AbsorbInv

LEMMA SqueezeDoneStep == SpongeInv /\ SqueezeDone => SpongeInv'
<1> SUFFICES ASSUME SpongeInv, SqueezeDone PROVE SpongeInv'
  OBVIOUS
<1> USE DEF SqueezeDone, stateVars
<1>1. phase = "squeeze" /\ left * Rate = 0
  <2>1. 0 * Rate = 0
    BY RateAssumption
  <2> QED BY <2>1 DEF SpongeInv, SpongeTypeOK, AbsorbInv
<1>2. SpongeTypeOK' /\ NeverAtZero'
  BY DEF SpongeInv, SpongeTypeOK, NeverAtZero
<1>3. ExactlyAsked'
  <2>1. Len(out) \in Nat
    BY DEF SpongeInv, SpongeTypeOK
  <2> QED BY <1>1, <2>1 DEF SpongeInv, ExactlyAsked
<1>4. AbsorbsPadded'
  BY DEF SpongeInv, AbsorbsPadded, Padded, Consumed, LastBlock
<1>5. SqueezeInv'
  BY DEF SpongeInv, SqueezeInv, LastBlock
<1> QED BY <1>1, <1>2, <1>3, <1>4, <1>5 DEF SpongeInv, AbsorbInv

LEMMA SpongeUnchanged == SpongeInv /\ UNCHANGED spongeVars => SpongeInv'
BY DEF spongeVars, stateVars, SpongeInv, SpongeTypeOK, AbsorbInv, SqueezeInv, AbsorbsPadded,
       ExactlyAsked, NeverAtZero, Padded, Consumed, LastBlock

-----------------------------------------------------------------------------
(* Theorems.                                                               *)

\* fips202_kyber.c: SpongeInv holds in every state, whatever the rate and however the
\* message and the output are cut into calls.
THEOREM SpongeInvariant == SpongeSpec => []SpongeInv
<1>1. SpongeInit => SpongeInv
  BY SpongeStart
<1>2. SpongeInv /\ [SpongeNext]_spongeVars => SpongeInv'
  <2> SUFFICES ASSUME SpongeInv, [SpongeNext]_spongeVars PROVE SpongeInv'
    OBVIOUS
  <2>1. CASE shake_init
    BY <2>1, InitStep
  <2>2. CASE shake_finalize
    BY <2>2, FinalizeStep
  <2>3. ASSUME NEW n \in 0..MaxIn, shake_absorb(n) \/ shake_absorb_once(n) PROVE SpongeInv'
    BY <2>3, BoundAssumption, AbsorbStep, OnceStep
  <2>4. ASSUME NEW n \in 0..MaxOut, shake_squeeze(n) \/ shake_squeezeblocks(n) PROVE SpongeInv'
    BY <2>4, BoundAssumption, SqueezeStep, BlocksStep
  <2>5. CASE AbsorbBlock \/ AbsorbRest \/ OnceBlock \/ OnceRest
    BY <2>5, AbsorbBlockStep, AbsorbRestStep, OnceBlockStep, OnceRestStep
  <2>6. CASE SqueezeChunk \/ SqueezeBlock \/ SqueezeDone
    BY <2>6, SqueezeChunkStep, SqueezeBlockStep, SqueezeDoneStep
  <2>7. CASE UNCHANGED spongeVars
    BY <2>7, SpongeUnchanged
  <2> QED BY <2>1, <2>2, <2>3, <2>4, <2>5, <2>6, <2>7 DEF SpongeNext
<1> QED BY <1>1, <1>2, PTL DEF SpongeSpec

\* keccak_absorb, keccak_absorb_once and keccak_finalize: the permutations see the padded
\* message, byte for byte.
THEOREM SpAbsorbsPadded == SpongeSpec => []AbsorbsPadded
<1>1. SpongeInv => AbsorbsPadded
  BY DEF SpongeInv
<1> QED BY <1>1, SpongeInvariant, PTL

\* keccak_squeeze and keccak_squeezeblocks: the output is one stream.
THEOREM SpStreamInOrder == SpongeSpec => []StreamInOrder
<1>1. SpongeInv => StreamInOrder
  BY DEF SpongeInv, SqueezeInv, StreamInOrder
<1> QED BY <1>1, SpongeInvariant, PTL

\* All of them: no call reads or writes more or less than it was told.
THEOREM SpExactlyAsked == SpongeSpec => []ExactlyAsked
<1>1. SpongeInv => ExactlyAsked
  BY DEF SpongeInv
<1> QED BY <1>1, SpongeInvariant, PTL

\* keccak_squeeze: its first loop, at position 0, is never entered.
THEOREM SpNeverAtZero == SpongeSpec => []NeverAtZero
<1>1. SpongeInv => NeverAtZero
  BY DEF SpongeInv
<1> QED BY <1>1, SpongeInvariant, PTL
=============================================================================
