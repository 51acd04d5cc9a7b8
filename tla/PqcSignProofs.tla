--------------------------- MODULE PqcSignProofs ---------------------------
(* Theorems about PqcSign: the key files and the files that cmd_sign writes. *)
EXTENDS PqcSign, SequenceTheorems, TLAPS

-----------------------------------------------------------------------------
(* Sequences.                                                              *)

\* A sequence over any set is a sequence over what occurs in it.
LEMMA SeqIntro ==
  ASSUME NEW S, NEW d \in Seq(S)
  PROVE  IsSeq(d) /\ Len(d) \in Nat /\ DOMAIN d = 1..Len(d)
<1>1. Len(d) \in Nat /\ d \in [1..Len(d) -> S] /\ DOMAIN d = 1..Len(d)
  BY LenProperties
<1>2. d \in [1..Len(d) -> Units(d)]
  BY <1>1 DEF Units
<1>3. d \in Seq(Units(d))
  BY <1>1, <1>2, SeqDef
<1> QED
  BY <1>1, <1>3 DEF IsSeq

\* A slice of a file is a file (the code's data[a:b]).
LEMMA SliceIsSeq ==
  ASSUME NEW d, IsSeq(d), NEW m \in Nat \ {0}, NEW n \in Int, n <= Len(d)
  PROVE  /\ IsSeq(SubSeq(d, m, n))
         /\ Len(SubSeq(d, m, n)) = IF m <= n THEN n - m + 1 ELSE 0
<1> DEFINE S == Units(d)
<1>1. d \in Seq(S)
  BY DEF IsSeq
<1>2. Len(d) \in Nat /\ DOMAIN d = 1..Len(d)
  BY <1>1, LenProperties
<1>3. \A i \in m..n : d[i] \in S
  BY <1>2 DEF Units
<1>4. /\ SubSeq(d, m, n) \in Seq(S)
      /\ Len(SubSeq(d, m, n)) = IF m <= n THEN n - m + 1 ELSE 0
  <2> HIDE DEF S
  <2> QED BY <1>3, SubSeqProperties
<1> QED
  BY <1>4, SeqIntro

\* Two files one after the other are a file.
LEMMA JoinedIsSeq ==
  ASSUME NEW d, NEW e, IsSeq(d), IsSeq(e)
  PROVE  IsSeq(d \o e) /\ Len(d \o e) = Len(d) + Len(e)
<1> DEFINE S == Units(d) \cup Units(e)
<1>1. d \in Seq(S) /\ e \in Seq(S)
  BY SeqMonotonic DEF IsSeq
<1> HIDE DEF S
<1>2. d \o e \in Seq(S) /\ Len(d \o e) = Len(d) + Len(e)
  BY <1>1, ConcatProperties
<1> QED
  BY <1>2, SeqIntro

\* Two files one after the other, and how to get them back.
LEMMA Joined ==
  ASSUME NEW d, NEW e, IsSeq(d), IsSeq(e), Len(d) > 0, Len(e) > 0
  PROVE  /\ IsSeq(d \o e)
         /\ Len(d \o e) = Len(d) + Len(e)
         /\ FirstN(d \o e, Len(d)) = d
         /\ LastN(d \o e, Len(e)) = e
<1> DEFINE S == Units(d) \cup Units(e)
<1>1. d \in Seq(S) /\ e \in Seq(S)
  BY SeqMonotonic DEF IsSeq
<1> HIDE DEF S
<1>2. Len(d) \in Nat /\ Len(e) \in Nat
  BY <1>1, LenProperties
<1>3. d \o e \in Seq(S) /\ Len(d \o e) = Len(d) + Len(e)
  BY <1>1, ConcatProperties
<1>4. IsSeq(d \o e)
  BY <1>3, SeqIntro
<1>5. FirstN(d \o e, Len(d)) = d
  <2>1. SubSeq(d \o e, 1, Len(d)) = SubSeq(d, 1, Len(d))
    <3>1. 1 \in 1..Len(d) /\ Len(d) \in 1..Len(d)
      BY <1>2
    <3> QED BY <1>1, <3>1, SubSeqOfConcat1
  <2> QED BY <2>1, <1>1, SubSeqFull DEF FirstN
<1>6. LastN(d \o e, Len(e)) = e
  <2> DEFINE m == Len(d) + 1
             n == Len(d) + Len(e)
  <2>1. m \in Len(d)+1..Len(d)+Len(e) /\ n \in Len(d)+1..Len(d)+Len(e)
    BY <1>2
  <2>2. m - Len(d) = 1 /\ n - Len(d) = Len(e) /\ n - Len(e) + 1 = m
    BY <1>2
  <2> HIDE DEF m, n
  <2>3. SubSeq(d \o e, m, n) = SubSeq(e, 1, Len(e))
    BY <1>1, <2>1, <2>2, SubSeqOfConcat2
  <2>4. Len(d \o e) = n
    BY <1>3 DEF n
  <2> QED BY <2>2, <2>3, <2>4, <1>1, SubSeqFull DEF LastN
<1> QED
  BY <1>3, <1>4, <1>5, <1>6

\* Files that agree in the first n units, and the four units behind the first n.
LEMMA SameFirst ==
  ASSUME NEW d, NEW e, IsSeq(d), IsSeq(e), NEW n \in Nat, n <= Len(d), n <= Len(e),
         \A i \in 1..n : d[i] = e[i]
  PROVE  FirstN(d, n) = FirstN(e, n)
<1> DEFINE S == Units(d) \cup Units(e)
<1>1. d \in Seq(S) /\ e \in Seq(S)
  BY SeqMonotonic DEF IsSeq
<1> HIDE DEF S
<1>2. DOMAIN d = 1..Len(d) /\ DOMAIN e = 1..Len(e) /\ Len(d) \in Nat /\ Len(e) \in Nat
  BY <1>1, LenProperties
<1>3. \A i \in 1..n : d[i] \in S /\ e[i] \in S
  BY <1>1, <1>2
<1>4. /\ FirstN(d, n) \in Seq(S) /\ FirstN(e, n) \in Seq(S)
      /\ Len(FirstN(d, n)) = (IF 1 <= n THEN n - 1 + 1 ELSE 0)
      /\ Len(FirstN(e, n)) = (IF 1 <= n THEN n - 1 + 1 ELSE 0)
      /\ \A i \in 1..(n - 1 + 1) : FirstN(d, n)[i] = d[1 + i - 1]
      /\ \A i \in 1..(n - 1 + 1) : FirstN(e, n)[i] = e[1 + i - 1]
  BY <1>3, SubSeqProperties DEF FirstN
<1>5. /\ Len(FirstN(d, n)) = n /\ Len(FirstN(e, n)) = n
      /\ \A i \in 1..n : FirstN(d, n)[i] = FirstN(e, n)[i]
  BY <1>4
<1>6. FirstN(d, n) \in [1..n -> S] /\ FirstN(e, n) \in [1..n -> S]
  BY <1>4, <1>5, LenProperties
<1> QED
  BY <1>5, <1>6

LEMMA Window ==
  ASSUME NEW d, IsSeq(d), NEW n \in Nat, n + 4 <= Len(d)
  PROVE  /\ \A i \in 1..4 : SubSeq(d, n + 1, n + 4)[i] = d[n + i]
         /\ Len(d) = n + 4 => LastN(d, 4) = SubSeq(d, n + 1, n + 4)
<1>1. Len(d) \in Nat /\ DOMAIN d = 1..Len(d)
  BY LenProperties DEF IsSeq
<1>2. \A i \in (n + 1)..(n + 4) : d[i] \in Units(d)
  BY <1>1 DEF Units
<1>3. \A i \in 1..(n + 4 - (n + 1) + 1) : SubSeq(d, n + 1, n + 4)[i] = d[n + 1 + i - 1]
  BY <1>1, <1>2, SubSeqProperties
<1>4. Len(d) = n + 4 => Len(d) - 4 + 1 = n + 1
  OBVIOUS
<1> QED
  BY <1>3, <1>4 DEF LastN

\* A file whose last unit is another one.
Changed(d, n, u) == [d EXCEPT ![n] = u]

LEMMA LastChanged ==
  ASSUME NEW d, IsSeq(d), NEW n, n = Len(d), n > 0, NEW u,
         NEW e, e = Changed(d, n, u)
  PROVE  /\ IsSeq(e) /\ Len(e) = n /\ e[n] = u
         /\ \A i \in 1..(n - 1) : e[i] = d[i]
         /\ Units(e) \subseteq Units(d) \cup {u}
<1> DEFINE S == Units(d) \cup {u}
<1>1. d \in Seq(S)
  BY SeqMonotonic DEF IsSeq
<1>2. n \in Nat /\ d \in [1..n -> S] /\ DOMAIN d = 1..n
  <2> HIDE DEF S
  <2> QED BY <1>1, LenProperties
<1>3. u \in S
  OBVIOUS
<1> HIDE DEF S
<1>4. e \in [1..n -> S] /\ n \in 1..n
  BY <1>2, <1>3 DEF Changed
<1>5. e \in Seq(S)
  BY <1>2, <1>4, SeqDef
<1>6. Len(e) = n /\ DOMAIN e = 1..n
  BY <1>2, <1>4, <1>5, LenProperties
<1>7. e[n] = u /\ \A i \in 1..(n - 1) : e[i] = d[i]
  BY <1>2, <1>4 DEF Changed
<1>8. IsSeq(e)
  BY <1>5, SeqIntro
<1>9. Units(e) \subseteq S
  BY <1>4, <1>6 DEF Units
<1> QED
  BY <1>6, <1>7, <1>8, <1>9 DEF S

\* The PQC block takes four units and says in the first what it is.
LEMMA BlockUnits ==
  ASSUME NEW b
  PROVE  /\ IsSeq(PqcUnits(b)) /\ Len(PqcUnits(b)) = 4
         /\ PqcUnits(b)[1].kind = "pqc" /\ PqcUnits(b)[1].block = b
         /\ \A i \in 1..4 : PqcUnits(b)[i] = [kind |-> "pqc", block |-> b, i |-> i]
         /\ PqcUnits(b)[4] = [kind |-> "pqc", block |-> b, i |-> 4]
<1>1. PqcUnits(b) \in [1..4 -> {[kind |-> "pqc", block |-> b, i |-> i] : i \in 1..4}]
  BY DEF PqcUnits, PQC_SIG_BLOCK_SIZE
<1>2. PqcUnits(b) \in Seq({[kind |-> "pqc", block |-> b, i |-> i] : i \in 1..4})
  BY <1>1, SeqDef
<1>3. Len(PqcUnits(b)) = 4
  BY <1>1, <1>2, LenProperties
<1>4. IsSeq(PqcUnits(b))
  BY <1>2, SeqIntro
<1>5. \A i \in 1..4 : PqcUnits(b)[i] = [kind |-> "pqc", block |-> b, i |-> i]
  BY DEF PqcUnits, PQC_SIG_BLOCK_SIZE
<1> QED
  BY <1>3, <1>4, <1>5

\* The classical signature takes one sector.
LEMMA ClassicUnits ==
  ASSUME NEW content
  PROVE  IsSeq(Classic(content)) /\ Len(Classic(content)) = 2
<1>1. Classic(content) \in
        [1..2 -> {[kind |-> "classic", over |-> content, i |-> i] : i \in 1..2}]
  BY DEF Classic, SECTOR_SIZE
<1>2. Classic(content) \in
        Seq({[kind |-> "classic", over |-> content, i |-> i] : i \in 1..2})
  BY <1>1, SeqDef
<1> QED
  BY <1>1, <1>2, SeqIntro, LenProperties

\* Filling a torn unit, and padding, keep a file a file.
LEMMA WholeIsSeq ==
  ASSUME NEW d, IsSeq(d)
  PROVE  /\ IsSeq(WholeUnits(d)) /\ Len(WholeUnits(d)) = Len(d)
         /\ \A u \in Units(WholeUnits(d)) :
              u \in Units(d) \/ u.kind \in {"ff", "classic", "torn"}
         /\ ~Ragged(d) => WholeUnits(d) = d
<1>1. CASE ~Ragged(d)
  BY <1>1 DEF WholeUnits
<1>2. CASE Ragged(d)
  <2> DEFINE u == Filled(d[Len(d)])
  <2>1. Len(d) > 0
    <3>1. Len(d) \in Nat /\ d # <<>>
      BY <1>2, LenProperties DEF IsSeq, Ragged
    <3> QED BY <3>1, EmptySeq DEF IsSeq
  <2>2. u.kind \in {"ff", "classic", "torn"}
    BY DEF Filled, Piece
  <2> DEFINE w == WholeUnits(d)
  <2>3. w = Changed(d, Len(d), u)
    BY <1>2 DEF WholeUnits, Changed
  <2> HIDE DEF u, w
  <2>4. IsSeq(w) /\ Len(w) = Len(d) /\ Units(w) \subseteq Units(d) \cup {u}
    BY <2>1, <2>3, LastChanged
  <2> QED BY <1>2, <2>2, <2>4 DEF w
<1> QED
  BY <1>1, <1>2

LEMMA WholeFree ==
  ASSUME NEW d, IsSeq(d), NoBlockEnd(d)
  PROVE  NoBlockEnd(WholeUnits(d))
<1>1. CASE ~Ragged(d)
  BY <1>1 DEF WholeUnits
<1>2. CASE Ragged(d)
  <2> DEFINE w == d[Len(d)]
             u == Filled(w)
  <2>1. Len(d) \in Nat /\ Len(d) > 0 /\ DOMAIN d = 1..Len(d)
    <3>1. Len(d) \in Nat /\ d # <<>> /\ DOMAIN d = 1..Len(d)
      BY <1>2, LenProperties DEF IsSeq, Ragged
    <3> QED BY <3>1, EmptySeq DEF IsSeq
  <2>2. w.kind = "torn" /\ ~BlockEnd(w) /\ w.at \in Nat
    <3>1. w \in Units(d) /\ w.kind = "torn"
      BY <1>2, <2>1 DEF Units, Ragged
    <3> QED BY <3>1 DEF NoBlockEnd
  <2>3. ~BlockEnd(u) /\ (u.kind = "torn" => u.at \in Nat)
    BY <2>2 DEF Filled, Piece, BlockEnd, Origin
  <2> DEFINE e == WholeUnits(d)
  <2>4. e = Changed(d, Len(d), u)
    BY <1>2 DEF WholeUnits, Changed
  <2> HIDE DEF u, e
  <2>5. Units(e) \subseteq Units(d) \cup {u}
    BY <2>1, <2>4, LastChanged
  <2> QED BY <2>3, <2>5 DEF NoBlockEnd, e
<1> QED
  BY <1>1, <1>2

LEMMA PaddedIsSeq ==
  ASSUME NEW d, IsSeq(d)
  PROVE  IsSeq(pad_to_sector(d)) /\ Len(pad_to_sector(d)) >= Len(d)
<1> DEFINE w == WholeUnits(d)
           S == Units(w) \cup {[kind |-> "ff"]}
<1>1. IsSeq(w) /\ Len(w) = Len(d)
  BY WholeIsSeq
<1> HIDE DEF w
<1>2. w \in Seq(S)
  BY <1>1, SeqMonotonic DEF IsSeq
<1> DEFINE e == Append(w, [kind |-> "ff"])
<1>3. e \in Seq(S) /\ Len(e) = Len(w) + 1 /\ Len(w) \in Nat
  <2>1. [kind |-> "ff"] \in S
    OBVIOUS
  <2> HIDE DEF S
  <2> QED BY <1>2, <2>1
<1>4. IsSeq(e)
  BY <1>3, SeqIntro
<1> QED
  BY <1>1, <1>3, <1>4 DEF pad_to_sector, w

\* The beginning of a file has the file's units at the file's places.
LEMMA FirstUnits ==
  ASSUME NEW d, IsSeq(d), NEW n \in Nat, n <= Len(d)
  PROVE  /\ IsSeq(FirstN(d, n)) /\ Len(FirstN(d, n)) = n
         /\ \A i \in 1..n : FirstN(d, n)[i] = d[i]
         /\ Units(FirstN(d, n)) \subseteq Units(d)
<1>1. Len(d) \in Nat /\ DOMAIN d = 1..Len(d)
  BY LenProperties DEF IsSeq
<1>2. \A i \in 1..n : d[i] \in Units(d)
  BY <1>1 DEF Units
<1>3. /\ FirstN(d, n) \in Seq(Units(d))
      /\ Len(FirstN(d, n)) = IF 1 <= n THEN n - 1 + 1 ELSE 0
      /\ \A i \in 1..(n - 1 + 1) : FirstN(d, n)[i] = d[1 + i - 1]
  BY <1>2, SubSeqProperties DEF FirstN
<1>4. Len(FirstN(d, n)) = n /\ \A i \in 1..n : FirstN(d, n)[i] = d[i]
  BY <1>3
<1>5. IsSeq(FirstN(d, n)) /\ Units(FirstN(d, n)) \subseteq Units(d)
  BY <1>3, SeqIntro, LenProperties DEF Units
<1> QED
  BY <1>4, <1>5

\* The first n units of a file, the last of them torn.
LEMMA CutUnits ==
  ASSUME NEW d, IsSeq(d), NEW n \in 1..Len(d), NEW o
  PROVE  LET e == CutInside(d, n, o)
         IN  /\ IsSeq(e) /\ Len(e) = n /\ e[n] = Torn(d[n], o)
             /\ \A i \in 1..(n - 1) : e[i] = d[i]
             /\ Units(e) \subseteq Units(d) \cup {Torn(d[n], o)}
<1> DEFINE f == FirstN(d, n)
           u == Torn(f[n], o)
           e == CutInside(d, n, o)
<1>1. Len(d) \in Nat
  BY LenProperties DEF IsSeq
<1>2. n \in Nat /\ n <= Len(d) /\ n > 0 /\ n \in 1..n
  BY <1>1
<1>3. /\ IsSeq(f) /\ Len(f) = n /\ Units(f) \subseteq Units(d)
      /\ \A i \in 1..n : f[i] = d[i]
  BY <1>2, FirstUnits
<1>4. e = Changed(f, n, u) /\ u = Torn(d[n], o)
  BY <1>2, <1>3 DEF CutInside, Changed
<1> HIDE DEF f, u, e
<1>5. /\ IsSeq(e) /\ Len(e) = n /\ e[n] = u
      /\ \A i \in 1..(n - 1) : e[i] = f[i]
      /\ Units(e) \subseteq Units(f) \cup {u}
  BY <1>2, <1>3, <1>4, LastChanged
<1>6. \A i \in 1..(n - 1) : i \in 1..n
  BY <1>2
<1> QED
  BY <1>3, <1>4, <1>5, <1>6 DEF e

\* strip_pqc_sector only takes away, and tears nothing if nothing was torn.
LEMMA StrippedUnits ==
  ASSUME NEW d, IsSeq(d)
  PROVE  /\ IsSeq(strip_pqc_sector(d))
         /\ \A u \in Units(strip_pqc_sector(d)) : u \in Units(d) \/ u.kind = "torn"
         /\ ~Ragged(d) => Units(strip_pqc_sector(d)) \subseteq Units(d)
<1>1. Len(d) \in Nat
  BY LenProperties DEF IsSeq
<1>2. CASE strip_pqc_sector(d) = d
  BY <1>2
<1>3. CASE Ragged(d) /\ strip_pqc_sector(d) # d
  <2> DEFINE n == Len(d) - 4
             o == d[Len(d)].len
  <2>1. n > 2 /\ strip_pqc_sector(d) = CutInside(d, n, o)
    BY <1>3 DEF strip_pqc_sector, PQC_SIG_BLOCK_SIZE, SECTOR_SIZE
  <2>2. n \in 1..Len(d)
    BY <1>1, <2>1
  <2> HIDE DEF n, o
  <2>3. Torn(d[n], o).kind = "torn"
    BY DEF Torn, Piece
  <2> QED BY <1>3, <2>1, <2>2, <2>3, CutUnits
<1>4. CASE ~Ragged(d) /\ strip_pqc_sector(d) # d
  <2>1. Len(d) - 4 >= 2 /\ strip_pqc_sector(d) = FirstN(d, Len(d) - 4)
    BY <1>4 DEF strip_pqc_sector, PQC_SIG_BLOCK_SIZE, SECTOR_SIZE
  <2>2. Len(d) - 4 \in Nat /\ Len(d) - 4 <= Len(d)
    BY <1>1, <2>1
  <2> QED BY <2>1, <2>2, FirstUnits
<1> QED
  BY <1>2, <1>3, <1>4

\* Whatever the file was, what the digest covers ends with a signature sector.
LEMMA SignedDataIsSeq ==
  ASSUME NEW d, IsSeq(d)
  PROVE  /\ IsSeq(SignedData(d))
         /\ Len(SignedData(d)) \in Nat
         /\ Len(SignedData(d)) >= SECTOR_SIZE
<1> DEFINE raw == strip_pqc_sector(d)
<1>2. IsSeq(raw)
  BY StrippedUnits
<1> HIDE DEF raw
<1>3. Len(raw) \in Nat
  BY <1>2, LenProperties DEF IsSeq
<1>4. CASE HasClassic(raw)
  BY <1>2, <1>3, <1>4 DEF SignedData, HasClassic, raw
<1>5. CASE ~HasClassic(raw)
  <2> DEFINE content == pad_to_sector(raw)
  <2>1. SignedData(d) = content \o Classic(content)
    BY <1>5 DEF SignedData, ClassicSigned, raw
  <2>2. IsSeq(content)
    BY <1>2, PaddedIsSeq
  <2> HIDE DEF content
  <2>3. IsSeq(Classic(content)) /\ Len(Classic(content)) = 2
    BY ClassicUnits
  <2>4. Len(content) \in Nat
    BY <2>2, LenProperties DEF IsSeq
  <2>5. IsSeq(content \o Classic(content)) /\ Len(content \o Classic(content)) = Len(content) + 2
    BY <2>2, <2>3, JoinedIsSeq
  <2> QED BY <2>1, <2>4, <2>5 DEF SECTOR_SIZE
<1> QED
  BY <1>4, <1>5

-----------------------------------------------------------------------------
(* What units a file is made of.                                           *)

\* Two files one after the other have no units but theirs.
LEMMA JoinedUnits ==
  ASSUME NEW d, NEW e, IsSeq(d), IsSeq(e)
  PROVE  Units(d \o e) \subseteq Units(d) \cup Units(e)
<1> DEFINE S == Units(d) \cup Units(e)
<1>1. d \in Seq(S) /\ e \in Seq(S)
  BY SeqMonotonic DEF IsSeq
<1> HIDE DEF S
<1>2. d \o e \in Seq(S)
  BY <1>1, ConcatProperties
<1>3. Units(d \o e) \subseteq S
  BY <1>2, LenProperties DEF Units
<1> QED
  BY <1>3 DEF S

\* Padding adds one kind of unit and fills a torn one. What it fills is not more of a block
\* than before.
LEMMA PaddedUnits ==
  ASSUME NEW d, IsSeq(d)
  PROVE  /\ \A u \in Units(pad_to_sector(d)) :
              u \in Units(d) \/ u.kind \in {"ff", "classic", "torn"}
         /\ ~Ragged(d) => \A u \in Units(pad_to_sector(d)) : u \in Units(d) \/ u.kind = "ff"
         /\ NoBlockEnd(d) => NoBlockEnd(pad_to_sector(d))
<1> DEFINE ff == [kind |-> "ff"]
           w  == WholeUnits(d)
           S  == Units(w) \cup {ff}
<1>1. /\ IsSeq(w)
      /\ \A u \in Units(w) : u \in Units(d) \/ u.kind \in {"ff", "classic", "torn"}
      /\ ~Ragged(d) => w = d
  BY WholeIsSeq
<1>2. pad_to_sector(d) \in {w, Append(w, ff)}
  BY DEF pad_to_sector
<1>3. NoBlockEnd(d) => NoBlockEnd(w)
  BY WholeFree
<1> HIDE DEF w
<1>4. w \in Seq(S) /\ ff \in S /\ ff.kind = "ff" /\ ~BlockEnd(ff)
  BY <1>1, SeqMonotonic DEF IsSeq, BlockEnd, Origin
<1> HIDE DEF S, ff
<1>5. Append(w, ff) \in Seq(S)
  BY <1>4, AppendProperties
<1>6. pad_to_sector(d) \in Seq(S)
  BY <1>2, <1>4, <1>5
<1>7. Units(pad_to_sector(d)) \subseteq S
  BY <1>6, LenProperties DEF Units
<1>8. \A u \in Units(pad_to_sector(d)) : u \in Units(w) \/ u = ff
  BY <1>7 DEF S
<1> QED
  BY <1>1, <1>3, <1>4, <1>8 DEF NoBlockEnd

\* So does a classical signature.
LEMMA ClassicSignedUnits ==
  ASSUME NEW d, IsSeq(d)
  PROVE  \A u \in Units(ClassicSigned(d)) : u \in Units(d) \/ u.kind = "classic"
<1>1. \A u \in Units(Classic(d)) : u.kind = "classic"
  BY DEF Units, Classic
<1> QED
  BY <1>1, ClassicUnits, JoinedUnits DEF ClassicSigned

\* What the digest covers holds, besides what strip_pqc_sector has left, padding and a
\* classical signature only, and no more blocks.
LEMMA SignedDataUnits ==
  ASSUME NEW d, IsSeq(d)
  PROVE  /\ \A u \in Units(SignedData(d)) :
              u \in Units(d) \/ u.kind \in {"ff", "classic", "torn"}
         /\ NoBlockEnd(strip_pqc_sector(d)) => NoBlockEnd(SignedData(d))
<1> DEFINE raw == strip_pqc_sector(d)
<1>1. IsSeq(raw) /\ \A u \in Units(raw) : u \in Units(d) \/ u.kind = "torn"
  BY StrippedUnits
<1> HIDE DEF raw
<1>2. CASE HasClassic(raw)
  BY <1>1, <1>2 DEF SignedData, raw
<1>3. CASE ~HasClassic(raw)
  <2> DEFINE padded == pad_to_sector(raw)
  <2>1. SignedData(d) = ClassicSigned(padded)
    BY <1>3 DEF SignedData, raw
  <2>2. /\ IsSeq(padded) /\ (NoBlockEnd(raw) => NoBlockEnd(padded))
        /\ \A u \in Units(padded) : u \in Units(raw) \/ u.kind \in {"ff", "classic", "torn"}
    BY <1>1, PaddedIsSeq, PaddedUnits
  <2> HIDE DEF padded
  <2>3. \A u \in Units(SignedData(d)) : u \in Units(padded) \/ u.kind = "classic"
    BY <2>1, <2>2, ClassicSignedUnits
  <2>4. NoBlockEnd(padded) => NoBlockEnd(SignedData(d))
    BY <2>3 DEF NoBlockEnd, BlockEnd, Origin
  <2> QED BY <1>1, <2>2, <2>3, <2>4 DEF raw
<1> QED
  BY <1>2, <1>3

\* A sector that espsecure appended is recognised.
LEMMA ClassicSignedHas ==
  ASSUME NEW d, IsSeq(d)
  PROVE  HasClassic(ClassicSigned(d))
<1> DEFINE c == Classic(d)
<1>1. IsSeq(c) /\ Len(c) = 2 /\ c[1].kind = "classic" /\ c[1].over = d
  BY ClassicUnits DEF Classic, SECTOR_SIZE
<1>2. Len(d) \in Nat
  BY LenProperties DEF IsSeq
<1>3. Len(d \o c) = Len(d) + 2 /\ LastN(d \o c, 2) = c
  <2>1. CASE Len(d) > 0
    <3>1. Len(c) > 0
      BY <1>1
    <3> HIDE DEF c
    <3>2. Len(d \o c) = Len(d) + Len(c) /\ LastN(d \o c, Len(c)) = c
      BY <1>1, <2>1, <3>1, Joined
    <3> QED BY <1>1, <3>2
  <2>2. CASE Len(d) = 0
    <3>1. d \o c = c
      <4>1. d = <<>>
        BY <2>2, EmptySeq DEF IsSeq
      <4> HIDE DEF c
      <4>2. c \in Seq(Units(c))
        BY <1>1 DEF IsSeq
      <4>3. <<>> \o c = c
        BY <4>2, ConcatEmptySeq
      <4> QED BY <4>1, <4>3
    <3>2. LastN(c, 2) = c
      <4> HIDE DEF c
      <4>1. c \in Seq(Units(c))
        BY <1>1 DEF IsSeq
      <4> QED BY <1>1, <4>1, SubSeqFull DEF LastN
    <3> HIDE DEF c
    <3> QED BY <1>1, <2>2, <3>1, <3>2
  <2> QED BY <1>2, <2>1, <2>2
<1>4. c = Classic(c[1].over)
  BY <1>1
<1> HIDE DEF c
<1>5. ClassicSigned(d) = d \o c
  BY DEF ClassicSigned, c
<1> QED
  BY <1>1, <1>2, <1>3, <1>4, <1>5 DEF HasClassic, SECTOR_SIZE

LEMMA SignedDataHas ==
  ASSUME NEW d, IsSeq(d)
  PROVE  HasClassic(SignedData(d))
<1>1. IsSeq(pad_to_sector(strip_pqc_sector(d)))
  BY StrippedUnits, PaddedIsSeq
<1> QED
  BY <1>1, ClassicSignedHas DEF SignedData

\* A file with a torn end has no classical signature at its end.
LEMMA HasNotRagged ==
  ASSUME NEW d, IsSeq(d), HasClassic(d)
  PROVE  ~Ragged(d)
<1> DEFINE s == LastN(d, 2)
<1>1. Len(d) \in Nat /\ Len(d) >= 2 /\ DOMAIN d = 1..Len(d)
  BY LenProperties DEF IsSeq, HasClassic, SECTOR_SIZE
<1>2. s[2] = d[Len(d)]
  <2>1. \A i \in (Len(d) - 2 + 1)..Len(d) : d[i] \in Units(d)
    BY <1>1 DEF Units
  <2>2. \A i \in 1..(Len(d) - (Len(d) - 2 + 1) + 1) : s[i] = d[Len(d) - 2 + 1 + i - 1]
    BY <1>1, <2>1, SubSeqProperties DEF LastN
  <2>3. 2 \in 1..(Len(d) - (Len(d) - 2 + 1) + 1) /\ Len(d) - 2 + 1 + 2 - 1 = Len(d)
    BY <1>1
  <2> HIDE DEF s
  <2> QED BY <2>2, <2>3
<1>3. s[2].kind = "classic"
  <2>1. s = Classic(s[1].over)
    BY DEF HasClassic, SECTOR_SIZE
  <2>2. \A c : Classic(c)[2].kind = "classic"
    BY DEF Classic, SECTOR_SIZE
  <2> HIDE DEF s
  <2> QED BY <2>1, <2>2
<1> QED
  BY <1>2, <1>3 DEF Ragged

-----------------------------------------------------------------------------
(* What cmd_sign writes, and what cmd_verify makes of it.                  *)

\* The places behind the m-th.
LEMMA Behind ==
  ASSUME NEW m \in Nat, NEW i \in 1..4
  PROVE  m + i \in 1..(m + 4) /\ ~(m + i <= m) /\ m + i - m = i
OBVIOUS

\* A written file, taken apart.
LEMMA FinalParts ==
  ASSUME NEW d, IsSeq(d), NEW key, NEW secret,
         NEW data, data = SignedData(d),
         NEW final, final = FinalData(d, key, secret)
  PROVE  /\ IsSeq(data) /\ Len(data) \in Nat /\ Len(data) >= 2
         /\ IsSeq(final) /\ Len(final) = Len(data) + 4
         /\ \A i \in 1..Len(data) : final[i] = data[i]
         /\ \A i \in 1..4 : final[Len(data) + i] = PqcUnits(BuildBlock(key, secret, data))[i]
         /\ final[Len(data) + 4] = PqcUnits(BuildBlock(key, secret, data))[4]
<1> DEFINE units == PqcUnits(BuildBlock(key, secret, data))
           S     == Units(data) \cup Units(units)
<1>1. IsSeq(data) /\ Len(data) \in Nat /\ Len(data) >= 2
  BY SignedDataIsSeq DEF SECTOR_SIZE
<1>2. IsSeq(units) /\ Len(units) = 4
  BY BlockUnits
<1>3. final = data \o units
  BY DEF FinalData
<1> HIDE DEF units
<1>4. IsSeq(final) /\ Len(final) = Len(data) + 4
  BY <1>1, <1>2, <1>3, JoinedIsSeq
<1>5. data \in Seq(S) /\ units \in Seq(S)
  BY <1>1, <1>2, SeqMonotonic DEF IsSeq
<1> HIDE DEF S
<1>6. \A i \in 1..(Len(data) + Len(units)) :
        final[i] = IF i <= Len(data) THEN data[i] ELSE units[i - Len(data)]
  BY <1>3, <1>5, ConcatProperties
<1>7. \A i \in 1..Len(data) : final[i] = data[i]
  BY <1>1, <1>2, <1>6
<1>8. ASSUME NEW i \in 1..4 PROVE final[Len(data) + i] = units[i]
  <2>1. /\ Len(data) + i \in 1..(Len(data) + Len(units))
        /\ ~(Len(data) + i <= Len(data)) /\ Len(data) + i - Len(data) = i
    BY <1>1, <1>2, Behind
  <2> QED BY <1>6, <2>1
<1>9. final[Len(data) + 4] = units[4]
  <2>1. /\ Len(data) + 4 \in 1..(Len(data) + Len(units))
        /\ ~(Len(data) + 4 <= Len(data)) /\ Len(data) + 4 - Len(data) = 4
    BY <1>1, <1>2
  <2> QED BY <1>6, <2>1
<1> QED
  BY <1>1, <1>4, <1>7, <1>8, <1>9 DEF units

\* The parts of a written file, whose last unit is torn in the padding at the most.
MadeOf(d, data, pair) ==
  /\ IsSeq(d) /\ IsSeq(data) /\ Len(data) \in Nat /\ Len(data) >= 2
  /\ Len(d) = Len(data) + 4
  /\ \A i \in 1..Len(data) : d[i] = data[i]
  /\ LET units == PqcUnits(BuildBlock(pair.key, pair.secret, data))
     IN  /\ \A i \in 1..3 : d[Len(data) + i] = units[i]
         /\ Origin(d[Len(data) + 4]) = units[4] /\ BlockEnd(d[Len(data) + 4])

\* A file of these parts is written.
LEMMA PartsWritten ==
  ASSUME NEW d, NEW data, NEW pair, MadeOf(d, data, pair)
  PROVE  WrittenWith(d, pair) /\ FirstN(d, Len(data)) = data
<1>1. /\ IsSeq(d) /\ IsSeq(data) /\ Len(data) \in Nat /\ Len(d) = Len(data) + 4
      /\ \A i \in 1..Len(data) : d[i] = data[i]
      /\ Len(d) - 4 = Len(data) /\ Len(d) >= 6 /\ Len(data) + 4 <= Len(d)
      /\ Len(data) <= Len(d) /\ Len(data) <= Len(data)
  BY DEF MadeOf
<1>2. FirstN(d, Len(data)) = data
  <2>1. FirstN(d, Len(data)) = FirstN(data, Len(data))
    BY <1>1, SameFirst
  <2> QED BY <1>1, <2>1, SubSeqFull DEF FirstN, IsSeq
<1>3. \A i \in 1..4 : LastN(d, 4)[i] = d[Len(data) + i]
  <2>1. \A i \in 1..4 : SubSeq(d, Len(data) + 1, Len(data) + 4)[i] = d[Len(data) + i]
    BY <1>1, Window
  <2>2. LastN(d, 4) = SubSeq(d, Len(data) + 1, Len(data) + 4)
    BY <1>1, Window
  <2> QED BY <2>1, <2>2
<1>4. Holds(LastN(d, 4), BuildBlock(pair.key, pair.secret, data))
  BY <1>3 DEF MadeOf, Holds, PQC_SIG_BLOCK_SIZE
<1> QED
  BY <1>1, <1>2, <1>4 DEF WrittenWith, PQC_SIG_BLOCK_SIZE, SECTOR_SIZE

\* What an interruption leaves is a file, with one unit of its own at the most.
LEMMA RestUnits ==
  ASSUME NEW d, IsSeq(d), NEW rest \in Rests(d)
  PROVE  /\ IsSeq(rest) /\ Len(rest) \in Nat /\ Len(rest) <= Len(d)
         /\ \A i \in 1..Len(rest) :
              \/ rest[i] = d[i]
              \/ i = Len(rest) /\ \E o \in Cuts : rest[i] = Torn(d[i], o)
         /\ \A u \in Units(rest) : u \in Units(d) \/ u.kind = "torn"
<1>1. Len(d) \in Nat
  BY LenProperties DEF IsSeq
<1>2. ASSUME NEW n \in 0..(Len(d) - 1), rest = FirstN(d, n)
      PROVE  /\ IsSeq(rest) /\ Len(rest) = n /\ n \in Nat /\ n <= Len(d)
             /\ \A i \in 1..n : rest[i] = d[i]
             /\ Units(rest) \subseteq Units(d)
  <2>1. n \in Nat /\ n <= Len(d)
    BY <1>1
  <2> QED BY <1>2, <2>1, FirstUnits
<1>3. ASSUME NEW n \in 1..Len(d), NEW o \in Cuts, rest = CutInside(d, n, o)
      PROVE  /\ IsSeq(rest) /\ Len(rest) = n /\ n \in Nat /\ n <= Len(d)
             /\ \A i \in 1..n : rest[i] = d[i] \/ (i = n /\ rest[i] = Torn(d[i], o))
             /\ \A u \in Units(rest) : u \in Units(d) \/ u.kind = "torn"
  <2>1. n \in Nat /\ n <= Len(d) /\ \A i \in 1..n : i = n \/ i \in 1..(n - 1)
    BY <1>1
  <2>2. Torn(d[n], o).kind = "torn"
    BY DEF Torn, Piece
  <2> QED BY <1>3, <2>1, <2>2, CutUnits
<1> QED
  BY <1>2, <1>3 DEF Rests

\* What cmd_sign leaves when it wrote as far as the bootloader reads is a written file.
LEMMA SealedWritten ==
  ASSUME NEW d, IsSeq(d), NEW key, NEW secret,
         NEW final, final = FinalData(d, key, secret),
         NEW rest \in {final} \cup Rests(final), Sealed(rest, final)
  PROVE  /\ IsSeq(rest) /\ WrittenWith(rest, Pair(key, secret))
         /\ Len(rest) = Len(SignedData(d)) + 4
         /\ FirstN(rest, Len(SignedData(d))) = SignedData(d)
<1> DEFINE data  == SignedData(d)
           pair  == Pair(key, secret)
           block == BuildBlock(pair.key, pair.secret, data)
           m     == Len(data)
<1>1. /\ IsSeq(data) /\ m \in Nat /\ m >= 2 /\ IsSeq(final) /\ Len(final) = m + 4
      /\ \A i \in 1..m : final[i] = data[i]
      /\ \A i \in 1..4 : final[m + i] = PqcUnits(block)[i]
      /\ final[m + 4] = PqcUnits(block)[4]
  BY FinalParts DEF Pair
<1>2. Len(rest) = m + 4 /\ BlockEnd(rest[m + 4])
  BY <1>1 DEF Sealed
<1> HIDE DEF data, pair, block
<1>3. /\ IsSeq(rest)
      /\ \A i \in 1..(m + 4) :
           \/ rest[i] = final[i]
           \/ i = m + 4 /\ \E o \in Cuts : rest[i] = Torn(final[i], o)
  <2>1. CASE rest = final
    BY <1>1, <2>1
  <2>2. CASE rest \in Rests(final)
    BY <1>1, <1>2, <2>2, RestUnits
  <2> QED BY <2>1, <2>2
<1>4. /\ \A i \in 1..m : rest[i] = data[i]
      /\ \A i \in 1..3 : rest[m + i] = PqcUnits(block)[i]
  <2>1. \A i \in 1..m : i \in 1..(m + 4) /\ i # m + 4
    BY <1>1
  <2>2. \A i \in 1..3 : i \in 1..4 /\ m + i \in 1..(m + 4) /\ m + i # m + 4
    BY <1>1
  <2> QED BY <1>1, <1>3, <2>1, <2>2
<1>5. Origin(rest[m + 4]) = PqcUnits(block)[4]
  <2>1. m + 4 \in 1..(m + 4) /\ 4 \in 1..4
    BY <1>1
  <2>2. final[m + 4] = PqcUnits(block)[4] /\ Origin(final[m + 4]) = final[m + 4]
    <3>1. PqcUnits(block)[4] = [kind |-> "pqc", block |-> block, i |-> 4]
      BY BlockUnits
    <3> QED BY <1>1, <3>1 DEF Origin
  <2>3. \A o : Origin(Torn(final[m + 4], o)) = final[m + 4]
    BY <2>2 DEF Torn, Piece, Origin
  <2> QED BY <1>3, <2>1, <2>2, <2>3
<1>6. MadeOf(rest, data, pair)
  BY <1>1, <1>2, <1>3, <1>4, <1>5 DEF MadeOf, block
<1>7. WrittenWith(rest, pair) /\ FirstN(rest, m) = data
  BY <1>6, PartsWritten
<1> QED
  BY <1>2, <1>3, <1>7 DEF data, pair

\* What it leaves otherwise holds the checksum of no block, if the data does not.
LEMMA RestFree ==
  ASSUME NEW d, IsSeq(d), NEW key, NEW secret, NoBlockEnd(SignedData(d)),
         NEW final, final = FinalData(d, key, secret),
         NEW rest \in Rests(final), ~Sealed(rest, final)
  PROVE  NoBlockEnd(rest)
<1> DEFINE data  == SignedData(d)
           block == BuildBlock(key, secret, data)
           m     == Len(data)
           Free(u) == ~BlockEnd(u) /\ (u.kind = "torn" => u.at \in Nat)
<1>1. /\ IsSeq(data) /\ m \in Nat /\ m >= 2 /\ IsSeq(final) /\ Len(final) = m + 4
      /\ \A i \in 1..m : final[i] = data[i]
      /\ \A i \in 1..4 : final[m + i] = PqcUnits(block)[i]
      /\ final[m + 4] = PqcUnits(block)[4]
  BY FinalParts
<1>2. NoBlockEnd(data)
  OBVIOUS
<1> HIDE DEF data, block
<1>3. /\ IsSeq(rest) /\ Len(rest) \in Nat /\ Len(rest) <= m + 4
      /\ \A i \in 1..Len(rest) :
           \/ rest[i] = final[i]
           \/ i = Len(rest) /\ \E o \in Cuts : rest[i] = Torn(final[i], o)
  BY <1>1, RestUnits
<1>4. \A o \in Cuts : o \in Nat
  BY CutAssumption
<1>5. ASSUME NEW u, Free(u), NEW o \in Cuts PROVE Free(Torn(u, o))
  BY <1>4, <1>5 DEF BlockEnd, Origin, Torn, Piece, CrcEnd, UNIT_SIZE
<1>6. ASSUME NEW i \in 1..(m + 3) PROVE Free(final[i])
  <2>1. CASE i \in 1..m
    <3>1. final[i] \in Units(data)
      BY <1>1, <2>1, LenProperties DEF IsSeq, Units
    <3> QED BY <1>2, <3>1 DEF NoBlockEnd
  <2>2. CASE i \notin 1..m
    <3>1. PICK j \in 1..3 : i = m + j
      <4>1. i - m \in 1..3 /\ i = m + (i - m)
        BY <1>1, <2>2
      <4> QED BY <4>1
    <3>2. final[i] = [kind |-> "pqc", block |-> block, i |-> j] /\ j # 4
      <4>1. j \in 1..4 /\ j # 4
        BY <3>1
      <4> QED BY <1>1, <3>1, <4>1, BlockUnits
    <3> QED BY <3>2 DEF BlockEnd, Origin, PQC_SIG_BLOCK_SIZE
  <2> QED BY <2>1, <2>2
<1>7. ASSUME NEW i \in 1..Len(rest), i # m + 4 PROVE Free(rest[i])
  <2>1. i \in 1..(m + 3)
    BY <1>1, <1>3, <1>7
  <2> HIDE DEF Free
  <2> QED BY <1>3, <1>5, <1>6, <2>1
<1>8. ASSUME m + 4 \in 1..Len(rest) PROVE Free(rest[m + 4])
  <2>1. Len(rest) = m + 4
    BY <1>1, <1>3, <1>8
  <2>2. ~BlockEnd(rest[m + 4])
    BY <1>1, <2>1 DEF Sealed
  <2>3. final[m + 4] = [kind |-> "pqc", block |-> block, i |-> 4]
    BY <1>1, BlockUnits
  <2>4. PICK o \in Cuts : rest[m + 4] = Torn(final[m + 4], o)
    <3>1. BlockEnd(final[m + 4])
      BY <2>3 DEF BlockEnd, Origin, PQC_SIG_BLOCK_SIZE
    <3> QED BY <1>3, <1>8, <2>2, <3>1
  <2>5. rest[m + 4].at \in Nat
    BY <1>4, <2>3, <2>4 DEF Torn, Piece
  <2> QED BY <2>2, <2>5
<1>9. \A i \in 1..Len(rest) : Free(rest[i])
  <2> HIDE DEF Free
  <2> QED BY <1>7, <1>8
<1>10. DOMAIN rest = 1..Len(rest)
  BY <1>3, LenProperties DEF IsSeq
<1> QED
  BY <1>9, <1>10 DEF NoBlockEnd, Units

\* A written file, taken apart again.
LEMMA WrittenParts ==
  ASSUME NEW d, IsSeq(d), NEW pair, WrittenWith(d, pair),
         NEW data, data = FirstN(d, Len(d) - PQC_SIG_BLOCK_SIZE)
  PROVE  MadeOf(d, data, pair)
<1>1. Len(d) \in Nat /\ Len(d) >= 6
  BY LenProperties DEF IsSeq, WrittenWith, PQC_SIG_BLOCK_SIZE, SECTOR_SIZE
<1>2. Len(d) - 4 \in Nat /\ Len(d) - 4 <= Len(d)
  BY <1>1
<1>3. /\ IsSeq(data) /\ Len(data) = Len(d) - 4
      /\ \A i \in 1..(Len(d) - 4) : d[i] = data[i]
  BY <1>2, FirstUnits DEF PQC_SIG_BLOCK_SIZE
<1>4. /\ Len(d) = Len(data) + 4 /\ Len(data) \in Nat /\ Len(data) >= 2
      /\ Len(data) + 4 <= Len(d)
  BY <1>1, <1>3
<1>5. \A i \in 1..4 : LastN(d, 4)[i] = d[Len(data) + i]
  <2>1. \A i \in 1..4 : SubSeq(d, Len(data) + 1, Len(data) + 4)[i] = d[Len(data) + i]
    BY <1>4, Window
  <2>2. LastN(d, 4) = SubSeq(d, Len(data) + 1, Len(data) + 4)
    BY <1>4, Window
  <2> QED BY <2>1, <2>2
<1>6. Holds(LastN(d, 4), BuildBlock(pair.key, pair.secret, data))
  BY DEF WrittenWith, PQC_SIG_BLOCK_SIZE
<1> QED
  BY <1>3, <1>4, <1>5, <1>6 DEF MadeOf, Holds, PQC_SIG_BLOCK_SIZE

\* strip_pqc_sector finds the block of a file that cmd_sign wrote to its end.
LEMMA WrittenStripped ==
  ASSUME NEW d, IsSeq(d), NEW pair, WrittenWith(d, pair), ~Ragged(d)
  PROVE  strip_pqc_sector(d) = FirstN(d, Len(d) - PQC_SIG_BLOCK_SIZE)
<1> DEFINE data  == FirstN(d, Len(d) - PQC_SIG_BLOCK_SIZE)
           units == PqcUnits(BuildBlock(pair.key, pair.secret, data))
<1>1. units[1].kind = "pqc" /\ units[1].i = 1
  BY DEF PqcUnits, PQC_SIG_BLOCK_SIZE
<1>2. MadeOf(d, data, pair)
  BY WrittenParts
<1> HIDE DEF data
<1>3. /\ Len(d) - 4 + 1 = Len(data) + 1 /\ Len(d) - 4 >= 2
      /\ d[Len(data) + 1] = units[1]
  BY <1>2 DEF MadeOf
<1> HIDE DEF units
<1>4. IsMagic(d[Len(d) - 4 + 1])
  BY <1>1, <1>3 DEF IsMagic, Origin
<1> QED
  BY <1>3, <1>4 DEF strip_pqc_sector, PQC_SIG_BLOCK_SIZE, SECTOR_SIZE

\* The block of a written file is accepted under its own key, and the file passes if it was
\* written to its end.
LEMMA WrittenVerifies ==
  ASSUME NEW d, IsSeq(d), NEW pair, pair.key = pair.secret, WrittenWith(d, pair)
  PROVE  /\ BlockAccepted(LastN(d, PQC_SIG_BLOCK_SIZE),
                          FirstN(d, Len(d) - PQC_SIG_BLOCK_SIZE), pair.key)
         /\ ~Ragged(d) => Verifies(d, pair.key)
<1> DEFINE data  == FirstN(d, Len(d) - PQC_SIG_BLOCK_SIZE)
           block == BuildBlock(pair.key, pair.secret, data)
           units == LastN(d, PQC_SIG_BLOCK_SIZE)
<1>1. Holds(units, block)
  BY DEF WrittenWith
<1>2. HeaderValid(block)
  BY DEF HeaderValid, BuildBlock, KnownAlg, AlgSizes, PQC_ALG_ML_DSA_65
<1>3. block.digest = data /\ MlDsaVerify(block.digest, block.sig, block.sigLen, pair.key)
  BY DEF MlDsaVerify, BuildBlock, AlgSizes, PQC_ALG_ML_DSA_65
<1> HIDE DEF block, data, units
<1>4. units[1].kind = "pqc" /\ units[1].block = block
  <2>1. units[1] = PqcUnits(block)[1]
    BY <1>1 DEF Holds, PQC_SIG_BLOCK_SIZE
  <2>2. PqcUnits(block)[1].kind = "pqc" /\ PqcUnits(block)[1].block = block
    BY BlockUnits
  <2> QED BY <2>1, <2>2
<1>5. BlockAccepted(units, data, pair.key)
  BY <1>1, <1>2, <1>3, <1>4 DEF BlockAccepted
<1> QED
  BY <1>5 DEF Verifies, WrittenWith, data, units

-----------------------------------------------------------------------------
(* The invariant.                                                          *)

\* What the linker or ESP-IDF's signing step leaves is a file.
LEMMA BuiltIsSeq ==
  ASSUME NEW a \in Apps
  PROVE  IsSeq(AppUnits(a)) /\ IsSeq(ClassicSigned(pad_to_sector(AppUnits(a))))
<1> DEFINE unit(i) == [kind |-> "app", app |-> a.name, i |-> i, e8 |-> i \in a.e8]
           S       == {unit(i) : i \in 1..a.len}
<1>1. a.len \in Nat
  BY AppAssumption
<1>2. AppUnits(a) \in [1..a.len -> S]
  BY DEF AppUnits
<1>3. IsSeq(AppUnits(a))
  <2> HIDE DEF S
  <2>1. AppUnits(a) \in Seq(S)
    BY <1>1, <1>2, SeqDef
  <2> QED BY <2>1, SeqIntro
<1>4. IsSeq(pad_to_sector(AppUnits(a)))
  BY <1>3, PaddedIsSeq
<1>5. IsSeq(Classic(pad_to_sector(AppUnits(a))))
  BY ClassicUnits
<1> QED
  BY <1>3, <1>4, <1>5, JoinedIsSeq DEF ClassicSigned

LEMMA SignInitInv == SignInit => SignInv
<1> SUFFICES ASSUME SignInit PROVE SignInv
  OBVIOUS
<1>1. KeyFileInv /\ SecretGuarded
  BY BootKeyAssumption DEF SignInit, KeyFileInv, SecretGuarded
<1>2. IsSeq(<<>>)
  <2>1. <<>> \in Seq({})
    BY EmptySeq
  <2> QED BY <2>1, SeqIntro
<1>3. FileInv
  BY <1>2 DEF SignInit, FileInv
<1> QED
  BY <1>1, <1>3 DEF SignInv

\* keygen writes the public key's file first.
LEMMA KeygenInv ==
  ASSUME SignInv, NEW force \in BOOLEAN, NEW key \in Keys, cmd_keygen(force, key)
  PROVE  SignInv'
<1> USE DEF SignInv, cmd_keygen, Interrupted
<1>1. KeyFileInv'
  BY DEF KeyFileInv
<1>2. SecretGuarded'
  BY KeyFileAssumption DEF SecretGuarded
<1>3. FileInv'
  BY DEF FileInv, fileVars
<1> QED
  BY <1>1, <1>2, <1>3

\* cmd_sign of p to q that wrote as far as the bootloader reads, and one that was interrupted
\* before.
Marked(p, q) ==
  mended' = IF Ragged(bin[p]) \/ p \in mended THEN mended \cup {q} ELSE mended \ {q}

Whole(p, q, rest) ==
  /\ LET final == FinalData(bin[p], pk, sk)
     IN  rest \in {final} \cup Rests(final) /\ Sealed(rest, final)
  /\ Pair(pk, sk) \in [key : Keys, secret : Keys] \ {NoPair}
  /\ bin' = [bin EXCEPT ![q] = rest]
  /\ signed' = [signed EXCEPT ![q] = Pair(pk, sk)]
  /\ built' = [built EXCEPT ![q] = IF Ragged(bin[p]) THEN <<>> ELSE built[p]]
  /\ Marked(p, q)

Part(p, q, rest) ==
  /\ LET final == FinalData(bin[p], pk, sk)
     IN  rest \in Rests(final) /\ ~Sealed(rest, final)
  /\ bin' = [bin EXCEPT ![q] = rest]
  /\ signed' = [signed EXCEPT ![q] = NoPair]
  /\ built' = [built EXCEPT ![q] = <<>>]
  /\ Marked(p, q)

LEMMA SignSteps ==
  ASSUME SignInv, NEW p \in Paths, NEW q \in Paths, cmd_sign(p, q)
  PROVE  \E rest : Whole(p, q, rest) \/ Part(p, q, rest)
<1> DEFINE final == FinalData(bin[p], pk, sk)
           from  == IF Ragged(bin[p]) THEN <<>> ELSE built[p]
<1>1. Pair(pk, sk) \in [key : Keys, secret : Keys] \ {NoPair} /\ Marked(p, q)
  BY PairAssumption DEF cmd_sign, Pair, Marked
<1>2. Sealed(final, final)
  <2> DEFINE data == SignedData(bin[p])
             u    == PqcUnits(BuildBlock(pk, sk, data))[4]
  <2>1. IsSeq(bin[p])
    BY DEF SignInv, FileInv
  <2>2. Len(final) = Len(data) + 4 /\ final[Len(data) + 4] = u
    <3> HIDE DEF final, data
    <3> QED BY <2>1, FinalParts DEF final, data
  <2>3. u.kind = "pqc" /\ u.i = 4
    <3>1. ASSUME NEW b PROVE PqcUnits(b)[4] = [kind |-> "pqc", block |-> b, i |-> 4]
      BY BlockUnits
    <3>2. u = [kind |-> "pqc", block |-> BuildBlock(pk, sk, data), i |-> 4]
      BY <3>1
    <3> HIDE DEF u
    <3> QED BY <3>2
  <2> HIDE DEF final, u
  <2> QED BY <2>2, <2>3 DEF Sealed, BlockEnd, Origin, PQC_SIG_BLOCK_SIZE
<1>3. CASE /\ bin' = [bin EXCEPT ![q] = final]
           /\ built' = [built EXCEPT ![q] = from]
           /\ signed' = [signed EXCEPT ![q] = Pair(pk, sk)]
  <2>1. Whole(p, q, final)
    BY <1>1, <1>2, <1>3 DEF Whole
  <2> QED BY <2>1
<1>4. CASE \E rest \in Rests(final) :
             LET sealed == Sealed(rest, final)
             IN  /\ bin' = [bin EXCEPT ![q] = rest]
                 /\ built' = [built EXCEPT ![q] = IF sealed THEN from ELSE <<>>]
                 /\ signed' = [signed EXCEPT ![q] = IF sealed THEN Pair(pk, sk) ELSE NoPair]
  <2>1. PICK rest \in Rests(final) :
          LET sealed == Sealed(rest, final)
          IN  /\ bin' = [bin EXCEPT ![q] = rest]
              /\ built' = [built EXCEPT ![q] = IF sealed THEN from ELSE <<>>]
              /\ signed' = [signed EXCEPT ![q] = IF sealed THEN Pair(pk, sk) ELSE NoPair]
    BY <1>4
  <2>2. CASE Sealed(rest, final)
    <3>1. Whole(p, q, rest)
      BY <1>1, <2>1, <2>2 DEF Whole
    <3> QED BY <3>1
  <2>3. CASE ~Sealed(rest, final)
    <3>1. Part(p, q, rest)
      BY <1>1, <2>1, <2>3 DEF Part
    <3> QED BY <3>1
  <2> QED BY <2>2, <2>3
<1> QED
  BY <1>3, <1>4 DEF cmd_sign

\* What both leave in the output.
LEMMA WholeWritten ==
  ASSUME SignInv, NEW p \in Paths, NEW q \in Paths, NEW rest, Whole(p, q, rest)
  PROVE  /\ IsSeq(bin[p]) /\ IsSeq(rest) /\ WrittenWith(rest, Pair(pk, sk))
         /\ Len(rest) = Len(SignedData(bin[p])) + 4 /\ Len(SignedData(bin[p])) \in Nat
         /\ FirstN(rest, Len(SignedData(bin[p]))) = SignedData(bin[p])
<1>1. IsSeq(bin[p])
  BY DEF SignInv, FileInv
<1>2. Len(SignedData(bin[p])) \in Nat
  BY <1>1, SignedDataIsSeq
<1> QED
  BY <1>1, <1>2, SealedWritten DEF Whole

LEMMA PartLeft ==
  ASSUME SignInv, NEW p \in Paths, NEW q \in Paths, NEW rest, Part(p, q, rest)
  PROVE  /\ IsSeq(bin[p]) /\ IsSeq(rest)
         /\ NoBlockEnd(SignedData(bin[p])) => NoBlockEnd(rest)
<1> DEFINE final == FinalData(bin[p], pk, sk)
<1>1. IsSeq(bin[p])
  BY DEF SignInv, FileInv
<1>2. IsSeq(final) /\ rest \in Rests(final) /\ ~Sealed(rest, final)
  BY <1>1, FinalParts DEF Part
<1>3. NoBlockEnd(SignedData(bin[p])) => NoBlockEnd(rest)
  BY <1>1, <1>2, RestFree
<1> HIDE DEF final
<1> QED
  BY <1>1, <1>2, <1>3, RestUnits

\* cmd_sign leaves its output written with the key files' keys, or cut.
LEMMA SignStepInv ==
  ASSUME SignInv, NEW p \in Paths, NEW q \in Paths, cmd_sign(p, q)
  PROVE  SignInv'
<1>1. KeyFileInv' /\ SecretGuarded'
  BY DEF SignInv, KeyFileInv, SecretGuarded, cmd_sign, keyVars
<1>2. ASSUME NEW rest, Whole(p, q, rest) PROVE FileInv'
  <2>1. IsSeq(rest) /\ WrittenWith(rest, Pair(pk, sk))
    BY <1>2, WholeWritten
  <2>2. /\ Pair(pk, sk) \in [key : Keys, secret : Keys]
        /\ bin' = [bin EXCEPT ![q] = rest] /\ signed' = [signed EXCEPT ![q] = Pair(pk, sk)]
    BY <1>2 DEF Whole
  <2> QED BY <2>1, <2>2 DEF SignInv, FileInv
<1>3. ASSUME NEW rest, Part(p, q, rest) PROVE FileInv'
  <2>1. IsSeq(rest)
    BY <1>3, PartLeft
  <2> QED BY <1>3, <2>1 DEF Part, SignInv, FileInv
<1> QED
  BY <1>1, <1>2, <1>3, SignSteps DEF SignInv

LEMMA BuildAppInv ==
  ASSUME SignInv, NEW p \in Paths, NEW a \in Apps, BuildApp(p, a)
  PROVE  SignInv'
<1>1. KeyFileInv' /\ SecretGuarded'
  BY DEF SignInv, KeyFileInv, SecretGuarded, BuildApp, keyVars
<1>2. PICK d : IsSeq(d) /\ bin' = [bin EXCEPT ![p] = d]
  BY BuiltIsSeq DEF BuildApp
<1>3. FileInv'
  BY <1>2 DEF SignInv, FileInv, BuildApp
<1> QED
  BY <1>1, <1>3 DEF SignInv

LEMMA SignNextInv == SignInv /\ [SignNext]_signVars => SignInv'
<1> SUFFICES ASSUME SignInv, [SignNext]_signVars PROVE SignInv'
  OBVIOUS
<1>1. ASSUME NEW force \in BOOLEAN, NEW key \in Keys, cmd_keygen(force, key)
      PROVE  SignInv'
  BY <1>1, KeygenInv
<1>2. CASE cmd_header
  BY <1>2 DEF SignInv, KeyFileInv, FileInv, SecretGuarded, cmd_header, Interrupted, keyVars, fileVars
<1>3. ASSUME NEW p \in Paths, NEW q \in Paths, cmd_sign(p, q)
      PROVE  SignInv'
  BY <1>3, SignStepInv
<1>4. CASE BuildBootloader
  BY <1>4 DEF SignInv, KeyFileInv, FileInv, SecretGuarded, BuildBootloader, keyVars, fileVars
<1>5. ASSUME NEW p \in Paths, NEW a \in Apps, BuildApp(p, a)
      PROVE  SignInv'
  BY <1>5, BuildAppInv
<1>6. CASE UNCHANGED signVars
  BY <1>6 DEF SignInv, KeyFileInv, FileInv, SecretGuarded, signVars, keyVars, fileVars
<1> QED
  BY <1>1, <1>2, <1>3, <1>4, <1>5, <1>6 DEF SignNext

\* The inductive invariant of the key files and of the files that are signed.
THEOREM SInvariant == SignSpec => []SignInv
BY SignInitInv, SignNextInv, PTL DEF SignSpec

-----------------------------------------------------------------------------
(* The blocks in the files.                                                *)

\* What the commands and the builds do to the files.
LEMMA FileSteps ==
  ASSUME SignInv, [SignNext]_signVars
  PROVE  \/ UNCHANGED fileVars
         \/ \E p, q \in Paths : \E rest : Whole(p, q, rest) \/ Part(p, q, rest)
         \/ \E p \in Paths, a \in Apps : BuildApp(p, a)
<1>1. CASE \E force \in BOOLEAN, key \in Keys : cmd_keygen(force, key)
  BY <1>1 DEF cmd_keygen
<1>2. CASE cmd_header \/ BuildBootloader
  BY <1>2 DEF cmd_header, BuildBootloader
<1>3. CASE \E p, q \in Paths : cmd_sign(p, q)
  BY <1>3, SignSteps
<1> QED
  BY <1>1, <1>2, <1>3 DEF SignNext, signVars

\* What strip_pqc_sector leaves of a file that does not end in a torn unit holds the end of no
\* block, and of a signed file it leaves what the block covers.
LEMMA StrippedFree ==
  ASSUME SignInv, BlockInv, NEW p \in Paths, ~Ragged(bin[p])
  PROVE  /\ IsSeq(bin[p])
         /\ p \notin mended => NoBlockEnd(strip_pqc_sector(bin[p]))
         /\ signed[p] # NoPair => strip_pqc_sector(bin[p]) = Covered(p)
<1>1. IsSeq(bin[p]) /\ (signed[p] # NoPair => WrittenWith(bin[p], signed[p]))
  BY DEF SignInv, FileInv
<1>2. p \notin mended => NoBlockEnd(Covered(p))
  BY DEF BlockInv
<1>3. CASE signed[p] = NoPair
  BY <1>1, <1>2, <1>3, StrippedUnits DEF Covered, NoBlockEnd
<1>4. CASE signed[p] # NoPair
  BY <1>1, <1>2, <1>4, WrittenStripped DEF Covered
<1> QED
  BY <1>1, <1>3, <1>4

\* Signing, seen from the file.
LEMMA WholeCovered ==
  ASSUME SignInv, NEW p \in Paths, NEW q \in Paths, NEW rest, Whole(p, q, rest)
  PROVE  /\ signed'[q] # NoPair /\ Covered(q)' = SignedData(bin[p])
         /\ \A r \in Paths \ {q} : Covered(r)' = Covered(r) /\ signed'[r] = signed[r]
<1>1. DOMAIN bin = Paths /\ DOMAIN signed = Paths
  BY DEF SignInv, FileInv
<1>2. signed'[q] # NoPair /\ bin'[q] = rest
  BY <1>1 DEF Whole
<1>3. Len(rest) - 4 = Len(SignedData(bin[p]))
  BY WholeWritten
<1>4. FirstN(rest, Len(SignedData(bin[p]))) = SignedData(bin[p])
  BY WholeWritten
<1>5. \A r \in Paths \ {q} : Covered(r)' = Covered(r) /\ signed'[r] = signed[r]
  BY <1>1 DEF Whole, Covered
<1> QED
  BY <1>2, <1>3, <1>4, <1>5 DEF Covered, PQC_SIG_BLOCK_SIZE

LEMMA OtherCovered ==
  ASSUME SignInv, NEW q \in Paths, NEW d, bin' = [bin EXCEPT ![q] = d],
         signed' = [signed EXCEPT ![q] = NoPair]
  PROVE  /\ signed'[q] = NoPair /\ Covered(q)' = d
         /\ \A r \in Paths \ {q} : Covered(r)' = Covered(r) /\ signed'[r] = signed[r]
BY DEF SignInv, FileInv, Covered

\* A build's files hold no PQC block.
LEMMA BuiltUnits ==
  ASSUME NEW a \in Apps
  PROVE  /\ \A u \in Units(AppUnits(a)) : u.kind = "app"
         /\ \A u \in Units(Ready(a)) : u.kind \in {"app", "ff", "classic"}
<1>1. ASSUME NEW u \in Units(AppUnits(a)) PROVE u.kind = "app"
  <2>1. PICK i \in DOMAIN AppUnits(a) : u = AppUnits(a)[i]
    BY DEF Units
  <2>2. i \in 1..a.len
    BY <2>1 DEF AppUnits
  <2>3. AppUnits(a)[i] = [kind |-> "app", app |-> a.name, i |-> i, e8 |-> i \in a.e8]
    BY <2>2 DEF AppUnits
  <2> QED BY <2>1, <2>3
<1>2. IsSeq(AppUnits(a)) /\ IsSeq(pad_to_sector(AppUnits(a)))
  BY BuiltIsSeq, PaddedIsSeq
<1>3. ~Ragged(AppUnits(a))
  <2> DEFINE d == AppUnits(a)
  <2>1. Len(d) \in Nat /\ DOMAIN d = 1..Len(d) /\ (d # <<>> => Len(d) # 0)
    <3> HIDE DEF d
    <3>1. IsSeq(d)
      BY <1>2 DEF d
    <3> QED BY <3>1, LenProperties, EmptySeq DEF IsSeq
  <2>2. d # <<>> => d[Len(d)] \in Units(d)
    BY <2>1 DEF Units
  <2>3. d # <<>> => d[Len(d)].kind = "app"
    BY <1>1, <2>2
  <2> HIDE DEF d
  <2> QED BY <2>3 DEF Ragged, d
<1>4. \A u \in Units(pad_to_sector(AppUnits(a))) : u.kind \in {"app", "ff"}
  <2>1. \A u \in Units(pad_to_sector(AppUnits(a))) : u \in Units(AppUnits(a)) \/ u.kind = "ff"
    BY <1>2, <1>3, PaddedUnits
  <2> QED BY <1>1, <2>1
<1>5. \A u \in Units(Ready(a)) : u \in Units(pad_to_sector(AppUnits(a))) \/ u.kind = "classic"
  BY <1>2, ClassicSignedUnits DEF Ready
<1> QED
  BY <1>1, <1>4, <1>5

LEMMA BlockInitInv == SignInit => BlockInv
BY DEF SignInit, BlockInv, Covered, NoBlockEnd, Units

LEMMA BlockStepInv == SignInv /\ BlockInv /\ [SignNext]_signVars => BlockInv'
<1> SUFFICES ASSUME SignInv, BlockInv, [SignNext]_signVars PROVE BlockInv'
  OBVIOUS
<1>1. CASE UNCHANGED fileVars
  BY <1>1 DEF fileVars, BlockInv, Covered
<1>2. ASSUME NEW p \in Paths, NEW q \in Paths, Marked(p, q), q \notin mended'
      PROVE  IsSeq(bin[p]) /\ NoBlockEnd(SignedData(bin[p]))
  <2>1. ~Ragged(bin[p]) /\ p \notin mended
    BY <1>2 DEF Marked
  <2> QED BY <2>1, StrippedFree, SignedDataUnits
<1>3. ASSUME NEW p \in Paths, NEW q \in Paths, Marked(p, q), NEW r \in Paths \ {q}
      PROVE  r \in mended' <=> r \in mended
  BY <1>3 DEF Marked
<1>5. ASSUME NEW p \in Paths, NEW q \in Paths, NEW rest, Whole(p, q, rest)
      PROVE  BlockInv'
  <2>1. Marked(p, q)
    BY <1>5 DEF Whole
  <2>2. HasClassic(SignedData(bin[p]))
    BY <1>5, WholeWritten, SignedDataHas
  <2>3. q \notin mended' => NoBlockEnd(SignedData(bin[p]))
    BY <1>2, <2>1
  <2>4. \A r \in Paths \ {q} : r \in mended' <=> r \in mended
    BY <1>3, <2>1
  <2>5. /\ signed'[q] # NoPair /\ Covered(q)' = SignedData(bin[p])
        /\ \A r \in Paths \ {q} : Covered(r)' = Covered(r) /\ signed'[r] = signed[r]
    BY <1>5, WholeCovered
  <2> QED BY <2>2, <2>3, <2>4, <2>5 DEF BlockInv
<1>6. ASSUME NEW p \in Paths, NEW q \in Paths, NEW rest, Part(p, q, rest)
      PROVE  BlockInv'
  <2>1. Marked(p, q)
    BY <1>6 DEF Part
  <2>2. q \notin mended' => NoBlockEnd(rest)
    BY <1>2, <1>6, <2>1, PartLeft
  <2>3. \A r \in Paths \ {q} : r \in mended' <=> r \in mended
    BY <1>3, <2>1
  <2>4. /\ signed'[q] = NoPair /\ Covered(q)' = rest
        /\ \A r \in Paths \ {q} : Covered(r)' = Covered(r) /\ signed'[r] = signed[r]
    BY <1>6, OtherCovered DEF Part
  <2> QED BY <2>2, <2>3, <2>4 DEF BlockInv
<1>4. ASSUME NEW p \in Paths, NEW a \in Apps, BuildApp(p, a)
      PROVE  BlockInv'
  <2>1. PICK d \in {AppUnits(a), Ready(a)} : bin' = [bin EXCEPT ![p] = d]
    BY <1>4 DEF BuildApp, Ready
  <2>2. NoBlockEnd(d)
    BY BuiltUnits DEF NoBlockEnd, BlockEnd, Origin
  <2>3. signed' = [signed EXCEPT ![p] = NoPair] /\ mended' = mended \ {p}
    BY <1>4 DEF BuildApp
  <2>4. /\ signed'[p] = NoPair /\ Covered(p)' = d
        /\ \A r \in Paths \ {p} : Covered(r)' = Covered(r) /\ signed'[r] = signed[r]
    BY <2>1, <2>3, OtherCovered
  <2> QED BY <2>2, <2>3, <2>4 DEF BlockInv
<1> QED
  BY <1>1, <1>4, <1>5, <1>6, FileSteps

\* The block at the end of a signed file is the only one with its checksum in any file that is
\* not mended, and what it covers ends with an intact classical signature.
THEOREM SBlockInvariant == SignSpec => []BlockInv
<1>1. SignSpec => []SignInv
  BY SInvariant
<1> QED
  BY <1>1, BlockInitInv, BlockStepInv, PTL DEF SignSpec

\* Only a file that the last sign command wrote, up to its block's checksum at least, with the
\* pair of the bootloader's header boots, unless a file with a torn end was signed.
THEOREM SBootsOnlyMatched == SignSpec => []BootsOnlyMatched
<1>1. SignInv /\ BlockInv => BootsOnlyMatched
  <2> SUFFICES ASSUME SignInv, BlockInv, NEW p \in Paths \ mended, BootAccepts(bin[p], fw)
               PROVE  signed[p] = Pair(fw, fw)
    BY DEF BootsOnlyMatched
  <2> DEFINE d == bin[p]
  <2>1. PICK a \in Apps :
          LET n == Len(Ready(a))
          IN  /\ Len(d) >= n + 4 /\ FirstN(d, n) = Ready(a)
              /\ BlockAccepted(SubSeq(d, n + 1, n + 4), FirstN(d, n), fw)
              /\ d[n + 1].block.key = fw
    BY DEF BootAccepts, Ready, PQC_SIG_BLOCK_SIZE
  <2> DEFINE n     == Len(Ready(a))
             units == SubSeq(d, n + 1, n + 4)
             b     == units[1].block
  <2>2. IsSeq(d) /\ Len(d) \in Nat /\ n \in Nat
    <3>1. IsSeq(d) /\ IsSeq(Ready(a))
      BY BuiltIsSeq DEF SignInv, FileInv, Ready
    <3> QED BY <3>1, LenProperties DEF IsSeq
  <2>3. \A i \in 1..4 : units[i] = d[n + i]
    <3> HIDE DEF n, d
    <3>1. n + 4 <= Len(d)
      BY <2>1, <2>2 DEF n
    <3> QED BY <2>2, <3>1, Window
  <2>4. /\ Holds(units, b)
        /\ MlDsaVerify(b.digest, b.sig, b.sigLen, fw)
        /\ b.key = fw
    BY <2>1, <2>3 DEF BlockAccepted
  <2> HIDE DEF b
  <2>5. BlockEnd(d[n + 4]) /\ d[n + 1] = units[1]
    <3> HIDE DEF units, n, d
    <3>1. BlockEnd(units[4])
      BY <2>4 DEF Holds, PQC_SIG_BLOCK_SIZE
    <3> QED BY <2>3, <3>1
  <2> HIDE DEF units, n
  <2>6. d[n + 4] \in Units(d) /\ n + 4 \in 1..Len(d)
    <3>1. n + 4 \in 1..Len(d)
      BY <2>1, <2>2 DEF n
    <3> QED BY <2>2, <3>1, LenProperties DEF IsSeq, Units
  <2>7. signed[p] # NoPair
    BY <2>5, <2>6 DEF BlockInv, Covered, NoBlockEnd
  <2> DEFINE data == FirstN(d, Len(d) - PQC_SIG_BLOCK_SIZE)
             own  == BuildBlock(signed[p].key, signed[p].secret, data)
  <2>8. WrittenWith(d, signed[p]) /\ signed[p] \in [key : Keys, secret : Keys]
    BY <2>7 DEF SignInv, FileInv
  <2>9. /\ Len(data) \in Nat /\ IsSeq(data) /\ Len(d) = Len(data) + 4
        /\ \A i \in 1..3 : d[Len(data) + i] = PqcUnits(own)[i]
        /\ \A i \in 1..Len(data) : d[i] = data[i]
    <3>1. MadeOf(d, data, signed[p])
      BY <2>2, <2>8, WrittenParts
    <3> HIDE DEF data, d
    <3> QED BY <3>1 DEF MadeOf
  <2>10. n = Len(data)
    <3>1. CASE n + 4 <= Len(data)
      <4>1. n + 4 \in 1..Len(data) /\ d[n + 4] = data[n + 4]
        BY <2>2, <2>9, <3>1
      <4>2. d[n + 4] \in Units(data)
        BY <2>9, <4>1, LenProperties DEF IsSeq, Units
      <4>3. NoBlockEnd(data)
        BY <2>7 DEF BlockInv, Covered
      <4> QED BY <2>5, <4>2, <4>3 DEF NoBlockEnd
    <3>2. CASE n + 4 > Len(data)
      <4>1. PICK i \in 1..4 : n + 4 = Len(data) + i
        <5>1. n + 4 - Len(data) \in 1..4 /\ n + 4 = Len(data) + (n + 4 - Len(data))
          <6>1. n + 4 <= Len(data) + 4
            BY <2>6, <2>9
          <6> HIDE DEF data
          <6> QED BY <2>2, <2>9, <3>2, <6>1
        <5> QED BY <5>1
      <4>2. i = 4
        <5>1. SUFFICES ASSUME i \in 1..3 PROVE FALSE
          OBVIOUS
        <5>2. d[n + 4] = PqcUnits(own)[i]
          BY <2>9, <4>1, <5>1
        <5> HIDE DEF own
        <5>3. d[n + 4] = [kind |-> "pqc", block |-> own, i |-> i]
          BY <5>2, BlockUnits
        <5> QED BY <2>5, <5>1, <5>3 DEF BlockEnd, Origin, PQC_SIG_BLOCK_SIZE
      <4> QED BY <2>2, <2>9, <4>1, <4>2
    <3> QED BY <2>2, <2>9, <3>1, <3>2
  <2>11. b = own
    <3>1. units[1] = PqcUnits(own)[1]
      <4>1. 1 \in 1..3
        OBVIOUS
      <4> QED BY <2>5, <2>9, <2>10, <4>1
    <3>2. PqcUnits(own)[1].block = own
      <4> HIDE DEF own
      <4> QED BY BlockUnits
    <3> QED BY <3>1, <3>2 DEF b
  <2>12. signed[p].key = fw /\ signed[p].secret = fw
    BY <2>4, <2>11 DEF BuildBlock, MlDsaVerify
  <2> QED BY <2>8, <2>12 DEF Pair
<1> QED
  BY <1>1, SInvariant, SBlockInvariant, PTL

\* The two who accept files agree on those written to their end: what boots then passes
\* cmd_verify under the key in the bootloader, although one looks behind the image and the
\* other at the end of the file. A file whose last block lacks padding boots and does not pass.
THEOREM SBootsVerified ==
  SignSpec => [](\A p \in Paths \ mended :
                   BootAccepts(bin[p], fw) => (Verifies(bin[p], fw) <=> ~Ragged(bin[p])))
<1>1. SignInv /\ BootsOnlyMatched
        => (\A p \in Paths \ mended :
              BootAccepts(bin[p], fw) => (Verifies(bin[p], fw) <=> ~Ragged(bin[p])))
  <2> SUFFICES ASSUME SignInv, BootsOnlyMatched, NEW p \in Paths \ mended,
                      BootAccepts(bin[p], fw)
               PROVE  Verifies(bin[p], fw) <=> ~Ragged(bin[p])
    OBVIOUS
  <2>1. signed[p] = Pair(fw, fw) /\ fw \in Keys \cup {NoKey}
    BY DEF BootsOnlyMatched, SignInv, KeyFileInv
  <2>2. signed[p] # NoPair /\ signed[p].key = fw /\ signed[p].secret = fw
    BY <2>1, PairAssumption DEF Pair
  <2>3. ~Ragged(bin[p]) => Verifies(bin[p], fw)
    BY <2>2, WrittenVerifies DEF SignInv, FileInv
  <2> QED BY <2>3 DEF Verifies
<1> QED
  BY <1>1, SInvariant, SBootsOnlyMatched, PTL

\* Signing a signed file again, if it was written to its end, leaves its image and its
\* classical signature alone and gives a file of the same length.
THEOREM SResignKeepsImage == SignSpec => ResignKeepsImage
<1>1. SignInv /\ BlockInv => [ \A p \in Paths :
        signed[p] # NoPair /\ ~Ragged(bin[p]) /\ signed'[p] # NoPair /\ cmd_sign(p, p)
          => LET n == Len(bin[p]) - PQC_SIG_BLOCK_SIZE
             IN  Len(bin'[p]) = Len(bin[p]) /\ FirstN(bin'[p], n) = FirstN(bin[p], n) ]_signVars
  <2> SUFFICES ASSUME SignInv, BlockInv, NEW p \in Paths, cmd_sign(p, p),
                      signed[p] # NoPair, signed'[p] # NoPair, ~Ragged(bin[p])
               PROVE  LET n == Len(bin[p]) - PQC_SIG_BLOCK_SIZE
                      IN  /\ Len(bin'[p]) = Len(bin[p])
                          /\ FirstN(bin'[p], n) = FirstN(bin[p], n)
    OBVIOUS
  <2> DEFINE d    == bin[p]
             data == FirstN(d, Len(d) - PQC_SIG_BLOCK_SIZE)
  <2>1. PICK rest : Whole(p, p, rest)
    <3>1. \A rest : ~Part(p, p, rest)
      BY DEF Part, SignInv, FileInv
    <3> QED BY <3>1, SignSteps
  <2>2. IsSeq(d) /\ strip_pqc_sector(d) = data /\ HasClassic(data)
    BY StrippedFree DEF BlockInv, Covered
  <2>3. SignedData(d) = data
    BY <2>2 DEF SignedData
  <2>4. Len(data) \in Nat /\ Len(d) = Len(data) + 4
    <3>1. MadeOf(d, data, signed[p])
      BY <2>2, WrittenParts DEF SignInv, FileInv
    <3> HIDE DEF d, data
    <3> QED BY <3>1 DEF MadeOf
  <2>5. bin'[p] = rest
    BY <2>1 DEF Whole, SignInv, FileInv
  <2>6. Len(rest) = Len(data) + 4 /\ FirstN(rest, Len(data)) = data
    BY <2>1, <2>3, WholeWritten
  <2>7. Len(d) - PQC_SIG_BLOCK_SIZE = Len(data)
    <3> HIDE DEF d, data
    <3> QED BY <2>4 DEF PQC_SIG_BLOCK_SIZE
  <2> QED BY <2>4, <2>5, <2>6, <2>7
<1> QED
  BY <1>1, SInvariant, SBlockInvariant, PTL DEF ResignKeepsImage

-----------------------------------------------------------------------------
(* Types.                                                                  *)

OfKinds(d) == \A u \in Units(d) : u.kind \in {"app", "ff", "classic", "pqc", "torn"}

\* The type invariant, of functions on the paths.
TypeInv == SignTypeOK /\ DOMAIN built = Paths

LEMMA TypeInitInv == SignInit => TypeInv
<1> SUFFICES ASSUME SignInit PROVE TypeInv
  OBVIOUS
<1>1. KeyFileInv
  BY SignInitInv DEF SignInv
<1>2. \A p \in Paths : bin[p] = <<>> /\ built[p] = <<>> /\ signed[p] = NoPair
  BY DEF SignInit
<1>3. tears \in 0..MaxTears /\ mended \subseteq Paths /\ DOMAIN built = Paths
  BY BoundAssumption DEF SignInit
<1> QED
  BY <1>1, <1>2, <1>3 DEF TypeInv, SignTypeOK

\* A signed file has units of these kinds if the input has, and a cut one too.
LEMMA FinalKinds ==
  ASSUME NEW d, IsSeq(d), OfKinds(d), NEW key, NEW secret,
         NEW final, final = FinalData(d, key, secret)
  PROVE  OfKinds(final) /\ \A rest \in Rests(final) : OfKinds(rest)
<1> DEFINE block == BuildBlock(key, secret, SignedData(d))
<1>1. OfKinds(SignedData(d))
  BY SignedDataUnits DEF OfKinds
<1>2. OfKinds(PqcUnits(block))
  <2> HIDE DEF block
  <2>1. ASSUME NEW u \in Units(PqcUnits(block)) PROVE u.kind = "pqc"
    <3>1. PICK i \in DOMAIN PqcUnits(block) : u = PqcUnits(block)[i]
      BY DEF Units
    <3> QED BY <3>1 DEF PqcUnits
  <2> QED BY <2>1 DEF OfKinds
<1>3. IsSeq(SignedData(d)) /\ IsSeq(PqcUnits(block))
  BY SignedDataIsSeq, BlockUnits
<1>4. OfKinds(final)
  <2>1. final = SignedData(d) \o PqcUnits(block)
    BY DEF FinalData
  <2> HIDE DEF block
  <2> QED BY <1>1, <1>2, <1>3, <2>1, JoinedUnits DEF OfKinds
<1>5. IsSeq(final)
  BY FinalParts
<1>6. ASSUME NEW rest \in Rests(final) PROVE OfKinds(rest)
  BY <1>4, <1>5, RestUnits DEF OfKinds
<1> QED
  BY <1>4, <1>6

LEMMA TearsBounded ==
  ASSUME tears \in 0..MaxTears, [SignNext]_signVars PROVE tears' \in 0..MaxTears
<1>1. tears' = tears \/ (tears < MaxTears /\ tears' = tears + 1)
  BY DEF SignNext, signVars, cmd_keygen, cmd_header, cmd_sign, BuildBootloader, BuildApp,
         Interrupted
<1> QED
  BY <1>1, BoundAssumption

LEMMA TypeStepInv == SignInv /\ TypeInv /\ [SignNext]_signVars => TypeInv'
<1> SUFFICES ASSUME SignInv, TypeInv, [SignNext]_signVars PROVE TypeInv'
  OBVIOUS
<1> DEFINE Made    == {<<>>} \cup { AppUnits(a) : a \in Apps }
           File(p) == OfKinds(bin[p]) /\ built[p] \in Made
<1>1. SignInv' /\ tears' \in 0..MaxTears
  BY SignNextInv, TearsBounded DEF TypeInv, SignTypeOK
<1>2. DOMAIN bin = Paths /\ DOMAIN built = Paths /\ \A p \in Paths : IsSeq(bin[p]) /\ File(p)
  BY DEF SignInv, FileInv, TypeInv, SignTypeOK, OfKinds, Units
<1>3. \A p \in Paths : File(p)' /\ DOMAIN built' = Paths
  <2>1. CASE UNCHANGED fileVars
    BY <1>2, <2>1 DEF fileVars
  <2>2. ASSUME NEW p \in Paths, NEW q \in Paths, NEW d, OfKinds(d), NEW b \in Made,
               bin' = [bin EXCEPT ![q] = d], built' = [built EXCEPT ![q] = b]
        PROVE  \A r \in Paths : File(r)' /\ DOMAIN built' = Paths
    BY <1>2, <2>2
  <2>3. ASSUME NEW p \in Paths, NEW q \in Paths, NEW rest, Whole(p, q, rest)
        PROVE  \A r \in Paths : File(r)' /\ DOMAIN built' = Paths
    <3>1. OfKinds(rest)
      BY <1>2, <2>3, FinalKinds DEF Whole
    <3>2. PICK b \in Made : built' = [built EXCEPT ![q] = b]
      BY <1>2, <2>3 DEF Whole
    <3>3. bin' = [bin EXCEPT ![q] = rest]
      BY <2>3 DEF Whole
    <3> QED BY <2>2, <3>1, <3>2, <3>3
  <2>4. ASSUME NEW p \in Paths, NEW q \in Paths, NEW rest, Part(p, q, rest)
        PROVE  \A r \in Paths : File(r)' /\ DOMAIN built' = Paths
    <3>1. OfKinds(rest)
      BY <1>2, <2>4, FinalKinds DEF Part
    <3>2. <<>> \in Made /\ bin' = [bin EXCEPT ![q] = rest] /\ built' = [built EXCEPT ![q] = <<>>]
      BY <2>4 DEF Part
    <3> QED BY <2>2, <3>1, <3>2
  <2>5. ASSUME NEW p \in Paths, NEW a \in Apps, BuildApp(p, a)
        PROVE  \A r \in Paths : File(r)' /\ DOMAIN built' = Paths
    <3>1. PICK d \in {AppUnits(a), Ready(a)} : bin' = [bin EXCEPT ![p] = d]
      BY <2>5 DEF BuildApp, Ready
    <3>2. OfKinds(d)
      BY BuiltUnits DEF OfKinds
    <3>3. AppUnits(a) \in Made /\ built' = [built EXCEPT ![p] = AppUnits(a)]
      BY <2>5 DEF BuildApp
    <3> QED BY <2>2, <3>1, <3>2, <3>3
  <2> QED BY <2>1, <2>3, <2>4, <2>5, FileSteps
<1>4. DOMAIN built' = Paths /\ mended' \subseteq Paths
  BY <1>2, FileSteps DEF TypeInv, SignTypeOK, fileVars, BuildApp, Whole, Part, Marked
<1> QED
  BY <1>1, <1>3, <1>4 DEF SignInv, FileInv, TypeInv, SignTypeOK, OfKinds, Units

\* The type invariant of the keys, the header, the files and what they were made from.
THEOREM STypeInvariant == SignSpec => []TypeInv
BY SInvariant, TypeInitInv, TypeStepInv, PTL DEF SignSpec

\* The key files, the header and the application files keep their types, whatever command
\* or interruption wrote them last.
THEOREM SSignTypeCorrect == SignSpec => []SignTypeOK
<1>1. TypeInv => SignTypeOK
  BY DEF TypeInv
<1> QED
  BY <1>1, STypeInvariant, PTL

-----------------------------------------------------------------------------
(* Applications whose code does not look like a block.                     *)

\* The units of an application, alone and with padding and signature sector.
LEMMA AppParts ==
  ASSUME NEW a \in Apps
  PROVE  /\ Len(AppUnits(a)) = a.len /\ a.len \in Nat \ {0}
         /\ \A i \in 1..a.len :
              AppUnits(a)[i].kind = "app" /\ AppUnits(a)[i].e8 = (i \in a.e8)
         /\ Len(Ready(a)) = a.len + (a.len % SECTOR_SIZE) + 2
         /\ \A i \in 1..a.len : Ready(a)[i] = AppUnits(a)[i]
<1> DEFINE d  == AppUnits(a)
           e  == pad_to_sector(d)
           ff == [kind |-> "ff"]
           S  == Units(d) \cup {ff}
<1>1. a.len \in Nat \ {0}
  BY AppAssumption
<1>2. d \in Seq(S) /\ ff \in S /\ IsSeq(d) /\ IsSeq(e)
  BY BuiltIsSeq, PaddedIsSeq, SeqMonotonic DEF IsSeq
<1>3. Len(d) = a.len
  <2>1. DOMAIN d = 1..a.len
    BY DEF AppUnits
  <2> HIDE DEF d
  <2> QED BY <1>1, <1>2, <2>1, LenProperties
<1>4. \A i \in 1..a.len : d[i].kind = "app" /\ d[i].e8 = (i \in a.e8)
  BY DEF AppUnits
<1>5. e = IF a.len % 2 = 0 THEN d ELSE Append(d, ff)
  <2>1. a.len \in 1..a.len
    BY <1>1
  <2>2. WholeUnits(d) = d
    BY <1>3, <1>4, <2>1 DEF WholeUnits, Ragged
  <2> HIDE DEF d
  <2> QED BY <1>3, <2>2 DEF pad_to_sector, SECTOR_SIZE, ff
<1> HIDE DEF S, ff
<1>6. Len(e) = a.len + (a.len % 2) /\ \A i \in 1..a.len : e[i] = d[i]
  <2> HIDE DEF d, e
  <2>1. CASE a.len % 2 = 0
    BY <1>1, <1>3, <1>5, <2>1
  <2>2. CASE a.len % 2 # 0
    <3>1. /\ Len(Append(d, ff)) = Len(d) + 1
          /\ \A i \in 1..Len(d) : Append(d, ff)[i] = d[i]
      BY <1>2, AppendProperties
    <3>2. a.len % 2 = 1
      BY <1>1, <2>2
    <3> QED BY <1>3, <1>5, <2>2, <3>1, <3>2
  <2> QED BY <2>1, <2>2
<1> DEFINE c == Classic(e)
           T == Units(e) \cup Units(c)
<1>7. e \in Seq(T) /\ c \in Seq(T) /\ Len(c) = 2
  BY <1>2, ClassicUnits, SeqMonotonic DEF IsSeq
<1>8. Ready(a) = e \o c
  BY DEF Ready, ClassicSigned
<1> HIDE DEF d, e, c, T
<1>9. Len(e) \in Nat /\ \A i \in 1..a.len : i \in 1..Len(e)
  <2>1. Len(e) \in Nat /\ Len(e) >= a.len
    BY <1>1, <1>6
  <2> QED BY <1>1, <2>1
<1>10. /\ Len(e \o c) = Len(e) + 2
       /\ \A i \in 1..Len(e) : (e \o c)[i] = e[i]
  <2>1. /\ Len(e \o c) = Len(e) + Len(c)
        /\ \A i \in 1..(Len(e) + Len(c)) :
             (e \o c)[i] = IF i <= Len(e) THEN e[i] ELSE c[i - Len(e)]
    BY <1>7, ConcatProperties
  <2>2. \A i \in 1..Len(e) : i \in 1..(Len(e) + 2) /\ i <= Len(e)
    BY <1>9
  <2> QED BY <1>7, <2>1, <2>2
<1> QED
  BY <1>1, <1>3, <1>4, <1>6, <1>8, <1>9, <1>10 DEF SECTOR_SIZE, d

\* strip_pqc_sector takes nothing off an application, signed classically or not.
LEMMA AppsStay ==
  ASSUME MagicApart, NEW a \in Apps
  PROVE  strip_pqc_sector(AppUnits(a)) = AppUnits(a) /\ strip_pqc_sector(Ready(a)) = Ready(a)
<1> DEFINE d == AppUnits(a)
           e == Ready(a)
<1>1. a.len \in Nat \ {0}
  BY AppParts
<1>2. a.len - 3 \notin a.e8 /\ a.len - 1 + (a.len % 2) \notin a.e8
  BY DEF MagicApart, SECTOR_SIZE
<1>3. \A i \in 1..a.len : IsMagic(d[i]) => i \in a.e8
  BY AppParts DEF IsMagic, Origin
<1>7. ~Ragged(d) /\ ~Ragged(e)
  <2>1. d[Len(d)].kind = "app"
    <3>1. Len(d) \in 1..a.len
      BY <1>1, AppParts
    <3> QED BY <3>1, AppParts
  <2>2. IsSeq(e) /\ HasClassic(e)
    BY BuiltIsSeq, PaddedIsSeq, ClassicSignedHas DEF Ready
  <2>3. ~Ragged(e)
    <3> HIDE DEF e
    <3> QED BY <2>2, HasNotRagged
  <2> QED BY <2>1, <2>3 DEF Ragged
<1>4. /\ Len(d) = a.len /\ Len(e) = a.len + (a.len % 2) + 2
      /\ \A i \in 1..a.len : e[i] = d[i]
  BY AppParts DEF SECTOR_SIZE
<1> HIDE DEF d, e
<1>5. ASSUME Len(d) >= 6 PROVE ~IsMagic(d[Len(d) - 4 + 1])
  <2>1. Len(d) - 4 + 1 = a.len - 3 /\ a.len - 3 \in 1..a.len
    BY <1>1, <1>4, <1>5
  <2> QED BY <1>2, <1>3, <2>1
<1>6. ASSUME Len(e) >= 6 PROVE ~IsMagic(e[Len(e) - 4 + 1])
  <2>1. /\ Len(e) - 4 + 1 = a.len - 1 + (a.len % 2)
        /\ a.len - 1 + (a.len % 2) \in 1..a.len
    BY <1>1, <1>4, <1>6
  <2> QED BY <1>2, <1>3, <1>4, <2>1
<1> QED
  BY <1>4, <1>5, <1>6, <1>7 DEF strip_pqc_sector, PQC_SIG_BLOCK_SIZE, SECTOR_SIZE, d, e

\* Signing an application adds what a build with signed binaries adds, and adds it once.
LEMMA AppsSigned ==
  ASSUME MagicApart, NEW a \in Apps
  PROVE  SignedData(AppUnits(a)) = Ready(a) /\ SignedData(Ready(a)) = Ready(a)
<1> DEFINE d == AppUnits(a)
<1>1. ~HasClassic(d)
  <2>1. CASE Len(d) >= 2
    <3>1. /\ IsSeq(d) /\ Len(d) = a.len /\ a.len \in Nat
          /\ \A i \in 1..a.len : d[i].kind = "app"
      BY BuiltIsSeq, AppParts
    <3> HIDE DEF d
    <3>2. \A i \in (Len(d) - 2 + 1)..Len(d) : d[i] \in Units(d)
      BY <2>1, <3>1, LenProperties DEF IsSeq, Units
    <3>3. \A i \in 1..(Len(d) - (Len(d) - 2 + 1) + 1) :
            LastN(d, 2)[i] = d[Len(d) - 2 + 1 + i - 1]
      BY <2>1, <3>1, <3>2, SubSeqProperties DEF LastN
    <3>4. LastN(d, 2)[1] = d[Len(d) - 1] /\ Len(d) - 1 \in 1..a.len
      BY <2>1, <3>1, <3>3
    <3> QED BY <3>1, <3>4 DEF HasClassic, SECTOR_SIZE
  <2>2. CASE ~(Len(d) >= 2)
    BY <2>2 DEF HasClassic, SECTOR_SIZE
  <2> QED BY <2>1, <2>2
<1>2. HasClassic(Ready(a))
  BY BuiltIsSeq, PaddedIsSeq, ClassicSignedHas DEF Ready
<1> QED
  BY <1>1, <1>2, AppsStay DEF SignedData, Ready

LEMMA BuildInitInv == SignInit => BuildInv
BY DEF SignInit, BuildInv

LEMMA BuildStepInv ==
  ASSUME MagicApart, SignInv, BlockInv, TypeInv, BuildInv, [SignNext]_signVars
  PROVE  BuildInv'
<1>1. DOMAIN built = Paths
  BY DEF TypeInv
<1>2. CASE UNCHANGED fileVars
  BY <1>2 DEF fileVars, BuildInv, Covered
<1>3. ASSUME NEW p \in Paths, NEW q \in Paths, NEW rest, Whole(p, q, rest)
      PROVE  BuildInv'
  <2>1. ~Ragged(bin[p]) =>
          IsSeq(bin[p]) /\ (signed[p] # NoPair => strip_pqc_sector(bin[p]) = Covered(p))
    BY StrippedFree
  <2>2. /\ signed'[q] # NoPair /\ Covered(q)' = SignedData(bin[p])
        /\ \A r \in Paths \ {q} : Covered(r)' = Covered(r) /\ signed'[r] = signed[r]
    BY <1>3, WholeCovered
  <2>3. ASSUME NEW a \in Apps, Covered(p) = Ready(a) \/ Covered(p) = AppUnits(a),
               signed[p] # NoPair => Covered(p) = Ready(a), ~Ragged(bin[p])
        PROVE  SignedData(bin[p]) = Ready(a)
    <3>1. CASE signed[p] = NoPair
      BY <2>3, <3>1, AppsSigned DEF Covered
    <3>2. CASE signed[p] # NoPair
      <4>1. strip_pqc_sector(bin[p]) = strip_pqc_sector(Ready(a))
        BY <2>1, <2>3, <3>2, AppsStay
      <4> QED BY <4>1, AppsSigned DEF SignedData
    <3> QED BY <3>1, <3>2
  <2>4. ASSUME built[p] # <<>>, ~Ragged(bin[p])
        PROVE  \E a \in Apps : built[p] = AppUnits(a) /\ Covered(q)' = Ready(a)
    <3>1. PICK a \in Apps :
            /\ built[p] = AppUnits(a)
            /\ Covered(p) = Ready(a) \/ (signed[p] = NoPair /\ Covered(p) = AppUnits(a))
      BY <2>4 DEF BuildInv
    <3> QED BY <2>2, <2>3, <2>4, <3>1
  <2>5. /\ built'[q] = IF Ragged(bin[p]) THEN <<>> ELSE built[p]
        /\ \A r \in Paths \ {q} : built'[r] = built[r]
    BY <1>1, <1>3 DEF Whole
  <2> QED BY <2>2, <2>4, <2>5 DEF BuildInv
<1>4. ASSUME NEW p \in Paths, NEW q \in Paths, NEW rest, Part(p, q, rest)
      PROVE  BuildInv'
  <2>1. \A r \in Paths \ {q} : Covered(r)' = Covered(r) /\ signed'[r] = signed[r]
    BY <1>4, OtherCovered DEF Part
  <2>2. built'[q] = <<>> /\ \A r \in Paths \ {q} : built'[r] = built[r]
    BY <1>1, <1>4 DEF Part
  <2> QED BY <2>1, <2>2 DEF BuildInv
<1>5. ASSUME NEW p \in Paths, NEW a \in Apps, BuildApp(p, a)
      PROVE  BuildInv'
  <2>1. PICK d \in {AppUnits(a), Ready(a)} : bin' = [bin EXCEPT ![p] = d]
    BY <1>5 DEF BuildApp, Ready
  <2>2. signed' = [signed EXCEPT ![p] = NoPair] /\ built' = [built EXCEPT ![p] = AppUnits(a)]
    BY <1>5 DEF BuildApp
  <2>3. /\ signed'[p] = NoPair /\ Covered(p)' = d
        /\ \A r \in Paths \ {p} : Covered(r)' = Covered(r) /\ signed'[r] = signed[r]
    BY <2>1, <2>2, OtherCovered
  <2>4. built'[p] = AppUnits(a) /\ \A r \in Paths \ {p} : built'[r] = built[r]
    BY <1>1, <2>2
  <2> QED BY <2>1, <2>3, <2>4 DEF BuildInv
<1> QED
  BY <1>2, <1>3, <1>4, <1>5, FileSteps

\* Where no application looks like a block, what is below the block of a file that was made
\* from a build is the application with its padding and signature sector.
THEOREM SBuildInvariant == MagicApart => (SignSpec => []BuildInv)
<1> SUFFICES ASSUME MagicApart PROVE SignSpec => []BuildInv
  OBVIOUS
<1>1. SignInv /\ BlockInv /\ TypeInv /\ BuildInv /\ [SignNext]_signVars => BuildInv'
  BY BuildStepInv
<1> QED
  BY <1>1, BuildInitInv, SInvariant, SBlockInvariant, STypeInvariant, PTL DEF SignSpec

\* Where no application looks like a block, an application that was built and then signed
\* with the pair of the bootloader's header boots, however often it was signed.
THEOREM SSignedBoots == MagicApart => (SignSpec => []SignedBoots)
<1>1. SignInv /\ BuildInv => SignedBoots
  <2> SUFFICES ASSUME SignInv, BuildInv, NEW p \in Paths,
                      signed[p] = Pair(fw, fw), built[p] # <<>>
               PROVE  BootAccepts(bin[p], fw)
    BY DEF SignedBoots
  <2> DEFINE d     == bin[p]
             data  == FirstN(d, Len(d) - PQC_SIG_BLOCK_SIZE)
             block == BuildBlock(fw, fw, data)
  <2>1. IsSeq(d) /\ fw \in Keys \cup {NoKey}
    BY DEF SignInv, FileInv, KeyFileInv
  <2>2. signed[p] # NoPair
    BY <2>1, PairAssumption DEF Pair
  <2>3. WrittenWith(d, Pair(fw, fw)) /\ Pair(fw, fw).key = fw /\ Pair(fw, fw).secret = fw
    BY <2>2 DEF SignInv, FileInv, Pair
  <2>4. PICK a \in Apps : data = Ready(a)
    BY <2>2 DEF BuildInv, Covered
  <2>5. BlockAccepted(LastN(d, PQC_SIG_BLOCK_SIZE), data, fw)
    <3> HIDE DEF d
    <3> QED BY <2>1, <2>3, WrittenVerifies
  <2>6. /\ Len(data) \in Nat /\ Len(d) = Len(data) + 4
        /\ d[Len(data) + 1] = PqcUnits(block)[1]
    <3>1. MadeOf(d, data, Pair(fw, fw))
      BY <2>1, <2>3, WrittenParts
    <3>2. 1 \in 1..3
      OBVIOUS
    <3>3. PqcUnits(block) = PqcUnits(BuildBlock(Pair(fw, fw).key, Pair(fw, fw).secret, data))
      BY <2>3
    <3> HIDE DEF data, d, block
    <3> QED BY <3>1, <3>2, <3>3 DEF MadeOf
  <2>7. PqcUnits(block)[1].block.key = fw
    <3>1. block.key = fw
      BY DEF BuildBlock
    <3> HIDE DEF block
    <3> QED BY <3>1, BlockUnits
  <2> HIDE DEF block
  <2>8. /\ FirstN(d, Len(data)) = data
        /\ LastN(d, PQC_SIG_BLOCK_SIZE) = SubSeq(d, Len(data) + 1, Len(data) + 4)
    <3>1. Len(d) - 4 + 1 = Len(data) + 1 /\ Len(d) - 4 = Len(data)
      <4> HIDE DEF data, d
      <4> QED BY <2>6
    <3> QED BY <2>6, <3>1 DEF LastN, PQC_SIG_BLOCK_SIZE
  <2> HIDE DEF d, data
  <2>9. /\ Len(d) >= Len(Ready(a)) + 4 /\ FirstN(d, Len(Ready(a))) = Ready(a)
        /\ BlockAccepted(SubSeq(d, Len(Ready(a)) + 1, Len(Ready(a)) + 4), Ready(a), fw)
        /\ d[Len(Ready(a)) + 1].block.key = fw
    BY <2>4, <2>5, <2>6, <2>7, <2>8
  <2> QED BY <2>9 DEF BootAccepts, Ready, PQC_SIG_BLOCK_SIZE, d
<1> QED
  BY <1>1, SInvariant, SBuildInvariant, PTL

\* Where no application looks like a block, every signed file starts with the whole
\* application that was built: strip_pqc_sector never cuts into it.
THEOREM SSignsWhatWasBuilt == MagicApart => (SignSpec => []SignsWhatWasBuilt)
<1>1. SignInv /\ BuildInv => SignsWhatWasBuilt
  <2> SUFFICES ASSUME SignInv, BuildInv, NEW p \in Paths, signed[p] # NoPair,
                      built[p] # <<>>
               PROVE  FirstN(bin[p], Len(built[p])) = built[p]
    BY DEF SignsWhatWasBuilt
  <2> DEFINE d    == bin[p]
             data == FirstN(d, Len(d) - PQC_SIG_BLOCK_SIZE)
  <2>1. PICK a \in Apps : built[p] = AppUnits(a) /\ data = Ready(a)
    BY DEF BuildInv, Covered
  <2>2. IsSeq(d) /\ WrittenWith(d, signed[p]) /\ IsSeq(AppUnits(a))
    BY BuiltIsSeq DEF SignInv, FileInv
  <2>3. /\ Len(AppUnits(a)) = a.len /\ a.len \in Nat /\ Len(data) \in Nat
        /\ \A i \in 1..a.len : i \in 1..Len(data) /\ data[i] = AppUnits(a)[i]
        /\ a.len <= Len(data)
    <3>1. /\ Len(AppUnits(a)) = a.len /\ a.len \in Nat
          /\ Len(data) = a.len + (a.len % 2) + 2
          /\ \A i \in 1..a.len : data[i] = AppUnits(a)[i]
      BY <2>1, AppParts DEF SECTOR_SIZE
    <3> HIDE DEF data
    <3> QED BY <3>1
  <2>4. Len(d) = Len(data) + 4 /\ \A i \in 1..Len(data) : d[i] = data[i]
    <3>1. Len(d) \in Nat /\ Len(d) >= 6
      BY <2>2, LenProperties DEF IsSeq, WrittenWith, PQC_SIG_BLOCK_SIZE, SECTOR_SIZE
    <3>2. Len(d) - 4 \in Nat /\ Len(d) - 4 <= Len(d) /\ Len(d) - 4 + 4 = Len(d)
      BY <3>1
    <3>3. Len(data) = Len(d) - 4 /\ \A i \in 1..(Len(d) - 4) : d[i] = data[i]
      <4> HIDE DEF d
      <4> QED BY <2>2, <3>2, FirstUnits DEF PQC_SIG_BLOCK_SIZE
    <3> HIDE DEF d, data
    <3> QED BY <3>2, <3>3
  <2> HIDE DEF d, data
  <2>5. a.len <= Len(d)
    BY <2>3, <2>4
  <2>6. /\ IsSeq(FirstN(d, a.len)) /\ Len(FirstN(d, a.len)) = a.len
        /\ \A i \in 1..a.len : FirstN(d, a.len)[i] = AppUnits(a)[i]
    BY <2>2, <2>3, <2>4, <2>5, FirstUnits
  <2>7. /\ FirstN(d, a.len) \in Seq(Units(FirstN(d, a.len)))
        /\ AppUnits(a) \in Seq(Units(AppUnits(a)))
    BY <2>2, <2>6 DEF IsSeq
  <2>8. FirstN(d, a.len) = AppUnits(a)
    <3>1. /\ FirstN(d, a.len) \in [1..a.len -> Units(FirstN(d, a.len))]
          /\ AppUnits(a) \in [1..a.len -> Units(AppUnits(a))]
      BY <2>3, <2>6, <2>7, LenProperties
    <3> QED BY <2>6, <3>1
  <2> QED BY <2>1, <2>3, <2>8 DEF d
<1> QED
  BY <1>1, SInvariant, SBuildInvariant, PTL

\* Whatever was generated, signed, built or interrupted before, keygen without --force
\* never writes over a secret key.
THEOREM SSecretGuarded == SignSpec => []SecretGuarded
<1>1. SignInv => SecretGuarded
  BY DEF SignInv
<1> QED
  BY <1>1, SInvariant, PTL

\* Whatever was in the file and however often it was signed, cut or built, what cmd_sign
\* wrote to its end with a pair of keys passes cmd_verify with that pair's public key.
THEOREM SSignedVerifies == SignSpec => []SignedVerifies
<1>1. SignInv => SignedVerifies
  <2> SUFFICES ASSUME SignInv, NEW p \in Paths, signed[p] # NoPair,
                      signed[p].key = signed[p].secret, ~Ragged(bin[p])
               PROVE  Verifies(bin[p], signed[p].key)
    BY DEF SignedVerifies
  <2>1. IsSeq(bin[p]) /\ WrittenWith(bin[p], signed[p])
    BY DEF SignInv, FileInv
  <2> QED BY <2>1, WrittenVerifies
<1> QED
  BY <1>1, SInvariant, PTL

=============================================================================
