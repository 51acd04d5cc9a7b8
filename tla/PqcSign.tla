------------------------------ MODULE PqcSign ------------------------------
(***************************************************************************)
(* pqc_sign.py: the keys, the header and the signed application file that  *)
(* a sequence of its commands and of builds leaves behind.                 *)
(*                                                                         *)
(* A file is a sequence of 2 KB units, so the code's slices are SubSeqs: a *)
(* sector is two units and a PQC block four. Of a unit only its origin and *)
(* where it holds 0xE8 are kept. SHA-256 of a file is the file. A command  *)
(* that is interrupted leaves what it had written until then, which may    *)
(* end inside a unit: the file's last unit is torn.                        *)
(***************************************************************************)
EXTENDS SigBlock, Sequences

CONSTANTS
  Apps,       \* what elf2image may produce: name, length in units, 0xE8 units
  Paths,      \* files an application may be in
  NoKey,      \* a key file that does not exist
  Cut,        \* a key file or header that was not written to its end
  NoPair,     \* a file that was not signed
  Cuts,       \* bytes of its last unit that an interruption may leave
  InnerE8,    \* kinds of units and places inside them where they hold 0xE8
  MaxTears,   \* how often a command is interrupted
  MaxLen      \* bound on the length of the files signed

ASSUME AppAssumption ==
  \A a \in Apps : a.len \in Nat \ {0} /\ a.e8 \subseteq 1..a.len
ASSUME KeyFileAssumption == NoKey \notin Keys /\ Cut \notin Keys /\ NoKey # Cut
ASSUME PairAssumption ==
  LET K == Keys \cup {NoKey, Cut} IN NoPair \notin [key : K, secret : K]
\* At 832 and 1664 bytes of a classical sector count_sig_blocks would find the signature
\* by its third or second look.
ASSUME CutAssumption == Cuts \subseteq 1..2047 \ {832, 1664}
ASSUME BoundAssumption == MaxTears \in Nat

VARIABLES
  pk, sk,     \* pqc_ml_dsa_65_public.bin and _secret.bin
  made,       \* keys generated so far
  hdr,        \* pqc_public_key.h
  fw,         \* the key in the bootloader that was built last
  bin,        \* the application files
  built,      \* history: the application each file was made from, <<>> once less was
              \* written than the bootloader reads, or signing went on from a rest
  signed,     \* history: the keys of the sign command that wrote the file, as far
              \* as the bootloader reads it at least
  mended,     \* history: the files signed by going on from a file with a torn unit
  tears       \* interruptions so far

keyVars  == <<pk, sk, made>>
fileVars == <<bin, built, signed, mended>>
signVars == <<keyVars, hdr, fw, fileVars, tears>>

-----------------------------------------------------------------------------
(* The contents of files.                                                  *)

UNIT_SIZE          == 2048
SECTOR_SIZE        == 2
PQC_SIG_BLOCK_SIZE == 4

\* What the bootloader and cmd_verify read of a block's last unit: PQC_CRC_COVER_LEN and
\* the CRC. The 925 bytes behind are padding.
CrcEnd == 7263 + 4 - 3 * UNIT_SIZE

\* ECDSA_SIG_BLOCK_SIZE: what is behind it in the signature sector is 0xFF.
ClassicEnd == 1216

AppUnits(a) ==
  [i \in 1..a.len |-> [kind |-> "app", app |-> a.name, i |-> i, e8 |-> i \in a.e8]]

Classic(content) ==
  [i \in 1..SECTOR_SIZE |-> [kind |-> "classic", over |-> content, i |-> i]]

PqcUnits(block) ==
  [i \in 1..PQC_SIG_BLOCK_SIZE |-> [kind |-> "pqc", block |-> block, i |-> i]]

FirstN(d, n) == SubSeq(d, 1, n)
LastN(d, n)  == SubSeq(d, Len(d) - n + 1, Len(d))

\* A torn unit: of unit u at bytes are there, and 0xFF follows up to its length.
Piece(u, at, len) == [kind |-> "torn", of |-> u, at |-> at, len |-> len]

Origin(u) == IF u.kind = "torn" THEN u.of ELSE u

\* The first o bytes of a unit.
Torn(u, o) ==
  Piece(Origin(u), IF u.kind = "torn" /\ u.at < o THEN u.at ELSE o, o)

\* The first n units of d, the last of them torn after o bytes.
CutInside(d, n, o) == [FirstN(d, n) EXCEPT ![n] = Torn(@, o)]

Ragged(d) ==
  d # <<>> /\ LET u == d[Len(d)] IN u.kind = "torn" /\ u.len < UNIT_SIZE

\* A torn unit filled with 0xFF: what it was, if 0xFF is what it lacks.
Filled(u) ==
  IF \/ u.of.kind = "ff"
     \/ u.of.kind = "classic" /\ (u.of.i = SECTOR_SIZE \/ u.at >= ClassicEnd)
  THEN u.of ELSE Piece(u.of, u.at, UNIT_SIZE)

\* The unit's first byte is PQC_MAGIC, or its byte behind the first o.
IsMagic(u) ==
  LET w == Origin(u) IN (w.kind = "pqc" /\ w.i = 1) \/ (w.kind = "app" /\ w.e8)

InnerMagic(u, o) ==
  (u.kind = "torn" => o < u.at) /\ <<Origin(u).kind, o>> \in InnerE8

WholeUnits(d) == IF Ragged(d) THEN [d EXCEPT ![Len(d)] = Filled(@)] ELSE d

pad_to_sector(d) ==
  IF Len(d) % SECTOR_SIZE = 0 THEN WholeUnits(d)
  ELSE Append(WholeUnits(d), [kind |-> "ff"])

\* count_sig_blocks(d) > 0: the last sector holds an intact classical signature.
HasClassic(d) ==
  /\ Len(d) >= SECTOR_SIZE
  /\ LET s == LastN(d, SECTOR_SIZE) IN s[1].kind = "classic" /\ s = Classic(s[1].over)

\* Mutant: the sector of an earlier signature stays.
NotStripped(d) == d

\* Looks at one byte only, 8 KB before the end: of a file with a torn end, inside a unit.
strip_pqc_sector(d) ==
  LET n == Len(d) - PQC_SIG_BLOCK_SIZE
      o == d[Len(d)].len
  IN  IF Ragged(d)
      THEN IF n > SECTOR_SIZE /\ InnerMagic(d[n], o) THEN CutInside(d, n, o) ELSE d
      ELSE IF n >= SECTOR_SIZE /\ IsMagic(d[n + 1]) THEN FirstN(d, n) ELSE d

\* espsecure sign_secure_boot_v2: appends one sector with the signature.
ClassicSigned(content) == content \o Classic(content)

\* Mutant: a classical signature that is there is not recognised.
AlwaysClassic(d) == ClassicSigned(pad_to_sector(strip_pqc_sector(d)))

\* cmd_sign, the file up to the PQC block: a classical signature is kept.
SignedData(d) ==
  LET raw == strip_pqc_sector(d)
  IN  IF HasClassic(raw) THEN raw ELSE ClassicSigned(pad_to_sector(raw))

\* Mutant: the digest leaves the classical signature sector out.
HashedContentOnly(d, key, secret) ==
  LET data == SignedData(d)
  IN  data \o PqcUnits(BuildBlock(key, secret, FirstN(data, Len(data) - SECTOR_SIZE)))

\* cmd_sign, final_data.
FinalData(d, key, secret) ==
  SignedData(d) \o PqcUnits(BuildBlock(key, secret, SignedData(d)))

-----------------------------------------------------------------------------
(* Who accepts a file.                                                     *)

\* The unit ends a block and holds its checksum.
BlockEnd(u) ==
  /\ Origin(u).kind = "pqc" /\ Origin(u).i = PQC_SIG_BLOCK_SIZE
  /\ u.kind = "torn" => u.at >= CrcEnd

\* The units hold block b as far as anyone reads it.
Holds(units, b) ==
  /\ \A i \in 1..(PQC_SIG_BLOCK_SIZE - 1) : units[i] = PqcUnits(b)[i]
  /\ LET u == units[PQC_SIG_BLOCK_SIZE]
     IN  BlockEnd(u) /\ Origin(u) = PqcUnits(b)[PQC_SIG_BLOCK_SIZE]

\* A block that is valid for this data under this key.
BlockAccepted(units, data, key) ==
  /\ units[1].kind = "pqc"
  /\ LET b == units[1].block
     IN  /\ Holds(units, b)
         /\ HeaderValid(b)
         /\ b.digest = data
         /\ MlDsaVerify(b.digest, b.sig, b.sigLen, key)

\* cmd_verify: the block is the end of the file, whatever comes before it. The key
\* stored in the block is not looked at. 8 KB before a torn end no block begins.
Verifies(d, key) ==
  /\ Len(d) >= PQC_SIG_BLOCK_SIZE + SECTOR_SIZE /\ ~Ragged(d)
  /\ BlockAccepted(LastN(d, PQC_SIG_BLOCK_SIZE),
                   FirstN(d, Len(d) - PQC_SIG_BLOCK_SIZE), key)

\* Mutant: the signature is checked with the key in the block.
VerifiedWithBlockKey(d, key) == \E a \in Apps :
  LET content == pad_to_sector(AppUnits(a))
      n       == Len(ClassicSigned(content))
  IN  /\ Len(d) >= n + PQC_SIG_BLOCK_SIZE
      /\ FirstN(d, n) = ClassicSigned(content)
      /\ d[n + 1].kind = "pqc"
      /\ BlockAccepted(SubSeq(d, n + 1, n + PQC_SIG_BLOCK_SIZE), FirstN(d, n),
                       d[n + 1].block.key)

\* image_load on this file in flash: the image's own header says how long it is,
\* the signatures are looked for behind it, and the block's key is compared. Nobody
\* looks at the end of the file.
BootAccepts(d, key) == \E a \in Apps :
  LET content == pad_to_sector(AppUnits(a))
      n       == Len(ClassicSigned(content))
  IN  /\ Len(d) >= n + PQC_SIG_BLOCK_SIZE
      /\ FirstN(d, n) = ClassicSigned(content)
      /\ BlockAccepted(SubSeq(d, n + 1, n + PQC_SIG_BLOCK_SIZE), FirstN(d, n), key)
      /\ d[n + 1].block.key = key

-----------------------------------------------------------------------------
(* Commands.                                                               *)

SignInit ==
  /\ pk = NoKey /\ sk = NoKey /\ made = {BootKey}
  /\ hdr = BootKey /\ fw = NoKey
  /\ bin = [p \in Paths |-> <<>>]
  /\ built = [p \in Paths |-> <<>>]
  /\ signed = [p \in Paths |-> NoPair] /\ mended = {}
  /\ tears = 0

Pair(key, secret) == [key |-> key, secret |-> secret]

Interrupted == tears < MaxTears /\ tears' = tears + 1

\* What an interruption may leave of a file that is written.
Rests(d) ==
  { FirstN(d, n) : n \in 0..(Len(d) - 1) } \cup
  { CutInside(d, n, o) : n \in 1..Len(d), o \in Cuts }

\* All that the bootloader reads of d is in the rest.
Sealed(rest, d) == Len(rest) = Len(d) /\ BlockEnd(rest[Len(rest)])

\* Only the public key's file is looked for. An interruption leaves one of the two
\* files short or old.
cmd_keygen(force, key) ==
  /\ force \/ pk = NoKey
  /\ key \in Keys \ made
  /\ made' = made \cup {key}
  /\ \/ pk' = key /\ sk' = key /\ UNCHANGED tears
     \/ Interrupted /\ pk' = Cut /\ UNCHANGED sk
     \/ Interrupted /\ pk' = key /\ sk' \in {sk, Cut}
  /\ UNCHANGED <<hdr, fw, fileVars>>

\* Mutant: the size of the key is not looked at.
HeaderUnchecked ==
  /\ hdr' = pk
  /\ UNCHANGED <<keyVars, fw, fileVars, tears>>

\* Refuses a key of the wrong size.
cmd_header ==
  /\ pk \in Keys
  /\ \/ hdr' = pk /\ UNCHANGED tears
     \/ Interrupted /\ hdr' = Cut
  /\ UNCHANGED <<keyVars, fw, fileVars>>

\* cmd_sign of binary p with output q, by default p. Every refusal comes before the
\* output is opened, which empties it. An empty file counts as none.
cmd_sign(p, q) ==
  /\ bin[p] # <<>> /\ pk \in Keys /\ sk \in Keys
  /\ Len(bin[p]) <= MaxLen
  /\ LET final == FinalData(bin[p], pk, sk)
         from  == IF Ragged(bin[p]) THEN <<>> ELSE built[p]
     IN  \/ /\ bin' = [bin EXCEPT ![q] = final]
            /\ built' = [built EXCEPT ![q] = from]
            /\ signed' = [signed EXCEPT ![q] = Pair(pk, sk)]
            /\ UNCHANGED tears
         \/ /\ Interrupted
            /\ \E rest \in Rests(final) :
                 LET sealed == Sealed(rest, final)
                 IN  /\ bin' = [bin EXCEPT ![q] = rest]
                     /\ built' = [built EXCEPT ![q] = IF sealed THEN from ELSE <<>>]
                     /\ signed' = [signed EXCEPT ![q] =
                                    IF sealed THEN Pair(pk, sk) ELSE NoPair]
  /\ mended' = IF Ragged(bin[p]) \/ p \in mended THEN mended \cup {q} ELSE mended \ {q}
  /\ UNCHANGED <<keyVars, hdr, fw>>

\* The project's build: the bootloader with the header, the application with or
\* without CONFIG_SECURE_BOOT_BUILD_SIGNED_BINARIES.
BuildBootloader ==
  /\ hdr \in Keys
  /\ fw' = hdr
  /\ UNCHANGED <<keyVars, hdr, fileVars, tears>>

BuildApp(p, a) ==
  /\ bin' \in { [bin EXCEPT ![p] = AppUnits(a)],
                [bin EXCEPT ![p] = ClassicSigned(pad_to_sector(AppUnits(a)))] }
  /\ built' = [built EXCEPT ![p] = AppUnits(a)]
  /\ signed' = [signed EXCEPT ![p] = NoPair] /\ mended' = mended \ {p}
  /\ UNCHANGED <<keyVars, hdr, fw, tears>>

SignNext ==
  \/ \E force \in BOOLEAN, key \in Keys : cmd_keygen(force, key)
  \/ cmd_header
  \/ \E p, q \in Paths : cmd_sign(p, q)
  \/ BuildBootloader
  \/ \E p \in Paths, a \in Apps : BuildApp(p, a)

SignSpec == SignInit /\ [][SignNext]_signVars

-----------------------------------------------------------------------------
(* Properties.                                                             *)

KeyFileInv ==
  /\ pk \in Keys \cup {NoKey, Cut} /\ sk \in Keys \cup {NoKey, Cut}
  /\ made \subseteq Keys
  /\ hdr \in Keys \cup {Cut} /\ fw \in Keys \cup {NoKey}

SignTypeOK ==
  /\ KeyFileInv
  /\ \A p \in Paths :
       /\ \A i \in DOMAIN bin[p] : bin[p][i].kind \in {"app", "ff", "classic", "pqc", "torn"}
       /\ built[p] \in {<<>>} \cup { AppUnits(a) : a \in Apps }
       /\ signed[p] \in [key : Keys, secret : Keys] \cup {NoPair}
  /\ mended \subseteq Paths /\ tears \in 0..MaxTears

\* A file that cmd_sign wrote to its end with a pair of keys passes cmd_verify with that
\* pair's public key, whatever was signed, built or interrupted before.
SignedVerifies == \A p \in Paths :
  signed[p] # NoPair /\ signed[p].key = signed[p].secret /\ ~Ragged(bin[p])
    => Verifies(bin[p], signed[p].key)

\* An application that was built and signed, once or again, in place or to another
\* file, boots on a bootloader built with the header of the pair that signed it, also
\* when the padding of the block was not written to its end.
SignedBoots == \A p \in Paths :
  signed[p] = Pair(fw, fw) /\ built[p] # <<>> => BootAccepts(bin[p], fw)

\* What boots was written by the last sign command, up to the checksum of its block at
\* least, with the pair the header was made of: no earlier interruption, stale header or
\* mixed pair of key files leaves a file that boots. Signing a file with a torn block is
\* left out: that block is not recognised and stays, before the new one.
BootsOnlyMatched == \A p \in Paths \ mended :
  BootAccepts(bin[p], fw) => signed[p] = Pair(fw, fw)

\* Signing again, as every build does, keeps the image and its classical signature
\* and replaces the PQC block only, if the file was written to its end.
ResignKeepsImage == [][ \A p \in Paths :
  signed[p] # NoPair /\ ~Ragged(bin[p]) /\ signed'[p] # NoPair /\ cmd_sign(p, p)
    => LET n == Len(bin[p]) - PQC_SIG_BLOCK_SIZE
       IN  Len(bin'[p]) = Len(bin[p]) /\ FirstN(bin'[p], n) = FirstN(bin[p], n) ]_signVars

\* keygen looks for the public key's file only, yet without --force it never writes
\* over a secret key: there is none without a public one.
SecretGuarded == sk # NoKey => pk # NoKey

\* Why SignedVerifies holds: a file that cmd_sign wrote is some data, a signature sector
\* at least, and the block of exactly this data as far as it is read. Every file is a
\* sequence.
Units(d) == {d[i] : i \in DOMAIN d}
IsSeq(d) == d \in Seq(Units(d))

WrittenWith(d, pair) ==
  /\ Len(d) >= PQC_SIG_BLOCK_SIZE + SECTOR_SIZE
  /\ Holds(LastN(d, PQC_SIG_BLOCK_SIZE),
           BuildBlock(pair.key, pair.secret, FirstN(d, Len(d) - PQC_SIG_BLOCK_SIZE)))

FileInv ==
  /\ DOMAIN bin = Paths /\ DOMAIN signed = Paths
  /\ \A p \in Paths :
       /\ IsSeq(bin[p])
       /\ signed[p] \in [key : Keys, secret : Keys] \cup {NoPair}
       /\ signed[p] # NoPair => WrittenWith(bin[p], signed[p])

\* The inductive invariant: its parts are needed for each other's preservation.
SignInv == KeyFileInv /\ FileInv /\ SecretGuarded

\* What the block of a signed file covers; a file that is not signed as it is.
Covered(p) ==
  IF signed[p] = NoPair THEN bin[p] ELSE FirstN(bin[p], Len(bin[p]) - PQC_SIG_BLOCK_SIZE)

\* The end of a block is not in d, so no block with its checksum is.
NoBlockEnd(d) ==
  \A u \in Units(d) : ~BlockEnd(u) /\ (u.kind = "torn" => u.at \in Nat)

\* Why BootsOnlyMatched and ResignKeepsImage hold: the block at the end of a signed file is
\* the only one with its checksum in a file that is not mended, whatever pieces of others an
\* interruption has left, and it stands behind an intact classical signature.
BlockInv == \A p \in Paths :
  /\ p \notin mended => NoBlockEnd(Covered(p))
  /\ signed[p] # NoPair => HasClassic(Covered(p))

\* An application with its padding and classical signature.
Ready(a) == ClassicSigned(pad_to_sector(AppUnits(a)))

\* No application has a 0xE8 where strip_pqc_sector looks for a block's magic, neither as it
\* is linked nor with its signature sector. The run sign_strip is about one that has.
MagicApart == \A a \in Apps :
  {a.len - 3, a.len - 1 + (a.len % SECTOR_SIZE)} \cap a.e8 = {}

\* Why SignedBoots holds: below its block, a file that was made from a build is the
\* application, and with its signature sector at the latest when it is signed.
BuildInv == \A p \in Paths : built[p] # <<>> =>
  \E a \in Apps :
    /\ built[p] = AppUnits(a)
    /\ Covered(p) = Ready(a) \/ (signed[p] = NoPair /\ Covered(p) = AppUnits(a))

\* What the test of strip_pqc_sector says, "No PQC sector present -> unchanged": the
\* signed file starts with the whole application that was built.
SignsWhatWasBuilt == \A p \in Paths :
  signed[p] # NoPair /\ built[p] # <<>>
    => FirstN(bin[p], Len(built[p])) = built[p]
=============================================================================
