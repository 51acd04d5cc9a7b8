------------------------------ MODULE SigBlock ------------------------------
(***************************************************************************)
(* The 8 KB PQC signature block and the pure checks made on it.            *)
(*                                                                         *)
(* Source: pqc_sig_block.h (layout and sizes), validate_pqc_block and      *)
(* pqc_verify_on_stack of pqc_bootloader_verify.c (the two groups of       *)
(* checks of the bootloader) and build_pqc_signature_block of pqc_sign.py (what the  *)
(* signing tool writes).                                                   *)
(*                                                                         *)
(* The bytes the digest covers (application image, padding and classical   *)
(* signature sector) are one model value, a "body"; SHA-256 is taken as    *)
(* injective, so a digest is the body it was computed from.  A public key  *)
(* is a model value, and a signature is the pair it was made from.         *)
(***************************************************************************)
EXTENDS Naturals

CONSTANTS
  Bodies,     \* contents of [image + padding + classical signature sector]
  NoBody,     \* digest of anything else: part of a body, blank flash, zeroes
  Keys,       \* ML-DSA public keys
  BootKey     \* the key compiled into the bootloader, pqc_public_key.h

ASSUME BodiesAssumption == NoBody \notin Bodies
ASSUME BootKeyAssumption == BootKey \in Keys

PQC_SIGNATURE_MAGIC   == 232   \* 0xE8
PQC_SIGNATURE_VERSION == 1

\* Sizes per algorithm identifier, PQC_ALG_ML_DSA_44, _65 and _87.
AlgSizes == << [pk |-> 1312, sig |-> 2420],
               [pk |-> 1952, sig |-> 3309],
               [pk |-> 2592, sig |-> 4627] >>

PQC_ALG_ML_DSA_65  == 2
PQC_PUBLIC_KEY_LEN == AlgSizes[PQC_ALG_ML_DSA_65].pk

Digests == Bodies \cup {NoBody}

Signature == [by : Keys, over : Digests]

\* pqc_sig_block_t. crc says whether the stored CRC-32 is the one computed over
\* the bytes before it.
Block == [magic : Nat, version : Nat, alg : Nat, digest : Digests,
          pkLen : Nat, sigLen : Nat, key : Keys, sig : Signature,
          crc : BOOLEAN]

-----------------------------------------------------------------------------
(* The checks of the bootloader.                                           *)

\* pqc_get_algorithm_sizes knows the algorithm.
KnownAlg(alg) == alg \in 1..3

\* validate_pqc_block: the signature may be shorter than the algorithm's.
HeaderValid(b) ==
  /\ b.magic = PQC_SIGNATURE_MAGIC
  /\ b.version = PQC_SIGNATURE_VERSION
  /\ KnownAlg(b.alg)
  /\ b.pkLen = AlgSizes[b.alg].pk
  /\ b.sigLen <= AlgSizes[b.alg].sig
  /\ b.crc

\* OQS_SIG_ml_dsa_65_new()->verify (liboqs): accepts only a full-length
\* signature made with the key's secret half over this very message.
MlDsaVerify(msg, sig, sigLen, key) ==
  /\ sigLen = AlgSizes[PQC_ALG_ML_DSA_65].sig
  /\ sig = [by |-> key, over |-> msg]

\* pqc_verify_on_stack, the comparisons before the signature is looked at.
DigestAndKeyMatch(b, digest) ==
  /\ b.digest = digest
  /\ b.pkLen = PQC_PUBLIC_KEY_LEN
  /\ b.key = BootKey

-----------------------------------------------------------------------------
(* What the signing tool writes, and what being signed means.              *)

\* build_pqc_signature_block, as cmd_sign calls it: always ML-DSA-65 and lengths
\* in full. The public key and the signing key come from two files, so signer
\* need not be key.
BuildBlock(key, signer, body) ==
  [magic |-> PQC_SIGNATURE_MAGIC, version |-> PQC_SIGNATURE_VERSION,
   alg |-> PQC_ALG_ML_DSA_65, digest |-> body,
   pkLen |-> AlgSizes[PQC_ALG_ML_DSA_65].pk,
   sigLen |-> AlgSizes[PQC_ALG_ML_DSA_65].sig,
   key |-> key, sig |-> [by |-> signer, over |-> body], crc |-> TRUE]

\* The promise to the user: the holder of BootKey's secret half signed this body.
SignedByOwner(body, b) == b.sig = [by |-> BootKey, over |-> body]

=============================================================================
