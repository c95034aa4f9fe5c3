------------------------------- MODULE Crypto -------------------------------
(***************************************************************************)
(* Signatures as crates/libid-crypto/src/lib.rs lays them out and takes    *)
(* them apart.  Hashes are symbolic: two are equal when what was hashed    *)
(* is.  A signature names the key and the hash it was made with, and its   *)
(* last byte is kept as a number.                                          *)
(***************************************************************************)
EXTENDS Naturals

Bytes == 0..255

\* What is signed for a digest: the digest itself, or its EIP-191 message.
Hashed(digest) == [prefixed |-> FALSE, of |-> digest]
Prefixed(digest) == [prefixed |-> TRUE, of |-> digest]

\* External, k256: a recoverable signature carries which of the two points fits.
Signature(key, hash, recid) == [key |-> key, hash |-> hash, recid |-> recid]

\* Mistaken: the byte is left as k256 emits it.
raw_v(recid) == recid

\* v as the chain expects it.
evm_v(recid) == (recid + 27) % 256

\* r || s || v.
sign_eth_claim(key, digest, recid) ==
    [len |-> 65, sig |-> Signature(key, Prefixed(digest), recid), v |-> evm_v(recid)]

\* Mistaken: the offset is taken off whatever the convention, and wraps.
always_strip(v) == (v + 256 - 27) % 256

\* Either convention of v, as the byte RecoveryId::from_byte is given.
recid_byte(v) == IF v >= 27 THEN v - 27 ELSE v

\* External, k256: the key behind a signature over this hash, if any other one.
recover_from_prehash(hash, sig, recid) ==
    IF hash = sig.hash /\ recid = sig.recid THEN sig.key ELSE "another key"

recover_eth_claim(signature, digest) ==
    IF signature.len # 65 \/ recid_byte(signature.v) > 3 THEN "refused"
    ELSE recover_from_prehash(Prefixed(digest), signature.sig, recid_byte(signature.v))
=============================================================================
