------------------------------- MODULE Signer -------------------------------
(***************************************************************************)
(* A pool of signing keys: SignerSource::parse_list and from_spec, then    *)
(* build_managed for each slot, then what a ManagedSigner signs and tells  *)
(* of itself, of crates/libid-signer/src/lib.rs.                           *)
(*                                                                         *)
(* An entry of the list is the text between two commas.  It is represented *)
(* by what the code looks at: padding, a "0x" in front, and a body that is *)
(* a run of hex digits (spelling some bytes in some letter case) or a name *)
(* for KMS.  Two entries are the same text exactly when they are the same  *)
(* record.  Slots are built by the caller, in any interleaving.            *)
(***************************************************************************)
EXTENDS Crypto, Sequences, FiniteSets

CONSTANTS
    Lists,      \* the comma-separated lists parse_list is called on
    ValidKeys,  \* the byte strings that are secp256k1 scalars
    KmsKeys,    \* the keys inside KMS
    MaxMoves,   \* how many KMS aliases are pointed at another key, once each
    Curve,      \* per key, the coordinates of its point: x, and y's parity
    Digests     \* the 32-byte digests a caller may have signed

Keys == ValidKeys \cup KmsKeys

\* The entries of the lists, and the names for KMS among them.
Texts == UNION {{l[k] : k \in DOMAIN l} : l \in Lists}
Names == {e.body : e \in {e \in Texts : ~e.body.hex}}

ASSUME SignerAssumption ==
    /\ MaxMoves \in Nat /\ ValidKeys \cap KmsKeys = {}
    /\ {"none", "refused", "another key"} \cap Keys = {}

\* A list is a sequence of entries; whether a body is hex digits is known, and how
\* many.
ASSUME ListsAssumption ==
    /\ Lists \subseteq Seq(Texts)
    /\ \A e \in Texts :
           /\ e \in [pad : BOOLEAN, prefix : BOOLEAN, body : {f.body : f \in Texts}]
           /\ e.body.hex \in BOOLEAN /\ e.body.len \in Nat

\* The keys have points of their own, each given by x and y's parity.
ASSUME CurveAssumption ==
    /\ \A j, k \in Keys : j # k => Curve[j] # Curve[k]
    /\ \A k \in Keys :
           Curve[k] = [x |-> Curve[k].x, odd |-> Curve[k].odd] /\ Curve[k].odd \in 0..1

VARIABLES
    list,    \* the argument of parse_list, split at its commas
    phase,   \* "parse", "pool", or "err"
    i,       \* the entry the loop has reached
    seen,    \* the trimmed texts met so far
    out,     \* the SignerSources
    slot,    \* per source, how far build_managed has got and what it has read
    kms,     \* KMS: the key behind each name
    moved,   \* the names that have been pointed at another key
    under,   \* history: the slots a moved name was the name of, and how far each was
    made     \* the signature made, one per behaviour, with the slot that made it

parse == <<list, phase, i, seen, out>>
aliases == <<kms, moved, under>>
vars == <<parse, slot, aliases, made>>

Init ==
    /\ list \in Lists
    /\ phase = "parse" /\ i = 1 /\ seen = {} /\ out = <<>> /\ slot = <<>>
    /\ kms \in [Names -> KmsKeys]
    /\ moved = {} /\ under = {} /\ made = {}

-----------------------------------------------------------------------------
(* parse_list and from_spec.                                               *)

\* Mistaken: padding is left on.
trim_nothing(entry) == entry

trim(entry) == [entry EXCEPT !.pad = FALSE]

\* An empty text is a run of no hex digits without a prefix.
is_empty(entry) == entry.body.hex /\ entry.body.len = 0 /\ ~entry.prefix

\* Classified by shape alone; strip_prefix leaves the body.
from_spec(entry) ==
    IF is_empty(entry) THEN "err"
    ELSE IF entry.body.hex
         THEN IF entry.body.len = 64 THEN "PrivateKey" ELSE "err"
         ELSE "Kms"

Fail ==
    /\ phase' = "err"
    /\ UNCHANGED <<list, i, seen, out, slot>>

\* Mistaken: an entry from_spec refuses gets a slot all the same.
EntryUnchecked ==
    /\ phase = "parse" /\ i <= Len(list)
    /\ LET entry == trim(list[i]) IN
       IF is_empty(entry)
       THEN i' = i + 1 /\ UNCHANGED <<list, phase, seen, out, slot>>
       ELSE IF entry \in seen THEN Fail
       ELSE /\ seen' = seen \cup {entry}
            /\ out' = Append(out, [kind |-> from_spec(entry), text |-> entry])
            /\ i' = i + 1
            /\ UNCHANGED <<list, phase, slot>>
    /\ UNCHANGED <<aliases, made>>

\* One round of the loop.
Entry ==
    /\ phase = "parse" /\ i <= Len(list)
    /\ LET entry == trim(list[i]) IN
       IF is_empty(entry)
       THEN i' = i + 1 /\ UNCHANGED <<list, phase, seen, out, slot>>
       ELSE IF entry \in seen \/ from_spec(entry) = "err" THEN Fail
       ELSE /\ seen' = seen \cup {entry}
            /\ out' = Append(out, [kind |-> from_spec(entry), text |-> entry])
            /\ i' = i + 1
            /\ UNCHANGED <<list, phase, slot>>
    /\ UNCHANGED <<aliases, made>>

\* The list is through; one that names no signers is refused.
EndOfList ==
    /\ phase = "parse" /\ i > Len(list)
    /\ IF out = <<>> THEN Fail
       ELSE /\ phase' = "pool"
            /\ slot' = [k \in DOMAIN out |->
                           [at |-> "new", point |-> "none", address |-> "none"]]
            /\ UNCHANGED <<list, i, seen, out>>
    /\ UNCHANGED <<aliases, made>>

-----------------------------------------------------------------------------
(* build_managed.                                                          *)

Source(k) == out[k].text
SetSlot(k, s) == slot' = [slot EXCEPT ![k] = s] /\ UNCHANGED <<parse, aliases, made>>
Ready(point, address) == [at |-> "ready", point |-> point, address |-> address]
Failed == [at |-> "failed", point |-> "none", address |-> "none"]

\* A local key: decoded, checked to be 32 bytes, taken if it is a scalar.
BuildLocal(k) ==
    /\ phase = "pool" /\ slot[k].at = "new" /\ out[k].kind = "PrivateKey"
    /\ LET key == Source(k).body.bytes IN
       SetSlot(k, IF key \in ValidKeys THEN Ready(key, key) ELSE Failed)

\* Mistaken: the point is fetched for the pool's last KMS name.
FetchLastPublicKey(k) ==
    /\ phase = "pool" /\ slot[k].at = "new" /\ out[k].kind = "Kms"
    /\ \E j \in k..Len(out) :
           /\ out[j].kind = "Kms"
           /\ SetSlot(k, [at |-> "fetched", point |-> kms[Source(j).body],
                          address |-> "none"])

\* kms:GetPublicKey for the point a notary serves; it may be refused, or carry
\* no uncompressed point.
FetchPublicKey(k) ==
    /\ phase = "pool" /\ slot[k].at = "new" /\ out[k].kind = "Kms"
    /\ \/ SetSlot(k, [at |-> "fetched", point |-> kms[Source(k).body],
                      address |-> "none"])
       \/ SetSlot(k, Failed)

\* AwsSigner::new asks again, by the same name, for the address it signs as.
CreateKmsSigner(k) ==
    /\ phase = "pool" /\ slot[k].at = "fetched"
    /\ \/ SetSlot(k, Ready(slot[k].point, kms[Source(k).body]))
       \/ SetSlot(k, Failed)

\* External: an operator points a KMS alias at another key.
AliasMoves ==
    /\ Cardinality(moved) < MaxMoves
    /\ \E n \in Names \ moved, key \in KmsKeys :
           /\ kms[n] # key /\ kms' = [kms EXCEPT ![n] = key]
           /\ moved' = moved \cup {n}
           /\ under' = under \cup
                  {<<k, slot[k].at>> : k \in {j \in DOMAIN slot : Source(j).body = n}}
    /\ UNCHANGED <<parse, slot, made>>

-----------------------------------------------------------------------------
(* ManagedSigner.                                                          *)

address(k) == slot[k].address
uncompressed_public_key(k) == Curve[slot[k].point]

\* Mistaken: the prefix says nothing of y.
compressed_even(k) == [prefix |-> 2, x |-> uncompressed_public_key(k).x]

\* The prefix carries y's parity.
compressed_public_key(k) ==
    [prefix |-> 2 + uncompressed_public_key(k).odd, x |-> uncompressed_public_key(k).x]

\* A local key can be exported, one in KMS cannot.
raw_key_bytes(k) == IF out[k].kind = "Kms" THEN {} ELSE {Source(k).body.bytes}

\* The same text through libid-crypto's parser, which does not trim.
hex_to_signing_key(text) ==
    IF text.body.hex /\ ~text.pad THEN {text.body.bytes} \cap ValidKeys ELSE {}

\* External: the key that signs is the local one, or the one KMS has by that name.
SigningKey(k) == IF out[k].kind = "Kms" THEN kms[Source(k).body] ELSE Source(k).body.bytes

\* A signature over a hash, in the layout of sign_eth_claim; one that fails leaves
\* nothing.
SignHash(k, as, digest, hash) ==
    /\ phase = "pool" /\ slot[k].at = "ready" /\ made = {}
    /\ \E recid \in 0..1 :
           made' = {[slot |-> k, as |-> as, digest |-> digest, bytes |->
                       [len |-> 65, sig |-> Signature(SigningKey(k), hash, recid),
                        v |-> evm_v(recid)]]}
    /\ UNCHANGED <<parse, slot, aliases>>

\* Mistaken: the digest is signed bare, as by sign_prehash.
sign_claim_bare(k) == \E d \in Digests : SignHash(k, "claim", d, Hashed(d))

\* sign_message puts the EIP-191 prefix in front.
sign_claim(k) == \E d \in Digests : SignHash(k, "claim", d, Prefixed(d))

\* The caller chose the hash: a bare digest.
sign_prehash(k) == \E d \in Digests : SignHash(k, "prehash", d, Hashed(d))

Settled ==
    /\ phase = "err" \/ phase = "pool"
    /\ \A k \in DOMAIN slot : slot[k].at \in {"ready", "failed"}
    /\ UNCHANGED vars

Next ==
    \/ Entry \/ EndOfList
    \/ \E k \in DOMAIN slot :
           \/ BuildLocal(k) \/ FetchPublicKey(k) \/ CreateKmsSigner(k)
           \/ sign_claim(k) \/ sign_prehash(k)
    \/ AliasMoves
    \/ Settled

Spec == Init /\ [][Next]_vars

-----------------------------------------------------------------------------
(* Properties.                                                             *)

(* The types of parse_list's locals and of the slots being built. *)
TypeOK ==
    /\ list \in Lists /\ phase \in {"parse", "pool", "err"}
    /\ i \in 1..(Len(list) + 1)
    /\ \A k \in DOMAIN out : out[k].kind \in {"PrivateKey", "Kms"}
    /\ \A k \in DOMAIN slot :
           /\ slot[k].at \in {"new", "fetched", "ready", "failed"}
           /\ {slot[k].point, slot[k].address} \subseteq Keys \cup {"none"}
    /\ kms \in [Names -> KmsKeys] /\ moved \subseteq Names
    /\ under \subseteq (DOMAIN slot) \X {"new", "fetched", "ready", "failed"}
    /\ \A m \in made : /\ m.slot \in DOMAIN slot /\ m.digest \in Digests
                        /\ m.bytes.sig.key \in Keys /\ m.bytes.v \in Bytes

Blank(e) == e.body.hex /\ e.body.len = 0 /\ ~e.prefix
SameText(e, f) == e.prefix = f.prefix /\ e.body = f.body
MangledKey(e) == e.body.hex /\ e.body.len # 64

\* The entries a list holds, by position, blanks apart.
Named == {k \in DOMAIN list : ~Blank(list[k])}

(* parse_list takes a list exactly when it names a signer, no two entries are
   one text whatever their padding, and none is a mangled key; the slots are
   then its named entries in order, a slot each (lib.rs 115-151). *)
ListIsTakenOrRefusedWhole ==
    /\ phase = "err" =>
           \/ Named = {}
           \/ \E k \in Named : MangledKey(list[k])
           \/ \E j, k \in Named : j # k /\ SameText(list[j], list[k])
    /\ phase = "pool" =>
           /\ Named # {} /\ Len(out) = Cardinality(Named)
           /\ \A k \in Named :
                  LET s == out[Cardinality({j \in Named : j <= k})] IN
                  /\ SameText(s.text, list[k]) /\ ~MangledKey(list[k])
                  /\ s.kind = IF list[k].body.hex THEN "PrivateKey" ELSE "Kms"
           /\ \A j, k \in Named : j # k => ~SameText(list[j], list[k])

(* Exactly one event gives a slot two keys: its own alias being moved after
   build_managed has fetched the point and before AwsSigner::new has asked for the
   address, both by name (lib.rs 219, 249).  Every other slot that is ready publishes
   the public key of its address, in the short form too, whatever happens between its
   awaits to the other slots and their aliases, and to its own before and after; and
   it signs as that address until its alias moves under the finished slot.  A local
   slot's key is the one both parsers of the text give. *)
OneIdentityPerSlot ==
    \A k \in DOMAIN slot :
        slot[k].at = "ready" =>
            /\ <<k, "fetched">> \notin under <=>
                   {key \in Keys : compressed_public_key(k) =
                       [prefix |-> 2 + Curve[key].odd, x |-> Curve[key].x]} = {address(k)}
            /\ <<k, "ready">> \notin under => address(k) = SigningKey(k)
            /\ out[k].kind = "PrivateKey" =>
                   /\ raw_key_bytes(k) = {address(k)} /\ address(k) = SigningKey(k)
                   /\ hex_to_signing_key(Source(k)) = {address(k)}

(* A claim recovers to the address of the slot that made it, for its own digest
   only and under both conventions of the last byte, and to nothing of the slot's
   under any other byte; its bytes are what sign_eth_claim makes, which the chain
   reads.  A signature over a bare digest is never taken for a claim
   (lib.rs 303-343, libid-crypto 92-127). *)
ClaimsRecover ==
    \A m \in made :
        <<m.slot, "ready">> \notin under =>
            LET key == address(m.slot)
                recid == m.bytes.sig.recid
            IN  /\ m.bytes.v \in {27, 28}
                /\ m.as = "claim" => m.bytes = sign_eth_claim(key, m.digest, recid)
                /\ \A d \in Digests, v \in Bytes :
                       recover_eth_claim([m.bytes EXCEPT !.v = v], d) = key
                           <=> /\ m.as = "claim" /\ d = m.digest
                               /\ v \in {recid, recid + 27}

-----------------------------------------------------------------------------
(* "each slot needs its own key": two pool slots sharing one key share a nonce
   sequence, which the duplicate guard of parse_list is there to refuse
   (lib.rs 122-127, 139). *)
PoolSlotsDistinctKeys ==
    \A j, k \in DOMAIN slot :
        (j # k /\ slot[j].at = "ready" /\ slot[k].at = "ready")
            => address(j) # address(k)
=============================================================================
