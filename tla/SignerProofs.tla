---------------------------- MODULE SignerProofs ----------------------------
(***************************************************************************)
(* Proofs about Signer, for all lists, keys and digests, any pool and any  *)
(* number of moved aliases.                                                *)
(***************************************************************************)
EXTENDS Signer, FiniteSetTheorems, TLAPS

\* What from_spec is given, and the sources it makes of it.
Trimmed == {trim(e) : e \in Texts}
SourceOf(t) == [kind |-> from_spec(t), text |-> t]
Sources == {SourceOf(t) : t \in {u \in Trimmed : ~is_empty(u) /\ from_spec(u) # "err"}}

\* The named entries the loop is past, and the slot each has got.
Past == {k \in Named : k < i}
Place(k) == Cardinality({j \in Named : j <= k})

\* The sources are the entries passed, one each and in their order; seen holds
\* their texts, which all differ; and a list is refused for one of three reasons.
ParseInv ==
    /\ list \in Lists /\ phase \in {"parse", "pool", "err"}
    /\ i \in 1..(Len(list) + 1) /\ (phase = "pool" => i = Len(list) + 1)
    /\ out \in Seq(Sources) /\ Len(out) = Cardinality(Past)
    /\ phase = "pool" => out # <<>>
    /\ seen = {trim(list[k]) : k \in Past}
    /\ \A k \in Past :
           Place(k) \in DOMAIN out /\ out[Place(k)] = SourceOf(trim(list[k]))
    /\ \A j, k \in Past : j # k => trim(list[j]) # trim(list[k])
    /\ phase = "err" =>
           \/ Named = {}
           \/ \E k \in Named : MangledKey(list[k])
           \/ \E j, k \in Named : j # k /\ SameText(list[j], list[k])

\* An alias moves once, so a slot it moved under has a name that stays.
KmsInv ==
    /\ kms \in [Names -> KmsKeys] /\ moved \subseteq Names
    /\ \A u \in under : Source(u[1]).body \in moved
    /\ under \subseteq (DOMAIN slot) \X {"new", "fetched", "ready", "failed"}

SlotShape ==
    /\ phase # "pool" => slot = <<>>
    /\ phase = "pool" => DOMAIN slot = DOMAIN out

\* What a slot may hold: the point is the key its source's name stands for until the
\* alias moves, and the address's until the alias moves between the two; a local key
\* is a scalar.
Fits(k, s) ==
    /\ s.at \in {"new", "fetched", "ready", "failed"}
    /\ s.at \in {"new", "failed"} => s.point = "none"
    /\ s.at # "ready" => s.address = "none" /\ <<k, "ready">> \notin under
    /\ s.at = "new" => <<k, "fetched">> \notin under
    /\ s.at = "fetched" =>
           /\ out[k].kind = "Kms" /\ s.point \in KmsKeys
           /\ s.point = SigningKey(k) <=> <<k, "fetched">> \notin under
    /\ s.at = "ready" =>
           /\ {s.point, s.address, SigningKey(k)} \subseteq Keys
           /\ out[k].kind # "Kms" => SigningKey(k) \in ValidKeys /\ s.address = SigningKey(k)
           /\ s.point = s.address <=> <<k, "fetched">> \notin under
           /\ <<k, "ready">> \notin under => s.address = SigningKey(k)

SlotsInv == SlotShape /\ \A k \in DOMAIN slot : Fits(k, slot[k])

\* The hash a signature is over, by what was asked.
HashOf(as, digest) == IF as = "claim" THEN Prefixed(digest) ELSE Hashed(digest)

\* What a slot that is ready may have signed; the key is the slot's own as long as
\* its alias does not move under it.
MadeBy(m, key, recid) ==
    /\ m.bytes = [len |-> 65, sig |-> Signature(key, HashOf(m.as, m.digest), recid),
                  v |-> evm_v(recid)]
    /\ <<m.slot, "ready">> \notin under => key = address(m.slot)

MadeOK(m) ==
    /\ m.slot \in DOMAIN slot /\ slot[m.slot].at = "ready"
    /\ m.as \in {"claim", "prehash"} /\ m.digest \in Digests
    /\ \E key \in Keys, recid \in 0..1 : MadeBy(m, key, recid)

MadeInv == \A m \in made : MadeOK(m)

SignerInv == ParseInv /\ KmsInv /\ SlotsInv /\ MadeInv

-----------------------------------------------------------------------------
(* The entries.                                                            *)

(* Trimming an entry takes off its padding and nothing else: what is left is blank
   exactly when the entry was. *)
LEMMA TrimKeepsTheText ==
    ASSUME NEW e \in Texts
    PROVE  /\ trim(e) = [pad |-> FALSE, prefix |-> e.prefix, body |-> e.body]
           /\ trim(e) \in Trimmed
           /\ is_empty(trim(e)) <=> Blank(e)
           /\ e.body.hex \in BOOLEAN /\ e.body.len \in Nat
  <1>1. /\ e \in [pad : BOOLEAN, prefix : BOOLEAN, body : {f.body : f \in Texts}]
        /\ e.body.hex \in BOOLEAN /\ e.body.len \in Nat
    BY ListsAssumption
  <1>2. trim(e) = [pad |-> FALSE, prefix |-> e.prefix, body |-> e.body]
    <2>1. e = [pad |-> e.pad, prefix |-> e.prefix, body |-> e.body]
      BY <1>1
    <2>2. DOMAIN e = {"pad", "prefix", "body"}
      BY <2>1
    <2>3. trim(e) = [x \in {"pad", "prefix", "body"} |-> IF x = "pad" THEN FALSE ELSE e[x]]
      BY <2>2, Zenon DEF trim
    <2>4. QED
      BY <2>3
  <1>3. trim(e) \in Trimmed
    BY DEF Trimmed
  <1>4. is_empty(trim(e)) <=> Blank(e)
    BY <1>2 DEF is_empty, Blank
  <1>5. QED
    BY <1>1, <1>2, <1>3, <1>4

(* Two entries are one text exactly when trimming makes them equal. *)
LEMMA TrimmedTextsAreTexts ==
    ASSUME NEW e \in Texts, NEW f \in Texts
    PROVE  trim(e) = trim(f) <=> SameText(e, f)
  <1>1. /\ trim(e) = [pad |-> FALSE, prefix |-> e.prefix, body |-> e.body]
        /\ trim(f) = [pad |-> FALSE, prefix |-> f.prefix, body |-> f.body]
    BY TrimKeepsTheText
  <1>2. ASSUME trim(e) = trim(f)
        PROVE  SameText(e, f)
    <2>1. trim(e).prefix = e.prefix /\ trim(e).body = e.body
      BY <1>1
    <2>2. trim(f).prefix = f.prefix /\ trim(f).body = f.body
      BY <1>1
    <2>3. QED
      BY <1>2, <2>1, <2>2 DEF SameText
  <1>3. ASSUME SameText(e, f)
        PROVE  trim(e) = trim(f)
    <2>1. e.prefix = f.prefix /\ e.body = f.body
      BY <1>3 DEF SameText
    <2>2. QED
      BY <1>1, <2>1
  <1>4. QED
    BY <1>2, <1>3

(* A source's kind tells hex digits from a name: a key has 64 digits and no padding
   and is no name, a name is one of the lists'. *)
LEMMA SourcesAreTheirTexts ==
    ASSUME NEW s \in Sources
    PROVE  /\ s = [kind |-> s.kind, text |-> s.text]
           /\ s.kind \in {"PrivateKey", "Kms"}
           /\ s.kind = "Kms" <=> ~s.text.body.hex
           /\ s.kind = "Kms" => s.text.body \in Names
           /\ s.kind = "PrivateKey" =>
                  /\ s.text.body.hex /\ s.text.body.len = 64 /\ ~s.text.pad
                  /\ s.text.body \notin Names
  <1>1. PICK e \in Texts : /\ s = SourceOf(trim(e)) /\ ~is_empty(trim(e))
                           /\ from_spec(trim(e)) # "err"
    BY DEF Sources, Trimmed
  <1>2. /\ trim(e) = [pad |-> FALSE, prefix |-> e.prefix, body |-> e.body]
        /\ e.body.hex \in BOOLEAN
    BY TrimKeepsTheText
  <1>3. s.kind = from_spec(trim(e)) /\ s.text = trim(e)
        /\ s = [kind |-> s.kind, text |-> s.text]
    BY <1>1 DEF SourceOf
  <1>4. s.text.body = e.body /\ s.text.pad = FALSE
    BY <1>2, <1>3
  <1>5. CASE e.body.hex
    <2>1. s.kind = "PrivateKey" /\ e.body.len = 64
      BY <1>1, <1>2, <1>3, <1>5 DEF from_spec
    <2>2. e.body \notin Names
      BY <1>5 DEF Names
    <2>3. QED
      BY <1>3, <1>4, <1>5, <2>1, <2>2
  <1>6. CASE ~e.body.hex
    <2>1. s.kind = "Kms"
      BY <1>1, <1>2, <1>3, <1>6 DEF from_spec
    <2>2. e.body \in Names
      BY <1>6 DEF Names
    <2>3. QED
      BY <1>3, <1>4, <1>6, <2>1, <2>2
  <1>7. QED
    BY <1>5, <1>6

(* A list is a sequence of entries, and its named positions are among its own. *)
LEMMA ListsAreEntries ==
    list \in Lists =>
        /\ Len(list) \in Nat /\ DOMAIN list = 1..Len(list)
        /\ \A k \in DOMAIN list : list[k] \in Texts
        /\ Named \subseteq 1..Len(list) /\ IsFiniteSet(Named)
  <1> SUFFICES ASSUME list \in Lists
               PROVE  /\ Len(list) \in Nat /\ DOMAIN list = 1..Len(list)
                      /\ \A k \in DOMAIN list : list[k] \in Texts
                      /\ Named \subseteq 1..Len(list) /\ IsFiniteSet(Named)
    OBVIOUS
  <1>1. list \in Seq(Texts)
    BY ListsAssumption
  <1>2. /\ Len(list) \in Nat /\ DOMAIN list = 1..Len(list)
        /\ \A k \in DOMAIN list : list[k] \in Texts
    BY <1>1
  <1>3. Named \subseteq 1..Len(list)
    BY <1>2 DEF Named
  <1>4. IsFiniteSet(1..Len(list))
    BY <1>2, FS_Interval, 1 \in Int, Len(list) \in Int
  <1>5. IsFiniteSet(Named)
    BY <1>3, <1>4, FS_Subset
  <1>6. QED
    BY <1>2, <1>3, <1>5

-----------------------------------------------------------------------------
(* parse_list and from_spec.                                               *)

(* The entries passed in one round: a blank one changes nothing, a named one comes
   last and its slot is the next one. *)
LEMMA OneMoreEntry ==
    ASSUME list \in Lists, i \in 1..Len(list)
    PROVE  /\ Cardinality(Past) \in Nat
           /\ i \notin Named => {k \in Named : k < i + 1} = Past
           /\ i \in Named =>
                  /\ {k \in Named : k < i + 1} = Past \cup {i} /\ i \notin Past
                  /\ Cardinality(Past \cup {i}) = Cardinality(Past) + 1
                  /\ Place(i) = Cardinality(Past) + 1
  <1>1. Named \subseteq 1..Len(list) /\ IsFiniteSet(Named) /\ Len(list) \in Nat
    BY ListsAreEntries
  <1>2. i \in Nat /\ \A k \in Named : k \in Nat
    BY <1>1
  <1>3. IsFiniteSet(Past)
    BY <1>1, FS_Subset DEF Past
  <1>4. Cardinality(Past) \in Nat
    BY <1>3, FS_CardinalityType
  <1>5. i \notin Past
    BY <1>2 DEF Past
  <1>6. ASSUME i \notin Named
        PROVE  {k \in Named : k < i + 1} = Past
    BY <1>2, <1>6 DEF Past
  <1>7. ASSUME i \in Named
        PROVE  /\ {k \in Named : k < i + 1} = Past \cup {i}
               /\ {j \in Named : j <= i} = Past \cup {i}
    <2>1. \A k \in Named : (k < i + 1 <=> k < i \/ k = i) /\ (k <= i <=> k < i \/ k = i)
      BY <1>2
    <2>2. QED
      BY <1>7, <2>1 DEF Past
  <1>8. Cardinality(Past \cup {i}) = Cardinality(Past) + 1
    BY <1>3, <1>5, FS_AddElement
  <1>9. QED
    BY <1>4, <1>5, <1>6, <1>7, <1>8 DEF Place

(* A named entry from_spec takes gets a source of its own. *)
LEMMA EntryKeepsParse ==
    ASSUME ParseInv, Entry
    PROVE  ParseInv'
  <1> DEFINE entry == trim(list[i])
  <1>1. /\ list \in Lists /\ phase = "parse" /\ i \in 1..Len(list) /\ Len(list) \in Nat
        /\ out \in Seq(Sources) /\ Len(out) = Cardinality(Past)
        /\ seen = {trim(list[k]) : k \in Past}
        /\ \A k \in Past :
               Place(k) \in DOMAIN out /\ out[Place(k)] = SourceOf(trim(list[k]))
        /\ \A j, k \in Past : j # k => trim(list[j]) # trim(list[k])
    BY ListsAreEntries DEF ParseInv, Entry
  <1>2. /\ i \in DOMAIN list /\ list[i] \in Texts /\ Past \subseteq Named
        /\ \A k \in Named : k \in DOMAIN list /\ list[k] \in Texts
    BY <1>1, ListsAreEntries DEF Past, Named
  <1>3. is_empty(entry) <=> i \notin Named
    BY <1>2, TrimKeepsTheText DEF Named
  <1>4. list' = list /\ Named' = Named
    BY DEF Entry, Fail, Named
  <1>5. CASE is_empty(entry)
    <2>1. i' = i + 1 /\ UNCHANGED <<list, phase, seen, out, slot>>
      BY <1>5 DEF Entry
    <2>2. Past' = Past
      BY <1>1, <1>3, <1>4, <1>5, <2>1, OneMoreEntry DEF Past
    <2>3. \A k : Place(k)' = Place(k)
      BY <1>4 DEF Place
    <2>4. i' \in 1..(Len(list') + 1)
      BY <1>1, <2>1
    <2>5. QED
      BY <1>1, <2>1, <2>2, <2>3, <2>4 DEF ParseInv
  <1>6. CASE ~is_empty(entry) /\ (entry \in seen \/ from_spec(entry) = "err")
    <2>1. phase' = "err" /\ UNCHANGED <<list, i, seen, out, slot>>
      BY <1>6 DEF Entry, Fail
    <2>2. Past' = Past /\ \A k : Place(k)' = Place(k)
      BY <1>4, <2>1 DEF Past, Place
    <2>3. i \in Named
      BY <1>3, <1>6
    <2>4. \/ \E k \in Named : MangledKey(list[k])
          \/ \E j, k \in Named : j # k /\ SameText(list[j], list[k])
      <3>1. CASE entry \in seen
        <4>1. PICK j \in Past : trim(list[j]) = trim(list[i])
          BY <1>1, <3>1
        <4>2. j \in Named /\ j # i /\ list[j] \in Texts
          BY <1>1, <1>2, <2>3, OneMoreEntry
        <4>3. SameText(list[j], list[i])
          BY <1>2, <4>1, <4>2, TrimmedTextsAreTexts
        <4>4. QED
          BY <2>3, <4>2, <4>3
      <3>2. CASE from_spec(entry) = "err"
        <4>1. entry.body = list[i].body
          BY <1>2, TrimKeepsTheText
        <4>2. entry.body.hex /\ entry.body.len # 64
          BY <1>6, <3>2, Zenon DEF from_spec
        <4>3. MangledKey(list[i])
          BY <4>1, <4>2 DEF MangledKey
        <4>4. QED
          BY <2>3, <4>3
      <3>3. QED
        BY <1>6, <3>1, <3>2
    <2>5. (\/ \E k \in Named : MangledKey(list[k])
           \/ \E j, k \in Named : j # k /\ SameText(list[j], list[k]))'
      BY <1>4, <2>4 DEF SameText, MangledKey
    <2>6. QED
      BY <1>1, <2>1, <2>2, <2>5 DEF ParseInv
  <1>7. CASE ~is_empty(entry) /\ ~(entry \in seen \/ from_spec(entry) = "err")
    <2> DEFINE s == SourceOf(entry)
    <2>1. /\ seen' = seen \cup {entry} /\ out' = Append(out, s) /\ i' = i + 1
          /\ phase' = phase
      BY <1>7 DEF Entry, SourceOf
    <2>2. i \in Named
      BY <1>3, <1>7
    <2>3. /\ Past' = Past \cup {i} /\ i \notin Past
          /\ Cardinality(Past') = Len(out) + 1 /\ Place(i) = Len(out) + 1
      BY <1>1, <1>4, <2>1, <2>2, OneMoreEntry DEF Past
    <2>4. \A k : Place(k)' = Place(k)
      BY <1>4 DEF Place
    <2>5. s \in Sources
      BY <1>2, <1>7, TrimKeepsTheText DEF Sources
    <2>6. /\ out' \in Seq(Sources) /\ Len(out') = Len(out) + 1
          /\ \A n \in DOMAIN out : n \in DOMAIN out' /\ out'[n] = out[n]
          /\ Len(out) + 1 \in DOMAIN out' /\ out'[Len(out) + 1] = s
      <3> HIDE DEF s
      <3>1. Len(out) \in Nat /\ DOMAIN out = 1..Len(out)
        BY <1>1
      <3>2. out' \in Seq(Sources) /\ Len(out') = Len(out) + 1
        BY <1>1, <2>1, <2>5
      <3>3. DOMAIN out' = 1..(Len(out) + 1)
        BY <3>2
      <3>4. \A n \in 1..Len(out) : out'[n] = out[n]
        BY <1>1, <2>1
      <3>5. out'[Len(out) + 1] = s
        BY <1>1, <2>1, <3>1
      <3>6. QED
        BY <3>1, <3>2, <3>3, <3>4, <3>5
    <2>7. seen' = {trim(list'[k]) : k \in Past'}
      BY <1>1, <1>4, <2>1, <2>3
    <2>8. \A k \in Past' : /\ Place(k)' \in DOMAIN out'
                             /\ out'[Place(k)'] = SourceOf(trim(list'[k]))
      <3> SUFFICES ASSUME NEW k \in Past'
                   PROVE  Place(k) \in DOMAIN out' /\ out'[Place(k)] = SourceOf(trim(list[k]))
        BY <1>4, <2>4
      <3>1. CASE k \in Past
        BY <1>1, <2>6, <3>1
      <3>2. CASE k = i
        BY <2>3, <2>6, <3>2
      <3>3. QED
        BY <2>3, <3>1, <3>2
    <2>9. \A j, k \in Past' : j # k => trim(list'[j]) # trim(list'[k])
      <3>1. \A k \in Past : trim(list[k]) # trim(list[i])
        BY <1>1, <1>7
      <3>2. QED
        BY <1>1, <1>4, <2>3, <3>1
    <2>10. i' \in 1..(Len(list') + 1) /\ Len(out') = Cardinality(Past')
      BY <1>1, <1>4, <2>1, <2>3, <2>6
    <2>11. QED
      BY <1>1, <1>4, <2>1, <2>6, <2>7, <2>8, <2>9, <2>10 DEF ParseInv
  <1>8. QED
    BY <1>5, <1>6, <1>7

(* At the end of the list every named entry is past; without a source there was
   none. *)
LEMMA EndKeepsParse ==
    ASSUME ParseInv, EndOfList
    PROVE  ParseInv'
  <1>1. list \in Lists /\ i \in 1..(Len(list) + 1) /\ i > Len(list) /\ Len(list) \in Nat
    BY ListsAreEntries DEF ParseInv, EndOfList
  <1>2. UNCHANGED <<list, i, seen, out>> /\ i = Len(list) + 1
    BY <1>1 DEF EndOfList, Fail
  <1>3. Named' = Named /\ Past' = Past /\ \A k : Place(k)' = Place(k)
    BY <1>2 DEF Named, Past, Place
  <1>4. Past = Named /\ IsFiniteSet(Named)
    BY <1>1, <1>2, ListsAreEntries DEF Past
  <1>5. CASE out = <<>>
    <2>1. phase' = "err"
      BY <1>5 DEF EndOfList, Fail
    <2>2. Cardinality(Named) = 0
      BY <1>4, <1>5 DEF ParseInv
    <2>3. Named' = {}
      BY <1>3, <1>4, <2>2, FS_EmptySet
    <2>4. QED
      BY <1>1, <1>2, <1>3, <2>1, <2>3 DEF ParseInv
  <1>6. CASE out # <<>>
    <2>1. phase' = "pool"
      BY <1>6 DEF EndOfList
    <2>2. QED
      BY <1>1, <1>2, <1>3, <1>6, <2>1 DEF ParseInv
  <1>7. QED
    BY <1>5, <1>6

-----------------------------------------------------------------------------
(* build_managed and what is signed.                                       *)

(* The key behind a slot's text: one in KMS for a name, the text's own otherwise. *)
LEMMA SlotsOfThePool ==
    ASSUME ParseInv, SlotShape, NEW k \in DOMAIN slot
    PROVE  phase = "pool" /\ k \in DOMAIN out /\ out[k] \in Sources
  <1>1. phase = "pool"
    <2>1. DOMAIN <<>> = {}
      OBVIOUS
    <2>2. QED
      BY <2>1 DEF SlotShape
  <1>2. k \in DOMAIN out
    BY <1>1 DEF SlotShape
  <1>3. out \in Seq(Sources)
    BY DEF ParseInv
  <1>4. QED
    BY <1>1, <1>2, <1>3

(* A slot of the KMS has the key its name stands for. *)
LEMMA NamesAnswerWithKmsKeys ==
    ASSUME ParseInv, SlotShape, KmsInv, NEW k \in DOMAIN slot, out[k].kind = "Kms"
    PROVE  /\ SigningKey(k) = kms[Source(k).body] /\ SigningKey(k) \in KmsKeys
           /\ Source(k).body \in Names
  <1>1. out[k] \in Sources
    BY SlotsOfThePool
  <1>2. Source(k).body \in Names
    BY <1>1, SourcesAreTheirTexts DEF Source
  <1>3. QED
    BY <1>2 DEF SigningKey, KmsInv

(* A slot that is not ready is given what fits it: the others keep theirs, and no
   signature was its. *)
LEMMA OneSlotMoves ==
    ASSUME ParseInv, KmsInv, SlotsInv, MadeInv, NEW k \in DOMAIN slot,
           slot[k].at # "ready", NEW s, Fits(k, s), SetSlot(k, s)
    PROVE  KmsInv' /\ SlotsInv' /\ MadeInv'
  <1>1. /\ slot' = [slot EXCEPT ![k] = s]
        /\ UNCHANGED <<list, phase, i, seen, out, kms, moved, under, made>>
    BY DEF SetSlot, parse, aliases
  <1>2. DOMAIN slot' = DOMAIN slot /\ slot'[k] = s
        /\ \A j \in DOMAIN slot : j # k => slot'[j] = slot[j]
    BY <1>1
  <1>3. phase = "pool" /\ phase' = "pool"
    BY <1>1, SlotsOfThePool DEF SlotsInv
  <1>4. SlotShape'
    BY <1>1, <1>2, <1>3 DEF SlotShape, SlotsInv
  <1>5. \A j, t : Fits(j, t)' <=> Fits(j, t)
    BY <1>1 DEF Fits, SigningKey, Source
  <1>6. \A j \in DOMAIN slot' : Fits(j, slot'[j])
    BY <1>2 DEF SlotsInv
  <1>7. \A j \in DOMAIN slot' : Fits(j, slot[j])'
    <2> SUFFICES ASSUME NEW j \in DOMAIN slot'
                 PROVE  Fits(j, slot[j])'
      OBVIOUS
    <2>1. PICK u : u = slot'[j]
      OBVIOUS
    <2>2. Fits(j, u)'
      BY <1>5, <1>6, <2>1
    <2>3. QED
      BY <2>1, <2>2 DEF Fits, SigningKey, Source
  <1>8. MadeInv'
    <2> SUFFICES ASSUME NEW m \in made
                 PROVE  MadeOK(m)'
      BY <1>1 DEF MadeInv
    <2>1. MadeOK(m)
      BY DEF MadeInv
    <2>2. m.slot \in DOMAIN slot /\ m.slot # k /\ slot'[m.slot] = slot[m.slot]
      BY <1>2, <2>1 DEF MadeOK
    <2>3. \A key, recid : MadeBy(m, key, recid)' <=> MadeBy(m, key, recid)
      BY <1>1, <2>2 DEF MadeBy, address, Source
    <2>4. QED
      BY <1>2, <2>1, <2>2, <2>3 DEF MadeOK
  <1>9. KmsInv'
    BY <1>1, <1>2 DEF KmsInv, Source
  <1>10. QED
    BY <1>4, <1>7, <1>8, <1>9 DEF SlotsInv

(* A local key is the slot's own and fits when it is a scalar. *)
LEMMA LocalKeyFits ==
    ASSUME ParseInv, KmsInv, SlotsInv, MadeInv, NEW k \in DOMAIN slot, BuildLocal(k)
    PROVE  KmsInv' /\ SlotsInv' /\ MadeInv'
  <1>1. slot[k].at = "new" /\ out[k].kind = "PrivateKey"
    BY DEF BuildLocal
  <1>2. PICK s : /\ SetSlot(k, s)
                 /\ s = IF Source(k).body.bytes \in ValidKeys
                        THEN Ready(Source(k).body.bytes, Source(k).body.bytes) ELSE Failed
    BY DEF BuildLocal
  <1>3. SigningKey(k) = Source(k).body.bytes
    BY <1>1 DEF SigningKey
  <1>4. <<k, "fetched">> \notin under /\ <<k, "ready">> \notin under
    <2>1. Fits(k, slot[k])
      BY DEF SlotsInv
    <2>2. QED
      BY <1>1, <2>1 DEF Fits
  <1>5. Fits(k, s)
    BY <1>2, <1>3, <1>4 DEF Fits, Ready, Failed, Keys
  <1>6. QED
    BY <1>1, <1>2, <1>5, OneSlotMoves

(* The point fetched is the named key's; a refusal fails the slot. *)
LEMMA FetchedPointFits ==
    ASSUME ParseInv, KmsInv, SlotsInv, MadeInv, NEW k \in DOMAIN slot, FetchPublicKey(k)
    PROVE  KmsInv' /\ SlotsInv' /\ MadeInv'
  <1>1. slot[k].at = "new" /\ out[k].kind = "Kms"
    BY DEF FetchPublicKey
  <1>2. PICK s : /\ SetSlot(k, s)
                 /\ \/ s = Failed
                    \/ s = [at |-> "fetched", point |-> kms[Source(k).body],
                            address |-> "none"]
    BY DEF FetchPublicKey
  <1>3. SigningKey(k) = kms[Source(k).body] /\ SigningKey(k) \in KmsKeys
    BY <1>1, NamesAnswerWithKmsKeys DEF SlotsInv
  <1>4. <<k, "fetched">> \notin under /\ <<k, "ready">> \notin under
    <2>1. Fits(k, slot[k])
      BY DEF SlotsInv
    <2>2. QED
      BY <1>1, <2>1 DEF Fits
  <1>5. Fits(k, s)
    BY <1>1, <1>2, <1>3, <1>4 DEF Fits, Failed
  <1>6. QED
    BY <1>1, <1>2, <1>5, OneSlotMoves

(* The second look-up answers as the first unless the alias moved between them. *)
LEMMA SecondLookUpFits ==
    ASSUME ParseInv, KmsInv, SlotsInv, MadeInv, NEW k \in DOMAIN slot, CreateKmsSigner(k)
    PROVE  KmsInv' /\ SlotsInv' /\ MadeInv'
  <1>1. slot[k].at = "fetched"
    BY DEF CreateKmsSigner
  <1>2. PICK s : /\ SetSlot(k, s)
                 /\ \/ s = Failed
                    \/ s = Ready(slot[k].point, kms[Source(k).body])
    BY DEF CreateKmsSigner
  <1>3. Fits(k, slot[k])
    BY DEF SlotsInv
  <1>4. /\ out[k].kind = "Kms" /\ slot[k].point \in KmsKeys
        /\ slot[k].point = SigningKey(k) <=> <<k, "fetched">> \notin under
        /\ <<k, "ready">> \notin under
    BY <1>1, <1>3 DEF Fits
  <1>5. SigningKey(k) = kms[Source(k).body] /\ SigningKey(k) \in KmsKeys
    BY <1>4, NamesAnswerWithKmsKeys DEF SlotsInv
  <1>6. Fits(k, s)
    BY <1>2, <1>4, <1>5 DEF Fits, Failed, Ready, Keys
  <1>7. QED
    BY <1>1, <1>2, <1>6, OneSlotMoves

(* While the list is read there is no slot and no signature; at its end the slots
   are new. *)
LEMMA ParsingBuildsNothing ==
    ASSUME ParseInv, KmsInv, SlotsInv, MadeInv, Entry \/ EndOfList
    PROVE  KmsInv' /\ SlotsInv' /\ MadeInv'
  <1>1. phase = "parse" /\ UNCHANGED <<kms, moved, under, made>>
    BY DEF Entry, EndOfList, aliases
  <1>2. slot = <<>> /\ DOMAIN slot = {}
    BY <1>1 DEF SlotsInv, SlotShape
  <1>3. made = {} /\ made' = {}
    BY <1>1, <1>2 DEF MadeInv, MadeOK
  <1>4. KmsInv' /\ MadeInv' /\ under = {}
    <2>1. under = {}
      BY <1>2 DEF KmsInv
    <2>2. QED
      BY <1>1, <1>3, <2>1 DEF KmsInv, MadeInv
  <1>5. CASE phase' # "pool"
    <2>1. slot' = slot
      BY <1>5 DEF Entry, EndOfList, Fail
    <2>2. SlotsInv'
      BY <1>2, <1>5, <2>1 DEF SlotsInv, SlotShape
    <2>3. QED
      BY <1>4, <2>2
  <1>6. CASE phase' = "pool"
    <2>1. /\ slot' = [k \in DOMAIN out |->
                          [at |-> "new", point |-> "none", address |-> "none"]]
          /\ out' = out
      BY <1>1, <1>6 DEF Entry, EndOfList, Fail
    <2>2. SlotShape'
      BY <1>6, <2>1 DEF SlotShape
    <2>3. \A k \in DOMAIN slot' : Fits(k, slot[k])'
      BY <1>1, <1>4, <2>1 DEF Fits
    <2>4. QED
      BY <1>4, <2>2, <2>3 DEF SlotsInv
  <1>7. QED
    BY <1>5, <1>6

(* An alias that moves has not moved before, and is noted under the slots of its
   name; the other names answer as before, and what a slot signs with stays a key. *)
LEMMA AliasesMoveAlone ==
    ASSUME ParseInv, KmsInv, SlotsInv, MadeInv, AliasMoves
    PROVE  KmsInv' /\ SlotsInv' /\ MadeInv'
  <1>1. PICK n \in Names \ moved, key \in KmsKeys :
           /\ kms[n] # key /\ kms' = [kms EXCEPT ![n] = key] /\ moved' = moved \cup {n}
           /\ under' = under \cup
                  {<<k, slot[k].at>> : k \in {j \in DOMAIN slot : Source(j).body = n}}
    BY DEF AliasMoves
  <1>2. UNCHANGED <<list, phase, i, seen, out, slot, made>>
    BY DEF AliasMoves, parse
  <1>3. \A k : Source(k)' = Source(k)
    BY <1>2 DEF Source
  <1>4. \A k \in DOMAIN slot : \A at :
           <<k, at>> \in under' <=>
               \/ <<k, at>> \in under
               \/ Source(k).body = n /\ slot[k].at = at
    BY <1>1
  <1>5. KmsInv'
    <2>1. kms' \in [Names -> KmsKeys] /\ moved' \subseteq Names
      BY <1>1 DEF KmsInv
    <2>2. \A k \in DOMAIN slot : slot[k].at \in {"new", "fetched", "ready", "failed"}
      BY DEF SlotsInv, Fits
    <2>3. \A u \in under' :
             /\ Source(u[1]).body \in moved'
             /\ u \in (DOMAIN slot) \X {"new", "fetched", "ready", "failed"}
      BY <1>1, <2>2 DEF KmsInv
    <2>4. QED
      BY <1>2, <1>3, <2>1, <2>3 DEF KmsInv
  <1>6. ASSUME NEW k \in DOMAIN slot
        PROVE  Fits(k, slot[k])'
    <2>1. Fits(k, slot[k]) /\ SlotShape /\ out[k] \in Sources
      BY SlotsOfThePool DEF SlotsInv
    <2>2. CASE Source(k).body # n
      <3>1. SigningKey(k)' = SigningKey(k)
        BY <1>1, <1>2, <1>3, <2>2 DEF SigningKey, KmsInv
      <3>2. \A at : <<k, at>> \in under' <=> <<k, at>> \in under
        BY <1>4, <2>2
      <3>3. QED
        BY <1>2, <1>3, <2>1, <3>1, <3>2 DEF Fits
    <2>3. CASE Source(k).body = n
      <3>1. \A at : <<k, at>> \notin under
        <4>1. \A at : <<k, at>>[1] = k
          OBVIOUS
        <4>2. QED
          BY <1>1, <2>3, <4>1 DEF KmsInv
      <3>2. \A at : <<k, at>> \in under' <=> slot[k].at = at
        BY <1>4, <2>3, <3>1
      <3>3. out[k].kind = "Kms"
        BY <1>1, <2>1, <2>3, SourcesAreTheirTexts DEF Source
      <3>4. /\ SigningKey(k) = kms[n] /\ SigningKey(k)' = key
            /\ SigningKey(k) # SigningKey(k)' /\ SigningKey(k)' \in Keys
        BY <1>1, <1>2, <1>3, <2>3, <3>3 DEF SigningKey, KmsInv, Keys
      <3>5. QED
        BY <1>2, <2>1, <3>1, <3>2, <3>3, <3>4 DEF Fits
    <2>4. QED
      BY <2>2, <2>3
  <1>7. SlotsInv'
    BY <1>2, <1>6 DEF SlotsInv, SlotShape
  <1>8. ASSUME NEW m \in made
        PROVE  MadeOK(m)'
    <2>1. MadeOK(m)
      BY DEF MadeInv
    <2>2. <<m.slot, "ready">> \notin under' => <<m.slot, "ready">> \notin under
      BY <1>1
    <2>3. \A k, recid : MadeBy(m, k, recid) => MadeBy(m, k, recid)'
      BY <1>2, <2>2 DEF MadeBy, address
    <2>4. QED
      BY <1>2, <2>1, <2>3 DEF MadeOK
  <1>9. QED
    BY <1>2, <1>5, <1>7, <1>8 DEF MadeInv

(* What is signed is signed with the key of a slot that is ready. *)
LEMMA SlotsSignWithTheirKeys ==
    ASSUME ParseInv, KmsInv, SlotsInv, MadeInv, NEW k \in DOMAIN slot,
           sign_claim(k) \/ sign_prehash(k)
    PROVE  KmsInv' /\ SlotsInv' /\ MadeInv'
  <1>1. PICK as \in {"claim", "prehash"}, d \in Digests : SignHash(k, as, d, HashOf(as, d))
    <2>1. CASE sign_claim(k)
      <3>1. PICK d \in Digests : SignHash(k, "claim", d, HashOf("claim", d))
        BY <2>1 DEF sign_claim, HashOf
      <3>2. QED
        BY <3>1
    <2>2. CASE sign_prehash(k)
      <3>1. PICK d \in Digests : SignHash(k, "prehash", d, HashOf("prehash", d))
        BY <2>2 DEF sign_prehash, HashOf
      <3>2. QED
        BY <3>1
    <2>3. QED
      BY <2>1, <2>2
  <1>2. slot[k].at = "ready" /\ UNCHANGED <<list, phase, i, seen, out, slot, kms, moved, under>>
    BY <1>1 DEF SignHash, parse, aliases
  <1>3. KmsInv' /\ SlotsInv'
    BY <1>2 DEF KmsInv, SlotsInv, SlotShape, Fits, SigningKey, Source
  <1>4. /\ SigningKey(k) \in Keys
        /\ <<k, "ready">> \notin under => SigningKey(k) = address(k)
    BY <1>2 DEF SlotsInv, Fits, address
  <1>5. PICK recid \in 0..1 :
           made' = {[slot |-> k, as |-> as, digest |-> d, bytes |->
                      [len |-> 65, sig |-> Signature(SigningKey(k), HashOf(as, d), recid),
                       v |-> evm_v(recid)]]}
    BY <1>1 DEF SignHash
  <1>6. PICK m :
           /\ made' = {m}
           /\ m = [slot |-> k, as |-> as, digest |-> d, bytes |->
                     [len |-> 65, sig |-> Signature(SigningKey(k), HashOf(as, d), recid),
                      v |-> evm_v(recid)]]
    BY <1>5
  <1>7. /\ m.slot = k /\ m.as = as /\ m.digest = d
        /\ m.bytes = [len |-> 65, sig |-> Signature(SigningKey(k), HashOf(as, d), recid),
                       v |-> evm_v(recid)]
    BY <1>6
  <1>8. MadeBy(m, SigningKey(k), recid)
    BY <1>4, <1>7 DEF MadeBy
  <1>9. MadeOK(m)
    BY <1>2, <1>4, <1>7, <1>8 DEF MadeOK
  <1>10. MadeOK(m)'
    BY <1>2, <1>9 DEF MadeOK, MadeBy, address, Source
  <1>11. QED
    BY <1>3, <1>6, <1>10 DEF MadeInv

(* At the start no entry is past. *)
LEMMA SignerStart == Init => SignerInv
  <1> SUFFICES ASSUME Init
               PROVE  SignerInv
    OBVIOUS
  <1>1. /\ list \in Lists /\ phase = "parse" /\ i = 1 /\ seen = {} /\ out = <<>>
        /\ slot = <<>> /\ kms \in [Names -> KmsKeys] /\ moved = {} /\ under = {} /\ made = {}
    BY DEF Init
  <1>2. Len(list) \in Nat /\ Named \subseteq 1..Len(list)
    BY <1>1, ListsAreEntries
  <1>3. Past = {}
    <2>1. \A k \in Named : ~(k < i)
      BY <1>1, <1>2
    <2>2. QED
      BY <2>1 DEF Past
  <1>4. out \in Seq(Sources) /\ Len(out) = Cardinality(Past)
    BY <1>1, <1>3, FS_EmptySet
  <1>5. ParseInv
    BY <1>1, <1>2, <1>3, <1>4 DEF ParseInv
  <1>6. KmsInv /\ SlotsInv /\ MadeInv
    BY <1>1 DEF KmsInv, SlotsInv, SlotShape, MadeInv
  <1>7. QED
    BY <1>5, <1>6 DEF SignerInv

(* Every step keeps the invariant of the list, the slots and what they signed. *)
LEMMA SignerStep == SignerInv /\ [Next]_vars => SignerInv'
  <1> SUFFICES ASSUME SignerInv, [Next]_vars
               PROVE  SignerInv'
    OBVIOUS
  <1>0. ParseInv /\ KmsInv /\ SlotsInv /\ MadeInv
    BY DEF SignerInv
  <1>1. CASE Entry
    BY <1>0, <1>1, EntryKeepsParse, ParsingBuildsNothing DEF SignerInv
  <1>2. CASE EndOfList
    BY <1>0, <1>2, EndKeepsParse, ParsingBuildsNothing DEF SignerInv
  <1>3. ASSUME UNCHANGED parse
        PROVE  ParseInv'
    BY <1>0, <1>3, ZenonT(60) DEF parse, ParseInv, Past, Place, Named, SameText, MangledKey
  <1>4. ASSUME NEW k \in DOMAIN slot, BuildLocal(k)
        PROVE  SignerInv'
    <2>1. UNCHANGED parse
      BY <1>4 DEF BuildLocal, SetSlot
    <2>2. QED
      BY <1>0, <1>3, <1>4, <2>1, LocalKeyFits DEF SignerInv
  <1>5. ASSUME NEW k \in DOMAIN slot, FetchPublicKey(k)
        PROVE  SignerInv'
    <2>1. UNCHANGED parse
      BY <1>5 DEF FetchPublicKey, SetSlot
    <2>2. QED
      BY <1>0, <1>3, <1>5, <2>1, FetchedPointFits DEF SignerInv
  <1>6. ASSUME NEW k \in DOMAIN slot, CreateKmsSigner(k)
        PROVE  SignerInv'
    <2>1. UNCHANGED parse
      BY <1>6 DEF CreateKmsSigner, SetSlot
    <2>2. QED
      BY <1>0, <1>3, <1>6, <2>1, SecondLookUpFits DEF SignerInv
  <1>7. ASSUME NEW k \in DOMAIN slot, sign_claim(k) \/ sign_prehash(k)
        PROVE  SignerInv'
    <2>1. UNCHANGED parse
      BY <1>7 DEF sign_claim, sign_prehash, SignHash
    <2>2. QED
      BY <1>0, <1>3, <1>7, <2>1, SlotsSignWithTheirKeys DEF SignerInv
  <1>8. CASE AliasMoves
    <2>1. UNCHANGED parse
      BY <1>8 DEF AliasMoves
    <2>2. QED
      BY <1>0, <1>3, <1>8, <2>1, AliasesMoveAlone DEF SignerInv
  <1>9. CASE UNCHANGED vars
    <2>1. UNCHANGED <<list, phase, i, seen, out, slot, kms, moved, under, made>>
      BY <1>9 DEF vars, parse, aliases
    <2>2. ParseInv'
      BY <1>3, <2>1 DEF parse
    <2>3. KmsInv' /\ SlotsInv' /\ MadeInv'
      BY <1>0, <2>1 DEF KmsInv, SlotsInv, SlotShape, Fits, SigningKey, Source, MadeInv,
                        MadeOK, MadeBy, address
    <2>4. QED
      BY <2>2, <2>3 DEF SignerInv
  <1>10. Settled => UNCHANGED vars
    BY DEF Settled
  <1>11. QED
    BY <1>1, <1>2, <1>4, <1>5, <1>6, <1>7, <1>8, <1>9, <1>10 DEF Next

-----------------------------------------------------------------------------
(* The properties.                                                         *)

(* The pool is the list's named entries, one source each, in their order. *)
LEMMA PoolIsTheList ==
    SignerInv => ListIsTakenOrRefusedWhole
  <1> SUFFICES ASSUME SignerInv
               PROVE  ListIsTakenOrRefusedWhole
    OBVIOUS
  <1>1. ParseInv
    BY DEF SignerInv
  <1>2. ASSUME phase = "pool"
        PROVE  /\ Named # {} /\ Len(out) = Cardinality(Named)
               /\ \A k \in Named :
                      LET s == out[Place(k)] IN
                      /\ SameText(s.text, list[k]) /\ ~MangledKey(list[k])
                      /\ s.kind = IF list[k].body.hex THEN "PrivateKey" ELSE "Kms"
               /\ \A j, k \in Named : j # k => ~SameText(list[j], list[k])
    <2>1. /\ list \in Lists /\ i = Len(list) + 1 /\ out # <<>> /\ out \in Seq(Sources)
          /\ Len(out) = Cardinality(Past)
      BY <1>1, <1>2 DEF ParseInv
    <2>2. /\ Named \subseteq 1..Len(list) /\ Len(list) \in Nat
          /\ \A k \in Named : list[k] \in Texts
      BY <2>1, ListsAreEntries DEF Named
    <2>3. Past = Named
      <3>1. \A k \in Named : k < i
        BY <2>1, <2>2
      <3>2. QED
        BY <3>1 DEF Past
    <2>4. Named # {}
      <3>1. Len(out) # 0
        BY <2>1
      <3>2. QED
        BY <2>1, <2>3, <3>1, FS_EmptySet
    <2>5. ASSUME NEW k \in Named
          PROVE  LET s == out[Place(k)] IN
                 /\ SameText(s.text, list[k]) /\ ~MangledKey(list[k])
                 /\ s.kind = IF list[k].body.hex THEN "PrivateKey" ELSE "Kms"
      <3> DEFINE s == out[Place(k)]
      <3>1. Place(k) \in DOMAIN out /\ s = SourceOf(trim(list[k]))
        BY <1>1, <2>3 DEF ParseInv
      <3>2. s \in Sources
        BY <2>1, <3>1
      <3>3. s.text = trim(list[k])
        BY <3>1 DEF SourceOf
      <3> HIDE DEF s
      <3>4. s.text.prefix = list[k].prefix /\ s.text.body = list[k].body
        BY <2>2, <3>3, TrimKeepsTheText
      <3>5. /\ s.kind \in {"PrivateKey", "Kms"} /\ (s.kind = "Kms" <=> ~list[k].body.hex)
            /\ s.kind = "PrivateKey" => list[k].body.len = 64
        BY <3>2, <3>4, SourcesAreTheirTexts
      <3>6. SameText(s.text, list[k]) /\ ~MangledKey(list[k])
        BY <3>4, <3>5 DEF SameText, MangledKey
      <3>7. s.kind = IF list[k].body.hex THEN "PrivateKey" ELSE "Kms"
        BY <3>5
      <3>8. QED
        BY <3>6, <3>7 DEF s
    <2>6. ASSUME NEW j \in Named, NEW k \in Named, j # k
          PROVE  ~SameText(list[j], list[k])
      <3>1. trim(list[j]) # trim(list[k])
        BY <1>1, <2>3, <2>6 DEF ParseInv
      <3>2. QED
        BY <2>2, <3>1, TrimmedTextsAreTexts
    <2>7. QED
      BY <2>1, <2>3, <2>4, <2>5, <2>6
  <1>3. phase = "err" =>
           \/ Named = {}
           \/ \E k \in Named : MangledKey(list[k])
           \/ \E j, k \in Named : j # k /\ SameText(list[j], list[k])
    BY <1>1 DEF ParseInv
  <1>4. QED
    BY <1>2, <1>3 DEF ListIsTakenOrRefusedWhole, Place

(* One key has the short form of a point, so a slot publishes the key its point was
   fetched for; a local slot's is what both parsers make of its text. *)
LEMMA ReadySlotsHaveOneKey ==
    SignerInv => OneIdentityPerSlot
  <1> SUFFICES ASSUME SignerInv, NEW k \in DOMAIN slot, slot[k].at = "ready"
               PROVE  /\ <<k, "fetched">> \notin under <=>
                             {key \in Keys : compressed_public_key(k) =
                                 [prefix |-> 2 + Curve[key].odd, x |-> Curve[key].x]}
                                     = {address(k)}
                      /\ <<k, "ready">> \notin under => address(k) = SigningKey(k)
                      /\ out[k].kind = "PrivateKey" =>
                             /\ raw_key_bytes(k) = {address(k)}
                             /\ address(k) = SigningKey(k)
                             /\ hex_to_signing_key(Source(k)) = {address(k)}
    BY DEF OneIdentityPerSlot
  <1>1. ParseInv /\ KmsInv /\ SlotShape /\ Fits(k, slot[k]) /\ out[k] \in Sources
    BY SlotsOfThePool DEF SignerInv, SlotsInv
  <1>2. /\ slot[k].point \in Keys
        /\ slot[k].point = address(k) <=> <<k, "fetched">> \notin under
        /\ <<k, "ready">> \notin under => address(k) = SigningKey(k)
        /\ out[k].kind = "PrivateKey" =>
               SigningKey(k) \in ValidKeys /\ address(k) = SigningKey(k)
    BY <1>1 DEF Fits, address
  <1> DEFINE mine == slot[k].point
             Published == {key \in Keys : compressed_public_key(k) =
                              [prefix |-> 2 + Curve[key].odd, x |-> Curve[key].x]}
  <1>3. compressed_public_key(k) = [prefix |-> 2 + Curve[mine].odd, x |-> Curve[mine].x]
    BY DEF compressed_public_key, uncompressed_public_key
  <1>4. ASSUME NEW key \in Keys,
               compressed_public_key(k) = [prefix |-> 2 + Curve[key].odd, x |-> Curve[key].x]
        PROVE  key = mine
    <2>1. mine \in Keys
      BY <1>2
    <2> HIDE DEF mine
    <2>2. compressed_public_key(k).prefix = 2 + Curve[key].odd
          /\ compressed_public_key(k).x = Curve[key].x
      BY <1>4
    <2>3. compressed_public_key(k).prefix = 2 + Curve[mine].odd
          /\ compressed_public_key(k).x = Curve[mine].x
      BY <1>3
    <2>4. Curve[key].odd \in 0..1 /\ Curve[mine].odd \in 0..1
      BY <2>1, CurveAssumption
    <2>5. Curve[key].odd = Curve[mine].odd
      BY <2>2, <2>3, <2>4
    <2>6. Curve[key] = Curve[mine]
      BY <2>1, <2>2, <2>3, <2>5, CurveAssumption
    <2>7. QED
      BY <2>1, <2>6, CurveAssumption
  <1>5. Published = {mine}
    BY <1>2, <1>3, <1>4
  <1>6. ASSUME out[k].kind = "PrivateKey"
        PROVE  /\ raw_key_bytes(k) = {address(k)}
               /\ hex_to_signing_key(Source(k)) = {address(k)}
    <2>1. Source(k).body.hex /\ ~Source(k).pad
      BY <1>1, <1>6, SourcesAreTheirTexts DEF Source
    <2>2. SigningKey(k) = Source(k).body.bytes
      BY <1>6 DEF SigningKey
    <2>3. QED
      BY <1>2, <1>6, <2>1, <2>2 DEF raw_key_bytes, hex_to_signing_key
  <1> HIDE DEF mine
  <1>7. mine = address(k) <=> <<k, "fetched">> \notin under
    BY <1>2 DEF mine
  <1>8. Published = {address(k)} <=> mine = address(k)
    <2> HIDE DEF Published
    <2>1. QED
      BY <1>5
  <1>9. QED
    BY <1>2, <1>6, <1>7, <1>8

(* The last byte is 27 or 28, and is read back under either convention. *)
LEMMA LastByte ==
    ASSUME NEW recid \in 0..1, NEW v \in Bytes
    PROVE  /\ evm_v(recid) = recid + 27 /\ evm_v(recid) \in {27, 28} \cap Bytes
           /\ recid_byte(v) = recid <=> v \in {recid, recid + 27}
  <1>1. evm_v(recid) = recid + 27
    <2>1. CASE recid = 0
      BY <2>1 DEF evm_v
    <2>2. CASE recid = 1
      BY <2>2 DEF evm_v
    <2>3. QED
      BY <2>1, <2>2
  <1>2. evm_v(recid) \in {27, 28} \cap Bytes
    BY <1>1 DEF Bytes
  <1>3. recid_byte(v) = recid <=> v \in {recid, recid + 27}
    BY DEF Bytes, recid_byte
  <1>4. QED
    BY <1>1, <1>2, <1>3

(* Only a signature over the prefixed digest, with a byte that stands for its own
   recovery id, gives back the key it was made with. *)
LEMMA RecoveryGivesTheKey ==
    ASSUME NEW key \in Keys, NEW recid \in 0..1, NEW v \in Bytes, NEW hash, NEW digest,
           NEW bytes, bytes.len = 65, bytes.sig = Signature(key, hash, recid), bytes.v = v
    PROVE  recover_eth_claim(bytes, digest) = key
               <=> hash = Prefixed(digest) /\ v \in {recid, recid + 27}
  <1>1. key # "refused" /\ key # "another key"
    BY SignerAssumption
  <1>2. bytes.sig.key = key /\ bytes.sig.hash = hash /\ bytes.sig.recid = recid
    BY DEF Signature
  <1>3. recid_byte(v) = recid <=> v \in {recid, recid + 27}
    BY LastByte
  <1>4. CASE recid_byte(v) > 3
    <2>1. recover_eth_claim(bytes, digest) = "refused"
      BY <1>4 DEF recover_eth_claim
    <2>2. recid_byte(v) # recid
      BY <1>4
    <2>3. QED
      BY <1>1, <1>3, <2>1, <2>2
  <1>5. CASE ~(recid_byte(v) > 3)
    <2>1. recover_eth_claim(bytes, digest)
            = recover_from_prehash(Prefixed(digest), bytes.sig, recid_byte(v))
      BY <1>5 DEF recover_eth_claim
    <2>2. recover_eth_claim(bytes, digest) =
            IF Prefixed(digest) = hash /\ recid_byte(v) = recid THEN key ELSE "another key"
      BY <1>2, <2>1, Zenon DEF recover_from_prehash
    <2>3. QED
      BY <1>1, <1>3, <2>2
  <1>6. QED
    BY <1>4, <1>5

(* The hash of a signature made is a claim's for one digest only, its own. *)
LEMMA ClaimsAreOverTheirDigest ==
    ASSUME NEW as \in {"claim", "prehash"}, NEW d, NEW e
    PROVE  HashOf(as, d) = Prefixed(e) <=> as = "claim" /\ e = d
  <1>1. CASE as = "claim"
    <2>1. HashOf(as, d) = Prefixed(d)
      BY <1>1 DEF HashOf
    <2>2. Prefixed(d).of = d /\ Prefixed(e).of = e
      BY DEF Prefixed
    <2>3. QED
      BY <1>1, <2>1, <2>2
  <1>2. CASE as # "claim"
    <2>1. HashOf(as, d) = Hashed(d)
      BY <1>2 DEF HashOf
    <2>2. Hashed(d).prefixed = FALSE /\ Prefixed(e).prefixed = TRUE
      BY DEF Prefixed, Hashed
    <2>3. QED
      BY <1>2, <2>1, <2>2
  <1>3. QED
    BY <1>1, <1>2

(* What was signed recovers to the address its slot reports. *)
LEMMA SignaturesRecover ==
    SignerInv => ClaimsRecover
  <1> SUFFICES ASSUME SignerInv, NEW m \in made, <<m.slot, "ready">> \notin under
               PROVE  LET key == address(m.slot)
                          recid == m.bytes.sig.recid
                      IN  /\ m.bytes.v \in {27, 28}
                          /\ m.as = "claim" => m.bytes = sign_eth_claim(key, m.digest, recid)
                          /\ \A d \in Digests, v \in Bytes :
                                 recover_eth_claim([m.bytes EXCEPT !.v = v], d) = key
                                     <=> /\ m.as = "claim" /\ d = m.digest
                                         /\ v \in {recid, recid + 27}
    BY DEF ClaimsRecover
  <1> DEFINE key == address(m.slot)
             recid == m.bytes.sig.recid
             hash == HashOf(m.as, m.digest)
  <1>1. /\ m.as \in {"claim", "prehash"}
        /\ \E k \in Keys, r \in 0..1 : MadeBy(m, k, r)
    BY DEF SignerInv, MadeInv, MadeOK
  <1>2. /\ key \in Keys /\ recid \in 0..1
        /\ m.bytes = [len |-> 65, sig |-> Signature(key, hash, recid), v |-> evm_v(recid)]
    <2>1. PICK k \in Keys, r \in 0..1 : MadeBy(m, k, r)
      BY <1>1
    <2>2. /\ m.bytes = [len |-> 65, sig |-> Signature(k, hash, r), v |-> evm_v(r)]
          /\ k = key
      BY <2>1 DEF MadeBy
    <2>3. recid = r
      BY <2>2 DEF Signature
    <2>4. QED
      BY <2>2, <2>3
  <1> HIDE DEF key, recid, hash
  <1>3. m.bytes.v \in {27, 28}
    <2>1. m.bytes.v = evm_v(recid)
      BY <1>2
    <2>2. 0 \in Bytes
      BY DEF Bytes
    <2>3. QED
      BY <1>2, <2>1, <2>2, LastByte
  <1>4. m.as = "claim" => m.bytes = sign_eth_claim(key, m.digest, recid)
    BY <1>2 DEF sign_eth_claim, HashOf, hash
  <1>5. ASSUME NEW d \in Digests, NEW v \in Bytes
        PROVE  recover_eth_claim([m.bytes EXCEPT !.v = v], d) = key
                   <=> m.as = "claim" /\ d = m.digest /\ v \in {recid, recid + 27}
    <2> DEFINE bytes == [m.bytes EXCEPT !.v = v]
    <2>1. DOMAIN m.bytes = {"len", "sig", "v"}
      BY <1>2
    <2>2. bytes = [x \in {"len", "sig", "v"} |-> IF x = "v" THEN v ELSE m.bytes[x]]
      BY <2>1, Zenon
    <2> HIDE DEF bytes
    <2>3. bytes.len = m.bytes.len /\ bytes.sig = m.bytes.sig /\ bytes.v = v
      BY <2>2
    <2>4. bytes.len = 65 /\ bytes.sig = Signature(key, hash, recid)
      BY <1>2, <2>3
    <2>5. recover_eth_claim(bytes, d) = key
              <=> hash = Prefixed(d) /\ v \in {recid, recid + 27}
      BY <1>2, <2>3, <2>4, RecoveryGivesTheKey
    <2>6. hash = Prefixed(d) <=> m.as = "claim" /\ d = m.digest
      BY <1>1, ClaimsAreOverTheirDigest DEF hash
    <2>7. QED
      BY <2>5, <2>6 DEF bytes
  <1>6. QED
    BY <1>3, <1>4, <1>5 DEF key, recid

(* The invariant gives the types. *)
LEMMA StateIsTyped ==
    SignerInv => TypeOK
  <1> SUFFICES ASSUME SignerInv
               PROVE  TypeOK
    OBVIOUS
  <1>1. ParseInv /\ KmsInv /\ SlotsInv /\ MadeInv
    BY DEF SignerInv
  <1>2. \A k \in DOMAIN out : out[k].kind \in {"PrivateKey", "Kms"}
    <2>1. out \in Seq(Sources)
      BY <1>1 DEF ParseInv
    <2>2. \A k \in DOMAIN out : out[k] \in Sources
      BY <2>1
    <2>3. QED
      BY <2>2, SourcesAreTheirTexts
  <1>3. \A k \in DOMAIN slot :
           /\ slot[k].at \in {"new", "fetched", "ready", "failed"}
           /\ {slot[k].point, slot[k].address} \subseteq Keys \cup {"none"}
    BY <1>1 DEF SlotsInv, Fits, Keys
  <1>4. ASSUME NEW m \in made
        PROVE  /\ m.slot \in DOMAIN slot /\ m.digest \in Digests
               /\ m.bytes.sig.key \in Keys /\ m.bytes.v \in Bytes
    <2>1. MadeOK(m)
      BY <1>1 DEF MadeInv
    <2>2. PICK key \in Keys, recid \in 0..1 : MadeBy(m, key, recid)
      BY <2>1 DEF MadeOK
    <2>3. m.bytes.sig.key = key /\ m.bytes.v = evm_v(recid)
      BY <2>2 DEF MadeBy, Signature
    <2>4. 0 \in Bytes
      BY DEF Bytes
    <2>5. evm_v(recid) \in Bytes
      BY <2>4, LastByte
    <2>6. QED
      BY <2>1, <2>3, <2>5 DEF MadeOK
  <1>5. QED
    BY <1>1, <1>2, <1>3, <1>4 DEF TypeOK, ParseInv, KmsInv

(* In every reachable state the sources are the entries passed, the slots hold what
   their texts give them, and signatures were made by slots that were ready. *)
THEOREM SignerInvariance == Spec => []SignerInv
  <1>1. QED
    BY SignerStart, SignerStep, PTL DEF Spec

(* The locals of parse_list, the slots and the signature keep their types. *)
THEOREM SignerTypes == Spec => []TypeOK
  <1>1. QED
    BY SignerInvariance, StateIsTyped, PTL

(* A list is taken exactly when it names a signer, repeats no text and holds no
   mangled key, and the slots are its named entries in order (parse_list). *)
THEOREM ListsAreTakenWhole == Spec => []ListIsTakenOrRefusedWhole
  <1>1. QED
    BY SignerInvariance, PoolIsTheList, PTL

(* A slot that is ready publishes the public key of its address exactly when its own
   alias did not move between the two look-ups, and signs as that address until the
   alias moves under it (build_managed, ManagedSigner). *)
THEOREM SlotsHaveOneIdentity == Spec => []OneIdentityPerSlot
  <1>1. QED
    BY SignerInvariance, ReadySlotsHaveOneKey, PTL

(* A claim recovers to its slot's address for its own digest and under both
   conventions of the last byte only; a bare digest's signature is no claim
   (sign_claim, recover_eth_claim). *)
THEOREM ClaimsGiveTheirSigner == Spec => []ClaimsRecover
  <1>1. QED
    BY SignerInvariance, SignaturesRecover, PTL
=============================================================================
