---------------------------- MODULE LayoutProofs ----------------------------
(***************************************************************************)
(* Every layout tiles: the proof about Layout, for every length.           *)
(***************************************************************************)
EXTENDS Layout, TLAPS

(* The part of the invariant that speaks of the tiling alone is inductive by
   itself; the secret's part is proved on top of it. *)
CoreInv == TypeOK /\ StatedInv /\ WalkInv /\ CommitsInv /\ CoverInv

(* A range's ends lie within the bound. *)
LEMMA RangeEnds ==
    ASSUME NEW r \in Ranges
    PROVE  r.start \in 0..MaxLen /\ r.end \in 0..MaxLen
  BY DEF Ranges

(* So do those of every range in a list. *)
LEMMA ListedEnds ==
    ASSUME NEW s \in Seq(Ranges), NEW k \in DOMAIN s
    PROVE  /\ s[k] \in Ranges
           /\ s[k].start \in 0..MaxLen /\ s[k].end \in 0..MaxLen
  <1>1. s[k] \in Ranges
    OBVIOUS
  <1>2. QED
    BY <1>1, RangeEnds

(* A layout's variables keep their types through sorting and the walk. *)
LEMMA TypeStep ==
    ASSUME CoreInv, [Next]_vars
    PROVE  TypeOK'
  <1> USE MaxLenAssumption
  <1>0. TypeOK /\ len \in 0..MaxLen /\ \A a, b \in 0..MaxLen : To(a, b) \in Ranges
    BY DEF CoreInv, TypeOK, To, Ranges
  <1>1. ASSUME NEW r \in Ranges, NEW hidden \in Ranges, revealing(<<r>>, hidden)
        PROVE  TypeOK'
    BY <1>0, <1>1 DEF revealing, TypeOK
  <1>2. ASSUME NEW r \in Ranges, NEW q \in Ranges, NEW hidden \in Ranges,
               revealing(<<r, q>>, hidden)
        PROVE  TypeOK'
    BY <1>0, <1>2 DEF revealing, TypeOK
  <1>3. ASSUME Refuse PROVE TypeOK'
    BY <1>0, <1>3 DEF Refuse, TypeOK
  <1>4. CASE token_request
    <2>1. ASSUME revealing(<<To(0, len)>>, To(0, 0)) PROVE TypeOK'
      BY <1>0, <1>1, <2>1
    <2>2. ASSUME NEW start \in 1..len, revealing(<<To(0, start)>>, To(start, len)) PROVE TypeOK'
      BY <1>0, <1>1, <2>2
    <2>3. QED
      BY <1>3, <1>4, <2>1, <2>2 DEF token_request
  <1>5. CASE token_response
    <2>1. ASSUME NEW ms \in 0..len, NEW vs \in 0..len, NEW ve \in 0..len, ve < len,
                 revealing(<<To(ms, vs), To(ve, ve + 1)>>, To(vs, ve))
          PROVE  TypeOK'
      BY <1>0, <1>2, <2>1
    <2>2. QED
      BY <1>3, <1>5, <2>1 DEF token_response
  <1>6. CASE identity_request
    <2>1. ASSUME NEW vs \in 1..len, NEW ve \in 1..len,
                 revealing(<<To(0, vs), To(ve, len)>>, To(vs, ve))
          PROVE  TypeOK'
      BY <1>0, <1>2, <2>1
    <2>2. QED
      BY <1>3, <1>6, <2>1 DEF identity_request
  <1>7. CASE identity_response
    <2>1. ASSUME NEW id \in Ranges, NEW handle \in Ranges, revealing(<<id, handle>>, To(0, 0))
          PROVE  TypeOK'
      BY <1>0, <1>2, <2>1
    <2>2. QED
      BY <1>3, <1>7, <2>1 DEF identity_response
  <1>8. CASE SortByStart
    <2>1. PICK f \in [DOMAIN reveal -> DOMAIN reveal] :
             reveal' = [j \in DOMAIN reveal |-> reveal[f[j]]]
      BY <1>8 DEF SortByStart
    <2>2. DOMAIN reveal = 1..Len(reveal) /\ Len(reveal) \in Nat
      BY <1>0 DEF TypeOK
    <2>3. reveal' \in [1..Len(reveal) -> Ranges]
      BY <1>0, <2>1, <2>2 DEF TypeOK
    <2>4. reveal' \in Seq(Ranges)
      BY <2>2, <2>3
    <2>5. QED
      BY <1>0, <1>8, <2>4 DEF SortByStart, TypeOK
  <1>9. CASE WalkRange
    <2>1. i \in 1..Len(reveal) /\ Len(reveal) \in Nat
      BY <1>0, <1>9 DEF WalkRange, CoreInv, WalkInv, TypeOK
    <2>2. reveal[i].start \in 0..MaxLen /\ reveal[i].end \in 0..MaxLen
      BY <1>0, <2>1, ListedEnds DEF TypeOK
    <2>3. To(at, reveal[i].start) \in Ranges
      BY <1>0, <2>2 DEF TypeOK
    <2>4. QED
      BY <1>0, <1>9, <2>2, <2>3 DEF WalkRange, TypeOK
  <1>10. CASE WalkEnd
    BY <1>0, <1>10 DEF WalkEnd, TypeOK
  <1>11. CASE UNCHANGED vars
    BY <1>0, <1>11 DEF vars, TypeOK
  <1>12. QED
    BY <1>4, <1>5, <1>6, <1>7, <1>8, <1>9, <1>10, <1>11 DEF Next, Returned

(* A constructor that is called, or refuses, establishes the whole invariant:
   what each one states is proper and apart. *)
LEMMA StatedStep ==
    ASSUME CoreInv, TypeOK', token_request \/ token_response \/ identity_request
                          \/ identity_response
    PROVE  CoreInv'
  <1> USE MaxLenAssumption
  <1>1. ASSUME NEW ranges, NEW hidden, revealing(ranges, hidden),
               \A k \in DOMAIN ranges : Proper(ranges[k]),
               \A j, k \in DOMAIN ranges : j # k => Apart(ranges[j], ranges[k])
        PROVE  CoreInv'
    BY <1>1 DEF revealing, CoreInv, StatedInv, WalkInv, CommitsInv, CoverInv, Proper
  <1>2. ASSUME Refuse PROVE CoreInv'
    BY <1>2 DEF Refuse, CoreInv, StatedInv, WalkInv, CommitsInv, CoverInv, Proper
  <1>3. len \in Nat
    BY DEF CoreInv, TypeOK
  <1>4. ASSUME NEW a \in Nat, NEW b \in Nat, NEW hidden, a < b, b <= len,
               revealing(<<To(a, b)>>, hidden)
        PROVE  CoreInv'
    BY <1>1, <1>3, <1>4 DEF Proper, To
  <1>5. ASSUME NEW r, NEW q, NEW hidden, Proper(r), Proper(q), Apart(r, q), Apart(q, r),
               revealing(<<r, q>>, hidden)
        PROVE  CoreInv'
    BY <1>1, <1>5
  <1>6. CASE token_request
    <2>1. ASSUME len > 0, revealing(<<To(0, len)>>, To(0, 0)) PROVE CoreInv'
      BY <1>3, <1>4, <2>1
    <2>2. ASSUME NEW start \in 1..len, start < len,
                 revealing(<<To(0, start)>>, To(start, len))
          PROVE  CoreInv'
      BY <1>3, <1>4, <2>2
    <2>3. QED
      BY <1>2, <1>6, <2>1, <2>2 DEF token_request
  <1>7. CASE token_response
    <2>1. ASSUME NEW ms \in 0..len, NEW vs \in 0..len, NEW ve \in 0..len,
                 ms < vs, vs <= ve, ve < len,
                 revealing(<<To(ms, vs), To(ve, ve + 1)>>, To(vs, ve))
          PROVE  CoreInv'
      BY <1>3, <1>5, <2>1 DEF Proper, Apart, To
    <2>2. QED
      BY <1>2, <1>7, <2>1 DEF token_response
  <1>8. CASE identity_request
    <2>1. ASSUME NEW vs \in 1..len, NEW ve \in 1..len, vs <= ve, ve + 2 <= len,
                 revealing(<<To(0, vs), To(ve, len)>>, To(vs, ve))
          PROVE  CoreInv'
      BY <1>3, <1>5, <2>1 DEF Proper, Apart, To
    <2>2. QED
      BY <1>2, <1>8, <2>1 DEF identity_request
  <1>9. CASE identity_response
    BY <1>2, <1>5, <1>9 DEF identity_response, Proper, Apart
  <1>10. QED
    BY <1>6, <1>7, <1>8, <1>9

(* Sorting by start puts ranges that are apart end to start. *)
LEMMA SortStep ==
    ASSUME CoreInv, TypeOK', SortByStart
    PROVE  CoreInv'
  <1> USE MaxLenAssumption
  <1>1. PICK f \in [DOMAIN reveal -> DOMAIN reveal] :
           /\ IsPermutation(f, DOMAIN reveal)
           /\ reveal' = [j \in DOMAIN reveal |-> reveal[f[j]]]
           /\ Ascending(reveal')
    BY DEF SortByStart
  <1>2. /\ DOMAIN reveal' = DOMAIN reveal
        /\ \A j \in DOMAIN reveal : reveal'[j] = reveal[f[j]] /\ f[j] \in DOMAIN reveal
        /\ \A j, k \in DOMAIN reveal : f[j] = f[k] => j = k
        /\ UNCHANGED <<len, i, at, commit>> /\ phase = "sort" /\ phase' = "walk"
    BY <1>1 DEF IsPermutation, SortByStart
  <1>3. \A k \in DOMAIN reveal : /\ reveal[k].start \in Nat /\ reveal[k].end \in Nat
                                 /\ Proper(reveal[k])
    BY ListedEnds DEF CoreInv, TypeOK, StatedInv
  <1>4. StatedInv'
    <2>1. \A k \in DOMAIN reveal' :
             reveal'[k].start < reveal'[k].end /\ reveal'[k].end <= len'
      BY <1>2, <1>3 DEF Proper
    <2>2. \A j, k \in DOMAIN reveal' : j # k => Apart(reveal'[j], reveal'[k])
      BY <1>2 DEF CoreInv, StatedInv
    <2>3. QED
      BY <2>1, <2>2 DEF StatedInv, Proper
  <1>5. ASSUME NEW j \in DOMAIN reveal', NEW k \in DOMAIN reveal', j < k
        PROVE  reveal'[j].end <= reveal'[k].start
    <2>1. j # k /\ f[j] # f[k]
      BY <1>2, <1>5 DEF CoreInv, TypeOK
    <2>2. Apart(reveal[f[j]], reveal[f[k]])
      BY <1>2, <1>5, <2>1 DEF CoreInv, StatedInv
    <2>3. reveal[f[j]].start <= reveal[f[k]].start
      BY <1>1, <1>2, <1>5 DEF Ascending
    <2>4. QED
      BY <1>2, <1>3, <1>5, <2>2, <2>3 DEF Apart, Proper
  <1>6. i = 1 /\ at = 0 /\ commit = <<>> /\ len \in Nat
    BY <1>2 DEF CoreInv, CommitsInv, TypeOK
  <1>7. WalkInv'
    <2>1. Len(reveal') \in Nat /\ DOMAIN reveal' = 1..Len(reveal')
      BY DEF TypeOK
    <2>2. \A k \in DOMAIN reveal' : reveal'[k].start \in Nat
      BY <1>2, <1>3
    <2>3. QED
      BY <1>2, <1>5, <1>6, <2>1, <2>2 DEF WalkInv
  <1>8. CommitsInv' /\ CoverInv'
    BY <1>2, <1>6 DEF CommitsInv, CoverInv
  <1>9. QED
    BY <1>4, <1>7, <1>8 DEF CoreInv

(* Appending a range covers its bytes and no others. *)
LEMMA InAppend ==
    ASSUME NEW s \in Seq(Ranges), NEW r \in Ranges, NEW b
    PROVE  In(Append(s, r), b) <=> In(s, b) \/ (r.start <= b /\ b < r.end)
  <1>1. /\ Len(s) \in Nat /\ DOMAIN s = 1..Len(s)
        /\ DOMAIN Append(s, r) = 1..(Len(s) + 1)
        /\ \A k \in 1..Len(s) : Append(s, r)[k] = s[k]
        /\ Append(s, r)[Len(s) + 1] = r
    OBVIOUS
  <1>2. QED
    BY <1>1 DEF In

(* What a round of the walk finds ahead of it and leaves behind it. *)
LEMMA WalkFacts ==
    ASSUME CoreInv, WalkRange
    PROVE  /\ i \in DOMAIN reveal /\ i \in Nat /\ phase = "walk" /\ phase' = "walk"
           /\ at \in Nat /\ len \in Nat
           /\ reveal[i].start \in Nat /\ reveal[i].end \in Nat
           /\ at <= reveal[i].start /\ reveal[i].start < reveal[i].end
           /\ reveal[i].end <= len
           /\ at' = reveal[i].end /\ i' = i + 1 /\ UNCHANGED <<len, reveal>>
           /\ To(at, reveal[i].start) \in Ranges
           /\ Len(reveal) \in Nat /\ DOMAIN reveal = 1..Len(reveal)
  <1> USE MaxLenAssumption
  <1>1. Len(reveal) \in Nat /\ DOMAIN reveal = 1..Len(reveal) /\ at \in 0..MaxLen /\ len \in 0..MaxLen
    BY DEF CoreInv, TypeOK
  <1>2. i \in 1..Len(reveal)
    BY <1>1 DEF CoreInv, WalkInv, WalkRange
  <1>3. reveal[i].start \in 0..MaxLen /\ reveal[i].end \in 0..MaxLen
    BY <1>1, <1>2, ListedEnds DEF CoreInv, TypeOK
  <1>4. Proper(reveal[i]) /\ at <= reveal[i].start
    BY <1>1, <1>2 DEF CoreInv, StatedInv, WalkInv, WalkRange
  <1>5. To(at, reveal[i].start) \in Ranges
    BY <1>1, <1>3 DEF To, Ranges
  <1>6. QED
    BY <1>1, <1>2, <1>3, <1>4, <1>5 DEF WalkRange, Proper

(* One round of complement's loop keeps the invariant. *)
LEMMA WalkStep ==
    ASSUME CoreInv, TypeOK', WalkRange
    PROVE  CoreInv'
  <1> USE MaxLenAssumption
  <1> DEFINE r == reveal[i]
             gap == To(at, r.start)
  <1>0. \A k \in DOMAIN reveal : reveal[k].start \in Nat /\ reveal[k].end \in Nat
    BY ListedEnds DEF CoreInv, TypeOK
  <1>00. \A k \in DOMAIN commit : commit[k].start \in Nat /\ commit[k].end \in Nat
    BY ListedEnds DEF CoreInv, TypeOK
  <1>01. gap.start = at /\ gap.end = r.start
    BY DEF To
  <1>02. commit \in Seq(Ranges) /\ Len(commit) \in Nat /\ DOMAIN commit = 1..Len(commit)
    BY DEF CoreInv, TypeOK
  <1>03. commit' = IF r.start > at THEN Append(commit, gap) ELSE commit
    BY DEF WalkRange
  <1>04. /\ \A k \in DOMAIN commit : commit[k].start < commit[k].end /\ commit[k].end <= at
         /\ \A j, k \in DOMAIN commit : j < k => commit[j].end <= commit[k].start
    BY WalkFacts DEF CoreInv, CommitsInv
  <1>05. /\ \A j, k \in DOMAIN reveal : j < k => reveal[j].end <= reveal[k].start
         /\ \A k \in DOMAIN reveal : k < i => reveal[k].end <= at
         /\ \A k \in DOMAIN reveal : i <= k => at <= reveal[k].start
    BY WalkFacts DEF CoreInv, WalkInv
  <1>1. StatedInv'
    BY WalkFacts DEF CoreInv, StatedInv, Proper
  <1>2. WalkInv'
    <2>1. \A k \in DOMAIN reveal : k < i + 1 => reveal[k].end <= r.end
      BY <1>0, <1>05, WalkFacts, SMTT(30)
    <2>2. \A k \in DOMAIN reveal : i + 1 <= k => r.end <= reveal[k].start
      BY <1>0, <1>05, WalkFacts
    <2>3. QED
      BY <1>05, <2>1, <2>2, WalkFacts DEF WalkInv
  <1>3. CommitsInv'
    <2>1. CASE r.start > at
      <3>1. /\ DOMAIN commit' = 1..(Len(commit) + 1) /\ commit'[Len(commit) + 1] = gap
            /\ \A k \in 1..Len(commit) : commit'[k] = commit[k]
        BY <1>02, <1>03, <2>1, WalkFacts
      <3>2. \A k \in DOMAIN commit' : commit'[k].start < commit'[k].end /\ commit'[k].end <= r.end
        BY <1>00, <1>01, <1>02, <1>04, <2>1, <3>1, WalkFacts, SMTT(30)
      <3>3. \A j, k \in DOMAIN commit' : j < k => commit'[j].end <= commit'[k].start
        BY <1>00, <1>01, <1>02, <1>04, <3>1, WalkFacts, SMTT(30)
      <3>4. QED
        BY <3>2, <3>3, WalkFacts DEF CommitsInv
    <2>2. CASE ~(r.start > at)
      <3>1. commit' = commit
        BY <1>03, <2>2
      <3>2. \A k \in DOMAIN commit : commit[k].end <= r.end
        BY <1>00, <1>04, WalkFacts
      <3>3. QED
        BY <1>04, <3>1, <3>2, WalkFacts DEF CommitsInv
    <2>3. QED
      BY <2>1, <2>2
  <1>4. CoverInv'
    <2>1. ASSUME NEW b \in 0..MaxLen, b < r.end
          PROVE  In(reveal, b) <=> ~In(commit', b)
      <3>1. In(commit', b) <=> In(commit, b) \/ (at <= b /\ b < r.start)
        BY <1>01, <1>02, <1>03, <2>1, InAppend, WalkFacts
      <3>2. CASE b < at
        BY <2>1, <3>1, <3>2, WalkFacts DEF CoreInv, CoverInv
      <3>3. CASE at <= b /\ b < r.start
        BY <1>0, <1>05, <2>1, <3>1, <3>3, WalkFacts, SMTT(30) DEF In
      <3>4. CASE r.start <= b
        <4>1. In(reveal, b)
          BY <2>1, <3>4, WalkFacts DEF In
        <4>2. ~In(commit, b)
          BY <1>00, <1>04, <2>1, <3>4, WalkFacts DEF In
        <4>3. QED
          BY <2>1, <3>1, <3>4, <4>1, <4>2, WalkFacts
      <3>5. QED
        BY <2>1, <3>2, <3>3, <3>4, WalkFacts
    <2>2. QED
      BY <2>1, WalkFacts DEF CoverInv, In
  <1>5. QED
    BY <1>1, <1>2, <1>3, <1>4 DEF CoreInv

(* The tail after the last reveal completes the cover. *)
LEMMA EndStep ==
    ASSUME CoreInv, TypeOK', WalkEnd
    PROVE  CoreInv'
  <1> USE MaxLenAssumption
  <1> DEFINE tail == To(at, len)
  <1>1. /\ phase = "walk" /\ phase' = "done" /\ UNCHANGED <<len, reveal, i, at>>
        /\ commit' = IF at < len THEN Append(commit, tail) ELSE commit
        /\ at \in Nat /\ len \in Nat /\ at <= len /\ at \in 0..MaxLen /\ len \in 0..MaxLen
    BY DEF WalkEnd, CoreInv, TypeOK, WalkInv
  <1>2. Len(reveal) \in Nat /\ DOMAIN reveal = 1..Len(reveal) /\ i = Len(reveal) + 1
    BY DEF WalkEnd, CoreInv, TypeOK, WalkInv
  <1>3. tail \in Ranges /\ tail.start = at /\ tail.end = len
    BY <1>1 DEF To, Ranges
  <1>4. /\ commit \in Seq(Ranges) /\ Len(commit) \in Nat /\ DOMAIN commit = 1..Len(commit)
        /\ \A k \in DOMAIN commit : commit[k].start \in Nat /\ commit[k].end \in Nat
    BY ListedEnds DEF CoreInv, TypeOK
  <1>5. /\ \A k \in DOMAIN commit : commit[k].start < commit[k].end /\ commit[k].end <= at
        /\ \A j, k \in DOMAIN commit : j < k => commit[j].end <= commit[k].start
    BY <1>1 DEF CoreInv, CommitsInv
  <1>6. \A k \in DOMAIN reveal : /\ reveal[k].start \in Nat /\ reveal[k].end \in Nat
                                 /\ reveal[k].end <= at
    BY <1>1, <1>2, ListedEnds DEF CoreInv, TypeOK, WalkInv
  <1>7. StatedInv' /\ WalkInv'
    BY <1>1 DEF CoreInv, StatedInv, WalkInv, Proper
  <1>8. CommitsInv'
    <2>1. CASE at < len
      <3>1. /\ DOMAIN commit' = 1..(Len(commit) + 1) /\ commit'[Len(commit) + 1] = tail
            /\ \A k \in 1..Len(commit) : commit'[k] = commit[k]
        BY <1>1, <1>4, <2>1
      <3>2. \A k \in DOMAIN commit' : commit'[k].start < commit'[k].end /\ commit'[k].end <= len
        BY <1>1, <1>3, <1>4, <1>5, <2>1, <3>1
      <3>3. \A j, k \in DOMAIN commit' : j < k => commit'[j].end <= commit'[k].start
        BY <1>1, <1>3, <1>4, <1>5, <3>1
      <3>4. QED
        BY <1>1, <3>2, <3>3 DEF CommitsInv
    <2>2. CASE ~(at < len)
      BY <1>1, <1>4, <1>5, <2>2 DEF CommitsInv
    <2>3. QED
      BY <2>1, <2>2
  <1>9. CoverInv'
    <2>1. ASSUME NEW b \in 0..MaxLen, b < len
          PROVE  In(reveal, b) <=> ~In(commit', b)
      <3>1. In(commit', b) <=> In(commit, b) \/ at <= b
        BY <1>1, <1>3, <1>4, <2>1, InAppend
      <3>2. CASE b < at
        BY <1>1, <2>1, <3>1, <3>2 DEF CoreInv, CoverInv
      <3>3. CASE at <= b
        BY <1>1, <1>6, <2>1, <3>1, <3>3 DEF In
      <3>4. QED
        BY <1>1, <2>1, <3>2, <3>3
    <2>2. QED
      BY <1>1, <1>2, <2>1 DEF CoverInv, In
  <1>10. QED
    BY <1>7, <1>8, <1>9 DEF CoreInv

-----------------------------------------------------------------------------
(* The secret.                                                             *)

(* A range is its two ends. *)
LEMMA RangeIsItsEnds ==
    ASSUME NEW r \in Ranges
    PROVE  To(r.start, r.end) = r
  BY DEF Ranges, To

(* A constructor states its secret between two reveals that touch it. *)
LEMMA SecretStated ==
    ASSUME CoreInv, SecretInv, token_request \/ token_response \/ identity_request
                               \/ identity_response
    PROVE  SecretInv'
  <1> USE MaxLenAssumption
  <1>0. len \in Nat /\ (phase = "idle" => at = 0)
    BY DEF CoreInv, TypeOK, CommitsInv
  <1>1. ASSUME Refuse PROVE SecretInv'
    BY <1>1 DEF Refuse, SecretInv
  <1>2. ASSUME NEW ranges, revealing(ranges, To(0, 0)) PROVE SecretInv'
    BY <1>2 DEF revealing, SecretInv, To
  <1>3. ASSUME NEW ranges, NEW vs \in Nat, NEW ve \in Nat, ve <= len,
               revealing(ranges, To(vs, ve)), \A k \in DOMAIN ranges : Apart(ranges[k], To(vs, ve)),
               \E k \in DOMAIN ranges : ranges[k].end = vs,
               ve = len \/ \E k \in DOMAIN ranges : ranges[k].start = ve
        PROVE  SecretInv'
    <2>1. /\ secret' = To(vs, ve) /\ secret'.start = vs /\ secret'.end = ve
          /\ reveal' = ranges /\ len' = len /\ phase' = "sort" /\ at' = 0
      BY <1>0, <1>3 DEF revealing, To
    <2>2. ~(at' > secret'.start \/ phase' = "done")
      BY <1>3, <2>1
    <2>3. QED
      BY <1>3, <2>1, <2>2 DEF SecretInv
  <1>4. CASE token_request
    <2>1. ASSUME NEW start \in 1..len, revealing(<<To(0, start)>>, To(start, len)) PROVE SecretInv'
      BY <1>0, <1>3, <2>1 DEF Apart, To
    <2>2. QED
      BY <1>1, <1>2, <1>4, <2>1 DEF token_request
  <1>5. CASE token_response
    <2>1. ASSUME NEW ms \in 0..len, NEW vs \in 0..len, NEW ve \in 0..len,
                 ms < vs, vs <= ve, ve < len,
                 revealing(<<To(ms, vs), To(ve, ve + 1)>>, To(vs, ve))
          PROVE  SecretInv'
      <3> DEFINE ranges == <<To(ms, vs), To(ve, ve + 1)>>
      <3>1. /\ DOMAIN ranges = {1, 2} /\ ranges[1].end = vs /\ ranges[2].start = ve
            /\ \A k \in DOMAIN ranges : Apart(ranges[k], To(vs, ve))
        BY <1>0, <2>1 DEF Apart, To
      <3>2. /\ vs \in Nat /\ ve \in Nat /\ ve <= len /\ revealing(ranges, To(vs, ve))
            /\ \E k \in DOMAIN ranges : ranges[k].end = vs
            /\ \E k \in DOMAIN ranges : ranges[k].start = ve
        BY <1>0, <2>1, <3>1
      <3> HIDE DEF ranges
      <3>3. QED
        BY <1>3, <3>1, <3>2
    <2>2. QED
      BY <1>1, <1>5, <2>1 DEF token_response
  <1>6. CASE identity_request
    <2>1. ASSUME NEW vs \in 1..len, NEW ve \in 1..len, vs <= ve, ve + 2 <= len,
                 revealing(<<To(0, vs), To(ve, len)>>, To(vs, ve))
          PROVE  SecretInv'
      <3> DEFINE ranges == <<To(0, vs), To(ve, len)>>
      <3>1. /\ DOMAIN ranges = {1, 2} /\ ranges[1].end = vs /\ ranges[2].start = ve
            /\ \A k \in DOMAIN ranges : Apart(ranges[k], To(vs, ve))
        BY <1>0, <2>1 DEF Apart, To
      <3>2. /\ vs \in Nat /\ ve \in Nat /\ ve <= len /\ revealing(ranges, To(vs, ve))
            /\ \E k \in DOMAIN ranges : ranges[k].end = vs
            /\ \E k \in DOMAIN ranges : ranges[k].start = ve
        BY <1>0, <2>1, <3>1
      <3> HIDE DEF ranges
      <3>3. QED
        BY <1>3, <3>1, <3>2
    <2>2. QED
      BY <1>1, <1>6, <2>1 DEF identity_request
  <1>7. CASE identity_response
    BY <1>1, <1>2, <1>7 DEF identity_response
  <1>8. QED
    BY <1>4, <1>5, <1>6, <1>7

(* Sorting moves the secret's neighbours in the list and keeps them beside it. *)
LEMMA SecretSorted ==
    ASSUME CoreInv, SecretInv, SortByStart
    PROVE  SecretInv'
  <1> USE MaxLenAssumption
  <1>1. PICK f \in [DOMAIN reveal -> DOMAIN reveal] :
           /\ IsPermutation(f, DOMAIN reveal)
           /\ reveal' = [j \in DOMAIN reveal |-> reveal[f[j]]]
    BY DEF SortByStart
  <1>2. /\ DOMAIN reveal' = DOMAIN reveal
        /\ \A j \in DOMAIN reveal : reveal'[j] = reveal[f[j]] /\ f[j] \in DOMAIN reveal
        /\ \A k \in DOMAIN reveal : \E j \in DOMAIN reveal : f[j] = k
        /\ UNCHANGED <<len, at, secret>> /\ phase = "sort" /\ phase' = "walk"
    BY <1>1 DEF IsPermutation, SortByStart
  <1>3. at = 0 /\ secret.start \in Nat
    BY <1>2, RangeEnds DEF CoreInv, CommitsInv, TypeOK
  <1>4. \A k \in DOMAIN reveal : \E j \in DOMAIN reveal' : reveal'[j] = reveal[k]
    BY <1>2
  <1>5. ~(at' > secret'.start \/ phase' = "done")
    BY <1>2, <1>3
  <1>6. ASSUME secret.start < secret.end
        PROVE  /\ \E k \in DOMAIN reveal' : reveal'[k].end = secret.start
               /\ secret.end = len \/ \E k \in DOMAIN reveal' : reveal'[k].start = secret.end
               /\ \A k \in DOMAIN reveal' : Apart(reveal'[k], secret)
    <2>1. PICK k \in DOMAIN reveal : reveal[k].end = secret.start
      BY <1>6 DEF SecretInv
    <2>2. \E j \in DOMAIN reveal' : reveal'[j].end = secret.start
      BY <1>4, <2>1
    <2>3. ASSUME NEW l \in DOMAIN reveal, reveal[l].start = secret.end
          PROVE  \E j \in DOMAIN reveal' : reveal'[j].start = secret.end
      BY <1>4, <2>3
    <2>4. \A j \in DOMAIN reveal' : Apart(reveal'[j], secret)
      BY <1>2, <1>6 DEF SecretInv
    <2>5. QED
      BY <1>6, <2>2, <2>3, <2>4 DEF SecretInv
  <1>7. secret.start < secret.end => secret.end <= len
    BY DEF SecretInv
  <1>8. QED
    BY <1>2, <1>5, <1>6, <1>7 DEF SecretInv

(* A commitment that was made stays in the list. *)
LEMMA CommittedStays ==
    ASSUME commit \in Seq(Ranges), NEW r \in Ranges, NEW k \in DOMAIN commit
    PROVE  k \in DOMAIN Append(commit, r) /\ Append(commit, r)[k] = commit[k]
  OBVIOUS

(* The round that passes the secret's start finds the gap to be the secret. *)
LEMMA SecretWalked ==
    ASSUME CoreInv, SecretInv, WalkRange
    PROVE  SecretInv'
  <1> USE MaxLenAssumption
  <1> DEFINE r == reveal[i]
             gap == To(at, r.start)
  <1> SUFFICES ASSUME secret.start < secret.end, secret' = secret
               PROVE  SecretInv'
    BY DEF SecretInv, WalkRange
  <1>1. /\ secret \in Ranges /\ secret.start \in Nat /\ secret.end \in Nat
        /\ commit \in Seq(Ranges)
    BY RangeEnds DEF CoreInv, TypeOK
  <1>2. \A k \in DOMAIN reveal : /\ reveal[k].start \in Nat /\ reveal[k].end \in Nat
                                 /\ reveal[k].start < reveal[k].end /\ reveal[k].end <= len
    BY ListedEnds DEF CoreInv, TypeOK, StatedInv, Proper
  <1>3. /\ \A j, k \in DOMAIN reveal : j < k => reveal[j].end <= reveal[k].start
        /\ \A k \in DOMAIN reveal : k < i => reveal[k].end <= at
    BY WalkFacts DEF CoreInv, WalkInv
  <1>4. commit' = IF r.start > at THEN Append(commit, gap) ELSE commit
    BY DEF WalkRange
  <1>5. ASSUME r.end > secret.start PROVE \E k \in DOMAIN commit' : commit'[k] = secret
    <2>1. CASE at > secret.start
      <3>1. PICK k \in DOMAIN commit : commit[k] = secret
        BY <2>1 DEF SecretInv
      <3>2. QED
        BY <1>1, <1>4, <3>1, CommittedStays, WalkFacts
    <2>2. CASE at <= secret.start
      <3>1. secret.end <= r.start
        BY <1>1, <1>5, WalkFacts, SMTT(30) DEF SecretInv, Apart
      <3>2. PICK k \in DOMAIN reveal : reveal[k].end = secret.start
        BY DEF SecretInv
      <3>3. k \in Nat /\ k < i
        <4>1. i \in DOMAIN reveal /\ i \in Nat /\ k \in Nat
          BY WalkFacts
        <4>2. k # i
          BY <1>1, <1>2, <3>1, <3>2, <4>1
        <4>3. ~(i < k)
          BY <1>1, <1>2, <1>3, <1>5, <3>2, <4>1
        <4>4. QED
          BY <4>1, <4>2, <4>3
      <3>4. at = secret.start
        BY <1>1, <1>3, <2>2, <3>2, <3>3, WalkFacts
      <3>5. PICK l \in DOMAIN reveal : reveal[l].start = secret.end
        BY <1>1, <1>2, <3>1, WalkFacts, SMTT(30) DEF SecretInv
      <3>6. l \in Nat /\ ~(l < i) /\ ~(i < l)
        <4>1. i \in DOMAIN reveal /\ i \in Nat /\ l \in Nat
          BY WalkFacts
        <4>2. ~(l < i)
          BY <1>1, <1>2, <1>3, <3>4, <3>5
        <4>3. ~(i < l)
          BY <1>1, <1>2, <1>3, <3>1, <3>5, <4>1
        <4>4. QED
          BY <4>1, <4>2, <4>3
      <3>7. l = i /\ r.start = secret.end
        BY <3>5, <3>6, WalkFacts
      <3>8. gap = secret /\ gap \in Ranges /\ r.start > at
        BY <1>1, <3>4, <3>7, RangeIsItsEnds
      <3>9. commit' = Append(commit, secret)
        BY <1>4, <3>8
      <3>10. Len(commit) + 1 \in DOMAIN commit' /\ commit'[Len(commit) + 1] = secret
        BY <1>1, <3>9
      <3>11. QED
        BY <3>10
    <2>3. QED
      BY <1>1, <2>1, <2>2, WalkFacts
  <1>6. QED
    BY <1>5, WalkFacts DEF SecretInv

(* A secret behind the last reveal is the tail. *)
LEMMA SecretEnded ==
    ASSUME CoreInv, SecretInv, WalkEnd
    PROVE  SecretInv'
  <1> USE MaxLenAssumption
  <1> SUFFICES ASSUME secret.start < secret.end, secret' = secret
               PROVE  SecretInv'
    BY DEF SecretInv, WalkEnd
  <1>1. /\ secret \in Ranges /\ secret.start \in Nat /\ secret.end \in Nat
        /\ commit \in Seq(Ranges) /\ at \in 0..MaxLen /\ len \in 0..MaxLen /\ at <= len
    BY RangeEnds DEF CoreInv, TypeOK, WalkInv, WalkEnd
  <1>2. \A k \in DOMAIN reveal : /\ reveal[k].start \in Nat /\ reveal[k].end \in Nat
                                 /\ reveal[k].start < reveal[k].end /\ reveal[k].end <= at
    <2>1. DOMAIN reveal = 1..Len(reveal) /\ Len(reveal) \in Nat /\ i = Len(reveal) + 1
      BY DEF WalkEnd, CoreInv, TypeOK, WalkInv
    <2>2. \A k \in DOMAIN reveal : reveal[k].end <= at
      BY <2>1 DEF WalkEnd, CoreInv, WalkInv
    <2>3. QED
      BY <2>2, ListedEnds DEF CoreInv, TypeOK, StatedInv, Proper
  <1>3. commit' = IF at < len THEN Append(commit, To(at, len)) ELSE commit
    BY DEF WalkEnd
  <1>4. \E k \in DOMAIN commit' : commit'[k] = secret
    <2>1. CASE at > secret.start
      <3>1. PICK k \in DOMAIN commit : commit[k] = secret
        BY <2>1 DEF SecretInv
      <3>2. To(at, len) \in Ranges
        BY <1>1 DEF To, Ranges
      <3>3. QED
        BY <1>1, <1>3, <3>1, <3>2, CommittedStays
    <2>2. CASE at <= secret.start
      <3>1. at = secret.start
        BY <1>1, <1>2, <2>2 DEF SecretInv
      <3>2. secret.end = len
        BY <1>1, <1>2, <3>1 DEF SecretInv
      <3>3. commit' = Append(commit, secret)
        BY <1>1, <1>3, <3>1, <3>2, RangeIsItsEnds
      <3>4. Len(commit) + 1 \in DOMAIN commit' /\ commit'[Len(commit) + 1] = secret
        BY <1>1, <3>3
      <3>5. QED
        BY <3>4
    <2>3. QED
      BY <1>1, <2>1, <2>2
  <1>5. QED
    BY <1>4 DEF SecretInv, WalkEnd

(* Every step keeps the secret beside its reveals and, once passed, committed. *)
LEMMA SecretStep ==
    ASSUME CoreInv, SecretInv, [Next]_vars
    PROVE  SecretInv'
  <1>1. CASE UNCHANGED vars
    BY <1>1 DEF vars, SecretInv
  <1>2. QED
    BY <1>1, SecretStated, SecretSorted, SecretWalked, SecretEnded DEF Next, Returned

-----------------------------------------------------------------------------
(* The theorems.                                                           *)

(* Before a constructor is called nothing is stated, walked or committed. *)
LEMMA LayoutStart == Init => LayoutInv
  <1>1. Init => CoreInv
    BY MaxLenAssumption
       DEF Init, CoreInv, TypeOK, StatedInv, WalkInv, CommitsInv, CoverInv, Ranges, To
  <1>2. Init => SecretInv
    BY DEF Init, SecretInv, To
  <1>3. QED
    BY <1>1, <1>2 DEF CoreInv, LayoutInv

(* Every step of a constructor, of the sort and of the walk keeps them fitting. *)
LEMMA LayoutStep == LayoutInv /\ [Next]_vars => LayoutInv'
  <1> SUFFICES ASSUME LayoutInv, [Next]_vars PROVE LayoutInv'
    OBVIOUS
  <1>1. CoreInv /\ SecretInv
    BY DEF LayoutInv, CoreInv
  <1>2. TypeOK'
    BY <1>1, TypeStep
  <1>3. CASE UNCHANGED vars
    <2>1. CoreInv'
      BY <1>1, <1>2, <1>3
         DEF vars, CoreInv, StatedInv, WalkInv, CommitsInv, CoverInv, Proper, In
    <2>2. QED
      BY <1>1, <2>1, SecretStep DEF CoreInv, LayoutInv
  <1>4. CoreInv'
    BY <1>1, <1>2, <1>3, StatedStep, SortStep, WalkStep, EndStep
       DEF Next, Returned, LayoutInv, CoreInv
  <1>5. QED
    BY <1>1, <1>4, SecretStep DEF CoreInv, LayoutInv

(* A finished layout tiles its direction, its spans are proper, and its secret is
   one commitment. *)
LEMMA FinishedLayout == LayoutInv => Tiles /\ SpansAreProper /\ SecretIsOneCommitment
  <1>1. LayoutInv => CoreInv
    BY DEF LayoutInv, CoreInv
  <1>2. CoreInv => Tiles
    <2> SUFFICES ASSUME CoreInv, phase = "done", NEW b \in 0..(MaxLen - 1)
                 PROVE  /\ b < len => (In(reveal, b) <=> ~In(commit, b))
                        /\ b >= len => ~In(reveal, b) /\ ~In(commit, b)
      BY DEF Tiles
    <2>1. b \in 0..MaxLen /\ len \in Nat
      BY MaxLenAssumption DEF CoreInv, TypeOK
    <2>2. \A k \in DOMAIN reveal : reveal[k].end \in Nat /\ reveal[k].end <= len
      BY MaxLenAssumption, ListedEnds DEF CoreInv, TypeOK, StatedInv, Proper
    <2>3. \A k \in DOMAIN commit : commit[k].end \in Nat /\ commit[k].end <= len
      BY MaxLenAssumption, ListedEnds DEF CoreInv, TypeOK, CommitsInv
    <2>4. b >= len => ~In(reveal, b) /\ ~In(commit, b)
      BY <2>1, <2>2, <2>3 DEF In
    <2>5. QED
      BY <2>1, <2>4 DEF CoreInv, CoverInv
  <1>3. CoreInv => SpansAreProper
    BY DEF CoreInv, SpansAreProper, StatedInv, WalkInv, CommitsInv, Proper
  <1>4. LayoutInv => SecretIsOneCommitment
    BY DEF LayoutInv, SecretInv, SecretIsOneCommitment
  <1>5. QED
    BY <1>1, <1>2, <1>3, <1>4

(* The inductive invariant of a layout's construction, for every constructor and
   every length. *)
THEOREM LayoutInvariance == Spec => []LayoutInv
  BY LayoutStart, LayoutStep, PTL DEF Spec

(* A credential is hidden under one commitment of exactly its own extent, for a
   request or a response of any length. *)
THEOREM SecretCommitted == Spec => []SecretIsOneCommitment
  BY LayoutInvariance, FinishedLayout, PTL

(* Every byte of a direction of any length is revealed or committed, and none
   is both, whatever the constructor and the order of its ranges. *)
THEOREM LayoutsTile == Spec => []Tiles
  BY LayoutInvariance, FinishedLayout, PTL

(* The spans of a layout are ascending, apart and never empty. *)
THEOREM SpansProper == Spec => []SpansAreProper
  BY LayoutInvariance, FinishedLayout, PTL
=============================================================================
