--------------------------- MODULE CeremonyProofs ---------------------------
(***************************************************************************)
(* Proofs about Ceremony, for requests and responses of every length and   *)
(* every set of foreign sessions.  The first part is about Record by       *)
(* itself, for every session: any number of ranges and of commitments, in  *)
(* any order, and any largest offset.  What is known of each layout by     *)
(* itself is taken from LayoutProofs.                                      *)
(***************************************************************************)
EXTENDS Ceremony, Induction, TLAPS

-----------------------------------------------------------------------------
(* The record.                                                             *)

Entry == [start : Nat, end : Nat, commitment : Nat]

\* In what follows s is a session, d a direction, r and o a block's lists.

HashesOf(s, d) ==
    {k \in DOMAIN s.commits : s.commits[k].kind = "Hash" /\ s.commits[k].dir = d}

\* A hash commitment the format can describe.
Good(c) ==
    c.alg = "SHA256" /\ c.bytes = 32 /\ Len(c.idx) = 1 /\ c.idx[1].end <= MaxOffset

\* r is the first n ranges of the direction, and they can be described.
RangesHeld(s, d, n, r) ==
    /\ Len(r) = n
    /\ \A k \in 1..n : r[k] = s.authed[d][k] /\ r[k].end <= MaxOffset

\* o holds, once each, the direction's hash commitments among the first n of the
\* session, and they can be described.
Held(s, d, n, o) ==
    /\ \A k \in 1..Len(o) :
           LET c == s.commits[o[k].commitment] IN
           /\ o[k].commitment \in HashesOf(s, d) /\ o[k].commitment <= n
           /\ o[k].start = c.idx[1].start /\ o[k].end = c.idx[1].end
    /\ \A h \in HashesOf(s, d) :
           h <= n => Good(s.commits[h]) /\ \E k \in 1..Len(o) : o[k].commitment = h
    /\ \A j, k \in 1..Len(o) : o[j].commitment = o[k].commitment => j = k

Ascending(o) == \A j, k \in 1..Len(o) : j < k => o[j].start <= o[k].start

Shapes ==
    /\ IsSession(session)
    /\ phase \in {"lengths", "reveal", "commit", "sort", "done", "err"}
    /\ dir \in Directions /\ i \in Nat \ {0}
    /\ phase = "lengths" => dir = "Sent" /\ i = 1
    /\ phase = "done" => dir = "Received"
    /\ revealed \in [Directions -> Seq(UsizeRange)]
    /\ out \in [Directions -> Seq(Entry)]

AllRanges(d) == RangesHeld(session, d, Len(session.authed[d]), revealed[d])
AllHeld(d) == Held(session, d, Len(session.commits), out[d])

\* The block of a direction: not begun, under way, or finished.
BlockInv(d) ==
    IF phase = "lengths" \/ (dir = "Sent" /\ d = "Received")
    THEN revealed[d] = <<>> /\ out[d] = <<>>
    ELSE IF phase = "done" \/ d # dir
    THEN AllRanges(d) /\ AllHeld(d) /\ Ascending(out[d])
    ELSE /\ phase = "reveal" => RangesHeld(session, d, i - 1, revealed[d]) /\ out[d] = <<>>
                                /\ i <= Len(session.authed[d]) + 1
         /\ phase = "commit" => AllRanges(d) /\ Held(session, d, i - 1, out[d])
                                /\ i <= Len(session.commits) + 1
         /\ phase = "sort" => AllRanges(d) /\ AllHeld(d)

Blocks ==
    /\ phase \notin {"lengths", "err"} => \A d \in Directions : session.len[d] <= MaxOffset
    /\ phase # "err" => \A d \in Directions : BlockInv(d)
    /\ phase = "err" => ~Describable

RecordInv == Shapes /\ Blocks /\ TypeOK

-----------------------------------------------------------------------------
(* Sessions, ranges and commitments.                                       *)

(* What from_observed's argument is made of. *)
LEMMA SessionShape ==
    ASSUME NEW s, IsSession(s)
    PROVE  /\ \A d \in Directions : s.len[d] \in Nat /\ s.authed[d] \in Seq(UsizeRange)
           /\ s.commits \in Seq(TranscriptCommitment)
           /\ \A k \in DOMAIN s.commits : s.commits[k] \in TranscriptCommitment
           /\ DOMAIN s.commits = 1..Len(s.commits) /\ Len(s.commits) \in Nat
  <1>1. s.commits \in Seq(TranscriptCommitment)
    BY DEF IsSession, TranscriptCommitment
  <1>2. QED
    BY <1>1 DEF IsSession

(* A range that ends within the format's offsets also starts within them. *)
LEMMA RangeBounds ==
    ASSUME NEW r \in UsizeRange
    PROVE  /\ r.start \in Nat /\ r.end \in Nat /\ r.start <= r.end
           /\ r.end <= MaxOffset => r.start <= MaxOffset
  BY MaxOffsetAssumption DEF UsizeRange

(* The first range of a commitment over one range. *)
LEMMA OneRange ==
    ASSUME NEW c \in TranscriptCommitment, Len(c.idx) = 1
    PROVE  c.idx[1] \in UsizeRange
  <1>1. c.idx \in Seq(UsizeRange)
    BY DEF TranscriptCommitment
  <1>2. QED
    BY <1>1

(* The checks of the loop refuse exactly the commitments the format cannot
   describe, whatever their order (attest.rs 220-242). *)
LEMMA RefusedIffNotGood ==
    ASSUME NEW c \in TranscriptCommitment
    PROVE  /\ Refusal(c) = "none" <=> Good(c)
           /\ Refusal(c) \in {"none", "OffsetTooLarge", "WrongCommitmentAlgorithm",
                              "DisjointCommitment", "BadCommitmentLength"}
  <1>1. CASE Len(c.idx) = 1
    <2>1. /\ c.idx[1].start \in Nat /\ c.idx[1].end \in Nat
          /\ c.idx[1].end <= MaxOffset => c.idx[1].start <= MaxOffset
      BY <1>1, OneRange, RangeBounds
    <2>2. QED
      BY <1>1, <2>1 DEF Refusal, Good, u32_of
  <1>2. CASE Len(c.idx) # 1
    BY <1>2 DEF Refusal, Good
  <1>3. QED
    BY <1>1, <1>2

(* A session is describable when each direction's length, ranges and hash
   commitments are. *)
LEMMA DescribableIs ==
    Describable <=>
        \A d \in Directions :
            /\ session.len[d] <= MaxOffset
            /\ \A k \in DOMAIN session.authed[d] : session.authed[d][k].end <= MaxOffset
            /\ \A k \in HashesOf(session, d) : Good(session.commits[k])
  BY DEF Describable, Hashes, HashesOf, Good

-----------------------------------------------------------------------------
(* The commitments of a block.                                             *)

(* A commitment the block passes over leaves it holding what it should. *)
LEMMA HeldSkips ==
    ASSUME NEW s, IsSession(s), NEW d, NEW n \in Nat, NEW o, Held(s, d, n, o),
           n + 1 \notin HashesOf(s, d)
    PROVE  Held(s, d, n + 1, o)
  <1>1. \A h \in HashesOf(s, d) : h \in Nat /\ (h <= n + 1 => h <= n)
    BY SessionShape DEF HashesOf
  <1>2. \A k \in 1..Len(o) : o[k].commitment <= n + 1
    BY <1>1, SMTT(30) DEF Held
  <1>3. QED
    BY <1>1, <1>2 DEF Held

(* A describable commitment of the direction is taken in once. *)
LEMMA HeldTakes ==
    ASSUME NEW s, IsSession(s), NEW d, NEW n \in Nat, NEW o \in Seq(Entry), Held(s, d, n, o),
           n + 1 \in HashesOf(s, d), Good(s.commits[n + 1]),
           NEW p, p = Append(o, [start |-> s.commits[n + 1].idx[1].start,
                                 end |-> s.commits[n + 1].idx[1].end,
                                 commitment |-> n + 1])
    PROVE  p \in Seq(Entry) /\ Held(s, d, n + 1, p)
  <1>1. DEFINE c == s.commits[n + 1]
               e == [start |-> c.idx[1].start, end |-> c.idx[1].end, commitment |-> n + 1]
  <1>2. c \in TranscriptCommitment /\ Len(c.idx) = 1
    BY SessionShape DEF HashesOf, Good
  <1>3. c.idx[1].start \in Nat /\ c.idx[1].end \in Nat
    BY <1>2, OneRange, RangeBounds
  <1>4. /\ e \in Entry /\ e.commitment = n + 1
        /\ e.start = c.idx[1].start /\ e.end = c.idx[1].end
    BY <1>3 DEF Entry
  <1>5. p = Append(o, e)
    OBVIOUS
  <1> HIDE DEF e
  <1>6. /\ p \in Seq(Entry) /\ Len(o) \in Nat /\ Len(p) = Len(o) + 1 /\ p[Len(o) + 1] = e
        /\ \A k \in 1..Len(o) : p[k] = o[k]
    BY <1>4, <1>5
  <1>7. \A h \in HashesOf(s, d) : h \in Nat /\ (h <= n + 1 => h <= n \/ h = n + 1)
    BY SessionShape DEF HashesOf
  <1>8. \A k \in 1..Len(p) : k \in 1..Len(o) \/ k = Len(o) + 1
    BY <1>6
  <1>9. \A k \in 1..Len(o) : o[k].commitment \in HashesOf(s, d) /\ o[k].commitment <= n
    BY SMTT(30) DEF Held
  <1>10. ASSUME NEW k \in 1..Len(p)
         PROVE  LET x == s.commits[p[k].commitment] IN
                /\ p[k].commitment \in HashesOf(s, d) /\ p[k].commitment <= n + 1
                /\ p[k].start = x.idx[1].start /\ p[k].end = x.idx[1].end
    <2>1. CASE k \in 1..Len(o)
      <3>1. p[k] = o[k] /\ o[k].commitment <= n + 1
        BY <1>6, <1>7, <1>9, <2>1, SMTT(30)
      <3>2. QED
        BY <2>1, <3>1 DEF Held
    <2>2. CASE k = Len(o) + 1
      BY <1>4, <1>6, <2>2
    <2>3. QED
      BY <1>8, <2>1, <2>2, ZenonT(60)
  <1>11. ASSUME NEW h \in HashesOf(s, d), h <= n + 1
         PROVE  Good(s.commits[h]) /\ \E k \in 1..Len(p) : p[k].commitment = h
    <2>1. CASE h = n + 1
      <3>1. Len(o) + 1 \in 1..Len(p) /\ p[Len(o) + 1].commitment = h
        BY <1>4, <1>6, <2>1
      <3>2. QED
        BY <2>1, <3>1
    <2>2. CASE h <= n
      <3>1. PICK k \in 1..Len(o) : o[k].commitment = h
        BY <2>2 DEF Held
      <3>2. k \in 1..Len(p) /\ p[k].commitment = h
        BY <1>6, <3>1
      <3>3. QED
        BY <2>2, <3>2 DEF Held
    <2>3. QED
      BY <1>7, <1>11, <2>1, <2>2
  <1>12. ASSUME NEW j \in 1..Len(p), NEW k \in 1..Len(p), p[j].commitment = p[k].commitment
         PROVE  j = k
    <2>1. CASE j \in 1..Len(o) /\ k \in 1..Len(o)
      BY <1>6, <1>12, <2>1 DEF Held
    <2>2. CASE j = Len(o) + 1 /\ k = Len(o) + 1
      BY <2>2
    <2>3. \A m \in 1..Len(o) : p[m].commitment # n + 1
      BY <1>6, <1>7, <1>9
    <2>4. QED
      BY <1>4, <1>6, <1>8, <1>12, <2>1, <2>2, <2>3, SMTT(30)
  <1>13. QED
    BY <1>6, <1>10, <1>11, <1>12 DEF Held

(* The stable sort leaves every commitment where it can be found, once, and the
   starts ascending (attest.rs 244-247). *)
LEMMA HeldSorts ==
    ASSUME NEW s, IsSession(s), NEW d, NEW n, NEW o \in Seq(Entry), Held(s, d, n, o),
           NEW t \in [DOMAIN o -> {o[j] : j \in DOMAIN o}], StablySorted(t, o)
    PROVE  t \in Seq(Entry) /\ Held(s, d, n, t) /\ Ascending(t)
  <1>1. DEFINE D == DOMAIN o
  <1>2. /\ Len(o) \in Nat /\ D = 1..Len(o) /\ \A k \in D : o[k] \in Entry
    OBVIOUS
  <1>3. t \in [D -> Entry]
    BY <1>2
  <1>4. t \in Seq(Entry) /\ Len(t) = Len(o)
    BY <1>2, <1>3
  <1>5. PICK f \in [D -> D] :
            /\ \A j, k \in D : j # k => f[j] # f[k]
            /\ \A j \in D : t[j] = o[f[j]]
            /\ \A j, k \in D : j < k =>
                   \/ t[j].start < t[k].start
                   \/ t[j].start = t[k].start /\ f[j] < f[k]
    BY DEF StablySorted
  <1>6. \A k \in D : \E j \in D : f[j] = k
    <2>1. IsFiniteSet(D)
      BY <1>2, FS_Interval
    <2>2. f \in Injection(D, D)
      BY <1>5 DEF Injection, IsInjective
    <2>3. f \in Surjection(D, D)
      BY <2>1, <2>2, FS_Injection
    <2>4. QED
      BY <2>3 DEF Surjection
  <1> HIDE DEF D
  <1>7. ASSUME NEW k \in D
        PROVE  LET c == s.commits[t[k].commitment] IN
               /\ t[k].commitment \in HashesOf(s, d) /\ t[k].commitment <= n
               /\ t[k].start = c.idx[1].start /\ t[k].end = c.idx[1].end
    <2>1. PICK m \in D : t[k] = o[m]
      BY <1>5
    <2>2. m \in 1..Len(o)
      BY <1>2
    <2>3. LET c == s.commits[o[m].commitment] IN
          /\ o[m].commitment \in HashesOf(s, d) /\ o[m].commitment <= n
          /\ o[m].start = c.idx[1].start /\ o[m].end = c.idx[1].end
      BY <2>2, Zenon DEF Held
    <2>4. QED
      BY <2>1, <2>3
  <1>8. ASSUME NEW h \in HashesOf(s, d), h <= n
        PROVE  Good(s.commits[h]) /\ \E k \in D : t[k].commitment = h
    <2>1. PICK m \in D : o[m].commitment = h
      BY <1>2, <1>8 DEF Held
    <2>2. PICK j \in D : f[j] = m
      BY <1>6
    <2>3. t[j].commitment = h
      BY <1>5, <2>1, <2>2
    <2>4. QED
      BY <1>8, <2>3 DEF Held
  <1>9. ASSUME NEW j \in D, NEW k \in D, t[j].commitment = t[k].commitment
        PROVE  j = k
    <2>1. o[f[j]].commitment = o[f[k]].commitment /\ f[j] \in D /\ f[k] \in D
      BY <1>5, <1>9
    <2>2. f[j] = f[k]
      BY <1>2, <2>1 DEF Held
    <2>3. QED
      BY <1>5, <2>2
  <1>10. Held(s, d, n, t)
    BY <1>2, <1>4, <1>7, <1>8, <1>9 DEF Held
  <1>11. Ascending(t)
    <2>1. \A k \in D : t[k].start \in Nat
      BY <1>3 DEF Entry
    <2>2. ASSUME NEW j \in D, NEW k \in D, j < k PROVE t[j].start <= t[k].start
      <3>1. t[j].start < t[k].start \/ t[j].start = t[k].start
        BY <1>5, <2>2
      <3>2. t[j].start \in Nat /\ t[k].start \in Nat
        BY <2>1
      <3>3. \A x, y \in Nat : x < y \/ x = y => x <= y
        OBVIOUS
      <3>4. QED
        BY <3>1, <3>2, <3>3, Zenon
    <2>3. QED
      BY <1>2, <1>4, <2>2 DEF Ascending
  <1>12. QED
    BY <1>4, <1>10, <1>11

(* A finished list is as long as there are hash commitments of its direction, and
   they are the ones it names. *)
LEMMA HeldIsAll ==
    ASSUME NEW s, IsSession(s), NEW d, NEW o \in Seq(Entry), Held(s, d, Len(s.commits), o)
    PROVE  /\ {o[k].commitment : k \in DOMAIN o} = HashesOf(s, d)
           /\ Len(o) = Cardinality(HashesOf(s, d))
  <1>1. DEFINE D == 1..Len(o)
               H == HashesOf(s, d)
               f == [k \in D |-> o[k].commitment]
  <1>2. Len(o) \in Nat /\ DOMAIN o = D /\ Len(s.commits) \in Nat
    BY SessionShape
  <1>3. \A h \in H : h \in 1..Len(s.commits)
    BY SessionShape DEF HashesOf
  <1>4. \A h \in H : \E k \in D : o[k].commitment = h
    BY <1>2, <1>3 DEF Held
  <1>5. \A k \in D : o[k].commitment \in H
    BY DEF Held
  <1>6. \A j, k \in D : o[j].commitment = o[k].commitment => j = k
    BY DEF Held
  <1> HIDE DEF D, H
  <1>7. f \in [D -> H] /\ \A k \in D : f[k] = o[k].commitment
    BY <1>5
  <1> HIDE DEF f
  <1>8. f \in Bijection(D, H)
    BY <1>4, <1>6, <1>7, SMTT(30) DEF Bijection, Injection, Surjection, IsInjective
  <1>9. IsFiniteSet(D) /\ Cardinality(D) = Len(o)
    <2>1. Len(o) \in Int /\ 1 \in Int /\ (IF 1 > Len(o) THEN 0 ELSE Len(o) - 1 + 1) = Len(o)
      BY <1>2
    <2>2. QED
      BY <2>1, FS_Interval DEF D
  <1>10. Cardinality(H) = Cardinality(D)
    BY <1>8, <1>9, FS_Bijection DEF ExistsBijection
  <1>11. {o[k].commitment : k \in DOMAIN o} = H
    BY <1>2, <1>4, <1>5
  <1>12. QED
    BY <1>9, <1>10, <1>11 DEF H

-----------------------------------------------------------------------------
(* The steps.                                                              *)

(* What a finished or unfinished block holds is within the types. *)
LEMMA ListsTyped ==
    ASSUME NEW s, IsSession(s), NEW d \in Directions
    PROVE  /\ \A r \in Seq(UsizeRange) : \A n \in Nat :
                  RangesHeld(s, d, n, r) => \A k \in DOMAIN r : r[k].end \in 0..MaxOffset
           /\ \A o \in Seq(Entry) : \A n \in Nat :
                  Held(s, d, n, o) =>
                      \A k \in DOMAIN o :
                          /\ o[k].start \in 0..MaxOffset /\ o[k].end \in 0..MaxOffset
                          /\ o[k].commitment \in DOMAIN s.commits
  <1>1. ASSUME NEW r \in Seq(UsizeRange), NEW n \in Nat, RangesHeld(s, d, n, r),
               NEW k \in DOMAIN r
        PROVE  r[k].end \in 0..MaxOffset
    <2>1. k \in 1..n /\ r[k] \in UsizeRange
      BY <1>1 DEF RangesHeld
    <2>2. r[k].end <= MaxOffset /\ r[k].end \in Nat
      BY <1>1, <2>1, RangeBounds DEF RangesHeld
    <2>3. QED
      BY <2>2, MaxOffsetAssumption
  <1>2. ASSUME NEW o \in Seq(Entry), NEW n \in Nat, Held(s, d, n, o), NEW k \in DOMAIN o
        PROVE  /\ o[k].start \in 0..MaxOffset /\ o[k].end \in 0..MaxOffset
               /\ o[k].commitment \in DOMAIN s.commits
    <2>1. k \in 1..Len(o)
      OBVIOUS
    <2>2. PICK c : c = s.commits[o[k].commitment]
      OBVIOUS
    <2>3. /\ o[k].commitment \in HashesOf(s, d) /\ o[k].commitment <= n
          /\ o[k].start = c.idx[1].start /\ o[k].end = c.idx[1].end
      BY <1>2, <2>1, <2>2 DEF Held
    <2>4. Good(c)
      BY <1>2, <2>2, <2>3 DEF Held
    <2>5. o[k].commitment \in DOMAIN s.commits
      BY <2>3 DEF HashesOf
    <2>6. c \in TranscriptCommitment
      BY <2>2, <2>5, SessionShape
    <2>7. /\ c.idx[1].start \in Nat /\ c.idx[1].end \in Nat
          /\ c.idx[1].end <= MaxOffset /\ c.idx[1].start <= MaxOffset
      BY <2>4, <2>6, OneRange, RangeBounds DEF Good
    <2>8. QED
      BY <2>3, <2>5, <2>7, MaxOffsetAssumption
  <1>3. QED
    BY <1>1, <1>2

\* The part of the types that the lists' contents make.
ListsOK ==
    \A d \in Directions :
        /\ \A k \in DOMAIN revealed[d] : revealed[d][k].end \in 0..MaxOffset
        /\ \A k \in DOMAIN out[d] :
               /\ out[d][k].start \in 0..MaxOffset /\ out[d][k].end \in 0..MaxOffset
               /\ out[d][k].commitment \in DOMAIN session.commits

(* In every state without an error the lists are within the types. *)
LEMMA BlocksTyped == Shapes /\ Blocks /\ phase # "err" => ListsOK
  <1> SUFFICES ASSUME Shapes, Blocks, phase # "err", NEW d \in Directions
               PROVE  /\ \A k \in DOMAIN revealed[d] : revealed[d][k].end \in 0..MaxOffset
                      /\ \A k \in DOMAIN out[d] :
                             /\ out[d][k].start \in 0..MaxOffset
                             /\ out[d][k].end \in 0..MaxOffset
                             /\ out[d][k].commitment \in DOMAIN session.commits
    BY DEF ListsOK
  <1>1. /\ IsSession(session) /\ revealed[d] \in Seq(UsizeRange) /\ out[d] \in Seq(Entry)
        /\ i - 1 \in Nat
        /\ Len(session.commits) \in Nat /\ Len(session.authed[d]) \in Nat
    <2>1. IsSession(session) /\ revealed[d] \in Seq(UsizeRange) /\ out[d] \in Seq(Entry)
          /\ i - 1 \in Nat
      BY DEF Shapes
    <2>2. QED
      BY <2>1, SessionShape
  <1>2. /\ revealed[d] = <<>> \/ \E n \in Nat : RangesHeld(session, d, n, revealed[d])
        /\ out[d] = <<>> \/ \E n \in Nat : Held(session, d, n, out[d])
    <2>1. BlockInv(d) /\ phase \in {"lengths", "reveal", "commit", "sort", "done"}
      BY DEF Blocks, Shapes
    <2>2. QED
      BY <1>1, <2>1 DEF BlockInv, AllRanges, AllHeld
  <1>3. \A k \in DOMAIN revealed[d] : revealed[d][k].end \in 0..MaxOffset
    <2>1. CASE revealed[d] = <<>>
      BY <2>1
    <2>2. CASE \E n \in Nat : RangesHeld(session, d, n, revealed[d])
      BY <1>1, <2>2, ListsTyped
    <2>3. QED
      BY <1>2, <2>1, <2>2
  <1>4. \A k \in DOMAIN out[d] :
            /\ out[d][k].start \in 0..MaxOffset /\ out[d][k].end \in 0..MaxOffset
            /\ out[d][k].commitment \in DOMAIN session.commits
    <2>1. CASE out[d] = <<>>
      BY <2>1
    <2>2. CASE \E n \in Nat : Held(session, d, n, out[d])
      <3>1. PICK n \in Nat : Held(session, d, n, out[d])
        BY <2>2
      <3>2. QED
        BY <1>1, <3>1, ListsTyped, Zenon
    <2>3. QED
      BY <1>2, <2>1, <2>2
  <1>5. QED
    BY <1>3, <1>4

(* The other direction's block is not touched by a step within this one. *)
LEMMA OtherBlock ==
    ASSUME Shapes, {phase, phase'} \subseteq {"reveal", "commit", "sort"},
           dir' = dir, session' = session,
           NEW d \in Directions, d # dir, BlockInv(d),
           revealed'[d] = revealed[d], out'[d] = out[d]
    PROVE  BlockInv(d)'
  <1>1. CASE dir = "Sent"
    BY <1>1 DEF BlockInv, Directions
  <1>2. CASE dir = "Received"
    BY <1>2 DEF BlockInv, Directions, AllRanges, AllHeld
  <1>3. QED
    BY <1>1, <1>2 DEF Shapes, Directions

(* A refusal leaves what was made so far, and the session is one the format
   cannot describe. *)
LEMMA FailStep ==
    ASSUME RecordInv, NEW e, Fail(e), ~Describable,
           e \in {"OffsetTooLarge", "WrongCommitmentAlgorithm", "DisjointCommitment",
                  "BadCommitmentLength"}
    PROVE  RecordInv'
  <1>1. /\ phase' = "err" /\ err' = e /\ UNCHANGED <<session, dir, i, revealed, out>>
        /\ Shapes /\ TypeOK
    BY DEF Fail, RecordInv
  <1>2. Shapes'
    BY <1>1 DEF Shapes
  <1>3. TypeOK'
    BY <1>1 DEF TypeOK
  <1>4. Describable' <=> Describable
    BY <1>1 DEF Describable, Hashes
  <1>5. QED
    BY <1>1, <1>2, <1>3, <1>4 DEF RecordInv, Blocks

(* The header's two lengths (attest.rs 159-162). *)
LEMMA LengthsStep == ASSUME RecordInv, Lengths PROVE RecordInv'
  <1>1. Shapes /\ Blocks /\ TypeOK /\ phase = "lengths" /\ dir = "Sent" /\ i = 1 /\ IsSession(session)
    BY DEF RecordInv, Lengths, Shapes
  <1>2. \A d \in Directions : revealed[d] = <<>> /\ out[d] = <<>>
    BY <1>1 DEF Blocks, BlockInv
  <1>3. CASE \A d \in Directions : u32_of(session.len[d])
    <2>1. phase' = "reveal" /\ UNCHANGED <<session, dir, i, revealed, out, err>>
      BY <1>3 DEF Lengths
    <2>2. Shapes'
      BY <1>1, <2>1 DEF Shapes
    <2>3. ASSUME NEW d \in Directions PROVE BlockInv(d)'
      <3>1. CASE d = "Received"
        BY <1>1, <1>2, <2>1, <3>1 DEF BlockInv
      <3>2. CASE d = "Sent"
        <4>1. session.authed[d] \in Seq(UsizeRange)
          BY <1>1, SessionShape
        <4>2. /\ revealed[d] = <<>> /\ out[d] = <<>> /\ Len(revealed[d]) = 0
              /\ Len(session.authed[d]) \in Nat
          BY <1>2, <4>1
        <4>3. RangesHeld(session, d, 0, revealed[d])
          BY <4>2 DEF RangesHeld
        <4>4. QED
          BY <1>1, <2>1, <3>2, <4>2, <4>3 DEF BlockInv
      <3>3. QED
        BY <3>1, <3>2 DEF Directions
    <2>4. Blocks'
      BY <1>1, <1>3, <2>1, <2>3 DEF Blocks, u32_of
    <2>5. TypeOK'
      BY <1>1, <2>1 DEF TypeOK
    <2>6. QED
      BY <2>2, <2>4, <2>5 DEF RecordInv
  <1>4. CASE \E d \in Directions : ~u32_of(session.len[d])
    <2>1. ~Describable
      BY <1>4 DEF Describable, u32_of
    <2>2. Fail("OffsetTooLarge")
      BY <1>4 DEF Lengths
    <2>3. QED
      BY <2>1, <2>2, FailStep
  <1>5. QED
    BY <1>3, <1>4

(* Once a step goes on within the types, the types of the lists follow. *)
LEMMA Advanced ==
    RecordInv /\ Shapes' /\ Blocks' /\ phase' # "err" /\ err' = err => RecordInv'
  <1>1. (Shapes /\ Blocks /\ phase # "err" => ListsOK)'
    BY BlocksTyped, PTL
  <1>2. ListsOK' /\ Shapes' /\ err' = err /\ TypeOK => TypeOK'
    BY DEF ListsOK, TypeOK, Shapes
  <1>3. QED
    BY <1>1, <1>2 DEF RecordInv

(* One revealed range is taken in as it is, or is too long for the format; one
   that starts too late also ends too late (attest.rs 195-207). *)
LEMMA RevealRangeStep == ASSUME RecordInv, RevealRange PROVE RecordInv'
  <1>1. /\ Shapes /\ Blocks /\ phase = "reveal" /\ IsSession(session)
        /\ dir \in Directions /\ i \in Nat \ {0} /\ i <= Len(session.authed[dir])
    BY DEF RecordInv, RevealRange, Shapes
  <1>2. /\ RangesHeld(session, dir, i - 1, revealed[dir]) /\ out[dir] = <<>>
    BY <1>1 DEF Blocks, BlockInv, Directions
  <1>3. DEFINE r == session.authed[dir][i]
               a == session.authed[dir]
  <1>4. /\ a \in Seq(UsizeRange) /\ i \in 1..Len(a) /\ Len(a) \in Nat
        /\ revealed[dir] \in Seq(UsizeRange) /\ revealed \in [Directions -> Seq(UsizeRange)]
    <2>1. a \in Seq(UsizeRange)
      BY <1>1, SessionShape
    <2>2. QED
      BY <1>1, <2>1 DEF Shapes
  <1>5. r \in UsizeRange /\ i \in DOMAIN a
    BY <1>4
  <1>6. /\ r.start \in Nat /\ r.end \in Nat /\ (r.end <= MaxOffset => r.start <= MaxOffset)
    BY <1>5, RangeBounds
  <1>7. CASE u32_of(r.end) /\ u32_of(r.start)
    <2>1. /\ revealed' = [revealed EXCEPT ![dir] = Append(@, r)] /\ i' = i + 1
          /\ UNCHANGED <<session, phase, dir, out, err>>
      BY <1>7 DEF RevealRange
    <2>2. /\ r.end <= MaxOffset
          /\ revealed'[dir] = Append(revealed[dir], r)
          /\ \A d \in Directions : d # dir => revealed'[d] = revealed[d]
          /\ revealed' \in [Directions -> Seq(UsizeRange)]
      <3>1. Append(revealed[dir], r) \in Seq(UsizeRange)
        BY <1>4, <1>5
      <3>2. QED
        BY <1>1, <1>4, <1>7, <2>1, <3>1 DEF u32_of
    <2> HIDE DEF r
    <2>3. RangesHeld(session, dir, i, revealed'[dir])
      <3>1. DEFINE q == revealed[dir]
      <3>2. /\ Len(q) = i - 1 /\ \A k \in 1..(i - 1) : q[k] = a[k] /\ q[k].end <= MaxOffset
        BY <1>2 DEF RangesHeld
      <3>3. /\ q \in Seq(UsizeRange) /\ r \in UsizeRange
        BY <1>4, <1>5
      <3> HIDE DEF q
      <3>4. DEFINE p == Append(q, r)
      <3>5. /\ Len(p) = i /\ p[i] = r /\ \A k \in 1..(i - 1) : p[k] = q[k]
        BY <1>1, <3>2, <3>3
      <3> HIDE DEF p
      <3>6. \A k \in 1..i : k = i \/ k \in 1..(i - 1)
        BY <1>1
      <3>7. \A k \in 1..i : p[k] = a[k] /\ p[k].end <= MaxOffset
        BY <2>2, <3>2, <3>5, <3>6 DEF r
      <3>8. RangesHeld(session, dir, i, p)
        BY <3>5, <3>7 DEF RangesHeld
      <3>9. QED
        BY <2>2, <3>8 DEF p, q
    <2>4. Shapes'
      BY <1>1, <2>1, <2>2 DEF Shapes
    <2>5. ASSUME NEW d \in Directions PROVE BlockInv(d)'
      <3>1. CASE d = dir
        <4>1. i' - 1 = i /\ i' <= Len(a) + 1
          BY <1>1, <1>4, <2>1
        <4>2. QED
          BY <1>1, <1>2, <2>1, <2>3, <3>1, <4>1 DEF BlockInv, Directions
      <3>2. CASE d # dir
        <4>1. BlockInv(d)
          BY <1>1 DEF Blocks
        <4>2. QED
          BY <1>1, <2>1, <2>2, <3>2, <4>1, OtherBlock
      <3>3. QED
        BY <3>1, <3>2
    <2>6. Blocks'
      BY <1>1, <2>1, <2>5 DEF Blocks
    <2>7. QED
      BY <1>1, <2>1, <2>4, <2>6, Advanced
  <1>8. CASE ~(u32_of(r.end) /\ u32_of(r.start))
    <2>1. ~(r.end <= MaxOffset)
      BY <1>6, <1>8 DEF u32_of
    <2>2. ~Describable
      BY <1>1, <1>5, <2>1 DEF Describable
    <2>3. Fail("OffsetTooLarge")
      BY <1>8 DEF RevealRange
    <2>4. QED
      BY <2>2, <2>3, FailStep
  <1>9. QED
    BY <1>7, <1>8

(* The ranges are through. *)
LEMMA RevealEndStep == ASSUME RecordInv, RevealEnd PROVE RecordInv'
  <1>1. /\ Shapes /\ Blocks /\ phase = "reveal" /\ IsSession(session)
        /\ dir \in Directions /\ i \in Nat \ {0} /\ i > Len(session.authed[dir])
        /\ phase' = "commit" /\ i' = 1 /\ UNCHANGED <<session, dir, revealed, out, err>>
    BY DEF RecordInv, RevealEnd, Shapes
  <1>2. /\ RangesHeld(session, dir, i - 1, revealed[dir]) /\ out[dir] = <<>>
        /\ i <= Len(session.authed[dir]) + 1
    BY <1>1 DEF Blocks, BlockInv, Directions
  <1>3. Len(session.authed[dir]) \in Nat /\ Len(session.commits) \in Nat
    <2>1. session.authed[dir] \in Seq(UsizeRange)
      BY <1>1, SessionShape
    <2>2. QED
      BY <1>1, <2>1, SessionShape
  <1>4. i - 1 = Len(session.authed[dir])
    BY <1>1, <1>2, <1>3
  <1>5. Held(session, dir, 0, out[dir])
    <2>1. \A h \in HashesOf(session, dir) : ~(h <= 0)
      BY <1>1, SessionShape DEF HashesOf
    <2>2. \A k \in 1..Len(out[dir]) : FALSE
      <3>1. Len(out[dir]) = 0
        BY <1>2
      <3>2. QED
        BY <3>1
    <2>3. QED
      BY <2>1, <2>2 DEF Held
  <1>6. Shapes'
    BY <1>1 DEF Shapes
  <1>7. ASSUME NEW d \in Directions PROVE BlockInv(d)'
    <2>1. CASE d = dir
      <3>1. i' - 1 = 0 /\ i' <= Len(session.commits) + 1
        BY <1>1, <1>3
      <3>2. AllRanges(dir)'
        BY <1>1, <1>2, <1>4 DEF AllRanges
      <3>3. QED
        BY <1>1, <1>5, <2>1, <3>1, <3>2 DEF BlockInv, Directions
    <2>2. CASE d # dir
      <3>1. BlockInv(d)
        BY <1>1 DEF Blocks
      <3>2. QED
        BY <1>1, <2>2, <3>1, OtherBlock
    <2>3. QED
      BY <2>1, <2>2
  <1>8. Blocks'
    BY <1>1, <1>7 DEF Blocks
  <1>9. QED
    BY <1>1, <1>6, <1>8, Advanced

(* One commitment: passed over if it is not a hash of this direction, taken in if
   it can be described, and refused otherwise (attest.rs 214-242). *)
LEMMA CommitmentStep == ASSUME RecordInv, Commitment PROVE RecordInv'
  <1>1. /\ Shapes /\ Blocks /\ phase = "commit" /\ IsSession(session)
        /\ dir \in Directions /\ i \in Nat \ {0} /\ i <= Len(session.commits)
        /\ session' = session
    BY DEF RecordInv, Commitment, Shapes, Fail
  <1>2. AllRanges(dir) /\ Held(session, dir, i - 1, out[dir])
    BY <1>1 DEF Blocks, BlockInv, Directions
  <1>3. DEFINE c == session.commits[i]
  <1>4. c \in TranscriptCommitment /\ i \in DOMAIN session.commits /\ Len(session.commits) \in Nat
    BY <1>1, SessionShape
  <1>5. ~Skipped(c) <=> i \in HashesOf(session, dir)
    BY <1>4 DEF Skipped, HashesOf
  <1>6. i - 1 \in Nat /\ i - 1 + 1 = i
    BY <1>1
  <1>7. ASSUME Held(session, dir, i, out'[dir]), i' = i + 1,
               UNCHANGED <<phase, dir, revealed, err>>,
               out' \in [Directions -> Seq(Entry)],
               \A d \in Directions : d # dir => out'[d] = out[d]
        PROVE  RecordInv'
    <2>1. Shapes'
      BY <1>1, <1>7 DEF Shapes
    <2>2. ASSUME NEW d \in Directions PROVE BlockInv(d)'
      <3>1. CASE d = dir
        <4>1. i' - 1 = i /\ i' <= Len(session.commits) + 1
          BY <1>1, <1>4, <1>7
        <4>2. AllRanges(d)'
          BY <1>1, <1>2, <1>7, <3>1 DEF AllRanges
        <4>3. QED
          BY <1>1, <1>7, <3>1, <4>1, <4>2 DEF BlockInv, Directions
      <3>2. CASE d # dir
        <4>1. BlockInv(d)
          BY <1>1 DEF Blocks
        <4>2. QED
          BY <1>1, <1>7, <3>2, <4>1, OtherBlock
      <3>3. QED
        BY <3>1, <3>2
    <2>3. Blocks'
      BY <1>1, <1>7, <2>2 DEF Blocks
    <2>4. QED
      BY <1>1, <1>7, <2>1, <2>3, Advanced
  <1>8. CASE Skipped(c)
    <2>1. i' = i + 1 /\ UNCHANGED <<phase, dir, revealed, out, err>>
      BY <1>8 DEF Commitment
    <2>2. Held(session, dir, i, out[dir])
      BY <1>1, <1>2, <1>5, <1>6, <1>8, HeldSkips
    <2>3. QED
      BY <1>1, <1>7, <2>1, <2>2 DEF Shapes
  <1>9. CASE ~Skipped(c) /\ Refusal(c) # "none"
    <2>1. Fail(Refusal(c)) /\ ~Good(c)
      BY <1>4, <1>9, RefusedIffNotGood DEF Commitment
    <2>2. ~Describable
      BY <1>1, <1>5, <1>9, <2>1, DescribableIs
    <2>3. QED
      BY <1>4, <1>9, <2>1, <2>2, RefusedIffNotGood, FailStep
  <1>10. CASE ~Skipped(c) /\ Refusal(c) = "none"
    <2>1. DEFINE p == Append(out[dir], [start |-> c.idx[1].start, end |-> c.idx[1].end,
                                        commitment |-> i])
    <2>2. /\ out' = [out EXCEPT ![dir] = p] /\ i' = i + 1
          /\ UNCHANGED <<phase, dir, revealed, err>>
      BY <1>10 DEF Commitment
    <2>3. out[dir] \in Seq(Entry) /\ out \in [Directions -> Seq(Entry)]
      BY <1>1 DEF Shapes
    <2>4. i \in HashesOf(session, dir) /\ Good(session.commits[i])
      BY <1>4, <1>5, <1>10, RefusedIffNotGood
    <2>5. p \in Seq(Entry) /\ Held(session, dir, i, p)
      BY <1>1, <1>2, <1>6, <2>3, <2>4, HeldTakes
    <2> HIDE DEF p
    <2>6. /\ out'[dir] = p /\ out' \in [Directions -> Seq(Entry)]
          /\ \A d \in Directions : d # dir => out'[d] = out[d]
      BY <1>1, <2>2, <2>3, <2>5
    <2>7. QED
      BY <1>7, <2>2, <2>5, <2>6
  <1>11. QED
    BY <1>8, <1>9, <1>10

(* The commitments are through. *)
LEMMA CommitEndStep == ASSUME RecordInv, CommitEnd PROVE RecordInv'
  <1>1. /\ Shapes /\ Blocks /\ phase = "commit" /\ IsSession(session)
        /\ dir \in Directions /\ i \in Nat \ {0} /\ i > Len(session.commits)
        /\ phase' = "sort" /\ UNCHANGED <<session, dir, i, revealed, out, err>>
    BY DEF RecordInv, CommitEnd, Shapes
  <1>2. /\ AllRanges(dir) /\ Held(session, dir, i - 1, out[dir])
        /\ i <= Len(session.commits) + 1
    BY <1>1 DEF Blocks, BlockInv, Directions
  <1>3. Len(session.commits) \in Nat
    BY <1>1, SessionShape
  <1>4. i - 1 = Len(session.commits)
    BY <1>1, <1>2, <1>3
  <1>5. AllHeld(dir)' /\ AllRanges(dir)'
    BY <1>1, <1>2, <1>4 DEF AllHeld, AllRanges
  <1>6. Shapes'
    BY <1>1 DEF Shapes
  <1>7. ASSUME NEW d \in Directions PROVE BlockInv(d)'
    <2>1. CASE d = dir
      BY <1>1, <1>5, <2>1 DEF BlockInv, Directions
    <2>2. CASE d # dir
      <3>1. BlockInv(d)
        BY <1>1 DEF Blocks
      <3>2. QED
        BY <1>1, <2>2, <3>1, OtherBlock
    <2>3. QED
      BY <2>1, <2>2
  <1>8. Blocks'
    BY <1>1, <1>7 DEF Blocks
  <1>9. QED
    BY <1>1, <1>6, <1>8, Advanced

(* The block is sorted and done; after the sent one the received one begins, with
   nothing in it (attest.rs 163-166, 244-249). *)
LEMMA SortStep == ASSUME RecordInv, Sort PROVE RecordInv'
  <1>1. /\ Shapes /\ Blocks /\ phase = "sort" /\ IsSession(session)
        /\ dir \in Directions /\ UNCHANGED <<session, revealed, err>>
        /\ out \in [Directions -> Seq(Entry)] /\ out[dir] \in Seq(Entry)
        /\ revealed \in [Directions -> Seq(UsizeRange)]
    BY DEF RecordInv, Sort, Shapes
  <1>2. AllRanges(dir) /\ AllHeld(dir)
    BY <1>1 DEF Blocks, BlockInv, Directions
  <1>3. PICK t \in [DOMAIN out[dir] -> {out[dir][j] : j \in DOMAIN out[dir]}] :
             StablySorted(t, out[dir]) /\ out' = [out EXCEPT ![dir] = t]
    BY DEF Sort
  <1>4. t \in Seq(Entry) /\ Held(session, dir, Len(session.commits), t) /\ Ascending(t)
    BY <1>1, <1>2, <1>3, HeldSorts DEF AllHeld
  <1>5. /\ out'[dir] = t /\ out' \in [Directions -> Seq(Entry)]
        /\ \A d \in Directions : d # dir => out'[d] = out[d]
    BY <1>1, <1>3, <1>4
  <1>6. CASE dir = "Sent"
    <2>1. phase' = "reveal" /\ dir' = "Received" /\ i' = 1
      BY <1>6 DEF Sort
    <2>2. Shapes'
      BY <1>1, <1>5, <2>1 DEF Shapes, Directions
    <2>3. BlockInv("Sent")'
      BY <1>1, <1>2, <1>4, <1>5, <1>6, <2>1 DEF BlockInv, AllRanges, AllHeld
    <2>4. BlockInv("Received")'
      <3>1. "Received" \in Directions
        BY DEF Directions
      <3>2. revealed["Received"] = <<>> /\ out["Received"] = <<>>
        BY <1>1, <1>6, <3>1 DEF Blocks, BlockInv
      <3>3. session.authed["Received"] \in Seq(UsizeRange)
        BY <1>1, <3>1, SessionShape
      <3>4. /\ Len(revealed["Received"]) = 0 /\ Len(session.authed["Received"]) \in Nat
            /\ out'["Received"] = <<>>
        BY <1>5, <1>6, <3>1, <3>2, <3>3
      <3>5. RangesHeld(session, "Received", 0, revealed["Received"])
        BY <3>4 DEF RangesHeld
      <3>6. QED
        BY <1>1, <2>1, <3>4, <3>5 DEF BlockInv
    <2>5. Blocks'
      BY <1>1, <2>1, <2>3, <2>4 DEF Blocks, Directions
    <2>6. QED
      BY <1>1, <2>1, <2>2, <2>5, Advanced
  <1>7. CASE dir # "Sent"
    <2>1. phase' = "done" /\ UNCHANGED <<dir, i>> /\ dir = "Received"
      BY <1>1, <1>7 DEF Sort, Directions
    <2>2. Shapes'
      BY <1>1, <1>5, <2>1 DEF Shapes
    <2>3. BlockInv("Received")'
      BY <1>1, <1>2, <1>4, <1>5, <2>1 DEF BlockInv, AllRanges, AllHeld
    <2>4. BlockInv("Sent")'
      <3>1. "Sent" \in Directions
        BY DEF Directions
      <3>2. AllRanges("Sent") /\ AllHeld("Sent") /\ Ascending(out["Sent"])
        BY <1>1, <2>1, <3>1 DEF Blocks, BlockInv
      <3>3. QED
        BY <1>1, <1>5, <2>1, <3>1, <3>2 DEF BlockInv, AllRanges, AllHeld
    <2>5. Blocks'
      BY <1>1, <2>1, <2>3, <2>4 DEF Blocks, Directions
    <2>6. QED
      BY <1>1, <2>1, <2>2, <2>5, Advanced
  <1>8. QED
    BY <1>6, <1>7

-----------------------------------------------------------------------------
(* The theorems.                                                           *)

(* Before the first check nothing is held. *)
LEMMA RecordStart ==
    ASSUME IsSession(session), phase = "lengths", dir = "Sent", i = 1, err = "none",
           revealed = [d \in Directions |-> <<>>], out = [d \in Directions |-> <<>>]
    PROVE  RecordInv
  <1>1. Shapes
    BY DEF Shapes, Directions
  <1>2. Blocks
    BY DEF Blocks, BlockInv
  <1>3. TypeOK
    BY DEF TypeOK, Directions
  <1>4. QED
    BY <1>1, <1>2, <1>3 DEF RecordInv

(* Every step of from_observed keeps the blocks as its loops mean them. *)
LEMMA RecordKept == RecordInv /\ [Next]_vars => RecordInv'
  <1> SUFFICES ASSUME RecordInv, [Next]_vars PROVE RecordInv'
    OBVIOUS
  <1>1. CASE UNCHANGED vars
    <2>1. Shapes'
      BY <1>1 DEF RecordInv, Shapes, vars
    <2>2. \A d \in Directions : BlockInv(d)' <=> BlockInv(d)
      BY <1>1 DEF BlockInv, AllRanges, AllHeld, vars
    <2>3. Describable' <=> Describable
      BY <1>1 DEF Describable, Hashes, vars
    <2>4. TypeOK'
      BY <1>1 DEF RecordInv, TypeOK, vars
    <2>5. QED
      BY <1>1, <2>1, <2>2, <2>3, <2>4 DEF RecordInv, Blocks, vars
  <1>2. QED
    BY <1>1, LengthsStep, RevealRangeStep, RevealEndStep, CommitmentStep, CommitEndStep,
       SortStep DEF Next

(* In every reachable state of from_observed the finished blocks hold what they
   should, the one under way holds its part of it, and an error means a session
   that cannot be described. *)
THEOREM RecordInvariance == Spec => []RecordInv
  <1>1. Init => RecordInv
    BY RecordStart, SessionsAssumption DEF Init
  <1>2. QED
    BY <1>1, RecordKept, PTL DEF Spec

(* The locals of from_observed have their types, and what a block holds fits the
   format's offsets (attest.rs 159-249). *)
THEOREM RecordTypes == Spec => []TypeOK
  <1>1. RecordInv => TypeOK
    BY DEF RecordInv
  <1>2. QED
    BY <1>1, RecordInvariance, PTL

(* A record is finished for a describable session only, and refused for any other. *)
LEMMA RefusalIsExact == RecordInv => RefusesOnlyTheIndescribable
  <1>1. ASSUME RecordInv PROVE RefusesOnlyTheIndescribable
    <2>1. CASE phase = "done"
      <3>1. \A d \in Directions : AllRanges(d) /\ AllHeld(d) /\ session.len[d] <= MaxOffset
        BY <1>1, <2>1 DEF RecordInv, Shapes, Blocks, BlockInv
      <3>2. IsSession(session)
        BY <1>1 DEF RecordInv, Shapes
      <3>3. ASSUME NEW d \in Directions, NEW k \in HashesOf(session, d)
            PROVE  Good(session.commits[k])
        <4>1. k <= Len(session.commits)
          BY <3>2, SessionShape DEF HashesOf
        <4>2. QED
          BY <3>1, <4>1 DEF AllHeld, Held
      <3>4. ASSUME NEW d \in Directions, NEW k \in DOMAIN session.authed[d]
            PROVE  session.authed[d][k].end <= MaxOffset
        <4>1. session.authed[d] \in Seq(UsizeRange)
          BY <3>2, SessionShape
        <4>2. k \in 1..Len(session.authed[d])
          BY <4>1
        <4>3. QED
          BY <3>1, <4>2 DEF AllRanges, RangesHeld
      <3>5. QED
        BY <2>1, <3>1, <3>3, <3>4, DescribableIs DEF RefusesOnlyTheIndescribable
    <2>2. CASE phase # "done"
      BY <1>1, <2>2, SMTT(30) DEF RecordInv, Blocks, RefusesOnlyTheIndescribable
    <2>3. QED
      BY <2>1, <2>2
  <1>2. QED
    BY <1>1

(* from_observed refuses exactly the sessions the format cannot describe, for
   every session and every largest offset (attest.rs 159-166, 220-242). *)
THEOREM RefusesExactly == Spec => []RefusesOnlyTheIndescribable
  BY RefusalIsExact, RecordInvariance, PTL

(* What the invariant says of the finished blocks is what BlocksHoldTheirDirection
   asks of them. *)
LEMMA BlocksAreComplete == RecordInv => BlocksHoldTheirDirection
  <1>1. ASSUME RecordInv PROVE BlocksHoldTheirDirection
    <2> SUFFICES ASSUME phase = "done", NEW d \in Directions
                 PROVE  /\ revealed[d] = session.authed[d]
                        /\ {out[d][k].commitment : k \in DOMAIN out[d]} = Hashes(d)
                        /\ Len(out[d]) = Cardinality(Hashes(d))
                        /\ \A k \in DOMAIN out[d] :
                               LET c == session.commits[out[d][k].commitment] IN
                               out[d][k].start = c.idx[1].start /\ out[d][k].end = c.idx[1].end
                        /\ \A j, k \in DOMAIN out[d] : j < k => out[d][j].start <= out[d][k].start
      BY DEF BlocksHoldTheirDirection
    <2>1. /\ IsSession(session) /\ revealed[d] \in Seq(UsizeRange) /\ out[d] \in Seq(Entry)
          /\ AllRanges(d) /\ AllHeld(d) /\ Ascending(out[d])
      BY <1>1 DEF RecordInv, Shapes, Blocks, BlockInv
    <2>2. revealed[d] = session.authed[d]
      <3>1. session.authed[d] \in Seq(UsizeRange)
        BY <2>1, SessionShape
      <3>2. /\ Len(revealed[d]) = Len(session.authed[d])
            /\ \A k \in 1..Len(session.authed[d]) : revealed[d][k] = session.authed[d][k]
        BY <2>1 DEF AllRanges, RangesHeld
      <3>3. QED
        BY <2>1, <3>1, <3>2, SMTT(30)
    <2>3. Hashes(d) = HashesOf(session, d)
      BY DEF Hashes, HashesOf
    <2>4. /\ {out[d][k].commitment : k \in DOMAIN out[d]} = Hashes(d)
          /\ Len(out[d]) = Cardinality(Hashes(d))
      BY <2>1, <2>3, HeldIsAll DEF AllHeld
    <2>5. DOMAIN out[d] = 1..Len(out[d])
      BY <2>1
    <2>6. \A k \in DOMAIN out[d] :
              LET c == session.commits[out[d][k].commitment] IN
              out[d][k].start = c.idx[1].start /\ out[d][k].end = c.idx[1].end
      BY <2>1, <2>5 DEF AllHeld, Held
    <2>7. \A j, k \in DOMAIN out[d] : j < k => out[d][j].start <= out[d][k].start
      BY <2>1, <2>5 DEF Ascending
    <2>8. QED
      BY <2>2, <2>4, <2>6, <2>7, SMTT(30)
  <1>2. QED
    BY <1>1

(* A finished block holds its direction and nothing else: every hash commitment
   once, with its range, ascending, and the revealed ranges untouched
   (attest.rs 195-249). *)
THEOREM BlocksComplete == Spec => []BlocksHoldTheirDirection
  BY BlocksAreComplete, RecordInvariance, PTL

-----------------------------------------------------------------------------
(* The walk of the Platform Verifier.                                      *)

\* Where the walk goes on: the lists whose next span begins where it stands.
Hit(lists, m) ==
    {l \in 1..2 : m.next[l] <= Len(lists[l]) /\ lists[l][m.next[l]].start = m.at}

Advance(lists, m) ==
    IF Hit(lists, m) = {} THEN [m EXCEPT !.ok = FALSE]
    ELSE LET l == CHOOSE l \in Hit(lists, m) : TRUE IN
         [m EXCEPT !.at = lists[l][m.next[l]].end, !.next[l] = @ + 1]

IsMerge(lists, f) ==
    f = [n \in Nat |-> IF n = 0 THEN [at |-> 0, next |-> <<1, 1>>, ok |-> TRUE]
                       ELSE Advance(lists, f[n - 1])]

Marks == [at : Nat, next : [1..2 -> Nat \ {0}], ok : BOOLEAN]

\* Two lists of spans.
Spans(lists) ==
    \A l \in 1..2 : /\ Len(lists[l]) \in Nat
                    /\ \A k \in 1..Len(lists[l]) :
                           lists[l][k].start \in Nat /\ lists[l][k].end \in Nat

(* One step of the walk: the next span of some list, or it has failed. *)
LEMMA AdvanceMarks ==
    ASSUME NEW lists, Spans(lists), NEW m \in Marks
    PROVE  /\ Advance(lists, m) \in Marks
           /\ Hit(lists, m) # {} => \E l \in Hit(lists, m) :
                  /\ Advance(lists, m).at = lists[l][m.next[l]].end
                  /\ Advance(lists, m).next = [m.next EXCEPT ![l] = @ + 1]
                  /\ Advance(lists, m).ok = m.ok
  <1>1. /\ m = [at |-> m.at, next |-> m.next, ok |-> m.ok]
        /\ m.at \in Nat /\ m.next \in [1..2 -> Nat \ {0}] /\ m.ok \in BOOLEAN
    BY DEF Marks
  <1>2. CASE Hit(lists, m) = {}
    <2>1. Advance(lists, m) = [m EXCEPT !.ok = FALSE]
      BY <1>2 DEF Advance
    <2>2. [m EXCEPT !.ok = FALSE] \in Marks
      BY DEF Marks
    <2>3. QED
      BY <1>2, <2>1, <2>2
  <1>3. CASE Hit(lists, m) # {}
    <2> DEFINE l == CHOOSE l \in Hit(lists, m) : TRUE
    <2>1. l \in Hit(lists, m)
      BY <1>3
    <2>2. Advance(lists, m) =
              [m EXCEPT !.at = lists[l][m.next[l]].end, !.next[l] = @ + 1]
      BY <1>3 DEF Advance
    <2> HIDE DEF l
    <2>3. l \in 1..2 /\ m.next[l] \in 1..Len(lists[l])
      <3>1. l \in 1..2 /\ m.next[l] <= Len(lists[l])
        BY <2>1 DEF Hit
      <3>2. m.next[l] \in Nat \ {0} /\ Len(lists[l]) \in Nat
        BY <1>1, <3>1 DEF Spans
      <3>3. QED
        BY <3>1, <3>2
    <2>4. lists[l][m.next[l]].end \in Nat
      BY <2>3 DEF Spans
    <2> DEFINE end == lists[l][m.next[l]].end
               next == [m.next EXCEPT ![l] = @ + 1]
               after == [at |-> end, next |-> next, ok |-> m.ok]
    <2>5. Advance(lists, m) = after
      BY <1>1, <2>2, <2>3
    <2>6. next \in [1..2 -> Nat \ {0}]
      BY <1>1, <2>3
    <2>7. after \in Marks
      <3> HIDE DEF end, next
      <3> QED
        BY <1>1, <2>4, <2>6 DEF Marks, end
    <2>8. after.at = end /\ after.next = next /\ after.ok = m.ok
      OBVIOUS
    <2>9. QED
      BY <2>1, <2>5, <2>7, <2>8
  <1>4. QED
    BY <1>2, <1>3

(* The walk is defined after any number of spans. *)
LEMMA MergeExists ==
    ASSUME NEW lists, Spans(lists)
    PROVE  \E f : IsMerge(lists, f) /\ \A n \in Nat : f[n] \in Marks
  <1> DEFINE first == [at |-> 0, next |-> <<1, 1>>, ok |-> TRUE]
             step == [n \in Nat |-> [m \in Marks |-> Advance(lists, m)]]
  <1>1. first \in Marks
    BY DEF Marks
  <1>2. step \in [Nat -> [Marks -> Marks]]
    BY AdvanceMarks
  <1> HIDE DEF first, step, Marks
  <1>3. PICK f \in [Nat -> Marks] : f[0] = first /\ \A n \in Nat : f[n + 1] = step[n][f[n]]
    <2>1. \E f : Iterates(f, Marks, first, step)
      BY <1>1, <1>2, Recursion
    <2>2. QED
      BY <2>1 DEF Iterates
  <1> USE DEF first, step
  <1>4. ASSUME NEW n \in Nat
        PROVE  f[n] = IF n = 0 THEN first ELSE Advance(lists, f[n - 1])
    <2>1. CASE n = 0
      BY <1>3, <2>1
    <2>2. CASE n # 0
      <3>1. n - 1 \in Nat /\ (n - 1) + 1 = n
        BY <2>2
      <3>2. f[n] = step[n - 1][f[n - 1]] /\ f[n - 1] \in Marks
        BY <1>3, <3>1
      <3>3. step[n - 1][f[n - 1]] = Advance(lists, f[n - 1])
        BY <3>1, <3>2
      <3>4. QED
        BY <2>2, <3>2, <3>3
    <2>3. QED
      BY <2>1, <2>2
  <1>5. IsMerge(lists, f)
    BY <1>3, <1>4 DEF IsMerge
  <1>6. QED
    BY <1>3, <1>5

\* The spans of the lists are proper, ascend in each list and tile the length.
Tiled(lists, length) ==
    /\ \A l \in 1..2 :
           /\ \A k \in 1..Len(lists[l]) :
                  lists[l][k].start < lists[l][k].end /\ lists[l][k].end <= length
           /\ \A j, k \in 1..Len(lists[l]) : j < k => lists[l][j].start <= lists[l][k].start
    /\ \A l, m \in 1..2 : \A j \in 1..Len(lists[l]), k \in 1..Len(lists[m]) :
           \/ l = m /\ j = k
           \/ lists[l][j].end <= lists[m][k].start
           \/ lists[m][k].end <= lists[l][j].start
    /\ \A b \in 0..(length - 1) :
           \E l \in 1..2 : \E k \in 1..Len(lists[l]) :
               lists[l][k].start <= b /\ b < lists[l][k].end

\* The walk has passed n spans, which are those that end where it stands or before.
Passed(lists, length, n, m) ==
    /\ m \in Marks /\ m.ok /\ m.at <= length
    /\ m.next[1] + m.next[2] = n + 2
    /\ \A l \in 1..2 :
           /\ m.next[l] <= Len(lists[l]) + 1
           /\ \A k \in 1..Len(lists[l]) :
                  IF k < m.next[l] THEN lists[l][k].end <= m.at ELSE lists[l][k].start >= m.at

(* The byte at which the walk stands begins the next span of one of the lists. *)
LEMMA NextSpanBegins ==
    ASSUME NEW lists, Spans(lists), NEW length \in Nat, Tiled(lists, length),
           NEW n \in Nat, NEW m, Passed(lists, length, n, m), m.at < length
    PROVE  Hit(lists, m) # {}
  <1>1. m.at \in Nat /\ m.next \in [1..2 -> Nat \ {0}]
    BY DEF Passed, Marks
  <1>2. PICK l \in 1..2 : \E k \in 1..Len(lists[l]) :
            lists[l][k].start <= m.at /\ m.at < lists[l][k].end
    <2>1. m.at \in 0..(length - 1)
      BY <1>1
    <2>2. QED
      BY <2>1 DEF Tiled
  <1>3. PICK k \in 1..Len(lists[l]) : lists[l][k].start <= m.at /\ m.at < lists[l][k].end
    BY <1>2
  <1>4. /\ Len(lists[l]) \in Nat /\ k \in Nat /\ m.next[l] \in Nat \ {0}
        /\ lists[l][k].start \in Nat /\ lists[l][k].end \in Nat
    BY <1>1, SMTT(30) DEF Spans
  <1> DEFINE next == m.next[l]
             start == lists[l][k].start
             upto == m.at
  <1>5. ~(k < next) /\ start = upto
    <2>1. IF k < next THEN lists[l][k].end <= upto ELSE start >= upto
      BY DEF Passed
    <2> HIDE DEF next, start, upto
    <2>2. upto \in Nat /\ start \in Nat /\ start <= upto /\ upto < lists[l][k].end
          /\ lists[l][k].end \in Nat
      BY <1>1, <1>3, <1>4 DEF start, upto
    <2>3. QED
      BY <2>1, <2>2
  <1>6. next \in 1..Len(lists[l]) /\ (next = k \/ next < k)
    <2> HIDE DEF next
    <2>1. next \in Nat \ {0} /\ k \in 1..Len(lists[l]) /\ ~(k < next)
      BY <1>4, <1>5 DEF next
    <2>2. QED
      BY <1>4, <2>1
  <1>7. lists[l][m.next[l]].start \in Nat /\ lists[l][m.next[l]].start >= m.at
    <2>1. lists[l][next].start \in Nat
      BY <1>6 DEF Spans
    <2>2. IF next < m.next[l] THEN lists[l][next].end <= m.at ELSE lists[l][next].start >= m.at
      <3> HIDE DEF next
      <3>1. next \in 1..Len(lists[l])
        BY <1>6
      <3>2. QED
        BY <3>1 DEF Passed
    <2>3. ~(next < m.next[l])
      BY <1>4
    <2>4. QED
      BY <2>1, <2>2, <2>3
  <1>8. lists[l][m.next[l]].start <= lists[l][k].start
    <2>1. \A j, q \in 1..Len(lists[l]) : j < q => lists[l][j].start <= lists[l][q].start
      BY DEF Tiled
    <2>2. CASE next < k
      BY <1>6, <2>1, <2>2
    <2>3. CASE next = k
      BY <1>4, <2>3
    <2>4. QED
      BY <1>6, <2>2, <2>3
  <1>9. lists[l][m.next[l]].start = m.at
    <2> DEFINE first == lists[l][m.next[l]].start
    <2>1. first \in Nat /\ first >= upto /\ first <= start /\ start = upto /\ upto \in Nat
      BY <1>1, <1>5, <1>7, <1>8
    <2> HIDE DEF first, start, upto
    <2>2. first = upto
      BY <2>1
    <2>3. QED
      BY <2>2 DEF first, upto
  <1>10. l \in Hit(lists, m)
    BY <1>6, <1>9 DEF Hit
  <1>11. QED
    BY <1>10

(* A step of the walk passes one span more. *)
LEMMA PassesOne ==
    ASSUME NEW lists, Spans(lists), NEW length \in Nat, Tiled(lists, length),
           NEW n \in Nat, NEW m, Passed(lists, length, n, m), Hit(lists, m) # {}
    PROVE  Passed(lists, length, n + 1, Advance(lists, m))
  <1> DEFINE a == Advance(lists, m)
  <1>1. m \in Marks /\ m.ok /\ m.at \in Nat /\ m.next \in [1..2 -> Nat \ {0}]
    BY DEF Passed, Marks
  <1>2. PICK l \in Hit(lists, m) : /\ a.at = lists[l][m.next[l]].end
                                   /\ a.next = [m.next EXCEPT ![l] = @ + 1]
                                   /\ a.ok = m.ok
    BY <1>1, AdvanceMarks
  <1>3. a \in Marks
    BY <1>1, AdvanceMarks
  <1> HIDE DEF a
  <1>4. l \in 1..2 /\ m.next[l] \in Nat \ {0} /\ m.next[l] <= Len(lists[l])
        /\ lists[l][m.next[l]].start = m.at
    BY <1>1, <1>2 DEF Hit
  <1> DEFINE next == m.next[l]
             span == lists[l][next]
  <1>5. Len(lists[l]) \in Nat /\ next \in 1..Len(lists[l])
    BY <1>4 DEF Spans
  <1>6. span.start \in Nat /\ span.end \in Nat /\ span.start < span.end /\ span.end <= length
    BY <1>4, <1>5 DEF Spans, Tiled
  <1>7. a.next[l] = next + 1 /\ \A q \in 1..2 : q # l => a.next[q] = m.next[q]
    BY <1>1, <1>2, <1>4
  <1>8. a.next[1] + a.next[2] = (n + 1) + 2
    <2>1. m.next[1] + m.next[2] = n + 2 /\ m.next[1] \in Nat /\ m.next[2] \in Nat
      BY <1>1 DEF Passed
    <2>2. CASE l = 1
      <3>1. a.next[1] = m.next[1] + 1 /\ a.next[2] = m.next[2]
        BY <1>7, <2>2
      <3>2. QED
        BY <2>1, <3>1
    <2>3. CASE l = 2
      <3>1. a.next[2] = m.next[2] + 1 /\ a.next[1] = m.next[1]
        BY <1>7, <2>3
      <3>2. QED
        BY <2>1, <3>1
    <2>4. QED
      BY <1>4, <2>2, <2>3
  <1>9. ASSUME NEW q \in 1..2
        PROVE  a.next[q] <= Len(lists[q]) + 1
    <2>1. CASE q = l
      BY <1>5, <1>7, <2>1
    <2>2. CASE q # l
      BY <1>7, <2>2 DEF Passed
    <2>3. QED
      BY <2>1, <2>2
  <1>10. ASSUME NEW q \in 1..2, NEW k \in 1..Len(lists[q])
         PROVE  IF k < a.next[q] THEN lists[q][k].end <= a.at ELSE lists[q][k].start >= a.at
    <2>1. /\ lists[q][k].start \in Nat /\ lists[q][k].end \in Nat
          /\ lists[q][k].start < lists[q][k].end /\ m.next[q] \in Nat /\ k \in Nat
      BY <1>1, SMTT(30) DEF Spans, Tiled
    <2>2. IF k < m.next[q] THEN lists[q][k].end <= m.at ELSE lists[q][k].start >= m.at
      BY DEF Passed
    <2>3. CASE q = l /\ k = next
      BY <1>2, <1>6, <1>7, <2>1, <2>3
    <2>4. CASE ~(q = l /\ k = next)
      <3>1. k < a.next[q] <=> k < m.next[q]
        BY <1>4, <1>7, <2>1, <2>4, SMTT(30)
      <3>2. lists[q][k].end <= span.start \/ span.end <= lists[q][k].start
        BY <1>4, <1>5, <2>4 DEF Tiled
      <3>3. span.start = m.at /\ a.at = span.end
        BY <1>2, <1>4
      <3> HIDE DEF span
      <3>4. QED
        BY <1>1, <1>6, <2>1, <2>2, <3>1, <3>2, <3>3, SMTT(30)
    <2>5. QED
      BY <2>3, <2>4
  <1>11. a.at <= length /\ a.ok
    BY <1>1, <1>2, <1>6
  <1>12. QED
    BY <1>3, <1>8, <1>9, <1>10, <1>11 DEF Passed, a

\* The number of spans two lists have between them.
SpansOf(lists, N) == N = Len(lists[1]) + Len(lists[2])

\* The walk f passes N spans one after the other and ends on the length.
PassesAll(lists, length, N, f) ==
    /\ f[0] = [at |-> 0, next |-> <<1, 1>>, ok |-> TRUE]
    /\ \A n \in 0..N :
           /\ Passed(lists, length, n, f[n])
           /\ n < N => Hit(lists, f[n]) # {} /\ f[n + 1] = Advance(lists, f[n])
    /\ f[N].ok /\ f[N].at = length
    /\ \A l \in 1..2 : f[N].next[l] = Len(lists[l]) + 1

(* A forward merge of two lists that tile a length passes one span after the other. *)
LEMMA MergePasses ==
    ASSUME NEW lists, Spans(lists), NEW length \in Nat, Tiled(lists, length),
           NEW f, IsMerge(lists, f), NEW N \in Nat, SpansOf(lists, N)
    PROVE  PassesAll(lists, length, N, f)
  <1>0. PICK n1 \in Nat, n2 \in Nat : n1 = Len(lists[1]) /\ n2 = Len(lists[2])
    <2>1. 1 \in 1..2 /\ 2 \in 1..2
      OBVIOUS
    <2>2. QED
      BY <2>1 DEF Spans
  <1>1. N = n1 + n2
    BY <1>0 DEF SpansOf
  <1> DEFINE S == {n \in 0..N : Passed(lists, length, n, f[n])}
  <1>2. f[0] = [at |-> 0, next |-> <<1, 1>>, ok |-> TRUE]
        /\ \A n \in Nat : f[n + 1] = Advance(lists, f[n])
    <2>1. \A n \in Nat : f[n] = IF n = 0 THEN [at |-> 0, next |-> <<1, 1>>, ok |-> TRUE]
                                ELSE Advance(lists, f[n - 1])
      BY Zenon DEF IsMerge
    <2>2. ASSUME NEW n \in Nat PROVE f[n + 1] = Advance(lists, f[n])
      <3>1. n + 1 \in Nat /\ n + 1 # 0 /\ (n + 1) - 1 = n
        OBVIOUS
      <3>2. QED
        BY <2>1, <3>1
    <2>3. QED
      BY <2>1, <2>2
  <1>3. Passed(lists, length, 0, f[0])
    <2>1. /\ f[0].at = 0 /\ f[0].ok /\ f[0].next[1] = 1 /\ f[0].next[2] = 1
          /\ f[0] \in Marks
      BY <1>2 DEF Marks
    <2>2. ASSUME NEW l \in 1..2
          PROVE  /\ f[0].next[l] <= Len(lists[l]) + 1
                 /\ \A k \in 1..Len(lists[l]) :
                        IF k < f[0].next[l] THEN lists[l][k].end <= f[0].at
                        ELSE lists[l][k].start >= f[0].at
      <3>1. f[0].next[l] = 1 /\ Len(lists[l]) \in Nat
        BY <2>1 DEF Spans
      <3>2. \A k \in 1..Len(lists[l]) : ~(k < 1) /\ lists[l][k].start \in Nat
        BY DEF Spans
      <3>3. QED
        BY <2>1, <3>1, <3>2
    <2>3. f[0].at <= length /\ f[0].next[1] + f[0].next[2] = 0 + 2
      BY <2>1
    <2>4. QED
      BY Zenon, <2>1, <2>2, <2>3 DEF Passed
  <1>4. ASSUME NEW n \in 0..N, n < N, Passed(lists, length, n, f[n])
        PROVE  f[n].at < length
    <2>1. PICK l \in 1..2 : f[n].next[l] <= Len(lists[l])
      <3>1. /\ f[n].next[1] \in Nat /\ f[n].next[2] \in Nat
            /\ f[n].next[1] + f[n].next[2] = n + 2
        BY <1>4 DEF Passed, Marks
      <3>2. f[n].next[1] <= n1 \/ f[n].next[2] <= n2
        BY <1>1, <1>4, <3>1
      <3>3. QED
        BY <1>0, <3>2
    <2>2. f[n].next[l] \in Nat \ {0} /\ Len(lists[l]) \in Nat /\ f[n].at \in Nat
      BY <1>4 DEF Passed, Marks, Spans
    <2> DEFINE k == f[n].next[l]
    <2>3. k \in 1..Len(lists[l]) /\ ~(k < f[n].next[l])
      BY <2>1, <2>2
    <2>4. /\ lists[l][k].start >= f[n].at
          /\ lists[l][k].start < lists[l][k].end /\ lists[l][k].end <= length
          /\ lists[l][k].start \in Nat /\ lists[l][k].end \in Nat
      BY <1>4, <2>3 DEF Passed, Tiled, Spans
    <2> HIDE DEF k
    <2>5. QED
      BY <2>2, <2>4, SMTT(30)
  <1>5. ASSUME NEW n \in 0..N, n < N, n \in S
        PROVE  n + 1 \in S
    <2>1. n \in Nat /\ Passed(lists, length, n, f[n]) /\ n + 1 \in 0..N
      BY <1>5
    <2>2. Hit(lists, f[n]) # {}
      BY <1>4, <1>5, <2>1, NextSpanBegins
    <2>3. Passed(lists, length, n + 1, Advance(lists, f[n]))
      BY <2>1, <2>2, PassesOne
    <2>4. Passed(lists, length, n + 1, f[n + 1])
      BY <1>2, <2>1, <2>3
    <2>5. QED
      BY <2>1, <2>4
  <1>6. 0..N \subseteq S
    <2>1. 0 \in S
      BY <1>1, <1>3
    <2> HIDE DEF S
    <2>2. N \in Int
      BY <1>1
    <2>3. QED
      BY <1>5, <2>1, <2>2, Upwards, 0 \in Int
  <1>7. Passed(lists, length, N, f[N])
    BY <1>1, <1>6
  <1>8. \A l \in 1..2 : f[N].next[l] = Len(lists[l]) + 1
    <2>1. /\ f[N].next[1] \in Nat /\ f[N].next[2] \in Nat
          /\ f[N].next[1] + f[N].next[2] = N + 2
          /\ f[N].next[1] <= n1 + 1 /\ f[N].next[2] <= n2 + 1
      BY <1>0, <1>7 DEF Passed, Marks
    <2>2. f[N].next[1] = n1 + 1 /\ f[N].next[2] = n2 + 1
      BY <1>1, <2>1
    <2>3. QED
      BY <1>0, <2>2
  <1>9. ~(f[N].at < length)
    <2> SUFFICES ASSUME f[N].at < length PROVE FALSE
      OBVIOUS
    <2>1. Hit(lists, f[N]) # {}
      BY <1>1, <1>7, NextSpanBegins
    <2>2. PICK l \in 1..2 : f[N].next[l] <= Len(lists[l])
      BY <2>1 DEF Hit
    <2>3. Len(lists[l]) \in Nat
      BY DEF Spans
    <2>4. QED
      BY <1>8, <2>2, <2>3
  <1>10. f[N].ok /\ f[N].at <= length /\ f[N].at \in Nat
    BY <1>7 DEF Passed, Marks
  <1>11. f[N].ok /\ f[N].at = length
    <2> DEFINE upto == f[N].at
    <2>1. upto \in Nat /\ upto <= length /\ ~(upto < length)
      BY <1>9, <1>10
    <2> HIDE DEF upto
    <2>2. upto = length
      BY <2>1
    <2>3. QED
      BY <1>10, <2>2 DEF upto
  <1>12. ASSUME NEW n \in 0..N
         PROVE  /\ Passed(lists, length, n, f[n])
                /\ n < N => Hit(lists, f[n]) # {} /\ f[n + 1] = Advance(lists, f[n])
    <2>1. n \in Nat /\ Passed(lists, length, n, f[n])
      BY <1>6
    <2>2. n < N => Hit(lists, f[n]) # {}
      BY <1>4, <2>1, NextSpanBegins
    <2>3. QED
      BY <1>2, <2>1, <2>2
  <1>13. QED
    BY <1>1, <1>2, <1>8, <1>11, <1>12 DEF PassesAll

(* It meets every span and ends on the length. *)
LEMMA MergeMeetsAll ==
    ASSUME NEW lists, Spans(lists), NEW length \in Nat, Tiled(lists, length),
           NEW f, IsMerge(lists, f)
    PROVE  LET last == f[Len(lists[1]) + Len(lists[2])] IN last.ok /\ last.at = length
  <1>0. PICK n1 \in Nat, n2 \in Nat : n1 = Len(lists[1]) /\ n2 = Len(lists[2])
    <2>1. 1 \in 1..2 /\ 2 \in 1..2
      OBVIOUS
    <2>2. QED
      BY <2>1 DEF Spans
  <1>1. PICK N \in Nat : N = n1 + n2
    OBVIOUS
  <1>2. SpansOf(lists, N)
    BY <1>0, <1>1 DEF SpansOf
  <1>3. f[N].ok /\ f[N].at = length
    BY <1>2, MergePasses DEF PassesAll
  <1>4. QED
    BY <1>2, <1>3 DEF SpansOf

\* The spans of a direction, as LaidOut takes them together.
SpanSet(d) ==
    {session.authed[d][k] : k \in DOMAIN session.authed[d]}
        \cup {session.commits[k].idx[1] : k \in Hashes(d)}

(* Two spans that share a byte of a tiled direction are one. *)
LEMMA SharedByte ==
    ASSUME NEW span, IsFiniteSet(span), NEW length \in Nat,
           \A b \in 0..(length - 1) : Cardinality({r \in span : r.start <= b /\ b < r.end}) = 1,
           NEW r \in span, NEW q \in span,
           r.start \in Nat, r.end \in Nat, r.end <= length, r.start < r.end,
           q.start \in Nat, q.end \in Nat, q.end <= length, q.start < q.end
    PROVE  r = q \/ r.end <= q.start \/ q.end <= r.start
  <1> SUFFICES ASSUME ~(r.end <= q.start), ~(q.end <= r.start)
               PROVE  r = q
    OBVIOUS
  <1>1. PICK b \in 0..(length - 1) : /\ r.start <= b /\ b < r.end
                                     /\ q.start <= b /\ b < q.end
    <2>1. CASE r.start <= q.start
      <3>1. q.start \in 0..(length - 1) /\ q.start < r.end
        OBVIOUS
      <3>2. QED
        BY <2>1, <3>1
    <2>2. CASE q.start <= r.start
      <3>1. r.start \in 0..(length - 1) /\ r.start < q.end
        OBVIOUS
      <3>2. QED
        BY <2>2, <3>1
    <2>3. QED
      BY <2>1, <2>2
  <1> DEFINE B == {s \in span : s.start <= b /\ b < s.end}
  <1>2. IsFiniteSet(B) /\ Cardinality(B) = 1
    BY FS_Subset
  <1>3. r \in B /\ q \in B
    BY <1>1
  <1> HIDE DEF B
  <1>4. PICK x : B = {x}
    BY <1>2, FS_Singleton
  <1>5. QED
    BY <1>3, <1>4

(* The spans of a tiled direction are as many as its ranges and commitments, so
   that no two of those have the same. *)
LEMMA SpansDiffer ==
    ASSUME NEW d \in Directions, IsSession(session), LaidOut(d)
    PROVE  /\ IsFiniteSet(SpanSet(d))
           /\ \A j, k \in DOMAIN session.authed[d] :
                  session.authed[d][j] = session.authed[d][k] => j = k
           /\ \A g, h \in Hashes(d) :
                  session.commits[g].idx[1] = session.commits[h].idx[1] => g = h
           /\ \A k \in DOMAIN session.authed[d], h \in Hashes(d) :
                  session.authed[d][k] # session.commits[h].idx[1]
  <1> DEFINE n == Len(session.authed[d])
             Of1 == {1} \X (1..n)
             Of2 == {2} \X Hashes(d)
             place == Of1 \cup Of2
             span(p) == IF p[1] = 1 THEN session.authed[d][p[2]]
                        ELSE session.commits[p[2]].idx[1]
             f == [p \in place |-> span(p)]
  <1>1. n \in Nat /\ DOMAIN session.authed[d] = 1..n
    BY SessionShape
  <1>2. IsFiniteSet(Hashes(d))
    <2>1. DOMAIN session.commits = 1..Len(session.commits) /\ Len(session.commits) \in Nat
      BY SessionShape
    <2>2. IsFiniteSet(1..Len(session.commits))
      BY <2>1, FS_Interval, 1 \in Int, Len(session.commits) \in Int
    <2>3. Hashes(d) \in SUBSET (1..Len(session.commits))
      BY <2>1 DEF Hashes
    <2>4. QED
      BY <2>2, <2>3, FS_Subset
  <1>3. IsFiniteSet(Of1) /\ Cardinality(Of1) = n
    <2>1. IsFiniteSet(1..n) /\ Cardinality(1..n) = n
      <3> HIDE DEF n
      <3>1. IsFiniteSet(1..n) /\ Cardinality(1..n) = IF 1 > n THEN 0 ELSE n - 1 + 1
        BY <1>1, FS_Interval, 1 \in Int, n \in Int
      <3>2. QED
        BY <1>1, <3>1
    <2> HIDE DEF n
    <2>2. IsFiniteSet({1}) /\ Cardinality({1}) = 1
      BY FS_Singleton
    <2>3. IsFiniteSet({1} \X (1..n)) /\ Cardinality({1} \X (1..n)) = 1 * n
      BY <2>1, <2>2, FS_Product, ZenonT(60)
    <2>4. QED
      BY <1>1, <2>3
  <1>4. IsFiniteSet(Of2) /\ Cardinality(Of2) = Cardinality(Hashes(d))
    <2>1. IsFiniteSet({2}) /\ Cardinality({2}) = 1
      BY FS_Singleton
    <2>2. IsFiniteSet({2} \X Hashes(d))
          /\ Cardinality({2} \X Hashes(d)) = 1 * Cardinality(Hashes(d))
      BY <1>2, <2>1, FS_Product
    <2>3. Cardinality(Hashes(d)) \in Nat
      BY <1>2, FS_CardinalityType
    <2>4. QED
      BY <2>2, <2>3
  <1>5. IsFiniteSet(place) /\ Cardinality(place) = n + Cardinality(Hashes(d))
    <2>1. Of1 \cap Of2 = {}
      OBVIOUS
    <2>2. Cardinality(Of1 \cap Of2) = 0
      BY <2>1, FS_EmptySet
    <2>3. Cardinality(Hashes(d)) \in Nat
      BY <1>2, FS_CardinalityType
    <2> HIDE DEF Of1, Of2
    <2>4. /\ IsFiniteSet(Of1 \cup Of2)
          /\ Cardinality(Of1 \cup Of2) =
                 Cardinality(Of1) + Cardinality(Of2) - Cardinality(Of1 \cap Of2)
      BY <1>3, <1>4, FS_Union
    <2>5. QED
      BY <1>1, <1>3, <1>4, <2>2, <2>3, <2>4
  <1>6. f \in Surjection(place, SpanSet(d))
    <2>1. ASSUME NEW p \in place PROVE span(p) \in SpanSet(d)
      <3>1. CASE p \in Of1
        BY <1>1, <3>1 DEF SpanSet
      <3>2. CASE p \in Of2
        BY <3>2 DEF SpanSet
      <3>3. QED
        BY <3>1, <3>2
    <2>2. ASSUME NEW s \in SpanSet(d) PROVE \E p \in place : span(p) = s
      <3>1. CASE \E k \in 1..n : s = session.authed[d][k]
        <4>1. PICK k \in 1..n : s = session.authed[d][k]
          BY <3>1
        <4>2. <<1, k>> \in place /\ span(<<1, k>>) = s
          BY <4>1
        <4>3. QED
          BY <4>2
      <3>2. CASE \E h \in Hashes(d) : s = session.commits[h].idx[1]
        <4>1. PICK h \in Hashes(d) : s = session.commits[h].idx[1]
          BY <3>2
        <4>2. <<2, h>> \in place /\ span(<<2, h>>) = s
          BY <4>1
        <4>3. QED
          BY <4>2
      <3>3. QED
        BY <1>1, <3>1, <3>2 DEF SpanSet
    <2>3. f \in [place -> SpanSet(d)] /\ \A s \in SpanSet(d) : \E p \in place : f[p] = s
      <3> HIDE DEF place, span
      <3> QED
        BY <2>1, <2>2
    <2> HIDE DEF f, place
    <2>4. QED
      BY <2>3 DEF Surjection
  <1>7. Cardinality(SpanSet(d)) = n + Cardinality(Hashes(d))
    BY DEF LaidOut, SpanSet
  <1>8. IsFiniteSet(SpanSet(d)) /\ f \in Injection(place, SpanSet(d))
    <2> HIDE DEF f, place, n
    <2> QED
      BY <1>5, <1>6, <1>7, FS_Surjection
  <1>9. \A p, q \in place : span(p) = span(q) => p = q
    <2>1. \A p, q \in place : f[p] = f[q] => p = q
      <3> HIDE DEF f, place
      <3> QED
        BY <1>8 DEF Injection, IsInjective
    <2> HIDE DEF place, span
    <2>2. QED
      BY <2>1
  <1>10. ASSUME NEW j \in 1..n, NEW k \in 1..n, session.authed[d][j] = session.authed[d][k]
         PROVE  j = k
    <2>1. <<1, j>> \in place /\ <<1, k>> \in place /\ span(<<1, j>>) = span(<<1, k>>)
      BY <1>10
    <2>2. <<1, j>> = <<1, k>>
      <3> HIDE DEF place, span
      <3> QED
        BY <1>9, <2>1
    <2>3. QED
      BY <2>2
  <1>11. ASSUME NEW g \in Hashes(d), NEW h \in Hashes(d),
                session.commits[g].idx[1] = session.commits[h].idx[1]
         PROVE  g = h
    <2>1. <<2, g>> \in place /\ <<2, h>> \in place /\ span(<<2, g>>) = span(<<2, h>>)
      BY <1>11
    <2>2. <<2, g>> = <<2, h>>
      <3> HIDE DEF place, span
      <3> QED
        BY <1>9, <2>1
    <2>3. QED
      BY <2>2
  <1>12. ASSUME NEW k \in 1..n, NEW h \in Hashes(d),
                session.authed[d][k] = session.commits[h].idx[1]
         PROVE  FALSE
    <2>1. <<1, k>> \in place /\ <<2, h>> \in place /\ span(<<1, k>>) = span(<<2, h>>)
      BY <1>12
    <2>2. <<1, k>> = <<2, h>>
      <3> HIDE DEF place, span
      <3> QED
        BY <1>9, <2>1
    <2>3. QED
      BY <2>2
  <1> HIDE DEF n
  <1>13. QED
    BY <1>1, <1>8, <1>10, <1>11, <1>12

(* The two lists of a finished block whose direction was tiled tile it too: the
   block holds each span of the direction once. *)
LEMMA BlockIsTiled ==
    ASSUME RecordInv, phase = "done", NEW d \in Directions, LaidOut(d),
           NEW lists, lists = <<revealed[d], out[d]>>
    PROVE  Spans(lists) /\ Tiled(lists, session.len[d])
  <1> DEFINE length == session.len[d]
             commitment(k) == out[d][k].commitment
             range(l, k) == IF l = 1 THEN session.authed[d][k]
                            ELSE session.commits[commitment(k)].idx[1]
  <1>1. /\ IsSession(session)
        /\ revealed[d] \in Seq(UsizeRange) /\ out[d] \in Seq(Entry)
        /\ AllHeld(d)
    BY DEF RecordInv, Shapes, Blocks, BlockInv
  <1>2. lists[1] = revealed[d] /\ lists[2] = out[d]
    OBVIOUS
  <1>3. /\ length \in Nat /\ session.authed[d] \in Seq(UsizeRange)
        /\ \A j, k \in DOMAIN session.authed[d] :
               j < k => session.authed[d][j].start <= session.authed[d][k].start
    BY <1>1, SMTT(30) DEF IsSession
  <1>4. /\ revealed[d] = session.authed[d]
        /\ {commitment(k) : k \in DOMAIN out[d]} = Hashes(d)
        /\ \A k \in DOMAIN out[d] :
               /\ out[d][k].start = session.commits[commitment(k)].idx[1].start
               /\ out[d][k].end = session.commits[commitment(k)].idx[1].end
        /\ \A j, k \in DOMAIN out[d] : j < k => out[d][j].start <= out[d][k].start
    BY BlocksAreComplete DEF BlocksHoldTheirDirection
  <1>5. \A j, k \in 1..Len(out[d]) : commitment(j) = commitment(k) => j = k
    BY <1>1 DEF AllHeld, Held
  <1>6. /\ DOMAIN out[d] = 1..Len(out[d]) /\ Len(out[d]) \in Nat
        /\ DOMAIN session.authed[d] = 1..Len(session.authed[d])
        /\ Len(session.authed[d]) \in Nat
    BY <1>1, <1>3
  <1> DEFINE n(l) == IF l = 1 THEN Len(session.authed[d]) ELSE Len(out[d])
  <1>7. \A l \in 1..2 : Len(lists[l]) = n(l) /\ n(l) \in Nat
    BY <1>2, <1>4, <1>6, SMTT(30)
  <1>8. ASSUME NEW l \in 1..2, NEW k \in 1..n(l)
        PROVE  /\ range(l, k) \in SpanSet(d)
               /\ lists[l][k].start = range(l, k).start /\ lists[l][k].end = range(l, k).end
    <2>1. CASE l = 1
      BY <1>2, <1>4, <1>6, <2>1, SMTT(30) DEF SpanSet
    <2>2. CASE l = 2
      <3>1. k \in DOMAIN out[d]
        BY <1>6, <2>2
      <3>2. commitment(k) \in Hashes(d)
        BY <1>4, <3>1, SMTT(30)
      <3>3. range(l, k) \in SpanSet(d)
        BY <2>2, <3>2 DEF SpanSet
      <3>4. QED
        BY <1>2, <1>4, <2>2, <3>1, <3>3
    <2>3. QED
      BY <2>1, <2>2
  <1>9. ASSUME NEW l \in 1..2, NEW k \in 1..n(l)
        PROVE  lists[l][k].start \in Nat /\ lists[l][k].end \in Nat
    <2>1. CASE l = 1
      <3>1. revealed[d][k] \in UsizeRange
        BY <1>1, <1>4, <2>1
      <3>2. QED
        BY <1>2, <2>1, <3>1, RangeBounds
    <2>2. CASE l = 2
      <3>1. out[d][k] \in Entry
        BY <1>1, <2>2
      <3>2. QED
        BY <1>2, <2>2, <3>1 DEF Entry
    <2>3. QED
      BY <2>1, <2>2
  <1>10. /\ \A b \in 0..(length - 1) :
                Cardinality({r \in SpanSet(d) : r.start <= b /\ b < r.end}) = 1
         /\ \A r \in SpanSet(d) : r.start < r.end /\ r.end <= length
    BY DEF LaidOut, SpanSet
  <1>11. ASSUME NEW l \in 1..2, NEW m \in 1..2, NEW j \in 1..n(l), NEW k \in 1..n(m),
                range(l, j) = range(m, k)
         PROVE  l = m /\ j = k
    <2>1. \A q \in 1..n(2) : q \in DOMAIN out[d] /\ commitment(q) \in Hashes(d)
      BY <1>4, <1>6
    <2>2. CASE l = 1 /\ m = 1
      BY <1>1, <1>6, <1>11, <2>2, SpansDiffer
    <2>3. CASE l = 2 /\ m = 2
      <3>1. session.commits[commitment(j)].idx[1] = session.commits[commitment(k)].idx[1]
        BY <1>11, <2>3
      <3>2. commitment(j) = commitment(k)
        BY <1>1, <2>1, <2>3, <3>1, SpansDiffer
      <3>3. QED
        BY <1>5, <2>3, <3>2
    <2>4. CASE l = 1 /\ m = 2
      <3>1. j \in DOMAIN session.authed[d] /\ commitment(k) \in Hashes(d)
        BY <1>6, <2>1, <2>4
      <3>2. session.authed[d][j] = session.commits[commitment(k)].idx[1]
        BY <1>11, <2>4
      <3>3. QED
        BY <1>1, <3>1, <3>2, SpansDiffer
    <2>5. CASE l = 2 /\ m = 1
      <3>1. k \in DOMAIN session.authed[d] /\ commitment(j) \in Hashes(d)
        BY <1>6, <2>1, <2>5
      <3>2. session.authed[d][k] = session.commits[commitment(j)].idx[1]
        BY <1>11, <2>5
      <3>3. QED
        BY <1>1, <3>1, <3>2, SpansDiffer
    <2>6. QED
      BY <2>2, <2>3, <2>4, <2>5
  <1>12. IsFiniteSet(SpanSet(d))
    BY <1>1, SpansDiffer
  <1>13. ASSUME NEW l \in 1..2, NEW m \in 1..2, NEW j \in 1..n(l), NEW k \in 1..n(m)
         PROVE  \/ l = m /\ j = k
                \/ lists[l][j].end <= lists[m][k].start
                \/ lists[m][k].end <= lists[l][j].start
    <2> DEFINE r == range(l, j)
               q == range(m, k)
    <2>1. /\ r \in SpanSet(d) /\ q \in SpanSet(d)
          /\ r.start = lists[l][j].start /\ r.end = lists[l][j].end
          /\ q.start = lists[m][k].start /\ q.end = lists[m][k].end
      BY <1>8, SMTT(30)
    <2>2. r.start \in Nat /\ r.end \in Nat /\ q.start \in Nat /\ q.end \in Nat
      BY <1>9, <2>1, ZenonT(60)
    <2>3. r = q => l = m /\ j = k
      <3> HIDE DEF range, n
      <3> QED
        BY <1>11
    <2> HIDE DEF r, q
    <2>4. r.end <= length /\ r.start < r.end /\ q.end <= length /\ q.start < q.end
      BY <1>10, <2>1
    <2> HIDE DEF length
    <2>5. r = q \/ r.end <= q.start \/ q.end <= r.start
      BY <1>3, <1>10, <1>12, <2>1, <2>2, <2>4, SharedByte
    <2>6. QED
      BY <2>1, <2>3, <2>5, SMTT(30)
  <1>14. ASSUME NEW b \in 0..(length - 1)
         PROVE  \E l \in 1..2 : \E k \in 1..n(l) :
                    lists[l][k].start <= b /\ b < lists[l][k].end
    <2>1. PICK r \in SpanSet(d) : r.start <= b /\ b < r.end
      <3> DEFINE B == {r \in SpanSet(d) : r.start <= b /\ b < r.end}
      <3>1. Cardinality(B) = 1
        BY <1>10
      <3>2. B # {}
        <4> HIDE DEF B
        <4> QED
          BY <3>1, FS_EmptySet, SMTT(30)
      <3>3. QED
        BY <3>2
    <2>2. \E l \in 1..2 : \E k \in 1..n(l) : range(l, k) = r
      <3>1. CASE r \in {session.authed[d][k] : k \in DOMAIN session.authed[d]}
        <4>1. PICK k \in 1..n(1) : r = session.authed[d][k]
          BY <1>6, <3>1
        <4>2. range(1, k) = r /\ 1 \in 1..2
          BY <4>1
        <4>3. QED
          BY <4>1, <4>2
      <3>2. CASE r \in {session.commits[k].idx[1] : k \in Hashes(d)}
        <4>1. PICK h \in Hashes(d) : r = session.commits[h].idx[1]
          BY <3>2
        <4>2. PICK k \in DOMAIN out[d] : commitment(k) = h
          BY <1>4
        <4>3. range(2, k) = r /\ 2 \in 1..2 /\ k \in 1..n(2)
          BY <1>6, <4>1, <4>2
        <4>4. QED
          BY <4>3
      <3>3. QED
        BY <3>1, <3>2 DEF SpanSet
    <2>3. PICK l \in 1..2 : \E k \in 1..n(l) : range(l, k) = r
      BY <2>2
    <2>4. PICK k \in 1..n(l) : range(l, k) = r
      BY <2>3, SMTT(30)
    <2>5. lists[l][k].start = r.start /\ lists[l][k].end = r.end
      BY <1>8, <2>4
    <2>6. QED
      BY <2>1, <2>5
  <1>15. ASSUME NEW l \in 1..2
         PROVE  \A j, k \in 1..n(l) : j < k => lists[l][j].start <= lists[l][k].start
    <2>1. CASE l = 1
      BY <1>2, <1>3, <1>4, <1>6, <2>1
    <2>2. CASE l = 2
      BY <1>2, <1>4, <1>6, <2>2, SMTT(30)
    <2>3. QED
      BY <2>1, <2>2
  <1>16. ASSUME NEW l \in 1..2, NEW k \in 1..n(l)
         PROVE  lists[l][k].start < lists[l][k].end /\ lists[l][k].end <= length
    BY <1>8, <1>10
  <1> HIDE DEF n, range, commitment
  <1>17. Spans(lists)
    BY <1>7, <1>9 DEF Spans
  <1>18. Tiled(lists, length)
    BY <1>7, <1>13, <1>14, <1>15, <1>16 DEF Tiled
  <1>19. QED
    BY <1>17, <1>18

(* Whoever laid a direction out, and in whatever order its commitments came, the
   signed block is walked forward once from 0 to the signed length, span by span:
   what the Platform Verifier's coverage check needs (attest.rs 263-284). *)
LEMMA BlockIsWalked ==
    ASSUME RecordInv, phase = "done", NEW d \in Directions, LaidOut(d)
    PROVE  Walks(d, session.len[d])
  <1>1. PICK lists : lists = <<revealed[d], out[d]>>
    OBVIOUS
  <1>2. Spans(lists) /\ Tiled(lists, session.len[d])
    BY <1>1, BlockIsTiled
  <1> DEFINE f == CHOOSE f : IsMerge(lists, f)
  <1>3. IsMerge(lists, f)
    BY <1>2, MergeExists
  <1>4. session.len[d] \in Nat
    BY DEF RecordInv, Shapes, IsSession
  <1> HIDE DEF f
  <1>5. LET last == f[Len(lists[1]) + Len(lists[2])] IN last.ok /\ last.at = session.len[d]
    BY <1>2, <1>3, <1>4, MergeMeetsAll
  <1>6. lists[1] = revealed[d] /\ lists[2] = out[d]
    BY <1>1
  <1> DEFINE last == f[Len(revealed[d]) + Len(out[d])]
  <1>7. Walks(d, session.len[d]) <=> last.ok /\ last.at = session.len[d]
    BY <1>1 DEF Walks, IsMerge, Advance, Hit, f
  <1>8. QED
    BY <1>5, <1>6, <1>7

(* For every session: a finished block whose direction was tiled is walked forward
   once, and ends on the signed length (attest.rs 263-284, 380). *)
THEOREM TiledBlocksAreWalked ==
    Spec => [](phase = "done" => \A d \in Directions : LaidOut(d) => Walks(d, session.len[d]))
  <1>1. RecordInv => (phase = "done" =>
            \A d \in Directions : LaidOut(d) => Walks(d, session.len[d]))
    BY BlockIsWalked
  <1>2. QED
    BY <1>1, RecordInvariance, PTL

-----------------------------------------------------------------------------
(* The ceremony.                                                           *)

LP == INSTANCE LayoutProofs WITH phase <- lphase, i <- li

Stages == {"request", "exchange", "layout", "commit", "record", "done", "failed"}

LayoutRecords == [reveal : Seq(L!Ranges), commit : Seq(L!Ranges), secret : L!Ranges]

\* No constructor has been called.
Idle ==
    /\ lphase = "idle" /\ reveal = <<>> /\ commit = <<>> /\ li = 1 /\ at = 0
    /\ secret = To(0, 0)

\* Who is at which stage, and what has not begun there.
Control ==
    /\ stage \in Stages /\ origin \in {"fixture", "prover", "foreign"}
    /\ job \in 1..4 /\ laying \in Directions
    /\ stage \in {"request", "exchange", "layout", "commit"} => Own /\ RecordInit
    /\ stage \in {"request", "exchange", "layout"} => session = NoSession
    /\ stage = "exchange" => origin = "fixture"
    /\ stage \in {"request", "exchange"} => laying = "Sent"
    /\ stage \notin {"layout", "failed"} => Idle
    /\ phase # "err" => err = "none"

\* Nothing is read that was not written, and the server does not answer before it
\* has the whole request.
Exchanging ==
    /\ ex \in [req : [head : Nat, body : Nat], wrote : Nat, sent : Nat, answered : Nat,
               got : Nat, server : {"reading", "answering", "returned"},
               client : {"sending", "answered"}]
    /\ Whole(ex.req) <= MaxLen
    /\ ex.sent <= ex.wrote /\ ex.wrote <= Whole(ex.req)
    /\ ex.server # "reading" => ex.sent = Whole(ex.req)
    /\ origin = "fixture" /\ stage # "exchange" => ex.sent = Whole(ex.req)

\* What a finished layout of n bytes promises.
Finished(lay, n) ==
    /\ n \in 0..MaxLen
    /\ \A b \in 0..(MaxLen - 1) :
           /\ b < n => (L!In(lay.reveal, b) <=> ~L!In(lay.commit, b))
           /\ b >= n => ~L!In(lay.reveal, b) /\ ~L!In(lay.commit, b)
    /\ \A s \in {lay.reveal, lay.commit} :
           /\ \A k \in DOMAIN s : s[k].start < s[k].end
           /\ \A j, k \in DOMAIN s : j < k => s[j].end <= s[k].start
    /\ lay.secret.start < lay.secret.end =>
           \E k \in DOMAIN lay.commit : lay.commit[k] = lay.secret

\* The layouts, the one being made and the finished ones.
Laying ==
    /\ LP!LayoutInv
    /\ layouts \in [Directions -> LayoutRecords]
    /\ stage \in {"request", "layout"} /\ laying = "Sent" => len = Whole(ex.req)
    /\ stage = "layout" /\ laying = "Received" => Finished(layouts["Sent"], Whole(ex.req))
    /\ stage = "commit" =>
           \E n \in [Directions -> 0..MaxLen] :
               /\ session = [NoSession EXCEPT !.len = n]
               /\ \A d \in Directions : Finished(layouts[d], n[d])

\* Behind the proof, a session of the crate's own is what its layouts made it.
Proved ==
    Own /\ (stage \in {"record", "done"} \/ phase # "lengths") =>
        /\ \A d \in Directions : /\ Finished(layouts[d], session.len[d])
                                 /\ session.authed[d] = RangeSet(layouts[d].reveal)
        /\ session.commits \in SetToSeqs(transcript_commit_config)
        /\ origin = "fixture" => \A j, k \in DOMAIN session.commits :
                                     j < k => Before(session.commits[j], session.commits[k])
        /\ openings = {Opening(session.commits[n], n) : n \in DOMAIN session.commits}

CeremonyInv == RecordInv /\ Control /\ Exchanging /\ Laying /\ Proved

-----------------------------------------------------------------------------
(* Range sets.                                                             *)

RunOrder(s) == {p \in Runs(s) \X Runs(s) : p[1].start < p[2].start}

(* A run is a range of the direction, not empty. *)
LEMMA RunBounds ==
    ASSUME NEW s, NEW r \in Runs(s)
    PROVE  /\ r.start \in Nat /\ r.end \in Nat /\ r.start < r.end /\ r.end <= MaxLen
           /\ r = To(r.start, r.end)
           /\ \A b \in Nat : r.start <= b /\ b < r.end => L!In(s, b)
           /\ ~L!In(s, r.end)
           /\ r.start = 0 \/ ~L!In(s, r.start - 1)
  <1>1. r \in L!Ranges /\ MaxLen \in Nat
    BY LimitsAssumption DEF Runs
  <1>2. /\ r.start \in 0..MaxLen /\ r.end \in 0..MaxLen
        /\ r = To(r.start, r.end)
    BY <1>1 DEF L!Ranges, To
  <1>3. /\ r.start < r.end
        /\ \A b \in r.start..(r.end - 1) : L!In(s, b)
        /\ ~L!In(s, r.end)
        /\ r.start = 0 \/ ~L!In(s, r.start - 1)
    BY DEF Runs
  <1>4. \A b \in Nat : r.start <= b /\ b < r.end => b \in r.start..(r.end - 1)
    BY <1>1, <1>2
  <1>5. QED
    BY <1>1, <1>2, <1>3, <1>4

(* Two runs that share a byte, or the place where they begin, are one. *)
LEMMA RunsApart ==
    ASSUME NEW s, NEW r \in Runs(s), NEW q \in Runs(s), NEW b \in Nat,
           r.start <= b, b < r.end, q.start <= b, b < q.end
    PROVE  r = q
  <1>1. /\ r.start \in Nat /\ r.end \in Nat /\ q.start \in Nat /\ q.end \in Nat
        /\ r = To(r.start, r.end) /\ q = To(q.start, q.end)
    BY RunBounds
  <1>2. ASSUME NEW x \in Runs(s), NEW y \in Runs(s), x.start <= b, b < x.end,
               y.start <= b, b < y.end
        PROVE  ~(x.end < y.end) /\ ~(y.start < x.start)
    <2>1. x.start \in Nat /\ x.end \in Nat /\ y.start \in Nat /\ y.end \in Nat
      BY RunBounds
    <2>2. ASSUME x.end < y.end PROVE FALSE
      <3>1. y.start <= x.end /\ x.end < y.end
        BY <1>2, <2>1, <2>2
      <3>2. L!In(s, x.end)
        BY <2>1, <3>1, RunBounds
      <3>3. QED
        BY <3>2, RunBounds
    <2>3. ASSUME y.start < x.start PROVE FALSE
      <3>1. x.start - 1 \in Nat /\ y.start <= x.start - 1 /\ x.start - 1 < y.end /\ x.start # 0
        BY <1>2, <2>1, <2>3
      <3>2. L!In(s, x.start - 1)
        BY <3>1, RunBounds
      <3>3. QED
        BY <3>1, <3>2, RunBounds
    <2>4. QED
      BY <2>2, <2>3
  <1>3. ~(r.end < q.end) /\ ~(q.start < r.start) /\ ~(q.end < r.end) /\ ~(r.start < q.start)
    BY <1>2
  <1>4. r.start = q.start /\ r.end = q.end
    BY <1>1, <1>3
  <1>5. QED
    BY <1>1, <1>4

(* The runs of a range set can be iterated upwards. *)
LEMMA RunsAreOrdered ==
    ASSUME NEW s
    PROVE  IsFiniteSet(Runs(s)) /\ StrictOrder(RunOrder(s), Runs(s))
  <1>1. \A r, q \in Runs(s) : r.start = q.start => r = q
    <2> SUFFICES ASSUME NEW r \in Runs(s), NEW q \in Runs(s), r.start = q.start PROVE r = q
      OBVIOUS
    <2>1. r.start \in Nat /\ r.start < r.end /\ q.start < q.end
      BY RunBounds
    <2>2. r.start <= r.start /\ q.start <= r.start /\ r.start < q.end
      BY <2>1
    <2>3. QED
      BY <2>1, <2>2, RunsApart
  <1>2. \A r \in Runs(s) : r.start \in Nat /\ r.start \in 0..MaxLen
    <2> SUFFICES ASSUME NEW r \in Runs(s) PROVE r.start \in Nat /\ r.start \in 0..MaxLen
      OBVIOUS
    <2>1. r.start \in Nat /\ r.end \in Nat /\ r.start < r.end /\ r.end <= MaxLen
      BY RunBounds
    <2>2. QED
      BY <2>1, LimitsAssumption
  <1>3. IsFiniteSet(Runs(s))
    <2>1. [r \in Runs(s) |-> r.start] \in Injection(Runs(s), 0..MaxLen)
      BY <1>1, <1>2 DEF Injection, IsInjective
    <2>2. IsFiniteSet(0..MaxLen)
      <3>1. 0 \in Int /\ MaxLen \in Int
        BY LimitsAssumption
      <3>2. QED
        BY <3>1, FS_Interval
    <2>3. QED
      BY <2>1, <2>2, FS_Injection
  <1>4. \A r, q \in Runs(s) : <<r, q>> \in RunOrder(s) <=> r.start < q.start
    BY DEF RunOrder
  <1>5. QED
    BY <1>1, <1>2, <1>3, <1>4 DEF StrictOrder

(* The iteration of a range set gives each of its runs once, upwards. *)
LEMMA RangeSetIterates ==
    ASSUME NEW s
    PROVE  /\ Enumerates(RangeSet(s), Runs(s))
           /\ \A j, k \in DOMAIN RangeSet(s) :
                  j < k => RangeSet(s)[j].start < RangeSet(s)[k].start
  <1> DEFINE Up(t) == \A j, k \in DOMAIN t : j < k => t[j].start < t[k].start
  <1>1. \A t : t \in SetToSeqs(Runs(s)) <=> Enumerates(t, Runs(s))
    BY DEF SetToSeqs, Enumerates
  <1>2. PICK t : Enumerates(t, Runs(s)) /\ RisesBy(RunOrder(s), t)
    BY RunsAreOrdered, OrderedEnumeration
  <1>3. Up(t)
    BY <1>2 DEF RisesBy, RunOrder
  <1>4. RangeSet(s) = CHOOSE u \in SetToSeqs(Runs(s)) : Up(u)
    BY DEF RangeSet
  <1> HIDE DEF Up
  <1>5. RangeSet(s) \in SetToSeqs(Runs(s)) /\ Up(RangeSet(s))
    BY <1>1, <1>2, <1>3, <1>4
  <1>6. QED
    BY <1>1, <1>5 DEF Up

(* What it gives is what a session has of a direction's revealed ranges. *)
LEMMA RangeSetIsAuthed ==
    ASSUME NEW s
    PROVE  /\ RangeSet(s) \in Seq(UsizeRange)
           /\ \A j, k \in DOMAIN RangeSet(s) :
                  j < k => RangeSet(s)[j].start <= RangeSet(s)[k].start
  <1>1. /\ Cardinality(Runs(s)) \in Nat
        /\ DOMAIN RangeSet(s) = 1..Cardinality(Runs(s))
        /\ RangeSet(s) \in [1..Cardinality(Runs(s)) -> Runs(s)]
    BY RunsAreOrdered, RangeSetIterates, EnumeratesAll DEF Enumerates
  <1>2. \A r \in Runs(s) : r \in UsizeRange
    <2> SUFFICES ASSUME NEW r \in Runs(s) PROVE r \in UsizeRange
      OBVIOUS
    <2>1. r.start \in Nat /\ r.end \in Nat /\ r.start < r.end /\ r = To(r.start, r.end)
      BY RunBounds
    <2>2. To(r.start, r.end) \in UsizeRange
      BY <2>1 DEF To, UsizeRange
    <2>3. QED
      BY <2>1, <2>2
  <1>3. RangeSet(s) \in [1..Cardinality(Runs(s)) -> UsizeRange]
    BY <1>1, <1>2
  <1>4. RangeSet(s) \in Seq(UsizeRange)
    BY <1>1, <1>3
  <1>5. \A k \in DOMAIN RangeSet(s) : RangeSet(s)[k].start \in Nat
    BY <1>1, RunBounds
  <1>6. QED
    BY <1>1, <1>4, <1>5, RangeSetIterates

-----------------------------------------------------------------------------
(* The commitments.                                                        *)

\* What was committed in a direction, as the set of its ranges.
Committed(d) == {layouts[d].commit[k] : k \in DOMAIN layouts[d].commit}

\* What has been laid out can be proved.
Committing == /\ layouts \in [Directions -> LayoutRecords]
              /\ \E n \in [Directions -> 0..MaxLen] :
                     \A d \in Directions : Finished(layouts[d], n[d])

CommitOrder ==
    {p \in transcript_commit_config \X transcript_commit_config : Before(p[1], p[2])}

(* The commitments are the hashes of the ranges committed. *)
LEMMA ConfigIs ==
    \A c : c \in transcript_commit_config <=>
               \E d \in Directions : \E r \in Committed(d) : c = Hash(d, r)
  BY DEF transcript_commit_config, Committed

(* A committed range is one of its direction, not empty, and begins where no other
   does. *)
LEMMA CommittedRanges ==
    ASSUME Committing, NEW d \in Directions, NEW r \in Committed(d)
    PROVE  /\ r \in L!Ranges /\ r.start \in Nat /\ r.end \in Nat /\ r.end <= MaxLen
           /\ r = To(r.start, r.end)
           /\ r.start < r.end
           /\ \A q \in Committed(d) : q = r \/ r.end <= q.start \/ q.end <= r.start
  <1>1. layouts[d].commit \in Seq(L!Ranges)
    BY DEF Committing, LayoutRecords
  <1>2. PICK commits : commits = layouts[d].commit
    OBVIOUS
  <1>3. DOMAIN commits = 1..Len(commits) /\ Len(commits) \in Nat
        /\ \A k \in DOMAIN commits : commits[k] \in L!Ranges
    BY <1>1, <1>2
  <1>4. \A k \in DOMAIN commits :
            /\ commits[k].start < commits[k].end
            /\ \A j \in DOMAIN commits : j < k => commits[j].end <= commits[k].start
    BY <1>2 DEF Committing, Finished
  <1>5. PICK k \in DOMAIN commits : commits[k] = r
    BY <1>2 DEF Committed
  <1>6. r \in L!Ranges
    BY <1>3, <1>5
  <1>7. ASSUME NEW q \in Committed(d)
        PROVE  q = r \/ r.end <= q.start \/ q.end <= r.start
    <2>1. PICK j \in DOMAIN commits : commits[j] = q
      BY <1>2 DEF Committed
    <2>2. j < k \/ k < j \/ j = k
      BY <1>3
    <2>3. QED
      BY <1>4, <1>5, <2>1, <2>2
  <1>8. r.start \in Nat /\ r.end \in Nat /\ r.end <= MaxLen /\ r = To(r.start, r.end)
    BY <1>6, LimitsAssumption DEF L!Ranges, To
  <1>9. QED
    BY <1>4, <1>5, <1>6, <1>7, <1>8

(* There are finitely many, and the generator's key tells them apart. *)
LEMMA CommitsAreOrdered ==
    ASSUME Committing
    PROVE  /\ IsFiniteSet(transcript_commit_config)
           /\ StrictOrder(CommitOrder, transcript_commit_config)
  <1>1. ASSUME NEW d \in Directions
        PROVE  IsFiniteSet({Hash(d, r) : r \in Committed(d)})
    <2>1. PICK hashes : hashes = {Hash(d, r) : r \in Committed(d)}
      OBVIOUS
    <2>2. PICK commits : commits = layouts[d].commit
      OBVIOUS
    <2>3. DOMAIN commits = 1..Len(commits) /\ Len(commits) \in Nat
      BY <2>2 DEF Committing, LayoutRecords
    <2>4. IsFiniteSet(DOMAIN commits)
      <3>1. 1 \in Int /\ Len(commits) \in Int
        BY <2>3
      <3>2. QED
        BY <2>3, <3>1, FS_Interval
    <2>5. [k \in DOMAIN commits |-> Hash(d, commits[k])] \in Surjection(DOMAIN commits, hashes)
      BY <2>1, <2>2 DEF Surjection, Committed
    <2>6. QED
      BY <2>1, <2>4, <2>5, FS_Surjection
  <1>2. transcript_commit_config =
            {Hash("Sent", r) : r \in Committed("Sent")}
            \cup {Hash("Received", r) : r \in Committed("Received")}
    BY ConfigIs DEF Directions
  <1>3. IsFiniteSet(transcript_commit_config)
    <2>1. /\ IsFiniteSet({Hash("Sent", r) : r \in Committed("Sent")})
          /\ IsFiniteSet({Hash("Received", r) : r \in Committed("Received")})
      BY <1>1 DEF Directions
    <2>2. QED
      BY <1>2, <2>1, FS_Union
  <1>4. ASSUME NEW b \in transcript_commit_config, NEW c \in transcript_commit_config
        PROVE  <<b, c>> \in CommitOrder <=> Before(b, c)
    BY DEF CommitOrder
  <1>5. ASSUME NEW c \in transcript_commit_config
        PROVE  /\ c.dir \in Directions /\ c.idx[1] \in Committed(c.dir)
               /\ c.idx[1].start \in Nat
               /\ c = Hash(c.dir, c.idx[1])
    <2>1. PICK d \in Directions : \E r \in Committed(d) : c = Hash(d, r)
      BY ConfigIs
    <2>2. PICK r \in Committed(d) : c = Hash(d, r)
      BY <2>1
    <2>3. c.dir = d /\ c.idx[1] = r
      BY <2>2 DEF Hash
    <2>4. QED
      BY <2>2, <2>3, CommittedRanges
  <1>6. ASSUME NEW b \in transcript_commit_config, NEW c \in transcript_commit_config
        PROVE  b = c \/ Before(b, c) \/ Before(c, b)
    <2>1. b.dir # c.dir => Before(b, c) \/ Before(c, b)
      BY <1>5 DEF Before, Directions
    <2>2. b.dir = c.dir /\ b.idx[1].start = c.idx[1].start => b = c
      <3> SUFFICES ASSUME b.dir = c.dir, b.idx[1].start = c.idx[1].start
                   PROVE  b.idx[1] = c.idx[1]
        BY <1>5
      <3> DEFINE r == b.idx[1]
                 q == c.idx[1]
      <3>1. b.dir \in Directions /\ r \in Committed(b.dir) /\ q \in Committed(b.dir)
        BY <1>5
      <3>2. r.start < r.end /\ q.start < q.end /\ r.start \in Nat /\ r.end \in Nat /\ q.end \in Nat
        BY <3>1, CommittedRanges
      <3>3. q = r \/ r.end <= q.start \/ q.end <= r.start
        BY <3>1, CommittedRanges
      <3>4. QED
        BY <3>2, <3>3
    <2>3. b.dir = c.dir /\ b.idx[1].start # c.idx[1].start => Before(b, c) \/ Before(c, b)
      BY <1>5 DEF Before
    <2>4. QED
      BY <2>1, <2>2, <2>3
  <1>7. ASSUME NEW c \in transcript_commit_config
        PROVE  ~Before(c, c)
    BY <1>5 DEF Before
  <1>8. ASSUME NEW a \in transcript_commit_config, NEW b \in transcript_commit_config,
               NEW c \in transcript_commit_config, Before(a, b), Before(b, c)
        PROVE  Before(a, c)
    BY <1>5, <1>8 DEF Before
  <1>9. QED
    BY <1>3, <1>4, <1>6, <1>7, <1>8 DEF StrictOrder

(* The order in which they are proved: every commitment once, and the generator's
   in the order of its key. *)
LEMMA ProvedInOrder ==
    ASSUME Committing, NEW s \in SetToSeqs(transcript_commit_config)
    PROVE  /\ Enumerates(s, transcript_commit_config)
           /\ Enumerates(ordered(s), transcript_commit_config)
           /\ \A j, k \in DOMAIN ordered(s) : j < k => Before(ordered(s)[j], ordered(s)[k])
  <1> DEFINE Up(t) == \A j, k \in DOMAIN t : j < k => Before(t[j], t[k])
  <1>1. \A t : t \in SetToSeqs(transcript_commit_config) <=> Enumerates(t, transcript_commit_config)
    BY DEF SetToSeqs, Enumerates
  <1>2. {s[k] : k \in DOMAIN s} = transcript_commit_config
    BY <1>1, CommitsAreOrdered, EnumeratesAll
  <1>3. PICK t : Enumerates(t, transcript_commit_config) /\ RisesBy(CommitOrder, t)
    BY CommitsAreOrdered, OrderedEnumeration
  <1>4. Up(t)
    BY <1>3 DEF RisesBy, CommitOrder
  <1>5. ordered(s) = CHOOSE u \in SetToSeqs(transcript_commit_config) : Up(u)
    BY <1>2 DEF ordered
  <1> HIDE DEF Up
  <1>6. ordered(s) \in SetToSeqs(transcript_commit_config) /\ Up(ordered(s))
    BY <1>1, <1>3, <1>4, <1>5
  <1>7. QED
    BY <1>1, <1>6 DEF Up

(* Such a list is what a session has of its commitments. *)
LEMMA CommitsAreListed ==
    ASSUME Committing, NEW commits, Enumerates(commits, transcript_commit_config)
    PROVE  commits \in Seq(TranscriptCommitment)
  <1>1. ASSUME NEW d \in Directions, NEW r \in Committed(d)
        PROVE  Hash(d, r) \in TranscriptCommitment
    <2>1. r.start \in Nat /\ r.end \in Nat /\ r.start < r.end /\ r = To(r.start, r.end)
      BY CommittedRanges
    <2>2. r \in UsizeRange
      <3>1. To(r.start, r.end) \in UsizeRange
        BY <2>1 DEF To, UsizeRange
      <3>2. QED
        BY <2>1, <3>1
    <2>3. <<r>> \in Seq(UsizeRange)
      BY <2>2
    <2>4. PICK idx : idx = <<r>>
      OBVIOUS
    <2>5. Hash(d, r) = [kind |-> "Hash", dir |-> d, alg |-> "SHA256", idx |-> idx, bytes |-> 32]
      BY <2>4 DEF Hash
    <2>6. idx \in Seq(UsizeRange)
      BY <2>3, <2>4
    <2>7. QED
      BY <2>5, <2>6 DEF TranscriptCommitment
  <1>2. transcript_commit_config \subseteq TranscriptCommitment
    BY <1>1, ConfigIs
  <1>3. Cardinality(transcript_commit_config) \in Nat
    BY CommitsAreOrdered, FS_CardinalityType
  <1>4. commits \in [1..Cardinality(transcript_commit_config) -> TranscriptCommitment]
    BY <1>2 DEF Enumerates
  <1>5. QED
    BY <1>3, <1>4

-----------------------------------------------------------------------------
(* The steps.                                                              *)

(* A step that leaves the record alone keeps its invariant. *)
LEMMA RecordStays == RecordInv /\ UNCHANGED recordVars => RecordInv'
  BY RecordKept DEF vars, recordVars

(* A session of which nothing is recorded yet. *)
LEMMA RecordBegins == IsSession(session) /\ RecordInit => RecordInv
  BY RecordStart DEF RecordInit

(* A step that leaves the layout alone keeps its invariant. *)
LEMMA LayoutStays == LP!LayoutInv /\ UNCHANGED layoutVars => LP!LayoutInv'
  BY LimitsAssumption, LP!LayoutStep DEF LP!vars, layoutVars

(* A layout of which nothing is stated yet. *)
LEMMA LayoutBegins == Idle /\ len \in 0..MaxLen => LP!LayoutInv
  BY LimitsAssumption, LP!LayoutStart DEF Idle, LP!Init, LP!To, To

(* What was proved stays so while the session, its layouts and its openings do. *)
LEMMA ProvedStays ==
    ASSUME Proved, UNCHANGED <<session, layouts, openings, origin>>,
           Own /\ (stage' \in {"record", "done"} \/ phase' # "lengths") =>
               stage \in {"record", "done"} \/ phase # "lengths"
    PROVE  Proved'
  BY DEF Proved, Own, transcript_commit_config

(* A step that moves on to another stage, and at most judges a text. *)
LEMMA StageStep ==
    ASSUME CeremonyInv,
           UNCHANGED <<recordVars, ex, layoutVars, origin, job, laying, layouts, openings>>,
           \/ stage' = stage
           \/ stage = "request" /\ stage' \in {"layout", "failed"}
           \/ stage = "layout" /\ stage' = "failed"
           \/ stage = "record" /\ stage' \in {"done", "failed"}
    PROVE  CeremonyInv'
  <1>1. RecordInv'
    BY RecordStays DEF CeremonyInv
  <1>2. Control'
    BY DEF CeremonyInv, Control, Stages, Idle, RecordInit, Own, recordVars, layoutVars
  <1>3. Exchanging'
    BY DEF CeremonyInv, Control, Exchanging
  <1>4. LP!LayoutInv'
    BY LayoutStays DEF CeremonyInv, Laying
  <1>5. Laying'
    <2>1. Laying
      BY DEF CeremonyInv
    <2>2. laying' = laying /\ layouts' = layouts /\ session' = session /\ len' = len /\ ex' = ex
      BY DEF recordVars, layoutVars
    <2>3. stage' = "commit" => stage = "commit"
      OBVIOUS
    <2>4. stage' \in {"request", "layout"} => stage \in {"request", "layout"}
      OBVIOUS
    <2>5. laying = "Received" /\ stage' = "layout" => stage = "layout"
      BY DEF CeremonyInv, Control
    <2>6. QED
      BY <1>4, <2>1, <2>2, <2>3, <2>4, <2>5 DEF Laying
  <1>6. Proved'
    <2>1. stage' \in {"record", "done"} => stage \in {"record", "done"}
      BY DEF CeremonyInv, Control
    <2>2. phase' = phase
      BY DEF recordVars
    <2>3. QED
      BY <2>1, <2>2, ProvedStays DEF CeremonyInv, recordVars
  <1>7. QED
    BY <1>1, <1>2, <1>3, <1>5, <1>6 DEF CeremonyInv

(* The smaller of two. *)
LEMMA MinOfTwo ==
    ASSUME NEW a \in Int, NEW b \in Int
    PROVE  Min({a, b}) \in Int /\ Min({a, b}) <= a /\ Min({a, b}) <= b
  <1>1. \E x \in {a, b} : \A y \in {a, b} : x <= y
    BY a <= b \/ b <= a
  <1>2. Min({a, b}) \in {a, b} /\ \A y \in {a, b} : Min({a, b}) <= y
    BY <1>1 DEF Min
  <1>3. QED
    BY <1>2

(* The two ends of the pipe never get ahead of one another. *)
LEMMA ExchangeKeeps ==
    ASSUME Exchanging, ExchangeStep, stage = "exchange", UNCHANGED <<origin, stage>>
    PROVE  Exchanging'
  <1> DEFINE Shape == [req : [head : Nat, body : Nat], wrote : Nat, sent : Nat,
                       answered : Nat, got : Nat,
                       server : {"reading", "answering", "returned"},
                       client : {"sending", "answered"}]
  <1>1. /\ ex \in Shape /\ Whole(ex.req) \in Nat /\ Whole(ex.req) <= MaxLen
        /\ ex.req.head \in Nat /\ ex.req.body \in Nat /\ Whole(ex.req) = ex.req.head + ex.req.body
        /\ ex.sent \in Nat /\ ex.wrote \in Nat /\ ex.answered \in Nat /\ ex.got \in Nat
        /\ ex.sent <= ex.wrote /\ ex.wrote <= Whole(ex.req)
        /\ ex.server # "reading" => ex.sent = Whole(ex.req)
        /\ {Pipe, Buf, Answer} \subseteq Nat
    BY PipeAssumption DEF Exchanging, Whole
  <1>2. SUFFICES /\ ex' \in Shape /\ ex'.req = ex.req
                 /\ ex'.sent <= ex'.wrote /\ ex'.wrote <= Whole(ex.req)
                 /\ ex'.server # "reading" => ex'.sent = Whole(ex.req)
    BY <1>1 DEF Exchanging
  <1>3. CASE ClientWrite
    <2> DEFINE left == Whole(ex.req) - ex.wrote
               room == Pipe - (ex.wrote - ex.sent)
    <2>1. left \in Int /\ room \in Int
      BY <1>1
    <2>2. PICK n \in 1..Min({left, room}) : ex' = [ex EXCEPT !.wrote = @ + n]
      BY <1>3 DEF ClientWrite
    <2>3. Min({left, room}) \in Int /\ Min({left, room}) <= left
      BY <2>1, MinOfTwo
    <2>4. n \in Nat /\ n >= 1 /\ n <= Whole(ex.req) - ex.wrote
      BY <1>1, <2>1, <2>2, <2>3
    <2>5. QED
      BY <1>1, <2>2, <2>4
  <1>4. CASE ServerRead
    <2> DEFINE more == ex.wrote - ex.sent
    <2>1. more \in Int /\ Buf \in Int
      BY <1>1
    <2>2. PICK n \in 1..Min({more, Buf}) :
             ex' = [ex EXCEPT !.sent = @ + n,
                              !.server = IF Complete(ex.req, ex.sent + n) THEN "answering" ELSE @]
      BY <1>4 DEF ServerRead
    <2>3. Min({more, Buf}) \in Int /\ Min({more, Buf}) <= more
      BY <2>1, MinOfTwo
    <2>4. n \in Nat /\ n >= 1 /\ n <= ex.wrote - ex.sent
      BY <1>1, <2>1, <2>2, <2>3
    <2>5. Complete(ex.req, ex.sent + n) => ex.sent + n = Whole(ex.req)
      BY <1>1, <2>4 DEF Complete, declared_length
    <2>6. ex.server = "reading"
      BY <1>4 DEF ServerRead
    <2>7. PICK server : server = IF Complete(ex.req, ex.sent + n) THEN "answering" ELSE ex.server
      OBVIOUS
    <2>8. /\ ex' = [ex EXCEPT !.sent = ex.sent + n, !.server = server]
          /\ (server = "answering" /\ ex.sent + n = Whole(ex.req)) \/ server = "reading"
      BY <2>2, <2>5, <2>6, <2>7
    <2>9. ex.sent + n \in Nat /\ ex.sent + n <= ex.wrote
      BY <1>1, <2>4
    <2>10. QED
      BY <1>1, <2>8, <2>9
  <1>5. CASE ServerWrite
    <2> DEFINE left == Answer - ex.answered
               room == Pipe - (ex.answered - ex.got)
    <2>1. left \in Int /\ room \in Int
      BY <1>1
    <2>2. PICK n \in 1..Min({left, room}) : ex' = [ex EXCEPT !.answered = @ + n]
      BY <1>5 DEF ServerWrite
    <2>3. Min({left, room}) \in Int
      BY <2>1, MinOfTwo
    <2>4. n \in Nat
      BY <2>2, <2>3
    <2>5. QED
      BY <1>1, <2>2, <2>4
  <1>6. CASE ServerShutdown
    BY <1>1, <1>6 DEF ServerShutdown
  <1>7. CASE ClientRead
    <2>1. PICK n \in 1..(ex.answered - ex.got) :
             ex' = [ex EXCEPT !.got = @ + n,
                              !.client = IF ex.got + n = Answer THEN "answered" ELSE @]
      BY <1>7 DEF ClientRead
    <2>2. n \in Nat
      BY <1>1, <2>1
    <2>3. PICK client : client = IF ex.got + n = Answer THEN "answered" ELSE ex.client
      OBVIOUS
    <2>4. ex' = [ex EXCEPT !.got = ex.got + n, !.client = client] /\ ex.got + n \in Nat
          /\ client \in {"sending", "answered"}
      BY <1>1, <2>1, <2>2, <2>3
    <2>5. QED
      BY <1>1, <2>4
  <1>8. QED
    BY <1>3, <1>4, <1>5, <1>6, <1>7 DEF ExchangeStep

(* The exchange goes on. *)
LEMMA SendingStep == ASSUME CeremonyInv, Sending PROVE CeremonyInv'
  <1>1. /\ stage = "exchange" /\ stage' = "exchange" /\ ExchangeStep
        /\ UNCHANGED <<recordVars, layoutVars, ceremony, stage, laying, layouts, openings>>
    BY DEF Sending
  <1>2. RecordInv'
    BY <1>1, RecordStays DEF CeremonyInv
  <1>3. Control'
    BY <1>1 DEF CeremonyInv, Control, Stages, Idle, RecordInit, Own, recordVars, layoutVars,
                ceremony
  <1>4. Exchanging'
    BY <1>1, ExchangeKeeps DEF CeremonyInv, ceremony
  <1>5. Laying'
    <2>1. LP!LayoutInv'
      BY <1>1, LayoutStays DEF CeremonyInv, Laying
    <2>2. QED
      BY <1>1, <2>1 DEF CeremonyInv, Laying
  <1>6. Proved'
    BY <1>1, ProvedStays DEF CeremonyInv, recordVars, ceremony
  <1>7. QED
    BY <1>2, <1>3, <1>4, <1>5, <1>6 DEF CeremonyInv

(* The exchange returns, and what it put on the wire is laid out. *)
LEMMA ExchangedStep == ASSUME CeremonyInv, Exchanged PROVE CeremonyInv'
  <1>1. /\ stage = "exchange" /\ stage' = "layout" /\ len' = ex.sent /\ ExchangeReturns
        /\ UNCHANGED <<recordVars, ex, lphase, reveal, li, at, commit, secret, ceremony,
                       laying, layouts, openings>>
    BY DEF Exchanged
  <1>2. ex.sent = Whole(ex.req) /\ Whole(ex.req) \in 0..MaxLen /\ origin = "fixture"
    <2>1. ex.sent = Whole(ex.req) /\ origin = "fixture"
      BY <1>1 DEF CeremonyInv, Exchanging, Control, ExchangeReturns
    <2>2. Whole(ex.req) \in Nat /\ Whole(ex.req) <= MaxLen
      BY DEF CeremonyInv, Exchanging, Whole
    <2>3. QED
      BY <2>1, <2>2, LimitsAssumption
  <1>3. RecordInv'
    BY <1>1, RecordStays DEF CeremonyInv
  <1>4. Control'
    BY <1>1 DEF CeremonyInv, Control, Stages, Idle, RecordInit, Own, recordVars, ceremony
  <1>5. Exchanging'
    BY <1>1, <1>2 DEF CeremonyInv, Exchanging, ceremony
  <1>6. Laying'
    <2>1. Idle' /\ len' \in 0..MaxLen
      BY <1>1, <1>2 DEF CeremonyInv, Control, Idle
    <2>2. (Idle /\ len \in 0..MaxLen => LP!LayoutInv)'
      BY LayoutBegins, PTL
    <2>3. LP!LayoutInv'
      BY <2>1, <2>2
    <2>4. laying' = "Sent" /\ len' = Whole(ex'.req)
      BY <1>1, <1>2 DEF CeremonyInv, Control
    <2>5. QED
      BY <1>1, <2>3, <2>4 DEF CeremonyInv, Laying
  <1>7. Proved'
    BY <1>1, ProvedStays DEF CeremonyInv, recordVars, ceremony
  <1>8. QED
    BY <1>3, <1>4, <1>5, <1>6, <1>7 DEF CeremonyInv

(* The actions of Layout do not depend on where they are taken from. *)
LEMMA SameLayout ==
    /\ L!token_request <=> LP!token_request
    /\ L!token_response <=> LP!token_response
    /\ L!identity_request <=> LP!identity_request
    /\ L!identity_response <=> LP!identity_response
    /\ L!SortByStart <=> LP!SortByStart
    /\ L!WalkRange <=> LP!WalkRange
    /\ L!WalkEnd <=> LP!WalkEnd
  <1> USE DEF L!revealing, LP!revealing, L!Refuse, LP!Refuse, L!To, LP!To
  <1>1. L!token_request <=> LP!token_request
    BY DEF L!token_request, LP!token_request
  <1>2. L!token_response <=> LP!token_response
    BY DEF L!token_response, LP!token_response
  <1>3. L!identity_request <=> LP!identity_request
    BY DEF L!identity_request, LP!identity_request
  <1>4. L!identity_response <=> LP!identity_response
    BY DEF L!identity_response, LP!identity_response, L!Ranges, LP!Ranges
  <1>5. L!SortByStart <=> LP!SortByStart
    BY DEF L!SortByStart, LP!SortByStart, L!IsPermutation, LP!IsPermutation,
           L!Ascending, LP!Ascending
  <1>6. L!WalkRange <=> LP!WalkRange
    BY DEF L!WalkRange, LP!WalkRange
  <1>7. L!WalkEnd <=> LP!WalkEnd
    BY DEF L!WalkEnd, LP!WalkEnd
  <1>8. QED
    BY <1>1, <1>2, <1>3, <1>4, <1>5, <1>6, <1>7

(* A constructor is one of the four, whatever it is called for. *)
LEMMA ConstructIs ==
    ASSUME Control, Construct
    PROVE  L!token_request \/ L!token_response \/ L!identity_request \/ L!identity_response
  <1>1. job \in 1..4 /\ laying \in Directions
    BY DEF Control
  <1>2. Job.kind \in {"token", "identity"}
    <2>1. Job = Jobs[1] \/ Job = Jobs[2] \/ Job = Jobs[3] \/ Job = Jobs[4]
      BY <1>1 DEF Job
    <2>2. /\ Jobs[1].kind = "token" /\ Jobs[2].kind = "identity"
          /\ Jobs[3].kind = "token" /\ Jobs[4].kind = "identity"
      BY DEF Jobs, XJobs, GithubJobs
    <2>3. QED
      BY <2>1, <2>2
  <1>3. CASE Job.kind = "token" /\ laying = "Sent"
    BY <1>3 DEF Construct
  <1>4. CASE Job.kind = "token" /\ laying = "Received"
    BY <1>4 DEF Construct
  <1>5. CASE Job.kind = "identity" /\ laying = "Sent"
    BY <1>5 DEF Construct
  <1>6. CASE Job.kind = "identity" /\ laying = "Received"
    BY <1>6 DEF Construct
  <1>7. QED
    BY <1>1, <1>2, <1>3, <1>4, <1>5, <1>6 DEF Directions

(* A layout is made, and its direction keeps its length. *)
LEMMA LayOutStep == ASSUME CeremonyInv, LayOut PROVE CeremonyInv'
  <1>1. /\ stage = "layout"
        /\ UNCHANGED <<recordVars, ex, ceremony, stage, laying, layouts, openings>>
    BY DEF LayOut
  <1>2. \/ LP!token_request \/ LP!token_response \/ LP!identity_request \/ LP!identity_response
        \/ LP!SortByStart \/ LP!WalkRange \/ LP!WalkEnd
    BY SameLayout, ConstructIs DEF LayOut, CeremonyInv
  <1>3. LP!LayoutInv'
    <2>1. LP!Next
      BY <1>2 DEF LP!Next
    <2>2. QED
      BY <2>1, LimitsAssumption, LP!LayoutStep DEF CeremonyInv, Laying
  <1>4. len' = len
    BY <1>2 DEF LP!token_request, LP!token_response, LP!identity_request, LP!identity_response,
                LP!revealing, LP!Refuse, LP!SortByStart, LP!WalkRange, LP!WalkEnd
  <1>5. RecordInv'
    BY <1>1, RecordStays DEF CeremonyInv
  <1>6. Control'
    BY <1>1 DEF CeremonyInv, Control, Stages, RecordInit, Own, recordVars, ceremony
  <1>7. Exchanging'
    BY <1>1 DEF CeremonyInv, Exchanging, ceremony
  <1>8. Laying'
    BY <1>1, <1>3, <1>4 DEF CeremonyInv, Laying
  <1>9. Proved'
    BY <1>1, ProvedStays DEF CeremonyInv, recordVars, ceremony
  <1>10. QED
    BY <1>5, <1>6, <1>7, <1>8, <1>9 DEF CeremonyInv

(* A layout that has walked to the end is what a finished one promises. *)
LEMMA LayoutIsFinished ==
    ASSUME LP!LayoutInv, lphase = "done"
    PROVE  LET lay == [reveal |-> reveal, commit |-> commit, secret |-> secret] IN
           lay \in LayoutRecords /\ Finished(lay, len)
  <1>1. PICK lay : lay = [reveal |-> reveal, commit |-> commit, secret |-> secret]
    OBVIOUS
  <1>2. lay.reveal = reveal /\ lay.commit = commit /\ lay.secret = secret
    BY <1>1
  <1>3. LP!TypeOK /\ LP!Tiles /\ LP!SpansAreProper /\ LP!SecretIsOneCommitment
    BY LimitsAssumption, LP!FinishedLayout DEF LP!LayoutInv
  <1>4. lay \in LayoutRecords
    BY <1>1, <1>3 DEF LayoutRecords, LP!TypeOK, LP!Ranges, L!Ranges
  <1>5. len \in 0..MaxLen
    BY <1>3 DEF LP!TypeOK
  <1>6. \A s, b : LP!In(s, b) <=> L!In(s, b)
    BY DEF LP!In, L!In
  <1>7. \A b \in 0..(MaxLen - 1) :
            /\ b < len => (L!In(reveal, b) <=> ~L!In(commit, b))
            /\ b >= len => ~L!In(reveal, b) /\ ~L!In(commit, b)
    BY <1>3, <1>6 DEF LP!Tiles
  <1>8. \A s \in {reveal, commit} :
            /\ \A k \in DOMAIN s : s[k].start < s[k].end
            /\ \A j, k \in DOMAIN s : j < k => s[j].end <= s[k].start
    BY <1>3 DEF LP!SpansAreProper
  <1>9. secret.start < secret.end => \E k \in DOMAIN commit : commit[k] = secret
    BY <1>3 DEF LP!SecretIsOneCommitment
  <1>10. Finished(lay, len)
    BY <1>2, <1>5, <1>7, <1>8, <1>9 DEF Finished
  <1>11. QED
    BY <1>1, <1>4, <1>10

(* A direction is laid out, and the other one's turn comes, or the proof's. *)
LEMMA LaidOutStep == ASSUME CeremonyInv, LaidOutOne PROVE CeremonyInv'
  <1> DEFINE lay == [reveal |-> reveal, commit |-> commit, secret |-> secret]
  <1>1. /\ stage = "layout" /\ lphase = "done"
        /\ layouts' = [layouts EXCEPT ![laying] = lay]
        /\ lphase' = "idle" /\ reveal' = <<>> /\ commit' = <<>> /\ li' = 1 /\ at' = 0
        /\ secret' = To(0, 0)
        /\ UNCHANGED <<phase, dir, i, revealed, out, err, ex, ceremony, openings>>
    BY DEF LaidOutOne
  <1>2. lay \in LayoutRecords /\ Finished(lay, len)
    BY <1>1, LayoutIsFinished DEF CeremonyInv, Laying
  <1>3. \/ /\ laying = "Sent" /\ laying' = "Received" /\ len' \in Recvs
           /\ stage' = "layout" /\ session' = session
        \/ /\ laying = "Received" /\ laying' = "Received" /\ len' = len /\ stage' = "commit"
           /\ session' = [NoSession EXCEPT !.len = [Sent |-> Whole(ex.req), Received |-> len]]
    BY <1>1 DEF LaidOutOne, CeremonyInv, Control, Directions
  <1>4. layouts \in [Directions -> LayoutRecords] /\ laying \in Directions
        /\ Own /\ RecordInit /\ session = NoSession
    BY <1>1 DEF CeremonyInv, Laying, Control
  <1> HIDE DEF lay
  <1>5. layouts' \in [Directions -> LayoutRecords] /\ layouts'[laying] = lay
        /\ \A d \in Directions : d # laying => layouts'[d] = layouts[d]
    BY <1>1, <1>2, <1>4
  <1>6. Idle' /\ len' \in 0..MaxLen
    <2>1. len \in 0..MaxLen
      BY LimitsAssumption DEF CeremonyInv, Laying, LP!LayoutInv, LP!TypeOK
    <2>2. QED
      BY <1>1, <1>3, <2>1, LimitsAssumption DEF Idle
  <1>7. IsSession(session') /\ RecordInit'
    <2>1. RecordInit'
      BY <1>1, <1>4 DEF RecordInit
    <2>2. IsSession(NoSession)
      BY DEF IsSession, NoSession
    <2>3. ASSUME NEW n \in [Directions -> Nat]
          PROVE  IsSession([NoSession EXCEPT !.len = n])
      BY DEF IsSession, NoSession
    <2>4. Whole(ex.req) \in Nat /\ len \in Nat
      BY LimitsAssumption DEF CeremonyInv, Laying, LP!LayoutInv, LP!TypeOK, Exchanging, Whole
    <2>5. [Sent |-> Whole(ex.req), Received |-> len] \in [Directions -> Nat]
      BY <2>4 DEF Directions
    <2>6. QED
      BY <1>3, <1>4, <2>1, <2>2, <2>3, <2>5
  <1>8. RecordInv'
    <2>1. (IsSession(session) /\ RecordInit => RecordInv)'
      BY RecordBegins, PTL
    <2>2. QED
      BY <1>7, <2>1 DEF IsSession
  <1>9. Control'
    <2>1. origin' = origin /\ job' = job /\ stage' \in {"layout", "commit"}
          /\ laying' = "Received"
      BY <1>1, <1>3 DEF ceremony
    <2>2. stage' = "layout" => session' = NoSession'
      BY <1>3, <1>4 DEF NoSession
    <2>3. err' = "none"
      BY <1>7 DEF RecordInit
    <2>4. QED
      BY <1>4, <1>6, <1>7, <2>1, <2>2, <2>3
         DEF CeremonyInv, Control, Stages, Own, Directions
  <1>10. Exchanging'
    BY <1>1, <1>3 DEF CeremonyInv, Exchanging, ceremony
  <1>11. LP!LayoutInv'
    <2>1. (Idle /\ len \in 0..MaxLen => LP!LayoutInv)'
      BY LayoutBegins, PTL
    <2>2. QED
      BY <1>6, <2>1
  <1>12. Laying'
    <2>1. CASE laying = "Sent"
      <3>1. len = Whole(ex.req) /\ ex' = ex
        BY <1>1, <2>1 DEF CeremonyInv, Laying
      <3>2. Finished(layouts'["Sent"], Whole(ex'.req))
        BY <1>2, <1>5, <2>1, <3>1
      <3>3. stage' = "layout" /\ laying' = "Received"
        BY <1>3, <2>1
      <3>4. QED
        BY <1>5, <1>11, <3>2, <3>3 DEF Laying
    <2>2. CASE laying = "Received"
      <3>1. PICK n : n = [Sent |-> Whole(ex.req), Received |-> len]
        OBVIOUS
      <3>2. Finished(layouts'["Sent"], Whole(ex.req)) /\ Finished(layouts'["Received"], len)
        BY <1>1, <1>2, <1>5, <2>2 DEF CeremonyInv, Laying, Directions
      <3>3. \A d \in Directions : Finished(layouts'[d], n[d])
        BY <3>1, <3>2 DEF Directions
      <3>4. n \in [Directions -> 0..MaxLen]
        <4>1. Whole(ex.req) \in 0..MaxLen /\ len \in 0..MaxLen
          BY <3>2 DEF Finished
        <4>2. QED
          BY <3>1, <4>1 DEF Directions
      <3>5. stage' = "commit" /\ session' = [NoSession EXCEPT !.len = n]
        BY <1>3, <2>2, <3>1
      <3>6. QED
        BY <1>5, <1>11, <3>3, <3>4, <3>5 DEF Laying
    <2>3. QED
      BY <1>3, <2>1, <2>2
  <1>13. Proved'
    BY <1>3, <1>7 DEF Proved, RecordInit
  <1>14. QED
    BY <1>8, <1>9, <1>10, <1>12, <1>13 DEF CeremonyInv

(* The reveals and commitments are proved as the layouts have them. *)
LEMMA ProveStep == ASSUME CeremonyInv, Prove PROVE CeremonyInv'
  <1> DEFINE authed == [d \in Directions |-> RangeSet(layouts[d].reveal)]
  <1>1. /\ stage = "commit" /\ stage' = "record"
        /\ UNCHANGED <<phase, dir, i, revealed, out, err, ex, layoutVars, ceremony,
                       laying, layouts>>
    BY SMTT(30) DEF Prove
  <1>2. PICK s \in SetToSeqs(transcript_commit_config) :
            LET commits == IF origin = "fixture" THEN ordered(s) ELSE s IN
            /\ session' = [session EXCEPT !.authed = authed, !.commits = commits]
            /\ openings' = {Opening(commits[k], k) : k \in DOMAIN commits}
    BY DEF Prove
  <1>3. PICK commits : commits = IF origin = "fixture" THEN ordered(s) ELSE s
    OBVIOUS
  <1>4. PICK n \in [Directions -> 0..MaxLen] :
            /\ session = [NoSession EXCEPT !.len = n]
            /\ \A d \in Directions : Finished(layouts[d], n[d])
    BY <1>1 DEF CeremonyInv, Laying
  <1>5. session' = [len |-> n, authed |-> authed, commits |-> commits]
    BY <1>2, <1>3, <1>4 DEF NoSession
  <1>6. Committing
    BY <1>4 DEF Committing, CeremonyInv, Laying
  <1>7. /\ Enumerates(commits, transcript_commit_config)
        /\ origin = "fixture" => \A j, k \in DOMAIN commits : j < k => Before(commits[j], commits[k])
    BY <1>3, <1>6, ProvedInOrder
  <1>8. IsSession(session')
    <2>1. commits \in Seq(TranscriptCommitment)
      BY <1>6, <1>7, CommitsAreListed
    <2>2. ASSUME NEW d \in Directions
          PROVE  /\ n[d] \in Nat /\ authed[d] \in Seq(UsizeRange)
                 /\ \A j, k \in DOMAIN authed[d] :
                        j < k => authed[d][j].start <= authed[d][k].start
      BY LimitsAssumption, RangeSetIsAuthed
    <2> HIDE DEF authed
    <2>3. session'.len = n /\ session'.authed = authed /\ session'.commits = commits
      BY <1>5
    <2>4. QED
      BY <2>1, <2>2, <2>3 DEF IsSession
  <1>9. RecordInit'
    BY <1>1 DEF RecordInit, CeremonyInv, Control
  <1>10. RecordInv'
    <2>1. (IsSession(session) /\ RecordInit => RecordInv)'
      BY RecordBegins, PTL
    <2>2. QED
      BY <1>8, <1>9, <2>1 DEF IsSession
  <1>11. Control'
    BY <1>1 DEF CeremonyInv, Control, Stages, Idle, Own, layoutVars, ceremony
  <1>12. Exchanging'
    BY <1>1 DEF CeremonyInv, Exchanging, ceremony
  <1>13. Laying'
    <2>1. LP!LayoutInv'
      BY <1>1, LayoutStays DEF CeremonyInv, Laying
    <2>2. QED
      BY <1>1, <2>1 DEF CeremonyInv, Laying
  <1>14. Proved'
    <2>1. transcript_commit_config' = transcript_commit_config /\ origin' = origin
      BY <1>1 DEF transcript_commit_config, ceremony
    <2>2. \A d \in Directions : authed[d] = RangeSet(layouts[d].reveal)
      OBVIOUS
    <2> HIDE DEF authed
    <2>3. session'.len = n /\ session'.authed = authed /\ session'.commits = commits
      BY <1>5
    <2>4. \A d \in Directions : /\ Finished(layouts'[d], session'.len[d])
                               /\ session'.authed[d] = RangeSet(layouts'[d].reveal)
      BY <1>1, <1>4, <2>2, <2>3
    <2>5. session'.commits \in SetToSeqs(transcript_commit_config')
      BY <1>7, <2>1, <2>3 DEF SetToSeqs, Enumerates
    <2>6. openings' = {Opening(session'.commits[k], k) : k \in DOMAIN session'.commits}
      BY <1>2, <1>3, <2>3
    <2>7. origin' = "fixture" => \A j, k \in DOMAIN session'.commits :
                                     j < k => Before(session'.commits[j], session'.commits[k])
      BY <1>7, <2>1, <2>3
    <2>8. QED
      BY <2>4, <2>5, <2>6, <2>7 DEF Proved
  <1>15. QED
    BY <1>10, <1>11, <1>12, <1>13, <1>14 DEF CeremonyInv

(* The notary records. *)
LEMMA RecordingStep == ASSUME CeremonyInv, RecordStep PROVE CeremonyInv'
  <1>1. /\ stage = "record" /\ Next
        /\ UNCHANGED <<ex, layoutVars, ceremony, stage, laying, layouts, openings>>
    BY DEF RecordStep
  <1>2. RecordInv'
    BY <1>1, RecordKept DEF CeremonyInv
  <1>3. session' = session
    BY <1>1 DEF Next, Lengths, RevealRange, RevealEnd, Commitment, CommitEnd, Sort, Fail
  <1>4. Control'
    <2>1. phase # "err" => err = "none"
      BY DEF CeremonyInv, Control
    <2>2. phase' # "err" => err' = "none"
      BY <1>1, <2>1
         DEF Next, Lengths, RevealRange, RevealEnd, Commitment, CommitEnd, Sort, Fail
    <2>3. QED
      BY <1>1, <2>2 DEF CeremonyInv, Control, Idle, Own, layoutVars, ceremony
  <1>5. Exchanging'
    BY <1>1 DEF CeremonyInv, Exchanging, ceremony
  <1>6. Laying'
    <2>1. LP!LayoutInv'
      BY <1>1, LayoutStays DEF CeremonyInv, Laying
    <2>2. QED
      BY <1>1, <2>1 DEF CeremonyInv, Laying
  <1>7. Proved'
    BY <1>1, <1>3, ProvedStays DEF CeremonyInv, ceremony
  <1>8. QED
    BY <1>2, <1>4, <1>5, <1>6, <1>7 DEF CeremonyInv

(* What an exchange begins with. *)
LEMMA ExchangeBegins ==
    ASSUME NEW kind \in {"token", "identity"}, NEW r \in Requests[kind]
    PROVE  /\ ExInit(r) \in [req : [head : Nat, body : Nat], wrote : Nat, sent : Nat,
                             answered : Nat, got : Nat,
                             server : {"reading", "answering", "returned"},
                             client : {"sending", "answered"}]
           /\ ExInit(r).req = r /\ ExInit(r).sent = 0 /\ ExInit(r).wrote = 0
           /\ ExInit(r).server = "reading"
           /\ Whole(r) \in 0..MaxLen
  <1>1. r \in [head : Nat, body : Nat] /\ Whole(r) <= MaxLen /\ MaxLen \in Nat
    BY LimitsAssumption
  <1>2. Whole(r) \in Nat
    BY <1>1 DEF Whole
  <1>3. QED
    BY <1>1, <1>2 DEF ExInit

(* The kind of each session is one of the two. *)
LEMMA JobKinds == \A n \in 1..4 : Jobs[n].kind \in {"token", "identity"}
  <1>1. /\ Jobs[1].kind = "token" /\ Jobs[2].kind = "identity"
        /\ Jobs[3].kind = "token" /\ Jobs[4].kind = "identity"
    BY DEF Jobs, XJobs, GithubJobs
  <1>2. QED
    BY <1>1

(* A session is signed, and the next one begins. *)
LEMMA SignedStep == ASSUME CeremonyInv, Signed PROVE CeremonyInv'
  <1>1. /\ stage = "record" /\ origin = "fixture" /\ job \in 1..4 /\ phase = "done"
        /\ UNCHANGED <<lphase, reveal, li, at, commit, secret, origin, verdict>>
    BY DEF Signed, CeremonyInv, Control
  <1>2. CASE job = 4
    <2>1. /\ stage' = "done"
          /\ UNCHANGED <<recordVars, ex, layoutVars, origin, job, laying, layouts, openings>>
      BY <1>1, <1>2 DEF Signed, layoutVars
    <2>2. QED
      BY <1>1, <2>1, StageStep
  <1>3. CASE job # 4
    <2>1. /\ stage' = "exchange" /\ job' = job + 1
          /\ \E r \in Requests[Jobs[job'].kind] : ex' = ExInit(r)
          /\ len' = Whole(ex'.req)
          /\ session' = NoSession /\ phase' = "lengths" /\ dir' = "Sent" /\ i' = 1
          /\ revealed' = [d \in Directions |-> <<>>] /\ out' = revealed' /\ err' = err
          /\ laying' = "Sent" /\ layouts' = [d \in Directions |-> NoLayout]
          /\ openings' = {}
      BY <1>1, <1>3 DEF Signed
    <2>2. job' \in 1..4
      BY <1>1, <1>3, <2>1
    <2>3. PICK r \in Requests[Jobs[job'].kind] : ex' = ExInit(r)
      BY <2>1
    <2>4. /\ ex' \in [req : [head : Nat, body : Nat], wrote : Nat, sent : Nat,
                      answered : Nat, got : Nat,
                      server : {"reading", "answering", "returned"},
                      client : {"sending", "answered"}]
          /\ ex'.sent = 0 /\ ex'.wrote = 0 /\ ex'.server = "reading"
          /\ Whole(ex'.req) \in 0..MaxLen
      BY <2>2, <2>3, JobKinds, ExchangeBegins
    <2>5. IsSession(session') /\ RecordInit'
      <3>1. IsSession(NoSession)
        BY DEF IsSession, NoSession
      <3>2. err = "none"
        BY <1>1 DEF CeremonyInv, Control
      <3>3. QED
        BY <2>1, <3>1, <3>2 DEF RecordInit
    <2>6. RecordInv'
      <3>1. (IsSession(session) /\ RecordInit => RecordInv)'
        BY RecordBegins, PTL
      <3>2. QED
        BY <2>5, <3>1 DEF IsSession
    <2>7. Idle'
      <3>1. Idle
        BY <1>1 DEF CeremonyInv, Control
      <3>2. QED
        BY <1>1, <3>1 DEF Idle
    <2>8. Control'
      BY <1>1, <2>1, <2>2, <2>5, <2>7
         DEF CeremonyInv, Control, Stages, Own, Directions, NoSession, RecordInit
    <2>9. Exchanging'
      BY <2>1, <2>4, LimitsAssumption DEF Exchanging
    <2>10. Laying'
      <3>1. (Idle /\ len \in 0..MaxLen => LP!LayoutInv)'
        BY LayoutBegins, PTL
      <3>2. LP!LayoutInv'
        BY <2>1, <2>4, <2>7, <3>1
      <3>3. NoLayout \in LayoutRecords
        BY LimitsAssumption DEF NoLayout, LayoutRecords, To, L!Ranges
      <3>4. layouts' \in [Directions -> LayoutRecords]
        BY <2>1, <3>3
      <3>5. QED
        BY <2>1, <3>2, <3>4 DEF Laying
    <2>11. Proved'
      BY <2>1 DEF Proved
    <2>12. QED
      BY <2>6, <2>8, <2>9, <2>10, <2>11 DEF CeremonyInv
  <1>4. QED
    BY <1>1, <1>2, <1>3

(* No session has begun, or a notary is handed one that others made. *)
LEMMA CeremonyStart == CeremonyInit => CeremonyInv
  <1> SUFFICES ASSUME CeremonyInit PROVE CeremonyInv
    OBVIOUS
  <1>1. /\ \/ origin = "foreign" /\ session \in Sessions /\ stage = "record" /\ job = 1
           \/ origin = "prover" /\ session = NoSession /\ job \in 1..4
              /\ stage \in {"request", "layout"}
           \/ origin = "fixture" /\ session = NoSession /\ stage = "exchange" /\ job = 1
        /\ RecordInit /\ Idle /\ len = Whole(ex.req)
        /\ laying = "Sent" /\ layouts = [d \in Directions |-> NoLayout]
    BY DEF CeremonyInit, Idle
  <1>2. job \in 1..4
    BY <1>1
  <1>3. PICK r \in Requests[Job.kind] : ex = ExInit(r)
    BY DEF CeremonyInit
  <1>4. Job.kind \in {"token", "identity"}
    BY <1>2, JobKinds DEF Job
  <1>5. /\ ex \in [req : [head : Nat, body : Nat], wrote : Nat, sent : Nat,
                   answered : Nat, got : Nat,
                   server : {"reading", "answering", "returned"},
                   client : {"sending", "answered"}]
        /\ ex.sent = 0 /\ ex.wrote = 0 /\ ex.server = "reading"
        /\ Whole(ex.req) \in 0..MaxLen
    BY <1>3, <1>4, ExchangeBegins
  <1>6. RecordInv
    <2>1. IsSession(NoSession)
      BY DEF IsSession, NoSession
    <2>2. IsSession(session)
      BY <1>1, <2>1, SessionsAssumption
    <2>3. QED
      BY <1>1, <2>2, RecordBegins
  <1>7. Control
    BY <1>1, <1>2 DEF Control, Stages, Own, Directions, RecordInit
  <1>8. Exchanging
    BY <1>1, <1>5, LimitsAssumption DEF Exchanging
  <1>9. Laying
    <2>1. NoLayout \in LayoutRecords
      BY LimitsAssumption DEF NoLayout, LayoutRecords, To, L!Ranges
    <2>2. layouts \in [Directions -> LayoutRecords]
      BY <1>1, <2>1
    <2>3. LP!LayoutInv
      BY <1>1, <1>5, LayoutBegins
    <2>4. QED
      BY <1>1, <2>2, <2>3 DEF Laying
  <1>10. Proved
    BY <1>1 DEF Proved, Own, RecordInit
  <1>11. QED
    BY <1>6, <1>7, <1>8, <1>9, <1>10 DEF CeremonyInv

(* Every step of a ceremony keeps the sessions, layouts and records as they belong
   together. *)
LEMMA CeremonyKept == CeremonyInv /\ [CeremonyNext]_allVars => CeremonyInv'
  <1> SUFFICES ASSUME CeremonyInv, [CeremonyNext]_allVars PROVE CeremonyInv'
    OBVIOUS
  <1>1. CASE TokenRequest
    <2>1. /\ UNCHANGED <<recordVars, ex, layoutVars, origin, job, laying, layouts, openings>>
          /\ stage = "request" /\ stage' \in {"layout", "failed"}
      BY <1>1 DEF TokenRequest
    <2>2. QED
      BY <2>1, StageStep
  <1>2. CASE LayoutRefused
    BY <1>2, StageStep DEF LayoutRefused, ceremony
  <1>3. CASE RecordRefused
    BY <1>3, StageStep DEF RecordRefused, ceremony
  <1>4. CASE Respond
    <2>1. /\ UNCHANGED <<recordVars, ex, layoutVars, origin, job, laying, layouts, openings>>
          /\ stage = "record" /\ stage' \in {"done", "failed"}
      BY <1>4 DEF Respond
    <2>2. QED
      BY <2>1, StageStep
  <1>5. CASE Recorded
    BY <1>5, StageStep DEF Recorded, ceremony
  <1>6. CASE UNCHANGED allVars
    BY <1>6, StageStep DEF allVars, ceremony
  <1>7. QED
    BY <1>1, <1>2, <1>3, <1>4, <1>5, <1>6, SendingStep, ExchangedStep, LayOutStep,
       LaidOutStep, ProveStep, RecordingStep, SignedStep DEF CeremonyNext, Ended

(* Requests, layouts, sessions and records belong together in every reachable state
   of a ceremony: what is laid out is what was sent, what is proved is what was laid
   out, and what is recorded is what was proved. *)
THEOREM CeremonyInvariance == CeremonySpec => []CeremonyInv
  BY CeremonyStart, CeremonyKept, PTL DEF CeremonySpec

(* The task that plays the platform returns the whole request, for every request,
   pipe and buffer (ceremony_fixtures.rs). *)
THEOREM RequestIsReturned == CeremonySpec => []ExchangeReturnsTheRequest
  <1>1. CeremonyInv => ExchangeReturnsTheRequest
    BY DEF CeremonyInv, Exchanging, ExchangeReturnsTheRequest
  <1>2. QED
    BY <1>1, CeremonyInvariance, PTL

(* The record of a session keeps its types while the ceremonies go on, one session
   behind the other. *)
THEOREM CeremonyTypes == CeremonySpec => []TypeOK
  <1>1. CeremonyInv => TypeOK
    BY DEF CeremonyInv, RecordInv
  <1>2. QED
    BY <1>1, CeremonyInvariance, PTL

(* In a ceremony too the notary refuses exactly what the format cannot describe. *)
THEOREM CeremonyRefusals == CeremonySpec => []RefusesOnlyTheIndescribable
  <1>1. CeremonyInv => RefusesOnlyTheIndescribable
    BY RefusalIsExact DEF CeremonyInv
  <1>2. QED
    BY <1>1, CeremonyInvariance, PTL

(* In a ceremony too a finished block holds every commitment of its direction. *)
THEOREM CeremonyBlocks == CeremonySpec => []BlocksHoldTheirDirection
  <1>1. CeremonyInv => BlocksHoldTheirDirection
    BY BlocksAreComplete DEF CeremonyInv
  <1>2. QED
    BY <1>1, CeremonyInvariance, PTL

-----------------------------------------------------------------------------
(* The openings.                                                           *)

(* What is known of a session of the crate's own, once it is proved. *)
LEMMA ProvedSession ==
    ASSUME CeremonyInv, Own, stage \in {"record", "done"} \/ phase # "lengths"
    PROVE  /\ Committing
           /\ Enumerates(session.commits, transcript_commit_config)
           /\ DOMAIN session.commits = 1..Cardinality(transcript_commit_config)
           /\ Cardinality(transcript_commit_config) \in Nat
           /\ \A c \in transcript_commit_config :
                  \E k \in DOMAIN session.commits : session.commits[k] = c
           /\ \A k \in DOMAIN session.commits : session.commits[k] \in transcript_commit_config
           /\ \A j, k \in DOMAIN session.commits :
                  session.commits[j] = session.commits[k] => j = k
  <1>1. /\ \A d \in Directions : Finished(layouts[d], session.len[d])
        /\ session.commits \in SetToSeqs(transcript_commit_config)
        /\ layouts \in [Directions -> LayoutRecords]
    BY DEF CeremonyInv, Proved, Laying
  <1>2. Committing
    <2>1. [d \in Directions |-> session.len[d]] \in [Directions -> 0..MaxLen]
      BY <1>1 DEF Finished
    <2>2. \A d \in Directions : [e \in Directions |-> session.len[e]][d] = session.len[d]
      OBVIOUS
    <2>3. QED
      BY <1>1, <2>1, <2>2 DEF Committing
  <1>3. Enumerates(session.commits, transcript_commit_config)
    BY <1>1 DEF SetToSeqs, Enumerates
  <1>4. IsFiniteSet(transcript_commit_config)
    BY <1>2, CommitsAreOrdered
  <1>5. DOMAIN session.commits = 1..Cardinality(transcript_commit_config)
    BY <1>3, <1>4, EnumeratesAll
  <1>6. \A j, k \in DOMAIN session.commits : session.commits[j] = session.commits[k] => j = k
    BY <1>3, <1>5 DEF Enumerates
  <1>7. QED
    BY <1>2, <1>3, <1>4, <1>5, <1>6, EnumeratesAll

(* What is hidden is one commitment, so one opening has its direction and ranges. *)
LEMMA OpeningIsFound == CeremonyInv => OpeningFoundByRanges
  <1> SUFFICES ASSUME CeremonyInv, Own, stage = "record", NEW d \in Directions,
                      layouts[d].secret.start < layouts[d].secret.end
               PROVE  Cardinality({o \in openings :
                                       o.dir = d /\ o.ranges = <<layouts[d].secret>>}) = 1
    BY DEF OpeningFoundByRanges
  <1>1. PICK s : s = layouts[d].secret
    OBVIOUS
  <1>2. PICK commits : commits = session.commits
    OBVIOUS
  <1>3. /\ \A c \in transcript_commit_config : \E k \in DOMAIN commits : commits[k] = c
        /\ \A k \in DOMAIN commits : commits[k] \in transcript_commit_config
        /\ \A j, k \in DOMAIN commits : commits[j] = commits[k] => j = k
    BY <1>2, ProvedSession
  <1>4. Hash(d, s) \in transcript_commit_config
    <2>1. s \in Committed(d)
      BY <1>1 DEF CeremonyInv, Proved, Finished, Committed
    <2>2. QED
      BY <2>1, ConfigIs
  <1>5. PICK n \in DOMAIN commits : commits[n] = Hash(d, s)
    BY <1>3, <1>4
  <1>6. openings = {Opening(commits[k], k) : k \in DOMAIN commits}
    BY <1>2 DEF CeremonyInv, Proved
  <1>7. ASSUME NEW k \in DOMAIN commits
        PROVE  Opening(commits[k], k).dir = d /\ Opening(commits[k], k).ranges = <<s>> <=> k = n
    <2>1. PICK e \in Directions : \E r \in Committed(e) : commits[k] = Hash(e, r)
      BY <1>3, ConfigIs
    <2>2. PICK r \in Committed(e) : commits[k] = Hash(e, r)
      BY <2>1
    <2>3. Opening(commits[k], k).dir = e /\ Opening(commits[k], k).ranges = <<r>>
      BY <2>2 DEF Opening, Hash
    <2>4. <<r>> = <<s>> <=> r = s
      OBVIOUS
    <2>5. e = d /\ r = s => k = n
      BY <1>3, <1>5, <2>2
    <2>6. k = n => e = d /\ r = s
      <3>1. Hash(e, r).dir = e /\ Hash(e, r).idx[1] = r /\ Hash(d, s).dir = d /\ Hash(d, s).idx[1] = s
        BY DEF Hash
      <3>2. QED
        BY <1>5, <2>2, <3>1
    <2>7. QED
      BY <2>3, <2>4, <2>5, <2>6
  <1>8. {o \in openings : o.dir = d /\ o.ranges = <<s>>} = {Opening(commits[n], n)}
    BY <1>6, <1>7, SMTT(30)
  <1>9. QED
    BY <1>1, <1>8, FS_Singleton

(* Exactly one opening covers what a layout hides, for every layout and whatever the
   order of the openings (session.rs 290-299). *)
THEOREM OpeningsAreFound == CeremonySpec => []OpeningFoundByRanges
  BY OpeningIsFound, CeremonyInvariance, PTL

(* The blinder of a fixture's opening is the place of its commitment in the order of
   the key. *)
LEMMA BlinderIsRank == CeremonyInv => FixtureIsReproducible
  <1> SUFFICES ASSUME CeremonyInv, origin = "fixture", stage = "record", NEW o \in openings
               PROVE  o.blinder = 1 + Cardinality({c \in transcript_commit_config :
                                Before(c, [dir |-> o.dir, idx |-> o.ranges])})
    BY DEF FixtureIsReproducible
  <1>1. Own
    BY DEF Own
  <1>2. PICK commits : commits = session.commits
    OBVIOUS
  <1>3. PICK n \in DOMAIN commits : o = Opening(commits[n], n)
    BY <1>1, <1>2 DEF CeremonyInv, Proved
  <1>4. /\ Committing /\ Enumerates(commits, transcript_commit_config)
        /\ \A k \in DOMAIN commits : commits[k] \in transcript_commit_config
    BY <1>1, <1>2, ProvedSession
  <1>5. \A j, k \in DOMAIN commits : j < k => Before(commits[j], commits[k])
    BY <1>1, <1>2 DEF CeremonyInv, Proved
  <1>6. RisesBy(CommitOrder, commits)
    BY <1>4, <1>5 DEF RisesBy, CommitOrder
  <1>7. n = Rank(CommitOrder, transcript_commit_config, commits[n])
    BY <1>4, <1>6, CommitsAreOrdered, PlaceIsRank
  <1>8. \A c \in transcript_commit_config :
            Before(c, [dir |-> o.dir, idx |-> o.ranges]) <=> <<c, commits[n]>> \in CommitOrder
    BY <1>3, <1>4 DEF Before, CommitOrder, Opening
  <1>9. {c \in transcript_commit_config : Before(c, [dir |-> o.dir, idx |-> o.ranges])}
            = {c \in transcript_commit_config : <<c, commits[n]>> \in CommitOrder}
    BY <1>8
  <1>10. o.blinder = n
    BY <1>3 DEF Opening
  <1>11. QED
    BY <1>7, <1>9, <1>10 DEF Rank

(* The blinders of a fixture depend on its layouts alone, for every request and
   response and every order in which the set of commitments is iterated
   (ceremony_fixtures.rs 19-20). *)
THEOREM FixturesAreReproducible == CeremonySpec => []FixtureIsReproducible
  BY BlinderIsRank, CeremonyInvariance, PTL

-----------------------------------------------------------------------------
(* The coverage of a session of the crate's own.                           *)

(* A byte that a list of ranges covers is in a run of it. *)
LEMMA RunOfByte ==
    ASSUME NEW s \in Seq(L!Ranges), NEW b \in Nat, L!In(s, b)
    PROVE  \E r \in Runs(s) : r.start <= b /\ b < r.end
  <1>1. ASSUME NEW c \in Nat, L!In(s, c)
        PROVE  c < MaxLen
    <2>1. PICK k \in DOMAIN s : s[k].start <= c /\ c < s[k].end
      BY <1>1 DEF L!In
    <2>2. s[k] \in L!Ranges
      OBVIOUS
    <2>3. s[k].end \in 0..MaxLen
      BY <2>2 DEF L!Ranges
    <2>4. QED
      BY <2>1, <2>3, LimitsAssumption
  <1> DEFINE Before1 == {a \in Nat : a <= b /\ \A c \in Nat : a <= c /\ c <= b => L!In(s, c)}
             Behind == {e \in Nat : b < e /\ ~L!In(s, e)}
  <1>2. PICK a \in Before1 : \A m \in Before1 : a <= m
    <2>1. b \in Before1
      OBVIOUS
    <2>2. Before1 \subseteq Nat /\ Before1 # {}
      BY <2>1
    <2> HIDE DEF Before1
    <2>3. QED
      BY <2>2, LeastNatural
  <1>3. PICK e \in Behind : \A m \in Behind : e <= m
    <2>1. MaxLen \in Behind
      BY <1>1, LimitsAssumption
    <2>2. Behind \subseteq Nat /\ Behind # {}
      BY <2>1
    <2> HIDE DEF Behind
    <2>3. QED
      BY <2>2, LeastNatural
  <1>4. a \in Nat /\ a <= b /\ \A c \in Nat : a <= c /\ c <= b => L!In(s, c)
    OBVIOUS
  <1>5. e \in Nat /\ b < e /\ ~L!In(s, e)
    OBVIOUS
  <1>6. a = 0 \/ ~L!In(s, a - 1)
    <2> SUFFICES ASSUME a # 0, L!In(s, a - 1) PROVE FALSE
      OBVIOUS
    <2>1. a - 1 \in Nat /\ a - 1 <= b
      BY <1>4
    <2>2. \A c \in Nat : a - 1 <= c /\ c <= b => c = a - 1 \/ a <= c
      BY <1>4
    <2>3. \A c \in Nat : a - 1 <= c /\ c <= b => L!In(s, c)
      BY <1>4, <2>2
    <2>4. a - 1 \in Before1
      BY <2>1, <2>3
    <2> HIDE DEF Before1
    <2>5. QED
      BY <1>2, <1>4, <2>4
  <1>7. ASSUME NEW c \in Nat, a <= c, c < e
        PROVE  L!In(s, c)
    <2>1. CASE c <= b
      BY <1>4, <1>7, <2>1
    <2>2. CASE b < c
      <3>1. c \notin Behind
        BY <1>3, <1>5, <1>7
      <3>2. QED
        BY <2>2, <3>1
    <2>3. QED
      BY <2>1, <2>2
  <1> HIDE DEF Before1, Behind
  <1>8. e <= MaxLen /\ a <= MaxLen /\ MaxLen \in Nat
    <2>1. e - 1 \in Nat /\ a <= e - 1 /\ e - 1 < e
      BY <1>4, <1>5
    <2>2. e - 1 < MaxLen
      BY <1>1, <1>7, <2>1
    <2>3. QED
      BY <1>4, <1>5, <2>2, LimitsAssumption
  <1>9. PICK r : r = To(a, e)
    OBVIOUS
  <1>10. r.start = a /\ r.end = e
    BY <1>9 DEF To
  <1>11. r \in L!Ranges
    BY <1>4, <1>5, <1>8, <1>9 DEF L!Ranges, To
  <1>12. \A c \in a..(e - 1) : c \in Nat /\ a <= c /\ c < e
    BY <1>4, <1>5
  <1>13. a < e
    BY <1>4, <1>5
  <1>14. r \in Runs(s)
    BY <1>5, <1>6, <1>7, <1>10, <1>11, <1>12, <1>13 DEF Runs
  <1>15. QED
    BY <1>4, <1>5, <1>10, <1>14

(* A hash commitment of an own session is one of what its layout committed. *)
LEMMA OwnHashes ==
    ASSUME CeremonyInv, Own, stage \in {"record", "done"} \/ phase # "lengths",
           NEW d \in Directions
    PROVE  /\ \A k \in Hashes(d) : /\ session.commits[k].idx[1] \in Committed(d)
                                   /\ session.commits[k] = Hash(d, session.commits[k].idx[1])
           /\ \A r \in Committed(d) : \E k \in Hashes(d) : session.commits[k] = Hash(d, r)
  <1>1. PICK commits : commits = session.commits
    OBVIOUS
  <1>2. /\ \A c \in transcript_commit_config : \E k \in DOMAIN commits : commits[k] = c
        /\ \A k \in DOMAIN commits : commits[k] \in transcript_commit_config
    BY <1>1, ProvedSession
  <1>3. Hashes(d) = {k \in DOMAIN commits : commits[k].kind = "Hash" /\ commits[k].dir = d}
    BY <1>1 DEF Hashes
  <1>4. ASSUME NEW k \in Hashes(d)
        PROVE  commits[k].idx[1] \in Committed(d) /\ commits[k] = Hash(d, commits[k].idx[1])
    <2>1. k \in DOMAIN commits /\ commits[k].dir = d
      BY <1>3
    <2>2. PICK e \in Directions : \E r \in Committed(e) : commits[k] = Hash(e, r)
      BY <1>2, <2>1, ConfigIs
    <2>3. PICK r \in Committed(e) : commits[k] = Hash(e, r)
      BY <2>2
    <2>4. commits[k].dir = e /\ commits[k].idx[1] = r
      BY <2>3 DEF Hash
    <2>5. QED
      BY <2>1, <2>3, <2>4
  <1>5. ASSUME NEW r \in Committed(d)
        PROVE  \E k \in Hashes(d) : commits[k] = Hash(d, r)
    <2>1. Hash(d, r) \in transcript_commit_config
      BY ConfigIs
    <2>2. PICK k \in DOMAIN commits : commits[k] = Hash(d, r)
      BY <1>2, <2>1
    <2>3. commits[k].kind = "Hash" /\ commits[k].dir = d
      BY <2>2 DEF Hash
    <2>4. QED
      BY <1>3, <2>2, <2>3
  <1>6. QED
    BY <1>1, <1>4, <1>5

(* The format can describe every session of the crate's own. *)
LEMMA OwnIsDescribable ==
    ASSUME CeremonyInv, Own, stage \in {"record", "done"} \/ phase # "lengths"
    PROVE  Describable
  <1> SUFFICES ASSUME NEW d \in Directions
               PROVE  /\ session.len[d] <= MaxOffset
                      /\ \A k \in DOMAIN session.authed[d] : session.authed[d][k].end <= MaxOffset
                      /\ \A k \in Hashes(d) :
                             LET c == session.commits[k] IN
                             /\ c.alg = "SHA256" /\ c.bytes = 32
                             /\ Len(c.idx) = 1 /\ c.idx[1].end <= MaxOffset
    BY DEF Describable
  <1>1. MaxLen \in Nat /\ MaxOffset \in Nat /\ MaxLen <= MaxOffset
    BY LimitsAssumption, MaxOffsetAssumption
  <1>2. session.len[d] \in 0..MaxLen /\ session.authed[d] = RangeSet(layouts[d].reveal)
    BY DEF CeremonyInv, Proved, Finished
  <1>3. ASSUME NEW k \in DOMAIN session.authed[d]
        PROVE  session.authed[d][k].end <= MaxOffset
    <2>1. session.authed[d][k] \in Runs(layouts[d].reveal)
      BY <1>2, RunsAreOrdered, RangeSetIterates, EnumeratesAll
    <2>2. session.authed[d][k].end \in Nat /\ session.authed[d][k].end <= MaxLen
      BY <2>1, RunBounds
    <2>3. QED
      BY <1>1, <2>2
  <1>4. ASSUME NEW k \in Hashes(d)
        PROVE  LET c == session.commits[k] IN
               /\ c.alg = "SHA256" /\ c.bytes = 32
               /\ Len(c.idx) = 1 /\ c.idx[1].end <= MaxOffset
    <2>1. PICK r \in Committed(d) : session.commits[k] = Hash(d, r)
      BY OwnHashes
    <2>2. r.end \in Nat /\ r.end <= MaxLen
      BY ProvedSession, CommittedRanges
    <2>3. QED
      BY <1>1, <2>1, <2>2 DEF Hash
  <1>5. QED
    BY <1>1, <1>2, <1>3, <1>4

(* What was revealed and what was committed of an own session tile its direction. *)
LEMMA OwnIsLaidOut ==
    ASSUME CeremonyInv, Own, stage \in {"record", "done"} \/ phase # "lengths",
           NEW d \in Directions
    PROVE  LaidOut(d)
  <1>1. PICK lay : lay = layouts[d]
    OBVIOUS
  <1>2. PICK length : length = session.len[d]
    OBVIOUS
  <1> DEFINE runs == Runs(lay.reveal)
             committed == Committed(d)
             span == {session.authed[d][k] : k \in DOMAIN session.authed[d]}
                     \cup {session.commits[k].idx[1] : k \in Hashes(d)}
  <1>3. /\ length \in 0..MaxLen
        /\ \A b \in 0..(MaxLen - 1) :
               /\ b < length => (L!In(lay.reveal, b) <=> ~L!In(lay.commit, b))
               /\ b >= length => ~L!In(lay.reveal, b) /\ ~L!In(lay.commit, b)
        /\ session.authed[d] = RangeSet(lay.reveal)
    BY <1>1, <1>2 DEF CeremonyInv, Proved, Finished
  <1>4. lay.reveal \in Seq(L!Ranges) /\ lay.commit \in Seq(L!Ranges)
    BY <1>1 DEF CeremonyInv, Laying, LayoutRecords
  <1>5. /\ Cardinality(runs) \in Nat /\ DOMAIN session.authed[d] = 1..Cardinality(runs)
        /\ \A k \in DOMAIN session.authed[d] : session.authed[d][k] \in runs
        /\ \A r \in runs : \E k \in DOMAIN session.authed[d] : session.authed[d][k] = r
        /\ session.authed[d] \in [1..Cardinality(runs) -> runs]
    BY <1>3, RunsAreOrdered, RangeSetIterates, EnumeratesAll DEF Enumerates
  <1>6. /\ \A k \in Hashes(d) : /\ session.commits[k].idx[1] \in committed
                                /\ session.commits[k] = Hash(d, session.commits[k].idx[1])
        /\ \A r \in committed : \E k \in Hashes(d) : session.commits[k] = Hash(d, r)
    BY OwnHashes
  <1>7. span = runs \cup committed
    <2>1. \A r \in committed : \E k \in Hashes(d) : session.commits[k].idx[1] = r
      <3>1. \A r : Hash(d, r).idx[1] = r
        BY DEF Hash
      <3> HIDE DEF committed
      <3>2. QED
        BY <1>6, <3>1
    <2> HIDE DEF runs, committed
    <2>2. \A r : r \in span => r \in runs \cup committed
      BY <1>5, <1>6
    <2>3. \A r : r \in runs \cup committed => r \in span
      BY <1>5, <2>1
    <2> HIDE DEF span
    <2>4. QED
      BY <2>2, <2>3
  <1>8. \A b \in Nat : L!In(lay.commit, b) <=> \E r \in committed : r.start <= b /\ b < r.end
    BY <1>1 DEF Committed, L!In
  <1>9. ASSUME NEW r \in runs
        PROVE  /\ r.start \in Nat /\ r.end \in Nat /\ r.start < r.end
               /\ \A b \in Nat : r.start <= b /\ b < r.end => L!In(lay.reveal, b)
    BY RunBounds
  <1>10. ASSUME NEW r \in committed
         PROVE  /\ r.start \in Nat /\ r.end \in Nat /\ r.start < r.end
                /\ \A q \in committed : q = r \/ r.end <= q.start \/ q.end <= r.start
    BY ProvedSession, CommittedRanges
  <1>11. ASSUME NEW b \in Nat, L!In(lay.reveal, b) \/ L!In(lay.commit, b)
         PROVE  b < length /\ (L!In(lay.reveal, b) <=> ~L!In(lay.commit, b))
    <2>1. b < MaxLen
      <3>1. ASSUME NEW s \in Seq(L!Ranges), L!In(s, b) PROVE b < MaxLen
        <4>1. PICK k \in DOMAIN s : s[k].start <= b /\ b < s[k].end
          BY <3>1 DEF L!In
        <4>2. s[k] \in L!Ranges
          OBVIOUS
        <4>3. s[k].end \in 0..MaxLen
          BY <4>2 DEF L!Ranges
        <4>4. QED
          BY <4>1, <4>3, LimitsAssumption
      <3>2. QED
        BY <1>4, <1>11, <3>1
    <2>2. b \in 0..(MaxLen - 1)
      BY <2>1, LimitsAssumption
    <2>3. length \in Nat
      BY <1>3, LimitsAssumption
    <2>4. QED
      BY <1>3, <1>11, <2>2, <2>3
  <1>12. ASSUME NEW r \in span
         PROVE  r.start \in Nat /\ r.end \in Nat /\ r.start < r.end /\ r.end <= length
    <2>1. r.start \in Nat /\ r.end \in Nat /\ r.start < r.end
      BY <1>7, <1>9, <1>10
    <2>2. r.end - 1 \in Nat /\ r.start <= r.end - 1 /\ r.end - 1 < r.end
      BY <2>1
    <2>3. L!In(lay.reveal, r.end - 1) \/ L!In(lay.commit, r.end - 1)
      BY <1>7, <1>8, <1>9, <2>2
    <2>4. r.end - 1 < length
      BY <1>11, <2>2, <2>3
    <2>5. length \in Nat
      BY <1>3, LimitsAssumption
    <2>6. QED
      BY <2>1, <2>4, <2>5
  <1>13. ASSUME NEW b \in 0..(length - 1)
         PROVE  Cardinality({r \in span : r.start <= b /\ b < r.end}) = 1
    <2>1. length \in Nat /\ length <= MaxLen
      BY <1>3, LimitsAssumption
    <2>2. b \in Nat /\ b < length /\ b \in 0..(MaxLen - 1)
      BY <2>1, LimitsAssumption
    <2>3. L!In(lay.reveal, b) <=> ~L!In(lay.commit, b)
      BY <1>3, <2>2
    <2>4. \E r \in span : r.start <= b /\ b < r.end
      BY <1>4, <1>7, <1>8, <2>2, <2>3, RunOfByte
    <2>5. ASSUME NEW r \in span, NEW q \in span, r.start <= b, b < r.end,
                 q.start <= b, b < q.end
          PROVE  r = q
      <3>1. r \in runs => L!In(lay.reveal, b)
        BY <1>9, <2>2, <2>5
      <3>2. q \in runs => L!In(lay.reveal, b)
        BY <1>9, <2>2, <2>5
      <3>3. r \in committed => L!In(lay.commit, b)
        BY <1>8, <2>2, <2>5
      <3>4. q \in committed => L!In(lay.commit, b)
        BY <1>8, <2>2, <2>5
      <3>5. CASE r \in runs /\ q \in runs
        BY <2>2, <2>5, <3>5, RunsApart
      <3>6. CASE r \in committed /\ q \in committed
        <4>1. q = r \/ r.end <= q.start \/ q.end <= r.start
          BY <1>10, <3>6
        <4>2. r.start \in Nat /\ r.end \in Nat /\ q.start \in Nat /\ q.end \in Nat
          BY <1>10, <3>6
        <4>3. QED
          BY <2>2, <2>5, <4>1, <4>2
      <3>7. QED
        BY <1>7, <2>3, <3>1, <3>2, <3>3, <3>4, <3>5, <3>6
    <2>6. PICK r \in span : r.start <= b /\ b < r.end
      BY <2>4
    <2> HIDE DEF span
    <2>7. {q \in span : q.start <= b /\ b < q.end} = {r}
      BY <2>5, <2>6
    <2>8. QED
      BY <2>7, FS_Singleton
  <1>14. Cardinality(span) = Len(session.authed[d]) + Cardinality(Hashes(d))
    <2>1. Len(session.authed[d]) = Cardinality(runs)
      <3>1. session.authed[d] \in Seq(UsizeRange)
        BY DEF CeremonyInv, RecordInv, Shapes, IsSession
      <3>2. PICK a : a = session.authed[d]
        OBVIOUS
      <3>3. Len(a) \in Nat /\ DOMAIN a = 1..Len(a) /\ DOMAIN a = 1..Cardinality(runs)
        BY <1>5, <3>1, <3>2
      <3>4. QED
        BY <1>5, <3>2, <3>3
    <2>2. IsFiniteSet(runs)
      BY RunsAreOrdered
    <2>3. IsFiniteSet(Hashes(d))
      <3>1. Hashes(d) \in SUBSET (1..Cardinality(transcript_commit_config))
        BY ProvedSession DEF Hashes
      <3>2. IsFiniteSet(1..Cardinality(transcript_commit_config))
        <4>1. 1 \in Int /\ Cardinality(transcript_commit_config) \in Int
          BY ProvedSession
        <4>2. QED
          BY <4>1, FS_Interval
      <3>3. QED
        BY <3>1, <3>2, FS_Subset
    <2>4. [k \in Hashes(d) |-> session.commits[k].idx[1]] \in Bijection(Hashes(d), committed)
      <3>1. PICK f : f = [k \in Hashes(d) |-> session.commits[k].idx[1]]
        OBVIOUS
      <3>2. f \in [Hashes(d) -> committed]
        BY <1>6, <3>1
      <3>3. ASSUME NEW j \in Hashes(d), NEW k \in Hashes(d), f[j] = f[k]
            PROVE  j = k
        <4>1. session.commits[j] = session.commits[k]
          BY <1>6, <3>1, <3>3
        <4>2. j \in DOMAIN session.commits /\ k \in DOMAIN session.commits
          BY DEF Hashes
        <4>3. QED
          BY <4>1, <4>2, ProvedSession
      <3>4. ASSUME NEW r \in committed
            PROVE  \E k \in Hashes(d) : f[k] = r
        <4>1. PICK k \in Hashes(d) : session.commits[k] = Hash(d, r)
          BY <1>6
        <4>2. Hash(d, r).idx[1] = r
          BY DEF Hash
        <4>3. QED
          BY <3>1, <4>1, <4>2
      <3> HIDE DEF committed
      <3>5. QED
        BY <3>1, <3>2, <3>3, <3>4 DEF Bijection, Injection, Surjection, IsInjective
    <2>5. IsFiniteSet(committed) /\ Cardinality(committed) = Cardinality(Hashes(d))
      BY <2>3, <2>4, FS_Bijection DEF ExistsBijection
    <2>6. runs \cap committed = {}
      <3> SUFFICES ASSUME NEW r \in runs, r \in committed PROVE FALSE
        OBVIOUS
      <3>1. r.start \in Nat /\ r.start < r.end /\ r.start <= r.start
        BY <1>9
      <3>2. L!In(lay.reveal, r.start) /\ L!In(lay.commit, r.start)
        BY <1>8, <1>9, <3>1
      <3>3. QED
        BY <1>11, <3>1, <3>2
    <2>7. Cardinality(runs) \in Nat /\ Cardinality(committed) \in Nat
      BY <2>2, <2>5, FS_CardinalityType
    <2> HIDE DEF runs, committed, span
    <2>8. Cardinality(runs \cup committed)
              = Cardinality(runs) + Cardinality(committed) - Cardinality(runs \cap committed)
      BY <2>2, <2>5, FS_Union
    <2>9. Cardinality(runs \cap committed) = 0
      BY <2>6, FS_EmptySet
    <2>10. QED
      BY <1>7, <2>1, <2>5, <2>7, <2>8, <2>9
  <1>15. QED
    BY <1>2, <1>12, <1>13, <1>14 DEF LaidOut

(* The notary records a session of the crate's own, and its blocks are walked. *)
LEMMA OwnIsRecorded == CeremonyInv => LaidOutSessionIsRecorded
  <1> SUFFICES ASSUME CeremonyInv PROVE LaidOutSessionIsRecorded
    OBVIOUS
  <1>1. Own => phase # "err"
    <2> SUFFICES ASSUME Own, phase = "err" PROVE FALSE
      OBVIOUS
    <2>1. Describable
      BY OwnIsDescribable
    <2>2. ~Describable
      BY DEF CeremonyInv, RecordInv, Blocks
    <2>3. QED
      BY <2>1, <2>2
  <1>2. ASSUME phase = "done", NEW d \in Directions
        PROVE  /\ Own => LaidOut(d)
               /\ LaidOut(d) => Walks(d, session.len[d])
    <2>1. Own => LaidOut(d)
      BY <1>2, OwnIsLaidOut
    <2>2. LaidOut(d) => Walks(d, session.len[d])
      BY <1>2, BlockIsWalked DEF CeremonyInv
    <2>3. QED
      BY <2>1, <2>2
  <1>3. QED
    BY <1>1, <1>2 DEF LaidOutSessionIsRecorded

(* A session the crate's own layouts made is never refused by the notary, and every
   session so tiled, whoever made it, is recorded so that one walk forward covers each
   direction (session.rs 213-218, attest.rs 263-284, 380): for every request, response,
   layout and order of commitments. *)
THEOREM LaidOutSessionsAreRecorded == CeremonySpec => []LaidOutSessionIsRecorded
  BY OwnIsRecorded, CeremonyInvariance, PTL

-----------------------------------------------------------------------------
(* What is signed.                                                         *)

\* f joins the first sequences of ss.
Joins(ss, f) ==
    /\ DOMAIN f = 0..Len(ss) /\ f[0] = <<>>
    /\ \A n \in 1..Len(ss) : f[n] = f[n - 1] \o ss[n]

(* Concat joins its parts one after the other. *)
LEMMA ConcatJoins ==
    ASSUME NEW V, NEW ss \in Seq(Seq(V))
    PROVE  \E f \in [0..Len(ss) -> Seq(V)] : Joins(ss, f) /\ Concat(ss) = f[Len(ss)]
  <1> DEFINE T == Seq(V)
             step == [n \in 1..Len(ss) |-> [s \in T |-> s \o ss[n]]]
             IsUpTo(f) == f = [n \in 0..Len(ss) |-> IF n = 0 THEN <<>> ELSE f[n - 1] \o ss[n]]
  <1>1. Len(ss) \in Nat /\ \A n \in 1..Len(ss) : ss[n] \in T
    OBVIOUS
  <1>2. step \in [1..Len(ss) -> [T -> T]]
    BY <1>1
  <1>3. <<>> \in T
    OBVIOUS
  <1>4. \A n \in 1..Len(ss) : \A s \in T : step[n][s] = s \o ss[n]
    OBVIOUS
  <1> HIDE DEF T, step
  <1>5. PICK g \in [0..Len(ss) -> T] :
            g[0] = <<>> /\ \A n \in 1..Len(ss) : g[n] = step[n][g[n - 1]]
    <2>1. \E g : IteratesTo(g, Len(ss), T, <<>>, step)
      BY <1>1, <1>2, <1>3, BoundedRecursion
    <2>2. QED
      BY <2>1 DEF IteratesTo
  <1>6. \A n \in 0..Len(ss) : g[n] = IF n = 0 THEN <<>> ELSE g[n - 1] \o ss[n]
    <2> SUFFICES ASSUME NEW n \in 0..Len(ss), n # 0 PROVE g[n] = g[n - 1] \o ss[n]
      BY <1>5
    <2>1. n \in 1..Len(ss) /\ n - 1 \in 0..Len(ss)
      BY <1>1
    <2>2. QED
      BY <1>4, <1>5, <2>1
  <1>7. IsUpTo(g)
    BY <1>5, <1>6
  <1> DEFINE f == CHOOSE f : IsUpTo(f)
  <1>8. IsUpTo(f)
    BY <1>7
  <1>9. Concat(ss) = f[Len(ss)]
    BY DEF Concat
  <1> HIDE DEF f
  <1>10. Joins(ss, f)
    <2>1. DOMAIN f = 0..Len(ss) /\ \A n \in 0..Len(ss) : f[n] = IF n = 0 THEN <<>> ELSE f[n - 1] \o ss[n]
      BY <1>8
    <2>2. \A n \in 1..Len(ss) : n \in 0..Len(ss) /\ n # 0
      BY <1>1
    <2>3. 0 \in 0..Len(ss)
      BY <1>1
    <2>4. QED
      BY <2>1, <2>2, <2>3 DEF Joins
  <1>11. \A n \in 0..Len(ss) : f[n] \in T
    <2> DEFINE S == {n \in 0..Len(ss) : f[n] \in T}
    <2>1. 0 \in S
      BY <1>1, <1>3, <1>10 DEF Joins
    <2>2. ASSUME NEW n \in 0..Len(ss), n < Len(ss), n \in S PROVE n + 1 \in S
      <3>1. n + 1 \in 1..Len(ss) /\ (n + 1) - 1 = n /\ n + 1 \in 0..Len(ss)
        BY <1>1, <2>2
      <3>2. f[n + 1] = f[n] \o ss[n + 1] /\ f[n] \in T /\ ss[n + 1] \in T
        BY <1>1, <1>10, <2>2, <3>1 DEF Joins
      <3>3. \A s, t \in Seq(V) : s \o t \in Seq(V)
        OBVIOUS
      <3>4. f[n + 1] \in T
        BY <3>2, <3>3 DEF T
      <3>5. QED
        BY <3>1, <3>4
    <2> HIDE DEF S
    <2>3. 0..Len(ss) \subseteq S
      BY <1>1, <2>1, <2>2, Upwards, 0 \in Int, Len(ss) \in Int
    <2>4. QED
      BY <2>3 DEF S
  <1>12. f \in [0..Len(ss) -> T]
    BY <1>8, <1>11
  <1>13. QED
    BY <1>9, <1>10, <1>12 DEF T

\* The fields of e from place p0 on are those of s.
Spells(e, p0, s) ==
    p0 + Len(s) <= Len(e) + 1 /\ \A k \in 1..Len(s) : e[p0 + k - 1] = s[k]

(* What is spelled one behind the other. *)
LEMMA SpellsBoth ==
    ASSUME NEW V, NEW e \in Seq(V), NEW s \in Seq(V), NEW t \in Seq(V),
           NEW p0 \in Nat \ {0}, Spells(e, p0, s \o t)
    PROVE  Spells(e, p0, s) /\ Spells(e, p0 + Len(s), t) /\ p0 + Len(s) \in Nat \ {0}
  <1>1. /\ Len(s) \in Nat /\ Len(t) \in Nat /\ Len(e) \in Nat
        /\ Len(s \o t) = Len(s) + Len(t)
        /\ \A k \in 1..Len(s) : (s \o t)[k] = s[k]
        /\ \A k \in 1..Len(t) : (s \o t)[Len(s) + k] = t[k]
    OBVIOUS
  <1>2. Spells(e, p0, s)
    BY <1>1, SMTT(30) DEF Spells
  <1>3. ASSUME NEW k \in 1..Len(t)
        PROVE  e[(p0 + Len(s)) + k - 1] = t[k]
    <2>1. PICK j : j = Len(s) + k
      OBVIOUS
    <2>2. j \in 1..Len(s \o t) /\ p0 + j - 1 = (p0 + Len(s)) + k - 1
      BY <1>1, <2>1
    <2>3. e[p0 + j - 1] = (s \o t)[j]
      BY <2>2 DEF Spells
    <2>4. QED
      BY <1>1, <2>1, <2>2, <2>3
  <1>4. (p0 + Len(s)) + Len(t) <= Len(e) + 1
    BY <1>1 DEF Spells
  <1>5. QED
    BY <1>1, <1>2, <1>3, <1>4 DEF Spells

(* The places at which the parts of a concatenation are spelled. *)
LEMMA SpellsParts ==
    ASSUME NEW V, NEW e \in Seq(V), NEW ss \in Seq(Seq(V)),
           NEW p0 \in Nat \ {0}, Spells(e, p0, Concat(ss))
    PROVE  \E p \in [0..Len(ss) -> Nat] :
               /\ p[0] = 0 /\ p[Len(ss)] = Len(Concat(ss))
               /\ \A n \in 1..Len(ss) : /\ p[n] = p[n - 1] + Len(ss[n])
                                        /\ Spells(e, p0 + p[n - 1], ss[n])
  <1>1. PICK N \in Nat : N = Len(ss) /\ \A n \in 1..N : ss[n] \in Seq(V)
    OBVIOUS
  <1>2. PICK f \in [0..N -> Seq(V)] : Joins(ss, f) /\ Concat(ss) = f[N]
    BY <1>1, ConcatJoins
  <1>3. PICK p : p = [n \in 0..N |-> Len(f[n])]
    OBVIOUS
  <1>4. ASSUME NEW n \in 1..N
        PROVE  /\ f[n - 1] \in Seq(V) /\ ss[n] \in Seq(V) /\ f[n] = f[n - 1] \o ss[n]
               /\ p[n] = p[n - 1] + Len(ss[n]) /\ p[n - 1] = Len(f[n - 1])
    <2>1. n - 1 \in 0..N /\ n \in 0..N
      OBVIOUS
    <2>2. f[n - 1] \in Seq(V) /\ ss[n] \in Seq(V) /\ f[n] = f[n - 1] \o ss[n]
      BY <1>1, <1>2, <2>1 DEF Joins
    <2>3. \A s, t \in Seq(V) : Len(s \o t) = Len(s) + Len(t)
      OBVIOUS
    <2>4. QED
      BY <1>3, <2>1, <2>2, <2>3
  <1>5. p \in [0..N -> Nat] /\ p[0] = 0 /\ p[N] = Len(Concat(ss))
    BY <1>2, <1>3 DEF Joins
  <1> DEFINE S == {n \in 0..N : Spells(e, p0, f[n])}
  <1>6. 0..N \subseteq S
    <2>1. ASSUME NEW n \in 0..N, (n + 1)..N \subseteq S
          PROVE  n \in S
      <3>1. CASE n = N
        BY <1>2, <3>1
      <3>2. CASE n # N
        <4>1. n + 1 \in 1..N /\ n + 1 \in (n + 1)..N /\ (n + 1) - 1 = n
          BY <3>2
        <4>2. Spells(e, p0, f[n + 1])
          BY <2>1, <4>1
        <4>3. f[n] \in Seq(V) /\ ss[n + 1] \in Seq(V) /\ f[n + 1] = f[n] \o ss[n + 1]
          BY <1>4, <4>1
        <4>4. QED
          BY <4>2, <4>3, SpellsBoth
      <3>3. QED
        BY <3>1, <3>2
    <2> HIDE DEF S
    <2>2. QED
      BY <2>1, Downwards, 0 \in Int, N \in Int
  <1>7. ASSUME NEW n \in 1..N
        PROVE  Spells(e, p0 + p[n - 1], ss[n])
    <2>1. n \in S
      BY <1>6
    <2>2. Spells(e, p0, f[n - 1] \o ss[n])
      BY <1>4, <2>1
    <2>3. QED
      BY <1>4, <2>2, SpellsBoth
  <1>8. QED
    BY <1>1, <1>4, <1>5, <1>7

(* Parts of one length. *)
LEMMA SpellsEven ==
    ASSUME NEW V, NEW e \in Seq(V), NEW ss \in Seq(Seq(V)),
           NEW p0 \in Nat \ {0}, Spells(e, p0, Concat(ss)),
           NEW w \in {1, 3}, \A n \in 1..Len(ss) : Len(ss[n]) = w
    PROVE  /\ Len(Concat(ss)) = w * Len(ss)
           /\ \A n \in 1..Len(ss) : Spells(e, p0 + w * (n - 1), ss[n])
  <1>1. PICK N \in Nat : N = Len(ss)
    OBVIOUS
  <1>2. PICK p \in [0..N -> Nat] :
               /\ p[0] = 0 /\ p[N] = Len(Concat(ss))
               /\ \A n \in 1..N : /\ p[n] = p[n - 1] + Len(ss[n])
                                  /\ Spells(e, p0 + p[n - 1], ss[n])
    BY <1>1, SpellsParts, ZenonT(60)
  <1> DEFINE S == {n \in 0..N : p[n] = w * n}
  <1>3. 0..N \subseteq S
    <2>1. 0 \in S
      BY <1>2
    <2>2. ASSUME NEW n \in 0..N, n < N, n \in S
          PROVE  n + 1 \in S
      <3>1. n + 1 \in 1..N /\ (n + 1) - 1 = n /\ n + 1 \in 0..N
        BY <2>2
      <3>2. p[n + 1] = w * n + w
        BY <1>1, <1>2, <2>2, <3>1
      <3>3. w * n + w = w * (n + 1)
        OBVIOUS
      <3>4. QED
        BY <3>1, <3>2, <3>3
    <2> HIDE DEF S
    <2>3. QED
      BY <2>1, <2>2, Upwards, 0 \in Int, N \in Int
  <1>4. \A n \in 1..N : p[n - 1] = w * (n - 1)
    <2> SUFFICES ASSUME NEW n \in 1..N PROVE p[n - 1] = w * (n - 1)
      OBVIOUS
    <2>1. n - 1 \in 0..N
      OBVIOUS
    <2>2. n - 1 \in S
      BY <1>3, <2>1
    <2>3. QED
      BY <2>2
  <1>5. p[N] = w * N
    BY <1>3
  <1>6. QED
    BY <1>1, <1>2, <1>4, <1>5

\* Fields whose values are in V.
Fields(V) == [width : Nat, value : V]

\* f adds up the widths of s.
Widths(s, f) ==
    /\ f \in [0..Len(s) -> Nat] /\ f[0] = 0
    /\ \A n \in 1..Len(s) : f[n] = f[n - 1] + s[n].width

(* The fields of an encoding have widths. *)
LEMMA FieldWidths ==
    ASSUME NEW V, NEW s \in Seq(Fields(V))
    PROVE  Len(s) \in Nat /\ \A n \in 1..Len(s) : s[n].width \in Nat
  <1>1. Len(s) \in Nat /\ \A n \in 1..Len(s) : s[n] \in Fields(V)
    OBVIOUS
  <1>2. \A x \in Fields(V) : x.width \in Nat
    BY DEF Fields
  <1>3. QED
    BY <1>1, <1>2

(* EncodedLen sums them from the first on. *)
LEMMA EncodedLenSums ==
    ASSUME NEW V, NEW s \in Seq(Fields(V))
    PROVE  \E f : Widths(s, f) /\ EncodedLen(s) = f[Len(s)]
  <1> DEFINE step == [n \in 1..Len(s) |-> [x \in Nat |-> x + s[n].width]]
             IsSum(f) == f = [n \in 0..Len(s) |-> IF n = 0 THEN 0 ELSE f[n - 1] + s[n].width]
  <1>1. Len(s) \in Nat /\ \A n \in 1..Len(s) : s[n].width \in Nat
    BY FieldWidths
  <1>2. step \in [1..Len(s) -> [Nat -> Nat]]
    BY <1>1
  <1>3. \A n \in 1..Len(s) : \A x \in Nat : step[n][x] = x + s[n].width
    OBVIOUS
  <1> HIDE DEF step
  <1>4. PICK g : IteratesTo(g, Len(s), Nat, 0, step)
    BY <1>1, <1>2, BoundedRecursion, 0 \in Nat
  <1>5. \A n \in 0..Len(s) : g[n] = IF n = 0 THEN 0 ELSE g[n - 1] + s[n].width
    <2> SUFFICES ASSUME NEW n \in 0..Len(s), n # 0 PROVE g[n] = g[n - 1] + s[n].width
      BY <1>4 DEF IteratesTo
    <2>1. n \in 1..Len(s) /\ n - 1 \in 0..Len(s)
      BY <1>1
    <2>2. QED
      BY <1>3, <1>4, <2>1 DEF IteratesTo
  <1>6. IsSum(g)
    BY <1>4, <1>5 DEF IteratesTo
  <1> DEFINE f == CHOOSE f : IsSum(f)
  <1>7. IsSum(f)
    BY <1>6
  <1>8. EncodedLen(s) = f[Len(s)]
    BY DEF EncodedLen
  <1> HIDE DEF f
  <1>9. /\ DOMAIN f = 0..Len(s) /\ f[0] = 0
        /\ \A n \in 1..Len(s) : f[n] = f[n - 1] + s[n].width
    <2>1. DOMAIN f = 0..Len(s)
          /\ \A n \in 0..Len(s) : f[n] = IF n = 0 THEN 0 ELSE f[n - 1] + s[n].width
      BY <1>7
    <2>2. \A n \in 1..Len(s) : n \in 0..Len(s) /\ n # 0
      BY <1>1
    <2>3. 0 \in 0..Len(s)
      BY <1>1
    <2>4. QED
      BY <2>1, <2>2, <2>3
  <1>10. \A n \in 0..Len(s) : f[n] \in Nat
    <2> DEFINE S == {n \in 0..Len(s) : f[n] \in Nat}
    <2>1. 0 \in S
      BY <1>1, <1>9
    <2>2. ASSUME NEW n \in 0..Len(s), n < Len(s), n \in S PROVE n + 1 \in S
      <3>1. n + 1 \in 1..Len(s) /\ (n + 1) - 1 = n /\ n + 1 \in 0..Len(s)
        BY <1>1, <2>2
      <3>2. f[n + 1] = f[n] + s[n + 1].width
        BY <1>9, <3>1
      <3>3. f[n] \in Nat /\ s[n + 1].width \in Nat
        BY <1>1, <2>2, <3>1
      <3>4. f[n + 1] \in Nat
        BY <3>2, <3>3
      <3>5. QED
        BY <3>1, <3>4
    <2> HIDE DEF S
    <2>3. 0..Len(s) \subseteq S
      BY <1>1, <2>1, <2>2, Upwards, 0 \in Int, Len(s) \in Int
    <2>4. QED
      BY <2>3 DEF S
  <1>11. Widths(s, f)
    <2>1. f \in [0..Len(s) -> Nat]
      BY <1>7, <1>10
    <2>2. QED
      BY <1>9, <2>1 DEF Widths
  <1>12. QED
    BY <1>8, <1>11

(* The length of two encodings, one behind the other. *)
LEMMA EncodedLenJoins ==
    ASSUME NEW V, NEW s \in Seq(Fields(V)), NEW t \in Seq(Fields(V))
    PROVE  /\ EncodedLen(s \o t) = EncodedLen(s) + EncodedLen(t)
           /\ EncodedLen(s) \in Nat /\ EncodedLen(t) \in Nat
  <1>1. PICK m \in Nat, n \in Nat : m = Len(s) /\ n = Len(t)
    OBVIOUS
  <1>2. PICK j : j = s \o t
    OBVIOUS
  <1>3. /\ j \in Seq(Fields(V)) /\ Len(j) = m + n
        /\ \A k \in 1..m : j[k] = s[k]
        /\ \A k \in 1..n : j[m + k] = t[k]
    BY <1>1, <1>2
  <1>4. PICK f : Widths(s, f) /\ EncodedLen(s) = f[m]
    BY <1>1, EncodedLenSums
  <1>5. PICK g : Widths(t, g) /\ EncodedLen(t) = g[n]
    BY <1>1, EncodedLenSums
  <1>6. PICK h : Widths(j, h) /\ EncodedLen(j) = h[m + n]
    BY <1>3, EncodedLenSums
  <1> DEFINE S == {k \in 0..m : h[k] = f[k]}
             T == {k \in 0..n : h[m + k] = f[m] + g[k]}
  <1>7. 0..m \subseteq S
    <2>1. 0 \in S
      BY <1>4, <1>6 DEF Widths
    <2>2. ASSUME NEW k \in 0..m, k < m, k \in S PROVE k + 1 \in S
      <3>1. k + 1 \in 1..m /\ k + 1 \in 1..(m + n) /\ (k + 1) - 1 = k /\ k + 1 \in 0..m
        BY <2>2
      <3>2. h[k + 1] = h[k] + j[k + 1].width /\ f[k + 1] = f[k] + s[k + 1].width
        BY <1>1, <1>3, <1>4, <1>6, <3>1 DEF Widths
      <3>3. QED
        BY <1>3, <2>2, <3>1, <3>2
    <2> HIDE DEF S
    <2>3. QED
      BY <2>1, <2>2, Upwards, 0 \in Int, m \in Int
  <1>8. f[m] \in Nat /\ h[m] = f[m] /\ \A k \in 0..n : g[k] \in Nat
    <2>1. m \in 0..m
      OBVIOUS
    <2>2. m \in S
      BY <1>7, <2>1
    <2>3. f \in [0..m -> Nat] /\ g \in [0..n -> Nat]
      BY <1>1, <1>4, <1>5 DEF Widths
    <2>4. QED
      BY <2>1, <2>2, <2>3
  <1>9. 0..n \subseteq T
    <2>1. 0 \in T
      BY <1>5, <1>8 DEF Widths
    <2>2. ASSUME NEW k \in 0..n, k < n, k \in T PROVE k + 1 \in T
      <3>1. /\ k + 1 \in 1..n /\ m + (k + 1) \in 1..(m + n) /\ (k + 1) - 1 = k
            /\ k + 1 \in 0..n /\ (m + (k + 1)) - 1 = m + k
        BY <2>2
      <3>2. /\ h[m + (k + 1)] = h[m + k] + j[m + (k + 1)].width
            /\ g[k + 1] = g[k] + t[k + 1].width
        BY <1>1, <1>3, <1>5, <1>6, <3>1, ZenonT(60) DEF Widths
      <3>3. t[k + 1].width \in Nat
        BY <1>1, <3>1, FieldWidths
      <3>4. j[m + (k + 1)] = t[k + 1]
        BY <1>3, <3>1
      <3>5. h[m + k] = f[m] + g[k] /\ g[k] \in Nat
        BY <1>8, <2>2
      <3>6. h[m + (k + 1)] = (f[m] + g[k]) + t[k + 1].width
        BY <3>2, <3>4, <3>5
      <3>7. h[m + (k + 1)] = f[m] + g[k + 1]
        BY <1>8, <3>2, <3>3, <3>5, <3>6, SMTT(30)
      <3>8. QED
        BY <3>1, <3>7
    <2> HIDE DEF T
    <2>3. QED
      BY <2>1, <2>2, Upwards, 0 \in Int, n \in Int
  <1>10. h[m + n] = f[m] + g[n] /\ g[n] \in Nat
    BY <1>8, <1>9
  <1>11. QED
    BY <1>2, <1>4, <1>5, <1>6, <1>8, <1>10

(* What a concatenation costs, part by part. *)
LEMMA EncodedLenParts ==
    ASSUME NEW V, NEW ss \in Seq(Seq(Fields(V)))
    PROVE  \E c \in [0..Len(ss) -> Nat] :
               /\ c[0] = 0 /\ c[Len(ss)] = EncodedLen(Concat(ss))
               /\ \A n \in 1..Len(ss) : c[n] = c[n - 1] + EncodedLen(ss[n])
  <1>1. PICK N \in Nat : N = Len(ss) /\ \A n \in 1..N : ss[n] \in Seq(Fields(V))
    OBVIOUS
  <1>2. PICK f \in [0..N -> Seq(Fields(V))] : Joins(ss, f) /\ Concat(ss) = f[N]
    BY <1>1, ConcatJoins
  <1>3. PICK c : c = [n \in 0..N |-> EncodedLen(f[n])]
    OBVIOUS
  <1>4. \A n \in 0..N : EncodedLen(f[n]) \in Nat
    BY EncodedLenJoins
  <1>5. EncodedLen(<<>>) = 0
    <2>1. <<>> \in Seq(Fields(V)) /\ Len(<<>>) = 0
      OBVIOUS
    <2>2. QED
      BY <2>1, EncodedLenSums DEF Widths
  <1>6. ASSUME NEW n \in 1..N
        PROVE  c[n] = c[n - 1] + EncodedLen(ss[n])
    <2>1. n - 1 \in 0..N /\ n \in 0..N
      OBVIOUS
    <2>2. f[n - 1] \in Seq(Fields(V)) /\ ss[n] \in Seq(Fields(V)) /\ f[n] = f[n - 1] \o ss[n]
      BY <1>1, <1>2, <2>1 DEF Joins
    <2>3. EncodedLen(f[n]) = EncodedLen(f[n - 1]) + EncodedLen(ss[n])
      BY <2>2, EncodedLenJoins
    <2>4. QED
      BY <1>3, <2>1, <2>3
  <1>7. c \in [0..N -> Nat] /\ c[0] = 0 /\ c[N] = EncodedLen(Concat(ss))
    BY <1>2, <1>3, <1>4, <1>5 DEF Joins
  <1>8. QED
    BY <1>1, <1>6, <1>7

(* Parts that cost the same. *)
LEMMA EncodedLenEven ==
    ASSUME NEW V, NEW ss \in Seq(Seq(Fields(V))), NEW w \in {1, 40},
           \A n \in 1..Len(ss) : EncodedLen(ss[n]) = w
    PROVE  EncodedLen(Concat(ss)) = w * Len(ss)
  <1>1. PICK N \in Nat : N = Len(ss)
    OBVIOUS
  <1>2. PICK c \in [0..N -> Nat] :
               /\ c[0] = 0 /\ c[N] = EncodedLen(Concat(ss))
               /\ \A n \in 1..N : c[n] = c[n - 1] + EncodedLen(ss[n])
    BY <1>1, EncodedLenParts
  <1> DEFINE S == {n \in 0..N : c[n] = w * n}
  <1>3. 0..N \subseteq S
    <2>1. 0 \in S
      BY <1>2
    <2>2. ASSUME NEW n \in 0..N, n < N, n \in S
          PROVE  n + 1 \in S
      <3>1. n + 1 \in 1..N /\ (n + 1) - 1 = n /\ n + 1 \in 0..N
        BY <2>2
      <3>2. c[n + 1] = w * n + w
        BY <1>1, <1>2, <2>2, <3>1
      <3>3. w * n + w = w * (n + 1)
        OBVIOUS
      <3>4. QED
        BY <3>1, <3>2, <3>3
    <2> HIDE DEF S
    <2>3. QED
      BY <2>1, <2>2, Upwards, 0 \in Int, N \in Int
  <1>4. c[N] = w * N
    BY <1>3
  <1>5. QED
    BY <1>1, <1>2, <1>4

\* What a block holds of its direction.
RevealedBytes == [start : Nat, bytes : Seq(Nat)]
BlockData == [revealed : Seq(RevealedBytes), commitments : Seq(Entry)]

(* An encoding of one field. *)
LEMMA OneField ==
    ASSUME NEW V, NEW w \in Nat, NEW v \in V
    PROVE  /\ F(w, v) \in Fields(V) /\ F(w, v).value = v
           /\ <<F(w, v)>> \in Seq(Fields(V)) /\ Len(<<F(w, v)>>) = 1
           /\ EncodedLen(<<F(w, v)>>) = w
  <1>1. F(w, v) \in Fields(V) /\ F(w, v).width = w /\ F(w, v).value = v
    BY DEF F, Fields
  <1>2. PICK x \in Fields(V) : x = F(w, v)
    BY <1>1
  <1>3. PICK s : s = <<x>>
    OBVIOUS
  <1>4. s \in Seq(Fields(V)) /\ Len(s) = 1 /\ s[1] = x
    BY <1>3
  <1>5. PICK f : Widths(s, f) /\ EncodedLen(s) = f[1]
    BY <1>4, EncodedLenSums
  <1>6. f[1] = f[0] + s[1].width /\ f[0] = 0
    <2>1. 1 \in 1..Len(s) /\ 1 - 1 = 0
      BY <1>4
    <2>2. QED
      BY <1>5, <2>1 DEF Widths
  <1>7. EncodedLen(s) = w
    BY <1>1, <1>2, <1>4, <1>5, <1>6
  <1>8. QED
    BY <1>1, <1>2, <1>3, <1>4, <1>7

(* A Vec: how many there are, and they. *)
LEMMA VecFields ==
    ASSUME NEW V, Nat \subseteq V, NEW items \in Seq(Seq(Fields(V)))
    PROVE  /\ Concat(items) \in Seq(Fields(V)) /\ Vec(items) \in Seq(Fields(V))
           /\ Len(Vec(items)) = 1 + Len(Concat(items))
           /\ EncodedLen(Vec(items)) = 8 + EncodedLen(Concat(items))
           /\ EncodedLen(Concat(items)) \in Nat
           /\ \A e \in Seq(Fields(V)) : \A p0 \in Nat \ {0} : Spells(e, p0, Vec(items)) =>
                  /\ Value(e, p0) = Len(items)
                  /\ Spells(e, p0 + 1, Concat(items))
  <1>1. PICK cat : cat = Concat(items)
    OBVIOUS
  <1>2. cat \in Seq(Fields(V))
    <2>1. PICK f \in [0..Len(items) -> Seq(Fields(V))] : cat = f[Len(items)]
      BY <1>1, ConcatJoins
    <2>2. Len(items) \in 0..Len(items)
      OBVIOUS
    <2>3. QED
      BY <2>1, <2>2
  <1>3. Len(items) \in V
    OBVIOUS
  <1>4. PICK count \in Seq(Fields(V)) :
               count = <<F(8, Len(items))>> /\ Len(count) = 1 /\ EncodedLen(count) = 8
               /\ count[1].value = Len(items)
    <2>1. <<F(8, Len(items))>>[1] = F(8, Len(items))
      OBVIOUS
    <2>2. QED
      BY <1>3, <2>1, OneField, 8 \in Nat
  <1>5. Vec(items) = count \o cat
    BY <1>1, <1>4 DEF Vec
  <1>6. \A s, t \in Seq(Fields(V)) : s \o t \in Seq(Fields(V)) /\ Len(s \o t) = Len(s) + Len(t)
    OBVIOUS
  <1>7. Vec(items) \in Seq(Fields(V)) /\ Len(Vec(items)) = 1 + Len(cat)
    BY <1>2, <1>4, <1>5, <1>6
  <1>8. EncodedLen(Vec(items)) = 8 + EncodedLen(cat) /\ EncodedLen(cat) \in Nat
    BY <1>2, <1>4, <1>5, EncodedLenJoins
  <1>9. ASSUME NEW e \in Seq(Fields(V)), NEW p0 \in Nat \ {0}, Spells(e, p0, Vec(items))
        PROVE  Value(e, p0) = Len(items) /\ Spells(e, p0 + 1, cat)
    <2>0. Spells(e, p0, count \o cat)
      BY <1>5, <1>9
    <2>1. Spells(e, p0, count) /\ Spells(e, p0 + Len(count), cat)
      <3> HIDE DEF Spells
      <3> QED
        BY <1>2, <2>0, SpellsBoth
    <2>2. 1 \in 1..Len(count) /\ p0 + 1 - 1 = p0 /\ p0 \in DOMAIN e
      <3>1. p0 + 1 <= Len(e) + 1 /\ DOMAIN e = 1..Len(e) /\ Len(e) \in Nat
        BY <1>4, <2>1 DEF Spells
      <3>2. QED
        BY <1>4, <3>1
    <2>3. e[p0] = count[1]
      BY <2>1, <2>2 DEF Spells
    <2>4. QED
      BY <1>4, <2>1, <2>2, <2>3 DEF Value
  <1>10. QED
    BY <1>1, <1>2, <1>7, <1>8, <1>9

(* A field that is spelled is the one that is read. *)
LEMMA ValueSpelled ==
    ASSUME NEW V, NEW e \in Seq(V), NEW s \in Seq(V), NEW p0 \in Nat \ {0},
           Spells(e, p0, s), NEW k \in 1..Len(s)
    PROVE  Value(e, p0 + k - 1) = s[k].value
  <1>1. p0 + Len(s) <= Len(e) + 1 /\ e[p0 + k - 1] = s[k]
    BY DEF Spells
  <1>2. p0 + k - 1 \in DOMAIN e
    BY <1>1
  <1>3. QED
    BY <1>1, <1>2 DEF Value

\* r is read at place p0.
RangeRead(e, p0, r) ==
    /\ Value(e, p0) = r.start /\ Value(e, p0 + 1) = Len(r.bytes)
    /\ \A b \in 1..Len(r.bytes) : Value(e, p0 + 1 + b) = r.bytes[b]

(* A revealed range: its start, and its bytes behind their number. *)
LEMMA RangeFields ==
    ASSUME NEW V, Nat \subseteq V, NEW r \in RevealedBytes
    PROVE  /\ RevealedRange(r) \in Seq(Fields(V))
           /\ Len(RevealedRange(r)) = 2 + Len(r.bytes)
           /\ EncodedLen(RevealedRange(r)) = 12 + Len(r.bytes)
           /\ \A e \in Seq(Fields(V)) : \A p0 \in Nat \ {0} :
                  Spells(e, p0, RevealedRange(r)) => RangeRead(e, p0, r)
  <1>1. PICK n \in Nat : n = Len(r.bytes) /\ r.start \in Nat /\ \A b \in 1..n : r.bytes[b] \in Nat
    <2>1. r.start \in Nat /\ r.bytes \in Seq(Nat)
      BY DEF RevealedBytes
    <2>2. QED
      BY <2>1
  <1>2. PICK items : items = [b \in 1..Len(r.bytes) |-> <<F(1, r.bytes[b])>>]
    OBVIOUS
  <1>3. ASSUME NEW b \in 1..n
        PROVE  /\ items[b] \in Seq(Fields(V)) /\ Len(items[b]) = 1 /\ EncodedLen(items[b]) = 1
               /\ items[b][1].value = r.bytes[b]
    <2>1. items[b] = <<F(1, r.bytes[b])>> /\ r.bytes[b] \in V
      BY <1>1, <1>2
    <2>2. PICK v \in V : v = r.bytes[b] /\ items[b] = <<F(1, v)>>
      BY <2>1
    <2>3. <<F(1, v)>>[1] = F(1, v)
      OBVIOUS
    <2>4. /\ F(1, v).value = v
          /\ <<F(1, v)>> \in Seq(Fields(V)) /\ Len(<<F(1, v)>>) = 1
          /\ EncodedLen(<<F(1, v)>>) = 1
      BY OneField, 1 \in Nat
    <2>5. QED
      BY <2>2, <2>3, <2>4
  <1>4. items \in Seq(Seq(Fields(V))) /\ Len(items) = n
    <2> DEFINE T == Seq(Fields(V))
    <2>1. \A b \in 1..n : items[b] \in T
      BY <1>3
    <2>2. items \in [1..n -> T]
      BY <1>1, <1>2, <2>1
    <2> HIDE DEF T
    <2>3. items \in Seq(T) /\ Len(items) = n
      BY <2>2
    <2>4. QED
      BY <2>3 DEF T
  <1>5. PICK start \in Seq(Fields(V)) :
               start = <<F(4, r.start)>> /\ Len(start) = 1 /\ EncodedLen(start) = 4
               /\ start[1].value = r.start
    <2>1. <<F(4, r.start)>>[1] = F(4, r.start) /\ r.start \in V
      BY <1>1
    <2>2. QED
      BY <2>1, OneField, 4 \in Nat, ZenonT(60)
  <1>6. RevealedRange(r) = start \o Vec(items)
    BY <1>2, <1>5 DEF RevealedRange
  <1>7. PICK vec \in Seq(Fields(V)) : vec = Vec(items)
    BY <1>4, VecFields
  <1>8. \A s, t \in Seq(Fields(V)) : s \o t \in Seq(Fields(V)) /\ Len(s \o t) = Len(s) + Len(t)
    OBVIOUS
  <1>9. EncodedLen(Concat(items)) = n
    <2>1. EncodedLen(Concat(items)) = 1 * Len(items)
      BY <1>3, <1>4, EncodedLenEven, 1 \in {1, 40}
    <2>2. QED
      BY <1>4, <2>1
  <1>10. Len(vec) = 1 + n /\ EncodedLen(vec) = 8 + n
    <2>1. ASSUME NEW e \in Seq(Fields(V)) PROVE TRUE
      OBVIOUS
    <2>2. Concat(items) \in Seq(Fields(V)) /\ Len(vec) = 1 + Len(Concat(items))
          /\ EncodedLen(vec) = 8 + EncodedLen(Concat(items))
      BY <1>4, <1>7, VecFields
    <2>3. Spells(Concat(items), 1, Concat(items))
      <3>1. \A k \in 1..Len(Concat(items)) : 1 + k - 1 = k
        BY <2>2
      <3>2. 1 + Len(Concat(items)) <= Len(Concat(items)) + 1
        BY <2>2
      <3>3. QED
        BY <3>1, <3>2 DEF Spells
    <2>4. Len(Concat(items)) = 1 * Len(items)
      BY <1>3, <1>4, <2>2, <2>3, SpellsEven, 1 \in {1, 3}, 1 \in Nat \ {0}
    <2>5. QED
      BY <1>4, <1>9, <2>2, <2>4
  <1>11. /\ RevealedRange(r) \in Seq(Fields(V))
         /\ Len(RevealedRange(r)) = 2 + n
         /\ EncodedLen(RevealedRange(r)) = 12 + n
    <2>1. EncodedLen(start \o vec) = EncodedLen(start) + EncodedLen(vec)
      BY EncodedLenJoins
    <2>2. QED
      BY <1>5, <1>6, <1>7, <1>8, <1>10, <2>1
  <1>12. ASSUME NEW e \in Seq(Fields(V)), NEW p0 \in Nat \ {0}, Spells(e, p0, RevealedRange(r))
         PROVE  RangeRead(e, p0, r)
    <2>0. Spells(e, p0, start \o vec)
      BY <1>6, <1>7, <1>12
    <2>1. Spells(e, p0, start) /\ Spells(e, p0 + 1, Vec(items))
      <3>1. Spells(e, p0, start) /\ Spells(e, p0 + Len(start), vec)
        BY <2>0, SpellsBoth
      <3>2. QED
        BY <1>5, <1>7, <3>1
    <2>2. Value(e, p0) = r.start
      <3>1. 1 \in 1..Len(start) /\ p0 + 1 - 1 = p0
        BY <1>5
      <3>2. Value(e, p0 + 1 - 1) = start[1].value
        BY <2>1, <3>1, ValueSpelled
      <3>3. QED
        BY <1>5, <3>1, <3>2
    <2>3. p0 + 1 \in Nat \ {0} /\ p0 + 2 \in Nat \ {0} /\ (p0 + 1) + 1 = p0 + 2
      OBVIOUS
    <2>4. Value(e, p0 + 1) = n /\ Spells(e, p0 + 2, Concat(items))
      BY <1>4, <2>1, <2>3, VecFields, ZenonT(60)
    <2>5. ASSUME NEW b \in 1..n
          PROVE  Value(e, p0 + 1 + b) = r.bytes[b]
      <3>1. Spells(e, (p0 + 2) + 1 * (b - 1), items[b])
        BY <1>3, <1>4, <2>3, <2>4, SpellsEven, 1 \in {1, 3}, ZenonT(60)
      <3>2. PICK p \in Nat \ {0} : p = p0 + 1 + b /\ (p0 + 2) + 1 * (b - 1) = p
        OBVIOUS
      <3>3. 1 \in 1..Len(items[b]) /\ p + 1 - 1 = p
        BY <1>3
      <3>4. Value(e, p + 1 - 1) = items[b][1].value
        BY <1>3, <3>1, <3>2, <3>3, ValueSpelled
      <3>5. QED
        BY <1>3, <3>2, <3>3, <3>4
    <2>6. QED
      BY <1>1, <2>2, <2>4, <2>5 DEF RangeRead
  <1>13. QED
    BY <1>1, <1>11, <1>12

(* A commitment: three fields. *)
LEMMA CommitmentFields ==
    ASSUME NEW V, Nat \subseteq V, NEW c \in Entry
    PROVE  /\ RangeCommitment(c) \in Seq(Fields(V))
           /\ Len(RangeCommitment(c)) = 3 /\ EncodedLen(RangeCommitment(c)) = 40
           /\ \A e \in Seq(Fields(V)) : \A p0 \in Nat \ {0} : Spells(e, p0, RangeCommitment(c)) =>
                  /\ Value(e, p0) = c.start /\ Value(e, p0 + 1) = c.end
                  /\ Value(e, p0 + 2) = c.commitment
  <1>1. c.start \in V /\ c.end \in V /\ c.commitment \in V
    BY DEF Entry
  <1>2. PICK f1 \in Fields(V), f2 \in Fields(V), f3 \in Fields(V) :
            /\ f1 = F(4, c.start) /\ f2 = F(4, c.end) /\ f3 = F(32, c.commitment)
            /\ f1.value = c.start /\ f2.value = c.end /\ f3.value = c.commitment
            /\ f1.width = 4 /\ f2.width = 4 /\ f3.width = 32
    <2>1. F(4, c.start) \in Fields(V) /\ F(4, c.end) \in Fields(V) /\ F(32, c.commitment) \in Fields(V)
      BY <1>1 DEF F, Fields
    <2>2. QED
      BY <2>1 DEF F
  <1>3. PICK s : s = <<f1, f2, f3>>
    OBVIOUS
  <1>4. s \in Seq(Fields(V)) /\ Len(s) = 3 /\ s[1] = f1 /\ s[2] = f2 /\ s[3] = f3
    BY <1>3
  <1>5. RangeCommitment(c) = s
    BY <1>2, <1>3 DEF RangeCommitment
  <1>6. EncodedLen(s) = 40
    <2>1. PICK f : Widths(s, f) /\ EncodedLen(s) = f[3]
      BY <1>4, EncodedLenSums
    <2>2. f[0] = 0 /\ f[1] = f[0] + 4 /\ f[2] = f[1] + 4 /\ f[3] = f[2] + 32
      <3>1. 1 \in 1..3 /\ 2 \in 1..3 /\ 3 \in 1..3 /\ 1 - 1 = 0 /\ 2 - 1 = 1 /\ 3 - 1 = 2
        OBVIOUS
      <3>2. \A n \in 1..3 : f[n] = f[n - 1] + s[n].width
        BY <1>4, <2>1 DEF Widths
      <3>3. f[0] = 0
        BY <2>1 DEF Widths
      <3>4. QED
        BY <1>2, <1>4, <3>1, <3>2, <3>3
    <2>3. QED
      BY <2>1, <2>2
  <1>7. ASSUME NEW e \in Seq(Fields(V)), NEW p0 \in Nat \ {0}, Spells(e, p0, s)
        PROVE  /\ Value(e, p0) = c.start /\ Value(e, p0 + 1) = c.end
               /\ Value(e, p0 + 2) = c.commitment
    <2>1. \A k \in 1..Len(s) : Value(e, p0 + k - 1) = s[k].value
      <3> SUFFICES ASSUME NEW k \in 1..Len(s) PROVE Value(e, p0 + k - 1) = s[k].value
        OBVIOUS
      <3> HIDE DEF Spells, Value
      <3>1. s \in Seq(Fields(V))
        BY <1>4
      <3>2. QED
        BY <1>7, <3>1, ValueSpelled
    <2>2. p0 + 1 - 1 = p0 /\ p0 + 2 - 1 = p0 + 1 /\ p0 + 3 - 1 = p0 + 2
          /\ 1 \in 1..Len(s) /\ 2 \in 1..Len(s) /\ 3 \in 1..Len(s)
      BY <1>4
    <2>3. QED
      BY <1>2, <1>4, <2>1, <2>2
  <1>8. QED
    BY <1>4, <1>5, <1>6, <1>7

\* The two lists of a block, encoded one by one.
Revealeds(rs) == [k \in DOMAIN rs |-> RevealedRange(rs[k])]
Commitments(cs) == [k \in DOMAIN cs |-> RangeCommitment(cs[k])]

(* Reading the revealed ranges gives them back. *)
LEMMA RevealedIsRead ==
    ASSUME NEW V, Nat \subseteq V, NEW rs \in Seq(RevealedBytes),
           NEW e \in Seq(Fields(V)), NEW from \in Nat \ {0}, Spells(e, from, Vec(Revealeds(rs)))
    PROVE  ReadRevealed(e, from) = [at |-> from + Len(Vec(Revealeds(rs))), got |-> rs]
  <1>1. PICK N \in Nat : N = Len(rs) /\ \A k \in 1..N : rs[k] \in RevealedBytes
    OBVIOUS
  <1>2. PICK items : items = Revealeds(rs)
    OBVIOUS
  <1>3. \A k \in 1..N : /\ items[k] = RevealedRange(rs[k]) /\ items[k] \in Seq(Fields(V))
                        /\ Len(items[k]) = 2 + Len(rs[k].bytes)
    <2> SUFFICES ASSUME NEW k \in 1..N
                 PROVE  /\ items[k] = RevealedRange(rs[k]) /\ items[k] \in Seq(Fields(V))
                        /\ Len(items[k]) = 2 + Len(rs[k].bytes)
      OBVIOUS
    <2>1. DOMAIN rs = 1..N
      BY <1>1
    <2>2. items[k] = RevealedRange(rs[k]) /\ rs[k] \in RevealedBytes
      BY <1>1, <1>2, <2>1 DEF Revealeds
    <2>3. QED
      BY <2>2, RangeFields
  <1>4. items \in Seq(Seq(Fields(V))) /\ Len(items) = N
    <2> DEFINE T == Seq(Fields(V))
    <2>1. \A k \in 1..N : items[k] \in T
      BY <1>3
    <2>2. items \in [1..N -> T]
      <3>1. items = [k \in 1..N |-> RevealedRange(rs[k])]
        BY <1>1, <1>2 DEF Revealeds
      <3>2. DOMAIN items = 1..N /\ items = [k \in 1..N |-> items[k]]
        BY <3>1
      <3> HIDE DEF T
      <3>3. QED
        BY <2>1, <3>2
    <2> HIDE DEF T
    <2>3. items \in Seq(T) /\ Len(items) = N
      BY <2>2
    <2>4. QED
      BY <2>3 DEF T
  <1>5. /\ Value(e, from) = N /\ Spells(e, from + 1, Concat(items))
        /\ Len(Vec(items)) = 1 + Len(Concat(items))
    BY <1>2, <1>4, VecFields
  <1>6. PICK p \in [0..N -> Nat] :
               /\ p[0] = 0 /\ p[N] = Len(Concat(items))
               /\ \A n \in 1..N : /\ p[n] = p[n - 1] + Len(items[n])
                                  /\ Spells(e, (from + 1) + p[n - 1], items[n])
    <2>1. from + 1 \in Nat \ {0}
      OBVIOUS
    <2>2. QED
      <3>1. \E p \in [0..Len(items) -> Nat] :
               /\ p[0] = 0 /\ p[Len(items)] = Len(Concat(items))
               /\ \A n \in 1..Len(items) : /\ p[n] = p[n - 1] + Len(items[n])
                                  /\ Spells(e, (from + 1) + p[n - 1], items[n])
        BY <1>4, <1>5, <2>1, SpellsParts
      <3>2. QED
        BY <1>4, <3>1
  <1> DEFINE place(k) == (from + 1) + p[k]
             first == [at |-> from + 1, got |-> <<>>]
             Got(q, n) == [start |-> Value(e, q), bytes |-> [b \in 1..n |-> Value(e, q + 1 + b)]]
             Next1(m) == LET q == m.at n == Value(e, q + 1) IN
                         [at |-> q + 2 + n, got |-> Append(m.got, Got(q, n))]
             IsRead(f) == f = [k \in 0..N |-> IF k = 0 THEN first ELSE Next1(f[k - 1])]
             closed == [k \in 0..N |-> [at |-> place(k), got |-> [j \in 1..k |-> rs[j]]]]
  <1>7. ASSUME NEW k \in 1..N
        PROVE  /\ place(k - 1) \in Nat \ {0}
               /\ Value(e, place(k - 1) + 1) = Len(rs[k].bytes)
               /\ Got(place(k - 1), Len(rs[k].bytes)) = rs[k]
               /\ place(k) = place(k - 1) + 2 + Len(rs[k].bytes)
    <2>1. k - 1 \in 0..N /\ p[k - 1] \in Nat /\ Len(rs[k].bytes) \in Nat
      <3>1. rs[k].bytes \in Seq(Nat)
        BY <1>1 DEF RevealedBytes
      <3>2. k - 1 \in 0..N
        OBVIOUS
      <3>3. QED
        BY <3>1, <3>2
    <2>2. PICK q \in Nat \ {0} : q = place(k - 1)
      BY <2>1
    <2>3. Spells(e, q, RevealedRange(rs[k]))
      BY <1>3, <1>6, <2>2
    <2>4. /\ Value(e, q) = rs[k].start /\ Value(e, q + 1) = Len(rs[k].bytes)
          /\ \A b \in 1..Len(rs[k].bytes) : Value(e, q + 1 + b) = rs[k].bytes[b]
      <3>1. PICK r \in RevealedBytes : r = rs[k]
        BY <1>1
      <3>2. Spells(e, q, RevealedRange(r))
        BY <2>3, <3>1
      <3>3. /\ Value(e, q) = r.start /\ Value(e, q + 1) = Len(r.bytes)
            /\ \A b \in 1..Len(r.bytes) : Value(e, q + 1 + b) = r.bytes[b]
        <4>1. RangeRead(e, q, r)
          BY <3>2, RangeFields
        <4>2. QED
          BY <4>1 DEF RangeRead
      <3>4. QED
        BY <3>1, <3>3
    <2>5. Got(q, Len(rs[k].bytes)) = rs[k]
      <3>1. rs[k] = [start |-> rs[k].start, bytes |-> rs[k].bytes] /\ rs[k].bytes \in Seq(Nat)
        BY <1>1 DEF RevealedBytes
      <3>2. PICK bytes \in Seq(Nat) : bytes = rs[k].bytes
        BY <3>1
      <3>3. [b \in 1..Len(bytes) |-> Value(e, q + 1 + b)] = bytes
        <4>1. \A b \in 1..Len(bytes) : Value(e, q + 1 + b) = bytes[b]
          BY <2>4, <3>2
        <4>2. [b \in 1..Len(bytes) |-> Value(e, q + 1 + b)] = [b \in 1..Len(bytes) |-> bytes[b]]
          BY <4>1
        <4>3. [b \in 1..Len(bytes) |-> bytes[b]] = bytes
          OBVIOUS
        <4>4. QED
          BY <4>2, <4>3
      <3>4. QED
        BY <2>4, <3>1, <3>2, <3>3
    <2>6. place(k) = place(k - 1) + 2 + Len(rs[k].bytes)
      <3>1. p[k] = p[k - 1] + (2 + Len(rs[k].bytes))
        BY <1>3, <1>6
      <3>2. PICK a \in Nat, n \in Nat : a = p[k - 1] /\ n = Len(rs[k].bytes)
        BY <2>1
      <3>3. (from + 1) + (a + (2 + n)) = ((from + 1) + a) + 2 + n
        OBVIOUS
      <3>4. QED
        BY <3>1, <3>2, <3>3
    <2>7. QED
      BY <2>2, <2>4, <2>5, <2>6
  <1> HIDE DEF place, Got
  <1>8. ASSUME NEW k \in 1..N
        PROVE  Next1([at |-> place(k - 1), got |-> [j \in 1..(k - 1) |-> rs[j]]])
                   = [at |-> place(k), got |-> [j \in 1..k |-> rs[j]]]
    <2>1. Append([j \in 1..(k - 1) |-> rs[j]], rs[k]) = [j \in 1..k |-> rs[j]]
      <3>1. PICK s : s = [j \in 1..(k - 1) |-> rs[j]]
        OBVIOUS
      <3>2. s \in Seq(RevealedBytes) /\ Len(s) = k - 1 /\ \A j \in 1..(k - 1) : s[j] = rs[j]
        BY <1>1, <3>1
      <3>3. PICK t : t = Append(s, rs[k])
        OBVIOUS
      <3>4. /\ t \in Seq(RevealedBytes) /\ Len(t) = k
            /\ \A j \in 1..(k - 1) : t[j] = rs[j]
            /\ t[k] = rs[k]
        BY <1>1, <3>2, <3>3
      <3>5. t = [j \in 1..k |-> rs[j]]
        <4>1. DOMAIN t = 1..k /\ t = [j \in 1..Len(t) |-> t[j]]
          BY <3>4
        <4>2. \A j \in 1..k : t[j] = rs[j]
          <5> SUFFICES ASSUME NEW j \in 1..k, j # k PROVE t[j] = rs[j]
            BY <3>4
          <5>1. j \in 1..(k - 1)
            OBVIOUS
          <5>2. QED
            BY <3>4, <5>1
        <4>3. QED
          BY <3>4, <4>1, <4>2
      <3>6. QED
        BY <3>1, <3>3, <3>5
    <2>2. QED
      BY <1>7, <2>1
  <1>9. IsRead(closed)
    <2>1. ASSUME NEW k \in 0..N, k # 0
          PROVE  closed[k] = Next1(closed[k - 1])
      <3>1. k \in 1..N /\ k - 1 \in 0..N
        BY <2>1
      <3>2. /\ closed[k] = [at |-> place(k), got |-> [j \in 1..k |-> rs[j]]]
            /\ closed[k - 1] = [at |-> place(k - 1), got |-> [j \in 1..(k - 1) |-> rs[j]]]
        BY <3>1
      <3> HIDE DEF closed, Next1
      <3>3. QED
        BY <1>8, <3>1, <3>2
    <2>2. closed[0] = first
      <3>1. closed[0] = [at |-> place(0), got |-> [j \in 1..0 |-> rs[j]]] /\ place(0) = from + 1
        BY <1>6 DEF place
      <3>2. [j \in 1..0 |-> rs[j]] = <<>>
        OBVIOUS
      <3>3. QED
        BY <3>1, <3>2
    <2>3. DOMAIN closed = 0..N /\ closed = [k \in 0..N |-> closed[k]]
      OBVIOUS
    <2> HIDE DEF closed, Next1, first
    <2>4. QED
      BY <2>1, <2>2, <2>3
  <1> DEFINE f == CHOOSE f : IsRead(f)
  <1>10. IsRead(f)
    <2> HIDE DEF IsRead, closed
    <2> QED
      BY <1>9
  <1>11. ReadRevealed(e, from) = f[N]
    BY <1>5 DEF ReadRevealed, Got
  <1> HIDE DEF f, closed, Next1, first
  <1>12. \A k \in 0..N : f[k] = IF k = 0 THEN first ELSE Next1(f[k - 1])
    BY <1>10
  <1>13. \A k \in 0..N : closed[k] = IF k = 0 THEN first ELSE Next1(closed[k - 1])
    BY <1>9
  <1> DEFINE S == {k \in 0..N : f[k] = closed[k]}
  <1>14. 0..N \subseteq S
    <2>1. 0 \in S
      BY <1>12, <1>13
    <2>2. ASSUME NEW k \in 0..N, k < N, k \in S PROVE k + 1 \in S
      <3>1. k + 1 \in 0..N /\ k + 1 # 0 /\ (k + 1) - 1 = k
        BY <2>2
      <3>2. QED
        BY <1>12, <1>13, <2>2, <3>1
    <2> HIDE DEF S
    <2>3. QED
      BY <2>1, <2>2, Upwards, 0 \in Int, N \in Int
  <1>15. f[N] = [at |-> place(N), got |-> [j \in 1..N |-> rs[j]]]
    <2>1. N \in 0..N
      OBVIOUS
    <2>2. closed[N] = [at |-> place(N), got |-> [j \in 1..N |-> rs[j]]]
      BY <2>1 DEF closed
    <2>3. QED
      BY <1>14, <2>1, <2>2
  <1>16. [j \in 1..N |-> rs[j]] = rs
    BY <1>1
  <1>17. place(N) = from + Len(Vec(items))
    <2>1. Len(Vec(items)) = 1 + p[N] /\ p[N] \in Nat
      BY <1>5, <1>6
    <2>2. QED
      BY <2>1 DEF place
  <1>18. QED
    BY <1>2, <1>11, <1>15, <1>16, <1>17

(* The encodings of a list's members, as a list. *)
LEMMA EncodedLists ==
    ASSUME NEW V, Nat \subseteq V, NEW rs \in Seq(RevealedBytes), NEW cs \in Seq(Entry)
    PROVE  /\ Revealeds(rs) \in Seq(Seq(Fields(V))) /\ Len(Revealeds(rs)) = Len(rs)
           /\ \A k \in 1..Len(rs) : Revealeds(rs)[k] = RevealedRange(rs[k])
           /\ Commitments(cs) \in Seq(Seq(Fields(V))) /\ Len(Commitments(cs)) = Len(cs)
           /\ \A k \in 1..Len(cs) : Commitments(cs)[k] = RangeCommitment(cs[k])
  <1> DEFINE T == Seq(Fields(V))
  <1>1. \A r \in RevealedBytes : RevealedRange(r) \in T
    BY RangeFields
  <1>2. \A c \in Entry : RangeCommitment(c) \in T
    BY CommitmentFields
  <1>3. DOMAIN rs = 1..Len(rs) /\ DOMAIN cs = 1..Len(cs) /\ Len(rs) \in Nat /\ Len(cs) \in Nat
    OBVIOUS
  <1> HIDE DEF T
  <1>4. \A k \in 1..Len(rs) : Revealeds(rs)[k] = RevealedRange(rs[k]) /\ RevealedRange(rs[k]) \in T
    BY <1>1, <1>3 DEF Revealeds
  <1>5. \A k \in 1..Len(cs) : Commitments(cs)[k] = RangeCommitment(cs[k]) /\ RangeCommitment(cs[k]) \in T
    BY <1>2, <1>3 DEF Commitments
  <1>6. Revealeds(rs) \in [1..Len(rs) -> T]
    BY <1>3, <1>4 DEF Revealeds
  <1>7. Commitments(cs) \in [1..Len(cs) -> T]
    BY <1>3, <1>5 DEF Commitments
  <1>8. /\ Revealeds(rs) \in Seq(T) /\ Len(Revealeds(rs)) = Len(rs)
        /\ Commitments(cs) \in Seq(T) /\ Len(Commitments(cs)) = Len(cs)
    BY <1>3, <1>6, <1>7, SMTT(30)
  <1>9. QED
    BY <1>4, <1>5, <1>8 DEF T

(* Reading the commitments gives them back. *)
LEMMA CommitmentsAreRead ==
    ASSUME NEW V, Nat \subseteq V, NEW cs \in Seq(Entry),
           NEW e \in Seq(Fields(V)), NEW from \in Nat \ {0}, Spells(e, from, Vec(Commitments(cs)))
    PROVE  ReadCommitments(e, from) = [at |-> from + Len(Vec(Commitments(cs))), got |-> cs]
  <1>1. PICK N \in Nat : N = Len(cs) /\ \A k \in 1..N : cs[k] \in Entry
    OBVIOUS
  <1>2. PICK items \in Seq(Seq(Fields(V))) :
            items = Commitments(cs) /\ Len(items) = N
            /\ \A k \in 1..N : items[k] = RangeCommitment(cs[k])
    BY <1>1, EncodedLists, <<>> \in Seq(RevealedBytes)
  <1>3. /\ Value(e, from) = N /\ Spells(e, from + 1, Concat(items))
        /\ Len(Vec(items)) = 1 + Len(Concat(items))
    BY <1>2, VecFields
  <1>4. \A k \in 1..Len(items) : Len(items[k]) = 3
    <2>1. \A c \in Entry : Len(RangeCommitment(c)) = 3
      BY CommitmentFields
    <2>2. QED
      BY <1>1, <1>2, <2>1
  <1>5. /\ Len(Concat(items)) = 3 * N
        /\ \A k \in 1..N : Spells(e, (from + 1) + 3 * (k - 1), items[k])
    <2>1. from + 1 \in Nat \ {0} /\ 3 \in {1, 3}
      OBVIOUS
    <2>2. QED
      BY <1>2, <1>3, <1>4, <2>1, SpellsEven, ZenonT(60)
  <1>6. ASSUME NEW k \in 1..N
        PROVE  [start |-> Value(e, from + 3 * k - 2), end |-> Value(e, from + 3 * k - 1),
                commitment |-> Value(e, from + 3 * k)] = cs[k]
    <2>1. PICK q \in Nat \ {0} : q = (from + 1) + 3 * (k - 1)
      OBVIOUS
    <2>2. Spells(e, q, RangeCommitment(cs[k])) /\ cs[k] \in Entry
      BY <1>1, <1>2, <1>5, <2>1
    <2>3. /\ Value(e, q) = cs[k].start /\ Value(e, q + 1) = cs[k].end
          /\ Value(e, q + 2) = cs[k].commitment
      BY <2>2, CommitmentFields
    <2>4. from + 3 * k - 2 = q /\ from + 3 * k - 1 = q + 1 /\ from + 3 * k = q + 2
      BY <2>1
    <2>5. cs[k] = [start |-> cs[k].start, end |-> cs[k].end, commitment |-> cs[k].commitment]
      BY <2>2 DEF Entry
    <2>6. QED
      BY <2>3, <2>4, <2>5
  <1>7. [k \in 1..N |-> [start |-> Value(e, from + 3 * k - 2), end |-> Value(e, from + 3 * k - 1),
                         commitment |-> Value(e, from + 3 * k)]] = cs
    <2>1. cs = [k \in 1..N |-> cs[k]]
      BY <1>1
    <2>2. QED
      BY <1>6, <2>1
  <1>8. from + 1 + 3 * N = from + Len(Vec(items))
    BY <1>3, <1>5
  <1>9. QED
    BY <1>2, <1>3, <1>7, <1>8 DEF ReadCommitments

(* A block, its bytes, and their number. *)
LEMMA BlockFields ==
    ASSUME NEW V, Nat \subseteq V, NEW b \in BlockData
    PROVE  /\ DirectionBlock(b) = Vec(Revealeds(b.revealed)) \o Vec(Commitments(b.commitments))
           /\ Vec(Revealeds(b.revealed)) \in Seq(Fields(V))
           /\ Vec(Commitments(b.commitments)) \in Seq(Fields(V))
           /\ DirectionBlock(b) \in Seq(Fields(V))
           /\ Len(DirectionBlock(b)) =
                  Len(Vec(Revealeds(b.revealed))) + Len(Vec(Commitments(b.commitments)))
  <1>1. b.revealed \in Seq(RevealedBytes) /\ b.commitments \in Seq(Entry)
    BY DEF BlockData
  <1>2. DirectionBlock(b) = Vec(Revealeds(b.revealed)) \o Vec(Commitments(b.commitments))
    BY DEF DirectionBlock, Revealeds, Commitments
  <1>3. /\ Vec(Revealeds(b.revealed)) \in Seq(Fields(V))
        /\ Vec(Commitments(b.commitments)) \in Seq(Fields(V))
    BY <1>1, EncodedLists, VecFields
  <1>4. QED
    BY <1>2, <1>3

(* Reading a block gives it back. *)
LEMMA BlockIsRead ==
    ASSUME NEW V, Nat \subseteq V, NEW b \in BlockData,
           NEW e \in Seq(Fields(V)), NEW from \in Nat \ {0}, Spells(e, from, DirectionBlock(b))
    PROVE  ReadBlock(e, from) = [at |-> from + Len(DirectionBlock(b)), got |-> b]
  <1>1. PICK rs \in Seq(RevealedBytes), cs \in Seq(Entry) : rs = b.revealed /\ cs = b.commitments
    BY DEF BlockData
  <1>2. b = [revealed |-> rs, commitments |-> cs]
    BY <1>1 DEF BlockData
  <1>3. PICK x \in Seq(Fields(V)), y \in Seq(Fields(V)) :
               /\ x = Vec(Revealeds(rs)) /\ y = Vec(Commitments(cs))
               /\ DirectionBlock(b) = x \o y /\ Len(DirectionBlock(b)) = Len(x) + Len(y)
    BY <1>1, BlockFields
  <1>4. Spells(e, from, x) /\ Spells(e, from + Len(x), y) /\ from + Len(x) \in Nat \ {0}
    <2>1. Spells(e, from, x \o y)
      BY <1>3
    <2>2. QED
      BY <2>1, SpellsBoth
  <1>5. ReadRevealed(e, from) = [at |-> from + Len(x), got |-> rs]
    BY <1>3, <1>4, RevealedIsRead
  <1>6. PICK next \in Nat \ {0} : next = from + Len(x)
    BY <1>4
  <1>7. ReadCommitments(e, next) = [at |-> next + Len(y), got |-> cs]
    BY <1>3, <1>4, <1>6, CommitmentsAreRead
  <1>8. next + Len(y) = from + Len(DirectionBlock(b))
    BY <1>3, <1>6
  <1>9. QED
    BY <1>2, <1>5, <1>6, <1>7, <1>8 DEF ReadBlock

\* What a notary signs, under an authority of V.
RecordData(V) ==
    [authority_id : V, created_at : Nat, sent_transcript_length : Nat,
     recv_transcript_length : Nat, sent : BlockData, received : BlockData]

(* The header, and its width. *)
LEMMA HeaderFields ==
    ASSUME NEW V, NEW a \in V, NEW t \in V, NEW m \in V, NEW n \in V,
           NEW header, header = <<F(32, a), F(8, t), F(4, m), F(4, n)>>
    PROVE  /\ header \in Seq(Fields(V)) /\ Len(header) = 4 /\ EncodedLen(header) = HEADER_LEN
           /\ header[1].value = a /\ header[2].value = t
           /\ header[3].value = m /\ header[4].value = n
  <1>1. PICK f1 \in Fields(V), f2 \in Fields(V), f3 \in Fields(V), f4 \in Fields(V) :
            /\ f1 = F(32, a) /\ f2 = F(8, t) /\ f3 = F(4, m) /\ f4 = F(4, n)
            /\ f1.value = a /\ f2.value = t /\ f3.value = m /\ f4.value = n
            /\ f1.width = 32 /\ f2.width = 8 /\ f3.width = 4 /\ f4.width = 4
    <2>1. /\ F(32, a) \in Fields(V) /\ F(8, t) \in Fields(V)
          /\ F(4, m) \in Fields(V) /\ F(4, n) \in Fields(V)
      BY DEF F, Fields
    <2>2. QED
      BY <2>1 DEF F
  <1>2. /\ header \in Seq(Fields(V)) /\ Len(header) = 4
        /\ header[1] = f1 /\ header[2] = f2 /\ header[3] = f3 /\ header[4] = f4
    BY <1>1
  <1>3. EncodedLen(header) = 48
    <2>1. PICK f : Widths(header, f) /\ EncodedLen(header) = f[4]
      BY <1>2, EncodedLenSums
    <2>2. f[0] = 0 /\ f[1] = f[0] + 32 /\ f[2] = f[1] + 8 /\ f[3] = f[2] + 4 /\ f[4] = f[3] + 4
      <3>1. 1 \in 1..4 /\ 2 \in 1..4 /\ 3 \in 1..4 /\ 4 \in 1..4
            /\ 1 - 1 = 0 /\ 2 - 1 = 1 /\ 3 - 1 = 2 /\ 4 - 1 = 3
        OBVIOUS
      <3>2. \A k \in 1..4 : f[k] = f[k - 1] + header[k].width
        BY <1>2, <2>1 DEF Widths
      <3>3. f[0] = 0
        BY <2>1 DEF Widths
      <3>4. QED
        BY <1>1, <1>2, <3>1, <3>2, <3>3
    <2>3. QED
      BY <2>1, <2>2
  <1>4. QED
    BY <1>1, <1>2, <1>3 DEF HEADER_LEN

(* One forward pass over an encoding gives the record back and ends with it. *)
LEMMA RecordIsRead ==
    ASSUME NEW V, Nat \subseteq V, NEW data \in RecordData(V)
    PROVE  /\ ReadRecord(encode(data)) = [at |-> Len(encode(data)) + 1, got |-> data]
           /\ EncodedLen(encode(data)) = HEADER_LEN + EncodedLen(DirectionBlock(data.sent))
                                         + EncodedLen(DirectionBlock(data.received))
           /\ EncodedLen(DirectionBlock(data.sent)) \in Nat
           /\ EncodedLen(DirectionBlock(data.received)) \in Nat
  <1>1. /\ data.authority_id \in V /\ data.created_at \in V
        /\ data.sent_transcript_length \in V /\ data.recv_transcript_length \in V
        /\ data.sent \in BlockData /\ data.received \in BlockData
        /\ data = [authority_id |-> data.authority_id, created_at |-> data.created_at,
                   sent_transcript_length |-> data.sent_transcript_length,
                   recv_transcript_length |-> data.recv_transcript_length,
                   sent |-> data.sent, received |-> data.received]
    BY DEF RecordData
  <1>2. PICK header : header =
            <<F(32, data.authority_id), F(8, data.created_at),
              F(4, data.sent_transcript_length), F(4, data.recv_transcript_length)>>
    OBVIOUS
  <1>3. /\ header \in Seq(Fields(V)) /\ Len(header) = 4 /\ EncodedLen(header) = HEADER_LEN
        /\ header[1].value = data.authority_id /\ header[2].value = data.created_at
        /\ header[3].value = data.sent_transcript_length
        /\ header[4].value = data.recv_transcript_length
    <2>1. PICK a \in V, t \in V, m \in V, n \in V :
              /\ a = data.authority_id /\ t = data.created_at
              /\ m = data.sent_transcript_length /\ n = data.recv_transcript_length
      BY <1>1
    <2>2. header = <<F(32, a), F(8, t), F(4, m), F(4, n)>>
      BY <1>2, <2>1
    <2>3. /\ header \in Seq(Fields(V)) /\ Len(header) = 4 /\ EncodedLen(header) = HEADER_LEN
          /\ header[1].value = a /\ header[2].value = t
          /\ header[3].value = m /\ header[4].value = n
      BY <2>2, HeaderFields, SMTT(30)
    <2>4. QED
      BY <2>1, <2>3
  <1>4. PICK x \in Seq(Fields(V)), y \in Seq(Fields(V)) :
            x = DirectionBlock(data.sent) /\ y = DirectionBlock(data.received)
    BY <1>1, BlockFields
  <1>5. PICK hx \in Seq(Fields(V)), e \in Seq(Fields(V)) :
            /\ hx = header \o x /\ e = hx \o y
            /\ Len(hx) = 4 + Len(x) /\ Len(e) = Len(hx) + Len(y)
    <2>1. \A s, t \in Seq(Fields(V)) : s \o t \in Seq(Fields(V)) /\ Len(s \o t) = Len(s) + Len(t)
      OBVIOUS
    <2>2. PICK hx \in Seq(Fields(V)) : hx = header \o x /\ Len(hx) = 4 + Len(x)
      BY <1>3, <2>1, ZenonT(60)
    <2>3. PICK e \in Seq(Fields(V)) : e = hx \o y /\ Len(e) = Len(hx) + Len(y)
      BY <2>1
    <2>4. QED
      BY <2>2, <2>3
  <1>6. encode(data) = e
    BY <1>2, <1>4, <1>5 DEF encode
  <1>7. Spells(e, 1, e)
    <2>1. Len(e) \in Nat /\ \A k \in 1..Len(e) : 1 + k - 1 = k
      OBVIOUS
    <2>2. QED
      BY <2>1 DEF Spells
  <1>8. Spells(e, 1, hx) /\ Spells(e, 1 + Len(hx), y)
    <2>1. Spells(e, 1, hx \o y) /\ 1 \in Nat \ {0}
      BY <1>5, <1>7
    <2>2. QED
      BY <2>1, SpellsBoth
  <1>9. Spells(e, 1, header) /\ Spells(e, 5, x)
    <2>1. Spells(e, 1, header \o x) /\ 1 \in Nat \ {0}
      BY <1>5, <1>8
    <2>2. Spells(e, 1, header) /\ Spells(e, 1 + Len(header), x)
      BY <1>3, <2>1, SpellsBoth
    <2>3. QED
      BY <1>3, <2>2
  <1>10. /\ e[1].value = data.authority_id /\ e[2].value = data.created_at
         /\ e[3].value = data.sent_transcript_length
         /\ e[4].value = data.recv_transcript_length
    <2>1. \A k \in 1..4 : e[k] = header[k]
      <3>1. \A k \in 1..4 : 1 + k - 1 = k
        OBVIOUS
      <3>2. QED
        BY <1>3, <1>9, <3>1 DEF Spells
    <2>2. 1 \in 1..4 /\ 2 \in 1..4 /\ 3 \in 1..4 /\ 4 \in 1..4
      OBVIOUS
    <2>3. QED
      BY <1>3, <2>1, <2>2
  <1>11. ReadBlock(e, 5) = [at |-> 5 + Len(x), got |-> data.sent]
    BY <1>1, <1>4, <1>9, BlockIsRead, 5 \in Nat \ {0}
  <1>12. PICK next \in Nat \ {0} : next = 5 + Len(x) /\ next = 1 + Len(hx)
    <2>1. Len(x) \in Nat
      OBVIOUS
    <2>2. QED
      BY <1>5, <2>1
  <1>13. ReadBlock(e, next) = [at |-> next + Len(y), got |-> data.received]
    BY <1>1, <1>4, <1>8, <1>12, BlockIsRead
  <1>14. next + Len(y) = Len(e) + 1
    BY <1>5, <1>12
  <1>15. ReadRecord(e) = [at |-> Len(e) + 1, got |-> data]
    BY <1>1, <1>10, <1>11, <1>12, <1>13, <1>14 DEF ReadRecord
  <1>16. /\ EncodedLen(e) = EncodedLen(hx) + EncodedLen(y)
         /\ EncodedLen(hx) = EncodedLen(header) + EncodedLen(x)
         /\ EncodedLen(x) \in Nat /\ EncodedLen(y) \in Nat
    BY <1>3, <1>5, EncodedLenJoins
  <1>17. QED
    BY <1>3, <1>4, <1>6, <1>15, <1>16

(* What a block costs: a length for each list, a start and a length for each revealed
   range besides its bytes, and 40 bytes for a commitment. *)
LEMMA BlockCosts ==
    ASSUME NEW b \in BlockData
    PROVE  \E c \in [0..Len(b.revealed) -> Nat] :
               /\ c[0] = 0
               /\ \A n \in 1..Len(b.revealed) : c[n] = c[n - 1] + (12 + Len(b.revealed[n].bytes))
               /\ EncodedLen(DirectionBlock(b)) =
                      16 + c[Len(b.revealed)] + 40 * Len(b.commitments)
  <1>1. PICK rs \in Seq(RevealedBytes), cs \in Seq(Entry) : rs = b.revealed /\ cs = b.commitments
    BY DEF BlockData
  <1>2. PICK N \in Nat : N = Len(rs) /\ \A k \in 1..N : rs[k] \in RevealedBytes
    OBVIOUS
  <1>3. PICK x \in Seq(Fields(Nat)), y \in Seq(Fields(Nat)) :
               /\ x = Vec(Revealeds(rs)) /\ y = Vec(Commitments(cs))
               /\ DirectionBlock(b) = x \o y
    BY <1>1, BlockFields
  <1>4. EncodedLen(DirectionBlock(b)) = EncodedLen(x) + EncodedLen(y)
    BY <1>3, EncodedLenJoins
  <1>5. EncodedLen(y) = 8 + 40 * Len(cs)
    <2>1. PICK items \in Seq(Seq(Fields(Nat))) :
              items = Commitments(cs) /\ Len(items) = Len(cs)
              /\ \A k \in 1..Len(cs) : items[k] = RangeCommitment(cs[k])
      BY EncodedLists
    <2>2. \A c \in Entry : EncodedLen(RangeCommitment(c)) = 40
      BY CommitmentFields
    <2>3. \A k \in 1..Len(items) : EncodedLen(items[k]) = 40
      BY <2>1, <2>2
    <2>4. EncodedLen(Concat(items)) = 40 * Len(items)
      BY <2>3, EncodedLenEven, 40 \in {1, 40}
    <2>5. EncodedLen(Vec(items)) = 8 + EncodedLen(Concat(items))
      BY VecFields
    <2>6. QED
      BY <1>3, <2>1, <2>4, <2>5
  <1>6. PICK items \in Seq(Seq(Fields(Nat))) :
              items = Revealeds(rs) /\ Len(items) = N
              /\ \A k \in 1..N : items[k] = RevealedRange(rs[k])
    BY <1>2, EncodedLists
  <1>7. PICK c \in [0..N -> Nat] :
               /\ c[0] = 0 /\ c[N] = EncodedLen(Concat(items))
               /\ \A n \in 1..N : c[n] = c[n - 1] + EncodedLen(items[n])
    <2>1. \E c \in [0..Len(items) -> Nat] :
               /\ c[0] = 0 /\ c[Len(items)] = EncodedLen(Concat(items))
               /\ \A n \in 1..Len(items) : c[n] = c[n - 1] + EncodedLen(items[n])
      BY EncodedLenParts
    <2>2. QED
      BY <1>6, <2>1
  <1>8. EncodedLen(x) = 8 + c[N]
    <2>1. EncodedLen(Vec(items)) = 8 + EncodedLen(Concat(items))
      BY VecFields
    <2>2. QED
      BY <1>3, <1>6, <1>7, <2>1
  <1>9. ASSUME NEW n \in 1..N
        PROVE  c[n] = c[n - 1] + (12 + Len(rs[n].bytes))
    <2>1. PICK r \in RevealedBytes : r = rs[n]
      BY <1>2
    <2>2. EncodedLen(RevealedRange(r)) = 12 + Len(r.bytes) /\ Len(r.bytes) \in Nat
      <3>1. r.bytes \in Seq(Nat)
        BY DEF RevealedBytes
      <3>2. /\ RevealedRange(r) \in Seq(Fields(Nat))
            /\ EncodedLen(RevealedRange(r)) = 12 + Len(r.bytes)
        BY RangeFields
      <3>3. QED
        BY <3>1, <3>2
    <2>3. c[n - 1] \in Nat
      BY n - 1 \in 0..N
    <2>4. c[n] = c[n - 1] + (12 + Len(r.bytes))
      BY <1>6, <1>7, <2>1, <2>2
    <2>5. PICK l \in Nat, a \in Nat : l = Len(rs[n].bytes) /\ a = c[n - 1]
      BY <2>1, <2>2, <2>3
    <2>6. c[n] = a + (12 + l)
      BY <2>1, <2>4, <2>5
    <2>7. QED
      BY <2>5, <2>6
  <1>10. c[N] \in Nat /\ Len(cs) \in Nat
    BY N \in 0..N
  <1>11. EncodedLen(DirectionBlock(b)) = 16 + c[N] + 40 * Len(cs)
    BY <1>4, <1>5, <1>8, <1>10
  <1>12. QED
    BY <1>1, <1>2, <1>7, <1>9, <1>11

(* A span costs at most a commitment for every byte it has. *)
LEMMA SpanCost ==
    ASSUME NEW p \in Nat, NEW q \in Nat \ {0}, NEW s \in Nat, NEW e \in Nat, s < e,
           p + 40 * (q - 1) <= 40 * s
    PROVE  /\ (p + (12 + (e - s))) + 40 * (q - 1) <= 40 * e
           /\ p + 40 * ((q + 1) - 1) <= 40 * e
  OBVIOUS

(* A tiled direction costs at most a commitment for every byte it has. *)
LEMMA TiledCost ==
    ASSUME NEW lists, Spans(lists), NEW length \in Nat, Tiled(lists, length),
           NEW c \in [0..Len(lists[1]) -> Nat], c[0] = 0,
           \A n \in 1..Len(lists[1]) :
               c[n] = c[n - 1] + (12 + (lists[1][n].end - lists[1][n].start))
    PROVE  c[Len(lists[1])] + 40 * Len(lists[2]) <= 40 * length
  <1>1. PICK f : IsMerge(lists, f)
    BY MergeExists
  <1>2. PICK n1 \in Nat, n2 \in Nat : n1 = Len(lists[1]) /\ n2 = Len(lists[2])
    <2>1. 1 \in 1..2 /\ 2 \in 1..2
      OBVIOUS
    <2>2. QED
      BY <2>1 DEF Spans
  <1>3. PICK N \in Nat : N = n1 + n2
    OBVIOUS
  <1>4. SpansOf(lists, N)
    BY <1>2, <1>3 DEF SpansOf
  <1>5. /\ f[0] = [at |-> 0, next |-> <<1, 1>>, ok |-> TRUE]
        /\ \A n \in 0..N :
               /\ Passed(lists, length, n, f[n])
               /\ n < N => Hit(lists, f[n]) # {} /\ f[n + 1] = Advance(lists, f[n])
        /\ f[N].at = length
        /\ \A l \in 1..2 : f[N].next[l] = Len(lists[l]) + 1
    <2>1. PassesAll(lists, length, N, f)
      BY <1>1, <1>4, MergePasses
    <2>2. QED
      BY <2>1 DEF PassesAll
  <1> DEFINE Paid(m) == c[m.next[1] - 1] + 40 * (m.next[2] - 1) <= 40 * m.at
             S == {n \in 0..N : Paid(f[n])}
  <1>6. Paid(f[0])
    <2>1. f[0].at = 0 /\ f[0].next[1] = 1 /\ f[0].next[2] = 1
      BY <1>5
    <2>2. QED
      BY <2>1
  <1>7. ASSUME NEW n \in 0..N, n < N, Paid(f[n])
        PROVE  Paid(f[n + 1])
    <2>1. PICK m \in Marks : m = f[n]
      BY <1>5 DEF Passed
    <2>2. PICK l \in Hit(lists, m) : /\ f[n + 1].at = lists[l][m.next[l]].end
                                     /\ f[n + 1].next = [m.next EXCEPT ![l] = @ + 1]
      <3>1. Hit(lists, m) # {} /\ f[n + 1] = Advance(lists, m)
        BY <1>5, <1>7, <2>1
      <3>2. PICK l \in Hit(lists, m) :
                /\ Advance(lists, m).at = lists[l][m.next[l]].end
                /\ Advance(lists, m).next = [m.next EXCEPT ![l] = @ + 1]
                /\ Advance(lists, m).ok = m.ok
        <4>1. Hit(lists, m) # {} => \E l \in Hit(lists, m) :
                /\ Advance(lists, m).at = lists[l][m.next[l]].end
                /\ Advance(lists, m).next = [m.next EXCEPT ![l] = @ + 1]
                /\ Advance(lists, m).ok = m.ok
          BY AdvanceMarks
        <4>2. QED
          BY <3>1, <4>1
      <3>3. QED
        BY <3>1, <3>2
    <2>3. PICK at0 \in Nat, k \in Nat \ {0}, q \in Nat \ {0} :
              at0 = m.at /\ k = m.next[1] /\ q = m.next[2]
      BY DEF Marks
    <2>4. m.next \in [1..2 -> Nat \ {0}]
      BY DEF Marks
    <2>5. /\ l \in 1..2 /\ m.next[l] <= Len(lists[l]) /\ lists[l][m.next[l]].start = at0
      BY <2>3 DEF Hit
    <2>6. k <= n1 + 1
      BY <1>2, <1>5, <2>1, <2>3 DEF Passed
    <2>7. PICK p \in Nat : p = c[k - 1]
      BY <1>2, <2>6, k - 1 \in 0..n1
    <2>8. p + 40 * (q - 1) <= 40 * at0
      BY <1>7, <2>1, <2>3, <2>7
    <2>9. m.next[l] \in 1..Len(lists[l])
      BY <2>4, <2>5 DEF Spans
    <2>10. PICK end \in Nat : end = lists[l][m.next[l]].end /\ at0 < end
      BY <2>5, <2>9 DEF Spans, Tiled
    <2>11. CASE l = 1
      <3>1. f[n + 1].at = end /\ f[n + 1].next[1] = k + 1 /\ f[n + 1].next[2] = q
        BY <2>2, <2>3, <2>4, <2>10, <2>11
      <3>2. k \in 1..n1 /\ lists[1][k].end = end /\ lists[1][k].start = at0
        BY <1>2, <2>3, <2>5, <2>9, <2>10, <2>11
      <3>3. c[k] = p + (12 + (end - at0))
        BY <1>2, <2>7, <3>2
      <3>4. (p + (12 + (end - at0))) + 40 * (q - 1) <= 40 * end
        BY <2>8, <2>10, SpanCost
      <3>5. (k + 1) - 1 = k
        OBVIOUS
      <3>6. QED
        BY <3>1, <3>3, <3>4, <3>5
    <2>12. CASE l = 2
      <3>1. f[n + 1].at = end /\ f[n + 1].next[1] = k /\ f[n + 1].next[2] = q + 1
        BY <2>2, <2>3, <2>4, <2>10, <2>12
      <3>2. p + 40 * ((q + 1) - 1) <= 40 * end
        BY <2>8, <2>10, SpanCost
      <3>3. QED
        BY <2>7, <3>1, <3>2
    <2>13. QED
      BY <2>5, <2>11, <2>12
  <1> HIDE DEF Paid
  <1>8. 0..N \subseteq S
    <2>1. 0 \in S
      BY <1>6
    <2>2. \A n \in 0..N : n < N /\ n \in S => n + 1 \in S
      BY <1>7
    <2>3. QED
      <3> HIDE DEF S
      <3>1. N \in Int /\ 0 \in Int
        OBVIOUS
      <3>2. QED
        BY <2>1, <2>2, <3>1, Upwards
  <1>9. Paid(f[N])
    BY <1>8
  <1>10. f[N].next[1] = n1 + 1 /\ f[N].next[2] = n2 + 1 /\ f[N].at = length
    BY <1>2, <1>5
  <1>11. c[(n1 + 1) - 1] + 40 * ((n2 + 1) - 1) <= 40 * length
    BY <1>9, <1>10 DEF Paid
  <1>12. QED
    BY <1>2, <1>11, (n1 + 1) - 1 = n1, (n2 + 1) - 1 = n2

(* What is known of a block to be signed: the ranges it reveals with a byte for
   every place of theirs, and the commitments of the record. *)
LEMMA BlockIsData ==
    ASSUME RecordInv, NEW d \in Directions
    PROVE  /\ Block(d) \in BlockData
           /\ Block(d).commitments = out[d] /\ Len(Block(d).revealed) = Len(revealed[d])
           /\ \A k \in 1..Len(revealed[d]) :
                  Len(Block(d).revealed[k].bytes) = revealed[d][k].end - revealed[d][k].start
  <1>1. PICK rs \in Seq(UsizeRange), cs \in Seq(Entry) : rs = revealed[d] /\ cs = out[d]
    BY DEF RecordInv, Shapes
  <1>2. MaxLen \in Nat
    BY LimitsAssumption
  <1> DEFINE bytes(r) == [b \in 1..(r.end - r.start) |-> Byte(d, r.start + b)]
             range(r) == [start |-> r.start, bytes |-> bytes(r)]
             ranges == [k \in DOMAIN rs |-> range(rs[k])]
  <1>3. ASSUME NEW r \in UsizeRange
        PROVE  range(r) \in RevealedBytes /\ Len(bytes(r)) = r.end - r.start
    <2>1. PICK n \in Nat, start \in Nat : n = r.end - r.start /\ start = r.start
      BY DEF UsizeRange
    <2>2. \A b \in 1..n : Byte(d, r.start + b) \in Nat
      <3> SUFFICES ASSUME NEW b \in 1..n PROVE Byte(d, start + b) \in Nat
        BY <2>1
      <3>1. PICK place \in Nat : place = start + b
        OBVIOUS
      <3>2. place \in Nat /\ MaxLen + place \in Nat
        BY <1>2
      <3>3. QED
        BY <3>1, <3>2 DEF Byte
    <2>3. bytes(r) = [b \in 1..n |-> Byte(d, r.start + b)]
      BY <2>1
    <2>4. bytes(r) \in Seq(Nat) /\ Len(bytes(r)) = n
      <3> HIDE DEF bytes
      <3> QED
        BY <2>2, <2>3
    <2>5. QED
      <3> HIDE DEF bytes
      <3> QED
        BY <2>1, <2>4 DEF RevealedBytes
  <1> HIDE DEF range, bytes
  <1>4. DOMAIN rs = 1..Len(rs) /\ Len(rs) \in Nat /\ \A k \in 1..Len(rs) : rs[k] \in UsizeRange
    OBVIOUS
  <1>5. ranges \in Seq(RevealedBytes) /\ Len(ranges) = Len(rs)
        /\ \A k \in 1..Len(rs) : ranges[k] = range(rs[k])
    BY <1>3, <1>4
  <1> HIDE DEF ranges
  <1>6. Block(d) = [revealed |-> ranges, commitments |-> cs]
    BY <1>1 DEF Block, ranges, range, bytes
  <1>7. \A k \in 1..Len(rs) : ranges[k].bytes = bytes(rs[k])
    <2>1. \A r : range(r).bytes = bytes(r)
      BY DEF range
    <2>2. QED
      BY <1>5, <2>1
  <1>8. QED
    BY <1>1, <1>3, <1>4, <1>5, <1>6, <1>7 DEF BlockData

(* The record to be signed is one, under the lowercase authority. *)
LEMMA DataIsRecord ==
    ASSUME RecordInv, NEW id, id = [name |-> Job, upper |-> FALSE]
    PROVE  /\ Data \in RecordData(Nat \cup {id})
           /\ Data.sent = Block("Sent") /\ Data.received = Block("Received")
           /\ Data = [Data EXCEPT !.authority_id = id]
  <1>1. session.len["Sent"] \in Nat /\ session.len["Received"] \in Nat
    BY DEF RecordInv, Shapes, IsSession, Directions
  <1>2. PICK x \in BlockData, y \in BlockData : x = Block("Sent") /\ y = Block("Received")
    <2>1. \A d \in Directions : Block(d) \in BlockData
      BY BlockIsData
    <2>2. "Sent" \in Directions /\ "Received" \in Directions
      BY DEF Directions
    <2>3. QED
      BY <2>1, <2>2
  <1>3. authority_id_of(Authority) = id
    <2>1. PICK name : name = Job
      OBVIOUS
    <2>2. [[name |-> name, upper |-> TRUE] EXCEPT !.upper = FALSE]
              = [name |-> name, upper |-> FALSE]
      <3> DEFINE Names == [name : {name}, upper : BOOLEAN]
      <3>1. PICK given \in Names : given = [name |-> name, upper |-> TRUE]
        OBVIOUS
      <3>2. PICK lower \in Names : lower = [name |-> name, upper |-> FALSE]
        OBVIOUS
      <3>3. [given EXCEPT !.upper = FALSE] = lower
        BY <3>2
      <3>4. QED
        BY <3>1, <3>2, <3>3
    <2>3. QED
      BY <2>1, <2>2 DEF authority_id_of, Authority
  <1>4. Data = [authority_id |-> id, created_at |-> T0,
                sent_transcript_length |-> session.len["Sent"],
                recv_transcript_length |-> session.len["Received"],
                sent |-> x, received |-> y]
    BY <1>2, <1>3 DEF Data
  <1>5. T0 \in Nat
    BY DEF T0
  <1> DEFINE V == Nat \cup {id}
  <1>6. id \in V
    OBVIOUS
  <1>7. Data \in RecordData(V)
    <2> HIDE DEF V
    <2> QED
      BY <1>1, <1>4, <1>5, <1>6 DEF RecordData
  <1>8. Data.sent = x /\ Data.received = y /\ Data = [Data EXCEPT !.authority_id = id]
    <2>1. Data.sent = x /\ Data.received = y /\ Data.authority_id = id
      BY <1>4
    <2> HIDE DEF V
    <2>2. PICK data \in RecordData(V) : data = Data /\ data.authority_id = id
      BY <1>7, <2>1
    <2>3. data = [data EXCEPT !.authority_id = id]
      BY <2>2 DEF RecordData
    <2>4. QED
      BY <2>1, <2>2, <2>3
  <1>9. QED
    BY <1>2, <1>7, <1>8

(* What is signed is read back whole, and ends with its bytes. *)
LEMMA SignedIsRead == RecordInv => ForwardPassDecodes
  <1> SUFFICES ASSUME RecordInv PROVE ForwardPassDecodes
    OBVIOUS
  <1>1. PICK id : id = [name |-> Job, upper |-> FALSE]
    OBVIOUS
  <1>2. PICK data \in RecordData(Nat \cup {id}) :
            data = Data /\ data = [data EXCEPT !.authority_id = id]
    BY <1>1, DataIsRecord
  <1>3. ReadRecord(encode(data)) = [at |-> Len(encode(data)) + 1, got |-> data]
    <2>1. Nat \subseteq Nat \cup {id}
      OBVIOUS
    <2>2. QED
      BY <2>1, RecordIsRead
  <1>4. QED
    BY <1>1, <1>2, <1>3 DEF ForwardPassDecodes

(* The bytes a notary signs spell one record (attestation.rs, encode): a reader that
   goes forward once gets back every field, range, byte and commitment and ends with
   the bytes, for every session, whoever made it. *)
THEOREM SignedRecordsDecode == CeremonySpec => []ForwardPassDecodes
  <1>1. CeremonyInv => ForwardPassDecodes
    BY SignedIsRead DEF CeremonyInv
  <1>2. QED
    BY <1>1, CeremonyInvariance, PTL

(* The cost of a laid-out block. *)
LEMMA BlockFits ==
    ASSUME CeremonyInv, phase = "done", NEW d \in Directions, LaidOut(d)
    PROVE  EncodedLen(DirectionBlock(Block(d))) <= 16 + 40 * session.len[d]
  <1>1. RecordInv
    BY DEF CeremonyInv
  <1>2. PICK lists : lists = <<revealed[d], out[d]>>
    OBVIOUS
  <1>3. lists[1] = revealed[d] /\ lists[2] = out[d]
    BY <1>2
  <1>4. PICK length \in Nat : length = session.len[d]
    BY <1>1 DEF RecordInv, Shapes, IsSession
  <1>5. Spans(lists) /\ Tiled(lists, length)
    BY <1>1, <1>2, <1>4, BlockIsTiled
  <1>6. PICK b \in BlockData :
            /\ b = Block(d) /\ b.commitments = out[d] /\ Len(b.revealed) = Len(revealed[d])
            /\ \A k \in 1..Len(revealed[d]) :
                   Len(b.revealed[k].bytes) = revealed[d][k].end - revealed[d][k].start
    BY <1>1, BlockIsData
  <1>7. PICK c \in [0..Len(b.revealed) -> Nat] :
               /\ c[0] = 0
               /\ \A n \in 1..Len(b.revealed) : c[n] = c[n - 1] + (12 + Len(b.revealed[n].bytes))
               /\ EncodedLen(DirectionBlock(b)) =
                      16 + c[Len(b.revealed)] + 40 * Len(b.commitments)
    BY BlockCosts
  <1>8. /\ c \in [0..Len(lists[1]) -> Nat] /\ c[0] = 0
        /\ \A n \in 1..Len(lists[1]) :
               c[n] = c[n - 1] + (12 + (lists[1][n].end - lists[1][n].start))
    BY <1>3, <1>6, <1>7, ZenonT(60)
  <1>9. c[Len(lists[1])] + 40 * Len(lists[2]) <= 40 * length
    BY <1>5, <1>8, TiledCost
  <1>10. PICK a \in Nat, m \in Nat : a = c[Len(lists[1])] /\ m = Len(lists[2])
    <2>1. Len(lists[1]) \in Nat /\ Len(lists[2]) \in Nat
      <3>1. 1 \in 1..2 /\ 2 \in 1..2
        OBVIOUS
      <3>2. QED
        BY <1>5, <3>1 DEF Spans
    <2>2. Len(lists[1]) \in 0..Len(lists[1])
      BY <2>1
    <2>3. QED
      BY <1>8, <2>1, <2>2
  <1>11. EncodedLen(DirectionBlock(b)) = 16 + a + 40 * m
    BY <1>3, <1>6, <1>7, <1>10
  <1>12. a + 40 * m <= 40 * length
    BY <1>9, <1>10
  <1>13. 16 + a + 40 * m <= 16 + 40 * length
    BY <1>12
  <1>14. QED
    BY <1>4, <1>6, <1>11, <1>13

(* What a record of the crate's own costs. *)
LEMMA OwnRecordCosts ==
    ASSUME CeremonyInv, Own, phase = "done"
    PROVE  /\ EncodedLen(encode(Data)) \in Nat \ {0}
           /\ EncodedLen(encode(Data))
                  <= HEADER_LEN + 32 + 40 * (session.len["Sent"] + session.len["Received"])
  <1>1. RecordInv
    BY DEF CeremonyInv
  <1>2. PICK id : id = [name |-> Job, upper |-> FALSE]
    OBVIOUS
  <1>3. PICK data \in RecordData(Nat \cup {id}) :
            data = Data /\ data.sent = Block("Sent") /\ data.received = Block("Received")
    BY <1>1, <1>2, DataIsRecord
  <1>4. /\ EncodedLen(encode(data)) = HEADER_LEN + EncodedLen(DirectionBlock(data.sent))
                                       + EncodedLen(DirectionBlock(data.received))
        /\ EncodedLen(DirectionBlock(data.sent)) \in Nat
        /\ EncodedLen(DirectionBlock(data.received)) \in Nat
    <2>1. Nat \subseteq Nat \cup {id}
      OBVIOUS
    <2>2. QED
      BY <2>1, RecordIsRead
  <1>5. \A d \in Directions : EncodedLen(DirectionBlock(Block(d))) <= 16 + 40 * session.len[d]
    <2>1. phase # "lengths"
      OBVIOUS
    <2>2. QED
      BY <2>1, OwnIsLaidOut, BlockFits
  <1>6. PICK x \in Nat, y \in Nat : /\ x = EncodedLen(DirectionBlock(Block("Sent")))
                                    /\ y = EncodedLen(DirectionBlock(Block("Received")))
    BY <1>3, <1>4
  <1>7. PICK m \in Nat, n \in Nat : m = session.len["Sent"] /\ n = session.len["Received"]
    BY <1>1 DEF RecordInv, Shapes, IsSession, Directions
  <1>8. x <= 16 + 40 * m /\ y <= 16 + 40 * n
    BY <1>5, <1>6, <1>7 DEF Directions
  <1>9. EncodedLen(encode(Data)) = 48 + x + y
    BY <1>3, <1>4, <1>6 DEF HEADER_LEN
  <1>10. /\ 48 + x + y <= 48 + 32 + 40 * (m + n)
         /\ 48 + x + y \in Nat \ {0}
    BY <1>8
  <1>11. QED
    BY <1>7, <1>9, <1>10 DEF HEADER_LEN

(* It is within what a session at its limits may cost. *)
LEMMA RecordFits == CeremonyInv => RecordFitsTheResponse
  <1>1. HEADER_LEN + 32 + 40 * (MAX_SENT_DATA + MAX_RECV_DATA) <= MAX_ATTESTED_DATA_BYTES
    BY DEF HEADER_LEN, MAX_SENT_DATA, MAX_RECV_DATA, MAX_ATTESTED_DATA_BYTES
  <1>2. QED
    BY <1>1, OwnRecordCosts DEF RecordFitsTheResponse

(* A record of the crate's own fits the response that carries it
   (token_exchange.rs, MAX_ATTESTED_DATA_BYTES): whatever the layouts are, no byte of
   a session costs more than a commitment, and the verifier's limits keep the whole
   within the bound. *)
THEOREM RecordsFitTheResponse == CeremonySpec => []RecordFitsTheResponse
  BY RecordFits, CeremonyInvariance, PTL

-----------------------------------------------------------------------------
(* What the two validates judge.                                           *)

\* A request and a response stay within the limits of a session.
Limits ==
    /\ Whole(ex.req) <= MAX_SENT_DATA
    /\ stage = "layout" /\ laying = "Received" => len <= MAX_RECV_DATA
    /\ Own => session.len["Sent"] <= MAX_SENT_DATA /\ session.len["Received"] <= MAX_RECV_DATA

\* A verdict is the end of a session, and of its credential only.
Judged ==
    verdict # NoVerdict =>
        /\ stage \in {"done", "failed"}
        /\ verdict.error = "none" <=>
               Credential(verdict.text, IF phase = "done" THEN MAX_ACCESS_TOKEN_BYTES
                                        ELSE MAX_CODE_BYTES)

(* A session that goes on keeps to its limits. *)
LEMMA LimitsStay ==
    ASSUME Limits, ex'.req = ex.req, session'.len = session.len, origin' = origin,
           stage' = "layout" /\ laying' = "Received" => len' <= MAX_RECV_DATA
    PROVE  Limits'
  BY DEF Limits, Own, Whole

(* Nothing is judged while a session is under way. *)
LEMMA JudgedStays ==
    ASSUME Judged, verdict' = verdict,
           stage \notin {"done", "failed"} \/ (stage' = stage /\ phase' = phase)
    PROVE  Judged'
  BY DEF Judged, NoVerdict

(* The texts a credential is tried with. *)
LEMMA TextsAre ==
    ASSUME NEW max \in Nat, NEW text \in Texts(max)
    PROVE  \E n \in Nat : \E p \in BOOLEAN : text = Text(n, p)
  <1>0. text \in {Text(n, p) : n \in {0, 1, max, max + 1}, p \in BOOLEAN}
    BY DEF Texts
  <1>1. PICK n \in {0, 1, max, max + 1}, p \in BOOLEAN : text = Text(n, p)
    BY <1>0
  <1>2. n \in Nat
    OBVIOUS
  <1>3. QED
    BY <1>1, <1>2

(* validate refuses a text exactly when it is no credential of at most max bytes, if
   nothing else is wrong. *)
LEMMA CredentialIffNone ==
    ASSUME NEW n \in Nat, NEW p \in BOOLEAN
    PROVE  /\ ValidateRequest([code |-> Text(n, p), code_verifier |-> code_verifier]) = "none"
                  <=> Credential(Text(n, p), MAX_CODE_BYTES)
           /\ \A max \in Nat : Credential(Text(n, p), max) <=> n # 0 /\ ~(n > max) /\ p
  <1>1. Text(n, p).len = n /\ Text(n, p).printable = p
    BY DEF Text
  <1>2. code_verifier.len = 43 /\ code_verifier.printable
    BY DEF code_verifier, base64url_nopad, Text
  <1>3. ValidateRequest([code |-> Text(n, p), code_verifier |-> code_verifier]) = "none"
            <=> n # 0 /\ ~(n > MAX_CODE_BYTES) /\ p
    BY <1>1, <1>2 DEF ValidateRequest, CODE_VERIFIER_LEN
  <1>4. \A max \in Nat : Credential(Text(n, p), max) <=> n # 0 /\ ~(n > max) /\ p
    BY <1>1 DEF Credential
  <1>5. MAX_CODE_BYTES \in Nat
    BY DEF MAX_CODE_BYTES
  <1>6. QED
    BY <1>3, <1>4, <1>5

(* The same for a response with a record that fits. *)
LEMMA BearerIffNone ==
    ASSUME NEW n \in Nat, NEW p \in BOOLEAN,
           NEW size \in Nat \ {0}, size <= MAX_ATTESTED_DATA_BYTES
    PROVE  ValidateResponse([access_token |-> Text(n, p), signature |-> 65,
                             attested_data |-> size, bearer_opening |-> 16]) = "none"
               <=> Credential(Text(n, p), MAX_ACCESS_TOKEN_BYTES)
  <1>1. Text(n, p).len = n /\ Text(n, p).printable = p
    BY DEF Text
  <1>2. ValidateResponse([access_token |-> Text(n, p), signature |-> 65,
                          attested_data |-> size, bearer_opening |-> 16]) = "none"
            <=> n # 0 /\ ~(n > MAX_ACCESS_TOKEN_BYTES) /\ p
    BY <1>1 DEF ValidateResponse, SIGNATURE_LEN, BEARER_OPENING_LEN, MAX_ATTESTED_DATA_BYTES
  <1>3. MAX_ACCESS_TOKEN_BYTES \in Nat
    BY DEF MAX_ACCESS_TOKEN_BYTES
  <1>4. QED
    BY <1>2, <1>3, CredentialIffNone

(* No credential has been judged when a ceremony begins. *)
LEMMA JudgingStarts == CeremonyInit => Limits /\ Judged
  <1> SUFFICES ASSUME CeremonyInit PROVE Limits /\ Judged
    OBVIOUS
  <1>1. Judged
    BY DEF CeremonyInit, Judged
  <1>2. job \in 1..4 /\ laying = "Sent" /\ (Own => session = NoSession)
    BY DEF CeremonyInit, Own
  <1>3. PICK r \in Requests[Job.kind] : ex = ExInit(r)
    BY DEF CeremonyInit
  <1>4. Whole(ex.req) <= MAX_SENT_DATA
    <2>1. Job.kind \in {"token", "identity"}
      BY <1>2, JobKinds DEF Job
    <2>2. QED
      BY <1>3, <2>1, LimitsAssumption DEF ExInit
  <1>5. NoSession.len["Sent"] = 0 /\ NoSession.len["Received"] = 0
    BY DEF NoSession, Directions
  <1>6. Limits
    BY <1>2, <1>4, <1>5 DEF Limits, MAX_SENT_DATA, MAX_RECV_DATA
  <1>7. QED
    BY <1>1, <1>6

(* A service judges a request. *)
LEMMA RequestIsJudged == ASSUME CeremonyInv, Limits, Judged, TokenRequest PROVE Limits' /\ Judged'
  <1>1. /\ stage = "request" /\ stage' \in {"layout", "failed"}
        /\ UNCHANGED <<recordVars, ex, layoutVars, origin, laying>>
    BY DEF TokenRequest
  <1>2. phase = "lengths" /\ laying = "Sent"
    BY <1>1 DEF CeremonyInv, Control, RecordInit
  <1>3. Limits'
    BY <1>1, <1>2, LimitsStay DEF recordVars
  <1>4. PICK code \in Texts(MAX_CODE_BYTES) :
            LET e == ValidateRequest([code |-> code, code_verifier |-> code_verifier]) IN
            IF e = "none" THEN stage' = "layout" /\ UNCHANGED verdict
            ELSE stage' = "failed" /\ verdict' = [text |-> code, error |-> e]
    BY DEF TokenRequest
  <1>5. PICK e : e = ValidateRequest([code |-> code, code_verifier |-> code_verifier])
    OBVIOUS
  <1>6. e = "none" <=> Credential(code, MAX_CODE_BYTES)
    <2>1. PICK n \in Nat : \E p \in BOOLEAN : code = Text(n, p)
      BY TextsAre, MAX_CODE_BYTES \in Nat DEF MAX_CODE_BYTES
    <2>2. PICK p \in BOOLEAN : code = Text(n, p)
      BY <2>1
    <2>3. ValidateRequest([code |-> Text(n, p), code_verifier |-> code_verifier]) = "none"
              <=> Credential(Text(n, p), MAX_CODE_BYTES)
      BY CredentialIffNone
    <2>4. QED
      BY <1>5, <2>2, <2>3
  <1>7. CASE e = "none"
    <2>1. verdict' = verdict
      BY <1>4, <1>5, <1>7
    <2>2. QED
      BY <1>1, <1>3, <2>1, JudgedStays
  <1>8. CASE e # "none"
    <2>1. stage' = "failed" /\ verdict' = [text |-> code, error |-> e] /\ phase' = "lengths"
      BY <1>1, <1>2, <1>4, <1>5, <1>8 DEF recordVars
    <2>2. verdict'.error = e /\ verdict'.text = code
      BY <2>1
    <2>3. QED
      BY <1>3, <1>6, <1>8, <2>1, <2>2 DEF Judged
  <1>9. QED
    BY <1>3, <1>7, <1>8

(* A caller judges a response. *)
LEMMA ResponseIsJudged == ASSUME CeremonyInv, Limits, Judged, Respond PROVE Limits' /\ Judged'
  <1>1. /\ stage = "record" /\ stage' \in {"done", "failed"} /\ phase = "done" /\ origin = "prover"
        /\ UNCHANGED <<recordVars, ex, layoutVars, origin, laying>>
    BY DEF Respond
  <1>2. Limits'
    BY <1>1, LimitsStay DEF recordVars
  <1>3. PICK bearer \in Texts(MAX_ACCESS_TOKEN_BYTES), recid \in {0, 1} :
           LET signature == sign_eth_claim("notary", encode(Data), recid)
               e == ValidateResponse([access_token |-> bearer, signature |-> signature.len,
                                      attested_data |-> EncodedLen(encode(Data)),
                                      bearer_opening |-> BlinderLen])
           IN  /\ stage' = IF e = "none" THEN "done" ELSE "failed"
               /\ verdict' = [text |-> bearer, error |-> e]
    BY DEF Respond
  <1>4. sign_eth_claim("notary", encode(Data), recid).len = 65
    BY DEF sign_eth_claim
  <1>5. PICK size \in Nat \ {0} : size = EncodedLen(encode(Data)) /\ size <= MAX_ATTESTED_DATA_BYTES
    <2>1. Own
      BY <1>1 DEF Own
    <2>2. PICK m \in Nat, n \in Nat : m = session.len["Sent"] /\ n = session.len["Received"]
      BY DEF CeremonyInv, RecordInv, Shapes, IsSession, Directions
    <2>3. PICK size \in Nat \ {0} : /\ size = EncodedLen(encode(Data))
                                    /\ size <= HEADER_LEN + 32 + 40 * (m + n)
      BY <1>1, <2>1, <2>2, OwnRecordCosts
    <2>4. m <= 4096 /\ n <= 32768
      BY <2>1, <2>2 DEF Limits, MAX_SENT_DATA, MAX_RECV_DATA
    <2>5. size <= 2 * 1024 * 1024
      BY <2>3, <2>4 DEF HEADER_LEN
    <2>6. QED
      BY <2>3, <2>5 DEF MAX_ATTESTED_DATA_BYTES
  <1>6. PICK e : e = ValidateResponse([access_token |-> bearer, signature |-> 65,
                                       attested_data |-> size, bearer_opening |-> 16])
    OBVIOUS
  <1>7. verdict' = [text |-> bearer, error |-> e]
    BY <1>3, <1>4, <1>5, <1>6 DEF BlinderLen
  <1>8. e = "none" <=> Credential(bearer, MAX_ACCESS_TOKEN_BYTES)
    <2>1. PICK n \in Nat : \E p \in BOOLEAN : bearer = Text(n, p)
      BY TextsAre, MAX_ACCESS_TOKEN_BYTES \in Nat DEF MAX_ACCESS_TOKEN_BYTES
    <2>2. PICK p \in BOOLEAN : bearer = Text(n, p)
      BY <2>1
    <2>3. ValidateResponse([access_token |-> Text(n, p), signature |-> 65,
                            attested_data |-> size, bearer_opening |-> 16]) = "none"
              <=> Credential(Text(n, p), MAX_ACCESS_TOKEN_BYTES)
      BY <1>5, BearerIffNone
    <2>4. QED
      BY <1>6, <2>2, <2>3
  <1>9. phase' = "done" /\ verdict'.error = e /\ verdict'.text = bearer
    BY <1>1, <1>7 DEF recordVars
  <1>10. Judged'
    BY <1>1, <1>8, <1>9 DEF Judged
  <1>11. QED
    BY <1>2, <1>10

(* A proof does not change what a session carried. *)
LEMMA ProveKeepsLength == ASSUME CeremonyInv, Prove PROVE session'.len = session.len
  <1> DEFINE authed == [d \in Directions |-> RangeSet(layouts[d].reveal)]
  <1>1. stage = "commit"
    BY DEF Prove
  <1>2. PICK s \in SetToSeqs(transcript_commit_config) :
            LET commits == IF origin = "fixture" THEN ordered(s) ELSE s IN
            /\ session' = [session EXCEPT !.authed = authed, !.commits = commits]
            /\ openings' = {Opening(commits[n], n) : n \in DOMAIN commits}
    BY ZenonT(30) DEF Prove
  <1>3. PICK commits : commits = IF origin = "fixture" THEN ordered(s) ELSE s
    OBVIOUS
  <1> HIDE DEF authed
  <1>4. session' = [session EXCEPT !.authed = authed, !.commits = commits]
    BY <1>2, <1>3
  <1>5. PICK n : session = [NoSession EXCEPT !.len = n]
    BY <1>1 DEF CeremonyInv, Laying
  <1>6. QED
    BY <1>4, <1>5 DEF NoSession

(* Every other step keeps to the limits and judges nothing. *)
LEMMA JudgingKept ==
    CeremonyInv /\ Limits /\ Judged /\ [CeremonyNext]_allVars => Limits' /\ Judged'
  <1> SUFFICES ASSUME CeremonyInv, Limits, Judged, [CeremonyNext]_allVars
               PROVE  Limits' /\ Judged'
    OBVIOUS
  <1>0. stage = "layout" /\ laying = "Received" => len <= MAX_RECV_DATA
    BY DEF Limits
  <1>1. CASE Sending
    <2>1. /\ stage = "exchange" /\ stage' = stage /\ UNCHANGED <<recordVars, origin, verdict>>
          /\ ExchangeStep
      BY <1>1 DEF Sending, ceremony
    <2>2. ex'.req = ex.req
      <3>1. ex \in [req : [head : Nat, body : Nat], wrote : Nat, sent : Nat, answered : Nat,
                    got : Nat, server : {"reading", "answering", "returned"},
                    client : {"sending", "answered"}]
        BY DEF CeremonyInv, Exchanging
      <3>2. CASE ClientWrite
        BY <3>1, <3>2 DEF ClientWrite
      <3>3. CASE ServerRead
        BY <3>1, <3>3 DEF ServerRead
      <3>4. CASE ServerWrite
        BY <3>1, <3>4 DEF ServerWrite
      <3>5. CASE ServerShutdown
        BY <3>1, <3>5 DEF ServerShutdown
      <3>6. CASE ClientRead
        BY <3>1, <3>6 DEF ClientRead
      <3>7. QED
        BY <2>1, <3>2, <3>3, <3>4, <3>5, <3>6 DEF ExchangeStep
    <2>3. QED
      BY <2>1, <2>2, LimitsStay, JudgedStays DEF recordVars
  <1>2. CASE Exchanged
    <2>1. /\ stage = "exchange" /\ UNCHANGED <<recordVars, ex, origin, verdict, laying>>
      BY <1>2 DEF Exchanged, ceremony
    <2>2. laying = "Sent"
      BY <2>1 DEF CeremonyInv, Control
    <2>3. QED
      BY <2>1, <2>2, LimitsStay, JudgedStays DEF recordVars
  <1>3. CASE LayOut
    <2>1. /\ stage = "layout" /\ stage' = stage
          /\ UNCHANGED <<recordVars, ex, origin, verdict, laying>>
      BY <1>3 DEF LayOut, ceremony
    <2>2. \/ LP!token_request \/ LP!token_response \/ LP!identity_request \/ LP!identity_response
          \/ LP!SortByStart \/ LP!WalkRange \/ LP!WalkEnd
      BY <1>3, SameLayout, ConstructIs DEF LayOut, CeremonyInv
    <2>3. len' = len
      BY <2>2 DEF LP!token_request, LP!token_response, LP!identity_request,
                  LP!identity_response, LP!revealing, LP!Refuse, LP!SortByStart,
                  LP!WalkRange, LP!WalkEnd
    <2>4. QED
      BY <1>0, <2>1, <2>3, LimitsStay, JudgedStays DEF recordVars
  <1>4. CASE LayoutRefused \/ RecordRefused \/ Recorded
    <2>1. /\ stage \notin {"done", "failed"} /\ stage' \in {"done", "failed"}
          /\ UNCHANGED <<recordVars, ex, origin, verdict>>
      BY <1>4 DEF LayoutRefused, RecordRefused, Recorded, ceremony
    <2>2. QED
      BY <2>1, LimitsStay, JudgedStays DEF recordVars
  <1>5. CASE LaidOutOne
    <2>1. /\ stage = "layout" /\ UNCHANGED <<phase, ex, ceremony>>
          /\ origin' = origin /\ verdict' = verdict
      BY <1>5 DEF LaidOutOne, ceremony
    <2>2. Judged'
      BY <2>1, JudgedStays
    <2>3. CASE laying = "Sent"
      <3>1. len' \in Recvs /\ session' = session
        BY <1>5, <2>3 DEF LaidOutOne
      <3>2. len' <= MAX_RECV_DATA
        BY <3>1, LimitsAssumption
      <3>3. QED
        BY <2>1, <2>2, <3>1, <3>2, LimitsStay
    <2>4. CASE laying # "Sent"
      <3>1. stage' = "commit" /\ len' = len
            /\ session' = [session EXCEPT !.len = [Sent |-> Whole(ex.req), Received |-> len]]
        BY <1>5, <2>4 DEF LaidOutOne
      <3>2. laying = "Received" /\ session = NoSession
        BY <2>1, <2>4 DEF CeremonyInv, Control, Directions
      <3>3. session'.len["Sent"] = Whole(ex.req) /\ session'.len["Received"] = len
        BY <3>1, <3>2 DEF NoSession
      <3>4. ex'.req = ex.req /\ Whole(ex.req) <= MAX_SENT_DATA /\ len <= MAX_RECV_DATA
        BY <1>0, <2>1, <3>2 DEF Limits
      <3>5. Limits'
        BY <3>1, <3>3, <3>4 DEF Limits, Whole
      <3>6. QED
        BY <2>2, <3>5
    <2>5. QED
      BY <2>3, <2>4
  <1>6. CASE Prove
    <2>1. /\ stage = "commit" /\ stage' = "record" /\ UNCHANGED <<phase, ex, origin, verdict>>
      BY <1>6 DEF Prove, ceremony
    <2>2. session'.len = session.len
      BY <1>6, ProveKeepsLength
    <2>3. QED
      BY <2>1, <2>2, LimitsStay, JudgedStays
  <1>7. CASE RecordStep
    <2>1. /\ stage = "record" /\ stage' = "record" /\ UNCHANGED <<ex, origin, verdict>> /\ Next
      BY <1>7 DEF RecordStep, ceremony
    <2>2. session' = session
      BY <2>1 DEF Next, Lengths, RevealRange, RevealEnd, Commitment, CommitEnd, Sort, Fail
    <2>3. QED
      BY <2>1, <2>2, LimitsStay, JudgedStays
  <1>8. CASE Signed
    <2>1. stage = "record" /\ verdict' = verdict /\ origin' = origin /\ job \in 1..4
      BY <1>8 DEF Signed, CeremonyInv, Control
    <2>2. Judged'
      BY <2>1, JudgedStays
    <2>3. CASE job = 4
      <3>1. stage' = "done" /\ UNCHANGED <<recordVars, ex>>
        BY <1>8, <2>3 DEF Signed
      <3>2. QED
        BY <2>1, <2>2, <3>1, LimitsStay DEF recordVars
    <2>4. CASE job # 4
      <3>1. /\ stage' = "exchange" /\ session' = NoSession /\ job' = job + 1
            /\ \E r \in Requests[Jobs[job'].kind] : ex' = ExInit(r)
        BY <1>8, <2>4 DEF Signed
      <3>2. job' \in 1..4
        BY <2>1, <2>4, <3>1
      <3>3. PICK r \in Requests[Jobs[job'].kind] : ex' = ExInit(r)
        BY <3>1
      <3>4. Whole(ex'.req) <= MAX_SENT_DATA
        <4>1. Jobs[job'].kind \in {"token", "identity"}
          BY <3>2, JobKinds
        <4>2. QED
          BY <3>3, <4>1, LimitsAssumption DEF ExInit
      <3>5. session'.len["Sent"] = 0 /\ session'.len["Received"] = 0
        BY <3>1 DEF NoSession, Directions
      <3>6. Limits'
        BY <3>1, <3>4, <3>5 DEF Limits, MAX_SENT_DATA, MAX_RECV_DATA
      <3>7. QED
        BY <2>2, <3>6
    <2>5. QED
      BY <2>3, <2>4
  <1>9. CASE UNCHANGED allVars
    BY <1>0, <1>9, LimitsStay, JudgedStays DEF allVars, recordVars, layoutVars, ceremony
  <1>10. QED
    BY <1>1, <1>2, <1>3, <1>4, <1>5, <1>6, <1>7, <1>8, <1>9, RequestIsJudged, ResponseIsJudged
       DEF CeremonyNext, Ended

(* The two validates refuse nothing the crates make themselves (token_exchange.rs):
   whatever the session, a request fails for its code only and a response for its
   bearer only. *)
THEOREM OnlyCredentialsAreRefused == CeremonySpec => []ServiceRefusesOnlyCredentials
  <1>1. Judged => ServiceRefusesOnlyCredentials
    BY DEF Judged, ServiceRefusesOnlyCredentials
  <1>2. CeremonySpec => [](Limits /\ Judged)
    BY JudgingStarts, JudgingKept, CeremonyInvariance, PTL DEF CeremonySpec
  <1>3. QED
    BY <1>1, <1>2, PTL

=============================================================================
