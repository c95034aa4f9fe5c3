------------------------------- MODULE Record -------------------------------
(***************************************************************************)
(* The notary's record of one session: AttestedData::from_observed and     *)
(* DirectionBlock::from_observed of crates/libid-tlsn/src/attest.rs.       *)
(*                                                                         *)
(* A session is what the verifier handed over: the two lengths, the ranges *)
(* the prover revealed, ascending as a RangeSet iterates, and one list of  *)
(* commitments for both directions, in whatever order the prover made      *)
(* them.  Revealed bytes and commitment values are left out: a span stands *)
(* for them by its place, and a commitment by its position in the list.    *)
(***************************************************************************)
EXTENDS Naturals, Sequences, FiniteSets

CONSTANTS
    Sessions,  \* the ObservedSessions from_observed is called on
    MaxOffset  \* u32::MAX

Directions == {"Sent", "Received"}

\* A Range<usize> of a RangeSet.
UsizeRange == {r \in [start : Nat, end : Nat] : r.start <= r.end}

ASSUME MaxOffsetAssumption == MaxOffset \in Nat

\* A TranscriptCommitment: a hash, or of a kind this crate does not know.
TranscriptCommitment ==
    [kind : {"Hash", "Other"}, dir : Directions, alg : {"SHA256", "BLAKE3", "KECCAK256"},
     bytes : Nat, idx : Seq(UsizeRange)]

\* An ObservedSession.  A RangeSet gives its ranges ascending.
IsSession(s) ==
    /\ \A d \in Directions :
           /\ s.len[d] \in Nat /\ s.authed[d] \in Seq(UsizeRange)
           /\ \A j, k \in DOMAIN s.authed[d] :
                  j < k => s.authed[d][j].start <= s.authed[d][k].start
    /\ s.commits \in Seq(TranscriptCommitment)

ASSUME SessionsAssumption == \A s \in Sessions : IsSession(s)

VARIABLES
    session,   \* the argument
    phase,     \* "lengths", "reveal", "commit", "sort", "done", "err"
    dir,       \* the direction whose block is being built
    i,         \* the next range or commitment of the loop
    revealed,  \* per direction: the block's revealed list
    out,       \* per direction: the block's commitments
    err        \* the AttestError

vars == <<session, phase, dir, i, revealed, out, err>>

Init ==
    /\ session \in Sessions
    /\ phase = "lengths" /\ dir = "Sent" /\ i = 1 /\ err = "none"
    /\ revealed = [d \in Directions |-> <<>>]
    /\ out = [d \in Directions |-> <<>>]

-----------------------------------------------------------------------------
\* Mistaken: one past the largest value of the field is let through.
u32_of_loose(value) == value <= MaxOffset + 1

u32_of(value) == value <= MaxOffset

Fail(e) ==
    /\ phase' = "err" /\ err' = e
    /\ UNCHANGED <<session, dir, i, revealed, out>>

\* The header's two lengths, then the sent block.
Lengths ==
    /\ phase = "lengths"
    /\ IF \A d \in Directions : u32_of(session.len[d])
       THEN phase' = "reveal" /\ UNCHANGED <<session, dir, i, revealed, out, err>>
       ELSE Fail("OffsetTooLarge")

\* One round of the loop over the direction's authenticated ranges.
RevealRange ==
    /\ phase = "reveal" /\ i <= Len(session.authed[dir])
    /\ LET r == session.authed[dir][i] IN
       IF u32_of(r.end) /\ u32_of(r.start)
       THEN /\ revealed' = [revealed EXCEPT ![dir] = Append(@, r)]
            /\ i' = i + 1
            /\ UNCHANGED <<session, phase, dir, out, err>>
       ELSE Fail("OffsetTooLarge")

RevealEnd ==
    /\ phase = "reveal" /\ i > Len(session.authed[dir])
    /\ phase' = "commit" /\ i' = 1
    /\ UNCHANGED <<session, dir, revealed, out, err>>

\* Mistaken: the other direction's commitments are taken in as well.
SkippedByKind(c) == c.kind # "Hash"

\* A commitment this block passes over: of a kind it does not know, or of the
\* other direction.
Skipped(c) == c.kind # "Hash" \/ c.dir # dir

\* Mistaken: a value that is not 32 bytes is cut or padded instead of refused.
RefusalNoLength(c) ==
    CASE c.alg # "SHA256"      -> "WrongCommitmentAlgorithm"
      [] Len(c.idx) # 1        -> "DisjointCommitment"
      [] ~u32_of(c.idx[1].start) \/ ~u32_of(c.idx[1].end) -> "OffsetTooLarge"
      [] OTHER                 -> "none"

\* The checks, in the order in which the loop makes them.
Refusal(c) ==
    CASE c.alg # "SHA256"      -> "WrongCommitmentAlgorithm"
      [] Len(c.idx) # 1        -> "DisjointCommitment"
      [] c.bytes # 32          -> "BadCommitmentLength"
      [] ~u32_of(c.idx[1].start) \/ ~u32_of(c.idx[1].end) -> "OffsetTooLarge"
      [] OTHER                 -> "none"

\* One round of the loop over the commitments of the session.
Commitment ==
    /\ phase = "commit" /\ i <= Len(session.commits)
    /\ LET c == session.commits[i] IN
       IF Skipped(c)
       THEN i' = i + 1 /\ UNCHANGED <<session, phase, dir, revealed, out, err>>
       ELSE IF Refusal(c) # "none" THEN Fail(Refusal(c))
       ELSE /\ out' = [out EXCEPT ![dir] =
                          Append(@, [start |-> c.idx[1].start, end |-> c.idx[1].end,
                                     commitment |-> i])]
            /\ i' = i + 1
            /\ UNCHANGED <<session, phase, dir, revealed, err>>

CommitEnd ==
    /\ phase = "commit" /\ i > Len(session.commits)
    /\ phase' = "sort"
    /\ UNCHANGED <<session, dir, i, revealed, out, err>>

\* s is t reordered; equal starts keep their order, as a stable sort does.
StablySorted(s, t) ==
    \E f \in [DOMAIN t -> DOMAIN t] :
        /\ \A j, k \in DOMAIN t : j # k => f[j] # f[k]
        /\ \A j \in DOMAIN t : s[j] = t[f[j]]
        /\ \A j, k \in DOMAIN t : j < k =>
               \/ s[j].start < s[k].start
               \/ s[j].start = s[k].start /\ f[j] < f[k]

\* Mistaken: the commitments stay in the order the prover made them.
SortLeftOut ==
    /\ phase = "sort"
    /\ IF dir = "Sent"
       THEN phase' = "reveal" /\ dir' = "Received" /\ i' = 1
       ELSE phase' = "done" /\ UNCHANGED <<dir, i>>
    /\ UNCHANGED <<session, revealed, out, err>>

\* sort_by_key(start), and the block is done; after the sent one, the other.
Sort ==
    /\ phase = "sort"
    /\ \E s \in [DOMAIN out[dir] -> {out[dir][j] : j \in DOMAIN out[dir]}] :
           StablySorted(s, out[dir]) /\ out' = [out EXCEPT ![dir] = s]
    /\ IF dir = "Sent"
       THEN phase' = "reveal" /\ dir' = "Received" /\ i' = 1
       ELSE phase' = "done" /\ UNCHANGED <<dir, i>>
    /\ UNCHANGED <<session, revealed, err>>

Next == Lengths \/ RevealRange \/ RevealEnd \/ Commitment \/ CommitEnd \/ Sort

Spec == Init /\ [][Next]_vars

-----------------------------------------------------------------------------
(* Properties.                                                             *)

(* The types of from_observed's locals and of the record it fills in. *)
TypeOK ==
    /\ phase \in {"lengths", "reveal", "commit", "sort", "done", "err"}
    /\ dir \in Directions
    /\ i \in Nat
    /\ \A d \in Directions :
           /\ \A k \in DOMAIN revealed[d] : revealed[d][k].end \in 0..MaxOffset
           /\ \A k \in DOMAIN out[d] :
                  /\ out[d][k].start \in 0..MaxOffset /\ out[d][k].end \in 0..MaxOffset
                  /\ out[d][k].commitment \in DOMAIN session.commits
    /\ err \in {"none", "OffsetTooLarge", "WrongCommitmentAlgorithm",
                "DisjointCommitment", "BadCommitmentLength"}

Hashes(d) == {k \in DOMAIN session.commits :
                 session.commits[k].kind = "Hash" /\ session.commits[k].dir = d}

Describable ==
    \A d \in Directions :
        /\ session.len[d] <= MaxOffset
        /\ \A k \in DOMAIN session.authed[d] : session.authed[d][k].end <= MaxOffset
        /\ \A k \in Hashes(d) :
               LET c == session.commits[k] IN
               /\ c.alg = "SHA256" /\ c.bytes = 32
               /\ Len(c.idx) = 1 /\ c.idx[1].end <= MaxOffset

(* from_observed refuses exactly the sessions the format cannot describe, in
   either direction: it judges nothing else (attest.rs 159-166), so no session
   is lost to an unknown kind of commitment, to the order of the list or to a
   commitment of the other direction. *)
RefusesOnlyTheIndescribable ==
    /\ phase = "done" => Describable
    /\ phase = "err" => ~Describable

(* A finished block holds every hash commitment of its direction once, with the
   range it was made over, and none of the other direction's, ascending by
   start; the revealed list is the direction's, untouched. *)
BlocksHoldTheirDirection ==
    phase = "done" =>
        \A d \in Directions :
            /\ revealed[d] = session.authed[d]
            /\ {out[d][k].commitment : k \in DOMAIN out[d]} = Hashes(d)
            /\ Len(out[d]) = Cardinality(Hashes(d))
            /\ \A k \in DOMAIN out[d] :
                   LET c == session.commits[out[d][k].commitment] IN
                   out[d][k].start = c.idx[1].start /\ out[d][k].end = c.idx[1].end
            /\ \A j, k \in DOMAIN out[d] : j < k => out[d][j].start <= out[d][k].start

\* The walk the Platform Verifier makes over a signed block: from 0, each span
\* begins where the last one ended, and the last ends at the signed length.
Walks(d, length) ==
    LET lists == <<revealed[d], out[d]>>
        \* Where a forward merge of the two ascending lists stands after n spans.
        merge[n \in Nat] ==
            IF n = 0 THEN [at |-> 0, next |-> <<1, 1>>, ok |-> TRUE]
            ELSE LET m == merge[n - 1]
                     hit == {l \in 1..2 : /\ m.next[l] <= Len(lists[l])
                                          /\ lists[l][m.next[l]].start = m.at}
                 IN  IF hit = {} THEN [m EXCEPT !.ok = FALSE]
                     ELSE LET l == CHOOSE l \in hit : TRUE IN
                          [m EXCEPT !.at = lists[l][m.next[l]].end, !.next[l] = @ + 1]
        last == merge[Len(revealed[d]) + Len(out[d])]
    IN  last.ok /\ last.at = length

\* The prover's layouts tile the direction, whatever order they came in.
LaidOut(d) ==
    LET span == {session.authed[d][k] : k \in DOMAIN session.authed[d]}
                \cup {session.commits[k].idx[1] : k \in Hashes(d)}
    IN  /\ \A b \in 0..(session.len[d] - 1) :
               Cardinality({r \in span : r.start <= b /\ b < r.end}) = 1
        /\ \A r \in span : r.start < r.end /\ r.end <= session.len[d]
        /\ Cardinality(span) = Len(session.authed[d]) + Cardinality(Hashes(d))
=============================================================================
