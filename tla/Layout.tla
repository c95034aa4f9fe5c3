------------------------------- MODULE Layout -------------------------------
(***************************************************************************)
(* The reveal layouts of crates/libid-transcript/src/ceremony.rs.          *)
(*                                                                         *)
(* A constructor is called on one direction of a session, len bytes long.  *)
(* Its scans are represented by the positions they may return; what the    *)
(* bytes say is left out.  It states the ranges it reveals; Layout::       *)
(* revealing sorts them, and complement walks them once and commits what   *)
(* they leave.  A range is a record [start, end), as in the code.          *)
(***************************************************************************)
EXTENDS Naturals, Sequences

CONSTANT MaxLen  \* bound on the length of a direction

ASSUME MaxLenAssumption == MaxLen \in Nat

Ranges == [start : 0..MaxLen, end : 0..MaxLen]
To(a, b) == [start |-> a, end |-> b]

VARIABLES
    phase,   \* "idle", "sort", "walk", "done", or "refused" with a LayoutError
    len,     \* the length of the direction
    reveal,  \* the ranges stated, then the same sorted
    i, at,   \* complement: the next range to walk, the end of the last one
    commit,  \* complement: out
    secret   \* what the constructor means to hide; a range, or empty

vars == <<phase, len, reveal, i, at, commit, secret>>

Init ==
    /\ phase = "idle" /\ len \in 0..MaxLen
    /\ reveal = <<>> /\ commit = <<>>
    /\ i = 1 /\ at = 0
    /\ secret = To(0, 0)

-----------------------------------------------------------------------------
(* The constructors.                                                       *)

\* Layout::revealing is entered with these ranges.
revealing(ranges, hidden) ==
    /\ phase = "idle" /\ phase' = "sort"
    /\ reveal' = ranges
    /\ secret' = hidden
    /\ UNCHANGED <<len, i, at, commit>>

Refuse ==
    /\ phase = "idle" /\ phase' = "refused"
    /\ UNCHANGED <<len, reveal, i, at, commit, secret>>

\* Without a secret field the request is revealed whole; with one it is
\* committed from its `&field=`, which a request line always precedes.
token_request ==
    \/ len > 0 /\ revealing(<<To(0, len)>>, To(0, 0))
    \/ \E start \in 1..len :
           start < len /\ revealing(<<To(0, start)>>, To(start, len))
    \/ Refuse

\* JsonMember::in_response gives a member and the value between its quotes.
token_response ==
    \/ \E ms, vs, ve \in 0..len :
           /\ ms < vs /\ vs <= ve /\ ve < len
           /\ IF vs = ve THEN Refuse
              ELSE revealing(<<To(ms, vs), To(ve, ve + 1)>>, To(vs, ve))
    \/ Refuse

\* Mistaken: the last byte of the header's prefix is left to the commitment.
identity_request_early ==
    \E vs, ve \in 1..len :
        /\ vs <= ve /\ ve + 2 <= len
        /\ revealing(<<To(0, vs - 1), To(ve, len)>>, To(vs, ve))

\* The value of the authorization header, from its prefix to the next CRLF.
identity_request ==
    \/ \E vs, ve \in 1..len :
           /\ vs <= ve /\ ve + 2 <= len
           /\ revealing(<<To(0, vs), To(ve, len)>>, To(vs, ve))
    \/ Refuse

\* Two members of one JSON document, in the order the platform wrote them.
identity_response ==
    \/ \E id, handle \in Ranges :
           /\ id.start < id.end /\ id.end <= len
           /\ handle.start < handle.end /\ handle.end <= len
           /\ id.end <= handle.start \/ handle.end <= id.start
           /\ revealing(<<id, handle>>, To(0, 0))
    \/ Refuse

-----------------------------------------------------------------------------
(* Layout::revealing, then complement.                                     *)

IsPermutation(f, S) ==
    /\ f \in [S -> S]
    /\ \A j, k \in S : f[j] = f[k] => j = k
    /\ \A k \in S : \E j \in S : f[j] = k

Ascending(s) == \A j, k \in DOMAIN s : j < k => s[j].start <= s[k].start

\* Mistaken: the ranges are walked in the order they were stated.
Unsorted ==
    /\ phase = "sort" /\ phase' = "walk"
    /\ UNCHANGED <<len, reveal, i, at, commit, secret>>

\* sort_by_key(start), and the walk begins.
SortByStart ==
    /\ phase = "sort" /\ phase' = "walk"
    /\ \E f \in [DOMAIN reveal -> DOMAIN reveal] :
           /\ IsPermutation(f, DOMAIN reveal)
           /\ reveal' = [j \in DOMAIN reveal |-> reveal[f[j]]]
           /\ Ascending(reveal')
    /\ UNCHANGED <<len, i, at, commit, secret>>

\* Mistaken: a reveal that begins where the last one ended gets a commitment.
WalkRangeInclusive ==
    /\ phase = "walk" /\ i <= Len(reveal)
    /\ commit' = IF reveal[i].start >= at
                 THEN Append(commit, To(at, reveal[i].start)) ELSE commit
    /\ at' = reveal[i].end
    /\ i' = i + 1
    /\ UNCHANGED <<phase, len, reveal, secret>>

\* One round of complement's loop.
WalkRange ==
    /\ phase = "walk" /\ i <= Len(reveal)
    /\ commit' = IF reveal[i].start > at
                 THEN Append(commit, To(at, reveal[i].start)) ELSE commit
    /\ at' = reveal[i].end
    /\ i' = i + 1
    /\ UNCHANGED <<phase, len, reveal, secret>>

\* Mistaken: what follows the last reveal is not committed.
WalkEndNoTail ==
    /\ phase = "walk" /\ i > Len(reveal)
    /\ phase' = "done"
    /\ UNCHANGED <<len, reveal, i, at, commit, secret>>

\* What follows the last range.
WalkEnd ==
    /\ phase = "walk" /\ i > Len(reveal)
    /\ commit' = IF at < len THEN Append(commit, To(at, len)) ELSE commit
    /\ phase' = "done"
    /\ UNCHANGED <<len, reveal, i, at, secret>>

\* The layout, or the error, is with the caller.
Returned == phase \in {"done", "refused"} /\ UNCHANGED vars

Next ==
    \/ token_request \/ token_response \/ identity_request \/ identity_response
    \/ SortByStart \/ WalkRange \/ WalkEnd
    \/ Returned

Spec == Init /\ [][Next]_vars

-----------------------------------------------------------------------------
(* Properties.                                                             *)

In(s, b) == \E k \in DOMAIN s : s[k].start <= b /\ b < s[k].end

(* The types of complement's locals and of the layout it fills in. *)
TypeOK ==
    /\ phase \in {"idle", "sort", "walk", "done", "refused"}
    /\ len \in 0..MaxLen
    /\ reveal \in Seq(Ranges) /\ commit \in Seq(Ranges)
    /\ i \in Nat /\ at \in 0..MaxLen
    /\ secret \in Ranges

(* Every byte of the direction is revealed or committed and none is both, for
   every order in which the members stood: the coverage the Platform Verifier
   demands of a layout (ceremony.rs 49-53, 72-79). *)
Tiles ==
    phase = "done" =>
        \A b \in 0..(MaxLen - 1) :
            /\ b < len => (In(reveal, b) <=> ~In(commit, b))
            /\ b >= len => ~In(reveal, b) /\ ~In(commit, b)

(* The spans come ascending and none is empty, reveals and commits alike, as
   the crate's own test of a layout wants them and as the Layout type says. *)
SpansAreProper ==
    phase = "done" =>
        \A s \in {reveal, commit} :
            /\ \A k \in DOMAIN s : s[k].start < s[k].end
            /\ \A j, k \in DOMAIN s : j < k => s[j].end <= s[k].start

(* The credential is hidden under one commitment of exactly its own extent: a
   commitment covers one contiguous run and the circuit opens that run, so
   neither a neighbouring byte nor a second commitment may have part of it. *)
SecretIsOneCommitment ==
    phase = "done" /\ secret.start < secret.end =>
        \E k \in DOMAIN commit : commit[k] = secret

-----------------------------------------------------------------------------
(* The inductive invariant behind the proof of Tiles.                      *)

Proper(r) == r.start < r.end /\ r.end <= len

Apart(r, q) == r.end <= q.start \/ q.end <= r.start

\* What constructors hand to revealing.
StatedInv ==
    /\ \A k \in DOMAIN reveal : Proper(reveal[k])
    /\ \A j, k \in DOMAIN reveal : j # k => Apart(reveal[j], reveal[k])

\* Where the walk is: it has passed the first i - 1 ranges, up to at.
WalkInv ==
    phase \in {"walk", "done"} =>
        /\ \A j, k \in DOMAIN reveal : j < k => reveal[j].end <= reveal[k].start
        /\ i \in 1..(Len(reveal) + 1)
        /\ at <= len
        /\ \A k \in DOMAIN reveal : k < i => reveal[k].end <= at
        /\ \A k \in DOMAIN reveal : i <= k => at <= reveal[k].start

\* The commits end where the walk is, or at len, and each is a proper gap.
CommitsInv ==
    /\ phase \in {"idle", "sort", "refused"} => commit = <<>> /\ i = 1 /\ at = 0
    /\ \A k \in DOMAIN commit :
           /\ commit[k].start < commit[k].end
           /\ commit[k].end <= IF phase = "done" THEN len ELSE at
    /\ \A j, k \in DOMAIN commit : j < k => commit[j].end <= commit[k].start

\* Behind the walk, a byte is under a reveal or under a commit, not both.
CoverInv ==
    /\ phase = "walk" =>
           \A b \in 0..MaxLen : b < at => (In(reveal, b) <=> ~In(commit, b))
    /\ phase = "done" =>
           /\ i = Len(reveal) + 1
           /\ \A b \in 0..MaxLen : b < len => (In(reveal, b) <=> ~In(commit, b))

\* A secret lies between two reveals, or behind the last, and touches them; once
\* the walk is past its start it has been committed.
SecretInv ==
    secret.start < secret.end =>
        /\ phase \in {"sort", "walk", "done"} /\ secret.end <= len
        /\ \E k \in DOMAIN reveal : reveal[k].end = secret.start
        /\ secret.end = len \/ \E k \in DOMAIN reveal : reveal[k].start = secret.end
        /\ \A k \in DOMAIN reveal : Apart(reveal[k], secret)
        /\ at > secret.start \/ phase = "done" =>
               \E k \in DOMAIN commit : commit[k] = secret

(* The stated ranges, the secret between them, the walk of complement over them
   and the commitments it has made so far fit together at every round of the loop:
   inductive. *)
LayoutInv == TypeOK /\ StatedInv /\ WalkInv /\ CommitsInv /\ CoverInv /\ SecretInv
=============================================================================
