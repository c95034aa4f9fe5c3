---------------------------- MODULE Attestation ----------------------------
(***************************************************************************)
(* The bytes a notary signs: AttestedData::encode and authority_id_of of   *)
(* crates/libid-ceremony/src/attestation.rs.                               *)
(*                                                                         *)
(* Integers are of fixed width and a Vec is its length and its items, so   *)
(* an encoding is a sequence of fields, each with its width in bytes and   *)
(* its value.  A byte is a field of width 1, a hash one of width 32.       *)
(***************************************************************************)
EXTENDS Naturals, Sequences

F(width, value) == [width |-> width, value |-> value]

HEADER_LEN == 32 + 8 + 4 + 4

Concat(ss) ==
    LET upTo[n \in 0..Len(ss)] == IF n = 0 THEN <<>> ELSE upTo[n - 1] \o ss[n]
    IN  upTo[Len(ss)]

\* External, bincode: a Vec under the fixed-width configuration.
Vec(items) == <<F(8, Len(items))>> \o Concat(items)

\* Mistaken: the bytes follow the offset with nothing to say how many.
RevealedRangeUnmeasured(r) ==
    <<F(4, r.start)>> \o [b \in 1..Len(r.bytes) |-> F(1, r.bytes[b])]

RevealedRange(r) ==
    <<F(4, r.start)>> \o Vec([b \in 1..Len(r.bytes) |-> <<F(1, r.bytes[b])>>])

\* Mistaken: each byte of the hash is written as an integer of four.
RangeCommitmentInWords(c) == <<F(4, c.start), F(4, c.end), F(4 * 32, c.commitment)>>

RangeCommitment(c) == <<F(4, c.start), F(4, c.end), F(32, c.commitment)>>

DirectionBlock(b) ==
    Vec([k \in DOMAIN b.revealed |-> RevealedRange(b.revealed[k])])
        \o Vec([k \in DOMAIN b.commitments |-> RangeCommitment(b.commitments[k])])

\* A DNS name is its letters, whether one is in upper case, and a trailing dot.
\* Mistaken: hashed as the TLS stack hands it back.
authority_as_given(name) == name

\* Lowercased, then hashed; a trailing dot stays.
authority_id_of(name) == [name EXCEPT !.upper = FALSE]

encode(data) ==
    <<F(32, data.authority_id), F(8, data.created_at),
      F(4, data.sent_transcript_length), F(4, data.recv_transcript_length)>>
        \o DirectionBlock(data.sent) \o DirectionBlock(data.received)

\* Its length in bytes.
EncodedLen(e) ==
    LET sum[n \in 0..Len(e)] == IF n = 0 THEN 0 ELSE sum[n - 1] + e[n].width
    IN  sum[Len(e)]

-----------------------------------------------------------------------------
(* The other side: one forward pass, in which every boundary comes from    *)
(* what was read before it.                                                *)

Value(e, at) == IF at \in DOMAIN e THEN e[at].value ELSE 0

ReadRevealed(e, from) ==
    LET read[k \in 0..Value(e, from)] ==
            IF k = 0 THEN [at |-> from + 1, got |-> <<>>]
            ELSE LET p == read[k - 1].at
                     n == Value(e, p + 1)
                 IN  [at  |-> p + 2 + n,
                      got |-> Append(read[k - 1].got,
                                [start |-> Value(e, p),
                                 bytes |-> [b \in 1..n |-> Value(e, p + 1 + b)]])]
    IN  read[Value(e, from)]

ReadCommitments(e, from) ==
    [at  |-> from + 1 + 3 * Value(e, from),
     got |-> [k \in 1..Value(e, from) |->
                 [start |-> Value(e, from + 3 * k - 2), end |-> Value(e, from + 3 * k - 1),
                  commitment |-> Value(e, from + 3 * k)]]]

ReadBlock(e, from) ==
    LET r == ReadRevealed(e, from)
        c == ReadCommitments(e, r.at)
    IN  [at |-> c.at, got |-> [revealed |-> r.got, commitments |-> c.got]]

\* The record an encoding spells, and the field it ends before.
ReadRecord(e) ==
    LET s == ReadBlock(e, 5)
        r == ReadBlock(e, s.at)
    IN  [at |-> r.at,
         got |-> [authority_id |-> e[1].value, created_at |-> e[2].value,
                  sent_transcript_length |-> e[3].value,
                  recv_transcript_length |-> e[4].value,
                  sent |-> s.got, received |-> r.got]]
=============================================================================
