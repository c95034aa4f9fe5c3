------------------------------- MODULE Ranges -------------------------------
(***************************************************************************)
(* The scans of crates/libid-transcript/src/ranges.rs that place a JSON    *)
(* member in a received transcript: JsonMember::in_response, and           *)
(* compute_id_snippet_range for a bare number.                             *)
(*                                                                         *)
(* A transcript is a sequence of bytes over the few a scan tells apart.    *)
(* The server frames a document into chunks; the head is represented by    *)
(* its bytes, and its Transfer-Encoding header by the flag chunked.  The   *)
(* hexadecimal digits of a chunk's size are one symbol: no digit of a size *)
(* is next to a byte of the document.  Positions count from 1 and a range  *)
(* [start, end) excludes its end.                                          *)
(***************************************************************************)
EXTENDS Integers, Sequences, FiniteSets, FiniteSetsExt

CONSTANTS
    Responses,  \* [head, doc, cuts, chunked, arrived]: what a server sent
    MaxChunk,   \* the longest chunk of theirs
    Size        \* how the size of a chunk of that many bytes reads

Whitespace == {" ", "TAB", "LF", "CR"}
CRLF == <<"CR", "LF">>
Key == <<"q", "n", "q">>                  \* the field's name between its quotes
Digits == {"0", "1", "2", "3", "4", "5", "6", "7", "8", "9"}

\* A size reads as itself, and holds no byte that JSON gives a meaning to.
ASSUME SizeAssumption ==
    /\ MaxChunk \in Nat /\ Size \in [0..MaxChunk -> STRING]
    /\ \A j, k \in 0..MaxChunk : Size[j] = Size[k] => j = k
    /\ \A k \in 0..MaxChunk :
           Size[k] \notin Whitespace \cup {"q", "n", ":", ",", "}"}

-----------------------------------------------------------------------------
(* JSON, and the responses that carry it.                                  *)

AllIn(s, S) == \A k \in DOMAIN s : s[k] \in S

\* t is `"n" : ` with whitespace around the colon, then a value.
Opens(t, p) == \E c \in 4..p :
    /\ SubSeq(t, 1, 3) = Key /\ t[c] = ":"
    /\ AllIn(SubSeq(t, 4, c - 1), Whitespace) /\ AllIn(SubSeq(t, c + 1, p), Whitespace)

IsStringMember(t) ==
    \E p \in 4..(Len(t) - 2) :
        /\ Opens(t, p) /\ t[p + 1] = "q" /\ t[Len(t)] = "q"
        /\ \A k \in (p + 2)..(Len(t) - 1) : t[k] # "q"

IsNumberMember(t) ==
    \E p \in 4..(Len(t) - 2) : \E d \in (p + 1)..(Len(t) - 1) :
        /\ Opens(t, p)
        /\ AllIn(SubSeq(t, p + 1, d), Digits) /\ (t[p + 1] = "0" => d = p + 1)
        /\ AllIn(SubSeq(t, d + 1, Len(t) - 1), Whitespace)
        /\ t[Len(t)] \in {",", "}"}

\* No string holds a carriage return, a control character, and a value follows the
\* colon behind a name (RFC 8259).
IsJSON(doc) ==
    /\ doc # <<>>
    /\ \A s, e \in 1..Len(doc) : IsStringMember(SubSeq(doc, s, e)) =>
           \A k \in (s + 3)..e : doc[k] = "q" => \A j \in k..e : doc[j] # "CR"
    /\ \A s \in 1..Len(doc) : \A p \in 4..(Len(doc) - s) :
           Opens(SubSeq(doc, s, Len(doc)), p) => doc[s + p] \notin {",", "}"}

Occurs(needle, body, at) ==
    SubSeq(body, at, at + Len(needle) - 1) = needle

\* Every match: the first is their minimum, the next ones what a loop goes on to.
find_first(body, needle) ==
    {at \in 1..(Len(body) - Len(needle) + 1) : Occurs(needle, body, at)}

\* A head ends with the first empty line, and a chunk before the next cut.
ASSUME ResponsesAssumption ==
    \A r \in Responses :
        /\ r.head \in Seq(STRING) /\ r.doc \in Seq(STRING)
        /\ r.chunked \in BOOLEAN /\ r.arrived \in Nat
        /\ find_first(r.head, CRLF \o CRLF) = {Len(r.head) - 3}
        /\ IsJSON(r.doc)
        /\ r.cuts \subseteq 1..(Len(r.doc) - 1)
        /\ \A k \in 1..Len(r.doc) :
               (r.cuts \cup {Len(r.doc)}) \cap k..(k + MaxChunk - 1) # {}

VARIABLES
    response,  \* the response
    field,     \* what in_response returned, or "pending"
    number     \* what compute_id_snippet_range returned for a bare number

vars == <<response, field, number>>

None == [start |-> 0, end |-> 0]

-----------------------------------------------------------------------------
(* The server, external: each chunk is its size, its data and a CRLF, and  *)
(* the last has size 0.  A cut k ends a chunk after byte k of the document.*)

Framed(doc, cuts) ==
    LET ends == cuts \cup {Len(doc)}
        framed[at \in 1..(Len(doc) + 1)] ==
            IF at > Len(doc) THEN <<Size[0]>> \o CRLF \o CRLF
            ELSE LET last == Min({k \in ends : k >= at}) IN
                 <<Size[last - at + 1]>> \o CRLF \o SubSeq(doc, at, last)
                     \o CRLF \o framed[last + 1]
    IN  framed[1]

\* The transcript's received bytes, as far as they arrived.
Received(r) ==
    LET sent == r.head \o (IF r.chunked THEN Framed(r.doc, r.cuts) ELSE r.doc)
    IN  SubSeq(sent, 1, Min({r.arrived, Len(sent)}))

-----------------------------------------------------------------------------
\* Where the body begins, or 0 without a head boundary.
find_response_body_range(recv) ==
    LET at == find_first(recv, CRLF \o CRLF)
    IN  IF Len(recv) < 4 \/ at = {} THEN 0 ELSE Min(at) + 4

\* httparse::parse_chunk_size, external: a size and a CRLF.
ChunkSize(raw, at) ==
    IF at + 2 <= Len(raw) /\ SubSeq(raw, at + 1, at + 2) = CRLF
    THEN {n \in 0..MaxChunk : Size[n] = raw[at]}
    ELSE {}

\* Mistaken: a body that ends early is returned as far as it goes.
decode_what_is_there(raw) ==
    LET decode[at \in 1..(Len(raw) + MaxChunk + 6)] ==
            IF ChunkSize(raw, at) = {} \/ ChunkSize(raw, at) = {0}
            THEN [ok |-> TRUE, out |-> <<>>]
            ELSE LET data == at + 3
                     end == data + Min(ChunkSize(raw, at)) IN
                 [ok |-> TRUE, out |-> SubSeq(raw, data, Min({end - 1, Len(raw)}))
                                       \o decode[end + 2].out]
    IN  decode[1]

\* Any malformed chunk is an error, never a shorter body.
decode_chunked_body(raw) ==
    LET bad == [ok |-> FALSE, out |-> <<>>]
        decode[at \in 1..(Len(raw) + 1)] ==
            IF ChunkSize(raw, at) = {} THEN bad
            ELSE IF ChunkSize(raw, at) = {0} THEN [ok |-> TRUE, out |-> <<>>]
            ELSE LET data == at + 3
                     end == data + Min(ChunkSize(raw, at)) IN
                 IF end + 1 > Len(raw) \/ SubSeq(raw, end, end + 1) # CRLF THEN bad
                 ELSE [ok |-> decode[end + 2].ok,
                       out |-> SubSeq(raw, data, end - 1) \o decode[end + 2].out]
    IN  decode[1]

skip_json_whitespace(body, at) ==
    Min({p \in at..(Len(body) + 1) : p > Len(body) \/ body[p] \notin Whitespace})

\* Mistaken: only the first key is looked at, a value of that text included.
first_key_only(body, quoted) ==
    LET keys == find_first(body, Key)
        colon == skip_json_whitespace(body, Min(keys) + Len(Key))
        value == skip_json_whitespace(body, colon + 1)
    IN  IF keys = {} \/ colon > Len(body) THEN {}
        ELSE IF body[colon] # ":" THEN {}
        ELSE IF quoted /\ (value > Len(body) \/ body[value] # "q") THEN {}
        ELSE {<<Min(keys), value>>}

\* The first key that a colon follows, and a quote if quoted; and its value.
key_and_value(body, quoted) ==
    LET colon(s) == skip_json_whitespace(body, s + Len(Key))
        value(s) == skip_json_whitespace(body, colon(s) + 1)
        starts == {s \in find_first(body, Key) :
                      /\ colon(s) <= Len(body) /\ body[colon(s)] = ":"
                      /\ quoted => value(s) <= Len(body) /\ body[value(s)] = "q"}
    IN  IF starts = {} THEN {} ELSE {<<Min(starts), value(Min(starts))>>}

\* A member from its key's opening quote through its value's closing quote.
in_body(body) ==
    UNION {LET closing == {p \in (kv[2] + 1)..Len(body) : body[p] = "q"}
           IN  IF closing = {} THEN {}
               ELSE {[start |-> kv[1], end |-> Min(closing) + 1]} :
           kv \in key_and_value(body, TRUE)}

\* Digits without a leading zero, then the comma or brace that closes them.
find_json_bare_snippet_range(body) ==
    UNION {LET past == Min({p \in kv[2]..(Len(body) + 1) :
                               p > Len(body) \/ body[p] \notin Digits})
               term == skip_json_whitespace(body, past)
           IN  IF \/ past = kv[2]
                  \/ past > kv[2] + 1 /\ body[kv[2]] = "0"
                  \/ term > Len(body) \/ body[term] \notin {",", "}"}
               THEN {} ELSE {[start |-> kv[1], end |-> term + 1]} :
           kv \in key_and_value(body, FALSE)}

\* Mistaken: found in both bodies is taken to be the same bytes in both.
require_nothing(raw, decoded) == TRUE

require_contiguous(raw, decoded) == raw = decoded

raw_body(recv) == SubSeq(recv, find_response_body_range(recv), Len(recv))

extract_response_body(recv, chunked) ==
    IF find_response_body_range(recv) = 0 THEN [ok |-> FALSE, out |-> <<>>]
    ELSE IF chunked THEN decode_chunked_body(raw_body(recv))
    ELSE [ok |-> TRUE, out |-> raw_body(recv)]

\* Found in the decoded body and in the raw one, with the same bytes: the raw
\* range, moved to where the body begins in the transcript.
FoundInBoth(recv, decoded, inRaw, inDecoded) ==
    LET bytes(body, r) == SubSeq(body, r.start, r.end - 1)
        before == find_response_body_range(recv) - 1
        hits == {r \in inRaw : \E d \in inDecoded :
                    require_contiguous(bytes(raw_body(recv), r), bytes(decoded.out, d))}
    IN  IF ~decoded.ok \/ hits = {} THEN None
        ELSE LET r == CHOOSE r \in hits : TRUE
             IN  [start |-> r.start + before, end |-> r.end + before]

-----------------------------------------------------------------------------
Pending == [start |-> 1, end |-> 0]

Init == response \in Responses /\ field = Pending /\ number = Pending

in_response ==
    /\ field = Pending
    /\ LET recv == Received(response)
           decoded == extract_response_body(recv, response.chunked)
       IN  field' = FoundInBoth(recv, decoded, in_body(raw_body(recv)), in_body(decoded.out))
    /\ UNCHANGED <<response, number>>

compute_id_snippet_range ==
    /\ number = Pending
    /\ LET recv == Received(response)
           decoded == extract_response_body(recv, response.chunked)
       IN  number' = FoundInBoth(recv, decoded,
                                 find_json_bare_snippet_range(raw_body(recv)),
                                 find_json_bare_snippet_range(decoded.out))
    /\ UNCHANGED <<response, field>>

Returned == field # Pending /\ number # Pending /\ UNCHANGED vars

Next == in_response \/ compute_id_snippet_range \/ Returned

Spec == Init /\ [][Next]_vars

-----------------------------------------------------------------------------
(* Properties.                                                             *)

Doc == response.doc
Text(s, e) == SubSeq(Doc, s, e)

\* Where byte k of the document is in the transcript.
Chunk(k) == Cardinality({c \in response.cuts : c < k}) + 1
Place(k) == Len(response.head) + k
            + IF response.chunked THEN 3 * Chunk(k) + 2 * (Chunk(k) - 1) ELSE 0

Unsplit(s, e) == ~response.chunked \/ Chunk(s) = Chunk(e)

Complete == response.arrived >= Len(response.head \o Framed(Doc, response.cuts))

\* The members of the document of one shape, each as the bytes from s to e.
Members(IsMember(_)) ==
    {se \in (1..Len(Doc)) \X (1..Len(Doc)) : IsMember(Text(se[1], se[2]))}

(* A range a scan returns is a whole member of the document the server meant,
   inside one chunk of the transcript: never framing, never part of a member,
   never a byte of the head (ranges.rs 204-229, 272-287). *)
RangesAreWholeMembers ==
    /\ field \notin {Pending, None} =>
           \E se \in Members(IsStringMember) :
               /\ Unsplit(se[1], se[2])
               /\ field = [start |-> Place(se[1]), end |-> Place(se[2]) + 1]
    /\ number \notin {Pending, None} =>
           \E se \in Members(IsNumberMember) :
               /\ Unsplit(se[1], se[2])
               /\ number = [start |-> Place(se[1]), end |-> Place(se[2]) + 1]

(* A member that no cut runs through is found, wherever the others are cut: the
   refusal of split members costs no session that could have been notarized. *)
UnsplitMemberIsFound ==
    /\ field = None /\ Complete =>
           ~ \E se \in Members(IsStringMember) :
               /\ \A other \in Members(IsStringMember) : se[1] <= other[1]
               /\ Unsplit(se[1], se[2])
    /\ number = None /\ Complete =>
           ~ \E se \in Members(IsNumberMember) :
               /\ \A s \in 1..(se[1] - 1) : Text(s, s + 2) # Key
               /\ Unsplit(se[1], se[2])

(* A chunked body that ends before its last chunk is an error rather than a
   shorter body (ranges.rs 78-81): nothing is selected from it. *)
TruncatedBodyYieldsNothing ==
    (response.chunked /\ response.arrived
        < Len(response.head \o Framed(Doc, response.cuts)) - 2) =>
        field \in {Pending, None} /\ number \in {Pending, None}
=============================================================================
