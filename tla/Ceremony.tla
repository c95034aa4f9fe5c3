------------------------------ MODULE Ceremony ------------------------------
(***************************************************************************)
(* A ceremony session from its request to its signed record: the fixture   *)
(* generator of crates/libid-tlsn/examples/ceremony_fixtures.rs, and the   *)
(* way of a session through prover_generic, the notary and the             *)
(* Token-Exchange Service.  It composes Exchange, Layout (once for each    *)
(* direction), the commit configuration, Record, Attestation, Crypto and   *)
(* TokenExchange.                                                          *)
(*                                                                         *)
(* An origin says who drives: "fixture", the generator's main, which goes  *)
(* through its four sessions; "prover", one of the same four sessions made *)
(* by prover_generic; "foreign", a session a notary is handed from a       *)
(* prover that is not this one.                                            *)
(***************************************************************************)
EXTENDS Record, Exchange, Attestation, Crypto, TokenExchange, SequencesExt

CONSTANTS
    MaxLen,    \* bound on the length of a direction
    Recvs,     \* the lengths a response may have
    Requests   \* per kind of session: the requests, as heads and bodies

\* What a session may carry in each direction.
MAX_SENT_DATA == 4096
MAX_RECV_DATA == 32768

\* A session's limits bound both directions, far below u32::MAX.
ASSUME LimitsAssumption ==
    /\ MaxLen \in Nat /\ MaxLen <= MaxOffset
    /\ Recvs \subseteq 0..MaxLen /\ \A n \in Recvs : n <= MAX_RECV_DATA
    /\ \A kind \in {"token", "identity"} : \A r \in Requests[kind] :
           /\ r \in [head : Nat, body : Nat]
           /\ Whole(r) <= MaxLen /\ Whole(r) <= MAX_SENT_DATA

\* The generator's sessions in the order of main.
XJobs == <<[platform |-> "x", kind |-> "token"], [platform |-> "x", kind |-> "identity"]>>
GithubJobs == <<[platform |-> "github", kind |-> "token"],
                [platform |-> "github", kind |-> "identity"]>>
Jobs == XJobs \o GithubJobs

VARIABLES
    origin,
    job,        \* the session of Jobs under way
    stage,      \* "request", "exchange", "layout", "commit", "record", "done", "failed"
    lphase, len, reveal, li, at, commit, secret,  \* the Layout being made
    laying,     \* the direction it is for
    layouts,    \* the finished ones
    openings,   \* the openings the caller is handed
    verdict,    \* what a validate said, and of which text
    files       \* the files written

layoutVars == <<lphase, len, reveal, li, at, commit, secret>>
recordVars == <<session, phase, dir, i, revealed, out, err>>
ceremony == <<origin, job, verdict, files>>
allVars == <<recordVars, ex, layoutVars, ceremony, stage, laying, layouts, openings>>

L == INSTANCE Layout WITH phase <- lphase, i <- li

Job == Jobs[job]
To(a, b) == [start |-> a, end |-> b]
NoLayout == [reveal |-> <<>>, commit |-> <<>>, secret |-> To(0, 0)]
NoSession == [len |-> [d \in Directions |-> 0], authed |-> [d \in Directions |-> <<>>],
              commits |-> <<>>]
NoVerdict == [text |-> Text(0, TRUE), error |-> "none"]

\* A session begins, for these jobs, with nothing laid out or recorded.
RecordInit == phase = "lengths" /\ dir = "Sent" /\ i = 1 /\ err = "none"
              /\ revealed = [d \in Directions |-> <<>>] /\ out = revealed

CeremonyInit ==
    /\ \/ origin = "foreign" /\ session \in Sessions /\ stage = "record" /\ job = 1
       \/ origin = "prover" /\ session = NoSession /\ job \in 1..4
          /\ stage = IF Job = Jobs[3] THEN "request" ELSE "layout"
       \/ origin = "fixture" /\ session = NoSession /\ stage = "exchange" /\ job = 1
    /\ RecordInit
    /\ \E r \in Requests[Job.kind] : ex = ExInit(r)
    /\ lphase = "idle" /\ reveal = <<>> /\ commit = <<>> /\ li = 1 /\ at = 0
    /\ secret = To(0, 0) /\ len = Whole(ex.req)
    /\ laying = "Sent" /\ layouts = [d \in Directions |-> NoLayout]
    /\ openings = {} /\ verdict = NoVerdict /\ files = {}

-----------------------------------------------------------------------------
(* The token request a service is handed.                                  *)

\* Mistaken: each chunk of three bytes gives four characters, the last one too.
base64url_padded(n) == 4 * ((n + 2) \div 3)

\* The length of n bytes: a chunk gives one character more than it has bytes.
base64url_nopad(n) ==
    4 * (n \div 3) + (IF n % 3 = 0 THEN 0 ELSE (n % 3) + 1)

\* BASE64URL_NOPAD(SHA256(digest || nonce)).
code_verifier == Text(base64url_nopad(32), TRUE)

Texts(max) == {Text(n, p) : n \in {0, 1, max, max + 1}, p \in BOOLEAN}

\* validate on a request with this code; a service refuses or goes on.
TokenRequest ==
    /\ stage = "request"
    /\ \E code \in Texts(MAX_CODE_BYTES) :
           LET e == ValidateRequest([code |-> code, code_verifier |-> code_verifier]) IN
           IF e = "none" THEN stage' = "layout" /\ UNCHANGED verdict
           ELSE stage' = "failed" /\ verdict' = [text |-> code, error |-> e]
    /\ UNCHANGED <<recordVars, ex, layoutVars, origin, job, files, laying, layouts, openings>>

-----------------------------------------------------------------------------
(* The layouts of both directions.                                         *)

Sending ==
    /\ stage = "exchange" /\ ~ExchangeReturns /\ ExchangeStep
    /\ UNCHANGED <<recordVars, layoutVars, ceremony, stage, laying, layouts, openings>>

\* What the client put on the wire is the direction to lay out.
Exchanged ==
    /\ stage = "exchange" /\ ExchangeReturns
    /\ stage' = "layout" /\ len' = ex.sent
    /\ UNCHANGED <<recordVars, ex, lphase, reveal, li, at, commit, secret, ceremony,
                   laying, layouts, openings>>

\* The profile's constructor.  X's token request names no secret, so that it
\* is revealed whole; GitHub's is committed, or missing.
Construct ==
    CASE Job.kind = "token" /\ laying = "Sent" ->
             /\ L!token_request
             /\ Job.platform = "x" => lphase' = "sort" /\ secret' = To(0, 0)
             /\ Job.platform = "github" => lphase' = "refused" \/ secret' # To(0, 0)
      [] Job.kind = "token" /\ laying = "Received" -> L!token_response
      [] Job.kind = "identity" /\ laying = "Sent" -> L!identity_request
      [] Job.kind = "identity" /\ laying = "Received" -> L!identity_response

LayOut ==
    /\ stage = "layout"
    /\ Construct \/ L!SortByStart \/ L!WalkRange \/ L!WalkEnd
    /\ UNCHANGED <<recordVars, ex, ceremony, stage, laying, layouts, openings>>

\* expect, or the `?` behind select_layout.
LayoutRefused ==
    /\ stage = "layout" /\ lphase = "refused"
    /\ stage' = "failed"
    /\ UNCHANGED <<recordVars, ex, layoutVars, ceremony, laying, layouts, openings>>

LaidOutOne ==
    /\ stage = "layout" /\ lphase = "done"
    /\ layouts' = [layouts EXCEPT ![laying] =
                      [reveal |-> reveal, commit |-> commit, secret |-> secret]]
    /\ lphase' = "idle" /\ reveal' = <<>> /\ commit' = <<>> /\ li' = 1 /\ at' = 0
    /\ secret' = To(0, 0)
    /\ IF laying = "Sent" THEN /\ laying' = "Received" /\ len' \in Recvs
                               /\ UNCHANGED <<stage, session>>
       ELSE /\ stage' = "commit" /\ UNCHANGED <<laying, len>>
            /\ session' = [session EXCEPT !.len = [Sent |-> Whole(ex.req), Received |-> len]]
    /\ UNCHANGED <<phase, dir, i, revealed, out, err, ex, ceremony, openings>>

-----------------------------------------------------------------------------
(* The commit configuration and the session the notary observes.           *)

\* Mistaken: the algorithm is left to the library.
DefaultKind(d, r) ==
    [kind |-> "Hash", dir |-> d, alg |-> "BLAKE3", idx |-> <<r>>, bytes |-> 32]

\* default_kind is SHA-256, and each commit call is one range of its own.
Hash(d, r) == [kind |-> "Hash", dir |-> d, alg |-> "SHA256", idx |-> <<r>>, bytes |-> 32]

\* Mistaken: the received layout's commitments are forgotten.
commit_sent_only ==
    {Hash("Sent", layouts["Sent"].commit[k]) : k \in DOMAIN layouts["Sent"].commit}

\* A set: tlsn gives back its members in an order of its own.
transcript_commit_config ==
    UNION {{Hash(d, layouts[d].commit[k]) : k \in DOMAIN layouts[d].commit} : d \in Directions}

\* External, a RangeSet: the bytes it covers, as maximal runs.
Runs(s) ==
    {r \in L!Ranges :
        /\ r.start < r.end
        /\ \A b \in r.start..(r.end - 1) : L!In(s, b)
        /\ ~L!In(s, r.end)
        /\ r.start = 0 \/ ~L!In(s, r.start - 1)}

\* Its iteration, ascending.
RangeSet(s) ==
    CHOOSE t \in SetToSeqs(Runs(s)) : \A j, k \in DOMAIN t : j < k => t[j].start < t[k].start

\* The generator's key: the sent direction first, then by start.
Before(c, d) ==
    \/ c.dir = "Sent" /\ d.dir = "Received"
    \/ c.dir = d.dir /\ c.idx[1].start < d.idx[1].start

\* Mistaken: the generator takes them as the set yields them.
as_yielded(s) == s

ordered(s) ==
    CHOOSE t \in SetToSeqs({s[k] : k \in DOMAIN s}) :
        \A j, k \in DOMAIN t : j < k => Before(t[j], t[k])

\* Bytes of a blinder, which the commitment scheme fixes.
BlinderLen == 16

\* What opens a commitment; the n-th one's blinder.
Opening(c, n) == [dir |-> c.dir, ranges |-> c.idx, blinder |-> n]

\* The reveals and the commitments, proved.  The generator sorts before it
\* numbers its blinders; prover_generic hands the openings over in any order.
Prove ==
    /\ stage = "commit" /\ stage' = "record"
    /\ \E s \in SetToSeqs(transcript_commit_config) :
           LET commits == IF origin = "fixture" THEN ordered(s) ELSE s IN
           /\ session' = [session EXCEPT
                  !.authed = [d \in Directions |-> RangeSet(layouts[d].reveal)],
                  !.commits = commits]
           /\ openings' = {Opening(commits[n], n) : n \in DOMAIN commits}
    /\ UNCHANGED <<phase, dir, i, revealed, out, err, ex, layoutVars, ceremony,
                   laying, layouts>>

RecordStep ==
    /\ stage = "record" /\ Next
    /\ UNCHANGED <<ex, layoutVars, ceremony, stage, laying, layouts, openings>>

\* `expect("record")`, or the notary's error.
RecordRefused ==
    /\ stage = "record" /\ phase = "err" /\ stage' = "failed"
    /\ UNCHANGED <<recordVars, ex, layoutVars, ceremony, laying, layouts, openings>>

-----------------------------------------------------------------------------
(* The record signed, and what becomes of it.                              *)

T0 == 1770000000

\* The server name as a TLS stack may hand it back.
Authority == [name |-> Job, upper |-> TRUE]

\* A byte of the transcript, told from every other by its place.
Byte(d, place) == IF d = "Sent" THEN place ELSE MaxLen + place

Block(d) ==
    [revealed |-> [k \in DOMAIN revealed[d] |->
         [start |-> revealed[d][k].start,
          bytes |-> [b \in 1..(revealed[d][k].end - revealed[d][k].start) |->
                        Byte(d, revealed[d][k].start + b)]]],
     commitments |-> out[d]]

Data ==
    [authority_id |-> authority_id_of(Authority), created_at |-> T0,
     sent_transcript_length |-> session.len["Sent"],
     recv_transcript_length |-> session.len["Received"],
     sent |-> Block("Sent"), received |-> Block("Received")]

\* A platform's file is written behind its second session.
Filed == IF Job.kind = "identity" THEN files \cup {Job.platform} ELSE files

\* session_json, and main goes on: to the platform's other session, or to the
\* next platform.
Signed ==
    /\ stage = "record" /\ phase = "done" /\ origin = "fixture"
    /\ files' = Filed
    /\ IF job = 4
       THEN stage' = "done" /\ UNCHANGED <<recordVars, ex, len, job, laying, layouts, openings>>
       ELSE /\ stage' = "exchange" /\ job' = job + 1
            /\ \E r \in Requests[Jobs[job'].kind] : ex' = ExInit(r)
            /\ len' = Whole(ex'.req)
            /\ session' = NoSession /\ phase' = "lengths" /\ dir' = "Sent" /\ i' = 1
            /\ revealed' = [d \in Directions |-> <<>>] /\ out' = revealed' /\ UNCHANGED err
            /\ laying' = "Sent" /\ layouts' = [d \in Directions |-> NoLayout]
            /\ openings' = {}
    /\ UNCHANGED <<lphase, reveal, li, at, commit, secret, origin, verdict>>

\* A service answers its caller with the bearer, the record, the notary's
\* signature over it and the bearer's opening; the caller validates.
Respond ==
    /\ stage = "record" /\ phase = "done" /\ origin = "prover" /\ Job = Jobs[3]
    /\ \E bearer \in Texts(MAX_ACCESS_TOKEN_BYTES), recid \in {0, 1} :
           LET signature == sign_eth_claim("notary", encode(Data), recid)
               e == ValidateResponse([access_token |-> bearer, signature |-> signature.len,
                                      attested_data |-> EncodedLen(encode(Data)),
                                      bearer_opening |-> BlinderLen])
           IN  /\ stage' = IF e = "none" THEN "done" ELSE "failed"
               /\ verdict' = [text |-> bearer, error |-> e]
    /\ UNCHANGED <<recordVars, ex, layoutVars, origin, job, files, laying, layouts, openings>>

\* A session whose record goes to the browser or to another notary's client.
Recorded ==
    /\ stage = "record" /\ phase = "done"
    /\ origin = "foreign" \/ (origin = "prover" /\ Job # Jobs[3])
    /\ stage' = "done"
    /\ UNCHANGED <<recordVars, ex, layoutVars, ceremony, laying, layouts, openings>>

Ended == stage \in {"done", "failed"} /\ UNCHANGED allVars

CeremonyNext ==
    \/ TokenRequest \/ Sending \/ Exchanged
    \/ LayOut \/ LayoutRefused \/ LaidOutOne
    \/ Prove \/ RecordStep \/ RecordRefused
    \/ Signed \/ Respond \/ Recorded
    \/ Ended

CeremonySpec == CeremonyInit /\ [][CeremonyNext]_allVars

-----------------------------------------------------------------------------
(* Properties.                                                             *)

Own == origin # "foreign"

(* The task that plays the platform returns the whole request, however the
   pipe and the two buffers cut it, before anything is laid out. *)
ExchangeReturnsTheRequest ==
    origin = "fixture" /\ stage \in {"layout", "commit", "record"} =>
        ex.sent = Whole(ex.req)

(* A session the crate's own layouts and commit configuration made is never
   refused by the notary, after a whole MPC-TLS session has been paid for
   (session.rs 213-218), and its spans tile both directions.  A session so tiled,
   whoever made it, is recorded so that one forward walk over each block meets
   every byte once and ends on the signed length, however the commitments of the
   two directions were mixed: what the coverage check of the Platform Verifier
   needs (attest.rs 263-284, 380). *)
LaidOutSessionIsRecorded ==
    /\ Own => phase # "err"
    /\ phase = "done" => \A d \in Directions :
           /\ Own => LaidOut(d)
           /\ LaidOut(d) => Walks(d, session.len[d])

(* The caller finds the opening of a credential by the ranges it covers
   (session.rs 290-299): exactly one opening has the direction and the extent
   of what the layout hides, whatever order they were handed over in. *)
OpeningFoundByRanges ==
    Own /\ stage = "record" =>
        \A d \in Directions :
            LET s == layouts[d].secret IN
            s.start < s.end =>
                Cardinality({o \in openings : o.dir = d /\ o.ranges = <<s>>}) = 1

(* "Regenerate and compare" (ceremony_fixtures.rs 19-20): the blinder a range
   of a fixture gets depends on the layouts only, not on the order in which the
   set of commitments is iterated. *)
FixtureIsReproducible ==
    origin = "fixture" /\ stage = "record" =>
        \A o \in openings :
            o.blinder = 1 + Cardinality({c \in transcript_commit_config :
                                Before(c, [dir |-> o.dir, idx |-> o.ranges])})

(* The bytes that are signed spell one record: a reader that goes forward once,
   taking every boundary from what it has read, gets back the record and ends
   with the bytes, under the lowercase authority. *)
ForwardPassDecodes ==
    phase = "done" =>
        LET e == encode(Data) read == ReadRecord(e) IN
        /\ read.got = [Data EXCEPT !.authority_id = [name |-> Job, upper |-> FALSE]]
        /\ read.at = Len(e) + 1

(* A record of the crate's own layouts fits the response that carries it: no
   byte of a session costs more than a commitment, and a session at the
   verifier's limits stays within the bound of token_exchange.rs. *)
RecordFitsTheResponse ==
    LET room(bytes) == HEADER_LEN + 32 + 40 * bytes IN
    /\ Own /\ phase = "done" =>
           EncodedLen(encode(Data)) <= room(session.len["Sent"] + session.len["Received"])
    /\ room(MAX_SENT_DATA + MAX_RECV_DATA) <= MAX_ATTESTED_DATA_BYTES

Credential(text, max) == text.len \in 1..max /\ text.printable

(* The two validates refuse nothing the crates make themselves: a request is
   refused for its code only, never for the verifier it was derived with, and a
   response for its bearer only, never for its record, signature or opening. *)
ServiceRefusesOnlyCredentials ==
    verdict # NoVerdict =>
        (verdict.error = "none" <=>
             Credential(verdict.text, IF phase = "done" THEN MAX_ACCESS_TOKEN_BYTES
                                      ELSE MAX_CODE_BYTES))
=============================================================================
