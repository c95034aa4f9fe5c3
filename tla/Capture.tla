------------------------------ MODULE Capture ------------------------------
(***************************************************************************)
(* The capture tool, crates/libid-tlsn/examples/capture_ceremony.rs: it    *)
(* waits for a browser's redirect, runs the token session and then the     *)
(* identity session, each with the verifier as a task of the same process, *)
(* and writes one file.  A session is the abstract one of Notarization,    *)
(* which Session implements.                                               *)
(*                                                                         *)
(* Bytes are numbers and a text is a sequence of them.  A redirect is the  *)
(* list of its query's pairs; the listener reads it once, and gets a       *)
(* prefix.                                                                 *)
(***************************************************************************)
EXTENDS Naturals, Sequences

CONSTANTS
    Codes,    \* the codes a platform may issue, as texts
    Visits    \* how often the browser connects for anything but the consent

Percent == 37
Plus == 43
Space == 32
Unreserved == (48..57) \cup (65..90) \cup (97..122) \cup {45, 46, 95, 126}

\* A hex digit as a byte, and the value of a byte that is one, else 16.
Digit(n) == IF n < 10 THEN 48 + n ELSE 55 + n
HexValue(b) ==
    CASE b \in 48..57 -> b - 48 [] b \in 65..70 -> b - 55 [] b \in 97..102 -> b - 87
      [] OTHER -> 16

\* External, from_str_radix over two bytes: it takes a sign for a digit as well.
Radix(a, b) == IF a = Plus THEN HexValue(b) ELSE 16 * HexValue(a) + HexValue(b)
IsRadix(a, b) == HexValue(b) < 16 /\ (a = Plus \/ HexValue(a) < 16)

form_encode(value) ==
    LET upTo[n \in 0..Len(value)] ==
            IF n = 0 THEN <<>>
            ELSE upTo[n - 1] \o IF value[n] \in Unreserved THEN <<value[n]>>
                 ELSE <<Percent, Digit(value[n] \div 16), Digit(value[n] % 16)>>
    IN  upTo[Len(value)]

\* Mistaken: an escape that ends the value is taken for a plain per cent sign.
EscapeInside(v, k) == k + 2 < Len(v) /\ IsRadix(v[k + 1], v[k + 2])

\* Two hex digits follow the per cent sign, the value's last two included.
EscapeAt(v, k) == k + 2 <= Len(v) /\ IsRadix(v[k + 1], v[k + 2])

\* The bytes the loop of form_decode collects.
form_bytes(v) ==
    LET from[k \in 1..(Len(v) + 1)] ==
            CASE k > Len(v) -> <<>>
              [] k <= Len(v) /\ v[k] = Percent /\ EscapeAt(v, k) ->
                     <<Radix(v[k + 1], v[k + 2])>> \o from[k + 3]
              [] k <= Len(v) /\ v[k] = Plus -> <<Space>> \o from[k + 1]
              [] OTHER -> <<v[k]>> \o from[k + 1]
    IN  from[1]

\* External, UTF-8: how many bytes the character has that starts with this one, and
\* what may come second; every later byte is from Trail.
Trail == 128..191
Width(lead) ==
    CASE lead \in 0..127 -> 1 [] lead \in 194..223 -> 2 [] lead \in 224..239 -> 3
      [] lead \in 240..244 -> 4 [] OTHER -> 0
Second(lead) ==
    CASE lead = 224 -> 160..191 [] lead = 237 -> 128..159 [] lead = 240 -> 144..191
      [] lead = 244 -> 128..143 [] OTHER -> Trail

\* The n bytes from place k on are a character's, from its first.
Begins(v, k, n) ==
    /\ n <= Width(v[k]) /\ k + n <= Len(v) + 1
    /\ \A j \in 1..(n - 1) : v[k + j] \in IF j = 1 THEN Second(v[k]) ELSE Trail
CharAt(v, k) == Width(v[k]) # 0 /\ Begins(v, k, Width(v[k]))

\* Every byte is of a character that is there.
IsUtf8(v) == \A k \in DOMAIN v : \E s \in 1..k : CharAt(v, s) /\ k < s + Width(v[s])

\* External, from_utf8_lossy: what begins a character and goes no further, a byte
\* that begins none, each becomes one U+FFFD.
Replacement == <<239, 191, 189>>
Taken(v, k) ==
    IF Begins(v, k, 4) THEN 4 ELSE IF Begins(v, k, 3) THEN 3
    ELSE IF Begins(v, k, 2) THEN 2 ELSE 1
from_utf8_lossy(v) ==
    LET from[k \in 1..(Len(v) + 1)] ==
            IF k > Len(v) THEN <<>>
            ELSE (IF CharAt(v, k) THEN SubSeq(v, k, k + Taken(v, k) - 1) ELSE Replacement)
                     \o from[k + Taken(v, k)]
    IN  from[1]

\* Mistaken: what is not ASCII becomes a question mark.
ascii_decode(v) ==
    LET b == form_bytes(v) IN [k \in DOMAIN b |-> IF b[k] < 128 THEN b[k] ELSE 63]

form_decode(v) == from_utf8_lossy(form_bytes(v))

ASSUME VisitsAssumption == Visits \in Nat

\* A code is text: the browser and the tool hold it in a String.
ASSUME CodesAssumption == \A c \in Codes : c \in Seq(0..255) /\ IsUtf8(c)

-----------------------------------------------------------------------------

Expected == <<97>>     \* the state of this run, and one of another
Another == <<98>>

VARIABLES
    args,       \* --platform, and whether --client-secret was given
    issued,     \* the code the platform gave the browser on consent
    pc,         \* where main stands
    queue,      \* connections the listener has not accepted yet
    visits,     \* how many were for something else
    socket,     \* the accepted connection
    code,       \* what receive_code returned, as the pair it was read from
    accepts, stage, outcome,  \* the session under way, see Notarization
    aborting,   \* whether the verifier task was aborted
    records,    \* the sessions recorded and signed
    file        \* what the file holds, when it is written

Parties == {"prover", "verifier"}
N == INSTANCE Notarization

sessionVars == <<accepts, stage, outcome, aborting>>
browser == <<queue, visits, socket>>
vars == <<args, issued, pc, browser, code, sessionVars, records, file>>

None == [kind |-> "none"]
NoFile == {"no file"}
Fresh == [p \in Parties |-> "none"]

Init ==
    /\ args \in [platform : {"x", "github", "other"}, secret : BOOLEAN]
    /\ issued \in Codes
    /\ pc = "start" /\ queue = <<>> /\ visits = 0 /\ socket = None /\ code = None
    /\ accepts = TRUE /\ stage = "open" /\ outcome = Fresh /\ aborting = FALSE
    /\ records = {} /\ file = NoFile

Exit(how) == pc' = how /\ UNCHANGED <<args, issued, browser, code, sessionVars, records, file>>

\* The output directory, the authorize URL and the listener; an unknown platform
\* panics, and so does an expect of main on the way.
Start ==
    /\ pc = "start"
    /\ \/ args.platform # "other" /\ Exit("accept")
       \/ Exit("panic")

-----------------------------------------------------------------------------
(* The browser, external, and receive_code.                                *)

\* X puts the state before the code, GitHub after it; either spells a value
\* with escapes.  Other visits: no query, a refusal, another run's redirect, or
\* a connection opened ahead of need, on which nothing is sent.
Query(kind) ==
    LET ofCode == <<"code", form_encode(issued)>>
        ofState == <<"state", Expected>>
    IN  CASE kind = "consent" -> IF args.platform = "x" THEN <<ofState, ofCode>>
                                 ELSE <<ofCode, ofState>>
          [] kind = "stale" -> <<ofCode, <<"state", Another>>>>
          [] kind = "refusal" -> <<<<"error", Another>>, ofState>>
          [] OTHER -> <<>>

Open(kind) ==
    /\ pc \in {"accept", "read"}
    /\ queue' = Append(queue, [kind |-> kind])
    /\ UNCHANGED <<args, issued, pc, socket, code, sessionVars, records, file>>

\* Consent is given, again when the page said to try again.
Consent ==
    /\ \A k \in DOMAIN queue : queue[k].kind # "consent"
    /\ socket.kind # "consent"
    /\ Open("consent") /\ UNCHANGED visits

Visit ==
    /\ visits < Visits /\ visits' = visits + 1
    /\ \E kind \in {"stale", "refusal", "none", "idle"} : Open(kind)

\* One connection at a time: the next is not accepted before this one is answered.
Accept ==
    /\ pc = "accept" /\ queue # <<>>
    /\ socket' = Head(queue) /\ queue' = Tail(queue) /\ pc' = "read"
    /\ UNCHANGED <<args, issued, visits, code, sessionVars, records, file>>

\* What one read may get of a query: some pairs, and a beginning of the next value.
Arrived(q) ==
    {SubSeq(q, 1, n) : n \in 0..Len(q)} \cup
        UNION {{Append(SubSeq(q, 1, n - 1), <<q[n][1], SubSeq(q[n][2], 1, m)>>) :
                    m \in 0..(Len(q[n][2]) - 1)} : n \in DOMAIN q}

Places(pairs, key) == {k \in DOMAIN pairs : pairs[k][1] = key}

\* Mistaken: any redirect with a code will do.
StateUnchecked(pairs) == Places(pairs, "code") # {}

\* 200 for a code beside the expected state.
Granted(pairs) ==
    /\ Places(pairs, "code") # {}
    /\ \E k \in Places(pairs, "state") : form_decode(pairs[k][2]) = Expected

\* The request is read once, answered, and taken or ignored.
ReadRequest(pairs) ==
    /\ pc = "read"
    /\ IF Granted(pairs)
       THEN /\ pc' = "token"
            /\ code' = [kind |-> socket.kind, whole |-> pairs = Query(socket.kind),
                        text |-> form_decode(pairs[CHOOSE k \in Places(pairs, "code") : TRUE][2])]
       ELSE pc' = "accept" /\ UNCHANGED code
    /\ socket' = None
    /\ UNCHANGED <<args, issued, queue, visits, sessionVars, records, file>>

ReadShort == socket.kind # "idle" /\ \E pairs \in Arrived(Query(socket.kind)) : ReadRequest(pairs)
ReadWhole == socket.kind # "idle" /\ ReadRequest(Query(socket.kind))

\* The browser gives an idle connection up: the read gets nothing.
IdleCloses == socket.kind = "idle" /\ ReadRequest(<<>>)

\* An accept, a read or an answer that fails is an error main expects not to meet.
Reset == pc \in {"accept", "read"} /\ Exit("panic")

-----------------------------------------------------------------------------
(* The two sessions.                                                       *)

SecretMissing ==
    /\ pc = "token" /\ args.platform = "github" /\ ~args.secret
    /\ stage = "open" /\ outcome = Fresh
    /\ Exit("panic")

Ready == pc \in {"token", "identity"} /\ (args.platform = "github" => args.secret)

\* The platform gives a bearer for the code it issued, spelled in the body as
\* form_encode spells it.  Its answer to the identity request has the members.
PlatformAnswers == pc = "token" => form_bytes(form_encode(code.text)) = issued

\* A step of the session of both parties.  The layout of a token response without
\* a bearer is refused, so that such a session is not proved.
SessionStep ==
    /\ Ready /\ ~aborting
    /\ \/ N!Run
       \/ N!Prove /\ PlatformAnswers
       \/ \E p \in Parties, o \in {"ok", "err"} : N!End(p, o)
    /\ UNCHANGED <<args, issued, pc, browser, code, aborting, records, file>>

\* Mistaken: the error is reported at once.
ReportFirst ==
    /\ Ready /\ outcome["prover"] = "err" /\ ~aborting
    /\ pc' = "failed" /\ aborting' = TRUE
    /\ UNCHANGED <<args, issued, browser, code, accepts, stage, outcome, records, file>>

\* Mistaken: the verifier task is awaited, and not aborted first.
AwaitOnly ==
    /\ Ready /\ outcome["prover"] = "err" /\ ~aborting
    /\ outcome["verifier"] # "none" /\ aborting' = TRUE
    /\ UNCHANGED <<args, issued, pc, browser, code, accepts, stage, outcome, records, file>>

\* verifier.abort(), and the await behind it.
ProverFailed ==
    /\ Ready /\ outcome["prover"] = "err" /\ ~aborting
    /\ aborting' = TRUE
    /\ UNCHANGED <<args, issued, pc, browser, code, accepts, stage, outcome, records, file>>

VerifierAborted ==
    /\ aborting /\ N!End("verifier", "dropped")
    /\ UNCHANGED <<args, issued, pc, browser, code, aborting, records, file>>

\* fail: the process exits with an error.
Report ==
    /\ Ready /\ outcome["verifier"] # "none"
    /\ aborting \/ (outcome["prover"] = "ok" /\ outcome["verifier"] # "ok")
    /\ Exit("failed")

-----------------------------------------------------------------------------
(* What a record reveals, and the file.                                    *)

XBody == <<"grant_type", "client_id", "code", "redirect_uri", "code_verifier">>
GithubBody == <<"client_id", "code", "redirect_uri", "code_verifier", "client_secret">>

\* Mistaken: one profile for both platforms.
SecretFieldOfX(platform) == {}

\* The field of the body from which the profile commits.
SecretField(platform) == IF platform = "github" THEN {"client_secret"} ELSE {}

\* Layout: the token request up to its secret, the key of the bearer's member;
\* the identity request around its bearer, and the two members of the answer.
Reveals(platform, kind) ==
    IF kind = "identity" THEN {"request line", "id", "handle"}
    ELSE LET body == IF platform = "x" THEN XBody ELSE GithubBody IN
         {"request line", "access_token key"} \cup
         {body[k] : k \in {n \in DOMAIN body : \A j \in 1..n : body[j] \notin SecretField(platform)}}

\* The platform's answer in the clear, as the prover hands it back.
ResponseBody == IF pc = "token" THEN {"access_token key", "bearer"} ELSE {"id", "handle"}

Session == [kind |-> pc, code |-> code, response_body |-> ResponseBody,
            record |-> Reveals(args.platform, pc)]

\* The token session is followed by the identity session, with the bearer of its
\* response body.  bearer_of panics over one that is no JSON: the layout found the
\* member in it by a scan.
GoOn ==
    \/ pc = "token" /\ pc' = "identity" /\ stage' = "open" /\ outcome' = Fresh
    \/ pc = "token" /\ pc' = "panic" /\ UNCHANGED <<stage, outcome>>
    \/ pc = "identity" /\ pc' = "write" /\ UNCHANGED <<stage, outcome>>

\* Mistaken: the prover's result is enough.
RecordedByProver ==
    /\ Ready /\ ~aborting /\ outcome["prover"] = "ok"
    /\ records' = records \cup {Session}
    /\ GoOn
    /\ UNCHANGED <<args, issued, browser, code, accepts, aborting, file>>

\* Both parties are done: from_observed, encode, sign.
Recorded ==
    /\ Ready /\ ~aborting /\ \A p \in Parties : outcome[p] = "ok"
    /\ records' = records \cup {Session}
    /\ GoOn
    /\ UNCHANGED <<args, issued, browser, code, accepts, aborting, file>>

\* Mistaken: the whole session goes into the file.
session_json_whole(r) == r.record \cup r.response_body

\* The record and its signature; the response body, with the bearer, is left out.
session_json(r) == r.record

Write ==
    /\ pc = "write"
    /\ \/ /\ pc' = "written"
          /\ file' = (UNION {session_json(r) : r \in records}) \cup {"notary", "code_verifier"}
          /\ UNCHANGED <<args, issued, browser, code, sessionVars, records>>
       \/ Exit("panic")

Ended == pc \in {"written", "failed", "panic"} /\ UNCHANGED vars

Next ==
    \/ Start \/ Consent \/ Visit \/ Accept \/ ReadShort \/ ReadWhole \/ IdleCloses \/ Reset
    \/ SecretMissing \/ SessionStep \/ ProverFailed \/ VerifierAborted \/ Report
    \/ Recorded \/ Write \/ Ended

Spec == Init /\ [][Next]_vars

\* tokio polls what is ready, and the user goes on consenting.  The browser closes
\* a connection it does not use, and a redirect is whole every so often.  Both
\* parties of a session come to their end as Session shows, the verifier only
\* while its prover has not failed: without a peer it may pend.
Fairness ==
    /\ WF_vars(Start) /\ WF_vars(Consent) /\ WF_vars(Accept) /\ WF_vars(IdleCloses)
    /\ WF_vars(ReadShort) /\ SF_vars(socket.kind = "consent" /\ ReadWhole)
    /\ WF_vars(outcome["prover"] = "none" /\ SessionStep)
    /\ WF_vars(outcome["prover"] = "ok" /\ SessionStep)
    /\ WF_vars(SecretMissing) /\ WF_vars(ProverFailed) /\ WF_vars(VerifierAborted)
    /\ WF_vars(Report) /\ WF_vars(Recorded) /\ WF_vars(Write)

FairSpec == Spec /\ Fairness

-----------------------------------------------------------------------------
(* Properties.                                                             *)

(* receive_code returns only what this run's consent brought: no other visit, in
   whatever order the connections came, and the code as the platform issued it
   however it was spelled and whatever characters it is of.  The single read of the socket is why X is an exception:
   its redirect has the state first, and a short read may cut the code. *)
CodeIsTheConsents ==
    code # None =>
        /\ code.kind = "consent"
        /\ code.text = issued \/ (args.platform = "x" /\ ~code.whole)

(* "Stop the verifier before reporting, so the runtime is not torn down under a
   live session" (capture_ceremony.rs 250-251): the process never exits with an
   error while its verifier task is under way. *)
NoExitUnderALiveSession == pc = "failed" => outcome["verifier"] # "none"

(* A file is written only after both sessions were proved and recorded, for the
   code the platform issued: a code that a short read cut, or a session that one
   side alone took for finished, never gets there. *)
FileIsOneCeremony ==
    pc \in {"write", "written"} =>
        /\ {r.kind : r \in records} = {"token", "identity"}
        /\ \A r \in records : r.code.text = issued
        /\ \A p \in Parties : outcome[p] = "ok"

(* Neither the bearer nor the client secret is in the file, on either platform:
   each is under a commitment of the records, and nothing else written has it. *)
CredentialsAreNotWritten == file \cap {"bearer", "client_secret"} = {}

(* Once started the tool ends, however often the browser connects for something
   else first, and whichever party of a session fails. *)
CaptureEnds == <>(pc \in {"written", "failed", "panic"})

(* "The bearer, the secret and the code are never written: the record commits the
   first two and the third is spent" (capture_ceremony.rs 15-17). *)
NeverWritten == file \cap {"bearer", "client_secret", "code"} = {}
=============================================================================
