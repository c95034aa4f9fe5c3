# A verification project for libid-rs

libid-rs is the Rust side of a notarized sign-in ceremony: a *prover* fetches a
page from a platform (X, GitHub) over TLS while a *notary* runs the TLS session
with it in multi-party computation; the notary then signs a record of what the
prover chose to reveal and to commit, and a Platform Verifier reads that record.
This directory holds TLA+ modules for the parts of the repository that carry its
own control logic, TLC configurations for them, and TLAPS proofs.

Paths below are relative to the repository; `session.rs` is
`crates/libid-tlsn/src/session.rs`, and so on.

## The system

| part | source | state | operations | talks to |
|---|---|---|---|---|
| session parties | `libid-tlsn/src/session.rs` | a setup future, the `established` flag, the driver's result, three spawned tasks | `prover_generic`, `verifier` | each other over the mux; the caller through `select_layout`, `on_progress` |
| task guards | same, `AbortOnDrop` | a JoinHandle or nothing | `new`, `handle_mut`, `into_inner`, `drop` | tokio |
| reveal layouts | `libid-transcript/src/ceremony.rs` | none; a sort and a loop | `token_request`, `token_response`, `identity_request`, `identity_response` | called from `prover_generic` through `select_layout` |
| transcript ranges | `libid-transcript/src/ranges.rs` | none | header, chunk and JSON member scans | the layouts |
| attested-data record | `libid-tlsn/src/attest.rs` | two loops per direction | `from_observed` | takes `VerifierResult`, gives the record to sign |
| attestation format | `libid-ceremony/src/attestation.rs` | none | `encode`, `authority_id_of` | the signer, the chain |
| token exchange | `libid-ceremony/src/token_exchange.rs` | none | two `validate`s | a service |
| wire framing | `libid-transcript/src/wire.rs` | the stream position | `write_msg`, `read_msg` | the socket a session gave back |
| signers | `libid-signer/src/lib.rs` | a pool of sources, a signer per slot | `from_spec`, `parse_list`, `build_managed`, signing | AWS KMS |
| crypto helpers | `libid-crypto/src/lib.rs` | none | `sign_eth_claim`, `recover_eth_claim` | the signers, the examples |
| fixture generator | `libid-tlsn/examples/ceremony_fixtures.rs`, `ceremony/common.rs` | a pipe with a server task on it | `exchange`, `build`, `main` | layouts, record, format, crypto |
| capture tool | `libid-tlsn/examples/capture_ceremony.rs` | a listener, a verifier task | `receive_code`, `notarize`, `main` | a browser, both session parties |

tlsn (mux, driver, prover and verifier objects), hyper, tokio, KMS and the
Platform Verifier are outside the repository.

What is hard in it, and what makes each part correct:

* **session parties.** Each function races its setup future against the spawned
  driver with a biased `select!`, and the driver ends by itself when the peer says
  goodbye *or* when the connection dies. Telling the two apart rests on one flag.
  Correct: no good session is failed by its own ending, no dead one pends, no task
  outlives its function, an Ok is agreed, the verifier walks nothing the session
  did not carry.
* **layouts.** The reveals come in any order and the commitments are what they
  leave. Correct: reveals and commitments tile the direction, the credential is
  one commitment.
* **record.** One list of commitments for two directions, in any order. Correct:
  refuses exactly what the format cannot hold, keeps directions apart, and a
  forward walk over each block covers it.
* **signers.** A pool of keys given as text, built with awaits in between.
  Correct: a list is taken or refused whole, a slot is one identity, slots do not
  share a key.
* **ranges.** The server cuts a document into chunks where it likes, and the scans
  run over the raw bytes. Correct: what is selected is a whole member in one chunk,
  a member in one chunk is selected, and a body cut short gives nothing.
* **wire.** Two limits, and a stream that may end after any byte. Correct: what is
  read was written, in order, and a read ends with the connection.
* **format.** Nothing in a record says where a part ends except what was read before
  it. Correct: one forward pass gets the record back.
* **token exchange.** Bounds on what the other crates make. Correct: only a
  credential is ever refused.
* **crypto.** Two conventions for the last byte of a signature. Correct: what a
  signer makes recovers to the identity it serves.
* **fixture generator.** A client and a server on one pipe, and a set that iterates
  as it likes. Correct: what is laid out is what was sent, and files reproduce.
* **capture tool.** A browser that connects when it wants, single reads, two sessions
  that may fail on either side. Correct: only this run's code is taken, nothing is
  written but two proved sessions of one consent without their credentials, no exit
  leaves a live session, and it ends.

## Modules

| module | what it is |
|---|---|
| `Session` | both parties, their tasks, the mux between them |
| `Notarization` | the abstract session: run, then proved, then one outcome each |
| `SessionProofs` | theorems about `Session` |
| `Layout`, `LayoutProofs` | the layouts, and theorems about them |
| `Record` | the notary's record |
| `Attestation` | the signed bytes, and a reader of them |
| `TokenExchange` | the bounds on a token request and response |
| `Exchange` | one request through hyper against a scripted platform |
| `Ceremony`, `CeremonyProofs` | composes `Exchange`, `Layout`, `Record`, `Attestation`, `Crypto` and `TokenExchange`, and theorems about the record and about the whole |
| `Capture`, `CaptureProofs` | the capture tool, over `Notarization`, and theorems about it |
| `Crypto` | how signatures are laid out and taken apart |
| `Signer`, `SignerProofs` | the signer pool and its signatures, and theorems about them |
| `Ranges`, `RangesProofs` | the scans for a JSON member in a chunked response, and theorems about them |
| `Wire`, `WireProofs` | the length-prefixed messages after a session, and theorems about them |
| `Induction` | induction, recursion and ordered enumeration, for the proofs about helpers |
| `MCSession`, `MCLayout`, `MCCeremony`, `MCCapture`, `MCSigner`, `MCRanges`, `MCWire` | instances for TLC |

Definitions whose comment begins with "Mistaken" are plausible errors in the code,
each the wrong form of the definition that follows it; nothing uses them except to
show that a property notices when it is put in that definition's place.

### Session

`fn[p]` is where party p's async function stands: `start`, `setup` (select! is about
to poll the setup future), `driver` (setup was Pending, the driver's handle is
next), `drain` (the driver's result was taken, `(&mut setup).await`), `join`
(`into_inner().await`), `returned`, `dropped`. `pc[p]` is the await the setup future
is suspended on; an action is what the future does from that await's resolving to
the next one, so every await is a place where the other party, a driver or a fault
may step in. `est`, `finished` and `steps` are the locals `established`,
`finished_driver` and the calls of `on_progress`. `task` and `owner` are the spawned
tasks and who holds each handle: a guard (dropping it aborts), a bare handle
(dropping it detaches), nobody.

Polling setup and polling the handle are two actions, `SetupPending` and
`PollDriver`: the driver is another task and may finish between them. An error from
any `?` of a setup future is `SetupFails`, possible at every await when "error" is
among the faults; those that follow `established` with no await in between are
`PProveFailsLate`. `Cancel` is the caller dropping the future or a panic.

A claim is the prover's request and the records the session carried: the protocol
kind, the configured limits, whether the server identity is proved, the records of
each direction and the commitments. `application_data_len`,
`commitment_past_the_session` and `LimitsExceeded` are the verifier's checks on it.

External, from how session.rs uses it: the mux delivers in order and loses what is
given to a driver that is gone; `handle.close()` makes the driver send a goodbye
after everything before it; a driver that reads a goodbye answers it and ends well
with the socket; one that meets the end of the connection ends as an EOF or as an
error, since session.rs handles both; an abort takes effect later (`TaskReaped`).
`prove()` resolves in the step that hands the proof over; the prover task ends with
the TLS connection, after the verifier has joined the MPC.

### Layout

A constructor's scan is represented by the positions it may return, so the model
covers every transcript up to the length bound at once. `SortByStart`, `WalkRange`
and `WalkEnd` are `Layout::revealing` and the loop of `complement`. Inputs keep
to what the program is given: a request that was sent is not empty, a request line
comes before a body field, and two members of one JSON document do not overlap.

### Record

`Lengths`, then for each direction `RevealRange`..`RevealEnd`, `Commitment`..
`CommitEnd`, `Sort`: the two `from_observed`. `Refusal` keeps the order of the
checks. A RangeSet is the ascending list of ranges it iterates.

### Ceremony

A session from its request to its signed record, driven by one of three origins: the
fixture generator's `main` with its four sessions, `prover_generic` making one of the
same four, or a prover that is not this crate's (`Sessions`). In order: `Sending`
(`Exchange`: client and server task over the pipe), `LayOut` (the actions of `Layout`,
instantiated once and used for each direction in turn), `Prove` (the commit
configuration as a set, and the orders in which it may come back: any for
`prover_generic`, sorted by the generator), `RecordStep` (the actions of `Record`), then
`Signed`, `Respond` or `Recorded`. A refusal ends the session, as `?` and `expect` do.
`Exchange` keeps a prefix as a length; a request's head and body and the two buffers are
cut in every way. `encode` is a sequence of fields with widths, and `ReadRecord` a
reader that takes every boundary from what it read before; bytes and commitments are
told apart by their place. A text under the bounds of `TokenExchange` is its length and
whether all of its bytes are allowed.

### Capture

`pc` is where `main` stands. The browser's connections queue up and are served one at a
time; `ReadRequest` is one round of `receive_code` from its single read on, over any
prefix of the query (`Arrived`). `form_encode` and `form_decode` work on bytes:
`form_bytes` is the decoder's loop, with the sign that `from_str_radix` lets through, and
`from_utf8_lossy` (external) what it ends with: each character that is one of UTF-8 stays,
and a piece that is none becomes U+FFFD. The tool also stops by a panic, where a layout
cannot be made (`Start`), a connection cannot be accepted or read (`Reset`) or an answer
names no bearer (`GoOn`). A session is `Notarization` with the verifier as
a spawned task: `ProverFailed`, `VerifierAborted` and `Report` are the abort, the await
behind it and the exit. The platform (external) gives a bearer for the code it issued
and for no other, and the layout of an answer without one is refused. What a record
reveals is a set of named parts of the request and the response.

### Signer and Crypto

An entry is what the code looks at: padding, a `0x`, and a body that is hex digits
(their count, the bytes they spell, their letter case) or a KMS name. Slots are
built concurrently; a KMS slot takes two lookups by name with an await each, and an
operator may move an alias at any time, once each (external); `under` remembers which
slots it moved under and how far each was. Hashes and signatures are symbolic,
the last byte of a signature is a number; a public key is a point with the parity of its
Y.

### Ranges

A response is what a server may send: a head, a document, the places where it cuts
the document into chunks, and how many of the bytes arrived. The scans are operators
with the source's names, over sequences of the bytes they tell apart; a scan returns
the set of its result, empty for `None`; of a `JsonMember` it keeps the member's range,
within which the value's is what stands between the last two quotes. `FoundInBoth` is what
`in_response` and `compute_id_snippet_range` share: found in both bodies, with the
same bytes. The head repeats the field's name, so a scan that begins
too early is noticed. The properties do not use the scans: they describe a member by
its grammar and place a document's byte in the transcript by the chunks before it.
The digits of a chunk's size are one symbol, `Size[n]`, whatever their number: a size
stands between two line ends, so no scan can tell how many they are. `IsJSON` is what
the scans rely on about the document. Chunk extensions and trailers (httparse's
business), the lookup of `Transfer-Encoding` and backslash escapes are left out.

### Wire

A byte on the stream is named by its message and its place in it. Both functions go
one byte at a time, so the stream may end, and a write may be dropped, after any of
them. Four bytes that are not one message's prefix may spell any length; bytes that
are not one message's JSON do not parse.

## Runs

| run | configuration | shows |
|---|---|---|
| `session` | `MCSession.cfg` | with all faults: the safety invariants, the inductive invariant of the proofs, and that `Session` implements `Notarization` |
| `live` | `MCSession_live.cfg` | unless the connection dies or a caller leaves, both return, Ok exactly for acceptable claims; a driver that ends early fails the session; a driver ends after its function |
| `layout` | `MCLayout.cfg` | tiling, proper spans, one commitment for the credential |
| `ceremony` | `MCCeremony.cfg` | refusals, blocks and the forward walk of any session; the crate's own sessions are recorded, fit the response and can be opened; the bytes can be read back; fixtures reproduce |
| `signer` | `MCSigner.cfg` | lists taken or refused whole, one identity per slot, signatures that recover to it |
| `ranges` | `MCRanges.cfg` | selections are whole members; whole members are selected; a short body gives none |
| `wire` | `MCWire.cfg` | with cuts and dropped writes: reads are writes in order; what was written is read; a read ends with the connection |
| `capture` | `MCCapture.cfg` | the code taken, the exit, the file, and that the tool ends |
| `detach`, `wedge`, `pool`, `written` | | statements of the source that the code does not keep, below |

Bounds. `MaxSent = 4`, `MaxRecv = 3` with claims of three and two carried bytes: a
claim at every limit and one just past each, in each direction, an alert record that
must not count, an empty range set. The session itself needs no bound: each await is
passed once, and a frame is sent once. `MaxLen = 6` leaves room for two reveals
with a gap before, between and after, or with none. `MCCeremony` hands the notary two commitments
of each direction in all 24 orders with each kind of fault at each place, at and past
`MaxOffset = 6`; its own sessions have six bytes sent and five or six received, room for
a layout's three commitments and two reveals in one direction, in every order with the
other's. `Pipe = 3` and `Buf = 2` cut a request of six anywhere. `MCCapture` has four
codes (plain, an escape at the end, a per cent sign before digits, a plus), a fifth, `é`,
of two bytes that are one character and that a short read may cut, and lets the browser
connect twice for something else before each consent is read. Lists of three entries
hold a duplicate around a blank, and two KMS slots beside a local one; one alias moves,
before, between or after a slot's look-ups. `MCRanges` has
eight documents of up to sixteen bytes with one thing special in each (whitespace around
the colon, a tab, the name as a value, a repeated member, a leading zero, a number before
a string of the same name), with every choice of at most two cuts, and every
choice at all for the short ones, which are also truncated at every byte; no chunk is
longer than `MaxChunk = 17`, and sizes read as in hexadecimal. `MCWire`
scales four prefix bytes to two, `u32::MAX` to 3 and `MAX_MSG_SIZE` to 2: lengths 1
to 4 are below, at and above the reader's limit and above the writer's, and three
messages let one follow a torn one and be followed.

Fairness (`FairSpec`). tokio polls what was woken, so starts, polls of a finished
driver, joins, deliveries, goodbyes and aborts are weakly fair. A setup step gets
strong fairness: setup is polled in rounds with the driver's handle, so a ready
await is reached infinitely often, not continuously. It is restricted by `MuxServes`:
while the driver runs, after an orderly goodbye, or when the await has resolved. To
a driver that is gone a request "may then never resolve" in the source's words, and
the model assumes no more. No fault is ever forced, and nothing makes a dead
connection appear. In `Wire` each end is weakly fair while it can go on: tokio polls
a write or a read whose stream is ready; no caller has to write, and no stream to end.
In `Capture` tokio's steps are weakly fair, the user goes on consenting, the browser
gives up a connection it does not use, and a redirect is read whole every so often
(strong: a short read may come any number of times, not always). A session's parties
come to an end, as run `live` shows; the verifier's end is not assumed once its prover
has failed, because run `wedge` shows that it may pend.

### Where the code and its comments part

* `detach`: a handle taken back from its guard is awaited in three places (session.rs
  513, 682, 870), and a session that is left there detaches the task; the doc of the
  guard says every exit path aborts. `OnlyAJoinDetaches` shows that there is no fourth
  place, `DriverEndsAfterExit` that a driver still ends.
* `wedge`: the verifier sets `established` before `verify()`. If the connection dies
  after that, the finished driver is read as an orderly close and setup is awaited
  alone, on a driver that is gone.
* `pool`: the duplicate guard compares texts; one key with and without `0x`, or in
  another letter case, fills two slots.
* `written`: the capture tool says the code is never written, and its file holds the
  token request's revealed body with `code=` in it.

## Proofs

Every invariant a passing run checks is a theorem, and so is the refinement. They hold for every value of the constants under the assumptions
below, which TLC evaluates on each instance and which say no more than the code lets in:

| assumption | module | why the code justifies it |
|---|---|---|
| `ConstantsAssumption` | `Session` | the limits are `usize`s; faults are any of three |
| `ClaimsAssumption` | `Session` | record lengths and offsets are `usize`s, a committed range set is finite; nothing relates them |
| `MaxLenAssumption` | `Layout` | a direction has a length |
| `MaxOffsetAssumption`, `SessionsAssumption` | `Record` | what the verifier hands over: the largest offset and the lengths are naturals, a RangeSet gives its ranges ascending; the commitments are of any kind and order |
| `PipeAssumption` | `Exchange` | a duplex pipe and the read buffers hold at least a byte |
| `LimitsAssumption` | `Ceremony` | a request and a response are within the limits the sessions are configured with (`MAX_SENT_DATA`, `MAX_RECV_DATA`), and these are below `u32::MAX` |
| `ListsAssumption` | `Signer` | a list is text split at its commas; a body is hex digits or not, and has a length |
| `SignerAssumption`, `CurveAssumption` | `Signer` | KMS makes its own keys, never the configured ones; two keys have two points, each given by x and the parity of y |
| `CodesAssumption`, `VisitsAssumption` | `Capture` | a platform issues its code as text, and a browser's redirect carries text as UTF-8; of other bytes `from_utf8_lossy` would not give the code back. Visits are a bound of the model |
| `SizeAssumption` | `Ranges` | a chunk has a longest size; different sizes have different digits, and none of these is whitespace or of JSON's syntax |
| `ResponsesAssumption` | `Ranges` | a head ends at its first empty line; a platform serves JSON and cuts it anywhere, and may stop at any byte |
| `WireAssumption` | `Wire` | sizes and the prefix are positive, the reader's limit fits a prefix |

`SessionProofs`. None of the safety invariants is inductive by itself: that an Ok is
agreed depends on what a frame in flight means, and that a goodbye finds `established`
set depends on how far its sender was. `IInv` adds to the types:

* `FramesInv`: an accepted proof request on the wire means the verifier ran and accepts,
  a proof or a goodbye means the prover proved, and proved means ran and accepted;
* `AwaitsInv`: the same facts by the await each party is suspended on;
* `GuardsInv`: who owns the driver's handle at each place of the function, that a taken
  result is the driver's, that a returned function's driver is not running;
* `ConnTaskInv`: the HTTP connection task runs only under the setup future's guard;
* `DetachInv`: a driver runs on behind a dropped future only if setup was done, and a
  running prover task is under its guard until the prover stands at its join, which it
  passes only when that task has ended;
* `ProgressInv`: how many phases were reported, by the await the prover stands at. An
  error behind `prove()` leaves it at that await with all four, so the invariant also
  says that the function is then over and reports nothing twice.

`Init => IInv` and one step per action give `Invariance`; `TypeCorrect`, `TasksReaped`,
`GoodbyeIsNeverEarly`, `OkAgreement`, `PolledOnce` and `ProgressIsOrdered` follow, and
`Refinement` shows that each action is `Run`, `Prove`, `End` or a stutter of
`Notarization` under the mapping in `Session`.

That the verifier walks only what the session carried concerns no step but its checks,
`application_data_len`, a fold over the records, and `commitment_past_the_session`.
`AcceptsTheAcceptable` shows that the fold sums the application data and nothing else,
for every sequence of records, and that the checks accept exactly the acceptable claims;
`AcceptIsSafe` follows.

`LayoutProofs`. `CoreInv` says the stated ranges are proper and apart, that behind the
walk every byte is revealed or committed and not both, and that the walk is between the
ranges it has passed and those to come. It is inductive, and `LayoutsTile` and
`SpansProper` follow for directions of every length. `SecretInv` adds that a reveal ends
where the secret starts, that one starts where it ends unless the direction ends there,
and that once the walk has passed its start the secret is among the commitments: the
round that passes it finds the gap to be the secret, because the reveal before it is
behind the walk and the one after it is the next. Together they are `LayoutInv`
(`LayoutInvariance`), and `SecretCommitted` follows.

`WireProofs`. `WireInv` follows each byte. `WriterInv` bounds how much of each message
was handed over, `ReaderInv` says that every byte on the stream or in the buffer was.
`Reading` is the heart: unless the reader has failed, the bytes not yet taken form a
chain behind a place in what was handed over, each byte the one handed over right after
the one before it, up to the last; and the reader is in step with that place, at the
first byte of a message when it reads a prefix, behind the whole prefix when it reads a
body. A torn message takes the reader out of step: then what it has is short of where
any body begins, so nothing it takes for a body is one. Without the chain a cut inside
one message and a write of the next could be read as one.

The record, in the first part of `CeremonyProofs` (its steps are steps of a ceremony).
`RecordInv` is `Shapes` (where the loops stand), `Blocks` and the types.
`Blocks` says of each direction what its block holds when it is not begun, under way or
finished: the ranges of the direction so far, and each of its hash commitments so far
once, every one good; past `lengths` no direction is over the offset; an error means
that the session is not describable. Done is then all of it and an error is never
unfounded: `RefusesExactly`. `BlocksComplete` needs the sort to keep the commitments it
is given. `TiledBlocksAreWalked` is about the two lists of a block as a reader merges
them: where the spans of a direction tile it, each step of the merge stands at the end
of the spans it has passed, so it never finds a gap or an overlap.

`SignerProofs`. `SignerInv` says that the sources are the named entries the loop is
past, in order, with no text twice (`ParseInv`); that a slot's point and address are two
keys exactly if its alias moved between the two look-ups, and the address is the key it
signs with unless the alias moved behind them (`SlotsInv`; `KmsInv` ties a move to the
slots it fell under); and that each signature was made with the key of its slot's address,
under the second proviso (`MadeInv`). That a move between them gives two keys for certain
rests on the bound that an alias moves once: it is not moved back. A refusal always has
an entry to show for it. A claim recovers because `evm_v` and what takes it apart undo
each other and no two keys share a point.

`CaptureProofs`. What `Reveals` names never holds a credential on a platform that gets
past `Start` (`RevealsNoCredential`), so no record does, and the file is made of records
(`NoCredentialWritten`); an outcome of the session stands once given, so the exit that
waited for the verifier's is never under a live one (`ExitsAfterItsVerifier`).
`form_encode` and `form_bytes` are tables over the bytes of a text: the decoder's loop
undoes the encoding of any bytes, by induction over their length. `from_utf8_lossy` then
changes nothing in a text of UTF-8: no byte inside a character begins one
(`LeadsAreNoTrails`), so the pieces it takes are the text's characters, one after the
other (`LossyKeepsText`). A code is such a text by `CodesAssumption`, so the code that is
taken is the one issued (`CodeInv`, `OnlyTheConsentsCode`). `CeremonyInv` adds where
`main` stands: which sessions are recorded at each place, and that a session proved
means the code was the right one.

`RangesProofs`. The invariant `Scanned` only says that what was selected is a function of
the response; the work is to show what that function gives, for two grammars and over
two bodies:

* positions: `At(ends, k)` is where byte k of a document lies in its framed body, behind
  the chunk sizes and line ends ahead of it, and `Framing` is all that the scans may
  know of such a body. Bytes in one chunk keep their distances (`JoinedBytes`), and those
  with an end of a chunk between them are further apart;
* the scans: `StringFound` and `NumberFound` say what each finds in any text, without
  the minima of the code. In a framed body every opening quote, colon and terminator the
  scan stops at is a byte of the document, since framing holds none (`SizeAssumption`). A
  value may still run through framing: then the range has a carriage return where the
  decoded one, being JSON, has none, so `require_contiguous` refuses it
  (`StringsAreWhole`). A number cannot: a size behind a number does not close it, and a size is
  never taken for the number itself, because what follows it is the value that JSON has
  behind a colon and not a comma or a brace (`ValueFollows`, `NumbersAreWhole`);
* the server: `Framed` is a table filled from the document's end backwards, and
  `FramedIsSent` shows that it is a `Framing`;
* the decoder: also a table from the end backwards (`BackwardRecursion`). `FramedDecodes`
  shows, by induction over the ends of the chunks, that of the first n bytes of a framed
  body it returns the document if the last chunk's size is among them, and an error
  otherwise: `TruncatedBodyYieldsNothing`;
* the head: its first empty line is the transcript's first (`Boundary`), so the raw body
  begins where the server's does.

`CeremonyProofs`. `CeremonyInv` composes `RecordInv` and `LayoutProofs`' `LayoutInv` with
what links them: which stage follows which (`Control`), how much of the request went
where (`Exchanging`), that a finished layout tiles the direction it was made for
(`Laying`, for `Sent` while `Received` is being laid out), and that behind the proof an
own session's authenticated ranges, commitments and openings are those of its layouts
(`Proved`). From it, each with lemmas of its own:

* the openings: `RangeSet` gives the maximal runs of a set of bytes ascending, so
  exactly one of them holds a given byte; the generator's order is total, so the rank of
  a commitment is the same whatever the set's iteration;
* the coverage: runs of a tiled direction tile it too, and `TiledBlocksAreWalked`
  applies;
* what is signed: `Spells` says that the bytes from a place on are those of a list of
  fields. Reading is shown to get back each field, then each list by induction over its
  elements, then each block and the record, always ending where the next part begins.
  This is a theorem about all describable sessions, foreign ones included;
* its size: the encoded length is a sum over parts, a span of an own session is at least
  a byte long and costs at most a commitment (40 bytes), so a record costs at most 40
  times the session's bytes; with the limits of `LimitsAssumption` that is within
  `MAX_ATTESTED_DATA_BYTES`;
* the two validates: `Limits /\ Judged` is inductive relative to `CeremonyInv`. What is
  judged has a length the session bounds, so only the code or the bearer can be refused.

`Induction`. The library's induction theorems take an operator, which the installed
provers cannot instantiate. The lemmas here take the *set* of what the claim holds for
instead: one with the first number of an interval and the successor of each of its
members there holds the interval (`Upwards`); likewise downwards and over finite sets;
and a function with a given start and step exists (`Recursion`, `BoundedRecursion`).
They rest on `WFMin` of the library. `OrderedEnumeration` and its companions are about
finite sets of numbers listed ascending.

Only model-checked: the liveness properties, because fairness and ENABLED are beyond the
prover.

## Not modelled

The header and request-line scans of `ranges.rs` (a window search for one needle), ECDSA
and hashing themselves, error texts, logging, wallets, `origin_form`, the content of the
examples' requests and answers, command-line parsing beyond the arguments' effect, and
the release scripts. Inside the modelled parts: certificates and the attestation request
of `prover_generic`, which only succeed or fail.

## Plan

1. Done: `Session` with `Notarization` and proofs, `Layout` with proofs, `Record`,
   `Signer` with `Crypto`, `Ranges`, `Wire`, `Ceremony` over `Exchange`, `Layout`,
   `Record`, `Attestation` and `TokenExchange`, `Capture` over `Notarization`.
2. `Wire` composed with the end of `Session`: the record is written to the socket both
   parties got back, and a party that lost its socket writes nothing.
3. The header scans, and escapes inside a JSON string.
4. Proofs: done for the invariants of every module and for the refinement. A module of 2
   and 3 needs its own.
