-------------------------------- MODULE Wire --------------------------------
(***************************************************************************)
(* write_msg and read_msg of crates/libid-transcript/src/wire.rs, at the   *)
(* two ends of one stream that carries one byte at a time and may end      *)
(* after any of them.                                                      *)
(*                                                                         *)
(* The writer's caller writes one message after another and may drop a     *)
(* write at any await; the reader's caller reads until an error.  A byte   *)
(* is named by the message it belongs to and by its place in it; what the  *)
(* JSON says is left out.                                                  *)
(***************************************************************************)
EXTENDS Naturals, Sequences

CONSTANTS
    Sizes,         \* the lengths of the JSON texts a caller writes
    PrefixLen,     \* bytes of a length prefix
    MaxPrefix,     \* u32::MAX, the largest length a prefix holds
    MAX_MSG_SIZE,  \* the largest length the reader takes
    MaxMessages,   \* bound on the messages written
    Faults         \* which of "cut" and "cancel" this instance meets

ASSUME WireAssumption ==
    /\ Sizes \subseteq Nat \ {0} /\ PrefixLen \in Nat \ {0}
    /\ MaxPrefix \in Nat /\ MAX_MSG_SIZE \in 0..MaxPrefix
    /\ MaxMessages \in Nat /\ Faults \subseteq {"cut", "cancel"}

VARIABLES
    size,    \* the lengths of the messages written so far, the last included
    result,  \* what each write_msg gave its caller; "dropped" if it was
    at,      \* how many bytes of each message were handed to the stream
    stream,  \* bytes on their way
    open,    \* whether the stream still carries anything
    buf,     \* what read_exact has so far
    want,    \* 0 while read_msg reads the prefix, then the length of the body
    got      \* what each read_msg returned: a message's number, or 0, an error

writer == <<size, result, at>>
reader == <<buf, want, got>>
vars == <<writer, stream, open, reader>>

Init ==
    /\ size = <<>> /\ result = <<>> /\ at = <<>>
    /\ stream = <<>> /\ open = TRUE
    /\ buf = <<>> /\ want = 0 /\ got = <<>>

-----------------------------------------------------------------------------
(* write_msg.                                                              *)

Writing == Len(size) > Len(result)
Last == Len(size)

\* The message is serialized and its length converted: too long for a prefix
\* is an error before anything is written.
BeginWrite(n) ==
    /\ ~Writing /\ Len(size) < MaxMessages
    /\ size' = Append(size, n) /\ at' = Append(at, 0)
    /\ result' = IF n > MaxPrefix THEN Append(result, "err") ELSE result
    /\ UNCHANGED <<stream, open, reader>>

\* write_all of the prefix, then of the JSON, byte by byte.
WriteByte ==
    /\ Writing /\ open /\ at[Last] < PrefixLen + size[Last]
    /\ stream' = Append(stream, [msg |-> Last, byte |-> at[Last] + 1])
    /\ at' = [at EXCEPT ![Last] = @ + 1]
    /\ UNCHANGED <<size, result, open, reader>>

Flush ==
    /\ Writing /\ open /\ at[Last] = PrefixLen + size[Last]
    /\ result' = Append(result, "ok")
    /\ UNCHANGED <<size, at, stream, open, reader>>

WriteFails ==
    /\ Writing /\ ~open
    /\ result' = Append(result, "err")
    /\ UNCHANGED <<size, at, stream, open, reader>>

\* The caller drops the write: a timeout, or a select! it lost.
DropWrite ==
    /\ "cancel" \in Faults /\ Writing
    /\ result' = Append(result, "dropped")
    /\ UNCHANGED <<size, at, stream, open, reader>>

\* External: the connection ends.  What is on its way may still be read.
StreamEnds ==
    /\ "cut" \in Faults /\ open
    /\ open' = FALSE
    /\ UNCHANGED <<writer, stream, reader>>

-----------------------------------------------------------------------------
(* read_msg.                                                               *)

Failed == got # <<>> /\ got[Len(got)] = 0

\* The lengths PrefixLen bytes may spell: their message's, or anything at all
\* when they are not one message's prefix.
from_be_bytes(bytes) ==
    IF \A k \in 1..PrefixLen : bytes[k] = [msg |-> bytes[1].msg, byte |-> k]
    THEN {size[bytes[1].msg]} ELSE 0..MaxPrefix

\* JSON of a message is that message; anything else does not parse.
from_slice(bytes) ==
    IF /\ bytes # <<>> /\ Len(bytes) = size[bytes[1].msg]
       /\ \A k \in DOMAIN bytes : bytes[k] = [msg |-> bytes[1].msg, byte |-> PrefixLen + k]
    THEN bytes[1].msg ELSE 0

Need == IF want = 0 THEN PrefixLen ELSE want

ReadByte ==
    /\ ~Failed /\ stream # <<>> /\ Len(buf) < Need
    /\ buf' = Append(buf, Head(stream))
    /\ stream' = Tail(stream)
    /\ UNCHANGED <<writer, open, want, got>>

Finish(r) == got' = Append(got, r) /\ buf' = <<>> /\ want' = 0

\* Mistaken: a message of exactly the largest size is refused.
ReadPrefixStrict ==
    /\ ~Failed /\ want = 0 /\ Len(buf) = PrefixLen
    /\ \E len \in from_be_bytes(buf) :
           IF len >= MAX_MSG_SIZE \/ len = 0 THEN Finish(0)
           ELSE want' = len /\ buf' = <<>> /\ UNCHANGED got
    /\ UNCHANGED <<writer, stream, open>>

\* The prefix is in: too large is an error, an empty body is no JSON.
ReadPrefix ==
    /\ ~Failed /\ want = 0 /\ Len(buf) = PrefixLen
    /\ \E len \in from_be_bytes(buf) :
           IF len > MAX_MSG_SIZE \/ len = 0 THEN Finish(0)
           ELSE want' = len /\ buf' = <<>> /\ UNCHANGED got
    /\ UNCHANGED <<writer, stream, open>>

\* Mistaken: whatever bytes are there are taken for the message they begin.
ReadUnparsed ==
    /\ ~Failed /\ want > 0 /\ Len(buf) = want
    /\ Finish(buf[1].msg)
    /\ UNCHANGED <<writer, stream, open>>

ReadBody ==
    /\ ~Failed /\ want > 0 /\ Len(buf) = want
    /\ Finish(from_slice(buf))
    /\ UNCHANGED <<writer, stream, open>>

\* Mistaken: an end between a prefix and its body is waited out.
ReadEofAtStart ==
    /\ ~Failed /\ ~open /\ stream = <<>> /\ want = 0 /\ Len(buf) < PrefixLen
    /\ Finish(0)
    /\ UNCHANGED <<writer, stream, open>>

\* read_exact meets the end of the stream.
ReadEof ==
    /\ ~Failed /\ ~open /\ stream = <<>> /\ Len(buf) < Need
    /\ Finish(0)
    /\ UNCHANGED <<writer, stream, open>>

Done == ~Writing /\ Len(size) = MaxMessages /\ UNCHANGED vars

ReadStep == ReadByte \/ ReadPrefix \/ ReadBody \/ ReadEof

Next ==
    \/ \E n \in Sizes : BeginWrite(n)
    \/ WriteByte \/ Flush \/ WriteFails \/ DropWrite \/ StreamEnds
    \/ ReadByte \/ ReadPrefix \/ ReadBody \/ ReadEof
    \/ Done

Spec == Init /\ [][Next]_vars

\* Both ends are polled while they can go on.
FairSpec == Spec /\ WF_vars(WriteByte \/ Flush \/ WriteFails) /\ WF_vars(ReadStep)

-----------------------------------------------------------------------------
(* Properties.                                                             *)

(* Until the reader has reported an error, what it returned are messages of the
   writer, whole, in order, and with none left out that had a byte on the
   stream: neither a refused, nor a dropped, nor a half-written message makes
   it return another one in its place (wire.rs 57-89). *)
ReadsAreWritesInOrder ==
    \A k \in DOMAIN got : got[k] # 0 =>
        /\ size[got[k]] <= MAX_MSG_SIZE /\ at[got[k]] = PrefixLen + size[got[k]]
        /\ \A j \in 1..(k - 1) : got[j] # 0 /\ got[j] < got[k]
        /\ \A m \in 1..(got[k] - 1) :
               m \notin {got[j] : j \in 1..(k - 1)} => at[m] = 0

(* A message the reader's limit allows, written to the end after others like it,
   is read, or the connection ended: the limits of the two sides do not refuse
   what both let through. *)
WrittenIsRead ==
    \A m \in 1..MaxMessages :
        (/\ m \in DOMAIN result /\ \A k \in 1..m : result[k] = "ok" /\ size[k] <= MAX_MSG_SIZE)
            ~> (~open \/ \E k \in DOMAIN got : got[k] = m)

(* A read does not outlive the connection: at its end read_msg returns, in the
   prefix, between the prefix and the body, or in the body. *)
ReaderSeesTheEnd == ~open ~> Failed
=============================================================================
