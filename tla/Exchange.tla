------------------------------ MODULE Exchange ------------------------------
(***************************************************************************)
(* One request driven through hyper against a scripted platform: exchange  *)
(* of crates/libid-tlsn/examples/ceremony_fixtures.rs.  The client and the *)
(* server task run concurrently over a pipe.  A request is a head, whose   *)
(* last units are the blank line, and a body; what a party has of it is a  *)
(* prefix, so it is kept as a length.                                      *)
(***************************************************************************)
EXTENDS Naturals, FiniteSetsExt

CONSTANTS
    Pipe,    \* the capacity of the duplex pipe, in each direction
    Buf,     \* the server's read buffer
    Answer   \* the length of the scripted response

ASSUME PipeAssumption == {Pipe, Buf, Answer} \subseteq Nat \ {0}

VARIABLE ex  \* the request, how much of it and of the answer went where

Whole(r) == r.head + r.body

ExInit(r) ==
    [req |-> r, wrote |-> 0, sent |-> 0, answered |-> 0, got |-> 0,
     server |-> "reading", client |-> "sending"]

\* External, hyper: the head with its length, the body, as the pipe takes them.
ClientWrite ==
    /\ ex.client = "sending" /\ ex.wrote < Whole(ex.req)
    /\ \E n \in 1..Min({Whole(ex.req) - ex.wrote, Pipe - (ex.wrote - ex.sent)}) :
           ex' = [ex EXCEPT !.wrote = @ + n]

\* Mistaken: only the head is waited for.
declared_nothing(r) == 0

\* hyper or the caller declares the length of a body; without one it is 0.
declared_length(r) == r.body

\* The blank line is looked for in everything read so far.
Complete(r, sent) == sent >= r.head /\ sent >= r.head + declared_length(r)

\* One read.  The client keeps its end open until it is answered, so that the
\* read of 0 bytes which would also end the loop does not come.
ServerRead ==
    /\ ex.server = "reading" /\ ex.sent < ex.wrote
    /\ \E n \in 1..Min({ex.wrote - ex.sent, Buf}) :
           ex' = [ex EXCEPT !.sent = @ + n,
                            !.server = IF Complete(ex.req, ex.sent + n)
                                       THEN "answering" ELSE @]

\* write_all(response), and the shutdown behind it.
ServerWrite ==
    /\ ex.server = "answering" /\ ex.answered < Answer
    /\ \E n \in 1..Min({Answer - ex.answered, Pipe - (ex.answered - ex.got)}) :
           ex' = [ex EXCEPT !.answered = @ + n]

ServerShutdown ==
    /\ ex.server = "answering" /\ ex.answered = Answer
    /\ ex' = [ex EXCEPT !.server = "returned"]

\* External, hyper: reads the answer, even one that is early.
ClientRead ==
    /\ ex.client = "sending" /\ ex.got < ex.answered
    /\ \E n \in 1..(ex.answered - ex.got) :
           ex' = [ex EXCEPT !.got = @ + n,
                            !.client = IF ex.got + n = Answer THEN "answered" ELSE @]

\* The connection and the server task are awaited; exchange returns.
ExchangeReturns == ex.client = "answered" /\ ex.server = "returned"

ExchangeStep == ClientWrite \/ ServerRead \/ ServerWrite \/ ServerShutdown \/ ClientRead
=============================================================================
