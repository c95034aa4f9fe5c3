----------------------------- MODULE MCSession -----------------------------
(* Small instances of Session for TLC. *)
EXTENDS Session

App(n) == [typ |-> "ApplicationData", len |-> n]
Alert(n) == [typ |-> "Alert", len |-> n]

\* Two application records around an alert sent, one received: 3 and 2 bytes.
SentRecords == <<App(2), Alert(2), App(1)>>
RecvRecords == <<App(2)>>

Honest == [mpc |-> TRUE, identity |-> TRUE, maxSent |-> MaxSent, maxRecv |-> MaxRecv,
           sent |-> SentRecords, recv |-> RecvRecords,
           commits |-> {[dir |-> "Sent", idx |-> {1, 2}],
                        [dir |-> "Received", idx |-> {1}],
                        [dir |-> "Received", idx |-> {}]}]

Commits(c, k) == [c EXCEPT !.commits = @ \cup {k}]

\* An honest claim at every limit, and one just past each.
AllClaims == {
    Honest,
    [Honest EXCEPT !.mpc = FALSE],
    [Honest EXCEPT !.identity = FALSE],
    [Honest EXCEPT !.maxSent = MaxSent + 1],
    [Honest EXCEPT !.maxRecv = MaxRecv + 1],
    Commits(Honest, [dir |-> "Sent", idx |-> {3}]),
    Commits(Honest, [dir |-> "Received", idx |-> {0, 2}])}

HonestOnly == {Honest}
=============================================================================
