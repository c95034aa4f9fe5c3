------------------------------ MODULE MCCeremony ----------------------------
(* Sessions a notary may be handed, and the requests of a ceremony, for TLC. *)
EXTENDS Ceremony

\* A token request has a body; an identity request is a head alone.
SmallRequests ==
    [token |-> {[head |-> 3, body |-> 3]}, identity |-> {[head |-> 6, body |-> 0]}]

Good == <<Hash("Sent", To(0, 1)), Hash("Sent", To(2, 3)),
          Hash("Received", To(1, 2)), Hash("Received", To(3, 4))>>

Orders == {f \in [1..4 -> 1..4] : \A j, k \in 1..4 : j # k => f[j] # f[k]}

\* Two commitments each way around two reveals, made in any order.
LaidOutSession(f) ==
    [len    |-> [Sent |-> 4, Received |-> 4],
     authed |-> [Sent |-> <<To(1, 2), To(3, 4)>>, Received |-> <<To(0, 1), To(2, 3)>>],
     commits |-> [k \in 1..4 |-> Good[f[k]]]]

Base == LaidOutSession([k \in 1..4 |-> k])

\* One commitment of the list, of either direction, is not what it should be.
Odd(c) == {
    [c EXCEPT !.kind = "Other"],
    [c EXCEPT !.alg = "BLAKE3"],
    [c EXCEPT !.bytes = 20],
    [c EXCEPT !.idx = <<>>],
    [c EXCEPT !.idx = <<@[1], To(3, 4)>>],
    [c EXCEPT !.idx = <<To(0, 3)>>],
    [c EXCEPT !.idx = <<To(4, MaxOffset + 1)>>],
    [c EXCEPT !.alg = "BLAKE3", !.bytes = 20]}

AllSessions ==
    {LaidOutSession(f) : f \in Orders}
    \cup UNION {{[Base EXCEPT !.commits[k] = c] : c \in Odd(Good[k])} : k \in 1..4}
    \cup {[Base EXCEPT !.len[d] = MaxOffset] : d \in Directions}
    \cup {[Base EXCEPT !.len[d] = MaxOffset + 1] : d \in Directions}
    \cup {[Base EXCEPT !.authed[d] = Append(@, To(MaxOffset, MaxOffset + 1))] : d \in Directions}
    \cup {[Base EXCEPT !.commits = <<>>,
                       !.authed = [d \in Directions |-> <<To(0, 4)>>]]}
=============================================================================
