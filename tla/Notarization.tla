--------------------------- MODULE Notarization ---------------------------
(***************************************************************************)
(* What one session promises its two callers, with neither tasks nor mux:  *)
(* it is run, then proved, and only for a claim the verifier accepts; each *)
(* party gets one final outcome, and none gets "ok" before the proof.      *)
(***************************************************************************)
EXTENDS Naturals

CONSTANT Parties

VARIABLES
    accepts,   \* whether the verifier accepts what this session claims
    stage,     \* "open", "ran", "proved"
    outcome    \* what each party's caller has been given

vars == <<accepts, stage, outcome>>

Init ==
    /\ accepts \in BOOLEAN
    /\ stage = "open"
    /\ outcome = [p \in Parties |-> "none"]

\* The TLS session ran to its end under both parties.
Run ==
    /\ stage = "open" /\ stage' = "ran"
    /\ UNCHANGED <<accepts, outcome>>

\* The proof is made.  Its maker may fail on the spot, the proof stands.
Prove ==
    /\ stage = "ran" /\ accepts /\ stage' = "proved"
    /\ \/ UNCHANGED outcome
       \/ \E p \in Parties : outcome[p] = "none"
                             /\ outcome' = [outcome EXCEPT ![p] = "err"]
    /\ UNCHANGED accepts

\* A party's session ends: well after the proof only, badly at any time.
End(p, o) ==
    /\ outcome[p] = "none"
    /\ o = "ok" => stage = "proved"
    /\ outcome' = [outcome EXCEPT ![p] = o]
    /\ UNCHANGED <<accepts, stage>>

Next == Run \/ Prove \/ \E p \in Parties, o \in {"ok", "err", "dropped"} : End(p, o)

Spec == Init /\ [][Next]_vars
=============================================================================
