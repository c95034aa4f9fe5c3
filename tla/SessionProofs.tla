--------------------------- MODULE SessionProofs ---------------------------
(***************************************************************************)
(* Proofs about Session, for every limit, every set of claims and every    *)
(* set of faults.                                                          *)
(***************************************************************************)
EXTENDS Session, Induction, TLAPS

-----------------------------------------------------------------------------
(* Type correctness.                                                       *)

(* Leaving a function, on whatever exit, keeps its state and its tasks typed. *)
LEMMA LeaveType ==
    ASSUME TypeOK, NEW p \in Party, NEW how \in {"returned", "dropped"},
           NEW r \in {"none", "ok", "err"}, Leave(p, how, r)
    PROVE  /\ fn' \in [Party -> {"start", "setup", "driver", "drain", "join",
                                 "returned", "dropped"}]
           /\ res' \in [Party -> {"none", "ok", "err"}]
           /\ task' \in [Tasks -> {"none", "running", "ok", "err", "aborting", "aborted"}]
           /\ owner' \in [Tasks -> {"nobody", "guard", "handle"}]
  BY DEF TypeOK, Leave, Drop

(* Handing a frame to a driver keeps the mux typed, sent or lost. *)
LEMMA SendType ==
    ASSUME TypeOK, NEW p \in Party, NEW m \in Messages,
           Send(p, m) \/ CloseHandle(p)
    PROVE  /\ net' \in [Party -> Seq(Messages)]
           /\ inbox' \in [Party -> SUBSET Messages]
           /\ closed' \in [Party -> BOOLEAN]
  <1>1. CASE Send(p, m)
    BY <1>1 DEF TypeOK, Send
  <1>2. CASE CloseHandle(p)
    <2>1. "goaway" \in Messages
      BY DEF Messages
    <2>2. CASE UNCHANGED <<net, closed>>
      BY <1>2, <2>2 DEF TypeOK, CloseHandle
    <2>3. CASE /\ net' = [net EXCEPT ![p] = Append(@, "goaway")]
               /\ closed' = [closed EXCEPT ![p] = TRUE]
      BY <1>2, <2>1, <2>3 DEF TypeOK, CloseHandle
    <2>4. QED
      BY <1>2, <2>2, <2>3 DEF CloseHandle
  <1>3. QED
    BY <1>1, <1>2

(* Every step of either party, of a task or of the connection keeps TypeOK. *)
LEMMA TypeStep ==
    ASSUME TypeOK, [Next]_vars
    PROVE  TypeOK'
  <1> USE DEF future, tasks, mux, world
  <1>1. ASSUME NEW p \in Party, Start(p) PROVE TypeOK'
    BY <1>1 DEF TypeOK, Start, Spawned, Driver, Tasks
  <1>2. ASSUME NEW p \in Party, SetupPending(p) PROVE TypeOK'
    BY <1>2 DEF TypeOK, SetupPending
  <1>3. ASSUME NEW p \in Party, PollDriver(p) PROVE TypeOK'
    <2>1. CASE ~Ended(Driver(p))
      BY <1>3, <2>1 DEF TypeOK, PollDriver
    <2>2. CASE Ended(Driver(p)) /\ ~est[p]
      BY <1>3, <2>2, LeaveType DEF TypeOK, PollDriver
    <2>3. CASE Ended(Driver(p)) /\ est[p]
      <3>1. /\ fn' = [fn EXCEPT ![p] = "drain"]
            /\ finished' = [finished EXCEPT ![p] = task[Driver(p)]]
            /\ UNCHANGED <<res, tasks, pc, est, steps, mux, world>>
        BY <1>3, <2>3 DEF PollDriver
      <3>2. task[Driver(p)] \in {"none", "ok", "err", "aborted"}
        BY <2>3 DEF Ended
      <3>3. finished' \in [Party -> {"none", "ok", "err", "aborted"}]
        BY <3>1, <3>2 DEF TypeOK
      <3>4. QED
        BY <3>1, <3>3 DEF TypeOK
    <2>4. QED
      BY <2>1, <2>2, <2>3
  <1>4. ASSUME NEW p \in Party, JoinDriver(p) PROVE TypeOK'
    BY <1>4, LeaveType DEF TypeOK, JoinDriver
  <1>5. ASSUME NEW p \in Party, Cancel(p) PROVE TypeOK'
    BY <1>5, LeaveType DEF TypeOK, Cancel
  <1>6. ASSUME NEW p \in Party, SetupFails(p) PROVE TypeOK'
    BY <1>6, LeaveType DEF TypeOK, SetupFails
  <1>7. ASSUME NEW p \in Party, Deliver(p) PROVE TypeOK'
    BY <1>7 DEF TypeOK, Deliver, Peer, Party
  <1>8. ASSUME NEW p \in Party, DriverCloses(p) PROVE TypeOK'
    <2>1. net' \in [Party -> Seq(Messages)]
      BY <1>8 DEF TypeOK, DriverCloses, Peer, Party, P, V, Messages
    <2>2. inbox' \in [Party -> SUBSET Messages] /\ closed' \in [Party -> BOOLEAN]
      BY <1>8 DEF TypeOK, DriverCloses, Messages
    <2>3. QED
      BY <1>8, <2>1, <2>2 DEF TypeOK, DriverCloses, Driver, Tasks
  <1>9. ASSUME NEW p \in Party, DriverSeesEnd(p) PROVE TypeOK'
    BY <1>9 DEF TypeOK, DriverSeesEnd, Driver, Tasks
  <1>10. CASE StartRefused
    BY <1>10, LeaveType DEF TypeOK, StartRefused, Party
  <1>11. CASE PStep
    <2> USE DEF At, Goto, Reported, ProverAwaits, VerifierAwaits, Party, P, V
    <2>1. CASE PBegin
      BY <2>1, SendType DEF TypeOK, PBegin, Messages
    <2>2. CASE PCommit
      BY <2>2 DEF TypeOK, PCommit
    <2>3. CASE PRejected
      BY <2>3, LeaveType DEF TypeOK, PRejected
    <2>4. CASE PConnect
      BY <2>4 DEF TypeOK, PConnect, Spawned, Tasks
    <2>5. CASE PHandshake
      BY <2>5 DEF TypeOK, PHandshake, Spawned, Tasks
    <2>6. CASE PSend
      BY <2>6 DEF TypeOK, PSend
    <2>7. CASE PBody
      BY <2>7 DEF TypeOK, PBody, Disarmed, Tasks
    <2>8. CASE PJoin
      BY <2>8, SendType DEF TypeOK, PJoin, Messages, Tasks
    <2>9. CASE PJoinFails
      BY <2>9, LeaveType DEF TypeOK, PJoinFails
    <2>10. CASE PProve
      BY <2>10, SendType DEF TypeOK, PProve, Proved, Messages
    <2>11. CASE PClose
      <3>1. SetupOk(P) => /\ fn' \in [Party -> {"start", "setup", "driver", "drain",
                                               "join", "returned", "dropped"}]
                          /\ finished' = finished
                          /\ res' \in [Party -> {"none", "ok", "err"}]
                          /\ task' \in [Tasks -> {"none", "running", "ok", "err",
                                                  "aborting", "aborted"}]
                          /\ owner' \in [Tasks -> {"nobody", "guard", "handle"}]
        BY LeaveType DEF TypeOK, SetupOk, Tasks
      <3>2. QED
        BY <2>11, <3>1, SendType DEF TypeOK, PClose, Messages
    <2>12. QED
      BY <1>11, <2>1, <2>2, <2>3, <2>4, <2>5, <2>6, <2>7, <2>8, <2>9, <2>10, <2>11
         DEF PStep
  <1>12. CASE VStep
    <2> USE DEF At, Goto, ProverAwaits, VerifierAwaits, Party, P, V
    <2>1. CASE VBegin
      BY <2>1 DEF TypeOK, VBegin
    <2>2. CASE VCommit
      BY <2>2, SendType DEF TypeOK, VCommit, Messages
    <2>3. CASE VNotMpc
      BY <2>3, LeaveType DEF TypeOK, VNotMpc
    <2>4. CASE VReject
      BY <2>4, LeaveType DEF TypeOK, VReject
    <2>5. CASE VAccept
      BY <2>5, SendType DEF TypeOK, VAccept, Messages
    <2>6. CASE VRun
      BY <2>6 DEF TypeOK, VRun
    <2>7. CASE VVerify
      BY <2>7, SendType DEF TypeOK, VVerify, Messages
    <2>8. CASE VAcceptVerify
      BY <2>8 DEF TypeOK, VAcceptVerify
    <2>9. CASE VClose
      <3>1. SetupOk(V) => /\ fn' \in [Party -> {"start", "setup", "driver", "drain",
                                               "join", "returned", "dropped"}]
                          /\ finished' = finished
                          /\ res' \in [Party -> {"none", "ok", "err"}]
                          /\ task' \in [Tasks -> {"none", "running", "ok", "err",
                                                  "aborting", "aborted"}]
                          /\ owner' \in [Tasks -> {"nobody", "guard", "handle"}]
        BY LeaveType DEF TypeOK, SetupOk, Tasks
      <3>2. QED
        BY <2>9, <3>1, SendType DEF TypeOK, VClose, Messages
    <2>10. QED
      BY <1>12, <2>1, <2>2, <2>3, <2>4, <2>5, <2>6, <2>7, <2>8, <2>9 DEF VStep
  <1>13. CASE PProveFailsLate
    BY <1>13, LeaveType, SendType
       DEF TypeOK, PProveFailsLate, Proved, Reported, Messages, Party
  <1>14. ASSUME NEW o \in {"ok", "err"}, PtaskEnds(o) PROVE TypeOK'
    BY <1>14, SendType DEF TypeOK, PtaskEnds, Messages, Party, Tasks
  <1>15. CASE CtaskEnds
    BY <1>15 DEF TypeOK, CtaskEnds, Tasks
  <1>16. ASSUME NEW t \in Tasks, TaskReaped(t) PROVE TypeOK'
    BY <1>16 DEF TypeOK, TaskReaped
  <1>17. CASE ConnDies
    BY <1>17 DEF TypeOK, ConnDies
  <1>18. CASE UNCHANGED vars
    BY <1>18 DEF TypeOK, vars
  <1>19. QED
    BY <1>1, <1>2, <1>3, <1>4, <1>5, <1>6, <1>7, <1>8, <1>9, <1>10, <1>11, <1>12,
       <1>13, <1>14, <1>15, <1>16, <1>17, <1>18 DEF Next, PartyNext, Finished

(* Every variable of a session keeps its type, whatever is claimed and
   whatever fails. *)
THEOREM TypeCorrect == Spec => []TypeOK
  <1>1. Init => TypeOK
    BY DEF Init, TypeOK, Party, Tasks, P, V, ProverAwaits, VerifierAwaits
  <1>2. TypeOK /\ [Next]_vars => TypeOK'
    BY TypeStep
  <1>3. QED
    BY <1>1, <1>2, PTL DEF Spec

-----------------------------------------------------------------------------
(* Frames: what each step can add to what was sent.                        *)

(* A frame given to the mux is the only one that becomes sent. *)
LEMMA SentBySend ==
    ASSUME TypeOK, NEW p \in Party, NEW m \in Messages, Send(p, m)
    PROVE  \A q \in Party, k \in Messages :
               Sent(q, k)' => Sent(q, k) \/ (q = p /\ k = m)
  BY DEF TypeOK, Send, Sent

(* Closing the handle sends a goodbye at most. *)
LEMMA SentByClose ==
    ASSUME TypeOK, NEW p \in Party, CloseHandle(p)
    PROVE  \A q \in Party, k \in Messages :
               Sent(q, k)' => Sent(q, k) \/ (q = p /\ k = "goaway")
  <1>1. CASE UNCHANGED <<net, inbox>>
    BY <1>1 DEF Sent
  <1>2. CASE net' = [net EXCEPT ![p] = Append(@, "goaway")] /\ UNCHANGED inbox
    BY <1>2 DEF TypeOK, Sent
  <1>3. QED
    BY <1>1, <1>2 DEF CloseHandle

(* Reading a frame sends nothing. *)
LEMMA SentByDeliver ==
    ASSUME TypeOK, NEW p \in Party, Deliver(p)
    PROVE  \A q \in Party, k \in Messages : Sent(q, k)' => Sent(q, k)
  BY DEF TypeOK, Deliver, Sent, Peer, Party, P, V

(* A driver that reads a goodbye, which its peer had sent, answers with one. *)
LEMMA SentByDriverCloses ==
    ASSUME TypeOK, NEW p \in Party, DriverCloses(p)
    PROVE  /\ Sent(Peer(p), "goaway")
           /\ \A q \in Party, k \in Messages :
                  Sent(q, k)' => Sent(q, k) \/ k = "goaway"
  BY DEF TypeOK, DriverCloses, Sent, Peer, Party, P, V

-----------------------------------------------------------------------------
(* The invariant, conjunct by conjunct.                                    *)

(* Frames that carry no promise may be sent without disturbing FramesInv. *)
LEMMA FramesKept ==
    ASSUME FramesInv, est' = est, claim' = claim,
           \A q \in Party, k \in Messages :
               Sent(q, k)' => Sent(q, k)
                              \/ k \in {"commit_req", "commit_ok", "commit_no",
                                        "mpc_v", "mpc_p", "prove_req", "prove_no"}
    PROVE  FramesInv'
  BY DEF FramesInv, Messages, Party, P, V

(* A proof, a goodbye or an acceptance is only sent where FramesInv allows it. *)
LEMMA FramesStep ==
    ASSUME IInv, [Next]_vars
    PROVE  FramesInv'
  <1> USE DEF future, tasks, mux, world
  <1>0. TypeOK /\ FramesInv /\ AwaitsInv
    BY DEF IInv
  <1>1. ASSUME UNCHANGED <<est, claim, net, inbox>> PROVE FramesInv'
    BY <1>0, <1>1, FramesKept DEF Sent
  <1>2. ASSUME NEW p \in Party,
               Start(p) \/ SetupPending(p) \/ PollDriver(p) \/ JoinDriver(p)
               \/ Cancel(p) \/ SetupFails(p) \/ DriverSeesEnd(p)
        PROVE  FramesInv'
    BY <1>1, <1>2
       DEF Start, SetupPending, PollDriver, JoinDriver, Cancel, SetupFails, DriverSeesEnd
  <1>3. ASSUME NEW p \in Party, Deliver(p) PROVE FramesInv'
    BY <1>0, <1>3, SentByDeliver, FramesKept DEF Deliver
  <1>4. ASSUME NEW p \in Party, DriverCloses(p) PROVE FramesInv'
    <2>1. /\ est' = est /\ claim' = claim /\ est[P]
          /\ \A q \in Party, k \in Messages :
                 Sent(q, k)' => Sent(q, k) \/ k = "goaway"
      BY <1>0, <1>4, SentByDriverCloses
         DEF DriverCloses, FramesInv, Peer, Party, P, V
    <2>2. QED
      BY <1>0, <2>1 DEF FramesInv, Messages, Party, P, V
  <1>5. CASE StartRefused \/ PCommit \/ PRejected \/ PConnect \/ PHandshake \/ PSend
             \/ PBody \/ PJoinFails \/ VBegin \/ VNotMpc \/ VReject \/ VAcceptVerify
             \/ CtaskEnds \/ ConnDies
    BY <1>1, <1>5
       DEF StartRefused, PCommit, PRejected, PConnect, PHandshake, PSend, PBody,
           PJoinFails, VBegin, VNotMpc, VReject, VAcceptVerify, CtaskEnds, ConnDies
  <1>6. CASE PBegin \/ PJoin
    BY <1>0, <1>6, SentBySend, FramesKept DEF PBegin, PJoin, Party, Messages
  <1>7. CASE PProve \/ PProveFailsLate
    <2>1. Proved /\ claim' = claim
      BY <1>7 DEF PProve, PProveFailsLate
    <2>2. Sent(V, "prove_ok")
      BY <2>1 DEF Proved, Sent, Peer, P, V
    <2>3. est[V] /\ VerifierAccepts(claim) /\ est' = [est EXCEPT ![P] = TRUE]
      BY <1>0, <2>1, <2>2 DEF Proved, FramesInv
    <2>4. est'[P] /\ est'[V] /\ VerifierAccepts(claim')
      BY <1>0, <2>1, <2>3 DEF TypeOK, Party, P, V
    <2>5. QED
      BY <2>4 DEF FramesInv, P, V
  <1>8. CASE PClose
    <2>1. est[P] /\ est' = est /\ claim' = claim
      BY <1>0, <1>8 DEF PClose, At, AwaitsInv
    <2>2. est[V] /\ VerifierAccepts(claim)
      BY <1>0, <2>1 DEF FramesInv
    <2>3. QED
      BY <2>1, <2>2 DEF FramesInv, P, V
  <1>9. CASE VCommit
    <2>1. est' = est /\ claim' = claim /\ (Send(V, "commit_no") \/ Send(V, "commit_ok"))
      BY <1>9 DEF VCommit
    <2>2. QED
      BY <1>0, <2>1, SentBySend, FramesKept DEF Party, Messages
  <1>10. CASE VAccept
    BY <1>0, <1>10, SentBySend, FramesKept DEF VAccept, Party, Messages
  <1>11. CASE VRun
    <2>1. est' = [est EXCEPT ![V] = TRUE] /\ UNCHANGED <<net, inbox, claim>>
      BY <1>11 DEF VRun
    <2>2. est'[P] = est[P] /\ est'[V]
      BY <1>0, <2>1 DEF TypeOK, Party, P, V
    <2>3. \A q \in Party, k \in Messages : Sent(q, k)' <=> Sent(q, k)
      BY <2>1 DEF Sent
    <2>4. QED
      BY <1>0, <2>1, <2>2, <2>3 DEF FramesInv, Messages, Party
  <1>12. CASE VVerify
    <2>1. est' = est /\ claim' = claim /\ pc[V] = "verify"
      BY <1>12 DEF VVerify, At
    <2>2. CASE ~claim.identity \/ commitment_past_the_session(claim)
      <3>1. Send(V, "prove_no")
        BY <1>12, <2>2 DEF VVerify
      <3>2. QED
        BY <1>0, <2>1, <3>1, SentBySend, FramesKept DEF Party, Messages
    <2>3. CASE ~(~claim.identity \/ commitment_past_the_session(claim))
      <3>1. Send(V, "prove_ok")
        BY <1>12, <2>3 DEF VVerify
      <3>2. est[V] /\ VerifierAccepts(claim)
        BY <1>0, <2>1, <2>3 DEF AwaitsInv, VerifierAccepts
      <3>3. \A q \in Party, k \in Messages :
               Sent(q, k)' => Sent(q, k) \/ (q = V /\ k = "prove_ok")
        BY <1>0, <3>1, SentBySend DEF Party, Messages
      <3>4. QED
        BY <1>0, <2>1, <3>2, <3>3 DEF FramesInv, Messages, Party, P, V
    <2>4. QED
      BY <2>2, <2>3
  <1>13. CASE VClose
    <2>1. est[P] /\ est' = est /\ claim' = claim
      BY <1>0, <1>13 DEF VClose, At, AwaitsInv
    <2>2. est[V] /\ VerifierAccepts(claim)
      BY <1>0, <2>1 DEF FramesInv
    <2>3. QED
      BY <2>1, <2>2 DEF FramesInv, P, V
  <1>14. ASSUME NEW o \in {"ok", "err"}, PtaskEnds(o) PROVE FramesInv'
    <2>1. est' = est /\ claim' = claim /\ (Send(P, "mpc_p") \/ UNCHANGED <<net, inbox>>)
      BY <1>14 DEF PtaskEnds
    <2>2. QED
      BY <1>0, <1>1, <2>1, SentBySend, FramesKept DEF Party, Messages
  <1>15. ASSUME NEW t \in Tasks, TaskReaped(t) PROVE FramesInv'
    BY <1>1, <1>15 DEF TaskReaped
  <1>16. CASE UNCHANGED vars
    BY <1>1, <1>16 DEF vars
  <1>17. QED
    BY <1>2, <1>3, <1>4, <1>5, <1>6, <1>7, <1>8, <1>9, <1>10, <1>11, <1>12, <1>13,
       <1>14, <1>15, <1>16 DEF Next, PartyNext, PStep, VStep, Finished

(* An await is only reached after what AwaitsInv says of it. *)
LEMMA AwaitsStep ==
    ASSUME IInv, [Next]_vars
    PROVE  AwaitsInv'
  <1> USE DEF future, tasks, mux, world
  <1>0. TypeOK /\ FramesInv /\ AwaitsInv
    BY DEF IInv
  <1>1. ASSUME UNCHANGED <<pc, est, claim>> PROVE AwaitsInv'
    BY <1>0, <1>1 DEF AwaitsInv
  <1>2. ASSUME NEW p \in Party, PartyNext(p) PROVE AwaitsInv'
    BY <1>1, <1>2
       DEF PartyNext, Start, SetupPending, PollDriver, JoinDriver, Cancel, SetupFails,
           Deliver, DriverCloses, DriverSeesEnd
  <1>3. CASE StartRefused \/ PRejected \/ PJoinFails \/ VNotMpc \/ VReject
             \/ CtaskEnds \/ ConnDies
    BY <1>1, <1>3 DEF StartRefused, PRejected, PJoinFails, VNotMpc, VReject, CtaskEnds,
                      ConnDies
  <1>4. CASE PBegin \/ PCommit \/ PConnect \/ PHandshake \/ PSend \/ PBody \/ PJoin
    <2>1. /\ \E a \in {"commit", "tcp", "http", "send", "body", "join", "prove"} : Goto(P, a)
          /\ UNCHANGED <<est, claim>>
      BY <1>4 DEF PBegin, PCommit, PConnect, PHandshake, PSend, PBody, PJoin
    <2>2. pc'[V] = pc[V] /\ pc'[P] \notin {"close", "done"}
      BY <1>0, <2>1 DEF TypeOK, Goto, Party, P, V
    <2>3. QED
      BY <1>0, <2>1, <2>2 DEF AwaitsInv
  <1>5. CASE PProve \/ PProveFailsLate
    <2>1. /\ est' = [est EXCEPT ![P] = TRUE] /\ claim' = claim
          /\ Goto(P, "close") \/ pc' = pc
      BY <1>5 DEF PProve, PProveFailsLate, Proved
    <2>2. est'[P] /\ est'[V] = est[V] /\ pc'[V] = pc[V]
      BY <1>0, <2>1 DEF TypeOK, Goto, Party, P, V
    <2>3. QED
      BY <1>0, <2>1, <2>2 DEF AwaitsInv
  <1>6. CASE PClose
    <2>1. Goto(P, "done") /\ UNCHANGED <<est, claim>> /\ pc[P] = "close"
      BY <1>6 DEF PClose, At
    <2>2. pc'[V] = pc[V] /\ est[P]
      BY <1>0, <2>1 DEF TypeOK, Goto, Party, P, V, AwaitsInv
    <2>3. QED
      BY <1>0, <2>1, <2>2 DEF AwaitsInv
  <1>7. CASE VBegin \/ VAccept
    <2>1. /\ UNCHANGED <<est, claim>>
          /\ \/ Goto(V, "commit")
             \/ Goto(V, "run") /\ pc[V] = "accept"
      BY <1>7 DEF VBegin, VAccept, At
    <2>2. pc'[P] = pc[P] /\ (pc'[V] = "commit" \/ (pc'[V] = "run" /\ pc[V] = "accept"))
      BY <1>0, <2>1 DEF TypeOK, Goto, Party, P, V
    <2>3. QED
      BY <1>0, <2>1, <2>2 DEF AwaitsInv
  <1>8. CASE VCommit
    <2>1. /\ UNCHANGED <<est, claim>> /\ claim.mpc
          /\ \/ Goto(V, "reject")
             \/ Goto(V, "accept") /\ ~LimitsExceeded(claim)
      BY <1>8 DEF VCommit
    <2>2. /\ pc'[P] = pc[P]
          /\ pc'[V] = "reject" \/ (pc'[V] = "accept" /\ ~LimitsExceeded(claim))
      BY <1>0, <2>1 DEF TypeOK, Goto, Party, P, V
    <2>3. QED
      BY <1>0, <2>1, <2>2 DEF AwaitsInv
  <1>9. CASE VRun
    <2>1. /\ est' = [est EXCEPT ![V] = TRUE] /\ claim' = claim
          /\ Goto(V, "verify") /\ pc[V] = "run"
      BY <1>9 DEF VRun, At
    <2>2. est'[V] /\ est'[P] = est[P] /\ pc'[P] = pc[P] /\ pc'[V] = "verify"
      BY <1>0, <2>1 DEF TypeOK, Goto, Party, P, V
    <2>3. QED
      BY <1>0, <2>1, <2>2 DEF AwaitsInv
  <1>10. CASE VVerify
    <2>1. /\ UNCHANGED <<est, claim>> /\ pc[V] = "verify"
          /\ \/ Goto(V, "reject")
             \/ Goto(V, "accept_verify") /\ claim.identity
                /\ ~commitment_past_the_session(claim)
      BY <1>10 DEF VVerify, At
    <2>2. claim.mpc /\ ~LimitsExceeded(claim) /\ est[V]
      BY <1>0, <2>1 DEF AwaitsInv
    <2>3. /\ pc'[P] = pc[P]
          /\ pc'[V] = "reject" \/ (pc'[V] = "accept_verify" /\ VerifierAccepts(claim))
      BY <1>0, <2>1, <2>2 DEF TypeOK, Goto, Party, P, V, VerifierAccepts
    <2>4. QED
      BY <1>0, <2>1, <2>2, <2>3 DEF AwaitsInv
  <1>11. CASE VAcceptVerify
    <2>1. /\ UNCHANGED <<est, claim>> /\ pc[V] = "accept_verify"
          /\ Goto(V, "close") /\ "proof" \in inbox[V]
      BY <1>11 DEF VAcceptVerify, At
    <2>2. est[P]
      BY <1>0, <2>1 DEF FramesInv, Sent, Peer, P, V
    <2>3. pc'[P] = pc[P] /\ pc'[V] = "close"
      BY <1>0, <2>1 DEF TypeOK, Goto, Party, P, V
    <2>4. QED
      BY <1>0, <2>1, <2>2, <2>3 DEF AwaitsInv
  <1>12. CASE VClose
    <2>1. Goto(V, "done") /\ UNCHANGED <<est, claim>> /\ pc[V] = "close"
      BY <1>12 DEF VClose, At
    <2>2. pc'[P] = pc[P] /\ pc'[V] = "done"
      BY <1>0, <2>1 DEF TypeOK, Goto, Party, P, V
    <2>3. QED
      BY <1>0, <2>1, <2>2 DEF AwaitsInv
  <1>13. ASSUME NEW o \in {"ok", "err"}, PtaskEnds(o) PROVE AwaitsInv'
    BY <1>1, <1>13 DEF PtaskEnds
  <1>14. ASSUME NEW t \in Tasks, TaskReaped(t) PROVE AwaitsInv'
    BY <1>1, <1>14 DEF TaskReaped
  <1>15. CASE UNCHANGED vars
    BY <1>1, <1>15 DEF vars
  <1>16. QED
    BY <1>2, <1>3, <1>4, <1>5, <1>6, <1>7, <1>8, <1>9, <1>10, <1>11, <1>12, <1>13,
       <1>14, <1>15 DEF Next, PStep, VStep, Finished

-----------------------------------------------------------------------------
(* The driver and the connection task, and who holds them.                 *)

(* What an exit of p does to the two drivers and to the connection task. *)
LEMMA LeaveEffect ==
    ASSUME TypeOK, NEW p \in Party, NEW how \in {"returned", "dropped"},
           NEW r \in {"none", "ok", "err"}, Leave(p, how, r)
    PROVE  /\ fn'[p] = how /\ res'[p] = r
           /\ task'[Driver(p)] = IF owner[Driver(p)] = "guard" /\ task[Driver(p)] = "running"
                                 THEN "aborting" ELSE task[Driver(p)]
           /\ \A q \in Party \ {p} :
                  /\ fn'[q] = fn[q] /\ res'[q] = res[q]
                  /\ task'[Driver(q)] = task[Driver(q)] /\ owner'[Driver(q)] = owner[Driver(q)]
           /\ p = V => task'["ctask"] = task["ctask"] /\ owner'["ctask"] = owner["ctask"]
           /\ p = P /\ owner["ctask"] = "guard" => task'["ctask"] # "running"
           /\ task["ctask"] # "running" => task'["ctask"] # "running"
  BY DEF TypeOK, Leave, Drop, TasksOf, Tasks, Driver, Party, P, V

(* What GuardOf says of a party depends on that party and its driver only. *)
LEMMA GuardFrame ==
    ASSUME NEW q \in Party, GuardOf(q),
           fn'[q] = fn[q], pc'[q] = pc[q], finished'[q] = finished[q], res'[q] = res[q],
           est[q] => est'[q], task'[Driver(q)] = task[Driver(q)],
           owner'[Driver(q)] = owner[Driver(q)]
    PROVE  GuardOf(q)'
  BY DEF GuardOf, Active, Ended

(* Exits that return need a driver that is guarded or already ended. *)
LEMMA GuardLeave ==
    ASSUME IInv, NEW p \in Party, NEW how \in {"returned", "dropped"},
           NEW r \in {"none", "ok", "err"}, Leave(p, how, r), UNCHANGED <<finished, pc>>,
           \A q \in Party : est[q] => est'[q],
           how = "returned" <=> r # "none",
           how = "returned" => Active(p) \/ task[Driver(p)] # "running",
           r = "ok" => pc[p] = "done" /\ task[Driver(p)] = "ok"
    PROVE  GuardsInv' /\ ConnTaskInv'
  <1>0. TypeOK /\ GuardsInv /\ ConnTaskInv
    BY DEF IInv
  <1>1. GuardOf(p) /\ (Active(p) => owner[Driver(p)] = "guard")
    BY <1>0 DEF GuardsInv, GuardOf
  <1>2. GuardOf(p)'
    BY <1>0, <1>1, LeaveEffect DEF GuardOf, Active, Ended
  <1>3. ASSUME NEW q \in Party \ {p} PROVE GuardOf(q)'
    BY <1>0, <1>3, LeaveEffect, GuardFrame DEF GuardsInv
  <1>4. ConnTaskInv'
    BY <1>0, LeaveEffect DEF ConnTaskInv, Active, Party, P, V
  <1>5. QED
    BY <1>2, <1>3, <1>4 DEF GuardsInv

(* A driver that ends by itself leaves the other one and the connection task. *)
LEMMA DriverEnds ==
    ASSUME IInv, NEW p \in Party, NEW o \in {"ok", "err"}, task[Driver(p)] = "running",
           task' = [task EXCEPT ![Driver(p)] = o],
           UNCHANGED <<fn, pc, est, finished, res, owner>>
    PROVE  GuardsInv' /\ ConnTaskInv'
  <1>0. TypeOK /\ GuardsInv /\ ConnTaskInv
    BY DEF IInv
  <1>1. /\ task'[Driver(p)] = o /\ task'["ctask"] = task["ctask"]
        /\ \A q \in Party \ {p} : task'[Driver(q)] = task[Driver(q)]
    BY <1>0 DEF TypeOK, Driver, Tasks, Party, P, V
  <1>2. GuardOf(p)'
    BY <1>0, <1>1 DEF GuardsInv, GuardOf, Active, Ended
  <1>3. ASSUME NEW q \in Party \ {p} PROVE GuardOf(q)'
    BY <1>0, <1>1, <1>3, GuardFrame DEF GuardsInv
  <1>4. QED
    BY <1>0, <1>1, <1>2, <1>3 DEF GuardsInv, ConnTaskInv, Active

(* A setup future that ends well hands over to the join, or to the result that
   was kept, and takes the connection task with it. *)
LEMMA GuardSetupOk ==
    ASSUME IInv, NEW p \in Party, Polling(p), Goto(p, "done"), SetupOk(p), est' = est
    PROVE  GuardsInv' /\ ConnTaskInv'
  <1>0. TypeOK /\ GuardsInv /\ ConnTaskInv
    BY DEF IInv
  <1>1. /\ GuardOf(p) /\ pc'[p] = "done" /\ owner[Driver(p)] = "guard"
        /\ \A q \in Party \ {p} : GuardOf(q) /\ pc'[q] = pc[q]
    BY <1>0 DEF GuardsInv, GuardOf, Polling, Active, TypeOK, Goto
  <1>2. CASE finished[p] # "none"
    <2>1. PICK r \in {"ok", "err"} :
             Leave(p, "returned", r) /\ finished' = finished /\ (r = "ok" => finished[p] = "ok")
      BY <1>2 DEF SetupOk
    <2>2. fn[p] = "drain" /\ finished[p] = task[Driver(p)] /\ task[Driver(p)] # "running"
      BY <1>1, <1>2 DEF GuardOf, Polling, Ended
    <2>3. GuardOf(p)'
      BY <1>0, <1>1, <2>1, <2>2, LeaveEffect DEF GuardOf, Active, Ended
    <2>4. ASSUME NEW q \in Party \ {p} PROVE GuardOf(q)'
      BY <1>0, <1>1, <2>1, <2>4, LeaveEffect, GuardFrame
    <2>5. ConnTaskInv'
      BY <1>0, <2>1, LeaveEffect DEF ConnTaskInv, Active, Party, P, V
    <2>6. QED
      BY <2>3, <2>4, <2>5 DEF GuardsInv
  <1>3. CASE finished[p] = "none"
    <2>1. /\ fn' = [fn EXCEPT ![p] = "join"] /\ finished' = finished /\ res' = res
          /\ task' = [task EXCEPT !["ctask"] =
                         IF p = P /\ @ = "running" THEN "aborting" ELSE @]
          /\ owner' = [t \in Tasks |-> IF t = Driver(p) THEN "handle"
                                       ELSE IF t \in TasksOf(p) THEN "nobody"
                                       ELSE owner[t]]
      BY <1>3 DEF SetupOk
    <2>2. /\ fn'[p] = "join" /\ owner'[Driver(p)] = "handle"
          /\ \A q \in Party : task'[Driver(q)] = task[Driver(q)]
          /\ \A q \in Party \ {p} : fn'[q] = fn[q] /\ owner'[Driver(q)] = owner[Driver(q)]
      BY <1>0, <2>1 DEF TypeOK, Tasks, TasksOf, Driver, Party, P, V
    <2>3. GuardOf(p)'
      BY <1>0, <1>1, <1>3, <2>1, <2>2 DEF GuardOf, Active, Ended, Polling
    <2>4. ASSUME NEW q \in Party \ {p} PROVE GuardOf(q)'
      BY <1>1, <2>1, <2>2, <2>4, GuardFrame
    <2>5. ConnTaskInv'
      BY <1>0, <2>1, <2>2 DEF ConnTaskInv, Active, TypeOK, Tasks, TasksOf, Driver, Party, P, V
    <2>6. QED
      BY <2>3, <2>4, <2>5 DEF GuardsInv
  <1>4. QED
    BY <1>2, <1>3

(* The steps of a setup future between two awaits leave the drivers alone, and
   spawn the connection task under its guard. *)
LEMMA GuardAwait ==
    ASSUME IInv, NEW p \in Party, Polling(p), UNCHANGED <<fn, finished, res>>,
           \A q \in Party : est[q] => est'[q],
           \A q \in Party \ {p} : pc'[q] = pc[q],
           \A q \in Party : /\ task'[Driver(q)] = task[Driver(q)]
                            /\ owner'[Driver(q)] = owner[Driver(q)],
           task'["ctask"] = "running" =>
               \/ p = P /\ owner'["ctask"] = "guard"
               \/ task["ctask"] = "running" /\ owner'["ctask"] = owner["ctask"]
    PROVE  GuardsInv' /\ ConnTaskInv'
  <1>0. GuardsInv /\ ConnTaskInv
    BY DEF IInv
  <1>1. GuardOf(p)'
    BY <1>0 DEF GuardsInv, GuardOf, Polling, Active, Ended
  <1>2. ASSUME NEW q \in Party \ {p} PROVE GuardOf(q)'
    BY <1>0, <1>2, GuardFrame DEF GuardsInv
  <1>3. QED
    BY <1>0, <1>1, <1>2 DEF GuardsInv, ConnTaskInv, Polling, Active

(* A step that leaves the functions, the awaits and the drivers alone. *)
LEMMA GuardElsewhere ==
    ASSUME IInv, UNCHANGED <<fn, finished, res, pc, est, owner>>,
           \A q \in Party : task'[Driver(q)] = task[Driver(q)],
           task'["ctask"] = "running" => task["ctask"] = "running"
    PROVE  GuardsInv' /\ ConnTaskInv'
  BY GuardFrame DEF IInv, GuardsInv, ConnTaskInv, Active

(* Every step keeps each driver held, ended or given up as GuardsInv says. *)
LEMMA GuardsStep ==
    ASSUME IInv, [Next]_vars
    PROVE  GuardsInv' /\ ConnTaskInv'
  <1> USE DEF future, tasks, mux, world
  <1>0. TypeOK /\ GuardsInv /\ ConnTaskInv
    BY DEF IInv
  <1>1. ASSUME NEW p \in Party, Start(p) PROVE GuardsInv' /\ ConnTaskInv'
    <2>1. /\ fn[p] = "start" /\ fn' = [fn EXCEPT ![p] = "setup"] /\ Spawned(Driver(p))
          /\ UNCHANGED <<finished, res, pc, est>>
      BY <1>1 DEF Start
    <2>2. /\ fn'[p] = "setup" /\ owner'[Driver(p)] = "guard"
          /\ task'["ctask"] = task["ctask"] /\ owner'["ctask"] = owner["ctask"]
          /\ \A q \in Party \ {p} :
                 /\ fn'[q] = fn[q] /\ task'[Driver(q)] = task[Driver(q)]
                 /\ owner'[Driver(q)] = owner[Driver(q)]
      BY <1>0, <2>1 DEF TypeOK, Spawned, Driver, Tasks, Party, P, V
    <2>3. GuardOf(p)'
      <3>1. finished[p] = "none" /\ res[p] = "none"
        BY <1>0, <2>1 DEF GuardsInv, GuardOf
      <3>2. QED
        BY <2>1, <2>2, <3>1 DEF GuardOf, Active
    <2>4. ASSUME NEW q \in Party \ {p} PROVE GuardOf(q)'
      BY <1>0, <2>1, <2>2, <2>4, GuardFrame DEF GuardsInv
    <2>5. QED
      BY <1>0, <2>1, <2>2, <2>3, <2>4 DEF GuardsInv, ConnTaskInv, Active
  <1>2. ASSUME NEW p \in Party, SetupPending(p) PROVE GuardsInv' /\ ConnTaskInv'
    <2>1. /\ fn[p] = "setup" /\ fn' = [fn EXCEPT ![p] = "driver"]
          /\ UNCHANGED <<finished, res, pc, est, task, owner>>
      BY <1>2 DEF SetupPending
    <2>2. fn'[p] = "driver" /\ \A q \in Party \ {p} : fn'[q] = fn[q]
      BY <1>0, <2>1 DEF TypeOK
    <2>3. GuardOf(p)'
      BY <1>0, <2>1, <2>2 DEF GuardsInv, GuardOf, Active
    <2>4. ASSUME NEW q \in Party \ {p} PROVE GuardOf(q)'
      BY <1>0, <2>1, <2>2, <2>4, GuardFrame DEF GuardsInv
    <2>5. QED
      BY <1>0, <2>1, <2>2, <2>3, <2>4 DEF GuardsInv, ConnTaskInv, Active
  <1>3. ASSUME NEW p \in Party, PollDriver(p) PROVE GuardsInv' /\ ConnTaskInv'
    <2>1. CASE Ended(Driver(p)) /\ ~est[p]
      <3>1. /\ Leave(p, "returned", "err") /\ UNCHANGED <<finished, pc, est>>
            /\ task[Driver(p)] # "running"
        BY <1>3, <2>1 DEF PollDriver, Ended
      <3>2. QED
        BY <3>1, GuardLeave
    <2>2. CASE ~(Ended(Driver(p)) /\ ~est[p])
      <3>1. /\ fn[p] = "driver" /\ UNCHANGED <<res, pc, est, task, owner>>
            /\ \/ /\ fn' = [fn EXCEPT ![p] = "setup"] /\ finished' = finished
               \/ /\ fn' = [fn EXCEPT ![p] = "drain"] /\ est[p] /\ Ended(Driver(p))
                  /\ finished' = [finished EXCEPT ![p] = task[Driver(p)]]
        BY <1>3, <2>2 DEF PollDriver
      <3>2. /\ \/ fn'[p] = "setup" /\ finished'[p] = finished[p]
               \/ fn'[p] = "drain" /\ est[p] /\ Ended(Driver(p))
                  /\ finished'[p] = task[Driver(p)]
            /\ \A q \in Party \ {p} : fn'[q] = fn[q] /\ finished'[q] = finished[q]
        BY <1>0, <3>1 DEF TypeOK
      <3>3. GuardOf(p)'
        BY <1>0, <3>1, <3>2 DEF GuardsInv, GuardOf, Active, Ended
      <3>4. ASSUME NEW q \in Party \ {p} PROVE GuardOf(q)'
        BY <1>0, <3>1, <3>2, <3>4, GuardFrame DEF GuardsInv
      <3>5. ConnTaskInv'
        <4>1. Active(P) => Active(P)'
          BY <3>1, <3>2 DEF Active, Party
        <4>2. QED
          BY <1>0, <3>1, <4>1 DEF ConnTaskInv
      <3>6. QED
        BY <3>3, <3>4, <3>5 DEF GuardsInv
    <2>3. QED
      BY <2>1, <2>2
  <1>4. ASSUME NEW p \in Party, JoinDriver(p) PROVE GuardsInv' /\ ConnTaskInv'
    <2>1. PICK r \in {"ok", "err"} :
             /\ Leave(p, "returned", r) /\ UNCHANGED <<finished, pc, est>>
             /\ r = "ok" => task[Driver(p)] = "ok"
      BY <1>4 DEF JoinDriver
    <2>2. task[Driver(p)] # "running" /\ pc[p] = "done"
      BY <1>0, <1>4 DEF JoinDriver, Ended, GuardsInv, GuardOf
    <2>3. QED
      BY <2>1, <2>2, GuardLeave
  <1>5. ASSUME NEW p \in Party, Cancel(p) PROVE GuardsInv' /\ ConnTaskInv'
    BY <1>5, GuardLeave DEF Cancel
  <1>6. ASSUME NEW p \in Party, SetupFails(p) PROVE GuardsInv' /\ ConnTaskInv'
    BY <1>6, GuardLeave DEF SetupFails, Polling, Active
  <1>7. ASSUME NEW p \in Party, Deliver(p) PROVE GuardsInv' /\ ConnTaskInv'
    BY <1>7, GuardElsewhere DEF Deliver
  <1>8. ASSUME NEW p \in Party, DriverCloses(p) \/ DriverSeesEnd(p)
        PROVE  GuardsInv' /\ ConnTaskInv'
    <2>1. PICK o \in {"ok", "err"} :
             /\ task[Driver(p)] = "running" /\ task' = [task EXCEPT ![Driver(p)] = o]
             /\ UNCHANGED <<fn, pc, est, finished, res, owner>>
      BY <1>8 DEF DriverCloses, DriverSeesEnd
    <2>2. QED
      BY <2>1, DriverEnds
  <1>9. CASE StartRefused
    <2>1. /\ Leave(P, "returned", "err") /\ UNCHANGED <<finished, pc, est>> /\ fn[P] = "start"
      BY <1>9 DEF StartRefused
    <2>2. task[Driver(P)] # "running"
      BY <1>0, <2>1 DEF GuardsInv, GuardOf, Party
    <2>3. QED
      BY <2>1, <2>2, GuardLeave DEF Party
  <1>10. CASE PRejected \/ PJoinFails
    <2>1. Leave(P, "returned", "err") /\ UNCHANGED <<finished, pc, est>> /\ Active(P)
      BY <1>10 DEF PRejected, PJoinFails, At, Polling, Active
    <2>2. QED
      BY <2>1, GuardLeave DEF Party
  <1>11. CASE VNotMpc \/ VReject
    <2>1. Leave(V, "returned", "err") /\ UNCHANGED <<finished, pc, est>> /\ Active(V)
      BY <1>11 DEF VNotMpc, VReject, At, Polling, Active
    <2>2. QED
      BY <2>1, GuardLeave DEF Party
  <1>12. CASE PBegin \/ PCommit \/ PConnect \/ PHandshake \/ PSend \/ PBody \/ PJoin \/ PProve
    <2>1. /\ Polling(P) /\ UNCHANGED <<fn, finished, res>>
          /\ est' = est \/ est' = [est EXCEPT ![P] = TRUE]
          /\ \E a \in ProverAwaits : Goto(P, a)
      BY <1>12 DEF PBegin, PCommit, PConnect, PHandshake, PSend, PBody, PJoin, PProve,
                   Proved, At, ProverAwaits
    <2>2. pc'[V] = pc[V] /\ \A q \in Party : est[q] => est'[q]
      BY <1>0, <2>1 DEF TypeOK, Goto, Party, P, V
    <2>3. \/ UNCHANGED <<task, owner>> \/ Spawned("ptask") \/ Spawned("ctask")
          \/ Disarmed("ptask")
          \/ (task' = task /\ owner' = [owner EXCEPT !["ptask"] = "nobody"])
      BY <1>12 DEF PBegin, PCommit, PConnect, PHandshake, PSend, PBody, PJoin, PProve
    <2>4. /\ \A q \in Party : /\ task'[Driver(q)] = task[Driver(q)]
                              /\ owner'[Driver(q)] = owner[Driver(q)]
          /\ task'["ctask"] = "running" =>
                \/ owner'["ctask"] = "guard"
                \/ task["ctask"] = "running" /\ owner'["ctask"] = owner["ctask"]
      BY <1>0, <2>3 DEF TypeOK, Spawned, Disarmed, Driver, Tasks
    <2>5. QED
      BY <2>1, <2>2, <2>4, GuardAwait DEF Party, P, V
  <1>13. CASE PProveFailsLate
    <2>1. /\ Leave(P, "returned", "err") /\ UNCHANGED <<finished, pc>> /\ Active(P)
          /\ est' = [est EXCEPT ![P] = TRUE]
      BY <1>13 DEF PProveFailsLate, Proved, At, Polling, Active
    <2>2. \A q \in Party : est[q] => est'[q]
      BY <1>0, <2>1 DEF TypeOK
    <2>3. QED
      BY <2>1, <2>2, GuardLeave DEF Party
  <1>14. CASE PClose
    BY <1>14, GuardSetupOk DEF PClose, At, Party
  <1>15. CASE VBegin \/ VCommit \/ VAccept \/ VRun \/ VVerify \/ VAcceptVerify
    <2>1. /\ Polling(V) /\ UNCHANGED <<fn, finished, res, task, owner>>
          /\ est' = est \/ est' = [est EXCEPT ![V] = TRUE]
          /\ \E a \in VerifierAwaits : Goto(V, a)
      BY <1>15 DEF VBegin, VCommit, VAccept, VRun, VVerify, VAcceptVerify, At, VerifierAwaits
    <2>2. pc'[P] = pc[P] /\ \A q \in Party : est[q] => est'[q]
      BY <1>0, <2>1 DEF TypeOK, Goto, Party, P, V
    <2>3. QED
      BY <2>1, <2>2, GuardAwait DEF Party, P, V
  <1>16. CASE VClose
    BY <1>16, GuardSetupOk DEF VClose, At, Party
  <1>17. ASSUME NEW o \in {"ok", "err"}, PtaskEnds(o) PROVE GuardsInv' /\ ConnTaskInv'
    <2>1. task' = [task EXCEPT !["ptask"] = o] /\ UNCHANGED <<fn, finished, res, pc, est, owner>>
      BY <1>17 DEF PtaskEnds
    <2>2. task'["ctask"] = task["ctask"] /\ \A q \in Party : task'[Driver(q)] = task[Driver(q)]
      BY <1>0, <2>1 DEF TypeOK, Driver, Tasks
    <2>3. QED
      BY <2>1, <2>2, GuardElsewhere
  <1>18. CASE CtaskEnds
    <2>1. task' = [task EXCEPT !["ctask"] = "ok"] /\ UNCHANGED <<fn, finished, res, pc, est, owner>>
      BY <1>18 DEF CtaskEnds
    <2>2. task'["ctask"] = "ok" /\ \A q \in Party : task'[Driver(q)] = task[Driver(q)]
      BY <1>0, <2>1 DEF TypeOK, Driver, Tasks
    <2>3. QED
      BY <2>1, <2>2, GuardElsewhere
  <1>19. ASSUME NEW t \in Tasks, TaskReaped(t) PROVE GuardsInv' /\ ConnTaskInv'
    <2>1. /\ task[t] = "aborting" /\ task' = [task EXCEPT ![t] = "aborted"]
          /\ UNCHANGED <<fn, finished, res, pc, est, owner>>
      BY <1>19 DEF TaskReaped
    <2>2. \A u \in Tasks : \/ task'[u] = task[u]
                           \/ task[u] = "aborting" /\ task'[u] = "aborted"
      BY <1>0, <2>1 DEF TypeOK
    <2>3. \A q \in Party : Driver(q) \in Tasks
      BY DEF Driver, Tasks
    <2>4. ASSUME NEW q \in Party PROVE GuardOf(q)'
      BY <1>0, <2>1, <2>2, <2>3, <2>4 DEF GuardsInv, GuardOf, Active, Ended
    <2>5. ConnTaskInv'
      BY <1>0, <2>1, <2>2 DEF ConnTaskInv, Active, Tasks
    <2>6. QED
      BY <2>4, <2>5 DEF GuardsInv
  <1>20. CASE ConnDies
    BY <1>20, GuardElsewhere DEF ConnDies
  <1>21. CASE UNCHANGED vars
    BY <1>21, GuardElsewhere DEF vars
  <1>22. QED
    BY <1>1, <1>2, <1>3, <1>4, <1>5, <1>6, <1>7, <1>8, <1>9, <1>10, <1>11, <1>12, <1>13,
       <1>14, <1>15, <1>16, <1>17, <1>18, <1>19, <1>20, <1>21
       DEF Next, PartyNext, PStep, VStep, Finished

-----------------------------------------------------------------------------
(* The tasks that are left without a guard.                                *)

(* A step that leaves the functions, the awaits and the owners alone, and starts
   no task. *)
LEMMA DetachElsewhere ==
    ASSUME DetachInv, UNCHANGED <<fn, pc>>, owner'["ptask"] = owner["ptask"],
           \A t \in Tasks : task'[t] = "running" => task[t] = "running"
    PROVE  DetachInv'
  <1>1. \A q \in Party : Driver(q) \in Tasks
    BY DEF Driver, Tasks
  <1>2. "ptask" \in Tasks
    BY DEF Tasks
  <1>3. QED
    BY <1>1, <1>2 DEF DetachInv, Active

(* An exit aborts the driver unless it was joined, and the prover task unless it
   was. *)
LEMMA DetachLeave ==
    ASSUME IInv, NEW p \in Party, NEW how \in {"returned", "dropped"},
           NEW r \in {"none", "ok", "err"}, Leave(p, how, r),
           pc' = pc \/ (pc' = [pc EXCEPT ![p] = "done"] /\ pc[p] = "close"),
           how = "dropped" => fn[p] \in {"start", "setup", "drain", "join"}
    PROVE  DetachInv'
  <1>0. TypeOK /\ GuardsInv /\ DetachInv
    BY DEF IInv
  <1>1. /\ fn'[p] = how /\ \A q \in Party \ {p} : fn'[q] = fn[q]
        /\ \A q \in Party : pc'[q] = pc[q] \/ (pc[q] = "close" /\ pc'[q] = "done")
        /\ \A q \in Party : task'[Driver(q)] = "running" =>
               task[Driver(q)] = "running" /\ (q = p => owner[Driver(q)] # "guard")
        /\ task'["ptask"] = "running" =>
               task["ptask"] = "running" /\ (p = P => owner["ptask"] # "guard")
        /\ p = V => owner'["ptask"] = owner["ptask"]
    BY <1>0 DEF TypeOK, Leave, Drop, TasksOf, Tasks, Driver, Party, P, V
  <1>2. ASSUME NEW q \in Party, fn'[q] = "dropped", task'[Driver(q)] = "running"
        PROVE  pc'[q] = "done"
    <2>1. CASE q = p
      <3>1. GuardOf(p) /\ fn[p] \in {"start", "setup", "drain", "join"}
        BY <1>0, <1>1, <1>2, <2>1 DEF GuardsInv
      <3>2. fn[p] = "join"
        BY <1>1, <1>2, <2>1, <3>1 DEF GuardOf, Active
      <3>3. pc[p] = "done"
        BY <3>1, <3>2 DEF GuardOf
      <3>4. QED
        BY <1>1, <2>1, <3>3
    <2>2. CASE q # p
      BY <1>0, <1>1, <1>2, <2>2 DEF DetachInv
    <2>3. QED
      BY <2>1, <2>2
  <1>3. ASSUME task'["ptask"] = "running"
        PROVE  \/ pc'[P] = "join"
               \/ /\ pc'[P] \in {"http", "send", "body"}
                  /\ Active(P)' /\ owner'["ptask"] = "guard"
    <2>1. P \in Party /\ P # V
      BY DEF Party, P, V
    <2>2. CASE p = P
      BY <1>0, <1>1, <1>3, <2>1, <2>2 DEF DetachInv
    <2>3. CASE p = V
      BY <1>0, <1>1, <1>3, <2>1, <2>3 DEF DetachInv, Active
    <2>4. QED
      BY <2>2, <2>3 DEF Party
  <1>4. QED
    BY <1>2, <1>3 DEF DetachInv

(* When the prover's setup is done its task has been joined, so that nothing is
   left to the bare handles that SetupOk takes. *)
LEMMA DetachSetupOk ==
    ASSUME IInv, NEW p \in Party, At(p, "close"), Goto(p, "done"), SetupOk(p)
    PROVE  DetachInv'
  <1>0. TypeOK /\ DetachInv
    BY DEF IInv
  <1>1. CASE finished[p] # "none"
    <2>1. PICK r \in {"ok", "err"} : Leave(p, "returned", r)
      BY <1>1 DEF SetupOk
    <2>2. pc' = [pc EXCEPT ![p] = "done"] /\ pc[p] = "close"
      BY DEF At, Goto
    <2>3. QED
      BY <2>1, <2>2, DetachLeave
  <1>2. CASE finished[p] = "none"
    <2>1. /\ fn' = [fn EXCEPT ![p] = "join"] /\ pc[p] = "close"
          /\ pc' = [pc EXCEPT ![p] = "done"]
          /\ task' = [task EXCEPT !["ctask"] =
                         IF p = P /\ @ = "running" THEN "aborting" ELSE @]
          /\ owner' = [t \in Tasks |-> IF t = Driver(p) THEN "handle"
                                       ELSE IF t \in TasksOf(p) THEN "nobody"
                                       ELSE owner[t]]
      BY <1>2 DEF SetupOk, At, Goto
    <2>2. /\ fn'[p] = "join" /\ task'["ptask"] = task["ptask"]
          /\ \A q \in Party \ {p} : fn'[q] = fn[q] /\ pc'[q] = pc[q]
          /\ \A q \in Party : task'[Driver(q)] = task[Driver(q)]
          /\ p = V => owner'["ptask"] = owner["ptask"]
      BY <1>0, <2>1 DEF TypeOK, Tasks, TasksOf, Driver, Party, P, V
    <2>3. ASSUME NEW q \in Party, fn'[q] = "dropped", task'[Driver(q)] = "running"
          PROVE  pc'[q] = "done"
      BY <1>0, <2>1, <2>2, <2>3 DEF DetachInv
    <2>4. ASSUME task'["ptask"] = "running"
          PROVE  \/ pc'[P] = "join"
                 \/ /\ pc'[P] \in {"http", "send", "body"}
                    /\ Active(P)' /\ owner'["ptask"] = "guard"
      <3>1. p = V
        BY <1>0, <2>1, <2>2, <2>4 DEF DetachInv, Party
      <3>2. fn'[P] = fn[P] /\ pc'[P] = pc[P] /\ owner'["ptask"] = owner["ptask"]
        BY <2>2, <3>1 DEF Party, P, V
      <3>3. QED
        BY <1>0, <2>2, <2>4, <3>2 DEF DetachInv, Active
    <2>5. QED
      BY <2>3, <2>4 DEF DetachInv
  <1>3. QED
    BY <1>1, <1>2

(* Every step keeps a guard over each task that is not being joined. *)
LEMMA DetachStep ==
    ASSUME IInv, [Next]_vars
    PROVE  DetachInv'
  <1> USE DEF future, tasks, mux, world
  <1>0. TypeOK /\ GuardsInv /\ DetachInv
    BY DEF IInv
  <1>1. ASSUME NEW p \in Party, Start(p) PROVE DetachInv'
    <2>1. fn[p] = "start" /\ fn' = [fn EXCEPT ![p] = "setup"] /\ Spawned(Driver(p)) /\ pc' = pc
      BY <1>1 DEF Start
    <2>2. pc[p] = "init"
      BY <1>0, <2>1 DEF GuardsInv, GuardOf
    <2>3. /\ fn'[p] = "setup" /\ task'["ptask"] = task["ptask"]
          /\ owner'["ptask"] = owner["ptask"]
          /\ \A q \in Party \ {p} : fn'[q] = fn[q] /\ task'[Driver(q)] = task[Driver(q)]
      BY <1>0, <2>1 DEF TypeOK, Spawned, Driver, Tasks, Party, P, V
    <2>4. Active(P) => Active(P)'
      BY <2>1, <2>3 DEF Active, Party
    <2>5. QED
      BY <1>0, <2>1, <2>3, <2>4 DEF DetachInv
  <1>2. ASSUME NEW p \in Party, SetupPending(p) PROVE DetachInv'
    <2>1. fn[p] = "setup" /\ fn' = [fn EXCEPT ![p] = "driver"] /\ UNCHANGED <<pc, task, owner>>
      BY <1>2 DEF SetupPending
    <2>2. fn'[p] = "driver" /\ \A q \in Party \ {p} : fn'[q] = fn[q]
      BY <1>0, <2>1 DEF TypeOK
    <2>3. Active(P) => Active(P)'
      BY <2>1, <2>2 DEF Active, Party
    <2>4. QED
      BY <1>0, <2>1, <2>2, <2>3 DEF DetachInv
  <1>3. ASSUME NEW p \in Party, PollDriver(p) PROVE DetachInv'
    <2>1. CASE Ended(Driver(p)) /\ ~est[p]
      BY <1>3, <2>1, DetachLeave DEF PollDriver
    <2>2. CASE ~(Ended(Driver(p)) /\ ~est[p])
      <3>1. \E f \in {"setup", "drain"} : /\ fn' = [fn EXCEPT ![p] = f]
                                          /\ UNCHANGED <<pc, task, owner>>
        BY <1>3, <2>2 DEF PollDriver
      <3>2. fn'[p] \in {"setup", "drain"} /\ \A q \in Party \ {p} : fn'[q] = fn[q]
        BY <1>0, <3>1 DEF TypeOK
      <3>3. Active(P) => Active(P)'
        BY <3>2 DEF Active, Party
      <3>4. QED
        BY <1>0, <3>1, <3>2, <3>3 DEF DetachInv
    <2>3. QED
      BY <2>1, <2>2
  <1>4. ASSUME NEW p \in Party, JoinDriver(p) \/ Cancel(p) \/ SetupFails(p) PROVE DetachInv'
    <2>1. PICK how \in {"returned", "dropped"}, r \in {"none", "ok", "err"} :
             /\ Leave(p, how, r) /\ pc' = pc
             /\ how = "dropped" => fn[p] \in {"start", "setup", "drain", "join"}
      BY <1>4 DEF JoinDriver, Cancel, SetupFails
    <2>2. QED
      BY <2>1, DetachLeave
  <1>5. ASSUME NEW p \in Party, Deliver(p) PROVE DetachInv'
    BY <1>0, <1>5, DetachElsewhere DEF Deliver
  <1>6. ASSUME NEW p \in Party, DriverCloses(p) \/ DriverSeesEnd(p) PROVE DetachInv'
    <2>1. PICK o \in {"ok", "err"} : /\ task' = [task EXCEPT ![Driver(p)] = o]
                                     /\ UNCHANGED <<fn, pc, owner>>
      BY <1>6 DEF DriverCloses, DriverSeesEnd
    <2>2. \A t \in Tasks : task'[t] = "running" => task[t] = "running"
      BY <1>0, <2>1 DEF TypeOK
    <2>3. QED
      BY <1>0, <2>1, <2>2, DetachElsewhere
  <1>7. CASE StartRefused \/ PRejected \/ PJoinFails \/ PProveFailsLate
    <2>1. Leave(P, "returned", "err") /\ pc' = pc
      BY <1>7 DEF StartRefused, PRejected, PJoinFails, PProveFailsLate
    <2>2. QED
      BY <2>1, DetachLeave DEF Party
  <1>8. CASE VNotMpc \/ VReject
    <2>1. Leave(V, "returned", "err") /\ pc' = pc
      BY <1>8 DEF VNotMpc, VReject
    <2>2. QED
      BY <2>1, DetachLeave DEF Party
  <1>9. CASE PBegin \/ PCommit \/ PConnect \/ PHandshake \/ PSend \/ PBody \/ PJoin \/ PProve
    <2>1. /\ Polling(P) /\ fn' = fn
          /\ pc'[V] = pc[V]
          /\ \/ UNCHANGED <<task, owner>> \/ Spawned("ptask") \/ Spawned("ctask")
             \/ Disarmed("ptask")
             \/ (task' = task /\ owner' = [owner EXCEPT !["ptask"] = "nobody"])
      BY <1>0, <1>9 DEF PBegin, PCommit, PConnect, PHandshake, PSend, PBody, PJoin, PProve,
                   Proved, At, Goto, TypeOK, Party, P, V
    <2>2. \A q \in Party : task'[Driver(q)] = task[Driver(q)]
      BY <1>0, <2>1 DEF TypeOK, Spawned, Disarmed, Driver, Tasks
    <2>3. Active(P) /\ Active(P)' /\ P \in Party /\ P # V
      BY <2>1 DEF Active, Polling, Party, P, V
    <2>4. ASSUME NEW q \in Party, fn'[q] = "dropped", task'[Driver(q)] = "running"
          PROVE  pc'[q] = "done"
      BY <1>0, <2>1, <2>2, <2>3, <2>4 DEF DetachInv, Active, Party
    <2>5. ASSUME task'["ptask"] = "running"
          PROVE  pc'[P] = "join" \/ (pc'[P] \in {"http", "send", "body"} /\ owner'["ptask"] = "guard")
      <3>1. CASE PBegin \/ PCommit \/ PProve
        <4>1. pc[P] \in {"init", "commit", "prove"} /\ task' = task
          BY <3>1 DEF PBegin, PCommit, PProve, Proved, At
        <4>2. QED
          BY <1>0, <2>5, <4>1 DEF DetachInv
      <3>2. CASE PConnect
        BY <1>0, <2>5, <3>2 DEF PConnect, Goto, Spawned, TypeOK, Tasks, Party, P, V
      <3>3. CASE PHandshake \/ PSend
        <4>1. /\ pc[P] # "join" /\ pc'[P] \in {"send", "body"}
              /\ task'["ptask"] = task["ptask"] /\ owner'["ptask"] = owner["ptask"]
          BY <1>0, <3>3 DEF PHandshake, PSend, At, Goto, Spawned, TypeOK, Tasks, Party, P, V
        <4>2. QED
          BY <1>0, <2>5, <4>1 DEF DetachInv
      <3>4. CASE PBody
        BY <1>0, <3>4 DEF PBody, Goto, TypeOK, Party, P, V
      <3>5. CASE PJoin
        BY <2>5, <3>5 DEF PJoin
      <3>6. QED
        BY <1>9, <3>1, <3>2, <3>3, <3>4, <3>5
    <2>6. QED
      BY <2>3, <2>4, <2>5 DEF DetachInv
  <1>10. CASE PClose
    BY <1>10, DetachSetupOk DEF PClose, Party
  <1>11. CASE VClose
    BY <1>11, DetachSetupOk DEF VClose, Party
  <1>12. CASE VBegin \/ VCommit \/ VAccept \/ VRun \/ VVerify \/ VAcceptVerify
    <2>1. /\ Polling(V) /\ UNCHANGED <<fn, task, owner>>
          /\ \E a \in VerifierAwaits : Goto(V, a)
      BY <1>12 DEF VBegin, VCommit, VAccept, VRun, VVerify, VAcceptVerify, At, VerifierAwaits
    <2>2. pc'[P] = pc[P] /\ fn[V] # "dropped"
      BY <1>0, <2>1 DEF TypeOK, Goto, Polling, Party, P, V
    <2>3. QED
      BY <1>0, <2>1, <2>2 DEF DetachInv, Active, Party
  <1>13. ASSUME NEW o \in {"ok", "err"}, PtaskEnds(o) PROVE DetachInv'
    <2>1. task' = [task EXCEPT !["ptask"] = o] /\ UNCHANGED <<fn, pc, owner>>
      BY <1>13 DEF PtaskEnds
    <2>2. \A t \in Tasks : task'[t] = "running" => task[t] = "running"
      BY <1>0, <2>1 DEF TypeOK
    <2>3. QED
      BY <1>0, <2>1, <2>2, DetachElsewhere
  <1>14. CASE CtaskEnds
    <2>1. task' = [task EXCEPT !["ctask"] = "ok"] /\ UNCHANGED <<fn, pc, owner>>
      BY <1>14 DEF CtaskEnds
    <2>2. \A t \in Tasks : task'[t] = "running" => task[t] = "running"
      BY <1>0, <2>1 DEF TypeOK
    <2>3. QED
      BY <1>0, <2>1, <2>2, DetachElsewhere
  <1>15. ASSUME NEW t \in Tasks, TaskReaped(t) PROVE DetachInv'
    <2>1. task' = [task EXCEPT ![t] = "aborted"] /\ UNCHANGED <<fn, pc, owner>>
      BY <1>15 DEF TaskReaped
    <2>2. \A u \in Tasks : task'[u] = "running" => task[u] = "running"
      BY <1>0, <2>1 DEF TypeOK
    <2>3. QED
      BY <1>0, <2>1, <2>2, DetachElsewhere
  <1>16. CASE ConnDies
    BY <1>0, <1>16, DetachElsewhere DEF ConnDies
  <1>17. CASE UNCHANGED vars
    BY <1>0, <1>17, DetachElsewhere DEF vars
  <1>18. QED
    BY <1>1, <1>2, <1>3, <1>4, <1>5, <1>6, <1>7, <1>8, <1>9, <1>10, <1>11, <1>12, <1>13,
       <1>14, <1>15, <1>16, <1>17 DEF Next, PartyNext, PStep, VStep, Finished

-----------------------------------------------------------------------------
(* The reported progress.                                                  *)

(* Reporting the phase that comes next keeps what was reported a prefix. *)
LEMMA ReportedNext ==
    ASSUME TypeOK, \A k \in 1..Len(steps) : steps[k] = Phases[k],
           steps' = Append(steps, Phases[Len(steps) + 1])
    PROVE  /\ Len(steps') = Len(steps) + 1
           /\ \A k \in 1..Len(steps') : steps'[k] = Phases[k]
  BY DEF TypeOK

(* Every step reports the phase that ends with the await it resolves, once. *)
LEMMA ProgressStep ==
    ASSUME IInv, [Next]_vars
    PROVE  ProgressInv'
  <1> USE DEF future, tasks, mux, world
  <1>0. TypeOK /\ AwaitsInv /\ ProgressInv
    BY DEF IInv
  <1>1. ASSUME pc'[P] = pc[P], est'[P] = est[P], steps' = steps, Over(P) => Over(P)'
        PROVE  ProgressInv'
    BY <1>0, <1>1 DEF ProgressInv
  <1>2. ASSUME NEW p \in Party, NEW how \in {"returned", "dropped"},
               NEW r \in {"none", "ok", "err"}, Leave(p, how, r), UNCHANGED <<pc, est, steps>>
        PROVE  ProgressInv'
    <2>1. Over(P) => Over(P)'
      BY <1>0, <1>2 DEF TypeOK, Leave, Over
    <2>2. QED
      BY <1>1, <1>2, <2>1
  <1>3. ASSUME NEW p \in Party, Start(p) \/ SetupPending(p) \/ PollDriver(p) PROVE ProgressInv'
    <2>1. CASE \E f \in {"setup", "driver", "drain"} : fn' = [fn EXCEPT ![p] = f]
      <3>1. Over(P) => Over(P)'
        BY <1>0, <1>3, <2>1 DEF TypeOK, Over, Start, SetupPending, PollDriver
      <3>2. QED
        BY <1>1, <1>3, <3>1 DEF Start, SetupPending, PollDriver
    <2>2. CASE Leave(p, "returned", "err")
      BY <1>2, <1>3, <2>2 DEF Start, SetupPending, PollDriver
    <2>3. QED
      BY <1>3, <2>1, <2>2 DEF Start, SetupPending, PollDriver
  <1>4. ASSUME NEW p \in Party, JoinDriver(p) \/ Cancel(p) \/ SetupFails(p) PROVE ProgressInv'
    <2>1. PICK how \in {"returned", "dropped"}, r \in {"none", "ok", "err"} :
             Leave(p, how, r) /\ UNCHANGED <<pc, est, steps>>
      BY <1>4 DEF JoinDriver, Cancel, SetupFails
    <2>2. QED
      BY <1>2, <2>1
  <1>5. CASE UNCHANGED <<fn, pc, est, steps>>
    BY <1>1, <1>5 DEF Over
  <1>6. ASSUME NEW p \in Party, Deliver(p) \/ DriverCloses(p) \/ DriverSeesEnd(p)
        PROVE  ProgressInv'
    BY <1>5, <1>6 DEF Deliver, DriverCloses, DriverSeesEnd
  <1>7. CASE StartRefused \/ PRejected \/ PJoinFails
    BY <1>2, <1>7 DEF StartRefused, PRejected, PJoinFails, Party
  <1>8. CASE VNotMpc \/ VReject
    BY <1>2, <1>8 DEF VNotMpc, VReject, Party
  <1>9. CASE VBegin \/ VCommit \/ VAccept \/ VRun \/ VVerify \/ VAcceptVerify
    <2>1. /\ fn' = fn /\ steps' = steps
          /\ est' = est \/ est' = [est EXCEPT ![V] = TRUE]
          /\ \E a \in VerifierAwaits : Goto(V, a)
      BY <1>9 DEF VBegin, VCommit, VAccept, VRun, VVerify, VAcceptVerify, VerifierAwaits
    <2>2. pc'[P] = pc[P] /\ est'[P] = est[P]
      BY <1>0, <2>1 DEF TypeOK, Goto, Party, P, V
    <2>3. QED
      BY <1>1, <2>1, <2>2 DEF Over
  <1>10. CASE VClose
    <2>1. /\ UNCHANGED <<est, steps>> /\ Goto(V, "done")
          /\ \E f \in {"returned", "join"} : fn' = [fn EXCEPT ![V] = f]
      BY <1>10 DEF VClose, SetupOk, Leave
    <2>2. pc'[P] = pc[P] /\ fn'[P] = fn[P]
      BY <1>0, <2>1 DEF TypeOK, Goto, Party, P, V
    <2>3. QED
      BY <1>1, <2>1, <2>2 DEF Over
  <1>11. ASSUME NEW a \in {"init", "commit", "tcp", "http", "send", "body", "join", "prove"},
                At(P, a)
         PROVE  pc[P] = a /\ ~est[P]
    BY <1>0, <1>11 DEF At, Polling, Over, ProgressInv
  <1>12. CASE PBegin \/ PHandshake \/ PSend \/ PJoin
    <2>1. /\ UNCHANGED <<est, steps>> /\ ~est[P]
          /\ \/ pc[P] = "init" /\ Goto(P, "commit")
             \/ pc[P] = "http" /\ Goto(P, "send")
             \/ pc[P] = "send" /\ Goto(P, "body")
             \/ pc[P] = "join" /\ Goto(P, "prove")
      BY <1>11, <1>12 DEF PBegin, PHandshake, PSend, PJoin
    <2>2. \/ pc[P] = "init" /\ pc'[P] = "commit"
          \/ pc[P] = "http" /\ pc'[P] = "send"
          \/ pc[P] = "send" /\ pc'[P] = "body"
          \/ pc[P] = "join" /\ pc'[P] = "prove"
      BY <1>0, <2>1 DEF TypeOK, Goto, Party
    <2>3. QED
      BY <1>0, <2>1, <2>2 DEF ProgressInv
  <1>13. CASE PCommit \/ PConnect \/ PBody
    <2>1. /\ est' = est /\ ~est[P]
          /\ \/ pc[P] = "commit" /\ Goto(P, "tcp") /\ Reported("MpcSetupComplete")
             \/ pc[P] = "tcp" /\ Goto(P, "http") /\ Reported("TlsHandshakeComplete")
             \/ pc[P] = "body" /\ Goto(P, "join") /\ Reported("PlatformDataFetched")
      BY <1>11, <1>13 DEF PCommit, PConnect, PBody
    <2>2. \/ pc[P] = "commit" /\ pc'[P] = "tcp" /\ steps' = Append(steps, Phases[1])
          \/ pc[P] = "tcp" /\ pc'[P] = "http" /\ steps' = Append(steps, Phases[2])
          \/ pc[P] = "body" /\ pc'[P] = "join" /\ steps' = Append(steps, Phases[3])
      BY <1>0, <2>1 DEF TypeOK, Goto, Reported, Party, Phases
    <2>3. ASSUME NEW n \in 0..2, Len(steps) = n, steps' = Append(steps, Phases[n + 1])
          PROVE  Len(steps') = n + 1 /\ \A k \in 1..Len(steps') : steps'[k] = Phases[k]
      <3>1. \A k \in 1..Len(steps) : steps[k] = Phases[k]
        BY <1>0 DEF ProgressInv
      <3>2. QED
        BY <1>0, <2>3, <3>1, ReportedNext
    <2>4. ~est'[P]
      BY <2>1
    <2>5. CASE pc[P] = "commit" /\ pc'[P] = "tcp" /\ steps' = Append(steps, Phases[1])
      <3>1. Len(steps) = 0 /\ 0 + 1 = 1
        BY <1>0, <2>5 DEF ProgressInv
      <3>2. Len(steps') = 1 /\ \A k \in 1..Len(steps') : steps'[k] = Phases[k]
        BY <2>3, <2>5, <3>1
      <3>3. QED
        BY <2>4, <2>5, <3>2 DEF ProgressInv
    <2>6. CASE pc[P] = "tcp" /\ pc'[P] = "http" /\ steps' = Append(steps, Phases[2])
      <3>1. Len(steps) = 1 /\ 1 + 1 = 2
        BY <1>0, <2>6 DEF ProgressInv
      <3>2. Len(steps') = 2 /\ \A k \in 1..Len(steps') : steps'[k] = Phases[k]
        BY <2>3, <2>6, <3>1
      <3>3. QED
        BY <2>4, <2>6, <3>2 DEF ProgressInv
    <2>7. CASE pc[P] = "body" /\ pc'[P] = "join" /\ steps' = Append(steps, Phases[3])
      <3>1. Len(steps) = 2 /\ 2 + 1 = 3
        BY <1>0, <2>7 DEF ProgressInv
      <3>2. Len(steps') = 3 /\ \A k \in 1..Len(steps') : steps'[k] = Phases[k]
        BY <2>3, <2>7, <3>1
      <3>3. QED
        BY <2>4, <2>7, <3>2 DEF ProgressInv
    <2>8. QED
      BY <2>2, <2>5, <2>6, <2>7
  <1>14. CASE PProve \/ PProveFailsLate
    <2>1. /\ est' = [est EXCEPT ![P] = TRUE] /\ pc[P] = "prove" /\ ~est[P]
          /\ Reported("MpcProofFinalized")
          /\ Goto(P, "close") \/ (pc' = pc /\ fn' = [fn EXCEPT ![P] = "returned"])
      BY <1>11, <1>14 DEF PProve, PProveFailsLate, Proved, Leave
    <2>2. steps' = Append(steps, Phases[4]) /\ Len(steps) = 3
      BY <1>0, <2>1 DEF Reported, ProgressInv, Phases
    <2>3. est'[P] /\ (pc'[P] = "close" \/ (pc'[P] = "prove" /\ Over(P)'))
      BY <1>0, <2>1 DEF TypeOK, Goto, Over, Party
    <2>4. QED
      BY <1>0, <2>2, <2>3, ReportedNext DEF ProgressInv
  <1>15. CASE PClose
    <2>1. pc[P] = "close" /\ Goto(P, "done") /\ UNCHANGED <<est, steps>>
      BY <1>15 DEF PClose, At
    <2>2. est[P] /\ pc'[P] = "done"
      BY <1>0, <2>1 DEF TypeOK, Goto, Party, AwaitsInv
    <2>3. QED
      BY <1>0, <2>1, <2>2 DEF ProgressInv
  <1>16. ASSUME NEW o \in {"ok", "err"}, PtaskEnds(o) PROVE ProgressInv'
    BY <1>5, <1>16 DEF PtaskEnds
  <1>17. ASSUME NEW t \in Tasks, TaskReaped(t) PROVE ProgressInv'
    BY <1>5, <1>17 DEF TaskReaped
  <1>18. CASE CtaskEnds \/ ConnDies \/ UNCHANGED vars
    BY <1>5, <1>18 DEF CtaskEnds, ConnDies, vars
  <1>19. QED
    BY <1>3, <1>4, <1>6, <1>7, <1>8, <1>9, <1>10, <1>12, <1>13, <1>14, <1>15, <1>16, <1>17,
       <1>18 DEF Next, PartyNext, PStep, VStep, Finished

-----------------------------------------------------------------------------
(* The theorems.                                                           *)

(* The inductive invariant holds throughout every session. *)
THEOREM Invariance == Spec => []IInv
  <1>1. Init => IInv
    <2>1. Init => TypeOK
      BY DEF Init, TypeOK, Party, Tasks, P, V, ProverAwaits, VerifierAwaits
    <2>2. Init => FramesInv /\ AwaitsInv
      BY DEF Init, FramesInv, AwaitsInv, Sent, Peer, Party, P, V
    <2>3. Init => GuardsInv /\ ConnTaskInv
      BY DEF Init, GuardsInv, GuardOf, ConnTaskInv, Active, Ended, Driver, Tasks, Party
    <2>4. Init => DetachInv /\ ProgressInv
      BY DEF Init, DetachInv, ProgressInv, Active, Driver, Tasks, Party, P
    <2>5. QED
      BY <2>1, <2>2, <2>3, <2>4 DEF IInv
  <1>2. IInv /\ [Next]_vars => IInv'
    BY TypeStep, FramesStep, AwaitsStep, GuardsStep, DetachStep, ProgressStep DEF IInv
  <1>3. QED
    BY <1>1, <1>2, PTL DEF Spec

(* Of everything session.rs spawns, only a driver whose join the caller gave up
   and a prover task that was being joined outlive their function, on any exit,
   for every claim and every fault. *)
THEOREM TasksReaped == Spec => []OnlyAJoinDetaches
  <1>1. IInv => OnlyAJoinDetaches
    <2>1. ASSUME IInv, NEW p \in Party, Over(p), task[Driver(p)] = "running"
          PROVE  fn[p] = "dropped" /\ pc[p] = "done"
      BY <2>1 DEF IInv, GuardsInv, GuardOf, DetachInv, Over
    <2>2. ASSUME IInv, Over(P) PROVE ~Active(P)
      BY <2>2 DEF Over, Active
    <2>3. QED
      BY <2>1, <2>2 DEF IInv, ConnTaskInv, DetachInv, OnlyAJoinDetaches
  <1>2. QED
    BY <1>1, Invariance, PTL

(* A peer's orderly goodbye always finds `established` set: select! never
   reports the end of a good session as a driver that finished early. *)
THEOREM GoodbyeIsNeverEarly == Spec => []GoodbyeFindsEstablished
  <1>1. IInv => GoodbyeFindsEstablished
    <2>1. ASSUME IInv, NEW p \in Party, "goaway" \in inbox[p]
          PROVE  est[p]
      <3>1. Sent(Peer(p), "goaway") /\ Peer(p) \in Party
        BY <2>1 DEF Sent, Peer, Party, P, V
      <3>2. est[P] /\ est[V]
        BY <2>1, <3>1 DEF IInv, FramesInv
      <3>3. QED
        BY <3>2 DEF Party
    <2>2. QED
      BY <2>1 DEF GoodbyeFindsEstablished
  <1>2. QED
    BY <1>1, Invariance, PTL

(* An Ok of either function is about a session that both parties established,
   whose claim the verifier accepted, and whose socket its driver gave back. *)
THEOREM OkAgreement == Spec => []OkIsAgreed
  <1>1. IInv => OkIsAgreed
    <2>1. ASSUME IInv, NEW p \in Party, res[p] = "ok"
          PROVE  est[P] /\ est[V] /\ VerifierAccepts(claim) /\ task[Driver(p)] = "ok"
      <3>1. pc[p] = "done" /\ task[Driver(p)] = "ok"
        BY <2>1 DEF IInv, GuardsInv, GuardOf
      <3>2. est[P]
        BY <2>1, <3>1 DEF IInv, AwaitsInv, Party
      <3>3. QED
        BY <2>1, <3>1, <3>2 DEF IInv, FramesInv
    <2>2. QED
      BY <2>1 DEF OkIsAgreed
  <1>2. QED
    BY <1>1, Invariance, PTL

(* The driver's handle is awaited at most once, and never after select! took
   its result. *)
THEOREM PolledOnce == Spec => []HandlePolledOnce
  <1>1. IInv => HandlePolledOnce
    BY DEF IInv, GuardsInv, GuardOf, HandlePolledOnce
  <1>2. QED
    BY <1>1, Invariance, PTL

(* The caller of prover_generic hears of the phases in order, each once, and of
   the last exactly when the session is established. *)
THEOREM ProgressIsOrdered == Spec => []ProgressInOrder
  <1>1. IInv => ProgressInOrder
    <2> SUFFICES ASSUME IInv PROVE ProgressInOrder
      OBVIOUS
    <2>1. \/ ~est[P] /\ Len(steps) \in 0..3
          \/ est[P] /\ Len(steps) = 4
      BY DEF IInv, TypeOK, ProverAwaits, AwaitsInv, ProgressInv
    <2>2. res[P] = "ok" => est[P]
      BY DEF IInv, GuardsInv, GuardOf, AwaitsInv, Party
    <2>3. QED
      BY <2>1, <2>2 DEF ProgressInOrder, IInv, ProgressInv
  <1>2. QED
    BY <1>1, Invariance, PTL

-----------------------------------------------------------------------------
(* The session implements Notarization.                                    *)

Outcome == [p \in Party |-> IF fn[p] = "dropped" THEN "dropped" ELSE res[p]]
Stage == IF est[P] THEN "proved" ELSE IF est[V] THEN "ran" ELSE "open"

(* An exit of a party that was not over gives it its one outcome. *)
LEMMA LeaveOutcome ==
    ASSUME TypeOK, GuardsInv, NEW p \in Party, NEW how \in {"returned", "dropped"},
           NEW r \in {"none", "ok", "err"}, Leave(p, how, r), ~Over(p),
           how = "returned" <=> r # "none"
    PROVE  \E o \in {"ok", "err", "dropped"} :
              /\ Outcome[p] = "none" /\ Outcome' = [Outcome EXCEPT ![p] = o]
              /\ o = "ok" <=> r = "ok"
              /\ o = "err" <=> r = "err"
  <1>1. fn[p] # "dropped" /\ res[p] = "none"
    BY DEF GuardsInv, GuardOf, Over
  <1>2. Outcome[p] = "none"
    BY <1>1 DEF Outcome
  <1>3. /\ fn' = [fn EXCEPT ![p] = how] /\ res' = [res EXCEPT ![p] = r]
        /\ fn \in [Party -> {"start", "setup", "driver", "drain", "join", "returned", "dropped"}]
        /\ res \in [Party -> {"none", "ok", "err"}]
    BY DEF Leave, TypeOK
  <1>4. Outcome' = [Outcome EXCEPT ![p] = IF how = "dropped" THEN "dropped" ELSE r]
    BY <1>3 DEF Outcome
  <1>5. QED
    BY <1>2, <1>4

(* An exit under unchanged flags is the abstract end of that party's session. *)
LEMMA LeaveEnds ==
    ASSUME IInv, FramesInv', AwaitsInv', GuardsInv',
           NEW p \in Party, NEW how \in {"returned", "dropped"},
           NEW r \in {"none", "ok", "err"}, Leave(p, how, r), ~Over(p),
           how = "returned" <=> r # "none", UNCHANGED <<est, claim>>
    PROVE  Abstract!Next
  <1>1. PICK o \in {"ok", "err", "dropped"} :
           /\ Outcome[p] = "none" /\ Outcome' = [Outcome EXCEPT ![p] = o]
           /\ o = "ok" <=> r = "ok"
    BY LeaveOutcome DEF IInv
  <1>2. r = "ok" => Stage = "proved"
    <2>1. ASSUME r = "ok" PROVE est'[P]
      <3>1. res'[p] = "ok"
        BY <2>1 DEF Leave, IInv, TypeOK
      <3>2. pc'[p] = "done"
        BY <3>1 DEF GuardsInv, GuardOf
      <3>3. QED
        BY <3>2 DEF AwaitsInv, Party
    <2>2. QED
      BY <2>1 DEF Stage
  <1>3. Abstract!End(p, o)
    BY <1>1, <1>2 DEF Abstract!End, Outcome, Stage
  <1>4. QED
    BY <1>3 DEF Abstract!Next

(* A step that keeps the flags, the returns and the drops is a stutter. *)
LEMMA QuietStutters ==
    ASSUME UNCHANGED <<est, claim>>, Outcome' = Outcome
    PROVE  UNCHANGED Abstract!vars
  BY DEF Abstract!vars, Outcome

(* A function that moves on without being over keeps its outcome. *)
LEMMA MovesOn ==
    ASSUME TypeOK, NEW p \in Party, NEW f \in {"setup", "driver", "drain", "join"},
           fn[p] # "dropped", fn' = [fn EXCEPT ![p] = f], res' = res
    PROVE  Outcome' = Outcome
  BY DEF TypeOK, Outcome

(* Every step of a session is a step of Notarization, or none. *)
LEMMA StepRefines ==
    ASSUME IInv, IInv', [Next]_vars
    PROVE  [Abstract!Next]_(Abstract!vars)
  <1> USE DEF future, tasks, mux, world
  <1>0. /\ TypeOK /\ FramesInv /\ AwaitsInv /\ GuardsInv
        /\ FramesInv' /\ AwaitsInv' /\ GuardsInv'
    BY DEF IInv
  <1>1. ASSUME UNCHANGED <<fn, res, est, claim>> PROVE UNCHANGED Abstract!vars
    BY <1>1, QuietStutters DEF Outcome
  <1>2. ASSUME NEW p \in Party, PartyNext(p) PROVE [Abstract!Next]_(Abstract!vars)
    <2>1. CASE Start(p) \/ SetupPending(p)
      <3>1. /\ UNCHANGED <<est, claim, res>> /\ fn[p] # "dropped"
            /\ \E f \in {"setup", "driver"} : fn' = [fn EXCEPT ![p] = f]
        BY <2>1 DEF Start, SetupPending
      <3>2. QED
        BY <1>0, <3>1, MovesOn, QuietStutters
    <2>2. CASE PollDriver(p)
      <3>1. UNCHANGED <<est, claim>> /\ fn[p] = "driver"
        BY <2>2 DEF PollDriver
      <3>2. CASE Leave(p, "returned", "err")
        BY <1>0, <3>1, <3>2, LeaveEnds DEF Over
      <3>3. CASE res' = res /\ \E f \in {"setup", "drain"} : fn' = [fn EXCEPT ![p] = f]
        BY <1>0, <3>1, <3>3, MovesOn, QuietStutters
      <3>4. QED
        BY <2>2, <3>2, <3>3 DEF PollDriver
    <2>3. CASE JoinDriver(p)
      <3>1. /\ UNCHANGED <<est, claim>> /\ ~Over(p)
            /\ \E r \in {"ok", "err"} : Leave(p, "returned", r)
        BY <2>3 DEF JoinDriver, Over
      <3>2. QED
        BY <1>0, <3>1, LeaveEnds
    <2>4. CASE Cancel(p)
      <3>1. UNCHANGED <<est, claim>> /\ ~Over(p) /\ Leave(p, "dropped", "none")
        BY <2>4 DEF Cancel, Over
      <3>2. QED
        BY <1>0, <3>1, LeaveEnds
    <2>5. CASE SetupFails(p)
      <3>1. UNCHANGED <<est, claim>> /\ ~Over(p) /\ Leave(p, "returned", "err")
        BY <2>5 DEF SetupFails, Over, Polling
      <3>2. QED
        BY <1>0, <3>1, LeaveEnds
    <2>6. CASE Deliver(p) \/ DriverCloses(p) \/ DriverSeesEnd(p)
      BY <1>1, <2>6 DEF Deliver, DriverCloses, DriverSeesEnd
    <2>7. QED
      BY <1>2, <2>1, <2>2, <2>3, <2>4, <2>5, <2>6 DEF PartyNext
  <1>3. CASE PBegin \/ PCommit \/ PConnect \/ PHandshake \/ PSend \/ PBody \/ PJoin
             \/ VBegin \/ VCommit \/ VAccept \/ VVerify \/ VAcceptVerify
             \/ CtaskEnds \/ ConnDies
    BY <1>1, <1>3
       DEF PBegin, PCommit, PConnect, PHandshake, PSend, PBody, PJoin, VBegin, VCommit,
           VAccept, VVerify, VAcceptVerify, CtaskEnds, ConnDies
  <1>4. CASE StartRefused \/ PRejected \/ PJoinFails
    <2>1. UNCHANGED <<est, claim>> /\ ~Over(P) /\ Leave(P, "returned", "err")
      BY <1>4 DEF StartRefused, PRejected, PJoinFails, At, Polling, Over
    <2>2. QED
      BY <1>0, <2>1, LeaveEnds DEF Party
  <1>5. CASE VNotMpc \/ VReject
    <2>1. UNCHANGED <<est, claim>> /\ ~Over(V) /\ Leave(V, "returned", "err")
      BY <1>5 DEF VNotMpc, VReject, At, Polling, Over
    <2>2. QED
      BY <1>0, <2>1, LeaveEnds DEF Party
  <1>6. CASE PClose \/ VClose
    <2>1. PICK p \in Party : Polling(p) /\ SetupOk(p) /\ UNCHANGED <<est, claim>>
      BY <1>6 DEF PClose, VClose, At, Party
    <2>2. CASE finished[p] # "none"
      <3>1. ~Over(p) /\ \E r \in {"ok", "err"} : Leave(p, "returned", r)
        BY <2>1, <2>2 DEF SetupOk, Polling, Over
      <3>2. QED
        BY <1>0, <2>1, <3>1, LeaveEnds
    <2>3. CASE finished[p] = "none"
      <3>1. fn' = [fn EXCEPT ![p] = "join"] /\ res' = res /\ fn[p] # "dropped"
        BY <2>1, <2>3 DEF SetupOk, Polling
      <3>2. QED
        BY <1>0, <2>1, <3>1, MovesOn, QuietStutters
    <2>4. QED
      BY <2>2, <2>3
  <1>7. CASE VRun
    <2>1. UNCHANGED <<fn, res, claim>> /\ est' = [est EXCEPT ![V] = TRUE]
      BY <1>7 DEF VRun
    <2>2. est'[P] = est[P] /\ est'[V] /\ Outcome' = Outcome
      BY <1>0, <2>1 DEF TypeOK, Party, P, V, Outcome
    <2>3. CASE est[V]
      BY <2>1, <2>2, <2>3 DEF Abstract!vars, Outcome
    <2>4. CASE ~est[V]
      <3>1. ~est[P]
        BY <1>0, <2>4 DEF FramesInv
      <3>2. Abstract!Run
        BY <2>1, <2>2, <2>4, <3>1 DEF Abstract!Run, Outcome
      <3>3. QED
        BY <3>2 DEF Abstract!Next
    <2>5. QED
      BY <2>3, <2>4
  <1>8. CASE PProve \/ PProveFailsLate
    <2>1. /\ claim' = claim /\ est' = [est EXCEPT ![P] = TRUE] /\ ~Over(P)
          /\ UNCHANGED <<fn, res>> \/ Leave(P, "returned", "err")
          /\ "prove_ok" \in inbox[P]
      BY <1>8 DEF PProve, PProveFailsLate, Proved, At, Polling, Over
    <2>2. est'[P] /\ est'[V] = est[V] /\ est[V] /\ VerifierAccepts(claim)
      BY <1>0, <2>1 DEF TypeOK, FramesInv, Sent, Peer, Party, P, V
    <2>3. \/ Outcome' = Outcome
          \/ Outcome[P] = "none" /\ Outcome' = [Outcome EXCEPT ![P] = "err"]
      <3>1. CASE UNCHANGED <<fn, res>>
        BY <3>1 DEF Outcome
      <3>2. CASE Leave(P, "returned", "err")
        BY <1>0, <2>1, <3>2, LeaveOutcome DEF Party
      <3>3. QED
        BY <2>1, <3>1, <3>2
    <2>4. CASE est[P]
      <3>1. est' = est
        BY <1>0, <2>1, <2>4 DEF TypeOK, Party
      <3>2. CASE Outcome' = Outcome
        BY <2>1, <3>1, <3>2, QuietStutters
      <3>3. CASE Outcome[P] = "none" /\ Outcome' = [Outcome EXCEPT ![P] = "err"]
        <4>1. Abstract!End(P, "err")
          BY <2>1, <3>1, <3>3 DEF Abstract!End, Outcome
        <4>2. QED
          BY <4>1 DEF Abstract!Next, Party
      <3>4. QED
        BY <2>3, <3>2, <3>3
    <2>5. CASE ~est[P]
      <3>1. Abstract!Prove
        BY <2>1, <2>2, <2>3, <2>5 DEF Abstract!Prove, Outcome, Party
      <3>2. QED
        BY <3>1 DEF Abstract!Next
    <2>6. QED
      BY <2>4, <2>5
  <1>9. ASSUME NEW o \in {"ok", "err"}, PtaskEnds(o) PROVE [Abstract!Next]_(Abstract!vars)
    BY <1>1, <1>9 DEF PtaskEnds
  <1>10. ASSUME NEW t \in Tasks, TaskReaped(t) PROVE [Abstract!Next]_(Abstract!vars)
    BY <1>1, <1>10 DEF TaskReaped
  <1>11. CASE UNCHANGED vars
    BY <1>1, <1>11 DEF vars
  <1>12. QED
    BY <1>2, <1>3, <1>4, <1>5, <1>6, <1>7, <1>8, <1>9, <1>10, <1>11
       DEF Next, PStep, VStep, Finished

(* The two functions, their drivers and the mux together keep the promise of
   Notarization: run, then proved, only for an accepted claim, one final
   outcome for each party and no Ok before the proof. *)
THEOREM Refinement == Spec => ImplementsNotarization
  <1>1. Init => Abstract!Init
    <2>1. VerifierAccepts(claim) \in BOOLEAN
      BY Zenon DEF VerifierAccepts
    <2>2. Init => Stage = "open" /\ Outcome = [p \in Party |-> "none"]
      BY DEF Init, Stage, Outcome, Party, P, V
    <2>3. QED
      BY <2>1, <2>2 DEF Abstract!Init, Stage, Outcome
  <1>2. IInv /\ IInv' /\ [Next]_vars => [Abstract!Next]_(Abstract!vars)
    BY StepRefines
  <1>3. QED
    BY <1>1, <1>2, Invariance, PTL DEF Spec, Abstract!Spec, ImplementsNotarization

-----------------------------------------------------------------------------
(* What the verifier decides about a claim.                                *)

\* The records of which a commitment may name a byte, and the bytes of records.
AppRecords(records) == {i \in DOMAIN records : records[i].typ = "ApplicationData"}

Bytes(records, s) == UNION {{i} \X (1..records[i].len) : i \in s}

(* The bytes of a set of records are finitely many, and a record adds as many as
   it is long. *)
LEMMA RecordAddsItsLength ==
    ASSUME NEW records, NEW X, IsFiniteSet(X), \A i \in X : records[i].len \in Nat
    PROVE  /\ IsFiniteSet(Bytes(records, X))
           /\ \A x \in X : Cardinality(Bytes(records, X)) =
                               Cardinality(Bytes(records, X \ {x})) + records[x].len
  <1> DEFINE S == {Y \in SUBSET X : IsFiniteSet(Bytes(records, Y))}
             Own(x) == {x} \X (1..records[x].len)
  <1>1. ASSUME NEW x \in X
        PROVE  IsFiniteSet(Own(x)) /\ Cardinality(Own(x)) = records[x].len
    <2>1. records[x].len \in Nat
      OBVIOUS
    <2> DEFINE n == records[x].len
    <2>2. IsFiniteSet(1..n) /\ Cardinality(1..n) = n
      <3> HIDE DEF n
      <3>1. n \in Nat /\ n \in Int /\ 1 \in Int
        BY <2>1 DEF n
      <3>2. IsFiniteSet(1..n) /\ Cardinality(1..n) = IF 1 > n THEN 0 ELSE n - 1 + 1
        BY <3>1, FS_Interval
      <3>3. QED
        BY <3>1, <3>2
    <2>3. IsFiniteSet({x}) /\ Cardinality({x}) = 1
      BY FS_Singleton
    <2>4. IsFiniteSet(Own(x)) /\ Cardinality(Own(x)) = 1 * n
      <3> HIDE DEF n
      <3>1. /\ IsFiniteSet({x} \X (1..n))
            /\ Cardinality({x} \X (1..n)) = Cardinality({x}) * Cardinality(1..n)
        BY <2>2, <2>3, FS_Product
      <3>2. QED
        BY <2>2, <2>3, <3>1 DEF n
    <2>5. QED
      BY <2>1, <2>4
  <1>2. \A Y \in SUBSET X : \A x \in X : Bytes(records, Y \cup {x}) = Bytes(records, Y) \cup Own(x)
    BY DEF Bytes
  <1>3. SUBSET X \subseteq S
    <2>1. ASSUME NEW Y \in SUBSET X, \A x \in Y : Y \ {x} \in S
          PROVE  Y \in S
      <3>1. CASE Y = {}
        BY <3>1, FS_EmptySet DEF Bytes
      <3>2. CASE Y # {}
        <4>1. PICK x \in Y : TRUE
          BY <3>2
        <4>2. IsFiniteSet(Bytes(records, Y \ {x})) /\ IsFiniteSet(Own(x))
          BY <1>1, <2>1
        <4>3. (Y \ {x}) \cup {x} = Y
          OBVIOUS
        <4>4. Bytes(records, Y) = Bytes(records, Y \ {x}) \cup Own(x)
          BY <1>2, <4>3
        <4>5. IsFiniteSet(Bytes(records, Y \ {x}) \cup Own(x))
          <5> HIDE DEF Own
          <5> QED
            BY <4>2, FS_Union
        <4>6. QED
          BY <4>4, <4>5
      <3>3. QED
        BY <3>1, <3>2
    <2> HIDE DEF S
    <2>2. QED
      BY <2>1, ShrinkingSets
  <1>4. ASSUME NEW x \in X
        PROVE  Cardinality(Bytes(records, X)) =
                   Cardinality(Bytes(records, X \ {x})) + records[x].len
    <2>1. (X \ {x}) \cup {x} = X
      OBVIOUS
    <2>2. Bytes(records, X) = Bytes(records, X \ {x}) \cup Own(x)
      BY <1>2, <2>1
    <2>3. Bytes(records, X \ {x}) \cap Own(x) = {}
      BY DEF Bytes
    <2>4. IsFiniteSet(Bytes(records, X \ {x}))
      BY <1>3
    <2>5. Cardinality(Bytes(records, X \ {x}) \cap Own(x)) = 0
      BY <2>3, FS_EmptySet
    <2>6. Cardinality(Bytes(records, X \ {x})) \in Nat
      BY <2>4, FS_CardinalityType
    <2> HIDE DEF Own
    <2>7. Cardinality(Bytes(records, X \ {x}) \cup Own(x)) =
              Cardinality(Bytes(records, X \ {x})) + Cardinality(Own(x))
                  - Cardinality(Bytes(records, X \ {x}) \cap Own(x))
      BY <1>1, <2>4, FS_Union
    <2>8. QED
      BY <1>1, <2>2, <2>5, <2>6, <2>7
  <1>5. QED
    BY <1>3, <1>4

(* The recursion of the fold over the application-data records. *)
IsTotal(records, f) ==
    f = [s \in SUBSET AppRecords(records) |->
            IF s = {} THEN 0
            ELSE f[s \ {CHOOSE x \in s : TRUE}] + records[CHOOSE x \in s : TRUE].len]

(* Records are counted from one, and each has a length. *)
LEMMA RecordsHaveLengths ==
    ASSUME NEW records \in Seq([typ : STRING, len : Nat])
    PROVE  /\ AppRecords(records) \in SUBSET (1..Len(records))
           /\ \A i \in AppRecords(records) : records[i].len \in Nat
  <1> DEFINE R == [typ : STRING, len : Nat]
  <1>1. /\ DOMAIN records = 1..Len(records)
        /\ \A i \in DOMAIN records : records[i] \in R
    <2> HIDE DEF R
    <2>1. records \in Seq(R)
      BY DEF R
    <2>2. QED
      BY <2>1
  <1>2. \A r \in R : r.len \in Nat
    OBVIOUS
  <1>3. QED
    BY <1>1, <1>2 DEF AppRecords

(* application_data_len is the number of application-data bytes, in whatever
   order the fold takes the records. *)
LEMMA LengthCountsBytes ==
    ASSUME NEW records \in Seq([typ : STRING, len : Nat])
    PROVE  application_data_len(records) = Cardinality(Bytes(records, AppRecords(records)))
  <1> DEFINE App == AppRecords(records)
             f == CHOOSE g : IsTotal(records, g)
             count == [s \in SUBSET App |-> Cardinality(Bytes(records, s))]
             S == {s \in SUBSET App : f[s] = Cardinality(Bytes(records, s))}
  <1>1. application_data_len(records) = f[App]
    BY DEF application_data_len, FoldSet, MapThenFoldSet, IsTotal, AppRecords
  <1>2. IsFiniteSet(App) /\ \A i \in App : records[i].len \in Nat
    <2>1. App \in SUBSET (1..Len(records)) /\ \A i \in App : records[i].len \in Nat
      BY RecordsHaveLengths
    <2>2. IsFiniteSet(1..Len(records))
      BY FS_Interval, 1 \in Int, Len(records) \in Int
    <2>3. QED
      BY <2>1, <2>2, FS_Subset
  <1> HIDE DEF App
  <1>3. \A s \in SUBSET App : IsFiniteSet(s) /\ \A i \in s : records[i].len \in Nat
    BY <1>2, FS_Subset
  <1>4. ASSUME NEW s \in SUBSET App, s # {}
        PROVE  LET x == CHOOSE x \in s : TRUE IN
               /\ x \in s
               /\ Cardinality(Bytes(records, s)) =
                      Cardinality(Bytes(records, s \ {x})) + records[x].len
    BY <1>3, <1>4, RecordAddsItsLength
  <1>5. Cardinality(Bytes(records, {})) = 0
    BY FS_EmptySet DEF Bytes
  <1>6. IsTotal(records, count)
    <2>1. ASSUME NEW s \in SUBSET App
          PROVE  Cardinality(Bytes(records, s)) =
                     IF s = {} THEN 0
                     ELSE count[s \ {CHOOSE x \in s : TRUE}] + records[CHOOSE x \in s : TRUE].len
      BY <1>4, <1>5
    <2>2. QED
      BY <2>1 DEF IsTotal, App
  <1>7. IsTotal(records, f)
    BY <1>6
  <1>8. ASSUME NEW s \in SUBSET App, \A x \in s : s \ {x} \in S
        PROVE  s \in S
    <2>1. f[s] = IF s = {} THEN 0
                 ELSE f[s \ {CHOOSE x \in s : TRUE}] + records[CHOOSE x \in s : TRUE].len
      <3> HIDE DEF f
      <3> QED
        BY <1>7 DEF IsTotal, App
    <2> HIDE DEF f
    <2>2. QED
      BY <1>4, <1>5, <1>8, <2>1
  <1>9. App \in S
    <2> HIDE DEF S
    <2> QED
      BY <1>2, <1>8, ShrinkingSets
  <1>10. QED
    BY <1>1, <1>9 DEF App

(* A finite set of naturals has the maximum that Max chooses. *)
LEMMA MaxIsLargest ==
    ASSUME NEW X, X \subseteq Nat, IsFiniteSet(X), X # {}
    PROVE  Max(X) \in X /\ \A y \in X : y <= Max(X)
  <1> DEFINE S == {Y \in SUBSET X : Y = {} \/ \E m \in Y : \A y \in Y : m >= y}
  <1>1. ASSUME NEW Y \in SUBSET X, NEW x \in X \ Y, Y \in S
        PROVE  Y \cup {x} \in S
    <2>1. CASE Y = {}
      BY <2>1
    <2>2. CASE Y # {}
      <3>1. PICK m \in Y : \A y \in Y : m >= y
        BY <1>1, <2>2
      <3>2. m \in Nat /\ x \in Nat /\ \A y \in Y : y \in Nat
        OBVIOUS
      <3>3. CASE x >= m
        <4>1. \A y \in Y \cup {x} : x >= y
          BY <3>1, <3>2, <3>3
        <4>2. QED
          BY <4>1
      <3>4. CASE m >= x
        <4>1. m \in Y \cup {x} /\ \A y \in Y \cup {x} : m >= y
          BY <3>1, <3>2, <3>4
        <4>2. QED
          BY <4>1
      <3>5. QED
        BY <3>2, <3>3, <3>4
    <2>3. QED
      BY <2>1, <2>2
  <1>2. X \in S
    <2>1. {} \in S
      OBVIOUS
    <2> HIDE DEF S
    <2>2. QED
      BY <1>1, <2>1, GrowingSets
  <1>3. \E m \in X : \A y \in X : m >= y
    BY <1>2
  <1>4. Max(X) \in X /\ \A y \in X : Max(X) >= y
    BY <1>3 DEF Max
  <1>5. QED
    BY <1>4

(* The length of the records is a natural number. *)
LEMMA LengthIsNatural ==
    ASSUME NEW records \in Seq([typ : STRING, len : Nat])
    PROVE  Cardinality(Bytes(records, AppRecords(records))) \in Nat
  <1>1. /\ AppRecords(records) \in SUBSET (1..Len(records))
        /\ \A i \in AppRecords(records) : records[i].len \in Nat
    BY RecordsHaveLengths
  <1>2. IsFiniteSet(1..Len(records))
    BY FS_Interval, 1 \in Int, Len(records) \in Int
  <1>3. IsFiniteSet(Bytes(records, AppRecords(records)))
    BY <1>1, <1>2, FS_Subset, RecordAddsItsLength
  <1>4. QED
    BY <1>3, FS_CardinalityType

(* The verifier accepts the acceptable claims and no others: its arithmetic on the
   ends of the committed ranges and on the lengths of the records lets no byte
   through that no application-data record of the same direction carried
   (session.rs 194-205, 783-811), and refuses no commitment that ends with the
   session. *)
THEOREM AcceptsTheAcceptable ==
    ASSUME NEW c \in Claims
    PROVE  VerifierAccepts(c) <=> Acceptable(c)
  <1> DEFINE records(k) == IF k.dir = "Sent" THEN c.sent ELSE c.recv
             length(k) == Cardinality(Bytes(records(k), AppRecords(records(k))))
             past(k) == k.idx # {} /\ Max(k.idx) + 1 > application_data_len(records(k))
  <1>1. ~LimitsExceeded(c) <=> c.maxSent <= MaxSent /\ c.maxRecv <= MaxRecv
    BY ClaimsAssumption, ConstantsAssumption DEF LimitsExceeded
  <1>2. ASSUME NEW k \in c.commits
        PROVE  ~past(k) <=> \A byte \in k.idx : Carried(records(k), byte)
    <2>1. records(k) \in Seq([typ : STRING, len : Nat])
      BY ClaimsAssumption
    <2>2. k.idx \subseteq Nat /\ IsFiniteSet(k.idx)
      BY ClaimsAssumption
    <2>3. \A byte : Carried(records(k), byte) <=> byte < length(k)
      BY DEF Carried, Bytes, AppRecords
    <2> HIDE DEF records
    <2>4. application_data_len(records(k)) = length(k) /\ length(k) \in Nat
      BY <2>1, LengthCountsBytes, LengthIsNatural
    <2>5. k.idx # {} => /\ Max(k.idx) \in k.idx /\ Max(k.idx) \in Nat
                        /\ \A byte \in k.idx : byte <= Max(k.idx)
      BY <2>2, MaxIsLargest
    <2> HIDE DEF length
    <2>6. past(k) <=> k.idx # {} /\ Max(k.idx) + 1 > length(k)
      BY <2>4
    <2>7. ~past(k) <=> \A byte \in k.idx : byte < length(k)
      BY <2>2, <2>4, <2>5, <2>6
    <2>8. QED
      BY <2>3, <2>7
  <1>3. commitment_past_the_session(c) <=> \E k \in c.commits : past(k)
    BY DEF commitment_past_the_session
  <1>4. InBounds(c) <=> \A k \in c.commits : \A byte \in k.idx : Carried(records(k), byte)
    BY DEF InBounds
  <1> HIDE DEF past, records
  <1>5. QED
    BY <1>1, <1>2, <1>3, <1>4 DEF VerifierAccepts, Acceptable

(* accept() is reached only for a claim the session can contain, whatever the
   prover put on the wire and whatever the interleaving that led there. *)
THEOREM AcceptIsSafe == Spec => []AcceptWalksOnlyTheSession
  <1>1. IInv => AcceptWalksOnlyTheSession
    BY AcceptsTheAcceptable DEF IInv, TypeOK, AwaitsInv, AcceptWalksOnlyTheSession
  <1>2. QED
    BY <1>1, Invariance, PTL
=============================================================================
