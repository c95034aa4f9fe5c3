------------------------------ MODULE Session ------------------------------
(***************************************************************************)
(* One notarization session: prover_generic and verifier of                *)
(* crates/libid-tlsn/src/session.rs, run against each other over one       *)
(* multiplexed connection.                                                 *)
(*                                                                         *)
(* Each party is an async function that races its setup future against a   *)
(* spawned driver task (biased tokio::select!), then joins the driver.  A  *)
(* setup future is represented by the await it is suspended on (pc); one   *)
(* action is what it does from the moment that await resolves up to the    *)
(* next one.  The function around it is represented by fn.                 *)
(*                                                                         *)
(* The mux, the driver and the tlsn protocol objects are not in this       *)
(* repository; they are modelled by what session.rs relies on, and the     *)
(* actions that do so say "external".                                      *)
(***************************************************************************)
EXTENDS Naturals, Sequences, FiniteSets, FiniteSetsExt, Folds

CONSTANTS
    MaxSent,   \* MAX_SENT_DATA, the verifier's limit on sent bytes
    MaxRecv,   \* MAX_RECV_DATA
    Claims,    \* what the prover of a session may ask the verifier to accept
    Faults     \* which of "death", "cancel" and "error" this instance meets

ASSUME ConstantsAssumption ==
    /\ MaxSent \in Nat /\ MaxRecv \in Nat
    /\ Faults \subseteq {"death", "cancel", "error"}

\* Lengths and offsets are usizes, and a set of committed ranges is finite.
ASSUME ClaimsAssumption ==
    \A c \in Claims :
        /\ c.maxSent \in Nat /\ c.maxRecv \in Nat
        /\ c.sent \in Seq([typ : STRING, len : Nat])
        /\ c.recv \in Seq([typ : STRING, len : Nat])
        /\ \A k \in c.commits : k.idx \subseteq Nat /\ IsFiniteSet(k.idx)

P == "prover"
V == "verifier"
Party == {P, V}
Peer(p) == IF p = P THEN V ELSE P

Driver(p) == IF p = P THEN "pdriver" ELSE "vdriver"
Tasks == {"pdriver", "vdriver", "ptask", "ctask"}
TasksOf(p) == IF p = P THEN {"pdriver", "ptask", "ctask"} ELSE {"vdriver"}

Messages == {"commit_req", "commit_ok", "commit_no", "mpc_v", "mpc_p",
             "prove_req", "prove_ok", "prove_no", "proof", "goaway"}

VARIABLES
    fn,        \* where the async function stands
    pc,        \* the await its setup future is suspended on
    est,       \* the `established` flag
    finished,  \* the finished_driver option: "none", or the driver's outcome
    res,       \* what the function returned
    steps,     \* the ProverSteps reported through on_progress
    task,      \* the spawned tasks
    owner,     \* who holds each task's JoinHandle
    net,       \* frames a party's driver was given and the peer's has not read
    inbox,     \* frames a party's driver has read
    closed,    \* whether a party's side of the mux has said goodbye
    conn,      \* the socket under the mux
    claim      \* the prover's request, and the records the session carried

future == <<fn, finished, res>>
tasks == <<task, owner>>
mux == <<net, inbox, closed>>
world == <<conn, claim>>
vars == <<future, pc, est, steps, tasks, mux, world>>

ProverAwaits == {"init", "commit", "tcp", "http", "send", "body", "join",
                 "prove", "close", "done"}
VerifierAwaits == {"init", "commit", "reject", "accept", "run", "verify",
                   "accept_verify", "close", "done"}

-----------------------------------------------------------------------------
(* What the verifier decides about a claim.                                *)

application_data_len(records) ==
    FoldSet(LAMBDA i, n : n + records[i].len, 0,
            {i \in DOMAIN records : records[i].typ = "ApplicationData"})

\* Mistaken: an inclusive end compared as if it were the exclusive one.
InclusiveEndCheck(c) ==
    LET len(dir) == application_data_len(IF dir = "Sent" THEN c.sent ELSE c.recv)
    IN  \E k \in c.commits : k.idx # {} /\ Max(k.idx) > len(k.dir)

commitment_past_the_session(c) ==
    LET len(dir) == application_data_len(IF dir = "Sent" THEN c.sent ELSE c.recv)
    IN  \E k \in c.commits : k.idx # {} /\ Max(k.idx) + 1 > len(k.dir)

\* Mistaken: a session configured at the limit is refused too.
LimitsReached(c) == c.maxSent >= MaxSent \/ c.maxRecv >= MaxRecv

LimitsExceeded(c) == c.maxSent > MaxSent \/ c.maxRecv > MaxRecv

\* The verifier's checks, taken together.
VerifierAccepts(c) ==
    /\ c.mpc /\ ~LimitsExceeded(c)
    /\ c.identity /\ ~commitment_past_the_session(c)

-----------------------------------------------------------------------------
(* Tasks and the guard over their handles.                                 *)

Ended(t) == task[t] \in {"ok", "err", "aborted"}

\* Mistaken: the bare JoinHandle is kept, without the guard.
SpawnedUnguarded(t) == task' = [task EXCEPT ![t] = "running"]
                       /\ owner' = [owner EXCEPT ![t] = "handle"]

Spawned(t) == task' = [task EXCEPT ![t] = "running"]
              /\ owner' = [owner EXCEPT ![t] = "guard"]

\* AbortOnDrop::into_inner: the guard is disarmed, its caller holds the handle.
Disarmed(t) == owner' = [owner EXCEPT ![t] = "handle"] /\ UNCHANGED task

\* Dropping a guard asks for an abort; dropping a bare JoinHandle detaches.
Drop(ts) ==
    /\ task' = [t \in Tasks |->
                   IF t \in ts /\ owner[t] = "guard" /\ task[t] = "running"
                   THEN "aborting" ELSE task[t]]
    /\ owner' = [t \in Tasks |-> IF t \in ts THEN "nobody" ELSE owner[t]]

\* An exit of party p's function: every local it still holds is dropped.
Leave(p, how, r) ==
    /\ fn' = [fn EXCEPT ![p] = how]
    /\ res' = [res EXCEPT ![p] = r]
    /\ Drop(TasksOf(p))

Over(p) == fn[p] \in {"returned", "dropped"}

-----------------------------------------------------------------------------
(* The mux, external.  A frame handed to a driver that is gone is lost.    *)

Send(p, m) ==
    /\ net' = IF task[Driver(p)] = "running"
              THEN [net EXCEPT ![p] = Append(@, m)] ELSE net
    /\ UNCHANGED <<inbox, closed>>

\* handle.close(): the driver sends its goodbye after everything before it.
CloseHandle(p) ==
    /\ IF closed[p] \/ task[Driver(p)] # "running"
       THEN UNCHANGED <<net, closed>>
       ELSE /\ net' = [net EXCEPT ![p] = Append(@, "goaway")]
            /\ closed' = [closed EXCEPT ![p] = TRUE]
    /\ UNCHANGED inbox

\* p's end of the socket is closed: its driver is gone and no one got it back.
IoGone(p) ==
    \/ task[Driver(p)] \in {"err", "aborted"}
    \/ /\ Over(p) /\ res[p] # "ok"
       /\ task[Driver(p)] \in {"none", "ok"}

Deliver(p) ==
    /\ conn = "up" /\ net[p] # <<>> /\ Head(net[p]) # "goaway"
    /\ task[Driver(Peer(p))] = "running"
    /\ inbox' = [inbox EXCEPT ![Peer(p)] = @ \cup {Head(net[p])}]
    /\ net' = [net EXCEPT ![p] = Tail(@)]
    /\ UNCHANGED <<future, pc, est, steps, tasks, closed, world>>

\* p's driver reads the peer's goodbye, says its own and gives the socket back.
DriverCloses(p) ==
    /\ conn = "up" /\ net[Peer(p)] # <<>> /\ Head(net[Peer(p)]) = "goaway"
    /\ task[Driver(p)] = "running"
    /\ task' = [task EXCEPT ![Driver(p)] = "ok"]
    /\ inbox' = [inbox EXCEPT ![p] = @ \cup {"goaway"}]
    /\ net' = [q \in Party |-> IF q # p THEN Tail(net[q])
                               ELSE IF closed[p] THEN net[p]
                               ELSE Append(net[p], "goaway")]
    /\ closed' = [closed EXCEPT ![p] = TRUE]
    /\ UNCHANGED <<future, pc, est, steps, owner, world>>

\* p's driver meets the end of the socket, as an EOF or as an error.
DriverSeesEnd(p) ==
    /\ conn = "dead" \/ IoGone(Peer(p))
    /\ task[Driver(p)] = "running"
    /\ \E o \in {"ok", "err"} : task' = [task EXCEPT ![Driver(p)] = o]
    /\ UNCHANGED <<future, pc, est, steps, owner, mux, world>>

ConnDies ==
    /\ "death" \in Faults /\ conn = "up"
    /\ conn' = "dead"
    /\ UNCHANGED <<future, pc, est, steps, tasks, mux, claim>>

\* The runtime carries out an abort.
TaskReaped(t) ==
    /\ task[t] = "aborting"
    /\ task' = [task EXCEPT ![t] = "aborted"]
    /\ UNCHANGED <<future, pc, est, steps, owner, mux, world>>

-----------------------------------------------------------------------------
(* The function around the setup future.                                   *)

Polling(p) == fn[p] \in {"setup", "drain"}
At(p, a) == Polling(p) /\ pc[p] = a

\* Session::new, split, and the guarded spawn of the driver; the prover has
\* already refused a request without a host or without an origin form.
Start(p) ==
    /\ fn[p] = "start"
    /\ fn' = [fn EXCEPT ![p] = "setup"]
    /\ Spawned(Driver(p))
    /\ UNCHANGED <<finished, res, pc, est, steps, mux, world>>

StartRefused ==
    /\ "error" \in Faults /\ fn[P] = "start"
    /\ Leave(P, "returned", "err")
    /\ UNCHANGED <<finished, pc, est, steps, mux, world>>

\* The frames that resolve the await a setup future is suspended on.
AwaitedBy(p) ==
    CASE p = P /\ pc[p] = "commit"        -> {"commit_ok", "commit_no"}
      [] p = P /\ pc[p] = "prove"         -> {"prove_ok", "prove_no"}
      [] p = V /\ pc[p] = "commit"        -> {"commit_req"}
      [] p = V /\ pc[p] = "run"           -> {"mpc_p"}
      [] p = V /\ pc[p] = "verify"        -> {"prove_req"}
      [] p = V /\ pc[p] = "accept_verify" -> {"proof"}
      [] OTHER                            -> {}

\* Polled now, the setup future would go on.
Resolved(p) ==
    \/ pc[p] = "init"
    \/ AwaitedBy(p) \cap inbox[p] # {}
    \/ p = P /\ pc[p] = "join" /\ Ended("ptask")
    \/ p = V /\ pc[p] = "reject" /\ {"commit_no", "prove_no"} \cap inbox[P] # {}

\* select! polls setup first.  Only when that is Pending does it go on to the
\* driver's handle, and the driver may finish in between.
SetupPending(p) ==
    /\ fn[p] = "setup" /\ ~Resolved(p)
    /\ fn' = [fn EXCEPT ![p] = "driver"]
    /\ UNCHANGED <<finished, res, pc, est, steps, tasks, mux, world>>

\* Mistaken: a finished driver is waited past, established or not.
PollDriverUnchecked(p) ==
    /\ fn[p] = "driver"
    /\ IF Ended(Driver(p))
       THEN /\ fn' = [fn EXCEPT ![p] = "drain"]
            /\ finished' = [finished EXCEPT ![p] = task[Driver(p)]]
       ELSE fn' = [fn EXCEPT ![p] = "setup"] /\ UNCHANGED finished
    /\ UNCHANGED <<res, tasks, pc, est, steps, mux, world>>

PollDriver(p) ==
    /\ fn[p] = "driver"
    /\ \/ /\ ~Ended(Driver(p))
          /\ fn' = [fn EXCEPT ![p] = "setup"]
          /\ UNCHANGED <<finished, res, tasks>>
       \/ /\ Ended(Driver(p)) /\ ~est[p]
          /\ Leave(p, "returned", "err")
          /\ UNCHANGED finished
       \/ /\ Ended(Driver(p)) /\ est[p]
          /\ fn' = [fn EXCEPT ![p] = "drain"]
          /\ finished' = [finished EXCEPT ![p] = task[Driver(p)]]
          /\ UNCHANGED <<res, tasks>>
    /\ UNCHANGED <<pc, est, steps, mux, world>>

\* Mistaken: the driver's own result, once taken, is not looked at.
SetupOkIgnoringDriver(p) ==
    IF finished[p] # "none"
    THEN Leave(p, "returned", "ok") /\ UNCHANGED finished
    ELSE /\ fn' = [fn EXCEPT ![p] = "join"]
         /\ Disarmed(Driver(p))
         /\ UNCHANGED <<finished, res>>

\* Mistaken: the handle is awaited although select! already took its result.
SetupOkJoinsAgain(p) ==
    /\ fn' = [fn EXCEPT ![p] = "join"]
    /\ Disarmed(Driver(p))
    /\ UNCHANGED <<finished, res>>

\* What follows a setup future that returned Ok: the driver's result is the one
\* kept, or its guard is disarmed and the handle awaited.  The prover's locals
\* go with the future, the HTTP connection task's guard among them.
SetupOk(p) ==
    IF finished[p] # "none"
    THEN /\ Leave(p, "returned", IF finished[p] = "ok" THEN "ok" ELSE "err")
         /\ UNCHANGED finished
    ELSE /\ fn' = [fn EXCEPT ![p] = "join"]
         /\ task' = [task EXCEPT !["ctask"] =
                        IF p = P /\ @ = "running" THEN "aborting" ELSE @]
         /\ owner' = [t \in Tasks |-> IF t = Driver(p) THEN "handle"
                                      ELSE IF t \in TasksOf(p) THEN "nobody"
                                      ELSE owner[t]]
         /\ UNCHANGED <<finished, res>>

JoinDriver(p) ==
    /\ fn[p] = "join" /\ Ended(Driver(p))
    /\ Leave(p, "returned", IF task[Driver(p)] = "ok" THEN "ok" ELSE "err")
    /\ UNCHANGED <<finished, pc, est, steps, mux, world>>

\* The caller drops the session future, or a panic unwinds it.
Cancel(p) ==
    /\ "cancel" \in Faults
    /\ fn[p] \in {"start", "setup", "drain", "join"}
    /\ Leave(p, "dropped", "none")
    /\ UNCHANGED <<finished, pc, est, steps, mux, world>>

\* Any `?` inside a setup future: a build, an await, a status other than 200,
\* a layout or a proof that could not be made.
SetupFails(p) ==
    /\ "error" \in Faults /\ Polling(p)
    /\ Leave(p, "returned", "err")
    /\ UNCHANGED <<finished, pc, est, steps, mux, world>>

-----------------------------------------------------------------------------
(* prover_generic's setup future.                                          *)

Goto(p, a) == pc' = [pc EXCEPT ![p] = a]
Reported(s) == steps' = Append(steps, s)

PBegin ==
    /\ At(P, "init")
    /\ Goto(P, "commit") /\ Send(P, "commit_req")
    /\ UNCHANGED <<future, est, steps, tasks, world>>

PCommit ==
    /\ At(P, "commit") /\ "commit_ok" \in inbox[P]
    /\ Goto(P, "tcp") /\ Reported("MpcSetupComplete")
    /\ UNCHANGED <<future, est, tasks, mux, world>>

PRejected ==
    /\ \/ At(P, "commit") /\ "commit_no" \in inbox[P]
       \/ At(P, "prove") /\ "prove_no" \in inbox[P]
    /\ Leave(P, "returned", "err")
    /\ UNCHANGED <<finished, pc, est, steps, mux, world>>

\* Mistaken: the boundary of the TLS handshake is not reported.
PConnectSilently ==
    /\ At(P, "tcp")
    /\ Goto(P, "http") /\ Spawned("ptask")
    /\ UNCHANGED <<future, est, steps, mux, world>>

PConnect ==
    /\ At(P, "tcp")
    /\ Goto(P, "http") /\ Reported("TlsHandshakeComplete") /\ Spawned("ptask")
    /\ UNCHANGED <<future, est, mux, world>>

PHandshake ==
    /\ At(P, "http")
    /\ Goto(P, "send") /\ Spawned("ctask")
    /\ UNCHANGED <<future, est, steps, mux, world>>

\* The response comes back through the MPC, which needs the verifier running.
PSend ==
    /\ At(P, "send") /\ "mpc_v" \in inbox[P]
    /\ Goto(P, "body")
    /\ UNCHANGED <<future, est, steps, tasks, mux, world>>

\* The body is in; the prover task's guard is disarmed and its handle awaited.
PBody ==
    /\ At(P, "body")
    /\ Goto(P, "join") /\ Reported("PlatformDataFetched") /\ Disarmed("ptask")
    /\ UNCHANGED <<future, est, mux, world>>

\* The joined prover, the layouts, the commit config, and the call of prove().
PJoin ==
    /\ At(P, "join") /\ task["ptask"] = "ok"
    /\ Goto(P, "prove") /\ Send(P, "prove_req")
    /\ owner' = [owner EXCEPT !["ptask"] = "nobody"]
    /\ UNCHANGED <<future, est, steps, task, world>>

PJoinFails ==
    /\ At(P, "join") /\ task["ptask"] \in {"err", "aborted"}
    /\ Leave(P, "returned", "err")
    /\ UNCHANGED <<finished, pc, est, steps, mux, world>>

\* prove() resolves and the session counts as run.
Proved ==
    /\ At(P, "prove") /\ "prove_ok" \in inbox[P]
    /\ est' = [est EXCEPT ![P] = TRUE]
    /\ Reported("MpcProofFinalized") /\ Send(P, "proof")

PProve ==
    /\ Proved
    /\ Goto(P, "close")
    /\ UNCHANGED <<future, tasks, world>>

\* No certificate chain or signature, an opening of another kind, a request
\* that does not build: an error after `established` was set.
PProveFailsLate ==
    /\ "error" \in Faults
    /\ Proved
    /\ Leave(P, "returned", "err")
    /\ UNCHANGED <<finished, pc, world>>

PClose ==
    /\ At(P, "close")
    /\ Goto(P, "done") /\ CloseHandle(P) /\ SetupOk(P)
    /\ UNCHANGED <<est, steps, world>>

\* prover.into_future(), external: it ends with the TLS connection.
PtaskEnds(o) ==
    /\ task["ptask"] = "running"
    /\ \/ o = "ok" /\ "mpc_v" \in inbox[P] /\ pc[P] \in {"body", "join"}
          /\ Send(P, "mpc_p")
       \/ o = "err" /\ "error" \in Faults /\ UNCHANGED mux
    /\ task' = [task EXCEPT !["ptask"] = o]
    /\ UNCHANGED <<future, pc, est, steps, owner, world>>

CtaskEnds ==
    /\ task["ctask"] = "running" /\ pc[P] # "send"
    /\ task' = [task EXCEPT !["ctask"] = "ok"]
    /\ UNCHANGED <<future, pc, est, steps, owner, mux, world>>

PStep == PBegin \/ PCommit \/ PRejected \/ PConnect \/ PHandshake \/ PSend
         \/ PBody \/ PJoin \/ PJoinFails \/ PProve \/ PClose

-----------------------------------------------------------------------------
(* verifier's setup future.                                                *)

VBegin ==
    /\ At(V, "init")
    /\ Goto(V, "commit")
    /\ UNCHANGED <<future, est, steps, tasks, mux, world>>

VCommit ==
    /\ At(V, "commit") /\ "commit_req" \in inbox[V] /\ claim.mpc
    /\ IF LimitsExceeded(claim)
       THEN Goto(V, "reject") /\ Send(V, "commit_no")
       ELSE Goto(V, "accept") /\ Send(V, "commit_ok")
    /\ UNCHANGED <<future, est, steps, tasks, world>>

\* VerifierCommitStart of another kind: an error, and no reject.
VNotMpc ==
    /\ At(V, "commit") /\ "commit_req" \in inbox[V] /\ ~claim.mpc
    /\ Leave(V, "returned", "err")
    /\ UNCHANGED <<finished, pc, est, steps, mux, world>>

VReject ==
    /\ At(V, "reject")
    /\ Leave(V, "returned", "err")
    /\ UNCHANGED <<finished, pc, est, steps, mux, world>>

VAccept ==
    /\ At(V, "accept")
    /\ Goto(V, "run") /\ Send(V, "mpc_v")
    /\ UNCHANGED <<future, est, steps, tasks, world>>

\* Mistaken: `established` is never set.
VRunUnflagged ==
    /\ At(V, "run") /\ "mpc_p" \in inbox[V]
    /\ Goto(V, "verify")
    /\ UNCHANGED <<future, est, steps, tasks, mux, world>>

VRun ==
    /\ At(V, "run") /\ "mpc_p" \in inbox[V]
    /\ Goto(V, "verify")
    /\ est' = [est EXCEPT ![V] = TRUE]
    /\ UNCHANGED <<future, steps, tasks, mux, world>>

\* Mistaken: a proof without the server's identity goes through.
VVerifyAnonymous ==
    /\ At(V, "verify") /\ "prove_req" \in inbox[V]
    /\ IF commitment_past_the_session(claim)
       THEN Goto(V, "reject") /\ Send(V, "prove_no")
       ELSE Goto(V, "accept_verify") /\ Send(V, "prove_ok")
    /\ UNCHANGED <<future, est, steps, tasks, world>>

VVerify ==
    /\ At(V, "verify") /\ "prove_req" \in inbox[V]
    /\ IF ~claim.identity \/ commitment_past_the_session(claim)
       THEN Goto(V, "reject") /\ Send(V, "prove_no")
       ELSE Goto(V, "accept_verify") /\ Send(V, "prove_ok")
    /\ UNCHANGED <<future, est, steps, tasks, world>>

VAcceptVerify ==
    /\ At(V, "accept_verify") /\ "proof" \in inbox[V]
    /\ Goto(V, "close")
    /\ UNCHANGED <<future, est, steps, tasks, mux, world>>

VClose ==
    /\ At(V, "close")
    /\ Goto(V, "done") /\ CloseHandle(V) /\ SetupOk(V)
    /\ UNCHANGED <<est, steps, world>>

VStep == VBegin \/ VCommit \/ VNotMpc \/ VReject \/ VAccept \/ VRun \/ VVerify
         \/ VAcceptVerify \/ VClose

-----------------------------------------------------------------------------
SetupStep(p) == IF p = P THEN PStep ELSE VStep

Finished == (\A p \in Party : Over(p)) /\ UNCHANGED vars

Init ==
    /\ fn = [p \in Party |-> "start"]
    /\ pc = [p \in Party |-> "init"]
    /\ est = [p \in Party |-> FALSE]
    /\ finished = [p \in Party |-> "none"]
    /\ res = [p \in Party |-> "none"]
    /\ steps = <<>>
    /\ task = [t \in Tasks |-> "none"]
    /\ owner = [t \in Tasks |-> "nobody"]
    /\ net = [p \in Party |-> <<>>]
    /\ inbox = [p \in Party |-> {}]
    /\ closed = [p \in Party |-> FALSE]
    /\ conn = "up"
    /\ claim \in Claims

PartyNext(p) ==
    Start(p) \/ SetupPending(p) \/ PollDriver(p) \/ JoinDriver(p) \/ Cancel(p)
    \/ SetupFails(p) \/ Deliver(p) \/ DriverCloses(p) \/ DriverSeesEnd(p)

Next ==
    \/ \E p \in Party : PartyNext(p)
    \/ PStep \/ VStep \/ StartRefused \/ PProveFailsLate
    \/ \E o \in {"ok", "err"} : PtaskEnds(o)
    \/ CtaskEnds
    \/ \E t \in Tasks : TaskReaped(t)
    \/ ConnDies
    \/ Finished

Spec == Init /\ [][Next]_vars

\* A request to the mux is answered while its driver runs, and after the peer
\* closed in order.  Once the driver is gone any other may never resolve.
MuxServes(p) ==
    task[Driver(p)] = "running" \/ "goaway" \in inbox[p] \/ Resolved(p)

\* The runtime polls every future that was woken and every spawned task.  A
\* setup future is polled in rounds with the driver's handle, so an await that
\* stays ready is reached infinitely often rather than continuously.
Fairness ==
    /\ \A p \in Party :
         /\ WF_vars(Start(p))
         /\ SF_vars(MuxServes(p) /\ SetupStep(p))
         /\ WF_vars(Ended(Driver(p)) /\ SetupPending(p))
         /\ WF_vars(PollDriver(p))
         /\ WF_vars(JoinDriver(p))
         /\ WF_vars(Deliver(p))
         /\ WF_vars(DriverCloses(p))
         /\ WF_vars(DriverSeesEnd(p))
    /\ WF_vars(PtaskEnds("ok"))
    /\ \A t \in Tasks : WF_vars(TaskReaped(t))

FairSpec == Spec /\ Fairness

-----------------------------------------------------------------------------
(* Properties.                                                             *)

(* The types of the two functions' locals, of their tasks and of the mux. *)
TypeOK ==
    /\ fn \in [Party -> {"start", "setup", "driver", "drain", "join",
                         "returned", "dropped"}]
    /\ pc \in [Party -> ProverAwaits \cup VerifierAwaits]
    /\ pc[P] \in ProverAwaits /\ pc[V] \in VerifierAwaits
    /\ est \in [Party -> BOOLEAN]
    /\ finished \in [Party -> {"none", "ok", "err", "aborted"}]
    /\ res \in [Party -> {"none", "ok", "err"}]
    /\ steps \in Seq({"MpcSetupComplete", "TlsHandshakeComplete",
                      "PlatformDataFetched", "MpcProofFinalized"})
    /\ task \in [Tasks -> {"none", "running", "ok", "err", "aborting", "aborted"}]
    /\ owner \in [Tasks -> {"nobody", "guard", "handle"}]
    /\ net \in [Party -> Seq(Messages)]
    /\ inbox \in [Party -> SUBSET Messages]
    /\ closed \in [Party -> BOOLEAN]
    /\ conn \in {"up", "dead"}
    /\ claim \in Claims

\* Every byte a commitment names was carried, in the direction it names, by an
\* application-data record of this session.
Carried(records, byte) ==
    byte < Cardinality(UNION {{i} \X (1..records[i].len) :
              i \in {j \in DOMAIN records : records[j].typ = "ApplicationData"}})

InBounds(c) ==
    \A k \in c.commits : \A byte \in k.idx :
        Carried(IF k.dir = "Sent" THEN c.sent ELSE c.recv, byte)

Acceptable(c) ==
    /\ c.mpc /\ c.identity
    /\ c.maxSent <= MaxSent /\ c.maxRecv <= MaxRecv
    /\ InBounds(c)

(* accept() is reached only for a claim the session can contain: it walks and
   allocates over every committed range, so nothing else may get there
   (session.rs 783-811), whatever the prover put on the wire. *)
AcceptWalksOnlyTheSession ==
    pc[V] \in {"accept_verify", "close", "done"} => Acceptable(claim)

(* A task outlives its function only through the two joins whose handle was taken
   back first: the driver, when the caller drops a future whose setup is done and
   which awaits the driver (session.rs 682, 870), and the prover task, when setup
   was given up while it joined that task (513).  Every other exit, at any await,
   aborts what it leaves, the HTTP connection task always. *)
OnlyAJoinDetaches ==
    /\ \A p \in Party : Over(p) /\ task[Driver(p)] = "running"
                         => fn[p] = "dropped" /\ pc[p] = "done"
    /\ Over(P) /\ task["ptask"] = "running" => pc[P] = "join"
    /\ Over(P) => task["ctask"] # "running"

(* The orderly goodbye of a peer never reaches a party that has not set
   `established`: the early-finish check cannot mistake the end of a good
   session for a dead connection, in any interleaving of the two functions,
   their drivers and the poll of select!. *)
GoodbyeFindsEstablished ==
    \A p \in Party : "goaway" \in inbox[p] => est[p]

(* An Ok from either party is about one and the same accepted session: both
   flags are set, the verifier accepted a claim within the session, and the
   party got its socket back from its own driver. *)
OkIsAgreed ==
    \A p \in Party : res[p] = "ok" =>
        /\ est[P] /\ est[V] /\ VerifierAccepts(claim)
        /\ task[Driver(p)] = "ok"

(* A finished JoinHandle is never polled again: once select! took the driver's
   result, the function does not go on to await the handle, and while it does
   await it no result was taken (a second poll panics in tokio). *)
HandlePolledOnce ==
    \A p \in Party : fn[p] = "join" => finished[p] = "none" /\ owner[Driver(p)] = "handle"

Phases == <<"MpcSetupComplete", "TlsHandshakeComplete", "PlatformDataFetched",
            "MpcProofFinalized">>

(* What on_progress reported so far is a prefix of the four phases in order,
   the last one only with `established` set; an Ok comes after all four. *)
ProgressInOrder ==
    /\ Len(steps) <= 4 /\ \A k \in 1..Len(steps) : steps[k] = Phases[k]
    /\ Len(steps) = 4 <=> est[P]
    /\ res[P] = "ok" => Len(steps) = 4

(* A driver that finishes before `established` fails the session instead of
   leaving it pending (session.rs 659-670, 847-858). *)
EarlyDeathReported ==
    \A p \in Party :
        (~Over(p) /\ fn[p] # "join" /\ Ended(Driver(p)) /\ ~est[p])
            ~> (Over(p) \/ est[p])

(* Once a function is over, returned or dropped, its driver ends too: an abort
   takes effect, and a driver that was detached (see ExitAbortsTasks) has said
   its goodbye already and ends with the peer's, or with the connection. *)
DriverEndsAfterExit ==
    \A p \in Party : Over(p) ~> (Ended(Driver(p)) \/ task[Driver(p)] = "none")

(* Unless the connection died or a caller dropped its future, both functions
   return, Ok exactly for an acceptable claim: neither side waits for ever on the
   other, and neither the race with the driver nor the limits refuse a session
   they should let through. *)
FaultFreeSessionEnds ==
    <>(\/ conn = "dead" \/ \E p \in Party : fn[p] = "dropped"
       \/ \A p \in Party :
              /\ fn[p] = "returned"
              /\ res[p] = IF Acceptable(claim) THEN "ok" ELSE "err")

(* The session implements the abstract one: established flags become the stage
   and returns become outcomes, so the flags are raised in one order only,
   results are final, and an Ok needs a proof of an accepted claim. *)
Abstract == INSTANCE Notarization WITH
    Parties <- Party,
    accepts <- VerifierAccepts(claim),
    stage   <- IF est[P] THEN "proved" ELSE IF est[V] THEN "ran" ELSE "open",
    outcome <- [p \in Party |-> IF fn[p] = "dropped" THEN "dropped" ELSE res[p]]

ImplementsNotarization == Abstract!Spec

-----------------------------------------------------------------------------
(* The inductive invariant behind the proofs.                              *)

Sent(p, m) == m \in inbox[Peer(p)] \/ \E i \in DOMAIN net[p] : net[p][i] = m

Active(p) == fn[p] \in {"setup", "driver", "drain"}

\* What a frame, in flight or read, says about the two parties.
FramesInv ==
    /\ Sent(V, "prove_ok") => est[V] /\ VerifierAccepts(claim)
    /\ Sent(P, "proof") => est[P]
    /\ \A p \in Party : Sent(p, "goaway") => est[P]
    /\ est[P] => est[V] /\ VerifierAccepts(claim)

\* What the await a party is suspended on says about what it has done.
AwaitsInv ==
    /\ pc[V] \in {"accept", "run", "verify", "accept_verify", "close", "done"}
           => claim.mpc /\ ~LimitsExceeded(claim)
    /\ pc[V] \in {"verify", "accept_verify", "close", "done"} => est[V]
    /\ pc[V] \in {"accept_verify", "close", "done"} => VerifierAccepts(claim)
    /\ pc[V] \in {"close", "done"} => est[P]
    /\ pc[P] \in {"close", "done"} => est[P]

\* Who holds the driver, and what is known of it, by where the function stands.
GuardOf(p) ==
    /\ fn[p] = "start" => task[Driver(p)] = "none" /\ pc[p] = "init"
    /\ fn[p] \in {"start", "setup", "driver"} => finished[p] = "none"
    /\ Active(p) => owner[Driver(p)] = "guard"
    /\ fn[p] = "drain" => est[p] /\ Ended(Driver(p)) /\ finished[p] = task[Driver(p)]
    /\ fn[p] = "join" => /\ owner[Driver(p)] = "handle"
                         /\ finished[p] = "none" /\ pc[p] = "done"
    /\ fn[p] = "returned" => task[Driver(p)] # "running" /\ res[p] # "none"
    /\ fn[p] # "returned" => res[p] = "none"
    /\ res[p] = "ok" => pc[p] = "done" /\ task[Driver(p)] = "ok"

GuardsInv == \A p \in Party : GuardOf(p)

\* The HTTP connection task only runs under the prover's setup future.
ConnTaskInv ==
    task["ctask"] = "running" =>
        Active(P) /\ owner["ctask"] = "guard"

\* Which tasks may be left without a guard: a driver under a join that was given
\* up, and the prover task from the moment its handle is taken back.
DetachInv ==
    /\ \A p \in Party :
           fn[p] = "dropped" /\ task[Driver(p)] = "running" => pc[p] = "done"
    /\ task["ptask"] = "running" =>
           \/ pc[P] = "join"
           \/ /\ pc[P] \in {"http", "send", "body"}
              /\ Active(P) /\ owner["ptask"] = "guard"

\* What was reported, by the await the prover stands at; an error behind prove()
\* leaves it there with everything reported.
ProgressInv ==
    /\ \A k \in 1..Len(steps) : steps[k] = Phases[k]
    /\ pc[P] \in {"init", "commit"} => Len(steps) = 0
    /\ pc[P] = "tcp" => Len(steps) = 1
    /\ pc[P] \in {"http", "send", "body"} => Len(steps) = 2
    /\ pc[P] \in {"join", "prove"} /\ ~est[P] => Len(steps) = 3
    /\ est[P] => /\ Len(steps) = 4
                 /\ pc[P] \in {"close", "done"} \/ (pc[P] = "prove" /\ Over(P))

(* The frames on the wire, the awaits, the guards, the tasks left without one and
   the reported progress agree about how far the two functions of session.rs have
   come: inductive, and the premise of every theorem about them. *)
IInv ==
    /\ TypeOK /\ FramesInv /\ AwaitsInv /\ GuardsInv /\ ConnTaskInv
    /\ DetachInv /\ ProgressInv

-----------------------------------------------------------------------------
(* Statements of the source's comments that the code does not keep.        *)

(* "With this guard, cancellation is the default on every exit path, including
   panics and the caller dropping the session future" (session.rs 101-102; of the
   driver again at 414 and 708): no task outlives the function that spawned it. *)
ExitAbortsTasks ==
    \A p \in Party : Over(p) => \A t \in TasksOf(p) : task[t] # "running"

(* "a protocol request already submitted to it may then never resolve, so fail
   instead of pending forever" (session.rs 659-662, 847-850): a driver that finished
   under a session makes it return. *)
DriverEndReturns ==
    \A p \in Party : (Ended(Driver(p)) /\ ~Over(p)) ~> Over(p)
=============================================================================
