---------------------- MODULE ClaimServiceFaultsProofs ----------------------
(* What faults can and cannot do to ClaimService: end a worker's loop, hide *)
(* an escalated claim, or make the service forget a claim it has accepted.  *)
EXTENDS ClaimServiceProofs

\* Faults are only counted up, and within their bound.
LEMMA FaultsGrow ==
  ASSUME TInv, [Next]_vars, NEW k \in FaultKinds
  PROVE  /\ faults[k] \in Nat /\ faults'[k] \in Nat /\ faults[k] <= faults'[k]
         /\ faults[k] <= MaxFaults[k] => faults'[k] <= MaxFaults[k]
<1>1. faults \in [FaultKinds -> Nat] /\ faults' \in [FaultKinds -> Nat]
  BY TypeStep DEF TInv, TypeOK
<1>2. UNCHANGED faults \/ \E j \in FaultKinds : Fault(j)
  BY DEF Next, vars, SubmitEnqueue, LockReleased, LockOverruns, MessageExpires, SubmitCreate,
     Dequeue, WorkerStep, Load, MarkProcessing, RunGraph, GraphRaises, SaveResult, FailLoad,
     FailSave, Ack, WorkerFault, DequeueRaises, ProcessRaises, FailRaises, Shutdown, Crash,
     Restart, DecisionLoad, DecisionSave, SaveRaises, LoadRaises, RecordExpires, FaultKinds
<1>3. MaxFaults[k] \in Nat
  BY FaultsAssumption
<1> QED BY <1>1, <1>2, <1>3 DEF Fault

\* What a step does to the position and the claim of each worker.
LEMMA OthersStay ==
  ASSUME TInv, NEW p \in Procs, WorkerStep(p) \/ WorkerFault(p)
  PROVE  \A q \in Procs : q # p => worker'[q] = worker[q]
  BY DEF WorkerStep, WorkerFault, Load, MarkProcessing, RunGraph, GraphRaises, SaveResult,
     FailLoad, FailSave, Ack, DequeueRaises, ProcessRaises, FailRaises, Goto, Keep, TInv, TypeOK

-----------------------------------------------------------------------------
(* A worker's loop ends only of a store or broker call that raised. *)

DInv == TInv /\ WorkerDiesOfIo

Dying(w) == w.pc \in {"dead", "ack_raise"}

LEMMA DiesStep == DInv /\ [Next]_vars => DInv'
<1> SUFFICES ASSUME DInv, [Next]_vars PROVE WorkerDiesOfIo'
  BY TypeStep DEF DInv
<1>t. TInv /\ WorkerDiesOfIo /\ TypeOK
  BY DEF DInv, TInv
<1>1. /\ faults["io"] + faults["lost_reply"] \in Nat
      /\ faults'["io"] + faults'["lost_reply"] \in Nat
      /\ faults'["io"] + faults'["lost_reply"] >= faults["io"] + faults["lost_reply"]
  BY <1>t, FaultsGrow DEF FaultKinds
<1>2. ASSUME Fault("io") \/ Fault("lost_reply")
      PROVE  faults'["io"] + faults'["lost_reply"] > 0
  BY <1>2, <1>t DEF Fault, TypeOK, FaultKinds
<1>3. ASSUME \A p \in Procs : Dying(worker'[p]) => Dying(worker[p])
      PROVE  WorkerDiesOfIo'
  BY <1>3, <1>t, <1>1 DEF Dying, WorkerDiesOfIo
<1>4. CASE \E p \in Procs : WorkerFault(p)
  <2>1. PICK p \in Procs : WorkerFault(p)
    BY <1>4
  <2>2. CASE DequeueRaises(p) \/ FailRaises(p)
    BY <2>2, <1>2 DEF DequeueRaises, FailRaises, SaveRaises, LoadRaises, WorkerDiesOfIo
  <2>3. CASE ProcessRaises(p)
    BY <2>3, <1>3, <1>t DEF ProcessRaises, Goto, Dying, TypeOK, Locals
  <2> QED BY <2>1, <2>2, <2>3 DEF WorkerFault
<1>5. CASE \E p \in Procs : WorkerStep(p)
  <2>1. PICK p \in Procs : WorkerStep(p)
    BY <1>5
  <2>2. Dying(worker'[p]) => Dying(worker[p])
    <3>1. CASE Ack(p)
      BY <3>1, <1>t DEF Ack, Acking, AfterAck, Bare, Dying, TypeOK
    <3> QED BY <2>1, <3>1, <1>t DEF WorkerStep, Load, MarkProcessing, RunGraph, GraphRaises,
            SaveResult, FailLoad, FailSave, Goto, Keep, Dying, TypeOK, Locals
  <2> QED BY <2>1, <2>2, <1>3, <1>t, OthersStay
<1>6. CASE \E p \in Procs : \/ Shutdown(p) \/ Crash(p) \/ Restart(p)
                            \/ \E c \in Claims : Dequeue(p, c)
  <2>1. PICK p \in Procs : \E w : /\ worker' = [worker EXCEPT ![p] = w]
                                  /\ ~Dying(w)
    <3>1. PICK p \in Procs : \/ Shutdown(p) \/ Crash(p) \/ Restart(p)
                             \/ \E c \in Claims : Dequeue(p, c)
      BY <1>6
    <3>2. ASSUME NEW pc \in {"idle", "ack_cancel"}, Goto(p, pc)
          PROVE  \E w : worker' = [worker EXCEPT ![p] = w] /\ ~Dying(w)
      <4>1. ~Dying([worker[p] EXCEPT !.pc = pc])
        BY <1>t DEF Dying, TypeOK, Locals
      <4> QED BY <3>2, <4>1 DEF Goto
    <3>3. ASSUME NEW pc \in {"down", "load"}, NEW c, NEW l
          PROVE  ~Dying(Bare(pc)) /\ ~Dying([Bare(pc) EXCEPT !.claim = c, !.lock = l])
      BY DEF Dying, Bare
    <3> QED BY <3>1, <3>2, <3>3 DEF Shutdown, Crash, Restart, Dequeue
  <2> QED BY <2>1, <1>3, <1>t DEF TypeOK
<1>7. CASE UNCHANGED worker
  BY <1>7, <1>3
<1> QED BY <1>4, <1>5, <1>6, <1>7 DEF Next, vars, SubmitEnqueue, LockReleased, LockOverruns,
        MessageExpires, RecordExpires, SubmitCreate, DecisionLoad, DecisionSave

\* Nothing that a claim does to the graph or to its record ends a worker's
\* loop: without a store or broker call that raised, every worker still polls.
THEOREM OnlyIoKillsWorkers == Spec => []WorkerDiesOfIo
<1>1. Init => DInv
  BY TypeInit DEF DInv, Init, WorkerDiesOfIo, Bare
<1>2. DInv => WorkerDiesOfIo
  BY DEF DInv
<1> QED BY <1>1, <1>2, DiesStep, PTL DEF Spec

-----------------------------------------------------------------------------
(* The listing of escalated claims.  The list of a process is lost with it, *)
(* so as long as none stopped the API process that stored the claim has it. *)

\* No process has been stopped or has died.
Unstopped == faults["crash"] + faults["cancel"] = 0

\* Something beyond a bare record points at the claim.
Known(c) == \/ req[c].state = "created"
            \/ msg[c].state # "none"
            \/ \E p \in Procs : worker[p].claim = c
            \/ \E r \in Reviewers : review[r].claim = c
            \/ record[c].status \notin {"absent", "pending"}

Listed(c) == \E p \in ApiProcs : c \in ids[p]

LInv ==
  /\ TInv
  /\ Unstopped => /\ \A p \in Procs : worker[p].pc \notin {"down", "ack_cancel"}
                  /\ \A c \in Claims : Known(c) => Listed(c)

\* A save leaves the records of other claims alone and drops no id.
LEMMA SaveKeeps ==
  ASSUME TypeOK, NEW p \in Procs, NEW c \in Claims, NEW r,
         Save(p, c, r) \/ SaveRaises(c, r)
  PROVE  /\ \A d \in Claims : d # c => record'[d] = record[d]
         /\ \A q \in Procs : ids[q] \subseteq ids'[q]
  BY DEF Save, SaveRaises, TypeOK

LEMMA ListedWorker ==
  ASSUME LInv, Unstopped, NEW p \in Procs, WorkerStep(p) \/ WorkerFault(p)
  PROVE  /\ worker'[p].pc \notin {"down", "ack_cancel"}
         /\ \A c \in Claims : Known(c)' => Known(c)
         /\ \A q \in Procs : ids[q] \subseteq ids'[q]
<1>t. TypeOK /\ WorkerHasClaim /\ worker[p].pc \notin {"down", "ack_cancel"}
  BY DEF LInv, TInv
<1>1. worker'[p].pc \notin {"down", "ack_cancel"}
  <2>1. CASE Ack(p)
    BY <2>1, <1>t DEF Ack, Acking, AfterAck, Bare, TypeOK
  <2> QED BY <2>1, <1>t DEF WorkerStep, WorkerFault, Load, MarkProcessing, RunGraph, GraphRaises,
          SaveResult, FailLoad, FailSave, DequeueRaises, ProcessRaises, FailRaises, Goto, Keep,
          TypeOK, Locals
<1>2. worker'[p].claim \in {worker[p].claim, NoClaim}
  <2>1. CASE Ack(p)
    BY <2>1, <1>t DEF Ack, Bare, TypeOK
  <2> QED BY <2>1, <1>t DEF WorkerStep, WorkerFault, Load, MarkProcessing, RunGraph, GraphRaises,
          SaveResult, FailLoad, FailSave, DequeueRaises, ProcessRaises, FailRaises, Goto, Keep,
          TypeOK, Locals
<1>3. /\ \A d \in Claims : d # worker[p].claim => record'[d] = record[d]
      /\ \A q \in Procs : ids[q] \subseteq ids'[q]
  <2>1. CASE UNCHANGED <<record, ids>>
    BY <2>1
  <2>2. CASE worker[p].claim \in Claims
             /\ (\/ Save(p, worker[p].claim, worker[p].snap)
                 \/ SaveRaises(worker[p].claim, worker[p].snap))
    BY <2>2, <1>t, SaveKeeps
  <2>3. worker[p].pc \in Processing \cup Failing => worker[p].claim \in Claims
    BY <1>t DEF WorkerHasClaim, Busy
  <2> QED BY <2>1, <2>2, <2>3 DEF WorkerStep, WorkerFault, Load, MarkProcessing, RunGraph,
          GraphRaises, SaveResult, FailLoad, FailSave, Ack, DequeueRaises, ProcessRaises,
          FailRaises, LoadRaises, Processing, Failing
<1>4. UNCHANGED <<req, review>> /\ \A c \in Claims : msg'[c].state # "none" => msg[c].state # "none"
  <2>1. CASE Ack(p)
    BY <2>1, <1>t DEF Ack, LockValid, TypeOK, Message
  <2>2. CASE DequeueRaises(p)
    BY <2>2, <1>t DEF DequeueRaises, Locked, TypeOK, Message
  <2> QED BY <2>1, <2>2 DEF WorkerStep, WorkerFault, Load, MarkProcessing, RunGraph,
          GraphRaises, SaveResult, FailLoad, FailSave, ProcessRaises, FailRaises
<1>5. \A c \in Claims : Known(c)' => Known(c)
  <2>1. \A q \in Procs : q # p => worker'[q] = worker[q]
    BY OthersStay DEF LInv
  <2> QED BY <1>2, <1>3, <1>4, <2>1, NoClaimAssumption DEF Known
<1> QED BY <1>1, <1>3, <1>5

LEMMA ListedRequests ==
  ASSUME LInv, Unstopped, NEW c \in Claims,
         \/ SubmitEnqueue(c) \/ LockReleased(c) \/ LockOverruns(c)
         \/ MessageExpires(c) \/ RecordExpires(c)
         \/ \E p \in Procs : SubmitCreate(p, c) \/ Dequeue(p, c)
  PROVE  /\ \A p \in Procs : worker'[p].pc \notin {"down", "ack_cancel"}
         /\ \A d \in Claims : Known(d)' => Known(d) \/ Listed(d)'
         /\ \A q \in Procs : ids[q] \subseteq ids'[q]
<1>t. TypeOK /\ \A p \in Procs : worker[p].pc \notin {"down", "ack_cancel"}
  BY DEF LInv, TInv
<1>1. CASE SubmitEnqueue(c)
  BY <1>1, <1>t DEF SubmitEnqueue, Known, TypeOK, Request
<1>2. CASE LockReleased(c) \/ LockOverruns(c) \/ MessageExpires(c)
  BY <1>2, <1>t DEF LockReleased, LockOverruns, MessageExpires, Unlocked, Known, TypeOK
<1>3. ASSUME NEW p \in Procs, SubmitCreate(p, c)
      PROVE  /\ \A q \in Procs : worker'[q].pc \notin {"down", "ack_cancel"}
             /\ \A d \in Claims : Known(d)' => Known(d) \/ Listed(d)'
             /\ \A q \in Procs : ids[q] \subseteq ids'[q]
  <2>1. /\ \A d \in Claims : d # c => record'[d] = record[d] /\ req'[d] = req[d]
        /\ \A q \in Procs : ids[q] \subseteq ids'[q]
        /\ UNCHANGED <<msg, worker, review>>
    BY <1>3, <1>t, SaveKeeps DEF SubmitCreate, TypeOK
  <2>2. CASE Save(p, c, Lifecycle!Fresh)
    <3>1. Listed(c)'
      BY <1>3, <2>2, <1>t DEF SubmitCreate, Save, Listed, TypeOK
    <3> QED BY <1>t, <2>1, <3>1 DEF Known
  <2>3. CASE SaveRaises(c, Lifecycle!Fresh) /\ req' = [req EXCEPT ![c].state = "failed"]
    <3>1. record'[c] = record[c] \/ record'[c].status = "pending"
      BY <2>3, <1>t DEF SaveRaises, TypeOK, Lifecycle!Fresh
    <3>2. req'[c].state = "failed"
      BY <2>3, <1>t DEF TypeOK, Request
    <3> QED BY <1>t, <2>1, <3>1, <3>2 DEF Known
  <2> QED BY <1>3, <2>2, <2>3 DEF SubmitCreate
<1>4. ASSUME NEW p \in Procs, Dequeue(p, c)
      PROVE  /\ \A q \in Procs : worker'[q].pc \notin {"down", "ack_cancel"}
             /\ \A d \in Claims : Known(d)' => Known(d) \/ Listed(d)'
             /\ \A q \in Procs : ids[q] \subseteq ids'[q]
  <2>1. /\ worker'[p].claim = c /\ worker'[p].pc = "load"
        /\ \A q \in Procs : q # p => worker'[q] = worker[q]
        /\ \A d \in Claims : d # c => msg'[d] = msg[d]
    BY <1>4, <1>t DEF Dequeue, Locked, Bare, TypeOK
  <2>2. Known(c) /\ UNCHANGED <<record, req, ids, review>>
    BY <1>4 DEF Dequeue, Known
  <2> QED BY <1>t, <2>1, <2>2 DEF Known
<1>5. CASE RecordExpires(c)
  <2>1. \A d \in Claims : record'[d] \in {record[d], Lifecycle!Absent}
    BY <1>5, <1>t DEF RecordExpires, TypeOK
  <2> QED BY <1>5, <1>t, <2>1 DEF RecordExpires, Known, Lifecycle!Absent
<1> QED BY <1>1, <1>2, <1>3, <1>4, <1>5

LEMMA ListedReview ==
  ASSUME LInv, Unstopped, NEW r \in Reviewers,
         DecisionSave(r) \/ \E p \in Procs, c \in Claims : DecisionLoad(r, p, c)
  PROVE  /\ UNCHANGED worker
         /\ \A d \in Claims : Known(d)' => Known(d)
         /\ \A q \in Procs : ids[q] \subseteq ids'[q]
<1>t. TypeOK /\ ReviewHasClaim
  BY DEF LInv, TInv
<1>1. CASE DecisionSave(r)
  <2>1. review[r].claim \in Claims /\ review[r].proc \in Procs
    BY <1>1, <1>t DEF DecisionSave, ReviewHasClaim
  <2>2. /\ \A d \in Claims : d # review[r].claim => record'[d] = record[d]
        /\ \A q \in Procs : ids[q] \subseteq ids'[q]
    BY <1>1, <1>t, <2>1, SaveKeeps DEF DecisionSave
  <2>3. /\ \A s \in Reviewers : review'[s].claim \in {review[s].claim, NoClaim}
        /\ UNCHANGED <<msg, req, worker>>
    BY <1>1, <1>t DEF DecisionSave, NoReview, TypeOK
  <2> QED BY <2>2, <2>3, NoClaimAssumption DEF Known
<1>2. ASSUME NEW p \in Procs, NEW c \in Claims, DecisionLoad(r, p, c)
      PROVE  /\ UNCHANGED worker
             /\ \A d \in Claims : Known(d)' => Known(d)
             /\ \A q \in Procs : ids[q] \subseteq ids'[q]
  <2>1. /\ Known(c) /\ UNCHANGED <<record, msg, req, worker, ids>>
        /\ \A s \in Reviewers : review'[s].claim \in {review[s].claim, c}
    BY <1>2, <1>t DEF DecisionLoad, Known, TypeOK
  <2> QED BY <2>1 DEF Known
<1> QED BY <1>1, <1>2

LEMMA ListedStep == LInv /\ [Next]_vars => LInv'
<1> SUFFICES ASSUME LInv, [Next]_vars, Unstopped'
             PROVE  /\ \A p \in Procs : worker'[p].pc \notin {"down", "ack_cancel"}
                    /\ \A c \in Claims : Known(c)' => Listed(c)'
  BY TypeStep DEF LInv
<1>t. TInv /\ TypeOK
  BY DEF LInv, TInv
<1>1. Unstopped
  BY <1>t, FaultsGrow DEF Unstopped, FaultKinds
<1>i. /\ \A p \in Procs : worker[p].pc \notin {"down", "ack_cancel"}
      /\ \A c \in Claims : Known(c) => Listed(c)
  BY <1>1 DEF LInv
<1>2. ASSUME \A q \in Procs : ids[q] \subseteq ids'[q], NEW c \in Claims, Listed(c)
      PROVE  Listed(c)'
  BY <1>2, ProcsAssumption DEF Listed
<1>3. ASSUME NEW p \in Procs PROVE ~Shutdown(p) /\ ~Crash(p) /\ ~Restart(p)
  <2>1. ~Fault("crash") /\ ~Fault("cancel")
    BY <1>t DEF Fault, Unstopped, TypeOK, FaultKinds
  <2> QED BY <2>1, <1>i DEF Shutdown, Crash, Restart
<1>4. CASE UNCHANGED vars
  BY <1>4, <1>i DEF vars, Known, Listed
<1>5. CASE \E c \in Claims :
             \/ SubmitEnqueue(c) \/ LockReleased(c) \/ LockOverruns(c)
             \/ MessageExpires(c) \/ RecordExpires(c)
             \/ \E p \in Procs : SubmitCreate(p, c) \/ Dequeue(p, c)
  BY <1>5, <1>1, <1>2, <1>i, ListedRequests
<1>6. CASE \E p \in Procs : WorkerStep(p) \/ WorkerFault(p)
  BY <1>6, <1>1, <1>2, <1>i, <1>t, ListedWorker, OthersStay
<1>7. CASE \E r \in Reviewers :
             DecisionSave(r) \/ \E p \in Procs, c \in Claims : DecisionLoad(r, p, c)
  BY <1>7, <1>1, <1>2, <1>i, ListedReview
<1> QED BY <1>3, <1>4, <1>5, <1>6, <1>7 DEF Next

\* As long as no process was stopped or died, every escalated claim is in the
\* listing of an API process, whichever worker adjudicated it, whatever calls
\* raised and however often its message was delivered.
THEOREM EscalationsListed == Spec => []EscalatedListed
<1>1. Init => LInv
  <2> SUFFICES ASSUME Init PROVE LInv
    OBVIOUS
  <2>1. \A p \in Procs : worker[p].pc = "idle" /\ worker[p].claim \notin Claims
    BY NoClaimAssumption DEF Init, Bare
  <2>2. \A c \in Claims : ~Known(c)
    BY <2>1, NoClaimAssumption DEF Init, Known, NoReview, Lifecycle!Absent
  <2> QED BY <2>1, <2>2, TypeInit DEF LInv
<1>2. LInv => EscalatedListed
  BY DEF LInv, EscalatedListed, Unstopped, Known, Listed
<1> QED BY <1>1, <1>2, ListedStep, PTL DEF Spec
-----------------------------------------------------------------------------
(* Nothing accepted is forgotten while a message has more deliveries than   *)
(* there are crashes: each delivery but the last was ended by a crash.      *)

CrashesSurvivable ==
  NoLossFaults /\ MaxFaults["ttl"] = 0 /\ MaxFaults["crash"] < MaxDelivery

InHand(c) == \E p \in Procs : worker[p].claim = c

\* A delivery that no worker has in hand any more ended in a crash.
Spent(c) ==
  /\ msg[c].state # "dead"
  /\ msg[c].state # "settled" =>
       /\ msg[c].delivery <= faults["crash"] + 1
       /\ ~InHand(c) => msg[c].delivery <= faults["crash"]

Sent(c) == req[c].state = "done" => msg[c].state # "none"

BInv == /\ AInv
        /\ faults["crash"] <= MaxFaults["crash"]
        /\ \A c \in Claims : Spent(c) /\ Sent(c)

\* Steps that deliver nothing and take nothing out of a worker's hand.
LEMMA NotSpent ==
  ASSUME BInv, [Next]_vars, UNCHANGED <<msg, req>>,
         \A p \in Procs : worker'[p].claim = worker[p].claim
  PROVE  \A c \in Claims : Spent(c)' /\ Sent(c)'
<1>1. \A c \in Claims : Spent(c) /\ Sent(c) /\ msg[c].delivery \in Nat
  BY DEF BInv, AInv, CInv, TInv, TypeOK, Message
<1>2. faults["crash"] \in Nat /\ faults'["crash"] \in Nat /\ faults["crash"] <= faults'["crash"]
  BY FaultsGrow DEF BInv, AInv, CInv, FaultKinds
<1>3. \A c \in Claims : InHand(c)' <=> InHand(c)
  BY DEF InHand
<1> QED BY <1>1, <1>2, <1>3 DEF Spent, Sent

LEMMA SpentBroker ==
  ASSUME CrashesSurvivable, BInv, NEW c \in Claims,
         \/ SubmitEnqueue(c) \/ LockReleased(c) \/ LockOverruns(c)
         \/ MessageExpires(c) \/ RecordExpires(c)
         \/ \E p \in Procs : SubmitCreate(p, c)
  PROVE  \A d \in Claims : Spent(d)' /\ Sent(d)'
<1>t. /\ TypeOK /\ Owned /\ NoLossFaults /\ msg[c].delivery \in Nat /\ faults["crash"] \in Nat
      /\ \A d \in Claims : Spent(d) /\ Sent(d)
  BY DEF CrashesSurvivable, BInv, AInv, CInv, TInv, TypeOK, Message, FaultKinds
<1>u. UNCHANGED worker
  BY DEF SubmitEnqueue, LockReleased, LockOverruns, MessageExpires, RecordExpires, SubmitCreate
<1>1. ~LockOverruns(c) /\ ~MessageExpires(c) /\ ~RecordExpires(c)
  <2>1. ~Fault("overrun") /\ ~Fault("expiry")
    BY <1>t, NoFault
  <2>2. ~Fault("ttl")
    BY <1>t DEF CrashesSurvivable, Fault, TypeOK, FaultKinds
  <2> QED BY <2>1, <2>2 DEF LockOverruns, MessageExpires, RecordExpires
<1>2. CASE SubmitEnqueue(c)
  <2>1. UNCHANGED faults
    BY <1>2, <1>t, NoFault DEF SubmitEnqueue
  <2>2. /\ msg' = [msg EXCEPT ![c].state = "ready"]
        /\ req' = [req EXCEPT ![c] = [state |-> "done", proc |-> NoProc]]
        /\ msg[c].state = "none"
    BY <1>2, <1>t, NoFault DEF SubmitEnqueue, Owned, Submitted
  <2> QED BY <1>t, <1>u, <2>1, <2>2 DEF Spent, Sent, InHand, TypeOK, Message
<1>3. CASE LockReleased(c)
  <2>1. ~InHand(c)
    BY <1>3, <1>t DEF LockReleased, Held, Holds, Owned, Owns, InHand
  <2>2. msg[c].delivery < MaxDelivery
    BY <1>3, <1>t, <2>1, FaultsAssumption, DeliveryAssumption
    DEF LockReleased, Spent, CrashesSurvivable, BInv, FaultKinds
  <2>3. msg' = [msg EXCEPT ![c].state = "ready"] /\ UNCHANGED <<req, faults>>
    BY <1>3, <2>2 DEF LockReleased, Unlocked
  <2>4. msg[c].state = "locked"
    BY <1>3 DEF LockReleased
  <2> QED BY <1>t, <1>u, <2>3, <2>4 DEF Spent, Sent, InHand, TypeOK, Message
<1>4. CASE \E p \in Procs : SubmitCreate(p, c)
  <2>1. /\ UNCHANGED <<msg, faults>>
        /\ \A d \in Claims : req'[d].state = "done" => req[d].state = "done"
    <3>1. PICK p \in Procs : SubmitCreate(p, c)
      BY <1>4
    <3>2. ~SaveRaises(c, Lifecycle!Fresh)
      BY <1>t, NoStoreFault
    <3> QED BY <3>1, <3>2, <1>t DEF SubmitCreate, TypeOK
  <2> QED BY <1>t, <1>u, <2>1 DEF Spent, Sent, InHand
<1> QED BY <1>1, <1>2, <1>3, <1>4

LEMMA SpentDequeue ==
  ASSUME CrashesSurvivable, BInv, NEW c \in Claims, NEW p \in Procs, Dequeue(p, c)
  PROVE  \A d \in Claims : Spent(d)' /\ Sent(d)'
<1>t. /\ TypeOK /\ Owned /\ WorkerHasClaim /\ msg[c].delivery \in Nat /\ faults["crash"] \in Nat
      /\ \A d \in Claims : Spent(d) /\ Sent(d)
  BY DEF BInv, AInv, CInv, TInv, TypeOK, Message, FaultKinds
<1>1. ~InHand(c) /\ worker[p].claim \notin Claims
  BY <1>t DEF Dequeue, Owned, Owns, LockValid, InHand, WorkerHasClaim, Busy, Processing, Failing,
     Acking
<1>2. msg[c].delivery <= faults["crash"]
  BY <1>1, <1>t DEF Dequeue, Spent
<1>3. /\ msg'[c].state = "locked" /\ msg'[c].delivery = msg[c].delivery + 1
      /\ \A d \in Claims : d # c => msg'[d] = msg[d]
      /\ UNCHANGED <<req, faults>>
  BY <1>t DEF Dequeue, Locked, TypeOK
<1>4. InHand(c)' /\ \A d \in Claims : d # c => (InHand(d)' <=> InHand(d))
  BY <1>1, <1>t DEF Dequeue, InHand, TypeOK, Bare
<1> QED BY <1>2, <1>3, <1>4, <1>t DEF Spent, Sent

\* A worker lets go of a claim that is settled, or crashes.
LEMMA SpentDrop ==
  ASSUME CrashesSurvivable, BInv, NEW p \in Procs, Ack(p) \/ Crash(p)
  PROVE  \A d \in Claims : Spent(d)' /\ Sent(d)'
<1> DEFINE c == worker[p].claim
<1>t. /\ TypeOK /\ Owned /\ WorkerHasClaim /\ NoLossFaults /\ faults["crash"] \in Nat
      /\ \A d \in Claims : Spent(d) /\ Sent(d) /\ msg[d].delivery \in Nat
  BY DEF CrashesSurvivable, BInv, AInv, CInv, TInv, TypeOK, Message, FaultKinds
<1>1. \A d \in Claims : d # c => (InHand(d)' <=> InHand(d))
  <2>1. PICK pc : worker' = [worker EXCEPT ![p] = Bare(pc)]
    BY DEF Ack, Crash
  <2> QED BY <2>1, <1>t, NoClaimAssumption DEF InHand, TypeOK, Bare
<1>2. CASE Ack(p)
  <2>1. c \in Claims /\ LockValid(p)
    BY <1>2, <1>t DEF Ack, WorkerHasClaim, Busy, Owned, Owns
  <2>2. msg' = [msg EXCEPT ![c].state = "settled"] /\ UNCHANGED <<req, faults>>
    BY <1>2, <2>1, <1>t, NoFault DEF Ack
  <2>3. /\ msg'[c].state = "settled"
        /\ \A d \in Claims : d # c => msg'[d] = msg[d]
    BY <2>1, <2>2, <1>t DEF TypeOK, Message
  <2> QED BY <2>2, <2>3, <1>1, <1>t DEF Spent, Sent
<1>3. CASE Crash(p)
  <2>1. /\ faults'["crash"] = faults["crash"] + 1
        /\ UNCHANGED msg
        /\ \A d \in Claims : req'[d].state = "done" => req[d].state = "done"
    BY <1>3, <1>t DEF Crash, Fault, TypeOK, FaultKinds
  <2>2. \A d \in Claims : msg[d].state # "settled" => msg[d].delivery <= faults["crash"] + 1
    BY <1>t DEF Spent
  <2> QED BY <2>1, <2>2, <1>t DEF Spent, Sent
<1> QED BY <1>2, <1>3

LEMMA SpentStep == CrashesSurvivable /\ BInv /\ [Next]_vars => BInv'
<1> SUFFICES ASSUME CrashesSurvivable, BInv, [Next]_vars PROVE BInv'
  OBVIOUS
<1>a. AInv'
  BY AckStep DEF CrashesSurvivable, BInv
<1>b. faults'["crash"] <= MaxFaults["crash"]
  BY FaultsGrow DEF BInv, AInv, CInv, FaultKinds
<1> SUFFICES \A c \in Claims : Spent(c)' /\ Sent(c)'
  BY <1>a, <1>b DEF BInv
<1>t. TypeOK /\ NoLossFaults
  BY DEF CrashesSurvivable, BInv, AInv, CInv, TInv
<1>f. ASSUME NEW p \in Procs PROVE ~WorkerFault(p) /\ ~Shutdown(p)
  BY <1>t, NoFault, NoStoreFault
  DEF WorkerFault, DequeueRaises, ProcessRaises, FailRaises, Shutdown
<1>1. CASE \E c \in Claims :
             \/ SubmitEnqueue(c) \/ LockReleased(c) \/ LockOverruns(c)
             \/ MessageExpires(c) \/ RecordExpires(c)
             \/ \E p \in Procs : SubmitCreate(p, c)
  BY <1>1, SpentBroker
<1>2. CASE \E c \in Claims, p \in Procs : Dequeue(p, c)
  BY <1>2, SpentDequeue
<1>3. CASE \E p \in Procs : Ack(p) \/ Crash(p)
  BY <1>3, SpentDrop
<1>4. CASE \E p \in Procs : (WorkerStep(p) /\ ~Ack(p)) \/ Restart(p)
  <2>1. UNCHANGED <<msg, req>>
    BY <1>4 DEF WorkerStep, Load, MarkProcessing, RunGraph, GraphRaises, SaveResult, FailLoad,
       FailSave, Restart
  <2>2. PICK p \in Procs : \E pc, r : Goto(p, pc) \/ Keep(p, pc, r)
    BY <1>4 DEF WorkerStep, Load, MarkProcessing, RunGraph, GraphRaises, SaveResult, FailLoad,
       FailSave, Restart
  <2>3. \A q \in Procs : worker'[q].claim = worker[q].claim
    BY <2>2, <1>t DEF Goto, Keep, TypeOK, Locals
  <2> QED BY <2>1, <2>3, NotSpent
<1>5. CASE \/ UNCHANGED vars
           \/ \E r \in Reviewers :
                DecisionSave(r) \/ \E p \in Procs, c \in Claims : DecisionLoad(r, p, c)
  BY <1>5, NotSpent DEF vars, DecisionSave, DecisionLoad
<1> QED BY <1>f, <1>1, <1>2, <1>3, <1>4, <1>5 DEF Next

\* While only crashes go wrong, and fewer than a message has deliveries, a
\* claim accepted with 202 is adjudicated or its message is still with the
\* broker: no crash at any step loses it.
THEOREM NotAbandoned == CrashesSurvivable => (Spec => []ClaimNotAbandoned)
<1> SUFFICES ASSUME CrashesSurvivable PROVE Spec => []ClaimNotAbandoned
  OBVIOUS
<1>1. Init => BInv
  <2> SUFFICES ASSUME Init PROVE \A c \in Claims : Spent(c) /\ Sent(c)
    BY AckInit, FaultsAssumption DEF BInv, Init, FaultKinds
  <2> QED BY DEF Init, Spent, Sent, FaultKinds
<1>2. BInv /\ [Next]_vars => BInv'
  BY SpentStep
<1>3. BInv => ClaimNotAbandoned
  BY DEF BInv, AInv, CInv, TInv, TypeOK, Message, Spent, Sent, AckMeansProcessed,
     ClaimNotAbandoned
<1> QED BY <1>1, <1>2, <1>3, PTL DEF Spec
=============================================================================
