------------------------- MODULE ClaimServiceProofs -------------------------
(* Theorems about ClaimService, for all sets of claims, processes and      *)
(* reviewers and all fault bounds unless a theorem says otherwise.         *)
EXTENDS ClaimService, TLAPS

Busy == Processing \cup Failing \cup Acking

\* A worker has a claim in hand exactly when it is working on a message.
WorkerHasClaim ==
  \A p \in Procs : worker[p].pc \in Busy <=> worker[p].claim \in Claims

\* A decision in flight is about a claim and runs on a process.
ReviewHasClaim ==
  \A r \in Reviewers :
    review[r] # NoReview => review[r].claim \in Claims /\ review[r].proc \in Procs

TInv == TypeOK /\ WorkerHasClaim /\ ReviewHasClaim

\* What a worker is about to save, by where it is.
SnapOK(w) ==
  /\ w.pc \in {"mark", "graph"} => w.snap.status = "processing"
  /\ w.pc = "save" => w.snap.status \in {"completed", "escalated"} /\ Coherent(w.snap)
  /\ w.pc = "fail_save" => w.snap.status = "error"

SnapsOK == \A p \in Procs : SnapOK(worker[p])

-----------------------------------------------------------------------------
(* Helpers *)

LEMMA RecordTypes ==
  /\ Lifecycle!Absent \in Lifecycle!Record
  /\ Lifecycle!Fresh \in Lifecycle!Record
  /\ \A r \in Lifecycle!Record :
       /\ [r EXCEPT !.status = "processing"] \in Lifecycle!Record
       /\ [r EXCEPT !.status = "error"] \in Lifecycle!Record
       /\ \A d \in Lifecycle!Dispositions : Lifecycle!Concluded(r, d) \in Lifecycle!Record
       /\ \A v \in Lifecycle!Verdicts : Lifecycle!Adjudicated(r, v) \in Lifecycle!Record
  BY ZenonT(30) DEF Lifecycle!Record, Lifecycle!Absent, Lifecycle!Fresh, Lifecycle!Statuses,
         Lifecycle!Dispositions, Lifecycle!Verdicts, Lifecycle!Concluded,
         Lifecycle!Adjudicated

\* A counted fault keeps the counters natural numbers.
LEMMA FaultType ==
  ASSUME TypeOK, NEW k \in FaultKinds, Fault(k)
  PROVE  faults' \in [FaultKinds -> Nat]
  BY DEF Fault, TypeOK

\* A save by process p, done or failed, keeps records and indexes well typed.
LEMMA SaveType ==
  ASSUME TypeOK, NEW p \in Procs, NEW c \in Claims, NEW r \in Lifecycle!Record,
         Save(p, c, r) \/ SaveRaises(c, r)
  PROVE  /\ record' \in [Claims -> Lifecycle!Record]
         /\ ids' \in [Procs -> SUBSET Claims]
  BY DEF Save, SaveRaises, TypeOK

LEMMA SaveFaultType ==
  ASSUME TypeOK, NEW c, NEW r, SaveRaises(c, r) \/ LoadRaises
  PROVE  faults' \in [FaultKinds -> Nat]
  BY FaultType DEF SaveRaises, LoadRaises, FaultKinds

LEMMA TypeInit == Init => TInv
<1> SUFFICES ASSUME Init PROVE TInv
  OBVIOUS
<1>1. worker \in [Procs -> Locals] /\ WorkerHasClaim
  BY RecordTypes, NoClaimAssumption
  DEF Init, Locals, Bare, WorkerPc, WorkerHasClaim, Busy, Processing, Failing, Acking
<1>2. review \in [Reviewers -> Review] /\ ReviewHasClaim
  BY RecordTypes DEF Init, NoReview, Review, ReviewHasClaim
<1>3. record \in [Claims -> Lifecycle!Record]
  BY RecordTypes DEF Init
<1>4. msg \in [Claims -> Message] /\ req \in [Claims -> Request]
  BY DEF Init, Message, Request
<1>5. /\ ids \in [Procs -> SUBSET Claims]
      /\ verdicts \in [Claims -> SUBSET Lifecycle!Verdicts]
      /\ faults \in [FaultKinds -> Nat]
  BY DEF Init
<1> QED BY <1>1, <1>2, <1>3, <1>4, <1>5 DEF TInv, TypeOK

\* Requests and the broker leave the workers alone.
LEMMA TypeSubmit ==
  ASSUME TInv, NEW c \in Claims,
         \/ SubmitEnqueue(c) \/ LockReleased(c) \/ LockOverruns(c)
         \/ MessageExpires(c) \/ RecordExpires(c)
  PROVE  TInv'
<1>1. CASE SubmitEnqueue(c)
  <2>1. msg' \in {msg, [msg EXCEPT ![c].state = "ready"]}
    BY <1>1 DEF SubmitEnqueue
  <2>2. msg' \in [Claims -> Message]
    BY <2>1 DEF TInv, TypeOK, Message
  <2>3. req' \in [Claims -> Request]
    BY <1>1 DEF SubmitEnqueue, TInv, TypeOK, Request
  <2>4. faults' \in [FaultKinds -> Nat]
    BY <1>1, FaultType DEF SubmitEnqueue, TInv, TypeOK, FaultKinds
  <2> QED BY <1>1, <2>2, <2>3, <2>4
          DEF SubmitEnqueue, TInv, TypeOK, WorkerHasClaim, ReviewHasClaim
<1>2. CASE LockReleased(c)
  BY <1>2 DEF LockReleased, Unlocked, TInv, TypeOK, WorkerHasClaim, ReviewHasClaim, Message
<1>3. CASE LockOverruns(c)
  BY <1>3, FaultType DEF LockOverruns, Unlocked, TInv, TypeOK, WorkerHasClaim,
     ReviewHasClaim, Message, FaultKinds
<1>4. CASE MessageExpires(c)
  BY <1>4, FaultType DEF MessageExpires, TInv, TypeOK, WorkerHasClaim, ReviewHasClaim,
     Message, FaultKinds
<1>5. CASE RecordExpires(c)
  BY <1>5, FaultType, RecordTypes DEF RecordExpires, TInv, TypeOK, WorkerHasClaim,
     ReviewHasClaim, FaultKinds
<1> QED BY <1>1, <1>2, <1>3, <1>4, <1>5

LEMMA TypeCreate ==
  ASSUME TInv, NEW c \in Claims, NEW p \in Procs, SubmitCreate(p, c)
  PROVE  TInv'
<1>1. /\ record' \in [Claims -> Lifecycle!Record]
      /\ ids' \in [Procs -> SUBSET Claims]
  BY SaveType, RecordTypes DEF SubmitCreate, TInv
<1>2. faults' \in [FaultKinds -> Nat]
  BY SaveFaultType DEF SubmitCreate, TInv, TypeOK
<1>3. req' \in [Claims -> Request]
  BY SMTT(20) DEF SubmitCreate, TInv, TypeOK, Request
<1> QED BY <1>1, <1>2, <1>3 DEF SubmitCreate, TInv, TypeOK, WorkerHasClaim, ReviewHasClaim

\* The shape of worker' for each of the ways a worker moves on.
LEMMA WorkerMoves ==
  ASSUME TInv, NEW p \in Procs, NEW pc \in WorkerPc, NEW r \in Lifecycle!Record,
         Goto(p, pc) \/ Keep(p, pc, r),
         worker[p].pc \in Busy <=> pc \in Busy
  PROVE  worker' \in [Procs -> Locals] /\ WorkerHasClaim'
<1>1. worker[p] \in Locals
  BY DEF TInv, TypeOK
<1>2. worker' \in [Procs -> Locals]
  <2>1. CASE Goto(p, pc)
    BY <2>1, <1>1 DEF Goto, TInv, TypeOK, Locals
  <2>2. CASE Keep(p, pc, r)
    BY <2>2, <1>1 DEF Keep, TInv, TypeOK, Locals
  <2> QED BY <2>1, <2>2
<1>3. /\ worker'[p].pc = pc /\ worker'[p].claim = worker[p].claim
      /\ \A q \in Procs : q # p => worker'[q] = worker[q]
  BY <1>1 DEF Goto, Keep, TInv, TypeOK, Locals
<1>4. WorkerHasClaim'
  BY <1>3 DEF TInv, WorkerHasClaim, Busy, Processing, Failing, Acking
<1> QED BY <1>2, <1>4

LEMMA WorkerDrops ==
  ASSUME TInv, NEW p \in Procs, NEW pc \in {"idle", "dead", "down"},
         worker' = [worker EXCEPT ![p] = Bare(pc)]
  PROVE  worker' \in [Procs -> Locals] /\ WorkerHasClaim'
  BY RecordTypes, NoClaimAssumption
  DEF Bare, TInv, TypeOK, Locals, WorkerHasClaim, WorkerPc, Busy, Processing, Failing, Acking

LEMMA TypeDequeue ==
  ASSUME TInv, NEW p \in Procs, NEW c \in Claims, Dequeue(p, c)
  PROVE  TInv'
<1>1. msg' \in [Claims -> Message] /\ msg[c].delivery + 1 \in Nat
  BY DEF Dequeue, Locked, TInv, TypeOK, Message
<1>2. /\ worker'[p] = [pc |-> "load", claim |-> c, lock |-> msg[c].delivery + 1,
                       snap |-> Lifecycle!Absent]
      /\ worker' = [worker EXCEPT ![p] = worker'[p]]
  BY DEF Dequeue, Bare, TInv, TypeOK
<1>3. worker' \in [Procs -> Locals]
  <2>1. worker'[p] \in Locals
    BY <1>1, <1>2, RecordTypes DEF Locals, WorkerPc, Processing
  <2>2. worker \in [Procs -> Locals]
    BY DEF TInv, TypeOK
  <2> QED BY <1>2, <2>1, <2>2
<1>4. WorkerHasClaim'
  BY <1>2 DEF TInv, TypeOK, WorkerHasClaim, Busy, Processing
<1> QED BY <1>1, <1>3, <1>4 DEF Dequeue, TInv, TypeOK, ReviewHasClaim

LEMMA TypeDequeueRaises ==
  ASSUME TInv, NEW p \in Procs, DequeueRaises(p)
  PROVE  TInv'
<1>1. worker' \in [Procs -> Locals] /\ WorkerHasClaim'
  <2>1. worker[p].pc = "idle" /\ Goto(p, "dead")
    BY DEF DequeueRaises
  <2>2. "idle" \notin Busy /\ "dead" \notin Busy /\ "dead" \in WorkerPc
    BY DEF WorkerPc, Busy, Processing, Failing, Acking
  <2>3. Lifecycle!Absent \in Lifecycle!Record
    BY RecordTypes
  <2> QED BY <2>1, <2>2, <2>3, WorkerMoves
<1>2. faults' \in [FaultKinds -> Nat]
  BY FaultType DEF DequeueRaises, TInv, FaultKinds
<1>3. msg' \in [Claims -> Message]
  BY DEF DequeueRaises, Locked, TInv, TypeOK, Message
<1> QED BY <1>1, <1>2, <1>3 DEF DequeueRaises, TInv, TypeOK, ReviewHasClaim

\* Steps of run_worker that only move the worker or load a record.
LEMMA TypeCompute ==
  ASSUME TInv, NEW p \in Procs,
         Load(p) \/ FailLoad(p) \/ RunGraph(p) \/ GraphRaises(p)
  PROVE  TInv'
<1>1. worker[p].pc \in Busy /\ worker[p].claim \in Claims
      /\ worker[p].snap \in Lifecycle!Record
  BY DEF Load, FailLoad, RunGraph, GraphRaises, TInv, TypeOK, WorkerHasClaim, Locals,
         Busy, Processing, Failing
<1>2. PICK pc \in {"ack", "mark", "fail_save", "save", "fail_load"},
           r \in Lifecycle!Record : Goto(p, pc) \/ Keep(p, pc, r)
  <2>1. record[worker[p].claim] \in Lifecycle!Record
    BY <1>1 DEF TInv, TypeOK
  <2>2. CASE Load(p)
    BY <2>1, <2>2, RecordTypes DEF Load
  <2>3. CASE FailLoad(p)
    BY <2>1, <2>3, RecordTypes DEF FailLoad
  <2>4. CASE RunGraph(p)
    BY <1>1, <2>4, RecordTypes DEF RunGraph, GraphDispositions, Lifecycle!Dispositions
  <2>5. CASE GraphRaises(p)
    BY <2>5, RecordTypes DEF GraphRaises
  <2> QED BY <2>2, <2>3, <2>4, <2>5
<1>3. pc \in WorkerPc /\ pc \in Busy
  BY DEF WorkerPc, Busy, Processing, Failing, Acking
<1>4. worker' \in [Procs -> Locals] /\ WorkerHasClaim'
  BY <1>1, <1>2, <1>3, WorkerMoves
<1>5. UNCHANGED <<record, msg, req, ids, review, verdicts, faults>>
  BY DEF Load, FailLoad, RunGraph, GraphRaises
<1> QED BY <1>4, <1>5 DEF TInv, TypeOK, ReviewHasClaim

\* Steps of run_worker that call the store, whether the call succeeds or not.
LEMMA TypeStore ==
  ASSUME TInv, NEW p \in Procs,
         MarkProcessing(p) \/ SaveResult(p) \/ FailSave(p)
           \/ ProcessRaises(p) \/ FailRaises(p)
  PROVE  TInv'
<1>1. worker[p].pc \in Busy /\ worker[p].claim \in Claims
      /\ worker[p].snap \in Lifecycle!Record
  BY DEF MarkProcessing, SaveResult, FailSave, ProcessRaises, FailRaises, TInv, TypeOK,
         WorkerHasClaim, Locals, Busy, Processing, Failing
<1>2. /\ record' \in [Claims -> Lifecycle!Record]
      /\ ids' \in [Procs -> SUBSET Claims]
  <2>1. CASE Save(p, worker[p].claim, worker[p].snap)
             \/ SaveRaises(worker[p].claim, worker[p].snap)
    BY <1>1, <2>1, SaveType DEF TInv
  <2>2. CASE LoadRaises
    BY <2>2 DEF LoadRaises, TInv, TypeOK
  <2> QED BY <2>1, <2>2 DEF MarkProcessing, SaveResult, FailSave, ProcessRaises, FailRaises
<1>3. faults' \in [FaultKinds -> Nat]
  BY SaveFaultType
  DEF MarkProcessing, SaveResult, FailSave, ProcessRaises, FailRaises, TInv, TypeOK
<1>4. PICK pc \in {"graph", "ack", "fail_load", "ack_raise"} : Goto(p, pc)
  BY DEF MarkProcessing, SaveResult, FailSave, ProcessRaises, FailRaises
<1>5. worker' \in [Procs -> Locals] /\ WorkerHasClaim'
  <2>1. pc \in WorkerPc /\ pc \in Busy
    BY DEF WorkerPc, Busy, Processing, Failing, Acking
  <2> QED BY <1>1, <1>4, <2>1, WorkerMoves
<1>6. UNCHANGED <<msg, req, review, verdicts>>
  BY DEF MarkProcessing, SaveResult, FailSave, ProcessRaises, FailRaises
<1> QED BY <1>2, <1>3, <1>5, <1>6 DEF TInv, TypeOK, ReviewHasClaim

LEMMA TypeAck ==
  ASSUME TInv, NEW p \in Procs, Ack(p)
  PROVE  TInv'
<1>1. worker' \in [Procs -> Locals] /\ WorkerHasClaim'
  <2>1. AfterAck(worker[p].pc) \in {"idle", "dead", "down"}
    BY DEF Ack, Acking, AfterAck
  <2> QED BY <2>1, WorkerDrops DEF Ack
<1>2. msg' \in [Claims -> Message]
  BY DEF Ack, TInv, TypeOK, Message
<1>3. faults' \in [FaultKinds -> Nat]
  BY FaultType DEF Ack, TInv, TypeOK, FaultKinds
<1> QED BY <1>1, <1>2, <1>3 DEF Ack, TInv, TypeOK, ReviewHasClaim

LEMMA TypeProcess ==
  ASSUME TInv, NEW p \in Procs, Shutdown(p) \/ Crash(p) \/ Restart(p)
  PROVE  TInv'
<1>1. CASE Shutdown(p)
  <2>1. worker' \in [Procs -> Locals] /\ WorkerHasClaim'
    <3>1. CASE worker[p].pc \in Processing \cup Failing
      BY <1>1, <3>1, WorkerMoves, RecordTypes
      DEF Shutdown, WorkerPc, Busy, Acking
    <3>2. CASE worker[p].pc \notin Processing \cup Failing
      BY <1>1, <3>2, WorkerDrops DEF Shutdown
    <3> QED BY <3>1, <3>2
  <2>2. faults' \in [FaultKinds -> Nat]
    BY <1>1, FaultType DEF Shutdown, TInv, FaultKinds
  <2> QED BY <1>1, <2>1, <2>2 DEF Shutdown, TInv, TypeOK, ReviewHasClaim
<1>2. CASE Crash(p)
  <2>1. worker' \in [Procs -> Locals] /\ WorkerHasClaim'
    BY <1>2, WorkerDrops DEF Crash
  <2>2. faults' \in [FaultKinds -> Nat]
    BY <1>2, FaultType DEF Crash, TInv, FaultKinds
  <2>3. req' \in [Claims -> Request]
    BY <1>2 DEF Crash, TInv, TypeOK, Request
  <2>4. review' \in [Reviewers -> Review] /\ ReviewHasClaim'
    <3>1. NoReview \in Review
      BY RecordTypes DEF NoReview, Review
    <3> QED BY <1>2, <3>1 DEF Crash, TInv, TypeOK, ReviewHasClaim
  <2> QED BY <1>2, <2>1, <2>2, <2>3, <2>4 DEF Crash, TInv, TypeOK
<1>3. CASE Restart(p)
  <2>1. worker' \in [Procs -> Locals] /\ WorkerHasClaim'
    BY <1>3, WorkerMoves, RecordTypes
    DEF Restart, WorkerPc, Busy, Processing, Failing, Acking
  <2> QED BY <1>3, <2>1 DEF Restart, TInv, TypeOK, ReviewHasClaim
<1> QED BY <1>1, <1>2, <1>3

LEMMA TypeReview ==
  ASSUME TInv, NEW r \in Reviewers,
         DecisionSave(r) \/ \E p \in Procs, c \in Claims : DecisionLoad(r, p, c)
  PROVE  TInv'
<1>1. CASE DecisionSave(r)
  <2>1. /\ review[r].claim \in Claims /\ review[r].proc \in Procs
        /\ review[r].snap \in Lifecycle!Record
    BY <1>1 DEF DecisionSave, TInv, TypeOK, ReviewHasClaim, Review
  <2>2. PICK v \in Lifecycle!Verdicts :
          LET c == review[r].claim
              decided == Lifecycle!Adjudicated(review[r].snap, v)
          IN  \/ /\ Save(review[r].proc, c, decided)
                 /\ verdicts' = [verdicts EXCEPT ![c] = @ \cup {v}]
                 /\ UNCHANGED faults
              \/ SaveRaises(c, decided) /\ UNCHANGED verdicts
    BY <1>1 DEF DecisionSave
  <2>3. Lifecycle!Adjudicated(review[r].snap, v) \in Lifecycle!Record
    BY <2>1, RecordTypes
  <2>4. /\ record' \in [Claims -> Lifecycle!Record]
        /\ ids' \in [Procs -> SUBSET Claims]
    BY <2>1, <2>2, <2>3, SaveType DEF TInv
  <2>5. faults' \in [FaultKinds -> Nat]
    BY <2>2, SaveFaultType DEF TInv, TypeOK
  <2>6. verdicts' \in [Claims -> SUBSET Lifecycle!Verdicts]
    BY <2>2 DEF TInv, TypeOK
  <2>7. review' \in [Reviewers -> Review] /\ ReviewHasClaim'
    <3>1. NoReview \in Review
      BY RecordTypes DEF NoReview, Review
    <3> QED BY <1>1, <3>1 DEF DecisionSave, TInv, TypeOK, ReviewHasClaim
  <2> QED BY <1>1, <2>4, <2>5, <2>6, <2>7
          DEF DecisionSave, TInv, TypeOK, WorkerHasClaim
<1>2. ASSUME NEW p \in Procs, NEW c \in Claims, DecisionLoad(r, p, c)
      PROVE  TInv'
  <2>1. [claim |-> c, proc |-> p, snap |-> record[c]] \in Review
    BY DEF TInv, TypeOK, Review
  <2>2. review' \in [Reviewers -> Review] /\ ReviewHasClaim'
    BY <1>2, <2>1 DEF DecisionLoad, TInv, TypeOK, ReviewHasClaim
  <2> QED BY <1>2, <2>2 DEF DecisionLoad, TInv, TypeOK, WorkerHasClaim
<1> QED BY <1>1, <1>2

LEMMA TypeStep == TInv /\ [Next]_vars => TInv'
<1> SUFFICES ASSUME TInv, [Next]_vars PROVE TInv'
  OBVIOUS
<1>1. CASE UNCHANGED vars
  BY <1>1 DEF vars, TInv, TypeOK, WorkerHasClaim, ReviewHasClaim
<1>2. ASSUME NEW c \in Claims,
             \/ SubmitEnqueue(c) \/ LockReleased(c) \/ LockOverruns(c)
             \/ MessageExpires(c) \/ RecordExpires(c)
             \/ \E p \in Procs : SubmitCreate(p, c) \/ Dequeue(p, c)
      PROVE  TInv'
  BY <1>2, TypeSubmit, TypeCreate, TypeDequeue
<1>3. ASSUME NEW p \in Procs, WorkerStep(p)
      PROVE  TInv'
  BY <1>3, TypeCompute, TypeStore, TypeAck DEF WorkerStep
<1>4. ASSUME NEW p \in Procs, WorkerFault(p)
      PROVE  TInv'
  BY <1>4, TypeDequeueRaises, TypeStore DEF WorkerFault
<1>5. ASSUME NEW p \in Procs, Shutdown(p) \/ Crash(p) \/ Restart(p)
      PROVE  TInv'
  BY <1>5, TypeProcess
<1>6. ASSUME NEW r \in Reviewers,
             DecisionSave(r) \/ \E p \in Procs, c \in Claims : DecisionLoad(r, p, c)
      PROVE  TInv'
  BY <1>6, TypeReview
<1> QED BY <1>1, <1>2, <1>3, <1>4, <1>5, <1>6 DEF Next

\* The state stays well typed, and a worker or a decision in flight always
\* has its claim in hand, whatever faults occur and however many.
THEOREM TypeCorrect == Spec => []TypeOK
<1>1. TInv => TypeOK
  BY DEF TInv
<1> QED BY <1>1, TypeInit, TypeStep, PTL DEF Spec

-----------------------------------------------------------------------------
(* Status and disposition.  Stale snapshots are written over newer records, *)
(* so coherence of the records needs coherence of every snapshot a worker   *)
(* may yet save.                                                            *)

CInv == TInv /\ StatusMatchesDisposition /\ SnapsOK

\* The records that are ever written are coherent.
LEMMA WrittenCoherent ==
  /\ Coherent(Lifecycle!Fresh)
  /\ \A r \in Lifecycle!Record :
       /\ r.status \in {"processing", "error"} => Coherent(r)
       /\ \A v \in Lifecycle!Verdicts : Coherent(Lifecycle!Adjudicated(r, v))
       /\ \A d \in Lifecycle!Dispositions :
            /\ Coherent(Lifecycle!Concluded(r, d))
            /\ Lifecycle!Concluded(r, d).status \in {"completed", "escalated"}
  BY DEF Coherent, Lifecycle!Fresh, Lifecycle!Record, Lifecycle!Verdicts,
         Lifecycle!Adjudicated, Lifecycle!Dispositions, Lifecycle!Concluded

LEMMA SaveCoherent ==
  ASSUME TypeOK, StatusMatchesDisposition, NEW p, NEW c \in Claims, NEW r, Coherent(r),
         Save(p, c, r) \/ SaveRaises(c, r)
  PROVE  StatusMatchesDisposition'
  BY DEF TypeOK, StatusMatchesDisposition, Save, SaveRaises, Coherent

\* A worker that moves on keeps the others' snapshots, and its own one fits.
LEMMA MoveSnaps ==
  ASSUME TInv, SnapsOK, NEW p \in Procs, NEW w,
         worker' = [worker EXCEPT ![p] = w], SnapOK(w)
  PROVE  SnapsOK'
  BY DEF TInv, TypeOK, SnapsOK, SnapOK

LEMMA GotoSnaps ==
  ASSUME TInv, SnapsOK, NEW p \in Procs, NEW pc, Goto(p, pc),
         pc \notin {"mark", "save", "fail_save"},
         pc = "graph" => worker[p].pc = "mark"
  PROVE  SnapsOK'
<1>1. worker' = [worker EXCEPT ![p] = [worker[p] EXCEPT !.pc = pc]]
  BY DEF Goto, TInv, TypeOK
<1>2. SnapOK([worker[p] EXCEPT !.pc = pc])
  BY DEF TInv, TypeOK, Locals, SnapsOK, SnapOK
<1> QED BY <1>1, <1>2, MoveSnaps

LEMMA KeepSnaps ==
  ASSUME TInv, SnapsOK, NEW p \in Procs, NEW pc, NEW r, Keep(p, pc, r),
         pc \in {"mark", "graph"} => r.status = "processing",
         pc = "save" => r.status \in {"completed", "escalated"} /\ Coherent(r),
         pc = "fail_save" => r.status = "error"
  PROVE  SnapsOK'
<1> DEFINE w == [worker[p] EXCEPT !.pc = pc, !.snap = r]
<1>1. worker[p] \in Locals
  BY DEF TInv, TypeOK
<1>2. worker' = [worker EXCEPT ![p] = w]
  BY <1>1 DEF Keep, TInv, TypeOK
<1>3. w.pc = pc /\ w.snap = r
  BY <1>1 DEF Locals
<1>4. SnapOK(w)
  BY <1>3 DEF SnapOK
<1> QED BY <1>2, <1>4, MoveSnaps

LEMMA CoherentInit == Init => CInv
  BY TypeInit DEF Init, CInv, StatusMatchesDisposition, Coherent, Lifecycle!Absent,
     SnapsOK, SnapOK, Bare

\* The steps of a worker.
LEMMA CoherentWorker ==
  ASSUME CInv, NEW p \in Procs, WorkerStep(p) \/ WorkerFault(p)
  PROVE  StatusMatchesDisposition' /\ SnapsOK'
<1>t. /\ TInv /\ TypeOK /\ SnapsOK /\ StatusMatchesDisposition
      /\ worker[p].snap \in Lifecycle!Record
  BY DEF CInv, TInv, TypeOK, Locals
<1>s. SnapOK(worker[p])
  BY <1>t DEF SnapsOK
<1>b. worker[p].pc \in Busy => /\ worker[p].claim \in Claims
                              /\ record[worker[p].claim] \in Lifecycle!Record
  BY <1>t DEF TInv, TypeOK, WorkerHasClaim
<1>u. ASSUME UNCHANGED record PROVE StatusMatchesDisposition'
  BY <1>t, <1>u DEF StatusMatchesDisposition
<1>1. CASE Load(p)
  <2>1. [record[worker[p].claim] EXCEPT !.status = "processing"].status = "processing"
    BY <1>1, <1>b DEF Load, Busy, Processing, Lifecycle!Record
  <2> QED BY <1>1, <1>t, <1>u, <2>1, GotoSnaps, KeepSnaps DEF Load
<1>2. CASE MarkProcessing(p)
  <2>1. Coherent(worker[p].snap)
    BY <1>2, <1>t, <1>s, WrittenCoherent DEF MarkProcessing, SnapOK
  <2> QED BY <1>2, <1>t, <1>b, <2>1, SaveCoherent, GotoSnaps
          DEF MarkProcessing, Busy, Processing
<1>3. CASE RunGraph(p)
  <2>1. PICK d \in Lifecycle!Dispositions :
          Keep(p, "save", Lifecycle!Concluded(worker[p].snap, d))
    BY <1>3 DEF RunGraph, GraphDispositions, Lifecycle!Dispositions
  <2> QED BY <1>3, <1>t, <1>u, <2>1, WrittenCoherent, KeepSnaps DEF RunGraph
<1>4. CASE GraphRaises(p)
  BY <1>4, <1>t, <1>u, GotoSnaps DEF GraphRaises
<1>5. CASE SaveResult(p)
  BY <1>5, <1>t, <1>b, <1>s, SaveCoherent, GotoSnaps
  DEF SaveResult, Busy, Processing, SnapOK
<1>6. CASE FailLoad(p)
  <2>1. [record[worker[p].claim] EXCEPT !.status = "error"].status = "error"
    BY <1>6, <1>b DEF FailLoad, Busy, Failing, Lifecycle!Record
  <2> QED BY <1>6, <1>t, <1>u, <2>1, GotoSnaps, KeepSnaps DEF FailLoad
<1>7. CASE FailSave(p)
  <2>1. Coherent(worker[p].snap)
    BY <1>7, <1>t, <1>s, WrittenCoherent DEF FailSave, SnapOK
  <2> QED BY <1>7, <1>t, <1>b, <2>1, SaveCoherent, GotoSnaps DEF FailSave, Busy, Failing
<1>8. CASE Ack(p)
  <2>1. SnapOK(Bare(AfterAck(worker[p].pc)))
    BY <1>8 DEF Ack, Acking, AfterAck, Bare, SnapOK
  <2> QED BY <1>8, <1>t, <1>u, <2>1, MoveSnaps DEF Ack
<1>9. CASE DequeueRaises(p)
  BY <1>9, <1>t, <1>u, GotoSnaps DEF DequeueRaises
<1>10. CASE ProcessRaises(p)
  <2>1. worker[p].pc \in {"mark", "save"} => Coherent(worker[p].snap)
    BY <1>t, <1>s, WrittenCoherent DEF SnapOK
  <2>2. StatusMatchesDisposition'
    BY <1>10, <1>t, <1>b, <1>u, <2>1, SaveCoherent
    DEF ProcessRaises, LoadRaises, Busy, Processing
  <2> QED BY <1>10, <1>t, <2>2, GotoSnaps DEF ProcessRaises
<1>11. CASE FailRaises(p)
  <2>1. worker[p].pc = "fail_save" => Coherent(worker[p].snap)
    BY <1>t, <1>s, WrittenCoherent DEF SnapOK
  <2>2. StatusMatchesDisposition'
    BY <1>11, <1>t, <1>b, <1>u, <2>1, SaveCoherent
    DEF FailRaises, LoadRaises, Busy, Failing
  <2> QED BY <1>11, <1>t, <2>2, GotoSnaps DEF FailRaises
<1> QED BY <1>1, <1>2, <1>3, <1>4, <1>5, <1>6, <1>7, <1>8, <1>9, <1>10, <1>11
        DEF WorkerStep, WorkerFault

LEMMA CoherentStep == CInv /\ [Next]_vars => CInv'
<1> SUFFICES ASSUME CInv, [Next]_vars PROVE StatusMatchesDisposition' /\ SnapsOK'
  BY TypeStep DEF CInv
<1>t. TInv /\ TypeOK /\ SnapsOK /\ StatusMatchesDisposition
  BY DEF CInv, TInv
<1>u. ASSUME UNCHANGED record PROVE StatusMatchesDisposition'
  BY <1>t, <1>u DEF StatusMatchesDisposition
<1>w. ASSUME UNCHANGED worker PROVE SnapsOK'
  BY <1>t, <1>w DEF SnapsOK
<1>1. CASE UNCHANGED vars
  BY <1>1, <1>u, <1>w DEF vars
<1>2. ASSUME NEW c \in Claims,
             SubmitEnqueue(c) \/ LockReleased(c) \/ LockOverruns(c) \/ MessageExpires(c)
      PROVE  StatusMatchesDisposition' /\ SnapsOK'
  BY <1>2, <1>u, <1>w DEF SubmitEnqueue, LockReleased, LockOverruns, MessageExpires
<1>3. ASSUME NEW c \in Claims, NEW p \in Procs, SubmitCreate(p, c)
      PROVE  StatusMatchesDisposition' /\ SnapsOK'
  <2>1. StatusMatchesDisposition'
    BY <1>3, <1>t, SaveCoherent, WrittenCoherent DEF SubmitCreate
  <2> QED BY <1>3, <1>w, <2>1 DEF SubmitCreate
<1>4. ASSUME NEW c \in Claims, NEW p \in Procs, Dequeue(p, c)
      PROVE  StatusMatchesDisposition' /\ SnapsOK'
  <2> DEFINE w == [Bare("load") EXCEPT !.claim = c, !.lock = msg[c].delivery + 1]
  <2>1. SnapOK(w)
    BY DEF SnapOK, Bare
  <2> QED BY <1>4, <1>t, <1>u, <2>1, MoveSnaps DEF Dequeue
<1>5. ASSUME NEW p \in Procs, WorkerStep(p) \/ WorkerFault(p)
      PROVE  StatusMatchesDisposition' /\ SnapsOK'
  BY <1>5, CoherentWorker
<1>6. ASSUME NEW p \in Procs, Shutdown(p) \/ Crash(p) \/ Restart(p)
      PROVE  StatusMatchesDisposition' /\ SnapsOK'
  <2>1. UNCHANGED record
    BY <1>6 DEF Shutdown, Crash, Restart
  <2>2. \/ \E pc \in {"ack_cancel", "idle"} : Goto(p, pc)
        \/ worker' = [worker EXCEPT ![p] = Bare("down")]
    BY <1>6 DEF Shutdown, Crash, Restart
  <2>3. SnapOK(Bare("down"))
    BY DEF SnapOK, Bare
  <2> QED BY <1>t, <1>u, <2>1, <2>2, <2>3, GotoSnaps, MoveSnaps
<1>7. ASSUME NEW r \in Reviewers, DecisionSave(r)
      PROVE  StatusMatchesDisposition' /\ SnapsOK'
  <2>1. review[r].claim \in Claims /\ review[r].snap \in Lifecycle!Record
    BY <1>7, <1>t DEF DecisionSave, TInv, TypeOK, ReviewHasClaim, Review
  <2>2. PICK v \in Lifecycle!Verdicts :
          LET decided == Lifecycle!Adjudicated(review[r].snap, v)
          IN  \/ Save(review[r].proc, review[r].claim, decided)
              \/ SaveRaises(review[r].claim, decided)
    BY <1>7 DEF DecisionSave
  <2>3. StatusMatchesDisposition'
    BY <1>t, <2>1, <2>2, SaveCoherent, WrittenCoherent
  <2> QED BY <1>7, <1>w, <2>3 DEF DecisionSave
<1>8. ASSUME NEW r \in Reviewers, NEW p \in Procs, NEW c \in Claims, DecisionLoad(r, p, c)
      PROVE  StatusMatchesDisposition' /\ SnapsOK'
  BY <1>8, <1>u, <1>w DEF DecisionLoad
<1>9. ASSUME NEW c \in Claims, RecordExpires(c)
      PROVE  StatusMatchesDisposition' /\ SnapsOK'
  <2>1. Coherent(Lifecycle!Absent)
    BY DEF Coherent, Lifecycle!Absent
  <2>2. StatusMatchesDisposition'
    BY <1>9, <1>t, <2>1 DEF RecordExpires, StatusMatchesDisposition, TypeOK, Coherent
  <2> QED BY <1>9, <1>w, <2>2 DEF RecordExpires
<1> QED BY <1>1, <1>2, <1>3, <1>4, <1>5, <1>6, <1>7, <1>8, <1>9 DEF Next

\* Whatever goes wrong between API, broker, store, workers and reviewers, no
\* record is ever "completed" without an approval or a denial, nor "escalated"
\* with anything but the disposition "escalated".
THEOREM AlwaysCoherent == Spec => []StatusMatchesDisposition
<1>1. CInv => StatusMatchesDisposition
  BY DEF CInv
<1> QED BY <1>1, CoherentInit, CoherentStep, PTL DEF Spec

-----------------------------------------------------------------------------
(* When only crashes and expiries in the queue can go wrong, a message is   *)
(* acked only once its claim is adjudicated.  The argument is ownership: a  *)
(* worker that has a claim in hand holds the valid lock on its message, so  *)
(* it is the only one, and nobody else moves the record back.               *)

NoLossFaults ==
  \A k \in {"io", "lost_reply", "cancel", "overrun", "expiry"} : MaxFaults[k] = 0

Owns(p) == worker[p].claim \in Claims => LockValid(p)

AtAck(p) == worker[p].pc = "ack" => Terminal(record[worker[p].claim])

NoOddAck(p) == worker[p].pc \notin {"ack_raise", "ack_cancel"}

Unshared ==
  \A p, q \in Procs :
    worker[p].claim \in Claims /\ worker[p].claim = worker[q].claim => p = q

\* A request still to come has no message; a message has a record.
Submitted(c) ==
  /\ req[c].state = "new" => msg[c].state = "none"
  /\ req[c].state = "created" => msg[c].state = "none" /\ record[c].status # "absent"
  /\ msg[c].state # "none" => record[c].status # "absent"

Owned == /\ Unshared
         /\ \A p \in Procs : Owns(p) /\ AtAck(p) /\ NoOddAck(p)
         /\ \A c \in Claims : Submitted(c)

AInv == CInv /\ Owned /\ AckMeansProcessed

LEMMA NoFault ==
  ASSUME NoLossFaults, TypeOK, NEW k \in {"io", "lost_reply", "cancel", "overrun", "expiry"}
  PROVE  ~Fault(k)
<1>1. faults[k] \in Nat /\ MaxFaults[k] = 0
  BY DEF NoLossFaults, TypeOK, FaultKinds
<1> QED BY <1>1 DEF Fault

\* Then a store call succeeds.
LEMMA NoStoreFault ==
  ASSUME NoLossFaults, TypeOK, NEW c, NEW r
  PROVE  ~SaveRaises(c, r) /\ ~LoadRaises
  BY NoFault DEF SaveRaises, LoadRaises

LEMMA AckInit == Init => AInv
<1> SUFFICES ASSUME Init PROVE Owned /\ AckMeansProcessed
  BY CoherentInit DEF AInv
<1>1. \A p \in Procs : worker[p].claim = NoClaim /\ worker[p].pc = "idle"
  BY DEF Init, Bare
<1>2. Unshared /\ \A p \in Procs : Owns(p) /\ AtAck(p) /\ NoOddAck(p)
  BY <1>1, NoClaimAssumption DEF Unshared, Owns, AtAck, NoOddAck
<1> QED BY <1>2 DEF Init, Owned, Submitted, AckMeansProcessed

\* The broker and the requests: no message that someone holds is touched.
LEMMA AckBroker ==
  ASSUME NoLossFaults, AInv, NEW c \in Claims,
         \/ SubmitEnqueue(c) \/ LockReleased(c) \/ LockOverruns(c)
         \/ MessageExpires(c) \/ RecordExpires(c)
         \/ \E p \in Procs : SubmitCreate(p, c)
  PROVE  Owned' /\ AckMeansProcessed'
<1>t. TypeOK /\ Owned /\ AckMeansProcessed
  BY DEF AInv, CInv, TInv
<1>1. ~LockOverruns(c) /\ ~RecordExpires(c)
  BY <1>t, NoFault DEF LockOverruns, RecordExpires
<1>w. UNCHANGED worker
  BY <1>1 DEF SubmitEnqueue, LockReleased, MessageExpires, SubmitCreate
<1>2. \A p \in Procs : worker[p].claim = c => msg[c].state = "locked"
  BY <1>t DEF Owned, Owns, LockValid
<1>3. \A p \in Procs : worker[p].claim # c
  BY <1>1, <1>2, <1>t DEF SubmitEnqueue, LockReleased, MessageExpires, SubmitCreate, Owned,
     Submitted, Held, Holds, Owns
<1> DEFINE OnlyAt(d) == /\ msg' = [msg EXCEPT ![d] = msg'[d]]
                        /\ msg'[d].state # "settled"
                        /\ record' = [record EXCEPT ![d] = record'[d]]
<1>4. OnlyAt(c) /\ Submitted(c)'
  <2>1. CASE SubmitEnqueue(c)
    <3>1. msg' \in {msg, [msg EXCEPT ![c].state = "ready"]} /\ UNCHANGED record
          /\ req'[c].state \in {"done", "failed"} /\ req[c].state = "created"
      BY <2>1, <1>t DEF SubmitEnqueue, TypeOK
    <3> QED BY <3>1, <1>t DEF TypeOK, Owned, Submitted, Message
  <2>2. CASE LockReleased(c)
    BY <2>2, <1>t DEF LockReleased, Unlocked, TypeOK, Owned, Submitted, Message
  <2>3. CASE MessageExpires(c)
    BY <2>3, <1>t DEF MessageExpires, TypeOK, Owned, Submitted, Message
  <2>4. ASSUME NEW p \in Procs, SubmitCreate(p, c)
        PROVE  OnlyAt(c) /\ Submitted(c)'
    <3>1. Save(p, c, Lifecycle!Fresh) /\ req'[c].state = "created"
      BY <2>4, <1>t, NoStoreFault DEF SubmitCreate, TypeOK
    <3>2. record' = [record EXCEPT ![c] = Lifecycle!Fresh] /\ UNCHANGED msg
      BY <2>4, <3>1 DEF SubmitCreate, Save
    <3>3. msg[c].state = "none"
      BY <2>4, <1>t DEF SubmitCreate, Owned, Submitted
    <3>4. record'[c].status = "pending" /\ record' = [record EXCEPT ![c] = record'[c]]
      BY <3>2, <1>t DEF TypeOK, Lifecycle!Fresh
    <3>5. msg' = [msg EXCEPT ![c] = msg'[c]] /\ msg'[c].state = "none"
      BY <3>2, <3>3, <1>t DEF TypeOK
    <3>6. Submitted(c)'
      BY <3>1, <3>4, <3>5 DEF Submitted
    <3> QED BY <3>4, <3>5, <3>6
  <2> QED BY <1>1, <2>1, <2>2, <2>3, <2>4
<1>5. \A d \in Claims : d # c => Submitted(d)'
  <2>1. \A d \in Claims : d # c =>
          req'[d] = req[d] /\ msg'[d] = msg[d] /\ record'[d] = record[d]
    BY <1>1, <1>4, <1>t DEF TypeOK, SubmitEnqueue, LockReleased, MessageExpires, SubmitCreate
  <2> QED BY <2>1, <1>t DEF Owned, Submitted
<1>6. \A p \in Procs : Owns(p)' /\ AtAck(p)' /\ NoOddAck(p)'
  <2> SUFFICES ASSUME NEW p \in Procs PROVE Owns(p)' /\ AtAck(p)' /\ NoOddAck(p)'
    OBVIOUS
  <2>1. worker[p].claim \in Claims =>
          /\ msg'[worker[p].claim] = msg[worker[p].claim]
          /\ record'[worker[p].claim] = record[worker[p].claim]
    BY <1>3, <1>4, <1>t DEF TypeOK
  <2>2. worker[p].pc = "ack" => worker[p].claim \in Claims
    BY DEF AInv, CInv, TInv, WorkerHasClaim, Busy, Acking
  <2> QED BY <1>w, <2>1, <2>2, <1>t DEF Owned, Owns, LockValid, AtAck, Terminal, NoOddAck
<1>7. AckMeansProcessed'
  BY <1>4, <1>t DEF TypeOK, AckMeansProcessed, Terminal
<1> QED BY <1>w, <1>4, <1>5, <1>6, <1>7, <1>t DEF Owned, Unshared

\* A worker that stays with its claim and leaves the messages alone keeps the
\* ownership, whatever it does to the records of claims it holds.
LEMMA OwnedMove ==
  ASSUME AInv, NEW p \in Procs, NEW pc, worker[p].claim \in Claims,
         worker'[p].claim = worker[p].claim, worker'[p].lock = worker[p].lock,
         worker'[p].pc = pc, pc \notin {"ack_raise", "ack_cancel"},
         \A q \in Procs : q # p => worker'[q] = worker[q],
         UNCHANGED <<msg, req>>,
         \A d \in Claims : d # worker[p].claim => record'[d] = record[d],
         record'[worker[p].claim].status # "absent",
         pc = "ack" => Terminal(record[worker[p].claim]')
  PROVE  Owned' /\ AckMeansProcessed'
<1>t. TypeOK /\ Owned /\ AckMeansProcessed /\ WorkerHasClaim
  BY DEF AInv, CInv, TInv
<1>1. \A q \in Procs : worker'[q].claim = worker[q].claim /\ worker'[q].lock = worker[q].lock
  OBVIOUS
<1>2. Unshared'
  BY <1>1, <1>t DEF Owned, Unshared
<1>3. \A q \in Procs : Owns(q)'
  BY <1>1, <1>t DEF Owned, Owns, LockValid
<1>4. \A q \in Procs : AtAck(q)'
  <2> SUFFICES ASSUME NEW q \in Procs, q # p PROVE AtAck(q)'
    BY DEF AtAck
  <2>1. worker[q].pc = "ack" => worker[q].claim \in Claims /\ worker[q].claim # worker[p].claim
    BY <1>t DEF Owned, Unshared, WorkerHasClaim, Busy, Acking
  <2> QED BY <2>1, <1>t DEF Owned, AtAck, Terminal
<1>5. \A q \in Procs : NoOddAck(q)'
  BY <1>t DEF Owned, NoOddAck
<1>6. \A c \in Claims : Submitted(c)'
  BY <1>t DEF Owned, Submitted
<1>7. AckMeansProcessed'
  <2>1. msg[worker[p].claim].state = "locked"
    BY <1>t DEF Owned, Owns, LockValid
  <2> QED BY <2>1, <1>t DEF AckMeansProcessed, Terminal
<1> QED BY <1>2, <1>3, <1>4, <1>5, <1>6, <1>7 DEF Owned

\* A worker that lets its claim go (it acks, or its process dies).
LEMMA OwnedDrop ==
  ASSUME AInv, NEW p \in Procs, NEW pc \in {"idle", "dead", "down"},
         worker' = [worker EXCEPT ![p] = Bare(pc)],
         UNCHANGED <<record, msg>>,
         \A c \in Claims : req'[c].state \in {req[c].state, "failed"}
  PROVE  Owned' /\ AckMeansProcessed'
<1>t. TypeOK /\ Owned /\ AckMeansProcessed
  BY DEF AInv, CInv, TInv
<1>1. /\ worker'[p].claim = NoClaim /\ worker'[p].pc = pc
      /\ \A q \in Procs : q # p => worker'[q] = worker[q]
  BY <1>t DEF TypeOK, Bare
<1>2. Unshared' /\ \A q \in Procs : Owns(q)' /\ AtAck(q)' /\ NoOddAck(q)'
  BY <1>1, <1>t, NoClaimAssumption DEF Owned, Unshared, Owns, LockValid, AtAck, Terminal, NoOddAck
<1>3. \A c \in Claims : Submitted(c)'
  BY <1>t DEF Owned, Submitted
<1> QED BY <1>2, <1>3, <1>t DEF Owned, AckMeansProcessed, Terminal

LEMMA AckDequeue ==
  ASSUME AInv, NEW p \in Procs, NEW c \in Claims, Dequeue(p, c)
  PROVE  Owned' /\ AckMeansProcessed'
<1>t. TypeOK /\ Owned /\ AckMeansProcessed
  BY DEF AInv, CInv, TInv
<1>1. \A q \in Procs : worker[q].claim # c
  BY <1>t DEF Dequeue, Owned, Owns, LockValid
<1>2. /\ worker'[p].claim = c /\ worker'[p].lock = msg[c].delivery + 1
      /\ worker'[p].pc = "load"
      /\ \A q \in Procs : q # p => worker'[q] = worker[q]
  BY <1>t DEF Dequeue, Bare, TypeOK
<1>3. /\ msg'[c].state = "locked" /\ msg'[c].delivery = msg[c].delivery + 1
      /\ \A d \in Claims : d # c => msg'[d] = msg[d]
  BY <1>t DEF Dequeue, Locked, TypeOK
<1>4. Unshared'
  BY <1>1, <1>2, <1>t DEF Owned, Unshared
<1>5. \A q \in Procs : Owns(q)'
  <2> SUFFICES ASSUME NEW q \in Procs PROVE Owns(q)'
    OBVIOUS
  <2>1. CASE q = p
    BY <2>1, <1>2, <1>3 DEF Owns, LockValid
  <2>2. CASE q # p
    BY <2>2, <1>1, <1>2, <1>3, <1>t DEF Owned, Owns, LockValid
  <2> QED BY <2>1, <2>2
<1>6. \A q \in Procs : AtAck(q)' /\ NoOddAck(q)'
  BY <1>2, <1>t DEF Dequeue, Owned, AtAck, NoOddAck, Terminal
<1>7. \A d \in Claims : Submitted(d)'
  BY <1>3, <1>t DEF Dequeue, Owned, Submitted
<1>8. AckMeansProcessed'
  BY <1>3, <1>t DEF Dequeue, AckMeansProcessed, Terminal
<1> QED BY <1>4, <1>5, <1>6, <1>7, <1>8 DEF Owned

\* The worker's own steps.
LEMMA AckWorker ==
  ASSUME NoLossFaults, AInv, NEW p \in Procs, WorkerStep(p) \/ WorkerFault(p)
  PROVE  Owned' /\ AckMeansProcessed'
<1>t. TypeOK /\ Owned /\ AckMeansProcessed /\ WorkerHasClaim /\ SnapOK(worker[p])
      /\ worker[p] \in Locals
  BY DEF AInv, CInv, TInv, TypeOK, SnapsOK
<1> DEFINE c == worker[p].claim
<1>b. worker[p].pc \in Busy =>
        c \in Claims /\ record[c] \in Lifecycle!Record /\ record[c].status # "absent"
  BY <1>t DEF TypeOK, WorkerHasClaim, Owned, Owns, LockValid, Submitted
<1>n. ~DequeueRaises(p) /\ ~ProcessRaises(p) /\ ~FailRaises(p)
  BY <1>t, NoFault, NoStoreFault DEF DequeueRaises, ProcessRaises, FailRaises
<1> DEFINE At(pc) == /\ worker'[p].claim = c /\ worker'[p].lock = worker[p].lock
                     /\ worker'[p].pc = pc
                     /\ \A q \in Procs : q # p => worker'[q] = worker[q]
<1>g. \A pc : Goto(p, pc) => At(pc)
  BY <1>t DEF Goto, TypeOK, Locals
<1>k. \A pc, r : Keep(p, pc, r) => At(pc)
  BY <1>t DEF Keep, TypeOK, Locals
<1>1. CASE Load(p)
  <2>1. record[c] # Lifecycle!Absent /\ c \in Claims /\ record[c].status # "absent"
    BY <1>1, <1>b DEF Load, Lifecycle!Absent, Busy, Processing
  <2>2. PICK r : Keep(p, "mark", r)
    BY <1>1, <2>1 DEF Load
  <2> QED BY <1>1, <1>k, <2>1, <2>2, OwnedMove DEF Load
<1>2. CASE MarkProcessing(p)
  <2>1. c \in Claims /\ worker[p].snap.status = "processing"
    BY <1>2, <1>b, <1>t DEF MarkProcessing, SnapOK, Busy, Processing
  <2>2. record'[c].status # "absent" /\ \A d \in Claims : d # c => record'[d] = record[d]
    BY <1>2, <1>t, <2>1 DEF MarkProcessing, Save, TypeOK
  <2> QED BY <1>2, <1>g, <2>1, <2>2, OwnedMove DEF MarkProcessing
<1>3. CASE RunGraph(p)
  <2>1. PICK r : Keep(p, "save", r)
    BY <1>3 DEF RunGraph
  <2>2. c \in Claims /\ record[c].status # "absent"
    BY <1>3, <1>b DEF RunGraph, Busy, Processing
  <2> QED BY <1>3, <1>k, <2>1, <2>2, OwnedMove DEF RunGraph
<1>4. CASE GraphRaises(p)
  <2>1. c \in Claims /\ record[c].status # "absent"
    BY <1>4, <1>b DEF GraphRaises, Busy, Processing
  <2> QED BY <1>4, <1>g, <2>1, OwnedMove DEF GraphRaises
<1>5. CASE SaveResult(p)
  <2>1. c \in Claims /\ worker[p].snap.status \in {"completed", "escalated"}
    BY <1>5, <1>b, <1>t DEF SaveResult, SnapOK, Busy, Processing
  <2>2. record'[c] = worker[p].snap /\ \A d \in Claims : d # c => record'[d] = record[d]
    BY <1>5, <1>t, <2>1 DEF SaveResult, Save, TypeOK
  <2> QED BY <1>5, <1>g, <2>1, <2>2, OwnedMove DEF SaveResult, Terminal
<1>6. CASE FailLoad(p)
  <2>1. record[c] # Lifecycle!Absent /\ c \in Claims /\ record[c].status # "absent"
    BY <1>6, <1>b DEF FailLoad, Lifecycle!Absent, Busy, Failing
  <2>2. PICK r : Keep(p, "fail_save", r)
    BY <1>6, <2>1 DEF FailLoad
  <2> QED BY <1>6, <1>k, <2>1, <2>2, OwnedMove DEF FailLoad
<1>7. CASE FailSave(p)
  <2>1. c \in Claims /\ worker[p].snap.status = "error"
    BY <1>7, <1>b, <1>t DEF FailSave, SnapOK, Busy, Failing
  <2>2. record'[c] = worker[p].snap /\ \A d \in Claims : d # c => record'[d] = record[d]
    BY <1>7, <1>t, <2>1 DEF FailSave, Save, TypeOK
  <2> QED BY <1>7, <1>g, <2>1, <2>2, OwnedMove DEF FailSave, Terminal
<1>8. CASE Ack(p)
  <2>1. worker[p].pc = "ack" /\ c \in Claims /\ Terminal(record[c])
    BY <1>8, <1>b, <1>t DEF Ack, Acking, Owned, NoOddAck, AtAck, Busy
  <2>2. worker' = [worker EXCEPT ![p] = Bare("idle")]
    BY <1>8, <2>1 DEF Ack, AfterAck
  <2>3. msg' = [msg EXCEPT ![c].state = "settled"] /\ UNCHANGED record
    BY <1>8, <1>t, <2>1, NoFault DEF Ack, Owned, Owns
  <2>4. \A q \in Procs : q # p => worker[q].claim # c /\ worker'[q] = worker[q]
    BY <2>1, <2>2, <1>t DEF Owned, Unshared, TypeOK
  <2>5. worker'[p].claim = NoClaim /\ worker'[p].pc = "idle"
    BY <2>2, <1>t DEF TypeOK, Bare
  <2>6. /\ msg'[c].state = "settled"
        /\ \A d \in Claims : d # c => msg'[d] = msg[d]
    BY <2>1, <2>3, <1>t DEF TypeOK, Message
  <2>7. Unshared'
    BY <2>4, <2>5, <1>t, NoClaimAssumption DEF Owned, Unshared
  <2>8. \A q \in Procs : Owns(q)'
    BY <2>4, <2>5, <2>6, <1>t, NoClaimAssumption DEF Owned, Owns, LockValid
  <2>9. \A q \in Procs : AtAck(q)' /\ NoOddAck(q)'
    BY <2>3, <2>4, <2>5, <1>t DEF Owned, AtAck, NoOddAck, Terminal
  <2>10. \A d \in Claims : Submitted(d)'
    <3>1. UNCHANGED req
      BY <1>8 DEF Ack
    <3>2. msg[c].state = "locked" /\ Submitted(c)
      BY <2>1, <1>t DEF Owned, Owns, LockValid
    <3> QED BY <2>3, <2>6, <3>1, <3>2, <1>t DEF Owned, Submitted
  <2>11. AckMeansProcessed'
    BY <2>1, <2>3, <2>6, <1>t DEF AckMeansProcessed, Terminal
  <2> QED BY <2>7, <2>8, <2>9, <2>10, <2>11 DEF Owned
<1> QED BY <1>n, <1>1, <1>2, <1>3, <1>4, <1>5, <1>6, <1>7, <1>8 DEF WorkerStep, WorkerFault

LEMMA AckProcess ==
  ASSUME NoLossFaults, AInv, NEW p \in Procs, Shutdown(p) \/ Crash(p) \/ Restart(p)
  PROVE  Owned' /\ AckMeansProcessed'
<1>t. TypeOK /\ Owned /\ AckMeansProcessed /\ WorkerHasClaim
  BY DEF AInv, CInv, TInv
<1>1. ~Shutdown(p)
  BY <1>t, NoFault DEF Shutdown
<1>2. CASE Crash(p)
  <2>1. \A c \in Claims : req'[c].state \in {req[c].state, "failed"}
    BY <1>2 DEF Crash
  <2> QED BY <1>2, <2>1, OwnedDrop DEF Crash
<1>3. CASE Restart(p)
  <2>1. /\ \A q \in Procs : worker'[q].claim = worker[q].claim /\ worker'[q].lock = worker[q].lock
        /\ \A q \in Procs : worker'[q].pc = worker[q].pc \/ worker'[q].pc = "idle"
    BY <1>3, <1>t DEF Restart, Goto, TypeOK, Locals
  <2> QED BY <1>3, <2>1, <1>t DEF Restart, Owned, Unshared, Owns, LockValid, AtAck,
          NoOddAck, Submitted, AckMeansProcessed, Terminal
<1> QED BY <1>1, <1>2, <1>3

\* A verdict leaves the claim adjudicated, so it disturbs no ack.
LEMMA AckReview ==
  ASSUME NoLossFaults, AInv, NEW r \in Reviewers,
         DecisionSave(r) \/ \E p \in Procs, c \in Claims : DecisionLoad(r, p, c)
  PROVE  Owned' /\ AckMeansProcessed'
<1>t. TypeOK /\ Owned /\ AckMeansProcessed
  BY DEF AInv, CInv, TInv
<1>m. UNCHANGED <<msg, req, worker>>
  BY DEF DecisionSave, DecisionLoad
<1>1. /\ \A c \in Claims : record'[c] = record[c] \/ Terminal(record'[c])
      /\ \A c \in Claims : record[c].status # "absent" => record'[c].status # "absent"
  <2>1. CASE DecisionSave(r)
    <3>1. review[r].claim \in Claims /\ review[r].snap \in Lifecycle!Record
      BY <2>1 DEF AInv, CInv, TInv, TypeOK, DecisionSave, ReviewHasClaim, Review
    <3>2. PICK v \in Lifecycle!Verdicts :
            record' = [record EXCEPT ![review[r].claim]
                                       = Lifecycle!Adjudicated(review[r].snap, v)]
      BY <2>1, <1>t, NoStoreFault DEF DecisionSave, Save
    <3>3. Lifecycle!Adjudicated(review[r].snap, v).status = "completed"
      BY <3>1 DEF Lifecycle!Adjudicated, Lifecycle!Record
    <3> QED BY <3>1, <3>2, <3>3, <1>t DEF TypeOK, Terminal
  <2>2. CASE \E p \in Procs, c \in Claims : DecisionLoad(r, p, c)
    BY <2>2 DEF DecisionLoad
  <2> QED BY <2>1, <2>2
<1>2. \A p \in Procs : worker[p].pc = "ack" => worker[p].claim \in Claims
  BY DEF AInv, CInv, TInv, WorkerHasClaim, Busy, Acking
<1> QED BY <1>1, <1>2, <1>m, <1>t DEF Owned, Unshared, Owns, LockValid, AtAck, NoOddAck,
        Submitted, AckMeansProcessed, Terminal

LEMMA AckStep == NoLossFaults /\ AInv /\ [Next]_vars => AInv'
<1> SUFFICES ASSUME NoLossFaults, AInv, [Next]_vars PROVE Owned' /\ AckMeansProcessed'
  BY CoherentStep DEF AInv
<1>1. CASE UNCHANGED vars
  BY <1>1 DEF vars, AInv, Owned, Unshared, Owns, LockValid, AtAck, NoOddAck, Submitted,
     AckMeansProcessed, Terminal
<1>2. ASSUME NEW c \in Claims,
             \/ SubmitEnqueue(c) \/ LockReleased(c) \/ LockOverruns(c)
             \/ MessageExpires(c) \/ RecordExpires(c)
             \/ \E p \in Procs : SubmitCreate(p, c)
      PROVE  Owned' /\ AckMeansProcessed'
  BY <1>2, AckBroker
<1>3. ASSUME NEW p \in Procs, NEW c \in Claims, Dequeue(p, c)
      PROVE  Owned' /\ AckMeansProcessed'
  BY <1>3, AckDequeue
<1>4. ASSUME NEW p \in Procs, WorkerStep(p) \/ WorkerFault(p)
      PROVE  Owned' /\ AckMeansProcessed'
  BY <1>4, AckWorker
<1>5. ASSUME NEW p \in Procs, Shutdown(p) \/ Crash(p) \/ Restart(p)
      PROVE  Owned' /\ AckMeansProcessed'
  BY <1>5, AckProcess
<1>6. ASSUME NEW r \in Reviewers,
             DecisionSave(r) \/ \E p \in Procs, c \in Claims : DecisionLoad(r, p, c)
      PROVE  Owned' /\ AckMeansProcessed'
  BY <1>6, AckReview
<1> QED BY <1>1, <1>2, <1>3, <1>4, <1>5, <1>6 DEF Next

\* While no store or broker call fails, no process is shut down, no worker
\* outlives its lock and no record the store's day, a message is acked only after its claim is adjudicated,
\* however many processes crash and restart.
THEOREM AckedIsProcessed == NoLossFaults => (Spec => []AckMeansProcessed)
<1> SUFFICES ASSUME NoLossFaults PROVE Spec => []AckMeansProcessed
  OBVIOUS
<1>1. AInv /\ [Next]_vars => AInv'
  BY AckStep
<1>2. AInv => AckMeansProcessed
  BY DEF AInv
<1> QED BY <1>1, <1>2, AckInit, PTL DEF Spec
=============================================================================
