----------------------- MODULE ClaimServiceOnceProofs -----------------------
(* What ClaimService does with the record of a claim whose message is       *)
(* delivered at most once: a verdict stands, and, with one reviewer, the    *)
(* record goes through the life that ClaimLifecycle describes.              *)
EXTENDS ClaimServiceProofs

\* Deliveries are counted up to the broker's limit.
Bounded(c) == /\ msg[c].delivery <= MaxDelivery
              /\ msg[c].state = "ready" => msg[c].delivery < MaxDelivery

\* Until its first delivery, a claim's record is what submit_claim stored, or
\* has expired.
Untaken(c) ==
  /\ req[c].state = "new" => record[c] = Lifecycle!Absent
  /\ req[c].state \in {"new", "created"} => msg[c].state = "none"
  /\ msg[c].state = "none" => msg[c].delivery = 0
  /\ msg[c].delivery = 0 => /\ record[c] \in {Lifecycle!Absent, Lifecycle!Fresh}
                            /\ verdicts[c] = {}

\* Workers and reviewers have a claim in hand only after it was delivered, and
\* a reviewer one that was escalated.
Delivered(c) ==
  /\ \A p \in Procs : Holds(p, c) => msg[c].delivery >= 1
  /\ \A r \in Reviewers : review[r].claim = c =>
       msg[c].delivery >= 1 /\ review[r].snap.status = "escalated"

\* The snapshot of the worker at w follows from the stored record r: no one
\* has changed the record since the worker loaded or saved it.
InStep(w, r) ==
  /\ w.pc = "load" => r \in {Lifecycle!Absent, Lifecycle!Fresh}
  /\ w.pc = "mark" => /\ r = Lifecycle!Fresh
                      /\ w.snap = [r EXCEPT !.status = "processing"]
  /\ w.pc = "graph" => w.snap = r /\ r.status = "processing"
  /\ w.pc = "save" => /\ r.status = "processing"
                      /\ \E d \in Lifecycle!Dispositions : w.snap = Lifecycle!Concluded(r, d)
  /\ w.pc = "fail_load" => r = Lifecycle!Absent \/ r.status \in {"pending", "processing"}
  /\ w.pc = "fail_save" => /\ r.status \in {"pending", "processing"}
                           /\ w.snap = [r EXCEPT !.status = "error"]

\* While c is Lone, one worker at most has it, and it is in step with the
\* record; reviewers see it once the worker is done, and verdicts stand.
Alone(c) ==
  /\ \A p, q \in Procs : Holds(p, c) /\ Holds(q, c) => p = q
  /\ \A p \in Procs : Holds(p, c) => InStep(worker[p], record[c])
  /\ \A r \in Reviewers : review[r].claim = c => record[c].status \in {"escalated", "completed"}
  /\ verdicts[c] # {} => record[c].status \in {"completed", "absent"}
  /\ \A v \in Lifecycle!Verdicts : verdicts[c] = {v} => Says(c, v)

History(c) == Bounded(c) /\ Untaken(c) /\ Delivered(c) /\ (Lone(c) => Alone(c))

OInv == TInv /\ \A c \in Claims : History(c)

-----------------------------------------------------------------------------
(* Helpers *)

LEMMA Statuses ==
  /\ Lifecycle!Absent.status = "absent"
  /\ Lifecycle!Fresh.status = "pending"
  BY DEF Lifecycle!Absent, Lifecycle!Fresh

\* A worker is in step with any record while it has nothing to do with it, and
\* with an adjudicated one only then.
LEMMA Resting ==
  ASSUME NEW w, NEW r
  PROVE  /\ w.pc \notin Processing \cup Failing => InStep(w, r)
         /\ InStep(w, r) /\ r.status \in {"escalated", "completed"}
              => w.pc \notin Processing \cup Failing
  BY Statuses DEF InStep, Processing, Failing

\* Replies are only lost more and more.
LEMMA LostGrows ==
  ASSUME TInv, [Next]_vars
  PROVE  /\ faults["lost_reply"] \in Nat /\ faults'["lost_reply"] \in Nat
         /\ faults["lost_reply"] <= faults'["lost_reply"]
         /\ Fault("lost_reply") => faults'["lost_reply"] > 0
<1>1. faults \in [FaultKinds -> Nat] /\ faults' \in [FaultKinds -> Nat]
  BY TypeStep DEF TInv, TypeOK
<1>2. UNCHANGED faults \/ \E j \in FaultKinds : Fault(j)
  BY DEF Next, vars, SubmitEnqueue, LockReleased, LockOverruns, MessageExpires, RecordExpires,
     SubmitCreate, Dequeue, WorkerStep, Load, MarkProcessing, RunGraph, GraphRaises, SaveResult,
     FailLoad, FailSave, Ack, WorkerFault, DequeueRaises, ProcessRaises, FailRaises, Shutdown,
     Crash, Restart, DecisionLoad, DecisionSave, SaveRaises, LoadRaises, FaultKinds
<1> QED BY <1>1, <1>2 DEF Fault, FaultKinds

\* A step that leaves the claim's record and verdicts alone, delivers nothing,
\* and only takes the claim out of hands, or moves its worker on to the ack.
MessageStays(c) ==
  \/ msg'[c] = msg[c]
  \/ /\ msg[c].state # "none" /\ msg'[c].state # "none"
     /\ msg'[c].delivery = msg[c].delivery
     /\ msg'[c].state = "ready" => msg[c].delivery < MaxDelivery

Aside(c) ==
  /\ record'[c] = record[c] /\ verdicts'[c] = verdicts[c]
  /\ MessageStays(c)
  /\ req'[c].state \in {req[c].state, "failed"}
  /\ \A p \in Procs : Holds(p, c)' =>
       Holds(p, c) /\ (worker'[p] = worker[p] \/ worker'[p].pc \in Acking)
  /\ \A r \in Reviewers : review'[r].claim = c => review'[r] = review[r]

LEMMA AsideKeeps ==
  ASSUME OInv, [Next]_vars, NEW c \in Claims, Aside(c)
  PROVE  History(c)'
<1>t. History(c) /\ msg[c].delivery \in Nat
  BY DEF OInv, TInv, TypeOK, Message
<1>1. Bounded(c)' /\ Untaken(c)' /\ Delivered(c)'
  BY <1>t DEF History, Bounded, Untaken, Delivered, Aside, MessageStays
<1>2. ASSUME Lone(c)' PROVE Alone(c)'
  <2>1. Lone(c)
    BY <1>2, <1>t, LostGrows DEF OInv, Lone, Aside, MessageStays
  <2>2. Alone(c)
    BY <2>1, <1>t DEF History
  <2>3. \A p \in Procs : Holds(p, c)' => InStep(worker'[p], record'[c])
    <3>1. \A pc \in Acking : pc \notin Processing \cup Failing
      BY DEF Acking, Processing, Failing
    <3> QED BY <2>2, <3>1, Resting DEF Alone, Aside
  <2>4. \A v \in Lifecycle!Verdicts : verdicts'[c] = {v} => Says(c, v)'
    BY <2>2 DEF Alone, Aside, Says
  <2>5. \A r \in Reviewers : review'[r].claim = c => record'[c].status \in {"escalated", "completed"}
    BY <2>2 DEF Alone, Aside
  <2>6. \A p, q \in Procs : Holds(p, c)' /\ Holds(q, c)' => p = q
    BY <2>2 DEF Alone, Aside
  <2> QED BY <2>2, <2>3, <2>4, <2>5, <2>6 DEF Alone, Aside
<1> QED BY <1>1, <1>2 DEF History

LEMMA OnceInit == Init => OInv
<1> SUFFICES ASSUME Init PROVE \A c \in Claims : History(c)
  BY TypeInit DEF OInv
<1>1. \A p \in Procs : worker[p].claim = NoClaim
  BY DEF Init, Bare
<1>2. \A r \in Reviewers : review[r].claim = NoClaim
  BY DEF Init, NoReview
<1>3. \A c \in Claims : Bounded(c) /\ Untaken(c) /\ verdicts[c] = {}
  BY DeliveryAssumption DEF Init, Bounded, Untaken
<1> QED BY <1>1, <1>2, <1>3, NoClaimAssumption DEF History, Delivered, Alone, Holds

-----------------------------------------------------------------------------
(* The steps *)

LEMMA OnceBroker ==
  ASSUME OInv, [Next]_vars, NEW c \in Claims,
         \/ SubmitEnqueue(c) \/ LockReleased(c) \/ LockOverruns(c)
         \/ MessageExpires(c) \/ RecordExpires(c)
  PROVE  \A d \in Claims : History(d)'
<1>t. TypeOK /\ History(c) /\ msg[c].delivery \in Nat
  BY DEF OInv, TInv, TypeOK, Message
<1>u. UNCHANGED <<worker, review, verdicts>>
  BY DEF SubmitEnqueue, LockReleased, LockOverruns, MessageExpires, RecordExpires
<1>1. ASSUME NEW d \in Claims, d # c PROVE Aside(d)
  <2>1. msg'[d] = msg[d] /\ req'[d] = req[d] /\ record'[d] = record[d]
    BY <1>1, <1>t DEF TypeOK, SubmitEnqueue, LockReleased, LockOverruns, MessageExpires,
       RecordExpires, Unlocked
  <2> QED BY <2>1, <1>u DEF Aside, MessageStays, Holds
<1>2. CASE SubmitEnqueue(c)
  <2>1. /\ msg[c].state = "none" /\ msg[c].delivery = 0 /\ UNCHANGED record
        /\ req'[c].state \in {"done", "failed"}
        /\ msg'[c].delivery = 0 /\ msg'[c].state \in {"none", "ready"}
    BY <1>2, <1>t DEF SubmitEnqueue, History, Untaken, TypeOK, Message
  <2>2. Bounded(c)' /\ Untaken(c)' /\ Delivered(c)'
    BY <2>1, <1>t, <1>u, DeliveryAssumption DEF History, Bounded, Untaken, Delivered, Holds
  <2>3. Lone(c)' => Alone(c)'
    <3>1. Lone(c)' => Lone(c)
      BY <2>1, LostGrows DEF Lone, OInv
    <3> QED BY <3>1, <2>1, <1>t, <1>u DEF History, Alone, Holds, Says
  <2> QED BY <2>2, <2>3, <1>1, AsideKeeps DEF History
<1>3. CASE LockReleased(c) \/ LockOverruns(c) \/ MessageExpires(c)
  <2>1. MessageStays(c) /\ UNCHANGED <<record, req>>
    BY <1>3, <1>t DEF MessageStays, LockReleased, LockOverruns, MessageExpires, Unlocked,
       TypeOK, Message
  <2>2. Aside(c)
    BY <2>1, <1>u DEF Aside, Holds
  <2> QED BY <2>2, <1>1, AsideKeeps
<1>4. CASE RecordExpires(c)
  <2>1. /\ record'[c] = Lifecycle!Absent /\ UNCHANGED <<msg, req>>
        /\ ~InUse(c)
    BY <1>4, <1>t DEF RecordExpires, TypeOK
  <2>2. Bounded(c)' /\ Untaken(c)' /\ Delivered(c)'
    BY <2>1, <1>t, <1>u DEF History, Bounded, Untaken, Delivered, Holds
  <2>3. Alone(c)'
    BY <2>1, <1>u, Statuses DEF InUse, Alone, Holds, Says
  <2> QED BY <2>2, <2>3, <1>1, AsideKeeps DEF History
<1> QED BY <1>2, <1>3, <1>4

LEMMA OnceCreate ==
  ASSUME OInv, [Next]_vars, NEW c \in Claims, NEW p \in Procs, SubmitCreate(p, c)
  PROVE  \A d \in Claims : History(d)'
<1>t. TypeOK /\ History(c)
  BY DEF OInv, TInv
<1>u. UNCHANGED <<msg, worker, review, verdicts>>
  BY DEF SubmitCreate
<1>1. ASSUME NEW d \in Claims, d # c PROVE Aside(d)
  BY <1>1, <1>t, <1>u DEF Aside, MessageStays, TypeOK, SubmitCreate, Save, SaveRaises, Holds
<1>2. /\ req[c].state = "new" /\ record[c] = Lifecycle!Absent
      /\ msg[c].state = "none" /\ msg[c].delivery = 0 /\ verdicts[c] = {}
      /\ \A q \in Procs : ~Holds(q, c)
      /\ \A r \in Reviewers : review[r].claim # c
  BY <1>t DEF SubmitCreate, History, Untaken, Delivered
<1>3. /\ req'[c].state \in {"created", "failed"}
      /\ record'[c] \in {Lifecycle!Absent, Lifecycle!Fresh}
  BY <1>2, <1>t DEF SubmitCreate, Save, SaveRaises, TypeOK, Request
<1>4. Bounded(c)' /\ Untaken(c)' /\ Delivered(c)'
  BY <1>2, <1>3, <1>t, <1>u DEF History, Bounded, Untaken, Delivered, Holds
<1>5. Alone(c)'
  BY <1>2, <1>u DEF Alone, Holds
<1> QED BY <1>1, <1>4, <1>5, AsideKeeps DEF History

\* A message is locked for p's worker, which gets it or dies of a lost reply.
LEMMA OnceLocked ==
  ASSUME OInv, [Next]_vars, NEW c \in Claims, NEW p \in Procs,
         msg[c].state = "ready", msg' = Locked(c), worker[p].claim \notin Claims,
         \A q \in Procs : q # p => worker'[q] = worker[q],
         UNCHANGED <<record, req, review, verdicts>>,
         \/ worker'[p].claim = c /\ worker'[p].pc = "load"
         \/ worker'[p].claim \notin Claims
  PROVE  \A d \in Claims : History(d)'
<1>t. TypeOK /\ History(c) /\ msg[c].delivery \in Nat
  BY DEF OInv, TInv, TypeOK, Message
<1>1. /\ msg'[c].state = "locked" /\ msg'[c].delivery = msg[c].delivery + 1
      /\ \A d \in Claims : d # c => msg'[d] = msg[d]
  BY <1>t DEF Locked, TypeOK
<1>2. ASSUME NEW d \in Claims, d # c PROVE Aside(d)
  BY <1>2, <1>1 DEF Aside, MessageStays, Holds
<1>3. Bounded(c)' /\ Untaken(c)' /\ Delivered(c)'
  <2>1. req[c].state \notin {"new", "created"} /\ msg[c].delivery < MaxDelivery
    BY <1>t DEF History, Untaken, Bounded
  <2>2. Bounded(c)' /\ Untaken(c)'
    BY <1>1, <1>t, <2>1, DeliveryAssumption DEF Bounded, Untaken
  <2>3. \A r \in Reviewers : review[r].claim = c => review[r].snap.status = "escalated"
    BY <1>t DEF History, Delivered
  <2> QED BY <1>1, <1>t, <2>2, <2>3 DEF Delivered
<1>4. ASSUME Lone(c)' PROVE Alone(c)'
  <2>1. Lone(c) /\ msg[c].delivery = 0
    BY <1>4, <1>1, <1>t, LostGrows DEF Lone, OInv
  <2>2. /\ Alone(c) /\ record[c] \in {Lifecycle!Absent, Lifecycle!Fresh}
        /\ \A q \in Procs : ~Holds(q, c)
        /\ \A r \in Reviewers : review[r].claim # c
    BY <2>1, <1>t DEF History, Untaken, Delivered
  <2>3. \A q \in Procs : Holds(q, c)' => q = p /\ worker'[q].pc = "load"
    BY <2>2 DEF Holds
  <2>4. \A q \in Procs : Holds(q, c)' => InStep(worker'[q], record'[c])
    BY <2>2, <2>3 DEF InStep
  <2> QED BY <2>2, <2>3, <2>4 DEF Alone, Says
<1> QED BY <1>2, <1>3, <1>4, AsideKeeps DEF History

LEMMA OnceDequeue ==
  ASSUME OInv, [Next]_vars, NEW c \in Claims, NEW p \in Procs, Dequeue(p, c)
  PROVE  \A d \in Claims : History(d)'
<1>1. /\ worker'[p].claim = c /\ worker'[p].pc = "load"
      /\ \A q \in Procs : q # p => worker'[q] = worker[q]
  BY DEF Dequeue, Bare, OInv, TInv, TypeOK
<1>2. worker[p].claim \notin Claims
  BY DEF Dequeue, OInv, TInv, WorkerHasClaim, Busy, Processing, Failing, Acking
<1> QED BY <1>1, <1>2, OnceLocked DEF Dequeue

LEMMA OnceDequeueRaises ==
  ASSUME OInv, [Next]_vars, NEW p \in Procs, DequeueRaises(p)
  PROVE  \A d \in Claims : History(d)'
<1>t. TypeOK
  BY DEF OInv, TInv
<1>1. worker[p].claim \notin Claims
  BY DEF DequeueRaises, OInv, TInv, WorkerHasClaim, Busy, Processing, Failing, Acking
<1>2. /\ worker'[p].claim = worker[p].claim
      /\ \A q \in Procs : q # p => worker'[q] = worker[q]
      /\ UNCHANGED <<record, req, review, verdicts>>
  BY <1>t DEF DequeueRaises, Goto, TypeOK, Locals
<1>3. CASE UNCHANGED msg
  <2>1. \A d \in Claims : Aside(d)
    BY <1>1, <1>2, <1>3 DEF Aside, MessageStays, Holds
  <2> QED BY <2>1, AsideKeeps
<1>4. CASE \E c \in Claims : msg[c].state = "ready" /\ msg' = Locked(c)
  BY <1>1, <1>2, <1>4, OnceLocked
<1> QED BY <1>3, <1>4 DEF DequeueRaises

\* A step of p's worker with claim c in hand: it leaves the broker and the
\* requests alone, and while c is Lone it writes only an unfinished record.
LEMMA OnceMove ==
  ASSUME OInv, [Next]_vars, NEW p \in Procs, NEW c \in Claims, Holds(p, c), Holds(p, c)',
         \A q \in Procs : q # p => worker'[q] = worker[q],
         UNCHANGED <<msg, req, review, verdicts>>,
         \A d \in Claims : d # c => record'[d] = record[d],
         Lone(c)' /\ Lone(c) /\ InStep(worker[p], record[c])
           => /\ InStep(worker'[p], record'[c])
              /\ \/ record'[c] = record[c]
                 \/ record[c].status \in {"pending", "processing"}
  PROVE  \A d \in Claims : History(d)'
<1>t. TypeOK /\ History(c) /\ msg[c].delivery \in Nat
  BY DEF OInv, TInv, TypeOK, Message
<1>1. ASSUME NEW d \in Claims, d # c PROVE Aside(d)
  BY <1>1 DEF Aside, MessageStays, Holds
<1>2. Bounded(c)' /\ Untaken(c)' /\ Delivered(c)'
  <2>1. msg[c].delivery >= 1 /\ req[c].state \notin {"new", "created"}
    BY <1>t DEF History, Delivered, Untaken
  <2> QED BY <2>1, <1>t DEF History, Bounded, Untaken, Delivered, Holds
<1>3. ASSUME Lone(c)' PROVE Alone(c)'
  <2>1. Lone(c) /\ Alone(c)
    BY <1>3, <1>t, LostGrows DEF OInv, Lone, History
  <2>2. /\ InStep(worker'[p], record'[c])
        /\ \/ record'[c] = record[c]
           \/ record[c].status \in {"pending", "processing"}
    BY <1>3, <2>1 DEF Alone
  <2>3. \A q \in Procs : Holds(q, c)' => q = p
    BY <2>1 DEF Alone, Holds
  <2>4. CASE record'[c] = record[c]
    BY <2>1, <2>2, <2>3, <2>4 DEF Alone, Says
  <2>5. CASE record[c].status \in {"pending", "processing"}
    <3>1. verdicts[c] = {} /\ \A r \in Reviewers : review[r].claim # c
      BY <2>1, <2>5 DEF Alone
    <3> QED BY <2>2, <2>3, <3>1 DEF Alone
  <2> QED BY <2>2, <2>4, <2>5
<1> QED BY <1>1, <1>2, <1>3, AsideKeeps DEF History

\* A save that raises lost its reply, or it changed nothing.
LEMMA RaisesLost ==
  ASSUME OInv, [Next]_vars, NEW c, NEW d, NEW r, SaveRaises(d, r), Lone(c)'
  PROVE  UNCHANGED record
  BY LostGrows DEF OInv, SaveRaises, Lone

LEMMA OnceWorker ==
  ASSUME OInv, [Next]_vars, NEW p \in Procs,
         WorkerStep(p) \/ ProcessRaises(p) \/ FailRaises(p)
  PROVE  \A d \in Claims : History(d)'
<1> DEFINE c == worker[p].claim
<1> DEFINE At(pc, r) == /\ worker'[p].claim = c /\ worker'[p].pc = pc /\ worker'[p].snap = r
                        /\ \A q \in Procs : q # p => worker'[q] = worker[q]
<1> DEFINE In == InStep(worker[p], record[c])
<1>t. TypeOK /\ WorkerHasClaim /\ worker[p] \in Locals
  BY DEF OInv, TInv, TypeOK
<1>c. c \in Claims /\ record[c] \in Lifecycle!Record
  BY <1>t DEF WorkerHasClaim, Busy, Processing, Failing, WorkerStep, Load, MarkProcessing,
     RunGraph, GraphRaises, SaveResult, FailLoad, FailSave, Ack, ProcessRaises, FailRaises, TypeOK
<1>g. \A pc : Goto(p, pc) => At(pc, worker[p].snap)
  BY <1>t DEF Goto, TypeOK, Locals
<1>k. \A pc, r : Keep(p, pc, r) => At(pc, r)
  BY <1>t DEF Keep, TypeOK, Locals
<1>s. ASSUME Save(p, c, worker[p].snap)
      PROVE  /\ record'[c] = worker[p].snap
             /\ \A d \in Claims : d # c => record'[d] = record[d]
  BY <1>s, <1>c, <1>t DEF Save, TypeOK
<1>r. ASSUME SaveRaises(c, worker[p].snap)
      PROVE  \A d \in Claims : d # c => record'[d] = record[d]
  BY <1>r, <1>c, <1>t DEF SaveRaises, TypeOK
<1>1. CASE Load(p)
  <2>1. CASE record[c] = Lifecycle!Absent
    <3>1. At("ack", worker[p].snap) /\ InStep(worker'[p], record[c])
      BY <1>1, <1>g, <2>1, Resting DEF Load, Processing, Failing
    <3> QED BY <1>1, <1>c, <3>1, OnceMove DEF Load, Holds
  <2>2. CASE record[c] # Lifecycle!Absent
    <3>1. At("mark", [record[c] EXCEPT !.status = "processing"])
      BY <1>1, <1>k, <2>2 DEF Load
    <3>2. In => InStep(worker'[p], record[c])
      BY <1>1, <2>2, <3>1 DEF Load, InStep
    <3> QED BY <1>1, <1>c, <3>1, <3>2, OnceMove DEF Load, Holds
  <2> QED BY <2>1, <2>2
<1>2. CASE MarkProcessing(p)
  <2>1. In => /\ record[c].status = "pending"
              /\ worker[p].snap.status = "processing"
    BY <1>2, Statuses, <1>c DEF MarkProcessing, InStep, Lifecycle!Fresh
  <2>2. At("graph", worker[p].snap) /\ record'[c] = worker[p].snap
    BY <1>2, <1>g, <1>s DEF MarkProcessing
  <2>3. In => InStep(worker'[p], record'[c])
    BY <2>1, <2>2 DEF InStep
  <2> QED BY <1>2, <1>c, <1>s, <2>1, <2>2, <2>3, OnceMove DEF MarkProcessing, Holds
<1>3. CASE RunGraph(p)
  <2>1. PICK d \in Lifecycle!Dispositions :
               Keep(p, "save", Lifecycle!Concluded(worker[p].snap, d))
    BY <1>3 DEF RunGraph, GraphDispositions, Lifecycle!Dispositions
  <2>2. At("save", Lifecycle!Concluded(worker[p].snap, d))
    BY <1>k, <2>1
  <2>3. In => InStep(worker'[p], record[c])
    BY <1>3, <2>2 DEF RunGraph, InStep
  <2> QED BY <1>3, <1>c, <2>2, <2>3, OnceMove DEF RunGraph, Holds
<1>4. CASE GraphRaises(p)
  <2>1. At("fail_load", worker[p].snap)
    BY <1>4, <1>g DEF GraphRaises
  <2>2. In => InStep(worker'[p], record[c])
    BY <1>4, <2>1 DEF GraphRaises, InStep
  <2> QED BY <1>4, <1>c, <2>1, <2>2, OnceMove DEF GraphRaises, Holds
<1>5. CASE SaveResult(p)
  <2>1. In => record[c].status = "processing"
    BY <1>5 DEF SaveResult, InStep
  <2>2. At("ack", worker[p].snap)
    BY <1>5, <1>g DEF SaveResult
  <2>3. InStep(worker'[p], record'[c])
    BY <2>2, Resting DEF Processing, Failing
  <2> QED BY <1>5, <1>c, <1>s, <2>1, <2>2, <2>3, OnceMove DEF SaveResult, Holds
<1>6. CASE FailLoad(p)
  <2>1. CASE record[c] = Lifecycle!Absent
    <3>1. At("ack", worker[p].snap) /\ InStep(worker'[p], record[c])
      BY <1>6, <1>g, <2>1, Resting DEF FailLoad, Processing, Failing
    <3> QED BY <1>6, <1>c, <3>1, OnceMove DEF FailLoad, Holds
  <2>2. CASE record[c] # Lifecycle!Absent
    <3>1. At("fail_save", [record[c] EXCEPT !.status = "error"])
      BY <1>6, <1>k, <2>2 DEF FailLoad
    <3>2. In => record[c].status \in {"pending", "processing"}
      BY <1>6, <2>2 DEF FailLoad, InStep
    <3>3. In => InStep(worker'[p], record[c])
      BY <3>1, <3>2 DEF InStep
    <3> QED BY <1>6, <1>c, <3>1, <3>3, OnceMove DEF FailLoad, Holds
  <2> QED BY <2>1, <2>2
<1>7. CASE FailSave(p)
  <2>1. In => record[c].status \in {"pending", "processing"}
    BY <1>7 DEF FailSave, InStep
  <2>2. At("ack", worker[p].snap)
    BY <1>7, <1>g DEF FailSave
  <2>3. InStep(worker'[p], record'[c])
    BY <2>2, Resting DEF Processing, Failing
  <2> QED BY <1>7, <1>c, <1>s, <2>1, <2>2, <2>3, OnceMove DEF FailSave, Holds
<1>8. CASE Ack(p)
  <2>1. /\ worker'[p].claim \notin Claims
        /\ \A q \in Procs : q # p => worker'[q] = worker[q]
        /\ UNCHANGED <<record, req, review, verdicts>>
    BY <1>8, <1>t, NoClaimAssumption DEF Ack, Bare, TypeOK
  <2>2. \A d \in Claims : MessageStays(d)
    BY <1>8, <1>t, <1>c DEF Ack, LockValid, MessageStays, TypeOK, Message
  <2>3. \A d \in Claims : Aside(d)
    BY <2>1, <2>2 DEF Aside, Holds
  <2> QED BY <2>3, AsideKeeps
<1>9. CASE ProcessRaises(p)
  <2>1. At("fail_load", worker[p].snap)
    BY <1>9, <1>g DEF ProcessRaises
  <2>2. In => record[c] = Lifecycle!Absent \/ record[c].status \in {"pending", "processing"}
    BY <1>9, Statuses DEF ProcessRaises, InStep
  <2>3. Lone(c)' => UNCHANGED record
    BY <1>9, RaisesLost DEF ProcessRaises, LoadRaises
  <2>4. In /\ Lone(c)' => InStep(worker'[p], record'[c])
    BY <2>1, <2>2, <2>3 DEF InStep
  <2> QED BY <1>9, <1>c, <1>r, <2>1, <2>3, <2>4, OnceMove DEF ProcessRaises, LoadRaises, Holds
<1>10. CASE FailRaises(p)
  <2>1. At("ack_raise", worker[p].snap)
    BY <1>10, <1>g DEF FailRaises
  <2>2. InStep(worker'[p], record'[c])
    BY <2>1, Resting DEF Processing, Failing
  <2>3. Lone(c)' => UNCHANGED record
    BY <1>10, RaisesLost DEF FailRaises, LoadRaises
  <2> QED BY <1>10, <1>c, <1>r, <2>1, <2>2, <2>3, OnceMove DEF FailRaises, LoadRaises, Holds
<1> QED BY <1>1, <1>2, <1>3, <1>4, <1>5, <1>6, <1>7, <1>8, <1>9, <1>10 DEF WorkerStep

LEMMA OnceProcess ==
  ASSUME OInv, [Next]_vars, NEW p \in Procs, Shutdown(p) \/ Crash(p) \/ Restart(p)
  PROVE  \A d \in Claims : History(d)'
<1>t. TypeOK /\ WorkerHasClaim
  BY DEF OInv, TInv
<1>1. \A q \in Procs : /\ worker'[q].claim \in Claims => worker'[q].claim = worker[q].claim
                       /\ worker'[q] = worker[q] \/ worker'[q].pc \in Acking
                            \/ worker'[q].claim \notin Claims
  BY <1>t, NoClaimAssumption DEF Shutdown, Crash, Restart, Goto, Bare, TypeOK, Locals, Acking,
     WorkerHasClaim, Busy, Processing, Failing
<1>2. \A d \in Claims : req'[d].state \in {req[d].state, "failed"}
  BY DEF Shutdown, Crash, Restart
<1>3. \A r \in Reviewers : review'[r] = review[r] \/ review'[r].claim \notin Claims
  BY NoClaimAssumption DEF Shutdown, Crash, Restart, NoReview
<1>4. UNCHANGED <<record, msg, verdicts>>
  BY DEF Shutdown, Crash, Restart
<1>5. \A d \in Claims : Aside(d)
  BY <1>1, <1>2, <1>3, <1>4 DEF Aside, MessageStays, Holds
<1> QED BY <1>5, AsideKeeps

LEMMA AdjudicatedTwice ==
  ASSUME NEW r \in Lifecycle!Record, NEW v \in Lifecycle!Verdicts
  PROVE  /\ Lifecycle!Adjudicated(r, v).status = "completed"
         /\ Lifecycle!Adjudicated(Lifecycle!Adjudicated(r, v), v) = Lifecycle!Adjudicated(r, v)
  BY DEF Lifecycle!Adjudicated, Lifecycle!Record

LEMMA OnceReview ==
  ASSUME OInv, [Next]_vars, NEW r \in Reviewers,
         DecisionSave(r) \/ \E p \in Procs, c \in Claims : DecisionLoad(r, p, c)
  PROVE  \A d \in Claims : History(d)'
<1>t. TypeOK /\ ReviewHasClaim
  BY DEF OInv, TInv
<1>1. ASSUME NEW p \in Procs, NEW c \in Claims, DecisionLoad(r, p, c)
      PROVE  \A d \in Claims : History(d)'
  <2>1. /\ UNCHANGED <<record, msg, req, worker, verdicts>>
        /\ record[c].status = "escalated"
        /\ review'[r].claim = c /\ review'[r].snap = record[c]
        /\ \A s \in Reviewers : s # r => review'[s] = review[s]
    BY <1>1, <1>t DEF DecisionLoad, TypeOK
  <2>2. ASSUME NEW d \in Claims, d # c PROVE Aside(d)
    BY <2>1, <2>2 DEF Aside, MessageStays, Holds
  <2>3. History(c) /\ msg[c].delivery \in Nat
    BY <1>t DEF OInv, TypeOK, Message
  <2>4. msg[c].delivery >= 1
    BY <2>1, <2>3, Statuses DEF History, Untaken
  <2>5. Bounded(c)' /\ Untaken(c)' /\ Delivered(c)'
    BY <2>1, <2>3, <2>4 DEF History, Bounded, Untaken, Delivered, Holds
  <2>6. Lone(c)' => Alone(c)'
    <3>1. Lone(c)' => Lone(c)
      BY <2>1, <1>1 DEF Lone, DecisionLoad
    <3> QED BY <3>1, <2>1, <2>3 DEF History, Alone, Holds, Says
  <2> QED BY <2>2, <2>5, <2>6, AsideKeeps DEF History
<1>2. CASE DecisionSave(r)
  <2>c. PICK c \in Claims : c = review[r].claim
    BY <1>2, <1>t DEF DecisionSave, ReviewHasClaim
  <2>1. review[r].snap \in Lifecycle!Record
    BY <1>t DEF TypeOK, Review
  <2>2. PICK v \in Lifecycle!Verdicts :
          LET decided == Lifecycle!Adjudicated(review[r].snap, v)
          IN  \/ /\ Save(review[r].proc, c, decided)
                 /\ verdicts' = [verdicts EXCEPT ![c] = @ \cup {v}]
                 /\ UNCHANGED faults
              \/ SaveRaises(c, decided) /\ UNCHANGED verdicts
    BY <1>2, <2>c DEF DecisionSave
  <2> DEFINE decided == Lifecycle!Adjudicated(review[r].snap, v)
  <2>u. /\ UNCHANGED <<msg, req, worker>>
        /\ review'[r].claim = NoClaim
        /\ \A s \in Reviewers : s # r => review'[s] = review[s]
    BY <1>2, <1>t DEF DecisionSave, NoReview, TypeOK
  <2>d. /\ \A d \in Claims : d # c => record'[d] = record[d] /\ verdicts'[d] = verdicts[d]
        /\ record'[c] \in {record[c], decided}
    BY <2>1, <2>2, <1>t DEF Save, SaveRaises, TypeOK
  <2>3. ASSUME NEW d \in Claims, d # c PROVE Aside(d)
    BY <2>u, <2>d, <2>3, NoClaimAssumption DEF Aside, MessageStays, Holds
  <2>4. History(c) /\ msg[c].delivery \in Nat /\ msg[c].delivery >= 1
    BY <2>c, <1>t DEF OInv, TypeOK, Message, History, Delivered
  <2>5. Bounded(c)' /\ Untaken(c)' /\ Delivered(c)'
    BY <2>1, <2>u, <2>4, <2>d, NoClaimAssumption DEF History, Bounded, Untaken, Delivered, Holds
  <2>6. ASSUME Lone(c)' PROVE Alone(c)'
    <3>1. Lone(c) /\ Alone(c) /\ record[c].status \in {"escalated", "completed"}
      BY <2>6, <2>u, <2>4, <2>c, LostGrows DEF Lone, History, Alone, OInv
    <3>2. \A q \in Procs : Holds(q, c) => worker[q].pc \notin Processing \cup Failing
      BY <3>1, Resting DEF Alone
    <3>3. \A q \in Procs : Holds(q, c)' => InStep(worker'[q], record'[c])
      BY <3>2, <2>u, Resting DEF Holds
    <3>4. CASE UNCHANGED <<record, verdicts>>
      BY <3>1, <3>3, <3>4, <2>u, <2>1, NoClaimAssumption DEF Alone, Holds, Says
    <3>5. CASE /\ record' = [record EXCEPT ![c] = decided]
               /\ verdicts' = [verdicts EXCEPT ![c] = @ \cup {v}]
      <4>1. record'[c] = decided /\ verdicts'[c] = verdicts[c] \cup {v}
        BY <3>5, <2>1, <1>t DEF TypeOK
      <4>2. \A w \in Lifecycle!Verdicts : verdicts'[c] = {w} => Says(c, w)'
        BY <4>1, <2>1, AdjudicatedTwice DEF Says
      <4>3. record'[c].status = "completed"
        BY <4>1, <2>1, AdjudicatedTwice
      <4> QED BY <3>1, <3>3, <4>2, <4>3, <2>u DEF Alone, Holds
    <3> QED BY <2>2, <3>4, <3>5, <2>6, RaisesLost DEF Save
  <2> QED BY <2>3, <2>5, <2>6, AsideKeeps DEF History
<1> QED BY <1>1, <1>2

LEMMA OnceStep == OInv /\ [Next]_vars => OInv'
<1> SUFFICES ASSUME OInv, [Next]_vars PROVE \A d \in Claims : History(d)'
  BY TypeStep DEF OInv
<1>1. CASE UNCHANGED vars
  BY <1>1, AsideKeeps DEF vars, Aside, MessageStays, Holds
<1>2. ASSUME NEW c \in Claims,
             \/ SubmitEnqueue(c) \/ LockReleased(c) \/ LockOverruns(c) \/ MessageExpires(c)
             \/ RecordExpires(c) \/ \E p \in Procs : SubmitCreate(p, c) \/ Dequeue(p, c)
      PROVE  \A d \in Claims : History(d)'
  BY <1>2, OnceBroker, OnceCreate, OnceDequeue
<1>3. ASSUME NEW p \in Procs, WorkerStep(p) \/ WorkerFault(p)
      PROVE  \A d \in Claims : History(d)'
  BY <1>3, OnceWorker, OnceDequeueRaises DEF WorkerFault
<1>4. ASSUME NEW p \in Procs, Shutdown(p) \/ Crash(p) \/ Restart(p)
      PROVE  \A d \in Claims : History(d)'
  BY <1>4, OnceProcess
<1>5. ASSUME NEW r \in Reviewers,
             DecisionSave(r) \/ \E p \in Procs, c \in Claims : DecisionLoad(r, p, c)
      PROVE  \A d \in Claims : History(d)'
  BY <1>5, OnceReview
<1> QED BY <1>1, <1>2, <1>3, <1>4, <1>5 DEF Next

-----------------------------------------------------------------------------
(* With one delivery per message and one reviewer *)

(***************************************************************************)
(* One delivery per message, no save that takes effect and then raises,    *)
(* and one reviewer at a time.  Failed calls, shutdowns, crashes, expiries *)
(* of messages and of records, and overrun locks may occur in any number.  *)
(* Each of the three premises is needed: a second delivery starts a        *)
(* concluded claim anew, a lost reply makes the except clause reload a     *)
(* concluded record, and a second reviewer saves over the verdict of the   *)
(* first.                                                                  *)
(***************************************************************************)
DeliveredOnce ==
  /\ MaxDelivery = 1
  /\ MaxFaults["lost_reply"] = 0
  /\ \A r, s \in Reviewers : r = s

\* A decision in flight is about the record as it is stored.
Current(r) == review[r] # NoReview => review[r].snap = record[review[r].claim]

Undisturbed == /\ OInv
               /\ faults["lost_reply"] = 0
               /\ \A r \in Reviewers : Current(r)

LEMMA AllLone ==
  ASSUME DeliveredOnce, Undisturbed, NEW c \in Claims
  PROVE  Lone(c) /\ Alone(c)
  BY DEF DeliveredOnce, Undisturbed, OInv, History, Bounded, Lone

\* A store call that raises has then changed nothing.
LEMMA RaisesUnchanged ==
  ASSUME DeliveredOnce, Undisturbed, NEW c, NEW r, SaveRaises(c, r)
  PROVE  UNCHANGED <<record, ids>> /\ ~Fault("lost_reply")
  BY DEF DeliveredOnce, Undisturbed, SaveRaises, Fault

\* The verdict goes onto the record that was loaded, as it is still stored.
LEMMA DecisionEffect ==
  ASSUME DeliveredOnce, Undisturbed, NEW r \in Reviewers, DecisionSave(r)
  PROVE  LET c == review[r].claim
         IN  /\ c \in Claims /\ record[c].status = "escalated"
             /\ \E v \in Lifecycle!Verdicts :
                  \/ /\ record' = [record EXCEPT ![c] = Lifecycle!Adjudicated(record[c], v)]
                     /\ verdicts' = [verdicts EXCEPT ![c] = @ \cup {v}]
                  \/ UNCHANGED <<record, verdicts>>
<1> DEFINE c == review[r].claim
<1>1. c \in Claims /\ review[r].snap = record[c]
  BY DEF DecisionSave, Undisturbed, Current, OInv, TInv, ReviewHasClaim
<1>2. record[c].status = "escalated"
  BY <1>1 DEF Undisturbed, OInv, History, Delivered
<1>3. PICK v \in Lifecycle!Verdicts :
        LET decided == Lifecycle!Adjudicated(record[c], v)
        IN  \/ /\ Save(review[r].proc, c, decided)
               /\ verdicts' = [verdicts EXCEPT ![c] = @ \cup {v}]
            \/ SaveRaises(c, decided) /\ UNCHANGED verdicts
  BY <1>1 DEF DecisionSave
<1> QED BY <1>1, <1>2, <1>3, RaisesUnchanged DEF Save

\* What a worker writes is the next record in the life of its claim.
LEMMA WorkerImplements ==
  ASSUME DeliveredOnce, Undisturbed, NEW p \in Procs, WorkerStep(p) \/ WorkerFault(p)
  PROVE  \/ UNCHANGED record
         \/ \E c \in Claims : /\ record[c].status \in {"pending", "processing"}
                              /\ Lifecycle!Start(c) \/ Lifecycle!Conclude(c) \/ Lifecycle!Fail(c)
<1> DEFINE c == worker[p].claim
<1>b. worker[p].pc \in Busy => c \in Claims /\ InStep(worker[p], record[c])
  BY AllLone DEF Undisturbed, OInv, TInv, WorkerHasClaim, Alone, Holds
<1>s. ASSUME Save(p, c, worker[p].snap) PROVE Lifecycle!Become(c, worker[p].snap)
  BY <1>s DEF Save, Lifecycle!Become
<1>1. CASE MarkProcessing(p)
  <2>1. c \in Claims /\ InStep(worker[p], record[c])
    BY <1>1, <1>b DEF MarkProcessing, Busy, Processing
  <2>2. record[c].status = "pending"
    BY <1>1, <2>1, Statuses DEF MarkProcessing, InStep
  <2>3. Lifecycle!Start(c)
    BY <1>1, <1>s, <2>1, <2>2 DEF MarkProcessing, InStep, Lifecycle!Start
  <2> QED BY <2>1, <2>2, <2>3
<1>2. CASE SaveResult(p)
  <2>1. c \in Claims /\ InStep(worker[p], record[c])
    BY <1>2, <1>b DEF SaveResult, Busy, Processing
  <2>2. Lifecycle!Conclude(c)
    BY <1>2, <1>s, <2>1 DEF SaveResult, InStep, Lifecycle!Conclude
  <2> QED BY <2>1, <2>2 DEF Lifecycle!Conclude
<1>3. CASE FailSave(p)
  <2>1. c \in Claims /\ InStep(worker[p], record[c])
    BY <1>3, <1>b DEF FailSave, Busy, Failing
  <2>2. Lifecycle!Fail(c)
    BY <1>3, <1>s, <2>1 DEF FailSave, InStep, Lifecycle!Fail
  <2> QED BY <2>1, <2>2 DEF Lifecycle!Fail
<1>4. CASE ProcessRaises(p) \/ FailRaises(p)
  BY <1>4, RaisesUnchanged DEF ProcessRaises, FailRaises, LoadRaises
<1> QED BY <1>1, <1>2, <1>3, <1>4
        DEF WorkerStep, WorkerFault, Load, RunGraph, GraphRaises, FailLoad, Ack, DequeueRaises

\* The record only moves along the life of a claim.
LEMMA StepImplements ==
  ASSUME DeliveredOnce, Undisturbed, [Next]_vars
  PROVE  [Lifecycle!Next]_record
<1> SUFFICES ASSUME Next PROVE [Lifecycle!Next]_record
  BY DEF vars
<1>1. ASSUME NEW c \in Claims, NEW p \in Procs, SubmitCreate(p, c)
      PROVE  [Lifecycle!Next]_record
  <2>1. record[c].status = "absent"
    BY <1>1, Statuses DEF SubmitCreate, Undisturbed, OInv, History, Untaken
  <2>2. \/ UNCHANGED record
        \/ record' = [record EXCEPT ![c] = Lifecycle!Fresh]
    BY <1>1, RaisesUnchanged DEF SubmitCreate, Save
  <2> QED BY <2>1, <2>2 DEF Lifecycle!Next, Lifecycle!Accept, Lifecycle!Become
<1>2. ASSUME NEW p \in Procs, WorkerStep(p) \/ WorkerFault(p)
      PROVE  [Lifecycle!Next]_record
  BY <1>2, WorkerImplements DEF Lifecycle!Next
<1>3. ASSUME NEW r \in Reviewers, DecisionSave(r)
      PROVE  [Lifecycle!Next]_record
  <2> DEFINE c == review[r].claim
  <2>1. c \in Claims /\ record[c].status = "escalated"
    BY <1>3, DecisionEffect
  <2>2. PICK v \in Lifecycle!Verdicts :
          \/ record' = [record EXCEPT ![c] = Lifecycle!Adjudicated(record[c], v)]
          \/ UNCHANGED record
    BY <1>3, DecisionEffect
  <2> QED BY <2>1, <2>2 DEF Lifecycle!Next, Lifecycle!Adjudicate, Lifecycle!Become
<1>4. ASSUME NEW c \in Claims, RecordExpires(c)
      PROVE  [Lifecycle!Next]_record
  BY <1>4 DEF RecordExpires, Lifecycle!Next, Lifecycle!Expire, Lifecycle!Become
<1> QED BY <1>1, <1>2, <1>3, <1>4
        DEF Next, SubmitEnqueue, LockReleased, LockOverruns, MessageExpires, Dequeue, Shutdown,
            Crash, Restart, DecisionLoad

LEMMA UndisturbedInit == Init => Undisturbed
  BY OnceInit DEF Init, Undisturbed, Current, FaultKinds

\* A record that a reviewer has loaded changes by that reviewer's hand only.
LEMMA UndisturbedStep == DeliveredOnce /\ Undisturbed /\ [Next]_vars => Undisturbed'
<1> SUFFICES ASSUME DeliveredOnce, Undisturbed, [Next]_vars PROVE Undisturbed'
  OBVIOUS
<1>t. OInv' /\ TypeOK /\ ReviewHasClaim
  BY OnceStep DEF Undisturbed, OInv, TInv
<1>1. faults'["lost_reply"] = 0
  <2>1. UNCHANGED faults \/ \E j \in FaultKinds : Fault(j)
    BY DEF Next, vars, SubmitEnqueue, LockReleased, LockOverruns, MessageExpires, RecordExpires,
       SubmitCreate, Dequeue, WorkerStep, Load, MarkProcessing, RunGraph, GraphRaises,
       SaveResult, FailLoad, FailSave, Ack, WorkerFault, DequeueRaises, ProcessRaises,
       FailRaises, Shutdown, Crash, Restart, DecisionLoad, DecisionSave, SaveRaises, LoadRaises,
       FaultKinds
  <2>2. \A j \in FaultKinds : Fault(j) => j # "lost_reply"
    BY DEF Fault, DeliveredOnce, Undisturbed
  <2> QED BY <1>t, <2>1, <2>2 DEF Fault, Undisturbed, TypeOK, FaultKinds
<1>2. ASSUME NEW r \in Reviewers, review'[r] # NoReview
      PROVE  review'[r].snap = record'[review'[r].claim]
  <2>u. CASE UNCHANGED <<record, review>>
    BY <1>2, <2>u DEF Undisturbed, Current
  <2>1. CASE \E p \in Procs, c \in Claims, s \in Reviewers : DecisionLoad(s, p, c)
    BY <1>2, <1>t, <2>1 DEF DecisionLoad, DeliveredOnce, TypeOK
  <2>2. CASE \E s \in Reviewers : DecisionSave(s)
    BY <1>2, <1>t, <2>2 DEF DecisionSave, DeliveredOnce, TypeOK
  <2>3. CASE \E p \in Procs : Crash(p) /\ UNCHANGED record
    BY <1>2, <2>3 DEF Crash, Undisturbed, Current
  <2> DEFINE c == review[r].claim
  <2>4. ASSUME UNCHANGED review
        PROVE  /\ c \in Claims /\ record[c].status = "escalated"
               /\ review[r].snap = record[c] /\ review'[r].claim = c
    BY <1>2, <1>t, <2>4 DEF Undisturbed, OInv, Current, History, Delivered, ReviewHasClaim
  <2>5. CASE \E p \in Procs : WorkerStep(p) \/ WorkerFault(p)
    <3>1. UNCHANGED review
      BY <2>5 DEF WorkerStep, Load, MarkProcessing, RunGraph, GraphRaises, SaveResult,
         FailLoad, FailSave, Ack, WorkerFault, DequeueRaises, ProcessRaises, FailRaises
    <3>2. record'[c] = record[c]
      BY <2>4, <2>5, <3>1, WorkerImplements, <1>t DEF Lifecycle!Start, Lifecycle!Conclude,
         Lifecycle!Fail, Lifecycle!Become, TypeOK
    <3> QED BY <2>4, <3>1, <3>2
  <2>6. CASE \E d \in Claims, p \in Procs : SubmitCreate(p, d)
    <3>1. PICK d \in Claims, p \in Procs : SubmitCreate(p, d)
      BY <2>6
    <3>2. record[d].status = "absent" /\ UNCHANGED review
      BY <3>1, Statuses DEF SubmitCreate, Undisturbed, OInv, History, Untaken
    <3>3. record'[c] = record[c]
      BY <2>4, <3>1, <3>2, <1>t DEF SubmitCreate, Save, SaveRaises, TypeOK
    <3> QED BY <2>4, <3>2, <3>3
  <2>7. CASE \E d \in Claims : RecordExpires(d)
    BY <2>4, <2>7, <1>t DEF RecordExpires, InUse, TypeOK
  <2> QED BY <2>u, <2>1, <2>2, <2>3, <2>5, <2>6, <2>7 DEF Next, vars, SubmitEnqueue,
          LockReleased, LockOverruns, MessageExpires, Dequeue, Shutdown, Crash, Restart
<1> QED BY <1>t, <1>1, <1>2 DEF Undisturbed, Current

-----------------------------------------------------------------------------
(* The theorems *)

\* Whatever the number of processes, reviewers, claims and faults: as long as
\* the claim's message was delivered once at most and no reply was lost, the
\* one verdict answered with 200 is what the record says until it expires.
\* Neither the worker that escalated it, nor a failed save, nor a reviewer who
\* was refused or whose save failed, nor a restart writes over it.
THEOREM VerdictStands == Spec => []LoneVerdictStands
<1>1. OInv /\ [Next]_vars => OInv'
  BY OnceStep
<1>2. OInv => LoneVerdictStands
  BY DEF OInv, History, Alone, LoneVerdictStands
<1> QED BY <1>1, <1>2, OnceInit, PTL DEF Spec

\* A verdict is recorded on a claim that is escalated at that moment, which a
\* second reviewer would break.
THEOREM DecidesEscalated == DeliveredOnce => (Spec => DecideFromEscalated)
<1> SUFFICES ASSUME DeliveredOnce PROVE Spec => DecideFromEscalated
  OBVIOUS
<1> DEFINE Decides == \A c \in Claims :
                        verdicts'[c] # verdicts[c] => record[c].status = "escalated"
<1>1. Undisturbed /\ [Next]_vars => Undisturbed'
  BY UndisturbedStep
<1>2. Undisturbed /\ [Next]_vars => [Decides]_vars
  <2> SUFFICES ASSUME Undisturbed, Next, verdicts' # verdicts PROVE Decides
    BY DEF vars
  <2>1. PICK r \in Reviewers : DecisionSave(r)
    BY DEF Next, SubmitEnqueue, LockReleased, LockOverruns, MessageExpires, RecordExpires,
       SubmitCreate, Dequeue, WorkerStep, Load, MarkProcessing, RunGraph, GraphRaises,
       SaveResult, FailLoad, FailSave, Ack, WorkerFault, DequeueRaises, ProcessRaises,
       FailRaises, Shutdown, Crash, Restart, DecisionLoad
  <2> QED BY <2>1, DecisionEffect DEF Undisturbed, OInv, TInv, TypeOK
<1> QED BY <1>1, <1>2, UndisturbedInit, PTL DEF Spec, DecideFromEscalated

\* Delivered at most once, the service implements ClaimLifecycle: whatever the
\* processes, failed calls, shutdowns, crashes and expiries, a record goes from
\* accepted to taken up to concluded or failed, from escalated to a verdict,
\* and from there nowhere but out of the store.
THEOREM ServiceImplements == DeliveredOnce => (Spec => ImplementsLifecycle)
<1> SUFFICES ASSUME DeliveredOnce PROVE Spec => ImplementsLifecycle
  OBVIOUS
<1>1. Init => Lifecycle!Init
  BY DEF Init, Lifecycle!Init
<1>2. Undisturbed /\ [Next]_vars => Undisturbed'
  BY UndisturbedStep
<1>3. Undisturbed /\ [Next]_vars => [Lifecycle!Next]_record
  BY StepImplements
<1> QED BY <1>1, <1>2, <1>3, UndisturbedInit, PTL DEF Spec, ImplementsLifecycle, Lifecycle!Spec
=============================================================================
