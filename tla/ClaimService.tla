---------------------------- MODULE ClaimService ----------------------------
(***************************************************************************)
(* The claim service: API request handlers, the message broker, the        *)
(* background workers and the stored claim records, with what goes wrong   *)
(* between them.                                                           *)
(*                                                                         *)
(* Every process runs one worker task (api/worker.py, run_worker) over its *)
(* own ClaimStore; an API process also serves requests (api/main.py), the  *)
(* others are the standalone worker (api/worker_main.py).  Records and     *)
(* messages live outside the processes and outlive them.  Each await that  *)
(* reaches the store or the broker is one atomic step; a handler yields    *)
(* between them, so what it loaded can be stale when it saves.             *)
(***************************************************************************)
EXTENDS Naturals, FiniteSets

CONSTANTS Claims,       \* claim ids; submit_claim mints each of them once
          NoClaim,      \* "no message in hand"
          Procs,        \* processes, each with one worker task
          NoProc,       \* "no process"
          ApiProcs,     \* those of them that serve the API
          Reviewers,    \* admins, each with at most one decision in flight
          MaxDelivery,  \* the broker's maxDeliveryCount
          MaxFaults     \* bound on the faults of each kind

(***************************************************************************)
(* Faults, counted so that a run can bound them:                           *)
(*   io         a store or broker call raises and had no effect            *)
(*   lost_reply a store or broker call raises but took effect              *)
(*   cancel     a process is shut down gracefully (SIGTERM)                *)
(*   crash      a process dies between two steps                           *)
(*   overrun    a worker outlives the message lock it holds                *)
(*   ttl        a message outlives its time to live in the queue           *)
(*   expiry     a record outlives its time to live in the store            *)
(***************************************************************************)
FaultKinds == {"io", "lost_reply", "cancel", "crash", "overrun", "ttl", "expiry"}

ASSUME ProcsAssumption    == ApiProcs \subseteq Procs
ASSUME NoClaimAssumption  == NoClaim \notin Claims
ASSUME NoProcAssumption   == NoProc \notin Procs
ASSUME DeliveryAssumption == MaxDelivery \in Nat \ {0}
ASSUME FaultsAssumption   == MaxFaults \in [FaultKinds -> Nat]

VARIABLES record,    \* Claims -> ClaimRecord, the Checkpointer's documents
          msg,       \* Claims -> the claim's message in the broker
          req,       \* Claims -> the submit_claim request that mints the claim
          worker,    \* Procs -> run_worker's local state
          ids,       \* Procs -> ClaimStore._ids
          review,    \* Reviewers -> the human_decision request in flight
          verdicts,  \* Claims -> verdicts answered with 200 (history)
          faults     \* FaultKinds -> faults so far

vars == <<record, msg, req, worker, ids, review, verdicts, faults>>

\* ClaimRecord and its transformations are the abstract specification's.
Lifecycle == INSTANCE ClaimLifecycle WITH Claims <- Claims, record <- record

-----------------------------------------------------------------------------
(* States *)

\* Where run_worker is.  The three "ack" states differ in what follows the
\* finally clause: the next dequeue, the task's death, or the process's exit.
Acking     == {"ack", "ack_raise", "ack_cancel"}
Processing == {"load", "mark", "graph", "save"}     \* in _process_claim
Failing    == {"fail_load", "fail_save"}            \* in the except clause
WorkerPc   == {"idle", "dead", "down"} \cup Processing \cup Failing \cup Acking

Locals == [pc   : WorkerPc,
           claim: Claims \cup {NoClaim},
           lock : Nat,                  \* the delivery whose lock it was given
           snap : Lifecycle!Record]     \* the record it holds in memory

\* A worker with no message in hand.
Bare(pc) == [pc |-> pc, claim |-> NoClaim, lock |-> 0, snap |-> Lifecycle!Absent]

Message == [state: {"none", "ready", "locked", "settled", "dead"}, delivery: Nat]

Request == [state: {"new", "created", "done", "failed"}, proc: Procs \cup {NoProc}]

NoReview == [claim |-> NoClaim, proc |-> NoProc, snap |-> Lifecycle!Absent]
Review == [claim: Claims \cup {NoClaim}, proc: Procs \cup {NoProc},
           snap: Lifecycle!Record]

Up(p) == worker[p].pc # "down"

Terminal(r) == r.status \in {"completed", "escalated", "error"}

\* p's hold on the message is the one the broker gave out last.
LockValid(p) == /\ msg[worker[p].claim].state = "locked"
                /\ msg[worker[p].claim].delivery = worker[p].lock

-----------------------------------------------------------------------------
Init == /\ record = [c \in Claims |-> Lifecycle!Absent]
        /\ msg = [c \in Claims |-> [state |-> "none", delivery |-> 0]]
        /\ req = [c \in Claims |-> [state |-> "new", proc |-> NoProc]]
        /\ worker = [p \in Procs |-> Bare("idle")]
        /\ ids = [p \in Procs |-> {}]
        /\ review = [r \in Reviewers |-> NoReview]
        /\ verdicts = [c \in Claims |-> {}]
        /\ faults = [k \in FaultKinds |-> 0]

Fault(k) == /\ faults[k] < MaxFaults[k]
            /\ faults' = [faults EXCEPT ![k] = @ + 1]

\* Mutant of Save: the id is not remembered.
SaveUnlisted(p, c, r) == record' = [record EXCEPT ![c] = r] /\ UNCHANGED ids

\* ClaimStore.save (and create) on process p: upsert, last write wins, then
\* remember the id for list_claims.
Save(p, c, r) == /\ record' = [record EXCEPT ![c] = r]
                 /\ ids' = [ids EXCEPT ![p] = @ \cup {c}]

\* A save that raises: the upsert may have been applied, the id is not noted.
SaveRaises(c, r) == /\ \/ Fault("io") /\ UNCHANGED record
                       \/ Fault("lost_reply") /\ record' = [record EXCEPT ![c] = r]
                    /\ UNCHANGED ids

\* A load that raises.
LoadRaises == Fault("io") /\ UNCHANGED <<record, ids>>

\* The worker task of p has claim c's message in hand.
Holds(p, c) == worker[p].claim = c

\* A worker or a request handler works on the claim.
InUse(c) == \/ \E p \in Procs : Holds(p, c)
            \/ \E r \in Reviewers : review[r].claim = c
            \/ req[c].state = "created"

\* The store drops a record a day after it was last written: long after any
\* handler that had a copy of it has saved or discarded that copy.
RecordExpires(c) ==
  /\ record[c] # Lifecycle!Absent /\ ~InUse(c)
  /\ Fault("expiry")
  /\ record' = [record EXCEPT ![c] = Lifecycle!Absent]
  /\ UNCHANGED <<msg, req, worker, ids, review, verdicts>>

-----------------------------------------------------------------------------
(* POST /v1/claims: store.create, then queue.enqueue *)

SubmitCreate(p, c) ==
  /\ p \in ApiProcs /\ Up(p)
  /\ req[c].state = "new"
  /\ \/ /\ Save(p, c, Lifecycle!Fresh)
        /\ req' = [req EXCEPT ![c] = [state |-> "created", proc |-> p]]
        /\ UNCHANGED faults
     \/ /\ SaveRaises(c, Lifecycle!Fresh)
        /\ req' = [req EXCEPT ![c].state = "failed"]
  /\ UNCHANGED <<msg, worker, review, verdicts>>

SubmitEnqueue(c) ==
  LET Send == msg' = [msg EXCEPT ![c].state = "ready"]
      Answer(s) == req' = [req EXCEPT ![c] = [state |-> s, proc |-> NoProc]]
  IN  /\ req[c].state = "created"
      /\ \/ Send /\ Answer("done") /\ UNCHANGED faults
         \/ Send /\ Answer("failed") /\ Fault("lost_reply")
         \/ UNCHANGED msg /\ Answer("failed") /\ Fault("io")
      /\ UNCHANGED <<record, worker, ids, review, verdicts>>

-----------------------------------------------------------------------------
(* The broker: peek-lock delivery *)

\* A message is handed out under a lock.
Locked(c) == [msg EXCEPT ![c] = [state |-> "locked", delivery |-> @.delivery + 1]]

\* A message whose lock ran out is delivered again, up to the limit.
Unlocked(c) == [msg EXCEPT ![c].state =
                  IF msg[c].delivery < MaxDelivery THEN "ready" ELSE "dead"]

Held(c) == \E p \in Procs : Holds(p, c) /\ LockValid(p)

\* The lock runs out some time after its worker is gone ...
LockReleased(c) ==
  /\ msg[c].state = "locked" /\ ~Held(c)
  /\ msg' = Unlocked(c)
  /\ UNCHANGED <<record, req, worker, ids, review, verdicts, faults>>

\* ... or while its worker is still at it.
LockOverruns(c) ==
  /\ msg[c].state = "locked" /\ Held(c)
  /\ Fault("overrun")
  /\ msg' = Unlocked(c)
  /\ UNCHANGED <<record, req, worker, ids, review, verdicts>>

\* The message expires before anyone takes it and is dead-lettered.
MessageExpires(c) ==
  /\ msg[c].state = "ready"
  /\ Fault("ttl")
  /\ msg' = [msg EXCEPT ![c].state = "dead"]
  /\ UNCHANGED <<record, req, worker, ids, review, verdicts>>

-----------------------------------------------------------------------------
(* run_worker *)

Goto(p, pc) == worker' = [worker EXCEPT ![p].pc = pc]
Keep(p, pc, r) == worker' = [worker EXCEPT ![p].pc = pc, ![p].snap = r]

\* Mutant of Dequeue: receive-and-delete instead of peek-lock.
DequeueDeletes(p, c) ==
  /\ worker[p].pc = "idle"
  /\ msg[c].state = "ready"
  /\ msg' = [msg EXCEPT ![c] = [state |-> "settled", delivery |-> @.delivery + 1]]
  /\ worker' = [worker EXCEPT ![p] =
                  [Bare("load") EXCEPT !.claim = c, !.lock = msg[c].delivery + 1]]
  /\ UNCHANGED <<record, req, ids, review, verdicts, faults>>

Dequeue(p, c) ==
  /\ worker[p].pc = "idle"
  /\ msg[c].state = "ready"
  /\ msg' = Locked(c)
  /\ worker' = [worker EXCEPT ![p] =
                  [Bare("load") EXCEPT !.claim = c, !.lock = msg[c].delivery + 1]]
  /\ UNCHANGED <<record, req, ids, review, verdicts, faults>>

\* dequeue is outside the try: an exception from it ends the worker task, and
\* the broker may have locked a message for the worker by then.
DequeueRaises(p) ==
  /\ worker[p].pc = "idle"
  /\ \/ Fault("io") /\ UNCHANGED msg
     \/ \E c \in Claims : /\ msg[c].state = "ready"
                          /\ Fault("lost_reply") /\ msg' = Locked(c)
  /\ Goto(p, "dead")
  /\ UNCHANGED <<record, req, ids, review, verdicts>>

\* Mutant of Load: the record is not marked as processing.
LoadUnmarked(p) ==
  /\ worker[p].pc = "load"
  /\ LET r == record[worker[p].claim]
     IN  IF r = Lifecycle!Absent THEN Goto(p, "ack") ELSE Keep(p, "mark", r)
  /\ UNCHANGED <<record, msg, req, ids, review, verdicts, faults>>

\* _process_claim: load the record; without one there is nothing to do.
Load(p) ==
  /\ worker[p].pc = "load"
  /\ LET r == record[worker[p].claim]
     IN  IF r = Lifecycle!Absent
         THEN Goto(p, "ack")
         ELSE Keep(p, "mark", [r EXCEPT !.status = "processing"])
  /\ UNCHANGED <<record, msg, req, ids, review, verdicts, faults>>

\* Save it as "processing", whatever it has become since the load.
MarkProcessing(p) ==
  /\ worker[p].pc = "mark"
  /\ Save(p, worker[p].claim, worker[p].snap)
  /\ Goto(p, "graph")
  /\ UNCHANGED <<msg, req, review, verdicts, faults>>

\* What the graph can conclude on p.  The standalone worker builds its graph
\* without a RagPipeline, so retrieval raises and the error path escalates.
GraphDispositions(p) ==
  IF p \in ApiProcs THEN Lifecycle!Dispositions ELSE {"escalated"}

RunGraph(p) ==
  /\ worker[p].pc = "graph"
  /\ \E d \in GraphDispositions(p) :
       Keep(p, "save", Lifecycle!Concluded(worker[p].snap, d))
  /\ UNCHANGED <<record, msg, req, ids, review, verdicts, faults>>

\* Mutant of GraphRaises: the exception passes the except clause by.
GraphRaisesOn(p) ==
  /\ worker[p].pc = "graph"
  /\ Goto(p, "ack_raise")
  /\ UNCHANGED <<record, msg, req, ids, review, verdicts, faults>>

\* The graph itself raises, outside the nodes' error capture.
GraphRaises(p) ==
  /\ worker[p].pc = "graph"
  /\ Goto(p, "fail_load")
  /\ UNCHANGED <<record, msg, req, ids, review, verdicts, faults>>

\* Mutant of SaveResult: the save is retried although it was done.
SaveResultAgain(p) ==
  /\ worker[p].pc = "save"
  /\ Save(p, worker[p].claim, worker[p].snap)
  /\ Goto(p, "ack") \/ UNCHANGED worker
  /\ UNCHANGED <<msg, req, review, verdicts, faults>>

SaveResult(p) ==
  /\ worker[p].pc = "save"
  /\ Save(p, worker[p].claim, worker[p].snap)
  /\ Goto(p, "ack")
  /\ UNCHANGED <<msg, req, review, verdicts, faults>>

\* A store call of _process_claim raises: on to the except clause.
ProcessRaises(p) ==
  /\ \/ worker[p].pc = "load" /\ LoadRaises
     \/ worker[p].pc \in {"mark", "save"} /\ SaveRaises(worker[p].claim, worker[p].snap)
  /\ Goto(p, "fail_load")
  /\ UNCHANGED <<msg, req, review, verdicts>>

\* Mutant of FailLoad: the except clause logs and stores nothing.
FailLoadLogsOnly(p) ==
  /\ worker[p].pc = "fail_load"
  /\ Goto(p, "ack")
  /\ UNCHANGED <<record, msg, req, ids, review, verdicts, faults>>

\* The except clause reloads the record and marks it failed.
FailLoad(p) ==
  /\ worker[p].pc = "fail_load"
  /\ LET r == record[worker[p].claim]
     IN  IF r = Lifecycle!Absent
         THEN Goto(p, "ack")
         ELSE Keep(p, "fail_save", [r EXCEPT !.status = "error"])
  /\ UNCHANGED <<record, msg, req, ids, review, verdicts, faults>>

FailSave(p) ==
  /\ worker[p].pc = "fail_save"
  /\ Save(p, worker[p].claim, worker[p].snap)
  /\ Goto(p, "ack")
  /\ UNCHANGED <<msg, req, review, verdicts, faults>>

\* The except clause raises in turn: finally acks, then the task dies.
FailRaises(p) ==
  /\ \/ worker[p].pc = "fail_load" /\ LoadRaises
     \/ worker[p].pc = "fail_save" /\ SaveRaises(worker[p].claim, worker[p].snap)
  /\ Goto(p, "ack_raise")
  /\ UNCHANGED <<msg, req, review, verdicts>>

\* finally: settle the message if the lock still holds.  Errors of ack are
\* suppressed, so a lost lock or a failed call leaves the message to expire.
AfterAck(pc) == CASE pc = "ack" -> "idle"
                  [] pc = "ack_raise" -> "dead"
                  [] pc = "ack_cancel" -> "down"

Ack(p) ==
  /\ worker[p].pc \in Acking
  /\ worker' = [worker EXCEPT ![p] = Bare(AfterAck(worker[p].pc))]
  /\ \/ /\ msg' = IF LockValid(p)
                  THEN [msg EXCEPT ![worker[p].claim].state = "settled"] ELSE msg
        /\ UNCHANGED faults
     \/ Fault("io") /\ UNCHANGED msg
  /\ UNCHANGED <<record, req, ids, review, verdicts>>

-----------------------------------------------------------------------------
(* Shutdown, crash and restart of a process *)

Serving(p) == \/ \E c \in Claims : req[c].proc = p
              \/ \E r \in Reviewers : review[r].proc = p

\* Shutdown once the server has drained its requests: the worker task is
\* cancelled at the await it is at, and its finally clause still acks.  A
\* cancellation that hits the ack itself is not suppressed and drops it.
Shutdown(p) ==
  /\ worker[p].pc \notin {"down", "ack_cancel"}
  /\ ~Serving(p)
  /\ Fault("cancel")
  /\ IF worker[p].pc \in Processing \cup Failing
     THEN Goto(p, "ack_cancel")
     ELSE worker' = [worker EXCEPT ![p] = Bare("down")]
  /\ UNCHANGED <<record, msg, req, ids, review, verdicts>>

Crash(p) ==
  /\ Up(p)
  /\ Fault("crash")
  /\ worker' = [worker EXCEPT ![p] = Bare("down")]
  /\ req' = [c \in Claims |-> IF req[c].proc = p
                              THEN [state |-> "failed", proc |-> NoProc] ELSE req[c]]
  /\ review' = [r \in Reviewers |-> IF review[r].proc = p THEN NoReview ELSE review[r]]
  /\ UNCHANGED <<record, msg, ids, verdicts>>

\* A new process starts with an empty ClaimStore index.
Restart(p) ==
  /\ worker[p].pc = "down"
  /\ Goto(p, "idle")
  /\ ids' = [ids EXCEPT ![p] = {}]
  /\ UNCHANGED <<record, msg, req, review, verdicts, faults>>

-----------------------------------------------------------------------------
(* POST /v1/claims/{id}/decision: load, check, save *)

\* A claim that is missing (404) or not escalated (409) is refused.
DecisionLoad(r, p, c) ==
  /\ p \in ApiProcs /\ Up(p)
  /\ review[r] = NoReview
  /\ record[c].status = "escalated"
  /\ review' = [review EXCEPT ![r] = [claim |-> c, proc |-> p, snap |-> record[c]]]
  /\ UNCHANGED <<record, msg, req, worker, ids, verdicts, faults>>

DecisionSave(r) ==
  /\ review[r] # NoReview
  /\ \E v \in Lifecycle!Verdicts :
       LET c == review[r].claim
           decided == Lifecycle!Adjudicated(review[r].snap, v)
       IN  \/ /\ Save(review[r].proc, c, decided)
              /\ verdicts' = [verdicts EXCEPT ![c] = @ \cup {v}]
              /\ UNCHANGED faults
           \/ SaveRaises(c, decided) /\ UNCHANGED verdicts
  /\ review' = [review EXCEPT ![r] = NoReview]
  /\ UNCHANGED <<msg, req, worker>>

-----------------------------------------------------------------------------
WorkerStep(p) ==
  \/ Load(p) \/ MarkProcessing(p) \/ RunGraph(p) \/ GraphRaises(p) \/ SaveResult(p)
  \/ FailLoad(p) \/ FailSave(p) \/ Ack(p)

WorkerFault(p) == DequeueRaises(p) \/ ProcessRaises(p) \/ FailRaises(p)

Next ==
  \/ \E c \in Claims : SubmitEnqueue(c) \/ LockReleased(c) \/ LockOverruns(c)
                        \/ MessageExpires(c) \/ RecordExpires(c)
  \/ \E c \in Claims, p \in Procs : SubmitCreate(p, c) \/ Dequeue(p, c)
  \/ \E p \in Procs : WorkerStep(p) \/ WorkerFault(p)
                      \/ Shutdown(p) \/ Crash(p) \/ Restart(p)
  \/ \E r \in Reviewers : DecisionSave(r)
                          \/ \E p \in Procs, c \in Claims : DecisionLoad(r, p, c)

Spec == Init /\ [][Next]_vars

(***************************************************************************)
(* Fairness.  A worker polls dequeue without pause and runs what it has to *)
(* its end; a request once started goes on; the broker's lock timer runs;  *)
(* the platform restarts a process that is down.  Faults, submissions and  *)
(* human decisions are never owed.                                         *)
(***************************************************************************)
Fairness ==
  /\ \A c \in Claims : WF_vars(SubmitEnqueue(c)) /\ WF_vars(LockReleased(c))
  /\ \A p \in Procs : /\ WF_vars(\E c \in Claims : Dequeue(p, c))
                       /\ WF_vars(WorkerStep(p))
                       /\ WF_vars(Restart(p))

FairSpec == Spec /\ Fairness

-----------------------------------------------------------------------------
(* Properties *)

TypeOK ==
  /\ record \in [Claims -> Lifecycle!Record]
  /\ msg \in [Claims -> Message]
  /\ req \in [Claims -> Request]
  /\ worker \in [Procs -> Locals]
  /\ ids \in [Procs -> SUBSET Claims]
  /\ review \in [Reviewers -> Review]
  /\ verdicts \in [Claims -> SUBSET Lifecycle!Verdicts]
  /\ faults \in [FaultKinds -> Nat]

\* A settled claim carries the disposition its status stands for, whatever
\* stale snapshots workers and reviewers wrote over each other: "completed"
\* is an approval or a denial, "escalated" awaits a human and nothing else.
Coherent(r) ==
  /\ r.status = "completed" => r.disposition \in {"auto_approved", "auto_denied"}
  /\ r.status = "escalated" => r.disposition = "escalated"
  /\ r.status \in {"absent", "pending"} => r.disposition = "none" /\ r.human = "none"

StatusMatchesDisposition == \A c \in Claims : Coherent(record[c])

\* A message leaves the broker only once its claim is adjudicated: the ack in
\* run_worker's finally clause comes after a final save (interfaces.py:186).
AckMeansProcessed ==
  \A c \in Claims : msg[c].state = "settled" => Terminal(record[c])

\* A claim accepted with 202 and not yet adjudicated is still owned by someone
\* who will go on with it: the broker, or a worker that has it in hand.
ClaimNotAbandoned ==
  \A c \in Claims :
    req[c].state = "done" /\ ~Terminal(record[c])
      => \/ msg[c].state \in {"ready", "locked"}
         \/ \E p \in Procs : Holds(p, c)

\* The record bears out the verdict v, or has expired.
Says(c, v) == record[c] \in {Lifecycle!Absent, Lifecycle!Adjudicated(record[c], v)}

\* A verdict answered with 200 is what the record says until it expires: no late
\* worker and no second reviewer replaces it (claims.py:235).
HumanVerdictStands ==
  \A c \in Claims : verdicts[c] # {} => \E v \in verdicts[c] : verdicts[c] = {v} /\ Says(c, v)

\* The message of c was delivered once at most, and no reply was lost.
Lone(c) == msg[c].delivery <= 1 /\ faults["lost_reply"] = 0

\* Which of them do replace it: while the claim's message was delivered only
\* once and no reply was lost, the verdict that was answered stands until the
\* record expires, unless a second reviewer was answered another one.  The
\* worker that escalated the claim, failed saves of either, a reviewer whose
\* decision came to nothing, shutdowns and crashes leave it as it is.
LoneVerdictStands ==
  \A c \in Claims, v \in Lifecycle!Verdicts : verdicts[c] = {v} /\ Lone(c) => Says(c, v)

\* A verdict is only ever recorded on a claim that is escalated at that moment.
DecideFromEscalated ==
  [][\A c \in Claims :
       verdicts'[c] # verdicts[c] => record[c].status = "escalated"]_vars

\* As long as no process was stopped or died, an escalated claim is in the
\* listing of the API process that accepted it, whichever worker adjudicated
\* it: the admin's queue of escalated claims is complete.  The list is kept in
\* the memory of the process, so a restart empties it (worker.py:130).
EscalatedListed ==
  faults["crash"] + faults["cancel"] = 0 =>
    \A c \in Claims : record[c].status = "escalated" =>
                        \E p \in ApiProcs : c \in ids[p]

\* Nothing that a claim does to the graph or to its record ends the worker's
\* loop: it dies only of a broker or store call that raised, and then for
\* good, although the loop is meant to run until cancelled (worker.py:202).
WorkerDiesOfIo ==
  (\E p \in Procs : worker[p].pc \in {"dead", "ack_raise"})
    => faults["io"] + faults["lost_reply"] > 0

\* An accepted claim is adjudicated in the end, and stays so.
ClaimsSettle ==
  \A c \in Claims : <>[](req[c].state = "done" => Terminal(record[c]))

\* Delivered at most once, the service implements ClaimLifecycle: every step
\* is a step of one claim's life or leaves the records alone.
ImplementsLifecycle == Lifecycle!Spec
=============================================================================
