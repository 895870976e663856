----------------------------- MODULE ClaimStream -----------------------------
(***************************************************************************)
(* The live view of one claim: the worker publishes the steps of a run to  *)
(* the EventBus of its process (api/worker.py), and every GET              *)
(* /claims/{id}/stream runs an _sse_generator over the bus of its own      *)
(* process and the stored record (api/routes/claims.py).                   *)
(*                                                                         *)
(* The tasks of a process share its bus and interleave at their awaits.    *)
(* A run can end without warning, and the message of any run, finished or  *)
(* not, can be delivered again: an ack may fail, and then does so silently *)
(* (run_worker), or the process dies before it.  Runs that overlap are     *)
(* ClaimService's concern.                                                 *)
(***************************************************************************)
EXTENDS Naturals, Sequences

CONSTANTS Procs,      \* processes: an EventBus and perhaps a worker each
          Streams,    \* stream requests, each of them served once
          Home,       \* Streams -> the process that serves it
          NoQueue,    \* "the bus has no queue for the claim"
          Steps,      \* trace entries of a complete run, numbered through
                      \* all runs: the first has 1..Steps, and so on
          MaxRuns     \* bound on deliveries of the claim's message

ASSUME ProcsAssumption == Procs # {}
ASSUME HomeAssumption == Home \in [Streams -> Procs]
ASSUME NoQueueAssumption == NoQueue \notin Streams
ASSUME StepsAssumption == Steps \in Nat \ {0}
ASSUME MaxRunsAssumption == MaxRuns \in Nat

VARIABLES record,   \* [status, trace]: the last entry of trace_data, or 0
          run,      \* the worker on the claim, and what went before:
                    \*   published  the last step published
                    \*   last       the last step of this run
                    \*   ends       sentinels published (history)
                    \*   count      deliveries (history)
          bus,      \* Procs -> EventBus._queues[claim]
          queue,    \* the asyncio.Queue objects, named by who created them
          stream    \* Streams -> the generator's local state, with whether it
                    \* subscribed before the first step of all and
                    \* after how many ends (history)

vars == <<record, run, bus, queue, stream>>

\* Events are the numbers of steps; None is the end of the stream.
Sentinel == 0
Events == Nat
Statuses == {"absent", "pending", "processing", "completed", "escalated", "error"}
Terminal(r) == r.status \in {"completed", "escalated", "error"}
Processed(r) == r.status \in {"completed", "escalated"}

\* The generator is suspended in one of these states and over in the others.
Suspended == {"load", "live", "poll", "replay"}
Open(s) == stream[s].pc \in Suspended

\* A stream as it is at pc, without a queue and with nothing sent.
Blank(pc) == [pc |-> pc, queue |-> NoQueue, snap |-> 0, early |-> FALSE, after |-> 0,
              steps |-> <<>>]

Init == /\ record \in {[status |-> "absent", trace |-> 0], [status |-> "pending", trace |-> 0]}
        /\ run = [pc |-> "idle", proc |-> CHOOSE p \in Procs : TRUE,
                  published |-> 0, last |-> 0, ends |-> 0, count |-> 0]
        /\ bus = [p \in Procs |-> NoQueue]
        /\ queue = [s \in Streams |-> <<>>]
        /\ stream = [s \in Streams |-> Blank("new")]

-----------------------------------------------------------------------------
(* The worker *)

\* EventBus.publish: without a queue the event is dropped.
Publish(e) ==
  LET q == bus[run.proc]
  IN  queue' = IF q = NoQueue THEN queue ELSE [queue EXCEPT ![q] = Append(@, e)]

Go(pc) == run' = [run EXCEPT !.pc = pc]

\* For the first time, or again: also after a run that came to its end.
Deliver(p) ==
  /\ run.pc \in {"idle", "over"} /\ run.count < MaxRuns
  /\ run' = [run EXCEPT !.pc = "load", !.proc = p, !.published = run.last,
                        !.last = @ + Steps, !.count = @ + 1]
  /\ UNCHANGED <<record, bus, queue, stream>>

\* Without a record the run is over, and no sentinel tells the streams.
LoadRecord ==
  /\ run.pc = "load"
  /\ Go(IF record.status = "absent" THEN "over" ELSE "mark")
  /\ UNCHANGED <<record, bus, queue, stream>>

MarkProcessing ==
  /\ run.pc = "mark"
  /\ record' = [record EXCEPT !.status = "processing"]
  /\ Go("graph")
  /\ UNCHANGED <<bus, queue, stream>>

\* Mutant of PublishStep: the trace is published from its start every time.
PublishWholeTrace ==
  /\ run.pc = "graph" /\ run.published < run.last
  /\ LET q == bus[run.proc]
         first == run.last - Steps
     IN  queue' = IF q = NoQueue THEN queue
                  ELSE [queue EXCEPT ![q] =
                          @ \o [i \in 1..(run.published + 1 - first) |-> first + i]]
  /\ run' = [run EXCEPT !.published = @ + 1]
  /\ UNCHANGED <<record, bus, stream>>

\* Mutant of PublishStep: the last step brings the sentinel along.
PublishStepAndEnd ==
  /\ run.pc = "graph" /\ run.published < run.last
  /\ LET q == bus[run.proc]
         e == run.published + 1
     IN  queue' = IF q = NoQueue THEN queue
                  ELSE [queue EXCEPT ![q] = @ \o IF e = run.last THEN <<e, Sentinel>> ELSE <<e>>]
  /\ run' = [run EXCEPT !.published = @ + 1]
  /\ UNCHANGED <<record, bus, stream>>

\* A node has finished: the trace entries not published yet.
PublishStep ==
  /\ run.pc = "graph" /\ run.published < run.last
  /\ Publish(run.published + 1)
  /\ run' = [run EXCEPT !.published = @ + 1]
  /\ UNCHANGED <<record, bus, stream>>

\* The sentinel, and on to pc.
EndStream(pc) ==
  /\ Publish(Sentinel)
  /\ run' = [run EXCEPT !.pc = pc, !.ends = @ + 1]

\* The sentinel is published before the record is saved.
PublishEnd ==
  /\ run.pc = "graph" /\ run.published = run.last
  /\ EndStream("save")
  /\ UNCHANGED <<record, bus, stream>>

SaveResult ==
  /\ run.pc = "save"
  /\ \E s \in {"completed", "escalated"} : record' = [status |-> s, trace |-> run.last]
  /\ Go("over")
  /\ UNCHANGED <<bus, queue, stream>>

\* The graph or a store call raises.
Raises == /\ run.pc \in {"load", "mark", "graph", "save"}
          /\ Go("fail")
          /\ UNCHANGED <<record, bus, queue, stream>>

\* Mutant of FailSave: a status the model of the record does not know.
FailSaveUnknown ==
  /\ run.pc = "fail"
  /\ record' = IF record.status = "absent" THEN record
               ELSE [record EXCEPT !.status = "failed"]
  /\ Go("fail_end")
  /\ UNCHANGED <<bus, queue, stream>>

\* The except clause: the record (reloaded, and nobody else writes it) is
\* marked, its stored trace kept, then the sentinel published.
FailSave ==
  /\ run.pc = "fail"
  /\ record' = IF record.status = "absent" THEN record
               ELSE [record EXCEPT !.status = "error"]
  /\ Go("fail_end")
  /\ UNCHANGED <<bus, queue, stream>>

FailEnd == /\ run.pc = "fail_end"
           /\ EndStream("over")
           /\ UNCHANGED <<record, bus, stream>>

\* The except clause raises in turn: the run is over without a sentinel.
FailRaises == /\ run.pc = "fail"
              /\ Go("over")
              /\ UNCHANGED <<record, bus, queue, stream>>

\* The process dies with its bus, its queues and streams, and the run it may have.
Crash(p) ==
  /\ IF run.proc = p /\ run.pc # "over"
     THEN Go("idle")
     ELSE UNCHANGED run
  /\ bus' = [bus EXCEPT ![p] = NoQueue]
  /\ queue' = [s \in Streams |-> IF Home[s] = p THEN <<>> ELSE queue[s]]
  /\ stream' = [s \in Streams |-> IF Home[s] = p /\ Open(s) THEN Blank("closed") ELSE stream[s]]
  /\ UNCHANGED record

-----------------------------------------------------------------------------
(* _sse_generator *)

\* EventBus.unsubscribe drops the queue of the claim, whoever else reads it.
Unsubscribe(s) == bus' = [bus EXCEPT ![Home[s]] = NoQueue]

\* The generator ends, its queue forgotten; its finally clause unsubscribes.
End(s, pc, steps) ==
  /\ stream' = [stream EXCEPT ![s].pc = pc, ![s].steps = steps, ![s].queue = NoQueue]
  /\ Unsubscribe(s)

\* subscribe: the queue of the claim, created if there is none.
Subscribe(s) ==
  LET q == IF bus[Home[s]] = NoQueue THEN s ELSE bus[Home[s]]
  IN  /\ stream[s].pc = "new"
      /\ bus' = [bus EXCEPT ![Home[s]] = q]
      /\ stream' = [stream EXCEPT ![s].pc = "load", ![s].queue = q,
                                  ![s].early = run.published = 0, ![s].after = run.ends]
      /\ UNCHANGED <<record, run, queue>>

\* Mutant of FirstLoad: the subscription only starts once the status is known.
LoadThenSubscribe(s) ==
  /\ stream[s].pc = "load"
  /\ IF record.status = "absent" THEN End(s, "not_found", <<>>)
     ELSE IF Terminal(record)
     THEN /\ stream' = [stream EXCEPT ![s].pc = "replay", ![s].snap = record.trace]
          /\ Unsubscribe(s)
     ELSE /\ stream' = [stream EXCEPT ![s].pc = "live"]
          /\ UNCHANGED bus
  /\ queue' = [queue EXCEPT ![stream[s].queue] = <<>>]
  /\ UNCHANGED <<record, run>>

\* The first look at the record: nothing there, finished, or still going on.
FirstLoad(s) ==
  /\ stream[s].pc = "load"
  /\ IF record.status = "absent" THEN End(s, "not_found", <<>>)
     ELSE IF Terminal(record)
     THEN /\ stream' = [stream EXCEPT ![s].pc = "replay", ![s].snap = record.trace]
          /\ Unsubscribe(s)
     ELSE /\ stream' = [stream EXCEPT ![s].pc = "live"]
          /\ UNCHANGED bus
  /\ UNCHANGED <<record, run, queue>>

\* An event of the queue, which other streams may be reading too.
Receive(s) ==
  LET q == stream[s].queue
  IN  /\ stream[s].pc = "live" /\ queue[q] # <<>>
      /\ queue' = [queue EXCEPT ![q] = Tail(@)]
      /\ IF Head(queue[q]) = Sentinel
         THEN End(s, "done", stream[s].steps)
         ELSE /\ stream' = [stream EXCEPT ![s].steps = Append(@, Head(queue[q]))]
              /\ UNCHANGED bus
      /\ UNCHANGED <<record, run>>

\* Half a second without an event.
TimesOut(s) ==
  /\ stream[s].pc = "live" /\ queue[stream[s].queue] = <<>>
  /\ stream' = [stream EXCEPT ![s].pc = "poll"]
  /\ UNCHANGED <<record, run, bus, queue>>

\* Mutant of Poll: on with the queue, without a look at the record.
PollNothing(s) ==
  /\ stream[s].pc = "poll"
  /\ stream' = [stream EXCEPT ![s].pc = "live"]
  /\ UNCHANGED <<record, run, bus, queue>>

\* The record is looked at again, in case the sentinel went elsewhere.
Poll(s) ==
  /\ stream[s].pc = "poll"
  /\ stream' = IF Terminal(record)
               THEN [stream EXCEPT ![s].pc = "replay", ![s].snap = record.trace]
               ELSE [stream EXCEPT ![s].pc = "live"]
  /\ UNCHANGED <<record, run, bus, queue>>

\* The entries of a stored trace that ends with step n.
Trace(n) == IF n = 0 THEN <<>> ELSE [i \in 1..Steps |-> n - Steps + i]

\* The stored trace from its beginning, then "done".
Replay(s) ==
  /\ stream[s].pc = "replay"
  /\ End(s, "done", stream[s].steps \o Trace(stream[s].snap))
  /\ UNCHANGED <<record, run, queue>>

\* The client goes away, and the generator is closed.
Disconnect(s) ==
  /\ Open(s)
  /\ stream' = [stream EXCEPT ![s] = Blank("closed")]
  /\ Unsubscribe(s)
  /\ UNCHANGED <<record, run, queue>>

-----------------------------------------------------------------------------
RunStep == \/ LoadRecord \/ MarkProcessing \/ PublishStep \/ PublishEnd \/ SaveResult
           \/ Raises \/ FailSave \/ FailEnd \/ FailRaises

StreamStep(s) == FirstLoad(s) \/ Receive(s) \/ TimesOut(s) \/ Poll(s) \/ Replay(s)

Next == \/ RunStep
        \/ \E p \in Procs : Deliver(p) \/ Crash(p)
        \/ \E s \in Streams : Subscribe(s) \/ StreamStep(s) \/ Disconnect(s)

Spec == Init /\ [][Next]_vars

\* A generator in progress goes on: it waits at most half a second for an event.
FairSpec == Spec /\ \A s \in Streams : WF_vars(StreamStep(s))

-----------------------------------------------------------------------------
(* Properties *)

TypeOK ==
  /\ record \in [status : Statuses, trace : Nat]
  /\ run \in [pc : {"idle", "load", "mark", "graph", "save", "fail", "fail_end", "over"},
              proc : Procs, published : Nat, last : Nat, ends : Nat, count : 0..MaxRuns]
  /\ bus \in [Procs -> Streams \cup {NoQueue}]
  /\ queue \in [Streams -> Seq(Events)]
  /\ stream \in [Streams ->
       [pc : Suspended \cup {"new", "done", "not_found", "closed"},
        queue : Streams \cup {NoQueue}, snap : Nat, early : BOOLEAN, after : Nat,
        steps : Seq(Nat \ {Sentinel})]]

\* Each stream ends once the claim is finished for good, also one whose events
\* another stream took, whose queue another stream dropped, or whose worker is
\* in another process or gone (claims.py:189-204).
StreamsEnd == \A s \in Streams : <>[]Terminal(record) => []<>~Open(s)

\* What a client is sent live are steps in the order of the graph, none twice,
\* those of a later run after those of an earlier one; and after them at most
\* one replay of a whole stored trace.
InOrder ==
  \A s \in Streams :
    LET sent == stream[s].steps
    IN  \E live \in 0..Len(sent) :
          /\ \A i, j \in 1..live : i < j => sent[i] < sent[j]
          /\ \/ live = Len(sent)
             \/ SubSeq(sent, live + 1, Len(sent)) = Trace(stream[s].snap)

Alone(s) == \A t \in Streams \ {s} : Home[t] = Home[s] => stream[t].pc = "new"

\* A stream turns to its end only on a finished record, or because a run has
\* come to its end since it subscribed.  That run's record may be one save away
\* (worker.py:267), or reopened by another delivery by then.  On a queue shared
\* with others, it can be a sentinel from before, which none of them took.
EndsNotEarly ==
  [][\A s \in Streams :
       stream[s].pc \in {"load", "live", "poll"} /\ stream'[s].pc \in {"replay", "done"} =>
         \/ Terminal(record)
         \/ run.ends > stream[s].after
         \/ ~Alone(s) /\ run.ends > 0]_vars

Seen(s) == {stream[s].steps[i] : i \in DOMAIN stream[s].steps}

\* A client that was there before the first step of the only run, and alone,
\* has seen every step of the claim when its stream is done: subscribing before
\* the first look at the record leaves no gap (claims.py:170-171).
EarlyClientSeesAll ==
  \A s \in Streams :
    stream[s].pc = "done" /\ stream[s].early /\ Alone(s) /\ Processed(record) /\ run.count = 1
      => 1..Steps \subseteq Seen(s)
=============================================================================
