-------------------------- MODULE ClaimStreamProofs --------------------------
(* Theorems about ClaimStream, for any processes, streams, placements of    *)
(* streams, numbers of steps and of deliveries.                             *)
EXTENDS ClaimStream, SequenceTheorems, TLAPS

-----------------------------------------------------------------------------
(* Types.  TypeOK does not say that a trace is stored whole or not at all. *)

Step == Nat \ {Sentinel}

\* The number of the last entry of a whole trace, or of none.
Lasts == {n \in Nat : n = 0 \/ Steps <= n}

StreamState == [pc    : Suspended \cup {"new", "done", "not_found", "closed"},
                queue : Streams \cup {NoQueue},
                snap  : Lasts,
                early : BOOLEAN,
                after : Nat,
                steps : Seq(Step)]

\* An open stream has a queue.
Subscribed == \A s \in Streams : Open(s) => stream[s].queue # NoQueue

TInv == /\ TypeOK
        /\ record.trace \in Lasts /\ run.last \in Lasts
        /\ stream \in [Streams -> StreamState]
        /\ Subscribed

-----------------------------------------------------------------------------
(* The order of events: steps are published in rising order, in all runs.   *)

\* Queues are used on the process of the stream that created them.
Placed ==
  /\ \A p \in Procs : bus[p] # NoQueue => Home[bus[p]] = p /\ stream[bus[p]].pc # "new"
  /\ \A s \in Streams :
       /\ stream[s].queue # NoQueue => /\ Home[stream[s].queue] = Home[s]
                                       /\ stream[stream[s].queue].pc # "new"
       /\ stream[s].pc = "new" => queue[s] = <<>> /\ stream[s].steps = <<>>

\* Steps in rising order, with sentinels between them.
Ordered(sq) ==
  \A i, j \in 1..Len(sq) :
    i < j => sq[i] = Sentinel \/ sq[j] = Sentinel \/ sq[i] < sq[j]

Rising(sq) == \A i, j \in 1..Len(sq) : i < j => sq[i] < sq[j]

QueueOK(q) ==
  /\ Ordered(queue[q])
  /\ \A i \in 1..Len(queue[q]) : /\ queue[q][i] <= run.published
                                 /\ queue[q][i] = Sentinel => run.ends > 0

\* Every step a client has been sent comes before all that it may yet be sent.
ReaderOK(s) ==
  LET sent == stream[s].steps
      left == queue[stream[s].queue]
  IN  Open(s) =>
        \A i \in 1..Len(sent) :
          /\ sent[i] <= run.published
          /\ \A j \in 1..Len(left) : left[j] = Sentinel \/ sent[i] < left[j]

\* What a client was sent, as InOrder has it; the replay comes last.
Shown(s) ==
  LET sent == stream[s].steps
  IN  \E live \in 0..Len(sent) :
        /\ \A i, j \in 1..live : i < j => sent[i] < sent[j]
        /\ \/ live = Len(sent)
           \/ SubSeq(sent, live + 1, Len(sent)) = Trace(stream[s].snap)

SentOK(s) == IF stream[s].pc = "done" THEN Shown(s) ELSE Rising(stream[s].steps)

Published == /\ run.published <= run.last
             /\ run.pc = "save" => run.published = run.last

Flow == /\ Placed
        /\ Published
        /\ \A q \in Streams : QueueOK(q)
        /\ \A s \in Streams : ReaderOK(s) /\ SentOK(s)

FInv == TInv /\ Flow

-----------------------------------------------------------------------------
(* What ends a stream that is alone, and what an early client sees. *)

Watching(s) == stream[s].pc \in {"load", "live", "poll"}

Early(s) == stream[s].early /\ Alone(s)

Items(q) == {queue[q][i] : i \in 1..Len(queue[q])}

\* The run publishes no more steps.
Ending == {"save", "fail", "fail_end", "over", "idle"}

\* The record of the first run: final only when the run has got there.
FirstRun ==
  run.count <= 1 =>
    /\ run.count = 0 => run.pc = "idle" /\ ~Terminal(record) /\ run.last = 0
    /\ run.count = 1 => run.last = Steps
    /\ Terminal(record) => run.pc \in {"fail_end", "over", "idle"}
    /\ Processed(record) => /\ record.trace = Steps
                            /\ run.pc = "over" /\ run.published = Steps

\* The first run fills the queues of its own process, its sentinel the last.
FirstQueue(q) ==
  run.count <= 1 =>
    /\ queue[q] # <<>> => Home[q] = run.proc /\ run.count = 1
    /\ \A i \in 1..Len(queue[q]) :
         queue[q][i] = Sentinel =>
           /\ run.pc \in Ending
           /\ \A j \in 1..Len(queue[q]) : i < j => queue[q][j] = Sentinel

\* The first run can no longer finish.
Doomed == ~Processed(record) /\ run.pc \in {"fail", "fail_end", "over", "idle"}

\* Every sentinel in the queue has come since s subscribed.
NoneOld(s) ==
  \A i \in 1..Len(queue[s]) : queue[s][i] = Sentinel => stream[s].after < run.ends

Follows(s) ==
  /\ stream[s].after <= run.ends
  /\ Alone(s) /\ Watching(s) => bus[Home[s]] = s /\ NoneOld(s)
  /\ run.count <= 1 =>
       /\ Early(s) /\ Watching(s) /\ Home[s] = run.proc
            => 1..run.published \subseteq Seen(s) \cup Items(s)
       /\ stream[s].pc = "replay" => Terminal(record) /\ stream[s].snap = record.trace
       /\ stream[s].pc = "done" /\ Early(s)
            => run.count = 1 /\ (1..Steps \subseteq Seen(s) \/ Doomed)

EInv == /\ FInv /\ FirstRun
        /\ \A s \in Streams : FirstQueue(s) /\ Follows(s)

-----------------------------------------------------------------------------
(* Sequences *)

LEMMA SentinelEvent == Sentinel \in Events /\ Step \subseteq Events
  BY DEF Sentinel, Events, Step

\* The stored trace, as the replay sends it.
LEMMA TraceSeq ==
  ASSUME NEW n \in Lasts
  PROVE  /\ Trace(n) \in Seq(Step)
         /\ Len(Trace(n)) = IF n = 0 THEN 0 ELSE Steps
         /\ n # 0 => \A i \in 1..Steps : Trace(n)[i] = n - Steps + i
<1>1. CASE n = 0
  BY <1>1, EmptySeq DEF Trace
<1>2. CASE n # 0
  <2> DEFINE trace == [i \in 1..Steps |-> n - Steps + i]
  <2>1. trace \in [1..Steps -> Step]
    BY <1>2, StepsAssumption DEF Lasts, Step, Sentinel
  <2>2. trace \in Seq(Step)
    BY <2>1, StepsAssumption, SeqDef
  <2>3. Len(trace) = Steps
    BY <2>1, <2>2, StepsAssumption, LenProperties
  <2> QED BY <1>2, <2>2, <2>3 DEF Trace
<1> QED BY <1>1, <1>2

LEMMA AppendOrdered ==
  ASSUME NEW sq \in Seq(Events), NEW e \in Events, Ordered(sq),
         e # Sentinel => \A i \in 1..Len(sq) : sq[i] = Sentinel \/ sq[i] < e
  PROVE  Ordered(Append(sq, e))
<1>1. /\ Len(Append(sq, e)) = Len(sq) + 1 /\ Len(sq) \in Nat
      /\ \A i \in 1..Len(sq) : Append(sq, e)[i] = sq[i]
      /\ Append(sq, e)[Len(sq) + 1] = e
  BY AppendProperties, LenProperties
<1> QED BY <1>1 DEF Ordered

LEMMA AppendRising ==
  ASSUME NEW sq \in Seq(Step), NEW e \in Step, Rising(sq),
         \A i \in 1..Len(sq) : sq[i] < e
  PROVE  Rising(Append(sq, e))
<1>1. /\ Len(Append(sq, e)) = Len(sq) + 1 /\ Len(sq) \in Nat
      /\ \A i \in 1..Len(sq) : Append(sq, e)[i] = sq[i]
      /\ Append(sq, e)[Len(sq) + 1] = e
  BY AppendProperties, LenProperties
<1> QED BY <1>1 DEF Rising

\* The first of an ordered queue comes before the rest.
LEMMA HeadFirst ==
  ASSUME NEW sq \in Seq(Events), sq # <<>>, Ordered(sq)
  PROVE  /\ Ordered(Tail(sq))
         /\ Head(sq) = sq[1] /\ 1 \in 1..Len(sq)
         /\ Len(Tail(sq)) = Len(sq) - 1
         /\ \A i \in 1..Len(Tail(sq)) : /\ Tail(sq)[i] = sq[i + 1] /\ i + 1 \in 1..Len(sq)
                                        /\ \/ Tail(sq)[i] = Sentinel
                                           \/ Head(sq) = Sentinel
                                           \/ Head(sq) < Tail(sq)[i]
<1>1. /\ Len(sq) \in Nat \ {0} /\ Len(Tail(sq)) = Len(sq) - 1
      /\ \A i \in 1..Len(Tail(sq)) : Tail(sq)[i] = sq[i + 1]
  BY EmptySeq, HeadTailProperties
<1>2. Head(sq) = sq[1]
  OBVIOUS
<1> QED BY <1>1, <1>2 DEF Ordered

\* Rising steps with the whole stored trace behind them are in order.
LEMMA ReplayShown ==
  ASSUME NEW sent \in Seq(Step), NEW n \in Lasts, Rising(sent)
  PROVE  LET all == sent \o Trace(n)
         IN  /\ all \in Seq(Step)
             /\ \E live \in 0..Len(all) :
                  /\ \A i, j \in 1..live : i < j => all[i] < all[j]
                  /\ live = Len(all) \/ SubSeq(all, live + 1, Len(all)) = Trace(n)
<1> DEFINE trace == Trace(n)
           k == Len(trace)
           all == sent \o trace
<1>1. trace \in Seq(Step) /\ k \in Nat
  BY TraceSeq, LenProperties
<1>2. /\ all \in Seq(Step) /\ Len(all) = Len(sent) + k /\ Len(sent) \in Nat
      /\ \A i \in 1..Len(sent) + k :
           all[i] = IF i <= Len(sent) THEN sent[i] ELSE trace[i - Len(sent)]
  BY <1>1, ConcatProperties, LenProperties
<1> DEFINE sub == SubSeq(all, Len(sent) + 1, Len(all))
<1>5. \A i, j \in 1..Len(sent) : i < j => all[i] < all[j]
  BY <1>1, <1>2 DEF Rising
<1>6. Len(sent) \in 0..Len(all)
  BY <1>1, <1>2
<1> HIDE DEF all, trace
<1>3. /\ sub \in Seq(Step) /\ Len(sub) = k
      /\ \A i \in 1..k : sub[i] = all[Len(sent) + i]
  <2>1. \A i \in (Len(sent) + 1)..Len(all) : all[i] \in Step
    <3> SUFFICES ASSUME NEW i \in (Len(sent) + 1)..Len(all) PROVE all[i] \in Step
      OBVIOUS
    <3>1. i \in 1..Len(all)
      BY <1>1, <1>2
    <3> QED BY <1>2, <3>1, ElementOfSeq
  <2>2. /\ sub \in Seq(Step)
        /\ Len(sub) = IF Len(sent) + 1 <= Len(all) THEN Len(all) - (Len(sent) + 1) + 1 ELSE 0
        /\ \A i \in 1..(Len(all) - (Len(sent) + 1) + 1) : sub[i] = all[(Len(sent) + 1) + i - 1]
    BY <1>1, <1>2, <2>1, SubSeqProperties
  <2> QED BY <1>1, <1>2, <2>2
<1>4. sub = trace
  <2>1. \A i \in 1..k : sub[i] = trace[i]
    <3> SUFFICES ASSUME NEW i \in 1..k PROVE sub[i] = trace[i]
      OBVIOUS
    <3> HIDE DEF k, sub
    <3>1. /\ Len(sent) + i \in 1..Len(sent) + k /\ ~(Len(sent) + i <= Len(sent))
          /\ (Len(sent) + i) - Len(sent) = i
      BY <1>1, <1>2
    <3>2. all[Len(sent) + i] = trace[(Len(sent) + i) - Len(sent)]
      BY <1>2, <3>1
    <3> QED BY <1>3, <3>1, <3>2
  <2> QED BY <1>1, <1>3, <2>1, SeqEqual
<1> QED BY <1>2, <1>4, <1>5, <1>6 DEF all, trace

-----------------------------------------------------------------------------
(* Type correctness *)

RunPc == {"idle", "load", "mark", "graph", "save", "fail", "fail_end", "over"}

LEMMA LastsFacts == /\ 0 \in Lasts /\ \A n \in Lasts : n \in Nat /\ n + Steps \in Lasts
                    /\ Steps \in Lasts
  BY StepsAssumption DEF Lasts

LEMMA RunType ==
  TInv => /\ run.pc \in RunPc /\ run.proc \in Procs /\ run.published \in Nat
          /\ run.last \in Lasts /\ run.last \in Nat /\ run.ends \in Nat
          /\ run.count \in Nat /\ run.count <= MaxRuns
          /\ run = [pc |-> run.pc, proc |-> run.proc, published |-> run.published,
                    last |-> run.last, ends |-> run.ends, count |-> run.count]
          /\ record \in [status : Statuses, trace : Nat] /\ record.trace \in Lasts
          /\ bus \in [Procs -> Streams \cup {NoQueue}] /\ queue \in [Streams -> Seq(Events)]
          /\ stream \in [Streams -> StreamState]
          /\ Steps \in Nat /\ Steps # 0 /\ MaxRuns \in Nat
  BY StepsAssumption, MaxRunsAssumption DEF TInv, TypeOK, RunPc

\* The same of the next state, as far as it is needed.
LEMMA NextType ==
  TInv' => /\ run'.published \in Nat /\ run'.ends \in Nat /\ run'.last \in Nat
           /\ queue' \in [Streams -> Seq(Events)] /\ stream' \in [Streams -> StreamState]
           /\ bus' \in [Procs -> Streams \cup {NoQueue}]
  BY StepsAssumption DEF TInv, TypeOK

\* TInv from the type of each variable.
LEMMA TypeParts ==
  ASSUME record' \in [status : Statuses, trace : Lasts],
         NEW pc \in RunPc, NEW p \in Procs, NEW n \in Nat, NEW l \in Lasts, NEW e \in Nat,
         NEW k \in 0..MaxRuns,
         run' = [pc |-> pc, proc |-> p, published |-> n, last |-> l, ends |-> e, count |-> k],
         bus' \in [Procs -> Streams \cup {NoQueue}],
         queue' \in [Streams -> Seq(Events)],
         stream' \in [Streams -> StreamState],
         Subscribed'
  PROVE  TInv'
<1>1. run' \in [pc : RunPc, proc : Procs, published : Nat, last : Nat, ends : Nat,
                count : 0..MaxRuns]
  BY LastsFacts
<1>2. record' \in [status : Statuses, trace : Nat]
  BY LastsFacts
<1>3. stream' \in [Streams -> [pc : Suspended \cup {"new", "done", "not_found", "closed"},
                               queue : Streams \cup {NoQueue}, snap : Nat, early : BOOLEAN,
                               after : Nat, steps : Seq(Nat \ {Sentinel})]]
  BY LastsFacts DEF StreamState, Step
<1>4. record'.trace \in Lasts /\ run'.last \in Lasts
  OBVIOUS
<1> QED BY <1>1, <1>2, <1>3, <1>4 DEF TInv, TypeOK, RunPc

LEMMA BlankState ==
  \A pc \in Suspended \cup {"new", "done", "not_found", "closed"} : Blank(pc) \in StreamState
  BY EmptySeq, LastsFacts DEF Blank, StreamState

LEMMA TypeInit == Init => TInv
<1> SUFFICES ASSUME Init PROVE TInv
  OBVIOUS
<1>1. run.proc \in Procs
  BY ProcsAssumption DEF Init
<1>2. \A s \in Streams : stream[s] \in StreamState /\ ~Open(s)
  BY BlankState DEF Init, Open, Suspended, Blank
<1>3. stream \in [Streams -> StreamState] /\ Subscribed
  BY <1>2 DEF Init, Subscribed
<1>4. queue \in [Streams -> Seq(Events)]
  BY EmptySeq DEF Init
<1>5. run \in [pc : RunPc, proc : Procs, published : Nat, last : Nat, ends : Nat,
               count : 0..MaxRuns] /\ run.last \in Lasts
  BY <1>1, LastsFacts, MaxRunsAssumption DEF Init, RunPc
<1>6. record \in [status : Statuses, trace : Nat] /\ record.trace \in Lasts
  BY LastsFacts DEF Init, Statuses
<1>7. stream \in [Streams -> [pc : Suspended \cup {"new", "done", "not_found", "closed"},
                              queue : Streams \cup {NoQueue}, snap : Nat, early : BOOLEAN,
                              after : Nat, steps : Seq(Nat \ {Sentinel})]]
  BY <1>3, LastsFacts DEF StreamState, Step
<1>8. bus \in [Procs -> Streams \cup {NoQueue}]
  BY DEF Init
<1> QED BY <1>3, <1>4, <1>5, <1>6, <1>7, <1>8 DEF TInv, TypeOK, RunPc

LEMMA PublishType ==
  ASSUME TInv, NEW e \in Events, Publish(e)
  PROVE  /\ queue' \in [Streams -> Seq(Events)]
         /\ \A q \in Streams : q # bus[run.proc] => queue'[q] = queue[q]
         /\ bus[run.proc] # NoQueue => /\ bus[run.proc] \in Streams
                                       /\ queue'[bus[run.proc]] = Append(queue[bus[run.proc]], e)
<1>1. bus[run.proc] \in Streams \cup {NoQueue}
  BY DEF TInv, TypeOK
<1> QED BY <1>1, NoQueueAssumption DEF Publish, TInv, TypeOK

\* What a step of the run makes of it.
LEMMA RunMoves ==
  ASSUME TInv, RunStep
  PROVE  /\ UNCHANGED <<bus, stream>>
         /\ \E pc \in RunPc :
              run' = [run EXCEPT !.pc = pc,
                                 !.published = IF PublishStep THEN run.published + 1 ELSE run.published,
                                 !.ends = IF PublishEnd \/ FailEnd THEN run.ends + 1 ELSE run.ends]
<1>1. UNCHANGED <<bus, stream>>
  BY DEF RunStep, LoadRecord, MarkProcessing, PublishStep, PublishEnd, SaveResult, Raises,
     FailSave, FailEnd, FailRaises
<1>2. CASE PublishStep
  <2>1. ~PublishEnd /\ ~FailEnd
    BY <1>2, RunType DEF PublishStep, PublishEnd, FailEnd
  <2>2. run' = [run EXCEPT !.pc = run.pc, !.published = run.published + 1, !.ends = run.ends]
    BY <1>2, RunType DEF PublishStep
  <2> QED BY <1>1, <1>2, <2>1, <2>2, RunType
<1>3. CASE PublishEnd \/ FailEnd
  <2>1. ~PublishStep
    BY <1>3, RunType DEF PublishStep, PublishEnd, FailEnd
  <2>2. PICK pc \in RunPc : EndStream(pc)
    BY <1>3 DEF PublishEnd, FailEnd, RunPc
  <2>3. run' = [run EXCEPT !.pc = pc, !.published = run.published, !.ends = run.ends + 1]
    BY <2>2, RunType DEF EndStream
  <2> QED BY <1>1, <1>3, <2>1, <2>3
<1>4. CASE ~PublishStep /\ ~PublishEnd /\ ~FailEnd
  <2>1. PICK pc \in RunPc : Go(pc)
    BY <1>4 DEF RunStep, LoadRecord, MarkProcessing, SaveResult, Raises, FailSave, FailRaises, RunPc
  <2>2. run' = [run EXCEPT !.pc = pc, !.published = run.published, !.ends = run.ends]
    BY <2>1, RunType DEF Go
  <2> QED BY <1>1, <1>4, <2>2
<1> QED BY <1>2, <1>3, <1>4

LEMMA TypeRun == ASSUME TInv, RunStep PROVE TInv'
<1>1. record' \in [status : Statuses, trace : Lasts]
  <2>1. record \in [status : Statuses, trace : Lasts]
    BY RunType
  <2> QED BY <2>1, RunType
  DEF RunStep, LoadRecord, MarkProcessing, PublishStep, PublishEnd, SaveResult, Raises,
      FailSave, FailEnd, FailRaises, Statuses
<1>2. PICK pc \in RunPc, n \in Nat, e \in Nat :
        run' = [pc |-> pc, proc |-> run.proc, published |-> n, last |-> run.last,
                ends |-> e, count |-> run.count]
  <2>1. PICK pc \in RunPc :
          run' = [run EXCEPT !.pc = pc,
                             !.published = IF PublishStep THEN run.published + 1 ELSE run.published,
                             !.ends = IF PublishEnd \/ FailEnd THEN run.ends + 1 ELSE run.ends]
    BY RunMoves
  <2> DEFINE n == IF PublishStep THEN run.published + 1 ELSE run.published
             e == IF PublishEnd \/ FailEnd THEN run.ends + 1 ELSE run.ends
  <2>2. n \in Nat /\ e \in Nat
    BY RunType
  <2> HIDE DEF n, e
  <2>3. run' = [run EXCEPT !.pc = pc, !.published = n, !.ends = e]
    BY <2>1 DEF n, e
  <2>4. run' = [pc |-> pc, proc |-> run.proc, published |-> n, last |-> run.last,
                ends |-> e, count |-> run.count]
    BY <2>3, RunType
  <2> QED BY <2>2, <2>4
<1>3. queue' \in [Streams -> Seq(Events)]
  <2>1. CASE PublishStep
    <3>1. run.published + 1 \in Events
      BY RunType DEF Events
    <3> QED BY <2>1, <3>1, PublishType DEF PublishStep
  <2>2. CASE PublishEnd \/ FailEnd
    BY <2>2, SentinelEvent, PublishType DEF PublishEnd, FailEnd, EndStream
  <2> QED BY <2>1, <2>2 DEF RunStep, LoadRecord, MarkProcessing, SaveResult, Raises, FailSave,
          FailRaises, TInv, TypeOK
<1>4. UNCHANGED <<bus, stream>>
  BY RunMoves
<1>5. Subscribed'
  BY <1>4 DEF TInv, Subscribed, Open
<1>6. run.count \in 0..MaxRuns
  BY RunType
<1> QED BY <1>1, <1>2, <1>3, <1>4, <1>5, <1>6, TypeParts, RunType

LEMMA TypeProcess ==
  ASSUME TInv, NEW p \in Procs, Deliver(p) \/ Crash(p)
  PROVE  TInv'
<1>0. run.published \in Nat /\ run.ends \in Nat /\ run.count \in 0..MaxRuns
  BY RunType
<1>1. PICK pc \in RunPc, q \in Procs, n \in Nat, l \in Lasts, k \in 0..MaxRuns :
        run' = [pc |-> pc, proc |-> q, published |-> n, last |-> l, ends |-> run.ends, count |-> k]
  <2>1. CASE Deliver(p)
    <3>1. run.count + 1 \in 0..MaxRuns /\ run.last + Steps \in Lasts
      BY <2>1, RunType, LastsFacts DEF Deliver
    <3>2. run' = [pc |-> "load", proc |-> p, published |-> run.last, last |-> run.last + Steps,
                  ends |-> run.ends, count |-> run.count + 1]
      BY <2>1, RunType DEF Deliver
    <3> QED BY <3>1, <3>2, RunType DEF RunPc
  <2>2. CASE Crash(p)
    <3>1. PICK pc \in RunPc : run' = [run EXCEPT !.pc = pc]
      BY <2>2, RunType DEF Crash, Go, RunPc
    <3>2. run' = [pc |-> pc, proc |-> run.proc, published |-> run.published, last |-> run.last,
                  ends |-> run.ends, count |-> run.count]
      BY <3>1, RunType
    <3> QED BY <1>0, <3>2, RunType
  <2> QED BY <2>1, <2>2
<1>2. /\ stream' \in [Streams -> StreamState]
      /\ \A s \in Streams : Open(s)' => Open(s) /\ stream'[s] = stream[s]
  <2>1. CASE Deliver(p)
    BY <2>1, RunType DEF Deliver, Open
  <2>2. CASE Crash(p)
    <3>1. Blank("closed") \in StreamState /\ Blank("closed").pc \notin Suspended
      BY BlankState DEF Blank, Suspended
    <3> QED BY <2>2, <3>1, RunType DEF Crash, Open
  <2> QED BY <2>1, <2>2
<1>3. /\ record' = record /\ bus' \in [Procs -> Streams \cup {NoQueue}]
      /\ queue' \in [Streams -> Seq(Events)]
  <2>1. CASE Deliver(p)
    BY <2>1, RunType DEF Deliver
  <2>2. CASE Crash(p)
    <3>1. \A s \in Streams : queue'[s] \in Seq(Events)
      BY <2>2, RunType, EmptySeq DEF Crash
    <3> QED BY <2>2, <3>1, RunType DEF Crash
  <2> QED BY <2>1, <2>2
<1>4. Subscribed'
  BY <1>2 DEF TInv, Subscribed
<1>5. record' \in [status : Statuses, trace : Lasts]
  BY <1>3, RunType
<1> QED BY <1>0, <1>1, <1>2, <1>3, <1>4, <1>5, TypeParts

\* Where the steps of a stream lead, as one record of it.
LEMMA StreamMoves ==
  ASSUME TInv, NEW s \in Streams, Subscribe(s) \/ StreamStep(s) \/ Disconnect(s)
  PROVE  /\ stream' = [stream EXCEPT ![s] = stream'[s]]
         /\ stream'[s] \in StreamState
<1>t. stream \in [Streams -> StreamState] /\ stream[s] \in StreamState
  BY DEF TInv
<1>1. CASE Subscribe(s)
  <2>1. bus[Home[s]] \in Streams \cup {NoQueue} /\ run.ends \in Nat
    BY HomeAssumption, RunType
  <2> QED BY <1>1, <2>1, <1>t DEF Subscribe, StreamState, Suspended
<1>2. CASE FirstLoad(s) \/ TimesOut(s) \/ Poll(s)
  <2>1. record.trace \in Lasts /\ <<>> \in Seq(Step)
    BY EmptySeq, RunType
  <2>2. CASE FirstLoad(s)
    BY <2>1, <2>2, <1>t DEF FirstLoad, End, StreamState, Suspended
  <2>3. CASE TimesOut(s) \/ Poll(s)
    BY <2>1, <2>3, <1>t DEF TimesOut, Poll, StreamState, Suspended
  <2> QED BY <1>2, <2>2, <2>3
<1>3. CASE Receive(s)
  <2> DEFINE q == stream[s].queue
  <2>1. q \in Streams /\ queue[q] \in Seq(Events) /\ queue[q] # <<>>
    BY <1>3, <1>t DEF Receive, TInv, TypeOK, Subscribed, Open, Suspended, StreamState
  <2>2. Head(queue[q]) \in Events
    BY <2>1, HeadTailProperties
  <2>3. CASE Head(queue[q]) = Sentinel
    BY <1>3, <2>3, <1>t DEF Receive, End, StreamState
  <2>4. CASE Head(queue[q]) # Sentinel
    <3>1. Append(stream[s].steps, Head(queue[q])) \in Seq(Step)
      BY <2>2, <2>4, <1>t, AppendProperties DEF StreamState, Step, Events
    <3>2. stream' = [stream EXCEPT ![s].steps = Append(stream[s].steps, Head(queue[q]))]
      BY <1>3, <2>4 DEF Receive
    <3> QED BY <3>1, <3>2, <1>t DEF StreamState
  <2> QED BY <2>3, <2>4
<1>4. CASE Replay(s)
  <2>1. stream[s].steps \o Trace(stream[s].snap) \in Seq(Step)
    BY <1>t, TraceSeq, ConcatProperties DEF StreamState
  <2> QED BY <1>4, <2>1, <1>t DEF Replay, End, StreamState
<1>5. CASE Disconnect(s)
  BY <1>5, <1>t, BlankState DEF Disconnect
<1> QED BY <1>1, <1>2, <1>3, <1>4, <1>5 DEF StreamStep

LEMMA TypeStream ==
  ASSUME TInv, NEW s \in Streams, Subscribe(s) \/ StreamStep(s) \/ Disconnect(s)
  PROVE  TInv'
<1>1. stream' = [stream EXCEPT ![s] = stream'[s]] /\ stream'[s] \in StreamState
  BY StreamMoves
<1>2. stream' \in [Streams -> StreamState]
  BY <1>1, RunType
<1>3. Subscribed'
  <2>1. Open(s)' => stream'[s].queue # NoQueue
    <3>1. CASE Subscribe(s)
      BY <3>1, RunType, NoQueueAssumption, HomeAssumption DEF Subscribe, StreamState
    <3>2. CASE StreamStep(s)
      <4>1. stream[s] \in StreamState /\ stream[s].pc \in Suspended /\ stream[s].queue # NoQueue
        BY <3>2, RunType DEF StreamStep, FirstLoad, Receive, TimesOut, Poll, Replay, TInv,
           Subscribed, Open, Suspended
      <4>2. CASE FirstLoad(s) \/ TimesOut(s) \/ Poll(s)
        BY <4>1, <4>2, RunType DEF FirstLoad, TimesOut, Poll, End, Open, Suspended, StreamState
      <4>3. CASE Receive(s) \/ Replay(s)
        BY <4>1, <4>3, RunType DEF Receive, Replay, End, Open, Suspended, StreamState
      <4> QED BY <3>2, <4>2, <4>3 DEF StreamStep
    <3>3. CASE Disconnect(s)
      BY <3>3, RunType DEF Disconnect, Blank, Open, Suspended
    <3> QED BY <3>1, <3>2, <3>3
  <2> QED BY <1>1, <2>1, RunType DEF TInv, Subscribed, Open
<1>4. bus' \in [Procs -> Streams \cup {NoQueue}]
  <2>1. bus \in [Procs -> Streams \cup {NoQueue}] /\ Home[s] \in Procs
    BY RunType, HomeAssumption
  <2>2. \E q \in Streams \cup {NoQueue} : bus' = bus \/ bus' = [bus EXCEPT ![Home[s]] = q]
    BY <2>1 DEF Subscribe, StreamStep, FirstLoad, Receive, TimesOut, Poll, Replay, Disconnect,
       End, Unsubscribe
  <2> QED BY <2>1, <2>2
<1>5. queue' \in [Streams -> Seq(Events)]
  <2>1. CASE Receive(s)
    <3>1. queue[stream[s].queue] \in Seq(Events) /\ queue[stream[s].queue] # <<>>
      BY <2>1, RunType DEF Receive, TInv, Subscribed, Open, Suspended, StreamState
    <3>2. Tail(queue[stream[s].queue]) \in Seq(Events)
      BY <3>1, HeadTailProperties
    <3> QED BY <2>1, <3>2, RunType DEF Receive
  <2> QED BY <2>1, RunType DEF Subscribe, StreamStep, FirstLoad, TimesOut, Poll, Replay, Disconnect
<1>6. UNCHANGED <<record, run>>
  BY DEF Subscribe, StreamStep, FirstLoad, Receive, TimesOut, Poll, Replay, Disconnect
<1>7. run.count \in 0..MaxRuns /\ record' \in [status : Statuses, trace : Lasts]
  BY <1>6, RunType
<1> QED BY <1>2, <1>3, <1>4, <1>5, <1>6, <1>7, TypeParts, RunType

LEMMA TypeStep == TInv /\ [Next]_vars => TInv'
<1> SUFFICES ASSUME TInv, [Next]_vars PROVE TInv'
  OBVIOUS
<1>1. CASE UNCHANGED vars
  BY <1>1 DEF vars, TInv, TypeOK, Subscribed, Open
<1> QED BY <1>1, TypeRun, TypeProcess, TypeStream DEF Next

\* The stream's state stays well typed: numbers of steps, ends and entries,
\* statuses, queues of streams; and an open stream always has a queue.
THEOREM StreamTypeCorrect == Spec => []TypeOK
<1>1. TInv => TypeOK
  BY DEF TInv
<1> QED BY <1>1, TypeInit, TypeStep, PTL DEF Spec

-----------------------------------------------------------------------------
(* The order of events *)

LEMMA FlowInit == Init => FInv
<1> SUFFICES ASSUME Init PROVE Flow
  BY TypeInit DEF FInv
<1>1. \A s \in Streams : /\ stream[s].pc = "new" /\ stream[s].queue = NoQueue
                         /\ stream[s].steps = <<>> /\ queue[s] = <<>> /\ ~Open(s)
  BY DEF Init, Blank, Open, Suspended
<1>2. Placed /\ Published
  BY <1>1 DEF Init, Placed, Published
<1>3. \A q \in Streams : QueueOK(q)
  BY <1>1 DEF QueueOK, Ordered
<1>4. \A s \in Streams : ReaderOK(s) /\ SentOK(s)
  BY <1>1 DEF ReaderOK, SentOK, Rising
<1> QED BY <1>2, <1>3, <1>4 DEF Flow

\* Steps of the run that publish nothing.
LEMMA FlowQuiet ==
  ASSUME FInv, LoadRecord \/ MarkProcessing \/ SaveResult \/ Raises \/ FailSave \/ FailRaises
  PROVE  Flow'
<1>1. UNCHANGED <<bus, queue, stream>>
  BY DEF LoadRecord, MarkProcessing, SaveResult, Raises, FailSave, FailRaises
<1>2. /\ run'.published = run.published /\ run'.last = run.last /\ run'.ends = run.ends
      /\ run'.pc # "save"
  BY RunType DEF FInv, LoadRecord, MarkProcessing, SaveResult, Raises, FailSave, FailRaises, Go
<1>3. \A q \in Streams : QueueOK(q)'
  BY <1>1, <1>2 DEF FInv, Flow, QueueOK
<1>4. \A s \in Streams : ReaderOK(s)' /\ SentOK(s)'
  <2> SUFFICES ASSUME NEW s \in Streams PROVE ReaderOK(s)' /\ SentOK(s)'
    OBVIOUS
  <2>1. ReaderOK(s) /\ SentOK(s)
    BY DEF FInv, Flow
  <2>2. ReaderOK(s)'
    BY <1>1, <1>2, <2>1 DEF ReaderOK, Open
  <2>3. SentOK(s)'
    BY <1>1, <2>1 DEF SentOK, Shown
  <2> QED BY <2>2, <2>3
<1>5. Placed'
  BY <1>1 DEF FInv, Flow, Placed
<1>6. Published'
  BY <1>2 DEF FInv, Flow, Published
<1> QED BY <1>3, <1>4, <1>5, <1>6 DEF Flow

\* An event goes behind all others, and the steps of all runs come in order.
LEMMA FlowPublish ==
  ASSUME FInv, PublishStep \/ PublishEnd \/ FailEnd
  PROVE  Flow'
<1>t. TInv /\ Flow /\ TInv'
  BY TypeRun DEF FInv, RunStep
<1>n. /\ run.published \in Nat /\ run'.published \in Nat /\ run.ends \in Nat /\ run'.ends \in Nat
      /\ run.last \in Nat
  BY <1>t, RunType, NextType
<1>1. PICK e \in Events :
        /\ Publish(e) /\ UNCHANGED <<bus, stream>>
        /\ run'.proc = run.proc /\ run'.last = run.last
        /\ run.published <= run'.published /\ run'.published <= run'.last /\ e <= run'.published
        /\ run.ends <= run'.ends
        /\ e # Sentinel => run.published < e
        /\ e = Sentinel => run'.ends > 0
        /\ run'.pc = "save" => run'.published = run'.last
  <2>1. CASE PublishStep
    <3>1. run.published + 1 \in Events /\ run.published + 1 # Sentinel
      BY <1>n DEF Events, Sentinel
    <3>2. /\ run'.published = run.published + 1 /\ run'.pc = "graph" /\ run'.proc = run.proc
          /\ run'.last = run.last /\ run'.ends = run.ends /\ run.published < run.last
      BY <2>1, <1>t, RunType DEF PublishStep
    <3>3. Publish(run.published + 1) /\ UNCHANGED <<bus, stream>>
      BY <2>1 DEF PublishStep
    <3>4. run.published + 1 <= run.last
      BY <1>n, <3>2
    <3> QED BY <3>1, <3>2, <3>3, <3>4, <1>n
  <2>2. CASE PublishEnd \/ FailEnd
    <3>1. /\ run'.published = run.published /\ run'.proc = run.proc /\ run'.last = run.last
          /\ run'.ends = run.ends + 1
          /\ run'.pc = "save" => run.published = run.last
      BY <2>2, <1>t, RunType DEF PublishEnd, FailEnd, EndStream
    <3>2. Sentinel \in Events /\ Sentinel <= run.published
      BY <1>n, SentinelEvent DEF Sentinel
    <3>3. Publish(Sentinel) /\ UNCHANGED <<bus, stream>>
      BY <2>2 DEF PublishEnd, FailEnd, EndStream
    <3>4. run.published <= run.last
      BY <1>t DEF Flow, Published
    <3> QED BY <1>n, <3>1, <3>2, <3>3, <3>4
  <2> QED BY <2>1, <2>2
<1>q. PICK q0 : q0 = bus[run.proc] /\ q0 \in Streams \cup {NoQueue}
  BY <1>t, RunType
<1>2. /\ \A q \in Streams : q # q0 => queue'[q] = queue[q]
      /\ q0 # NoQueue => /\ q0 \in Streams /\ queue'[q0] = Append(queue[q0], e)
                         /\ queue[q0] \in Seq(Events)
                         /\ Home[q0] = run.proc /\ stream[q0].pc # "new"
  BY <1>1, <1>q, <1>t, PublishType, RunType DEF Flow, Placed
<1>5. q0 # NoQueue =>
        /\ QueueOK(q0)
        /\ Len(queue'[q0]) = Len(queue[q0]) + 1 /\ Len(queue[q0]) \in Nat
        /\ \A i \in 1..Len(queue[q0]) : queue'[q0][i] = queue[q0][i] /\ queue[q0][i] \in Nat
        /\ queue'[q0][Len(queue[q0]) + 1] = e
  <2> SUFFICES ASSUME q0 # NoQueue
               PROVE  /\ QueueOK(q0)
                      /\ Len(queue'[q0]) = Len(queue[q0]) + 1 /\ Len(queue[q0]) \in Nat
                      /\ \A i \in 1..Len(queue[q0]) : queue'[q0][i] = queue[q0][i] /\ queue[q0][i] \in Nat
                      /\ queue'[q0][Len(queue[q0]) + 1] = e
    OBVIOUS
  <2>1. /\ queue[q0] \in Seq(Events) /\ queue'[q0] = Append(queue[q0], e) /\ e \in Events
        /\ QueueOK(q0)
    BY <1>2, <1>t DEF Flow
  <2>2. \A i \in 1..Len(queue[q0]) : queue[q0][i] \in Nat
    BY <2>1, ElementOfSeq DEF Events
  <2> QED BY <2>1, <2>2, AppendProperties, LenProperties
<1>6. q0 # NoQueue => QueueOK(q0)'
  <2> SUFFICES ASSUME q0 # NoQueue PROVE QueueOK(q0)'
    OBVIOUS
  <2>1. Ordered(queue[q0])
    BY <1>5 DEF QueueOK
  <2>2. e # Sentinel => \A i \in 1..Len(queue[q0]) : queue[q0][i] < e
    BY <1>1, <1>5, <1>n, SMTT(20) DEF QueueOK, Events
  <2>3. Ordered(queue'[q0])
    BY <1>2, <2>1, <2>2, AppendOrdered
  <2>5. \A i \in 1..Len(queue'[q0]) : /\ queue'[q0][i] <= run'.published
                                      /\ queue'[q0][i] = Sentinel => run'.ends > 0
    <3> SUFFICES ASSUME NEW i \in 1..Len(queue'[q0])
                 PROVE  /\ queue'[q0][i] <= run'.published
                        /\ queue'[q0][i] = Sentinel => run'.ends > 0
      OBVIOUS
    <3>1. CASE i = Len(queue[q0]) + 1
      BY <3>1, <1>1, <1>5
    <3>2. CASE i \in 1..Len(queue[q0])
      <4>1. /\ queue[q0][i] <= run.published /\ queue[q0][i] \in Nat
            /\ queue[q0][i] = Sentinel => run.ends > 0
        BY <3>2, <1>5 DEF QueueOK
      <4>2. queue[q0][i] <= run'.published
        BY <4>1, <1>1, <1>n
      <4>3. queue[q0][i] = Sentinel => run'.ends > 0
        BY <4>1, <1>1, <1>n
      <4> QED BY <3>2, <4>2, <4>3, <1>5
    <3> QED BY <3>1, <3>2, <1>5
  <2> QED BY <2>3, <2>5 DEF QueueOK
<1>7. \A q \in Streams : q # q0 => QueueOK(q)'
  <2> SUFFICES ASSUME NEW q \in Streams, q # q0 PROVE QueueOK(q)'
    OBVIOUS
  <2>1. QueueOK(q) /\ queue'[q] = queue[q] /\ queue[q] \in Seq(Events)
    BY <1>2, <1>t, RunType DEF Flow
  <2>2. \A i \in 1..Len(queue[q]) : queue[q][i] \in Nat
    BY <2>1, ElementOfSeq DEF Events
  <2>3. \A i \in 1..Len(queue[q]) : /\ queue[q][i] <= run'.published
                                    /\ queue[q][i] = Sentinel => run'.ends > 0
    BY <2>1, <2>2, <1>1, <1>n DEF QueueOK
  <2> QED BY <2>1, <2>3 DEF QueueOK
<1>8. \A s \in Streams : ReaderOK(s)' /\ SentOK(s)'
  <2> SUFFICES ASSUME NEW s \in Streams PROVE ReaderOK(s)' /\ SentOK(s)'
    OBVIOUS
  <2>1. SentOK(s)'
    BY <1>1, <1>t DEF Flow, SentOK, Shown
  <2>2. ReaderOK(s)'
    <3> DEFINE sent == stream[s].steps
               q == stream[s].queue
    <3> SUFFICES ASSUME Open(s), NEW i \in 1..Len(sent)
                 PROVE  /\ sent[i] <= run'.published
                        /\ \A j \in 1..Len(queue'[q]) :
                             queue'[q][j] = Sentinel \/ sent[i] < queue'[q][j]
      BY <1>1 DEF ReaderOK, Open
    <3>1. /\ sent[i] <= run.published
          /\ \A j \in 1..Len(queue[q]) : queue[q][j] = Sentinel \/ sent[i] < queue[q][j]
      BY <1>t DEF Flow, ReaderOK
    <3>2. sent[i] \in Nat /\ q \in Streams
      <4>1. sent \in Seq(Step) /\ q \in Streams
        BY <1>t, RunType DEF StreamState, TInv, Subscribed
      <4> QED BY <4>1, ElementOfSeq DEF Step
    <3>0. sent[i] <= run'.published
      BY <3>1, <3>2, <1>1, <1>n
    <3>3. CASE q # q0
      BY <3>0, <3>1, <3>2, <3>3, <1>2
    <3>4. CASE q = q0
      <4>1. q0 # NoQueue
        BY <3>2, <3>4, NoQueueAssumption
      <4>2. \A j \in 1..Len(queue'[q]) : queue'[q][j] = Sentinel \/ sent[i] < queue'[q][j]
        <5> SUFFICES ASSUME NEW j \in 1..Len(queue'[q])
                     PROVE  queue'[q][j] = Sentinel \/ sent[i] < queue'[q][j]
          OBVIOUS
        <5>2. CASE j = Len(queue[q0]) + 1
          <6>1. e = Sentinel \/ sent[i] < e
            BY <3>1, <3>2, <1>1, <1>n DEF Events
          <6> QED BY <4>1, <5>2, <6>1, <3>4, <1>5
        <5>3. CASE j \in 1..Len(queue[q0])
          BY <4>1, <5>3, <3>1, <3>4, <1>5
        <5> QED BY <4>1, <5>2, <5>3, <1>5, <3>4
      <4> QED BY <3>0, <4>2
    <3> QED BY <3>3, <3>4
  <2> QED BY <2>1, <2>2
<1>9. Placed'
  <2>1. \A s \in Streams : stream[s].pc = "new" => queue'[s] = queue[s]
    BY <1>2, NoQueueAssumption
  <2> QED BY <2>1, <1>1, <1>t DEF Flow, Placed
<1>10. Published'
  BY <1>1 DEF Published
<1> QED BY <1>6, <1>7, <1>8, <1>9, <1>10, NoQueueAssumption DEF Flow

\* A new run numbers its steps on.
LEMMA FlowDeliver == ASSUME FInv, NEW p \in Procs, Deliver(p) PROVE Flow'
<1>t. TInv /\ Flow
  BY DEF FInv
<1>1. /\ run'.pc = "load" /\ run'.published = run.last /\ run'.last = run.last + Steps
      /\ run'.ends = run.ends /\ UNCHANGED <<bus, queue, stream>>
  BY <1>t, RunType DEF Deliver
<1>n. run.published \in Nat /\ run.last \in Nat /\ Steps \in Nat /\ run.published <= run.last
  BY <1>t, RunType DEF Flow, Published
<1>2. Published'
  BY <1>1, <1>n DEF Published
<1>5. \A q \in Streams : QueueOK(q)'
  <2> SUFFICES ASSUME NEW q \in Streams PROVE QueueOK(q)'
    OBVIOUS
  <2>1. QueueOK(q) /\ queue[q] \in Seq(Events)
    BY <1>t, RunType DEF Flow
  <2>2. \A i \in 1..Len(queue[q]) : queue[q][i] \in Nat
    BY <2>1, ElementOfSeq DEF Events
  <2> QED BY <2>1, <2>2, <1>1, <1>n DEF QueueOK
<1>6. \A s \in Streams : ReaderOK(s)' /\ SentOK(s)'
  <2> SUFFICES ASSUME NEW s \in Streams PROVE ReaderOK(s)' /\ SentOK(s)'
    OBVIOUS
  <2>1. ReaderOK(s) /\ SentOK(s) /\ stream[s].steps \in Seq(Step)
    BY <1>t, RunType DEF Flow, StreamState
  <2>2. \A i \in 1..Len(stream[s].steps) : stream[s].steps[i] \in Nat
    BY <2>1, ElementOfSeq DEF Step
  <2>3. ReaderOK(s)'
    BY <2>1, <2>2, <1>1, <1>n DEF ReaderOK, Open
  <2> QED BY <2>1, <2>3, <1>1 DEF SentOK, Shown
<1> QED BY <1>1, <1>2, <1>5, <1>6, <1>t DEF Flow, Placed

\* A process takes its bus, its queues and its open streams along.
LEMMA FlowCrash == ASSUME FInv, NEW p \in Procs, Crash(p) PROVE Flow'
<1>t. TInv /\ Flow
  BY DEF FInv
<1>1. /\ bus' = [bus EXCEPT ![p] = NoQueue]
      /\ \A q \in Streams : queue'[q] = IF Home[q] = p THEN <<>> ELSE queue[q]
      /\ \A s \in Streams :
           stream'[s] = IF Home[s] = p /\ Open(s) THEN Blank("closed") ELSE stream[s]
      /\ run'.published = run.published /\ run'.last = run.last /\ run'.ends = run.ends
      /\ run'.pc \in {run.pc, "idle"}
  BY <1>t, RunType DEF Crash, Go
<1>2. \A s \in Streams :
        \/ stream'[s] = stream[s] /\ (Open(s)' => Open(s) /\ Home[s] # p)
        \/ /\ stream'[s].queue = NoQueue /\ stream'[s].steps = <<>>
           /\ stream'[s].pc = "closed" /\ stream[s].pc # "new" /\ ~Open(s)'
  BY <1>1, <1>t, RunType DEF Open, Suspended, Blank
<1>6. \A q \in Streams : QueueOK(q)'
  <2> SUFFICES ASSUME NEW q \in Streams PROVE QueueOK(q)'
    OBVIOUS
  <2>1. CASE Home[q] = p
    BY <2>1, <1>1 DEF QueueOK, Ordered
  <2>2. CASE Home[q] # p
    BY <2>2, <1>1, <1>t DEF QueueOK, Flow
  <2> QED BY <2>1, <2>2
<1>7. \A s \in Streams : ReaderOK(s)'
  <2> SUFFICES ASSUME NEW s \in Streams, Open(s)' PROVE ReaderOK(s)'
    BY DEF ReaderOK
  <2>1. Open(s) /\ Home[s] # p /\ ReaderOK(s) /\ stream'[s] = stream[s]
    BY <1>2, <1>t DEF Flow
  <2>2. queue'[stream[s].queue] = queue[stream[s].queue]
    <3>1. stream[s].queue \in Streams /\ Home[stream[s].queue] = Home[s]
      BY <2>1, <1>t, RunType DEF Flow, Placed, TInv, Subscribed, StreamState
    <3> QED BY <2>1, <3>1, <1>1
  <2> QED BY <2>1, <2>2, <1>1 DEF ReaderOK
<1>8. \A s \in Streams : SentOK(s)'
  <2> SUFFICES ASSUME NEW s \in Streams PROVE SentOK(s)'
    OBVIOUS
  <2>1. CASE stream'[s] = stream[s]
    BY <2>1, <1>t DEF Flow, SentOK, Shown
  <2>2. CASE stream'[s].pc = "closed" /\ stream'[s].steps = <<>>
    BY <2>2 DEF SentOK, Rising
  <2> QED BY <2>1, <2>2, <1>2
<1>9. Placed'
  <2>1. \A d \in Procs : bus'[d] = bus[d] \/ bus'[d] = NoQueue
    BY <1>1, <1>t, RunType
  <2>2. \A s \in Streams : stream[s].queue # NoQueue => stream[s].queue \in Streams
    BY <1>t, RunType DEF StreamState
  <2>3. \A d \in Procs : bus[d] # NoQueue => bus[d] \in Streams
    BY <1>t, RunType
  <2>4. \A s \in Streams : /\ (stream'[s].pc = "new") = (stream[s].pc = "new")
                           /\ stream'[s].queue \in {stream[s].queue, NoQueue}
                           /\ stream'[s].pc = "new" => stream'[s] = stream[s]
    BY <1>2
  <2>5. \A s \in Streams : stream[s].pc = "new" => queue'[s] = <<>> /\ stream[s].steps = <<>>
    BY <1>1, <1>t DEF Flow, Placed
  <2>6. \A d \in Procs : bus'[d] # NoQueue => Home[bus'[d]] = d /\ stream'[bus'[d]].pc # "new"
    BY <2>1, <2>3, <2>4, <1>t DEF Flow, Placed
  <2>7. \A s \in Streams : stream'[s].queue # NoQueue =>
          Home[stream'[s].queue] = Home[s] /\ stream'[stream'[s].queue].pc # "new"
    BY <2>2, <2>4, <1>t DEF Flow, Placed
  <2>8. \A s \in Streams : stream'[s].pc = "new" => queue'[s] = <<>> /\ stream'[s].steps = <<>>
    BY <2>4, <2>5
  <2> QED BY <2>6, <2>7, <2>8 DEF Placed
<1>10. Published'
  BY <1>1, <1>t DEF Flow, Published
<1> QED BY <1>6, <1>7, <1>8, <1>9, <1>10 DEF Flow

\* A new reader of the queue there is, or of a new one, which is empty.
LEMMA FlowSubscribe == ASSUME FInv, NEW s \in Streams, Subscribe(s) PROVE Flow'
<1>t. TInv /\ Flow
  BY DEF FInv
<1>1. PICK q \in Streams :
        /\ q = IF bus[Home[s]] = NoQueue THEN s ELSE bus[Home[s]]
        /\ bus' = [bus EXCEPT ![Home[s]] = q] /\ UNCHANGED <<run, queue>>
        /\ stream' = [stream EXCEPT ![s].pc = "load", ![s].queue = q,
                                    ![s].early = run.published = 0, ![s].after = run.ends]
        /\ Home[s] \in Procs /\ stream[s].pc = "new"
  BY <1>t, RunType, HomeAssumption DEF Subscribe
<1>2. /\ Home[q] = Home[s] /\ stream'[q].pc # "new"
      /\ queue[s] = <<>> /\ stream[s].steps = <<>> /\ ~Open(s)
  BY <1>1, <1>t, RunType DEF Flow, Placed, StreamState, Open, Suspended
<1>3. /\ stream'[s].pc = "load" /\ stream'[s].queue = q /\ stream'[s].steps = <<>>
      /\ \A r \in Streams \ {s} : stream'[r] = stream[r]
  BY <1>1, <1>2, <1>t, RunType DEF StreamState
<1>5. \A r \in Streams : QueueOK(r)'
  BY <1>1, <1>t DEF QueueOK, Flow
<1>6. \A r \in Streams : ReaderOK(r)' /\ SentOK(r)'
  <2> SUFFICES ASSUME NEW r \in Streams PROVE ReaderOK(r)' /\ SentOK(r)'
    OBVIOUS
  <2>1. CASE r = s
    BY <2>1, <1>3 DEF ReaderOK, SentOK, Rising
  <2>2. CASE r # s
    <3>1. stream'[r] = stream[r] /\ ReaderOK(r) /\ SentOK(r)
      BY <2>2, <1>3, <1>t DEF Flow
    <3> QED BY <3>1, <1>1 DEF ReaderOK, SentOK, Shown, Open
  <2> QED BY <2>1, <2>2
<1>7. Placed'
  <2>1. \A d \in Procs : bus'[d] # NoQueue =>
          Home[bus'[d]] = d /\ stream'[bus'[d]].pc # "new"
    <3> SUFFICES ASSUME NEW d \in Procs, bus'[d] # NoQueue
                 PROVE  Home[bus'[d]] = d /\ stream'[bus'[d]].pc # "new"
      OBVIOUS
    <3>1. CASE d = Home[s]
      BY <3>1, <1>1, <1>2, <1>t, RunType
    <3>2. CASE d # Home[s]
      BY <3>2, <1>1, <1>2, <1>3, <1>t, RunType DEF Flow, Placed
    <3> QED BY <3>1, <3>2
  <2>2. \A r \in Streams : stream'[r].queue # NoQueue =>
          Home[stream'[r].queue] = Home[r] /\ stream'[stream'[r].queue].pc # "new"
    <3> SUFFICES ASSUME NEW r \in Streams, stream'[r].queue # NoQueue
                 PROVE  Home[stream'[r].queue] = Home[r] /\ stream'[stream'[r].queue].pc # "new"
      OBVIOUS
    <3>1. CASE r = s
      BY <3>1, <1>2, <1>3
    <3>2. CASE r # s
      <4>1. stream[r].queue \in Streams
        BY <3>2, <1>3, <1>t, RunType DEF StreamState
      <4> QED BY <3>2, <4>1, <1>3, <1>t DEF Flow, Placed
    <3> QED BY <3>1, <3>2
  <2>3. \A r \in Streams : stream'[r].pc = "new" => queue'[r] = <<>> /\ stream'[r].steps = <<>>
    <3>1. \A r \in Streams \ {s} : stream[r].pc = "new" => queue[r] = <<>> /\ stream[r].steps = <<>>
      BY <1>t DEF Flow, Placed
    <3>2. queue' = queue /\ stream'[s].pc # "new"
      BY <1>1, <1>3
    <3> QED BY <3>1, <3>2, <1>3
  <2> QED BY <2>1, <2>2, <2>3 DEF Placed
<1>8. Published'
  BY <1>1, <1>t DEF Flow, Published
<1> QED BY <1>5, <1>6, <1>7, <1>8 DEF Flow

\* Placed when one stream goes on, and queues only lose what they hold.
LEMMA PlacedStill ==
  ASSUME TInv, Placed, NEW s \in Streams,
         \A d \in Procs : bus'[d] \in {bus[d], NoQueue},
         \A r \in Streams \ {s} : stream'[r] = stream[r],
         \A r \in Streams : stream[r].pc = "new" => queue'[r] = queue[r],
         stream'[s].queue \in {stream[s].queue, NoQueue},
         stream[s].pc # "new", stream'[s].pc # "new"
  PROVE  Placed'
<1>1. \A r \in Streams : /\ stream'[r].queue \in {stream[r].queue, NoQueue}
                         /\ (stream'[r].pc = "new") = (stream[r].pc = "new")
                         /\ stream'[r].pc = "new" => stream'[r] = stream[r]
  OBVIOUS
<1>2. \A r \in Streams : stream[r].queue # NoQueue => stream[r].queue \in Streams
  BY RunType DEF StreamState
<1>3. \A d \in Procs : bus[d] # NoQueue => bus[d] \in Streams
  BY RunType
<1>4. \A d \in Procs : bus'[d] # NoQueue => Home[bus'[d]] = d /\ stream'[bus'[d]].pc # "new"
  BY <1>1, <1>3 DEF Placed
<1>5. \A r \in Streams : stream'[r].queue # NoQueue =>
        Home[stream'[r].queue] = Home[r] /\ stream'[stream'[r].queue].pc # "new"
  BY <1>1, <1>2 DEF Placed
<1>6. \A r \in Streams : stream'[r].pc = "new" => queue'[r] = <<>> /\ stream'[r].steps = <<>>
  BY <1>1 DEF Placed
<1> QED BY <1>4, <1>5, <1>6 DEF Placed

\* Steps of one stream that take nothing from its queue.
LEMMA FlowStill ==
  ASSUME FInv, NEW s \in Streams, UNCHANGED <<run, queue>>,
         \A d \in Procs : bus'[d] \in {bus[d], NoQueue},
         \A r \in Streams \ {s} : stream'[r] = stream[r],
         stream'[s].queue \in {stream[s].queue, NoQueue},
         stream[s].pc # "new", stream'[s].pc # "new",
         Open(s)' => /\ Open(s) /\ stream'[s].steps = stream[s].steps
                     /\ stream'[s].queue = stream[s].queue,
         SentOK(s)'
  PROVE  Flow'
<1>t. TInv /\ Flow
  BY DEF FInv
<1>2. \A r \in Streams : QueueOK(r)'
  BY <1>t DEF Flow, QueueOK
<1>3. \A r \in Streams : ReaderOK(r)'
  <2> SUFFICES ASSUME NEW r \in Streams, Open(r)' PROVE ReaderOK(r)'
    BY DEF ReaderOK
  <2>1. /\ Open(r) /\ stream'[r].steps = stream[r].steps /\ stream'[r].queue = stream[r].queue
        /\ ReaderOK(r)
    BY <1>t DEF Flow, Open
  <2> QED BY <2>1 DEF ReaderOK
<1>4. \A r \in Streams : SentOK(r)'
  BY <1>t, ZenonT(30) DEF Flow, SentOK, Shown
<1>5. Placed'
  BY <1>t, PlacedStill DEF Flow
<1>6. Published'
  BY <1>t DEF Flow, Published
<1> QED BY <1>2, <1>3, <1>4, <1>5, <1>6 DEF Flow

\* What a reader takes is the first of what is left for all of them.
LEMMA FlowReceive == ASSUME FInv, NEW s \in Streams, Receive(s) PROVE Flow'
<1>t. TInv /\ Flow
  BY DEF FInv
<1>1. PICK q \in Streams : q = stream[s].queue /\ Open(s) /\ QueueOK(q) /\ stream[q].pc # "new"
  <2>1. Open(s) /\ stream[s].queue \in Streams
    BY <1>t, RunType DEF Receive, Open, Suspended, TInv, Subscribed, StreamState
  <2> QED BY <2>1, <1>t, NoQueueAssumption DEF Flow, Placed
<1>2. /\ stream[s].pc = "live" /\ queue[q] # <<>> /\ queue[q] \in Seq(Events)
      /\ queue' = [queue EXCEPT ![q] = Tail(queue[q])] /\ run' = run
      /\ IF Head(queue[q]) = Sentinel
         THEN /\ stream' = [stream EXCEPT ![s].pc = "done", ![s].steps = stream[s].steps,
                                          ![s].queue = NoQueue]
              /\ bus' = [bus EXCEPT ![Home[s]] = NoQueue]
         ELSE /\ stream' = [stream EXCEPT ![s].steps = Append(stream[s].steps, Head(queue[q]))]
              /\ bus' = bus
  BY <1>1, <1>t, RunType DEF Receive, End, Unsubscribe
<1>h. PICK h \in Events : h = Head(queue[q])
  BY <1>2, HeadTailProperties
<1>l. PICK left \in Seq(Events) : left = Tail(queue[q])
  BY <1>2, HeadTailProperties
<1>3. /\ Ordered(left) /\ h = queue[q][1] /\ 1 \in 1..Len(queue[q]) /\ Len(left) \in Nat
      /\ \A i \in 1..Len(left) : /\ left[i] = queue[q][i + 1] /\ i + 1 \in 1..Len(queue[q])
                                 /\ left[i] = Sentinel \/ h = Sentinel \/ h < left[i]
  BY <1>1, <1>2, <1>h, <1>l, HeadFirst, LenProperties DEF QueueOK
<1>4. /\ queue'[q] = left /\ \A r \in Streams \ {q} : queue'[r] = queue[r]
  BY <1>2, <1>l, <1>t, RunType
<1>5. /\ \A r \in Streams \ {s} : stream'[r] = stream[r]
      /\ stream'[s].pc \in {"live", "done"}
      /\ h = Sentinel => /\ stream'[s].pc = "done" /\ stream'[s].steps = stream[s].steps
                         /\ stream'[s].queue = NoQueue
      /\ h # Sentinel => /\ stream'[s].pc = "live" /\ stream'[s].queue = q
                         /\ stream'[s].steps = Append(stream[s].steps, h)
      /\ \A d \in Procs : bus'[d] \in {bus[d], NoQueue}
  <2>1. stream \in [Streams -> StreamState] /\ bus \in [Procs -> Streams \cup {NoQueue}]
    BY <1>t, RunType
  <2>2. CASE h = Sentinel
    BY <1>2, <1>h, <2>1, <2>2 DEF StreamState
  <2>3. CASE h # Sentinel
    BY <1>1, <1>2, <1>h, <2>1, <2>3 DEF StreamState
  <2> QED BY <2>2, <2>3
<1>7. \A r \in Streams : QueueOK(r)'
  <2> SUFFICES ASSUME NEW r \in Streams PROVE QueueOK(r)'
    OBVIOUS
  <2>1. QueueOK(r)
    BY <1>t DEF Flow
  <2>2. CASE r = q
    <3>2. \A i \in 1..Len(left) : /\ left[i] <= run'.published
                                  /\ left[i] = Sentinel => run'.ends > 0
      BY <1>1, <1>2, <1>3 DEF QueueOK
    <3> QED BY <2>2, <3>2, <1>3, <1>4 DEF QueueOK
  <2>3. CASE r # q
    BY <2>1, <2>3, <1>2, <1>4 DEF QueueOK
  <2> QED BY <2>2, <2>3
<1>8. \A r \in Streams : Open(r) =>
        /\ ReaderOK(r)
        /\ \A i \in 1..Len(stream[r].steps) :
             \A j \in 1..Len(queue'[stream[r].queue]) :
               \/ queue'[stream[r].queue][j] = Sentinel
               \/ stream[r].steps[i] < queue'[stream[r].queue][j]
  <2> SUFFICES ASSUME NEW r \in Streams, Open(r), NEW i \in 1..Len(stream[r].steps),
                      NEW j \in 1..Len(queue'[stream[r].queue])
               PROVE  \/ queue'[stream[r].queue][j] = Sentinel
                      \/ stream[r].steps[i] < queue'[stream[r].queue][j]
    BY <1>t DEF Flow
  <2>1. ReaderOK(r) /\ stream[r].queue \in Streams
    BY <1>t, RunType DEF Flow, TInv, Subscribed, StreamState
  <2>2. CASE stream[r].queue = q
    BY <2>1, <2>2, <1>3, <1>4 DEF ReaderOK
  <2>3. CASE stream[r].queue # q
    BY <2>1, <2>3, <1>4 DEF ReaderOK
  <2> QED BY <2>2, <2>3
<1>9. \A r \in Streams \ {s} : ReaderOK(r)' /\ SentOK(r)'
  <2> SUFFICES ASSUME NEW r \in Streams \ {s} PROVE ReaderOK(r)' /\ SentOK(r)'
    OBVIOUS
  <2>1. stream'[r] = stream[r] /\ SentOK(r) /\ run' = run
    BY <1>2, <1>5, <1>t DEF Flow
  <2> QED BY <2>1, <1>8 DEF ReaderOK, SentOK, Shown, Open
<1>10. ReaderOK(s)' /\ SentOK(s)'
  <2>1. stream[s].steps \in Seq(Step) /\ Rising(stream[s].steps) /\ Len(stream[s].steps) \in Nat
    BY <1>2, <1>t, RunType, LenProperties DEF Flow, SentOK, StreamState
  <2>2. CASE h = Sentinel
    <3>1. ~Open(s)' /\ stream'[s].pc = "done" /\ stream'[s].steps = stream[s].steps
      BY <2>2, <1>5 DEF Open, Suspended
    <3>2. Shown(s)'
      BY <2>1, <3>1, SMTT(20) DEF Shown, Rising
    <3> QED BY <3>1, <3>2 DEF ReaderOK, SentOK
  <2>3. CASE h # Sentinel
    <3>1. stream'[s].pc = "live" /\ stream'[s].steps = Append(stream[s].steps, h)
      BY <2>3, <1>5
    <3>2. h \in Step /\ h <= run.published
      BY <2>3, <1>1, <1>3 DEF QueueOK, Step, Events
    <3>3. \A i \in 1..Len(stream[s].steps) : stream[s].steps[i] < h
      BY <2>3, <1>1, <1>3, <1>t DEF Flow, ReaderOK
    <3>4. SentOK(s)'
      BY <2>1, <3>1, <3>2, <3>3, AppendRising DEF SentOK
    <3>5. /\ Len(Append(stream[s].steps, h)) = Len(stream[s].steps) + 1
          /\ \A i \in 1..Len(stream[s].steps) :
               Append(stream[s].steps, h)[i] = stream[s].steps[i]
          /\ Append(stream[s].steps, h)[Len(stream[s].steps) + 1] = h
      BY <2>1, <3>2, AppendProperties
    <3>7. \A i \in 1..Len(stream'[s].steps) :
            /\ stream'[s].steps[i] <= run'.published
            /\ \A j \in 1..Len(left) : left[j] = Sentinel \/ stream'[s].steps[i] < left[j]
      <4> SUFFICES ASSUME NEW i \in 1..Len(stream'[s].steps)
                   PROVE  /\ stream'[s].steps[i] <= run'.published
                          /\ \A j \in 1..Len(left) : left[j] = Sentinel \/ stream'[s].steps[i] < left[j]
        OBVIOUS
      <4>1. CASE i = Len(stream[s].steps) + 1
        BY <4>1, <2>3, <3>1, <3>2, <3>5, <1>2, <1>3
      <4>2. CASE i \in 1..Len(stream[s].steps)
        <5>1. stream'[s].steps[i] = stream[s].steps[i]
          BY <4>2, <3>1, <3>5
        <5>2. stream[s].steps[i] <= run.published
          BY <4>2, <1>1, <1>8 DEF ReaderOK
        <5>3. \A j \in 1..Len(left) : left[j] = Sentinel \/ stream[s].steps[i] < left[j]
          BY <4>2, <1>1, <1>4, <1>8
        <5> QED BY <5>1, <5>2, <5>3, <1>2
      <4> QED BY <4>1, <4>2, <2>1, <3>1, <3>5
    <3>8. stream'[s].queue = q /\ queue'[q] = left
      BY <2>3, <1>4, <1>5
    <3> QED BY <3>4, <3>7, <3>8 DEF ReaderOK
  <2> QED BY <2>2, <2>3
<1>11. Placed'
  <2>1. \A r \in Streams : stream[r].pc = "new" => queue'[r] = queue[r]
    BY <1>1, <1>4
  <2>2. stream[s].pc # "new" /\ stream'[s].pc # "new" /\ stream'[s].queue \in {stream[s].queue, NoQueue}
    BY <1>1, <1>2, <1>5
  <2> QED BY <2>1, <2>2, <1>5, <1>t, PlacedStill DEF Flow
<1>12. Published'
  BY <1>2, <1>t DEF Flow, Published
<1> QED BY <1>7, <1>9, <1>10, <1>11, <1>12 DEF Flow

LEMMA FlowStream ==
  ASSUME FInv, NEW s \in Streams, FirstLoad(s) \/ TimesOut(s) \/ Poll(s) \/ Replay(s) \/ Disconnect(s)
  PROVE  Flow'
<1>t. TInv /\ Flow
  BY DEF FInv
<1>1. /\ stream[s] \in StreamState /\ Home[s] \in Procs
      /\ stream[s].pc \in Suspended /\ Rising(stream[s].steps) /\ Len(stream[s].steps) \in Nat
  BY <1>t, RunType, HomeAssumption, LenProperties
  DEF FirstLoad, TimesOut, Poll, Replay, Disconnect, Open, Suspended, Flow, SentOK, StreamState
<1>2. /\ UNCHANGED <<run, queue>> /\ \A d \in Procs : bus'[d] \in {bus[d], NoQueue}
      /\ \A r \in Streams \ {s} : stream'[r] = stream[r]
  BY <1>t, <1>1, RunType DEF FirstLoad, TimesOut, Poll, Replay, Disconnect, End, Unsubscribe
<1>3. /\ stream'[s].queue \in {stream[s].queue, NoQueue}
      /\ stream[s].pc # "new" /\ stream'[s].pc # "new"
      /\ Open(s)' => /\ Open(s) /\ stream'[s].steps = stream[s].steps
                     /\ stream'[s].queue = stream[s].queue
  <2>1. CASE FirstLoad(s) \/ TimesOut(s) \/ Poll(s)
    BY <2>1, <1>t, <1>1, RunType DEF FirstLoad, TimesOut, Poll, End, StreamState, Suspended, Open
  <2>2. CASE Replay(s) \/ Disconnect(s)
    BY <2>2, <1>t, <1>1, RunType DEF Replay, Disconnect, Blank, End, StreamState, Suspended, Open
  <2> QED BY <2>1, <2>2
<1>4. SentOK(s)'
  <2>1. CASE FirstLoad(s) \/ TimesOut(s) \/ Poll(s) \/ Disconnect(s)
    <3>1. stream'[s].pc # "done" /\ stream'[s].steps \in {stream[s].steps, <<>>}
      BY <2>1, <1>t, <1>1, RunType
      DEF FirstLoad, TimesOut, Poll, Disconnect, Blank, End, StreamState, Open, Suspended
    <3>2. Rising(stream'[s].steps)
      BY <3>1, <1>1 DEF Rising
    <3> QED BY <3>1, <3>2, <1>1 DEF SentOK
  <2>2. CASE Replay(s)
    <3>1. /\ stream'[s].pc = "done" /\ stream'[s].snap = stream[s].snap
          /\ stream'[s].steps = stream[s].steps \o Trace(stream[s].snap)
          /\ stream[s].steps \in Seq(Step) /\ stream[s].snap \in Lasts
      BY <2>2, <1>t, <1>1, RunType DEF Replay, End, StreamState
    <3>2. Shown(s)'
      <4> DEFINE n == stream[s].snap
                 all == stream[s].steps \o Trace(n)
      <4>1. PICK live \in 0..Len(all) :
              /\ \A i, j \in 1..live : i < j => all[i] < all[j]
              /\ live = Len(all) \/ SubSeq(all, live + 1, Len(all)) = Trace(n)
        BY <3>1, <1>1, ReplayShown
      <4> QED BY <3>1, <4>1 DEF Shown
    <3> QED BY <3>1, <3>2 DEF SentOK
  <2> QED BY <2>1, <2>2
<1> QED BY <1>2, <1>3, <1>4, FlowStill

LEMMA FlowStep == FInv /\ [Next]_vars => FInv'
<1> SUFFICES ASSUME FInv, [Next]_vars PROVE FInv'
  OBVIOUS
<1>1. TInv'
  BY TypeStep DEF FInv
<1>2. CASE UNCHANGED vars
  <2>1. UNCHANGED <<run, bus, queue, stream>>
    BY <1>2 DEF vars
  <2>2. Placed' /\ Published'
    BY <2>1 DEF FInv, Flow, Placed, Published
  <2>3. \A q \in Streams : QueueOK(q)'
    BY <2>1 DEF FInv, Flow, QueueOK
  <2>4. \A s \in Streams : ReaderOK(s)' /\ SentOK(s)'
    <3> SUFFICES ASSUME NEW s \in Streams PROVE ReaderOK(s)' /\ SentOK(s)'
      OBVIOUS
    <3>1. ReaderOK(s) /\ SentOK(s)
      BY DEF FInv, Flow
    <3>2. ReaderOK(s)'
      BY <2>1, <3>1 DEF ReaderOK, Open
    <3>3. SentOK(s)'
      BY <2>1, <3>1 DEF SentOK, Shown
    <3> QED BY <3>2, <3>3
  <2> QED BY <1>1, <2>2, <2>3, <2>4 DEF FInv, Flow
<1>3. CASE RunStep
  BY <1>1, <1>3, FlowQuiet, FlowPublish DEF FInv, RunStep
<1>4. CASE \E p \in Procs : Deliver(p) \/ Crash(p)
  BY <1>1, <1>4, FlowDeliver, FlowCrash DEF FInv
<1>5. CASE \E s \in Streams : Subscribe(s) \/ StreamStep(s) \/ Disconnect(s)
  BY <1>1, <1>5, FlowSubscribe, FlowReceive, FlowStream DEF FInv, StreamStep
<1> QED BY <1>2, <1>3, <1>4, <1>5 DEF Next

LEMMA FlowCorrect == Spec => []FInv
  BY FlowInit, FlowStep, PTL DEF Spec

\* A client is never sent a step of a run twice, nor one before another that
\* the graph takes first, nor a step of a run behind one of a later run,
\* however many clients share the queue, whichever of them drops it, and however
\* often the run is lost or finished and starts again; only a replay may repeat.
THEOREM SentInOrder == Spec => []InOrder
<1>1. FInv => InOrder
  <2> SUFFICES ASSUME FInv, NEW s \in Streams PROVE Shown(s)
    BY DEF InOrder, Shown
  <2>1. SentOK(s) /\ stream[s].steps \in Seq(Step) /\ Len(stream[s].steps) \in Nat
    BY RunType, LenProperties DEF FInv, Flow, StreamState
  <2>2. CASE Rising(stream[s].steps)
    BY <2>1, <2>2 DEF Shown, Rising
  <2> QED BY <2>1, <2>2 DEF SentOK
<1> QED BY <1>1, FlowCorrect, PTL

-----------------------------------------------------------------------------
(* What ends a stream that is alone, and what an early client sees *)

LEMMA EarlyInit == Init => EInv
<1> SUFFICES ASSUME Init PROVE FirstRun /\ \A s \in Streams : FirstQueue(s) /\ Follows(s)
  BY FlowInit DEF EInv
<1>1. FirstRun
  BY DEF Init, FirstRun, Processed, Terminal
<1>2. \A s \in Streams : /\ stream[s].pc = "new" /\ stream[s].after = 0 /\ queue[s] = <<>>
                         /\ run.ends = 0
  BY DEF Init, Blank
<1> QED BY <1>1, <1>2 DEF Follows, FirstQueue, Watching

LEMMA FirstRunStep == ASSUME EInv, Next PROVE FirstRun'
<1>t. TInv /\ FirstRun /\ Published
  BY DEF EInv, FInv, Flow
<1>1. CASE RunStep
  <2>1. run'.count = run.count /\ run'.last = run.last /\ (run.count <= 1 => run.count = 1)
    <3>1. run.pc # "idle"
      BY <1>1 DEF RunStep, LoadRecord, MarkProcessing, PublishStep, PublishEnd, SaveResult,
         Raises, FailSave, FailEnd, FailRaises
    <3>2. run'.count = run.count /\ run'.last = run.last
      BY <1>1, <1>t, RunType
      DEF RunStep, LoadRecord, MarkProcessing, PublishStep, PublishEnd, SaveResult, Raises,
          FailSave, FailEnd, FailRaises, Go, EndStream
    <3> QED BY <3>1, <3>2, <1>t, RunType DEF FirstRun
  <2>2. CASE SaveResult
    BY <2>1, <2>2, <1>t, RunType DEF SaveResult, Go, FirstRun, Published, Processed, Terminal
  <2>3. CASE FailSave
    BY <2>1, <2>3, <1>t, RunType DEF FailSave, Go, FirstRun, Processed, Terminal, Statuses
  <2>4. CASE MarkProcessing
    BY <2>1, <2>4, <1>t, RunType DEF MarkProcessing, Go, FirstRun, Processed, Terminal
  <2>5. CASE LoadRecord \/ PublishStep \/ PublishEnd \/ Raises \/ FailEnd \/ FailRaises
    <3>1. record' = record /\ (run.pc \in {"fail_end", "over", "idle"} => run'.pc = "over")
      BY <2>5, <1>t, RunType
      DEF LoadRecord, PublishStep, PublishEnd, Raises, FailEnd, FailRaises, Go, EndStream
    <3>2. run.pc # "over"
      BY <2>5 DEF LoadRecord, PublishStep, PublishEnd, Raises, FailEnd, FailRaises
    <3> QED BY <2>1, <3>1, <3>2, <1>t, RunType DEF FirstRun, Processed, Terminal
  <2> QED BY <1>1, <2>2, <2>3, <2>4, <2>5 DEF RunStep
<1>2. CASE \E p \in Procs : Deliver(p)
  <2>1. record' = record /\ run'.count = run.count + 1 /\ run'.last = run.last + Steps
    BY <1>2, <1>t, RunType DEF Deliver
  <2>2. run'.count <= 1 => run.count = 0 /\ run'.count = 1
    BY <2>1, <1>t, RunType
  <2> QED BY <2>1, <2>2, <1>t, RunType DEF FirstRun, Processed, Terminal
<1>3. CASE \E p \in Procs : Crash(p)
  <2>1. /\ record' = record /\ run'.count = run.count /\ run'.last = run.last
        /\ run'.published = run.published
        /\ (run' = run) \/ (run'.pc = "idle" /\ run.pc # "over")
    BY <1>3, <1>t, RunType DEF Crash, Go
  <2> QED BY <2>1, <1>t, RunType DEF FirstRun, Processed, Terminal
<1>4. CASE \E s \in Streams : Subscribe(s) \/ StreamStep(s) \/ Disconnect(s)
  <2>1. UNCHANGED <<record, run>>
    BY <1>4 DEF Subscribe, StreamStep, FirstLoad, Receive, TimesOut, Poll, Replay, Disconnect
  <2> QED BY <2>1, <1>t DEF FirstRun, Processed, Terminal
<1> QED BY <1>1, <1>2, <1>3, <1>4 DEF Next

\* The event that a publishing step puts into the queue of the run's process.
LEMMA PublishMoves ==
  ASSUME FInv, PublishStep \/ PublishEnd \/ FailEnd
  PROVE  \E e \in Events :
           /\ Publish(e)
           /\ \/ /\ e = Sentinel /\ run'.published = run.published /\ run'.ends = run.ends + 1
                 /\ run'.pc \in Ending
              \/ /\ e # Sentinel /\ e = run.published + 1 /\ run'.published = run.published + 1
                 /\ run'.ends = run.ends /\ run.pc = "graph"
<1>t. TInv
  BY DEF FInv
<1>1. CASE PublishStep
  <2>1. run.published + 1 \in Events /\ run.published + 1 # Sentinel
    BY <1>t, RunType DEF Events, Sentinel
  <2>2. run'.published = run.published + 1 /\ run'.ends = run.ends /\ run.pc = "graph"
    BY <1>1, <1>t, RunType DEF PublishStep
  <2>3. Publish(run.published + 1)
    BY <1>1 DEF PublishStep
  <2> QED BY <2>1, <2>2, <2>3
<1>2. CASE PublishEnd \/ FailEnd
  <2>1. PICK pc \in {"save", "over"} : EndStream(pc)
    BY <1>2 DEF PublishEnd, FailEnd
  <2>2. run'.published = run.published /\ run'.ends = run.ends + 1 /\ run'.pc = pc
    BY <2>1, <1>t, RunType DEF EndStream
  <2> QED BY <2>1, <2>2, SentinelEvent DEF Ending, EndStream
<1> QED BY <1>1, <1>2

LEMMA FirstQueueStep == ASSUME EInv, Next, NEW q \in Streams PROVE FirstQueue(q)'
<1>t. TInv /\ FInv /\ Flow /\ FirstRun /\ FirstQueue(q) /\ queue[q] \in Seq(Events)
  BY RunType DEF EInv, FInv
<1>l. Len(queue[q]) \in Nat
  BY <1>t, LenProperties
<1>1. CASE PublishStep \/ PublishEnd \/ FailEnd
  <2>1. /\ run'.proc = run.proc /\ run'.count = run.count
        /\ run.pc \in {"graph", "fail_end"}
        /\ run.pc \in Ending => run'.pc \in Ending
    BY <1>1, <1>t, RunType DEF PublishStep, PublishEnd, FailEnd, EndStream, Ending
  <2>2. run.count <= 1 => run.count = 1
    BY <2>1, <1>t, RunType DEF FirstRun
  <2>3. CASE q # bus[run.proc]
    <3>1. queue'[q] = queue[q]
      BY <1>1, <2>3, <1>t, PublishMoves, PublishType
    <3> QED BY <2>1, <3>1, <1>t DEF FirstQueue
  <2>4. CASE q = bus[run.proc]
    <3>1. PICK e \in Events :
            /\ Publish(e)
            /\ \/ e = Sentinel /\ run'.pc \in Ending
               \/ e # Sentinel /\ run.pc = "graph"
      BY <1>1, <1>t, PublishMoves
    <3>2. queue'[q] = Append(queue[q], e) /\ Home[q] = run.proc
      BY <2>4, <3>1, <1>t, RunType, PublishType, NoQueueAssumption DEF Flow, Placed
    <3>3. /\ Len(queue'[q]) = Len(queue[q]) + 1
          /\ \A i \in 1..Len(queue[q]) : queue'[q][i] = queue[q][i]
          /\ queue'[q][Len(queue[q]) + 1] = e
      BY <3>2, <1>t, AppendProperties
    <3>4. run.count <= 1 /\ e # Sentinel => \A i \in 1..Len(queue[q]) : queue[q][i] # Sentinel
      BY <3>1, <1>t DEF FirstQueue, Ending
    <3> SUFFICES ASSUME run'.count <= 1, NEW i \in 1..Len(queue'[q]), queue'[q][i] = Sentinel
                 PROVE  /\ run'.pc \in Ending
                        /\ \A j \in 1..Len(queue'[q]) : i < j => queue'[q][j] = Sentinel
      BY <2>1, <2>2, <3>2 DEF FirstQueue
    <3>5. e = Sentinel /\ run'.pc \in Ending
      <4>1. e = Sentinel
        BY <3>3, <3>4, <2>1, <1>l
      <4> QED BY <4>1, <3>1
    <3>6. ASSUME NEW j \in 1..Len(queue'[q]), i < j PROVE queue'[q][j] = Sentinel
      <4>1. CASE j = Len(queue[q]) + 1
        BY <4>1, <3>3, <3>5
      <4>2. CASE j # Len(queue[q]) + 1
        <5>1. i \in 1..Len(queue[q]) /\ j \in 1..Len(queue[q])
          BY <4>2, <3>3, <3>6, <1>l
        <5>2. queue[q][i] = Sentinel
          BY <5>1, <3>3
        <5> QED BY <5>1, <5>2, <3>3, <3>6, <2>1, <1>t DEF FirstQueue
      <4> QED BY <4>1, <4>2
    <3> QED BY <3>5, <3>6
  <2> QED BY <2>3, <2>4
<1>2. CASE RunStep /\ ~(PublishStep \/ PublishEnd \/ FailEnd)
  <2>1. /\ queue' = queue /\ run'.proc = run.proc /\ run'.count = run.count
        /\ run.pc \in Ending => run'.pc \in Ending
    BY <1>2, <1>t, RunType DEF RunStep, LoadRecord, MarkProcessing, SaveResult, Raises, FailSave,
       FailRaises, Go, Ending
  <2> QED BY <2>1, <1>t DEF FirstQueue
<1>3. CASE \E p \in Procs : Deliver(p)
  <2>1. queue' = queue /\ run'.count = run.count + 1
    BY <1>3, <1>t, RunType DEF Deliver
  <2>2. run'.count <= 1 => queue[q] = <<>>
    BY <2>1, <1>t, RunType DEF FirstQueue
  <2> QED BY <2>1, <2>2 DEF FirstQueue
<1>4. CASE \E p \in Procs : Crash(p)
  <2>1. /\ queue'[q] \in {queue[q], <<>>} /\ run'.proc = run.proc /\ run'.count = run.count
        /\ run'.pc \in {run.pc, "idle"}
    BY <1>4, <1>t, RunType DEF Crash, Go
  <2>2. run.pc \in Ending => run'.pc \in Ending
    BY <2>1 DEF Ending
  <2>3. CASE queue'[q] = <<>>
    BY <2>3 DEF FirstQueue
  <2>4. CASE queue'[q] = queue[q]
    BY <2>1, <2>2, <2>4, <1>t DEF FirstQueue
  <2> QED BY <2>1, <2>3, <2>4
<1>5. CASE \E s \in Streams : Receive(s)
  <2>1. PICK s \in Streams : Receive(s)
    BY <1>5
  <2>2. run' = run
    BY <2>1 DEF Receive
  <2>3. CASE queue'[q] = queue[q]
    BY <2>2, <2>3, <1>t DEF FirstQueue
  <2>4. CASE queue'[q] # queue[q]
    <3>1. queue[q] # <<>> /\ queue'[q] = Tail(queue[q])
      BY <2>1, <2>4, <1>t, RunType DEF Receive
    <3>2. /\ Len(queue'[q]) = Len(queue[q]) - 1
          /\ \A i \in 1..Len(queue'[q]) : queue'[q][i] = queue[q][i + 1]
      BY <3>1, <1>t, HeadFirst DEF Flow, QueueOK
    <3> SUFFICES ASSUME run.count <= 1, NEW i \in 1..Len(queue'[q]), queue'[q][i] = Sentinel
                 PROVE  /\ run.pc \in Ending
                        /\ \A j \in 1..Len(queue'[q]) : i < j => queue'[q][j] = Sentinel
      BY <2>2, <3>1, <1>t DEF FirstQueue
    <3>3. i + 1 \in 1..Len(queue[q]) /\ queue[q][i + 1] = Sentinel
      BY <3>2, <1>l
    <3>4. ASSUME NEW j \in 1..Len(queue'[q]), i < j PROVE queue'[q][j] = Sentinel
      <4>1. j + 1 \in 1..Len(queue[q]) /\ i + 1 < j + 1
        BY <3>2, <3>4, <1>l
      <4> QED BY <4>1, <3>2, <3>3, <1>t DEF FirstQueue
    <3> QED BY <3>3, <3>4, <1>t DEF FirstQueue
  <2> QED BY <2>3, <2>4
<1>6. CASE \E s \in Streams : \/ Subscribe(s) \/ Disconnect(s) \/ FirstLoad(s) \/ TimesOut(s)
                              \/ Poll(s) \/ Replay(s)
  <2>1. UNCHANGED <<run, queue>>
    BY <1>6 DEF Subscribe, Disconnect, FirstLoad, TimesOut, Poll, Replay
  <2> QED BY <2>1, <1>t DEF FirstQueue
<1> QED BY <1>1, <1>2, <1>3, <1>4, <1>5, <1>6 DEF Next, StreamStep

LEMMA FollowsRun == ASSUME EInv, RunStep, NEW s \in Streams PROVE Follows(s)'
<1>t. TInv /\ FInv /\ Flow /\ FirstRun /\ Follows(s) /\ stream[s].after \in Nat
  BY RunType DEF EInv, FInv, StreamState
<1>1. UNCHANGED <<bus, stream>> /\ run'.proc = run.proc /\ run'.count = run.count
  BY <1>t, RunType
  DEF RunStep, LoadRecord, MarkProcessing, PublishStep, PublishEnd, SaveResult, Raises,
      FailSave, FailEnd, FailRaises, Go, EndStream
<1>2. (Alone(s)' <=> Alone(s)) /\ (Early(s)' <=> Early(s)) /\ (Watching(s)' <=> Watching(s))
      /\ Seen(s)' = Seen(s)
  BY <1>1 DEF Alone, Early, Watching, Seen
<1>3. /\ stream[s].after <= run'.ends
      /\ Alone(s) /\ Watching(s) => NoneOld(s)'
      /\ run.count <= 1 /\ Early(s) /\ Watching(s) /\ Home[s] = run.proc
           => 1..run'.published \subseteq Seen(s) \cup Items(s)'
  <2>2. CASE PublishStep \/ PublishEnd \/ FailEnd
    <3>1. PICK e \in Events :
            /\ Publish(e)
            /\ \/ /\ e = Sentinel /\ run'.published = run.published /\ run'.ends = run.ends + 1
               \/ /\ e # Sentinel /\ e = run.published + 1 /\ run'.published = run.published + 1
                  /\ run'.ends = run.ends
      BY <2>2, <1>t, PublishMoves
    <3>n. run.ends \in Nat /\ run.published \in Nat /\ queue[s] \in Seq(Events) /\ Len(queue[s]) \in Nat
      BY <1>t, RunType, LenProperties
    <3>2. stream[s].after <= run'.ends /\ run.ends <= run'.ends
      BY <3>1, <3>n, <1>t DEF Follows
    <3>3. \/ queue'[s] = queue[s]
          \/ /\ Len(queue'[s]) = Len(queue[s]) + 1
             /\ \A i \in 1..Len(queue[s]) : queue'[s][i] = queue[s][i]
             /\ queue'[s][Len(queue[s]) + 1] = e
      <4>1. CASE s # bus[run.proc]
        BY <4>1, <3>1, <1>t, PublishType
      <4>2. CASE s = bus[run.proc]
        <5>1. queue'[s] = Append(queue[s], e)
          BY <4>2, <3>1, <1>t, PublishType, NoQueueAssumption
        <5> QED BY <5>1, <3>n, AppendProperties
      <4> QED BY <4>1, <4>2
    <3>4. Alone(s) /\ Watching(s) => NoneOld(s)'
      <4> SUFFICES ASSUME Alone(s), Watching(s), NEW i \in 1..Len(queue'[s]), queue'[s][i] = Sentinel
                   PROVE  stream[s].after < run'.ends
        BY <1>1 DEF NoneOld
      <4>1. NoneOld(s)
        BY <1>t DEF Follows
      <4>2. CASE i \in 1..Len(queue[s])
        <5>1. stream[s].after < run.ends
          BY <4>1, <4>2, <3>3 DEF NoneOld
        <5> QED BY <5>1, <3>1, <3>n, <1>t
      <4>3. CASE i \notin 1..Len(queue[s])
        <5>1. e = Sentinel
          BY <4>3, <3>3, <3>n
        <5>2. stream[s].after <= run.ends
          BY <1>t DEF Follows
        <5> QED BY <5>1, <5>2, <3>1, <3>n, <1>t
      <4> QED BY <4>2, <4>3
    <3>5. run.count <= 1 /\ Early(s) /\ Watching(s) /\ Home[s] = run.proc
            => 1..run'.published \subseteq Seen(s) \cup Items(s)'
      <4> SUFFICES ASSUME run.count <= 1, Early(s), Watching(s), Home[s] = run.proc
                   PROVE  1..run'.published \subseteq Seen(s) \cup Items(s)'
        OBVIOUS
      <4>1. bus[run.proc] = s /\ s # NoQueue /\ 1..run.published \subseteq Seen(s) \cup Items(s)
        BY <1>t, NoQueueAssumption DEF Follows, Early
      <4>2. queue'[s] = Append(queue[s], e)
        BY <4>1, <3>1, <1>t, PublishType
      <4>3. /\ Len(queue'[s]) = Len(queue[s]) + 1
            /\ \A i \in 1..Len(queue[s]) : queue'[s][i] = queue[s][i]
            /\ queue'[s][Len(queue[s]) + 1] = e
        BY <4>2, <3>n, AppendProperties
      <4>4. Items(s) \subseteq Items(s)' /\ e \in Items(s)'
        BY <4>3, <3>n DEF Items
      <4>5. 1..run'.published \subseteq 1..run.published \cup {e}
        <5> SUFFICES ASSUME NEW n \in 1..run'.published PROVE n \in 1..run.published \cup {e}
          OBVIOUS
        <5> QED BY <3>1, <3>n
      <4> QED BY <4>1, <4>4, <4>5
    <3> QED BY <3>2, <3>4, <3>5
  <2>3. CASE ~(PublishStep \/ PublishEnd \/ FailEnd)
    <3>1. run'.published = run.published /\ run'.ends = run.ends /\ queue' = queue
      BY <2>3, <1>t, RunType
      DEF RunStep, LoadRecord, MarkProcessing, SaveResult, Raises, FailSave, FailRaises, Go
    <3> QED BY <3>1, <1>1, <1>t DEF Follows, Items, NoneOld
  <2> QED BY <2>2, <2>3
<1>4. run.count <= 1 /\ Terminal(record) => record' = record
  BY <1>t
  DEF RunStep, LoadRecord, MarkProcessing, PublishStep, PublishEnd, SaveResult, Raises,
      FailSave, FailEnd, FailRaises, FirstRun
<1>5. Doomed => Doomed'
  BY <1>t, RunType
  DEF RunStep, LoadRecord, MarkProcessing, PublishStep, PublishEnd, SaveResult, Raises,
      FailSave, FailEnd, FailRaises, Go, EndStream, Doomed, Processed, Statuses
<1>6. run.count <= 1 /\ stream[s].pc = "replay" => Terminal(record)' /\ stream[s].snap = record'.trace
  BY <1>t, <1>4 DEF Follows, Terminal
<1>7. run.count <= 1 /\ stream[s].pc = "done" /\ Early(s)
        => run.count = 1 /\ (1..Steps \subseteq Seen(s) \/ Doomed')
  BY <1>t, <1>5 DEF Follows
<1>8. Alone(s) /\ Watching(s) => bus[Home[s]] = s
  BY <1>t DEF Follows
<1> QED BY <1>1, <1>2, <1>3, <1>6, <1>7, <1>8 DEF Follows

LEMMA FollowsDeliver ==
  ASSUME EInv, NEW p \in Procs, Deliver(p), NEW s \in Streams
  PROVE  Follows(s)'
<1>t. TInv /\ FirstRun /\ Follows(s)
  BY DEF EInv, FInv
<1>1. /\ UNCHANGED <<record, bus, queue, stream>> /\ run'.published = run.last
      /\ run'.ends = run.ends /\ run'.count = run.count + 1
  BY <1>t, RunType DEF Deliver
<1>2. run'.count <= 1 => run.count = 0 /\ ~Terminal(record) /\ run'.published = 0
  BY <1>1, <1>t, RunType DEF FirstRun
<1>3. (Alone(s)' <=> Alone(s)) /\ (Early(s)' <=> Early(s)) /\ (Watching(s)' <=> Watching(s))
      /\ (NoneOld(s)' <=> NoneOld(s)) /\ 1..0 = {}
  BY <1>1 DEF Alone, Early, Watching, NoneOld
<1>4. run'.count <= 1 => stream[s].pc # "replay" /\ ~(stream[s].pc = "done" /\ Early(s))
  BY <1>2, <1>t DEF Follows
<1>5. run'.count <= 1 => 1..run'.published = {}
  BY <1>2
<1> QED BY <1>t, <1>1, <1>3, <1>4, <1>5 DEF Follows

LEMMA FollowsCrash ==
  ASSUME EInv, NEW p \in Procs, Crash(p), NEW s \in Streams
  PROVE  Follows(s)'
<1>t. TInv /\ FirstRun /\ Follows(s)
  BY DEF EInv, FInv
<1>1. /\ record' = record /\ bus' = [bus EXCEPT ![p] = NoQueue]
      /\ run'.count = run.count /\ run'.proc = run.proc /\ run'.ends = run.ends
      /\ run'.published = run.published
      /\ Home[s] # p => queue'[s] = queue[s]
      /\ (run' = run) \/ (run.proc = p /\ run.pc # "over" /\ run'.pc = "idle")
  BY <1>t, RunType DEF Crash, Go
<1>2. \A r \in Streams : \/ stream'[r] = stream[r]
                         \/ Home[r] = p /\ stream'[r] = Blank("closed")
  BY <1>t, RunType DEF Crash
<1>3. Watching(s)' \/ stream'[s].pc \in {"replay", "done"} => stream'[s] = stream[s]
  BY <1>2 DEF Watching, Blank
<1>4. Watching(s)' => Home[s] # p
  BY <1>t, RunType DEF Crash, StreamState, Watching, Open, Suspended, Blank
<1>5. Alone(s)' => Alone(s)
  <2>1. \A r \in Streams : stream'[r].pc = "new" => stream[r].pc = "new"
    BY <1>2 DEF Blank
  <2> QED BY <2>1 DEF Alone
<1>6. Doomed => Doomed'
  BY <1>1 DEF Doomed, Processed
<1>a. stream'[s].after <= run'.ends
  BY <1>1, <1>2, <1>t, RunType DEF Follows, Blank
<1>7. /\ Alone(s)' /\ Watching(s)' => bus'[Home[s]] = s /\ NoneOld(s)'
      /\ run'.count <= 1 /\ Early(s)' /\ Watching(s)' /\ Home[s] = run'.proc
           => 1..run'.published \subseteq Seen(s)' \cup Items(s)'
  <2> SUFFICES ASSUME Alone(s)', Watching(s)'
               PROVE  /\ bus'[Home[s]] = s /\ NoneOld(s)'
                      /\ run'.count <= 1 /\ Early(s)' /\ Home[s] = run'.proc
                           => 1..run'.published \subseteq Seen(s)' \cup Items(s)'
    BY DEF Early
  <2>1. stream'[s] = stream[s] /\ Home[s] # p /\ Watching(s) /\ Alone(s) /\ queue'[s] = queue[s]
    BY <1>1, <1>3, <1>4, <1>5 DEF Watching
  <2>2. bus'[Home[s]] = s
    BY <2>1, <1>1, <1>t, RunType, HomeAssumption DEF Follows
  <2>3. Early(s)' => Early(s)
    BY <2>1 DEF Early
  <2>4. Seen(s)' = Seen(s) /\ Items(s)' = Items(s) /\ NoneOld(s)'
    BY <2>1, <1>1, <1>t DEF Seen, Items, NoneOld, Follows
  <2> QED BY <2>1, <2>2, <2>3, <2>4, <1>1, <1>t DEF Follows
<1>8. run'.count <= 1 /\ stream'[s].pc = "replay"
        => Terminal(record)' /\ stream'[s].snap = record'.trace
  BY <1>1, <1>3, <1>t DEF Follows, Terminal
<1>9. run'.count <= 1 /\ stream'[s].pc = "done" /\ Early(s)'
        => run'.count = 1 /\ (1..Steps \subseteq Seen(s)' \/ Doomed')
  BY <1>1, <1>3, <1>5, <1>6, <1>t DEF Follows, Early, Seen
<1> QED BY <1>a, <1>7, <1>8, <1>9 DEF Follows

\* What another stream does is no concern of a stream that is alone.
LEMMA FollowsOther ==
  ASSUME EInv, NEW s \in Streams, NEW r \in Streams \ {s},
         Subscribe(r) \/ StreamStep(r) \/ Disconnect(r)
  PROVE  Follows(s)'
<1>t. TInv /\ Flow /\ Follows(s)
  BY DEF EInv, FInv
<1>1. UNCHANGED <<record, run>> /\ \A t \in Streams \ {r} : stream'[t] = stream[t]
  <2>1. UNCHANGED <<record, run>>
    BY DEF Subscribe, StreamStep, FirstLoad, Receive, TimesOut, Poll, Replay, Disconnect
  <2> QED BY <2>1, <1>t, StreamMoves, RunType
<1>2. stream'[r].pc # "new"
  <2>1. stream \in [Streams -> StreamState]
    BY <1>t, RunType
  <2>2. CASE Subscribe(r)
    BY <2>1, <2>2 DEF Subscribe, StreamState
  <2>5. CASE FirstLoad(r)
    BY <2>1, <2>5 DEF FirstLoad, End, StreamState
  <2>6. CASE TimesOut(r)
    BY <2>1, <2>6 DEF TimesOut, StreamState
  <2>8. CASE Replay(r)
    BY <2>1, <2>8 DEF Replay, End, StreamState
  <2>7. CASE Poll(r)
    <3>1. stream'[r].pc \in {"replay", "live"}
      <4>1. CASE Terminal(record)
        BY <2>1, <2>7, <4>1 DEF Poll, StreamState
      <4>2. CASE ~Terminal(record)
        BY <2>1, <2>7, <4>2 DEF Poll, StreamState
      <4> QED BY <4>1, <4>2
    <3> QED BY <3>1
  <2>3. CASE Receive(r)
    BY <2>1, <2>3 DEF Receive, End, StreamState
  <2>4. CASE Disconnect(r)
    BY <2>1, <2>4 DEF Disconnect, Blank
  <2> QED BY <2>2, <2>3, <2>4, <2>5, <2>6, <2>7, <2>8 DEF StreamStep
<1>3. Alone(s)' => Alone(s) /\ Home[r] # Home[s]
  BY <1>1, <1>2 DEF Alone
<1>4. Home[r] # Home[s] => bus'[Home[s]] = bus[Home[s]] /\ queue'[s] = queue[s]
  <2> SUFFICES ASSUME Home[r] # Home[s] PROVE bus'[Home[s]] = bus[Home[s]] /\ queue'[s] = queue[s]
    OBVIOUS
  <2>1. bus'[Home[s]] = bus[Home[s]]
    <3>1. bus \in [Procs -> Streams \cup {NoQueue}] /\ Home[r] \in Procs /\ Home[s] \in Procs
      BY <1>t, RunType, HomeAssumption
    <3>2. (bus' = bus) \/ (\E q : bus' = [bus EXCEPT ![Home[r]] = q])
      BY DEF Subscribe, StreamStep, FirstLoad, Receive, TimesOut, Poll, Replay, Disconnect, End,
         Unsubscribe
    <3> QED BY <3>1, <3>2
  <2>2. CASE Receive(r)
    <3>1. stream[r].queue # s
      BY <2>2, <1>t, NoQueueAssumption DEF Flow, Placed
    <3> QED BY <2>1, <2>2, <3>1, <1>t, RunType DEF Receive
  <2>3. CASE ~Receive(r)
    BY <2>1, <2>3 DEF Subscribe, StreamStep, FirstLoad, TimesOut, Poll, Replay, Disconnect
  <2> QED BY <2>2, <2>3
<1>5. stream'[s] = stream[s] /\ (Watching(s)' <=> Watching(s)) /\ Seen(s)' = Seen(s)
      /\ (Early(s)' => Early(s))
  BY <1>1, <1>3 DEF Watching, Seen, Early
<1>6. Doomed' <=> Doomed
  BY <1>1 DEF Doomed, Processed
<1>7. Alone(s)' /\ Watching(s)' => bus'[Home[s]] = s /\ NoneOld(s)'
  BY <1>1, <1>3, <1>4, <1>5, <1>t DEF Follows, NoneOld
<1>8. run'.count <= 1 /\ Early(s)' /\ Watching(s)' /\ Home[s] = run'.proc
        => 1..run'.published \subseteq Seen(s)' \cup Items(s)'
  <2> SUFFICES ASSUME run'.count <= 1, Early(s)', Watching(s)', Home[s] = run'.proc
               PROVE  1..run'.published \subseteq Seen(s)' \cup Items(s)'
    OBVIOUS
  <2>1. Items(s)' = Items(s)
    BY <1>3, <1>4 DEF Early, Items
  <2> QED BY <2>1, <1>1, <1>5, <1>t DEF Follows
<1>9. run'.count <= 1 /\ stream'[s].pc = "replay"
        => Terminal(record)' /\ stream'[s].snap = record'.trace
  BY <1>1, <1>5, <1>t DEF Follows, Terminal
<1>10. run'.count <= 1 /\ stream'[s].pc = "done" /\ Early(s)'
         => run'.count = 1 /\ (1..Steps \subseteq Seen(s)' \/ Doomed')
  BY <1>1, <1>5, <1>6, <1>t DEF Follows
<1>11. stream'[s].after <= run'.ends
  BY <1>1, <1>5, <1>t DEF Follows
<1> QED BY <1>7, <1>8, <1>9, <1>10, <1>11 DEF Follows

\* A stream that is alone reads the queue it created itself.
LEMMA OwnQueue ==
  ASSUME EInv, NEW s \in Streams, Alone(s), Watching(s)
  PROVE  stream[s].queue = s /\ bus[Home[s]] = s
<1>1. TInv /\ Flow /\ Follows(s)
  BY DEF EInv, FInv
<1>2. stream[s].queue \in Streams
  BY <1>1, RunType DEF TInv, Subscribed, Open, Suspended, Watching, StreamState
<1>3. stream[s].queue = s
  BY <1>1, <1>2, NoQueueAssumption DEF Flow, Placed, Alone
<1> QED BY <1>1, <1>3 DEF Follows

LEMMA FollowsSubscribe == ASSUME EInv, NEW s \in Streams, Subscribe(s) PROVE Follows(s)'
<1>t. TInv /\ Flow
  BY DEF EInv, FInv
<1>1. /\ stream'[s].pc = "load" /\ stream[s].pc = "new"
      /\ stream'[s].early = (run.published = 0) /\ stream'[s].after = run.ends
      /\ \A r \in Streams \ {s} : stream'[r] = stream[r]
      /\ run' = run /\ queue' = queue /\ Home[s] \in Procs
      /\ bus' = [bus EXCEPT ![Home[s]] = IF bus[Home[s]] = NoQueue THEN s ELSE bus[Home[s]]]
  BY <1>t, RunType, HomeAssumption DEF Subscribe, StreamState
<1>2. Alone(s)' => bus'[Home[s]] = s
  <2> SUFFICES ASSUME Alone(s)' PROVE bus[Home[s]] = NoQueue
    BY <1>1, <1>t, RunType
  <2>1. Alone(s)
    BY <1>1 DEF Alone
  <2>2. bus[Home[s]] # NoQueue => /\ bus[Home[s]] \in Streams
                                  /\ Home[bus[Home[s]]] = Home[s]
                                  /\ stream[bus[Home[s]]].pc # "new"
    BY <1>1, <1>t, RunType DEF Flow, Placed
  <2> QED BY <2>1, <2>2, <1>1 DEF Alone
<1>3. Early(s)' => run'.published = 0
  BY <1>1 DEF Early
<1>4. 1..0 = {} /\ run.ends <= run.ends
  BY <1>t, RunType
<1>5. queue'[s] = <<>>
  BY <1>1, <1>t DEF Flow, Placed
<1>6. NoneOld(s)'
  BY <1>5 DEF NoneOld
<1> QED BY <1>1, <1>2, <1>3, <1>4, <1>6 DEF Follows

\* An event leaves the queue for the client; behind the first run's sentinel
\* there is none.
LEMMA FollowsReceive == ASSUME EInv, NEW s \in Streams, Receive(s) PROVE Follows(s)'
<1>t. TInv /\ Flow /\ FirstRun /\ FirstQueue(s) /\ Follows(s)
  BY DEF EInv, FInv
<1>1. /\ Watching(s) /\ run' = run /\ record' = record
      /\ stream[s] \in StreamState /\ Len(stream[s].steps) \in Nat
      /\ \A r \in Streams \ {s} : stream'[r] = stream[r]
  BY <1>t, RunType, StreamMoves, LenProperties DEF Receive, Watching, StreamState, StreamStep
<1>a. stream'[s].after = stream[s].after /\ stream'[s].early = stream[s].early
      /\ stream'[s].pc # "replay"
  <2>1. stream \in [Streams -> StreamState] /\ stream[s].pc = "live"
    BY <1>t, RunType DEF Receive
  <2>2. CASE Head(queue[stream[s].queue]) = Sentinel
    BY <2>1, <2>2 DEF Receive, End, StreamState
  <2>3. CASE Head(queue[stream[s].queue]) # Sentinel
    BY <2>1, <2>3 DEF Receive, StreamState
  <2> QED BY <2>2, <2>3
<1>b. stream'[s].after <= run'.ends
  BY <1>1, <1>a, <1>t DEF Follows
<1>2. SUFFICES ASSUME Alone(s)' PROVE Follows(s)'
  BY <1>a, <1>b DEF Follows, Early
<1>3. Alone(s) /\ stream[s].queue = s /\ bus[Home[s]] = s /\ QueueOK(s) /\ NoneOld(s)
  BY <1>1, <1>2, <1>t, OwnQueue DEF Alone, Flow, Follows
<1>4. /\ queue[s] \in Seq(Events) /\ queue[s] # <<>>
      /\ queue'[s] = Tail(queue[s]) /\ Ordered(queue[s])
  BY <1>3, <1>t, RunType DEF Receive, QueueOK
<1>h. PICK h \in Events : h = Head(queue[s])
  BY <1>4, HeadTailProperties
<1>5. /\ h = queue[s][1] /\ 1 \in 1..Len(queue[s]) /\ Len(queue[s]) \in Nat
      /\ Len(queue'[s]) = Len(queue[s]) - 1
      /\ \A i \in 1..Len(queue'[s]) : queue'[s][i] = queue[s][i + 1] /\ i + 1 \in 1..Len(queue[s])
  BY <1>4, <1>h, HeadFirst, LenProperties
<1>6. Items(s) \subseteq {h} \cup Items(s)'
  <2> SUFFICES ASSUME NEW i \in 1..Len(queue[s]) PROVE queue[s][i] \in {h} \cup Items(s)'
    BY DEF Items
  <2>1. CASE i = 1
    BY <2>1, <1>5
  <2>2. CASE i # 1
    <3>1. i - 1 \in 1..Len(queue'[s]) /\ queue'[s][i - 1] = queue[s][(i - 1) + 1]
      BY <2>2, <1>5
    <3> QED BY <3>1 DEF Items
  <2> QED BY <2>1, <2>2
<1>7. run.count <= 1 => run.proc = Home[s] /\ run.count = 1 /\ (h = Sentinel => run.pc \in Ending)
  BY <1>4, <1>5, <1>t DEF FirstQueue
<1>n. NoneOld(s)'
  BY <1>1, <1>3, <1>5, <1>a DEF NoneOld
<1>8. CASE h = Sentinel
  <2>1. stream'[s].pc = "done" /\ stream'[s].steps = stream[s].steps
    BY <1>8, <1>h, <1>1, <1>3, <1>t, RunType DEF Receive, End, StreamState
  <2>2. run.count <= 1 => Items(s) \subseteq {Sentinel}
    <3> SUFFICES ASSUME run.count <= 1, NEW i \in 1..Len(queue[s]) PROVE queue[s][i] = Sentinel
      BY DEF Items
    <3>1. CASE i = 1
      BY <3>1, <1>5, <1>8
    <3>2. CASE i # 1
      <4>1. 1 < i
        BY <3>2, <1>5
      <4> QED BY <4>1, <1>5, <1>8, <1>t DEF FirstQueue
    <3> QED BY <3>1, <3>2
  <2>3. run.count <= 1 /\ Early(s)' => 1..run.published \subseteq Seen(s)
    <3>1. Sentinel \notin 1..run.published
      BY <1>t, RunType DEF Sentinel
    <3>2. Early(s)' => Early(s)
      BY <1>3, <1>a DEF Early
    <3> QED BY <2>2, <3>1, <3>2, <1>1, <1>3, <1>7, <1>t DEF Follows
  <2>4. run.count <= 1 /\ run.published # Steps => Doomed'
    BY <1>1, <1>7, <1>8, <1>t DEF Doomed, Processed, FirstRun, Flow, Published, Ending
  <2>5. Seen(s)' = Seen(s)
    BY <2>1 DEF Seen
  <2> QED BY <2>1, <2>3, <2>4, <2>5, <1>1, <1>7, <1>b DEF Follows, Watching
<1>9. CASE h # Sentinel
  <2>1. /\ stream'[s].pc = "live"
        /\ stream'[s].steps = Append(stream[s].steps, h) /\ bus' = bus /\ h \in Step
    <3>1. h \in Step
      BY <1>9 DEF Step, Events
    <3>2. /\ stream' = [stream EXCEPT ![s].steps = Append(@, Head(queue[s]))] /\ bus' = bus
          /\ stream[s].pc = "live" /\ stream \in [Streams -> StreamState]
      BY <1>9, <1>h, <1>3, <1>t, RunType DEF Receive
    <3> QED BY <3>1, <3>2, <1>h DEF StreamState
  <2>2. Seen(s) \cup {h} \subseteq Seen(s)'
    <3>1. /\ stream'[s].steps \in Seq(Step)
          /\ Len(stream'[s].steps) = Len(stream[s].steps) + 1
          /\ \A i \in 1..Len(stream[s].steps) : stream'[s].steps[i] = stream[s].steps[i]
          /\ stream'[s].steps[Len(stream[s].steps) + 1] = h
      BY <2>1, <1>1, AppendProperties DEF StreamState
    <3>2. /\ DOMAIN stream[s].steps = 1..Len(stream[s].steps)
          /\ DOMAIN stream'[s].steps = 1..(Len(stream[s].steps) + 1)
      BY <3>1, <1>1, LenProperties DEF StreamState
    <3>3. \A i \in DOMAIN stream[s].steps : stream[s].steps[i] \in Seen(s)'
      BY <3>1, <3>2, <1>1 DEF Seen
    <3>4. h \in Seen(s)'
      <4>1. Len(stream[s].steps) + 1 \in DOMAIN stream'[s].steps
        BY <3>2, <1>1
      <4> QED BY <3>1, <4>1 DEF Seen
    <3> QED BY <3>3, <3>4 DEF Seen
  <2>3. Early(s)' => Early(s)
    BY <1>3, <1>a DEF Early
  <2>4. run.count <= 1 /\ Early(s) => 1..run.published \subseteq Seen(s) \cup Items(s)
    BY <1>1, <1>7, <1>t DEF Follows
  <2>5. run'.count <= 1 /\ Early(s)' => 1..run'.published \subseteq Seen(s)' \cup Items(s)'
    BY <2>2, <2>3, <2>4, <1>1, <1>6
  <2> QED BY <2>1, <2>5, <1>3, <1>b, <1>n DEF Follows
<1> QED BY <1>8, <1>9

\* The record of a first run that is over has the whole trace, or an error.
LEMMA FollowsReplay == ASSUME EInv, NEW s \in Streams, Replay(s) PROVE Follows(s)'
<1>t. TInv /\ FirstRun /\ Follows(s)
  BY DEF EInv, FInv
<1>1. /\ stream[s].pc = "replay" /\ stream'[s].pc = "done" /\ run' = run /\ record' = record
      /\ stream[s].steps \in Seq(Step) /\ stream[s].snap \in Lasts
      /\ stream'[s].steps = stream[s].steps \o Trace(stream[s].snap)
      /\ stream'[s].after = stream[s].after
  BY <1>t, RunType DEF Replay, End, StreamState
<1>2. run.count <= 1 => run.count = 1 /\ Terminal(record) /\ stream[s].snap = record.trace
  BY <1>1, <1>t, RunType DEF Follows, FirstRun
<1>3. run.count <= 1 /\ ~Processed(record) => Doomed'
  BY <1>1, <1>2, <1>t DEF Doomed, Processed, FirstRun
<1>4. run.count <= 1 /\ Processed(record) => 1..Steps \subseteq Seen(s)'
  <2> SUFFICES ASSUME stream[s].snap = Steps PROVE 1..Steps \subseteq Seen(s)'
    BY <1>2, <1>t DEF FirstRun
  <2> DEFINE sent == stream[s].steps
             trace == Trace(Steps)
  <2>1. trace \in Seq(Step) /\ Len(trace) = Steps /\ \A i \in 1..Steps : trace[i] = i
    <3>1. /\ Trace(Steps) \in Seq(Step) /\ Len(Trace(Steps)) = Steps
          /\ \A i \in 1..Steps : Trace(Steps)[i] = Steps - Steps + i
      BY TraceSeq, LastsFacts, StepsAssumption
    <3>2. \A i \in 1..Steps : Steps - Steps + i = i
      BY StepsAssumption
    <3> QED BY <3>1, <3>2
  <2>2. /\ stream'[s].steps = sent \o trace /\ sent \in Seq(Step) /\ Len(sent) \in Nat
    BY <1>1, LenProperties
  <2> HIDE DEF sent, trace
  <2>3. /\ Len(sent \o trace) = Len(sent) + Steps /\ sent \o trace \in Seq(Step)
        /\ \A i \in 1..(Len(sent) + Steps) :
             (sent \o trace)[i] = IF i <= Len(sent) THEN sent[i] ELSE trace[i - Len(sent)]
    BY <2>1, <2>2, ConcatProperties, ZenonT(30)
  <2>4. DOMAIN (sent \o trace) = 1..(Len(sent) + Steps)
    BY <2>3, LenProperties
  <2>5. \A n \in 1..Steps : Len(sent) + n \in DOMAIN (sent \o trace)
                            /\ (sent \o trace)[Len(sent) + n] = n
    BY <2>1, <2>2, <2>3, <2>4, StepsAssumption
  <2> QED BY <2>2, <2>5 DEF Seen
<1>5. stream'[s].after <= run'.ends
  BY <1>1, <1>t DEF Follows
<1> QED BY <1>1, <1>2, <1>3, <1>4, <1>5 DEF Follows, Watching

LEMMA FollowsOwn ==
  ASSUME EInv, NEW s \in Streams, FirstLoad(s) \/ TimesOut(s) \/ Poll(s) \/ Disconnect(s)
  PROVE  Follows(s)'
<1>t. TInv /\ Follows(s)
  BY DEF EInv, FInv
<1>1. /\ run' = run /\ record' = record /\ queue' = queue
      /\ \A r \in Streams \ {s} : stream'[r] = stream[r]
  <2>1. run' = run /\ record' = record /\ queue' = queue
    BY DEF FirstLoad, TimesOut, Poll, Disconnect
  <2> QED BY <2>1, <1>t, RunType, StreamMoves DEF StreamStep
<1>2. /\ stream'[s].after \in {stream[s].after, 0}
      /\ \/ stream'[s].pc \in {"not_found", "closed"}
         \/ stream'[s].pc = "replay" /\ Terminal(record) /\ stream'[s].snap = record.trace
         \/ /\ Watching(s) /\ Watching(s)' /\ stream'[s].pc # "replay" /\ bus' = bus
            /\ stream'[s].steps = stream[s].steps /\ stream'[s].early = stream[s].early
            /\ stream'[s].after = stream[s].after
  <2>1. CASE FirstLoad(s) \/ TimesOut(s) \/ Poll(s)
    BY <2>1, <1>t, RunType DEF FirstLoad, TimesOut, Poll, End, StreamState, Watching
  <2>2. CASE Disconnect(s)
    BY <2>2, <1>t, RunType DEF Disconnect, Blank
  <2> QED BY <2>1, <2>2
<1>a. stream'[s].after <= run'.ends
  BY <1>1, <1>2, <1>t, RunType DEF Follows
<1>3. Alone(s)' => Alone(s)
  BY <1>1 DEF Alone
<1>4. CASE stream'[s].pc \in {"not_found", "closed"}
  BY <1>4, <1>a DEF Follows, Watching
<1>5. CASE stream'[s].pc = "replay" /\ Terminal(record) /\ stream'[s].snap = record.trace
  BY <1>1, <1>5, <1>a DEF Follows, Watching, Terminal
<1>6. CASE /\ Watching(s) /\ Watching(s)' /\ stream'[s].pc # "replay" /\ bus' = bus
           /\ stream'[s].steps = stream[s].steps /\ stream'[s].early = stream[s].early
           /\ stream'[s].after = stream[s].after
  <2>1. (Early(s)' => Early(s)) /\ Seen(s)' = Seen(s) /\ Items(s)' = Items(s)
        /\ (NoneOld(s)' <=> NoneOld(s))
    BY <1>1, <1>3, <1>6 DEF Early, Seen, Items, NoneOld
  <2>2. stream'[s].pc # "done"
    BY <1>6 DEF Watching
  <2> QED BY <2>1, <2>2, <1>1, <1>3, <1>6, <1>a, <1>t DEF Follows
<1> QED BY <1>2, <1>4, <1>5, <1>6

LEMMA EarlyStep == EInv /\ [Next]_vars => EInv'
<1> SUFFICES ASSUME EInv, [Next]_vars
             PROVE  FirstRun' /\ \A s \in Streams : FirstQueue(s)' /\ Follows(s)'
  BY FlowStep DEF EInv
<1>1. CASE UNCHANGED vars
  <2>1. UNCHANGED <<record, run, bus, queue, stream>>
    BY <1>1 DEF vars
  <2>2. FirstRun'
    BY <2>1 DEF EInv, FirstRun, Processed, Terminal
  <2>3. \A s \in Streams : FirstQueue(s)'
    BY <2>1 DEF EInv, FirstQueue
  <2>4. \A s \in Streams : Follows(s)'
    BY <2>1 DEF EInv, Follows, Alone, Watching, Early, Items, Seen, NoneOld, Doomed, Processed, Terminal
  <2> QED BY <2>2, <2>3, <2>4
<1>2. CASE Next
  <2>1. ASSUME NEW s \in Streams PROVE Follows(s)'
    <3>1. CASE RunStep
      BY <3>1, FollowsRun
    <3>2. CASE \E p \in Procs : Deliver(p) \/ Crash(p)
      BY <3>2, FollowsDeliver, FollowsCrash
    <3>3. CASE Subscribe(s) \/ StreamStep(s) \/ Disconnect(s)
      BY <3>3, FollowsSubscribe, FollowsReceive, FollowsReplay, FollowsOwn DEF StreamStep
    <3>4. CASE \E r \in Streams \ {s} : Subscribe(r) \/ StreamStep(r) \/ Disconnect(r)
      BY <3>4, FollowsOther
    <3> QED BY <1>2, <3>1, <3>2, <3>3, <3>4 DEF Next
  <2> QED BY <1>2, <2>1, FirstRunStep, FirstQueueStep
<1> QED BY <1>1, <1>2

LEMMA EarlyCorrect == Spec => []EInv
  BY EarlyInit, EarlyStep, PTL DEF Spec

\* No stream ends while its claim is unfinished and no run has come to its end
\* since it subscribed; a stream that shares its queue can also be ended by the
\* sentinel of a run before that.  (The sentinel precedes the last save, so the
\* record itself may still be one step from final.)
THEOREM StreamsEndLate == Spec => EndsNotEarly
<1> DEFINE Late ==
      \A s \in Streams :
        stream[s].pc \in {"load", "live", "poll"} /\ stream'[s].pc \in {"replay", "done"} =>
          \/ Terminal(record)
          \/ run.ends > stream[s].after
          \/ ~Alone(s) /\ run.ends > 0
<1>1. EInv /\ [Next]_vars => [Late]_vars
  <2> SUFFICES ASSUME EInv, Next, NEW s \in Streams,
                      Watching(s), stream'[s].pc \in {"replay", "done"}
               PROVE  \/ Terminal(record)
                      \/ run.ends > stream[s].after
                      \/ ~Alone(s) /\ run.ends > 0
    BY DEF Watching
  <2>0. TInv /\ Flow /\ Follows(s) /\ stream[s].after \in Nat /\ run.ends \in Nat
    BY RunType DEF EInv, FInv, StreamState
  <2>1. stream[s] \in StreamState /\ stream \in [Streams -> StreamState]
    BY <2>0, RunType
  <2>2. CASE FirstLoad(s) \/ Poll(s)
    BY <2>1, <2>2 DEF FirstLoad, Poll, End, StreamState
  <2>3. CASE Receive(s)
    <3>1. PICK q \in Streams : q = stream[s].queue
      BY <2>0, <2>1, <2>3 DEF Receive, Open, Suspended, TInv, Subscribed, StreamState
    <3>2. QueueOK(q) /\ queue[q] # <<>> /\ queue[q] \in Seq(Events)
      BY <2>0, <2>3, <3>1, RunType DEF Flow, Receive
    <3>3. Head(queue[q]) = Sentinel
      BY <2>1, <2>3, <3>1 DEF Receive, StreamState, Watching
    <3>4. Sentinel = queue[q][1] /\ 1 \in 1..Len(queue[q])
      BY <3>2, <3>3, HeadFirst DEF QueueOK
    <3>5. run.ends > 0
      BY <3>2, <3>4 DEF QueueOK
    <3>6. Alone(s) => stream[s].after < run.ends
      <4>1. Alone(s) => q = s /\ NoneOld(s)
        BY <2>0, <3>1, OwnQueue DEF Follows
      <4> QED BY <3>4, <4>1 DEF NoneOld
    <3> QED BY <2>0, <3>5, <3>6
  <2>4. CASE stream'[s] = stream[s]
    BY <2>4 DEF Watching
  <2>5. CASE Subscribe(s) \/ TimesOut(s) \/ Replay(s) \/ Disconnect(s)
    BY <2>1, <2>5 DEF Subscribe, TimesOut, Replay, Disconnect, Blank, End, StreamState, Watching
  <2>6. CASE \E p \in Procs : Crash(p)
    BY <2>1, <2>6 DEF Crash, Blank, Watching
  <2>7. CASE RunStep \/ \E p \in Procs : Deliver(p)
    BY <2>0, <2>4, <2>7, RunMoves DEF Deliver
  <2>8. CASE \E t \in Streams \ {s} : Subscribe(t) \/ StreamStep(t) \/ Disconnect(t)
    <3>1. stream'[s] = stream[s]
      BY <2>0, <2>1, <2>8, StreamMoves
    <3> QED BY <3>1, <2>4
  <2> QED BY <2>2, <2>3, <2>5, <2>6, <2>7, <2>8 DEF Next, StreamStep
<1> QED BY <1>1, EarlyCorrect, PTL DEF Spec, EndsNotEarly

\* A client that was there before the first step of a claim that was run once,
\* with no other stream of the claim on its process, has seen all its steps when
\* its stream is done: live, or from the stored trace when a look at the record
\* finds the claim finished first.
THEOREM EarlyClients == Spec => []EarlyClientSeesAll
<1>1. EInv => EarlyClientSeesAll
  <2> SUFFICES ASSUME EInv, NEW s \in Streams,
                      stream[s].pc = "done", Early(s), Processed(record), run.count = 1
               PROVE  1..Steps \subseteq Seen(s)
    BY DEF EarlyClientSeesAll, Early
  <2> QED BY DEF EInv, Follows, Doomed
<1> QED BY <1>1, EarlyCorrect, PTL
=============================================================================
