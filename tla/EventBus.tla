------------------------------ MODULE EventBus ------------------------------
(***************************************************************************)
(* core/event_bus.py: one bounded queue, one consumer.                     *)
(*                                                                         *)
(* An event is known by its place in sent (its publish sequence).  publish *)
(* waits for room, publish_nowait never waits.  The consumer awaits the    *)
(* handlers of a serial event itself; the handlers of other events are     *)
(* tasks of their own, those of a tick behind the lock of its symbol.  A   *)
(* serial handler that publishes is the consumer waiting for the room only *)
(* the consumer makes; so is one that needs RiskManager._lock while its    *)
(* holder publishes.                                                       *)
(***************************************************************************)
EXTENDS Integers, FiniteSets, Sequences, SequencesExt

CONSTANTS
  Keys,       \* the symbols of ticks
  Capacity,   \* maxsize of the queue
  MaxEvents,  \* bound of the model: events published in an execution
  Mixes       \* the sets of kinds the outside may publish in one execution

Awaited == {"TICK", "SIGNAL", "KILL_SWITCH", "USER_ORDER_UPDATE"}
Unawaited == {"ALERT_CRITICAL", "PNL_UPDATE"}

ASSUME BusAssumption ==
  /\ Capacity \in Nat \ {0} /\ MaxEvents \in Nat
  /\ Mixes \subseteq SUBSET (Awaited \cup Unawaited)

Critical == {"STOP_LOSS", "KILL_SWITCH", "ALERT_CRITICAL"}
Serial == {"SIGNAL", "STOP_LOSS", "KILL_SWITCH", "ORDER_FILLED", "POSITION_CLOSED"}
Kinds == Critical \cup Serial \cup Awaited \cup Unawaited \cup {"CIRCUIT_BREAKER_TRIPPED"}

VARIABLES
  mix,       \* the kinds the outside publishes in this execution
  sent,      \* the events published [kind, key]
  queue,     \* the queue
  putters,   \* publishers waiting for room, by their event
  woken,     \* publishers woken by a get that have not run since
  consumer,  \* run(): [pc, event], "get", "handle" or "end"
  lanes,     \* per key, the ticks that hold or wait for its lock
  tasks,     \* events whose handlers are, or will be, run by a task
  report,    \* per event, the event its handler has published (0: none)
  running,   \* _running
  started,   \* per event, how often its handlers were started
  finished,  \* the events whose handlers returned
  dropped    \* the events dropped

vars == <<mix, sent, queue, putters, woken, consumer, lanes, tasks, report, running,
          started, finished, dropped>>

Events == 1..MaxEvents
Published == 1..Len(sent)
Kind(e) == sent[e].kind
Idle == [pc |-> "get", event |-> 0]
Ended == [pc |-> "end", event |-> 0]

(***************************************************************************)
(* Publishing.                                                             *)
(***************************************************************************)
\* Mutant: the queue takes one event too many.
RoomForOneMore == Len(queue) <= Capacity

Room == Len(queue) < Capacity

Stamp(kind, key) ==
  /\ Len(sent) < MaxEvents
  /\ sent' = Append(sent, [kind |-> kind, key |-> key])

\* publish: the event goes into the queue, or its publisher waits behind the others.
Publish(kind, key) ==
  /\ Stamp(kind, key)
  /\ IF Room THEN queue' = Append(queue, Len(sent) + 1) /\ UNCHANGED putters
             ELSE putters' = Append(putters, Len(sent) + 1) /\ UNCHANGED queue
  /\ UNCHANGED <<woken, tasks, dropped>>

\* Mutant: what finds no room is dropped, whatever it is.
PublishOrDrop(kind, key) ==
  /\ Stamp(kind, key)
  /\ IF Room THEN queue' = Append(queue, Len(sent) + 1) /\ UNCHANGED dropped
             ELSE dropped' = dropped \cup {Len(sent) + 1} /\ UNCHANGED queue
  /\ UNCHANGED <<putters, woken, tasks>>

\* publish_nowait: without room a critical event is dispatched by a task, at once, and
\* any other is dropped.
PublishNowait(kind, key) ==
  /\ Stamp(kind, key)
  /\ \/ /\ Room
        /\ queue' = Append(queue, Len(sent) + 1)
        /\ UNCHANGED <<tasks, dropped>>
     \/ /\ ~Room /\ kind \in Critical
        /\ tasks' = tasks \cup {Len(sent) + 1}
        /\ UNCHANGED <<queue, dropped>>
     \/ /\ ~Room /\ kind \notin Critical
        /\ dropped' = dropped \cup {Len(sent) + 1}
        /\ UNCHANGED <<queue, tasks>>
  /\ UNCHANGED <<putters, woken>>

Waiting(e) == e \in woken \cup ToSet(putters)

\* A feed awaits each tick, the generator each signal; the API answers with the event
\* sent.
Source(kind, key) ==
  /\ kind \in mix
  /\ ~ \E e \in woken \cup ToSet(putters) : sent[e] = [kind |-> kind, key |-> key]
  /\ Publish(kind, key)
  /\ UNCHANGED <<mix, consumer, lanes, report, running, started, finished>>

\* Safe mode and the risk manager do not wait.
Notice(kind, key) ==
  /\ kind \in mix
  /\ PublishNowait(kind, key)
  /\ UNCHANGED <<mix, consumer, lanes, report, running, started, finished>>

\* A woken publisher finds room, or that somebody else has taken it.
Retry(e) ==
  /\ e \in woken
  /\ woken' = woken \ {e}
  /\ IF Room THEN queue' = Append(queue, e) /\ UNCHANGED putters
             ELSE putters' = Append(putters, e) /\ UNCHANGED queue
  /\ UNCHANGED <<mix, sent, consumer, lanes, tasks, report, running, started, finished, dropped>>

(***************************************************************************)
(* The consumer: run and _dispatch.                                        *)
(***************************************************************************)
Start(e) == started' = [started EXCEPT ![e] = @ + 1]
Next_get == IF running THEN Idle ELSE Ended

\* Mutant: serial events get tasks like the others.
DispatchInTasks(e) ==
  /\ consumer' = Next_get
  /\ IF Kind(e) = "TICK"
     THEN lanes' = [lanes EXCEPT ![sent[e].key] = Append(@, e)] /\ UNCHANGED tasks
     ELSE tasks' = tasks \cup {e} /\ UNCHANGED lanes
  /\ UNCHANGED started

Dispatch(e) ==
  \/ /\ Kind(e) \in Serial
     /\ consumer' = [pc |-> "handle", event |-> e]
     /\ Start(e)
     /\ UNCHANGED <<lanes, tasks>>
  \/ /\ Kind(e) = "TICK"
     /\ lanes' = [lanes EXCEPT ![sent[e].key] = Append(@, e)]
     /\ consumer' = Next_get
     /\ UNCHANGED <<tasks, started>>
  \/ /\ Kind(e) \notin Serial \cup {"TICK"}
     /\ tasks' = tasks \cup {e}
     /\ consumer' = Next_get
     /\ UNCHANGED <<lanes, started>>

\* One round of the loop: an event leaves the queue, the first publisher in line is woken.
Take ==
  /\ consumer.pc = "get" /\ queue # <<>>
  /\ queue' = Tail(queue)
  /\ putters' = IF putters = <<>> THEN <<>> ELSE Tail(putters)
  /\ woken' = IF putters = <<>> THEN woken ELSE woken \cup {Head(putters)}
  /\ Dispatch(Head(queue))
  /\ UNCHANGED <<mix, sent, report, running, finished, dropped>>

\* stop(): the loop ends when the get times out, or after the event it is at.
Stop ==
  /\ running
  /\ running' = FALSE
  /\ UNCHANGED <<mix, sent, queue, putters, woken, consumer, lanes, tasks, report, started,
                 finished, dropped>>

TimeOut ==
  /\ consumer.pc = "get" /\ ~running
  /\ consumer' = Ended
  /\ UNCHANGED <<mix, sent, queue, putters, woken, lanes, tasks, report, running, started,
                 finished, dropped>>

(***************************************************************************)
(* Handlers.                                                               *)
(***************************************************************************)
StartTask(e) ==
  /\ e \in tasks /\ started[e] = 0
  /\ Start(e)
  /\ UNCHANGED <<mix, sent, queue, putters, woken, consumer, lanes, tasks, report, running,
                 finished, dropped>>

\* Mutant: the lock is not taken.
StartAnyTick(k) ==
  /\ \E e \in ToSet(lanes[k]) : started[e] = 0 /\ Start(e)
  /\ UNCHANGED <<mix, sent, queue, putters, woken, consumer, lanes, tasks, report, running,
                 finished, dropped>>

\* _dispatch_ordered: the tick that has the lock.
StartTick(k) ==
  /\ lanes[k] # <<>> /\ started[Head(lanes[k])] = 0
  /\ Start(Head(lanes[k]))
  /\ UNCHANGED <<mix, sent, queue, putters, woken, consumer, lanes, tasks, report, running,
                 finished, dropped>>

Handling == {e \in Published : started[e] > 0 /\ e \notin finished}

\* What the handlers of the engine publish: the executor awaits the report of a fill or
\* of a close, RiskManager.close_position that of a trip, the risk manager raises a stop
\* from a tick without waiting.
Reports == [SIGNAL |-> "ORDER_FILLED", STOP_LOSS |-> "POSITION_CLOSED",
            KILL_SWITCH |-> "POSITION_CLOSED",
            USER_ORDER_UPDATE |-> "CIRCUIT_BREAKER_TRIPPED"]

\* close_position reports a trip with RiskManager._lock held; the other handlers of the
\* engine take the lock before they do anything.
LockHeldBy(waiting) == \E e \in Handling : Kind(e) = "USER_ORDER_UPDATE" /\ report[e] \in waiting
NeedsLock(e) == Kind(e) \in DOMAIN Reports \cup {"TICK"} /\ report[e] = 0
Blocked(e) == Waiting(report[e]) \/ (NeedsLock(e) /\ LockHeldBy(woken \cup ToSet(putters)))

Report(e) ==
  /\ e \in Handling /\ report[e] = 0 /\ ~Blocked(e)
  /\ \/ Kind(e) \in DOMAIN Reports /\ Publish(Reports[Kind(e)], sent[e].key)
     \/ Kind(e) = "TICK" /\ PublishNowait("STOP_LOSS", sent[e].key)
  /\ report' = [report EXCEPT ![e] = Len(sent) + 1]
  /\ UNCHANGED <<mix, consumer, lanes, running, started, finished>>

\* Mutant: an exception of a serial handler is not caught in the loop.
FinishOrRaise(e) ==
  /\ e \in Handling /\ ~Blocked(e)
  /\ finished' = finished \cup {e}
  /\ tasks' = tasks \ {e}
  /\ lanes' = [k \in Keys |-> IF e \in ToSet(lanes[k]) THEN Tail(lanes[k]) ELSE lanes[k]]
  /\ consumer' \in IF consumer.event = e THEN {Next_get, Ended} ELSE {consumer}
  /\ UNCHANGED <<mix, sent, queue, putters, woken, report, running, started, dropped>>

\* A handler returns, or raises: the exception is logged and the next event gets its turn.
Finish(e) ==
  /\ e \in Handling /\ ~Blocked(e)
  /\ finished' = finished \cup {e}
  /\ tasks' = tasks \ {e}
  /\ lanes' = [k \in Keys |-> IF e \in ToSet(lanes[k]) THEN Tail(lanes[k]) ELSE lanes[k]]
  /\ consumer' = IF consumer.event = e THEN Next_get ELSE consumer
  /\ UNCHANGED <<mix, sent, queue, putters, woken, report, running, started, dropped>>

(***************************************************************************)
(* Specification.                                                          *)
(***************************************************************************)
Init ==
  /\ mix \in Mixes
  /\ sent = <<>> /\ queue = <<>> /\ putters = <<>> /\ woken = {}
  /\ consumer = Idle /\ running = TRUE
  /\ lanes = [k \in Keys |-> <<>>] /\ tasks = {}
  /\ report = [e \in Events |-> 0]
  /\ started = [e \in Events |-> 0] /\ finished = {} /\ dropped = {}

\* What the event loop runs once the publishers are silent.
Work == \/ Take \/ TimeOut
        \/ \E k \in Keys : StartTick(k)
        \/ \E e \in Published : Retry(e) \/ StartTask(e) \/ Finish(e)

Next == \/ Work \/ Stop
        \/ \E e \in Published : Report(e)
        \/ \E k \in Keys : \/ \E kind \in Awaited : Source(kind, k)
                           \/ \E kind \in Unawaited : Notice(kind, k)

Spec == Init /\ [][Next]_vars
\* The event loop runs what is ready, and handlers return.
FairSpec == Spec /\ WF_vars(Work)

(***************************************************************************)
(* Properties.                                                             *)
(***************************************************************************)
\* The variables keep their types: the queue its bound, every list the events published.
TypeOK ==
  /\ mix \in Mixes
  /\ sent \in Seq([kind : Kinds, key : Keys]) /\ Len(sent) <= MaxEvents
  /\ queue \in Seq(Published) /\ Len(queue) <= Capacity
  /\ putters \in Seq(Published) /\ woken \subseteq Published
  /\ consumer \in [pc : {"get", "handle", "end"}, event : {0} \cup Published]
  /\ lanes \in [Keys -> Seq(Published)] /\ tasks \subseteq Published
  /\ report \in [Events -> {0} \cup Published] /\ running \in BOOLEAN
  /\ started \in [Events -> Nat]
  /\ finished \subseteq Published /\ dropped \subseteq Published

\* Events are delivered as EventDelivery promises: at most once, the critical ones not
\* dropped, whether they went through the queue or around it.
Delivery == INSTANCE EventDelivery
DeliverySpec == Delivery!Spec

\* Two serial events are handled at a time only if one of them is a critical event that
\* found the queue full: signals and the reports of fills and closes never overlap.
OrderedKinds == Serial \ Critical
OneAtATime == Cardinality({e \in Handling : Kind(e) \in OrderedKinds}) <= 1

\* The handlers of a tick start when those of every earlier tick of its symbol have
\* returned, in the order of publication.
TicksInOrder ==
  [][\A e \in Published : started'[e] > started[e] /\ Kind(e) = "TICK" =>
       \A f \in 1..(e - 1) : sent[f] = sent[e] => f \in finished]_vars

\* The consumer waits for room, or for a lock whose holder does.
Wedged ==
  /\ consumer.pc = "handle"
  /\ \/ report[consumer.event] \in ToSet(putters)
     \/ NeedsLock(consumer.event) /\ LockHeldBy(ToSet(putters))

\* Whatever is published is handled to the end, or dropped, unless the consumer is wedged
\* or the bus stopped: nothing else holds an event back.
EventSettles ==
  \A e \in Events :
    e \in Published ~> e \in finished \cup dropped \/ Wedged \/ ~running
=============================================================================
