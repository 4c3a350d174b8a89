---------------------------- MODULE EventBus_proofs ----------------------------
(***************************************************************************)
(* Theorems about EventBus, for every capacity, every set of symbols and   *)
(* every mixture of events: what EventDelivery promises, the order of      *)
(* ticks, and serial handlers that do not overlap.                         *)
(***************************************************************************)
EXTENDS EventBus, SequenceSets, FiniteSetTheorems

(***************************************************************************)
(* The inductive invariant.                                                *)
(***************************************************************************)
Waiters == woken \cup ToSet(putters)
Pending == ToSet(queue) \cup Waiters
InLane(k) == ToSet(lanes[k])
Assigned == tasks \cup UNION {InLane(k) : k \in Keys}

\* An event not yet dispatched is in one place and at one position of it; nothing has run
\* its handlers, nothing is about to, and it was not dropped.
Places ==
  /\ IsInjective(queue) /\ IsInjective(putters)
  /\ ToSet(queue) \cap Waiters = {} /\ woken \cap ToSet(putters) = {}
  /\ Pending \cap Assigned = {} /\ Pending \cap dropped = {} /\ Assigned \cap dropped = {}
  /\ \A e \in Pending \cup (Events \ Published) : started[e] = 0

\* Who runs the handlers of what.
Runners ==
  /\ \A e \in tasks : Kind(e) \notin OrderedKinds \cup {"TICK"}
  /\ \A k \in Keys : \A e \in InLane(k) : sent[e] = [kind |-> "TICK", key |-> k]
  /\ \A e \in Handling : Kind(e) \in OrderedKinds => consumer.event = e
  /\ consumer.pc # "handle" => consumer.event = 0

\* Two ticks of one symbol.
SameTick(e, f) == Kind(e) = "TICK" /\ sent[e] = sent[f]

\* The ticks of a symbol move in the order of their publication, from the publisher that
\* waits (one at most) through the queue to the lock, and none gets lost on the way.
Ticks ==
  /\ \A k \in Keys : \A i, j \in 1..Len(lanes[k]) :
       i < j => lanes[k][i] < lanes[k][j] /\ started[lanes[k][j]] = 0
  /\ \A i, j \in 1..Len(queue) : i < j /\ SameTick(queue[i], queue[j]) => queue[i] < queue[j]
  /\ \A e, f \in Waiters : SameTick(e, f) => e = f
  /\ \A e \in ToSet(queue), f \in Waiters : SameTick(e, f) => e < f
  /\ \A k \in Keys : \A e \in InLane(k), f \in Pending : SameTick(e, f) => e < f
  /\ \A e \in Published : Kind(e) = "TICK" => e \in finished \cup Pending \cup InLane(sent[e].key)

IInv == TypeOK /\ Places /\ Runners /\ Ticks

(***************************************************************************)
(* Types.                                                                  *)
(***************************************************************************)
\* Every event named anywhere was published.
LEMMA OnlyPublished ==
  ASSUME TypeOK
  PROVE  /\ Len(sent) \in Nat /\ Published \subseteq Events
         /\ ToSet(queue) \subseteq Published /\ Waiters \subseteq Published
         /\ Pending \subseteq Published /\ Assigned \subseteq Published
         /\ \A k \in Keys : InLane(k) \subseteq Published
         /\ \A e \in Published : sent[e] \in [kind : Kinds, key : Keys]
<1>1. sent \in Seq([kind : Kinds, key : Keys]) /\ Len(sent) <= MaxEvents
  BY DEF TypeOK
<1>2. Len(sent) \in Nat /\ Published \subseteq Events
  BY <1>1, LenProperties, BusAssumption DEF Published, Events
<1>3. \A e \in Published : sent[e] \in [kind : Kinds, key : Keys]
  BY <1>1, ElementOfSeq DEF Published
<1>4. queue \in Seq(Published) /\ putters \in Seq(Published)
  BY DEF TypeOK
<1>5. ToSet(queue) \subseteq Published /\ ToSet(putters) \subseteq Published
  BY <1>4, SetOfSeq
<1>6. \A k \in Keys : InLane(k) \subseteq Published
  <2>1. \A k \in Keys : lanes[k] \in Seq(Published)
    BY DEF TypeOK
  <2> QED
    BY <2>1, SetOfSeq DEF InLane
<1>7. woken \subseteq Published /\ tasks \subseteq Published
  BY DEF TypeOK
<1> QED
  BY <1>2, <1>3, <1>5, <1>6, <1>7 DEF Waiters, Pending, Assigned

\* Publishing numbers the event and leaves the others what they were.
LEMMA Stamped ==
  ASSUME TypeOK, NEW kind \in Kinds, NEW key \in Keys, Stamp(kind, key)
  PROVE  /\ sent' \in Seq([kind : Kinds, key : Keys]) /\ Len(sent') = Len(sent) + 1
         /\ Len(sent') <= MaxEvents
         /\ Published' = Published \cup {Len(sent) + 1} /\ Len(sent) + 1 \notin Published
         /\ Len(sent) + 1 \in Events
         /\ \A e \in Published : sent'[e] = sent[e]
         /\ sent'[Len(sent) + 1] = [kind |-> kind, key |-> key]
<1> DEFINE S == [kind : Kinds, key : Keys]
           x == [kind |-> kind, key |-> key]
<1>1. sent \in Seq(S) /\ x \in S /\ Len(sent) < MaxEvents /\ sent' = Append(sent, x)
  BY DEF TypeOK, Stamp
<1>2. Len(sent) \in Nat
  BY <1>1, LenProperties
<1> HIDE DEF S, x
<1>3. /\ sent' \in Seq(S) /\ Len(sent') = Len(sent) + 1
      /\ \A e \in 1..Len(sent) : sent'[e] = sent[e]
      /\ sent'[Len(sent) + 1] = x
  BY <1>1, AppendProperties
<1>4. Published' = Published \cup {Len(sent) + 1} /\ Len(sent) + 1 \notin Published
  BY <1>2, <1>3 DEF Published
<1>5. Len(sent') <= MaxEvents /\ Len(sent) + 1 \in Events
  BY <1>1, <1>2, <1>3, BusAssumption DEF Events
<1> QED
  BY <1>3, <1>4, <1>5 DEF Published, S, x

\* Publishing keeps the types of what it changes, and of what it does not.
LEMMA PublishType ==
  ASSUME TypeOK, NEW kind \in Kinds, NEW key \in Keys,
         Publish(kind, key) \/ PublishNowait(kind, key)
  PROVE  /\ sent' \in Seq([kind : Kinds, key : Keys]) /\ Len(sent') <= MaxEvents
         /\ Published \subseteq Published' /\ Len(sent) + 1 \in Published'
         /\ queue' \in Seq(Published') /\ Len(queue') <= Capacity
         /\ putters' \in Seq(Published') /\ woken' \subseteq Published'
         /\ tasks' \subseteq Published' /\ dropped' \subseteq Published'
         /\ lanes \in [Keys -> Seq(Published')] /\ finished \subseteq Published'
<1> DEFINE n == Len(sent) + 1
<1>1. Stamp(kind, key)
  BY DEF Publish, PublishNowait
<1>2. /\ sent' \in Seq([kind : Kinds, key : Keys]) /\ Len(sent') <= MaxEvents
      /\ Published \subseteq Published' /\ n \in Published'
  BY <1>1, Stamped
<1>3. queue \in Seq(Published) /\ putters \in Seq(Published) /\ Len(queue) <= Capacity
  BY DEF TypeOK
<1>4. queue \in Seq(Published') /\ putters \in Seq(Published') /\ Len(queue) \in Nat
  BY <1>2, <1>3, SeqMonotonic, LenProperties
<1> HIDE DEF n
<1>5. /\ Append(queue, n) \in Seq(Published') /\ Len(Append(queue, n)) = Len(queue) + 1
      /\ Append(putters, n) \in Seq(Published')
  BY <1>2, <1>4, AppendProperties
<1>6. queue' = queue \/ (queue' = Append(queue, n) /\ Len(queue) < Capacity)
  BY DEF Publish, PublishNowait, Room, n
<1>7. putters' = putters \/ putters' = Append(putters, n)
  BY DEF Publish, PublishNowait, n
<1>8. queue' \in Seq(Published') /\ Len(queue') <= Capacity
  <2>1. CASE queue' = queue
    BY <1>3, <1>4, <2>1
  <2>2. CASE queue' = Append(queue, n) /\ Len(queue) < Capacity
    BY <1>4, <1>5, <2>2, BusAssumption
  <2> QED
    BY <1>6, <2>1, <2>2
<1>12. putters' \in Seq(Published')
  BY <1>4, <1>5, <1>7
<1>9. /\ woken' = woken /\ tasks' \subseteq tasks \cup {n} /\ dropped' \subseteq dropped \cup {n}
  BY DEF Publish, PublishNowait, n
<1>10. woken' \subseteq Published' /\ tasks' \subseteq Published' /\ dropped' \subseteq Published'
       /\ finished \subseteq Published'
  BY <1>2, <1>9 DEF TypeOK
<1>11. lanes \in [Keys -> Seq(Published')]
  <2>1. \A k \in Keys : lanes[k] \in Seq(Published')
    BY <1>2, SeqMonotonic DEF TypeOK
  <2> QED
    BY <2>1 DEF TypeOK
<1> QED
  BY <1>2, <1>8, <1>10, <1>11, <1>12 DEF n

\* Every step of the bus, its publishers and its handlers keeps the types.
LEMMA TypeStep == TypeOK /\ [Next]_vars => TypeOK'
<1> SUFFICES ASSUME TypeOK, [Next]_vars PROVE TypeOK'
  OBVIOUS
<1> DEFINE Consumers == [pc : {"get", "handle", "end"}, event : {0} \cup Published]
<1>p. Len(sent) \in Nat /\ Published \subseteq Events /\ ToSet(queue) \subseteq Published
      /\ \A e \in Published : sent[e] \in [kind : Kinds, key : Keys]
  BY OnlyPublished
<1>i. Idle \in Consumers /\ Ended \in Consumers /\ Next_get \in Consumers
  BY DEF Idle, Ended, Next_get
<1>a. ASSUME NEW e \in Published, Start(e) PROVE started' \in [Events -> Nat]
  BY <1>p, <1>a DEF TypeOK, Start
<1>k. Awaited \subseteq Kinds /\ Unawaited \subseteq Kinds /\ "STOP_LOSS" \in Kinds
      /\ DOMAIN Reports = {"SIGNAL", "STOP_LOSS", "KILL_SWITCH", "USER_ORDER_UPDATE"}
      /\ \A x \in DOMAIN Reports : Reports[x] \in Kinds
  BY DEF Kinds, Awaited, Unawaited, Critical, Serial, Reports
<1>1. ASSUME NEW key \in Keys, NEW kind \in Awaited \cup Unawaited,
             Source(kind, key) \/ Notice(kind, key)
      PROVE  TypeOK'
  <2>1. kind \in Kinds /\ (Publish(kind, key) \/ PublishNowait(kind, key))
    BY <1>1, <1>k DEF Source, Notice
  <2>2. UNCHANGED <<mix, consumer, lanes, report, running, started, finished>>
    BY <1>1 DEF Source, Notice
  <2>3. /\ sent' \in Seq([kind : Kinds, key : Keys]) /\ Len(sent') <= MaxEvents
        /\ Published \subseteq Published'
        /\ queue' \in Seq(Published') /\ Len(queue') <= Capacity
        /\ putters' \in Seq(Published') /\ woken' \subseteq Published'
        /\ tasks' \subseteq Published' /\ dropped' \subseteq Published'
        /\ lanes \in [Keys -> Seq(Published')] /\ finished \subseteq Published'
    BY <2>1, PublishType
  <2>4. consumer' \in [pc : {"get", "handle", "end"}, event : {0} \cup Published']
        /\ report' \in [Events -> {0} \cup Published']
    BY <2>2, <2>3 DEF TypeOK
  <2> QED
    BY <2>2, <2>3, <2>4 DEF TypeOK
<1>2. ASSUME NEW e \in Published, Report(e) PROVE TypeOK'
  <2>1. PICK kind \in Kinds : Publish(kind, sent[e].key) \/ PublishNowait(kind, sent[e].key)
    BY <1>2, <1>k DEF Report
  <2>2. sent[e].key \in Keys /\ e \in Events
    BY <1>p
  <2>3. UNCHANGED <<mix, consumer, lanes, running, started, finished>>
        /\ report' = [report EXCEPT ![e] = Len(sent) + 1]
    BY <1>2 DEF Report
  <2>4. /\ sent' \in Seq([kind : Kinds, key : Keys]) /\ Len(sent') <= MaxEvents
        /\ Published \subseteq Published' /\ Len(sent) + 1 \in Published'
        /\ queue' \in Seq(Published') /\ Len(queue') <= Capacity
        /\ putters' \in Seq(Published') /\ woken' \subseteq Published'
        /\ tasks' \subseteq Published' /\ dropped' \subseteq Published'
        /\ lanes \in [Keys -> Seq(Published')] /\ finished \subseteq Published'
    BY <2>1, <2>2, PublishType
  <2>5. consumer' \in [pc : {"get", "handle", "end"}, event : {0} \cup Published']
    BY <2>3, <2>4 DEF TypeOK
  <2>6. report' \in [Events -> {0} \cup Published']
    <3>1. report \in [Events -> {0} \cup Published']
      BY <2>4 DEF TypeOK
    <3> QED
      BY <2>2, <2>3, <2>4, <3>1
  <2> QED
    BY <2>3, <2>4, <2>5, <2>6 DEF TypeOK
<1>3. ASSUME NEW e \in Published, Retry(e) PROVE TypeOK'
  <2>1. queue \in Seq(Published) /\ putters \in Seq(Published) /\ Len(queue) <= Capacity
        /\ Len(queue) \in Nat
    BY LenProperties DEF TypeOK
  <2>2. /\ Append(queue, e) \in Seq(Published) /\ Len(Append(queue, e)) = Len(queue) + 1
        /\ Append(putters, e) \in Seq(Published)
    BY <2>1, AppendProperties
  <2>3. queue' \in Seq(Published) /\ Len(queue') <= Capacity /\ putters' \in Seq(Published)
    <3>1. CASE Room
      BY <1>3, <2>1, <2>2, <3>1, BusAssumption DEF Retry, Room
    <3>2. CASE ~Room
      BY <1>3, <2>1, <2>2, <3>2 DEF Retry
    <3> QED
      BY <3>1, <3>2
  <2>4. UNCHANGED <<mix, sent, consumer, lanes, tasks, report, running, started, finished,
                    dropped>> /\ woken' = woken \ {e}
    BY <1>3 DEF Retry
  <2> QED
    BY <2>3, <2>4 DEF TypeOK, Published
<1>4. CASE Take
  <2>1. queue \in Seq(Published) /\ queue # <<>> /\ putters \in Seq(Published)
        /\ Len(queue) <= Capacity /\ Len(queue) \in Nat
    BY <1>4, LenProperties DEF TypeOK, Take
  <2>2. /\ Head(queue) \in Published /\ Tail(queue) \in Seq(Published)
        /\ Len(Tail(queue)) = Len(queue) - 1
    BY <2>1, HeadTailProperties
  <2>3. putters' \in Seq(Published) /\ woken' \subseteq Published
    <3>1. CASE putters = <<>>
      BY <1>4, <2>1, <3>1 DEF Take, TypeOK
    <3>2. CASE putters # <<>>
      <4>1. Head(putters) \in Published /\ Tail(putters) \in Seq(Published)
        BY <2>1, <3>2, HeadTailProperties
      <4> QED
        BY <1>4, <3>2, <4>1 DEF Take, TypeOK
    <3> QED
      BY <3>1, <3>2
  <2>4. queue' \in Seq(Published) /\ Len(queue') <= Capacity
    BY <1>4, <2>1, <2>2, BusAssumption DEF Take
  <2>5. UNCHANGED <<mix, sent, report, running, finished, dropped>> /\ Dispatch(Head(queue))
    BY <1>4 DEF Take
  <2> DEFINE h == Head(queue)
  <2>6. h \in Published /\ sent[h].key \in Keys
    BY <1>p, <2>2
  <2> HIDE DEF h
  <2>7. consumer' \in Consumers /\ tasks' \subseteq Published
        /\ started' \in [Events -> Nat] /\ lanes' \in [Keys -> Seq(Published)]
    <3>1. CASE Kind(h) \in Serial /\ consumer' = [pc |-> "handle", event |-> h] /\ Start(h)
               /\ UNCHANGED <<lanes, tasks>>
      <4>1. started' \in [Events -> Nat]
        BY <2>6, <3>1, <1>a
      <4>2. consumer' \in Consumers
        BY <2>6, <3>1
      <4> QED
        BY <3>1, <4>1, <4>2 DEF TypeOK
    <3>2. CASE Kind(h) = "TICK" /\ lanes' = [lanes EXCEPT ![sent[h].key] = Append(@, h)]
               /\ consumer' = Next_get /\ UNCHANGED <<tasks, started>>
      <4>1. lanes \in [Keys -> Seq(Published)] /\ lanes[sent[h].key] \in Seq(Published)
        BY <2>6 DEF TypeOK
      <4>2. Append(lanes[sent[h].key], h) \in Seq(Published)
        BY <2>6, <4>1, AppendProperties
      <4>3. lanes' \in [Keys -> Seq(Published)]
        BY <2>6, <3>2, <4>1, <4>2
      <4> QED
        BY <1>i, <3>2, <4>3 DEF TypeOK
    <3>3. CASE tasks' = tasks \cup {h} /\ consumer' = Next_get /\ UNCHANGED <<lanes, started>>
      BY <1>i, <2>6, <3>3 DEF TypeOK
    <3> QED
      BY <2>5, <3>1, <3>2, <3>3 DEF Dispatch, h
  <2> QED
    BY <2>3, <2>4, <2>5, <2>7 DEF TypeOK, Published
<1>5. CASE Stop
  BY <1>5 DEF Stop, TypeOK, Published
<1>6. CASE TimeOut
  <2>1. UNCHANGED <<mix, sent, queue, putters, woken, lanes, tasks, report, running, started,
                    finished, dropped>> /\ consumer' \in Consumers
    BY <1>6, <1>i DEF TimeOut
  <2> QED
    BY <2>1 DEF TypeOK, Published
<1>7. ASSUME NEW e \in Published, StartTask(e) PROVE TypeOK'
  <2>1. started' \in [Events -> Nat]
    BY <1>7, <1>a DEF StartTask
  <2> QED
    BY <1>7, <2>1 DEF StartTask, TypeOK, Published
<1>8. ASSUME NEW k \in Keys, StartTick(k) PROVE TypeOK'
  <2>1. lanes[k] \in Seq(Published) /\ lanes[k] # <<>>
    BY <1>8 DEF StartTick, TypeOK
  <2>2. Head(lanes[k]) \in Published
    BY <2>1, HeadTailProperties
  <2>3. started' \in [Events -> Nat]
    BY <1>8, <1>a, <2>2 DEF StartTick
  <2> QED
    BY <1>8, <2>3 DEF StartTick, TypeOK, Published
<1>9. ASSUME NEW e \in Published, Finish(e) PROVE TypeOK'
  <2>1. \A k \in Keys : lanes[k] \in Seq(Published)
    BY DEF TypeOK
  <2>2. \A k \in Keys : e \in ToSet(lanes[k]) => Tail(lanes[k]) \in Seq(Published)
    BY <2>1, SetOfEmpty, HeadTailProperties
  <2>3. lanes' \in [Keys -> Seq(Published)]
    BY <1>9, <2>1, <2>2 DEF Finish
  <2>4. UNCHANGED <<mix, sent, queue, putters, woken, report, running, started, dropped>>
        /\ finished' = finished \cup {e} /\ tasks' = tasks \ {e}
        /\ consumer' \in {consumer, Next_get}
    BY <1>9 DEF Finish
  <2> QED
    BY <1>i, <2>3, <2>4 DEF TypeOK, Published
<1>10. CASE UNCHANGED vars
  BY <1>10 DEF vars, TypeOK, Published
<1> QED
  BY <1>1, <1>2, <1>3, <1>4, <1>5, <1>6, <1>7, <1>8, <1>9, <1>10 DEF Next, Work

(***************************************************************************)
(* The places of an event.                                                 *)
(***************************************************************************)
\* A new event takes one place, behind all others.
LEMMA PublishKeeps ==
  ASSUME TypeOK, Places, Runners, Ticks, NEW kind \in Kinds, NEW key \in Keys,
         Publish(kind, key) \/ (PublishNowait(kind, key) /\ kind # "TICK"),
         kind = "TICK" => \A e \in Waiters : sent[e] # [kind |-> kind, key |-> key],
         UNCHANGED <<consumer, lanes, started, finished>>
  PROVE  Places' /\ Runners' /\ Ticks'
<1>n. PICK n : n = Len(sent) + 1
  OBVIOUS
<1>1. Stamp(kind, key)
  BY DEF Publish, PublishNowait
<1>2. /\ Published' = Published \cup {n} /\ n \notin Published /\ n \in Events
      /\ \A e \in Published : sent'[e] = sent[e]
      /\ sent'[n] = [kind |-> kind, key |-> key]
  BY <1>n, <1>1, Stamped
<1>3. /\ ToSet(queue) \subseteq Published /\ Waiters \subseteq Published
      /\ Pending \subseteq Published /\ Assigned \subseteq Published
      /\ \A k \in Keys : InLane(k) \subseteq Published
  BY OnlyPublished
<1>4. dropped \subseteq Published /\ tasks \subseteq Published
      /\ queue \in Seq(Published) /\ putters \in Seq(Published)
  BY DEF TypeOK
<1>5. \A e \in Published : e < n
  BY <1>n, OnlyPublished DEF Published
<1>6. started[n] = 0 /\ n \in Nat
  BY <1>2 DEF Places, Events
<1>7. (\A k \in Keys : InLane(k)' = InLane(k))
      /\ Assigned' = tasks' \cup UNION {InLane(k) : k \in Keys}
      /\ Assigned = tasks \cup UNION {InLane(k) : k \in Keys}
  BY DEF InLane, Assigned
<1>8. queue \in Seq(Published') /\ putters \in Seq(Published') /\ n \in Published'
  BY <1>2, <1>4, SeqMonotonic
<1>9. \/ /\ queue' = Append(queue, n) /\ UNCHANGED <<putters, woken, tasks, dropped>>
      \/ /\ putters' = Append(putters, n) /\ UNCHANGED <<queue, woken, tasks, dropped>>
      \/ /\ kind \in Critical /\ kind # "TICK"
         /\ tasks' = tasks \cup {n} /\ UNCHANGED <<queue, putters, woken, dropped>>
      \/ /\ kind # "TICK"
         /\ dropped' = dropped \cup {n} /\ UNCHANGED <<queue, putters, woken, tasks>>
  BY <1>n DEF Publish, PublishNowait
<1>10. /\ ToSet(Append(queue, n)) = ToSet(queue) \cup {n} /\ IsInjective(Append(queue, n))
       /\ ToSet(Append(putters, n)) = ToSet(putters) \cup {n} /\ IsInjective(Append(putters, n))
  <2>1. n \notin ToSet(queue) /\ n \notin ToSet(putters)
    BY <1>2, <1>3 DEF Waiters
  <2> QED
    BY <1>8, <2>1, SetOfAppend DEF Places
<1>11. Places'
  <2>1. Pending' \cup (Events \ Published)' \subseteq Pending \cup (Events \ Published)
    BY <1>2, <1>9, <1>10 DEF Pending, Waiters
  <2>2. \A e \in (Pending \cup (Events \ Published))' : started'[e] = 0
    BY <2>1 DEF Places
  <2>3. n \notin Assigned /\ n \notin dropped /\ n \notin Pending
    BY <1>2, <1>3, <1>4
  <2>4. CASE queue' = Append(queue, n) /\ UNCHANGED <<putters, woken, tasks, dropped>>
    BY <1>7, <1>10, <2>2, <2>3, <2>4 DEF Places, Pending, Waiters, Assigned
  <2>5. CASE putters' = Append(putters, n) /\ UNCHANGED <<queue, woken, tasks, dropped>>
    BY <1>7, <1>10, <2>2, <2>3, <2>5 DEF Places, Pending, Waiters, Assigned
  <2>6. CASE tasks' = tasks \cup {n} /\ UNCHANGED <<queue, putters, woken, dropped>>
    <3>1. Assigned' = Assigned \cup {n}
      BY <1>7, <2>6
    <3>2. Pending' = Pending /\ Waiters' = Waiters
      BY <2>6 DEF Pending, Waiters
    <3> QED
      BY <2>2, <2>3, <2>6, <3>1, <3>2 DEF Places
  <2>7. CASE dropped' = dropped \cup {n} /\ UNCHANGED <<queue, putters, woken, tasks>>
    <3>1. Assigned' = Assigned
      BY <1>7, <2>7
    <3>2. Pending' = Pending /\ Waiters' = Waiters
      BY <2>7 DEF Pending, Waiters
    <3> QED
      BY <2>2, <2>3, <2>7, <3>1, <3>2 DEF Places
  <2> QED
    BY <1>9, <2>4, <2>5, <2>6, <2>7
<1>12. Runners'
  <2>1. \A e \in tasks' : Kind(e)' \notin OrderedKinds \cup {"TICK"}
    <3>1. \A e \in tasks : Kind(e)' \notin OrderedKinds \cup {"TICK"}
      BY <1>2, <1>4 DEF Runners, Kind
    <3>2. n \in tasks' /\ n \notin tasks => kind \in Critical /\ kind # "TICK"
      BY <1>9
    <3>3. tasks' \subseteq tasks \cup {n}
      BY <1>9
    <3>4. Kind(n)' = kind
      BY <1>2 DEF Kind
    <3> QED
      BY <3>1, <3>2, <3>3, <3>4 DEF OrderedKinds
  <2>2. \A k \in Keys : \A e \in InLane(k)' : sent'[e] = [kind |-> "TICK", key |-> k]
    BY <1>2, <1>3, <1>7 DEF Runners
  <2>3. Handling' = Handling
    BY <1>2, <1>6 DEF Handling
  <2>4. \A e \in Handling' : Kind(e)' \in OrderedKinds => consumer'.event = e
    BY <1>2, <2>3 DEF Runners, Handling, Kind
  <2> QED
    BY <2>1, <2>2, <2>4 DEF Runners
<1>13. Ticks'
  <2>1. \A e \in Published, f \in Published : SameTick(e, f)' <=> SameTick(e, f)
    BY <1>2 DEF SameTick, Kind
  <2>2. \A k \in Keys : \A i, j \in 1..Len(lanes'[k]) :
           i < j => lanes'[k][i] < lanes'[k][j] /\ started'[lanes'[k][j]] = 0
    BY DEF Ticks
  <2>3. \A e \in Published : SameTick(e, n)' => kind = "TICK" /\ sent[e] = [kind |-> kind, key |-> key]
    BY <1>2 DEF SameTick, Kind
  <2>4. \A f \in Published : SameTick(n, f)' => kind = "TICK" /\ sent[f] = [kind |-> kind, key |-> key]
    BY <1>2 DEF SameTick, Kind
  <2>5. Pending' \subseteq Pending \cup {n} /\ Waiters' \subseteq Waiters \cup {n}
        /\ (n \in Waiters' => queue' = queue) /\ ToSet(queue') \subseteq ToSet(queue) \cup {n}
        /\ (n \in ToSet(queue') => Waiters' = Waiters)
    <3>1. n \notin Waiters /\ n \notin ToSet(queue)
      BY <1>2, <1>3
    <3> QED
      BY <1>9, <1>10, <3>1 DEF Pending, Waiters
  <2>6. \A i, j \in 1..Len(queue') :
           i < j /\ SameTick(queue[i], queue[j])' => queue'[i] < queue'[j]
    <3>1. CASE queue' = queue
      <4>1. \A i \in 1..Len(queue) : queue[i] \in Published
        BY <1>4, ElementOfSeq
      <4> QED
        BY <2>1, <3>1, <4>1 DEF Ticks
    <3>2. CASE queue' = Append(queue, n)
      <4>1. /\ Len(queue') = Len(queue) + 1 /\ Len(queue) \in Nat /\ queue'[Len(queue)+1] = n
            /\ \A i \in 1..Len(queue) : queue'[i] = queue[i] /\ queue[i] \in Published
        BY <1>4, <1>8, <3>2, AppendProperties, LenProperties, ElementOfSeq
      <4>2. SUFFICES ASSUME NEW i \in 1..Len(queue'), NEW j \in 1..Len(queue'), i < j,
                            SameTick(queue[i], queue[j])'
                     PROVE  queue'[i] < queue'[j]
        OBVIOUS
      <4>3. i \in 1..Len(queue)
        BY <4>1, <4>2
      <4>4. CASE j = Len(queue) + 1
        BY <1>5, <4>1, <4>3, <4>4
      <4>5. CASE j # Len(queue) + 1
        <5>1. j \in 1..Len(queue)
          BY <4>1, <4>5
        <5>2. SameTick(queue[i], queue[j])
          BY <2>1, <4>1, <4>2, <4>3, <5>1
        <5> QED
          BY <4>1, <4>2, <4>3, <5>1, <5>2 DEF Ticks
      <4> QED
        BY <4>4, <4>5
    <3> QED
      BY <1>9, <3>1, <3>2
  <2>7. \A e, f \in Waiters' : SameTick(e, f)' => e = f
    BY <1>3, <2>1, <2>3, <2>4, <2>5 DEF Ticks
  <2>8. \A e \in ToSet(queue'), f \in Waiters' : SameTick(e, f)' => e < f
    <3> SUFFICES ASSUME NEW e \in ToSet(queue'), NEW f \in Waiters', SameTick(e, f)'
                 PROVE  e < f
      OBVIOUS
    <3>1. CASE e = n
      BY <1>3, <2>4, <2>5, <3>1
    <3>2. CASE e # n /\ f = n
      BY <1>3, <1>5, <2>5, <3>2
    <3>3. CASE e # n /\ f # n
      BY <1>3, <2>1, <2>5, <3>3 DEF Ticks
    <3> QED
      BY <3>1, <3>2, <3>3
  <2>9. \A k \in Keys : \A e \in InLane(k)', f \in Pending' : SameTick(e, f)' => e < f
    BY <1>3, <1>5, <1>7, <2>1, <2>5 DEF Ticks
  <2>10. \A e \in Published' : Kind(e)' = "TICK" =>
           e \in finished' \cup Pending' \cup InLane(sent[e].key)'
    <3>1. Pending \subseteq Pending'
      BY <1>9, <1>10 DEF Pending, Waiters
    <3>2. kind = "TICK" => n \in Pending'
      BY <1>9, <1>10 DEF Pending, Waiters
    <3>3. Kind(n)' = kind
      BY <1>2 DEF Kind
    <3>4. ASSUME NEW e \in Published, Kind(e)' = "TICK"
          PROVE  e \in finished' \cup Pending' \cup InLane(sent[e].key)'
      <4>1. Kind(e) = "TICK" /\ sent'[e] = sent[e]
        BY <1>2, <3>4 DEF Kind
      <4>2. e \in finished \cup Pending \cup InLane(sent[e].key)
        BY <4>1 DEF Ticks
      <4> QED
        BY <3>1, <4>1, <4>2 DEF InLane
    <3> QED
      BY <1>2, <3>2, <3>3, <3>4
  <2> QED
    BY <2>2, <2>6, <2>7, <2>8, <2>9, <2>10 DEF Ticks
<1> QED
  BY <1>11, <1>12, <1>13

\* A publisher that runs again moves its event into the queue, or to the end of the line.
LEMMA RetryKeeps ==
  ASSUME TypeOK, Places, Runners, Ticks, NEW x \in Published, Retry(x)
  PROVE  Places' /\ Runners' /\ Ticks'
<1>1. /\ x \in woken /\ woken' = woken \ {x}
      /\ UNCHANGED <<sent, consumer, lanes, tasks, started, finished, dropped>>
      /\ \/ queue' = Append(queue, x) /\ UNCHANGED putters
         \/ putters' = Append(putters, x) /\ UNCHANGED queue
  BY DEF Retry
<1>2. queue \in Seq(Published) /\ putters \in Seq(Published)
  BY DEF TypeOK
<1>3. x \in Waiters /\ x \in Pending /\ x \notin ToSet(queue) /\ x \notin ToSet(putters)
  BY <1>1 DEF Waiters, Pending, Places
<1>4. /\ ToSet(Append(queue, x)) = ToSet(queue) \cup {x} /\ IsInjective(Append(queue, x))
      /\ ToSet(Append(putters, x)) = ToSet(putters) \cup {x} /\ IsInjective(Append(putters, x))
  BY <1>2, <1>3, SetOfAppend DEF Places
<1>5. \/ /\ queue' = Append(queue, x) /\ UNCHANGED putters /\ Waiters' = Waiters \ {x}
         /\ ToSet(queue)' = ToSet(queue) \cup {x} /\ Pending' = Pending
      \/ /\ putters' = Append(putters, x) /\ UNCHANGED queue /\ Waiters' = Waiters
         /\ ToSet(putters)' = ToSet(putters) \cup {x} /\ Pending' = Pending
  BY <1>1, <1>3, <1>4 DEF Waiters, Pending, Places
<1>6. /\ Published' = Published /\ Assigned' = Assigned /\ Handling' = Handling
      /\ \A k \in Keys : InLane(k)' = InLane(k)
      /\ \A e, f : SameTick(e, f)' <=> SameTick(e, f)
      /\ \A e : Kind(e)' = Kind(e)
  BY <1>1 DEF Published, Assigned, InLane, Handling, SameTick, Kind
<1>7. Places'
  <2>1. IsInjective(queue') /\ IsInjective(putters')
    BY <1>4, <1>5 DEF Places
  <2>2. ToSet(queue') \cap Waiters' = {} /\ woken' \cap ToSet(putters') = {}
    BY <1>1, <1>4, <1>5 DEF Places
  <2> QED
    BY <1>1, <1>5, <1>6, <2>1, <2>2 DEF Places
<1>8. Runners'
  BY <1>1, <1>6 DEF Runners
<1>9. Ticks'
  <2>1. \A i, j \in 1..Len(queue') : i < j /\ SameTick(queue[i], queue[j])' => queue'[i] < queue'[j]
    <3>1. CASE queue' = queue
      BY <1>6, <3>1 DEF Ticks
    <3>2. CASE queue' = Append(queue, x)
      <4>1. /\ Len(queue') = Len(queue) + 1 /\ Len(queue) \in Nat /\ queue'[Len(queue)+1] = x
            /\ \A i \in 1..Len(queue) : queue'[i] = queue[i] /\ queue[i] \in ToSet(queue)
        BY <1>2, <3>2, AppendProperties, SetOfSeq
      <4>2. SUFFICES ASSUME NEW i \in 1..Len(queue'), NEW j \in 1..Len(queue'), i < j,
                            SameTick(queue[i], queue[j])'
                     PROVE  queue'[i] < queue'[j]
        OBVIOUS
      <4>3. i \in 1..Len(queue) /\ SameTick(queue'[i], queue'[j])
        BY <1>6, <4>1, <4>2
      <4>4. CASE j = Len(queue) + 1
        BY <1>3, <4>1, <4>3, <4>4 DEF Ticks
      <4>5. CASE j # Len(queue) + 1
        <5>1. j \in 1..Len(queue)
          BY <4>1, <4>5
        <5> QED
          BY <4>1, <4>2, <4>3, <5>1 DEF Ticks
      <4> QED
        BY <4>4, <4>5
    <3> QED
      BY <1>5, <3>1, <3>2
  <2>2. \A e, f \in Waiters' : SameTick(e, f)' => e = f
    BY <1>5, <1>6 DEF Ticks
  <2>3. \A e \in ToSet(queue)', f \in Waiters' : SameTick(e, f)' => e < f
    BY <1>3, <1>5, <1>6 DEF Ticks
  <2>4. \A k \in Keys : \A e \in InLane(k)', f \in Pending' : SameTick(e, f)' => e < f
    BY <1>5, <1>6 DEF Ticks
  <2>5. \A e \in Published' : Kind(e)' = "TICK" =>
          e \in finished' \cup Pending' \cup InLane(sent[e].key)'
    BY <1>1, <1>5, <1>6 DEF Ticks, InLane
  <2>6. \A k \in Keys : \A i, j \in 1..Len(lanes'[k]) :
          i < j => lanes'[k][i] < lanes'[k][j] /\ started'[lanes'[k][j]] = 0
    BY <1>1 DEF Ticks
  <2> QED
    BY <2>1, <2>2, <2>3, <2>4, <2>5, <2>6 DEF Ticks
<1> QED
  BY <1>7, <1>8, <1>9

\* What has or awaits the lock of a symbol is a tick of it.
LEMMA LaneTicks ==
  ASSUME Runners, NEW k \in Keys, NEW e \in InLane(k)
  PROVE  Kind(e) = "TICK" /\ sent[e].key = k
<1>1. sent[e] = [kind |-> "TICK", key |-> k]
  BY DEF Runners
<1> QED
  BY <1>1 DEF Kind

\* Starting the handlers of an event that a task or a lock was given to.
LEMMA StartKeeps ==
  ASSUME TypeOK, Places, Runners, Ticks, NEW x \in Published,
         x \in tasks \/ (\E k \in Keys : lanes[k] # <<>> /\ x = Head(lanes[k])),
         Start(x),
         UNCHANGED <<sent, queue, putters, woken, consumer, lanes, tasks, finished, dropped>>
  PROVE  Places' /\ Runners' /\ Ticks'
<1>1. x \in Events /\ started' = [started EXCEPT ![x] = @ + 1] /\ started \in [Events -> Nat]
  BY OnlyPublished DEF Start, TypeOK
<1>2. \A e \in Events : e # x => started'[e] = started[e]
  BY <1>1
<1>3. \A k \in Keys : lanes[k] \in Seq(Published)
  BY DEF TypeOK
<1>4. \A k \in Keys : lanes[k] # <<>> => Head(lanes[k]) = lanes[k][1] /\ Head(lanes[k]) \in InLane(k)
  BY <1>3, SetOfTail DEF InLane
<1>5. /\ Published' = Published /\ Assigned' = Assigned /\ Pending' = Pending
      /\ Waiters' = Waiters
      /\ \A k \in Keys : InLane(k)' = InLane(k)
      /\ \A e, f : SameTick(e, f)' <=> SameTick(e, f)
      /\ \A e : Kind(e)' = Kind(e)
  BY DEF Published, Assigned, InLane, SameTick, Kind, Pending, Waiters
<1>6. x \in Assigned /\ x \notin Pending
  BY <1>4 DEF Assigned, Places
<1>7. Kind(x) \notin OrderedKinds
  <2>1. \A k \in Keys : \A e \in InLane(k) : Kind(e) = "TICK"
    BY LaneTicks
  <2> QED
    BY <1>4, <2>1 DEF Runners, OrderedKinds, Serial
<1>8. Places'
  <2>1. Pending \subseteq Events
    BY OnlyPublished
  <2>2. \A e \in Pending \cup (Events \ Published) : started'[e] = 0
    BY <1>2, <1>6, <2>1 DEF Places
  <2> QED
    BY <1>5, <2>2 DEF Places
<1>9. Runners'
  <2>1. Handling' \subseteq Handling \cup {x}
    BY <1>2, <1>5, OnlyPublished DEF Handling
  <2> QED
    BY <1>5, <1>7, <2>1 DEF Runners
<1>10. Ticks'
  <2>1. ASSUME NEW k \in Keys, NEW i \in 1..Len(lanes[k]), NEW j \in 1..Len(lanes[k]), i < j
        PROVE  lanes[k][j] # x
    <3>1. 1 \in 1..Len(lanes[k]) /\ 1 < j /\ lanes[k] # <<>>
      BY <1>3, <2>1, SetOfSeq, EmptySeq
    <3>2. lanes[k][1] < lanes[k][j] /\ lanes[k][1] \in Nat /\ lanes[k][j] \in Nat
      BY <1>3, <2>1, <3>1, ElementOfSeq DEF Ticks, Published
    <3>3. lanes[k][j] \in InLane(k)
      BY <1>3, <2>1, SetOfSeq DEF InLane
    <3>4. Kind(lanes[k][j]) = "TICK" /\ sent[lanes[k][j]].key = k
      BY <3>3, LaneTicks
    <3>5. CASE x \in tasks
      BY <3>4, <3>5 DEF Runners
    <3>6. CASE \E m \in Keys : lanes[m] # <<>> /\ x = Head(lanes[m])
      <4>1. PICK m \in Keys : lanes[m] # <<>> /\ x = Head(lanes[m])
        BY <3>6
      <4>2. sent[x].key = m
        BY <1>4, <4>1, LaneTicks
      <4>3. CASE m = k
        BY <1>4, <3>2, <4>1, <4>3
      <4>4. CASE m # k
        BY <3>4, <4>2, <4>4
      <4> QED
        BY <4>3, <4>4
    <3> QED
      BY <3>5, <3>6
  <2>2. \A k \in Keys : \A i \in 1..Len(lanes[k]) : lanes[k][i] \in Events
    BY <1>3, ElementOfSeq, OnlyPublished
  <2>3. \A k \in Keys : \A i, j \in 1..Len(lanes[k]) :
          i < j => lanes[k][i] < lanes[k][j] /\ started'[lanes[k][j]] = 0
    BY <1>2, <2>1, <2>2 DEF Ticks
  <2>4. \A e \in Published' : Kind(e)' = "TICK" =>
          e \in finished' \cup Pending' \cup InLane(sent[e].key)'
    BY <1>5 DEF Ticks, InLane
  <2> QED
    BY <1>5, <2>3, <2>4 DEF Ticks
<1> QED
  BY <1>8, <1>9, <1>10

\* The consumer takes the first event of the queue, and wakes the first publisher in line.
LEMMA TakeKeeps ==
  ASSUME TypeOK, Places, Runners, Ticks, Take
  PROVE  Places' /\ Runners' /\ Ticks'
<1>1. queue \in Seq(Published) /\ queue # <<>> /\ putters \in Seq(Published)
      /\ \A k \in Keys : lanes[k] \in Seq(Published)
  BY DEF TypeOK, Take
<1>h. PICK h \in Published : h = Head(queue)
  BY <1>1, HeadTailProperties
<1>2. /\ queue' = Tail(queue) /\ Dispatch(h) /\ consumer.pc = "get"
      /\ putters' = IF putters = <<>> THEN <<>> ELSE Tail(putters)
      /\ woken' = IF putters = <<>> THEN woken ELSE woken \cup {Head(putters)}
      /\ UNCHANGED <<sent, finished, dropped>>
  BY <1>h DEF Take
<1>3. /\ ToSet(queue) = {h} \cup ToSet(queue') /\ h \notin ToSet(queue') /\ h \in ToSet(queue)
      /\ IsInjective(queue')
  BY <1>1, <1>h, <1>2, SetOfTail DEF Places
<1>4. h \in Pending /\ h \notin Waiters /\ h \notin Assigned /\ h \notin dropped
      /\ started[h] = 0
  BY <1>3 DEF Pending, Places
<1>5. Waiters' = Waiters /\ IsInjective(putters') /\ woken' \cap ToSet(putters') = {}
  <2>1. CASE putters = <<>>
    BY <1>2, <2>1 DEF Places, Waiters
  <2>2. CASE putters # <<>>
    <3>1. /\ Head(putters) \in ToSet(putters)
          /\ ToSet(putters) = {Head(putters)} \cup ToSet(Tail(putters))
          /\ Head(putters) \notin ToSet(Tail(putters)) /\ IsInjective(Tail(putters))
      BY <1>1, <2>2, SetOfTail DEF Places
    <3> QED
      BY <1>2, <2>2, <3>1 DEF Places, Waiters
  <2> QED
    BY <2>1, <2>2
<1>6. Pending' = Pending \ {h}
  BY <1>3, <1>4, <1>5 DEF Pending
<1>7. /\ Published' = Published
      /\ \A e, f : SameTick(e, f)' <=> SameTick(e, f)
      /\ \A e : Kind(e)' = Kind(e)
  BY <1>2 DEF Published, SameTick, Kind
<1>8. ToSet(queue') \cap Waiters' = {}
  BY <1>3, <1>5 DEF Places
<1>9. \A e \in Handling : Kind(e) \notin OrderedKinds
  BY <1>2 DEF Runners, Handling, Published
<1>10. /\ Len(queue) \in Nat /\ Len(queue') = Len(queue) - 1 /\ h = queue[1]
       /\ \A i \in 1..Len(queue') : queue'[i] = queue[i+1]
       /\ \A i \in 1..Len(queue) : queue[i] \in ToSet(queue)
  BY <1>1, <1>2, <1>h, HeadTailProperties, SetOfSeq
<1>11. \A i, j \in 1..Len(queue') : i < j /\ SameTick(queue[i], queue[j])' => queue'[i] < queue'[j]
  <2> SUFFICES ASSUME NEW i \in 1..Len(queue'), NEW j \in 1..Len(queue'), i < j,
                      SameTick(queue[i], queue[j])'
               PROVE  queue'[i] < queue'[j]
    OBVIOUS
  <2>1. i+1 \in 1..Len(queue) /\ j+1 \in 1..Len(queue) /\ i+1 < j+1
    BY <1>10
  <2>2. SameTick(queue[i+1], queue[j+1])
    BY <1>7, <1>10
  <2> QED
    BY <1>10, <2>1, <2>2 DEF Ticks
<1>12. \A f \in Pending' : SameTick(h, f) => h < f
  <2>1. ASSUME NEW f \in ToSet(queue'), SameTick(h, f) PROVE h < f
    <3>1. queue' \in Seq(Published)
      BY <1>1, <1>2, HeadTailProperties
    <3>2. PICK i \in 1..Len(queue') : queue'[i] = f
      BY <3>1, SetOfSeq
    <3>3. 1 \in 1..Len(queue) /\ i+1 \in 1..Len(queue) /\ 1 < i+1 /\ queue[i+1] = f
      BY <1>10, <3>2
    <3> QED
      BY <1>10, <2>1, <3>3 DEF Ticks
  <2>2. ASSUME NEW f \in Waiters, SameTick(h, f) PROVE h < f
    BY <1>3, <2>2 DEF Ticks
  <2> QED
    BY <1>5, <2>1, <2>2 DEF Pending
<1>13. /\ \A e, f \in Waiters' : SameTick(e, f)' => e = f
       /\ \A e \in ToSet(queue)', f \in Waiters' : SameTick(e, f)' => e < f
  BY <1>3, <1>5, <1>7 DEF Ticks
<1>14. CASE /\ Kind(h) \in Serial /\ consumer' = [pc |-> "handle", event |-> h] /\ Start(h)
            /\ UNCHANGED <<lanes, tasks>>
  <2>1. /\ \A e \in Events : e # h => started'[e] = started[e]
        /\ Published \subseteq Events /\ Pending \subseteq Events
    BY <1>14, OnlyPublished DEF Start, TypeOK
  <2>2. Assigned' = Assigned /\ \A k \in Keys : InLane(k)' = InLane(k)
    BY <1>14 DEF Assigned, InLane
  <2>3. Places'
    <3>1. \A e \in Pending' \cup (Events \ Published) : started'[e] = 0
      BY <1>6, <2>1 DEF Places
    <3> QED
      BY <1>2, <1>3, <1>5, <1>6, <1>7, <1>8, <2>2, <3>1 DEF Places
  <2>4. Runners'
    <3>1. Handling' \subseteq Handling \cup {h}
      BY <1>2, <1>7, <2>1 DEF Handling
    <3>2. consumer'.event = h /\ consumer'.pc = "handle"
      BY <1>14
    <3>3. \A e \in Handling' : Kind(e)' \in OrderedKinds => consumer'.event = e
      BY <1>7, <1>9, <3>1, <3>2
    <3> QED
      BY <1>2, <1>7, <1>14, <2>2, <3>2, <3>3 DEF Runners
  <2>5. Ticks'
    <3>1. \A k \in Keys : \A i \in 1..Len(lanes[k]) : lanes[k][i] \in InLane(k)
      BY <1>1, SetOfSeq DEF InLane
    <3>2. \A k \in Keys : \A i \in 1..Len(lanes[k]) : lanes[k][i] # h /\ lanes[k][i] \in Events
      BY <1>4, <2>1, <3>1, OnlyPublished DEF Assigned
    <3>3. \A k \in Keys : \A i, j \in 1..Len(lanes'[k]) :
            i < j => lanes'[k][i] < lanes'[k][j] /\ started'[lanes'[k][j]] = 0
      BY <1>14, <2>1, <3>2 DEF Ticks
    <3>4. Kind(h) # "TICK"
      BY <1>14 DEF Serial
    <3>5. \A e \in Published' : Kind(e)' = "TICK" =>
            e \in finished' \cup Pending' \cup InLane(sent[e].key)'
      BY <1>2, <1>6, <1>7, <1>14, <3>4 DEF Ticks, InLane
    <3>6. \A k \in Keys : \A e \in InLane(k)', f \in Pending' : SameTick(e, f)' => e < f
      BY <1>6, <1>7, <2>2 DEF Ticks
    <3> QED
      BY <1>11, <1>13, <3>3, <3>5, <3>6 DEF Ticks
  <2> QED
    BY <2>3, <2>4, <2>5
<1>15. CASE /\ Kind(h) = "TICK" /\ lanes' = [lanes EXCEPT ![sent[h].key] = Append(@, h)]
            /\ consumer' = Next_get /\ UNCHANGED <<tasks, started>>
  <2>k. PICK c \in Keys : c = sent[h].key
    BY OnlyPublished
  <2>s. sent[h] = [kind |-> "TICK", key |-> c]
    <3>1. sent[h] \in [kind : Kinds, key : Keys] /\ sent[h].kind = "TICK" /\ sent[h].key = c
      BY <1>15, <2>k, OnlyPublished DEF Kind
    <3> QED
      BY <3>1
  <2>1. \A k \in Keys : lanes'[k] = IF k = c THEN Append(lanes[c], h) ELSE lanes[k]
    <3>1. DOMAIN lanes = Keys /\ lanes' = [lanes EXCEPT ![c] = Append(lanes[c], h)]
      BY <1>15, <2>k DEF TypeOK
    <3> QED
      BY <3>1
  <2>2. \A k \in Keys : InLane(k)' = IF k = c THEN InLane(c) \cup {h} ELSE InLane(k)
    <3>1. lanes[c] \in Seq(Published)
      BY <1>1
    <3>2. ToSet(Append(lanes[c], h)) = ToSet(lanes[c]) \cup {h}
      BY <3>1, SetOfAppend
    <3> QED
      BY <2>1, <3>2 DEF InLane
  <2>3. Assigned' = Assigned \cup {h}
    BY <1>15, <2>2 DEF Assigned
  <2>4. Places'
    BY <1>2, <1>3, <1>4, <1>5, <1>6, <1>7, <1>8, <1>15, <2>3 DEF Places
  <2>5. Runners'
    <3>1. Handling' = Handling
      BY <1>2, <1>7, <1>15 DEF Handling
    <3>2. \A k \in Keys : \A e \in InLane(k)' : sent'[e] = [kind |-> "TICK", key |-> k]
      BY <1>2, <2>2, <2>s DEF Runners
    <3>3. consumer'.pc # "handle" => consumer'.event = 0
      BY <1>15 DEF Next_get, Idle, Ended
    <3> QED
      BY <1>7, <1>9, <1>15, <3>1, <3>2, <3>3 DEF Runners
  <2>6. Ticks'
    <3>1. ASSUME NEW e \in InLane(c) PROVE e < h
      <4>1. sent[e] = sent[h] /\ Kind(e) = "TICK"
        BY <2>s, <3>1, LaneTicks DEF Runners
      <4> QED
        BY <1>4, <3>1, <4>1 DEF Ticks, SameTick
    <3>2. ASSUME NEW k \in Keys, NEW i \in 1..Len(lanes'[k]), NEW j \in 1..Len(lanes'[k]), i < j
          PROVE  lanes'[k][i] < lanes'[k][j] /\ started'[lanes'[k][j]] = 0
      <4>1. CASE k # c
        <5>1. lanes'[k] = lanes[k]
          BY <2>1, <4>1
        <5>2. i \in 1..Len(lanes[k]) /\ j \in 1..Len(lanes[k])
          BY <3>2, <5>1
        <5>3. lanes[k][i] < lanes[k][j] /\ started[lanes[k][j]] = 0
          BY <3>2, <5>2 DEF Ticks
        <5> QED
          BY <1>15, <5>1, <5>3
      <4>2. CASE k = c
        <5>1. /\ Len(lanes'[c]) = Len(lanes[c]) + 1 /\ Len(lanes[c]) \in Nat
              /\ lanes'[c][Len(lanes[c]) + 1] = h
              /\ \A m \in 1..Len(lanes[c]) : lanes'[c][m] = lanes[c][m] /\ lanes[c][m] \in InLane(c)
          <6>1. lanes'[c] = Append(lanes[c], h) /\ lanes[c] \in Seq(Published)
            BY <1>1, <2>1
          <6>2. \A m \in 1..Len(lanes[c]) : lanes[c][m] \in InLane(c)
            BY <6>1, SetOfSeq DEF InLane
          <6> QED
            BY <6>1, <6>2, AppendProperties, LenProperties
        <5>2. i \in 1..Len(lanes[c])
          BY <3>2, <4>2, <5>1
        <5>3. CASE j = Len(lanes[c]) + 1
          BY <1>4, <1>15, <3>1, <4>2, <5>1, <5>2, <5>3
        <5>4. CASE j # Len(lanes[c]) + 1
          <6>1. j \in 1..Len(lanes[c])
            BY <3>2, <4>2, <5>1, <5>4
          <6> QED
            BY <1>15, <3>2, <4>2, <5>1, <5>2, <6>1 DEF Ticks
        <5> QED
          BY <5>3, <5>4
      <4> QED
        BY <4>1, <4>2
    <3>3. \A k \in Keys : \A e \in InLane(k)', f \in Pending' : SameTick(e, f)' => e < f
      BY <1>6, <1>7, <1>12, <2>2 DEF Ticks
    <3>4. \A e \in Published' : Kind(e)' = "TICK" =>
            e \in finished' \cup Pending' \cup InLane(sent[e].key)'
      <4> SUFFICES ASSUME NEW e \in Published, Kind(e) = "TICK"
                   PROVE  e \in finished' \cup Pending' \cup InLane(sent[e].key)'
        BY <1>7
      <4>1. sent[e].key \in Keys /\ sent'[e] = sent[e]
        BY <1>2, OnlyPublished
      <4>2. e \in finished \cup Pending \cup InLane(sent[e].key)
        BY DEF Ticks
      <4>3. CASE e = h
        BY <2>2, <2>k, <4>1, <4>3 DEF InLane
      <4>4. CASE e # h
        BY <1>2, <1>6, <2>2, <4>1, <4>2, <4>4 DEF InLane
      <4> QED
        BY <4>3, <4>4
    <3> QED
      BY <1>11, <1>13, <3>2, <3>3, <3>4 DEF Ticks
  <2> QED
    BY <2>4, <2>5, <2>6
<1>16. CASE /\ Kind(h) \notin Serial \cup {"TICK"} /\ tasks' = tasks \cup {h}
            /\ consumer' = Next_get /\ UNCHANGED <<lanes, started>>
  <2>1. \A k \in Keys : InLane(k)' = InLane(k)
    BY <1>16 DEF InLane
  <2>2. Assigned' = Assigned \cup {h}
    BY <1>16, <2>1 DEF Assigned
  <2>3. Places'
    BY <1>2, <1>3, <1>4, <1>5, <1>6, <1>7, <1>8, <1>16, <2>2 DEF Places
  <2>4. Runners'
    <3>1. Handling' = Handling
      BY <1>2, <1>7, <1>16 DEF Handling
    <3>2. consumer'.pc # "handle" => consumer'.event = 0
      BY <1>16 DEF Next_get, Idle, Ended
    <3>3. \A e \in tasks' : Kind(e)' \notin OrderedKinds \cup {"TICK"}
      BY <1>7, <1>16 DEF Runners, OrderedKinds
    <3> QED
      BY <1>2, <1>7, <1>9, <2>1, <3>1, <3>2, <3>3 DEF Runners
  <2>5. Ticks'
    <3>1. \A e \in Published' : Kind(e)' = "TICK" =>
            e \in finished' \cup Pending' \cup InLane(sent[e].key)'
      BY <1>2, <1>6, <1>7, <1>16 DEF Ticks, InLane
    <3>2. \A k \in Keys : \A i, j \in 1..Len(lanes'[k]) :
            i < j => lanes'[k][i] < lanes'[k][j] /\ started'[lanes'[k][j]] = 0
      BY <1>16 DEF Ticks
    <3>3. \A k \in Keys : \A e \in InLane(k)', f \in Pending' : SameTick(e, f)' => e < f
      BY <1>6, <1>7, <2>1 DEF Ticks
    <3> QED
      BY <1>11, <1>13, <3>1, <3>2, <3>3 DEF Ticks
  <2> QED
    BY <2>3, <2>4, <2>5
<1> QED
  BY <1>2, <1>14, <1>15, <1>16 DEF Dispatch

\* Handlers that return leave the task, the lock or the consumer to the next.
LEMMA FinishKeeps ==
  ASSUME TypeOK, Places, Runners, Ticks, NEW x \in Published, Finish(x)
  PROVE  Places' /\ Runners' /\ Ticks'
<1>1. /\ x \in Handling /\ finished' = finished \cup {x} /\ tasks' = tasks \ {x}
      /\ lanes' = [k \in Keys |-> IF x \in ToSet(lanes[k]) THEN Tail(lanes[k]) ELSE lanes[k]]
      /\ consumer' = IF consumer.event = x THEN Next_get ELSE consumer
      /\ UNCHANGED <<sent, queue, putters, woken, started, dropped>>
  BY DEF Finish
<1>2. \A k \in Keys : lanes[k] \in Seq(Published) /\ Len(lanes[k]) \in Nat
  BY LenProperties DEF TypeOK
<1>3. started[x] > 0
  BY <1>1 DEF Handling
<1>4. ASSUME NEW k \in Keys, x \in InLane(k)
      PROVE  /\ lanes'[k] = Tail(lanes[k]) /\ InLane(k) = {x} \cup InLane(k)'
             /\ Len(lanes'[k]) = Len(lanes[k]) - 1
             /\ \A i \in 1..Len(lanes'[k]) : lanes'[k][i] = lanes[k][i+1]
  <2>1. PICK i \in 1..Len(lanes[k]) : lanes[k][i] = x
    BY <1>2, <1>4, SetOfSeq DEF InLane
  <2>2. lanes[k] # <<>> /\ 1 \in 1..Len(lanes[k])
    BY <1>2, <2>1, EmptySeq
  <2>3. i = 1
    BY <1>2, <1>3, <2>1, <2>2 DEF Ticks
  <2>4. Head(lanes[k]) = x
    BY <1>2, <2>1, <2>2, <2>3
  <2>5. lanes'[k] = Tail(lanes[k])
    BY <1>1, <1>4 DEF InLane
  <2>6. ToSet(lanes[k]) = {x} \cup ToSet(Tail(lanes[k]))
    BY <1>2, <2>2, <2>4, SetOfTail
  <2> QED
    BY <1>2, <2>2, <2>5, <2>6, HeadTailProperties DEF InLane
<1>5. ASSUME NEW k \in Keys, x \notin InLane(k) PROVE lanes'[k] = lanes[k] /\ InLane(k)' = InLane(k)
  BY <1>1, <1>5 DEF InLane
<1>6. \A k \in Keys : InLane(k)' \subseteq InLane(k) /\ InLane(k) \subseteq InLane(k)' \cup {x}
  BY <1>4, <1>5
<1>7. Assigned' \subseteq Assigned
  BY <1>1, <1>6 DEF Assigned
<1>8. /\ Published' = Published /\ Pending' = Pending /\ Waiters' = Waiters
      /\ \A e, f : SameTick(e, f)' <=> SameTick(e, f)
      /\ \A e : Kind(e)' = Kind(e)
  BY <1>1 DEF Published, SameTick, Kind, Pending, Waiters
<1>9. Places'
  BY <1>1, <1>7, <1>8 DEF Places
<1>10. Runners'
  <2>1. Handling' = Handling \ {x}
    BY <1>1, <1>8 DEF Handling
  <2>2. \A e \in Handling' : Kind(e)' \in OrderedKinds => consumer'.event = e
    BY <1>1, <1>8, <2>1 DEF Runners
  <2>3. consumer'.pc # "handle" => consumer'.event = 0
    BY <1>1 DEF Next_get, Idle, Ended, Runners
  <2>4. \A k \in Keys : \A e \in InLane(k)' : sent'[e] = [kind |-> "TICK", key |-> k]
    BY <1>1, <1>6 DEF Runners
  <2> QED
    BY <1>1, <1>8, <2>2, <2>3, <2>4 DEF Runners
<1>11. Ticks'
  <2>1. ASSUME NEW k \in Keys, NEW i \in 1..Len(lanes'[k]), NEW j \in 1..Len(lanes'[k]), i < j
        PROVE  lanes'[k][i] < lanes'[k][j] /\ started'[lanes'[k][j]] = 0
    <3>1. CASE x \in InLane(k)
      <4>1. i+1 \in 1..Len(lanes[k]) /\ j+1 \in 1..Len(lanes[k]) /\ i+1 < j+1
        BY <1>2, <1>4, <2>1, <3>1
      <4>2. lanes'[k][i] = lanes[k][i+1] /\ lanes'[k][j] = lanes[k][j+1]
        BY <1>4, <2>1, <3>1
      <4>3. lanes[k][i+1] < lanes[k][j+1] /\ started[lanes[k][j+1]] = 0
        BY <4>1 DEF Ticks
      <4> QED
        BY <1>1, <4>2, <4>3
    <3>2. CASE x \notin InLane(k)
      <4>1. lanes'[k] = lanes[k] /\ started' = started
        BY <1>1, <1>5, <3>2
      <4>2. i \in 1..Len(lanes[k]) /\ j \in 1..Len(lanes[k])
        BY <2>1, <4>1
      <4>3. lanes[k][i] < lanes[k][j] /\ started[lanes[k][j]] = 0
        BY <2>1, <4>2 DEF Ticks
      <4> QED
        BY <4>1, <4>3
    <3> QED
      BY <3>1, <3>2
  <2>2. \A k \in Keys : \A e \in InLane(k)', f \in Pending' : SameTick(e, f)' => e < f
    BY <1>6, <1>8 DEF Ticks
  <2>3. \A e \in Published' : Kind(e)' = "TICK" =>
          e \in finished' \cup Pending' \cup InLane(sent[e].key)'
    <3> SUFFICES ASSUME NEW e \in Published, Kind(e) = "TICK"
                 PROVE  e \in finished' \cup Pending' \cup InLane(sent[e].key)'
      BY <1>8
    <3>1. PICK k \in Keys : k = sent[e].key /\ k = sent'[e].key
      BY <1>1, OnlyPublished
    <3>2. e \in finished \cup Pending \cup InLane(k)
      BY <3>1 DEF Ticks
    <3>3. e \in finished' \cup Pending' \cup InLane(k)'
      BY <1>1, <1>6, <1>8, <3>2
    <3> QED
      BY <3>1, <3>3 DEF InLane
  <2>4. /\ \A i, j \in 1..Len(queue') : i < j /\ SameTick(queue[i], queue[j])' => queue'[i] < queue'[j]
        /\ \A e, f \in Waiters' : SameTick(e, f)' => e = f
        /\ \A e \in ToSet(queue)', f \in Waiters' : SameTick(e, f)' => e < f
    BY <1>1, <1>8 DEF Ticks
  <2> QED
    BY <2>1, <2>2, <2>3, <2>4 DEF Ticks
<1> QED
  BY <1>9, <1>10, <1>11

(***************************************************************************)
(* The inductive invariant holds.                                          *)
(***************************************************************************)
LEMMA InitInv == Init => IInv
<1> SUFFICES ASSUME Init PROVE IInv
  OBVIOUS
<1>1. sent = <<>> /\ Len(sent) = 0 /\ Published = {}
  BY EmptySeq DEF Init, Published
<1>2. Waiters = {} /\ Pending = {} /\ \A k \in Keys : InLane(k) = {}
  BY SetOfEmpty DEF Init, Waiters, Pending, InLane
<1>3. Assigned = {}
  BY <1>2 DEF Assigned, Init
<1>4. TypeOK
  <2>1. sent \in Seq([kind : Kinds, key : Keys]) /\ queue \in Seq(Published)
        /\ putters \in Seq(Published) /\ Len(queue) = 0
        /\ lanes \in [Keys -> Seq(Published)]
    BY EmptySeq DEF Init
  <2> QED
    BY <1>1, <2>1, BusAssumption DEF Init, TypeOK, Idle
<1>5. Places
  BY <1>2, <1>3, SetOfEmpty DEF Init, Places
<1>6. Runners
  BY <1>1, <1>2 DEF Init, Runners, Handling, Idle
<1>7. Ticks
  <2>1. Len(queue) = 0 /\ \A k \in Keys : Len(lanes[k]) = 0
    BY EmptySeq DEF Init
  <2> QED
    BY <1>1, <1>2, <2>1, SetOfEmpty DEF Init, Ticks
<1> QED
  BY <1>4, <1>5, <1>6, <1>7 DEF IInv

\* Every step keeps the invariant.
LEMMA NextInv == IInv /\ [Next]_vars => IInv'
<1> SUFFICES ASSUME IInv, [Next]_vars PROVE IInv'
  OBVIOUS
<1> USE DEF IInv
<1>t. TypeOK'
  BY TypeStep
<1>k. Awaited \subseteq Kinds /\ Unawaited \subseteq Kinds /\ "STOP_LOSS" \in Kinds
      /\ "TICK" \notin Unawaited
      /\ \A kind \in DOMAIN Reports : Reports[kind] \in Kinds /\ Reports[kind] # "TICK"
  BY DEF Kinds, Awaited, Unawaited, Critical, Serial, Reports
<1>1. ASSUME NEW key \in Keys, NEW kind \in Awaited, Source(kind, key) PROVE IInv'
  <2>1. \A e \in Waiters : sent[e] # [kind |-> kind, key |-> key]
    BY <1>1 DEF Source, Waiters
  <2> QED
    BY <1>1, <1>t, <1>k, <2>1, PublishKeeps DEF Source
<1>2. ASSUME NEW key \in Keys, NEW kind \in Unawaited, Notice(kind, key) PROVE IInv'
  BY <1>2, <1>t, <1>k, PublishKeeps DEF Notice
<1>3. ASSUME NEW e \in Published, Report(e) PROVE IInv'
  <2>1. sent[e].key \in Keys
    BY OnlyPublished
  <2>2. PICK kind \in Kinds : kind # "TICK" /\ (Publish(kind, sent[e].key) \/ PublishNowait(kind, sent[e].key))
    BY <1>3, <1>k DEF Report
  <2>3. UNCHANGED <<consumer, lanes, started, finished>>
    BY <1>3 DEF Report
  <2> QED
    BY <1>t, <2>1, <2>2, <2>3, PublishKeeps
<1>4. ASSUME NEW e \in Published, Retry(e) PROVE IInv'
  BY <1>4, <1>t, RetryKeeps
<1>5. CASE Take
  BY <1>5, <1>t, TakeKeeps
<1>6. ASSUME NEW e \in Published, StartTask(e) PROVE IInv'
  BY <1>6, <1>t, StartKeeps DEF StartTask
<1>7. ASSUME NEW k \in Keys, StartTick(k) PROVE IInv'
  <2>1. lanes[k] \in Seq(Published) /\ lanes[k] # <<>>
    BY <1>7 DEF StartTick, TypeOK
  <2>2. Head(lanes[k]) \in Published
    BY <2>1, HeadTailProperties
  <2> QED
    BY <1>7, <1>t, <2>1, <2>2, StartKeeps DEF StartTick
<1>8. ASSUME NEW e \in Published, Finish(e) PROVE IInv'
  BY <1>8, <1>t, FinishKeeps
<1>9. CASE Stop \/ TimeOut \/ UNCHANGED vars
  <2>1. /\ UNCHANGED <<sent, queue, putters, woken, lanes, tasks, started, finished, dropped>>
        /\ UNCHANGED consumer \/ (consumer' = Ended /\ consumer.pc = "get")
    <3>1. CASE Stop
      BY <3>1 DEF Stop
    <3>2. CASE TimeOut
      BY <3>2 DEF TimeOut
    <3>3. CASE UNCHANGED vars
      BY <3>3 DEF vars
    <3> QED
      BY <1>9, <3>1, <3>2, <3>3
  <2>2. /\ Published' = Published /\ Pending' = Pending /\ Waiters' = Waiters
        /\ Assigned' = Assigned /\ Handling' = Handling
        /\ \A k \in Keys : InLane(k)' = InLane(k)
        /\ \A e, f : SameTick(e, f)' <=> SameTick(e, f)
        /\ \A e : Kind(e)' = Kind(e)
    BY <2>1 DEF Published, SameTick, Kind, Pending, Waiters, Assigned, InLane, Handling
  <2>3. Places'
    BY <2>1, <2>2 DEF Places
  <2>4. Runners'
    BY <2>1, <2>2 DEF Runners, Ended, Handling, Published
  <2>5. Ticks'
    BY <2>1, <2>2 DEF Ticks, InLane
  <2> QED
    BY <1>t, <2>3, <2>4, <2>5
<1> QED
  BY <1>1, <1>2, <1>3, <1>4, <1>5, <1>6, <1>7, <1>8, <1>9 DEF Next, Work

\* So the invariant holds in every execution.
LEMMA Invariance == Spec => []IInv
BY InitInv, NextInv, PTL DEF Spec

(***************************************************************************)
(* The theorems.                                                           *)
(***************************************************************************)
\* The variables keep their types; the queue never outgrows its capacity.
THEOREM TypeCorrect == Spec => []TypeOK
BY Invariance, PTL DEF IInv

\* At most one of the signals, fills and closes is being handled: the consumer is at it.
THEOREM SerialAlone == Spec => []OneAtATime
<1>1. IInv => OneAtATime
  <2> SUFFICES ASSUME IInv PROVE OneAtATime
    OBVIOUS
  <2> DEFINE Busy == {e \in Handling : Kind(e) \in OrderedKinds}
  <2>1. Busy \subseteq {consumer.event}
    BY DEF IInv, Runners
  <2>2. IsFiniteSet({consumer.event}) /\ Cardinality({consumer.event}) = 1
    BY FS_Singleton
  <2>3. Cardinality(Busy) <= 1
    BY <2>1, <2>2, FS_Subset
  <2> QED
    BY <2>3 DEF OneAtATime
<1> QED
  BY <1>1, Invariance, PTL

\* Ticks of a symbol are handled one after the other, in the order of their publication,
\* whichever publishers had to wait for room in between.
THEOREM TicksOrdered == Spec => TicksInOrder
<1>1. IInv /\ [Next]_vars =>
        [\A e \in Published : started'[e] > started[e] /\ Kind(e) = "TICK" =>
           \A f \in 1..(e - 1) : sent[f] = sent[e] => f \in finished]_vars
  <2> SUFFICES ASSUME IInv, Next, NEW e \in Published, started'[e] > started[e],
                      Kind(e) = "TICK", NEW f \in 1..(e - 1), sent[f] = sent[e]
               PROVE  f \in finished
    OBVIOUS
  <2> USE DEF IInv
  <2>1. /\ started \in [Events -> Nat] /\ e \in Events /\ e \in Nat /\ f \in Published
        /\ \A k \in Keys : lanes[k] \in Seq(Published)
    <3>1. e \in Events /\ e \in Nat /\ f \in Published
      BY OnlyPublished DEF Published
    <3> QED
      BY <3>1 DEF TypeOK
  <2>2. \A x \in Published : Start(x) => x = e
    BY <2>1, OnlyPublished DEF Start
  <2>3. PICK k \in Keys : lanes[k] # <<>> /\ e = Head(lanes[k])
    <3>1. started' # started
      BY <2>1
    <3>2. CASE Take
      <4>1. queue \in Seq(Published) /\ queue # <<>>
        BY <3>2 DEF Take, TypeOK
      <4>2. Head(queue) \in Published
        BY <4>1, HeadTailProperties
      <4>3. Kind(Head(queue)) \in Serial /\ Start(Head(queue))
        BY <3>1, <3>2 DEF Take, Dispatch
      <4> QED
        BY <2>2, <4>2, <4>3 DEF Serial
    <3>3. ASSUME NEW x \in Published, StartTask(x) PROVE FALSE
      BY <2>2, <3>3 DEF StartTask, Runners
    <3>4. ASSUME NEW k \in Keys, StartTick(k) PROVE lanes[k] # <<>> /\ e = Head(lanes[k])
      BY <2>1, <2>2, <3>4, HeadTailProperties DEF StartTick
    <3>5. \/ Take \/ \E x \in Published : StartTask(x)
          \/ \E k \in Keys : StartTick(k)
      BY <3>1 DEF Next, Work, TimeOut, Stop, Retry, Finish, Report, Source, Notice
    <3> QED
      BY <3>2, <3>3, <3>4, <3>5
  <2>4. e \in InLane(k) /\ e = lanes[k][1]
    BY <2>1, <2>3, SetOfTail DEF InLane
  <2>5. sent[e].key = k /\ Kind(f) = "TICK" /\ SameTick(e, f) /\ sent[f].key = k
    BY <2>4, LaneTicks DEF SameTick, Kind
  <2>6. f \in finished \cup Pending \cup InLane(k)
    BY <2>1, <2>5 DEF Ticks
  <2>7. f \notin Pending
    BY <2>1, <2>4, <2>5 DEF Ticks
  <2>8. f \notin InLane(k)
    <3> SUFFICES ASSUME f \in InLane(k) PROVE FALSE
      OBVIOUS
    <3>1. PICK i \in 1..Len(lanes[k]) : lanes[k][i] = f
      BY <2>1, SetOfSeq DEF InLane
    <3>2. 1 \in 1..Len(lanes[k]) /\ i \in Nat
      BY <3>1
    <3>3. CASE i = 1
      BY <2>1, <2>4, <3>1, <3>3
    <3>4. CASE i # 1
      BY <2>1, <2>4, <3>1, <3>2, <3>4 DEF Ticks
    <3> QED
      BY <3>3, <3>4
  <2> QED
    BY <2>6, <2>7, <2>8
<1> QED
  BY <1>1, Invariance, PTL DEF Spec, TicksInOrder

(***************************************************************************)
(* The bus implements EventDelivery.                                       *)
(***************************************************************************)
\* Publishing, waiting for room or not, is a sending that loses no critical event.
LEMMA PublishSends ==
  ASSUME NEW kind \in Kinds, NEW key \in Keys,
         Publish(kind, key) \/ PublishNowait(kind, key), UNCHANGED started
  PROVE  Delivery!Next
<1> DEFINE event == [kind |-> kind, key |-> key]
<1>1. event \in [kind : Kinds, key : Keys] /\ event.kind = kind
  OBVIOUS
<1>2. Len(sent) < MaxEvents /\ sent' = Append(sent, event)
  BY DEF Publish, PublishNowait, Stamp
<1>3. \/ dropped' = dropped
      \/ dropped' = dropped \cup {Len(sent) + 1} /\ kind \notin Critical
  BY DEF Publish, PublishNowait
<1> HIDE DEF event
<1>4. CASE dropped' = dropped
  <2>1. Delivery!Send(event, FALSE)
    BY <1>2, <1>4 DEF Delivery!Send
  <2> QED
    BY <1>1, <2>1 DEF Delivery!Next
<1>5. CASE dropped' = dropped \cup {Len(sent) + 1} /\ kind \notin Critical
  <2>1. Delivery!Send(event, TRUE)
    BY <1>1, <1>2, <1>5 DEF Delivery!Send
  <2> QED
    BY <1>1, <2>1 DEF Delivery!Next
<1> QED
  BY <1>3, <1>4, <1>5

\* Starting the handlers of an event that was neither started nor dropped is a handling.
LEMMA StartHandles ==
  ASSUME TypeOK, NEW e \in Published, Start(e), started[e] = 0, e \notin dropped,
         UNCHANGED <<sent, dropped>>
  PROVE  Delivery!Next
<1>1. started' = [started EXCEPT ![e] = 1]
  BY OnlyPublished DEF Start, TypeOK
<1>2. Delivery!Handle(e)
  BY <1>1 DEF Delivery!Handle
<1> QED
  BY <1>2 DEF Delivery!Next, Published

\* The bus delivers what EventDelivery promises: the handlers of an event are started at
\* most once, and no critical event is dropped.
THEOREM Delivers == Spec => DeliverySpec
<1>1. Init => Delivery!Init
  BY DEF Init, Delivery!Init, Events
<1>2. IInv /\ [Next]_vars => [Delivery!Next]_(Delivery!dvars)
  <2> SUFFICES ASSUME IInv, [Next]_vars
               PROVE  Delivery!Next \/ UNCHANGED <<sent, started, dropped>>
    BY DEF Delivery!dvars
  <2> USE DEF IInv
  <2>k. Awaited \subseteq Kinds /\ Unawaited \subseteq Kinds /\ "STOP_LOSS" \in Kinds
        /\ \A kind \in DOMAIN Reports : Reports[kind] \in Kinds
    BY DEF Kinds, Awaited, Unawaited, Critical, Serial, Reports
  <2>1. ASSUME NEW key \in Keys, NEW kind \in Awaited \cup Unawaited,
               Source(kind, key) \/ Notice(kind, key)
        PROVE  Delivery!Next
    BY <2>1, <2>k, PublishSends DEF Source, Notice
  <2>2. ASSUME NEW e \in Published, Report(e) PROVE Delivery!Next
    <3>1. sent[e].key \in Keys
      BY OnlyPublished
    <3>2. PICK kind \in Kinds : Publish(kind, sent[e].key) \/ PublishNowait(kind, sent[e].key)
      BY <2>2, <2>k DEF Report
    <3> QED
      BY <2>2, <3>1, <3>2, PublishSends DEF Report
  <2>3. CASE Take
    <3>1. queue \in Seq(Published) /\ queue # <<>>
      BY <2>3 DEF Take, TypeOK
    <3>2. Head(queue) \in Published /\ Head(queue) \in Pending
      BY <3>1, HeadTailProperties, SetOfTail DEF Pending
    <3>3. started[Head(queue)] = 0 /\ Head(queue) \notin dropped
      BY <3>2 DEF Places
    <3>4. UNCHANGED <<sent, dropped>> /\ (Start(Head(queue)) \/ UNCHANGED started)
      BY <2>3 DEF Take, Dispatch
    <3> QED
      BY <3>2, <3>3, <3>4, StartHandles
  <2>4. ASSUME NEW e \in Published, StartTask(e) PROVE Delivery!Next
    <3>1. e \notin dropped
      BY <2>4 DEF StartTask, Places, Assigned
    <3> QED
      BY <2>4, <3>1, StartHandles DEF StartTask
  <2>5. ASSUME NEW k \in Keys, StartTick(k) PROVE Delivery!Next
    <3>1. lanes[k] \in Seq(Published) /\ lanes[k] # <<>>
      BY <2>5 DEF StartTick, TypeOK
    <3>2. Head(lanes[k]) \in Published /\ Head(lanes[k]) \in InLane(k)
      BY <3>1, HeadTailProperties, SetOfTail DEF InLane
    <3>3. Head(lanes[k]) \notin dropped
      BY <3>2 DEF Places, Assigned
    <3> QED
      BY <2>5, <3>2, <3>3, StartHandles DEF StartTick
  <2>6. ASSUME \/ Stop \/ TimeOut \/ UNCHANGED vars
               \/ \E e \in Published : Retry(e) \/ Finish(e)
        PROVE  UNCHANGED <<sent, started, dropped>>
    BY <2>6 DEF Stop, TimeOut, vars, Retry, Finish
  <2> QED
    BY <2>1, <2>2, <2>3, <2>4, <2>5, <2>6 DEF Next, Work
<1> QED
  BY <1>1, <1>2, Invariance, PTL DEF Spec, DeliverySpec, Delivery!Spec
=============================================================================
