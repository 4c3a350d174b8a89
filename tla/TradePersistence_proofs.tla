------------------------ MODULE TradePersistence_proofs ------------------------
(***************************************************************************)
(* Theorems about TradePersistence, for any orders, any number of          *)
(* redeliveries, outages and replays, and any choice of environments.      *)
(***************************************************************************)
EXTENDS TradePersistence, SequenceSets

(***************************************************************************)
(* The inductive invariant.                                                *)
(***************************************************************************)
\* The database stays while the file is replayed, and the file keeps what it is given.
Steady == may \cap {"hard", "restart", "disk"} = {}

\* Nothing is replayed either.
Unreplayed == may \cap {"replay", "restart", "disk"} = {}

\* The user stream at most repeats itself; the book may be emptied or taken over.
Undisturbed == may \subseteq {"stream", "again", "kill", "manual"}

Confirmed(o) == "done" \in streamed[o] /\ WasFilled(o)
Reported(o) == streamed[o] # {} \/ o \in told

\* A replay holds every fill of the file that it has not yet brought to the table: it may
\* remove the file when it ends.
FillsReplayed ==
  \A lines \in ToSet(replay) : \A w \in wal : w.kind = "fill" => w.id \in fills \/ w \in lines

FillsInv == Steady => (Replaying => up) /\ FillsReplayed

\* Without calls of replay_wal nothing leaves the file.
OrdersInv == Unreplayed => ~Replaying

\* One trade at a time, and no report of its end before it ended; when it is closed the
\* executor told of it or it left unreported, unless overtaken; beside the operator's
\* position none is tracked.
AtWork(o) == trade[o] \in {"working", "open"}
Trades ==
  /\ \A o, p \in Orders : AtWork(o) /\ AtWork(p) => o = p
  /\ \A o \in Orders : trade[o] \in {"none", "working"} => "done" \notin streamed[o] /\ o \notin told
  /\ Undisturbed => \A o \in Orders : trade[o] = "closed" => o \in told \cup left
  /\ hand => \A o \in Orders : trade[o] # "open" /\ (trade[o] = "working" => o \in left)

\* The positions of the line where the row of the symbol is written.
OpenAt(i) == i \in 1..Len(line) /\ line[i].kind = "open"
CloseAt(i) == i \in 1..Len(line) /\ line[i].kind = "close"
ClosedAfter(i) == \E k \in Nat : CloseAt(k) /\ k > i

Held(o) == o \in told /\ trade[o] = "open"
RowOf(o) == o \in told /\ HasRow(o)

\* An opening that no closing follows is of a position whose row is due, and so is the
\* row when no closing is in the line; a position held has one or the other.
LineRows ==
  /\ \A i \in Nat : OpenAt(i) =>
       ClosedAfter(i) \/ \E o \in Orders : RowOf(o) /\ line[i].id = way[o]
  /\ row # "none" => ClosedAfter(0) \/ \E o \in Orders : RowOf(o) /\ row = way[o]
  /\ \A o \in Orders : Held(o) =>
       \/ row # "none" /\ ~ClosedAfter(0)
       \/ \E i \in Nat : OpenAt(i) /\ ~ClosedAfter(i)

RowInv == Undisturbed => up /\ ~Replaying /\ LineRows

IInv ==
  /\ TypeOK /\ FillsInv /\ FillKept /\ OrdersInv /\ OrderKept
  /\ Trades /\ RowInv

(***************************************************************************)
(* Writes.                                                                 *)
(***************************************************************************)
\* What each kind of write names.
LEMMA WriteKinds ==
  ASSUME NEW x \in Writes
  PROVE  /\ x.kind \in {"order", "fill", "open", "close"}
         /\ x.kind = "order" => x.id \in Orders /\ x.status \in Statuses
         /\ x.kind = "fill" => x.id \in Orders
         /\ x.kind = "open" => x.id \in Directions
<1>1. CASE x = CloseWrite
  BY <1>1 DEF CloseWrite
<1>2. CASE \E d \in Directions : x = OpenWrite(d)
  BY <1>2 DEF OpenWrite
<1>3. CASE \E o \in Orders : x = FillWrite(o)
  BY <1>3 DEF FillWrite
<1>4. CASE \E o \in Orders, named \in BOOLEAN, s \in Statuses : x = OrderWrite(o, named, s)
  BY <1>4 DEF OrderWrite
<1> QED
  BY <1>1, <1>2, <1>3, <1>4 DEF Writes

\* The handlers make writes.
LEMMA OrderWritesMade ==
  \A o \in Orders, s \in Statuses :
    OrderWrite(o, TRUE, s) \in OrderWrites /\ OrderWrite(o, FALSE, s) \in OrderWrites
<1>1. \A o \in Orders, named \in BOOLEAN, s \in Statuses : OrderWrite(o, named, s) \in Writes
  BY DEF Writes
<1>2. \A o, named, s : OrderWrite(o, named, s).kind = "order"
  BY DEF OrderWrite
<1>3. \A o \in Orders, named \in BOOLEAN, s \in Statuses : OrderWrite(o, named, s) \in OrderWrites
  BY <1>1, <1>2 DEF OrderWrites
<1>4. TRUE \in BOOLEAN /\ FALSE \in BOOLEAN
  OBVIOUS
<1> QED
  BY <1>3, <1>4, Zenon

\* The writes that the handlers make.
LEMMA WritesMade ==
  /\ \A o \in Orders : FillWrite(o) \in Writes /\ FillWrite(o).kind = "fill" /\ FillWrite(o).id = o
  /\ \A d \in Directions : OpenWrite(d) \in Writes /\ OpenWrite(d).kind = "open" /\ OpenWrite(d).id = d
  /\ CloseWrite \in Writes /\ CloseWrite.kind = "close"
<1>1. \A o \in Orders : FillWrite(o) \in Writes
  BY DEF Writes
<1>2. \A o : FillWrite(o).kind = "fill" /\ FillWrite(o).id = o
  BY DEF FillWrite
<1>3. \A d \in Directions : OpenWrite(d) \in Writes
  BY DEF Writes
<1>4. \A d : OpenWrite(d).kind = "open" /\ OpenWrite(d).id = d
  BY DEF OpenWrite
<1>5. CloseWrite \in Writes
  BY DEF Writes
<1>6. CloseWrite.kind = "close"
  BY DEF CloseWrite
<1> QED
  BY <1>1, <1>2, <1>3, <1>4, <1>5, <1>6

\* A statement of the database keeps the types of the tables.
LEMMA CommitType ==
  ASSUME TypeOK, NEW x \in Writes, Commit(x)
  PROVE  /\ orders' \in [Orders -> Statuses \cup {"absent"}] /\ unnamed' \in Orders \cup {"none"}
         /\ fills' \subseteq Orders /\ row' \in Directions \cup {"none"}
<1>1. /\ x.kind \in {"order", "fill", "open", "close"}
      /\ x.kind = "order" => x.id \in Orders /\ x.status \in Statuses
      /\ x.kind = "fill" => x.id \in Orders
      /\ x.kind = "open" => x.id \in Directions
  BY WriteKinds
<1>2. /\ orders \in [Orders -> Statuses \cup {"absent"}] /\ unnamed \in Orders \cup {"none"}
      /\ fills \subseteq Orders /\ row \in Directions \cup {"none"}
  BY DEF TypeOK
<1>3. orders' = IF x.kind = "order" THEN [orders EXCEPT ![x.id] = x.status] ELSE orders
  BY DEF Commit
<1>4. orders' \in [Orders -> Statuses \cup {"absent"}]
  BY <1>1, <1>2, <1>3
<1>5. unnamed' \in Orders \cup {"none"}
  BY <1>1, <1>2 DEF Commit
<1>6. fills' \subseteq Orders
  BY <1>1, <1>2 DEF Commit
<1>7. row' \in Directions \cup {"none"}
  BY <1>1, <1>2 DEF Commit
<1> QED
  BY <1>4, <1>5, <1>6, <1>7

\* A persist call changes the tables and the file, and the file gets nothing but the write.
LEMMA WriteType ==
  ASSUME TypeOK, NEW x \in Writes, Write(x)
  PROVE  /\ orders' \in [Orders -> Statuses \cup {"absent"}] /\ unnamed' \in Orders \cup {"none"}
         /\ fills' \subseteq Orders /\ row' \in Directions \cup {"none"}
         /\ wal' \subseteq KeptWrites /\ wal \subseteq wal' /\ wal' \subseteq wal \cup {x}
         /\ faults' \in 0..MaxFaults
<1>1. /\ orders \in [Orders -> Statuses \cup {"absent"}] /\ unnamed \in Orders \cup {"none"}
      /\ fills \subseteq Orders /\ row \in Directions \cup {"none"}
      /\ wal \subseteq KeptWrites /\ faults \in 0..MaxFaults
  BY DEF TypeOK
<1>2. ASSUME MayFail PROVE faults' \in 0..MaxFaults
  BY <1>1, <1>2, PersistenceAssumption DEF MayFail
<1>3. Buffer(x) \subseteq KeptWrites /\ Buffer(x) \subseteq {x}
  BY DEF Buffer, KeptWrites
<1>4. ASSUME Keep(x)
      PROVE  wal' \subseteq KeptWrites /\ wal \subseteq wal' /\ wal' \subseteq wal \cup {x}
  BY <1>1, <1>3, <1>4 DEF Keep
<1>5. CASE up /\ ~Violates(x) /\ Commit(x) /\ UNCHANGED <<wal, faults>>
  BY <1>1, <1>5, CommitType
<1>6. CASE (~up \/ Violates(x)) /\ Keep(x) /\ UNCHANGED <<tables, faults>>
  BY <1>1, <1>4, <1>6 DEF tables
<1>7. CASE up /\ ~Violates(x) /\ MayFail /\ Commit(x) /\ Keep(x)
  BY <1>2, <1>4, <1>7, CommitType
<1> QED
  BY <1>5, <1>6, <1>7 DEF Write

(***************************************************************************)
(* Types.                                                                  *)
(***************************************************************************)
LEMMA TypeInit == Init => TypeOK
<1> SUFFICES ASSUME Init PROVE TypeOK
  OBVIOUS
<1>1. line \in Seq(Writes) /\ replay \in Seq(SUBSET KeptWrites) /\ Len(replay) <= 1
  BY EmptySeq DEF Init
<1>2. 0 \in 0..MaxRepeats /\ 0 \in 0..MaxFaults /\ 0 \in 0..MaxReplays
  BY PersistenceAssumption
<1> QED
  BY <1>1, <1>2 DEF Init, TypeOK

\* What is written next is a write.
LEMMA HeadOfLine ==
  ASSUME TypeOK, line # <<>>
  PROVE  Head(line) \in Writes /\ Tail(line) \in Seq(Writes) /\ Head(line) = line[1]
<1>1. line \in Seq(Writes)
  BY DEF TypeOK
<1> QED
  BY <1>1, HeadTailProperties

\* What a replay has still to do.
LEMMA ReplayedLines ==
  ASSUME TypeOK, NEW lines \in ToSet(replay)
  PROVE  lines \subseteq KeptWrites /\ lines \subseteq Writes /\ replay = <<lines>> /\ Replaying
<1>1. replay \in Seq(SUBSET KeptWrites) /\ Len(replay) <= 1
  BY DEF TypeOK
<1>2. PICK i \in 1..Len(replay) : replay[i] = lines
  BY <1>1, SetOfSeq
<1>3. Len(replay) \in Nat
  BY <1>1, LenProperties
<1>8. i \in 1..Len(replay) /\ Len(replay) <= 1
  BY <1>1
<1>9. \A n \in Nat : \A j \in 1..n : n <= 1 => n = 1 /\ j = 1
  OBVIOUS
<1>4. Len(replay) = 1 /\ i = 1
  BY <1>3, <1>8, <1>9
<1>5. lines \in SUBSET KeptWrites
  BY <1>1, <1>2, ElementOfSeq
<1>6. <<lines>> \in Seq(SUBSET KeptWrites) /\ Len(<<lines>>) = 1 /\ <<lines>>[1] = lines
  BY <1>5
<1>7. replay = <<lines>>
  BY <1>1, <1>2, <1>4, <1>6, SeqEqual
<1> QED
  BY <1>5, <1>6, <1>7 DEF KeptWrites, Replaying

\* A line of one write.
LEMMA SetOfOne == \A e : ToSet(<<e>>) = {e}
BY DEF ToSet

\* Two writes come to the end of the line.
LEMMA PairJoined ==
  ASSUME NEW S, NEW s \in Seq(S), NEW a \in S, NEW b \in S
  PROVE  /\ s \o <<a, b>> \in Seq(S) /\ Len(s \o <<a, b>>) = Len(s) + 2
         /\ \A i \in 1..Len(s) : (s \o <<a, b>>)[i] = s[i]
         /\ (s \o <<a, b>>)[Len(s) + 1] = a /\ (s \o <<a, b>>)[Len(s) + 2] = b
         /\ ToSet(s \o <<a, b>>) = ToSet(s) \cup {a, b}
<1>1. <<a, b>> \in Seq(S) /\ Len(<<a, b>>) = 2 /\ <<a, b>>[1] = a /\ <<a, b>>[2] = b
  OBVIOUS
<1>2. ToSet(<<a, b>>) = {a, b}
  BY <1>1 DEF ToSet
<1>3. Len(s) \in Nat
  BY LenProperties
<1>4. /\ s \o <<a, b>> \in Seq(S) /\ Len(s \o <<a, b>>) = Len(s) + 2
      /\ \A i \in 1..Len(s) + 2 :
           (s \o <<a, b>>)[i] = IF i <= Len(s) THEN s[i] ELSE <<a, b>>[i - Len(s)]
  BY <1>1, ConcatProperties
<1>5. ToSet(s \o <<a, b>>) = ToSet(s) \cup ToSet(<<a, b>>)
  <2>1. PICK t \in Seq(S) : t = <<a, b>>
    BY <1>1
  <2>2. ToSet(s \o t) = ToSet(s) \cup ToSet(t)
    BY SetOfConcat
  <2> QED
    BY <2>1, <2>2
<1> DEFINE u == s \o <<a, b>>
<1> HIDE DEF u
<1>6. /\ \A i \in 1..Len(s) : u[i] = s[i]
      /\ u[Len(s) + 1] = a /\ u[Len(s) + 2] = b
  <2>1. \A i \in 1..Len(s) + 2 : u[i] = IF i <= Len(s) THEN s[i] ELSE <<a, b>>[i - Len(s)]
    BY <1>4 DEF u
  <2>2. \A i \in 1..Len(s) : i \in 1..Len(s) + 2 /\ i <= Len(s)
    BY <1>3
  <2>3. /\ Len(s) + 1 \in 1..Len(s) + 2 /\ ~(Len(s) + 1 <= Len(s)) /\ Len(s) + 1 - Len(s) = 1
        /\ Len(s) + 2 \in 1..Len(s) + 2 /\ ~(Len(s) + 2 <= Len(s)) /\ Len(s) + 2 - Len(s) = 2
    BY <1>3
  <2>4. \A i \in 1..Len(s) : u[i] = s[i]
    BY <2>1, <2>2
  <2>5. u[Len(s) + 1] = <<a, b>>[1] /\ u[Len(s) + 2] = <<a, b>>[2]
    BY <2>1, <2>3
  <2> QED
    BY <1>1, <2>4, <2>5
<1> QED
  BY <1>2, <1>4, <1>5, <1>6 DEF u

\* A delivery of the user stream.
LEMMA DeliverType ==
  ASSUME TypeOK, NEW o \in Orders, NEW event \in {"new", "done"}, Deliver(o, event)
  PROVE  /\ streamed' \in [Orders -> SUBSET {"new", "done"}] /\ repeats' \in 0..MaxRepeats
         /\ streamed' = [streamed EXCEPT ![o] = @ \cup {event}]
<1>1. streamed \in [Orders -> SUBSET {"new", "done"}] /\ repeats \in 0..MaxRepeats
  BY DEF TypeOK
<1>2. repeats' = repeats \/ (repeats < MaxRepeats /\ repeats' = repeats + 1)
  BY DEF Deliver
<1>3. repeats' \in 0..MaxRepeats
  BY <1>1, <1>2, PersistenceAssumption
<1> QED
  BY <1>1, <1>3 DEF Deliver

\* Every step keeps the types.
LEMMA TypeStep == TypeOK /\ [Next]_vars => TypeOK'
<1> SUFFICES ASSUME TypeOK, [Next]_vars PROVE TypeOK'
  OBVIOUS
<1>0. /\ may \in Environments /\ up \in BOOLEAN
      /\ way \in [Orders -> Directions]
      /\ trade \in [Orders -> {"none", "working", "canceled", "open", "closed"}]
      /\ streamed \in [Orders -> SUBSET {"new", "done"}] /\ told \subseteq Orders
      /\ hand \in BOOLEAN /\ left \subseteq Orders
      /\ line \in Seq(Writes) /\ tasks \subseteq OrderWrites
      /\ orders \in [Orders -> Statuses \cup {"absent"}] /\ unnamed \in Orders \cup {"none"}
      /\ fills \subseteq Orders /\ row \in Directions \cup {"none"}
      /\ wal \subseteq KeptWrites /\ replay \in Seq(SUBSET KeptWrites) /\ Len(replay) <= 1
      /\ repeats \in 0..MaxRepeats /\ faults \in 0..MaxFaults /\ replays \in 0..MaxReplays
  BY DEF TypeOK
<1>1. ASSUME NEW o \in Orders, Place(o) PROVE TypeOK'
  <2>1. trade' \in [Orders -> {"none", "working", "canceled", "open", "closed"}]
    BY <1>0, <1>1 DEF Place
  <2> QED
    BY <1>0, <1>1, <2>1 DEF Place, tables, TypeOK
<1>2. ASSUME NEW o \in Orders, NEW outcome \in {"open", "canceled"}, Finish(o, outcome) PROVE TypeOK'
  <2>1. trade' \in [Orders -> {"none", "working", "canceled", "open", "closed"}]
    BY <1>0, <1>2 DEF Finish
  <2> QED
    BY <1>0, <1>2, <2>1 DEF Finish, tables, TypeOK
<1>3. ASSUME NEW o \in Orders, OnUserOrderNew(o) PROVE TypeOK'
  <2>1. streamed' \in [Orders -> SUBSET {"new", "done"}] /\ repeats' \in 0..MaxRepeats
    BY <1>3, DeliverType DEF OnUserOrderNew
  <2>2. OrderWrite(o, TRUE, "new") \in OrderWrites
    BY OrderWritesMade, Zenon DEF Statuses
  <2>3. tasks' = tasks \cup {OrderWrite(o, TRUE, "new")}
    BY <1>3 DEF OnUserOrderNew
  <2>4. tasks' \subseteq OrderWrites
    BY <1>0, <2>2, <2>3
  <2> QED
    BY <1>0, <1>3, <2>1, <2>4 DEF OnUserOrderNew, tables, TypeOK
<1>4. ASSUME NEW o \in Orders, OnUserOrderDone(o) PROVE TypeOK'
  <2>1. streamed' \in [Orders -> SUBSET {"new", "done"}] /\ repeats' \in 0..MaxRepeats
    BY <1>4, DeliverType DEF OnUserOrderDone
  <2>2. Outcome(o) \in Statuses /\ "filled" \in Statuses
    BY DEF Outcome, Statuses
  <2>3. OrderWrite(o, TRUE, Outcome(o)) \in OrderWrites /\ OrderWrite(o, TRUE, "filled") \in OrderWrites
    BY <2>2, OrderWritesMade, Zenon
  <2>4. tasks' = tasks \cup {OrderWrite(o, TRUE, Outcome(o))}
    BY <1>4 DEF OnUserOrderDone
  <2>5. tasks' \subseteq OrderWrites
    BY <1>0, <2>3, <2>4
  <2>6. FillWrite(o) \in Writes /\ OrderWrite(o, TRUE, "filled") \in Writes
    BY <2>3, WritesMade DEF OrderWrites
  <2>7. line' = IF WasFilled(o) THEN line \o <<FillWrite(o), OrderWrite(o, TRUE, "filled")>> ELSE line
    BY <1>4 DEF OnUserOrderDone
  <2>8. line' \in Seq(Writes)
    BY <1>0, <2>6, <2>7, PairJoined
  <2> QED
    BY <1>0, <1>4, <2>1, <2>5, <2>8 DEF OnUserOrderDone, tables, TypeOK
<1>5. ASSUME NEW o \in Orders, OnOrderFilled(o) PROVE TypeOK'
  <2>1. OrderWrite(o, FALSE, "filled") \in OrderWrites
    BY OrderWritesMade, Zenon DEF Statuses
  <2>3. OrderWrite(o, FALSE, "filled") \in Writes /\ OpenWrite(way[o]) \in Writes
    BY <1>0, <2>1, WritesMade DEF OrderWrites
  <2>4. line' = line \o <<OrderWrite(o, FALSE, "filled"), OpenWrite(way[o])>>
    BY <1>5 DEF OnOrderFilled
  <2>2. line' \in Seq(Writes)
    BY <1>0, <2>3, <2>4, PairJoined
  <2> QED
    BY <1>0, <1>5, <2>2 DEF OnOrderFilled, tables, TypeOK
<1>6. ASSUME NEW o \in Orders, OnOrderFailed(o) PROVE TypeOK'
  <2>1. OrderWrite(o, FALSE, "failed") \in OrderWrites
    BY OrderWritesMade, Zenon DEF Statuses
  <2>2. tasks' = tasks \cup {OrderWrite(o, FALSE, "failed")}
    BY <1>6 DEF OnOrderFailed
  <2>3. tasks' \subseteq OrderWrites
    BY <1>0, <2>1, <2>2
  <2> QED
    BY <1>0, <1>6, <2>3 DEF OnOrderFailed, tables, TypeOK
<1>7. ASSUME NEW o \in Orders, OnPositionClosed(o) PROVE TypeOK'
  <2>1. trade' \in [Orders -> {"none", "working", "canceled", "open", "closed"}]
    BY <1>0, <1>7 DEF OnPositionClosed
  <2>2. line' \in Seq(Writes)
    BY <1>0, <1>7, WritesMade, AppendProperties DEF OnPositionClosed
  <2> QED
    BY <1>0, <1>7, <2>1, <2>2 DEF OnPositionClosed, tables, TypeOK
<1>17. CASE ActivateKill \/ OpenPosition
  <2>0. repeats \in 0..MaxRepeats /\ MaxRepeats \in Nat
    BY <1>0, PersistenceAssumption DEF TypeOK
  <2>1. LeaveUnreported /\ hand' \in BOOLEAN /\ repeats' \in 0..MaxRepeats
    <3>1. CASE ActivateKill
      BY <2>0, <3>1 DEF ActivateKill
    <3>2. CASE OpenPosition
      <4>1. LeaveUnreported /\ hand' = TRUE
        BY <3>2 DEF OpenPosition
      <4>2. repeats < MaxRepeats /\ repeats' = repeats + 1
        BY <3>2 DEF OpenPosition
      <4> QED
        BY <2>0, <4>1, <4>2
    <3> QED
      BY <1>17, <3>1, <3>2
  <2>2. /\ trade' \in [Orders -> {"none", "working", "canceled", "open", "closed"}]
        /\ left' \subseteq Orders
    BY <1>0, <2>1 DEF LeaveUnreported
  <2>3. UNCHANGED <<may, up, way, streamed, told, line, tasks, orders, unnamed, fills, row, wal,
                    replay, faults, replays>>
    BY <2>1 DEF LeaveUnreported, tables
  <2> QED
    BY <1>0, <2>1, <2>2, <2>3 DEF TypeOK
<1>18. CASE OnManualClosed
  <2>1. line' \in Seq(Writes)
    BY <1>0, <1>18, WritesMade, AppendProperties DEF OnManualClosed
  <2> QED
    BY <1>0, <1>18, <2>1 DEF OnManualClosed, tables, TypeOK
<1>8. CASE SerialWrite
  <2>1. Head(line) \in Writes /\ Tail(line) \in Seq(Writes)
    BY <1>8, HeadOfLine DEF SerialWrite
  <2> QED
    BY <1>0, <1>8, <2>1, WriteType DEF SerialWrite, world, TypeOK
<1>9. ASSUME NEW x \in tasks, ConcurrentWrite(x) PROVE TypeOK'
  <2>1. x \in Writes /\ tasks' \subseteq OrderWrites
    BY <1>0, <1>9 DEF ConcurrentWrite, OrderWrites
  <2> QED
    BY <1>0, <1>9, <2>1, WriteType DEF ConcurrentWrite, world, TypeOK
<1>10. CASE StartReplay
  <2>1. replay' = <<wal>> /\ wal \in SUBSET KeptWrites
    BY <1>0, <1>10 DEF StartReplay
  <2>2. replay' \in Seq(SUBSET KeptWrites) /\ Len(replay') <= 1
    BY <2>1
  <2>3. replays' \in 0..MaxReplays
    BY <1>0, <1>10, PersistenceAssumption DEF StartReplay
  <2> QED
    BY <1>0, <1>10, <2>2, <2>3 DEF StartReplay, world, tables, TypeOK
<1>11. CASE ReplayLine
  <2>1. PICK lines \in ToSet(replay) : \E x \in lines : Write(x) /\ replay' = <<lines \ {x}>>
    BY <1>11 DEF ReplayLine
  <2>2. PICK x \in lines : Write(x) /\ replay' = <<lines \ {x}>>
    BY <2>1
  <2>3. x \in Writes /\ lines \ {x} \in SUBSET KeptWrites
    BY ReplayedLines
  <2>4. replay' \in Seq(SUBSET KeptWrites) /\ Len(replay') <= 1
    BY <2>2, <2>3
  <2> QED
    BY <1>0, <1>11, <2>2, <2>3, <2>4, WriteType DEF ReplayLine, world, TypeOK
<1>12. CASE EndReplay
  <2>1. replay' \in Seq(SUBSET KeptWrites) /\ Len(replay') <= 1 /\ wal' \subseteq KeptWrites
    BY <1>12, EmptySeq DEF EndReplay
  <2> QED
    BY <1>0, <1>12, <2>1 DEF EndReplay, world, tables, TypeOK
<1>13. CASE PoolFails
  <2>1. faults' \in 0..MaxFaults
    BY <1>0, <1>13, PersistenceAssumption DEF PoolFails, MayFail
  <2> QED
    BY <1>0, <1>13, <2>1 DEF PoolFails, world, tables, TypeOK
<1>14. CASE PoolReturns
  BY <1>0, <1>14 DEF PoolReturns, world, tables, TypeOK
<1>15. CASE Restart
  <2>1. replay' \in Seq(SUBSET KeptWrites) /\ Len(replay') <= 1 /\ line' \in Seq(Writes) /\ tasks' \subseteq OrderWrites
    BY <1>15, EmptySeq DEF Restart
  <2> QED
    BY <1>0, <1>15, <2>1 DEF Restart, world, tables, TypeOK
<1>16. CASE UNCHANGED vars
  BY <1>0, <1>16 DEF vars, world, tables, TypeOK
<1> QED
  BY <1>1, <1>2, <1>3, <1>4, <1>5, <1>6, <1>7, <1>8, <1>9, <1>10, <1>11, <1>12, <1>13, <1>14,
     <1>15, <1>16, <1>17, <1>18 DEF Next, Trading

\* Whatever is delivered twice, fails, is replayed or restarted, every variable keeps its
\* type: only failed order and fill writes reach the file.
THEOREM TypeCorrect == Spec => []TypeOK
  BY TypeInit, TypeStep, PTL DEF Spec

(***************************************************************************)
(* No fill and no order is lost.                                           *)
(***************************************************************************)
\* The writes that are still to come.
Dues == ToSet(line) \cup tasks \cup wal
FillSafe(o) == o \in fills \/ Due("fill", o)
OrderSafe(o) == orders[o] # "absent" \/ Due("order", o)

\* A write that is tried is in the table afterwards, or in the file, and undoes no other.
LEMMA WriteKeeps ==
  ASSUME TypeOK, "disk" \notin may, NEW x \in Writes, Write(x)
  PROVE  /\ fills \subseteq fills' /\ (x.kind = "fill" => x.id \in fills' \/ x \in wal')
         /\ \A o \in Orders : orders[o] # "absent" => orders'[o] # "absent"
         /\ x.kind = "order" => orders'[x.id] # "absent" \/ x \in wal'
<1>1. /\ x.kind = "order" => x.id \in Orders /\ x.status \in Statuses
      /\ orders \in [Orders -> Statuses \cup {"absent"}]
  BY WriteKinds DEF TypeOK
<1>2. ASSUME Commit(x)
      PROVE  /\ fills \subseteq fills' /\ (x.kind = "fill" => x.id \in fills')
             /\ \A o \in Orders : orders[o] # "absent" => orders'[o] # "absent"
             /\ x.kind = "order" => orders'[x.id] # "absent"
  <2>1. fills \subseteq fills' /\ (x.kind = "fill" => x.id \in fills')
    BY <1>2 DEF Commit
  <2>2. orders' = IF x.kind = "order" THEN [orders EXCEPT ![x.id] = x.status] ELSE orders
    BY <1>2 DEF Commit
  <2>3. x.kind = "order" => x.status # "absent"
    BY <1>1 DEF Statuses
  <2> QED
    BY <1>1, <2>1, <2>2, <2>3
<1>3. ASSUME Keep(x) PROVE x.kind \in {"order", "fill"} => x \in wal'
  BY <1>3 DEF Keep, Buffer
<1>4. CASE up /\ ~Violates(x) /\ Commit(x) /\ UNCHANGED <<wal, faults>>
  BY <1>2, <1>4
<1>5. CASE (~up \/ Violates(x)) /\ Keep(x) /\ UNCHANGED <<tables, faults>>
  BY <1>3, <1>5 DEF tables
<1>6. CASE up /\ ~Violates(x) /\ MayFail /\ Commit(x) /\ Keep(x)
  BY <1>2, <1>6
<1> QED
  BY <1>4, <1>5, <1>6 DEF Write

\* What a confirmed fill and a filled order put in the line.
LEMMA DoneLine ==
  ASSUME TypeOK, NEW o \in Orders, OnUserOrderDone(o)
  PROVE  \E x, y \in Writes :
           /\ x.kind = "fill" /\ x.id = o /\ y.kind = "order" /\ y.id = o
           /\ line' = IF WasFilled(o) THEN line \o <<x, y>> ELSE line
<1>1. PICK y \in OrderWrites : y = OrderWrite(o, TRUE, "filled")
  BY OrderWritesMade, Zenon DEF Statuses
<1>2. y \in Writes /\ y.kind = "order" /\ y.id = o
  <2>1. y.id = o
    BY <1>1 DEF OrderWrite
  <2> QED
    BY <2>1 DEF OrderWrites
<1>3. FillWrite(o) \in Writes /\ FillWrite(o).kind = "fill" /\ FillWrite(o).id = o
  BY WritesMade
<1>4. line' = IF WasFilled(o) THEN line \o <<FillWrite(o), y>> ELSE line
  BY <1>1, Zenon DEF OnUserOrderDone
<1> QED
  BY <1>2, <1>3, <1>4

\* An order that filled puts its row and the position in the line.
LEMMA FilledLine ==
  ASSUME TypeOK, NEW o \in Orders, OnOrderFilled(o)
  PROVE  \E x, y \in Writes :
           /\ x.kind = "order" /\ x.id = o /\ y.kind = "open" /\ y.id = way[o]
           /\ line' = line \o <<x, y>>
<1>1. PICK x \in OrderWrites : x = OrderWrite(o, FALSE, "filled")
  BY OrderWritesMade, Zenon DEF Statuses
<1>2. x \in Writes /\ x.kind = "order" /\ x.id = o
  <2>1. x.id = o
    BY <1>1 DEF OrderWrite
  <2> QED
    BY <2>1 DEF OrderWrites
<1>3. way[o] \in Directions
  BY DEF TypeOK
<1>4. OpenWrite(way[o]) \in Writes /\ OpenWrite(way[o]).kind = "open" /\ OpenWrite(way[o]).id = way[o]
  BY <1>3, WritesMade
<1>5. line' = line \o <<x, OpenWrite(way[o])>>
  BY <1>1, Zenon DEF OnOrderFilled
<1> QED
  BY <1>2, <1>4, <1>5

\* A step tries at most one write, and takes no other from those that are due, unless it is
\* a restart or the end of a replay.
LEMMA DuesStep ==
  ASSUME TypeOK, [Next]_vars
  PROVE  \/ Restart \/ EndReplay
         \/ UNCHANGED <<orders, fills>> /\ Dues \subseteq Dues'
         \/ \E x \in Writes : Write(x) /\ Dues \subseteq Dues' \cup {x}
<1>0. line \in Seq(Writes) /\ tasks \subseteq OrderWrites
  BY DEF TypeOK
<1>1. ASSUME NEW o \in Orders, Trading(o)
      PROVE  UNCHANGED <<orders, fills, wal>> /\ ToSet(line) \subseteq ToSet(line') /\ tasks \subseteq tasks'
  <2>1. CASE Place(o) \/ (\E outcome \in {"open", "canceled"} : Finish(o, outcome))
             \/ OnUserOrderNew(o) \/ OnOrderFailed(o)
    BY <2>1 DEF Place, Finish, OnUserOrderNew, OnOrderFailed, tables
  <2>2. CASE OnUserOrderDone(o)
    <3>1. PICK x, y \in Writes :
            /\ x.kind = "fill" /\ x.id = o /\ y.kind = "order" /\ y.id = o
            /\ line' = IF WasFilled(o) THEN line \o <<x, y>> ELSE line
      BY <2>2, DoneLine
    <3>2. line \in Seq(Writes)
      BY <1>0
    <3>3. ToSet(line \o <<x, y>>) = ToSet(line) \cup {x, y}
      BY <3>2, PairJoined
    <3>4. ToSet(line) \subseteq ToSet(line')
      BY <3>1, <3>3
    <3> QED
      BY <2>2, <3>4 DEF OnUserOrderDone, tables
  <2>3. CASE OnOrderFilled(o)
    <3>1. PICK x, y \in Writes :
            /\ x.kind = "order" /\ x.id = o /\ y.kind = "open" /\ y.id = way[o]
            /\ line' = line \o <<x, y>>
      BY <2>3, FilledLine
    <3>2. line \in Seq(Writes)
      BY <1>0
    <3>3. ToSet(line \o <<x, y>>) = ToSet(line) \cup {x, y}
      BY <3>2, PairJoined
    <3>4. ToSet(line) \subseteq ToSet(line')
      BY <3>1, <3>3
    <3> QED
      BY <2>3, <3>4 DEF OnOrderFilled, tables
  <2>4. CASE OnPositionClosed(o)
    <3>1. line' = Append(line, CloseWrite)
      BY <2>4 DEF OnPositionClosed
    <3>2. ToSet(line) \subseteq ToSet(line')
      BY <1>0, <3>1, WritesMade, SetOfAppend
    <3> QED
      BY <2>4, <3>2 DEF OnPositionClosed, tables
  <2> QED
    BY <1>1, <2>1, <2>2, <2>3, <2>4 DEF Trading
<1>2. ASSUME SerialWrite
      PROVE  \E x \in Writes : Write(x) /\ Dues \subseteq Dues' \cup {x}
  <2>1. line # <<>> /\ Write(Head(line)) /\ line' = Tail(line) /\ UNCHANGED tasks
    BY <1>2 DEF SerialWrite
  <2>2. Head(line) \in Writes /\ ToSet(line) = {Head(line)} \cup ToSet(line')
    BY <1>0, <2>1, HeadOfLine, SetOfTail
  <2>3. wal \subseteq wal'
    BY <2>1, <2>2, WriteType
  <2> QED
    BY <2>1, <2>2, <2>3 DEF Dues
<1>3. ASSUME NEW x \in tasks, ConcurrentWrite(x)
      PROVE  \E y \in Writes : Write(y) /\ Dues \subseteq Dues' \cup {y}
  <2>1. x \in Writes
    BY <1>0 DEF OrderWrites
  <2>2. Write(x) /\ tasks' = tasks \ {x} /\ UNCHANGED line
    BY <1>3 DEF ConcurrentWrite
  <2>3. wal \subseteq wal'
    BY <2>1, <2>2, WriteType
  <2> QED
    BY <2>1, <2>2, <2>3 DEF Dues
<1>4. ASSUME ReplayLine
      PROVE  \E y \in Writes : Write(y) /\ Dues \subseteq Dues' \cup {y}
  <2>1. PICK lines \in ToSet(replay) : \E x \in lines : Write(x) /\ replay' = <<lines \ {x}>>
    BY <1>4 DEF ReplayLine
  <2>2. PICK x \in lines : Write(x)
    BY <2>1
  <2>3. x \in Writes
    BY ReplayedLines
  <2>4. wal \subseteq wal' /\ UNCHANGED <<line, tasks>>
    BY <1>4, <2>2, <2>3, WriteType DEF ReplayLine
  <2> QED
    BY <2>2, <2>3, <2>4 DEF Dues
<1>7. ASSUME OnManualClosed PROVE UNCHANGED <<orders, fills>> /\ Dues \subseteq Dues'
  <2>1. line' = Append(line, CloseWrite) /\ UNCHANGED <<orders, fills, wal, tasks>>
    BY <1>7 DEF OnManualClosed, tables
  <2>2. ToSet(line) \subseteq ToSet(line')
    BY <1>0, <2>1, WritesMade, SetOfAppend
  <2> QED
    BY <2>1, <2>2 DEF Dues
<1>5. ASSUME StartReplay \/ PoolFails \/ PoolReturns \/ ActivateKill \/ OpenPosition \/ UNCHANGED vars
      PROVE  UNCHANGED <<orders, fills>> /\ Dues \subseteq Dues'
  BY <1>5 DEF ActivateKill, OpenPosition, LeaveUnreported, StartReplay, PoolFails, PoolReturns, vars, tables, Dues
<1>6. ASSUME NEW o \in Orders, Trading(o) PROVE UNCHANGED <<orders, fills>> /\ Dues \subseteq Dues'
  BY <1>1, <1>6 DEF Dues
<1> QED
  BY <1>2, <1>3, <1>4, <1>5, <1>6, <1>7 DEF Next

\* So what is safe stays safe.
LEMMA SafeStays ==
  ASSUME TypeOK, [Next]_vars, "disk" \notin may, NEW o \in Orders
  PROVE  \/ Restart \/ EndReplay
         \/ (FillSafe(o) => FillSafe(o)') /\ (OrderSafe(o) => OrderSafe(o)')
<1>1. CASE UNCHANGED <<orders, fills>> /\ Dues \subseteq Dues'
  BY <1>1 DEF FillSafe, OrderSafe, Due, Dues
<1>2. ASSUME NEW x \in Writes, Write(x), Dues \subseteq Dues' \cup {x}
      PROVE  (FillSafe(o) => FillSafe(o)') /\ (OrderSafe(o) => OrderSafe(o)')
  <2>1. /\ fills \subseteq fills' /\ (x.kind = "fill" => x.id \in fills' \/ x \in wal')
        /\ orders[o] # "absent" => orders'[o] # "absent"
        /\ x.kind = "order" => orders'[x.id] # "absent" \/ x \in wal'
    BY <1>2, WriteKeeps
  <2>2. ASSUME FillSafe(o) PROVE FillSafe(o)'
    BY <1>2, <2>1, <2>2 DEF FillSafe, Due, Dues
  <2>3. ASSUME OrderSafe(o) PROVE OrderSafe(o)'
    BY <1>2, <2>1, <2>3 DEF OrderSafe, Due, Dues
  <2> QED
    BY <2>2, <2>3
<1> QED
  BY <1>1, <1>2, DuesStep

\* A fill is written while the file is replayed: the database is there.
LEMMA WrittenWhileReplaying ==
  ASSUME TypeOK, Steady, Replaying, up, NEW x \in Writes, Write(x)
  PROVE  /\ fills \subseteq fills' /\ (x.kind = "fill" => x.id \in fills')
         /\ \A y \in wal' : y.kind = "fill" => y \in wal
<1>1. ~MayFail /\ "disk" \notin may
  BY DEF Steady, MayFail
<1>2. fills \subseteq fills' /\ wal' \subseteq wal \cup {x}
  BY <1>1, WriteKeeps, WriteType
<1>3. CASE x.kind # "fill"
  BY <1>2, <1>3
<1>4. CASE x.kind = "fill"
  <2>1. ~Violates(x)
    BY <1>4 DEF Violates
  <2>2. Commit(x) /\ wal' = wal
    BY <1>1, <2>1 DEF Write
  <2> QED
    BY <1>2, <1>4, <2>2 DEF Commit
<1> QED
  BY <1>3, <1>4

\* The database stays while a replay holds every fill of the file it has yet to bring in.
LEMMA FillsStep ==
  ASSUME TypeOK, FillsInv, [Next]_vars
  PROVE  FillsInv'
<1> SUFFICES ASSUME Steady' PROVE (Replaying => up)' /\ FillsReplayed'
  BY DEF FillsInv
<1>1. UNCHANGED may
  BY DEF Next, Trading, Place, Finish, OnUserOrderNew, OnUserOrderDone, OnOrderFilled, OnOrderFailed,
     OnPositionClosed, ActivateKill,
     OpenPosition, LeaveUnreported, OnManualClosed, SerialWrite, ConcurrentWrite, StartReplay, ReplayLine, EndReplay, PoolFails,
     PoolReturns, Restart, vars
<1>2. Steady /\ (Replaying => up) /\ FillsReplayed
  BY <1>1 DEF Steady, FillsInv
<1>3. ~Restart
  BY <1>2 DEF Steady, Restart
<1>4. ASSUME ~Replaying' PROVE (Replaying => up)' /\ FillsReplayed'
  BY <1>4, SetOfEmpty DEF Replaying, FillsReplayed
<1>5. ASSUME UNCHANGED <<replay, fills, wal>>, up' = up \/ up' = TRUE
      PROVE  (Replaying => up)' /\ FillsReplayed'
  BY <1>2, <1>5 DEF Replaying, FillsReplayed
<1>6. ASSUME NEW o \in Orders, Trading(o) PROVE UNCHANGED <<replay, fills, wal, up>>
  BY <1>6 DEF Trading, Place, Finish, OnUserOrderNew, OnUserOrderDone, OnOrderFilled, OnOrderFailed,
     OnPositionClosed, tables
<1>7. ASSUME NEW x \in Writes, Write(x), UNCHANGED <<replay, up>>
      PROVE  (Replaying => up)' /\ FillsReplayed'
  <2>1. CASE Replaying
    <3>1. /\ fills \subseteq fills'
          /\ \A y \in wal' : y.kind = "fill" => y \in wal
      BY <1>2, <1>7, <2>1, WrittenWhileReplaying
    <3> QED
      BY <1>2, <1>7, <3>1 DEF Replaying, FillsReplayed
  <2>2. CASE ~Replaying
    BY <1>4, <1>7, <2>2 DEF Replaying
  <2> QED
    BY <2>1, <2>2
<1>8. CASE SerialWrite
  <2>1. Head(line) \in Writes
    BY <1>8, HeadOfLine DEF SerialWrite
  <2> QED
    BY <1>7, <1>8, <2>1 DEF SerialWrite
<1>9. ASSUME NEW x \in tasks, ConcurrentWrite(x) PROVE (Replaying => up)' /\ FillsReplayed'
  <2>1. x \in Writes
    BY DEF TypeOK, OrderWrites
  <2> QED
    BY <1>7, <1>9, <2>1 DEF ConcurrentWrite
<1>10. CASE StartReplay
  <2>1. up /\ up' = up
    BY <1>2, <1>10 DEF StartReplay, Steady
  <2>2. ToSet(replay') = {wal} /\ wal' = wal
    BY <1>10, SetOfOne DEF StartReplay
  <2> QED
    BY <2>1, <2>2 DEF FillsReplayed
<1>11. CASE ReplayLine
  <2>1. PICK lines \in ToSet(replay) : \E x \in lines : Write(x) /\ replay' = <<lines \ {x}>>
    BY <1>11 DEF ReplayLine
  <2>2. PICK x \in lines : Write(x) /\ replay' = <<lines \ {x}>>
    BY <2>1
  <2>3. x \in Writes /\ Replaying
    BY ReplayedLines
  <2>4. up /\ up' = up
    BY <1>2, <1>11, <2>3 DEF ReplayLine
  <2>5. /\ fills \subseteq fills' /\ (x.kind = "fill" => x.id \in fills')
        /\ \A y \in wal' : y.kind = "fill" => y \in wal
    BY <1>2, <2>2, <2>3, <2>4, WrittenWhileReplaying
  <2>6. \A y \in wal : y.kind = "fill" => y.id \in fills \/ y \in lines
    BY <1>2 DEF FillsReplayed
  <2>7. \A y \in wal' : y.kind = "fill" => y.id \in fills' \/ y \in lines \ {x}
    BY <2>5, <2>6
  <2>8. ToSet(replay') = {lines \ {x}}
    BY <2>2, SetOfOne
  <2> QED
    BY <2>4, <2>7, <2>8 DEF FillsReplayed
<1>12. CASE EndReplay
  BY <1>4, <1>12 DEF EndReplay, Replaying
<1>13. CASE PoolFails
  <2>1. ~Replaying /\ replay' = replay
    BY <1>2, <1>13 DEF PoolFails, MayFail, Steady
  <2> QED
    BY <1>4, <2>1 DEF Replaying
<1>14. CASE PoolReturns \/ ActivateKill \/ OpenPosition \/ OnManualClosed \/ UNCHANGED vars
  BY <1>5, <1>14 DEF PoolReturns, ActivateKill, OpenPosition, LeaveUnreported, OnManualClosed, vars, tables
<1> QED
  BY <1>3, <1>5, <1>6, <1>8, <1>9, <1>10, <1>11, <1>12, <1>13, <1>14 DEF Next

\* A report is new: its write has come to those that are due.
LEMMA ReportedAnew ==
  ASSUME TypeOK, Trades, [Next]_vars, NEW o \in Orders
  PROVE  /\ Confirmed(o)' => Confirmed(o) \/ FillSafe(o)'
         /\ Reported(o)' => Reported(o) \/ OrderSafe(o)'
<1>0. /\ trade \in [Orders -> {"none", "working", "canceled", "open", "closed"}]
      /\ streamed \in [Orders -> SUBSET {"new", "done"}] /\ line \in Seq(Writes)
      /\ trade[o] \in {"none", "working"} => "done" \notin streamed[o]
  BY DEF TypeOK, Trades
<1>1. ASSUME UNCHANGED <<trade, streamed, told>>
      PROVE  (Confirmed(o)' => Confirmed(o)) /\ (Reported(o)' => Reported(o))
  BY <1>1 DEF Confirmed, Reported, WasFilled
<1>2. ASSUME NEW p \in Orders, Place(p) \/ (\E outcome \in {"open", "canceled"} : Finish(p, outcome))
      PROVE  (Confirmed(o)' => Confirmed(o)) /\ (Reported(o)' => Reported(o))
  <2>1. UNCHANGED <<streamed, told>> /\ trade[p] \in {"none", "working"} /\ \A q \in Orders : q # p => trade'[q] = trade[q]
    BY <1>0, <1>2 DEF Place, Finish
  <2> QED
    BY <1>0, <2>1 DEF Confirmed, Reported, WasFilled
<1>3. ASSUME NEW p \in Orders, OnPositionClosed(p)
      PROVE  (Confirmed(o)' => Confirmed(o)) /\ (Reported(o)' => Reported(o))
  <2>1. UNCHANGED <<streamed, told>> /\ trade[p] = "open" /\ \A q \in Orders : q # p => trade'[q] = trade[q]
    BY <1>0, <1>3 DEF OnPositionClosed
  <2> QED
    BY <1>0, <2>1 DEF Confirmed, Reported, WasFilled
<1>4. ASSUME NEW p \in Orders, OnUserOrderNew(p)
      PROVE  (Confirmed(o)' => Confirmed(o)) /\ (Reported(o)' => Reported(o) \/ OrderSafe(o)')
  <2>1. streamed' = [streamed EXCEPT ![p] = @ \cup {"new"}] /\ UNCHANGED <<trade, told>>
    BY <1>4, DeliverType DEF OnUserOrderNew
  <2>2. Confirmed(o)' => Confirmed(o)
    BY <1>0, <2>1 DEF Confirmed, WasFilled
  <2>3. PICK x : x = OrderWrite(p, TRUE, "new")
    OBVIOUS
  <2>4. x.kind = "order" /\ x.id = p
    BY <2>3 DEF OrderWrite
  <2>5. tasks' = tasks \cup {x}
    BY <1>4, <2>3, Zenon DEF OnUserOrderNew
  <2>6. o = p => OrderSafe(o)'
    BY <2>4, <2>5 DEF OrderSafe, Due
  <2>7. o # p => (Reported(o)' => Reported(o))
    BY <1>0, <2>1 DEF Reported
  <2> QED
    BY <2>2, <2>6, <2>7
<1>5. ASSUME NEW p \in Orders, OnUserOrderDone(p)
      PROVE  (Confirmed(o)' => Confirmed(o) \/ FillSafe(o)') /\ (Reported(o)' => Reported(o) \/ OrderSafe(o)')
  <2>1. streamed' = [streamed EXCEPT ![p] = @ \cup {"done"}] /\ UNCHANGED <<trade, told>>
    BY <1>5, DeliverType DEF OnUserOrderDone
  <2>2. PICK x : x = OrderWrite(p, TRUE, Outcome(p))
    OBVIOUS
  <2>3. x.kind = "order" /\ x.id = p
    BY <2>2 DEF OrderWrite
  <2>4. tasks' = tasks \cup {x}
    BY <1>5, <2>2, Zenon DEF OnUserOrderDone
  <2>5. o = p => OrderSafe(o)'
    BY <2>3, <2>4 DEF OrderSafe, Due
  <2>6. o # p => (Reported(o)' => Reported(o)) /\ (Confirmed(o)' => Confirmed(o))
    BY <1>0, <2>1 DEF Reported, Confirmed, WasFilled
  <2>7. o = p /\ WasFilled(o) => FillSafe(o)'
    <3>1. PICK a, b \in Writes :
            /\ a.kind = "fill" /\ a.id = p /\ b.kind = "order" /\ b.id = p
            /\ line' = IF WasFilled(p) THEN line \o <<a, b>> ELSE line
      BY <1>5, DoneLine
    <3>2. ToSet(line \o <<a, b>>) = ToSet(line) \cup {a, b}
      BY <1>0, PairJoined
    <3>3. WasFilled(p) => a \in ToSet(line')
      BY <3>1, <3>2
    <3> QED
      BY <3>1, <3>3 DEF FillSafe, Due
  <2>8. WasFilled(o)' => WasFilled(o)
    BY <2>1 DEF WasFilled
  <2> QED
    BY <2>5, <2>6, <2>7, <2>8 DEF Confirmed
<1>6. ASSUME NEW p \in Orders, OnOrderFilled(p)
      PROVE  (Confirmed(o)' => Confirmed(o)) /\ (Reported(o)' => Reported(o) \/ OrderSafe(o)')
  <2>1. told' = told \cup {p} /\ UNCHANGED <<trade, streamed>>
    BY <1>6 DEF OnOrderFilled
  <2>2. PICK x, y \in Writes :
          /\ x.kind = "order" /\ x.id = p /\ y.kind = "open" /\ y.id = way[p]
          /\ line' = line \o <<x, y>>
    BY <1>6, FilledLine
  <2>3. ToSet(line') = ToSet(line) \cup {x, y}
    BY <1>0, <2>2, PairJoined
  <2>4. o = p => OrderSafe(o)'
    BY <2>2, <2>3 DEF OrderSafe, Due
  <2> QED
    BY <2>1, <2>4 DEF Confirmed, Reported, WasFilled
<1>7. ASSUME NEW p \in Orders, OnOrderFailed(p)
      PROVE  (Confirmed(o)' => Confirmed(o)) /\ (Reported(o)' => Reported(o) \/ OrderSafe(o)')
  <2>1. told' = told \cup {p} /\ UNCHANGED <<trade, streamed>>
    BY <1>7 DEF OnOrderFailed
  <2>2. PICK x : x = OrderWrite(p, FALSE, "failed")
    OBVIOUS
  <2>3. x.kind = "order" /\ x.id = p
    BY <2>2 DEF OrderWrite
  <2>4. tasks' = tasks \cup {x}
    BY <1>7, <2>2, Zenon DEF OnOrderFailed
  <2>5. o = p => OrderSafe(o)'
    BY <2>3, <2>4 DEF OrderSafe, Due
  <2> QED
    BY <2>1, <2>5 DEF Confirmed, Reported, WasFilled
<1>9. ASSUME ActivateKill \/ OpenPosition
      PROVE  (Confirmed(o)' => Confirmed(o)) /\ (Reported(o)' => Reported(o))
  <2>1. UNCHANGED <<streamed, told>> /\ (trade'[o] = trade[o] \/ trade[o] = "open")
    BY <1>0, <1>9 DEF ActivateKill, OpenPosition, LeaveUnreported
  <2> QED
    BY <2>1 DEF Confirmed, Reported, WasFilled
<1>8. ASSUME \/ SerialWrite \/ (\E x \in tasks : ConcurrentWrite(x)) \/ StartReplay \/ ReplayLine \/ EndReplay
             \/ PoolFails \/ PoolReturns \/ Restart \/ OnManualClosed \/ UNCHANGED vars
      PROVE  UNCHANGED <<trade, streamed, told>>
  BY <1>8 DEF OnManualClosed, SerialWrite, ConcurrentWrite, StartReplay, ReplayLine, EndReplay, PoolFails, PoolReturns,
     Restart, vars, world
<1> QED
  BY <1>1, <1>2, <1>3, <1>4, <1>5, <1>6, <1>7, <1>8, <1>9 DEF Next, Trading

\* FillKept and OrderKept are kept by every step.
LEMMA KeptStep ==
  ASSUME TypeOK, Trades, FillsInv, FillKept, OrdersInv, OrderKept, [Next]_vars
  PROVE  FillKept' /\ OrdersInv' /\ OrderKept'
<1>1. UNCHANGED may
  BY DEF Next, Trading, Place, Finish, OnUserOrderNew, OnUserOrderDone, OnOrderFilled, OnOrderFailed,
     OnPositionClosed, ActivateKill,
     OpenPosition, LeaveUnreported, OnManualClosed, SerialWrite, ConcurrentWrite, StartReplay, ReplayLine, EndReplay, PoolFails,
     PoolReturns, Restart, vars
<1>2. ASSUME Steady, NEW o \in Orders, Confirmed(o)' PROVE FillSafe(o)'
  <2>1. ~Restart /\ "disk" \notin may
    BY <1>2 DEF Steady, Restart
  <2>2. CASE EndReplay
    <3>1. Confirmed(o)
      BY <1>2, <2>2 DEF EndReplay, world, Confirmed, WasFilled
    <3>2. FillSafe(o)
      BY <1>2, <3>1 DEF FillKept, FillSafe, Confirmed, Steady
    <3>3. ToSet(replay) = {{}}
      BY <2>2, SetOfOne DEF EndReplay
    <3>4. \A x \in wal : x.kind = "fill" => x.id \in fills
      BY <1>2, <3>3 DEF FillsInv, FillsReplayed
    <3>5. UNCHANGED <<fills, line, tasks>>
      BY <2>2 DEF EndReplay, tables
    <3> QED
      BY <3>2, <3>4, <3>5 DEF FillSafe, Due
  <2>3. CASE ~EndReplay
    <3>1. FillSafe(o) => FillSafe(o)'
      BY <2>1, <2>3, SafeStays
    <3>2. Confirmed(o) => FillSafe(o)
      BY <1>2 DEF FillKept, FillSafe, Confirmed, Steady
    <3> QED
      BY <1>2, <3>1, <3>2, ReportedAnew
  <2> QED
    BY <2>2, <2>3
<1>3. FillKept'
  BY <1>1, <1>2 DEF FillKept, FillSafe, Confirmed, Steady
<1>4. ASSUME Unreplayed PROVE ~Replaying /\ ~Restart /\ ~StartReplay /\ ~ReplayLine /\ ~EndReplay /\ "disk" \notin may
  <2>1. ~Replaying /\ ~Restart /\ ~StartReplay /\ "disk" \notin may
    BY <1>4 DEF OrdersInv, Unreplayed, Restart, StartReplay
  <2>2. ToSet(replay) = {} /\ replay # <<{}>>
    BY <2>1, SetOfEmpty DEF Replaying
  <2> QED
    BY <2>1, <2>2 DEF ReplayLine, EndReplay
<1>5. OrdersInv'
  <2>1. ASSUME Unreplayed PROVE replay' = replay
    <3>1. ~Restart /\ ~StartReplay /\ ~ReplayLine /\ ~EndReplay
      BY <1>4, <2>1
    <3> QED
      BY <3>1 DEF Next, Trading, Place, Finish, OnUserOrderNew, OnUserOrderDone, OnOrderFilled, OnOrderFailed,
         OnPositionClosed, ActivateKill,
     OpenPosition, LeaveUnreported, OnManualClosed, SerialWrite, ConcurrentWrite, PoolFails, PoolReturns, vars
  <2> QED
    BY <1>1, <1>4, <2>1 DEF OrdersInv, Unreplayed, Replaying
<1>6. ASSUME Unreplayed, NEW o \in Orders, Reported(o)' PROVE OrderSafe(o)'
  <2>1. OrderSafe(o) => OrderSafe(o)'
    BY <1>4, <1>6, SafeStays
  <2>2. Reported(o) => OrderSafe(o)
    BY <1>6 DEF OrderKept, OrderSafe, Reported, Unreplayed
  <2> QED
    BY <1>6, <2>1, <2>2, ReportedAnew
<1>7. OrderKept'
  BY <1>1, <1>6 DEF OrderKept, OrderSafe, Reported, Unreplayed
<1> QED
  BY <1>3, <1>5, <1>7

(***************************************************************************)
(* The row of the symbol.                                                  *)
(***************************************************************************)
\* Trades follow one another, and reports follow the trades.
LEMMA TradesStep ==
  ASSUME TypeOK, Trades, [Next]_vars
  PROVE  Trades'
<1>0. /\ trade \in [Orders -> {"none", "working", "canceled", "open", "closed"}]
      /\ streamed \in [Orders -> SUBSET {"new", "done"}]
  BY DEF TypeOK
<1>a. UNCHANGED may
  BY DEF Next, Trading, Place, Finish, OnUserOrderNew, OnUserOrderDone, OnOrderFilled, OnOrderFailed,
     OnPositionClosed, ActivateKill,
     OpenPosition, LeaveUnreported, OnManualClosed, SerialWrite, ConcurrentWrite, StartReplay, ReplayLine, EndReplay, PoolFails,
     PoolReturns, Restart, vars
<1>1. ASSUME NEW o \in Orders, Place(o) PROVE Trades'
  <2>1. /\ trade' = [trade EXCEPT ![o] = "working"] /\ trade[o] = "none"
        /\ UNCHANGED <<streamed, told, hand, left>> /\ ~hand
        /\ \A p \in Orders : ~AtWork(p)
    BY <1>1 DEF Place, Flat, AtWork
  <2> QED
    BY <1>0, <1>a, <2>1 DEF Trades, AtWork, Undisturbed
<1>2. ASSUME NEW o \in Orders, NEW outcome \in {"open", "canceled"}, Finish(o, outcome) PROVE Trades'
  <2>1. /\ trade' = [trade EXCEPT ![o] = IF outcome = "open" /\ o \in left THEN "closed" ELSE outcome]
        /\ trade[o] = "working" /\ UNCHANGED <<streamed, told, hand, left>>
    BY <1>2 DEF Finish
  <2>2. \A p \in Orders : AtWork(p)' => AtWork(p)
    BY <1>0, <2>1 DEF AtWork
  <2>3. \A p \in Orders : trade'[p] = trade[p] \/ (p = o /\ trade'[p] \in {"open", "canceled", "closed"})
    BY <1>0, <2>1
  <2>4. trade'[o] = "closed" => o \in left
    BY <1>0, <2>1
  <2>5. hand => trade'[o] # "open"
    BY <1>0, <2>1 DEF Trades
  <2> QED
    BY <1>a, <2>1, <2>2, <2>3, <2>4, <2>5 DEF Trades, Undisturbed
<1>3. ASSUME NEW o \in Orders, OnUserOrderNew(o) PROVE Trades'
  <2>1. streamed' = [streamed EXCEPT ![o] = @ \cup {"new"}] /\ UNCHANGED <<trade, told, hand, left>>
    BY <1>3, DeliverType DEF OnUserOrderNew
  <2> QED
    BY <1>0, <1>a, <2>1 DEF Trades, AtWork, Undisturbed
<1>4. ASSUME NEW o \in Orders, OnUserOrderDone(o) PROVE Trades'
  <2>1. streamed' = [streamed EXCEPT ![o] = @ \cup {"done"}] /\ UNCHANGED <<trade, told, hand, left>>
        /\ trade[o] \notin {"none", "working"}
    BY <1>4, DeliverType DEF OnUserOrderDone
  <2> QED
    BY <1>0, <1>a, <2>1 DEF Trades, AtWork, Undisturbed
<1>5. ASSUME NEW o \in Orders, OnOrderFilled(o) \/ OnOrderFailed(o) PROVE Trades'
  <2>1. /\ told' = told \cup {o} /\ UNCHANGED <<trade, streamed, hand, left>>
        /\ trade[o] \notin {"none", "working"}
    BY <1>5 DEF OnOrderFilled, OnOrderFailed, WasFilled
  <2> QED
    BY <1>0, <1>a, <2>1 DEF Trades, AtWork, Undisturbed
<1>6. ASSUME NEW o \in Orders, OnPositionClosed(o) PROVE Trades'
  <2>1. trade' = [trade EXCEPT ![o] = "closed"] /\ trade[o] = "open" /\ UNCHANGED <<streamed, told, hand>>
        /\ left' = left \ told /\ (o \in told \/ "early" \in may)
    BY <1>6 DEF OnPositionClosed
  <2>2. \A p \in Orders : AtWork(p)' => AtWork(p)
    BY <1>0, <2>1 DEF AtWork
  <2>3. ~hand
    BY <2>1 DEF Trades
  <2> QED
    BY <1>0, <1>a, <2>1, <2>2, <2>3 DEF Trades, Undisturbed
<1>8. ASSUME ActivateKill \/ OpenPosition PROVE Trades'
  <2>1. /\ trade' = [o \in Orders |-> IF trade[o] = "open" THEN "closed" ELSE trade[o]]
        /\ left' = left \cup {o \in Orders : trade[o] \in {"working", "open"}}
        /\ UNCHANGED <<streamed, told>>
    BY <1>8 DEF ActivateKill, OpenPosition, LeaveUnreported
  <2>2. \A p \in Orders : (AtWork(p)' => AtWork(p)) /\ trade'[p] # "open"
    BY <1>0, <2>1 DEF AtWork
  <2>3. \A p \in Orders : trade'[p] \in {"none", "working"} => trade'[p] = trade[p]
    BY <1>0, <2>1
  <2>4. \A p \in Orders : trade'[p] = "working" => p \in left'
    BY <1>0, <2>1
  <2>5. \A p \in Orders : trade'[p] = "closed" => trade[p] = "closed" \/ p \in left'
    BY <1>0, <2>1
  <2> QED
    BY <1>a, <2>1, <2>2, <2>3, <2>4, <2>5 DEF Trades, Undisturbed
<1>9. ASSUME OnManualClosed PROVE Trades'
  <2>1. UNCHANGED <<trade, streamed, told>> /\ ~hand' /\ left' = left \ told
    BY <1>9 DEF OnManualClosed
  <2> QED
    BY <1>a, <2>1 DEF Trades, AtWork, Undisturbed
<1>7. ASSUME \/ SerialWrite \/ (\E x \in tasks : ConcurrentWrite(x)) \/ StartReplay \/ ReplayLine \/ EndReplay
             \/ PoolFails \/ PoolReturns \/ Restart \/ UNCHANGED vars
      PROVE  Trades'
  <2>1. UNCHANGED <<trade, streamed, told, hand, left>>
    BY <1>7 DEF SerialWrite, ConcurrentWrite, StartReplay, ReplayLine, EndReplay, PoolFails, PoolReturns,
       Restart, vars, world
  <2> QED
    BY <1>a, <2>1 DEF Trades, AtWork, Undisturbed
<1> QED
  BY <1>1, <1>2, <1>3, <1>4, <1>5, <1>6, <1>7, <1>8, <1>9 DEF Next, Trading

\* What a write does to the row when nothing is in its way.
LEMMA RowWritten ==
  ASSUME TypeOK, Undisturbed, up, NEW x \in Writes, Write(x)
  PROVE  /\ x.kind = "open" => row' = IF row = "none" THEN x.id ELSE row
         /\ x.kind = "close" => row' = "none"
         /\ x.kind \notin {"open", "close"} => row' = row
<1>1. ~MayFail
  BY DEF MayFail, Undisturbed
<1>2. CASE Commit(x)
  BY <1>2 DEF Commit
<1>3. CASE ~Commit(x)
  <2>1. Violates(x) /\ UNCHANGED tables
    BY <1>1, <1>3 DEF Write
  <2> QED
    BY <2>1 DEF Violates, tables
<1> QED
  BY <1>2, <1>3

\* The first write of the line is written.
LEMMA RowHead ==
  ASSUME TypeOK, LineRows, line # <<>>, line' = Tail(line), UNCHANGED <<way, trade, told, left>>,
         line[1].kind = "open" => row' = IF row = "none" THEN line[1].id ELSE row,
         line[1].kind = "close" => row' = "none",
         line[1].kind \notin {"open", "close"} => row' = row
  PROVE  LineRows'
<1>1. /\ Len(line) \in Nat \ {0} /\ Len(line') = Len(line) - 1
      /\ \A i \in 1..Len(line') : line'[i] = line[i + 1]
  <2>1. line \in Seq(Writes)
    BY DEF TypeOK
  <2> QED
    BY <2>1, HeadTailProperties, LenProperties, EmptySeq
<1>2. ASSUME NEW i \in Nat
      PROVE  /\ OpenAt(i)' => OpenAt(i + 1) /\ line[i + 1].id = line'[i].id
             /\ CloseAt(i)' => CloseAt(i + 1)
  BY <1>1 DEF OpenAt, CloseAt
<1>3. ASSUME NEW i \in Nat, i > 1
      PROVE  /\ i - 1 \in Nat
             /\ OpenAt(i) => OpenAt(i - 1)' /\ line'[i - 1].id = line[i].id
             /\ CloseAt(i) => CloseAt(i - 1)'
  <2>1. i \in 1..Len(line) => i - 1 \in 1..Len(line') /\ line'[i - 1] = line[i]
    <3>1. ASSUME i \in 1..Len(line) PROVE i - 1 \in 1..Len(line') /\ (i - 1) + 1 = i
      BY <1>1, <1>3, <3>1
    <3> QED
      BY <1>1, <3>1
  <2> QED
    BY <1>3, <2>1 DEF OpenAt, CloseAt
<1>4. ASSUME NEW i \in Nat PROVE ClosedAfter(i)' <=> ClosedAfter(i + 1)
  <2>1. ASSUME ClosedAfter(i)' PROVE ClosedAfter(i + 1)
    <3>1. PICK k \in Nat : CloseAt(k)' /\ k > i
      BY <2>1 DEF ClosedAfter
    <3>2. k + 1 > i + 1 /\ k + 1 \in Nat
      BY <3>1
    <3>3. CloseAt(k + 1)
      BY <1>2, <3>1
    <3> QED
      BY <3>2, <3>3 DEF ClosedAfter
  <2>2. ASSUME ClosedAfter(i + 1) PROVE ClosedAfter(i)'
    <3>1. PICK k \in Nat : CloseAt(k) /\ k > i + 1
      BY <2>2 DEF ClosedAfter
    <3>2. CloseAt(k - 1)' /\ k - 1 > i /\ k - 1 \in Nat
      BY <1>3, <3>1
    <3> QED
      BY <3>2 DEF ClosedAfter
  <2> QED
    BY <2>1, <2>2
<1>5. \A i \in Nat : (OpenAt(i) \/ CloseAt(i)) => i > 1 \/ i = 1
  BY DEF OpenAt, CloseAt
<1>6. 1 \in 1..Len(line) /\ (OpenAt(1) <=> line[1].kind = "open") /\ (CloseAt(1) <=> line[1].kind = "close")
  BY <1>1 DEF OpenAt, CloseAt
<1>7. line[1].kind # "close" => (ClosedAfter(0)' <=> ClosedAfter(0))
  <2>1. ASSUME line[1].kind # "close" PROVE ClosedAfter(0) <=> ClosedAfter(1)
    <3>1. ASSUME NEW k \in Nat, CloseAt(k) PROVE k > 0 /\ k > 1
      <4>1. k > 1 \/ k = 1
        BY <1>5, <3>1
      <4>2. k # 1
        BY <1>6, <2>1, <3>1
      <4> QED
        BY <4>1, <4>2
    <3> QED
      BY <3>1 DEF ClosedAfter
  <2> QED
    BY <1>4, <2>1
<1>8. (\A o \in Orders : (Held(o)' <=> Held(o)) /\ (RowOf(o)' <=> RowOf(o))) /\ way' = way
  BY DEF Held, RowOf, HasRow
<1>9. ASSUME NEW i \in Nat, OpenAt(i)'
      PROVE  ClosedAfter(i)' \/ \E o \in Orders : RowOf(o)' /\ line'[i].id = way'[o]
  <2>0. i \in Nat /\ OpenAt(i)'
    BY <1>9
  <2>4. line'[i] = line[i + 1] /\ i + 1 \in 1..Len(line)
    BY <1>1, <2>0 DEF OpenAt
  <2>1. OpenAt(i + 1) /\ line[i + 1].id = line'[i].id /\ i + 1 \in Nat
    BY <2>0, <2>4 DEF OpenAt
  <2>2. ClosedAfter(i + 1) \/ \E o \in Orders : RowOf(o) /\ line[i + 1].id = way[o]
    BY <2>1 DEF LineRows
  <2> QED
    BY <1>4, <1>8, <2>1, <2>2
<1>10. ASSUME row' # "none", ~ClosedAfter(0)'
       PROVE  \E o \in Orders : RowOf(o)' /\ row' = way'[o]
  <2>1. line[1].kind # "close" /\ ~ClosedAfter(0)
    BY <1>7, <1>10
  <2>2. CASE row' = row
    BY <1>8, <1>10, <2>1, <2>2 DEF LineRows
  <2>3. CASE row' # row
    <3>1. line[1].kind = "open" /\ row' = line[1].id
      BY <2>1, <2>3
    <3>2. OpenAt(1) /\ ~ClosedAfter(1) /\ 1 \in Nat
      BY <1>4, <1>6, <1>10, <3>1
    <3>3. \E o \in Orders : RowOf(o) /\ line[1].id = way[o]
      BY <3>2 DEF LineRows
    <3> QED
      BY <1>8, <3>1, <3>3
  <2> QED
    BY <2>2, <2>3
<1>11. ASSUME NEW o \in Orders, Held(o)'
       PROVE  \/ row' # "none" /\ ~ClosedAfter(0)'
              \/ \E i \in Nat : OpenAt(i)' /\ ~ClosedAfter(i)'
  <2>0. \/ row # "none" /\ ~ClosedAfter(0)
        \/ \E i \in Nat : OpenAt(i) /\ ~ClosedAfter(i)
    BY <1>8, <1>11 DEF LineRows
  <2>1. CASE row # "none" /\ ~ClosedAfter(0)
    <3>1. line[1].kind # "close"
      BY <1>6, <2>1 DEF ClosedAfter
    <3>2. row' = row
      BY <2>1, <3>1
    <3> QED
      BY <1>7, <2>1, <3>1, <3>2
  <2>2. ASSUME NEW i \in Nat, OpenAt(i), ~ClosedAfter(i), i > 1
        PROVE  \E k \in Nat : OpenAt(k)' /\ ~ClosedAfter(k)'
    <3>1. i - 1 \in Nat /\ OpenAt(i - 1)' /\ (i - 1) + 1 = i
      BY <1>3, <2>2
    <3>2. ClosedAfter(i - 1)' <=> ClosedAfter((i - 1) + 1)
      BY <1>4, <3>1
    <3>3. ~ClosedAfter(i - 1)'
      BY <2>2, <3>1, <3>2
    <3> QED
      BY <3>1, <3>3
  <2>3. ASSUME OpenAt(1), ~ClosedAfter(1) PROVE row' # "none" /\ ~ClosedAfter(0)'
    <3>1. line[1].kind = "open" /\ 0 \in Nat /\ 0 + 1 = 1
      BY <1>6, <2>3
    <3>2. ~ClosedAfter(0)'
      BY <1>4, <2>3, <3>1
    <3>3. line[1] \in Writes
      <4>1. line \in Seq(Writes)
        BY DEF TypeOK
      <4> QED
        BY <1>6, <4>1, ElementOfSeq
    <3>4. line[1].id \in Directions
      BY <3>1, <3>3, WriteKinds
    <3> QED
      BY <3>1, <3>2, <3>4 DEF Directions
  <2> QED
    BY <1>5, <2>0, <2>1, <2>2, <2>3
<1> QED
  BY <1>9, <1>10, <1>11 DEF LineRows

\* Writes that are not about positions come to the end of the line, and no row that is due
\* stops being so.
LEMMA RowAside ==
  ASSUME LineRows, UNCHANGED row, Len(line) \in Nat, Len(line') \in Nat, Len(line) <= Len(line'),
         \A i \in 1..Len(line) : line'[i] = line[i],
         \A i \in 1..Len(line') : i > Len(line) => line'[i].kind \notin {"open", "close"},
         way' = way,
         \A o \in Orders : (Held(o)' => Held(o)) /\ (RowOf(o) => RowOf(o)')
  PROVE  LineRows'
<1>1. ASSUME NEW i \in Nat
      PROVE  /\ OpenAt(i)' <=> OpenAt(i)
             /\ OpenAt(i) => line'[i].id = line[i].id
             /\ CloseAt(i)' <=> CloseAt(i)
  BY DEF OpenAt, CloseAt
<1>2. \A i \in Nat : ClosedAfter(i)' <=> ClosedAfter(i)
  BY <1>1 DEF ClosedAfter
<1>3. \A i \in Nat : OpenAt(i)' => ClosedAfter(i)' \/ \E o \in Orders : RowOf(o)' /\ line'[i].id = way'[o]
  BY <1>1, <1>2 DEF LineRows
<1>4. row' # "none" => ClosedAfter(0)' \/ \E o \in Orders : RowOf(o)' /\ row' = way'[o]
  BY <1>2 DEF LineRows
<1>5. ASSUME NEW o \in Orders, Held(o)'
      PROVE  \/ row' # "none" /\ ~ClosedAfter(0)'
             \/ \E i \in Nat : OpenAt(i)' /\ ~ClosedAfter(i)'
  BY <1>1, <1>2, <1>5 DEF LineRows
<1> QED
  BY <1>3, <1>4, <1>5 DEF LineRows

\* An opening comes to the end of the line.
LEMMA RowOpened ==
  ASSUME TypeOK, Trades, Undisturbed, LineRows, NEW o \in Orders, OnOrderFilled(o)
  PROVE  LineRows'
<1>1. /\ WasFilled(o) /\ o \notin told /\ told' = told \cup {o}
      /\ UNCHANGED <<way, trade, row, left>>
  BY DEF OnOrderFilled, tables
<1>2. RowOf(o)' /\ \A p \in Orders : RowOf(p) => RowOf(p)'
  BY <1>1 DEF Trades, WasFilled, RowOf, HasRow
<1>5. PICK x, y \in Writes :
        /\ x.kind = "order" /\ x.id = o /\ y.kind = "open" /\ y.id = way[o]
        /\ line' = line \o <<x, y>>
  BY FilledLine
<1>6. /\ Len(line) \in Nat /\ Len(line') = Len(line) + 2
      /\ \A i \in 1..Len(line) : line'[i] = line[i]
      /\ line'[Len(line) + 1] = x /\ line'[Len(line) + 2] = y
  <2>1. line \in Seq(Writes)
    BY DEF TypeOK
  <2> QED
    BY <1>5, <2>1, LenProperties, PairJoined
<1>7. PICK n \in Nat : n = Len(line)
  BY <1>6
<1>8. \A i \in 1..n + 2 : i \in 1..n \/ i = n + 1 \/ i = n + 2
  OBVIOUS
<1>9. ASSUME NEW i \in Nat
      PROVE  /\ OpenAt(i)' <=> (OpenAt(i) \/ i = n + 2)
             /\ OpenAt(i) => line'[i].id = line[i].id
             /\ CloseAt(i)' <=> CloseAt(i)
             /\ CloseAt(i) => i <= n
  <2>1. OpenAt(i)' <=> (OpenAt(i) \/ i = n + 2)
    BY <1>5, <1>6, <1>7, <1>8 DEF OpenAt
  <2>2. CloseAt(i)' <=> CloseAt(i)
    BY <1>5, <1>6, <1>7, <1>8 DEF CloseAt
  <2>3. CloseAt(i) => i <= n
    BY <1>7 DEF CloseAt
  <2>4. OpenAt(i) => line'[i].id = line[i].id
    BY <1>6 DEF OpenAt
  <2> QED
    BY <2>1, <2>2, <2>3, <2>4
<1>10. \A i \in Nat : ClosedAfter(i)' <=> ClosedAfter(i)
  BY <1>9 DEF ClosedAfter
<1>11. ASSUME NEW i \in Nat, OpenAt(i)'
       PROVE  ClosedAfter(i)' \/ \E p \in Orders : RowOf(p)' /\ line'[i].id = way'[p]
  <2>1. CASE OpenAt(i)
    BY <1>1, <1>2, <1>9, <1>10, <2>1 DEF LineRows
  <2>2. CASE i = n + 2
    BY <1>1, <1>2, <1>5, <1>6, <1>7, <2>2
  <2> QED
    BY <1>9, <1>11, <2>1, <2>2
<1>12. row' # "none" => ClosedAfter(0)' \/ \E p \in Orders : RowOf(p)' /\ row' = way'[p]
  BY <1>1, <1>2, <1>10 DEF LineRows
<1>13. OpenAt(n + 2)' /\ ~ClosedAfter(n + 2)' /\ n + 2 \in Nat
  BY <1>9 DEF ClosedAfter
<1> QED
  BY <1>11, <1>12, <1>13 DEF LineRows

\* A closing comes to the end of the line, and nothing is held any more.
LEMMA RowClosed ==
  ASSUME TypeOK, line' = Append(line, CloseWrite), \A o \in Orders : ~Held(o)'
  PROVE  LineRows'
<1>2. /\ Len(line) \in Nat /\ Len(line') = Len(line) + 1
      /\ line'[Len(line) + 1].kind = "close"
  <2>1. line \in Seq(Writes) /\ CloseWrite \in Writes
    BY WritesMade DEF TypeOK
  <2>2. line'[Len(line) + 1] = CloseWrite
    BY <2>1, AppendProperties
  <2> QED
    BY <2>1, <2>2, WritesMade, LenProperties, AppendProperties
<1>4. PICK n \in Nat : n = Len(line)
  BY <1>2
<1>5. CloseAt(n + 1)' /\ n + 1 \in Nat
  BY <1>2, <1>4 DEF CloseAt
<1>6. \A i \in Nat : OpenAt(i)' => i < n + 1
  <2>1. ASSUME NEW i \in Nat, OpenAt(i)' PROVE i < n + 1
    <3>1. i \in 1..n + 1 /\ line'[i].kind = "open"
      BY <1>2, <1>4, <2>1 DEF OpenAt
    <3>2. i # n + 1
      BY <1>2, <1>4, <3>1
    <3> QED
      BY <3>1, <3>2
  <2> QED
    BY <2>1
<1>7. \A i \in Nat : i < n + 1 => ClosedAfter(i)'
  BY <1>5 DEF ClosedAfter
<1>8. ClosedAfter(0)'
  BY <1>7
<1> QED
  BY <1>6, <1>7, <1>8 DEF LineRows

\* The row follows the line, and the line follows the book.
LEMMA RowStep ==
  ASSUME TypeOK, Trades, RowInv, [Next]_vars
  PROVE  RowInv'
<1> SUFFICES ASSUME Undisturbed' PROVE up' /\ ~Replaying' /\ LineRows'
  BY DEF RowInv
<1>1. UNCHANGED may
  BY DEF Next, Trading, Place, Finish, OnUserOrderNew, OnUserOrderDone, OnOrderFilled, OnOrderFailed,
     OnPositionClosed, ActivateKill,
     OpenPosition, LeaveUnreported, OnManualClosed, SerialWrite, ConcurrentWrite, StartReplay, ReplayLine, EndReplay, PoolFails,
     PoolReturns, Restart, vars
<1>2. Undisturbed /\ up /\ ~Replaying /\ LineRows
  BY <1>1 DEF Undisturbed, RowInv
<1>3. ~Restart /\ ~StartReplay /\ ~ReplayLine /\ ~EndReplay /\ ~PoolFails
  <2>1. ToSet(replay) = {} /\ replay # <<{}>>
    BY <1>2, SetOfEmpty DEF Replaying
  <2> QED
    BY <1>2, <2>1 DEF Undisturbed, Restart, StartReplay, ReplayLine, EndReplay, PoolFails, MayFail
<1>4. up' /\ ~Replaying'
  <2>1. up' /\ UNCHANGED replay
    BY <1>2, <1>3 DEF Next, Trading, Place, Finish, OnUserOrderNew, OnUserOrderDone, OnOrderFilled,
       OnOrderFailed, OnPositionClosed, ActivateKill,
     OpenPosition, LeaveUnreported, OnManualClosed, SerialWrite, ConcurrentWrite, PoolReturns, vars
  <2> QED
    BY <1>2, <2>1 DEF Replaying
<1>5. line \in Seq(Writes) /\ Len(line) \in Nat
  <2>1. line \in Seq(Writes)
    BY DEF TypeOK
  <2> QED
    BY <2>1, LenProperties
<1>6. ASSUME UNCHANGED <<row, line, way>>,
             \A o \in Orders : (Held(o)' => Held(o)) /\ (RowOf(o) => RowOf(o)')
      PROVE  LineRows'
  BY <1>2, <1>5, <1>6, RowAside
<1>7. ASSUME NEW o \in Orders, Place(o) \/ (\E outcome \in {"open", "canceled"} : Finish(o, outcome))
      PROVE  LineRows'
  <2>1. /\ UNCHANGED <<row, line, way, told, left>> /\ trade[o] \in {"none", "working"}
        /\ \A p \in Orders : p # o => trade'[p] = trade[p]
    BY <1>7 DEF Place, Finish, tables, TypeOK
  <2>2. o \notin told
    BY <2>1 DEF Trades
  <2> QED
    BY <1>6, <2>1, <2>2 DEF Held, RowOf, HasRow
<1>8. ASSUME NEW o \in Orders, OnUserOrderNew(o) PROVE LineRows'
  BY <1>6, <1>8 DEF OnUserOrderNew, tables, Held, RowOf, HasRow
<1>9. ASSUME NEW o \in Orders, OnUserOrderDone(o) PROVE LineRows'
  <2>1. UNCHANGED <<row, way>> /\ \A p \in Orders : (Held(p)' => Held(p)) /\ (RowOf(p) => RowOf(p)')
    BY <1>9 DEF OnUserOrderDone, tables, Held, RowOf, HasRow
  <2>2. PICK x, y \in Writes :
          /\ x.kind = "fill" /\ x.id = o /\ y.kind = "order" /\ y.id = o
          /\ line' = IF WasFilled(o) THEN line \o <<x, y>> ELSE line
    BY <1>9, DoneLine
  <2>3. CASE ~WasFilled(o)
    BY <1>6, <2>1, <2>2, <2>3
  <2>4. CASE WasFilled(o)
    <3>1. /\ Len(line') = Len(line) + 2 /\ \A i \in 1..Len(line) : line'[i] = line[i]
          /\ line'[Len(line) + 1] = x /\ line'[Len(line) + 2] = y
      BY <1>5, <2>2, <2>4, PairJoined
    <3>2. \A i \in 1..Len(line') : i > Len(line) => i = Len(line) + 1 \/ i = Len(line) + 2
      BY <1>5, <3>1
    <3>3. \A i \in 1..Len(line') : i > Len(line) => line'[i].kind \notin {"open", "close"}
      BY <2>2, <3>1, <3>2
    <3>4. Len(line') \in Nat /\ Len(line) <= Len(line')
      BY <1>5, <3>1
    <3> QED
      BY <1>2, <1>5, <2>1, <3>1, <3>3, <3>4, RowAside
  <2> QED
    BY <2>3, <2>4
<1>10. ASSUME NEW o \in Orders, OnOrderFailed(o) PROVE LineRows'
  <2>1. /\ UNCHANGED <<row, line, way, trade, left>> /\ told' = told \cup {o} /\ trade[o] = "canceled"
    BY <1>10 DEF OnOrderFailed, tables
  <2> QED
    BY <1>6, <2>1 DEF Held, RowOf, HasRow
<1>11. ASSUME SerialWrite PROVE LineRows'
  <2>1. /\ line # <<>> /\ line' = Tail(line) /\ Write(Head(line)) /\ UNCHANGED <<way, trade, told, left>>
        /\ Head(line) \in Writes /\ Head(line) = line[1]
    BY <1>11, HeadOfLine DEF SerialWrite, world
  <2>2. /\ line[1].kind = "open" => row' = IF row = "none" THEN line[1].id ELSE row
        /\ line[1].kind = "close" => row' = "none"
        /\ line[1].kind \notin {"open", "close"} => row' = row
    BY <1>2, <2>1, RowWritten
  <2> QED
    BY <1>2, <2>1, <2>2, RowHead
<1>12. ASSUME NEW x \in tasks, ConcurrentWrite(x) PROVE LineRows'
  <2>1. x \in Writes /\ x.kind = "order"
    BY DEF TypeOK, OrderWrites
  <2>2. Write(x) /\ UNCHANGED <<line, way, trade, told, left>>
    BY <1>12 DEF ConcurrentWrite, world
  <2>3. row' = row
    BY <1>2, <2>1, <2>2, RowWritten
  <2> QED
    BY <1>6, <2>2, <2>3 DEF Held, RowOf, HasRow
<1>13. ASSUME PoolReturns \/ UNCHANGED vars PROVE LineRows'
  BY <1>6, <1>13 DEF PoolReturns, vars, world, tables, Held, RowOf, HasRow
<1>14. ASSUME ActivateKill \/ OpenPosition PROVE LineRows'
  <2>1. /\ trade' = [o \in Orders |-> IF trade[o] = "open" THEN "closed" ELSE trade[o]]
        /\ left' = left \cup {o \in Orders : trade[o] \in {"working", "open"}}
        /\ UNCHANGED <<row, line, way, told>>
    BY <1>14 DEF ActivateKill, OpenPosition, LeaveUnreported, tables
  <2>2. \A o \in Orders : (Held(o)' => Held(o)) /\ (RowOf(o) => RowOf(o)')
    BY <2>1 DEF Held, RowOf, HasRow
  <2> QED
    BY <1>6, <2>1, <2>2
<1>15. ASSUME NEW o \in Orders, OnPositionClosed(o) PROVE LineRows'
  <2>1. \A p \in Orders : ~Held(p)'
    BY <1>15 DEF OnPositionClosed, Trades, AtWork, Held, TypeOK
  <2> QED
    BY <1>15, <2>1, RowClosed DEF OnPositionClosed
<1>16. ASSUME OnManualClosed PROVE LineRows'
  <2>1. \A p \in Orders : ~Held(p)'
    BY <1>16 DEF OnManualClosed, Trades, Held
  <2> QED
    BY <1>16, <2>1, RowClosed DEF OnManualClosed
<1> QED
  BY <1>2, <1>3, <1>4, <1>7, <1>8, <1>9, <1>10, <1>11, <1>12, <1>13, <1>14, <1>15,
     <1>16, RowOpened DEF Next, Trading

(***************************************************************************)
(* The theorems.                                                           *)
(***************************************************************************)
LEMMA InvInit == Init => IInv
<1> SUFFICES ASSUME Init PROVE IInv
  OBVIOUS
<1>1. TypeOK
  BY TypeInit
<1>2. ~Replaying /\ up /\ ToSet(replay) = {} /\ line = <<>> /\ Len(line) = 0
  BY SetOfEmpty, EmptySeq DEF Init, Replaying
<1>3. FillsInv /\ FillKept /\ OrdersInv /\ OrderKept
  BY <1>2 DEF Init, FillsInv, FillsReplayed, FillKept, OrdersInv, OrderKept
<1>4. Trades
  BY DEF Init, Trades, AtWork
<1>5. LineRows
  BY <1>2 DEF LineRows, OpenAt, Held, Init
<1> QED
  BY <1>1, <1>2, <1>3, <1>4, <1>5 DEF IInv, RowInv

\* Every step keeps the invariant.
LEMMA InvStep == IInv /\ [Next]_vars => IInv'
BY TypeStep, TradesStep, FillsStep, KeptStep, RowStep DEF IInv

\* So it holds in every execution.
LEMMA InvHolds == Spec => []IInv
BY InvInit, InvStep, PTL DEF Spec

\* A fill the user stream confirmed is never lost between the bus and the table, whatever
\* the number of outages, redeliveries and replays.
THEOREM FillsKept == Spec => []FillKept
<1>1. IInv => FillKept
  BY DEF IInv
<1> QED
  BY <1>1, InvHolds, PTL

\* Without a replay no reported order is lost either, although the row of the unnamed
\* order may be refused as often as it is tried.
THEOREM OrdersKept == Spec => []OrderKept
<1>1. IInv => OrderKept
  BY DEF IInv
<1> QED
  BY <1>1, InvHolds, PTL

\* When its writes are through, a reported position has the open row of its symbol, and
\* that row is of the position held or of one that left the book unreported since the
\* last close, for any number of trades, kills and positions of an operator.
THEOREM RowFollowsBook == Spec => []RowIsBook
<1>1. IInv => RowIsBook
  <2> SUFFICES ASSUME IInv, Undisturbed, \A x \in ToSet(line) : x.kind \notin {"open", "close"}
               PROVE  /\ \A o \in told : trade[o] = "open" => row # "none"
                      /\ row # "none" => \E o \in told : row = way[o] /\ HasRow(o)
    BY DEF RowIsBook, Undisturbed
  <2>1. line \in Seq(Writes) /\ told \subseteq Orders /\ LineRows
    BY DEF IInv, TypeOK, RowInv
  <2>2. \A i \in 1..Len(line) : line[i].kind \notin {"open", "close"}
    BY <2>1, SetOfSeq
  <2>3. \A i \in Nat : ~OpenAt(i) /\ ~ClosedAfter(i)
    BY <2>2 DEF OpenAt, CloseAt, ClosedAfter
  <2>4. \A o \in told : trade[o] = "open" => row # "none"
    BY <2>1, <2>3 DEF LineRows, Held
  <2>5. row # "none" => \E o \in told : row = way[o] /\ HasRow(o)
    BY <2>1, <2>3 DEF LineRows, RowOf
  <2> QED
    BY <2>4, <2>5
<1> QED
  BY <1>1, InvHolds, PTL
=============================================================================
