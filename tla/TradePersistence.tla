--------------------------- MODULE TradePersistence ---------------------------
(***************************************************************************)
(* TradePersistence (storage/trade_persistence.py): the handlers that      *)
(* write orders, fills and positions to PostgreSQL, the file data/trade_   *)
(* wal.jsonl that keeps the writes that failed, and its replay.            *)
(*                                                                         *)
(* ORDER_FILLED, FILL_CONFIRMED and POSITION_CLOSED are serial events: the *)
(* bus runs their handlers one after the other, so their writes form one   *)
(* line.  USER_ORDER_UPDATE and ORDER_FAILED are not: each handler is a    *)
(* task of its own with a connection of its own, and their writes reach    *)
(* the database in any order.                                              *)
(*                                                                         *)
(* Each order is the entry of one trade of one symbol; an order has one    *)
(* fill, which has the order's name.  Not every position ends with a       *)
(* POSITION_CLOSED: activate_kill_switch empties the book and publishes    *)
(* nothing by position, and open_position of POST /api/trade puts an       *)
(* operator's position, of which it publishes nothing either, in the place *)
(* of another.  What may happen in an execution is chosen in Init.         *)
(***************************************************************************)
EXTENDS Naturals, Sequences, FiniteSets, SequencesExt

CONSTANTS
  Orders,       \* the orders, each the entry of a trade, all of one symbol
  MaxRepeats,   \* deliveries of a user stream event beyond the first, and positions
                \* an operator opens
  MaxFaults,    \* outages of the database and connections that break after a commit
  MaxBacklog,   \* writes under way when a further event is handled
  MaxReplays,   \* calls of replay_wal
  Environments  \* the sets of events an execution may contain

\* "stream": the user data stream is there (live trading); "again": it delivers again what
\* it delivered (a restarted stream does not know it); "outage": the database is away
\* at times; "early": a position is closed before its ORDER_FILLED is out; "replay":
\* replay_wal is called; "hard": also while the database comes and goes; "restart": the
\* process restarts; "disk": the file cannot be written; "kill": the kill switch empties
\* the book; "manual": an operator opens positions; "single": only one order is placed.
Events == {"stream", "again", "outage", "early", "replay", "hard", "restart", "disk",
           "kill", "manual", "single"}

ASSUME PersistenceAssumption ==
  /\ IsFiniteSet(Orders) /\ Environments \subseteq SUBSET Events
  /\ MaxRepeats \in Nat /\ MaxFaults \in Nat /\ MaxBacklog \in Nat
  /\ MaxReplays \in Nat

VARIABLES
  may,       \* the events of this execution
  up,        \* the pool reaches the database
  way,       \* the direction of each trade
  trade,     \* what became of each order and of the position it opened
  streamed,  \* per order, the user stream events that were handled
  told,      \* the orders whose outcome the executor published
  hand,      \* the position in the book is the operator's
  left,      \* history: the orders whose position left the book unreported, until the
             \* close of a later position ends what row theirs had
  line,      \* the writes of the serial handlers, in order
  tasks,     \* the writes of the concurrent handlers
  orders,    \* the table orders: a row's status, or "absent"
  unnamed,   \* the order whose row has the empty client_order_id
  fills,     \* the table fills
  row,       \* the open row of the symbol in the table positions: its direction
  wal,       \* data/trade_wal.jsonl: the lines, whose order no property depends on
  replay,    \* <<>>, or <<the lines replay_wal has still to replay>>
  repeats, faults, replays  \* bounds

tables == <<orders, unnamed, fills, row>>
world == <<way, trade, streamed, told, hand, left, repeats>>
vars == <<may, up, world, line, tasks, tables, wal, replay, faults, replays>>

Replaying == replay # <<>>
Directions == {"long", "short"}
Statuses == {"new", "filled", "canceled", "failed"}

(***************************************************************************)
(* The writes.                                                             *)
(***************************************************************************)
OrderWrite(o, named, status) ==
  [kind |-> "order", id |-> o, named |-> named, status |-> status]
FillWrite(o) == [kind |-> "fill", id |-> o, named |-> TRUE, status |-> "filled"]
OpenWrite(d) == [kind |-> "open", id |-> d, named |-> TRUE, status |-> "open"]
CloseWrite == [kind |-> "close", id |-> "none", named |-> TRUE, status |-> "closed"]

\* client_order_id is UNIQUE, and the executor's events carry none: a second row with the
\* empty name is an error, not a conflict on order_id.
Violates(w) ==
  /\ w.kind = "order" /\ ~w.named
  /\ orders[w.id] = "absent" /\ unnamed # "none"

\* The four statements: upsert by order_id, insert or nothing, upsert of price and size
\* (never of the direction), update of the open row.
Commit(w) ==
  /\ orders' = IF w.kind = "order" THEN [orders EXCEPT ![w.id] = w.status] ELSE orders
  /\ unnamed' = IF w.kind = "order" /\ ~w.named /\ orders[w.id] = "absent" THEN w.id ELSE unnamed
  /\ fills' = IF w.kind = "fill" THEN fills \cup {w.id} ELSE fills
  /\ row' = CASE w.kind = "open" /\ row = "none" -> w.id
              [] w.kind = "close" -> "none"
              [] OTHER -> row

\* Mutant: positions go to the file too, where replay_wal has no use for them.
BufferAll(w) == {w}

\* Mutant: only fills go to the file.
BufferFills(w) == IF w.kind = "fill" THEN {w} ELSE {}

\* _wal_append, from persist_order and persist_fill only.
Buffer(w) == IF w.kind \in {"order", "fill"} THEN {w} ELSE {}

Keep(w) == wal' = wal \cup Buffer(w) \/ ("disk" \in may /\ UNCHANGED wal)

MayFail ==
  /\ "outage" \in may /\ (Replaying => "hard" \in may)
  /\ faults < MaxFaults /\ faults' = faults + 1

\* A persist_* call; it never raises.  A connection may break after the commit.
Write(w) ==
  \/ up /\ ~Violates(w) /\ Commit(w) /\ UNCHANGED <<wal, faults>>
  \/ (~up \/ Violates(w)) /\ Keep(w) /\ UNCHANGED <<tables, faults>>
  \/ up /\ ~Violates(w) /\ MayFail /\ Commit(w) /\ Keep(w)

(***************************************************************************)
(* What the executor, the exchange and the user stream publish.            *)
(***************************************************************************)
Room == Len(line) + Cardinality(tasks) <= MaxBacklog

Flat == ~hand /\ \A o \in Orders : trade[o] \notin {"working", "open"}

\* An order is placed: nothing is at work or held.
Place(o) ==
  /\ trade[o] = "none" /\ Flat
  /\ "single" \in may => \A p \in Orders : trade[p] = "none"
  /\ trade' = [trade EXCEPT ![o] = "working"]
  /\ UNCHANGED <<may, up, way, streamed, told, hand, left, repeats, line, tasks, tables, wal, replay, faults, replays>>

\* The exchange is done with it; what it filled is tracked while its reservation is there.
Finish(o, outcome) ==
  /\ trade[o] = "working"
  /\ trade' = [trade EXCEPT ![o] = IF outcome = "open" /\ o \in left THEN "closed" ELSE outcome]
  /\ UNCHANGED <<may, up, way, streamed, told, hand, left, repeats, line, tasks, tables, wal, replay, faults, replays>>

WasFilled(o) == trade[o] \in {"open", "closed"}
Outcome(o) == IF WasFilled(o) THEN "filled" ELSE "canceled"

Deliver(o, event) ==
  /\ "stream" \in may /\ Room
  /\ \/ event \notin streamed[o] /\ UNCHANGED repeats
     \/ "again" \in may /\ event \in streamed[o] /\ repeats < MaxRepeats /\ repeats' = repeats + 1
  /\ streamed' = [streamed EXCEPT ![o] = @ \cup {event}]

\* _on_user_order_update for an order at work.
OnUserOrderNew(o) ==
  /\ trade[o] # "none" /\ "done" \notin streamed[o] /\ Deliver(o, "new")
  /\ tasks' = tasks \cup {OrderWrite(o, TRUE, "new")}
  /\ UNCHANGED <<may, up, way, trade, told, hand, left, line, tables, wal, replay, faults, replays>>

\* _on_user_order_update for a finished order and, when it was filled, _on_fill_confirmed.
OnUserOrderDone(o) ==
  /\ trade[o] \notin {"none", "working"} /\ Deliver(o, "done")
  /\ tasks' = tasks \cup {OrderWrite(o, TRUE, Outcome(o))}
  /\ line' = IF WasFilled(o)
             THEN line \o <<FillWrite(o), OrderWrite(o, TRUE, "filled")>> ELSE line
  /\ UNCHANGED <<may, up, way, trade, told, hand, left, tables, wal, replay, faults, replays>>

\* Mutant: the position is written for any direction.
FilledEitherWay(o) ==
  /\ WasFilled(o) /\ o \notin told /\ Room
  /\ line' = line \o <<OrderWrite(o, FALSE, "filled"), OpenWrite("long")>>
  /\ told' = told \cup {o}
  /\ UNCHANGED <<may, up, way, trade, streamed, hand, left, repeats, tasks, tables, wal, replay, faults, replays>>

\* _on_order_filled.
OnOrderFilled(o) ==
  /\ WasFilled(o) /\ o \notin told /\ Room
  /\ line' = line \o <<OrderWrite(o, FALSE, "filled"), OpenWrite(way[o])>>
  /\ told' = told \cup {o}
  /\ UNCHANGED <<may, up, way, trade, streamed, hand, left, repeats, tasks, tables, wal, replay, faults, replays>>

\* _on_order_failed.
OnOrderFailed(o) ==
  /\ trade[o] = "canceled" /\ o \notin told /\ Room
  /\ tasks' = tasks \cup {OrderWrite(o, FALSE, "failed")}
  /\ told' = told \cup {o}
  /\ UNCHANGED <<may, up, way, trade, streamed, hand, left, repeats, line, tables, wal, replay, faults, replays>>

\* What is in the book leaves it, and nothing is published of it.
LeaveUnreported ==
  /\ trade' = [o \in Orders |-> IF trade[o] = "open" THEN "closed" ELSE trade[o]]
  /\ left' = left \cup {o \in Orders : trade[o] \in {"working", "open"}}
  /\ UNCHANGED <<may, up, way, streamed, told, line, tasks, tables, wal, replay, faults, replays>>

\* activate_kill_switch: of _auto_close_on_trip, or of POST /api/positions/close-all.
ActivateKill ==
  "kill" \in may /\ ~Flat /\ LeaveUnreported /\ hand' = FALSE /\ UNCHANGED repeats

\* open_position, of POST /api/trade.
OpenPosition ==
  /\ "manual" \in may /\ LeaveUnreported /\ hand' = TRUE
  /\ repeats < MaxRepeats /\ repeats' = repeats + 1

\* The operator's position is closed: the open row of the symbol, whoever opened it, ends.
OnManualClosed ==
  /\ hand /\ Room
  /\ hand' = FALSE /\ left' = left \ told
  /\ line' = Append(line, CloseWrite)
  /\ UNCHANGED <<may, up, way, trade, streamed, told, repeats, tasks, tables, wal, replay, faults, replays>>

\* The position is closed and _on_position_closed handles it.
OnPositionClosed(o) ==
  /\ trade[o] = "open" /\ Room
  /\ o \in told \/ "early" \in may
  /\ trade' = [trade EXCEPT ![o] = "closed"]
  /\ left' = left \ told
  /\ line' = Append(line, CloseWrite)
  /\ UNCHANGED <<may, up, way, streamed, told, hand, repeats, tasks, tables, wal, replay, faults, replays>>

(***************************************************************************)
(* The handlers' writes, the replay and the process.                       *)
(***************************************************************************)
\* Mutant: the handler waits until the database is there.
PatientWrite ==
  /\ line # <<>> /\ up
  /\ Write(Head(line))
  /\ line' = Tail(line)
  /\ UNCHANGED <<may, up, world, tasks, replay, replays>>

SerialWrite ==
  /\ line # <<>>
  /\ Write(Head(line))
  /\ line' = Tail(line)
  /\ UNCHANGED <<may, up, world, tasks, replay, replays>>

ConcurrentWrite(w) ==
  /\ w \in tasks
  /\ Write(w)
  /\ tasks' = tasks \ {w}
  /\ UNCHANGED <<may, up, world, line, replay, replays>>

\* Mutant: the file is removed when it has been read.
ForgetfulReplay ==
  /\ "replay" \in may /\ ~Replaying /\ wal # {} /\ replays < MaxReplays
  /\ up \/ "hard" \in may
  /\ replay' = <<wal>> /\ wal' = {} /\ replays' = replays + 1
  /\ UNCHANGED <<may, up, world, line, tasks, tables, faults>>

\* replay_wal reads the file once.
StartReplay ==
  /\ "replay" \in may /\ ~Replaying /\ wal # {} /\ replays < MaxReplays
  /\ up \/ "hard" \in may
  /\ replay' = <<wal>> /\ replays' = replays + 1
  /\ UNCHANGED <<may, up, world, line, tasks, tables, wal, faults>>

ReplayLine ==
  /\ \E lines \in ToSet(replay) : \E w \in lines :
       Write(w) /\ replay' = <<lines \ {w}>>
  /\ UNCHANGED <<may, up, world, line, tasks, replays>>

\* No line raised, so none remains and the file is removed, with what was appended since.
EndReplay ==
  /\ replay = <<{}>>
  /\ wal' = {} /\ replay' = <<>>
  /\ UNCHANGED <<may, up, world, line, tasks, tables, faults, replays>>

PoolFails ==
  /\ up /\ MayFail
  /\ up' = FALSE
  /\ UNCHANGED <<may, world, line, tasks, tables, wal, replay, replays>>

PoolReturns ==
  /\ ~up /\ up' = TRUE
  /\ UNCHANGED <<may, world, line, tasks, tables, wal, replay, faults, replays>>

\* The file stays; a live process starts only when the database is there.
Restart ==
  /\ "restart" \in may /\ up
  /\ line' = <<>> /\ tasks' = {} /\ replay' = <<>>
  /\ UNCHANGED <<may, up, world, tables, wal, faults, replays>>

Init ==
  /\ may \in Environments
  /\ up = TRUE
  /\ way \in [Orders -> Directions]
  /\ trade = [o \in Orders |-> "none"] /\ streamed = [o \in Orders |-> {}] /\ told = {}
  /\ hand = FALSE /\ left = {}
  /\ line = <<>> /\ tasks = {}
  /\ orders = [o \in Orders |-> "absent"] /\ unnamed = "none" /\ fills = {} /\ row = "none"
  /\ wal = {} /\ replay = <<>> /\ repeats = 0 /\ faults = 0 /\ replays = 0

Trading(o) ==
  \/ Place(o)
  \/ \E outcome \in {"open", "canceled"} : Finish(o, outcome)
  \/ OnUserOrderNew(o) \/ OnUserOrderDone(o)
  \/ OnOrderFilled(o) \/ OnOrderFailed(o) \/ OnPositionClosed(o)

Next ==
  \/ \E o \in Orders : Trading(o)
  \/ ActivateKill \/ OpenPosition \/ OnManualClosed
  \/ SerialWrite
  \/ \E w \in tasks : ConcurrentWrite(w)
  \/ StartReplay \/ ReplayLine \/ EndReplay
  \/ PoolFails \/ PoolReturns \/ Restart

Spec == Init /\ [][Next]_vars

\* The handlers are coroutines of the event loop, and every call they wait for ends.
FairSpec ==
  /\ Spec
  /\ WF_vars(SerialWrite) /\ WF_vars(\E w \in tasks : ConcurrentWrite(w))
  /\ WF_vars(ReplayLine \/ EndReplay)

(***************************************************************************)
(* Properties.                                                             *)
(***************************************************************************)
Writes ==
  {OrderWrite(o, named, s) : o \in Orders, named \in BOOLEAN, s \in Statuses}
    \cup {FillWrite(o) : o \in Orders} \cup {OpenWrite(d) : d \in Directions} \cup {CloseWrite}
OrderWrites == {w \in Writes : w.kind = "order"}
KeptWrites == {w \in Writes : w.kind \in {"order", "fill"}}

\* The variables keep their types; only failed order and fill writes are in the file, and
\* concurrent tasks write orders only.
TypeOK ==
  /\ may \in Environments /\ up \in BOOLEAN
  /\ way \in [Orders -> Directions]
  /\ trade \in [Orders -> {"none", "working", "canceled", "open", "closed"}]
  /\ streamed \in [Orders -> SUBSET {"new", "done"}] /\ told \subseteq Orders
  /\ hand \in BOOLEAN /\ left \subseteq Orders
  /\ line \in Seq(Writes) /\ tasks \subseteq OrderWrites
  /\ orders \in [Orders -> Statuses \cup {"absent"}] /\ unnamed \in Orders \cup {"none"}
  /\ fills \subseteq Orders /\ row \in Directions \cup {"none"}
  /\ wal \subseteq KeptWrites /\ replay \in Seq(SUBSET KeptWrites) /\ Len(replay) <= 1
  /\ repeats \in 0..MaxRepeats /\ faults \in 0..MaxFaults /\ replays \in 0..MaxReplays

\* A write of this kind for the order is still to come.
Due(kind, o) ==
  \E w \in ToSet(line) \cup tasks \cup wal : w.kind = kind /\ w.id = o

\* A fill the user stream confirmed is in the table, in the file or about to be written,
\* whatever fails in between; also across a replay, as long as the database stays while the
\* replay runs, the process lives and the file can be written.
FillKept ==
  may \cap {"hard", "restart", "disk"} = {} =>
    \A o \in Orders :
      "done" \in streamed[o] /\ WasFilled(o) => o \in fills \/ Due("fill", o)

\* An order somebody reported on has a row, or a write that will make one is in the file
\* or about to be tried; a replay breaks this, since it removes the file although the
\* unnamed order it held was refused again.
OrderKept ==
  may \cap {"replay", "restart", "disk"} = {} =>
    \A o \in Orders :
      streamed[o] # {} \/ o \in told => orders[o] # "absent" \/ Due("order", o)

\* The position of the order is held, or left the book unreported and no close came since.
HasRow(o) == trade[o] = "open" \/ (trade[o] = "closed" /\ o \in left)

\* When no write failed and no close overtook its open, and only reports are still to
\* come: a position that was reported has the open row of positions, and that row is of
\* the position held or of one that left the book unreported since the last close; it
\* keeps the direction of that one under the next position.  So without kills and an
\* operator's positions the row is the position held, also after the symbol was entered
\* the other way, and there is none when flat.
RowIsBook ==
  /\ may \subseteq {"stream", "again", "kill", "manual"}
  /\ \A w \in ToSet(line) : w.kind \notin {"open", "close"}
  => /\ \A o \in told : trade[o] = "open" => row # "none"
     /\ row # "none" => \E o \in told : row = way[o] /\ HasRow(o)

\* Every write comes to its end, in the database or in the file: an unreachable database
\* never holds up the line of serial events for good.
Drains == <>[](line = <<>> /\ tasks = {} /\ ~Replaying)
=============================================================================
