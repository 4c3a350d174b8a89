----------------------------- MODULE OrderManager -----------------------------
(***************************************************************************)
(* The orders of one venue and symbol: OrderManager (execution/            *)
(* order_manager.py) with its PersistentIdempotencyManager (core/          *)
(* idempotency.py, core/persistent_idempotency.py), the endpoints that     *)
(* place and cancel orders (interface/routes/orders.py, /api/trade) and    *)
(* the restart of the process.                                             *)
(*                                                                         *)
(* No critical section of the manager contains an await, so each is one    *)
(* step.  Time is counted in units of the 30 s of the fill timeout; an     *)
(* execution is shorter than the 24 h an idempotency key lives, and has    *)
(* fewer keys than the 50000 that are kept.  REJECTED, EXPIRED and OPEN    *)
(* are never assigned: an unfilled order that was submitted is cancelled   *)
(* by the fill timeout before the limit expiry looks at it.  Input checks  *)
(* and an open breaker only refuse, and are left out.                      *)
(***************************************************************************)
EXTENDS Integers, FiniteSets, Sequences, SequencesExt

CONSTANTS
  Clients,          \* client order ids that callers choose, and may send again
  Generated,        \* stands for the ids the program generates, each used once
  Amount,           \* quantity of an order
  FillTimeout,      \* age at which a submitted order must be 70 % filled
  SelfTradeWindow,  \* age up to which an order blocks the opposite side
  SaveInterval,     \* least time between two writes of the idempotency file
  OrderTtl,         \* how long a finished order stays in the book
  MaxOrders, MaxTime, MaxRestarts,   \* bounds of the model
  Environments      \* the sets of events an execution may contain

\* "api": orders and cancels from the endpoints; "time": time passes; "restart": the
\* process stops or crashes; "restore": it restores its orders when it starts; the rest
\* belongs to PaperExchange.
Events == {"api", "time", "restart", "restore", "signal", "part", "manual", "kill", "disk"}

ASSUME OrderAssumption ==
  /\ Generated \notin Clients
  /\ Amount \in Nat \ {0}
  /\ FillTimeout \in Nat \ {0} /\ SaveInterval \in Nat \ {0}
  /\ SelfTradeWindow \in Nat \ {0} /\ OrderTtl \in Nat \ {0}
  /\ MaxOrders \in Nat /\ MaxTime \in Nat /\ MaxRestarts \in Nat
  /\ Environments \subseteq SUBSET Events

VARIABLES
  may,       \* the events of this execution
  orders,    \* every order created; kept: it is in the book (self.orders)
  index,     \* client_order_map for the ids in Clients, 0 for none
  keys,      \* idempotency records
  savedAt,   \* when they were last written in this life, Never
  savedKeys, \* idempotency_store.json
  snapshot,  \* order_state.json: [orders, clients]
  up,        \* the process runs
  clock,
  life,      \* restarts so far
  revived    \* history: orders filled after they were cancelled

files == <<savedKeys, snapshot>>
process == <<may, up, clock, life>>
omVars == <<orders, index, keys, savedAt, files, process, revived>>

Never == -1
Orders == DOMAIN orders
Sides == {"buy", "sell"}
ActiveStatus == {"pending", "submitted", "partial"}
Active(o) == orders[o].kept /\ orders[o].status \in ActiveStatus
Age(o) == clock - orders[o].made

\* The order a client order id leads to.
Named(o) == IF orders[o].client = Generated THEN o ELSE index[orders[o].client]

(***************************************************************************)
(* place_order.                                                            *)
(***************************************************************************)
\* _maybe_save: every access to the records, no more than once per interval.
Saved(now) ==
  IF savedAt = Never \/ clock - savedAt >= SaveInterval
  THEN savedAt' = clock /\ savedKeys' = now
  ELSE UNCHANGED <<savedAt, savedKeys>>

\* check_and_set; a generated id is not seen again.
Remember(client) ==
  /\ keys' = keys \cup ({client} \ {Generated})
  /\ Saved(keys')

\* Mutant: an order that is not yet with the exchange blocks nothing.
OpposedByLive(side) ==
  \E o \in Orders : /\ Active(o) /\ orders[o].status # "pending"
                    /\ orders[o].side # side /\ Age(o) < SelfTradeWindow

\* _check_self_trade.
Opposed(side) ==
  \E o \in Orders : Active(o) /\ orders[o].side # side /\ Age(o) < SelfTradeWindow

\* A client order id that is known, and still leads to an order, is a retry.
Retry(client) == client \in keys /\ index[client] # 0

NewOrder(client, side, qty, status, filled) ==
  [client |-> client, side |-> side, qty |-> qty, status |-> status, filled |-> filled,
   made |-> clock, touched |-> clock, kept |-> TRUE, life |-> life]

\* The order is stored, under its client order id too.
Create(client, side, qty, status, filled) ==
  /\ Len(orders) < MaxOrders
  /\ ~Opposed(side)
  /\ orders' = Append(orders, NewOrder(client, side, qty, status, filled))
  /\ index' = IF client = Generated THEN index
              ELSE [index EXCEPT ![client] = Len(orders')]
  /\ Remember(client)

\* Mutant: a retry is answered like a first request.
PlaceAgain(client, side) ==
  /\ up /\ "api" \in may
  /\ Create(client, side, Amount, "pending", 0)
  /\ UNCHANGED <<snapshot, process, revived>>

\* POST /orders: the order waits in the book, nobody submits it.
Place(client, side) ==
  /\ up /\ "api" \in may
  /\ IF ~Retry(client) /\ ~Opposed(side)
     THEN Create(client, side, Amount, "pending", 0)
     ELSE Remember(client) /\ UNCHANGED <<orders, index>>
  /\ UNCHANGED <<snapshot, process, revived>>

\* POST /api/trade at market, on paper: the order is placed, confirmed and filled without
\* suspending.
Trade(side) ==
  /\ up /\ "api" \in may
  /\ Create(Generated, side, Amount, "filled", Amount)
  /\ UNCHANGED <<snapshot, process, revived>>

(***************************************************************************)
(* Fills, cancels, monitors.                                               *)
(***************************************************************************)
\* record_fill, for an order that can still be found; a fill is never refused.
AfterFill(o, q) ==
  IF ~orders[o].kept THEN orders
  ELSE [orders EXCEPT ![o].filled = @ + q,
                      ![o].status = IF orders[o].filled + q = orders[o].qty THEN "filled"
                                    ELSE "partial",
                      ![o].touched = clock]
RecordFill(o, q) ==
  /\ orders' = AfterFill(o, q)
  /\ revived' = IF orders[o].kept /\ orders[o].status = "cancelled"
                THEN revived \cup {o} ELSE revived

\* cancel_order for the orders that the client ids of S lead to.
AfterCancel(S) ==
  [o \in Orders |-> IF Active(o) /\ o \in {Named(p) : p \in S}
                    THEN [orders[o] EXCEPT !.status = "cancelled"] ELSE orders[o]]

\* DELETE /orders/{order_id}: found by its id, cancelled by its client order id.
Cancel(o) ==
  /\ up /\ "api" \in may
  /\ orders[o].kept
  /\ orders' = AfterCancel({o}) /\ orders' # orders
  /\ UNCHANGED <<index, keys, savedAt, files, process, revived>>

\* run(): _monitor_partial_fills, which leaves _monitor_limit_expiry nothing to expire.
MonitorFills ==
  /\ up
  /\ LET due == {o \in Orders : /\ Active(o) /\ orders[o].status # "pending"
                                /\ Age(o) >= FillTimeout
                                /\ orders[o].filled * 10 < orders[o].qty * 7}
     IN  due # {} /\ orders' = AfterCancel(due)
  /\ UNCHANGED <<index, keys, savedAt, files, process, revived>>

\* run(): finished orders leave the book, and their client ids the map.
CleanUp ==
  /\ up
  /\ LET old == {o \in Orders : /\ orders[o].kept /\ ~Active(o)
                                /\ clock - orders[o].touched > OrderTtl}
     IN  /\ old # {}
         /\ orders' = [o \in Orders |-> [orders[o] EXCEPT !.kept = @ /\ o \notin old]]
         /\ index' = [c \in Clients |-> IF \E o \in old : orders[o].client = c
                                        THEN 0 ELSE index[c]]
  /\ UNCHANGED <<keys, savedAt, files, process, revived>>

PassTime ==
  /\ "time" \in may /\ clock < MaxTime
  /\ clock' = clock + 1
  /\ UNCHANGED <<may, up, life, orders, index, keys, savedAt, files, revived>>

(***************************************************************************)
(* The process: stop() writes the orders, not the keys; a crash writes     *)
(* nothing; only a process told to restore reads the orders back, and maps *)
(* the last order of each client order id that was mapped (an empty list   *)
(* of ids restricts nothing).                                              *)
(***************************************************************************)
Halt ==
  /\ up /\ "restart" \in may
  /\ up' = FALSE
  /\ UNCHANGED <<may, clock, life, orders, index, keys, savedAt, savedKeys, revived>>

StopOrders ==
  /\ Halt
  /\ snapshot' = [orders |-> [o \in {p \in Orders : orders[p].kept} |-> orders[o]],
                  clients |-> {orders[o].client : o \in {p \in Orders : orders[p].kept /\ Named(p) # 0}}]
CrashOrders == Halt /\ UNCHANGED snapshot

StartOrders ==
  /\ ~up /\ life < MaxRestarts
  /\ up' = TRUE /\ life' = life + 1
  /\ LET back == IF "restore" \in may THEN snapshot.orders ELSE <<>>
         mapped(c) == {o \in DOMAIN back : /\ back[o].client = c
                                           /\ snapshot.clients # {} => c \in snapshot.clients}
     IN  /\ orders' = [o \in Orders |-> IF o \in DOMAIN back THEN back[o]
                                        ELSE [orders[o] EXCEPT !.kept = FALSE]]
         /\ index' = [c \in Clients |-> IF mapped(c) = {} THEN 0 ELSE Max(mapped(c))]
  /\ keys' = savedKeys /\ savedAt' = Never
  /\ UNCHANGED <<may, clock, files, revived>>

OrderInit ==
  /\ may \in Environments
  /\ orders = <<>> /\ index = [c \in Clients |-> 0]
  /\ keys = {} /\ savedAt = Never /\ savedKeys = {}
  /\ snapshot = [orders |-> <<>>, clients |-> {}]
  /\ up = TRUE /\ clock = 0 /\ life = 0 /\ revived = {}

OrderRecords ==
  [client : Clients \cup {Generated}, side : Sides, qty : 1..Amount,
   status : ActiveStatus \cup {"filled", "cancelled"}, filled : Nat,
   made : Nat, touched : Nat, kept : BOOLEAN, life : Nat]

OrderTypeOK ==
  /\ may \in Environments
  /\ orders \in Seq(OrderRecords)
  /\ DOMAIN snapshot.orders \subseteq Orders
  /\ \A o \in DOMAIN snapshot.orders : snapshot.orders[o] \in OrderRecords
  /\ index \in [Clients -> 0..Len(orders)]
  /\ keys \subseteq Clients /\ savedKeys \subseteq Clients
  /\ savedAt \in {Never} \cup Nat
  /\ up \in BOOLEAN /\ clock \in 0..MaxTime /\ life \in 0..MaxRestarts
  /\ revived \subseteq Orders
=============================================================================
