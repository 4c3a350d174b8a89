---------------------------- MODULE PaperExchange ----------------------------
(***************************************************************************)
(* One symbol traded on paper: SimulatedExchangeExecutor (execution/       *)
(* simulated_exchange.py) over OrderManager, the position RiskManager      *)
(* tracks and its row in SQLite, through stops and crashes.                *)
(*                                                                         *)
(* SIGNAL, STOP_LOSS, TAKE_PROFIT and KILL_SWITCH are handled one at a     *)
(* time by the worker w; the dashboard's close d and the completion of a   *)
(* partial fill run beside it.  Each suspends only in the simulated        *)
(* latencies; between two of them it is one step.  Entries buy; the market *)
(* orders of /api/trade go either way, and put their position in the place *)
(* of the one there was.  The 300 s cooldown outlasts a close and a        *)
(* completion (0.25 s).                                                    *)
(***************************************************************************)
EXTENDS OrderManager

VARIABLES
  pos,       \* RiskManager: the tracked position [kind, qty, order]; history: the order
             \* that set the quantity (by) and whether an operator opened it (hand)
  rows,      \* SQLite: the open rows [order, qty]
  unsaved,   \* history: the orders of which an insert into SQLite failed
  killed,    \* RiskManager._killed
  w, d,      \* the worker and the dashboard [pc, order]
  rest       \* the entry order whose completion is scheduled, 0 for none

ledger == <<rows, unsaved>>
paperVars == <<pos, ledger, killed, w, d, rest>>
vars == <<omVars, paperVars>>
kept == <<index, keys, savedAt, files, process>>   \* all that fills and cancels leave alone

NoPosition == [kind |-> "none", qty |-> 0, order |-> 0, by |-> 0, hand |-> FALSE]
Idle == [pc |-> "idle", order |-> 0]
HasRow == \E r \in rows : r.order = pos.order
Exit == IF orders[pos.order].side = "buy" THEN "sell" ELSE "buy"

Book(kind, qty, order, by, hand) ==
  pos' = [kind |-> kind, qty |-> qty, order |-> order, by |-> by, hand |-> hand]

\* insert_position; that it raised is only logged.
Insert(order, qty) ==
  \/ rows' = rows \cup {[order |-> order, qty |-> qty]} /\ UNCHANGED unsaved
  \/ "disk" \in may /\ unsaved' = unsaved \cup {order} /\ UNCHANGED rows

\* Mutant: the fill is booked whether or not there is a position.
RebaseBlindly(order, qty) ==
  /\ Book("open", qty, pos.order, order, pos.hand)
  /\ IF HasRow THEN UNCHANGED ledger ELSE Insert(pos.order, qty)

\* rebase_position_to_fill, after a fill of the order: the position there is, whoever
\* opened it, gets the quantity, and a row in SQLite if it has none yet.
Rebase(order, qty) ==
  IF pos.kind = "none" THEN UNCHANGED <<pos, ledger>>
  ELSE /\ Book("open", qty, pos.order, order, pos.hand)
       /\ IF HasRow THEN UNCHANGED ledger ELSE Insert(pos.order, qty)

\* RiskManager.close_position: the row is closed with the position, or the failure logged.
CloseInBook ==
  /\ pos' = NoPosition
  /\ \/ rows' = {r \in rows : r.order # pos.order}
     \/ "disk" \in may /\ UNCHANGED rows
  /\ UNCHANGED unsaved

\* POST /api/trade on paper: open_position puts the operator's position into the book,
\* in the place of the one there was, whose row stays open.
OpenPosition(side) ==
  /\ Trade(side)
  /\ Book("open", Amount, Len(orders'), Len(orders'), TRUE)
  /\ Insert(Len(orders'), Amount)
  /\ UNCHANGED <<killed, w, d, rest>>

\* place_order and confirm_order_submission, by the executor: the number of the order.
Submitted(side, qty) == Create(Generated, side, qty, "submitted", 0)
Refused == Remember(Generated) /\ UNCHANGED <<orders, index>>

(***************************************************************************)
(* _handle_signal and _simulate_entry_fill.                                *)
(***************************************************************************)
\* The reservation, then the order; refused, the reservation is cancelled at once.
Signal ==
  /\ up /\ "signal" \in may /\ ~killed
  /\ w = Idle /\ d = Idle /\ rest = 0 /\ pos.kind = "none"
  /\ \/ /\ Submitted("buy", Amount)
        /\ Book("pending", Amount, Len(orders'), Len(orders'), FALSE)
        /\ w' = [pc |-> "ack", order |-> Len(orders')]
     \/ Opposed("buy") /\ Refused /\ UNCHANGED <<pos, w>>
  /\ UNCHANGED <<snapshot, process, revived, ledger, killed, d, rest>>

\* Mutant: the rejection only cancels the order.
RejectOrderOnly ==
  /\ up /\ w.pc = "ack"
  /\ orders' = AfterCancel({w.order})
  /\ w' = Idle
  /\ UNCHANGED <<kept, revived, pos, ledger, killed, d, rest>>

\* A simulated rejection: the reservation is cancelled, and the order.
Reject ==
  /\ up /\ w.pc = "ack"
  /\ pos' = IF pos.kind = "pending" THEN NoPosition ELSE pos
  /\ orders' = AfterCancel({w.order})
  /\ w' = Idle
  /\ UNCHANGED <<kept, revived, ledger, killed, d, rest>>

FillEntry ==
  /\ up /\ w.pc = "ack"
  /\ RecordFill(w.order, Amount) /\ Rebase(w.order, Amount)
  /\ w' = Idle
  /\ UNCHANGED <<kept, killed, d, rest>>

\* Mutant: what was filled in part is not yet written down.
FillPartUnwritten(q) ==
  /\ up /\ "part" \in may /\ w.pc = "ack"
  /\ RecordFill(w.order, q)
  /\ IF pos.kind = "none" THEN UNCHANGED pos ELSE Book("open", q, pos.order, w.order, pos.hand)
  /\ w' = Idle /\ rest' = w.order
  /\ UNCHANGED <<kept, ledger, killed, d>>

FillPart(q) ==
  /\ up /\ "part" \in may /\ w.pc = "ack"
  /\ RecordFill(w.order, q) /\ Rebase(w.order, q)
  /\ w' = Idle /\ rest' = w.order
  /\ UNCHANGED <<kept, killed, d>>

\* Mutants: the completion fills the whole quantity; it books only what was left.
CompleteWhole ==
  /\ up /\ rest # 0
  /\ RecordFill(rest, Amount) /\ Rebase(rest, Amount)
  /\ rest' = 0
  /\ UNCHANGED <<kept, killed, w, d>>
CompleteRest ==
  /\ up /\ rest # 0
  /\ LET q == Amount - orders[rest].filled IN RecordFill(rest, q) /\ Rebase(rest, q)
  /\ rest' = 0
  /\ UNCHANGED <<kept, killed, w, d>>

\* _complete_partial_fill: the task knows what the order had left when it was created.
Complete ==
  /\ up /\ rest # 0
  /\ RecordFill(rest, Amount - orders[rest].filled) /\ Rebase(rest, Amount)
  /\ rest' = 0
  /\ UNCHANGED <<kept, killed, w, d>>

(***************************************************************************)
(* close_position, by the worker and by the dashboard.                     *)
(***************************************************************************)
\* The close order is placed for the quantity of now, or refused and nothing is closed.
ExitHit ==
  /\ up /\ w = Idle /\ pos.kind = "open"
  /\ \/ Submitted(Exit, pos.qty) /\ w' = [pc |-> "close", order |-> Len(orders')]
     \/ Opposed(Exit) /\ Refused /\ UNCHANGED w
  /\ UNCHANGED <<snapshot, process, revived, pos, ledger, killed, d, rest>>

DashboardClose ==
  /\ up /\ "manual" \in may /\ d = Idle /\ pos.kind # "none"
  /\ \/ Submitted(Exit, pos.qty) /\ d' = [pc |-> "close", order |-> Len(orders')]
     \/ Opposed(Exit) /\ Refused /\ UNCHANGED d
  /\ UNCHANGED <<snapshot, process, revived, pos, ledger, killed, w, rest>>

\* After the latencies: the fill, and the position that is there now is closed.
FinishClose ==
  /\ up /\ w.pc = "close"
  /\ RecordFill(w.order, orders[w.order].qty) /\ CloseInBook
  /\ w' = Idle
  /\ UNCHANGED <<kept, killed, d, rest>>

FinishDashboardClose ==
  /\ up /\ d.pc = "close"
  /\ RecordFill(d.order, orders[d.order].qty) /\ CloseInBook
  /\ d' = Idle
  /\ UNCHANGED <<kept, killed, w, rest>>

(***************************************************************************)
(* The kill switch.                                                        *)
(***************************************************************************)
\* activate_kill_switch: the book is emptied, SQLite is not told.
Swept == pos' = NoPosition /\ killed' = TRUE

\* _handle_kill_switch: a close order first, if one can be placed.
HandleKill ==
  /\ up /\ "kill" \in may /\ w = Idle /\ ~killed /\ pos.kind = "open"
  /\ \/ Submitted(Exit, pos.qty) /\ w' = [pc |-> "kill", order |-> Len(orders')]
        /\ UNCHANGED <<pos, killed>>
     \/ Opposed(Exit) /\ Refused /\ Swept /\ UNCHANGED w
  /\ UNCHANGED <<snapshot, process, revived, ledger, d, rest>>

FinishKill ==
  /\ up /\ w.pc = "kill"
  /\ RecordFill(w.order, orders[w.order].qty) /\ CloseInBook
  /\ killed' = TRUE /\ w' = Idle
  /\ UNCHANGED <<kept, d, rest>>

\* activate_kill_switch alone: after a trip, from the API, or with nothing to close.
Sweep ==
  /\ up /\ "kill" \in may /\ ~killed
  /\ Swept
  /\ UNCHANGED <<omVars, ledger, w, d, rest>>

Release ==
  /\ up /\ killed
  /\ killed' = FALSE
  /\ UNCHANGED <<omVars, pos, ledger, w, d, rest>>

(***************************************************************************)
(* The process.                                                            *)
(***************************************************************************)
\* _final_cleanup: the executor's completions are awaited, handlers are cut off.
Stop == rest = 0 /\ StopOrders /\ UNCHANGED paperVars
Crash == CrashOrders /\ UNCHANGED paperVars

\* restore_open_positions_from_sqlite: of several open rows the first is restored.
Start ==
  /\ StartOrders
  /\ pos' = IF rows = {} THEN NoPosition
            ELSE LET first == CHOOSE r \in rows : \A s \in rows : r.order <= s.order
                 IN  [kind |-> "open", qty |-> first.qty, order |-> first.order,
                      by |-> first.order, hand |-> FALSE]
  /\ killed' = FALSE /\ w' = Idle /\ d' = Idle /\ rest' = 0
  /\ UNCHANGED ledger

Init ==
  /\ OrderInit
  /\ pos = NoPosition /\ rows = {} /\ unsaved = {} /\ killed = FALSE
  /\ w = Idle /\ d = Idle /\ rest = 0

Api == \/ \E c \in Clients \cup {Generated}, side \in Sides : Place(c, side)
       \/ \E o \in Orders : Cancel(o)
       \/ MonitorFills \/ CleanUp \/ PassTime

Work == Reject \/ FillEntry \/ Complete \/ FinishClose \/ FinishDashboardClose \/ FinishKill
        \/ \E q \in 1..(Amount - 1) : FillPart(q)

Next == \/ Api /\ UNCHANGED paperVars
        \/ \E side \in Sides : OpenPosition(side)
        \/ Signal \/ ExitHit \/ DashboardClose \/ HandleKill \/ Sweep \/ Release \/ Work
        \/ Stop \/ Crash \/ Start

Spec == Init /\ [][Next]_vars
\* The simulated latencies are timers: what was begun goes on while the process runs.
FairSpec == Spec /\ WF_vars(Work)

(***************************************************************************)
(* Properties.                                                             *)
(***************************************************************************)
\* The variables keep their types: a position names the order that opened it.
TypeOK ==
  /\ OrderTypeOK
  /\ pos \in [kind : {"none", "pending", "open"}, qty : 0..Amount,
              order : 0..Len(orders), by : 0..Len(orders), hand : BOOLEAN]
  /\ rows \subseteq [order : Orders, qty : 1..Amount] /\ unsaved \subseteq Orders
  /\ killed \in BOOLEAN
  /\ w \in [pc : {"idle", "ack", "close", "kill"}, order : 0..Len(orders)]
  /\ d \in [pc : {"idle", "close"}, order : 0..Len(orders)]
  /\ rest \in 0..Len(orders)

\* No order is ever filled beyond its quantity, whatever is cancelled, completed or
\* restored in between.
NoOverfill == \A o \in Orders : orders[o].filled <= orders[o].qty

\* Until the process restarts, a client order id has one order in the book, and leads to it.
OneOrderPerClient ==
  life = 0 => \A o \in Orders : orders[o].kept => Named(o) = o

\* Two opposing orders are never both at work within the window, unless a fill revived
\* one that had been cancelled.
NoSelfTrade ==
  \A o, p \in Orders :
    o < p /\ Active(o) /\ Active(p) /\ orders[o].side # orders[p].side
      => orders[p].made - orders[o].made >= SelfTradeWindow \/ o \in revived

\* The tracked quantity is what one order of this life has filled in all: the order that
\* opened the position, or, when an operator's position took the place of the one an entry
\* was filling, that entry, whose completion rebases whatever position it finds.
PositionMatchesFill ==
  pos.kind = "open" /\ orders[pos.by].life = life /\ orders[pos.by].kept
    => /\ pos.qty = orders[pos.by].filled
       /\ pos.by # pos.order => pos.hand

\* An open position has its row in SQLite at any moment, so no crash forgets it, unless its
\* insert failed: nobody but a later fill tries that again.
PositionIsDurable == pos.kind = "open" => HasRow \/ pos.order \in unsaved

\* A reservation becomes a position or goes away, as long as the process runs.
ReservationSettles == pos.kind = "pending" ~> pos.kind # "pending" \/ ~up
=============================================================================
