---------------------------- MODULE LiveExecution ----------------------------
(***************************************************************************)
(* One symbol traded live: CEXExecutor (execution/cex_executor.py) with    *)
(* ExchangeOrderPlacer (execution/exchange_order_placer.py) and the        *)
(* position RiskManager tracks for the symbol, against the exchange.       *)
(*                                                                         *)
(* SIGNAL, STOP_LOSS, TAKE_PROFIT and KILL_SWITCH are handled one at a     *)
(* time by the event bus: their handlers are the worker w, one step per    *)
(* awaited exchange call.  USER_ORDER_UPDATE handlers run beside it, each  *)
(* a task of its own: those of triggers (u) and of partial fills (adj); so *)
(* do the operator's /v1/kill (api) and close (d).                         *)
(*                                                                         *)
(* An awaited call can be refused (it raises and nothing happened) or lost *)
(* (it raises although the exchange did it).  What the environment may do  *)
(* in an execution is chosen once, in Init.                                *)
(***************************************************************************)
EXTENDS Integers

CONSTANTS
  Amount,        \* quantity of every entry
  Chunks,        \* _iceberg_chunks: child orders of an iceberg entry
  MaxSignals,    \* bound of the model: signals approved in an execution
  Environments   \* the sets of events an execution may contain

\* "refuse", "lose": calls may fail so; "split": entries may fill in parts; "tick":
\* the bot's own stops trigger; "manual", "kill": the operator closes, or kills; "again":
\* there is a signal after the first; "renamed": the user stream names the symbol as
\* the exchange does, BTCUSDT, and the book as the normalizer does, BTC/USDT:USDT;
\* "iceberg": entries exceed iceberg_threshold_usd; "limit": market_on_timeout is off.
Events == {"refuse", "lose", "split", "tick", "manual", "kill", "again", "renamed",
           "iceberg", "limit"}

ASSUME ConstantsAssumption ==
  /\ Amount \in Nat \ {0} /\ MaxSignals \in Nat
  /\ Chunks \in Nat \ {0} /\ Amount % Chunks = 0
  /\ Environments \subseteq SUBSET Events

VARIABLES
  may,       \* the events of this execution
  resting,   \* the exchange: resting orders [kind, sig, part, qty]
  filled,    \* the exchange: per signal and part, how much of the limit order filled
  held,      \* the exchange: quantity of the position
  feed,      \* the exchange: order updates no handler has acted on yet
  pos,       \* RiskManager: the tracked position [kind, qty, sig]
  shut,      \* RiskManager: killed or tripped, no signal is approved
  prot,      \* ExchangeOrderPlacer: tracked protective orders of the symbol
  exits,     \* STOP_LOSS and TAKE_PROFIT events on the bus
  killAsked, \* a KILL_SWITCH event is on the bus
  w,         \* the bus's serial handler [pc, sig, part, sum, got, st]
  u,         \* the handler of a trigger that closed the position
  adj,       \* adjust_quantity, under the placer's lock [pc, kind, qty]
  api,       \* /v1/kill
  d,         \* close_position [pc, qty, cancels, gone]
  last,      \* the last signal approved
  alarmed,   \* history: signals an alert that needs an operator was raised for
  lapsed     \* history: signals whose stop was lost and only logged

exchange == <<resting, filled, held, feed>>
others == <<u, adj, api, d>>
history == <<alarmed, lapsed>>
vars == <<may, exchange, pos, shut, prot, exits, killAsked, w, others, last, history>>

Signals == 1..MaxSignals
Kinds == {"entry", "stop", "target"}
NoPosition == [kind |-> "none", qty |-> 0, sig |-> 0]
\* Of each protective order the placer has no id, the id, or the id of an order
\* that is gone while another rests in its place.
NoOrders == [tracked |-> FALSE, sig |-> 0, stop |-> "none", target |-> "none"]
NoAdjust == [pc |-> "idle", kind |-> "stop", qty |-> 0]
\* Of a close, whether its cancels are still to come, and the stops they have removed.
NoClose == [pc |-> "idle", qty |-> 0, cancels |-> FALSE, gone |-> {}]

\* An iceberg entry is placed in parts of one size, any other is its own only part.
Parts == 1..Chunks
Iceberg == "iceberg" \in may
Size == IF Iceberg THEN Amount \div Chunks ELSE Amount

Order(k, s, q) == [kind |-> k, sig |-> s, part |-> 1, qty |-> q]
Resting(k, s) == {o \in resting : o.kind = k /\ o.sig = s}
StopsOf(orders) == {o.sig : o \in {x \in orders : x.kind = "stop"}}
Least(a, b) == IF a < b THEN a ELSE b

(***************************************************************************)
(* The exchange.                                                           *)
(***************************************************************************)
\* What is left resting by a cancel that raises.
AfterFailedCancel(orders) ==
  (IF "refuse" \in may \/ orders = {} THEN {resting} ELSE {})
    \cup (IF "lose" \in may THEN {resting \ orders} ELSE {})

FillEntry(o, q) ==
  /\ o \in resting /\ o.kind = "entry"
  /\ q \in 1..o.qty /\ ("split" \notin may => q = o.qty)
  /\ held' = held + q
  /\ filled' = [filled EXCEPT ![o.sig][o.part] = @ + q]
  /\ resting' = (resting \ {o}) \cup {[o EXCEPT !.qty = r] : r \in {o.qty - q} \ {0}}
  /\ feed' = IF q < o.qty
             THEN feed \cup {[o EXCEPT !.kind = "part", !.qty = filled'[o.sig][o.part]]}
             ELSE feed
  /\ UNCHANGED <<may, pos, shut, prot, exits, killAsked, w, others, last, history>>

\* The exchange drops an entry on its own: expiry, or a post-only order that would take.
ExpireEntry(o) ==
  /\ o \in resting /\ o.kind = "entry"
  /\ resting' = resting \ {o}
  /\ UNCHANGED <<may, filled, held, feed, pos, shut, prot, exits, killAsked, w, others,
                 last, history>>

\* A reduce-only order triggers against what there is to reduce.
Trigger(o) ==
  /\ o \in resting /\ o.kind # "entry" /\ held > 0
  /\ resting' = resting \ {o}
  /\ held' = held - Least(o.qty, held)
  /\ feed' = feed \cup {o}
  /\ UNCHANGED <<may, filled, pos, shut, prot, exits, killAsked, w, others, last, history>>

(***************************************************************************)
(* _handle_signal and _live_execute.                                       *)
(***************************************************************************)
Goto(pc) == w' = [w EXCEPT !.pc = pc]
Alarm == alarmed' = alarmed \cup {w.sig}

\* approve_and_open reserves the position.  The symbol's cooldown (300 s by default)
\* outlasts the calls that were under way when the previous position was closed.
Approve ==
  /\ w.pc = "idle" /\ u = "idle" /\ adj.pc = "idle" /\ d = NoClose
  /\ last < MaxSignals /\ (last > 0 => "again" \in may)
  /\ pos.kind = "none" /\ ~shut
  /\ last' = last + 1
  /\ pos' = [kind |-> "pending", qty |-> Amount, sig |-> last']
  /\ w' = [pc |-> "submit", sig |-> last', part |-> 1, sum |-> 0, got |-> 0, st |-> "none"]
  /\ UNCHANGED <<may, exchange, shut, prot, exits, killAsked, others, history>>

\* _place_iceberg: whatever became of a part, the next one is submitted; of all of them
\* only the sum of what filled goes on.
NextPart(got) ==
  LET sum == w.sum + got
  IN  IF w.part < Chunks THEN [w EXCEPT !.pc = "submit", !.part = @ + 1, !.sum = sum]
      ELSE [w EXCEPT !.pc = "settle", !.got = sum, !.st = IF sum = 0 THEN "canceled" ELSE "filled"]
Answered(got, st) ==
  IF Iceberg THEN NextPart(got) ELSE [w EXCEPT !.pc = "settle", !.got = got, !.st = st]
Raised == IF Iceberg THEN NextPart(0) ELSE [w EXCEPT !.pc = "rollback"]

\* create_limit_order; an exception ends in the rollback of the reservation.
Submit ==
  /\ w.pc = "submit"
  /\ LET placed == resting \cup {[Order("entry", w.sig, Size) EXCEPT !.part = w.part]}
     IN  \/ resting' = placed /\ Goto("poll")
         \/ "refuse" \in may /\ resting' = resting /\ w' = Raised
         \/ "lose" \in may /\ resting' = placed /\ w' = Raised
  /\ UNCHANGED <<may, filled, held, feed, pos, shut, prot, exits, killAsked, others,
                 last, history>>

\* The limit order being waited for, what filled of it, and what fetch_order answers.
Working == {o \in Resting("entry", w.sig) : o.part = w.part}
FilledOfIt == filled[w.sig][w.part]
Fetched == Answered(FilledOfIt, IF Working # {} THEN "open"
                                ELSE IF FilledOfIt = Size THEN "filled" ELSE "canceled")
\* The order as it was submitted, when nothing better could be fetched.
Unfetched == Answered(0, "open")

\* Mutant: the retries never run out.
PollForEver ==
  /\ w.pc = "poll" /\ FilledOfIt > 0
  /\ w' = Fetched
  /\ UNCHANGED <<may, exchange, pos, shut, prot, exits, killAsked, others, last, history>>

\* _wait_for_fill: a fill, even a partial one, ends the polling; the retries run out, and
\* without market_on_timeout the order is answered as it was submitted.
Poll ==
  /\ w.pc = "poll"
  /\ \/ FilledOfIt > 0 /\ w' = Fetched
     \/ /\ FilledOfIt = 0 \/ "refuse" \in may
        /\ w' = IF "limit" \in may THEN Unfetched ELSE [w EXCEPT !.pc = "cancel"]
  /\ UNCHANGED <<may, exchange, pos, shut, prot, exits, killAsked, others, last, history>>

\* Mutant: a cancel that raises is taken for a cancel.
CancelAndHope ==
  /\ w.pc = "cancel"
  /\ resting' \in {resting \ Working} \cup AfterFailedCancel(Working)
  /\ Goto("refetch")
  /\ UNCHANGED <<may, filled, held, feed, pos, shut, prot, exits, killAsked, others, last,
                 history>>

\* An exchange raises for an order that no longer rests, so a confirmed cancel leaves a
\* remainder and the return for "fully filled during cancel" is never taken.
CancelEntry ==
  /\ w.pc = "cancel"
  /\ \/ /\ Working # {}
        /\ resting' = resting \ Working
        /\ Goto("refetch")
        /\ UNCHANGED <<shut, history>>
     \/ /\ resting' \in AfterFailedCancel(Working)
        /\ shut' = TRUE /\ Alarm
        /\ Goto("final")
        /\ UNCHANGED lapsed
  /\ UNCHANGED <<may, filled, held, feed, pos, prot, exits, killAsked, others, last>>

\* The cancel was uncertain: the state is fetched once more, no market order follows.
FetchFinal ==
  /\ w.pc = "final"
  /\ \/ w' = Fetched
     \/ "refuse" \in may /\ w' = Unfetched
  /\ UNCHANGED <<may, exchange, pos, shut, prot, exits, killAsked, others, last, history>>

\* The cancel was confirmed: what filled before it is subtracted, if it can be fetched.
Refetch ==
  /\ w.pc = "refetch"
  /\ \E f \in {FilledOfIt} \cup (IF "refuse" \in may THEN {0} ELSE {}) :
       w' = [w EXCEPT !.pc = "market", !.got = Size - f]
  /\ UNCHANGED <<may, exchange, pos, shut, prot, exits, killAsked, others, last, history>>

\* The remainder at market; the order returned knows its own quantity only.
MarketRemainder ==
  /\ w.pc = "market"
  /\ \/ held' = held + w.got /\ w' = Answered(w.got, "filled")
     \/ "refuse" \in may /\ held' = held /\ w' = Raised
     \/ "lose" \in may /\ held' = held + w.got /\ w' = Raised
  /\ UNCHANGED <<may, resting, filled, feed, pos, shut, prot, exits, killAsked, others,
                 last, history>>

\* Mutant: the fill is not tested for being one.
RebaseAny ==
  /\ w.pc = "settle"
  /\ IF pos.kind = "none"
     THEN Goto("idle") /\ UNCHANGED pos
     ELSE Goto("report") /\ pos' = [pos EXCEPT !.kind = "open", !.qty = w.got]
  /\ UNCHANGED <<may, exchange, shut, prot, exits, killAsked, others, last, history>>

\* rebase_position_to_fill, for a full fill and for a partial one: a reservation that
\* is gone ends the handler with the fill untracked.
Rebase ==
  /\ w.pc = "settle" /\ w.got > 0
  /\ IF pos.kind = "none"
     THEN Goto("idle") /\ UNCHANGED pos
     ELSE Goto("report") /\ pos' = [pos EXCEPT !.kind = "open", !.qty = w.got]
  /\ UNCHANGED <<may, exchange, shut, prot, exits, killAsked, others, last, history>>

\* The placer's lock is held while protective orders are placed or adjusted.
PlacerFree == w.pc \notin {"stop", "target"} /\ adj.pc = "idle"

\* ORDER_FILLED or ORDER_PARTIALLY_FILLED has been published; the placer's lock is next.
Report ==
  /\ w.pc = "report" /\ PlacerFree
  /\ Goto("stop")
  /\ UNCHANGED <<may, exchange, pos, shut, prot, exits, killAsked, others, last, history>>

\* Nothing filled, as far as is known.
Unfilled ==
  /\ w.pc = "settle" /\ w.got = 0
  /\ Goto(IF w.st = "open" THEN "drop" ELSE "rollback")
  /\ UNCHANGED <<may, exchange, pos, shut, prot, exits, killAsked, others, last, history>>

\* Mutant: the reservation goes whether the order could be cancelled or not.
DropAnyway ==
  /\ w.pc = "drop"
  /\ resting' \in {resting \ Working} \cup AfterFailedCancel(Working)
  /\ Goto("rollback")
  /\ UNCHANGED <<may, filled, held, feed, pos, shut, prot, exits, killAsked, others, last,
                 history>>

\* The order is cancelled before the reservation; a cancel that raises keeps the
\* reservation for the operator.
DropOrder ==
  /\ w.pc = "drop"
  /\ \/ /\ Working # {}
        /\ resting' = resting \ Working
        /\ Goto("rollback")
        /\ UNCHANGED <<shut, history>>
     \/ /\ resting' \in AfterFailedCancel(Working)
        /\ shut' = TRUE /\ Alarm
        /\ Goto("idle")
        /\ UNCHANGED lapsed
  /\ UNCHANGED <<may, filled, held, feed, pos, prot, exits, killAsked, others, last>>

\* Mutant: the handler ends without the rollback.
LeaveReservation ==
  /\ w.pc = "rollback"
  /\ Goto("idle")
  /\ UNCHANGED <<may, exchange, pos, shut, prot, exits, killAsked, others, last, history>>

\* cancel_reserved_position: only a pending position is dropped.
Rollback ==
  /\ w.pc = "rollback"
  /\ pos' = IF pos.kind = "pending" THEN NoPosition ELSE pos
  /\ Goto("idle")
  /\ UNCHANGED <<may, exchange, shut, prot, exits, killAsked, others, last, history>>

\* Mutant: the stop is allowed to fail like the target.
PlaceStopIfPossible ==
  /\ w.pc = "stop"
  /\ resting' \in {resting \cup {Order("stop", w.sig, w.got)}, resting}
  /\ Goto("target")
  /\ UNCHANGED <<may, filled, held, feed, pos, shut, prot, exits, killAsked, others, last,
                 history>>

\* place_protective_orders, the stop first.  A venue without stop orders leaves the
\* exits to the bot, and says so.
PlaceStop ==
  /\ w.pc = "stop"
  /\ LET placed == resting \cup {Order("stop", w.sig, w.got)}
         untold == [NoOrders EXCEPT !.tracked = TRUE, !.sig = w.sig]
     IN  \/ /\ resting' = placed
            /\ Goto("target")
            /\ UNCHANGED <<prot, history>>
         \/ /\ resting' = resting
            /\ prot' = untold
            /\ Goto("idle") /\ Alarm
            /\ UNCHANGED lapsed
         \/ /\ \/ "refuse" \in may /\ resting' = resting
               \/ "lose" \in may /\ resting' = placed
            /\ prot' = untold
            /\ Goto("flatten")
            /\ UNCHANGED history
  /\ UNCHANGED <<may, filled, held, feed, pos, shut, exits, killAsked, others, last>>

\* The target may fail; the stop stays.
PlaceTarget ==
  /\ w.pc = "target"
  /\ LET placed == resting \cup {Order("target", w.sig, w.got)}
     IN  \E id \in {"known", "none"} :
           /\ \/ id = "known" /\ resting' = placed
              \/ id = "none" /\ "refuse" \in may /\ resting' = resting
              \/ id = "none" /\ "lose" \in may /\ resting' = placed
           /\ prot' = [tracked |-> TRUE, sig |-> w.sig, stop |-> "known", target |-> id]
  /\ Goto("idle")
  /\ UNCHANGED <<may, filled, held, feed, pos, shut, exits, killAsked, others, last, history>>

\* _emergency_market_close, reduce-only, so refused when there is nothing to reduce; and
\* the trip that follows either way.
Flatten ==
  /\ w.pc = "flatten"
  /\ LET reduced == held - Least(w.got, held)
     IN  \/ held > 0 /\ held' = reduced /\ pos' = NoPosition
         \/ ("refuse" \in may \/ held = 0) /\ UNCHANGED <<held, pos>>
         \/ "lose" \in may /\ held' = reduced /\ UNCHANGED pos
  /\ shut' = TRUE /\ Alarm
  /\ Goto("idle")
  /\ UNCHANGED <<may, resting, filled, feed, prot, exits, killAsked, others, last, lapsed>>

(***************************************************************************)
(* Exits.                                                                  *)
(***************************************************************************)
\* update_prices: a tick through the tracked stop or target of an open position.
Tick(k) ==
  /\ "tick" \in may /\ pos.kind = "open"
  /\ exits' = exits \cup {k}
  /\ UNCHANGED <<may, exchange, pos, shut, prot, killAsked, w, others, last, history>>

Opposite(k) == IF k = "stop" THEN "target" ELSE "stop"

\* The orders of the given kinds the placer can name, and so can cancel.
Named(kinds) == {o \in resting : /\ prot.tracked /\ o.sig = prot.sig
                                 /\ o.kind \in kinds /\ prot[o.kind] = "known"}

\* Cancels of named orders whose failures are swallowed.
CancelQuietly(orders) ==
  \E gone \in SUBSET orders : /\ gone # orders => "refuse" \in may
                              /\ resting' = resting \ gone

\* handle_sl_filled or handle_tp_filled, then remove_tracking.
CancelOpposite(k) ==
  /\ PlacerFree
  /\ CancelQuietly(Named({Opposite(k)}))
  /\ prot' = NoOrders

\* _handle_stop_loss, _handle_take_profit: the tracked position is closed, and only
\* there; the exchange keeps its own until its own order triggers.
HandleExit(k) ==
  /\ w.pc = "idle" /\ k \in exits
  /\ exits' = exits \ {k}
  /\ IF pos.kind = "none" THEN UNCHANGED <<pos, w>>
     ELSE pos' = NoPosition /\ w' = [w EXCEPT !.pc = "oco", !.st = k]
  /\ UNCHANGED <<may, exchange, shut, prot, killAsked, others, last, history>>

FinishExit ==
  /\ w.pc = "oco"
  /\ CancelOpposite(w.st)
  /\ Goto("idle")
  /\ UNCHANGED <<may, filled, held, feed, pos, shut, exits, killAsked, others, last, history>>

\* The book and the placer look the stream's symbol up as it comes: a symbol the
\* normalizer renames (every USDT contract) is found in neither.
Found == "renamed" \notin may

\* _on_exchange_sl_filled, _on_exchange_tp_filled: the tasks of two updates may overtake
\* each other.
DeliverTrigger(m) ==
  /\ m \in feed /\ m.kind # "part"
  /\ feed' = feed \ {m}
  /\ IF pos.kind = "none" \/ ~Found THEN UNCHANGED <<pos, u>>
     ELSE pos' = NoPosition /\ u' = m.kind
  /\ UNCHANGED <<may, resting, filled, held, shut, prot, exits, killAsked, w, adj, api, d,
                 last, history>>

FinishTrigger ==
  /\ u # "idle"
  /\ CancelOpposite(u)
  /\ u' = "idle"
  /\ UNCHANGED <<may, filled, held, feed, pos, shut, exits, killAsked, w, adj, api, d, last,
                 history>>

\* A partial fill takes the placer's lock: adjust_quantity, if the placer finds the symbol.
DeliverPart(m) ==
  /\ m \in feed /\ m.kind = "part" /\ PlacerFree
  /\ feed' = feed \ {m}
  /\ adj' = IF Found /\ prot.tracked THEN [pc |-> "cancel", kind |-> "stop", qty |-> m.qty]
                                      ELSE adj
  /\ UNCHANGED <<may, resting, filled, held, pos, shut, prot, exits, killAsked, w, u, api, d,
                 last, history>>

\* The stop first, then the target, whatever became of the stop.
AdjustNext == adj' = IF adj.kind = "stop" THEN [adj EXCEPT !.pc = "cancel", !.kind = "target"]
                                          ELSE NoAdjust

\* A cancel that raises ends the adjustment of this order, and is only logged, also when
\* the order is gone.
AdjustCancel ==
  /\ adj.pc = "cancel"
  /\ LET named == Named({adj.kind})
     IN  \/ /\ named # {} /\ resting' = resting \ named
            /\ adj' = [adj EXCEPT !.pc = "place"]
            /\ UNCHANGED lapsed
         \/ /\ resting' \in AfterFailedCancel(named)
            /\ AdjustNext
            /\ lapsed' = lapsed \cup StopsOf(resting \ resting')
  /\ UNCHANGED <<may, filled, held, feed, pos, shut, prot, exits, killAsked, w, u, api, d,
                 last, alarmed>>

\* What cannot be placed anew is gone, and logged; what is placed by a call that raises
\* rests under an id the placer does not learn.
AdjustPlace ==
  /\ adj.pc = "place"
  /\ LET placed == resting \cup {Order(adj.kind, prot.sig, adj.qty)}
     IN  \/ resting' = placed /\ UNCHANGED <<prot, lapsed>>
         \/ /\ "refuse" \in may /\ resting' = resting
            /\ lapsed' = lapsed \cup (IF adj.kind = "stop" THEN {prot.sig} ELSE {})
            /\ UNCHANGED prot
         \/ /\ "lose" \in may /\ resting' = placed
            /\ prot' = [prot EXCEPT ![adj.kind] = "stale"]
            /\ UNCHANGED lapsed
  /\ AdjustNext
  /\ UNCHANGED <<may, filled, held, feed, pos, shut, exits, killAsked, w, u, api, d, last,
                 alarmed>>

(***************************************************************************)
(* The operator: close_position, the kill switch, and the release.         *)
(***************************************************************************)
StartClose ==
  /\ "manual" \in may /\ d = NoClose /\ pos.kind # "none"
  /\ d' = [NoClose EXCEPT !.pc = "close", !.qty = pos.qty, !.cancels = TRUE]
  /\ UNCHANGED <<may, exchange, pos, shut, prot, exits, killAsked, w, u, adj, api, last,
                 history>>

\* Gathered: the reduce-only close, an exception of which is logged and ends the handler
SendClose ==
  /\ d.pc = "close"
  /\ \/ /\ held > 0
        /\ held' = held - Least(d.qty, held)
        /\ d' = [d EXCEPT !.pc = "book"]
        /\ UNCHANGED lapsed
     \/ /\ \/ ("refuse" \in may \/ held = 0) /\ held' = held
           \/ "lose" \in may /\ held' = held - Least(d.qty, held)
        /\ d' = [NoClose EXCEPT !.cancels = d.cancels]
        /\ lapsed' = lapsed \cup d.gone
  /\ UNCHANGED <<may, resting, filled, feed, pos, shut, prot, exits, killAsked, w, u, adj,
                 api, last, alarmed>>

\* and the cancel of the protective orders, which is not cancelled with it.
CancelProtection ==
  /\ d.cancels /\ PlacerFree
  /\ CancelQuietly(Named({"stop", "target"}))
  /\ prot' = NoOrders
  /\ LET gone == StopsOf(resting \ resting')
     IN  IF d.pc = "idle"
         THEN d' = NoClose /\ lapsed' = lapsed \cup gone
         ELSE d' = [d EXCEPT !.cancels = FALSE, !.gone = @ \cup gone] /\ UNCHANGED lapsed
  /\ UNCHANGED <<may, filled, held, feed, pos, shut, exits, killAsked, w, u, adj, api, last,
                 alarmed>>

\* When both are done the tracked position is closed.
BookClose ==
  /\ d.pc = "book" /\ ~d.cancels
  /\ pos' = NoPosition
  /\ d' = NoClose
  /\ UNCHANGED <<may, exchange, shut, prot, exits, killAsked, w, u, adj, api, last, history>>

\* activate_kill_switch closes the tracked position, by itself (a breaker trip, close-all)
\* or with /v1/kill, which goes on to the exchange's orders.
Kill ==
  /\ "kill" \in may /\ api = "idle"
  /\ pos' = NoPosition /\ shut' = TRUE
  /\ api' \in {"idle", "orders"}
  /\ UNCHANGED <<may, exchange, prot, exits, killAsked, w, u, adj, d, last, history>>

ApiCancelsOrders ==
  /\ api = "orders"
  /\ CancelQuietly(resting)
  /\ api' = "placer"
  /\ UNCHANGED <<may, filled, held, feed, pos, shut, prot, exits, killAsked, w, u, adj, d,
                 last, history>>

ApiForgets ==
  /\ api = "placer" /\ PlacerFree
  /\ CancelQuietly(Named({"stop", "target"}))
  /\ prot' = NoOrders /\ killAsked' = TRUE /\ api' = "idle"
  /\ UNCHANGED <<may, filled, held, feed, pos, shut, exits, w, u, adj, d, last, history>>

\* _handle_kill_switch: the tracked position, the protective orders, all open orders.
HandleKill ==
  /\ w.pc = "idle" /\ killAsked
  /\ killAsked' = FALSE
  /\ pos' = NoPosition /\ shut' = TRUE
  /\ Goto("unprotect")
  /\ UNCHANGED <<may, exchange, prot, exits, others, last, history>>

Unprotect ==
  /\ w.pc = "unprotect" /\ PlacerFree
  /\ CancelQuietly(Named({"stop", "target"}))
  /\ prot' = NoOrders
  /\ Goto("kill")
  /\ UNCHANGED <<may, filled, held, feed, pos, shut, exits, killAsked, others, last, history>>

FinishKill ==
  /\ w.pc = "kill"
  /\ CancelQuietly(resting)
  /\ Goto("idle")
  /\ UNCHANGED <<may, filled, held, feed, pos, shut, prot, exits, killAsked, others, last,
                 history>>

\* Deactivation of the switch and reset of the breaker, after /v1/kill has answered.
Release ==
  /\ shut /\ api = "idle"
  /\ shut' = FALSE
  /\ UNCHANGED <<may, exchange, pos, prot, exits, killAsked, w, others, last, history>>

(***************************************************************************)
(* Specification.                                                          *)
(***************************************************************************)
Init ==
  /\ may \in Environments
  /\ resting = {} /\ filled = [s \in Signals |-> [p \in Parts |-> 0]] /\ held = 0 /\ feed = {}
  /\ pos = NoPosition /\ shut = FALSE /\ prot = NoOrders
  /\ exits = {} /\ killAsked = FALSE
  /\ w = [pc |-> "idle", sig |-> 0, part |-> 1, sum |-> 0, got |-> 0, st |-> "none"]
  /\ u = "idle" /\ adj = NoAdjust /\ api = "idle" /\ d = NoClose
  /\ last = 0 /\ alarmed = {} /\ lapsed = {}

\* The worker's exchange calls for an entry, up to where it stops to publish.
Calls == Submit \/ Poll \/ CancelEntry \/ Refetch \/ MarketRemainder

\* The worker's steps once it has taken an event.
Work == \/ Calls \/ FetchFinal \/ Rebase \/ Report \/ Unfilled \/ DropOrder \/ Rollback
        \/ PlaceStop \/ PlaceTarget \/ Flatten \/ FinishExit \/ Unprotect \/ FinishKill

Next == \/ Approve \/ HandleKill \/ Work
        \/ \E k \in {"stop", "target"} : Tick(k) \/ HandleExit(k)
        \/ \E o \in resting : ExpireEntry(o) \/ Trigger(o) \/ \E q \in 1..Amount : FillEntry(o, q)
        \/ \E m \in feed : DeliverTrigger(m) \/ DeliverPart(m)
        \/ FinishTrigger \/ AdjustCancel \/ AdjustPlace
        \/ StartClose \/ SendClose \/ CancelProtection \/ BookClose
        \/ Kill \/ ApiCancelsOrders \/ ApiForgets \/ Release

Spec == Init /\ [][Next]_vars
\* The client has timeouts and the polling retries are counted, so these calls return or
\* raise.  Nothing is assumed of a publication, which may wait for room on the bus, and
\* for the handlers of others, for ever; nor of the waits for a lock.
FairSpec == Spec /\ WF_vars(Calls)

(***************************************************************************)
(* Properties.                                                             *)
(***************************************************************************)
\* The worker at work on the last signal, or on an exit or a kill.
Handling == {"submit", "poll", "cancel", "final", "refetch", "market", "settle", "drop",
             "rollback", "report", "stop", "target", "flatten"}
Resigned == {"idle", "oco", "unprotect", "kill"}
Workers == [pc : Handling \cup Resigned, sig : 0..MaxSignals, part : Parts,
            sum : 0..Amount, got : 0..Amount,
            st : {"none", "open", "filled", "canceled", "stop", "target"}]
Orders == [kind : Kinds, sig : Signals, part : Parts, qty : Nat \ {0}]
Updates == [kind : {"part", "stop", "target"}, sig : Signals, part : Parts, qty : Nat \ {0}]
Positions == [kind : {"none", "pending", "open"}, qty : Nat, sig : 0..MaxSignals]
Ids == {"none", "known", "stale"}
Protections == {NoOrders} \cup [tracked : {TRUE}, sig : Signals, stop : Ids, target : Ids]
Adjustments == {NoAdjust} \cup [pc : {"cancel", "place"}, kind : {"stop", "target"},
                                qty : Nat \ {0}]
Closes == [pc : {"idle", "close", "book"}, qty : Nat, cancels : BOOLEAN, gone : SUBSET Signals]

\* The variables keep their types: no order fills beyond its quantity, nothing is held
\* short, and a tracked quantity is never negative.
TypeOK ==
  /\ may \in Environments
  /\ resting \subseteq Orders
  /\ filled \in [Signals -> [Parts -> 0..Amount]] /\ held \in Nat
  /\ feed \subseteq Updates
  /\ pos \in Positions
  /\ shut \in BOOLEAN /\ killAsked \in BOOLEAN
  /\ prot \in Protections
  /\ exits \subseteq {"stop", "target"}
  /\ w \in Workers
  /\ u \in {"idle", "stop", "target"} /\ api \in {"idle", "orders", "placer"}
  /\ adj \in Adjustments /\ d \in Closes
  /\ last \in 0..MaxSignals
  /\ alarmed \subseteq Signals /\ lapsed \subseteq Signals

\* The market fallback is prepared and sent only when the limit order it replaces can
\* no longer fill.
NoFallbackWhileLive == w.pc \in {"refetch", "market"} => Working = {}

\* A reservation belongs to the handler at work on it, or to an operator who was told.
ReservationWatched ==
  pos.kind = "pending" => \/ pos.sig = w.sig /\ w.pc \notin Resigned
                          \/ pos.sig \in alarmed

\* An open position of a symbol the stream and the book name alike (TriggerClosesBook
\* is about the others) has a stop on the exchange, or its handler has yet to place one, or
\* the stop has just done its work.  Otherwise the stop is between its cancel and its
\* replacement, or was removed by the cancels of a close that has not answered, or an
\* operator was told, or the loss was logged: nothing else takes a stop away.
StopOrAlarm ==
  pos.kind = "open" /\ Found =>
    \/ Resting("stop", pos.sig) # {}
    \/ w.sig = pos.sig /\ w.pc \in {"report", "stop", "flatten"}
    \/ \E m \in feed : m.kind = "stop" /\ m.sig = pos.sig
    \/ adj.pc = "place" /\ adj.kind = "stop" /\ prot.sig = pos.sig
    \/ pos.sig \in d.gone
    \/ pos.sig \in alarmed \cup lapsed

\* When calls fail cleanly, entries fill whole and exits are left to the exchange, the
\* tracked position and the exchange's agree whenever nothing is under way; also for an
\* iceberg entry, parts of which may fail, until a part that may be live is announced.
Clean == \/ may \subseteq {"refuse", "manual", "limit", "again"}
         \/ may \subseteq {"refuse", "iceberg"} /\ alarmed = {}
Quiet == w.pc = "idle" /\ u = "idle" /\ adj.pc = "idle" /\ d = NoClose /\ feed = {}
BooksAgree ==
  Clean /\ Quiet =>
    \/ pos.kind = "none" /\ held = 0
    \/ pos.kind = "open" /\ held = pos.qty
    \/ pos.kind = "pending" /\ pos.sig \in alarmed

\* The exchange calls for an entry, of however many parts, end: the order is answered,
\* given up, or left to an operator, and what was filled of it goes on to the books.
Waiting == {"submit", "poll", "cancel", "refetch", "market"}
EntryAnswered == w.pc \in Waiting ~> w.pc \in {"settle", "rollback", "final"}

\* "a fallback market order can double exposure when the original limit later fills"
\* (cex_executor.py:813), which the cancel and the re-fetch are there to prevent.
ExposureWithinOrder == held <= Amount

\* "Emergency: cancel all open orders, close all positions at market" (cex_executor.py:1119).
KillFlattens == [][w.pc = "kill" /\ w'.pc = "idle" => held' = 0]_vars

\* "Exchange-side SL triggered - sync internal state" (cex_executor.py:1215): once the
\* executor has been told of a stop or target that filled, the position is not tracked.
TriggerClosesBook ==
  [][\A m \in feed \ feed' : m.kind # "part" => pos'.kind = "none"]_vars
=============================================================================
