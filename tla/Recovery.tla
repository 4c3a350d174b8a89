------------------------------ MODULE Recovery ------------------------------
(***************************************************************************)
(* What a restart finds, and what drifts apart while the bot runs: one     *)
(* symbol of a live account, with the four places that know its position - *)
(* the exchange, RiskManager's book, its SQLite rows and the row of        *)
(* TradePersistence - and the code that compares them: restore from SQLite *)
(* (execution/risk_manager.py), StartupReconciler and PeriodicReconciler   *)
(* (execution/reconciliation.py), with the user stream (UserStream) that   *)
(* may or may not tell of a stop that triggered.                           *)
(*                                                                         *)
(* An entry is LiveExecution's, reduced to the steps between which a crash *)
(* leaves different things behind: order resting, fill booked, stop        *)
(* resting, row of TradePersistence written.  Positions are long; what the *)
(* exchange may do is chosen once, in Init.                                *)
(***************************************************************************)
EXTENDS UserStream, SequencesExt

CONSTANTS
  MaxEntries,    \* bound of the model: entry orders sent
  MaxStarts,     \* bound of the model: lives of the process
  Environments   \* the sets of events an execution may contain

\* "crash", "stop": the process ends so; "outside": somebody trades by hand; "refuse":
\* calls of the exchange fail; "lose": the answer to an entry may get lost; "expire": the
\* listen key may expire; "renamed": the stream names the symbol otherwise than the book,
\* as in LiveExecution.
Events == {"crash", "stop", "outside", "refuse", "lose", "expire", "renamed"}

ASSUME RecoveryAssumption ==
  /\ MaxEntries \in Nat /\ MaxStarts \in Nat
  /\ Environments \subseteq SUBSET Events

VARIABLES
  may,       \* the events of this execution
  xqty,      \* the exchange: quantity held
  xentry,    \* the exchange: entry orders resting, by number, each of one unit
  xstops,    \* the exchange: quantities of the stops resting
  book,      \* RiskManager: the tracked position [kind, qty, row]
  rows,      \* SQLite: open rows [id, qty]
  dbqty,     \* TradePersistence: quantity of the open row, 0 for none
  due,       \* ORDER_FILLED and POSITION_CLOSED events not yet persisted
  mode,      \* the process: "off", "boot", "up" or "stopping"
  step,      \* boot: the next step of reconcile()
  snap,      \* boot: what was fetched, and whether a mismatch was recorded
  w,         \* the entry under way: "idle", "wait" or "stop"
  asked,     \* periodic check: the quantity fetched and not yet compared, or NoAnswer
  entries, starts,   \* bounds
  moved,     \* history: the exchange moved since its positions were fetched
  alarmed    \* history: this boot alerted that a stop could not be placed

exchange == <<xqty, xentry, xstops>>
stores == <<rows, dbqty, due>>
boot == <<mode, step, snap>>
work == <<w, asked>>
bounds == <<entries, starts>>
history == <<moved, alarmed>>
vars == <<stream, may, exchange, book, stores, boot, work, bounds, history>>

NoAnswer == -1
NoBook == [kind |-> "none", qty |-> 0, row |-> 0]
NoSnap == [qty |-> 0, stops |-> <<>>, mismatch |-> FALSE]
Running == mode \in {"up", "stopping"}

(***************************************************************************)
(* The exchange.                                                           *)
(***************************************************************************)
Moves == moved' = TRUE /\ UNCHANGED <<socket, published, drops, gate, may, book, stores, boot,
                                     work, bounds, alarmed>>

FillEntry ==
  /\ \E e \in xentry : xentry' = xentry \ {e}
  /\ xqty' = xqty + 1
  /\ Traded("entry") /\ Moves /\ UNCHANGED xstops

Trigger ==
  \E i \in DOMAIN xstops :
    /\ xqty > 0
    /\ xqty' = IF xstops[i] < xqty THEN xqty - xstops[i] ELSE 0
    /\ xstops' = RemoveAt(xstops, i)
    /\ Traded("stop") /\ Moves /\ UNCHANGED xentry

TradeByHand ==
  /\ "outside" \in may /\ "outside" \notin {trades[i] : i \in DOMAIN trades}
  /\ xqty' \in {0, 1} \ {xqty}
  /\ Traded("outside") /\ Moves /\ UNCHANGED <<xentry, xstops>>

(***************************************************************************)
(* The start: restore, then reconcile(), before anything else runs.        *)
(***************************************************************************)
\* restore_open_positions_from_sqlite: a row is restored unless its symbol is held.
Restored == IF rows = {} THEN {NoBook}
            ELSE {[kind |-> "open", qty |-> r.qty, row |-> r.id] : r \in rows}

Boot ==
  /\ mode = "off" /\ starts < MaxStarts
  /\ starts' = starts + 1
  /\ mode' = "boot" /\ step' = "positions" /\ snap' = NoSnap
  /\ book' \in Restored
  /\ moved' = FALSE /\ alarmed' = FALSE
  /\ UNCHANGED <<stream, may, exchange, stores, work, entries>>

\* reconcile() is at step s, and the book, the rows and the exchange stay as they are.
AtStep(s) == mode = "boot" /\ step = s
Reading == UNCHANGED <<stream, may, exchange, book, stores, mode, work, bounds, alarmed>>

\* fetch_balance, fetch_positions.  Without positions the list is empty, and a mismatch;
\* a balance that failed or differs from the configured equity is one too.
FetchPositions ==
  /\ AtStep("positions")
  /\ \/ \E differs \in BOOLEAN :
          snap' = [qty |-> xqty, stops |-> <<>>, mismatch |-> differs]
     \/ "refuse" \in may /\ snap' = [NoSnap EXCEPT !.mismatch = TRUE]
  /\ step' = "orders" /\ moved' = FALSE
  /\ Reading

\* fetch_open_orders, of which the reduce-only stops are looked for.
FetchOrders ==
  /\ AtStep("orders")
  /\ \/ snap' = [snap EXCEPT !.stops = xstops]
     \/ "refuse" \in may /\ snap' = [snap EXCEPT !.mismatch = TRUE]
  /\ step' = "rebuild"
  /\ Reading /\ UNCHANGED moved

\* The tolerated difference of 5 % is less than a unit.
DbDiffers == dbqty # 0 /\ snap.qty # 0 /\ dbqty # snap.qty
BookDiffers == (book.kind = "none") # (snap.qty = 0)

\* _load_and_compare_db, _rebuild_state and _persist_rebuilt_positions: the book is what
\* the exchange holds, and forgets the SQLite row it came from; the row of
\* TradePersistence is closed, opened or overwritten to match.  SQLite is not touched.
Rebuild ==
  /\ AtStep("rebuild")
  /\ book' = IF snap.qty = 0 THEN NoBook
             ELSE [kind |-> "open", qty |-> snap.qty, row |-> 0]
  /\ dbqty' = snap.qty
  /\ snap' = [snap EXCEPT !.mismatch = @ \/ DbDiffers \/ BookDiffers]
  /\ step' = "protect"
  /\ UNCHANGED <<stream, may, exchange, rows, due, mode, work, bounds, history>>

\* Mutant: any order of the symbol will do.
HasAnOrder == snap.stops # <<>> \/ xentry # {}

HasStop == snap.stops # <<>>

\* _ensure_protective_orders: a position without a stop gets one, or an alert: a warning
\* where the venue has no stops, and else a mismatch as well.
Protect ==
  /\ AtStep("protect")
  /\ IF snap.qty = 0 \/ HasStop
     THEN UNCHANGED <<snap, xstops, alarmed>>
     ELSE \/ xstops' = Append(xstops, snap.qty) /\ UNCHANGED <<snap, alarmed>>
          \/ /\ "refuse" \in may
             /\ \E unsupported \in BOOLEAN :
                  snap' = [snap EXCEPT !.mismatch = @ \/ ~unsupported]
             /\ alarmed' = TRUE /\ UNCHANGED xstops
  /\ step' = "finish"
  /\ UNCHANGED <<stream, may, xqty, xentry, book, stores, mode, work, bounds, moved>>

\* A mismatch trips the breaker; then the tasks are created, the stream's among them.
Finish ==
  /\ AtStep("finish")
  /\ trip' = IF snap.mismatch THEN "mismatch" ELSE trip
  /\ mode' = "up" /\ step' = "none" /\ snap' = NoSnap
  /\ StreamStarts
  /\ UNCHANGED <<safe, may, exchange, book, stores, work, bounds, history>>

(***************************************************************************)
(* An entry, and a close told by the stream.                               *)
(***************************************************************************)
\* approve_and_open, and the limit order.
Enter ==
  /\ mode = "up" /\ entries < MaxEntries
  /\ w = "idle" /\ book.kind = "none" /\ trip = "none" /\ safe = {}
  /\ entries' = entries + 1
  /\ book' = [kind |-> "pending", qty |-> 1, row |-> entries']
  /\ xentry' = xentry \cup {entries'} /\ w' = "wait"
  /\ UNCHANGED <<stream, may, xqty, xstops, stores, boot, asked, starts, history>>

\* rebase_position_to_fill writes the SQLite row; ORDER_FILLED goes on the bus.  Without
\* the reservation the handler gives up.
Rebase ==
  /\ Running /\ w = "wait" /\ entries \notin xentry
  /\ IF book.kind = "none" THEN w' = "idle" /\ UNCHANGED <<book, rows, due>>
     ELSE /\ book' = [book EXCEPT !.kind = "open"]
          /\ rows' = rows \cup {[id |-> book.row, qty |-> book.qty]}
          /\ due' = Append(due, "open") /\ w' = "stop"
  /\ UNCHANGED <<stream, may, exchange, dbqty, boot, asked, bounds, history>>

\* The limit order did not fill in time: cancelled, and the reservation dropped.
CancelEntry ==
  /\ Running /\ w = "wait" /\ entries \in xentry
  /\ xentry' = xentry \ {entries} /\ book' = NoBook /\ w' = "idle"
  /\ UNCHANGED <<stream, may, xqty, xstops, stores, boot, asked, bounds, history>>

\* The exchange has taken the order, or filled it, and the call raises: the reservation is
\* dropped, and nobody knows of the order.
LoseEntry ==
  /\ Running /\ w = "wait" /\ "lose" \in may
  /\ book' = NoBook /\ w' = "idle"
  /\ UNCHANGED <<stream, may, exchange, stores, boot, asked, bounds, history>>

PlaceStop ==
  /\ Running /\ w = "stop"
  /\ xstops' = Append(xstops, 1) /\ w' = "idle"
  /\ UNCHANGED <<stream, may, xqty, xentry, book, stores, boot, asked, bounds, history>>

\* TradePersistence takes its events in order, after the handler that published them.
Persist ==
  /\ Running /\ w = "idle" /\ due # <<>>
  /\ dbqty' = IF Head(due) = "open" THEN 1 ELSE 0
  /\ due' = Tail(due)
  /\ UNCHANGED <<stream, may, exchange, book, rows, boot, work, bounds, history>>

\* _on_exchange_sl_filled, for a trade the socket brought: close_position ends the
\* position and the SQLite row it knows.
Closes == Fresh /\ trades[Received] = "stop" /\ "renamed" \notin may
          /\ book.kind # "none"
Deliver ==
  /\ Running /\ Receive
  /\ IF Closes
     THEN /\ book' = NoBook
          /\ rows' = {r \in rows : r.id # book.row}
          /\ due' = Append(due, "close")
     ELSE UNCHANGED <<book, rows, due>>
  /\ UNCHANGED <<may, exchange, dbqty, boot, work, bounds, history>>

(***************************************************************************)
(* PeriodicReconciler: the answer is compared with the book of its arrival.*)
(***************************************************************************)
Ask ==
  /\ Running /\ asked = NoAnswer
  /\ asked' = xqty
  /\ UNCHANGED <<stream, may, exchange, book, stores, boot, w, bounds, history>>

\* Mutant: only what the exchange holds is looked up.
DriftOfHeld(x) == x # 0 /\ x # book.qty

Drift(x) == x # book.qty

\* _check_once: a difference enters a safe mode nothing leaves but the process.
Compare ==
  /\ Running /\ asked # NoAnswer
  /\ asked' = NoAnswer
  /\ safe' = IF Drift(asked) THEN safe \cup {"drift"} ELSE safe
  /\ UNCHANGED <<account, socket, published, drops, trip, may, exchange, book, stores, boot, w,
                 bounds, history>>

\* A fetch that fails is a mismatch of the result and no safe mode.
Unanswered ==
  /\ Running /\ asked # NoAnswer /\ "refuse" \in may
  /\ asked' = NoAnswer
  /\ UNCHANGED <<stream, may, exchange, book, stores, boot, w, bounds, history>>

(***************************************************************************)
(* The end of the process.                                                 *)
(***************************************************************************)
Ends ==
  /\ mode' = "off" /\ step' = "none" /\ snap' = NoSnap
  /\ StreamEnds
  /\ book' = NoBook /\ due' = <<>> /\ w' = "idle" /\ asked' = NoAnswer

Crash ==
  /\ "crash" \in may /\ mode # "off" /\ starts < MaxStarts
  /\ Ends
  /\ UNCHANGED <<may, exchange, rows, dbqty, bounds, history>>

\* _final_cleanup cancels the orders of the exchange, stops included, and ignores what it
\* cannot cancel, while the tasks still run.
Stop ==
  /\ "stop" \in may /\ mode = "up" /\ starts < MaxStarts
  /\ mode' = "stopping"
  /\ \/ xentry' = {} /\ xstops' = <<>>
     \/ "refuse" \in may /\ UNCHANGED <<xentry, xstops>>
  /\ UNCHANGED <<stream, may, xqty, book, stores, step, snap, work, bounds, history>>

Stopped ==
  /\ mode = "stopping"
  /\ Ends
  /\ UNCHANGED <<may, exchange, rows, dbqty, bounds, history>>

(***************************************************************************)
(* Specification.                                                          *)
(***************************************************************************)
Init ==
  /\ StreamInit
  /\ may \in Environments
  /\ xqty = 0 /\ xentry = {} /\ xstops = <<>>
  /\ book = NoBook /\ rows = {} /\ dbqty = 0 /\ due = <<>>
  /\ mode = "off" /\ step = "none" /\ snap = NoSnap
  /\ w = "idle" /\ asked = NoAnswer
  /\ entries = 0 /\ starts = 0
  /\ moved = FALSE /\ alarmed = FALSE

others == <<may, exchange, book, stores, boot, work, bounds, history>>
StreamAlone == Running /\ Alone /\ UNCHANGED others
StreamFails == Running /\ (Drop \/ ("expire" \in may /\ Expire)) /\ UNCHANGED others

Next == \/ FillEntry \/ Trigger \/ TradeByHand
        \/ Boot \/ FetchPositions \/ FetchOrders \/ Rebuild \/ Protect \/ Finish
        \/ Enter \/ Rebase \/ CancelEntry \/ LoseEntry \/ PlaceStop \/ Persist \/ Deliver
        \/ Ask \/ Compare \/ Unanswered
        \/ Crash \/ Stop \/ Stopped
        \/ StreamAlone \/ StreamFails

Spec == Init /\ [][Next]_vars
\* The tasks of the process run and their calls return; of the periodic check's, not all
\* fail; an entry's limit order ends in a fill or a cancel.
FairSpec == Spec /\ WF_vars(StreamAlone) /\ WF_vars(Ask) /\ SF_vars(Compare)
                 /\ WF_vars(Rebase \/ CancelEntry \/ PlaceStop)

(***************************************************************************)
(* Properties.                                                             *)
(***************************************************************************)
\* The variables keep their types; delays, clocks and failures stay within their bounds.
TypeOK ==
  /\ StreamTypeOK
  /\ may \in Environments
  /\ xqty \in Nat /\ xentry \subseteq 1..MaxEntries /\ xstops \in Seq(Nat \ {0})
  /\ book \in [kind : {"none", "pending", "open"}, qty : Nat, row : 0..MaxEntries]
  /\ rows \subseteq [id : 1..MaxEntries, qty : Nat \ {0}]
  /\ dbqty \in Nat /\ due \in Seq({"open", "close"})
  /\ mode \in {"off", "boot", "up", "stopping"}
  /\ step \in {"none", "positions", "orders", "rebuild", "protect", "finish"}
  /\ snap \in [qty : Nat, stops : Seq(Nat \ {0}), mismatch : BOOLEAN]
  /\ w \in {"idle", "wait", "stop"} /\ asked \in {NoAnswer} \cup Nat
  /\ entries \in 0..MaxEntries /\ starts \in 0..MaxStarts
  /\ moved \in BOOLEAN /\ alarmed \in BOOLEAN

\* When a start ends and the exchange did not move meanwhile, every position the start
\* found has a stop resting, or an operator was told, whatever the last life left behind.
ProtectedAtStart ==
  step = "finish" /\ ~moved /\ book.kind # "none" => xstops # <<>> \/ alarmed

\* A stream that is down is reported, and the gate closed by it, or it comes back: failed
\* attempts, which start the clock anew, do not put the report off for ever.
LossAnnounced ==
  conn = "sleep" ~> "stream" \in safe \/ Connected \/ mode # "up"

\* A book that differs from the exchange for good is noticed: a fill nobody waited for,
\* of an order whose submission raised or that outlived a crash, a stop the stream did not tell of, a trade by hand.
DriftNoticed ==
  mode = "up" /\ xqty # book.qty ~> "drift" \in safe \/ xqty = book.qty \/ mode # "up"

\* "Prevent duplicate positions after restart via idempotent rebuild"
\* (reconciliation.py:12): the bot does not enter a symbol it is already in.
NoDuplicatePosition == xqty <= 1
=============================================================================
