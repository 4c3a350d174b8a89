----------------------------- MODULE TradingGate -----------------------------
(***************************************************************************)
(* The gate of every signal: RiskManager (execution/risk_manager.py) with  *)
(* its CircuitBreaker and SafeModeManager, and every caller that closes or *)
(* reopens it: the executor's user-stream handlers, the kill switch, the   *)
(* operator's endpoints, the midnight reset and the two reconcilers.  One  *)
(* entry goes round it: POST /api/trade calls open_position, which asks    *)
(* nothing.  Such a position is "manual" in the book, counts against the   *)
(* limits of the others, and is what the properties about entries except.  *)
(*                                                                         *)
(* A section under RiskManager._lock is one step, with two exceptions.     *)
(* activate_kill_switch loops over the positions: the loop is one step per *)
(* position with sweep = TRUE, and while it lasts nothing else steps, for  *)
(* it never suspends.  close_position, when it trips the breaker, awaits   *)
(* event_bus.publish with the lock held: from then on announcing = TRUE    *)
(* keeps out whoever needs the lock, for as long as the bus takes, which   *)
(* may be for ever (EventBus), while the rest of the event loop goes on.   *)
(*                                                                         *)
(* Money is counted in small integers.  Every pre-trade filter that only   *)
(* refuses (rate limit, cooldown, spread, session, exposure, VaR ...) is   *)
(* left out: its refusal is a signal that is not approved, which any       *)
(* signal may be, so the gate below admits whatever the code admits.       *)
(***************************************************************************)
EXTENDS Integers, FiniteSets

CONSTANTS
  Symbols,          \* the traded symbols
  MaxOpen,          \* risk.max_open_positions
  DailyLossLimit,   \* units of summed per-trade loss that trip the breaker
  DrawdownLimit,    \* percent below the peak that trips the breaker
  CautionAt, DefensiveAt, EmergencyAt,   \* percents where the phases begin
  Graduation,       \* winning trades in a row that step one phase back
  InitialEquity,
  EquityBound,      \* bound of the model: no trade takes equity above it
  Outcomes,         \* possible results of a trade: records [pct, usd]
  Requests          \* the states operators ask for

ASSUME ConstantsAssumption ==
  /\ IsFiniteSet(Symbols)
  /\ MaxOpen \in Nat \ {0} /\ DailyLossLimit \in Nat \ {0}
  /\ Graduation \in Nat \ {0} /\ InitialEquity \in Nat \ {0}
  /\ DrawdownLimit \in Nat \ {0}
  /\ CautionAt \in Nat \ {0} /\ DefensiveAt \in Nat \ {0} /\ EmergencyAt \in Nat \ {0}
  /\ EquityBound \in Nat
  /\ Outcomes \subseteq [pct : Int, usd : Int]
  /\ \A o \in Outcomes : o.pct > 0 <=> o.usd > 0
  /\ Requests \subseteq {"ACTIVE", "REDUCING", "HALTED"}

VARIABLES
  book,          \* per symbol "none", "pending" (reserved), "open" or "manual"
  equity, peak,  \* equity; the breaker's peak (0 until the first close)
  dailyLoss,     \* |daily loss|, saturated at the limit it is compared with
  trip,          \* the breaker's single trip reason, NoTrip when it is closed
  phase,         \* cached drawdown phase, 0 normal .. 3 emergency
  streak,        \* winning trades in a row, saturated at Graduation
  killed, unreconciled,
  safe,          \* active reasons of the safe mode
  requested,     \* state asked for by the operator
  killFile,      \* data/.kill_switch exists
  fileCheck,     \* cached answer to that: "stale", "clear" or "seen"
  autoClose,     \* _auto_close_on_trip is scheduled
  sweep,         \* activate_kill_switch is inside its loop
  announcing,    \* close_position awaits the publication of its trip, lock held
  swept,         \* history: activate_kill_switch ran and nobody released the switch
  stream         \* user stream as its handlers last saw it: "up" until they see it "lost"

account == <<equity, peak, dailyLoss, phase, streak>>
file == <<killFile, fileCheck>>
kill == <<sweep, announcing, swept>>
vars == <<book, account, trip, killed, unreconciled, safe, requested, file,
          autoClose, kill, stream>>

NoTrip == "none"
LossTrips == {"daily_loss", "drawdown"}
MismatchTrip == "reconciliation_mismatch"
\* sl_placement_failed, entry_cancel_uncertain, untracked_open_order_cancel_failed of
\* the executor and reconciliation_failed of the start: nothing tells them apart.
ExecutionTrip == "execution_failure"
StreamTrip == "user_stream_disconnected"
Trips == LossTrips \cup {NoTrip, MismatchTrip, ExecutionTrip, StreamTrip}

Held == {s \in Symbols : book[s] # "none"}
ByHand == {s \in Symbols : book[s] = "manual"}

\* RiskManager._lock is free.
Free == ~sweep /\ ~announcing

(***************************************************************************)
(* Account arithmetic.                                                     *)
(***************************************************************************)
\* The drawdown from pk to eq is at least percent; no drawdown without a peak.
Below(eq, pk, percent) == pk > 0 /\ (pk - eq) * 100 >= percent * pk

DrawdownPhase(eq, pk) ==
  IF Below(eq, pk, EmergencyAt) THEN 3
  ELSE IF Below(eq, pk, DefensiveAt) THEN 2
  ELSE IF Below(eq, pk, CautionAt) THEN 1
  ELSE 0

PhaseCap(p) == CASE p = 0 -> MaxOpen
                 [] p = 1 -> IF MaxOpen > 3 THEN MaxOpen - 2 ELSE 1
                 [] p = 2 -> 1
                 [] OTHER -> 0

\* Mutants: the drawdown gate reads the cached phase; the phase follows the drawdown.
CachedPhase == phase
FollowingPhase == DrawdownPhase(equity, peak)

\* update_drawdown_phase: the cached phase only rises, and rising resets the streak.
UpdatedPhase == IF DrawdownPhase(equity, peak) > phase
                THEN DrawdownPhase(equity, peak) ELSE phase
UpdatePhase == /\ phase' = UpdatedPhase
               /\ streak' = IF UpdatedPhase > phase THEN 0 ELSE streak

\* Mutant: graduation without the test that there is a phase to leave.
GraduateAlways(win) ==
  LET wins == IF ~win THEN 0 ELSE IF streak < Graduation THEN streak + 1 ELSE streak
  IN  /\ phase' = IF wins >= Graduation THEN phase - 1 ELSE phase
      /\ streak' = IF wins >= Graduation THEN 0 ELSE wins

\* record_trade_result: Graduation wins in a row step one phase back.
RecordTradeResult(win) ==
  LET wins == IF ~win THEN 0 ELSE IF streak < Graduation THEN streak + 1 ELSE streak
      graduates == wins >= Graduation /\ phase > 0
  IN  /\ phase' = IF graduates THEN phase - 1 ELSE phase
      /\ streak' = IF graduates THEN 0 ELSE wins

\* CircuitBreaker.record_pnl: a loss trip is overwritten by a drawdown trip, and
\* either overwrites whatever reason the breaker already had.
RecordPnl(pct, eq) ==
  LET loss == IF pct < 0 THEN dailyLoss - pct ELSE dailyLoss
      top == IF eq > peak THEN eq ELSE peak
      lossBreached == loss >= DailyLossLimit
      drawdownBreached == Below(eq, top, DrawdownLimit)
  IN  /\ dailyLoss' = IF lossBreached THEN DailyLossLimit ELSE loss
      /\ peak' = top
      /\ trip' = IF drawdownBreached THEN "drawdown"
                 ELSE IF lossBreached THEN "daily_loss" ELSE trip

(***************************************************************************)
(* The effective trading state.                                            *)
(***************************************************************************)
TradingState ==
  IF killed \/ unreconciled \/ requested = "HALTED" THEN "HALTED"
  ELSE IF trip # NoTrip \/ safe # {} \/ requested = "REDUCING" THEN "REDUCING"
  ELSE "ACTIVE"

(***************************************************************************)
(* Signals: approve_and_open under the lock.                               *)
(***************************************************************************)
\* The kill-switch file as the gate sees it: re-read only when the cache is stale.
FileSeen == IF fileCheck = "stale" THEN killFile ELSE fileCheck = "seen"

\* The signal is not turned away before the file check.
Examined == /\ Free
            /\ ~killed
            /\ safe = {}

\* Mutant: the gate asks the breaker only, not the effective state.
AdmitsUntripped(s) == /\ trip = NoTrip
                      /\ s \notin Held
                      /\ Cardinality(Held) < MaxOpen
                      /\ equity > 0

Admits(s) == /\ TradingState = "ACTIVE"
             /\ s \notin Held
             /\ Cardinality(Held) < MaxOpen
             /\ equity > 0    \* calculate_position_size is positive

\* A reservation in live trading, an open position at once on paper.
ApproveAndOpen(s) ==
  /\ Examined /\ ~FileSeen /\ Admits(s)
  /\ UpdatePhase
  /\ Cardinality(Held) < PhaseCap(UpdatedPhase)
  /\ \E b \in {"pending", "open"} : book' = [book EXCEPT ![s] = b]
  /\ fileCheck' = "clear"
  /\ UNCHANGED <<equity, peak, dailyLoss, trip, killed, unreconciled, safe,
                 requested, killFile, autoClose, kill, stream>>

\* The file is there: the signal is refused and the switch is set.
RefuseByFile ==
  /\ Examined /\ FileSeen
  /\ killed' = TRUE
  /\ fileCheck' = "seen"
  /\ UNCHANGED <<book, account, trip, unreconciled, safe, requested, killFile,
                 autoClose, kill, stream>>

\* Refused by a later check: the file cache is fresh, and the phase is updated
\* when the refusal comes from the drawdown gate or after it.
RefuseLater(s) ==
  /\ Examined /\ ~FileSeen
  /\ fileCheck' = "clear"
  /\ \/ UNCHANGED <<phase, streak>>
     \/ Admits(s) /\ UpdatePhase
  /\ UNCHANGED <<book, equity, peak, dailyLoss, trip, killed, unreconciled, safe,
                 requested, killFile, autoClose, kill, stream>>

\* rebase_position_to_fill: the exchange filled the reservation.
RebaseToFill(s) ==
  /\ Free /\ book[s] # "none"
  /\ book' = [book EXCEPT ![s] = IF @ = "manual" THEN @ ELSE "open"]
  /\ UNCHANGED <<account, trip, killed, unreconciled, safe, requested, file,
                 autoClose, kill, stream>>

\* cancel_reserved_position: dropped without accounting, and only while pending.
CancelReserved(s) ==
  /\ Free /\ book[s] = "pending"
  /\ book' = [book EXCEPT ![s] = "none"]
  /\ UNCHANGED <<account, trip, killed, unreconciled, safe, requested, file,
                 autoClose, kill, stream>>

\* open_position, called by POST /api/trade: on paper after its simulated fill, live
\* (allow_manual_live_trading, off as shipped) after the exchange's answer, with the
\* checks made before that.  It looks at nothing and overwrites what it finds.
OpenPosition(s) ==
  /\ Free
  /\ book' = [book EXCEPT ![s] = "manual"]
  /\ UNCHANGED <<account, trip, killed, unreconciled, safe, requested, file,
                 autoClose, kill, stream>>

(***************************************************************************)
(* Closing.                                                                *)
(***************************************************************************)
\* close_position: a trip that was not there before kills, schedules the close-all
\* and is announced; one that lands on an already tripped breaker does none of it.
ClosePosition(s, o) ==
  LET after == equity + o.usd
      eq == IF after > 0 THEN after ELSE 0
      newTrip == trip = NoTrip /\ trip' # NoTrip
  IN  /\ Free /\ book[s] # "none"
      /\ after <= EquityBound
      /\ equity' = eq
      /\ RecordPnl(o.pct, eq)
      /\ RecordTradeResult(o.pct > 0)
      /\ announcing' = newTrip
      /\ killed' = (killed \/ after <= 0 \/ newTrip)
      /\ autoClose' = (autoClose \/ newTrip)
      /\ book' = [book EXCEPT ![s] = "none"]
      /\ UNCHANGED <<unreconciled, safe, requested, file, sweep, swept, stream>>

\* The bus took CIRCUIT_BREAKER_TRIPPED: close_position goes on and frees the lock.
PublishReturns ==
  /\ announcing
  /\ announcing' = FALSE
  /\ UNCHANGED <<book, account, trip, killed, unreconciled, safe, requested, file,
                 autoClose, sweep, swept, stream>>

\* activate_kill_switch, called by the executor's KILL_SWITCH handler, by the
\* dashboard, or by the task a trip scheduled.
ActivateKill ==
  /\ Free
  /\ killed' = TRUE
  /\ sweep' = TRUE /\ swept' = TRUE
  /\ UNCHANGED <<book, account, trip, unreconciled, safe, requested, file,
                 autoClose, announcing, stream>>

\* Mutant: the task sets the switch and closes nothing.
KillOnlyOnTrip ==
  /\ Free /\ autoClose
  /\ autoClose' = FALSE
  /\ killed' = TRUE
  /\ UNCHANGED <<book, account, trip, unreconciled, safe, requested, file, kill,
                 stream>>

AutoCloseOnTrip ==
  /\ Free /\ autoClose
  /\ autoClose' = FALSE
  /\ killed' = TRUE
  /\ sweep' = TRUE /\ swept' = TRUE
  /\ UNCHANGED <<book, account, trip, unreconciled, safe, requested, file,
                 announcing, stream>>

\* One turn of the loop: the position is closed at its last price.
SweepPosition(s, o) ==
  LET after == equity + o.usd
      eq == IF after < 0 THEN 0 ELSE after
  IN  /\ sweep /\ book[s] # "none"
      /\ after <= EquityBound
      /\ equity' = eq
      /\ RecordPnl(o.pct, eq)
      /\ RecordTradeResult(o.pct > 0)
      /\ book' = [book EXCEPT ![s] = "none"]
      /\ UNCHANGED <<killed, unreconciled, safe, requested, file, autoClose,
                     kill, stream>>

SweepEnds ==
  /\ sweep /\ Held = {}
  /\ unreconciled' = TRUE
  /\ sweep' = FALSE
  /\ UNCHANGED <<book, account, trip, killed, safe, requested, file, autoClose,
                 announcing, swept, stream>>

(***************************************************************************)
(* Operators and timers.                                                   *)
(***************************************************************************)
\* deactivate_kill_switch: also removes the file, which may fail, and drops the cache.
DeactivateKill ==
  /\ ~sweep
  /\ killed' = FALSE
  /\ unreconciled' = FALSE
  /\ killFile' \in {FALSE, killFile}
  /\ fileCheck' = "stale"
  /\ swept' = FALSE
  /\ UNCHANGED <<book, account, trip, safe, requested, autoClose, sweep, announcing,
                 stream>>

SetTradingState(st) ==
  /\ ~sweep
  /\ requested' = st
  /\ UNCHANGED <<book, account, trip, killed, unreconciled, safe, file, autoClose,
                 kill, stream>>

\* POST /circuit-breaker/reset: CircuitBreaker.reset, whatever the reason was.
ResetBreaker ==
  /\ ~sweep
  /\ trip' = NoTrip
  /\ dailyLoss' = 0
  /\ UNCHANGED <<book, equity, peak, phase, streak, killed, unreconciled, safe,
                 requested, file, autoClose, kill, stream>>

\* Mutant: the midnight reset releases all of the switch, as an operator does.
MidnightReleasesAll ==
  /\ ~sweep
  /\ dailyLoss' = 0
  /\ IF trip = "daily_loss"
     THEN trip' = NoTrip /\ killed' = FALSE /\ unreconciled' = FALSE
     ELSE UNCHANGED <<trip, killed, unreconciled>>
  /\ UNCHANGED <<book, equity, peak, phase, streak, safe, requested, file,
                 autoClose, kill, stream>>

\* reset_daily_losses at 00:00 UTC.
MidnightReset ==
  /\ ~sweep
  /\ dailyLoss' = 0
  /\ IF trip = "daily_loss"
     THEN trip' = NoTrip /\ killed' = FALSE
     ELSE UNCHANGED <<trip, killed>>
  /\ UNCHANGED <<book, equity, peak, phase, streak, unreconciled, safe,
                 requested, file, autoClose, kill, stream>>

\* An operator drops data/.kill_switch; five seconds pass since the last look.
CreateKillFile ==
  /\ ~sweep /\ ~killFile
  /\ killFile' = TRUE
  /\ UNCHANGED <<book, account, trip, killed, unreconciled, safe, requested,
                 fileCheck, autoClose, kill, stream>>

FileCheckExpires ==
  /\ ~sweep /\ fileCheck # "stale"
  /\ fileCheck' = "stale"
  /\ UNCHANGED <<book, account, trip, killed, unreconciled, safe, requested,
                 killFile, autoClose, kill, stream>>

(***************************************************************************)
(* The executor and the reconcilers.                                       *)
(***************************************************************************)
\* Mutant: the breaker is tripped and the safe mode is not entered.
StreamLostTripOnly ==
  /\ ~sweep
  /\ trip' = StreamTrip
  /\ stream' = "lost"
  /\ UNCHANGED <<book, account, killed, unreconciled, safe, requested, file,
                 autoClose, kill>>

StreamLost ==
  /\ ~sweep
  /\ trip' = StreamTrip
  /\ safe' = safe \cup {"user_stream_lost"}
  /\ stream' = "lost"
  /\ UNCHANGED <<book, account, killed, unreconciled, requested, file, autoClose,
                 kill>>

\* Clears its own trip; a startup mismatch is reset together with the daily loss.
StreamConnected ==
  /\ ~sweep
  /\ trip' = IF trip \in {StreamTrip, MismatchTrip} THEN NoTrip ELSE trip
  /\ dailyLoss' = IF trip = MismatchTrip THEN 0 ELSE dailyLoss
  /\ safe' = safe \ {"user_stream_lost"}
  /\ stream' = "up"
  /\ UNCHANGED <<book, equity, peak, phase, streak, killed, unreconciled,
                 requested, file, autoClose, kill>>

\* The executor could not protect a fill, or could not cancel an entry order.
ExecutionFails ==
  /\ ~sweep
  /\ trip' = ExecutionTrip
  /\ UNCHANGED <<book, account, killed, unreconciled, safe, requested, file,
                 autoClose, kill, stream>>

\* PeriodicReconciler found the books apart.  Nothing in the code lifts this reason.
PeriodicMismatch ==
  /\ ~sweep
  /\ safe' = safe \cup {"exchange_api_timeout"}
  /\ UNCHANGED <<book, account, trip, killed, unreconciled, requested, file,
                 autoClose, kill, stream>>

(***************************************************************************)
(* The state StartupReconciler.reconcile leaves behind: positions rebuilt  *)
(* from the exchange, and the breaker tripped on a mismatch or a failure.  *)
(***************************************************************************)
Init ==
  /\ book \in [Symbols -> {"none", "open"}]
  /\ trip \in {NoTrip, MismatchTrip, ExecutionTrip}
  /\ equity = InitialEquity /\ peak = 0 /\ dailyLoss = 0
  /\ phase = 0 /\ streak = 0
  /\ killed = FALSE /\ unreconciled = FALSE
  /\ safe = {} /\ requested = "ACTIVE"
  /\ killFile \in BOOLEAN /\ fileCheck = "stale"
  /\ autoClose = FALSE /\ sweep = FALSE /\ announcing = FALSE /\ swept = FALSE
  /\ stream = "up"

Signals == \/ RefuseByFile
           \/ \E s \in Symbols : \/ ApproveAndOpen(s) \/ RefuseLater(s)
                                 \/ RebaseToFill(s) \/ CancelReserved(s)
                                 \/ OpenPosition(s)
Closes == \/ ActivateKill \/ AutoCloseOnTrip \/ SweepEnds \/ PublishReturns
          \/ \E s \in Symbols, o \in Outcomes : ClosePosition(s, o) \/ SweepPosition(s, o)
Operators == \/ DeactivateKill \/ ResetBreaker \/ CreateKillFile
             \/ \E st \in Requests : SetTradingState(st)
Timers == MidnightReset \/ FileCheckExpires
Feedback == StreamLost \/ StreamConnected \/ ExecutionFails \/ PeriodicMismatch

Next == Signals \/ Closes \/ Operators \/ Timers \/ Feedback

\* The scheduled close-all waits for the lock in the order of an asyncio.Lock, so it
\* has it when the lock is free again and again; a loop that never suspends ends.
\* Nothing says that the bus takes an event.
Fairness == /\ SF_vars(AutoCloseOnTrip)
            /\ WF_vars(SweepEnds \/ \E s \in Symbols, o \in Outcomes : SweepPosition(s, o))

Spec == Init /\ [][Next]_vars
FairSpec == Spec /\ Fairness

(***************************************************************************)
(* Properties.                                                             *)
(***************************************************************************)
\* The variables keep their types: the phase stays within its table, equity above nothing.
TypeOK ==
  /\ book \in [Symbols -> {"none", "pending", "open", "manual"}]
  /\ equity \in Nat /\ peak \in Nat
  /\ dailyLoss \in 0..DailyLossLimit
  /\ trip \in Trips
  /\ phase \in 0..3 /\ streak \in 0..Graduation
  /\ killed \in BOOLEAN /\ unreconciled \in BOOLEAN
  /\ killFile \in BOOLEAN /\ autoClose \in BOOLEAN
  /\ sweep \in BOOLEAN /\ announcing \in BOOLEAN /\ swept \in BOOLEAN
  /\ safe \subseteq {"user_stream_lost", "exchange_api_timeout"}
  /\ requested \in {"ACTIVE", "REDUCING", "HALTED"}
  /\ fileCheck \in {"stale", "clear", "seen"}
  /\ stream \in {"up", "lost"}

\* A signal adds a symbol to the book.
Entry == \E s \in Symbols : book[s] = "none" /\ book'[s] \in {"pending", "open"}

\* Once the handlers have seen the user stream go, no signal opens a position until
\* they have seen it return, whatever resets the breaker in between.
NoEntryWhileBlind == [][stream = "lost" => ~Entry]_vars

\* Once activate_kill_switch ran, no signal opens a position until an operator ran
\* deactivate_kill_switch: not after the midnight reset, which releases the switch,
\* nor after a reset of the breaker, a new state or a reconnected stream.
NoEntryUntilReleased == [][swept => ~Entry]_vars

\* A signal's entry leaves no more positions, the operator's own among them, than the
\* drawdown the account is in allows, although the phase is cached and steps back
\* only by graduation.
EntryWithinDrawdownCap ==
  [][Entry => Cardinality(Held') <= PhaseCap(DrawdownPhase(equity, peak))]_vars

\* The phase falls one step at a time and only in a step that closes a position
\* in profit, with Graduation - 1 wins before it.
GraduationIsEarned ==
  [][phase' < phase => /\ phase' = phase - 1
                       /\ Cardinality(Held') < Cardinality(Held)
                       /\ equity' > equity
                       /\ streak >= Graduation - 1]_vars

\* A trip that schedules the close-all leads to an empty book, unless the bus keeps
\* the announcement of a trip, and RiskManager._lock with it, for ever.
FlattensAfterTrip == []<>~announcing => (autoClose ~> (Held = {}))

\* What the gate promises the rest of the bot about signals, and what it does not
\* about the positions an operator opens.
Gate == INSTANCE EntryGate WITH state <- TradingState, held <- Held \ ByHand,
                                manual <- ByHand
GateSpec == Gate!Spec
=============================================================================
