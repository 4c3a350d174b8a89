--------------------------- MODULE SignalGenerator ---------------------------
(***************************************************************************)
(* From a closed candle to a SIGNAL: SignalGenerator                       *)
(* (engine/signal_generator.py) behind MarketDataIntegrityMonitor          *)
(* (data_ingestion/market_data_integrity.py) and EStopManager              *)
(* (execution/estop.py), in front of RiskManager's book.                   *)
(*                                                                         *)
(* _handle_candle runs from its first gate to the review of the candidate  *)
(* without suspending.  The review is a call of up to 8 s when the         *)
(* decision provider is remote, and no suspension at all when it is local; *)
(* candles of one symbol wait for each other, those of other symbols do    *)
(* not.  What the indicators say is left open: a layer passes or fails, and*)
(* of the scores only the band that decides a conflict is kept.            *)
(*                                                                         *)
(* What may happen in an execution is chosen once, in Init.                *)
(***************************************************************************)
EXTENDS Integers, FiniteSets

CONSTANTS
  Symbols,        \* the traded symbols, all of _CRYPTO_MAJOR_GROUP
  Channels,       \* the channels the monitor keeps health for
  MaxPositions,   \* _bot_config["max_positions"]
  MaxCorrelated,  \* MAX_CORRELATED of _check_correlation_block
  MaxFaulty,      \* feeds that are not well at the same time
  MaxForgotten,   \* paper trades of the dashboard that end
  MaxStreak,      \* _conflict_max_streak
  Environments    \* the sets of events an execution may contain

\* "remote": the provider is remote; "direct": its rejections are enforced (paper mode);
\* "feeds": feeds go bad; "hours": late candles and sessions without trading; "conflict":
\* layers disagree; "estop", "toggle", "halt", "kill": the operator and the risk manager
\* stop and resume; "reject": the risk manager or the exchange refuses a signal;
\* "manual": a paper trade of the dashboard ends; "restart": the process restarts.
Events == {"remote", "direct", "feeds", "hours", "conflict", "estop", "toggle", "halt",
           "kill", "reject", "manual", "restart"}

ASSUME GeneratorAssumption ==
  /\ IsFiniteSet(Symbols) /\ Environments \subseteq SUBSET Events
  /\ MaxPositions \in Nat /\ MaxCorrelated \in Nat /\ MaxFaulty \in Nat /\ MaxForgotten \in Nat /\ MaxStreak \in Nat \ {0}

VARIABLES
  may,         \* the events of this execution
  forgotten,   \* how many dashboard trades have ended, up to MaxForgotten
  feed,        \* FeedHealth.status per symbol and channel
  estop,       \* EStopManager._active
  auto,        \* _auto_trading_enabled
  halted,      \* killed, tripped or in safe mode: the risk snapshot refuses entries
  streak,      \* _conflict_streak, up to MaxStreak
  layers,      \* _last_layer_status and _last_quality_breakdown, of whichever symbol
  candidate,   \* per symbol, the direction under review
  directions,  \* _open_directions
  signals,     \* SIGNAL events on the bus; of two that are the same, one is refused
  book,        \* RiskManager.positions
  closings     \* POSITION_CLOSED events on the bus

setting == <<may, forgotten>>
gates == <<feed, estop, auto, halted>>
downstream == <<signals, book, closings>>
vars == <<setting, gates, streak, layers, candidate, directions, downstream>>

Directions == {"long", "short"}
NoneOr == Directions \cup {"none"}
Scores == {"low", "edge", "high"}
Bands == {"lower", "upper"}
Fresh == [blocked |-> FALSE, sound |-> FALSE]
Held(s) == directions[s] # "none"
Least(a, b) == IF a < b THEN a ELSE b

(***************************************************************************)
(* The market data monitor.                                                *)
(***************************************************************************)
\* Mutant: the monitor does not look at the other channels of the symbol.
FirstFeedAllows(s) == LET c == CHOOSE c \in Channels : TRUE IN feed[s][c] # "bad"

\* check_signal_allowed for a candle that closed a moment ago.  "bad" is GAP, INVALID or
\* OUT_OF_ORDER within gap_quarantine_seconds.
FeedsAllow(s) == \A c \in Channels : feed[s][c] # "bad"

Faulty == {f \in Symbols \X Channels : feed[f[1]][f[2]] # "ok"}
MayFault(s, c) == Cardinality(Faulty \cup {<<s, c>>}) <= MaxFaulty

\* _mark_event, and what _handle_orderbook_update and _handle_market_data_gap add: the
\* last event alone decides.
MarkEvent(s, c) ==
  /\ "feeds" \in may
  /\ \E status \in {"ok", "bad"} :
       /\ status = "bad" => MayFault(s, c)
       /\ feed' = [feed EXCEPT ![s][c] = status]
  /\ UNCHANGED <<setting, estop, auto, halted, streak, layers, candidate, directions, downstream>>

\* The quarantine ends by time, or earlier when _refresh_stale_states finds the feed silent.
RefreshStale(s, c) ==
  /\ feed[s][c] # "stale" /\ "feeds" \in may /\ MayFault(s, c)
  /\ feed' = [feed EXCEPT ![s][c] = "stale"]
  /\ UNCHANGED <<setting, estop, auto, halted, streak, layers, candidate, directions, downstream>>

\* ws_prolonged_disconnect marks every feed of the exchange, quarantined or not.
HandleAlert ==
  /\ "feeds" \in may
  /\ feed' = [s \in Symbols |-> [c \in Channels |-> "stale"]]
  /\ UNCHANGED <<setting, estop, auto, halted, streak, layers, candidate, directions, downstream>>

(***************************************************************************)
(* _handle_candle up to the review.                                        *)
(***************************************************************************)
\* An early return before the layers: the symbol's own status is BLOCKED.
Preflight(s) ==
  /\ candidate[s] = "none"
  /\ ~FeedsAllow(s) \/ estop \/ "hours" \in may
  /\ layers' = [layers EXCEPT !.blocked = TRUE]
  /\ UNCHANGED <<setting, gates, streak, candidate, directions, downstream>>

\* One of the hard gates L2 to L6 fails: the breakdown's total is 0.
LayerFails(s) ==
  /\ candidate[s] = "none" /\ FeedsAllow(s) /\ ~estop
  /\ layers' = Fresh
  /\ UNCHANGED <<setting, gates, streak, candidate, directions, downstream>>

\* REQ-SIG-010: a layer in the upper band and one in the lower.
InConflict(bands) == Bands \subseteq bands

\* Mutant: the streak grows past the count that blocks.
StreakUncapped(s, bands) == IF InConflict(bands) THEN streak[s] + 1 ELSE 0

\* REQ-SIG-012: the streak grows with every conflict and ends with the first agreement.
Streak(s, bands) == IF InConflict(bands) THEN Least(streak[s] + 1, MaxStreak) ELSE 0

\* L8: an edge score is one the conflict penalty takes below the threshold.
GoodEnough(bands, score) == score = "high" \/ (score = "edge" /\ ~InConflict(bands))

Correlated(s, d) ==
  Cardinality({t \in Symbols \ {s} : directions[t] = d}) >= MaxCorrelated

\* The larger of the two books, each of which may know positions the other does not.
OpenCount ==
  LET own == {s \in Symbols : Held(s)}
      risk == {s \in Symbols : book[s] # "none"}
  IN  IF Cardinality(own) > Cardinality(risk) THEN Cardinality(own) ELSE Cardinality(risk)

\* Mutant: only the risk manager's book is counted.
MayEnterUncounted(s, d) ==
  /\ auto /\ ~Held(s) /\ ~Correlated(s, d)
  /\ Cardinality({t \in Symbols : book[t] # "none"}) < MaxPositions

\* Mutant: no duplicate guard.
MayEnterAgain(s, d) == auto /\ ~Correlated(s, d) /\ OpenCount < MaxPositions

MayEnter(s, d) == auto /\ ~Held(s) /\ ~Correlated(s, d) /\ OpenCount < MaxPositions

\* Mutant: the status the last preflight left is not replaced.
StatusKept(score) == [layers EXCEPT !.sound = score # "low"]

Status(score) == [blocked |-> FALSE, sound |-> score # "low"]

\* All hard gates pass: scores, conflict, quality, correlation, duplicate and position
\* gates; what is left is a candidate to review.
Judge(s, d, bands, score) ==
  /\ candidate[s] = "none" /\ FeedsAllow(s) /\ ~estop
  /\ InConflict(bands) => "conflict" \in may
  /\ streak' = [streak EXCEPT ![s] = Streak(s, bands)]
  /\ layers' = Status(score)
  /\ candidate' = IF streak'[s] < MaxStreak /\ GoodEnough(bands, score) /\ MayEnter(s, d)
                  THEN [candidate EXCEPT ![s] = d] ELSE candidate
  /\ UNCHANGED <<setting, gates, directions, downstream>>

\* A candle of the primary timeframe closes.
Candle(s) ==
  \/ Preflight(s)
  \/ LayerFails(s)
  \/ \E d \in Directions, bands \in SUBSET Bands, score \in Scores :
       Judge(s, d, bands, score)

(***************************************************************************)
(* The rest of _handle_candle.                                             *)
(***************************************************************************)
\* EntryEligibilityGate with strict_layers off, read when the review has come back.
ReceiptAllows == ~layers.blocked /\ layers.sound /\ ~halted

Answer(s) == candidate' = [candidate EXCEPT ![s] = "none"]

\* The provider's answer lets the candidate pass and so does the receipt.
Publish(s) ==
  /\ candidate[s] # "none" /\ ReceiptAllows
  /\ Answer(s)
  /\ directions' = [directions EXCEPT ![s] = candidate[s]]
  /\ signals' = signals \cup {<<s, candidate[s]>>}
  /\ UNCHANGED <<setting, gates, streak, layers, book, closings>>

\* The answer is a rejection that counts (_ai_direct_allowed), or the receipt blocks.
Drop(s) ==
  /\ candidate[s] # "none"
  /\ ~ReceiptAllows \/ ("direct" \in may /\ ~halted)
  /\ Answer(s)
  /\ UNCHANGED <<setting, gates, streak, layers, directions, downstream>>

(***************************************************************************)
(* What clears, and does not clear, the memory of a direction.             *)
(***************************************************************************)
HandlePositionClosed(s) ==
  /\ s \in closings
  /\ closings' = closings \ {s}
  /\ directions' = [directions EXCEPT ![s] = "none"]
  /\ UNCHANGED <<setting, gates, streak, layers, candidate, signals, book>>

\* record_trade_result, when a paper trade of the dashboard ends.
RecordTradeResult(s) ==
  /\ "manual" \in may
  /\ forgotten < MaxForgotten /\ forgotten' = forgotten + 1
  /\ directions' = [directions EXCEPT ![s] = "none"]
  /\ UNCHANGED <<may, gates, streak, layers, candidate, downstream>>

\* The executor's SIGNAL handler: the risk manager reserves the position, or it or the
\* exchange refuses and nothing is reported to the generator.
HandleSignal(s, d) ==
  /\ <<s, d>> \in signals
  /\ signals' = signals \ {<<s, d>>}
  /\ \/ ~halted /\ book[s] = "none" /\ book' = [book EXCEPT ![s] = d]
     \/ (halted \/ book[s] # "none" \/ "reject" \in may) /\ UNCHANGED book
  /\ UNCHANGED <<setting, gates, streak, layers, candidate, directions, closings>>

ClosePosition(s) ==
  /\ book[s] # "none"
  /\ book' = [book EXCEPT ![s] = "none"]
  /\ closings' = closings \cup {s}
  /\ UNCHANGED <<setting, gates, streak, layers, candidate, directions, signals>>

\* /v1/kill empties the book and publishes no POSITION_CLOSED.
Kill ==
  /\ "kill" \in may
  /\ halted' = TRUE
  /\ book' = [s \in Symbols |-> "none"]
  /\ UNCHANGED <<setting, feed, estop, auto, streak, layers, candidate, directions, signals,
                 closings>>

(***************************************************************************)
(* The operator and the process.                                           *)
(***************************************************************************)
\* EStopManager.trigger and release, from the dashboard: without an executor it is a flag.
EStop ==
  /\ "estop" \in may /\ estop' = ~estop
  /\ UNCHANGED <<setting, feed, auto, halted, streak, layers, candidate, directions, downstream>>

SetAutoTrading ==
  /\ "toggle" \in may /\ auto' = ~auto
  /\ UNCHANGED <<setting, feed, estop, halted, streak, layers, candidate, directions, downstream>>

\* The risk manager trips or is killed, enters safe mode, or is released.
SetHalted ==
  /\ "halt" \in may /\ halted' = ~halted
  /\ UNCHANGED <<setting, feed, estop, auto, streak, layers, candidate, directions, downstream>>

NoFaults == [s \in Symbols |-> [c \in Channels |-> "ok"]]
Nothing == [s \in Symbols |-> "none"]
NoStreaks == [s \in Symbols |-> 0]

\* The positions come back from SQLite and the exchange, the directions do not.
Restart ==
  /\ "restart" \in may
  /\ feed' = NoFaults /\ estop' = FALSE /\ auto' \in BOOLEAN /\ halted' \in BOOLEAN
  /\ streak' = NoStreaks /\ layers' = Fresh /\ candidate' = Nothing /\ directions' = Nothing
  /\ signals' = {} /\ closings' = {}
  /\ UNCHANGED <<setting, book>>

Init ==
  /\ may \in Environments /\ forgotten = 0
  /\ feed = NoFaults /\ estop = FALSE /\ auto \in BOOLEAN /\ halted = FALSE
  /\ streak = NoStreaks /\ layers = Fresh /\ candidate = Nothing /\ directions = Nothing
  /\ signals = {} /\ book = Nothing /\ closings = {}

\* A local review does not suspend: nothing happens between the candidate and its signal.
Suspendable == "remote" \in may \/ \A s \in Symbols : candidate[s] = "none"

Next ==
  \/ \E s \in Symbols : Publish(s) \/ Drop(s)
  \/ /\ Suspendable
     /\ \/ \E s \in Symbols :
             \/ \E c \in Channels : MarkEvent(s, c) \/ RefreshStale(s, c)
             \/ Candle(s) \/ HandlePositionClosed(s) \/ RecordTradeResult(s) \/ ClosePosition(s)
             \/ \E d \in Directions : HandleSignal(s, d)
        \/ HandleAlert \/ Kill \/ EStop \/ SetAutoTrading \/ SetHalted \/ Restart

Spec == Init /\ [][Next]_vars

(***************************************************************************)
(* Properties.                                                             *)
(***************************************************************************)
\* The variables keep their types, and only one candidate is under review when the
\* provider is local.
TypeOK ==
  /\ may \in Environments /\ forgotten \in 0..MaxForgotten
  /\ feed \in [Symbols -> [Channels -> {"ok", "bad", "stale"}]]
  /\ estop \in BOOLEAN /\ auto \in BOOLEAN /\ halted \in BOOLEAN
  /\ streak \in [Symbols -> 0..MaxStreak]
  /\ layers \in [blocked : BOOLEAN, sound : BOOLEAN]
  /\ candidate \in [Symbols -> NoneOr] /\ directions \in [Symbols -> NoneOr]
  /\ signals \subseteq Symbols \X Directions
  /\ book \in [Symbols -> NoneOr] /\ closings \subseteq Symbols
  /\ "remote" \notin may => Cardinality({s \in Symbols : candidate[s] # "none"}) <= 1

\* Symbols with a signal on its way or a position.
Entered == {s \in Symbols : book[s] # "none" \/ \E d \in Directions : <<s, d>> \in signals}

\* As long as nobody else clears the generator's memory, it knows a direction for every
\* symbol with a signal on its way or a position, and it is the direction entered: the
\* duplicate guard and the correlation filter never work from a hole, whatever was
\* published, closed or refused in between.
EntryRemembered ==
  may \cap {"manual", "restart"} = {} =>
    \A s \in Symbols : /\ book[s] # "none" => directions[s] = book[s]
                       /\ \A d \in Directions : <<s, d>> \in signals => directions[s] = d

\* With a local provider, entries and signals on their way stay within max_positions, and
\* no direction has more of the correlated symbols than MAX_CORRELATED.
LimitHolds ==
  may \cap {"manual", "restart", "remote"} = {} =>
    /\ Cardinality(Entered) <= MaxPositions
    /\ \A d \in Directions : Cardinality({s \in Entered : directions[s] = d}) <= MaxCorrelated

Answered(s) == candidate[s] # "none" /\ candidate'[s] = "none"
Published(s) == Answered(s) /\ <<s, candidate[s]>> \in signals' /\ directions'[s] = candidate[s]

\* No signal leaves while the risk manager refuses entries, also when it began to during
\* the review; and with a local provider none leaves while the emergency stop is active,
\* auto-trading is off, a feed of the symbol is quarantined or its layers have disagreed
\* MaxStreak times in a row.
StoppedMeansQuiet ==
  [][\A s \in Symbols : Published(s) =>
       /\ ~halted
       /\ "remote" \in may \/ (auto /\ ~estop /\ \A c \in Channels : feed[s][c] # "bad")
       /\ streak[s] < MaxStreak]_vars

\* With a local provider, and unless its rejections are enforced, the receipt confirms what
\* the gates decided: a candidate they let pass is only dropped for the risk manager.
ReceiptAgrees ==
  [][\A s \in Symbols : Answered(s) =>
       Published(s) \/ halted \/ may \cap {"remote", "direct", "restart"} # {}]_vars

\* signal_generator.py:3757: without the cleanup on POSITION_CLOSED the duplicate guard
\* "permanently blocks new entries on that symbol until bot restart".  A direction is
\* remembered only while an entry, or the report of its end, is on its way or open.
NoDeadSymbol == \A s \in Symbols : Held(s) => s \in Entered \cup closings
=============================================================================
