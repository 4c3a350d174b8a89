---------------------------- MODULE MCTradingGate ----------------------------
(* Two symbols.  One unit of money is half of the initial equity: one loss is *)
(* the caution phase; two leave nothing, which is the emergency phase and a   *)
(* drawdown trip, and within a day a daily-loss trip as well.  The defensive  *)
(* phase is reached by graduating from the emergency phase.                   *)
EXTENDS TradingGate

MCOutcomes == {[pct |-> 1, usd |-> 1], [pct |-> -1, usd |-> -1]}
=============================================================================
