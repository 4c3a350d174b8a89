-------------------------- MODULE MCTradePersistence --------------------------
(* Two trades of one symbol, one after the other: the second may go the other *)
(* way, and its unnamed row meets that of the first.  Disturbances come in    *)
(* groups, one group to an execution.                                         *)
EXTENDS TradePersistence, TLC

MCEnvironments == { {"stream", "again"}, {"kill", "manual"}, {"stream", "outage", "single"},
                    {"stream", "outage", "replay", "single"}, {"early", "replay"},
                    {"outage", "replay", "hard"}, {"outage", "restart"}, {"outage", "disk"} }
=============================================================================
