----------------------------- MODULE MCEventBus -----------------------------
(* A queue of one and four events: enough for a publisher that waits, one    *)
(* that overtakes it, a tick behind another, and a handler that reports into *)
(* a full queue.  Three kinds of events at a time keep the run short.        *)
EXTENDS EventBus

MCMixes == { {"TICK", "SIGNAL", "PNL_UPDATE"},
             {"TICK", "KILL_SWITCH", "USER_ORDER_UPDATE"},
             {"SIGNAL", "USER_ORDER_UPDATE", "ALERT_CRITICAL"} }
=============================================================================
