--------------------------- MODULE MCPaperExchange ---------------------------
(* Three orders of two units: an entry, a close and one more, or three of the *)
(* endpoints.  Time alone with the endpoints, and with the executor, past     *)
(* every threshold; restarts, kills and the endpoints with the executor       *)
(* within a unit of time.                                                     *)
EXTENDS PaperExchange

MCEnvironments == { {"api", "time"}, {"signal", "part", "manual", "time"},
                    {"api", "signal", "part", "restart", "restore"},
                    {"api", "signal", "part", "restart", "disk"},
                    {"api", "signal", "part", "manual", "kill"},
                    {"signal", "part", "manual", "kill", "restart", "restore"} }
=============================================================================
