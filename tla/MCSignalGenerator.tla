-------------------------- MODULE MCSignalGenerator --------------------------
(* Four correlated symbols, three positions and two per direction, as the    *)
(* program has them by default: each of the limits binds without the other.  *)
(* Disturbances come in groups, one group to an execution.                   *)
EXTENDS SignalGenerator, TLC

MCEnvironments == { {"reject", "kill", "halt"}, {"conflict", "hours"}, {"feeds", "direct"},
                    {"estop", "toggle", "hours", "reject"},
                    {"remote", "halt", "estop", "direct"}, {"remote", "reject", "kill"},
                    {"manual"}, {"restart"} }
RejectOnly == { {"reject"} }
Symmetry == Permutations(Symbols)
=============================================================================
