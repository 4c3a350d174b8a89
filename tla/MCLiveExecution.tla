--------------------------- MODULE MCLiveExecution ---------------------------
(* Entries of two units, so that one can fill in part.  Two signals in a row *)
(* where calls fail cleanly and the operator closes, where calls get lost,   *)
(* where entries fill in parts, and where the operator kills; one signal     *)
(* with parts, refused and lost calls and the other events in turn, or under *)
(* two names; and entries that stay limit orders or are placed in two parts. *)
EXTENDS LiveExecution

MCEnvironments == { {"refuse", "manual", "again"}, {"refuse", "lose", "again"},
                    {"refuse", "split", "again"}, {"refuse", "kill", "again"},
                    {"refuse", "split", "tick", "manual"}, {"refuse", "lose", "split", "manual"},
                    {"lose", "split", "tick", "manual"}, {"lose", "split", "manual", "kill"},
                    {"renamed", "refuse", "split", "manual"},
                    {"limit", "refuse", "manual", "again"}, {"iceberg", "refuse"},
                    {"iceberg", "refuse", "lose", "limit", "tick", "manual"} }
OneOrder == { {"refuse", "split"} }
OneKill == { {"kill"} }
OneRenamed == { {"renamed"} }
=============================================================================
