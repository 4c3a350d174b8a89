----------------------------- MODULE MCRecovery -----------------------------
(* Two entries and two lives: what the first life leaves behind by a crash or *)
(* a stop, with calls that fail, trades by hand, a listen key that expires,   *)
(* a stream with names of its own, and entries whose answer gets lost.        *)
EXTENDS Recovery

MCEnvironments == { {"crash", "refuse"}, {"stop", "refuse"}, {"crash", "outside"},
                    {"crash", "expire"}, {"crash", "renamed"},
                    {"lose"} }
OneCrash == { {"crash"} }
=============================================================================
