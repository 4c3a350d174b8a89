------------------------------ MODULE EntryGate ------------------------------
(***************************************************************************)
(* What the risk gate promises to the rest of the bot, and nothing else:   *)
(* a set of symbols is held, an effective trading state is published, a    *)
(* signal's symbol joins the held set only while that state is ACTIVE and  *)
(* there is room, and entering does not itself change the state.  Leaving  *)
(* is always allowed, and the state may move for any reason of its own.    *)
(* An operator's own position joins at any time, takes room from the       *)
(* signals, and takes the place of a signal's on its symbol.               *)
(***************************************************************************)
EXTENDS Naturals, FiniteSets

CONSTANTS
  Symbols,   \* the symbols that can be held
  MaxOpen    \* risk.max_open_positions

VARIABLES
  state,     \* the effective state: "ACTIVE", "REDUCING" or "HALTED"
  held,      \* the symbols with a position or a reservation of a signal
  manual     \* the symbols with a position an operator opened

TradingStates == {"ACTIVE", "REDUCING", "HALTED"}

Init == /\ state \in TradingStates
        /\ held \in SUBSET Symbols
        /\ manual = {}

Enter(s) == /\ state = "ACTIVE"
            /\ s \notin held \cup manual
            /\ Cardinality(held \cup manual) < MaxOpen
            /\ held' = held \cup {s}
            /\ UNCHANGED <<state, manual>>

EnterByHand(s) == /\ manual' = manual \cup {s}
                  /\ held' = held \ {s}
                  /\ state' = state

\* Positions leave one at a time; the state may change in the same step, as it
\* does when the loss of a closed position trips the breaker.
Leave(s) == /\ s \in held \cup manual
            /\ held' = held \ {s}
            /\ manual' = manual \ {s}
            /\ state' \in TradingStates

Switch == /\ state' \in TradingStates
          /\ UNCHANGED <<held, manual>>

Next == Switch \/ \E s \in Symbols : Enter(s) \/ EnterByHand(s) \/ Leave(s)

vars == <<state, held, manual>>

Spec == Init /\ [][Next]_vars
=============================================================================
