-------------------------- MODULE TradingGate_proofs --------------------------
(***************************************************************************)
(* Theorems about TradingGate, for every set of symbols, every limit and   *)
(* every possible result of a trade.                                       *)
(***************************************************************************)
EXTENDS TradingGate, FiniteSetTheorems, TLAPS

(***************************************************************************)
(* Account arithmetic.                                                     *)
(***************************************************************************)
LEMMA PhaseRange ==
  ASSUME NEW eq, NEW pk
  PROVE  DrawdownPhase(eq, pk) \in 0..3
BY DEF DrawdownPhase

\* The update never lowers the phase, and reaches the one of the drawdown.
LEMMA UpdatedPhaseRises ==
  ASSUME phase \in 0..3
  PROVE  /\ UpdatedPhase \in 0..3
         /\ UpdatedPhase >= phase
         /\ UpdatedPhase >= DrawdownPhase(equity, peak)
BY PhaseRange DEF UpdatedPhase

\* A deeper phase never allows more positions.
LEMMA PhaseCapFalls ==
  ASSUME NEW p \in 0..3, NEW q \in 0..3, p <= q
  PROVE  /\ PhaseCap(p) \in Nat
         /\ PhaseCap(q) <= PhaseCap(p)
BY ConstantsAssumption DEF PhaseCap

(***************************************************************************)
(* The shape of the book.                                                  *)
(***************************************************************************)
LEMMA HeldFinite ==
  /\ IsFiniteSet(Held) /\ Cardinality(Held) \in Nat
  /\ Held \subseteq Symbols
<1>1. Held \subseteq Symbols
  BY DEF Held
<1> QED
  BY <1>1, ConstantsAssumption, FS_Subset, FS_CardinalityType

\* A symbol that leaves the book is one fewer,
LEMMA TakenFromBook ==
  ASSUME TypeOK, NEW s \in Symbols, book[s] # "none",
         book' = [book EXCEPT ![s] = "none"]
  PROVE  /\ Held' = Held \ {s} /\ ByHand' = ByHand \ {s}
         /\ s \in Held
         /\ Cardinality(Held') = Cardinality(Held) - 1
<1>1. Held' = Held \ {s} /\ ByHand' = ByHand \ {s} /\ s \in Held
  BY DEF Held, ByHand, TypeOK
<1> QED
  BY <1>1, HeldFinite, FS_RemoveElement

\* and one that joins it one more.
LEMMA AddedToBook ==
  ASSUME TypeOK, NEW s \in Symbols, s \notin Held,
         NEW b \in {"pending", "open"}, book' = [book EXCEPT ![s] = b]
  PROVE  /\ Held' = Held \cup {s} /\ ByHand' = ByHand
         /\ Cardinality(Held') = Cardinality(Held) + 1
<1>1. Held' = Held \cup {s} /\ ByHand' = ByHand
  BY DEF Held, ByHand, TypeOK
<1> QED
  BY <1>1, HeldFinite, FS_AddElement

(***************************************************************************)
(* Type correctness.  RecordPnl and RecordTradeResult are the only actions *)
(* with arithmetic in them, and get lemmas of their own.                   *)
(***************************************************************************)
LEMMA RecordPnlType ==
  ASSUME TypeOK, NEW pct \in Int, NEW eq \in Nat, RecordPnl(pct, eq)
  PROVE  dailyLoss' \in 0..DailyLossLimit /\ peak' \in Nat /\ trip' \in Trips
<1>1. dailyLoss' \in 0..DailyLossLimit
  BY ConstantsAssumption DEF TypeOK, RecordPnl
<1>2. peak' \in Nat
  BY DEF TypeOK, RecordPnl
<1>3. trip' \in Trips
  BY DEF TypeOK, RecordPnl, Trips, LossTrips
<1> QED
  BY <1>1, <1>2, <1>3

\* A result lowers the phase by one at most, and then after enough wins.
LEMMA RecordTradeResultType ==
  ASSUME TypeOK, NEW win \in BOOLEAN, RecordTradeResult(win)
  PROVE  /\ phase' \in 0..3 /\ streak' \in 0..Graduation
         /\ phase' <= phase
         /\ phase' < phase => phase' = phase - 1 /\ win /\ streak >= Graduation - 1
BY ConstantsAssumption DEF TypeOK, RecordTradeResult

\* An update of the phase only raises it.
LEMMA UpdatePhaseType ==
  ASSUME TypeOK, UpdatePhase
  PROVE  phase' \in 0..3 /\ streak' \in 0..Graduation /\ phase' >= phase
BY UpdatedPhaseRises, ConstantsAssumption DEF TypeOK, UpdatePhase

\* An outcome wins in money when it wins in percent.
LEMMA OutcomeType ==
  ASSUME NEW o \in Outcomes
  PROVE  o.pct \in Int /\ o.usd \in Int /\ (o.pct > 0 <=> o.usd > 0)
BY ConstantsAssumption

\* What one close does to the account, whoever makes it.
LEMMA CloseType ==
  ASSUME TypeOK, NEW o \in Outcomes, NEW eq \in Nat,
         RecordPnl(o.pct, eq), RecordTradeResult(o.pct > 0)
  PROVE  /\ dailyLoss' \in 0..DailyLossLimit /\ peak' \in Nat /\ trip' \in Trips
         /\ phase' \in 0..3 /\ streak' \in 0..Graduation
<1>1. o.pct \in Int /\ (o.pct > 0) \in BOOLEAN
  BY OutcomeType
<1> QED
  BY <1>1, RecordPnlType, RecordTradeResultType

\* The reasons given to the breaker.
LEMMA TripsOf ==
  {NoTrip, MismatchTrip, ExecutionTrip, StreamTrip} \subseteq Trips
BY DEF Trips

\* The types hold at first.
LEMMA InitType == Init => TypeOK
<1> SUFFICES ASSUME Init PROVE TypeOK
  OBVIOUS
<1>1. trip \in Trips
  BY TripsOf DEF Init
<1> QED
  <2>1. equity \in Nat /\ peak \in Nat /\ dailyLoss \in 0..DailyLossLimit
        /\ phase \in 0..3 /\ streak \in 0..Graduation
    BY ConstantsAssumption DEF Init
  <2> QED
    BY <1>1, <2>1 DEF Init, TypeOK

\* Every step keeps the types.
LEMMA NextType == TypeOK /\ [Next]_vars => TypeOK'
<1> SUFFICES ASSUME TypeOK, [Next]_vars
             PROVE  TypeOK'
  OBVIOUS
<1> USE ConstantsAssumption
<1>1. ASSUME NEW s \in Symbols, ApproveAndOpen(s) PROVE TypeOK'
  <2>1. phase' \in 0..3 /\ streak' \in 0..Graduation
    BY <1>1, UpdatePhaseType DEF ApproveAndOpen
  <2> QED
    BY <1>1, <2>1 DEF ApproveAndOpen, TypeOK, kill
<1>2. CASE RefuseByFile
  BY <1>2 DEF RefuseByFile, TypeOK, account, kill
<1>3. ASSUME NEW s \in Symbols, RefuseLater(s) PROVE TypeOK'
  <2>1. phase' \in 0..3 /\ streak' \in 0..Graduation
    BY <1>3, UpdatePhaseType DEF RefuseLater, TypeOK, kill
  <2> QED
    BY <1>3, <2>1 DEF RefuseLater, TypeOK, kill
<1>4. ASSUME NEW s \in Symbols, RebaseToFill(s) \/ CancelReserved(s) \/ OpenPosition(s)
      PROVE  TypeOK'
  <2>1. CASE RebaseToFill(s)
    BY <2>1 DEF RebaseToFill, TypeOK, account, file, kill
  <2>2. CASE CancelReserved(s)
    BY <2>2 DEF CancelReserved, TypeOK, account, file, kill
  <2>3. CASE OpenPosition(s)
    BY <2>3 DEF OpenPosition, TypeOK, account, file, kill
  <2> QED
    BY <1>4, <2>1, <2>2, <2>3
<1>5. ASSUME NEW s \in Symbols, NEW o \in Outcomes, ClosePosition(s, o) PROVE TypeOK'
  <2> DEFINE eq == IF equity + o.usd > 0 THEN equity + o.usd ELSE 0
  <2>1. eq \in Nat /\ equity' = eq /\ RecordPnl(o.pct, eq) /\ RecordTradeResult(o.pct > 0)
    BY <1>5, OutcomeType DEF ClosePosition, TypeOK
  <2>2. /\ dailyLoss' \in 0..DailyLossLimit /\ peak' \in Nat /\ trip' \in Trips
        /\ phase' \in 0..3 /\ streak' \in 0..Graduation
    BY <2>1, CloseType
  <2>3. killed' \in BOOLEAN /\ autoClose' \in BOOLEAN /\ announcing' \in BOOLEAN
    BY <1>5 DEF ClosePosition, TypeOK
  <2>4. book' \in [Symbols -> {"none", "pending", "open", "manual"}]
    BY <1>5 DEF ClosePosition, TypeOK
  <2>5. UNCHANGED <<unreconciled, safe, requested, file, sweep, swept, stream>>
    BY <1>5 DEF ClosePosition
  <2> HIDE DEF eq
  <2> QED
    BY <2>1, <2>2, <2>3, <2>4, <2>5 DEF TypeOK, file
<1>6. ASSUME NEW s \in Symbols, NEW o \in Outcomes, SweepPosition(s, o) PROVE TypeOK'
  <2> DEFINE eq == IF equity + o.usd < 0 THEN 0 ELSE equity + o.usd
  <2>1. eq \in Nat /\ equity' = eq /\ RecordPnl(o.pct, eq) /\ RecordTradeResult(o.pct > 0)
    BY <1>6, OutcomeType DEF SweepPosition, TypeOK
  <2>2. /\ dailyLoss' \in 0..DailyLossLimit /\ peak' \in Nat /\ trip' \in Trips
        /\ phase' \in 0..3 /\ streak' \in 0..Graduation
    BY <2>1, CloseType
  <2>3. book' \in [Symbols -> {"none", "pending", "open", "manual"}]
    BY <1>6 DEF SweepPosition, TypeOK
  <2>4. UNCHANGED <<killed, unreconciled, safe, requested, file, autoClose, kill,
                    stream>>
    BY <1>6 DEF SweepPosition
  <2> HIDE DEF eq
  <2> QED
    BY <2>1, <2>2, <2>3, <2>4 DEF TypeOK, file, kill
<1>7. CASE ActivateKill \/ AutoCloseOnTrip \/ SweepEnds \/ PublishReturns
  <2>1. CASE ActivateKill
    BY <2>1 DEF ActivateKill, TypeOK, account, file
  <2>2. CASE AutoCloseOnTrip
    BY <2>2 DEF AutoCloseOnTrip, TypeOK, account, file
  <2>3. CASE SweepEnds
    BY <2>3 DEF SweepEnds, TypeOK, account, file
  <2>4. CASE PublishReturns
    BY <2>4 DEF PublishReturns, TypeOK, account, file
  <2> QED
    BY <1>7, <2>1, <2>2, <2>3, <2>4
<1>8. CASE DeactivateKill
  BY <1>8 DEF DeactivateKill, TypeOK, account, kill
<1>9. CASE ResetBreaker \/ CreateKillFile
  <2>1. dailyLoss' \in 0..DailyLossLimit
    BY <1>9 DEF ResetBreaker, CreateKillFile, TypeOK, account
  <2>2. trip' \in Trips
    BY <1>9, TripsOf DEF ResetBreaker, CreateKillFile, TypeOK
  <2>3. CASE ResetBreaker
    BY <2>1, <2>2, <2>3 DEF ResetBreaker, TypeOK, account, file, kill
  <2>4. CASE CreateKillFile
    BY <2>1, <2>2, <2>4 DEF CreateKillFile, TypeOK, account, file, kill
  <2> QED
    BY <1>9, <2>3, <2>4
<1>10. ASSUME NEW st \in Requests, SetTradingState(st) PROVE TypeOK'
  BY <1>10 DEF SetTradingState, TypeOK, account, file, kill
<1>11. CASE MidnightReset \/ FileCheckExpires
  <2>1. dailyLoss' \in 0..DailyLossLimit
    BY <1>11 DEF MidnightReset, FileCheckExpires, TypeOK, account
  <2>2. trip' \in Trips
    BY <1>11, TripsOf DEF MidnightReset, FileCheckExpires, TypeOK
  <2>3. CASE MidnightReset
    BY <2>1, <2>2, <2>3 DEF MidnightReset, TypeOK, file, kill
  <2>4. CASE FileCheckExpires
    BY <2>1, <2>2, <2>4 DEF FileCheckExpires, TypeOK, account, kill
  <2> QED
    BY <1>11, <2>3, <2>4
<1>12. CASE StreamLost \/ StreamConnected
  <2>1. dailyLoss' \in 0..DailyLossLimit
    BY <1>12 DEF StreamLost, StreamConnected, TypeOK, account
  <2>2. trip' \in Trips
    BY <1>12, TripsOf DEF StreamLost, StreamConnected, TypeOK
  <2>3. CASE StreamLost
    BY <2>1, <2>2, <2>3 DEF StreamLost, TypeOK, account, file, kill
  <2>4. CASE StreamConnected
    BY <2>1, <2>2, <2>4 DEF StreamConnected, TypeOK, file, kill
  <2> QED
    BY <1>12, <2>3, <2>4
<1>13. CASE ExecutionFails \/ PeriodicMismatch
  <2>1. CASE ExecutionFails
    BY <2>1, TripsOf DEF ExecutionFails, TypeOK, account, file, kill
  <2>2. CASE PeriodicMismatch
    BY <2>2, TripsOf DEF PeriodicMismatch, TypeOK, account, file, kill
  <2> QED
    BY <1>13, <2>1, <2>2
<1>14. CASE UNCHANGED vars
  BY <1>14 DEF vars, account, file, kill, TypeOK
<1> QED
  BY <1>1, <1>2, <1>3, <1>4, <1>5, <1>6, <1>7, <1>8, <1>9, <1>10, <1>11, <1>12,
     <1>13, <1>14
  DEF Next, Signals, Closes, Operators, Timers, Feedback

\* The gate's variables stay in their types, whatever the order of its steps.
THEOREM TypeCorrect == Spec => []TypeOK
BY InitType, NextType, PTL DEF Spec

(***************************************************************************)
(* Entries.  Every property about entries rests on this: a signal's        *)
(* position joins the book in approve_and_open and nowhere else.           *)
(***************************************************************************)
LEMMA EntryIsApproval ==
  ASSUME TypeOK, [Next]_vars, Entry
  PROVE  \E s \in Symbols : ApproveAndOpen(s)
<1>1. PICK s \in Symbols : book[s] = "none" /\ book'[s] \in {"pending", "open"}
  BY DEF Entry
<1>2. book' # book
  BY <1>1
<1>3. ASSUME NEW r \in Symbols, RebaseToFill(r) PROVE FALSE
  BY <1>1, <1>3 DEF RebaseToFill, TypeOK
<1>4. ASSUME NEW r \in Symbols, CancelReserved(r) PROVE FALSE
  BY <1>1, <1>4 DEF CancelReserved, TypeOK
<1>5. ASSUME NEW r \in Symbols, NEW o \in Outcomes, ClosePosition(r, o) PROVE FALSE
  BY <1>1, <1>5 DEF ClosePosition, TypeOK
<1>6. ASSUME NEW r \in Symbols, NEW o \in Outcomes, SweepPosition(r, o) PROVE FALSE
  BY <1>1, <1>6 DEF SweepPosition, TypeOK
<1>7. ASSUME NEW r \in Symbols, RefuseLater(r) PROVE FALSE
  BY <1>2, <1>7 DEF RefuseLater
<1>8. ~RefuseByFile /\ ~ActivateKill /\ ~AutoCloseOnTrip /\ ~SweepEnds
  BY <1>2 DEF RefuseByFile, ActivateKill, AutoCloseOnTrip, SweepEnds
<1>12. ~PublishReturns
  BY <1>2 DEF PublishReturns
<1>13. ASSUME NEW r \in Symbols, OpenPosition(r) PROVE FALSE
  BY <1>1, <1>13 DEF OpenPosition, TypeOK
<1>9. ~Operators
  BY <1>2 DEF Operators, DeactivateKill, ResetBreaker, CreateKillFile, SetTradingState
<1>10. ~Timers /\ ~Feedback
  BY <1>2 DEF Timers, MidnightReset, FileCheckExpires, Feedback, StreamLost,
              StreamConnected, ExecutionFails, PeriodicMismatch
<1>11. ~UNCHANGED vars
  BY <1>2 DEF vars
<1> QED
  BY <1>3, <1>4, <1>5, <1>6, <1>7, <1>8, <1>9, <1>10, <1>11, <1>12, <1>13
  DEF Next, Signals, Closes

\* What approve_and_open knows of the state when it lets a position in.
LEMMA ApprovalState ==
  ASSUME NEW s \in Symbols, ApproveAndOpen(s)
  PROVE  /\ ~sweep /\ ~killed /\ ~unreconciled /\ safe = {} /\ trip = NoTrip
         /\ TradingState = "ACTIVE"
BY DEF ApproveAndOpen, Examined, Free, Admits, TradingState

(***************************************************************************)
(* The safe mode carries the loss of the stream: the breaker's reason may  *)
(* be overwritten and the breaker reset, the safe mode's reason may not.   *)
(***************************************************************************)
BlindIsSafe == stream = "lost" => "user_stream_lost" \in safe

\* Every step keeps the safe mode of a lost stream.
LEMMA BlindIsSafeStep == BlindIsSafe /\ [Next]_vars => BlindIsSafe'
<1> SUFFICES ASSUME BlindIsSafe, [Next]_vars PROVE BlindIsSafe'
  OBVIOUS
<1>1. CASE StreamLost \/ StreamConnected \/ PeriodicMismatch
  BY <1>1 DEF StreamLost, StreamConnected, PeriodicMismatch, BlindIsSafe
<1>2. ASSUME UNCHANGED <<stream, safe>> PROVE BlindIsSafe'
  BY <1>2 DEF BlindIsSafe
<1>3. CASE Signals
  BY <1>2, <1>3 DEF Signals, RefuseByFile, ApproveAndOpen, RefuseLater, RebaseToFill,
                      CancelReserved, OpenPosition
<1>4. CASE Closes
  BY <1>2, <1>4 DEF Closes, ActivateKill, AutoCloseOnTrip, SweepEnds, PublishReturns,
                      ClosePosition, SweepPosition
<1>5. CASE Operators
  BY <1>2, <1>5 DEF Operators, DeactivateKill, ResetBreaker, CreateKillFile, SetTradingState
<1>6. CASE Timers \/ ExecutionFails
  BY <1>2, <1>6 DEF Timers, MidnightReset, FileCheckExpires, ExecutionFails
<1>7. CASE UNCHANGED vars
  BY <1>2, <1>7 DEF vars
<1> QED
  BY <1>1, <1>3, <1>4, <1>5, <1>6, <1>7 DEF Next, Feedback

\* While the handlers know the user stream is gone, no position is opened: not
\* after a reset of the breaker, not at midnight, not after a release of the switch.
THEOREM BlindTradesNothing == Spec => NoEntryWhileBlind
<1>1. Init => BlindIsSafe
  BY DEF Init, BlindIsSafe
<1>2. TypeOK /\ BlindIsSafe /\ [Next]_vars => [stream = "lost" => ~Entry]_vars
  BY EntryIsApproval, ApprovalState DEF BlindIsSafe
<1> QED
  BY <1>1, <1>2, BlindIsSafeStep, TypeCorrect, PTL DEF Spec, NoEntryWhileBlind

(***************************************************************************)
(* The kill switch.  The midnight reset lifts killed; what it leaves is    *)
(* the unreconciled equity, set when the loop ends.                        *)
(***************************************************************************)
SweptIsHalted == swept => sweep \/ unreconciled

\* Every step but the operator's release keeps what a sweep left.
LEMMA SweptIsHaltedStep == SweptIsHalted /\ [Next]_vars => SweptIsHalted'
<1> SUFFICES ASSUME SweptIsHalted, [Next]_vars PROVE SweptIsHalted'
  OBVIOUS
<1>1. ASSUME UNCHANGED <<unreconciled, kill>> PROVE SweptIsHalted'
  BY <1>1 DEF SweptIsHalted, kill
<1>2. CASE Signals
  BY <1>1, <1>2 DEF Signals, RefuseByFile, ApproveAndOpen, RefuseLater, RebaseToFill,
                    CancelReserved, OpenPosition
<1>3. CASE ActivateKill \/ AutoCloseOnTrip \/ SweepEnds \/ PublishReturns
  BY <1>3 DEF ActivateKill, AutoCloseOnTrip, SweepEnds, PublishReturns, SweptIsHalted
<1>4. ASSUME NEW s \in Symbols, NEW o \in Outcomes,
             ClosePosition(s, o) \/ SweepPosition(s, o)
      PROVE  SweptIsHalted'
  BY <1>4 DEF ClosePosition, SweepPosition, SweptIsHalted, kill
<1>5. CASE DeactivateKill
  BY <1>5 DEF DeactivateKill, SweptIsHalted
<1>6. CASE Timers \/ ResetBreaker \/ CreateKillFile \/ \E st \in Requests : SetTradingState(st)
  BY <1>1, <1>6 DEF Timers, MidnightReset, FileCheckExpires, ResetBreaker, CreateKillFile,
                    SetTradingState
<1>7. CASE Feedback
  BY <1>1, <1>7 DEF Feedback, StreamLost, StreamConnected, ExecutionFails, PeriodicMismatch
<1>8. CASE UNCHANGED vars
  BY <1>1, <1>8 DEF vars
<1> QED
  BY <1>2, <1>3, <1>4, <1>5, <1>6, <1>7, <1>8 DEF Next, Closes, Operators

\* Once activate_kill_switch ran, no signal opens a position until an operator
\* released the switch; no other caller of the gate reopens it.
THEOREM KillHoldsUntilReleased == Spec => NoEntryUntilReleased
<1>1. Init => SweptIsHalted
  BY DEF Init, SweptIsHalted
<1>2. TypeOK /\ SweptIsHalted /\ [Next]_vars => [swept => ~Entry]_vars
  BY EntryIsApproval, ApprovalState DEF SweptIsHalted
<1> QED
  BY <1>1, <1>2, SweptIsHaltedStep, TypeCorrect, PTL DEF Spec, NoEntryUntilReleased

\* No entry takes the book above what the account's present drawdown allows.
THEOREM DrawdownCapsEntries == Spec => EntryWithinDrawdownCap
<1> DEFINE Capped == Entry => Cardinality(Held') <= PhaseCap(DrawdownPhase(equity, peak))
<1>1. ASSUME TypeOK, [Next]_vars, Entry
      PROVE  Cardinality(Held') <= PhaseCap(DrawdownPhase(equity, peak))
  <2>1. PICK s \in Symbols : ApproveAndOpen(s)
    BY <1>1, EntryIsApproval
  <2>2. s \notin Held /\ Cardinality(Held) < PhaseCap(UpdatedPhase)
    BY <2>1 DEF ApproveAndOpen, Admits
  <2>3. Cardinality(Held') = Cardinality(Held) + 1
    BY <1>1, <2>1, <2>2, AddedToBook DEF ApproveAndOpen
  <2>4. PhaseCap(UpdatedPhase) <= PhaseCap(DrawdownPhase(equity, peak))
    BY <1>1, UpdatedPhaseRises, PhaseRange, PhaseCapFalls DEF TypeOK
  <2>5. PhaseCap(UpdatedPhase) \in Nat /\ PhaseCap(DrawdownPhase(equity, peak)) \in Nat
    BY <1>1, UpdatedPhaseRises, PhaseRange, PhaseCapFalls DEF TypeOK
  <2> QED
    BY <2>2, <2>3, <2>4, <2>5, HeldFinite
<1>2. TypeOK /\ [Next]_vars => [Capped]_vars
  BY <1>1
<1> QED
  BY <1>2, TypeCorrect, PTL DEF Spec, EntryWithinDrawdownCap

(***************************************************************************)
(* Closes.  The book shrinks one position at a time, and a result in       *)
(* profit shows in the equity.                                             *)
(***************************************************************************)
Closed(s, o) == ClosePosition(s, o) \/ SweepPosition(s, o)

\* A close takes one symbol from the book, and reports its result.
LEMMA CloseStep ==
  ASSUME TypeOK, NEW s \in Symbols, NEW o \in Outcomes, Closed(s, o)
  PROVE  /\ s \in Held /\ Held' = Held \ {s} /\ ByHand' = ByHand \ {s}
         /\ Cardinality(Held') < Cardinality(Held)
         /\ o.pct > 0 => equity' > equity
         /\ RecordTradeResult(o.pct > 0)
<1>1. book[s] # "none" /\ book' = [book EXCEPT ![s] = "none"]
  BY DEF Closed, ClosePosition, SweepPosition
<1>2. /\ s \in Held /\ Held' = Held \ {s} /\ ByHand' = ByHand \ {s}
      /\ Cardinality(Held') = Cardinality(Held) - 1
  BY <1>1, TakenFromBook
<1>3. o.pct > 0 => equity' > equity
  BY OutcomeType DEF Closed, ClosePosition, SweepPosition, TypeOK
<1>4. RecordTradeResult(o.pct > 0)
  BY DEF Closed, ClosePosition, SweepPosition
<1> QED
  BY <1>2, <1>3, <1>4, HeldFinite

\* Only the closes and the drawdown gate touch the phase.
LEMMA PhaseStep ==
  ASSUME TypeOK, [Next]_vars, phase' < phase
  PROVE  \E s \in Symbols, o \in Outcomes : Closed(s, o)
<1>1. phase' # phase /\ ~UpdatePhase
  BY UpdatePhaseType DEF TypeOK
<1>2. ~ \E s \in Symbols : ApproveAndOpen(s) \/ RefuseLater(s)
  BY <1>1 DEF ApproveAndOpen, RefuseLater
<1>3. ~ \E s \in Symbols : RebaseToFill(s) \/ CancelReserved(s) \/ OpenPosition(s)
  BY <1>1 DEF RebaseToFill, CancelReserved, OpenPosition, account
<1>4. ~RefuseByFile /\ ~ActivateKill /\ ~AutoCloseOnTrip /\ ~SweepEnds /\ ~PublishReturns
  BY <1>1 DEF RefuseByFile, ActivateKill, AutoCloseOnTrip, SweepEnds, PublishReturns, account
<1>5. ~Operators
  BY <1>1 DEF Operators, DeactivateKill, ResetBreaker, CreateKillFile, SetTradingState, account
<1>6. ~Timers /\ ~Feedback
  BY <1>1 DEF Timers, MidnightReset, FileCheckExpires, Feedback, StreamLost,
              StreamConnected, ExecutionFails, PeriodicMismatch, account
<1>7. ~UNCHANGED vars
  BY <1>1 DEF vars, account
<1> QED
  BY <1>2, <1>3, <1>4, <1>5, <1>6, <1>7 DEF Next, Signals, Closes, Closed

\* The drawdown phase steps back only by graduation.
THEOREM PhaseFallsByGraduation == Spec => GraduationIsEarned
<1> DEFINE Earned == phase' < phase => /\ phase' = phase - 1
                                       /\ Cardinality(Held') < Cardinality(Held)
                                       /\ equity' > equity
                                       /\ streak >= Graduation - 1
<1>1. ASSUME TypeOK, [Next]_vars, phase' < phase PROVE Earned
  <2>1. PICK s \in Symbols, o \in Outcomes : Closed(s, o)
    BY <1>1, PhaseStep
  <2>2. Cardinality(Held') < Cardinality(Held) /\ (o.pct > 0 => equity' > equity)
    BY <1>1, <2>1, CloseStep
  <2>3. RecordTradeResult(o.pct > 0)
    BY <1>1, <2>1, CloseStep
  <2>4. (o.pct > 0) \in BOOLEAN
    BY OutcomeType
  <2>5. phase' = phase - 1 /\ o.pct > 0 /\ streak >= Graduation - 1
    BY <1>1, <2>3, <2>4, RecordTradeResultType
  <2> QED
    BY <2>2, <2>5
<1>2. TypeOK /\ [Next]_vars => [Earned]_vars
  BY <1>1
<1> QED
  BY <1>2, TypeCorrect, PTL DEF Spec, GraduationIsEarned

(***************************************************************************)
(* TradingGate implements EntryGate.                                       *)
(***************************************************************************)
LEMMA StateRange == TradingState \in Gate!TradingStates
BY DEF TradingState, Gate!TradingStates

\* The abstract gate's positions are the signals' and the operator's together.
LEMMA GateBook == (Held \ ByHand) \cup ByHand = Held
BY DEF Held, ByHand

\* Every step is one of the abstract gate, or none.
LEMMA GateStep == TypeOK /\ [Next]_vars => [Gate!Next]_(Gate!vars)
<1> SUFFICES ASSUME TypeOK, [Next]_vars PROVE [Gate!Next]_(Gate!vars)
  OBVIOUS
<1>1. TradingState \in Gate!TradingStates /\ TradingState' \in Gate!TradingStates
  BY StateRange DEF TradingState, Gate!TradingStates
<1>2. ASSUME NEW s \in Symbols, ApproveAndOpen(s) PROVE Gate!Enter(s)
  <2>1. TradingState = "ACTIVE" /\ s \notin Held /\ Cardinality(Held) < MaxOpen
    BY <1>2 DEF ApproveAndOpen, Admits
  <2>2. Held' = Held \cup {s} /\ ByHand' = ByHand
    BY <1>2, <2>1, AddedToBook DEF ApproveAndOpen
  <2>3. TradingState' = TradingState
    BY <1>2 DEF ApproveAndOpen, TradingState
  <2>4. Gate!Cardinality((Held \ ByHand) \cup ByHand) = Cardinality(Held)
    BY GateBook DEF Gate!Cardinality, Cardinality
  <2>5. s \notin ByHand
    BY <2>1 DEF Held, ByHand
  <2>6. (Held \ ByHand)' = (Held \ ByHand) \cup {s}
    BY <2>2, <2>5
  <2> QED
    BY <2>1, <2>2, <2>3, <2>4, <2>6, GateBook DEF Gate!Enter
<1>3. ASSUME NEW s \in Symbols, OpenPosition(s) PROVE Gate!EnterByHand(s)
  <2>1. ByHand' = ByHand \cup {s} /\ Held' = Held \cup {s}
    BY <1>3 DEF OpenPosition, Held, ByHand, TypeOK
  <2>2. TradingState' = TradingState
    BY <1>3 DEF OpenPosition, TradingState
  <2> QED
    BY <2>1, <2>2 DEF Gate!EnterByHand
<1>4. ASSUME NEW s \in Symbols, s \in Held, Held' = Held \ {s}, ByHand' = ByHand \ {s}
      PROVE  Gate!Leave(s)
  BY <1>1, <1>4, GateBook DEF Gate!Leave
<1>5. ASSUME NEW s \in Symbols, NEW o \in Outcomes, Closed(s, o) PROVE Gate!Leave(s)
  BY <1>4, <1>5, CloseStep
<1>6. ASSUME NEW s \in Symbols, CancelReserved(s) PROVE Gate!Leave(s)
  <2>1. book[s] # "none" /\ book' = [book EXCEPT ![s] = "none"]
    BY <1>6 DEF CancelReserved
  <2> QED
    BY <1>4, <2>1, TakenFromBook
<1>7. ASSUME Held' = Held, ByHand' = ByHand PROVE Gate!Switch
  BY <1>1, <1>7 DEF Gate!Switch
<1>8. ASSUME NEW s \in Symbols, RebaseToFill(s) PROVE Gate!Switch
  BY <1>7, <1>8 DEF RebaseToFill, Held, ByHand, TypeOK
<1>9. ASSUME book' = book PROVE Gate!Switch
  BY <1>7, <1>9 DEF Held, ByHand
<1>10. CASE RefuseByFile \/ \E s \in Symbols : RefuseLater(s)
  BY <1>9, <1>10 DEF RefuseByFile, RefuseLater, Gate!Next
<1>11. CASE ActivateKill \/ AutoCloseOnTrip \/ SweepEnds \/ PublishReturns
  BY <1>9, <1>11 DEF ActivateKill, AutoCloseOnTrip, SweepEnds, PublishReturns, Gate!Next
<1>12. CASE Operators
  BY <1>9, <1>12
  DEF Operators, DeactivateKill, ResetBreaker, CreateKillFile, SetTradingState, Gate!Next
<1>13. CASE Timers \/ Feedback
  BY <1>9, <1>13
  DEF Timers, MidnightReset, FileCheckExpires, Feedback, StreamLost, StreamConnected,
      ExecutionFails, PeriodicMismatch, Gate!Next
<1>14. CASE UNCHANGED vars
  BY <1>9, <1>14 DEF vars, Gate!Next
<1> QED
  BY <1>2, <1>3, <1>5, <1>6, <1>8, <1>10, <1>11, <1>12, <1>13, <1>14
  DEF Next, Signals, Closes, Closed, Gate!Next

\* The whole gate, with its breaker, switch, safe mode, file and phases and with the
\* operator's own entries, keeps the promise of EntryGate: the signals' entries one at
\* a time, while ACTIVE, within the limit.
THEOREM ImplementsEntryGate == Spec => GateSpec
<1>1. Init => Gate!Init
  BY StateRange, HeldFinite DEF Gate!Init, Init, ByHand
<1> QED
  BY <1>1, GateStep, TypeCorrect, PTL DEF Spec, GateSpec, Gate!Spec
=============================================================================
