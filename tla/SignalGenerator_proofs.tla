------------------------ MODULE SignalGenerator_proofs ------------------------
(***************************************************************************)
(* Theorems about SignalGenerator, for every set of symbols and channels,  *)
(* every limit and every choice of disturbances.                           *)
(***************************************************************************)
EXTENDS SignalGenerator, FiniteSetTheorems, TLAPS

(***************************************************************************)
(* The inductive invariant.                                                *)
(***************************************************************************)
Signalled(s) == \E d \in Directions : <<s, d>> \in signals

\* A candidate, however long its review takes: nothing else enters its symbol, and no
\* conflict is counted, meanwhile.
Reviewed ==
  \A s \in Symbols : candidate[s] # "none" => ~Held(s) /\ streak[s] < MaxStreak

\* The books of a symbol follow each other: a signal on its way, then a position, then the
\* report of its end, and all the while the generator remembers.
Followed ==
  may \cap {"manual", "restart"} = {} =>
    /\ EntryRemembered
    /\ \A s \in Symbols : /\ book[s] # "none" => ~Signalled(s)
                          /\ s \in closings => Held(s) /\ s \notin Entered

\* While a local review runs, what let the candidate pass still holds.
Judged ==
  "remote" \notin may =>
    \A s \in Symbols : candidate[s] # "none" =>
      /\ auto /\ ~estop /\ FeedsAllow(s)
      /\ ~layers.blocked /\ layers.sound
      /\ ~Correlated(s, candidate[s]) /\ OpenCount < MaxPositions

IInv == TypeOK /\ Reviewed /\ Followed /\ Judged /\ LimitHolds

(***************************************************************************)
(* Counting.                                                               *)
(***************************************************************************)
\* A set of at most one element has no two.
LEMMA NoTwo ==
  ASSUME NEW S, IsFiniteSet(S), Cardinality(S) <= 1, NEW x \in S, NEW y \in S
  PROVE  x = y
<1> SUFFICES ASSUME x # y PROVE FALSE
  OBVIOUS
<1>1. IsFiniteSet({x}) /\ Cardinality({x}) = 1
  BY FS_Singleton
<1>2. Cardinality({x} \cup {y}) = 2
  <2>1. y \notin {x}
    OBVIOUS
  <2>2. Cardinality({x} \cup {y}) = Cardinality({x}) + 1
    BY <1>1, <2>1, FS_AddElement
  <2> QED
    BY <1>1, <2>2
<1>3. {x} \cup {y} \subseteq S
  OBVIOUS
<1>4. Cardinality({x} \cup {y}) <= Cardinality(S)
  BY <1>3, FS_Subset
<1>5. Cardinality(S) \in Nat
  BY FS_CardinalityType
<1> QED
  BY <1>2, <1>4, <1>5

\* Sets of symbols are finite, and one more symbol counts one more at most.
LEMMA SymbolsFinite ==
  ASSUME NEW S \in SUBSET Symbols
  PROVE  IsFiniteSet(S) /\ Cardinality(S) \in Nat
BY FS_Subset, FS_CardinalityType, GeneratorAssumption

\* Fewer symbols count less,
LEMMA FewerSymbols ==
  ASSUME NEW S \in SUBSET Symbols, NEW T \in SUBSET S
  PROVE  Cardinality(T) <= Cardinality(S)
BY SymbolsFinite, FS_Subset

\* and one more symbol counts one more at most.
LEMMA OneMoreSymbol ==
  ASSUME NEW S \in SUBSET Symbols, NEW T \in SUBSET Symbols, NEW s, T \subseteq S \cup {s}
  PROVE  Cardinality(T) <= Cardinality(S) + 1
<1>1. IsFiniteSet(S) /\ Cardinality(S) \in Nat
  BY SymbolsFinite
<1>2. IsFiniteSet(S \cup {s}) /\ Cardinality(S \cup {s}) <= Cardinality(S) + 1
  BY <1>1, FS_AddElement
<1>3. Cardinality(T) <= Cardinality(S \cup {s}) /\ Cardinality(T) \in Nat
  BY <1>2, FS_Subset, SymbolsFinite
<1>4. Cardinality(S \cup {s}) \in Nat
  BY <1>2, FS_CardinalityType
<1> QED
  BY <1>1, <1>2, <1>3, <1>4

(***************************************************************************)
(* The steps.                                                              *)
(***************************************************************************)
Candidates == {s \in Symbols : candidate[s] # "none"}

\* What happens while no local review runs, the decisions of _handle_candle apart.
Elsewhere ==
  \/ \E s \in Symbols :
       \/ \E c \in Channels : MarkEvent(s, c) \/ RefreshStale(s, c)
       \/ Preflight(s) \/ LayerFails(s)
       \/ HandlePositionClosed(s) \/ RecordTradeResult(s) \/ ClosePosition(s)
       \/ \E d \in Directions : HandleSignal(s, d)
  \/ HandleAlert \/ Kill \/ EStop \/ SetAutoTrading \/ SetHalted \/ Restart

\* The steps: the end of a review, what may come between, and a candle.
LEMMA NextSplit ==
  Next <=> \/ \E s \in Symbols : Publish(s) \/ Drop(s)
           \/ Suspendable /\ Elsewhere
           \/ Suspendable /\ \E s \in Symbols, d \in Directions, bands \in SUBSET Bands,
                                score \in Scores : Judge(s, d, bands, score)
BY DEF Next, Elsewhere, Candle

\* An answer ends the review of its symbol and touches no other.
LEMMA AnswerEnds ==
  ASSUME TypeOK, NEW s \in Symbols, Answer(s)
  PROVE  /\ candidate' \in [Symbols -> NoneOr] /\ candidate'[s] = "none"
         /\ \A t \in Symbols : t # s => candidate'[t] = candidate[t]
         /\ Candidates' = Candidates \ {s}
<1>1. candidate \in [Symbols -> NoneOr] /\ candidate' = [candidate EXCEPT ![s] = "none"]
  BY DEF TypeOK, Answer
<1>2. candidate' \in [Symbols -> NoneOr]
  BY <1>1 DEF NoneOr
<1> QED
  BY <1>1, <1>2 DEF Candidates

\* What else happens begins no review, and forgets a direction at most.
LEMMA ElsewhereKeeps ==
  ASSUME TypeOK, Elsewhere
  PROVE  /\ candidate' \in [Symbols -> NoneOr] /\ directions' \in [Symbols -> NoneOr]
         /\ streak' \in [Symbols -> 0..MaxStreak] /\ may' = may
         /\ Candidates' \subseteq Candidates
         /\ \A s \in Symbols : \/ candidate'[s] = "none"
                               \/ candidate'[s] = candidate[s] /\ streak'[s] = streak[s]
         /\ \A s \in Symbols : directions'[s] = "none" \/ directions'[s] = directions[s]
<1>0. /\ candidate \in [Symbols -> NoneOr] /\ directions \in [Symbols -> NoneOr]
      /\ streak \in [Symbols -> 0..MaxStreak]
  BY DEF TypeOK
<1>1. CASE Restart
  <2>1. /\ \A s \in Symbols : candidate'[s] = "none" /\ directions'[s] = "none"
        /\ candidate' \in [Symbols -> NoneOr] /\ directions' \in [Symbols -> NoneOr]
        /\ streak' \in [Symbols -> 0..MaxStreak] /\ may' = may
    BY <1>1, GeneratorAssumption DEF Restart, Nothing, NoStreaks, NoneOr, setting
  <2> QED
    BY <2>1 DEF Candidates
<1>2. CASE \E s \in Symbols : HandlePositionClosed(s) \/ RecordTradeResult(s)
  <2>1. PICK s \in Symbols : directions' = [directions EXCEPT ![s] = "none"]
    BY <1>2 DEF HandlePositionClosed, RecordTradeResult
  <2>2. UNCHANGED <<may, candidate, streak>>
    BY <1>2 DEF HandlePositionClosed, RecordTradeResult, setting
  <2>3. directions' \in [Symbols -> NoneOr]
    BY <1>0, <2>1 DEF NoneOr
  <2>4. \A t \in Symbols : directions'[t] = "none" \/ directions'[t] = directions[t]
    BY <1>0, <2>1
  <2> QED
    BY <1>0, <2>2, <2>3, <2>4 DEF Candidates
<1>3. CASE ~Restart /\ ~ \E s \in Symbols : HandlePositionClosed(s) \/ RecordTradeResult(s)
  <2>1. UNCHANGED <<may, candidate, streak, directions>>
    BY <1>3 DEF Elsewhere, MarkEvent, RefreshStale, Preflight, LayerFails, ClosePosition,
                HandleSignal, HandleAlert, Kill, EStop, SetAutoTrading, SetHalted, setting
  <2> QED
    BY <1>0, <2>1 DEF Candidates
<1> QED
  BY <1>1, <1>2, <1>3

\* A candidate is judged: its symbol's review begins, if everything lets it pass.
LEMMA JudgeBegins ==
  ASSUME TypeOK, NEW s \in Symbols, NEW d \in Directions, NEW bands \in SUBSET Bands,
         NEW score \in Scores, Judge(s, d, bands, score)
  PROVE  /\ candidate[s] = "none" /\ FeedsAllow(s) /\ ~estop
         /\ candidate' \in [Symbols -> NoneOr] /\ streak' \in [Symbols -> 0..MaxStreak]
         /\ \A t \in Symbols : t # s => /\ candidate'[t] = candidate[t]
                                        /\ streak'[t] = streak[t]
         /\ \/ candidate' = candidate
            \/ /\ candidate'[s] = d /\ streak'[s] < MaxStreak /\ MayEnter(s, d)
               /\ layers' = [blocked |-> FALSE, sound |-> TRUE]
         /\ Candidates' \subseteq Candidates \cup {s}
<1>0. /\ candidate \in [Symbols -> NoneOr] /\ streak \in [Symbols -> 0..MaxStreak]
      /\ d \in NoneOr
  BY DEF TypeOK, NoneOr
<1>1. Streak(s, bands) \in 0..MaxStreak
  BY <1>0, GeneratorAssumption DEF Streak, Least
<1>2. streak' = [streak EXCEPT ![s] = Streak(s, bands)]
  BY DEF Judge
<1>3. streak' \in [Symbols -> 0..MaxStreak] /\ \A t \in Symbols : t # s => streak'[t] = streak[t]
  BY <1>0, <1>1, <1>2
<1>4. \/ candidate' = candidate
      \/ candidate' = [candidate EXCEPT ![s] = d] /\ streak'[s] < MaxStreak /\ MayEnter(s, d)
         /\ GoodEnough(bands, score)
  BY DEF Judge
<1>5. GoodEnough(bands, score) => layers' = [blocked |-> FALSE, sound |-> TRUE]
  BY DEF GoodEnough, Judge, Status
<1>6. /\ candidate' \in [Symbols -> NoneOr]
      /\ \A t \in Symbols : t # s => candidate'[t] = candidate[t]
  BY <1>0, <1>4
<1>7. candidate' = candidate \/ candidate'[s] = d
  BY <1>0, <1>4
<1> QED
  BY <1>3, <1>4, <1>5, <1>6, <1>7 DEF Judge, Candidates

(***************************************************************************)
(* Types.                                                                  *)
(***************************************************************************)
\* Reviews of a local provider do not overlap.
LEMMA OneReview ==
  ASSUME TypeOK, "remote" \notin may, [Next]_vars
  PROVE  Cardinality(Candidates') <= 1
<1>1. Candidates \in SUBSET Symbols /\ Cardinality(Candidates) <= 1
  BY DEF Candidates, TypeOK
<1>2. CASE \E s \in Symbols : Publish(s) \/ Drop(s)
  <2>1. Candidates' \subseteq Candidates
    BY <1>2, AnswerEnds DEF Publish, Drop
  <2> QED
    BY <1>1, <2>1, FewerSymbols, SymbolsFinite
<1>3. CASE Suspendable /\ Elsewhere
  <2>1. Candidates' \subseteq Candidates
    BY <1>3, ElsewhereKeeps
  <2> QED
    BY <1>1, <2>1, FewerSymbols, SymbolsFinite
<1>4. CASE Suspendable /\ \E s \in Symbols, d \in Directions, bands \in SUBSET Bands,
                             score \in Scores : Judge(s, d, bands, score)
  <2>1. Candidates = {}
    BY <1>4 DEF Suspendable, Candidates
  <2>2. PICK s \in Symbols : Candidates' \subseteq {s}
    BY <1>4, <2>1, JudgeBegins
  <2>3. IsFiniteSet({s}) /\ Cardinality({s}) = 1
    BY FS_Singleton
  <2> QED
    BY <2>2, <2>3, FS_Subset
<1>5. CASE UNCHANGED vars
  BY <1>1, <1>5 DEF vars, Candidates
<1> QED
  BY <1>2, <1>3, <1>4, <1>5, NextSplit

\* Every step keeps the types.
LEMMA TypeStep == TypeOK /\ [Next]_vars => TypeOK'
<1> SUFFICES ASSUME TypeOK, [Next]_vars PROVE TypeOK'
  OBVIOUS
<1> DEFINE Counted == "remote" \notin may =>
                        Cardinality({s \in Symbols : candidate[s] # "none"}) <= 1
           Layers == [blocked : BOOLEAN, sound : BOOLEAN]
           Feeds == [Symbols -> [Channels -> {"ok", "bad", "stale"}]]
           Rest == /\ may \in Environments /\ forgotten \in 0..MaxForgotten
                   /\ feed \in Feeds
                   /\ estop \in BOOLEAN /\ auto \in BOOLEAN /\ halted \in BOOLEAN
                   /\ streak \in [Symbols -> 0..MaxStreak]
                   /\ layers \in Layers
                   /\ candidate \in [Symbols -> NoneOr] /\ directions \in [Symbols -> NoneOr]
                   /\ signals \subseteq Symbols \X Directions
                   /\ book \in [Symbols -> NoneOr] /\ closings \subseteq Symbols
<1>0. Rest
  BY DEF TypeOK
<1>d. Directions \subseteq NoneOr /\ "none" \in NoneOr
  BY DEF NoneOr
<1>l. Fresh \in Layers /\ \A m, n \in BOOLEAN : [blocked |-> m, sound |-> n] \in Layers
  BY DEF Fresh
<1>1. may' = may
  BY DEF Next, Candle, MarkEvent, RefreshStale, Preflight, LayerFails, Judge, Publish, Drop,
         HandlePositionClosed, RecordTradeResult, ClosePosition, HandleSignal, HandleAlert, Kill,
         EStop, SetAutoTrading, SetHalted, Restart, setting, vars
<1>2. Counted'
  BY <1>1, OneReview DEF Candidates
<1>3. ASSUME NEW s \in Symbols, Publish(s) PROVE Rest'
  <2>1. /\ directions' = [directions EXCEPT ![s] = candidate[s]]
        /\ signals' = signals \cup {<<s, candidate[s]>>} /\ candidate[s] \in Directions
        /\ candidate' \in [Symbols -> NoneOr]
    BY <1>0, <1>3, AnswerEnds DEF Publish, NoneOr
  <2>2. directions' \in [Symbols -> NoneOr] /\ signals' \subseteq Symbols \X Directions
    BY <1>0, <1>d, <2>1
  <2> QED
    BY <1>0, <1>3, <2>1, <2>2 DEF Publish, setting, gates
<1>4. ASSUME NEW s \in Symbols, Drop(s) PROVE Rest'
  BY <1>0, <1>4, AnswerEnds DEF Drop, setting, gates, downstream
<1>5. ASSUME NEW s \in Symbols, NEW d \in Directions, NEW bands \in SUBSET Bands,
             NEW score \in Scores, Judge(s, d, bands, score)
      PROVE  Rest'
  <2>1. candidate' \in [Symbols -> NoneOr] /\ streak' \in [Symbols -> 0..MaxStreak]
    BY <1>5, JudgeBegins
  <2>2. layers' \in Layers
    BY <1>5, <1>l DEF Judge, Status
  <2> QED
    BY <1>0, <1>5, <2>1, <2>2 DEF Judge, setting, gates, downstream
<1>6. ASSUME Elsewhere PROVE Rest'
  <2>1. /\ candidate' \in [Symbols -> NoneOr] /\ directions' \in [Symbols -> NoneOr]
        /\ streak' \in [Symbols -> 0..MaxStreak]
    BY <1>6, ElsewhereKeeps
  <2>2. ASSUME NEW s \in Symbols, NEW c \in Channels, MarkEvent(s, c) \/ RefreshStale(s, c)
        PROVE  Rest'
    <3>1. PICK status \in {"ok", "bad", "stale"} : feed' = [feed EXCEPT ![s][c] = status]
      BY <2>2 DEF MarkEvent, RefreshStale
    <3>2. feed' \in Feeds
      BY <1>0, <3>1
    <3> QED
      BY <1>0, <2>1, <2>2, <3>2 DEF MarkEvent, RefreshStale, setting, downstream
  <2>3. ASSUME NEW s \in Symbols, Preflight(s) \/ LayerFails(s) PROVE Rest'
    <3>1. layers' \in Layers
      BY <1>0, <1>l, <2>3 DEF Preflight, LayerFails
    <3> QED
      BY <1>0, <2>1, <2>3, <3>1 DEF Preflight, LayerFails, setting, gates, downstream
  <2>4. ASSUME NEW s \in Symbols, HandlePositionClosed(s) PROVE Rest'
    BY <1>0, <2>1, <2>4 DEF HandlePositionClosed, setting, gates
  <2>5. ASSUME NEW s \in Symbols, RecordTradeResult(s) PROVE Rest'
    <3>1. forgotten' \in 0..MaxForgotten
      BY <1>0, <2>5, GeneratorAssumption DEF RecordTradeResult
    <3> QED
      BY <1>0, <2>1, <2>5, <3>1 DEF RecordTradeResult, gates, downstream
  <2>6. ASSUME NEW s \in Symbols, ClosePosition(s) PROVE Rest'
    <3>1. book' \in [Symbols -> NoneOr] /\ closings' \subseteq Symbols
      BY <1>0, <1>d, <2>6 DEF ClosePosition
    <3> QED
      BY <1>0, <2>1, <2>6, <3>1 DEF ClosePosition, setting, gates
  <2>7. ASSUME NEW s \in Symbols, NEW d \in Directions, HandleSignal(s, d) PROVE Rest'
    <3>1. book' \in [Symbols -> NoneOr] /\ signals' \subseteq Symbols \X Directions
      BY <1>0, <1>d, <2>7 DEF HandleSignal
    <3> QED
      BY <1>0, <2>1, <2>7, <3>1 DEF HandleSignal, setting, gates
  <2>8. CASE HandleAlert
    <3>1. feed' \in Feeds
      BY <2>8 DEF HandleAlert
    <3> QED
      BY <1>0, <2>1, <2>8, <3>1 DEF HandleAlert, setting, downstream
  <2>9. CASE Kill
    <3>1. book' \in [Symbols -> NoneOr]
      BY <1>d, <2>9 DEF Kill
    <3> QED
      BY <1>0, <2>1, <2>9, <3>1 DEF Kill, setting
  <2>10. CASE EStop \/ SetAutoTrading \/ SetHalted
    BY <1>0, <2>1, <2>10 DEF EStop, SetAutoTrading, SetHalted, setting, downstream
  <2>11. CASE Restart
    <3>1. feed' \in Feeds /\ layers' \in Layers
      BY <1>l, <2>11 DEF Restart, NoFaults
    <3> QED
      BY <1>0, <2>1, <2>11, <3>1 DEF Restart, setting
  <2> QED
    BY <1>6, <2>2, <2>3, <2>4, <2>5, <2>6, <2>7, <2>8, <2>9, <2>10, <2>11 DEF Elsewhere
<1>7. ASSUME UNCHANGED vars PROVE Rest'
  BY <1>0, <1>7 DEF vars, setting, gates, downstream
<1>8. Rest'
  BY <1>3, <1>4, <1>5, <1>6, <1>7, NextSplit
<1> QED
  BY <1>2, <1>8 DEF TypeOK

(***************************************************************************)
(* The candidate.                                                          *)
(***************************************************************************)
LEMMA ReviewedStep ==
  ASSUME TypeOK, Reviewed, [Next]_vars
  PROVE  Reviewed'
<1>1. ASSUME NEW s \in Symbols, Publish(s) \/ Drop(s) PROVE Reviewed'
  <2>1. /\ candidate'[s] = "none"
        /\ \A t \in Symbols : t # s => candidate'[t] = candidate[t]
    BY <1>1, AnswerEnds DEF Publish, Drop
  <2>2. streak' = streak /\ \A t \in Symbols : t # s => directions'[t] = directions[t]
    BY <1>1 DEF Publish, Drop, TypeOK
  <2> QED
    BY <2>1, <2>2 DEF Reviewed, Held
<1>2. CASE Elsewhere
  BY <1>2, ElsewhereKeeps DEF Reviewed, Held
<1>3. ASSUME NEW s \in Symbols, NEW d \in Directions, NEW bands \in SUBSET Bands,
             NEW score \in Scores, Judge(s, d, bands, score)
      PROVE  Reviewed'
  <2>1. directions' = directions
    BY <1>3 DEF Judge
  <2>2. /\ candidate[s] = "none"
        /\ \A t \in Symbols : t # s => candidate'[t] = candidate[t] /\ streak'[t] = streak[t]
        /\ candidate' = candidate \/ (streak'[s] < MaxStreak /\ ~Held(s))
    BY <1>3, JudgeBegins DEF MayEnter
  <2> QED
    BY <2>1, <2>2 DEF Reviewed, Held
<1>4. CASE UNCHANGED vars
  BY <1>4 DEF vars, Reviewed, Held
<1> QED
  BY <1>1, <1>2, <1>3, <1>4, NextSplit

\* A step that leaves a symbol's candidate and the books alone leaves it judged.
LEMMA JudgedStep ==
  ASSUME TypeOK, Judged, [Next]_vars
  PROVE  Judged'
<1> SUFFICES ASSUME "remote" \notin may', NEW t \in Symbols, candidate'[t] # "none"
             PROVE  /\ auto' /\ ~estop' /\ FeedsAllow(t)'
                    /\ ~layers'.blocked /\ layers'.sound
                    /\ ~Correlated(t, candidate[t])' /\ OpenCount' < MaxPositions
  BY DEF Judged
<1>1. ASSUME NEW s \in Symbols, Publish(s) \/ Drop(s) PROVE FALSE
  <2>1. /\ "remote" \notin may /\ candidate[s] # "none"
    BY <1>1 DEF Publish, Drop, setting
  <2>2. t # s /\ candidate[t] # "none"
    BY <1>1, AnswerEnds DEF Publish, Drop
  <2>3. Candidates \in SUBSET Symbols /\ Cardinality(Candidates) <= 1
        /\ s \in Candidates /\ t \in Candidates
    BY <2>1, <2>2 DEF TypeOK, Candidates
  <2> QED
    BY <2>2, <2>3, NoTwo, SymbolsFinite
<1>2. ASSUME Suspendable, Elsewhere PROVE FALSE
  <2>1. Candidates' \subseteq Candidates /\ may' = may
    BY <1>2, ElsewhereKeeps
  <2>2. Candidates = {}
    BY <1>2, <2>1 DEF Suspendable, Candidates
  <2> QED
    BY <2>1, <2>2 DEF Candidates
<1>3. ASSUME Suspendable, NEW s \in Symbols, NEW d \in Directions, NEW bands \in SUBSET Bands,
             NEW score \in Scores, Judge(s, d, bands, score)
      PROVE  /\ auto' /\ ~estop' /\ FeedsAllow(t)'
             /\ ~layers'.blocked /\ layers'.sound
             /\ ~Correlated(t, candidate[t])' /\ OpenCount' < MaxPositions
  <2>1. UNCHANGED <<may, feed, estop, auto, directions, book>>
    BY <1>3 DEF Judge, setting, gates, downstream
  <2>2. \A x \in Symbols : candidate[x] = "none"
    BY <1>3, <2>1 DEF Suspendable
  <2>3. t = s /\ candidate' # candidate
    BY <1>3, <2>2, JudgeBegins
  <2>4. /\ FeedsAllow(s) /\ ~estop /\ candidate'[s] = d /\ MayEnter(s, d)
        /\ layers' = [blocked |-> FALSE, sound |-> TRUE]
    BY <1>3, <2>3, JudgeBegins
  <2>5. auto' /\ ~estop' /\ FeedsAllow(t)' /\ ~layers'.blocked /\ layers'.sound
    BY <2>1, <2>3, <2>4 DEF MayEnter, FeedsAllow
  <2>6. OpenCount' = OpenCount
    BY <2>1 DEF OpenCount, Held
  <2>7. ~Correlated(t, candidate[t])'
    BY <2>1, <2>3, <2>4 DEF MayEnter, Correlated
  <2> QED
    BY <2>4, <2>5, <2>6, <2>7 DEF MayEnter
<1>4. CASE UNCHANGED vars
  <2>1. UNCHANGED <<may, feed, estop, auto, layers, candidate, directions, book>>
    BY <1>4 DEF vars, setting, gates, downstream
  <2>2. FeedsAllow(t)' = FeedsAllow(t) /\ OpenCount' = OpenCount
        /\ Correlated(t, candidate[t])' = Correlated(t, candidate[t])
    BY <2>1 DEF FeedsAllow, OpenCount, Held, Correlated
  <2> QED
    BY <2>1, <2>2 DEF Judged
<1> QED
  BY <1>1, <1>2, <1>3, <1>4, NextSplit

(***************************************************************************)
(* The books.                                                              *)
(***************************************************************************)
\* The books are left alone.
Books == <<directions, signals, book, closings>>

\* Every step keeps the memory of directions in line with signals and positions.
LEMMA FollowedStep ==
  ASSUME TypeOK, Reviewed, Followed, [Next]_vars
  PROVE  Followed'
<1>1. may' = may
  BY DEF Next, Candle, MarkEvent, RefreshStale, Preflight, LayerFails, Judge, Publish, Drop,
         HandlePositionClosed, RecordTradeResult, ClosePosition, HandleSignal, HandleAlert, Kill,
         EStop, SetAutoTrading, SetHalted, Restart, setting, vars
<1> SUFFICES ASSUME "manual" \notin may, "restart" \notin may
             PROVE  \A t \in Symbols :
                      /\ book'[t] # "none" => directions'[t] = book'[t] /\ ~Signalled(t)'
                      /\ \A d \in Directions : <<t, d>> \in signals' => directions'[t] = d
                      /\ t \in closings' => directions'[t] # "none" /\ book'[t] = "none"
                                            /\ ~Signalled(t)'
  BY <1>1 DEF Followed, EntryRemembered, Held, Entered, Signalled
<1>2. \A t \in Symbols :
        /\ book[t] # "none" => directions[t] = book[t] /\ ~Signalled(t)
        /\ \A d \in Directions : <<t, d>> \in signals => directions[t] = d
        /\ t \in closings => directions[t] # "none" /\ book[t] = "none" /\ ~Signalled(t)
  BY DEF Followed, EntryRemembered, Held, Entered, Signalled
<1>3. /\ directions \in [Symbols -> NoneOr] /\ book \in [Symbols -> NoneOr]
      /\ "none" \notin Directions
  BY DEF TypeOK, Directions
<1>4. CASE UNCHANGED Books
  BY <1>2, <1>4 DEF Books, Signalled
<1>5. ASSUME NEW s \in Symbols, Publish(s)
      PROVE  \A t \in Symbols :
               /\ book'[t] # "none" => directions'[t] = book'[t] /\ ~Signalled(t)'
               /\ \A d \in Directions : <<t, d>> \in signals' => directions'[t] = d
               /\ t \in closings' => directions'[t] # "none" /\ book'[t] = "none"
                                     /\ ~Signalled(t)'
  <2>1. directions[s] = "none"
    BY <1>5 DEF Publish, Reviewed, Held
  <2>2. book[s] = "none" /\ s \notin closings /\ \A d \in Directions : <<s, d>> \notin signals
    BY <1>2, <1>3, <2>1
  <2>3. /\ directions' = [directions EXCEPT ![s] = candidate[s]]
        /\ signals' = signals \cup {<<s, candidate[s]>>} /\ UNCHANGED <<book, closings>>
    BY <1>5 DEF Publish
  <2> QED
    BY <1>2, <1>3, <2>2, <2>3 DEF Signalled
<1>6. ASSUME NEW s \in Symbols, HandlePositionClosed(s)
      PROVE  \A t \in Symbols :
               /\ book'[t] # "none" => directions'[t] = book'[t] /\ ~Signalled(t)'
               /\ \A d \in Directions : <<t, d>> \in signals' => directions'[t] = d
               /\ t \in closings' => directions'[t] # "none" /\ book'[t] = "none"
                                     /\ ~Signalled(t)'
  <2>1. /\ s \in closings /\ closings' = closings \ {s} /\ UNCHANGED <<book, signals>>
        /\ directions' = [directions EXCEPT ![s] = "none"]
    BY <1>6 DEF HandlePositionClosed
  <2> QED
    BY <1>2, <1>3, <2>1 DEF Signalled
<1>7. ASSUME NEW s \in Symbols, NEW d \in Directions, HandleSignal(s, d)
      PROVE  \A t \in Symbols :
               /\ book'[t] # "none" => directions'[t] = book'[t] /\ ~Signalled(t)'
               /\ \A e \in Directions : <<t, e>> \in signals' => directions'[t] = e
               /\ t \in closings' => directions'[t] # "none" /\ book'[t] = "none"
                                     /\ ~Signalled(t)'
  <2>1. /\ <<s, d>> \in signals /\ signals' = signals \ {<<s, d>>}
        /\ UNCHANGED <<directions, closings>>
        /\ book' = book \/ book' = [book EXCEPT ![s] = d]
    BY <1>7 DEF HandleSignal
  <2>2. directions[s] = d /\ s \notin closings /\ \A e \in Directions : <<s, e>> \notin signals'
    <3>1. directions[s] = d /\ Signalled(s)
      BY <1>2, <2>1 DEF Signalled
    <3> QED
      BY <1>2, <2>1, <3>1
  <2> QED
    BY <1>2, <1>3, <2>1, <2>2 DEF Signalled
<1>8. ASSUME NEW s \in Symbols, ClosePosition(s)
      PROVE  \A t \in Symbols :
               /\ book'[t] # "none" => directions'[t] = book'[t] /\ ~Signalled(t)'
               /\ \A d \in Directions : <<t, d>> \in signals' => directions'[t] = d
               /\ t \in closings' => directions'[t] # "none" /\ book'[t] = "none"
                                     /\ ~Signalled(t)'
  <2>1. /\ book[s] # "none" /\ book' = [book EXCEPT ![s] = "none"]
        /\ closings' = closings \cup {s} /\ UNCHANGED <<directions, signals>>
    BY <1>8 DEF ClosePosition
  <2> QED
    BY <1>2, <1>3, <2>1 DEF Signalled
<1>9. CASE Kill
  <2>1. /\ \A t \in Symbols : book'[t] = "none"
        /\ UNCHANGED <<directions, signals, closings>>
    BY <1>9 DEF Kill
  <2> QED
    BY <1>2, <2>1 DEF Signalled
<1>10. \/ UNCHANGED Books \/ Kill
       \/ \E s \in Symbols : \/ Publish(s) \/ HandlePositionClosed(s) \/ ClosePosition(s)
                             \/ \E d \in Directions : HandleSignal(s, d)
  BY DEF Next, Candle, Books, MarkEvent, RefreshStale, Preflight, LayerFails, Judge, Drop,
         RecordTradeResult, HandleAlert, EStop, SetAutoTrading, SetHalted, Restart, downstream,
         vars
<1> QED
  BY <1>4, <1>5, <1>6, <1>7, <1>8, <1>9, <1>10

(***************************************************************************)
(* The limits.                                                             *)
(***************************************************************************)
\* Fewer symbols entered, in the same directions, keep within the limits.
LEMMA FewerEntered ==
  ASSUME LimitHolds, may' = may, Entered' \subseteq Entered,
         \A t \in Entered' : directions'[t] = directions[t]
  PROVE  LimitHolds'
<1> SUFFICES ASSUME may \cap {"manual", "restart", "remote"} = {}
             PROVE  /\ Cardinality(Entered') <= MaxPositions
                    /\ \A d \in Directions :
                         Cardinality({t \in Entered' : directions'[t] = d}) <= MaxCorrelated
  BY DEF LimitHolds
<1>1. Entered \in SUBSET Symbols /\ Entered' \in SUBSET Symbols
  BY DEF Entered
<1>2. Cardinality(Entered') <= MaxPositions
  BY <1>1, FewerSymbols, SymbolsFinite, GeneratorAssumption DEF LimitHolds
<1>3. ASSUME NEW d \in Directions
      PROVE  Cardinality({t \in Entered' : directions'[t] = d}) <= MaxCorrelated
  <2> DEFINE S == {t \in Entered : directions[t] = d}
             T == {t \in Entered' : directions'[t] = d}
  <2>1. S \in SUBSET Symbols /\ T \in SUBSET S
    BY <1>1
  <2>2. Cardinality(S) <= MaxCorrelated
    BY DEF LimitHolds
  <2> HIDE DEF S, T
  <2>3. Cardinality(T) <= MaxCorrelated
    BY <2>1, <2>2, FewerSymbols, SymbolsFinite, GeneratorAssumption
  <2> QED
    BY <2>3 DEF T
<1> QED
  BY <1>2, <1>3

\* The signal of a local review is one more within the limits: what the gates counted
\* before the review is still the count.
LEMMA PublishWithin ==
  ASSUME TypeOK, Reviewed, Followed, Judged, LimitHolds, NEW s \in Symbols, Publish(s)
  PROVE  LimitHolds'
<1> SUFFICES ASSUME may \cap {"manual", "restart", "remote"} = {}
             PROVE  /\ Cardinality(Entered') <= MaxPositions
                    /\ \A d \in Directions :
                         Cardinality({t \in Entered' : directions'[t] = d}) <= MaxCorrelated
  BY DEF LimitHolds, Publish, setting
<1>1. /\ candidate[s] # "none" /\ UNCHANGED book
      /\ directions' = [directions EXCEPT ![s] = candidate[s]]
      /\ signals' = signals \cup {<<s, candidate[s]>>}
      /\ directions \in [Symbols -> NoneOr]
  BY DEF Publish, TypeOK
<1>2. ~Correlated(s, candidate[s]) /\ OpenCount < MaxPositions /\ directions[s] = "none"
  BY <1>1 DEF Judged, Reviewed, Held
<1>3. Entered \in SUBSET Symbols /\ Entered' \in SUBSET Symbols /\ Entered' \subseteq Entered \cup {s}
  BY <1>1 DEF Entered
<1>4. \A t \in Symbols : t # s => directions'[t] = directions[t]
  BY <1>1
<1>5. directions'[s] = candidate[s]
  BY <1>1
<1>6. Cardinality(Entered) < MaxPositions
  <2> DEFINE own == {t \in Symbols : Held(t)}
  <2>1. own \in SUBSET Symbols /\ Entered \in SUBSET own
    BY DEF Followed, EntryRemembered, Entered, Held, Directions
  <2>2. Cardinality(own) <= OpenCount
    <3>1. Cardinality(own) \in Nat /\ Cardinality({t \in Symbols : book[t] # "none"}) \in Nat
      BY SymbolsFinite
    <3> QED
      BY <3>1 DEF OpenCount
  <2>3. OpenCount \in Nat
    BY SymbolsFinite DEF OpenCount
  <2> HIDE DEF own
  <2>4. Cardinality(Entered) <= Cardinality(own)
    BY <2>1, FewerSymbols
  <2> QED
    BY <1>2, <1>3, <2>1, <2>2, <2>3, <2>4, SymbolsFinite, GeneratorAssumption
<1>7. Cardinality(Entered') <= MaxPositions
  <2>1. Cardinality(Entered') <= Cardinality(Entered) + 1
    BY <1>3, OneMoreSymbol
  <2>2. Cardinality(Entered') \in Nat /\ Cardinality(Entered) \in Nat
    BY <1>3, SymbolsFinite
  <2> QED
    BY <1>6, <2>1, <2>2, GeneratorAssumption
<1>8. ASSUME NEW d \in Directions
      PROVE  Cardinality({t \in Entered' : directions'[t] = d}) <= MaxCorrelated
  <2> DEFINE T == {t \in Entered' : directions'[t] = d}
  <2>1. CASE d = candidate[s]
    <3> DEFINE S == {t \in Symbols \ {s} : directions[t] = candidate[s]}
    <3>1. S \in SUBSET Symbols /\ T \in SUBSET Symbols /\ T \subseteq S \cup {s}
      BY <1>3, <1>4, <2>1
    <3>2. ~(Cardinality(S) >= MaxCorrelated)
      BY <1>2 DEF Correlated
    <3> HIDE DEF S, T
    <3>3. Cardinality(T) <= MaxCorrelated
      BY <3>1, <3>2, OneMoreSymbol, SymbolsFinite, GeneratorAssumption
    <3> QED
      BY <3>3 DEF T
  <2>2. CASE d # candidate[s]
    <3> DEFINE S == {t \in Entered : directions[t] = d}
    <3>1. S \in SUBSET Symbols /\ T \in SUBSET S
      BY <1>3, <1>4, <1>5, <2>2
    <3>2. Cardinality(S) <= MaxCorrelated
      BY DEF LimitHolds
    <3> HIDE DEF S, T
    <3>3. Cardinality(T) <= MaxCorrelated
      BY <3>1, <3>2, FewerSymbols, SymbolsFinite, GeneratorAssumption
    <3> QED
      BY <3>3 DEF T
  <2> QED
    BY <2>1, <2>2
<1> QED
  BY <1>7, <1>8

\* Every step keeps the limits.
LEMMA LimitStep ==
  ASSUME TypeOK, Reviewed, Followed, Judged, LimitHolds, [Next]_vars
  PROVE  LimitHolds'
<1>1. may' = may
  BY DEF Next, Candle, MarkEvent, RefreshStale, Preflight, LayerFails, Judge, Publish, Drop,
         HandlePositionClosed, RecordTradeResult, ClosePosition, HandleSignal, HandleAlert, Kill,
         EStop, SetAutoTrading, SetHalted, Restart, setting, vars
<1>2. CASE \E s \in Symbols : Publish(s)
  BY <1>2, PublishWithin
<1>3. CASE may \cap {"manual", "restart"} # {}
  BY <1>1, <1>3 DEF LimitHolds
<1>4. ASSUME ~ \E s \in Symbols : Publish(s), may \cap {"manual", "restart"} = {}
      PROVE  Entered' \subseteq Entered /\ \A t \in Entered' : directions'[t] = directions[t]
  <2>1. CASE UNCHANGED Books
    BY <2>1 DEF Books, Entered
  <2>2. ASSUME NEW s \in Symbols, HandlePositionClosed(s)
        PROVE  Entered' \subseteq Entered /\ \A t \in Entered' : directions'[t] = directions[t]
    <3>1. UNCHANGED <<book, signals>> /\ s \in closings
          /\ directions' = [directions EXCEPT ![s] = "none"]
      BY <2>2 DEF HandlePositionClosed
    <3>2. Entered' = Entered /\ s \notin Entered
      BY <1>4, <3>1 DEF Entered, Followed
    <3> QED
      BY <3>1, <3>2 DEF TypeOK, Entered
  <2>3. ASSUME NEW s \in Symbols, NEW d \in Directions, HandleSignal(s, d)
        PROVE  Entered' \subseteq Entered /\ \A t \in Entered' : directions'[t] = directions[t]
    <3>1. /\ <<s, d>> \in signals /\ signals' = signals \ {<<s, d>>} /\ UNCHANGED directions
          /\ book' = book \/ book' = [book EXCEPT ![s] = d]
      BY <2>3 DEF HandleSignal
    <3>2. \A t \in Symbols : t # s => book'[t] = book[t]
      BY <3>1 DEF TypeOK
    <3> QED
      BY <3>1, <3>2 DEF Entered
  <2>4. ASSUME NEW s \in Symbols, ClosePosition(s)
        PROVE  Entered' \subseteq Entered /\ \A t \in Entered' : directions'[t] = directions[t]
    <3>1. book' = [book EXCEPT ![s] = "none"] /\ UNCHANGED <<directions, signals>>
      BY <2>4 DEF ClosePosition
    <3> QED
      BY <3>1 DEF Entered, TypeOK
  <2>5. CASE Kill
    <3>1. (\A t \in Symbols : book'[t] = "none") /\ UNCHANGED <<directions, signals>>
      BY <2>5 DEF Kill
    <3> QED
      BY <3>1 DEF Entered
  <2>6. \/ UNCHANGED Books \/ Kill
        \/ \E s \in Symbols : \/ HandlePositionClosed(s) \/ ClosePosition(s)
                              \/ \E d \in Directions : HandleSignal(s, d)
    BY <1>4 DEF Next, Candle, Books, MarkEvent, RefreshStale, Preflight, LayerFails, Judge, Drop,
           RecordTradeResult, HandleAlert, EStop, SetAutoTrading, SetHalted, Restart,
           downstream, vars
  <2> QED
    BY <2>1, <2>2, <2>3, <2>4, <2>5, <2>6
<1> QED
  BY <1>1, <1>2, <1>3, <1>4, FewerEntered

(***************************************************************************)
(* The inductive invariant holds.                                          *)
(***************************************************************************)
LEMMA InitInv == Init => IInv
<1> SUFFICES ASSUME Init PROVE IInv
  OBVIOUS
<1>1. {s \in Symbols : candidate[s] # "none"} = {} /\ Entered = {}
  BY DEF Init, Nothing, Entered
<1>2. Cardinality({}) = 0
  BY FS_EmptySet
<1>3. TypeOK
  <2>1. /\ candidate \in [Symbols -> NoneOr] /\ directions \in [Symbols -> NoneOr]
        /\ book \in [Symbols -> NoneOr] /\ layers \in [blocked : BOOLEAN, sound : BOOLEAN]
        /\ feed \in [Symbols -> [Channels -> {"ok", "bad", "stale"}]]
    BY DEF Init, Nothing, NoneOr, Fresh, NoFaults
  <2>2. streak \in [Symbols -> 0..MaxStreak] /\ forgotten \in 0..MaxForgotten
    BY GeneratorAssumption DEF Init, NoStreaks
  <2> QED
    <3>1. /\ estop \in BOOLEAN /\ auto \in BOOLEAN /\ halted \in BOOLEAN /\ may \in Environments
          /\ signals \subseteq Symbols \X Directions /\ closings \subseteq Symbols
      BY DEF Init
    <3>2. Cardinality({s \in Symbols : candidate[s] # "none"}) <= 1
      BY <1>1, <1>2
    <3> QED
      BY <2>1, <2>2, <3>1, <3>2 DEF TypeOK
<1>4. Reviewed /\ Judged
  BY DEF Init, Nothing, Reviewed, Judged
<1>6. Followed
  BY DEF Init, Nothing, Followed, EntryRemembered
<1>5. LimitHolds
  BY <1>1, <1>2, GeneratorAssumption DEF LimitHolds
<1> QED
  BY <1>3, <1>4, <1>5, <1>6 DEF IInv

\* Every step keeps the invariant.
LEMMA NextInv == IInv /\ [Next]_vars => IInv'
BY TypeStep, ReviewedStep, FollowedStep, JudgedStep, LimitStep DEF IInv

\* So it holds in every execution.
LEMMA Invariance == Spec => []IInv
BY InitInv, NextInv, PTL DEF Spec

(***************************************************************************)
(* The theorems.                                                           *)
(***************************************************************************)
\* The variables keep their types, and reviews of a local provider do not overlap.
THEOREM TypeCorrect == Spec => []TypeOK
BY Invariance, PTL DEF IInv

\* The generator remembers a direction for whatever it entered, and the right one, as long
\* as nobody else clears its memory.
THEOREM EntriesRemembered == Spec => []EntryRemembered
<1>1. IInv => EntryRemembered
  BY DEF IInv, Followed, EntryRemembered
<1> QED
  BY <1>1, Invariance, PTL

\* With a local provider, max_positions and MAX_CORRELATED hold for all that is entered.
THEOREM LimitsHold == Spec => []LimitHolds
<1>1. IInv => LimitHolds
  BY DEF IInv
<1> QED
  BY <1>1, Invariance, PTL

\* A review ends by a signal or without one.
LEMMA AnsweredBy ==
  ASSUME TypeOK, Reviewed, Next, NEW s \in Symbols, Answered(s)
  PROVE  \/ Publish(s)
         \/ Drop(s) /\ ~Published(s)
         \/ Restart /\ ~Published(s)
<1>1. candidate[s] # "none" /\ candidate'[s] = "none"
  BY DEF Answered
<1>2. ASSUME NEW t \in Symbols, Publish(t) \/ Drop(t) PROVE t = s
  BY <1>1, <1>2, AnswerEnds DEF Publish, Drop
<1>3. ASSUME NEW t \in Symbols, NEW d \in Directions, NEW bands \in SUBSET Bands,
             NEW score \in Scores, Judge(t, d, bands, score)
      PROVE  FALSE
  <2>1. candidate[t] = "none" /\ \A x \in Symbols : x # t => candidate'[x] = candidate[x]
    BY <1>3, JudgeBegins
  <2> QED
    BY <1>1, <2>1
<1>4. ASSUME Elsewhere, ~Restart PROVE FALSE
  <2>1. UNCHANGED candidate
    BY <1>4 DEF Elsewhere, MarkEvent, RefreshStale, Preflight, LayerFails, ClosePosition,
                HandlePositionClosed, RecordTradeResult, HandleSignal, HandleAlert, Kill,
                EStop, SetAutoTrading, SetHalted
  <2> QED
    BY <1>1, <2>1
<1>5. ASSUME Drop(s) PROVE ~Published(s)
  <2>1. directions'[s] = "none"
    BY <1>1, <1>5 DEF Drop, Reviewed, Held
  <2> QED
    BY <1>1, <2>1 DEF Published
<1>6. ASSUME Restart PROVE ~Published(s)
  <2>1. directions'[s] = "none"
    BY <1>6 DEF Restart, Nothing
  <2> QED
    BY <1>1, <2>1 DEF Published
<1> QED
  BY <1>2, <1>3, <1>4, <1>5, <1>6, NextSplit

\* A signal never leaves while entries are refused, the symbol's streak is at the limit or,
\* with a local provider, anything else stops trading.
THEOREM StopsAreQuiet == Spec => StoppedMeansQuiet
<1>1. IInv /\ [Next]_vars =>
        [\A s \in Symbols : Published(s) =>
           /\ ~halted
           /\ "remote" \in may \/ (auto /\ ~estop /\ \A c \in Channels : feed[s][c] # "bad")
           /\ streak[s] < MaxStreak]_vars
  <2> SUFFICES ASSUME IInv, Next, NEW s \in Symbols, Published(s)
               PROVE  /\ ~halted
                      /\ "remote" \in may \/ (auto /\ ~estop
                                              /\ \A c \in Channels : feed[s][c] # "bad")
                      /\ streak[s] < MaxStreak
    OBVIOUS
  <2>1. Publish(s)
    BY AnsweredBy DEF IInv, Published
  <2>2. ~halted /\ candidate[s] # "none"
    BY <2>1 DEF Publish, ReceiptAllows
  <2>3. streak[s] < MaxStreak
    BY <2>2 DEF IInv, Reviewed
  <2>4. "remote" \in may \/ (auto /\ ~estop /\ \A c \in Channels : feed[s][c] # "bad")
    BY <2>2 DEF IInv, Judged, FeedsAllow
  <2> QED
    BY <2>2, <2>3, <2>4
<1> QED
  BY <1>1, Invariance, PTL DEF Spec, StoppedMeansQuiet

\* With a local provider the receipt repeats the gates' decision.
THEOREM ReceiptsAgree == Spec => ReceiptAgrees
<1>1. IInv /\ [Next]_vars =>
        [\A s \in Symbols : Answered(s) =>
           Published(s) \/ halted \/ may \cap {"remote", "direct", "restart"} # {}]_vars
  <2> SUFFICES ASSUME IInv, Next, NEW s \in Symbols, Answered(s), ~halted,
                      may \cap {"remote", "direct", "restart"} = {}
               PROVE  Published(s)
    OBVIOUS
  <2>1. CASE Publish(s)
    BY <2>1 DEF Published, Publish, IInv, TypeOK
  <2>2. CASE Drop(s)
    <3>1. candidate[s] # "none" /\ ~ReceiptAllows
      BY <2>2 DEF Drop
    <3> QED
      BY <3>1 DEF IInv, Judged, ReceiptAllows
  <2>3. CASE Restart
    BY <2>3 DEF Restart
  <2> QED
    BY <2>1, <2>2, <2>3, AnsweredBy DEF IInv
<1> QED
  BY <1>1, Invariance, PTL DEF Spec, ReceiptAgrees
=============================================================================
