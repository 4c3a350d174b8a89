---------------------------- MODULE Recovery_proofs ----------------------------
(***************************************************************************)
(* Theorems about Recovery and the user stream in it, for every account    *)
(* history, every delay and every choice of what the environment may do.   *)
(***************************************************************************)
EXTENDS Recovery, SequenceTheorems, TLAPS

(***************************************************************************)
(* The inductive invariant.                                                *)
(***************************************************************************)
\* What is counted as published is remembered as seen.
Counted == \A i \in TradeIds : told[i] <= IF i \in seen THEN 1 ELSE 0

\* No entry is under way outside a run, and the reservation an entry waits for is its own.
Reserved ==
  /\ mode \in {"off", "boot"} => w = "idle"
  /\ w = "wait" /\ book.kind # "none" => book.row > 0 /\ book.qty > 0

\* How far a start has come: what it fetched is still so, unless the exchange moved.
Started ==
  /\ step # "none" => mode = "boot"
  /\ step = "orders" => snap.stops = <<>>
  /\ step \in {"rebuild", "protect"} /\ ~moved /\ HasStop => xstops # <<>>
  /\ step = "protect" /\ book.kind # "none" => snap.qty # 0
  /\ ProtectedAtStart

IInv == TypeOK /\ Counted /\ Reserved /\ Started

(***************************************************************************)
(* The user stream.                                                        *)
(***************************************************************************)
\* A trade is numbered among the trades of the account.
LEMMA TradesBounded ==
  ASSUME StreamTypeOK
  PROVE  DOMAIN trades = 1..Len(trades) /\ Len(trades) \in Nat /\ DOMAIN trades \subseteq TradeIds
<1>1. trades \in Seq({"entry", "stop", "outside"}) /\ Len(trades) <= MaxTrades
  BY DEF StreamTypeOK
<1>2. Len(trades) \in Nat /\ DOMAIN trades = 1..Len(trades)
  BY <1>1, LenProperties
<1> QED
  BY <1>1, <1>2, StreamAssumption DEF TradeIds

\* Publishing trades not seen before, and remembering them, counts each once.
LEMMA PublishCounts ==
  ASSUME StreamTypeOK, Counted, NEW ids \in SUBSET DOMAIN trades,
         Publish(ids \ seen), seen' = seen \cup ids
  PROVE  told' \in [TradeIds -> Nat] /\ Counted'
<1>1. \A i \in TradeIds : told[i] \in Nat
  BY DEF StreamTypeOK
<1>2. told' = [i \in TradeIds |-> told[i] + IF i \in ids \ seen THEN 1 ELSE 0]
  BY DEF Publish
<1>3. \A i \in TradeIds : told[i] <= IF i \in seen THEN 1 ELSE 0
  BY DEF Counted
<1>4. told' \in [TradeIds -> Nat]
  BY <1>1, <1>2
<1>5. \A i \in TradeIds : told'[i] <= IF i \in seen' THEN 1 ELSE 0
  BY <1>1, <1>2, <1>3
<1> QED
  BY <1>4, <1>5 DEF Counted

\* The end of an attempt keeps the types, whatever else the step counts.
LEMMA DisconnectType ==
  ASSUME StreamTypeOK, Counted, Disconnect, drops' \in 0..MaxDrops
  PROVE  StreamTypeOK' /\ Counted'
<1>1. delay' \in 1..MaxDelay /\ wait' \in 0..MaxDelay
  BY StreamAssumption DEF StreamTypeOK, Disconnect, NextDelay
<1>2. trip' \in {"none", "mismatch", "stream"} /\ safe' \subseteq {"stream", "drift"}
  BY DEF StreamTypeOK, Disconnect, StreamLost, gate
<1>3. feed' \in Seq(DOMAIN trades')
  BY EmptySeq DEF Disconnect
<1>4. elapsed' \in {NoTime} \cup 0..Threshold
  BY StreamAssumption DEF Disconnect
<1>5. UNCHANGED <<trades, said, seen, told>> /\ conn' = "sleep" /\ deaf' = FALSE
  BY DEF Disconnect, published
<1> QED
  BY <1>1, <1>2, <1>3, <1>4, <1>5 DEF StreamTypeOK, Counted

\* What the loop and the timers do, and what fails, keeps the types and the count.
LEMMA StreamStep ==
  ASSUME StreamTypeOK, Counted, Alone \/ Drop \/ Expire
  PROVE  StreamTypeOK' /\ Counted'
<1>1. CASE GetKey
  <2>1. CASE Disconnect /\ UNCHANGED drops
    BY <2>1, DisconnectType DEF StreamTypeOK
  <2>2. CASE ~(Disconnect /\ UNCHANGED drops)
    BY <1>1, <2>2 DEF GetKey, StreamTypeOK, Counted, account, published, gate
  <2> QED
    BY <2>1, <2>2
<1>2. CASE Connect
  <2>1. CASE Disconnect /\ UNCHANGED drops
    BY <2>1, DisconnectType DEF StreamTypeOK
  <2>2. CASE ~(Disconnect /\ UNCHANGED drops)
    <3>1. /\ UNCHANGED <<trades, feed, deaf, wait, seen, told, drops>>
          /\ conn' = "hello" /\ elapsed' = NoTime /\ said' = FALSE /\ delay' = 1
          /\ trip' = "none" /\ safe' = safe \ {"stream"}
      BY <1>2, <2>2 DEF Connect, account, published
    <3>2. delay' \in 1..MaxDelay
      BY <3>1, StreamAssumption
    <3> QED
      BY <3>1, <3>2 DEF StreamTypeOK, Counted
  <2> QED
    BY <2>1, <2>2
<1>3. CASE Wake
  BY <1>3 DEF Wake, StreamTypeOK, Counted, account, published, gate
<1>4. CASE Tick
  <2>1. UNCHANGED <<trades, feed, conn, deaf, delay, seen, told, drops>>
    BY <1>4 DEF Tick, account, published
  <2>2. wait' \in 0..MaxDelay
    BY <1>4, StreamAssumption DEF Tick, StreamTypeOK
  <2>3. elapsed' \in {NoTime} \cup 0..Threshold
    BY <1>4, StreamAssumption DEF Tick, StreamTypeOK, NoTime
  <2>4. said' \in BOOLEAN /\ trip' \in {"none", "mismatch", "stream"}
                          /\ safe' \subseteq {"stream", "drift"}
    BY <1>4 DEF Tick, StreamTypeOK, StreamLost, gate
  <2> QED
    BY <2>1, <2>2, <2>3, <2>4 DEF StreamTypeOK, Counted
<1>5. CASE Recover
  <2>1. UNCHANGED <<trades, feed, deaf, wait, delay, elapsed, said, drops, trip, safe>>
        /\ conn' = "up"
    BY <1>5 DEF Recover, account, gate
  <2>2. CASE UNCHANGED published
    BY <2>1, <2>2 DEF StreamTypeOK, Counted, published
  <2>3. CASE seen' = seen \cup DOMAIN trades /\ Publish(DOMAIN trades \ seen)
    <3>1. told' \in [TradeIds -> Nat] /\ Counted'
      BY <2>3, PublishCounts
    <3>2. seen' \subseteq DOMAIN trades'
      BY <2>1, <2>3 DEF StreamTypeOK
    <3> QED
      BY <2>1, <3>1, <3>2 DEF StreamTypeOK
  <2> QED
    BY <1>5, <2>2, <2>3 DEF Recover
<1>6. CASE Drop
  <2>1. Disconnect /\ drops' \in 0..MaxDrops
    BY <1>6, StreamAssumption DEF Drop, StreamTypeOK
  <2> QED
    BY <2>1, DisconnectType
<1>7. CASE Expire
  BY <1>7 DEF Expire, StreamTypeOK, Counted, account, published, gate
<1> QED
  BY <1>1, <1>2, <1>3, <1>4, <1>5, <1>6, <1>7 DEF Alone

\* So does a trade the socket brings.
LEMMA ReceiveStep ==
  ASSUME StreamTypeOK, Counted, Receive
  PROVE  StreamTypeOK' /\ Counted'
<1>1. UNCHANGED <<trades, conn, deaf, wait, delay, elapsed, said, drops, trip, safe>>
  BY DEF Receive, socket, gate
<1>2. feed \in Seq(DOMAIN trades) /\ feed # <<>>
  BY DEF Receive, StreamTypeOK
<1>3. Received \in DOMAIN trades /\ feed' \in Seq(DOMAIN trades')
  BY <1>1, <1>2, HeadTailProperties DEF Receive, Received
<1>4. told' \in [TradeIds -> Nat] /\ Counted'
  BY <1>3, PublishCounts DEF Receive
<1>5. seen' \subseteq DOMAIN trades'
  BY <1>1, <1>3 DEF StreamTypeOK, Receive
<1> QED
  BY <1>1, <1>3, <1>4, <1>5 DEF StreamTypeOK

\* A trade on the account is added to it, and sent on the socket at most.
LEMMA TradedStep ==
  ASSUME StreamTypeOK, Counted, NEW kind \in {"entry", "stop", "outside"}, Traded(kind),
         UNCHANGED <<socket, published, drops, gate>>
  PROVE  StreamTypeOK' /\ Counted'
<1> DEFINE Kinds == {"entry", "stop", "outside"}
<1>1. trades \in Seq(Kinds) /\ trades' = Append(trades, kind) /\ Len(trades) < MaxTrades
  BY DEF StreamTypeOK, Traded
<1>2. trades' \in Seq(Kinds) /\ Len(trades') = Len(trades) + 1
  BY <1>1, AppendProperties
<1>3. DOMAIN trades = 1..Len(trades) /\ DOMAIN trades' = 1..Len(trades') /\ Len(trades) \in Nat
  BY <1>1, <1>2, LenProperties
<1>4. DOMAIN trades \subseteq DOMAIN trades' /\ Len(trades') \in DOMAIN trades'
  BY <1>2, <1>3
<1>5. Len(trades') <= MaxTrades
  BY <1>1, <1>2, <1>3, StreamAssumption
<1>6. feed \in Seq(DOMAIN trades')
  BY <1>4, SeqMonotonic DEF StreamTypeOK
<1>7. feed' \in Seq(DOMAIN trades')
  BY <1>4, <1>6, AppendProperties DEF Traded
<1>8. UNCHANGED <<conn, deaf, wait, delay, elapsed, said, seen, told, drops, trip, safe>>
  BY DEF socket, published, gate
<1>9. seen' \subseteq DOMAIN trades'
  BY <1>4, <1>8 DEF StreamTypeOK
<1> QED
  BY <1>2, <1>5, <1>7, <1>8, <1>9 DEF StreamTypeOK, Counted

\* The stream's beginning and its end keep the types.
LEMMA StreamStartsStep ==
  ASSUME StreamTypeOK, Counted, StreamStarts, UNCHANGED safe,
         trip' \in {"none", "mismatch", "stream"}
  PROVE  StreamTypeOK' /\ Counted'
BY DEF StreamStarts, StreamTypeOK, Counted, account, published

\* The end of the process closes the stream.
LEMMA StreamEndsStep ==
  ASSUME StreamTypeOK, StreamEnds
  PROVE  StreamTypeOK' /\ Counted'
<1>1. feed' \in Seq(DOMAIN trades')
  BY EmptySeq DEF StreamEnds
<1>2. wait' \in 0..MaxDelay /\ delay' \in 1..MaxDelay
  BY StreamAssumption DEF StreamEnds
<1>3. UNCHANGED <<trades, drops>> /\ conn' = "off" /\ deaf' = FALSE /\ elapsed' = NoTime
      /\ said' = FALSE /\ seen' = {} /\ trip' = "none" /\ safe' = {}
      /\ told' = [i \in TradeIds |-> 0]
  BY DEF StreamEnds
<1>4. told' \in [TradeIds -> Nat] /\ Counted'
  BY <1>3 DEF Counted
<1> QED
  BY <1>1, <1>2, <1>3, <1>4 DEF StreamTypeOK

(***************************************************************************)
(* Types.                                                                  *)
(***************************************************************************)
\* What a step that leaves the stream alone leaves of it.
LEMMA StreamKept ==
  ASSUME StreamTypeOK, Counted, UNCHANGED stream
  PROVE  StreamTypeOK' /\ Counted'
BY DEF stream, account, socket, published, gate, StreamTypeOK, Counted

\* Removing an element leaves a sequence of the same elements.
LEMMA RemoveAtType ==
  ASSUME NEW S, NEW s \in Seq(S), NEW i \in DOMAIN s
  PROVE  RemoveAt(s, i) \in Seq(S)
<1>1. DOMAIN s = 1..Len(s) /\ Len(s) \in Nat /\ \A j \in 1..Len(s) : s[j] \in S
  BY LenProperties, ElementOfSeq
<1>2. SubSeq(s, 1, i-1) \in Seq(S)
  BY <1>1, SubSeqProperties, \A j \in 1..(i-1) : s[j] \in S, i-1 \in Int, 1 \in Int
<1>3. SubSeq(s, i+1, Len(s)) \in Seq(S)
  BY <1>1, SubSeqProperties, \A j \in (i+1)..Len(s) : s[j] \in S, i+1 \in Int
<1> QED
  BY <1>2, <1>3, ConcatProperties DEF RemoveAt

\* Every step keeps the types, counts a published trade once, and keeps the reservation
\* of an entry under way.
LEMMA TypeStep ==
  ASSUME TypeOK, Counted, Reserved, Next
  PROVE  TypeOK' /\ Counted' /\ Reserved'
<1> DEFINE Quantities == Nat \ {0}
           Tracked == [kind : {"none", "pending", "open"}, qty : Nat, row : 0..MaxEntries]
<1> USE RecoveryAssumption
<1>s. StreamTypeOK
  BY DEF TypeOK
<1>b. NoBook \in Tracked
  BY DEF NoBook
<1>n. NoSnap \in [qty : Nat, stops : Seq(Quantities), mismatch : BOOLEAN]
  BY EmptySeq DEF NoSnap
<1>1. CASE FillEntry
  <2>1. StreamTypeOK' /\ Counted'
    BY <1>1, <1>s, TradedStep DEF FillEntry, Moves
  <2> QED
    BY <1>1, <2>1 DEF FillEntry, Moves, stores, boot, work, bounds, TypeOK, Reserved
<1>2. CASE Trigger
  <2>1. StreamTypeOK' /\ Counted'
    BY <1>2, <1>s, TradedStep DEF Trigger, Moves
  <2>2. PICK i \in DOMAIN xstops : /\ xqty > 0
                                   /\ xqty' = IF xstops[i] < xqty THEN xqty - xstops[i] ELSE 0
                                   /\ xstops' = RemoveAt(xstops, i)
    BY <1>2 DEF Trigger
  <2>3. xstops \in Seq(Quantities) /\ xqty \in Nat
    BY DEF TypeOK
  <2>4. xstops' \in Seq(Quantities)
    BY <2>2, <2>3, RemoveAtType
  <2>5. xstops[i] \in Nat
    BY <2>3, ElementOfSeq, LenProperties
  <2>6. xqty' \in Nat
    BY <2>2, <2>3, <2>5
  <2>7. UNCHANGED <<may, book, rows, dbqty, due, mode, step, snap, w, asked, entries, starts,
                    alarmed, xentry>> /\ moved' = TRUE
    BY <1>2 DEF Trigger, Moves, stores, boot, work, bounds
  <2> QED
    BY <2>1, <2>4, <2>6, <2>7 DEF TypeOK, Reserved
<1>3. CASE TradeByHand
  <2>1. StreamTypeOK' /\ Counted'
    BY <1>3, <1>s, TradedStep DEF TradeByHand, Moves
  <2>2. xqty' \in Nat /\ moved' = TRUE
        /\ UNCHANGED <<may, xentry, xstops, book, rows, dbqty, due, mode, step, snap, w, asked, entries,
                       starts, alarmed>>
    BY <1>3 DEF TradeByHand, Moves, stores, boot, work, bounds
  <2> QED
    BY <2>1, <2>2 DEF TypeOK, Reserved
<1>4. CASE Boot
  <2>1. StreamTypeOK' /\ Counted'
    BY <1>4, <1>s, StreamKept DEF Boot
  <2>2. starts' \in 0..MaxStarts
    BY <1>4 DEF Boot, TypeOK
  <2>3. book' \in Tracked
    <3>1. rows \subseteq [id : 1..MaxEntries, qty : Nat \ {0}]
      BY DEF TypeOK
    <3>2. book' = NoBook \/ \E r \in rows : book' = [kind |-> "open", qty |-> r.qty, row |-> r.id]
      BY <1>4 DEF Boot, Restored
    <3>3. CASE \E r \in rows : book' = [kind |-> "open", qty |-> r.qty, row |-> r.id]
      BY <3>1, <3>3
    <3> QED
      BY <1>b, <3>2, <3>3
  <2>4. UNCHANGED <<may, xqty, xentry, xstops, rows, dbqty, due, w, asked, entries>>
        /\ mode' = "boot" /\ step' = "positions" /\ snap' = NoSnap
        /\ moved' = FALSE /\ alarmed' = FALSE /\ mode = "off"
    BY <1>4 DEF Boot, exchange, stores, work
  <2> QED
    BY <2>1, <2>2, <2>3, <2>4, <1>n DEF TypeOK, Reserved
<1>5. CASE FetchPositions
  <2>1. StreamTypeOK' /\ Counted'
    BY <1>5, <1>s, StreamKept DEF FetchPositions, Reading
  <2>2. snap' \in [qty : Nat, stops : Seq(Quantities), mismatch : BOOLEAN]
    <3>1. xqty \in Nat /\ <<>> \in Seq(Quantities)
      BY EmptySeq DEF TypeOK
    <3>2. CASE \E differs \in BOOLEAN :
                 snap' = [qty |-> xqty, stops |-> <<>>, mismatch |-> differs]
      BY <3>1, <3>2
    <3>3. CASE snap' = [NoSnap EXCEPT !.mismatch = TRUE]
      BY <1>n, <3>3
    <3> QED
      BY <1>5, <3>2, <3>3 DEF FetchPositions
  <2> QED
    BY <1>5, <2>1, <2>2
       DEF FetchPositions, Reading, exchange, stores, work, bounds, TypeOK, Reserved
<1>6. CASE FetchOrders
  <2>1. StreamTypeOK' /\ Counted'
    BY <1>6, <1>s, StreamKept DEF FetchOrders, Reading
  <2>2. snap' \in [qty : Nat, stops : Seq(Quantities), mismatch : BOOLEAN]
    <3>1. xstops \in Seq(Quantities) /\ TRUE \in BOOLEAN
          /\ snap \in [qty : Nat, stops : Seq(Quantities), mismatch : BOOLEAN]
      BY DEF TypeOK
    <3>2. CASE snap' = [snap EXCEPT !.stops = xstops]
      BY <3>1, <3>2
    <3>3. CASE snap' = [snap EXCEPT !.mismatch = TRUE]
      BY <3>1, <3>3
    <3> QED
      BY <1>6, <3>2, <3>3 DEF FetchOrders
  <2> QED
    BY <1>6, <2>1, <2>2
       DEF FetchOrders, Reading, exchange, stores, work, bounds, TypeOK, Reserved
<1>7. CASE Rebuild
  <2>1. StreamTypeOK' /\ Counted'
    BY <1>7, <1>s, StreamKept DEF Rebuild
  <2>2. snap.qty \in Nat
    BY DEF TypeOK
  <2>3. book' \in Tracked /\ dbqty' \in Nat
    BY <1>7, <1>b, <2>2 DEF Rebuild
  <2>4. snap' \in [qty : Nat, stops : Seq(Quantities), mismatch : BOOLEAN]
    BY <1>7 DEF Rebuild, TypeOK, DbDiffers, BookDiffers
  <2>5. UNCHANGED <<may, xqty, xentry, xstops, rows, due, mode, w, asked, entries, starts,
                    moved, alarmed>> /\ mode = "boot" /\ step' = "protect"
    BY <1>7 DEF Rebuild, AtStep, exchange, work, bounds, history
  <2> QED
    BY <2>1, <2>3, <2>4, <2>5 DEF TypeOK, Reserved
<1>8. CASE Protect
  <2>1. StreamTypeOK' /\ Counted'
    BY <1>8, <1>s, StreamKept DEF Protect
  <2>2. snap.qty \in Nat /\ xstops \in Seq(Quantities) /\ snap.mismatch \in BOOLEAN
        /\ snap \in [qty : Nat, stops : Seq(Quantities), mismatch : BOOLEAN]
        /\ alarmed \in BOOLEAN
    BY DEF TypeOK
  <2>3. xstops' \in Seq(Quantities)
    <3>1. xstops' = xstops \/ (xstops' = Append(xstops, snap.qty) /\ snap.qty # 0)
      BY <1>8 DEF Protect
    <3>2. CASE xstops' = xstops
      BY <2>2, <3>2
    <3>3. CASE xstops' = Append(xstops, snap.qty) /\ snap.qty # 0
      <4>1. snap.qty \in Quantities
        BY <2>2, <3>3
      <4> HIDE DEF Quantities
      <4>2. Append(xstops, snap.qty) \in Seq(Quantities)
        BY <2>2, <4>1, AppendProperties
      <4> QED
        BY <3>3, <4>2
    <3> QED
      BY <3>1, <3>2, <3>3
  <2>4. snap' \in [qty : Nat, stops : Seq(Quantities), mismatch : BOOLEAN]
    <3>1. CASE UNCHANGED snap
      BY <2>2, <3>1
    <3>2. CASE \E unsupported \in BOOLEAN :
                 snap' = [snap EXCEPT !.mismatch = @ \/ ~unsupported]
      BY <2>2, <3>2
    <3> QED
      BY <1>8, <3>1, <3>2 DEF Protect
  <2>5. alarmed' \in BOOLEAN
    BY <1>8, <2>2 DEF Protect
  <2>6. UNCHANGED <<may, xqty, xentry, book, rows, dbqty, due, mode, w, asked, entries, starts,
                    moved>> /\ step' = "finish"
    BY <1>8 DEF Protect, stores, work, bounds
  <2> QED
    BY <2>1, <2>3, <2>4, <2>5, <2>6 DEF TypeOK, Reserved
<1>9. CASE Finish
  <2>1. UNCHANGED safe /\ trip' \in {"none", "mismatch", "stream"} /\ StreamStarts
    BY <1>9, <1>s DEF Finish, StreamTypeOK
  <2>2. StreamTypeOK' /\ Counted'
    BY <2>1, <1>s, StreamStartsStep
  <2>3. UNCHANGED <<may, xqty, xentry, xstops, book, rows, dbqty, due, w, asked, entries,
                    starts, moved, alarmed>>
        /\ mode = "boot" /\ mode' = "up" /\ step' = "none" /\ snap' = NoSnap
    BY <1>9 DEF Finish, AtStep, exchange, stores, work, bounds, history
  <2> QED
    BY <2>2, <2>3, <1>n DEF TypeOK, Reserved
<1>10. CASE Enter
  <2>1. StreamTypeOK' /\ Counted'
    BY <1>10, <1>s, StreamKept DEF Enter
  <2>2. entries' \in 1..MaxEntries /\ entries' \in 0..MaxEntries
    BY <1>10 DEF Enter, TypeOK
  <2>3. xentry' \subseteq 1..MaxEntries
    BY <1>10, <2>2 DEF Enter, TypeOK
  <2>4. book' = [kind |-> "pending", qty |-> 1, row |-> entries'] /\ w' = "wait"
        /\ mode = "up"
    BY <1>10 DEF Enter
  <2>5. book' \in Tracked /\ book'.row > 0 /\ book'.qty > 0
    BY <2>2, <2>4
  <2>6. UNCHANGED <<may, xqty, xstops, rows, dbqty, due, mode, step, snap, asked, starts,
                    moved, alarmed>>
    BY <1>10 DEF Enter, stores, boot, history
  <2> QED
    BY <2>1, <2>2, <2>3, <2>4, <2>5, <2>6 DEF TypeOK, Reserved
<1>11. CASE Rebase
  <2>1. StreamTypeOK' /\ Counted'
    BY <1>11, <1>s, StreamKept DEF Rebase
  <2>2. UNCHANGED <<may, xqty, xentry, xstops, dbqty, mode, step, snap, asked, entries, starts,
                    moved, alarmed>> /\ mode \notin {"off", "boot"}
    BY <1>11 DEF Rebase, Running, exchange, boot, bounds, history
  <2>3. CASE book.kind = "none"
    BY <1>11, <2>1, <2>2, <2>3 DEF Rebase, TypeOK, Reserved
  <2>4. CASE book.kind # "none"
    <3>1. book \in Tracked /\ book.row > 0 /\ book.qty > 0
      BY <1>11, <2>4 DEF Rebase, TypeOK, Reserved
    <3>2. book' = [book EXCEPT !.kind = "open"] /\ due' = Append(due, "open") /\ w' = "stop"
          /\ rows' = rows \cup {[id |-> book.row, qty |-> book.qty]}
      BY <1>11, <2>4 DEF Rebase
    <3>3. book' \in Tracked
      BY <3>1, <3>2
    <3>4. rows' \subseteq [id : 1..MaxEntries, qty : Nat \ {0}]
      BY <3>1, <3>2 DEF TypeOK
    <3>5. due \in Seq({"open", "close"})
      BY DEF TypeOK
    <3>6. due' \in Seq({"open", "close"})
      BY <3>2, <3>5, AppendProperties
    <3> QED
      BY <2>1, <2>2, <3>2, <3>3, <3>4, <3>6 DEF TypeOK, Reserved
  <2> QED
    BY <2>3, <2>4
<1>12. CASE CancelEntry \/ LoseEntry
  <2>1. StreamTypeOK' /\ Counted'
    BY <1>12, <1>s, StreamKept DEF CancelEntry, LoseEntry
  <2> QED
    BY <1>12, <2>1, <1>b DEF CancelEntry, LoseEntry, exchange, stores, boot, bounds,
                          history, TypeOK, Reserved
<1>13. CASE PlaceStop
  <2>1. StreamTypeOK' /\ Counted'
    BY <1>13, <1>s, StreamKept DEF PlaceStop
  <2>2. xstops \in Seq(Quantities) /\ 1 \in Quantities /\ xstops' = Append(xstops, 1)
    BY <1>13 DEF PlaceStop, TypeOK
  <2>3. xstops' \in Seq(Quantities)
    BY <2>2, AppendProperties
  <2> QED
    BY <1>13, <2>1, <2>3 DEF PlaceStop, stores, boot, bounds, history, TypeOK, Reserved
<1>14. CASE Persist
  <2>1. StreamTypeOK' /\ Counted'
    BY <1>14, <1>s, StreamKept DEF Persist
  <2>2. due \in Seq({"open", "close"}) /\ due # <<>> /\ due' = Tail(due)
    BY <1>14 DEF Persist, TypeOK
  <2>3. due' \in Seq({"open", "close"})
    BY <2>2, HeadTailProperties
  <2> QED
    BY <1>14, <2>1, <2>3 DEF Persist, exchange, boot, work, bounds, history, TypeOK, Reserved
<1>15. CASE Deliver
  <2>1. StreamTypeOK' /\ Counted'
    BY <1>15, <1>s, ReceiveStep DEF Deliver
  <2>2. UNCHANGED <<may, xqty, xentry, xstops, dbqty, mode, step, snap, w, asked, entries,
                    starts, moved, alarmed>>
    BY <1>15 DEF Deliver, exchange, boot, work, bounds, history
  <2>3. due \in Seq({"open", "close"})
    BY DEF TypeOK
  <2>4. CASE Closes
    <3>1. book' = NoBook /\ rows' \subseteq rows /\ due' = Append(due, "close")
      BY <1>15, <2>4 DEF Deliver
    <3>2. due' \in Seq({"open", "close"})
      BY <2>3, <3>1, AppendProperties
    <3>3. book'.kind = "none"
      BY <3>1 DEF NoBook
    <3> QED
      BY <2>1, <2>2, <3>1, <3>2, <3>3, <1>b DEF TypeOK, Reserved
  <2>5. CASE ~Closes
    BY <1>15, <2>1, <2>2, <2>5 DEF Deliver, TypeOK, Reserved
  <2> QED
    BY <2>4, <2>5
<1>16. CASE Ask
  <2>1. StreamTypeOK' /\ Counted'
    BY <1>16, <1>s, StreamKept DEF Ask
  <2> QED
    BY <1>16, <2>1 DEF Ask, exchange, stores, boot, bounds, history, TypeOK, Reserved
<1>17. CASE Compare
  <2>1. UNCHANGED <<account, socket, published, drops, trip>>
        /\ safe' \subseteq {"stream", "drift"}
    BY <1>17, <1>s DEF Compare, StreamTypeOK
  <2>2. StreamTypeOK' /\ Counted'
    BY <1>s, <2>1 DEF account, socket, published, StreamTypeOK, Counted
  <2> QED
    BY <1>17, <2>2 DEF Compare, exchange, stores, boot, bounds, history, TypeOK, Reserved
<1>18. CASE Unanswered
  <2>1. StreamTypeOK' /\ Counted'
    BY <1>18, <1>s, StreamKept DEF Unanswered
  <2> QED
    BY <1>18, <2>1 DEF Unanswered, exchange, stores, boot, bounds, history, TypeOK, Reserved
<1>19. ASSUME Ends, UNCHANGED <<may, exchange, rows, dbqty, bounds, history>>
       PROVE  TypeOK' /\ Counted' /\ Reserved'
  <2>1. StreamTypeOK' /\ Counted'
    BY <1>19, <1>s, StreamEndsStep DEF Ends
  <2>2. due' \in Seq({"open", "close"})
    BY <1>19, EmptySeq DEF Ends
  <2>3. /\ UNCHANGED <<may, xqty, xentry, xstops, rows, dbqty, entries, starts, moved, alarmed>>
        /\ mode' = "off" /\ step' = "none" /\ snap' = NoSnap /\ book' = NoBook
        /\ w' = "idle" /\ asked' = NoAnswer
    BY <1>19 DEF Ends, exchange, bounds, history
  <2> QED
    BY <2>1, <2>2, <2>3, <1>b, <1>n DEF TypeOK, Reserved
<1>20. CASE Crash \/ Stopped
  BY <1>19, <1>20 DEF Crash, Stopped
<1>21. CASE Stop
  <2>1. StreamTypeOK' /\ Counted'
    BY <1>21, <1>s, StreamKept DEF Stop
  <2>2. xentry' \subseteq 1..MaxEntries /\ xstops' \in Seq(Quantities)
    BY <1>21, EmptySeq DEF Stop, TypeOK
  <2> QED
    BY <1>21, <2>1, <2>2 DEF Stop, stores, work, bounds, history, TypeOK, Reserved
<1>22. CASE StreamAlone \/ StreamFails
  <2>1. StreamTypeOK' /\ Counted'
    BY <1>22, <1>s, StreamStep DEF StreamAlone, StreamFails
  <2>2. UNCHANGED <<may, xqty, xentry, xstops, book, rows, dbqty, due, mode, step, snap, w, asked,
                    entries, starts, moved, alarmed>>
    BY <1>22 DEF StreamAlone, StreamFails, others, exchange, stores, boot, work, bounds, history
  <2> QED
    BY <2>1, <2>2 DEF TypeOK, Reserved
<1> QED
  BY <1>1, <1>2, <1>3, <1>4, <1>5, <1>6, <1>7, <1>8, <1>9, <1>10, <1>11, <1>12, <1>13, <1>14,
     <1>15, <1>16, <1>17, <1>18, <1>20, <1>21, <1>22 DEF Next

(***************************************************************************)
(* The start of a life.                                                    *)
(***************************************************************************)
\* Every step keeps what is known of how far the start has come.
LEMMA StartStep ==
  ASSUME TypeOK, Started, Next
  PROVE  Started'
<1> USE DEF Started, ProtectedAtStart, HasStop
<1>1. CASE FillEntry \/ Trigger \/ TradeByHand
  <2>1. moved' = TRUE /\ UNCHANGED <<mode, step, snap, book, alarmed>>
    BY <1>1 DEF FillEntry, Trigger, TradeByHand, Moves, boot
  <2> QED
    BY <2>1
<1>2. CASE Boot
  BY <1>2 DEF Boot
<1>3. CASE FetchPositions
  <2>1. step' = "orders" /\ mode' = mode /\ mode = "boot" /\ snap'.stops = <<>>
    BY <1>3 DEF FetchPositions, AtStep, Reading, NoSnap
  <2> QED
    BY <2>1
<1>4. CASE FetchOrders
  <2>1. step = "orders" /\ step' = "rebuild" /\ mode' = mode /\ UNCHANGED <<xstops, moved>>
    BY <1>4 DEF FetchOrders, AtStep, Reading, exchange
  <2>2. snap'.stops = xstops \/ snap'.stops = snap.stops
    <3>1. snap \in [qty : Nat, stops : Seq(Nat \ {0}), mismatch : BOOLEAN]
      BY DEF TypeOK
    <3>2. CASE snap' = [snap EXCEPT !.stops = xstops]
      BY <3>1, <3>2
    <3>3. CASE snap' = [snap EXCEPT !.mismatch = TRUE]
      BY <3>1, <3>3
    <3> QED
      BY <1>4, <3>2, <3>3 DEF FetchOrders
  <2> QED
    BY <2>1, <2>2
<1>5. CASE Rebuild
  <2>1. step = "rebuild" /\ step' = "protect" /\ UNCHANGED <<mode, xstops, moved>>
    BY <1>5 DEF Rebuild, AtStep, exchange, history
  <2>2. book'.kind # "none" => snap.qty # 0
    BY <1>5 DEF Rebuild, NoBook
  <2>3. snap'.stops = snap.stops /\ snap'.qty = snap.qty
    <3>1. snap \in [qty : Nat, stops : Seq(Nat \ {0}), mismatch : BOOLEAN]
      BY DEF TypeOK
    <3>2. \E m : snap' = [snap EXCEPT !.mismatch = m]
      BY <1>5 DEF Rebuild
    <3> QED
      BY <3>1, <3>2
  <2> QED
    BY <2>1, <2>2, <2>3
<1>6. CASE Protect
  <2>1. step = "protect" /\ step' = "finish" /\ UNCHANGED <<mode, book, moved>>
    BY <1>6 DEF Protect, AtStep
  <2>2. CASE snap.qty = 0 \/ HasStop
    BY <1>6, <2>1, <2>2 DEF Protect
  <2>3. CASE ~(snap.qty = 0 \/ HasStop) /\ xstops' = Append(xstops, snap.qty)
    <3>1. xstops \in Seq(Nat \ {0}) /\ snap.qty \in Nat \ {0}
      BY <2>3 DEF TypeOK
    <3>2. xstops' # <<>>
      BY <2>3, <3>1, AppendProperties
    <3> QED
      BY <2>1, <3>2
  <2>4. CASE ~(snap.qty = 0 \/ HasStop) /\ alarmed' = TRUE
    BY <2>1, <2>4
  <2> QED
    BY <1>6, <2>2, <2>3, <2>4 DEF Protect
<1>7. CASE Finish
  BY <1>7 DEF Finish
<1>8. CASE Crash \/ Stopped
  BY <1>8 DEF Crash, Stopped, Ends
<1>9. CASE Stop \/ Rebase \/ CancelEntry \/ LoseEntry \/ PlaceStop \/ Enter \/ Deliver
  <2>1. step = "none"
    BY <1>9 DEF Stop, Rebase, CancelEntry, LoseEntry, PlaceStop, Enter, Deliver, Running
  <2>2. step' = "none"
    BY <1>9, <2>1 DEF Stop, Rebase, CancelEntry, LoseEntry, PlaceStop, Enter, Deliver, boot
  <2> QED
    BY <2>2
<1>10. CASE Persist \/ Ask \/ Compare \/ Unanswered
  <2>1. UNCHANGED <<mode, step, snap, book, moved, alarmed, xstops>>
    BY <1>10 DEF Persist, Ask, Compare, Unanswered, exchange, boot, history
  <2> QED
    BY <2>1
<1>11. CASE StreamAlone \/ StreamFails
  <2>1. UNCHANGED <<mode, step, snap, book, moved, alarmed, xstops>>
    BY <1>11 DEF StreamAlone, StreamFails, others, exchange, boot, history
  <2> QED
    BY <2>1
<1> QED
  BY <1>1, <1>2, <1>3, <1>4, <1>5, <1>6, <1>7, <1>8, <1>9, <1>10, <1>11 DEF Next

(***************************************************************************)
(* The theorems.                                                           *)
(***************************************************************************)
\* The inductive invariant holds at first.
LEMMA InitInv == Init => IInv
<1> SUFFICES ASSUME Init PROVE IInv
  OBVIOUS
<1>1. StreamTypeOK /\ Counted
  <2>1. Len(trades) = 0 /\ trades \in Seq({"entry", "stop", "outside"})
        /\ feed \in Seq(DOMAIN trades)
    BY EmptySeq DEF Init, StreamInit
  <2>2. told \in [TradeIds -> Nat] /\ Counted
    BY DEF Init, StreamInit, Counted
  <2>3. delay \in 1..MaxDelay /\ wait \in 0..MaxDelay /\ Len(trades) <= MaxTrades
        /\ drops \in 0..MaxDrops
    BY <2>1, StreamAssumption DEF Init, StreamInit
  <2> QED
    BY <2>1, <2>2, <2>3 DEF Init, StreamInit, StreamTypeOK
<1>2. xstops \in Seq(Nat \ {0}) /\ due \in Seq({"open", "close"})
      /\ snap \in [qty : Nat, stops : Seq(Nat \ {0}), mismatch : BOOLEAN]
  BY EmptySeq DEF Init, NoSnap
<1>3. book \in [kind : {"none", "pending", "open"}, qty : Nat, row : 0..MaxEntries]
      /\ book.kind = "none"
  BY RecoveryAssumption DEF Init, NoBook
<1>4. entries \in 0..MaxEntries /\ starts \in 0..MaxStarts
  BY RecoveryAssumption DEF Init
<1>5. TypeOK /\ Reserved
  BY <1>1, <1>2, <1>3, <1>4 DEF Init, TypeOK, Reserved
<1>6. Started
  BY DEF Init, Started, ProtectedAtStart
<1> QED
  BY <1>1, <1>5, <1>6 DEF IInv

\* It is kept by every step.
LEMMA NextInv == IInv /\ [Next]_vars => IInv'
<1> SUFFICES ASSUME IInv, [Next]_vars PROVE IInv'
  OBVIOUS
<1>1. CASE Next
  BY <1>1, TypeStep, StartStep DEF IInv
<1>2. CASE UNCHANGED vars
  <2>1. StreamTypeOK' /\ Counted'
    BY <1>2, StreamKept DEF IInv, TypeOK, vars
  <2>2. UNCHANGED <<may, xqty, xentry, xstops, book, rows, dbqty, due, mode, step, snap, w,
                    asked, entries, starts, moved, alarmed>>
    BY <1>2 DEF vars, exchange, stores, boot, work, bounds, history
  <2> QED
    BY <2>1, <2>2 DEF IInv, TypeOK, Reserved, Started, ProtectedAtStart, HasStop
<1> QED
  BY <1>1, <1>2

\* The invariant holds in every execution.
LEMMA Invariance == Spec => []IInv
BY InitInv, NextInv, PTL DEF Spec

\* The variables keep their types for every account history and every delay: among them,
\* the wait between two attempts and the clock of the loss stay within their limits.
THEOREM TypeCorrect == Spec => []TypeOK
BY Invariance, PTL DEF IInv

\* No trade is published twice in a life of the process, however the socket's messages,
\* the REST request of a reconnect and its failures interleave.
THEOREM FillPublishedOnce == Spec => []FillOnce
<1>1. IInv => FillOnce
  <2> SUFFICES ASSUME IInv, NEW i \in TradeIds PROVE told[i] <= 1
    BY DEF FillOnce
  <2>1. told[i] \in Nat /\ told[i] <= IF i \in seen THEN 1 ELSE 0
    BY DEF IInv, TypeOK, StreamTypeOK, Counted
  <2> QED
    BY <2>1
<1> QED
  BY <1>1, Invariance, PTL

\* A position the start found is protected when it ends, or an operator was told: whatever
\* the last life left on the exchange, in SQLite and in the store, whichever calls fail.
THEOREM StartProtects == Spec => []ProtectedAtStart
<1>1. IInv => ProtectedAtStart
  BY DEF IInv, Started
<1> QED
  BY <1>1, Invariance, PTL
=============================================================================
