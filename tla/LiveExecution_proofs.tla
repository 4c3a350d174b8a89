------------------------- MODULE LiveExecution_proofs -------------------------
(***************************************************************************)
(* Theorems about LiveExecution, for every quantity, every number of parts *)
(* and of signals, and every choice of what the environment may do.        *)
(***************************************************************************)
EXTENDS LiveExecution, TLAPS

(***************************************************************************)
(* The inductive invariants.                                               *)
(***************************************************************************)
\* What the handlers know: a position tracked while a signal is handled is that signal's,
\* and none is tracked while an exit, a fill or a kill is being seen to.
Handlers ==
  /\ w.pc \in Handling => /\ w.sig = last /\ last \in Signals
                          /\ pos.kind # "none" => pos.sig = last
  /\ w.pc \in {"report", "stop", "target", "flatten"} => w.got > 0 /\ pos.kind # "pending"
  /\ w.pc \in {"oco", "unprotect", "kill"} => pos.kind = "none"
  /\ u # "idle" => pos.kind = "none"
  /\ adj.pc # "idle" => w.pc \notin {"stop", "target"} /\ prot.tracked
  /\ api # "idle" => shut /\ pos.kind = "none"
  /\ d.pc = "idle" => d.gone = {}

\* What the parts that are done may have bought.
Bought ==
  /\ w.sum <= Size * (w.part - 1)
  /\ ~Iceberg => w.part = 1
  /\ w.pc = "market" => w.got <= Size

\* A part of an entry that was not submitted yet.
Unsent(s, p) == \/ s > last
                \/ s = last /\ p > w.part
                \/ s = last /\ p = w.part /\ w.pc = "submit"

\* The exchange's entries: each is submitted once, and fills no further than its size.
Entries ==
  /\ \A s \in Signals, p \in Parts :
       filled[s][p] <= Size /\ (Unsent(s, p) => filled[s][p] = 0)
  /\ \A o \in resting : o.kind = "entry" => /\ ~Unsent(o.sig, o.part)
                                            /\ filled[o.sig][o.part] + o.qty <= Size
  /\ \A o1, o2 \in resting :
       o1.kind = "entry" /\ o2.kind = "entry" /\ o1.sig = o2.sig /\ o1.part = o2.part => o1 = o2

IInv == TypeOK /\ Handlers /\ Bought /\ Entries

(***************************************************************************)
(* Arithmetic of the parts.                                                *)
(***************************************************************************)
\* The parts of an entry are of equal size and make up its quantity.
LEMMA SizeOfParts ==
  /\ Size \in 1..Amount
  /\ \A p \in Parts : Size * (p - 1) + Size = Size * p /\ Size * p \in Nat
  /\ Iceberg => \A p \in Parts : Size * p <= Amount
<1> DEFINE part == Amount \div Chunks
<1>1. part \in Nat /\ Amount = part * Chunks
  BY ConstantsAssumption
<1>2. part > 0
  BY <1>1, ConstantsAssumption
<1> HIDE DEF part
<1>3. part <= part * Chunks
  BY <1>1, <1>2, ConstantsAssumption
<1>4. Size \in 1..Amount
  BY <1>1, <1>2, <1>3, ConstantsAssumption DEF Size, part
<1>5. ASSUME NEW p \in Parts PROVE Size * (p - 1) + Size = Size * p /\ Size * p \in Nat
  BY <1>4, ConstantsAssumption DEF Parts
<1>6. ASSUME Iceberg, NEW p \in Parts PROVE Size * p <= Amount
  <2>1. Size = part /\ p \in Nat /\ p <= Chunks
    BY <1>6, ConstantsAssumption DEF Size, part, Parts
  <2>2. part * p <= part * Chunks
    BY <1>1, <2>1, ConstantsAssumption
  <2> QED
    BY <2>1, <2>2, <1>1
<1> QED
  BY <1>4, <1>5, <1>6

\* Whatever became of a part, the handler goes on with the next part, or to the end of
\* the entry, and what it has added up stays within the parts done.
LEMMA AnswerShape ==
  ASSUME TypeOK, Bought, NEW got \in 0..Size,
         NEW st \in {"none", "open", "filled", "canceled"},
         NEW a \in {Answered(got, st), Raised}
  PROVE  /\ a \in Workers /\ a.sig = w.sig
         /\ \/ a.pc \in {"settle", "rollback"} /\ a.part = w.part
            \/ a.pc = "submit" /\ a.part = w.part + 1
         /\ a.sum <= Size * (a.part - 1)
         /\ ~Iceberg => a.part = 1
<1> USE DEF Workers, Handling, Resigned
<1>0. w \in Workers /\ Size \in 1..Amount /\ Amount \in Nat
  BY SizeOfParts, ConstantsAssumption DEF TypeOK
<1>1. ASSUME Iceberg, NEW g \in 0..Size
      PROVE  /\ NextPart(g) \in Workers /\ NextPart(g).sig = w.sig
             /\ \/ NextPart(g).pc = "settle" /\ NextPart(g).part = w.part
                \/ NextPart(g).pc = "submit" /\ NextPart(g).part = w.part + 1
             /\ NextPart(g).sum <= Size * (NextPart(g).part - 1)
  <2>1. w.part \in Parts /\ w.part \in Nat /\ w.sum \in Nat
    BY <1>0 DEF Parts
  <2>2. w.sum + g <= Size * w.part /\ Size * w.part <= Amount /\ Size * w.part \in Nat
    <3>1. Size * (w.part - 1) + Size = Size * w.part /\ Size * w.part \in Nat
      BY <2>1, SizeOfParts
    <3>2. Size * w.part <= Amount
      BY <2>1, <1>1, SizeOfParts
    <3>3. w.sum <= Size * (w.part - 1) /\ Size * (w.part - 1) \in Int
      BY <1>0, <2>1 DEF Bought
    <3> QED
      BY <1>0, <2>1, <3>1, <3>2, <3>3
  <2>3. w.sum + g \in 0..Amount
    BY <1>0, <2>1, <2>2
  <2>4. CASE w.part < Chunks
    <3>1. w.part + 1 \in Parts
      BY <2>1, <2>4, ConstantsAssumption DEF Parts
    <3>2. NextPart(g) = [w EXCEPT !.pc = "submit", !.part = @ + 1, !.sum = w.sum + g]
      BY <2>4 DEF NextPart
    <3>3. PICK n : n = NextPart(g)
      OBVIOUS
    <3>4. n \in Workers /\ n.sig = w.sig /\ n.pc = "submit" /\ n.part = w.part + 1 /\ n.sum = w.sum + g
      BY <1>0, <2>3, <3>1, <3>2, <3>3
    <3>5. n.part - 1 = w.part
      BY <2>1, <3>4
    <3> QED
      BY <2>2, <3>3, <3>4, <3>5
  <2>5. CASE ~(w.part < Chunks)
    <3>1. NextPart(g) = [w EXCEPT !.pc = "settle", !.got = w.sum + g,
                                  !.st = IF w.sum + g = 0 THEN "canceled" ELSE "filled"]
      BY <2>5 DEF NextPart
    <3> QED
      BY <1>0, <2>3, <3>1 DEF Bought
  <2> QED
    BY <2>4, <2>5
<1>2. CASE Iceberg
  BY <1>0, <1>1, <1>2 DEF Answered, Raised
<1>3. CASE ~Iceberg
  <2>1. a \in {[w EXCEPT !.pc = "settle", !.got = got, !.st = st], [w EXCEPT !.pc = "rollback"]}
    BY <1>3 DEF Answered, Raised
  <2>2. got \in 0..Amount
    BY <1>0
  <2>3. a \in Workers /\ a.sig = w.sig /\ a.part = w.part /\ a.sum = w.sum
        /\ a.pc \in {"settle", "rollback"}
    BY <1>0, <2>1, <2>2
  <2> QED
    BY <1>3, <2>3 DEF Bought
<1> QED
  BY <1>2, <1>3

(***************************************************************************)
(* What the steps do to the orders.                                        *)
(***************************************************************************)
LEMMA CancelledOnly ==
  ASSUME NEW orders, CancelQuietly(orders)
  PROVE  resting' \subseteq resting
BY DEF CancelQuietly

\* A cancel that raises adds no order.
LEMMA FailedCancelOnly ==
  ASSUME NEW orders, resting' \in AfterFailedCancel(orders)
  PROVE  resting' \subseteq resting
BY DEF AfterFailedCancel

\* What the placer has ids of is resting, and of the kinds asked for.
LEMMA NamedProtect ==
  ASSUME NEW kinds
  PROVE  Named(kinds) \subseteq {o \in resting : o.kind \in kinds}
BY DEF Named

\* A step that submits no entry and goes back to no part keeps the entries as they were.
LEMMA EntriesKept ==
  ASSUME TypeOK, Entries, UNCHANGED <<may, filled, last>>,
         \A o \in resting' : o.kind = "entry" => o \in resting,
         \/ w'.part = w.part /\ (w'.pc = "submit" => w.pc = "submit")
         \/ w'.part = w.part + 1
  PROVE  Entries'
<1>0. w.part \in Nat /\ \A o \in resting : o.part \in Nat
  BY DEF TypeOK, Workers, Orders, Parts
<1>1. \A s \in Signals, p \in Parts : Unsent(s, p)' => Unsent(s, p)
  BY <1>0 DEF Unsent, Parts
<1>2. \A o \in resting' : o.kind = "entry" => (Unsent(o.sig, o.part)' => Unsent(o.sig, o.part))
  BY <1>0 DEF Unsent
<1>3. Size' = Size
  BY DEF Size, Iceberg
<1> QED
  BY <1>1, <1>2, <1>3 DEF Entries

(***************************************************************************)
(* The invariant holds at the start.                                       *)
(***************************************************************************)
LEMMA InitInv == Init => IInv
<1> SUFFICES ASSUME Init PROVE IInv
  OBVIOUS
<1>1. 1 \in Parts /\ Amount \in Nat /\ MaxSignals \in Nat
  BY ConstantsAssumption DEF Parts
<1>2. TypeOK
  <2>1. filled \in [Signals -> [Parts -> 0..Amount]] /\ held \in Nat
        /\ feed \subseteq Updates
    BY <1>1 DEF Init
  <2>2. w \in Workers /\ adj \in Adjustments /\ d \in Closes
    BY <1>1 DEF Init, Workers, Resigned, Adjustments, NoClose, Closes
  <2>3. pos \in Positions /\ prot \in Protections /\ last \in 0..MaxSignals
    BY <1>1 DEF Init, NoPosition, NoOrders, Positions, Protections
  <2> QED
    BY <2>1, <2>2, <2>3 DEF Init, TypeOK
<1>3. Handlers
  BY DEF Init, Handlers, Handling, NoAdjust, NoClose
<1>4. Bought
  BY SizeOfParts DEF Init, Bought
<1>5. Entries
  BY SizeOfParts DEF Init, Entries
<1> QED
  BY <1>2, <1>3, <1>4, <1>5 DEF IInv

(***************************************************************************)
(* Every step keeps the types.                                             *)
(***************************************************************************)
LEMMA GotoType ==
  ASSUME w \in Workers, NEW pc \in Handling \cup Resigned, Goto(pc)
  PROVE  /\ w' \in Workers /\ w'.pc = pc /\ w'.sig = w.sig /\ w'.part = w.part
         /\ w'.sum = w.sum /\ w'.got = w.got /\ w'.st = w.st
BY DEF Goto, Workers, Resigned

\* A part that is submitted is an order.
LEMMA EntryType ==
  ASSUME IInv, w.pc = "submit"
  PROVE  [Order("entry", w.sig, Size) EXCEPT !.part = w.part] \in Orders
<1>1. w.sig \in Signals /\ w.part \in Parts /\ Size \in Nat \ {0} /\ 1 \in Parts
  BY SizeOfParts, ConstantsAssumption DEF IInv, Handlers, Handling, TypeOK, Workers, Parts
<1> QED
  BY <1>1 DEF Order, Orders, Kinds

\* So are the stop and the target for what filled.
LEMMA ProtectionType ==
  ASSUME IInv, w.pc \in {"stop", "target"}, NEW k \in {"stop", "target"}
  PROVE  Order(k, w.sig, w.got) \in Orders
<1>1. w.sig \in Signals /\ w.got \in Nat \ {0} /\ 1 \in Parts
  BY ConstantsAssumption DEF IInv, Handlers, Handling, TypeOK, Workers, Parts
<1> QED
  BY <1>1 DEF Order, Orders, Kinds

\* What fetch_order answers is within the size of the order that was submitted.
LEMMA FetchedType ==
  ASSUME IInv, w.pc \in Handling
  PROVE  /\ FilledOfIt \in 0..Size
         /\ \E st \in {"open", "filled", "canceled"} : Fetched = Answered(FilledOfIt, st)
         /\ Unfetched = Answered(0, "open") /\ 0 \in 0..Size
<1>1. w.sig \in Signals /\ w.part \in Parts
  BY DEF IInv, Handlers, TypeOK, Workers
<1>2. filled[w.sig][w.part] \in Nat /\ filled[w.sig][w.part] <= Size
  BY <1>1, ConstantsAssumption DEF IInv, TypeOK, Entries
<1> QED
  BY <1>2, SizeOfParts DEF FilledOfIt, Fetched, Unfetched

\* While a stop or target is adjusted, the placer tracks the orders of a signal.
LEMMA AdjustType ==
  ASSUME TypeOK, Handlers, adj.pc # "idle"
  PROVE  /\ adj \in [pc : {"cancel", "place"}, kind : {"stop", "target"}, qty : Nat \ {0}]
         /\ prot \in [tracked : {TRUE}, sig : Signals, stop : Ids, target : Ids]
<1>1. adj \in Adjustments /\ adj # NoAdjust
  BY DEF TypeOK, NoAdjust
<1>2. prot \in Protections /\ prot # NoOrders
  BY DEF TypeOK, Handlers, NoOrders
<1> QED
  BY <1>1, <1>2 DEF Adjustments, Protections

\* Every step of the bot, the exchange and the operator keeps the types.
LEMMA TypeStep == IInv /\ [Next]_vars => TypeOK'
<1> SUFFICES ASSUME IInv, [Next]_vars PROVE TypeOK'
  OBVIOUS
<1> USE DEF exchange, others, history, Handling, Resigned
<1>0. /\ TypeOK /\ w \in Workers /\ Amount \in Nat /\ MaxSignals \in Nat /\ 1 \in Parts
      /\ NoPosition \in Positions /\ NoOrders \in Protections /\ NoClose \in Closes
  <2>1. NoOrders \in Protections
    BY DEF Protections
  <2>2. NoPosition \in Positions /\ NoClose \in Closes
    BY ConstantsAssumption DEF NoPosition, Positions, NoClose, Closes
  <2> QED
    BY <2>1, <2>2, ConstantsAssumption DEF IInv, TypeOK, Parts
<1>1. CASE Approve
  <2>1. last' \in 0..MaxSignals /\ pos' \in Positions /\ w' \in Workers
    BY <1>0, <1>1 DEF Approve, TypeOK, Positions, Workers
  <2> QED
    BY <1>0, <1>1, <2>1 DEF Approve, TypeOK
<1>2. CASE HandleKill
  <2>1. w' \in Workers
    BY <1>0, <1>2, GotoType DEF HandleKill
  <2> QED
    BY <1>0, <1>2, <2>1 DEF HandleKill, TypeOK
<1>3. CASE Submit
  <2>1. resting' \subseteq Orders
    BY <1>0, <1>3, EntryType DEF Submit, TypeOK
  <2>2. w' \in Workers
    BY <1>0, <1>3, GotoType, AnswerShape, SizeOfParts DEF Submit, IInv
  <2> QED
    BY <1>0, <1>3, <2>1, <2>2 DEF Submit, TypeOK
<1>4. CASE Poll \/ FetchFinal
  <2>1. w.pc \in Handling /\ TypeOK /\ Bought
    BY <1>4 DEF Poll, FetchFinal, IInv
  <2>2. Fetched \in Workers /\ Unfetched \in Workers
    BY <2>1, FetchedType, AnswerShape
  <2>3. w' \in Workers
    BY <1>0, <1>4, <2>2 DEF Poll, FetchFinal, Workers
  <2> QED
    BY <1>0, <1>4, <2>3 DEF Poll, FetchFinal, TypeOK
<1>5. CASE CancelEntry \/ DropOrder
  <2>1. resting' \subseteq resting
    BY <1>5, FailedCancelOnly DEF CancelEntry, DropOrder
  <2>2. w' \in Workers
    BY <1>0, <1>5, GotoType DEF CancelEntry, DropOrder
  <2>3. w.sig \in Signals
    BY <1>5 DEF CancelEntry, DropOrder, IInv, Handlers
  <2>4. shut' \in BOOLEAN /\ alarmed' \subseteq Signals /\ lapsed' \subseteq Signals
    BY <1>0, <1>5, <2>3 DEF CancelEntry, DropOrder, Alarm, TypeOK
  <2> QED
    BY <1>0, <1>5, <2>1, <2>2, <2>4 DEF CancelEntry, DropOrder, TypeOK
<1>6. CASE Refetch
  <2>1. FilledOfIt \in 0..Size /\ 0 \in 0..Size /\ Size \in 1..Amount
    BY <1>6, FetchedType, SizeOfParts DEF Refetch
  <2>2. PICK f \in 0..Size : w' = [w EXCEPT !.pc = "market", !.got = Size - f]
    BY <1>6, <2>1 DEF Refetch
  <2>3. Size - f \in 0..Amount
    BY <1>0, <2>1
  <2>4. w' \in Workers
    BY <1>0, <2>2, <2>3 DEF Workers
  <2> QED
    BY <1>0, <1>6, <2>4 DEF Refetch, TypeOK
<1>7. CASE MarketRemainder
  <2>1. w.got \in 0..Size
    BY <1>0, <1>7, SizeOfParts DEF MarketRemainder, IInv, Bought, Workers
  <2>2. w' \in Workers
    BY <1>0, <1>7, <2>1, AnswerShape DEF MarketRemainder, IInv
  <2>3. held' \in Nat
    BY <1>0, <1>7, <2>1, SizeOfParts DEF MarketRemainder, TypeOK
  <2> QED
    BY <1>0, <1>7, <2>2, <2>3 DEF MarketRemainder, TypeOK
<1>8. CASE Rebase \/ Report \/ Unfilled \/ Rollback
  <2>1. w' \in Workers
    BY <1>0, <1>8, GotoType DEF Rebase, Report, Unfilled, Rollback
  <2>2. [pos EXCEPT !.kind = "open", !.qty = w.got] \in Positions
    <3>1. w.got \in Nat
      BY <1>0 DEF Workers
    <3> QED
      BY <1>0, <3>1 DEF TypeOK, Positions
  <2>3. pos' \in Positions
    BY <1>0, <1>8, <2>2 DEF Rebase, Report, Unfilled, Rollback, TypeOK
  <2> QED
    BY <1>0, <1>8, <2>1, <2>3 DEF Rebase, Report, Unfilled, Rollback, TypeOK
<1>9. CASE PlaceStop
  <2>1. resting' \subseteq Orders
    BY <1>0, <1>9, ProtectionType DEF PlaceStop, TypeOK
  <2>2. w' \in Workers
    BY <1>0, <1>9, GotoType DEF PlaceStop
  <2>3. prot' \in Protections
    <3>1. w.sig \in Signals /\ prot \in Protections
      BY <1>0, <1>9 DEF PlaceStop, IInv, Handlers, TypeOK
    <3>2. PICK n \in Signals : n = w.sig
      BY <3>1
    <3>3. prot' = prot \/ prot' = [NoOrders EXCEPT !.tracked = TRUE, !.sig = n]
      BY <1>9, <3>2 DEF PlaceStop
    <3>4. CASE prot' = [NoOrders EXCEPT !.tracked = TRUE, !.sig = n]
      BY <3>4 DEF NoOrders, Protections, Ids
    <3> QED
      BY <3>1, <3>3, <3>4
  <2>4. alarmed' \subseteq Signals
    BY <1>0, <1>9 DEF PlaceStop, Alarm, TypeOK, IInv, Handlers
  <2> QED
    BY <1>0, <1>9, <2>1, <2>2, <2>3, <2>4 DEF PlaceStop, TypeOK
<1>10. CASE PlaceTarget
  <2>1. resting' \subseteq Orders
    BY <1>0, <1>10, ProtectionType DEF PlaceTarget, TypeOK
  <2>2. w' \in Workers
    BY <1>0, <1>10, GotoType DEF PlaceTarget
  <2>3. prot' \in Protections
    BY <1>0, <1>10 DEF PlaceTarget, IInv, Handlers, Protections, Ids
  <2> QED
    BY <1>0, <1>10, <2>1, <2>2, <2>3 DEF PlaceTarget, TypeOK
<1>11. CASE Flatten
  <2>1. w' \in Workers
    BY <1>0, <1>11, GotoType DEF Flatten
  <2>2. held' \in Nat
    BY <1>0, <1>11 DEF Flatten, Least, TypeOK, Workers
  <2>3. alarmed' \subseteq Signals
    BY <1>0, <1>11 DEF Flatten, Alarm, TypeOK, IInv, Handlers
  <2> QED
    BY <1>0, <1>11, <2>1, <2>2, <2>3 DEF Flatten, TypeOK
<1>12. CASE FinishExit \/ Unprotect \/ FinishKill
  <2>1. w' \in Workers
    BY <1>0, <1>12, GotoType DEF FinishExit, Unprotect, FinishKill
  <2>2. resting' \subseteq resting
    BY <1>12, CancelledOnly DEF FinishExit, Unprotect, FinishKill, CancelOpposite
  <2>3. prot' \in Protections
    BY <1>0, <1>12 DEF FinishExit, Unprotect, FinishKill, CancelOpposite, TypeOK
  <2> QED
    BY <1>0, <1>12, <2>1, <2>2, <2>3 DEF FinishExit, Unprotect, FinishKill, TypeOK
<1>13. ASSUME NEW k \in {"stop", "target"}, Tick(k) \/ HandleExit(k) PROVE TypeOK'
  <2>1. w' \in Workers
    BY <1>0, <1>13 DEF Tick, HandleExit, Workers
  <2> QED
    BY <1>0, <1>13, <2>1 DEF Tick, HandleExit, TypeOK
<1>14. ASSUME NEW o \in resting, ExpireEntry(o) \/ Trigger(o) PROVE TypeOK'
  <2>1. resting' \subseteq resting /\ o \in Orders
    BY <1>0, <1>14 DEF ExpireEntry, Trigger, TypeOK
  <2>2. held' \in Nat
    BY <1>0, <1>14, <2>1 DEF ExpireEntry, Trigger, Least, TypeOK, Orders
  <2>3. feed' \subseteq Updates
    BY <1>0, <1>14, <2>1 DEF ExpireEntry, Trigger, TypeOK, Orders, Updates, Kinds
  <2> QED
    BY <1>0, <1>14, <2>1, <2>2, <2>3 DEF ExpireEntry, Trigger, TypeOK
<1>15. ASSUME NEW o \in resting, NEW q \in 1..Amount, FillEntry(o, q) PROVE TypeOK'
  <2>1. /\ o \in Orders /\ q \in 1..o.qty /\ o.sig \in Signals /\ o.part \in Parts
        /\ filled[o.sig][o.part] \in Nat /\ filled[o.sig][o.part] + o.qty <= Size
        /\ Size \in 1..Amount
    BY <1>0, <1>15, SizeOfParts DEF FillEntry, IInv, Entries, TypeOK, Orders
  <2>2. filled[o.sig][o.part] + q \in 1..Amount
    BY <1>0, <2>1 DEF Orders
  <2>3. filled' \in [Signals -> [Parts -> 0..Amount]]
        /\ filled'[o.sig][o.part] = filled[o.sig][o.part] + q
    <3>1. filled' = [filled EXCEPT ![o.sig][o.part] = @ + q] /\ filled \in [Signals -> [Parts -> 0..Amount]]
      BY <1>0, <1>15 DEF FillEntry, TypeOK
    <3>2. filled[o.sig][o.part] + q \in 0..Amount
      BY <2>2
    <3> QED
      BY <2>1, <3>1, <3>2
  <2>4. resting' \subseteq Orders
    <3>1. \A r \in {o.qty - q} \ {0} : [o EXCEPT !.qty = r] \in Orders
      BY <2>1 DEF Orders
    <3> QED
      BY <1>0, <1>15, <3>1 DEF FillEntry, TypeOK
  <2>5. feed' \subseteq Updates
    <3> DEFINE m == [o EXCEPT !.kind = "part", !.qty = filled'[o.sig][o.part]]
    <3>1. m \in Updates
      <4>1. \A n \in Nat \ {0} : [o EXCEPT !.kind = "part", !.qty = n] \in Updates
        BY <2>1 DEF Orders, Updates
      <4>2. filled'[o.sig][o.part] \in Nat \ {0}
        BY <2>2, <2>3
      <4> QED
        BY <4>1, <4>2
    <3>2. feed' \subseteq feed \cup {m}
      BY <1>15 DEF FillEntry
    <3> HIDE DEF m
    <3> QED
      BY <1>0, <3>1, <3>2 DEF TypeOK
  <2>6. held' \in Nat
    BY <1>0, <1>15 DEF FillEntry, TypeOK
  <2> QED
    BY <1>0, <1>15, <2>3, <2>4, <2>5, <2>6 DEF FillEntry, TypeOK
<1>16. ASSUME NEW m \in feed, DeliverTrigger(m) \/ DeliverPart(m) PROVE TypeOK'
  <2>1. m \in Updates /\ feed' \subseteq feed
    BY <1>0, <1>16 DEF DeliverTrigger, DeliverPart, TypeOK
  <2>2. u' \in {"idle", "stop", "target"}
    BY <1>0, <1>16, <2>1 DEF DeliverTrigger, DeliverPart, TypeOK, Updates
  <2>3. adj' \in Adjustments
    BY <1>0, <1>16, <2>1 DEF DeliverTrigger, DeliverPart, TypeOK, Adjustments, Updates
  <2> QED
    BY <1>0, <1>16, <2>1, <2>2, <2>3 DEF DeliverTrigger, DeliverPart, TypeOK
<1>17. CASE FinishTrigger
  <2>1. resting' \subseteq resting
    BY <1>17, CancelledOnly DEF FinishTrigger, CancelOpposite
  <2> QED
    BY <1>0, <1>17, <2>1 DEF FinishTrigger, CancelOpposite, TypeOK
<1>18. CASE AdjustCancel \/ AdjustPlace
  <2>1. /\ adj \in [pc : {"cancel", "place"}, kind : {"stop", "target"}, qty : Nat \ {0}]
        /\ prot \in [tracked : {TRUE}, sig : Signals, stop : Ids, target : Ids]
    BY <1>0, <1>18, AdjustType DEF AdjustCancel, AdjustPlace, IInv
  <2>2. adj' \in Adjustments
    BY <1>18, <2>1 DEF AdjustCancel, AdjustPlace, AdjustNext, Adjustments
  <2>3. Order(adj.kind, prot.sig, adj.qty) \in Orders
    BY <1>0, <2>1 DEF Order, Orders, Kinds
  <2>4. resting' \subseteq Orders
    BY <1>0, <1>18, <2>3, FailedCancelOnly DEF AdjustCancel, AdjustPlace, TypeOK
  <2>5. prot' \in Protections
    BY <1>0, <1>18, <2>1 DEF AdjustCancel, AdjustPlace, TypeOK, Protections, Ids
  <2>6. lapsed' \subseteq Signals
    BY <1>0, <1>18, <2>1 DEF AdjustCancel, AdjustPlace, StopsOf, TypeOK, Orders
  <2> QED
    BY <1>0, <1>18, <2>2, <2>4, <2>5, <2>6 DEF AdjustCancel, AdjustPlace, TypeOK
<1>19. CASE StartClose \/ BookClose
  <2>1. d' \in Closes
    <3>1. CASE BookClose
      BY <1>0, <3>1 DEF BookClose
    <3>2. CASE StartClose
      <4>1. pos.qty \in Nat
        BY <1>0 DEF TypeOK, Positions
      <4> QED
        BY <1>0, <3>2, <4>1 DEF StartClose, Closes
    <3> QED
      BY <1>19, <3>1, <3>2
  <2> QED
    BY <1>0, <1>19, <2>1 DEF StartClose, BookClose, TypeOK
<1>20. CASE SendClose \/ CancelProtection
  <2>1. resting' \subseteq resting
    BY <1>20, CancelledOnly DEF SendClose, CancelProtection
  <2>2. held' \in Nat
    BY <1>0, <1>20 DEF SendClose, CancelProtection, TypeOK, Least, Closes
  <2>3. StopsOf(resting \ resting') \subseteq Signals
    BY <1>0 DEF StopsOf, TypeOK, Orders
  <2>4. d' \in Closes /\ lapsed' \subseteq Signals
    <3>1. d \in Closes /\ NoClose \in Closes /\ lapsed \subseteq Signals
      BY <1>0 DEF TypeOK, NoClose, Closes
    <3>2. CASE SendClose
      BY <3>1, <3>2 DEF SendClose, Closes
    <3>3. CASE CancelProtection
      BY <2>3, <3>1, <3>3 DEF CancelProtection, Closes
    <3> QED
      BY <1>20, <3>2, <3>3
  <2> QED
    BY <1>0, <1>20, <2>1, <2>2, <2>4 DEF SendClose, CancelProtection, TypeOK
<1>21. CASE Kill \/ Release
  BY <1>0, <1>21 DEF Kill, Release, TypeOK
<1>22. CASE ApiCancelsOrders \/ ApiForgets
  <2>1. resting' \subseteq resting
    BY <1>22, CancelledOnly DEF ApiCancelsOrders, ApiForgets
  <2> QED
    BY <1>0, <1>22, <2>1 DEF ApiCancelsOrders, ApiForgets, TypeOK
<1>23. CASE UNCHANGED vars
  BY <1>0, <1>23 DEF vars, TypeOK
<1> QED
  BY <1>1, <1>2, <1>3, <1>4, <1>5, <1>6, <1>7, <1>8, <1>9, <1>10, <1>11, <1>12, <1>13, <1>14,
     <1>15, <1>16, <1>17, <1>18, <1>19, <1>20, <1>21, <1>22, <1>23 DEF Next, Work, Calls

(***************************************************************************)
(* Every step keeps the rest of the invariant.                             *)
(***************************************************************************)
LEMMA HandlersStep == IInv /\ [Next]_vars => Handlers'
<1> SUFFICES ASSUME IInv, [Next]_vars PROVE Handlers'
  OBVIOUS
<1> USE DEF exchange, others, Handling, Resigned
<1>0. TypeOK /\ Handlers /\ Bought /\ w \in Workers
  BY DEF IInv, TypeOK
<1>1. CASE Approve
  <2>1. last' \in Signals /\ w'.pc = "submit" /\ w'.sig = last' /\ pos'.sig = last'
        /\ pos'.kind = "pending" /\ ~shut /\ u' = u /\ u = "idle" /\ api' = api /\ pos.kind = "none"
        /\ adj' = adj /\ adj.pc = "idle" /\ d' = d
    BY <1>0, <1>1, ConstantsAssumption DEF Approve, TypeOK, Signals
  <2>2. api = "idle"
    BY <1>0, <2>1 DEF Handlers
  <2> QED
    BY <1>0, <2>1, <2>2 DEF Handlers
<1>2. CASE HandleKill \/ BookClose \/ Kill \/ Rollback \/ Flatten
  <2>1. CASE HandleKill
    BY <1>0, <2>1, GotoType DEF HandleKill, Handlers, NoPosition
  <2>2. CASE BookClose \/ Kill
    BY <1>0, <2>2 DEF BookClose, Kill, Handlers, NoPosition, NoClose
  <2>3. CASE Rollback
    BY <1>0, <2>3, GotoType DEF Rollback, Handlers, NoPosition
  <2>4. CASE Flatten
    BY <1>0, <2>4, GotoType DEF Flatten, Handlers, NoPosition
  <2> QED
    BY <1>2, <2>1, <2>2, <2>3, <2>4
<1>3. CASE Submit \/ Poll \/ FetchFinal \/ MarketRemainder
  <2>1. /\ w.pc \in {"submit", "poll", "final", "market"}
        /\ UNCHANGED <<last, pos, u, adj, prot, api, shut, d>>
    BY <1>3 DEF Submit, Poll, FetchFinal, MarketRemainder
  <2>2. Fetched.pc \in Handling \ {"report", "stop", "target", "flatten"} /\ Fetched.sig = w.sig
        /\ Unfetched.pc \in Handling \ {"report", "stop", "target", "flatten"}
        /\ Unfetched.sig = w.sig
    BY <1>0, <2>1, FetchedType, AnswerShape
  <2>3. ASSUME w.pc = "market"
        PROVE  Answered(w.got, "filled").pc \in Handling \ {"report", "stop", "target", "flatten"}
               /\ Answered(w.got, "filled").sig = w.sig
    <3>1. w.got \in 0..Size
      BY <1>0, <2>3, SizeOfParts DEF Bought, Workers
    <3> QED
      BY <1>0, <3>1, AnswerShape
  <2>4. Raised.pc \in Handling \ {"report", "stop", "target", "flatten"} /\ Raised.sig = w.sig
    <3>1. 0 \in 0..Size
      BY SizeOfParts
    <3> QED
      BY <1>0, <3>1, AnswerShape
  <2>5. w'.pc \in Handling \ {"report", "stop", "target", "flatten"} /\ w'.sig = w.sig
    BY <1>0, <1>3, <2>2, <2>3, <2>4, GotoType
       DEF Submit, Poll, FetchFinal, MarketRemainder, Workers
  <2> QED
    BY <1>0, <2>1, <2>5 DEF Handlers
<1>4. CASE CancelEntry \/ DropOrder
  <2>1. CASE CancelEntry
    BY <1>0, <2>1, GotoType DEF CancelEntry, Handlers
  <2>2. CASE DropOrder
    BY <1>0, <2>2, GotoType DEF DropOrder, Handlers
  <2> QED
    BY <1>4, <2>1, <2>2
<1>5. CASE Refetch \/ Unfilled
  <2>1. CASE Refetch
    BY <1>0, <2>1 DEF Refetch, Handlers, Workers
  <2>2. CASE Unfilled
    BY <1>0, <2>2, GotoType DEF Unfilled, Handlers
  <2> QED
    BY <1>5, <2>1, <2>2
<1>6. CASE Rebase
  <2>1. UNCHANGED <<last, u, adj, prot, api, shut, d>> /\ w.pc = "settle" /\ w.got > 0
    BY <1>6 DEF Rebase
  <2>2. CASE pos.kind = "none"
    BY <1>0, <1>6, <2>1, <2>2, GotoType DEF Rebase, Handlers
  <2>3. CASE pos.kind # "none"
    <3>1. pos'.sig = pos.sig /\ pos'.kind = "open"
      BY <1>0, <1>6, <2>3 DEF Rebase, TypeOK, Positions
    <3>2. w'.pc = "report" /\ w'.sig = w.sig /\ w'.got = w.got
      BY <1>0, <1>6, <2>3, GotoType DEF Rebase
    <3> QED
      BY <1>0, <2>1, <2>3, <3>1, <3>2 DEF Handlers
  <2> QED
    BY <2>2, <2>3
<1>7. CASE Report \/ PlaceStop \/ PlaceTarget
  <2>3. CASE Report
    BY <1>0, <2>3, GotoType DEF Report, PlacerFree, Handlers
  <2>1. CASE PlaceStop
    BY <1>0, <2>1, GotoType DEF PlaceStop, Handlers
  <2>2. CASE PlaceTarget
    BY <1>0, <2>2, GotoType DEF PlaceTarget, Handlers
  <2> QED
    BY <1>7, <2>1, <2>2, <2>3
<1>8. CASE FinishExit \/ Unprotect \/ FinishKill
  <2>1. CASE FinishExit \/ Unprotect
    BY <1>0, <2>1, GotoType DEF FinishExit, CancelOpposite, Unprotect, PlacerFree, Handlers
  <2>2. CASE FinishKill
    BY <1>0, <2>2, GotoType DEF FinishKill, Handlers
  <2> QED
    BY <1>8, <2>1, <2>2
<1>9. ASSUME NEW k \in {"stop", "target"}, Tick(k) \/ HandleExit(k) PROVE Handlers'
  <2>1. CASE Tick(k)
    BY <1>0, <2>1 DEF Tick, Handlers
  <2>2. CASE HandleExit(k)
    <3>1. /\ UNCHANGED <<last, u, adj, prot, api, shut, d>> /\ pos'.kind = "none"
          /\ w'.pc \in {"idle", "oco"}
      <4>1. CASE pos.kind = "none"
        BY <2>2, <4>1 DEF HandleExit
      <4>2. CASE pos.kind # "none"
        <5>1. /\ w' = [w EXCEPT !.pc = "oco", !.st = k] /\ pos' = NoPosition
              /\ UNCHANGED <<last, u, adj, prot, api, shut, d>>
          BY <2>2, <4>2 DEF HandleExit
        <5>2. w'.pc = "oco"
          BY <1>0, <5>1 DEF Workers
        <5> QED
          BY <5>1, <5>2 DEF NoPosition
      <4> QED
        BY <4>1, <4>2
    <3> QED
      BY <1>0, <3>1 DEF Handlers
  <2> QED
    BY <1>9, <2>1, <2>2
<1>10. ASSUME NEW o \in resting, NEW q,
              ExpireEntry(o) \/ Trigger(o) \/ FillEntry(o, q)
       PROVE  Handlers'
  BY <1>0, <1>10 DEF ExpireEntry, Trigger, FillEntry, Handlers
<1>11. ASSUME NEW m \in feed, DeliverTrigger(m) \/ DeliverPart(m) PROVE Handlers'
  <2>1. CASE DeliverTrigger(m)
    BY <1>0, <2>1 DEF DeliverTrigger, Handlers, NoPosition
  <2>2. CASE DeliverPart(m)
    BY <1>0, <2>2 DEF DeliverPart, PlacerFree, Handlers
  <2> QED
    BY <1>11, <2>1, <2>2
<1>12. CASE FinishTrigger \/ AdjustCancel \/ AdjustPlace
  <2>1. CASE FinishTrigger
    BY <1>0, <2>1 DEF FinishTrigger, CancelOpposite, PlacerFree, Handlers
  <2>2. CASE AdjustCancel
    BY <1>0, <2>2 DEF AdjustCancel, Handlers
  <2>3. CASE AdjustPlace
    <3>1. prot \in [tracked : {TRUE}, sig : Signals, stop : Ids, target : Ids]
      BY <1>0, <2>3, AdjustType DEF AdjustPlace
    <3>2. prot' = prot \/ \E k : prot' = [prot EXCEPT ![k] = "stale"] /\ k \in {"stop", "target"}
      <4>1. adj.kind \in {"stop", "target"}
        BY <1>0, <2>3, AdjustType DEF AdjustPlace
      <4> QED
        BY <2>3, <4>1 DEF AdjustPlace
    <3>3. prot'.tracked
      BY <3>1, <3>2
    <3>4. UNCHANGED <<last, pos, u, w, api, shut, d>> /\ w.pc \notin {"stop", "target"}
      BY <1>0, <2>3 DEF AdjustPlace, Handlers
    <3> QED
      BY <1>0, <3>3, <3>4 DEF Handlers
  <2> QED
    BY <1>12, <2>1, <2>2, <2>3
<1>13. CASE StartClose \/ SendClose \/ CancelProtection
  <2>1. d'.pc = "idle" => d'.gone = {}
    <3>1. d \in Closes /\ (d.pc = "idle" => d.gone = {})
      BY <1>0 DEF TypeOK, Handlers
    <3>2. CASE StartClose
      BY <3>2 DEF StartClose, NoClose
    <3>3. CASE SendClose
      <4>1. d' = [d EXCEPT !.pc = "book"] \/ d' = [NoClose EXCEPT !.cancels = d.cancels]
        BY <3>3 DEF SendClose
      <4>2. CASE d' = [d EXCEPT !.pc = "book"]
        BY <3>1, <4>2 DEF Closes
      <4> QED
        BY <4>1, <4>2 DEF NoClose
    <3>4. CASE CancelProtection
      <4>1. CASE d.pc = "idle"
        BY <3>4, <4>1 DEF CancelProtection, NoClose
      <4>2. CASE d.pc # "idle"
        <5>1. \E g : d' = [d EXCEPT !.cancels = FALSE, !.gone = g]
          BY <3>4, <4>2 DEF CancelProtection
        <5> QED
          BY <3>1, <4>2, <5>1 DEF Closes
      <4> QED
        BY <4>1, <4>2
    <3> QED
      BY <1>13, <3>2, <3>3, <3>4
  <2> QED
    BY <1>0, <1>13, <2>1 DEF StartClose, SendClose, CancelProtection, PlacerFree, Handlers
<1>14. CASE ApiCancelsOrders \/ ApiForgets \/ Release
  BY <1>0, <1>14 DEF ApiCancelsOrders, ApiForgets, PlacerFree, Release, Handlers
<1>15. CASE UNCHANGED vars
  BY <1>0, <1>15 DEF vars, Handlers
<1> QED
  BY <1>1, <1>2, <1>3, <1>4, <1>5, <1>6, <1>7, <1>8, <1>9, <1>10, <1>11, <1>12, <1>13, <1>14,
     <1>15 DEF Next, Work, Calls

\* How far the worker gets in one step: it stays with its part or goes on to the next.
Advances ==
  /\ UNCHANGED <<may, last>>
  /\ \/ w'.part = w.part /\ (w'.pc = "submit" => w.pc = "submit")
     \/ w'.part = w.part + 1
  /\ w'.sum <= Size * (w'.part - 1)
  /\ ~Iceberg => w'.part = 1
  /\ w'.pc = "market" => w'.got <= Size
  /\ w'.pc \in {"refetch", "market"} =>
       /\ w'.sig = w.sig /\ w'.part = w.part
       /\ CancelEntry \/ w.pc \in {"refetch", "market"}

\* The worker takes up a signal, or goes on with what it has: never back to an earlier part.
LEMMA WorkerAdvances == IInv /\ [Next]_vars => Approve \/ Advances
<1> SUFFICES ASSUME IInv, [Next]_vars, ~Approve PROVE Advances
  OBVIOUS
<1> USE DEF others, Handling, Resigned
<1>0. TypeOK /\ Bought /\ w \in Workers /\ w.part \in Nat
  BY DEF IInv, TypeOK, Workers, Parts
<1>1. ASSUME UNCHANGED <<may, last, w>> PROVE Advances
  BY <1>0, <1>1 DEF Advances, Bought
<1>2. ASSUME UNCHANGED <<may, last>>,
             NEW pc \in (Handling \cup Resigned) \ {"submit", "refetch", "market"},
             Goto(pc)
      PROVE  Advances
  BY <1>0, <1>2, GotoType DEF Advances, Bought
<1>3. ASSUME UNCHANGED <<may, last>>, NEW got \in 0..Size,
             NEW st \in {"none", "open", "filled", "canceled"},
             w' \in {Answered(got, st), Raised}
      PROVE  Advances
  BY <1>0, <1>3, AnswerShape DEF Advances
<1>4. CASE Submit
  <2>1. 0 \in 0..Size
    BY SizeOfParts
  <2> QED
    BY <1>2, <1>3, <1>4, <2>1 DEF Submit
<1>5. CASE Poll \/ FetchFinal
  <2>1. UNCHANGED <<may, last>> /\ w.pc \in Handling
    BY <1>5 DEF Poll, FetchFinal
  <2>2. w' \in {Fetched, Unfetched} \/ Goto("cancel")
    BY <1>5 DEF Poll, FetchFinal, Goto
  <2>3. CASE w' = Fetched
    BY <1>3, <2>1, <2>3, FetchedType
  <2>4. CASE w' = Unfetched
    BY <1>3, <2>1, <2>4, FetchedType
  <2> QED
    BY <1>2, <2>1, <2>2, <2>3, <2>4
<1>6. CASE MarketRemainder
  <2>1. w.got \in 0..Size
    BY <1>0, <1>6, SizeOfParts DEF MarketRemainder, Bought, Workers
  <2> QED
    BY <1>3, <1>6, <2>1 DEF MarketRemainder
<1>7. CASE Refetch
  <2>1. FilledOfIt \in 0..Size /\ 0 \in 0..Size /\ Size \in 1..Amount
    BY <1>7, FetchedType, SizeOfParts DEF Refetch
  <2>2. PICK f \in 0..Size : w' = [w EXCEPT !.pc = "market", !.got = Size - f]
    BY <1>7, <2>1 DEF Refetch
  <2>3. /\ w'.sig = w.sig /\ w'.part = w.part /\ w'.sum = w.sum
        /\ w'.pc = "market" /\ w'.got = Size - f
    BY <1>0, <2>2 DEF Workers
  <2>4. UNCHANGED <<may, last>> /\ Size - f <= Size /\ w.pc = "refetch"
    BY <1>7, <2>1 DEF Refetch
  <2> QED
    BY <1>0, <2>3, <2>4 DEF Advances, Bought
<1>8. CASE CancelEntry \/ DropOrder
  <2>1. CASE CancelEntry /\ Goto("refetch")
    <3>1. /\ w'.sig = w.sig /\ w'.part = w.part /\ w'.sum = w.sum /\ w'.got = w.got
          /\ w'.pc = "refetch"
      BY <1>0, <2>1, GotoType
    <3> QED
      BY <1>0, <2>1, <3>1 DEF Advances, Bought, CancelEntry
  <2> QED
    BY <1>2, <1>8, <2>1 DEF CancelEntry, DropOrder
<1>9. CASE Rebase \/ Report \/ Unfilled \/ Rollback \/ PlaceStop \/ PlaceTarget \/ Flatten
  BY <1>2, <1>9 DEF Rebase, Report, Unfilled, Rollback, PlaceStop, PlaceTarget, Flatten
<1>10. CASE FinishExit \/ Unprotect \/ FinishKill \/ HandleKill
  BY <1>2, <1>10 DEF FinishExit, Unprotect, FinishKill, HandleKill, history
<1>11. ASSUME NEW k \in {"stop", "target"}, HandleExit(k) PROVE Advances
  <2>1. UNCHANGED <<may, last>> /\ (w' = w \/ w' = [w EXCEPT !.pc = "oco", !.st = k])
    BY <1>11 DEF HandleExit
  <2>2. CASE w' = [w EXCEPT !.pc = "oco", !.st = k]
    <3>1. w'.part = w.part /\ w'.sum = w.sum /\ w'.pc = "oco"
      BY <1>0, <2>2 DEF Workers
    <3> QED
      BY <1>0, <2>1, <3>1 DEF Advances, Bought
  <2> QED
    BY <1>1, <2>1, <2>2
<1>12. ASSUME NEW o, NEW q, NEW k,
              Tick(k) \/ ExpireEntry(o) \/ Trigger(o) \/ FillEntry(o, q)
       PROVE  Advances
  BY <1>1, <1>12 DEF Tick, ExpireEntry, Trigger, FillEntry
<1>13. ASSUME NEW m, \/ DeliverTrigger(m) \/ DeliverPart(m)
                     \/ FinishTrigger \/ AdjustCancel \/ AdjustPlace
       PROVE  Advances
  BY <1>1, <1>13 DEF DeliverTrigger, DeliverPart, FinishTrigger, AdjustCancel, AdjustPlace
<1>14. CASE StartClose \/ SendClose \/ CancelProtection \/ BookClose
  BY <1>1, <1>14 DEF StartClose, SendClose, CancelProtection, BookClose
<1>15. CASE Kill \/ ApiCancelsOrders \/ ApiForgets \/ Release
  BY <1>1, <1>15 DEF Kill, ApiCancelsOrders, ApiForgets, Release
<1>16. CASE UNCHANGED vars
  BY <1>1, <1>16 DEF vars
<1> QED
  BY <1>4, <1>5, <1>6, <1>7, <1>8, <1>9, <1>10, <1>11, <1>12, <1>13, <1>14, <1>15, <1>16
     DEF Next, Work, Calls

\* Every step keeps the sums of the parts within the parts done.
LEMMA BoughtStep == IInv /\ [Next]_vars => Bought'
<1> SUFFICES ASSUME IInv, [Next]_vars PROVE Bought'
  OBVIOUS
<1>1. CASE Approve
  <2>1. w'.part = 1 /\ w'.sum = 0 /\ w'.pc = "submit" /\ Size' = Size
    BY <1>1 DEF Approve, Size, Iceberg
  <2> QED
    BY <2>1, SizeOfParts DEF Bought
<1>2. CASE Advances
  BY <1>2 DEF Advances, Bought, Size, Iceberg
<1> QED
  BY <1>1, <1>2, WorkerAdvances

\* A part that is submitted is the only one of its number, and unfilled.
LEMMA SubmitEntries ==
  ASSUME IInv, Submit, Advances
  PROVE  Entries'
<1> DEFINE e == [Order("entry", w.sig, Size) EXCEPT !.part = w.part]
<1>0. TypeOK /\ Entries /\ Size \in Nat /\ Size' = Size
  BY SizeOfParts DEF IInv, Advances, Size, Iceberg
<1>1. /\ w.sig = last /\ last \in Signals /\ w.part \in Parts /\ w.part \in Nat /\ last \in Nat
      /\ \A s \in Signals : s \in Nat
      /\ w.pc = "submit"
  BY DEF IInv, Handlers, Handling, TypeOK, Workers, Parts, Signals, Submit
<1>2. e.kind = "entry" /\ e.sig = last /\ e.part = w.part /\ e.qty = Size
  BY <1>1 DEF Order
<1>3. resting' \subseteq resting \cup {e} /\ filled' = filled /\ last' = last
  BY DEF Submit, Advances
<1>5. w'.part = w.part + 1 \/ (w'.part = w.part /\ w'.pc # "submit")
  <2>1. Goto("poll") => w'.part = w.part /\ w'.pc # "submit"
    BY GotoType DEF TypeOK, IInv, Handling
  <2>2. w' = Raised => w'.part = w.part + 1 \/ (w'.part = w.part /\ w'.pc # "submit")
    <3>1. 0 \in 0..Size
      BY <1>0
    <3> QED
      BY <3>1, AnswerShape DEF IInv
  <2> QED
    BY <2>1, <2>2 DEF Submit
<1>6. \A s \in Signals, p \in Parts : Unsent(s, p)' => Unsent(s, p) /\ ~(s = last /\ p = w.part)
  <2> TAKE s \in Signals, p \in Parts
  <2>1. s \in Nat /\ p \in Nat
    BY ConstantsAssumption DEF Signals, Parts
  <2>2. CASE w'.part = w.part + 1
    BY <1>1, <1>3, <2>1, <2>2 DEF Unsent
  <2>3. CASE w'.part = w.part /\ w'.pc # "submit"
    BY <1>1, <1>3, <2>1, <2>3 DEF Unsent
  <2> QED
    BY <1>5, <2>2, <2>3
<1>7. Unsent(last, w.part) /\ filled[last][w.part] = 0
  BY <1>0, <1>1 DEF Unsent, Entries
<1>8. ASSUME NEW o \in resting', o.kind = "entry"
      PROVE  ~Unsent(o.sig, o.part)' /\ filled[o.sig][o.part] + o.qty <= Size
  <2>1. CASE o = e
    BY <1>0, <1>1, <1>2, <1>6, <1>7, <2>1
  <2>2. CASE o \in resting
    BY <1>0, <1>6, <1>8, <2>2 DEF Entries, TypeOK, Orders
  <2> QED
    BY <1>3, <2>1, <2>2
<1>9. ASSUME NEW o1 \in resting', NEW o2 \in resting', o1.kind = "entry", o2.kind = "entry",
             o1.sig = o2.sig, o1.part = o2.part
      PROVE  o1 = o2
  <2>1. ASSUME NEW x \in resting, x.kind = "entry" PROVE ~(x.sig = last /\ x.part = w.part)
    BY <1>0, <1>7, <2>1 DEF Entries
  <2>2. CASE o1 \in resting /\ o2 \in resting
    BY <1>0, <1>9, <2>2 DEF Entries
  <2> HIDE DEF e
  <2> QED
    BY <1>2, <1>3, <1>9, <2>1, <2>2
<1> HIDE DEF e
<1> QED
  BY <1>0, <1>3, <1>6, <1>8, <1>9 DEF Entries

\* A fill takes from the order what it adds to the total.
LEMMA FillEntries ==
  ASSUME IInv, NEW o \in resting, NEW q \in 1..Amount, FillEntry(o, q)
  PROVE  Entries'
<1>0. TypeOK /\ Entries /\ Size \in Nat /\ Size' = Size
  BY SizeOfParts DEF IInv, FillEntry, Size, Iceberg
<1>1. /\ o.kind = "entry" /\ o.sig \in Signals /\ o.part \in Parts
      /\ q \in Nat /\ q <= o.qty /\ o.qty \in Nat
      /\ filled[o.sig][o.part] \in Nat /\ filled[o.sig][o.part] + o.qty <= Size
      /\ ~Unsent(o.sig, o.part)
  <2>1. o.kind = "entry" /\ q \in Nat /\ q <= o.qty /\ o \in Orders
    BY <1>0, ConstantsAssumption DEF FillEntry, TypeOK, Orders
  <2>2. o.sig \in Signals /\ o.part \in Parts /\ o.qty \in Nat
    BY <2>1, ConstantsAssumption DEF Orders
  <2>3. filled[o.sig][o.part] \in Nat
    BY <1>0, <2>2, ConstantsAssumption DEF TypeOK
  <2> QED
    BY <1>0, <2>1, <2>2, <2>3 DEF Entries
<1>2. filled' = [filled EXCEPT ![o.sig][o.part] = @ + q]
  BY DEF FillEntry
<1>3. \A s \in Signals, p \in Parts :
        filled'[s][p] = IF s = o.sig /\ p = o.part THEN filled[s][p] + q ELSE filled[s][p]
  BY <1>0, <1>1, <1>2 DEF TypeOK
<1>4. \A s, p : Unsent(s, p)' <=> Unsent(s, p)
  BY DEF FillEntry, Unsent, history
<1>5. ASSUME NEW o1 \in resting', o1.kind = "entry"
      PROVE  /\ \/ o1 \in resting /\ o1 # o
                \/ /\ o1.sig = o.sig /\ o1.part = o.part /\ o1.qty = o.qty - q
                   /\ o1 = [o EXCEPT !.qty = o.qty - q]
             /\ o1.sig \in Signals /\ o1.part \in Parts
  <2>1. CASE o1 \in resting
    BY <1>0, <1>1, <2>1 DEF FillEntry, TypeOK, Orders
  <2>2. CASE o1 \notin resting
    <3>1. o1 = [o EXCEPT !.qty = o.qty - q]
      BY <1>1, <2>2 DEF FillEntry
    <3>2. o \in Orders
      BY <1>0 DEF TypeOK
    <3> QED
      BY <1>1, <3>1, <3>2 DEF Orders
  <2> QED
    BY <2>1, <2>2
<1>6. ASSUME NEW o1 \in resting', o1.kind = "entry"
      PROVE  ~Unsent(o1.sig, o1.part) /\ filled'[o1.sig][o1.part] + o1.qty <= Size
  <2>1. CASE o1 \in resting /\ o1 # o
    <3>1. ~(o1.sig = o.sig /\ o1.part = o.part)
      BY <1>0, <1>1, <1>6, <2>1 DEF Entries
    <3> QED
      BY <1>0, <1>3, <1>5, <1>6, <2>1, <3>1 DEF Entries
  <2>2. CASE o1.sig = o.sig /\ o1.part = o.part /\ o1.qty = o.qty - q
    BY <1>1, <1>3, <2>2
  <2> QED
    BY <1>5, <1>6, <2>1, <2>2
<1>7. ASSUME NEW o1 \in resting', NEW o2 \in resting', o1.kind = "entry", o2.kind = "entry",
             o1.sig = o2.sig, o1.part = o2.part
      PROVE  o1 = o2
  <2>1. ASSUME NEW x \in resting, x.kind = "entry", x.sig = o.sig, x.part = o.part PROVE x = o
    BY <1>0, <1>1, <2>1 DEF Entries
  <2> QED
    BY <1>0, <1>5, <1>7, <2>1 DEF Entries
<1>8. ASSUME NEW s \in Signals, NEW p \in Parts
      PROVE  filled'[s][p] <= Size /\ (Unsent(s, p) => filled'[s][p] = 0)
  <2>1. filled[s][p] <= Size /\ (Unsent(s, p) => filled[s][p] = 0)
    BY <1>0 DEF Entries
  <2>2. CASE s = o.sig /\ p = o.part
    <3>1. filled'[s][p] = filled[o.sig][o.part] + q
      BY <1>3, <2>2
    <3> QED
      BY <1>0, <1>1, <2>2, <3>1
  <2>3. CASE ~(s = o.sig /\ p = o.part)
    BY <1>3, <2>1, <2>3
  <2> QED
    BY <2>2, <2>3
<1> QED
  BY <1>0, <1>4, <1>6, <1>7, <1>8 DEF Entries

\* A signal's entry comes to rest when it is submitted, and only then.
LEMMA OnlySubmitAdds ==
  IInv /\ [Next]_vars =>
    \/ Submit
    \/ \E o \in resting : \E q \in 1..Amount : FillEntry(o, q)
    \/ filled' = filled /\ \A o \in resting' : o.kind = "entry" => o \in resting
<1> SUFFICES ASSUME IInv, [Next]_vars, ~Submit,
                    ~ \E o \in resting : \E q \in 1..Amount : FillEntry(o, q)
             PROVE  filled' = filled /\ \A o \in resting' : o.kind = "entry" => o \in resting
  OBVIOUS
<1> DEFINE Kept == filled' = filled /\ \A o \in resting' : o.kind = "entry" => o \in resting
<1> USE DEF exchange
<1>1. CASE Approve \/ Poll \/ FetchFinal \/ Refetch \/ MarketRemainder
  BY <1>1 DEF Approve, Poll, FetchFinal, Refetch, MarketRemainder
<1>2. CASE CancelEntry \/ DropOrder
  BY <1>2, FailedCancelOnly DEF CancelEntry, DropOrder
<1>3. CASE Rebase \/ Report \/ Unfilled \/ Rollback \/ Flatten
  BY <1>3 DEF Rebase, Report, Unfilled, Rollback, Flatten
<1>4. CASE PlaceStop \/ PlaceTarget
  BY <1>4 DEF PlaceStop, PlaceTarget, Order
<1>5. CASE FinishExit \/ Unprotect \/ FinishKill \/ HandleKill
  BY <1>5, CancelledOnly DEF FinishExit, Unprotect, FinishKill, HandleKill, CancelOpposite
<1>6. ASSUME NEW k, NEW o, Tick(k) \/ HandleExit(k) \/ ExpireEntry(o) \/ Trigger(o)
      PROVE  Kept
  BY <1>6 DEF Tick, HandleExit, ExpireEntry, Trigger
<1>7. ASSUME NEW m, DeliverTrigger(m) \/ DeliverPart(m) PROVE Kept
  BY <1>7 DEF DeliverTrigger, DeliverPart
<1>8. CASE FinishTrigger
  BY <1>8, CancelledOnly DEF FinishTrigger, CancelOpposite
<1>9. CASE AdjustCancel \/ AdjustPlace
  <2>1. CASE AdjustCancel
    BY <2>1, FailedCancelOnly DEF AdjustCancel
  <2>2. CASE AdjustPlace
    <3>1. adj.kind # "entry"
      BY DEF IInv, TypeOK, Adjustments, NoAdjust
    <3> QED
      BY <2>2, <3>1 DEF AdjustPlace, Order
  <2> QED
    BY <1>9, <2>1, <2>2
<1>10. CASE StartClose \/ BookClose \/ Kill \/ Release
  BY <1>10 DEF StartClose, BookClose, Kill, Release
<1>11. CASE SendClose \/ CancelProtection \/ ApiCancelsOrders \/ ApiForgets
  BY <1>11, CancelledOnly DEF SendClose, CancelProtection, ApiCancelsOrders, ApiForgets
<1>12. CASE UNCHANGED vars
  BY <1>12 DEF vars
<1> QED
  BY <1>1, <1>2, <1>3, <1>4, <1>5, <1>6, <1>7, <1>8, <1>9, <1>10, <1>11, <1>12 DEF Next, Work, Calls

\* Every step keeps the entries of the exchange consistent.
LEMMA EntriesStep == IInv /\ [Next]_vars => Entries'
<1> SUFFICES ASSUME IInv, [Next]_vars PROVE Entries'
  OBVIOUS
<1>0. TypeOK /\ Entries
  BY DEF IInv
<1>1. CASE Approve
  <2>1. last' = last + 1 /\ last \in Nat /\ UNCHANGED <<may, resting, filled>>
    BY <1>0, <1>1 DEF Approve, TypeOK, exchange
  <2>2. \A s \in Signals, p \in Parts : Unsent(s, p)' => Unsent(s, p)
    BY <2>1 DEF Unsent, Signals
  <2>3. \A o \in resting : o.sig \in Signals /\ o.part \in Parts
    BY <1>0 DEF TypeOK, Orders
  <2> QED
    BY <1>0, <2>1, <2>2, <2>3 DEF Entries, Size, Iceberg
<1>2. CASE Advances
  <2>1. CASE filled' = filled /\ \A o \in resting' : o.kind = "entry" => o \in resting
    BY <1>0, <1>2, <2>1, EntriesKept DEF Advances
  <2> QED
    BY <1>2, <2>1, SubmitEntries, FillEntries, OnlySubmitAdds
<1> QED
  BY <1>1, <1>2, WorkerAdvances

\* Every step keeps the invariant.
LEMMA NextInv == IInv /\ [Next]_vars => IInv'
BY TypeStep, HandlersStep, BoughtStep, EntriesStep DEF IInv

(***************************************************************************)
(* What the runs check, for every value of the constants.                  *)
(***************************************************************************)
LEMMA Invariance == Spec => []IInv
BY InitInv, NextInv, PTL DEF Spec

\* The variables keep their types: no limit order fills beyond its quantity, what the
\* parts of an iceberg entry add up to stays within the entry, nothing is held short, and
\* every order and alert is a signal's that was approved.
THEOREM TypeCorrect == Spec => []TypeOK
<1>1. IInv => TypeOK
  BY DEF IInv
<1> QED
  BY <1>1, Invariance, PTL

\* A market fallback cannot double an entry: from the moment it is prepared, no part of
\* the limit order it replaces rests on the exchange, however cancels fail, fills come
\* in between and other handlers act.
LEMMA FallbackStep == IInv /\ NoFallbackWhileLive /\ [Next]_vars => NoFallbackWhileLive'
<1> SUFFICES ASSUME IInv, NoFallbackWhileLive, [Next]_vars, w'.pc \in {"refetch", "market"},
                    NEW o \in Working'
             PROVE  FALSE
  BY DEF NoFallbackWhileLive
<1>1. Advances
  BY WorkerAdvances DEF Approve
<1>2. w'.sig = w.sig /\ w'.part = w.part
  BY <1>1 DEF Advances
<1>3. o \in resting' /\ o.kind = "entry" /\ o.sig = w.sig /\ o.part = w.part
  BY <1>2 DEF Working, Resting
<1>4. CASE CancelEntry
  <2>1. resting' = resting \ Working
    BY <1>4, GotoType DEF CancelEntry, IInv, TypeOK, Handling
  <2> QED
    BY <1>3, <2>1 DEF Working, Resting
<1>5. CASE w.pc \in {"refetch", "market"}
  <2>1. \A x \in resting : ~(x.kind = "entry" /\ x.sig = w.sig /\ x.part = w.part)
    BY <1>5 DEF NoFallbackWhileLive, Working, Resting
  <2>2. CASE \E x \in resting : \E q \in 1..Amount : FillEntry(x, q)
    <3>1. PICK x \in resting : \E q \in 1..Amount : FillEntry(x, q)
      BY <2>2
    <3>2. x.kind = "entry" /\ x \in Orders
      BY <3>1 DEF FillEntry, IInv, TypeOK
    <3>3. o \in resting \/ (o.sig = x.sig /\ o.part = x.part)
      BY <3>1, <3>2, <1>3 DEF FillEntry, Orders
    <3> QED
      BY <1>3, <2>1, <3>2, <3>3
  <2> QED
    BY <1>3, <1>5, <2>1, <2>2, OnlySubmitAdds DEF Submit
<1> QED
  BY <1>1, <1>4, <1>5 DEF Advances

\* When the market order is sent, the limit order it replaces no longer rests, whatever
\* the exchange answered to its cancel and however many parts the entry has.
THEOREM FallbackReplaces == Spec => []NoFallbackWhileLive
<1>1. Init => NoFallbackWhileLive
  BY DEF Init, NoFallbackWhileLive
<1> QED
  BY <1>1, Invariance, FallbackStep, PTL DEF Spec

\* Every step leaves a reservation with its handler, ends it, or tells an operator.
LEMMA ReservationStep == IInv /\ ReservationWatched /\ [Next]_vars => ReservationWatched'
<1> SUFFICES ASSUME IInv, ReservationWatched, [Next]_vars, pos'.kind = "pending"
             PROVE  \/ pos'.sig = w'.sig /\ w'.pc \notin Resigned
                    \/ pos'.sig \in alarmed'
  BY DEF ReservationWatched
<1> DEFINE Watched == \/ pos'.sig = w'.sig /\ w'.pc \notin Resigned
                      \/ pos'.sig \in alarmed'
<1> USE DEF history, Handling, Resigned
<1>0. TypeOK /\ Handlers /\ Bought /\ w \in Workers
  BY DEF IInv, TypeOK
<1>1. CASE Approve
  BY <1>0, <1>1 DEF Approve
<1>2. ASSUME UNCHANGED <<pos, w, alarmed>> PROVE Watched
  BY <1>2 DEF ReservationWatched
<1>3. ASSUME UNCHANGED pos, alarmed \subseteq alarmed', w'.sig = w.sig,
             w'.pc \notin Resigned
      PROVE  Watched
  BY <1>3 DEF ReservationWatched
<1>4. CASE Submit \/ Poll \/ FetchFinal \/ MarketRemainder
  <2>1. w.pc \in {"submit", "poll", "final", "market"} /\ UNCHANGED <<pos, alarmed>>
    BY <1>4 DEF Submit, Poll, FetchFinal, MarketRemainder
  <2>2. /\ Fetched.pc \in Handling /\ Fetched.sig = w.sig
        /\ Unfetched.pc \in Handling /\ Unfetched.sig = w.sig
    BY <1>0, <2>1, FetchedType, AnswerShape
  <2>3. ASSUME w.pc = "market"
        PROVE  Answered(w.got, "filled").pc \in Handling /\ Answered(w.got, "filled").sig = w.sig
    <3>1. w.got \in 0..Size
      BY <1>0, <2>3, SizeOfParts DEF Bought, Workers
    <3> QED
      BY <1>0, <3>1, AnswerShape
  <2>4. Raised.pc \in Handling /\ Raised.sig = w.sig
    <3>1. 0 \in 0..Size
      BY SizeOfParts
    <3> QED
      BY <1>0, <3>1, AnswerShape
  <2>5. w'.pc \in Handling /\ w'.sig = w.sig
    BY <1>0, <1>4, <2>2, <2>3, <2>4, GotoType
       DEF Submit, Poll, FetchFinal, MarketRemainder, Workers
  <2> QED
    BY <1>3, <2>1, <2>5
<1>5. CASE CancelEntry \/ DropOrder
  <2>1. w'.pc \notin Resigned \/ (w'.pc = "idle" /\ Alarm)
    BY <1>0, <1>5, GotoType DEF CancelEntry, DropOrder
  <2>2. w'.sig = w.sig /\ UNCHANGED pos /\ w.pc \in Handling
    BY <1>0, <1>5, GotoType DEF CancelEntry, DropOrder
  <2>3. alarmed \subseteq alarmed'
    BY <1>5 DEF CancelEntry, DropOrder, Alarm
  <2>4. CASE Alarm
    BY <1>0, <2>2, <2>4 DEF Alarm, Handlers
  <2> QED
    BY <1>3, <2>1, <2>2, <2>3, <2>4
<1>6. CASE Refetch \/ Unfilled
  <2>1. CASE Refetch
    <3>1. UNCHANGED <<pos, alarmed>> /\ w'.sig = w.sig /\ w'.pc = "market"
      BY <1>0, <2>1 DEF Refetch, Workers
    <3> QED
      BY <1>3, <3>1
  <2>2. CASE Unfilled
    BY <1>0, <1>3, <2>2, GotoType DEF Unfilled
  <2> QED
    BY <1>6, <2>1, <2>2
<1>7. CASE Rebase
  BY <1>0, <1>7 DEF Rebase, TypeOK, Positions
<1>8. CASE Rollback \/ BookClose \/ Kill \/ HandleKill
  BY <1>0, <1>8 DEF Rollback, BookClose, Kill, HandleKill, NoPosition
<1>9. CASE Report \/ PlaceStop \/ PlaceTarget \/ Flatten
  BY <1>0, <1>9 DEF Report, PlaceStop, PlaceTarget, Flatten, Handlers, NoPosition
<1>10. CASE FinishExit \/ Unprotect \/ FinishKill
  BY <1>0, <1>10 DEF FinishExit, Unprotect, FinishKill, Handlers
<1>11. ASSUME NEW k, Tick(k) \/ HandleExit(k) PROVE Watched
  BY <1>2, <1>11 DEF Tick, HandleExit, NoPosition, ReservationWatched
<1>12. ASSUME NEW o, NEW q, ExpireEntry(o) \/ Trigger(o) \/ FillEntry(o, q) PROVE Watched
  BY <1>2, <1>12 DEF ExpireEntry, Trigger, FillEntry
<1>13. ASSUME NEW m, DeliverTrigger(m) \/ DeliverPart(m) PROVE Watched
  BY <1>2, <1>13 DEF DeliverTrigger, DeliverPart, NoPosition
<1>14. CASE FinishTrigger \/ AdjustCancel \/ AdjustPlace
  BY <1>2, <1>14 DEF FinishTrigger, AdjustCancel, AdjustPlace
<1>15. CASE SendClose \/ CancelProtection \/ StartClose \/ ApiCancelsOrders \/ ApiForgets \/ Release
  BY <1>2, <1>15 DEF SendClose, CancelProtection, StartClose, ApiCancelsOrders, ApiForgets, Release
<1>16. CASE UNCHANGED vars
  BY <1>2, <1>16 DEF vars
<1> QED
  BY <1>1, <1>4, <1>5, <1>6, <1>7, <1>8, <1>9, <1>10, <1>11, <1>12, <1>13, <1>14, <1>15, <1>16
     DEF Next, Work, Calls

\* A reservation is never forgotten: the handler it belongs to is at work on it, or an
\* operator was told; also when kills, closes and fills change the book in between.
THEOREM ReservationsWatched == Spec => []ReservationWatched
<1>1. Init => ReservationWatched
  BY DEF Init, ReservationWatched, NoPosition
<1> QED
  BY <1>1, Invariance, ReservationStep, PTL DEF Spec

(***************************************************************************)
(* The stop of an open position.                                           *)
(***************************************************************************)
\* The ways an open position is covered, as StopOrAlarm lists them.
Covered ==
  \/ Resting("stop", pos.sig) # {}
  \/ w.sig = pos.sig /\ w.pc \in {"report", "stop", "flatten"}
  \/ \E m \in feed : m.kind = "stop" /\ m.sig = pos.sig
  \/ adj.pc = "place" /\ adj.kind = "stop" /\ prot.sig = pos.sig
  \/ pos.sig \in d.gone
  \/ pos.sig \in alarmed \cup lapsed

\* Every step that takes a stop away, or opens a position without one, leaves a reason.
LEMMA StopStep == IInv /\ StopOrAlarm /\ [Next]_vars => StopOrAlarm'
<1> SUFFICES ASSUME IInv, StopOrAlarm, [Next]_vars, pos'.kind = "open", Found'
             PROVE  Covered'
  BY DEF StopOrAlarm, Covered
<1> USE DEF history, exchange, others, Handling, Resigned
<1>0. TypeOK /\ Handlers /\ Bought /\ w \in Workers
  BY DEF IInv, TypeOK
<1>1. Found /\ (pos.kind = "open" => Covered)
  <2>1. UNCHANGED may
    BY WorkerAdvances DEF Approve, Advances
  <2> QED
    BY <2>1 DEF StopOrAlarm, Covered, Found
<1>2. ASSUME pos' = pos,
             \A o \in resting : o.kind = "stop" =>
               \/ o \in resting'
               \/ o.sig \in d'.gone \cup lapsed'
               \/ o \in feed'
               \/ adj'.pc = "place" /\ adj'.kind = "stop" /\ prot'.sig = o.sig,
             \A m \in feed : m.kind = "stop" => m \in feed',
             \/ UNCHANGED <<adj, prot>>
             \/ adj.pc # "place" \/ adj.kind # "stop",
             d.gone \subseteq d'.gone \cup lapsed',
             alarmed \subseteq alarmed', lapsed \subseteq lapsed',
             w.pc \in {"report", "stop", "flatten"} => w' = w
      PROVE  Covered'
  <2>1. CASE Resting("stop", pos.sig) # {}
    <3>1. PICK o \in resting : o.kind = "stop" /\ o.sig = pos.sig
      BY <2>1 DEF Resting
    <3> QED
      BY <1>2, <3>1 DEF Covered, Resting
  <2>2. CASE Resting("stop", pos.sig) = {}
    BY <1>1, <1>2, <2>2 DEF Covered
  <2> QED
    BY <2>1, <2>2
<1>3. CASE Approve
  BY <1>3 DEF Approve
<1>4. CASE Submit \/ Poll \/ FetchFinal \/ Refetch \/ MarketRemainder \/ Unfilled
  BY <1>2, <1>4 DEF Submit, Poll, FetchFinal, Refetch, MarketRemainder, Unfilled
<1>5. CASE CancelEntry \/ DropOrder
  <2>1. \A o \in resting : o.kind = "stop" => o \in resting'
    BY <1>5 DEF CancelEntry, DropOrder, AfterFailedCancel, Working, Resting
  <2> QED
    BY <1>2, <1>5, <2>1 DEF CancelEntry, DropOrder, Alarm
<1>6. CASE Rebase
  <2>1. w.pc = "settle" /\ pos.kind # "none" /\ pos'.sig = pos.sig /\ Goto("report")
    BY <1>0, <1>6 DEF Rebase, TypeOK, Positions
  <2> QED
    BY <1>0, <2>1, GotoType DEF Covered, Handlers
<1>7. CASE Report
  BY <1>0, <1>7, GotoType DEF Report, Handlers, Covered
<1>8. CASE PlaceStop
  <2>1. pos' = pos /\ w.sig = pos.sig
    BY <1>0, <1>8 DEF PlaceStop, Handlers
  <2>2. CASE resting' = resting \cup {Order("stop", w.sig, w.got)}
    <3> DEFINE o == Order("stop", w.sig, w.got)
    <3>1. o \in resting' /\ o.kind = "stop" /\ o.sig = pos'.sig
      BY <2>1, <2>2 DEF Order
    <3> HIDE DEF o
    <3> QED
      BY <3>1 DEF Covered, Resting
  <2>3. CASE Alarm
    BY <2>1, <2>3 DEF Alarm, Covered
  <2>4. CASE Goto("flatten")
    BY <1>0, <2>1, <2>4, GotoType DEF Covered
  <2> QED
    BY <1>8, <2>2, <2>3, <2>4 DEF PlaceStop
<1>9. CASE PlaceTarget
  <2>1. adj.pc = "idle"
    BY <1>0, <1>9 DEF PlaceTarget, Handlers
  <2> QED
    BY <1>2, <1>9, <2>1 DEF PlaceTarget
<1>10. CASE Flatten
  <2>1. pos'.sig = pos.sig /\ pos.kind # "none"
    BY <1>10 DEF Flatten, NoPosition
  <2> QED
    BY <1>0, <1>10, <2>1 DEF Flatten, Alarm, Covered, Handlers
<1>11. CASE Rollback \/ FinishExit \/ Unprotect \/ FinishKill \/ HandleKill
  <2>1. CASE Rollback
    BY <1>2, <2>1 DEF Rollback, NoPosition
  <2>2. CASE FinishExit \/ Unprotect \/ FinishKill
    BY <1>0, <2>2 DEF FinishExit, Unprotect, FinishKill, Handlers
  <2>3. CASE HandleKill
    BY <2>3 DEF HandleKill, NoPosition
  <2> QED
    BY <1>11, <2>1, <2>2, <2>3
<1>12. ASSUME NEW k, Tick(k) \/ HandleExit(k) PROVE Covered'
  BY <1>2, <1>12 DEF Tick, HandleExit, NoPosition
<1>13. ASSUME NEW o, ExpireEntry(o) PROVE Covered'
  BY <1>2, <1>13 DEF ExpireEntry
<1>14. ASSUME NEW o \in resting, Trigger(o) PROVE Covered'
  BY <1>2, <1>14 DEF Trigger
<1>15. ASSUME NEW o \in resting, NEW q, FillEntry(o, q) PROVE Covered'
  <2>1. /\ \A x \in resting : x.kind = "stop" => x \in resting'
        /\ feed \subseteq feed'
    BY <1>15 DEF FillEntry
  <2> QED
    BY <1>2, <1>15, <2>1 DEF FillEntry
<1>16. ASSUME NEW m \in feed, DeliverTrigger(m) PROVE Covered'
  <2>1. pos.kind = "none" /\ pos' = pos
    BY <1>1, <1>16 DEF DeliverTrigger, NoPosition
  <2> QED
    BY <2>1
<1>17. ASSUME NEW m \in feed, DeliverPart(m) PROVE Covered'
  BY <1>2, <1>17 DEF DeliverPart, PlacerFree
<1>18. CASE FinishTrigger
  BY <1>0, <1>18 DEF FinishTrigger, Handlers
<1>19. CASE AdjustCancel
  <2>1. UNCHANGED <<pos, feed, d, w, alarmed, prot>> /\ adj.pc = "cancel"
        /\ adj \in [pc : {"cancel", "place"}, kind : {"stop", "target"}, qty : Nat \ {0}]
    BY <1>0, <1>19 DEF AdjustCancel, TypeOK, Adjustments, NoAdjust
  <2>2. CASE /\ resting' = resting \ Named({adj.kind}) /\ lapsed' = lapsed
             /\ adj' = [adj EXCEPT !.pc = "place"]
    <3>1. adj'.pc = "place" /\ adj'.kind = adj.kind
      BY <2>1, <2>2
    <3> QED
      BY <1>2, <2>1, <2>2, <3>1 DEF Named
  <2>3. CASE lapsed' = lapsed \cup StopsOf(resting \ resting')
    BY <1>2, <2>1, <2>3 DEF StopsOf
  <2> QED
    BY <1>19, <2>2, <2>3 DEF AdjustCancel
<1>20. CASE AdjustPlace
  <2>1. /\ UNCHANGED <<pos, feed, d, w, alarmed>> /\ lapsed \subseteq lapsed'
        /\ resting \subseteq resting'
    BY <1>20 DEF AdjustPlace
  <2>2. CASE adj.kind # "stop"
    BY <1>2, <2>1, <2>2
  <2>3. CASE adj.kind = "stop"
    <3>1. CASE prot.sig # pos.sig
      BY <1>1, <2>1, <3>1 DEF Covered, Resting
    <3>2. CASE prot.sig = pos.sig
      <4> DEFINE o == Order(adj.kind, prot.sig, adj.qty)
      <4>1. o.kind = "stop" /\ o.sig = pos.sig
        BY <2>3, <3>2 DEF Order
      <4>2. o \in resting' \/ prot.sig \in lapsed'
        BY <1>20, <2>3 DEF AdjustPlace
      <4> HIDE DEF o
      <4> QED
        BY <2>1, <3>2, <4>1, <4>2 DEF Covered, Resting
    <3> QED
      BY <3>1, <3>2
  <2> QED
    BY <2>2, <2>3
<1>21. CASE StartClose
  <2>1. d.gone = {}
    BY <1>21 DEF StartClose, NoClose
  <2> QED
    BY <1>2, <1>21, <2>1 DEF StartClose
<1>22. CASE SendClose
  <2>1. d.gone \subseteq d'.gone \cup lapsed'
    BY <1>0, <1>22 DEF SendClose, TypeOK, Closes
  <2> QED
    BY <1>2, <1>22, <2>1 DEF SendClose
<1>23. CASE CancelProtection
  <2> DEFINE gone == StopsOf(resting \ resting')
  <2>1. UNCHANGED <<pos, feed, w, adj, alarmed>> /\ lapsed \subseteq lapsed' /\ adj.pc = "idle"
    BY <1>23 DEF CancelProtection, PlacerFree
  <2>2. d.gone \cup gone \subseteq d'.gone \cup lapsed' \/ d.pc = "idle"
    BY <1>0, <1>23 DEF CancelProtection, TypeOK, Closes
  <2>3. gone \subseteq d'.gone \cup lapsed'
    BY <1>0, <1>23 DEF CancelProtection, TypeOK, Closes
  <2>4. d.pc = "idle" => d.gone = {}
    BY DEF IInv, Handlers
  <2>5. \A o \in resting : o.kind = "stop" => o \in resting' \/ o.sig \in gone
    BY DEF StopsOf
  <2> HIDE DEF gone
  <2> QED
    BY <1>2, <2>1, <2>2, <2>3, <2>4, <2>5
<1>24. CASE BookClose \/ Kill
  BY <1>24 DEF BookClose, Kill, NoPosition
<1>25. CASE ApiCancelsOrders \/ ApiForgets
  BY <1>0, <1>25 DEF ApiCancelsOrders, ApiForgets, Handlers
<1>26. CASE Release
  BY <1>2, <1>26 DEF Release
<1>27. CASE UNCHANGED vars
  BY <1>2, <1>27 DEF vars
<1> QED
  BY <1>3, <1>4, <1>5, <1>6, <1>7, <1>8, <1>9, <1>10, <1>11, <1>12, <1>13, <1>14, <1>15, <1>16,
     <1>17, <1>18, <1>19, <1>20, <1>21, <1>22, <1>23, <1>24, <1>25, <1>26, <1>27
     DEF Next, Work, Calls

\* An open position the stream can find has a stop on the exchange, or its handler has one
\* to place, or its own stop has just triggered; or the stop is gone for as long as its
\* replacement or a close is under way, or an operator was told, or the loss was logged.
\* That is so however the exchange, the worker, the tasks of the stream's updates and the
\* cancels of a close come between each other's calls.
THEOREM StopHeldOrTold == Spec => []StopOrAlarm
<1>1. Init => StopOrAlarm
  BY DEF Init, StopOrAlarm, NoPosition
<1> QED
  BY <1>1, Invariance, StopStep, PTL DEF Spec

(***************************************************************************)
(* The books of the bot and of the exchange, when calls fail cleanly,      *)
(* entries fill whole and exits are left to the exchange.                  *)
(***************************************************************************)
NoEntry == \A o \in resting : o.kind # "entry"

\* Nothing was bought on the reservation yet.
Unbought == held = 0 /\ feed = {} /\ d.pc # "book" /\ pos.kind = "pending"

\* Before a purchase; sold by a stop or target the bot has not heard of; sold by a close
\* that is not booked yet; bought and held.
Account ==
  \/ held = 0 /\ feed = {} /\ d.pc # "book" /\ pos.kind # "open"
  \/ /\ held = 0 /\ d.pc # "book" /\ pos.kind # "none"
     /\ \E m : feed = {m} /\ m.kind # "part"
  \/ held = 0 /\ feed = {} /\ d.pc = "book" /\ pos.kind # "none"
  \/ held = Amount /\ feed = {} /\ d.pc # "book" /\ pos.kind # "none"

\* Only the events of a clean execution have happened, and every quantity is the entry's.
WholeOnly ==
  /\ exits = {} /\ ~killAsked /\ api = "idle" /\ adj.pc = "idle"
  /\ w.pc \notin {"oco", "unprotect", "kill"}
  /\ pos.kind # "none" => pos.qty = Amount
  /\ d.pc = "close" => d.qty = Amount
  /\ \A o \in resting : o.qty = Amount
  /\ w.pc \in {"market", "report", "stop", "target", "flatten"} => w.got = Amount

\* What the worker knows of the purchase.
Purchase ==
  /\ \A o \in resting : o.kind = "entry" => /\ Unbought /\ o.sig = last /\ o.part = 1
                                            /\ filled[last][1] = 0
  /\ w.pc \in {"submit", "refetch", "market", "rollback"} => Unbought /\ NoEntry
  /\ w.pc = "refetch" => filled[last][1] = 0
  /\ w.pc \in {"poll", "cancel", "final"} => \/ filled[last][1] = 0 /\ Unbought
                                             \/ filled[last][1] = Amount /\ ~Unbought
  /\ w.pc = "settle" => \/ w.got = 0 /\ (w.st = "open" \/ (Unbought /\ NoEntry))
                        \/ w.got = Amount /\ ~Unbought

WholeEntries == may \subseteq {"refuse", "manual", "limit", "again"}
CleanInv == WholeEntries => Account /\ WholeOnly /\ Purchase

\* The same for an iceberg entry until something is announced: what is held is what the
\* parts done have bought and the part at work has.
PartAtWork ==
  /\ w.pc \in {"submit", "refetch", "market"} => held = w.sum /\ resting = {}
  /\ w.pc \in {"poll", "cancel"} =>
       /\ FilledOfIt \in {0, Size} /\ held = w.sum + FilledOfIt
       /\ \A o \in resting : o.kind = "entry" /\ o.sig = last /\ o.part = w.part
                             /\ o.qty = Size /\ FilledOfIt = 0
  /\ w.pc \in {"settle", "rollback"} => held = w.got /\ resting = {}
  /\ w.pc = "settle" => w.st # "open"
  /\ w.pc = "rollback" => held = 0
  /\ w.pc \in Handling \ {"report", "stop", "target", "flatten"} => feed = {} /\ pos.kind = "pending"
  /\ w.pc \notin {"final", "drop", "oco", "unprotect", "kill"}

PartsSettled ==
  /\ w.pc \in {"report", "stop", "flatten"} =>
       resting = {} /\ feed = {} /\ pos.kind = "open" /\ held = pos.qty /\ held = w.got
  /\ w.pc = "idle" /\ last = 0 => resting = {} /\ feed = {} /\ pos.kind = "none" /\ held = 0
  /\ w.pc = "target" \/ (w.pc = "idle" /\ last > 0) =>
       /\ NoEntry
       /\ \/ held = 0 /\ feed = {} /\ pos.kind = "none"
          \/ held = 0 /\ pos.kind = "open" /\ \E m : feed = {m} /\ m.kind # "part"
          \/ /\ held = pos.qty /\ feed = {} /\ pos.kind = "open"
             /\ \A o \in resting : o.qty = pos.qty
             /\ w.pc = "target" => w.got = pos.qty

\* The bot's own exits, the operator and the kill switch stay out of it.
Alone == exits = {} /\ ~killAsked /\ api = "idle" /\ adj.pc = "idle" /\ d = NoClose

InParts == may \subseteq {"refuse", "iceberg"} /\ Iceberg
PartsInv ==
  InParts /\ alarmed = {} => PartAtWork /\ PartsSettled /\ Alone

\* What an execution of whole entries and clean failures excludes.
LEMMA CleanFacts ==
  ASSUME IInv, WholeEntries
  PROVE  /\ {"lose", "split", "tick", "kill", "iceberg", "renamed"} \cap may = {}
         /\ ~Iceberg /\ Size = Amount /\ Found /\ w.part = 1
         /\ Amount \in Nat /\ Amount > 0 /\ held \in Nat
         /\ w \in Workers /\ pos \in Positions
         /\ \A o \in resting : o \in Orders
BY ConstantsAssumption DEF IInv, TypeOK, Bought, WholeEntries, Iceberg, Size, Found

\* While the account stays as it is, so does what the worker may conclude from it.
LEMMA AccountKept ==
  ASSUME Account, UNCHANGED <<held, feed, pos>>, d'.pc = "book" <=> d.pc = "book"
  PROVE  Account' /\ (Unbought' <=> Unbought)
BY DEF Account, Unbought

\* There, an answer says that nothing was bought or that everything was.
LEMMA FetchedWhole ==
  ASSUME IInv, WholeEntries, Purchase, w.pc \in {"poll", "final"}
  PROVE  /\ FilledOfIt = filled[last][1]
         /\ \/ /\ FilledOfIt = 0 /\ Unbought
               /\ \E st \in {"open", "canceled"} :
                    /\ Fetched = [w EXCEPT !.pc = "settle", !.got = 0, !.st = st]
                    /\ st = "canceled" => NoEntry
            \/ /\ FilledOfIt = Amount /\ ~Unbought
               /\ Fetched = [w EXCEPT !.pc = "settle", !.got = Amount, !.st = "filled"]
         /\ Unfetched = [w EXCEPT !.pc = "settle", !.got = 0, !.st = "open"]
<1>0. w.sig = last /\ w.part = 1 /\ ~Iceberg /\ Size = Amount /\ Amount > 0 /\ Amount \in Nat
  BY CleanFacts DEF IInv, Handlers, Handling
<1>1. FilledOfIt = filled[last][1]
  BY <1>0 DEF FilledOfIt
<1>2. Working = {} <=> NoEntry
  BY <1>0 DEF Working, Resting, NoEntry, Purchase
<1>3. CASE FilledOfIt = 0 /\ Unbought
  <2>1. Unfetched = [w EXCEPT !.pc = "settle", !.got = 0, !.st = "open"]
    BY <1>0 DEF Unfetched, Answered
  <2>2. CASE NoEntry
    <3>1. Fetched = [w EXCEPT !.pc = "settle", !.got = 0, !.st = "canceled"]
      <4>1. Working = {} /\ FilledOfIt = 0 /\ 0 # Size
        BY <1>0, <1>2, <1>3, <2>2
      <4>2. Fetched = Answered(0, "canceled")
        BY <4>1 DEF Fetched
      <4> QED
        BY <1>0, <4>2 DEF Answered
    <3> QED
      BY <1>1, <1>3, <2>1, <2>2, <3>1
  <2>3. CASE ~NoEntry
    <3>1. Fetched = [w EXCEPT !.pc = "settle", !.got = 0, !.st = "open"]
      BY <1>0, <1>2, <1>3, <2>3 DEF Fetched, Answered
    <3> QED
      BY <1>1, <1>3, <2>1, <3>1
  <2> QED
    BY <2>2, <2>3
<1>4. CASE FilledOfIt = Amount /\ ~Unbought
  <2>1. NoEntry
    BY <1>0, <1>1, <1>4 DEF Purchase, NoEntry
  <2> QED
    BY <1>0, <1>1, <1>2, <1>4, <2>1 DEF Fetched, Unfetched, Answered
<1> QED
  BY <1>1, <1>3, <1>4 DEF Purchase

\* There, every step keeps the account of what was bought.
LEMMA CleanStep ==
  ASSUME IInv, WholeEntries, Account, WholeOnly, Purchase, [Next]_vars
  PROVE  Account' /\ WholeOnly' /\ Purchase'
<1> USE DEF history, exchange, others, Handling, Resigned
<1> DEFINE Goal == Account' /\ WholeOnly' /\ Purchase'
<1>0. /\ {"lose", "split", "tick", "kill", "iceberg", "renamed"} \cap may = {}
      /\ ~Iceberg /\ Size = Amount /\ Found /\ w.part = 1
      /\ Amount \in Nat /\ Amount > 0 /\ held \in Nat
      /\ w \in Workers /\ pos \in Positions
      /\ \A o \in resting : o \in Orders
  BY CleanFacts
<1>1. TypeOK /\ Handlers /\ Entries
  BY DEF IInv
<1>2. CASE Approve
  <2>1. /\ pos.kind = "none" /\ pos'.kind = "pending" /\ pos'.qty = Amount /\ last' = last + 1
        /\ w'.pc = "submit" /\ UNCHANGED <<resting, held, feed, d, exits, killAsked, api, adj>>
    BY <1>0, <1>2 DEF Approve
  <2>2. held = 0 /\ feed = {} /\ d.pc # "book" /\ NoEntry
    BY <2>1 DEF Account, Purchase, Unbought, NoEntry
  <2>3. Unbought' /\ NoEntry' /\ Account'
    BY <2>1, <2>2 DEF Unbought, NoEntry, Account
  <2> QED
    BY <2>1, <2>3 DEF WholeOnly, Purchase, NoEntry
<1>3. CASE Submit
  <2>1. UNCHANGED <<held, feed, d, pos, exits, killAsked, api, adj, last, filled>>
        /\ w.pc = "submit" /\ w.sig = last /\ last \in Signals
    BY <1>1, <1>3 DEF Submit, Handlers
  <2>2. filled[last][1] = 0
    <3>1. Unsent(last, 1) /\ 1 \in Parts
      BY <1>0, <1>1, <2>1 DEF Unsent, TypeOK, Workers
    <3> QED
      BY <1>1, <2>1, <3>1 DEF Entries
  <2>3. Unbought /\ NoEntry
    BY <2>1 DEF Purchase
  <2>4. Unbought' /\ Account'
    BY <2>1, <2>3, AccountKept
  <2>5. /\ \A o \in resting' :
             \/ o.kind = "entry" /\ o.sig = last /\ o.part = 1 /\ o.qty = Amount
             \/ o \in resting
        /\ w'.pc = "poll" \/ (w'.pc = "rollback" /\ resting' = resting)
    <3> DEFINE e == [Order("entry", w.sig, Size) EXCEPT !.part = w.part]
    <3>1. e.kind = "entry" /\ e.sig = last /\ e.part = 1 /\ e.qty = Amount
      BY <1>0, <2>1 DEF Order
    <3>2. \/ resting' = resting \cup {e} /\ Goto("poll")
          \/ resting' = resting /\ w' = [w EXCEPT !.pc = "rollback"]
      BY <1>0, <1>3 DEF Submit, Raised
    <3> HIDE DEF e
    <3> QED
      BY <1>0, <3>1, <3>2 DEF Goto, Workers
  <2> QED
    BY <2>1, <2>2, <2>3, <2>4, <2>5 DEF WholeOnly, Purchase, NoEntry
<1>4. ASSUME UNCHANGED <<held, feed, d, pos, resting, exits, killAsked, api, adj, last, filled>>,
             w'.pc \in {"submit", "refetch", "market", "rollback"} => Unbought /\ NoEntry,
             w'.pc = "refetch" => filled[last][1] = 0,
             w'.pc \in {"poll", "cancel", "final"} => \/ filled[last][1] = 0 /\ Unbought
                                                      \/ filled[last][1] = Amount /\ ~Unbought,
             w'.pc = "settle" => \/ w'.got = 0 /\ (w'.st = "open" \/ (Unbought /\ NoEntry))
                                 \/ w'.got = Amount /\ ~Unbought,
             w'.pc \in {"market", "report", "stop", "target", "flatten"} => w'.got = Amount,
             w'.pc \notin {"oco", "unprotect", "kill"}
      PROVE  Goal
  <2>1. Account' /\ (Unbought' <=> Unbought) /\ (NoEntry' <=> NoEntry)
    BY <1>4, AccountKept DEF NoEntry
  <2> QED
    BY <1>4, <2>1 DEF WholeOnly, Purchase
<1>5. CASE Poll \/ FetchFinal
  <2>1. /\ UNCHANGED <<held, feed, d, pos, resting, exits, killAsked, api, adj, last, filled>>
        /\ w.pc \in {"poll", "final"}
        /\ w' \in {Fetched, Unfetched} \/ (w' = [w EXCEPT !.pc = "cancel"] /\ w.pc = "poll")
    BY <1>5 DEF Poll, FetchFinal
  <2>2. CASE w' = [w EXCEPT !.pc = "cancel"]
    <3>1. w'.pc = "cancel"
      BY <1>0, <2>2 DEF Workers
    <3> QED
      BY <1>4, <2>1, <3>1 DEF Purchase
  <2>3. CASE w' \in {Fetched, Unfetched}
    <3>1. /\ w'.pc = "settle"
          /\ \/ w'.got = 0 /\ (w'.st = "open" \/ (Unbought /\ NoEntry))
             \/ w'.got = Amount /\ ~Unbought
      <4>1. CASE w' = Unfetched
        <5>1. w' = [w EXCEPT !.pc = "settle", !.got = 0, !.st = "open"]
          BY <2>1, <4>1, FetchedWhole
        <5> QED
          BY <1>0, <5>1 DEF Workers
      <4>2. CASE w' = Fetched /\ Unbought
        <5>1. PICK st \in {"open", "canceled"} :
                /\ w' = [w EXCEPT !.pc = "settle", !.got = 0, !.st = st]
                /\ st = "canceled" => NoEntry
          BY <2>1, <4>2, FetchedWhole
        <5> QED
          BY <1>0, <4>2, <5>1 DEF Workers
      <4>3. CASE w' = Fetched /\ ~Unbought
        <5>1. w' = [w EXCEPT !.pc = "settle", !.got = Amount, !.st = "filled"]
          BY <2>1, <4>3, FetchedWhole
        <5> QED
          BY <1>0, <4>3, <5>1 DEF Workers
      <4> QED
        BY <2>3, <4>1, <4>2, <4>3
    <3> QED
      BY <1>4, <2>1, <3>1
  <2> QED
    BY <2>1, <2>2, <2>3
<1>6. ASSUME UNCHANGED <<held, feed, pos, exits, killAsked, api, adj, last, filled>>,
             resting' \subseteq resting, UNCHANGED <<d.pc, d.qty>>,
             \/ w' = w
             \/ Goto("final") /\ w.pc = "cancel"
             \/ Goto("idle")
             \/ /\ Goto("refetch") \/ Goto("rollback")
                /\ Unbought /\ NoEntry' /\ filled[last][1] = 0
      PROVE  Goal
  <2>1. Account' /\ (Unbought' <=> Unbought) /\ (NoEntry => NoEntry')
    BY <1>6, AccountKept DEF NoEntry
  <2>2. \/ w' = w
        \/ w'.pc = "final" /\ w.pc = "cancel"
        \/ w'.pc = "idle"
        \/ w'.pc \in {"refetch", "rollback"} /\ Unbought /\ NoEntry' /\ filled[last][1] = 0
    BY <1>0, <1>6, GotoType
  <2> QED
    BY <1>6, <2>1, <2>2 DEF WholeOnly, Purchase
<1>7. CASE CancelEntry \/ DropOrder
  <2>1. UNCHANGED <<held, feed, d, pos, exits, killAsked, api, adj, last, filled>>
        /\ w.sig = last /\ w.pc \in {"cancel", "drop"}
    BY <1>1, <1>7 DEF CancelEntry, DropOrder, Handlers
  <2>2. CASE Working # {} /\ resting' = resting \ Working
    <3>1. Unbought /\ filled[last][1] = 0
      BY <2>2 DEF Working, Resting, Purchase
    <3>2. NoEntry'
      BY <1>0, <2>1, <2>2 DEF Working, Resting, Purchase, NoEntry
    <3>3. \/ Goto("refetch") \/ Goto("rollback") \/ Goto("idle")
          \/ Goto("final") /\ w.pc = "cancel"
      BY <1>7, <2>1 DEF CancelEntry, DropOrder
    <3>4. resting' \subseteq resting
      BY <2>2
    <3> QED
      BY <1>6, <2>1, <3>1, <3>2, <3>3, <3>4
  <2>3. CASE resting' \in AfterFailedCancel(Working)
            /\ ((Goto("final") /\ w.pc = "cancel") \/ Goto("idle"))
    BY <1>6, <2>1, <2>3, FailedCancelOnly
  <2> QED
    BY <1>7, <2>2, <2>3 DEF CancelEntry, DropOrder
<1>8. CASE Refetch
  <2>0. w.pc = "refetch" /\ FilledOfIt = 0
    BY <1>0, <1>1, <1>8 DEF Refetch, FilledOfIt, Purchase, Handlers
  <2>1. /\ UNCHANGED <<held, feed, d, pos, resting, exits, killAsked, api, adj, last, filled>>
        /\ w' = [w EXCEPT !.pc = "market", !.got = Amount]
    <3>1. \A f \in {FilledOfIt} \cup (IF "refuse" \in may THEN {0} ELSE {}) : Size - f = Amount
      BY <1>0, <2>0
    <3> QED
      BY <1>8, <3>1 DEF Refetch
  <2>2. w'.pc = "market" /\ w'.got = Amount
    BY <1>0, <2>1 DEF Workers
  <2> QED
    BY <1>4, <2>0, <2>1, <2>2 DEF Purchase
<1>9. CASE MarketRemainder
  <2>1. /\ UNCHANGED <<feed, d, pos, resting, exits, killAsked, api, adj, last, filled>>
        /\ w.pc = "market" /\ w.got = Amount /\ Unbought /\ NoEntry
    BY <1>9 DEF MarketRemainder, WholeOnly, Purchase
  <2>2. CASE held' = held + w.got /\ w' = Answered(w.got, "filled")
    <3>1. w'.pc = "settle" /\ w'.got = Amount
      BY <1>0, <2>1, <2>2 DEF Answered, Workers
    <3>2. held' = Amount
      BY <1>0, <2>1, <2>2 DEF Unbought
    <3>3. Account' /\ ~Unbought' /\ NoEntry'
      BY <1>0, <2>1, <3>2 DEF Account, Unbought, NoEntry
    <3> QED
      BY <2>1, <3>1, <3>3 DEF WholeOnly, Purchase, NoEntry
  <2>3. CASE held' = held /\ w' = Raised
    <3>1. w'.pc = "rollback"
      BY <1>0, <2>3 DEF Raised, Workers
    <3> QED
      BY <1>4, <2>1, <2>3, <3>1
  <2> QED
    BY <1>0, <1>9, <2>2, <2>3 DEF MarketRemainder
<1>10. CASE Rebase
  <2>1. /\ UNCHANGED <<held, feed, d, resting, exits, killAsked, api, adj, last, filled>>
        /\ w.pc = "settle" /\ w.got = Amount /\ ~Unbought /\ NoEntry
    BY <1>0, <1>10 DEF Rebase, Purchase, NoEntry
  <2>2. CASE pos.kind = "none"
    <3>1. pos' = pos /\ w'.pc = "idle"
      BY <1>0, <1>10, <2>2, GotoType DEF Rebase
    <3> QED
      BY <1>4, <2>1, <3>1
  <2>3. CASE pos.kind # "none"
    <3>1. pos'.kind = "open" /\ pos'.qty = Amount
      BY <1>0, <1>10, <2>1, <2>3 DEF Rebase, Positions
    <3>2. w'.pc = "report" /\ w'.got = Amount
      BY <1>0, <1>10, <2>1, <2>3, GotoType DEF Rebase
    <3>3. Account'
      BY <1>0, <2>1, <2>3, <3>1 DEF Account, Unbought, Positions
    <3> QED
      BY <2>1, <3>1, <3>2, <3>3 DEF WholeOnly, Purchase, NoEntry
  <2> QED
    BY <2>2, <2>3
<1>11. CASE Unfilled
  <2>1. /\ UNCHANGED <<held, feed, d, pos, resting, exits, killAsked, api, adj, last, filled>>
        /\ w.pc = "settle" /\ w.got = 0
        /\ w'.pc = IF w.st = "open" THEN "drop" ELSE "rollback"
    BY <1>0, <1>11, GotoType DEF Unfilled
  <2> QED
    BY <1>0, <1>4, <2>1 DEF Purchase
<1>12. CASE Rollback
  <2>1. /\ UNCHANGED <<held, feed, d, resting, exits, killAsked, api, adj, last, filled>>
        /\ w'.pc = "idle" /\ Unbought /\ NoEntry /\ pos'.kind = "none"
    BY <1>0, <1>12, GotoType DEF Rollback, Purchase, NoPosition, Unbought
  <2> QED
    BY <2>1 DEF Account, WholeOnly, Purchase, Unbought, NoEntry
<1>27. CASE Report
  <2>1. /\ UNCHANGED <<held, feed, d, pos, resting, exits, killAsked, api, adj, last, filled>>
        /\ w.pc = "report" /\ w.got = Amount /\ w'.pc = "stop" /\ w'.got = w.got
    BY <1>0, <1>27, GotoType DEF Report, WholeOnly
  <2> QED
    BY <1>4, <2>1
<1>13. CASE PlaceStop \/ PlaceTarget
  <2>1. /\ UNCHANGED <<held, feed, d, pos, exits, killAsked, api, adj, last, filled>>
        /\ w.pc \in {"stop", "target"} /\ w.got = Amount
        /\ w'.pc \in {"target", "idle", "flatten"} /\ w'.got = Amount
    BY <1>0, <1>13, GotoType DEF PlaceStop, PlaceTarget, WholeOnly
  <2>2. \A o \in resting' : o \in resting \/ (o.kind # "entry" /\ o.qty = Amount)
    <3>1. ASSUME NEW k \in {"stop", "target"}
          PROVE  Order(k, w.sig, w.got).kind # "entry" /\ Order(k, w.sig, w.got).qty = Amount
      BY <2>1 DEF Order
    <3>2. \E k \in {"stop", "target"} : resting' \subseteq resting \cup {Order(k, w.sig, w.got)}
      BY <1>13 DEF PlaceStop, PlaceTarget
    <3> QED
      BY <3>1, <3>2
  <2>3. Account' /\ (Unbought' <=> Unbought)
    BY <2>1, AccountKept
  <2> QED
    BY <2>1, <2>2, <2>3 DEF WholeOnly, Purchase
<1>14. CASE Flatten
  <2>1. /\ UNCHANGED <<feed, d, resting, exits, killAsked, api, adj, last, filled>>
        /\ w'.pc = "idle" /\ w.got = Amount /\ w.pc = "flatten" /\ pos.kind # "pending"
    BY <1>0, <1>1, <1>14, GotoType DEF Flatten, WholeOnly, Handlers
  <2>2. NoEntry
    BY <2>1 DEF Purchase, NoEntry, Unbought
  <2>3. CASE UNCHANGED <<held, pos>>
    BY <1>4, <2>1, <2>3
  <2>4. CASE held > 0 /\ held' = held - Least(w.got, held) /\ pos' = NoPosition
    <3>1. held = Amount /\ held' = 0 /\ pos'.kind = "none"
      BY <1>0, <2>1, <2>4 DEF Account, Least, NoPosition
    <3>2. Account'
      BY <1>0, <2>1, <3>1 DEF Account
    <3> QED
      BY <2>1, <2>2, <3>1, <3>2 DEF WholeOnly, Purchase, NoEntry
  <2> QED
    BY <1>0, <1>14, <2>3, <2>4 DEF Flatten
<1>15. CASE \/ HandleKill \/ FinishExit \/ Unprotect \/ FinishKill
            \/ Kill \/ ApiCancelsOrders \/ ApiForgets \/ AdjustCancel \/ AdjustPlace
  BY <1>0, <1>15 DEF HandleKill, FinishExit, Unprotect, FinishKill, Kill, ApiCancelsOrders,
                     ApiForgets, AdjustCancel, AdjustPlace, WholeOnly
<1>16. ASSUME NEW k \in {"stop", "target"}, Tick(k) \/ HandleExit(k) PROVE Goal
  BY <1>0, <1>16 DEF Tick, HandleExit, WholeOnly
<1>17. ASSUME NEW o, ExpireEntry(o) PROVE Goal
  <2>1. resting' \subseteq resting
        /\ UNCHANGED <<held, feed, d, pos, exits, killAsked, api, adj, last, filled, w>>
    BY <1>17 DEF ExpireEntry
  <2> QED
    BY <1>6, <2>1
<1>18. ASSUME NEW o \in resting, Trigger(o) PROVE Goal
  <2>1. /\ UNCHANGED <<d, pos, exits, killAsked, api, adj, last, filled, w>>
        /\ resting' = resting \ {o} /\ o.qty = Amount /\ o.kind # "entry" /\ held > 0
        /\ held' = held - Least(o.qty, held)
        /\ feed' = feed \cup {o}
    BY <1>18 DEF Trigger, WholeOnly
  <2>2. held = Amount /\ feed = {} /\ d.pc # "book" /\ pos.kind # "none" /\ held' = 0
    BY <1>0, <2>1 DEF Account, Least
  <2>3. feed' = {o} /\ o.kind # "part"
    BY <1>0, <2>1, <2>2 DEF Orders, Kinds
  <2>4. Account' /\ ~Unbought /\ ~Unbought' /\ feed' # {}
    BY <1>0, <2>1, <2>2, <2>3 DEF Account, Unbought
  <2>5. NoEntry /\ NoEntry'
    BY <2>1, <2>4 DEF Purchase, NoEntry
  <2> QED
    BY <2>1, <2>4, <2>5 DEF WholeOnly, Purchase, NoEntry
<1>19. ASSUME NEW o \in resting, NEW q \in 1..Amount, FillEntry(o, q) PROVE Goal
  <2>1. /\ o.kind = "entry" /\ o.sig = last /\ o.part = 1 /\ q = Amount /\ o.qty = Amount
        /\ filled[last][1] = 0 /\ Unbought /\ last \in Signals /\ 1 \in Parts
        /\ UNCHANGED <<d, pos, exits, killAsked, api, adj, last, w>>
    BY <1>0, <1>19 DEF FillEntry, WholeOnly, Purchase, Orders
  <2>2. held' = Amount /\ feed' = feed /\ resting' = resting \ {o}
    BY <1>0, <1>19, <2>1 DEF FillEntry, Unbought
  <2>3. filled'[last][1] = Amount
    <3>1. filled[last] \in [Parts -> 0..Amount]
      BY <1>1, <2>1 DEF TypeOK
    <3>2. filled' = [filled EXCEPT ![last][1] = @ + Amount]
      BY <1>19, <2>1 DEF FillEntry
    <3> QED
      BY <1>0, <1>1, <2>1, <3>1, <3>2 DEF TypeOK
  <2>4. NoEntry'
    <3>1. \A x \in resting : x.kind = "entry" => x = o
      BY <1>1, <2>1 DEF Purchase, Entries
    <3> QED
      BY <2>2, <3>1 DEF NoEntry
  <2>5. Account' /\ ~Unbought'
    BY <1>0, <2>1, <2>2 DEF Account, Unbought
  <2>6. w.pc \notin {"submit", "refetch", "market", "rollback"}
    BY <1>19, <2>1 DEF Purchase, NoEntry
  <2>7. w.pc = "settle" => w.got = 0 /\ w.st = "open"
    BY <1>19, <2>1 DEF Purchase, NoEntry
  <2> QED
    BY <2>1, <2>2, <2>3, <2>4, <2>5, <2>6, <2>7 DEF WholeOnly, Purchase, NoEntry
<1>20. ASSUME NEW m \in feed, DeliverTrigger(m) PROVE Goal
  <2>1. /\ UNCHANGED <<held, d, exits, killAsked, api, adj, last, filled, w, resting>>
        /\ feed' = feed \ {m}
    BY <1>20 DEF DeliverTrigger
  <2>2. held = 0 /\ feed = {m} /\ d.pc # "book" /\ pos.kind # "none"
    BY DEF Account
  <2>3. pos'.kind = "none" /\ feed' = {}
    BY <1>0, <1>20, <2>1, <2>2 DEF DeliverTrigger, NoPosition
  <2>4. Account' /\ ~Unbought /\ ~Unbought' /\ NoEntry
    BY <2>1, <2>2, <2>3 DEF Account, Unbought, Purchase, NoEntry
  <2> QED
    BY <2>1, <2>3, <2>4 DEF WholeOnly, Purchase, NoEntry
<1>21. CASE FinishTrigger
  <2>1. resting' \subseteq resting
        /\ UNCHANGED <<held, feed, d, pos, exits, killAsked, api, adj, last, filled, w>>
    BY <1>21, CancelledOnly DEF FinishTrigger, CancelOpposite
  <2> QED
    BY <1>6, <2>1
<1>22. ASSUME NEW m \in feed, DeliverPart(m) PROVE Goal
  BY <1>22 DEF DeliverPart, Account
<1>23. CASE StartClose
  <2>1. /\ UNCHANGED <<held, feed, pos, exits, killAsked, api, adj, last, filled, w, resting>>
        /\ d.pc = "idle" /\ d'.pc = "close" /\ d'.qty = Amount
    BY <1>23 DEF StartClose, WholeOnly, NoClose
  <2>2. Account' /\ (Unbought' <=> Unbought)
    BY <2>1, AccountKept
  <2> QED
    BY <2>1, <2>2 DEF WholeOnly, Purchase, NoEntry
<1>24. CASE SendClose
  <2>1. /\ UNCHANGED <<feed, pos, exits, killAsked, api, adj, last, filled, w, resting>>
        /\ d.pc = "close" /\ d.qty = Amount
    BY <1>24 DEF SendClose, WholeOnly
  <2>2. CASE held > 0 /\ held' = held - Least(d.qty, held) /\ d' = [d EXCEPT !.pc = "book"]
    <3>1. d'.pc = "book"
      BY <1>1, <2>2 DEF TypeOK, Closes
    <3>2. held = Amount /\ held' = 0 /\ feed = {} /\ pos.kind # "none"
      BY <1>0, <2>1, <2>2 DEF Account, Least
    <3>3. Account' /\ ~Unbought /\ ~Unbought' /\ NoEntry
      BY <1>0, <2>1, <3>1, <3>2 DEF Account, Unbought, Purchase, NoEntry
    <3> QED
      BY <2>1, <3>1, <3>3 DEF WholeOnly, Purchase, NoEntry
  <2>3. CASE held' = held /\ d' = [NoClose EXCEPT !.cancels = d.cancels]
    <3>1. d'.pc = "idle"
      BY <2>3 DEF NoClose
    <3>2. Account' /\ (Unbought' <=> Unbought)
      BY <2>1, <2>3, <3>1, AccountKept
    <3> QED
      BY <2>1, <2>3, <3>1, <3>2 DEF WholeOnly, Purchase, NoEntry
  <2> QED
    BY <1>0, <1>24, <2>2, <2>3 DEF SendClose
<1>28. CASE CancelProtection
  <2>1. /\ UNCHANGED <<held, feed, pos, exits, killAsked, api, adj, last, filled, w>>
        /\ resting' \subseteq resting
    BY <1>28, CancelledOnly DEF CancelProtection
  <2>2. d'.pc = d.pc /\ (d.pc = "close" => d'.qty = d.qty)
    <3>1. d \in Closes
      BY <1>1 DEF TypeOK
    <3>2. CASE d.pc = "idle"
      BY <1>28, <3>2 DEF CancelProtection, NoClose
    <3>3. CASE d.pc # "idle"
      <4>1. \E g : d' = [d EXCEPT !.cancels = FALSE, !.gone = g]
        BY <1>28, <3>3 DEF CancelProtection
      <4> QED
        BY <3>1, <4>1 DEF Closes
    <3> QED
      BY <3>2, <3>3
  <2>3. Account' /\ (Unbought' <=> Unbought) /\ (NoEntry => NoEntry')
    BY <2>1, <2>2, AccountKept DEF NoEntry
  <2> QED
    BY <2>1, <2>2, <2>3 DEF WholeOnly, Purchase
<1>25. CASE BookClose
  <2>1. /\ UNCHANGED <<held, feed, exits, killAsked, api, adj, last, filled, w, resting>>
        /\ d.pc = "book" /\ d'.pc = "idle" /\ pos'.kind = "none"
    BY <1>25 DEF BookClose, NoPosition, NoClose
  <2>2. Account' /\ ~Unbought /\ ~Unbought' /\ NoEntry
    BY <2>1 DEF Account, Unbought, Purchase, NoEntry
  <2> QED
    BY <2>1, <2>2 DEF WholeOnly, Purchase, NoEntry
<1>26. CASE Release \/ UNCHANGED vars
  <2>1. UNCHANGED <<held, feed, d, pos, resting, exits, killAsked, api, adj, last, filled, w>>
    BY <1>26 DEF Release, vars
  <2> QED
    BY <1>6, <2>1
<1> QED
  BY <1>2, <1>3, <1>5, <1>7, <1>8, <1>9, <1>10, <1>11, <1>12, <1>13, <1>14, <1>15, <1>16, <1>17,
     <1>18, <1>19, <1>20, <1>21, <1>22, <1>23, <1>24, <1>25, <1>26, <1>27, <1>28
     DEF Next, Work, Calls

\* What an execution of entries in parts excludes.
LEMMA PartsFacts ==
  ASSUME IInv, InParts
  PROVE  /\ {"lose", "split", "tick", "manual", "kill", "again", "limit", "renamed"} \cap may = {}
         /\ Iceberg /\ Found /\ Size \in Nat /\ Size > 0
         /\ held \in Nat /\ w \in Workers /\ w.sum \in Nat /\ w.got \in Nat
         /\ w.part \in Nat /\ Chunks \in Nat /\ pos \in Positions /\ pos.qty \in Nat
         /\ \A o \in resting : o \in Orders
BY SizeOfParts, ConstantsAssumption
   DEF IInv, TypeOK, InParts, Iceberg, Found, Workers, Positions, Parts

\* Whatever a part bought is added to the sum, or is the whole of what was got.
LEMMA NextPartShape ==
  ASSUME IInv, InParts, NEW g \in Nat, NEW v, v = NextPart(g)
  PROVE  \/ v.pc = "submit" /\ v.sum = w.sum + g
         \/ v.pc = "settle" /\ v.got = w.sum + g /\ v.st # "open"
<1>1. w \in Workers
  BY PartsFacts
<1>2. CASE w.part < Chunks
  <2>1. v = [w EXCEPT !.pc = "submit", !.part = @ + 1, !.sum = w.sum + g]
    BY <1>2 DEF NextPart
  <2> QED
    BY <1>1, <2>1 DEF Workers
<1>3. CASE ~(w.part < Chunks)
  <2>1. v = [w EXCEPT !.pc = "settle", !.got = w.sum + g,
                      !.st = IF w.sum + g = 0 THEN "canceled" ELSE "filled"]
    BY <1>3 DEF NextPart
  <2> QED
    BY <1>1, <2>1 DEF Workers
<1> QED
  BY <1>2, <1>3

\* There, until an operator is told, every step keeps the account of the parts.
LEMMA PartsStep ==
  ASSUME IInv, InParts, PartAtWork, PartsSettled, Alone, alarmed = {}, [Next]_vars,
         alarmed' = {}
  PROVE  PartAtWork' /\ PartsSettled' /\ Alone'
<1> USE DEF history, exchange, others, Handling, Resigned
<1> DEFINE Goal == PartAtWork' /\ PartsSettled' /\ Alone'
<1>0. /\ {"lose", "split", "tick", "manual", "kill", "again", "limit", "renamed"} \cap may = {}
      /\ Iceberg /\ Found /\ Size \in Nat /\ Size > 0
      /\ held \in Nat /\ w \in Workers /\ w.sum \in Nat /\ w.got \in Nat
      /\ w.part \in Nat /\ Chunks \in Nat /\ pos \in Positions /\ pos.qty \in Nat
      /\ \A o \in resting : o \in Orders
  BY PartsFacts
<1>1. TypeOK /\ Handlers /\ Entries
  BY DEF IInv
<1>2. Size' = Size
  BY WorkerAdvances DEF Approve, Advances, Size, Iceberg
<1>3. ~Alarm
  BY DEF Alarm
<1>4. CASE Approve
  <2>1. last = 0 /\ w.pc = "idle"
    BY <1>0, <1>1, <1>4 DEF Approve, TypeOK
  <2>2. /\ w'.pc = "submit" /\ w'.sum = 0 /\ pos'.kind = "pending"
        /\ UNCHANGED <<resting, held, feed, d, exits, killAsked, api, adj>>
    BY <1>4 DEF Approve
  <2> QED
    BY <2>1, <2>2 DEF PartAtWork, PartsSettled, Alone
<1>5. ASSUME UNCHANGED <<feed, pos, exits, killAsked, api, adj, d>>, resting' = {}, NEW g \in Nat,
             w' = NextPart(g), held' = w.sum + g, feed = {}, pos.kind = "pending"
      PROVE  Goal
  <2>1. \/ w'.pc = "submit" /\ w'.sum = w.sum + g
        \/ w'.pc = "settle" /\ w'.got = w.sum + g /\ w'.st # "open"
    BY <1>5, NextPartShape
  <2> QED
    BY <1>5, <2>1 DEF PartAtWork, PartsSettled, Alone
<1>6. CASE Submit
  <2>1. /\ UNCHANGED <<held, feed, pos, exits, killAsked, api, adj, d, filled, last>>
        /\ w.pc = "submit" /\ w.sig = last /\ last \in Signals /\ w.part \in Parts
        /\ resting = {} /\ held = w.sum /\ feed = {} /\ pos.kind = "pending"
    BY <1>0, <1>1, <1>6 DEF Submit, Handlers, PartAtWork, Workers
  <2>2. CASE resting' = resting /\ w' = Raised
    BY <1>0, <1>5, <2>1, <2>2 DEF Raised
  <2>3. CASE Goto("poll") /\ resting' = resting \cup {[Order("entry", w.sig, Size)
                                                         EXCEPT !.part = w.part]}
    <3> DEFINE e == [Order("entry", w.sig, Size) EXCEPT !.part = w.part]
    <3>1. e.kind = "entry" /\ e.sig = last /\ e.part = w.part /\ e.qty = Size
      BY <2>1 DEF Order
    <3>2. resting' = {e}
      BY <2>1, <2>3
    <3>3. w'.pc = "poll" /\ w'.sum = w.sum /\ w'.sig = last /\ w'.part = w.part
      BY <1>0, <2>1, <2>3, GotoType
    <3>4. filled[last][w.part] = 0
      BY <1>1, <2>1 DEF Entries, Unsent
    <3>5. FilledOfIt' = 0
      BY <2>1, <3>3, <3>4 DEF FilledOfIt
    <3> HIDE DEF e
    <3> QED
      BY <1>0, <1>2, <2>1, <3>1, <3>2, <3>3, <3>5 DEF PartAtWork, PartsSettled, Alone
  <2> QED
    BY <1>0, <1>6, <2>2, <2>3 DEF Submit
<1>7. CASE Poll
  <2>1. /\ UNCHANGED <<held, feed, pos, resting, exits, killAsked, api, adj, d, filled, last>>
        /\ w.pc = "poll" /\ w.sig = last /\ FilledOfIt \in {0, Size} /\ held = w.sum + FilledOfIt
        /\ feed = {} /\ pos.kind = "pending"
    BY <1>0, <1>1, <1>7 DEF Poll, Handlers, PartAtWork
  <2>2. CASE FilledOfIt > 0 /\ w' = Fetched
    <3>1. FilledOfIt = Size /\ resting = {}
      BY <1>0, <2>1, <2>2 DEF PartAtWork
    <3>2. w' = NextPart(Size)
      BY <1>0, <2>2, <3>1 DEF Fetched, Answered
    <3> QED
      BY <1>0, <1>5, <2>1, <3>1, <3>2
  <2>3. CASE w' = [w EXCEPT !.pc = "cancel"]
    <3>1. w'.pc = "cancel" /\ w'.sum = w.sum /\ w'.sig = w.sig /\ w'.part = w.part
      BY <1>0, <2>3 DEF Workers
    <3>2. FilledOfIt' = FilledOfIt
      BY <2>1, <3>1 DEF FilledOfIt
    <3> QED
      BY <1>0, <1>2, <2>1, <3>1, <3>2 DEF PartAtWork, PartsSettled, Alone
  <2> QED
    BY <1>0, <1>7, <2>2, <2>3 DEF Poll
<1>8. CASE CancelEntry
  <2>1. /\ UNCHANGED <<held, feed, pos, exits, killAsked, api, adj, d, filled, last>>
        /\ w.pc = "cancel" /\ w.sig = last
        /\ Working # {} /\ resting' = resting \ Working /\ Goto("refetch")
    BY <1>1, <1>3, <1>8 DEF CancelEntry, Handlers
  <2>2. FilledOfIt = 0 /\ resting' = {}
    BY <2>1 DEF PartAtWork, Working, Resting
  <2>3. w'.pc = "refetch" /\ w'.sum = w.sum
    BY <1>0, <2>1, GotoType
  <2> QED
    BY <1>0, <2>1, <2>2, <2>3 DEF PartAtWork, PartsSettled, Alone
<1>9. CASE Refetch
  <2>1. /\ UNCHANGED <<held, feed, pos, resting, exits, killAsked, api, adj, d, filled, last>>
        /\ w.pc = "refetch" /\ \E f : w' = [w EXCEPT !.pc = "market", !.got = Size - f]
    BY <1>9 DEF Refetch
  <2>2. w'.pc = "market" /\ w'.sum = w.sum
    BY <1>0, <2>1 DEF Workers
  <2> QED
    BY <2>1, <2>2 DEF PartAtWork, PartsSettled, Alone
<1>10. CASE MarketRemainder
  <2>1. /\ UNCHANGED <<feed, pos, resting, exits, killAsked, api, adj, d>>
        /\ resting = {} /\ held = w.sum /\ feed = {} /\ pos.kind = "pending"
    BY <1>10 DEF MarketRemainder, PartAtWork
  <2>2. \/ held' = held + w.got /\ w' = NextPart(w.got)
        \/ held' = held /\ w' = NextPart(0)
    BY <1>0, <1>10 DEF MarketRemainder, Answered, Raised
  <2> QED
    BY <1>0, <1>5, <2>1, <2>2
<1>11. CASE Rebase
  <2>1. /\ UNCHANGED <<held, feed, resting, exits, killAsked, api, adj, d, last>>
        /\ w.pc = "settle" /\ held = w.got /\ resting = {} /\ feed = {} /\ pos.kind = "pending"
        /\ pos' = [pos EXCEPT !.kind = "open", !.qty = w.got] /\ Goto("report")
    BY <1>11 DEF Rebase, PartAtWork
  <2>2. pos'.kind = "open" /\ pos'.qty = w.got /\ w'.pc = "report" /\ w'.got = w.got
    BY <1>0, <2>1, GotoType DEF Positions
  <2> QED
    BY <2>1, <2>2 DEF PartAtWork, PartsSettled, Alone
<1>29. CASE Report
  <2>1. /\ UNCHANGED <<held, feed, pos, resting, exits, killAsked, api, adj, d, last>>
        /\ w.pc = "report" /\ w'.pc = "stop" /\ w'.got = w.got
    BY <1>0, <1>29, GotoType DEF Report
  <2> QED
    BY <2>1 DEF PartAtWork, PartsSettled, Alone
<1>12. CASE Unfilled
  <2>1. /\ UNCHANGED <<held, feed, pos, resting, exits, killAsked, api, adj, d, last>>
        /\ w.pc = "settle" /\ w.got = 0 /\ w.st # "open" /\ Goto("rollback")
    BY <1>12 DEF Unfilled, PartAtWork
  <2>2. w'.pc = "rollback" /\ w'.got = 0
    BY <1>0, <2>1, GotoType
  <2> QED
    BY <2>1, <2>2 DEF PartAtWork, PartsSettled, Alone
<1>13. CASE Rollback
  <2>1. /\ UNCHANGED <<held, feed, resting, exits, killAsked, api, adj, d, last>>
        /\ w'.pc = "idle" /\ pos'.kind = "none" /\ held = 0 /\ resting = {} /\ feed = {}
        /\ last \in Signals
    BY <1>0, <1>1, <1>13, GotoType DEF Rollback, PartAtWork, NoPosition, Handlers
  <2> QED
    BY <2>1 DEF PartAtWork, PartsSettled, Alone, NoEntry, Signals
<1>14. CASE PlaceStop
  <2>1. /\ UNCHANGED <<held, feed, pos, exits, killAsked, api, adj, d, last>>
        /\ w.pc = "stop" /\ resting = {} /\ feed = {} /\ pos.kind = "open"
        /\ held = pos.qty /\ held = w.got
    BY <1>14 DEF PlaceStop, PartsSettled
  <2>2. CASE Goto("flatten") /\ resting' = resting
    BY <1>0, <2>1, <2>2, GotoType DEF PartAtWork, PartsSettled, Alone
  <2>3. CASE Goto("target") /\ resting' = resting \cup {Order("stop", w.sig, w.got)}
    <3> DEFINE e == Order("stop", w.sig, w.got)
    <3>1. e.kind = "stop" /\ e.qty = w.got /\ resting' = {e}
      BY <2>1, <2>3 DEF Order
    <3>2. w'.pc = "target" /\ w'.got = w.got
      BY <1>0, <2>3, GotoType
    <3> HIDE DEF e
    <3> QED
      BY <2>1, <3>1, <3>2 DEF PartAtWork, PartsSettled, Alone, NoEntry
  <2> QED
    BY <1>0, <1>3, <1>14, <2>2, <2>3 DEF PlaceStop
<1>15. CASE PlaceTarget
  <2>1. /\ UNCHANGED <<held, feed, pos, exits, killAsked, api, adj, d, last>>
        /\ w.pc = "target" /\ w'.pc = "idle" /\ last \in Signals
    BY <1>0, <1>1, <1>15, GotoType DEF PlaceTarget, Handlers
  <2> DEFINE e == Order("target", w.sig, w.got)
  <2>2. e.kind = "target" /\ e.qty = w.got /\ resting' \subseteq resting \cup {e}
    BY <1>15 DEF PlaceTarget, Order
  <2> HIDE DEF e
  <2> QED
    BY <2>1, <2>2 DEF PartAtWork, PartsSettled, Alone, NoEntry, Signals
<1>16. CASE FetchFinal \/ DropOrder \/ FinishExit \/ Unprotect \/ FinishKill
  BY <1>16 DEF FetchFinal, DropOrder, FinishExit, Unprotect, FinishKill, PartAtWork
<1>17. CASE Flatten
  BY <1>3, <1>17 DEF Flatten
<1>18. CASE HandleKill \/ Kill \/ ApiCancelsOrders \/ ApiForgets \/ AdjustCancel \/ AdjustPlace
  BY <1>0, <1>18 DEF HandleKill, Kill, ApiCancelsOrders, ApiForgets, AdjustCancel, AdjustPlace,
                     Alone
<1>19. ASSUME NEW k \in {"stop", "target"}, Tick(k) \/ HandleExit(k) PROVE Goal
  BY <1>0, <1>19 DEF Tick, HandleExit, Alone
<1>20. ASSUME resting' \subseteq resting,
              UNCHANGED <<held, feed, pos, exits, killAsked, api, adj, d, filled, last, w>>
       PROVE  Goal
  <2>1. FilledOfIt' = FilledOfIt
    BY <1>20 DEF FilledOfIt
  <2> QED
    BY <1>2, <1>20, <2>1 DEF PartAtWork, PartsSettled, Alone, NoEntry
<1>21. ASSUME NEW o, ExpireEntry(o) PROVE Goal
  BY <1>20, <1>21 DEF ExpireEntry
<1>22. ASSUME NEW o \in resting, Trigger(o) PROVE Goal
  <2>1. /\ UNCHANGED <<pos, exits, killAsked, api, adj, d, filled, last, w>>
        /\ resting' \subseteq resting /\ o.kind # "entry" /\ held > 0
        /\ held' = held - Least(o.qty, held)
        /\ feed' = feed \cup {o}
    BY <1>22 DEF Trigger
  <2>2. w.pc = "target" \/ (w.pc = "idle" /\ last > 0)
    BY <1>0, <1>1, <2>1, <1>22 DEF PartAtWork, PartsSettled, TypeOK, Workers
  <2>3. feed = {} /\ pos.kind = "open" /\ held' = 0
    BY <1>0, <2>1, <2>2, <1>22 DEF PartsSettled, Least
  <2>4. feed' = {o} /\ o.kind # "part"
    BY <1>0, <2>1, <2>3, <1>22 DEF Orders, Kinds
  <2>5. PartsSettled' /\ Alone'
    BY <2>1, <2>2, <2>3, <2>4 DEF PartsSettled, Alone, NoEntry
  <2> QED
    BY <2>1, <2>2, <2>5 DEF PartAtWork, Handling
<1>23. ASSUME NEW o \in resting, NEW q \in 1..Amount, FillEntry(o, q) PROVE Goal
  <2>1. /\ o.kind = "entry" /\ q = o.qty /\ held' = held + q
        /\ UNCHANGED <<pos, exits, killAsked, api, adj, d, last, w>>
        /\ filled' = [filled EXCEPT ![o.sig][o.part] = @ + q]
    BY <1>0, <1>23 DEF FillEntry
  <2>2. w.pc \in {"poll", "cancel"} /\ o.sig = last /\ w.sig = last /\ o.part = w.part
        /\ o.qty = Size /\ FilledOfIt = 0 /\ last \in Signals /\ w.part \in Parts
    BY <1>0, <1>1, <2>1, <1>23 DEF PartAtWork, PartsSettled, NoEntry, TypeOK, Workers, Handlers
  <2>3. feed' = feed /\ resting' = resting \ {o}
    BY <1>0, <1>23, <2>1, <2>2 DEF FillEntry
  <2>4. resting' = {}
    BY <1>1, <1>23, <2>1, <2>2, <2>3 DEF PartAtWork, Entries
  <2>5. filled'[last][w.part] = Size
    <3>1. filled[last] \in [Parts -> 0..Amount] /\ filled[last][w.part] = 0
      BY <1>1, <2>2 DEF TypeOK, FilledOfIt
    <3>2. filled' = [filled EXCEPT ![last][w.part] = @ + Size]
      BY <2>1, <2>2
    <3> QED
      BY <1>0, <1>1, <2>2, <3>1, <3>2 DEF TypeOK
  <2>6. FilledOfIt' = Size
    BY <2>1, <2>2, <2>5 DEF FilledOfIt
  <2> QED
    BY <1>0, <1>2, <2>1, <2>2, <2>3, <2>4, <2>6 DEF PartAtWork, PartsSettled, Alone
<1>24. ASSUME NEW m \in feed, DeliverTrigger(m) PROVE Goal
  <2>1. /\ UNCHANGED <<held, exits, killAsked, api, adj, d, filled, last, w, resting>>
        /\ feed' = feed \ {m}
    BY <1>24 DEF DeliverTrigger
  <2>2. w.pc = "target" \/ (w.pc = "idle" /\ last > 0)
    BY <1>0, <1>1 DEF PartAtWork, PartsSettled, TypeOK, Workers
  <2>3. held = 0 /\ feed = {m} /\ pos.kind # "none"
    BY <2>2 DEF PartsSettled
  <2>4. pos'.kind = "none" /\ feed' = {}
    BY <1>0, <1>24, <2>1, <2>3 DEF DeliverTrigger, NoPosition
  <2> QED
    BY <2>1, <2>2, <2>3, <2>4 DEF PartAtWork, PartsSettled, Alone, NoEntry
<1>25. CASE FinishTrigger
  BY <1>20, <1>25, CancelledOnly DEF FinishTrigger, CancelOpposite
<1>26. ASSUME NEW m \in feed, DeliverPart(m) PROVE Goal
  <2>1. w.pc = "target" \/ (w.pc = "idle" /\ last > 0)
    BY <1>0, <1>1 DEF PartAtWork, PartsSettled, TypeOK, Workers
  <2> QED
    BY <1>26, <2>1 DEF DeliverPart, PartsSettled
<1>27. CASE StartClose \/ SendClose \/ CancelProtection \/ BookClose
  BY <1>0, <1>27 DEF StartClose, SendClose, CancelProtection, BookClose, Alone, NoClose
<1>28. CASE Release \/ UNCHANGED vars
  BY <1>20, <1>28 DEF Release, vars
<1> QED
  BY <1>4, <1>6, <1>7, <1>8, <1>9, <1>10, <1>11, <1>12, <1>13, <1>14, <1>15, <1>16, <1>17,
     <1>18, <1>19, <1>21, <1>22, <1>23, <1>24, <1>25, <1>26, <1>27, <1>28, <1>29
     DEF Next, Work, Calls

\* An alert stays raised.
LEMMA AlertsStay == IInv /\ [Next]_vars => alarmed \subseteq alarmed'
<1> SUFFICES ASSUME IInv, [Next]_vars PROVE alarmed \subseteq alarmed'
  OBVIOUS
<1> USE DEF history, Alarm
<1>1. CASE Approve \/ Submit \/ Poll \/ CancelEntry \/ FetchFinal \/ Refetch \/ MarketRemainder
  BY <1>1 DEF Approve, Submit, Poll, CancelEntry, FetchFinal, Refetch, MarketRemainder
<1>2. CASE Rebase \/ Report \/ Unfilled \/ DropOrder \/ Rollback \/ PlaceStop \/ PlaceTarget
           \/ Flatten
  BY <1>2 DEF Rebase, Report, Unfilled, DropOrder, Rollback, PlaceStop, PlaceTarget, Flatten
<1>3. CASE FinishExit \/ Unprotect \/ FinishKill \/ HandleKill
  BY <1>3 DEF FinishExit, Unprotect, FinishKill, HandleKill
<1>4. ASSUME NEW k, NEW o, NEW q,
             Tick(k) \/ HandleExit(k) \/ ExpireEntry(o) \/ Trigger(o) \/ FillEntry(o, q)
      PROVE  alarmed \subseteq alarmed'
  BY <1>4 DEF Tick, HandleExit, ExpireEntry, Trigger, FillEntry
<1>5. ASSUME NEW m, \/ DeliverTrigger(m) \/ DeliverPart(m)
                    \/ FinishTrigger \/ AdjustCancel \/ AdjustPlace
      PROVE  alarmed \subseteq alarmed'
  BY <1>5 DEF DeliverTrigger, DeliverPart, FinishTrigger, AdjustCancel, AdjustPlace
<1>6. CASE StartClose \/ SendClose \/ CancelProtection \/ BookClose
  BY <1>6 DEF StartClose, SendClose, CancelProtection, BookClose
<1>7. CASE Kill \/ ApiCancelsOrders \/ ApiForgets \/ Release \/ UNCHANGED vars
  BY <1>7 DEF Kill, ApiCancelsOrders, ApiForgets, Release, vars
<1> QED
  BY <1>1, <1>2, <1>3, <1>4, <1>5, <1>6, <1>7 DEF Next, Work, Calls

BooksInv == ReservationWatched /\ CleanInv /\ PartsInv

\* The books agree at first,
LEMMA BooksInit == Init => BooksInv
<1> SUFFICES ASSUME Init PROVE BooksInv
  OBVIOUS
<1>1. CleanInv
  BY DEF Init, CleanInv, Account, WholeOnly, Purchase, NoPosition, NoAdjust, NoClose
<1>2. PartsInv
  BY DEF Init, PartsInv, PartAtWork, PartsSettled, Alone, Handling, NoPosition, NoAdjust
<1> QED
  BY <1>1, <1>2 DEF Init, BooksInv, ReservationWatched, NoPosition

\* and every step keeps what makes them agree.
LEMMA BooksStep == IInv /\ BooksInv /\ [Next]_vars => BooksInv'
<1> SUFFICES ASSUME IInv, BooksInv, [Next]_vars PROVE BooksInv'
  OBVIOUS
<1>1. may' = may
  BY WorkerAdvances DEF Approve, Advances
<1>2. CleanInv'
  BY <1>1, CleanStep DEF BooksInv, CleanInv, WholeEntries
<1>3. PartsInv'
  <2> SUFFICES ASSUME InParts', alarmed' = {} PROVE PartAtWork' /\ PartsSettled' /\ Alone'
    BY DEF PartsInv
  <2>1. InParts /\ alarmed = {}
    BY <1>1, AlertsStay DEF InParts, Iceberg
  <2> QED
    BY <2>1, PartsStep DEF BooksInv, PartsInv
<1> QED
  BY <1>2, <1>3, ReservationStep DEF BooksInv

\* The books and the exchange agree when nothing is under way: what is held is what is
\* tracked, unless an operator was told of the entry that is in doubt.  That is so after
\* any number of signals, refused calls, closes and triggers, where calls fail cleanly
\* and entries fill whole, and for an entry in parts, of which any may have failed.
THEOREM BooksMatch == Spec => []BooksAgree
<1>1. IInv /\ BooksInv => BooksAgree
  <2> SUFFICES ASSUME IInv, BooksInv, Clean, Quiet
               PROVE  \/ pos.kind = "none" /\ held = 0
                      \/ pos.kind = "open" /\ held = pos.qty
                      \/ pos.kind = "pending" /\ pos.sig \in alarmed
    BY DEF BooksAgree
  <2>1. pos.kind \in {"none", "pending", "open"} /\ last \in 0..MaxSignals
    BY DEF IInv, TypeOK, Positions
  <2>2. pos.kind = "pending" => pos.sig \in alarmed
    BY DEF BooksInv, ReservationWatched, Resigned, Quiet
  <2>3. CASE WholeEntries
    <3>1. Account /\ WholeOnly
      BY <2>3 DEF BooksInv, CleanInv
    <3>2. feed = {} /\ d.pc # "book"
      BY DEF Quiet, NoClose
    <3> QED
      BY <2>1, <2>2, <3>1, <3>2 DEF Account, WholeOnly
  <2>4. CASE ~WholeEntries
    <3>1. InParts /\ alarmed = {}
      BY <2>4 DEF Clean, WholeEntries, InParts, Iceberg
    <3>2. PartsSettled /\ w.pc = "idle" /\ feed = {} /\ (last = 0 \/ last > 0)
      BY <2>1, <3>1, ConstantsAssumption DEF BooksInv, PartsInv, Quiet
    <3> QED
      BY <3>2 DEF PartsSettled
  <2> QED
    BY <2>3, <2>4
<1> QED
  BY <1>1, BooksInit, BooksStep, Invariance, InitInv, NextInv, PTL DEF Spec
=============================================================================
