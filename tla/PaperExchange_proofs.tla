-------------------------- MODULE PaperExchange_proofs --------------------------
(***************************************************************************)
(* Theorems about paper trading and the order manager under it, for any    *)
(* number of orders, clients and restarts, any quantities and thresholds   *)
(* and any choice of environments.                                         *)
(***************************************************************************)
EXTENDS PaperExchange, SequenceTheorems, WellFoundedInduction, TLAPS

(***************************************************************************)
(* The inductive invariant.                                                *)
(***************************************************************************)
\* Neither in the book nor in the file is an order overfilled or from a life to come.
InBounds(r) == r.filled <= r.qty /\ r.life <= life
Bounded ==
  /\ \A o \in Orders : InBounds(orders[o])
  /\ \A o \in DOMAIN snapshot.orders : InBounds(snapshot.orders[o])

\* Before the first restart an order's client order id is remembered, and leads to it.
Keyed ==
  life = 0 =>
    \A o \in Orders : orders[o].kept /\ orders[o].client # Generated =>
      orders[o].client \in keys /\ index[orders[o].client] = o

\* An order at work keeps away the opposite ones, for the window, and those too that a
\* later fill may bring back to work; so do the orders of the file among themselves.
Opposes(r, s) == r.status \in ActiveStatus /\ s.status # "filled" /\ r.side # s.side
Apart(book, S) ==
  \A o, p \in S :
    o < p /\ Opposes(book[o], book[p])
      => book[p].made - book[o].made >= SelfTradeWindow \/ o \in revived
InBook == {o \in Orders : orders[o].kept}
NoCross == Apart(orders, InBook) /\ Apart(snapshot.orders, DOMAIN snapshot.orders)

\* The worker, the dashboard and a scheduled completion each have an order of their own,
\* that nobody else fills.
Unfilled(o) == o \in Orders /\ orders[o].filled = 0 /\ orders[o].status # "filled"
Owned ==
  /\ w.pc # "idle" => Unfilled(w.order)
  /\ d.pc # "idle" => Unfilled(d.order)
  /\ w.pc # "idle" /\ d.pc # "idle" => w.order # d.order
  /\ w.pc = "ack" => rest = 0 /\ orders[w.order].qty = Amount
  /\ rest # 0 =>
       /\ rest \in Orders /\ orders[rest].qty = Amount /\ orders[rest].status # "filled"
       /\ w.pc # "idle" => w.order # rest
       /\ d.pc # "idle" => d.order # rest

\* The position, if there is one, is of the entry that is under way, or an operator's; only
\* an operator's has its quantity from another order than its own.
Booked ==
  /\ pos.kind # "none" => pos.order \in Orders /\ pos.by \in Orders /\ pos.qty >= 1
  /\ pos.kind = "pending" => w.pc = "ack" /\ pos.order = w.order
  /\ w.pc = "ack" /\ pos.kind = "open" => pos.hand
  /\ rest # 0 /\ pos.kind = "open" => pos.order = rest \/ pos.hand
  /\ pos.kind = "open" => pos.by = pos.order \/ pos.hand

IInv ==
  /\ TypeOK /\ Bounded /\ Keyed /\ NoCross
  /\ Owned /\ Booked /\ PositionMatchesFill /\ PositionIsDurable

(***************************************************************************)
(* The list of the orders.                                                 *)
(***************************************************************************)
Rewritten(f) == f \in Seq(OrderRecords) /\ Len(f) = Len(orders) /\ DOMAIN f = Orders

\* The orders are numbered from one.
LEMMA OrderList ==
  ASSUME orders \in Seq(OrderRecords)
  PROVE  /\ Len(orders) \in Nat /\ Orders = 1..Len(orders)
         /\ orders \in [Orders -> OrderRecords]
BY LenProperties DEF Orders

\* A function that rewrites each order is again a list of orders.
LEMMA ListRewritten ==
  ASSUME orders \in Seq(OrderRecords), NEW f \in [Orders -> OrderRecords]
  PROVE  Rewritten(f)
<1>1. Len(orders) \in Nat /\ Orders = 1..Len(orders)
  BY OrderList
<1>2. f \in Seq(OrderRecords)
  BY <1>1, SeqDef
<1>3. Len(f) \in Nat /\ DOMAIN f = 1..Len(f)
  BY <1>2, LenProperties
<1>4. DOMAIN f = 1..Len(orders)
  BY <1>1
<1>5. \A m, n \in Nat : 1..m = 1..n => m = n
  <2> SUFFICES ASSUME NEW m \in Nat, NEW n \in Nat, 1..m = 1..n PROVE m = n
    OBVIOUS
  <2>1. (m > 0 => m \in 1..n) /\ (n > 0 => n \in 1..m)
    OBVIOUS
  <2> QED
    BY <2>1
<1> QED
  BY <1>1, <1>2, <1>3, <1>4, <1>5 DEF Rewritten

\* What a later state of an order shares with an earlier one.
Alike(r, s) ==
  /\ s.client = r.client /\ s.side = r.side /\ s.qty = r.qty
  /\ s.made = r.made /\ s.life = r.life

(***************************************************************************)
(* place_order.                                                            *)
(***************************************************************************)
\* The idempotency records and their file hold client order ids.
LEMMA RememberType ==
  ASSUME keys \subseteq Clients, savedKeys \subseteq Clients, savedAt \in {Never} \cup Nat, clock \in Nat,
         NEW client \in Clients \cup {Generated}, Remember(client)
  PROVE  /\ keys' \subseteq Clients /\ savedKeys' \subseteq Clients /\ savedAt' \in {Never} \cup Nat
         /\ keys \subseteq keys' /\ (client # Generated => client \in keys')
BY DEF Remember, Saved

\* The new order is the last one, and the others are as they were.
LEMMA CreateFacts ==
  ASSUME OrderTypeOK, NEW client \in Clients \cup {Generated}, NEW side \in Sides, NEW qty \in 1..Amount,
         NEW status \in {"pending", "submitted", "filled"}, NEW filled \in Nat,
         Create(client, side, qty, status, filled)
  PROVE  /\ orders' \in Seq(OrderRecords) /\ Len(orders') = Len(orders) + 1
         /\ Orders' = Orders \cup {Len(orders')} /\ Len(orders') \notin Orders
         /\ \A o \in Orders : orders'[o] = orders[o] /\ o < Len(orders')
         /\ orders'[Len(orders')] = NewOrder(client, side, qty, status, filled)
<1>1. orders \in Seq(OrderRecords) /\ clock \in Nat /\ life \in Nat
  BY OrderAssumption DEF OrderTypeOK
<1>2. Len(orders) \in Nat /\ Orders = 1..Len(orders)
  BY <1>1, OrderList
<1>3. PICK r : r = NewOrder(client, side, qty, status, filled)
  OBVIOUS
<1>4. r \in OrderRecords
  BY <1>1, <1>3 DEF NewOrder, OrderRecords, ActiveStatus
<1>5. orders' = Append(orders, r)
  BY <1>3 DEF Create
<1>6. /\ orders' \in Seq(OrderRecords) /\ Len(orders') = Len(orders) + 1
      /\ \A o \in 1..Len(orders) : orders'[o] = orders[o]
      /\ orders'[Len(orders) + 1] = r
  BY <1>1, <1>4, <1>5, AppendProperties
<1>7. Orders' = 1..Len(orders')
  BY <1>6, LenProperties DEF Orders
<1> QED
  BY <1>2, <1>3, <1>6, <1>7

\* An order is stored.
LEMMA CreateType ==
  ASSUME OrderTypeOK, NEW client \in Clients \cup {Generated}, NEW side \in Sides, NEW qty \in 1..Amount,
         NEW status \in {"pending", "submitted", "filled"}, NEW filled \in Nat,
         Create(client, side, qty, status, filled), UNCHANGED <<snapshot, process, revived>>
  PROVE  OrderTypeOK'
<1>1. /\ orders' \in Seq(OrderRecords) /\ Len(orders') = Len(orders) + 1
      /\ Orders' = Orders \cup {Len(orders')}
  BY CreateFacts
<1>2. /\ may \in Environments /\ index \in [Clients -> 0..Len(orders)] /\ keys \subseteq Clients
      /\ savedKeys \subseteq Clients /\ savedAt \in {Never} \cup Nat
      /\ up \in BOOLEAN /\ clock \in 0..MaxTime /\ life \in 0..MaxRestarts /\ revived \subseteq Orders
      /\ DOMAIN snapshot.orders \subseteq Orders
      /\ \A o \in DOMAIN snapshot.orders : snapshot.orders[o] \in OrderRecords
      /\ Len(orders) \in Nat
  BY OrderList DEF OrderTypeOK
<1>3. index' \in [Clients -> 0..Len(orders')]
  BY <1>1, <1>2 DEF Create
<1>4. keys' \subseteq Clients /\ savedKeys' \subseteq Clients /\ savedAt' \in {Never} \cup Nat
  BY <1>2, RememberType, OrderAssumption DEF Create
<1> QED
  BY <1>1, <1>2, <1>3, <1>4 DEF OrderTypeOK, process

(***************************************************************************)
(* Fills and cancels.                                                      *)
(***************************************************************************)
\* record_fill, for an order that can be found: it alone changes.
LEMMA FillFacts ==
  ASSUME OrderTypeOK, NEW o \in Orders, NEW q \in Nat, RecordFill(o, q)
  PROVE  /\ Rewritten(orders')
         /\ \A p \in Orders : p # o => orders'[p] = orders[p]
         /\ Alike(orders[o], orders'[o]) /\ orders'[o].kept = orders[o].kept
         /\ orders[o].kept =>
              /\ orders'[o].filled = orders[o].filled + q
              /\ orders'[o].status = IF orders[o].filled + q = orders[o].qty THEN "filled" ELSE "partial"
         /\ ~orders[o].kept => orders'[o] = orders[o]
         /\ revived \subseteq revived' /\ revived' \subseteq revived \cup {o}
         /\ orders[o].kept /\ orders[o].status = "cancelled" => o \in revived'
<1>1. orders \in Seq(OrderRecords) /\ orders \in [Orders -> OrderRecords] /\ orders[o] \in OrderRecords
  BY OrderList DEF OrderTypeOK
<1>2. clock \in Nat
  BY OrderAssumption DEF OrderTypeOK
<1>3. CASE ~orders[o].kept
  <2>1. orders' = orders
    BY <1>3 DEF RecordFill, AfterFill
  <2> QED
    BY <1>1, <1>3, <2>1, ListRewritten DEF RecordFill, Alike
<1>4. CASE orders[o].kept
  <2>1. PICK s \in {"filled", "partial"} : s = IF orders[o].filled + q = orders[o].qty THEN "filled" ELSE "partial"
    OBVIOUS
  <2>2. orders' = [orders EXCEPT ![o].filled = @ + q, ![o].status = s, ![o].touched = clock]
    BY <1>4, <2>1 DEF RecordFill, AfterFill
  <2>3. PICK r : r = [orders[o] EXCEPT !.filled = @ + q, !.status = s, !.touched = clock]
    OBVIOUS
  <2>4. orders' = [orders EXCEPT ![o] = r]
    BY <1>1, <2>2, <2>3
  <2>5. r \in OrderRecords
    <3>1. s \in ActiveStatus \cup {"filled", "cancelled"}
      BY <2>1 DEF ActiveStatus
    <3>2. PICK x \in OrderRecords : x = orders[o]
      BY <1>1
    <3>3. PICK v \in Nat : v = orders[o].filled + q
      <4>1. x.filled \in Nat
        BY DEF OrderRecords
      <4> QED
        BY <3>2, <4>1
    <3>4. r = [x EXCEPT !.filled = v, !.status = s, !.touched = clock]
      BY <1>1, <2>3, <3>2, <3>3 DEF OrderRecords
    <3> QED
      BY <1>2, <3>1, <3>4 DEF OrderRecords
  <2>6. /\ Alike(orders[o], r) /\ r.kept = orders[o].kept
        /\ r.filled = orders[o].filled + q /\ r.status = s
    BY <1>1, <2>3 DEF Alike, OrderRecords
  <2>7. orders' \in [Orders -> OrderRecords] /\ orders'[o] = r /\ \A p \in Orders : p # o => orders'[p] = orders[p]
    BY <1>1, <2>4, <2>5
  <2> QED
    BY <1>1, <1>4, <2>1, <2>6, <2>7, ListRewritten DEF RecordFill
<1> QED
  BY <1>3, <1>4

\* cancel_order: orders at work are cancelled, and nothing else of them changes.
LEMMA CancelFacts ==
  ASSUME OrderTypeOK, NEW S, orders' = AfterCancel(S)
  PROVE  /\ Rewritten(orders')
         /\ \A p \in Orders :
              /\ Alike(orders[p], orders'[p]) /\ orders'[p].kept = orders[p].kept
              /\ orders'[p].filled = orders[p].filled
              /\ \/ orders'[p].status = orders[p].status
                 \/ orders[p].status \in ActiveStatus /\ orders'[p].status = "cancelled"
<1>1. orders \in Seq(OrderRecords) /\ orders \in [Orders -> OrderRecords]
  BY OrderList DEF OrderTypeOK
<1>2. ASSUME NEW p \in Orders
      PROVE  /\ orders'[p] \in OrderRecords
             /\ Alike(orders[p], orders'[p]) /\ orders'[p].kept = orders[p].kept
             /\ orders'[p].filled = orders[p].filled
             /\ \/ orders'[p].status = orders[p].status
                \/ orders[p].status \in ActiveStatus /\ orders'[p].status = "cancelled"
  <2>1. orders[p] \in OrderRecords
    BY <1>1
  <2>2. \/ orders'[p] = orders[p]
        \/ orders[p].status \in ActiveStatus /\ orders'[p] = [orders[p] EXCEPT !.status = "cancelled"]
    BY DEF AfterCancel, Active
  <2>3. CASE orders'[p] = orders[p]
    BY <2>1, <2>3 DEF Alike
  <2>4. CASE orders[p].status \in ActiveStatus /\ orders'[p] = [orders[p] EXCEPT !.status = "cancelled"]
    BY <2>1, <2>4 DEF Alike, OrderRecords
  <2> QED
    BY <2>2, <2>3, <2>4
<1>3. orders' \in [Orders -> OrderRecords]
  BY <1>2 DEF AfterCancel
<1> QED
  BY <1>1, <1>2, <1>3, ListRewritten

\* Finished orders leave the book.
LEMMA CleanUpFacts ==
  ASSUME OrderTypeOK, CleanUp
  PROVE  /\ Rewritten(orders')
         /\ \A p \in Orders :
              /\ Alike(orders[p], orders'[p]) /\ orders'[p].filled = orders[p].filled
              /\ orders'[p].status = orders[p].status
              /\ orders'[p].kept => orders[p].kept
         /\ index' \in [Clients -> 0..Len(orders)]
         /\ \A c \in Clients : index'[c] = index[c]
              \/ \E o \in Orders : orders[o].kept /\ orders[o].client = c /\ ~orders'[o].kept
<1>1. /\ orders \in Seq(OrderRecords) /\ orders \in [Orders -> OrderRecords]
      /\ Len(orders) \in Nat /\ index \in [Clients -> 0..Len(orders)]
  BY OrderList DEF OrderTypeOK
<1>2. PICK old \in SUBSET Orders :
        /\ \A o \in old : orders[o].kept
        /\ orders' = [o \in Orders |-> [orders[o] EXCEPT !.kept = @ /\ o \notin old]]
        /\ index' = [c \in Clients |-> IF \E o \in old : orders[o].client = c THEN 0 ELSE index[c]]
  BY DEF CleanUp
<1>3. ASSUME NEW p \in Orders
      PROVE  /\ orders'[p] \in OrderRecords
             /\ Alike(orders[p], orders'[p]) /\ orders'[p].filled = orders[p].filled
             /\ orders'[p].status = orders[p].status
             /\ orders'[p].kept <=> orders[p].kept /\ p \notin old
  <2>1. orders[p] \in OrderRecords
    BY <1>1
  <2>2. PICK b \in BOOLEAN : b = (orders[p].kept /\ p \notin old)
    OBVIOUS
  <2>3. orders'[p] = [orders[p] EXCEPT !.kept = b]
    BY <1>2, <2>1, <2>2 DEF OrderRecords
  <2>4. orders'[p] \in OrderRecords
    BY <2>1, <2>2, <2>3 DEF OrderRecords
  <2>5. Alike(orders[p], orders'[p]) /\ orders'[p].filled = orders[p].filled /\ orders'[p].status = orders[p].status
        /\ orders'[p].kept = b
    BY <2>1, <2>3 DEF OrderRecords, Alike
  <2> QED
    BY <2>2, <2>4, <2>5
<1>4. orders' \in [Orders -> OrderRecords]
  BY <1>2, <1>3
<1>5. index' \in [Clients -> 0..Len(orders)]
  BY <1>1, <1>2
<1>6. ASSUME NEW c \in Clients, index'[c] # index[c]
      PROVE  \E o \in Orders : orders[o].kept /\ orders[o].client = c /\ ~orders'[o].kept
  <2>1. PICK o \in old : orders[o].client = c
    BY <1>2, <1>6
  <2> QED
    BY <1>2, <1>3, <2>1
<1> QED
  BY <1>1, <1>3, <1>4, <1>5, <1>6, ListRewritten

(***************************************************************************)
(* The restart.                                                            *)
(***************************************************************************)
\* A set of numbers has a least one, and, up to a bound, a greatest.
LEMMA Least ==
  ASSUME NEW T \in SUBSET Nat, T # {}
  PROVE  \E x \in T : \A y \in T : x <= y
<1> DEFINE R == OpToRel(<, Nat)
<1>1. PICK x \in T : \A y \in T : <<y, x>> \notin R
  BY NatLessThanWellFounded, WFMin
<1>2. \A y \in T : ~(y < x)
  BY <1>1 DEF OpToRel
<1> QED
  BY <1>2

\* A set of numbers up to a bound has a greatest one.
LEMMA Greatest ==
  ASSUME NEW n \in Nat, NEW T \in SUBSET (1..n), T # {}
  PROVE  Max(T) \in T
<1> DEFINE U == {v \in Nat : \E x \in T : v = n - x}
<1>1. ASSUME NEW x \in T PROVE x \in Nat /\ n - x \in Nat
  BY <1>1
<1>2. U \subseteq Nat /\ U # {}
  BY <1>1
<1>3. PICK u \in U : \A v \in U : u <= v
  <2> HIDE DEF U
  <2> QED
    BY <1>2, Least
<1>4. PICK m \in T : u = n - m
  BY <1>3
<1>5. ASSUME NEW y \in T PROVE m >= y
  <2>1. n - y \in U
    BY <1>1
  <2>2. n - m <= n - y /\ m \in Nat /\ y \in Nat
    BY <1>1, <1>3, <1>4, <2>1
  <2> QED
    BY <2>2
<1> QED
  BY <1>5 DEF Max

\* An order comes back from the file as it was written, or leaves the book.
LEMMA StartFacts ==
  ASSUME OrderTypeOK, StartOrders
  PROVE  /\ Rewritten(orders') /\ index' \in [Clients -> 0..Len(orders)]
         /\ \A p \in Orders :
              \/ p \in DOMAIN snapshot.orders /\ orders'[p] = snapshot.orders[p]
              \/ /\ Alike(orders[p], orders'[p]) /\ orders'[p].filled = orders[p].filled
                 /\ ~orders'[p].kept
<1>1. /\ orders \in Seq(OrderRecords) /\ orders \in [Orders -> OrderRecords]
      /\ Len(orders) \in Nat /\ Orders = 1..Len(orders)
      /\ DOMAIN snapshot.orders \subseteq Orders
      /\ \A o \in DOMAIN snapshot.orders : snapshot.orders[o] \in OrderRecords
  BY OrderList DEF OrderTypeOK
<1> DEFINE back == IF "restore" \in may THEN snapshot.orders ELSE <<>>
           mapped(c) == {o \in DOMAIN back : /\ back[o].client = c
                                             /\ snapshot.clients # {} => c \in snapshot.clients}
<1>2. /\ DOMAIN back \subseteq DOMAIN snapshot.orders
      /\ \A o \in DOMAIN back : back[o] = snapshot.orders[o]
  OBVIOUS
<1>3. /\ orders' = [o \in Orders |-> IF o \in DOMAIN back THEN back[o]
                                     ELSE [orders[o] EXCEPT !.kept = FALSE]]
      /\ index' = [c \in Clients |-> IF mapped(c) = {} THEN 0 ELSE Max(mapped(c))]
  BY DEF StartOrders
<1>4. \A c \in Clients : mapped(c) \subseteq 1..Len(orders)
  BY <1>1, <1>2
<1> HIDE DEF back, mapped
<1>5. \A c \in Clients : mapped(c) # {} => Max(mapped(c)) \in mapped(c)
  BY <1>1, <1>4, Greatest
<1>6. index' \in [Clients -> 0..Len(orders)]
  BY <1>1, <1>3, <1>4, <1>5
<1>7. ASSUME NEW p \in Orders
      PROVE  /\ orders'[p] \in OrderRecords
             /\ \/ p \in DOMAIN snapshot.orders /\ orders'[p] = snapshot.orders[p]
                \/ /\ Alike(orders[p], orders'[p]) /\ orders'[p].filled = orders[p].filled
                   /\ ~orders'[p].kept
  <2>1. CASE p \in DOMAIN back
    BY <1>1, <1>2, <1>3, <2>1
  <2>2. CASE p \notin DOMAIN back
    <3>1. orders[p] \in OrderRecords /\ orders'[p] = [orders[p] EXCEPT !.kept = FALSE]
      BY <1>1, <1>3, <2>2
    <3>2. orders'[p] \in OrderRecords
      BY <3>1 DEF OrderRecords
    <3>3. Alike(orders[p], orders'[p]) /\ orders'[p].filled = orders[p].filled /\ ~orders'[p].kept
      BY <3>1 DEF Alike, OrderRecords
    <3> QED
      BY <3>2, <3>3
  <2> QED
    BY <2>1, <2>2
<1>8. orders' \in [Orders -> OrderRecords]
  BY <1>3, <1>7
<1> QED
  BY <1>1, <1>6, <1>7, <1>8, ListRewritten

(***************************************************************************)
(* What every step keeps of the orders.                                    *)
(***************************************************************************)
OrderInv == OrderTypeOK /\ Bounded /\ Keyed /\ NoCross

\* The types survive a rewriting of the orders.
LEMMA RewriteType ==
  ASSUME OrderTypeOK, Rewritten(orders'), index' \in [Clients -> 0..Len(orders)], revived' \subseteq Orders,
         UNCHANGED <<keys, savedAt, files, process>>
  PROVE  OrderTypeOK' /\ Orders' = Orders
<1>1. Orders' = Orders /\ orders' \in Seq(OrderRecords) /\ Len(orders') = Len(orders)
  BY DEF Rewritten, Orders
<1> QED
  BY <1>1 DEF OrderTypeOK, files, process

\* An order is stored: it opposes none that is at work.
LEMMA CreateInv ==
  ASSUME OrderInv, NEW client \in Clients \cup {Generated}, NEW side \in Sides, NEW qty \in 1..Amount,
         NEW status \in {"pending", "submitted", "filled"}, NEW filled \in Nat, filled <= qty,
         client = Generated \/ ~Retry(client),
         Create(client, side, qty, status, filled), UNCHANGED <<snapshot, process, revived>>
  PROVE  OrderInv'
<1> DEFINE n == Len(orders')
           r == NewOrder(client, side, qty, status, filled)
<1>1. OrderTypeOK /\ OrderTypeOK'
  BY CreateType DEF OrderInv
<1>2. /\ Orders' = Orders \cup {n} /\ n \notin Orders /\ n \in Nat
      /\ \A o \in Orders : orders'[o] = orders[o] /\ o < n /\ o \in Nat
      /\ orders'[n] = r /\ orders \in Seq(OrderRecords) /\ Len(orders) \in Nat
  <2>1. orders \in Seq(OrderRecords) /\ Orders = 1..Len(orders) /\ Len(orders) \in Nat
    BY <1>1, OrderList DEF OrderTypeOK
  <2>2. /\ n = Len(orders) + 1 /\ Orders' = Orders \cup {n} /\ n \notin Orders
        /\ \A o \in Orders : orders'[o] = orders[o] /\ o < n
        /\ orders'[n] = r
    BY <1>1, CreateFacts
  <2> HIDE DEF n, r
  <2>3. n \in Nat
    BY <2>1, <2>2
  <2>4. \A o \in Orders : o \in Nat
    BY <2>1
  <2> QED
    BY <2>1, <2>2, <2>3, <2>4
<1>3. /\ r.filled = filled /\ r.qty = qty /\ r.life = life /\ r.client = client /\ r.made = clock
      /\ r.status = status /\ r.side = side
  BY DEF NewOrder
<1>4. clock \in Nat /\ life \in Nat
  BY <1>1, OrderAssumption DEF OrderTypeOK
<1> HIDE DEF n, r
<1>5. Bounded'
  <2>1. ASSUME NEW o \in Orders' PROVE InBounds(orders'[o])
    BY <1>2, <1>3, <1>4, <2>1 DEF OrderInv, Bounded, InBounds
  <2> QED
    BY <2>1 DEF OrderInv, Bounded, InBounds, process
<1>6. Keyed'
  <2>1. ASSUME life = 0, NEW o \in Orders', orders'[o].kept, orders'[o].client # Generated
        PROVE  orders'[o].client \in keys' /\ index'[orders'[o].client] = o
    <3>1. keys \subseteq keys' /\ (client # Generated => client \in keys')
      BY <1>1, <1>4, RememberType DEF Create, OrderTypeOK
    <3>2. index' = IF client = Generated THEN index ELSE [index EXCEPT ![client] = n]
      BY DEF Create, n
    <3>3. index \in [Clients -> 0..Len(orders)]
      BY <1>1 DEF OrderTypeOK
    <3>4. CASE o = n
      BY <1>2, <1>3, <2>1, <3>1, <3>2, <3>3, <3>4
    <3>5. CASE o \in Orders
      <4>1. orders[o].client \in keys /\ index[orders[o].client] = o /\ o # 0
        <5>1. orders[o].kept /\ orders[o].client # Generated
          BY <1>2, <2>1, <3>5
        <5>2. o # 0
          BY <1>2, <3>5, OrderList
        <5> QED
          BY <2>1, <3>5, <5>1, <5>2 DEF OrderInv, Keyed
      <4>2. orders[o].client # client
        <5>1. ASSUME orders[o].client = client PROVE FALSE
          <6>1. client # Generated
            BY <1>2, <2>1, <3>5, <5>1
          <6> QED
            BY <4>1, <5>1, <6>1 DEF Retry
        <5> QED
          BY <5>1
      <4>3. index'[orders[o].client] = index[orders[o].client]
        BY <3>2, <3>3, <4>2
      <4> QED
        BY <1>2, <3>1, <3>5, <4>1, <4>3
    <3> QED
      BY <1>2, <3>4, <3>5
  <2> QED
    BY <2>1 DEF Keyed, process
<1>7. NoCross'
  <2>1. ASSUME NEW o \in Orders', NEW p \in Orders', orders'[o].kept, orders'[p].kept, o < p,
               Opposes(orders'[o], orders'[p])
        PROVE  orders'[p].made - orders'[o].made >= SelfTradeWindow \/ o \in revived
    <3>1. o \in Orders
      BY <1>2, <2>1
    <3>2. orders'[o] = orders[o] /\ orders[o].kept
      BY <1>2, <2>1, <3>1
    <3>3. CASE p \in Orders
      <4>1. o \in InBook /\ p \in InBook /\ orders'[p] = orders[p]
        BY <1>2, <2>1, <3>1, <3>2, <3>3 DEF InBook
      <4> QED
        BY <2>1, <3>2, <4>1 DEF OrderInv, NoCross, Apart
    <3>4. CASE p = n
      <4>1. Active(o) /\ orders[o].side # side
        BY <1>2, <1>3, <2>1, <3>2, <3>4 DEF Active, Opposes
      <4>2. ~(clock - orders[o].made < SelfTradeWindow)
        BY <3>1, <4>1 DEF Create, Opposed, Age
      <4>3. orders[o].made \in Nat
        BY <1>1, <3>1, OrderList DEF OrderTypeOK, OrderRecords
      <4>4. orders'[p].made = clock /\ orders'[o].made = orders[o].made
        BY <1>2, <1>3, <3>2, <3>4
      <4>5. clock - orders[o].made >= SelfTradeWindow
        BY <1>4, <4>2, <4>3, OrderAssumption
      <4> QED
        BY <4>4, <4>5
    <3> QED
      BY <1>2, <3>3, <3>4
  <2>2. Apart(orders, InBook)'
    BY <2>1 DEF Apart, InBook
  <2>3. Apart(snapshot.orders, DOMAIN snapshot.orders)'
    BY DEF OrderInv, NoCross, Apart
  <2> QED
    BY <2>2, <2>3 DEF NoCross
<1> QED
  BY <1>1, <1>5, <1>6, <1>7 DEF OrderInv

\* An order that changes in place: what it may do to the others of the book.
LEMMA RewriteInv ==
  ASSUME OrderInv, Rewritten(orders'), UNCHANGED <<keys, savedAt, files, process>>,
         index' \in [Clients -> 0..Len(orders)], revived \subseteq revived', revived' \subseteq Orders,
         \A p \in Orders :
           /\ Alike(orders[p], orders'[p])
           /\ orders'[p].filled <= orders[p].qty
           /\ orders'[p].kept =>
                /\ orders[p].kept
                /\ orders'[p].status # "filled" => orders[p].status # "filled"
                /\ orders'[p].status \in ActiveStatus => orders[p].status \in ActiveStatus \/ p \in revived'
                /\ life = 0 /\ orders[p].client # Generated =>
                     index'[orders[p].client] = index[orders[p].client]
  PROVE  OrderInv'
<1>1. OrderTypeOK' /\ Orders' = Orders
  BY RewriteType DEF OrderInv
<1>2. UNCHANGED <<keys, life, snapshot>>
  BY DEF process, files
<1>3. Bounded'
  <2>1. ASSUME NEW o \in Orders PROVE InBounds(orders'[o])
    <3>1. orders'[o].filled <= orders'[o].qty /\ orders'[o].life = orders[o].life
      BY DEF Alike
    <3> QED
      BY <3>1 DEF OrderInv, Bounded, InBounds
  <2> QED
    BY <1>1, <1>2, <2>1 DEF OrderInv, Bounded, InBounds
<1>4. Keyed'
  <2>1. ASSUME life = 0, NEW o \in Orders, orders'[o].kept, orders'[o].client # Generated
        PROVE  orders'[o].client \in keys /\ index'[orders'[o].client] = o
    <3>1. orders[o].kept /\ orders'[o].client = orders[o].client
      BY <2>1 DEF Alike
    <3>2. orders[o].client \in keys /\ index[orders[o].client] = o
      BY <2>1, <3>1 DEF OrderInv, Keyed
    <3>3. index'[orders[o].client] = index[orders[o].client]
      BY <2>1, <3>1
    <3> QED
      BY <3>1, <3>2, <3>3
  <2> QED
    BY <1>1, <1>2, <2>1 DEF Keyed
<1>5. Apart(orders, InBook)'
  <2>1. ASSUME NEW o \in Orders, NEW p \in Orders, orders'[o].kept, orders'[p].kept, o < p,
               Opposes(orders'[o], orders'[p])
        PROVE  orders'[p].made - orders'[o].made >= SelfTradeWindow \/ o \in revived'
    <3>1. /\ orders[o].kept /\ orders[p].kept /\ orders[p].status # "filled"
          /\ orders[o].status \in ActiveStatus \/ o \in revived'
      BY <2>1 DEF Opposes
    <3>2. /\ orders'[p].made = orders[p].made /\ orders'[o].made = orders[o].made
          /\ orders[o].side # orders[p].side
      BY <2>1 DEF Alike, Opposes
    <3>3. CASE orders[o].status \in ActiveStatus
      <4>1. o \in InBook /\ p \in InBook /\ Opposes(orders[o], orders[p])
        BY <3>1, <3>2, <3>3 DEF InBook, Opposes
      <4>2. orders[p].made - orders[o].made >= SelfTradeWindow \/ o \in revived
        BY <2>1, <4>1 DEF OrderInv, NoCross, Apart
      <4> QED
        BY <3>2, <4>2
    <3> QED
      BY <3>1, <3>3
  <2> QED
    BY <1>1, <2>1 DEF Apart, InBook
<1>6. Apart(snapshot.orders, DOMAIN snapshot.orders)'
  BY <1>2 DEF OrderInv, NoCross, Apart
<1> QED
  BY <1>1, <1>3, <1>4, <1>5, <1>6 DEF OrderInv, NoCross

\* A fill that the order has room for, and that it was not filled before.
LEMMA FillInv ==
  ASSUME OrderInv, NEW o \in Orders, NEW q \in Nat, RecordFill(o, q), UNCHANGED kept,
         orders[o].filled + q <= orders[o].qty, orders[o].status # "filled"
  PROVE  OrderInv'
<1>1. OrderTypeOK /\ UNCHANGED <<keys, savedAt, files, process>> /\ index' \in [Clients -> 0..Len(orders)]
      /\ revived \subseteq Orders
  BY DEF OrderInv, kept, OrderTypeOK
<1>2. /\ Rewritten(orders')
      /\ \A p \in Orders : p # o => orders'[p] = orders[p]
      /\ Alike(orders[o], orders'[o]) /\ orders'[o].kept = orders[o].kept
      /\ orders[o].kept =>
           /\ orders'[o].filled = orders[o].filled + q
           /\ orders'[o].status = IF orders[o].filled + q = orders[o].qty THEN "filled" ELSE "partial"
      /\ ~orders[o].kept => orders'[o] = orders[o]
      /\ revived \subseteq revived' /\ revived' \subseteq revived \cup {o}
      /\ orders[o].kept /\ orders[o].status = "cancelled" => o \in revived'
  BY <1>1, FillFacts
<1>3. ASSUME NEW p \in Orders
      PROVE  /\ Alike(orders[p], orders'[p])
             /\ orders'[p].filled <= orders[p].qty
             /\ orders'[p].kept =>
                  /\ orders[p].kept
                  /\ orders'[p].status # "filled" => orders[p].status # "filled"
                  /\ orders'[p].status \in ActiveStatus => orders[p].status \in ActiveStatus \/ p \in revived'
  <2>1. orders[p].filled <= orders[p].qty
    BY DEF OrderInv, Bounded, InBounds
  <2>2. CASE p # o
    BY <1>2, <2>1, <2>2 DEF Alike
  <2>3. CASE p = o /\ ~orders[o].kept
    BY <1>2, <2>1, <2>3 DEF Alike
  <2>4. CASE p = o /\ orders[o].kept
    <3>1. orders[o].status \in ActiveStatus \cup {"cancelled"}
      BY <1>1, OrderList DEF OrderTypeOK, OrderRecords
    <3> QED
      BY <1>2, <2>4, <3>1
  <2> QED
    BY <2>2, <2>3, <2>4
<1>4. index' = index
  BY DEF kept
<1>5. revived' \subseteq Orders
  BY <1>1, <1>2
<1> QED
  BY <1>1, <1>2, <1>3, <1>4, <1>5, RewriteInv

\* A cancel takes orders from work, and puts none to work.
LEMMA CancelInv ==
  ASSUME OrderInv, NEW S, orders' = AfterCancel(S), UNCHANGED <<kept, revived>>
  PROVE  OrderInv'
<1>1. OrderTypeOK /\ UNCHANGED <<index, keys, savedAt, files, process>>
      /\ index' \in [Clients -> 0..Len(orders)] /\ revived \subseteq Orders
  BY DEF OrderInv, kept, OrderTypeOK
<1>2. /\ Rewritten(orders')
      /\ \A p \in Orders :
           /\ Alike(orders[p], orders'[p]) /\ orders'[p].kept = orders[p].kept
           /\ orders'[p].filled = orders[p].filled
           /\ \/ orders'[p].status = orders[p].status
              \/ orders[p].status \in ActiveStatus /\ orders'[p].status = "cancelled"
  BY <1>1, CancelFacts
<1>3. \A p \in Orders : orders[p].filled <= orders[p].qty
  BY DEF OrderInv, Bounded, InBounds
<1>4. "filled" \notin ActiveStatus /\ "cancelled" \notin ActiveStatus
  BY DEF ActiveStatus
<1>5. ASSUME NEW p \in Orders
      PROVE  /\ Alike(orders[p], orders'[p])
             /\ orders'[p].filled <= orders[p].qty
             /\ orders'[p].kept =>
                  /\ orders[p].kept
                  /\ orders'[p].status # "filled" => orders[p].status # "filled"
                  /\ orders'[p].status \in ActiveStatus => orders[p].status \in ActiveStatus \/ p \in revived'
  BY <1>2, <1>3, <1>4
<1> QED
  BY <1>1, <1>2, <1>5, RewriteInv

\* An order that leaves the book takes its own client order id along, and no other's.
LEMMA CleanUpInv ==
  ASSUME OrderInv, CleanUp
  PROVE  OrderInv'
<1>1. OrderTypeOK /\ UNCHANGED <<keys, savedAt, files, process, revived>> /\ revived \subseteq Orders
  BY DEF OrderInv, CleanUp, OrderTypeOK
<1>2. /\ Rewritten(orders')
      /\ \A p \in Orders :
           /\ Alike(orders[p], orders'[p]) /\ orders'[p].filled = orders[p].filled
           /\ orders'[p].status = orders[p].status
           /\ orders'[p].kept => orders[p].kept
      /\ index' \in [Clients -> 0..Len(orders)]
      /\ \A c \in Clients : index'[c] = index[c]
           \/ \E o \in Orders : orders[o].kept /\ orders[o].client = c /\ ~orders'[o].kept
  BY <1>1, CleanUpFacts
<1>3. \A p \in Orders : orders[p].filled <= orders[p].qty
  BY DEF OrderInv, Bounded, InBounds
<1>4. ASSUME NEW p \in Orders, orders'[p].kept, life = 0, orders[p].client # Generated
      PROVE  index'[orders[p].client] = index[orders[p].client]
  <2>1. orders[p].client \in Clients /\ index[orders[p].client] = p
    <3>1. orders[p].client \in Clients
      BY <1>1, <1>4, OrderList DEF OrderTypeOK, OrderRecords
    <3> QED
      BY <1>2, <1>4, <3>1 DEF OrderInv, Keyed
  <2>2. ASSUME NEW o \in Orders, orders[o].kept, orders[o].client = orders[p].client, ~orders'[o].kept
        PROVE  FALSE
    <3>1. index[orders[o].client] = o
      BY <1>4, <2>2 DEF OrderInv, Keyed
    <3> QED
      BY <1>4, <2>1, <2>2, <3>1
  <2> QED
    BY <1>2, <2>1, <2>2
<1>5. ASSUME NEW p \in Orders
      PROVE  /\ Alike(orders[p], orders'[p])
             /\ orders'[p].filled <= orders[p].qty
             /\ orders'[p].kept =>
                  /\ orders[p].kept
                  /\ orders'[p].status # "filled" => orders[p].status # "filled"
                  /\ orders'[p].status \in ActiveStatus => orders[p].status \in ActiveStatus \/ p \in revived'
                  /\ life = 0 /\ orders[p].client # Generated =>
                       index'[orders[p].client] = index[orders[p].client]
  BY <1>2, <1>3, <1>4
<1> QED
  BY <1>1, <1>2, <1>5, RewriteInv

\* A restart: what comes back from the file is as it was when it was written.
LEMMA StartInv ==
  ASSUME OrderInv, StartOrders
  PROVE  OrderInv'
<1>1. OrderTypeOK /\ life \in Nat /\ revived \subseteq Orders
  BY OrderAssumption DEF OrderInv, OrderTypeOK
<1>2. /\ Rewritten(orders') /\ index' \in [Clients -> 0..Len(orders)]
      /\ \A p \in Orders :
           \/ p \in DOMAIN snapshot.orders /\ orders'[p] = snapshot.orders[p]
           \/ /\ Alike(orders[p], orders'[p]) /\ orders'[p].filled = orders[p].filled
              /\ ~orders'[p].kept
  BY <1>1, StartFacts
<1>3. /\ UNCHANGED <<may, clock, savedKeys, snapshot, revived>>
      /\ up' = TRUE /\ life' = life + 1 /\ life < MaxRestarts /\ keys' = savedKeys /\ savedAt' = Never
  BY DEF StartOrders, files
<1>4. Orders' = Orders /\ orders' \in Seq(OrderRecords) /\ Len(orders') = Len(orders)
  BY <1>2 DEF Rewritten, Orders
<1>5. OrderTypeOK'
  <2>1. life' \in 0..MaxRestarts
    BY <1>1, <1>3, OrderAssumption
  <2> QED
    BY <1>1, <1>2, <1>3, <1>4, <2>1 DEF OrderTypeOK
<1>6. Bounded'
  <2>1. ASSUME NEW r \in OrderRecords, InBounds(r) PROVE InBounds(r)'
    BY <1>1, <1>3, <2>1 DEF InBounds, OrderRecords
  <2>2. ASSUME NEW o \in DOMAIN snapshot.orders PROVE InBounds(snapshot.orders[o])'
    <3>1. snapshot.orders[o] \in OrderRecords /\ InBounds(snapshot.orders[o])
      BY <1>1 DEF OrderTypeOK, OrderInv, Bounded
    <3>2. snapshot'.orders[o] = snapshot.orders[o]
      BY <1>3
    <3> QED
      BY <1>1, <1>3, <3>1 DEF InBounds, OrderRecords
  <2>3. ASSUME NEW o \in Orders PROVE InBounds(orders[o])'
    <3>1. CASE o \in DOMAIN snapshot.orders /\ orders'[o] = snapshot.orders[o]
      BY <1>3, <2>2, <3>1 DEF InBounds
    <3>2. CASE Alike(orders[o], orders'[o]) /\ orders'[o].filled = orders[o].filled
      <4>1. InBounds(orders[o]) /\ orders[o] \in OrderRecords
        BY <1>1, OrderList DEF OrderInv, Bounded, OrderTypeOK
      <4> QED
        BY <1>1, <1>3, <3>2, <4>1 DEF InBounds, Alike, OrderRecords
    <3> QED
      BY <1>2, <3>1, <3>2
  <2> QED
    BY <1>3, <1>4, <2>2, <2>3 DEF Bounded, InBounds
<1>7. Keyed'
  BY <1>1, <1>3 DEF Keyed
<1>8. Apart(snapshot.orders, DOMAIN snapshot.orders)'
  BY <1>3 DEF OrderInv, NoCross, Apart
<1>9. Apart(orders, InBook)'
  <2>1. ASSUME NEW o \in Orders, NEW p \in Orders, orders'[o].kept, orders'[p].kept, o < p,
               Opposes(orders'[o], orders'[p])
        PROVE  orders'[p].made - orders'[o].made >= SelfTradeWindow \/ o \in revived
    <3>1. /\ o \in DOMAIN snapshot.orders /\ orders'[o] = snapshot.orders[o]
          /\ p \in DOMAIN snapshot.orders /\ orders'[p] = snapshot.orders[p]
      BY <1>2, <2>1
    <3> QED
      BY <2>1, <3>1 DEF OrderInv, NoCross, Apart
  <2> QED
    BY <1>3, <1>4, <2>1 DEF Apart, InBook
<1> QED
  BY <1>5, <1>6, <1>7, <1>8, <1>9 DEF OrderInv, NoCross

\* A stop writes the book to the file.
LEMMA StopInv ==
  ASSUME OrderInv, StopOrders
  PROVE  OrderInv'
<1>1. /\ UNCHANGED <<may, clock, life, orders, index, keys, savedAt, savedKeys, revived>> /\ up' = FALSE
      /\ snapshot'.orders = [o \in InBook |-> orders[o]]
  BY DEF StopOrders, Halt, InBook
<1>2. OrderTypeOK /\ \A o \in Orders : orders[o] \in OrderRecords
  BY OrderList DEF OrderInv, OrderTypeOK
<1>3. /\ DOMAIN snapshot'.orders = InBook /\ InBook \subseteq Orders
      /\ \A o \in InBook : snapshot'.orders[o] = orders[o]
  BY <1>1 DEF InBook
<1>4. OrderTypeOK'
  BY <1>1, <1>2, <1>3 DEF OrderTypeOK, Orders
<1>5. Bounded'
  BY <1>1, <1>3 DEF OrderInv, Bounded, InBounds, Orders
<1>6. Keyed'
  BY <1>1 DEF OrderInv, Keyed, Orders
<1>7. Apart(orders, InBook)'
  BY <1>1 DEF OrderInv, NoCross, Apart, InBook, Orders
<1>8. Apart(snapshot.orders, DOMAIN snapshot.orders)'
  BY <1>1, <1>3 DEF OrderInv, NoCross, Apart
<1> QED
  BY <1>4, <1>5, <1>6, <1>7, <1>8 DEF OrderInv, NoCross

\* What changes no order, no key and no file.
LEMMA CalmInv ==
  ASSUME OrderInv, UNCHANGED <<orders, index, keys, savedAt, files, may, life, revived>>,
         up' \in BOOLEAN, clock' \in 0..MaxTime
  PROVE  OrderInv'
BY DEF OrderInv, OrderTypeOK, files, Bounded, InBounds, Keyed, NoCross, Apart, InBook, Orders

\* A refused order is remembered all the same.
LEMMA RefusedInv ==
  ASSUME OrderInv, NEW client \in Clients \cup {Generated}, Remember(client),
         UNCHANGED <<orders, index, snapshot, process, revived>>
  PROVE  OrderInv'
<1>1. /\ keys \subseteq Clients /\ savedKeys \subseteq Clients /\ savedAt \in {Never} \cup Nat /\ clock \in Nat
  BY OrderAssumption DEF OrderInv, OrderTypeOK
<1>2. keys' \subseteq Clients /\ savedKeys' \subseteq Clients /\ savedAt' \in {Never} \cup Nat /\ keys \subseteq keys'
  BY <1>1, RememberType
<1>3. OrderTypeOK'
  BY <1>2 DEF OrderInv, OrderTypeOK, process, Orders
<1>4. Bounded' /\ NoCross'
  BY DEF OrderInv, process, Bounded, InBounds, NoCross, Apart, InBook, Orders
<1>5. Keyed'
  BY <1>2 DEF OrderInv, process, Keyed, Orders
<1> QED
  BY <1>3, <1>4, <1>5 DEF OrderInv

(***************************************************************************)
(* What every step keeps of the position and of those who trade it.        *)
(***************************************************************************)
Positions(n) ==
  [kind : {"none", "pending", "open"}, qty : 0..Amount, order : 0..n, by : 0..n, hand : BOOLEAN]
PaperTypeOK ==
  /\ pos \in Positions(Len(orders))
  /\ rows \subseteq [order : Orders, qty : 1..Amount] /\ unsaved \subseteq Orders
  /\ killed \in BOOLEAN
  /\ w \in [pc : {"idle", "ack", "close", "kill"}, order : 0..Len(orders)]
  /\ d \in [pc : {"idle", "close"}, order : 0..Len(orders)]
  /\ rest \in 0..Len(orders)

PaperInv == PaperTypeOK /\ Owned /\ Booked /\ PositionMatchesFill /\ PositionIsDurable

\* The invariant is that of the orders and that of the position.
LEMMA InvParts == IInv <=> OrderInv /\ PaperInv
BY DEF IInv, OrderInv, PaperInv, TypeOK, PaperTypeOK, Positions

\* Orders are added, and nobody's order is filled: each keeps his own.
LEMMA OwnedFrame ==
  ASSUME PaperInv, UNCHANGED <<w, d, rest>>, Orders \subseteq Orders',
         \A o \in Orders :
           /\ orders'[o].filled = orders[o].filled /\ orders'[o].qty = orders[o].qty
           /\ orders'[o].status = orders[o].status \/ orders'[o].status # "filled"
  PROVE  Owned'
<1>1. /\ w.pc # "idle" => /\ w.order \in Orders /\ orders'[w.order].filled = 0
                           /\ orders'[w.order].status # "filled"
      /\ d.pc # "idle" => /\ d.order \in Orders /\ orders'[d.order].filled = 0
                           /\ orders'[d.order].status # "filled"
  BY DEF PaperInv, Owned, Unfilled
<1>2. w.pc = "ack" => rest = 0 /\ orders'[w.order].qty = Amount
  BY <1>1 DEF PaperInv, Owned
<1>3. rest # 0 => rest \in Orders' /\ orders'[rest].qty = Amount /\ orders'[rest].status # "filled"
  BY DEF PaperInv, Owned
<1>4. /\ w.pc # "idle" /\ d.pc # "idle" => w.order # d.order
      /\ rest # 0 => (w.pc # "idle" => w.order # rest) /\ (d.pc # "idle" => d.order # rest)
  BY DEF PaperInv, Owned
<1>5. /\ w'.pc # "idle" => Unfilled(w.order)'
      /\ d'.pc # "idle" => Unfilled(d.order)'
  BY <1>1 DEF Unfilled
<1> QED
  BY <1>2, <1>3, <1>4, <1>5 DEF Owned

\* Nobody's order is filled, and none comes back: the position is left alone.
LEMMA PaperFrame ==
  ASSUME OrderInv, PaperInv, UNCHANGED <<paperVars, life>>,
         Orders \subseteq Orders', Len(orders') \in Nat, Len(orders') >= Len(orders),
         \A o \in Orders :
           /\ orders'[o].filled = orders[o].filled /\ orders'[o].qty = orders[o].qty
           /\ orders'[o].life = orders[o].life
           /\ orders'[o].status = orders[o].status \/ orders'[o].status # "filled"
           /\ orders'[o].kept => orders[o].kept
  PROVE  PaperInv'
<1>1. Len(orders) \in Nat
  BY OrderList DEF OrderInv, OrderTypeOK
<1>2. UNCHANGED <<pos, rows, unsaved, killed, w, d, rest>>
  BY DEF paperVars, ledger
<1>3. PaperTypeOK'
  <2>1. 0..Len(orders) \subseteq 0..Len(orders')
    BY <1>1
  <2>2. pos' \in Positions(Len(orders'))
    BY <1>2, <2>1 DEF PaperInv, PaperTypeOK, Positions
  <2>3. /\ w' \in [pc : {"idle", "ack", "close", "kill"}, order : 0..Len(orders')]
        /\ d' \in [pc : {"idle", "close"}, order : 0..Len(orders')]
    BY <1>2, <2>1 DEF PaperInv, PaperTypeOK
  <2> QED
    BY <1>2, <2>1, <2>2, <2>3 DEF PaperInv, PaperTypeOK
<1>5. Owned'
  BY <1>2, OwnedFrame
<1>6. Booked'
  BY <1>2 DEF PaperInv, Booked
<1>7. PositionMatchesFill'
  BY <1>2 DEF PaperInv, Booked, PositionMatchesFill
<1>8. PositionIsDurable'
  BY <1>2 DEF PaperInv, PositionIsDurable, HasRow
<1> QED
  BY <1>3, <1>5, <1>6, <1>7, <1>8 DEF PaperInv

\* An order that the executor submits: nobody's yet.
LEMMA SubmitFacts ==
  ASSUME OrderInv, NEW side \in Sides, NEW qty \in 1..Amount, Submitted(side, qty),
         UNCHANGED <<snapshot, process, revived>>
  PROVE  /\ OrderInv' /\ Len(orders) \in Nat /\ Len(orders') \in Nat /\ Len(orders') = Len(orders) + 1
         /\ Orders' = Orders \cup {Len(orders')} /\ Len(orders') \notin Orders
         /\ \A o \in Orders : orders'[o] = orders[o]
         /\ orders'[Len(orders')].filled = 0 /\ orders'[Len(orders')].status = "submitted"
         /\ orders'[Len(orders')].qty = qty /\ life' = life
<1>1. OrderTypeOK /\ Generated \in Clients \cup {Generated} /\ 0 \in Nat /\ 0 <= qty
  BY DEF OrderInv
<1>2. Create(Generated, side, qty, "submitted", 0)
  BY DEF Submitted
<1>3. OrderInv'
  BY <1>1, <1>2, CreateInv
<1>4. /\ Len(orders') = Len(orders) + 1
      /\ Orders' = Orders \cup {Len(orders')} /\ Len(orders') \notin Orders
      /\ \A o \in Orders : orders'[o] = orders[o]
      /\ orders'[Len(orders')] = NewOrder(Generated, side, qty, "submitted", 0)
  BY <1>1, <1>2, CreateFacts
<1>5. Len(orders) \in Nat
  BY <1>1, OrderList DEF OrderTypeOK
<1>6. /\ orders'[Len(orders')].filled = 0 /\ orders'[Len(orders')].status = "submitted"
      /\ orders'[Len(orders')].qty = qty
  BY <1>4 DEF NewOrder
<1> QED
  BY <1>3, <1>4, <1>5, <1>6 DEF process

\* An endpoint or a monitor leaves the position alone.
LEMMA ApiStep ==
  ASSUME OrderInv, PaperInv, Api, UNCHANGED paperVars
  PROVE  OrderInv' /\ PaperInv'
<1>0. OrderTypeOK /\ orders \in Seq(OrderRecords) /\ Len(orders) \in Nat
  BY OrderList DEF OrderInv, OrderTypeOK
<1>1. ASSUME NEW client \in Clients \cup {Generated}, NEW side \in Sides,
             client = Generated \/ ~Retry(client),
             Create(client, side, Amount, "pending", 0), UNCHANGED <<snapshot, process, revived>>
      PROVE  OrderInv' /\ PaperInv'
  <2>1. Amount \in 1..Amount /\ 0 \in Nat /\ 0 <= Amount
    BY OrderAssumption
  <2>2. OrderInv'
    BY <1>1, <2>1, CreateInv
  <2>3. /\ Len(orders') = Len(orders) + 1 /\ Orders' = Orders \cup {Len(orders')}
        /\ \A o \in Orders : orders'[o] = orders[o]
    BY <1>0, <1>1, <2>1, CreateFacts
  <2>4. PaperInv'
    BY <1>0, <1>1, <2>3, PaperFrame DEF process
  <2> QED
    BY <2>2, <2>4
<1>2. ASSUME NEW client \in Clients \cup {Generated}, Remember(client),
             UNCHANGED <<orders, index, snapshot, process, revived>>
      PROVE  OrderInv' /\ PaperInv'
  <2>1. OrderInv'
    BY <1>2, RefusedInv
  <2>2. PaperInv'
    BY <1>0, <1>2, PaperFrame DEF process, Orders
  <2> QED
    BY <2>1, <2>2
<1>3. ASSUME NEW client \in Clients \cup {Generated}, NEW side \in Sides, Place(client, side)
      PROVE  OrderInv' /\ PaperInv'
  <2>1. CASE ~Retry(client) /\ ~Opposed(side)
    <3>1. Create(client, side, Amount, "pending", 0) /\ UNCHANGED <<snapshot, process, revived>>
      BY <1>3, <2>1 DEF Place
    <3> QED
      BY <1>1, <2>1, <3>1
  <2>2. CASE ~(~Retry(client) /\ ~Opposed(side))
    BY <1>2, <1>3, <2>2 DEF Place
  <2> QED
    BY <2>1, <2>2
<1>5. ASSUME NEW S, orders' = AfterCancel(S), UNCHANGED <<kept, revived>>
      PROVE  OrderInv' /\ PaperInv'
  <2>1. OrderInv'
    BY <1>5, CancelInv
  <2>2. /\ Rewritten(orders')
        /\ \A p \in Orders :
             /\ Alike(orders[p], orders'[p]) /\ orders'[p].kept = orders[p].kept
             /\ orders'[p].filled = orders[p].filled
             /\ \/ orders'[p].status = orders[p].status
                \/ orders[p].status \in ActiveStatus /\ orders'[p].status = "cancelled"
    BY <1>0, <1>5, CancelFacts
  <2>3. Orders' = Orders /\ Len(orders') = Len(orders)
    BY <2>2 DEF Rewritten, Orders
  <2>4. PaperInv'
    BY <1>0, <1>5, <2>2, <2>3, PaperFrame DEF kept, process, Alike
  <2> QED
    BY <2>1, <2>4
<1>6. ASSUME \/ \E o \in Orders : Cancel(o)
             \/ MonitorFills
      PROVE  OrderInv' /\ PaperInv'
  <2>1. \E S : orders' = AfterCancel(S)
    BY <1>6 DEF Cancel, MonitorFills
  <2>2. UNCHANGED <<kept, revived>>
    BY <1>6 DEF Cancel, MonitorFills, kept
  <2> QED
    BY <1>5, <2>1, <2>2
<1>7. ASSUME CleanUp PROVE OrderInv' /\ PaperInv'
  <2>1. OrderInv'
    BY <1>7, CleanUpInv
  <2>2. /\ Rewritten(orders')
        /\ \A p \in Orders :
             /\ Alike(orders[p], orders'[p]) /\ orders'[p].filled = orders[p].filled
             /\ orders'[p].status = orders[p].status
             /\ orders'[p].kept => orders[p].kept
    BY <1>0, <1>7, CleanUpFacts
  <2>3. Orders' = Orders /\ Len(orders') = Len(orders) /\ life' = life
    BY <1>7, <2>2 DEF Rewritten, Orders, CleanUp, process
  <2>4. PaperInv'
    BY <1>0, <2>2, <2>3, PaperFrame DEF Alike
  <2> QED
    BY <2>1, <2>4
<1>8. ASSUME PassTime PROVE OrderInv' /\ PaperInv'
  <2>1. clock' \in 0..MaxTime /\ up' \in BOOLEAN
    BY <1>0, <1>8, OrderAssumption DEF PassTime, OrderTypeOK
  <2>2. OrderInv'
    BY <1>8, <2>1, CalmInv DEF PassTime
  <2>3. PaperInv'
    BY <1>0, <1>8, PaperFrame DEF PassTime, Orders
  <2> QED
    BY <2>2, <2>3
<1> QED
  BY <1>3, <1>6, <1>7, <1>8 DEF Api

\* What the invariant says of the moment, piece by piece.
LEMMA Now ==
  ASSUME OrderInv, PaperInv
  PROVE  /\ OrderTypeOK /\ Len(orders) \in Nat /\ Orders = 1..Len(orders)
         /\ \A o \in Orders : orders[o] \in OrderRecords /\ orders[o].filled \in Nat /\ orders[o].qty \in 1..Amount
         /\ \A o \in Orders : orders[o].filled <= orders[o].qty /\ orders[o].life <= life
         /\ pos \in Positions(Len(orders))
         /\ rows \subseteq [order : Orders, qty : 1..Amount] /\ unsaved \subseteq Orders /\ killed \in BOOLEAN
         /\ w \in [pc : {"idle", "ack", "close", "kill"}, order : 0..Len(orders)]
         /\ d \in [pc : {"idle", "close"}, order : 0..Len(orders)]
         /\ rest \in 0..Len(orders)
         /\ w.pc # "idle" => Unfilled(w.order)
         /\ d.pc # "idle" => Unfilled(d.order)
         /\ w.pc # "idle" /\ d.pc # "idle" => w.order # d.order
         /\ w.pc = "ack" => rest = 0 /\ orders[w.order].qty = Amount
         /\ rest # 0 =>
              /\ rest \in Orders /\ orders[rest].qty = Amount /\ orders[rest].status # "filled"
              /\ w.pc # "idle" => w.order # rest
              /\ d.pc # "idle" => d.order # rest
         /\ pos.kind # "none" => pos.order \in Orders /\ pos.by \in Orders /\ pos.qty \in 1..Amount
         /\ pos.kind \in {"none", "pending", "open"}
         /\ pos.kind = "pending" => w.pc = "ack" /\ pos.order = w.order
         /\ w.pc = "ack" /\ pos.kind = "open" => pos.hand
         /\ rest # 0 /\ pos.kind = "open" => pos.order = rest \/ pos.hand
         /\ pos.kind = "open" => pos.by = pos.order \/ pos.hand
<1>1. OrderTypeOK /\ Len(orders) \in Nat /\ Orders = 1..Len(orders) /\ orders \in [Orders -> OrderRecords]
  BY OrderList DEF OrderInv, OrderTypeOK
<1>2. \A o \in Orders : orders[o] \in OrderRecords /\ orders[o].filled \in Nat /\ orders[o].qty \in 1..Amount
  BY <1>1 DEF OrderRecords
<1>3. \A o \in Orders : orders[o].filled <= orders[o].qty /\ orders[o].life <= life
  BY DEF OrderInv, Bounded, InBounds
<1>4. PaperTypeOK /\ Owned /\ Booked
  BY DEF PaperInv
<1>5. /\ pos.kind # "none" => pos.order \in Orders /\ pos.by \in Orders /\ pos.qty \in 1..Amount
      /\ pos.kind \in {"none", "pending", "open"}
  BY <1>4, OrderAssumption DEF PaperTypeOK, Positions, Booked
<1>6. /\ pos \in Positions(Len(orders))
      /\ rows \subseteq [order : Orders, qty : 1..Amount] /\ unsaved \subseteq Orders /\ killed \in BOOLEAN
      /\ w \in [pc : {"idle", "ack", "close", "kill"}, order : 0..Len(orders)]
      /\ d \in [pc : {"idle", "close"}, order : 0..Len(orders)]
      /\ rest \in 0..Len(orders)
  BY <1>4 DEF PaperTypeOK
<1>7. /\ w.pc # "idle" => Unfilled(w.order)
      /\ d.pc # "idle" => Unfilled(d.order)
      /\ w.pc # "idle" /\ d.pc # "idle" => w.order # d.order
      /\ w.pc = "ack" => rest = 0 /\ orders[w.order].qty = Amount
      /\ rest # 0 =>
           /\ rest \in Orders /\ orders[rest].qty = Amount /\ orders[rest].status # "filled"
           /\ w.pc # "idle" => w.order # rest
           /\ d.pc # "idle" => d.order # rest
  BY <1>4 DEF Owned
<1>8. /\ pos.kind = "pending" => w.pc = "ack" /\ pos.order = w.order
      /\ w.pc = "ack" /\ pos.kind = "open" => pos.hand
      /\ rest # 0 /\ pos.kind = "open" => pos.order = rest \/ pos.hand
      /\ pos.kind = "open" => pos.by = pos.order \/ pos.hand
  BY <1>4 DEF Booked
<1> QED
  BY <1>1, <1>2, <1>3, <1>5, <1>6, <1>7, <1>8

\* A position that is not there needs neither a fill nor a row.
LEMMA NothingHeld ==
  ASSUME pos'.kind = "none"
  PROVE  Booked' /\ PositionMatchesFill' /\ PositionIsDurable'
BY DEF Booked, PositionMatchesFill, PositionIsDurable

\* No position is of the type of a position,
LEMMA NoPositionType ==
  ASSUME NEW n \in Nat
  PROVE  NoPosition \in Positions(n)
BY OrderAssumption DEF NoPosition, Positions

\* and an idle actor of the type of either actor.
LEMMA IdleType ==
  ASSUME NEW n \in Nat
  PROVE  /\ Idle \in [pc : {"idle", "ack", "close", "kill"}, order : 0..n]
         /\ Idle \in [pc : {"idle", "close"}, order : 0..n] /\ Idle.pc = "idle"
BY DEF Idle

\* Longer lists have all that was there before.
LEMMA TypesGrow ==
  ASSUME NEW m \in Nat, NEW n \in Nat, m <= n
  PROVE  /\ 0..m \subseteq 0..n
         /\ \A s \in Positions(m) : s \in Positions(n)
         /\ \A s \in [pc : {"idle", "ack", "close", "kill"}, order : 0..m] :
              s \in [pc : {"idle", "ack", "close", "kill"}, order : 0..n]
         /\ \A s \in [pc : {"idle", "close"}, order : 0..m] : s \in [pc : {"idle", "close"}, order : 0..n]
<1>1. 0..m \subseteq 0..n
  OBVIOUS
<1>2. \A s \in Positions(m) : s \in Positions(n)
  BY <1>1 DEF Positions
<1> QED
  BY <1>1, <1>2

\* The entry: a reservation, and the order it waits for.
LEMMA SignalStep ==
  ASSUME OrderInv, PaperInv, Signal
  PROVE  OrderInv' /\ PaperInv'
<1>1. /\ UNCHANGED <<snapshot, process, revived, rows, unsaved, killed, d, rest>>
      /\ w = Idle /\ d = Idle /\ rest = 0 /\ pos.kind = "none"
  BY DEF Signal, ledger
<1>2. CASE Refused /\ UNCHANGED <<pos, w>>
  <2>1. OrderInv'
    BY <1>1, <1>2, RefusedInv DEF Refused
  <2>2. PaperInv'
    BY <1>1, <1>2, Now, PaperFrame DEF Refused, paperVars, ledger, Orders, process
  <2> QED
    BY <2>1, <2>2
<1>3. CASE Submitted("buy", Amount) /\ Book("pending", Amount, Len(orders'), Len(orders'), FALSE)
             /\ w' = [pc |-> "ack", order |-> Len(orders')]
  <2> DEFINE n == Len(orders')
  <2>1. /\ OrderInv' /\ Len(orders) \in Nat /\ n \in Nat /\ n = Len(orders) + 1
        /\ Orders' = Orders \cup {n} /\ n \notin Orders
        /\ \A o \in Orders : orders'[o] = orders[o]
        /\ orders'[n].filled = 0 /\ orders'[n].status = "submitted" /\ orders'[n].qty = Amount
    <3>1. Amount \in 1..Amount /\ "buy" \in Sides
      BY OrderAssumption DEF Sides
    <3> QED
      BY <1>1, <1>3, <3>1, SubmitFacts
  <2>2. /\ pos' = [kind |-> "pending", qty |-> Amount, order |-> n, by |-> n, hand |-> FALSE]
        /\ w' = [pc |-> "ack", order |-> n] /\ w'.pc = "ack" /\ w'.order = n
        /\ pos'.kind = "pending" /\ pos'.order = n /\ pos'.by = n /\ pos'.qty = Amount
    BY <1>3 DEF Book
  <2>3. d'.pc = "idle" /\ rest' = 0
    BY <1>1, IdleType
  <2> HIDE DEF n
  <2>4. PaperTypeOK'
    <3>1. /\ 0..Len(orders) \subseteq 0..n /\ d' \in [pc : {"idle", "close"}, order : 0..n]
          /\ n \in 0..n /\ Amount \in 0..Amount /\ 0 \in 0..n
      BY <1>1, <2>1, IdleType, OrderAssumption
    <3>2. rows' \subseteq [order : Orders', qty : 1..Amount] /\ unsaved' \subseteq Orders' /\ killed' \in BOOLEAN
      BY <1>1, <2>1, Now
    <3>3. n = Len(orders')
      BY DEF n
    <3>4. pos' \in Positions(n)
      BY <2>2, <3>1 DEF Positions
    <3> QED
      BY <2>2, <2>3, <3>1, <3>2, <3>3, <3>4 DEF PaperTypeOK
  <2>5. Owned'
    BY <2>1, <2>2, <2>3 DEF Owned, Unfilled
  <2>6. Booked' /\ PositionMatchesFill' /\ PositionIsDurable'
    BY <2>1, <2>2, <2>3, OrderAssumption DEF Booked, PositionMatchesFill, PositionIsDurable
  <2> QED
    BY <2>1, <2>4, <2>5, <2>6 DEF PaperInv
<1> QED
  BY <1>2, <1>3 DEF Signal

\* The worker and the dashboard submit an order that closes.
LEMMA CloseSubmitted ==
  ASSUME OrderInv, PaperInv, pos.kind # "none", Submitted(Exit, pos.qty),
         UNCHANGED <<snapshot, process, revived, pos, rows, unsaved, killed, rest>>,
         \/ w = Idle /\ UNCHANGED d /\ pos.kind = "open"
              /\ \E pc \in {"close", "kill"} : w' = [pc |-> pc, order |-> Len(orders')]
         \/ d = Idle /\ UNCHANGED w /\ d' = [pc |-> "close", order |-> Len(orders')]
  PROVE  OrderInv' /\ PaperInv'
<1> DEFINE n == Len(orders')
<1>1. /\ OrderInv' /\ Len(orders) \in Nat /\ n \in Nat /\ n = Len(orders) + 1
      /\ Orders' = Orders \cup {n} /\ n \notin Orders
      /\ \A o \in Orders : orders'[o] = orders[o]
      /\ orders'[n].filled = 0 /\ orders'[n].status = "submitted" /\ life' = life
  BY Now, SubmitFacts DEF Sides, Exit
<1>2. \/ w.pc = "idle" /\ d' = d /\ w'.pc \in {"close", "kill"} /\ w'.order = n /\ pos.kind = "open"
      \/ d.pc = "idle" /\ w' = w /\ d'.pc = "close" /\ d'.order = n
  BY IdleType, <1>1
<1>3. PaperTypeOK'
  <2>1. /\ w' \in [pc : {"idle", "ack", "close", "kill"}, order : 0..n]
        /\ d' \in [pc : {"idle", "close"}, order : 0..n]
        /\ pos' \in Positions(n) /\ rest' \in 0..n
    BY <1>1, Now, TypesGrow
  <2>2. rows' \subseteq [order : Orders', qty : 1..Amount] /\ unsaved' \subseteq Orders' /\ killed' \in BOOLEAN
    BY <1>1, Now
  <2> QED
    BY <2>1, <2>2 DEF PaperTypeOK
<1> HIDE DEF n
<1>4. Owned'
  <2>1. /\ w.pc # "idle" => /\ w.order \in Orders' /\ orders'[w.order].filled = 0
                            /\ orders'[w.order].status # "filled" /\ w.order # n
        /\ d.pc # "idle" => /\ d.order \in Orders' /\ orders'[d.order].filled = 0
                            /\ orders'[d.order].status # "filled" /\ d.order # n
        /\ w.pc = "ack" => rest = 0 /\ orders'[w.order].qty = Amount
        /\ rest # 0 => /\ rest \in Orders' /\ orders'[rest].qty = Amount /\ orders'[rest].status # "filled"
                       /\ rest # n
    BY <1>1, Now DEF Unfilled
  <2>2. /\ w.pc # "idle" /\ d.pc # "idle" => w.order # d.order
        /\ rest # 0 => (w.pc # "idle" => w.order # rest) /\ (d.pc # "idle" => d.order # rest)
    BY Now
  <2>3. n \in Orders' /\ rest' = rest
    BY <1>1
  <2>4. CASE w.pc = "idle" /\ d' = d /\ w'.pc \in {"close", "kill"} /\ w'.order = n
    BY <1>1, <2>1, <2>2, <2>3, <2>4 DEF Owned, Unfilled
  <2>5. CASE d.pc = "idle" /\ w' = w /\ d'.pc = "close" /\ d'.order = n
    BY <1>1, <2>1, <2>2, <2>3, <2>5 DEF Owned, Unfilled
  <2> QED
    BY <1>2, <2>4, <2>5
<1>5. Booked'
  <2>1. pos' = pos /\ rest' = rest /\ (w' = w \/ (w'.pc # "ack" /\ pos.kind = "open"))
    BY <1>2
  <2>2. /\ pos.kind # "none" => pos.order \in Orders' /\ pos.by \in Orders' /\ pos.qty >= 1
        /\ pos.kind = "pending" => w.pc = "ack" /\ pos.order = w.order
        /\ w.pc = "ack" /\ pos.kind = "open" => pos.hand
        /\ rest # 0 /\ pos.kind = "open" => pos.order = rest \/ pos.hand
        /\ pos.kind = "open" => pos.by = pos.order \/ pos.hand
    BY <1>1 DEF PaperInv, Booked
  <2> QED
    BY <2>1, <2>2 DEF Booked
<1>6. PositionMatchesFill' /\ PositionIsDurable'
  <2>1. pos.by \in Orders /\ orders'[pos.by] = orders[pos.by]
    BY <1>1, Now
  <2> QED
    BY <1>1, <2>1 DEF PaperInv, PositionMatchesFill, PositionIsDurable, HasRow
<1> QED
  BY <1>1, <1>3, <1>4, <1>5, <1>6 DEF PaperInv

\* The reservation or the position is dropped, or nothing but the switch changes.
LEMMA SweptStep ==
  ASSUME OrderInv, PaperInv, UNCHANGED <<orders, life, rows, unsaved, w, d, rest>>, killed' \in BOOLEAN,
         pos' = NoPosition \/ pos' = pos
  PROVE  PaperInv'
<1>1. Len(orders') = Len(orders) /\ Orders' = Orders /\ Len(orders) \in Nat
  BY Now DEF Orders
<1>2. PaperTypeOK'
  <2>1. pos' \in Positions(Len(orders))
    BY <1>1, NoPositionType, Now
  <2> QED
    BY <1>1, <2>1 DEF PaperInv, PaperTypeOK
<1>3. Owned'
  BY <1>1 DEF PaperInv, Owned, Unfilled
<1>4. Booked' /\ PositionMatchesFill' /\ PositionIsDurable'
  <2>1. CASE pos' = NoPosition
    BY <2>1, NothingHeld DEF NoPosition
  <2>2. CASE pos' = pos
    BY <1>1, <2>2 DEF PaperInv, Booked, PositionMatchesFill, PositionIsDurable, HasRow
  <2> QED
    BY <2>1, <2>2
<1> QED
  BY <1>2, <1>3, <1>4 DEF PaperInv

\* The three that place an order to close with, or are refused one.
LEMMA CloseSteps ==
  ASSUME OrderInv, PaperInv, ExitHit \/ DashboardClose \/ HandleKill
  PROVE  OrderInv' /\ PaperInv'
<1>1. ASSUME Refused, UNCHANGED <<snapshot, process, revived, pos, rows, unsaved, killed, w, d, rest>>
      PROVE  OrderInv' /\ PaperInv'
  <2>1. OrderInv'
    BY <1>1, RefusedInv DEF Refused
  <2>2. PaperInv'
    BY <1>1, Now, PaperFrame DEF Refused, paperVars, ledger, Orders, process
  <2> QED
    BY <2>1, <2>2
<1>2. ASSUME ExitHit PROVE OrderInv' /\ PaperInv'
  <2>1. CASE Submitted(Exit, pos.qty) /\ w' = [pc |-> "close", order |-> Len(orders')]
    BY <1>2, <2>1, CloseSubmitted DEF ExitHit, ledger
  <2>2. CASE Opposed(Exit) /\ Refused /\ UNCHANGED w
    BY <1>1, <1>2, <2>2 DEF ExitHit, ledger
  <2> QED
    BY <1>2, <2>1, <2>2 DEF ExitHit, ledger
<1>3. ASSUME DashboardClose PROVE OrderInv' /\ PaperInv'
  <2>1. CASE Submitted(Exit, pos.qty) /\ d' = [pc |-> "close", order |-> Len(orders')]
    BY <1>3, <2>1, CloseSubmitted DEF DashboardClose, ledger
  <2>2. CASE Opposed(Exit) /\ Refused /\ UNCHANGED d
    BY <1>1, <1>3, <2>2 DEF DashboardClose, ledger
  <2> QED
    BY <1>3, <2>1, <2>2 DEF DashboardClose, ledger
<1>4. ASSUME HandleKill PROVE OrderInv' /\ PaperInv'
  <2>1. CASE Submitted(Exit, pos.qty) /\ w' = [pc |-> "kill", order |-> Len(orders')] /\ UNCHANGED <<pos, killed>>
    BY <1>4, <2>1, CloseSubmitted DEF HandleKill, ledger
  <2>2. CASE Refused /\ Swept /\ UNCHANGED w
    <3>1. UNCHANGED <<snapshot, process, revived, rows, unsaved, d, rest>> /\ UNCHANGED life
      BY <1>4 DEF HandleKill, process, ledger
    <3>2. OrderInv'
      BY <2>2, <3>1, RefusedInv DEF Refused
    <3>3. PaperInv'
      BY <2>2, <3>1, SweptStep DEF Refused, Swept
    <3> QED
      BY <3>2, <3>3
  <2> QED
    BY <1>4, <2>1, <2>2 DEF HandleKill
<1> QED
  BY <1>2, <1>3, <1>4

\* The switch is thrown or released: nothing is traded.
LEMMA SwitchSteps ==
  ASSUME OrderInv, PaperInv, Sweep \/ Release
  PROVE  OrderInv' /\ PaperInv'
<1>1. /\ UNCHANGED <<omVars, rows, unsaved, w, d, rest>> /\ killed' \in BOOLEAN
      /\ pos' = NoPosition \/ pos' = pos
  BY DEF Sweep, Release, Swept, ledger
<1>2. UNCHANGED <<orders, index, keys, savedAt, files, may, life, revived, up, clock>>
  BY <1>1 DEF omVars, process
<1>3. up \in BOOLEAN /\ clock \in 0..MaxTime
  BY DEF OrderInv, OrderTypeOK
<1>4. OrderInv'
  BY <1>2, <1>3, CalmInv
<1>5. PaperInv'
  BY <1>1, <1>2, SweptStep
<1> QED
  BY <1>4, <1>5

\* The entry order is rejected: cancelled with its reservation.
LEMMA RejectStep ==
  ASSUME OrderInv, PaperInv, Reject
  PROVE  OrderInv' /\ PaperInv'
<1>1. /\ orders' = AfterCancel({w.order}) /\ UNCHANGED <<kept, revived>>
      /\ UNCHANGED <<rows, unsaved, killed, d, rest, life>>
      /\ w.pc = "ack" /\ w' = Idle
      /\ pos' = IF pos.kind = "pending" THEN NoPosition ELSE pos
  BY DEF Reject, kept, process, ledger
<1>2. OrderInv'
  BY <1>1, CancelInv
<1>3. /\ Rewritten(orders')
      /\ \A p \in Orders :
           /\ Alike(orders[p], orders'[p]) /\ orders'[p].kept = orders[p].kept
           /\ orders'[p].filled = orders[p].filled
           /\ \/ orders'[p].status = orders[p].status
              \/ orders[p].status \in ActiveStatus /\ orders'[p].status = "cancelled"
  BY <1>1, CancelFacts, Now
<1>4. Orders' = Orders /\ Len(orders') = Len(orders) /\ Len(orders) \in Nat
  BY <1>3, Now DEF Rewritten, Orders
<1>5. (pos'.kind = "none" \/ (pos' = pos /\ pos.kind = "open")) /\ pos' \in Positions(Len(orders))
  <2>1. CASE pos.kind = "pending"
    <3>1. pos' = NoPosition
      BY <1>1, <2>1
    <3>2. pos'.kind = "none"
      BY <3>1 DEF NoPosition
    <3>3. pos' \in Positions(Len(orders))
      BY <1>4, <3>1, NoPositionType
    <3> QED
      BY <3>2, <3>3
  <2>2. CASE pos.kind # "pending"
    <3>1. pos' = pos
      BY <1>1, <2>2
    <3>2. pos \in Positions(Len(orders)) /\ pos.kind \in {"none", "pending", "open"}
      BY Now
    <3>3. pos'.kind = "none" \/ (pos' = pos /\ pos.kind = "open")
      BY <2>2, <3>1, <3>2
    <3> QED
      BY <3>1, <3>2, <3>3
  <2> QED
    BY <2>1, <2>2
<1>6. PaperTypeOK'
  <2>1. w' \in [pc : {"idle", "ack", "close", "kill"}, order : 0..Len(orders)]
    BY <1>1, <1>4, IdleType
  <2> QED
    BY <1>1, <1>4, <1>5, <2>1 DEF PaperInv, PaperTypeOK
<1>7. Owned'
  <2>1. w'.pc = "idle" /\ rest' = 0
    BY <1>1, IdleType, Now
  <2>2. d.pc # "idle" => d.order \in Orders /\ orders'[d.order].filled = 0 /\ orders'[d.order].status # "filled"
    BY <1>3, Now DEF Unfilled
  <2> QED
    BY <1>1, <1>4, <2>1, <2>2 DEF Owned, Unfilled
<1>8. Booked' /\ PositionMatchesFill' /\ PositionIsDurable'
  <2>1. CASE pos'.kind = "none"
    BY <2>1, NothingHeld
  <2>2. CASE pos' = pos /\ pos.kind = "open"
    <3>1. Booked'
      BY <1>1, <1>4, <2>2, IdleType, Now DEF Booked
    <3>2. PositionMatchesFill'
      <4>1. /\ pos.by \in Orders /\ orders'[pos.by].filled = orders[pos.by].filled
            /\ orders'[pos.by].kept = orders[pos.by].kept /\ orders'[pos.by].life = orders[pos.by].life
        BY <1>3, <2>2, Now DEF Alike
      <4> QED
        BY <1>1, <2>2, <4>1 DEF PaperInv, PositionMatchesFill
    <3>3. PositionIsDurable'
      BY <1>1, <2>2 DEF PaperInv, PositionIsDurable, HasRow
    <3> QED
      BY <3>1, <3>2, <3>3
  <2> QED
    BY <1>5, <2>1, <2>2
<1> QED
  BY <1>2, <1>6, <1>7, <1>8 DEF PaperInv

(***************************************************************************)
(* The fills.                                                              *)
(***************************************************************************)
\* The order that is filled, and all the others.
LEMMA OwnFill ==
  ASSUME OrderInv, PaperInv, NEW o \in Orders, NEW q \in Nat, RecordFill(o, q), UNCHANGED kept,
         orders[o].filled + q <= orders[o].qty, orders[o].status # "filled"
  PROVE  /\ OrderInv' /\ life' = life
         /\ Orders' = Orders /\ Len(orders') = Len(orders)
         /\ \A p \in Orders : p # o => orders'[p] = orders[p]
         /\ orders'[o].qty = orders[o].qty /\ orders'[o].life = orders[o].life
         /\ orders'[o].kept = orders[o].kept
         /\ orders[o].kept => orders'[o].filled = orders[o].filled + q
         /\ orders[o].filled + q # orders[o].qty => orders'[o].status # "filled"
<1>1. OrderTypeOK /\ life' = life
  BY DEF OrderInv, kept, process
<1>2. OrderInv'
  BY FillInv
<1>3. /\ Rewritten(orders')
      /\ \A p \in Orders : p # o => orders'[p] = orders[p]
      /\ Alike(orders[o], orders'[o]) /\ orders'[o].kept = orders[o].kept
      /\ orders[o].kept =>
           /\ orders'[o].filled = orders[o].filled + q
           /\ orders'[o].status = IF orders[o].filled + q = orders[o].qty THEN "filled" ELSE "partial"
      /\ ~orders[o].kept => orders'[o] = orders[o]
  BY <1>1, FillFacts
<1>4. orders[o].kept \in BOOLEAN
  BY Now DEF OrderRecords
<1>5. Orders' = Orders /\ Len(orders') = Len(orders)
  BY <1>3 DEF Rewritten, Orders
<1> QED
  BY <1>1, <1>2, <1>3, <1>4, <1>5 DEF Alike

\* A close order is filled whole, and the position that is there is closed.
LEMMA CloseFilled ==
  ASSUME OrderInv, PaperInv, NEW o \in Orders, RecordFill(o, orders[o].qty), UNCHANGED kept, CloseInBook,
         killed' \in BOOLEAN, rest' = rest,
         \/ w.pc \notin {"idle", "ack"} /\ o = w.order /\ w' = Idle /\ UNCHANGED d
         \/ d.pc # "idle" /\ o = d.order /\ d' = Idle /\ UNCHANGED w
  PROVE  OrderInv' /\ PaperInv'
<1>1. orders[o].filled = 0 /\ orders[o].status # "filled" /\ orders[o].qty \in Nat
  BY Now DEF Unfilled
<1>2. /\ OrderInv' /\ Orders' = Orders /\ Len(orders') = Len(orders)
      /\ \A p \in Orders : p # o => orders'[p] = orders[p]
  <2>1. orders[o].filled + orders[o].qty <= orders[o].qty
    BY <1>1
  <2> QED
    BY <1>1, <2>1, OwnFill
<1>3. pos' = NoPosition /\ rows' \subseteq rows /\ unsaved' = unsaved /\ pos'.kind = "none"
  BY DEF CloseInBook, NoPosition
<1>4. PaperTypeOK'
  <2>1. /\ pos' \in Positions(Len(orders))
        /\ w' \in [pc : {"idle", "ack", "close", "kill"}, order : 0..Len(orders)]
        /\ d' \in [pc : {"idle", "close"}, order : 0..Len(orders)]
    BY <1>3, Now, NoPositionType, IdleType
  <2>2. /\ rows' \subseteq [order : Orders, qty : 1..Amount] /\ unsaved' \subseteq Orders
        /\ rest' \in 0..Len(orders)
    BY <1>3, Now
  <2> QED
    BY <1>2, <2>1, <2>2 DEF PaperTypeOK
<1>5. Owned'
  <2>1. /\ w'.pc # "idle" => w' = w /\ w.pc # "idle" /\ w.order # o
        /\ d'.pc # "idle" => d' = d /\ d.pc # "idle" /\ d.order # o
        /\ rest # 0 => rest # o
    BY Now, IdleType
  <2>2. /\ w'.pc # "idle" => Unfilled(w.order) /\ orders'[w.order] = orders[w.order]
        /\ d'.pc # "idle" => Unfilled(d.order) /\ orders'[d.order] = orders[d.order]
        /\ rest # 0 => rest \in Orders /\ orders'[rest] = orders[rest]
    BY <1>2, <2>1, Now DEF Unfilled
  <2>3. /\ w'.pc # "idle" => Unfilled(w.order)'
        /\ d'.pc # "idle" => Unfilled(d.order)'
    BY <1>2, <2>1, <2>2 DEF Unfilled
  <2>4. w'.pc # "idle" /\ d'.pc # "idle" => w'.order # d'.order
    BY <2>1, Now
  <2>5. w'.pc = "ack" => rest = 0 /\ orders'[w'.order].qty = Amount
    BY <2>1, <2>2, Now
  <2>6. rest # 0 =>
          /\ rest \in Orders' /\ orders'[rest].qty = Amount /\ orders'[rest].status # "filled"
          /\ w'.pc # "idle" => w'.order # rest
          /\ d'.pc # "idle" => d'.order # rest
    BY <1>2, <2>1, <2>2, Now
  <2> QED
    BY <2>3, <2>4, <2>5, <2>6 DEF Owned
<1> QED
  BY <1>2, <1>3, <1>4, <1>5, NothingHeld DEF PaperInv

\* The fills of the three closes.
LEMMA CloseFills ==
  ASSUME OrderInv, PaperInv, FinishClose \/ FinishDashboardClose \/ FinishKill
  PROVE  OrderInv' /\ PaperInv'
<1>1. CASE FinishClose
  <2>1. /\ w.pc = "close" /\ w' = Idle /\ UNCHANGED d /\ UNCHANGED kept /\ CloseInBook
        /\ killed' = killed /\ rest' = rest
    BY <1>1 DEF FinishClose
  <2>2. PICK o : o = w.order
    OBVIOUS
  <2>3. o \in Orders /\ killed' \in BOOLEAN /\ RecordFill(o, orders[o].qty)
    BY <1>1, <2>1, <2>2, Now DEF FinishClose, Unfilled
  <2> QED
    BY <2>1, <2>2, <2>3, CloseFilled
<1>2. CASE FinishDashboardClose
  <2>1. /\ d.pc = "close" /\ d' = Idle /\ UNCHANGED w /\ UNCHANGED kept /\ CloseInBook
        /\ killed' = killed /\ rest' = rest
    BY <1>2 DEF FinishDashboardClose
  <2>2. PICK o : o = d.order
    OBVIOUS
  <2>3. o \in Orders /\ killed' \in BOOLEAN /\ RecordFill(o, orders[o].qty)
    BY <1>2, <2>1, <2>2, Now DEF FinishDashboardClose, Unfilled
  <2> QED
    BY <2>1, <2>2, <2>3, CloseFilled
<1>3. CASE FinishKill
  <2>1. /\ w.pc = "kill" /\ w' = Idle /\ UNCHANGED d /\ UNCHANGED kept /\ CloseInBook
        /\ killed' = TRUE /\ rest' = rest
    BY <1>3 DEF FinishKill
  <2>2. PICK o : o = w.order
    OBVIOUS
  <2>3. o \in Orders /\ killed' \in BOOLEAN /\ RecordFill(o, orders[o].qty)
    BY <1>3, <2>1, <2>2, Now DEF FinishKill, Unfilled
  <2> QED
    BY <2>1, <2>2, <2>3, CloseFilled
<1> QED
  BY <1>1, <1>2, <1>3

\* The row is written, or the failure is known.
LEMMA InsertFacts ==
  ASSUME NEW o, NEW qty, Insert(o, qty)
  PROVE  /\ rows' \subseteq rows \cup {[order |-> o, qty |-> qty]} /\ unsaved' \subseteq unsaved \cup {o}
         /\ (\E r \in rows' : r.order = o) \/ o \in unsaved'
<1>1. CASE rows' = rows \cup {[order |-> o, qty |-> qty]} /\ UNCHANGED unsaved
  <2>1. [order |-> o, qty |-> qty] \in rows'
    BY <1>1
  <2> QED
    BY <1>1, <2>1
<1>2. CASE unsaved' = unsaved \cup {o} /\ UNCHANGED rows
  BY <1>2
<1> QED
  BY <1>1, <1>2 DEF Insert

\* The position takes the quantity of the fill, and has its row.
LEMMA RebaseFacts ==
  ASSUME OrderInv, PaperInv, NEW o \in Orders, NEW qty \in 1..Amount, Rebase(o, qty)
  PROVE  /\ pos' \in Positions(Len(orders))
         /\ rows' \subseteq [order : Orders, qty : 1..Amount] /\ unsaved' \subseteq Orders
         /\ pos.kind = "none" => pos' = pos
         /\ pos.kind # "none" =>
              /\ pos'.kind = "open" /\ pos'.qty = qty /\ pos'.order = pos.order
              /\ pos'.by = o /\ pos'.hand = pos.hand
         /\ PositionIsDurable'
<1>1. CASE pos.kind = "none"
  <2>1. pos' = pos /\ rows' = rows /\ unsaved' = unsaved
    BY <1>1 DEF Rebase, ledger
  <2> QED
    BY <1>1, <2>1, Now DEF PositionIsDurable
<1>2. CASE pos.kind # "none"
  <2>1. /\ pos' = [kind |-> "open", qty |-> qty, order |-> pos.order, by |-> o, hand |-> pos.hand]
        /\ IF HasRow THEN UNCHANGED <<rows, unsaved>> ELSE Insert(pos.order, qty)
    BY <1>2 DEF Rebase, Book, ledger
  <2>2. /\ pos.order \in Orders /\ pos.order \in 0..Len(orders) /\ qty \in 0..Amount
        /\ o \in 0..Len(orders) /\ pos.hand \in BOOLEAN
    BY <1>2, Now DEF Positions
  <2>3. pos'.kind = "open" /\ pos'.qty = qty /\ pos'.order = pos.order /\ pos'.by = o /\ pos'.hand = pos.hand
    BY <2>1
  <2>4. /\ (\E r \in rows' : r.order = pos.order) \/ pos.order \in unsaved'
        /\ rows' \subseteq rows \cup {[order |-> pos.order, qty |-> qty]}
        /\ unsaved' \subseteq unsaved \cup {pos.order}
    <3>1. CASE HasRow
      BY <2>1, <3>1 DEF HasRow
    <3>2. CASE ~HasRow
      BY <2>1, <3>2, InsertFacts
    <3> QED
      BY <3>1, <3>2
  <2>5. rows' \subseteq [order : Orders, qty : 1..Amount] /\ unsaved' \subseteq Orders
    BY <2>2, <2>4, Now
  <2>6. pos' \in Positions(Len(orders))
    BY <2>1, <2>2 DEF Positions
  <2> QED
    BY <1>2, <2>3, <2>4, <2>5, <2>6 DEF PositionIsDurable, HasRow
<1> QED
  BY <1>1, <1>2

\* An operator's position takes the place of the one there was; it is filled and written.
LEMMA OpenPositionStep ==
  ASSUME OrderInv, PaperInv, NEW side \in Sides, OpenPosition(side)
  PROVE  OrderInv' /\ PaperInv'
<1> DEFINE n == Len(orders')
<1>1. /\ Create(Generated, side, Amount, "filled", Amount) /\ UNCHANGED <<snapshot, process, revived>>
      /\ pos' = [kind |-> "open", qty |-> Amount, order |-> n, by |-> n, hand |-> TRUE]
      /\ Insert(n, Amount) /\ UNCHANGED <<killed, w, d, rest>>
  BY DEF OpenPosition, Trade, Book
<1>2. /\ OrderTypeOK /\ Generated \in Clients \cup {Generated} /\ Amount \in Nat /\ Amount \in 1..Amount
      /\ Amount <= Amount /\ Len(orders) \in Nat
  BY OrderAssumption, Now
<1>3. OrderInv'
  BY <1>1, <1>2, CreateInv
<1>4. /\ n = Len(orders) + 1 /\ Orders' = Orders \cup {n}
      /\ \A o \in Orders : orders'[o] = orders[o]
      /\ orders'[n] = NewOrder(Generated, side, Amount, "filled", Amount)
  BY <1>1, <1>2, CreateFacts
<1>5. /\ orders'[n].filled = Amount /\ n \in Orders' /\ n \in 0..n /\ Amount \in 0..Amount
      /\ pos'.kind = "open" /\ pos'.qty = Amount /\ pos'.order = n /\ pos'.by = n /\ pos'.hand = TRUE
  BY <1>1, <1>2, <1>4 DEF NewOrder
<1> HIDE DEF n
<1>6. /\ rows' \subseteq rows \cup {[order |-> n, qty |-> Amount]} /\ unsaved' \subseteq unsaved \cup {n}
      /\ (\E r \in rows' : r.order = n) \/ n \in unsaved'
  BY <1>1, InsertFacts
<1>7. PaperTypeOK'
  <2>1. pos' \in Positions(n)
    BY <1>1, <1>5 DEF Positions
  <2>2. /\ w' \in [pc : {"idle", "ack", "close", "kill"}, order : 0..n]
        /\ d' \in [pc : {"idle", "close"}, order : 0..n] /\ rest' \in 0..n
    BY <1>1, <1>2, <1>4, Now, TypesGrow
  <2>3. rows' \subseteq [order : Orders', qty : 1..Amount] /\ unsaved' \subseteq Orders' /\ killed' \in BOOLEAN
    BY <1>1, <1>2, <1>4, <1>5, <1>6, Now
  <2> QED
    BY <2>1, <2>2, <2>3 DEF PaperTypeOK, n
<1>8. Owned'
  BY <1>1, <1>4, OwnedFrame
<1>9. Booked'
  BY <1>2, <1>5 DEF Booked
<1>10. PositionMatchesFill' /\ PositionIsDurable'
  BY <1>5, <1>6 DEF PositionMatchesFill, PositionIsDurable, HasRow
<1> QED
  BY <1>3, <1>7, <1>8, <1>9, <1>10 DEF PaperInv

\* The entry is filled, whole or in part.
LEMMA EntryFilled ==
  ASSUME OrderInv, PaperInv, w.pc = "ack", NEW q \in 1..Amount, RecordFill(w.order, q), Rebase(w.order, q),
         w' = Idle, UNCHANGED kept, UNCHANGED <<killed, d>>,
         \/ rest' = rest
         \/ rest' = w.order /\ q # Amount
  PROVE  OrderInv' /\ PaperInv'
<1>1. PICK o : o = w.order
  OBVIOUS
<1>2. o \in Orders /\ orders[o].filled = 0 /\ orders[o].status # "filled" /\ orders[o].qty = Amount /\ rest = 0
  BY <1>1, Now DEF Unfilled
<1>3. /\ OrderInv' /\ Orders' = Orders /\ Len(orders') = Len(orders) /\ life' = life
      /\ \A p \in Orders : p # o => orders'[p] = orders[p]
      /\ orders'[o].qty = Amount /\ orders'[o].kept = orders[o].kept
      /\ orders[o].kept => orders'[o].filled = q
      /\ q # Amount => orders'[o].status # "filled"
  <2>1. q \in Nat /\ orders[o].filled + q <= orders[o].qty /\ orders[o].filled + q = q /\ RecordFill(o, q)
    BY <1>1, <1>2, OrderAssumption
  <2> QED
    BY <1>2, <2>1, OwnFill
<1>4. /\ pos' \in Positions(Len(orders))
      /\ rows' \subseteq [order : Orders, qty : 1..Amount] /\ unsaved' \subseteq Orders
      /\ pos.kind = "none" => pos' = pos
      /\ pos.kind # "none" =>
           /\ pos'.kind = "open" /\ pos'.qty = q /\ pos'.order = pos.order
           /\ pos'.by = o /\ pos'.hand = pos.hand
      /\ PositionIsDurable'
  BY <1>1, <1>2, RebaseFacts
<1>5. w'.pc = "idle"
  BY IdleType, Now
<1>6. pos.kind # "none" => (pos.order = o \/ pos.hand) /\ pos.order \in Orders
  BY <1>1, Now
<1>7. PaperTypeOK'
  <2>1. w' \in [pc : {"idle", "ack", "close", "kill"}, order : 0..Len(orders)] /\ rest' \in 0..Len(orders)
        /\ d' \in [pc : {"idle", "close"}, order : 0..Len(orders)] /\ killed' \in BOOLEAN
    BY IdleType, Now
  <2> QED
    BY <1>3, <1>4, <2>1 DEF PaperTypeOK
<1>8. Owned'
  <2>1. d.pc # "idle" => Unfilled(d.order) /\ d.order # o
    BY <1>1, Now
  <2>2. d'.pc # "idle" => Unfilled(d.order)'
    BY <1>3, <2>1 DEF Unfilled
  <2>3. rest' # 0 => rest' = o /\ orders'[o].status # "filled"
    BY <1>1, <1>2, <1>3
  <2> QED
    BY <1>2, <1>3, <1>5, <2>1, <2>2, <2>3 DEF Owned
<1>9. Booked'
  BY <1>1, <1>2, <1>3, <1>4, <1>5, <1>6 DEF Booked
<1>10. PositionMatchesFill'
  BY <1>3, <1>4, <1>6 DEF PositionMatchesFill
<1> QED
  BY <1>3, <1>4, <1>7, <1>8, <1>9, <1>10 DEF PaperInv

\* What the entry had left is filled: the order has its quantity, and so has the position.
LEMMA CompleteStep ==
  ASSUME OrderInv, PaperInv, Complete
  PROVE  OrderInv' /\ PaperInv'
<1>1. /\ rest # 0 /\ RecordFill(rest, Amount - orders[rest].filled) /\ Rebase(rest, Amount) /\ rest' = 0
      /\ UNCHANGED kept /\ UNCHANGED <<killed, w, d>>
  BY DEF Complete
<1>2. PICK o : o = rest
  OBVIOUS
<1>3. PICK q : q = Amount - orders[o].filled
  OBVIOUS
<1>4. /\ o \in Orders /\ orders[o].qty = Amount /\ orders[o].status # "filled" /\ orders[o].filled \in Nat
      /\ orders[o].filled <= Amount /\ q \in Nat /\ orders[o].filled + q = Amount /\ RecordFill(o, q)
      /\ Amount \in 1..Amount
  <2>1. /\ o \in Orders /\ orders[o].qty = Amount /\ orders[o].status # "filled" /\ orders[o].filled \in Nat
        /\ orders[o].filled <= orders[o].qty
    BY <1>1, <1>2, Now
  <2> QED
    BY <1>1, <1>2, <1>3, <2>1, OrderAssumption
<1>5. /\ OrderInv' /\ Orders' = Orders /\ Len(orders') = Len(orders) /\ life' = life
      /\ \A p \in Orders : p # o => orders'[p] = orders[p]
      /\ orders'[o].kept = orders[o].kept
      /\ orders[o].kept => orders'[o].filled = Amount
  <2>1. orders[o].filled + q <= orders[o].qty
    BY <1>4
  <2> QED
    BY <1>1, <1>4, <2>1, OwnFill
<1>6. /\ pos' \in Positions(Len(orders))
      /\ rows' \subseteq [order : Orders, qty : 1..Amount] /\ unsaved' \subseteq Orders
      /\ pos.kind = "none" => pos' = pos
      /\ pos.kind # "none" =>
           /\ pos'.kind = "open" /\ pos'.qty = Amount /\ pos'.order = pos.order
           /\ pos'.by = o /\ pos'.hand = pos.hand
      /\ PositionIsDurable'
  BY <1>1, <1>2, <1>4, RebaseFacts
<1>7. /\ w.pc # "ack" /\ (w.pc # "idle" => w.order # o /\ Unfilled(w.order))
      /\ (d.pc # "idle" => d.order # o /\ Unfilled(d.order))
      /\ (pos.kind # "none" => pos.kind = "open" /\ (pos.order = o \/ pos.hand) /\ pos.order \in Orders)
      /\ (w.pc # "idle" /\ d.pc # "idle" => w.order # d.order)
  BY <1>1, <1>2, Now
<1>8. PaperTypeOK'
  <2>1. /\ w' \in [pc : {"idle", "ack", "close", "kill"}, order : 0..Len(orders)] /\ rest' \in 0..Len(orders)
        /\ d' \in [pc : {"idle", "close"}, order : 0..Len(orders)] /\ killed' \in BOOLEAN
    BY <1>1, Now
  <2> QED
    BY <1>5, <1>6, <2>1 DEF PaperTypeOK
<1>9. Owned'
  BY <1>1, <1>5, <1>7 DEF Owned, Unfilled
<1>10. Booked'
  BY <1>1, <1>4, <1>5, <1>6, <1>7 DEF Booked
<1>11. PositionMatchesFill'
  BY <1>5, <1>6, <1>7 DEF PositionMatchesFill
<1> QED
  BY <1>5, <1>6, <1>8, <1>9, <1>10, <1>11 DEF PaperInv

\* What the latencies end in.
LEMMA WorkStep ==
  ASSUME OrderInv, PaperInv, Work
  PROVE  OrderInv' /\ PaperInv'
<1>1. CASE FillEntry
  <2>1. /\ w.pc = "ack" /\ RecordFill(w.order, Amount) /\ Rebase(w.order, Amount) /\ w' = Idle
        /\ UNCHANGED kept /\ UNCHANGED <<killed, d>> /\ rest' = rest /\ Amount \in 1..Amount
    BY <1>1, OrderAssumption DEF FillEntry
  <2> QED
    BY <2>1, EntryFilled
<1>2. CASE \E q \in 1..(Amount - 1) : FillPart(q)
  <2>1. PICK q \in 1..(Amount - 1) : FillPart(q)
    BY <1>2
  <2>2. /\ w.pc = "ack" /\ RecordFill(w.order, q) /\ Rebase(w.order, q) /\ w' = Idle
        /\ UNCHANGED kept /\ UNCHANGED <<killed, d>> /\ rest' = w.order
    BY <2>1 DEF FillPart
  <2>3. q \in 1..Amount /\ q # Amount
    BY OrderAssumption
  <2> QED
    BY <2>2, <2>3, EntryFilled
<1> QED
  BY <1>1, <1>2, RejectStep, CompleteStep, CloseFills DEF Work

(***************************************************************************)
(* The process stops and starts.                                           *)
(***************************************************************************)
LEMMA HaltStep ==
  ASSUME OrderInv, PaperInv, Stop \/ Crash
  PROVE  OrderInv' /\ PaperInv'
<1>1. UNCHANGED paperVars /\ UNCHANGED <<orders, life>>
  BY DEF Stop, Crash, StopOrders, CrashOrders, Halt
<1>2. PaperInv'
  BY <1>1, Now, PaperFrame DEF Orders
<1>3. CASE Stop
  BY <1>2, <1>3, StopInv DEF Stop
<1>4. CASE Crash
  <2>1. /\ UNCHANGED <<orders, index, keys, savedAt, files, may, life, revived>>
        /\ up' \in BOOLEAN /\ clock' \in 0..MaxTime
    BY <1>4 DEF Crash, CrashOrders, Halt, files, OrderInv, OrderTypeOK
  <2> QED
    BY <1>2, <2>1, CalmInv
<1> QED
  BY <1>3, <1>4

\* The position comes from the first of the open rows; its order is of an earlier life.
LEMMA StartStep ==
  ASSUME OrderInv, PaperInv, Start
  PROVE  OrderInv' /\ PaperInv'
<1>1. /\ StartOrders /\ UNCHANGED <<rows, unsaved>>
      /\ killed' = FALSE /\ w' = Idle /\ d' = Idle /\ rest' = 0
      /\ pos' = IF rows = {} THEN NoPosition
                ELSE LET first == CHOOSE r \in rows : \A s \in rows : r.order <= s.order
                     IN  [kind |-> "open", qty |-> first.qty, order |-> first.order,
                          by |-> first.order, hand |-> FALSE]
  BY DEF Start, ledger
<1>2. OrderInv'
  BY <1>1, StartInv
<1>3. OrderTypeOK /\ Len(orders) \in Nat /\ Orders = 1..Len(orders) /\ life \in Nat
  <2>1. OrderTypeOK /\ Len(orders) \in Nat /\ Orders = 1..Len(orders)
    BY Now
  <2> QED
    BY <2>1, OrderAssumption DEF OrderTypeOK
<1>4. /\ Rewritten(orders')
      /\ \A p \in Orders :
           \/ p \in DOMAIN snapshot.orders /\ orders'[p] = snapshot.orders[p]
           \/ /\ Alike(orders[p], orders'[p]) /\ orders'[p].filled = orders[p].filled
              /\ ~orders'[p].kept
  BY <1>1, <1>3, StartFacts
<1>5. Orders' = Orders /\ Len(orders') = Len(orders) /\ life' = life + 1
  BY <1>1, <1>4 DEF Rewritten, Orders, StartOrders
<1>6. \A p \in Orders : orders'[p].kept => orders'[p].life # life'
  <2>1. ASSUME NEW p \in DOMAIN snapshot.orders PROVE snapshot.orders[p].life \in Nat /\ snapshot.orders[p].life <= life
    BY <1>3 DEF OrderInv, Bounded, InBounds, OrderTypeOK, OrderRecords
  <2>2. \A p \in DOMAIN snapshot.orders : snapshot.orders[p].life # life + 1
    BY <1>3, <2>1
  <2> QED
    BY <1>4, <1>5, <2>2
<1>7. \/ pos' = NoPosition
      \/ \E r \in rows : pos' = [kind |-> "open", qty |-> r.qty, order |-> r.order, by |-> r.order, hand |-> FALSE]
  <2>1. CASE rows = {}
    BY <1>1, <2>1
  <2>2. CASE rows # {}
    <3> DEFINE T == {r.order : r \in rows}
    <3>1. rows \subseteq [order : Orders, qty : 1..Amount]
      BY Now
    <3>2. T \in SUBSET Nat /\ T # {}
      BY <1>3, <2>2, <3>1
    <3>3. PICK x \in T : \A y \in T : x <= y
      <4> HIDE DEF T
      <4> QED
        BY <3>2, Least
    <3>4. \E r \in rows : \A s \in rows : r.order <= s.order
      BY <3>3
    <3>5. PICK first \in rows : first = CHOOSE r \in rows : \A s \in rows : r.order <= s.order
      BY <3>4
    <3> QED
      BY <1>1, <2>2, <3>5
  <2> QED
    BY <2>1, <2>2
<1>8. w'.pc = "idle" /\ d'.pc = "idle"
  BY <1>1, <1>3, IdleType
<1>9. Owned'
  BY <1>1, <1>8 DEF Owned
<1>10. /\ w' \in [pc : {"idle", "ack", "close", "kill"}, order : 0..Len(orders')] /\ rest' \in 0..Len(orders')
       /\ d' \in [pc : {"idle", "close"}, order : 0..Len(orders')] /\ killed' \in BOOLEAN
       /\ rows' \subseteq [order : Orders', qty : 1..Amount] /\ unsaved' \subseteq Orders'
  <2>1. /\ w' \in [pc : {"idle", "ack", "close", "kill"}, order : 0..Len(orders)] /\ rest' \in 0..Len(orders)
        /\ d' \in [pc : {"idle", "close"}, order : 0..Len(orders)]
    BY <1>1, <1>3, IdleType
  <2>2. rows' \subseteq [order : Orders, qty : 1..Amount] /\ unsaved' \subseteq Orders /\ killed' \in BOOLEAN
    BY <1>1, Now
  <2> QED
    BY <1>5, <2>1, <2>2
<1>11. CASE pos' = NoPosition
  <2>1. pos' \in Positions(Len(orders'))
        /\ pos'.kind = "none"
    BY <1>3, <1>5, <1>11, NoPositionType DEF NoPosition
  <2> QED
    BY <1>2, <1>9, <1>10, <2>1, NothingHeld DEF PaperInv, PaperTypeOK
<1>12. CASE \E r \in rows : pos' = [kind |-> "open", qty |-> r.qty, order |-> r.order, by |-> r.order, hand |-> FALSE]
  <2>1. PICK r \in rows : pos' = [kind |-> "open", qty |-> r.qty, order |-> r.order, by |-> r.order, hand |-> FALSE]
    BY <1>12
  <2>2. r.order \in Orders /\ r.qty \in 1..Amount
    BY Now
  <2>3. /\ pos' \in Positions(Len(orders'))
        /\ pos'.kind = "open" /\ pos'.qty = r.qty /\ pos'.order = r.order /\ pos'.by = r.order
    <3>1. r.order \in 0..Len(orders) /\ r.qty \in 0..Amount
      BY <1>3, <2>2, OrderAssumption
    <3> QED
      BY <1>5, <2>1, <3>1 DEF Positions
  <2>4. Booked'
    BY <1>1, <1>5, <1>8, <2>2, <2>3, OrderAssumption DEF Booked
  <2>5. PositionMatchesFill'
    BY <1>6, <2>2, <2>3 DEF PositionMatchesFill
  <2>6. PositionIsDurable'
    BY <1>1, <2>3 DEF PositionIsDurable, HasRow
  <2> QED
    BY <1>2, <1>9, <1>10, <2>3, <2>4, <2>5, <2>6 DEF PaperInv, PaperTypeOK
<1> QED
  BY <1>7, <1>11, <1>12

(***************************************************************************)
(* The invariant, and what it gives.                                       *)
(***************************************************************************)
LEMMA InvInit == Init => IInv
<1> SUFFICES ASSUME Init PROVE IInv
  OBVIOUS
<1>1. /\ orders = <<>> /\ snapshot.orders = <<>> /\ Orders = {} /\ DOMAIN snapshot.orders = {} /\ Len(orders) = 0
      /\ orders \in Seq(OrderRecords) /\ pos = NoPosition /\ rows = {} /\ unsaved = {} /\ killed = FALSE
      /\ w = Idle /\ d = Idle /\ rest = 0
  BY DEF Init, OrderInit, Orders
<1>2. OrderTypeOK
  BY <1>1, OrderAssumption DEF Init, OrderInit, OrderTypeOK
<1>3. OrderInv
  BY <1>1, <1>2 DEF OrderInv, Bounded, Keyed, NoCross, Apart, InBook
<1>4. PaperTypeOK
  <2>1. Len(orders) \in Nat /\ 0 \in 0..Len(orders)
    BY <1>1
  <2>2. /\ pos \in Positions(Len(orders))
        /\ w \in [pc : {"idle", "ack", "close", "kill"}, order : 0..Len(orders)]
        /\ d \in [pc : {"idle", "close"}, order : 0..Len(orders)]
    BY <1>1, <2>1, NoPositionType, IdleType
  <2> QED
    BY <1>1, <2>1, <2>2 DEF PaperTypeOK
<1>5. pos.kind = "none" /\ w.pc = "idle" /\ d.pc = "idle"
  BY <1>1, IdleType DEF NoPosition
<1>6. PaperInv
  BY <1>1, <1>4, <1>5 DEF PaperInv, Owned, Booked, PositionMatchesFill, PositionIsDurable
<1> QED
  BY <1>3, <1>6, InvParts

\* Every step keeps the invariant.
LEMMA InvStep == IInv /\ [Next]_vars => IInv'
<1> SUFFICES ASSUME OrderInv, PaperInv, [Next]_vars PROVE OrderInv' /\ PaperInv'
  BY DEF IInv, OrderInv, PaperInv, TypeOK, PaperTypeOK, Positions
<1>1. CASE Api /\ UNCHANGED paperVars
  BY <1>1, ApiStep
<1>9. CASE \E side \in Sides : OpenPosition(side)
  BY <1>9, OpenPositionStep
<1>2. CASE Signal
  BY <1>2, SignalStep
<1>3. CASE ExitHit \/ DashboardClose \/ HandleKill
  BY <1>3, CloseSteps
<1>4. CASE Sweep \/ Release
  BY <1>4, SwitchSteps
<1>5. CASE Work
  BY <1>5, WorkStep
<1>6. CASE Stop \/ Crash
  BY <1>6, HaltStep
<1>7. CASE Start
  BY <1>7, StartStep
<1>8. CASE UNCHANGED vars
  <2>1. /\ UNCHANGED <<orders, index, keys, savedAt, files, may, life, revived, paperVars>>
        /\ up' = up /\ clock' = clock
    BY <1>8 DEF vars, omVars, process
  <2>2. OrderInv'
    BY <2>1, CalmInv DEF OrderInv, OrderTypeOK
  <2>3. PaperInv'
    BY <2>1, Now, PaperFrame DEF Orders
  <2> QED
    BY <2>2, <2>3
<1> QED
  BY <1>1, <1>2, <1>3, <1>4, <1>5, <1>6, <1>7, <1>8, <1>9 DEF Next

\* So it holds in every execution.
THEOREM Invariant == Spec => []IInv
BY InvInit, InvStep, PTL DEF Spec

\* The records of the manager, the positions and the rows keep their types.
THEOREM TypeCorrect == Spec => []TypeOK
<1>1. IInv => TypeOK
  BY DEF IInv
<1> QED
  BY <1>1, Invariant, PTL

\* However signals, completions, closes, cancels, the clean-up and restarts are mixed,
\* no order is filled beyond its quantity.
THEOREM FillsFit == Spec => []NoOverfill
<1>1. IInv => NoOverfill
  BY DEF IInv, Bounded, InBounds, NoOverfill
<1> QED
  BY <1>1, Invariant, PTL

\* However often a client sends its order again, the process that took it up keeps one
\* order for its client order id, and finds it by that id.
THEOREM ClientsServedOnce == Spec => []OneOrderPerClient
<1>1. IInv => OneOrderPerClient
  BY DEF IInv, Keyed, OneOrderPerClient, Named
<1> QED
  BY <1>1, Invariant, PTL

\* No order goes to work against an opposite one made less than the window before it,
\* after a restart from the file either.
THEOREM SidesKeptApart == Spec => []NoSelfTrade
<1>1. IInv => NoSelfTrade
  <2> SUFFICES ASSUME IInv, NEW o \in Orders, NEW p \in Orders, o < p, Active(o), Active(p),
                      orders[o].side # orders[p].side
               PROVE  orders[p].made - orders[o].made >= SelfTradeWindow \/ o \in revived
    BY DEF NoSelfTrade
  <2>1. o \in InBook /\ p \in InBook /\ Opposes(orders[o], orders[p])
    BY DEF Active, InBook, Opposes, ActiveStatus
  <2> QED
    BY <2>1 DEF IInv, NoCross, Apart
<1> QED
  BY <1>1, Invariant, PTL

\* The quantity that is tracked is what one order filled in all, while fills, closes, the
\* kill switch and an operator's trades interleave: the order of the position, or the entry
\* whose position the operator's replaced.
THEOREM BookMatchesFills == Spec => []PositionMatchesFill
<1>1. IInv => PositionMatchesFill
  BY DEF IInv
<1> QED
  BY <1>1, Invariant, PTL

\* Whenever the process stops or crashes, SQLite has a row of the open position, or its
\* insert had failed.
THEOREM PositionsSurvive == Spec => []PositionIsDurable
<1>1. IInv => PositionIsDurable
  BY DEF IInv
<1> QED
  BY <1>1, Invariant, PTL
=============================================================================
