------------------------- MODULE OrderLedger_proofs -------------------------
(***************************************************************************)
(* Proofs about OrderLedger, for any users, products, orders and initial   *)
(* levels: type correctness and the conservation of stock and of sales.    *)
(***************************************************************************)
EXTENDS OrderLedger, FiniteSetTheorems, TLAPS

USE DEF NOT_PLACED, PENDING_PAY, PAID, COMPLETED, CANCELLED, AWAITING_RECEIPT

\* The buyable lines of a user form a basket.
LEMMA SelectedLinesType ==
  ASSUME TypeOK, NEW u \in Users
  PROVE  SelectedLines(u) \in Basket
BY MaxQtyPositive DEF TypeOK, SelectedLines, Basket

\* Placing an order keeps the shelf from going negative.
LEMMA PlaceType ==
  ASSUME TypeOK, NEW o \in Orders, NEW u \in Users, NEW basket \in Basket,
         Place(o, u, basket)
  PROVE  /\ stock' \in [Products -> Nat]
         /\ sales' \in [Products -> Nat]
         /\ onSale' \in SUBSET Products
         /\ orders' \in [Orders -> Order]
<1>1. ASSUME NEW p \in Products PROVE stock[p] - basket[p] \in Nat
  <2>1. CASE basket[p] > 0
    BY <2>1, MaxQtyPositive DEF TypeOK, Place, Basket, In, Purchasable
  <2>2. CASE ~(basket[p] > 0)
    BY <2>2, MaxQtyPositive DEF TypeOK, Basket
  <2> QED BY <2>1, <2>2
<1>2. stock' \in [Products -> Nat]
  BY <1>1 DEF Place
<1>3. [status |-> PENDING_PAY, user |-> u, qty |-> basket] \in Order
  BY DEF Order, Status
<1>4. orders' \in [Orders -> Order]
  BY <1>3 DEF Place, TypeOK
<1> QED BY <1>2, <1>4 DEF Place, TypeOK

\* A status update keeps the orders well formed.
LEMMA MoveType ==
  ASSUME orders \in [Orders -> Order], NEW o \in Orders,
         NEW expected \in Status, NEW next \in Status, Move(o, expected, next)
  PROVE  orders' \in [Orders -> Order]
BY DEF Move, Order

THEOREM InitTypeOK == Init => TypeOK
BY MaxQtyPositive, InitialLevels
   DEF Init, TypeOK, EmptyBasket, Basket, In, NoOrder, Order, Status

THEOREM NextTypeOK == TypeOK /\ [Next]_vars => TypeOK'
<1> SUFFICES ASSUME TypeOK, [Next]_vars PROVE TypeOK'
  OBVIOUS
<1>1. ASSUME NEW o \in Orders, NEW u \in Users, PlaceFromCart(o, u)
      PROVE  TypeOK'
  <2>1. Place(o, u, SelectedLines(u))
    BY <1>1 DEF PlaceFromCart
  <2>2. /\ stock' \in [Products -> Nat]
        /\ sales' \in [Products -> Nat]
        /\ onSale' \in SUBSET Products
        /\ orders' \in [Orders -> Order]
    BY <2>1, SelectedLinesType, PlaceType
  <2>3. cart' \in [Users -> Basket]
    BY <1>1, MaxQtyPositive DEF PlaceFromCart, TypeOK, Basket
  <2>4. /\ selected' \in [Users -> SUBSET Products]
        /\ \A v \in Users : selected'[v] \subseteq In(cart'[v])
    BY <1>1 DEF PlaceFromCart, TypeOK, In
  <2> QED BY <2>2, <2>3, <2>4 DEF TypeOK, In
<1>2. ASSUME NEW o \in Orders, NEW u \in Users, NEW basket \in Basket,
             PlaceItems(o, u, basket)
      PROVE  TypeOK'
  BY <1>2, PlaceType DEF PlaceItems, cartVars, TypeOK, In
<1>3. ASSUME NEW o \in Orders, Pay(o) PROVE TypeOK'
  <2>1. orders' \in [Orders -> Order]
    BY <1>3, MoveType DEF Pay, TypeOK, Status
  <2>2. sales' \in [Products -> Nat]
    BY <1>3, MaxQtyPositive DEF Pay, TypeOK, Order, Basket
  <2> QED BY <1>3, <2>1, <2>2 DEF Pay, TypeOK, In
<1>4. ASSUME NEW o \in Orders, Cancel(o) PROVE TypeOK'
  <2>1. orders' \in [Orders -> Order]
    BY <1>4, MoveType DEF Cancel, TypeOK, Status
  <2>2. stock' \in [Products -> Nat]
    BY <1>4, MaxQtyPositive DEF Cancel, TypeOK, Order, Basket
  <2> QED BY <1>4, <2>1, <2>2 DEF Cancel, TypeOK, In
<1>5. ASSUME NEW o \in Orders, MarkAwaitingReceipt(o) PROVE TypeOK'
  BY <1>5, MoveType DEF MarkAwaitingReceipt, TypeOK, Status, In
<1>6. ASSUME NEW o \in Orders, CompletePaid(o) PROVE TypeOK'
  BY <1>6, MoveType DEF CompletePaid, TypeOK, Status, In
<1>7. ASSUME NEW u \in Users, NEW p \in Products, NEW n \in 1..MaxQty,
             AddToCart(u, p, n)
      PROVE  TypeOK'
  <2>1. cart[u][p] + n \in 1..MaxQty
    BY <1>7 DEF AddToCart, Purchasable
  <2>2. cart' \in [Users -> Basket]
    BY <1>7, <2>1, MaxQtyPositive DEF AddToCart, TypeOK, Basket
  <2>3. \A v \in Users : selected'[v] \subseteq In(cart'[v])
    BY <1>7, <2>1, MaxQtyPositive DEF AddToCart, TypeOK, Basket, In
  <2> QED BY <1>7, <2>2, <2>3 DEF AddToCart, TypeOK, In
<1>8. ASSUME NEW u \in Users, NEW p \in Products, NEW n \in 1..MaxQty,
             NEW on \in BOOLEAN, Patch(u, p, n, on)
      PROVE  TypeOK'
  <2>1. cart' \in [Users -> Basket]
    BY <1>8, MaxQtyPositive DEF Patch, TypeOK, Basket
  <2>2. \A v \in Users : selected'[v] \subseteq In(cart'[v])
    BY <1>8, MaxQtyPositive DEF Patch, TypeOK, Basket, In
  <2> QED BY <1>8, <2>1, <2>2 DEF Patch, TypeOK, In
<1>9. ASSUME NEW u \in Users, NEW p \in Products, RemoveLine(u, p)
      PROVE  TypeOK'
  <2>1. cart' \in [Users -> Basket]
    BY <1>9, MaxQtyPositive DEF RemoveLine, TypeOK, Basket
  <2>2. \A v \in Users : selected'[v] \subseteq In(cart'[v])
    BY <1>9, MaxQtyPositive DEF RemoveLine, TypeOK, Basket, In
  <2> QED BY <1>9, <2>1, <2>2 DEF RemoveLine, TypeOK, In
<1>10. ASSUME NEW p \in Products, ToggleOnSale(p) PROVE TypeOK'
  BY <1>10 DEF ToggleOnSale, TypeOK, In
<1>11. CASE UNCHANGED vars
  BY <1>11 DEF vars, TypeOK, In
<1> QED
  BY <1>1, <1>2, <1>3, <1>4, <1>5, <1>6, <1>7, <1>8, <1>9, <1>10, <1>11 DEF Next

\* The tables stay well formed; in particular no product's stock goes below
\* zero, whatever is bought, paid or cancelled.
THEOREM TypeCorrect == Spec => []TypeOK
BY InitTypeOK, NextTypeOK, PTL DEF Spec

-----------------------------------------------------------------------------
(* Conservation.  The units of a table are split into those of one order   *)
(* and those of the others; only the former change when that order does.   *)

Tables == [Orders -> Order]
SameOthers(f, g, o) == \A x \in Orders \ {o} : g[x] = f[x]
Written(o, r) == orders' = [orders EXCEPT ![o] = r]
Own(f, o, p, S) == IF f[o].status \in S THEN {o} \X (1..f[o].qty[p]) ELSE {}
Count(f, o, p, S) == IF f[o].status \in S THEN f[o].qty[p] ELSE 0

\* The units of one order are as many as its item says.
LEMMA OwnCount ==
  ASSUME NEW f \in Tables, NEW o \in Orders, NEW p \in Products, NEW S
  PROVE  /\ IsFiniteSet(Own(f, o, p, S))
         /\ Cardinality(Own(f, o, p, S)) = Count(f, o, p, S)
<1> DEFINE q == f[o].qty[p]
<1>1. q \in Nat
  BY MaxQtyPositive DEF Tables, Order, Basket
<1>2. IsFiniteSet(1..q) /\ Cardinality(1..q) = q
  <2>1. /\ IsFiniteSet(1..q)
        /\ Cardinality(1..q) = IF 1 > q THEN 0 ELSE q - 1 + 1
    <3>1. 1 \in Int /\ q \in Int
      BY <1>1
    <3> HIDE DEF q
    <3> QED BY <3>1, FS_Interval
  <2> QED BY <1>1, <2>1
<1>3. IsFiniteSet({o}) /\ Cardinality({o}) = 1
  BY FS_Singleton
<1>4. /\ IsFiniteSet({o} \X (1..q))
      /\ Cardinality({o} \X (1..q)) = Cardinality({o}) * Cardinality(1..q)
  BY <1>2, <1>3, FS_Product, Zenon
<1>5. CASE f[o].status \in S
  <2>1. 1 * q = q
    BY <1>1
  <2> QED BY <2>1, <1>2, <1>3, <1>4, <1>5 DEF Own, Count
<1>6. CASE f[o].status \notin S
  BY <1>6, FS_EmptySet DEF Own, Count
<1> QED BY <1>5, <1>6

\* The units in a table are finitely many.
LEMMA UnitsFinite ==
  ASSUME NEW f, NEW p, NEW S
  PROVE  IsFiniteSet(Units(f, p, S)) /\ Cardinality(Units(f, p, S)) \in Nat
<1>1. IsFiniteSet(1..MaxQty)
  BY MaxQtyPositive, FS_Interval
<1>2. IsFiniteSet(Orders \X (1..MaxQty))
  BY <1>1, OrdersFinite, FS_Product
<1>3. Units(f, p, S) \in SUBSET (Orders \X (1..MaxQty))
  BY DEF Units
<1>4. IsFiniteSet(Units(f, p, S))
  BY <1>2, <1>3, FS_Subset
<1> QED BY <1>4, FS_CardinalityType

\* Changing one order of a table changes the number of units by the difference
\* between what that order counts for after and before.
LEMMA UnitsAfterUpdate ==
  ASSUME NEW f \in Tables, NEW g \in Tables, NEW o \in Orders, SameOthers(f, g, o),
         NEW p \in Products, NEW S
  PROVE  Cardinality(Units(g, p, S)) =
           Cardinality(Units(f, p, S)) - Count(f, o, p, S) + Count(g, o, p, S)
<1> DEFINE Others(h) == Units(h, p, S) \ Own(h, o, p, S)
<1>1. ASSUME NEW h \in Tables
      PROVE  Cardinality(Others(h)) = Cardinality(Units(h, p, S)) - Count(h, o, p, S)
  <2>1. Own(h, o, p, S) \subseteq Units(h, p, S)
    <3>1. h[o].qty[p] \in 0..MaxQty
      BY DEF Tables, Order, Basket
    <3> QED BY <3>1, MaxQtyPositive DEF Own, Units
  <2>2. Units(h, p, S) \cap Own(h, o, p, S) = Own(h, o, p, S)
    BY <2>1
  <2>3. Cardinality(Others(h)) =
          Cardinality(Units(h, p, S)) - Cardinality(Units(h, p, S) \cap Own(h, o, p, S))
    BY UnitsFinite, FS_Difference
  <2> QED BY <2>2, <2>3, OwnCount
<1>2. ASSUME NEW h \in Tables
      PROVE  Others(h) = {unit \in Units(h, p, S) : unit[1] # o}
  <2>1. h[o].qty[p] \in Nat
    BY MaxQtyPositive DEF Tables, Order, Basket
  <2> QED BY <2>1, MaxQtyPositive DEF Own, Units
<1>3. Others(f) = Others(g)
  BY <1>2 DEF Units, SameOthers
<1>4. /\ Count(f, o, p, S) \in Nat
      /\ Count(g, o, p, S) \in Nat
  BY MaxQtyPositive DEF Tables, Count, Order, Basket
<1>5. /\ Cardinality(Units(f, p, S)) \in Nat
      /\ Cardinality(Units(g, p, S)) \in Nat
  BY UnitsFinite
<1>6. Cardinality(Units(f, p, S)) - Count(f, o, p, S)
        = Cardinality(Units(g, p, S)) - Count(g, o, p, S)
  <2>1. Cardinality(Others(f)) = Cardinality(Units(f, p, S)) - Count(f, o, p, S)
    BY <1>1
  <2>2. Cardinality(Others(g)) = Cardinality(Units(g, p, S)) - Count(g, o, p, S)
    BY <1>1
  <2> QED BY <1>3, <2>1, <2>2
<1> QED BY <1>4, <1>5, <1>6

\* The one thing every operation on an order comes down to.
LEMMA OrderStep ==
  ASSUME TypeOK, NEW o \in Orders, NEW r \in Order,
         Written(o, r), NEW p \in Products, NEW S
  PROVE  /\ Cardinality(Units(orders, p, S)) \in Nat
         /\ Cardinality(Units(orders', p, S)) =
              Cardinality(Units(orders, p, S)) - (IF orders[o].status \in S THEN orders[o].qty[p] ELSE 0)
                + (IF r.status \in S THEN r.qty[p] ELSE 0)
<1>1. orders \in Tables /\ orders' \in Tables
  BY DEF TypeOK, Written, Tables
<1>2. SameOthers(orders, orders', o) /\ orders'[o] = r
  BY DEF TypeOK, Written, SameOthers
<1>3. Cardinality(Units(orders', p, S)) =
        Cardinality(Units(orders, p, S)) - Count(orders, o, p, S) + Count(orders', o, p, S)
  BY <1>1, <1>2, UnitsAfterUpdate
<1>4. Cardinality(Units(orders, p, S)) \in Nat
  BY UnitsFinite
<1>5. /\ Count(orders, o, p, S) = IF orders[o].status \in S THEN orders[o].qty[p] ELSE 0
      /\ Count(orders', o, p, S) = IF r.status \in S THEN r.qty[p] ELSE 0
  BY <1>2 DEF Count
<1> QED BY <1>3, <1>4, <1>5

\* An operation that leaves the orders alone leaves their units alone.
LEMMA NoOrderStep ==
  ASSUME orders' = orders, NEW p, NEW S
  PROVE  Units(orders', p, S) = Units(orders, p, S)
BY DEF Units

\* Stock and sales as one invariant.
Conserved == StockConserved /\ SalesConserved

THEOREM InitConserved == Init => Conserved
<1> SUFFICES ASSUME Init PROVE Conserved
  OBVIOUS
<1>1. ASSUME NEW p \in Products, NEW S, NOT_PLACED \notin S PROVE Units(orders, p, S) = {}
  BY <1>1 DEF Init, Units, NoOrder
<1>2. Cardinality({}) = 0
  BY FS_EmptySet
<1>3. ASSUME NEW p \in Products
      PROVE  Units(orders, p, Holding) = {} /\ Units(orders, p, Sold) = {}
  BY <1>1 DEF Holding, Sold
<1>4. ASSUME NEW p \in Products
      PROVE  /\ stock[p] + Cardinality(Units(orders, p, Holding)) = InitStock[p]
             /\ sales[p] = InitSales[p] + Cardinality(Units(orders, p, Sold))
  <2>1. /\ stock[p] = InitStock[p] /\ InitStock[p] \in Nat
        /\ sales[p] = InitSales[p] /\ InitSales[p] \in Nat
    BY InitialLevels DEF Init
  <2>2. /\ Cardinality(Units(orders, p, Holding)) = 0
        /\ Cardinality(Units(orders, p, Sold)) = 0
    BY <1>2, <1>3, Zenon
  <2> QED BY <2>1, <2>2
<1> QED BY <1>4, Zenon DEF Conserved, StockConserved, SalesConserved

\* What a status update does to the counts.
LEMMA MoveStep ==
  ASSUME TypeOK, NEW o \in Orders, NEW expected \in Status, NEW next \in Status,
         Move(o, expected, next), NEW p \in Products, NEW S
  PROVE  /\ Cardinality(Units(orders, p, S)) \in Nat
         /\ orders[o].qty[p] \in Nat
         /\ Cardinality(Units(orders', p, S)) =
              Cardinality(Units(orders, p, S)) - (IF expected \in S THEN orders[o].qty[p] ELSE 0)
                + (IF next \in S THEN orders[o].qty[p] ELSE 0)
<1> DEFINE r == [orders[o] EXCEPT !.status = next]
<1>1. r \in Order /\ Written(o, r)
  BY DEF TypeOK, Move, Order, Written
<1>2. /\ r.status = next
      /\ r.qty = orders[o].qty
      /\ orders[o].status = expected
  BY DEF TypeOK, Move, Order
<1>3. orders[o].qty[p] \in Nat
  BY MaxQtyPositive DEF TypeOK, Order, Basket
<1> HIDE DEF r
<1>4. /\ Cardinality(Units(orders, p, S)) \in Nat
      /\ Cardinality(Units(orders', p, S)) =
           Cardinality(Units(orders, p, S)) - (IF orders[o].status \in S THEN orders[o].qty[p] ELSE 0)
             + (IF r.status \in S THEN r.qty[p] ELSE 0)
  BY <1>1, OrderStep
<1> QED BY <1>2, <1>3, <1>4

\* What placing an order does to the counts.
LEMMA PlaceStep ==
  ASSUME TypeOK, NEW o \in Orders, NEW u \in Users, NEW basket \in Basket,
         Place(o, u, basket), NEW p \in Products, NEW S, NOT_PLACED \notin S
  PROVE  /\ Cardinality(Units(orders, p, S)) \in Nat
         /\ basket[p] \in Nat
         /\ Cardinality(Units(orders', p, S)) =
              Cardinality(Units(orders, p, S)) + (IF PENDING_PAY \in S THEN basket[p] ELSE 0)
<1> DEFINE r == [status |-> PENDING_PAY, user |-> u, qty |-> basket]
<1>1. r \in Order /\ Written(o, r)
  BY DEF Place, Order, Status, Written
<1>2. orders[o].status \notin S
  BY DEF Place
<1>3. basket[p] \in Nat
  BY MaxQtyPositive DEF Basket
<1>4. r.status = PENDING_PAY /\ r.qty = basket
  OBVIOUS
<1> HIDE DEF r
<1>5. /\ Cardinality(Units(orders, p, S)) \in Nat
      /\ Cardinality(Units(orders', p, S)) =
           Cardinality(Units(orders, p, S)) - (IF orders[o].status \in S THEN orders[o].qty[p] ELSE 0)
             + (IF r.status \in S THEN r.qty[p] ELSE 0)
  BY <1>1, OrderStep
<1> QED BY <1>2, <1>3, <1>4, <1>5

THEOREM NextConserved == TypeOK /\ Conserved /\ [Next]_vars => Conserved'
<1> SUFFICES ASSUME TypeOK, Conserved, [Next]_vars,
                    NEW p \in Products
             PROVE  /\ stock'[p] + Cardinality(Units(orders', p, Holding)) = InitStock[p]
                    /\ sales'[p] = InitSales[p] + Cardinality(Units(orders', p, Sold))
  BY DEF Conserved, StockConserved, SalesConserved
<1>0. /\ stock[p] + Cardinality(Units(orders, p, Holding)) = InitStock[p]
      /\ sales[p] = InitSales[p] + Cardinality(Units(orders, p, Sold))
      /\ stock[p] \in Nat /\ sales[p] \in Nat
      /\ InitStock[p] \in Nat /\ InitSales[p] \in Nat
  BY InitialLevels DEF Conserved, StockConserved, SalesConserved, TypeOK
<1>1. ASSUME NEW o \in Orders, NEW u \in Users, NEW basket \in Basket, Place(o, u, basket)
      PROVE  /\ stock'[p] + Cardinality(Units(orders', p, Holding)) = InitStock[p]
             /\ sales'[p] = InitSales[p] + Cardinality(Units(orders', p, Sold))
  <2>1. stock'[p] = stock[p] - basket[p] /\ sales'[p] = sales[p]
    BY <1>1 DEF Place
  <2>2. /\ Cardinality(Units(orders, p, Holding)) \in Nat
        /\ basket[p] \in Nat
        /\ Cardinality(Units(orders', p, Holding)) = Cardinality(Units(orders, p, Holding)) + basket[p]
    BY <1>1, PlaceStep DEF Holding
  <2>3. Cardinality(Units(orders', p, Sold)) = Cardinality(Units(orders, p, Sold)) + 0
    BY <1>1, PlaceStep DEF Sold
  <2>4. Cardinality(Units(orders, p, Sold)) \in Nat
    BY <1>1, PlaceStep DEF Sold
  <2> QED BY <1>0, <2>1, <2>2, <2>3, <2>4
<1>2. ASSUME NEW o \in Orders, NEW u \in Users, PlaceFromCart(o, u)
      PROVE  /\ stock'[p] + Cardinality(Units(orders', p, Holding)) = InitStock[p]
             /\ sales'[p] = InitSales[p] + Cardinality(Units(orders', p, Sold))
  BY <1>1, <1>2, SelectedLinesType DEF PlaceFromCart
<1>3. ASSUME NEW o \in Orders, Pay(o)
      PROVE  /\ stock'[p] + Cardinality(Units(orders', p, Holding)) = InitStock[p]
             /\ sales'[p] = InitSales[p] + Cardinality(Units(orders', p, Sold))
  <2>1. Move(o, PENDING_PAY, PAID) /\ stock'[p] = stock[p] /\ sales'[p] = sales[p] + orders[o].qty[p]
    BY <1>3 DEF Pay
  <2>2. /\ Cardinality(Units(orders, p, Holding)) \in Nat
        /\ orders[o].qty[p] \in Nat
        /\ Cardinality(Units(orders', p, Holding)) =
             Cardinality(Units(orders, p, Holding)) - orders[o].qty[p] + orders[o].qty[p]
    BY <2>1, MoveStep DEF Holding, Status
  <2>3. /\ Cardinality(Units(orders, p, Sold)) \in Nat
        /\ Cardinality(Units(orders', p, Sold)) = Cardinality(Units(orders, p, Sold)) - 0 + orders[o].qty[p]
    BY <2>1, MoveStep DEF Sold, Status
  <2> QED BY <1>0, <2>1, <2>2, <2>3
<1>4. ASSUME NEW o \in Orders, Cancel(o)
      PROVE  /\ stock'[p] + Cardinality(Units(orders', p, Holding)) = InitStock[p]
             /\ sales'[p] = InitSales[p] + Cardinality(Units(orders', p, Sold))
  <2>1. Move(o, PENDING_PAY, CANCELLED) /\ stock'[p] = stock[p] + orders[o].qty[p] /\ sales'[p] = sales[p]
    BY <1>4 DEF Cancel
  <2>2. /\ Cardinality(Units(orders, p, Holding)) \in Nat
        /\ orders[o].qty[p] \in Nat
        /\ Cardinality(Units(orders', p, Holding)) =
             Cardinality(Units(orders, p, Holding)) - orders[o].qty[p] + 0
    BY <2>1, MoveStep DEF Holding, Status
  <2>3. /\ Cardinality(Units(orders, p, Sold)) \in Nat
        /\ Cardinality(Units(orders', p, Sold)) = Cardinality(Units(orders, p, Sold)) - 0 + 0
    BY <2>1, MoveStep DEF Sold, Status
  <2> QED BY <1>0, <2>1, <2>2, <2>3
<1>5. ASSUME NEW o \in Orders, MarkAwaitingReceipt(o) \/ CompletePaid(o)
      PROVE  /\ stock'[p] + Cardinality(Units(orders', p, Holding)) = InitStock[p]
             /\ sales'[p] = InitSales[p] + Cardinality(Units(orders', p, Sold))
  <2>1. PICK expected \in Sold, next \in Sold : Move(o, expected, next)
    BY <1>5 DEF MarkAwaitingReceipt, CompletePaid, Sold
  <2>2. /\ expected \in Status /\ next \in Status
        /\ expected \in Holding /\ next \in Holding
    BY DEF Sold, Holding, Status
  <2>3. stock' = stock /\ sales' = sales
    BY <1>5 DEF MarkAwaitingReceipt, CompletePaid
  <2>4. /\ Cardinality(Units(orders, p, Holding)) \in Nat
        /\ orders[o].qty[p] \in Nat
        /\ Cardinality(Units(orders', p, Holding)) =
             Cardinality(Units(orders, p, Holding)) - orders[o].qty[p] + orders[o].qty[p]
    BY <2>1, <2>2, MoveStep
  <2>5. /\ Cardinality(Units(orders, p, Sold)) \in Nat
        /\ Cardinality(Units(orders', p, Sold)) =
             Cardinality(Units(orders, p, Sold)) - orders[o].qty[p] + orders[o].qty[p]
    BY <2>1, <2>2, MoveStep
  <2> QED BY <1>0, <2>3, <2>4, <2>5
<1>6. ASSUME orders' = orders, stock' = stock, sales' = sales
      PROVE  /\ stock'[p] + Cardinality(Units(orders', p, Holding)) = InitStock[p]
             /\ sales'[p] = InitSales[p] + Cardinality(Units(orders', p, Sold))
  BY <1>0, <1>6, NoOrderStep
<1> QED
  BY <1>1, <1>2, <1>3, <1>4, <1>5, <1>6
     DEF Next, PlaceItems, AddToCart, Patch, RemoveLine, ToggleOnSale, vars

\* For every set of products, orders and initial levels: the units on the shelf
\* and the units held by orders that are not cancelled are those seeded.
THEOREM StockTheorem == Spec => []StockConserved
<1>1. Init => TypeOK /\ Conserved
  BY InitTypeOK, InitConserved
<1>2. TypeOK /\ Conserved /\ [Next]_vars => (TypeOK /\ Conserved)'
  BY NextTypeOK, NextConserved
<1>3. Conserved => StockConserved
  BY DEF Conserved
<1> QED BY <1>1, <1>2, <1>3, PTL DEF Spec

\* ... and products.sales has counted every paid unit once.
THEOREM SalesTheorem == Spec => []SalesConserved
<1>1. Init => TypeOK /\ Conserved
  BY InitTypeOK, InitConserved
<1>2. TypeOK /\ Conserved /\ [Next]_vars => (TypeOK /\ Conserved)'
  BY NextTypeOK, NextConserved
<1>3. Conserved => SalesConserved
  BY DEF Conserved
<1> QED BY <1>1, <1>2, <1>3, PTL DEF Spec

\* A cart line grows only while its product is on sale and only up to the stock.
THEOREM GrowthTheorem == Spec => LinesGrowWithinStock
<1>1. TypeOK /\ [Next]_vars => [LineGrowth]_vars
  <2> SUFFICES ASSUME TypeOK, Next, NEW u \in Users, NEW p \in Products,
                      cart'[u][p] > cart[u][p]
               PROVE  p \in onSale /\ cart'[u][p] <= stock[p]
    BY DEF LineGrowth
  <2>1. ASSUME NEW o \in Orders, NEW v \in Users, PlaceFromCart(o, v) PROVE FALSE
    BY <2>1, MaxQtyPositive DEF PlaceFromCart, TypeOK, Basket
  <2>2. ASSUME NEW v \in Users, NEW q \in Products, NEW n \in 1..MaxQty, AddToCart(v, q, n)
        PROVE  p \in onSale /\ cart'[u][p] <= stock[p]
    <3>1. u = v /\ p = q
      BY <2>2, MaxQtyPositive DEF AddToCart, TypeOK, Basket
    <3> QED BY <2>2, <3>1 DEF AddToCart, Purchasable, TypeOK, Basket
  <2>3. ASSUME NEW v \in Users, NEW q \in Products, NEW n \in 1..MaxQty,
               NEW on \in BOOLEAN, Patch(v, q, n, on)
        PROVE  p \in onSale /\ cart'[u][p] <= stock[p]
    <3>1. u = v /\ p = q
      BY <2>3, MaxQtyPositive DEF Patch, TypeOK, Basket
    <3>2. cart'[u][p] = n /\ n > cart[u][p] /\ cart[u][p] \in 0..MaxQty
      BY <2>3, <3>1 DEF Patch, TypeOK, Basket
    <3>3. Patchable(u, p, n) /\ n \notin 1..cart[u][p]
      BY <2>3, <3>1, <3>2, MaxQtyPositive DEF Patch
    <3> QED BY <3>2, <3>3 DEF Patchable, Purchasable
  <2>4. ASSUME NEW v \in Users, NEW q \in Products, RemoveLine(v, q) PROVE FALSE
    BY <2>4, MaxQtyPositive DEF RemoveLine, TypeOK, Basket
  <2>5. ASSUME cart' = cart PROVE FALSE
    BY <2>5, MaxQtyPositive DEF TypeOK, Basket
  <2> QED
    BY <2>1, <2>2, <2>3, <2>4, <2>5
       DEF Next, PlaceItems, cartVars, Pay, Cancel, MarkAwaitingReceipt, CompletePaid, ToggleOnSale
<1> QED BY <1>1, InitTypeOK, NextTypeOK, PTL DEF Spec, LinesGrowWithinStock
=============================================================================
