----------------------- MODULE OrderTransactions_proofs -----------------------
(***************************************************************************)
(* Proofs about OrderTransactions, for any users, products, orders and     *)
(* concurrent sessions.                                                    *)
(***************************************************************************)
EXTENDS OrderTransactions, FiniteSetTheorems, SequenceTheorems, TLAPS

------------------------------------------------------------------------------
(* Sorting: ById lists each product of a set once, in ascending order.     *)

Smaller(S, p) == {q \in S : q < p}
Rank(S, p) == Cardinality(Smaller(S, p))

LEMMA RankIsRank ==
  ASSUME NEW S, IsFiniteSet(S), S \subseteq Int, NEW p \in S
  PROVE  /\ Rank(S, p) \in 0..(Cardinality(S) - 1)
         /\ \A q \in S : q < p => Rank(S, q) < Rank(S, p)
<1>1. ASSUME NEW q \in S PROVE IsFiniteSet(Smaller(S, q)) /\ Rank(S, q) \in Nat
  BY FS_Subset, FS_CardinalityType DEF Smaller, Rank
<1>2. ASSUME NEW T, IsFiniteSet(T), NEW q \in T, Smaller(S, p) \subseteq T, q \notin Smaller(S, p)
      PROVE  Rank(S, p) < Cardinality(T)
  <2>1. Cardinality(Smaller(S, p)) <= Cardinality(T)
          /\ Cardinality(Smaller(S, p)) # Cardinality(T)
    BY <1>2, FS_Subset
  <2>2. Cardinality(T) \in Nat
    BY <1>2, FS_CardinalityType
  <2> QED
    BY <1>1, <2>1, <2>2 DEF Rank
<1>3. Rank(S, p) < Cardinality(S)
  BY <1>2 DEF Smaller
<1>4. ASSUME NEW q \in S, q < p PROVE Rank(S, q) < Rank(S, p)
  <2>0. q \in Int /\ p \in Int
    OBVIOUS
  <2>1. Smaller(S, q) \subseteq Smaller(S, p) /\ q \in Smaller(S, p) /\ q \notin Smaller(S, q)
    <3>1. ASSUME NEW r \in Smaller(S, q) PROVE r \in Smaller(S, p)
      <4>1. r \in S /\ r \in Int /\ r < q
        BY <3>1 DEF Smaller
      <4> QED
        BY <1>4, <2>0, <4>1 DEF Smaller
    <3>2. q \in Smaller(S, p) /\ q \notin Smaller(S, q)
      BY <1>4, <2>0 DEF Smaller
    <3> QED
      BY <3>1, <3>2
  <2>2. Cardinality(Smaller(S, q)) <= Cardinality(Smaller(S, p))
          /\ Cardinality(Smaller(S, q)) # Cardinality(Smaller(S, p))
    BY <1>1, <2>1, FS_Subset
  <2> QED
    BY <1>1, <2>2 DEF Rank
<1>5. Cardinality(S) \in Nat
  BY FS_CardinalityType
<1> QED
  BY <1>1, <1>3, <1>4, <1>5

\* Each place of the list is taken by the product of that rank.
LEMMA ByIdSorts ==
  ASSUME NEW S, IsFiniteSet(S), S \subseteq Int
  PROVE  /\ Cardinality(S) \in Nat
         /\ DOMAIN ById(S) = 1..Cardinality(S)
         /\ \A i \in 1..Cardinality(S) : ById(S)[i] \in S /\ Rank(S, ById(S)[i]) = i - 1
         /\ \A p \in S : \E i \in 1..Cardinality(S) : ById(S)[i] = p
         /\ \A i, j \in 1..Cardinality(S) : i < j => ById(S)[i] < ById(S)[j]
<1> DEFINE n == Cardinality(S)
           rank == [p \in S |-> Rank(S, p)]
<1>1. n \in Nat
  BY FS_CardinalityType
<1>2. \A p, q \in S : Rank(S, p) = Rank(S, q) => p = q
  <2> SUFFICES ASSUME NEW p \in S, NEW q \in S, Rank(S, p) = Rank(S, q), p # q PROVE FALSE
    OBVIOUS
  <2>1. p \in Int /\ q \in Int
    OBVIOUS
  <2>2. ASSUME NEW x \in S, NEW y \in S, Rank(S, x) = Rank(S, y), x < y PROVE FALSE
    <3>1. Rank(S, x) \in 0..(n - 1)
      BY RankIsRank
    <3>2. Rank(S, x) < Rank(S, y)
      BY <2>2, RankIsRank
    <3> QED
      BY <1>1, <2>2, <3>1, <3>2
  <2>3. CASE p < q
    BY <2>2, <2>3
  <2>4. CASE q < p
    BY <2>2, <2>4
  <2> QED
    BY <2>1, <2>3, <2>4
\* There are as many ranks as products: every rank is one of a product.
<1>3. \A k \in 0..(n - 1) : \E p \in S : Rank(S, p) = k
  <2>1. rank \in [S -> 0..(n - 1)] /\ \A p, q \in S : rank[p] = rank[q] => p = q
    BY <1>2, RankIsRank
  <2>2. IsFiniteSet(0..(n - 1)) /\ Cardinality(0..(n - 1)) = n
    BY <1>1, FS_Interval
  <2>3. rank \in Injection(S, 0..(n - 1))
    BY <2>1 DEF Injection, IsInjective
  <2>4. rank \in Surjection(S, 0..(n - 1))
    BY <2>2, <2>3, FS_Injection
  <2> QED
    BY <2>4 DEF Surjection
<1>4. \A i \in 1..n : ById(S)[i] \in S /\ Rank(S, ById(S)[i]) = i - 1
  <2> SUFFICES ASSUME NEW i \in 1..n
               PROVE  ById(S)[i] \in S /\ Rank(S, ById(S)[i]) = i - 1
    OBVIOUS
  <2>1. ById(S)[i] = CHOOSE p \in S : Rank(S, p) = i - 1
    BY DEF ById, Rank, Smaller
  <2>2. \E p \in S : Rank(S, p) = i - 1
    BY <1>1, <1>3
  <2> QED
    BY <2>1, <2>2
<1>5. \A p \in S : \E i \in 1..n : ById(S)[i] = p
  <2> SUFFICES ASSUME NEW p \in S PROVE ById(S)[Rank(S, p) + 1] = p /\ Rank(S, p) + 1 \in 1..n
    OBVIOUS
  <2>1. Rank(S, p) \in 0..(n - 1)
    BY RankIsRank
  <2>2. Rank(S, p) + 1 \in 1..n
    BY <1>1, <2>1
  <2>3. ById(S)[Rank(S, p) + 1] \in S /\ Rank(S, ById(S)[Rank(S, p) + 1]) = Rank(S, p)
    BY <1>4, <2>1, <2>2
  <2> QED
    BY <1>2, <2>2, <2>3
<1>6. \A i, j \in 1..n : i < j => ById(S)[i] < ById(S)[j]
  <2> SUFFICES ASSUME NEW i \in 1..n, NEW j \in 1..n, i < j PROVE ById(S)[i] < ById(S)[j]
    OBVIOUS
  <2> DEFINE p == ById(S)[i]
             q == ById(S)[j]
  <2>1. p \in S /\ q \in S /\ Rank(S, p) = i - 1 /\ Rank(S, q) = j - 1
    BY <1>4
  <2> HIDE DEF p, q
  <2>2. p \in Int /\ q \in Int
    BY <2>1
  <2>3. ASSUME q < p PROVE FALSE
    <3>1. Rank(S, q) < Rank(S, p)
      BY <2>1, <2>3, RankIsRank
    <3> QED
      BY <2>1, <3>1
  <2>4. p # q
    BY <2>1
  <2>5. p < q
    BY <2>2, <2>3, <2>4
  <2> QED
    BY <2>5 DEF p, q
<1> QED
  BY <1>1, <1>4, <1>5, <1>6 DEF ById

\* A finite set of integers has a largest one.
LEMMA Largest ==
  ASSUME NEW S, IsFiniteSet(S), S \subseteq Int, S # {}
  PROVE  \E p \in S : \A q \in S : q <= p
<1>1. Cardinality(S) \in Nat \ {0}
  BY FS_CardinalityType, FS_EmptySet
<1> DEFINE n == Cardinality(S)
<1>2. /\ \A i \in 1..n : ById(S)[i] \in S
      /\ \A q \in S : \E i \in 1..n : ById(S)[i] = q
      /\ \A i, j \in 1..n : i < j => ById(S)[i] < ById(S)[j]
  BY ByIdSorts
<1> HIDE DEF n
<1>3. n \in 1..n
  BY <1>1 DEF n
<1>4. ASSUME NEW q \in S PROVE q <= ById(S)[n]
  <2>1. PICK i \in 1..n : ById(S)[i] = q
    BY <1>2
  <2>2. i = n \/ q < ById(S)[n]
    BY <1>1, <1>2, <1>3, <2>1 DEF n
  <2>3. q \in Int /\ ById(S)[n] \in Int
    BY <1>2, <1>3
  <2> QED
    BY <2>1, <2>2, <2>3
<1> QED
  BY <1>2, <1>3, <1>4

------------------------------------------------------------------------------
(* The inductive invariant.                                                *)

\* The rows that a transaction t still has to lock.
Wanted(t) == {t.want[i] : i \in DOMAIN t.want}

\* What the operation tells of its parameters.
ShapeOf(t) ==
  /\ t.op = "none" => t = Idle
  /\ t.op \in {"create", "fromCart", "add", "patch"} => t.user \in Users
  /\ t.op \in {"add", "patch"} => t.product \in Products /\ t.n \in 1..MaxQty
  /\ t.op \in {"pay", "cancel"} => t.order \in Orders
  /\ t.op = "create" => t.stage = "apply" /\ Ledger!In(t.basket) # {}

\* The cart lines and the order that it has read or is about to write.
GuardsLine(t, u, p) ==
  /\ t.user = u
  /\ \/ t.op = "fromCart"
     \/ t.op = "patch" /\ t.product = p
     \/ t.op = "add" /\ t.product = p /\ t.stage = "apply"
GuardsOrder(t, o) == t.op \in {"pay", "cancel"} /\ t.order = o

\* Once it has read what it is to do, it has only products left to lock.
ProductsLeft(t) ==
  t.stage = "apply" /\ t.op # "add" =>
    \A r \in Wanted(t) : \E p \in Products : r = ProductRow(p)

\* What it guards it has locked, or will have before it acts.
LocksOf(s, t) ==
  /\ \A u \in Users, p \in Products :
       GuardsLine(t, u, p) => owner[CartRow(u, p)] = s \/ CartRow(u, p) \in Wanted(t)
  /\ \A o \in Orders :
       GuardsOrder(t, o) => owner[OrderRow(o)] = s \/ OrderRow(o) \in Wanted(t)
  /\ ProductsLeft(t)

\* What it has read is still so when it commits.
ReadsOf(t) ==
  t.stage = "apply" =>
    /\ t.op = "fromCart" =>
         t.basket = Ledger!SelectedLines(t.user) /\ Ledger!In(t.basket) # {}
    /\ t.op \in {"pay", "cancel"} =>
         orders[t.order].status = Ledger!PENDING_PAY /\ orders[t.order].qty = t.basket
    /\ t.op = "patch" => cart[t.user][t.product] > 0

\* The order in which a checkout takes its locks: the lines of the user's cart, then
\* the products, both by id.
Before(r, q) ==
  \/ \E u \in Users, p, p2 \in Products : r = CartRow(u, p) /\ q = ProductRow(p2)
  \/ \E u \in Users, p, p2 \in Products : r = CartRow(u, p) /\ q = CartRow(u, p2) /\ p < p2
  \/ \E p, p2 \in Products : r = ProductRow(p) /\ q = ProductRow(p2) /\ p < p2
Ascending(t) == \A i, j \in DOMAIN t.want : i < j => Before(t.want[i], t.want[j])
CartOnly(rows) == \A r \in rows : \E u \in Users, p \in Products : r = CartRow(u, p)
OwnedBy(s) == {r \in Rows : owner[r] = s}
SortedOf(s, t) ==
  t.op \in {"create", "fromCart"} =>
    /\ Ascending(t)
    /\ \A r \in OwnedBy(s), q \in Wanted(t) : Before(r, q)
    /\ t.stage = "resolve" => CartOnly(OwnedBy(s)) /\ CartOnly(Wanted(t))

Shape == \A s \in Sessions : ShapeOf(txn[s])
Locks == \A s \in Sessions : LocksOf(s, txn[s])
Reads == \A s \in Sessions : ReadsOf(txn[s])
Sorted == \A s \in Sessions : SortedOf(s, txn[s])
Inductive == TypeOK /\ Shape /\ Locks /\ Reads /\ Sorted

------------------------------------------------------------------------------
(* Rows and lists of rows.                                                 *)

LEMMA RowsDiffer ==
  /\ \A u, v, p, q : CartRow(u, p) = CartRow(v, q) <=> u = v /\ p = q
  /\ \A p, q : ProductRow(p) = ProductRow(q) <=> p = q
  /\ \A o, o2 : OrderRow(o) = OrderRow(o2) <=> o = o2
  /\ \A u, p, q : CartRow(u, p) # ProductRow(q)
  /\ \A u, p, o : CartRow(u, p) # OrderRow(o)
  /\ \A p, o : ProductRow(p) # OrderRow(o)
BY DEF CartRow, ProductRow, OrderRow

LEMMA RowsAre ==
  /\ \A u \in Users, p \in Products : CartRow(u, p) \in Rows
  /\ \A p \in Products : ProductRow(p) \in Rows
  /\ \A o \in Orders : OrderRow(o) \in Rows
BY DEF Rows

\* The locks of a checkout: the products of its lines ...
LEMMA SortedRowsSort ==
  ASSUME NEW S \in SUBSET Products
  PROVE  /\ SortedRows(S) \in Seq(Rows)
         /\ \A i \in DOMAIN SortedRows(S) : \E p \in S : SortedRows(S)[i] = ProductRow(p)
         /\ \A i, j \in DOMAIN SortedRows(S) :
              i < j => Before(SortedRows(S)[i], SortedRows(S)[j])
<1> DEFINE n == Cardinality(S)
<1>1. IsFiniteSet(S) /\ S \subseteq Int
  BY TablesFinite, ProductsOrdered, FS_Subset
<1>2. /\ n \in Nat /\ DOMAIN ById(S) = 1..n
      /\ \A i \in 1..n : ById(S)[i] \in S
      /\ \A i, j \in 1..n : i < j => ById(S)[i] < ById(S)[j]
  BY <1>1, ByIdSorts
<1> HIDE DEF n
<1>3. SortedRows(S) = [i \in 1..n |-> ProductRow(ById(S)[i])]
  BY <1>2 DEF SortedRows
<1>4. \A i \in 1..n : ProductRow(ById(S)[i]) \in Rows
  BY <1>2, RowsAre
<1>5. SortedRows(S) \in Seq(Rows)
  BY <1>2, <1>3, <1>4, IsASeq
<1> QED
  BY <1>2, <1>3, <1>5 DEF Before

\* ... and before them the whole range of the user's cart.
LEMMA CartRangeSorts ==
  ASSUME NEW u \in Users
  PROVE  /\ CartRange(u) \in Seq(Rows)
         /\ \A i \in DOMAIN CartRange(u) : \E p \in Products : CartRange(u)[i] = CartRow(u, p)
         /\ \A p \in Products : \E i \in DOMAIN CartRange(u) : CartRange(u)[i] = CartRow(u, p)
         /\ \A i, j \in DOMAIN CartRange(u) :
              i < j => Before(CartRange(u)[i], CartRange(u)[j])
<1> DEFINE n == Cardinality(Products)
<1>1. /\ n \in Nat /\ DOMAIN ById(Products) = 1..n
      /\ \A i \in 1..n : ById(Products)[i] \in Products
      /\ \A p \in Products : \E i \in 1..n : ById(Products)[i] = p
      /\ \A i, j \in 1..n : i < j => ById(Products)[i] < ById(Products)[j]
  BY TablesFinite, ProductsOrdered, ByIdSorts
<1> HIDE DEF n
<1>2. CartRange(u) = [i \in 1..n |-> CartRow(u, ById(Products)[i])]
  BY <1>1 DEF CartRange
<1>3. \A i \in 1..n : CartRow(u, ById(Products)[i]) \in Rows
  BY <1>1, RowsAre
<1>4. CartRange(u) \in Seq(Rows)
  BY <1>1, <1>2, <1>3, IsASeq
<1> QED
  BY <1>1, <1>2, <1>4 DEF Before

\* A single row.
LEMMA OneRow ==
  ASSUME NEW r \in Rows
  PROVE  <<r>> \in Seq(Rows) /\ DOMAIN <<r>> = {1} /\ <<r>>[1] = r
OBVIOUS

\* A transaction that has locked what it wanted next.
LEMMA TailWants ==
  ASSUME NEW t \in Txn, t.want # <<>>
  PROVE  LET rest == [t EXCEPT !.want = Tail(@)]
         IN  /\ rest \in Txn
             /\ Head(t.want) \in Rows /\ Head(t.want) \in Wanted(t)
             /\ Wanted(t) = Wanted(rest) \cup {Head(t.want)}
             /\ Ascending(t) => Ascending(rest) /\ \A q \in Wanted(rest) : Before(Head(t.want), q)
<1> DEFINE want == t.want
           rest == [t EXCEPT !.want = Tail(@)]
<1>1. want \in Seq(Rows) /\ want # <<>>
  BY DEF Txn
<1>2. rest.want = Tail(want) /\ rest \in Txn
  BY <1>1, HeadTailProperties DEF Txn
<1>3. /\ Len(want) \in Nat \ {0} /\ DOMAIN want = 1..Len(want)
      /\ DOMAIN Tail(want) = 1..(Len(want) - 1)
      /\ \A i \in 1..(Len(want) - 1) : Tail(want)[i] = want[i + 1]
      /\ Head(want) = want[1] /\ Head(want) \in Rows
  BY <1>1, HeadTailProperties, LenProperties, EmptySeq
<1> HIDE DEF want, rest
<1>4. Wanted(t) = {want[i] : i \in 1..Len(want)}
        /\ Wanted(rest) = {want[i + 1] : i \in 1..(Len(want) - 1)}
  BY <1>2, <1>3 DEF Wanted, want
<1>5. \A i \in 1..Len(want) : i = 1 \/ \E j \in 1..(Len(want) - 1) : i = j + 1
  <2> SUFFICES ASSUME NEW i \in 1..Len(want), i # 1 PROVE i - 1 \in 1..(Len(want) - 1)
    BY <1>3
  <2> QED
    BY <1>3
<1>6. Wanted(t) = Wanted(rest) \cup {Head(want)} /\ Head(want) \in Wanted(t)
  BY <1>3, <1>4, <1>5
<1>7. ASSUME Ascending(t)
      PROVE  Ascending(rest) /\ \A q \in Wanted(rest) : Before(Head(want), q)
  <2>1. \A i, j \in 1..Len(want) : i < j => Before(want[i], want[j])
    BY <1>3, <1>7 DEF Ascending, want
  <2>2. Ascending(rest)
    BY <1>2, <1>3, <2>1 DEF Ascending
  <2>3. \A i \in 1..(Len(want) - 1) : Before(want[1], want[i + 1])
    BY <1>3, <2>1
  <2> QED
    BY <1>3, <1>4, <2>2, <2>3
<1> QED
  BY <1>2, <1>3, <1>6, <1>7 DEF want, rest

------------------------------------------------------------------------------
(* A request begins: it has locked nothing and wants all that it guards.   *)

Starts(t) ==
  /\ t \in Txn /\ t.op # "none" /\ ShapeOf(t) /\ ProductsLeft(t)
  /\ \A u \in Users, p \in Products : GuardsLine(t, u, p) => CartRow(u, p) \in Wanted(t)
  /\ \A o \in Orders : GuardsOrder(t, o) => OrderRow(o) \in Wanted(t)
  /\ t.stage = "apply" => t.op = "create"
  /\ t.op \in {"create", "fromCart"} =>
       Ascending(t) /\ (t.stage = "resolve" => CartOnly(Wanted(t)))

LEMMA IdleType == Idle \in Txn
BY MaxQtyPositive, EmptySeq DEF Idle, Txn, Operations, Ledger!Basket, Ledger!EmptyBasket

\* The record of a checkout of given lines ...
LEMMA CreateItemsStarts ==
  ASSUME NEW u \in Users, NEW basket \in Ledger!Basket \ {Ledger!EmptyBasket}
  PROVE  Starts([Idle EXCEPT !.op = "create", !.user = u, !.basket = basket,
                             !.want = SortedRows(Ledger!In(basket))])
<1> DEFINE S == Ledger!In(basket)
           t == [Idle EXCEPT !.op = "create", !.user = u, !.basket = basket,
                             !.want = SortedRows(S)]
<1>1. S \in SUBSET Products
  BY DEF Ledger!In
<1>2. S # {}
  <2> SUFFICES ASSUME S = {} PROVE FALSE
    OBVIOUS
  <2>1. \A p \in Products : basket[p] = 0
    BY MaxQtyPositive DEF Ledger!In, Ledger!Basket
  <2> QED
    BY <2>1 DEF Ledger!Basket, Ledger!EmptyBasket
<1> HIDE DEF S
<1>3. /\ SortedRows(S) \in Seq(Rows)
      /\ \A i \in DOMAIN SortedRows(S) : \E p \in S : SortedRows(S)[i] = ProductRow(p)
      /\ \A i, j \in DOMAIN SortedRows(S) : i < j => Before(SortedRows(S)[i], SortedRows(S)[j])
  BY <1>1, SortedRowsSort
<1>4. /\ t.op = "create" /\ t.user = u /\ t.basket = basket /\ t.want = SortedRows(S)
      /\ t.stage = "apply"
  BY DEF Idle
<1>5. t \in Txn
  BY <1>3, IdleType DEF Txn, Operations
<1> HIDE DEF t
<1> QED
  BY <1>1, <1>2, <1>3, <1>4, <1>5
     DEF Starts, ShapeOf, ProductsLeft, GuardsLine, GuardsOrder, Wanted, Ascending, S, t

\* ... of one of the cart ...
LEMMA CreateFromCartStarts ==
  ASSUME NEW u \in Users
  PROVE  Starts([Idle EXCEPT !.op = "fromCart", !.user = u, !.stage = "resolve",
                             !.want = CartRange(u)])
<1> DEFINE t == [Idle EXCEPT !.op = "fromCart", !.user = u, !.stage = "resolve",
                             !.want = CartRange(u)]
<1>1. /\ CartRange(u) \in Seq(Rows)
      /\ \A i \in DOMAIN CartRange(u) : \E p \in Products : CartRange(u)[i] = CartRow(u, p)
      /\ \A p \in Products : \E i \in DOMAIN CartRange(u) : CartRange(u)[i] = CartRow(u, p)
      /\ \A i, j \in DOMAIN CartRange(u) : i < j => Before(CartRange(u)[i], CartRange(u)[j])
  BY CartRangeSorts
<1>2. t.op = "fromCart" /\ t.user = u /\ t.stage = "resolve" /\ t.want = CartRange(u)
  BY DEF Idle
<1>3. t \in Txn
  BY <1>1, IdleType DEF Txn, Operations
<1> HIDE DEF t
<1>4. CartOnly(Wanted(t)) /\ Ascending(t)
  BY <1>1, <1>2 DEF CartOnly, Wanted, Ascending
<1>5. \A v \in Users, p \in Products : GuardsLine(t, v, p) => CartRow(v, p) \in Wanted(t)
  BY <1>1, <1>2 DEF GuardsLine, Wanted
<1> QED
  BY <1>2, <1>3, <1>4, <1>5 DEF Starts, ShapeOf, ProductsLeft, GuardsOrder, t

\* ... and of the operations that begin with one row.
LEMMA OrderOpStarts ==
  ASSUME NEW o \in Orders, NEW op \in {"pay", "cancel"}
  PROVE  Starts([Idle EXCEPT !.op = op, !.order = o, !.stage = "resolve",
                             !.want = <<OrderRow(o)>>])
<1> DEFINE t == [Idle EXCEPT !.op = op, !.order = o, !.stage = "resolve",
                             !.want = <<OrderRow(o)>>]
<1>1. t.op = op /\ t.order = o /\ t.stage = "resolve" /\ t.want = <<OrderRow(o)>>
  BY DEF Idle
<1>2. OrderRow(o) \in Rows /\ <<OrderRow(o)>> \in Seq(Rows)
  BY RowsAre, OneRow
<1>3. t \in Txn
  BY <1>2, IdleType DEF Txn, Operations
<1> HIDE DEF t
<1>4. Wanted(t) = {OrderRow(o)}
  BY <1>1, RowsAre, OneRow DEF Wanted
<1> QED
  BY <1>1, <1>3, <1>4 DEF Starts, ShapeOf, ProductsLeft, GuardsLine, GuardsOrder, t

LEMMA AddStarts ==
  ASSUME NEW u \in Users, NEW p \in Products, NEW n \in 1..MaxQty
  PROVE  Starts([Idle EXCEPT !.op = "add", !.user = u, !.product = p, !.n = n,
                             !.stage = "resolve", !.want = <<ProductRow(p)>>])
<1> DEFINE t == [Idle EXCEPT !.op = "add", !.user = u, !.product = p, !.n = n,
                             !.stage = "resolve", !.want = <<ProductRow(p)>>]
<1>1. t.op = "add" /\ t.user = u /\ t.product = p /\ t.n = n /\ t.stage = "resolve"
  BY DEF Idle
<1>2. ProductRow(p) \in Rows /\ <<ProductRow(p)>> \in Seq(Rows) /\ n \in 0..MaxQty
  BY RowsAre, OneRow, MaxQtyPositive
<1>3. t \in Txn
  BY <1>2, IdleType DEF Txn, Operations
<1> HIDE DEF t
<1> QED
  BY <1>1, <1>3 DEF Starts, ShapeOf, ProductsLeft, GuardsLine, GuardsOrder, t

LEMMA PatchStarts ==
  ASSUME NEW u \in Users, NEW p \in Products, NEW n \in 1..MaxQty, NEW on \in BOOLEAN
  PROVE  Starts([Idle EXCEPT !.op = "patch", !.user = u, !.product = p, !.n = n, !.on = on,
                             !.stage = "resolve", !.want = <<CartRow(u, p)>>])
<1> DEFINE t == [Idle EXCEPT !.op = "patch", !.user = u, !.product = p, !.n = n, !.on = on,
                             !.stage = "resolve", !.want = <<CartRow(u, p)>>]
<1>1. /\ t.op = "patch" /\ t.user = u /\ t.product = p /\ t.n = n /\ t.stage = "resolve"
      /\ t.want = <<CartRow(u, p)>>
  BY DEF Idle
<1>2. CartRow(u, p) \in Rows /\ <<CartRow(u, p)>> \in Seq(Rows) /\ n \in 0..MaxQty
  BY RowsAre, OneRow, MaxQtyPositive
<1>3. t \in Txn
  BY <1>2, IdleType DEF Txn, Operations
<1> HIDE DEF t
<1>4. Wanted(t) = {CartRow(u, p)}
  BY <1>1, RowsAre, OneRow DEF Wanted
<1> QED
  BY <1>1, <1>3, <1>4 DEF Starts, ShapeOf, ProductsLeft, GuardsLine, GuardsOrder, t

LEMMA RequestStarts ==
  ASSUME NEW s \in Sessions, Request(s)
  PROVE  \E t : Begin(s, t) /\ Starts(t)
<1>1. ASSUME NEW u \in Users, BeginCreateFromCart(s, u) PROVE \E t : Begin(s, t) /\ Starts(t)
  BY <1>1, CreateFromCartStarts DEF BeginCreateFromCart
<1>2. ASSUME NEW u \in Users, NEW basket \in Ledger!Basket \ {Ledger!EmptyBasket},
             BeginCreateItems(s, u, basket)
      PROVE  \E t : Begin(s, t) /\ Starts(t)
  BY <1>2, CreateItemsStarts DEF BeginCreateItems
<1>3. ASSUME NEW u \in Users, NEW p \in Products, NEW n \in 1..MaxQty, BeginAdd(s, u, p, n)
      PROVE  \E t : Begin(s, t) /\ Starts(t)
  BY <1>3, AddStarts DEF BeginAdd
<1>4. ASSUME NEW u \in Users, NEW p \in Products, NEW n \in 1..MaxQty, NEW on \in BOOLEAN,
             BeginPatch(s, u, p, n, on)
      PROVE  \E t : Begin(s, t) /\ Starts(t)
  BY <1>4, PatchStarts DEF BeginPatch
<1>5. ASSUME NEW o \in Orders, BeginPay(s, o) \/ BeginCancel(s, o)
      PROVE  \E t : Begin(s, t) /\ Starts(t)
  BY <1>5, OrderOpStarts DEF BeginPay, BeginCancel
<1> QED
  BY <1>1, <1>2, <1>3, <1>4, <1>5 DEF Request

------------------------------------------------------------------------------
(* The steps that write no table: a transaction begins, or has read what   *)
(* it is to do and goes on to the rows that it will change.                *)

\* What the record t of session s must satisfy.
Sound(s, t) ==
  /\ t \in Txn /\ t # Idle
  /\ ShapeOf(t) /\ LocksOf(s, t) /\ ReadsOf(t) /\ SortedOf(s, t)

GoesOn(s) ==
  \E t : Sound(s, t) /\ txn' = [txn EXCEPT ![s] = t] /\ UNCHANGED <<tables, owner>>

\* A session in between two requests owns nothing.
LEMMA IdleOwnsNothing ==
  ASSUME TypeOK, NEW s \in Sessions, txn[s] = Idle
  PROVE  OwnedBy(s) = {}
BY NobodyIsNoSession DEF TypeOK, OwnedBy

LEMMA RequestGoesOn ==
  ASSUME Inductive, NEW s \in Sessions, Request(s)
  PROVE  GoesOn(s)
<1>1. PICK t : Begin(s, t) /\ Starts(t)
  BY RequestStarts
<1>2. OwnedBy(s) = {}
  BY <1>1, IdleOwnsNothing DEF Begin, Inductive
<1>3. t \in Txn /\ t # Idle /\ ShapeOf(t)
  BY <1>1 DEF Starts, Idle
<1>4. LocksOf(s, t)
  BY <1>1 DEF Starts, LocksOf
<1>5. ReadsOf(t)
  BY <1>1 DEF Starts, ReadsOf
<1>6. SortedOf(s, t)
  BY <1>1, <1>2 DEF Starts, SortedOf, CartOnly
<1> QED
  BY <1>1, <1>3, <1>4, <1>5, <1>6 DEF GoesOn, Sound, Begin

\* A transaction that wants nothing more owns the rows that it guards.
LEMMA ReadyOwns ==
  ASSUME Inductive, NEW s \in Sessions, txn[s].want = <<>>
  PROVE  /\ Wanted(txn[s]) = {}
         /\ \A u \in Users, p \in Products :
              GuardsLine(txn[s], u, p) => owner[CartRow(u, p)] = s
         /\ \A o \in Orders : GuardsOrder(txn[s], o) => owner[OrderRow(o)] = s
<1>1. Wanted(txn[s]) = {}
  BY DEF Wanted
<1> QED
  BY <1>1 DEF Inductive, Locks, LocksOf

\* The record that goes on.
LEMMA ProceedStep ==
  ASSUME TypeOK, NEW s \in Sessions, NEW want \in Seq(Rows), NEW basket \in Ledger!Basket,
         Proceed(s, want, basket)
  PROVE  \E t \in Txn :
           /\ t.stage = "apply" /\ t.want = want /\ t.basket = basket
           /\ t.op = txn[s].op /\ t.user = txn[s].user /\ t.order = txn[s].order
           /\ t.product = txn[s].product /\ t.n = txn[s].n
           /\ txn' = [txn EXCEPT ![s] = t]
           /\ UNCHANGED <<tables, owner>>
<1> DEFINE t == [txn[s] EXCEPT !.stage = "apply", !.want = want, !.basket = basket]
<1>1. txn[s] \in Txn /\ txn \in [Sessions -> Txn]
  BY DEF TypeOK
<1>2. txn' = [txn EXCEPT ![s] = t] /\ UNCHANGED <<tables, owner>>
  BY <1>1 DEF Proceed
<1>3. PICK old \in Txn : old = txn[s]
  BY <1>1
<1>4. t = [old EXCEPT !.stage = "apply", !.want = want, !.basket = basket]
  BY <1>3
<1> HIDE DEF t
<1>5. /\ t \in Txn
      /\ t.stage = "apply" /\ t.want = want /\ t.basket = basket
      /\ t.op = old.op /\ t.user = old.user /\ t.order = old.order
      /\ t.product = old.product /\ t.n = old.n
  BY <1>4 DEF Txn
<1> QED
  BY <1>2, <1>3, <1>5

LEMMA ResolveCartGoesOn ==
  ASSUME Inductive, NEW s \in Sessions, ResolveCart(s)
  PROVE  GoesOn(s) \/ Rollback(s)
<1> DEFINE u == txn[s].user
           lines == Ledger!SelectedLines(u)
           S == Ledger!In(lines)
           want == SortedRows(S)
<1> SUFFICES ASSUME S # {}, Proceed(s, want, lines) PROVE GoesOn(s)
  BY DEF ResolveCart
<1>1. /\ txn[s] \in Txn /\ txn[s].op = "fromCart" /\ txn[s].stage = "resolve"
      /\ txn[s].want = <<>> /\ u \in Users
  BY DEF Inductive, TypeOK, Shape, ShapeOf, ResolveCart, Ready
<1>2. lines \in Ledger!Basket /\ S \in SUBSET Products
  BY <1>1, MaxQtyPositive
     DEF Inductive, TypeOK, Ledger!TypeOK, Ledger!SelectedLines, Ledger!Basket, Ledger!In
<1>3. \A v \in Users, p \in Products : GuardsLine(txn[s], v, p) => owner[CartRow(v, p)] = s
  BY <1>1, ReadyOwns
<1>4. CartOnly(OwnedBy(s))
  BY <1>1 DEF Inductive, Sorted, SortedOf
<1> HIDE DEF S
<1>5. /\ want \in Seq(Rows)
      /\ \A i \in DOMAIN want : \E p \in S : want[i] = ProductRow(p)
      /\ \A i, j \in DOMAIN want : i < j => Before(want[i], want[j])
  BY <1>2, SortedRowsSort
<1> HIDE DEF want, lines
<1>6. PICK t \in Txn :
        /\ t.stage = "apply" /\ t.want = want /\ t.basket = lines
        /\ t.op = txn[s].op /\ t.user = txn[s].user
        /\ txn' = [txn EXCEPT ![s] = t] /\ UNCHANGED <<tables, owner>>
  BY <1>2, <1>5, ProceedStep DEF Inductive
<1>8. \A r \in Wanted(t) : \E p \in Products : r = ProductRow(p)
  BY <1>2, <1>5, <1>6 DEF Wanted
<1>9. ShapeOf(t) /\ t # Idle
  BY <1>1, <1>6 DEF ShapeOf, Idle
<1>10. LocksOf(s, t)
  BY <1>1, <1>3, <1>6, <1>8 DEF LocksOf, GuardsLine, GuardsOrder, ProductsLeft
<1>11. ReadsOf(t)
  BY <1>1, <1>6 DEF ReadsOf, lines, S
<1>12. SortedOf(s, t)
  BY <1>4, <1>5, <1>6, <1>8 DEF SortedOf, Ascending, CartOnly, Before
<1> QED
  BY <1>6, <1>9, <1>10, <1>11, <1>12 DEF GoesOn, Sound

LEMMA ResolveOrderGoesOn ==
  ASSUME Inductive, NEW s \in Sessions, ResolveOrder(s)
  PROVE  GoesOn(s) \/ Rollback(s)
<1> DEFINE o == txn[s].order
           items == Ledger!In(orders[o].qty)
<1>1. /\ txn[s] \in Txn /\ txn[s].op \in {"pay", "cancel"} /\ txn[s].want = <<>>
      /\ o \in Orders
  BY DEF Inductive, TypeOK, Shape, ShapeOf, ResolveOrder, Ready
<1>2. orders[o].qty \in Ledger!Basket /\ items \subseteq Products
  BY <1>1 DEF Inductive, TypeOK, Ledger!TypeOK, Ledger!Order, Ledger!In
<1> HIDE DEF items
<1> SUFFICES ASSUME orders[o].status = Ledger!PENDING_PAY,
                    NEW seq \in [1..Cardinality(items) -> items],
                    Proceed(s, [i \in DOMAIN seq |-> ProductRow(seq[i])], orders[o].qty)
             PROVE  GoesOn(s)
  BY DEF ResolveOrder, items
<1> DEFINE want == [i \in DOMAIN seq |-> ProductRow(seq[i])]
<1>3. IsFiniteSet(items) /\ Cardinality(items) \in Nat
  BY <1>2, TablesFinite, FS_Subset, FS_CardinalityType
<1>4. /\ want \in Seq(Rows)
      /\ \A i \in DOMAIN want : \E p \in Products : want[i] = ProductRow(p)
  <2>1. \A i \in 1..Cardinality(items) : seq[i] \in Products /\ ProductRow(seq[i]) \in Rows
    BY <1>2, RowsAre
  <2> QED
    BY <1>3, <2>1, IsASeq
<1>5. owner[OrderRow(o)] = s
  BY <1>1, ReadyOwns DEF GuardsOrder
<1>6. Proceed(s, want, orders[o].qty)
  OBVIOUS
<1> HIDE DEF want
<1>7. PICK t \in Txn :
        /\ t.stage = "apply" /\ t.want = want /\ t.basket = orders[o].qty
        /\ t.op = txn[s].op /\ t.order = o
        /\ txn' = [txn EXCEPT ![s] = t] /\ UNCHANGED <<tables, owner>>
  BY <1>2, <1>4, <1>6, ProceedStep DEF Inductive
<1> HIDE DEF o
<1>8. \A r \in Wanted(t) : \E p \in Products : r = ProductRow(p)
  BY <1>4, <1>7 DEF Wanted
<1>9. ShapeOf(t) /\ t # Idle
  BY <1>1, <1>7 DEF ShapeOf, Idle
<1>10. LocksOf(s, t)
  BY <1>1, <1>5, <1>7, <1>8 DEF LocksOf, GuardsLine, GuardsOrder, ProductsLeft
<1>11. ReadsOf(t) /\ SortedOf(s, t)
  BY <1>1, <1>7 DEF ReadsOf, SortedOf
<1> QED
  BY <1>7, <1>9, <1>10, <1>11 DEF GoesOn, Sound

LEMMA ResolveAddGoesOn ==
  ASSUME Inductive, NEW s \in Sessions, ResolveAdd(s)
  PROVE  GoesOn(s) \/ Rollback(s)
<1> DEFINE u == txn[s].user
           p == txn[s].product
<1>1. /\ txn[s] \in Txn /\ txn[s].op = "add" /\ u \in Users /\ p \in Products
      /\ txn[s].n \in 1..MaxQty /\ txn[s].basket \in Ledger!Basket
  BY DEF Inductive, TypeOK, Txn, Shape, ShapeOf, ResolveAdd, Ready
<1> SUFFICES ASSUME Proceed(s, <<CartRow(u, p)>>, txn[s].basket) PROVE GoesOn(s)
  BY DEF ResolveAdd
<1>2. CartRow(u, p) \in Rows
  BY <1>1, RowsAre
<1> DEFINE want == <<CartRow(u, p)>>
           basket == txn[s].basket
<1>3. want \in Seq(Rows) /\ Proceed(s, want, basket)
  BY <1>2, OneRow
<1> HIDE DEF want, basket
<1>4. PICK t \in Txn :
        /\ t.stage = "apply" /\ t.want = want
        /\ t.op = txn[s].op /\ t.user = u /\ t.product = p /\ t.n = txn[s].n
        /\ txn' = [txn EXCEPT ![s] = t] /\ UNCHANGED <<tables, owner>>
  BY <1>1, <1>3, ProceedStep DEF Inductive, basket
<1> HIDE DEF u, p
<1>5. Wanted(t) = {CartRow(u, p)}
  BY <1>2, <1>4, OneRow DEF Wanted, want
<1>6. ShapeOf(t) /\ t # Idle
  BY <1>1, <1>4 DEF ShapeOf, Idle
<1>7. LocksOf(s, t)
  BY <1>1, <1>4, <1>5 DEF LocksOf, GuardsLine, GuardsOrder, ProductsLeft
<1>8. ReadsOf(t) /\ SortedOf(s, t)
  BY <1>1, <1>4 DEF ReadsOf, SortedOf
<1> QED
  BY <1>4, <1>6, <1>7, <1>8 DEF GoesOn, Sound

LEMMA ResolvePatchGoesOn ==
  ASSUME Inductive, NEW s \in Sessions, ResolvePatch(s)
  PROVE  GoesOn(s) \/ Rollback(s)
<1> DEFINE u == txn[s].user
           p == txn[s].product
<1>1. /\ txn[s] \in Txn /\ txn[s].op = "patch" /\ txn[s].want = <<>>
      /\ u \in Users /\ p \in Products
      /\ txn[s].n \in 1..MaxQty /\ txn[s].basket \in Ledger!Basket
  BY DEF Inductive, TypeOK, Txn, Shape, ShapeOf, ResolvePatch, Ready
<1> SUFFICES ASSUME Proceed(s, <<ProductRow(p)>>, txn[s].basket), cart[u][p] > 0 PROVE GoesOn(s)
  BY DEF ResolvePatch
<1>2. ProductRow(p) \in Rows /\ owner[CartRow(u, p)] = s
  BY <1>1, RowsAre, ReadyOwns DEF GuardsLine
<1> DEFINE want == <<ProductRow(p)>>
           basket == txn[s].basket
<1>3. want \in Seq(Rows) /\ Proceed(s, want, basket)
  BY <1>2, OneRow
<1> HIDE DEF want, basket
<1>4. PICK t \in Txn :
        /\ t.stage = "apply" /\ t.want = want
        /\ t.op = txn[s].op /\ t.user = u /\ t.product = p /\ t.n = txn[s].n
        /\ txn' = [txn EXCEPT ![s] = t] /\ UNCHANGED <<tables, owner>>
  BY <1>1, <1>3, ProceedStep DEF Inductive, basket
<1>5. cart[t.user][t.product] > 0
  BY <1>4
<1> HIDE DEF u, p
<1>6. Wanted(t) = {ProductRow(p)}
  BY <1>2, <1>4, OneRow DEF Wanted, want
<1>7. ShapeOf(t) /\ t # Idle
  BY <1>1, <1>4 DEF ShapeOf, Idle
<1>8. LocksOf(s, t)
  BY <1>1, <1>2, <1>4, <1>6 DEF LocksOf, GuardsLine, GuardsOrder, ProductsLeft
<1>9. ReadsOf(t) /\ SortedOf(s, t)
  BY <1>1, <1>4, <1>5 DEF ReadsOf, SortedOf
<1> QED
  BY <1>4, <1>7, <1>8, <1>9 DEF GoesOn, Sound

------------------------------------------------------------------------------
(* The steps that write: each is one operation of OrderLedger, and touches *)
(* no line or order that another transaction has locked.                   *)

Respects(s) ==
  /\ \A u \in Users, p \in Products :
       owner[CartRow(u, p)] \notin {s, Nobody} =>
         cart'[u][p] = cart[u][p] /\ (p \in selected'[u] <=> p \in selected[u])
  /\ \A o \in Orders :
       owner[OrderRow(o)] \notin {s, Nobody} /\ orders[o].status # Ledger!NOT_PLACED =>
         orders'[o] = orders[o]

LEMMA UntouchedTables ==
  ASSUME UNCHANGED tables, NEW s
  PROVE  Respects(s)
BY DEF tables, Respects

LEMMA CommitCreateWrites ==
  ASSUME Inductive, NEW s \in Sessions, CommitCreate(s)
  PROVE  Rollback(s) \/ (Finish(s) /\ Ledger!Next /\ Respects(s))
<1> DEFINE u == txn[s].user
           lines == txn[s].basket
<1>1. /\ txn[s] \in Txn /\ txn[s].op \in {"create", "fromCart"} /\ txn[s].stage = "apply"
      /\ txn[s].want = <<>> /\ u \in Users /\ lines \in Ledger!Basket /\ Ledger!In(lines) # {}
  BY DEF Inductive, TypeOK, Txn, Shape, ShapeOf, Reads, ReadsOf, CommitCreate, Creating, Ready
<1> SUFFICES ASSUME ~Rollback(s)
             PROVE  Finish(s) /\ Ledger!Next /\ Respects(s)
  OBVIOUS
<1>2. PICK o \in Orders :
        /\ orders[o].status = Ledger!NOT_PLACED
        /\ orders' = [orders EXCEPT ![o] =
                        [status |-> Ledger!PENDING_PAY, user |-> u, qty |-> lines]]
  BY DEF CommitCreate
<1>3. /\ \A p \in Ledger!In(lines) : Ledger!Purchasable(p, lines[p])
      /\ stock' = [p \in Products |-> stock[p] - lines[p]]
      /\ UNCHANGED <<sales, onSale>>
      /\ Finish(s)
  BY DEF CommitCreate
<1>4. Ledger!Place(o, u, lines)
  BY <1>1, <1>2, <1>3 DEF Ledger!Place
<1>5. orders \in [Orders -> Ledger!Order]
  BY DEF Inductive, TypeOK, Ledger!TypeOK
<1>6. \A x \in Orders : orders[x].status # Ledger!NOT_PLACED => orders'[x] = orders[x]
  BY <1>2, <1>5
<1>7. CASE txn[s].op = "create"
  <2>1. UNCHANGED <<cart, selected>>
    BY <1>3, <1>7 DEF CommitCreate
  <2>2. Ledger!PlaceItems(o, u, lines)
    BY <1>4, <2>1 DEF Ledger!PlaceItems, Ledger!cartVars
  <2>3. Ledger!Next
    BY <1>1, <2>2 DEF Ledger!Next
  <2> QED
    BY <1>3, <1>6, <2>1, <2>3 DEF Respects
<1>8. CASE txn[s].op = "fromCart"
  <2>1. /\ cart' = [cart EXCEPT ![u] = [p \in Products |-> IF lines[p] > 0 THEN 0 ELSE @[p]]]
        /\ selected' = [selected EXCEPT ![u] = @ \ Ledger!In(lines)]
    BY <1>3, <1>8 DEF CommitCreate
  <2>2. lines = Ledger!SelectedLines(u)
    BY <1>1, <1>8 DEF Inductive, Reads, ReadsOf
  <2>3. /\ cart \in [Users -> Ledger!Basket] /\ selected \in [Users -> SUBSET Products]
        /\ selected[u] \subseteq Ledger!In(cart[u])
    BY <1>1 DEF Inductive, TypeOK, Ledger!TypeOK
  <2>4. \A p \in Products : p \in selected[u] <=> lines[p] > 0
    BY <1>1, <2>2, <2>3 DEF Ledger!SelectedLines, Ledger!In
  <2>5. selected[u] \ Ledger!In(lines) = {}
    BY <1>1, <2>3, <2>4 DEF Ledger!In
  <2>6. selected' = [selected EXCEPT ![u] = {}]
    BY <1>1, <2>1, <2>3, <2>5
  <2> HIDE DEF u, lines
  <2>7. cart' = [cart EXCEPT ![u] = [p \in Products |-> IF p \in selected[u] THEN 0 ELSE @[p]]]
    <3>1. [p \in Products |-> IF lines[p] > 0 THEN 0 ELSE cart[u][p]]
            = [p \in Products |-> IF p \in selected[u] THEN 0 ELSE cart[u][p]]
      BY <2>4
    <3> QED
      BY <2>1, <3>1
  <2>8. Ledger!Next
    <3>1. Ledger!PlaceFromCart(o, u)
      BY <1>4, <2>2, <2>6, <2>7 DEF Ledger!PlaceFromCart
    <3> QED
      BY <1>1, <3>1 DEF Ledger!Next
  <2>9. \A p \in Products : owner[CartRow(u, p)] = s
    BY <1>1, <1>8, ReadyOwns DEF GuardsLine, u
  <2>10. \A v \in Users, p \in Products :
           v # u => cart'[v][p] = cart[v][p] /\ selected'[v] = selected[v]
    BY <2>1, <2>3, <2>6
  <2> QED
    BY <1>3, <1>6, <2>8, <2>9, <2>10 DEF Respects
<1> QED
  BY <1>1, <1>7, <1>8

LEMMA CommitOrderOpWrites ==
  ASSUME Inductive, NEW s \in Sessions, CommitPay(s) \/ CommitCancel(s)
  PROVE  Finish(s) /\ Ledger!Next /\ Respects(s)
<1> DEFINE o == txn[s].order
<1>1. /\ txn[s].op \in {"pay", "cancel"} /\ txn[s].stage = "apply" /\ txn[s].want = <<>>
      /\ o \in Orders
  BY DEF Inductive, Shape, ShapeOf, CommitPay, CommitCancel, Ready
<1>2. orders[o].status = Ledger!PENDING_PAY /\ orders[o].qty = txn[s].basket
  BY <1>1 DEF Inductive, Reads, ReadsOf
<1>3. owner[OrderRow(o)] = s
  BY <1>1, ReadyOwns DEF GuardsOrder
<1>4. \A x \in Orders : x # o => orders'[x] = orders[x]
  BY DEF CommitPay, CommitCancel, SetStatus, Inductive, TypeOK, Ledger!TypeOK
<1>5. UNCHANGED <<cart, selected>> /\ Finish(s)
  BY DEF CommitPay, CommitCancel
<1>6. Ledger!Pay(o) \/ Ledger!Cancel(o)
  BY <1>2 DEF CommitPay, CommitCancel, SetStatus, Ledger!Pay, Ledger!Cancel, Ledger!Move
<1> QED
  BY <1>1, <1>3, <1>4, <1>5, <1>6 DEF Respects, Ledger!Next

LEMMA CommitAddWrites ==
  ASSUME Inductive, NEW s \in Sessions, CommitAdd(s)
  PROVE  Rollback(s) \/ (Finish(s) /\ Ledger!Next /\ Respects(s))
<1> DEFINE u == txn[s].user
           p == txn[s].product
           n == txn[s].n
<1>1. /\ txn[s].op = "add" /\ txn[s].stage = "apply" /\ txn[s].want = <<>>
      /\ u \in Users /\ p \in Products /\ n \in 1..MaxQty
  BY DEF Inductive, Shape, ShapeOf, CommitAdd, Ready
<1> SUFFICES ASSUME ~Rollback(s)
             PROVE  Finish(s) /\ Ledger!Next /\ Respects(s)
  OBVIOUS
<1>2. /\ Ledger!Purchasable(p, cart[u][p] + n)
      /\ cart' = [cart EXCEPT ![u][p] = cart[u][p] + n]
      /\ selected' = [selected EXCEPT ![u] = IF cart[u][p] = 0 THEN @ \cup {p} ELSE @]
      /\ UNCHANGED <<stock, sales, onSale, orders>>
      /\ Finish(s)
  BY DEF CommitAdd
<1>3. owner[CartRow(u, p)] = s
  BY <1>1, ReadyOwns DEF GuardsLine
<1>4. cart \in [Users -> Ledger!Basket] /\ selected \in [Users -> SUBSET Products]
  BY DEF Inductive, TypeOK, Ledger!TypeOK
<1> HIDE DEF u, p, n
<1>5. Ledger!AddToCart(u, p, n)
  BY <1>1, <1>2, MaxQtyPositive DEF Ledger!AddToCart
<1>6. \A v \in Users, q \in Products :
        v # u \/ q # p => cart'[v][q] = cart[v][q] /\ (q \in selected'[v] <=> q \in selected[v])
  BY <1>1, <1>2, <1>4 DEF Ledger!Basket
<1>7. Ledger!Next
  BY <1>1, <1>5 DEF Ledger!Next
<1> QED
  BY <1>2, <1>3, <1>6, <1>7 DEF Respects

LEMMA CommitPatchWrites ==
  ASSUME Inductive, NEW s \in Sessions, CommitPatch(s)
  PROVE  Rollback(s) \/ (Finish(s) /\ Ledger!Next /\ Respects(s))
<1> DEFINE u == txn[s].user
           p == txn[s].product
           n == txn[s].n
           on == txn[s].on
<1>1. /\ txn[s].op = "patch" /\ txn[s].stage = "apply" /\ txn[s].want = <<>>
      /\ u \in Users /\ p \in Products /\ n \in 1..MaxQty /\ on \in BOOLEAN
  BY DEF Inductive, TypeOK, Txn, Shape, ShapeOf, CommitPatch, Ready
<1> SUFFICES ASSUME ~Rollback(s)
             PROVE  Finish(s) /\ Ledger!Next /\ Respects(s)
  OBVIOUS
<1>2. /\ n # cart[u][p] => Ledger!Patchable(u, p, n)
      /\ cart' = [cart EXCEPT ![u][p] = n]
      /\ selected' = [selected EXCEPT ![u] = IF on THEN @ \cup {p} ELSE @ \ {p}]
      /\ UNCHANGED <<stock, sales, onSale, orders>>
      /\ Finish(s)
  BY DEF CommitPatch
<1>3. owner[CartRow(u, p)] = s
  BY <1>1, ReadyOwns DEF GuardsLine
<1>4. cart[u][p] > 0
  BY <1>1 DEF Inductive, Reads, ReadsOf
<1>5. cart \in [Users -> Ledger!Basket] /\ selected \in [Users -> SUBSET Products]
  BY DEF Inductive, TypeOK, Ledger!TypeOK
<1> HIDE DEF u, p, n, on
<1>6. Ledger!Patch(u, p, n, on)
  BY <1>2, <1>4 DEF Ledger!Patch
<1>7. \A v \in Users, q \in Products :
        v # u \/ q # p => cart'[v][q] = cart[v][q] /\ (q \in selected'[v] <=> q \in selected[v])
  BY <1>1, <1>2, <1>5 DEF Ledger!Basket
<1>8. Ledger!Next
  BY <1>1, <1>6 DEF Ledger!Next
<1> QED
  BY <1>2, <1>3, <1>7, <1>8 DEF Respects

\* The statements that run in a transaction of their own find the row free.
LEMMA AutocommitWrites ==
  ASSUME Inductive,
         \/ \E o \in Orders : Advance(o)
         \/ \E p \in Products : ToggleOnSale(p) \/ \E u \in Users : Remove(u, p)
  PROVE  UNCHANGED <<txn, owner>> /\ Ledger!Next /\ Respects(Nobody)
<1>0. /\ cart \in [Users -> Ledger!Basket] /\ selected \in [Users -> SUBSET Products]
      /\ orders \in [Orders -> Ledger!Order]
  BY DEF Inductive, TypeOK, Ledger!TypeOK
<1>1. ASSUME NEW o \in Orders, Advance(o)
      PROVE  UNCHANGED <<txn, owner>> /\ Ledger!Next /\ Respects(Nobody)
  <2>1. \A x \in Orders : x # o => orders'[x] = orders[x]
    BY <1>0, <1>1 DEF Advance, Ledger!MarkAwaitingReceipt, Ledger!CompletePaid, Ledger!Move
  <2>2. UNCHANGED <<cart, selected>>
    BY <1>1 DEF Advance, Ledger!MarkAwaitingReceipt, Ledger!CompletePaid
  <2> QED
    BY <1>1, <2>1, <2>2 DEF Advance, Respects, Ledger!Next
<1>2. ASSUME NEW p \in Products, ToggleOnSale(p)
      PROVE  UNCHANGED <<txn, owner>> /\ Ledger!Next /\ Respects(Nobody)
  <2>1. UNCHANGED <<cart, selected, orders>>
    BY <1>2 DEF ToggleOnSale, Ledger!ToggleOnSale
  <2> QED
    BY <1>2, <2>1 DEF ToggleOnSale, Respects, Ledger!Next
<1>3. ASSUME NEW u \in Users, NEW p \in Products, Remove(u, p)
      PROVE  UNCHANGED <<txn, owner>> /\ Ledger!Next /\ Respects(Nobody)
  <2>1. /\ cart' = [cart EXCEPT ![u][p] = 0]
        /\ selected' = [selected EXCEPT ![u] = @ \ {p}]
        /\ orders' = orders
        /\ owner[CartRow(u, p)] = Nobody
    BY <1>3 DEF Remove, Ledger!RemoveLine
  <2>2. \A v \in Users, q \in Products :
          v # u \/ q # p => cart'[v][q] = cart[v][q] /\ (q \in selected'[v] <=> q \in selected[v])
    BY <1>0, <2>1 DEF Ledger!Basket
  <2> QED
    BY <1>3, <2>1, <2>2 DEF Remove, Respects, Ledger!Next
<1> QED
  BY <1>1, <1>2, <1>3

------------------------------------------------------------------------------
(* Every step, by what it does to the session's record and to the tables.  *)

Acts == Ledger!Next \/ UNCHANGED tables
Ends(s) == Finish(s) /\ Respects(s) /\ Acts

LEMMA SessionSteps ==
  ASSUME Inductive, NEW s \in Sessions,
         Request(s) \/ Step(s) \/ DeadlockVictim(s) \/ Fail(s)
  PROVE  GoesOn(s) \/ Lock(s) \/ Ends(s)
<1>1. ASSUME Rollback(s) PROVE Ends(s)
  BY <1>1, UntouchedTables DEF Rollback, Ends, Acts
<1>2. CASE Request(s)
  BY <1>2, RequestGoesOn
<1>3. CASE DeadlockVictim(s) \/ Fail(s)
  BY <1>1, <1>3 DEF DeadlockVictim, Fail
<1>4. CASE ResolveCart(s) \/ ResolveOrder(s) \/ ResolveAdd(s) \/ ResolvePatch(s)
  BY <1>1, <1>4, ResolveCartGoesOn, ResolveOrderGoesOn, ResolveAddGoesOn, ResolvePatchGoesOn
<1>5. CASE CommitCreate(s) \/ CommitPay(s) \/ CommitCancel(s) \/ CommitAdd(s) \/ CommitPatch(s)
  BY <1>1, <1>5, CommitCreateWrites, CommitOrderOpWrites, CommitAddWrites, CommitPatchWrites
     DEF Ends, Acts
<1> QED
  BY <1>2, <1>3, <1>4, <1>5 DEF Step

\* What every step of the specification is to the tables.
LEMMA NextActs ==
  ASSUME Inductive, [Next]_vars
  PROVE  Acts
<1>1. ASSUME NEW s \in Sessions, Request(s) \/ Step(s) \/ DeadlockVictim(s) \/ Fail(s)
      PROVE  Acts
  <2>1. CASE GoesOn(s) \/ Lock(s)
    BY <2>1 DEF GoesOn, Lock, Acts
  <2>2. CASE Ends(s)
    BY <2>2 DEF Ends
  <2> QED
    BY <1>1, <2>1, <2>2, SessionSteps
<1>2. CASE UNCHANGED vars
  BY <1>2 DEF vars, Acts
<1> QED
  BY <1>1, <1>2, AutocommitWrites DEF Next, Acts

------------------------------------------------------------------------------
(* The tables stay well formed because they go through OrderLedger's       *)
(* steps: its theorems hold of them.                                       *)

LP == INSTANCE OrderLedger_proofs

LEMMA LedgerAssumptions ==
  /\ LP!IsFiniteSet(Orders)
  /\ MaxQty \in Nat \ {0}
  /\ InitStock \in [Products -> Nat] /\ InitSales \in [Products -> Nat]
  /\ NoUser \notin Users
BY TablesFinite, MaxQtyPositive, InitialLevels, NoUserIsNoUser DEF LP!IsFiniteSet, IsFiniteSet

USE DEF Ledger!NOT_PLACED, Ledger!PENDING_PAY, Ledger!PAID, Ledger!COMPLETED,
        Ledger!CANCELLED, Ledger!AWAITING_RECEIPT, LP!NOT_PLACED, LP!PENDING_PAY, LP!PAID,
        LP!COMPLETED, LP!CANCELLED, LP!AWAITING_RECEIPT

LEMMA SameType == Ledger!TypeOK <=> LP!TypeOK
BY DEF Ledger!TypeOK, LP!TypeOK, Ledger!Basket, LP!Basket, Ledger!Order, LP!Order,
       Ledger!Status, LP!Status, Ledger!In, LP!In

LEMMA SameNext == Ledger!Next <=> LP!Next
BY DEF Ledger!Next, LP!Next, Ledger!PlaceFromCart, LP!PlaceFromCart, Ledger!Place, LP!Place,
       Ledger!PlaceItems, LP!PlaceItems, Ledger!SelectedLines, LP!SelectedLines,
       Ledger!In, LP!In, Ledger!Purchasable, LP!Purchasable, Ledger!Basket, LP!Basket,
       Ledger!cartVars, LP!cartVars, Ledger!Pay, LP!Pay, Ledger!Cancel, LP!Cancel,
       Ledger!Move, LP!Move, Ledger!MarkAwaitingReceipt, LP!MarkAwaitingReceipt,
       Ledger!CompletePaid, LP!CompletePaid, Ledger!AddToCart, LP!AddToCart,
       Ledger!Patch, LP!Patch, Ledger!Patchable, LP!Patchable, Ledger!Invalid, LP!Invalid,
       Ledger!RemoveLine, LP!RemoveLine, Ledger!ToggleOnSale, LP!ToggleOnSale

LEMMA TablesStayWellFormed ==
  ASSUME Ledger!TypeOK, Acts
  PROVE  Ledger!TypeOK'
<1>1. LP!TypeOK /\ [LP!Next]_LP!vars
  BY SameType, SameNext DEF Acts, tables, LP!vars
<1>2. LP!TypeOK'
  BY <1>1, LP!NextTypeOK, LedgerAssumptions
<1> QED
  BY <1>2 DEF Ledger!TypeOK, LP!TypeOK, Ledger!Basket, LP!Basket, Ledger!Order, LP!Order,
              Ledger!Status, LP!Status, Ledger!In, LP!In

------------------------------------------------------------------------------
(* The invariant is preserved.                                             *)

\* A transaction that does not take part in a step keeps what it has.
LEMMA OthersKeep ==
  ASSUME Inductive, NEW t \in Sessions, NEW s, s # t, Respects(s),
         \A row \in Rows : owner'[row] = t <=> owner[row] = t,
         NEW r, r = txn[t]
  PROVE  LocksOf(t, r)' /\ ReadsOf(r)' /\ SortedOf(t, r)'
<1>1. r \in Txn /\ ShapeOf(r) /\ LocksOf(t, r) /\ ReadsOf(r) /\ SortedOf(t, r)
  BY DEF Inductive, TypeOK, Shape, Locks, Reads, Sorted
<1>2. t # Nobody
  BY NobodyIsNoSession
<1>3. LocksOf(t, r)'
  BY <1>1, RowsAre DEF LocksOf
<1>4. SortedOf(t, r)'
  <2>1. OwnedBy(t)' = OwnedBy(t)
    BY DEF OwnedBy
  <2> QED
    BY <1>1, <2>1 DEF SortedOf
<1>5. ReadsOf(r)'
  <2> SUFFICES ASSUME r.stage = "apply" PROVE ReadsOf(r)'
    BY DEF ReadsOf
  <2>1. CASE r.op = "fromCart"
    <3>1. \A p \in Products : owner[CartRow(r.user, p)] = t
      BY <1>1, <2>1, RowsDiffer DEF LocksOf, GuardsLine, ProductsLeft, ShapeOf
    <3>2. \A p \in Products :
            /\ cart'[r.user][p] = cart[r.user][p]
            /\ p \in selected'[r.user] <=> p \in selected[r.user]
      BY <1>1, <1>2, <2>1, <3>1 DEF Respects, ShapeOf
    <3>3. Ledger!SelectedLines(r.user)' = Ledger!SelectedLines(r.user)
      BY <3>2 DEF Ledger!SelectedLines
    <3> QED
      BY <1>1, <2>1, <3>3 DEF ReadsOf
  <2>2. CASE r.op \in {"pay", "cancel"}
    <3>1. owner[OrderRow(r.order)] = t /\ r.order \in Orders
      BY <1>1, <2>2, RowsDiffer DEF LocksOf, GuardsOrder, ProductsLeft, ShapeOf
    <3>2. orders'[r.order] = orders[r.order]
      BY <1>1, <1>2, <2>2, <3>1 DEF Respects, ReadsOf
    <3> QED
      BY <1>1, <2>2, <3>2 DEF ReadsOf
  <2>3. CASE r.op = "patch"
    <3>1. owner[CartRow(r.user, r.product)] = t /\ r.user \in Users /\ r.product \in Products
      BY <1>1, <2>3, RowsDiffer DEF LocksOf, GuardsLine, ProductsLeft, ShapeOf
    <3>2. cart'[r.user][r.product] = cart[r.user][r.product]
      BY <1>2, <3>1 DEF Respects
    <3> QED
      BY <1>1, <2>3, <3>2 DEF ReadsOf
  <2> QED
    BY <2>1, <2>2, <2>3 DEF ReadsOf
<1> QED
  BY <1>3, <1>4, <1>5

\* A step of session s, given what it makes of the session's own record.
LEMMA OwnStepKeeps ==
  ASSUME Inductive, Ledger!TypeOK', NEW s \in Sessions, NEW t \in Txn,
         txn' = [txn EXCEPT ![s] = t], Respects(s),
         owner' \in [Rows -> Sessions \cup {Nobody}],
         \A x \in Sessions, row \in Rows : x # s => (owner'[row] = x <=> owner[row] = x),
         t = Idle => \A row \in Rows : owner'[row] # s,
         ShapeOf(t), LocksOf(s, t)', ReadsOf(t)', SortedOf(s, t)'
  PROVE  Inductive'
<1>1. txn \in [Sessions -> Txn]
  BY DEF Inductive, TypeOK
<1>2. PICK new : new = txn'
  OBVIOUS
<1>3. new \in [Sessions -> Txn] /\ new[s] = t /\ \A x \in Sessions : x # s => new[x] = txn[x]
  BY <1>1, <1>2
<1>4. TypeOK'
  <2>1. \A row \in Rows : owner'[row] # Nobody => new[owner'[row]] # Idle
    <3> SUFFICES ASSUME NEW row \in Rows, owner'[row] # Nobody PROVE new[owner'[row]] # Idle
      OBVIOUS
    <3>1. PICK x \in Sessions : x = owner'[row]
      OBVIOUS
    <3>2. CASE x = s
      BY <1>3, <3>1, <3>2
    <3>3. CASE x # s
      <4>1. owner[row] = x
        BY <3>1, <3>3
      <4>2. txn[x] # Idle
        BY <4>1, NobodyIsNoSession DEF Inductive, TypeOK
      <4> QED
        BY <1>3, <3>1, <3>3, <4>2
    <3> QED
      BY <3>2, <3>3
  <2> QED
    BY <1>2, <1>3, <2>1 DEF TypeOK
<1>5. ASSUME NEW x \in Sessions
      PROVE  ShapeOf(new[x]) /\ LocksOf(x, new[x])' /\ ReadsOf(new[x])' /\ SortedOf(x, new[x])'
  <2>1. CASE x = s
    BY <1>3, <2>1
  <2>2. CASE x # s
    <3>1. PICK r : r = txn[x]
      OBVIOUS
    <3>2. LocksOf(x, r)' /\ ReadsOf(r)' /\ SortedOf(x, r)'
      BY <2>2, <3>1, OthersKeep
    <3> QED
      BY <1>3, <2>2, <3>1, <3>2 DEF Inductive, Shape
  <2> QED
    BY <2>1, <2>2
<1>6. Shape' /\ Locks' /\ Reads' /\ Sorted'
  BY <1>2, <1>5 DEF Shape, Locks, Reads, Sorted
<1> QED
  BY <1>4, <1>6 DEF Inductive

LEMMA GoesOnKeeps ==
  ASSUME Inductive, NEW s \in Sessions, GoesOn(s)
  PROVE  Inductive'
<1>1. PICK t : Sound(s, t) /\ txn' = [txn EXCEPT ![s] = t] /\ UNCHANGED <<tables, owner>>
  BY DEF GoesOn
<1>2. Ledger!TypeOK'
  BY <1>1, TablesStayWellFormed DEF Inductive, TypeOK, Acts
<1>3. Respects(s)
  BY <1>1, UntouchedTables
<1>4. LocksOf(s, t)' /\ SortedOf(s, t)'
  BY <1>1 DEF Sound, LocksOf, SortedOf, OwnedBy
<1>5. ReadsOf(t)'
  BY <1>1 DEF Sound, ReadsOf, tables, Ledger!SelectedLines
<1>6. owner' \in [Rows -> Sessions \cup {Nobody}] /\ owner' = owner /\ t \in Txn /\ t # Idle /\ ShapeOf(t)
  BY <1>1 DEF Inductive, TypeOK, Sound
<1> QED
  BY <1>1, <1>2, <1>3, <1>4, <1>5, <1>6, OwnStepKeeps

\* The next lock keeps a checkout's locks in order: the row is after all it owns.
LEMMA LockKeeps ==
  ASSUME Inductive, NEW s \in Sessions, Lock(s)
  PROVE  Inductive'
<1>1. PICK old : old = txn[s]
  OBVIOUS
<1> DEFINE row == Head(old.want)
           t == [old EXCEPT !.want = Tail(@)]
<1>2. /\ old \in Txn /\ old.want # <<>> /\ ShapeOf(old) /\ LocksOf(s, old) /\ ReadsOf(old)
      /\ SortedOf(s, old)
  BY <1>1 DEF Inductive, TypeOK, Shape, Locks, Reads, Sorted, Lock
<1>3. /\ t \in Txn /\ row \in Rows /\ row \in Wanted(old)
      /\ Wanted(old) = Wanted(t) \cup {row}
      /\ Ascending(old) => Ascending(t) /\ \A q \in Wanted(t) : Before(row, q)
  BY <1>2, TailWants
<1>4. /\ t.op = old.op /\ t.stage = old.stage /\ t.user = old.user /\ t.order = old.order
      /\ t.product = old.product /\ t.n = old.n /\ t.basket = old.basket
      /\ t # Idle
  <2>1. old # Idle
    BY <1>2 DEF Idle
  <2>2. old.op # "none"
    BY <1>2, <2>1 DEF ShapeOf
  <2> QED
    BY <1>2, <2>2 DEF Txn, Idle
<1>5. txn' = [txn EXCEPT ![s] = t] /\ UNCHANGED tables
  BY <1>1 DEF Lock, Inductive, TypeOK
<1>6. /\ owner[row] \in {Nobody, s} /\ owner' = [owner EXCEPT ![row] = s]
      /\ owner \in [Rows -> Sessions \cup {Nobody}]
  BY <1>1 DEF Lock, Inductive, TypeOK
<1> HIDE DEF row, t
<1>7. Ledger!TypeOK'
  BY <1>5, TablesStayWellFormed DEF Inductive, TypeOK, Acts
<1>8. Respects(s)
  BY <1>5, UntouchedTables
<1>9. /\ owner' \in [Rows -> Sessions \cup {Nobody}]
      /\ \A q \in Rows : owner'[q] = IF q = row THEN s ELSE owner[q]
  BY <1>3, <1>6
<1>10. \A x \in Sessions, q \in Rows : x # s => (owner'[q] = x <=> owner[q] = x)
  BY <1>6, <1>9, NobodyIsNoSession
<1>11. ShapeOf(t)
  BY <1>2, <1>4 DEF ShapeOf, Idle
<1>12. LocksOf(s, t)'
  <2>1. \A u \in Users, p \in Products :
          GuardsLine(t, u, p) => owner'[CartRow(u, p)] = s \/ CartRow(u, p) \in Wanted(t)
    BY <1>2, <1>3, <1>4, <1>9, RowsAre DEF LocksOf, GuardsLine
  <2>2. \A o \in Orders :
          GuardsOrder(t, o) => owner'[OrderRow(o)] = s \/ OrderRow(o) \in Wanted(t)
    BY <1>2, <1>3, <1>4, <1>9, RowsAre DEF LocksOf, GuardsOrder
  <2>3. ProductsLeft(t)
    BY <1>2, <1>3, <1>4 DEF LocksOf, ProductsLeft
  <2> QED
    BY <2>1, <2>2, <2>3 DEF LocksOf
<1>13. ReadsOf(t)'
  BY <1>2, <1>4, <1>5 DEF ReadsOf, tables, Ledger!SelectedLines
<1>14. SortedOf(s, t)'
  <2> SUFFICES ASSUME t.op \in {"create", "fromCart"} PROVE SortedOf(s, t)'
    BY DEF SortedOf
  <2>1. /\ Ascending(old)
        /\ \A r \in OwnedBy(s), q \in Wanted(old) : Before(r, q)
        /\ t.stage = "resolve" => CartOnly(OwnedBy(s)) /\ CartOnly(Wanted(old))
    BY <1>2, <1>4 DEF SortedOf
  <2>2. \A r : r \in OwnedBy(s)' => r \in OwnedBy(s) \/ r = row
    BY <1>9 DEF OwnedBy
  <2>3. \A r, q : r \in OwnedBy(s)' /\ q \in Wanted(t) => Before(r, q)
    BY <1>3, <2>1, <2>2
  <2>4. t.stage = "resolve" => CartOnly(OwnedBy(s)') /\ CartOnly(Wanted(t))
    BY <1>3, <2>1, <2>2 DEF CartOnly
  <2> QED
    BY <1>3, <2>1, <2>3, <2>4 DEF SortedOf, CartOnly
<1> QED
  BY <1>3, <1>4, <1>5, <1>7, <1>8, <1>9, <1>10, <1>11, <1>12, <1>13, <1>14, OwnStepKeeps

LEMMA EndsKeeps ==
  ASSUME Inductive, NEW s \in Sessions, Ends(s)
  PROVE  Inductive'
<1>1. Ledger!TypeOK' /\ Respects(s)
  BY TablesStayWellFormed DEF Inductive, TypeOK, Ends
<1>2. /\ txn' = [txn EXCEPT ![s] = Idle]
      /\ \A q \in Rows : owner'[q] = IF owner[q] = s THEN Nobody ELSE owner[q]
      /\ owner' \in [Rows -> Sessions \cup {Nobody}]
  BY DEF Ends, Finish, Inductive, TypeOK
<1>3. \A x \in Sessions, q \in Rows : x # s => (owner'[q] = x <=> owner[q] = x)
  BY <1>2, NobodyIsNoSession
<1>4. \A q \in Rows : owner'[q] # s
  BY <1>2, NobodyIsNoSession
<1>5. ShapeOf(Idle) /\ LocksOf(s, Idle)' /\ ReadsOf(Idle)' /\ SortedOf(s, Idle)'
  BY DEF Idle, ShapeOf, LocksOf, GuardsLine, GuardsOrder, ProductsLeft, ReadsOf, SortedOf, Wanted
<1> QED
  BY <1>1, <1>2, <1>3, <1>4, <1>5, IdleType, OwnStepKeeps

LEMMA AutocommitKeeps ==
  ASSUME Inductive, UNCHANGED <<txn, owner>>, Acts, Respects(Nobody)
  PROVE  Inductive'
<1>1. Ledger!TypeOK'
  BY TablesStayWellFormed DEF Inductive, TypeOK
<1>2. TypeOK'
  BY <1>1 DEF Inductive, TypeOK
<1>3. ASSUME NEW x \in Sessions, NEW r, r = txn[x]
      PROVE  LocksOf(x, r)' /\ ReadsOf(r)' /\ SortedOf(x, r)'
  BY <1>3, NobodyIsNoSession, OthersKeep
<1>4. PICK new : new = txn'
  OBVIOUS
<1>5. \A x \in Sessions : LocksOf(x, new[x])' /\ ReadsOf(new[x])' /\ SortedOf(x, new[x])'
  BY <1>3, <1>4
<1>6. Shape' /\ Locks' /\ Reads' /\ Sorted'
  BY <1>4, <1>5 DEF Inductive, Shape, Locks, Reads, Sorted
<1> QED
  BY <1>2, <1>6 DEF Inductive

------------------------------------------------------------------------------
(* The theorems.                                                           *)

LEMMA InitInductive == Init => Inductive
<1> SUFFICES ASSUME Init PROVE Inductive
  OBVIOUS
<1>1. Ledger!TypeOK
  <2>1. LP!Init
    BY DEF Init, Ledger!Init, LP!Init, Ledger!EmptyBasket, LP!EmptyBasket, Ledger!NoOrder, LP!NoOrder
  <2> QED
    BY <2>1, LP!InitTypeOK, LedgerAssumptions, SameType
<1>2. TypeOK
  BY <1>1, IdleType DEF Init, TypeOK
<1>3. \A s \in Sessions : txn[s] = Idle
  BY DEF Init
<1>4. ASSUME NEW s \in Sessions
      PROVE  ShapeOf(Idle) /\ LocksOf(s, Idle) /\ ReadsOf(Idle) /\ SortedOf(s, Idle)
  BY DEF Idle, ShapeOf, LocksOf, GuardsLine, GuardsOrder, ProductsLeft, ReadsOf, SortedOf, Wanted
<1>5. Shape /\ Locks /\ Reads /\ Sorted
  BY <1>3, <1>4 DEF Shape, Locks, Reads, Sorted
<1> QED
  BY <1>2, <1>5 DEF Inductive

LEMMA NextInductive == Inductive /\ [Next]_vars => Inductive'
<1> SUFFICES ASSUME Inductive, [Next]_vars PROVE Inductive'
  OBVIOUS
<1>1. ASSUME NEW s \in Sessions, Request(s) \/ Step(s) \/ DeadlockVictim(s) \/ Fail(s)
      PROVE  Inductive'
  BY <1>1, SessionSteps, GoesOnKeeps, LockKeeps, EndsKeeps
<1>2. CASE \/ \E o \in Orders : Advance(o)
           \/ \E p \in Products : ToggleOnSale(p) \/ \E u \in Users : Remove(u, p)
  BY <1>2, AutocommitWrites, AutocommitKeeps DEF Acts
<1>3. CASE UNCHANGED vars
  <2>1. UNCHANGED <<txn, owner>> /\ UNCHANGED tables
    BY <1>3 DEF vars
  <2> QED
    BY <2>1, UntouchedTables, AutocommitKeeps DEF Acts
<1> QED
  BY <1>1, <1>2, <1>3 DEF Next

\* For any number of users, products, orders and requests at once: the tables and
\* the transactions stay well formed, and a row is locked only by a request in
\* progress (every way out of `em.transaction` frees the rows).
THEOREM TypeTheorem == Spec => []TypeOK
<1>1. Inductive => TypeOK
  BY DEF Inductive
<1> QED
  BY <1>1, InitInductive, NextInductive, PTL DEF Spec

\* The row locks that the services take make them atomic: whatever the
\* interleaving, rejections, rollbacks and deadlocks, the tables go through a run
\* of OrderLedger, where create, pay, cancel, add, patch and remove are one step each.
THEOREM SerializableTheorem == Spec => Serializable
<1>1. Init => Ledger!Init
  BY DEF Init
<1>2. Inductive /\ [Next]_vars => [Ledger!Next]_(Ledger!vars)
  BY NextActs DEF Acts, tables, Ledger!vars
<1> QED
  BY <1>1, <1>2, InitInductive, NextInductive, PTL DEF Spec, Serializable, Ledger!Spec

\* The row that a waiting checkout wants comes after every row that it owns.
LEMMA WaitsForLater ==
  ASSUME Inductive, NEW s \in Creating, Waits(s), NEW r \in Rows, owner[r] = s
  PROVE  Before(r, Head(txn[s].want))
<1>1. s \in Sessions /\ txn[s].op \in {"create", "fromCart"} /\ txn[s] \in Txn
  BY DEF Creating, Inductive, TypeOK
<1>2. \A q \in Wanted(txn[s]) : Before(r, q)
  BY <1>1 DEF Inductive, Sorted, SortedOf, OwnedBy
<1>3. PICK t \in Txn : t = txn[s]
  BY <1>1
<1>4. Head(t.want) \in Wanted(t)
  BY <1>3, TailWants DEF Waits
<1> QED
  BY <1>2, <1>3, <1>4

\* lockProducts and the locking scan of resolveLines take their rows in one order,
\* so no set of checkouts wait for each other, however many there are and whatever
\* they buy.
LEMMA NoCycle == Inductive => CheckoutsDoNotDeadlock
<1> SUFFICES ASSUME Inductive, NEW s \in Creating, NEW C \in SUBSET Creating, s \in C,
                    \A t \in C : Waits(t),
                    C = {BlockedOn(t) : t \in C}
             PROVE  FALSE
  BY DEF CheckoutsDoNotDeadlock, OnCycle
<1> DEFINE row(t) == Head(txn[t].want)
\* Along the cycle the wanted rows only go up ...
<1>1. \A t \in C : \E t2 \in C : Before(row(t), row(t2))
  <2> SUFFICES ASSUME NEW t \in C PROVE \E t2 \in C : Before(row(t), row(t2))
    OBVIOUS
  <2>1. PICK t2 \in C : t2 = owner[row(t)]
    BY DEF BlockedOn
  <2>2. txn[t] \in Txn /\ txn[t].want # <<>>
    BY DEF Creating, Inductive, TypeOK, Waits
  <2>3. row(t) \in Rows
    <3>1. PICK x \in Txn : x = txn[t]
      BY <2>2
    <3> QED
      BY <2>2, <3>1, TailWants
  <2>4. Waits(t2) /\ t2 \in Creating
    OBVIOUS
  <2> HIDE DEF row
  <2> QED
    BY <2>1, <2>3, <2>4, WaitsForLater DEF row
<1> HIDE DEF row
\* ... but there is a last product, and, if no product is wanted, a last line.
<1> DEFINE ps == {p \in Products : \E t \in C : row(t) = ProductRow(p)}
           ls == {p \in Products : \E t \in C, u \in Users : row(t) = CartRow(u, p)}
<1>2. ASSUME NEW S \in SUBSET Products, S # {} PROVE \E p \in S : \A q \in S : ~(p < q)
  <2>1. IsFiniteSet(S) /\ S \subseteq Int
    BY TablesFinite, ProductsOrdered, FS_Subset
  <2>2. PICK p \in S : \A q \in S : q <= p
    BY <1>2, <2>1, Largest
  <2> QED
    BY <2>1, <2>2
<1>3. ps = {}
  <2> SUFFICES ASSUME ps # {} PROVE FALSE
    OBVIOUS
  <2>1. PICK p \in ps : \A q \in ps : ~(p < q)
    BY <1>2
  <2>2. PICK t \in C : row(t) = ProductRow(p)
    OBVIOUS
  <2>3. PICK t2 \in C : Before(row(t), row(t2))
    BY <1>1
  <2>4. PICK p2 \in Products : row(t2) = ProductRow(p2) /\ p < p2
    BY <2>2, <2>3, RowsDiffer DEF Before
  <2> QED
    BY <2>1, <2>4
<1>4. ls # {}
  <2>1. PICK t2 \in C : Before(row(s), row(t2))
    BY <1>1
  <2> QED
    BY <1>3, <2>1 DEF Before
<1>5. PICK p \in ls : \A q \in ls : ~(p < q)
  BY <1>2, <1>4
<1>6. PICK t \in C, u \in Users : row(t) = CartRow(u, p)
  OBVIOUS
<1>7. PICK t2 \in C : Before(row(t), row(t2))
  BY <1>1
<1>8. \E p2 \in Products : row(t2) = CartRow(u, p2) /\ p < p2
  BY <1>3, <1>6, <1>7, RowsDiffer DEF Before
<1> QED
  BY <1>5, <1>8

THEOREM DeadlockTheorem == Spec => []CheckoutsDoNotDeadlock
BY NoCycle, InitInductive, NextInductive, PTL DEF Spec

\* No unit is sold twice or restocked twice, now under concurrent transactions.
THEOREM StockTheorem == Spec => []Ledger!StockConserved
<1>1. Ledger!Init => LP!Init
  BY DEF Ledger!Init, LP!Init, Ledger!EmptyBasket, LP!EmptyBasket, Ledger!NoOrder, LP!NoOrder
<1>2. [Ledger!Next]_(Ledger!vars) => [LP!Next]_(LP!vars)
  BY SameNext DEF Ledger!vars, LP!vars
<1>3. LP!Spec => []LP!StockConserved
  BY LP!StockTheorem, LedgerAssumptions
<1>4. LP!StockConserved => Ledger!StockConserved
  BY DEF LP!StockConserved, Ledger!StockConserved, LP!Units, Ledger!Units, LP!Holding, Ledger!Holding,
         LP!Cardinality, Ledger!Cardinality
<1> QED
  BY <1>1, <1>2, <1>3, <1>4, SerializableTheorem, PTL DEF Serializable, Ledger!Spec, LP!Spec
==============================================================================
