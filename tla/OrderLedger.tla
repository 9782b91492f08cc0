----------------------------- MODULE OrderLedger -----------------------------
(***************************************************************************)
(* What the shop's database promises: the cart, order and product tables   *)
(* of the API, each service operation taken as one atomic step.            *)
(*                                                                         *)
(* OrdersService.create / pay / cancel and the two job updates, and        *)
(* CartService.add / patch / remove, run as MySQL transactions.  This      *)
(* module states their combined effect; OrderTransactions takes them apart *)
(* into the row locks and statements they are made of and is shown to      *)
(* implement this module, and OrderJobs adds clocks, timestamps and the    *)
(* cron sweeps.  A request the code rejects changes nothing, so rejections *)
(* are not actions here.                                                   *)
(***************************************************************************)
EXTENDS Integers, FiniteSets

CONSTANTS
  Users,        \* rows of table users
  Products,     \* rows of table products (no operation adds or deletes one)
  Orders,       \* identifiers the orders of a behaviour are drawn from
  MaxQty,       \* CART_MAX_QUANTITY, 99 in the code
  InitStock,    \* products.stock as seeded
  InitSales,    \* products.sales as seeded
  NoUser        \* buyer of an identifier no order has used yet

ASSUME OrdersFinite == IsFiniteSet(Orders)
ASSUME MaxQtyPositive == MaxQty \in Nat \ {0}
ASSUME InitialLevels ==
  /\ InitStock \in [Products -> Nat]
  /\ InitSales \in [Products -> Nat]
ASSUME NoUserIsNoUser == NoUser \notin Users

VARIABLES
  stock,        \* products.stock
  sales,        \* products.sales
  onSale,       \* the products whose status is PRODUCT_STATUS_ON_SALE
  cart,         \* cart_items.quantity of each (user, product), 0 without a row
  selected,     \* the products whose cart line is selected, per user
  orders        \* the orders table with its order_items

vars == <<stock, sales, onSale, cart, selected, orders>>
cartVars == <<cart, selected>>

------------------------------------------------------------------------------
(* Orders and their statuses (order.entity.ts).                            *)

NOT_PLACED       == "not_placed"        \* no row yet
PENDING_PAY      == "pending_pay"       \* 0
PAID             == "paid"              \* 1
COMPLETED        == "completed"         \* 2
CANCELLED        == "cancelled"         \* 3
AWAITING_RECEIPT == "awaiting_receipt"  \* 4

Status == {NOT_PLACED, PENDING_PAY, PAID, COMPLETED, CANCELLED, AWAITING_RECEIPT}

\* A basket: how many units of each product, 0 for a product that is not in it.
Basket == [Products -> 0..MaxQty]
EmptyBasket == [p \in Products |-> 0]
In(basket) == {p \in Products : basket[p] > 0}

Order == [status : Status, user : Users \cup {NoUser}, qty : Basket]
NoOrder == [status |-> NOT_PLACED, user |-> NoUser, qty |-> EmptyBasket]

\* isCartLineInvalid: what the cart shows as no longer buyable.
Invalid(p) == p \notin onSale \/ stock[p] = 0

\* assertPurchasableQty for a product that is also still on sale.
Purchasable(p, n) == p \in onSale /\ n \in 1..MaxQty /\ n <= stock[p]

------------------------------------------------------------------------------
Init ==
  /\ stock = InitStock
  /\ sales = InitSales
  /\ onSale \in SUBSET Products
  /\ cart = [u \in Users |-> EmptyBasket]
  /\ selected = [u \in Users |-> {}]
  /\ orders = [o \in Orders |-> NoOrder]

\* Mutant of Place: the loop takes the stock without looking at it.
PlaceUnchecked(o, u, basket) ==
  /\ orders[o].status = NOT_PLACED
  /\ In(basket) # {}
  /\ stock' = [p \in Products |-> stock[p] - basket[p]]
  /\ orders' = [orders EXCEPT ![o] =
                  [status |-> PENDING_PAY, user |-> u, qty |-> basket]]
  /\ UNCHANGED <<sales, onSale>>

(* OrdersService.create: every line is bought or none is.                  *)
Place(o, u, basket) ==
  /\ orders[o].status = NOT_PLACED
  /\ In(basket) # {}
  /\ \A p \in In(basket) : Purchasable(p, basket[p])
  /\ stock' = [p \in Products |-> stock[p] - basket[p]]
  /\ orders' = [orders EXCEPT ![o] =
                  [status |-> PENDING_PAY, user |-> u, qty |-> basket]]
  /\ UNCHANGED <<sales, onSale>>

\* create with dto.items: the lines come from the request, the cart stays.
PlaceItems(o, u, basket) ==
  /\ Place(o, u, basket)
  /\ UNCHANGED cartVars

\* create with dto.fromCart: all the selected lines, and they leave the cart.
SelectedLines(u) == [p \in Products |-> IF p \in selected[u] THEN cart[u][p] ELSE 0]

PlaceFromCart(o, u) ==
  /\ Place(o, u, SelectedLines(u))
  /\ cart' = [cart EXCEPT ![u] = [p \in Products |-> IF p \in selected[u] THEN 0 ELSE @[p]]]
  /\ selected' = [selected EXCEPT ![u] = {}]

(* The conditional status updates: `WHERE id = ? AND status = expected`.   *)
Move(o, expected, next) ==
  /\ orders[o].status = expected
  /\ orders' = [orders EXCEPT ![o].status = next]

\* Mutants of Pay and Cancel: the update has no `AND status = expected`.
PayAnyStatus(o) ==
  /\ orders[o].status # NOT_PLACED
  /\ orders' = [orders EXCEPT ![o].status = PAID]
  /\ sales' = [p \in Products |-> sales[p] + orders[o].qty[p]]
  /\ UNCHANGED <<stock, onSale, cart, selected>>

CancelAnyStatus(o) ==
  /\ orders[o].status # NOT_PLACED
  /\ orders' = [orders EXCEPT ![o].status = CANCELLED]
  /\ stock' = [p \in Products |-> stock[p] + orders[o].qty[p]]
  /\ UNCHANGED <<sales, onSale, cart, selected>>

Pay(o) ==
  /\ Move(o, PENDING_PAY, PAID)
  /\ sales' = [p \in Products |-> sales[p] + orders[o].qty[p]]
  /\ UNCHANGED <<stock, onSale, cart, selected>>

\* cancelPendingById, which serves both the user and the timeout job.
Cancel(o) ==
  /\ Move(o, PENDING_PAY, CANCELLED)
  /\ stock' = [p \in Products |-> stock[p] + orders[o].qty[p]]
  /\ UNCHANGED <<sales, onSale, cart, selected>>

MarkAwaitingReceipt(o) ==
  /\ Move(o, PAID, AWAITING_RECEIPT)
  /\ UNCHANGED <<stock, sales, onSale, cart, selected>>

CompletePaid(o) ==
  /\ Move(o, AWAITING_RECEIPT, COMPLETED)
  /\ UNCHANGED <<stock, sales, onSale, cart, selected>>

(* CartService.                                                            *)
\* Mutant of AddToCart: only the quantity added is checked, not the new total.
AddToCartUnmerged(u, p, n) ==
  /\ Purchasable(p, n)
  /\ cart[u][p] + n <= MaxQty
  /\ cart' = [cart EXCEPT ![u][p] = @ + n]
  /\ selected' = [selected EXCEPT ![u] = IF cart[u][p] = 0 THEN @ \cup {p} ELSE @]
  /\ UNCHANGED <<stock, sales, onSale, orders>>

AddToCart(u, p, n) ==
  /\ n > 0
  /\ Purchasable(p, cart[u][p] + n)
  /\ cart' = [cart EXCEPT ![u][p] = @ + n]
  /\ selected' = [selected EXCEPT ![u] = IF cart[u][p] = 0 THEN @ \cup {p} ELSE @]
  /\ UNCHANGED <<stock, sales, onSale, orders>>

\* A line that went invalid may only shrink; a valid one obeys the stock.
Patchable(u, p, n) ==
  IF Invalid(p) THEN n \in 1..cart[u][p] ELSE Purchasable(p, n)

\* patch sets the quantity, the selection or both; the one it leaves alone is
\* passed as it stands.
Patch(u, p, n, on) ==
  /\ cart[u][p] > 0
  /\ n # cart[u][p] => Patchable(u, p, n)
  /\ cart' = [cart EXCEPT ![u][p] = n]
  /\ selected' = [selected EXCEPT ![u] = IF on THEN @ \cup {p} ELSE @ \ {p}]
  /\ UNCHANGED <<stock, sales, onSale, orders>>

RemoveLine(u, p) ==
  /\ cart[u][p] > 0
  /\ cart' = [cart EXCEPT ![u][p] = 0]
  /\ selected' = [selected EXCEPT ![u] = @ \ {p}]
  /\ UNCHANGED <<stock, sales, onSale, orders>>

\* products.status changes outside the API (seed, SQL console).
ToggleOnSale(p) ==
  /\ onSale' = IF p \in onSale THEN onSale \ {p} ELSE onSale \cup {p}
  /\ UNCHANGED <<stock, sales, cart, selected, orders>>

Next ==
  \/ \E o \in Orders, u \in Users :
        \/ PlaceFromCart(o, u)
        \/ \E basket \in Basket : PlaceItems(o, u, basket)
  \/ \E o \in Orders :
        Pay(o) \/ Cancel(o) \/ MarkAwaitingReceipt(o) \/ CompletePaid(o)
  \/ \E u \in Users, p \in Products :
        \/ \E n \in 1..MaxQty :
              AddToCart(u, p, n) \/ \E on \in BOOLEAN : Patch(u, p, n, on)
        \/ RemoveLine(u, p)
  \/ \E p \in Products : ToggleOnSale(p)

Spec == Init /\ [][Next]_vars

------------------------------------------------------------------------------
(* Properties.                                                             *)

\* Every row is well formed: no stock goes negative, no cart line holds more
\* than CART_MAX_QUANTITY, and only an existing line is selected.
TypeOK ==
  /\ stock \in [Products -> Nat]
  /\ sales \in [Products -> Nat]
  /\ onSale \in SUBSET Products
  /\ cart \in [Users -> Basket]
  /\ selected \in [Users -> SUBSET Products]
  /\ orders \in [Orders -> Order]
  /\ \A u \in Users : selected[u] \subseteq In(cart[u])

\* The units of p that the orders of a table in one of the statuses S hold, one
\* pair each.
Units(table, p, S) ==
  {unit \in Orders \X (1..MaxQty) :
      /\ table[unit[1]].status \in S
      /\ unit[2] <= table[unit[1]].qty[p]}

Holding == {PENDING_PAY, PAID, AWAITING_RECEIPT, COMPLETED}
Sold == {PAID, AWAITING_RECEIPT, COMPLETED}

\* Nothing is oversold and nothing is restocked twice: whatever the order of
\* payments, user cancellations and timeout cancellations, the units on the
\* shelf and the units held by orders that are not cancelled are those seeded.
StockConserved ==
  \A p \in Products : stock[p] + Cardinality(Units(orders, p, Holding)) = InitStock[p]

\* products.sales counts each paid unit exactly once, and no other.
SalesConserved ==
  \A p \in Products : sales[p] = InitSales[p] + Cardinality(Units(orders, p, Sold))

\* A cart line never grows past what the shelf holds at that moment, nor while
\* its product is off sale: CartService.add and .patch check under a row lock.
LineGrowth ==
  \A u \in Users, p \in Products :
      cart'[u][p] > cart[u][p] => p \in onSale /\ cart'[u][p] <= stock[p]
LinesGrowWithinStock == [][LineGrowth]_vars
==============================================================================
