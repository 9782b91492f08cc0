-------------------------- MODULE OrderTransactions --------------------------
(***************************************************************************)
(* The order and cart operations as InnoDB runs them: concurrent requests, *)
(* each a transaction that takes exclusive row locks one at a time, holds  *)
(* them to its end, and commits or rolls back.                             *)
(*                                                                         *)
(* A session is one request being served (or one cancelPendingById of the  *)
(* timeout job).  It works through the row locks it still `wants`, in the  *)
(* order in which the code's statements touch the rows, and reads a row    *)
(* only when it has locked it.  Its writes are kept apart until COMMIT     *)
(* (no other transaction can see them: the rows stay locked); ROLLBACK     *)
(* drops them.  Rejections, a lost connection, a lock-wait timeout and     *)
(* InnoDB choosing the transaction as deadlock victim all roll back.       *)
(*                                                                         *)
(* Row locks are those of REPEATABLE READ: `WHERE user_id = ? AND selected *)
(* FOR UPDATE` scans and so locks, in index order, the user's whole range  *)
(* of the unique index (user_id, product_id), gaps included.  A cart lock  *)
(* stands for one key of that index, taken or free.  Two inserts that meet *)
(* in one gap can deadlock as well; Fail stands for that victim.           *)
(* order_items and addresses are read, never changed.                      *)
(***************************************************************************)
EXTENDS Integers, Sequences, FiniteSets

CONSTANTS
  Users, Products, Orders, MaxQty, InitStock, InitSales, NoUser,
  Sessions,     \* requests that can be in progress at the same time
  Nobody,       \* owner of a row that is not locked
  Ops           \* bound: the operations that are requested, and whether the
                \* catalogue ("toggle") changes under them

ASSUME OpsKnown ==
  Ops \subseteq {"create", "fromCart", "pay", "cancel", "add", "patch", "toggle"}
ASSUME ProductsOrdered == Products \subseteq Int   \* ids sort, as uuids do
ASSUME TablesFinite == IsFiniteSet(Products) /\ IsFiniteSet(Orders)
ASSUME MaxQtyPositive == MaxQty \in Nat \ {0}
ASSUME InitialLevels == InitStock \in [Products -> Nat] /\ InitSales \in [Products -> Nat]
ASSUME NoUserIsNoUser == NoUser \notin Users
ASSUME NobodyIsNoSession == Nobody \notin Sessions

VARIABLES
  stock, sales, onSale, cart, selected, orders,    \* the committed tables
  txn,          \* the request each session serves and how far it has got
  owner         \* which session holds each row lock

Ledger == INSTANCE OrderLedger

tables == <<stock, sales, onSale, cart, selected, orders>>
vars == <<tables, txn, owner>>

------------------------------------------------------------------------------
(* Row locks.                                                              *)

ProductRow(p) == <<"product", p>>
CartRow(u, p) == <<"cart", u, p>>
OrderRow(o) == <<"order", o>>

Rows == {ProductRow(p) : p \in Products} \cup {OrderRow(o) : o \in Orders}
          \cup {CartRow(u, p) : u \in Users, p \in Products}

(* Transactions.  `want` lists the rows to lock before the next step that  *)
(* acts; in stage "resolve" that step reads what to do and may lock more,  *)
(* in stage "apply" it checks, writes and commits.                         *)

Operations == {"create", "fromCart", "pay", "cancel", "add", "patch"}
Txn == [op : Operations \cup {"none"}, stage : {"resolve", "apply"}, want : Seq(Rows),
        user : Users \cup {NoUser}, order : Orders \cup {Nobody},
        product : Products \cup {Nobody}, n : 0..MaxQty, on : BOOLEAN,
        basket : Ledger!Basket]

Idle == [op |-> "none", stage |-> "apply", want |-> <<>>, user |-> NoUser,
         order |-> Nobody, product |-> Nobody, n |-> 0, on |-> FALSE,
         basket |-> Ledger!EmptyBasket]

Begin(s, t) ==
  /\ txn[s] = Idle
  /\ t.op \in Ops
  /\ txn' = [txn EXCEPT ![s] = t]
  /\ UNCHANGED <<tables, owner>>

\* The end of a transaction frees its rows; what it did not save is gone.
Finish(s) ==
  /\ txn' = [txn EXCEPT ![s] = Idle]
  /\ owner' = [r \in Rows |-> IF owner[r] = s THEN Nobody ELSE owner[r]]

\* Mutant of Rollback: an error path returns without ending the transaction.
RollbackForgotten(s) ==
  /\ txn' = [txn EXCEPT ![s] = Idle]
  /\ UNCHANGED <<tables, owner>>

Rollback(s) == Finish(s) /\ UNCHANGED tables

\* SELECT ... FOR UPDATE or UPDATE on a row nobody else has locked.
Lock(s) ==
  /\ txn[s].want # <<>>
  /\ owner[Head(txn[s].want)] \in {Nobody, s}
  /\ owner' = [owner EXCEPT ![Head(txn[s].want)] = s]
  /\ txn' = [txn EXCEPT ![s].want = Tail(@)]
  /\ UNCHANGED tables

Ready(s, op, stage) ==
  /\ txn[s].op = op
  /\ txn[s].stage = stage
  /\ txn[s].want = <<>>

\* The transaction knows its lines and goes on to the rows it will change.
Proceed(s, want, basket) ==
  /\ txn' = [txn EXCEPT ![s].stage = "apply", ![s].want = want, ![s].basket = basket]
  /\ UNCHANGED <<tables, owner>>

------------------------------------------------------------------------------
(* Deadlocks: every waiting transaction waits for the one owner of the row *)
(* it wants next, so a cycle is a set of waiters that the waiters own.     *)

Waits(s) == txn[s].want # <<>> /\ owner[Head(txn[s].want)] \notin {Nobody, s}
BlockedOn(s) == owner[Head(txn[s].want)]
OnCycle(s, among) ==
  \E C \in SUBSET among :
     /\ s \in C
     /\ \A t \in C : Waits(t)
     /\ C = {BlockedOn(t) : t \in C}

\* InnoDB finds the cycle at once and rolls one of its transactions back; the
\* request answers 500 and nothing in the code runs it again.
DeadlockVictim(s) == OnCycle(s, Sessions) /\ Rollback(s)

\* A lost connection, a lock-wait timeout, a crash of the API, five order
\* numbers in a row already taken: anything else that throws out of `em`.
Fail(s) == txn[s] # Idle /\ Rollback(s)

------------------------------------------------------------------------------
(* OrdersService.create                                                    *)

\* The products of S by ascending id.
ById(S) == [i \in 1..Cardinality(S) |->
              CHOOSE p \in S : Cardinality({q \in S : q < p}) = i - 1]

\* lockProducts: one row after the other, in the order of the sorted ids.
SortedRows(S) == [i \in DOMAIN ById(S) |-> ProductRow(ById(S)[i])]

\* resolveLines: a locking scan of the user's range of the cart index.
CartRange(u) == [i \in DOMAIN ById(Products) |-> CartRow(u, ById(Products)[i])]

Creating == {s \in Sessions : txn[s].op \in {"create", "fromCart"}}

\* Bound: a checkout starts only while an unused identifier is left for it.
IdentifierLeft ==
  Cardinality({o \in Orders : orders[o].status = Ledger!NOT_PLACED})
    > Cardinality(Creating)

\* Mutant of BeginCreateItems: the products are locked in the request's order.
BeginCreateUnsorted(s, u, basket) ==
  /\ IdentifierLeft
  /\ \E seq \in [1..Cardinality(Ledger!In(basket)) -> Ledger!In(basket)] :
        /\ {seq[i] : i \in DOMAIN seq} = Ledger!In(basket)
        /\ Begin(s, [Idle EXCEPT !.op = "create", !.user = u, !.basket = basket,
                                 !.want = [i \in DOMAIN seq |-> ProductRow(seq[i])]])

BeginCreateItems(s, u, basket) ==
  /\ IdentifierLeft
  /\ Begin(s, [Idle EXCEPT !.op = "create", !.user = u, !.basket = basket,
                           !.want = SortedRows(Ledger!In(basket))])

\* Mutant of BeginCreateFromCart: the cart lines are read without FOR UPDATE.
BeginCreateUnlockedCart(s, u) ==
  /\ IdentifierLeft
  /\ Begin(s, [Idle EXCEPT !.op = "fromCart", !.user = u, !.stage = "resolve"])

\* resolveLines locks and reads the selected lines before any product.
BeginCreateFromCart(s, u) ==
  /\ IdentifierLeft
  /\ Begin(s, [Idle EXCEPT !.op = "fromCart", !.user = u, !.stage = "resolve",
                           !.want = CartRange(u)])

ResolveCart(s) ==
  /\ Ready(s, "fromCart", "resolve")
  /\ LET lines == Ledger!SelectedLines(txn[s].user)
     IN  IF Ledger!In(lines) = {}
         THEN Rollback(s)
         ELSE Proceed(s, SortedRows(Ledger!In(lines)), lines)

\* The loop over the lines: one that cannot be bought rolls the others back.
CommitCreate(s) ==
  /\ s \in Creating
  /\ Ready(s, txn[s].op, "apply")
  /\ LET lines == txn[s].basket
         u == txn[s].user
     IN  IF \A p \in Ledger!In(lines) : Ledger!Purchasable(p, lines[p])
         THEN /\ \E o \in Orders :
                   /\ orders[o].status = Ledger!NOT_PLACED
                   /\ orders' = [orders EXCEPT ![o] =
                        [status |-> Ledger!PENDING_PAY, user |-> u, qty |-> lines]]
              /\ stock' = [p \in Products |-> stock[p] - lines[p]]
              /\ IF txn[s].op = "fromCart"
                 THEN /\ cart' = [cart EXCEPT ![u] =
                           [p \in Products |-> IF lines[p] > 0 THEN 0 ELSE @[p]]]
                      /\ selected' = [selected EXCEPT ![u] = @ \ Ledger!In(lines)]
                 ELSE UNCHANGED <<cart, selected>>
              /\ UNCHANGED <<sales, onSale>>
              /\ Finish(s)
         ELSE Rollback(s)

------------------------------------------------------------------------------
(* OrdersService.pay, cancel and cancelPendingById                         *)

\* Mutant of BeginPay: the status is read, not tested by a locking update.
BeginPayUnlocked(s, o) ==
  /\ orders[o].status # Ledger!NOT_PLACED
  /\ Begin(s, [Idle EXCEPT !.op = "pay", !.order = o, !.stage = "resolve"])

\* requireOwned reads without a lock: the order exists and is the caller's.
BeginPay(s, o) ==
  /\ orders[o].status # Ledger!NOT_PLACED
  /\ Begin(s, [Idle EXCEPT !.op = "pay", !.order = o, !.stage = "resolve",
                           !.want = <<OrderRow(o)>>])

\* The owner's cancel, or the timeout job's.
BeginCancel(s, o) ==
  /\ orders[o].status # Ledger!NOT_PLACED
  /\ Begin(s, [Idle EXCEPT !.op = "cancel", !.order = o, !.stage = "resolve",
                           !.want = <<OrderRow(o)>>])

\* The conditional update matched a row or it did not; then the items, in the
\* order MySQL returns them: em.find(OrderItem) does not ask for one.
ResolveOrder(s) ==
  /\ txn[s].op \in {"pay", "cancel"}
  /\ Ready(s, txn[s].op, "resolve")
  /\ LET order == orders[txn[s].order]
         items == Ledger!In(order.qty)
     IN  IF order.status = Ledger!PENDING_PAY
         THEN \E seq \in [1..Cardinality(items) -> items] :
                /\ {seq[i] : i \in DOMAIN seq} = items
                /\ Proceed(s, [i \in DOMAIN seq |-> ProductRow(seq[i])], order.qty)
         ELSE Rollback(s)

SetStatus(o, status) == orders' = [orders EXCEPT ![o].status = status]

CommitPay(s) ==
  /\ Ready(s, "pay", "apply")
  /\ SetStatus(txn[s].order, Ledger!PAID)
  /\ sales' = [p \in Products |-> sales[p] + txn[s].basket[p]]
  /\ UNCHANGED <<stock, onSale, cart, selected>>
  /\ Finish(s)

CommitCancel(s) ==
  /\ Ready(s, "cancel", "apply")
  /\ SetStatus(txn[s].order, Ledger!CANCELLED)
  /\ stock' = [p \in Products |-> stock[p] + txn[s].basket[p]]
  /\ UNCHANGED <<sales, onSale, cart, selected>>
  /\ Finish(s)

\* One autocommitted UPDATE each, so the row need only be free.
Advance(o) ==
  /\ owner[OrderRow(o)] = Nobody
  /\ Ledger!MarkAwaitingReceipt(o) \/ Ledger!CompletePaid(o)
  /\ UNCHANGED <<txn, owner>>

------------------------------------------------------------------------------
(* CartService                                                             *)

\* add locks the product first and gives up on one that is off sale ...
BeginAdd(s, u, p, n) ==
  Begin(s, [Idle EXCEPT !.op = "add", !.user = u, !.product = p, !.n = n,
                        !.stage = "resolve", !.want = <<ProductRow(p)>>])

ResolveAdd(s) ==
  /\ Ready(s, "add", "resolve")
  /\ IF txn[s].product \in onSale
     THEN Proceed(s, <<CartRow(txn[s].user, txn[s].product)>>, txn[s].basket)
     ELSE Rollback(s)

\* ... then the line it grows or inserts.
CommitAdd(s) ==
  /\ Ready(s, "add", "apply")
  /\ LET u == txn[s].user
         p == txn[s].product
         next == cart[u][p] + txn[s].n
     IN  IF Ledger!Purchasable(p, next)
         THEN /\ cart' = [cart EXCEPT ![u][p] = next]
              /\ selected' = [selected EXCEPT ![u] = IF cart[u][p] = 0 THEN @ \cup {p} ELSE @]
              /\ UNCHANGED <<stock, sales, onSale, orders>>
              /\ Finish(s)
         ELSE Rollback(s)

\* patch locks the line and, through the join, the product of that line.
BeginPatch(s, u, p, n, on) ==
  Begin(s, [Idle EXCEPT !.op = "patch", !.user = u, !.product = p, !.n = n, !.on = on,
                        !.stage = "resolve", !.want = <<CartRow(u, p)>>])

ResolvePatch(s) ==
  /\ Ready(s, "patch", "resolve")
  /\ IF cart[txn[s].user][txn[s].product] > 0
     THEN Proceed(s, <<ProductRow(txn[s].product)>>, txn[s].basket)
     ELSE Rollback(s)

CommitPatch(s) ==
  /\ Ready(s, "patch", "apply")
  /\ LET u == txn[s].user
         p == txn[s].product
         n == txn[s].n
     IN  IF n # cart[u][p] => Ledger!Patchable(u, p, n)
         THEN /\ cart' = [cart EXCEPT ![u][p] = n]
              /\ selected' = [selected EXCEPT ![u] =
                                IF txn[s].on THEN @ \cup {p} ELSE @ \ {p}]
              /\ UNCHANGED <<stock, sales, onSale, orders>>
              /\ Finish(s)
         ELSE Rollback(s)

\* remove is one DELETE, autocommitted.
Remove(u, p) ==
  /\ owner[CartRow(u, p)] = Nobody
  /\ Ledger!RemoveLine(u, p)
  /\ UNCHANGED <<txn, owner>>

\* products.status changes outside the API, in a statement of its own.
ToggleOnSale(p) ==
  /\ "toggle" \in Ops
  /\ owner[ProductRow(p)] = Nobody
  /\ Ledger!ToggleOnSale(p)
  /\ UNCHANGED <<txn, owner>>

------------------------------------------------------------------------------
Init ==
  /\ Ledger!Init
  /\ txn = [s \in Sessions |-> Idle]
  /\ owner = [r \in Rows |-> Nobody]

Step(s) ==
  \/ Lock(s)
  \/ ResolveCart(s) \/ CommitCreate(s)
  \/ ResolveOrder(s) \/ CommitPay(s) \/ CommitCancel(s)
  \/ ResolveAdd(s) \/ CommitAdd(s)
  \/ ResolvePatch(s) \/ CommitPatch(s)

Request(s) ==
  \/ \E u \in Users :
        \/ BeginCreateFromCart(s, u)
        \/ \E basket \in Ledger!Basket \ {Ledger!EmptyBasket} : BeginCreateItems(s, u, basket)
        \/ \E p \in Products, n \in 1..MaxQty :
              \/ BeginAdd(s, u, p, n)
              \/ \E on \in BOOLEAN : BeginPatch(s, u, p, n, on)
  \/ \E o \in Orders : BeginPay(s, o) \/ BeginCancel(s, o)

Next ==
  \/ \E s \in Sessions : Request(s) \/ Step(s) \/ DeadlockVictim(s) \/ Fail(s)
  \/ \E o \in Orders : Advance(o)
  \/ \E p \in Products : ToggleOnSale(p) \/ \E u \in Users : Remove(u, p)

Spec == Init /\ [][Next]_vars

\* A request in progress keeps taking steps; a lock that keeps becoming free
\* is granted (InnoDB queues the waiters); a cycle always loses a transaction.
Fairness ==
  \A s \in Sessions :
     /\ WF_vars(Step(s))
     /\ SF_vars(Lock(s))
     /\ WF_vars(DeadlockVictim(s))

FairSpec == Spec /\ Fairness

------------------------------------------------------------------------------
(* Properties.                                                             *)

\* The tables, the transactions and the lock table are well formed, and no
\* lock outlives its transaction.
TypeOK ==
  /\ Ledger!TypeOK
  /\ txn \in [Sessions -> Txn]
  /\ owner \in [Rows -> Sessions \cup {Nobody}]
  /\ \A r \in Rows : owner[r] # Nobody => txn[owner[r]] # Idle

\* However the transactions interleave, fail or deadlock, what the tables go
\* through is a run of the atomic operations of OrderLedger.
Serializable == Ledger!Spec

\* Sorting the product ids does what it is for: checkouts never deadlock among
\* themselves, from the cart or not; a cycle needs a payment, a cancellation
\* or a cart change in it.
CheckoutsDoNotDeadlock == \A s \in Creating : ~OnCycle(s, Creating)

\* Every request is answered, deadlocks included.
RequestsEnd == \A s \in Sessions : (txn[s] # Idle) ~> (txn[s] = Idle)
==============================================================================
