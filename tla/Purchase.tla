------------------------------- MODULE Purchase -------------------------------
(***************************************************************************)
(* What the shop promises its buyers, and the screens on the way to an     *)
(* order: cart, checkout, the order itself, the addresses.                 *)
(*                                                                         *)
(* Each screen comes with as much of the server as it talks to, since what *)
(* matters of it is how requests overlap and what the server does between  *)
(* them.  The screens are not mounted together with one another's state,   *)
(* and so it is enough, as in Parts, that one `part` moves.                *)
(***************************************************************************)
EXTENDS OrderLedger

CONSTANTS
  Requests,     \* requests that can be under way at the same time
  None,
  \* the carts of the cart screen and of the checkout
  Lines, Stock, MaxGivenUp, MaxChanges,
  \* the checkout
  Skus, AddressIds, MaxVersion, MaxLost,
  \* the address screens
  Ids, Texts

ASSUME ChangesCounted == MaxChanges \in Nat
ASSUME LinesOrdered == Skus \subseteq Lines /\ Lines \subseteq Int
ASSUME NoneIsNothing == None \notin Lines \cup AddressIds
ASSUME ShelvesFilled == Stock \in [Lines -> Nat]
ASSUME NewIsNoRow == Ids \subseteq Int \ {0}
ASSUME NoneIsNoOperation ==
  None \notin {"load", "quantity", "selected", "delete", "all", "submit", "pay", "cancel",
               "default", "form", "save"}
ASSUME NoneIsNoForm == None \notin [id : Ids \cup {0}, form : {"reading", "ready", "missing"}]

VARIABLES
  part,
  \* CartScreen
  server, shownCart, cartCalls, busy, cartSuspect, changes,
  \* Checkout
  sku, shop, version, form, chosen, loading, failed, submitting, dialog, open, formCalls,
  placed, lost,
  \* OrderScreen
  status, order, busyAction, confirming, orderCalls, moved, orderSuspect,
  \* AddressScreens
  book, list, busyId, editing, saving, addressCalls, meant, addressSuspect, careless

CartPage == INSTANCE CartScreen
  WITH CART_MAX_QUANTITY <- MaxQty, Calls <- Requests, calls <- cartCalls, cart <- shownCart,
       suspect <- cartSuspect
CheckoutPage == INSTANCE Checkout WITH Calls <- Requests, calls <- formCalls
ASSUME NoneIsNoCheckoutForm ==
  None \notin [book : SUBSET AddressIds, shop : CheckoutPage!Shop, at : Nat]
OrderPage == INSTANCE OrderScreen
  WITH Calls <- Requests, calls <- orderCalls, suspect <- orderSuspect
AddressPages == INSTANCE AddressScreens
  WITH Calls <- Requests, calls <- addressCalls, suspect <- addressSuspect

cartPageVars == <<server, shownCart, cartCalls, busy, cartSuspect, changes>>
checkoutVars == <<sku, shop, version, form, chosen, loading, failed, submitting, dialog, open,
                  formCalls, placed, lost>>
orderPageVars == <<status, order, busyAction, confirming, orderCalls, moved, orderSuspect>>
addressPageVars == <<book, list, busyId, editing, saving, addressCalls, meant,
                     addressSuspect, careless>>

purchaseVars == <<part, vars, cartPageVars, checkoutVars, orderPageVars, addressPageVars>>

\* Where a part can start in several ways, one of them will do while it stands still.
PurchaseInit ==
  /\ part \in {"shop", "cart", "checkout", "order", "addresses"}
  /\ Init /\ CartPage!Init /\ CheckoutPage!Init /\ OrderPage!Init /\ AddressPages!Init
  /\ part # "shop" => onSale = Products
  /\ part # "cart" => \A l \in Lines : server[l].selected
  /\ part # "checkout" => sku = None /\ shop = CHOOSE s \in CheckoutPage!Shops : TRUE
  /\ part # "order" => status = 0
  /\ part # "addresses" => \A i \in Ids : book[i] = None

PurchaseNext ==
  \/ /\ part = "shop" /\ Next
     /\ UNCHANGED <<part, cartPageVars, checkoutVars, orderPageVars, addressPageVars>>
  \/ /\ part = "cart" /\ CartPage!Next
     /\ UNCHANGED <<part, vars, checkoutVars, orderPageVars, addressPageVars>>
  \/ /\ part = "checkout" /\ CheckoutPage!Next
     /\ UNCHANGED <<part, vars, cartPageVars, orderPageVars, addressPageVars>>
  \/ /\ part = "order" /\ OrderPage!Next
     /\ UNCHANGED <<part, vars, cartPageVars, checkoutVars, addressPageVars>>
  \/ /\ part = "addresses" /\ AddressPages!Next
     /\ UNCHANGED <<part, vars, cartPageVars, checkoutVars, orderPageVars>>

PurchaseSpec == PurchaseInit /\ [][PurchaseNext]_purchaseVars

------------------------------------------------------------------------------
(* Properties; StockConserved, SalesConserved and LinesGrowWithinStock are  *)
(* those of OrderLedger.                                                   *)

\* A part that stands still is as it started: only the one that moves needs a look.
PurchaseTypeOK ==
  /\ part = "shop" => TypeOK
  /\ part = "cart" => CartPage!TypeOK
  /\ part = "checkout" => CheckoutPage!TypeOK
  /\ part = "order" => OrderPage!TypeOK
  /\ part = "addresses" => AddressPages!TypeOK

\* See CartScreen, OrderScreen and AddressScreens: what is busy stays so only as long as an
\* operation on it is under way.
BusyEnds ==
  /\ part = "cart" => CartPage!BusyEnds
  /\ part = "order" => OrderPage!BusyEnds
  /\ part = "addresses" => AddressPages!BusyEnds

\* See CartScreen, OrderScreen and AddressScreens: at rest, the screen shows what is in the
\* database, or where an order that others have moved has come from; unless requests
\* overlapped, an answer was lost, or a request given up was carried out late.
ScreenAgrees ==
  /\ part = "cart" => CartPage!ScreenAgrees
  /\ part = "order" => OrderPage!ScreenAgrees
  /\ part = "addresses" => AddressPages!ScreenAgrees

\* See AddressScreens: what was saved, and the user was told so, stays saved.
EditsKept == part = "addresses" => AddressPages!EditsKept

\* See Checkout: one use of the screen places one order, and one more for every answer lost;
\* and an order from a form that is still true charges what the form lists.
OrderedAsShown == part = "checkout" => CheckoutPage!CreatedOnce /\ CheckoutPage!ChargedAsShown

\* See Checkout: when nothing has changed, an order is refused only for a line not listed.
RefusedForAReason == CheckoutPage!RefusedForAReason
==============================================================================
