------------------------------- MODULE Checkout -------------------------------
(***************************************************************************)
(* The checkout screen of one device and what the server makes of its      *)
(* order.                                                                  *)
(*                                                                         *)
(* The form is put together from two reads, of the addresses and of the    *)
(* cart or the product; every focus and every new user object (a token     *)
(* refresh makes one) reads both again, and nothing tells an old read from *)
(* a new one.  The request names the address and either "the cart" or a    *)
(* product and a quantity, so that the server takes what is selected then. *)
(* Other devices and other buyers change the shop in the meantime.         *)
(***************************************************************************)
EXTENDS Integers, Sequences, FiniteSets

CONSTANTS
  Lines,        \* products, each with at most one line in the cart
  Stock,        \* units on the shelf when the user starts
  Skus,         \* those of them that are bought without the cart
  MaxQty,       \* CART_MAX_QUANTITY
  AddressIds,
  Calls,        \* requests that can be under way at the same time
  MaxVersion,   \* bound: the shop changes elsewhere up to this version
  MaxLost,      \* bound: orders the phone gives up waiting for
  None          \* no row, no answer, no address

VARIABLES
  sku,          \* route.params: the product to buy now (one unit), None for the cart
  shop,         \* the database: cart rows, stock, products on sale, addresses
  version,      \* grows with every change of the shop
  form,         \* what the screen shows; None before the first answer
  chosen,       \* selectedAddressId
  loading, failed, submitting, dialog, open,
  calls,        \* requests under way
  placed,       \* the orders the server made of this screen's requests, and whether they
                \* are what the form listed, if it was still true
  lost          \* requests for an order whose answer the phone did not wait for

vars == <<sku, shop, version, form, chosen, loading, failed, submitting, dialog, open,
          calls, placed, lost>>
screen == <<form, chosen, loading, failed, submitting, dialog, open>>

Row == [selected : BOOLEAN, quantity : 1..MaxQty]
Shop == [cart : [Lines -> Row \cup {None}], stock : [Lines -> Nat],
         onSale : SUBSET Lines, book : SUBSET AddressIds]

Free == [op |-> None, stage |-> "free", book |-> None, seen |-> None, at |-> 0,
         address |-> None, shown |-> None]

------------------------------------------------------------------------------
(* Lines and baskets: quantities of some of the lines.                     *)

\* Mutant of Invalid: only the stock counts.
InvalidBySold(s, l) == s.stock[l] = 0

\* isCartLineInvalid, and the screen's own look at the stock.
Invalid(s, l) == l \notin s.onSale \/ s.stock[l] = 0

\* Mutant of Taken: the selection is not looked at.
TakenAll(s) ==
  IF sku = None THEN {l \in Lines : s.cart[l] # None} ELSE {sku}

\* resolveLines
Taken(s) ==
  IF sku = None THEN {l \in Lines : s.cart[l] # None /\ s.cart[l].selected}
                     ELSE {sku}

Basket(s, ls) == [l \in ls |-> IF sku = None THEN s.cart[l].quantity ELSE 1]

Selected(s) ==
  IF sku = None THEN {l \in Lines : s.cart[l] # None /\ s.cart[l].selected}
                     ELSE {sku}

\* cartItems, and what selectedAmount adds up; or the product.
Listed(s) == {l \in Selected(s) : sku = None => ~Invalid(s, l)}

CanSubmit ==
  /\ chosen # None
  /\ \E l \in Listed(form.shop) : ~Invalid(form.shop, l)

\* The form is hidden while it is read and when that failed.
Visible == open /\ ~loading /\ ~failed

------------------------------------------------------------------------------
(* Reading.                                                                *)

\* The screen gets the focus, the user object is a new one, or a failed read is retried.
\* It hides the form until a read succeeds, which replaces it: what it showed is forgotten
\* here already, and so it is when a read fails.
Load(c) ==
  /\ open /\ calls[c] = Free
  /\ calls' = [calls EXCEPT ![c] = [Free EXCEPT !.op = "load", !.stage = "sent"]]
  /\ loading' = TRUE /\ failed' = FALSE /\ form' = None
  /\ UNCHANGED <<sku, shop, version, chosen, submitting, dialog, open, placed, lost>>

\* The two reads, in either order; the older one dates the form.
ReadAddresses(c) ==
  /\ calls[c].op = "load" /\ calls[c].book = None
  /\ calls' = [calls EXCEPT ![c].book = shop.book,
                            ![c].at = IF calls[c].seen = None THEN version ELSE @]
  /\ UNCHANGED <<sku, shop, version, screen, placed, lost>>

ReadSummary(c) ==
  /\ calls[c].op = "load" /\ calls[c].seen = None
  /\ calls' = [calls EXCEPT ![c].seen = [shop EXCEPT !.book = {}],
                            ![c].at = IF calls[c].book = None THEN version ELSE @]
  /\ UNCHANGED <<sku, shop, version, screen, placed, lost>>

\* The default address, or the first one: the same one as long as the list is the same.
Preferred(book) == IF book = {} THEN None ELSE CHOOSE a \in book : TRUE

\* The address stays chosen while it is there.
Loaded(c) ==
  LET read == calls[c]
  IN  /\ read.op = "load" /\ read.book # None /\ read.seen # None
      /\ calls' = [calls EXCEPT ![c] = Free]
      /\ loading' = FALSE
      /\ form' = [book |-> read.book, shop |-> read.seen, at |-> read.at]
      /\ chosen' = IF chosen \in read.book THEN chosen ELSE Preferred(read.book)
      /\ UNCHANGED <<sku, shop, version, failed, submitting, dialog, open, placed, lost>>

\* Promise.all ends with the first read that fails.
LoadFails(c) ==
  /\ calls[c].op = "load"
  /\ calls' = [calls EXCEPT ![c] = Free]
  /\ loading' = FALSE /\ failed' = TRUE /\ form' = None
  /\ UNCHANGED <<sku, shop, version, chosen, submitting, dialog, open, placed, lost>>

Choose(a) ==
  /\ Visible /\ ~dialog /\ a \in form.book /\ a # chosen
  /\ chosen' = a
  /\ UNCHANGED <<sku, shop, version, form, loading, failed, submitting, dialog, open,
                 calls, placed, lost>>

------------------------------------------------------------------------------
(* Ordering.                                                               *)

Send(c) ==
  /\ Visible /\ ~dialog /\ CanSubmit /\ calls[c] = Free
  /\ submitting' = TRUE
  /\ calls' = [calls EXCEPT ![c] =
       [Free EXCEPT !.op = "submit", !.stage = "sent", !.at = form.at, !.address = chosen,
                    !.shown = Basket(form.shop, Listed(form.shop))]]
  /\ UNCHANGED <<sku, shop, version, form, chosen, loading, failed, dialog, open,
                 placed, lost>>

\* Mutant of Submit: two taps before the next render.
SubmitAgain(c) == Send(c)

\* submittingRef is set before anything is awaited.
Submit(c) == ~submitting /\ Send(c)

\* The first line, in the order of the cart, that cannot be bought.
Unbuyable(s, l) == l \notin s.onSale \/ Basket(s, Taken(s))[l] > s.stock[l]

Verdict(address) ==
  LET bad == {l \in Taken(shop) : Unbuyable(shop, l)}
      first == CHOOSE l \in bad : \A k \in bad : l <= k
  IN  IF address \notin shop.book THEN "NOT_FOUND"
      ELSE IF Taken(shop) = {} THEN "VALIDATION"
      ELSE IF bad = {} THEN "created"
      ELSE IF first \notin shop.onSale THEN "NOT_FOUND" ELSE "CONFLICT_STOCK"

\* A request the phone no longer waits for is forgotten when the server has ended it.
Answer(c, stage) ==
  calls' = [calls EXCEPT ![c] = IF @.stage = "forsaken" THEN Free ELSE [@ EXCEPT !.stage = stage]]

Asked(c) == calls[c].op = "submit" /\ calls[c].stage \in {"sent", "forsaken"}

\* OrdersService.create; the lines bought leave the cart.
Create(c) ==
  /\ Asked(c) /\ Verdict(calls[c].address) = "created"
  /\ LET basket == Basket(shop, Taken(shop))
     IN  /\ placed' = Append(placed,
              [basket |-> basket, asShown |-> calls[c].at = version => basket = calls[c].shown])
         /\ shop' = [shop EXCEPT
              !.stock = [l \in Lines |-> IF l \in DOMAIN basket THEN @[l] - basket[l] ELSE @[l]],
              !.cart = [l \in Lines |-> IF sku = None /\ l \in DOMAIN basket
                                        THEN None ELSE @[l]]]
  /\ version' = version + 1
  /\ Answer(c, "created")
  /\ UNCHANGED <<sku, screen, lost>>

\* An exception rolls the transaction back.
Refuse(c) ==
  /\ Asked(c) /\ Verdict(calls[c].address) # "created"
  /\ Answer(c, Verdict(calls[c].address))
  /\ UNCHANGED <<sku, shop, version, screen, placed, lost>>

\* navigation.replace: the screen is gone.
Created(c) ==
  /\ calls[c].stage = "created"
  /\ calls' = [calls EXCEPT ![c] = Free]
  /\ open' = FALSE /\ submitting' = FALSE
  /\ UNCHANGED <<sku, shop, version, form, chosen, loading, failed, dialog, placed, lost>>

\* A toast, or the dialog when the stock is short; neither reads the form again.
Refused(c) ==
  /\ calls[c].stage \in {"NOT_FOUND", "VALIDATION", "CONFLICT_STOCK"}
  /\ calls' = [calls EXCEPT ![c] = Free]
  /\ dialog' = (dialog \/ calls[c].stage = "CONFLICT_STOCK")
  /\ submitting' = FALSE
  /\ UNCHANGED <<sku, shop, version, form, chosen, loading, failed, open, placed, lost>>

\* The request times out or the network fails; the server may still be at work.
GiveUp(c) ==
  /\ calls[c].op = "submit" /\ calls[c].stage # "forsaken" /\ lost < MaxLost
  /\ calls' = [calls EXCEPT ![c] = IF @.stage = "sent" THEN [@ EXCEPT !.stage = "forsaken"] ELSE Free]
  /\ submitting' = FALSE
  /\ lost' = lost + 1
  /\ UNCHANGED <<sku, shop, version, form, chosen, loading, failed, dialog, open, placed>>

\* A request given up never reached the server.
Vanish(c) ==
  /\ calls[c].stage = "forsaken"
  /\ calls' = [calls EXCEPT ![c] = Free]
  /\ UNCHANGED <<sku, shop, version, screen, placed, lost>>

Dismiss ==
  /\ dialog /\ dialog' = FALSE
  /\ UNCHANGED <<sku, shop, version, form, chosen, loading, failed, submitting, open, calls,
                 placed, lost>>

------------------------------------------------------------------------------
(* Other devices of the user, other buyers, and the shop.                  *)

Edited ==
  {[shop EXCEPT !.cart[l].selected = ~@] : l \in {k \in Lines : shop.cart[k] # None}}
  \cup {[shop EXCEPT !.cart[l].quantity = n] :
          l \in {k \in Lines : shop.cart[k] # None}, n \in 1..MaxQty}
  \cup {[shop EXCEPT !.stock[l] = 0] : l \in Lines}
  \cup {[shop EXCEPT !.onSale = @ \ {l}] : l \in Lines}
  \cup {[shop EXCEPT !.book = @ \ {a}] : a \in AddressIds}

Elsewhere ==
  /\ version < MaxVersion
  /\ shop' \in Edited \ {shop}
  /\ version' = version + 1
  /\ UNCHANGED <<sku, screen, calls, placed, lost>>

\* The cart holds every line; whatever is selected and on sale.
Shops == [cart : [Lines -> [selected : BOOLEAN, quantity : {1}]],
          stock : {Stock}, onSale : SUBSET Lines, book : {AddressIds}]

Init ==
  /\ sku \in Skus \cup {None} /\ shop \in Shops /\ version = 0
  /\ form = None /\ chosen = None
  /\ loading = TRUE /\ failed = FALSE /\ submitting = FALSE /\ dialog = FALSE /\ open = TRUE
  /\ calls = [c \in Calls |-> Free]
  /\ placed = <<>> /\ lost = 0

\* Another checkout of the same user, when all of this one is over.
Again ==
  /\ ~open /\ \A c \in Calls : calls[c] = Free
  /\ sku' \in Skus \cup {None} /\ shop' \in Shops /\ version' = 0
  /\ form' = None /\ chosen' = None /\ loading' = TRUE /\ failed' = FALSE
  /\ open' = TRUE /\ placed' = <<>> /\ lost' = 0
  /\ UNCHANGED <<submitting, dialog, calls>>

Next ==
  \/ \E c \in Calls :
        \/ Load(c) \/ ReadAddresses(c) \/ ReadSummary(c) \/ Loaded(c) \/ LoadFails(c)
        \/ Submit(c) \/ Create(c) \/ Refuse(c) \/ Created(c) \/ Refused(c)
        \/ GiveUp(c) \/ Vanish(c)
  \/ \E a \in AddressIds : Choose(a)
  \/ Dismiss
  \/ Elsewhere
  \/ Again

Spec == Init /\ [][Next]_vars

------------------------------------------------------------------------------
(* Properties.                                                             *)

\* The screen never shows a form it has not read.
TypeOK ==
  /\ sku \in Skus \cup {None}
  /\ shop \in Shop
  /\ Visible => form # None /\ chosen \in form.book \cup {None}
  /\ \A c \in Calls : calls[c].address \in AddressIds \cup {None}

\* However often the button is tapped and the form is read again, one use of the screen
\* places one order, and one more for every answer the phone did not wait for.
CreatedOnce == Len(placed) <= 1 + lost

\* An order from a form that is still true charges the lines the form listed; and from the
\* cart no line is bought twice, not even when an answer is lost.
ChargedAsShown ==
  /\ \A i \in DOMAIN placed : placed[i].asShown
  /\ sku = None =>
       \A i, j \in DOMAIN placed : i # j => DOMAIN placed[i].basket \cap DOMAIN placed[j].basket = {}

\* When nothing has changed since the form was read, the button's promise is broken only
\* because the cart has a selected line the form does not list (it is invalid), or because
\* the form lists more units than the shelf holds.
RefusedForAReason ==
  [][\A c \in Calls :
       (calls[c].stage = "sent" /\ calls[c].op = "submit" /\ calls[c].at = version
          /\ calls'[c].stage \in {"NOT_FOUND", "VALIDATION", "CONFLICT_STOCK"})
       => \/ DOMAIN calls[c].shown # Taken(shop)
          \/ \E l \in DOMAIN calls[c].shown : calls[c].shown[l] > shop.stock[l]]_vars
==============================================================================
