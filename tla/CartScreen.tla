----------------------------- MODULE CartScreen -----------------------------
(***************************************************************************)
(* The cart screen (CartScreen, QtyStepper) of one device.                 *)
(*                                                                         *)
(* Every answer carries the whole cart and replaces what is shown, in the  *)
(* order the answers arrive; "select all" sends one request per line and   *)
(* reconciles with the server when all of them have ended, one way or the  *)
(* other.  A line is busy while the screen thinks it is being changed.     *)
(*                                                                         *)
(* The phone gives a request up after 15 seconds.  One that has reached    *)
(* the server is carried out all the same, whenever its turn comes.        *)
(***************************************************************************)
EXTENDS Integers, FiniteSets

CONSTANTS
  Lines,        \* cart items
  Stock,        \* Stock[l]: what is left of the product of a line; 0 makes the line invalid
  CART_MAX_QUANTITY,
  Calls,        \* operations that can be under way at the same time
  MaxGivenUp,   \* bound: requests given up that can be waiting at the server
  MaxChanges,   \* bound: how often the user changes something
  None

VARIABLES
  server,       \* the cart in the database
  cart,         \* what is shown; None before the first answer
  calls,        \* operations under way
  busy,         \* busyIds
  suspect,      \* the screen may be behind: operations overlapped, an answer was lost, or
                \* a request was carried out late
  changes       \* changes the user has begun

vars == <<server, cart, calls, busy, suspect, changes>>

Line == [quantity : 1..CART_MAX_QUANTITY, selected : BOOLEAN]
Carts == [Lines -> Line \cup {None}]
Of(c) == {l \in Lines : c[l] # None}

\* todo: the requests that are waited for; lost: those given up that may still be carried out.
Free == [op |-> None, stage |-> "free", lines |-> {}, todo |-> {}, lost |-> {}, body |-> None,
         answer |-> None]
Under == {c \in Calls : calls[c] # Free}

------------------------------------------------------------------------------
(* What is shown.                                                          *)

\* The screen knows a cart only after an answer.
Shown == IF cart = None THEN {} ELSE Of(cart)
Valid == {l \in Shown : Stock[l] > 0}
AllSelected == Valid # {} /\ \A l \in Valid : cart[l].selected

\* What the stepper's buttons and its text field, which clamps, can ask for.
Quantities(l) ==
  {n \in 1..CART_MAX_QUANTITY : n <= Stock[l] /\ n # cart[l].quantity}

------------------------------------------------------------------------------
(* Operations.                                                             *)

Start(c, op, lines, body) ==
  /\ calls[c] = Free
  /\ calls' = [calls EXCEPT ![c] = [Free EXCEPT !.op = op, !.stage = "sent", !.lines = lines,
                                                 !.todo = lines, !.body = body]]
  /\ busy' = busy \cup lines
  /\ suspect' = (Under # {} \/ (suspect /\ op \notin {"load", "all"}))
  /\ changes' = IF op = "load" THEN changes ELSE changes + 1
  /\ changes' \in 0..MaxChanges
  /\ UNCHANGED <<server, cart>>

\* The screen gets the focus, the list is pulled down, or a failed load is retried.
Load(c) == Start(c, "load", {}, None)

\* The stepper of a line that is busy takes no taps, but its text field still commits.
ChangeQuantity(c) ==
  \E l \in Valid : \E n \in Quantities(l) : Start(c, "quantity", {l}, n)

ToggleLine(c) ==
  \E l \in Valid \ busy : Start(c, "selected", {l}, ~cart[l].selected)

Delete(c) == \E l \in Shown \ busy : Start(c, "delete", {l}, None)

\* Nothing keeps this button from being used while lines are busy.
ToggleAll(c) ==
  LET changed == {l \in Valid : cart[l].selected = AllSelected}
  IN  changed # {} /\ Start(c, "all", changed, ~AllSelected)

\* What CartService makes of a request.
Served(c, l) ==
  CASE calls[c].op = "delete"   -> [server EXCEPT ![l] = None]
    [] calls[c].op = "quantity" -> [server EXCEPT ![l].quantity = calls[c].body]
    [] OTHER                    -> [server EXCEPT ![l].selected = calls[c].body]

\* The transaction of a request.
Serve(c, l) ==
  /\ l \in calls[c].todo /\ server[l] # None
  /\ server' = Served(c, l)
  /\ calls' = [calls EXCEPT ![c].todo = @ \ {l}]
  /\ UNCHANGED <<cart, busy, suspect, changes>>

\* What of the requests that fail may still be carried out: those that were given up.
GivenUp == UNION {{d} \X calls[d].lost : d \in Calls}
Lost(lines) ==
  {given \in {{}, lines} : Cardinality(GivenUp) + Cardinality(given) <= MaxGivenUp}

\* One of the requests of "select all" is rejected or never arrives, or is given up.
Reject(c, l) ==
  /\ calls[c].op = "all" /\ l \in calls[c].todo
  /\ \E given \in Lost({l}) :
       calls' = [calls EXCEPT ![c].todo = @ \ {l}, ![c].lost = @ \cup given]
  /\ UNCHANGED <<server, cart, busy, suspect, changes>>

\* Mutant of Settled: one that fails ends the wait for the others.
SettledAny(c) == TRUE

\* Promise.allSettled; and the server lists the cart after the transaction.
Settled(c) == calls[c].todo = {}

\* CartService.list, for the answer to a request; "select all" asks for it once more.
List(c) ==
  /\ calls[c].stage = "sent" /\ Settled(c)
  /\ calls' = [calls EXCEPT ![c].stage = "served", ![c].answer = server]
  /\ UNCHANGED <<server, cart, busy, suspect, changes>>

\* The operation is over for the screen; what it has given up may still be carried out.
Forsaken(c, lost) ==
  IF lost = {} THEN Free
  ELSE [Free EXCEPT !.op = calls[c].op, !.stage = "forsaken", !.lost = lost, !.body = calls[c].body]

Fails(c) ==
  /\ calls[c].stage \in {"sent", "served"} /\ (calls[c].op = "all" => Settled(c))
  /\ \E given \in Lost(calls[c].todo) :
       calls' = [calls EXCEPT ![c] = Forsaken(c, @.lost \cup given)]
  /\ suspect' = (suspect \/ calls[c].todo = {})
  /\ UNCHANGED <<server, cart, changes>>

\* Mutant of Fail: the line stays busy.
FailBusy(c) == Fails(c) /\ UNCHANGED busy

\* The request is rejected or does not arrive, or it or its answer is given up.
Fail(c) == Fails(c) /\ busy' = busy \ calls[c].lines

\* applyCart
Receive(c) ==
  /\ calls[c].stage = "served"
  /\ cart' = calls[c].answer
  /\ calls' = [calls EXCEPT ![c] = Forsaken(c, @.lost)]
  /\ busy' = busy \ calls[c].lines
  /\ UNCHANGED <<server, suspect, changes>>

Without(c, l) ==
  IF calls[c].stage = "forsaken"
  THEN calls' = [calls EXCEPT ![c] = Forsaken(c, @.lost \ {l})]
  ELSE calls' = [calls EXCEPT ![c].lost = @ \ {l}]

\* The transaction of a request that was given up.  Only a "select all" that still waits for
\* others will ask for the cart after it.
ServeLost(c, l) ==
  /\ l \in calls[c].lost /\ server[l] # None
  /\ server' = Served(c, l)
  /\ Without(c, l)
  /\ suspect' = (suspect \/ calls[c].stage # "sent")
  /\ UNCHANGED <<cart, busy, changes>>

\* It is refused, or did not arrive.
Vanish(c, l) ==
  /\ l \in calls[c].lost
  /\ Without(c, l)
  /\ UNCHANGED <<server, cart, busy, suspect, changes>>

\* A user with something in the cart opens the screen; emptier carts come of deleting.
Init ==
  /\ server \in [Lines -> [quantity : {1}, selected : BOOLEAN]]
  /\ cart = None
  /\ calls = [c \in Calls |-> Free]
  /\ busy = {} /\ suspect = TRUE /\ changes = 0

Next ==
  \E c \in Calls :
     \/ Load(c)
     \/ ChangeQuantity(c) \/ ToggleLine(c) \/ Delete(c) \/ ToggleAll(c)
     \/ \E l \in Lines : Serve(c, l) \/ Reject(c, l) \/ ServeLost(c, l) \/ Vanish(c, l)
     \/ List(c)
     \/ Receive(c) \/ Fail(c)

Spec == Init /\ [][Next]_vars

------------------------------------------------------------------------------
(* Properties.                                                             *)

TypeOK ==
  /\ server \in Carts /\ cart \in Carts \cup {None}
  /\ \A c \in Calls : /\ calls[c].todo \subseteq calls[c].lines /\ calls[c].lines \subseteq Lines
                      /\ calls[c].lost \subseteq Lines
                      /\ calls[c].answer \in Carts \cup {None}
  /\ busy \subseteq Lines /\ suspect \in BOOLEAN /\ changes \in 0..MaxChanges

\* A line is busy, and the way to the checkout closed, only as long as an operation on it
\* is under way, whatever overlaps, fails or is answered out of order.
BusyEnds == \A l \in busy : \E c \in Under : l \in calls[c].lines

\* When operations do not overlap and no single answer was lost, the screen shows what is
\* in the database once it has come to rest; after "select all" also when some of its
\* requests failed, or were given up.  Except after a request that was given up and then
\* carried out behind the last look at the cart, until the next one.
ScreenAgrees == Under = {} /\ ~suspect => cart = server
==============================================================================
