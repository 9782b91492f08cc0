--------------------------- MODULE Purchase_proofs ---------------------------
(***************************************************************************)
(* Proofs about the shop as its buyers see it, for any number of lines,    *)
(* addresses and overlapping requests: the screens end up with what the    *)
(* database has, and one use of the checkout is one order.  As in Parts,   *)
(* each screen has an invariant of its own actions, and PurchaseNext is    *)
(* taken apart once, at the end.                                           *)
(***************************************************************************)
EXTENDS Purchase, OrderLedger_proofs, Sequences, FiniteSetTheorems, TLAPS

------------------------------------------------------------------------------
(* The cart screen (CartScreen.tsx).  Beside the shape of its requests:    *)
(* whoever has claimed a line is under way; and as long as nothing has     *)
(* overlapped or got lost, the only request under way either brings the    *)
(* cart of the database, or has not changed it yet; nor has one that was   *)
(* given up.                                                               *)

OneLine == {"quantity", "selected", "delete"}
Bodies == (1..MaxQty) \cup BOOLEAN \cup {None}

CartCall ==
  [op : OneLine \cup {"load", "all", None}, stage : {"free", "sent", "served", "forsaken"},
   lines : SUBSET Lines, todo : SUBSET Lines, lost : SUBSET Lines, body : Bodies,
   answer : CartPage!Carts \cup {None}]

CartUnder == {c \in Requests : cartCalls[c].op # None}

\* What an operation asks for.
Fits(op, lines, body) ==
  /\ op = "load" => lines = {}
  /\ op \in OneLine => \E l \in Lines : lines = {l}
  /\ op = "quantity" => body \in 1..MaxQty
  /\ op \in {"selected", "all"} => body \in BOOLEAN

\* Only "select all" goes on after one of its requests is given up.
CartCallOK(call) ==
  /\ call \in CartCall
  /\ call.op = None => call = CartPage!Free
  /\ Fits(call.op, call.lines \cup call.lost, call.body)
  /\ call.todo \subseteq call.lines
  /\ call.stage = "served" => call.todo = {}
  /\ call.stage = "forsaken" => call.lines = {}
  /\ call.stage # "forsaken" /\ call.lost # {} => call.op = "all"

CartTyped ==
  /\ server \in CartPage!Carts /\ shownCart \in CartPage!Carts \cup {None}
  /\ DOMAIN cartCalls = Requests
  /\ \A c \in Requests : CartCallOK(cartCalls[c])
  /\ busy \in SUBSET Lines /\ cartSuspect \in BOOLEAN /\ changes \in 0..MaxChanges

Claimed == \A l \in busy : \E c \in Requests : l \in cartCalls[c].lines

CartHonest ==
  ~cartSuspect =>
    /\ \A c, d \in CartUnder : c = d
    /\ CartUnder = {} => shownCart = server
    /\ \A c \in CartUnder :
         /\ cartCalls[c].stage = "served" => cartCalls[c].answer = server
         /\ cartCalls[c].op \in OneLine /\ cartCalls[c].todo # {} => shownCart = server
         /\ cartCalls[c].stage = "forsaken" => shownCart = server

CartInductive == CartTyped /\ Claimed /\ CartHonest

LEMMA CartFree ==
  /\ CartPage!Free.op = None /\ CartPage!Free.stage = "free" /\ CartPage!Free.lines = {}
  /\ CartPage!Free.todo = {} /\ CartPage!Free.lost = {}
  /\ CartPage!Free.body = None /\ CartPage!Free.answer = None
  /\ CartCallOK(CartPage!Free)
BY NoneIsNoOperation DEF CartPage!Free, CartCallOK, CartCall, Fits, OneLine, Bodies

LEMMA CartUnderIs == CartTyped => CartPage!Under = CartUnder
BY CartFree DEF CartPage!Under, CartUnder, CartTyped, CartCallOK

LEMMA CartImplies ==
  CartInductive => CartPage!TypeOK /\ CartPage!BusyEnds /\ CartPage!ScreenAgrees
<1> SUFFICES ASSUME CartInductive
             PROVE  CartPage!TypeOK /\ CartPage!BusyEnds /\ CartPage!ScreenAgrees
  OBVIOUS
<1>1. CartPage!TypeOK
  BY DEF CartInductive, CartTyped, CartCallOK, CartCall, CartPage!TypeOK
<1>2. CartPage!BusyEnds
  BY CartFree DEF CartInductive, Claimed, CartPage!BusyEnds, CartPage!Under
<1>3. CartPage!ScreenAgrees
  BY CartUnderIs DEF CartInductive, CartHonest, CartPage!ScreenAgrees
<1> QED
  BY <1>1, <1>2, <1>3

LEMMA CartInitially == CartPage!Init => CartInductive
<1> SUFFICES ASSUME CartPage!Init PROVE CartInductive
  OBVIOUS
<1>1. /\ DOMAIN cartCalls = Requests /\ \A c \in Requests : cartCalls[c] = CartPage!Free
      /\ shownCart = None /\ busy = {} /\ cartSuspect = TRUE /\ changes \in 0..MaxChanges
  BY ChangesCounted DEF CartPage!Init
<1>2. server \in CartPage!Carts
  BY MaxQtyPositive DEF CartPage!Init, CartPage!Carts, CartPage!Line
<1> QED
  BY <1>1, <1>2, CartFree DEF CartInductive, CartTyped, Claimed, CartHonest

\* One call changes, and what is busy is claimed as before.
LEMMA CartCallMoves ==
  ASSUME CartInductive, NEW c \in Requests, NEW call, CartCallOK(call),
         cartCalls' = [cartCalls EXCEPT ![c] = call],
         server' \in CartPage!Carts, shownCart' \in CartPage!Carts \cup {None},
         cartSuspect' \in BOOLEAN, changes' \in 0..MaxChanges,
         \/ busy' = busy /\ call.lines = cartCalls[c].lines
         \/ busy' = busy \cup call.lines /\ cartCalls[c].lines = {}
         \/ busy' = busy \ cartCalls[c].lines
  PROVE  /\ CartTyped' /\ Claimed'
         /\ cartCalls'[c] = call
         /\ \A d \in Requests \ {c} : cartCalls'[d] = cartCalls[d]
<1>1. /\ DOMAIN cartCalls' = Requests /\ cartCalls'[c] = call
      /\ \A d \in Requests \ {c} : cartCalls'[d] = cartCalls[d]
  BY DEF CartInductive, CartTyped
<1>2. busy' \in SUBSET Lines
  BY DEF CartInductive, CartTyped, CartCallOK, CartCall
<1>3. CartTyped'
  BY <1>1, <1>2 DEF CartInductive, CartTyped
<1>4. Claimed'
  BY <1>1 DEF CartInductive, Claimed
<1> QED
  BY <1>1, <1>3, <1>4

\* A new operation claims the lines it makes busy.
LEMMA CartStartKeeps ==
  ASSUME CartInductive, NEW c \in Requests, NEW op \in OneLine \cup {"load", "all"},
         NEW lines \in SUBSET Lines, NEW body \in Bodies, Fits(op, lines, body),
         CartPage!Start(c, op, lines, body)
  PROVE  CartInductive'
<1> DEFINE call == [CartPage!Free EXCEPT !.op = op, !.stage = "sent", !.lines = lines,
                                         !.todo = lines, !.body = body]
<1>1. /\ cartCalls[c] = CartPage!Free /\ cartCalls' = [cartCalls EXCEPT ![c] = call]
      /\ busy' = busy \cup lines /\ UNCHANGED <<server, shownCart>> /\ changes' \in 0..MaxChanges
      /\ cartSuspect' = (CartPage!Under # {} \/ (cartSuspect /\ op \notin {"load", "all"}))
  BY DEF CartPage!Start
<1>2. /\ call \in CartCall /\ call.op = op /\ call.lines = lines /\ call.body = body
      /\ call.todo = lines /\ call.lost = {} /\ call.stage = "sent"
  BY DEF CartCall, CartPage!Free, Bodies
<1>3. op # None /\ lines \cup {} = lines
  BY NoneIsNoOperation DEF OneLine
<1>4. CartCallOK(call)
  BY <1>2, <1>3 DEF CartCallOK
<1> HIDE DEF call
<1>5. cartSuspect' \in BOOLEAN /\ cartCalls[c].lines = {}
  BY <1>1, CartFree
<1>6. CartTyped' /\ Claimed' /\ cartCalls'[c] = call
      /\ \A d \in Requests \ {c} : cartCalls'[d] = cartCalls[d]
  BY <1>1, <1>2, <1>4, <1>5, CartCallMoves DEF CartInductive, CartTyped
<1>7. CartHonest'
  <2> SUFFICES ASSUME ~cartSuspect' PROVE CartHonest'
    BY DEF CartHonest
  <2>1. CartUnder = {} /\ (op \in OneLine => ~cartSuspect)
    BY <1>1, CartUnderIs DEF CartInductive, OneLine
  <2>2. CartUnder' = {c}
    BY <2>1, <1>2, <1>3, <1>6 DEF CartUnder
  <2>3. op \in OneLine => shownCart = server
    BY <2>1 DEF CartInductive, CartHonest
  <2> QED
    BY <2>2, <2>3, <1>1, <1>2, <1>6 DEF CartHonest
<1> QED
  BY <1>6, <1>7 DEF CartInductive

\* What the server makes of a request is a cart.
LEMMA ServedIsCart ==
  ASSUME CartInductive, NEW c \in Requests,
         NEW l \in cartCalls[c].todo \cup cartCalls[c].lost, server[l] # None
  PROVE  CartPage!Served(c, l) \in CartPage!Carts
<1>1. /\ cartCalls[c] \in CartCall /\ l \in Lines
      /\ cartCalls[c].lines \cup cartCalls[c].lost # {}
      /\ Fits(cartCalls[c].op, cartCalls[c].lines \cup cartCalls[c].lost, cartCalls[c].body)
      /\ cartCalls[c].op # None
  BY CartFree DEF CartInductive, CartTyped, CartCallOK, CartCall
<1>2. server \in CartPage!Carts /\ server[l] \in CartPage!Line
  BY <1>1 DEF CartInductive, CartTyped, CartPage!Carts
<1>3. CASE cartCalls[c].op = "delete"
  BY <1>2, <1>3 DEF CartPage!Served, CartPage!Carts
<1>4. CASE cartCalls[c].op = "quantity"
  <2>1. [server[l] EXCEPT !.quantity = cartCalls[c].body] \in CartPage!Line
    BY <1>1, <1>2, <1>4 DEF Fits, CartPage!Line
  <2>2. CartPage!Served(c, l) = [server EXCEPT ![l].quantity = cartCalls[c].body]
    BY <1>4 DEF CartPage!Served
  <2> QED
    BY <1>2, <2>1, <2>2 DEF CartPage!Carts
<1>5. CASE cartCalls[c].op \in {"selected", "all"}
  <2>1. [server[l] EXCEPT !.selected = cartCalls[c].body] \in CartPage!Line
    BY <1>1, <1>2, <1>5 DEF Fits, CartPage!Line
  <2>2. CartPage!Served(c, l) = [server EXCEPT ![l].selected = cartCalls[c].body]
    BY <1>5 DEF CartPage!Served
  <2> QED
    BY <1>2, <2>1, <2>2 DEF CartPage!Carts
<1>6. cartCalls[c].op # "load"
  BY <1>1 DEF Fits
<1> QED
  BY <1>1, <1>3, <1>4, <1>5, <1>6 DEF CartCall, OneLine

\* One of the requests of an operation has been carried out, is given up, or will not be
\* carried out.
LEMMA CartTodoKeeps ==
  ASSUME CartInductive, NEW c \in Requests, NEW l \in Lines,
         CartPage!Serve(c, l) \/ CartPage!Reject(c, l)
  PROVE  CartInductive'
<1>0. CartPage!Serve(c, l) \/ CartPage!Reject(c, l)
  OBVIOUS
<1>1. /\ l \in cartCalls[c].todo /\ UNCHANGED <<shownCart, busy, cartSuspect, changes>>
      /\ \/ server[l] # None /\ server' = CartPage!Served(c, l)
         \/ server' = server
  BY DEF CartPage!Serve, CartPage!Reject
<1> DEFINE left(given) == [cartCalls[c] EXCEPT !.todo = cartCalls[c].todo \ {l},
                                               !.lost = cartCalls[c].lost \cup given]
<1> HIDE DEF left
<1>2. PICK given \in SUBSET {l} : /\ given # {} => cartCalls[c].op = "all"
                                  /\ cartCalls' = [cartCalls EXCEPT ![c] = left(given)]
  <2>1. cartCalls[c] \in CartCall
    BY DEF CartInductive, CartTyped, CartCallOK
  <2>2. CASE CartPage!Serve(c, l)
    <3>1. cartCalls' = [cartCalls EXCEPT ![c] = [cartCalls[c] EXCEPT
             !.todo = cartCalls[c].todo \ {l}]]
      BY <2>2 DEF CartPage!Serve, CartInductive, CartTyped
    <3>2. [cartCalls[c] EXCEPT !.todo = cartCalls[c].todo \ {l}] = left({})
      BY <2>1 DEF CartCall, left
    <3>3. cartCalls' = [cartCalls EXCEPT ![c] = left({})]
      BY <3>1, <3>2
    <3>4. {} \in SUBSET {l}
      OBVIOUS
    <3> QED
      BY <3>3, <3>4
  <2>3. CASE CartPage!Reject(c, l)
    <3>1. cartCalls[c].op = "all" /\ \E given \in CartPage!Lost({l}) :
             cartCalls' = [cartCalls EXCEPT ![c].todo = @ \ {l}, ![c].lost = @ \cup given]
      BY <2>3 DEF CartPage!Reject
    <3>2. PICK given \in {{}, {l}} :
             cartCalls' = [cartCalls EXCEPT ![c].todo = @ \ {l}, ![c].lost = @ \cup given]
      BY <3>1 DEF CartPage!Lost
    <3>3. cartCalls' = [cartCalls EXCEPT ![c] = left(given)]
      BY <3>2, <2>1 DEF CartCall, CartInductive, CartTyped, left
    <3>4. given \in SUBSET {l}
      BY <3>2
    <3> QED
      BY <3>1, <3>3, <3>4
  <2> QED
    BY <1>0, <2>2, <2>3
<1> DEFINE call == left(given)
<1>3. server' \in CartPage!Carts
  BY <1>1, ServedIsCart DEF CartInductive, CartTyped
<1>4. /\ CartCallOK(cartCalls[c]) /\ cartCalls[c].todo # {} /\ cartCalls[c].op # None
      /\ cartCalls[c].stage \notin {"served", "forsaken"} /\ cartCalls[c].op # "load"
  BY <1>1, CartFree DEF CartInductive, CartTyped, CartCallOK, Fits
<1>5. /\ call \in CartCall /\ call.todo = cartCalls[c].todo \ {l}
      /\ call.lost = cartCalls[c].lost \cup given
      /\ call.op = cartCalls[c].op /\ call.lines = cartCalls[c].lines
      /\ call.body = cartCalls[c].body /\ call.stage = cartCalls[c].stage
  BY <1>4 DEF CartCallOK, CartCall, left
<1>6. call.lines \cup call.lost = cartCalls[c].lines \cup cartCalls[c].lost
  BY <1>1, <1>4, <1>5 DEF CartCallOK
<1>7. CartCallOK(call)
  BY <1>2, <1>4, <1>5, <1>6 DEF CartCallOK
<1>8. call.op \in OneLine => call.todo = {}
  BY <1>1, <1>4, <1>5 DEF CartCallOK, Fits
<1> HIDE DEF call
<1>9. CartTyped' /\ Claimed' /\ cartCalls'[c] = call
      /\ \A d \in Requests \ {c} : cartCalls'[d] = cartCalls[d]
  BY <1>1, <1>2, <1>3, <1>5, <1>7, CartCallMoves DEF call, CartInductive, CartTyped
<1>10. CartHonest'
  <2> SUFFICES ASSUME ~cartSuspect' PROVE CartHonest'
    BY DEF CartHonest
  <2>1. CartUnder' = CartUnder /\ c \in CartUnder
    BY <1>4, <1>5, <1>9 DEF CartUnder
  <2>2. CartUnder = {c}
    BY <1>1, <2>1 DEF CartInductive, CartHonest
  <2> QED
    BY <1>4, <1>5, <1>8, <1>9, <2>1, <2>2 DEF CartHonest
<1> QED
  BY <1>9, <1>10 DEF CartInductive

\* The answer carries the cart as it is now.
LEMMA CartListKeeps ==
  ASSUME CartInductive, NEW c \in Requests, CartPage!List(c)
  PROVE  CartInductive'
<1> DEFINE call == [cartCalls[c] EXCEPT !.stage = "served", !.answer = server]
<1>0. CartCallOK(cartCalls[c]) /\ server \in CartPage!Carts
  BY DEF CartInductive, CartTyped
<1>1. /\ cartCalls[c].stage = "sent" /\ cartCalls[c].todo = {}
      /\ cartCalls' = [cartCalls EXCEPT ![c] = call]
      /\ UNCHANGED <<server, shownCart, busy, cartSuspect, changes>>
  BY DEF CartPage!List, CartPage!Settled, CartInductive, CartTyped
<1>2. cartCalls[c].op # None
  BY <1>0, <1>1, CartFree DEF CartCallOK
<1>4. /\ call \in CartCall /\ call.todo = cartCalls[c].todo /\ call.lost = cartCalls[c].lost
      /\ call.op = cartCalls[c].op /\ call.lines = cartCalls[c].lines
      /\ call.body = cartCalls[c].body /\ call.stage = "served" /\ call.answer = server
  BY <1>0 DEF CartCallOK, CartCall
<1>5. CartCallOK(call)
  BY <1>0, <1>1, <1>2, <1>4 DEF CartCallOK
<1> HIDE DEF call
<1>7. CartTyped' /\ Claimed' /\ cartCalls'[c] = call
      /\ \A d \in Requests \ {c} : cartCalls'[d] = cartCalls[d]
  BY <1>1, <1>4, <1>5, CartCallMoves DEF CartInductive, CartTyped
<1>10. CartUnder' = CartUnder
  BY <1>2, <1>4, <1>7 DEF CartUnder
<1>11. CartHonest'
  BY <1>1, <1>4, <1>7, <1>10 DEF CartInductive, CartHonest, CartUnder
<1> QED
  BY <1>7, <1>11 DEF CartInductive

\* What is left of an operation that is over for the screen.
LEMMA CartForsaken ==
  ASSUME CartInductive, NEW c \in Requests, cartCalls[c].op # None,
         NEW given \in SUBSET (cartCalls[c].todo \cup cartCalls[c].lost)
  PROVE  /\ CartCallOK(CartPage!Forsaken(c, given))
         /\ CartPage!Forsaken(c, given).lines = {}
         /\ \/ CartPage!Forsaken(c, given).op = None
            \/ CartPage!Forsaken(c, given).stage = "forsaken"
         /\ CartPage!Forsaken(c, given).todo = {}
<1>1. CASE given = {}
  BY <1>1, CartFree DEF CartPage!Forsaken
<1>2. CASE given # {}
  <2> DEFINE call == [CartPage!Free EXCEPT !.op = cartCalls[c].op, !.stage = "forsaken",
                                           !.lost = given, !.body = cartCalls[c].body]
  <2>1. CartPage!Forsaken(c, given) = call
    BY <1>2 DEF CartPage!Forsaken
  <2>2. CartCallOK(cartCalls[c])
    BY DEF CartInductive, CartTyped
  <2>3. /\ call \in CartCall /\ call.op = cartCalls[c].op /\ call.stage = "forsaken"
        /\ call.lines = {} /\ call.todo = {} /\ call.lost = given
        /\ call.body = cartCalls[c].body
    BY <2>2 DEF CartCallOK, CartCall, CartPage!Free
  <2> HIDE DEF call
  <2>4. given \subseteq cartCalls[c].lines \cup cartCalls[c].lost
    BY <2>2 DEF CartCallOK
  <2>5. cartCalls[c].op \in OneLine => \E l \in Lines : given = {l}
    <3> SUFFICES ASSUME cartCalls[c].op \in OneLine PROVE \E l \in Lines : given = {l}
      OBVIOUS
    <3>1. PICK l \in Lines : cartCalls[c].lines \cup cartCalls[c].lost = {l}
      BY <2>2 DEF CartCallOK, Fits
    <3> QED
      BY <1>2, <2>4, <3>1
  <2>6. Fits(cartCalls[c].op, given, cartCalls[c].body)
    BY <2>2, <2>4, <2>5 DEF CartCallOK, Fits
  <2>7. {} \cup given = given
    OBVIOUS
  <2>8. CartCallOK(call)
    BY <2>3, <2>6, <2>7 DEF CartCallOK
  <2> QED
    BY <2>1, <2>3, <2>8
<1> QED
  BY <1>1, <1>2

\* A call that ends takes its lines with it, and no other.
LEMMA CartEndedKeeps ==
  ASSUME CartInductive, NEW c \in Requests, CartPage!Receive(c) \/ CartPage!Fail(c)
  PROVE  CartInductive'
<1>0. CartCallOK(cartCalls[c]) /\ cartCalls[c].stage \in {"sent", "served"}
  BY DEF CartPage!Receive, CartPage!Fail, CartPage!Fails, CartInductive, CartTyped
<1>1. cartCalls[c].op # None
  BY <1>0, CartFree DEF CartCallOK
<1>2. /\ server' = server /\ busy' = busy \ cartCalls[c].lines /\ changes' = changes
      /\ \/ /\ cartCalls[c].stage = "served" /\ shownCart' = cartCalls[c].answer
            /\ cartSuspect' = cartSuspect
         \/ /\ shownCart' = shownCart /\ cartSuspect' = (cartSuspect \/ cartCalls[c].todo = {})
            /\ cartCalls[c].op = "all" => cartCalls[c].todo = {}
  BY DEF CartPage!Receive, CartPage!Fail, CartPage!Fails, CartPage!Settled
<1>3. PICK given \in SUBSET (cartCalls[c].todo \cup cartCalls[c].lost) :
        cartCalls' = [cartCalls EXCEPT ![c] = CartPage!Forsaken(c, given)]
  <2>1. CASE CartPage!Receive(c)
    <3>1. cartCalls' = [cartCalls EXCEPT ![c] = CartPage!Forsaken(c, cartCalls[c].lost)]
      BY <2>1 DEF CartPage!Receive, CartInductive, CartTyped
    <3> QED
      BY <3>1
  <2>2. CASE CartPage!Fail(c)
    <3>1. PICK given \in {{}, cartCalls[c].todo} :
            cartCalls' = [cartCalls EXCEPT ![c] =
                             CartPage!Forsaken(c, cartCalls[c].lost \cup given)]
      BY <2>2 DEF CartPage!Fail, CartPage!Fails, CartPage!Lost, CartInductive, CartTyped
    <3> QED
      BY <3>1
  <2> QED
    BY <2>1, <2>2
<1> DEFINE call == CartPage!Forsaken(c, given)
<1>4. /\ CartCallOK(call) /\ call.lines = {} /\ call.todo = {}
      /\ call.op = None \/ call.stage = "forsaken"
  BY <1>1, CartForsaken
<1> HIDE DEF call
<1>5. shownCart' \in CartPage!Carts \cup {None} /\ cartSuspect' \in BOOLEAN
  BY <1>0, <1>2 DEF CartInductive, CartTyped, CartCallOK, CartCall
<1>6. CartTyped' /\ Claimed' /\ cartCalls'[c] = call
      /\ \A d \in Requests \ {c} : cartCalls'[d] = cartCalls[d]
  BY <1>2, <1>3, <1>4, <1>5, CartCallMoves DEF call, CartInductive, CartTyped
<1>7. CartHonest'
  <2> SUFFICES ASSUME ~cartSuspect' PROVE CartHonest'
    BY DEF CartHonest
  <2>1. ~cartSuspect /\ c \in CartUnder
    BY <1>1, <1>2 DEF CartUnder, CartInductive, CartTyped
  <2>2. CartUnder = {c}
    BY <2>1 DEF CartInductive, CartHonest
  <2>3. CartUnder' \subseteq {c}
    BY <1>6, <2>2 DEF CartUnder
  <2>4. cartCalls[c].op = "load" => cartCalls[c].todo = {}
    BY <1>0 DEF CartCallOK, Fits
  <2>6. /\ cartCalls[c].stage = "served" => cartCalls[c].answer = server
        /\ cartCalls[c].op \in OneLine /\ cartCalls[c].todo # {} => shownCart = server
    BY <2>1 DEF CartInductive, CartHonest
  <2>7. shownCart' = server'
    <3>1. CASE cartCalls[c].stage = "served" /\ shownCart' = cartCalls[c].answer
      BY <1>2, <2>6, <3>1
    <3>2. CASE shownCart' = shownCart /\ cartSuspect' = (cartSuspect \/ cartCalls[c].todo = {})
               /\ (cartCalls[c].op = "all" => cartCalls[c].todo = {})
      BY <1>0, <1>1, <1>2, <2>4, <2>6, <3>2 DEF CartCallOK, CartCall
    <3> QED
      BY <1>2, <3>1, <3>2
  <2>8. CartUnder' # {} => call.stage = "forsaken"
    BY <1>4, <1>6, <2>3 DEF CartUnder
  <2> QED
    BY <1>6, <2>3, <2>7, <2>8 DEF CartHonest
<1> QED
  BY <1>6, <1>7 DEF CartInductive

\* A request that was given up is carried out, behind the last look at the cart or before
\* it, or is not.
LEMMA CartLostKeeps ==
  ASSUME CartInductive, NEW c \in Requests, NEW l \in Lines,
         CartPage!ServeLost(c, l) \/ CartPage!Vanish(c, l)
  PROVE  CartInductive'
<1>0. CartCallOK(cartCalls[c])
  BY DEF CartInductive, CartTyped
<1>1. /\ l \in cartCalls[c].lost /\ UNCHANGED <<shownCart, busy, changes>> /\ CartPage!Without(c, l)
      /\ \/ /\ server[l] # None /\ server' = CartPage!Served(c, l)
            /\ cartSuspect' = (cartSuspect \/ cartCalls[c].stage # "sent")
         \/ server' = server /\ cartSuspect' = cartSuspect
  BY DEF CartPage!ServeLost, CartPage!Vanish
<1>2. cartCalls[c].op # None /\ cartCalls[c].op # "load"
  BY <1>0, <1>1, CartFree DEF CartCallOK, Fits
<1>3. server' \in CartPage!Carts /\ cartSuspect' \in BOOLEAN
  BY <1>1, ServedIsCart DEF CartInductive, CartTyped
<1>4. CASE cartCalls[c].stage = "forsaken"
  <2> DEFINE call == CartPage!Forsaken(c, cartCalls[c].lost \ {l})
  <2>1. cartCalls' = [cartCalls EXCEPT ![c] = call]
    BY <1>1, <1>4 DEF CartPage!Without, CartInductive, CartTyped
  <2>2. /\ CartCallOK(call) /\ call.lines = {} /\ call.todo = {}
        /\ call.op = None \/ call.stage = "forsaken"
    BY <1>2, CartForsaken
  <2>3. cartCalls[c].lines = {}
    BY <1>0, <1>4 DEF CartCallOK
  <2> HIDE DEF call
  <2>4. CartTyped' /\ Claimed' /\ cartCalls'[c] = call
        /\ \A d \in Requests \ {c} : cartCalls'[d] = cartCalls[d]
    BY <1>1, <1>3, <2>1, <2>2, <2>3, CartCallMoves DEF CartInductive, CartTyped
  <2>5. CartHonest'
    <3> SUFFICES ASSUME ~cartSuspect' PROVE CartHonest'
      BY DEF CartHonest
    <3>0. c \in CartUnder
      BY <1>2 DEF CartUnder
    <3>1. ~cartSuspect /\ server' = server
      <4>1. cartCalls[c].stage # "sent"
        BY <1>4
      <4>2. \/ cartSuspect' = (cartSuspect \/ cartCalls[c].stage # "sent")
            \/ server' = server /\ cartSuspect' = cartSuspect
        BY <1>1
      <4> QED
        BY <1>3, <4>1, <4>2 DEF CartInductive, CartTyped
    <3>2. CartUnder = {c} /\ shownCart = server
      BY <3>0, <3>1, <1>4 DEF CartInductive, CartHonest
    <3>3. CartUnder' \subseteq {c}
      BY <2>4, <3>2 DEF CartUnder
    <3>4. CartUnder' # {} => call.stage = "forsaken"
      BY <2>2, <2>4, <3>3 DEF CartUnder
    <3> QED
      BY <1>1, <2>2, <2>4, <3>1, <3>2, <3>3, <3>4 DEF CartHonest
  <2> QED
    BY <2>4, <2>5 DEF CartInductive
<1>5. CASE cartCalls[c].stage # "forsaken"
  <2> DEFINE call == [cartCalls[c] EXCEPT !.lost = cartCalls[c].lost \ {l}]
  <2>1. cartCalls' = [cartCalls EXCEPT ![c] = call]
    <3>1. cartCalls' = [cartCalls EXCEPT ![c].lost = @ \ {l}]
      BY <1>1, <1>5 DEF CartPage!Without, CartInductive, CartTyped
    <3> QED
      BY <1>0, <3>1 DEF CartCallOK, CartCall, CartInductive, CartTyped
  <2>2. /\ call \in CartCall /\ call.todo = cartCalls[c].todo
        /\ call.lost = cartCalls[c].lost \ {l} /\ call.answer = cartCalls[c].answer
        /\ call.op = cartCalls[c].op /\ call.lines = cartCalls[c].lines
        /\ call.body = cartCalls[c].body /\ call.stage = cartCalls[c].stage
    BY <1>0 DEF CartCallOK, CartCall
  <2>3. cartCalls[c].op = "all"
    BY <1>0, <1>1, <1>5 DEF CartCallOK
  <2>4. CartCallOK(call)
    BY <1>0, <1>2, <1>5, <2>2, <2>3 DEF CartCallOK, Fits, OneLine
  <2> HIDE DEF call
  <2>5. CartTyped' /\ Claimed' /\ cartCalls'[c] = call
        /\ \A d \in Requests \ {c} : cartCalls'[d] = cartCalls[d]
    BY <1>1, <1>3, <2>1, <2>2, <2>4, CartCallMoves DEF CartInductive, CartTyped
  <2>6. CartHonest'
    <3> SUFFICES ASSUME ~cartSuspect' PROVE CartHonest'
      BY DEF CartHonest
    <3>1. ~cartSuspect /\ CartUnder' = CartUnder /\ c \in CartUnder
      BY <1>1, <1>2, <2>2, <2>5 DEF CartUnder, CartInductive, CartTyped
    <3>2. CartUnder = {c}
      BY <3>1 DEF CartInductive, CartHonest
    <3>3. cartCalls[c].stage = "served" => server' = server /\ cartCalls[c].answer = server
      BY <1>1, <3>1 DEF CartInductive, CartHonest
    <3> QED
      BY <1>5, <2>2, <2>3, <2>5, <3>1, <3>2, <3>3 DEF CartHonest, OneLine
  <2> QED
    BY <2>5, <2>6 DEF CartInductive
<1> QED
  BY <1>4, <1>5

LEMMA CartNextKeeps ==
  ASSUME CartInductive, CartPage!Next
  PROVE  CartInductive'
<1>0. shownCart \in CartPage!Carts \cup {None}
  BY DEF CartInductive, CartTyped
<1>1. CartPage!Shown \in SUBSET Lines /\ CartPage!Valid \in SUBSET Lines
  BY DEF CartPage!Shown, CartPage!Of, CartPage!Valid
<1>2. \A l \in CartPage!Valid : shownCart[l].selected \in BOOLEAN
  <2> SUFFICES ASSUME NEW l \in CartPage!Valid PROVE shownCart[l].selected \in BOOLEAN
    OBVIOUS
  <2>1. l \in Lines /\ shownCart # None /\ shownCart[l] # None
    BY DEF CartPage!Shown, CartPage!Of, CartPage!Valid
  <2>2. shownCart[l] \in CartPage!Line
    BY <1>0, <2>1 DEF CartPage!Carts
  <2> QED
    BY <2>2 DEF CartPage!Line
<1>3. ASSUME NEW c \in Requests, CartPage!Load(c)
      PROVE  CartInductive'
  BY <1>3, CartStartKeeps DEF CartPage!Load, Bodies, Fits, OneLine
<1>4. ASSUME NEW c \in Requests, CartPage!ChangeQuantity(c)
      PROVE  CartInductive'
  <2>1. PICK l \in CartPage!Valid : \E n \in CartPage!Quantities(l) :
          CartPage!Start(c, "quantity", {l}, n)
    BY <1>4 DEF CartPage!ChangeQuantity
  <2>2. PICK n \in CartPage!Quantities(l) : CartPage!Start(c, "quantity", {l}, n)
    BY <2>1
  <2>3. n \in 1..MaxQty /\ n \in Bodies /\ l \in Lines
    BY <1>1, <2>2 DEF CartPage!Quantities, Bodies
  <2>4. Fits("quantity", {l}, n)
    BY <2>3 DEF Fits
  <2> QED
    BY <2>2, <2>3, <2>4, CartStartKeeps DEF OneLine
<1>5. ASSUME NEW c \in Requests, CartPage!ToggleLine(c)
      PROVE  CartInductive'
  <2>1. PICK l \in CartPage!Valid : CartPage!Start(c, "selected", {l}, ~shownCart[l].selected)
    BY <1>5 DEF CartPage!ToggleLine
  <2>2. (~shownCart[l].selected) \in BOOLEAN /\ l \in Lines
    BY <1>1, <1>2
  <2>3. PICK on \in BOOLEAN : on = ~shownCart[l].selected
    BY <2>2
  <2>4. Fits("selected", {l}, on) /\ on \in Bodies /\ {l} \in SUBSET Lines
    BY <2>2 DEF Fits, Bodies
  <2>5. CartPage!Start(c, "selected", {l}, on)
    BY <2>1, <2>3
  <2> QED
    BY <2>4, <2>5, CartStartKeeps DEF OneLine
<1>6. ASSUME NEW c \in Requests, CartPage!Delete(c)
      PROVE  CartInductive'
  <2>1. PICK l \in CartPage!Shown : CartPage!Start(c, "delete", {l}, None)
    BY <1>6 DEF CartPage!Delete
  <2>2. l \in Lines /\ Fits("delete", {l}, None) /\ None \in Bodies
    BY <1>1 DEF Fits, Bodies
  <2> QED
    BY <2>1, <2>2, CartStartKeeps DEF OneLine
<1>7. ASSUME NEW c \in Requests, CartPage!ToggleAll(c)
      PROVE  CartInductive'
  <2>1. PICK on \in BOOLEAN : on = ~CartPage!AllSelected
    BY DEF CartPage!AllSelected
  <2>2. PICK lines : lines = {l \in CartPage!Valid : shownCart[l].selected = CartPage!AllSelected}
    OBVIOUS
  <2>3. CartPage!Start(c, "all", lines, on)
    BY <1>7, <2>1, <2>2 DEF CartPage!ToggleAll
  <2>4. lines \in SUBSET Lines /\ Fits("all", lines, on) /\ on \in Bodies
    BY <1>1, <2>2 DEF Fits, OneLine, Bodies
  <2> QED
    BY <2>3, <2>4, CartStartKeeps
<1>8. ASSUME NEW c \in Requests,
             \/ \E l \in Lines : CartPage!Serve(c, l) \/ CartPage!Reject(c, l)
                                 \/ CartPage!ServeLost(c, l) \/ CartPage!Vanish(c, l)
             \/ CartPage!List(c) \/ CartPage!Receive(c) \/ CartPage!Fail(c)
      PROVE  CartInductive'
  BY <1>8, CartTodoKeeps, CartListKeeps, CartEndedKeeps, CartLostKeeps
<1> QED
  BY <1>3, <1>4, <1>5, <1>6, <1>7, <1>8 DEF CartPage!Next

------------------------------------------------------------------------------
(* The order page (OrderDetailScreen.tsx).  A payment or a cancellation    *)
(* starts only when none is under way, and only its end frees the buttons; *)
(* and as long as nothing has overlapped or got lost, an answer under way  *)
(* says where the order is, or where it has come from since it was read.   *)

OrderStatus == 0..4
OrderCall ==
  [op : OrderPage!Actions \cup {"load", None},
   stage : {"free", "sent", "done", "refused", "read"}, answer : OrderStatus \cup {None}]
OrderCallOK(call) == call \in OrderCall /\ (call.op = None => call = OrderPage!Free)

OrderUnder == {c \in Requests : orderCalls[c].op # None}
Acting == {c \in Requests : orderCalls[c].op \in OrderPage!Actions}

OrderTyped ==
  /\ status \in OrderStatus
  /\ order \in OrderStatus \cup {None} /\ moved \in BOOLEAN
  /\ busyAction \in OrderPage!Actions \cup {None}
  /\ confirming \in BOOLEAN /\ orderSuspect \in BOOLEAN
  /\ DOMAIN orderCalls = Requests
  /\ \A c \in Requests : OrderCallOK(orderCalls[c])

OneAction ==
  /\ \A c, d \in Acting : c = d
  /\ busyAction # None <=> Acting # {}

\* The order is there, or has been brought on from there.
Tells(x) == x = status \/ (moved /\ <<x, status>> \in OrderPage!Ahead)

OrderHonest ==
  ~orderSuspect =>
    /\ \A c, d \in OrderUnder : c = d
    /\ OrderUnder = {} => Tells(order)
    /\ \A c \in OrderUnder : orderCalls[c].stage = "read" => Tells(orderCalls[c].answer)

OrderInductive == OrderTyped /\ OneAction /\ OrderHonest

LEMMA OrderFree ==
  /\ OrderPage!Free.op = None /\ OrderPage!Free.stage = "free" /\ OrderPage!Free.answer = None
  /\ OrderCallOK(OrderPage!Free)
  /\ None \notin OrderPage!Actions /\ "load" \notin OrderPage!Actions /\ "load" # None
BY NoneIsNoOperation DEF OrderPage!Free, OrderCallOK, OrderCall, OrderPage!Actions

LEMMA OrderUnderIs == OrderTyped => OrderPage!Under = OrderUnder
BY OrderFree DEF OrderPage!Under, OrderUnder, OrderTyped, OrderCallOK

LEMMA OrderCount == \A S : OrderPage!Cardinality(S) = Cardinality(S)
BY DEF OrderPage!Cardinality, Cardinality

LEMMA OrderImplies ==
  OrderInductive => OrderPage!TypeOK /\ OrderPage!BusyEnds /\ OrderPage!ScreenAgrees
<1> SUFFICES ASSUME OrderInductive
             PROVE  OrderPage!TypeOK /\ OrderPage!BusyEnds /\ OrderPage!ScreenAgrees
  OBVIOUS
<1>1. OrderPage!TypeOK
  BY DEF OrderInductive, OrderTyped, OrderCallOK, OrderCall, OrderStatus, OrderPage!TypeOK
<1>2. OrderPage!BusyEnds
  <2>1. Cardinality(Acting) <= 1
    <3>1. CASE Acting = {}
      BY <3>1, FS_EmptySet
    <3>2. CASE \E c \in Acting : Acting = {c}
      <4>1. PICK c \in Acting : Acting = {c}
        BY <3>2
      <4>2. Cardinality({c}) = 1
        BY FS_Singleton
      <4> QED
        BY <4>1, <4>2
    <3> QED
      BY <3>1, <3>2 DEF OrderInductive, OneAction
  <2> QED
    BY <2>1, OrderCount DEF OrderInductive, OneAction, Acting, OrderPage!BusyEnds
<1>3. OrderPage!ScreenAgrees
  BY OrderUnderIs DEF OrderInductive, OrderHonest, Tells, OrderPage!ScreenAgrees
<1> QED
  BY <1>1, <1>2, <1>3

LEMMA OrderInitially == OrderPage!Init => OrderInductive
<1> SUFFICES ASSUME OrderPage!Init PROVE OrderInductive
  OBVIOUS
<1>1. /\ DOMAIN orderCalls = Requests /\ \A c \in Requests : orderCalls[c] = OrderPage!Free
      /\ status \in OrderStatus /\ order = None /\ moved = FALSE /\ busyAction = None
      /\ confirming = FALSE /\ orderSuspect = TRUE
  BY DEF OrderPage!Init, OrderStatus
<1> QED
  BY <1>1, OrderFree DEF OrderInductive, OrderTyped, OneAction, OrderHonest, Acting

\* What a step makes of one request, whatever else it does.
PageStep(c, call) ==
  /\ DOMAIN orderCalls' = Requests /\ orderCalls'[c] = call
  /\ \A d \in Requests \ {c} : orderCalls'[d] = orderCalls[d]

LEMMA PageUpdate ==
  ASSUME OrderTyped, NEW c \in Requests, NEW call, orderCalls' = [orderCalls EXCEPT ![c] = call]
  PROVE  PageStep(c, call)
BY DEF OrderTyped, PageStep

\* A load, a payment or a cancellation is sent.
LEMMA OrderSendKeeps ==
  ASSUME OrderInductive, NEW c \in Requests,
         OrderPage!Load(c) \/ \E op \in OrderPage!Actions : OrderPage!RunAction(c, op)
  PROVE  OrderInductive'
<1>1. PICK op \in OrderPage!Actions \cup {"load"} :
         /\ \/ op = "load" /\ busyAction' = busyAction
               /\ orderSuspect' = (OrderPage!Under # {})
               /\ orderCalls' = [orderCalls EXCEPT ![c] =
                                   [OrderPage!Free EXCEPT !.op = "load", !.stage = "done"]]
            \/ op # "load" /\ busyAction = None /\ busyAction' = op
               /\ orderSuspect' = (orderSuspect \/ OrderPage!Under # {})
               /\ orderCalls' = [orderCalls EXCEPT ![c] =
                                   [OrderPage!Free EXCEPT !.op = op, !.stage = "sent"]]
         /\ orderCalls[c] = OrderPage!Free
         /\ UNCHANGED <<status, order, confirming, moved>>
  BY OrderFree DEF OrderPage!Load, OrderPage!RunAction
<1>2. PICK stage \in {"done", "sent"} :
         orderCalls' = [orderCalls EXCEPT ![c] =
                          [OrderPage!Free EXCEPT !.op = op, !.stage = stage]]
  BY <1>1
<1> DEFINE call == [OrderPage!Free EXCEPT !.op = op, !.stage = stage]
<1>3. call \in OrderCall /\ call.op = op /\ call.stage # "read" /\ op # None
  BY OrderFree DEF OrderCall, OrderPage!Free
<1> HIDE DEF call
<1>4. PageStep(c, call)
  BY <1>2, PageUpdate DEF OrderInductive, call
<1>5. OrderTyped'
  BY <1>1, <1>3, <1>4 DEF OrderInductive, OrderTyped, OrderCallOK, PageStep
<1>6. OneAction'
  <2>1. CASE op = "load"
    <3>1. Acting' = Acting
      BY <1>1, <1>3, <1>4, <2>1, OrderFree DEF Acting, PageStep
    <3> QED
      BY <1>1, <2>1, <3>1 DEF OrderInductive, OneAction
  <2>2. CASE op # "load"
    <3>1. Acting = {} /\ busyAction' # None
      BY <1>1, <1>3, <2>2 DEF OrderInductive, OneAction
    <3>2. Acting' = {c}
      BY <1>1, <1>3, <1>4, <2>2, <3>1 DEF Acting, PageStep
    <3> QED
      BY <3>1, <3>2 DEF OneAction
  <2> QED
    BY <2>1, <2>2
<1>7. OrderHonest'
  <2>1. ~orderSuspect' => OrderUnder = {}
    BY <1>1, OrderUnderIs DEF OrderInductive
  <2>2. ~orderSuspect' => OrderUnder' = {c}
    BY <1>3, <1>4, <2>1 DEF OrderUnder, PageStep
  <2> QED
    BY <1>3, <1>4, <2>2 DEF OrderHonest, PageStep
<1> QED
  BY <1>5, <1>6, <1>7 DEF OrderInductive

\* The server transacts, refuses or reads.
LEMMA OrderServeKeeps ==
  ASSUME OrderInductive, NEW c \in Requests,
         OrderPage!Transact(c) \/ OrderPage!Refuse(c) \/ OrderPage!Read(c)
  PROVE  OrderInductive'
<1>0. OrderCallOK(orderCalls[c]) /\ status \in OrderStatus
  BY DEF OrderInductive, OrderTyped
<1>1. PICK stage \in {"done", "refused", "read"}, answer \in OrderStatus \cup {None} :
         /\ orderCalls' = [orderCalls EXCEPT ![c] =
                             [orderCalls[c] EXCEPT !.stage = stage, !.answer = answer]]
         /\ stage = "read" => answer = status'
  <2>1. CASE OrderPage!Read(c)
    BY <1>0, <2>1 DEF OrderPage!Read, OrderInductive, OrderTyped
  <2>2. ASSUME NEW stage \in {"done", "refused"},
               orderCalls' = [orderCalls EXCEPT ![c].stage = stage]
        PROVE  orderCalls' = [orderCalls EXCEPT ![c] =
                 [orderCalls[c] EXCEPT !.stage = stage, !.answer = orderCalls[c].answer]]
    <3>1. [orderCalls[c] EXCEPT !.stage = stage]
            = [orderCalls[c] EXCEPT !.stage = stage, !.answer = orderCalls[c].answer]
      BY <1>0 DEF OrderCallOK, OrderCall
    <3> QED
      BY <2>2, <3>1 DEF OrderInductive, OrderTyped
  <2>3. orderCalls[c].answer \in OrderStatus \cup {None}
    BY <1>0 DEF OrderCallOK, OrderCall
  <2>4. CASE OrderPage!Transact(c)
    BY <2>2, <2>3, <2>4 DEF OrderPage!Transact
  <2>5. CASE OrderPage!Refuse(c)
    BY <2>2, <2>3, <2>5 DEF OrderPage!Refuse
  <2> QED
    BY <2>1, <2>4, <2>5
<1>2. /\ orderCalls[c].stage \in {"sent", "done"} /\ status' \in OrderStatus
      /\ moved' \in BOOLEAN
      /\ UNCHANGED <<order, busyAction, confirming, orderSuspect>>
  <2>1. CASE OrderPage!Read(c)
    BY <1>0, <2>1 DEF OrderPage!Read, OrderInductive, OrderTyped
  <2>2. CASE OrderPage!Transact(c)
    BY <1>0, <2>2 DEF OrderPage!Transact, OrderPage!Outcome, OrderStatus,
                      OrderPage!PAID, OrderPage!CANCELLED, OrderInductive, OrderTyped
  <2>3. CASE OrderPage!Refuse(c)
    BY <1>0, <2>3 DEF OrderPage!Refuse, OrderInductive, OrderTyped
  <2> QED
    BY <2>1, <2>2, <2>3
<1>3. orderCalls[c].op # None
  BY <1>0, <1>2, OrderFree DEF OrderCallOK
<1> DEFINE call == [orderCalls[c] EXCEPT !.stage = stage, !.answer = answer]
<1>4. /\ call \in OrderCall /\ call.op = orderCalls[c].op
      /\ call.stage = stage /\ call.answer = answer
  BY <1>0 DEF OrderCallOK, OrderCall
<1> HIDE DEF call
<1>5. PageStep(c, call)
  BY <1>1, PageUpdate DEF OrderInductive, call
<1>6. OrderTyped'
  BY <1>2, <1>3, <1>4, <1>5 DEF OrderInductive, OrderTyped, OrderCallOK, PageStep
<1>7. Acting' = Acting /\ OrderUnder' = OrderUnder /\ c \in OrderUnder
  BY <1>3, <1>4, <1>5 DEF Acting, OrderUnder, PageStep
<1>8. OneAction'
  BY <1>2, <1>7 DEF OrderInductive, OneAction
<1>9. OrderHonest'
  <2>1. SUFFICES ASSUME ~orderSuspect' PROVE OrderHonest'
    BY DEF OrderHonest
  <2>2. OrderUnder = {c}
    BY <1>2, <1>7, <2>1 DEF OrderInductive, OrderHonest
  <2> QED
    BY <1>1, <1>4, <1>5, <1>7, <2>2 DEF OrderHonest, PageStep, Tells
<1> QED
  BY <1>6, <1>8, <1>9 DEF OrderInductive

\* An answer arrives, or none does.  After a refusal the request goes on as a load.
LEMMA OrderEndKeeps ==
  ASSUME OrderInductive, NEW c \in Requests,
         OrderPage!Receive(c) \/ OrderPage!Conflict(c) \/ OrderPage!Fail(c)
  PROVE  OrderInductive'
<1> DEFINE again == [OrderPage!Free EXCEPT !.op = "load", !.stage = "done"]
<1>0. /\ OrderCallOK(orderCalls[c]) /\ OrderCallOK(again) /\ again.op = "load"
      /\ again.stage = "done"
  BY OrderFree DEF OrderInductive, OrderTyped, OrderCallOK, OrderCall, OrderPage!Free
<1>1. /\ orderCalls[c] # OrderPage!Free
      /\ orderCalls' = [orderCalls EXCEPT ![c] = OrderPage!Free]
           \/ orderCalls' = [orderCalls EXCEPT ![c] = again]
      /\ UNCHANGED <<status, moved>>
      /\ busyAction' = IF orderCalls[c].op \in OrderPage!Actions THEN None ELSE busyAction
      /\ confirming' \in BOOLEAN /\ orderSuspect' \in BOOLEAN /\ order' \in OrderStatus \cup {None}
  BY <1>0, OrderFree DEF OrderPage!Receive, OrderPage!Conflict, OrderPage!Fail, OrderPage!Over,
       OrderInductive, OrderTyped, OrderCallOK, OrderCall
<1> HIDE DEF again
<1>2. PICK call : PageStep(c, call) /\ call \in {OrderPage!Free, again}
  BY <1>1, PageUpdate DEF OrderInductive
<1>3. OrderCallOK(call) /\ call.op \notin OrderPage!Actions /\ orderCalls[c].op # None
  BY <1>0, <1>1, <1>2, OrderFree DEF OrderCallOK
<1>4. OrderTyped'
  BY <1>1, <1>2, <1>3, OrderFree DEF OrderInductive, OrderTyped, PageStep
<1>5. Acting' = Acting \ {c}
  BY <1>2, <1>3 DEF Acting, PageStep
<1>6. OneAction'
  <2>1. CASE c \in Acting
    BY <1>1, <1>5, <2>1 DEF OrderInductive, OneAction, Acting
  <2>2. CASE c \notin Acting
    BY <1>1, <1>5, <2>2 DEF OrderInductive, OneAction, Acting
  <2> QED
    BY <2>1, <2>2
<1>7. OrderHonest'
  <2> SUFFICES ASSUME ~orderSuspect' PROVE OrderHonest'
    BY DEF OrderHonest
  <2>0. c \in OrderUnder
    BY <1>3 DEF OrderUnder
  <2>1. CASE OrderPage!Receive(c)
    <3>1. ~orderSuspect /\ orderCalls[c].stage = "read" /\ order' = orderCalls[c].answer
          /\ orderCalls' = [orderCalls EXCEPT ![c] = OrderPage!Free]
      BY <2>1 DEF OrderPage!Receive
    <3>2. PageStep(c, OrderPage!Free)
      BY <3>1, PageUpdate DEF OrderInductive
    <3>3. OrderUnder = {c} /\ Tells(orderCalls[c].answer)
      BY <2>0, <3>1 DEF OrderInductive, OrderHonest
    <3>4. OrderUnder' = {}
      BY <3>2, <3>3, OrderFree DEF OrderUnder, PageStep
    <3> QED
      BY <1>1, <3>1, <3>3, <3>4 DEF OrderHonest, Tells
  <2>2. CASE OrderPage!Conflict(c)
    <3>1. OrderUnder = {c} /\ orderCalls' = [orderCalls EXCEPT ![c] = again]
      BY <2>2, OrderUnderIs DEF OrderPage!Conflict, OrderInductive, again
    <3>2. PageStep(c, again)
      BY <3>1, PageUpdate DEF OrderInductive
    <3>3. OrderUnder' = {c}
      BY <1>0, <3>1, <3>2, OrderFree DEF OrderUnder, PageStep
    <3> QED
      BY <1>0, <3>2, <3>3 DEF OrderHonest, PageStep
  <2>3. CASE OrderPage!Fail(c)
    BY <2>3 DEF OrderPage!Fail
  <2> QED
    BY <2>1, <2>2, <2>3
<1> QED
  BY <1>4, <1>6, <1>7 DEF OrderInductive

\* A step that leaves the requests alone.
LEMMA OrderQuiet ==
  ASSUME OrderInductive, UNCHANGED <<orderCalls, busyAction>>,
         status' \in OrderStatus, order' \in OrderStatus \cup {None},
         moved' \in BOOLEAN, confirming' \in BOOLEAN,
         \/ orderSuspect' = TRUE
         \/ UNCHANGED <<order, orderSuspect>> /\ \A x : Tells(x) => Tells(x)'
  PROVE  OrderInductive'
<1>1. OrderTyped'
  BY DEF OrderInductive, OrderTyped
<1>2. OneAction'
  BY DEF OrderInductive, OneAction, Acting
<1>3. OrderHonest'
  BY DEF OrderInductive, OrderHonest, OrderUnder
<1> QED
  BY <1>1, <1>2, <1>3 DEF OrderInductive

LEMMA OrderNextKeeps ==
  ASSUME OrderInductive, OrderPage!Next
  PROVE  OrderInductive'
<1>0. status \in OrderStatus /\ order \in OrderStatus \cup {None}
      /\ moved \in BOOLEAN /\ confirming \in BOOLEAN
  BY DEF OrderInductive, OrderTyped
<1>1. CASE OrderPage!AskToCancel \/ OrderPage!CloseDialog
  BY <1>0, <1>1, OrderQuiet DEF OrderPage!AskToCancel, OrderPage!CloseDialog, Tells
<1>2. CASE OrderPage!Elsewhere
  <2>1. /\ <<status, status'>> \in OrderPage!Follows /\ status' \in OrderStatus
        /\ moved' = TRUE /\ orderSuspect' \in BOOLEAN
        /\ UNCHANGED <<order, busyAction, confirming, orderCalls, orderSuspect>>
    BY <1>2 DEF OrderPage!Elsewhere, OrderStatus, OrderInductive, OrderTyped
  <2>2. ASSUME NEW x, Tells(x) PROVE Tells(x)'
    <3>1. <<x, status'>> \in OrderPage!Ahead
      BY <2>1, <2>2 DEF Tells, OrderPage!Ahead, OrderPage!Follows, OrderPage!PENDING_PAY,
           OrderPage!PAID, OrderPage!COMPLETED, OrderPage!CANCELLED, OrderPage!AWAITING_RECEIPT
    <3> QED
      BY <2>1, <3>1 DEF Tells
  <2> QED
    BY <1>0, <2>1, <2>2, OrderQuiet
<1>3. CASE OrderPage!OpenAnother
  <2>1. /\ status' = OrderPage!PENDING_PAY /\ order' = None /\ moved' = FALSE
        /\ confirming' = FALSE /\ orderSuspect' = TRUE
        /\ UNCHANGED <<orderCalls, busyAction>>
    BY <1>3 DEF OrderPage!OpenAnother
  <2>2. OrderPage!PENDING_PAY \in OrderStatus /\ FALSE \in BOOLEAN
    BY DEF OrderPage!PENDING_PAY, OrderStatus
  <2> QED
    BY <2>1, <2>2, OrderQuiet
<1> QED
  BY <1>1, <1>2, <1>3, OrderSendKeeps, OrderServeKeeps, OrderEndKeeps DEF OrderPage!Next

------------------------------------------------------------------------------
(* The address list and the address form (AddressListScreen.tsx,           *)
(* AddressEditScreen.tsx).  Three invariants beside the shape: the slots    *)
(* for what is busy name a request that is waited for (Waited); as long as *)
(* nothing overlapped or got lost, the only request under way, but for the *)
(* form's own read, brings the list of the database or is the form's save  *)
(* (ListHonest); and as long as nobody changed anything on a screen that   *)
(* was behind, the only change under way leaves the texts alone that the   *)
(* user was told are saved (Kept).                                         *)

Fields == Texts \cup {None}
Books == [Ids -> Fields]
Forms == [id : Ids \cup {0}, form : {"reading", "ready", "missing"}]
RowOps == {"default", "delete"}

AddressCall ==
  [op : RowOps \cup {"load", "form", "save", None},
   stage : {"free", "sent", "forsaken", "done", "list", "read"},
   id : Ids \cup {0, None}, text : Fields, isDefault : BOOLEAN, made : BOOLEAN,
   answer : Books \cup BOOLEAN \cup {None}]

\* What a request is about, and how far it can have come.
AddressCallOK(call) ==
  /\ call \in AddressCall
  /\ call.op = None => call = AddressPages!Free
  /\ call.op \in {"load", "form"} => call.stage \in {"list", "read"}
  /\ call.op = "save" => call.stage \in {"sent", "forsaken", "done"} /\ call.id \in Ids \cup {0}
  /\ call.op \in RowOps => call.id \in Ids
  /\ call.op = "delete" => call.text = None
  /\ call.stage = "done" => call.id \in Ids
  /\ call.stage = "read" /\ call.op # "form" => call.answer \in Books

AddressesTyped ==
  /\ book \in Books /\ list \in Books \cup {None}
  /\ meant \in [Ids -> Fields \cup {"unknown"}]
  /\ busyId \in Ids \cup {None} /\ saving \in Requests \cup {None}
  /\ editing \in Forms \cup {None}
  /\ addressSuspect \in BOOLEAN /\ careless \in BOOLEAN
  /\ DOMAIN addressCalls = Requests
  /\ \A c \in Requests : AddressCallOK(addressCalls[c])

Waited ==
  /\ busyId # None =>
       \E c \in Requests : /\ addressCalls[c].op \in RowOps /\ addressCalls[c].id = busyId
                           /\ addressCalls[c].stage # "forsaken"
  /\ saving # None => addressCalls[saving].op = "save" /\ addressCalls[saving].stage # "forsaken"

\* What the form was reading is dropped with the form.
Dropped == editing = None => \A c \in Requests : addressCalls[c].op # "form"

AddressUnder == {c \in Requests : addressCalls[c].op # None}
Main == {c \in Requests : addressCalls[c].op \notin {"form", None}}

ListHonest ==
  ~addressSuspect =>
    /\ \A c, d \in Main : c = d
    /\ Main = {} => list = book
    /\ \A c \in Main :
         /\ addressCalls[c].stage # "forsaken"
         /\ addressCalls[c].stage = "read" => addressCalls[c].answer = book
         /\ addressCalls[c].op = "save" => saving = c /\ editing # None

Writers == {c \in Requests : addressCalls[c].op \in RowOps \cup {"save"}}

\* The save that has been made and not been answered.
JustSaved(c, i) ==
  /\ addressCalls[c].op = "save" /\ addressCalls[c].stage = "done"
  /\ addressCalls[c].made /\ addressCalls[c].id = i

Kept ==
  /\ careless => \A i \in Ids : meant[i] = "unknown"
  /\ ~careless =>
       /\ \A c, d \in Writers : c = d
       /\ \A c \in Writers :
            /\ addressCalls[c].op = "default" /\ addressCalls[c].stage \in {"sent", "forsaken"}
                 => addressCalls[c].text = book[addressCalls[c].id]
            /\ addressCalls[c].op = "save" /\ addressCalls[c].stage = "done" /\ addressCalls[c].made
                 => addressCalls[c].text = book[addressCalls[c].id]
            /\ addressCalls[c].op = "save" /\ addressCalls[c].stage = "forsaken"
                 => \A i \in Ids : addressCalls[c].id \in {i, 0} => meant[i] = "unknown"
       /\ \A i \in Ids : book[i] # None =>
            meant[i] \in {book[i], "unknown"} \/ \E c \in Writers : JustSaved(c, i)

AddressesInductive == AddressesTyped /\ Waited /\ Dropped /\ ListHonest /\ Kept

LEMMA AddressFree ==
  /\ AddressPages!Free.op = None /\ AddressPages!Free.stage = "free"
  /\ AddressPages!Free.id = None /\ AddressPages!Free.text = None
  /\ AddressPages!Free.answer = None /\ AddressPages!Free.made = FALSE
  /\ AddressCallOK(AddressPages!Free)
  /\ None \notin {"default", "delete", "load", "form", "save"}
BY NoneIsNoOperation DEF AddressPages!Free, AddressCallOK, AddressCall, RowOps, Fields

LEMMA AddressUnderIs == AddressesTyped => AddressPages!Under = AddressUnder
BY AddressFree DEF AddressPages!Under, AddressUnder, AddressesTyped, AddressCallOK

LEMMA ReadingIs == AddressPages!Reading = {c \in Requests : addressCalls[c].op = "form"}
BY AddressFree DEF AddressPages!Reading, AddressPages!Under

LEMMA AddressesImply ==
  AddressesInductive => /\ AddressPages!TypeOK /\ AddressPages!BusyEnds
                        /\ AddressPages!ScreenAgrees /\ AddressPages!EditsKept
<1> SUFFICES ASSUME AddressesInductive
             PROVE  /\ AddressPages!TypeOK /\ AddressPages!BusyEnds
                    /\ AddressPages!ScreenAgrees /\ AddressPages!EditsKept
  OBVIOUS
<1>0. AddressPages!Under = AddressUnder
  BY AddressUnderIs DEF AddressesInductive
<1>1. AddressPages!TypeOK
  BY DEF AddressesInductive, AddressesTyped, AddressCallOK, AddressCall, Books, Fields,
         AddressPages!TypeOK, AddressPages!Fields, AddressPages!New
<1>2. AddressPages!BusyEnds
  BY <1>0, AddressFree DEF AddressesInductive, Waited, AddressUnder, RowOps,
         AddressPages!BusyEnds
<1>3. AddressPages!ScreenAgrees
  <2> SUFFICES ASSUME AddressUnder = {}, ~addressSuspect PROVE list = book
    BY <1>0 DEF AddressPages!ScreenAgrees
  <2>1. Main = {}
    BY DEF Main, AddressUnder
  <2> QED
    BY <2>1 DEF AddressesInductive, ListHonest
<1>4. AddressPages!EditsKept
  <2> SUFFICES ASSUME NEW i \in Ids, book[i] # None, meant[i] \notin {book[i], "unknown"}
               PROVE  \E c \in AddressUnder : addressCalls[c].op = "save"
    BY <1>0 DEF AddressPages!EditsKept, AddressPages!Of
  <2>1. ~careless
    BY DEF AddressesInductive, Kept
  <2>2. PICK c \in Writers : JustSaved(c, i)
    BY <2>1 DEF AddressesInductive, Kept
  <2> QED
    BY <2>2, AddressFree DEF Writers, JustSaved, AddressUnder
<1> QED
  BY <1>1, <1>2, <1>3, <1>4

LEMMA AddressesInitially == AddressPages!Init => AddressesInductive
<1> SUFFICES ASSUME AddressPages!Init PROVE AddressesInductive
  OBVIOUS
<1>1. /\ DOMAIN addressCalls = Requests
      /\ \A c \in Requests : addressCalls[c] = AddressPages!Free
      /\ book \in Books /\ meant = book /\ list = None /\ busyId = None /\ editing = None
      /\ saving = None /\ addressSuspect = TRUE /\ careless = FALSE
  BY DEF AddressPages!Init, Books, Fields
<1>2. Writers = {}
  BY <1>1, AddressFree DEF Writers, RowOps
<1>3. AddressesTyped
  BY <1>1, AddressFree DEF AddressesTyped, Books
<1>4. Waited /\ Dropped /\ ListHonest
  BY <1>1, AddressFree DEF Waited, Dropped, ListHonest
<1>5. Kept
  BY <1>1, <1>2 DEF Kept
<1> QED
  BY <1>3, <1>4, <1>5 DEF AddressesInductive

\* What a step makes of the requests: one becomes `call`, and the form's reads may be dropped.
AddressStep(c, call) ==
  /\ DOMAIN addressCalls' = Requests /\ addressCalls'[c] = call
  /\ \A d \in Requests \ {c} :
       \/ addressCalls'[d] = addressCalls[d]
       \/ addressCalls[d].op = "form" /\ addressCalls'[d] = AddressPages!Free

LEMMA AddressUpdate ==
  ASSUME AddressesTyped, NEW c \in Requests, NEW call,
         addressCalls' = [addressCalls EXCEPT ![c] = call]
  PROVE  AddressStep(c, call)
BY DEF AddressesTyped, AddressStep

LEMMA StepTyped ==
  ASSUME AddressesTyped, NEW c \in Requests, NEW call, AddressStep(c, call), AddressCallOK(call)
  PROVE  DOMAIN addressCalls' = Requests /\ \A d \in Requests : AddressCallOK(addressCalls'[d])
BY AddressFree DEF AddressStep, AddressesTyped

\* The sets of requests after a step.
LEMMA StepSets ==
  ASSUME NEW c \in Requests, NEW call, AddressStep(c, call)
  PROVE  /\ Main' = IF call.op \notin {"form", None} THEN Main \cup {c} ELSE Main \ {c}
         /\ Writers' = IF call.op \in RowOps \cup {"save"} THEN Writers \cup {c} ELSE Writers \ {c}
BY AddressFree DEF AddressStep, Main, Writers, RowOps

\* A request frees what is busy for it, and claims no more than it is itself.
LEMMA StepWaited ==
  ASSUME AddressesTyped, Waited, NEW c \in Requests, NEW call, AddressStep(c, call),
         \/ busyId' = None
         \/ call.op \in RowOps /\ call.id = busyId' /\ call.stage # "forsaken"
         \/ busyId' = busyId /\ (addressCalls[c].op \notin RowOps \/ addressCalls[c].stage = "forsaken"),
         \/ saving' = None
         \/ saving' = c /\ call.op = "save" /\ call.stage # "forsaken"
         \/ saving' = saving /\ saving # c
  PROVE  Waited'
<1>1. ASSUME busyId' # None
      PROVE  \E d \in Requests : /\ addressCalls'[d].op \in RowOps /\ addressCalls'[d].id = busyId'
                                 /\ addressCalls'[d].stage # "forsaken"
  <2>1. CASE call.op \in RowOps /\ call.id = busyId' /\ call.stage # "forsaken"
    BY <2>1 DEF AddressStep
  <2>2. CASE busyId' = busyId /\ (addressCalls[c].op \notin RowOps \/ addressCalls[c].stage = "forsaken")
    <3>1. PICK d \in Requests : /\ addressCalls[d].op \in RowOps /\ addressCalls[d].id = busyId
                                /\ addressCalls[d].stage # "forsaken"
      BY <1>1, <2>2 DEF Waited
    <3>2. d # c /\ addressCalls'[d] = addressCalls[d]
      BY <2>2, <3>1 DEF AddressStep, RowOps
    <3> QED
      BY <2>2, <3>1, <3>2
  <2> QED
    BY <1>1, <2>1, <2>2
<1>2. ASSUME saving' # None
      PROVE  addressCalls'[saving'].op = "save" /\ addressCalls'[saving'].stage # "forsaken"
  <2>1. CASE saving' = c /\ call.op = "save" /\ call.stage # "forsaken"
    BY <2>1 DEF AddressStep
  <2>2. CASE saving' = saving /\ saving # c
    <3>1. saving \in Requests \ {c} /\ addressCalls[saving].op = "save"
          /\ addressCalls[saving].stage # "forsaken"
      BY <1>2, <2>2 DEF AddressesTyped, Waited
    <3>2. addressCalls'[saving] = addressCalls[saving]
      BY <3>1 DEF AddressStep
    <3> QED
      BY <2>2, <3>1, <3>2
  <2> QED
    BY <1>2, <2>1, <2>2
<1> QED
  BY <1>1, <1>2 DEF Waited

\* A step that changes no text, and whose request writes nothing new.
LEMMA StepKept ==
  ASSUME AddressesTyped, Kept, NEW c \in Requests, NEW call, AddressStep(c, call),
         UNCHANGED <<book, meant, careless>>,
         \/ call.op \notin RowOps \cup {"save"} /\ ~\E i \in Ids : JustSaved(c, i)
         \/ call.op \in RowOps /\ call.stage \notin {"sent", "forsaken"} /\ addressCalls[c].op = call.op
  PROVE  Kept'
<1>1. careless' => \A i \in Ids : meant'[i] = "unknown"
  BY DEF Kept
<1>2. ASSUME ~careless'
      PROVE  /\ \A d, e \in Writers' : d = e
             /\ \A d \in Writers' :
                  /\ addressCalls'[d].op = "default" /\ addressCalls'[d].stage \in {"sent", "forsaken"}
                       => addressCalls'[d].text = book'[addressCalls'[d].id]
                  /\ addressCalls'[d].op = "save" /\ addressCalls'[d].stage = "done"
                       /\ addressCalls'[d].made
                       => addressCalls'[d].text = book'[addressCalls'[d].id]
                  /\ addressCalls'[d].op = "save" /\ addressCalls'[d].stage = "forsaken"
                       => \A i \in Ids : addressCalls'[d].id \in {i, 0} => meant'[i] = "unknown"
             /\ \A i \in Ids : book'[i] # None =>
                  meant'[i] \in {book'[i], "unknown"} \/ \E d \in Writers' : JustSaved(d, i)'
  <2>1. Writers' \subseteq Writers
    BY StepSets DEF Writers, RowOps
  <2>2. \A d \in Writers' : d # c => addressCalls'[d] = addressCalls[d]
    BY <2>1 DEF Writers, AddressStep, RowOps
  <2>3. c \in Writers' => call.op \in RowOps /\ call.stage \notin {"sent", "forsaken"}
    BY StepSets DEF AddressStep
  <2>4. \A i \in Ids, d \in Writers : JustSaved(d, i) => d \in Writers' /\ JustSaved(d, i)'
    BY AddressFree DEF Writers, AddressStep, JustSaved, RowOps
  <2>5. addressCalls'[c] = call
    BY DEF AddressStep
  <2>6. \A d \in Writers' :
                  /\ addressCalls'[d].op = "default" /\ addressCalls'[d].stage \in {"sent", "forsaken"}
                       => addressCalls'[d].text = book'[addressCalls'[d].id]
                  /\ addressCalls'[d].op = "save" /\ addressCalls'[d].stage = "done"
                       /\ addressCalls'[d].made
                       => addressCalls'[d].text = book'[addressCalls'[d].id]
                  /\ addressCalls'[d].op = "save" /\ addressCalls'[d].stage = "forsaken"
                       => \A i \in Ids : addressCalls'[d].id \in {i, 0} => meant'[i] = "unknown"
    BY <1>2, <2>1, <2>2, <2>3, <2>5 DEF Kept, RowOps
  <2>7. \A i \in Ids : book'[i] # None =>
                  meant'[i] \in {book'[i], "unknown"} \/ \E d \in Writers' : JustSaved(d, i)'
    BY <1>2, <2>4 DEF Kept
  <2> QED
    BY <1>2, <2>1, <2>6, <2>7 DEF Kept
<1> QED
  BY <1>1, <1>2 DEF Kept

LEMMA ListLoads ==
  /\ AddressPages!Loading.op = "load" /\ AddressPages!Loading.stage = "list"
  /\ AddressCallOK(AddressPages!Loading)
BY AddressFree DEF AddressPages!Loading, AddressPages!Free, AddressCallOK, AddressCall, RowOps, Fields

\* The list is read anew.
LEMMA LoadListKeeps ==
  ASSUME AddressesInductive, NEW c \in Requests, AddressPages!Load(c)
  PROVE  AddressesInductive'
<1>1. /\ addressCalls[c] = AddressPages!Free
      /\ addressCalls' = [addressCalls EXCEPT ![c] = AddressPages!Loading]
      /\ addressSuspect' = (AddressUnder # {})
      /\ UNCHANGED <<book, list, busyId, editing, saving, meant, careless>>
  BY AddressUnderIs DEF AddressPages!Load, AddressesInductive
<1>2. AddressStep(c, AddressPages!Loading)
  BY <1>1, AddressUpdate DEF AddressesInductive
<1>3. AddressesTyped'
  BY <1>1, <1>2, ListLoads, StepTyped DEF AddressesInductive, AddressesTyped
<1>4. Waited'
  <2>1. saving = None \/ saving # c
    BY <1>1, AddressFree DEF AddressesInductive, AddressesTyped, Waited
  <2> QED
    BY <1>1, <1>2, <2>1, StepWaited, AddressFree DEF AddressesInductive, RowOps
<1>5. Dropped'
  BY <1>1, <1>2, ListLoads, AddressFree DEF AddressStep, AddressesInductive, Dropped
<1>6. ListHonest'
  <2> SUFFICES ASSUME ~addressSuspect' PROVE ListHonest'
    BY DEF ListHonest
  <2>1. Main = {}
    BY <1>1 DEF Main, AddressUnder
  <2>2. Main' = {c} /\ addressCalls'[c] = AddressPages!Loading
    BY <1>2, <2>1, StepSets, ListLoads, AddressFree DEF AddressStep
  <2> QED
    BY <2>2, ListLoads DEF ListHonest
<1>7. Kept'
  BY <1>1, <1>2, ListLoads, StepKept, AddressFree DEF AddressesInductive, JustSaved, RowOps
<1> QED
  BY <1>3, <1>4, <1>5, <1>6, <1>7 DEF AddressesInductive

\* What Change says of the promises that were made.
LEMMA ChangeSays ==
  ASSUME AddressesInductive, AddressPages!Change
  PROVE  /\ addressSuspect' \in BOOLEAN /\ careless' \in BOOLEAN
         /\ meant' \in [Ids -> Fields \cup {"unknown"}]
         /\ careless' => \A i \in Ids : meant'[i] = "unknown"
         /\ ~addressSuspect' => ~addressSuspect /\ AddressUnder = {}
         /\ ~careless' => ~careless /\ ~addressSuspect' /\ meant' = meant
<1>1. AddressPages!Under = AddressUnder /\ meant \in [Ids -> Fields \cup {"unknown"}]
  BY AddressUnderIs DEF AddressesInductive, AddressesTyped
<1>2. addressSuspect' = (addressSuspect \/ AddressUnder # {})
      /\ careless' = (careless \/ addressSuspect')
  BY <1>1 DEF AddressPages!Change
<1>3. careless' \in BOOLEAN /\ addressSuspect' \in BOOLEAN
  BY <1>2 DEF AddressesInductive, AddressesTyped
<1>4. meant' = IF careless' THEN [i \in Ids |-> "unknown"] ELSE meant
  BY DEF AddressPages!Change
<1> QED
  BY <1>1, <1>2, <1>3, <1>4

\* A change is sent: a row is made the default or deleted, or the form saves.
LEMMA SendKeeps ==
  ASSUME AddressesInductive, NEW c \in Requests, addressCalls[c] = AddressPages!Free,
         NEW op \in RowOps \cup {"save"}, NEW i \in Ids \cup {0}, NEW text \in Fields,
         NEW isDefault \in BOOLEAN,
         addressCalls' = [addressCalls EXCEPT ![c] = AddressPages!Sent(op, i, text, isDefault)],
         AddressPages!Change, UNCHANGED <<book, list, editing>>,
         \/ op = "save" /\ saving' = c /\ busyId' = busyId /\ editing # None
         \/ op \in RowOps /\ saving' = saving /\ busyId' = i /\ i \in Ids,
         op = "delete" => text = None,
         op = "default" => list # None /\ text = list[i]
  PROVE  AddressesInductive'
<1> DEFINE call == AddressPages!Sent(op, i, text, isDefault)
<1>1. /\ AddressCallOK(call) /\ call.op = op /\ call.id = i /\ call.text = text
      /\ call.stage = "sent"
  BY AddressFree DEF AddressPages!Sent, AddressPages!Free, AddressCallOK, AddressCall, RowOps
<1> HIDE DEF call
<1>2. AddressStep(c, call)
  BY AddressUpdate DEF AddressesInductive, call
<1>3. AddressesTyped'
  BY <1>1, <1>2, StepTyped, ChangeSays DEF AddressesInductive, AddressesTyped
<1>4. Waited'
  <2>1. saving = None \/ saving # c
    BY AddressFree DEF AddressesInductive, AddressesTyped, Waited
  <2>2. addressCalls[c].op \notin RowOps
    BY AddressFree DEF RowOps
  <2> QED
    BY <1>1, <1>2, <2>1, <2>2, StepWaited DEF AddressesInductive
<1>5. Dropped'
  BY <1>1, <1>2, AddressFree DEF AddressStep, AddressesInductive, Dropped, RowOps
<1>6. ~addressSuspect' => Main' = {c}
  <2>1. ~addressSuspect' => Main = {}
    BY ChangeSays DEF Main, AddressUnder
  <2> QED
    BY <1>1, <1>2, <2>1, StepSets, AddressFree DEF RowOps
<1>7. ListHonest'
  BY <1>1, <1>2, <1>6 DEF ListHonest, AddressStep, RowOps
<1>8. Kept'
  <2>1. careless' => \A j \in Ids : meant'[j] = "unknown"
    BY ChangeSays
  <2>2. ASSUME ~careless'
        PROVE  /\ Writers' = {c} /\ addressCalls'[c] = call
               /\ op = "default" => text = book[i]
               /\ \A j \in Ids : book'[j] # None => meant'[j] \in {book'[j], "unknown"}
    <3>1. ~careless /\ ~addressSuspect /\ meant' = meant /\ AddressUnder = {}
      BY <2>2, ChangeSays
    <3>2. Writers = {} /\ Main = {}
      BY <3>1, AddressFree DEF Writers, Main, AddressUnder, RowOps
    <3>3. Writers' = {c} /\ addressCalls'[c] = call
      BY <1>1, <1>2, <3>2, StepSets DEF AddressStep
    <3>4. list = book
      BY <3>1, <3>2 DEF AddressesInductive, ListHonest
    <3> QED
      BY <3>1, <3>2, <3>3, <3>4 DEF AddressesInductive, Kept
  <2> QED
    BY <1>1, <2>1, <2>2 DEF Kept
<1> QED
  BY <1>3, <1>4, <1>5, <1>7, <1>8 DEF AddressesInductive

LEMMA SendsKeep ==
  ASSUME AddressesInductive, NEW c \in Requests,
         AddressPages!MakeDefault(c) \/ AddressPages!ConfirmDelete(c) \/ AddressPages!Save(c)
  PROVE  AddressesInductive'
<1>0. AddressPages!Rows \in SUBSET Ids
  BY DEF AddressPages!Rows, AddressPages!Of
<1>1. CASE AddressPages!MakeDefault(c)
  <2>1. PICK i \in AddressPages!Rows :
          AddressPages!OnRow(c, i, AddressPages!Sent("default", i, list[i], TRUE))
    BY <1>1 DEF AddressPages!MakeDefault
  <2>2. i \in Ids /\ list # None /\ list[i] \in Fields
    BY <1>0, <2>1 DEF AddressPages!Rows, AddressesInductive, AddressesTyped, Books
  <2>3. PICK text \in Fields : text = list[i]
    BY <2>2
  <2>4. AddressPages!OnRow(c, i, AddressPages!Sent("default", i, text, TRUE))
    BY <2>1, <2>3
  <2>5. /\ addressCalls[c] = AddressPages!Free /\ busyId' = i /\ AddressPages!Change
        /\ UNCHANGED <<book, list, editing, saving>>
        /\ addressCalls' = [addressCalls EXCEPT ![c] = AddressPages!Sent("default", i, text, TRUE)]
    BY <2>4 DEF AddressPages!OnRow
  <2>6. /\ "default" \in RowOps \cup {"save"} /\ "default" \in RowOps /\ "default" # "delete"
        /\ i \in Ids \cup {0} /\ TRUE \in BOOLEAN
    BY <2>2 DEF RowOps
  <2> QED
    BY <2>2, <2>3, <2>5, <2>6, SendKeeps
<1>2. CASE AddressPages!ConfirmDelete(c)
  <2>1. PICK i \in AddressPages!Rows :
          AddressPages!OnRow(c, i, AddressPages!Sent("delete", i, None, FALSE))
    BY <1>2 DEF AddressPages!ConfirmDelete
  <2>2. i \in Ids /\ None \in Fields /\ FALSE \in BOOLEAN
    BY <1>0, <2>1 DEF Fields
  <2> QED
    BY <2>1, <2>2, SendKeeps DEF AddressPages!OnRow, RowOps
<1>3. CASE AddressPages!Save(c)
  <2>1. PICK text \in Texts, isDefault \in BOOLEAN :
          addressCalls' = [addressCalls EXCEPT ![c] =
                             AddressPages!Sent("save", editing.id, text, isDefault)]
    BY <1>3 DEF AddressPages!Save
  <2>2. editing # None /\ editing.id \in Ids \cup {0} /\ text \in Fields
    BY <1>3 DEF AddressPages!Save, AddressPages!OnList, AddressesInductive, AddressesTyped,
                Forms, Fields
  <2>3. PICK i \in Ids \cup {0} : i = editing.id
    BY <2>2
  <2>4. addressCalls' = [addressCalls EXCEPT ![c] =
                             AddressPages!Sent("save", i, text, isDefault)]
    BY <2>1, <2>3
  <2>5. /\ addressCalls[c] = AddressPages!Free /\ saving' = c /\ AddressPages!Change
        /\ UNCHANGED <<book, list, busyId, editing>>
    BY <1>3 DEF AddressPages!Save
  <2> QED
    BY <2>2, <2>4, <2>5, SendKeeps DEF RowOps
<1> QED
  BY <1>1, <1>2, <1>3

\* The form opens and reads, or reads again.
LEMMA FormReads ==
  ASSUME NEW i \in Ids \cup {0}
  PROVE  LET call == [AddressPages!Free EXCEPT !.op = "form", !.stage = "list", !.id = i]
         IN  call.op = "form" /\ AddressCallOK(call)
BY AddressFree DEF AddressPages!Free, AddressCallOK, AddressCall, RowOps, Fields

LEMMA ReadFormKeeps ==
  ASSUME AddressesInductive, NEW c \in Requests, AddressPages!Edit(c) \/ AddressPages!EditAgain(c)
  PROVE  AddressesInductive'
<1>1. PICK i \in Ids \cup {0} :
        /\ addressCalls[c] = AddressPages!Free
        /\ AddressStep(c, [AddressPages!Free EXCEPT !.op = "form", !.stage = "list", !.id = i])
        /\ editing' \in Forms
        /\ \/ editing = None /\ saving' = None
           \/ editing # None /\ saving' = saving
        /\ UNCHANGED <<book, list, busyId, meant, addressSuspect, careless>>
  <2>1. CASE AddressPages!Edit(c)
    <3>1. PICK i \in AddressPages!Rows :
            /\ editing' = [id |-> i, form |-> "reading"]
            /\ addressCalls' = [addressCalls EXCEPT ![c] =
                 [AddressPages!Free EXCEPT !.op = "form", !.stage = "list", !.id = i]]
      BY <2>1 DEF AddressPages!Edit
    <3>2. i \in Ids
      BY <3>1 DEF AddressPages!Rows, AddressPages!Of
    <3>3. editing' \in Forms
      BY <3>1, <3>2 DEF Forms
    <3>4. AddressStep(c, [AddressPages!Free EXCEPT !.op = "form", !.stage = "list", !.id = i])
      BY <3>1, AddressUpdate DEF AddressesInductive
    <3> QED
      BY <2>1, <3>2, <3>3, <3>4 DEF AddressPages!Edit, AddressPages!OnList
  <2>2. CASE AddressPages!EditAgain(c)
    <3>1. editing \in Forms
      BY <2>2 DEF AddressPages!EditAgain, AddressPages!OnList, AddressesInductive, AddressesTyped
    <3>2. editing.id \in Ids \cup {0} /\ editing' \in Forms
      BY <2>2, <3>1 DEF AddressPages!EditAgain, Forms
    <3>3. AddressStep(c, [AddressPages!Free EXCEPT !.op = "form", !.stage = "list",
                                                   !.id = editing.id])
      BY <2>2, ReadingIs DEF AddressPages!EditAgain, AddressStep
    <3> QED
      BY <2>2, <3>2, <3>3 DEF AddressPages!EditAgain, AddressPages!OnList
  <2> QED
    BY <2>1, <2>2
<1> DEFINE call == [AddressPages!Free EXCEPT !.op = "form", !.stage = "list", !.id = i]
<1>2. call.op = "form" /\ AddressCallOK(call)
  BY FormReads
<1> HIDE DEF call
<1>3. AddressStep(c, call) /\ editing' # None
  BY <1>1, NoneIsNoForm DEF call, Forms
<1>4. AddressesTyped'
  BY <1>1, <1>2, <1>3, StepTyped DEF AddressesInductive, AddressesTyped
<1>5. Waited'
  <2>1. saving = None \/ saving # c
    BY <1>1, AddressFree DEF AddressesInductive, AddressesTyped, Waited
  <2> QED
    BY <1>1, <1>3, <2>1, StepWaited, AddressFree DEF AddressesInductive, RowOps
<1>6. Dropped'
  BY <1>3 DEF Dropped
<1>7. ListHonest'
  <2>1. Main' = Main
    BY <1>1, <1>2, <1>3, StepSets, AddressFree DEF Main
  <2>2. \A d \in Main : addressCalls'[d] = addressCalls[d]
    BY <1>1, <1>3, AddressFree DEF Main, AddressStep
  <2> QED
    BY <1>1, <1>3, <2>1, <2>2 DEF AddressesInductive, ListHonest
<1>8. Kept'
  BY <1>1, <1>2, <1>3, StepKept, AddressFree DEF AddressesInductive, JustSaved, RowOps
<1> QED
  BY <1>4, <1>5, <1>6, <1>7, <1>8 DEF AddressesInductive

\* The server makes a change, or one that the phone has given up on.
LEMMA DoKeeps ==
  ASSUME AddressesInductive, NEW c \in Requests, AddressPages!Do(c)
  PROVE  AddressesInductive'
<1> DEFINE old == addressCalls[c]
<1>0. /\ AddressCallOK(old) /\ book \in Books
      /\ old.stage \in {"sent", "forsaken"} /\ old.op \in RowOps \cup {"save"}
  BY AddressFree DEF AddressPages!Do, AddressesInductive, AddressesTyped, AddressCallOK,
                     AddressCall, RowOps
<1>a. PICK dropped \in BOOLEAN : dropped = AddressPages!Drops(c)
  BY DEF AddressPages!Drops
<1>b. dropped => old.op = "save"
  BY <1>a DEF AddressPages!Drops
<1> DEFINE made(i) == [old EXCEPT !.stage = "done", !.id = i, !.made = ~dropped]
<1>1. PICK i \in Ids :
        /\ old.id \in {i, 0} /\ (old.op \in RowOps => old.id = i)
        /\ book' = IF dropped THEN book ELSE [book EXCEPT ![i] = old.text]
        /\ addressCalls' = [addressCalls EXCEPT ![c] =
             IF old.stage = "forsaken" THEN AddressPages!Free ELSE made(i)]
        /\ UNCHANGED <<list, busyId, editing, saving, meant, addressSuspect, careless>>
  <2>1. PICK i \in IF addressCalls[c].id = AddressPages!New THEN Ids \ AddressPages!Of(book)
                   ELSE {addressCalls[c].id} \cap AddressPages!Of(book) :
          /\ book' = IF AddressPages!Drops(c) THEN book
                     ELSE [book EXCEPT ![i] = addressCalls[c].text]
          /\ addressCalls' = [addressCalls EXCEPT ![c] =
               IF addressCalls[c].stage = "forsaken" THEN AddressPages!Free
               ELSE [addressCalls[c] EXCEPT !.stage = "done", !.id = i,
                                            !.made = ~AddressPages!Drops(c)]]
    BY DEF AddressPages!Do, AddressesInductive, AddressesTyped
  <2>2. i \in Ids /\ old.id \in {i, 0} /\ (old.op \in RowOps => old.id = i)
    BY <1>0, <2>1, NewIsNoRow DEF AddressPages!Of, AddressPages!New, AddressCallOK
  <2>3. addressCalls' = [addressCalls EXCEPT ![c] =
             IF old.stage = "forsaken" THEN AddressPages!Free ELSE made(i)]
    BY <1>a, <2>1 DEF AddressesInductive, AddressesTyped
  <2>4. UNCHANGED <<list, busyId, editing, saving, meant, addressSuspect, careless>>
    BY DEF AddressPages!Do
  <2> QED
    BY <1>a, <2>1, <2>2, <2>3, <2>4
<1> DEFINE call == IF old.stage = "forsaken" THEN AddressPages!Free ELSE made(i)
<1>2. old.stage # "forsaken" =>
        /\ call \in AddressCall /\ call.op = old.op /\ call.id = i /\ call.text = old.text
        /\ call.stage = "done" /\ call.made = ~dropped
  BY <1>0, <1>a DEF AddressCallOK, AddressCall
<1>3. old.stage = "forsaken" => call = AddressPages!Free
  OBVIOUS
<1>4. AddressStep(c, call)
  BY <1>1, AddressUpdate DEF AddressesInductive
<1> HIDE DEF call, made
<1>5. AddressCallOK(call)
  <2>1. CASE old.stage = "forsaken"
    BY <1>3, <2>1, AddressFree
  <2>2. CASE old.stage # "forsaken"
    BY <1>0, <1>1, <1>2, <2>2, AddressFree DEF AddressCallOK, RowOps
  <2> QED
    BY <2>1, <2>2
<1>6. /\ book' \in Books /\ book'[i] = IF dropped THEN book[i] ELSE old.text
      /\ \A j \in Ids \ {i} : book'[j] = book[j]
  <2>1. old.text \in Fields
    BY <1>0 DEF AddressCallOK, AddressCall
  <2> QED
    BY <1>0, <1>1, <2>1 DEF Books
<1>7. AddressesTyped'
  BY <1>1, <1>4, <1>5, <1>6, StepTyped DEF AddressesInductive, AddressesTyped
<1>8. Waited'
  <2>1. CASE old.stage = "forsaken"
    <3>1. saving = None \/ saving # c
      BY <2>1 DEF AddressesInductive, Waited
    <3> QED
      BY <1>1, <1>4, <2>1, <3>1, StepWaited DEF AddressesInductive
  <2>2. CASE old.stage # "forsaken"
    <3>1. busyId = None \/ busyId # i \/ call.op \notin RowOps
            \/ (call.op \in RowOps /\ call.id = busyId /\ call.stage # "forsaken")
      BY <1>2, <2>2
    <3>2. \A d \in Requests \ {c} : addressCalls[d].op # "form" => addressCalls'[d] = addressCalls[d]
      BY <1>4 DEF AddressStep
    <3>3. addressCalls'[c] = call
      BY <1>4 DEF AddressStep
    <3>4. \A d \in Requests :
            addressCalls[d].op \in RowOps \cup {"save"} /\ addressCalls[d].stage # "forsaken" =>
              /\ addressCalls'[d].op = addressCalls[d].op /\ addressCalls'[d].stage # "forsaken"
              /\ addressCalls[d].op \in RowOps => addressCalls'[d].id = addressCalls[d].id
      BY <1>1, <1>2, <2>2, <3>2, <3>3 DEF RowOps
    <3>5. saving # None => saving \in Requests
      BY DEF AddressesInductive, AddressesTyped
    <3> QED
      BY <1>1, <3>4, <3>5 DEF AddressesInductive, Waited
  <2> QED
    BY <2>1, <2>2
<1>9. Dropped'
  BY <1>0, <1>1, <1>2, <1>3, <1>4, AddressFree DEF AddressStep, AddressesInductive, Dropped, RowOps
<1>10. ListHonest'
  <2> SUFFICES ASSUME ~addressSuspect' PROVE ListHonest'
    BY DEF ListHonest
  <2>1. c \in Main /\ ~addressSuspect
    BY <1>0, <1>1, AddressFree DEF Main, RowOps
  <2>2. Main = {c} /\ old.stage # "forsaken" /\ (old.op = "save" => saving = c /\ editing # None)
    BY <2>1 DEF AddressesInductive, ListHonest
  <2>3. Main' = {c} /\ addressCalls'[c] = call
    BY <1>0, <1>2, <1>4, <2>2, StepSets, AddressFree DEF AddressStep, RowOps
  <2> QED
    BY <1>1, <1>2, <2>2, <2>3 DEF ListHonest
<1>11. Kept'
  <2>1. careless' => \A j \in Ids : meant'[j] = "unknown"
    BY <1>1 DEF AddressesInductive, Kept
  <2>2. SUFFICES ASSUME ~careless PROVE Kept'
    BY <1>1, <2>1 DEF Kept, AddressesInductive, AddressesTyped
  <2>3. Writers = {c}
    BY <1>0, <2>2 DEF Writers, AddressesInductive, Kept
  <2>4. \A j \in Ids : book[j] # None => meant[j] \in {book[j], "unknown"}
    BY <1>0, <2>2, <2>3 DEF AddressesInductive, Kept, JustSaved
  <2>5. CASE old.stage = "forsaken"
    <3>1. Writers' = {}
      BY <1>3, <1>4, <2>3, <2>5, StepSets, AddressFree DEF RowOps
    <3>2. book'[i] # None => meant[i] \in {book'[i], "unknown"}
      <4>1. CASE old.op = "default"
        BY <1>1, <1>b, <1>6, <2>2, <2>3, <2>4, <2>5, <4>1 DEF AddressesInductive, Kept, RowOps
      <4>2. CASE old.op = "delete"
        BY <1>0, <1>b, <1>6, <4>2 DEF AddressCallOK
      <4>3. CASE old.op = "save"
        BY <1>1, <2>2, <2>3, <2>5, <4>3 DEF AddressesInductive, Kept
      <4> QED
        BY <1>0, <4>1, <4>2, <4>3 DEF RowOps
    <3> QED
      BY <1>1, <1>6, <2>1, <2>4, <3>1, <3>2 DEF Kept
  <2>6. CASE old.stage # "forsaken"
    <3>1. Writers' = {c} /\ addressCalls'[c] = call
      BY <1>0, <1>2, <1>4, <2>3, <2>6, StepSets DEF AddressStep
    <3>2. book'[i] # None =>
            meant[i] \in {book'[i], "unknown"} \/ JustSaved(c, i)'
      <4>1. CASE old.op = "default"
        BY <1>0, <1>1, <1>b, <1>6, <2>2, <2>3, <2>4, <4>1 DEF AddressesInductive, Kept, RowOps
      <4>2. CASE old.op = "delete"
        BY <1>0, <1>b, <1>6, <4>2 DEF AddressCallOK
      <4>3. CASE old.op = "save" /\ ~dropped
        BY <1>2, <2>6, <3>1, <4>3 DEF JustSaved
      <4>4. CASE dropped
        BY <1>6, <2>4, <4>4
      <4> QED
        BY <1>0, <4>1, <4>2, <4>3, <4>4 DEF RowOps
    <3>3. call.made => call.text = book'[call.id]
      BY <1>2, <1>6, <2>6
    <3> QED
      BY <1>1, <1>2, <1>6, <2>1, <2>4, <2>6, <3>1, <3>2, <3>3 DEF Kept
  <2> QED
    BY <2>5, <2>6
<1> QED
  BY <1>7, <1>8, <1>9, <1>10, <1>11 DEF AddressesInductive

\* The server lists the addresses, or the list asks for it after its change.
LEMMA ReadListKeeps ==
  ASSUME AddressesInductive, NEW c \in Requests, AddressPages!List(c) \/ AddressPages!Reload(c)
  PROVE  AddressesInductive'
<1> DEFINE old == addressCalls[c]
<1>0. /\ AddressCallOK(old) /\ book \in Books
      /\ UNCHANGED <<book, list, busyId, editing, saving, meant, addressSuspect, careless>>
  BY DEF AddressPages!List, AddressPages!Reload, AddressesInductive, AddressesTyped
<1>1. PICK call :
        /\ AddressStep(c, call) /\ call \in AddressCall
        /\ call.op = old.op /\ call.id = old.id /\ call.text = old.text
        /\ \/ /\ call.stage = "read" /\ old.stage = "list"
              /\ old.op # "form" => call.answer = book
           \/ /\ call.stage = "list" /\ old.stage = "done" /\ old.op # "save"
  <2>1. CASE AddressPages!List(c)
    <3>1. PICK answer \in Books \cup BOOLEAN :
            /\ old.op # "form" => answer = book
            /\ answer = IF old.op = "form" THEN book[old.id] # None ELSE book
      BY <1>0
    <3> DEFINE call == [old EXCEPT !.stage = "read", !.answer = answer]
    <3>2. call \in AddressCall /\ call.op = old.op /\ call.id = old.id /\ call.text = old.text
          /\ call.stage = "read" /\ call.answer = answer
      BY <1>0 DEF AddressCallOK, AddressCall
    <3>3. addressCalls' = [addressCalls EXCEPT ![c] = call] /\ old.stage = "list"
      BY <2>1, <3>1 DEF AddressPages!List, AddressesInductive, AddressesTyped
    <3> HIDE DEF call
    <3>4. AddressStep(c, call)
      BY <3>3, AddressUpdate DEF AddressesInductive
    <3> QED
      BY <3>1, <3>2, <3>3, <3>4
  <2>2. CASE AddressPages!Reload(c)
    <3> DEFINE call == [old EXCEPT !.stage = "list"]
    <3>1. call \in AddressCall /\ call.op = old.op /\ call.id = old.id /\ call.text = old.text
          /\ call.stage = "list"
      BY <1>0 DEF AddressCallOK, AddressCall
    <3>2. addressCalls' = [addressCalls EXCEPT ![c] = call] /\ old.stage = "done"
          /\ old.op # "save"
      BY <2>2 DEF AddressPages!Reload, AddressesInductive, AddressesTyped
    <3> HIDE DEF call
    <3>3. AddressStep(c, call)
      BY <3>2, AddressUpdate DEF AddressesInductive
    <3> QED
      BY <3>1, <3>2, <3>3
  <2> QED
    BY <2>1, <2>2
<1>2. old.op \in RowOps \cup {"load", "form"} /\ (old.stage = "done" => old.op \in RowOps)
  BY <1>0, <1>1, AddressFree DEF AddressCallOK, AddressCall
<1>3. AddressCallOK(call)
  BY <1>0, <1>1, <1>2, AddressFree DEF AddressCallOK, RowOps
<1>4. AddressesTyped'
  BY <1>0, <1>1, <1>3, StepTyped DEF AddressesInductive, AddressesTyped
<1>5. Waited'
  <2>1. saving = None \/ saving # c
    BY <1>1, <1>2, AddressFree DEF AddressesInductive, Waited, RowOps
  <2>2. CASE old.op \notin RowOps
    BY <1>0, <1>1, <2>1, <2>2, StepWaited DEF AddressesInductive
  <2>3. CASE old.op \in RowOps /\ old.id = busyId
    BY <1>0, <1>1, <2>1, <2>3, StepWaited DEF AddressesInductive
  <2>4. CASE old.op \in RowOps /\ old.id # busyId
    <3>1. \A d \in Requests \ {c} : addressCalls[d].op # "form" => addressCalls'[d] = addressCalls[d]
      BY <1>1 DEF AddressStep
    <3> QED
      BY <1>0, <2>1, <2>4, <3>1 DEF AddressesInductive, AddressesTyped, Waited, RowOps
  <2> QED
    BY <2>2, <2>3, <2>4
<1>6. Dropped'
  BY <1>0, <1>1, AddressFree DEF AddressStep, AddressesInductive, Dropped
<1>7. ListHonest'
  <2> SUFFICES ASSUME ~addressSuspect' PROVE ListHonest'
    BY DEF ListHonest
  <2>1. Main' = Main
    BY <1>1, StepSets, AddressFree DEF Main
  <2>2. \A d \in Main \ {c} : addressCalls'[d] = addressCalls[d]
    BY <1>1, AddressFree DEF Main, AddressStep
  <2>3. addressCalls'[c] = call /\ (c \in Main => old.op # "form")
    BY <1>1 DEF AddressStep, Main
  <2> QED
    BY <1>0, <1>1, <1>2, <2>1, <2>2, <2>3 DEF AddressesInductive, ListHonest, RowOps
<1>8. Kept'
  BY <1>0, <1>1, <1>2, StepKept, AddressFree DEF AddressesInductive, JustSaved, RowOps
<1> QED
  BY <1>4, <1>5, <1>6, <1>7, <1>8 DEF AddressesInductive

\* An answer is shown, or a change that was given up is not made.
LEMMA ShownKeeps ==
  ASSUME AddressesInductive, NEW c \in Requests,
         AddressPages!Shown(c) \/ AddressPages!FormShown(c) \/ AddressPages!Vanish(c)
  PROVE  AddressesInductive'
<1> DEFINE old == addressCalls[c]
<1>0. /\ AddressCallOK(old) /\ old.op # None
      /\ AddressStep(c, AddressPages!Free)
      /\ UNCHANGED <<book, meant, addressSuspect, careless>>
  BY AddressUpdate, AddressFree DEF AddressPages!Shown, AddressPages!FormShown, AddressPages!Vanish,
       AddressesInductive, AddressesTyped, AddressCallOK
<1>1. \/ /\ old.stage = "read" /\ old.op \in RowOps \cup {"load"} /\ list' = old.answer
         /\ list' \in Books
         /\ editing' = editing
         /\ busyId' = (IF old.op \in RowOps THEN None ELSE busyId)
         /\ saving' = (IF saving = c THEN None ELSE saving)
      \/ /\ old.op = "form" /\ (editing' = None <=> editing = None)
         /\ editing' \in Forms \cup {None} /\ UNCHANGED <<list, busyId, saving>>
      \/ /\ old.stage = "forsaken" /\ UNCHANGED <<list, busyId, editing, saving>>
  <2>1. CASE AddressPages!Shown(c)
    <3>1. old.stage = "read" /\ old.op # "form" /\ list' = old.answer /\ editing' = editing
      BY <2>1 DEF AddressPages!Shown
    <3>2. old.op \in RowOps \cup {"load"} /\ list' \in Books
      BY <1>0, <3>1 DEF AddressCallOK, AddressCall
    <3> QED
      BY <2>1, <3>1, <3>2 DEF AddressPages!Shown, AddressPages!Over, RowOps
  <2>2. CASE AddressPages!FormShown(c)
    <3>1. old.op = "form"
      BY <2>2 DEF AddressPages!FormShown
    <3>2. editing # None /\ editing \in Forms
      BY <3>1 DEF AddressesInductive, AddressesTyped, Dropped
    <3>3. PICK how \in {"ready", "missing"} : editing' = [editing EXCEPT !.form = how]
      BY <2>2 DEF AddressPages!FormShown
    <3>4. editing' \in Forms /\ editing' # None
      BY <3>2, <3>3, NoneIsNoForm DEF Forms
    <3> QED
      BY <2>2, <3>1, <3>2, <3>4 DEF AddressPages!FormShown
  <2>3. CASE AddressPages!Vanish(c)
    BY <2>3 DEF AddressPages!Vanish
  <2> QED
    BY <2>1, <2>2, <2>3
<1>2. AddressesTyped'
  BY <1>0, <1>1, AddressFree, StepTyped DEF AddressesInductive, AddressesTyped
<1>3. Waited'
  <2>1. \/ saving' = None
        \/ saving' = saving /\ saving # c
    BY <1>1, AddressFree DEF AddressesInductive, Waited
  <2>2. \/ busyId' = None
        \/ busyId' = busyId /\ (old.op \notin RowOps \/ old.stage = "forsaken")
    BY <1>1 DEF RowOps
  <2> QED
    BY <1>0, <2>1, <2>2, StepWaited DEF AddressesInductive
<1>4. Dropped'
  BY <1>0, <1>1, AddressFree DEF AddressStep, AddressesInductive, Dropped
<1>5. ListHonest'
  <2> SUFFICES ASSUME ~addressSuspect' PROVE ListHonest'
    BY DEF ListHonest
  <2>1. ~addressSuspect /\ Main' = Main \ {c}
    BY <1>0, StepSets, AddressFree
  <2>2. CASE old.op = "form"
    <3>1. Main' = Main /\ \A d \in Main : addressCalls'[d] = addressCalls[d]
      BY <1>0, <2>1, <2>2, AddressFree DEF Main, AddressStep
    <3>2. list' = list /\ saving' = saving /\ (editing' = None <=> editing = None)
      BY <1>0, <1>1, <2>2 DEF RowOps, AddressCallOK
    <3> QED
      BY <1>0, <2>1, <3>1, <3>2 DEF AddressesInductive, ListHonest
  <2>3. CASE old.op # "form"
    <3>1. c \in Main
      BY <1>0, <2>3 DEF Main
    <3>2. Main = {c} /\ old.stage # "forsaken" /\ (old.stage = "read" => old.answer = book)
      BY <2>1, <3>1 DEF AddressesInductive, ListHonest
    <3> QED
      BY <1>0, <1>1, <2>1, <2>3, <3>2 DEF ListHonest
  <2> QED
    BY <2>2, <2>3
<1>6. Kept'
  <2>1. ~\E i \in Ids : JustSaved(c, i)
    BY <1>1, AddressFree DEF JustSaved, RowOps
  <2> QED
    BY <1>0, <2>1, StepKept, AddressFree DEF AddressesInductive, RowOps
<1> QED
  BY <1>2, <1>3, <1>4, <1>5, <1>6 DEF AddressesInductive

\* The form is left: its read is dropped, and the list is read anew.
LEMMA FocusedSteps ==
  ASSUME AddressesTyped, NEW c \in Requests, AddressPages!Focused(c)
  PROVE  /\ AddressStep(c, AddressPages!Loading) /\ editing' = None
         /\ addressSuspect' \in BOOLEAN
         /\ \A d \in Requests : addressCalls'[d].op # "form"
         /\ ~addressSuspect' => Main \subseteq {c}
<1>1. /\ editing' = None
      /\ addressCalls' = [d \in Requests |->
           IF d = c THEN AddressPages!Loading
           ELSE IF addressCalls[d].op = "form" THEN AddressPages!Free ELSE addressCalls[d]]
  BY ReadingIs DEF AddressPages!Focused
<1>2. addressSuspect' = (AddressPages!Under \ (AddressPages!Reading \cup {c}) # {})
  BY DEF AddressPages!Focused
<1>3. Main \subseteq AddressPages!Under /\ \A d \in Main : d \notin AddressPages!Reading
  BY AddressUnderIs, ReadingIs DEF Main, AddressUnder
<1>4. ~addressSuspect' => Main \subseteq {c}
  BY <1>2, <1>3
<1> QED
  BY <1>1, <1>2, <1>4, ListLoads, AddressFree DEF AddressStep

LEMMA LeaveKeeps ==
  ASSUME AddressesInductive, NEW c \in Requests, AddressPages!Leave(c)
  PROVE  AddressesInductive'
<1>1. /\ addressCalls[c] = AddressPages!Free \/ addressCalls[c].op = "form"
      /\ AddressPages!Focused(c) /\ saving' = None
      /\ UNCHANGED <<book, list, busyId, meant, careless>>
  BY ReadingIs DEF AddressPages!Leave
<1>2. addressCalls[c].op \in {"form", None}
  BY <1>1, AddressFree
<1>3. /\ AddressStep(c, AddressPages!Loading) /\ editing' = None
      /\ addressSuspect' \in BOOLEAN
      /\ \A d \in Requests : addressCalls'[d].op # "form"
      /\ ~addressSuspect' => Main \subseteq {c}
  BY <1>1, FocusedSteps DEF AddressesInductive
<1>4. AddressesTyped'
  BY <1>1, <1>3, ListLoads, StepTyped DEF AddressesInductive, AddressesTyped
<1>5. Waited'
  BY <1>1, <1>2, <1>3, StepWaited, AddressFree DEF AddressesInductive, RowOps
<1>6. Dropped'
  BY <1>3 DEF Dropped
<1>7. ListHonest'
  <2> SUFFICES ASSUME ~addressSuspect' PROVE ListHonest'
    BY DEF ListHonest
  <2>1. Main' = {c} /\ addressCalls'[c] = AddressPages!Loading
    BY <1>3, StepSets, ListLoads, AddressFree DEF AddressStep
  <2> QED
    BY <2>1, ListLoads DEF ListHonest
<1>8. Kept'
  BY <1>1, <1>2, <1>3, ListLoads, StepKept, AddressFree DEF AddressesInductive, JustSaved, RowOps
<1> QED
  BY <1>4, <1>5, <1>6, <1>7, <1>8 DEF AddressesInductive

\* The user is told that the address is saved.
LEMMA SavedKeeps ==
  ASSUME AddressesInductive, NEW c \in Requests, AddressPages!Saved(c)
  PROVE  AddressesInductive'
<1> DEFINE old == addressCalls[c]
<1>0. /\ AddressCallOK(old) /\ old.stage = "done" /\ old.op = "save"
      /\ old.id \in Ids /\ old.text \in Fields
      /\ UNCHANGED <<book, list, careless>> /\ busyId' = busyId
      /\ saving' = IF saving = c THEN None ELSE saving
  BY DEF AddressPages!Saved, AddressPages!Over, AddressesInductive, AddressesTyped,
         AddressCallOK, AddressCall
<1>1. meant' = IF careless \/ ~old.made THEN meant ELSE [meant EXCEPT ![old.id] = old.text]
  BY DEF AddressPages!Saved
<1>2. PICK call \in {AddressPages!Free, AddressPages!Loading} :
        /\ AddressStep(c, call) /\ editing' \in Forms \cup {None} /\ addressSuspect' \in BOOLEAN
        /\ \/ saving = c /\ call = AddressPages!Loading /\ (~addressSuspect' => Main \subseteq {c})
           \/ saving # c /\ call = AddressPages!Free /\ UNCHANGED <<editing, addressSuspect>>
        /\ editing' = None => \A d \in Requests : addressCalls'[d].op # "form"
  <2>1. CASE saving = c
    <3>1. AddressPages!Focused(c)
      BY <2>1 DEF AddressPages!Saved
    <3> QED
      BY <2>1, <3>1, FocusedSteps DEF AddressesInductive
  <2>2. CASE saving # c
    <3>1. /\ addressCalls' = [addressCalls EXCEPT ![c] = AddressPages!Free]
          /\ UNCHANGED <<editing, addressSuspect>>
      BY <2>2 DEF AddressPages!Saved
    <3>2. AddressStep(c, AddressPages!Free)
      BY <3>1, AddressUpdate DEF AddressesInductive
    <3>3. editing' = None => \A d \in Requests : addressCalls'[d].op # "form"
      BY <3>1, <3>2, AddressFree DEF AddressStep, AddressesInductive, Dropped
    <3> QED
      BY <2>2, <3>1, <3>2, <3>3 DEF AddressesInductive, AddressesTyped
  <2> QED
    BY <2>1, <2>2
<1>3. AddressCallOK(call) /\ call.op \in {"load", None} /\ call.stage # "forsaken" /\ call.stage # "read"
  BY ListLoads, AddressFree
<1>4. /\ meant' \in [Ids -> Fields \cup {"unknown"}]
      /\ careless \/ ~old.made => meant' = meant
      /\ ~careless /\ old.made => meant'[old.id] = old.text /\ \A i \in Ids \ {old.id} : meant'[i] = meant[i]
  BY <1>0, <1>1 DEF AddressesInductive, AddressesTyped
<1>5. AddressesTyped'
  BY <1>0, <1>2, <1>3, <1>4, StepTyped DEF AddressesInductive, AddressesTyped
<1>6. Waited'
  BY <1>0, <1>2, StepWaited, AddressFree DEF AddressesInductive, RowOps
<1>7. Dropped'
  BY <1>2 DEF Dropped
<1>8. ListHonest'
  <2> SUFFICES ASSUME ~addressSuspect' PROVE ListHonest'
    BY DEF ListHonest
  <2>1. c \in Main
    BY <1>0, AddressFree DEF Main
  <2>2. saving = c /\ call = AddressPages!Loading
    BY <1>0, <1>2, <2>1 DEF AddressesInductive, ListHonest
  <2>3. Main' = {c} /\ addressCalls'[c] = AddressPages!Loading
    BY <1>2, <2>1, <2>2, StepSets, ListLoads, AddressFree DEF AddressStep
  <2> QED
    BY <2>3, ListLoads DEF ListHonest
<1>9. Kept'
  <2>1. careless' => \A i \in Ids : meant'[i] = "unknown"
    BY <1>0, <1>4 DEF AddressesInductive, Kept
  <2>2. SUFFICES ASSUME ~careless PROVE Kept'
    BY <1>0, <2>1 DEF Kept, AddressesInductive, AddressesTyped
  <2>3. Writers = {c} /\ (old.made => old.text = book[old.id])
    BY <1>0, <2>2 DEF Writers, AddressesInductive, Kept
  <2>4. Writers' = {}
    BY <1>2, <1>3, <2>3, StepSets, AddressFree DEF RowOps
  <2>5. \A i \in Ids : book[i] # None => meant'[i] \in {book[i], "unknown"}
    BY <1>0, <1>4, <2>2, <2>3 DEF AddressesInductive, Kept, JustSaved
  <2> QED
    BY <1>0, <2>1, <2>4, <2>5 DEF Kept
<1> QED
  BY <1>5, <1>6, <1>7, <1>8, <1>9 DEF AddressesInductive

\* A request fails; the change it asked for can still be made.
LEMMA AddressFailKeeps ==
  ASSUME AddressesInductive, NEW c \in Requests, AddressPages!Fail(c)
  PROVE  AddressesInductive'
<1> DEFINE old == addressCalls[c]
<1>0. /\ AddressCallOK(old) /\ old.stage \notin {"free", "forsaken"} /\ old.op # None
      /\ UNCHANGED <<book, list, careless>> /\ addressSuspect' = TRUE
      /\ saving' = (IF saving = c THEN None ELSE saving)
      /\ busyId' = (IF old.op \in RowOps THEN None ELSE busyId)
  BY AddressFree DEF AddressPages!Fail, AddressPages!Ended, AddressPages!Over, RowOps,
       AddressesInductive, AddressesTyped, AddressCallOK
<1>1. /\ meant' \in [Ids -> Fields \cup {"unknown"}]
      /\ \A i \in Ids : meant'[i] = IF old.op = "save" /\ old.id \in {i, 0}
                                    THEN "unknown" ELSE meant[i]
  BY DEF AddressPages!Fail, AddressPages!New, AddressesInductive, AddressesTyped
<1>2. editing' \in Forms \cup {None} /\ (editing' = None <=> editing = None)
  <2>1. CASE old.op # "form"
    BY <2>1 DEF AddressPages!Fail, AddressPages!Ended, AddressesInductive, AddressesTyped
  <2>2. CASE old.op = "form"
    <3>1. editing \in Forms /\ editing # None
      BY <2>2 DEF AddressesInductive, AddressesTyped, Dropped
    <3>2. editing' = [editing EXCEPT !.form = "missing"]
      BY <2>2 DEF AddressPages!Fail, AddressPages!Ended
    <3> QED
      BY <3>1, <3>2, NoneIsNoForm DEF Forms
  <2> QED
    BY <2>1, <2>2
<1> DEFINE given == [old EXCEPT !.stage = "forsaken"]
           call == IF old.stage = "sent" THEN given ELSE AddressPages!Free
<1>3. /\ old.stage = "sent" => /\ call \in AddressCall /\ call.op = old.op /\ call.id = old.id
                               /\ call.text = old.text /\ call.stage = "forsaken"
                               /\ old.op \in RowOps \cup {"save"}
      /\ old.stage # "sent" => call = AddressPages!Free
  BY <1>0 DEF AddressCallOK, AddressCall
<1>4. AddressStep(c, call)
  <2>1. addressCalls' = [addressCalls EXCEPT ![c] = call]
    BY DEF AddressPages!Fail, AddressesInductive, AddressesTyped
  <2> QED
    BY <2>1, AddressUpdate DEF AddressesInductive
<1> HIDE DEF given, call
<1>5. AddressCallOK(call)
  <2>1. CASE old.stage = "sent"
    BY <1>0, <1>3, <2>1, AddressFree DEF AddressCallOK, RowOps
  <2>2. CASE old.stage # "sent"
    BY <1>3, <2>2, AddressFree
  <2> QED
    BY <2>1, <2>2
<1>6. AddressesTyped'
  BY <1>0, <1>1, <1>2, <1>4, <1>5, StepTyped DEF AddressesInductive, AddressesTyped
<1>7. Waited'
  BY <1>0, <1>4, StepWaited DEF AddressesInductive
<1>8. Dropped'
  BY <1>2, <1>3, <1>4, AddressFree DEF AddressStep, AddressesInductive, Dropped, RowOps
<1>9. ListHonest'
  BY <1>0 DEF ListHonest
<1>10. Kept'
  <2>1. careless' => \A i \in Ids : meant'[i] = "unknown"
    BY <1>0, <1>1 DEF AddressesInductive, Kept
  <2>2. SUFFICES ASSUME ~careless PROVE Kept'
    BY <1>0, <2>1 DEF Kept, AddressesInductive, AddressesTyped
  <2>3. Writers' \subseteq Writers /\ addressCalls'[c] = call
    BY <1>3, <1>4, StepSets, AddressFree DEF Writers, AddressStep, RowOps
  <2>4. \A d \in Writers \ {c} : d \in Writers' /\ addressCalls'[d] = addressCalls[d]
    BY <1>4, AddressFree DEF Writers, AddressStep, RowOps
  <2>5. \A i \in Ids : meant[i] = "unknown" => meant'[i] = "unknown"
    BY <1>1
  <2>6. ASSUME NEW d \in Writers'
        PROVE  /\ addressCalls'[d].op = "default" /\ addressCalls'[d].stage \in {"sent", "forsaken"}
                    => addressCalls'[d].text = book'[addressCalls'[d].id]
               /\ addressCalls'[d].op = "save" /\ addressCalls'[d].stage = "done"
                    /\ addressCalls'[d].made
                    => addressCalls'[d].text = book'[addressCalls'[d].id]
               /\ addressCalls'[d].op = "save" /\ addressCalls'[d].stage = "forsaken"
                    => \A i \in Ids : addressCalls'[d].id \in {i, 0} => meant'[i] = "unknown"
    <3>1. CASE d # c
      BY <1>0, <2>2, <2>3, <2>4, <2>5, <2>6, <3>1 DEF AddressesInductive, Kept
    <3>2. CASE d = c
      <4>1. old.stage = "sent" /\ c \in Writers
        BY <1>3, <2>3, <2>6, <3>2, AddressFree DEF Writers, RowOps
      <4>2. old.op = "default" => old.text = book[old.id]
        BY <2>2, <4>1 DEF AddressesInductive, Kept
      <4> QED
        BY <1>0, <1>1, <1>3, <2>3, <3>2, <4>1, <4>2
    <3> QED
      BY <3>1, <3>2
  <2>7. ASSUME NEW i \in Ids, book[i] # None
        PROVE  meant'[i] \in {book[i], "unknown"} \/ \E d \in Writers' : JustSaved(d, i)'
    <3>1. CASE meant[i] \in {book[i], "unknown"}
      BY <1>1, <3>1
    <3>2. CASE \E d \in Writers : JustSaved(d, i)
      <4>1. PICK d \in Writers : JustSaved(d, i)
        BY <3>2
      <4>2. CASE d = c
        BY <1>1, <4>1, <4>2 DEF JustSaved
      <4>3. CASE d # c
        BY <2>4, <4>1, <4>3 DEF JustSaved
      <4> QED
        BY <4>2, <4>3
    <3> QED
      BY <2>2, <2>7, <3>1, <3>2 DEF AddressesInductive, Kept
  <2>8. \A d, e \in Writers' : d = e
    BY <2>2, <2>3 DEF AddressesInductive, Kept
  <2> QED
    BY <1>0, <2>1, <2>6, <2>7, <2>8 DEF Kept
<1> QED
  BY <1>6, <1>7, <1>8, <1>9, <1>10 DEF AddressesInductive

LEMMA AddKeeps ==
  ASSUME AddressesInductive, AddressPages!Add
  PROVE  AddressesInductive'
<1>1. /\ editing = None /\ editing' = [id |-> 0, form |-> "ready"] /\ saving' = None
      /\ UNCHANGED <<book, list, busyId, addressCalls, meant, addressSuspect, careless>>
  BY DEF AddressPages!Add, AddressPages!OnList, AddressPages!New
<1>2. editing' \in Forms /\ editing' # None
  BY <1>1, NoneIsNoForm DEF Forms
<1>3. AddressesTyped'
  BY <1>1, <1>2 DEF AddressesInductive, AddressesTyped
<1>4. Waited' /\ Dropped'
  BY <1>1, <1>2 DEF AddressesInductive, Waited, Dropped
<1>5. ListHonest'
  BY <1>1 DEF AddressesInductive, ListHonest, Main
<1>6. Kept'
  BY <1>1 DEF AddressesInductive, Kept, Writers, JustSaved
<1> QED
  BY <1>3, <1>4, <1>5, <1>6 DEF AddressesInductive

LEMMA AddressesUntouched ==
  ASSUME AddressesInductive, UNCHANGED addressPageVars
  PROVE  AddressesInductive'
<1>1. UNCHANGED <<book, list, busyId, editing, saving, addressCalls, meant, addressSuspect, careless>>
  BY DEF addressPageVars
<1> QED
  BY <1>1 DEF AddressesInductive, AddressesTyped, Waited, Dropped, ListHonest, Main, Kept,
              Writers, JustSaved

LEMMA AddressesNextKeeps ==
  ASSUME AddressesInductive, AddressPages!Next
  PROVE  AddressesInductive'
BY LoadListKeeps, SendsKeep, ReadFormKeeps, DoKeeps, ReadListKeeps, ShownKeeps, SavedKeeps,
   LeaveKeeps, AddressFailKeeps, AddKeeps DEF AddressPages!Next

------------------------------------------------------------------------------
(* The checkout (CheckoutScreen.tsx).  Beside the shapes: no more orders   *)
(* are placed or may still be than the phone has lost, but for the one     *)
(* whose answer it waits for or has had (PlacedOnce); whatever was read    *)
(* or sent at the present version of the shop is what the shop holds now   *)
(* (Dated, Promised); and what has been bought is out of the cart          *)
(* (BoughtOnce).                                                           *)

Baskets == UNION {[lines -> 1..MaxQty] : lines \in SUBSET Lines}
Placed == [basket : Baskets, asShown : {TRUE}]
Stages == {"free", "sent", "forsaken", "created", "NOT_FOUND", "VALIDATION", "CONFLICT_STOCK"}

FormCallOK(call) ==
  /\ call.op \in {"load", "submit", None} /\ call.stage \in Stages
  /\ call.op = None <=> call.stage = "free"
  /\ call.op = "load" => call.stage = "sent"
  /\ call.book # None => call.book \in SUBSET AddressIds
  /\ call.seen # None => call.seen \in CheckoutPage!Shop
  /\ call.at \in Nat /\ call.address \in AddressIds \cup {None}
  /\ DOMAIN call = DOMAIN CheckoutPage!Free

CheckoutForm == [book : SUBSET AddressIds, shop : CheckoutPage!Shop, at : Nat]

CheckoutTyped ==
  /\ sku \in Skus \cup {None} /\ shop \in CheckoutPage!Shop /\ version \in Nat /\ lost \in Nat
  /\ DOMAIN formCalls = Requests /\ \A c \in Requests : FormCallOK(formCalls[c])
  /\ placed \in Seq(Placed)

FormKnown ==
  /\ form # None => form \in CheckoutForm /\ chosen \in form.book \cup {None}
  /\ ~loading /\ ~failed => form # None

Active == {c \in Requests : formCalls[c].op = "submit" /\ formCalls[c].stage # "forsaken"}
Forsaken == {c \in Requests : formCalls[c].stage = "forsaken"}
Due == IF open /\ \A c \in Requests : formCalls[c].stage # "created" THEN 0 ELSE 1

PlacedOnce ==
  /\ \A c, d \in Active : c = d
  /\ Active # {} => submitting /\ open
  /\ IsFiniteSet(Forsaken) /\ Len(placed) + Cardinality(Forsaken) <= lost + Due

\* What a read of the shop says now, and what the button says it buys.
Seen == [shop EXCEPT !.book = {}]
Shown == CheckoutPage!Basket(shop, CheckoutPage!Listed(shop))
Buyable == \E l \in CheckoutPage!Listed(shop) : ~CheckoutPage!Invalid(shop, l)

CallDated(call) ==
  /\ call.at <= version
  /\ call.op = "load" /\ call.at = version =>
       /\ call.book # None => call.book = shop.book
       /\ call.seen # None => call.seen = Seen
  /\ call.op = "submit" /\ call.at = version =>
       call.address \in shop.book /\ call.shown = Shown /\ Buyable

Dated ==
  /\ \A c \in Requests : CallDated(formCalls[c])
  /\ form # None => /\ form.at <= version
                    /\ form.at = version => form.book = shop.book /\ form.shop = Seen

BoughtOnce ==
  sku = None =>
    /\ \A i \in DOMAIN placed : \A l \in DOMAIN placed[i].basket : shop.cart[l] = None
    /\ \A i, j \in DOMAIN placed :
         i # j => DOMAIN placed[i].basket \cap DOMAIN placed[j].basket = {}

CheckoutInductive == CheckoutTyped /\ FormKnown /\ PlacedOnce /\ Dated /\ BoughtOnce

LEMMA FormFree ==
  /\ FormCallOK(CheckoutPage!Free) /\ CheckoutPage!Free.op = None
  /\ CheckoutPage!Free.stage = "free" /\ CheckoutPage!Free.at = 0
  /\ CheckoutPage!Free.book = None /\ CheckoutPage!Free.seen = None
  /\ None \notin {"load", "submit"}
BY NoneIsNoOperation DEF FormCallOK, CheckoutPage!Free, Stages

LEMMA CheckoutCount == \A S : CheckoutPage!Cardinality(S) = Cardinality(S)
BY DEF CheckoutPage!Cardinality, Cardinality, CheckoutPage!IsFiniteSet, IsFiniteSet

LEMMA CheckoutImplies ==
  ASSUME CheckoutInductive
  PROVE  CheckoutPage!TypeOK /\ CheckoutPage!CreatedOnce /\ CheckoutPage!ChargedAsShown
<1>1. CheckoutPage!TypeOK
  BY DEF CheckoutInductive, CheckoutTyped, FormKnown, FormCallOK, CheckoutPage!TypeOK,
         CheckoutPage!Visible
<1>2. CheckoutPage!CreatedOnce
  <2>1. Cardinality(Forsaken) \in Nat
    BY FS_CardinalityType DEF CheckoutInductive, PlacedOnce
  <2>2. Due \in {0, 1}
    BY DEF Due
  <2>3. Len(placed) \in Nat /\ lost \in Nat
    BY DEF CheckoutInductive, CheckoutTyped
  <2> QED
    BY <2>1, <2>2, <2>3 DEF CheckoutInductive, PlacedOnce, CheckoutPage!CreatedOnce
<1>3. ASSUME NEW i \in DOMAIN placed PROVE placed[i].asShown
  <2>1. placed[i] \in Placed
    BY DEF CheckoutInductive, CheckoutTyped
  <2> QED
    BY <2>1 DEF Placed
<1> QED
  BY <1>1, <1>2, <1>3 DEF CheckoutInductive, BoughtOnce, CheckoutPage!ChargedAsShown

LEMMA ShopsAreShops == CheckoutPage!Shops \subseteq CheckoutPage!Shop
BY ShelvesFilled, MaxQtyPositive DEF CheckoutPage!Shops, CheckoutPage!Shop, CheckoutPage!Row

\* The screen as it opens.
LEMMA CheckoutOpens ==
  ASSUME sku \in Skus \cup {None}, shop \in CheckoutPage!Shops, version = 0,
         form = None, loading = TRUE, open = TRUE, DOMAIN formCalls = Requests,
         \A c \in Requests : formCalls[c] = CheckoutPage!Free, placed = <<>>, lost = 0
  PROVE  CheckoutInductive
<1>1. CheckoutTyped
  BY FormFree, ShopsAreShops DEF CheckoutTyped
<1>2. FormKnown
  BY DEF FormKnown
<1>3. PlacedOnce
  <2>1. Active = {} /\ Forsaken = {}
    BY FormFree DEF Active, Forsaken
  <2>2. Len(placed) = 0 /\ Due \in {0, 1}
    BY DEF Due
  <2> QED
    BY <2>1, <2>2, FS_EmptySet DEF PlacedOnce
<1>4. Dated
  BY FormFree DEF Dated, CallDated
<1>5. BoughtOnce
  BY DEF BoughtOnce
<1> QED
  BY <1>1, <1>2, <1>3, <1>4, <1>5 DEF CheckoutInductive

LEMMA CheckoutInitially == CheckoutPage!Init => CheckoutInductive
BY CheckoutOpens DEF CheckoutPage!Init

LEMMA AgainKeeps ==
  ASSUME CheckoutInductive, CheckoutPage!Again
  PROVE  CheckoutInductive'
<1>1. /\ (sku \in Skus \cup {None})' /\ (shop \in CheckoutPage!Shops)' /\ version' = 0
      /\ form' = None /\ loading' = TRUE /\ open' = TRUE /\ placed' = <<>> /\ lost' = 0
      /\ formCalls' = formCalls /\ \A c \in Requests : formCalls[c] = CheckoutPage!Free
      /\ DOMAIN formCalls = Requests
  BY DEF CheckoutPage!Again, CheckoutInductive, CheckoutTyped, CheckoutPage!Shops
<1>2. CheckoutTyped'
  BY <1>1, FormFree, ShopsAreShops DEF CheckoutTyped, CheckoutPage!Shops
<1>3. FormKnown'
  BY <1>1 DEF FormKnown
<1>4. PlacedOnce'
  <2>1. Active' = {} /\ Forsaken' = {}
    BY <1>1, FormFree DEF Active, Forsaken
  <2>2. Len(placed') = 0 /\ Due' \in {0, 1}
    BY <1>1 DEF Due
  <2> QED
    BY <1>1, <2>1, <2>2, FS_EmptySet DEF PlacedOnce
<1>5. Dated'
  BY <1>1, FormFree DEF Dated, CallDated
<1>6. BoughtOnce'
  BY <1>1 DEF BoughtOnce
<1> QED
  BY <1>2, <1>3, <1>4, <1>5, <1>6 DEF CheckoutInductive

LEMMA SameShop ==
  ASSUME UNCHANGED <<sku, shop>>
  PROVE  Seen' = Seen /\ Shown' = Shown /\ (Buyable' <=> Buyable)
BY DEF Seen, Shown, Buyable, CheckoutPage!Basket, CheckoutPage!Listed, CheckoutPage!Selected,
       CheckoutPage!Invalid

\* What a step makes of one request, whatever else it does.
CheckoutStep(c, call) ==
  /\ DOMAIN formCalls' = Requests /\ formCalls'[c] = call
  /\ \A d \in Requests \ {c} : formCalls'[d] = formCalls[d]

LEMMA CheckoutUpdate ==
  ASSUME CheckoutTyped, NEW c \in Requests, NEW call, formCalls' = [formCalls EXCEPT ![c] = call]
  PROVE  CheckoutStep(c, call)
BY DEF CheckoutTyped, CheckoutStep

\* A step that leaves the shop alone, and of which the one request is true, keeps what was
\* read and sent true.
LEMMA DatedStays ==
  ASSUME CheckoutInductive, NEW c \in Requests, NEW call, CheckoutStep(c, call),
         CallDated(call), UNCHANGED <<sku, shop, version>>,
         form' # None => /\ form'.at <= version
                         /\ form'.at = version => form'.book = shop.book /\ form'.shop = Seen
  PROVE  Dated'
<1>1. Seen' = Seen /\ Shown' = Shown /\ (Buyable' <=> Buyable)
  BY SameShop
<1>2. \A d \in Requests : CallDated(formCalls'[d])
  BY DEF CheckoutStep, CheckoutInductive, Dated
<1> QED
  BY <1>1, <1>2 DEF Dated, CallDated

\* A step of a read, from when it is sent to when it is shown or has failed.
LEMMA ReadingKeeps ==
  ASSUME CheckoutInductive, NEW c \in Requests, NEW call, CheckoutStep(c, call),
         formCalls[c].op # "submit", call.op # "submit", FormCallOK(call), CallDated(call),
         UNCHANGED <<sku, shop, version, submitting, open, placed, lost>>, FormKnown',
         form' # None => /\ form'.at <= version
                         /\ form'.at = version => form'.book = shop.book /\ form'.shop = Seen
  PROVE  CheckoutInductive'
<1>1. CheckoutTyped'
  BY DEF CheckoutInductive, CheckoutTyped, CheckoutStep
<1>2. PlacedOnce'
  <2>1. FormCallOK(formCalls[c])
    BY DEF CheckoutInductive, CheckoutTyped
  <2>2. Active' = Active /\ Forsaken' = Forsaken
    BY <2>1 DEF Active, Forsaken, CheckoutStep, FormCallOK
  <2>3. Due' = Due
    BY <2>1 DEF Due, CheckoutStep, FormCallOK
  <2> QED
    BY <2>2, <2>3 DEF CheckoutInductive, PlacedOnce
<1>3. Dated'
  BY DatedStays
<1>4. BoughtOnce'
  BY DEF CheckoutInductive, BoughtOnce
<1> QED
  BY <1>1, <1>2, <1>3, <1>4 DEF CheckoutInductive

LEMMA LoadKeeps ==
  ASSUME CheckoutInductive, NEW c \in Requests, CheckoutPage!Load(c) \/ CheckoutPage!LoadFails(c)
  PROVE  CheckoutInductive'
<1> DEFINE sent == [CheckoutPage!Free EXCEPT !.op = "load", !.stage = "sent"]
<1>1. /\ sent.op = "load" /\ sent.at = 0 /\ sent.book = None /\ sent.seen = None
      /\ FormCallOK(sent)
  BY NoneIsNoOperation DEF CheckoutPage!Free, FormCallOK, Stages
<1> HIDE DEF sent
<1>2. PICK call \in {sent, CheckoutPage!Free} : formCalls' = [formCalls EXCEPT ![c] = call]
  BY DEF CheckoutPage!Load, CheckoutPage!LoadFails, sent
<1>3. CheckoutStep(c, call)
  BY <1>2, CheckoutUpdate DEF CheckoutInductive
<1>4. /\ formCalls[c].op # "submit" /\ form' = None /\ (loading' \/ failed')
      /\ UNCHANGED <<sku, shop, version, submitting, open, placed, lost>>
  BY FormFree DEF CheckoutPage!Load, CheckoutPage!LoadFails
<1>5. call.op # "submit" /\ FormCallOK(call) /\ CallDated(call)
  BY <1>1, FormFree DEF CallDated, CheckoutInductive, CheckoutTyped
<1>6. FormKnown'
  BY <1>4 DEF FormKnown
<1> QED
  BY <1>3, <1>4, <1>5, <1>6, ReadingKeeps

\* The older of the two reads dates them both.
LEMMA HalfReadKeeps ==
  ASSUME CheckoutInductive, NEW c \in Requests,
         CheckoutPage!ReadAddresses(c) \/ CheckoutPage!ReadSummary(c)
  PROVE  CheckoutInductive'
<1> DEFINE old == formCalls[c]
           new == formCalls'[c]
<1>1. FormCallOK(old) /\ CallDated(old) /\ old.op = "load" /\ DOMAIN formCalls = Requests
  BY DEF CheckoutPage!ReadAddresses, CheckoutPage!ReadSummary, CheckoutInductive, CheckoutTyped, Dated
<1>2. /\ CheckoutStep(c, new)
      /\ DOMAIN new = DOMAIN CheckoutPage!Free
      /\ new.op = old.op /\ new.stage = old.stage /\ new.address = old.address
      /\ \/ /\ old.book = None /\ new.book = shop.book /\ new.seen = old.seen
            /\ new.at = IF old.seen = None THEN version ELSE old.at
         \/ /\ old.seen = None /\ new.seen = Seen /\ new.book = old.book
            /\ new.at = IF old.book = None THEN version ELSE old.at
  BY <1>1 DEF CheckoutPage!ReadAddresses, CheckoutPage!ReadSummary, CheckoutStep, FormCallOK,
       CheckoutPage!Free, Seen
<1>3. UNCHANGED <<sku, shop, version, form, chosen, loading, failed, submitting, open, placed, lost>>
  BY DEF CheckoutPage!ReadAddresses, CheckoutPage!ReadSummary, CheckoutPage!screen
<1>4. /\ shop.book \in SUBSET AddressIds /\ Seen \in CheckoutPage!Shop /\ version \in Nat
  BY DEF CheckoutInductive, CheckoutTyped, Seen, CheckoutPage!Shop
<1> HIDE DEF old, new
<1>5. FormCallOK(new) /\ CallDated(new) /\ new.op # "submit"
  BY <1>1, <1>2, <1>4 DEF FormCallOK, CallDated
<1>6. FormKnown'
  BY <1>3 DEF CheckoutInductive, FormKnown
<1>7. form' # None => /\ form'.at <= version
                      /\ form'.at = version => form'.book = shop.book /\ form'.shop = Seen
  BY <1>3 DEF CheckoutInductive, Dated
<1>8. formCalls[c].op # "submit"
  BY <1>1 DEF old
<1> QED
  BY <1>2, <1>3, <1>5, <1>6, <1>7, <1>8, ReadingKeeps

LEMMA LoadedKeeps ==
  ASSUME CheckoutInductive, NEW c \in Requests, CheckoutPage!Loaded(c)
  PROVE  CheckoutInductive'
<1>1. /\ FormCallOK(formCalls[c]) /\ CallDated(formCalls[c]) /\ formCalls[c].op = "load"
      /\ formCalls[c].book # None /\ formCalls[c].seen # None
      /\ formCalls' = [formCalls EXCEPT ![c] = CheckoutPage!Free]
      /\ form' = [book |-> formCalls[c].book, shop |-> formCalls[c].seen, at |-> formCalls[c].at]
      /\ chosen' = IF chosen \in formCalls[c].book THEN chosen
                                                   ELSE CheckoutPage!Preferred(formCalls[c].book)
      /\ UNCHANGED <<sku, shop, version, submitting, open, placed, lost>>
  BY DEF CheckoutPage!Loaded, CheckoutInductive, CheckoutTyped, Dated
<1>2. CheckoutStep(c, CheckoutPage!Free)
  BY <1>1, CheckoutUpdate DEF CheckoutInductive
<1>3. FormCallOK(CheckoutPage!Free) /\ CallDated(CheckoutPage!Free) /\ CheckoutPage!Free.op # "submit"
  BY FormFree DEF CallDated, CheckoutInductive, CheckoutTyped
<1>4. form' \in CheckoutForm
  BY <1>1 DEF CheckoutForm, FormCallOK
<1>5. chosen' \in form'.book \cup {None}
  BY <1>1 DEF CheckoutPage!Preferred
<1>6. FormKnown'
  BY <1>4, <1>5, NoneIsNoCheckoutForm DEF FormKnown, CheckoutForm
<1>7. form'.at <= version /\ (form'.at = version => form'.book = shop.book /\ form'.shop = Seen)
  BY <1>1 DEF CallDated
<1> QED
  BY <1>1, <1>2, <1>3, <1>6, <1>7, ReadingKeeps

LEMMA SubmitKeeps ==
  ASSUME CheckoutInductive, NEW c \in Requests, CheckoutPage!Submit(c)
  PROVE  CheckoutInductive'
<1> DEFINE bought == CheckoutPage!Basket(form.shop, CheckoutPage!Listed(form.shop))
           call == [CheckoutPage!Free EXCEPT !.op = "submit", !.stage = "sent", !.at = form.at,
                                             !.address = chosen, !.shown = bought]
<1>1. /\ ~submitting /\ submitting' = TRUE /\ open /\ ~loading /\ ~failed
      /\ chosen # None /\ CheckoutPage!CanSubmit
      /\ formCalls[c] = CheckoutPage!Free /\ formCalls' = [formCalls EXCEPT ![c] = call]
      /\ UNCHANGED <<sku, shop, version, form, chosen, loading, failed, open, placed, lost>>
  BY DEF CheckoutPage!Submit, CheckoutPage!Send, CheckoutPage!Visible, CheckoutPage!CanSubmit
<1>2. form \in CheckoutForm /\ chosen \in form.book /\ form.at <= version
      /\ (form.at = version => form.book = shop.book /\ form.shop = Seen)
  BY <1>1 DEF CheckoutInductive, FormKnown, Dated
<1>3. /\ call.op = "submit" /\ call.stage = "sent" /\ call.at = form.at
      /\ call.address = chosen /\ call.shown = bought
      /\ call.book = None /\ call.seen = None /\ DOMAIN call = DOMAIN CheckoutPage!Free
  BY DEF CheckoutPage!Free
<1>4. form.shop = Seen => bought = Shown /\ Buyable
  BY <1>1 DEF Seen, Shown, Buyable, CheckoutPage!CanSubmit, CheckoutPage!Basket,
       CheckoutPage!Listed, CheckoutPage!Selected, CheckoutPage!Invalid, CheckoutInductive,
       CheckoutTyped, CheckoutPage!Shop
<1> HIDE DEF call, bought
<1>5. FormCallOK(call)
  BY <1>2, <1>3, NoneIsNoOperation DEF FormCallOK, CheckoutForm, Stages
<1>6. CallDated(call)
  BY <1>2, <1>3, <1>4 DEF CallDated
<1>7. CheckoutStep(c, call)
  BY <1>1, CheckoutUpdate DEF CheckoutInductive
<1>8. CheckoutTyped'
  BY <1>1, <1>5, <1>7 DEF CheckoutInductive, CheckoutTyped, CheckoutStep
<1>9. FormKnown'
  BY <1>1 DEF CheckoutInductive, FormKnown
<1>10. PlacedOnce'
  <2>1. Active = {}
    BY <1>1 DEF CheckoutInductive, PlacedOnce
  <2>2. Active' = {c}
    BY <1>3, <1>7, <2>1 DEF Active, CheckoutStep
  <2>3. Forsaken' = Forsaken /\ Due' = Due
    BY <1>1, <1>3, <1>7, FormFree DEF Forsaken, Due, CheckoutStep
  <2> QED
    BY <1>1, <2>2, <2>3 DEF CheckoutInductive, PlacedOnce
<1>11. Dated'
  BY <1>1, <1>2, <1>6, <1>7, DatedStays
<1>12. BoughtOnce'
  BY <1>1 DEF CheckoutInductive, BoughtOnce
<1> QED
  BY <1>8, <1>9, <1>10, <1>11, <1>12 DEF CheckoutInductive

\* What an order's request becomes: nothing, or the same request at another stage.
Becomes(c, call) ==
  \/ call = CheckoutPage!Free
  \/ /\ FormCallOK(call) /\ call.op = formCalls[c].op /\ call.at = formCalls[c].at
     /\ call.address = formCalls[c].address /\ call.shown = formCalls[c].shown

LEMMA BecomesSets ==
  ASSUME CheckoutInductive, NEW c \in Requests, NEW call, CheckoutStep(c, call),
         formCalls[c].op = "submit", Becomes(c, call)
  PROVE  /\ FormCallOK(call)
         /\ Active' = IF call.stage \in {"free", "forsaken"} THEN Active \ {c} ELSE Active \cup {c}
         /\ Forsaken' = IF call.stage = "forsaken" THEN Forsaken \cup {c} ELSE Forsaken \ {c}
         /\ c \in Forsaken <=> formCalls[c].stage = "forsaken"
         /\ c \in Active <=> formCalls[c].stage # "forsaken"
<1>1. FormCallOK(call) /\ (call.op = "submit" <=> call.stage # "free")
  BY FormFree DEF Becomes, FormCallOK, CheckoutInductive, CheckoutTyped
<1>2. Active' = IF call.stage \in {"free", "forsaken"} THEN Active \ {c} ELSE Active \cup {c}
  BY <1>1 DEF Active, CheckoutStep
<1>3. Forsaken' = IF call.stage = "forsaken" THEN Forsaken \cup {c} ELSE Forsaken \ {c}
  BY <1>1 DEF Forsaken, CheckoutStep
<1> QED
  BY <1>1, <1>2, <1>3 DEF Active, Forsaken

LEMMA CheckoutNumbers ==
  ASSUME CheckoutInductive, NEW c \in Requests
  PROVE  /\ IsFiniteSet(Forsaken) /\ Cardinality(Forsaken) \in Nat
         /\ IsFiniteSet(Forsaken \cup {c}) /\ IsFiniteSet(Forsaken \ {c})
         /\ c \notin Forsaken => Cardinality(Forsaken \cup {c}) = Cardinality(Forsaken) + 1
         /\ Cardinality(Forsaken \ {c}) =
              IF c \in Forsaken THEN Cardinality(Forsaken) - 1 ELSE Cardinality(Forsaken)
         /\ Len(placed) \in Nat /\ lost \in Nat /\ Due \in {0, 1}
         /\ Len(placed) + Cardinality(Forsaken) <= lost + Due
<1>1. IsFiniteSet(Forsaken)
  BY DEF CheckoutInductive, PlacedOnce
<1>2. Len(placed) \in Nat /\ lost \in Nat /\ Due \in {0, 1}
  BY DEF CheckoutInductive, CheckoutTyped, Due
<1> QED
  BY <1>1, <1>2, FS_CardinalityType, FS_AddElement, FS_RemoveElement
     DEF CheckoutInductive, PlacedOnce

LEMMA WithoutOne ==
  ASSUME CheckoutInductive, NEW c \in Requests
  PROVE  /\ IsFiniteSet(Forsaken \ {c}) /\ Cardinality(Forsaken \ {c}) \in Nat
         /\ Len(placed) + Cardinality(Forsaken \ {c}) <= lost + Due
         /\ c \in Forsaken => Len(placed) + 1 + Cardinality(Forsaken \ {c}) <= lost + Due
<1> DEFINE n == Cardinality(Forsaken)
           m == Cardinality(Forsaken \ {c})
<1>1. /\ IsFiniteSet(Forsaken \ {c}) /\ n \in Nat /\ m = (IF c \in Forsaken THEN n - 1 ELSE n)
      /\ Len(placed) \in Nat /\ lost \in Nat /\ Due \in {0, 1} /\ Len(placed) + n <= lost + Due
  BY CheckoutNumbers
<1>2. m \in Nat
  BY <1>1, FS_CardinalityType
<1> HIDE DEF n, m
<1>3. /\ Len(placed) + m <= lost + Due
      /\ c \in Forsaken => Len(placed) + 1 + m <= lost + Due
  BY <1>1, <1>2
<1> QED
  BY <1>1, <1>2, <1>3 DEF m

\* A step of an order's request that leaves the shop alone.
LEMMA AskedKeeps ==
  ASSUME CheckoutInductive, NEW c \in Requests, NEW call, CheckoutStep(c, call),
         formCalls[c].op = "submit", Becomes(c, call),
         UNCHANGED <<sku, shop, version, form, chosen, loading, failed, placed>>,
         lost' \in Nat, PlacedOnce'
  PROVE  CheckoutInductive'
<1>1. CallDated(formCalls[c]) /\ FormCallOK(call)
  BY BecomesSets DEF CheckoutInductive, Dated
<1>2. CallDated(call)
  BY <1>1, FormFree DEF CallDated, Becomes, CheckoutInductive, CheckoutTyped
<1>3. CheckoutTyped'
  BY <1>1 DEF CheckoutInductive, CheckoutTyped, CheckoutStep
<1>4. FormKnown'
  BY DEF CheckoutInductive, FormKnown
<1>5. form' # None => /\ form'.at <= version
                      /\ form'.at = version => form'.book = shop.book /\ form'.shop = Seen
  BY DEF CheckoutInductive, Dated
<1>6. Dated'
  BY <1>2, <1>5, DatedStays
<1>7. BoughtOnce'
  BY DEF CheckoutInductive, BoughtOnce
<1> QED
  BY <1>3, <1>4, <1>6, <1>7 DEF CheckoutInductive

\* The only request that is waited for ends, or is given up.
LEMMA EndsKeep ==
  ASSUME CheckoutInductive, NEW c \in Requests,
         CheckoutPage!Created(c) \/ CheckoutPage!Refused(c) \/ CheckoutPage!GiveUp(c)
  PROVE  CheckoutInductive'
<1> DEFINE gone == [formCalls[c] EXCEPT !.stage = "forsaken"]
<1>1. FormCallOK(formCalls[c]) /\ formCalls[c].op = "submit" /\ formCalls[c].stage # "forsaken"
  BY DEF CheckoutPage!Created, CheckoutPage!Refused, CheckoutPage!GiveUp, CheckoutInductive,
         CheckoutTyped, FormCallOK
<1>2. FormCallOK(gone) /\ gone.stage = "forsaken" /\ Becomes(c, gone)
  BY <1>1, FormFree DEF FormCallOK, Becomes, CheckoutPage!Free, Stages
<1> HIDE DEF gone
<1>3. /\ UNCHANGED <<sku, shop, version, form, chosen, loading, failed, placed>>
      /\ submitting' = FALSE
      /\ \/ /\ formCalls' = [formCalls EXCEPT ![c] = CheckoutPage!Free]
            /\ \/ formCalls[c].stage = "created" /\ open' = FALSE /\ lost' = lost
               \/ formCalls[c].stage # "created" /\ open' = open /\ lost' = lost
               \/ open' = open /\ lost' = lost + 1
         \/ /\ formCalls' = [formCalls EXCEPT ![c] = gone] /\ formCalls[c].stage = "sent"
            /\ open' = open /\ lost' = lost + 1
  BY DEF CheckoutPage!Created, CheckoutPage!Refused, CheckoutPage!GiveUp, gone
<1>4. Active = {c} /\ c \notin Forsaken
  BY <1>1 DEF CheckoutInductive, PlacedOnce, Active, Forsaken
<1>5. \A d \in Requests \ {c} : formCalls[d].stage # "created"
  BY <1>4 DEF Active, CheckoutInductive, CheckoutTyped, FormCallOK
<1> DEFINE n == Cardinality(Forsaken)
<1>0. /\ IsFiniteSet(Forsaken) /\ IsFiniteSet(Forsaken \cup {c})
      /\ Cardinality(Forsaken \cup {c}) = n + 1 /\ n \in Nat
      /\ Len(placed) \in Nat /\ lost \in Nat /\ Due \in {0, 1} /\ Len(placed) + n <= lost + Due
  BY <1>4, CheckoutNumbers
<1> HIDE DEF n
<1>6. CASE formCalls' = [formCalls EXCEPT ![c] = CheckoutPage!Free]
  <2>1. CheckoutStep(c, CheckoutPage!Free) /\ Becomes(c, CheckoutPage!Free)
    BY <1>6, CheckoutUpdate DEF Becomes, CheckoutInductive
  <2>2. Active' = {} /\ Forsaken' = Forsaken
    BY <1>1, <1>4, <2>1, BecomesSets, FormFree
  <2>3. Due' = IF open' THEN 0 ELSE 1
    BY <1>5, <2>1, FormFree DEF Due, CheckoutStep
  <2>4. lost' + Due' >= lost + Due /\ lost' \in Nat
    <3>1. CASE formCalls[c].stage = "created" /\ open' = FALSE /\ lost' = lost
      BY <1>0, <2>3, <3>1
    <3>2. CASE formCalls[c].stage # "created" /\ open' = open /\ lost' = lost
      BY <1>0, <1>5, <2>3, <3>2 DEF Due
    <3>3. CASE open' = open /\ lost' = lost + 1
      BY <1>0, <2>3, <3>3
    <3> QED
      BY <1>1, <1>2, <1>3, <1>6, <2>1, <3>1, <3>2, <3>3, FormFree DEF CheckoutStep
  <2>5. Len(placed) + n <= lost' + Due'
    <3>1. Due' \in {0, 1}
      BY <2>3
    <3>2. \A a, b, x, y, z, w \in Nat : x + y <= z + w /\ a + b >= z + w => x + y <= a + b
      OBVIOUS
    <3>3. lost' \in Nat /\ Due' \in Nat /\ Due \in Nat
      BY <1>0, <2>4, <3>1
    <3> QED
      BY <1>0, <2>4, <3>2, <3>3
  <2>6. PlacedOnce'
    BY <1>0, <1>3, <2>2, <2>5 DEF PlacedOnce, n
  <2> QED
    BY <1>1, <1>3, <2>1, <2>4, <2>6, AskedKeeps
<1>7. CASE /\ formCalls' = [formCalls EXCEPT ![c] = gone] /\ formCalls[c].stage = "sent"
           /\ open' = open /\ lost' = lost + 1
  <2>1. CheckoutStep(c, gone)
    BY <1>7, CheckoutUpdate DEF CheckoutInductive
  <2>2. Active' = {} /\ Forsaken' = Forsaken \cup {c}
    BY <1>1, <1>2, <1>4, <2>1, BecomesSets
  <2>3. Due' = Due
    BY <1>2, <1>7, <2>1 DEF Due, CheckoutStep
  <2>4. PlacedOnce'
    <3>1. Len(placed') + Cardinality(Forsaken') <= lost' + Due' /\ IsFiniteSet(Forsaken')
      BY <1>0, <1>3, <1>7, <2>2, <2>3
    <3> QED
      BY <1>3, <2>2, <3>1 DEF PlacedOnce
  <2>5. lost' \in Nat
    BY <1>0, <1>7
  <2> QED
    BY <1>1, <1>2, <1>3, <2>1, <2>4, <2>5, AskedKeeps
<1> QED
  BY <1>3, <1>6, <1>7

\* The lines the server takes, what it orders of them, and which of them it cannot sell.
TakenNow == CheckoutPage!Taken(shop)
BasketNow == CheckoutPage!Basket(shop, TakenNow)
BadNow == {l \in TakenNow : CheckoutPage!Unbuyable(shop, l)}

LEMMA VerdictIs ==
  ASSUME NEW a
  PROVE  /\ CheckoutPage!Verdict(a) \in {"created", "NOT_FOUND", "VALIDATION", "CONFLICT_STOCK"}
         /\ CheckoutPage!Verdict(a) = "created"
              <=> a \in shop.book /\ TakenNow # {} /\ BadNow = {}
BY DEF CheckoutPage!Verdict, TakenNow, BadNow

LEMMA TakenLines ==
  ASSUME CheckoutTyped
  PROVE  TakenNow \subseteq Lines /\ BasketNow \in [TakenNow -> 1..MaxQty]
<1>1. TakenNow \subseteq Lines
  BY LinesOrdered, NoneIsNothing DEF CheckoutTyped, TakenNow, CheckoutPage!Taken
<1>2. ASSUME NEW l \in TakenNow
      PROVE  (IF sku = None THEN shop.cart[l].quantity ELSE 1) \in 1..MaxQty
  <2>1. sku = None => shop.cart[l] # None /\ shop.cart[l] \in CheckoutPage!Row \cup {None}
    BY <1>1, <1>2 DEF CheckoutTyped, CheckoutPage!Shop, TakenNow, CheckoutPage!Taken
  <2> QED
    BY <2>1, MaxQtyPositive DEF CheckoutPage!Row
<1> QED
  BY <1>1, <1>2 DEF BasketNow, CheckoutPage!Basket

LEMMA BasketIs ==
  \A l \in TakenNow : CheckoutPage!Unbuyable(shop, l)
                        <=> l \notin shop.onSale \/ BasketNow[l] > shop.stock[l]
BY DEF CheckoutPage!Unbuyable, BasketNow, TakenNow

\* What can be bought is listed.
LEMMA BuyableIsListed ==
  ASSUME CheckoutTyped, BadNow = {}
  PROVE  Shown = BasketNow
<1>1. ASSUME NEW l \in TakenNow PROVE ~CheckoutPage!Invalid(shop, l)
  <2>1. l \in shop.onSale /\ ~(BasketNow[l] > shop.stock[l])
    BY <1>1, BasketIs DEF BadNow
  <2>2. BasketNow[l] \in 1..MaxQty /\ shop.stock[l] \in Nat
    BY <1>1, TakenLines DEF CheckoutTyped, CheckoutPage!Shop
  <2> QED
    BY <2>1, <2>2, MaxQtyPositive DEF CheckoutPage!Invalid
<1>2. CheckoutPage!Selected(shop) = TakenNow
  BY DEF CheckoutPage!Selected, TakenNow, CheckoutPage!Taken
<1>3. CheckoutPage!Listed(shop) = TakenNow
  BY <1>1, <1>2 DEF CheckoutPage!Listed
<1> QED
  BY <1>3 DEF Shown, BasketNow

\* Answer gives the request a stage, or forgets it.
LEMMA AnswerBecomes ==
  ASSUME CheckoutInductive, NEW c \in Requests, NEW stage \in Stages \ {"free", "forsaken"},
         CheckoutPage!Asked(c), CheckoutPage!Answer(c, stage)
  PROVE  \E call : /\ CheckoutStep(c, call) /\ Becomes(c, call)
                   /\ call.stage = IF formCalls[c].stage = "forsaken" THEN "free" ELSE stage
<1> DEFINE answered == [formCalls[c] EXCEPT !.stage = stage]
<1>1. FormCallOK(formCalls[c]) /\ formCalls[c].op = "submit"
  BY DEF CheckoutPage!Asked, CheckoutInductive, CheckoutTyped
<1>2. FormCallOK(answered) /\ answered.stage = stage /\ Becomes(c, answered)
  BY <1>1, FormFree DEF FormCallOK, Becomes, CheckoutPage!Free
<1>3. formCalls' = [formCalls EXCEPT ![c] = IF formCalls[c].stage = "forsaken"
                                            THEN CheckoutPage!Free ELSE answered]
  BY DEF CheckoutPage!Answer
<1> HIDE DEF answered
<1>4. CheckoutStep(c, IF formCalls[c].stage = "forsaken" THEN CheckoutPage!Free ELSE answered)
  BY <1>3, CheckoutUpdate DEF CheckoutInductive
<1> QED
  BY <1>2, <1>4, FormFree DEF Becomes

\* The one given up is forgotten.
LEMMA RefuseKeeps ==
  ASSUME CheckoutInductive, NEW c \in Requests, CheckoutPage!Refuse(c) \/ CheckoutPage!Vanish(c)
  PROVE  CheckoutInductive'
<1>1. /\ UNCHANGED <<sku, shop, version, form, chosen, loading, failed, submitting, open, placed, lost>>
      /\ formCalls[c].op = "submit" /\ formCalls[c].stage \in {"sent", "forsaken"}
  BY DEF CheckoutPage!Refuse, CheckoutPage!Vanish, CheckoutPage!screen, CheckoutPage!Asked,
         CheckoutInductive, CheckoutTyped, FormCallOK
<1>2. PICK call : /\ CheckoutStep(c, call) /\ Becomes(c, call)
                  /\ IF formCalls[c].stage = "forsaken" THEN call.stage = "free"
                     ELSE call.stage \in {"NOT_FOUND", "VALIDATION", "CONFLICT_STOCK"}
  <2>1. CASE CheckoutPage!Refuse(c)
    <3>1. PICK stage \in {"NOT_FOUND", "VALIDATION", "CONFLICT_STOCK"} : CheckoutPage!Answer(c, stage)
      BY <2>1, VerdictIs DEF CheckoutPage!Refuse
    <3> QED
      BY <2>1, <3>1, AnswerBecomes DEF CheckoutPage!Refuse, Stages
  <2>2. CASE CheckoutPage!Vanish(c)
    <3>1. formCalls[c].stage = "forsaken" /\ formCalls' = [formCalls EXCEPT ![c] = CheckoutPage!Free]
      BY <2>2 DEF CheckoutPage!Vanish
    <3>2. CheckoutStep(c, CheckoutPage!Free)
      BY <3>1, CheckoutUpdate DEF CheckoutInductive
    <3> QED
      BY <3>1, <3>2, FormFree DEF Becomes
  <2> QED
    BY <2>1, <2>2
<1>3. Active' = Active /\ Forsaken' = Forsaken \ {c} /\ (c \in Forsaken <=> formCalls[c].stage = "forsaken")
  BY <1>1, <1>2, BecomesSets
<1>4. Due' = Due
  BY <1>1, <1>2 DEF Due, CheckoutStep
<1>5. Len(placed) + Cardinality(Forsaken \ {c}) <= lost + Due /\ IsFiniteSet(Forsaken \ {c})
  BY WithoutOne
<1>6. PlacedOnce'
  BY <1>1, <1>3, <1>4, <1>5 DEF CheckoutInductive, PlacedOnce
<1>7. lost' \in Nat
  BY <1>1 DEF CheckoutInductive, CheckoutTyped
<1> QED
  BY <1>1, <1>2, <1>6, <1>7, AskedKeeps

LEMMA PlacedLines ==
  CheckoutTyped => \A i \in DOMAIN placed : DOMAIN placed[i].basket \subseteq Lines
<1> SUFFICES ASSUME CheckoutTyped, NEW i \in DOMAIN placed PROVE DOMAIN placed[i].basket \subseteq Lines
  OBVIOUS
<1>1. placed[i] \in Placed
  BY DEF CheckoutTyped
<1>2. placed[i].basket \in Baskets
  BY <1>1 DEF Placed
<1>3. PICK lines \in SUBSET Lines : placed[i].basket \in [lines -> 1..MaxQty]
  BY <1>2 DEF Baskets
<1> QED
  BY <1>3

\* The server places the order; whoever waits for it is told, and one given up is forgotten.
LEMMA CreateKeeps ==
  ASSUME CheckoutInductive, NEW c \in Requests, CheckoutPage!Create(c)
  PROVE  CheckoutInductive'
<1> DEFINE e == [basket |-> BasketNow, asShown |-> formCalls[c].at = version => BasketNow = formCalls[c].shown]
<1>0. /\ CheckoutTyped /\ formCalls[c].op = "submit" /\ formCalls[c].stage \in {"sent", "forsaken"}
      /\ FormCallOK(formCalls[c]) /\ CallDated(formCalls[c])
      /\ TakenNow # {} /\ BadNow = {}
      /\ CheckoutPage!Asked(c) /\ CheckoutPage!Answer(c, "created")
  BY VerdictIs DEF CheckoutPage!Create, CheckoutPage!Asked, CheckoutInductive, CheckoutTyped, Dated
<1>1. /\ placed' = Append(placed, e)
      /\ shop' = [shop EXCEPT
           !.stock = [l \in Lines |-> IF l \in DOMAIN BasketNow THEN @[l] - BasketNow[l] ELSE @[l]],
           !.cart = [l \in Lines |-> IF sku = None /\ l \in DOMAIN BasketNow THEN None ELSE @[l]]]
      /\ version' = version + 1
      /\ UNCHANGED <<sku, form, chosen, loading, failed, submitting, open, lost>>
  BY DEF CheckoutPage!Create, CheckoutPage!screen, BasketNow, TakenNow
<1>2. BasketNow \in [TakenNow -> 1..MaxQty] /\ TakenNow \subseteq Lines
  BY <1>0, TakenLines
<1>3. e \in Placed
  <2>1. BasketNow \in Baskets
    BY <1>2 DEF Baskets
  <2>2. formCalls[c].at = version => BasketNow = formCalls[c].shown
    BY <1>0, BuyableIsListed DEF CallDated
  <2> QED
    BY <2>1, <2>2 DEF Placed
<1>4. e.basket = BasketNow
  OBVIOUS
<1> HIDE DEF e
<1>5. PICK call : /\ CheckoutStep(c, call) /\ Becomes(c, call)
                  /\ call.stage = IF formCalls[c].stage = "forsaken" THEN "free" ELSE "created"
  BY <1>0, AnswerBecomes DEF Stages
<1>6. FormCallOK(call) /\ call.at <= version
  BY <1>0, <1>5, FormFree, BecomesSets DEF Becomes, CallDated, CheckoutTyped
<1>7. shop' \in CheckoutPage!Shop
  <2>1. \A l \in Lines : (IF l \in TakenNow THEN shop.stock[l] - BasketNow[l] ELSE shop.stock[l]) \in Nat
    <3> SUFFICES ASSUME NEW l \in TakenNow PROVE shop.stock[l] - BasketNow[l] \in Nat
      BY <1>0 DEF CheckoutTyped, CheckoutPage!Shop
    <3>1. ~(BasketNow[l] > shop.stock[l]) /\ BasketNow[l] \in 1..MaxQty /\ shop.stock[l] \in Nat
      BY <1>0, <1>2, BasketIs DEF BadNow, CheckoutTyped, CheckoutPage!Shop
    <3> QED
      BY <3>1, MaxQtyPositive
  <2> QED
    BY <1>0, <1>1, <1>2, <2>1 DEF CheckoutTyped, CheckoutPage!Shop
<1>8. CheckoutTyped'
  BY <1>0, <1>1, <1>3, <1>5, <1>6, <1>7 DEF CheckoutTyped, CheckoutStep
<1>9. FormKnown'
  BY <1>1 DEF CheckoutInductive, FormKnown
<1>10. PlacedOnce'
  <2>1. /\ Active' = Active /\ Forsaken' = Forsaken \ {c}
        /\ (c \in Forsaken <=> formCalls[c].stage = "forsaken")
        /\ (c \in Active <=> formCalls[c].stage # "forsaken")
    BY <1>0, <1>5, BecomesSets
  <2>2. /\ Len(placed') = Len(placed) + 1 /\ Len(placed) \in Nat /\ lost \in Nat
    BY <1>0, <1>1, <1>3 DEF CheckoutTyped
  <2>3. Len(placed) + 1 + Cardinality(Forsaken \ {c}) <= lost + Due'
    <3>1. CASE formCalls[c].stage = "forsaken"
      <4>1. Due' = Due
        BY <1>1, <1>5, <3>1 DEF Due, CheckoutStep
      <4> QED
        BY <2>1, <3>1, <4>1, WithoutOne
    <3>2. CASE formCalls[c].stage = "sent"
      <4>1. open /\ Active = {c}
        BY <2>1, <3>2 DEF CheckoutInductive, PlacedOnce
      <4>2. \A d \in Requests : formCalls[d].stage # "created"
        BY <3>2, <4>1 DEF Active, CheckoutInductive, CheckoutTyped, FormCallOK
      <4>3. Due = 0 /\ Due' = 1
        BY <1>5, <3>2, <4>1, <4>2 DEF Due, CheckoutStep
      <4>4. Len(placed) + Cardinality(Forsaken \ {c}) <= lost /\ Cardinality(Forsaken \ {c}) \in Nat
        <5>1. /\ Len(placed) + Cardinality(Forsaken \ {c}) <= lost + Due
              /\ Cardinality(Forsaken \ {c}) \in Nat
          BY WithoutOne
        <5> QED
          BY <2>2, <4>3, <5>1
      <4> QED
        BY <2>2, <4>3, <4>4
    <3> QED
      BY <1>0, <3>1, <3>2
  <2>4. IsFiniteSet(Forsaken \ {c})
    BY WithoutOne
  <2> QED
    BY <1>1, <2>1, <2>2, <2>3, <2>4 DEF CheckoutInductive, PlacedOnce
<1>11. Dated'
  <2>1. version \in Nat /\ version' = version + 1
    BY <1>0, <1>1 DEF CheckoutTyped
  <2>2. \A d \in Requests : formCalls'[d].at \in Nat /\ formCalls'[d].at <= version
    BY <1>5, <1>6 DEF CheckoutInductive, Dated, CallDated, CheckoutStep, CheckoutTyped, FormCallOK
  <2>3. form # None => form.at \in Nat /\ form.at <= version
    BY DEF CheckoutInductive, Dated, FormKnown, CheckoutForm
  <2> QED
    BY <1>1, <2>1, <2>2, <2>3 DEF Dated, CallDated
<1>12. BoughtOnce'
  <2> SUFFICES ASSUME sku = None PROVE BoughtOnce'
    BY <1>1 DEF BoughtOnce
  <2>1. \A l \in TakenNow : shop.cart[l] # None /\ shop'.cart[l] = None
    BY <1>0, <1>1, <1>2 DEF CheckoutTyped, CheckoutPage!Shop, TakenNow, CheckoutPage!Taken
  <2>2. \A l \in Lines : shop.cart[l] = None => shop'.cart[l] = None
    BY <1>0, <1>1 DEF CheckoutTyped, CheckoutPage!Shop
  <2>3. /\ DOMAIN placed' = 1..(Len(placed) + 1) /\ DOMAIN placed = 1..Len(placed)
        /\ Len(placed) \in Nat /\ placed'[Len(placed) + 1] = e
        /\ \A i \in DOMAIN placed : placed'[i] = placed[i] /\ placed[i] \in Placed
    BY <1>0, <1>1, <1>3 DEF CheckoutTyped
  <2>4. \A i \in DOMAIN placed : DOMAIN placed[i].basket \subseteq Lines
    BY <1>0, PlacedLines
  <2>5. \A i \in DOMAIN placed' : DOMAIN placed'[i].basket =
                                    IF i \in DOMAIN placed THEN DOMAIN placed[i].basket ELSE TakenNow
    <3> SUFFICES ASSUME NEW i \in DOMAIN placed', i \notin DOMAIN placed PROVE placed'[i] = e
      BY <1>2, <1>4, <2>3
    <3> QED
      BY <2>3
  <2>6. \A i \in DOMAIN placed' \ DOMAIN placed : i = Len(placed) + 1
    BY <2>3
  <2>7. \A i \in DOMAIN placed : \A l \in DOMAIN placed[i].basket : shop.cart[l] = None
    BY DEF CheckoutInductive, BoughtOnce
  <2>8. \A i \in DOMAIN placed' : \A l \in DOMAIN placed'[i].basket : shop'.cart[l] = None
    BY <2>1, <2>2, <2>4, <2>5, <2>7
  <2>9. ASSUME NEW i \in DOMAIN placed', NEW j \in DOMAIN placed', i # j
        PROVE  DOMAIN placed'[i].basket \cap DOMAIN placed'[j].basket = {}
    <3>1. CASE i \in DOMAIN placed /\ j \in DOMAIN placed
      BY <2>5, <2>9, <3>1 DEF CheckoutInductive, BoughtOnce
    <3>2. CASE i \in DOMAIN placed /\ j \notin DOMAIN placed
      BY <2>1, <2>5, <2>7, <3>2
    <3>3. CASE i \notin DOMAIN placed /\ j \in DOMAIN placed
      BY <2>1, <2>5, <2>7, <3>3
    <3> QED
      BY <2>6, <2>9, <3>1, <3>2, <3>3
  <2> QED
    BY <2>8, <2>9 DEF BoughtOnce
<1> QED
  BY <1>8, <1>9, <1>10, <1>11, <1>12 DEF CheckoutInductive

\* The address is chosen, the dialog closed.
LEMMA TouchKeeps ==
  ASSUME CheckoutInductive, CheckoutPage!Dismiss \/ \E a \in AddressIds : CheckoutPage!Choose(a)
  PROVE  CheckoutInductive'
<1>1. /\ UNCHANGED <<sku, shop, version, form, loading, failed, submitting, open, formCalls,
                      placed, lost>>
      /\ chosen' = chosen \/ chosen' \in form.book
  BY DEF CheckoutPage!Dismiss, CheckoutPage!Choose
<1>2. CheckoutTyped'
  BY <1>1 DEF CheckoutInductive, CheckoutTyped
<1>3. FormKnown'
  BY <1>1 DEF CheckoutInductive, FormKnown
<1>4. PlacedOnce'
  BY <1>1 DEF CheckoutInductive, PlacedOnce, Active, Forsaken, Due
<1>5. Dated'
  <2>1. Seen' = Seen /\ Shown' = Shown /\ (Buyable' <=> Buyable)
    BY <1>1, SameShop
  <2> QED
    BY <1>1, <2>1 DEF CheckoutInductive, Dated, CallDated
<1>6. BoughtOnce'
  BY <1>1 DEF CheckoutInductive, BoughtOnce
<1> QED
  BY <1>2, <1>3, <1>4, <1>5, <1>6 DEF CheckoutInductive

LEMMA CheckoutUntouched ==
  ASSUME CheckoutInductive, UNCHANGED checkoutVars
  PROVE  CheckoutInductive'
<1>1. UNCHANGED <<sku, shop, version, form, chosen, loading, failed, submitting, open, formCalls,
                  placed, lost>>
  BY DEF checkoutVars
<1>2. CheckoutTyped'
  BY <1>1 DEF CheckoutInductive, CheckoutTyped
<1>3. FormKnown'
  BY <1>1 DEF CheckoutInductive, FormKnown
<1>4. PlacedOnce'
  BY <1>1 DEF CheckoutInductive, PlacedOnce, Active, Forsaken, Due
<1>5. Dated'
  <2>1. Seen' = Seen /\ Shown' = Shown /\ (Buyable' <=> Buyable)
    BY <1>1, SameShop
  <2> QED
    BY <1>1, <2>1 DEF CheckoutInductive, Dated, CallDated
<1>6. BoughtOnce'
  BY <1>1 DEF CheckoutInductive, BoughtOnce
<1> QED
  BY <1>2, <1>3, <1>4, <1>5, <1>6 DEF CheckoutInductive

\* What others do to the shop brings back no line that is out of the cart.
LEMMA EditedIs ==
  ASSUME CheckoutTyped, NEW s \in CheckoutPage!Edited
  PROVE  /\ s \in CheckoutPage!Shop
         /\ \A l \in Lines : shop.cart[l] = None => s.cart[l] = None
<1>0. shop \in CheckoutPage!Shop
  BY DEF CheckoutTyped
<1>1. CASE \E l \in {k \in Lines : shop.cart[k] # None} : s = [shop EXCEPT !.cart[l].selected = ~@]
  <2>1. PICK l \in Lines : /\ shop.cart[l] # None
                           /\ s = [shop EXCEPT !.cart[l].selected = ~@]
    BY <1>1
  <2>2. [shop.cart[l] EXCEPT !.selected = ~@] \in CheckoutPage!Row
    BY <1>0, <2>1 DEF CheckoutPage!Shop, CheckoutPage!Row
  <2>3. s.cart = [shop.cart EXCEPT ![l] = [shop.cart[l] EXCEPT !.selected = ~@]]
    BY <1>0, <2>1 DEF CheckoutPage!Shop
  <2>4. s.stock = shop.stock /\ s.onSale = shop.onSale /\ s.book = shop.book
        /\ s = [shop EXCEPT !.cart = s.cart]
    BY <1>0, <2>1 DEF CheckoutPage!Shop
  <2>5. s.cart \in [Lines -> CheckoutPage!Row \cup {None}]
    BY <1>0, <2>2, <2>3 DEF CheckoutPage!Shop
  <2> QED
    BY <1>0, <2>1, <2>3, <2>4, <2>5 DEF CheckoutPage!Shop
<1>2. CASE \E l \in {k \in Lines : shop.cart[k] # None}, n \in 1..MaxQty :
             s = [shop EXCEPT !.cart[l].quantity = n]
  <2>1. PICK l \in Lines, n \in 1..MaxQty : /\ shop.cart[l] # None
                                            /\ s = [shop EXCEPT !.cart[l].quantity = n]
    BY <1>2
  <2>2. [shop.cart[l] EXCEPT !.quantity = n] \in CheckoutPage!Row
    BY <1>0, <2>1 DEF CheckoutPage!Shop, CheckoutPage!Row
  <2>3. s.cart = [shop.cart EXCEPT ![l] = [shop.cart[l] EXCEPT !.quantity = n]]
    BY <1>0, <2>1 DEF CheckoutPage!Shop
  <2>4. s.stock = shop.stock /\ s.onSale = shop.onSale /\ s.book = shop.book
        /\ s = [shop EXCEPT !.cart = s.cart]
    BY <1>0, <2>1 DEF CheckoutPage!Shop
  <2>5. s.cart \in [Lines -> CheckoutPage!Row \cup {None}]
    BY <1>0, <2>2, <2>3 DEF CheckoutPage!Shop
  <2> QED
    BY <1>0, <2>1, <2>3, <2>4, <2>5 DEF CheckoutPage!Shop
<1>3. CASE \/ \E l \in Lines : s = [shop EXCEPT !.stock[l] = 0]
           \/ \E l \in Lines : s = [shop EXCEPT !.onSale = @ \ {l}]
           \/ \E a \in AddressIds : s = [shop EXCEPT !.book = @ \ {a}]
  BY <1>0, <1>3 DEF CheckoutPage!Shop
<1> QED
  BY <1>1, <1>2, <1>3 DEF CheckoutPage!Edited

LEMMA ElsewhereKeeps ==
  ASSUME CheckoutInductive, CheckoutPage!Elsewhere
  PROVE  CheckoutInductive'
<1>1. /\ shop' \in CheckoutPage!Edited /\ version' = version + 1 /\ version \in Nat
      /\ UNCHANGED <<sku, form, chosen, loading, failed, submitting, open, formCalls, placed, lost>>
  BY DEF CheckoutPage!Elsewhere, CheckoutPage!screen, CheckoutInductive, CheckoutTyped
<1>2. /\ shop' \in CheckoutPage!Shop
      /\ \A l \in Lines : shop.cart[l] = None => shop'.cart[l] = None
  BY <1>1, EditedIs DEF CheckoutInductive
<1>3. CheckoutTyped'
  BY <1>1, <1>2 DEF CheckoutInductive, CheckoutTyped
<1>4. FormKnown'
  BY <1>1 DEF CheckoutInductive, FormKnown
<1>5. PlacedOnce'
  BY <1>1 DEF CheckoutInductive, PlacedOnce, Active, Forsaken, Due
<1>6. Dated'
  <2>1. \A d \in Requests : formCalls[d].at \in Nat /\ formCalls[d].at <= version
    BY DEF CheckoutInductive, Dated, CallDated, CheckoutTyped, FormCallOK
  <2>2. form # None => form.at \in Nat /\ form.at <= version
    BY DEF CheckoutInductive, Dated, FormKnown, CheckoutForm
  <2> QED
    BY <1>1, <2>1, <2>2 DEF Dated, CallDated
<1>7. BoughtOnce'
  <2>1. \A i \in DOMAIN placed : DOMAIN placed[i].basket \subseteq Lines
    BY PlacedLines DEF CheckoutInductive
  <2> QED
    BY <1>1, <1>2, <2>1 DEF CheckoutInductive, BoughtOnce
<1> QED
  BY <1>3, <1>4, <1>5, <1>6, <1>7 DEF CheckoutInductive

LEMMA CheckoutNextKeeps ==
  ASSUME CheckoutInductive, CheckoutPage!Next
  PROVE  CheckoutInductive'
BY LoadKeeps, HalfReadKeeps, LoadedKeeps, SubmitKeeps, CreateKeeps, RefuseKeeps, EndsKeep,
   TouchKeeps, ElsewhereKeeps, AgainKeeps DEF CheckoutPage!Next

Refusals == {"NOT_FOUND", "VALIDATION", "CONFLICT_STOCK"}

\* Only the server refuses.
LEMMA OnlyRefuseRefuses ==
  ASSUME CheckoutInductive, CheckoutPage!Next, NEW c \in Requests,
         formCalls[c].op = "submit", formCalls[c].stage = "sent", formCalls'[c].stage \in Refusals
  PROVE  CheckoutPage!Refuse(c)
<1>0. DOMAIN formCalls = Requests /\ FormCallOK(formCalls[c]) /\ formCalls[c] # CheckoutPage!Free
      /\ "sent" \notin Refusals /\ "free" \notin Refusals /\ "created" \notin Refusals
      /\ "forsaken" \notin Refusals
  BY FormFree DEF CheckoutInductive, CheckoutTyped, Refusals
<1>1. "stage" \in DOMAIN formCalls[c]
  BY <1>0 DEF FormCallOK, CheckoutPage!Free
<1>2. CASE \E d \in Requests : CheckoutPage!Load(d) \/ CheckoutPage!LoadFails(d)
             \/ CheckoutPage!ReadAddresses(d) \/ CheckoutPage!ReadSummary(d) \/ CheckoutPage!Loaded(d)
             \/ CheckoutPage!Submit(d)
  BY <1>0, <1>2 DEF CheckoutPage!Load, CheckoutPage!LoadFails, CheckoutPage!ReadAddresses,
     CheckoutPage!ReadSummary, CheckoutPage!Loaded, CheckoutPage!Submit, CheckoutPage!Send
<1>3. CASE \E d \in Requests : CheckoutPage!Created(d) \/ CheckoutPage!Refused(d)
             \/ CheckoutPage!GiveUp(d) \/ CheckoutPage!Vanish(d)
  BY <1>0, <1>1, <1>3, FormFree DEF CheckoutPage!Created, CheckoutPage!Refused,
     CheckoutPage!GiveUp, CheckoutPage!Vanish
<1>4. ASSUME NEW d \in Requests, CheckoutPage!Create(d) \/ CheckoutPage!Refuse(d)
      PROVE  CheckoutPage!Refuse(c)
  <2>1. PICK stage : CheckoutPage!Answer(d, stage)
    BY <1>4 DEF CheckoutPage!Create, CheckoutPage!Refuse
  <2>2. d = c
    BY <1>0, <2>1 DEF CheckoutPage!Answer
  <2>3. ~CheckoutPage!Create(c)
    BY <1>0, <1>1 DEF CheckoutPage!Create, CheckoutPage!Answer
  <2> QED
    BY <1>4, <2>2, <2>3
<1>5. CASE CheckoutPage!Dismiss \/ CheckoutPage!Elsewhere \/ CheckoutPage!Again
             \/ \E a \in AddressIds : CheckoutPage!Choose(a)
  BY <1>0, <1>5 DEF CheckoutPage!Dismiss, CheckoutPage!Elsewhere, CheckoutPage!Again, CheckoutPage!Choose
<1> QED
  BY <1>2, <1>3, <1>4, <1>5 DEF CheckoutPage!Next

\* A promise about the shop as it is fails only for a line that was not listed, or for the
\* units.
LEMMA RefusedHasAReason ==
  ASSUME CheckoutInductive, NEW c \in Requests, formCalls[c].op = "submit",
         formCalls[c].at = version, CheckoutPage!Refuse(c), DOMAIN formCalls[c].shown = TakenNow
  PROVE  \E l \in DOMAIN formCalls[c].shown : formCalls[c].shown[l] > shop.stock[l]
<1>1. /\ CheckoutTyped /\ formCalls[c].address \in shop.book
      /\ formCalls[c].shown = Shown /\ Buyable
  BY DEF CheckoutInductive, Dated, CallDated
<1>2. CheckoutPage!Listed(shop) = TakenNow /\ formCalls[c].shown = BasketNow
  BY <1>1 DEF Shown, BasketNow, CheckoutPage!Basket
<1>3. TakenNow # {}
  BY <1>1, <1>2 DEF Buyable
<1>4. BadNow # {}
  BY <1>1, <1>3, VerdictIs DEF CheckoutPage!Refuse
<1>5. \A l \in TakenNow : ~CheckoutPage!Invalid(shop, l)
  <2>1. CASE sku = None
    BY <1>2, <2>1 DEF CheckoutPage!Listed
  <2>2. CASE sku # None
    <3>1. TakenNow = {sku}
      BY <2>2 DEF TakenNow, CheckoutPage!Taken
    <3> QED
      BY <1>1, <1>2, <3>1 DEF Buyable
  <2> QED
    BY <2>1, <2>2
<1>6. PICK l \in TakenNow : l \in shop.onSale /\ BasketNow[l] > shop.stock[l]
  BY <1>4, <1>5, BasketIs DEF BadNow, CheckoutPage!Invalid
<1> QED
  BY <1>2, <1>6

LEMMA RefusalsHaveReasons ==
  ASSUME CheckoutInductive, CheckoutPage!Next, NEW c \in Requests,
         formCalls[c].stage = "sent", formCalls[c].op = "submit", formCalls[c].at = version,
         formCalls'[c].stage \in Refusals
  PROVE  \/ DOMAIN formCalls[c].shown # CheckoutPage!Taken(shop)
         \/ \E l \in DOMAIN formCalls[c].shown : formCalls[c].shown[l] > shop.stock[l]
BY OnlyRefuseRefuses, RefusedHasAReason DEF TakenNow

------------------------------------------------------------------------------
(* The purchase: one part moves, and it keeps its own invariant.           *)

LEMMA CartUntouched ==
  ASSUME CartInductive, UNCHANGED cartPageVars
  PROVE  CartInductive'
<1>1. UNCHANGED <<server, shownCart, cartCalls, busy, cartSuspect, changes>>
  BY DEF cartPageVars
<1> QED
  BY <1>1 DEF CartInductive, CartTyped, Claimed, CartHonest, CartUnder

LEMMA OrderUntouched ==
  ASSUME OrderInductive, UNCHANGED orderPageVars
  PROVE  OrderInductive'
<1>1. UNCHANGED <<status, order, busyAction, confirming, orderCalls, moved, orderSuspect>>
  BY DEF orderPageVars
<1> QED
  BY <1>1 DEF OrderInductive, OrderTyped, OneAction, OrderHonest, OrderUnder, Tells, Acting

LEMMA PurchaseMoves ==
  ASSUME [PurchaseNext]_purchaseVars
  PROVE  /\ part' = part
         /\ Next \/ UNCHANGED vars
         /\ CartPage!Next \/ UNCHANGED cartPageVars
         /\ CheckoutPage!Next \/ UNCHANGED checkoutVars
         /\ OrderPage!Next \/ UNCHANGED orderPageVars
         /\ AddressPages!Next \/ UNCHANGED addressPageVars
BY DEF PurchaseNext, purchaseVars

PurchaseInductive ==
  TypeOK /\ CartInductive /\ CheckoutInductive /\ OrderInductive /\ AddressesInductive

LEMMA PurchaseStarts == PurchaseInit => PurchaseInductive
BY InitTypeOK, CartInitially, CheckoutInitially, OrderInitially, AddressesInitially
   DEF PurchaseInit, PurchaseInductive

LEMMA PurchaseKept == PurchaseInductive /\ [PurchaseNext]_purchaseVars => PurchaseInductive'
<1> SUFFICES ASSUME PurchaseInductive, [PurchaseNext]_purchaseVars PROVE PurchaseInductive'
  OBVIOUS
<1>1. TypeOK'
  BY PurchaseMoves, NextTypeOK DEF PurchaseInductive
<1>2. CartInductive'
  BY PurchaseMoves, CartNextKeeps, CartUntouched DEF PurchaseInductive
<1>3. CheckoutInductive'
  BY PurchaseMoves, CheckoutNextKeeps, CheckoutUntouched DEF PurchaseInductive
<1>4. OrderInductive'
  BY PurchaseMoves, OrderNextKeeps, OrderUntouched DEF PurchaseInductive
<1>5. AddressesInductive'
  BY PurchaseMoves, AddressesNextKeeps, AddressesUntouched DEF PurchaseInductive
<1> QED
  BY <1>1, <1>2, <1>3, <1>4, <1>5 DEF PurchaseInductive

\* For any number of lines, addresses and overlapping requests the screens are well formed;
\* above all, none shows a form it has not read.
THEOREM PurchaseTypes == PurchaseSpec => []PurchaseTypeOK
<1>1. PurchaseInductive => PurchaseTypeOK
  BY CartImplies, CheckoutImplies, OrderImplies, AddressesImply DEF PurchaseInductive, PurchaseTypeOK
<1> QED
  BY <1>1, PurchaseStarts, PurchaseKept, PTL DEF PurchaseSpec

\* However requests overlap, fail and outlive the page, nothing stays busy when no operation
\* is under way for it.
THEOREM BusyTheorem == PurchaseSpec => []BusyEnds
<1>1. PurchaseInductive => BusyEnds
  BY CartImplies, OrderImplies, AddressesImply DEF PurchaseInductive, BusyEnds
<1> QED
  BY <1>1, PurchaseStarts, PurchaseKept, PTL DEF PurchaseSpec

\* At rest, what cart and address list show is what the database has, and the order page shows
\* where the order is or, if somebody else has moved it since, where it has come from; unless
\* requests overlapped, an answer was lost, or a request that was given up has been carried out
\* behind the last look at the cart.
THEOREM AgreementTheorem == PurchaseSpec => []ScreenAgrees
<1>1. PurchaseInductive => ScreenAgrees
  BY CartImplies, OrderImplies, AddressesImply DEF PurchaseInductive, ScreenAgrees
<1> QED
  BY <1>1, PurchaseStarts, PurchaseKept, PTL DEF PurchaseSpec

\* What was saved of an address, and the user was told so, stays as it was saved, whatever else
\* the two address screens do, as long as nothing is changed on a list that is behind.  A save
\* that is answered and dropped by the server leaves what was saved before it.
THEOREM EditsTheorem == PurchaseSpec => []EditsKept
<1>1. PurchaseInductive => EditsKept
  BY AddressesImply DEF PurchaseInductive, EditsKept
<1> QED
  BY <1>1, PurchaseStarts, PurchaseKept, PTL DEF PurchaseSpec

\* For any number of taps, reads and lost answers, one use of the checkout places one order,
\* and one more for every answer lost; an order from a form that is still true charges what
\* the form lists; and no line of the cart is bought twice.
THEOREM OrderedTheorem == PurchaseSpec => []OrderedAsShown
<1>1. PurchaseInductive => OrderedAsShown
  BY CheckoutImplies DEF PurchaseInductive, OrderedAsShown
<1> QED
  BY <1>1, PurchaseStarts, PurchaseKept, PTL DEF PurchaseSpec

\* When nothing has changed since the form was read, an order is refused only for a line the
\* form does not list, or for more units than there are.
THEOREM RefusalTheorem == PurchaseSpec => RefusedForAReason
<1>1. ASSUME PurchaseInductive, [PurchaseNext]_purchaseVars
      PROVE  [\A c \in Requests :
       (formCalls[c].stage = "sent" /\ formCalls[c].op = "submit" /\ formCalls[c].at = version
          /\ formCalls'[c].stage \in {"NOT_FOUND", "VALIDATION", "CONFLICT_STOCK"})
       => \/ DOMAIN formCalls[c].shown # CheckoutPage!Taken(shop)
          \/ \E l \in DOMAIN formCalls[c].shown : formCalls[c].shown[l] > shop.stock[l]]_CheckoutPage!vars
  <2>1. CASE CheckoutPage!Next
    BY <1>1, <2>1, RefusalsHaveReasons DEF PurchaseInductive, Refusals
  <2>2. CASE UNCHANGED checkoutVars
    BY <2>2 DEF checkoutVars, CheckoutPage!vars
  <2> QED
    BY <1>1, <2>1, <2>2, PurchaseMoves
<1> QED
  BY <1>1, PurchaseStarts, PurchaseKept, PTL
     DEF PurchaseSpec, RefusedForAReason, CheckoutPage!RefusedForAReason

\* The screens leave the shop of OrderLedger what it is, and what is proved of it holds.
THEOREM ShopTheorem ==
  PurchaseSpec => [](StockConserved /\ SalesConserved) /\ LinesGrowWithinStock
<1>1. PurchaseInit => Init
  BY DEF PurchaseInit
<1>2. [PurchaseNext]_purchaseVars => [Next]_vars
  BY PurchaseMoves
<1> QED
  BY <1>1, <1>2, StockTheorem, SalesTheorem, GrowthTheorem, PTL DEF PurchaseSpec, Spec
================================================================================
