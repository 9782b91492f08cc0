---------------------------- MODULE ProductDetail ----------------------------
(***************************************************************************)
(* The product page: what a guest taps ("add to cart", "buy now") is kept  *)
(* as the pending action while they sign in, and carried out when they     *)
(* come back (ProductDetailScreen, store/pending-action, pending-retry).   *)
(*                                                                         *)
(* The page can be left and opened again, for the same product or another, *)
(* with a request still under way; the store of the pending action and the *)
(* session outlive it.                                                     *)
(***************************************************************************)
EXTENDS Integers, FiniteSets

CONSTANTS
  Products,
  MaxTaps,      \* bound: taps on the two buttons
  None

VARIABLES
  at,           \* where the user is: "away", on the "page", at the "login", or "beyond" the page
  product,      \* route.params.productId of the page
  load,         \* isLoading, isNotFound, loadError, or the product is shown
  member,       \* is somebody signed in
  pending,      \* pendingAction
  awaiting,     \* awaitingLoginRef
  adding,       \* the tap whose request this page has under way: actionInFlightRef, isAdding
  orphans,      \* taps whose requests a page that was left has under way
  taps,         \* what was tapped, in order
  sent          \* how often each tap was carried out

vars == <<at, product, load, member, pending, awaiting, adding, orphans, taps, sent>>
page == <<at, product, load>>
intent == <<pending, awaiting, adding, orphans, taps, sent>>

Kinds == {"add", "buy"}
Taps == 1..MaxTaps
NoTap == [kind |-> None, product |-> None]
Used == {t \in Taps : taps[t] # NoTap}

------------------------------------------------------------------------------
(* Loading.                                                                *)

\* The page is opened: a new instance, which waits for nobody to sign in.
Open(p) ==
  /\ at = "away"
  /\ at' = "page" /\ product' = p /\ load' = "loading"
  /\ awaiting' = FALSE /\ adding' = None
  /\ UNCHANGED <<member, pending, orphans, taps, sent>>

\* loadProduct ends: found, off the shelves, or an error; the answer of a page that was left is void.
Loaded(outcome) ==
  /\ at # "away" /\ load = "loading"
  /\ load' = outcome
  /\ UNCHANGED <<at, product, member, intent>>

LoadAgain ==
  /\ at = "page" /\ load = "failed"
  /\ load' = "loading"
  /\ UNCHANGED <<at, product, member, intent>>

\* The page is left: its requests go on.
Leave ==
  /\ at = "page"
  /\ at' = "away" /\ product' = None
  /\ orphans' = orphans \cup ({adding} \ {None})
  /\ adding' = None /\ awaiting' = FALSE
  /\ UNCHANGED <<load, member, pending, taps, sent>>

------------------------------------------------------------------------------
(* Tapping and carrying out.                                               *)

\* executePendingAction: one at a time, and only for a member.
Execute(t, tap) ==
  IF tap.product = product /\ adding = None /\ member'
  THEN /\ sent' = [sent EXCEPT ![t] = @ + 1]
       /\ IF tap.kind = "add"
          THEN adding' = t /\ at' = "page" /\ UNCHANGED pending
          ELSE adding' = None /\ at' = "beyond" /\ pending' = None
  ELSE at' = "page" /\ UNCHANGED <<sent, adding, pending>>

\* beginAction: a guest is sent to sign in.
Tap(kind) ==
  /\ at = "page" /\ load = "shown" /\ adding = None
  /\ member' = member
  /\ \E t \in Taps :
       /\ t = Cardinality(Used) + 1
       /\ taps' = [taps EXCEPT ![t] = [kind |-> kind, product |-> product]]
       /\ IF member
          THEN Execute(t, taps'[t]) /\ UNCHANGED awaiting
          ELSE /\ pending' = t /\ awaiting' = TRUE /\ at' = "login"
               /\ UNCHANGED <<sent, adding>>
  /\ UNCHANGED <<product, load, orphans>>

AddSucceeds ==
  /\ adding # None
  /\ pending' = None /\ adding' = None
  /\ UNCHANGED <<page, member, awaiting, orphans, taps, sent>>

\* The action stays pending.
AddFails ==
  /\ adding # None
  /\ adding' = None
  /\ UNCHANGED <<page, member, pending, awaiting, orphans, taps, sent>>

OrphanEnds(t) ==
  /\ t \in orphans
  /\ orphans' = orphans \ {t}
  /\ pending' \in {None, pending}
  /\ UNCHANGED <<page, member, awaiting, adding, taps, sent>>

------------------------------------------------------------------------------
(* Coming back.                                                            *)

\* Mutant of Focus: whatever is pending is carried out.
FocusEager ==
  IF pending # None /\ taps[pending].product = product
  THEN /\ awaiting' = FALSE
       /\ IF member' THEN Execute(pending, taps[pending])
                     ELSE pending' = None /\ at' = "page" /\ UNCHANGED <<sent, adding>>
  ELSE at' = "page" /\ UNCHANGED <<awaiting, pending, sent, adding>>

\* The page has the focus again: only what was tapped before signing in is looked at.
Focus ==
  IF pending # None /\ taps[pending].product = product /\ awaiting
  THEN /\ awaiting' = FALSE
       /\ IF member' THEN Execute(pending, taps[pending])
                     ELSE pending' = None /\ at' = "page" /\ UNCHANGED <<sent, adding>>
  ELSE at' = "page" /\ UNCHANGED <<awaiting, pending, sent, adding>>

\* The user signs in, and the login screen goes away; or gives up.
SignIn ==
  /\ at = "login"
  /\ member' = TRUE
  /\ Focus
  /\ UNCHANGED <<product, load, orphans, taps>>

GoBack ==
  /\ at \in {"login", "beyond"}
  /\ member' = member
  /\ Focus
  /\ UNCHANGED <<product, load, orphans, taps>>

\* The session expires, which may send the user to the login screen, or is restored at start.
SessionEnds ==
  /\ member
  /\ member' = FALSE
  /\ at' \in {at} \cup (IF at \in {"page", "beyond"} THEN {"login"} ELSE {})
  /\ UNCHANGED <<product, load, intent>>

SessionRestored ==
  /\ ~member
  /\ member' = TRUE
  /\ UNCHANGED <<page, intent>>

Init ==
  /\ at = "away" /\ product = None /\ load = "loading" /\ member = FALSE
  /\ pending = None /\ awaiting = FALSE /\ adding = None /\ orphans = {}
  /\ taps = [t \in Taps |-> NoTap]
  /\ sent = [t \in Taps |-> 0]

Next ==
  \/ \E p \in Products : Open(p)
  \/ \E outcome \in {"shown", "missing", "failed"} : Loaded(outcome)
  \/ LoadAgain
  \/ Leave
  \/ \E kind \in Kinds : Tap(kind)
  \/ AddSucceeds \/ AddFails
  \/ \E t \in Taps : OrphanEnds(t)
  \/ SignIn \/ GoBack
  \/ SessionEnds \/ SessionRestored

Spec == Init /\ [][Next]_vars

------------------------------------------------------------------------------
(* Properties.                                                             *)

TypeOK ==
  /\ at \in {"away", "page", "login", "beyond"}
  /\ product \in Products \cup {None} /\ (product = None <=> at = "away")
  /\ load \in {"loading", "shown", "missing", "failed"}
  /\ member \in BOOLEAN /\ awaiting \in BOOLEAN
  /\ {pending, adding} \subseteq Used \cup {None} /\ orphans \subseteq Used
  /\ sent \in [Taps -> Nat]

\* The comment at ProductDetailScreen.tsx:210: nothing a user taps is carried out twice,
\* although what failed stays pending and the page may be left, signed out from
\* and come back to; and it is only carried out while it is the last tap.
CarriedOutOnce ==
  [][\A t \in Taps : sent'[t] # sent[t]
       => sent'[t] = 1 /\ member' /\ Cardinality(Used') = t]_vars
==============================================================================
