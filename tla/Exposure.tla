------------------------------- MODULE Exposure -------------------------------
(***************************************************************************)
(* Which product cards of a list the phone reports as seen                 *)
(* (useProductExposure, ProductExposureTracker, createThrottledRunner).    *)
(*                                                                         *)
(* Every layout, scroll, change of the list and focus asks for a look at   *)
(* the cards.  The runner looks at once if the last look is long enough    *)
(* ago, and otherwise sets one timer for the rest of the window.  A timer  *)
(* may ring late; the effects of a render run before the layouts it causes *)
(* are reported.                                                           *)
(***************************************************************************)
EXTENDS Integers, FiniteSets

CONSTANTS
  Products,
  Tops,         \* where a card or the viewport can begin
  Height,       \* of a card, and of the viewport once it is laid out
  Wait,         \* throttleMs, in ticks
  None

VARIABLES
  items,        \* productIds
  layouts,      \* of the tracker: the top of each card, None when it has none
  viewport,     \* its top; None before it is laid out
  seenIds,      \* of the tracker
  reports,      \* how often each product was reported since the last focus
  since,        \* time since the last look, up to Wait
  timer,        \* time until the timer is due, None without one
  focused

vars == <<items, layouts, viewport, seenIds, reports, since, timer, focused>>

------------------------------------------------------------------------------
\* At least half of the card is in the viewport.
Visible(p) ==
  /\ viewport # None /\ layouts[p] # None
  /\ LET apart == IF layouts[p] > viewport THEN layouts[p] - viewport ELSE viewport - layouts[p]
     IN  2 * (Height - apart) >= Height

\* invoke: collectVisible, and the report of each card the list still has.
Look(seen, told) ==
  LET ids == {p \in Products : Visible(p)' /\ p \notin seen}
  IN  /\ seenIds' = seen \cup ids
      /\ reports' = [p \in Products |-> IF p \in ids \cap items' THEN told[p] + 1 ELSE told[p]]
      /\ since' = 0

\* Mutant of Run: inside the window nothing is remembered.
RunLeading(seen, told) ==
  IF since >= Wait THEN Look(seen, told) /\ timer' = None
                   ELSE seenIds' = seen /\ reports' = told /\ UNCHANGED <<since, timer>>

\* run, on the seenIds and the reports as they are when it is called.
Run(seen, told) ==
  IF since >= Wait
  THEN Look(seen, told) /\ timer' = None
  ELSE /\ timer' = IF timer = None THEN Wait - since ELSE timer
       /\ seenIds' = seen /\ reports' = told
       /\ UNCHANGED since

------------------------------------------------------------------------------
\* A page, a new query or a refresh changes the list, whether or not it has the focus.
Render ==
  /\ items' \in SUBSET Products \ {items}
  /\ layouts' = [p \in Products |-> IF p \in items' THEN layouts[p] ELSE None]
  /\ UNCHANGED <<viewport, focused>>
  /\ Run(seenIds, reports)

OnProductLayout ==
  /\ \E p \in items, top \in Tops : layouts' = [layouts EXCEPT ![p] = top]
  /\ UNCHANGED <<items, viewport, focused>>
  /\ Run(seenIds, reports)

\* onScroll and onViewportLayout.
OnScroll ==
  /\ viewport' \in Tops
  /\ UNCHANGED <<items, layouts, focused>>
  /\ Run(seenIds, reports)

\* Each focus is a session of its own.
Focus ==
  /\ ~focused /\ focused' = TRUE
  /\ UNCHANGED <<items, layouts, viewport>>
  /\ Run({}, [p \in Products |-> 0])

Blur ==
  /\ focused /\ focused' = FALSE
  /\ timer' = None
  /\ UNCHANGED <<items, layouts, viewport, seenIds, reports, since>>

\* Time passes; a timer may stay due for a while.
Tick ==
  /\ since' = IF since < Wait THEN since + 1 ELSE Wait
  /\ timer' = IF timer \in {None, 0} THEN timer ELSE timer - 1
  /\ UNCHANGED <<items, layouts, viewport, seenIds, reports, focused>>

\* The timer's callback.
Ring ==
  /\ timer = 0 /\ timer' = None
  /\ UNCHANGED <<items, layouts, viewport, focused>>
  /\ Look(seenIds, reports)

Init ==
  /\ items = {} /\ layouts = [p \in Products |-> None] /\ viewport = None
  /\ seenIds = {} /\ reports = [p \in Products |-> 0]
  /\ since = Wait /\ timer = None /\ focused = TRUE

Next == Render \/ OnProductLayout \/ OnScroll \/ Focus \/ Blur \/ Tick \/ Ring

Spec == Init /\ [][Next]_vars

------------------------------------------------------------------------------
(* Properties.                                                             *)

TypeOK ==
  /\ items \subseteq Products /\ seenIds \subseteq Products
  /\ layouts \in [Products -> Tops \cup {None}] /\ viewport \in Tops \cup {None}
  /\ reports \in [Products -> Nat]
  /\ since \in 0..Wait /\ timer \in 0..Wait \cup {None} /\ focused \in BOOLEAN

\* In one session no card is reported twice, and none is missed: whenever the list has the
\* focus and no timer is set, every card that is half in view has been reported, whatever
\* came in the middle of a window or just at its end.  No look is early.
ReportedOnce ==
  /\ \A p \in Products : reports[p] <= 1
  /\ focused /\ timer = None => \A p \in items : Visible(p) => reports[p] = 1
  /\ timer # None => since + timer >= Wait
==============================================================================
