----------------------------- MODULE Parts_proofs -----------------------------
(***************************************************************************)
(* Proofs about the parts of the composition, for any value of their       *)
(* constants.  A property of Parts speaks of the part that moves, so each  *)
(* proof is one about a part's own actions; PartsNext is taken apart once, *)
(* at the end.                                                             *)
(***************************************************************************)
EXTENDS Parts, Addresses_proofs, Sorting

------------------------------------------------------------------------------
(* The product waterfall (useProductPagination.ts:45-96).  Its half of     *)
(* IndicatorsMatch is inductive once `newest` is known to be a call of its *)
(* own and not the absence of one, and free calls are told by their stage. *)

PagingShape ==
  /\ DOMAIN calls = Requests /\ \A r \in Requests : DOMAIN calls[r] = DOMAIN Paging!Free
  /\ newest \in Requests \cup {None}
  /\ loadingMore \in BOOLEAN

\* IndicatorsMatch, with the stage in the place of the whole record.
PagingBookkeeping ==
  /\ (newest # None) <=> (spin # {})
  /\ newest # None => calls[newest].stage # "free" /\ calls[newest].mode \in spin
  /\ loadingMore => "more" \in spin

PagingInductive == PagingShape /\ PagingBookkeeping

LEMMA PagingImplies == PagingInductive => Paging!IndicatorsMatch
  BY DEF PagingInductive, PagingBookkeeping, Paging!IndicatorsMatch, Paging!Free

LEMMA PagingInitially == Paging!Init => PagingInductive
<1> SUFFICES ASSUME Paging!Init PROVE PagingInductive
  OBVIOUS
<1>1. CASE newest = None
  BY <1>1, NoneIsNoCaller
     DEF Paging!Init, PagingInductive, PagingShape, PagingBookkeeping, Paging!Free
<1>2. ASSUME NEW r \in Requests, newest = r, spin = {"initial"}, loadingMore = FALSE,
             calls = [s \in Requests |->
                         IF s = r
                         THEN [Paging!Free EXCEPT !.stage = "sent", !.mode = "initial",
                                                  !.page = 1, !.query = Paging!Recommended]
                         ELSE Paging!Free]
      PROVE  PagingInductive
  <2> DEFINE call == [Paging!Free EXCEPT !.stage = "sent", !.mode = "initial",
                                  !.page = 1, !.query = Paging!Recommended]
  <2>1. DOMAIN call = DOMAIN Paging!Free /\ call.stage = "sent" /\ call.mode = "initial"
    BY DEF Paging!Free
  <2>2. calls = [s \in Requests |-> IF s = r THEN call ELSE Paging!Free]
    BY <1>2
  <2> HIDE DEF call
  <2> QED
    BY <1>2, <2>1, <2>2, NoneIsNoCaller DEF PagingInductive, PagingShape, PagingBookkeeping
<1> QED
  BY <1>1, <1>2 DEF Paging!Init

\* The bookkeeping is disturbed only where a request starts or ends.
LEMMA PagingUntouched ==
  ASSUME PagingInductive, UNCHANGED <<calls, newest, spin, loadingMore>>
  PROVE  PagingInductive'
  BY DEF PagingInductive, PagingShape, PagingBookkeeping

\* A request that starts becomes the one the hook listens to, and sets its indicator.
LEMMA PagingLoadKeeps ==
  ASSUME PagingInductive, NEW r \in Requests, NEW q, NEW n, NEW mode,
         Paging!LoadPage(r, q, n, mode)
  PROVE  PagingInductive'
<1> DEFINE call == [Paging!Free EXCEPT !.stage = "sent", !.mode = mode,
                                         !.page = n, !.query = q]
<1>1. /\ calls' = [calls EXCEPT ![r] = call] /\ newest' = r
      /\ spin' = spin \cup {mode} /\ loadingMore' = (loadingMore \/ mode = "more")
  BY DEF Paging!LoadPage
<1>2. DOMAIN call = DOMAIN Paging!Free /\ call.stage = "sent" /\ call.mode = mode
  BY DEF Paging!Free
<1> HIDE DEF call
<1>3. PagingShape'
  BY <1>1, <1>2 DEF PagingInductive, PagingShape
<1>4. calls'[newest'] = call
  BY <1>1 DEF PagingInductive, PagingShape
<1>5. mode \in spin' /\ newest' # None
  BY <1>1, NoneIsNoCaller
<1>6. loadingMore' => "more" \in spin'
  BY <1>1 DEF PagingInductive, PagingShape, PagingBookkeeping
<1>7. spin' # {}
  BY <1>5
<1> QED
  BY <1>2, <1>3, <1>4, <1>5, <1>6, <1>7 DEF PagingInductive, PagingBookkeeping

\* One that ends clears the indicators if it is the one that counts, and only then.
LEMMA PagingEndedKeeps ==
  ASSUME PagingInductive, NEW r \in Requests, Paging!Ended(r)
  PROVE  PagingInductive'
<1>1. PagingShape'
  BY DEF Paging!Ended, PagingInductive, PagingShape, Paging!Free
<1>2. CASE r = newest
  BY <1>1, <1>2 DEF Paging!Ended, PagingInductive, PagingBookkeeping
<1>3. CASE r # newest
  <2>1. newest # None => calls'[newest] = calls[newest]
    BY <1>3 DEF Paging!Ended, PagingInductive, PagingShape
  <2> QED
    BY <1>1, <1>3, <2>1 DEF Paging!Ended, PagingInductive, PagingBookkeeping
<1> QED
  BY <1>2, <1>3

LEMMA PagingServeKeeps ==
  ASSUME PagingInductive, NEW r \in Requests, Paging!Serve(r)
  PROVE  PagingInductive'
<1> DEFINE call == [calls[r] EXCEPT !.stage = "served",
                                    !.answer = Paging!List(calls[r].query, calls[r].page)]
<1>1. calls' = [calls EXCEPT ![r] = call] /\ UNCHANGED <<newest, spin, loadingMore>>
  BY DEF Paging!Serve, PagingInductive, PagingShape
<1>2. DOMAIN call = DOMAIN Paging!Free /\ call.mode = calls[r].mode /\ call.stage = "served"
  BY DEF PagingInductive, PagingShape, Paging!Free
<1> HIDE DEF call
<1> QED
  BY <1>1, <1>2 DEF PagingInductive, PagingShape, PagingBookkeeping

LEMMA PagingNextKeeps ==
  ASSUME PagingInductive, Paging!Next
  PROVE  PagingInductive'
<1>1. ASSUME NEW r \in Requests, NEW q \in Paging!Queries, Paging!NewQuery(r, q)
      PROVE  PagingInductive'
  BY <1>1, PagingLoadKeeps DEF Paging!NewQuery
<1>2. ASSUME NEW r \in Requests,
             Paging!SearchAgain(r) \/ Paging!Refresh(r) \/ Paging!LoadMore(r)
      PROVE  PagingInductive'
  BY <1>2, PagingLoadKeeps DEF Paging!SearchAgain, Paging!Refresh, Paging!LoadMore
<1>3. ASSUME NEW r \in Requests, Paging!Retry(r)
      PROVE  PagingInductive'
  BY <1>3, PagingLoadKeeps DEF Paging!Retry
<1>4. ASSUME NEW r \in Requests, Paging!Serve(r)
      PROVE  PagingInductive'
  BY <1>4, PagingServeKeeps
<1>5. ASSUME NEW r \in Requests, Paging!Receive(r) \/ Paging!FailRequest(r)
      PROVE  PagingInductive'
  BY <1>5, PagingEndedKeeps DEF Paging!Receive, Paging!FailRequest
<1>6. CASE Paging!DismissError \/ Paging!Render
  BY <1>6, PagingUntouched DEF Paging!DismissError, Paging!Render
<1>7. ASSUME NEW p \in Products, Paging!Sell(p) \/ Paging!ToggleOnSale(p)
      PROVE  PagingInductive'
  BY <1>7, PagingUntouched DEF Paging!Sell, Paging!ToggleOnSale, Paging!Change
<1> QED
  BY <1>1, <1>2, <1>3, <1>4, <1>5, <1>6, <1>7 DEF Paging!Next

------------------------------------------------------------------------------
(* The order list (useOrderPagination.ts:29-44 and 71-82), by the same     *)
(* argument.                                                               *)

ListShape ==
  /\ DOMAIN orderCalls = Requests
  /\ \A r \in Requests : DOMAIN orderCalls[r] = DOMAIN OrderList!Free
  /\ orderNewest \in Requests \cup {None} /\ moreRequest \in Requests \cup {None}
  /\ pageOne \in BOOLEAN
  /\ orderSpin \subseteq {"initial", "refresh", "more"}

ListInductive == ListShape /\ OrderList!OrderIndicatorsMatch

LEMMA ListInitially == OrderList!Init => ListInductive
  BY DEF OrderList!Init, ListInductive, ListShape, OrderList!OrderIndicatorsMatch,
         OrderList!Free

\* The bookkeeping is disturbed only where a request starts or ends.
LEMMA ListUntouched ==
  ASSUME ListInductive, UNCHANGED <<orderCalls, orderNewest, OrderList!flags>>
  PROVE  ListInductive'
  BY DEF ListInductive, ListShape, OrderList!OrderIndicatorsMatch, OrderList!flags

\* A request that starts becomes the one that counts, and takes over the indicators.
LEMMA ListLoadKeeps ==
  ASSUME ListInductive, NEW r \in Requests, NEW t, NEW n,
         NEW mode \in {"refresh", "silent", "more"},
         mode = "more" => moreRequest = None /\ ~pageOne,
         OrderList!LoadPage(r, t, n, mode)
  PROVE  ListInductive'
<1> DEFINE call == [OrderList!Free EXCEPT !.stage = "sent", !.mode = mode,
                                            !.page = n, !.tab = t]
<1>1. /\ orderCalls' = [orderCalls EXCEPT ![r] = call] /\ orderNewest' = r
      /\ pageOne' = (pageOne \/ mode # "more")
      /\ moreRequest' = (IF mode = "more" THEN r ELSE None)
      /\ orderSpin' = (IF mode = "more" THEN orderSpin ELSE orderSpin \ {"more"})
                    \cup ({mode} \ {"silent"})
  BY DEF OrderList!LoadPage
<1>2. DOMAIN call = DOMAIN OrderList!Free /\ call.mode = mode
  BY DEF OrderList!Free
<1> HIDE DEF call
<1>3. orderCalls'[orderNewest'].mode = mode
  BY <1>1, <1>2 DEF ListInductive, ListShape
<1>4. ListShape'
  BY <1>1, <1>2 DEF ListInductive, ListShape
<1>5. OrderList!OrderIndicatorsMatch'
  <2>1. CASE mode = "more"
    BY <1>1, <1>3, <2>1, NoneIsNoCaller
       DEF ListInductive, ListShape, OrderList!OrderIndicatorsMatch
  <2>2. CASE mode # "more"
    BY <1>1, <1>3, <2>2, NoneIsNoCaller
       DEF ListInductive, ListShape, OrderList!OrderIndicatorsMatch
  <2> QED
    BY <2>1, <2>2
<1> QED
  BY <1>4, <1>5 DEF ListInductive

LEMMA ListOpenKeeps ==
  ASSUME ListInductive, NEW r \in Requests, NEW t, OrderList!OpenTab(r, t)
  PROVE  ListInductive'
<1> DEFINE call == [OrderList!Free EXCEPT !.stage = "sent", !.mode = "initial",
                                            !.page = 1, !.tab = t]
<1>1. /\ orderCalls' = [orderCalls EXCEPT ![r] = call] /\ orderNewest' = r
      /\ orderSpin' = {"initial"} /\ moreRequest' = None /\ pageOne' = TRUE
  BY DEF OrderList!OpenTab
<1>2. DOMAIN call = DOMAIN OrderList!Free /\ call.mode = "initial"
  BY DEF OrderList!Free
<1> HIDE DEF call
<1> QED
  BY <1>1, <1>2, NoneIsNoCaller DEF ListInductive, ListShape, OrderList!OrderIndicatorsMatch

\* One that ends, whether its answer counted or not, clears what is its own.
LEMMA ListEndedKeeps ==
  ASSUME ListInductive, NEW r \in Requests, OrderList!Ended(r)
  PROVE  ListInductive'
<1>1. ListShape'
  BY DEF OrderList!Ended, ListInductive, ListShape, OrderList!Free
<1>2. CASE r = orderNewest
  <2>1. orderNewest' = None /\ moreRequest' = None /\ ~pageOne'
    BY <1>2 DEF OrderList!Ended, ListInductive, ListShape, OrderList!OrderIndicatorsMatch
  <2>2. orderSpin' = {}
    BY <1>2 DEF OrderList!Ended, ListInductive, ListShape, OrderList!OrderIndicatorsMatch
  <2> QED
    BY <1>1, <2>1, <2>2 DEF ListInductive, OrderList!OrderIndicatorsMatch
<1>3. CASE r # orderNewest
  <2>1. r # moreRequest
    BY <1>3, NoneIsNoCaller DEF ListInductive, ListShape, OrderList!OrderIndicatorsMatch
  <2>2. UNCHANGED <<orderNewest, moreRequest, orderSpin, pageOne>>
    BY <1>3, <2>1 DEF OrderList!Ended, ListInductive, ListShape
  <2>3. orderNewest # None => orderCalls'[orderNewest] = orderCalls[orderNewest]
    BY <1>3 DEF OrderList!Ended, ListInductive, ListShape
  <2> QED
    BY <1>1, <2>2, <2>3 DEF ListInductive, OrderList!OrderIndicatorsMatch
<1> QED
  BY <1>2, <1>3

LEMMA ListServeKeeps ==
  ASSUME ListInductive, NEW r \in Requests, OrderList!Serve(r)
  PROVE  ListInductive'
<1> DEFINE call == [orderCalls[r] EXCEPT
                     !.stage = "served",
                     !.answer = OrderList!List(orderCalls[r].tab, orderCalls[r].page)]
<1>1. /\ orderCalls' = [orderCalls EXCEPT ![r] = call]
      /\ UNCHANGED <<orderNewest, OrderList!flags>>
  BY DEF OrderList!Serve, ListInductive, ListShape
<1>2. DOMAIN call = DOMAIN OrderList!Free /\ call.mode = orderCalls[r].mode
  BY DEF ListInductive, ListShape, OrderList!Free
<1> HIDE DEF call
<1> QED
  BY <1>1, <1>2 DEF ListInductive, ListShape, OrderList!OrderIndicatorsMatch, OrderList!flags

LEMMA ListNextKeeps ==
  ASSUME ListInductive, OrderList!Next
  PROVE  ListInductive'
<1>1. ASSUME NEW r \in Requests, NEW t \in Tabs, OrderList!OpenTab(r, t)
      PROVE  ListInductive'
  BY <1>1, ListOpenKeeps
<1>2. ASSUME NEW r \in Requests, OrderList!Refresh(r) \/ OrderList!Refetch(r)
      PROVE  ListInductive'
  BY <1>2, ListLoadKeeps DEF OrderList!Refresh, OrderList!Refetch, OrderList!Reload
<1>3. ASSUME NEW r \in Requests, OrderList!LoadMore(r)
      PROVE  ListInductive'
  BY <1>3, ListLoadKeeps DEF OrderList!LoadMore
<1>4. ASSUME NEW r \in Requests, OrderList!Serve(r)
      PROVE  ListInductive'
  BY <1>4, ListServeKeeps
<1>5. ASSUME NEW r \in Requests, OrderList!Receive(r) \/ OrderList!FailRequest(r)
      PROVE  ListInductive'
  BY <1>5, ListEndedKeeps DEF OrderList!Receive, OrderList!FailRequest
<1>6. CASE OrderList!SignOut
  BY <1>6 DEF OrderList!SignOut, ListInductive, ListShape, OrderList!OrderIndicatorsMatch
<1>7. CASE OrderList!DismissError \/ OrderList!Render
  BY <1>7, ListUntouched DEF OrderList!DismissError, OrderList!Render
<1>8. ASSUME NEW o \in Orders, OrderList!Change(o)
      PROVE  ListInductive'
  BY <1>8, ListUntouched DEF OrderList!Change
<1> QED
  BY <1>1, <1>2, <1>3, <1>4, <1>5, <1>6, <1>7, <1>8 DEF OrderList!Next

------------------------------------------------------------------------------
(* The exposure tracker (useProductExposure, createThrottledRunner).  What *)
(* makes ReportedOnce inductive: the reports of a session are told by the  *)
(* ids the tracker has seen, and only a card of the list has a layout.     *)

Told(seen) == [p \in Opened |-> IF p \in seen THEN 1 ELSE 0]

CardsPlaced ==
  /\ layouts \in [Opened -> Tops \cup {None}]
  /\ \A p \in Opened : layouts[p] # None => p \in cards

VisibleSeen == \A p \in cards : Tracker!Visible(p) => p \in seenIds

TrackerTyped ==
  /\ cards \in SUBSET Opened /\ seenIds \in SUBSET Opened
  /\ since \in 0..Wait /\ timer \in (0..Wait) \cup {None}

TrackerInductive ==
  /\ CardsPlaced /\ TrackerTyped
  /\ reports = Told(seenIds)
  /\ inView /\ timer = None => VisibleSeen
  /\ timer # None => since + timer >= Wait

LEMMA TrackerImplies == TrackerInductive => Tracker!ReportedOnce
  BY DEF TrackerInductive, TrackerTyped, VisibleSeen, Told, Tracker!ReportedOnce

LEMMA TrackerInitially == Tracker!Init => TrackerInductive
  BY Measures DEF Tracker!Init, TrackerInductive, CardsPlaced, TrackerTyped, VisibleSeen, Told

LEMMA TrackerUntouched ==
  ASSUME TrackerInductive, UNCHANGED exposureVars
  PROVE  TrackerInductive'
  BY DEF exposureVars, TrackerInductive, CardsPlaced, TrackerTyped, VisibleSeen, Told,
         Tracker!Visible

\* A look reports each visible card that was not seen before, and leaves none out.
LEMMA LookSees ==
  ASSUME NEW seen \in SUBSET Opened, CardsPlaced', (cards \in SUBSET Opened)',
         Tracker!Look(seen, Told(seen))
  PROVE  seenIds' \in SUBSET Opened /\ reports' = Told(seenIds)' /\ VisibleSeen' /\ since' = 0
<1> DEFINE ids == {p \in Opened : Tracker!Visible(p)' /\ p \notin seen}
<1>1. /\ seenIds' = seen \cup ids /\ since' = 0
      /\ reports' = [p \in Opened |-> IF p \in ids \cap cards' THEN Told(seen)[p] + 1
                                                               ELSE Told(seen)[p]]
  BY DEF Tracker!Look
<1>2. \A p \in ids : p \in cards'
  BY DEF CardsPlaced, Tracker!Visible
<1>3. \A p \in cards' : Tracker!Visible(p)' => p \in seen \cup ids
  OBVIOUS
<1>4. ids \in SUBSET Opened /\ \A p \in ids : p \notin seen
  OBVIOUS
<1> HIDE DEF ids
<1>5. VisibleSeen'
  BY <1>1, <1>3 DEF VisibleSeen
<1>6. \A p \in Opened : Told(seen)[p] = IF p \in seen THEN 1 ELSE 0
  BY DEF Told
<1>7. reports' = [p \in Opened |-> IF p \in seen \cup ids THEN 1 ELSE 0]
  BY <1>1, <1>2, <1>4, <1>6
<1> QED
  BY <1>1, <1>4, <1>5, <1>7 DEF Told

\* After a request to look, either there was a look or a timer is set, in time.
LEMMA RunKeeps ==
  ASSUME TrackerInductive, NEW seen \in SUBSET Opened, CardsPlaced', (cards \in SUBSET Opened)',
         Tracker!Run(seen, Told(seen))
  PROVE  TrackerInductive'
<1>1. since \in Int /\ Wait \in Int /\ Wait > 0
  BY Measures DEF TrackerInductive, TrackerTyped
<1>2. CASE since >= Wait
  <2>1. Tracker!Look(seen, Told(seen)) /\ timer' = None
    BY <1>2 DEF Tracker!Run
  <2> QED
    BY <2>1, <1>1, LookSees DEF TrackerInductive, TrackerTyped
<1>3. CASE ~(since >= Wait)
  <2>1. /\ timer' = IF timer = None THEN Wait - since ELSE timer
        /\ seenIds' = seen /\ reports' = Told(seen) /\ since' = since
    BY <1>3 DEF Tracker!Run
  <2>2. timer' \in 0..Wait /\ since' + timer' >= Wait /\ timer' # None
    BY <2>1, <1>1, <1>3, NoneIsNoTime DEF TrackerInductive, TrackerTyped
  <2>3. reports' = Told(seenIds)'
    BY <2>1 DEF Told
  <2> QED
    BY <2>1, <2>2, <2>3 DEF TrackerInductive, TrackerTyped
<1> QED
  BY <1>2, <1>3

LEMMA TrackerNextKeeps ==
  ASSUME TrackerInductive, Tracker!Next
  PROVE  TrackerInductive'
<1> USE DEF TrackerInductive, TrackerTyped
<1>1. CASE Tracker!Render
  <2>1. CardsPlaced' /\ (cards \in SUBSET Opened)'
    BY <1>1 DEF Tracker!Render, CardsPlaced
  <2> QED
    BY <1>1, <2>1, RunKeeps DEF Tracker!Render
<1>2. CASE Tracker!OnProductLayout
  <2>1. CardsPlaced' /\ (cards \in SUBSET Opened)'
    BY <1>2 DEF Tracker!OnProductLayout, CardsPlaced
  <2> QED
    BY <1>2, <2>1, RunKeeps DEF Tracker!OnProductLayout
<1>3. CASE Tracker!OnScroll
  <2>1. CardsPlaced' /\ (cards \in SUBSET Opened)'
    BY <1>3 DEF Tracker!OnScroll, CardsPlaced
  <2> QED
    BY <1>3, <2>1, RunKeeps DEF Tracker!OnScroll
<1>4. CASE Tracker!Focus
  <2>1. CardsPlaced' /\ (cards \in SUBSET Opened)'
    BY <1>4 DEF Tracker!Focus, CardsPlaced
  <2>2. [p \in Opened |-> 0] = Told({})
    BY DEF Told
  <2>3. Tracker!Run({}, Told({}))
    BY <1>4, <2>2 DEF Tracker!Focus
  <2> QED
    BY <2>1, <2>3, RunKeeps
<1>5. CASE Tracker!Blur
  BY <1>5 DEF Tracker!Blur, CardsPlaced, Told
<1>6. CASE Tracker!Tick
  <2>1. UNCHANGED <<cards, layouts, viewport, seenIds, reports, inView>>
    BY <1>6 DEF Tracker!Tick
  <2>2. CardsPlaced' /\ (VisibleSeen => VisibleSeen') /\ reports' = Told(seenIds)'
    BY <2>1 DEF CardsPlaced, VisibleSeen, Told, Tracker!Visible
  <2>3. /\ since' \in 0..Wait /\ timer' \in (0..Wait) \cup {None}
        /\ timer' = None => timer = None
        /\ timer' # None => since' + timer' >= Wait
    BY <1>6, Measures, NoneIsNoTime DEF Tracker!Tick
  <2> QED
    BY <2>1, <2>2, <2>3
<1>7. CASE Tracker!Ring
  <2>1. CardsPlaced' /\ (cards \in SUBSET Opened)' /\ timer' = None
    BY <1>7 DEF Tracker!Ring, CardsPlaced
  <2>2. Tracker!Look(seenIds, Told(seenIds))
    BY <1>7 DEF Tracker!Ring
  <2> QED
    BY <2>1, <2>2, LookSees, Measures
<1> QED
  BY <1>1, <1>2, <1>3, <1>4, <1>5, <1>6, <1>7 DEF Tracker!Next

------------------------------------------------------------------------------
(* The product page (ProductDetailScreen.tsx, pending-retry).  What makes  *)
(* CarriedOutOnce inductive: taps are numbered as they come and only one   *)
(* that was made has been carried out; and while the page waits for its    *)
(* user to sign in, what is pending is the last tap, not yet carried out.  *)

Taps == Detail!Taps
Used == Detail!Used

DetailTyped ==
  /\ pending \in Taps \cup {None}
  /\ taps \in [Taps -> [kind : Detail!Kinds \cup {None}, product : Opened \cup {None}]]
  /\ sent \in [Taps -> Nat]
  /\ at # "away" => product \in Opened

TappedInOrder ==
  \E n \in 0..MaxTaps : Used = 1..n /\ \A t \in Taps : t > n => sent[t] = 0

Waits ==
  awaiting /\ pending # None =>
    /\ at = "login" /\ taps[pending].product = product
    /\ pending = Cardinality(Used) /\ sent[pending] = 0

DetailInductive == DetailTyped /\ TappedInOrder /\ Waits

\* The action of CarriedOutOnce.
Once == \A t \in Taps : sent'[t] # sent[t]
          => sent'[t] = 1 /\ member' /\ Cardinality(Used)' = t

\* The page counts with the Cardinality of its own instance.
LEMMA SameCount == \A S : Detail!Cardinality(S) = Cardinality(S)
  BY DEF Detail!Cardinality, Cardinality

LEMMA DetailInitially == Detail!Init => DetailInductive
<1> SUFFICES ASSUME Detail!Init PROVE DetailInductive
  OBVIOUS
<1>1. DetailTyped
  BY DEF Detail!Init, DetailTyped, Taps, Detail!NoTap
<1>2. Used = 1..0 /\ 0 \in 0..MaxTaps
  BY TapsCounted DEF Detail!Init, Used, Detail!Used, Detail!NoTap
<1>3. TappedInOrder
  BY <1>2 DEF Detail!Init, TappedInOrder, Taps
<1>4. Waits
  BY DEF Detail!Init, Waits
<1> QED
  BY <1>1, <1>3, <1>4 DEF DetailInductive

LEMMA UsedCount ==
  ASSUME NEW n \in Nat, Used = 1..n
  PROVE  Cardinality(Used) = n
<1>1. 1 \in Int /\ n \in Int
  OBVIOUS
<1> QED
  BY <1>1, FS_Interval

\* Steps that carry nothing out and neither tap nor wait.
LEMMA DetailQuiet ==
  ASSUME DetailInductive, UNCHANGED <<taps, sent>>, pending' \in {None, pending},
         at' # "away" => product' \in Opened,
         awaiting' /\ pending' # None => awaiting /\ at' = at /\ product' = product
  PROVE  DetailInductive' /\ Once
<1>1. Used' = Used
  BY DEF Used, Detail!Used
<1>2. DetailTyped'
  BY DEF DetailInductive, DetailTyped, Taps, Detail!Taps
<1>3. TappedInOrder'
  BY <1>1 DEF DetailInductive, TappedInOrder
<1>4. Waits'
  BY <1>1 DEF DetailInductive, Waits
<1> QED
  BY <1>2, <1>3, <1>4 DEF DetailInductive, Once

\* What Execute does with the last tap, while that has not been carried out.
LEMMA ExecuteOnce ==
  ASSUME NEW t \in Taps, NEW tap, sent \in [Taps -> Nat], sent[t] = 0,
         pending \in Taps \cup {None}, Cardinality(Used)' = t, Detail!Execute(t, tap)
  PROVE  /\ at' # "away" /\ pending' \in {None, pending}
         /\ sent' \in [Taps -> Nat] /\ \A s \in Taps \ {t} : sent'[s] = sent[s]
         /\ Once
<1>1. \/ sent' = [sent EXCEPT ![t] = @ + 1] /\ member'
      \/ sent' = sent
  BY DEF Detail!Execute
<1>2. at' # "away" /\ pending' \in {None, pending}
  BY DEF Detail!Execute
<1>3. CASE sent' = [sent EXCEPT ![t] = @ + 1] /\ member'
  BY <1>2, <1>3 DEF Once
<1>4. CASE sent' = sent
  BY <1>2, <1>4 DEF Once
<1> QED
  BY <1>1, <1>3, <1>4

LEMMA TapKeeps ==
  ASSUME DetailInductive, NEW kind \in Detail!Kinds, Detail!Tap(kind)
  PROVE  DetailInductive' /\ Once
<1>1. PICK n \in 0..MaxTaps : Used = 1..n /\ \A t \in Taps : t > n => sent[t] = 0
  BY DEF DetailInductive, TappedInOrder
<1>2. Cardinality(Used) = n
  BY <1>1, TapsCounted, UsedCount
<1> DEFINE t == n + 1
           tap == [kind |-> kind, product |-> product]
<1>3. /\ t \in Taps /\ taps' = [taps EXCEPT ![t] = tap]
      /\ \/ member /\ Detail!Execute(t, taps'[t]) /\ awaiting' = awaiting
         \/ pending' = t /\ awaiting' = TRUE /\ at' = "login" /\ sent' = sent
  <2>1. PICK u \in Taps :
          /\ u = Cardinality(Used) + 1
          /\ taps' = [taps EXCEPT ![u] = [kind |-> kind, product |-> product]]
          /\ IF member THEN Detail!Execute(u, taps'[u]) /\ awaiting' = awaiting
                       ELSE /\ pending' = u /\ awaiting' = TRUE /\ at' = "login"
                            /\ sent' = sent
    BY SameCount DEF Detail!Tap, Used, Taps
  <2>2. u = t
    BY <2>1, <1>2
  <2> QED
    BY <2>1, <2>2
<1>4. at = "page" /\ product' = product
  BY DEF Detail!Tap
<1>5. product \in Opened /\ product # None
  <2>1. product \in Opened
    BY <1>4 DEF DetailInductive, DetailTyped
  <2>2. product \in Int
    BY <2>1, OpenedInCatalogue, ProductsOrdered
  <2> QED
    BY <2>1, <2>2, NoneIsNoTime
<1>6. /\ tap \in [kind : Detail!Kinds \cup {None}, product : Opened \cup {None}]
      /\ tap # Detail!NoTap /\ tap.product = product
  BY <1>5 DEF Detail!NoTap
<1> HIDE DEF tap
<1>7. taps' \in [Taps -> [kind : Detail!Kinds \cup {None}, product : Opened \cup {None}]]
  BY <1>3, <1>6 DEF DetailInductive, DetailTyped
<1>8. taps'[t] = tap
  BY <1>3 DEF DetailInductive, DetailTyped
<1>9. Used' = 1..t
  <2>1. Used' = {s \in Taps : taps'[s] # Detail!NoTap} /\ Used = {s \in Taps : taps[s] # Detail!NoTap}
    BY DEF Used, Taps, Detail!Used, Detail!NoTap
  <2>2. Used' = Used \cup {t}
    BY <2>1, <1>3, <1>6, <1>8 DEF DetailInductive, DetailTyped
  <2> QED
    BY <2>2, <1>1
<1>10. Cardinality(Used)' = t
  <2>1. 1 \in Int /\ t \in Int /\ Cardinality(Used') = Cardinality(1..t)
    BY <1>9
  <2> QED
    BY <2>1, FS_Interval
<1>11. sent[t] = 0 /\ sent \in [Taps -> Nat] /\ pending \in Taps \cup {None}
  BY <1>1, <1>3 DEF DetailInductive, DetailTyped
<1>12. ~(awaiting /\ pending # None)
  BY <1>4 DEF DetailInductive, Waits
<1>13. CASE member /\ Detail!Execute(t, taps'[t]) /\ awaiting' = awaiting
  <2>1. /\ at' # "away" /\ pending' \in {None, pending}
        /\ sent' \in [Taps -> Nat] /\ \A s \in Taps \ {t} : sent'[s] = sent[s]
        /\ Once
    BY <1>3, <1>10, <1>11, <1>13, ExecuteOnce
  <2>2. \A s \in Taps : s > t => sent'[s] = 0
    BY <1>1, <2>1 DEF Taps, Detail!Taps
  <2>3. DetailTyped'
    BY <1>4, <1>5, <1>7, <1>11, <2>1 DEF DetailTyped, Taps, Detail!Taps
  <2>4. TappedInOrder'
    BY <1>3, <1>9, <2>2 DEF TappedInOrder, Taps, Detail!Taps
  <2>5. Waits'
    BY <1>12, <1>13, <2>1 DEF Waits
  <2> QED
    BY <2>1, <2>3, <2>4, <2>5 DEF DetailInductive
<1>14. CASE pending' = t /\ awaiting' = TRUE /\ at' = "login" /\ sent' = sent
  <2>1. DetailTyped'
    BY <1>3, <1>4, <1>5, <1>7, <1>11, <1>14 DEF DetailTyped, Taps, Detail!Taps
  <2>2. TappedInOrder'
    <3>1. \A s \in Taps : s > t => sent'[s] = 0
      BY <1>1, <1>14 DEF Taps, Detail!Taps
    <3> QED
      BY <1>3, <1>9, <3>1 DEF TappedInOrder, Taps, Detail!Taps
  <2>3. Waits'
    BY <1>4, <1>6, <1>8, <1>10, <1>11, <1>14 DEF Waits
  <2> QED
    BY <2>1, <2>2, <2>3, <1>14 DEF DetailInductive, Once
<1> QED
  BY <1>3, <1>13, <1>14

LEMMA FocusKeeps ==
  ASSUME DetailInductive, at \in {"login", "beyond"}, Detail!Focus, UNCHANGED <<product, taps>>
  PROVE  DetailInductive' /\ Once
<1>1. product \in Opened /\ Used' = Used
  BY DEF DetailInductive, DetailTyped, Used, Detail!Used
<1>2. CASE pending # None /\ awaiting /\ member'
  <2>1. taps[pending].product = product /\ pending = Cardinality(Used) /\ sent[pending] = 0
    BY <1>2 DEF DetailInductive, Waits
  <2>2. awaiting' = FALSE /\ Detail!Execute(pending, taps[pending])
    BY <1>2, <2>1 DEF Detail!Focus
  <2>3. pending \in Taps /\ sent \in [Taps -> Nat] /\ Cardinality(Used)' = pending
    BY <1>1, <1>2, <2>1 DEF DetailInductive, DetailTyped
  <2>4. /\ at' # "away" /\ pending' \in {None, pending}
        /\ sent' \in [Taps -> Nat] /\ \A s \in Taps \ {pending} : sent'[s] = sent[s]
        /\ Once
    BY <2>1, <2>2, <2>3, ExecuteOnce
  <2>5. DetailTyped'
    BY <1>1, <2>3, <2>4 DEF DetailInductive, DetailTyped, Taps, Detail!Taps
  <2>6. TappedInOrder'
    <3>1. PICK n \in 0..MaxTaps : Used = 1..n /\ \A t \in Taps : t > n => sent[t] = 0
      BY DEF DetailInductive, TappedInOrder
    <3>2. pending = n
      BY <3>1, <2>1, TapsCounted, UsedCount
    <3>3. \A t \in Taps : t > n => sent'[t] = 0
      BY <3>1, <3>2, <2>4 DEF Taps, Detail!Taps
    <3> QED
      BY <1>1, <3>1, <3>3 DEF TappedInOrder, Taps, Detail!Taps
  <2> QED
    BY <2>2, <2>4, <2>5, <2>6 DEF DetailInductive, Waits
<1>3. CASE pending # None /\ awaiting /\ ~member'
  <2>1. taps[pending].product = product
    BY <1>3 DEF DetailInductive, Waits
  <2>2. awaiting' = FALSE /\ pending' = None /\ at' = "page" /\ sent' = sent
    BY <1>3, <2>1 DEF Detail!Focus
  <2> QED
    BY <1>1, <2>2, DetailQuiet
<1>4. CASE ~(pending # None /\ awaiting)
  <2>1. at' = "page" /\ UNCHANGED <<awaiting, pending, sent>>
    BY <1>4 DEF Detail!Focus
  <2> QED
    BY <1>1, <1>4, <2>1, DetailQuiet
<1> QED
  BY <1>2, <1>3, <1>4

LEMMA DetailUntouched ==
  ASSUME DetailInductive, UNCHANGED detailVars
  PROVE  DetailInductive'
  BY DetailQuiet DEF detailVars, DetailInductive, DetailTyped

LEMMA DetailNextKeeps ==
  ASSUME DetailInductive, Detail!Next
  PROVE  DetailInductive' /\ Once
<1>0. at # "away" => product \in Opened
  BY DEF DetailInductive, DetailTyped
<1>1. ASSUME NEW p \in Opened, Detail!Open(p)
      PROVE  DetailInductive' /\ Once
  BY <1>1, DetailQuiet DEF Detail!Open
<1>2. CASE \/ \E how \in {"shown", "missing", "failed"} : Detail!Loaded(how)
           \/ Detail!LoadAgain
  BY <1>0, <1>2, DetailQuiet DEF Detail!Loaded, Detail!LoadAgain, Detail!intent
<1>3. CASE Detail!Leave
  BY <1>3, DetailQuiet DEF Detail!Leave
<1>4. ASSUME NEW kind \in Detail!Kinds, Detail!Tap(kind)
      PROVE  DetailInductive' /\ Once
  BY <1>4, TapKeeps
<1>5. CASE \/ Detail!AddSucceeds \/ Detail!AddFails
           \/ \E t \in Taps : Detail!OrphanEnds(t)
  BY <1>0, <1>5, DetailQuiet DEF Detail!AddSucceeds, Detail!AddFails, Detail!OrphanEnds, Detail!page
<1>6. CASE Detail!SignIn \/ Detail!GoBack
  BY <1>6, FocusKeeps DEF Detail!SignIn, Detail!GoBack
<1>7. CASE Detail!SessionEnds
  <2>1. /\ UNCHANGED <<product, pending, awaiting, taps, sent>>
        /\ at' = at \/ at \in {"page", "beyond"}
    BY <1>7 DEF Detail!SessionEnds, Detail!intent
  <2>2. at \in {"page", "beyond"} => ~(awaiting /\ pending # None)
    BY DEF DetailInductive, Waits
  <2>3. at' # "away" => at # "away"
    BY <2>1
  <2> QED
    BY <1>0, <2>1, <2>2, <2>3, DetailQuiet
<1>8. CASE Detail!SessionRestored
  BY <1>0, <1>8, DetailQuiet DEF Detail!SessionRestored, Detail!page, Detail!intent
<1> QED
  BY <1>1, <1>2, <1>3, <1>4, <1>5, <1>6, <1>7, <1>8 DEF Detail!Next, Taps

------------------------------------------------------------------------------
(* The analytics client (analytics/client.ts).  Two invariants meet here.  *)
(* The queue of writes ends with the latest use of the switch while that   *)
(* one is pending, and is empty otherwise: so nothing is stored after it.  *)
(* And while no two calls have overlapped since the app started, the only  *)
(* one under way says how far the SDK has been switched.                   *)

Callers == Analytics!Callers
Call == [stage : {"free", "read", "queued", "optIn", "record", "stop", "optOut"},
         want : BOOLEAN, previous : BOOLEAN, back : BOOLEAN]
Under == {c \in Callers : telemetryCalls[c].stage # "free"}

AnalyticsTyped ==
  /\ telemetryCalls \in [Callers -> Call]
  /\ \A c \in Callers : telemetryCalls[c].stage = "free" => telemetryCalls[c] = Analytics!Free
  /\ telemetryCalls[Boot].stage \in {"free", "read", "optIn", "record"}
  /\ \A t \in Toggles : telemetryCalls[t].stage # "read"
  /\ sdk \in [made : BOOLEAN, in : BOOLEAN, recording : BOOLEAN]
  /\ stored \in BOOLEAN /\ enabled \in BOOLEAN /\ capture \in BOOLEAN
  /\ raced \in BOOLEAN /\ asked \in BOOLEAN

Queued ==
  /\ queue \in Seq(Toggles)
  /\ \A i, j \in 1..Len(queue) : queue[i] = queue[j] => i = j
  /\ \A i \in 1..Len(queue) : telemetryCalls[queue[i]].stage = "queued"
  /\ \A t \in Toggles : telemetryCalls[t].stage = "queued" => \E i \in 1..Len(queue) : queue[i] = t
  /\ IF outcome = "pending"
     THEN Len(queue) > 0 /\ queue[Len(queue)] = latest /\ telemetryCalls[latest].want = asked
     ELSE Len(queue) = 0
  /\ outcome = "stored" => stored = asked
  /\ latest # Boot

\* What holds when nothing is under way, as ChoiceKept and EventsBelongToUser say.
Resting ==
  /\ ~enabled => ~capture /\ (sdk.recording => "recording" \in slips)
  /\ capture /\ sdk.made /\ "identity" \notin slips => applied = user

\* How far the call that is under way has come.
Midway(c) ==
  /\ c = Boot => enabled /\ ~capture /\ ~sdk.recording
  /\ c \in Toggles => latest = c
  /\ telemetryCalls[c].stage = "queued" =>
       /\ telemetryCalls[c].want = enabled /\ telemetryCalls[c].previous = ~enabled
       /\ capture = enabled /\ ~telemetryCalls[c].back
  /\ telemetryCalls[c].stage \in {"optIn", "record"} =>
       /\ enabled /\ sdk.made
       /\ c \in Toggles => IF telemetryCalls[c].back THEN ~capture
                                                     ELSE ~telemetryCalls[c].previous
  /\ telemetryCalls[c].stage = "stop" => ~enabled /\ ~capture
  /\ telemetryCalls[c].stage = "optOut" => ~enabled /\ ~capture /\ ~sdk.recording

Sober == ~sdk.made => (sdk.recording => "recording" \in slips)
Alone == \A c, d \in Under : c = d

Undisturbed ==
  ~raced => /\ Alone /\ Sober
            /\ Under = {} => Resting
            /\ \A c \in Under : Midway(c)

\* Once the analytics are there, they follow the auth store.
Followed == telemetryCalls[Boot].stage = "free" => desired = user

AnalyticsInductive == AnalyticsTyped /\ Queued /\ Undisturbed /\ Followed

LEMMA AnalyticsImplies ==
  AnalyticsInductive => /\ Analytics!OffMeansOff /\ Analytics!LastChoiceStored
                        /\ Analytics!EventsBelongToUser
<1> SUFFICES ASSUME AnalyticsInductive
             PROVE  /\ Analytics!OffMeansOff /\ Analytics!LastChoiceStored
                    /\ Analytics!EventsBelongToUser
  OBVIOUS
<1>1. Under = Analytics!Under
  BY DEF Under, Callers, Analytics!Under
<1>2. Analytics!OffMeansOff /\ Analytics!EventsBelongToUser
  BY <1>1 DEF AnalyticsInductive, Undisturbed, Resting, Analytics!OffMeansOff,
              Analytics!EventsBelongToUser
<1>3. Analytics!LastChoiceStored
  BY DEF AnalyticsInductive, Queued, Analytics!LastChoiceStored
<1> QED
  BY <1>2, <1>3

LEMMA StartedCall ==
  /\ Analytics!Free \in Call /\ Analytics!Free.stage = "free"
  /\ Analytics!Started \in Call /\ Analytics!Started.stage = "read"
  BY DEF Analytics!Free, Analytics!Started, Call

\* A start of the app: nothing but its own call is under way.
Starts ==
  /\ telemetryCalls = [c \in Callers |-> IF c = Boot THEN Analytics!Started ELSE Analytics!Free]
  /\ enabled = TRUE /\ capture = FALSE /\ stored \in BOOLEAN
  /\ sdk \in [made : BOOLEAN, in : BOOLEAN, recording : BOOLEAN]
  /\ sdk.made = FALSE /\ sdk.recording = FALSE
  /\ queue = <<>> /\ asked = TRUE /\ outcome = "none" /\ raced = FALSE /\ latest = None

LEMMA StartHolds == Starts => AnalyticsInductive
<1> SUFFICES ASSUME Starts PROVE AnalyticsInductive
  OBVIOUS
<1> USE DEF Starts
<1>1. Boot \in Callers /\ Toggles \subseteq Callers
  BY DEF Callers, Analytics!Callers
<1>2. Under = {Boot}
  BY <1>1, StartedCall DEF Under
<1>3. telemetryCalls[Boot] = Analytics!Started
  BY <1>1
<1>4. AnalyticsTyped
  BY <1>1, <1>3, BootIsNoToggle, StartedCall DEF AnalyticsTyped
<1>5. Queued
  BY <1>1, BootIsNoToggle, StartedCall DEF Queued
<1>6. Undisturbed
  BY <1>2, <1>3, BootIsNoToggle, StartedCall DEF Undisturbed, Alone, Sober, Midway
<1>7. Followed
  BY <1>3, StartedCall DEF Followed
<1> QED
  BY <1>4, <1>5, <1>6, <1>7 DEF AnalyticsInductive

LEMMA AnalyticsInitially == Analytics!Init => AnalyticsInductive
<1>1. Analytics!Init => Starts
  BY DEF Analytics!Init, Starts, Callers
<1> QED
  BY <1>1, StartHolds

LEMMA AnalyticsUntouched ==
  ASSUME AnalyticsInductive, UNCHANGED analyticsVars
  PROVE  AnalyticsInductive'
<1>1. Under' = Under
  BY DEF Under, analyticsVars, Callers, Analytics!Callers
<1> QED
  BY <1>1 DEF analyticsVars, AnalyticsInductive, AnalyticsTyped, Queued, Undisturbed, Resting,
              Midway, Sober, Alone, Followed, Callers, Analytics!Callers, Call

\* A call goes on to another stage, or ends; no other call moves.
Turn(c, stage) ==
  /\ telemetryCalls' \in [Callers -> Call]
  /\ \A d \in Callers \ {c} : telemetryCalls'[d] = telemetryCalls[d]
  /\ telemetryCalls'[c].stage = stage
  /\ stage = "free" => telemetryCalls'[c] = Analytics!Free
  /\ telemetryCalls'[c].previous = telemetryCalls[c].previous \/ stage = "free"

LEMMA TurnTyped ==
  ASSUME AnalyticsTyped, NEW c \in Callers, NEW stage, Turn(c, stage),
         c = Boot => stage \in {"free", "record", "optIn"}, stage # "read",
         sdk' \in [made : BOOLEAN, in : BOOLEAN, recording : BOOLEAN],
         stored' \in BOOLEAN, enabled' \in BOOLEAN, capture' \in BOOLEAN,
         raced' = raced, asked' = asked
  PROVE  AnalyticsTyped'
<1>1. Boot \in Callers /\ Toggles \subseteq Callers
  BY DEF Callers, Analytics!Callers
<1>2. \A d \in Callers : telemetryCalls'[d].stage = "free" => telemetryCalls'[d] = Analytics!Free
  BY DEF AnalyticsTyped, Turn
<1>3. telemetryCalls'[Boot].stage \in {"free", "read", "optIn", "record"}
  BY <1>1 DEF AnalyticsTyped, Turn
<1>4. \A t \in Toggles : telemetryCalls'[t].stage # "read"
  BY <1>1 DEF AnalyticsTyped, Turn
<1> QED
  BY <1>2, <1>3, <1>4 DEF AnalyticsTyped, Turn, Callers, Analytics!Callers

LEMMA TurnQueued ==
  ASSUME AnalyticsTyped, Queued, NEW c \in Callers, NEW stage, Turn(c, stage),
         telemetryCalls[c].stage # "queued", stage # "queued",
         UNCHANGED <<queue, latest, asked, outcome, stored>>
  PROVE  Queued'
<1>1. Toggles \subseteq Callers
  BY DEF Callers, Analytics!Callers
<1>2. \A i \in 1..Len(queue) : queue[i] \in Toggles /\ queue[i] # c
  BY DEF Queued
<1>3. \A i \in 1..Len(queue) : telemetryCalls'[queue[i]] = telemetryCalls[queue[i]]
  BY <1>1, <1>2 DEF Turn
<1>4. \A t \in Toggles : telemetryCalls'[t].stage = "queued" => telemetryCalls[t].stage = "queued"
  BY <1>1 DEF Turn
<1>5. outcome = "pending" => latest \in Callers /\ latest # c
  BY <1>1, <1>2 DEF Queued
<1>6. outcome = "pending" => telemetryCalls'[latest] = telemetryCalls[latest]
  BY <1>5 DEF Turn
<1> QED
  BY <1>3, <1>4, <1>6 DEF Queued

\* While calls do not overlap, only what the one that moves leaves behind has to be looked at.
LEMMA TurnUndisturbed ==
  ASSUME Undisturbed, NEW c \in Callers, NEW stage, Turn(c, stage),
         telemetryCalls[c].stage # "free", raced' = raced,
         ~raced => Sober' /\ IF stage = "free" THEN Resting' ELSE Midway(c)'
  PROVE  Undisturbed'
<1> SUFFICES ASSUME ~raced PROVE Undisturbed'
  BY DEF Undisturbed
<1>1. \A d \in Callers : telemetryCalls[d].stage # "free" => d = c
  BY DEF Undisturbed, Alone, Under
<1>2. \A d \in Callers : telemetryCalls'[d].stage # "free" => d = c
  BY <1>1 DEF Turn
<1>3. Under' \subseteq {c} /\ (Under' = {} <=> stage = "free")
  BY <1>2 DEF Under, Turn, Callers, Analytics!Callers
<1>4. Alone'
  BY <1>3 DEF Alone
<1>5. \A d \in Under' : Midway(d)'
  <2> SUFFICES ASSUME NEW d \in Under' PROVE Midway(d)'
    OBVIOUS
  <2>1. d = c /\ stage # "free"
    BY <1>3
  <2>2. Midway(c)'
    BY <2>1
  <2> QED
    BY <2>1, <2>2
<1>6. Under' = {} => Resting'
  BY <1>3
<1> QED
  BY <1>4, <1>5, <1>6 DEF Undisturbed

\* The three together, for a step of a call that has left the queue.
LEMMA TurnKeeps ==
  ASSUME AnalyticsInductive, NEW c \in Callers, NEW stage, Turn(c, stage),
         telemetryCalls[c].stage \notin {"free", "queued"}, stage \notin {"read", "queued"},
         c = Boot => stage \in {"free", "record", "optIn"},
         sdk' \in [made : BOOLEAN, in : BOOLEAN, recording : BOOLEAN],
         enabled' \in BOOLEAN, capture' \in BOOLEAN, Followed',
         UNCHANGED <<stored, queue, latest, asked, outcome, raced>>,
         ~raced => Sober' /\ IF stage = "free" THEN Resting' ELSE Midway(c)'
  PROVE  AnalyticsInductive'
<1>1. AnalyticsTyped'
  BY TurnTyped DEF AnalyticsInductive, AnalyticsTyped
<1>2. Queued'
  BY TurnQueued DEF AnalyticsInductive
<1>3. Undisturbed'
  BY TurnUndisturbed DEF AnalyticsInductive
<1> QED
  BY <1>1, <1>2, <1>3 DEF AnalyticsInductive

\* What is known of the only call under way.
LEMMA OnlyOne ==
  ASSUME AnalyticsInductive, ~raced, NEW c \in Callers, telemetryCalls[c].stage # "free"
  PROVE  /\ Midway(c) /\ Sober
         /\ c # Boot => telemetryCalls[Boot].stage = "free" /\ desired = user
<1>1. Boot \in Callers
  BY DEF Callers, Analytics!Callers
<1> QED
  BY <1>1 DEF AnalyticsInductive, Undisturbed, Alone, Under, Followed

LEMMA OptInKeeps ==
  ASSUME AnalyticsInductive, NEW c \in Callers, Analytics!OptIn(c)
  PROVE  AnalyticsInductive'
<1>1. telemetryCalls[c].stage = "optIn" /\ telemetryCalls \in [Callers -> Call]
  BY DEF Analytics!OptIn, AnalyticsInductive, AnalyticsTyped
<1>2. /\ telemetryCalls' = [telemetryCalls EXCEPT ![c].stage = "record"]
      /\ sdk' = [sdk EXCEPT !.in = TRUE]
      /\ UNCHANGED <<stored, enabled, capture, user, desired, applied, queue, latest, asked,
                     outcome, raced, slips>>
  BY DEF Analytics!OptIn, Analytics!choice, Analytics!identity, Analytics!switch
<1>3. Turn(c, "record") /\ telemetryCalls'[c].back = telemetryCalls[c].back
  BY <1>1, <1>2 DEF Turn, Call
<1>4. /\ sdk' \in [made : BOOLEAN, in : BOOLEAN, recording : BOOLEAN]
      /\ sdk'.made = sdk.made /\ sdk'.recording = sdk.recording
  BY <1>2 DEF AnalyticsInductive, AnalyticsTyped
<1>5. ~raced => Sober' /\ Midway(c)'
  BY <1>1, <1>2, <1>3, <1>4, OnlyOne DEF Midway, Sober, Turn
<1>6. Followed'
  BY <1>1, <1>2, <1>3 DEF AnalyticsInductive, Followed, Turn
<1>7. enabled' \in BOOLEAN /\ capture' \in BOOLEAN
  BY <1>2 DEF AnalyticsInductive, AnalyticsTyped
<1> QED
  BY <1>1, <1>2, <1>3, <1>4, <1>5, <1>6, <1>7, TurnKeeps

LEMMA RecordKeeps ==
  ASSUME AnalyticsInductive, NEW c \in Callers, Analytics!Record(c)
  PROVE  AnalyticsInductive'
<1>1. telemetryCalls[c].stage = "record" /\ telemetryCalls \in [Callers -> Call]
  BY DEF Analytics!Record, AnalyticsInductive, AnalyticsTyped
<1>2. /\ telemetryCalls' = [telemetryCalls EXCEPT ![c] = Analytics!Free]
      /\ sdk' = [sdk EXCEPT !.recording = TRUE] /\ capture' = TRUE
      /\ desired' = IF c = Boot THEN user ELSE desired
      /\ applied' = IF sdk.made /\ applied # desired' THEN desired' ELSE applied
      /\ UNCHANGED <<stored, enabled, user, queue, latest, asked, outcome, raced>>
  BY DEF Analytics!Record, Analytics!choice, Analytics!switch, Analytics!Desired,
         Analytics!Applied
<1>3. Turn(c, "free")
  BY <1>1, <1>2, StartedCall DEF Turn
<1>4. /\ sdk' \in [made : BOOLEAN, in : BOOLEAN, recording : BOOLEAN]
      /\ sdk'.made = sdk.made /\ sdk'.recording = TRUE
  BY <1>2 DEF AnalyticsInductive, AnalyticsTyped
<1>5. ~raced => Sober' /\ Resting'
  <2> SUFFICES ASSUME ~raced PROVE Sober' /\ Resting'
    OBVIOUS
  <2>1. enabled /\ sdk.made /\ desired' = user
    BY <1>1, <1>2, OnlyOne DEF Midway
  <2>2. applied' = user'
    BY <1>2, <2>1
  <2> QED
    BY <1>2, <1>4, <2>1, <2>2 DEF Sober, Resting
<1>6. Followed'
  BY <1>1, <1>2, <1>3 DEF AnalyticsInductive, Followed, Turn, Callers, Analytics!Callers
<1>7. enabled' \in BOOLEAN /\ capture' \in BOOLEAN
  BY <1>2 DEF AnalyticsInductive, AnalyticsTyped
<1> QED
  BY <1>1, <1>2, <1>3, <1>4, <1>5, <1>6, <1>7, TurnKeeps

LEMMA StopKeeps ==
  ASSUME AnalyticsInductive, NEW c \in Callers, Analytics!Stop(c)
  PROVE  AnalyticsInductive'
<1>1. /\ telemetryCalls[c].stage = "stop" /\ telemetryCalls \in [Callers -> Call]
      /\ c # Boot
  BY DEF Analytics!Stop, AnalyticsInductive, AnalyticsTyped
<1>2. /\ telemetryCalls' = [telemetryCalls EXCEPT ![c].stage = "optOut"]
      /\ sdk' = [sdk EXCEPT !.recording = FALSE]
      /\ UNCHANGED <<stored, enabled, capture, user, desired, applied, queue, latest, asked,
                     outcome, raced>>
      /\ slips' = slips \ {"recording"}
  BY DEF Analytics!Stop, Analytics!choice, Analytics!identity, Analytics!switch
<1>3. Turn(c, "optOut")
  BY <1>1, <1>2 DEF Turn, Call
<1>4. /\ sdk' \in [made : BOOLEAN, in : BOOLEAN, recording : BOOLEAN]
      /\ sdk'.recording = FALSE
  BY <1>2 DEF AnalyticsInductive, AnalyticsTyped
<1>5. ~raced => Sober' /\ Midway(c)'
  BY <1>1, <1>2, <1>3, <1>4, OnlyOne DEF Midway, Sober, Turn
<1>6. Followed'
  BY <1>1, <1>2, <1>3 DEF AnalyticsInductive, Followed, Turn, Callers, Analytics!Callers
<1>7. enabled' \in BOOLEAN /\ capture' \in BOOLEAN
  BY <1>2 DEF AnalyticsInductive, AnalyticsTyped
<1> QED
  BY <1>1, <1>2, <1>3, <1>4, <1>5, <1>6, <1>7, TurnKeeps

LEMMA OptOutKeeps ==
  ASSUME AnalyticsInductive, NEW c \in Callers, Analytics!OptOut(c)
  PROVE  AnalyticsInductive'
<1>1. /\ telemetryCalls[c].stage = "optOut" /\ telemetryCalls \in [Callers -> Call]
      /\ c # Boot
  BY DEF Analytics!OptOut, AnalyticsInductive, AnalyticsTyped
<1>2. /\ telemetryCalls' = [telemetryCalls EXCEPT ![c] = Analytics!Free]
      /\ sdk' = [sdk EXCEPT !.in = FALSE]
      /\ UNCHANGED <<stored, enabled, capture, user, desired, applied, queue, latest, asked,
                     outcome, raced, slips>>
  BY DEF Analytics!OptOut, Analytics!choice, Analytics!identity, Analytics!switch
<1>3. Turn(c, "free")
  BY <1>1, <1>2, StartedCall DEF Turn
<1>4. /\ sdk' \in [made : BOOLEAN, in : BOOLEAN, recording : BOOLEAN]
      /\ sdk'.made = sdk.made /\ sdk'.recording = sdk.recording
  BY <1>2 DEF AnalyticsInductive, AnalyticsTyped
<1>5. ~raced => Sober' /\ Resting'
  BY <1>1, <1>2, <1>4, OnlyOne DEF Midway, Sober, Resting
<1>6. Followed'
  BY <1>1, <1>2, <1>3 DEF AnalyticsInductive, Followed, Turn, Callers, Analytics!Callers
<1>7. enabled' \in BOOLEAN /\ capture' \in BOOLEAN
  BY <1>2 DEF AnalyticsInductive, AnalyticsTyped
<1> QED
  BY <1>1, <1>2, <1>3, <1>4, <1>5, <1>6, <1>7, TurnKeeps

\* The start of the app reads the choice; off, it does without the SDK.
LEMMA ReadKeeps ==
  ASSUME AnalyticsInductive, Analytics!ReadStored \/ Analytics!ReadFails
  PROVE  AnalyticsInductive'
<1>0. Boot \in Callers
  BY DEF Callers, Analytics!Callers
<1>1. /\ telemetryCalls[Boot].stage = "read" /\ telemetryCalls \in [Callers -> Call]
      /\ stored \in BOOLEAN /\ sdk \in [made : BOOLEAN, in : BOOLEAN, recording : BOOLEAN]
  BY DEF Analytics!ReadStored, Analytics!ReadFails, Analytics!Read, AnalyticsInductive,
         AnalyticsTyped
<1>2. UNCHANGED <<stored, user, queue, latest, asked, outcome, raced, slips>>
  BY DEF Analytics!ReadStored, Analytics!ReadFails, Analytics!Read, Analytics!identity,
         Analytics!switch
<1>3. CASE /\ enabled' = TRUE /\ capture' = capture
           /\ sdk' = [sdk EXCEPT !.made = @ \/ TRUE]
           /\ telemetryCalls' = [telemetryCalls EXCEPT
                                   ![Boot] = [@ EXCEPT !.stage = "optIn", !.back = FALSE]]
  <2>1. Turn(Boot, "optIn")
    BY <1>0, <1>1, <1>3 DEF Turn, Call
  <2>2. /\ sdk' \in [made : BOOLEAN, in : BOOLEAN, recording : BOOLEAN]
        /\ sdk'.made = TRUE /\ sdk'.recording = sdk.recording
    BY <1>1, <1>3
  <2>3. ~raced => Sober' /\ Midway(Boot)'
    BY <1>0, <1>1, <1>2, <1>3, <2>1, <2>2, OnlyOne, BootIsNoToggle DEF Midway, Sober, Turn
  <2>4. Followed'
    BY <2>1 DEF Followed, Turn
  <2>5. enabled' \in BOOLEAN /\ capture' \in BOOLEAN
    BY <1>3 DEF AnalyticsInductive, AnalyticsTyped
  <2> QED
    BY <1>0, <1>1, <1>2, <2>1, <2>2, <2>3, <2>4, <2>5, TurnKeeps
<1>4. CASE /\ enabled' = FALSE /\ capture' = FALSE /\ sdk' = sdk /\ desired' = user
           /\ telemetryCalls' = [telemetryCalls EXCEPT ![Boot] = Analytics!Free]
  <2>1. Turn(Boot, "free")
    BY <1>0, <1>1, <1>4, StartedCall DEF Turn
  <2>2. ~raced => Sober' /\ Resting'
    BY <1>0, <1>1, <1>4, OnlyOne DEF Midway, Sober, Resting
  <2>3. Followed'
    BY <1>2, <1>4 DEF Followed
  <2> QED
    BY <1>0, <1>1, <1>2, <1>4, <2>1, <2>2, <2>3, TurnKeeps
<1>5. CASE Analytics!ReadStored /\ stored
  <2>1. capture \in BOOLEAN
    BY DEF AnalyticsInductive, AnalyticsTyped
  <2>2. enabled' = TRUE /\ Analytics!Apply(Boot, TRUE, FALSE, sdk, capture)
    BY <1>1, <1>5 DEF Analytics!ReadStored, Analytics!Read
  <2> QED
    BY <1>1, <1>3, <2>1, <2>2 DEF Analytics!Apply
<1>6. CASE Analytics!ReadFails \/ (Analytics!ReadStored /\ ~stored)
  BY <1>1, <1>4, <1>6 DEF Analytics!ReadStored, Analytics!ReadFails, Analytics!Read
<1> QED
  BY <1>5, <1>6

------------------------------------------------------------------------------
(* Switching, and going back.                                              *)

Sdk == [made : BOOLEAN, in : BOOLEAN, recording : BOOLEAN]

\* The SDK, which is now so, is being switched on, or off, for call c.
SwitchesOn(c, back, now, capturing) ==
  /\ Turn(c, "optIn") /\ telemetryCalls'[c].back = back
  /\ sdk' \in Sdk
  /\ sdk'.made = TRUE /\ sdk'.recording = now.recording
  /\ capture' = capturing
SwitchesOff(c, now) ==
  /\ Turn(c, "stop") \/ (Turn(c, "free") /\ now.made = FALSE)
  /\ sdk' \in Sdk
  /\ sdk'.made = now.made /\ sdk'.recording = now.recording
  /\ capture' = FALSE

LEMMA ApplySwitches ==
  ASSUME AnalyticsTyped, NEW c \in Callers, NEW back \in BOOLEAN,
         NEW now \in Sdk, NEW capturing \in BOOLEAN
  PROVE  /\ Analytics!Apply(c, TRUE, back, now, capturing) => SwitchesOn(c, back, now, capturing)
         /\ Analytics!Apply(c, FALSE, back, now, capturing) => SwitchesOff(c, now)
<1>0. /\ telemetryCalls \in [Callers -> Call]
      /\ now \in Sdk /\ now.made \in BOOLEAN
  BY DEF AnalyticsTyped, Sdk
<1>1. ASSUME Analytics!Apply(c, TRUE, back, now, capturing)
      PROVE  SwitchesOn(c, back, now, capturing)
  <2>1. /\ telemetryCalls' = [telemetryCalls EXCEPT
                                ![c] = [@ EXCEPT !.stage = "optIn", !.back = back]]
        /\ sdk' = [now EXCEPT !.made = TRUE] /\ capture' = capturing
    BY <1>0, <1>1 DEF Analytics!Apply
  <2>2. Turn(c, "optIn") /\ telemetryCalls'[c].back = back
    BY <1>0, <2>1 DEF Turn, Call
  <2> QED
    BY <1>0, <2>1, <2>2 DEF SwitchesOn, Sdk
<1>2. ASSUME Analytics!Apply(c, FALSE, back, now, capturing)
      PROVE  SwitchesOff(c, now)
  <2>1. /\ sdk' = [now EXCEPT !.made = now.made] /\ capture' = FALSE
        /\ telemetryCalls' = [telemetryCalls EXCEPT
             ![c] = IF now.made THEN [@ EXCEPT !.stage = "stop", !.back = back]
                                ELSE Analytics!Free]
    BY <1>0, <1>2 DEF Analytics!Apply
  <2>2. sdk' = now
    BY <1>0, <2>1 DEF Sdk
  <2>3. CASE now.made = TRUE
    <3>1. telemetryCalls' = [telemetryCalls EXCEPT
                               ![c] = [@ EXCEPT !.stage = "stop", !.back = back]]
      BY <2>1, <2>3
    <3>2. Turn(c, "stop")
      BY <1>0, <3>1 DEF Turn, Call
    <3> QED
      BY <1>0, <2>1, <2>2, <3>2 DEF SwitchesOff
  <2>4. CASE now.made = FALSE
    <3>1. telemetryCalls' = [telemetryCalls EXCEPT ![c] = Analytics!Free]
      BY <2>1, <2>4
    <3>2. Turn(c, "free")
      BY <1>0, <3>1, StartedCall DEF Turn
    <3> QED
      BY <1>0, <2>1, <2>2, <2>4, <3>2 DEF SwitchesOff
  <2> QED
    BY <1>0, <2>3, <2>4
<1> QED
  BY <1>1, <1>2

\* What RollBack makes of a failed use of the switch.
RolledBack(t, now, capturing) ==
  \/ /\ latest = t /\ telemetryCalls[t].back = FALSE
     /\ \/ /\ telemetryCalls[t].previous = TRUE /\ enabled' = TRUE
           /\ SwitchesOn(t, TRUE, now, capturing)
        \/ telemetryCalls[t].previous = FALSE /\ enabled' = FALSE /\ SwitchesOff(t, now)
  \/ /\ latest # t \/ telemetryCalls[t].back = TRUE
     /\ Turn(t, "free") /\ sdk' = now /\ capture' = capturing /\ UNCHANGED enabled

LEMMA RollBackEffect ==
  ASSUME AnalyticsTyped, NEW t \in Callers, NEW now \in Sdk, NEW capturing \in BOOLEAN,
         Analytics!RollBack(t, now, capturing)
  PROVE  RolledBack(t, now, capturing)
<1>1. telemetryCalls \in [Callers -> Call] /\ telemetryCalls[t] \in Call
  BY DEF AnalyticsTyped
<1>2. telemetryCalls[t].back \in BOOLEAN /\ telemetryCalls[t].previous \in BOOLEAN
  BY <1>1 DEF Call
<1>3. CASE t = latest /\ telemetryCalls[t].back = FALSE
  <2>1. enabled' = telemetryCalls[t].previous
        /\ Analytics!Apply(t, telemetryCalls[t].previous, TRUE, now, capturing)
    BY <1>3 DEF Analytics!RollBack, Analytics!GoesBack
  <2>2. CASE telemetryCalls[t].previous = TRUE
    <3>1. Analytics!Apply(t, TRUE, TRUE, now, capturing)
      BY <2>1, <2>2
    <3> QED
      BY <1>3, <2>1, <2>2, <3>1, ApplySwitches DEF RolledBack
  <2>3. CASE telemetryCalls[t].previous = FALSE
    <3>1. Analytics!Apply(t, FALSE, TRUE, now, capturing)
      BY <2>1, <2>3
    <3> QED
      BY <1>3, <2>1, <2>3, <3>1, ApplySwitches DEF RolledBack
  <2> QED
    BY <1>2, <2>2, <2>3
<1>4. CASE ~(t = latest /\ telemetryCalls[t].back = FALSE)
  <2>1. /\ telemetryCalls' = [telemetryCalls EXCEPT ![t] = Analytics!Free]
        /\ sdk' = now /\ capture' = capturing /\ UNCHANGED enabled
    BY <1>2, <1>4 DEF Analytics!RollBack, Analytics!GoesBack
  <2>2. Turn(t, "free")
    BY <1>1, <2>1, StartedCall DEF Turn
  <2> QED
    BY <1>2, <1>4, <2>1, <2>2 DEF RolledBack
<1> QED
  BY <1>3, <1>4

\* What rejects has begun to record only if that was its purpose; a name that was refused, or
\* a recording nobody stops, is a slip.
Rejected(t, now, capturing) ==
  /\ now.made = sdk.made
  /\ now.recording => sdk.recording \/ telemetryCalls[t].stage = "record"
  /\ capturing = TRUE => \/ capture
                         \/ telemetryCalls[t].stage = "record" /\ "identity" \in slips'
  /\ now.recording /\ telemetryCalls[t].stage = "stop" /\ telemetryCalls[t].back
       => "recording" \in slips'
  /\ \A s \in slips : s \in slips'
  /\ applied' = applied \/ "identity" \in slips'

\* A roll back leaves the parts of the invariant as they have to be, whatever it undoes.
LEMMA RolledBackStage ==
  ASSUME AnalyticsInductive, NEW t \in Toggles, NEW now \in Sdk, NEW capturing \in BOOLEAN,
         RolledBack(t, now, capturing), Rejected(t, now, capturing),
         telemetryCalls[t].stage \in {"queued", "optIn", "record", "stop", "optOut"},
         UNCHANGED <<user, desired, latest, raced>>
  PROVE  \E stage \in {"free", "optIn", "stop"} :
           /\ Turn(t, stage)
           /\ sdk' \in Sdk
           /\ enabled' \in BOOLEAN /\ capture' \in BOOLEAN /\ Followed'
           /\ ~raced => Sober' /\ IF stage = "free" THEN Resting' ELSE Midway(t)'
<1>0. t \in Callers /\ t # Boot /\ Boot \in Callers /\ telemetryCalls[t] \in Call
  BY BootIsNoToggle DEF AnalyticsInductive, AnalyticsTyped, Callers, Analytics!Callers
<1>1. /\ enabled \in BOOLEAN /\ capture \in BOOLEAN /\ now.recording \in BOOLEAN
      /\ now.made \in BOOLEAN
      /\ telemetryCalls[t].back \in BOOLEAN /\ telemetryCalls[t].previous \in BOOLEAN
  BY <1>0 DEF AnalyticsInductive, AnalyticsTyped, Call, Sdk
<1>2. ASSUME NEW stage, Turn(t, stage) PROVE Followed'
  BY <1>0, <1>2 DEF AnalyticsInductive, Followed, Turn
<1>3. ~raced => Midway(t) /\ Sober
  BY <1>0, OnlyOne
<1>4. CASE /\ telemetryCalls[t].back = FALSE /\ telemetryCalls[t].previous = TRUE
           /\ enabled' = TRUE /\ SwitchesOn(t, TRUE, now, capturing)
  <2>1. Turn(t, "optIn") /\ capture' \in BOOLEAN
    BY <1>1, <1>4 DEF SwitchesOn
  <2>2. ~raced => capturing = FALSE
    BY <1>0, <1>1, <1>3, <1>4 DEF Midway, Rejected
  <2>3. ~raced => Sober' /\ Midway(t)'
    BY <1>0, <1>3, <1>4, <2>1, <2>2 DEF SwitchesOn, Midway, Sober, Turn
  <2>4. Followed'
    BY <1>2, <2>1
  <2>5. sdk' \in Sdk
    BY <1>4 DEF SwitchesOn
  <2> QED
    BY <1>4, <2>1, <2>3, <2>4, <2>5
<1>5. CASE enabled' = FALSE /\ SwitchesOff(t, now)
  <2>1. /\ capture' = FALSE /\ sdk'.made = sdk.made /\ sdk'.recording = now.recording
        /\ sdk' \in Sdk
    BY <1>5 DEF SwitchesOff, Rejected
  <2>2. ~raced => Sober'
    BY <1>0, <1>1, <1>3, <2>1 DEF Midway, Sober, Rejected
  <2>3. CASE Turn(t, "stop")
    <3>1. ~raced => Midway(t)'
      BY <1>0, <1>3, <1>5, <2>1, <2>3 DEF Midway, Turn
    <3>2. Followed'
      BY <1>2, <2>3
    <3> QED
      BY <1>5, <2>1, <2>2, <2>3, <3>1, <3>2
  <2>4. CASE Turn(t, "free") /\ now.made = FALSE
    <3>1. ~raced => Resting'
      BY <1>5, <2>1, <2>2, <2>4 DEF Resting, Sober, Rejected
    <3>2. Followed'
      BY <1>2, <2>4
    <3> QED
      BY <1>5, <2>1, <2>2, <2>4, <3>1, <3>2
  <2> QED
    BY <1>5, <2>3, <2>4 DEF SwitchesOff
<1>6. CASE /\ latest # t \/ telemetryCalls[t].back = TRUE
           /\ Turn(t, "free") /\ sdk' = now /\ capture' = capturing /\ UNCHANGED enabled
  <2>1. ~raced => telemetryCalls[t].back = TRUE /\ telemetryCalls[t].stage # "queued"
    BY <1>0, <1>3, <1>6 DEF Midway
  <2>2. ~raced => Sober'
    BY <1>0, <1>1, <1>3, <1>6 DEF Midway, Sober, Rejected
  <2>3. ~raced => Resting'
    BY <1>0, <1>1, <1>3, <1>6, <2>1 DEF Midway, Resting, Rejected
  <2>4. Followed'
    BY <1>2, <1>6
  <2> QED
    BY <1>1, <1>6, <2>2, <2>3, <2>4
<1> QED
  BY <1>4, <1>5, <1>6 DEF RolledBack

\* What a failed call leaves of the SDK.
LEMMA FailedSdk ==
  ASSUME AnalyticsTyped, NEW c \in Callers, NEW now \in Analytics!Failed(c),
         telemetryCalls[c].stage \in {"optIn", "record", "stop", "optOut"}
  PROVE  /\ now \in Sdk /\ now.made = sdk.made
         /\ now.recording => sdk.recording \/ telemetryCalls[c].stage = "record"
<1>1. sdk \in Sdk
  BY DEF AnalyticsTyped, Sdk
<1>2. \/ now = sdk
      \/ now = [sdk EXCEPT !.in = TRUE] \/ now = [sdk EXCEPT !.in = FALSE]
      \/ now = [sdk EXCEPT !.recording = FALSE]
      \/ now = [sdk EXCEPT !.recording = TRUE] /\ telemetryCalls[c].stage = "record"
  BY DEF Analytics!Failed
<1> QED
  BY <1>1, <1>2 DEF Sdk

LEMMA BootFailsKeeps ==
  ASSUME AnalyticsInductive, Analytics!BootFails
  PROVE  AnalyticsInductive'
<1>0. Boot \in Callers
  BY DEF Callers, Analytics!Callers
<1>1. /\ telemetryCalls[Boot].stage \in {"optIn", "record"}
      /\ telemetryCalls \in [Callers -> Call]
  BY DEF Analytics!BootFails, AnalyticsInductive, AnalyticsTyped
<1>2. /\ telemetryCalls' = [telemetryCalls EXCEPT ![Boot] = Analytics!Free]
      /\ capture' = FALSE /\ desired' = user
      /\ UNCHANGED <<stored, enabled, user, queue, latest, asked, outcome, raced>>
  BY DEF Analytics!BootFails, Analytics!choice, Analytics!switch
<1>3. Turn(Boot, "free")
  BY <1>0, <1>1, <1>2, StartedCall DEF Turn
<1>4. PICK now \in Analytics!Failed(Boot) :
        /\ sdk' = [now EXCEPT !.made = FALSE]
        /\ slips' = slips \cup {s \in {"recording"} : now.recording}
  BY DEF Analytics!BootFails
<1>5. now \in Sdk
  BY <1>0, <1>1, FailedSdk DEF AnalyticsInductive
<1>6. /\ sdk' \in [made : BOOLEAN, in : BOOLEAN, recording : BOOLEAN]
      /\ sdk'.recording => "recording" \in slips'
  BY <1>4, <1>5 DEF Sdk
<1>7. ~raced => Sober' /\ Resting'
  BY <1>0, <1>1, <1>2, <1>6, OnlyOne DEF Midway, Sober, Resting
<1>8. Followed'
  BY <1>2 DEF Followed
<1>9. enabled' \in BOOLEAN
  BY <1>2 DEF AnalyticsInductive, AnalyticsTyped
<1> QED
  BY <1>0, <1>1, <1>2, <1>3, <1>6, <1>7, <1>8, <1>9, TurnKeeps

LEMMA SwitchFailsKeeps ==
  ASSUME AnalyticsInductive, NEW t \in Toggles, Analytics!SwitchFails(t)
  PROVE  AnalyticsInductive'
<1>0. t \in Callers /\ t # Boot
  BY BootIsNoToggle DEF Callers, Analytics!Callers
<1>1. PICK now \in Analytics!Failed(t) :
        /\ Analytics!RollBack(t, now, capture)
        /\ slips' = slips \cup {s \in {"recording"} :
             telemetryCalls[t].stage = "stop" /\ now.recording /\ ~Analytics!GoesBack(t)}
  BY DEF Analytics!SwitchFails
<1>2. /\ telemetryCalls[t].stage \in {"optIn", "record", "stop", "optOut"}
      /\ UNCHANGED <<stored, user, desired, applied, queue, latest, asked, outcome, raced>>
  BY DEF Analytics!SwitchFails, Analytics!identity, Analytics!switch
<1>3. /\ now \in Sdk /\ now.made = sdk.made
      /\ now.recording => sdk.recording \/ telemetryCalls[t].stage = "record"
  BY <1>0, <1>2, FailedSdk DEF AnalyticsInductive
<1>4. RolledBack(t, now, capture)
  BY <1>0, <1>1, <1>3, RollBackEffect DEF AnalyticsInductive, AnalyticsTyped
<1>5. Rejected(t, now, capture)
  BY <1>1, <1>2, <1>3 DEF Rejected, Analytics!GoesBack
<1>6. capture \in BOOLEAN
  BY DEF AnalyticsInductive, AnalyticsTyped
<1>7. PICK stage \in {"free", "optIn", "stop"} :
        /\ Turn(t, stage)
        /\ sdk' \in Sdk
        /\ enabled' \in BOOLEAN /\ capture' \in BOOLEAN /\ Followed'
        /\ ~raced => Sober' /\ IF stage = "free" THEN Resting' ELSE Midway(t)'
  BY <1>2, <1>3, <1>4, <1>5, <1>6, RolledBackStage
<1> QED
  BY <1>0, <1>2, <1>7, TurnKeeps DEF Sdk

\* The start of the app has no roll back: the error ends it.
LEMMA IdentityFailsKeeps ==
  ASSUME AnalyticsInductive, NEW c \in Callers, Analytics!IdentityFails(c)
  PROVE  AnalyticsInductive'
<1> DEFINE now == [sdk EXCEPT !.recording = TRUE]
<1>1. /\ telemetryCalls[c].stage = "record" /\ telemetryCalls[c] \in Call
      /\ Analytics!RollBack(c, now, TRUE)
      /\ desired' = IF c = Boot THEN user ELSE desired
      /\ "identity" \in slips' /\ \A s \in slips : s \in slips'
      /\ UNCHANGED <<stored, user, queue, latest, asked, outcome, raced>>
  BY DEF Analytics!IdentityFails, Analytics!switch, Analytics!Desired, AnalyticsInductive,
         AnalyticsTyped
<1>2. now \in Sdk /\ now.made = sdk.made /\ now.recording = TRUE
  BY DEF AnalyticsInductive, AnalyticsTyped, Sdk
<1> HIDE DEF now
<1>3. RolledBack(c, now, TRUE)
  BY <1>1, <1>2, RollBackEffect DEF AnalyticsInductive
<1>4. CASE c \in Toggles
  <2>1. c # Boot
    BY <1>4, BootIsNoToggle
  <2>2. Rejected(c, now, TRUE)
    BY <1>1, <1>2 DEF Rejected
  <2>3. PICK stage \in {"free", "optIn", "stop"} :
          /\ Turn(c, stage)
          /\ sdk' \in Sdk
          /\ enabled' \in BOOLEAN /\ capture' \in BOOLEAN /\ Followed'
          /\ ~raced => Sober' /\ IF stage = "free" THEN Resting' ELSE Midway(c)'
    BY <1>1, <1>2, <1>3, <1>4, <2>1, <2>2, RolledBackStage
  <2> QED
    BY <1>1, <2>1, <2>3, TurnKeeps DEF Sdk
<1>5. CASE c = Boot
  <2>1. latest # Boot
    BY DEF AnalyticsInductive, Queued
  <2>2. Turn(Boot, "free") /\ sdk' = now /\ capture' = TRUE /\ enabled' = enabled
    BY <1>3, <1>5, <2>1 DEF RolledBack
  <2>3. ~raced => Sober' /\ Resting'
    BY <1>1, <1>2, <1>5, <2>2, OnlyOne DEF Midway, Sober, Resting
  <2>4. Followed'
    BY <1>1, <1>5 DEF Followed
  <2>5. enabled' \in BOOLEAN
    BY <2>2 DEF AnalyticsInductive, AnalyticsTyped
  <2> QED
    BY <1>1, <1>2, <1>5, <2>2, <2>3, <2>4, <2>5, TurnKeeps DEF Sdk
<1> QED
  BY <1>4, <1>5 DEF Callers, Analytics!Callers

------------------------------------------------------------------------------
(* The writes.                                                             *)

LEMMA DequeuedTail ==
  ASSUME Queued, Len(queue) > 0
  PROVE  /\ Analytics!Dequeued(queue[1]) \in Seq(Toggles)
         /\ Len(Analytics!Dequeued(queue[1])) = Len(queue) - 1
         /\ \A i \in 1..(Len(queue) - 1) : Analytics!Dequeued(queue[1])[i] = queue[i + 1]
<1>1. Len(queue) \in Nat /\ DOMAIN queue = 1..Len(queue)
  BY DEF Queued
<1>2. Analytics!Place(queue[1]) = 1
  <2>1. 1 \in DOMAIN queue
    BY <1>1
  <2>2. \A i \in DOMAIN queue : queue[i] = queue[1] => i = 1
    BY <1>1, <2>1 DEF Queued
  <2> QED
    BY <2>1, <2>2 DEF Analytics!Place
<1>3. Analytics!Dequeued(queue[1]) = [i \in 1..(Len(queue) - 1) |-> queue[i + 1]]
  BY <1>1, <1>2 DEF Analytics!Dequeued
<1>4. \A i \in 1..(Len(queue) - 1) : queue[i + 1] \in Toggles
  BY <1>1 DEF Queued
<1>5. Len(queue) - 1 \in Nat
  BY <1>1
<1> QED
  BY <1>3, <1>4, <1>5

\* The first of the queue leaves it; the latest use of the switch is the last to do so.
LEMMA TurnDequeued ==
  ASSUME Queued, NEW t \in Toggles, NEW stage, Turn(t, stage), stage # "queued",
         Len(queue) > 0, queue[1] = t, queue' = Analytics!Dequeued(t),
         latest' = latest, asked' = asked,
         IF t = latest THEN /\ outcome' \in {"stored", "failed"}
                            /\ outcome' = "stored" => stored' = asked
                       ELSE outcome' = outcome
  PROVE  Queued'
<1>1. /\ Len(queue) \in Nat /\ outcome = "pending" /\ queue[Len(queue)] = latest
      /\ telemetryCalls[latest].want = asked
  BY DEF Queued
<1>2. /\ queue' \in Seq(Toggles) /\ Len(queue') = Len(queue) - 1
      /\ \A i \in 1..Len(queue') : i + 1 \in 1..Len(queue) /\ queue'[i] = queue[i + 1]
  BY <1>1, DequeuedTail
<1>3. t \in Callers /\ Toggles \subseteq Callers
  BY DEF Callers, Analytics!Callers
<1>4. \A i, j \in 1..Len(queue') : queue'[i] = queue'[j] => i = j
  BY <1>1, <1>2 DEF Queued
<1>5. \A i \in 1..Len(queue) : i # 1 => queue[i] \in Toggles \ {t}
  BY <1>1 DEF Queued
<1>6. \A i \in 1..Len(queue') : telemetryCalls'[queue'[i]].stage = "queued"
  <2> SUFFICES ASSUME NEW i \in 1..Len(queue')
               PROVE  telemetryCalls'[queue'[i]].stage = "queued"
    OBVIOUS
  <2>1. i + 1 \in 1..Len(queue) /\ i + 1 # 1
    BY <1>1, <1>2
  <2>2. queue'[i] \in Callers \ {t} /\ telemetryCalls[queue'[i]].stage = "queued"
    BY <1>2, <1>3, <1>5, <2>1 DEF Queued
  <2> QED
    BY <2>2 DEF Turn
<1>7. ASSUME NEW s \in Toggles, telemetryCalls'[s].stage = "queued"
      PROVE  \E i \in 1..Len(queue') : queue'[i] = s
  <2>1. s # t /\ telemetryCalls[s].stage = "queued"
    BY <1>3, <1>7 DEF Turn
  <2>2. PICK i \in 1..Len(queue) : queue[i] = s
    BY <2>1 DEF Queued
  <2>3. i # 1 /\ i - 1 \in 1..Len(queue')
    BY <1>1, <1>2, <2>1, <2>2
  <2>4. queue'[i - 1] = s
    BY <1>1, <1>2, <2>2, <2>3
  <2> QED
    BY <2>3, <2>4
<1>8. CASE t = latest
  <2>1. Len(queue) = 1
    <3>1. 1 \in 1..Len(queue) /\ Len(queue) \in 1..Len(queue)
      BY <1>1
    <3>2. queue[Len(queue)] = queue[1]
      BY <1>1, <1>8
    <3> QED
      BY <3>1, <3>2 DEF Queued
  <2> QED
    BY <1>2, <1>4, <1>6, <1>7, <1>8, <2>1 DEF Queued
<1>9. CASE t # latest
  <2>1. Len(queue) > 1
    BY <1>1, <1>9
  <2>2. Len(queue') > 0 /\ queue'[Len(queue')] = latest
    BY <1>1, <1>2, <2>1
  <2>3. latest \in Callers
    BY <1>1, <1>3 DEF Queued
  <2>4. telemetryCalls'[latest].want = asked
    BY <1>1, <1>9, <2>3 DEF Turn
  <2>5. outcome' = "pending"
    BY <1>1, <1>9
  <2> QED
    BY <1>2, <1>4, <1>6, <1>7, <2>2, <2>4, <2>5 DEF Queued
<1> QED
  BY <1>8, <1>9

LEMMA WriteKeeps ==
  ASSUME AnalyticsInductive, NEW t \in Toggles, Analytics!Write(t)
  PROVE  AnalyticsInductive'
<1>0. t \in Callers /\ t # Boot /\ Boot \in Callers /\ telemetryCalls[t] \in Call
  BY BootIsNoToggle DEF AnalyticsInductive, AnalyticsTyped, Callers, Analytics!Callers
<1>1. /\ telemetryCalls[t].stage = "queued" /\ telemetryCalls[t].want \in BOOLEAN
      /\ telemetryCalls \in [Callers -> Call]
      /\ sdk \in [made : BOOLEAN, in : BOOLEAN, recording : BOOLEAN]
      /\ enabled \in BOOLEAN /\ capture \in BOOLEAN
  BY <1>0 DEF Analytics!Write, Analytics!Writes, AnalyticsInductive, AnalyticsTyped, Call
<1>2. Len(queue) > 0 /\ queue[1] = t
  BY <1>1 DEF Analytics!Write, Analytics!Writes, AnalyticsInductive, Queued
<1>3. /\ stored' = telemetryCalls[t].want /\ queue' = Analytics!Dequeued(t)
      /\ UNCHANGED <<enabled, user, desired, applied, latest, asked, raced, slips>>
      /\ IF t = latest
         THEN Analytics!Apply(t, telemetryCalls[t].want, FALSE, sdk, capture) /\ outcome' = "stored"
         ELSE /\ telemetryCalls' = [telemetryCalls EXCEPT ![t] = Analytics!Free]
              /\ UNCHANGED <<sdk, capture, outcome>>
  BY DEF Analytics!Write, Analytics!identity
<1>4. ~raced => Midway(t) /\ Sober
  BY <1>0, <1>1, OnlyOne
<1>5. t = latest => telemetryCalls[t].want = asked
  BY <1>2 DEF AnalyticsInductive, Queued
<1>6. PICK stage \in {"free", "optIn", "stop"} :
        /\ Turn(t, stage)
        /\ sdk' \in [made : BOOLEAN, in : BOOLEAN, recording : BOOLEAN]
        /\ capture' \in BOOLEAN
        /\ ~raced => Sober' /\ IF stage = "free" THEN Resting' ELSE Midway(t)'
  <2>1. CASE t = latest /\ telemetryCalls[t].want = TRUE
    <3>1. Analytics!Apply(t, TRUE, FALSE, sdk, capture)
      BY <1>3, <2>1
    <3>2. SwitchesOn(t, FALSE, sdk, capture)
      BY <1>0, <1>1, <3>1, ApplySwitches DEF AnalyticsInductive, Sdk
    <3>3. ~raced => Sober' /\ Midway(t)'
      BY <1>0, <1>1, <1>3, <1>4, <2>1, <3>2 DEF SwitchesOn, Midway, Sober, Turn
    <3> QED
      BY <1>1, <3>2, <3>3 DEF SwitchesOn, Sdk
  <2>2. CASE t = latest /\ telemetryCalls[t].want = FALSE
    <3>1. Analytics!Apply(t, FALSE, FALSE, sdk, capture)
      BY <1>3, <2>2
    <3>2. SwitchesOff(t, sdk)
      BY <1>0, <1>1, <3>1, ApplySwitches DEF AnalyticsInductive, Sdk
    <3>3. CASE Turn(t, "stop")
      <4>1. ~raced => Sober' /\ Midway(t)'
        BY <1>0, <1>1, <1>3, <1>4, <2>2, <3>2, <3>3 DEF SwitchesOff, Midway, Sober, Turn
      <4> QED
        BY <3>2, <3>3, <4>1 DEF SwitchesOff, Sdk
    <3>4. CASE Turn(t, "free") /\ sdk.made = FALSE
      <4>1. ~raced => Sober' /\ Resting'
        BY <1>1, <1>3, <1>4, <3>2, <3>4 DEF SwitchesOff, Resting, Sober
      <4> QED
        BY <3>2, <3>4, <4>1 DEF SwitchesOff, Sdk
    <3> QED
      BY <3>2, <3>3, <3>4 DEF SwitchesOff
  <2>3. CASE t # latest
    <3>1. Turn(t, "free")
      BY <1>0, <1>1, <1>3, <2>3, StartedCall DEF Turn
    <3>2. raced
      BY <1>0, <1>4, <2>3 DEF Midway
    <3> QED
      BY <1>1, <1>3, <2>3, <3>1, <3>2
  <2> QED
    BY <1>1, <2>1, <2>2, <2>3
<1>7. AnalyticsTyped'
  BY <1>0, <1>1, <1>3, <1>6, TurnTyped DEF AnalyticsInductive
<1>8. Queued'
  BY <1>2, <1>3, <1>5, <1>6, TurnDequeued DEF AnalyticsInductive
<1>9. Undisturbed'
  BY <1>0, <1>1, <1>3, <1>6, TurnUndisturbed DEF AnalyticsInductive
<1>10. Followed'
  BY <1>0, <1>3, <1>6 DEF AnalyticsInductive, Followed, Turn
<1> QED
  BY <1>7, <1>8, <1>9, <1>10 DEF AnalyticsInductive

LEMMA WriteFailsKeeps ==
  ASSUME AnalyticsInductive, NEW t \in Toggles, Analytics!WriteFails(t)
  PROVE  AnalyticsInductive'
<1>0. t \in Callers /\ t # Boot
  BY BootIsNoToggle DEF Callers, Analytics!Callers
<1>1. /\ telemetryCalls[t].stage = "queued" /\ Analytics!RollBack(t, sdk, capture)
      /\ queue' = Analytics!Dequeued(t)
      /\ outcome' = (IF t = latest THEN "failed" ELSE outcome)
      /\ UNCHANGED <<stored, user, desired, applied, latest, asked, raced, slips>>
  BY DEF Analytics!WriteFails, Analytics!Writes, Analytics!identity
<1>2. Len(queue) > 0 /\ queue[1] = t
  BY <1>1 DEF Analytics!WriteFails, Analytics!Writes, AnalyticsInductive, Queued
<1>3. RolledBack(t, sdk, capture) /\ Rejected(t, sdk, capture)
  <2>1. sdk \in Sdk /\ capture \in BOOLEAN
    BY DEF AnalyticsInductive, AnalyticsTyped, Sdk
  <2>2. RolledBack(t, sdk, capture)
    BY <1>0, <1>1, <2>1, RollBackEffect DEF AnalyticsInductive
  <2>3. Rejected(t, sdk, capture)
    BY <1>1, <2>1 DEF Rejected
  <2> QED
    BY <2>2, <2>3
<1>4. PICK stage \in {"free", "optIn", "stop"} :
        /\ Turn(t, stage)
        /\ sdk' \in [made : BOOLEAN, in : BOOLEAN, recording : BOOLEAN]
        /\ enabled' \in BOOLEAN /\ capture' \in BOOLEAN /\ Followed'
        /\ ~raced => Sober' /\ IF stage = "free" THEN Resting' ELSE Midway(t)'
  BY <1>1, <1>3, RolledBackStage DEF AnalyticsInductive, AnalyticsTyped, Sdk
<1>5. AnalyticsTyped'
  BY <1>0, <1>1, <1>4, TurnTyped DEF AnalyticsInductive, AnalyticsTyped
<1>6. Queued'
  BY <1>1, <1>2, <1>4, TurnDequeued DEF AnalyticsInductive
<1>7. Undisturbed'
  BY <1>0, <1>1, <1>4, TurnUndisturbed DEF AnalyticsInductive
<1> QED
  BY <1>4, <1>5, <1>6, <1>7 DEF AnalyticsInductive

LEMMA ToggleKeeps ==
  ASSUME AnalyticsInductive, NEW t \in Toggles, Analytics!Toggle(t)
  PROVE  AnalyticsInductive'
<1> DEFINE call == [stage |-> "queued", want |-> ~enabled, previous |-> enabled, back |-> FALSE]
<1>0. t \in Callers /\ t # Boot /\ Boot \in Callers /\ Toggles \subseteq Callers
  BY BootIsNoToggle DEF Callers, Analytics!Callers
<1>1. /\ telemetryCalls[t] = Analytics!Free /\ telemetryCalls \in [Callers -> Call]
      /\ enabled \in BOOLEAN /\ raced \in BOOLEAN
      /\ queue \in Seq(Toggles)
  BY DEF Analytics!Toggle, AnalyticsInductive, AnalyticsTyped, Queued
<1>2. /\ enabled' = ~enabled /\ capture' = ~enabled
      /\ telemetryCalls' = [telemetryCalls EXCEPT ![t] = call]
      /\ queue' = Append(queue, t) /\ latest' = t /\ asked' = ~enabled
      /\ outcome' = "pending" /\ raced' = (raced \/ Analytics!Under # {})
      /\ UNCHANGED <<stored, sdk, user, desired, applied, slips>>
  BY DEF Analytics!Toggle, Analytics!identity
<1>3. /\ call \in Call /\ call.stage = "queued" /\ call.want = ~enabled
      /\ call.previous = enabled /\ call.back = FALSE
  BY <1>1 DEF Call
<1> HIDE DEF call
<1>4. /\ telemetryCalls' \in [Callers -> Call] /\ telemetryCalls'[t] = call
      /\ \A d \in Callers \ {t} : telemetryCalls'[d] = telemetryCalls[d]
  BY <1>0, <1>1, <1>2, <1>3
<1>5. AnalyticsTyped'
  <2>1. \A c \in Callers : telemetryCalls'[c].stage = "free" => telemetryCalls'[c] = Analytics!Free
    BY <1>3, <1>4 DEF AnalyticsInductive, AnalyticsTyped
  <2>2. /\ telemetryCalls'[Boot].stage \in {"free", "read", "optIn", "record"}
        /\ \A s \in Toggles : telemetryCalls'[s].stage # "read"
    BY <1>0, <1>3, <1>4 DEF AnalyticsInductive, AnalyticsTyped
  <2> QED
    BY <1>1, <1>2, <1>4, <2>1, <2>2
       DEF AnalyticsInductive, AnalyticsTyped, Callers, Analytics!Callers
<1>6. Queued'
  <2>1. \A i \in 1..Len(queue) : queue[i] \in Callers \ {t}
    BY <1>0, <1>1, StartedCall DEF AnalyticsInductive, Queued
  <2>2. /\ queue' \in Seq(Toggles) /\ Len(queue') = Len(queue) + 1 /\ Len(queue) \in Nat
        /\ queue'[Len(queue')] = t /\ \A i \in 1..Len(queue) : queue'[i] = queue[i]
    BY <1>1, <1>2
  <2>3. \A i, j \in 1..Len(queue') : queue'[i] = queue'[j] => i = j
    <3>1. \A i \in 1..Len(queue') :
            \/ i = Len(queue') /\ queue'[i] = t
            \/ i \in 1..Len(queue) /\ queue'[i] = queue[i]
      BY <2>2
    <3>2. \A i, j \in 1..Len(queue) : queue[i] = queue[j] => i = j
      BY DEF AnalyticsInductive, Queued
    <3> QED
      BY <2>1, <3>1, <3>2
  <2>4. \A i \in 1..Len(queue') : telemetryCalls'[queue'[i]].stage = "queued"
    BY <1>3, <1>4, <2>1, <2>2 DEF AnalyticsInductive, Queued
  <2>5. ASSUME NEW s \in Toggles, telemetryCalls'[s].stage = "queued"
        PROVE  \E i \in 1..Len(queue') : queue'[i] = s
    <3>1. CASE s = t
      BY <2>2, <3>1
    <3>2. CASE s # t
      <4>1. telemetryCalls[s].stage = "queued"
        BY <1>0, <1>4, <2>5, <3>2
      <4>2. PICK i \in 1..Len(queue) : queue[i] = s
        BY <4>1 DEF AnalyticsInductive, Queued
      <4> QED
        BY <2>2, <4>2
    <3> QED
      BY <3>1, <3>2
  <2>6. Len(queue') > 0 /\ queue'[Len(queue')] = latest' /\ telemetryCalls'[latest'].want = asked'
    BY <1>2, <1>3, <1>4, <2>2
  <2> QED
    BY <1>0, <1>2, <2>2, <2>3, <2>4, <2>5, <2>6 DEF Queued
<1>7. Undisturbed'
  <2> SUFFICES ASSUME ~raced' PROVE Undisturbed'
    BY DEF Undisturbed
  <2>1. Under = {} /\ ~raced
    BY <1>1, <1>2 DEF Under, Callers, Analytics!Under
  <2>2. Under' = {t}
    BY <1>0, <1>3, <1>4, <2>1 DEF Under, Callers, Analytics!Callers
  <2>3. Midway(t)'
    BY <1>0, <1>1, <1>2, <1>3, <1>4 DEF Midway
  <2>4. \A d \in Under' : Midway(d)'
    <3> SUFFICES ASSUME NEW d \in Under' PROVE Midway(d)'
      OBVIOUS
    <3>1. d = t
      BY <2>2
    <3> QED
      BY <2>3, <3>1
  <2>5. Sober'
    BY <1>2, <2>1 DEF AnalyticsInductive, Undisturbed, Sober
  <2>6. Alone'
    BY <2>2 DEF Alone
  <2> QED
    BY <2>2, <2>4, <2>5, <2>6 DEF Undisturbed
<1>8. Followed'
  BY <1>0, <1>2, <1>4 DEF AnalyticsInductive, Followed
<1> QED
  BY <1>5, <1>6, <1>7, <1>8 DEF AnalyticsInductive

------------------------------------------------------------------------------
(* The rest of the app.                                                    *)

\* A name that the SDK refuses is a slip; so whoever is signed in has been taken over, or not.
SyncedTo(u) ==
  /\ user' = u
  /\ sdk' \in Sdk /\ sdk'.made = sdk.made /\ sdk'.recording = sdk.recording
  /\ ("recording" \in slips) = ("recording" \in slips')
  /\ telemetryCalls[Boot].stage = "free"
       => /\ desired' = u
          /\ capture /\ sdk.made /\ "identity" \notin slips' => applied' = u

LEMMA SyncEffect ==
  ASSUME AnalyticsInductive, NEW u, Analytics!SyncUserIdentity(u) \/ Analytics!SyncFails(u)
  PROVE  SyncedTo(u)
<1>1. sdk \in Sdk /\ capture \in BOOLEAN
  BY DEF AnalyticsInductive, AnalyticsTyped, Sdk
<1>2. telemetryCalls[Boot].stage = "free" => Analytics!Ready
  BY DEF AnalyticsInductive, AnalyticsTyped, Analytics!Ready, Callers, Analytics!Callers
<1>3. CASE Analytics!SyncUserIdentity(u)
  <2>1. user' = u
    BY <1>3 DEF Analytics!SyncUserIdentity
  <2>2. CASE Analytics!Ready
    <3>1. /\ desired' = u
          /\ applied' = IF sdk.made /\ applied # u THEN (IF capture THEN u ELSE None) ELSE applied
          /\ slips' = IF sdk.made THEN slips \ {"identity"} ELSE slips
      BY <1>3, <2>2 DEF Analytics!SyncUserIdentity, Analytics!Applied
    <3>2. sdk' = [sdk EXCEPT !.in = @ /\ ~(sdk.made /\ ~capture /\ applied \notin {None, u})]
      BY <1>3, <2>2 DEF Analytics!SyncUserIdentity
    <3>3. sdk' \in Sdk /\ sdk'.made = sdk.made /\ sdk'.recording = sdk.recording
      BY <1>1, <3>2 DEF Sdk
    <3>4. capture /\ sdk.made => applied' = u
      BY <3>1
    <3>5. ("recording" \in slips) = ("recording" \in slips')
      BY <3>1
    <3> QED
      BY <2>1, <3>1, <3>3, <3>4, <3>5 DEF SyncedTo
  <2>3. CASE ~Analytics!Ready
    <3>1. UNCHANGED <<desired, applied, sdk, slips>>
      BY <1>3, <2>3 DEF Analytics!SyncUserIdentity
    <3> QED
      BY <1>1, <1>2, <2>1, <2>3, <3>1 DEF SyncedTo
  <2> QED
    BY <2>2, <2>3
<1>4. CASE Analytics!SyncFails(u)
  <2>1. user' = u /\ desired' = u /\ slips' = slips \cup {"identity"} /\ UNCHANGED sdk
    BY <1>4 DEF Analytics!SyncFails
  <2> QED
    BY <1>1, <2>1 DEF SyncedTo
<1> QED
  BY <1>3, <1>4

LEMMA SyncKeeps ==
  ASSUME AnalyticsInductive, NEW u, SyncedTo(u),
         UNCHANGED <<stored, enabled, capture, telemetryCalls, queue, latest, asked, outcome, raced>>
  PROVE  AnalyticsInductive'
<1>1. Under' = Under
  BY DEF Under, Callers, Analytics!Callers
<1>2. AnalyticsTyped' /\ Queued' /\ Sober = Sober'
  BY DEF SyncedTo, AnalyticsInductive, AnalyticsTyped, Queued, Sober, Callers, Analytics!Callers,
         Call, Sdk
<1>3. \A c \in Under : Midway(c) => Midway(c)'
  BY DEF SyncedTo, Midway
<1>4. Followed'
  BY DEF SyncedTo, Followed
<1>5. ~raced /\ Under = {} => Resting'
  <2> SUFFICES ASSUME ~raced, Under = {} PROVE Resting'
    OBVIOUS
  <2>1. telemetryCalls[Boot].stage = "free"
    BY DEF Under, Callers, Analytics!Callers
  <2> QED
    BY <2>1 DEF SyncedTo, AnalyticsInductive, Undisturbed, Resting
<1>6. Undisturbed'
  BY <1>1, <1>2, <1>3, <1>5 DEF AnalyticsInductive, Undisturbed, Alone
<1> QED
  BY <1>2, <1>4, <1>6 DEF AnalyticsInductive

LEMMA AnalyticsNextKeeps ==
  ASSUME AnalyticsInductive, Analytics!Next
  PROVE  AnalyticsInductive'
<1>1. ASSUME NEW c \in Callers,
             \/ Analytics!OptIn(c) \/ Analytics!Record(c) \/ Analytics!IdentityFails(c)
             \/ Analytics!Stop(c) \/ Analytics!OptOut(c)
      PROVE  AnalyticsInductive'
  BY <1>1, OptInKeeps, RecordKeeps, IdentityFailsKeeps, StopKeeps, OptOutKeeps
<1>2. CASE Analytics!ReadStored \/ Analytics!ReadFails \/ Analytics!BootFails
  BY <1>2, ReadKeeps, BootFailsKeeps
<1>3. ASSUME NEW t \in Toggles,
             \/ Analytics!Toggle(t) \/ Analytics!Write(t)
             \/ Analytics!WriteFails(t) \/ Analytics!SwitchFails(t)
      PROVE  AnalyticsInductive'
  BY <1>3, ToggleKeeps, WriteKeeps, WriteFailsKeeps, SwitchFailsKeeps
<1>4. CASE Analytics!SignIn \/ Analytics!SignOut
  <2>1. PICK u \in Users \cup {None} : Analytics!Changes(u)
    BY <1>4 DEF Analytics!SignIn, Analytics!SignOut
  <2>2. SyncedTo(u)
    BY <2>1, SyncEffect DEF Analytics!Changes
  <2>3. UNCHANGED <<stored, enabled, capture, telemetryCalls, queue, latest, asked, outcome, raced>>
    BY <2>1 DEF Analytics!Changes, Analytics!choice, Analytics!switch
  <2> QED
    BY <2>2, <2>3, SyncKeeps
<1>5. CASE Analytics!Kill
  <2>1. /\ sdk' = [sdk EXCEPT !.made = FALSE, !.recording = FALSE]
        /\ sdk \in [made : BOOLEAN, in : BOOLEAN, recording : BOOLEAN]
        /\ stored' \in BOOLEAN
    BY <1>5 DEF Analytics!Kill, AnalyticsInductive, AnalyticsTyped
  <2>2. /\ sdk' \in [made : BOOLEAN, in : BOOLEAN, recording : BOOLEAN]
        /\ sdk'.made = FALSE /\ sdk'.recording = FALSE
    BY <2>1
  <2>3. Starts'
    BY <1>5, <2>1, <2>2 DEF Analytics!Kill, Starts, Callers, Analytics!Callers
  <2> QED
    BY <2>3, StartHolds, PTL
<1> QED
  BY <1>1, <1>2, <1>3, <1>4, <1>5 DEF Analytics!Next, Callers

------------------------------------------------------------------------------
(* The start of the API (docker-entrypoint.sh).  A migration that is       *)
(* recorded has run to its end, and one under way has run as far as this   *)
(* start knows; so the second is recorded only over the whole schema.      *)

BootOrder == [status : Entrypoint!Status, stamped : BOOLEAN]

BootTyped ==
  /\ bootOrders \in [BootOrders -> BootOrder]
  /\ schema \in 0..12 /\ recorded \in 0..2 /\ ran \in Nat
  /\ shelf \in [stock : Int, sales : Int] /\ carried \in [held : Int, sold : Int]

\* The statements of the migrations that are recorded.
Base == IF recorded = 0 THEN 0 ELSE IF recorded = 1 THEN 8 ELSE 12

MigratedInOrder ==
  /\ recorded # 0 => schema >= Base
  /\ ran > 0 => recorded < 2 /\ schema = Base + ran

Backfilled ==
  schema >= Entrypoint!Backfill
    => \A o \in BootOrders : bootOrders[o].status = "awaiting" => bootOrders[o].stamped

UpAndSeeded ==
  /\ phase \in {"seed", "serve"} => recorded = 2
  /\ phase = "seed" => seedAsked
  /\ phase = "serve" /\ seedAsked => Entrypoint!HasDemoUser

Amount(f, statuses) == Cardinality({o \in BootOrders : f[o].status \in statuses})
HeldIn == {"pending", "paid", "awaiting", "completed"}
SoldIn == {"paid", "awaiting", "completed"}

InBalance ==
  Entrypoint!HasDemoUser =>
     /\ shelf.stock + Amount(bootOrders, HeldIn) = InitStock + carried.held
     /\ shelf.sales + carried.sold = Amount(bootOrders, SoldIn)

BootInductive == BootTyped /\ MigratedInOrder /\ Backfilled /\ UpAndSeeded /\ InBalance

LEMMA BootCount == \A S : Entrypoint!Cardinality(S) = Cardinality(S)
  BY DEF Entrypoint!Cardinality, Cardinality

LEMMA AmountOfShop ==
  /\ Entrypoint!Held = Amount(bootOrders, HeldIn)
  /\ Entrypoint!Sold = Amount(bootOrders, SoldIn)
  BY BootCount DEF Entrypoint!Held, Entrypoint!Sold, Entrypoint!In, Amount, HeldIn, SoldIn

LEMMA AmountNatural == \A f, statuses : Amount(f, statuses) \in Nat
<1> SUFFICES ASSUME NEW f, NEW statuses PROVE Amount(f, statuses) \in Nat
  OBVIOUS
<1>1. IsFiniteSet({o \in BootOrders : f[o].status \in statuses})
  BY Shelved, FS_Subset
<1> QED
  BY <1>1, FS_CardinalityType DEF Amount

\* Only the order whose status changes counts.
LEMMA AmountMoves ==
  ASSUME NEW f, NEW g, NEW o \in BootOrders, NEW statuses,
         \A x \in BootOrders \ {o} : g[x].status = f[x].status
  PROVE  Amount(g, statuses) = Amount(f, statuses)
           - (IF f[o].status \in statuses THEN 1 ELSE 0)
           + (IF g[o].status \in statuses THEN 1 ELSE 0)
<1> DEFINE rest == {x \in BootOrders \ {o} : f[x].status \in statuses}
           all(h) == {x \in BootOrders : h[x].status \in statuses}
<1>1. IsFiniteSet(rest) /\ o \notin rest
  BY Shelved, FS_Subset
<1>2. Cardinality(rest) \in Nat /\ Cardinality(rest \cup {o}) = Cardinality(rest) + 1
  BY <1>1, FS_AddElement, FS_CardinalityType
<1>3. all(f) = IF f[o].status \in statuses THEN rest \cup {o} ELSE rest
  OBVIOUS
<1>4. all(g) = IF g[o].status \in statuses THEN rest \cup {o} ELSE rest
  OBVIOUS
<1>5. Amount(f, statuses) = Cardinality(all(f)) /\ Amount(g, statuses) = Cardinality(all(g))
  BY DEF Amount
<1> HIDE DEF rest, all
<1> QED
  BY <1>2, <1>3, <1>4, <1>5

LEMMA AmountSame ==
  ASSUME NEW f, NEW g, \A x \in BootOrders : g[x].status = f[x].status
  PROVE  \A statuses : Amount(g, statuses) = Amount(f, statuses)
  BY DEF Amount

\* How long the migrations are.
LEMMA Statements ==
  /\ Entrypoint!Len(Entrypoint!Migrations) = 2
  /\ recorded = 0 => /\ Entrypoint!Cardinality(Entrypoint!Pending) = 8
                     /\ Entrypoint!Due = 0 + ran + 1
  /\ recorded = 1 => /\ Entrypoint!Cardinality(Entrypoint!Pending) = 4
                     /\ Entrypoint!Due = 8 + ran + 1
<1>1. Cardinality(1..8) = 8 /\ Cardinality(9..12) = 4
  <2>1. \A a, b \in Int : Cardinality(a..b) = IF a > b THEN 0 ELSE b - a + 1
    BY FS_Interval
  <2>2. 1 \in Int /\ 8 \in Int /\ 9 \in Int /\ 12 \in Int
    OBVIOUS
  <2>3. Cardinality(1..8) = IF 1 > 8 THEN 0 ELSE 8 - 1 + 1
    BY <2>1, <2>2, Zenon
  <2>4. Cardinality(9..12) = IF 9 > 12 THEN 0 ELSE 12 - 9 + 1
    BY <2>1, <2>2, Zenon
  <2> QED
    BY <2>3, <2>4
<1>2. Cardinality({}) = 0
  BY FS_EmptySet
<1> USE BootCount DEF Entrypoint!Migrations, Entrypoint!InitialSchema,
                      Entrypoint!AddOrderAwaitingReceipt, Entrypoint!Pending, Entrypoint!Due
<1>3. recorded = 0 => UNION {Entrypoint!Migrations[m] : m \in 1..recorded} = {}
  OBVIOUS
<1>4. recorded = 1 => UNION {Entrypoint!Migrations[m] : m \in 1..recorded} = 1..8
  <2>1. recorded = 1 => 1..recorded = {1}
    OBVIOUS
  <2>2. Entrypoint!Migrations[1] = 1..8
    OBVIOUS
  <2> HIDE DEF Entrypoint!Migrations
  <2>3. UNION {Entrypoint!Migrations[m] : m \in {1}} = Entrypoint!Migrations[1]
    OBVIOUS
  <2> QED
    BY <2>1, <2>2, <2>3
<1>5. recorded = 0 => Entrypoint!Pending = 1..8
  OBVIOUS
<1>6. recorded = 1 => Entrypoint!Pending = 9..12
  OBVIOUS
<1>7. Entrypoint!Len(Entrypoint!Migrations) = 2
  OBVIOUS
<1> HIDE DEF Entrypoint!Migrations, Entrypoint!Pending
<1> QED
  BY <1>1, <1>2, <1>3, <1>4, <1>5, <1>6, <1>7

LEMMA BootImplies == BootInductive => Entrypoint!ServesWhole /\ Entrypoint!SeedBalance
<1> SUFFICES ASSUME BootInductive PROVE Entrypoint!ServesWhole /\ Entrypoint!SeedBalance
  OBVIOUS
<1>1. phase = "serve" => schema = 12 /\ recorded = 2
  BY DEF BootInductive, BootTyped, MigratedInOrder, UpAndSeeded, Base
<1>2. Entrypoint!ServesWhole
  BY <1>1 DEF BootInductive, Backfilled, UpAndSeeded, Entrypoint!Backfill, Entrypoint!ServesWhole
<1>3. Entrypoint!SeedBalance
  BY AmountOfShop DEF BootInductive, InBalance, Entrypoint!SeedBalance
<1> QED
  BY <1>2, <1>3

LEMMA BootInitially == Entrypoint!Init => BootInductive
<1> SUFFICES ASSUME Entrypoint!Init PROVE BootInductive
  OBVIOUS
<1>1. /\ Amount(bootOrders, HeldIn) \in Nat /\ Amount(bootOrders, SoldIn) \in Nat
      /\ InitStock \in Nat
  BY AmountNatural, Shelved
<1>2. shelf = IF Entrypoint!HasDemoUser
              THEN [stock |-> InitStock - Amount(bootOrders, HeldIn),
                    sales |-> Amount(bootOrders, SoldIn)]
              ELSE [stock |-> 0, sales |-> 0]
  BY AmountOfShop DEF Entrypoint!Init
<1>3. bootOrders \in [BootOrders -> BootOrder]
  <2>1. \A s \in Entrypoint!Status : [Entrypoint!NoOrder EXCEPT !.status = s] \in BootOrder
    BY DEF Entrypoint!NoOrder, BootOrder
  <2>2. Entrypoint!NoOrder \in BootOrder
    BY DEF Entrypoint!NoOrder, Entrypoint!Status, BootOrder
  <2>3. \/ bootOrders = [o \in BootOrders |-> Entrypoint!NoOrder]
        \/ bootOrders \in [BootOrders ->
                            {[Entrypoint!NoOrder EXCEPT !.status = s] : s \in Entrypoint!Status}]
    BY DEF Entrypoint!Init
  <2> QED
    BY <2>1, <2>2, <2>3
<1>4. BootTyped
  BY <1>1, <1>2, <1>3 DEF Entrypoint!Init, BootTyped
<1>5. MigratedInOrder
  BY DEF Entrypoint!Init, MigratedInOrder, Base
<1>6. Backfilled
  BY DEF Entrypoint!Init, Backfilled, Entrypoint!Backfill
<1>7. UpAndSeeded
  BY DEF Entrypoint!Init, UpAndSeeded
<1>8. InBalance
  BY <1>1, <1>2 DEF Entrypoint!Init, InBalance
<1> QED
  BY <1>4, <1>5, <1>6, <1>7, <1>8 DEF BootInductive

\* Steps that leave the database alone.
LEMMA BootQuiet ==
  ASSUME BootInductive,
         UNCHANGED <<schema, recorded, phone, shelf, bootOrders, carried>>,
         ran' \in {0, ran}, UpAndSeeded'
  PROVE  BootInductive'
<1>1. BootTyped'
  BY DEF BootInductive, BootTyped
<1>2. MigratedInOrder'
  <2>1. Base' = Base
    BY DEF Base
  <2>2. CASE ran' = 0
    BY <2>1, <2>2 DEF BootInductive, MigratedInOrder
  <2>3. CASE ran' = ran
    BY <2>1, <2>3 DEF BootInductive, MigratedInOrder
  <2> QED
    BY <2>2, <2>3
<1>3. Backfilled'
  BY DEF BootInductive, Backfilled
<1>4. InBalance'
  BY DEF BootInductive, InBalance, Entrypoint!HasDemoUser, Amount
<1> QED
  BY <1>1, <1>2, <1>3, <1>4 DEF BootInductive

LEMMA MigrateKeeps ==
  ASSUME BootInductive, Entrypoint!Migrate
  PROVE  BootInductive'
<1>1. /\ phase = "migrate" /\ recorded \in {0, 1} /\ ran \in Nat /\ schema \in 0..12
      /\ UNCHANGED <<mysql, attempts, seedAsked, recorded, phone, shelf, carried>>
      /\ ran < Entrypoint!Cardinality(Entrypoint!Pending)
  BY Statements DEF Entrypoint!Migrate, BootInductive, BootTyped
<1>2. /\ Entrypoint!Due = Base + ran + 1
      /\ Base + ran < (IF recorded = 0 THEN 8 ELSE 12)
      /\ Base = (IF recorded = 0 THEN 0 ELSE 8)
  BY <1>1, Statements DEF Base
<1>3. CASE phase' = "stopped" /\ UNCHANGED <<schema, bootOrders, ran>>
  <2>1. UpAndSeeded'
    BY <1>3 DEF UpAndSeeded
  <2> QED
    BY <1>1, <1>3, <2>1, BootQuiet
<1>4. CASE /\ ~(Entrypoint!Due <= schema)
           /\ schema' = Entrypoint!Due /\ ran' = ran + 1 /\ phase' = phase
           /\ bootOrders' = IF Entrypoint!Due = Entrypoint!Backfill
                            THEN [o \in BootOrders |-> Entrypoint!Stamped(bootOrders[o])]
                            ELSE bootOrders
  <2>1. schema' = Base + ran + 1 /\ schema' \in 0..12 /\ ran' \in Nat
    BY <1>1, <1>2, <1>4
  <2>2. \A o \in BootOrders :
          /\ Entrypoint!Stamped(bootOrders[o]) \in BootOrder
          /\ Entrypoint!Stamped(bootOrders[o]).status = bootOrders[o].status
          /\ bootOrders[o].status = "awaiting" => Entrypoint!Stamped(bootOrders[o]).stamped
    BY DEF BootInductive, BootTyped, BootOrder, Entrypoint!Stamped
  <2>3. /\ bootOrders' \in [BootOrders -> BootOrder]
        /\ \A o \in BootOrders : bootOrders'[o].status = bootOrders[o].status
    BY <1>4, <2>2 DEF BootInductive, BootTyped
  <2>4. BootTyped'
    BY <1>1, <2>1, <2>3 DEF BootInductive, BootTyped
  <2>5. MigratedInOrder'
    BY <1>1, <1>2, <1>4, <2>1 DEF MigratedInOrder, Base
  <2>6. Backfilled'
    <3>1. CASE Entrypoint!Due = Entrypoint!Backfill
      BY <1>4, <2>2, <3>1 DEF Backfilled
    <3>2. CASE Entrypoint!Due # Entrypoint!Backfill /\ schema' >= Entrypoint!Backfill
      <4>1. ran > 0 /\ Base + ran >= 10
        BY <1>1, <1>2, <1>4, <2>1, <3>2 DEF Entrypoint!Backfill
      <4>2. schema >= 10
        BY <1>1, <4>1 DEF BootInductive, MigratedInOrder
      <4> QED
        BY <1>4, <3>2, <4>2 DEF BootInductive, Backfilled, Entrypoint!Backfill
    <3> QED
      BY <3>1, <3>2 DEF Backfilled
  <2>7. UpAndSeeded'
    BY <1>1, <1>4 DEF UpAndSeeded
  <2>8. InBalance'
    <3>1. \A statuses : Amount(bootOrders', statuses) = Amount(bootOrders, statuses)
      BY <2>3, AmountSame
    <3> QED
      BY <1>1, <3>1 DEF BootInductive, InBalance, Entrypoint!HasDemoUser
  <2> QED
    BY <2>4, <2>5, <2>6, <2>7, <2>8 DEF BootInductive
<1> QED
  BY <1>3, <1>4 DEF Entrypoint!Migrate, Entrypoint!Refused

LEMMA RecordKeepsSchema ==
  ASSUME BootInductive, Entrypoint!RecordMigration
  PROVE  BootInductive'
<1>1. /\ recorded \in {0, 1} /\ ran = Entrypoint!Cardinality(Entrypoint!Pending)
      /\ recorded' = recorded + 1 /\ ran' = 0 /\ phase' = "migrate"
      /\ UNCHANGED <<schema, phone, shelf, bootOrders, carried>>
  BY Statements DEF Entrypoint!RecordMigration, Entrypoint!shopVars, BootInductive, BootTyped
<1>2. schema = IF recorded = 0 THEN 8 ELSE 12
  BY <1>1, Statements DEF BootInductive, MigratedInOrder, Base
<1>3. BootTyped' /\ MigratedInOrder'
  BY <1>1, <1>2 DEF BootInductive, BootTyped, MigratedInOrder, Base
<1>4. Backfilled' /\ InBalance'
  BY <1>1 DEF BootInductive, Backfilled, InBalance, Entrypoint!HasDemoUser, Amount
<1>5. UpAndSeeded'
  BY <1>1 DEF UpAndSeeded
<1> QED
  BY <1>3, <1>4, <1>5 DEF BootInductive

LEMMA SeedKeeps ==
  ASSUME BootInductive, Entrypoint!SeedOnBoot
  PROVE  BootInductive'
<1>1. phase = "seed" /\ UNCHANGED <<seedAsked, schema, ran, recorded, bootOrders>>
  BY DEF Entrypoint!SeedOnBoot, Entrypoint!bootVars
<1>2. CASE phase' = "stopped" /\ UNCHANGED <<phone, shelf, carried>>
  <2>1. UpAndSeeded'
    BY <1>2 DEF UpAndSeeded
  <2> QED
    BY <1>1, <1>2, <2>1, BootQuiet
<1>3. CASE Entrypoint!RunSeed
  <2>1. /\ phone' = "demo" /\ shelf' = [stock |-> InitStock, sales |-> 0] /\ phase' = "serve"
        /\ carried' = [held |-> Amount(bootOrders, HeldIn), sold |-> Amount(bootOrders, SoldIn)]
    BY <1>3, AmountOfShop DEF Entrypoint!RunSeed
  <2>2. /\ Amount(bootOrders, HeldIn) \in Nat /\ Amount(bootOrders, SoldIn) \in Nat
        /\ InitStock \in Nat
    BY AmountNatural, Shelved
  <2>3. BootTyped'
    BY <1>1, <2>1, <2>2 DEF BootInductive, BootTyped
  <2>4. MigratedInOrder' /\ Backfilled'
    BY <1>1 DEF BootInductive, MigratedInOrder, Base, Backfilled
  <2>5. UpAndSeeded'
    BY <1>1, <2>1 DEF BootInductive, UpAndSeeded, Entrypoint!HasDemoUser
  <2>6. /\ shelf'.stock = InitStock /\ shelf'.sales = 0
        /\ carried'.held = Amount(bootOrders, HeldIn) /\ carried'.sold = Amount(bootOrders, SoldIn)
    BY <2>1
  <2>7. \A statuses : Amount(bootOrders', statuses) = Amount(bootOrders, statuses)
    BY <1>1
  <2>8. InBalance'
    BY <2>2, <2>6, <2>7 DEF InBalance
  <2> QED
    BY <2>3, <2>4, <2>5, <2>8 DEF BootInductive
<1> QED
  BY <1>2, <1>3 DEF Entrypoint!SeedOnBoot

\* An order's status changes, and with it stock and sales.
LEMMA BecomesKeeps ==
  ASSUME BootInductive, NEW o \in BootOrders, NEW old, NEW new \in Entrypoint!Status,
         NEW freed \in Int, NEW sold \in Int,
         Entrypoint!Becomes(o, old, new, freed, sold),
         freed = (IF old \in HeldIn THEN 1 ELSE 0) - (IF new \in HeldIn THEN 1 ELSE 0),
         sold = (IF new \in SoldIn THEN 1 ELSE 0) - (IF old \in SoldIn THEN 1 ELSE 0)
  PROVE  BootInductive'
<1> DEFINE order == [status |-> new, stamped |-> bootOrders[o].stamped \/ new = "awaiting"]
<1>1. /\ phase = "serve" /\ bootOrders[o].status = old
      /\ UNCHANGED <<phase, seedAsked, schema, ran, recorded, carried, phone>>
      /\ bootOrders' = [bootOrders EXCEPT ![o] = order]
      /\ shelf' = [stock |-> shelf.stock + freed, sales |-> shelf.sales + sold]
  BY DEF Entrypoint!Becomes, Entrypoint!Serving, Entrypoint!bootVars, BootInductive, BootTyped
<1>2. /\ order \in BootOrder /\ order.status = new
      /\ order.status = "awaiting" => order.stamped
  BY DEF BootInductive, BootTyped, BootOrder
<1> HIDE DEF order
<1>3. /\ bootOrders' \in [BootOrders -> BootOrder] /\ bootOrders'[o] = order
      /\ \A x \in BootOrders \ {o} : bootOrders'[x] = bootOrders[x]
  BY <1>1, <1>2 DEF BootInductive, BootTyped
<1>4. /\ shelf.stock \in Int /\ shelf.sales \in Int /\ carried.held \in Int
      /\ carried.sold \in Int /\ InitStock \in Int
      /\ \A f, statuses : Amount(f, statuses) \in Int
  BY AmountNatural, Shelved DEF BootInductive, BootTyped
<1>5. shelf' \in [stock : Int, sales : Int] /\ shelf'.stock = shelf.stock + freed
      /\ shelf'.sales = shelf.sales + sold
  BY <1>1, <1>4
<1>6. BootTyped' /\ MigratedInOrder'
  BY <1>1, <1>3, <1>5 DEF BootInductive, BootTyped, MigratedInOrder, Base
<1>7. Backfilled'
  BY <1>1, <1>2, <1>3 DEF BootInductive, Backfilled
<1>8. UpAndSeeded'
  BY <1>1 DEF BootInductive, UpAndSeeded, Entrypoint!HasDemoUser
<1>9. InBalance'
  <2>0. PICK after : after = bootOrders'
    OBVIOUS
  <2>1. \A x \in BootOrders \ {o} : after[x].status = bootOrders[x].status
    BY <1>3, <2>0
  <2>2. \A statuses : Amount(after, statuses) = Amount(bootOrders, statuses)
           - (IF bootOrders[o].status \in statuses THEN 1 ELSE 0)
           + (IF after[o].status \in statuses THEN 1 ELSE 0)
    BY <2>1, AmountMoves
  <2>3. bootOrders[o].status = old /\ after[o].status = new
    BY <1>1, <1>2, <1>3, <2>0
  <2>4. /\ Amount(after, HeldIn) = Amount(bootOrders, HeldIn)
             - (IF old \in HeldIn THEN 1 ELSE 0) + (IF new \in HeldIn THEN 1 ELSE 0)
        /\ Amount(after, SoldIn) = Amount(bootOrders, SoldIn)
             - (IF old \in SoldIn THEN 1 ELSE 0) + (IF new \in SoldIn THEN 1 ELSE 0)
    BY <2>2, <2>3
  <2>5. Amount(bootOrders, HeldIn) \in Int /\ Amount(bootOrders, SoldIn) \in Int
    BY <1>4
  <2>6. /\ Amount(after, HeldIn) = Amount(bootOrders, HeldIn) - freed
        /\ Amount(after, SoldIn) = Amount(bootOrders, SoldIn) + sold
    BY <2>4, <2>5
  <2>7. /\ Amount(bootOrders', HeldIn) = Amount(bootOrders, HeldIn) - freed
        /\ Amount(bootOrders', SoldIn) = Amount(bootOrders, SoldIn) + sold
    BY <2>0, <2>6
  <2> QED
    BY <1>1, <1>4, <1>5, <2>5, <2>7 DEF BootInductive, InBalance, Entrypoint!HasDemoUser
<1> QED
  BY <1>6, <1>7, <1>8, <1>9 DEF BootInductive

LEMMA ShopKeeps ==
  ASSUME BootInductive, NEW o \in BootOrders,
         \/ Entrypoint!Create(o) \/ Entrypoint!Pay(o) \/ Entrypoint!Cancel(o)
         \/ Entrypoint!MarkAwaitingReceipt(o) \/ Entrypoint!CompletePaid(o)
  PROVE  BootInductive'
<1> USE DEF HeldIn, SoldIn, Entrypoint!Status
<1>1. CASE Entrypoint!Create(o)
  BY <1>1, BecomesKeeps DEF Entrypoint!Create
<1>2. CASE Entrypoint!Pay(o)
  BY <1>2, BecomesKeeps DEF Entrypoint!Pay
<1>3. CASE Entrypoint!Cancel(o)
  BY <1>3, BecomesKeeps DEF Entrypoint!Cancel
<1>4. CASE Entrypoint!MarkAwaitingReceipt(o)
  BY <1>4, BecomesKeeps DEF Entrypoint!MarkAwaitingReceipt
<1>5. CASE Entrypoint!CompletePaid(o)
  <2>1. Entrypoint!Becomes(o, "awaiting", "completed", 0, 0)
    BY <1>5 DEF Entrypoint!CompletePaid
  <2> QED
    BY <2>1, BecomesKeeps
<1> QED
  BY <1>1, <1>2, <1>3, <1>4, <1>5

LEMMA RegisterKeeps ==
  ASSUME BootInductive, Entrypoint!Register
  PROVE  BootInductive'
<1>1. /\ phone = "none" /\ phone' = "customer"
      /\ UNCHANGED <<phase, seedAsked, schema, ran, recorded, carried, shelf, bootOrders>>
  BY DEF Entrypoint!Register, Entrypoint!Serving, Entrypoint!bootVars
<1>2. UpAndSeeded' /\ InBalance'
  BY <1>1 DEF BootInductive, UpAndSeeded, InBalance, Entrypoint!HasDemoUser
<1> QED
  BY <1>1, <1>2 DEF BootInductive, BootTyped, MigratedInOrder, Base, Backfilled

LEMMA BootUntouched ==
  ASSUME BootInductive, UNCHANGED bootVars
  PROVE  BootInductive'
<1>1. UpAndSeeded'
  BY DEF bootVars, BootInductive, UpAndSeeded, Entrypoint!HasDemoUser
<1> QED
  BY <1>1, BootQuiet DEF bootVars

LEMMA BootNextKeeps ==
  ASSUME BootInductive, Entrypoint!Next
  PROVE  BootInductive'
<1> USE DEF Entrypoint!bootVars, Entrypoint!shopVars
<1>1. CASE Entrypoint!WaitForMysql \/ Entrypoint!Stop \/ Entrypoint!Restart
  <2>1. UpAndSeeded'
    BY <1>1 DEF Entrypoint!WaitForMysql, Entrypoint!Stop, Entrypoint!Restart, UpAndSeeded
  <2> QED
    BY <1>1, <2>1, BootQuiet DEF Entrypoint!WaitForMysql, Entrypoint!Stop, Entrypoint!Restart
<1>2. CASE Entrypoint!NoPending
  <2>1. recorded = 2
    BY <1>2, Statements DEF Entrypoint!NoPending
  <2>2. UpAndSeeded'
    BY <1>2, <2>1 DEF Entrypoint!NoPending, UpAndSeeded
  <2> QED
    BY <1>2, <2>2, BootQuiet DEF Entrypoint!NoPending
<1>3. CASE Entrypoint!ToggleMysql
  <2>1. UpAndSeeded'
    BY <1>3 DEF Entrypoint!ToggleMysql, BootInductive, UpAndSeeded, Entrypoint!HasDemoUser
  <2> QED
    BY <1>3, <2>1, BootQuiet DEF Entrypoint!ToggleMysql
<1> QED
  BY <1>1, <1>2, <1>3, MigrateKeeps, RecordKeepsSchema, SeedKeeps, RegisterKeeps, ShopKeeps
     DEF Entrypoint!Next

------------------------------------------------------------------------------
(* Sorting: the n-th element is the one with n - 1 before it.              *)

Before(S, R, x) == {y \in S : <<y, x>> \in R}
Place(S, R, x) == Cardinality(Before(S, R, x))

IsOrder(S, R) ==
  /\ \A x \in S : <<x, x>> \notin R
  /\ \A x, y \in S : x # y => <<x, y>> \in R \/ <<y, x>> \in R
  /\ \A x, y, z \in S : <<x, y>> \in R /\ <<y, z>> \in R => <<x, z>> \in R

LEMMA PlaceIsPlace ==
  ASSUME NEW S, NEW R, IsFiniteSet(S), IsOrder(S, R), NEW x \in S
  PROVE  /\ Place(S, R, x) \in 0..(Cardinality(S) - 1)
         /\ \A y \in S : <<y, x>> \in R => Place(S, R, y) < Place(S, R, x)
<1>1. ASSUME NEW y \in S PROVE IsFiniteSet(Before(S, R, y)) /\ Place(S, R, y) \in Nat
  BY FS_Subset, FS_CardinalityType DEF Before, Place
<1>2. ASSUME NEW T, IsFiniteSet(T), NEW y \in T, Before(S, R, y) \subseteq T, y \notin Before(S, R, y)
      PROVE  Place(S, R, y) < Cardinality(T)
  <2>1. Place(S, R, y) <= Cardinality(T) /\ Cardinality(T) \in Nat /\ Place(S, R, y) \in Nat
    BY <1>2, FS_Subset, FS_CardinalityType DEF Place
  <2>2. Place(S, R, y) # Cardinality(T)
    BY <1>2, FS_Subset DEF Place
  <2> QED
    BY <2>1, <2>2
<1>3. Place(S, R, x) < Cardinality(S)
  BY <1>2 DEF Before, IsOrder
<1>4. ASSUME NEW y \in S, <<y, x>> \in R PROVE Place(S, R, y) < Place(S, R, x)
  <2>1. /\ y \in Before(S, R, x) /\ y \notin Before(S, R, y)
        /\ Before(S, R, y) \subseteq Before(S, R, x)
    BY <1>4 DEF Before, IsOrder
  <2> QED
    BY <1>1, <1>2, <2>1 DEF Place
<1> QED
  BY <1>1, <1>3, <1>4, FS_CardinalityType

LEMMA SortedSorts ==
  ASSUME NEW S, NEW R, IsFiniteSet(S), IsOrder(S, R)
  PROVE  /\ Cardinality(S) \in Nat
         /\ Sorted(S, R) \in [1..Cardinality(S) -> S]
         /\ \A x \in S : \E n \in 1..Cardinality(S) : Sorted(S, R)[n] = x
         /\ \A m, n \in 1..Cardinality(S) : m < n => <<Sorted(S, R)[m], Sorted(S, R)[n]>> \in R
<1> DEFINE c == Cardinality(S)
           place == [x \in S |-> Place(S, R, x)]
<1>1. c \in Nat
  BY FS_CardinalityType
<1>2. \A x, y \in S : Place(S, R, x) = Place(S, R, y) => x = y
  <2> SUFFICES ASSUME NEW x \in S, NEW y \in S, x # y PROVE Place(S, R, x) # Place(S, R, y)
    OBVIOUS
  <2>1. Place(S, R, x) \in Int /\ Place(S, R, y) \in Int
    BY <1>1, PlaceIsPlace
  <2>2. Place(S, R, x) < Place(S, R, y) \/ Place(S, R, y) < Place(S, R, x)
    BY PlaceIsPlace DEF IsOrder
  <2> QED
    BY <2>1, <2>2
\* There are as many places as elements: every place is taken.
<1>3. \A k \in 0..(c - 1) : \E x \in S : Place(S, R, x) = k
  <2>1. place \in [S -> 0..(c - 1)] /\ \A x, y \in S : place[x] = place[y] => x = y
    BY <1>2, PlaceIsPlace
  <2>2. IsFiniteSet(0..(c - 1)) /\ Cardinality(0..(c - 1)) = c
    BY <1>1, FS_Interval
  <2>3. place \in Injection(S, 0..(c - 1))
    BY <2>1 DEF Injection, IsInjective
  <2>4. place \in Surjection(S, 0..(c - 1))
    BY <2>2, <2>3, FS_Injection
  <2> QED
    BY <2>4 DEF Surjection
<1>4. ASSUME NEW n \in 1..c
      PROVE  Sorted(S, R)[n] \in S /\ Place(S, R, Sorted(S, R)[n]) = n - 1
  <2>1. Sorted(S, R)[n] = CHOOSE x \in S : Place(S, R, x) = n - 1
    BY DEF Sorted, Place, Before
  <2>2. \E x \in S : Place(S, R, x) = n - 1
    BY <1>1, <1>3
  <2> QED
    BY <2>1, <2>2
<1>5. ASSUME NEW x \in S PROVE \E n \in 1..c : Sorted(S, R)[n] = x
  <2>1. \A k \in 0..(c - 1) : k + 1 \in 1..c /\ k = (k + 1) - 1
    BY <1>1
  <2>2. PICK n \in 1..c : Place(S, R, x) = n - 1
    BY <2>1, PlaceIsPlace
  <2>3. Sorted(S, R)[n] \in S /\ Place(S, R, Sorted(S, R)[n]) = Place(S, R, x)
    BY <1>4, <2>2
  <2> QED
    BY <1>2, <2>3
<1>6. ASSUME NEW m \in 1..c, NEW n \in 1..c, m < n
      PROVE  <<Sorted(S, R)[m], Sorted(S, R)[n]>> \in R
  <2> DEFINE x == Sorted(S, R)[m]
             y == Sorted(S, R)[n]
  <2>1. x \in S /\ y \in S /\ Place(S, R, x) = m - 1 /\ Place(S, R, y) = n - 1
    BY <1>4
  <2> HIDE DEF x, y
  <2>2. x # y /\ ~(Place(S, R, y) < Place(S, R, x))
    BY <1>1, <1>6, <2>1
  <2>3. <<x, y>> \in R
    BY <2>1, <2>2, PlaceIsPlace DEF IsOrder
  <2> QED
    BY <2>3 DEF x, y
<1>7. Sorted(S, R) \in [1..c -> S]
  <2> DEFINE pick(n) == CHOOSE x \in S : Cardinality({y \in S : <<y, x>> \in R}) = n - 1
  <2>1. Sorted(S, R) = [n \in 1..c |-> pick(n)]
    BY DEF Sorted
  <2>2. \A n \in 1..c : Sorted(S, R)[n] = pick(n)
    BY <2>1
  <2> HIDE DEF pick
  <2> QED
    BY <1>4, <2>1, <2>2
<1> QED
  BY <1>1, <1>5, <1>6, <1>7

LEMMA AscendingSorts ==
  ASSUME NEW S \in SUBSET Int, IsFiniteSet(S)
  PROVE  /\ Cardinality(S) \in Nat
         /\ Ascending(S) \in [1..Cardinality(S) -> S]
         /\ \A x \in S : \E n \in 1..Cardinality(S) : Ascending(S)[n] = x
         /\ \A m, n \in 1..Cardinality(S) : m < n => Ascending(S)[m] < Ascending(S)[n]
<1> DEFINE R == {p \in S \X S : p[1] < p[2]}
<1>1. \A x, y \in S : <<x, y>> \in R <=> x < y
  OBVIOUS
<1> HIDE DEF R
<1>2. IsOrder(S, R)
  BY <1>1 DEF IsOrder
<1>3. Ascending(S) = Sorted(S, R)
  BY DEF Ascending, R
<1>4. /\ Cardinality(S) \in Nat
      /\ Sorted(S, R) \in [1..Cardinality(S) -> S]
      /\ \A x \in S : \E n \in 1..Cardinality(S) : Sorted(S, R)[n] = x
      /\ \A m, n \in 1..Cardinality(S) : m < n => <<Sorted(S, R)[m], Sorted(S, R)[n]>> \in R
  BY <1>2, SortedSorts
<1>5. \A n \in 1..Cardinality(S) : Ascending(S)[n] \in S
  BY <1>3, <1>4
<1> QED
  BY <1>1, <1>3, <1>4, <1>5

\* A selection has the elements at the positions selected, in their order.
LEMMA AtSelects ==
  ASSUME NEW T, NEW s \in Seq(T), NEW I \in SUBSET (DOMAIN s)
  PROVE  /\ IsFiniteSet(I) /\ At(s, I) \in Seq(T) /\ Len(At(s, I)) = Cardinality(I)
         /\ \A n \in 1..Cardinality(I) : \E i \in I : At(s, I)[n] = s[i]
         /\ (\A i, j \in DOMAIN s : i # j => s[i] # s[j])
              => \A m, n \in 1..Cardinality(I) : m # n => At(s, I)[m] # At(s, I)[n]
<1>1. IsFiniteSet(I) /\ I \in SUBSET Int
  <2>1. DOMAIN s = 1..Len(s) /\ Len(s) \in Nat
    OBVIOUS
  <2>2. IsFiniteSet(1..Len(s))
    BY <2>1, FS_Interval
  <2> QED
    BY <2>1, <2>2, FS_Subset
<1> DEFINE c == Cardinality(I)
           a == Ascending(I)
<1>2. /\ c \in Nat /\ a \in [1..c -> I] /\ \A m, n \in 1..c : m < n => a[m] < a[n]
  BY <1>1, AscendingSorts
<1>3. At(s, I) = [n \in 1..c |-> s[a[n]]]
  BY DEF At
<1> HIDE DEF c, a
<1>4. \A n \in 1..c : a[n] \in I /\ s[a[n]] \in T
  BY <1>2
<1>5. At(s, I) \in Seq(T) /\ Len(At(s, I)) = c
  BY <1>2, <1>3, <1>4
<1>6. \A m, n \in 1..c : m # n => a[m] # a[n]
  BY <1>1, <1>2
<1>7. \A n \in 1..c : At(s, I)[n] = s[a[n]]
  BY <1>3
<1>8. \A n \in 1..c : \E i \in I : At(s, I)[n] = s[i]
  BY <1>4, <1>7
<1>9. (\A i, j \in DOMAIN s : i # j => s[i] # s[j])
        => \A m, n \in 1..c : m # n => At(s, I)[m] # At(s, I)[n]
  BY <1>4, <1>6, <1>7
<1> QED
  BY <1>1, <1>5, <1>8, <1>9 DEF c

------------------------------------------------------------------------------
(* The search history (searchHistory.ts, SearchScreen.tsx).  While nothing *)
(* has raced there is one change at most, and what it will leave is known. *)

WordList(list) ==
  /\ list \in Seq(Words) /\ Len(list) <= SEARCH_HISTORY_LIMIT
  /\ \A i, j \in DOMAIN list : i # j => list[i] # list[j]

StoreCall(c) ==
  /\ c.op = "get" => Len(c.list) = 1
  /\ c.op = "set" => WordList(c.list)

StoreCalls == {c \in [op : {"show", "get", "set", "clear"}, list : Seq(Words)] : StoreCall(c)}
QueueTyped == storageQueue \in Seq(StoreCalls)

HistoryTyped ==
  /\ WordList(kept) /\ WordList(history)
  /\ tokens \in BOOLEAN /\ signedIn \in BOOLEAN /\ focused \in BOOLEAN /\ historyRaced \in BOOLEAN
  /\ leaving \in 0..MaxQueue
  /\ QueueTyped

Still == leaving = 0 /\ Searches!Changes = {}
Lone == /\ leaving = 0 \/ (leaving = 1 /\ Searches!Changes = {})
        /\ \A i, j \in Searches!Changes : i = j

\* What the change under way will leave is the ideal list.
Leaves(c) ==
  /\ c.op = "get" => ideal = Searches!WithWord(kept, c.list[1])
  /\ c.op = "set" => ideal = c.list
  /\ c.op = "clear" => ~signedIn

ToBeShown == \E i \in DOMAIN storageQueue : storageQueue[i].op = "show"

Straight ==
  /\ Lone /\ (leaving = 1 => ~signedIn) /\ (signedIn => tokens)
  /\ Still => kept = ideal
  /\ \A i \in Searches!Changes : Leaves(storageQueue[i])
  /\ focused /\ signedIn => history = kept \/ ToBeShown

HistoryInductive ==
  /\ HistoryTyped
  /\ ~signedIn \/ historyRaced => ideal = <<>>
  /\ ~historyRaced => Straight

\* The instance has its own copies of what it extends.
LEMMA SearchesCopies ==
  /\ \A S : Searches!Cardinality(S) = Cardinality(S)
  /\ \A s, I : Searches!At(s, I) = At(s, I)
<1>1. \A S : Searches!Cardinality(S) = Cardinality(S)
  BY DEF Searches!Cardinality, Cardinality
<1>2. \A S, R : Searches!Sorted(S, R) = Sorted(S, R)
  BY DEF Searches!Sorted, Sorted, Searches!Cardinality, Cardinality
<1>3. \A S : Searches!Ascending(S) = Ascending(S)
  BY <1>2 DEF Searches!Ascending, Ascending
<1> QED
  BY <1>1, <1>3 DEF Searches!At, At

\* The counts of the model, as statements about the changes under way.
LEMMA ChangesCounted ==
  ASSUME HistoryTyped
  PROVE  /\ Searches!Changes \in SUBSET DOMAIN storageQueue
         /\ IsFiniteSet(Searches!Changes)
         /\ Searches!Changing \in Nat
         /\ ~(Searches!Changing > 0) <=> Still
         /\ ~(Searches!Changing > 1) <=> Lone
<1> DEFINE C == Searches!Changes
           c == Cardinality(C)
<1>1. C \in SUBSET DOMAIN storageQueue
  BY DEF Searches!Changes
<1>2. IsFiniteSet(C)
  BY <1>1, AtSelects DEF HistoryTyped, QueueTyped
<1>3. c \in Nat /\ (c = 0 <=> C = {})
  BY <1>2, FS_CardinalityType, FS_EmptySet
<1>4. c <= 1 <=> \A i, j \in C : i = j
  <2>1. CASE C = {}
    BY <1>3, <2>1
  <2>2. CASE C # {}
    <3>1. PICK i \in C : TRUE
      BY <2>2
    <3>2. C = {i} \cup (C \ {i}) /\ Cardinality(C \ {i}) = c - 1 /\ IsFiniteSet(C \ {i})
      BY <1>2, <3>1, FS_RemoveElement
    <3>3. Cardinality(C \ {i}) \in Nat /\ (Cardinality(C \ {i}) = 0 <=> C \ {i} = {})
      BY <3>2, FS_CardinalityType, FS_EmptySet
    <3>4. c <= 1 <=> C \ {i} = {}
      BY <1>3, <3>2, <3>3
    <3> QED
      BY <3>1, <3>4
  <2> QED
    BY <2>1, <2>2
<1>5. Searches!Changing = c + leaving
  BY SearchesCopies DEF Searches!Changing
<1>6. leaving \in Nat
  BY HistoryBounds DEF HistoryTyped
<1>7. c + leaving \in Nat
  BY <1>3, <1>6
<1> HIDE DEF c
<1>11. \A a, b \in Nat :
         /\ ~(a + b > 0) <=> a = 0 /\ b = 0
         /\ ~(a + b > 1) <=> a <= 1 /\ (b = 0 \/ (b = 1 /\ a = 0))
  OBVIOUS
<1>8. /\ ~(c + leaving > 0) <=> c = 0 /\ leaving = 0
      /\ ~(c + leaving > 1) <=> c <= 1 /\ (leaving = 0 \/ (leaving = 1 /\ c = 0))
  BY <1>3, <1>6, <1>11
<1>9. ~(Searches!Changing > 0) <=> Still
  BY <1>3, <1>5, <1>8 DEF Still
<1>10. ~(Searches!Changing > 1) <=> Lone
  BY <1>3, <1>4, <1>5, <1>8 DEF Lone
<1> QED
  BY <1>1, <1>2, <1>5, <1>7, <1>9, <1>10

\* The word comes first, the others stay in their order, and the list is cut.
LEMMA WithWordLists ==
  ASSUME NEW list, WordList(list), NEW w \in Words
  PROVE  WordList(Searches!WithWord(list, w))
<1> DEFINE I == {i \in DOMAIN list : list[i] # w}
           rest == At(list, I)
           long == <<w>> \o rest
<1>0. list \in Seq(Words) /\ I \in SUBSET DOMAIN list
  BY DEF WordList
<1>1. /\ rest \in Seq(Words) /\ Len(rest) = Cardinality(I)
      /\ \A n \in 1..Cardinality(I) : \E i \in I : rest[n] = list[i]
      /\ \A m, n \in 1..Cardinality(I) : m # n => rest[m] # rest[n]
  BY <1>0, AtSelects DEF WordList
<1>2. \A n \in DOMAIN rest : rest[n] # w
  BY <1>1
<1>3. \A m, n \in DOMAIN rest : m # n => rest[m] # rest[n]
  BY <1>1
<1>4. Searches!WithWord(list, w) = Searches!First(long, SEARCH_HISTORY_LIMIT)
  BY SearchesCopies DEF Searches!WithWord, Searches!Without
<1> HIDE DEF rest
<1>5. /\ long \in Seq(Words) /\ Len(long) = Len(rest) + 1 /\ Len(rest) \in Nat
      /\ \A n \in 1..Len(long) : long[n] = IF n = 1 THEN w ELSE rest[n - 1]
  BY <1>1
<1> HIDE DEF long
<1>6. \A m, n \in 1..Len(long) : m # n => long[m] # long[n]
  <2> SUFFICES ASSUME NEW m \in 1..Len(long), NEW n \in 1..Len(long), m # n
               PROVE  long[m] # long[n]
    OBVIOUS
  <2>1. CASE m = 1
    BY <1>1, <1>2, <1>5, <2>1
  <2>2. CASE n = 1
    BY <1>1, <1>2, <1>5, <2>2
  <2>3. CASE m # 1 /\ n # 1
    <3>1. m - 1 \in DOMAIN rest /\ n - 1 \in DOMAIN rest /\ m - 1 # n - 1
      BY <1>1, <1>5, <2>3
    <3> QED
      BY <1>3, <1>5, <2>3, <3>1
  <2> QED
    BY <2>1, <2>2, <2>3
<1> DEFINE n == IF Len(long) < SEARCH_HISTORY_LIMIT THEN Len(long) ELSE SEARCH_HISTORY_LIMIT
           cut == SubSeq(long, 1, n)
<1>7. n \in 0..Len(long) /\ n <= SEARCH_HISTORY_LIMIT
  BY <1>5, HistoryBounds
<1> HIDE DEF n
<1>8. cut \in Seq(Words) /\ Len(cut) = n /\ \A i \in 1..n : cut[i] = long[i]
  BY <1>5, <1>7
<1>9. WordList(cut)
  BY <1>6, <1>7, <1>8 DEF WordList
<1> QED
  BY <1>4, <1>9 DEF Searches!First, n

\* A step that drops or adds readings for the screen leaves the changes as they are.
SameChanges ==
  /\ \A n \in Searches!Changes' : \E i \in Searches!Changes : storageQueue'[n] = storageQueue[i]
  /\ Searches!Changes = {} <=> Searches!Changes' = {}
  /\ (\A i, j \in Searches!Changes : i = j) => \A m, n \in Searches!Changes' : m = n

Reading == [op |-> "show", list |-> <<>>]

LEMMA CallsAppended ==
  ASSUME NEW s, s \in Seq(StoreCalls), NEW c \in StoreCalls
  PROVE  /\ Append(s, c) \in Seq(StoreCalls) /\ Len(s) \in Nat /\ DOMAIN s = 1..Len(s)
         /\ DOMAIN Append(s, c) = 1..(Len(s) + 1)
         /\ \A i \in 1..Len(s) : Append(s, c)[i] = s[i]
         /\ Append(s, c)[Len(s) + 1] = c
  OBVIOUS

LEMMA ReadingIsCall == Reading \in StoreCalls /\ Reading.op = "show"
<1>1. Reading \in [op : {"show", "get", "set", "clear"}, list : Seq(Words)]
  BY DEF Reading
<1> QED
  BY <1>1 DEF StoreCalls, StoreCall, Reading

\* What is left when nothing is read for the screen any more.
LEMMA RestLeft ==
  ASSUME HistoryTyped
  PROVE  /\ Searches!Rest \in Seq(StoreCalls)
         /\ \A n \in DOMAIN Searches!Rest : \E i \in Searches!Changes :
               Searches!Rest[n] = storageQueue[i]
         /\ Searches!Changes = {} <=> DOMAIN Searches!Rest = {}
         /\ (\A i, j \in Searches!Changes : i = j)
              => \A m, n \in DOMAIN Searches!Rest : m = n
<1> DEFINE C == Searches!Changes
           r == Searches!Rest
           c == Cardinality(C)
<1>1. storageQueue \in Seq(StoreCalls) /\ C \in SUBSET DOMAIN storageQueue /\ r = At(storageQueue, C)
  BY ChangesCounted, SearchesCopies DEF HistoryTyped, QueueTyped, Searches!Rest
<1>2. /\ IsFiniteSet(C) /\ r \in Seq(StoreCalls) /\ Len(r) = c
      /\ \A n \in 1..c : \E i \in C : r[n] = storageQueue[i]
  BY <1>1, AtSelects
<1>3. DOMAIN r = 1..c /\ c \in Nat
  BY <1>2
<1>4. C = {} <=> c = 0
  BY <1>2, FS_EmptySet
<1>5. (\A i, j \in C : i = j) => c <= 1
  <2>1. CASE C = {}
    BY <1>4, <2>1
  <2>2. ASSUME NEW i \in C, \A j, k \in C : j = k PROVE c <= 1
    <3>1. C = {i}
      BY <2>2
    <3> QED
      BY <3>1, FS_Singleton
  <2> QED
    BY <2>1, <2>2
<1> HIDE DEF c, r, C
<1>6. 1..c = {} <=> c = 0
  BY <1>3
<1>7. c <= 1 => \A m, n \in 1..c : m = n
  BY <1>3
<1> QED
  BY <1>2, <1>3, <1>4, <1>5, <1>6, <1>7 DEF C, r

LEMMA RestSame ==
  ASSUME HistoryTyped,
         storageQueue' = Searches!Rest \/ storageQueue' = Append(Searches!Rest, Reading)
  PROVE  /\ QueueTyped' /\ SameChanges
         /\ storageQueue' = Append(Searches!Rest, Reading) => ToBeShown'
<1> DEFINE C == Searches!Changes
           r == Searches!Rest
<1>1. /\ r \in Seq(StoreCalls)
      /\ \A n \in DOMAIN r : \E i \in C : r[n] = storageQueue[i]
      /\ C = {} <=> DOMAIN r = {}
      /\ (\A i, j \in C : i = j) => \A m, n \in DOMAIN r : m = n
  BY RestLeft
<1>2. \A i \in C : storageQueue[i].op # "show"
  BY DEF Searches!Changes
<1>3. C' = {i \in DOMAIN storageQueue' : storageQueue'[i].op # "show"}
  BY DEF Searches!Changes
<1>4. /\ QueueTyped' /\ C' = DOMAIN r
      /\ \A n \in DOMAIN r : storageQueue'[n] = r[n]
      /\ storageQueue' = Append(r, Reading) => ToBeShown'
  <2> HIDE DEF r, C
  <2>1. CASE storageQueue' = r
    <3>1. storageQueue' # Append(r, Reading)
      <4>1. Len(Append(r, Reading)) = Len(r) + 1 /\ Len(r) \in Nat
        BY <1>1
      <4> QED
        BY <2>1, <4>1
    <3> QED
      BY <1>1, <1>2, <1>3, <2>1, <3>1 DEF QueueTyped
  <2>2. CASE storageQueue' = Append(r, Reading)
    <3>1. /\ Append(r, Reading) \in Seq(StoreCalls) /\ Len(r) \in Nat /\ DOMAIN r = 1..Len(r)
          /\ DOMAIN Append(r, Reading) = 1..(Len(r) + 1)
          /\ \A i \in 1..Len(r) : Append(r, Reading)[i] = r[i]
          /\ Append(r, Reading)[Len(r) + 1] = Reading
      BY <1>1, ReadingIsCall, CallsAppended
    <3>2. C' = DOMAIN r
      BY <1>1, <1>2, <1>3, <2>2, <3>1, ReadingIsCall
    <3>3. ToBeShown'
      BY <2>2, <3>1, ReadingIsCall DEF ToBeShown
    <3> QED
      BY <2>2, <3>1, <3>2, <3>3 DEF QueueTyped
  <2> QED
    BY <2>1, <2>2 DEF r
<1> HIDE DEF r, C
<1>5. /\ \A n \in C' : \E i \in C : storageQueue'[n] = storageQueue[i]
      /\ C = {} <=> C' = {}
      /\ (\A i, j \in C : i = j) => \A m, n \in C' : m = n
  BY <1>1, <1>4
<1> QED
  BY <1>4, <1>5 DEF C, r, SameChanges

\* Where the changes stay as they are, the screen is all there is to look at.
LEMMA SameChangesKeep ==
  ASSUME HistoryInductive, HistoryTyped', SameChanges,
         UNCHANGED <<kept, tokens, signedIn, leaving, ideal, historyRaced>>,
         ~historyRaced /\ focused' /\ signedIn => history' = kept \/ ToBeShown'
  PROVE  HistoryInductive'
<1> SUFFICES ASSUME ~historyRaced PROVE Straight'
  BY DEF HistoryInductive
<1>1. (Lone => Lone') /\ (Still <=> Still')
  BY DEF SameChanges, Lone, Still
<1>2. \A c : Leaves(c) => Leaves(c)'
  BY DEF Leaves
<1>3. \A n \in Searches!Changes' : Leaves(storageQueue[n])'
  BY <1>2 DEF SameChanges, HistoryInductive, Straight
<1> QED
  BY <1>1, <1>3 DEF HistoryInductive, Straight

\* One that asks for a change adds it at the end.
LEMMA ChangeQueued ==
  ASSUME QueueTyped, NEW c \in StoreCalls, c.op # "show",
         storageQueue' = Append(storageQueue, c)
  PROVE  /\ QueueTyped' /\ (ToBeShown => ToBeShown')
         /\ \E last : Searches!Changes' = Searches!Changes \cup {last} /\ storageQueue'[last] = c
<1>1. /\ storageQueue' \in Seq(StoreCalls) /\ Len(storageQueue) \in Nat
      /\ DOMAIN storageQueue = 1..Len(storageQueue)
      /\ DOMAIN storageQueue' = 1..(Len(storageQueue) + 1)
      /\ \A i \in 1..Len(storageQueue) : storageQueue'[i] = storageQueue[i]
      /\ storageQueue'[Len(storageQueue) + 1] = c
  BY CallsAppended DEF QueueTyped
<1>2. Searches!Changes' = Searches!Changes \cup {Len(storageQueue) + 1}
  BY <1>1 DEF Searches!Changes
<1>3. ToBeShown => ToBeShown'
  BY <1>1 DEF ToBeShown
<1> QED
  BY <1>1, <1>2, <1>3 DEF QueueTyped

\* The first call answered: the others move up.
LEMMA HeadAnswered ==
  ASSUME QueueTyped, storageQueue # <<>>
  PROVE  /\ Head(storageQueue) \in StoreCalls /\ Head(storageQueue) = storageQueue[1]
         /\ 1 \in DOMAIN storageQueue
         /\ Tail(storageQueue) \in Seq(StoreCalls)
         /\ \A i \in DOMAIN Tail(storageQueue) :
               i + 1 \in DOMAIN storageQueue /\ Tail(storageQueue)[i] = storageQueue[i + 1]
         /\ \A i \in DOMAIN storageQueue : i # 1 =>
               i - 1 \in DOMAIN Tail(storageQueue) /\ Tail(storageQueue)[i - 1] = storageQueue[i]
<1> DEFINE s == storageQueue
           t == Tail(s)
<1>1. s \in Seq(StoreCalls) /\ s # <<>>
  BY DEF QueueTyped
<1>2. /\ Len(s) \in Nat /\ Len(s) > 0 /\ DOMAIN s = 1..Len(s)
      /\ t \in Seq(StoreCalls) /\ Len(t) = Len(s) - 1 /\ DOMAIN t = 1..(Len(s) - 1)
      /\ \A i \in 1..(Len(s) - 1) : t[i] = s[i + 1]
      /\ Head(s) = s[1]
  BY <1>1
<1>3. 1 \in DOMAIN s /\ s[1] \in StoreCalls
  BY <1>1, <1>2
<1> HIDE DEF s, t
<1>4. \A i \in DOMAIN t : i + 1 \in DOMAIN s /\ t[i] = s[i + 1]
  BY <1>2
<1>5. \A i \in DOMAIN s : i # 1 => i - 1 \in DOMAIN t /\ t[i - 1] = s[i]
  BY <1>2
<1> QED
  BY <1>2, <1>3, <1>4, <1>5 DEF s, t

\* If it was a change, and the only one, none is left.
LEMMA ChangeAnswered ==
  ASSUME QueueTyped, storageQueue # <<>>, Head(storageQueue).op # "show"
  PROVE  /\ 1 \in Searches!Changes
         /\ (\A i, j \in Searches!Changes : i = j)
              => \A i \in DOMAIN Tail(storageQueue) : Tail(storageQueue)[i].op = "show"
         /\ ToBeShown => \E i \in DOMAIN Tail(storageQueue) : Tail(storageQueue)[i].op = "show"
<1>1. 1 \in Searches!Changes
  BY HeadAnswered DEF Searches!Changes
<1>2. ASSUME \A i, j \in Searches!Changes : i = j, NEW i \in DOMAIN Tail(storageQueue)
      PROVE  Tail(storageQueue)[i].op = "show"
  <2>1. i \in Nat
    BY HeadAnswered
  <2>2. i + 1 \in DOMAIN storageQueue /\ i + 1 # 1
    BY <2>1, HeadAnswered
  <2>3. Tail(storageQueue)[i] = storageQueue[i + 1]
    BY HeadAnswered
  <2> QED
    BY <1>1, <1>2, <2>2, <2>3 DEF Searches!Changes
<1>3. ASSUME NEW i \in DOMAIN storageQueue, storageQueue[i].op = "show"
      PROVE  i - 1 \in DOMAIN Tail(storageQueue) /\ Tail(storageQueue)[i - 1].op = "show"
  BY <1>3, HeadAnswered
<1> QED
  BY <1>1, <1>2, <1>3 DEF ToBeShown

LEMMA ReadingAnswered ==
  ASSUME QueueTyped, storageQueue # <<>>, Head(storageQueue).op = "show",
         storageQueue' = Tail(storageQueue)
  PROVE  QueueTyped' /\ SameChanges
<1> DEFINE C == Searches!Changes
<1>1. C' = {i \in DOMAIN storageQueue' : storageQueue'[i].op # "show"} /\ 1 \notin C
  BY HeadAnswered DEF Searches!Changes
<1>2. \A n \in C' : n + 1 \in C /\ storageQueue'[n] = storageQueue[n + 1] /\ n \in Int
  <2>1. DOMAIN storageQueue' \in SUBSET Int
    BY HeadAnswered
  <2> QED
    BY <1>1, <2>1, HeadAnswered DEF Searches!Changes
<1>3. \A n \in C : n - 1 \in C'
  <2> SUFFICES ASSUME NEW n \in C PROVE n - 1 \in C'
    OBVIOUS
  <2>1. n \in DOMAIN storageQueue /\ n # 1 /\ storageQueue[n].op # "show"
    BY <1>1 DEF Searches!Changes
  <2> QED
    BY <1>1, <2>1, HeadAnswered
<1> HIDE DEF C
<1>4. C = {} <=> C' = {}
  BY <1>2, <1>3
<1>5. (\A i, j \in C : i = j) => \A m, n \in C' : m = n
  <2> SUFFICES ASSUME \A i, j \in C : i = j, NEW m \in C', NEW n \in C' PROVE m = n
    OBVIOUS
  <2>1. m + 1 = n + 1 /\ m \in Int /\ n \in Int
    BY <1>2
  <2> QED
    BY <2>1
<1>6. QueueTyped'
  BY HeadAnswered DEF QueueTyped
<1>7. \A n \in C' : \E i \in C : storageQueue'[n] = storageQueue[i]
  BY <1>2
<1> QED
  BY <1>4, <1>5, <1>6, <1>7 DEF SameChanges, C

LEMMA EmptyList == WordList(<<>>) /\ <<>> \in Seq(StoreCalls)
<1>1. <<>> \in Seq(Words) /\ Len(<<>>) = 0 /\ DOMAIN <<>> = {}
  OBVIOUS
<1> QED
  BY <1>1, HistoryBounds DEF WordList

LEMMA CallMade ==
  ASSUME NEW op \in {"show", "get", "set", "clear"}, NEW list \in Seq(Words)
  PROVE  /\ Searches!Call(op, list) \in [op : {"show", "get", "set", "clear"}, list : Seq(Words)]
         /\ Searches!Call(op, list).op = op /\ Searches!Call(op, list).list = list
  BY DEF Searches!Call

LEMMA ReadingCall == Searches!Call("show", <<>>) = Reading
  BY DEF Searches!Call, Reading

\* The screen comes and goes: what is read for it is dropped, and read again.
LEMMA ScreenKeeps ==
  ASSUME HistoryInductive, Searches!Focus \/ Searches!Blur
  PROVE  HistoryInductive'
<1>1. /\ storageQueue' = Searches!Rest \/ storageQueue' = Append(Searches!Rest, Reading)
      /\ UNCHANGED <<kept, tokens, signedIn, leaving, ideal, historyRaced>>
      /\ focused' \in BOOLEAN /\ (history' = history \/ history' = <<>>)
      /\ focused' /\ signedIn => storageQueue' = Append(Searches!Rest, Reading)
  BY ReadingCall DEF Searches!Focus, Searches!Blur, Searches!Effect
<1>2. QueueTyped' /\ SameChanges
      /\ (storageQueue' = Append(Searches!Rest, Reading) => ToBeShown')
  BY <1>1, RestSame DEF HistoryInductive
<1>3. HistoryTyped'
  BY <1>1, <1>2, EmptyList DEF HistoryInductive, HistoryTyped
<1> QED
  BY <1>1, <1>2, <1>3, SameChangesKeep

LEMMA ShowKeeps ==
  ASSUME HistoryInductive, Searches!Show
  PROVE  HistoryInductive'
<1>1. QueueTyped' /\ SameChanges
  BY ReadingAnswered DEF Searches!Show, HistoryInductive, HistoryTyped
<1>2. HistoryTyped'
  BY <1>1 DEF Searches!Show, HistoryInductive, HistoryTyped
<1> QED
  BY <1>1, <1>2, SameChangesKeep DEF Searches!Show

\* A search that races with nothing is the one change under way.
LEMMA SubmitKeeps ==
  ASSUME HistoryInductive, NEW w \in Words,
         signedIn, Searches!Race,
         storageQueue' = Append(storageQueue, Searches!Call("get", <<w>>)),
         ideal' = IF historyRaced' THEN <<>> ELSE Searches!WithWord(ideal, w),
         UNCHANGED <<kept, tokens, signedIn, focused, history, leaving>>
  PROVE  HistoryInductive'
<1> DEFINE c == Searches!Call("get", <<w>>)
<1>1. c \in StoreCalls /\ c.op = "get" /\ c.list[1] = w
  <2>1. <<w>> \in Seq(Words) /\ Len(<<w>>) = 1 /\ <<w>>[1] = w
    OBVIOUS
  <2>2. /\ c \in [op : {"show", "get", "set", "clear"}, list : Seq(Words)]
        /\ c.op = "get" /\ c.list = <<w>>
    BY <2>1, CallMade
  <2> QED
    BY <2>1, <2>2 DEF StoreCalls, StoreCall
<1> HIDE DEF c
<1>2. /\ QueueTyped' /\ (ToBeShown => ToBeShown')
      /\ \E last : Searches!Changes' = Searches!Changes \cup {last} /\ storageQueue'[last] = c
  BY <1>1, ChangeQueued DEF HistoryInductive, HistoryTyped, c
<1>3. historyRaced' = (historyRaced \/ ~Still)
  BY ChangesCounted DEF Searches!Race, HistoryInductive
<1>4. HistoryTyped'
  BY <1>2, <1>3 DEF HistoryInductive, HistoryTyped
<1>5. ASSUME ~historyRaced' PROVE Straight'
  <2>1. /\ ~historyRaced /\ leaving = 0 /\ Searches!Changes = {} /\ kept = ideal
        /\ ideal' = Searches!WithWord(kept, w)
    BY <1>3, <1>5 DEF HistoryInductive, Straight, Still
  <2>2. PICK last : Searches!Changes' = {last} /\ storageQueue'[last] = c
    BY <1>2, <2>1
  <2>3. Lone' /\ ~Still'
    BY <2>1, <2>2 DEF Lone, Still
  <2>4. Leaves(c)'
    BY <1>1, <2>1 DEF Leaves
  <2>5. \A i \in Searches!Changes' : Leaves(storageQueue[i])'
    BY <2>2, <2>4
  <2> QED
    BY <1>2, <2>1, <2>3, <2>5 DEF Straight, HistoryInductive
<1> QED
  BY <1>4, <1>5 DEF HistoryInductive

\* Somebody signs in or out: the screen looks again, or shows nothing.
LEMMA SessionKeeps ==
  ASSUME HistoryInductive, Searches!SignIn \/ Searches!LogoutLocal
  PROVE  HistoryInductive'
<1>1. /\ \/ focused /\ storageQueue' = Searches!Rest /\ history' = <<>>
         \/ focused /\ storageQueue' = Append(Searches!Rest, Reading) /\ UNCHANGED history
         \/ ~focused /\ UNCHANGED <<storageQueue, history>>
      /\ focused /\ signedIn' => storageQueue' = Append(Searches!Rest, Reading)
      /\ signedIn' = ~signedIn /\ signedIn \in BOOLEAN
      /\ UNCHANGED <<kept, focused>> /\ tokens' \in BOOLEAN /\ (signedIn' => tokens')
      /\ Searches!Race
      /\ signedIn' => UNCHANGED <<leaving, ideal>>
      /\ ~signedIn' => leaving' = leaving + 1 /\ ideal' = <<>> /\ Searches!Room
  BY ReadingCall
     DEF Searches!SignIn, Searches!LogoutLocal, Searches!Effect, HistoryInductive, HistoryTyped
<1>2. /\ QueueTyped' /\ (Searches!Changes = {} <=> Searches!Changes' = {})
      /\ storageQueue' = Append(Searches!Rest, Reading) => ToBeShown'
  <2>1. CASE ~focused
    <3>1. ToBeShown => ToBeShown'
      BY <1>1, <2>1 DEF ToBeShown
    <3>2. QueueTyped' /\ (Searches!Changes = {} <=> Searches!Changes' = {})
      BY <1>1, <2>1 DEF HistoryInductive, HistoryTyped, QueueTyped, Searches!Changes
    <3>3. storageQueue' = Append(Searches!Rest, Reading) => ToBeShown'
      <4> SUFFICES ASSUME storageQueue' = Append(Searches!Rest, Reading) PROVE ToBeShown'
        OBVIOUS
      <4> QED
        BY RestSame DEF HistoryInductive
    <3> QED
      BY <3>2, <3>3
  <2>2. CASE focused
    BY <1>1, <2>2, RestSame DEF HistoryInductive, SameChanges
  <2> QED
    BY <2>1, <2>2
<1>3. historyRaced' = (historyRaced \/ ~Still)
  BY <1>1, ChangesCounted DEF Searches!Race, HistoryInductive
<1>4. leaving' \in 0..MaxQueue
  <2>1. Len(storageQueue) \in Nat /\ leaving \in Nat
    BY HistoryBounds DEF HistoryInductive, HistoryTyped, QueueTyped
  <2>2. CASE Searches!Room /\ leaving' = leaving + 1
    BY <2>1, <2>2, HistoryBounds DEF Searches!Room
  <2>3. CASE leaving' = leaving
    BY <2>3 DEF HistoryInductive, HistoryTyped
  <2> QED
    BY <1>1, <2>2, <2>3
<1>5. HistoryTyped'
  BY <1>1, <1>2, <1>3, <1>4, EmptyList DEF HistoryInductive, HistoryTyped
<1>6. ~signedIn' \/ historyRaced' => ideal' = <<>>
  BY <1>1, <1>3 DEF HistoryInductive
<1>7. ASSUME ~historyRaced' PROVE Straight'
  <2>1. ~historyRaced /\ leaving = 0 /\ Searches!Changes' = {} /\ kept = ideal
    BY <1>2, <1>3, <1>7 DEF HistoryInductive, Straight, Still
  <2>2. Lone' /\ (leaving' = 1 => ~signedIn')
    BY <1>1, <2>1 DEF Lone
  <2>3. Still' => kept' = ideal'
    BY <1>1, <2>1 DEF Still
  <2> QED
    BY <1>1, <1>2, <2>1, <2>2, <2>3 DEF Straight
<1> QED
  BY <1>5, <1>6, <1>7 DEF HistoryInductive

\* The tokens are gone, and the list is next.
LEMMA ClearTokensKeeps ==
  ASSUME HistoryInductive, Searches!ClearTokens
  PROVE  HistoryInductive'
<1> DEFINE c == Searches!Call("clear", <<>>)
<1>1. c \in StoreCalls /\ c.op = "clear"
  <2>1. /\ c \in [op : {"show", "get", "set", "clear"}, list : Seq(Words)]
        /\ c.op = "clear" /\ c.list = <<>>
    BY CallMade, EmptyList DEF WordList
  <2> QED
    BY <2>1 DEF StoreCalls, StoreCall
<1>2. storageQueue' = Append(storageQueue, c)
  BY DEF Searches!ClearTokens
<1> HIDE DEF c
<1>3. /\ QueueTyped' /\ (ToBeShown => ToBeShown')
      /\ \E last : Searches!Changes' = Searches!Changes \cup {last} /\ storageQueue'[last] = c
  BY <1>1, <1>2, ChangeQueued DEF HistoryInductive, HistoryTyped
<1>4. leaving' \in 0..MaxQueue /\ (leaving = 1 => leaving' = 0) /\ leaving # 0
  BY HistoryBounds DEF Searches!ClearTokens, HistoryInductive, HistoryTyped
<1>5. HistoryTyped'
  BY <1>3, <1>4 DEF Searches!ClearTokens, HistoryInductive, HistoryTyped
<1>6. ASSUME ~historyRaced PROVE Straight'
  <2>1. leaving = 1 /\ leaving' = 0 /\ Searches!Changes = {} /\ ~signedIn
    BY <1>4, <1>6 DEF HistoryInductive, Straight, Lone
  <2>2. PICK last : Searches!Changes' = {last} /\ storageQueue'[last] = c
    BY <1>3, <2>1
  <2>3. Lone' /\ ~Still' /\ Leaves(c)'
    BY <1>1, <2>1, <2>2 DEF Lone, Still, Leaves, Searches!ClearTokens
  <2> QED
    BY <2>1, <2>2, <2>3 DEF Straight, Searches!ClearTokens
<1> QED
  BY <1>5, <1>6 DEF Searches!ClearTokens, HistoryInductive

\* A kill that cuts nothing off leaves the list as it should be.
LEMMA KillKeeps ==
  ASSUME HistoryInductive, Searches!Kill
  PROVE  HistoryInductive'
<1>1. QueueTyped' /\ Searches!Changes' = {}
  BY EmptyList DEF Searches!Kill, QueueTyped, Searches!Changes
<1>2. historyRaced' = (historyRaced \/ ~Still)
  BY ChangesCounted DEF Searches!Kill, Searches!Race, HistoryInductive
<1>3. HistoryTyped'
  <2>1. WordList(kept') /\ WordList(history')
    BY EmptyList DEF Searches!Kill, HistoryInductive, HistoryTyped
  <2>2. leaving' \in 0..MaxQueue
    BY HistoryBounds DEF Searches!Kill
  <2>3. /\ tokens' \in BOOLEAN /\ signedIn' \in BOOLEAN /\ focused' \in BOOLEAN
        /\ historyRaced' \in BOOLEAN
    BY <1>2 DEF Searches!Kill, HistoryInductive, HistoryTyped
  <2> QED
    BY <1>1, <2>1, <2>2, <2>3 DEF HistoryTyped
<1>4. ASSUME ~historyRaced' PROVE Straight'
  <2>1. /\ kept = ideal /\ UNCHANGED <<kept, ideal, tokens>> /\ leaving' = 0
        /\ ~focused' /\ signedIn' = tokens
    BY <1>2, <1>4 DEF Searches!Kill, HistoryInductive, Straight
  <2>2. Lone'
    BY <1>1, <2>1 DEF Lone
  <2> QED
    BY <1>1, <2>1, <2>2 DEF Straight
<1>5. ~signedIn' \/ historyRaced' => ideal' = <<>>
  BY <1>2 DEF Searches!Kill, HistoryInductive, Straight
<1> QED
  BY <1>3, <1>4, <1>5 DEF HistoryInductive

\* The list is read and the one with the word added is to be written, in the same change.
LEMMA ReadKeepsHistory ==
  ASSUME HistoryInductive, Searches!ReadSearchHistory
  PROVE  HistoryInductive'
<1> DEFINE w == Head(storageQueue).list[1]
           c == Searches!Call("set", Searches!WithWord(kept, w))
           t == Tail(storageQueue)
<1>1. QueueTyped /\ storageQueue # <<>> /\ Head(storageQueue).op = "get"
  BY DEF HistoryInductive, HistoryTyped, Searches!ReadSearchHistory
<1>2. /\ Head(storageQueue) \in StoreCalls /\ Head(storageQueue) = storageQueue[1]
      /\ t \in Seq(StoreCalls) /\ 1 \in Searches!Changes
      /\ (\A i, j \in Searches!Changes : i = j) => \A i \in DOMAIN t : t[i].op = "show"
      /\ ToBeShown => \E i \in DOMAIN t : t[i].op = "show"
  BY <1>1, HeadAnswered, ChangeAnswered
<1>3. w \in Words
  <2> DEFINE list == Head(storageQueue).list
  <2>1. list \in Seq(Words) /\ Len(list) = 1
    BY <1>1, <1>2 DEF StoreCalls, StoreCall
  <2> HIDE DEF list
  <2>2. list[1] \in Words
    BY <2>1
  <2> QED
    BY <2>2 DEF list
<1>4. WordList(Searches!WithWord(kept, w))
  BY <1>3, WithWordLists DEF HistoryInductive, HistoryTyped
<1>5. c \in StoreCalls /\ c.op = "set" /\ c.list = Searches!WithWord(kept, w)
  <2>1. /\ c \in [op : {"show", "get", "set", "clear"}, list : Seq(Words)]
        /\ c.op = "set" /\ c.list = Searches!WithWord(kept, w)
    BY <1>4, CallMade DEF WordList
  <2> QED
    BY <1>4, <2>1 DEF StoreCalls, StoreCall
<1>6. storageQueue' = Append(t, c)
  BY DEF Searches!ReadSearchHistory
<1>7. UNCHANGED <<kept, tokens, signedIn, focused, history, leaving, ideal, historyRaced>>
  BY DEF Searches!ReadSearchHistory
<1> HIDE DEF c, t
<1>8. /\ Append(t, c) \in Seq(StoreCalls) /\ Len(t) \in Nat /\ DOMAIN t = 1..Len(t)
      /\ DOMAIN Append(t, c) = 1..(Len(t) + 1)
      /\ \A i \in 1..Len(t) : Append(t, c)[i] = t[i]
      /\ Append(t, c)[Len(t) + 1] = c
  BY <1>2, <1>5, CallsAppended
<1>9. HistoryTyped'
  BY <1>6, <1>7, <1>8 DEF HistoryInductive, HistoryTyped, QueueTyped
<1>10. ToBeShown => ToBeShown'
  BY <1>2, <1>6, <1>8 DEF ToBeShown
<1>11. ASSUME ~historyRaced PROVE Straight'
  <2>1. \A i, j \in Searches!Changes : i = j
    BY <1>11 DEF HistoryInductive, Straight, Lone
  <2>2. leaving = 0 /\ ideal = Searches!WithWord(kept, w)
    BY <1>1, <1>2, <1>11 DEF HistoryInductive, Straight, Lone, Leaves
  <2> HIDE DEF w
  <2>3. Searches!Changes' = {Len(t) + 1} /\ storageQueue'[Len(t) + 1] = c
    BY <1>2, <1>5, <1>6, <1>8, <2>1 DEF Searches!Changes
  <2>4. Lone' /\ ~Still'
    BY <1>7, <2>2, <2>3 DEF Lone, Still
  <2>5. \A d : d = c => Leaves(d)'
    BY <1>5, <1>7, <2>2 DEF Leaves
  <2>6. \A i \in Searches!Changes' : Leaves(storageQueue[i])'
    BY <2>3, <2>5
  <2> QED
    BY <1>7, <1>10, <1>11, <2>4, <2>6 DEF HistoryInductive, Straight
<1> QED
  BY <1>7, <1>9, <1>11 DEF HistoryInductive

\* A change takes effect: alone, it leaves the list that should be there.
LEMMA ChangedKeeps ==
  ASSUME HistoryInductive, Searches!AddSearchHistory \/ Searches!ClearSearchHistory
  PROVE  HistoryInductive'
<1> DEFINE c == Head(storageQueue)
<1>1. /\ QueueTyped /\ storageQueue # <<>> /\ c.op \in {"set", "clear"}
      /\ storageQueue' = Tail(storageQueue)
      /\ UNCHANGED <<tokens, signedIn, focused, leaving, ideal>>
      /\ \/ c.op = "set" /\ kept' = c.list /\ history' = c.list /\ UNCHANGED historyRaced
         \/ /\ c.op = "clear" /\ kept' = <<>> /\ UNCHANGED history
            /\ historyRaced' = (historyRaced /\ (signedIn \/ Searches!Changing > 1))
  BY DEF HistoryInductive, HistoryTyped, Searches!AddSearchHistory, Searches!ClearSearchHistory
<1>2. /\ c \in StoreCalls /\ c = storageQueue[1] /\ 1 \in Searches!Changes /\ QueueTyped'
      /\ (\A i, j \in Searches!Changes : i = j)
            => \A i \in DOMAIN storageQueue' : storageQueue'[i].op = "show"
      /\ ToBeShown => ToBeShown'
  BY <1>1, HeadAnswered, ChangeAnswered DEF QueueTyped, ToBeShown
<1>3. WordList(kept') /\ WordList(history')
  BY <1>1, <1>2, EmptyList DEF StoreCalls, StoreCall, HistoryInductive, HistoryTyped
<1>4. HistoryTyped'
  <2>1. historyRaced' \in BOOLEAN
    BY <1>1 DEF HistoryInductive, HistoryTyped
  <2> QED
    BY <1>1, <1>2, <1>3, <2>1 DEF HistoryInductive, HistoryTyped
<1>5. ~(Searches!Changing > 1) <=> Lone
  BY ChangesCounted DEF HistoryInductive
<1> HIDE DEF c
<1>6. ASSUME ~historyRaced' PROVE Lone /\ kept' = ideal /\ (leaving = 0) /\ (signedIn => tokens)
  <2>1. CASE ~historyRaced
    <3>1. Straight /\ Leaves(c)
      BY <1>2, <2>1 DEF HistoryInductive, Straight
    <3>2. Lone /\ leaving = 0 /\ (signedIn => tokens)
      BY <1>2, <3>1 DEF Straight, Lone
    <3>3. kept' = ideal
      BY <1>1, <3>1 DEF Leaves, HistoryInductive
    <3> QED
      BY <3>2, <3>3
  <2>2. CASE historyRaced
    BY <1>1, <1>2, <1>5, <1>6, <2>2 DEF HistoryInductive, Lone
  <2> QED
    BY <2>1, <2>2 DEF HistoryInductive, HistoryTyped
<1>7. ASSUME ~historyRaced' PROVE Straight'
  <2>1. Searches!Changes' = {}
    BY <1>2, <1>6, <1>7 DEF Searches!Changes, Lone
  <2>2. Lone' /\ kept' = ideal' /\ leaving' = 0 /\ (signedIn' => tokens')
    BY <1>1, <1>6, <1>7, <2>1 DEF Lone
  <2>3. signedIn => history' = kept'
    BY <1>1, <1>2, <1>7 DEF HistoryInductive, Straight, Leaves
  <2> QED
    BY <1>1, <2>1, <2>2, <2>3 DEF Straight
<1>8. ~signedIn' \/ historyRaced' => ideal' = <<>>
  BY <1>1 DEF HistoryInductive
<1> QED
  BY <1>4, <1>7, <1>8 DEF HistoryInductive

LEMMA HistoryInitially == Searches!Init => HistoryInductive
<1> SUFFICES ASSUME Searches!Init PROVE HistoryInductive
  OBVIOUS
<1>1. storageQueue = <<>> /\ Searches!Changes = {}
  BY DEF Searches!Init, Searches!Changes
<1>2. HistoryTyped
  <2>1. QueueTyped /\ WordList(kept) /\ WordList(history)
    BY <1>1, EmptyList DEF Searches!Init, QueueTyped
  <2>2. leaving \in 0..MaxQueue
    BY HistoryBounds DEF Searches!Init
  <2> QED
    BY <2>1, <2>2 DEF Searches!Init, HistoryTyped
<1> QED
  BY <1>1, <1>2 DEF Searches!Init, HistoryInductive, Straight, Lone, Still

LEMMA HistoryUntouched ==
  ASSUME HistoryInductive, UNCHANGED historyVars
  PROVE  HistoryInductive'
<1>1. HistoryTyped' /\ Searches!Changes' = Searches!Changes
  BY DEF historyVars, HistoryInductive, HistoryTyped, QueueTyped, Searches!Changes
<1> QED
  BY <1>1
     DEF historyVars, HistoryInductive, Straight, Lone, Still, Leaves, ToBeShown

LEMMA HistoryNextKeeps ==
  ASSUME HistoryInductive, Searches!Next
  PROVE  HistoryInductive'
<1>1. CASE Searches!SubmitSearch
  <2>1. PICK w \in Words :
           /\ storageQueue' = Append(storageQueue, Searches!Call("get", <<w>>))
           /\ ideal' = IF historyRaced' THEN <<>> ELSE Searches!WithWord(ideal, w)
    BY <1>1 DEF Searches!SubmitSearch, Searches!WithWord
  <2>2. /\ signedIn /\ Searches!Race
        /\ UNCHANGED <<kept, tokens, signedIn, focused, history, leaving>>
    BY <1>1 DEF Searches!SubmitSearch
  <2> QED
    BY <2>1, <2>2, SubmitKeeps
<1> QED
  BY <1>1, ScreenKeeps, SessionKeeps, ClearTokensKeeps, KillKeeps, ShowKeeps, ReadKeepsHistory,
     ChangedKeeps DEF Searches!Next

LEMMA HistoryImplies == HistoryInductive => Searches!HistoryOfSession
<1> SUFFICES ASSUME HistoryInductive, ~historyRaced, Searches!Changing = 0
             PROVE  /\ kept = ideal
                    /\ focused /\ signedIn /\ storageQueue = <<>> => history = kept
  BY DEF Searches!HistoryOfSession
<1>1. Still
  BY ChangesCounted DEF HistoryInductive
<1>2. storageQueue = <<>> => ~ToBeShown
  BY DEF ToBeShown
<1> QED
  BY <1>1, <1>2 DEF HistoryInductive, Straight

------------------------------------------------------------------------------
(* Lists and their pages.                                                  *)

EachOnce(list) == \A i, j \in DOMAIN list : i # j => list[i] # list[j]

\* A list that is sorted has every element once.
LEMMA SortedList ==
  ASSUME NEW S, NEW R, IsFiniteSet(S), IsOrder(S, R)
  PROVE  /\ Sorted(S, R) \in Seq(S) /\ Len(Sorted(S, R)) = Cardinality(S)
         /\ EachOnce(Sorted(S, R))
<1> DEFINE L == Sorted(S, R)
           c == Cardinality(S)
<1>1. /\ c \in Nat /\ L \in [1..c -> S]
      /\ \A m, n \in 1..c : m < n => <<L[m], L[n]>> \in R
  BY SortedSorts
<1> HIDE DEF L, c
<1>2. L \in Seq(S) /\ Len(L) = c /\ DOMAIN L = 1..c
  BY <1>1
<1>3. \A i, j \in 1..c : i < j => L[i] # L[j]
  BY <1>1 DEF IsOrder
<1>4. \A i, j \in 1..c : i # j => L[i] # L[j]
  BY <1>1, <1>3
<1> QED
  BY <1>2, <1>4 DEF L, c, EachOnce

\* Selecting every position selects the whole sequence.
LEMMA AtWhole ==
  ASSUME NEW T, NEW s \in Seq(T)
  PROVE  At(s, DOMAIN s) = s
<1> DEFINE n == Len(s)
           D == 1..n
<1>1. n \in Nat /\ DOMAIN s = D /\ s = [i \in D |-> s[i]]
  OBVIOUS
<1> HIDE DEF n
<1>2. IsFiniteSet(D) /\ Cardinality(D) = n
  <2>1. 1 \in Int /\ n \in Int /\ (1 > n <=> n = 0) /\ n - 1 + 1 = n
    BY <1>1
  <2> QED
    BY <2>1, FS_Interval
<1>3. \A x \in D : Cardinality({y \in D : <<y, x>> \in {p \in D \X D : p[1] < p[2]}}) = x - 1
  <2> SUFFICES ASSUME NEW x \in D
               PROVE  Cardinality({y \in D : <<y, x>> \in {p \in D \X D : p[1] < p[2]}}) = x - 1
    OBVIOUS
  <2>1. {y \in D : <<y, x>> \in {p \in D \X D : p[1] < p[2]}} = 1..(x - 1)
    BY <1>1
  <2>2. x - 1 \in Nat
    BY <1>1
  <2>3. Cardinality(1..(x - 1)) = x - 1
    BY <2>2, FS_Interval
  <2> QED
    BY <2>1, <2>3
<1>4. ASSUME NEW m \in D PROVE Ascending(D)[m] = m
  <2>1. Ascending(D)[m] = CHOOSE x \in D : Place(D, {p \in D \X D : p[1] < p[2]}, x) = m - 1
    BY <1>2 DEF Ascending, Sorted, Place, Before
  <2>2. \A x \in D : Place(D, {p \in D \X D : p[1] < p[2]}, x) = x - 1
    BY <1>3 DEF Place, Before
  <2>3. \A x \in D : Place(D, {p \in D \X D : p[1] < p[2]}, x) = m - 1 <=> x = m
    BY <1>1, <2>2
  <2> QED
    BY <2>1, <2>3
<1>5. At(s, D) = [i \in D |-> s[Ascending(D)[i]]]
  BY <1>2 DEF At
<1> QED
  BY <1>1, <1>4, <1>5

LEMMA SameSequence ==
  ASSUME NEW T, NEW s \in Seq(T), NEW t \in Seq(T), Len(s) = Len(t),
         \A i \in 1..Len(s) : s[i] = t[i]
  PROVE  s = t
  OBVIOUS

LEMMA Joined ==
  ASSUME NEW T, NEW s \in Seq(T), NEW t \in Seq(T)
  PROVE  /\ s \o t \in Seq(T) /\ Len(s \o t) = Len(s) + Len(t)
         /\ \A i \in 1..(Len(s) + Len(t)) :
               (s \o t)[i] = IF i <= Len(s) THEN s[i] ELSE t[i - Len(s)]
  OBVIOUS

Bounded(a, b) == IF a < b THEN a ELSE b

\* The positions of what one list has and the other has not.
NotIn(list, other) ==
  {i \in DOMAIN list : list[i] \notin {other[j] : j \in DOMAIN other}}

\* The page that follows the first ones completes them, and none of it is there already.
LEMMA PagesJoin ==
  ASSUME NEW T, NEW L \in Seq(T), EachOnce(L),
         NEW a \in Nat, NEW b \in Nat, a <= b
  PROVE  SubSeq(L, 1, Bounded(Len(L), a))
           \o At(SubSeq(L, a + 1, Bounded(Len(L), b)),
                 NotIn(SubSeq(L, a + 1, Bounded(Len(L), b)), SubSeq(L, 1, Bounded(Len(L), a))))
           = SubSeq(L, 1, Bounded(Len(L), b))
<1> DEFINE first == SubSeq(L, 1, Bounded(Len(L), a))
           next == SubSeq(L, a + 1, Bounded(Len(L), b))
           n == Len(L)
           lo == Bounded(n, a)
           hi == Bounded(n, b)
<1>1. n \in Nat /\ DOMAIN L = 1..n
  OBVIOUS
<1>2. first = SubSeq(L, 1, lo) /\ next = SubSeq(L, a + 1, hi)
  OBVIOUS
<1>3. (lo = IF n < a THEN n ELSE a) /\ (hi = IF n < b THEN n ELSE b)
  BY DEF Bounded
<1> HIDE DEF lo, hi, first, next
<1>4. \A m \in 0..n : /\ SubSeq(L, 1, m) \in Seq(T) /\ Len(SubSeq(L, 1, m)) = m
                      /\ DOMAIN SubSeq(L, 1, m) = 1..m
                      /\ \A i \in 1..m : SubSeq(L, 1, m)[i] = L[i]
  OBVIOUS
<1>5. \A k, m \in 0..n : k <= m =>
         /\ SubSeq(L, k + 1, m) \in Seq(T) /\ Len(SubSeq(L, k + 1, m)) = m - k
         /\ DOMAIN SubSeq(L, k + 1, m) = 1..(m - k)
         /\ \A i \in 1..(m - k) : SubSeq(L, k + 1, m)[i] = L[k + i]
  OBVIOUS
<1>6. n < a => SubSeq(L, a + 1, n) = <<>>
  OBVIOUS
<1> HIDE DEF n
<1>7. lo \in 0..n /\ hi \in 0..n /\ lo <= hi
  BY <1>1, <1>3
<1>8. /\ first \in Seq(T) /\ Len(first) = lo /\ DOMAIN first = 1..lo
      /\ \A i \in 1..lo : first[i] = L[i]
  BY <1>2, <1>4, <1>7
<1>9. /\ next \in Seq(T) /\ Len(next) = hi - lo /\ DOMAIN next = 1..(hi - lo)
      /\ \A i \in 1..(hi - lo) : next[i] = L[lo + i]
  <2>1. CASE ~(n < a)
    <3>1. lo = a
      BY <1>3, <2>1
    <3>2. next = SubSeq(L, lo + 1, hi)
      BY <1>2, <3>1
    <3>3. /\ SubSeq(L, lo + 1, hi) \in Seq(T) /\ Len(SubSeq(L, lo + 1, hi)) = hi - lo
          /\ DOMAIN SubSeq(L, lo + 1, hi) = 1..(hi - lo)
          /\ \A i \in 1..(hi - lo) : SubSeq(L, lo + 1, hi)[i] = L[lo + i]
      BY <1>5, <1>7
    <3> QED
      BY <3>2, <3>3
  <2>2. CASE n < a
    <3>1. lo = n /\ hi = n
      BY <1>1, <1>3, <2>2
    <3>2. next = <<>>
      BY <1>2, <1>6, <2>2, <3>1
    <3>3. <<>> \in Seq(T) /\ Len(<<>>) = 0 /\ DOMAIN <<>> = 1..0 /\ 1..0 = {}
      OBVIOUS
    <3>4. hi - lo = 0
      BY <1>1, <3>1
    <3> QED
      BY <3>1, <3>2, <3>3, <3>4
  <2> QED
    BY <2>1, <2>2
<1>10. \A i \in DOMAIN next : next[i] \notin {first[j] : j \in DOMAIN first}
  <2>1. ASSUME NEW i \in 1..(hi - lo), NEW j \in 1..lo PROVE next[i] # first[j]
    <3>1. lo + i \in 1..n /\ j \in 1..n /\ lo + i # j
      BY <1>1, <1>7
    <3>2. L[lo + i] # L[j]
      BY <1>1, <3>1 DEF EachOnce
    <3>3. next[i] = L[lo + i] /\ first[j] = L[j]
      BY <1>8, <1>9
    <3> QED
      BY <3>2, <3>3
  <2>2. DOMAIN next = 1..(hi - lo) /\ DOMAIN first = 1..lo
    BY <1>8, <1>9
  <2> QED
    BY <2>1, <2>2
<1>11. NotIn(next, first) = DOMAIN next
  BY <1>10 DEF NotIn
<1>12. At(next, DOMAIN next) = next
  BY <1>9, AtWhole
<1>13. first \o next = SubSeq(L, 1, hi)
  <2>1. /\ first \o next \in Seq(T) /\ Len(first \o next) = Len(first) + Len(next)
        /\ \A i \in 1..(Len(first) + Len(next)) :
              (first \o next)[i] = IF i <= Len(first) THEN first[i] ELSE next[i - Len(first)]
    <3>1. first \in Seq(T) /\ next \in Seq(T)
      BY <1>8, <1>9
    <3> QED
      BY <3>1, Joined
  <2>2. /\ first \o next \in Seq(T) /\ Len(first \o next) = hi
        /\ \A i \in 1..hi : (first \o next)[i] = IF i <= lo THEN first[i] ELSE next[i - lo]
    <3>1. lo + (hi - lo) = hi
      BY <1>1, <1>7
    <3> QED
      BY <1>8, <1>9, <2>1, <3>1
  <2>3. \A i \in 1..hi : (first \o next)[i] = L[i]
    <3> SUFFICES ASSUME NEW i \in 1..hi PROVE (first \o next)[i] = L[i]
      OBVIOUS
    <3>1. CASE i <= lo
      BY <1>1, <1>7, <1>8, <2>2, <3>1
    <3>2. CASE ~(i <= lo)
      <4>1. i - lo \in 1..(hi - lo) /\ lo + (i - lo) = i
        BY <1>1, <1>7, <3>2
      <4> QED
        BY <1>9, <2>2, <3>2, <4>1
    <3> QED
      BY <3>1, <3>2
  <2>4. /\ SubSeq(L, 1, hi) \in Seq(T) /\ Len(SubSeq(L, 1, hi)) = hi
        /\ \A i \in 1..hi : SubSeq(L, 1, hi)[i] = L[i]
    BY <1>4, <1>7
  <2>5. /\ first \o next \in Seq(T) /\ SubSeq(L, 1, hi) \in Seq(T)
        /\ Len(first \o next) = Len(SubSeq(L, 1, hi))
        /\ \A i \in 1..Len(first \o next) : (first \o next)[i] = SubSeq(L, 1, hi)[i]
    BY <2>2, <2>3, <2>4
  <2> QED
    BY <2>5, SameSequence
<1> QED
  BY <1>11, <1>12, <1>13 DEF hi, n, first, next

------------------------------------------------------------------------------
(* The orders of the product list (products.service.ts).  The last column  *)
(* of each is the identifier, so that no two products have the same rank.  *)

Higher(x, y) ==
  \E i \in DOMAIN x : x[i] > y[i] /\ \A j \in 1..(i - 1) : x[j] = y[j]

LEMMA HigherPair ==
  ASSUME NEW a \in Int, NEW b \in Int, NEW c \in Int, NEW d \in Int
  PROVE  Higher(<<a, b>>, <<c, d>>) <=> a > c \/ (a = c /\ b > d)
<1>1. DOMAIN <<a, b>> = {1, 2} /\ 1..(1 - 1) = {} /\ 1..(2 - 1) = {1}
  OBVIOUS
<1> QED
  BY <1>1 DEF Higher

LEMMA HigherTriple ==
  ASSUME NEW a \in Int, NEW b \in Int, NEW e \in Int, NEW c \in Int, NEW d \in Int, NEW f \in Int
  PROVE  Higher(<<a, b, e>>, <<c, d, f>>)
           <=> a > c \/ (a = c /\ b > d) \/ (a = c /\ b = d /\ e > f)
<1>1. /\ DOMAIN <<a, b, e>> = {1, 2, 3}
      /\ 1..(1 - 1) = {} /\ 1..(2 - 1) = {1} /\ 1..(3 - 1) = {1, 2}
  OBVIOUS
<1> QED
  BY <1>1 DEF Higher

Columns(q, f, g, h) ==
  /\ f \in [Products -> Int] /\ g \in [Products -> Int] /\ h \in [Products -> Int]
  /\ \A a, b \in Products : h[a] = h[b] => a = b
  /\ \A a, b \in Products :
        Paging!Precedes(q, a, b)
          <=> f[a] > f[b] \/ (f[a] = f[b] /\ g[a] > g[b])
                \/ (f[a] = f[b] /\ g[a] = g[b] /\ h[a] > h[b])

LEMMA PairColumns ==
  ASSUME NEW q, NEW f \in [Products -> Int], NEW g \in [Products -> Int],
         \A p \in Products : Paging!Rank(q, p) = <<f[p], g[p]>>,
         \A a, b \in Products : g[a] = g[b] => a = b
  PROVE  Columns(q, f, g, g)
<1> SUFFICES ASSUME NEW a \in Products, NEW b \in Products
             PROVE  Paging!Precedes(q, a, b) <=> f[a] > f[b] \/ (f[a] = f[b] /\ g[a] > g[b])
  BY DEF Columns
<1>1. Paging!Precedes(q, a, b) <=> Higher(Paging!Rank(q, a), Paging!Rank(q, b))
  BY DEF Paging!Precedes, Higher
<1>2. f[a] \in Int /\ f[b] \in Int /\ g[a] \in Int /\ g[b] \in Int
  OBVIOUS
<1> QED
  BY <1>1, <1>2, HigherPair

LEMMA TripleColumns ==
  ASSUME NEW q, NEW f \in [Products -> Int], NEW g \in [Products -> Int],
         NEW h \in [Products -> Int],
         \A p \in Products : Paging!Rank(q, p) = <<f[p], g[p], h[p]>>,
         \A a, b \in Products : h[a] = h[b] => a = b
  PROVE  Columns(q, f, g, h)
<1> SUFFICES ASSUME NEW a \in Products, NEW b \in Products
             PROVE  Paging!Precedes(q, a, b)
                      <=> f[a] > f[b] \/ (f[a] = f[b] /\ g[a] > g[b])
                            \/ (f[a] = f[b] /\ g[a] = g[b] /\ h[a] > h[b])
  BY DEF Columns
<1>1. Paging!Precedes(q, a, b) <=> Higher(Paging!Rank(q, a), Paging!Rank(q, b))
  BY DEF Paging!Precedes, Higher
<1>2. /\ f[a] \in Int /\ f[b] \in Int /\ g[a] \in Int /\ g[b] \in Int
      /\ h[a] \in Int /\ h[b] \in Int
  OBVIOUS
<1> QED
  BY <1>1, <1>2, HigherTriple

LEMMA RankHasColumns ==
  ASSUME NEW q, sales \in [Products -> Int]
  PROVE  \E f, g, h : Columns(q, f, g, h)
<1> DEFINE Id == [p \in Products |-> p]
           Down == [p \in Products |-> -p]
<1>1. /\ Id \in [Products -> Int] /\ \A a, b \in Products : Id[a] = Id[b] => a = b
      /\ Down \in [Products -> Int] /\ \A a, b \in Products : Down[a] = Down[b] => a = b
  BY ProductsOrdered
<1>2. CASE q.keyword # None
  <2> DEFINE f == [p \in Products |-> IF p \in Prefixed[q.keyword] THEN 1 ELSE 0]
  <2>1. f \in [Products -> Int]
    OBVIOUS
  <2>2. \A p \in Products : Paging!Rank(q, p) = <<f[p], sales[p], Id[p]>>
    BY <1>2 DEF Paging!Rank
  <2> HIDE DEF f, Id
  <2>3. Id \in [Products -> Int] /\ \A a, b \in Products : Id[a] = Id[b] => a = b
    BY <1>1
  <2>4. Columns(q, f, sales, Id)
    BY <2>1, <2>2, <2>3, TripleColumns
  <2> QED
    BY <2>4
<1>3. CASE q.keyword = None /\ q.sort = "price_desc"
  <2> DEFINE f == [p \in Products |-> Price[p]]
  <2>1. f \in [Products -> Int] /\ \A p \in Products : Paging!Rank(q, p) = <<f[p], Id[p]>>
    BY <1>3, ColumnsFilled DEF Paging!Rank
  <2> HIDE DEF f, Id
  <2> QED
    BY <1>1, <2>1, PairColumns
<1>4. CASE q.keyword = None /\ q.sort = "price_asc"
  <2> DEFINE f == [p \in Products |-> -Price[p]]
  <2>1. f \in [Products -> Int] /\ \A p \in Products : Paging!Rank(q, p) = <<f[p], Down[p]>>
    BY <1>4, ColumnsFilled DEF Paging!Rank
  <2> HIDE DEF f, Down
  <2> QED
    BY <1>1, <2>1, PairColumns
<1>5. CASE q.keyword = None /\ q.sort = "sales"
  <2>1. \A p \in Products : Paging!Rank(q, p) = <<sales[p], Id[p]>>
    BY <1>5 DEF Paging!Rank
  <2> HIDE DEF Id
  <2> QED
    BY <1>1, <2>1, PairColumns
<1>6. CASE q.keyword = None /\ q.sort = "newest"
  <2> DEFINE f == [p \in Products |-> CreatedAt[p]]
  <2>1. f \in [Products -> Int] /\ \A p \in Products : Paging!Rank(q, p) = <<f[p], Id[p]>>
    BY <1>6, ColumnsFilled DEF Paging!Rank
  <2> HIDE DEF f, Id
  <2> QED
    BY <1>1, <2>1, PairColumns
<1>7. CASE q.keyword = None /\ q.sort \notin {"price_desc", "price_asc", "sales", "newest"}
  <2> DEFINE g == [p \in Products |-> CreatedAt[p]]
  <2>1. g \in [Products -> Int]
    BY ColumnsFilled
  <2>2. \A p \in Products : Paging!Rank(q, p) = <<sales[p], g[p], Id[p]>>
    BY <1>7 DEF Paging!Rank
  <2> HIDE DEF g, Id
  <2>3. Id \in [Products -> Int] /\ \A a, b \in Products : Id[a] = Id[b] => a = b
    BY <1>1
  <2>4. Columns(q, sales, g, Id)
    BY <2>1, <2>2, <2>3, TripleColumns
  <2> QED
    BY <2>4
<1> QED
  BY <1>2, <1>3, <1>4, <1>5, <1>6, <1>7

ByRank(q) == {p \in Products \X Products : Paging!Precedes(q, p[1], p[2])}

LEMMA RankOrders ==
  ASSUME NEW q, sales \in [Products -> Int], NEW S \in SUBSET Products
  PROVE  IsFiniteSet(S) /\ IsOrder(S, ByRank(q))
<1>1. PICK f, g, h : Columns(q, f, g, h)
  BY RankHasColumns
<1>2. \A a, b \in Products : <<a, b>> \in ByRank(q)
        <=> f[a] > f[b] \/ (f[a] = f[b] /\ g[a] > g[b])
              \/ (f[a] = f[b] /\ g[a] = g[b] /\ h[a] > h[b])
  BY <1>1 DEF ByRank, Columns
<1>3. /\ \A a \in Products : f[a] \in Int /\ g[a] \in Int /\ h[a] \in Int
      /\ \A a, b \in Products : h[a] = h[b] => a = b
  BY <1>1 DEF Columns
<1>4. \A a \in S : <<a, a>> \notin ByRank(q)
  BY <1>2, <1>3
<1>5. \A a, b \in S : a # b => <<a, b>> \in ByRank(q) \/ <<b, a>> \in ByRank(q)
  <2> SUFFICES ASSUME NEW a \in Products, NEW b \in Products, a # b
               PROVE  <<a, b>> \in ByRank(q) \/ <<b, a>> \in ByRank(q)
    OBVIOUS
  <2>1. h[a] > h[b] \/ h[b] > h[a]
    BY <1>3
  <2> QED
    BY <1>2, <1>3, <2>1
<1>6. \A a, b, c \in S :
         <<a, b>> \in ByRank(q) /\ <<b, c>> \in ByRank(q) => <<a, c>> \in ByRank(q)
  <2> SUFFICES ASSUME NEW a \in Products, NEW b \in Products, NEW c \in Products,
                      <<a, b>> \in ByRank(q), <<b, c>> \in ByRank(q)
               PROVE  <<a, c>> \in ByRank(q)
    OBVIOUS
  <2> QED
    BY <1>2, <1>3
<1> QED
  BY <1>4, <1>5, <1>6, ProductsOrdered, FS_Subset DEF IsOrder

\* The instances have their own copies of what they extend.
LEMMA ListCopies ==
  /\ \A S, R : Paging!Sorted(S, R) = Sorted(S, R) /\ OrderList!Sorted(S, R) = Sorted(S, R)
  /\ \A s, I : Paging!At(s, I) = At(s, I) /\ OrderList!At(s, I) = At(s, I)
<1>1. \A S : Paging!Cardinality(S) = Cardinality(S) /\ OrderList!Cardinality(S) = Cardinality(S)
  BY DEF Paging!Cardinality, OrderList!Cardinality, Cardinality
<1>2. \A S, R : Paging!Sorted(S, R) = Sorted(S, R)
  BY DEF Paging!Sorted, Sorted, Paging!Cardinality, Cardinality
<1>3. \A S, R : OrderList!Sorted(S, R) = Sorted(S, R)
  BY DEF OrderList!Sorted, Sorted, OrderList!Cardinality, Cardinality
<1>4. \A S : Paging!Ascending(S) = Ascending(S) /\ OrderList!Ascending(S) = Ascending(S)
  BY <1>2, <1>3 DEF Paging!Ascending, OrderList!Ascending, Ascending
<1>5. \A s, I : Paging!At(s, I) = At(s, I)
  BY <1>1, <1>4 DEF Paging!At, At
<1>6. \A s, I : OrderList!At(s, I) = At(s, I)
  BY <1>1, <1>4 DEF OrderList!At, At
<1> QED
  BY <1>2, <1>3, <1>5, <1>6

LEMMA LeastOfTwo ==
  ASSUME NEW x \in Int, NEW y \in Int
  PROVE  Paging!Min({x, y}) = Bounded(x, y) /\ OrderList!Min({x, y}) = Bounded(x, y)
<1>1. \A m \in {x, y} : (\A k \in {x, y} : m <= k) <=> m = Bounded(x, y)
  BY DEF Bounded
<1>2. Bounded(x, y) \in {x, y}
  BY DEF Bounded
<1>3. (CHOOSE m \in {x, y} : \A k \in {x, y} : m <= k) = Bounded(x, y)
  BY <1>1, <1>2
<1> QED
  BY <1>3 DEF Paging!Min, OrderList!Min

------------------------------------------------------------------------------
(* The pages of the product list (useProductPagination.ts:45-96): what is  *)
(* shown is what the requests have brought, and nothing is missing while   *)
(* the catalogue stays as it was.                                          *)

FirstOf(list, n) == SubSeq(list, 1, Bounded(Len(list), n * PageSize))

Following(list, n) ==
  SubSeq(list, (n + 1 - 1) * PageSize + 1, Bounded(Len(list), (n + 1) * PageSize))

LEMMA NextPage ==
  ASSUME NEW T, NEW L \in Seq(T), EachOnce(L), NEW n \in Nat \ {0}
  PROVE  FirstOf(L, n) \o At(Following(L, n), NotIn(Following(L, n), FirstOf(L, n)))
           = FirstOf(L, n + 1)
<1> DEFINE a == n * PageSize
           b == (n + 1) * PageSize
<1>1. a \in Nat /\ b \in Nat /\ a <= b /\ (n + 1 - 1) * PageSize = a
  BY PageSizePositive
<1>2. /\ FirstOf(L, n) = SubSeq(L, 1, Bounded(Len(L), a))
      /\ Following(L, n) = SubSeq(L, a + 1, Bounded(Len(L), b))
      /\ FirstOf(L, n + 1) = SubSeq(L, 1, Bounded(Len(L), b))
  BY <1>1 DEF FirstOf, Following
<1> HIDE DEF a, b
<1> QED
  BY <1>1, <1>2, PagesJoin

LEMMA ProductListing ==
  ASSUME NEW q, sales \in [Products -> Int]
  PROVE  /\ Paging!Listing(q) \in Seq(Products)
         /\ EachOnce(Paging!Listing(q))
<1> DEFINE S == Paging!Matching(q)
<1>1. S \in SUBSET Products
  BY DEF Paging!Matching
<1>2. Paging!Listing(q) = Sorted(S, ByRank(q))
  BY ListCopies DEF Paging!Listing, ByRank
<1>3. IsFiniteSet(S) /\ IsOrder(S, ByRank(q))
  BY <1>1, RankOrders
<1> HIDE DEF S
<1>4. /\ Sorted(S, ByRank(q)) \in Seq(S)
      /\ EachOnce(Sorted(S, ByRank(q)))
  BY <1>3, SortedList
<1> QED
  BY <1>1, <1>2, <1>4

LEMMA PageFacts ==
  ASSUME NEW L \in Seq(Products), NEW n \in Nat \ {0}
  PROVE  /\ Paging!PageOf(L, n) \in Seq(Products)
         /\ Paging!PageOf(L, n)
              = SubSeq(L, (n - 1) * PageSize + 1, Bounded(Len(L), n * PageSize))
         /\ n = 1 => Paging!PageOf(L, n) = FirstOf(L, 1)
         /\ n = 1 /\ Paging!PageOf(L, n) = <<>> => Len(L) = 0
<1>1. /\ PageSize \in Nat /\ PageSize > 0 /\ Len(L) \in Nat
      /\ n * PageSize \in Nat /\ (n - 1) * PageSize \in Nat
  BY PageSizePositive
<1>2. Paging!PageOf(L, n) = SubSeq(L, (n - 1) * PageSize + 1, Bounded(Len(L), n * PageSize))
  <2>1. Paging!Min({Len(L), n * PageSize}) = Bounded(Len(L), n * PageSize)
    BY <1>1, LeastOfTwo
  <2> QED
    BY <2>1 DEF Paging!PageOf
<1>3. Bounded(Len(L), n * PageSize) \in 0..Len(L)
  BY <1>1 DEF Bounded
<1>4. \A k \in Nat, m \in 0..Len(L) : SubSeq(L, k + 1, m) \in Seq(Products)
  OBVIOUS
<1>5. Paging!PageOf(L, n) \in Seq(Products)
  BY <1>1, <1>2, <1>3, <1>4
<1>6. ASSUME n = 1
      PROVE  /\ Paging!PageOf(L, n) = FirstOf(L, 1)
             /\ Paging!PageOf(L, n) = <<>> => Len(L) = 0
  <2>1. (n - 1) * PageSize + 1 = 1 /\ n * PageSize = 1 * PageSize /\ 1 * PageSize = PageSize
    BY <1>1, <1>6
  <2>2. Paging!PageOf(L, n) = SubSeq(L, 1, Bounded(Len(L), PageSize))
    BY <1>2, <2>1
  <2>3. Bounded(Len(L), PageSize) \in 0..Len(L) /\ (Bounded(Len(L), PageSize) = 0 => Len(L) = 0)
    BY <1>1 DEF Bounded
  <2>4. Len(SubSeq(L, 1, Bounded(Len(L), PageSize))) = Bounded(Len(L), PageSize)
    BY <2>3
  <2> QED
    BY <2>1, <2>2, <2>3, <2>4 DEF FirstOf
<1> QED
  BY <1>2, <1>5, <1>6

LEMMA FollowingPage ==
  ASSUME NEW L \in Seq(Products), NEW n \in Nat
  PROVE  Paging!PageOf(L, n + 1) = Following(L, n)
<1>1. PICK m \in Nat \ {0} : m = n + 1
  OBVIOUS
<1>2. Paging!PageOf(L, m) = SubSeq(L, (m - 1) * PageSize + 1, Bounded(Len(L), m * PageSize))
  BY PageFacts
<1>3. (m - 1) * PageSize = (n + 1 - 1) * PageSize /\ m * PageSize = (n + 1) * PageSize
  BY <1>1
<1> QED
  BY <1>1, <1>2, <1>3 DEF Following

LEMMA AnswerFacts ==
  ASSUME NEW q, NEW n \in Nat \ {0}, sales \in [Products -> Int]
  PROVE  /\ Paging!List(q, n).items \in Seq(Products) /\ Paging!List(q, n).total \in Nat
         /\ Paging!List(q, n).page \in Nat \ {0} /\ Paging!List(q, n).version = version
         /\ n = 1 /\ Paging!List(q, n).items = <<>> => Paging!List(q, n).total = 0
         /\ ~Paging!IsFallback(q) =>
               /\ Paging!List(q, n).items = Paging!PageOf(Paging!Listing(q), n)
               /\ Paging!List(q, n).page = n
<1> DEFINE put == IF Paging!IsFallback(q) THEN Paging!Recommended ELSE q
           given == IF Paging!IsFallback(q) THEN 1 ELSE n
           L == Paging!Listing(put)
<1>1. L \in Seq(Products) /\ Len(L) \in Nat /\ given \in Nat \ {0}
  <2>1. L \in Seq(Products)
    BY ProductListing
  <2> QED
    BY <2>1
<1>2. Paging!List(q, n) = [items |-> Paging!PageOf(L, given), page |-> given,
                           total |-> Len(L), version |-> version]
  BY DEF Paging!List
<1>3. n = 1 => given = 1
  OBVIOUS
<1>4. ~Paging!IsFallback(q) => L = Paging!Listing(q) /\ given = n
  OBVIOUS
<1> HIDE DEF L, given
<1>5. /\ Paging!PageOf(L, given) \in Seq(Products)
      /\ given = 1 /\ Paging!PageOf(L, given) = <<>> => Len(L) = 0
  BY <1>1, PageFacts
<1> QED
  BY <1>1, <1>2, <1>3, <1>4, <1>5

\* What the list endpoint would answer changes with the catalogue only.
LEMMA SameCatalogue ==
  ASSUME UNCHANGED <<sales, onSale, version>>
  PROVE  /\ \A q : Paging!Listing(q)' = Paging!Listing(q)
         /\ \A q : Paging!IsFallback(q)' <=> Paging!IsFallback(q)
         /\ \A q, n : Paging!List(q, n)' = Paging!List(q, n)
<1>1. \A q : Paging!Matching(q)' = Paging!Matching(q)
  BY DEF Paging!Matching
<1>2. \A q, a, b : Paging!Precedes(q, a, b)' <=> Paging!Precedes(q, a, b)
  <2>1. \A q, a : Paging!Rank(q, a)' = Paging!Rank(q, a)
    BY DEF Paging!Rank
  <2> QED
    BY <2>1 DEF Paging!Precedes
<1>3. \A q : Paging!Listing(q)' = Paging!Listing(q)
  <2> SUFFICES ASSUME NEW q PROVE Paging!Listing(q)' = Paging!Listing(q)
    OBVIOUS
  <2>1. ByRank(q)' = ByRank(q)
    BY <1>2 DEF ByRank
  <2>2. Paging!Listing(q) = Sorted(Paging!Matching(q), ByRank(q))
    BY ListCopies DEF Paging!Listing, ByRank
  <2>3. Paging!Listing(q)' = Sorted(Paging!Matching(q)', ByRank(q)')
    BY ListCopies DEF Paging!Listing, ByRank
  <2> QED
    BY <1>1, <2>1, <2>2, <2>3
<1>4. \A q : Paging!IsFallback(q)' <=> Paging!IsFallback(q)
  BY <1>1 DEF Paging!IsFallback
<1>5. \A q, n : Paging!List(q, n)' = Paging!List(q, n)
  <2> SUFFICES ASSUME NEW q, NEW n PROVE Paging!List(q, n)' = Paging!List(q, n)
    OBVIOUS
  <2> DEFINE put == IF Paging!IsFallback(q) THEN Paging!Recommended ELSE q
             given == IF Paging!IsFallback(q) THEN 1 ELSE n
             answer(L, g, v) == [items |-> Paging!PageOf(L, g), page |-> g,
                                 total |-> Len(L), version |-> v]
  <2>1. Paging!List(q, n) = answer(Paging!Listing(put), given, version)
    BY DEF Paging!List
  <2>2. Paging!List(q, n)' = answer(Paging!Listing(put)', given', version')
    BY DEF Paging!List
  <2>3. put' = put /\ given' = given
    BY <1>4
  <2> HIDE DEF put, given, answer
  <2>4. Paging!Listing(put)' = Paging!Listing(put)
    BY <1>3, <2>3
  <2> QED
    BY <2>1, <2>2, <2>3, <2>4
<1> QED
  BY <1>3, <1>4, <1>5

Catalogued ==
  /\ sales \in [Products -> Nat] /\ \A p \in Products : sales[p] <= version
  /\ onSale \in [Products -> BOOLEAN] /\ version \in 0..MaxChanges

Displayed ==
  /\ query \in Paging!Queries \cup {None}
  /\ items \in Seq(Products) /\ page \in Nat \ {0} /\ total \in Nat
  /\ served \subseteq 0..version
  /\ error \in {"none", "visible", "dismissed"} /\ spin \subseteq Paging!Modes
  /\ served = {} => items = <<>> /\ total = 0
  /\ items = <<>> => total = 0

\* The request that counts asks for what the screen stands for.
Requested ==
  newest # None =>
     /\ calls[newest].query = query /\ query \in Paging!Queries
     /\ calls[newest].mode = "more" =>
           calls[newest].page = page + 1 /\ served # {} /\ items # <<>>
     /\ calls[newest].mode # "more" => calls[newest].page = 1

\* An answer is that of its version of the catalogue.
Answered(c) ==
  /\ c.answer.items \in Seq(Products) /\ c.answer.total \in Nat /\ c.answer.page \in Nat \ {0}
  /\ c.answer.version \in 0..version
  /\ c.answer.version = version => c.answer = Paging!List(c.query, c.page)
  /\ c.page = 1 /\ c.answer.items = <<>> => c.answer.total = 0

Answers ==
  \A r \in Requests :
     /\ calls[r].stage \in {"free", "sent", "served"}
     /\ calls[r].stage # "free" => calls[r].page \in Nat \ {0}
     /\ calls[r].stage = "served" => Answered(calls[r])

Seen == ~view.busy => view.page = page /\ view.more = Paging!HasMore

Asking ==
  query # None /\ served = {} /\ error = "none" => spin \cap {"initial", "refresh"} # {}

Complete ==
  query # None /\ served = {version} /\ ~Paging!IsFallback(query)
    => items = FirstOf(Paging!Listing(query), page)

PagesInductive ==
  /\ PagingInductive /\ Catalogued /\ Displayed /\ Requested /\ Answers
  /\ Seen /\ Asking /\ Complete

LEMMA PagesImply == PagesInductive => Paging!NothingSkipped /\ Paging!HonestEmpty
<1> SUFFICES ASSUME PagesInductive PROVE Paging!NothingSkipped /\ Paging!HonestEmpty
  OBVIOUS
<1>1. sales \in [Products -> Int] /\ page * PageSize \in Int
  BY PageSizePositive DEF PagesInductive, Catalogued, Displayed
<1>2. \A q : Len(Paging!Listing(q)) \in Int
  <2> SUFFICES ASSUME NEW q PROVE Len(Paging!Listing(q)) \in Int
    OBVIOUS
  <2>1. Paging!Listing(q) \in Seq(Products)
    BY <1>1, ProductListing
  <2> QED
    BY <2>1
<1>3. \A q : Paging!Min({Len(Paging!Listing(q)), page * PageSize})
               = Bounded(Len(Paging!Listing(q)), page * PageSize)
  BY <1>1, <1>2, LeastOfTwo
<1>4. Paging!NothingSkipped
  BY <1>3 DEF Paging!NothingSkipped, PagesInductive, Complete, FirstOf
<1>5. Paging!HonestEmpty
  BY DEF Paging!HonestEmpty, PagesInductive, Asking, Displayed
<1> QED
  BY <1>4, <1>5

LEMMA CompleteStays ==
  ASSUME Complete, UNCHANGED <<sales, onSale, version, query, items, page, served>>
  PROVE  Complete'
<1>1. Paging!Listing(query)' = Paging!Listing(query)
      /\ (Paging!IsFallback(query)' <=> Paging!IsFallback(query))
  BY SameCatalogue
<1> QED
  BY <1>1 DEF Complete, FirstOf

LEMMA AnsweredStays ==
  ASSUME UNCHANGED <<sales, onSale, version>>, NEW c, Answered(c)
  PROVE  Answered(c)'
<1>1. Paging!List(c.query, c.page)' = Paging!List(c.query, c.page)
  BY SameCatalogue
<1> QED
  BY <1>1 DEF Answered

LEMMA PagesInitially == Paging!Init => PagesInductive
<1> SUFFICES ASSUME Paging!Init PROVE PagesInductive
  OBVIOUS
<1>1. PagingInductive
  BY PagingInitially
<1>2. Catalogued
  BY ChangesCount DEF Paging!Init, Catalogued
<1>3. Paging!Recommended \in Paging!Queries
  BY HomeSort DEF Paging!Recommended, Paging!Queries
<1>4. items = <<>> /\ page = 1 /\ total = 0 /\ error = "none" /\ served = {}
  BY DEF Paging!Init
<1>5. Seen /\ Complete
  BY <1>4 DEF Paging!Init, Seen, Complete, Paging!Rendered
<1>6. CASE newest = None
  BY <1>1, <1>2, <1>4, <1>5, <1>6, NoneIsNoCaller
     DEF Paging!Init, PagesInductive, Displayed, Requested, Answers, Asking, Paging!Free
<1>7. CASE newest # None
  <2> DEFINE call == [Paging!Free EXCEPT !.stage = "sent", !.mode = "initial",
                                  !.page = 1, !.query = Paging!Recommended]
  <2>1. PICK r \in Requests :
           /\ newest = r /\ query = Paging!Recommended /\ spin = {"initial"}
           /\ calls = [s \in Requests |-> IF s = r THEN call ELSE Paging!Free]
    BY <1>7 DEF Paging!Init
  <2>2. /\ call.stage = "sent" /\ call.mode = "initial" /\ call.page = 1
        /\ call.query = Paging!Recommended /\ Paging!Free.stage = "free"
    BY DEF Paging!Free
  <2> HIDE DEF call
  <2>3. Displayed /\ Asking
    BY <1>3, <1>4, <2>1 DEF Displayed, Asking, Paging!Modes
  <2>4. Requested /\ Answers
    BY <1>3, <2>1, <2>2 DEF Requested, Answers
  <2> QED
    BY <1>1, <1>2, <1>5, <2>3, <2>4 DEF PagesInductive
<1> QED
  BY <1>6, <1>7

LEMMA PagesUntouched ==
  ASSUME PagesInductive, UNCHANGED pagingVars
  PROVE  PagesInductive'
<1>1. PagingInductive'
  BY PagingUntouched DEF pagingVars, PagesInductive
<1>2. Complete'
  BY CompleteStays DEF pagingVars, PagesInductive
<1>3. Answers'
  BY AnsweredStays DEF pagingVars, PagesInductive, Answers
<1> QED
  BY <1>1, <1>2, <1>3
     DEF pagingVars, PagesInductive, Catalogued, Displayed, Requested, Seen, Asking, Paging!HasMore

LEMMA PagesScreenKeep ==
  ASSUME PagesInductive, Paging!DismissError \/ Paging!Render
  PROVE  PagesInductive'
<1>1. /\ UNCHANGED <<sales, onSale, version, calls, newest, query, items, page, total, spin,
                     loadingMore, served>>
      /\ \/ UNCHANGED view /\ error' = "dismissed"
         \/ view' = Paging!Rendered /\ UNCHANGED error
  BY DEF Paging!DismissError, Paging!Render, Paging!catalogue, Paging!shown
<1>2. PagingInductive'
  BY <1>1, PagingUntouched DEF PagesInductive
<1>3. Complete'
  BY <1>1, CompleteStays DEF PagesInductive
<1>4. Answers'
  BY <1>1, AnsweredStays DEF PagesInductive, Answers
<1>5. Catalogued' /\ Displayed' /\ Requested' /\ Asking'
  BY <1>1 DEF PagesInductive, Catalogued, Displayed, Requested, Asking
<1>6. Seen'
  BY <1>1 DEF PagesInductive, Seen, Paging!Rendered, Paging!HasMore
<1> QED
  BY <1>2, <1>3, <1>4, <1>5, <1>6 DEF PagesInductive

\* A request that starts asks for what the screen will stand for.
LEMMA RequestStarts ==
  ASSUME PagesInductive, NEW r \in Requests, NEW n \in Nat \ {0}, NEW mode \in Paging!Modes,
         Paging!LoadPage(r, query', n, mode), UNCHANGED <<sales, onSale, version>>,
         query' \in Paging!Queries,
         mode = "more" => n = page' + 1 /\ served' # {} /\ items' # <<>>,
         mode # "more" => n = 1
  PROVE  PagingInductive' /\ Catalogued' /\ Requested' /\ Answers' /\ spin' = spin \cup {mode}
<1> DEFINE call == [Paging!Free EXCEPT !.stage = "sent", !.mode = mode,
                                         !.page = n, !.query = query']
<1>1. /\ calls' = [calls EXCEPT ![r] = call] /\ newest' = r /\ spin' = spin \cup {mode}
  BY DEF Paging!LoadPage
<1>2. call.stage = "sent" /\ call.mode = mode /\ call.page = n /\ call.query = query'
  BY DEF Paging!Free
<1>3. \A s \in Requests : calls'[s] = IF s = r THEN call ELSE calls[s]
  BY <1>1 DEF PagesInductive, PagingInductive, PagingShape
<1> HIDE DEF call
<1>4. PagingInductive'
  BY PagingLoadKeeps DEF PagesInductive
<1>5. Catalogued'
  BY DEF PagesInductive, Catalogued
<1>6. Requested'
  BY <1>1, <1>2, <1>3 DEF Requested
<1>7. Answers'
  BY <1>2, <1>3, AnsweredStays DEF PagesInductive, Answers
<1> QED
  BY <1>1, <1>4, <1>5, <1>6, <1>7

\* Another order or keyword: the screen is empty, and the new request is its own.
LEMMA QueryKeeps ==
  ASSUME PagesInductive, NEW r \in Requests,
         (\E q \in Paging!Queries : Paging!NewQuery(r, q)) \/ Paging!SearchAgain(r)
  PROVE  PagesInductive'
<1>1. /\ query' \in Paging!Queries /\ Paging!LoadPage(r, query', 1, "initial")
      /\ UNCHANGED <<sales, onSale, version>>
      /\ items' = <<>> /\ page' = 1 /\ total' = 0 /\ error' = "none" /\ served' = {}
      /\ view' = [page |-> 1, more |-> FALSE, busy |-> TRUE]
  BY DEF Paging!NewQuery, Paging!SearchAgain, Paging!catalogue, PagesInductive, Displayed
<1>2. /\ PagingInductive' /\ Catalogued' /\ Requested' /\ Answers'
      /\ spin' = spin \cup {"initial"}
  BY <1>1, RequestStarts DEF Paging!Modes
<1>3. Displayed' /\ Asking'
  BY <1>1, <1>2 DEF Displayed, Asking, PagesInductive, Paging!Modes
<1>4. Seen' /\ Complete'
  BY <1>1 DEF Seen, Complete
<1> QED
  BY <1>2, <1>3, <1>4 DEF PagesInductive

LEMMA MoreKeeps ==
  ASSUME PagesInductive, NEW r \in Requests,
         Paging!Refresh(r) \/ Paging!Retry(r) \/ Paging!LoadMore(r)
  PROVE  PagesInductive'
<1>1. /\ UNCHANGED <<sales, onSale, version, query, items, page, total, served, view>>
      /\ query \in Paging!Queries /\ (error' = error \/ error' = "dismissed")
  BY DEF Paging!Refresh, Paging!Retry, Paging!LoadMore, Paging!catalogue, Paging!shown,
         PagesInductive, Displayed
<1>2. PICK n \in Nat \ {0}, mode \in Paging!Modes :
         /\ Paging!LoadPage(r, query, n, mode)
         /\ mode = "more" => n = page + 1 /\ served # {} /\ items # <<>>
         /\ mode # "more" => n = 1
  <2>1. CASE Paging!LoadMore(r)
    <3>1. view.page = page /\ Paging!HasMore
      BY <2>1 DEF Paging!LoadMore, PagesInductive, Seen
    <3>2. served # {} /\ items # <<>>
      <4>1. Len(<<>>) = 0 /\ ~(0 < 0)
        OBVIOUS
      <4> QED
        BY <3>1, <4>1 DEF Paging!HasMore, PagesInductive, Displayed
    <3>3. page + 1 \in Nat \ {0}
      BY DEF PagesInductive, Displayed
    <3> QED
      BY <2>1, <3>1, <3>2, <3>3 DEF Paging!LoadMore, Paging!Modes
  <2>2. CASE Paging!Refresh(r) \/ Paging!Retry(r)
    <3>1. 1 \in Nat \ {0} /\ "initial" \in Paging!Modes /\ "refresh" \in Paging!Modes
      BY DEF Paging!Modes
    <3> QED
      BY <2>2, <3>1 DEF Paging!Refresh, Paging!Retry
  <2> QED
    BY <2>1, <2>2
<1>3. PagingInductive' /\ Catalogued' /\ Requested' /\ Answers' /\ spin' = spin \cup {mode}
  BY <1>1, <1>2, RequestStarts
<1>4. Displayed' /\ Asking'
  BY <1>1, <1>3 DEF Displayed, Asking, PagesInductive
<1>5. Seen' /\ Complete'
  BY <1>1, CompleteStays DEF Seen, PagesInductive, Paging!HasMore
<1> QED
  BY <1>3, <1>4, <1>5 DEF PagesInductive

LEMMA ServeKeepsPages ==
  ASSUME PagesInductive, NEW r \in Requests, Paging!Serve(r)
  PROVE  PagesInductive'
<1> DEFINE answer == Paging!List(calls[r].query, calls[r].page)
           call == [calls[r] EXCEPT !.stage = "served", !.answer = answer]
<1>1. /\ calls' = [calls EXCEPT ![r] = call] /\ calls[r].stage = "sent"
      /\ UNCHANGED <<sales, onSale, version, newest, query, items, page, total, error, served,
                     spin, loadingMore, view>>
  BY DEF Paging!Serve, Paging!catalogue, Paging!shown, PagesInductive, PagingInductive, PagingShape
<1>2. /\ call.stage = "served" /\ call.mode = calls[r].mode /\ call.page = calls[r].page
      /\ call.query = calls[r].query /\ call.answer = answer
  BY DEF PagesInductive, PagingInductive, PagingShape, Paging!Free
<1>3. \A s \in Requests : calls'[s] = IF s = r THEN call ELSE calls[s]
  BY <1>1 DEF PagesInductive, PagingInductive, PagingShape
<1>4. PagingInductive'
  BY PagingServeKeeps DEF PagesInductive
<1> HIDE DEF call
<1>5. Answered(call)
  <2>1. call.page \in Nat \ {0} /\ sales \in [Products -> Int]
    BY <1>1, <1>2 DEF PagesInductive, Answers, Catalogued
  <2>2. answer = Paging!List(call.query, call.page)
    BY <1>2
  <2>3. /\ answer.items \in Seq(Products) /\ answer.total \in Nat
        /\ answer.page \in Nat \ {0} /\ answer.version = version
        /\ call.page = 1 /\ answer.items = <<>> => answer.total = 0
    BY <2>1, <2>2, AnswerFacts
  <2>4. version \in 0..version
    BY DEF PagesInductive, Catalogued
  <2> HIDE DEF answer
  <2> QED
    BY <1>2, <2>2, <2>3, <2>4 DEF Answered
<1>6. \A c : Answered(c) => Answered(c)'
  BY <1>1, AnsweredStays
<1>7. Answers'
  <2> SUFFICES ASSUME NEW s \in Requests
               PROVE  /\ calls'[s].stage \in {"free", "sent", "served"}
                      /\ calls'[s].stage # "free" => calls'[s].page \in Nat \ {0}
                      /\ calls'[s].stage = "served" => Answered(calls[s])'
    BY DEF Answers
  <2>1. CASE s = r
    <3>1. PICK c : c = call
      OBVIOUS
    <3>2. Answered(c)' /\ calls'[s] = c
      BY <1>3, <1>5, <1>6, <2>1, <3>1
    <3>3. Answered(calls[s])'
      BY <3>2 DEF Answered
    <3> QED
      BY <1>1, <1>2, <2>1, <3>1, <3>2, <3>3 DEF PagesInductive, Answers
  <2>2. CASE s # r
    <3>1. PICK c : c = calls[s]
      OBVIOUS
    <3>2. calls'[s] = c
      BY <1>3, <2>2, <3>1
    <3>3. c.stage = "served" => Answered(c)'
      BY <1>6, <3>1 DEF PagesInductive, Answers
    <3>4. c.stage = "served" => Answered(calls[s])'
      BY <3>2, <3>3 DEF Answered
    <3> QED
      BY <3>1, <3>2, <3>4 DEF PagesInductive, Answers
  <2> QED
    BY <2>1, <2>2
<1>8. Requested'
  BY <1>1, <1>2, <1>3 DEF PagesInductive, PagingInductive, PagingShape, Requested
<1>9. Catalogued' /\ Displayed' /\ Seen' /\ Asking'
  BY <1>1 DEF PagesInductive, Catalogued, Displayed, Seen, Asking, Paging!HasMore
<1>10. Complete'
  BY <1>1, CompleteStays DEF PagesInductive
<1> QED
  BY <1>4, <1>7, <1>8, <1>9, <1>10 DEF PagesInductive

\* A request that ends leaves the others as they are, and the screen looked at.
LEMMA RequestEnds ==
  ASSUME PagesInductive, NEW r \in Requests, Paging!Ended(r),
         view = Paging!Rendered, UNCHANGED <<sales, onSale, version, query, view>>
  PROVE  /\ PagingInductive' /\ Catalogued' /\ Answers' /\ spin' \subseteq Paging!Modes
         /\ r = newest => newest' = None /\ view.busy
         /\ r # newest => /\ UNCHANGED <<newest, spin>>
                          /\ newest # None => newest \in Requests /\ calls'[newest] = calls[newest]
<1>1. \A s \in Requests : calls'[s] = IF s = r THEN Paging!Free ELSE calls[s]
  BY DEF Paging!Ended, PagesInductive, PagingInductive, PagingShape
<1>2. PagingInductive'
  BY PagingEndedKeeps DEF PagesInductive
<1>3. Answers'
  <2> SUFFICES ASSUME NEW s \in Requests
               PROVE  /\ calls'[s].stage \in {"free", "sent", "served"}
                      /\ calls'[s].stage # "free" => calls'[s].page \in Nat \ {0}
                      /\ calls'[s].stage = "served" => Answered(calls[s])'
    BY DEF Answers
  <2>1. CASE s = r
    BY <1>1, <2>1 DEF Paging!Free
  <2>2. CASE s # r
    <3>1. PICK c : c = calls[s]
      OBVIOUS
    <3>2. calls'[s] = c
      BY <1>1, <2>2, <3>1
    <3>3. c.stage = "served" => Answered(c)'
      BY <3>1, AnsweredStays DEF PagesInductive, Answers
    <3>4. c.stage = "served" => Answered(calls[s])'
      BY <3>2, <3>3 DEF Answered
    <3> QED
      BY <3>1, <3>2, <3>4 DEF PagesInductive, Answers
  <2> QED
    BY <2>1, <2>2
<1>4. Catalogued'
  BY DEF PagesInductive, Catalogued
<1>5. spin' \subseteq Paging!Modes
  BY DEF Paging!Ended, PagesInductive, Displayed
<1>6. r = newest => newest' = None /\ view.busy
  BY NoneIsNoCaller
     DEF Paging!Ended, Paging!Rendered, PagesInductive, PagingInductive, PagingBookkeeping
<1>7. r # newest => /\ UNCHANGED <<newest, spin>>
                    /\ newest # None => newest \in Requests /\ calls'[newest] = calls[newest]
  BY <1>1 DEF Paging!Ended, PagesInductive, PagingInductive, PagingShape
<1> QED
  BY <1>2, <1>3, <1>4, <1>5, <1>6, <1>7

\* One that does not count changes nothing on the screen.
LEMMA SupersededKeeps ==
  ASSUME PagesInductive, NEW r \in Requests, Paging!Ended(r), r # newest,
         view = Paging!Rendered,
         UNCHANGED <<sales, onSale, version, query, view, items, page, total, error, served>>
  PROVE  PagesInductive'
<1>1. /\ PagingInductive' /\ Catalogued' /\ Answers' /\ UNCHANGED <<newest, spin>>
      /\ newest # None => newest \in Requests /\ calls'[newest] = calls[newest]
  BY RequestEnds
<1>2. Requested'
  BY <1>1 DEF PagesInductive, Requested
<1>3. Displayed' /\ Seen' /\ Asking' /\ Complete'
  BY <1>1, CompleteStays DEF PagesInductive, Displayed, Seen, Asking, Paging!HasMore
<1> QED
  BY <1>1, <1>2, <1>3 DEF PagesInductive

LEMMA FailKeepsPages ==
  ASSUME PagesInductive, NEW r \in Requests, Paging!FailRequest(r)
  PROVE  PagesInductive'
<1>1. /\ Paging!Ended(r) /\ view = Paging!Rendered
      /\ UNCHANGED <<sales, onSale, version, query, view, items, page, total, served>>
      /\ error' = (IF r = newest THEN "visible" ELSE error)
  BY DEF Paging!FailRequest, Paging!catalogue
<1>2. CASE r # newest
  BY <1>1, <1>2, SupersededKeeps
<1>3. CASE r = newest
  <2>1. /\ PagingInductive' /\ Catalogued' /\ Answers' /\ spin' \subseteq Paging!Modes
        /\ newest' = None /\ view.busy
    BY <1>1, <1>3, RequestEnds
  <2>2. Displayed' /\ Asking' /\ Requested' /\ Seen' /\ Complete'
    BY <1>1, <1>3, <2>1, CompleteStays
       DEF PagesInductive, Displayed, Asking, Requested, Seen
  <2> QED
    BY <2>1, <2>2 DEF PagesInductive
<1> QED
  BY <1>2, <1>3

\* The answer of the request that counts: the first page, or the one after those shown.
LEMMA ReceiveKeepsPages ==
  ASSUME PagesInductive, NEW r \in Requests, Paging!Receive(r)
  PROVE  PagesInductive'
<1> DEFINE data == calls[r].answer
           mode == calls[r].mode
<1>1. /\ Paging!Ended(r) /\ view = Paging!Rendered /\ calls[r].stage = "served"
      /\ UNCHANGED <<sales, onSale, version, query, view>>
      /\ r # newest => UNCHANGED <<items, page, total, error, served>>
      /\ r = newest =>
            /\ error' = "none" /\ total' = data.total /\ page' = data.page
            /\ items' = (IF mode = "more" THEN items \o Paging!Fresh(data.items) ELSE data.items)
            /\ served' = (IF mode = "more" THEN served \cup {data.version} ELSE {data.version})
  BY DEF Paging!Receive, Paging!catalogue, Paging!shown
<1>2. CASE r # newest
  BY <1>1, <1>2, SupersededKeeps
<1>3. CASE r = newest
  <2>1. /\ PagingInductive' /\ Catalogued' /\ Answers' /\ spin' \subseteq Paging!Modes
        /\ newest' = None /\ view.busy
    BY <1>1, <1>3, RequestEnds
  <2>2. /\ Answered(calls[r]) /\ calls[r].query = query /\ query \in Paging!Queries
        /\ mode = "more" => calls[r].page = page + 1 /\ served # {} /\ items # <<>>
        /\ mode # "more" => calls[r].page = 1
        /\ page \in Nat \ {0} /\ items \in Seq(Products) /\ served \subseteq 0..version
        /\ calls[r].page \in Nat \ {0} /\ sales \in [Products -> Int]
    BY <1>1, <1>3, NoneIsNoCaller
       DEF PagesInductive, Requested, Answers, Displayed, Catalogued
  <2>3. /\ data.items \in Seq(Products) /\ data.total \in Nat /\ data.page \in Nat \ {0}
        /\ data.version \in 0..version
        /\ data.version = version => data = Paging!List(query, calls[r].page)
        /\ calls[r].page = 1 /\ data.items = <<>> => data.total = 0
    BY <2>2 DEF Answered
  <2> DEFINE fresh == Paging!Fresh(data.items)
  <2>4. fresh = At(data.items, NotIn(data.items, items))
    BY ListCopies DEF Paging!Fresh, Paging!ToSet, NotIn
  <2>5. fresh \in Seq(Products)
    <3>1. NotIn(data.items, items) \in SUBSET DOMAIN data.items
      BY DEF NotIn
    <3> QED
      BY <2>3, <2>4, <3>1, AtSelects
  <2> HIDE DEF data, mode, fresh
  <2>6. /\ items' \in Seq(Products) /\ served' # {}
        /\ items' = <<>> => data.total = 0
    <3>1. CASE mode = "more"
      <4>1. \A s, t \in Seq(Products) : s # <<>> => s \o t \in Seq(Products) /\ s \o t # <<>>
        OBVIOUS
      <4> QED
        BY <1>1, <1>3, <2>2, <2>5, <3>1, <4>1 DEF fresh
    <3>2. CASE mode # "more"
      BY <1>1, <1>3, <2>2, <2>3, <3>2
    <3> QED
      BY <3>1, <3>2
  <2>7. Displayed'
    <3>1. served' \subseteq 0..version'
      BY <1>1, <1>3, <2>2, <2>3
    <3> QED
      BY <1>1, <1>3, <2>1, <2>2, <2>3, <2>6, <3>1 DEF Displayed
  <2>8. Complete'
    <3> SUFFICES ASSUME query # None, served' = {version'}, ~Paging!IsFallback(query)'
                 PROVE  items' = FirstOf(Paging!Listing(query)', page')
      BY <1>1 DEF Complete, FirstOf
    <3> DEFINE L == Paging!Listing(query)
    <3>1. L' = L /\ ~Paging!IsFallback(query)
      BY <1>1, SameCatalogue
    <3>2. L \in Seq(Products) /\ EachOnce(L)
      BY <2>2, ProductListing
    <3>3. data.version = version /\ (mode = "more" => served = {version})
      BY <1>1, <1>3, <2>2
    <3>4. data.items = Paging!PageOf(L, calls[r].page) /\ data.page = calls[r].page
      BY <2>2, <2>3, <3>1, <3>3, AnswerFacts
    <3> HIDE DEF L
    <3>5. CASE mode # "more"
      <4>1. data.items = FirstOf(L, 1) /\ data.page = 1
        BY <2>2, <3>2, <3>4, <3>5, PageFacts
      <4> QED
        BY <1>1, <1>3, <3>1, <3>5, <4>1 DEF L
    <3>6. CASE mode = "more"
      <4>1. calls[r].page = page + 1 /\ page + 1 \in Nat \ {0}
        BY <2>2, <3>6
      <4>2. items = FirstOf(L, page)
        BY <2>2, <3>1, <3>3, <3>6 DEF PagesInductive, Complete, L
      <4>3. data.items = Following(L, page) /\ data.page = page + 1
        <5>1. Paging!PageOf(L, page + 1) = Following(L, page)
          BY <2>2, <3>2, FollowingPage
        <5> QED
          BY <3>4, <4>1, <5>1
      <4>4. items \o At(data.items, NotIn(data.items, items)) = FirstOf(L, page + 1)
        <5>1. PICK n \in Nat \ {0} : n = page
          BY <2>2
        <5>2. FirstOf(L, n) \o At(Following(L, n), NotIn(Following(L, n), FirstOf(L, n)))
                = FirstOf(L, n + 1)
          BY <3>2, NextPage
        <5> QED
          BY <4>2, <4>3, <5>1, <5>2
      <4> QED
        BY <1>1, <1>3, <2>4, <3>1, <3>6, <4>3, <4>4 DEF L, fresh
    <3> QED
      BY <3>5, <3>6
  <2>9. Requested' /\ Seen' /\ Asking'
    BY <1>1, <2>1, <2>6 DEF Requested, Seen, Asking
  <2> QED
    BY <2>1, <2>7, <2>8, <2>9 DEF PagesInductive
<1> QED
  BY <1>2, <1>3

\* A change of the catalogue: what was read before it is no longer at its version.
LEMMA ChangeKeepsPages ==
  ASSUME PagesInductive, NEW p \in Products, Paging!Sell(p) \/ Paging!ToggleOnSale(p)
  PROVE  PagesInductive'
<1>1. /\ version' = version + 1 /\ version < MaxChanges /\ version \in Nat
      /\ UNCHANGED <<calls, newest, query, items, page, total, error, served, spin, loadingMore,
                     view>>
  BY ChangesCount
     DEF Paging!Sell, Paging!ToggleOnSale, Paging!Change, Paging!shown, PagesInductive, Catalogued
<1>2. PagingInductive'
  BY <1>1, PagingUntouched DEF PagesInductive
<1>3. Catalogued'
  <2>1. version' \in 0..MaxChanges
    BY <1>1, ChangesCount
  <2>2. sales' \in [Products -> Nat] /\ \A s \in Products : sales'[s] <= version'
    BY <1>1 DEF Paging!Sell, Paging!ToggleOnSale, PagesInductive, Catalogued
  <2>3. onSale' \in [Products -> BOOLEAN]
    BY DEF Paging!Sell, Paging!ToggleOnSale, PagesInductive, Catalogued
  <2> QED
    BY <2>1, <2>2, <2>3 DEF Catalogued
<1>4. \A v \in 0..version : v \in 0..version' /\ v # version'
  BY <1>1
<1>5. Answers'
  <2>1. \A c : Answered(c) => Answered(c)'
    BY <1>4 DEF Answered
  <2> QED
    BY <1>1, <2>1 DEF PagesInductive, Answers
<1>6. Displayed' /\ Complete'
  BY <1>1, <1>4 DEF PagesInductive, Displayed, Complete
<1>7. Requested' /\ Seen' /\ Asking'
  BY <1>1 DEF PagesInductive, Requested, Seen, Asking, Paging!HasMore
<1> QED
  BY <1>2, <1>3, <1>5, <1>6, <1>7 DEF PagesInductive

LEMMA PagesNextKeep ==
  ASSUME PagesInductive, Paging!Next
  PROVE  PagesInductive'
<1>1. ASSUME NEW r \in Requests, NEW q \in Paging!Queries, Paging!NewQuery(r, q)
      PROVE  PagesInductive'
  BY <1>1, QueryKeeps
<1>2. ASSUME NEW r \in Requests,
             \/ Paging!SearchAgain(r) \/ Paging!Refresh(r) \/ Paging!Retry(r) \/ Paging!LoadMore(r)
             \/ Paging!Serve(r) \/ Paging!Receive(r) \/ Paging!FailRequest(r)
      PROVE  PagesInductive'
  BY <1>2, QueryKeeps, MoreKeeps, ServeKeepsPages, ReceiveKeepsPages, FailKeepsPages
<1> QED
  BY <1>1, <1>2, PagesScreenKeep, ChangeKeepsPages DEF Paging!Next

------------------------------------------------------------------------------
(* The pages of the order list (useOrderPagination.ts), by the same        *)
(* argument.  A handler that was rendered before a silent reload may ask   *)
(* for a page other than the next one: that is what `late` is about.       *)

NewestFirst == {p \in Orders \X Orders : p[1] > p[2]}

LEMMA OrderListing ==
  ASSUME NEW t
  PROVE  /\ OrderList!Listing(t) \in Seq(Orders) /\ Len(OrderList!Listing(t)) \in Nat
         /\ EachOnce(OrderList!Listing(t))
<1> DEFINE S == OrderList!OfTab(t)
<1>1. S \in SUBSET Orders
  BY DEF OrderList!OfTab
<1>2. OrderList!Listing(t) = Sorted(S, NewestFirst)
  BY ListCopies DEF OrderList!Listing, NewestFirst
<1> HIDE DEF S
<1>3. IsFiniteSet(S) /\ IsOrder(S, NewestFirst)
  <2>1. \A o \in S : o \in Orders /\ o \in Nat
    BY <1>1, OrdersOrdered
  <2>2. \A a, b \in S : <<a, b>> \in NewestFirst <=> a > b
    BY <2>1 DEF NewestFirst
  <2>3. IsOrder(S, NewestFirst)
    BY <2>1, <2>2 DEF IsOrder
  <2> QED
    BY <1>1, <2>3, OrdersOrdered, FS_Subset
<1>4. Sorted(S, NewestFirst) \in Seq(S) /\ EachOnce(Sorted(S, NewestFirst))
  BY <1>3, SortedList
<1>5. \A s \in Seq(S) : s \in Seq(Orders) /\ Len(s) \in Nat
  BY <1>1
<1> QED
  BY <1>2, <1>4, <1>5

OrderPageOf(list, n) ==
  SubSeq(list, (n - 1) * PageSize + 1, Bounded(Len(list), n * PageSize))

LEMMA OrderAnswer ==
  ASSUME NEW t, NEW n \in Nat \ {0}
  PROVE  /\ OrderList!List(t, n).items = OrderPageOf(OrderList!Listing(t), n)
         /\ OrderList!List(t, n).items \in Seq(Orders)
         /\ OrderList!List(t, n).total \in Nat /\ OrderList!List(t, n).page = n
         /\ OrderList!List(t, n).version = orderVersion
<1> DEFINE L == OrderList!Listing(t)
<1>1. L \in Seq(Orders) /\ Len(L) \in Nat
  BY OrderListing
<1>2. OrderList!List(t, n)
        = [items |-> SubSeq(L, (n - 1) * PageSize + 1,
                            OrderList!Min({Len(L), n * PageSize})),
           page |-> n, total |-> Len(L), version |-> orderVersion]
  BY DEF OrderList!List
<1> HIDE DEF L
<1>3. n * PageSize \in Nat /\ (n - 1) * PageSize \in Nat
  BY PageSizePositive
<1>4. OrderList!Min({Len(L), n * PageSize}) = Bounded(Len(L), n * PageSize)
  <2>1. Len(L) \in Int /\ n * PageSize \in Int
    BY <1>1, <1>3
  <2> QED
    BY <2>1, LeastOfTwo
<1>5. Bounded(Len(L), n * PageSize) \in 0..Len(L)
  BY <1>1, <1>3 DEF Bounded
<1>6. \A k \in Nat, m \in 0..Len(L) : SubSeq(L, k + 1, m) \in Seq(Orders)
  BY <1>1
<1>7. OrderPageOf(L, n) \in Seq(Orders)
  BY <1>3, <1>5, <1>6 DEF OrderPageOf
<1>8. OrderList!List(t, n)
        = [items |-> OrderPageOf(L, n), page |-> n, total |-> Len(L), version |-> orderVersion]
  BY <1>2, <1>4 DEF OrderPageOf
<1>9. /\ OrderList!List(t, n).items = OrderPageOf(L, n)
      /\ OrderList!List(t, n).items \in Seq(Orders)
      /\ OrderList!List(t, n).total \in Nat /\ OrderList!List(t, n).page = n
      /\ OrderList!List(t, n).version = orderVersion
  BY <1>1, <1>7, <1>8
<1> QED
  BY <1>9 DEF L

LEMMA OrderPages ==
  ASSUME NEW L
  PROVE  /\ OrderPageOf(L, 1) = FirstOf(L, 1)
         /\ \A n \in Nat : OrderPageOf(L, n + 1) = Following(L, n)
<1>1. OrderPageOf(L, 1) = FirstOf(L, 1)
  <2>1. (1 - 1) * PageSize + 1 = 1
    BY PageSizePositive
  <2> QED
    BY <2>1 DEF OrderPageOf, FirstOf
<1>2. \A n \in Nat : OrderPageOf(L, n + 1) = Following(L, n)
  <2> SUFFICES ASSUME NEW n \in Nat PROVE OrderPageOf(L, n + 1) = Following(L, n)
    OBVIOUS
  <2>1. PICK m : m = n + 1
    OBVIOUS
  <2>2. OrderPageOf(L, m) = SubSeq(L, (m - 1) * PageSize + 1, Bounded(Len(L), m * PageSize))
    BY DEF OrderPageOf
  <2>3. (m - 1) * PageSize = (n + 1 - 1) * PageSize /\ m * PageSize = (n + 1) * PageSize
    BY <2>1
  <2> QED
    BY <2>1, <2>2, <2>3 DEF Following
<1> QED
  BY <1>1, <1>2

\* An empty list has no more to it, and says so.
LEMMA NoMore ==
  /\ OrderList!Rendered.page = orderPage
  /\ orderItems = <<>> /\ orderTotal = 0 => OrderList!Rendered.more = FALSE
<1> DEFINE more == Len(orderItems) < orderTotal
           busy == orderSpin # {}
<1>1. OrderList!Rendered = [page |-> orderPage, more |-> more, busy |-> busy]
  BY DEF OrderList!Rendered
<1>2. orderItems = <<>> /\ orderTotal = 0 => more = FALSE
  OBVIOUS
<1> HIDE DEF more, busy
<1> QED
  BY <1>1, <1>2

\* What the list endpoint would answer changes with the orders only.
LEMMA SameOrders ==
  ASSUME UNCHANGED <<status, orderVersion>>
  PROVE  /\ \A t : OrderList!Listing(t)' = OrderList!Listing(t)
         /\ \A t, n : OrderList!List(t, n)' = OrderList!List(t, n)
<1>1. \A t : OrderList!Listing(t)' = OrderList!Listing(t)
  <2> SUFFICES ASSUME NEW t PROVE OrderList!Listing(t)' = OrderList!Listing(t)
    OBVIOUS
  <2>1. OrderList!OfTab(t)' = OrderList!OfTab(t)
    BY DEF OrderList!OfTab
  <2>2. OrderList!Listing(t) = Sorted(OrderList!OfTab(t), NewestFirst)
    BY ListCopies DEF OrderList!Listing, NewestFirst
  <2>3. OrderList!Listing(t)' = Sorted(OrderList!OfTab(t)', NewestFirst)
    BY ListCopies DEF OrderList!Listing, NewestFirst
  <2> QED
    BY <2>1, <2>2, <2>3
<1>2. \A t, n : OrderList!List(t, n)' = OrderList!List(t, n)
  <2> DEFINE answer(L, n, v) ==
               [items |-> SubSeq(L, (n - 1) * PageSize + 1,
                                 OrderList!Min({Len(L), n * PageSize})),
                page |-> n, total |-> Len(L), version |-> v]
  <2>1. \A t, n : OrderList!List(t, n) = answer(OrderList!Listing(t), n, orderVersion)
    BY DEF OrderList!List
  <2>2. \A t, n : OrderList!List(t, n)' = answer(OrderList!Listing(t)', n, orderVersion')
    BY DEF OrderList!List
  <2> HIDE DEF answer
  <2> QED
    BY <1>1, <2>1, <2>2
<1> QED
  BY <1>1, <1>2

OrdersStored ==
  /\ status \in [Orders -> OrderList!Status \cup {None}]
  /\ orderVersion \in 0..MaxChanges

OrdersShown ==
  /\ tab \in Tabs \cup {None}
  /\ orderItems \in Seq(Orders) /\ orderPage \in Nat \ {0} /\ orderTotal \in Nat
  /\ orderError \in BOOLEAN /\ late \in BOOLEAN /\ orderServed \subseteq 0..orderVersion
  /\ orderView.page \in Nat \ {0}
  /\ orderServed = {} => orderItems = <<>> /\ orderTotal = 0 /\ orderView.more = FALSE

\* The request that counts asks for the page after those shown, or says that it is late.
PageAsked ==
  orderNewest # None =>
     /\ orderCalls[orderNewest].tab = tab /\ tab \in Tabs
     /\ orderCalls[orderNewest].mode = "more" =>
           /\ orderServed # {}
           /\ ~late => orderCalls[orderNewest].page = orderPage + 1
     /\ orderCalls[orderNewest].mode # "more" => orderCalls[orderNewest].page = 1

\* An answer is that of its version of the orders.
OrderAnswered(c) ==
  /\ c.answer.items \in Seq(Orders) /\ c.answer.total \in Nat /\ c.answer.page \in Nat \ {0}
  /\ c.answer.version \in 0..orderVersion
  /\ c.answer.version = orderVersion => c.answer = OrderList!List(c.tab, c.page)

OrderAnswers ==
  \A r \in Requests :
     /\ orderCalls[r].stage \in {"free", "sent", "served"}
     /\ orderCalls[r].stage # "free" => orderCalls[r].page \in Nat \ {0}
     /\ orderCalls[r].stage = "served" => OrderAnswered(orderCalls[r])

OrdersComplete ==
  tab # None /\ orderServed = {orderVersion} /\ ~late
    => orderItems = FirstOf(OrderList!Listing(tab), orderPage)

OrderPagesInductive ==
  /\ ListInductive /\ OrdersStored /\ OrdersShown /\ PageAsked /\ OrderAnswers
  /\ OrdersComplete

LEMMA OrderPagesImply == OrderPagesInductive => OrderList!NoOrderSkipped
<1> SUFFICES ASSUME OrderPagesInductive PROVE OrderList!NoOrderSkipped
  OBVIOUS
<1>1. Len(OrderList!Listing(tab)) \in Int /\ orderPage * PageSize \in Int
  BY OrderListing, PageSizePositive DEF OrderPagesInductive, OrdersShown
<1>2. OrderList!Min({Len(OrderList!Listing(tab)), orderPage * PageSize})
        = Bounded(Len(OrderList!Listing(tab)), orderPage * PageSize)
  BY <1>1, LeastOfTwo
<1> QED
  BY <1>2 DEF OrderList!NoOrderSkipped, OrderList!FirstPages, OrderPagesInductive,
              OrdersComplete, FirstOf

LEMMA OrdersCompleteStay ==
  ASSUME OrdersComplete,
         UNCHANGED <<status, orderVersion, tab, orderItems, orderPage, orderServed>>,
         ~late' => ~late
  PROVE  OrdersComplete'
<1>1. OrderList!Listing(tab)' = OrderList!Listing(tab)
  BY SameOrders
<1> QED
  BY <1>1 DEF OrdersComplete, FirstOf

LEMMA OrderAnsweredStays ==
  ASSUME UNCHANGED <<status, orderVersion>>, NEW c, OrderAnswered(c)
  PROVE  OrderAnswered(c)'
<1>1. OrderList!List(c.tab, c.page)' = OrderList!List(c.tab, c.page)
  BY SameOrders
<1> QED
  BY <1>1 DEF OrderAnswered

LEMMA OrderPagesInitially == OrderList!Init => OrderPagesInductive
<1> SUFFICES ASSUME OrderList!Init PROVE OrderPagesInductive
  OBVIOUS
<1>1. ListInductive
  BY ListInitially
<1>2. OrdersStored
  BY ChangesCount DEF OrderList!Init, OrdersStored, OrderList!Status
<1>3. OrdersShown
  <2>1. /\ tab = None /\ orderItems = <<>> /\ orderPage = 1 /\ orderTotal = 0
        /\ orderError = FALSE /\ orderServed = {} /\ late = FALSE
        /\ orderView = OrderList!Rendered
    BY DEF OrderList!Init
  <2>2. orderView.page = 1 /\ orderView.more = FALSE
    BY <2>1, NoMore
  <2>3. <<>> \in Seq(Orders) /\ {} \subseteq 0..orderVersion /\ 1 \in Nat \ {0} /\ 0 \in Nat
    OBVIOUS
  <2> QED
    BY <2>1, <2>2, <2>3 DEF OrdersShown
<1>4. PageAsked /\ OrderAnswers /\ OrdersComplete
  BY DEF OrderList!Init, PageAsked, OrderAnswers, OrdersComplete, OrderList!Free
<1> QED
  BY <1>1, <1>2, <1>3, <1>4 DEF OrderPagesInductive

LEMMA OrderPagesUntouched ==
  ASSUME OrderPagesInductive, UNCHANGED orderListVars
  PROVE  OrderPagesInductive'
<1>1. ListInductive'
  BY ListUntouched DEF orderListVars, OrderList!flags, OrderPagesInductive
<1>2. OrdersComplete'
  BY OrdersCompleteStay DEF orderListVars, OrderPagesInductive
<1>3. OrderAnswers'
  BY OrderAnsweredStays DEF orderListVars, OrderPagesInductive, OrderAnswers
<1> QED
  BY <1>1, <1>2, <1>3
     DEF orderListVars, OrderPagesInductive, OrdersStored, OrdersShown, PageAsked

LEMMA OrderScreenKeeps ==
  ASSUME OrderPagesInductive, OrderList!DismissError \/ OrderList!Render
  PROVE  OrderPagesInductive'
<1>1. /\ UNCHANGED <<status, orderVersion, orderCalls, orderNewest, tab, orderItems, orderPage,
                     orderTotal, orderServed, late, OrderList!flags>>
      /\ \/ UNCHANGED orderView /\ orderError' = FALSE
         \/ orderView' = OrderList!Rendered /\ UNCHANGED orderError
  BY DEF OrderList!DismissError, OrderList!Render, OrderList!database, OrderList!shown
<1>2. ListInductive'
  BY <1>1, ListUntouched DEF OrderPagesInductive
<1>3. OrdersComplete'
  BY <1>1, OrdersCompleteStay DEF OrderPagesInductive
<1>4. OrderAnswers'
  BY <1>1, OrderAnsweredStays DEF OrderPagesInductive, OrderAnswers
<1>5. OrdersShown'
  <2>1. OrderList!Rendered.page = orderPage
        /\ (orderServed = {} => OrderList!Rendered.more = FALSE)
    BY NoMore DEF OrderPagesInductive, OrdersShown
  <2> QED
    BY <1>1, <2>1 DEF OrderPagesInductive, OrdersShown
<1>6. OrdersStored' /\ PageAsked'
  BY <1>1 DEF OrderPagesInductive, OrdersStored, PageAsked
<1> QED
  BY <1>2, <1>3, <1>4, <1>5, <1>6 DEF OrderPagesInductive

\* A request for a page of a tab becomes the one that counts; the others are as they were.
Asks(r, t, n, mode) ==
  /\ orderNewest' = r
  /\ orderCalls'[r].stage = "sent" /\ orderCalls'[r].mode = mode
  /\ orderCalls'[r].page = n /\ orderCalls'[r].tab = t
  /\ \A s \in Requests \ {r} : orderCalls'[s] = orderCalls[s]

LEMMA OrderLoadAsks ==
  ASSUME OrderPagesInductive, NEW r \in Requests, NEW t, NEW n, NEW mode,
         OrderList!LoadPage(r, t, n, mode)
  PROVE  Asks(r, t, n, mode)
<1> DEFINE call == [OrderList!Free EXCEPT !.stage = "sent", !.mode = mode,
                                           !.page = n, !.tab = t]
<1>1. call.stage = "sent" /\ call.mode = mode /\ call.page = n /\ call.tab = t
  BY DEF OrderList!Free
<1>2. orderNewest' = r /\ orderCalls' = [orderCalls EXCEPT ![r] = call]
  BY DEF OrderList!LoadPage
<1> HIDE DEF call
<1> QED
  BY <1>1, <1>2 DEF Asks, OrderPagesInductive, ListInductive, ListShape

LEMMA OrderRequestStarts ==
  ASSUME OrderPagesInductive, NEW r \in Requests, NEW n \in Nat \ {0}, NEW mode,
         Asks(r, tab', n, mode), UNCHANGED <<status, orderVersion>>, tab' \in Tabs,
         mode = "more" => orderServed' # {} /\ (~late' => n = orderPage' + 1),
         mode # "more" => n = 1
  PROVE  OrdersStored' /\ PageAsked' /\ OrderAnswers'
<1>1. OrdersStored'
  BY DEF OrderPagesInductive, OrdersStored
<1>2. PageAsked'
  BY DEF PageAsked, Asks
<1>3. OrderAnswers'
  <2> SUFFICES ASSUME NEW s \in Requests
               PROVE  /\ orderCalls'[s].stage \in {"free", "sent", "served"}
                      /\ orderCalls'[s].stage # "free" => orderCalls'[s].page \in Nat \ {0}
                      /\ orderCalls'[s].stage = "served" => OrderAnswered(orderCalls[s])'
    BY DEF OrderAnswers
  <2>1. CASE s = r
    BY <2>1 DEF Asks
  <2>2. CASE s # r
    <3>1. PICK c : c = orderCalls[s]
      OBVIOUS
    <3>2. orderCalls'[s] = c
      BY <2>2, <3>1 DEF Asks
    <3>3. c.stage = "served" => OrderAnswered(c)'
      BY <3>1, OrderAnsweredStays DEF OrderPagesInductive, OrderAnswers
    <3>4. c.stage = "served" => OrderAnswered(orderCalls[s])'
      BY <3>2, <3>3 DEF OrderAnswered
    <3> QED
      BY <3>1, <3>2, <3>4 DEF OrderPagesInductive, OrderAnswers
  <2> QED
    BY <2>1, <2>2
<1> QED
  BY <1>1, <1>2, <1>3

LEMMA OrderOpenKeeps ==
  ASSUME OrderPagesInductive, NEW r \in Requests, NEW t \in Tabs, OrderList!OpenTab(r, t)
  PROVE  OrderPagesInductive'
<1>1. /\ tab' = t /\ UNCHANGED <<status, orderVersion>>
      /\ orderItems' = <<>> /\ orderPage' = 1 /\ orderTotal' = 0 /\ orderError' = FALSE
      /\ orderServed' = {} /\ late' = FALSE
      /\ orderView' = [page |-> 1, more |-> FALSE, busy |-> TRUE]
  BY DEF OrderList!OpenTab, OrderList!Cleared, OrderList!database
<1>2. ListInductive'
  BY ListOpenKeeps DEF OrderPagesInductive
<1>3. OrdersStored' /\ PageAsked' /\ OrderAnswers'
  <2> DEFINE call == [OrderList!Free EXCEPT !.stage = "sent", !.mode = "initial",
                                             !.page = 1, !.tab = t]
  <2>1. call.stage = "sent" /\ call.mode = "initial" /\ call.page = 1 /\ call.tab = t
    BY DEF OrderList!Free
  <2>2. orderNewest' = r /\ orderCalls' = [orderCalls EXCEPT ![r] = call]
    BY DEF OrderList!OpenTab
  <2> HIDE DEF call
  <2>3. Asks(r, tab', 1, "initial")
    BY <1>1, <2>1, <2>2 DEF Asks, OrderPagesInductive, ListInductive, ListShape
  <2> QED
    BY <1>1, <2>3, OrderRequestStarts
<1>4. OrdersShown'
  <2>1. orderView'.page = 1 /\ orderView'.more = FALSE
    BY <1>1
  <2>2. <<>> \in Seq(Orders) /\ {} \subseteq 0..orderVersion' /\ 1 \in Nat \ {0} /\ 0 \in Nat
    OBVIOUS
  <2> QED
    BY <1>1, <2>1, <2>2 DEF OrdersShown
<1>5. OrdersComplete'
  BY <1>1 DEF OrdersComplete
<1> QED
  BY <1>2, <1>3, <1>4, <1>5 DEF OrderPagesInductive

LEMMA OrderReloadKeeps ==
  ASSUME OrderPagesInductive, NEW r \in Requests,
         OrderList!Refresh(r) \/ OrderList!Refetch(r)
  PROVE  OrderPagesInductive'
<1>1. PICK mode \in {"refresh", "silent"} : OrderList!Reload(r, mode)
  BY DEF OrderList!Refresh, OrderList!Refetch
<1>2. /\ OrderList!LoadPage(r, tab, 1, mode) /\ tab # None
      /\ UNCHANGED <<status, orderVersion, tab, orderItems, orderPage, orderTotal, orderError,
                     orderServed, late, orderView>>
  BY <1>1 DEF OrderList!Reload, OrderList!database, OrderList!shown
<1>3. Asks(r, tab', 1, mode) /\ tab' \in Tabs
  <2>1. Asks(r, tab, 1, mode)
    BY <1>2, OrderLoadAsks
  <2> QED
    BY <1>2, <2>1 DEF OrderPagesInductive, OrdersShown
<1>4. ListInductive'
  BY <1>2, ListLoadKeeps DEF OrderPagesInductive
<1>5. OrdersStored' /\ PageAsked' /\ OrderAnswers'
  <2>1. 1 \in Nat \ {0} /\ mode # "more" /\ UNCHANGED <<status, orderVersion>>
    BY <1>2
  <2> QED
    BY <1>3, <2>1, OrderRequestStarts
<1>6. OrdersShown'
  BY <1>2 DEF OrderPagesInductive, OrdersShown
<1>7. OrdersComplete'
  BY <1>2, OrdersCompleteStay DEF OrderPagesInductive
<1> QED
  BY <1>4, <1>5, <1>6, <1>7 DEF OrderPagesInductive

LEMMA OrderMoreKeeps ==
  ASSUME OrderPagesInductive, NEW r \in Requests, OrderList!LoadMore(r)
  PROVE  OrderPagesInductive'
<1>1. PICK n : n = orderView.page + 1
  OBVIOUS
<1>2. /\ OrderList!LoadPage(r, tab, n, "more") /\ tab # None /\ orderView.more
      /\ moreRequest = None /\ ~pageOne
      /\ late' = (late \/ orderView.page # orderPage)
      /\ UNCHANGED <<status, orderVersion, tab, orderItems, orderPage, orderTotal, orderError,
                     orderServed, orderView>>
  BY <1>1 DEF OrderList!LoadMore, OrderList!database
<1>3. Asks(r, tab', n, "more") /\ tab' \in Tabs
  <2>1. Asks(r, tab, n, "more")
    BY <1>2, OrderLoadAsks
  <2> QED
    BY <1>2, <2>1 DEF OrderPagesInductive, OrdersShown
<1>4. /\ n \in Nat \ {0} /\ orderServed' # {} /\ (~late' => n = orderPage' + 1)
      /\ late' \in BOOLEAN /\ (~late' => ~late)
  <2>1. late' \in BOOLEAN /\ (~late' => ~late /\ orderView.page = orderPage)
    BY <1>2 DEF OrderPagesInductive, OrdersShown
  <2> QED
    BY <1>1, <1>2, <2>1 DEF OrderPagesInductive, OrdersShown
<1>5. ListInductive'
  BY <1>2, ListLoadKeeps DEF OrderPagesInductive
<1>6. OrdersStored' /\ PageAsked' /\ OrderAnswers'
  BY <1>2, <1>3, <1>4, OrderRequestStarts
<1>7. OrdersShown'
  BY <1>2, <1>4 DEF OrderPagesInductive, OrdersShown
<1>8. OrdersComplete'
  BY <1>2, <1>4, OrdersCompleteStay DEF OrderPagesInductive
<1> QED
  BY <1>5, <1>6, <1>7, <1>8 DEF OrderPagesInductive

LEMMA OrderSignOutKeeps ==
  ASSUME OrderPagesInductive, OrderList!SignOut
  PROVE  OrderPagesInductive'
<1>1. /\ tab' = None /\ orderNewest' = None /\ UNCHANGED <<status, orderVersion, orderCalls>>
      /\ orderItems' = <<>> /\ orderPage' = 1 /\ orderTotal' = 0 /\ orderError' = FALSE
      /\ orderServed' = {} /\ late' = FALSE
      /\ orderView' = [page |-> 1, more |-> FALSE, busy |-> FALSE]
  BY DEF OrderList!SignOut, OrderList!Cleared, OrderList!database
<1>2. ListInductive'
  BY ListNextKeeps DEF OrderPagesInductive, OrderList!Next
<1>3. OrderAnswers'
  BY <1>1, OrderAnsweredStays DEF OrderPagesInductive, OrderAnswers
<1>4. OrdersShown'
  <2>1. orderView'.page = 1 /\ orderView'.more = FALSE
    BY <1>1
  <2>2. <<>> \in Seq(Orders) /\ {} \subseteq 0..orderVersion' /\ 1 \in Nat \ {0} /\ 0 \in Nat
    OBVIOUS
  <2> QED
    BY <1>1, <2>1, <2>2 DEF OrdersShown
<1>5. OrdersStored' /\ PageAsked' /\ OrdersComplete'
  BY <1>1 DEF OrderPagesInductive, OrdersStored, PageAsked, OrdersComplete
<1> QED
  BY <1>2, <1>3, <1>4, <1>5 DEF OrderPagesInductive

LEMMA OrderServeKeeps ==
  ASSUME OrderPagesInductive, NEW r \in Requests, OrderList!Serve(r)
  PROVE  OrderPagesInductive'
<1> DEFINE answer == OrderList!List(orderCalls[r].tab, orderCalls[r].page)
           call == [orderCalls[r] EXCEPT !.stage = "served", !.answer = answer]
<1>1. /\ orderCalls' = [orderCalls EXCEPT ![r] = call] /\ orderCalls[r].stage = "sent"
      /\ UNCHANGED <<status, orderVersion, orderNewest, tab, orderItems, orderPage, orderTotal,
                     orderError, orderServed, late, orderView>>
  BY DEF OrderList!Serve, OrderList!database, OrderList!shown, OrderPagesInductive,
         ListInductive, ListShape
<1>2. /\ call.stage = "served" /\ call.mode = orderCalls[r].mode
      /\ call.page = orderCalls[r].page /\ call.tab = orderCalls[r].tab /\ call.answer = answer
  BY DEF OrderPagesInductive, ListInductive, ListShape, OrderList!Free
<1>3. \A s \in Requests : orderCalls'[s] = IF s = r THEN call ELSE orderCalls[s]
  BY <1>1 DEF OrderPagesInductive, ListInductive, ListShape
<1>4. ListInductive'
  BY ListServeKeeps DEF OrderPagesInductive
<1> HIDE DEF call
<1>5. OrderAnswered(call)
  <2>1. call.page \in Nat \ {0}
    BY <1>1, <1>2 DEF OrderPagesInductive, OrderAnswers
  <2>2. answer = OrderList!List(call.tab, call.page)
    BY <1>2
  <2>3. /\ answer.items \in Seq(Orders) /\ answer.total \in Nat
        /\ answer.page \in Nat \ {0} /\ answer.version = orderVersion
    BY <2>1, <2>2, OrderAnswer
  <2>4. orderVersion \in 0..orderVersion
    BY ChangesCount DEF OrderPagesInductive, OrdersStored
  <2> HIDE DEF answer
  <2> QED
    BY <1>2, <2>2, <2>3, <2>4 DEF OrderAnswered
<1>6. \A c : OrderAnswered(c) => OrderAnswered(c)'
  BY <1>1, OrderAnsweredStays
<1>7. OrderAnswers'
  <2> SUFFICES ASSUME NEW s \in Requests
               PROVE  /\ orderCalls'[s].stage \in {"free", "sent", "served"}
                      /\ orderCalls'[s].stage # "free" => orderCalls'[s].page \in Nat \ {0}
                      /\ orderCalls'[s].stage = "served" => OrderAnswered(orderCalls[s])'
    BY DEF OrderAnswers
  <2>1. CASE s = r
    <3>1. PICK c : c = call
      OBVIOUS
    <3>2. OrderAnswered(c)' /\ orderCalls'[s] = c
      BY <1>3, <1>5, <1>6, <2>1, <3>1
    <3>3. OrderAnswered(orderCalls[s])'
      BY <3>2 DEF OrderAnswered
    <3> QED
      BY <1>1, <1>2, <2>1, <3>1, <3>2, <3>3 DEF OrderPagesInductive, OrderAnswers
  <2>2. CASE s # r
    <3>1. PICK c : c = orderCalls[s]
      OBVIOUS
    <3>2. orderCalls'[s] = c
      BY <1>3, <2>2, <3>1
    <3>3. c.stage = "served" => OrderAnswered(c)'
      BY <1>6, <3>1 DEF OrderPagesInductive, OrderAnswers
    <3>4. c.stage = "served" => OrderAnswered(orderCalls[s])'
      BY <3>2, <3>3 DEF OrderAnswered
    <3> QED
      BY <3>1, <3>2, <3>4 DEF OrderPagesInductive, OrderAnswers
  <2> QED
    BY <2>1, <2>2
<1>8. PageAsked'
  BY <1>1, <1>2, <1>3 DEF OrderPagesInductive, ListInductive, ListShape, PageAsked
<1>9. OrdersStored' /\ OrdersShown'
  BY <1>1 DEF OrderPagesInductive, OrdersStored, OrdersShown
<1>10. OrdersComplete'
  BY <1>1, OrdersCompleteStay DEF OrderPagesInductive
<1> QED
  BY <1>4, <1>7, <1>8, <1>9, <1>10 DEF OrderPagesInductive

\* A request that ends leaves the others as they are.
LEMMA OrderRequestEnds ==
  ASSUME OrderPagesInductive, NEW r \in Requests, OrderList!Ended(r),
         UNCHANGED <<status, orderVersion, tab, orderView>>
  PROVE  /\ ListInductive' /\ OrdersStored' /\ OrderAnswers'
         /\ r = orderNewest => orderNewest' = None
         /\ r # orderNewest =>
               /\ UNCHANGED orderNewest
               /\ orderNewest # None => orderCalls'[orderNewest] = orderCalls[orderNewest]
<1>1. \A s \in Requests : orderCalls'[s] = IF s = r THEN OrderList!Free ELSE orderCalls[s]
  BY DEF OrderList!Ended, OrderPagesInductive, ListInductive, ListShape
<1>2. ListInductive' /\ OrdersStored'
  BY ListEndedKeeps DEF OrderPagesInductive, OrdersStored
<1>3. OrderAnswers'
  <2> SUFFICES ASSUME NEW s \in Requests
               PROVE  /\ orderCalls'[s].stage \in {"free", "sent", "served"}
                      /\ orderCalls'[s].stage # "free" => orderCalls'[s].page \in Nat \ {0}
                      /\ orderCalls'[s].stage = "served" => OrderAnswered(orderCalls[s])'
    BY DEF OrderAnswers
  <2>1. CASE s = r
    BY <1>1, <2>1 DEF OrderList!Free
  <2>2. CASE s # r
    <3>1. PICK c : c = orderCalls[s]
      OBVIOUS
    <3>2. orderCalls'[s] = c
      BY <1>1, <2>2, <3>1
    <3>3. c.stage = "served" => OrderAnswered(c)'
      BY <3>1, OrderAnsweredStays DEF OrderPagesInductive, OrderAnswers
    <3>4. c.stage = "served" => OrderAnswered(orderCalls[s])'
      BY <3>2, <3>3 DEF OrderAnswered
    <3> QED
      BY <3>1, <3>2, <3>4 DEF OrderPagesInductive, OrderAnswers
  <2> QED
    BY <2>1, <2>2
<1>4. r = orderNewest => orderNewest' = None
  BY DEF OrderList!Ended
<1>5. r # orderNewest =>
         /\ UNCHANGED orderNewest
         /\ orderNewest # None => orderCalls'[orderNewest] = orderCalls[orderNewest]
  BY <1>1 DEF OrderList!Ended, OrderPagesInductive, ListInductive, ListShape
<1> QED
  BY <1>2, <1>3, <1>4, <1>5

\* One that is superseded, or that fails, changes nothing but the banner.
LEMMA OrderQuietKeeps ==
  ASSUME OrderPagesInductive, NEW r \in Requests, OrderList!Ended(r),
         UNCHANGED <<status, orderVersion, tab, orderView, orderItems, orderPage, orderTotal,
                     orderServed, late>>,
         orderError' \in BOOLEAN
  PROVE  OrderPagesInductive'
<1>1. /\ ListInductive' /\ OrdersStored' /\ OrderAnswers'
      /\ r = orderNewest => orderNewest' = None
      /\ r # orderNewest =>
            /\ UNCHANGED orderNewest
            /\ orderNewest # None => orderCalls'[orderNewest] = orderCalls[orderNewest]
  BY OrderRequestEnds
<1>2. PageAsked'
  BY <1>1 DEF OrderPagesInductive, PageAsked
<1>3. OrdersShown'
  BY DEF OrderPagesInductive, OrdersShown
<1>4. OrdersComplete'
  BY OrdersCompleteStay DEF OrderPagesInductive
<1> QED
  BY <1>1, <1>2, <1>3, <1>4 DEF OrderPagesInductive

\* The answer of the request that counts: the first page, or the one after those shown.
LEMMA OrderReceiveKeeps ==
  ASSUME OrderPagesInductive, NEW r \in Requests, OrderList!Receive(r), r = orderNewest
  PROVE  OrderPagesInductive'
<1> DEFINE data == orderCalls[r].answer
           mode == orderCalls[r].mode
           fresh == OrderList!Fresh(data.items)
           n == orderCalls[r].page
<1>1. /\ OrderList!Ended(r) /\ orderCalls[r].stage = "served"
      /\ UNCHANGED <<status, orderVersion, tab, orderView>>
      /\ orderError' = FALSE /\ orderPage' = data.page /\ orderTotal' = data.total
      /\ orderItems' = (IF mode = "more" THEN orderItems \o fresh ELSE data.items)
      /\ orderServed' = (IF mode = "more" THEN orderServed \cup {data.version}
                         ELSE {data.version})
      /\ late' = (late /\ mode = "more")
  BY DEF OrderList!Receive, OrderList!database
<1>2. ListInductive' /\ OrdersStored' /\ OrderAnswers' /\ orderNewest' = None
  BY <1>1, OrderRequestEnds
<1>3. /\ OrderAnswered(orderCalls[r]) /\ orderCalls[r].tab = tab /\ n \in Nat \ {0}
      /\ mode = "more" => orderServed # {} /\ (~late => n = orderPage + 1)
      /\ mode # "more" => n = 1
      /\ orderPage \in Nat \ {0} /\ orderItems \in Seq(Orders)
      /\ orderServed \subseteq 0..orderVersion
  BY <1>1, NoneIsNoCaller DEF OrderPagesInductive, PageAsked, OrderAnswers, OrdersShown
<1>4. /\ data.items \in Seq(Orders) /\ data.total \in Nat /\ data.page \in Nat \ {0}
      /\ data.version \in 0..orderVersion
      /\ data.version = orderVersion => data = OrderList!List(tab, n)
  BY <1>3 DEF OrderAnswered
<1>5. fresh = At(data.items, NotIn(data.items, orderItems))
  BY ListCopies DEF OrderList!Fresh, OrderList!ToSet, NotIn
<1>6. fresh \in Seq(Orders)
  <2>1. NotIn(data.items, orderItems) \in SUBSET DOMAIN data.items
    BY DEF NotIn
  <2> QED
    BY <1>4, <1>5, <2>1, AtSelects
<1> HIDE DEF data, mode, fresh, n
<1>7. OrdersShown'
  <2>1. orderItems' \in Seq(Orders)
    BY <1>1, <1>3, <1>4, <1>6
  <2>2. orderServed' \subseteq 0..orderVersion' /\ orderServed' # {} /\ late' \in BOOLEAN
    BY <1>1, <1>3, <1>4 DEF OrderPagesInductive, OrdersShown
  <2> QED
    BY <1>1, <1>4, <2>1, <2>2 DEF OrderPagesInductive, OrdersShown
<1>8. OrdersComplete'
  <2> SUFFICES ASSUME tab # None, orderServed' = {orderVersion'}, ~late'
               PROVE  orderItems' = FirstOf(OrderList!Listing(tab)', orderPage')
    BY <1>1 DEF OrdersComplete, FirstOf
  <2> DEFINE L == OrderList!Listing(tab)
  <2>1. L' = L
    BY <1>1, SameOrders
  <2>2. L \in Seq(Orders) /\ EachOnce(L)
    BY OrderListing
  <2>3. data.version = orderVersion /\ (mode = "more" => orderServed = {orderVersion} /\ ~late)
    BY <1>1, <1>3
  <2>4. data.items = OrderPageOf(L, n) /\ data.page = n
    BY <1>3, <1>4, <2>3, OrderAnswer
  <2> HIDE DEF L
  <2>5. CASE mode # "more"
    <3>1. data.items = FirstOf(L, 1) /\ data.page = 1
      BY <1>3, <2>4, <2>5, OrderPages
    <3> QED
      BY <1>1, <2>1, <2>5, <3>1 DEF L
  <2>6. CASE mode = "more"
    <3>1. PICK m \in Nat \ {0} : m = orderPage
      BY <1>3
    <3>2. orderItems = FirstOf(L, m)
      BY <2>3, <2>6, <3>1 DEF OrderPagesInductive, OrdersComplete, L
    <3>3. data.items = Following(L, m) /\ data.page = m + 1
      BY <1>3, <2>3, <2>4, <2>6, <3>1, OrderPages
    <3>4. FirstOf(L, m) \o At(Following(L, m), NotIn(Following(L, m), FirstOf(L, m)))
            = FirstOf(L, m + 1)
      BY <2>2, NextPage
    <3> QED
      BY <1>1, <1>5, <2>1, <2>6, <3>2, <3>3, <3>4 DEF L
  <2> QED
    BY <2>5, <2>6
<1>9. PageAsked'
  BY <1>2 DEF PageAsked
<1> QED
  BY <1>2, <1>7, <1>8, <1>9 DEF OrderPagesInductive

\* A change of the orders: what was read before it is no longer at its version.
LEMMA OrderChangeKeeps ==
  ASSUME OrderPagesInductive, NEW o \in Orders, OrderList!Change(o)
  PROVE  OrderPagesInductive'
<1>1. /\ orderVersion' = orderVersion + 1 /\ orderVersion < MaxChanges /\ orderVersion \in Nat
      /\ UNCHANGED <<orderCalls, orderNewest, tab, orderItems, orderPage, orderTotal, orderError,
                     orderServed, late, orderView, OrderList!flags>>
  BY ChangesCount DEF OrderList!Change, OrderList!shown, OrderPagesInductive, OrdersStored
<1>2. ListInductive'
  BY <1>1, ListUntouched DEF OrderPagesInductive
<1>3. OrdersStored'
  <2>1. orderVersion' \in 0..MaxChanges
    BY <1>1, ChangesCount
  <2>2. status' \in [Orders -> OrderList!Status \cup {None}]
    BY DEF OrderList!Change, OrderPagesInductive, OrdersStored
  <2> QED
    BY <2>1, <2>2 DEF OrdersStored
<1>4. \A v \in 0..orderVersion : v \in 0..orderVersion' /\ v # orderVersion'
  BY <1>1
<1>5. OrderAnswers'
  <2>1. \A c : OrderAnswered(c) => OrderAnswered(c)'
    BY <1>4 DEF OrderAnswered
  <2> QED
    BY <1>1, <2>1 DEF OrderPagesInductive, OrderAnswers
<1>6. OrdersShown' /\ OrdersComplete'
  BY <1>1, <1>4 DEF OrderPagesInductive, OrdersShown, OrdersComplete
<1>7. PageAsked'
  BY <1>1 DEF OrderPagesInductive, PageAsked
<1> QED
  BY <1>2, <1>3, <1>5, <1>6, <1>7 DEF OrderPagesInductive

LEMMA OrderPagesNextKeep ==
  ASSUME OrderPagesInductive, OrderList!Next
  PROVE  OrderPagesInductive'
<1>1. ASSUME NEW r \in Requests, NEW t \in Tabs, OrderList!OpenTab(r, t)
      PROVE  OrderPagesInductive'
  BY <1>1, OrderOpenKeeps
<1>2. ASSUME NEW r \in Requests,
             \/ OrderList!Refresh(r) \/ OrderList!Refetch(r) \/ OrderList!LoadMore(r)
             \/ OrderList!Serve(r)
      PROVE  OrderPagesInductive'
  BY <1>2, OrderReloadKeeps, OrderMoreKeeps, OrderServeKeeps
<1>3. ASSUME NEW r \in Requests, OrderList!Receive(r)
      PROVE  OrderPagesInductive'
  <2>1. CASE r = orderNewest
    BY <1>3, <2>1, OrderReceiveKeeps
  <2>2. CASE r # orderNewest
    <3>1. /\ OrderList!Ended(r)
          /\ UNCHANGED <<status, orderVersion, tab, orderView, orderItems, orderPage, orderTotal,
                         orderError, orderServed, late>>
      BY <1>3, <2>2 DEF OrderList!Receive, OrderList!database, OrderList!shown
    <3> QED
      BY <3>1, OrderQuietKeeps DEF OrderPagesInductive, OrdersShown
  <2> QED
    BY <2>1, <2>2
<1>4. ASSUME NEW r \in Requests, OrderList!FailRequest(r)
      PROVE  OrderPagesInductive'
  <2>1. /\ OrderList!Ended(r)
        /\ UNCHANGED <<status, orderVersion, tab, orderView, orderItems, orderPage, orderTotal,
                       orderServed, late>>
        /\ orderError' \in BOOLEAN
    BY <1>4 DEF OrderList!FailRequest, OrderList!database, OrderPagesInductive, OrdersShown
  <2> QED
    BY <2>1, OrderQuietKeeps
<1>5. ASSUME NEW o \in Orders, OrderList!Change(o)
      PROVE  OrderPagesInductive'
  BY <1>5, OrderChangeKeeps
<1> QED
  BY <1>1, <1>2, <1>3, <1>4, <1>5, OrderScreenKeeps, OrderSignOutKeeps DEF OrderList!Next

------------------------------------------------------------------------------
(* The types: what the invariants above leave open of the state of a part. *)

PageTyped ==
  /\ at \in {"away", "page", "login", "beyond"}
  /\ product \in Opened \cup {None} /\ (product = None <=> at = "away")
  /\ load \in {"loading", "shown", "missing", "failed"}
  /\ member \in BOOLEAN /\ awaiting \in BOOLEAN
  /\ pending \in Used \cup {None} /\ adding \in Used \cup {None} /\ orphans \in SUBSET Used

LEMMA NoneIsNotOpened == None \notin Opened
<1>1. \A p \in Opened : p \in Nat
  BY OpenedInCatalogue, ProductsOrdered
<1>2. \A p \in Opened : p \in Int
  BY <1>1
<1> QED
  BY <1>2, NoneIsNoTime

\* What is carried out comes from the page, and leads to it or beyond.
LEMMA ExecuteTyped ==
  ASSUME PageTyped, NEW t, NEW tap, Detail!Execute(t, tap)
  PROVE  /\ at' \in {"page", "beyond"} /\ adding' \in {adding, t, None}
         /\ pending' \in {pending, None}
  BY DEF Detail!Execute

LEMMA FocusTyped ==
  ASSUME PageTyped, Detail!Focus, at # "away",
         UNCHANGED <<product, load, orphans, taps>>, member' \in BOOLEAN
  PROVE  PageTyped'
<1>1. Used' = Used
  BY DEF Used, Detail!Used
<1>2. CASE pending # None /\ taps[pending].product = product /\ awaiting /\ member'
  <2>1. awaiting' = FALSE /\ Detail!Execute(pending, taps[pending])
    BY <1>2 DEF Detail!Focus
  <2>2. /\ at' \in {"page", "beyond"} /\ adding' \in {adding, pending, None}
        /\ pending' \in {pending, None}
    BY <2>1, ExecuteTyped
  <2> QED
    BY <1>1, <2>1, <2>2 DEF PageTyped
<1>3. CASE ~(pending # None /\ taps[pending].product = product /\ awaiting /\ member')
  <2>1. /\ at' = "page" /\ adding' = adding /\ pending' \in {pending, None}
        /\ awaiting' \in {awaiting, FALSE}
    BY <1>3 DEF Detail!Focus
  <2> QED
    BY <1>1, <2>1 DEF PageTyped
<1> QED
  BY <1>2, <1>3

LEMMA TapTyped ==
  ASSUME DetailInductive, PageTyped, NEW kind \in Detail!Kinds, Detail!Tap(kind)
  PROVE  PageTyped'
<1>1. PICK t \in Taps :
         /\ taps' = [taps EXCEPT ![t] = [kind |-> kind, product |-> product]]
         /\ IF member
            THEN Detail!Execute(t, taps'[t]) /\ UNCHANGED awaiting
            ELSE /\ pending' = t /\ awaiting' = TRUE /\ at' = "login"
                 /\ UNCHANGED <<sent, adding>>
  BY DEF Detail!Tap, Taps
<1>2. at # "away" /\ UNCHANGED <<product, load, orphans, member>>
  BY DEF Detail!Tap
<1>3. product \in Opened /\ product # None
  BY <1>2, NoneIsNotOpened DEF PageTyped
<1>4. [kind |-> kind, product |-> product] # Detail!NoTap
  BY <1>3 DEF Detail!NoTap
<1>5. t \in Used' /\ Used \subseteq Used'
  <2>1. \A s \in Taps : taps'[s] = IF s = t THEN [kind |-> kind, product |-> product] ELSE taps[s]
    BY <1>1 DEF DetailInductive, DetailTyped
  <2> QED
    BY <1>4, <2>1 DEF Used, Detail!Used, Taps
<1>6. CASE member
  <2>1. /\ at' \in {"page", "beyond"} /\ adding' \in {adding, t, None}
        /\ pending' \in {pending, None} /\ UNCHANGED awaiting
    BY <1>1, <1>6, ExecuteTyped
  <2> QED
    BY <1>2, <1>5, <2>1 DEF PageTyped
<1>7. CASE ~member
  BY <1>1, <1>2, <1>5, <1>7 DEF PageTyped
<1> QED
  BY <1>6, <1>7

LEMMA PageTypedKeeps ==
  ASSUME DetailInductive, PageTyped, Detail!Next
  PROVE  PageTyped'
<1>1. ASSUME UNCHANGED taps PROVE Used' = Used
  BY <1>1 DEF Used, Detail!Used
<1>2. ASSUME NEW p \in Opened, Detail!Open(p)
      PROVE  PageTyped'
  BY <1>1, <1>2, NoneIsNotOpened DEF Detail!Open, PageTyped
<1>3. ASSUME NEW o \in {"shown", "missing", "failed"}, Detail!Loaded(o)
      PROVE  PageTyped'
  BY <1>1, <1>3 DEF Detail!Loaded, Detail!intent, PageTyped
<1>4. CASE Detail!LoadAgain \/ Detail!Leave
  BY <1>1, <1>4 DEF Detail!LoadAgain, Detail!Leave, Detail!intent, PageTyped
<1>5. ASSUME NEW kind \in Detail!Kinds, Detail!Tap(kind)
      PROVE  PageTyped'
  BY <1>5, TapTyped
<1>6. CASE Detail!AddSucceeds \/ Detail!AddFails
  BY <1>1, <1>6 DEF Detail!AddSucceeds, Detail!AddFails, Detail!page, PageTyped
<1>7. ASSUME NEW t \in Taps, Detail!OrphanEnds(t)
      PROVE  PageTyped'
  BY <1>1, <1>7 DEF Detail!OrphanEnds, Detail!page, PageTyped
<1>8. CASE Detail!SignIn \/ Detail!GoBack
  <2>1. /\ Detail!Focus /\ at # "away" /\ UNCHANGED <<product, load, orphans, taps>>
        /\ member' \in BOOLEAN
    BY <1>8 DEF Detail!SignIn, Detail!GoBack, PageTyped
  <2> QED
    BY <2>1, FocusTyped
<1>9. CASE Detail!SessionEnds \/ Detail!SessionRestored
  BY <1>1, <1>9 DEF Detail!SessionEnds, Detail!SessionRestored, Detail!page, Detail!intent,
                    PageTyped
<1> QED
  BY <1>2, <1>3, <1>4, <1>5, <1>6, <1>7, <1>8, <1>9 DEF Detail!Next, Taps

Slip == {"recording", "identity"}
ClientTyped ==
  /\ user \in Users \cup {None} /\ desired \in Users \cup {None} /\ applied \in Users \cup {None}
  /\ latest \in Toggles \cup {None} /\ outcome \in {"none", "pending", "stored", "failed"}
  /\ slips \subseteq Slip
  /\ kills \in 0..MaxKills

LEMMA ClientTypedKeeps ==
  ASSUME ClientTyped, Analytics!Next
  PROVE  ClientTyped'
<1>1. ASSUME NEW wanted \in Users \cup {None}, NEW capturing, NEW made
      PROVE  /\ Analytics!Applied(wanted, capturing, made) \in Users \cup {None}
             /\ Analytics!Interrupted(wanted, capturing) \subseteq Users \cup {None}
  BY <1>1 DEF Analytics!Applied, Analytics!Interrupted, ClientTyped
<1>2. ASSUME NEW c \in Callers,
             \/ Analytics!OptIn(c) \/ Analytics!Record(c) \/ Analytics!IdentityFails(c)
             \/ Analytics!Stop(c) \/ Analytics!OptOut(c)
      PROVE  ClientTyped'
  <2>1. Analytics!Desired(c) \in Users \cup {None}
    BY DEF Analytics!Desired, ClientTyped
  <2>2. CASE Analytics!Record(c)
    <3>1. Analytics!Applied(Analytics!Desired(c), TRUE, sdk.made) \in Users \cup {None}
      BY <1>1, <2>1
    <3> QED
      BY <2>1, <2>2, <3>1 DEF Analytics!Record, Analytics!switch, ClientTyped
  <2>3. CASE Analytics!IdentityFails(c)
    <3>1. applied' \in Users \cup {None}
      BY <1>1, <2>1, <2>3 DEF Analytics!IdentityFails
    <3>2. slips' \subseteq Slip
      BY <2>3 DEF Analytics!IdentityFails, ClientTyped, Slip
    <3> QED
      BY <2>1, <2>3, <3>1, <3>2 DEF Analytics!IdentityFails, Analytics!switch, ClientTyped
  <2>4. CASE Analytics!OptIn(c) \/ Analytics!Stop(c) \/ Analytics!OptOut(c)
    BY <2>4 DEF Analytics!OptIn, Analytics!Stop, Analytics!OptOut, Analytics!identity,
       Analytics!switch, ClientTyped
  <2> QED
    BY <1>2, <2>2, <2>3, <2>4
<1>3. CASE Analytics!ReadStored \/ Analytics!ReadFails
  BY <1>1, <1>3 DEF Analytics!ReadStored, Analytics!ReadFails, Analytics!Read,
     Analytics!identity, Analytics!switch, ClientTyped
<1>4. CASE Analytics!BootFails
  <2>1. slips' \subseteq Slip
    BY <1>4 DEF Analytics!BootFails, ClientTyped, Slip
  <2> QED
    BY <1>4, <2>1 DEF Analytics!BootFails, Analytics!switch, ClientTyped
<1>5. ASSUME NEW t \in Toggles,
             Analytics!Toggle(t) \/ Analytics!Write(t) \/ Analytics!WriteFails(t)
      PROVE  ClientTyped'
  BY <1>5 DEF Analytics!Toggle, Analytics!Write, Analytics!WriteFails,
     Analytics!identity, Analytics!switch, ClientTyped
<1>6. ASSUME NEW t \in Toggles, Analytics!SwitchFails(t)
      PROVE  ClientTyped'
  <2>1. slips' \subseteq Slip
    BY <1>6 DEF Analytics!SwitchFails, ClientTyped, Slip
  <2> QED
    BY <1>6, <2>1 DEF Analytics!SwitchFails, Analytics!identity, Analytics!switch, ClientTyped
<1>7. CASE Analytics!SignIn \/ Analytics!SignOut
  <2>1. PICK u \in Users \cup {None} : Analytics!Changes(u)
    BY <1>7 DEF Analytics!SignIn, Analytics!SignOut
  <2>2. UNCHANGED <<latest, outcome, kills>>
    BY <2>1 DEF Analytics!Changes, Analytics!switch
  <2>3. CASE Analytics!SyncUserIdentity(u)
    <3>1. slips' \subseteq Slip
      BY <2>3 DEF Analytics!SyncUserIdentity, ClientTyped
    <3> QED
      BY <1>1, <2>1, <2>2, <2>3, <3>1 DEF Analytics!SyncUserIdentity, ClientTyped
  <2>4. CASE Analytics!SyncFails(u)
    <3>1. applied' \in Users \cup {None}
      BY <1>1, <2>1, <2>4 DEF Analytics!SyncFails
    <3>2. slips' \subseteq Slip
      BY <2>4 DEF Analytics!SyncFails, ClientTyped, Slip
    <3> QED
      BY <2>1, <2>2, <2>4, <3>1, <3>2 DEF Analytics!SyncFails, ClientTyped
  <2> QED
    BY <2>1, <2>3, <2>4 DEF Analytics!Changes
<1>8. CASE Analytics!Kill
  BY <1>8, KillsCounted DEF Analytics!Kill, ClientTyped
<1> QED
  BY <1>2, <1>3, <1>4, <1>5, <1>6, <1>7, <1>8 DEF Analytics!Next, Callers

StartTyped ==
  /\ phase \in {"wait", "migrate", "seed", "serve", "stopped"}
  /\ mysql \in BOOLEAN /\ seedAsked \in BOOLEAN /\ attempts \in 0..MaxAttempts
  /\ phase = "wait" => attempts < MaxAttempts
  /\ ran \in 0..8 /\ phone \in {"none", "demo", "customer"}
  /\ shelf \in [stock : Nat, sales : Nat]

LEMMA NoAttempts == 0 \in 0..MaxAttempts /\ 0 < MaxAttempts
  BY AttemptsCounted

LEMMA StartTypedInitially == Entrypoint!Init => StartTyped
<1> SUFFICES ASSUME Entrypoint!Init PROVE StartTyped
  OBVIOUS
<1>0. /\ phase = "stopped" /\ mysql \in BOOLEAN /\ seedAsked \in BOOLEAN
      /\ attempts \in 0..MaxAttempts /\ ran \in 0..8 /\ phone \in {"none", "demo", "customer"}
  <2>1. attempts = 0 /\ ran = 0 /\ phase = "stopped"
    BY DEF Entrypoint!Init
  <2>2. attempts \in 0..MaxAttempts /\ ran \in 0..8
    BY <2>1, NoAttempts
  <2>3. mysql \in BOOLEAN /\ seedAsked \in BOOLEAN
    BY DEF Entrypoint!Init
  <2>4. phone \in {"none", "demo", "customer"}
    BY DEF Entrypoint!Init
  <2> QED
    BY <2>1, <2>2, <2>3, <2>4
<1>1. Entrypoint!Held \in Nat /\ Entrypoint!Sold \in Nat /\ InitStock \in Nat
  BY AmountOfShop, AmountNatural, Shelved
<1>2. CASE Entrypoint!HasDemoUser
  <2>1. phone # "none"
    BY <1>2 DEF Entrypoint!HasDemoUser
  <2>2. Entrypoint!Held <= InitStock
    BY <2>1 DEF Entrypoint!Init
  <2>3. InitStock - Entrypoint!Held \in Nat
    BY <1>1, <2>2
  <2>4. shelf = [stock |-> InitStock - Entrypoint!Held, sales |-> Entrypoint!Sold]
    BY <1>2 DEF Entrypoint!Init
  <2>5. shelf \in [stock : Nat, sales : Nat]
    BY <1>1, <2>3, <2>4
  <2> QED
    BY <1>0, <2>5 DEF StartTyped
<1>3. CASE ~Entrypoint!HasDemoUser
  <2>1. [stock |-> 0, sales |-> 0] \in [stock : Nat, sales : Nat]
    OBVIOUS
  <2>2. shelf = [stock |-> 0, sales |-> 0]
    BY <1>3 DEF Entrypoint!Init
  <2>3. shelf \in [stock : Nat, sales : Nat]
    BY <2>1, <2>2
  <2> QED
    BY <1>0, <2>3 DEF StartTyped
<1> QED
  BY <1>2, <1>3

LEMMA BecomesTyped ==
  ASSUME StartTyped, NEW o, NEW old, NEW new, NEW stock \in Int, NEW sold \in Nat,
         Entrypoint!Becomes(o, old, new, stock, sold)
  PROVE  StartTyped'
<1>1. /\ shelf.stock + stock >= 0
      /\ shelf' = [stock |-> shelf.stock + stock, sales |-> shelf.sales + sold]
      /\ UNCHANGED <<phase, mysql, seedAsked, attempts, ran, phone>>
  BY DEF Entrypoint!Becomes, Entrypoint!Serving, Entrypoint!bootVars
<1>2. shelf.stock \in Nat /\ shelf.sales \in Nat
  BY DEF StartTyped
<1>3. shelf.stock + stock \in Nat /\ shelf.sales + sold \in Nat
  BY <1>1, <1>2
<1>4. shelf' \in [stock : Nat, sales : Nat]
  BY <1>1, <1>3
<1> QED
  BY <1>1, <1>4 DEF StartTyped

LEMMA StartTypedKeeps ==
  ASSUME BootInductive, StartTyped, Entrypoint!Next
  PROVE  StartTyped'
<1> USE DEF Entrypoint!shopVars, Entrypoint!bootVars
<1>1. CASE Entrypoint!WaitForMysql
  <2>1. attempts + 1 \in Nat /\ (attempts < MaxAttempts => attempts + 1 \in 0..MaxAttempts)
    BY AttemptsCounted DEF StartTyped
  <2> QED
    BY <1>1, <2>1, AttemptsCounted DEF Entrypoint!WaitForMysql, StartTyped
<1>2. CASE Entrypoint!Migrate
  <2>1. /\ UNCHANGED <<mysql, attempts, seedAsked, phone, shelf>>
        /\ ran < Entrypoint!Cardinality(Entrypoint!Pending)
        /\ recorded < Entrypoint!Len(Entrypoint!Migrations)
        /\ \/ phase' = "stopped" /\ ran' = ran
           \/ UNCHANGED phase /\ ran' = ran + 1
    BY <1>2 DEF Entrypoint!Migrate, Entrypoint!Refused
  <2>2. recorded \in {0, 1}
    BY <2>1, Statements DEF BootInductive, BootTyped
  <2>3. ran' \in 0..8
    BY <2>1, <2>2, Statements DEF StartTyped
  <2> QED
    BY <2>1, <2>3 DEF StartTyped
<1>3. CASE Entrypoint!RecordMigration \/ Entrypoint!NoPending
  BY <1>3 DEF Entrypoint!RecordMigration, Entrypoint!NoPending, StartTyped
<1>4. CASE Entrypoint!SeedOnBoot
  <2>1. /\ UNCHANGED <<mysql, seedAsked, attempts, ran>> /\ phase' \in {"stopped", "serve"}
        /\ phone' \in {phone, "demo"}
        /\ shelf' \in {shelf, [stock |-> InitStock, sales |-> 0]}
    BY <1>4 DEF Entrypoint!SeedOnBoot, Entrypoint!RunSeed
  <2>2. [stock |-> InitStock, sales |-> 0] \in [stock : Nat, sales : Nat]
    BY Shelved
  <2> QED
    BY <2>1, <2>2 DEF StartTyped
<1>5. CASE Entrypoint!Stop \/ Entrypoint!ToggleMysql
  BY <1>5 DEF Entrypoint!Stop, Entrypoint!ToggleMysql, StartTyped
<1>6. CASE Entrypoint!Restart
  <2>1. attempts' \in 0..MaxAttempts /\ attempts' < MaxAttempts /\ ran' \in 0..8
    BY <1>6, NoAttempts DEF Entrypoint!Restart
  <2> QED
    BY <1>6, <2>1 DEF Entrypoint!Restart, StartTyped
<1>7. CASE Entrypoint!Register
  BY <1>7 DEF Entrypoint!Register, Entrypoint!Serving, StartTyped
<1>8. ASSUME NEW o \in BootOrders,
             \/ Entrypoint!Create(o) \/ Entrypoint!Pay(o) \/ Entrypoint!Cancel(o)
             \/ Entrypoint!MarkAwaitingReceipt(o) \/ Entrypoint!CompletePaid(o)
      PROVE  StartTyped'
  BY <1>8, BecomesTyped DEF Entrypoint!Create, Entrypoint!Pay, Entrypoint!Cancel,
     Entrypoint!MarkAwaitingReceipt, Entrypoint!CompletePaid
<1> QED
  BY <1>1, <1>2, <1>3, <1>4, <1>5, <1>6, <1>7, <1>8 DEF Entrypoint!Next

SightTyped == viewport \in Tops \cup {None} /\ inView \in BOOLEAN

LEMMA SightTypedKeeps ==
  ASSUME SightTyped, Tracker!Next
  PROVE  SightTyped'
  BY DEF SightTyped, Tracker!Next, Tracker!Render, Tracker!OnProductLayout, Tracker!OnScroll,
         Tracker!Focus, Tracker!Blur, Tracker!Tick, Tracker!Ring

TypesInductive ==
  /\ Inductive /\ Worded
  /\ PagesInductive /\ OrderPagesInductive
  /\ DetailInductive /\ PageTyped
  /\ AnalyticsInductive /\ ClientTyped
  /\ HistoryInductive
  /\ TrackerInductive /\ SightTyped
  /\ BootInductive /\ StartTyped

LEMMA TypesImply == TypesInductive => PartsTypeOK
<1> SUFFICES ASSUME TypesInductive PROVE PartsTypeOK
  OBVIOUS
<1>1. TypeOK
  BY DEF TypesInductive, Inductive
<1>2. Paging!TypeOK
  <2>1. \A p \in Products : sales[p] \in 0..MaxChanges
    BY ChangesCount DEF TypesInductive, PagesInductive, Catalogued
  <2>2. Paging!ToSet(items) \subseteq Products
    BY DEF TypesInductive, PagesInductive, Displayed, Paging!ToSet
  <2> QED
    BY <2>1, <2>2 DEF TypesInductive, PagesInductive, Catalogued, Displayed, Answers,
       PagingInductive, PagingShape, Paging!TypeOK
<1>3. OrderList!TypeOK
  <2>1. OrderList!ToSet(orderItems) \subseteq Orders
    BY DEF TypesInductive, OrderPagesInductive, OrdersShown, OrderList!ToSet
  <2>2. orderServed \subseteq 0..MaxChanges
    BY ChangesCount DEF TypesInductive, OrderPagesInductive, OrdersShown, OrdersStored
  <2> QED
    BY <2>1, <2>2 DEF TypesInductive, OrderPagesInductive, OrdersShown, OrdersStored,
       ListInductive, ListShape, OrderList!TypeOK
<1>4. Detail!TypeOK
  BY DEF TypesInductive, DetailInductive, DetailTyped, PageTyped, Taps, Used, Detail!TypeOK
<1>5. Analytics!TypeOK
  <2>1. \A c \in Callers : telemetryCalls[c].stage \in
           {"free", "read", "queued", "optIn", "record", "stop", "optOut"}
    BY DEF TypesInductive, AnalyticsInductive, AnalyticsTyped, Call
  <2>2. {queue[i] : i \in DOMAIN queue} = {t \in Toggles : telemetryCalls[t].stage = "queued"}
    BY DEF TypesInductive, AnalyticsInductive, Queued
  <2> QED
    BY <2>1, <2>2 DEF TypesInductive, AnalyticsInductive, AnalyticsTyped, ClientTyped, Slip,
       Callers, Analytics!TypeOK
<1>6. Searches!TypeOK
  <2>1. ASSUME NEW list, WordList(list)
        PROVE  /\ Len(list) <= SEARCH_HISTORY_LIMIT /\ Searches!Range(list) \subseteq Words
               /\ Searches!IsInjective(list)
    BY <2>1 DEF WordList, Searches!Range, Searches!IsInjective
  <2> QED
    BY <2>1 DEF TypesInductive, HistoryInductive, HistoryTyped, Searches!TypeOK
<1>7. Tracker!TypeOK
  <2>1. Told(seenIds) \in [Opened -> Nat]
    BY DEF Told
  <2> QED
    BY <2>1 DEF TypesInductive, TrackerInductive, CardsPlaced, TrackerTyped, SightTyped,
       Tracker!TypeOK
<1>8. Entrypoint!TypeOK
  BY DEF TypesInductive, BootInductive, BootTyped, BootOrder, StartTyped, Entrypoint!TypeOK
<1> QED
  BY <1>1, <1>2, <1>3, <1>4, <1>5, <1>6, <1>7, <1>8 DEF PartsTypeOK

------------------------------------------------------------------------------
(* The composition.                                                        *)

LEMMA PartMoves ==
  ASSUME [PartsNext]_partsVars
  PROVE  /\ part' = part
         /\ (Paging!Next /\ part = "products") \/ UNCHANGED pagingVars
         /\ (OrderList!Next /\ part = "orders") \/ UNCHANGED orderListVars
         /\ (Detail!Next /\ part = "detail") \/ UNCHANGED detailVars
         /\ (Searches!Next /\ part = "history") \/ UNCHANGED historyVars
         /\ (Tracker!Next /\ part = "exposure") \/ UNCHANGED exposureVars
         /\ (Analytics!Next /\ part = "analytics") \/ UNCHANGED analyticsVars
         /\ (Entrypoint!Next /\ part = "boot") \/ UNCHANGED bootVars
  BY DEF PartsNext, partsVars, listVars, clientVars

IndicatorsInductive ==
  /\ part = "products" => PagingInductive
  /\ part = "orders" => ListInductive

LEMMA IndicatorsStart == PartsInit => IndicatorsInductive
BY PagingInitially, ListInitially DEF PartsInit, IndicatorsInductive

LEMMA IndicatorsKept == IndicatorsInductive /\ [PartsNext]_partsVars => IndicatorsInductive'
<1> SUFFICES ASSUME IndicatorsInductive, [PartsNext]_partsVars PROVE IndicatorsInductive'
  OBVIOUS
<1>1. PagingInductive /\ (Paging!Next \/ UNCHANGED pagingVars) => PagingInductive'
  BY PagingNextKeeps, PagingUntouched DEF pagingVars
<1>2. ListInductive /\ (OrderList!Next \/ UNCHANGED orderListVars) => ListInductive'
  BY ListNextKeeps, ListUntouched DEF orderListVars, OrderList!flags
<1> QED
  BY <1>1, <1>2, PartMoves DEF IndicatorsInductive

\* Whatever order answers, failures and new requests come in, no indicator of the
\* waterfall keeps spinning and none goes out early; no spinner of the order list outlives
\* its request, and no ref blocks loading for ever.
THEOREM IndicatorsTheorem == PartsSpec => []IndicatorsMatch
<1>1. IndicatorsInductive => IndicatorsMatch
  BY PagingImplies DEF IndicatorsInductive, IndicatorsMatch, ListInductive
<1> QED
  BY <1>1, IndicatorsStart, IndicatorsKept, PTL DEF PartsSpec

NothingSkippedInductive ==
  /\ part = "products" => PagesInductive
  /\ part = "orders" => OrderPagesInductive

\* Whatever the catalogue and the orders do between two pages, and in whatever order requests
\* answer: pages of one version are the first pages of the list, each element once and
\* without a gap, and the products page says "nothing found" only where the server did.
THEOREM PagesTheorem == PartsSpec => []NothingSkipped
<1>1. PartsInit => NothingSkippedInductive
  BY PagesInitially, OrderPagesInitially DEF PartsInit, NothingSkippedInductive
<1>2. NothingSkippedInductive /\ [PartsNext]_partsVars => NothingSkippedInductive'
  <2> SUFFICES ASSUME NothingSkippedInductive, [PartsNext]_partsVars
               PROVE  NothingSkippedInductive'
    OBVIOUS
  <2>1. PagesInductive /\ (Paging!Next \/ UNCHANGED pagingVars) => PagesInductive'
    BY PagesNextKeep, PagesUntouched
  <2>2. OrderPagesInductive /\ (OrderList!Next \/ UNCHANGED orderListVars)
          => OrderPagesInductive'
    BY OrderPagesNextKeep, OrderPagesUntouched
  <2> QED
    BY <2>1, <2>2, PartMoves DEF NothingSkippedInductive
<1>3. NothingSkippedInductive => NothingSkipped
  BY PagesImply, OrderPagesImply DEF NothingSkippedInductive, NothingSkipped
<1> QED
  BY <1>1, <1>2, <1>3, PTL DEF PartsSpec

\* However layouts, scrolls, new lists, changes of focus and late timers interleave, every
\* card that is half in view is reported once in a session, and none twice.
THEOREM ExposureTheorem == PartsSpec => []ReportedOnce
<1>1. PartsInit => TrackerInductive
  BY TrackerInitially DEF PartsInit
<1>2. TrackerInductive /\ [PartsNext]_partsVars => TrackerInductive'
  BY TrackerNextKeeps, TrackerUntouched, PartMoves
<1>3. TrackerInductive => ReportedOnce
  BY TrackerImplies DEF ReportedOnce
<1> QED
  BY <1>1, <1>2, <1>3, PTL DEF PartsSpec

\* Nothing a user taps on the product page is carried out twice, or after another tap, or
\* for a guest, whatever fails and however often the page is left and come back to.
THEOREM TapsTheorem == PartsSpec => CarriedOutOnce
<1>1. PartsInit => DetailInductive
  BY DetailInitially DEF PartsInit
<1>2. DetailInductive /\ [PartsNext]_partsVars => DetailInductive' /\ [Once]_detailVars
  BY DetailNextKeeps, DetailUntouched, PartMoves
<1>3. [Once]_detailVars
        => [\A t \in Detail!Taps : sent'[t] # sent[t]
              => sent'[t] = 1 /\ member' /\ Detail!Cardinality(Detail!Used') = t]_Detail!vars
  BY SameCount DEF Once, Taps, Used, detailVars, Detail!vars
<1> QED
  BY <1>1, <1>2, <1>3, PTL DEF PartsSpec, CarriedOutOnce, Detail!CarriedOutOnce

\* However fast the switch is used and whatever fails or is killed, the choice stored is the
\* last one that could be; and a switch at rest at off, used one time after the other,
\* means that no event leaves and nothing is recorded.  The recording alone goes on in two
\* cases: the SDK would not stop when a failed switch went back to off, or the start of the app
\* was given up with the recording begun.
THEOREM ChoiceTheorem == PartsSpec => []ChoiceKept
<1>1. PartsInit => AnalyticsInductive
  BY AnalyticsInitially DEF PartsInit
<1>2. AnalyticsInductive /\ [PartsNext]_partsVars => AnalyticsInductive'
  BY AnalyticsNextKeeps, AnalyticsUntouched, PartMoves
<1>3. AnalyticsInductive => ChoiceKept
  BY AnalyticsImplies DEF ChoiceKept
<1> QED
  BY <1>1, <1>2, <1>3, PTL DEF PartsSpec

\* In whatever order people sign in and out and switch the analytics, the events that flow
\* are attributed to whoever is signed in; provided that uses of the switch did not overlap,
\* and that the SDK did not refuse the name when it last had to take one over.
THEOREM AttributionTheorem == PartsSpec => []EventsBelongToUser
<1>1. PartsInit => AnalyticsInductive
  BY AnalyticsInitially DEF PartsInit
<1>2. AnalyticsInductive /\ [PartsNext]_partsVars => AnalyticsInductive'
  BY AnalyticsNextKeeps, AnalyticsUntouched, PartMoves
<1>3. AnalyticsInductive => EventsBelongToUser
  BY AnalyticsImplies DEF EventsBelongToUser
<1> QED
  BY <1>1, <1>2, <1>3, PTL DEF PartsSpec

\* Whatever overlaps or is cut off, the phone keeps and shows the words of this session once a
\* search, login or logout has met no other; and one such logout sets everything right again.
THEOREM HistoryTheorem == PartsSpec => []HistoryOfSession
<1>1. PartsInit => HistoryInductive
  BY HistoryInitially DEF PartsInit
<1>2. HistoryInductive /\ [PartsNext]_partsVars => HistoryInductive'
  BY HistoryNextKeeps, HistoryUntouched, PartMoves
<1>3. HistoryInductive => HistoryOfSession
  BY HistoryImplies DEF HistoryOfSession
<1> QED
  BY <1>1, <1>2, <1>3, PTL DEF PartsSpec

\* However often a start is cut off, refused or repeated, the API serves over a whole schema
\* only; and apart from what a seed resets, no unit of stock or sales is lost.
THEOREM BootTheorem == PartsSpec => []ComesUpWhole
<1>1. PartsInit => BootInductive
  BY BootInitially DEF PartsInit
<1>2. BootInductive /\ [PartsNext]_partsVars => BootInductive'
  BY BootUntouched, BootNextKeeps, PartMoves
<1>3. BootInductive => ComesUpWhole
  BY BootImplies DEF ComesUpWhole
<1> QED
  BY <1>1, <1>2, <1>3, PTL DEF PartsSpec

LEMMA TypesInitially == PartsInit => TypesInductive
<1> SUFFICES ASSUME PartsInit PROVE TypesInductive
  OBVIOUS
<1> USE DEF PartsInit
<1>1. Inductive /\ Worded
  BY Start
<1>2. /\ PagesInductive /\ OrderPagesInductive /\ DetailInductive /\ AnalyticsInductive
      /\ HistoryInductive /\ TrackerInductive /\ BootInductive /\ StartTyped
  BY PagesInitially, OrderPagesInitially, DetailInitially, AnalyticsInitially,
     HistoryInitially, TrackerInitially, BootInitially, StartTypedInitially
<1>3. PageTyped
  BY DEF Detail!Init, PageTyped
<1>4. ClientTyped
  BY KillsCounted DEF Analytics!Init, ClientTyped
<1>5. SightTyped
  BY DEF Tracker!Init, SightTyped
<1> QED
  BY <1>1, <1>2, <1>3, <1>4, <1>5 DEF TypesInductive

LEMMA TypesKept == TypesInductive /\ [PartsNext]_partsVars => TypesInductive'
<1> SUFFICES ASSUME TypesInductive, [PartsNext]_partsVars PROVE TypesInductive'
  OBVIOUS
<1> USE DEF TypesInductive
<1>1. Inductive' /\ Worded'
  <2>1. [Next]_vars
    BY DEF PartsNext, partsVars
  <2> QED
    BY <2>1, Kept
<1>2. PagesInductive'
  BY PartMoves, PagesNextKeep, PagesUntouched
<1>3. OrderPagesInductive'
  BY PartMoves, OrderPagesNextKeep, OrderPagesUntouched
<1>4. DetailInductive' /\ PageTyped'
  <2>1. UNCHANGED detailVars => PageTyped'
    BY DEF detailVars, PageTyped, Used, Detail!Used
  <2> QED
    BY <2>1, PartMoves, DetailNextKeeps, DetailUntouched, PageTypedKeeps
<1>5. AnalyticsInductive' /\ ClientTyped'
  <2>1. UNCHANGED analyticsVars => ClientTyped'
    BY DEF analyticsVars, ClientTyped
  <2> QED
    BY <2>1, PartMoves, AnalyticsNextKeeps, AnalyticsUntouched, ClientTypedKeeps
<1>6. HistoryInductive'
  BY PartMoves, HistoryNextKeeps, HistoryUntouched
<1>7. TrackerInductive' /\ SightTyped'
  <2>1. UNCHANGED exposureVars => SightTyped'
    BY DEF exposureVars, SightTyped
  <2> QED
    BY <2>1, PartMoves, TrackerNextKeeps, TrackerUntouched, SightTypedKeeps
<1>8. BootInductive' /\ StartTyped'
  <2>1. UNCHANGED bootVars => StartTyped'
    BY DEF bootVars, StartTyped
  <2> QED
    BY <2>1, PartMoves, BootNextKeeps, BootUntouched, StartTypedKeeps
<1> QED
  BY <1>1, <1>2, <1>3, <1>4, <1>5, <1>6, <1>7, <1>8

\* Whatever each part does, and for any sizes, its state is one the code can be in: the
\* history has each word once and no more than it may, the stock is not negative, the queue of
\* writes is that of the calls that wait, and the container gives up waiting in time.
THEOREM TypesTheorem == PartsSpec => []PartsTypeOK
BY TypesInitially, TypesKept, TypesImply, PTL DEF PartsSpec
==============================================================================
