-------------------------------- MODULE Parts --------------------------------
(***************************************************************************)
(* The parts that share no state with each other: the addresses of a user  *)
(* and the start of the API on the server; the lists, the product page and *)
(* the clients of the phone.  (Purchase does the same for the shop and the *)
(* screens on the way to an order.)                                        *)
(*                                                                         *)
(* A behaviour of all of them is an interleaving of one behaviour of each, *)
(* and every property below speaks of one part.  It is therefore enough to *)
(* let one part move (`part`) while the others stay where they start.      *)
(***************************************************************************)
EXTENDS Addresses, Sequences

CONSTANTS
  \* the product waterfall; Requests also serve the order list
  Products, Price, CreatedAt, Prefixed, Sorts, Keywords, Hits, Requests, PageSize,
  MaxChanges, MaxPage,
  \* the order list
  Orders, Seeded, Tabs,
  \* the product page
  Opened, MaxTaps,
  \* the analytics client
  Toggles, Boot, Users, MaxKills,
  \* the search history
  Words, SEARCH_HISTORY_LIMIT, MaxQueue,
  \* the exposure tracker, of the products in Opened
  Tops, Height, Wait,
  \* the start of the API
  BootOrders, InitStock, MaxAttempts

ASSUME NoneIsNoCaller == None \notin Requests
ASSUME BootIsNoToggle == Boot \notin Toggles \cup {None} /\ None \notin Toggles
ASSUME NoneIsNoTime == None \notin Int
ASSUME ProductsOrdered == Products \subseteq Nat /\ IsFiniteSet(Products)
ASSUME ColumnsFilled == \A p \in Products : Price[p] \in Int /\ CreatedAt[p] \in Int
ASSUME HomeSort == "comprehensive" \in Sorts
ASSUME PageSizePositive == PageSize \in Nat \ {0}
ASSUME HitsInCatalogue == \A k \in Keywords : Hits[k] \subseteq Products
ASSUME OrdersOrdered == Seeded \subseteq Orders /\ Orders \subseteq Nat /\ IsFiniteSet(Orders)
ASSUME ChangesCount == MaxChanges \in Nat
ASSUME OpenedInCatalogue == Opened \subseteq Products
ASSUME TapsCounted == MaxTaps \in Nat
ASSUME KillsCounted == MaxKills \in Nat
ASSUME AttemptsCounted == MaxAttempts \in Nat \ {0}
ASSUME Shelved == IsFiniteSet(BootOrders) /\ InitStock \in Nat
ASSUME HistoryBounds == SEARCH_HISTORY_LIMIT \in Nat /\ MaxQueue \in Nat
ASSUME Measures == Tops \subseteq Int /\ Height \in Nat \ {0} /\ Wait \in Nat \ {0}

VARIABLES
  part,
  \* ProductPaging
  sales, onSale, version, calls, newest, query, items, page, total, spin,
  loadingMore, error, served, view,
  \* OrderPaging
  status, orderVersion, orderCalls, orderNewest, tab, orderItems, orderPage, orderTotal,
  orderError, orderSpin, moreRequest, pageOne, orderServed, late, orderView,
  \* ProductDetail
  at, product, load, member, pending, awaiting, adding, orphans, taps, sent,
  \* Telemetry
  stored, enabled, capture, sdk, user, desired, applied, telemetryCalls, queue, latest,
  asked, outcome, raced, slips, kills,
  \* SearchHistory
  kept, tokens, signedIn, focused, history, storageQueue, leaving, ideal, historyRaced,
  \* Exposure
  cards, layouts, viewport, seenIds, reports, since, timer, inView,
  \* Boot
  phase, mysql, attempts, seedAsked, schema, ran, recorded, phone, shelf, bootOrders, carried

Paging == INSTANCE ProductPaging
OrderList == INSTANCE OrderPaging
  WITH version <- orderVersion, calls <- orderCalls, newest <- orderNewest,
       items <- orderItems, page <- orderPage, total <- orderTotal, error <- orderError,
       spin <- orderSpin, served <- orderServed, view <- orderView
Detail == INSTANCE ProductDetail WITH Products <- Opened
Analytics == INSTANCE Telemetry WITH calls <- telemetryCalls
Searches == INSTANCE SearchHistory
  WITH user <- signedIn, queue <- storageQueue, raced <- historyRaced
Tracker == INSTANCE Exposure WITH Products <- Opened, items <- cards, focused <- inView
Entrypoint == INSTANCE Boot WITH Orders <- BootOrders, orders <- bootOrders, asked <- seedAsked

pagingVars == <<sales, onSale, version, calls, newest, query, items, page, total, spin,
                loadingMore, error, served, view>>
orderListVars == <<status, orderVersion, orderCalls, orderNewest, tab, orderItems, orderPage,
                   orderTotal, orderError, orderSpin, moreRequest, pageOne, orderServed, late,
                   orderView>>
detailVars == <<at, product, load, member, pending, awaiting, adding, orphans, taps, sent>>
analyticsVars == <<stored, enabled, capture, sdk, user, desired, applied, telemetryCalls,
                   queue, latest, asked, outcome, raced, slips, kills>>
historyVars == <<kept, tokens, signedIn, focused, history, storageQueue, leaving, ideal,
                 historyRaced>>
exposureVars == <<cards, layouts, viewport, seenIds, reports, since, timer, inView>>
bootVars == <<phase, mysql, attempts, seedAsked, schema, ran, recorded, phone, shelf,
              bootOrders, carried>>

listVars == <<pagingVars, orderListVars, detailVars>>
clientVars == <<analyticsVars, historyVars, exposureVars>>
partsVars == <<part, vars, listVars, clientVars, bootVars>>

\* Where a part can start in several ways, one of them will do while it stands still.
PartsInit ==
  /\ part \in {"addresses", "products", "orders", "detail", "analytics", "history",
               "exposure", "boot"}
  /\ Init /\ Paging!Init /\ OrderList!Init /\ Detail!Init
  /\ Analytics!Init /\ Searches!Init /\ Tracker!Init /\ Entrypoint!Init
  /\ part # "products" => query = None
  /\ part # "boot" => schema = 0

PartsNext ==
  \/ /\ part = "addresses" /\ Next
     /\ UNCHANGED <<part, listVars, clientVars, bootVars>>
  \/ /\ part = "products" /\ Paging!Next
     /\ UNCHANGED <<part, vars, orderListVars, detailVars, clientVars, bootVars>>
  \/ /\ part = "orders" /\ OrderList!Next
     /\ UNCHANGED <<part, vars, pagingVars, detailVars, clientVars, bootVars>>
  \/ /\ part = "detail" /\ Detail!Next
     /\ UNCHANGED <<part, vars, pagingVars, orderListVars, clientVars, bootVars>>
  \/ /\ part = "analytics" /\ Analytics!Next
     /\ UNCHANGED <<part, vars, listVars, historyVars, exposureVars, bootVars>>
  \/ /\ part = "history" /\ Searches!Next
     /\ UNCHANGED <<part, vars, listVars, analyticsVars, exposureVars, bootVars>>
  \/ /\ part = "exposure" /\ Tracker!Next
     /\ UNCHANGED <<part, vars, listVars, analyticsVars, historyVars, bootVars>>
  \/ /\ part = "boot" /\ Entrypoint!Next
     /\ UNCHANGED <<part, vars, listVars, clientVars>>

PartsSpec == PartsInit /\ [][PartsNext]_partsVars

\* A part that stands still is as it started: only the one that moves needs a look.
PartsTypeOK ==
  /\ part = "addresses" => TypeOK
  /\ part = "products" => Paging!TypeOK
  /\ part = "orders" => OrderList!TypeOK
  /\ part = "detail" => Detail!TypeOK
  /\ part = "analytics" => Analytics!TypeOK
  /\ part = "history" => Searches!TypeOK
  /\ part = "exposure" => Tracker!TypeOK
  /\ part = "boot" => Entrypoint!TypeOK

\* See ProductPaging and OrderPaging: an indicator or a guard is on exactly while a request
\* that counts is under way, in the waterfall and in the order list.
IndicatorsMatch ==
  /\ part = "products" => Paging!IndicatorsMatch
  /\ part = "orders" => OrderList!OrderIndicatorsMatch

\* See ProductPaging and OrderPaging: the pages shown are the first ones, each once and
\* without a gap, and "nothing found" is what the server said.
NothingSkipped ==
  /\ part = "products" => Paging!NothingSkipped /\ Paging!HonestEmpty
  /\ part = "orders" => OrderList!NoOrderSkipped

\* See ProductDetail: nothing a user taps is carried out twice or after another tap.
CarriedOutOnce == Detail!CarriedOutOnce

\* See Telemetry: switched off, no event leaves and nothing is recorded; and the choice that
\* survives a restart is the last one made.
ChoiceKept == part = "analytics" => Analytics!OffMeansOff /\ Analytics!LastChoiceStored

\* See Telemetry: events are attributed to whoever is signed in.
EventsBelongToUser == part = "analytics" => Analytics!EventsBelongToUser

\* See SearchHistory: undisturbed, the phone keeps and shows the words of this session.
HistoryOfSession == part = "history" => Searches!HistoryOfSession

\* See Exposure: a card that is in view is reported, and once in a session.
ReportedOnce == part = "exposure" => Tracker!ReportedOnce

\* See Boot: the API serves over a whole schema only, and apart from what a seed resets,
\* stock and sales stay in balance with the orders over every restart.
ComesUpWhole == part = "boot" => Entrypoint!ServesWhole /\ Entrypoint!SeedBalance
==============================================================================
