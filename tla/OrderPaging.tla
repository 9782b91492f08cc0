----------------------------- MODULE OrderPaging -----------------------------
(***************************************************************************)
(* The list of orders (useOrderPagination, OrderListScreen): tabs, paging, *)
(* and the silent reload when the screen or the app comes back.            *)
(*                                                                         *)
(* As in ProductPaging, handlers see the state as last rendered (`view`),  *)
(* which is up to date when an answer of the network arrives.              *)
(***************************************************************************)
EXTENDS Integers, Sequences, FiniteSets, SequencesExt, Sorting

CONSTANTS
  Orders,       \* in the order of (createdAt, id)
  Seeded,       \* the orders that exist at first
  Tabs,         \* "all" and statuses
  Requests, PageSize, None,
  MaxChanges,   \* bound: changes of the orders
  MaxPage       \* bound: the last page asked for

VARIABLES
  status,       \* orders by status; None before they are placed
  version,      \* how often the orders have changed
  calls,        \* requests under way
  newest,       \* requestIdRef
  tab,          \* the tab; None while nobody is signed in
  items, page, total, error,
  spin,         \* which of isInitialLoading, isRefreshing, isLoadingMore are set
  moreRequest,  \* loadingMoreRequestIdRef, and with it loadingMoreRef
  pageOne,      \* pageOneLoadingRef
  served,       \* versions of the orders that the items come from
  late,         \* the items contain a page that was asked for by an outdated handler
  view          \* what loadMore reads of the last rendered state

database == <<status, version>>
shown == <<items, page, total, error, served, late>>
flags == <<spin, moreRequest, pageOne>>
vars == <<database, calls, newest, tab, shown, flags, view>>

Status == {"pending", "paid"}
Free == [stage |-> "free", mode |-> None, page |-> 0, tab |-> None, answer |-> None]

------------------------------------------------------------------------------
(* OrdersService.list                                                      *)

OfTab(t) == {o \in Orders : status[o] # None /\ t \in {"all", status[o]}}
Listing(t) == Sorted(OfTab(t), {p \in Orders \X Orders : p[1] > p[2]})
FirstPages(list, n) == SubSeq(list, 1, Min({Len(list), n * PageSize}))

List(t, n) ==
  [items |-> SubSeq(Listing(t), (n - 1) * PageSize + 1, Min({Len(Listing(t)), n * PageSize})),
   page |-> n, total |-> Len(Listing(t)), version |-> version]

------------------------------------------------------------------------------
(* The hook.                                                               *)

Rendered == [page |-> page, more |-> Len(items) < total, busy |-> spin # {}]

\* Mutant of LoadPage: page one does not supersede the bookkeeping of more pages.
LoadPageOver(r, t, n, mode) ==
  /\ calls[r] = Free
  /\ calls' = [calls EXCEPT ![r] = [Free EXCEPT !.stage = "sent", !.mode = mode,
                                                 !.page = n, !.tab = t]]
  /\ newest' = r
  /\ pageOne' = (pageOne \/ mode # "more")
  /\ moreRequest' = (IF mode = "more" THEN r ELSE moreRequest)
  /\ spin' = spin \cup ({mode} \ {"silent"})

\* load up to its await.
LoadPage(r, t, n, mode) ==
  /\ calls[r] = Free
  /\ calls' = [calls EXCEPT ![r] = [Free EXCEPT !.stage = "sent", !.mode = mode,
                                                 !.page = n, !.tab = t]]
  /\ newest' = r
  /\ pageOne' = (pageOne \/ mode # "more")
  /\ moreRequest' = (IF mode = "more" THEN r ELSE None)
  /\ spin' = (IF mode = "more" THEN spin ELSE spin \ {"more"}) \cup ({mode} \ {"silent"})

Cleared ==
  /\ items' = <<>> /\ page' = 1 /\ total' = 0 /\ error' = FALSE
  /\ served' = {} /\ late' = FALSE

\* Another tab, or somebody signs in: the effect of a new load, once rendered.
OpenTab(r, t) ==
  /\ t # tab /\ calls[r] = Free
  /\ calls' = [calls EXCEPT ![r] = [Free EXCEPT !.stage = "sent", !.mode = "initial",
                                                 !.page = 1, !.tab = t]]
  /\ newest' = r /\ tab' = t
  /\ Cleared
  /\ spin' = {"initial"} /\ moreRequest' = None /\ pageOne' = TRUE
  /\ view' = [page |-> 1, more |-> FALSE, busy |-> TRUE]
  /\ UNCHANGED database

SignOut ==
  /\ tab # None
  /\ tab' = None /\ newest' = None
  /\ Cleared
  /\ spin' = {} /\ moreRequest' = None /\ pageOne' = FALSE
  /\ view' = [page |-> 1, more |-> FALSE, busy |-> FALSE]
  /\ UNCHANGED <<database, calls>>

\* refresh and retry; and refetch, when the screen is focused again or the app resumes.
Reload(r, mode) ==
  /\ tab # None /\ ~pageOne
  /\ LoadPage(r, tab, 1, mode)
  /\ UNCHANGED <<database, tab, shown, view>>

Refresh(r) == Reload(r, "refresh")
Refetch(r) == Reload(r, "silent")

LoadMore(r) ==
  /\ view.page < MaxPage
  /\ tab # None /\ ~view.busy /\ view.more
  /\ moreRequest = None /\ ~pageOne
  /\ LoadPage(r, tab, view.page + 1, "more")
  /\ late' = (late \/ view.page # page)
  /\ UNCHANGED <<database, tab, items, page, total, error, served, view>>

DismissError ==
  /\ error
  /\ error' = FALSE
  /\ UNCHANGED <<database, calls, newest, tab, items, page, total, served, late, flags, view>>

Render ==
  /\ view # Rendered
  /\ view' = Rendered
  /\ UNCHANGED <<database, calls, newest, tab, shown, flags>>

Serve(r) ==
  /\ calls[r].stage = "sent"
  /\ calls' = [calls EXCEPT ![r].stage = "served",
                            ![r].answer = List(calls[r].tab, calls[r].page)]
  /\ UNCHANGED <<database, newest, tab, shown, flags, view>>

\* finally
Ended(r) ==
  /\ calls' = [calls EXCEPT ![r] = Free]
  /\ newest' = (IF r = newest THEN None ELSE newest)
  /\ moreRequest' = (IF r = moreRequest THEN None ELSE moreRequest)
  /\ spin' = spin \ ((IF r = moreRequest THEN {"more"} ELSE {})
                     \cup (IF r = newest THEN {"initial", "refresh"} ELSE {}))
  /\ pageOne' = (pageOne /\ r # newest)

\* Orders that are not shown yet.
Fresh(list) == At(list, {i \in DOMAIN list : list[i] \notin ToSet(items)})

\* Mutant of Receive: every answer is listened to.
ReceiveAny(r) ==
  /\ calls[r].stage = "served" /\ view = Rendered
  /\ Ended(r)
  /\ LET data == calls[r].answer
         appended == calls[r].mode = "more"
     IN  /\ error' = FALSE /\ page' = data.page /\ total' = data.total
         /\ items' = (IF appended THEN items \o Fresh(data.items) ELSE data.items)
         /\ served' = (IF appended THEN served \cup {data.version} ELSE {data.version})
         /\ late' = (late /\ appended)
  /\ UNCHANGED <<database, tab, view>>

\* An answer; one that is superseded is dropped.
Receive(r) ==
  /\ calls[r].stage = "served" /\ view = Rendered
  /\ Ended(r)
  /\ LET data == calls[r].answer
         appended == calls[r].mode = "more"
     IN  IF r = newest
         THEN /\ error' = FALSE /\ page' = data.page /\ total' = data.total
              /\ items' = (IF appended THEN items \o Fresh(data.items) ELSE data.items)
              /\ served' = (IF appended THEN served \cup {data.version} ELSE {data.version})
              /\ late' = (late /\ appended)
         ELSE UNCHANGED shown
  /\ UNCHANGED <<database, tab, view>>

FailRequest(r) ==
  /\ calls[r] # Free /\ view = Rendered
  /\ Ended(r)
  /\ error' = (error \/ r = newest)
  /\ UNCHANGED <<database, tab, items, page, total, served, late, view>>

------------------------------------------------------------------------------
(* The orders.                                                             *)

\* An order is placed, paid or cancelled: it enters a list, or changes its tab.
Change(o) ==
  /\ version < MaxChanges
  /\ version' = version + 1
  /\ \E s \in Status \ {status[o]} : status' = [status EXCEPT ![o] = s]
  /\ UNCHANGED <<calls, newest, tab, shown, flags, view>>

Init ==
  /\ status = [o \in Orders |-> IF o \in Seeded THEN "pending" ELSE None]
  /\ version = 0
  /\ calls = [r \in Requests |-> Free] /\ newest = None /\ tab = None
  /\ items = <<>> /\ page = 1 /\ total = 0 /\ error = FALSE /\ served = {} /\ late = FALSE
  /\ spin = {} /\ moreRequest = None /\ pageOne = FALSE
  /\ view = Rendered

Next ==
  \/ \E r \in Requests :
        \/ \E t \in Tabs : OpenTab(r, t)
        \/ Refresh(r) \/ Refetch(r) \/ LoadMore(r)
        \/ Serve(r) \/ Receive(r) \/ FailRequest(r)
  \/ SignOut
  \/ DismissError
  \/ Render
  \/ \E o \in Orders : Change(o)

Spec == Init /\ [][Next]_vars

------------------------------------------------------------------------------
(* Properties.                                                             *)

TypeOK ==
  /\ status \in [Orders -> Status \cup {None}] /\ version \in 0..MaxChanges
  /\ tab \in Tabs \cup {None}
  /\ newest \in Requests \cup {None} /\ moreRequest \in Requests \cup {None}
  /\ pageOne \in BOOLEAN /\ error \in BOOLEAN /\ late \in BOOLEAN
  /\ ToSet(items) \subseteq Orders /\ page \in Nat \ {0} /\ total \in Nat
  /\ spin \subseteq {"initial", "refresh", "more"}
  /\ served \subseteq 0..MaxChanges

\* The indicators and the refs that guard loading agree with the one request that counts:
\* a reload that overtakes a request for more pages leaves no spinner behind and
\* blocks nothing for ever, whichever of the two answers or fails first.
OrderIndicatorsMatch ==
  /\ pageOne <=> newest # None /\ calls[newest].mode # "more"
  /\ moreRequest # None => newest = moreRequest /\ calls[newest].mode = "more"
  /\ "more" \in spin <=> moreRequest # None
  /\ spin \cap {"initial", "refresh"} # {} => pageOne

\* While the orders stay as they were when the pages were read, the list shows the
\* first pages of the open tab, newest order first, without a gap; except after
\* a handler that was rendered before the last silent reload has asked for more.
NoOrderSkipped ==
  tab # None /\ served = {version} /\ ~late => items = FirstPages(Listing(tab), page)
==============================================================================
