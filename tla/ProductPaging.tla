---------------------------- MODULE ProductPaging ----------------------------
(***************************************************************************)
(* The product waterfall of the home and search screens                    *)
(* (useProductPagination) and the list endpoint that feeds it.             *)
(*                                                                         *)
(* Answers come in any order, in any number, or not at all; the hook only  *)
(* listens to its newest request.  The event handlers on the screen see    *)
(* the state as it was last rendered (`view`), which may lag behind by     *)
(* some events but is up to date when an answer of the network arrives.    *)
(***************************************************************************)
EXTENDS Integers, Sequences, FiniteSets, SequencesExt, Sorting

CONSTANTS
  Products,     \* identifiers, in the order of their strings
  Price, CreatedAt, Prefixed,   \* columns of a product; Prefixed: the name starts with the keyword
  Sorts, Keywords,
  Hits,         \* Hits[k]: the products whose name contains the keyword
  Requests,     \* requests that can be under way at the same time
  PageSize,
  MaxChanges,   \* bound: changes of the catalogue
  MaxPage,      \* bound: the last page asked for; after an omission the hook never stops asking
  None

VARIABLES
  sales, onSale,      \* the catalogue, which payments and the shop change
  version,            \* how often it has changed
  calls,              \* requests under way
  newest,             \* requestIdRef: the request the hook listens to
  query,              \* what fetchPage asks for; None while the hook is not enabled
  items, page, total, \* state of the hook
  spin,               \* which of isInitialLoading, isRefreshing, isLoadingMore are set
  loadingMore,        \* loadingMoreRef
  error,              \* hasError and errorVisible
  served,             \* versions of the catalogue the items come from
  view                \* what loadMore reads of the last rendered state

catalogue == <<sales, onSale, version>>
shown == <<items, page, total, error, served>>
vars == <<catalogue, calls, newest, query, shown, spin, loadingMore, view>>

Queries == [keyword : Keywords \cup {None}, sort : Sorts]
Free == [stage |-> "free", mode |-> None, page |-> 0, query |-> None, answer |-> None]

------------------------------------------------------------------------------
(* ProductsService.list                                                    *)

\* ORDER BY: the columns of a query, the more significant first, each descending.
Rank(q, p) ==
  IF q.keyword # None THEN <<IF p \in Prefixed[q.keyword] THEN 1 ELSE 0, sales[p], p>>
  ELSE CASE q.sort = "price_desc" -> <<Price[p], p>>
         [] q.sort = "price_asc"  -> <<-Price[p], -p>>
         [] q.sort = "sales"      -> <<sales[p], p>>
         [] q.sort = "newest"     -> <<CreatedAt[p], p>>
         [] OTHER                 -> <<sales[p], CreatedAt[p], p>>

Precedes(q, a, b) ==
  LET r == Rank(q, a)
      s == Rank(q, b)
  IN  \E i \in DOMAIN r : r[i] > s[i] /\ \A j \in 1..(i - 1) : r[j] = s[j]

Matching(q) == {p \in Products : onSale[p] /\ (q.keyword # None => p \in Hits[q.keyword])}
Listing(q) ==
  Sorted(Matching(q), {p \in Products \X Products : Precedes(q, p[1], p[2])})

Recommended == [keyword |-> None, sort |-> "comprehensive"]
IsFallback(q) == q.keyword # None /\ Matching(q) = {}

PageOf(list, n) ==
  SubSeq(list, (n - 1) * PageSize + 1, Min({Len(list), n * PageSize}))

\* A keyword that matches nothing is answered with the first recommended page.
List(q, n) ==
  LET asked == IF IsFallback(q) THEN Recommended ELSE q
      given == IF IsFallback(q) THEN 1 ELSE n
  IN  [items |-> PageOf(Listing(asked), given), page |-> given,
       total |-> Len(Listing(asked)), version |-> version]

------------------------------------------------------------------------------
(* The hook.                                                               *)

HasMore == Len(items) < total
Rendered == [page |-> page, more |-> HasMore, busy |-> spin # {}]

\* loadPage up to its await: the new request supersedes whatever is under way.
LoadPage(r, q, n, mode) ==
  /\ calls[r] = Free
  /\ calls' = [calls EXCEPT ![r] = [Free EXCEPT !.stage = "sent", !.mode = mode,
                                                 !.page = n, !.query = q]]
  /\ newest' = r
  /\ spin' = spin \cup {mode}
  /\ loadingMore' = (loadingMore \/ mode = "more")

\* The home screen never has a keyword, the search screen always has.
OnScreen(q) == (q.keyword = None) <=> (query # None /\ query.keyword = None)

\* Mutant of NewQuery: the reset does not supersede the request under way.
NewQueryKept(r, q) ==
  /\ q # query /\ OnScreen(q) /\ calls[r] = Free
  /\ query' = q
  /\ items' = <<>> /\ page' = 1 /\ total' = 0 /\ error' = "none" /\ served' = {}
  /\ IF newest = None
     THEN LoadPage(r, q, 1, "initial")
     ELSE UNCHANGED <<calls, newest, spin, loadingMore>>
  /\ view' = [page |-> 1, more |-> FALSE, busy |-> TRUE]
  /\ UNCHANGED catalogue

\* Another order or keyword: the effect of a new fetchPage, once rendered.
NewQuery(r, q) ==
  /\ q # query /\ OnScreen(q)
  /\ LoadPage(r, q, 1, "initial")
  /\ query' = q
  /\ items' = <<>> /\ page' = 1 /\ total' = 0 /\ error' = "none" /\ served' = {}
  /\ view' = [page |-> 1, more |-> FALSE, busy |-> TRUE]
  /\ UNCHANGED catalogue

\* The search screen's request counter makes a new fetchPage of the same keyword.
SearchAgain(r) ==
  /\ query # None /\ query.keyword # None
  /\ LoadPage(r, query, 1, "initial")
  /\ items' = <<>> /\ page' = 1 /\ total' = 0 /\ error' = "none" /\ served' = {}
  /\ view' = [page |-> 1, more |-> FALSE, busy |-> TRUE]
  /\ UNCHANGED <<catalogue, query>>

\* The list is pulled down.
Refresh(r) ==
  /\ query # None
  /\ LoadPage(r, query, 1, "refresh")
  /\ UNCHANGED <<catalogue, query, shown, view>>

\* The snackbar's button.
Retry(r) ==
  /\ query # None /\ error = "visible"
  /\ LoadPage(r, query, 1, IF items = <<>> THEN "initial" ELSE "refresh")
  /\ error' = "dismissed"
  /\ UNCHANGED <<catalogue, query, items, page, total, served, view>>

DismissError ==
  /\ error = "visible"
  /\ error' = "dismissed"
  /\ UNCHANGED <<catalogue, calls, newest, query, items, page, total, spin, loadingMore,
                 served, view>>

\* The end of the list comes into sight.
LoadMore(r) ==
  /\ view.page < MaxPage
  /\ query # None /\ ~view.busy /\ ~loadingMore /\ view.more
  /\ LoadPage(r, query, view.page + 1, "more")
  /\ UNCHANGED <<catalogue, query, shown, view>>

\* React catches up with the state.
Render ==
  /\ view # Rendered
  /\ view' = Rendered
  /\ UNCHANGED <<catalogue, calls, newest, query, shown, spin, loadingMore>>

\* The server reads the page.
Serve(r) ==
  /\ calls[r].stage = "sent"
  /\ calls' = [calls EXCEPT ![r].stage = "served",
                            ![r].answer = List(calls[r].query, calls[r].page)]
  /\ UNCHANGED <<catalogue, newest, query, shown, spin, loadingMore, view>>

\* Mutant of Ended: a superseded request that ends clears the indicators too.
EndedAny(r) ==
  /\ calls' = [calls EXCEPT ![r] = Free]
  /\ newest' = (IF r = newest THEN None ELSE newest)
  /\ spin' = {} /\ loadingMore' = FALSE

\* finally: only the newest request clears the indicators.
Ended(r) ==
  /\ calls' = [calls EXCEPT ![r] = Free]
  /\ IF r = newest
     THEN newest' = None /\ spin' = {} /\ loadingMore' = FALSE
     ELSE UNCHANGED <<newest, spin, loadingMore>>

\* Items that are not shown yet.
Fresh(list) == At(list, {i \in DOMAIN list : list[i] \notin ToSet(items)})

\* Mutant of Receive: every answer is listened to.
ReceiveAny(r) ==
  /\ calls[r].stage = "served" /\ view = Rendered
  /\ Ended(r)
  /\ LET data == calls[r].answer
     IN  /\ error' = "none" /\ total' = data.total /\ page' = data.page
         /\ items' = (IF calls[r].mode = "more" THEN items \o Fresh(data.items) ELSE data.items)
         /\ served' = (IF calls[r].mode = "more" THEN served \cup {data.version} ELSE {data.version})
  /\ UNCHANGED <<catalogue, query, view>>

\* An answer; one that is superseded is dropped.
Receive(r) ==
  /\ calls[r].stage = "served" /\ view = Rendered
  /\ Ended(r)
  /\ LET data == calls[r].answer
         appended == calls[r].mode = "more"
     IN  IF r = newest
         THEN /\ error' = "none" /\ total' = data.total /\ page' = data.page
              /\ items' = (IF appended THEN items \o Fresh(data.items) ELSE data.items)
              /\ served' = (IF appended THEN served \cup {data.version} ELSE {data.version})
         ELSE UNCHANGED shown
  /\ UNCHANGED <<catalogue, query, view>>

\* The request fails before or after the server has served it.
FailRequest(r) ==
  /\ calls[r] # Free /\ view = Rendered
  /\ Ended(r)
  /\ error' = (IF r = newest THEN "visible" ELSE error)
  /\ UNCHANGED <<catalogue, query, items, page, total, served, view>>

------------------------------------------------------------------------------
(* The catalogue.                                                          *)

Change ==
  /\ version < MaxChanges
  /\ version' = version + 1
  /\ UNCHANGED <<calls, newest, query, shown, spin, loadingMore, view>>

\* A payment counts the units as sold.
Sell(p) == Change /\ sales' = [sales EXCEPT ![p] = @ + 1] /\ UNCHANGED onSale

ToggleOnSale(p) == Change /\ onSale' = [onSale EXCEPT ![p] = ~@] /\ UNCHANGED sales

\* The screen is mounted: home asks at once, search waits for a keyword.
Init ==
  /\ sales = [p \in Products |-> 0]
  /\ onSale = [p \in Products |-> TRUE]
  /\ version = 0
  /\ items = <<>> /\ page = 1 /\ total = 0 /\ error = "none" /\ served = {}
  /\ loadingMore = FALSE
  /\ \/ /\ query = None /\ newest = None /\ spin = {}
        /\ calls = [r \in Requests |-> Free]
     \/ \E r \in Requests :
           /\ query = Recommended /\ newest = r /\ spin = {"initial"}
           /\ calls = [s \in Requests |->
                         IF s = r THEN [Free EXCEPT !.stage = "sent", !.mode = "initial",
                                                    !.page = 1, !.query = Recommended]
                                  ELSE Free]
  /\ view = Rendered

Next ==
  \/ \E r \in Requests :
        \/ \E q \in Queries : NewQuery(r, q)
        \/ SearchAgain(r) \/ Refresh(r) \/ Retry(r) \/ LoadMore(r)
        \/ Serve(r) \/ Receive(r) \/ FailRequest(r)
  \/ DismissError
  \/ Render
  \/ \E p \in Products : Sell(p) \/ ToggleOnSale(p)

Spec == Init /\ [][Next]_vars

------------------------------------------------------------------------------
(* Properties.                                                             *)

Modes == {"initial", "refresh", "more"}

TypeOK ==
  /\ onSale \in [Products -> BOOLEAN] /\ version \in 0..MaxChanges
  /\ sales \in [Products -> 0..MaxChanges]
  /\ query \in Queries \cup {None}
  /\ newest \in Requests \cup {None}
  /\ \A r \in Requests : calls[r].stage \in {"free", "sent", "served"}
  /\ ToSet(items) \subseteq Products /\ page \in Nat \ {0} /\ total \in Nat
  /\ spin \subseteq Modes /\ loadingMore \in BOOLEAN
  /\ error \in {"none", "visible", "dismissed"}

\* An indicator is on exactly while the request the hook listens to is under way, so
\* that no order of answers, failures and new requests leaves one spinning or
\* lets two requests for more pages run.
IndicatorsMatch ==
  /\ (newest # None) <=> (spin # {})
  /\ newest # None => calls[newest] # Free /\ calls[newest].mode \in spin
  /\ loadingMore => "more" \in spin

\* README.md:187.  While the catalogue stays as it was when the shown pages were read,
\* they are its first pages in the order asked for, each once and without a gap,
\* whatever was refreshed, retried, reordered or answered late.
NothingSkipped ==
  query # None /\ served = {version} /\ ~IsFallback(query)
    => items = SubSeq(Listing(query), 1, Min({Len(Listing(query)), page * PageSize}))

\* "Nothing found" is shown only when the server has found nothing for this very query.
HonestEmpty ==
  /\ query # None /\ items = <<>> /\ error = "none"
  /\ spin \cap {"initial", "refresh"} = {}
  => served # {} /\ total = 0
==============================================================================
