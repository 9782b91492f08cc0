# Verification of LightBuy (轻购)

TLA+ models of the shop in this repository, the TLC runs that check them and the
theorems TLAPS proves about them. Paths are relative to the repository's root.

## 1. The system

LightBuy is a shop of three packages: a NestJS API (`apps/api`) over MySQL 8
(InnoDB, REPEATABLE READ), an Expo app (`apps/mobile`) and shared types
(`packages/shared`). One replica of the API runs; every request is served
concurrently with the others, and so is a cron job inside the same process.

| part | state it keeps | operations | talks to |
|---|---|---|---|
| Orders (`orders/orders.service.ts`) | `orders`, `order_items`, `products.stock`, `products.sales` | create (items or cart), pay, cancel; getById, list | cart, addresses, products; called by the job |
| Order jobs (`orders/order-jobs.ts`) | status and timestamps of orders | tick: cancel unpaid, mark awaiting receipt, complete | OrdersService |
| Cart (`cart/cart.service.ts`) | `cart_items` | add, patch, remove; list | products |
| Addresses (`addresses/addresses.service.ts`) | `addresses`, one default | create, update, remove; list | snapshot taken by orders |
| Authentication (`auth/auth.service.ts`) | `users`, `refresh_tokens` | register, login, refresh, logout, reuse detection | the phone's interceptors |
| Session on the phone (`api/interceptors.ts`, `auth/`, `storage/tokens.ts`, `store/auth.ts`) | SecureStore, the session in memory, the refresh in flight | send and replay, refresh, cold start, login, logout | API, every screen |
| Catalogue (`products/`, `hooks/use*Pagination.ts`) | pages shown, loading flags, request generation | list, search, sort, next page, refresh | products table |
| Telemetry (`analytics/client.ts`) | consent, identity, SDK client | init, identify, opt in and out | PostHog |
| Search history (`storage/search-history.ts`) | one stored list | add, clear | logout |
| Screens (cart, checkout, product, order, addresses) | what is shown, form, busy flags, sequence of answers | load, edit, submit, pay, cancel | API |
| Exposure (`utils/product-exposure.ts`, `hooks/useProductExposure.ts`) | products seen, throttle and timer | layout, scroll, focus | telemetry |
| Start (`docker-entrypoint.sh`, `migrations/`, `database/seed.ts`) | schema, record of migrations, seeded rows | wait for MySQL, migrate, seed, serve | all of the above |

What is hard in it:

* **Concurrency in the database.** Checkouts, payments, cancellations, cart edits
  and the cron touch the same rows in different orders. Overselling, restocking
  twice, deadlocks and lost cart edits are possible in principle, and the code
  relies on row locks, sorted ids and conditional updates against them.
* **Time.** Deadlines are computed in milliseconds and compared with DATETIME
  columns rounded to the second; ticks may overlap and work with an old `now`.
* **Sequences of statements without a transaction.** Authentication reads, inserts
  and saves in separate statements.
* **Asynchronous client code.** The refresh in flight is shared by every caller and
  races with logout, login, kills and timeouts.
* **Crashes and lost answers** at any of those points.

The full list, with the line where each bites, is `hazards` in `PROJECT.json`.

What makes each part correct, in a sentence: *orders* – units are neither created
nor lost, and every request is all or nothing; *jobs* – no order moves early, none
is forgotten, and ticks that overlap do no harm; *cart* – a line never grows past
the shelf, and a checkout buys exactly the lines it removes; *addresses* – one
default whenever there is an address; *authentication* – a refresh token is
exchanged once, and revoked only for a reason; *session* – one refresh at a time,
nobody waits for ever, a logout is final; *lists* – what is shown is a prefix of what the
server has, and spinners go with the request they belong to; *product page* – a tap is
carried out once; *cart, order and address screens* – each ends up with what the database
has, and no button stays off; *checkout* – one order per use, for the lines the form showed;
*telemetry* – off means off, and events belong to whoever is signed in; *search history* –
the words of this session and no other; *exposure* – each card once per focus, none missed;
*start* – the API serves over a whole schema or not at all.

## 2. Modules

```
Datetime ----+--> OrderJobs ---------- INSTANCE --+
             |                                    v
             |    OrderTransactions -- INSTANCE -> OrderLedger <- EXTENDS - Purchase
             +--> RefreshTokens                                                |
                  AuthClient                                                   | INSTANCE
                                                                               v
                                      CartScreen, Checkout, OrderScreen, AddressScreens

                  Addresses <- EXTENDS - Parts
                                           | INSTANCE
                                           v
                  ProductPaging, OrderPaging, ProductDetail, Telemetry, SearchHistory,
                  Exposure, Boot

                  Sorting <- EXTENDS - ProductPaging, OrderPaging, SearchHistory
```

`OrderLedger_proofs`, `OrderTransactions_proofs`, `OrderJobs_proofs`, `RefreshTokens_proofs`,
`AuthClient_proofs`, `Addresses_proofs`, `Purchase_proofs` and `Parts_proofs` extend the module in
their name and hold its theorems. Each `MC<module>` extends its module with initial levels and the symmetry set; the
`.cfg` files give the constants. Definitions whose comment starts with "Mutant of"
are bugs that the code does not have, one per property; no specification uses them.

**OrderLedger** – the abstract shop. Each service operation that succeeds is one atomic
step on `stock`, `sales`, `onSale`, `cart`, `selected` and `orders`. A rejected
request changes nothing, so rejections are not actions. `NOT_PLACED` stands for an
identifier without a row; the sets of products and identifiers are constants.

**OrderTransactions** – the same operations as InnoDB runs them. `txn[s]` is the request
that session `s` serves, with the rows it still has to lock (`want`) in the order
of the code's statements; `owner` is the lock table. A step locks the next row, or
(all locks held) reads what to do, or checks, writes and commits. `Fail` is any
rejection by the database, a lost connection or a lock-wait timeout; `DeadlockVictim` is
InnoDB breaking a cycle. Writes become visible at COMMIT only, which is sound
because the rows written stay locked. It *implements OrderLedger*: property
`Serializable` is `Ledger!Spec` with the same variables.

**OrderJobs** – `tick()` with its three phases. Each tick has the `now` it began with and
a list of ids read by the last query; users place, pay and cancel between any two
of its statements. `at` keeps exact times, and queries compare the *stored* ones
(`Datetime!Stored`). `FailTick` is an exception, `Crash` a restart that may miss a
firing. The status changes are OrderLedger's own actions.

**RefreshTokens** – `AuthService` statement by statement: a request is in a stage
(`find`, `user`, `insert`, `save`, `revokeAll`, `send` …) and everything it read is in
its record; other requests, a ban, a crash or the loss of the answer fit in
between any two. `rows` is the table, `sent` the tokens a client ever got.

**AuthClient** – the phone. `store` is SecureStore, `memory` the zustand store, `refresh`
the single flight (`refreshSingleFlight`), `ui` the flow of the screen (cold start, login,
logout), `calls` the API requests with their replay flag. The server is reduced to
the set of tokens it accepts; requests that timed out may still reach it (`orphans`).

**Addresses** – `AddressesService`: a request locks the user's range, works with the rows
it saw, and commits. A range with rows has one holder at a time; an empty one can be
held by several, and the insert waits for the others (in InnoDB gap locks do not
conflict with each other, inserts conflict with them).

**ProductPaging**, **OrderPaging** – the two paging hooks with the list endpoint behind each,
over a table that changes. `newest` is `requestIdRef`: the request whose answer counts.
React renders some time after the state was set, and a handler sees the state of the
last render: `view` is that snapshot and `Render` brings it up to date; refs are
variables of their own. An answer of the network is taken to arrive after a pending
render (a render takes milliseconds). `served` remembers which versions of the
table the items come from, so that `NothingSkipped` and `NoOrderSkipped` can speak
of a table that stayed as it was.

**ProductDetail** – the product page. `pending` is the store of the pending action, `awaiting`
the page's `awaitingLoginRef`, `adding` its request under way; a page that is left takes
its refs with it and leaves its request behind (`orphans`). `sent` counts how
often each tap was carried out.

**CartScreen** – operations in flight (`calls`), the line flags `busy`, the cart in the database
(`server`) and the one on the screen. A request is its transaction (`Serve`), the list
the server reads after it (`List`) and the arrival (`Receive`), so that two operations
interleave at each of these points; "select all" is one request per line and a
final `getCart`. A request that fails (`Reject`, `Fail`) may only have been given up by the phone,
after 15 seconds: then it is `lost`, its operation goes on or ends without it (`Forsaken`), and it is
carried out at any later time (`ServeLost`) or never (`Vanish`). `suspect` marks histories in which
the screen can be behind: operations that overlapped, an answer that never came, or a lost request
that is carried out when no operation of the screen is going to look at the cart after it.

**Telemetry** – `analytics/client.ts`, every `await` a stage of a call; what is stored, what is in
memory, what the SDK was told. `raced` marks a use of the switch during another call. Each of the
four calls of PostHog can reject, and may have had its effect all the same (`Failed`); `identify` and
`reset` can throw, also after the recording has begun (`IdentityFails`, `SyncFails`). A use of the
switch goes back to the previous choice then, once, and what fails on the way back is swallowed;
a start gives the SDK up as it is. `slips` has the failures nothing has made up for: a recording that
was not stopped, and a name that was refused.

**Checkout** – the checkout screen and `OrdersService.create` behind it. `shop` is what the
database has of the cart, the stock, the catalogue and the addresses; `version` grows with
every change of it, by this screen or elsewhere. A load is two reads at two moments, and
`form.at` is the version of the older one, so that "nothing has changed since the form was
read" can be said. `Load` forgets the form at once: the code keeps the old state hidden
behind the skeleton and replaces it whole before it is seen again. `placed` has the orders made,
with whether they are what the form listed. `Again` opens a new screen when the old one is
over.

**OrderScreen** – the order page. An action is its transaction (`Transact`, `Refuse`), the read
after it (`Read`) and the arrival; jobs and other devices move the order with
`Elsewhere`, and `moved` says that they have since the server last spoke of it to this page.

**AddressScreens** – the list and the form. The list shows the answer that arrived last; the
form reads for itself, and what it reads after it is left is dropped. A save of the only address
without the box for the default is answered like any other and saves nothing (`Drops`); `made` is whether
it did. `meant` is the text that was saved last with the user told so, `careless` that a change was made
on a list known to be behind.

**SearchHistory** – `queue` is AsyncStorage, which serves calls in order; adding a word is a
`get` and, when it is answered, a `set` at the end of the queue. A logout waits for
SecureStore (`leaving`) before it asks for the list to be deleted. `ideal` is the history as if
every search took no time, `raced` that changes overlapped.

**Exposure** – `since` and `timer` are the throttle's clock in ticks. `Run` is
`createThrottledRunner`'s `run`, called by every layout, scroll, render and focus; `Ring` is the
timer, which may be late. Cards and viewport share one height; a card half a height away is the
boundary of `MIN_VISIBLE_RATIO`.

**Boot** – the container. `schema` counts the statements of both migrations whose effect is in
the database (seven tables and an index, then a column, an update of old orders and two
indexes), `ran` those this start has run, `recorded` TypeORM's rows. A statement whose effect
is there already fails and stops the container; `Restart` starts it over. The shop is one product
and orders of one unit, enough to say what a second seed does to the balance.

**Purchase**, **Parts** – compositions of parts that share no state: one variable per
part's variable, one disjunct per part. Because no property relates two parts and no step of one
is enabled or changed by another, the behaviours that move one part only (`part`, chosen at the
start) are all that has to be examined. `Purchase` has the shop (OrderLedger's actions) and the
screens on the way to an order; `Parts` the rest. Their properties are those of the modules, of
the part that moves, under the same names; those that go together are one:
`NothingSkipped` includes `HonestEmpty` and `NoOrderSkipped`, `IndicatorsMatch` includes
`OrderIndicatorsMatch`, `ChoiceKept` is `OffMeansOff` and `LastChoiceStored`, `ComesUpWhole` is
`ServesWhole` and `SeedBalance`, `OrderedAsShown` is `CreatedOnce` and `ChargedAsShown`;
`BusyEnds` and `ScreenAgrees` speak of the cart, the order page and the addresses.

**Sorting** – sorting a set and filtering a sequence, which the lists and the search history do. It
says by counting what `SetToSortSeq` and `SelectSeq` of the community modules say by
recursion: the n-th element of a sorted set is the one with n - 1 before it. The prover can reason
about cardinalities, and not about a recursive definition.

**Datetime** – rounding of times to whole seconds, shared by the jobs and the tokens.

Every definition is tied to its lines of code in `map` of `PROJECT.json`.

## 3. What is checked

| run | question | instance |
|---|---|---|
| `transactions_orders` | Are create, pay and cancel serializable, and are checkouts free of deadlock among themselves? | 3 sessions, 2 products (1 and 2 units), 2 orders, catalogue changing |
| `transactions_cart` | Is checkout from the cart serializable with cart edits, and does every request end in spite of opposite lock orders? | 2 sessions, 2 products, quantities to 2 |
| `jobs` | Do overlapping ticks with stale ids and rounded columns move each order once, on time, and leave none behind? | 2 ticks, 2 orders, batches of 1, 3 units per second, 1 failure |
| `jobs_live` | Does every tick end, and every order settle, although a tick may fail? | 2 ticks, 1 order, 1 failure |
| `tokens` | Do rotation, reuse detection and logout revoke what they should, and nothing else? | 2 requests, 4 tokens, a crash, a ban, lost answers |
| `tokens_logout` | *(violated)* Are all refresh tokens void after a logout? | 3 tokens |
| `purchase` | Do stock, sales, carts and orders agree after any sequence of operations? Does a checkout place one order, of what it showed, and refuse only for a reason? Do the cart, the order page and the address list come to agree with the database, also when requests fail or are carried out late, and do their buttons come back? Does an edit of an address survive a change of the default? | shop: 2 products of 2 units, 2 orders, 1 user; screens: 2 overlapping requests; 2 lines, 3 changes by the user, 1 request given up and still at the server; 1 change of the shop elsewhere, 1 lost answer; 2 addresses, 2 texts |
| `parts` | Is there exactly one default address, and does it pass to the latest? Do the lists show prefixes without gaps, with honest spinners? Is a tap carried out once? Does switched-off telemetry stay silent, and do events belong to the right user? Is the search history that of the session? Is every card reported once? Does the API come up whole? | per part: 2 sessions, 3 addresses; 3 products, 2 requests; 3 orders, 2 tabs; 2 products, 3 taps; 2 uses of the switch, 2 users, 1 kill; 3 words, 2 kept, 2 calls of the store; 2 cards, 3 positions, a window of 2 ticks; 2 orders of 1 unit, any number of restarts |
| `addresses_edits` | *(violated)* Is an edit that succeeded saved? | 2 addresses, 2 contents |
| `client` | Is there one refresh at a time, never with a rotated token; does the cold start end, and is every waiting call resumed? | 2 calls, 2 tokens, 1 kill |
| `client_logout` | *(violated)* Does a logout stay a logout? | 2 calls, 3 tokens |
| `client_cold` | *(violated)* Does a cold start keep a session that the server still accepts? | 2 calls, 3 tokens |

Why these bounds are enough for the cases of interest:

* Two orders on two products of one and two units give a sold-out shelf, baskets that
  overlap, and checkouts that lock the products in the same or (in the mutant) the
  opposite order; three sessions add a payment or a cancellation in between.
  One user is enough because rows of different users meet only in `products`, and
  what meets there does not depend on the buyer.
* `transactions_cart` keeps the catalogue fixed (`"toggle"` is not in `Ops`); the run on
  orders has it change. Carts start empty, so that run needs the three
  operations that fill, change and empty them.
* Batches of one make every full batch a boundary case, and two orders make the sweep
  ask again; two ticks overlap whenever the first is slower than the period. Times
  are a few seconds of three units each, so that a stored time is off by one
  unit in either direction. `Horizon` ends the run there, which is why that
  cfg does not check for deadlock.
* A grace window of one second, tokens that live one second and a horizon of one and
  a half reach "inside", "just outside" and "expired"; four tokens are a chain
  of three exchanges or two sign-ins with an exchange each. The run stops
  at the horizon, hence `CHECK_DEADLOCK FALSE`.
* In AuthClient an identifier that nobody holds any more may be issued again, unless it has been
  exchanged: `rotated` keeps it, so that presenting it again can be seen. Two identifiers are
  therefore one exchange after any number of logins, and a refresh of the successor that is refused, lost
  or never answered; three in the runs that are violated, two exchanges. That no token is
  presented twice after more of them is `SingleUseTheorem`.
* In `parts`, pages hold one item, so that three items are three pages (`MaxPage`) and every
  page is a boundary; one change of the table (`MaxChanges`) falls between any two
  requests. Two requests are enough for a late answer, its successor, and a third
  that reuses an identifier that has become free. `MaxTaps` is three: one that fails, one
  on the other product, one more. `MaxKills` is one restart, after which the app is as after
  any other. Three words of which two are kept make a word fall out, move to the front and come
  back; a queue of two lets one change meet another, or a logout. A window of two ticks has a
  call inside it, one just at its end and a timer that rings late. `Boot` needs no bound: it
  returns to states it has been in, two orders (one unit on the shelf) reach every status before,
  between and after two seeds, and two attempts stand for sixty.
* In `purchase`, two cart lines let "select all" succeed for one and fail for the other, or have
  one given up and carried out before or after the cart is read again (`MaxGivenUp` is one); a second
  operation starts, overlaps or reads in between. `MaxChanges` is three changes begun by the user (the
  page's own readings are not counted): a "select all" that fails in part, a change that overlaps
  it, and one more after the page has settled. Two addresses let one of them become the only one.
  The order page returns to states it has been in (`OpenAnother`) and needs no bound.
* In the checkout, of one product there is one unit and of the other two, so that a line of two may or
  may not be bought. One change elsewhere (`MaxVersion`) falls between any two steps of a checkout, and an
  order of the screen itself adds another. One lost answer (`MaxLost`) is what a second order
  needs.

In the runs that use it, symmetry permutes sessions, orders, ticks, tokens, requests,
calls or texts, which nothing distinguishes; the runs that check liveness do not use it. (Products
are ordered integers, because the code sorts their ids, and are not permuted.)

Fairness. `OrderTransactions!Fairness`: a request in progress takes its next step; a
lock that becomes free again and again is granted (InnoDB queues the waiters, so
strong fairness of `Lock`); a cycle always loses a member
(`innodb_deadlock_detect` is on by default, and without it the lock-wait timeout
would do it). `OrderJobs!Fairness`: time passes, the cron fires within `CronDelay`
and a tick goes on. `AuthClient!Fairness`: the event loop runs every
continuation, and a request is answered or hits axios' 15-second timeout. Nothing
is assumed of users, of the network beyond that, or of failures.

Mutants. Every property of a passing run has a plausible bug that breaks it in that same
run: a dropped lock, an unsorted lock order, a status update without its condition, a
rotation that is not awaited, a flag that is not reset, and so on.

## 4. What the runs found

The four violated properties are quotations from the repository's documents or screens
that the code does not live up to (`findings` in `PROJECT.json`):

* `LogoutVoidsAll` (README, acceptance list): a refresh that read its row before the logout
  inserts a successor after it, which stays live. Refresh and logout run without a
  transaction.
* `EditsSaved`: editing the only address and unticking its default box answers "updated"
  and saves nothing (`addresses.service.ts:83-92`).
* `LogoutSticks` (build-spec, client single flight): a refresh started by a call during a
  logout comes back after `logoutLocal` and persists a session.
* `ColdStartKeepsSession` (README, acceptance list): `hydrateAuth` treats a network failure
  like a refusal and deletes a token that the server accepts.

A further consequence of the first kind shows in the same model: two refreshes that read
one row before either saves it are both answered with live successors. The product
brief (line 210) calls the old token void as soon as it was exchanged. The phone's
single flight is what prevents it in practice (`NeverReusesRotated`).

Some properties of the screens are stated with a condition, because without it the code does not
have them; each is a hazard in `PROJECT.json`:

* `OffMeansOff` without `~raced`: the switch is turned off while `initAnalytics` or an earlier
  use is between its awaits; the continuation sets `captureEnabled` again
  (`client.ts:118`), and events flow although the settings show off. And with the recording only
  `"recording" \in slips`: when switching on fails with the recording begun, and the stop of the rollback is
  rejected too (`client.ts:265` swallows it), or when the start gives up after the recording has begun
  (`client.ts:181-185` drop the instance without stopping it, so that a later use of the switch finds
  none to stop), the settings show off, no event leaves, and the recording goes on until the switch has
  been turned on and off again, or a restart.
* `EventsBelongToUser` without `"identity" \notin slips`: `syncUserIdentity` swallows what `reset` or
  `identify` throws (`client.ts:207-211`), and events go on under the old name or none.
* `NoOrderSkipped` without `~late`: a "load more" handler rendered before a silent reload
  asks for the page after the old last one.
* `ScreenAgrees` without `~suspect`: answers of overlapping cart changes arrive in another
  order than they were made, and the older cart stays on the screen until the next load; a
  change that timed out on the phone is carried out after the `getCart` that was to reconcile
  (`api/client.ts:12`, `CartScreen.tsx:128-134`); on the order
  page, a load that was sent before a payment and arrives after it shows the order unpaid.
  When the jobs or another device have moved the order since the page was told, the page shows
  where it came from.
* `CreatedOnce` with `lost`: when the phone gives up waiting for a buy-now order and the
  user submits again, two orders are placed: there is no idempotency key. From the cart nothing is
  ordered twice, because the first order took the lines.
* `RefusedForAReason` names the ways in which an order is refused although nothing has changed since
  the form was read: a selected line that is invalid is not listed, and the server refuses the
  whole order because of it; and the form lists quantities beyond the stock.
* `EditsKept` without `careless`: "set as default" sends all fields as the list shows them, and
  from a list that is behind brings an old text back. It speaks of texts that were saved: a save of the
  only address with its box unticked is reported as saved and is not (`EditsSaved`, above).
* `HistoryOfSession` without `raced`: a word that was being added during a logout is
  written after it and shown to the next user of the phone; of two words in quick succession one is
  lost; a kill between the deletion of the tokens and that of the list leaves the list.
* `SeedBalance`: every seed over a shop in use frees the units that orders hold. The property
  says that this is all that is off, over any number of restarts.

Three more observations are no property's business. A migration that is cut off between two
statements stops every later start until somebody repairs the schema (`Boot!Refused`). The
list of products asks for a look at its cards on every render, also while another
screen covers it, so that a card can be reported then (`Exposure!Render`). And the address form
is read again when a token refresh replaces the user object, over what has been typed
(`AddressScreens!EditAgain`).

The model of paging also shows why nothing is promised over a table that changes: pages are
offsets, and an insertion or a sale between two pages shifts them.

## 5. What is proved

TLC checks the instances of section 3; TLAPS proves the theorems below for every value of the
constants: any number of users, products, orders, tokens and addresses, of requests, ticks,
sessions and calls at once, of crashes, kills and lost answers. The assumptions are the named
`ASSUME`s of the modules, which TLC evaluates in every run: sets of rows are finite, the
identifiers that the code sorts are ordered (integers), quantities, page sizes
and periods are positive, prices and dates of products are numbers, the home page's sort
is one of the sorts, and the values that stand for "nothing" (`None`, `Nobody`, `NoUser`, `NOT_PLACED`) are no members of
the sets they are told from.

Nearly none of the properties is inductive. What is added each time is what a request, tick or
call knows between two of its steps, and that this is still so when it acts on it.

**`OrderLedger_proofs`** – the abstract shop.

* `TypeCorrect` (`TypeOK`): stock is never negative, lines respect the maximum, only existing lines
  are selected.
* `StockTheorem` (`StockConserved`): nothing is oversold or restocked twice.
* `SalesTheorem` (`SalesConserved`): each paid unit is counted once.
* `GrowthTheorem` (`LinesGrowWithinStock`).

The inductive invariant is `TypeOK /\ Conserved`, with `Conserved` the conjunction of both
balances. Neither balance is inductive by itself: a payment adds `orders[o].qty` to
sales and a cancellation to stock, and only the type invariant bounds those
quantities and makes the sets of units finite. The units held by orders are a *set* of
pairs (order, index), so that no recursive sum is needed: the lemmas say that a step
which changes one order adds or removes exactly that order's pairs
(`Cardinality` of a disjoint union), and each action is then arithmetic.

**`OrderTransactions_proofs`** – the same operations under row locks.

* `TypeTheorem` (`TypeOK`).
* `SerializableTheorem` (`Serializable`): the refinement. Each commit is the operation of OrderLedger,
  every other step leaves the tables as they are.
* `StockTheorem` (`Ledger!StockConserved`): carried over from the ledger by that refinement.
* `DeadlockTheorem` (`CheckoutsDoNotDeadlock`): no two checkouts wait for each other.

`Inductive` says, per transaction: its parameters fit its operation (`Shape`); the cart lines and the
order it depends on are locked by it, or still on its list (`Locks`); what it has read is
still so (`Reads`); and the locks of a checkout come in one order, cart lines by id and then products
by id, each after those it holds (`Sorted`). The refinement follows from `Reads` when the list
is empty: a commit writes what the ledger's action would, computed from rows that nobody else could
change since. Another transaction that writes such a row would have to own it, and `owner` is a
function. Freedom from deadlock follows from `Sorted`: of two products waited for crosswise
each would be smaller than the other. That the list of a checkout ascends is a lemma about sorting
by rank (`ByIdSorts`), from cardinalities alone.

**`OrderJobs_proofs`** – the cron.

* `ConsistencyTheorem` (`Consistent`): the tables, times and ticks are well formed, and stock is
  conserved with ticks that overlap, fail and crash among the users' operations. Ticks use the
  ledger's own actions, so that its lemmas do this part (`ActsAreLedgerSteps`).
* `LedgerTheorem` (`Ledger!Spec`): the refinement. Every step of a tick or a user is an operation of
  OrderLedger or leaves the tables alone.
* `ScheduleTheorem` (`Schedule`), `CancelTheorem` (`NeverCancelsEarly`): nothing moves before its time.
  What is inductive is that an order on a tick's list is *ripe* for the tick's phase at the
  tick's own `now` (`Ripe`); the columns that make it so are written once, and a stored time is
  early by at most `RoundedOff` (`StoredBounds`).
* `SweepTheorem` (`SweepComplete`): a tick leaves nothing behind that was due at its start. Its
  hypothesis is that `PayTimeout` and `ShipAfter` exceed `RoundedOff`, which is less than half a second.
  The defaults are 60 and 180 seconds, and every whole number of seconds satisfies it; but
  `positiveInt` (`order-env.ts:6-9`) would accept a setting of 0.3, and then an order made
  after the tick began could be due by its rounded time and be missed until the next one.

**`RefreshTokens_proofs`** – rotation and reuse detection, without a transaction.

* `TypeTheorem` (`TypeOK`), `RotationTheorem` (`RotatedBeforeSent`), `SignOutTheorem`
  (`SignedOutStaysOut`), `RevocationTheorem` (`RevokedForGood`), `ReasonTheorem` (`RevokedForAReason`).

`Staged` says what the stage of a request tells of it, `Lineage` that a token on its way to
a client descends from one that is revoked, and `SignedOut` that after a quiet logout
no request of the user is past the read of its row, which it would find revoked. Both action
properties are about what `Save` and `RevokeAll` may do to a row that was read statements ago.

**`AuthClient_proofs`** – the session on the phone.

* `TypeTheorem` (`TypeOK`): in particular, whoever waits for a refresh has one under way.
* `SingleUseTheorem` (`NeverReusesRotated`): the app never sets off the reuse detection by itself,
  unless it was killed or an answer was lost.

`Unspent` adds where a rotated token can still be: in SecureStore only while the refresh that brings
its successor has not saved it, and nowhere else; `Flows` what each stage has at hand.

**`Addresses_proofs`** – `TypeTheorem`, `DefaultTheorem` (`OneDefault`) and `PromotionTheorem`
(`PromotesLatest`). `Exclusive` (a range with rows has one holder) keeps the rows
a request saw those of the table, and `Balanced` is OneDefault of those rows. "The latest" is a
`CHOOSE`, and that there is one in a finite table is the lemma `LatestExists`.

**`Parts_proofs`** – the parts of the composition `Parts`, each by an invariant of its own actions.

* `IndicatorsTheorem` (`IndicatorsMatch`), both lists: a request that starts takes the
  bookkeeping over, one that ends clears it if it is its own, everything else leaves it alone.
* `ExposureTheorem` (`ReportedOnce`): reports go with `seenIds`, and unless a timer is running all that is
  in view has been seen; that timer and the time since the last look make up the window.
* `TapsTheorem` (`CarriedOutOnce`): taps are numbered as they come; what is pending while the page
  waits for a login is the last one, and has not been carried out.
* `ChoiceTheorem` (`ChoiceKept`), `AttributionTheorem` (`EventsBelongToUser`): the queue of writes ends
  with the latest use of the switch while it is pending and is empty otherwise, so nothing is
  stored after it; and while no two calls overlapped, the one under way tells how far the SDK has
  been switched (`Midway`), by calls that may also fail with their effect. A recording that
  goes on is a slip, or the next stage of the call under way stops it.
* `BootTheorem` (`ComesUpWhole`): what this start has run (`ran`) and what is recorded tell the state of
  the schema, and the second migration is recorded over the whole of it only; the shelf
  balances up to what the last seed reset (`InBalance`, with the counts of orders by status).
* `PagesTheorem` (`NothingSkipped`), both lists. The orders of a list are linear, because the last
  column of each is the identifier (`RankOrders` and the lemmas about `Sorted`), so that a page is a
  definite piece of the list. An answer served from the present version is a page of its list
  (`Answers`), and the request that counts asks for the page after those shown (`Requested`). So what
  is shown, while it comes from the present version only, is the first pages of it (`Complete`):
  what the filter against duplicates takes out of the next page is nothing. For orders the invariant
  excepts the late handler (`late`), which may ask for another page. `HonestEmpty` needs that the first
  page of a list is empty only with a total of zero, and that a list not yet served has its
  spinner on (`Asking`).
* `HistoryTheorem` (`HistoryOfSession`): while nothing has raced there is one change of the list at
  most, in the queue of the store or waiting for SecureStore, and what it will leave is the
  history of the session (`Straight`); what the focused screen shows is either what is kept, or a read
  for it is in the queue. A race gives all this up, and an undisturbed logout establishes it again.
* `TypesTheorem` (`PartsTypeOK`): the conjunction of the invariants above, of that of the
  addresses, and of what they leave open of each part (`PageTyped`, `ClientTyped`, `StartTyped`,
  `SightTyped`). It holds of all parts at once: `TypesInductive` does not ask which of them moves.

**`Purchase_proofs`** – the screens of a purchase, again each by an invariant of its own actions.

* `PurchaseTypes` (`PurchaseTypeOK`).
* `BusyTheorem` (`BusyEnds`): whoever made a line, a button or a row busy is under way (`Claimed`,
  `OneAction`, `Waited`).
* `AgreementTheorem` (`ScreenAgrees`): while nothing overlapped or got lost there is one request under way
  at most, and either it has not changed the database yet, or its answer is what the database
  holds (`CartHonest`, `OrderHonest`, `ListHonest`). Of the order page the answer is where the order
  is, or was before others moved it (`Ahead` is transitive); of the cart, a request that was given up and is
  carried out after the last look makes the screen suspect.
* `EditsTheorem` (`EditsKept`): while nobody changed anything on a list that was behind, there is one
  change under way at most; it writes the texts the user was told of, or is a save, of which
  he has not been told (`Kept`).
* `OrderedTheorem` (`OrderedAsShown`). For the first half: the orders placed, and those that a
  request given up may still place, are no more than the answers lost, and one for the use of the screen
  once an order has been made (`PlacedOnce`). For the second: whatever was read or
  sent at the present version of the shop is what the shop holds (`Dated`), and then lines that can all
  be bought are just the lines listed. For the third: what was bought is out of the cart
  (`BoughtOnce`), and nobody else's change brings it back (`EditedIs`).
* `RefusalTheorem` (`RefusedForAReason`): of what `Verdict` looks at, `Dated` settles all but the
  lines not listed and the units.
* `ShopTheorem`: `PurchaseSpec` implies OrderLedger's specification, so that the three theorems of
  `OrderLedger_proofs` hold beside the screens.

Beside those above, the assumptions are that `None` is no operation and no form, that the shelf of
the checkout starts with natural numbers, and that the bound on the user's changes is a natural number.

Model-checked only is liveness: `RequestsEnd`, `TicksEnd`, `OrdersSettle`, `HydrationEnds` and
`WaitersResume`. Fairness and ENABLED are out of the prover's reach. So is what a recursive
definition of sorting or filtering computes, which is why `Sorting` counts instead.

## 6. What is not modelled

* Amounts, order numbers and the receiver snapshot: derived from the lines without a branch
  that the properties above depend on.
* Reads (`list`, `getById`), DTO mapping, validation pipes, the exception filter, Swagger,
  health, Sentry: stateless or formatting. A request that validation rejects changes nothing.
* Of the start: seeding by hand while the API serves, `down()` of the migrations, the repair of
  a schema by hand, and the second fixture user. More than one replica (the compose file forbids it).
* Password hashing, JWT signatures and the hash of a refresh token are taken to work.
* The phone's access token in SecureStore is written and never read; `AuthClient` keeps the
  refresh token only.
* The logout request's own way through the interceptors (`interceptors.ts:155-172, 202-219`):
  `AuthClient!PostLogout` is one step, after which the session is cleared whatever came of it. A token
  that expires just then would add one more refresh, which the call of any screen can start as well.
* Exceptions of Sentry (`Sentry.setUser`, `client.ts:94`), failing reads and writes of AsyncStorage
  by the search history, and the texts of errors and toasts.
* The screens without a signed-in user, which show a login gate and do nothing; validation in the
  address form, which sends nothing. The cart badge, a copy of the cart's length.
* Navigation, theme and UI components (the quantity stepper is part of `CartScreen`).

## 7. Plan

Done: orders, cart, jobs; authentication on both sides; addresses; the lists; the product
page; cart, checkout, order and address screens; telemetry, search history, exposure; the
start. What remains is left out for the reasons in section 6.

Every invariant and every action property that a run checks is proved. What remains is
liveness, which is out of the prover's reach (section 5).
