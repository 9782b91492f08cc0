------------------------------ MODULE OrderJobs ------------------------------
(***************************************************************************)
(* OrderJobs.tick, the cron job that moves orders along: it cancels the    *)
(* unpaid ones, marks the paid ones as awaiting receipt and completes      *)
(* those, each phase in batches, while users place, pay and cancel.        *)
(*                                                                         *)
(* Nothing keeps one tick from starting before the last one ended          *)
(* (handleCron is not awaited), every tick works with the `now` it started *)
(* with, and the ids it processes were read before: another tick or a user *)
(* may have moved the order since.  An exception from the database ends a  *)
(* tick where it stands, and a crash of the API ends all of them.          *)
(*                                                                         *)
(* The times kept here are exact; Stored() is what the queries see of them *)
(* (module Datetime).                                                      *)
(***************************************************************************)
EXTENDS Datetime, Sequences, FiniteSets

CONSTANTS
  Users, Products, Orders, MaxQty, InitStock, InitSales, NoUser,
  PayTimeout, ShipAfter, CompleteAfter,   \* order-env.ts, in units of time
  Period,         \* between two firings of the cron: a minute in the code
  BatchSize,      \* JOB_BATCH_SIZE
  Ticks,          \* bound: ticks that may be in progress at the same time
  CronDelay,      \* bound: how late the cron may fire
  LastOrder,      \* bound: no order is placed after this time
  Horizon,        \* bound: time stops here
  MaxFailures     \* bound: database errors and crashes in a behaviour

ASSUME TimesPositive ==
  /\ {PayTimeout, ShipAfter, CompleteAfter, Period, BatchSize} \subseteq Nat \ {0}
  /\ {CronDelay, LastOrder, Horizon, MaxFailures} \subseteq Nat
ASSUME OrdersFinite == IsFiniteSet(Orders)
ASSUME MaxQtyPositive == MaxQty \in Nat \ {0}
ASSUME InitialLevels == InitStock \in [Products -> Nat] /\ InitSales \in [Products -> Nat]
ASSUME NoUserIsNoUser == NoUser \notin Users

VARIABLES
  stock, sales, onSale, cart, selected, orders,   \* the tables, as in OrderLedger
  at,           \* per order, when it was created, paid, marked and completed
  clock,
  nextFire,     \* when the cron fires next
  tick,         \* the ticks in progress
  failures

Ledger == INSTANCE OrderLedger

tables == <<stock, sales, onSale, cart, selected, orders>>
vars == <<tables, at, clock, nextFire, tick, failures>>

------------------------------------------------------------------------------
Times == [created : Nat, paid : Nat, awaiting : Nat, completed : Nat]
NoTimes == [created |-> 0, paid |-> 0, awaiting |-> 0, completed |-> 0]

(* A tick: its phase, the `now` it started with, the ids it has yet to     *)
(* process, and whether the last query filled the batch, so that it has to *)
(* ask again.  It asks when `asking`.                                      *)
Phase == {"none", "cancel", "ship", "complete"}
Tick == [phase : Phase, now : Nat, ids : Seq(Orders), again : BOOLEAN, asking : BOOLEAN]
NoTick == [phase |-> "none", now |-> 0, ids |-> <<>>, again |-> FALSE, asking |-> FALSE]
After == [cancel |-> "ship", ship |-> "complete", complete |-> "none"]

\* Status, timestamp column and age that the query of each phase looks for:
\* findExpiredPendingIds, findDueShipIds and findDueCompleteIds.
Expected == [cancel |-> Ledger!PENDING_PAY, ship |-> Ledger!PAID,
             complete |-> Ledger!AWAITING_RECEIPT]
\* Mutant of Column: completion is counted from the payment, as it once was.
ColumnLegacy(phase, o) ==
  Stored(CASE phase = "cancel" -> at[o].created
           [] phase = "ship" -> at[o].paid
           [] phase = "complete" -> at[o].paid)
Column(phase, o) ==
  Stored(CASE phase = "cancel" -> at[o].created
           [] phase = "ship" -> at[o].paid
           [] phase = "complete" -> at[o].awaiting)
Age == [cancel |-> PayTimeout, ship |-> ShipAfter, complete |-> CompleteAfter]

\* Mutant of Due: the age is left out of the condition.
DueAtOnce(phase, now) ==
  {o \in Orders : /\ orders[o].status = Expected[phase]
                  /\ Column(phase, o) <= now}

Due(phase, now) ==
  {o \in Orders : /\ orders[o].status = Expected[phase]
                  /\ Column(phase, o) <= now - Age[phase]}

------------------------------------------------------------------------------
(* The users.                                                              *)

Place(o, u, basket) ==
  /\ clock <= LastOrder
  /\ Ledger!PlaceItems(o, u, basket)
  /\ at' = [at EXCEPT ![o].created = clock]
  /\ UNCHANGED <<clock, nextFire, tick, failures>>

\* pay does not look at the age of the order: until a tick cancels it, an
\* expired order can still be paid.
Pay(o) ==
  /\ Ledger!Pay(o)
  /\ at' = [at EXCEPT ![o].paid = clock]
  /\ UNCHANGED <<clock, nextFire, tick, failures>>

CancelByUser(o) ==
  /\ Ledger!Cancel(o)
  /\ UNCHANGED <<at, clock, nextFire, tick, failures>>

------------------------------------------------------------------------------
(* The ticks.                                                              *)

\* handleCron
StartTick(k) ==
  /\ clock >= nextFire
  /\ tick[k] = NoTick
  /\ tick' = [tick EXCEPT ![k] = [NoTick EXCEPT !.phase = "cancel", !.now = clock,
                                                !.asking = TRUE]]
  /\ nextFire' = nextFire + Period
  /\ UNCHANGED <<tables, at, clock, failures>>

\* Mutant of Query: the loop asks again only after more than a batch.
QueryOnce(k) ==
  /\ tick[k].asking
  /\ LET due == Due(tick[k].phase, tick[k].now)
         size == IF Cardinality(due) < BatchSize THEN Cardinality(due) ELSE BatchSize
     IN  \E ids \in [1..size -> due] :
           /\ \A i, j \in 1..size : i < j => ids[i] # ids[j]
           /\ tick' = [tick EXCEPT ![k].ids = ids, ![k].again = (size > BatchSize),
                                   ![k].asking = FALSE]
  /\ UNCHANGED <<tables, at, clock, nextFire, failures>>

\* The query: the oldest ids that are due, no more than a batch.
Query(k) ==
  /\ tick[k].asking
  /\ LET phase == tick[k].phase
         due == Due(phase, tick[k].now)
         size == IF Cardinality(due) < BatchSize THEN Cardinality(due) ELSE BatchSize
     IN  \E ids \in [1..size -> due] :
           /\ \A i, j \in 1..size :
                 i < j => ids[i] # ids[j] /\ Column(phase, ids[i]) <= Column(phase, ids[j])
           /\ \A o \in due \ {ids[i] : i \in 1..size}, i \in 1..size :
                 Column(phase, ids[i]) <= Column(phase, o)
           /\ tick' = [tick EXCEPT ![k] = [@ EXCEPT !.ids = ids, !.again = (size = BatchSize),
                                                    !.asking = FALSE]]
  /\ UNCHANGED <<tables, at, clock, nextFire, failures>>

\* Mutants of Update: the cancellation is not conditional on the status; and
\* an update that fails is passed over.
UpdateUnconditional(phase, o, now) ==
  IF phase = "cancel"
  THEN /\ orders' = [orders EXCEPT ![o].status = Ledger!CANCELLED]
       /\ stock' = [p \in Products |-> stock[p] + orders[o].qty[p]]
       /\ UNCHANGED <<sales, onSale, cart, selected, at>>
  ELSE UNCHANGED <<tables, at>>

UpdatePassedOver(phase, o, now) == UNCHANGED <<tables, at>>

\* One id, with the update that finds the order as the query saw it or not at
\* all: cancelPendingById, markAwaitingReceiptById or completePaidById.
Update(phase, o, now) ==
  \/ /\ orders[o].status # Expected[phase]
     /\ UNCHANGED <<tables, at>>
  \/ /\ phase = "cancel"
     /\ Ledger!Cancel(o)
     /\ UNCHANGED at
  \/ /\ phase = "ship"
     /\ Ledger!MarkAwaitingReceipt(o)
     /\ at' = [at EXCEPT ![o].awaiting = now]
  \/ /\ phase = "complete"
     /\ Ledger!CompletePaid(o)
     /\ at' = [at EXCEPT ![o].completed = now]

Process(k) ==
  /\ tick[k].ids # <<>>
  /\ Update(tick[k].phase, Head(tick[k].ids), tick[k].now)
  /\ tick' = [tick EXCEPT ![k].ids = Tail(@)]
  /\ UNCHANGED <<clock, nextFire, failures>>

\* Mutants of EndBatch: a batch that was not full ends the tick, not just the
\* loop; and the tick goes on after its last phase.
EndBatchReturns(k) ==
  /\ tick[k].phase # "none"
  /\ ~tick[k].asking
  /\ tick[k].ids = <<>>
  /\ tick' = [tick EXCEPT ![k] =
       IF tick[k].again THEN [@ EXCEPT !.asking = TRUE] ELSE NoTick]
  /\ UNCHANGED <<tables, at, clock, nextFire, failures>>

EndBatchGoesOn(k) ==
  /\ tick[k].phase # "none"
  /\ ~tick[k].asking
  /\ tick[k].ids = <<>>
  /\ tick' = [tick EXCEPT ![k].asking = TRUE,
                          ![k].phase = IF tick[k].again THEN @ ELSE After[@]]
  /\ UNCHANGED <<tables, at, clock, nextFire, failures>>

\* The batch is done: ask again after a full one, else the next phase.
EndBatch(k) ==
  /\ tick[k].phase # "none"
  /\ ~tick[k].asking
  /\ tick[k].ids = <<>>
  /\ tick' = [tick EXCEPT ![k] =
       IF tick[k].again THEN [@ EXCEPT !.asking = TRUE]
       ELSE IF tick[k].phase = "complete" THEN NoTick
       ELSE [@ EXCEPT !.phase = After[tick[k].phase], !.asking = TRUE]]
  /\ UNCHANGED <<tables, at, clock, nextFire, failures>>

\* An exception out of a query or an update (a deadlock victim, a lost
\* connection) leaves tick(): the phases that were to follow do not run.
FailTick(k) ==
  /\ failures < MaxFailures
  /\ tick[k] # NoTick
  /\ tick' = [tick EXCEPT ![k] = NoTick]
  /\ failures' = failures + 1
  /\ UNCHANGED <<tables, at, clock, nextFire>>

\* The API restarts; a firing it slept through is not made up for.
Crash ==
  /\ failures < MaxFailures
  /\ tick' = [k \in Ticks |-> NoTick]
  /\ failures' = failures + 1
  /\ nextFire' \in {nextFire, nextFire + Period}
  /\ UNCHANGED <<tables, at, clock>>

\* The cron does not fall behind by more than CronDelay.
Advance ==
  /\ clock < Horizon
  /\ clock < nextFire + CronDelay
  /\ clock' = clock + 1
  /\ UNCHANGED <<tables, at, nextFire, tick, failures>>

------------------------------------------------------------------------------
Init ==
  /\ Ledger!Init
  /\ onSale = Products
  /\ at = [o \in Orders |-> NoTimes]
  /\ clock = 0
  /\ nextFire = 0
  /\ tick = [k \in Ticks |-> NoTick]
  /\ failures = 0

Job(k) == StartTick(k) \/ Query(k) \/ Process(k) \/ EndBatch(k)

Next ==
  \/ \E o \in Orders :
        \/ \E u \in Users, basket \in Ledger!Basket : Place(o, u, basket)
        \/ Pay(o) \/ CancelByUser(o)
  \/ \E k \in Ticks : Job(k) \/ FailTick(k)
  \/ Crash
  \/ Advance

Spec == Init /\ [][Next]_vars

\* Time passes, the cron fires and a tick in progress goes on.
Fairness == WF_vars(Advance) /\ \A k \in Ticks : WF_vars(Job(k))
FairSpec == Spec /\ Fairness

------------------------------------------------------------------------------
(* Properties.                                                             *)

\* The tables, the times and the ticks are well formed, and a tick that has
\* ended holds no ids.
TypeOK ==
  /\ Ledger!TypeOK
  /\ at \in [Orders -> Times]
  /\ clock \in 0..Horizon
  /\ nextFire \in Nat
  /\ tick \in [Ticks -> Tick]
  /\ \A k \in Ticks : tick[k].phase = "none" => tick[k] = NoTick
  /\ failures \in 0..MaxFailures

\* Ticks that overlap, and work from ids they read before users moved the
\* orders, restock no order twice and lose no unit.
StockConserved == Ledger!StockConserved

\* Whatever a tick does that has failed half way, is slow, or meets another one, tables
\* and ticks stay well formed and no unit is lost.
Consistent == TypeOK /\ StockConserved

\* An order is marked only ShipAfter after it was paid and completed only
\* CompleteAfter after it was marked, whatever tick did it and however old that
\* tick was, but for what rounding the columns to seconds takes away.
Schedule ==
  \A o \in Orders :
    /\ orders[o].status \in {Ledger!AWAITING_RECEIPT, Ledger!COMPLETED} =>
          at[o].paid + ShipAfter <= at[o].awaiting + RoundedOff
    /\ orders[o].status = Ledger!COMPLETED =>
          at[o].awaiting + CompleteAfter <= at[o].completed + RoundedOff

\* A tick never cancels an order younger than PayTimeout, nor one that is paid.
CancelledByTick(k, o) ==
  /\ orders[o].status # Ledger!CANCELLED
  /\ orders'[o].status = Ledger!CANCELLED
  /\ tick'[k] # tick[k]
NeverCancelsEarly ==
  [][\A k \in Ticks, o \in Orders :
        CancelledByTick(k, o) =>
          /\ orders[o].status = Ledger!PENDING_PAY
          /\ at[o].created + PayTimeout <= clock + RoundedOff]_vars

\* The batch loop leaves nothing behind: when a tick is through with cancelling
\* or shipping, no order that was due at its `now` is left, with batches of any
\* size and other ticks and users at work in between.
SweepComplete ==
  [][\A k \in Ticks :
        /\ tick[k].phase \in {"cancel", "ship"}
        /\ tick'[k].phase = After[tick[k].phase]
        => Due(tick[k].phase, tick[k].now) = {}]_vars

\* Every tick ends: the loop does not spin on ids that it cannot move.
TicksEnd == \A k \in Ticks : (tick[k] # NoTick) ~> (tick[k] = NoTick)

\* No order stays unpaid, and a paid order is completed, in spite of ticks that
\* fail half way or are slow.  The orders in question are those early enough
\* before Horizon: two firings can be lost to a failure, two more to waiting.
InTime(t) == t + ShipAfter + CompleteAfter + 4 * Period <= Horizon
OrdersSettle ==
  \A o \in Orders :
    /\ (orders[o].status = Ledger!PENDING_PAY /\ InTime(at[o].created))
          ~> orders[o].status # Ledger!PENDING_PAY
    /\ (orders[o].status = Ledger!PAID /\ InTime(at[o].paid))
          ~> orders[o].status = Ledger!COMPLETED
==============================================================================
