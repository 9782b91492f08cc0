--------------------------------- MODULE Boot ---------------------------------
(***************************************************************************)
(* How the API container starts (docker-entrypoint.sh): it waits for       *)
(* MySQL, runs the pending migrations, seeds the demo data if asked, and   *)
(* serves.  Whatever fails or is killed on the way ends the container,     *)
(* which Docker starts again over the database as it was left.             *)
(*                                                                         *)
(* The statements of a migration are durable one by one, since in MySQL    *)
(* each CREATE and ALTER commits, and none can be run twice: there is no   *)
(* IF NOT EXISTS.  A migration that was cut off therefore stops each later *)
(* start at its first statement, until somebody repairs the database.  The *)
(* seed is one transaction.  The shop is that of OrderLedger, reduced to   *)
(* one product and orders of one unit.                                     *)
(***************************************************************************)
EXTENDS Integers, FiniteSets, Sequences

CONSTANTS
  Orders,
  InitStock,    \* stock of the product in PRODUCT_SEEDS; its sales are counted from those there
  MaxAttempts   \* max_attempts, 60 in the script

VARIABLES
  phase,        \* where the container is
  mysql,        \* the port is open
  attempts,     \* of wait_for_mysql
  asked,        \* SEED_ON_BOOT of this start
  schema,       \* statements of the migrations whose effect is in the database
  ran,          \* statements that this start has run of the migration at hand
  recorded,     \* rows of the table of migrations
  phone,        \* who has the phone number of the demo user
  shelf,        \* the product; its row exists once the demo user has the number
  orders,
  carried       \* units held and sold by the orders that the last seed found

vars == <<phase, mysql, attempts, asked, schema, ran, recorded, phone, shelf, orders, carried>>
shopVars == <<phone, shelf, orders, carried>>
bootVars == <<attempts, asked, schema, ran, recorded>>

------------------------------------------------------------------------------
InitialSchema == 1..8           \* seven tables and an index of one
AddOrderAwaitingReceipt == 9..12
Backfill == 10                  \* a column, this update, two indexes

Migrations == <<InitialSchema, AddOrderAwaitingReceipt>>

\* The migration at hand, and the statement of it that is due.
Pending == Migrations[recorded + 1]
Due == Cardinality(UNION {Migrations[m] : m \in 1..recorded}) + ran + 1

Status == {"none", "pending", "paid", "awaiting", "completed", "cancelled"}
NoOrder == [status |-> "none", stamped |-> FALSE]

In(statuses) == Cardinality({o \in Orders : orders[o].status \in statuses})
Held == In({"pending", "paid", "awaiting", "completed"})
Sold == In({"paid", "awaiting", "completed"})

HasDemoUser == phone = "demo"

------------------------------------------------------------------------------
(* The entrypoint.                                                         *)

WaitForMysql ==
  /\ phase = "wait"
  /\ IF mysql THEN phase' = "migrate" /\ UNCHANGED attempts
     ELSE /\ attempts' = attempts + 1
          /\ phase' = IF attempts' >= MaxAttempts THEN "stopped" ELSE "wait"
  /\ UNCHANGED <<mysql, asked, schema, ran, recorded, shopVars>>

\* Mutant of Refused: the script goes on when the migrations have failed.
RefusedOn == phase' = "seed" /\ UNCHANGED <<schema, orders, ran>>

\* The first statement finds what an earlier start has left behind, and the script fails.
Refused == phase' = "stopped" /\ UNCHANGED <<schema, orders, ran>>

\* Mutant of Stamped: the update fills the orders that are paid.
StampedPaid(order) == [order EXCEPT !.stamped = @ \/ order.status = "paid"]

\* UPDATE orders SET awaiting_receipt_at = updated_at WHERE status = 4 and it is NULL.
Stamped(order) == [order EXCEPT !.stamped = @ \/ order.status = "awaiting"]

Migrate ==
  /\ phase = "migrate" /\ recorded < Len(Migrations)
  /\ ran < Cardinality(Pending)
  /\ IF Due <= schema THEN Refused
     ELSE /\ schema' = Due /\ ran' = ran + 1
          /\ orders' = IF Due = Backfill THEN [o \in Orders |-> Stamped(orders[o])] ELSE orders
          /\ UNCHANGED phase
  /\ UNCHANGED <<mysql, attempts, asked, recorded, phone, shelf, carried>>

RecordMigration ==
  /\ phase = "migrate" /\ recorded < Len(Migrations)
  /\ ran = Cardinality(Pending)
  /\ recorded' = recorded + 1 /\ ran' = 0
  /\ UNCHANGED <<phase, mysql, attempts, asked, schema, shopVars>>

\* run_seed_if_requested, without or with the seed.
NoPending ==
  /\ phase = "migrate" /\ recorded = Len(Migrations)
  /\ phase' = IF asked THEN "seed" ELSE "serve"
  /\ UNCHANGED <<mysql, bootVars, shopVars>>

\* Mutant of RunSeed: the sales of a product that exists are left alone.
RunSeedStockOnly ==
  /\ phone' = "demo"
  /\ shelf' = [stock |-> InitStock, sales |-> shelf.sales]
  /\ carried' = [held |-> Held, sold |-> Sold]
  /\ phase' = "serve"

\* runSeed: users and products are made what the file says, the orders stay.
RunSeed ==
  /\ phone' = "demo"
  /\ shelf' = [stock |-> InitStock, sales |-> 0]
  /\ carried' = [held |-> Held, sold |-> Sold]
  /\ phase' = "serve"

\* The seed fails when the number of the demo user belongs to somebody else.
SeedOnBoot ==
  /\ phase = "seed"
  /\ IF phone = "customer" THEN phase' = "stopped" /\ UNCHANGED <<phone, shelf, carried>>
                           ELSE RunSeed
  /\ UNCHANGED <<mysql, bootVars, orders>>

\* The container is killed, or what it runs fails; a seed under way is rolled back.
Stop ==
  /\ phase # "stopped" /\ phase' = "stopped"
  /\ UNCHANGED <<mysql, bootVars, shopVars>>

\* restart: unless-stopped; the environment may have been edited.
Restart ==
  /\ phase = "stopped" /\ phase' = "wait"
  /\ asked' \in BOOLEAN
  /\ attempts' = 0 /\ ran' = 0
  /\ UNCHANGED <<mysql, schema, recorded, shopVars>>

\* MySQL comes and goes; what needs it fails.
ToggleMysql ==
  /\ mysql' = ~mysql
  /\ phase' = IF phase \in {"migrate", "seed"} THEN "stopped" ELSE phase
  /\ UNCHANGED <<bootVars, shopVars>>

------------------------------------------------------------------------------
(* The API at work.                                                        *)

Serving == phase = "serve" /\ mysql /\ UNCHANGED <<phase, mysql, bootVars, carried>>

\* Somebody registers with the number of the demo user.
Register ==
  /\ Serving /\ phone = "none" /\ phone' = "customer"
  /\ UNCHANGED <<shelf, orders>>

\* Stock and sales of the product change with the order's status.
Becomes(o, old, new, stock, sales) ==
  /\ Serving /\ HasDemoUser /\ orders[o].status = old
  /\ orders' = [orders EXCEPT ![o] = [status |-> new, stamped |-> @.stamped \/ new = "awaiting"]]
  /\ shelf.stock + stock >= 0
  /\ shelf' = [stock |-> shelf.stock + stock, sales |-> shelf.sales + sales]
  /\ UNCHANGED phone

Create(o) == Becomes(o, "none", "pending", -1, 0)
Pay(o) == Becomes(o, "pending", "paid", 0, 1)
Cancel(o) == Becomes(o, "pending", "cancelled", 1, 0)
MarkAwaitingReceipt(o) == Becomes(o, "paid", "awaiting", 0, 0)

\* The job that completes orders selects them by awaiting_receipt_at.
CompletePaid(o) == orders[o].stamped /\ Becomes(o, "awaiting", "completed", 0, 0)

------------------------------------------------------------------------------
\* The database is empty, or an earlier release without the second migration has used it.
Init ==
  /\ phase = "stopped" /\ mysql = FALSE /\ attempts = 0 /\ asked = FALSE /\ ran = 0
  /\ carried = [held |-> 0, sold |-> 0]
  /\ \/ /\ schema = 0 /\ recorded = 0 /\ phone = "none"
        /\ orders = [o \in Orders |-> NoOrder]
     \/ /\ schema = 8 /\ recorded = 1
        /\ phone \in {"none", "demo", "customer"}
        /\ orders \in [Orders -> {[NoOrder EXCEPT !.status = s] : s \in Status}]
        /\ HasDemoUser \/ In({"none"}) = Cardinality(Orders)
        /\ Held <= InitStock
  /\ shelf = IF HasDemoUser THEN [stock |-> InitStock - Held, sales |-> Sold]
                       ELSE [stock |-> 0, sales |-> 0]

Next ==
  \/ WaitForMysql \/ Migrate \/ RecordMigration \/ NoPending \/ SeedOnBoot
  \/ Stop \/ Restart \/ ToggleMysql \/ Register
  \/ \E o \in Orders :
        Create(o) \/ Pay(o) \/ Cancel(o) \/ MarkAwaitingReceipt(o) \/ CompletePaid(o)

Spec == Init /\ [][Next]_vars

------------------------------------------------------------------------------
(* Properties.                                                             *)

TypeOK ==
  /\ phase \in {"wait", "migrate", "seed", "serve", "stopped"}
  /\ mysql \in BOOLEAN /\ asked \in BOOLEAN /\ attempts \in 0..MaxAttempts
  /\ schema \in 0..12 /\ recorded \in 0..2 /\ ran \in 0..8
  /\ phone \in {"none", "demo", "customer"}
  /\ shelf \in [stock : Nat, sales : Nat]
  /\ orders \in [Orders -> [status : Status, stamped : BOOLEAN]]

\* However often the start was cut off and repeated, the API serves only over the whole
\* schema, with the demo data if they were asked for, and with no order that the completion
\* job could never find: one that waits for its receipt has the time since when it does.
ServesWhole ==
  phase = "serve" =>
     /\ schema = 12 /\ recorded = 2
     /\ asked => HasDemoUser
     /\ \A o \in Orders : orders[o].status = "awaiting" => orders[o].stamped

\* A seed over a shop in use resets stock and sales and leaves the orders: from then on the
\* units on the shelf and those held are off by exactly what was held at that moment, and
\* the sales by what was sold.  Nothing else is lost over any number of restarts.
SeedBalance ==
  HasDemoUser =>
     /\ shelf.stock + Held = InitStock + carried.held
     /\ shelf.sales + carried.sold = Sold
==============================================================================
