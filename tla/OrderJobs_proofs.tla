--------------------------- MODULE OrderJobs_proofs ---------------------------
(***************************************************************************)
(* Proofs about OrderJobs, for any orders, settings, batch size and number *)
(* of overlapping ticks.                                                   *)
(***************************************************************************)
EXTENDS OrderJobs, FiniteSetTheorems, SequenceTheorems, TLAPS

------------------------------------------------------------------------------
(* What a DATETIME column does to a time.                                  *)

LEMMA Division ==
  ASSUME NEW a \in Int, NEW b \in Nat \ {0}
  PROVE  (a \div b) \in Int /\ b * (a \div b) <= a /\ a < b * (a \div b) + b
OBVIOUS

LEMMA Halves ==
  ASSUME NEW b \in Nat \ {0}
  PROVE  /\ (b \div 2) \in Nat /\ ((b - 1) \div 2) \in Nat
         /\ (b \div 2) + ((b - 1) \div 2) = b - 1
OBVIOUS

\* A stored time is never earlier than the time by more than RoundedOff.
LEMMA StoredBounds ==
  ASSUME NEW t \in Nat
  PROVE  Stored(t) \in Int /\ RoundedOff \in Nat /\ t <= Stored(t) + RoundedOff
<1> DEFINE h == Second \div 2
           q == (t + h) \div Second
<1>1. Second \in Nat \ {0}
  BY SecondPositive
<1>2. h \in Nat /\ RoundedOff \in Nat /\ h + RoundedOff = Second - 1
  BY <1>1, Halves DEF RoundedOff
<1>3. q \in Int /\ Second * q <= t + h /\ t + h < Second * q + Second
  BY <1>1, <1>2, Division
<1>4. Stored(t) = q * Second
  BY DEF Stored
<1> HIDE DEF h, q
<1>5. q * Second = Second * q /\ q * Second \in Int
  BY <1>1, <1>3
<1> QED
  BY <1>1, <1>2, <1>3, <1>4, <1>5

------------------------------------------------------------------------------
(* The tables go through steps of OrderLedger, whose theorems hold of them.*)

LP == INSTANCE OrderLedger_proofs

USE DEF Ledger!NOT_PLACED, Ledger!PENDING_PAY, Ledger!PAID, Ledger!COMPLETED,
        Ledger!CANCELLED, Ledger!AWAITING_RECEIPT, LP!NOT_PLACED, LP!PENDING_PAY, LP!PAID,
        LP!COMPLETED, LP!CANCELLED, LP!AWAITING_RECEIPT

LEMMA LedgerAssumptions ==
  /\ LP!IsFiniteSet(Orders)
  /\ MaxQty \in Nat \ {0}
  /\ InitStock \in [Products -> Nat] /\ InitSales \in [Products -> Nat]
  /\ NoUser \notin Users
BY OrdersFinite, MaxQtyPositive, InitialLevels, NoUserIsNoUser DEF LP!IsFiniteSet, IsFiniteSet

LEMMA SameType == Ledger!TypeOK <=> LP!TypeOK
BY DEF Ledger!TypeOK, LP!TypeOK, Ledger!Basket, LP!Basket, Ledger!Order, LP!Order,
       Ledger!Status, LP!Status, Ledger!In, LP!In

LEMMA SameStock == Ledger!StockConserved <=> LP!StockConserved
BY DEF LP!StockConserved, Ledger!StockConserved, LP!Units, Ledger!Units, LP!Holding,
       Ledger!Holding, LP!Cardinality, Ledger!Cardinality

\* Every step of the users and of a tick is one of OrderLedger, or none.
Acts ==
  \/ UNCHANGED tables
  \/ \E o \in Orders :
       \/ \E u \in Users, basket \in Ledger!Basket : Ledger!PlaceItems(o, u, basket)
       \/ Ledger!Pay(o) \/ Ledger!Cancel(o) \/ Ledger!MarkAwaitingReceipt(o) \/ Ledger!CompletePaid(o)

LEMMA ActsAreLedgerSteps == Acts => [LP!Next]_LP!vars
BY DEF Acts, tables, LP!vars, LP!Next, Ledger!Place, LP!Place,
       Ledger!PlaceItems, LP!PlaceItems, Ledger!In, LP!In, Ledger!Purchasable, LP!Purchasable,
       Ledger!Basket, LP!Basket, Ledger!cartVars, LP!cartVars, Ledger!Pay, LP!Pay,
       Ledger!Cancel, LP!Cancel, Ledger!Move, LP!Move,
       Ledger!MarkAwaitingReceipt, LP!MarkAwaitingReceipt, Ledger!CompletePaid, LP!CompletePaid

\* OrderLedger's two invariants; its own sales invariant is what they are proved with.
LedgerOK == LP!TypeOK /\ LP!Conserved

LEMMA LedgerInit == Init => LedgerOK
<1> SUFFICES ASSUME Init PROVE LedgerOK
  OBVIOUS
<1>1. LP!Init
  BY DEF Init, Ledger!Init, LP!Init, Ledger!EmptyBasket, LP!EmptyBasket, Ledger!NoOrder, LP!NoOrder
<1> QED
  BY <1>1, LP!InitTypeOK, LP!InitConserved, LedgerAssumptions DEF LedgerOK

LEMMA LedgerKeeps ==
  ASSUME LedgerOK, Acts
  PROVE  LedgerOK'
BY ActsAreLedgerSteps, LP!NextTypeOK, LP!NextConserved, LedgerAssumptions DEF LedgerOK

LEMMA LedgerGives == LedgerOK => Ledger!TypeOK /\ StockConserved
BY SameType, SameStock DEF LedgerOK, LP!Conserved, StockConserved

------------------------------------------------------------------------------
(* The inductive invariant.                                                *)

\* An order that a tick has read as due has the age that its phase asks for (but for
\* what rounding takes away) and keeps it: the columns are written once.
Ripe(phase, o, now) ==
  /\ phase = "cancel" =>
       orders[o].status # Ledger!NOT_PLACED /\ at[o].created + PayTimeout <= now + RoundedOff
  /\ phase = "ship" =>
       /\ orders[o].status \in {Ledger!PAID, Ledger!AWAITING_RECEIPT, Ledger!COMPLETED}
       /\ at[o].paid + ShipAfter <= now + RoundedOff
  /\ phase = "complete" =>
       /\ orders[o].status \in {Ledger!AWAITING_RECEIPT, Ledger!COMPLETED}
       /\ at[o].awaiting + CompleteAfter <= now + RoundedOff

\* A tick in progress: its `now` is in the past, its ids are ripe.
TickOK(t) ==
  /\ t \in Tick
  /\ t.phase = "none" => t = NoTick
  /\ t.now <= clock
  /\ \A i \in DOMAIN t.ids : Ripe(t.phase, t.ids[i], t.now)

Counters ==
  /\ at \in [Orders -> Times]
  /\ clock \in 0..Horizon
  /\ nextFire \in Nat
  /\ failures \in 0..MaxFailures

TicksOK == tick \in [Ticks -> Tick] /\ \A k \in Ticks : TickOK(tick[k])

Inductive == LedgerOK /\ Counters /\ TicksOK /\ Schedule

LEMMA Numbers ==
  /\ PayTimeout \in Nat \ {0} /\ ShipAfter \in Nat \ {0} /\ CompleteAfter \in Nat \ {0}
  /\ Period \in Nat \ {0} /\ BatchSize \in Nat \ {0}
  /\ Horizon \in Nat /\ MaxFailures \in Nat /\ RoundedOff \in Nat
  /\ 0 \in Nat /\ Second \in Nat \ {0}
<1>1. 0 \in Nat
  OBVIOUS
<1> QED
  BY <1>1, TimesPositive, SecondPositive, StoredBounds

LEMMA OrdersTyped ==
  ASSUME LedgerOK
  PROVE  orders \in [Orders -> Ledger!Order]
BY LedgerGives DEF Ledger!TypeOK

------------------------------------------------------------------------------
(* What a step may do to an order and its times.                           *)

SameBut(o, column, value) ==
  /\ at'[o].created = IF column = "created" THEN value ELSE at[o].created
  /\ at'[o].paid = IF column = "paid" THEN value ELSE at[o].paid
  /\ at'[o].awaiting = IF column = "awaiting" THEN value ELSE at[o].awaiting
  /\ at'[o].completed = IF column = "completed" THEN value ELSE at[o].completed

Moves(o, from, to) == orders[o].status = from /\ orders'[o].status = to

Evolves(o) ==
  \/ orders'[o].status = orders[o].status /\ SameBut(o, "none", 0)
  \/ Moves(o, Ledger!NOT_PLACED, Ledger!PENDING_PAY) /\ SameBut(o, "created", clock)
  \/ Moves(o, Ledger!PENDING_PAY, Ledger!PAID) /\ SameBut(o, "paid", clock)
  \/ Moves(o, Ledger!PENDING_PAY, Ledger!CANCELLED) /\ SameBut(o, "none", 0)
  \/ \E now \in Nat :
       /\ Moves(o, Ledger!PAID, Ledger!AWAITING_RECEIPT)
       /\ SameBut(o, "awaiting", now) /\ Ripe("ship", o, now)
  \/ \E now \in Nat :
       /\ Moves(o, Ledger!AWAITING_RECEIPT, Ledger!COMPLETED)
       /\ SameBut(o, "completed", now) /\ Ripe("complete", o, now)

Steps == at' \in [Orders -> Times] /\ Acts /\ \A o \in Orders : Evolves(o)

\* Writing one column of one order.
LEMMA ColumnWritten ==
  ASSUME at \in [Orders -> Times], NEW o \in Orders, NEW value \in Nat
  PROVE  /\ at' = [at EXCEPT ![o].created = value] =>
              at' \in [Orders -> Times] /\ SameBut(o, "created", value)
         /\ at' = [at EXCEPT ![o].paid = value] =>
              at' \in [Orders -> Times] /\ SameBut(o, "paid", value)
         /\ at' = [at EXCEPT ![o].awaiting = value] =>
              at' \in [Orders -> Times] /\ SameBut(o, "awaiting", value)
         /\ at' = [at EXCEPT ![o].completed = value] =>
              at' \in [Orders -> Times] /\ SameBut(o, "completed", value)
<1>1. at[o] \in Times
  OBVIOUS
<1>2. PICK t \in Times : t = at[o]
  BY <1>1
<1>3. /\ [t EXCEPT !.created = value] \in Times /\ [t EXCEPT !.paid = value] \in Times
      /\ [t EXCEPT !.awaiting = value] \in Times /\ [t EXCEPT !.completed = value] \in Times
  BY DEF Times
<1> QED
  BY <1>2, <1>3 DEF SameBut, Times

\* A status update on one order leaves the status of the others.
LEMMA OthersStand ==
  ASSUME LedgerOK, NEW o \in Orders, NEW r, orders' = [orders EXCEPT ![o] = r],
         NEW x \in Orders, x # o, at' = at \/ \E t : at' = [at EXCEPT ![o] = t],
         at \in [Orders -> Times]
  PROVE  Evolves(x)
BY OrdersTyped DEF Evolves, SameBut

LEMMA StandStill ==
  ASSUME LedgerOK, Counters, UNCHANGED <<tables, at>>
  PROVE  Steps
BY DEF Steps, Acts, Evolves, SameBut, Counters, tables

LEMMA PlaceSteps ==
  ASSUME Inductive, NEW o \in Orders, NEW u \in Users, NEW basket \in Ledger!Basket,
         Place(o, u, basket)
  PROVE  Steps
<1>1. /\ LedgerOK /\ at \in [Orders -> Times] /\ clock \in Nat
      /\ orders \in [Orders -> Ledger!Order]
  BY Numbers, OrdersTyped DEF Inductive, Counters
<1>2. /\ Ledger!PlaceItems(o, u, basket)
      /\ orders[o].status = Ledger!NOT_PLACED
      /\ orders' = [orders EXCEPT ![o] =
                      [status |-> Ledger!PENDING_PAY, user |-> u, qty |-> basket]]
      /\ at' = [at EXCEPT ![o].created = clock]
  BY DEF Place, Ledger!PlaceItems, Ledger!Place
<1>3. at' \in [Orders -> Times] /\ SameBut(o, "created", clock)
  BY <1>1, <1>2, ColumnWritten
<1>4. Evolves(o)
  BY <1>1, <1>2, <1>3 DEF Evolves, Moves
<1>5. ASSUME NEW x \in Orders, x # o PROVE Evolves(x)
  <2>1. \E t : at' = [at EXCEPT ![o] = t]
    BY <1>2
  <2> QED
    BY <1>1, <1>2, <1>5, <2>1, OthersStand
<1> QED
  BY <1>2, <1>3, <1>4, <1>5 DEF Steps, Acts

\* The status updates, by what they move.
LEMMA MoveSteps ==
  ASSUME LedgerOK, at \in [Orders -> Times], NEW o \in Orders, NEW from, NEW to,
         Ledger!Move(o, from, to), at' \in [Orders -> Times],
         at' = at \/ \E t : at' = [at EXCEPT ![o] = t]
  PROVE  Moves(o, from, to) /\ \A x \in Orders : x # o => Evolves(x)
<1>1. orders \in [Orders -> Ledger!Order] /\ orders[o] \in Ledger!Order
  BY OrdersTyped
<1>2. /\ orders[o].status = from
      /\ orders' = [orders EXCEPT ![o] = [orders[o] EXCEPT !.status = to]]
  BY <1>1 DEF Ledger!Move
<1>3. PICK r \in Ledger!Order : r = orders[o]
  BY <1>1
<1>4. [r EXCEPT !.status = to].status = to
  BY DEF Ledger!Order
<1>5. orders'[o].status = to
  BY <1>1, <1>2, <1>3, <1>4
<1> QED
  BY <1>2, <1>5, OthersStand DEF Moves

LEMMA UserSteps ==
  ASSUME Inductive, NEW o \in Orders, Pay(o) \/ CancelByUser(o)
  PROVE  Steps
<1>1. LedgerOK /\ at \in [Orders -> Times] /\ clock \in Nat
  BY Numbers DEF Inductive, Counters
<1>2. CASE Pay(o)
  <2>1. Ledger!Pay(o) /\ at' = [at EXCEPT ![o].paid = clock]
    BY <1>2 DEF Pay
  <2>2. at' \in [Orders -> Times] /\ SameBut(o, "paid", clock) /\ \E t : at' = [at EXCEPT ![o] = t]
    BY <1>1, <2>1, ColumnWritten
  <2>3. Moves(o, Ledger!PENDING_PAY, Ledger!PAID) /\ \A x \in Orders : x # o => Evolves(x)
    BY <1>1, <2>1, <2>2, MoveSteps DEF Ledger!Pay
  <2> QED
    BY <2>1, <2>2, <2>3 DEF Steps, Acts, Evolves
<1>3. CASE CancelByUser(o)
  <2>1. Ledger!Cancel(o) /\ at' = at
    BY <1>3 DEF CancelByUser
  <2>2. SameBut(o, "none", 0)
    BY <2>1 DEF SameBut
  <2>3. Moves(o, Ledger!PENDING_PAY, Ledger!CANCELLED) /\ \A x \in Orders : x # o => Evolves(x)
    BY <1>1, <2>1, MoveSteps DEF Ledger!Cancel
  <2> QED
    BY <1>1, <2>1, <2>2, <2>3 DEF Steps, Acts, Evolves
<1> QED
  BY <1>2, <1>3

\* The update of a tick, whose id is ripe.  It takes the order out of what is due.
LEMMA UpdateSteps ==
  ASSUME Inductive, NEW o \in Orders, NEW phase \in Phase \ {"none"}, NEW now \in Nat,
         Update(phase, o, now), Ripe(phase, o, now)
  PROVE  Steps /\ orders'[o].status # Expected[phase]
<1>1. LedgerOK /\ at \in [Orders -> Times] /\ Counters
  BY DEF Inductive, Counters
<1>2. CASE orders[o].status # Expected[phase] /\ UNCHANGED <<tables, at>>
  BY <1>1, <1>2, StandStill DEF tables
<1>3. CASE phase = "cancel" /\ Ledger!Cancel(o) /\ UNCHANGED at
  <2>1. SameBut(o, "none", 0)
    BY <1>3 DEF SameBut
  <2>2. Moves(o, Ledger!PENDING_PAY, Ledger!CANCELLED) /\ \A x \in Orders : x # o => Evolves(x)
    BY <1>1, <1>3, MoveSteps DEF Ledger!Cancel
  <2> QED
    BY <1>1, <1>3, <2>1, <2>2 DEF Steps, Acts, Evolves, Moves, Expected
<1>4. CASE phase = "ship" /\ Ledger!MarkAwaitingReceipt(o) /\ at' = [at EXCEPT ![o].awaiting = now]
  <2>1. at' \in [Orders -> Times] /\ SameBut(o, "awaiting", now) /\ \E t : at' = [at EXCEPT ![o] = t]
    BY <1>1, <1>4, ColumnWritten
  <2>2. Moves(o, Ledger!PAID, Ledger!AWAITING_RECEIPT) /\ \A x \in Orders : x # o => Evolves(x)
    BY <1>1, <1>4, <2>1, MoveSteps DEF Ledger!MarkAwaitingReceipt
  <2> QED
    BY <1>4, <2>1, <2>2 DEF Steps, Acts, Evolves, Moves, Expected
<1>5. CASE phase = "complete" /\ Ledger!CompletePaid(o) /\ at' = [at EXCEPT ![o].completed = now]
  <2>1. at' \in [Orders -> Times] /\ SameBut(o, "completed", now) /\ \E t : at' = [at EXCEPT ![o] = t]
    BY <1>1, <1>5, ColumnWritten
  <2>2. Moves(o, Ledger!AWAITING_RECEIPT, Ledger!COMPLETED) /\ \A x \in Orders : x # o => Evolves(x)
    BY <1>1, <1>5, <2>1, MoveSteps DEF Ledger!CompletePaid
  <2> QED
    BY <1>5, <2>1, <2>2 DEF Steps, Acts, Evolves, Moves, Expected
<1> QED
  BY <1>2, <1>3, <1>4, <1>5 DEF Update

------------------------------------------------------------------------------
(* What a step may do to a tick.                                           *)

Sets(k, t) == t \in Tick /\ tick' = [tick EXCEPT ![k] = t]

\* The record `old` of a tick becomes t, in each of the job's four steps.
Started(t) == t.phase = "cancel" /\ t.now = clock /\ t.ids = <<>> /\ t.asking

\* A batch that was not full holds all that is due.
Queried(old, t) ==
  /\ t.phase = old.phase /\ t.now = old.now /\ ~t.asking /\ t.phase # "none"
  /\ \A i \in DOMAIN t.ids : t.ids[i] \in Due(t.phase, t.now)
  /\ ~t.again => \A o \in Due(t.phase, t.now) : \E i \in DOMAIN t.ids : t.ids[i] = o

Worked(old, t) ==
  /\ old.ids # <<>>
  /\ t.phase = old.phase /\ t.now = old.now /\ t.ids = Tail(old.ids)
  /\ t.asking = old.asking /\ t.again = old.again

EndedBatch(old, t) ==
  /\ \/ t = NoTick
     \/ t.phase # "none" /\ t.now = old.now /\ t.ids = <<>> /\ t.asking
  /\ ~old.asking /\ old.ids = <<>>
  /\ t.phase # old.phase => ~old.again

LEMMA NoTickType == NoTick \in Tick
BY EmptySeq DEF NoTick, Tick, Phase

LEMMA StartTickSets ==
  ASSUME Inductive, NEW k \in Ticks, StartTick(k)
  PROVE  \E t : Sets(k, t) /\ Started(t)
<1> DEFINE t == [NoTick EXCEPT !.phase = "cancel", !.now = clock, !.asking = TRUE]
<1>1. clock \in Nat
  BY Numbers DEF Inductive, Counters
<1>2. /\ t \in Tick
      /\ t.phase = "cancel" /\ t.now = clock /\ t.ids = <<>> /\ t.asking
  BY <1>1, NoTickType DEF Tick, NoTick, Phase
<1> QED
  BY <1>2 DEF StartTick, Sets, Started

LEMMA ProcessSets ==
  ASSUME Inductive, NEW k \in Ticks, Process(k)
  PROVE  \E t : Sets(k, t) /\ Worked(tick[k], t)
<1>1. PICK old \in Tick : old = tick[k]
  BY DEF Inductive, TicksOK
<1> DEFINE t == [old EXCEPT !.ids = Tail(@)]
<1>2. Tail(old.ids) \in Seq(Orders)
  BY <1>1, HeadTailProperties DEF Process, Tick
<1>3. /\ t \in Tick
      /\ t.phase = old.phase /\ t.now = old.now /\ t.ids = Tail(old.ids)
      /\ t.asking = old.asking /\ t.again = old.again
  BY <1>2 DEF Tick
<1> QED
  BY <1>1, <1>3 DEF Process, Sets, Worked, Inductive, TicksOK

LEMMA QuerySets ==
  ASSUME Inductive, NEW k \in Ticks, Query(k)
  PROVE  \E t : Sets(k, t) /\ Queried(tick[k], t)
<1>1. PICK old \in Tick : old = tick[k]
  BY DEF Inductive, TicksOK
<1> DEFINE due == Due(old.phase, old.now)
           size == IF Cardinality(due) < BatchSize THEN Cardinality(due) ELSE BatchSize
<1>2. PICK ids \in [1..size -> due] :
        /\ \A i, j \in 1..size : i < j => ids[i] # ids[j]
        /\ tick' = [tick EXCEPT ![k] = [old EXCEPT !.ids = ids, !.again = (size = BatchSize),
                                                   !.asking = FALSE]]
  BY <1>1 DEF Query, Inductive, TicksOK
<1>3. due \subseteq Orders
  BY DEF Due
<1> HIDE DEF due
<1>4. IsFiniteSet(due) /\ Cardinality(due) \in Nat
  BY <1>3, OrdersFinite, FS_Subset, FS_CardinalityType
<1>5. size \in Nat
  BY <1>4, Numbers
<1>6. size # BatchSize => size = Cardinality(due)
  OBVIOUS
<1> HIDE DEF size
<1>7. ids \in Seq(Orders) /\ DOMAIN ids = 1..size
  <2>1. \A i \in 1..size : ids[i] \in Orders
    BY <1>3
  <2>2. ids = [i \in 1..size |-> ids[i]]
    OBVIOUS
  <2>3. [i \in 1..size |-> ids[i]] \in Seq(Orders)
    BY <1>5, <2>1, IsASeq
  <2> QED
    BY <2>2, <2>3
<1>8. ASSUME size # BatchSize PROVE \A o \in due : \E i \in 1..size : ids[i] = o
  <2>1. IsFiniteSet(1..size) /\ Cardinality(1..size) = Cardinality(due)
    BY <1>5, <1>6, <1>8, FS_Interval
  <2>2. \A i, j \in 1..size : ids[i] = ids[j] => i = j
    <3> SUFFICES ASSUME NEW i \in 1..size, NEW j \in 1..size, ids[i] = ids[j], i # j PROVE FALSE
      OBVIOUS
    <3>1. i < j \/ j < i
      BY <1>5
    <3> QED
      BY <1>2, <3>1
  <2>3. ids \in Injection(1..size, due)
    BY <2>2 DEF Injection, IsInjective
  <2>4. ids \in Surjection(1..size, due)
    BY <1>4, <2>1, <2>3, FS_Injection
  <2> QED
    BY <2>4 DEF Surjection
<1> DEFINE full == (size = BatchSize)
           t == [old EXCEPT !.ids = ids, !.again = full, !.asking = FALSE]
<1>9. full \in BOOLEAN /\ (~full => size # BatchSize)
  OBVIOUS
<1>10. tick' = [tick EXCEPT ![k] = t]
  BY <1>2
<1> HIDE DEF full
<1>11. /\ t \in Tick
       /\ t.phase = old.phase /\ t.now = old.now /\ t.ids = ids
       /\ t.asking = FALSE /\ t.again = full
  BY <1>7, <1>9 DEF Tick
<1> HIDE DEF t
<1>12. Due(t.phase, t.now) = due
  BY <1>11 DEF due
<1>13. /\ Sets(k, t) /\ t.phase = tick[k].phase /\ t.now = tick[k].now /\ ~t.asking
       /\ t.phase # "none"
  <2>1. old.asking /\ (old.phase = "none" => old = NoTick)
    BY <1>1 DEF Inductive, TicksOK, TickOK, Query
  <2>2. old.phase # "none"
    BY <2>1 DEF NoTick
  <2> QED
    BY <1>1, <1>10, <1>11, <2>2 DEF Sets
<1>14. \A i \in DOMAIN t.ids : t.ids[i] \in Due(t.phase, t.now)
  BY <1>7, <1>11, <1>12
<1>15. ~t.again => \A o \in Due(t.phase, t.now) : \E i \in DOMAIN t.ids : t.ids[i] = o
  BY <1>7, <1>8, <1>9, <1>11, <1>12
<1> QED
  BY <1>13, <1>14, <1>15 DEF Queried

LEMMA EndBatchSets ==
  ASSUME Inductive, NEW k \in Ticks, EndBatch(k)
  PROVE  \E t : Sets(k, t) /\ EndedBatch(tick[k], t)
<1>1. PICK old \in Tick : old = tick[k] /\ old.ids = <<>> /\ ~old.asking /\ old.phase # "none"
  BY DEF Inductive, TicksOK, EndBatch
<1> DEFINE more == [old EXCEPT !.asking = TRUE]
           next == [old EXCEPT !.phase = After[old.phase], !.asking = TRUE]
<1>2. /\ more \in Tick
      /\ more.phase = old.phase /\ more.now = old.now /\ more.ids = <<>> /\ more.asking
  BY <1>1 DEF Tick
<1>3. CASE old.again
  <2>1. tick' = [tick EXCEPT ![k] = more]
    BY <1>1, <1>3 DEF EndBatch, Inductive, TicksOK
  <2> QED
    BY <1>1, <1>2, <2>1 DEF Sets, EndedBatch
<1>4. CASE ~old.again /\ old.phase = "complete"
  <2>1. tick' = [tick EXCEPT ![k] = NoTick]
    BY <1>1, <1>4 DEF EndBatch, Inductive, TicksOK
  <2> QED
    BY <1>1, <1>4, <2>1, NoTickType DEF Sets, EndedBatch
<1>5. CASE ~old.again /\ old.phase # "complete"
  <2>1. tick' = [tick EXCEPT ![k] = next]
    BY <1>1, <1>5 DEF EndBatch, Inductive, TicksOK
  <2>2. old.phase \in {"cancel", "ship"}
    BY <1>1, <1>5 DEF Tick, Phase
  <2>3. After[old.phase] \in {"ship", "complete"}
    BY <2>2 DEF After
  <2>4. /\ next \in Tick
        /\ next.phase = After[old.phase] /\ next.now = old.now /\ next.ids = <<>> /\ next.asking
    BY <1>1, <2>3 DEF Tick, Phase
  <2> QED
    BY <1>1, <1>5, <2>1, <2>3, <2>4 DEF Sets, EndedBatch
<1> QED
  BY <1>3, <1>4, <1>5

------------------------------------------------------------------------------
(* Every step: what it does to the orders, and to each tick.               *)

\* The only order that a tick's update can cancel is the one it is at.
CancelledOnlyBy(old) ==
  \A x \in Orders :
    orders[x].status # Ledger!CANCELLED /\ orders'[x].status = Ledger!CANCELLED =>
      old.phase = "cancel" /\ x = Head(old.ids)

Turn(old, t) ==
  \/ t = old
  \/ /\ UNCHANGED orders
     /\ t = NoTick \/ Started(t) \/ Queried(old, t) \/ EndedBatch(old, t)
  \/ /\ Worked(old, t)
     /\ orders'[Head(old.ids)].status # Expected[old.phase]
     /\ CancelledOnlyBy(old)

Time ==
  /\ clock' \in 0..Horizon /\ clock <= clock'
  /\ nextFire' \in Nat /\ failures' \in 0..MaxFailures

LEMMA UpdateCancels ==
  ASSUME LedgerOK, NEW o \in Orders, NEW phase, NEW now, Update(phase, o, now), NEW x \in Orders,
         orders[x].status # Ledger!CANCELLED, orders'[x].status = Ledger!CANCELLED
  PROVE  phase = "cancel" /\ x = o
<1>1. orders \in [Orders -> Ledger!Order]
  BY OrdersTyped
<1>2. CASE UNCHANGED <<tables, at>>
  BY <1>2 DEF tables
<1>3. ASSUME NEW from, NEW to, Ledger!Move(o, from, to) PROVE x = o /\ to = Ledger!CANCELLED
  <2>1. PICK r \in Ledger!Order : r = orders[o]
    BY <1>1
  <2>2. [r EXCEPT !.status = to].status = to
    BY DEF Ledger!Order
  <2>3. orders' = [orders EXCEPT ![o] = [r EXCEPT !.status = to]]
    BY <1>1, <1>3, <2>1 DEF Ledger!Move
  <2>4. \A y \in Orders : y # o => orders'[y] = orders[y]
    BY <1>1, <2>3
  <2>5. orders'[o].status = to
    BY <1>1, <2>2, <2>3
  <2> QED
    BY <2>4, <2>5
<1> QED
  BY <1>2, <1>3 DEF Update, Ledger!Cancel, Ledger!MarkAwaitingReceipt, Ledger!CompletePaid

LEMMA TimeStands ==
  ASSUME Counters, UNCHANGED <<clock, nextFire, failures>>
  PROVE  Time
BY Numbers DEF Counters, Time

\* Sets(k, t) on a record that takes its turn.
LEMMA TurnOf ==
  ASSUME Inductive, NEW k \in Ticks, NEW t, Sets(k, t), Turn(tick[k], t), NEW new, new = tick'
  PROVE  new \in [Ticks -> Tick] /\ \A j \in Ticks : Turn(tick[j], new[j])
BY DEF Sets, Inductive, TicksOK, Turn

LEMMA NextIs ==
  ASSUME Inductive, [Next]_vars, NEW new, new = tick'
  PROVE  Steps /\ Time /\ new \in [Ticks -> Tick] /\ \A k \in Ticks : Turn(tick[k], new[k])
<1>0. LedgerOK /\ Counters /\ tick \in [Ticks -> Tick]
  BY DEF Inductive, TicksOK
<1>1. ASSUME tick' = tick
      PROVE  new \in [Ticks -> Tick] /\ \A k \in Ticks : Turn(tick[k], new[k])
  BY <1>0, <1>1 DEF Turn
<1>2. ASSUME NEW o \in Orders, NEW u \in Users, NEW basket \in Ledger!Basket, Place(o, u, basket)
      PROVE  Steps /\ Time /\ tick' = tick
  BY <1>0, <1>2, PlaceSteps, TimeStands DEF Place
<1>3. ASSUME NEW o \in Orders, Pay(o) \/ CancelByUser(o)
      PROVE  Steps /\ Time /\ tick' = tick
  BY <1>0, <1>3, UserSteps, TimeStands DEF Pay, CancelByUser
<1>4. ASSUME NEW k \in Ticks, StartTick(k)
      PROVE  Steps /\ Time /\ new \in [Ticks -> Tick] /\ \A j \in Ticks : Turn(tick[j], new[j])
  <2>1. PICK t : Sets(k, t) /\ Started(t)
    BY <1>4, StartTickSets
  <2>2. Turn(tick[k], t)
    BY <1>4, <2>1 DEF Turn, StartTick, tables
  <2>3. Steps
    BY <1>0, <1>4, StandStill DEF StartTick, tables
  <2>4. Time
    BY <1>0, <1>4, Numbers DEF StartTick, Time, Counters
  <2> QED
    BY <2>1, <2>2, <2>3, <2>4, TurnOf
<1>5. ASSUME NEW k \in Ticks, Query(k)
      PROVE  Steps /\ Time /\ new \in [Ticks -> Tick] /\ \A j \in Ticks : Turn(tick[j], new[j])
  <2>1. PICK t : Sets(k, t) /\ Queried(tick[k], t)
    BY <1>5, QuerySets
  <2>2. UNCHANGED <<tables, at, clock, nextFire, failures>>
    BY <1>5 DEF Query
  <2>3. Turn(tick[k], t)
    BY <2>1, <2>2 DEF Turn, tables
  <2>4. Steps /\ Time
    BY <1>0, <2>2, StandStill, TimeStands DEF tables
  <2> QED
    BY <2>1, <2>3, <2>4, TurnOf
<1>6. ASSUME NEW k \in Ticks, EndBatch(k)
      PROVE  Steps /\ Time /\ new \in [Ticks -> Tick] /\ \A j \in Ticks : Turn(tick[j], new[j])
  <2>1. PICK t : Sets(k, t) /\ EndedBatch(tick[k], t)
    BY <1>6, EndBatchSets
  <2>2. UNCHANGED <<tables, at, clock, nextFire, failures>>
    BY <1>6 DEF EndBatch
  <2>3. Turn(tick[k], t)
    BY <2>1, <2>2 DEF Turn, tables
  <2>4. Steps /\ Time
    BY <1>0, <2>2, StandStill, TimeStands DEF tables
  <2> QED
    BY <2>1, <2>3, <2>4, TurnOf
<1>7. ASSUME NEW k \in Ticks, Process(k)
      PROVE  Steps /\ Time /\ new \in [Ticks -> Tick] /\ \A j \in Ticks : Turn(tick[j], new[j])
  <2>1. PICK t : Sets(k, t) /\ Worked(tick[k], t)
    BY <1>7, ProcessSets
  <2>2. PICK old \in Tick : old = tick[k] /\ TickOK(old)
    BY <1>0 DEF Inductive, TicksOK
  <2>3. old.ids \in Seq(Orders) /\ old.ids # <<>> /\ old.now \in Nat /\ old.phase \in Phase
    BY <1>7, <2>2 DEF Process, Tick
  <2>4. Head(old.ids) \in Orders /\ 1 \in DOMAIN old.ids /\ Head(old.ids) = old.ids[1]
    BY <2>3, HeadTailProperties, LenProperties, EmptySeq
  <2>5. old.phase # "none"
    BY <2>2, <2>3 DEF TickOK, NoTick
  <2>6. Ripe(old.phase, Head(old.ids), old.now)
    BY <2>2, <2>4 DEF TickOK
  <2>7. Update(old.phase, Head(old.ids), old.now) /\ UNCHANGED <<clock, nextFire, failures>>
    BY <1>7, <2>2 DEF Process
  <2>8. Steps /\ orders'[Head(old.ids)].status # Expected[old.phase]
    BY <2>3, <2>4, <2>5, <2>6, <2>7, UpdateSteps
  <2>9. CancelledOnlyBy(old)
    BY <1>0, <2>4, <2>7, UpdateCancels DEF CancelledOnlyBy
  <2>10. Turn(tick[k], t)
    BY <2>1, <2>2, <2>8, <2>9 DEF Turn
  <2>11. Time
    BY <1>0, <2>7, TimeStands
  <2> QED
    BY <2>1, <2>8, <2>10, <2>11, TurnOf
<1>8. ASSUME Crash \/ \E k \in Ticks : FailTick(k)
      PROVE  Steps /\ Time /\ new \in [Ticks -> Tick] /\ \A j \in Ticks : Turn(tick[j], new[j])
  <2>1. UNCHANGED <<tables, at, clock>>
    BY <1>8 DEF Crash, FailTick
  <2>2. \A k \in Ticks : new[k] = NoTick \/ new[k] = tick[k]
    BY <1>0, <1>8 DEF Crash, FailTick
  <2>3. new \in [Ticks -> Tick]
    BY <1>0, <1>8, NoTickType DEF Crash, FailTick
  <2>4. Time
    BY <1>0, <1>8, Numbers DEF Crash, FailTick, Time, Counters
  <2>5. Steps
    BY <1>0, <2>1, StandStill DEF tables
  <2>6. \A j \in Ticks : Turn(tick[j], new[j])
    BY <2>1, <2>2 DEF Turn, tables
  <2> QED
    BY <2>3, <2>4, <2>5, <2>6
<1>9. ASSUME Advance
      PROVE  Steps /\ Time /\ tick' = tick
  <2>1. Time
    BY <1>0, <1>9, Numbers DEF Advance, Time, Counters
  <2> QED
    BY <1>0, <1>9, <2>1, StandStill DEF Advance, tables
<1>10. ASSUME UNCHANGED vars
       PROVE  Steps /\ Time /\ tick' = tick
  BY <1>0, <1>10, StandStill, TimeStands DEF vars, tables
<1> QED
  BY <1>1, <1>2, <1>3, <1>4, <1>5, <1>6, <1>7, <1>8, <1>9, <1>10 DEF Next, Job

------------------------------------------------------------------------------
(* The invariant is preserved.                                             *)

LEMMA RipeKeeps ==
  ASSUME Inductive, Steps, NEW phase, NEW o \in Orders, NEW now, Ripe(phase, o, now)
  PROVE  Ripe(phase, o, now)'
<1>1. Evolves(o)
  BY DEF Steps
<1> QED
  BY <1>1 DEF Evolves, Moves, SameBut, Ripe

\* What is due, is ripe.
LEMMA DueIsRipe ==
  ASSUME Inductive, NEW phase \in Phase \ {"none"}, NEW now \in Nat, NEW o \in Due(phase, now)
  PROVE  Ripe(phase, o, now)
<1>1. /\ o \in Orders /\ orders[o].status = Expected[phase]
      /\ Column(phase, o) <= now - Age[phase]
  BY DEF Due
<1>2. at[o].created \in Nat /\ at[o].paid \in Nat /\ at[o].awaiting \in Nat
  BY <1>1 DEF Inductive, Counters, Times
<1>3. ASSUME NEW t \in Nat, NEW age \in Nat, Stored(t) <= now - age
      PROVE  t + age <= now + RoundedOff
  BY <1>3, StoredBounds
<1>4. CASE phase = "cancel"
  BY <1>1, <1>2, <1>3, <1>4, Numbers DEF Column, Age, Expected, Ripe
<1>5. CASE phase = "ship"
  BY <1>1, <1>2, <1>3, <1>5, Numbers DEF Column, Age, Expected, Ripe
<1>6. CASE phase = "complete"
  BY <1>1, <1>2, <1>3, <1>6, Numbers DEF Column, Age, Expected, Ripe
<1> QED
  BY <1>4, <1>5, <1>6 DEF Phase

\* The ids that a tick has left are those it had, but for the first.
LEMMA TailIds ==
  ASSUME NEW ids \in Seq(Orders), ids # <<>>
  PROVE  /\ \A i \in DOMAIN Tail(ids) : i + 1 \in DOMAIN ids /\ Tail(ids)[i] = ids[i + 1]
         /\ \A i \in DOMAIN ids : ids[i] = Head(ids) \/ \E j \in DOMAIN Tail(ids) : Tail(ids)[j] = ids[i]
<1>1. /\ Len(ids) \in Nat \ {0} /\ DOMAIN ids = 1..Len(ids)
      /\ DOMAIN Tail(ids) = 1..(Len(ids) - 1)
      /\ \A i \in 1..(Len(ids) - 1) : Tail(ids)[i] = ids[i + 1]
      /\ Head(ids) = ids[1]
  BY HeadTailProperties, LenProperties, EmptySeq
<1>2. ASSUME NEW i \in 1..Len(ids), i # 1
      PROVE  i - 1 \in 1..(Len(ids) - 1) /\ ids[(i - 1) + 1] = ids[i]
  BY <1>1, <1>2
<1>3. ASSUME NEW i \in DOMAIN ids, ids[i] # Head(ids)
      PROVE  \E j \in DOMAIN Tail(ids) : Tail(ids)[j] = ids[i]
  <2>1. i \in 1..Len(ids) /\ i # 1
    BY <1>1, <1>3
  <2>2. i - 1 \in DOMAIN Tail(ids) /\ Tail(ids)[i - 1] = ids[i]
    BY <1>1, <1>2, <2>1
  <2> QED
    BY <2>2
<1>4. \A i \in DOMAIN Tail(ids) : i + 1 \in DOMAIN ids
  BY <1>1
<1> QED
  BY <1>1, <1>3, <1>4

LEMMA TickKeeps ==
  ASSUME Inductive, Steps, Time, NEW old, TickOK(old), NEW t \in Tick, Turn(old, t)
  PROVE  TickOK(t)'
<1>0. clock \in Nat /\ clock' \in Nat /\ clock <= clock' /\ old.now \in Nat /\ t.now \in Nat
  BY Numbers DEF Inductive, Counters, Time, TickOK, Tick
<1>1. old \in Tick /\ old.ids \in Seq(Orders) /\ t.ids \in Seq(Orders) /\ old.phase \in Phase
  BY DEF TickOK, Tick
<1>2. \A i \in DOMAIN old.ids : old.ids[i] \in Orders
  BY <1>1
<1>3. \A i \in DOMAIN old.ids : Ripe(old.phase, old.ids[i], old.now)'
  BY <1>2, RipeKeeps DEF TickOK
<1>4. CASE t = old
  BY <1>0, <1>3, <1>4 DEF TickOK
<1>5. CASE t = NoTick
  BY <1>0, <1>5 DEF TickOK, NoTick
<1>6. CASE Started(t)
  BY <1>0, <1>6 DEF TickOK, Started
<1>7. CASE Queried(old, t)
  <2>1. \A i \in DOMAIN t.ids : t.ids[i] \in Orders /\ t.ids[i] \in Due(t.phase, t.now)
    BY <1>1, <1>7 DEF Queried
  <2>2. t.phase \in Phase \ {"none"} /\ t.now <= clock
    BY <1>1, <1>7 DEF Queried, TickOK
  <2>3. \A i \in DOMAIN t.ids : Ripe(t.phase, t.ids[i], t.now)'
    BY <1>0, <2>1, <2>2, DueIsRipe, RipeKeeps
  <2> QED
    BY <1>0, <2>2, <2>3 DEF TickOK
<1>8. CASE Worked(old, t)
  <2>1. old.phase # "none"
    BY <1>8 DEF Worked, TickOK, NoTick
  <2>2. \A i \in DOMAIN t.ids : i + 1 \in DOMAIN old.ids /\ t.ids[i] = old.ids[i + 1]
    BY <1>1, <1>8, TailIds DEF Worked
  <2>3. \A i \in DOMAIN t.ids : Ripe(t.phase, t.ids[i], t.now)'
    BY <1>3, <1>8, <2>2 DEF Worked
  <2>4. t.phase # "none" /\ t.now <= clock
    BY <1>8, <2>1 DEF Worked, TickOK
  <2> QED
    BY <1>0, <2>3, <2>4 DEF TickOK
<1>9. CASE EndedBatch(old, t)
  BY <1>0, <1>5, <1>9 DEF TickOK, EndedBatch
<1> QED
  BY <1>4, <1>5, <1>6, <1>7, <1>8, <1>9 DEF Turn

LEMMA ScheduleKeeps ==
  ASSUME Inductive, Steps
  PROVE  Schedule'
<1> SUFFICES ASSUME NEW o \in Orders
             PROVE  /\ orders'[o].status \in {Ledger!AWAITING_RECEIPT, Ledger!COMPLETED} =>
                          at'[o].paid + ShipAfter <= at'[o].awaiting + RoundedOff
                    /\ orders'[o].status = Ledger!COMPLETED =>
                          at'[o].awaiting + CompleteAfter <= at'[o].completed + RoundedOff
  BY DEF Schedule
<1>1. Evolves(o)
  BY DEF Steps
<1> QED
  BY <1>1 DEF Inductive, Schedule, Evolves, Moves, SameBut, Ripe

LEMMA InitInductive == Init => Inductive
<1> SUFFICES ASSUME Init PROVE Inductive
  OBVIOUS
<1>1. LedgerOK
  BY LedgerInit
<1>2. Counters
  BY Numbers DEF Init, Counters, NoTimes, Times
<1>3. TickOK(NoTick)
  BY <1>2, NoTickType, Numbers DEF TickOK, NoTick, Counters
<1>4. TicksOK
  BY <1>3, NoTickType DEF Init, TicksOK
<1>5. Schedule
  BY DEF Init, Ledger!Init, Ledger!NoOrder, Schedule
<1> QED
  BY <1>1, <1>2, <1>4, <1>5 DEF Inductive

LEMMA NextInductive == Inductive /\ [Next]_vars => Inductive'
<1> SUFFICES ASSUME Inductive, [Next]_vars PROVE Inductive'
  OBVIOUS
<1>1. PICK new : new = tick'
  OBVIOUS
<1>2. Steps /\ Time /\ new \in [Ticks -> Tick] /\ \A k \in Ticks : Turn(tick[k], new[k])
  BY <1>1, NextIs
<1>3. LedgerOK'
  BY <1>2, LedgerKeeps DEF Inductive, Steps
<1>4. Counters'
  BY <1>2 DEF Steps, Time, Counters
<1>5. \A k \in Ticks : TickOK(new[k])'
  <2> SUFFICES ASSUME NEW k \in Ticks PROVE TickOK(new[k])'
    OBVIOUS
  <2>1. PICK t \in Tick : t = new[k]
    BY <1>2
  <2>2. PICK old : old = tick[k] /\ TickOK(old)
    BY DEF Inductive, TicksOK
  <2>3. TickOK(t)'
    BY <1>2, <2>1, <2>2, TickKeeps
  <2> QED
    BY <2>1, <2>3
<1>6. TicksOK'
  BY <1>1, <1>2, <1>5 DEF TicksOK
<1> QED
  BY <1>2, <1>3, <1>4, <1>6, ScheduleKeeps DEF Inductive

\* For any orders, batch size and number of overlapping ticks, with failures and
\* restarts: tables, times and ticks stay well formed and no unit of stock is lost
\* or restocked twice.
THEOREM ConsistencyTheorem == Spec => []Consistent
<1>1. Inductive => Consistent
  BY LedgerGives DEF Inductive, Counters, TicksOK, TickOK, Consistent, TypeOK
<1> QED
  BY <1>1, InitInductive, NextInductive, PTL DEF Spec

\* The refinement: whatever ticks overlap, fail, crash or work on old ids, what they and the
\* users do to the tables is an operation of OrderLedger or nothing.
THEOREM LedgerTheorem == Spec => Ledger!Spec
<1>1. Init => Ledger!Init
  BY DEF Init
<1>2. Acts => [Ledger!Next]_(Ledger!vars)
  BY DEF Acts, tables, Ledger!vars, Ledger!Next
<1>3. Inductive /\ [Next]_vars => [Ledger!Next]_(Ledger!vars)
  BY <1>2, NextIs DEF Steps
<1> QED
  BY <1>1, <1>3, InitInductive, NextInductive, PTL DEF Spec, Ledger!Spec

\* For any settings, no tick, however old its `now` and its ids are, marks or
\* completes an order ahead of time by more than rounding takes away.
THEOREM ScheduleTheorem == Spec => []Schedule
<1>1. Inductive => Schedule
  BY DEF Inductive
<1> QED
  BY <1>1, InitInductive, NextInductive, PTL DEF Spec

\* A tick cancels no paid order and none that is younger than PayTimeout, though it
\* read its ids before users and other ticks moved the orders.
THEOREM CancelTheorem == Spec => NeverCancelsEarly
<1> DEFINE Early == \A k \in Ticks, o \in Orders :
                      CancelledByTick(k, o) =>
                        /\ orders[o].status = Ledger!PENDING_PAY
                        /\ at[o].created + PayTimeout <= clock + RoundedOff
<1>1. Inductive /\ [Next]_vars => [Early]_vars
  <2> SUFFICES ASSUME Inductive, [Next]_vars, NEW k \in Ticks, NEW o \in Orders,
                      CancelledByTick(k, o)
               PROVE  /\ orders[o].status = Ledger!PENDING_PAY
                      /\ at[o].created + PayTimeout <= clock + RoundedOff
    OBVIOUS
  <2>1. PICK new : new = tick'
    OBVIOUS
  <2>2. Steps /\ Turn(tick[k], new[k])
    BY <2>1, NextIs
  <2>3. PICK old : old = tick[k] /\ TickOK(old)
    BY DEF Inductive, TicksOK
  <2>4. Worked(old, new[k]) /\ CancelledOnlyBy(old)
    BY <2>1, <2>2, <2>3 DEF Turn, CancelledByTick
  <2>5. old.phase = "cancel" /\ o = Head(old.ids) /\ old.ids # <<>>
    BY <2>4 DEF Worked, CancelledOnlyBy, CancelledByTick
  <2>6. 1 \in DOMAIN old.ids /\ Head(old.ids) = old.ids[1]
    BY <2>3, <2>5, HeadTailProperties, LenProperties, EmptySeq DEF TickOK, Tick
  <2>7. at[o].created + PayTimeout <= old.now + RoundedOff /\ old.now <= clock
    BY <2>3, <2>5, <2>6 DEF TickOK, Ripe
  <2>8. at[o].created + PayTimeout <= clock + RoundedOff
    <3>1. at[o].created \in Nat /\ old.now \in Nat /\ clock \in Nat
      BY <2>3, Numbers DEF Inductive, Counters, Times, TickOK, Tick
    <3> QED
      BY <2>7, <3>1, Numbers
  <2>9. orders[o].status = Ledger!PENDING_PAY
    BY <2>2 DEF Steps, Evolves, Moves, CancelledByTick
  <2> QED
    BY <2>8, <2>9
<1> QED
  BY <1>1, InitInductive, NextInductive, PTL DEF Spec, NeverCancelsEarly

------------------------------------------------------------------------------
(* Nothing that was due is left behind.                                    *)

\* Whoever is through with asking has all that is due among its ids.
Swept(t) ==
  t.phase \in {"cancel", "ship"} /\ ~t.asking /\ ~t.again =>
    \A o \in Due(t.phase, t.now) : \E i \in DOMAIN t.ids : t.ids[i] = o
AllSwept == \A k \in Ticks : Swept(tick[k])

\* An order that was not due at a tick's `now` does not become due at it later: it
\* would have to be placed or paid before that.
LEMMA DueShrinks ==
  ASSUME Inductive, Steps, RoundedOff < PayTimeout, RoundedOff < ShipAfter,
         NEW phase \in {"cancel", "ship"}, NEW now \in Nat, now <= clock,
         NEW o, o \in Due(phase, now)'
  PROVE  o \in Due(phase, now)
<1>1. /\ o \in Orders /\ orders'[o].status = Expected[phase]
      /\ Column(phase, o)' <= now - Age[phase]
  BY DEF Due, Expected, Age
<1>2. Evolves(o)
  BY <1>1 DEF Steps
<1>3. clock \in Nat
  BY Numbers DEF Inductive, Counters
<1>4. ASSUME NEW age \in Nat, RoundedOff < age PROVE ~(Stored(clock) <= now - age)
  BY <1>3, <1>4, StoredBounds
<1>5. CASE phase = "cancel"
  <2>1. orders'[o].status = Ledger!PENDING_PAY /\ Stored(at'[o].created) <= now - PayTimeout
    BY <1>1, <1>5 DEF Expected, Column, Age
  <2>2. at'[o].created # clock \/ ~(Stored(clock) <= now - PayTimeout)
    BY <1>4, Numbers
  <2>3. orders[o].status = Ledger!PENDING_PAY /\ at'[o].created = at[o].created
    BY <1>2, <2>1, <2>2 DEF Evolves, Moves, SameBut
  <2> QED
    BY <1>1, <1>5, <2>1, <2>3 DEF Due, Expected, Column, Age
<1>6. CASE phase = "ship"
  <2>1. orders'[o].status = Ledger!PAID /\ Stored(at'[o].paid) <= now - ShipAfter
    BY <1>1, <1>6 DEF Expected, Column, Age
  <2>2. at'[o].paid # clock \/ ~(Stored(clock) <= now - ShipAfter)
    BY <1>4, Numbers
  <2>3. orders[o].status = Ledger!PAID /\ at'[o].paid = at[o].paid
    BY <1>2, <2>1, <2>2 DEF Evolves, Moves, SameBut
  <2> QED
    BY <1>1, <1>6, <2>1, <2>3 DEF Due, Expected, Column, Age
<1> QED
  BY <1>5, <1>6

LEMMA SweptKeeps ==
  ASSUME Inductive, Steps, RoundedOff < PayTimeout, RoundedOff < ShipAfter,
         NEW old, TickOK(old), Swept(old), NEW t \in Tick, Turn(old, t)
  PROVE  Swept(t)'
<1> SUFFICES ASSUME t.phase \in {"cancel", "ship"}, ~t.asking, ~t.again,
                    NEW o, o \in Due(t.phase, t.now)'
             PROVE  \E i \in DOMAIN t.ids : t.ids[i] = o
  BY DEF Swept
<1>1. old.now \in Nat /\ t.now \in Nat /\ old.now <= clock /\ old.ids \in Seq(Orders)
  BY DEF TickOK, Tick
<1>2. CASE t = old
  <2>1. o \in Due(t.phase, t.now)
    BY <1>1, <1>2, DueShrinks
  <2> QED
    BY <1>2, <2>1 DEF Swept
<1>3. CASE t = NoTick \/ Started(t) \/ EndedBatch(old, t)
  BY <1>3 DEF NoTick, Started, EndedBatch
<1>4. CASE Queried(old, t)
  <2>1. o \in Due(t.phase, t.now)
    BY <1>1, <1>4, DueShrinks DEF Queried
  <2> QED
    BY <1>4, <2>1 DEF Queried
<1>5. CASE Worked(old, t) /\ orders'[Head(old.ids)].status # Expected[old.phase]
  <2>1. o \in Due(old.phase, old.now)
    BY <1>1, <1>5, DueShrinks DEF Worked
  <2>2. PICK i \in DOMAIN old.ids : old.ids[i] = o
    BY <1>5, <2>1 DEF Worked, Swept
  <2>3. o # Head(old.ids)
    BY <1>5 DEF Worked, Due
  <2> QED
    BY <1>1, <1>5, <2>2, <2>3, TailIds DEF Worked
<1> QED
  BY <1>2, <1>3, <1>4, <1>5 DEF Turn

\* When a tick is through with cancelling or with shipping, no order is left that was
\* due at its `now`: the batch loop ends neither early nor with the batch.  (Provided
\* the two settings are more than half a second, which rounding could take away.)
THEOREM SweepTheorem ==
  ASSUME RoundedOff < PayTimeout, RoundedOff < ShipAfter
  PROVE  Spec => SweepComplete
<1>1. Init => AllSwept
  BY DEF Init, AllSwept, Swept, NoTick
<1>2. Inductive /\ AllSwept /\ [Next]_vars => AllSwept'
  <2> SUFFICES ASSUME Inductive, AllSwept, [Next]_vars PROVE AllSwept'
    OBVIOUS
  <2>1. PICK new : new = tick'
    OBVIOUS
  <2>2. Steps /\ new \in [Ticks -> Tick] /\ \A k \in Ticks : Turn(tick[k], new[k])
    BY <2>1, NextIs
  <2>3. ASSUME NEW k \in Ticks PROVE Swept(new[k])'
    <3>1. PICK t \in Tick : t = new[k]
      BY <2>2
    <3>2. PICK old : old = tick[k] /\ TickOK(old) /\ Swept(old)
      BY DEF Inductive, TicksOK, AllSwept
    <3>3. Swept(t)'
      BY <2>2, <3>1, <3>2, SweptKeeps
    <3> QED
      BY <3>1, <3>3
  <2> QED
    BY <2>1, <2>3 DEF AllSwept
<1> DEFINE Complete == \A k \in Ticks :
                         /\ tick[k].phase \in {"cancel", "ship"}
                         /\ tick'[k].phase = After[tick[k].phase]
                         => Due(tick[k].phase, tick[k].now) = {}
<1>3. Inductive /\ AllSwept /\ [Next]_vars => [Complete]_vars
  <2> SUFFICES ASSUME Inductive, AllSwept, [Next]_vars, NEW k \in Ticks,
                      tick[k].phase \in {"cancel", "ship"},
                      tick'[k].phase = After[tick[k].phase]
               PROVE  Due(tick[k].phase, tick[k].now) = {}
    OBVIOUS
  <2>1. PICK new : new = tick'
    OBVIOUS
  <2>2. PICK old : old = tick[k] /\ TickOK(old) /\ Swept(old)
    BY DEF Inductive, TicksOK, AllSwept
  <2>3. Turn(old, new[k]) /\ new[k].phase = After[old.phase] /\ old.phase \in {"cancel", "ship"}
    BY <2>1, <2>2, NextIs
  <2>4. new[k].phase # old.phase /\ new[k].phase \in {"ship", "complete"}
    BY <2>3 DEF After
  <2>5. EndedBatch(old, new[k])
    BY <2>3, <2>4 DEF Turn, Started, Queried, Worked, NoTick
  <2>6. ~old.asking /\ ~old.again /\ old.ids = <<>>
    BY <2>4, <2>5 DEF EndedBatch
  <2> QED
    BY <2>2, <2>3, <2>6 DEF Swept
<1> QED
  BY <1>1, <1>2, <1>3, InitInductive, NextInductive, PTL DEF Spec, SweepComplete
==============================================================================
