--------------------------- MODULE Addresses_proofs ---------------------------
(***************************************************************************)
(* Proofs about Addresses, for any identifiers, texts, number of           *)
(* concurrent requests and length of time                                  *)
(* (src/apps/api/src/addresses/addresses.service.ts).                      *)
(*                                                                         *)
(* OneDefault is inductive for the rows that a request computes from those *)
(* it saw.  That these are the rows of the table is in TypeOK, and remains *)
(* so because a range with rows in it has one holder (Exclusive); a first  *)
(* address is inserted when nobody else holds the empty range.             *)
(***************************************************************************)
EXTENDS Addresses, FiniteSetTheorems, WellFoundedInduction, TLAPS

\* One address of the rows is the default, if there are any.
Balanced(rows) ==
  Here(rows) # {} => \E i \in Here(rows) : \A j \in Here(rows) : rows[j].default <=> j = i

Exclusive == Here(table) # {} => \A s, t \in Holding : s = t

Inductive == TypeOK /\ Exclusive /\ Balanced(table)

\* A creation or an update has a text to write.
Worded == \A s \in Sessions : txn[s].op \in {"create", "update"} => txn[s].text \in Texts

------------------------------------------------------------------------------
(* The latest row exists.                                                  *)

\* Row i was created before row j; by identifier if in the same second.
Older(rows, i, j) ==
  \/ rows[j].made > rows[i].made
  \/ rows[j].made = rows[i].made /\ j > i

Newer(rows, i) == {j \in Here(rows) : Older(rows, i, j)}

\* A set of natural numbers has a least one.
LEMMA Least ==
  ASSUME NEW S \in SUBSET Nat, S # {}
  PROVE  \E n \in S : \A m \in S : n <= m
<1> DEFINE less == OpToRel(<, Nat)
<1>1. IsWellFoundedOn(less, Nat)
  BY NatLessThanWellFounded
<1>2. \A m, n \in Nat : m < n => <<m, n>> \in less
  BY DEF OpToRel
<1> HIDE DEF less
<1>3. PICK n \in S : \A m \in S : <<m, n>> \notin less
  BY <1>1, WFMin
<1>4. ASSUME NEW m \in S
      PROVE  n <= m
  <2>1. m \in Nat /\ n \in Nat /\ ~(m < n)
    BY <1>2, <1>3
  <2> QED
    BY <2>1
<1> QED
  BY <1>4

LEMMA RowTypes ==
  ASSUME NEW rows \in Tables
  PROVE  /\ Here(rows) \subseteq Ids
         /\ \A i \in Here(rows) : /\ i \in Int /\ rows[i] \in Row
                                  /\ rows[i].made \in Int /\ rows[i].default \in BOOLEAN
         /\ \A i \in Ids \ Here(rows) : rows[i] = None
BY IdsOrdered, LastSecondNatural DEF Tables, Here, Row

\* The rows newer than a newer row are fewer, so that some row has none: one with
\* the smallest number of newer ones.
LEMMA LatestExists ==
  ASSUME NEW rows \in Tables, Here(rows) # {}
  PROVE  \E i \in Here(rows) : Newer(rows, i) = {}
<1>1. \A i \in Here(rows) : IsFiniteSet(Newer(rows, i)) /\ Cardinality(Newer(rows, i)) \in Nat
  BY RowTypes, IdsFinite, FS_Subset, FS_CardinalityType DEF Newer
<1> DEFINE sizes == {Cardinality(Newer(rows, i)) : i \in Here(rows)}
<1>2. sizes \in SUBSET Nat /\ sizes # {}
  BY <1>1
<1>3. PICK n \in sizes : \A m \in sizes : n <= m
  BY <1>2, Least
<1>4. PICK i \in Here(rows) : n = Cardinality(Newer(rows, i))
  BY <1>3
<1>5. ASSUME NEW j \in Newer(rows, i)
      PROVE  FALSE
  <2>1. j \in Here(rows) /\ Older(rows, i, j)
    BY DEF Newer
  <2>2. Newer(rows, j) \subseteq Newer(rows, i)
    BY <1>4, <2>1, RowTypes DEF Newer, Older
  <2>3. j \notin Newer(rows, j)
    BY <2>1, RowTypes DEF Newer, Older
  <2>4. Cardinality(Newer(rows, j)) < Cardinality(Newer(rows, i))
    <3>1. IsFiniteSet(Newer(rows, i)) /\ Newer(rows, j) # Newer(rows, i)
      BY <1>1, <1>5, <2>3
    <3>2. Cardinality(Newer(rows, j)) <= Cardinality(Newer(rows, i))
      BY <2>2, <3>1, FS_Subset
    <3>3. Cardinality(Newer(rows, j)) # Cardinality(Newer(rows, i))
      BY <2>2, <3>1, FS_Subset
    <3> QED
      BY <1>1, <2>1, <3>2, <3>3
  <2>5. Cardinality(Newer(rows, j)) \in sizes
    BY <2>1
  <2> QED
    BY <1>1, <1>2, <1>3, <1>4, <2>1, <2>4, <2>5
<1> QED
  BY <1>4, <1>5

Last(rows, i) ==
  \A j \in Here(rows) \ {i} :
     \/ rows[i].made > rows[j].made
     \/ rows[i].made = rows[j].made /\ i > j

\* latestRow is a row, and none was created after it.
LEMMA LatestIsLast ==
  ASSUME NEW rows \in Tables, Here(rows) # {}
  PROVE  /\ Latest(rows) \in Here(rows)
         /\ \A j \in Here(rows) : rows[j].made <= rows[Latest(rows)].made
<1>1. PICK i \in Here(rows) : Newer(rows, i) = {}
  BY LatestExists
<1>2. Last(rows, i)
  BY <1>1, RowTypes DEF Newer, Older, Last
<1>3. Latest(rows) \in Here(rows) /\ Last(rows, Latest(rows))
  <2>1. Latest(rows) = CHOOSE k \in Here(rows) : Last(rows, k)
    BY DEF Latest, Last
  <2> QED
    BY <1>2, <2>1
<1> QED
  BY <1>3, RowTypes DEF Last

------------------------------------------------------------------------------
(* What the statements make of the rows they saw.                          *)

LEMMA OnlyDefaultRows ==
  ASSUME NEW rows \in Tables, NEW id
  PROVE  /\ OnlyDefault(rows, id) \in Tables
         /\ Here(OnlyDefault(rows, id)) = Here(rows)
         /\ \A i \in Here(rows) : OnlyDefault(rows, id)[i].default <=> i = id
<1> DEFINE row(i) == [rows[i] EXCEPT !.default = (i = id)]
<1>1. \A i \in Here(rows) : row(i) \in Row /\ (row(i).default <=> i = id) /\ row(i) # None
  <2> SUFFICES ASSUME NEW i \in Here(rows)
               PROVE  row(i) \in Row /\ (row(i).default <=> i = id) /\ row(i) # None
    OBVIOUS
  <2>1. rows[i] \in Row
    BY RowTypes
  <2>2. row(i) \in Row /\ (row(i).default <=> i = id)
    BY <2>1 DEF Row
  <2>3. row(i) # None
    BY <2>2, NoneIsNoRow
  <2> QED
    BY <2>2, <2>3
<1>2. OnlyDefault(rows, id) = [i \in Ids |-> IF rows[i] = None THEN None ELSE row(i)]
  BY DEF OnlyDefault
<1> HIDE DEF row
<1> QED
  BY <1>1, <1>2, RowTypes DEF Tables, Here

\* A row that is there becomes the default, or is it no more, or gets another text.
LEMMA ChosenRows ==
  ASSUME NEW rows \in Tables, NEW id \in Here(rows)
  PROVE  LET new == [rows EXCEPT ![id].default = TRUE]
         IN  /\ new \in Tables /\ Here(new) = Here(rows)
             /\ new[id].default /\ new[id].made = rows[id].made
             /\ \A i \in Ids \ {id} : new[i] = rows[i]
<1> DEFINE row == [rows[id] EXCEPT !.default = TRUE]
<1>1. rows[id] \in Row /\ id \in Ids
  BY RowTypes
<1>2. row \in Row /\ row.default /\ row.made = rows[id].made
  BY <1>1 DEF Row
<1>3. [rows EXCEPT ![id].default = TRUE] = [rows EXCEPT ![id] = row]
  BY <1>1 DEF Tables
<1> HIDE DEF row
<1> QED
  BY <1>1, <1>2, <1>3, NoneIsNoRow DEF Tables, Here

LEMMA GivenUpRows ==
  ASSUME NEW rows \in Tables, NEW id \in Here(rows)
  PROVE  LET new == [rows EXCEPT ![id].default = FALSE]
         IN  /\ new \in Tables /\ Here(new) = Here(rows)
             /\ ~new[id].default /\ new[id].made = rows[id].made
             /\ \A i \in Ids \ {id} : new[i] = rows[i]
<1> DEFINE row == [rows[id] EXCEPT !.default = FALSE]
<1>1. rows[id] \in Row /\ id \in Ids
  BY RowTypes
<1>2. row \in Row /\ ~row.default /\ row.made = rows[id].made
  BY <1>1 DEF Row
<1>3. [rows EXCEPT ![id].default = FALSE] = [rows EXCEPT ![id] = row]
  BY <1>1 DEF Tables
<1> HIDE DEF row
<1> QED
  BY <1>1, <1>2, <1>3, NoneIsNoRow DEF Tables, Here

LEMMA TextRows ==
  ASSUME NEW rows \in Tables, NEW id \in Here(rows), NEW text \in Texts
  PROVE  LET new == [rows EXCEPT ![id].text = text]
         IN  /\ new \in Tables /\ Here(new) = Here(rows)
             /\ \A i \in Here(rows) : /\ new[i].default = rows[i].default
                                      /\ new[i].made = rows[i].made
<1> DEFINE row == [rows[id] EXCEPT !.text = text]
<1>1. rows[id] \in Row /\ id \in Ids
  BY RowTypes
<1>2. row \in Row /\ row.default = rows[id].default /\ row.made = rows[id].made
  BY <1>1 DEF Row
<1>3. [rows EXCEPT ![id].text = text] = [rows EXCEPT ![id] = row]
  BY <1>1 DEF Tables
<1> HIDE DEF row
<1> QED
  BY <1>1, <1>2, <1>3, NoneIsNoRow DEF Tables, Here

LEMMA WithoutRows ==
  ASSUME NEW rows \in Tables, NEW id \in Ids
  PROVE  /\ Without(rows, id) \in Tables
         /\ Here(Without(rows, id)) = Here(rows) \ {id}
         /\ \A i \in Here(rows) \ {id} : Without(rows, id)[i] = rows[i]
BY DEF Without, Tables, Here

LEMMA CreatedBalanced ==
  ASSUME NEW rows \in Tables, Balanced(rows), NEW id \in Ids \ Here(rows),
         NEW text \in Texts, NEW want, second \in 0..LastSecond
  PROVE  /\ Created(rows, id, text, want) \in Tables
         /\ Balanced(Created(rows, id, text, want))
<1> DEFINE default == Here(rows) = {} \/ want = "true"
           others == IF default THEN OnlyDefault(rows, id) ELSE rows
           row == [made |-> second, text |-> text, default |-> default]
           new == [others EXCEPT ![id] = row]
<1>1. Created(rows, id, text, want) = new
  BY DEF Created
<1>2. row \in Row /\ (row.default <=> default)
  BY DEF Row
<1>3. /\ others \in Tables /\ Here(others) = Here(rows)
      /\ \A i \in Here(rows) : default => ~others[i].default
  BY OnlyDefaultRows, RowTypes
<1>4. ~default => others = rows
  OBVIOUS
<1> HIDE DEF row, others
<1>5. /\ new \in Tables /\ Here(new) = Here(rows) \cup {id} /\ new[id] = row
      /\ \A i \in Here(rows) : new[i] = others[i]
  BY <1>2, <1>3, NoneIsNoRow DEF Tables, Here
<1> HIDE DEF new
<1>6. CASE default
  BY <1>1, <1>2, <1>3, <1>5, <1>6 DEF Balanced
<1>7. CASE ~default
  BY <1>1, <1>2, <1>3, <1>4, <1>5, <1>7 DEF Balanced
<1> QED
  BY <1>6, <1>7

\* The default passes to the latest row, if there is one.
LEMMA PromoteRows ==
  ASSUME NEW rows \in Tables, \A i \in Here(rows) : ~rows[i].default
  PROVE  /\ Promote(rows) \in Tables /\ Balanced(Promote(rows))
         /\ Here(Promote(rows)) = Here(rows)
         /\ \A i, j \in Here(rows) : Promote(rows)[i].default => rows[j].made <= rows[i].made
         /\ \A i \in Here(rows) : Promote(rows)[i].made = rows[i].made
<1>1. CASE Here(rows) = {}
  BY <1>1 DEF Promote, Balanced
<1>2. CASE Here(rows) # {}
  <2> DEFINE new == [rows EXCEPT ![Latest(rows)].default = TRUE]
  <2>1. Promote(rows) = new
    BY <1>2 DEF Promote
  <2>2. /\ Latest(rows) \in Here(rows)
        /\ \A j \in Here(rows) : rows[j].made <= rows[Latest(rows)].made
    BY <1>2, LatestIsLast
  <2>3. /\ new \in Tables /\ Here(new) = Here(rows)
        /\ new[Latest(rows)].default /\ new[Latest(rows)].made = rows[Latest(rows)].made
        /\ \A i \in Ids \ {Latest(rows)} : new[i] = rows[i]
    BY <2>2, ChosenRows
  <2> HIDE DEF new
  <2> QED
    BY <2>1, <2>2, <2>3, RowTypes DEF Balanced
<1> QED
  BY <1>1, <1>2

\* Row i is a new default of the rows, and one of the others is newer.
Overtaken(rows, new, id) ==
  \E i, j \in Here(new) \ {id} :
     new[i].default /\ ~rows[i].default /\ ~(new[j].made <= new[i].made)

LEMMA RemovedRows ==
  ASSUME NEW rows \in Tables, Balanced(rows), NEW id \in Here(rows)
  PROVE  LET new == Removed(rows, id)
         IN  /\ new \in Tables /\ Balanced(new)
             /\ Here(new) \subseteq Here(rows)
             /\ ~Overtaken(rows, new, id)
<1> DEFINE rest == Without(rows, id)
<1>1. /\ rest \in Tables /\ Here(rest) = Here(rows) \ {id}
      /\ \A i \in Here(rows) \ {id} : rest[i] = rows[i]
  BY WithoutRows, RowTypes
<1> HIDE DEF rest
<1>2. CASE rows[id].default
  <2>1. \A i \in Here(rest) : ~rest[i].default
    BY <1>1, <1>2 DEF Balanced
  <2>2. Removed(rows, id) = Promote(rest)
    BY <1>2 DEF Removed, rest
  <2>3. /\ Promote(rest) \in Tables /\ Balanced(Promote(rest))
        /\ Here(Promote(rest)) = Here(rest)
        /\ \A i, j \in Here(rest) : Promote(rest)[i].default => rest[j].made <= rest[i].made
        /\ \A i \in Here(rest) : Promote(rest)[i].made = rest[i].made
    BY <1>1, <2>1, PromoteRows
  <2> QED
    BY <1>1, <2>2, <2>3 DEF Overtaken
<1>3. CASE ~rows[id].default
  <2>1. Removed(rows, id) = rest
    BY <1>3 DEF Removed, rest
  <2>2. Balanced(rest)
    BY <1>1, <1>3 DEF Balanced
  <2> QED
    BY <1>1, <2>1, <2>2 DEF Overtaken
<1> QED
  BY <1>2, <1>3

\* The default moves to the row, or away from it to the latest other row.
LEMMA UpdatedRows ==
  ASSUME NEW rows \in Tables, Balanced(rows), NEW id \in Here(rows), NEW text \in Texts,
         NEW want
  PROVE  LET new == Updated(rows, id, text, want)
         IN  /\ new \in Tables /\ Balanced(new)
             /\ Here(new) = Here(rows)
             /\ want = "false" => ~Overtaken(rows, new, id)
<1> DEFINE current == [rows EXCEPT ![id].text = text]
           away == [current EXCEPT ![id].default = FALSE]
           promoted == Latest(Without(rows, id))
           given == [away EXCEPT ![promoted].default = TRUE]
<1>1. /\ current \in Tables /\ Here(current) = Here(rows)
      /\ \A i \in Here(rows) : /\ current[i].default = rows[i].default
                               /\ current[i].made = rows[i].made
  BY TextRows
<1>2. Updated(rows, id, text, want) =
        IF want = "true" /\ ~rows[id].default THEN OnlyDefault(current, id)
        ELSE IF want = "false" /\ rows[id].default
             THEN IF Here(rows) = {id} THEN rows ELSE given
             ELSE current
  BY DEF Updated
<1> HIDE DEF current
<1>3. /\ away \in Tables /\ Here(away) = Here(current)
      /\ ~away[id].default /\ away[id].made = current[id].made
      /\ \A i \in Ids \ {id} : away[i] = current[i]
  <2>1. current \in Tables /\ id \in Here(current)
    BY <1>1
  <2> QED
    BY <2>1, GivenUpRows
<1> HIDE DEF away
<1>4. CASE want = "true" /\ ~rows[id].default
  <2>1. Updated(rows, id, text, want) = OnlyDefault(current, id)
    BY <1>2, <1>4
  <2>2. /\ OnlyDefault(current, id) \in Tables
        /\ Here(OnlyDefault(current, id)) = Here(current)
        /\ \A i \in Here(current) : OnlyDefault(current, id)[i].default <=> i = id
    BY <1>1, OnlyDefaultRows
  <2> QED
    BY <1>1, <1>4, <2>1, <2>2 DEF Balanced
<1>5. CASE want = "false" /\ rows[id].default /\ Here(rows) = {id}
  BY <1>2, <1>5 DEF Overtaken
<1>6. CASE want = "false" /\ rows[id].default /\ Here(rows) # {id}
  <2>1. Updated(rows, id, text, want) = given
    BY <1>2, <1>6
  <2>2. /\ Without(rows, id) \in Tables
        /\ Here(Without(rows, id)) = Here(rows) \ {id}
        /\ \A i \in Here(rows) \ {id} : Without(rows, id)[i] = rows[i]
    BY WithoutRows, RowTypes
  <2>3. /\ promoted \in Here(rows) \ {id}
        /\ \A j \in Here(rows) \ {id} : rows[j].made <= rows[promoted].made
    <3>1. Here(Without(rows, id)) # {}
      BY <1>6, <2>2
    <3>2. /\ promoted \in Here(Without(rows, id))
          /\ \A j \in Here(Without(rows, id)) :
               Without(rows, id)[j].made <= Without(rows, id)[promoted].made
      BY <2>2, <3>1, LatestIsLast
    <3> QED
      BY <2>2, <3>2
  <2> HIDE DEF promoted
  <2>4. /\ given \in Tables /\ Here(given) = Here(away)
        /\ given[promoted].default /\ given[promoted].made = away[promoted].made
        /\ \A i \in Ids \ {promoted} : given[i] = away[i]
    <3>1. away \in Tables /\ promoted \in Here(away)
      BY <1>1, <1>3, <2>3
    <3> QED
      BY <3>1, ChosenRows
  <2> HIDE DEF given
  <2>5. \A i \in Here(rows) \ {id} : ~rows[i].default
    BY <1>6 DEF Balanced
  <2>6. \A i \in Here(rows) : given[i].default <=> i = promoted
    BY <1>1, <1>3, <2>3, <2>4, <2>5, RowTypes
  <2>7. \A i \in Here(rows) : given[i].made = rows[i].made
    BY <1>1, <1>3, <2>3, <2>4, RowTypes
  <2>8. Here(given) = Here(rows)
    BY <1>1, <1>3, <2>4
  <2>9. Balanced(given)
    BY <2>3, <2>6, <2>8 DEF Balanced
  <2>10. ~Overtaken(rows, given, id)
    BY <2>3, <2>6, <2>7, <2>8 DEF Overtaken
  <2> QED
    BY <2>1, <2>4, <2>8, <2>9, <2>10
<1>7. CASE /\ ~(want = "true" /\ ~rows[id].default)
           /\ ~(want = "false" /\ rows[id].default)
  <2>1. Updated(rows, id, text, want) = current
    BY <1>2, <1>7
  <2> QED
    BY <1>1, <2>1 DEF Balanced, Overtaken
<1> QED
  BY <1>4, <1>5, <1>6, <1>7

------------------------------------------------------------------------------
(* The steps.                                                              *)

Request ==
  [op : {"none", "create", "update", "remove"}, stage : {"idle", "begun", "locked", "done"},
   id : Ids \cup {None}, text : Texts \cup {None}, want : IsDefault, saw : Tables]

\* One request moves on to a stage that holds no lock, over the same rows.
LEMMA LooseKeeps ==
  ASSUME Inductive, NEW s \in Sessions, NEW request \in Request,
         request.stage # "locked", txn' = [txn EXCEPT ![s] = request],
         UNCHANGED <<table, second>>
  PROVE  Inductive'
<1>1. Holding' \subseteq Holding /\ \A t \in Holding' : txn'[t] = txn[t]
  BY DEF Inductive, TypeOK, Holding
<1>2. txn' \in [Sessions -> Request]
  BY DEF Inductive, TypeOK, Request
<1>3. TypeOK'
  BY <1>1, <1>2 DEF Inductive, TypeOK, Request
<1>4. Exclusive'
  BY <1>1 DEF Inductive, Exclusive
<1> QED
  BY <1>3, <1>4 DEF Inductive, Balanced, Here

LEMMA RequestTypes ==
  ASSUME TypeOK, NEW s \in Sessions
  PROVE  /\ txn[s] \in Request /\ Idle \in Request /\ Idle.stage = "idle"
         /\ Empty \in Tables /\ txn[s].saw \in Tables
  BY DEF TypeOK, Request, Idle, Empty, Tables, IsDefault

LEMMA BeginKeeps ==
  ASSUME Inductive, NEW s \in Sessions, NEW op \in {"create", "update", "remove"},
         NEW id \in Ids \cup {None}, NEW text \in Texts \cup {None}, NEW want \in IsDefault,
         Begin(s, op, id, text, want)
  PROVE  Inductive'
<1> DEFINE request == [Idle EXCEPT !.op = op, !.stage = "begun", !.id = id,
                                   !.text = text, !.want = want]
<1>1. request \in Request /\ request.stage = "begun"
  BY RequestTypes DEF Inductive, Request
<1>2. txn' = [txn EXCEPT ![s] = request] /\ UNCHANGED <<table, second>>
  BY DEF Begin
<1> HIDE DEF request
<1> QED
  BY <1>1, <1>2, LooseKeeps

LEMMA RollbackKeeps ==
  ASSUME Inductive, NEW s \in Sessions, Rollback(s)
  PROVE  Inductive'
  BY RequestTypes, LooseKeeps DEF Rollback, Inductive

\* Whoever locks the rows sees them, and is alone if there are any.
LEMMA LockKeeps ==
  ASSUME Inductive, NEW s \in Sessions, LockUserAddresses(s)
  PROVE  Inductive'
<1> DEFINE request == [txn[s] EXCEPT !.stage = "locked", !.saw = table]
<1>1. txn' = [txn EXCEPT ![s] = request] /\ UNCHANGED <<table, second>>
        /\ (Here(table) = {} \/ Holding = {})
  BY DEF LockUserAddresses, Inductive, TypeOK
<1>2. request \in Request /\ request.saw = table
  BY RequestTypes DEF Inductive, TypeOK, Request
<1> HIDE DEF request
<1>3. txn' \in [Sessions -> Request]
  BY <1>1, <1>2 DEF Inductive, TypeOK, Request
<1>4. Holding' \subseteq Holding \cup {s} /\ \A t \in Holding' : txn'[t].saw = table
  BY <1>1, <1>2 DEF Inductive, TypeOK, Holding
<1>5. TypeOK'
  BY <1>1, <1>3, <1>4 DEF Inductive, TypeOK, Request
<1>6. Exclusive'
  BY <1>1, <1>4 DEF Exclusive, Here
<1> QED
  BY <1>1, <1>5, <1>6 DEF Inductive, Balanced, Here

\* The only holder commits rows with one default.
LEMMA CommitKeeps ==
  ASSUME Inductive, NEW s \in Sessions, NEW id \in Ids, NEW rows \in Tables,
         Holding = {s}, Balanced(rows), Commit(s, id, rows)
  PROVE  Inductive'
<1> DEFINE request == [txn[s] EXCEPT !.stage = "done", !.id = id, !.saw = Empty]
<1>1. txn' = [txn EXCEPT ![s] = request] /\ table' = rows /\ second' = second
  BY DEF Commit, Inductive, TypeOK
<1>2. request \in Request /\ request.stage = "done"
  BY RequestTypes DEF Inductive, Request
<1> HIDE DEF request
<1>3. txn' \in [Sessions -> Request]
  BY <1>1, <1>2 DEF Inductive, TypeOK, Request
<1>4. Holding' = {}
  BY <1>1, <1>2 DEF Inductive, TypeOK, Holding
<1>5. TypeOK'
  BY <1>1, <1>3, <1>4 DEF Inductive, TypeOK, Request
<1>6. Exclusive' /\ Balanced(table)'
  BY <1>1, <1>4 DEF Exclusive, Balanced, Here
<1> QED
  BY <1>5, <1>6 DEF Inductive

\* A request that finds the address it names is alone, and saw the table.
LEMMA NamedAlone ==
  ASSUME Inductive, NEW s \in Sessions, txn[s].stage = "locked", Named(s)
  PROVE  /\ Holding = {s} /\ txn[s].saw = table /\ table \in Tables
         /\ txn[s].id \in Here(table) /\ txn[s].id \in Ids
<1>1. s \in Holding
  BY DEF Holding
<1>2. txn[s].saw = table /\ table \in Tables
  BY <1>1 DEF Inductive, TypeOK
<1>3. txn[s].id \in Here(table) /\ txn[s].id \in Ids
  BY <1>2 DEF Named, Here
<1> QED
  BY <1>1, <1>2, <1>3 DEF Inductive, Exclusive

LEMMA CommitRemoveKeeps ==
  ASSUME Inductive, NEW s \in Sessions, CommitRemove(s)
  PROVE  Inductive'
<1>1. CASE ~Named(s)
  BY <1>1, RollbackKeeps DEF CommitRemove
<1>2. CASE Named(s)
  <2>1. /\ Holding = {s} /\ txn[s].saw = table /\ table \in Tables
        /\ txn[s].id \in Here(table) /\ txn[s].id \in Ids
    BY <1>2, NamedAlone DEF CommitRemove
  <2>2. Commit(s, txn[s].id, Removed(table, txn[s].id))
    BY <1>2, <2>1 DEF CommitRemove
  <2>3. Removed(table, txn[s].id) \in Tables /\ Balanced(Removed(table, txn[s].id))
    BY <2>1, RemovedRows DEF Inductive
  <2> QED
    BY <2>1, <2>2, <2>3, CommitKeeps
<1> QED
  BY <1>1, <1>2

LEMMA CommitCreateKeeps ==
  ASSUME Inductive, NEW s \in Sessions, txn[s].text \in Texts, CommitCreate(s)
  PROVE  Inductive'
<1>1. s \in Holding
  BY DEF CommitCreate, Holding
<1>2. Holding = {s} /\ txn[s].saw = table /\ table \in Tables
  BY <1>1 DEF CommitCreate, Inductive, TypeOK, Exclusive
<1>3. PICK id \in Ids \ Here(table) : Commit(s, id, Created(table, id, txn[s].text, txn[s].want))
  BY <1>2 DEF CommitCreate
<1>4. /\ Created(table, id, txn[s].text, txn[s].want) \in Tables
      /\ Balanced(Created(table, id, txn[s].text, txn[s].want))
  BY <1>2, CreatedBalanced DEF Inductive, TypeOK
<1> QED
  BY <1>2, <1>3, <1>4, CommitKeeps

LEMMA CommitUpdateKeeps ==
  ASSUME Inductive, NEW s \in Sessions, txn[s].text \in Texts, CommitUpdate(s)
  PROVE  Inductive'
<1>1. CASE ~Named(s)
  BY <1>1, RollbackKeeps DEF CommitUpdate
<1>2. CASE Named(s)
  <2> DEFINE rows == Updated(table, txn[s].id, txn[s].text, txn[s].want)
  <2>1. /\ Holding = {s} /\ txn[s].saw = table /\ table \in Tables
        /\ txn[s].id \in Here(table) /\ txn[s].id \in Ids
    BY <1>2, NamedAlone DEF CommitUpdate
  <2>2. Commit(s, txn[s].id, rows)
    BY <1>2, <2>1 DEF CommitUpdate
  <2>3. rows \in Tables /\ Balanced(rows)
    BY <2>1, UpdatedRows DEF Inductive
  <2> HIDE DEF rows
  <2> QED
    BY <2>1, <2>2, <2>3, CommitKeeps
<1> QED
  BY <1>1, <1>2

LEMMA AdvanceKeeps == Inductive /\ Advance => Inductive'
<1> SUFFICES ASSUME Inductive, Advance PROVE Inductive'
  OBVIOUS
<1>1. second' \in 0..LastSecond /\ UNCHANGED <<table, txn>>
  BY LastSecondNatural DEF Advance, Inductive, TypeOK
<1> QED
  BY <1>1 DEF Inductive, TypeOK, Exclusive, Holding, Balanced, Here

\* What a session's request is after each of its steps.
LEMMA Begun ==
  ASSUME TypeOK, NEW s \in Sessions, BeginCreate(s) \/ BeginUpdate(s) \/ BeginRemove(s)
  PROVE  /\ txn[s] = Idle /\ txn'[s].stage = "begun"
         /\ txn'[s].op \in {"create", "update"} => txn'[s].text \in Texts
         /\ \A t \in Sessions \ {s} : txn'[t] = txn[t]
<1>1. ASSUME NEW op, NEW id, NEW text, NEW want, Begin(s, op, id, text, want)
      PROVE  /\ txn[s] = Idle /\ txn'[s].stage = "begun"
             /\ txn'[s].op = op /\ txn'[s].text = text
             /\ \A t \in Sessions \ {s} : txn'[t] = txn[t]
  <2> DEFINE request == [Idle EXCEPT !.op = op, !.stage = "begun", !.id = id,
                                     !.text = text, !.want = want]
  <2>1. request.stage = "begun" /\ request.op = op /\ request.text = text
    BY DEF Idle
  <2>2. txn[s] = Idle /\ txn' = [txn EXCEPT ![s] = request]
    BY <1>1 DEF Begin
  <2> HIDE DEF request
  <2> QED
    BY <2>1, <2>2 DEF TypeOK
<1>2. CASE BeginCreate(s)
  BY <1>1, <1>2 DEF BeginCreate
<1>3. CASE BeginUpdate(s)
  BY <1>1, <1>3 DEF BeginUpdate
<1>4. CASE BeginRemove(s)
  BY <1>1, <1>4 DEF BeginRemove
<1> QED
  BY <1>2, <1>3, <1>4

LEMMA Abandoned ==
  ASSUME TypeOK, NEW s \in Sessions, Rollback(s)
  PROVE  /\ txn'[s].stage = "idle" /\ txn'[s].op = "none"
         /\ \A t \in Sessions \ {s} : txn'[t] = txn[t]
BY DEF TypeOK, Rollback, Idle

LEMMA Committed ==
  ASSUME TypeOK, NEW s \in Sessions, NEW id, NEW rows, Commit(s, id, rows)
  PROVE  /\ txn'[s].stage = "done" /\ txn'[s].op = txn[s].op /\ txn'[s].text = txn[s].text
         /\ \A t \in Sessions \ {s} : txn'[t] = txn[t]
BY DEF TypeOK, Commit

LEMMA Ended ==
  ASSUME TypeOK, NEW s \in Sessions, CommitCreate(s) \/ CommitUpdate(s) \/ CommitRemove(s)
  PROVE  /\ \/ txn'[s].stage = "idle" /\ txn'[s].op = "none"
            \/ txn'[s].stage = "done" /\ txn'[s].op = txn[s].op /\ txn'[s].text = txn[s].text
         /\ \A t \in Sessions \ {s} : txn'[t] = txn[t]
<1>1. Rollback(s) \/ \E id, rows : Commit(s, id, rows)
  BY DEF CommitCreate, CommitUpdate, CommitRemove
<1> QED
  BY <1>1, Abandoned, Committed

LEMMA WordedKept ==
  ASSUME TypeOK, Worded, [Next]_vars
  PROVE  Worded'
<1>1. ASSUME NEW s \in Sessions, NEW t \in Sessions,
             BeginCreate(t) \/ BeginUpdate(t) \/ BeginRemove(t)
      PROVE  txn'[s].op \in {"create", "update"} => txn'[s].text \in Texts
  BY <1>1, Begun DEF Worded
<1>2. ASSUME NEW s \in Sessions, NEW t \in Sessions, LockUserAddresses(t)
      PROVE  txn'[s].op \in {"create", "update"} => txn'[s].text \in Texts
  BY <1>2 DEF TypeOK, LockUserAddresses, Worded
<1>3. ASSUME NEW s \in Sessions, NEW t \in Sessions,
             CommitCreate(t) \/ CommitUpdate(t) \/ CommitRemove(t)
      PROVE  txn'[s].op \in {"create", "update"} => txn'[s].text \in Texts
  BY <1>3, Ended DEF Worded
<1>4. ASSUME NEW s \in Sessions, NEW t \in Sessions, Fail(t) \/ Answer(t)
      PROVE  txn'[s].op \in {"create", "update"} => txn'[s].text \in Texts
  BY <1>4, Abandoned DEF Fail, Answer, Worded
<1>5. CASE Advance \/ UNCHANGED vars
  BY <1>5 DEF Advance, vars, Worded
<1> QED
  BY <1>1, <1>2, <1>3, <1>4, <1>5 DEF Next, Worded

LEMMA Start == Init => Inductive /\ Worded
<1> SUFFICES ASSUME Init PROVE Inductive /\ Worded
  OBVIOUS
<1>1. Here(table) = {} /\ Holding = {}
  BY DEF Init, Here, Empty, Holding, Idle
<1>2. table \in Tables /\ Idle \in Request
  BY DEF Init, Empty, Tables, Idle, Request, IsDefault
<1>3. TypeOK
  BY <1>1, <1>2, LastSecondNatural DEF Init, TypeOK, Request
<1> QED
  BY <1>1, <1>3 DEF Init, Inductive, Exclusive, Balanced, Worded, Idle

LEMMA Kept == Inductive /\ Worded /\ [Next]_vars => Inductive' /\ Worded'
<1> SUFFICES ASSUME Inductive, Worded, [Next]_vars PROVE Inductive'
  BY WordedKept DEF Inductive
<1>1. ASSUME NEW s \in Sessions, BeginCreate(s) \/ BeginUpdate(s) \/ BeginRemove(s)
      PROVE  Inductive'
  BY <1>1, BeginKeeps DEF BeginCreate, BeginUpdate, BeginRemove, IsDefault
<1>2. ASSUME NEW s \in Sessions, LockUserAddresses(s)
      PROVE  Inductive'
  BY <1>2, LockKeeps
<1>3. ASSUME NEW s \in Sessions, CommitCreate(s) \/ CommitUpdate(s)
      PROVE  Inductive'
  <2>1. txn[s].text \in Texts
    BY <1>3 DEF Worded, CommitCreate, CommitUpdate
  <2> QED
    BY <1>3, <2>1, CommitCreateKeeps, CommitUpdateKeeps
<1>4. ASSUME NEW s \in Sessions, CommitRemove(s)
      PROVE  Inductive'
  BY <1>4, CommitRemoveKeeps
<1>5. ASSUME NEW s \in Sessions, Fail(s) \/ Answer(s)
      PROVE  Inductive'
  BY <1>5, RollbackKeeps DEF Fail, Answer
<1>6. CASE Advance
  BY <1>6, AdvanceKeeps
<1>7. CASE UNCHANGED vars
  BY <1>7 DEF vars, Inductive, TypeOK, Exclusive, Holding, Balanced, Here
<1> QED
  BY <1>1, <1>2, <1>3, <1>4, <1>5, <1>6, <1>7 DEF Next

------------------------------------------------------------------------------
(* The theorems.                                                           *)

\* Rows and requests keep their shape, and a request that has locked the user's rows
\* works with the rows that are there (lockUserAddresses).
THEOREM TypeTheorem == Spec => []TypeOK
<1>1. Inductive => TypeOK
  BY DEF Inductive
<1> QED
  BY <1>1, Start, Kept, PTL DEF Spec

\* Whatever requests create, edit and delete addresses at the same time, a user who has
\* addresses has exactly one default (addresses.service.ts, create, update and remove).
THEOREM DefaultTheorem == Spec => []OneDefault
<1>1. Inductive => OneDefault
  <2> SUFFICES ASSUME Inductive, Here(table) # {} PROVE Cardinality(Defaults) = 1
    BY DEF OneDefault
  <2>1. PICK i \in Here(table) : \A j \in Here(table) : table[j].default <=> j = i
    BY DEF Inductive, Balanced
  <2>2. Defaults = {i}
    BY <2>1 DEF Defaults
  <2> QED
    BY <2>2, FS_Singleton
<1> QED
  BY <1>1, Start, Kept, PTL DEF Spec

\* A deletion or an update that gives the default up passes it to an address than which
\* no other one it could have gone to is newer (latestRow).
THEOREM PromotionTheorem == Spec => PromotesLatest
<1> DEFINE Step ==
      \A s \in Sessions, i \in Ids :
        /\ txn[s].stage = "locked" /\ txn'[s].stage = "done"
        /\ txn[s].op = "remove" \/ (txn[s].op = "update" /\ txn[s].want = "false")
        /\ i \in Here(table') /\ i # txn[s].id
        /\ table'[i].default /\ ~table[i].default
        => \A j \in Here(table') \ {txn[s].id} : table'[j].made <= table'[i].made
<1>1. ASSUME Inductive, Worded, [Next]_vars
      PROVE  Step
  <2> SUFFICES ASSUME NEW s \in Sessions,
                      txn[s].stage = "locked", txn'[s].stage = "done",
                      txn[s].op = "remove" \/ (txn[s].op = "update" /\ txn[s].want = "false")
               PROVE  ~Overtaken(table, table', txn[s].id)
    BY DEF Overtaken
  <2>1. CommitUpdate(s) \/ CommitRemove(s)
    <3>1. ASSUME NEW t \in Sessions, BeginCreate(t) \/ BeginUpdate(t) \/ BeginRemove(t)
          PROVE  FALSE
      BY <1>1, <3>1, Begun DEF Inductive
    <3>2. ASSUME NEW t \in Sessions, LockUserAddresses(t)
          PROVE  FALSE
      BY <1>1, <3>2 DEF Inductive, TypeOK, LockUserAddresses
    <3>3. ASSUME NEW t \in Sessions, Fail(t) \/ Answer(t)
          PROVE  FALSE
      BY <1>1, <3>3, Abandoned DEF Inductive, Fail, Answer
    <3>4. ASSUME NEW t \in Sessions, CommitCreate(t) \/ CommitUpdate(t) \/ CommitRemove(t)
          PROVE  t = s /\ ~CommitCreate(t)
      BY <1>1, <3>4, Ended DEF Inductive, CommitCreate
    <3>5. ~(Advance \/ UNCHANGED vars)
      BY DEF Advance, vars
    <3> QED
      BY <1>1, <3>1, <3>2, <3>3, <3>4, <3>5 DEF Next
  <2>2. Named(s)
    BY <1>1, <2>1 DEF CommitUpdate, CommitRemove, Rollback, Idle, Inductive, TypeOK
  <2>3. /\ txn[s].saw = table /\ table \in Tables
        /\ txn[s].id \in Here(table) /\ txn[s].id \in Ids
    BY <1>1, <2>2, NamedAlone
  <2>4. CASE CommitUpdate(s)
    <3>1. txn[s].want = "false" /\ txn[s].text \in Texts
      BY <1>1, <2>4 DEF CommitUpdate, Worded
    <3>2. table' = Updated(table, txn[s].id, txn[s].text, txn[s].want)
      BY <2>2, <2>3, <2>4 DEF CommitUpdate, Commit
    <3> QED
      BY <1>1, <2>3, <3>1, <3>2, UpdatedRows DEF Inductive
  <2>5. CASE CommitRemove(s)
    <3>1. table' = Removed(table, txn[s].id)
      BY <2>2, <2>3, <2>5 DEF CommitRemove, Commit
    <3> QED
      BY <1>1, <2>3, <3>1, RemovedRows DEF Inductive
  <2> QED
    BY <2>1, <2>4, <2>5
<1>2. Inductive /\ Worded /\ [Next]_vars => [Step]_vars
  BY <1>1
<1> QED
  BY <1>2, Start, Kept, PTL DEF Spec, PromotesLatest
==============================================================================
