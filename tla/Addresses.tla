------------------------------ MODULE Addresses ------------------------------
(***************************************************************************)
(* AddressesService: the shipping addresses of one user (the statements    *)
(* never touch those of another), which several devices create, edit and   *)
(* delete at once.                                                         *)
(*                                                                         *)
(* Every request is a transaction that first reads the user's rows FOR     *)
(* UPDATE and then works with the rows it `saw`.  InnoDB locks the rows    *)
(* and the gaps between them: a second reader waits for the first as long  *)
(* as there is a row to wait for.  In an empty range there are only gaps,  *)
(* which exclude nobody until an INSERT meets them; two first addresses    *)
(* wait for each other and one is rolled back.                             *)
(***************************************************************************)
EXTENDS Integers, FiniteSets

CONSTANTS
  Ids,          \* what randomUUID draws from; ordered, as strings are
  Texts,        \* contents of receiver, phone, region and detail
  Sessions,     \* requests that can be in progress at the same time
  LastSecond,   \* bound: the clock of created_at stops here
  None          \* no row, no address named

ASSUME IdsOrdered == Ids \subseteq Int
ASSUME IdsFinite == IsFiniteSet(Ids)
ASSUME LastSecondNatural == LastSecond \in Nat
ASSUME NoneIsNone == None \notin Ids /\ None \notin Texts

VARIABLES
  table,        \* the committed rows by id
  txn,          \* the request each session serves
  second        \* the database's clock, in whole seconds

vars == <<table, txn, second>>

Row == [made : 0..LastSecond, text : Texts, default : BOOLEAN]
ASSUME NoneIsNoRow == None \notin Row
Tables == [Ids -> Row \cup {None}]
Here(rows) == {i \in Ids : rows[i] # None}
Empty == [i \in Ids |-> None]

\* A request: the address it names, the fields and the isDefault of its body.
Idle == [op |-> "none", stage |-> "idle", id |-> None, text |-> None,
         want |-> "absent", saw |-> Empty]

IsDefault == {"true", "false", "absent"}

Holding == {s \in Sessions : txn[s].stage = "locked"}

------------------------------------------------------------------------------
(* The rows.                                                               *)

\* Mutant of Latest: the order of the comparison is swapped.
LatestSwapped(rows) ==
  CHOOSE i \in Here(rows) : \A j \in Here(rows) \ {i} :
     \/ rows[i].made < rows[j].made
     \/ rows[i].made = rows[j].made /\ i < j

\* latestRow: by created_at, which is kept in seconds, then by id.
Latest(rows) ==
  CHOOSE i \in Here(rows) : \A j \in Here(rows) \ {i} :
     \/ rows[i].made > rows[j].made
     \/ rows[i].made = rows[j].made /\ i > j

Promote(rows) ==
  IF Here(rows) = {} THEN rows ELSE [rows EXCEPT ![Latest(rows)].default = TRUE]

Without(rows, id) == [rows EXCEPT ![id] = None]

\* Nobody is the default but `id`.
OnlyDefault(rows, id) ==
  [i \in Ids |-> IF rows[i] = None THEN None ELSE [rows[i] EXCEPT !.default = (i = id)]]

\* update: isDefault moves the default here, or away to the latest other row
\* if there is one; when there is none, nothing at all is saved.
Updated(rows, id, text, want) ==
  LET current == [rows EXCEPT ![id].text = text]
      away == [current EXCEPT ![id].default = FALSE]
      promoted == Latest(Without(rows, id))
  IN  IF want = "true" /\ ~rows[id].default THEN OnlyDefault(current, id)
      ELSE IF want = "false" /\ rows[id].default
           THEN IF Here(rows) = {id} THEN rows
                ELSE [away EXCEPT ![promoted].default = TRUE]
           ELSE current

\* Mutant of Removed: nobody is promoted.
RemovedOnly(rows, id) == Without(rows, id)

\* remove: the default that is deleted passes to the latest row that remains.
Removed(rows, id) ==
  IF rows[id].default THEN Promote(Without(rows, id)) ELSE Without(rows, id)

\* create: the first address is the default whatever the body says.
Created(rows, id, text, want) ==
  LET default == Here(rows) = {} \/ want = "true"
      others == IF default THEN OnlyDefault(rows, id) ELSE rows
  IN  [others EXCEPT ![id] = [made |-> second, text |-> text, default |-> default]]

------------------------------------------------------------------------------
(* Transactions.                                                           *)

Begin(s, op, id, text, want) ==
  /\ txn[s] = Idle
  /\ txn' = [txn EXCEPT ![s] = [Idle EXCEPT !.op = op, !.stage = "begun", !.id = id,
                                            !.text = text, !.want = want]]
  /\ UNCHANGED <<table, second>>

BeginCreate(s) == \E text \in Texts, want \in IsDefault :
                     Begin(s, "create", None, text, want)
BeginUpdate(s) == \E id \in Ids, text \in Texts, want \in IsDefault :
                     Begin(s, "update", id, text, want)
BeginRemove(s) == \E id \in Ids : Begin(s, "remove", id, None, "absent")

\* Mutant of LockUserAddresses: the rows are read without a lock.
ReadUserAddresses(s) ==
  /\ txn[s].stage = "begun"
  /\ txn' = [txn EXCEPT ![s].stage = "locked", ![s].saw = table]
  /\ UNCHANGED <<table, second>>

LockUserAddresses(s) ==
  /\ txn[s].stage = "begun"
  /\ Here(table) = {} \/ Holding = {}
  /\ txn' = [txn EXCEPT ![s].stage = "locked", ![s].saw = table]
  /\ UNCHANGED <<table, second>>

\* COMMIT, and the answer with the address that was written.
Commit(s, id, rows) ==
  /\ table' = rows
  /\ txn' = [txn EXCEPT ![s].stage = "done", ![s].id = id, ![s].saw = Empty]
  /\ UNCHANGED second

Rollback(s) ==
  /\ txn' = [txn EXCEPT ![s] = Idle]
  /\ UNCHANGED <<table, second>>

\* Bound: an identifier is left.  The INSERT waits for whoever else has locked the gap it falls into.
CommitCreate(s) ==
  /\ txn[s].op = "create" /\ txn[s].stage = "locked"
  /\ Here(table) = {} => Holding = {s}
  /\ \E id \in Ids \ Here(table) :
        Commit(s, id, Created(txn[s].saw, id, txn[s].text, txn[s].want))

Named(s) == txn[s].id \in Here(txn[s].saw)

CommitUpdate(s) ==
  /\ txn[s].op = "update" /\ txn[s].stage = "locked"
  /\ IF Named(s)
     THEN Commit(s, txn[s].id, Updated(txn[s].saw, txn[s].id, txn[s].text, txn[s].want))
     ELSE Rollback(s)

CommitRemove(s) ==
  /\ txn[s].op = "remove" /\ txn[s].stage = "locked"
  /\ IF Named(s)
     THEN Commit(s, txn[s].id, Removed(txn[s].saw, txn[s].id))
     ELSE Rollback(s)

\* A deadlock victim (two inserts into an empty range, or an insert before a
\* row that another request waits for), a lock-wait timeout, a lost connection.
Fail(s) == txn[s].stage \in {"begun", "locked"} /\ Rollback(s)

\* The answer is sent; the session serves the next request.
Answer(s) == txn[s].stage = "done" /\ Rollback(s)

Advance ==
  /\ second < LastSecond
  /\ second' = second + 1
  /\ UNCHANGED <<table, txn>>

Init ==
  /\ table = Empty
  /\ txn = [s \in Sessions |-> Idle]
  /\ second = 0

Next ==
  \/ \E s \in Sessions :
        \/ BeginCreate(s) \/ BeginUpdate(s) \/ BeginRemove(s)
        \/ LockUserAddresses(s)
        \/ CommitCreate(s) \/ CommitUpdate(s) \/ CommitRemove(s)
        \/ Fail(s) \/ Answer(s)
  \/ Advance

Spec == Init /\ [][Next]_vars

------------------------------------------------------------------------------
(* Properties.                                                             *)

\* Rows and requests are well formed; whoever locked rows saw what is there.
TypeOK ==
  /\ table \in Tables
  /\ second \in 0..LastSecond
  /\ txn \in [Sessions -> [op : {"none", "create", "update", "remove"},
                           stage : {"idle", "begun", "locked", "done"},
                           id : Ids \cup {None}, text : Texts \cup {None},
                           want : IsDefault, saw : Tables]]
  /\ \A s \in Holding : txn[s].saw = table

\* A user who has addresses has exactly one default among them, whatever
\* requests overlap, the first two creations included: the comments on
\* lockUserAddresses (at most one) and in update (at least one).
Defaults == {i \in Here(table) : table[i].default}
OneDefault == Here(table) # {} => Cardinality(Defaults) = 1

\* A request that names no new default (a deletion, or an update that gives the
\* default up) never leaves it on an address older than another it could have
\* gone to, also when addresses are created and deleted around it.
PromotesLatest ==
  [][\A s \in Sessions, i \in Ids :
        /\ txn[s].stage = "locked" /\ txn'[s].stage = "done"
        /\ txn[s].op = "remove" \/ (txn[s].op = "update" /\ txn[s].want = "false")
        /\ i \in Here(table') /\ i # txn[s].id
        /\ table'[i].default /\ ~table[i].default
        => \A j \in Here(table') \ {txn[s].id} : table'[j].made <= table'[i].made]_vars

\* AddressEditScreen.tsx:141 says that the address was updated whenever the
\* request succeeds.  When the only address is edited and its default box
\* unticked, update saves nothing and answers with the old fields.
EditsSaved ==
  [][\A s \in Sessions :
        txn[s].op = "update" /\ txn[s].stage = "locked" /\ txn'[s].stage = "done"
          => table'[txn[s].id].text = txn[s].text]_vars
==============================================================================
