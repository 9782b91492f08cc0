----------------------------- MODULE OrderScreen -----------------------------
(***************************************************************************)
(* The order page (OrderDetailScreen) of one device: it reads one order,   *)
(* pays or cancels it, and is told no more about it than the answers say.  *)
(*                                                                         *)
(* The order also moves without the screen: the jobs and other devices     *)
(* pay, cancel, ship and complete it.  Every answer replaces what is       *)
(* shown, in the order the answers arrive; no read knows that a later one  *)
(* was answered before it.                                                 *)
(***************************************************************************)
EXTENDS Integers, FiniteSets

CONSTANTS
  Calls,        \* requests that can be under way at the same time
  None

VARIABLES
  status,       \* orders.status, with the code's numbers
  order,        \* the status of the order shown; None before the first answer
  busyAction,   \* "pay" or "cancel" while the screen waits for it
  confirming,   \* showCancelDialog
  calls,        \* requests under way
  moved,        \* somebody else has moved the order since the server last told
                \* this page of it
  suspect       \* requests overlapped, or an answer was lost

vars == <<status, order, busyAction, confirming, calls, moved, suspect>>

PENDING_PAY == 0
PAID == 1
COMPLETED == 2
CANCELLED == 3
AWAITING_RECEIPT == 4

\* Where an order can go from each status; the last two are the jobs' doing.
Follows == {<<PENDING_PAY, PAID>>, <<PENDING_PAY, CANCELLED>>,
            <<PAID, AWAITING_RECEIPT>>, <<AWAITING_RECEIPT, COMPLETED>>}

\* In one step or in several.
Ahead == Follows \cup {<<PENDING_PAY, AWAITING_RECEIPT>>, <<PENDING_PAY, COMPLETED>>,
                       <<PAID, COMPLETED>>}

Actions == {"pay", "cancel"}
Outcome(op) == IF op = "pay" THEN PAID ELSE CANCELLED

Free == [op |-> None, stage |-> "free", answer |-> None]
Under == {c \in Calls : calls[c] # Free}

------------------------------------------------------------------------------
\* The screen gets the focus, the user object is a new one, or the page is pulled down.
Load(c) ==
  /\ calls[c] = Free
  /\ calls' = [calls EXCEPT ![c] = [Free EXCEPT !.op = "load", !.stage = "done"]]
  /\ suspect' = (Under # {})
  /\ UNCHANGED <<status, order, busyAction, confirming, moved>>

\* Mutant of RunAction: the way out while an action is under way is missing.
RunActionAgain(c, op) ==
  /\ order = PENDING_PAY /\ confirming = (op = "cancel") /\ calls[c] = Free
  /\ busyAction' = op
  /\ calls' = [calls EXCEPT ![c] = [Free EXCEPT !.op = op, !.stage = "sent"]]
  /\ suspect' = (suspect \/ Under # {})
  /\ UNCHANGED <<status, order, confirming, moved>>

\* 立即支付, which the dialog covers, or 确认取消 in the dialog; a press is rendered before
\* the next one is handled.
RunAction(c, op) ==
  /\ order = PENDING_PAY /\ busyAction = None
  /\ confirming = (op = "cancel") /\ calls[c] = Free
  /\ busyAction' = op
  /\ calls' = [calls EXCEPT ![c] = [Free EXCEPT !.op = op, !.stage = "sent"]]
  /\ suspect' = (suspect \/ Under # {})
  /\ UNCHANGED <<status, order, confirming, moved>>

AskToCancel ==
  /\ order = PENDING_PAY /\ busyAction = None /\ ~confirming
  /\ confirming' = TRUE
  /\ UNCHANGED <<status, order, busyAction, calls, moved, suspect>>

CloseDialog ==
  /\ confirming /\ confirming' = FALSE
  /\ UNCHANGED <<status, order, busyAction, calls, moved, suspect>>

------------------------------------------------------------------------------
(* The server: the conditional update, then a read of its own.             *)

Transact(c) ==
  /\ calls[c].stage = "sent" /\ status = PENDING_PAY
  /\ status' = Outcome(calls[c].op)
  /\ calls' = [calls EXCEPT ![c].stage = "done"]
  /\ UNCHANGED <<order, busyAction, confirming, moved, suspect>>

\* CONFLICT_STATE
Refuse(c) ==
  /\ calls[c].stage = "sent" /\ status # PENDING_PAY
  /\ calls' = [calls EXCEPT ![c].stage = "refused"]
  /\ moved' = FALSE
  /\ UNCHANGED <<status, order, busyAction, confirming, suspect>>

\* OrdersService.getById
Read(c) ==
  /\ calls[c].stage = "done"
  /\ calls' = [calls EXCEPT ![c].stage = "read", ![c].answer = status]
  /\ moved' = FALSE
  /\ UNCHANGED <<status, order, busyAction, confirming, suspect>>

\* The jobs and other devices; a request the phone gave up on may be one of the latter.
Elsewhere ==
  /\ \E next \in 0..4 : <<status, next>> \in Follows /\ status' = next
  /\ moved' = TRUE
  /\ UNCHANGED <<order, busyAction, confirming, calls, suspect>>

\* The page of another order; its first load begins at once.
OpenAnother ==
  /\ Under = {} /\ status \in {COMPLETED, CANCELLED}
  /\ status' = PENDING_PAY /\ order' = None /\ moved' = FALSE
  /\ confirming' = FALSE /\ suspect' = TRUE
  /\ UNCHANGED <<busyAction, calls>>

------------------------------------------------------------------------------
(* The answers.                                                            *)

\* The finally block of an action also closes the dialog.
Over(c) ==
  /\ busyAction' = IF calls[c].op \in Actions THEN None ELSE busyAction
  /\ confirming' = (confirming /\ calls[c].op \notin Actions)

Receive(c) ==
  /\ calls[c].stage = "read"
  /\ order' = calls[c].answer
  /\ calls' = [calls EXCEPT ![c] = Free]
  /\ Over(c)
  /\ UNCHANGED <<status, moved, suspect>>

\* Mutant of Conflict: the order is not read again.
ConflictShown(c) ==
  /\ calls[c].stage = "refused"
  /\ calls' = [calls EXCEPT ![c] = Free]
  /\ suspect' = (Under # {c})
  /\ Over(c)
  /\ UNCHANGED <<status, order, moved>>

\* Refused because the order has moved on: a toast, and it is read again.
Conflict(c) ==
  /\ calls[c].stage = "refused"
  /\ calls' = [calls EXCEPT ![c] = [Free EXCEPT !.op = "load", !.stage = "done"]]
  /\ suspect' = (Under # {c})
  /\ Over(c)
  /\ UNCHANGED <<status, order, moved>>

\* Mutant of Fail: only an answer sets the buttons free.
FailBusy(c) ==
  /\ calls[c] # Free
  /\ calls' = [calls EXCEPT ![c] = Free]
  /\ suspect' = TRUE
  /\ UNCHANGED <<status, order, busyAction, confirming, moved>>

\* No network, a timeout, or another refusal.  What is shown stays.
Fail(c) ==
  /\ calls[c] # Free
  /\ calls' = [calls EXCEPT ![c] = Free]
  /\ suspect' = TRUE
  /\ Over(c)
  /\ UNCHANGED <<status, order, moved>>

Init ==
  /\ status \in 0..4 /\ order = None /\ moved = FALSE
  /\ busyAction = None /\ confirming = FALSE
  /\ calls = [c \in Calls |-> Free]
  /\ suspect = TRUE

Next ==
  \/ \E c \in Calls :
        \/ Load(c) \/ (\E op \in Actions : RunAction(c, op))
        \/ Transact(c) \/ Refuse(c) \/ Read(c)
        \/ Receive(c) \/ Conflict(c) \/ Fail(c)
  \/ AskToCancel \/ CloseDialog
  \/ Elsewhere \/ OpenAnother

Spec == Init /\ [][Next]_vars

------------------------------------------------------------------------------
(* Properties.                                                             *)

TypeOK ==
  /\ status \in 0..4 /\ order \in 0..4 \cup {None} /\ moved \in BOOLEAN
  /\ busyAction \in Actions \cup {None} /\ confirming \in BOOLEAN
  /\ \A c \in Calls : calls[c].op \in Actions \cup {"load", None}

\* The buttons are off exactly while one payment or cancellation is under way.
BusyEnds ==
  LET acting == {c \in Calls : calls[c].op \in Actions}
  IN  /\ Cardinality(acting) <= 1
      /\ busyAction # None <=> acting # {}

\* When requests did not overlap and no answer was lost, the page shows where the order is,
\* also after an action that was refused because the order had moved on; or, if the jobs or
\* another device have moved it since the server last spoke of it, where it has come from.
ScreenAgrees ==
  Under = {} /\ ~suspect => order = status \/ (moved /\ <<order, status>> \in Ahead)
==============================================================================
