---------------------------- MODULE AddressScreens ----------------------------
(***************************************************************************)
(* The address list and the address form (AddressListScreen,               *)
(* AddressEditScreen) of the only device of a user.                        *)
(*                                                                         *)
(* Every change is a PUT, POST or DELETE and then a read of the list.  "Set *)
(* as default" has no request of its own: it sends the whole address as    *)
(* the list shows it.  The form reads the list for itself, and what it     *)
(* reads after it is left is dropped.                                      *)
(***************************************************************************)
EXTENDS Integers, FiniteSets

CONSTANTS
  Ids, Texts,   \* addresses, and contents of their fields
  Calls,        \* requests that can be under way at the same time
  None

New == 0        \* the form of an address that has no row yet

VARIABLES
  book,         \* the text of each address in the database; None without a row
  list,         \* what the list shows; None before the first answer
  busyId,       \* the address whose buttons are off
  editing,      \* the form and whether it has been read (what is typed is in the save);
                \* None on the list
  saving,       \* the request the form waits for; None unless isSaving
  calls,        \* requests under way
  meant,        \* the text of the last save that was made and answered, or that nobody knows
  suspect,      \* requests overlapped, or an answer was lost
  careless      \* the user has changed something on a screen that was suspect

vars == <<book, list, busyId, editing, saving, calls, meant, suspect, careless>>

Of(b) == {i \in Ids : b[i] # None}
Free == [op |-> None, stage |-> "free", id |-> None, text |-> None, isDefault |-> FALSE,
         made |-> FALSE, answer |-> None]
Under == {c \in Calls : calls[c] # Free}
OnList == editing = None
Rows == IF list = None THEN {} ELSE Of(list)
Reading == {c \in Under : calls[c].op = "form"}

------------------------------------------------------------------------------
(* Requests.                                                               *)

Loading == [Free EXCEPT !.op = "load", !.stage = "list"]

Sent(op, id, text, isDefault) ==
  [Free EXCEPT !.op = op, !.stage = "sent", !.id = id, !.text = text, !.isDefault = isDefault]

\* The list gets the focus, the user object is a new one, or a failed read is retried.
Load(c) ==
  /\ OnList /\ calls[c] = Free
  /\ calls' = [calls EXCEPT ![c] = Loading]
  /\ suspect' = (Under # {})
  /\ UNCHANGED <<book, list, busyId, editing, saving, meant, careless>>

\* Whoever changes something on a screen that is suspect can lose any text.
Change ==
  /\ suspect' = (suspect \/ Under # {})
  /\ careless' = (careless \/ suspect')
  /\ meant' = IF careless' THEN [id \in Ids |-> "unknown"] ELSE meant

\* A tap on a row whose buttons are on.
OnRow(c, id, request) ==
  /\ OnList /\ id # busyId /\ calls[c] = Free
  /\ busyId' = id
  /\ calls' = [calls EXCEPT ![c] = request]
  /\ Change
  /\ UNCHANGED <<book, list, editing, saving>>

\* toInput: every field as it is shown.  Which address is the default is left to Addresses,
\* but for what a save without the box means below.
MakeDefault(c) ==
  \E id \in Rows : OnRow(c, id, Sent("default", id, list[id], TRUE))

\* After a dialog, which keeps nothing but the row.
ConfirmDelete(c) ==
  \E id \in Rows : OnRow(c, id, Sent("delete", id, None, FALSE))

\* 编辑 or a tap on the address, and 新增地址.
Edit(c) ==
  /\ OnList /\ calls[c] = Free
  /\ \E id \in Rows :
        /\ editing' = [id |-> id, form |-> "reading"]
        /\ calls' = [calls EXCEPT ![c] = [Free EXCEPT !.op = "form", !.stage = "list", !.id = id]]
  /\ saving' = None
  /\ UNCHANGED <<book, list, busyId, meant, suspect, careless>>

Add ==
  /\ OnList /\ list # None
  /\ editing' = [id |-> New, form |-> "ready"] /\ saving' = None
  /\ UNCHANGED <<book, list, busyId, calls, meant, suspect, careless>>

\* The user object is a new one: the form is read again, over what has been typed.  An
\* address that was not found stays so: nothing resets notFound.
EditAgain(c) ==
  /\ ~OnList /\ editing.id # New /\ calls[c] = Free
  /\ editing' = [editing EXCEPT !.form = IF @ = "missing" THEN @ ELSE "reading"]
  /\ calls' = [d \in Calls |->
       IF d = c THEN [Free EXCEPT !.op = "form", !.stage = "list", !.id = editing.id]
       ELSE IF d \in Reading THEN Free ELSE calls[d]]
  /\ UNCHANGED <<book, list, busyId, saving, meant, suspect, careless>>

\* The user types and taps 保存; the button is off while a save is under way.
Save(c) ==
  /\ ~OnList /\ editing.form = "ready" /\ saving = None /\ calls[c] = Free
  /\ saving' = c
  /\ \E text \in Texts, isDefault \in BOOLEAN :
        calls' = [calls EXCEPT ![c] = Sent("save", editing.id, text, isDefault)]
  /\ Change
  /\ UNCHANGED <<book, list, busyId, editing>>

------------------------------------------------------------------------------
(* AddressesService; see Addresses for what becomes of the default.         *)

\* A save of the only address, which is the default, without the box for that: it is answered
\* like any other, and nothing is saved.
Drops(c) == calls[c].op = "save" /\ ~calls[c].isDefault /\ Of(book) = {calls[c].id}

Do(c) ==
  /\ calls[c].stage \in {"sent", "forsaken"}
  /\ \E id \in IF calls[c].id = New THEN Ids \ Of(book) ELSE {calls[c].id} \cap Of(book) :
        /\ book' = IF Drops(c) THEN book ELSE [book EXCEPT ![id] = calls[c].text]
        /\ calls' = [calls EXCEPT ![c] =
             IF @.stage = "forsaken" THEN Free
             ELSE [@ EXCEPT !.stage = "done", !.id = id, !.made = ~Drops(c)]]
  /\ UNCHANGED <<list, busyId, editing, saving, meant, suspect, careless>>

\* AddressesService.list
List(c) ==
  /\ calls[c].stage = "list"
  /\ calls' = [calls EXCEPT ![c].stage = "read",
        ![c].answer = IF calls[c].op = "form" THEN book[calls[c].id] # None
                      ELSE book]
  /\ UNCHANGED <<book, list, busyId, editing, saving, meant, suspect, careless>>

------------------------------------------------------------------------------
(* Answers.                                                                *)

\* The finally blocks: one slot, whosever it is.
Over(c) ==
  /\ busyId' = IF calls[c].op \in {"default", "delete"} THEN None ELSE busyId
  /\ saving' = IF saving = c THEN None ELSE saving

\* makeDefault and confirmDelete read the list before they end.
Reload(c) ==
  /\ calls[c].stage = "done" /\ calls[c].op # "save"
  /\ calls' = [calls EXCEPT ![c].stage = "list"]
  /\ UNCHANGED <<book, list, busyId, editing, saving, meant, suspect, careless>>

Shown(c) ==
  /\ calls[c].stage = "read" /\ calls[c].op # "form"
  /\ list' = calls[c].answer
  /\ calls' = [calls EXCEPT ![c] = Free]
  /\ Over(c)
  /\ UNCHANGED <<book, editing, meant, suspect, careless>>

FormShown(c) ==
  /\ calls[c].stage = "read" /\ calls[c].op = "form"
  /\ editing' = [editing EXCEPT !.form =
                    IF calls[c].answer /\ @ # "missing" THEN "ready" ELSE "missing"]
  /\ calls' = [calls EXCEPT ![c] = Free]
  /\ UNCHANGED <<book, list, busyId, saving, meant, suspect, careless>>

\* Mutant of Focused: the list is read once and not at every focus.
FocusedOnce(c) ==
  /\ editing' = None
  /\ calls' = [d \in Calls |-> IF d \in Reading \cup {c} THEN Free ELSE calls[d]]
  /\ suspect' = suspect

\* The form is gone: what it was reading is dropped, and the list reads itself again.
Focused(c) ==
  /\ editing' = None
  /\ calls' = [d \in Calls |->
       IF d = c THEN Loading ELSE IF d \in Reading THEN Free ELSE calls[d]]
  /\ suspect' = (Under \ (Reading \cup {c}) # {})

\* The form says that the address is saved, also when it was not made; goBack, unless the user
\* has left the form already.
Saved(c) ==
  /\ calls[c].stage = "done" /\ calls[c].op = "save"
  /\ meant' = IF careless \/ ~calls[c].made THEN meant
              ELSE [meant EXCEPT ![calls[c].id] = calls[c].text]
  /\ IF saving = c THEN Focused(c)
     ELSE calls' = [calls EXCEPT ![c] = Free] /\ UNCHANGED <<editing, suspect>>
  /\ Over(c)
  /\ UNCHANGED <<book, list, careless>>

Leave(c) ==
  /\ ~OnList /\ (calls[c] = Free \/ c \in Reading)
  /\ Focused(c)
  /\ saving' = None
  /\ UNCHANGED <<book, list, busyId, meant, careless>>

\* Mutant of Ended: an address that could not be changed keeps its buttons off.
EndedBusy(c) ==
  /\ saving' = IF saving = c THEN None ELSE saving
  /\ busyId' = busyId
  /\ editing' = IF calls[c].op = "form" THEN [editing EXCEPT !.form = "missing"] ELSE editing

\* The catch and finally blocks; the form says that the address is gone.
Ended(c) ==
  /\ Over(c)
  /\ editing' = IF calls[c].op = "form" THEN [editing EXCEPT !.form = "missing"] ELSE editing

\* A request is refused, or cannot be sent or answered; a change may still be made, later.
Fail(c) ==
  /\ calls[c].stage \notin {"free", "forsaken"}
  /\ calls' = [calls EXCEPT ![c] = IF @.stage = "sent" THEN [@ EXCEPT !.stage = "forsaken"] ELSE Free]
  /\ Ended(c)
  /\ suspect' = TRUE
  /\ meant' = [id \in Ids |-> IF calls[c].op = "save" /\ calls[c].id \in {id, New}
                              THEN "unknown" ELSE meant[id]]
  /\ UNCHANGED <<book, list, careless>>

\* It is not made: it is refused, or does not arrive.
Vanish(c) ==
  /\ calls[c].stage = "forsaken"
  /\ calls' = [calls EXCEPT ![c] = Free]
  /\ UNCHANGED <<book, list, busyId, editing, saving, meant, suspect, careless>>

Init ==
  /\ book \in [Ids -> Texts \cup {None}]
  /\ list = None /\ busyId = None /\ editing = None /\ saving = None
  /\ calls = [c \in Calls |-> Free]
  /\ meant = book
  /\ suspect = TRUE /\ careless = FALSE

Next ==
  \/ \E c \in Calls :
        \/ Load(c) \/ MakeDefault(c) \/ ConfirmDelete(c)
        \/ Edit(c) \/ EditAgain(c) \/ Save(c)
        \/ Do(c) \/ List(c)
        \/ Reload(c) \/ Shown(c) \/ FormShown(c) \/ Saved(c) \/ Leave(c) \/ Fail(c) \/ Vanish(c)
  \/ Add

Spec == Init /\ [][Next]_vars

------------------------------------------------------------------------------
(* Properties.                                                             *)

Fields == Texts \cup {None}

TypeOK ==
  /\ book \in [Ids -> Fields] /\ meant \in [Ids -> Fields \cup {"unknown"}]
  /\ list \in [Ids -> Fields] \cup {None}
  /\ busyId \in Ids \cup {None} /\ saving \in Calls \cup {None}
  /\ \A c \in Calls : calls[c].id \in Ids \cup {New, None}

\* The buttons of an address, and those of the form, are off only as long as a request
\* for them is under way, although there is one slot for all addresses.
BusyEnds ==
  /\ busyId # None => \E c \in Under : calls[c].op \in {"default", "delete"} /\ calls[c].id = busyId
  /\ saving # None => calls[saving].op = "save"

\* When requests did not overlap and no answer was lost, the list is the one in the
\* database, whichever screen changed it.
ScreenAgrees == Under = {} /\ OnList /\ ~suspect => list = book

\* What has been saved, and the user was told so, stays saved, as long as changes are made one
\* at a time on screens that have been read since the last: a new default does not bring an
\* old text back.  (A save of the only address without the box tells the user so and saves
\* nothing: see EditsSaved of Addresses.  It leaves the text saved before it.)
EditsKept ==
  \A id \in Of(book) :
     \/ meant[id] \in {book[id], "unknown"}
     \/ \E c \in Under : calls[c].op = "save"
==============================================================================
