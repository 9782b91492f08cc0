---------------------------- MODULE SearchHistory ----------------------------
(***************************************************************************)
(* The search history of the phone: what AsyncStorage keeps of it, what    *)
(* the search screen shows, and the logout that clears it.                 *)
(*                                                                         *)
(* AsyncStorage serves its calls in the order they are made, and answers   *)
(* in that order.  But adding a word takes two of them, a read and then a  *)
(* write, with others in between; the logout deletes the tokens, in        *)
(* another store, before it asks for the list to be deleted; and the app   *)
(* can be killed at any point.                                             *)
(***************************************************************************)
EXTENDS Integers, Sequences, FiniteSets, SequencesExt, Sorting

CONSTANTS
  Words,
  SEARCH_HISTORY_LIMIT,
  MaxQueue      \* bound: calls of the stores that can be under way

VARIABLES
  kept,         \* search_history in AsyncStorage
  tokens,       \* there is a session in SecureStore
  user,         \* somebody is signed in
  focused,      \* the search screen has the focus
  history,      \* what it shows when somebody is signed in
  queue,        \* calls of AsyncStorage under way
  leaving,      \* logouts that wait for SecureStore
  ideal,        \* the words of the session, as if each search took no time
  raced         \* a change of the list met another, or was cut off by a kill

vars == <<kept, tokens, user, focused, history, queue, leaving, ideal, raced>>

Room == Len(queue) + leaving < MaxQueue

\* Changes of the list that are under way.
Changes == {i \in DOMAIN queue : queue[i].op # "show"}
Changing == Cardinality(Changes) + leaving

\* A change that begins while another is under way is a race, and so is a login that does.
Race == raced' = (raced \/ Changing > 0)

Call(op, list) == [op |-> op, list |-> list]
Rest == At(queue, Changes)

------------------------------------------------------------------------------
(* The list: the last words first, each once.                              *)

First(list, n) == SubSeq(list, 1, IF Len(list) < n THEN Len(list) ELSE n)
Without(list, w) == At(list, {i \in DOMAIN list : list[i] # w})

\* Mutant of WithWord: the word is put in front even when the list has it.
WithWordTwice(list, w) == First(<<w>> \o list, SEARCH_HISTORY_LIMIT)

\* Mutant of WithWord: the list is cut before the word is taken out.
WithWordCut(list, w) ==
  First(<<w>> \o Without(First(list, SEARCH_HISTORY_LIMIT - 1), w), SEARCH_HISTORY_LIMIT)

WithWord(list, w) ==
  First(<<w>> \o Without(list, w), SEARCH_HISTORY_LIMIT)

------------------------------------------------------------------------------
(* The search screen.                                                      *)

\* The effect of the screen, which runs again when the user changes: what was being
\* read for it is dropped.
Effect(signedIn) ==
  IF signedIn THEN queue' = Append(Rest, Call("show", <<>>)) /\ UNCHANGED history
              ELSE queue' = Rest /\ history' = <<>>

Focus ==
  /\ ~focused /\ focused' = TRUE
  /\ Room /\ Effect(user)
  /\ UNCHANGED <<kept, tokens, user, leaving, ideal, raced>>

Blur ==
  /\ focused /\ focused' = FALSE
  /\ queue' = Rest
  /\ UNCHANGED <<kept, tokens, user, history, leaving, ideal, raced>>

\* submitSearch; what a guest searches is not kept.
SubmitSearch ==
  /\ focused /\ user /\ Room
  /\ Race
  /\ \E w \in Words :
        /\ queue' = Append(queue, Call("get", <<w>>))
        /\ ideal' = IF raced' THEN <<>> ELSE First(<<w>> \o Without(ideal, w), SEARCH_HISTORY_LIMIT)
  /\ UNCHANGED <<kept, tokens, user, focused, history, leaving>>

------------------------------------------------------------------------------
(* The session.                                                            *)

SignIn ==
  /\ ~user /\ user' = TRUE /\ tokens' = TRUE
  /\ Room
  /\ IF focused THEN Effect(TRUE) ELSE UNCHANGED <<queue, history>>
  /\ Race
  /\ UNCHANGED <<kept, focused, leaving, ideal>>

\* logoutLocal, by the user or because the session has expired.
LogoutLocal ==
  /\ user /\ user' = FALSE
  /\ Room /\ leaving' = leaving + 1
  /\ IF focused THEN Effect(FALSE) ELSE UNCHANGED <<queue, history>>
  /\ Race
  /\ ideal' = <<>>
  /\ UNCHANGED <<kept, tokens, focused>>

\* Mutant of ClearTokens: nothing asks for the list to be deleted.
ClearTokensOnly ==
  /\ leaving > 0 /\ leaving' = leaving - 1
  /\ tokens' = FALSE
  /\ UNCHANGED <<kept, user, focused, history, queue, ideal, raced>>

\* clearTokens, and then clearSearchHistory is called.
ClearTokens ==
  /\ leaving > 0 /\ leaving' = leaving - 1
  /\ tokens' = FALSE
  /\ queue' = Append(queue, Call("clear", <<>>))
  /\ UNCHANGED <<kept, user, focused, history, ideal, raced>>

\* The app is killed; the next start restores the session if there are tokens.
Kill ==
  /\ history' = <<>> /\ focused' = FALSE
  /\ queue' = <<>> /\ leaving' = 0
  /\ user' = tokens
  /\ Race
  /\ ideal' = IF raced' THEN <<>> ELSE ideal
  /\ UNCHANGED <<kept, tokens>>

------------------------------------------------------------------------------
(* AsyncStorage: the first call takes effect and its answer is dealt with. *)

\* readSearchHistory for the screen.
Show ==
  /\ queue # <<>> /\ Head(queue).op = "show"
  /\ history' = kept
  /\ queue' = Tail(queue)
  /\ UNCHANGED <<kept, tokens, user, focused, leaving, ideal, raced>>

\* addSearchHistory has read the list and asks for the new one to be written.
ReadSearchHistory ==
  /\ queue # <<>> /\ Head(queue).op = "get"
  /\ queue' = Append(Tail(queue), Call("set", WithWord(kept, Head(queue).list[1])))
  /\ UNCHANGED <<kept, tokens, user, focused, history, leaving, ideal, raced>>

\* It is written and shown, whether the screen still has the focus or not.
AddSearchHistory ==
  /\ queue # <<>> /\ Head(queue).op = "set"
  /\ kept' = Head(queue).list /\ history' = Head(queue).list
  /\ queue' = Tail(queue)
  /\ UNCHANGED <<tokens, user, focused, leaving, ideal, raced>>

\* A logout that nothing else disturbs sets everything right again.
ClearSearchHistory ==
  /\ queue # <<>> /\ Head(queue).op = "clear"
  /\ kept' = <<>>
  /\ queue' = Tail(queue)
  /\ raced' = (raced /\ (user \/ Changing > 1))
  /\ UNCHANGED <<tokens, user, focused, history, leaving, ideal>>

Init ==
  /\ kept = <<>> /\ ideal = <<>> /\ history = <<>> /\ queue = <<>> /\ leaving = 0
  /\ tokens = FALSE /\ user = FALSE /\ focused = FALSE /\ raced = FALSE

Next ==
  \/ Focus \/ Blur \/ SubmitSearch
  \/ SignIn \/ LogoutLocal \/ ClearTokens \/ Kill
  \/ Show \/ ReadSearchHistory \/ AddSearchHistory \/ ClearSearchHistory

Spec == Init /\ [][Next]_vars

------------------------------------------------------------------------------
(* Properties.                                                             *)

\* However many changes overlap, what is stored is short enough and has no word twice.
TypeOK ==
  /\ \A list \in {kept, history} :
        Len(list) <= SEARCH_HISTORY_LIMIT /\ Range(list) \subseteq Words /\ IsInjective(list)
  /\ tokens \in BOOLEAN /\ user \in BOOLEAN /\ focused \in BOOLEAN /\ raced \in BOOLEAN
  /\ leaving \in 0..MaxQueue

\* When no change of the list met another and no kill cut one off, the phone keeps the
\* last words of this session and none from before its login, and shows just them; and one
\* undisturbed logout mends what was disturbed before.
HistoryOfSession ==
  ~raced /\ Changing = 0 =>
     /\ kept = ideal
     /\ focused /\ user /\ queue = <<>> => history = kept
==============================================================================
