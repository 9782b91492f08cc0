--------------------------- MODULE AuthClient_proofs ---------------------------
(***************************************************************************)
(* Proofs about the session on the phone, for any number of tokens and     *)
(* concurrent calls and any number of kills: the state keeps its shape, so *)
(* nobody waits for a refresh that is not under way, and the app does not  *)
(* set off the server's reuse detection by itself.                         *)
(***************************************************************************)
EXTENDS AuthClient, TLAPS

RefreshRecord ==
  [stage : {"idle", "read", "posted", "save", "set", "wipe"},
   token : Tokens \cup {None}, answer : Tokens \cup {None, Refused}]
FlowRecord ==
  [flow : {"none", "hydrate", "login", "logout"},
   stage : {"idle", "read", "waiting", "post", "save", "set", "wipe"},
   token : Tokens \cup {None}]
CallRecord ==
  [stage : {"idle", "sent", "waiting", "wipe"}, access : Access, replayed : BOOLEAN]

\* What each stage of a flow has at hand.
Flows ==
  /\ refresh.stage \in {"idle", "read"} => refresh.answer = None
  /\ refresh.stage = "posted" => refresh.token \in Tokens
  /\ refresh.stage \in {"save", "set"} => refresh.answer \in Tokens
  /\ ui.stage \in {"read", "waiting"} => ui.flow \in {"hydrate", "logout"}
  /\ ui.stage = "save" => ui.token \in Tokens

\* While nothing was lost, the stored token is good, but for the moment between
\* the server's exchange and the saving of its answer, and then the only holder
\* of the old one is the refresh that brings the new one.
Unspent ==
  ~mishap =>
    /\ orphans = {}
    /\ store \in rotated
         => refresh.stage \in {"posted", "save"} /\ refresh.answer \in Tokens
    /\ refresh.stage = "posted" /\ refresh.answer = None => refresh.token \notin rotated
    /\ refresh.stage \in {"posted", "save"} => refresh.answer \notin rotated
    /\ ui.stage = "save"
         => ui.token \notin rotated \cup {store, refresh.token, refresh.answer}

Inductive == TypeOK /\ Flows /\ Unspent

------------------------------------------------------------------------------
(* Lemmas about the operators the flows share.                             *)

\* Whoever joins finds a refresh under way, the one that was if there was one.
LEMMA Joining ==
  ASSUME TypeOK, Flows, refresh' = Joined
  PROVE  /\ refresh' \in RefreshRecord
         /\ refresh'.stage # "idle"
         /\ \/ refresh' = refresh
            \/ /\ refresh.stage = "idle"
               /\ refresh'.stage = "read"
               /\ refresh'.token = refresh.token
               /\ refresh'.answer = refresh.answer
  BY DEF TypeOK, Flows, Joined, RefreshRecord

\* When the promise settles, nothing waits for it any more.
LEMMA CallsSettled ==
  ASSUME TypeOK, NEW ok \in BOOLEAN, NEW access \in Access, SettleCalls(ok, access)
  PROVE  /\ calls' \in [Calls -> CallRecord]
         /\ \A c \in Calls : calls'[c].stage # "waiting"
  <1>1. \A c \in Calls : calls[c] \in CallRecord
    BY DEF TypeOK, CallRecord
  <1>2. NoCall \in CallRecord /\ NoCall.stage = "idle"
    BY DEF NoCall, CallRecord, Access
  <1>3. ASSUME NEW c \in Calls
        PROVE  Resent(calls[c], access) \in CallRecord /\ Resent(calls[c], access).stage = "sent"
    BY <1>1, <1>3 DEF Resent, CallRecord, Access
  <1> QED
    BY <1>1, <1>2, <1>3 DEF SettleCalls

\* The flow of the screen that waited goes on to another stage.
LEMMA UiSettled ==
  ASSUME TypeOK, Flows, NEW ok \in BOOLEAN, SettleUi(ok)
  PROVE  /\ ui' \in FlowRecord
         /\ hydrating' \in BOOLEAN
         /\ \/ ui.stage # "waiting" /\ ui' = ui
            \/ ui'.stage \in {"idle", "post", "wipe"}
  <1>0. ui \in FlowRecord /\ hydrating \in BOOLEAN
    BY DEF TypeOK, FlowRecord
  <1>1. CASE ui.stage # "waiting"
    BY <1>0, <1>1 DEF SettleUi
  <1>2. CASE ui.stage = "waiting" /\ ok /\ ui.flow = "hydrate"
    <2>1. ui' = NoFlow /\ hydrating' = FALSE
      BY <1>2 DEF SettleUi
    <2> QED
      BY <2>1 DEF NoFlow, FlowRecord
  <1>3. CASE ui.stage = "waiting" /\ ok /\ ui.flow = "logout"
    <2>1. ui' = [ui EXCEPT !.stage = "post"] /\ hydrating' = hydrating
      BY <1>3 DEF SettleUi
    <2> QED
      BY <1>0, <2>1 DEF FlowRecord
  <1>4. CASE ui.stage = "waiting" /\ ~ok
    <2>1. ui' = [ui EXCEPT !.stage = "wipe"] /\ hydrating' = hydrating
      BY <1>4 DEF SettleUi
    <2> QED
      BY <1>0, <2>1 DEF FlowRecord
  <1> QED
    BY <1>1, <1>2, <1>3, <1>4 DEF Flows

------------------------------------------------------------------------------
(* The refresh.                                                            *)

LEMMA ReadTokenKeeps == Inductive /\ ReadToken => Inductive'
<1> SUFFICES ASSUME Inductive, ReadToken PROVE Inductive'
  OBVIOUS
<1> USE NoneIsNoToken DEF Inductive, ReadToken, server, history
<1>0. UNCHANGED <<store, hydrating, ui, calls, live, rotated, orphans, banned, kills,
                  mishap, loggedOut>>
  OBVIOUS
<1>1. TypeOK'
  <2>1. memory' \in Access
    BY DEF TypeOK, Access
  <2>2. refresh' \in RefreshRecord /\ refresh'.stage # "idle"
    <3>1. refresh \in RefreshRecord /\ store \in Tokens \cup {None}
      BY DEF TypeOK, RefreshRecord
    <3>2. CASE store = None
      BY <3>1, <3>2 DEF RefreshRecord
    <3>3. CASE store # None
      BY <3>1, <3>3 DEF RefreshRecord
    <3> QED
      BY <3>2, <3>3
  <2> QED
    BY <1>0, <2>1, <2>2 DEF TypeOK, RefreshRecord
<1>2. Flows'
  BY DEF TypeOK, Flows
<1>3. Unspent'
  <2>1. refresh.stage = "read" /\ refresh.answer = None
    BY DEF Flows
  <2>2. refresh \in RefreshRecord
    BY DEF TypeOK, RefreshRecord
  <2>3. CASE store = None
    BY <2>1, <2>2, <2>3 DEF RefreshRecord, Unspent
  <2>4. CASE store # None
    <3>1. refresh' = [refresh EXCEPT !.stage = "posted", !.token = store]
      BY <2>4
    <3>2. refresh'.stage = "posted" /\ refresh'.token = store /\ refresh'.answer = None
      BY <2>1, <2>2, <3>1 DEF RefreshRecord
    <3>3. None \notin rotated
      BY DEF TypeOK
    <3> QED
      BY <1>0, <2>1, <3>2, <3>3 DEF Unspent
  <2> QED
    BY <2>3, <2>4
<1> QED
  BY <1>1, <1>2, <1>3

LEMMA ReceiveKeeps == Inductive /\ Receive => Inductive'
<1> SUFFICES ASSUME Inductive, Receive PROVE Inductive'
  OBVIOUS
<1> USE NoneIsNoToken, RefusedIsNoToken DEF Inductive, Receive, server, history, Refused
<1>1. TypeOK'
  BY DEF TypeOK, Access
<1>2. Flows'
  BY DEF TypeOK, Flows
<1>3. Unspent'
  BY DEF TypeOK, Flows, Unspent
<1> QED
  BY <1>1, <1>2, <1>3

LEMMA SaveTokenKeeps == Inductive /\ SaveToken => Inductive'
<1> SUFFICES ASSUME Inductive, SaveToken PROVE Inductive'
  OBVIOUS
<1> USE NoneIsNoToken DEF Inductive, SaveToken, server, history
<1>1. TypeOK'
  BY DEF TypeOK, Flows
<1>2. Flows'
  BY DEF TypeOK, Flows
<1>3. Unspent'
  BY DEF TypeOK, Flows, Unspent
<1> QED
  BY <1>1, <1>2, <1>3

\* What the three ends of a refresh have in common: it is forgotten, and nobody
\* waits for it any more.
Ended ==
  /\ refresh' = NoRefresh
  /\ ui' \in FlowRecord /\ ui'.stage # "waiting"
  /\ ui' = ui \/ ui'.stage \in {"idle", "post", "wipe"}
  /\ hydrating' \in BOOLEAN
  /\ calls' \in [Calls -> CallRecord]
  /\ \A c \in Calls : calls'[c].stage # "waiting"

LEMMA SucceedEnds == TypeOK /\ Flows /\ Succeed => Ended
<1> SUFFICES ASSUME TypeOK, Flows, Succeed PROVE Ended
  OBVIOUS
<1>1. SettleCalls(TRUE, "valid") /\ SettleUi(TRUE) /\ refresh' = NoRefresh
  BY DEF Succeed
<1>2. /\ calls' \in [Calls -> CallRecord]
      /\ \A c \in Calls : calls'[c].stage # "waiting"
  BY <1>1, CallsSettled DEF Access
<1> QED
  BY <1>1, <1>2, UiSettled DEF Ended

LEMMA FailEnds == TypeOK /\ Flows /\ Fail => Ended /\ memory' \in Access
<1> SUFFICES ASSUME TypeOK, Flows, Fail PROVE Ended /\ memory' \in Access
  OBVIOUS
<1>1. SettleCalls(FALSE, memory) /\ SettleUi(FALSE) /\ refresh' = NoRefresh
  BY DEF Fail
<1>2. memory \in Access /\ memory' \in Access
  BY DEF Fail, TypeOK, Access
<1>3. /\ calls' \in [Calls -> CallRecord]
      /\ \A c \in Calls : calls'[c].stage # "waiting"
  BY <1>1, <1>2, CallsSettled
<1> QED
  BY <1>1, <1>2, <1>3, UiSettled DEF Ended

\* After the end nobody holds the old token: the store does not, or the answer
\* was lost.
LEMMA EndKeeps ==
  ASSUME Inductive, Ended,
         memory' \in Access, store' \in Tokens \cup {None}, orphans' \subseteq Tokens,
         mishap' \in BOOLEAN, mishap => mishap',
         UNCHANGED <<live, rotated, banned, kills, loggedOut>>,
         ~mishap' => /\ orphans' = orphans
                     /\ store' = None \/ (store' = store /\ refresh.stage = "set")
  PROVE  Inductive'
<1> USE DEF Inductive
<1>1. TypeOK'
  BY DEF TypeOK, Ended, NoRefresh, FlowRecord, CallRecord
<1>2. Flows'
  <2>1. refresh'.stage = "idle" /\ refresh'.answer = None
    BY DEF Ended, NoRefresh
  <2>2. ui'.stage = "save" => ui'.token \in Tokens
    BY DEF Ended, Flows
  <2>3. ui'.stage \in {"read", "waiting"} => ui'.flow \in {"hydrate", "logout"}
    BY DEF Ended, Flows
  <2> QED
    BY <2>1, <2>2, <2>3 DEF Flows
<1>3. ASSUME ~mishap' PROVE Unspent'
  <2>1. ~mishap /\ orphans' = {}
    BY <1>3 DEF Unspent
  <2>2. store' \notin rotated'
    BY <1>3, <2>1, NoneIsNoToken DEF Unspent, TypeOK
  <2>3. refresh' = NoRefresh
    BY DEF Ended
  <2>4. ASSUME ui'.stage = "save"
        PROVE  ui'.token \notin rotated' \cup {store', refresh'.token, refresh'.answer}
    <3>1. ui' = ui /\ ui.token \in Tokens
      BY <2>4 DEF Ended, Flows
    <3> QED
      BY <1>3, <2>1, <2>3, <2>4, <3>1, NoneIsNoToken DEF Unspent, NoRefresh
  <2> QED
    BY <2>1, <2>2, <2>3, <2>4 DEF Unspent, NoRefresh
<1>4. mishap' => Unspent'
  BY DEF Unspent
<1> QED
  BY <1>1, <1>2, <1>3, <1>4

LEMMA SetSessionKeeps == Inductive /\ SetSession => Inductive'
<1> SUFFICES ASSUME Inductive, SetSession PROVE Inductive'
  OBVIOUS
<1>1. Ended
  BY SucceedEnds DEF Inductive, SetSession
<1>2. memory' \in Access
  BY DEF SetSession, Succeed, Access
<1>3. UNCHANGED <<store, live, rotated, banned, kills, loggedOut, orphans, mishap>>
  BY DEF SetSession, server, history
<1> QED
  BY <1>1, <1>2, <1>3, EndKeeps DEF Inductive, TypeOK, SetSession

LEMMA WipeStoreKeeps == Inductive /\ WipeStore => Inductive'
<1> SUFFICES ASSUME Inductive, WipeStore PROVE Inductive'
  OBVIOUS
<1>1. Ended /\ memory' \in Access
  BY FailEnds DEF Inductive, WipeStore
<1>2. store' = None /\ UNCHANGED <<live, rotated, banned, kills, loggedOut, orphans, mishap>>
  BY DEF WipeStore, server, history
<1> QED
  BY <1>1, <1>2, EndKeeps DEF Inductive, TypeOK

LEMMA TimeOutKeeps == Inductive /\ TimeOut => Inductive'
<1> SUFFICES ASSUME Inductive, TimeOut PROVE Inductive'
  OBVIOUS
<1>1. Ended /\ memory' \in Access
  BY FailEnds DEF Inductive, TimeOut
<1>2. mishap' = TRUE /\ UNCHANGED <<store, live, rotated, banned, kills, loggedOut>>
  BY DEF TimeOut
<1>3. orphans' \subseteq Tokens
  BY DEF TimeOut, Inductive, TypeOK, Flows
<1> QED
  BY <1>1, <1>2, <1>3, EndKeeps DEF Inductive, TypeOK

------------------------------------------------------------------------------
(* The server.                                                             *)

\* What an exchange does: it answers with a refusal and changes no token's past,
\* or exchanges t for one that nobody holds.
LEMMA Exchanging ==
  ASSUME TypeOK, NEW t \in Tokens, NEW answer \in Tokens \cup {Refused}, Exchange(t, answer)
  PROVE  /\ live' \subseteq Tokens /\ rotated' \subseteq Tokens
         /\ \/ answer = Refused /\ rotated' = rotated
            \/ answer \in Fresh /\ answer \in Tokens /\ rotated' = rotated \cup {t}
  <1>1. CASE answer \in Fresh
    BY <1>1 DEF TypeOK, Exchange, Fresh
  <1>2. CASE answer \notin Fresh
    BY <1>2 DEF TypeOK, Exchange
  <1> QED
    BY <1>1, <1>2

LEMMA AnswerRefreshKeeps == Inductive /\ AnswerRefresh => Inductive'
<1> SUFFICES ASSUME Inductive, AnswerRefresh PROVE Inductive'
  OBVIOUS
<1> USE NoneIsNoToken, RefusedIsNoToken DEF Inductive, Refused
<1>0. /\ refresh.stage = "posted" /\ refresh.answer = None /\ refresh.token \in Tokens
      /\ refresh \in RefreshRecord
      /\ UNCHANGED <<store, memory, hydrating, ui, calls, orphans, banned, kills, mishap,
                     loggedOut>>
  BY DEF AnswerRefresh, Flows, history, TypeOK, RefreshRecord
<1>1. PICK answer \in Tokens \cup {Refused} :
           Exchange(refresh.token, answer) /\ refresh' = [refresh EXCEPT !.answer = answer]
  BY DEF AnswerRefresh
<1>2. /\ refresh' \in RefreshRecord
      /\ refresh'.stage = "posted" /\ refresh'.token = refresh.token /\ refresh'.answer = answer
  BY <1>0, <1>1 DEF RefreshRecord
<1>3. /\ live' \subseteq Tokens /\ rotated' \subseteq Tokens
      /\ \/ answer = Refused /\ rotated' = rotated
         \/ answer \in Fresh /\ answer \in Tokens /\ rotated' = rotated \cup {refresh.token}
  BY <1>0, <1>1, Exchanging
<1>4. TypeOK'
  BY <1>0, <1>2, <1>3 DEF TypeOK, RefreshRecord
<1>5. Flows'
  BY <1>0, <1>2 DEF Flows
<1>6. CASE answer = Refused
  <2>1. rotated \subseteq Tokens /\ answer \notin rotated /\ answer # None
    BY <1>6 DEF TypeOK
  <2>2. rotated' = rotated
    BY <1>3, <1>6 DEF Fresh
  <2>3. ui.stage = "save" => ui.token # answer
    BY <1>6 DEF Flows
  <2>4. Unspent'
    BY <1>0, <1>2, <2>1, <2>2, <2>3 DEF Unspent
  <2> QED
    BY <1>4, <1>5, <2>4
<1>7. CASE answer # Refused
  <2>1. /\ answer \in Tokens /\ rotated' = rotated \cup {refresh.token}
        /\ answer \notin rotated \cup {ui.token, refresh.token}
    BY <1>3, <1>7 DEF Fresh
  <2>2. Unspent'
    BY <1>0, <1>2, <2>1 DEF Unspent
  <2> QED
    BY <1>4, <1>5, <2>2
<1> QED
  BY <1>6, <1>7

\* An orphan is answered only when something was lost before.
LEMMA AnswerOrphanKeeps ==
  ASSUME Inductive, NEW t \in Tokens, AnswerOrphan(t)
  PROVE  Inductive'
<1>0. t \in orphans /\ UNCHANGED <<phone, banned, history>> /\ orphans' = orphans \ {t}
  BY DEF AnswerOrphan
<1>1. mishap /\ mishap'
  BY <1>0 DEF Inductive, Unspent, history
<1>2. PICK answer \in Tokens \cup {Refused} : Exchange(t, answer)
  BY DEF AnswerOrphan
<1>3. live' \subseteq Tokens /\ rotated' \subseteq Tokens
  BY <1>2, Exchanging DEF Inductive
<1>4. TypeOK'
  BY <1>0, <1>3 DEF Inductive, TypeOK, phone, history
<1>5. Flows'
  BY <1>0 DEF Inductive, Flows, phone
<1>6. Unspent'
  BY <1>1 DEF Unspent
<1> QED
  BY <1>4, <1>5, <1>6 DEF Inductive

LEMMA BanKeeps == Inductive /\ Ban => Inductive'
<1> SUFFICES ASSUME Inductive, Ban PROVE Inductive'
  OBVIOUS
<1> USE DEF Inductive, Ban, phone, history
<1>1. TypeOK'
  BY DEF TypeOK
<1>2. Flows'
  BY DEF Flows
<1>3. Unspent'
  BY DEF Unspent
<1> QED
  BY <1>1, <1>2, <1>3

------------------------------------------------------------------------------
(* The calls.                                                              *)

\* Steps that leave alone what Flows and Unspent speak of.
LEMMA AsideKeeps ==
  ASSUME Inductive, UNCHANGED <<store, refresh, ui, orphans, rotated, mishap>>
  PROVE  Flows' /\ Unspent'
<1>1. Flows'
  BY DEF Inductive, Flows
<1>2. Unspent'
  BY DEF Inductive, Unspent
<1> QED
  BY <1>1, <1>2

LEMMA SendKeeps ==
  ASSUME Inductive, NEW c \in Calls, Send(c)
  PROVE  Inductive'
<1>1. calls' = [calls EXCEPT ![c] = [NoCall EXCEPT !.stage = "sent", !.access = memory]]
  BY DEF Send
<1>2. [NoCall EXCEPT !.stage = "sent", !.access = memory] \in CallRecord
  BY DEF Inductive, TypeOK, NoCall, CallRecord
<1>3. [NoCall EXCEPT !.stage = "sent", !.access = memory].stage = "sent"
  BY DEF NoCall
<1>4. TypeOK'
  BY <1>1, <1>2, <1>3 DEF Inductive, TypeOK, CallRecord, Send, server, history
<1> QED
  BY <1>4, AsideKeeps DEF Inductive, Send, server, history

LEMMA DoneKeeps ==
  ASSUME Inductive, NEW c \in Calls, Done(c)
  PROVE  Inductive'
<1>1. NoCall \in CallRecord /\ NoCall.stage = "idle"
  BY DEF NoCall, CallRecord, Access
<1>2. TypeOK'
  BY <1>1 DEF Inductive, TypeOK, CallRecord, Done, server, history
<1> QED
  BY <1>2, AsideKeeps DEF Inductive, Done, server, history

LEMMA ExpiredKeeps ==
  ASSUME Inductive, NEW c \in Calls, Expired(c)
  PROVE  Inductive'
<1>0. TypeOK /\ Flows /\ Unspent /\ calls[c] \in CallRecord
      /\ UNCHANGED <<store, memory, hydrating, ui, live, rotated, orphans, banned, kills,
                     mishap, loggedOut>>
  BY DEF Inductive, TypeOK, CallRecord, Expired, server, history
<1>1. CASE calls[c].replayed
  <2>1. calls' = [calls EXCEPT ![c] = NoCall] /\ refresh' = refresh
    BY <1>1 DEF Expired
  <2>2. NoCall \in CallRecord /\ NoCall.stage = "idle"
    BY DEF NoCall, CallRecord, Access
  <2>3. TypeOK'
    BY <1>0, <2>1, <2>2 DEF TypeOK, CallRecord
  <2> QED
    BY <1>0, <2>1, <2>3, AsideKeeps DEF Inductive
<1>2. CASE ~calls[c].replayed
  <2>1. calls' = [calls EXCEPT ![c].stage = "waiting"] /\ refresh' = Joined
    BY <1>2 DEF Expired
  <2>2. /\ refresh' \in RefreshRecord
        /\ refresh'.stage # "idle"
        /\ \/ refresh' = refresh
           \/ /\ refresh.stage = "idle"
              /\ refresh'.stage = "read"
              /\ refresh'.token = refresh.token
              /\ refresh'.answer = refresh.answer
    BY <1>0, <2>1, Joining
  <2>3. calls' \in [Calls -> CallRecord]
        /\ \A d \in Calls : calls'[d].stage = "waiting" => ~calls'[d].replayed
    BY <1>0, <1>2, <2>1 DEF TypeOK, CallRecord
  <2>4. TypeOK'
    BY <1>0, <2>2, <2>3 DEF TypeOK, CallRecord, RefreshRecord
  <2>5. Flows'
    BY <1>0, <2>2 DEF Flows
  <2>6. Unspent'
    BY <1>0, <2>2 DEF Unspent
  <2> QED
    BY <2>4, <2>5, <2>6 DEF Inductive
<1> QED
  BY <1>1, <1>2 DEF TypeOK

LEMMA UnauthorizedKeeps ==
  ASSUME Inductive, NEW c \in Calls, Unauthorized(c)
  PROVE  Inductive'
<1>0. TypeOK /\ calls[c] \in CallRecord
      /\ UNCHANGED <<store, hydrating, refresh, ui, live, rotated, orphans, banned, kills,
                     mishap, loggedOut>>
  BY DEF Inductive, TypeOK, CallRecord, Unauthorized, server, history
<1>1. NoCall \in CallRecord /\ NoCall.stage = "idle"
  BY DEF NoCall, CallRecord, Access
<1>2. memory' \in Access
  BY <1>0 DEF TypeOK, Unauthorized, Access
<1>3. PICK call \in CallRecord :
           call.stage \in {"idle", "wipe"} /\ calls' = [calls EXCEPT ![c] = call]
  <2>1. CASE hydrating
    BY <1>1, <2>1 DEF Unauthorized
  <2>2. CASE ~hydrating
    <3> DEFINE call == [calls[c] EXCEPT !.stage = "wipe"]
    <3>1. call \in CallRecord /\ call.stage = "wipe"
      BY <1>0 DEF CallRecord
    <3>2. calls' = [calls EXCEPT ![c] = call]
      BY <1>0, <2>2 DEF Unauthorized, TypeOK
    <3> QED
      BY <3>1, <3>2
  <2> QED
    BY <2>1, <2>2 DEF Unauthorized
<1>4. TypeOK'
  BY <1>0, <1>2, <1>3 DEF TypeOK, CallRecord
<1> QED
  BY <1>0, <1>4, AsideKeeps DEF Inductive

\* A step that wipes the store and changes neither the refresh nor the server.
LEMMA WipedKeeps ==
  ASSUME Inductive, store' = None, UNCHANGED <<refresh, orphans, rotated, mishap>>,
         ui' = ui \/ ui'.stage = "idle"
  PROVE  Flows' /\ Unspent'
<1>1. Flows'
  BY DEF Inductive, Flows
<1>2. None \notin rotated
  BY NoneIsNoToken DEF Inductive, TypeOK
<1>3. ui'.stage = "save" => ui' = ui /\ ui.token # None
  BY NoneIsNoToken DEF Inductive, Flows
<1>4. Unspent'
  BY <1>2, <1>3 DEF Inductive, Unspent
<1> QED
  BY <1>1, <1>4

LEMMA WipeByCallKeeps ==
  ASSUME Inductive, NEW c \in Calls, WipeByCall(c)
  PROVE  Inductive'
<1>1. NoCall \in CallRecord /\ NoCall.stage = "idle"
  BY DEF NoCall, CallRecord, Access
<1>2. TypeOK'
  BY <1>1 DEF Inductive, TypeOK, CallRecord, WipeByCall, server, history
<1> QED
  BY <1>2, WipedKeeps DEF Inductive, WipeByCall, server, history

LEMMA ExpireKeeps == Inductive /\ Expire => Inductive'
<1> SUFFICES ASSUME Inductive, Expire PROVE Inductive'
  OBVIOUS
<1>1. \A c \in Calls : calls'[c] \in CallRecord /\ calls'[c].stage = calls[c].stage
                         /\ calls'[c].replayed = calls[c].replayed
  BY DEF Inductive, TypeOK, Expire, CallRecord, Access
<1>2. calls' \in [Calls -> CallRecord]
  BY <1>1 DEF Expire
<1>3. TypeOK'
  BY <1>1, <1>2 DEF Inductive, TypeOK, CallRecord, Expire, Access, server, history
<1> QED
  BY <1>3, AsideKeeps DEF Inductive, Expire, server, history

------------------------------------------------------------------------------
(* The screens, and the end of the process.                                *)

LEMMA ReadStoreKeeps == Inductive /\ ReadStore => Inductive'
<1> SUFFICES ASSUME Inductive, ReadStore PROVE Inductive'
  OBVIOUS
<1>0. /\ TypeOK /\ Flows /\ Unspent /\ ui.stage = "read"
      /\ ui \in FlowRecord /\ ui.flow \in {"hydrate", "logout"}
      /\ UNCHANGED <<store, memory, calls, live, rotated, orphans, banned, kills, mishap,
                     loggedOut>>
  BY DEF Inductive, TypeOK, FlowRecord, Flows, ReadStore, server, history
<1>1. CASE store # None
  <2>1. ui' = [ui EXCEPT !.stage = "waiting"] /\ refresh' = Joined /\ hydrating' = hydrating
    BY <1>1 DEF ReadStore
  <2>2. /\ refresh' \in RefreshRecord
        /\ refresh'.stage # "idle"
        /\ \/ refresh' = refresh
           \/ /\ refresh.stage = "idle"
              /\ refresh'.stage = "read"
              /\ refresh'.token = refresh.token
              /\ refresh'.answer = refresh.answer
    BY <1>0, <2>1, Joining
  <2>3. ui' \in FlowRecord /\ ui'.stage = "waiting" /\ ui'.flow = ui.flow
    BY <1>0, <2>1 DEF FlowRecord
  <2>4. TypeOK'
    BY <1>0, <2>1, <2>2, <2>3 DEF TypeOK, RefreshRecord, FlowRecord
  <2>5. Flows'
    BY <1>0, <2>2, <2>3 DEF Flows
  <2>6. Unspent'
    BY <1>0, <2>2, <2>3 DEF Unspent
  <2> QED
    BY <2>4, <2>5, <2>6 DEF Inductive
<1>2. CASE store = None
  <2>1. refresh' = refresh /\ hydrating' \in BOOLEAN
    BY <1>0, <1>2 DEF ReadStore, TypeOK
  <2>2. ui' \in FlowRecord /\ ui'.stage \in {"idle", "post"}
    BY <1>0, <1>2 DEF ReadStore, FlowRecord, NoFlow
  <2>3. TypeOK'
    BY <1>0, <2>1, <2>2 DEF TypeOK, FlowRecord
  <2>4. Flows'
    BY <1>0, <2>1, <2>2 DEF Flows
  <2>5. Unspent'
    BY <1>0, <2>1, <2>2 DEF Unspent
  <2> QED
    BY <2>3, <2>4, <2>5 DEF Inductive
<1> QED
  BY <1>1, <1>2

\* A screen's flow moves to a stage that holds no new token.
LEMMA FlowMoves ==
  ASSUME Inductive, ui' \in FlowRecord, ui'.stage \in {"idle", "read", "post", "wipe", "set"},
         ui'.stage = "read" => ui'.flow \in {"hydrate", "logout"},
         memory' \in Access, hydrating' \in BOOLEAN, live' \subseteq Tokens,
         loggedOut' \in BOOLEAN,
         UNCHANGED <<store, refresh, calls, orphans, rotated, banned, kills, mishap>>
  PROVE  Inductive'
<1>1. TypeOK'
  BY DEF Inductive, TypeOK, FlowRecord
<1>2. Flows'
  BY DEF Inductive, Flows
<1>3. Unspent'
  BY DEF Inductive, Unspent
<1> QED
  BY <1>1, <1>2, <1>3 DEF Inductive

LEMMA FlowTypes ==
  Inductive => /\ TypeOK /\ ui \in FlowRecord /\ NoFlow \in FlowRecord
               /\ memory \in Access /\ hydrating \in BOOLEAN /\ live \subseteq Tokens
               /\ loggedOut \in BOOLEAN
BY DEF Inductive, TypeOK, FlowRecord, NoFlow

LEMMA WipeByUiKeeps == Inductive /\ WipeByUi => Inductive'
<1> SUFFICES ASSUME Inductive, WipeByUi PROVE Inductive'
  OBVIOUS
<1>1. /\ ui' \in FlowRecord /\ ui'.stage = "idle"
      /\ hydrating' \in BOOLEAN /\ loggedOut' \in BOOLEAN
  BY FlowTypes DEF WipeByUi, NoFlow
<1>2. TypeOK'
  BY <1>1 DEF Inductive, TypeOK, FlowRecord, WipeByUi, server
<1> QED
  BY <1>1, <1>2, WipedKeeps DEF Inductive, WipeByUi, server

LEMMA BeginLogoutKeeps == Inductive /\ BeginLogout => Inductive'
<1> SUFFICES ASSUME Inductive, BeginLogout PROVE Inductive'
  OBVIOUS
<1>1. ui' \in FlowRecord /\ ui'.stage = "read" /\ ui'.flow = "logout"
  BY DEF BeginLogout, NoFlow, FlowRecord
<1> QED
  BY <1>1, FlowTypes, FlowMoves DEF BeginLogout, server, history

LEMMA PostLogoutKeeps == Inductive /\ PostLogout => Inductive'
<1> SUFFICES ASSUME Inductive, PostLogout PROVE Inductive'
  OBVIOUS
<1>1. ui' \in FlowRecord /\ ui'.stage = "wipe"
  BY FlowTypes DEF PostLogout, FlowRecord
<1>2. memory' \in Access /\ live' \subseteq Tokens
  BY FlowTypes DEF PostLogout, Access
<1> QED
  BY <1>1, <1>2, FlowTypes, FlowMoves DEF PostLogout, history

LEMMA BeginLoginKeeps == Inductive /\ BeginLogin => Inductive'
<1> SUFFICES ASSUME Inductive, BeginLogin PROVE Inductive'
  OBVIOUS
<1>1. ui' \in FlowRecord /\ ui'.stage = "post"
  BY DEF BeginLogin, NoFlow, FlowRecord
<1> QED
  BY <1>1, FlowTypes, FlowMoves DEF BeginLogin, server

\* The token that a login brings is one that nobody holds.
LEMMA PostLoginKeeps == Inductive /\ PostLogin => Inductive'
<1> SUFFICES ASSUME Inductive, PostLogin PROVE Inductive'
  OBVIOUS
<1>0. UNCHANGED <<store, memory, hydrating, refresh, calls, orphans, rotated, banned, kills,
                  mishap, loggedOut>>
  BY DEF PostLogin, history
<1>1. CASE ui' = NoFlow /\ live' = live
  <2>1. ui'.stage = "idle"
    BY <1>1 DEF NoFlow
  <2> QED
    BY <1>0, <1>1, <2>1, FlowTypes, FlowMoves
<1>2. ASSUME NEW t \in Fresh,
             live' = live \cup {t}, ui' = [ui EXCEPT !.stage = "save", !.token = t]
      PROVE  Inductive'
  <2>1. /\ t \in Tokens
        /\ t \notin rotated \cup {store, refresh.token, refresh.answer}
    BY <1>2 DEF Fresh
  <2>2. ui' \in FlowRecord /\ ui'.stage = "save" /\ ui'.token = t
    BY <1>2, <2>1, FlowTypes DEF FlowRecord
  <2>3. TypeOK'
    BY <1>0, <1>2, <2>1, <2>2 DEF Inductive, TypeOK, FlowRecord
  <2>4. Flows'
    BY <1>0, <2>1, <2>2 DEF Inductive, Flows
  <2>5. Unspent'
    BY <1>0, <2>1, <2>2 DEF Inductive, Unspent
  <2> QED
    BY <2>3, <2>4, <2>5 DEF Inductive
<1> QED
  BY <1>1, <1>2 DEF PostLogin

LEMMA SaveLoginKeeps == Inductive /\ SaveLogin => Inductive'
<1> SUFFICES ASSUME Inductive, SaveLogin PROVE Inductive'
  OBVIOUS
<1>0. /\ ui.stage = "save" /\ ui.token \in Tokens /\ store' = ui.token
      /\ UNCHANGED <<memory, hydrating, refresh, calls, live, orphans, rotated, banned, kills,
                     mishap, loggedOut>>
  BY DEF Inductive, Flows, SaveLogin, server, history
<1>1. ui' \in FlowRecord /\ ui'.stage = "set" /\ ui'.flow = ui.flow
  BY FlowTypes DEF SaveLogin, FlowRecord
<1>2. TypeOK'
  BY <1>0, <1>1 DEF Inductive, TypeOK, FlowRecord
<1>3. Flows'
  BY <1>0, <1>1 DEF Inductive, Flows
<1>4. Unspent'
  BY <1>0, <1>1 DEF Inductive, Unspent
<1> QED
  BY <1>2, <1>3, <1>4 DEF Inductive

LEMMA SetLoginKeeps == Inductive /\ SetLogin => Inductive'
<1> SUFFICES ASSUME Inductive, SetLogin PROVE Inductive'
  OBVIOUS
<1>1. ui' \in FlowRecord /\ ui'.stage = "idle" /\ memory' \in Access
  BY FlowTypes DEF SetLogin, NoFlow, Access
<1> QED
  BY <1>1, FlowTypes, FlowMoves DEF SetLogin, server, history

LEMMA KillKeeps == Inductive /\ Kill => Inductive'
<1> SUFFICES ASSUME Inductive, Kill PROVE Inductive'
  OBVIOUS
<1>1. /\ ui' \in FlowRecord /\ ui'.stage = "read" /\ ui'.flow = "hydrate"
      /\ refresh' \in RefreshRecord /\ refresh'.stage = "idle" /\ refresh'.answer = None
      /\ NoCall \in CallRecord /\ NoCall.stage = "idle"
  BY DEF Kill, NoFlow, FlowRecord, NoRefresh, RefreshRecord, NoCall, CallRecord, Access
<1>2. kills' \in 0..MaxKills /\ memory' \in Access /\ mishap' = TRUE
  BY KillsCounted DEF Inductive, TypeOK, Kill, Access
<1>3. orphans' \subseteq Tokens
  BY DEF Inductive, TypeOK, Flows, Kill
<1>4. TypeOK'
  BY <1>1, <1>2, <1>3
     DEF Inductive, TypeOK, Kill, FlowRecord, RefreshRecord, CallRecord
<1>5. Flows'
  BY <1>1 DEF Flows
<1>6. Unspent'
  BY <1>2 DEF Unspent
<1> QED
  BY <1>4, <1>5, <1>6 DEF Inductive

------------------------------------------------------------------------------
(* The theorems.                                                           *)

LEMMA Start == Init => Inductive
<1> SUFFICES ASSUME Init PROVE Inductive
  OBVIOUS
<1>1. NoCall \in CallRecord /\ NoCall.stage = "idle"
  BY DEF NoCall, CallRecord, Access
<1>2. /\ ui \in FlowRecord /\ ui.stage = "read" /\ ui.flow = "hydrate"
      /\ refresh \in RefreshRecord /\ refresh.stage = "idle" /\ refresh.answer = None
  BY DEF Init, NoFlow, FlowRecord, NoRefresh, RefreshRecord
<1>3. live \subseteq Tokens /\ memory \in Access /\ kills \in 0..MaxKills
  BY KillsCounted DEF Init, Access
<1>4. calls \in [Calls -> CallRecord] /\ \A c \in Calls : calls[c].stage = "idle"
  BY <1>1 DEF Init
<1>5. TypeOK
  BY <1>2, <1>3, <1>4 DEF Init, TypeOK, FlowRecord, RefreshRecord, CallRecord
<1>6. Flows
  BY <1>2 DEF Flows
<1>7. Unspent
  BY <1>2 DEF Init, Unspent
<1> QED
  BY <1>5, <1>6, <1>7 DEF Inductive

LEMMA Kept == Inductive /\ [Next]_vars => Inductive'
<1> SUFFICES ASSUME Inductive, [Next]_vars PROVE Inductive'
  OBVIOUS
<1>1. CASE Flight
  BY <1>1, ReadTokenKeeps, ReceiveKeeps, SaveTokenKeeps, SetSessionKeeps, WipeStoreKeeps,
     AnswerRefreshKeeps, TimeOutKeeps DEF Flight
<1>2. CASE Screen
  BY <1>2, ReadStoreKeeps, WipeByUiKeeps, PostLogoutKeeps, PostLoginKeeps, SaveLoginKeeps,
     SetLoginKeeps DEF Screen
<1>3. CASE BeginLogout \/ BeginLogin
  BY <1>3, BeginLogoutKeeps, BeginLoginKeeps
<1>4. ASSUME NEW c \in Calls, Send(c) \/ Answer(c) PROVE Inductive'
  BY <1>4, SendKeeps, DoneKeeps, ExpiredKeeps, UnauthorizedKeeps, WipeByCallKeeps DEF Answer
<1>5. ASSUME NEW t \in Tokens, AnswerOrphan(t) PROVE Inductive'
  BY <1>5, AnswerOrphanKeeps
<1>6. CASE Expire \/ Ban \/ Kill
  BY <1>6, ExpireKeeps, BanKeeps, KillKeeps
<1>7. CASE UNCHANGED vars
  BY <1>7 DEF Inductive, TypeOK, Flows, Unspent, vars, phone, server, history
<1> QED
  BY <1>1, <1>2, <1>3, <1>4, <1>5, <1>6, <1>7 DEF Next

\* The state of the session is well formed at any time; in particular a call or
\* a screen that waits for a refresh has one to wait for, and a call that was
\* sent again never waits a second time
\* (src/apps/mobile/src/api/interceptors.ts).
THEOREM TypeTheorem == Spec => []TypeOK
<1>1. Inductive => TypeOK
  BY DEF Inductive
<1> QED
  BY <1>1, Start, Kept, PTL DEF Spec

\* However many calls expire at once, whatever the screens do meanwhile and in
\* whatever order the awaits resume, the phone never presents a refresh token
\* that was exchanged before, unless the app was killed or an answer was lost:
\* the server's reuse detection is not set off by the phone's own concurrency
\* (src/apps/mobile/src/api/interceptors.ts, refreshSingleFlight).
THEOREM SingleUseTheorem == Spec => []NeverReusesRotated
<1>1. Inductive => NeverReusesRotated
  BY DEF Inductive, TypeOK, Unspent, NeverReusesRotated
<1> QED
  BY <1>1, Start, Kept, PTL DEF Spec
==============================================================================
