------------------------------ MODULE AuthClient ------------------------------
(***************************************************************************)
(* The session on the phone: the refresh token in SecureStore, the user    *)
(* and access token in memory, and the flows that change them.  JavaScript *)
(* runs one flow at a time but switches at every await.                    *)
(*                                                                         *)
(* - `refresh` is the single flight of interceptors.ts: calls answered     *)
(*   40100, a cold start and a logout all wait for the same promise;       *)
(* - `ui` is the flow a screen runs: hydrate, login (or registration) or   *)
(*   logout, one at a time;                                                *)
(* - `calls` are the other API requests.                                   *)
(*                                                                         *)
(* The app can be killed anywhere, which leaves SecureStore; a request may *)
(* time out and yet reach the server later.  The server is what            *)
(* RefreshTokens makes of one request at a time, for the one user of this  *)
(* phone.                                                                  *)
(***************************************************************************)
EXTENDS Integers, FiniteSets

CONSTANTS
  Tokens,       \* refresh tokens
  Calls,        \* API requests that can be in progress at the same time
  MaxKills,     \* bound: how often the app is killed
  None          \* no token

\* The three things a token may be compared with are different things, and the
\* bound is a number.
ASSUME NoneIsNoToken == None \notin Tokens
ASSUME RefusedIsNoToken == "refused" \notin Tokens \cup {None}
ASSUME KillsCounted == MaxKills \in Nat

VARIABLES
  store,        \* the refresh token in SecureStore
  memory,       \* the access token in useAuthStore, "none" without a user
  hydrating,    \* useAuthStore.isHydrating
  refresh,      \* the refresh in flight
  ui,           \* the flow of the screen
  calls,
  orphans,      \* tokens in refresh requests that nobody waits for any more
  live,         \* the tokens the server accepts
  rotated,      \* the tokens the server has exchanged
  banned,       \* the server refuses the user
  kills,
  mishap,       \* history: a kill, a timeout or an orphan has happened
  loggedOut     \* history: logged out, and no login was begun since

phone == <<store, memory, hydrating, refresh, ui, calls>>
server == <<orphans, live, rotated, banned>>
history == <<kills, mishap, loggedOut>>
vars == <<phone, server, history>>

Access == {"none", "valid", "expired"}
Refused == "refused"

NoRefresh == [stage |-> "idle", token |-> None, answer |-> None]
NoFlow == [flow |-> "none", stage |-> "idle", token |-> None]
NoCall == [stage |-> "idle", access |-> "none", replayed |-> FALSE]

\* Bound: a token nobody holds any more may be issued again.
Fresh ==
  Tokens \ (live \cup rotated \cup orphans
             \cup {store, ui.token, refresh.token, refresh.answer})

------------------------------------------------------------------------------
(* The single flight.                                                      *)

\* Mutant of Joined: whoever needs a refresh starts one.
JoinedNever == [NoRefresh EXCEPT !.stage = "read"]

\* refreshSingleFlight: start a refresh or join the one under way.
Joined == IF refresh.stage = "idle" THEN [refresh EXCEPT !.stage = "read"] ELSE refresh

\* The promise settles: it is forgotten, the calls that waited are sent again
\* once with the new access token or fail, and the screen's flow goes on.  A
\* flow that fails ends in logoutLocal, which first clears the memory.
Resent(call, access) ==
  [stage |-> "sent", replayed |-> TRUE,
   access |-> IF access # "none" THEN access ELSE call.access]

SettleCalls(ok, access) ==
  calls' = [c \in Calls |->
              IF calls[c].stage # "waiting" THEN calls[c]
              ELSE IF ok THEN Resent(calls[c], access) ELSE NoCall]

SettleUi(ok) ==
  CASE ui.stage # "waiting" -> UNCHANGED <<ui, hydrating>>
    [] ui.stage = "waiting" /\ ok /\ ui.flow = "hydrate" ->
         ui' = NoFlow /\ hydrating' = FALSE
    [] ui.stage = "waiting" /\ ok /\ ui.flow = "logout" ->
         ui' = [ui EXCEPT !.stage = "post"] /\ UNCHANGED hydrating
    [] ui.stage = "waiting" /\ ~ok ->
         ui' = [ui EXCEPT !.stage = "wipe"] /\ UNCHANGED hydrating

Succeed ==
  /\ refresh' = NoRefresh
  /\ memory' = "valid"
  /\ SettleCalls(TRUE, "valid")
  /\ SettleUi(TRUE)

\* Mutant of Fail: the rejection does not reach the calls that wait.
FailUnheard ==
  /\ refresh' = NoRefresh
  /\ memory' = IF ui.stage = "waiting" THEN "none" ELSE memory
  /\ UNCHANGED calls
  /\ SettleUi(FALSE)

Fail ==
  /\ refresh' = NoRefresh
  /\ memory' = IF ui.stage = "waiting" THEN "none" ELSE memory
  /\ SettleCalls(FALSE, memory)
  /\ SettleUi(FALSE)

\* runRefresh reads SecureStore; without a token it logs out locally.
ReadToken ==
  /\ refresh.stage = "read"
  /\ IF store = None
     THEN refresh' = [refresh EXCEPT !.stage = "wipe"] /\ memory' = "none"
     ELSE /\ refresh' = [refresh EXCEPT !.stage = "posted", !.token = store]
          /\ UNCHANGED memory
  /\ UNCHANGED <<store, hydrating, ui, calls, server, history>>

\* The answer is in: a new pair to save, or a refusal that logs out locally.
Receive ==
  /\ refresh.stage = "posted"
  /\ refresh.answer # None
  /\ IF refresh.answer = Refused
     THEN refresh' = [refresh EXCEPT !.stage = "wipe"] /\ memory' = "none"
     ELSE refresh' = [refresh EXCEPT !.stage = "save"] /\ UNCHANGED memory
  /\ UNCHANGED <<store, hydrating, ui, calls, server, history>>

\* persistSession: SecureStore, an await, then the store in memory.
SaveToken ==
  /\ refresh.stage = "save"
  /\ store' = refresh.answer
  /\ refresh' = [refresh EXCEPT !.stage = "set"]
  /\ UNCHANGED <<memory, hydrating, ui, calls, server, history>>

SetSession ==
  /\ refresh.stage = "set"
  /\ Succeed
  /\ UNCHANGED <<store, server, history>>

\* The awaited part of logoutLocal, before the promise rejects.
WipeStore ==
  /\ refresh.stage = "wipe"
  /\ store' = None
  /\ Fail
  /\ UNCHANGED <<server, history>>

\* Fifteen seconds without an answer, or no network.  The request may still
\* arrive, and an answer that is under way is lost.
TimeOut ==
  /\ refresh.stage = "posted"
  /\ Fail
  /\ orphans' = IF refresh.answer = None THEN orphans \cup {refresh.token} ELSE orphans
  /\ mishap' = TRUE
  /\ UNCHANGED <<store, live, rotated, banned, kills, loggedOut>>

------------------------------------------------------------------------------
(* The server.                                                             *)

\* AuthService.refresh; a token that it issues and nobody receives is no more
\* than one that is live.  One that was revoked before the grace window takes
\* the others with it.
Exchange(t, answer) ==
  \/ /\ t \in live /\ ~banned
     /\ answer \in Fresh
     /\ live' = (live \ {t}) \cup {answer}
     /\ rotated' = rotated \cup {t}
  \/ /\ t \in live /\ banned
     /\ answer = Refused
     /\ UNCHANGED <<live, rotated>>
  \/ /\ t \notin live
     /\ answer = Refused
     /\ live' \in {live, {}}
     /\ UNCHANGED rotated

AnswerRefresh ==
  /\ refresh.stage = "posted"
  /\ refresh.answer = None
  /\ \E answer \in Tokens \cup {Refused} :
        /\ Exchange(refresh.token, answer)
        /\ refresh' = [refresh EXCEPT !.answer = answer]
  /\ UNCHANGED <<store, memory, hydrating, ui, calls, orphans, banned, history>>

AnswerOrphan(t) ==
  /\ t \in orphans
  /\ \E answer \in Tokens \cup {Refused} : Exchange(t, answer)
  /\ orphans' = orphans \ {t}
  /\ UNCHANGED <<phone, banned, history>>

Ban ==
  /\ banned' = TRUE
  /\ UNCHANGED <<phone, orphans, live, rotated, history>>

------------------------------------------------------------------------------
(* Calls.                                                                  *)

\* A screen of a user who is logged in asks for something.
Send(c) ==
  /\ calls[c] = NoCall
  /\ memory # "none"
  /\ calls' = [calls EXCEPT ![c] = [NoCall EXCEPT !.stage = "sent", !.access = memory]]
  /\ UNCHANGED <<store, memory, hydrating, refresh, ui, server, history>>

\* Answered, or failed with something that is not about the session.
Done(c) ==
  /\ calls[c].stage = "sent"
  /\ calls' = [calls EXCEPT ![c] = NoCall]
  /\ UNCHANGED <<store, memory, hydrating, refresh, ui, server, history>>

\* 40100: wait for a refresh, unless the call was sent again already.
Expired(c) ==
  /\ calls[c].stage = "sent"
  /\ calls[c].access = "expired"
  /\ IF calls[c].replayed
     THEN calls' = [calls EXCEPT ![c] = NoCall] /\ UNCHANGED refresh
     ELSE calls' = [calls EXCEPT ![c].stage = "waiting"] /\ refresh' = Joined
  /\ UNCHANGED <<store, memory, hydrating, ui, server, history>>

\* 40110 or 40101: logged out, except during a cold start.
Unauthorized(c) ==
  /\ calls[c].stage = "sent"
  /\ banned
  /\ IF hydrating
     THEN calls' = [calls EXCEPT ![c] = NoCall] /\ UNCHANGED memory
     ELSE calls' = [calls EXCEPT ![c].stage = "wipe"] /\ memory' = "none"
  /\ UNCHANGED <<store, hydrating, refresh, ui, server, history>>

WipeByCall(c) ==
  /\ calls[c].stage = "wipe"
  /\ store' = None
  /\ calls' = [calls EXCEPT ![c] = NoCall]
  /\ UNCHANGED <<memory, hydrating, refresh, ui, server, history>>

\* The access token runs out, in the calls under way as well.
Expire ==
  /\ memory = "valid"
  /\ memory' = "expired"
  /\ calls' = [c \in Calls |-> IF calls[c].access = "valid"
                               THEN [calls[c] EXCEPT !.access = "expired"] ELSE calls[c]]
  /\ UNCHANGED <<store, hydrating, refresh, ui, server, history>>

------------------------------------------------------------------------------
(* The screens.                                                            *)

\* hydrateAuth and onLogout begin alike: a stored token is refreshed first.
ReadStore ==
  /\ ui.stage = "read"
  /\ IF store # None
     THEN ui' = [ui EXCEPT !.stage = "waiting"] /\ refresh' = Joined /\ UNCHANGED hydrating
     ELSE /\ IF ui.flow = "hydrate"
             THEN ui' = NoFlow /\ hydrating' = FALSE
             ELSE ui' = [ui EXCEPT !.stage = "post"] /\ UNCHANGED hydrating
          /\ UNCHANGED refresh
  /\ UNCHANGED <<store, memory, calls, server, history>>

\* Mutant of WipeByUi: setHydrating(false) only when nothing was thrown.
WipeByUiHydrating ==
  /\ ui.stage = "wipe"
  /\ store' = None
  /\ ui' = NoFlow
  /\ loggedOut' = (loggedOut \/ ui.flow = "logout")
  /\ UNCHANGED <<memory, hydrating, refresh, calls, server, kills, mishap>>

\* logoutLocal at the end of a cold start that failed, and of every logout.
WipeByUi ==
  /\ ui.stage = "wipe"
  /\ store' = None
  /\ ui' = NoFlow
  /\ hydrating' = (hydrating /\ ui.flow # "hydrate")
  /\ loggedOut' = (loggedOut \/ ui.flow = "logout")
  /\ UNCHANGED <<memory, refresh, calls, server, kills, mishap>>

\* The logout button is there while a user is.
BeginLogout ==
  /\ ui = NoFlow
  /\ memory # "none"
  /\ ui' = [NoFlow EXCEPT !.flow = "logout", !.stage = "read"]
  /\ UNCHANGED <<store, memory, hydrating, refresh, calls, server, history>>

\* POST /auth/logout, best effort: the server revokes all or is not reached.
PostLogout ==
  /\ ui.flow = "logout"
  /\ ui.stage = "post"
  /\ live' \in IF memory = "valid" /\ ~banned THEN {live, {}} ELSE {live}
  /\ memory' = "none"
  /\ ui' = [ui EXCEPT !.stage = "wipe"]
  /\ UNCHANGED <<store, hydrating, refresh, calls, orphans, rotated, banned, history>>

BeginLogin ==
  /\ ui = NoFlow
  /\ memory = "none"
  /\ ui' = [NoFlow EXCEPT !.flow = "login", !.stage = "post"]
  /\ loggedOut' = FALSE
  /\ UNCHANGED <<store, memory, hydrating, refresh, calls, server, kills, mishap>>

PostLogin ==
  /\ ui.flow = "login"
  /\ ui.stage = "post"
  /\ \/ /\ ui' = NoFlow           \* refused, or no network
        /\ UNCHANGED live
     \/ /\ ~banned
        /\ \E t \in Fresh : live' = live \cup {t} /\ ui' = [ui EXCEPT !.stage = "save", !.token = t]
  /\ UNCHANGED <<store, memory, hydrating, refresh, calls, orphans, rotated, banned, history>>

SaveLogin ==
  /\ ui.stage = "save"
  /\ store' = ui.token
  /\ ui' = [ui EXCEPT !.stage = "set"]
  /\ UNCHANGED <<memory, hydrating, refresh, calls, server, history>>

SetLogin ==
  /\ ui.stage = "set"
  /\ memory' = "valid"
  /\ ui' = NoFlow
  /\ UNCHANGED <<store, hydrating, refresh, calls, server, history>>

------------------------------------------------------------------------------
\* The app is killed and started again: a cold start from what is stored.
Kill ==
  /\ kills < MaxKills
  /\ kills' = kills + 1
  /\ mishap' = TRUE
  /\ memory' = "none"
  /\ hydrating' = TRUE
  /\ refresh' = NoRefresh
  /\ ui' = [NoFlow EXCEPT !.flow = "hydrate", !.stage = "read"]
  /\ calls' = [c \in Calls |-> NoCall]
  /\ orphans' = IF refresh.stage = "posted" /\ refresh.answer = None
                THEN orphans \cup {refresh.token} ELSE orphans
  /\ UNCHANGED <<store, live, rotated, banned, loggedOut>>

Init ==
  /\ store \in Tokens \cup {None}
  /\ memory = "none"
  /\ hydrating = TRUE
  /\ refresh = NoRefresh
  /\ ui = [NoFlow EXCEPT !.flow = "hydrate", !.stage = "read"]
  /\ calls = [c \in Calls |-> NoCall]
  /\ orphans = {}
  /\ live \in {{}, {store} \ {None}}
  /\ rotated = {}
  /\ banned = FALSE
  /\ kills = 0
  /\ mishap = FALSE
  /\ loggedOut = FALSE

Flight == ReadToken \/ Receive \/ SaveToken \/ SetSession \/ WipeStore \/ AnswerRefresh \/ TimeOut
Screen == ReadStore \/ WipeByUi \/ PostLogout \/ PostLogin \/ SaveLogin \/ SetLogin
Answer(c) == Done(c) \/ Expired(c) \/ Unauthorized(c) \/ WipeByCall(c)

Next ==
  \/ Flight
  \/ Screen \/ BeginLogout \/ BeginLogin
  \/ \E c \in Calls : Send(c) \/ Answer(c)
  \/ \E t \in Tokens : AnswerOrphan(t)
  \/ Expire \/ Ban \/ Kill

Spec == Init /\ [][Next]_vars

\* The event loop runs every continuation, and a request is answered or times
\* out (axios waits 15 seconds).
Fairness ==
  /\ WF_vars(Flight)
  /\ WF_vars(Screen)
  /\ \A c \in Calls : WF_vars(Answer(c))
FairSpec == Spec /\ Fairness

------------------------------------------------------------------------------
(* Properties.                                                             *)

\* The state is well formed; in particular whoever waits for a refresh has one
\* to wait for, and a call that was sent again is not waiting.
TypeOK ==
  /\ store \in Tokens \cup {None}
  /\ memory \in Access
  /\ hydrating \in BOOLEAN
  /\ refresh \in [stage : {"idle", "read", "posted", "save", "set", "wipe"},
                  token : Tokens \cup {None}, answer : Tokens \cup {None, Refused}]
  /\ ui \in [flow : {"none", "hydrate", "login", "logout"},
             stage : {"idle", "read", "waiting", "post", "save", "set", "wipe"},
             token : Tokens \cup {None}]
  /\ calls \in [Calls -> [stage : {"idle", "sent", "waiting", "wipe"}, access : Access,
                          replayed : BOOLEAN]]
  /\ live \subseteq Tokens /\ rotated \subseteq Tokens /\ orphans \subseteq Tokens
  /\ banned \in BOOLEAN /\ mishap \in BOOLEAN /\ loggedOut \in BOOLEAN
  /\ kills \in 0..MaxKills
  /\ (ui.stage = "waiting" \/ \E c \in Calls : calls[c].stage = "waiting")
        => refresh.stage # "idle"
  /\ \A c \in Calls : calls[c].stage = "waiting" => ~calls[c].replayed

\* Reuse detection never fires at a phone that works: unless the app was killed
\* or an answer lost, the token it presents is none that was exchanged before,
\* however many calls expire at once and whatever screen is open.
NeverReusesRotated ==
  refresh.stage = "posted" /\ refresh.answer = None /\ refresh.token \in rotated => mishap

\* The cold start ends, whatever the server answers: no splash forever.
HydrationEnds == hydrating ~> ~hydrating

\* A call that waits for a refresh is resumed, also when the refresh fails.
WaitersResume == \A c \in Calls : (calls[c].stage = "waiting") ~> (calls[c].stage # "waiting")

\* build-spec.md:270: a logout always clears SecureStore and the store in
\* memory.  A refresh that a call started after the logout had refreshed comes
\* back when all was wiped, and persists its session.
LogoutSticks == loggedOut => memory = "none" /\ store = None

\* README.md:181: killed and started again, the app restores the login from its
\* refresh token.  A cold start that does not reach the server wipes a token
\* that the server accepts.
ColdStartKeepsSession ==
  [][ui.flow = "hydrate" /\ store # None /\ store' = None => store \notin live]_vars
==============================================================================
