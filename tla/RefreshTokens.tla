----------------------------- MODULE RefreshTokens -----------------------------
(***************************************************************************)
(* AuthService: registration, login, rotation of refresh tokens, reuse     *)
(* detection and logout, over the tables users and refresh_tokens.         *)
(*                                                                         *)
(* No method runs in a transaction.  A request is a sequence of statements *)
(* with awaits between them, and other requests, a crash of the API or a   *)
(* ban may come in anywhere.  A refresh reads the row of its token, then   *)
(* the user, inserts the successor and only then saves the row it read as  *)
(* revoked; a logout is one UPDATE of the rows that are live by then.      *)
(*                                                                         *)
(* A token here is its row; the raw string of a token exists for clients   *)
(* once its answer was sent, and that answer may be lost.                  *)
(***************************************************************************)
EXTENDS Datetime, FiniteSets

CONSTANTS
  Users,        \* the accounts, by phone number
  Tokens,       \* identifiers that the rows of a behaviour are drawn from
  Requests,     \* requests that can be in progress at the same time
  Grace,        \* REFRESH_REUSE_GRACE_MS
  Ttl,          \* JWT_REFRESH_TTL
  Horizon,      \* bound: time stops here
  MaxCrashes,   \* bound
  None          \* no token, no user, no time

ASSUME NoneIsNothing == None \notin Tokens \cup Users \cup Int
ASSUME TimesNatural == {Grace, Ttl, Horizon, MaxCrashes} \subseteq Nat

VARIABLES
  account,      \* users.status per phone number, "none" without a row
  rows,         \* the table refresh_tokens
  requests,     \* the requests being served
  sent,         \* the tokens whose raw string was sent to a client
  clock,
  crashes,
  parent,       \* history: the token each token was issued in exchange for
  session       \* history: how the last login or logout of each user went

vars == <<account, rows, requests, sent, clock, crashes, parent, session>>

------------------------------------------------------------------------------
Times == 0..(Horizon + Ttl + Second)
Row == [status : {"absent", "live", "revoked"}, user : Users \cup {None},
        expiresAt : Times, revokedAt : Times \cup {None},
        replacedBy : Tokens \cup {None}]
NoRow == [status |-> "absent", user |-> None, expiresAt |-> 0,
          revokedAt |-> None, replacedBy |-> None]

(* A request: what it does next, for whom, on which token, the `now` it    *)
(* took, the revoked_at it read, and the token it inserted.                *)
Stage == {"idle", "find", "user", "create", "insert", "save", "revokeAll", "send"}
Request == [op : {"none", "register", "login", "refresh", "logout"}, stage : Stage,
            user : Users \cup {None}, token : Tokens \cup {None}, now : Times,
            seen : Times \cup {None}, fresh : Tokens \cup {None}]
Idle == [op |-> "none", stage |-> "idle", user |-> None, token |-> None, now |-> 0,
         seen |-> None, fresh |-> None]

Begin(r, request) ==
  /\ requests[r] = Idle
  /\ requests' = [requests EXCEPT ![r] = request]

At(r, stage) == requests[r].stage = stage
Goto(r, stage) == requests' = [requests EXCEPT ![r].stage = stage]
End(r) == requests' = [requests EXCEPT ![r] = Idle]

UserOf(r) == requests[r].user
CurrentOf(r) == requests[r].token
Issuing(stages) == {r \in Requests : requests[r].stage \in stages}
IssuingFor(u, ops) == {r \in Issuing({"find", "user", "create", "insert"}) :
                         UserOf(r) = u /\ requests[r].op \in ops}

\* Bound: a request that may issue a token starts while an identifier is left.
TokenLeft ==
  Cardinality({t \in Tokens : rows[t].status = "absent"})
    > Cardinality(Issuing({"find", "user", "create", "insert"}))

LiveOf(u) == {t \in Tokens : rows[t].status = "live" /\ rows[t].user = u}

------------------------------------------------------------------------------
(* register                                                                *)

BeginRegister(r, u) ==
  /\ account[u] = "none"
  /\ TokenLeft
  /\ Begin(r, [Idle EXCEPT !.op = "register", !.stage = "create", !.user = u])
  /\ session' = [session EXCEPT ![u] = "in"]
  /\ UNCHANGED <<account, rows, sent, clock, crashes, parent>>

\* UsersService.create: the unique index on the phone decides a race.
CreateUser(r) ==
  /\ At(r, "create")
  /\ IF account[UserOf(r)] = "none"
     THEN account' = [account EXCEPT ![UserOf(r)] = "active"] /\ Goto(r, "insert")
     ELSE UNCHANGED account /\ End(r)
  /\ UNCHANGED <<rows, sent, clock, crashes, parent, session>>

(* login: the account is read, the password compared, a token issued.      *)
BeginLogin(r, u) ==
  /\ account[u] = "active"
  /\ TokenLeft
  /\ Begin(r, [Idle EXCEPT !.op = "login", !.stage = "insert", !.user = u])
  /\ session' = [session EXCEPT ![u] = "in"]
  /\ UNCHANGED <<account, rows, sent, clock, crashes, parent>>

------------------------------------------------------------------------------
(* refresh                                                                 *)

BeginRefresh(r, t) ==
  /\ t \in sent
  /\ TokenLeft
  /\ Begin(r, [Idle EXCEPT !.op = "refresh", !.stage = "find", !.token = t,
                           !.user = rows[t].user, !.now = clock])
  /\ UNCHANGED <<account, rows, sent, clock, crashes, parent, session>>

WithinGrace(revokedAt, now) == revokedAt # None /\ now - revokedAt <= Grace

\* Mutant of Find: no grace window.
FindWithoutGrace(r) ==
  /\ At(r, "find")
  /\ LET row == rows[CurrentOf(r)]
     IN  IF row.status = "revoked"
         THEN requests' = [requests EXCEPT ![r].stage = "revokeAll", ![r].seen = row.revokedAt]
         ELSE IF row.expiresAt < requests[r].now THEN End(r) ELSE Goto(r, "user")
  /\ UNCHANGED <<account, rows, sent, clock, crashes, parent, session>>

\* A revoked token is refused, and takes the whole family with it when it was
\* revoked longer than the grace window ago; an expired one is refused.
Find(r) ==
  /\ At(r, "find")
  /\ LET row == rows[CurrentOf(r)]
         now == requests[r].now
     IN  IF row.status = "revoked"
         THEN IF WithinGrace(row.revokedAt, now)
              THEN End(r)
              ELSE requests' = [requests EXCEPT ![r].stage = "revokeAll",
                                                ![r].seen = row.revokedAt]
         ELSE IF row.expiresAt < now THEN End(r) ELSE Goto(r, "user")
  /\ UNCHANGED <<account, rows, sent, clock, crashes, parent, session>>

CheckUser(r) ==
  /\ At(r, "user")
  /\ IF account[UserOf(r)] = "active" THEN Goto(r, "insert") ELSE End(r)
  /\ UNCHANGED <<account, rows, sent, clock, crashes, parent, session>>

\* insertRefreshRow, for a login, a registration or a rotation.
Insert(r) ==
  /\ At(r, "insert")
  /\ \E t \in Tokens :
        /\ rows[t].status = "absent"
        /\ LET now == IF requests[r].op = "refresh" THEN requests[r].now ELSE clock
           IN  rows' = [rows EXCEPT ![t] =
                 [status |-> "live", user |-> UserOf(r), expiresAt |-> Stored(now + Ttl),
                  revokedAt |-> None, replacedBy |-> None]]
        /\ requests' = [requests EXCEPT
             ![r].fresh = t,
             ![r].stage = IF requests[r].op = "refresh" THEN "save" ELSE "send"]
        /\ parent' = [parent EXCEPT ![t] = CurrentOf(r)]
  /\ UNCHANGED <<account, sent, clock, crashes, session>>

\* Mutants of Save: the old row is not revoked, or the row is written back as it
\* was read with nothing but the successor changed.
SaveUnrevoked(r) ==
  /\ At(r, "save")
  /\ rows' = [rows EXCEPT ![CurrentOf(r)].replacedBy = requests[r].fresh]
  /\ Goto(r, "send")
  /\ UNCHANGED <<account, sent, clock, crashes, parent, session>>

SaveAsRead(r) ==
  /\ At(r, "save")
  /\ rows' = [rows EXCEPT ![CurrentOf(r)].status = "live",
                          ![CurrentOf(r)].revokedAt = None]
  /\ Goto(r, "send")
  /\ UNCHANGED <<account, sent, clock, crashes, parent, session>>

\* Mutant of Save: the answer goes out before the old row is revoked.
SaveNotAwaited(r) ==
  /\ At(r, "save")
  /\ Goto(r, "send")
  /\ UNCHANGED <<account, rows, sent, clock, crashes, parent, session>>

\* rotate saves the row as it read it, marked as replaced.
Save(r) ==
  /\ At(r, "save")
  /\ rows' = [rows EXCEPT ![CurrentOf(r)].status = "revoked",
                          ![CurrentOf(r)].revokedAt = Stored(requests[r].now),
                          ![CurrentOf(r)].replacedBy = requests[r].fresh]
  /\ Goto(r, "send")
  /\ UNCHANGED <<account, sent, clock, crashes, parent, session>>

\* The answer carries the raw token; it may never arrive.
Send(r) ==
  /\ At(r, "send")
  /\ sent' \in {sent, sent \cup {requests[r].fresh}}
  /\ End(r)
  /\ UNCHANGED <<account, rows, clock, crashes, parent, session>>

------------------------------------------------------------------------------
(* logout, and the reuse of a token that was revoked long ago              *)

BeginLogout(r, u) ==
  /\ account[u] = "active"          \* JwtStrategy.validate
  /\ \E t \in sent : rows[t].user = u
  /\ Begin(r, [Idle EXCEPT !.op = "logout", !.stage = "revokeAll", !.user = u,
                           !.now = clock])
  /\ UNCHANGED <<account, rows, sent, clock, crashes, parent, session>>

\* Mutant of RevokeAll: only tokens that were rotated before are revoked.
RevokeRotated(r) ==
  /\ At(r, "revokeAll")
  /\ rows' = [t \in Tokens |->
                IF t \in LiveOf(UserOf(r)) /\ parent[t] # None
                THEN [rows[t] EXCEPT !.status = "revoked",
                                     !.revokedAt = Stored(requests[r].now)]
                ELSE rows[t]]
  /\ session' = [session EXCEPT ![UserOf(r)] = "out"]
  /\ End(r)
  /\ UNCHANGED <<account, sent, clock, crashes, parent>>

\* revokeAllForUser: one UPDATE of the rows that are live now.
RevokeAll(r) ==
  /\ At(r, "revokeAll")
  /\ rows' = [t \in Tokens |->
                IF t \in LiveOf(UserOf(r))
                THEN [rows[t] EXCEPT !.status = "revoked",
                                     !.revokedAt = Stored(requests[r].now)]
                ELSE rows[t]]
  /\ session' = [session EXCEPT ![UserOf(r)] =
                    IF IssuingFor(UserOf(r), {"register", "login"}) # {} THEN @
                    ELSE IF IssuingFor(UserOf(r), {"refresh"}) = {} THEN "out"
                    ELSE IF requests[r].op = "logout" THEN "overlapped" ELSE @]
  /\ End(r)
  /\ UNCHANGED <<account, sent, clock, crashes, parent>>

------------------------------------------------------------------------------
(* The environment.                                                        *)

\* users.status is changed by hand: no operation of the API does it.
Ban(u) ==
  /\ account[u] = "active"
  /\ account' = [account EXCEPT ![u] = "banned"]
  /\ UNCHANGED <<rows, requests, sent, clock, crashes, parent, session>>

\* The API goes down with the requests it serves; or one of them fails.
Crash ==
  /\ crashes < MaxCrashes
  /\ requests' = [r \in Requests |-> Idle]
  /\ crashes' = crashes + 1
  /\ UNCHANGED <<account, rows, sent, clock, parent, session>>

Tick ==
  /\ clock < Horizon
  /\ clock' = clock + 1
  /\ UNCHANGED <<account, rows, requests, sent, crashes, parent, session>>

Init ==
  /\ account = [u \in Users |-> "none"]
  /\ rows = [t \in Tokens |-> NoRow]
  /\ requests = [r \in Requests |-> Idle]
  /\ sent = {}
  /\ clock = 0
  /\ crashes = 0
  /\ parent = [t \in Tokens |-> None]
  /\ session = [u \in Users |-> "in"]

Step(r) ==
  \/ CreateUser(r) \/ Find(r) \/ CheckUser(r) \/ Insert(r) \/ Save(r) \/ Send(r)
  \/ RevokeAll(r)

Next ==
  \/ \E r \in Requests :
        \/ Step(r)
        \/ \E u \in Users : BeginRegister(r, u) \/ BeginLogin(r, u) \/ BeginLogout(r, u)
        \/ \E t \in Tokens : BeginRefresh(r, t)
  \/ \E u \in Users : Ban(u)
  \/ Crash
  \/ Tick

Spec == Init /\ [][Next]_vars

------------------------------------------------------------------------------
(* Properties.                                                             *)

\* The rows are well formed: a revoked row says when, a replaced row is revoked.
TypeOK ==
  /\ account \in [Users -> {"none", "active", "banned"}]
  /\ rows \in [Tokens -> Row]
  /\ requests \in [Requests -> Request]
  /\ sent \in SUBSET Tokens
  /\ clock \in 0..Horizon
  /\ crashes \in 0..MaxCrashes
  /\ parent \in [Tokens -> Tokens \cup {None}]
  /\ session \in [Users -> {"in", "out", "overlapped"}]
  /\ \A t \in Tokens :
        /\ rows[t].status = "revoked" <=> rows[t].revokedAt # None
        /\ rows[t].replacedBy # None => rows[t].status = "revoked"

\* A client never holds a new token while the one it gave for it still works,
\* wherever a crash or a concurrent request cuts the rotation short.
RotatedBeforeSent ==
  \A t \in sent : parent[t] # None => rows[parent[t]].status = "revoked"

KeepsRevoked == \A t \in Tokens : rows[t].status = "revoked" => rows'[t].status = "revoked"

\* A revoked token stays revoked, although rotate saves a row that it read
\* several statements before.
RevokedForGood == [][KeepsRevoked]_vars

\* Unless a request that could still issue a token overlapped it, a logout (or a
\* detected reuse) leaves the user no working token until the next login, and no
\* token revoked by it can be exchanged afterwards.
SignedOutStaysOut == \A u \in Users : session[u] = "out" => LiveOf(u) = {}

HasReason ==
  \A t \in Tokens :
     rows[t].status = "live" /\ rows'[t].status = "revoked" =>
       \E r \in Requests :
         \/ requests[r].stage = "save" /\ CurrentOf(r) = t
         \/ /\ requests[r].stage = "revokeAll"
            /\ UserOf(r) = rows[t].user
            /\ \/ requests[r].op = "logout"
               \/ ~WithinGrace(requests[r].seen, requests[r].now)

\* A token is revoked for one of three reasons only: it is exchanged, its user
\* logs out, or a token of the family is presented again more than the grace
\* window after it was revoked.  A retry in the window costs nobody a session.
RevokedForAReason == [][HasReason]_vars

\* README.md:180, the acceptance list: after a logout all refresh tokens of the
\* user are void (until the user logs in again).  A refresh that has read its
\* row when the logout revokes the others inserts a live one after it.
LogoutVoidsAll == \A u \in Users : session[u] \in {"out", "overlapped"} => LiveOf(u) = {}
==============================================================================
