------------------------ MODULE RefreshTokens_proofs ------------------------
(***************************************************************************)
(* Proofs about RefreshTokens, for any users, tokens, concurrent requests  *)
(* and times: every property the runs check of it                          *)
(* (src/apps/api/src/auth/auth.service.ts).                                *)
(*                                                                         *)
(* None of them is inductive.  What is missing is what a request knows     *)
(* between two of its statements: Staged says what its stage tells of it,  *)
(* Lineage what it may count on of the token it has inserted, and          *)
(* SignedOut why a refresh that is under way at a logout issues nothing.   *)
(***************************************************************************)
EXTENDS RefreshTokens, TLAPS

Revoked(t) == rows[t].status = "revoked"
Known(t) == t \in Tokens /\ rows[t].status # "absent"

\* What the stage of a request tells of it.
StagedOf(r) ==
  /\ requests[r].now <= clock
  /\ requests[r].stage \in {"find", "user", "save"} => requests[r].op = "refresh"
  /\ requests[r].stage = "create" => requests[r].op = "register"
  /\ requests[r].stage = "insert" => requests[r].op \in {"register", "login", "refresh"}
  /\ requests[r].stage = "revokeAll" =>
       requests[r].op = "logout" \/ ~WithinGrace(requests[r].seen, requests[r].now)
  /\ requests[r].op = "refresh" => Known(CurrentOf(r))
  /\ requests[r].op # "refresh" => CurrentOf(r) = None
Staged == \A r \in Requests : StagedOf(r)

\* The token that was exchanged for t is revoked.
ParentRevoked(t) == parent[t] # None => Revoked(parent[t])

\* A token is in the table before its client has it; the request that inserted it
\* knows whose successor it is, and has revoked that one when it answers.
LineageOf(r) ==
  /\ At(r, "save") => Known(requests[r].fresh) /\ parent[requests[r].fresh] = CurrentOf(r)
  /\ At(r, "send") => Known(requests[r].fresh) /\ ParentRevoked(requests[r].fresh)
Lineage ==
  /\ \A t \in sent : Known(t) /\ ParentRevoked(t)
  /\ \A r \in Requests : LineageOf(r)

\* Once a user is signed out, no request is past the point where it looks at the
\* token it was given, and that token is revoked.
SignedOutOf(u) ==
  session[u] = "out" =>
    /\ LiveOf(u) = {}
    /\ \A r \in Requests :
         UserOf(r) = u =>
           /\ requests[r].stage \notin {"user", "create", "insert"}
           /\ At(r, "find") => Revoked(CurrentOf(r))
SignedOut == \A u \in Users : SignedOutOf(u)

Inductive == TypeOK /\ Staged /\ Lineage /\ SignedOut

------------------------------------------------------------------------------
(* Type correctness.                                                       *)

\* Rounding adds less than a second.
LEMMA StoredInTimes ==
  ASSUME NEW t \in 0..(Horizon + Ttl)
  PROVE  Stored(t) \in Times /\ Stored(t) # None
<1> DEFINE half == Second \div 2
           sum == t + half
<1>1. Second \in Nat \ {0} /\ Horizon \in Nat /\ Ttl \in Nat
  BY SecondPositive, TimesNatural
<1>2. half \in Nat /\ half <= Second
  BY <1>1
<1>3. sum \in Nat /\ sum <= Horizon + Ttl + Second
  BY <1>1, <1>2
<1> HIDE DEF sum
<1>4. (sum \div Second) * Second \in Int /\ 0 <= (sum \div Second) * Second
        /\ (sum \div Second) * Second <= sum
  BY <1>1, <1>3
<1> QED
  BY <1>1, <1>3, <1>4, NoneIsNothing DEF Stored, Times, sum

LEMMA InitType == Init => TypeOK
BY NoneIsNothing, TimesNatural, SecondPositive
   DEF Init, TypeOK, Row, NoRow, Request, Idle, Stage, Times

LEMMA IdleType == Idle \in Request /\ 0..Horizon \subseteq Times
BY NoneIsNothing, TimesNatural, SecondPositive DEF Idle, Request, Stage, Times

LEMMA RequestType ==
  ASSUME TypeOK, NEW r \in Requests, NEW request \in Request,
         requests' = [requests EXCEPT ![r] = request]
  PROVE  requests' \in [Requests -> Request]
BY DEF TypeOK

LEMMA GotoType ==
  ASSUME NEW request \in Request, NEW stage \in Stage
  PROVE  [request EXCEPT !.stage = stage] \in Request
BY DEF Request

LEMMA FreshType ==
  ASSUME NEW request \in Request, NEW t \in Tokens
  PROVE  [request EXCEPT !.fresh = t] \in Request
BY DEF Request

\* What Save and RevokeAll make of a row.
LEMMA RevokedRow ==
  ASSUME NEW row \in Row, NEW time \in Times, NEW t \in Tokens \cup {None}
  PROVE  /\ [row EXCEPT !.status = "revoked", !.revokedAt = time] \in Row
         /\ [row EXCEPT !.status = "revoked", !.revokedAt = time, !.replacedBy = t] \in Row
BY DEF Row

LEMMA NextType == TypeOK /\ Staged /\ Lineage /\ [Next]_vars => TypeOK'
<1> SUFFICES ASSUME TypeOK, Staged, Lineage, [Next]_vars PROVE TypeOK'
  OBVIOUS
<1> USE IdleType
<1>1. ASSUME NEW r \in Requests, NEW u \in Users,
             BeginRegister(r, u) \/ BeginLogin(r, u) \/ BeginLogout(r, u)
      PROVE  TypeOK'
  <2>1. PICK request \in Request : requests' = [requests EXCEPT ![r] = request]
    <3>1. [Idle EXCEPT !.op = "register", !.stage = "create", !.user = u] \in Request
      BY DEF Request, Stage
    <3>2. [Idle EXCEPT !.op = "login", !.stage = "insert", !.user = u] \in Request
      BY DEF Request, Stage
    <3>3. clock \in Times
      BY DEF TypeOK
    <3>4. [Idle EXCEPT !.op = "logout", !.stage = "revokeAll", !.user = u, !.now = clock]
            \in Request
      BY <3>3 DEF Request, Stage
    <3> QED
      BY <1>1, <3>1, <3>2, <3>4 DEF BeginRegister, BeginLogin, BeginLogout, Begin
  <2>2. session' \in [Users -> {"in", "out", "overlapped"}]
    BY <1>1 DEF BeginRegister, BeginLogin, BeginLogout, TypeOK
  <2> QED
    BY <1>1, <2>1, <2>2, RequestType DEF TypeOK, BeginRegister, BeginLogin, BeginLogout
<1>2. ASSUME NEW r \in Requests, NEW t \in Tokens, BeginRefresh(r, t)
      PROVE  TypeOK'
  <2>1. rows[t].user \in Users \cup {None} /\ clock \in Times
    BY DEF TypeOK, Row
  <2>2. [Idle EXCEPT !.op = "refresh", !.stage = "find", !.token = t,
                     !.user = rows[t].user, !.now = clock] \in Request
    BY <2>1 DEF Request, Stage
  <2> QED
    BY <1>2, <2>2, RequestType DEF TypeOK, BeginRefresh, Begin
<1>3. ASSUME NEW r \in Requests, CreateUser(r) \/ CheckUser(r)
      PROVE  TypeOK'
  <2>1. "insert" \in Stage
    BY DEF Stage
  <2>2. requests' = [requests EXCEPT ![r].stage = "insert"] \/ requests' = [requests EXCEPT ![r] = Idle]
    BY <1>3 DEF CreateUser, CheckUser, Goto, End
  <2>3. requests[r] \in Request /\ requests \in [Requests -> Request]
    BY DEF TypeOK
  <2>4. requests' \in [Requests -> Request]
    BY <2>1, <2>2, <2>3, GotoType
  <2>5. account' = account \/ account' = [account EXCEPT ![UserOf(r)] = "active"]
    BY <1>3 DEF CreateUser, CheckUser
  <2>6. account' \in [Users -> {"none", "active", "banned"}]
    BY <2>5 DEF TypeOK
  <2> QED
    BY <1>3, <2>4, <2>6 DEF CreateUser, CheckUser, TypeOK
<1>4. ASSUME NEW r \in Requests, Find(r)
      PROVE  TypeOK'
  <2>1. requests[r].stage = "find" /\ rows[CurrentOf(r)].revokedAt \in Times \cup {None}
    BY <1>4 DEF Find, At, TypeOK, Staged, StagedOf, Known, Row
  <2> QED
    BY <1>4, <2>1 DEF TypeOK, Find, Goto, End, Request, Stage
<1>5. ASSUME NEW r \in Requests, Insert(r)
      PROVE  TypeOK'
  <2> DEFINE now == IF requests[r].op = "refresh" THEN requests[r].now ELSE clock
             stage == IF requests[r].op = "refresh" THEN "save" ELSE "send"
  <2>1. PICK t \in Tokens :
          /\ rows' = [rows EXCEPT ![t] =
                [status |-> "live", user |-> UserOf(r), expiresAt |-> Stored(now + Ttl),
                 revokedAt |-> None, replacedBy |-> None]]
          /\ requests' = [requests EXCEPT ![r].fresh = t, ![r].stage = stage]
          /\ parent' = [parent EXCEPT ![t] = CurrentOf(r)]
    BY <1>5 DEF Insert
  <2>2. now + Ttl \in 0..(Horizon + Ttl)
    BY TimesNatural DEF TypeOK, Staged, StagedOf, Request, Times
  <2>3. Stored(now + Ttl) \in Times
    BY <2>2, StoredInTimes
  <2>4. stage \in Stage
    BY DEF Stage
  <2> HIDE DEF now, stage
  <2>5. rows' \in [Tokens -> Row] /\ parent' \in [Tokens -> Tokens \cup {None}]
    BY <2>1, <2>3 DEF TypeOK, Row, Request, UserOf, CurrentOf
  <2>6. requests' \in [Requests -> Request]
    <3>1. requests[r] \in Request
      BY DEF TypeOK
    <3>2. [[requests[r] EXCEPT !.fresh = t] EXCEPT !.stage = stage] \in Request
      BY <3>1, <2>4, FreshType, GotoType
    <3>3. requests' = [requests EXCEPT ![r] = [[requests[r] EXCEPT !.fresh = t]
                                                 EXCEPT !.stage = stage]]
      BY <2>1 DEF TypeOK
    <3> QED
      BY <3>2, <3>3, RequestType
  <2>7. \A s \in Tokens :
          /\ rows'[s].status = "revoked" <=> rows'[s].revokedAt # None
          /\ rows'[s].replacedBy # None => rows'[s].status = "revoked"
    BY <2>1 DEF TypeOK
  <2> QED
    BY <1>5, <2>5, <2>6, <2>7 DEF Insert, TypeOK
<1>6. ASSUME NEW r \in Requests, Save(r)
      PROVE  TypeOK'
  <2>1. Stored(requests[r].now) \in Times /\ Stored(requests[r].now) # None
    BY StoredInTimes, TimesNatural DEF TypeOK, Staged, StagedOf, Request, Times
  <2> DEFINE saved == [rows[CurrentOf(r)] EXCEPT
                         !.status = "revoked", !.revokedAt = Stored(requests[r].now),
                         !.replacedBy = requests[r].fresh]
  <2>2. CurrentOf(r) \in Tokens
    BY <1>6 DEF Save, At, Staged, StagedOf, Known
  <2>3. rows' = [rows EXCEPT ![CurrentOf(r)] = saved]
    BY <1>6, <2>2 DEF Save, TypeOK
  <2>4. rows[CurrentOf(r)] \in Row /\ requests[r].fresh \in Tokens \cup {None}
    BY <2>2 DEF TypeOK, Request
  <2>5. saved \in Row
    BY <2>1, <2>4, RevokedRow
  <2>6. saved.status = "revoked" /\ saved.revokedAt # None
    BY <2>1, <2>4 DEF Row
  <2> HIDE DEF saved
  <2>7. requests' \in [Requests -> Request]
    BY <1>6, GotoType DEF Save, Goto, TypeOK, Stage
  <2>8. rows' \in [Tokens -> Row]
    BY <2>2, <2>3, <2>5 DEF TypeOK
  <2>9. \A s \in Tokens :
          /\ rows'[s].status = "revoked" <=> rows'[s].revokedAt # None
          /\ rows'[s].replacedBy # None => rows'[s].status = "revoked"
    BY <2>2, <2>3, <2>6 DEF TypeOK
  <2> QED
    BY <1>6, <2>7, <2>8, <2>9 DEF TypeOK, Save
<1>7. ASSUME NEW r \in Requests, Send(r)
      PROVE  TypeOK'
  <2>1. requests[r].fresh \in Tokens
    BY <1>7 DEF Send, Lineage, LineageOf, Known
  <2> QED
    BY <1>7, <2>1 DEF TypeOK, Send, End
<1>8. ASSUME NEW r \in Requests, RevokeAll(r)
      PROVE  TypeOK'
  <2>1. Stored(requests[r].now) \in Times /\ Stored(requests[r].now) # None
    BY StoredInTimes, TimesNatural DEF TypeOK, Staged, StagedOf, Request, Times
  <2>2. \A t \in Tokens :
          [rows[t] EXCEPT !.status = "revoked", !.revokedAt = Stored(requests[r].now)]
            \in Row
    BY <2>1, RevokedRow DEF TypeOK
  <2>3. rows' \in [Tokens -> Row]
    BY <1>8, <2>2 DEF RevokeAll, TypeOK
  <2>4. \A t \in Tokens :
          /\ rows'[t].status = "revoked" <=> rows'[t].revokedAt # None
          /\ rows'[t].replacedBy # None => rows'[t].status = "revoked"
    <3> SUFFICES ASSUME NEW t \in Tokens
                 PROVE  /\ rows'[t].status = "revoked" <=> rows'[t].revokedAt # None
                        /\ rows'[t].replacedBy # None => rows'[t].status = "revoked"
      OBVIOUS
    <3>1. CASE t \in LiveOf(UserOf(r))
      <4>1. rows'[t] = [rows[t] EXCEPT !.status = "revoked",
                                       !.revokedAt = Stored(requests[r].now)]
        BY <1>8, <3>1 DEF RevokeAll
      <4> QED
        BY <2>1, <4>1 DEF TypeOK, Row
    <3>2. CASE t \notin LiveOf(UserOf(r))
      <4>1. rows'[t] = rows[t]
        BY <1>8, <3>2 DEF RevokeAll
      <4> QED
        BY <4>1 DEF TypeOK
    <3> QED
      BY <3>1, <3>2
  <2>5. session' \in [Users -> {"in", "out", "overlapped"}]
    BY <1>8 DEF RevokeAll, TypeOK
  <2> QED
    BY <1>8, <2>3, <2>4, <2>5 DEF TypeOK, RevokeAll, End
<1>9. CASE (\E u \in Users : Ban(u)) \/ Crash \/ Tick \/ UNCHANGED vars
  BY <1>9, TimesNatural DEF TypeOK, Ban, Crash, Tick, vars
<1> QED
  BY <1>1, <1>2, <1>3, <1>4, <1>5, <1>6, <1>7, <1>8, <1>9 DEF Next, Step

------------------------------------------------------------------------------
(* What a step does to the rows.                                           *)

\* A row that is there stays, a revoked one stays revoked, and the parent of a
\* token that is there is settled.
LEMMA RowsKeep ==
  ASSUME TypeOK, Staged, [Next]_vars, NEW t \in Tokens
  PROVE  /\ Revoked(t) => Revoked(t)'
         /\ Known(t) => Known(t)' /\ parent'[t] = parent[t]
<1>1. ASSUME NEW r \in Requests, Insert(r)
      PROVE  /\ Revoked(t) => Revoked(t)'
             /\ Known(t) => Known(t)' /\ parent'[t] = parent[t]
  BY <1>1 DEF Insert, TypeOK, Revoked, Known
<1>2. ASSUME NEW r \in Requests, Save(r)
      PROVE  /\ Revoked(t)' <=> (Revoked(t) \/ t = CurrentOf(r))
             /\ Known(t) => Known(t)' /\ parent'[t] = parent[t]
  BY <1>2 DEF Save, At, Staged, StagedOf, Known, TypeOK, Revoked
<1>3. ASSUME NEW r \in Requests, RevokeAll(r)
      PROVE  /\ Revoked(t)' <=> (Revoked(t) \/ t \in LiveOf(UserOf(r)))
             /\ Known(t) => Known(t)' /\ parent'[t] = parent[t]
  BY <1>3 DEF RevokeAll, TypeOK, Revoked, Known, LiveOf, Row
<1>4. CASE UNCHANGED <<rows, parent>>
  BY <1>4 DEF Revoked, Known
<1>5. UNCHANGED <<rows, parent>> \/ \E r \in Requests : Insert(r) \/ Save(r) \/ RevokeAll(r)
  BY DEF Next, Step, BeginRegister, CreateUser, BeginLogin, BeginRefresh, Find, CheckUser, Send,
         BeginLogout, Ban, Crash, Tick, vars
<1> QED
  BY <1>1, <1>2, <1>3, <1>4, <1>5

------------------------------------------------------------------------------
(* What the stage of a request tells.                                      *)

LEMMA InitStaged == Init => Staged
BY TimesNatural DEF Init, Staged, StagedOf, Idle, CurrentOf

LEMMA NextStaged == TypeOK /\ Staged /\ Lineage /\ [Next]_vars => Staged'
<1> SUFFICES ASSUME TypeOK, Staged, Lineage, [Next]_vars, NEW q \in Requests
             PROVE  StagedOf(q)'
  BY DEF Staged
<1> USE DEF StagedOf, UserOf, CurrentOf, At
<1>1. StagedOf(q) /\ requests[q] \in Request /\ clock \in Nat
  BY DEF Staged, TypeOK
<1>2. \A t : Known(t) => Known(t)'
  BY RowsKeep DEF Known
<1>3. CASE requests'[q] = requests[q] /\ clock' \in {clock, clock + 1}
  BY <1>1, <1>2, <1>3 DEF Request, Times
<1>4. CASE requests'[q] = Idle /\ clock' = clock
  BY <1>1, <1>4 DEF Idle
<1>5. ASSUME NEW u \in Users, BeginRegister(q, u) \/ BeginLogin(q, u) \/ BeginLogout(q, u)
      PROVE  StagedOf(q)'
  <2>1. CASE BeginRegister(q, u)
    BY <1>1, <2>1 DEF BeginRegister, Begin, TypeOK, Idle
  <2>2. CASE BeginLogin(q, u)
    BY <1>1, <2>2 DEF BeginLogin, Begin, TypeOK, Idle
  <2>3. CASE BeginLogout(q, u)
    BY <1>1, <2>3 DEF BeginLogout, Begin, TypeOK, Idle
  <2> QED
    BY <1>5, <2>1, <2>2, <2>3
<1>6. ASSUME NEW t \in Tokens, BeginRefresh(q, t)
      PROVE  StagedOf(q)'
  <2>1. Known(t)'
    BY <1>2, <1>6 DEF BeginRefresh, Lineage
  <2> QED
    BY <1>1, <2>1, <1>6 DEF BeginRefresh, Begin, TypeOK, Idle
<1>7. CASE Find(q)
  BY <1>1, <1>2, <1>4, <1>7 DEF Find, Goto, End, TypeOK, Request
<1>8. CASE CreateUser(q) \/ CheckUser(q)
  BY <1>1, <1>2, <1>4, <1>8 DEF CreateUser, CheckUser, Goto, End, TypeOK, Request
<1>9. CASE Insert(q) \/ Save(q)
  <2>1. /\ requests'[q].stage \in {"save", "send"} /\ clock' = clock
        /\ requests[q].stage = "insert" /\ requests[q].op # "refresh"
             => requests'[q].stage = "send"
        /\ requests'[q].op = requests[q].op /\ requests'[q].now = requests[q].now
        /\ requests'[q].token = requests[q].token
    <3>1. CASE Insert(q)
      BY <1>1, <3>1 DEF Insert, TypeOK, Request
    <3>2. CASE Save(q)
      BY <1>1, <3>2 DEF Save, Goto, TypeOK, Request
    <3> QED
      BY <1>9, <3>1, <3>2
  <2>2. requests[q].stage \in {"insert", "save"}
    BY <1>9 DEF Insert, Save
  <2> QED
    BY <1>1, <1>2, <2>1, <2>2
<1>10. CASE Send(q) \/ RevokeAll(q)
  BY <1>4, <1>10 DEF Send, RevokeAll, End, TypeOK
<1>11. ASSUME NEW r \in Requests, r # q,
              \/ Step(r)
              \/ \E u \in Users : BeginRegister(r, u) \/ BeginLogin(r, u) \/ BeginLogout(r, u)
              \/ \E t \in Tokens : BeginRefresh(r, t)
       PROVE  StagedOf(q)'
  <2>1. requests'[q] = requests[q] /\ clock' = clock
    BY <1>11 DEF Step, BeginRegister, CreateUser, BeginLogin, BeginRefresh, Find, CheckUser, Send,
           Insert, Save, RevokeAll, BeginLogout, Begin, Goto, End, TypeOK
  <2> QED
    BY <1>3, <2>1
<1>12. CASE (\E u \in Users : Ban(u)) \/ Crash \/ Tick \/ UNCHANGED vars
  BY <1>3, <1>4, <1>12 DEF Ban, Crash, Tick, vars
<1> QED
  BY <1>5, <1>6, <1>7, <1>8, <1>9, <1>10, <1>11, <1>12 DEF Next, Step

------------------------------------------------------------------------------
(* What a request may count on of the token it inserted.                   *)

LEMMA InitLineage == Init => Lineage
BY DEF Init, Lineage, LineageOf, At, Idle

\* A token that is there and whose parent is revoked stays so.
LEMMA ParentKeeps ==
  ASSUME TypeOK, Staged, [Next]_vars, NEW t, Known(t)
  PROVE  /\ Known(t)' /\ parent'[t] = parent[t]
         /\ ParentRevoked(t) => ParentRevoked(t)'
<1>1. t \in Tokens /\ parent[t] \in Tokens \cup {None}
  BY DEF Known, TypeOK
<1>2. Known(t)' /\ parent'[t] = parent[t]
  BY <1>1, RowsKeep
<1> QED
  BY <1>1, <1>2, RowsKeep DEF ParentRevoked

LEMMA NextLineage == TypeOK /\ Staged /\ Lineage /\ [Next]_vars => Lineage'
<1> SUFFICES ASSUME TypeOK, Staged, Lineage, [Next]_vars PROVE Lineage'
  OBVIOUS
<1>2. ASSUME NEW q \in Requests PROVE LineageOf(q)'
  <2> USE DEF LineageOf, At, CurrentOf
  <2>1. LineageOf(q) /\ StagedOf(q)
    BY DEF Lineage, Staged
  <2>2. CASE requests'[q] = requests[q]
    <3>1. PICK t : t = requests[q].fresh
      OBVIOUS
    <3>2. Known(t) => /\ Known(t)' /\ parent'[t] = parent[t]
                      /\ ParentRevoked(t) => ParentRevoked(t)'
      BY ParentKeeps
    <3> QED
      BY <2>1, <2>2, <3>1, <3>2 DEF Known, ParentRevoked, Revoked
  <2>3. CASE requests'[q].stage \notin {"save", "send"}
    BY <2>3
  <2>4. CASE Insert(q)
    <3>1. PICK t \in Tokens :
            /\ rows'[t].status = "live"
            /\ requests'[q].fresh = t /\ requests'[q].token = requests[q].token
            /\ requests'[q].stage = IF requests[q].op = "refresh" THEN "save" ELSE "send"
            /\ parent'[t] = requests[q].token
      BY <2>4 DEF Insert, TypeOK, Request
    <3> QED
      BY <2>1, <3>1 DEF Known, ParentRevoked, StagedOf
  <2>5. CASE Save(q)
    <3>1. requests[q].stage = "save" /\ rows'[CurrentOf(q)].status = "revoked"
      BY <2>1, <2>5 DEF Save, TypeOK, StagedOf, Known
    <3>2. requests'[q] = [requests[q] EXCEPT !.stage = "send"]
      BY <2>5 DEF Save, Goto, TypeOK
    <3>3. requests'[q].fresh = requests[q].fresh /\ requests'[q].stage = "send"
      BY <3>2 DEF TypeOK, Request
    <3>4. PICK t : t = requests[q].fresh
      OBVIOUS
    <3>5. Known(t)' /\ parent'[t] = CurrentOf(q)
      BY ParentKeeps, <2>1, <3>1, <3>4
    <3> QED
      BY <3>1, <3>3, <3>4, <3>5 DEF ParentRevoked, Revoked, Known
  <2>6. ASSUME NEW r \in Requests, NEW u \in Users,
               BeginRegister(r, u) \/ BeginLogin(r, u) \/ BeginLogout(r, u)
        PROVE  LineageOf(q)'
    <3>1. requests \in [Requests -> Request]
      BY DEF TypeOK
    <3>2. PICK stage \in {"create", "insert", "revokeAll"} :
            requests'[r].stage = stage /\ \A s \in Requests \ {r} : requests'[s] = requests[s]
      <4>1. CASE BeginRegister(r, u)
        BY <3>1, <4>1 DEF BeginRegister, Begin, Idle
      <4>2. CASE BeginLogin(r, u)
        BY <3>1, <4>2 DEF BeginLogin, Begin, Idle
      <4>3. CASE BeginLogout(r, u)
        BY <3>1, <4>3 DEF BeginLogout, Begin, Idle
      <4> QED
        BY <2>6, <4>1, <4>2, <4>3
    <3> QED
      BY <2>2, <2>3, <3>2
  <2>7. ASSUME NEW r \in Requests, NEW t \in Tokens, BeginRefresh(r, t)
        PROVE  LineageOf(q)'
    BY <2>2, <2>3, <2>7 DEF BeginRefresh, Begin, TypeOK, Idle
  <2>8. ASSUME NEW r \in Requests, Step(r)
        PROVE  LineageOf(q)'
    <3>1. CASE r # q
      BY <2>2, <2>8, <3>1 DEF Step, CreateUser, Find, CheckUser, Insert, Save, Send, RevokeAll,
           Goto, End, TypeOK
    <3>2. CASE CreateUser(q) \/ Find(q) \/ CheckUser(q) \/ Send(q) \/ RevokeAll(q)
      <4>1. requests'[q] = Idle \/ \E stage \in {"insert", "user", "revokeAll"} :
                                   requests'[q].stage = stage
        <5>1. requests \in [Requests -> Request]
          BY DEF TypeOK
        <5>2. CASE CreateUser(q) \/ CheckUser(q)
          BY <5>1, <5>2 DEF CreateUser, CheckUser, Goto, End, Request
        <5>3. CASE Find(q)
          BY <5>1, <5>3 DEF Find, Goto, End, Request
        <5>4. CASE Send(q) \/ RevokeAll(q)
          BY <5>1, <5>4 DEF Send, RevokeAll, End
        <5> QED
          BY <3>2, <5>2, <5>3, <5>4
      <4> QED
        BY <2>3, <4>1 DEF Idle
    <3> QED
      BY <2>4, <2>5, <2>8, <3>1, <3>2 DEF Step
  <2>9. CASE (\E u \in Users : Ban(u)) \/ Crash \/ Tick \/ UNCHANGED vars
    BY <2>2, <2>3, <2>9 DEF Ban, Crash, Tick, vars, Idle
  <2> QED
    BY <2>6, <2>7, <2>8, <2>9 DEF Next
<1>3. ASSUME NEW t \in sent' PROVE Known(t)' /\ ParentRevoked(t)'
  <2>1. t \in sent \/ \E r \in Requests : At(r, "send") /\ t = requests[r].fresh
    BY DEF Next, Step, BeginRegister, CreateUser, BeginLogin, BeginRefresh, Find, CheckUser,
         Insert, Save, Send, RevokeAll, BeginLogout, Ban, Crash, Tick, vars
  <2>2. Known(t) /\ ParentRevoked(t)
    BY <2>1 DEF Lineage, LineageOf
  <2> QED
    BY <2>2, ParentKeeps
<1> QED
  BY <1>2, <1>3 DEF Lineage

------------------------------------------------------------------------------
(* Signing out.                                                            *)

LEMMA InitSignedOut == Init => SignedOut
BY DEF Init, SignedOut, SignedOutOf

LEMMA NextSignedOut == TypeOK /\ Staged /\ Lineage /\ SignedOut /\ [Next]_vars => SignedOut'
<1> SUFFICES ASSUME TypeOK, Staged, Lineage, SignedOut, [Next]_vars,
                    NEW u \in Users, session'[u] = "out"
             PROVE  /\ LiveOf(u)' = {}
                    /\ \A q \in Requests :
                         UserOf(q)' = u =>
                           /\ requests'[q].stage \notin {"user", "create", "insert"}
                           /\ At(q, "find")' => Revoked(CurrentOf(q))'
  BY DEF SignedOut, SignedOutOf
<1> USE DEF UserOf, CurrentOf, At
<1>1. /\ requests \in [Requests -> Request] /\ rows \in [Tokens -> Row]
      /\ session \in [Users -> {"in", "out", "overlapped"}]
  BY DEF TypeOK
\* Requests that were past the point, or held a token that still worked, are none.
<1>2. CASE session[u] = "out"
  <2>1. /\ LiveOf(u) = {}
        /\ \A q \in Requests :
             requests[q].user = u =>
               /\ requests[q].stage \notin {"user", "create", "insert"}
               /\ requests[q].stage = "find" => Revoked(requests[q].token)
    BY <1>2 DEF SignedOut, SignedOutOf
  <2>2. LiveOf(u)' = {}
    <3>1. ASSUME NEW r \in Requests, Insert(r) PROVE LiveOf(u)' = {}
      <4>1. requests[r].user # u
        BY <2>1, <3>1 DEF Insert
      <4> QED
        BY <1>1, <2>1, <3>1, <4>1 DEF Insert, LiveOf
    <3>2. ASSUME NEW r \in Requests, Save(r) PROVE LiveOf(u)' = {}
      BY <1>1, <2>1, <3>2 DEF Save, LiveOf, Staged, StagedOf, Known, Row
    <3>3. ASSUME NEW r \in Requests, RevokeAll(r) PROVE LiveOf(u)' = {}
      BY <1>1, <2>1, <3>3 DEF RevokeAll, LiveOf, Row
    <3>4. CASE UNCHANGED rows
      BY <2>1, <3>4 DEF LiveOf
    <3> QED
      BY <3>1, <3>2, <3>3, <3>4
         DEF Next, Step, BeginRegister, CreateUser, BeginLogin, BeginRefresh, Find, CheckUser,
             Send, BeginLogout, Ban, Crash, Tick, vars
  <2>3. ASSUME NEW q \in Requests, requests'[q].user = u
        PROVE  /\ requests'[q].stage \notin {"user", "create", "insert"}
               /\ requests'[q].stage = "find" => rows'[requests'[q].token].status = "revoked"
    <3>1. StagedOf(q) /\ LineageOf(q)
      BY DEF Staged, Lineage
    <3>2. CASE requests'[q] = requests[q]
      <4>1. PICK t : t = requests[q].token
        OBVIOUS
      <4>2. requests[q].stage = "find" => Known(t) /\ Revoked(t)
        BY <2>1, <2>3, <3>1, <3>2, <4>1 DEF StagedOf
      <4>3. requests[q].stage = "find" => Revoked(t)'
        BY <4>2, RowsKeep DEF Known
      <4> QED
        BY <2>1, <2>3, <3>2, <4>1, <4>3 DEF Revoked
    <3>3. CASE requests'[q].stage \notin {"find", "user", "create", "insert"}
      BY <3>3
    <3>4. ASSUME NEW r \in Requests, NEW v \in Users,
                 BeginRegister(r, v) \/ BeginLogin(r, v) \/ BeginLogout(r, v)
          PROVE  r # q \/ requests'[q].stage = "revokeAll"
      <4>1. ASSUME r = q, BeginRegister(q, v) PROVE FALSE
        BY <1>1, <2>3, <4>1 DEF BeginRegister, Begin, Idle
      <4>2. ASSUME r = q, BeginLogin(q, v) PROVE FALSE
        BY <1>1, <2>3, <4>2 DEF BeginLogin, Begin, Idle
      <4>3. ASSUME r = q, BeginLogout(q, v) PROVE requests'[q].stage = "revokeAll"
        BY <1>1, <4>3 DEF BeginLogout, Begin, Idle
      <4> QED
        BY <3>4, <4>1, <4>2, <4>3
    <3>5. ASSUME NEW t \in Tokens, BeginRefresh(q, t)
          PROVE  requests'[q].stage = "find" /\ rows'[requests'[q].token].status = "revoked"
      <4>1. requests'[q].stage = "find" /\ requests'[q].token = t /\ rows' = rows
        BY <1>1, <3>5 DEF BeginRefresh, Begin, Idle
      <4>2. rows[t].user = u /\ Known(t)
        BY <1>1, <2>3, <3>5 DEF BeginRefresh, Begin, Idle, Lineage
      <4>3. rows[t].status = "revoked"
        BY <1>1, <2>1, <4>2 DEF LiveOf, Known, Row
      <4> QED
        BY <4>1, <4>3 DEF Revoked
    <3>6. CASE Find(q) \/ CreateUser(q) \/ CheckUser(q) \/ Insert(q) \/ Save(q) \/ Send(q)
                 \/ RevokeAll(q)
      <4>1. CASE CreateUser(q) \/ CheckUser(q) \/ Insert(q)
        <5>1. requests[q] \in Request
          BY <1>1
        <5>2. requests'[q] = Idle \/ requests'[q].user = requests[q].user
          <6>1. CASE CreateUser(q) \/ CheckUser(q)
            BY <1>1, <5>1, <6>1 DEF CreateUser, CheckUser, Goto, End, Request
          <6>2. CASE Insert(q)
            BY <1>1, <5>1, <6>2 DEF Insert, Request
          <6> QED
            BY <4>1, <6>1, <6>2
        <5>3. requests[q].stage \in {"user", "create", "insert"}
          BY <4>1 DEF CreateUser, CheckUser, Insert
        <5> QED
          BY <2>1, <2>3, <5>2, <5>3 DEF Idle
      <4>2. CASE Find(q)
        BY <1>1, <2>1, <2>3, <4>2 DEF Find, Goto, End, Idle, Request, Revoked
      <4>3. CASE Save(q) \/ Send(q) \/ RevokeAll(q)
        <5>1. requests'[q] = Idle \/ requests'[q].stage = "send"
          BY <1>1, <4>3 DEF Save, Send, RevokeAll, Goto, End, Request
        <5> QED
          BY <5>1 DEF Idle
      <4> QED
        BY <3>6, <4>1, <4>2, <4>3
    <3>7. CASE (\E v \in Users : Ban(v)) \/ Crash \/ Tick \/ UNCHANGED vars
      BY <3>2, <3>3, <3>7 DEF Ban, Crash, Tick, vars, Idle
    <3>8. ASSUME NEW r \in Requests, r # q,
                 \/ Step(r)
                 \/ \E v \in Users : BeginRegister(r, v) \/ BeginLogin(r, v) \/ BeginLogout(r, v)
                 \/ \E t \in Tokens : BeginRefresh(r, t)
          PROVE  requests'[q] = requests[q]
      BY <1>1, <3>8 DEF Step, BeginRegister, CreateUser, BeginLogin, BeginRefresh, Find, CheckUser,
         Send, Insert, Save, RevokeAll, BeginLogout, Begin, Goto, End
    <3> QED
      BY <3>2, <3>3, <3>4, <3>5, <3>6, <3>7, <3>8 DEF Next, Step
  <2> QED
    BY <2>2, <2>3 DEF Revoked
\* The last of them ended before: RevokeAll signs a user out only then.
<1>3. CASE session[u] # "out"
  <2>1. PICK r \in Requests : RevokeAll(r) /\ requests[r].user = u
    BY <1>1, <1>3 DEF Next, Step, BeginRegister, CreateUser, BeginLogin, BeginRefresh, Find,
       CheckUser, Send, Insert, Save, RevokeAll, BeginLogout, Ban, Crash, Tick, vars
  <2>2. IssuingFor(u, {"register", "login"}) = {} /\ IssuingFor(u, {"refresh"}) = {}
    BY <1>1, <1>3, <2>1 DEF RevokeAll
  <2>3. LiveOf(u)' = {}
    BY <1>1, <2>1 DEF RevokeAll, LiveOf, Row
  <2>4. ASSUME NEW q \in Requests, requests'[q].user = u, q # r
        PROVE  requests'[q].stage \notin {"find", "user", "create", "insert"}
    <3>1. requests'[q] = requests[q] /\ StagedOf(q)
      BY <1>1, <2>1, <2>4 DEF RevokeAll, End, Staged
    <3>2. requests[q].op \notin {"register", "login", "refresh"}
            \/ requests[q].stage \notin {"find", "user", "create", "insert"}
      BY <2>2, <2>4, <3>1 DEF IssuingFor, Issuing
    <3> QED
      BY <3>1, <3>2 DEF StagedOf
  <2>5. requests'[r] = Idle
    BY <1>1, <2>1 DEF RevokeAll, End
  <2> QED
    BY <2>3, <2>4, <2>5 DEF Idle, Revoked
<1> QED
  BY <1>2, <1>3

------------------------------------------------------------------------------
(* The theorems.                                                           *)

LEMMA Initially == Init => Inductive
BY InitType, InitStaged, InitLineage, InitSignedOut DEF Inductive

LEMMA NextKeeps == Inductive /\ [Next]_vars => Inductive'
BY NextType, NextStaged, NextLineage, NextSignedOut DEF Inductive

\* For any users, tokens and overlapping requests, cut short anywhere by a crash: the
\* rows are well formed.
THEOREM TypeTheorem == Spec => []TypeOK
<1>1. Inductive => TypeOK
  BY DEF Inductive
<1> QED
  BY <1>1, Initially, NextKeeps, PTL DEF Spec

\* No client ever holds a new token while the one it was exchanged for still works.
THEOREM RotationTheorem == Spec => []RotatedBeforeSent
<1>1. Inductive => RotatedBeforeSent
  BY DEF Inductive, Lineage, ParentRevoked, Revoked, RotatedBeforeSent
<1> QED
  BY <1>1, Initially, NextKeeps, PTL DEF Spec

\* A logout or a detected reuse that no issuing request overlaps leaves the user without
\* a working token until the next login.
THEOREM SignOutTheorem == Spec => []SignedOutStaysOut
<1>1. Inductive => SignedOutStaysOut
  BY DEF Inductive, SignedOut, SignedOutOf, SignedOutStaysOut
<1> QED
  BY <1>1, Initially, NextKeeps, PTL DEF Spec

\* Revoked tokens stay revoked, in spite of the row that rotate saves as it read it.
THEOREM RevocationTheorem == Spec => RevokedForGood
<1>1. Inductive /\ [Next]_vars => [KeepsRevoked]_vars
  BY RowsKeep DEF Inductive, KeepsRevoked, Revoked
<1> QED
  BY <1>1, Initially, NextKeeps, PTL DEF Spec, RevokedForGood

\* A token is revoked by its exchange, a logout of its user, or a reuse outside the grace
\* window, and by nothing else.
THEOREM ReasonTheorem == Spec => RevokedForAReason
<1>1. Inductive /\ [Next]_vars => [HasReason]_vars
  <2> SUFFICES ASSUME Inductive, Next, NEW t \in Tokens,
                      rows[t].status = "live", rows'[t].status = "revoked"
               PROVE  \E r \in Requests :
                        \/ requests[r].stage = "save" /\ CurrentOf(r) = t
                        \/ /\ requests[r].stage = "revokeAll"
                           /\ UserOf(r) = rows[t].user
                           /\ \/ requests[r].op = "logout"
                              \/ ~WithinGrace(requests[r].seen, requests[r].now)
    BY DEF HasReason
  <2>1. rows \in [Tokens -> Row]
    BY DEF Inductive, TypeOK
  <2>2. PICK r \in Requests : Insert(r) \/ Save(r) \/ RevokeAll(r)
    BY DEF Next, Step, BeginRegister, CreateUser, BeginLogin, BeginRefresh, Find, CheckUser, Send,
       BeginLogout, Ban, Crash, Tick
  <2>3. ~Insert(r)
    BY <2>1 DEF Insert
  <2>4. CASE Save(r)
    BY <2>1, <2>4 DEF Save, At
  <2>5. CASE RevokeAll(r)
    <3>1. t \in LiveOf(UserOf(r)) /\ requests[r].stage = "revokeAll"
      BY <2>1, <2>5 DEF RevokeAll, At
    <3> QED
      BY <3>1 DEF LiveOf, Inductive, Staged, StagedOf
  <2> QED
    BY <2>2, <2>3, <2>4, <2>5
<1> QED
  BY <1>1, Initially, NextKeeps, PTL DEF Spec, RevokedForAReason
==============================================================================
