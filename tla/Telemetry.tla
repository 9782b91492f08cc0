------------------------------ MODULE Telemetry ------------------------------
(***************************************************************************)
(* The analytics client (analytics/client.ts): the choice to take part, in *)
(* memory and stored, the SDK it switches on and off, and the identity     *)
(* that events are attributed to.                                          *)
(*                                                                         *)
(* Switching the SDK takes several awaits.  The start of the app and each  *)
(* use of the switch in the settings is a call in some stage of that; the  *)
(* settings screen keeps its own switch from being used twice, but a user  *)
(* can leave it and come back.  The build is one with an SDK key.          *)
(*                                                                         *)
(* Every call of the SDK can fail, and one that rejects may have had its   *)
(* effect all the same.                                                    *)
(***************************************************************************)
EXTENDS Integers, Sequences, FiniteSets

CONSTANTS
  Toggles,      \* uses of the switch that can be under way at the same time
  Boot,         \* the call of initAnalytics
  Users, None,
  MaxKills      \* bound: restarts of the app

VARIABLES
  stored,       \* the stored choice to take part
  enabled,      \* preferenceEnabled, which the settings show
  capture,      \* captureEnabled
  sdk,          \* PostHog: is there an instance, has it opted in, does it record
  user,         \* the auth store
  desired,      \* desiredUserId
  applied,      \* appliedUserId
  calls,        \* the calls under way
  queue,        \* preferenceWriteQueue: whose write comes next
  latest,       \* preferenceGeneration: the call that used the switch last
  asked,        \* what that call asked for
  outcome,      \* what became of the write of that call
  raced,        \* the switch has been used while another call was under way
  slips,        \* failures nothing has made up for: "recording", "identity"
  kills

identity == <<user, desired, applied>>
choice == <<stored, enabled>>
switch == <<queue, latest, asked, outcome, raced>>
vars == <<choice, capture, sdk, identity, calls, switch, slips, kills>>

Callers == Toggles \cup {Boot}
Free == [stage |-> "free", want |-> FALSE, previous |-> FALSE, back |-> FALSE]
Started == [Free EXCEPT !.stage = "read"]
Under == {c \in Callers : calls[c].stage # "free"}

------------------------------------------------------------------------------
(* Switching the SDK: applyPostHogEnabled and applyIdentity.               *)

\* What applyIdentity leaves in appliedUserId.
Applied(wanted, capturing, made) ==
  IF made /\ applied # wanted THEN (IF capturing THEN wanted ELSE None) ELSE applied

\* It throws in reset or identify: appliedUserId is then as it was, or reset before identify.
Refuses(wanted, capturing) == sdk.made /\ applied # wanted /\ (capturing \/ applied # None)
Interrupted(wanted, capturing) ==
  {applied} \cup (IF capturing /\ wanted # None THEN {None} ELSE {})

\* The first statements, up to the first await; the SDK is `now`, captureEnabled `capturing`.
Apply(c, on, back, now, capturing) ==
  /\ sdk' = [now EXCEPT !.made = @ \/ on]
  /\ calls' = [calls EXCEPT
       ![c] = IF on \/ now.made
              THEN [@ EXCEPT !.stage = IF on THEN "optIn" ELSE "stop", !.back = back]
              ELSE Free]
  /\ capture' = (on /\ capturing)

\* What the SDK may be after the call that c awaits has rejected.
Failed(c) ==
  {sdk, CASE calls[c].stage = "optIn"  -> [sdk EXCEPT !.in = TRUE]
          [] calls[c].stage = "record" -> [sdk EXCEPT !.recording = TRUE]
          [] calls[c].stage = "stop"   -> [sdk EXCEPT !.recording = FALSE]
          [] calls[c].stage = "optOut" -> [sdk EXCEPT !.in = FALSE]}

OptIn(c) ==
  /\ calls[c].stage = "optIn"
  /\ sdk' = [sdk EXCEPT !.in = TRUE]
  /\ calls' = [calls EXCEPT ![c].stage = "record"]
  /\ UNCHANGED <<choice, capture, identity, switch, slips, kills>>

\* The app follows the auth store once the analytics are there.
Desired(c) == IF c = Boot THEN user ELSE desired

\* Mutant of Record: the identity is left as it is.
RecordAnonymously(c) ==
  /\ calls[c].stage = "record"
  /\ sdk' = [sdk EXCEPT !.recording = TRUE]
  /\ capture' = TRUE
  /\ desired' = Desired(c)
  /\ calls' = [calls EXCEPT ![c] = Free]
  /\ slips' = {}
  /\ UNCHANGED <<choice, user, applied, switch, kills>>

\* The recording has started: events flow, under the user's name.
Record(c) ==
  /\ calls[c].stage = "record"
  /\ sdk' = [sdk EXCEPT !.recording = TRUE]
  /\ capture' = TRUE
  /\ desired' = Desired(c)
  /\ applied' = Applied(Desired(c), TRUE, sdk.made)
  /\ calls' = [calls EXCEPT ![c] = Free]
  /\ slips' = {}
  /\ UNCHANGED <<choice, user, switch, kills>>

Stop(c) ==
  /\ calls[c].stage = "stop"
  /\ sdk' = [sdk EXCEPT !.recording = FALSE]
  /\ calls' = [calls EXCEPT ![c].stage = "optOut"]
  /\ slips' = slips \ {"recording"}
  /\ UNCHANGED <<choice, capture, identity, switch, kills>>

OptOut(c) ==
  /\ calls[c].stage = "optOut"
  /\ sdk' = [sdk EXCEPT !.in = FALSE]
  /\ calls' = [calls EXCEPT ![c] = Free]
  /\ UNCHANGED <<choice, capture, identity, switch, slips, kills>>

------------------------------------------------------------------------------
(* initAnalytics                                                           *)

\* The stored choice is read, or cannot be; it overwrites the one in memory.
Read(on) ==
  /\ calls[Boot].stage = "read"
  /\ enabled' = on
  /\ IF on
     THEN Apply(Boot, TRUE, FALSE, sdk, capture) /\ UNCHANGED identity
     ELSE /\ capture' = FALSE
          /\ calls' = [calls EXCEPT ![Boot] = Free]
          /\ desired' = user
          /\ applied' = Applied(user, FALSE, sdk.made)
          /\ UNCHANGED <<user, sdk>>
  /\ UNCHANGED <<stored, switch, slips, kills>>

ReadStored == Read(stored)
ReadFails == Read(FALSE)

\* The SDK cannot be switched on: this run of the app does without.  The instance is dropped
\* as it is, which is a slip if it has begun to record.
BootFails ==
  /\ calls[Boot].stage \in {"optIn", "record"}
  /\ \E now \in Failed(Boot) :
       /\ sdk' = [now EXCEPT !.made = FALSE]
       /\ slips' = slips \cup {s \in {"recording"} : now.recording}
  /\ capture' = FALSE
  /\ desired' = user
  /\ calls' = [calls EXCEPT ![Boot] = Free]
  /\ UNCHANGED <<choice, user, applied, switch, kills>>

------------------------------------------------------------------------------
(* setTelemetryEnabled                                                     *)

Toggle(t) ==
  /\ calls[t] = Free
  /\ enabled' = ~enabled
  /\ capture' = ~enabled
  /\ calls' = [calls EXCEPT ![t] = [stage |-> "queued", want |-> ~enabled,
                                     previous |-> enabled, back |-> FALSE]]
  /\ queue' = Append(queue, t)
  /\ latest' = t /\ asked' = ~enabled
  /\ outcome' = "pending"
  /\ raced' = (raced \/ Under # {})
  /\ UNCHANGED <<stored, sdk, identity, slips, kills>>

\* Mutant of Writes: they run when they like.
WritesUnqueued(t) == calls[t].stage = "queued"

\* The writes run one after the other, in the order of the calls.
Writes(t) == calls[t].stage = "queued" /\ Head(queue) = t

Place(t) == CHOOSE i \in DOMAIN queue : queue[i] = t
Dequeued(t) == [i \in 1..(Len(queue) - 1) |-> queue[IF i < Place(t) THEN i ELSE i + 1]]

\* The choice is stored.  A call that has been superseded leaves the SDK alone.
Write(t) ==
  /\ Writes(t)
  /\ stored' = calls[t].want
  /\ queue' = Dequeued(t)
  /\ IF t = latest
     THEN Apply(t, calls[t].want, FALSE, sdk, capture) /\ outcome' = "stored"
     ELSE calls' = [calls EXCEPT ![t] = Free] /\ UNCHANGED <<sdk, capture, outcome>>
  /\ UNCHANGED <<enabled, identity, latest, asked, raced, slips, kills>>

GoesBack(t) == t = latest /\ ~calls[t].back

\* Mutant of RollBack: only the switch goes back.
RollBackShown(t, now, capturing) ==
  /\ sdk' = now /\ capture' = capturing /\ calls' = [calls EXCEPT ![t] = Free]
  /\ enabled' = (IF GoesBack(t) THEN calls[t].previous ELSE enabled)

\* An error: the latest call goes back to what was before it, once.  The error of a call that
\* has been superseded or is going back leaves things as they are.
RollBack(t, now, capturing) ==
  IF GoesBack(t)
  THEN enabled' = calls[t].previous /\ Apply(t, calls[t].previous, TRUE, now, capturing)
  ELSE /\ sdk' = now /\ capture' = capturing /\ calls' = [calls EXCEPT ![t] = Free]
       /\ UNCHANGED enabled

WriteFails(t) ==
  /\ Writes(t)
  /\ queue' = Dequeued(t)
  /\ outcome' = (IF t = latest THEN "failed" ELSE outcome)
  /\ RollBack(t, sdk, capture)
  /\ UNCHANGED <<stored, identity, latest, asked, raced, slips, kills>>

\* Nobody makes up for a stop that fails while going back.
SwitchFails(t) ==
  /\ calls[t].stage \in {"optIn", "record", "stop", "optOut"}
  /\ \E now \in Failed(t) :
       /\ RollBack(t, now, capture)
       /\ slips' = slips \cup {s \in {"recording"} :
                               calls[t].stage = "stop" /\ now.recording /\ ~GoesBack(t)}
  /\ UNCHANGED <<stored, identity, switch, kills>>

\* The recording has started when applyIdentity throws.  (At the start of the app it is the
\* identity applied after it, whose error is dropped: the start has nothing to go back to.)
IdentityFails(c) ==
  /\ calls[c].stage = "record" /\ Refuses(Desired(c), TRUE)
  /\ desired' = Desired(c)
  /\ applied' \in Interrupted(Desired(c), TRUE)
  /\ RollBack(c, [sdk EXCEPT !.recording = TRUE], TRUE)
  /\ slips' = slips \cup {"identity"}
  /\ UNCHANGED <<stored, user, switch, kills>>

------------------------------------------------------------------------------
(* The rest of the app.                                                    *)

Ready == calls[Boot] = Free

\* The auth store has another user; App.tsx hears of it once it has subscribed.
SyncUserIdentity(u) ==
  /\ user' = u
  /\ IF Ready
     THEN /\ desired' = u
          /\ applied' = Applied(u, capture, sdk.made)
          /\ sdk' = [sdk EXCEPT !.in = @ /\ ~(sdk.made /\ ~capture /\ applied \notin {None, u})]
          /\ slips' = IF sdk.made THEN slips \ {"identity"} ELSE slips
     ELSE UNCHANGED <<desired, applied, sdk, slips>>

\* The SDK throws, and the error is dropped.
SyncFails(u) ==
  /\ Ready /\ Refuses(u, capture)
  /\ user' = u /\ desired' = u
  /\ applied' \in Interrupted(u, capture)
  /\ slips' = slips \cup {"identity"}
  /\ UNCHANGED sdk

Changes(u) ==
  /\ u # user /\ (SyncUserIdentity(u) \/ SyncFails(u))
  /\ UNCHANGED <<choice, capture, calls, switch, kills>>

SignIn == \E u \in Users : Changes(u)
SignOut == Changes(None)

\* The process dies; what is stored stays, and whether the SDK has opted in.
Kill ==
  /\ kills < MaxKills
  /\ kills' = kills + 1
  /\ enabled' = TRUE /\ capture' = FALSE
  /\ sdk' = [sdk EXCEPT !.made = FALSE, !.recording = FALSE]
  /\ user' = None /\ desired' = None /\ applied' = None
  /\ calls' = [c \in Callers |-> IF c = Boot THEN Started ELSE Free]
  /\ queue' = <<>> /\ latest' = None /\ asked' = TRUE /\ outcome' = "none" /\ raced' = FALSE
  /\ slips' = {}
  /\ UNCHANGED stored

Init ==
  /\ stored = TRUE /\ enabled = TRUE /\ capture = FALSE
  /\ sdk = [made |-> FALSE, in |-> FALSE, recording |-> FALSE]
  /\ user = None /\ desired = None /\ applied = None
  /\ calls = [c \in Callers |-> IF c = Boot THEN Started ELSE Free]
  /\ queue = <<>> /\ latest = None /\ asked = TRUE /\ outcome = "none" /\ raced = FALSE
  /\ slips = {} /\ kills = 0

Next ==
  \/ \E c \in Callers : OptIn(c) \/ Record(c) \/ IdentityFails(c) \/ Stop(c) \/ OptOut(c)
  \/ ReadStored \/ ReadFails \/ BootFails
  \/ \E t \in Toggles : Toggle(t) \/ Write(t) \/ WriteFails(t) \/ SwitchFails(t)
  \/ SignIn \/ SignOut
  \/ Kill

Spec == Init /\ [][Next]_vars

------------------------------------------------------------------------------
(* Properties.                                                             *)

TypeOK ==
  /\ stored \in BOOLEAN /\ enabled \in BOOLEAN /\ capture \in BOOLEAN /\ raced \in BOOLEAN
  /\ sdk \in [made : BOOLEAN, in : BOOLEAN, recording : BOOLEAN]
  /\ {user, desired, applied} \subseteq Users \cup {None}
  /\ \A c \in Callers : calls[c].stage \in
        {"free", "read", "queued", "optIn", "record", "stop", "optOut"}
  /\ {queue[i] : i \in DOMAIN queue} = {t \in Toggles : calls[t].stage = "queued"}
  /\ asked \in BOOLEAN /\ slips \subseteq {"recording", "identity"}
  /\ latest \in Toggles \cup {None} /\ outcome \in {"none", "pending", "stored", "failed"}
  /\ kills \in 0..MaxKills

\* README.md:206.  Once the switch has come to rest at off, no event leaves, and nothing is
\* recorded, through failed writes, failing switches and restarts; provided that the switch
\* was not used while the start of the app or an earlier use was still under way, where the
\* code has a gap.  The recording goes on in two cases only: the SDK could not be stopped when
\* a failed switch went back to off, or the start of the app was given up with the recording
\* begun; and then until the next switch that works, or a restart.
OffMeansOff ==
  ~enabled /\ Under = {} /\ ~raced => ~capture /\ (sdk.recording => "recording" \in slips)

\* The choice that survives a restart is the last one made, if it could be stored, however
\* fast the switch is used and whatever fails before.
LastChoiceStored == outcome = "stored" => stored = asked

\* Events that flow are attributed to whoever is signed in, in whatever order people sign
\* in and out and switch the analytics off and on; under the same proviso, and unless the SDK
\* refused the name when it last had to take one over.
EventsBelongToUser ==
  Under = {} /\ ~raced /\ capture /\ sdk.made /\ "identity" \notin slips => applied = user
==============================================================================
