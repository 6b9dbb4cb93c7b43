------------------------------ MODULE Profiles ------------------------------
(***************************************************************************)
(* The profile authority: which user of the device is active, as the       *)
(* session manager tells it over D-Bus, and what that means for requests.  *)
(*                                                                         *)
(* Three threads of the daemon meet here.  The main thread runs the        *)
(* authority, the database thread runs barriers and requests, the I/O      *)
(* thread sends the replies.  They share only the ProfileState: a          *)
(* generation that every Fence raises, and the active user while ready.    *)
(*                                                                         *)
(* The manager is external.  It changes the user when it announces a       *)
(* switch, and does not wait for its clients for ever.                     *)
(***************************************************************************)
EXTENDS Naturals, Sequences, FiniteSets

CONSTANTS
    Users,        \* users with a profile binding
    NoUser,
    FirstUsers,   \* users that may be active when the daemon starts
    MaxSwitches, MaxRemovals,   \* bounds on what the manager does
    MaxTroubles,  \* bound on manager restarts, lost replies, failed connections, stops,
                  \* and refused or failed barriers and compensations
    MaxRequests   \* bound on requests

ASSUME ProfilesAssumption == NoUser \notin Users /\ FirstUsers \subseteq Users

VARIABLES
    manager,  \* its user, the incarnation of each user, its running switch
    bus,      \* signals and replies on their way to the daemon
    calls,    \* method calls on their way to the manager
    auth,     \* the authority
    state,    \* ProfileState
    dbq,      \* barriers submitted to the database thread
    dones,    \* results of barriers posted to the main thread
    work,     \* the request the database thread is serving
    grants,   \* per user, the live PERSISTENT grant of the profile: the incarnation of
              \* the user who gave it, and whether the profile was fenced by then
    broken,   \* profile_compensation_failed_
    out,      \* approval-sensitive replies the I/O thread holds
    sent,     \* those it has sent
    missed,   \* users whose removal no barrier has retired
    failed,   \* a barrier or a compensation has failed
    budget    \* what is left of the bounds

vars == <<manager, bus, calls, auth, state, dbq, dones, work, grants, broken, out, sent,
          missed, failed, budget>>

NoSwitch == [id |-> 0, from |-> NoUser, to |-> NoUser]
Switch == [id: Nat, from: Users \cup {NoUser}, to: Users \cup {NoUser}]

Methods == {"SwitchUserWait", "RemoveUserWait", "GetCurrentUser", "RemoveUserDone",
            "SwitchUserDone"}
Call == [method: Methods, why: {"initial", "removal", "switch"}, generation: Nat]
Signal == [kind: {"started", "completed"}, switch: Switch]
             \cup [kind: {"removing"}, user: Users] \cup [kind: {"vanished"}]
ReplyTo == [kind: {"reply"}, call: Call, user: Users] \cup [kind: {"noReply"}, call: Call]

Continuation == [kind: {"lose", "read", "remove", "switch"}, generation: Nat,
                 user: Users \cup {NoUser}]

NoGrant == [incarnation |-> 0, raced |-> FALSE]
Idle == [at |-> "idle", user |-> NoUser, generation |-> 0, granted |-> FALSE]

TypeOK ==
    /\ manager \in [user: Users, incarnation: [Users -> Nat], switch: Switch]
    /\ bus \in Seq(Signal \cup ReplyTo) /\ calls \in Seq(Call)
    /\ auth \in [link: {"down", "connecting", "watching", "stopped"},
                 initialized: BOOLEAN, synchronized: BOOLEAN, active: Users \cup {NoUser},
                 pending: Switch, barrierDone: BOOLEAN, acknowledged: BOOLEAN,
                 completed: BOOLEAN, timer: {"none", "retry", "switch"}]
    /\ state \in [generation: Nat, ready: BOOLEAN, user: Users \cup {NoUser}]
    /\ dbq \in Seq([retire: BOOLEAN, removed: Users \cup {NoUser}, then: Continuation])
    /\ dones \in Seq([then: Continuation, success: BOOLEAN])
    /\ work \in [at: {"idle", "captured", "checked", "admitted", "committed", "final"},
                 user: Users \cup {NoUser}, generation: Nat, granted: BOOLEAN]
    /\ grants \in [Users -> [incarnation: Nat, raced: BOOLEAN]]
    /\ broken \in BOOLEAN
    /\ out \in Seq([user: Users, generation: Nat])
    /\ sent \subseteq [user: Users, generation: Nat]
    /\ missed \subseteq Users /\ failed \in BOOLEAN
    /\ budget \in [switches: Nat, removals: Nat, troubles: Nat, requests: Nat]

(* The daemon has started over a database with grants of users that were   *)
(* removed while it was down.                                              *)
Init ==
    /\ \E u \in FirstUsers :
          manager = [user |-> u, incarnation |-> [v \in Users |-> 2], switch |-> NoSwitch]
    /\ bus = <<>> /\ calls = <<>>
    /\ auth = [link |-> "connecting", initialized |-> FALSE, synchronized |-> FALSE,
               active |-> NoUser, pending |-> NoSwitch, barrierDone |-> FALSE,
               acknowledged |-> FALSE, completed |-> FALSE, timer |-> "none"]
    /\ state = [generation |-> 1, ready |-> FALSE, user |-> NoUser]
    /\ dbq = <<>> /\ dones = <<>> /\ work = Idle
    /\ grants = [u \in Users |-> [incarnation |-> 1, raced |-> FALSE]]
    /\ broken = FALSE /\ out = <<>> /\ sent = {} /\ missed = {} /\ failed = FALSE
    /\ budget = [switches |-> MaxSwitches, removals |-> MaxRemovals,
                 troubles |-> MaxTroubles, requests |-> MaxRequests]

-----------------------------------------------------------------------------
(* The main thread works on a view of what it may change.                  *)
View == [auth |-> auth, state |-> state, bus |-> bus, calls |-> calls, dbq |-> dbq,
         dones |-> dones, missed |-> missed, failed |-> failed, budget |-> budget]

Set(k) ==
    /\ auth' = k.auth /\ state' = k.state /\ bus' = k.bus /\ calls' = k.calls
    /\ dbq' = k.dbq /\ dones' = k.dones /\ missed' = k.missed /\ failed' = k.failed
    /\ budget' = k.budget
    /\ UNCHANGED <<manager, work, grants, broken, out, sent>>

Trouble == budget.troubles > 0
Spent == [budget EXCEPT !.troubles = @ - 1]

Fence(s) == [s EXCEPT !.ready = FALSE, !.generation = @ + 1]
Fenced(k) == [k EXCEPT !.state = Fence(@)]

(* ProfileState::Activate.                                                 *)
Activate(s, generation, user) ==
    IF generation = s.generation THEN [s EXCEPT !.ready = TRUE, !.user = user] ELSE s

Check(user) == state.ready /\ state.user = user

(* The server's barrier: a job for the database thread.  When it is not    *)
(* admitted the state is fenced and the continuation told; as the fence    *)
(* changed the generation, no continuation then does anything.             *)
Barrier(k, retire, removed, kind, user) ==
    {[k EXCEPT !.dbq = Append(@, [retire |-> retire, removed |-> removed,
         then |-> [kind |-> kind, generation |-> k.state.generation, user |-> user]])]}
    \cup IF k.budget.troubles = 0 THEN {}
         ELSE {[Fenced(k) EXCEPT !.budget.troubles = @ - 1, !.failed = TRUE,
                                 !.missed = @ \cup ({removed} \ {NoUser})]}

(* Lose: everything known of the manager is given up with the connection;  *)
(* a barrier retires every approval before the next attempt.               *)
Lose(k) ==
    Barrier([Fenced(k) EXCEPT
                !.auth.link = "down", !.auth.timer = "none", !.auth.initialized = FALSE,
                !.auth.synchronized = FALSE, !.auth.pending = NoSwitch,
                !.auth.barrierDone = FALSE, !.bus = <<>>, !.calls = <<>>],
            TRUE, NoUser, "lose", NoUser)

Method(k, method, why) ==
    [k EXCEPT !.calls = Append(@, [method |-> method, why |-> why,
                                   generation |-> k.state.generation])]

Read(k, why) == Method(k, "GetCurrentUser", why)

(* A switch is over when the manager said so and took the acknowledgement. *)
ReadWhenOver(k) == IF k.auth.acknowledged /\ k.auth.completed THEN Read(k, "switch") ELSE k

-----------------------------------------------------------------------------
(* Signals and replies.                                                    *)
OnRemoveUserStarted(k, user) ==
    IF ~k.auth.synchronized THEN Lose(k)
    ELSE Barrier(Fenced(k), FALSE, user, "remove", NoUser)

(* Mutant of OnSwitchUserStarted: nothing bounds the switch.               *)
OnSwitchUserStartedUntimed(k, s) ==
    IF ~k.auth.synchronized THEN Lose(k)
    ELSE LET f == Fenced(k)
         IN IF f.auth.pending # NoSwitch \/ f.auth.active # s.from THEN Lose(f)
            ELSE Barrier([f EXCEPT !.auth.pending = s, !.auth.barrierDone = FALSE,
                                   !.auth.acknowledged = FALSE, !.auth.completed = FALSE],
                         FALSE, NoUser, "switch", NoUser)

OnSwitchUserStarted(k, s) ==
    IF ~k.auth.synchronized THEN Lose(k)
    ELSE LET f == Fenced(k)
         IN IF f.auth.pending # NoSwitch \/ f.auth.active # s.from THEN Lose(f)
            ELSE Barrier([f EXCEPT !.auth.pending = s, !.auth.barrierDone = FALSE,
                                   !.auth.acknowledged = FALSE, !.auth.completed = FALSE,
                                   !.auth.timer = "switch"],
                         FALSE, NoUser, "switch", NoUser)

OnSwitchUserCompleted(k, s) ==
    IF ~k.auth.synchronized \/ k.auth.pending # s \/ ~k.auth.barrierDone THEN Lose(k)
    ELSE {ReadWhenOver([k EXCEPT !.auth.completed = TRUE])}

(* A reply counts only if nothing was fenced since the call.               *)
OnMethodFinished(k, m) ==
    IF m.call.generation # k.state.generation THEN {k}
    ELSE IF m.kind = "noReply" THEN Lose(k)
    ELSE CASE m.call.method = "SwitchUserWait" -> {Method(k, "RemoveUserWait", "initial")}
           [] m.call.method = "RemoveUserWait" -> {Read(k, "initial")}
           [] m.call.method = "RemoveUserDone" -> {Read(k, "removal")}
           [] m.call.method = "SwitchUserDone" ->
                 {ReadWhenOver([k EXCEPT !.auth.acknowledged = TRUE])}
           [] OTHER ->   \* GetCurrentUser
                 IF \/ m.call.why = "switch" /\ (k.auth.pending.to # m.user
                                                  \/ ~k.auth.barrierDone)
                    \/ m.call.why = "removal" /\ k.auth.active # m.user
                 THEN Lose(k)
                 ELSE Barrier(k, m.call.why = "initial", NoUser, "read", m.user)

Receive ==
    /\ auth.link = "watching" /\ bus # <<>>
    /\ LET m == Head(bus)
           k == [View EXCEPT !.bus = Tail(@)]
       IN \E n \in CASE m.kind = "vanished" -> Lose(k)
                     [] m.kind = "removing" -> OnRemoveUserStarted(k, m.user)
                     [] m.kind = "started" -> OnSwitchUserStarted(k, m.switch)
                     [] m.kind = "completed" -> OnSwitchUserCompleted(k, m.switch)
                     [] OTHER -> OnMethodFinished(k, m) :
             Set(n)

(* Mutant of OnBarrier: the generation is not compared.                    *)
OnBarrierLate(k, then, success) ==
    CASE ~success -> k
      [] success /\ then.kind = "lose" -> [k EXCEPT !.auth.timer = "retry"]
      [] success /\ then.kind = "remove" -> Method(k, "RemoveUserDone", "removal")
      [] success /\ then.kind = "switch" ->
            Method([k EXCEPT !.auth.barrierDone = TRUE], "SwitchUserDone", "switch")
      [] success /\ then.kind = "read" ->
            [k EXCEPT !.state = Activate(@, @.generation, then.user),
                      !.auth.active = then.user, !.auth.synchronized = TRUE,
                      !.auth.pending = NoSwitch, !.auth.timer = "none"]

(* The continuation of a barrier.                                          *)
OnBarrier(k, then, success) ==
    LET current == success /\ then.generation = k.state.generation
    IN CASE ~current -> k
         [] current /\ then.kind = "lose" -> [k EXCEPT !.auth.timer = "retry"]
         [] current /\ then.kind = "remove" -> Method(k, "RemoveUserDone", "removal")
         [] current /\ then.kind = "switch" ->
               Method([k EXCEPT !.auth.barrierDone = TRUE], "SwitchUserDone", "switch")
         [] OTHER ->   \* current, and a read
               [k EXCEPT !.state = Activate(@, then.generation, then.user),
                         !.auth.active = then.user, !.auth.synchronized = TRUE,
                         !.auth.pending = NoSwitch, !.auth.timer = "none"]

Done ==
    /\ dones # <<>>
    /\ LET k == [View EXCEPT !.dones = Tail(@)]
       IN Set(IF auth.link = "stopped" THEN k
              ELSE OnBarrier(k, Head(dones).then, Head(dones).success))

(* The retry timer, one second after a loss.                               *)
Start ==
    /\ auth.timer = "retry"
    /\ Set([View EXCEPT !.auth.timer = "none", !.auth.link = "connecting"])

Connected ==
    /\ auth.link = "connecting"
    /\ \/ Set([View EXCEPT !.auth.link = "watching"])
       \/ Trouble /\ \E k \in Lose([View EXCEPT !.budget = Spent]) : Set(k)

(* Both names of the manager have appeared: Initialize.                    *)
Initialize ==
    /\ auth.link = "watching" /\ ~auth.initialized /\ bus = <<>>
    /\ Set(Method([Fenced(View) EXCEPT !.auth.initialized = TRUE],
                  "SwitchUserWait", "initial"))

(* The switch has not ended within 12 seconds.                             *)
Timer ==
    /\ auth.timer = "switch"
    /\ \E k \in Lose(View) : Set(k)

Stop ==
    /\ auth.link # "stopped" /\ Trouble
    /\ Set([Fenced(View) EXCEPT !.budget = Spent, !.auth.link = "stopped", !.auth.timer = "none",
                                 !.bus = <<>>, !.calls = <<>>])

-----------------------------------------------------------------------------
(* The database thread.                                                    *)
Free == work.at = "idle"

(* Mutant of FenceProfiles: a removal retires nothing by itself.           *)
FenceProfilesOrdinary ==
    /\ Free /\ dbq # <<>> /\ ~broken
    /\ LET job == Head(dbq)
       IN /\ grants' = IF job.retire THEN [u \in Users |-> NoGrant] ELSE grants
          /\ missed' = IF job.retire THEN {} ELSE missed
          /\ dones' = Append(dones, [then |-> job.then, success |-> TRUE])
    /\ dbq' = Tail(dbq)
    /\ UNCHANGED <<manager, bus, calls, auth, state, work, broken, out, sent, failed, budget>>

(* FenceProfiles, then the continuation is posted.                         *)
FenceProfiles ==
    /\ Free /\ dbq # <<>>
    /\ LET job == Head(dbq)
           Retired(u) == job.retire \/ u = job.removed
       IN \/ /\ ~broken
             /\ grants' = [u \in Users |-> IF Retired(u) THEN NoGrant ELSE grants[u]]
             /\ missed' = {u \in missed : ~Retired(u)}
             /\ dones' = Append(dones, [then |-> job.then, success |-> TRUE])
             /\ UNCHANGED <<state, failed, budget>>
          \/ /\ broken \/ Trouble
             /\ state' = Fence(state)
             /\ missed' = missed \cup ({job.removed} \ {NoUser})
             /\ dones' = Append(dones, [then |-> job.then, success |-> FALSE])
             /\ failed' = TRUE
             /\ budget' = IF broken THEN budget ELSE Spent
             /\ UNCHANGED grants
    /\ dbq' = Tail(dbq)
    /\ UNCHANGED <<manager, bus, calls, auth, work, broken, out, sent>>

Work(w) ==
    /\ work' = w
    /\ UNCHANGED <<manager, bus, calls, auth, state, dbq, dones, sent, missed>>

(* Execute captures the generation, and ActiveContext checks the profile.  *)
Begin(user) ==
    /\ Free /\ ~broken /\ budget.requests > 0
    /\ budget' = [budget EXCEPT !.requests = @ - 1]
    /\ Work([Idle EXCEPT !.at = "captured", !.user = user, !.generation = state.generation])
    /\ UNCHANGED <<grants, broken, out, failed>>

ActiveContext ==
    /\ work.at = "captured"
    /\ Work(IF Check(work.user) THEN [work EXCEPT !.at = "checked"] ELSE Idle)
    /\ UNCHANGED <<grants, broken, out, failed, budget>>

(* ProfileCommit: the generation is compared before and after the commit,  *)
(* and nothing locks it in between.                                        *)
CommitAdmitted ==
    /\ work.at = "checked"
    /\ Work(IF work.generation = state.generation THEN [work EXCEPT !.at = "admitted"] ELSE Idle)
    /\ UNCHANGED <<grants, broken, out, failed, budget>>

Commit ==
    /\ work.at = "admitted"
    /\ \E approves \in BOOLEAN :
          LET granted == approves /\ grants[work.user] = NoGrant
          IN /\ Work([work EXCEPT !.at = "committed", !.granted = granted])
             /\ grants' = IF ~granted THEN grants
                          ELSE [grants EXCEPT ![work.user] =
                                  [incarnation |-> manager.incarnation[work.user],
                                   raced |-> work.generation # state.generation]]
    /\ UNCHANGED <<broken, out, failed, budget>>

(* Mutant of Compensate: a commit that was admitted counts.                *)
CompensateNothing ==
    /\ work.at = "committed"
    /\ Work([work EXCEPT !.at = "final"])
    /\ UNCHANGED <<grants, broken, out, failed, budget>>

(* After the commit, approvals of a race are retired in the same job.      *)
Compensate ==
    /\ work.at = "committed"
    /\ \/ /\ work.generation = state.generation
          /\ Work([work EXCEPT !.at = "final"])
          /\ UNCHANGED <<grants, broken, failed, budget>>
       \/ /\ work.generation # state.generation
          /\ Work(Idle)
          /\ grants' = IF work.granted THEN [grants EXCEPT ![work.user] = NoGrant] ELSE grants
          /\ UNCHANGED <<broken, failed, budget>>
       \/ /\ work.generation # state.generation /\ Trouble
          /\ Work(Idle)
          /\ broken' = TRUE /\ failed' = TRUE /\ budget' = Spent
          /\ UNCHANGED grants
    /\ UNCHANGED out

(* The end of Execute: the reply carries the generation.                   *)
Reply ==
    /\ work.at = "final"
    /\ Work(Idle)
    /\ out' = IF work.generation = state.generation
              THEN Append(out, [user |-> work.user, generation |-> work.generation])
              ELSE out
    /\ UNCHANGED <<grants, broken, failed, budget>>

(* Mutant of Send: the check at the end of Execute was enough.             *)
SendUnchecked ==
    /\ out # <<>>
    /\ out' = Tail(out)
    /\ sent' = sent \cup {Head(out)}
    /\ UNCHANGED <<manager, bus, calls, auth, state, dbq, dones, work, grants, broken,
                   missed, failed, budget>>

(* The I/O thread compares the generation again before it sends.           *)
Send ==
    /\ out # <<>>
    /\ out' = Tail(out)
    /\ sent' = IF Head(out).generation = state.generation THEN sent \cup {Head(out)} ELSE sent
    /\ UNCHANGED <<manager, bus, calls, auth, state, dbq, dones, work, grants, broken,
                   missed, failed, budget>>

-----------------------------------------------------------------------------
(* The manager.                                                            *)
Subscribed == auth.link = "watching" /\ auth.initialized
Emitted(m) == IF Subscribed THEN Append(bus, m) ELSE bus

Manager == UNCHANGED <<auth, state, dbq, dones, work, grants, broken, out, sent, missed,
                       failed>>

ManagerSwitches(to) ==
    /\ budget.switches > 0 /\ to # manager.user
    /\ LET s == [id |-> budget.switches, from |-> manager.user, to |-> to]
       IN /\ manager' = [manager EXCEPT !.user = to, !.switch = s]
          /\ bus' = Emitted([kind |-> "started", switch |-> s])
    /\ budget' = [budget EXCEPT !.switches = @ - 1]
    /\ Manager /\ UNCHANGED calls

ManagerCompletes ==
    /\ manager.switch # NoSwitch
    /\ manager' = [manager EXCEPT !.switch = NoSwitch]
    /\ bus' = Emitted([kind |-> "completed", switch |-> manager.switch])
    /\ Manager /\ UNCHANGED <<calls, budget>>

(* A user is removed, and another one gets the name.                       *)
ManagerRemoves(user) ==
    /\ budget.removals > 0 /\ user # manager.user
    /\ manager' = [manager EXCEPT !.incarnation[user] = @ + 1]
    /\ bus' = Emitted([kind |-> "removing", user |-> user])
    /\ budget' = [budget EXCEPT !.removals = @ - 1]
    /\ Manager /\ UNCHANGED calls

ManagerAnswers ==
    /\ calls # <<>>
    /\ calls' = Tail(calls)
    /\ \/ /\ bus' = Append(bus, [kind |-> "reply", call |-> Head(calls), user |-> manager.user])
          /\ UNCHANGED budget
       \/ /\ Trouble
          /\ bus' = Append(bus, [kind |-> "noReply", call |-> Head(calls)])
          /\ budget' = Spent
    /\ Manager /\ UNCHANGED manager

ManagerRestarts ==
    /\ Trouble
    /\ manager' = [manager EXCEPT !.switch = NoSwitch]
    /\ calls' = <<>>
    /\ bus' = IF auth.link = "watching" THEN Append(bus, [kind |-> "vanished"]) ELSE bus
    /\ budget' = Spent
    /\ Manager

-----------------------------------------------------------------------------
Main == Receive \/ Done \/ Start \/ Connected \/ Initialize \/ Timer
Database ==
    \/ FenceProfiles \/ ActiveContext \/ CommitAdmitted \/ Commit \/ Compensate \/ Reply
Sessiond ==
    \/ \E u \in Users : ManagerSwitches(u) \/ ManagerRemoves(u)
    \/ ManagerCompletes \/ ManagerAnswers \/ ManagerRestarts

Next == Main \/ Stop \/ Database \/ (\E u \in Users : Begin(u)) \/ Send \/ Sessiond

Spec == Init /\ [][Next]_vars

(* What the daemon's threads and the manager have to do.                   *)
MainHasWork ==
    \/ auth.link = "connecting" \/ auth.timer # "none" \/ dones # <<>>
    \/ auth.link = "watching" /\ (bus # <<>> \/ ~auth.initialized)
DatabaseHasWork == ~Free \/ dbq # <<>>
ManagerHasWork == calls # <<>>

(* Both threads of the daemon run, and the manager answers calls. All that *)
(* is needed of that: they do not all stand still with work left.          *)
FairSpec ==
    /\ Spec
    /\ \/ []<>~(MainHasWork \/ DatabaseHasWork \/ ManagerHasWork)
       \/ []<><<TRUE>>_vars

-----------------------------------------------------------------------------
(* A daemon that is ready for a user serves the manager's user, unless the *)
(* news of a switch or of the manager's end is already on the bus: no read *)
(* of the current user that a switch overtook makes the daemon ready       *)
(* (Activate's generation, OnMethodFinished).                              *)
ReadyFollowsManager ==
    state.ready /\ state.user # manager.user =>
        \E i \in 1..Len(bus) : bus[i].kind \in {"started", "vanished"}

(* An approval-sensitive reply is sent only while its profile is the       *)
(* active one, whatever happened between the check of the profile, the     *)
(* commit and the last look at the generation.                             *)
SentForActiveProfile ==
    [][\A r \in sent' \ sent : Check(r.user)]_vars

(* An approval committed after the profile it was asked for had been       *)
(* fenced does not survive the request, or the repository refuses          *)
(* everything from then on (ProfileCommit).                                *)
RacedGrantsAreRetired ==
    Free /\ ~broken => \A u \in Users : ~grants[u].raced

(* No user is served from approvals an earlier user of the same name gave: *)
(* the barrier of an observed removal retires them, and the barrier of any *)
(* gap in observation retires all.  (The exception is a removal whose      *)
(* barrier failed.)                                                        *)
OthersApprovals(u) ==
    /\ Check(u) /\ grants[u] # NoGrant /\ grants[u].incarnation # manager.incarnation[u]
    /\ \A i \in 1..Len(bus) : bus[i].kind \notin {"started", "vanished", "removing"}

ApprovalsEndWithTheirUser == \A u \in Users : OthersApprovals(u) => u \in missed

(* An observed removal selectively retires the removed profile; failed     *)
(* barriers never permit acknowledgement or activation.                    *)
ObservedRemovalRetires == \A u \in Users : ~OthersApprovals(u)

(* While barriers succeed, a daemon that is not stopped is ready for the   *)
(* manager's user again once the manager leaves it in peace: no order of   *)
(* signals, replies, timers and barriers leaves it fenced.                 *)
Resynchronizes ==
    <>[](\/ auth.link = "stopped" \/ failed \/ Check(manager.user))
=============================================================================
