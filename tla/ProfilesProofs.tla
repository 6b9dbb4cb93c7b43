--------------------------- MODULE ProfilesProofs ---------------------------
(***************************************************************************)
(* What the profile authority promises, for any users, signals, requests   *)
(* and failures.                                                           *)
(*                                                                         *)
(* An approval that a fence overtook does not survive its request.  The    *)
(* generation only grows, whatever the authority does.  So a commit that   *)
(* raced a fence is still seen to be one when the database thread compares *)
(* the generation again, however late that is (RaceInv).                   *)
(*                                                                         *)
(* The daemon is ready only for the manager's user, serves only the active *)
(* profile, and from no approval of a removed user.  Calls, replies and    *)
(* barriers carry the generation they were made in, and a fence makes all  *)
(* of them stale at once.  What is left to say is what may be on its way   *)
(* in the present generation: over which connection it was asked for,      *)
(* which read comes first, that removals queue before it, which user it    *)
(* has found, and that the approvals of every removed user are still to be *)
(* retired before it ends (ProfileInv).                                    *)
(***************************************************************************)
EXTENDS Profiles, TLAPS

Counts(s) == DOMAIN s = {"generation", "ready", "user"} /\ s.generation \in Nat

WorkOK(w) ==
    /\ w \in [at: {"idle", "captured", "checked", "admitted", "committed", "final"},
              user: Users \cup {NoUser}, generation: Nat, granted: BOOLEAN]
    /\ w.at # "idle" => w.user \in Users

(* A raced approval belongs to the request that is about to compensate it, *)
(* and that will find a newer generation.                                  *)
RaceInv ==
    /\ Counts(state)
    /\ WorkOK(work) /\ work.generation <= state.generation
    /\ grants \in [Users -> [incarnation: Nat, raced: BOOLEAN]]
    /\ "incarnation" \in DOMAIN manager /\ manager.incarnation \in [Users -> Nat]
    /\ \A u \in Users : grants[u].raced =>
          \/ broken
          \/ /\ work.at = "committed" /\ work.granted /\ work.user = u
             /\ work.generation < state.generation

-----------------------------------------------------------------------------
(* What the main thread may make of a view.                                *)
Shape(k) ==
    /\ DOMAIN k = {"auth", "state", "bus", "calls", "dbq", "dones", "missed", "failed",
                   "budget"}
    /\ Counts(k.state)

Grown(n, k) == Shape(n) /\ k.state.generation <= n.state.generation

LEMMA FencedGrows == ASSUME NEW k, Shape(k) PROVE Grown(Fenced(k), k)
<1>1. Fenced(k).state = Fence(k.state) /\ DOMAIN Fenced(k) = DOMAIN k
  BY Zenon DEF Shape, Fenced
<1>2. Counts(Fence(k.state)) /\ k.state.generation <= Fence(k.state).generation
  BY DEF Shape, Fence, Counts
<1> QED  BY <1>1, <1>2, Zenon DEF Shape, Grown

LEMMA GrownTwice ==
    ASSUME NEW a, NEW b, NEW c, Shape(c), Grown(b, c), Grown(a, b) PROVE Grown(a, c)
BY DEF Shape, Grown, Counts

LEMMA BarrierGrows ==
    ASSUME NEW k, Shape(k), NEW retire, NEW removed, NEW kind, NEW user,
           NEW n \in Barrier(k, retire, removed, kind, user)
    PROVE  Grown(n, k)
<1>1. Grown(Fenced(k), k)
  BY FencedGrows, Zenon
<1> DEFINE job == [retire |-> retire, removed |-> removed,
                   then |-> [kind |-> kind, generation |-> k.state.generation, user |-> user]]
<1>2. CASE n = [k EXCEPT !.dbq = Append(@, job)]
  BY <1>2 DEF Shape, Grown, Counts
<1>3. CASE n = [Fenced(k) EXCEPT !.budget.troubles = @ - 1, !.failed = TRUE,
                                 !.missed = @ \cup ({removed} \ {NoUser})]
  BY <1>1, <1>3, Zenon DEF Shape, Grown
<1> QED  BY <1>2, <1>3, Zenon DEF Barrier

LEMMA LoseGrows == ASSUME NEW k, Shape(k), NEW n \in Lose(k) PROVE Grown(n, k)
<1> DEFINE gone == [Fenced(k) EXCEPT
                !.auth.link = "down", !.auth.timer = "none", !.auth.initialized = FALSE,
                !.auth.synchronized = FALSE, !.auth.pending = NoSwitch,
                !.auth.barrierDone = FALSE, !.bus = <<>>, !.calls = <<>>]
<1>1. Grown(Fenced(k), k)
  BY FencedGrows, Zenon
<1>2. Grown(gone, k)
  BY <1>1, Zenon DEF Shape, Grown
<1>3. n \in Barrier(gone, TRUE, NoUser, "lose", NoUser)
  BY ZenonT(60) DEF Lose
<1> HIDE DEF gone
<1>4. Grown(n, gone)
  BY <1>2, <1>3, BarrierGrows, ZenonT(60) DEF Grown
<1> QED  BY <1>2, <1>4, GrownTwice, Zenon

LEMMA MethodGrows ==
    ASSUME NEW k, Shape(k), NEW method, NEW why PROVE Grown(Method(k, method, why), k)
BY DEF Method, Shape, Grown, Counts

LEMMA ReadWhenOverGrows == ASSUME NEW k, Shape(k) PROVE Grown(ReadWhenOver(k), k)
<1>1. Grown(Read(k, "switch"), k)
  BY MethodGrows, Zenon DEF Read
<1> QED  BY <1>1 DEF ReadWhenOver, Grown, Shape, Counts

-----------------------------------------------------------------------------
(* The handlers.                                                           *)
LEMMA RemoveStartedGrows ==
    ASSUME NEW k, Shape(k), NEW user, NEW n \in OnRemoveUserStarted(k, user)
    PROVE  Grown(n, k)
<1>1. Grown(Fenced(k), k) /\ Shape(Fenced(k))
  BY FencedGrows, Zenon DEF Grown
<1>2. CASE k.auth.synchronized
  BY <1>1, <1>2, BarrierGrows, GrownTwice, ZenonT(60) DEF OnRemoveUserStarted
<1>3. CASE ~k.auth.synchronized
  BY <1>3, LoseGrows, Zenon DEF OnRemoveUserStarted
<1> QED  BY <1>2, <1>3, Zenon

LEMMA SwitchStartedGrows ==
    ASSUME NEW k, Shape(k), NEW s, NEW n \in OnSwitchUserStarted(k, s)
    PROVE  Grown(n, k)
<1> DEFINE f == Fenced(k)
           started == [f EXCEPT !.auth.pending = s, !.auth.barrierDone = FALSE,
                                !.auth.acknowledged = FALSE, !.auth.completed = FALSE,
                                !.auth.timer = "switch"]
<1>1. Grown(f, k) /\ Shape(f)
  BY FencedGrows, Zenon DEF Grown
<1>2. \/ n \in Lose(k) \/ n \in Lose(f)
      \/ n \in Barrier(started, FALSE, NoUser, "switch", NoUser)
  BY ZenonT(60) DEF OnSwitchUserStarted
<1> HIDE DEF f
<1>3. Grown(started, f) /\ Shape(started)
  BY <1>1 DEF Grown, Shape, Counts
<1> HIDE DEF started
<1>4. CASE n \in Lose(k)
  BY <1>4, LoseGrows, Zenon
<1>5. CASE n \in Lose(f)
  BY <1>1, <1>5, LoseGrows, GrownTwice, Zenon
<1>6. CASE n \in Barrier(started, FALSE, NoUser, "switch", NoUser)
  <2>1. Grown(n, started)
    BY <1>3, <1>6, BarrierGrows, ZenonT(60)
  <2>2. Grown(n, f)
    BY <1>1, <1>3, <2>1, GrownTwice, Zenon
  <2> QED  BY <1>1, <2>2, GrownTwice, Zenon
<1> QED  BY <1>2, <1>4, <1>5, <1>6, ZenonT(60)

LEMMA SwitchCompletedGrows ==
    ASSUME NEW k, Shape(k), NEW s, NEW n \in OnSwitchUserCompleted(k, s)
    PROVE  Grown(n, k)
<1> DEFINE over == [k EXCEPT !.auth.completed = TRUE]
<1>1. n \in Lose(k) \/ n = ReadWhenOver(over)
  BY Zenon DEF OnSwitchUserCompleted
<1>2. Grown(over, k) /\ Shape(over)
  BY DEF Grown, Shape, Counts
<1> HIDE DEF over
<1> QED  BY <1>1, <1>2, LoseGrows, ReadWhenOverGrows, GrownTwice, Zenon

LEMMA MethodFinishedGrows ==
    ASSUME NEW k, Shape(k), NEW m, NEW n \in OnMethodFinished(k, m)
    PROVE  Grown(n, k)
<1> DEFINE acknowledged == [k EXCEPT !.auth.acknowledged = TRUE]
<1>1. \/ n = k \/ n \in Lose(k)
      \/ n = Method(k, "RemoveUserWait", "initial")
      \/ \E why : n = Read(k, why)
      \/ n = ReadWhenOver(acknowledged)
      \/ \E retire, user : n \in Barrier(k, retire, NoUser, "read", user)
  <2> DEFINE fails == \/ m.call.why = "switch" /\ (k.auth.pending.to # m.user
                                                   \/ ~k.auth.barrierDone)
                      \/ m.call.why = "removal" /\ k.auth.active # m.user
  <2>1. CASE m.call.generation # k.state.generation \/ m.kind = "noReply"
    BY <2>1, Zenon DEF OnMethodFinished
  <2>2. CASE ~(m.call.generation # k.state.generation \/ m.kind = "noReply")
    <3>1. CASE m.call.method \in {"SwitchUserWait", "RemoveUserWait", "RemoveUserDone",
                                  "SwitchUserDone"}
      BY <2>2, <3>1, Zenon DEF OnMethodFinished
    <3>2. CASE m.call.method \notin {"SwitchUserWait", "RemoveUserWait", "RemoveUserDone",
                                     "SwitchUserDone"}
      <4>1. n \in IF fails THEN Lose(k)
                  ELSE Barrier(k, m.call.why = "initial", NoUser, "read", m.user)
        BY <2>2, <3>2 DEF OnMethodFinished
      <4> QED  BY <4>1
    <3> QED  BY <3>1, <3>2
  <2> QED  BY <2>1, <2>2, Zenon
<1>2. Grown(acknowledged, k) /\ Shape(acknowledged)
  BY DEF Grown, Shape, Counts
<1> HIDE DEF acknowledged
<1>3. Grown(k, k)
  BY DEF Grown, Shape, Counts
<1>4. CASE n = k \/ n \in Lose(k)
  BY <1>3, <1>4, LoseGrows, Zenon
<1>5. CASE n = Method(k, "RemoveUserWait", "initial") \/ \E why : n = Read(k, why)
  BY <1>5, MethodGrows, Zenon DEF Read
<1>6. CASE n = ReadWhenOver(acknowledged)
  BY <1>2, <1>6, ReadWhenOverGrows, GrownTwice, Zenon
<1>7. CASE \E retire, user : n \in Barrier(k, retire, NoUser, "read", user)
  BY <1>7, BarrierGrows, Zenon
<1> QED  BY <1>1, <1>4, <1>5, <1>6, <1>7, Zenon

LEMMA ActivateGrows ==
    ASSUME NEW s, Counts(s), NEW generation, NEW user
    PROVE  /\ Counts(Activate(s, generation, user))
           /\ Activate(s, generation, user).generation = s.generation
BY Zenon DEF Counts, Activate

LEMMA BarrierDoneGrows ==
    ASSUME NEW k, Shape(k), NEW then, NEW success
    PROVE  Grown(OnBarrier(k, then, success), k)
<1> DEFINE n == OnBarrier(k, then, success)
           done == [k EXCEPT !.auth.barrierDone = TRUE]
           active == Activate(k.state, then.generation, then.user)
<1>1. \/ n = k \/ n = [k EXCEPT !.auth.timer = "retry"]
      \/ n = Method(k, "RemoveUserDone", "removal")
      \/ n = Method(done, "SwitchUserDone", "switch")
      \/ n = [k EXCEPT !.state = Activate(@, then.generation, then.user),
                       !.auth.active = then.user, !.auth.synchronized = TRUE,
                       !.auth.pending = NoSwitch, !.auth.timer = "none"]
  BY Zenon DEF OnBarrier
<1>2. Grown(k, k) /\ Grown(done, k) /\ Shape(done)
  BY DEF Grown, Shape, Counts
<1> SUFFICES Grown(n, k)
  OBVIOUS
<1> HIDE DEF n, done
<1>3. CASE n = k \/ n = [k EXCEPT !.auth.timer = "retry"]
  BY <1>2, <1>3, Zenon DEF Grown, Shape
<1>4. CASE n = Method(k, "RemoveUserDone", "removal")
  BY <1>4, MethodGrows, Zenon
<1>5. CASE n = Method(done, "SwitchUserDone", "switch")
  BY <1>2, <1>5, MethodGrows, GrownTwice, Zenon
<1>6. CASE n = [k EXCEPT !.state = Activate(@, then.generation, then.user),
                         !.auth.active = then.user, !.auth.synchronized = TRUE,
                         !.auth.pending = NoSwitch, !.auth.timer = "none"]
  <2>1. Counts(active) /\ active.generation = k.state.generation
    BY ActivateGrows, Zenon DEF Shape
  <2> HIDE DEF active
  <2>2. n.state = active /\ DOMAIN n = DOMAIN k
    BY <1>6, Zenon DEF Shape, active
  <2> QED  BY <2>1, <2>2 DEF Grown, Shape, Counts
<1> QED  BY <1>1, <1>3, <1>4, <1>5, <1>6, Zenon

-----------------------------------------------------------------------------
(* The threads.                                                            *)
LEMMA SetKeeps == ASSUME RaceInv, NEW n, Grown(n, View), Set(n) PROVE RaceInv'
<1>1. /\ state' = n.state /\ UNCHANGED <<manager, work, grants, broken>>
      /\ Counts(state') /\ state.generation <= state'.generation
  BY Zenon DEF Set, Grown, Shape, View
<1> QED  BY <1>1 DEF RaceInv, Counts, WorkOK

LEMMA MainKeeps == RaceInv /\ (Main \/ Stop) => RaceInv'
<1> SUFFICES ASSUME RaceInv, Main \/ Stop PROVE RaceInv'
  OBVIOUS
<1>1. Shape(View)
  BY Zenon DEF View, Shape, RaceInv
<1>2. \A k : Shape(k) /\ k.state = View.state => \A n : Grown(n, k) => Grown(n, View)
  BY Zenon DEF Grown
<1>3. CASE Receive
  <2> DEFINE m == Head(bus)
             k == [View EXCEPT !.bus = Tail(@)]
  <2>1. Shape(k) /\ k.state = View.state
    BY <1>1, Zenon DEF Shape
  <2>2. PICK n : /\ Set(n)
                 /\ \/ n \in Lose(k) \/ n \in OnRemoveUserStarted(k, m.user)
                    \/ n \in OnSwitchUserStarted(k, m.switch)
                    \/ n \in OnSwitchUserCompleted(k, m.switch) \/ n \in OnMethodFinished(k, m)
    BY <1>3, Zenon DEF Receive
  <2> HIDE DEF k, m
  <2>3. Grown(n, k)
    BY <2>1, <2>2, LoseGrows, RemoveStartedGrows, SwitchStartedGrows, SwitchCompletedGrows,
       MethodFinishedGrows, Zenon
  <2> QED  BY <1>2, <2>1, <2>2, <2>3, SetKeeps, Zenon
<1>4. CASE Done
  <2> DEFINE k == [View EXCEPT !.dones = Tail(@)]
  <2>1. Shape(k) /\ k.state = View.state
    BY <1>1, Zenon DEF Shape
  <2>2. PICK n : Set(n) /\ (n = k \/ n = OnBarrier(k, Head(dones).then, Head(dones).success))
    BY <1>4, Zenon DEF Done
  <2> HIDE DEF k
  <2>3. Grown(n, k)
    BY <2>1, <2>2, BarrierDoneGrows DEF Grown, Shape, Counts
  <2> QED  BY <1>2, <2>1, <2>2, <2>3, SetKeeps, Zenon
<1>5. CASE Start
  <2> DEFINE n == [View EXCEPT !.auth.timer = "none", !.auth.link = "connecting"]
  <2>1. Grown(n, View)
    BY <1>1 DEF Grown, Shape, Counts
  <2> QED  BY <1>5, <2>1, SetKeeps, Zenon DEF Start
<1>6. CASE Connected
  <2> DEFINE n == [View EXCEPT !.auth.link = "watching"]
             k == [View EXCEPT !.budget = Spent]
  <2>1. Grown(n, View) /\ Shape(k) /\ k.state = View.state
    BY <1>1 DEF Grown, Shape, Counts
  <2>2. Set(n) \/ \E l \in Lose(k) : Set(l)
    BY <1>6, Zenon DEF Connected
  <2> HIDE DEF n, k
  <2>3. \A l \in Lose(k) : Grown(l, View)
    BY <1>2, <2>1, LoseGrows, Zenon
  <2> QED  BY <2>1, <2>2, <2>3, SetKeeps, Zenon
<1>7. CASE Initialize
  <2> DEFINE f == Fenced(View)
             k == [f EXCEPT !.auth.initialized = TRUE]
             n == Method(k, "SwitchUserWait", "initial")
  <2>1. Grown(f, View)
    BY <1>1, FencedGrows, Zenon
  <2> HIDE DEF f
  <2>2. Grown(k, View)
    BY <2>1, Zenon DEF Grown, Shape
  <2>3. Set(n)
    BY <1>7, Zenon DEF Initialize, f
  <2> HIDE DEF k
  <2>4. Grown(n, View)
    BY <1>1, <2>2, MethodGrows, GrownTwice, Zenon DEF Grown
  <2> QED  BY <2>3, <2>4, SetKeeps, Zenon
<1>8. CASE Timer
  BY <1>1, <1>8, LoseGrows, SetKeeps, Zenon DEF Timer
<1>9. CASE Stop
  <2> DEFINE f == Fenced(View)
             n == [f EXCEPT !.budget = Spent, !.auth.link = "stopped", !.auth.timer = "none",
                            !.bus = <<>>, !.calls = <<>>]
  <2>1. Grown(f, View)
    BY <1>1, FencedGrows, Zenon
  <2>2. Set(n)
    BY <1>9, Zenon DEF Stop
  <2> HIDE DEF f
  <2>3. Grown(n, View)
    BY <2>1, Zenon DEF Grown, Shape
  <2> QED  BY <2>2, <2>3, SetKeeps, Zenon
<1> QED  BY <1>3, <1>4, <1>5, <1>6, <1>7, <1>8, <1>9, Zenon DEF Main

LEMMA DatabaseKeeps == RaceInv /\ (Database \/ \E u \in Users : Begin(u)) => RaceInv'
<1> SUFFICES ASSUME RaceInv, Database \/ \E u \in Users : Begin(u) PROVE RaceInv'
  OBVIOUS
<1> DEFINE Grant == [incarnation: Nat, raced: BOOLEAN]
<1>0. NoGrant \in Grant /\ ~NoGrant.raced
  BY Zenon DEF NoGrant
<1>1. CASE FenceProfiles
  <2>1. Free /\ UNCHANGED <<manager, work, broken>>
    BY <1>1, Zenon DEF FenceProfiles
  <2>2. CASE UNCHANGED state /\ \E G :
               grants' = [u \in Users |-> IF u \in G THEN NoGrant ELSE grants[u]]
    BY <1>0, <2>1, <2>2, ZenonT(60) DEF RaceInv, Free
  <2>3. CASE UNCHANGED grants /\ state' = Fence(state)
    <3>1. Counts(state') /\ state'.generation = state.generation + 1
      BY <2>3 DEF RaceInv, Counts, Fence
    <3> QED  BY <2>1, <2>3, <3>1 DEF RaceInv, Free, Counts, WorkOK
  <2>4. \/ UNCHANGED state /\ \E G :
               grants' = [u \in Users |-> IF u \in G THEN NoGrant ELSE grants[u]]
        \/ UNCHANGED grants /\ state' = Fence(state)
    <3>1. CASE \E job : grants' = [u \in Users |->
                 IF job.retire \/ u = job.removed THEN NoGrant ELSE grants[u]]
      <4> PICK job : grants' = [u \in Users |->
                 IF job.retire \/ u = job.removed THEN NoGrant ELSE grants[u]]
        BY <3>1
      <4> DEFINE G == {u \in Users : job.retire \/ u = job.removed}
      <4>1. grants' = [u \in Users |-> IF u \in G THEN NoGrant ELSE grants[u]]
        OBVIOUS
      <4> HIDE DEF G
      <4> QED  BY <1>1, <4>1, ZenonT(60) DEF FenceProfiles
    <3>2. CASE UNCHANGED grants /\ state' = Fence(state)
      BY <3>2
    <3> QED  BY <1>1, <3>1, <3>2, SMTT(60) DEF FenceProfiles
  <2> QED  BY <2>2, <2>3, <2>4, Zenon
<1>2. ASSUME NEW u \in Users, Begin(u) PROVE RaceInv'
  <2>1. /\ Free /\ UNCHANGED <<manager, state, grants, broken>>
        /\ work' = [Idle EXCEPT !.at = "captured", !.user = u, !.generation = state.generation]
    BY <1>2, Zenon DEF Begin, Work
  <2>2. WorkOK(work') /\ work'.generation = state.generation
    BY <2>1, ZenonT(60) DEF Idle, WorkOK, RaceInv, Counts
  <2>3. \A v \in Users : grants[v].raced => broken
    BY <2>1, Zenon DEF RaceInv, Free
  <2> QED  BY <2>1, <2>2, <2>3 DEF RaceInv, Counts
<1>3. CASE ActiveContext \/ CommitAdmitted \/ Reply
  <2>1. UNCHANGED <<manager, state, grants, broken>> /\ work.at \notin {"committed", "idle"}
    BY <1>3, Zenon DEF ActiveContext, CommitAdmitted, Reply, Work
  <2>2. \/ work' = Idle
        \/ \E at \in {"checked", "admitted"} : work' = [work EXCEPT !.at = at]
    BY <1>3, Zenon DEF ActiveContext, CommitAdmitted, Reply, Work
  <2>3. WorkOK(work') /\ work'.generation <= work.generation
    <3>1. CASE work' = Idle
      BY <3>1 DEF Idle, WorkOK, RaceInv
    <3>2. ASSUME NEW at \in {"checked", "admitted"}, work' = [work EXCEPT !.at = at]
          PROVE  WorkOK(work') /\ work'.generation <= work.generation
      <4>1. work.user \in Users /\ work.generation \in Nat
        BY <2>1 DEF WorkOK, RaceInv
      <4>2. work'.generation = work.generation
        BY <3>2 DEF WorkOK, RaceInv
      <4>3. WorkOK(work')
        BY <3>2, <4>1 DEF WorkOK, RaceInv
      <4> QED  BY <4>1, <4>2, <4>3
    <3> QED  BY <2>2, <3>1, <3>2
  <2>4. \A v \in Users : grants[v].raced => broken
    BY <2>1, Zenon DEF RaceInv
  <2>5. work'.generation <= state.generation
    BY <2>3 DEF RaceInv, WorkOK, Counts
  <2> QED  BY <2>1, <2>3, <2>4, <2>5, Zenon DEF RaceInv
<1>4. CASE Commit
  <2>1. work.at = "admitted" /\ UNCHANGED <<manager, state, broken>>
    BY <1>4, Zenon DEF Commit, Work
  <2> DEFINE given == [incarnation |-> manager.incarnation[work.user],
                       raced |-> work.generation # state.generation]
  <2>2. PICK granted \in BOOLEAN :
          /\ work' = [work EXCEPT !.at = "committed", !.granted = granted]
          /\ grants' = IF ~granted THEN grants ELSE [grants EXCEPT ![work.user] = given]
    BY <1>4, Zenon DEF Commit, Work
  <2>3. work.user \in Users /\ \A u \in Users : grants[u].raced => broken
    BY <2>1, Zenon DEF RaceInv, WorkOK
  <2>4. given \in Grant
    <3>1. manager.incarnation[work.user] \in Nat
      BY <2>3, Zenon DEF RaceInv
    <3> QED  BY <3>1
  <2>5. given.raced => work.generation < state.generation
    <3>1. (work.generation # state.generation) => work.generation < state.generation
      BY DEF RaceInv, Counts, WorkOK
    <3> QED  BY <3>1, Zenon
  <2>6. /\ work'.at = "committed" /\ work'.granted = granted /\ work'.user = work.user
        /\ work'.generation = work.generation
    BY <2>2, Zenon DEF RaceInv, WorkOK
  <2>7. WorkOK(work')
    BY <2>2, <2>3, ZenonT(60) DEF RaceInv, WorkOK
  <2> HIDE DEF given
  <2>8. grants' \in [Users -> Grant]
    BY <2>2, <2>4, ZenonT(60) DEF RaceInv
  <2>9. ASSUME NEW u \in Users, grants'[u].raced, ~broken
        PROVE  granted /\ u = work.user /\ work.generation < state.generation
    <3>1. granted
      BY <2>2, <2>3, <2>9
    <3>2. grants' = [grants EXCEPT ![work.user] = given]
      BY <2>2, <3>1
    <3>3. u = work.user
      BY <2>3, <2>9, <3>2, Zenon DEF RaceInv
    <3>4. grants'[u] = given
      BY <2>3, <3>2, <3>3 DEF RaceInv
    <3> QED  BY <2>5, <2>9, <3>1, <3>3, <3>4
  <2>10. work'.generation <= state.generation
    BY <2>6, Zenon DEF RaceInv
  <2> QED  BY <2>1, <2>6, <2>7, <2>8, <2>9, <2>10, Zenon DEF RaceInv
<1>5. CASE Compensate
  <2>1. work.at = "committed" /\ UNCHANGED <<manager, state>>
    BY <1>5, Zenon DEF Compensate, Work
  <2>2. CASE /\ work.generation = state.generation /\ UNCHANGED <<grants, broken>>
             /\ work' = [work EXCEPT !.at = "final"]
    BY <2>1, <2>2 DEF RaceInv, Counts, WorkOK
  <2>3. CASE /\ work' = Idle /\ UNCHANGED broken
             /\ grants' = IF work.granted THEN [grants EXCEPT ![work.user] = NoGrant] ELSE grants
    <3>1. /\ grants' \in [Users -> Grant]
          /\ \A u \in Users : grants'[u].raced => broken
      BY <1>0, <2>1, <2>3, Zenon DEF RaceInv, WorkOK
    <3> QED  BY <2>1, <2>3, <3>1 DEF RaceInv, Counts, Idle, WorkOK
  <2>4. CASE work' = Idle /\ broken' = TRUE /\ UNCHANGED grants
    BY <2>1, <2>4 DEF RaceInv, Counts, Idle, WorkOK
  <2> QED  BY <1>5, <2>2, <2>3, <2>4, ZenonT(60) DEF Compensate, Work
<1> QED  BY <1>1, <1>2, <1>3, <1>4, <1>5, Zenon DEF Database

LEMMA OutsideKeeps == RaceInv /\ (Send \/ Sessiond) => RaceInv'
<1> SUFFICES ASSUME RaceInv, Send \/ Sessiond PROVE RaceInv'
  OBVIOUS
<1>1. UNCHANGED <<state, work, grants, broken>>
  BY ZenonT(60) DEF Send, Sessiond, Manager, ManagerSwitches, ManagerRemoves, ManagerCompletes,
     ManagerAnswers, ManagerRestarts
<1>2. "incarnation" \in DOMAIN manager' /\ manager'.incarnation \in [Users -> Nat]
  <2>1. CASE Send \/ ManagerAnswers
    BY <2>1, Zenon DEF Send, ManagerAnswers, RaceInv
  <2>2. CASE (\E u \in Users : ManagerSwitches(u)) \/ ManagerCompletes \/ ManagerRestarts
    BY <2>2, Zenon DEF ManagerSwitches, ManagerCompletes, ManagerRestarts, RaceInv
  <2>3. ASSUME NEW u \in Users, ManagerRemoves(u)
        PROVE  "incarnation" \in DOMAIN manager' /\ manager'.incarnation \in [Users -> Nat]
    BY <2>3 DEF ManagerRemoves, RaceInv
  <2> QED  BY <2>1, <2>2, <2>3, Zenon DEF Sessiond
<1> QED  BY <1>1, <1>2, Zenon DEF RaceInv

LEMMA RaceInvariance == Spec => []RaceInv
<1>1. Init => RaceInv
  <2> SUFFICES ASSUME Init PROVE RaceInv
    OBVIOUS
  <2>1. "incarnation" \in DOMAIN manager /\ manager.incarnation \in [Users -> Nat]
    BY DEF Init
  <2>2. Counts(state) /\ work = Idle /\ Idle.generation <= state.generation
    BY DEF Init, Counts, Idle, WorkOK
  <2>3. /\ grants \in [Users -> [incarnation: Nat, raced: BOOLEAN]]
        /\ \A u \in Users : ~grants[u].raced
    BY Zenon DEF Init
  <2> QED  BY <2>1, <2>2, <2>3, Zenon DEF RaceInv, Idle, WorkOK
<1>2. RaceInv /\ [Next]_vars => RaceInv'
  <2>1. RaceInv /\ UNCHANGED vars => RaceInv'
    BY DEF RaceInv, vars
  <2> QED  BY <2>1, MainKeeps, DatabaseKeeps, OutsideKeeps, Zenon DEF Next
<1> QED  BY <1>1, <1>2, PTL DEF Spec

-----------------------------------------------------------------------------
(* Between two jobs of the database thread no approval is left that was    *)
(* committed after its profile had been fenced, unless the repository has  *)
(* closed itself, for any users, signals, requests and failures            *)
(* (ProfileCommit, ProfileState::Fence).                                   *)
THEOREM NoRacedApprovalIsLeft == Spec => []RacedGrantsAreRetired
<1>1. RaceInv => RacedGrantsAreRetired
  BY Zenon DEF RaceInv, RacedGrantsAreRetired, Free
<1> QED  BY <1>1, RaceInvariance, PTL

-----------------------------------------------------------------------------
(* What is on its way, and whether it still counts.                        *)
Items(s) == {s[i] : i \in 1..Len(s)}
Thens(k) == {j.then : j \in Items(k.dbq)} \cup {d.then : d \in Items(k.dones)}
IsRead(t) == t.kind \notin {"lose", "remove", "switch"}
IsReply(m) == m.kind \notin {"started", "completed", "removing", "vanished", "noReply"}
Replies(k) == {m \in Items(k.bus) : IsReply(m)}
IsList(s) == \E R : s \in Seq(R)
Lists(k) == IsList(k.bus) /\ IsList(k.calls) /\ IsList(k.dbq) /\ IsList(k.dones)

Current(k, x) == x.generation = k.state.generation

(* Nothing is stamped with a generation still to come.                     *)
Stamped(x, g) == x.generation \in Nat /\ x.generation <= g
Stamps(k, g) ==
    /\ \A c \in Items(k.calls) : Stamped(c, g)
    /\ \A m \in Replies(k) : Stamped(m.call, g)
    /\ \A t \in Thens(k) : Stamped(t, g)

(* The authority is connected to the manager and has subscribed.           *)
On(k) == k.auth.link = "watching" /\ k.auth.initialized

NoRemovals(k) == \A j \in Items(k.dbq) : j.removed = NoUser

(* What holds of the authority whatever is on its way.                     *)
Links(k) ==
    /\ k.auth.synchronized /\ k.auth.link # "stopped" => On(k)
    /\ k.auth.timer = "retry" => k.auth.link = "down"

(* What counts was asked for over the present connection, except for the   *)
(* barrier of a loss, which ends before the next one is made.              *)
Wired(k) ==
    /\ k.state.ready => On(k) /\ k.auth.synchronized
    /\ \A c \in Items(k.calls) : Current(k, c) => On(k)
    /\ \A m \in Replies(k) : Current(k, m.call) => On(k)
    /\ \A t \in Thens(k) : Current(k, t) =>
          IF t.kind = "lose" THEN k.auth.link = "down" /\ k.auth.timer # "retry" ELSE On(k)

(* Until the authority is synchronized only the first read is on its way,  *)
(* and its barrier retires every approval.                                 *)
First(c) == c.why = "initial" /\ c.method \notin {"RemoveUserDone", "SwitchUserDone"}
Fresh(k) ==
    k.auth.synchronized \/
    /\ \A c \in Items(k.calls) : Current(k, c) => First(c)
    /\ \A m \in Replies(k) : Current(k, m.call) => First(m.call)
    /\ \A t \in Thens(k) : Current(k, t) => t.kind \notin {"remove", "switch"}
    /\ \A j \in Items(k.dbq) : Current(k, j.then) /\ IsRead(j.then) => j.retire

(* Removals queue before what counts.                                      *)
Ordered(k) ==
    /\ \A i, j \in 1..Len(k.dbq) : i < j /\ Current(k, k.dbq[i].then) =>
          k.dbq[j].removed = NoUser /\ k.dbq[j].then.kind # "lose"
    /\ \A i, j \in 1..Len(k.dones) : i < j /\ Current(k, k.dones[i].then) =>
          ~(Current(k, k.dones[j].then) /\ k.dones[j].then.kind = "lose")
    /\ (\E d \in Items(k.dones) : Current(k, d.then)) =>
          \A j \in Items(k.dbq) :
             j.removed = NoUser /\ ~(Current(k, j.then) /\ j.then.kind = "lose")
    /\ k.state.ready => NoRemovals(k)

(* The user a read has found, of which no later switch is known yet.       *)
News(m) == m.kind \in {"started", "vanished"}
Told(k, v) ==
    \/ k.state.ready /\ k.state.user = v
    \/ \E t \in Thens(k) : Current(k, t) /\ IsRead(t) /\ t.user = v
    \/ \E i \in 1..Len(k.bus) :
          /\ IsReply(k.bus[i]) /\ Current(k, k.bus[i].call) /\ k.bus[i].user = v
          /\ \A j \in 1..i : ~News(k.bus[j])

Follows(k, user) ==
    /\ \A v, w : Told(k, v) /\ Told(k, w) => v = w
    /\ (\A m \in Items(k.bus) : ~News(m)) => \A v : Told(k, v) => v = user

(* Approvals of removed users will be retired before anyone is served.     *)
Covered(k, u) ==
    \/ u \in k.missed \/ k.auth.link = "stopped"
    \/ \E m \in Items(k.bus) : m.kind = "removing" /\ m.user = u
    \/ \E j \in Items(k.dbq) : j.removed = u
    \/ /\ ~k.auth.synchronized
       /\ \A d \in Items(k.dones) : d.success /\ Current(k, d.then) => ~IsRead(d.then)

AuthFields == {"link", "initialized", "synchronized", "active", "pending", "barrierDone",
               "acknowledged", "completed", "timer"}
Whole(k) == Shape(k) /\ DOMAIN k.auth = AuthFields /\ Lists(k)

(* A view of which anything may be said to be on its way.                  *)
Sound(k) == Whole(k) /\ Stamps(k, k.state.generation) /\ Links(k)

(* A view where nothing on its way counts.                                 *)
Clear(k) ==
    /\ Whole(k) /\ Links(k) /\ ~k.state.ready
    /\ Stamps(k, k.state.generation - 1)

Good(k, user) == Sound(k) /\ Wired(k) /\ Fresh(k) /\ Ordered(k) /\ Follows(k, user)

(* A step fences, or leaves the active user active.                        *)
Moves(n, k) ==
    \/ k.state.generation < n.state.generation
    \/ /\ n.state.generation = k.state.generation
       /\ k.state.ready => n.state.ready /\ n.state.user = k.state.user

-----------------------------------------------------------------------------
(* Lists.                                                                  *)
LEMMA ItemsNone == IsList(<<>>) /\ Items(<<>>) = {} /\ Len(<<>>) = 0
<1>1. <<>> \in Seq({})
  OBVIOUS
<1>2. Items(<<>>) = {}
  BY DEF Items
<1> QED  BY <1>1, <1>2 DEF IsList

LEMMA ItemsAppend ==
    ASSUME NEW s, IsList(s), NEW e
    PROVE  /\ IsList(Append(s, e))
           /\ Items(Append(s, e)) = Items(s) \cup {e}
           /\ Len(s) \in Nat /\ Len(Append(s, e)) = Len(s) + 1
           /\ Append(s, e)[Len(s) + 1] = e
           /\ \A i \in 1..Len(s) : Append(s, e)[i] = s[i]
<1>1. PICK R : s \in Seq(R)
  BY Zenon DEF IsList
<1> DEFINE S == R \cup {e}
<1>2. s \in Seq(S)
  BY <1>1
<1> HIDE DEF S
<1>3. e \in S
  BY DEF S
<1>4. Append(s, e) \in Seq(S)
  BY <1>2, <1>3
<1>5. Len(s) \in Nat /\ Len(Append(s, e)) = Len(s) + 1
  BY <1>2, <1>3
<1>6. Append(s, e)[Len(s) + 1] = e /\ \A i \in 1..Len(s) : Append(s, e)[i] = s[i]
  BY <1>2, <1>3
<1>7. 1..(Len(s) + 1) = 1..Len(s) \cup {Len(s) + 1}
  BY <1>5
<1>8. Items(Append(s, e)) = Items(s) \cup {e}
  BY <1>5, <1>6, <1>7, Zenon DEF Items
<1> QED  BY <1>4, <1>5, <1>6, <1>8, Zenon DEF IsList

LEMMA ItemsTail ==
    ASSUME NEW s, IsList(s), s # <<>>
    PROVE  /\ IsList(Tail(s)) /\ Len(s) \in Nat \ {0}
           /\ Len(Tail(s)) = Len(s) - 1
           /\ \A i \in 1..Len(Tail(s)) : Tail(s)[i] = s[i + 1] /\ i + 1 \in 1..Len(s)
           /\ Head(s) = s[1]
           /\ Items(s) = {Head(s)} \cup Items(Tail(s))
<1>1. PICK R : s \in Seq(R)
  BY Zenon DEF IsList
<1>2. Tail(s) \in Seq(R)
  BY <1>1
<1>3. Len(s) \in Nat \ {0} /\ Len(Tail(s)) = Len(s) - 1 /\ Head(s) = s[1]
  BY <1>1
<1>4. \A i \in 1..Len(Tail(s)) : Tail(s)[i] = s[i + 1] /\ i + 1 \in 1..Len(s)
  BY <1>1, <1>3
<1>5. \A i \in 1..Len(s) : i = 1 \/ \E j \in 1..Len(Tail(s)) : i = j + 1
  <2>1. \A i \in 1..Len(s) : i # 1 => i - 1 \in 1..Len(Tail(s)) /\ i = (i - 1) + 1
    BY <1>3
  <2> QED  BY <2>1
<1>6. 1 \in 1..Len(s)
  BY <1>3
<1>7. Items(s) \subseteq {Head(s)} \cup Items(Tail(s))
  <2> SUFFICES ASSUME NEW i \in 1..Len(s) PROVE s[i] \in {Head(s)} \cup Items(Tail(s))
    BY Zenon DEF Items
  <2>1. CASE i = 1
    BY <1>3, <2>1, Zenon
  <2>2. ASSUME NEW j \in 1..Len(Tail(s)), i = j + 1 PROVE s[i] \in Items(Tail(s))
    BY <1>4, <2>2, Zenon DEF Items
  <2> QED  BY <1>5, <2>1, <2>2, Zenon
<1>8. Head(s) \in Items(s)
  BY <1>3, <1>6, Zenon DEF Items
<1>9. Items(Tail(s)) \subseteq Items(s)
  BY <1>4, Zenon DEF Items
<1>10. Items(s) = {Head(s)} \cup Items(Tail(s))
  BY <1>7, <1>8, <1>9, Zenon
<1> QED  BY <1>2, <1>3, <1>4, <1>10, Zenon DEF IsList

LEMMA InItems == ASSUME NEW s, NEW i \in 1..Len(s) PROVE s[i] \in Items(s)
BY Zenon DEF Items

-----------------------------------------------------------------------------
(* What a fence does: nothing that is on its way counts any more.          *)
LEMMA ClearCounts ==
    ASSUME NEW k, Clear(k)
    PROVE  /\ \A c \in Items(k.calls) : ~Current(k, c)
           /\ \A m \in Replies(k) : ~Current(k, m.call)
           /\ \A t \in Thens(k) : ~Current(k, t)
           /\ Stamps(k, k.state.generation)
<1>1. k.state.generation \in Nat
  BY Zenon DEF Clear, Whole, Shape, Counts
<1>2. \A x : Stamped(x, k.state.generation - 1) =>
               ~Current(k, x) /\ Stamped(x, k.state.generation)
  BY <1>1 DEF Stamped, Current
<1> QED  BY <1>2, Zenon DEF Clear, Stamps

LEMMA ThenOf ==
    ASSUME NEW k
    PROVE  /\ \A i \in 1..Len(k.dbq) : k.dbq[i] \in Items(k.dbq) /\ k.dbq[i].then \in Thens(k)
           /\ \A i \in 1..Len(k.dones) :
                 k.dones[i] \in Items(k.dones) /\ k.dones[i].then \in Thens(k)
           /\ \A i \in 1..Len(k.bus) : IsReply(k.bus[i]) => k.bus[i] \in Replies(k)
           /\ \A j \in Items(k.dbq) : j.then \in Thens(k)
           /\ \A d \in Items(k.dones) : d.then \in Thens(k)
<1>1. /\ \A j \in Items(k.dbq) : j.then \in Thens(k)
      /\ \A d \in Items(k.dones) : d.then \in Thens(k)
  BY Zenon DEF Thens
<1>2. \A i \in 1..Len(k.dbq) : k.dbq[i] \in Items(k.dbq)
  BY Zenon DEF Items
<1>3. \A i \in 1..Len(k.dones) : k.dones[i] \in Items(k.dones)
  BY Zenon DEF Items
<1>4. \A i \in 1..Len(k.bus) : k.bus[i] \in Items(k.bus)
  BY Zenon DEF Items
<1> QED  BY <1>1, <1>2, <1>3, <1>4, Zenon DEF Replies

LEMMA ClearIsGood == ASSUME NEW k, Clear(k), NEW user PROVE Good(k, user)
<1>1. Sound(k)
  BY ClearCounts, Zenon DEF Clear, Sound
<1>2. Wired(k) /\ Fresh(k)
  BY ClearCounts, ThenOf, Zenon DEF Clear, Wired, Fresh
<1>3. Ordered(k)
  BY ClearCounts, ThenOf, Zenon DEF Clear, Ordered
<1>4. \A v : ~Told(k, v)
  BY ClearCounts, ThenOf, Zenon DEF Clear, Told
<1>5. Follows(k, user)
  BY <1>4, Zenon DEF Follows
<1> QED  BY <1>1, <1>2, <1>3, <1>5, Zenon DEF Good

LEMMA FencedIsClear ==
    ASSUME NEW k, Sound(k)
    PROVE  /\ Clear(Fenced(k))
           /\ Fenced(k).state.generation = k.state.generation + 1
           /\ DOMAIN Fenced(k) = DOMAIN k
           /\ \A f \in DOMAIN k : f # "state" => Fenced(k)[f] = k[f]
<1> DEFINE n == Fenced(k)
<1>1. DOMAIN n = DOMAIN k /\ \A f \in DOMAIN k : f # "state" => n[f] = k[f]
  BY Zenon DEF Fenced
<1>2. n.state = Fence(k.state)
  BY Zenon DEF Fenced, Sound, Whole, Shape
<1>3. /\ Counts(n.state) /\ n.state.generation = k.state.generation + 1 /\ ~n.state.ready
      /\ k.state.generation \in Nat
  BY <1>2 DEF Fence, Sound, Whole, Shape, Counts
<1>4. /\ n.auth = k.auth /\ n.bus = k.bus /\ n.calls = k.calls /\ n.dbq = k.dbq
      /\ n.dones = k.dones
  BY <1>1, Zenon DEF Sound, Whole, Shape
<1> HIDE DEF n
<1>5. Whole(n) /\ Links(n)
  BY <1>1, <1>3, <1>4, Zenon DEF Sound, Whole, Shape, Links, On, Lists
<1>6. Stamps(n, k.state.generation)
  BY <1>4, Zenon DEF Sound, Stamps, Replies, Thens
<1>7. n.state.generation - 1 = k.state.generation
  BY <1>3
<1>8. Clear(n)
  BY <1>3, <1>5, <1>6, <1>7, Zenon DEF Clear
<1> QED  BY <1>1, <1>3, <1>8, Zenon DEF n

(* What the authority makes of itself over a fence.                        *)
LEMMA ClearAgain ==
    ASSUME NEW k, Clear(k), NEW n, Shape(n), DOMAIN n.auth = AuthFields, Links(n),
           n.state = k.state, n.dbq = k.dbq, n.dones = k.dones,
           n.bus \in {k.bus, <<>>}, n.calls \in {k.calls, <<>>}
    PROVE  Clear(n)
<1>1. Lists(n)
  BY ItemsNone, Zenon DEF Clear, Whole, Lists
<1>2. Items(n.bus) \subseteq Items(k.bus) /\ Items(n.calls) \subseteq Items(k.calls)
  BY ItemsNone, Zenon
<1>3. Thens(n) = Thens(k) /\ Replies(n) \subseteq Replies(k)
  BY <1>2, Zenon DEF Thens, Replies
<1>4. Stamps(n, k.state.generation - 1)
  BY <1>2, <1>3, Zenon DEF Clear, Stamps
<1> QED  BY <1>1, <1>4, Zenon DEF Clear, Whole

-----------------------------------------------------------------------------
(* The barrier.                                                            *)
Job(k, retire, removed, kind, user) ==
    [retire |-> retire, removed |-> removed,
     then |-> [kind |-> kind, generation |-> k.state.generation, user |-> user]]

Queued(n, k, job) ==
    /\ Whole(n)
    /\ n.auth = k.auth /\ n.state = k.state /\ n.bus = k.bus /\ n.calls = k.calls
    /\ n.dones = k.dones /\ n.missed = k.missed
    /\ n.dbq = Append(k.dbq, job)
    /\ Items(n.dbq) = Items(k.dbq) \cup {job}
    /\ Thens(n) = Thens(k) \cup {job.then} /\ Replies(n) = Replies(k)

Refused(n, k, removed) ==
    /\ Clear(n)
    /\ n.auth = k.auth /\ n.bus = k.bus /\ n.calls = k.calls /\ n.dbq = k.dbq
    /\ n.dones = k.dones /\ n.state.generation = k.state.generation + 1
    /\ n.missed = k.missed \cup ({removed} \ {NoUser})

LEMMA BarrierEnds ==
    ASSUME NEW k, Sound(k), NEW retire, NEW removed, NEW kind, NEW user,
           NEW n \in Barrier(k, retire, removed, kind, user)
    PROVE  Queued(n, k, Job(k, retire, removed, kind, user)) \/ Refused(n, k, removed)
<1> DEFINE job == Job(k, retire, removed, kind, user)
           f == Fenced(k)
           refused == [f EXCEPT !.budget.troubles = @ - 1, !.failed = TRUE,
                                !.missed = @ \cup ({removed} \ {NoUser})]
<1>1. n = [k EXCEPT !.dbq = Append(@, job)] \/ n = refused
  BY Zenon DEF Barrier, Job
<1> HIDE DEF job
<1>2. CASE n = [k EXCEPT !.dbq = Append(@, job)]
  <2>1. /\ DOMAIN n = DOMAIN k /\ n.auth = k.auth /\ n.state = k.state /\ n.bus = k.bus
        /\ n.calls = k.calls /\ n.dones = k.dones /\ n.missed = k.missed
        /\ n.dbq = Append(k.dbq, job)
    BY <1>2, Zenon DEF Sound, Whole, Shape
  <2>2. IsList(n.dbq) /\ Items(n.dbq) = Items(k.dbq) \cup {job}
    <3>1. IsList(k.dbq)
      BY Zenon DEF Sound, Whole, Lists
    <3>2. IsList(Append(k.dbq, job)) /\ Items(Append(k.dbq, job)) = Items(k.dbq) \cup {job}
      BY <3>1, ItemsAppend, Zenon
    <3> QED  BY <2>1, <3>2, Zenon
  <2>3. Whole(n)
    BY <2>1, <2>2, Zenon DEF Sound, Whole, Lists, Shape
  <2>4. Thens(n) = Thens(k) \cup {job.then} /\ Replies(n) = Replies(k)
    BY <2>1, <2>2, Zenon DEF Thens, Replies
  <2> QED  BY <2>1, <2>2, <2>3, <2>4, Zenon DEF Queued, job
<1>3. CASE n = refused
  <2>1. /\ Clear(f) /\ f.state.generation = k.state.generation + 1
        /\ f.auth = k.auth /\ f.bus = k.bus /\ f.calls = k.calls /\ f.dbq = k.dbq
        /\ f.dones = k.dones /\ f.missed = k.missed
    BY FencedIsClear, Zenon DEF Sound, Whole, Shape
  <2> HIDE DEF f
  <2>2. /\ DOMAIN n = DOMAIN f /\ n.auth = f.auth /\ n.state = f.state /\ n.bus = f.bus
        /\ n.calls = f.calls /\ n.dones = f.dones /\ n.dbq = f.dbq
        /\ n.missed = f.missed \cup ({removed} \ {NoUser})
    BY <1>3, <2>1, Zenon DEF Clear, Whole, Shape
  <2>3. Shape(n) /\ DOMAIN n.auth = AuthFields /\ Links(n)
    BY <2>1, <2>2, Zenon DEF Clear, Whole, Shape, Links, On
  <2>4. Clear(n)
    BY <2>1, <2>2, <2>3, ClearAgain, Zenon
  <2> QED  BY <2>1, <2>2, <2>4, Zenon DEF Refused
<1> QED  BY <1>1, <1>2, <1>3, Zenon

(* The barrier of a fence: its continuation is all that counts.            *)
LEMMA FenceBarrierGood ==
    ASSUME NEW k, Clear(k), NEW retire, NEW removed, NEW u, NEW user,
           NEW kind \in {"lose", "remove", "switch"},
           kind = "lose" => k.auth.link = "down" /\ k.auth.timer # "retry",
           kind # "lose" => On(k) /\ k.auth.synchronized,
           NEW n \in Barrier(k, retire, removed, kind, user)
    PROVE  Good(n, u)
<1> DEFINE job == Job(k, retire, removed, kind, user)
<1>1. Sound(k)
  BY ClearIsGood, Zenon DEF Good
<1>2. CASE Refused(n, k, removed)
  BY <1>2, ClearIsGood, Zenon DEF Refused
<1>3. CASE Queued(n, k, job)
  <2>1. /\ n.auth = k.auth /\ n.state = k.state /\ n.bus = k.bus /\ n.calls = k.calls
        /\ n.dones = k.dones /\ n.dbq = Append(k.dbq, job) /\ Whole(n)
        /\ Items(n.dbq) = Items(k.dbq) \cup {job}
        /\ Thens(n) = Thens(k) \cup {job.then} /\ Replies(n) = Replies(k)
    BY <1>3, Zenon DEF Queued
  <2>2. /\ job.then.kind = kind /\ job.then.generation = k.state.generation
        /\ k.state.generation \in Nat
    BY Zenon DEF Job, Clear, Whole, Shape, Counts
  <2> HIDE DEF job
  <2>3. /\ \A c \in Items(n.calls) : ~Current(n, c)
        /\ \A m \in Replies(n) : ~Current(n, m.call)
        /\ \A t \in Thens(n) : t = job.then \/ (t \in Thens(k) /\ ~Current(n, t))
        /\ \A d \in Items(n.dones) : ~Current(n, d.then)
        /\ \A j \in Items(k.dbq) : ~Current(n, j.then)
        /\ Stamps(k, k.state.generation)
    <3>1. \A x : Current(n, x) <=> Current(k, x)
      BY <2>1, Zenon DEF Current
    <3> QED  BY <2>1, <3>1, ClearCounts, ThenOf, Zenon
  <2>4. Stamped(job.then, n.state.generation)
    BY <2>1, <2>2 DEF Stamped
  <2>5. Sound(n)
    <3>1. Stamps(n, n.state.generation)
      BY <2>1, <2>3, <2>4, Zenon DEF Stamps
    <3>2. Links(n)
      BY <2>1, Zenon DEF Clear, Links, On
    <3> QED  BY <2>1, <3>1, <3>2, Zenon DEF Sound
  <2>6. Wired(n)
    BY <2>1, <2>2, <2>3, Zenon DEF Wired, On, Clear
  <2>7. Fresh(n)
    <3>1. kind = "lose" \/ n.auth.synchronized
      BY <2>1, Zenon
    <3>2. kind = "lose" => job.then.kind \notin {"remove", "switch"} /\ ~IsRead(job.then)
      BY <2>2, Zenon DEF IsRead
    <3> QED  BY <2>1, <2>2, <2>3, <3>1, <3>2, Zenon DEF Fresh
  <2>8. Ordered(n)
    <3>1. /\ Len(k.dbq) \in Nat /\ Len(n.dbq) = Len(k.dbq) + 1
          /\ \A i \in 1..Len(k.dbq) : n.dbq[i] = k.dbq[i] /\ k.dbq[i] \in Items(k.dbq)
      <4>1. IsList(k.dbq)
        BY Zenon DEF Clear, Whole, Lists
      <4>2. /\ Len(k.dbq) \in Nat /\ Len(Append(k.dbq, job)) = Len(k.dbq) + 1
            /\ \A i \in 1..Len(k.dbq) : Append(k.dbq, job)[i] = k.dbq[i]
        BY <4>1, ItemsAppend
      <4>3. \A i \in 1..Len(k.dbq) : k.dbq[i] \in Items(k.dbq)
        BY InItems, Zenon
      <4>4. n.dbq = Append(k.dbq, job)
        BY <2>1, Zenon
      <4> QED  BY <4>2, <4>3, <4>4, Zenon
    <3>2. \A i, j \in 1..Len(n.dbq) : i < j => i \in 1..Len(k.dbq)
      BY <3>1
    <3>3. \A i, j \in 1..Len(n.dbq) : i < j => ~Current(n, n.dbq[i].then)
      BY <2>3, <3>1, <3>2, Zenon
    <3>4. \A i \in 1..Len(n.dones) : ~Current(n, n.dones[i].then)
      BY <2>3, ThenOf, Zenon
    <3> QED  BY <2>1, <2>3, <3>3, <3>4, Zenon DEF Ordered, Clear
  <2>9. \A v : ~Told(n, v)
    <3>1. ~n.state.ready
      BY <2>1, Zenon DEF Clear
    <3>2. \A t \in Thens(n) : ~(Current(n, t) /\ IsRead(t))
      BY <2>2, <2>3, Zenon DEF IsRead
    <3>3. \A i \in 1..Len(n.bus) : ~(IsReply(n.bus[i]) /\ Current(n, n.bus[i].call))
      BY <2>3, ThenOf, Zenon
    <3> QED  BY <3>1, <3>2, <3>3, Zenon DEF Told
  <2>10. Follows(n, u)
    BY <2>9, Zenon DEF Follows
  <2> QED  BY <2>5, <2>6, <2>7, <2>8, <2>10, Zenon DEF Good
<1> QED  BY <1>1, <1>2, <1>3, BarrierEnds, Zenon

(* Lose.                                                                   *)
LEMMA LoseGood ==
    ASSUME NEW k, Sound(k), NEW u, NEW n \in Lose(k)
    PROVE  /\ Good(n, u) /\ k.state.generation < n.state.generation
           /\ \A v : Covered(n, v)
<1> DEFINE f == Fenced(k)
           gone == [f EXCEPT
                !.auth.link = "down", !.auth.timer = "none", !.auth.initialized = FALSE,
                !.auth.synchronized = FALSE, !.auth.pending = NoSwitch,
                !.auth.barrierDone = FALSE, !.bus = <<>>, !.calls = <<>>]
<1>1. Clear(f) /\ f.state.generation = k.state.generation + 1 /\ k.state.generation \in Nat
  BY FencedIsClear, Zenon DEF Sound, Whole, Shape, Counts
<1>2. n \in Barrier(gone, TRUE, NoUser, "lose", NoUser)
  BY ZenonT(60) DEF Lose
<1> HIDE DEF f
<1>3. /\ DOMAIN gone = DOMAIN f /\ gone.state = f.state /\ gone.dbq = f.dbq
      /\ gone.dones = f.dones /\ gone.bus = <<>> /\ gone.calls = <<>>
  BY <1>1, Zenon DEF Clear, Whole, Shape
<1>4. /\ DOMAIN gone.auth = AuthFields /\ gone.auth.link = "down" /\ gone.auth.timer = "none"
      /\ ~gone.auth.synchronized /\ ~gone.auth.initialized
  BY <1>1, ZenonT(60) DEF Clear, Whole, Shape, AuthFields
<1> HIDE DEF gone
<1>5. Clear(gone)
  <2>1. Shape(gone) /\ Links(gone)
    BY <1>1, <1>3, <1>4, Zenon DEF Clear, Whole, Shape, Links
  <2> QED  BY <1>1, <1>3, <1>4, <2>1, ClearAgain, Zenon
<1>6. Good(n, u)
  BY <1>2, <1>4, <1>5, FenceBarrierGood, ZenonT(60)
<1>7. Sound(gone)
  BY <1>5, ClearIsGood, Zenon DEF Good
<1>8. \/ Queued(n, gone, Job(gone, TRUE, NoUser, "lose", NoUser))
      \/ Refused(n, gone, NoUser)
  BY <1>2, <1>7, BarrierEnds, Zenon
<1>9. n.auth = gone.auth /\ n.dones = gone.dones
  BY <1>8, Zenon DEF Queued, Refused
<1>10. n.state = gone.state \/ n.state.generation = gone.state.generation + 1
  BY <1>8, Zenon DEF Queued, Refused
<1>11. k.state.generation < n.state.generation
  BY <1>1, <1>3, <1>10
<1>12. \A d \in Items(n.dones) : ~Current(n, d.then)
  <2>1. CASE Refused(n, gone, NoUser)
    BY <2>1, ClearCounts, ThenOf, Zenon DEF Refused
  <2>2. CASE Queued(n, gone, Job(gone, TRUE, NoUser, "lose", NoUser))
    BY <1>5, <2>2, ClearCounts, ThenOf, ZenonT(60) DEF Queued, Current
  <2> QED  BY <1>8, <2>1, <2>2, Zenon
<1> QED  BY <1>4, <1>6, <1>9, <1>11, <1>12, Zenon DEF Covered

-----------------------------------------------------------------------------
(* Steps that keep the generation.                                         *)
Alike(n, k) ==
    /\ n.state = k.state /\ n.bus = k.bus /\ n.dbq = k.dbq /\ n.dones = k.dones
    /\ n.missed = k.missed
    /\ n.auth.link = k.auth.link /\ n.auth.initialized = k.auth.initialized
    /\ n.auth.synchronized = k.auth.synchronized

LEMMA AlikeCovered ==
    ASSUME NEW k, NEW n, Alike(n, k), NEW v, Covered(k, v) PROVE Covered(n, v)
BY Zenon DEF Alike, Covered, Current

LEMMA OrderedStill ==
    ASSUME NEW k, Ordered(k), NEW n, n.dbq = k.dbq, n.dones = k.dones,
           n.state.generation = k.state.generation, n.state.ready => NoRemovals(k)
    PROVE  Ordered(n)
<1>1. \A x : Current(n, x) <=> Current(k, x)
  BY Zenon DEF Current
<1> QED  BY <1>1, Zenon DEF Ordered, NoRemovals

LEMMA AlikeGood ==
    ASSUME NEW k, NEW u, Good(k, u), NEW n, Alike(n, k), n.calls = k.calls,
           DOMAIN n = DOMAIN k, DOMAIN n.auth = AuthFields, n.auth.timer = k.auth.timer
    PROVE  Good(n, u)
<1>1. /\ Thens(n) = Thens(k) /\ Replies(n) = Replies(k)
      /\ \A x : Current(n, x) <=> Current(k, x)
  BY Zenon DEF Alike, Thens, Replies, Current
<1>2. On(n) <=> On(k)
  BY Zenon DEF Alike, On
<1>3. Sound(n)
  BY <1>1, <1>2, Zenon DEF Alike, Good, Sound, Whole, Shape, Lists, Stamps, Links
<1>4. Wired(n)
  BY <1>1, <1>2, Zenon DEF Alike, Good, Wired
<1>5. Fresh(n)
  BY <1>1, Zenon DEF Alike, Good, Fresh
<1>6. Ordered(n)
  BY <1>1, Zenon DEF Alike, Good, Ordered, NoRemovals
<1>7. \A v : Told(n, v) <=> Told(k, v)
  BY <1>1, Zenon DEF Alike, Told
<1>8. Follows(n, u)
  BY <1>7, Zenon DEF Alike, Good, Follows
<1> QED  BY <1>3, <1>4, <1>5, <1>6, <1>8, Zenon DEF Good

LEMMA MethodGood ==
    ASSUME NEW k, NEW u, Good(k, u), On(k), NEW method, NEW why,
           \/ k.auth.synchronized
           \/ why = "initial" /\ method \notin {"RemoveUserDone", "SwitchUserDone"}
    PROVE  Good(Method(k, method, why), u) /\ Alike(Method(k, method, why), k)
<1> DEFINE call == [method |-> method, why |-> why, generation |-> k.state.generation]
           n == Method(k, method, why)
<1>1. /\ DOMAIN n = DOMAIN k /\ n.auth = k.auth /\ n.state = k.state /\ n.bus = k.bus
      /\ n.dbq = k.dbq /\ n.dones = k.dones /\ n.missed = k.missed
      /\ n.calls = Append(k.calls, call)
  BY Zenon DEF Method, Good, Sound, Whole, Shape
<1>2. /\ call.method = method /\ call.why = why /\ call.generation = k.state.generation
      /\ k.state.generation \in Nat
  BY Zenon DEF Good, Sound, Whole, Shape, Counts
<1> HIDE DEF n, call
<1>3. IsList(n.calls) /\ Items(n.calls) = Items(k.calls) \cup {call}
  <2>1. IsList(k.calls)
    BY Zenon DEF Good, Sound, Whole, Lists
  <2>2. IsList(Append(k.calls, call)) /\ Items(Append(k.calls, call)) = Items(k.calls) \cup {call}
    BY <2>1, ItemsAppend, Zenon
  <2> QED  BY <1>1, <2>2, Zenon
<1>4. /\ Thens(n) = Thens(k) /\ Replies(n) = Replies(k) /\ (On(n) <=> On(k))
      /\ \A x : Current(n, x) <=> Current(k, x)
  BY <1>1, Zenon DEF Thens, Replies, Current, On
<1>5. Stamped(call, k.state.generation)
  BY <1>2 DEF Stamped
<1>6. Sound(n)
  <2>1. Whole(n) /\ Links(n)
    BY <1>1, <1>3, <1>4, Zenon DEF Good, Sound, Whole, Shape, Lists, Links
  <2>2. Stamps(n, n.state.generation)
    BY <1>1, <1>3, <1>4, <1>5, Zenon DEF Good, Sound, Stamps
  <2> QED  BY <2>1, <2>2, Zenon DEF Sound
<1>7. Wired(n)
  BY <1>1, <1>3, <1>4, Zenon DEF Good, Wired
<1>8. Fresh(n)
  BY <1>1, <1>2, <1>3, <1>4, Zenon DEF Good, Fresh, First
<1>9. Ordered(n)
  BY <1>1, <1>4, Zenon DEF Good, Ordered, NoRemovals
<1>10. \A v : Told(n, v) <=> Told(k, v)
  BY <1>1, <1>4, Zenon DEF Told
<1>11. Follows(n, u)
  BY <1>1, <1>10, Zenon DEF Good, Follows
<1>12. Good(n, u) /\ Alike(n, k)
  BY <1>1, <1>6, <1>7, <1>8, <1>9, <1>11, Zenon DEF Good, Alike
<1> QED  BY <1>12, Zenon DEF n

(* The barrier of a read.                                                  *)
LEMMA ReadBarrierGood ==
    ASSUME NEW k, NEW u, Good(k, u), On(k), NEW retire, NEW w,
           k.auth.synchronized \/ retire,
           \A v : Told(k, v) => v = w,
           (\A m \in Items(k.bus) : ~News(m)) => w = u,
           NEW n \in Barrier(k, retire, NoUser, "read", w)
    PROVE  Good(n, u) /\ Moves(n, k) /\ \A v : Covered(k, v) => Covered(n, v)
<1> DEFINE job == Job(k, retire, NoUser, "read", w)
<1>1. Sound(k) /\ k.state.generation \in Nat
  BY Zenon DEF Good, Sound, Whole, Shape, Counts
<1>2. CASE Refused(n, k, NoUser)
  <2>1. Good(n, u)
    BY <1>2, ClearIsGood, Zenon DEF Refused
  <2>2. n.state.generation = k.state.generation + 1
    BY <1>2, Zenon DEF Refused
  <2>3. Moves(n, k)
    BY <1>1, <2>2 DEF Moves
  <2>4. \A d \in Items(n.dones) : ~Current(n, d.then)
    BY <1>2, ClearCounts, ThenOf, Zenon DEF Refused
  <2>5. /\ n.auth = k.auth /\ n.bus = k.bus /\ n.dbq = k.dbq
        /\ k.missed \subseteq n.missed
    BY <1>2, Zenon DEF Refused
  <2> QED  BY <2>1, <2>3, <2>4, <2>5, Zenon DEF Covered
<1>3. CASE Queued(n, k, job)
  <2>1. /\ n.auth = k.auth /\ n.state = k.state /\ n.bus = k.bus /\ n.calls = k.calls
        /\ n.dones = k.dones /\ n.missed = k.missed /\ n.dbq = Append(k.dbq, job) /\ Whole(n)
        /\ Items(n.dbq) = Items(k.dbq) \cup {job}
        /\ Thens(n) = Thens(k) \cup {job.then} /\ Replies(n) = Replies(k)
    BY <1>3, Zenon DEF Queued
  <2>2. /\ job.then.kind = "read" /\ IsRead(job.then) /\ job.then.generation = k.state.generation
        /\ job.then.user = w /\ job.removed = NoUser /\ job.retire = retire
    BY Zenon DEF Job, IsRead
  <2> HIDE DEF job
  <2>3. (On(n) <=> On(k)) /\ \A x : Current(n, x) <=> Current(k, x)
    BY <2>1, Zenon DEF On, Current
  <2>4. Stamped(job.then, n.state.generation)
    BY <1>1, <2>1, <2>2 DEF Stamped
  <2>5. Sound(n)
    <3>1. Stamps(n, n.state.generation)
      BY <1>1, <2>1, <2>4, Zenon DEF Stamps, Sound
    <3>2. Links(n)
      BY <1>1, <2>1, <2>3, Zenon DEF Sound, Links
    <3> QED  BY <2>1, <3>1, <3>2, Zenon DEF Sound
  <2>6. Wired(n)
    BY <2>1, <2>2, <2>3, Zenon DEF Wired, Good
  <2>7. Fresh(n)
    BY <2>1, <2>2, <2>3, Zenon DEF Fresh, Good
  <2>8. Ordered(n)
    <3>1. /\ Len(k.dbq) \in Nat /\ Len(n.dbq) = Len(k.dbq) + 1
          /\ n.dbq[Len(k.dbq) + 1] = job
          /\ \A i \in 1..Len(k.dbq) : n.dbq[i] = k.dbq[i]
      <4>1. IsList(k.dbq)
        BY <1>1, Zenon DEF Sound, Whole, Lists
      <4>2. n.dbq = Append(k.dbq, job)
        BY <2>1, Zenon
      <4>3. /\ Len(k.dbq) \in Nat /\ Len(Append(k.dbq, job)) = Len(k.dbq) + 1
            /\ Append(k.dbq, job)[Len(k.dbq) + 1] = job
            /\ \A i \in 1..Len(k.dbq) : Append(k.dbq, job)[i] = k.dbq[i]
        BY <4>1, ItemsAppend
      <4> QED  BY <4>2, <4>3, Zenon
    <3>2. ASSUME NEW i \in 1..Len(n.dbq), NEW j \in 1..Len(n.dbq), i < j,
                 Current(n, n.dbq[i].then)
          PROVE  n.dbq[j].removed = NoUser /\ n.dbq[j].then.kind # "lose"
      <4>1. i \in 1..Len(k.dbq) /\ (j \in 1..Len(k.dbq) \/ j = Len(k.dbq) + 1)
        BY <3>1, <3>2
      <4>2. CASE j = Len(k.dbq) + 1
        BY <2>2, <3>1, <4>2, Zenon
      <4>3. CASE j \in 1..Len(k.dbq)
        BY <2>3, <3>1, <3>2, <4>1, <4>3, Zenon DEF Good, Ordered
      <4> QED  BY <4>1, <4>2, <4>3, Zenon
    <3>3. \A j \in Items(n.dbq) : j \in Items(k.dbq) \/ j = job
      BY <2>1, Zenon
    <3>4. k.state.ready => NoRemovals(n)
      BY <2>2, <3>3, Zenon DEF Good, Ordered, NoRemovals
    <3>5. (\E d \in Items(k.dones) : Current(k, d.then)) =>
             \A j \in Items(n.dbq) :
                j.removed = NoUser /\ ~(Current(n, j.then) /\ j.then.kind = "lose")
      BY <2>2, <2>3, <3>3, Zenon DEF Good, Ordered
    <3>6. \A i, j \in 1..Len(k.dones) : i < j /\ Current(k, k.dones[i].then) =>
              ~(Current(k, k.dones[j].then) /\ k.dones[j].then.kind = "lose")
      BY Zenon DEF Good, Ordered
    <3> QED  BY <2>1, <2>3, <3>2, <3>4, <3>5, <3>6, Zenon DEF Ordered
  <2>9. \A v : Told(n, v) => v = w
    <3>1. \A v : Told(n, v) => Told(k, v) \/ v = w
      BY <2>1, <2>2, <2>3, Zenon DEF Told
    <3> QED  BY <3>1, Zenon
  <2>10. Follows(n, u)
    BY <2>1, <2>9, Zenon DEF Follows
  <2>11. Good(n, u)
    BY <2>5, <2>6, <2>7, <2>8, <2>10, Zenon DEF Good
  <2>12. Moves(n, k)
    BY <2>1, Zenon DEF Moves
  <2>13. \A v : Covered(k, v) => Covered(n, v)
    BY <2>1, <2>3, Zenon DEF Covered
  <2> QED  BY <2>11, <2>12, <2>13, Zenon
<1> QED  BY <1>1, <1>2, <1>3, BarrierEnds, Zenon

-----------------------------------------------------------------------------
(* What the main thread takes up.                                          *)
LEMMA BusPopped ==
    ASSUME NEW k, NEW u, Good(k, u), k.bus # <<>>,
           NEW n, DOMAIN n = DOMAIN k, \A f \in DOMAIN k : f # "bus" => n[f] = k[f],
           n.bus = Tail(k.bus)
    PROVE  /\ Sound(n) /\ n.auth = k.auth /\ n.state = k.state
           /\ ~News(Head(k.bus)) => Good(n, u) /\ \A v : Told(n, v) => Told(k, v)
           /\ ~News(Head(k.bus)) /\ (\A m \in Items(n.bus) : ~News(m)) =>
                 \A m \in Items(k.bus) : ~News(m)
           /\ \A v : Covered(k, v) =>
                 \/ Covered(n, v)
                 \/ Head(k.bus).kind = "removing" /\ Head(k.bus).user = v
<1>1. /\ n.auth = k.auth /\ n.state = k.state /\ n.calls = k.calls /\ n.dbq = k.dbq
      /\ n.dones = k.dones /\ n.missed = k.missed
  BY Zenon DEF Good, Sound, Whole, Shape
<1>2. /\ IsList(n.bus) /\ Len(k.bus) \in Nat \ {0} /\ Len(n.bus) = Len(k.bus) - 1
      /\ \A i \in 1..Len(n.bus) : n.bus[i] = k.bus[i + 1] /\ i + 1 \in 1..Len(k.bus)
      /\ Head(k.bus) = k.bus[1]
      /\ Items(k.bus) = {Head(k.bus)} \cup Items(n.bus)
  <2>1. IsList(k.bus)
    BY Zenon DEF Good, Sound, Whole, Lists
  <2>2. /\ IsList(Tail(k.bus)) /\ Len(k.bus) \in Nat \ {0}
        /\ Len(Tail(k.bus)) = Len(k.bus) - 1
        /\ \A i \in 1..Len(Tail(k.bus)) :
              Tail(k.bus)[i] = k.bus[i + 1] /\ i + 1 \in 1..Len(k.bus)
        /\ Head(k.bus) = k.bus[1]
        /\ Items(k.bus) = {Head(k.bus)} \cup Items(Tail(k.bus))
    BY <2>1, ItemsTail
  <2> QED  BY <2>2, Zenon
<1>3. /\ Thens(n) = Thens(k) /\ Replies(n) \subseteq Replies(k) /\ (On(n) <=> On(k))
      /\ \A x : Current(n, x) <=> Current(k, x)
  BY <1>1, <1>2, Zenon DEF Thens, Replies, Current, On
<1>4. Sound(n)
  <2>1. Whole(n) /\ Links(n)
    BY <1>1, <1>2, <1>3, Zenon DEF Good, Sound, Whole, Shape, Lists, Links
  <2>2. Stamps(n, n.state.generation)
    BY <1>1, <1>3, Zenon DEF Good, Sound, Stamps
  <2> QED  BY <2>1, <2>2, Zenon DEF Sound
<1>5. Wired(n) /\ Fresh(n)
  BY <1>1, <1>3, Zenon DEF Good, Wired, Fresh
<1>6. Ordered(n)
  BY <1>1, <1>3, Zenon DEF Good, Ordered, NoRemovals
<1>7. ASSUME ~News(Head(k.bus)), NEW v, Told(n, v) PROVE Told(k, v)
  <2>1. ASSUME NEW i \in 1..Len(n.bus), IsReply(n.bus[i]), Current(n, n.bus[i].call),
               n.bus[i].user = v, \A j \in 1..i : ~News(n.bus[j])
        PROVE  Told(k, v)
    <3>1. \A j \in 1..(i + 1) :
             j = 1 \/ (j - 1 \in 1..i /\ j - 1 \in 1..Len(n.bus) /\ (j - 1) + 1 = j)
      BY <1>2
    <3>2. \A j \in 1..(i + 1) : ~News(k.bus[j])
      BY <1>2, <1>7, <2>1, <3>1, ZenonT(60)
    <3>3. n.bus[i] = k.bus[i + 1] /\ i + 1 \in 1..Len(k.bus)
      BY <1>2, Zenon
    <3> QED  BY <1>3, <2>1, <3>2, <3>3, Zenon DEF Told
  <2>2. CASE k.state.ready /\ k.state.user = v
    BY <2>2, Zenon DEF Told
  <2>3. CASE \E t \in Thens(k) : Current(k, t) /\ IsRead(t) /\ t.user = v
    BY <2>3, Zenon DEF Told
  <2> QED  BY <1>1, <1>3, <1>7, <2>1, <2>2, <2>3, Zenon DEF Told
<1>8. ~News(Head(k.bus)) /\ (\A m \in Items(n.bus) : ~News(m)) => \A m \in Items(k.bus) : ~News(m)
  BY <1>2, Zenon
<1>9. ~News(Head(k.bus)) => Follows(n, u)
  BY <1>7, <1>8, Zenon DEF Good, Follows
<1>10. ASSUME NEW v, Covered(k, v)
       PROVE  Covered(n, v) \/ (Head(k.bus).kind = "removing" /\ Head(k.bus).user = v)
  BY <1>1, <1>2, <1>3, <1>10, Zenon DEF Covered
<1> QED  BY <1>1, <1>4, <1>5, <1>6, <1>7, <1>8, <1>9, <1>10, Zenon DEF Good

LEMMA ReplyTold ==
    ASSUME NEW k, NEW u, Good(k, u), k.bus # <<>>, IsReply(Head(k.bus)),
           Current(k, Head(k.bus).call)
    PROVE  /\ Told(k, Head(k.bus).user) /\ On(k)
           /\ k.auth.synchronized \/ First(Head(k.bus).call)
<1>1. Len(k.bus) \in Nat \ {0} /\ Head(k.bus) = k.bus[1] /\ Head(k.bus) \in Items(k.bus)
  <2>1. IsList(k.bus)
    BY Zenon DEF Good, Sound, Whole, Lists
  <2> QED  BY <2>1, ItemsTail, Zenon
<1>2. 1 \in 1..Len(k.bus) /\ \A j \in 1..1 : j = 1
  BY <1>1
<1>3. ~News(k.bus[1])
  BY <1>1, Zenon DEF News, IsReply
<1>4. Head(k.bus) \in Replies(k)
  BY <1>1, Zenon DEF Replies
<1>5. Told(k, Head(k.bus).user)
  BY <1>1, <1>2, <1>3, Zenon DEF Told
<1> QED  BY <1>4, <1>5, Zenon DEF Good, Wired, Fresh

(* A step of the main thread from one view to another.                     *)
Steps(n, k, u) ==
    Good(n, u) /\ Moves(n, k) /\ \A v \in Users : Covered(k, v) => Covered(n, v)

LEMMA LoseSteps == ASSUME NEW k, Sound(k), NEW u, NEW n \in Lose(k) PROVE Steps(n, k, u)
BY LoseGood, Zenon DEF Steps, Moves

(* Over a fence, while synchronized, a barrier covers what was covered and *)
(* what it removes.                                                        *)
LEMMA FenceBarrierSteps ==
    ASSUME NEW k, NEW f, Clear(f), k.state.generation \in Nat,
           f.state.generation = k.state.generation + 1,
           On(f), f.auth.synchronized, f.auth.link = k.auth.link,
           f.bus = k.bus, f.dbq = k.dbq, f.missed = k.missed, k.auth.synchronized,
           NEW removed, NEW u, NEW kind \in {"remove", "switch"},
           NEW n \in Barrier(f, FALSE, removed, kind, NoUser)
    PROVE  Steps(n, k, u) /\ \A v \in Users : v = removed => Covered(n, v)
<1> DEFINE job == Job(f, FALSE, removed, kind, NoUser)
<1>1. Good(n, u)
  <2>1. kind \in {"lose", "remove", "switch"} /\ kind # "lose"
    OBVIOUS
  <2> QED  BY <2>1, FenceBarrierGood, Zenon
<1>2. Queued(n, f, job) \/ Refused(n, f, removed)
  BY ClearIsGood, BarrierEnds, Zenon DEF Good
<1>3. job.removed = removed
  BY Zenon DEF Job
<1> HIDE DEF job
<1>4. n.state.generation = f.state.generation \/ n.state.generation = f.state.generation + 1
  BY <1>2, Zenon DEF Queued, Refused
<1>5. Moves(n, k)
  BY <1>4 DEF Moves
<1>6. n.auth = f.auth /\ n.bus = f.bus /\ f.missed \subseteq n.missed
  BY <1>2, Zenon DEF Queued, Refused
<1>7. Items(f.dbq) \subseteq Items(n.dbq)
  BY <1>2, Zenon DEF Queued, Refused
<1>8. \A v : Covered(k, v) => Covered(n, v)
  BY <1>6, <1>7, Zenon DEF Covered
<1>9. ASSUME NEW v \in Users, v = removed PROVE Covered(n, v)
  <2>1. CASE Queued(n, f, job)
    BY <1>3, <1>9, <2>1, Zenon DEF Queued, Covered
  <2>2. CASE Refused(n, f, removed)
    BY <1>9, <2>2, ProfilesAssumption, Zenon DEF Refused, Covered
  <2> QED  BY <1>2, <2>1, <2>2, Zenon
<1> QED  BY <1>1, <1>5, <1>8, <1>9, Zenon DEF Steps

-----------------------------------------------------------------------------
(* The handlers.                                                           *)
LEMMA RemoveStartedSteps ==
    ASSUME NEW k, Sound(k), k.auth.link = "watching", NEW user, NEW u,
           NEW n \in OnRemoveUserStarted(k, user)
    PROVE  Steps(n, k, u) /\ \A v \in Users : v = user => Covered(n, v)
<1>1. CASE ~k.auth.synchronized
  <2>1. n \in Lose(k)
    BY <1>1, Zenon DEF OnRemoveUserStarted
  <2> QED  BY <2>1, LoseSteps, LoseGood, Zenon
<1>2. CASE k.auth.synchronized
  <2> DEFINE f == Fenced(k)
  <2>1. n \in Barrier(f, FALSE, user, "remove", NoUser)
    BY <1>2, Zenon DEF OnRemoveUserStarted
  <2>2. /\ Clear(f) /\ f.state.generation = k.state.generation + 1
        /\ f.auth = k.auth /\ f.bus = k.bus /\ f.dbq = k.dbq /\ f.missed = k.missed
        /\ k.state.generation \in Nat
    BY FencedIsClear, Zenon DEF Sound, Whole, Shape, Counts
  <2> HIDE DEF f
  <2>3. On(f)
    BY <1>2, <2>2, Zenon DEF Clear, Links, On
  <2> QED  BY <1>2, <2>1, <2>2, <2>3, FenceBarrierSteps, Zenon
<1> QED  BY <1>1, <1>2, Zenon

LEMMA SwitchStartedSteps ==
    ASSUME NEW k, Sound(k), k.auth.link = "watching", NEW s, NEW u,
           NEW n \in OnSwitchUserStarted(k, s)
    PROVE  Steps(n, k, u)
<1> DEFINE f == Fenced(k)
           started == [f EXCEPT !.auth.pending = s, !.auth.barrierDone = FALSE,
                                !.auth.acknowledged = FALSE, !.auth.completed = FALSE,
                                !.auth.timer = "switch"]
<1>1. \/ n \in Lose(k) \/ n \in Lose(f)
      \/ k.auth.synchronized /\ n \in Barrier(started, FALSE, NoUser, "switch", NoUser)
  BY ZenonT(60) DEF OnSwitchUserStarted
<1>2. /\ Clear(f) /\ f.state.generation = k.state.generation + 1
      /\ f.auth = k.auth /\ f.bus = k.bus /\ f.dbq = k.dbq /\ f.missed = k.missed
      /\ k.state.generation \in Nat
  BY FencedIsClear, Zenon DEF Sound, Whole, Shape, Counts
<1> HIDE DEF f
<1>3. CASE n \in Lose(k)
  BY <1>3, LoseSteps, Zenon
<1>4. CASE n \in Lose(f)
  <2>1. Sound(f)
    BY <1>2, ClearIsGood, Zenon DEF Good
  <2>2. Good(n, u) /\ f.state.generation < n.state.generation /\ \A v : Covered(n, v)
    BY <1>4, <2>1, LoseGood, Zenon
  <2>3. n.state.generation \in Nat
    BY <2>2, Zenon DEF Good, Sound, Whole, Shape, Counts
  <2>4. Moves(n, k)
    BY <1>2, <2>2, <2>3 DEF Moves
  <2> QED  BY <2>2, <2>4, Zenon DEF Steps
<1>5. CASE k.auth.synchronized /\ n \in Barrier(started, FALSE, NoUser, "switch", NoUser)
  <2>1. /\ DOMAIN started = DOMAIN f /\ started.state = f.state /\ started.bus = f.bus
        /\ started.calls = f.calls /\ started.dbq = f.dbq /\ started.dones = f.dones
        /\ started.missed = f.missed
    BY <1>2, Zenon DEF Clear, Whole, Shape
  <2>2. /\ DOMAIN started.auth = AuthFields /\ started.auth.timer = "switch"
        /\ started.auth.link = f.auth.link
        /\ started.auth.initialized = f.auth.initialized
        /\ started.auth.synchronized = f.auth.synchronized
    BY <1>2, Zenon DEF Clear, Whole, Shape, AuthFields
  <2> HIDE DEF started
  <2>3. Shape(started) /\ Links(started) /\ On(started)
    BY <1>2, <1>5, <2>1, <2>2, Zenon DEF Clear, Whole, Shape, Links, On
  <2>4. Clear(started)
    BY <1>2, <2>1, <2>2, <2>3, ClearAgain, Zenon
  <2>5. /\ started.state.generation = k.state.generation + 1 /\ started.bus = k.bus
        /\ started.dbq = k.dbq /\ started.missed = k.missed
        /\ started.auth.link = k.auth.link /\ started.auth.synchronized
    BY <1>2, <1>5, <2>1, <2>2, Zenon
  <2> QED  BY <1>2, <1>5, <2>3, <2>4, <2>5, FenceBarrierSteps, Zenon
<1> QED  BY <1>1, <1>3, <1>4, <1>5, ZenonT(60)

LEMMA AlikeSteps ==
    ASSUME NEW k, NEW n, Alike(n, k), NEW u, Good(n, u) PROVE Steps(n, k, u)
<1>1. Moves(n, k)
  BY Zenon DEF Alike, Moves
<1> QED  BY <1>1, AlikeCovered, Zenon DEF Steps

LEMMA AlikeTwice ==
    ASSUME NEW a, NEW b, NEW c, Alike(a, b), Alike(b, c) PROVE Alike(a, c)
BY Zenon DEF Alike

(* A flag of the authority is set.                                         *)
LEMMA FlagAlike ==
    ASSUME NEW k, NEW u, Good(k, u),
           NEW flag \in {"completed", "acknowledged", "barrierDone"},
           NEW n, n = [k EXCEPT !.auth[flag] = TRUE]
    PROVE  Good(n, u) /\ Alike(n, k) /\ On(n) = On(k)
           /\ n.auth.synchronized = k.auth.synchronized
<1>1. /\ DOMAIN n = DOMAIN k /\ n.state = k.state /\ n.bus = k.bus /\ n.calls = k.calls
      /\ n.dbq = k.dbq /\ n.dones = k.dones /\ n.missed = k.missed
  BY Zenon DEF Good, Sound, Whole, Shape
<1>2. n.auth = [k.auth EXCEPT ![flag] = TRUE]
  BY Zenon DEF Good, Sound, Whole, Shape
<1>3. /\ DOMAIN n.auth = AuthFields /\ n.auth.link = k.auth.link
      /\ n.auth.initialized = k.auth.initialized /\ n.auth.timer = k.auth.timer
      /\ n.auth.synchronized = k.auth.synchronized
  <2>1. DOMAIN k.auth = AuthFields
    BY Zenon DEF Good, Sound, Whole
  <2>2. flag \notin {"link", "initialized", "timer", "synchronized"}
    OBVIOUS
  <2> QED  BY <1>2, <2>1, <2>2, ZenonT(60) DEF AuthFields
<1>4. Alike(n, k)
  BY <1>1, <1>3, Zenon DEF Alike
<1>5. Good(n, u)
  BY <1>1, <1>3, <1>4, AlikeGood, Zenon
<1> QED  BY <1>3, <1>4, <1>5, Zenon DEF On

LEMMA ReadWhenOverGood ==
    ASSUME NEW k, NEW u, Good(k, u), On(k), k.auth.synchronized
    PROVE  Good(ReadWhenOver(k), u) /\ Alike(ReadWhenOver(k), k)
<1>1. Good(Read(k, "switch"), u) /\ Alike(Read(k, "switch"), k)
  BY MethodGood, Zenon DEF Read
<1>2. Alike(k, k)
  BY Zenon DEF Alike
<1> QED  BY <1>1, <1>2, Zenon DEF ReadWhenOver

LEMMA SwitchCompletedSteps ==
    ASSUME NEW k, NEW u, Good(k, u), k.auth.link = "watching", NEW s,
           NEW n \in OnSwitchUserCompleted(k, s)
    PROVE  Steps(n, k, u)
<1> DEFINE over == [k EXCEPT !.auth.completed = TRUE]
<1>1. n \in Lose(k) \/ (k.auth.synchronized /\ n = ReadWhenOver(over))
  BY Zenon DEF OnSwitchUserCompleted
<1>2. CASE n \in Lose(k)
  BY <1>2, LoseSteps, Zenon DEF Good
<1>3. CASE k.auth.synchronized /\ n = ReadWhenOver(over)
  <2>1. On(k)
    BY <1>3, Zenon DEF Good, Sound, Links
  <2>2. Good(over, u) /\ Alike(over, k) /\ On(over) /\ over.auth.synchronized
    <3> DEFINE flag == "completed"
    <3>1. over = [k EXCEPT !.auth[flag] = TRUE] /\ flag \in {"completed", "acknowledged", "barrierDone"}
      BY Zenon
    <3> HIDE DEF flag, over
    <3>2. /\ Good(over, u) /\ Alike(over, k) /\ On(over) = On(k)
          /\ over.auth.synchronized = k.auth.synchronized
      BY <3>1, FlagAlike, ZenonT(60)
    <3> QED  BY <1>3, <2>1, <3>2, ZenonT(60)
  <2> HIDE DEF over
  <2>3. Good(n, u) /\ Alike(n, over)
    BY <1>3, <2>2, ReadWhenOverGood, Zenon
  <2> QED  BY <2>2, <2>3, AlikeTwice, AlikeSteps, Zenon
<1> QED  BY <1>1, <1>2, <1>3, Zenon

LEMMA AcknowledgedSteps ==
    ASSUME NEW k, NEW u, Good(k, u), On(k), k.auth.synchronized
    PROVE  Steps(ReadWhenOver([k EXCEPT !.auth.acknowledged = TRUE]), k, u)
<1> DEFINE acknowledged == [k EXCEPT !.auth.acknowledged = TRUE]
           n == ReadWhenOver(acknowledged)
<1>1. /\ Good(acknowledged, u) /\ Alike(acknowledged, k) /\ On(acknowledged)
      /\ acknowledged.auth.synchronized
  BY FlagAlike, Zenon
<1> HIDE DEF acknowledged
<1>2. Good(n, u) /\ Alike(n, acknowledged)
  BY <1>1, ReadWhenOverGood, Zenon
<1> HIDE DEF n
<1>3. Steps(n, k, u)
  BY <1>1, <1>2, AlikeTwice, AlikeSteps, Zenon
<1> QED  BY <1>3, Zenon DEF n, acknowledged

LEMMA MethodFinishedSteps ==
    ASSUME NEW V, NEW u, Good(V, u), V.bus # <<>>, ~News(Head(V.bus)),
           Head(V.bus).kind \notin {"started", "completed", "removing", "vanished"},
           NEW k, DOMAIN k = DOMAIN V, \A f \in DOMAIN V : f # "bus" => k[f] = V[f],
           k.bus = Tail(V.bus),
           NEW n \in OnMethodFinished(k, Head(V.bus))
    PROVE  Steps(n, k, u)
<1> DEFINE m == Head(V.bus)
<1>1. /\ Good(k, u) /\ k.auth = V.auth /\ k.state = V.state
      /\ \A v : Told(k, v) => Told(V, v)
      /\ (\A x \in Items(k.bus) : ~News(x)) => \A x \in Items(V.bus) : ~News(x)
  <2>1. ~News(m)
    OBVIOUS
  <2> QED  BY <2>1, BusPopped, ZenonT(60)
<1>2. CASE m.call.generation # k.state.generation
  <2>1. n = k
    BY <1>2, Zenon DEF OnMethodFinished
  <2>2. Alike(k, k)
    BY Zenon DEF Alike
  <2> QED  BY <1>1, <2>1, <2>2, AlikeSteps, Zenon
<1>3. CASE n \in Lose(k)
  BY <1>1, <1>3, LoseSteps, Zenon DEF Good
<1>4. CASE m.call.generation = k.state.generation /\ m.kind # "noReply"
  <2>1. IsReply(m) /\ Current(V, m.call)
    BY <1>1, <1>4, Zenon DEF IsReply, Current
  <2>2. Told(V, m.user) /\ On(k) /\ (k.auth.synchronized \/ First(m.call))
    <3>1. Told(V, m.user) /\ On(V) /\ (V.auth.synchronized \/ First(m.call))
      BY <2>1, ReplyTold, Zenon
    <3> QED  BY <1>1, <3>1, Zenon DEF On
  <2>3. CASE m.call.method = "SwitchUserWait"
    <3>1. n = Method(k, "RemoveUserWait", "initial")
      BY <1>4, <2>3, Zenon DEF OnMethodFinished
    <3>2. Good(n, u) /\ Alike(n, k)
      BY <1>1, <2>2, <3>1, MethodGood, Zenon
    <3> QED  BY <3>2, AlikeSteps, Zenon
  <2>4. CASE m.call.method = "RemoveUserWait"
    <3>1. n = Method(k, "GetCurrentUser", "initial")
      BY <1>4, <2>4, Zenon DEF OnMethodFinished, Read
    <3>2. Good(n, u) /\ Alike(n, k)
      BY <1>1, <2>2, <3>1, MethodGood, Zenon
    <3> QED  BY <3>2, AlikeSteps, Zenon
  <2>5. CASE m.call.method = "RemoveUserDone"
    <3>1. n = Method(k, "GetCurrentUser", "removal") /\ k.auth.synchronized
      BY <1>4, <2>2, <2>5, Zenon DEF OnMethodFinished, Read, First
    <3>2. Good(n, u) /\ Alike(n, k)
      BY <1>1, <2>2, <3>1, MethodGood, Zenon
    <3> QED  BY <3>2, AlikeSteps, Zenon
  <2>6. CASE m.call.method = "SwitchUserDone"
    <3>1. n = ReadWhenOver([k EXCEPT !.auth.acknowledged = TRUE]) /\ k.auth.synchronized
      BY <1>4, <2>2, <2>6, Zenon DEF OnMethodFinished, First
    <3>2. Good(k, u) /\ On(k)
      BY <1>1, <2>2, Zenon
    <3> QED  BY <3>1, <3>2, AcknowledgedSteps, Zenon
  <2>7. CASE /\ n \notin Lose(k)
             /\ m.call.method \notin {"SwitchUserWait", "RemoveUserWait", "RemoveUserDone",
                                      "SwitchUserDone"}
    <3>1. n \in Barrier(k, m.call.why = "initial", NoUser, "read", m.user)
      BY <1>4, <2>7 DEF OnMethodFinished
    <3>2. k.auth.synchronized \/ m.call.why = "initial"
      BY <2>2, Zenon DEF First
    <3>3. \A v : Told(k, v) => v = m.user
      BY <1>1, <2>2, Zenon DEF Good, Follows
    <3>4. (\A x \in Items(k.bus) : ~News(x)) => m.user = u
      BY <1>1, <2>2, Zenon DEF Good, Follows
    <3> DEFINE retire == m.call.why = "initial"
               w == m.user
    <3>5. n \in Barrier(k, retire, NoUser, "read", w) /\ (k.auth.synchronized \/ retire)
      BY <3>1, <3>2, Zenon
    <3>6. /\ \A v : Told(k, v) => v = w
          /\ (\A x \in Items(k.bus) : ~News(x)) => w = u
      BY <3>3, <3>4, Zenon
    <3>7. Good(k, u) /\ On(k)
      BY <1>1, <2>2, Zenon
    <3> HIDE DEF retire, w
    <3> QED  BY <3>5, <3>6, <3>7, ReadBarrierGood, Zenon DEF Steps
  <2> QED  BY <1>3, <2>3, <2>4, <2>5, <2>6, <2>7, Zenon
<1>5. CASE m.call.generation = k.state.generation /\ m.kind = "noReply"
  <2>1. n \in Lose(k)
    BY <1>5, Zenon DEF OnMethodFinished
  <2> QED  BY <1>3, <2>1, Zenon
<1> QED  BY <1>2, <1>4, <1>5, Zenon

-----------------------------------------------------------------------------
(* The result of a barrier.                                                *)
LEMMA DonePopped ==
    ASSUME NEW k, NEW u, Good(k, u), k.dones # <<>>,
           NEW n, DOMAIN n = DOMAIN k, \A f \in DOMAIN k : f # "dones" => n[f] = k[f],
           n.dones = Tail(k.dones)
    PROVE  /\ Good(n, u) /\ n.auth = k.auth /\ n.state = k.state
           /\ \A v : Told(n, v) => Told(k, v)
           /\ \A v : Covered(k, v) => Covered(n, v)
           /\ Current(k, Head(k.dones).then) /\ Head(k.dones).then.kind = "lose" =>
                 \A t \in Thens(n) : ~(Current(n, t) /\ t.kind = "lose")
           /\ Current(k, Head(k.dones).then) => NoRemovals(n)
<1> DEFINE h == Head(k.dones)
<1>1. /\ n.auth = k.auth /\ n.state = k.state /\ n.calls = k.calls /\ n.dbq = k.dbq
      /\ n.bus = k.bus /\ n.missed = k.missed
  BY Zenon DEF Good, Sound, Whole, Shape
<1>2. /\ IsList(n.dones) /\ Len(k.dones) \in Nat \ {0} /\ Len(n.dones) = Len(k.dones) - 1
      /\ \A i \in 1..Len(n.dones) : n.dones[i] = k.dones[i + 1] /\ i + 1 \in 1..Len(k.dones)
      /\ h = k.dones[1]
      /\ Items(k.dones) = {h} \cup Items(n.dones)
  <2>1. IsList(k.dones)
    BY Zenon DEF Good, Sound, Whole, Lists
  <2>2. /\ IsList(Tail(k.dones)) /\ Len(k.dones) \in Nat \ {0}
        /\ Len(Tail(k.dones)) = Len(k.dones) - 1
        /\ \A i \in 1..Len(Tail(k.dones)) :
              Tail(k.dones)[i] = k.dones[i + 1] /\ i + 1 \in 1..Len(k.dones)
        /\ h = k.dones[1]
        /\ Items(k.dones) = {h} \cup Items(Tail(k.dones))
    BY <2>1, ItemsTail
  <2> QED  BY <2>2, Zenon
<1> HIDE DEF h
<1>3. /\ Thens(n) \subseteq Thens(k) /\ Replies(n) = Replies(k) /\ (On(n) <=> On(k))
      /\ \A x : Current(n, x) <=> Current(k, x)
      /\ Items(n.dones) \subseteq Items(k.dones)
  BY <1>1, <1>2, Zenon DEF Thens, Replies, Current, On
<1>4. Sound(n)
  <2>1. Whole(n) /\ Links(n)
    BY <1>1, <1>2, <1>3, Zenon DEF Good, Sound, Whole, Shape, Lists, Links
  <2>2. Stamps(n, n.state.generation)
    BY <1>1, <1>3, Zenon DEF Good, Sound, Stamps
  <2> QED  BY <2>1, <2>2, Zenon DEF Sound
<1>5. Wired(n) /\ Fresh(n)
  BY <1>1, <1>3, Zenon DEF Good, Wired, Fresh
<1>6. Ordered(n)
  <2>1. ASSUME NEW i \in 1..Len(n.dones), NEW j \in 1..Len(n.dones), i < j,
               Current(n, n.dones[i].then)
        PROVE  ~(Current(n, n.dones[j].then) /\ n.dones[j].then.kind = "lose")
    <3>1. i + 1 \in 1..Len(k.dones) /\ j + 1 \in 1..Len(k.dones) /\ i + 1 < j + 1
      BY <1>2, <2>1
    <3>2. n.dones[i] = k.dones[i + 1] /\ n.dones[j] = k.dones[j + 1]
      BY <1>2, Zenon
    <3> QED  BY <1>3, <2>1, <3>1, <3>2, Zenon DEF Good, Ordered
  <2> QED  BY <1>1, <1>3, <2>1, ZenonT(60) DEF Good, Ordered, NoRemovals
<1>7. \A v : Told(n, v) => Told(k, v)
  BY <1>1, <1>3, Zenon DEF Told
<1>8. Good(n, u)
  BY <1>1, <1>4, <1>5, <1>6, <1>7, Zenon DEF Good, Follows
<1>9. \A v : Covered(k, v) => Covered(n, v)
  BY <1>1, <1>3, Zenon DEF Covered
<1>10. ASSUME Current(k, h.then)
       PROVE  /\ NoRemovals(n)
              /\ \A t \in Thens(n) : ~(Current(n, t) /\ t.kind = "lose")
  <2>1. \A j \in Items(k.dbq) : j.removed = NoUser /\ ~(Current(k, j.then) /\ j.then.kind = "lose")
    BY <1>2, <1>10, Zenon DEF Good, Ordered
  <2>2. ASSUME NEW i \in 1..Len(n.dones)
        PROVE  ~(Current(n, n.dones[i].then) /\ n.dones[i].then.kind = "lose")
    <3>1. 1 \in 1..Len(k.dones) /\ i + 1 \in 1..Len(k.dones) /\ 1 < i + 1
      BY <1>2
    <3>2. n.dones[i] = k.dones[i + 1]
      BY <1>2, Zenon
    <3> QED  BY <1>2, <1>3, <1>10, <3>1, <3>2, Zenon DEF Good, Ordered
  <2>3. \A d \in Items(n.dones) : ~(Current(n, d.then) /\ d.then.kind = "lose")
    BY <2>2, Zenon DEF Items
  <2> QED  BY <1>1, <1>3, <2>1, <2>3, Zenon DEF Thens, NoRemovals
<1> QED  BY <1>1, <1>7, <1>8, <1>9, <1>10, Zenon DEF h

(* A timer of the authority is set or stopped.                             *)
LEMMA TimerGood ==
    ASSUME NEW k, NEW u, Good(k, u), NEW timer, NEW n, n = [k EXCEPT !.auth.timer = timer],
           timer = "retry" =>
              /\ k.auth.link = "down"
              /\ \A t \in Thens(k) : ~(Current(k, t) /\ t.kind = "lose")
    PROVE  Good(n, u) /\ Alike(n, k)
<1>1. /\ DOMAIN n = DOMAIN k /\ n.state = k.state /\ n.bus = k.bus /\ n.calls = k.calls
      /\ n.dbq = k.dbq /\ n.dones = k.dones /\ n.missed = k.missed
  BY Zenon DEF Good, Sound, Whole, Shape
<1>2. /\ DOMAIN n.auth = AuthFields /\ n.auth.link = k.auth.link
      /\ n.auth.initialized = k.auth.initialized /\ n.auth.timer = timer
      /\ n.auth.synchronized = k.auth.synchronized
  BY Zenon DEF Good, Sound, Whole, Shape, AuthFields
<1>3. Alike(n, k)
  BY <1>1, <1>2, Zenon DEF Alike
<1>4. /\ Thens(n) = Thens(k) /\ Replies(n) = Replies(k) /\ (On(n) <=> On(k))
      /\ \A x : Current(n, x) <=> Current(k, x)
  BY <1>1, <1>2, Zenon DEF Thens, Replies, Current, On
<1>5. Sound(n)
  BY <1>1, <1>2, <1>4, Zenon DEF Good, Sound, Whole, Shape, Lists, Stamps, Links
<1>6. Wired(n)
  BY <1>1, <1>2, <1>4, Zenon DEF Good, Wired
<1>7. Fresh(n)
  BY <1>1, <1>2, <1>4, Zenon DEF Good, Fresh
<1>8. Ordered(n)
  <2>1. Ordered(k) /\ (n.state.ready => NoRemovals(k))
    BY <1>1, Zenon DEF Good, Ordered
  <2> QED  BY <1>1, <2>1, OrderedStill, Zenon
<1>9. \A v : Told(n, v) <=> Told(k, v)
  BY <1>1, <1>4, Zenon DEF Told
<1>10. Follows(n, u)
  BY <1>1, <1>9, Zenon DEF Good, Follows
<1> QED  BY <1>3, <1>5, <1>6, <1>7, <1>8, <1>10, Zenon DEF Good

(* A view from which the first result of a barrier was taken.              *)
Popped(k, V) ==
    /\ k.auth = V.auth /\ k.state = V.state
    /\ k.bus = V.bus /\ k.dbq = V.dbq /\ k.missed = V.missed
    /\ \A v : Told(k, v) => Told(V, v)
    /\ \A v : Covered(V, v) => Covered(k, v)

LEMMA ActivateState ==
    ASSUME NEW s, Counts(s), NEW user
    PROVE  LET a == Activate(s, s.generation, user)
           IN Counts(a) /\ a.generation = s.generation /\ a.ready /\ a.user = user
<1>1. Activate(s, s.generation, user) = [s EXCEPT !.ready = TRUE, !.user = user]
  BY Zenon DEF Activate
<1>2. LET a == [s EXCEPT !.ready = TRUE, !.user = user]
      IN Counts(a) /\ a.generation = s.generation /\ a.ready /\ a.user = user
  BY DEF Counts
<1> QED  BY <1>1, <1>2, Zenon

(* The read that counts activates its user.                                *)
Activated(k, t) ==
    [k EXCEPT !.state = Activate(@, t.generation, t.user),
              !.auth.active = t.user, !.auth.synchronized = TRUE,
              !.auth.pending = NoSwitch, !.auth.timer = "none"]

LEMMA ActivationGood ==
    ASSUME NEW V, NEW u, Good(V, u), NEW k, Good(k, u), Popped(k, V),
           NEW then, Current(V, then), On(k), Told(V, then.user), NoRemovals(k)
    PROVE  LET n == Activated(k, then)
           IN /\ Good(n, u) /\ Moves(n, V)
              /\ n.bus = k.bus /\ n.dbq = k.dbq /\ n.missed = k.missed
              /\ n.auth.link = k.auth.link
<1> DEFINE n == Activated(k, then)
<1>1. /\ DOMAIN n = DOMAIN k /\ n.bus = k.bus /\ n.calls = k.calls
      /\ n.dbq = k.dbq /\ n.dones = k.dones /\ n.missed = k.missed
      /\ n.state = Activate(k.state, then.generation, then.user)
  BY Zenon DEF Activated, Good, Sound, Whole, Shape
<1>2. /\ DOMAIN n.auth = AuthFields /\ n.auth.link = k.auth.link
      /\ n.auth.initialized = k.auth.initialized /\ n.auth.timer = "none"
      /\ n.auth.synchronized
  BY Zenon DEF Activated, Good, Sound, Whole, Shape, AuthFields
<1> HIDE DEF n
<1>3. /\ Counts(n.state) /\ n.state.generation = k.state.generation
      /\ n.state.ready /\ n.state.user = then.user
  <2>1. then.generation = k.state.generation /\ Counts(k.state)
    BY Zenon DEF Popped, Current, Good, Sound, Whole, Shape
  <2>2. n.state = Activate(k.state, k.state.generation, then.user)
    BY <1>1, <2>1, Zenon
  <2> DEFINE a == Activate(k.state, k.state.generation, then.user)
  <2>3. Counts(a) /\ a.generation = k.state.generation /\ a.ready /\ a.user = then.user
    BY <2>1, ActivateState, Zenon
  <2> HIDE DEF a
  <2>4. n.state = a
    BY <2>2, Zenon DEF a
  <2> QED  BY <2>3, <2>4, Zenon
<1>4. /\ Thens(n) = Thens(k) /\ Replies(n) = Replies(k) /\ On(n)
      /\ \A x : Current(n, x) <=> Current(k, x)
  BY <1>1, <1>2, <1>3, Zenon DEF Thens, Replies, Current, On
<1>5. Sound(n)
  <2>1. Whole(n) /\ Links(n)
    BY <1>1, <1>2, <1>3, <1>4, Zenon DEF Good, Sound, Whole, Shape, Lists, Links
  <2>2. Stamps(n, n.state.generation)
    BY <1>1, <1>3, <1>4, Zenon DEF Good, Sound, Stamps
  <2> QED  BY <2>1, <2>2, Zenon DEF Sound
<1>6. Wired(n)
  BY <1>1, <1>2, <1>3, <1>4, Zenon DEF Good, Wired
<1>7. Fresh(n)
  BY <1>2, Zenon DEF Fresh
<1>8. Ordered(n)
  <2>1. Ordered(k)
    BY Zenon DEF Good
  <2> QED  BY <1>1, <1>3, <2>1, OrderedStill, Zenon
<1>9. \A v : Told(n, v) => Told(V, v)
  <2>1. ASSUME NEW v, Told(n, v) PROVE Told(k, v) \/ v = then.user
    BY <1>1, <1>3, <1>4, <2>1, Zenon DEF Told
  <2> QED  BY <2>1, Zenon DEF Popped
<1>10. Follows(n, u)
  <2>1. n.bus = V.bus
    BY <1>1, Zenon DEF Popped
  <2> QED  BY <1>9, <2>1, Zenon DEF Good, Follows
<1>11. V.state.ready => n.state.user = V.state.user
  <2>1. V.state.ready => Told(V, V.state.user)
    BY Zenon DEF Told
  <2> QED  BY <1>3, <2>1, Zenon DEF Good, Follows
<1>12. Moves(n, V)
  BY <1>3, <1>11, Zenon DEF Moves, Popped
<1>13. Good(n, u)
  BY <1>5, <1>6, <1>7, <1>8, <1>10, Zenon DEF Good
<1> QED  BY <1>1, <1>2, <1>12, <1>13, Zenon DEF n

(* What the continuation of a barrier does, once it is taken from its list. *)
LEMMA ContinuedSteps ==
    ASSUME NEW V, NEW u, Good(V, u), NEW t, t \in Thens(V), Current(V, t),
           NEW k, Good(k, u), Popped(k, V),
           t.kind = "lose" => \A x \in Thens(k) : ~(Current(k, x) /\ x.kind = "lose"),
           NoRemovals(k),
           IsRead(t) => \E d \in Items(V.dones) : d.then = t /\ d.success
    PROVE  Steps(OnBarrier(k, t, TRUE), V, u)
<1> DEFINE n == OnBarrier(k, t, TRUE)
<1>1. t.generation = k.state.generation
  BY Zenon DEF Popped, Current
<1>2. \A x : Alike(x, k) /\ Good(x, u) => Steps(x, V, u)
  <2> SUFFICES ASSUME NEW x, Alike(x, k), Good(x, u) PROVE Steps(x, V, u)
    OBVIOUS
  <2>1. Moves(x, V)
    BY Zenon DEF Popped, Alike, Moves
  <2>2. \A v : Covered(k, v) => Covered(x, v)
    BY AlikeCovered, Zenon
  <2> QED  BY <2>1, <2>2, Zenon DEF Popped, Steps
<1>3. CASE t.kind = "lose"
  <2>1. n = [k EXCEPT !.auth.timer = "retry"]
    BY <1>1, <1>3, Zenon DEF OnBarrier
  <2>2. k.auth.link = "down"
    BY <1>3, Zenon DEF Popped, Good, Wired
  <2>3. \A x \in Thens(k) : ~(Current(k, x) /\ x.kind = "lose")
    BY <1>3, Zenon
  <2> HIDE DEF n
  <2>4. Good(n, u) /\ Alike(n, k)
    BY <2>1, <2>2, <2>3, TimerGood, Zenon
  <2> QED  BY <1>2, <2>4, Zenon DEF n
<1>4. ASSUME t.kind # "lose" PROVE On(k)
  BY <1>4, Zenon DEF Popped, Good, Wired, On
<1>5. ASSUME t.kind \in {"remove", "switch"} PROVE k.auth.synchronized
  BY <1>5, Zenon DEF Popped, Good, Fresh
<1>6. CASE t.kind = "remove"
  <2>1. n = Method(k, "RemoveUserDone", "removal")
    BY <1>1, <1>6, Zenon DEF OnBarrier
  <2>2. On(k) /\ k.auth.synchronized
    BY <1>4, <1>5, <1>6, Zenon
  <2>3. Good(n, u) /\ Alike(n, k)
    BY <2>1, <2>2, MethodGood, Zenon
  <2> QED  BY <1>2, <2>3, Zenon
<1>7. CASE t.kind = "switch"
  <2> DEFINE done == [k EXCEPT !.auth.barrierDone = TRUE]
  <2>1. n = Method(done, "SwitchUserDone", "switch")
    BY <1>1, <1>7, Zenon DEF OnBarrier
  <2>2. On(k) /\ k.auth.synchronized
    BY <1>4, <1>5, <1>7, Zenon
  <2>3. Good(done, u) /\ Alike(done, k) /\ On(done) = On(k) /\ done.auth.synchronized
    BY <2>2, FlagAlike, ZenonT(60)
  <2> HIDE DEF done, n
  <2>4. On(done)
    BY <2>2, <2>3, Zenon
  <2>5. Good(n, u) /\ Alike(n, done)
    BY <2>1, <2>3, <2>4, MethodGood, Zenon
  <2>6. Alike(n, k)
    BY <2>3, <2>5, AlikeTwice, Zenon
  <2> QED  BY <1>2, <2>5, <2>6, Zenon DEF n
<1>8. CASE IsRead(t)
  <2>1. n = Activated(k, t)
    BY <1>1, <1>8, Zenon DEF OnBarrier, Activated, IsRead
  <2>2. Told(V, t.user)
    BY <1>8, Zenon DEF Told
  <2>3. On(k)
    BY <1>4, <1>8, Zenon DEF IsRead
  <2> HIDE DEF n
  <2>4. /\ Good(n, u) /\ Moves(n, V) /\ n.bus = k.bus /\ n.dbq = k.dbq
        /\ n.missed = k.missed /\ n.auth.link = k.auth.link
    <3> DEFINE a == Activated(k, t)
    <3>1. /\ Good(a, u) /\ Moves(a, V) /\ a.bus = k.bus /\ a.dbq = k.dbq
          /\ a.missed = k.missed /\ a.auth.link = k.auth.link
      BY <2>2, <2>3, ActivationGood
    <3> HIDE DEF a
    <3>2. n = a
      BY <2>1, Zenon DEF a
    <3> QED  BY <3>1, <3>2, Zenon
  <2>5. ASSUME NEW v, Covered(V, v) PROVE Covered(n, v)
    <3>1. \/ v \in V.missed \/ V.auth.link = "stopped"
          \/ \E m \in Items(V.bus) : m.kind = "removing" /\ m.user = v
          \/ \E j \in Items(V.dbq) : j.removed = v
      BY <1>8, <2>5, Zenon DEF Covered
    <3> QED  BY <2>4, <3>1, Zenon DEF Popped, Covered
  <2>6. Steps(n, V, u)
    BY <2>4, <2>5, Zenon DEF Steps
  <2> QED  BY <2>6, Zenon DEF n
<1> QED  BY <1>3, <1>6, <1>7, <1>8, Zenon DEF IsRead

LEMMA BarrierDoneSteps ==
    ASSUME NEW V, NEW u, Good(V, u), V.dones # <<>>,
           NEW k, DOMAIN k = DOMAIN V, \A f \in DOMAIN V : f # "dones" => k[f] = V[f],
           k.dones = Tail(V.dones)
    PROVE  Steps(OnBarrier(k, Head(V.dones).then, Head(V.dones).success), V, u)
<1> DEFINE d == Head(V.dones)
           t == d.then
           n == OnBarrier(k, t, d.success)
<1>1. /\ Good(k, u) /\ k.auth = V.auth /\ k.state = V.state
      /\ \A v : Told(k, v) => Told(V, v)
      /\ \A v : Covered(V, v) => Covered(k, v)
      /\ Current(V, t) /\ t.kind = "lose" =>
            \A x \in Thens(k) : ~(Current(k, x) /\ x.kind = "lose")
      /\ Current(V, t) => NoRemovals(k)
  BY DonePopped, ZenonT(60)
<1>2. d \in Items(V.dones) /\ t \in Thens(V)
  <2>1. IsList(V.dones)
    BY Zenon DEF Good, Sound, Whole, Lists
  <2>2. d \in Items(V.dones)
    BY <2>1, ItemsTail, Zenon
  <2> QED  BY <2>2, ThenOf, Zenon
<1>3. k.bus = V.bus /\ k.dbq = V.dbq /\ k.missed = V.missed
  BY Zenon DEF Good, Sound, Whole, Shape
<1>4. CASE ~(d.success /\ t.generation = k.state.generation)
  <2>1. n = k
    BY <1>4, Zenon DEF OnBarrier
  <2>2. Moves(k, V)
    BY <1>1, Zenon DEF Moves
  <2> QED  BY <1>1, <2>1, <2>2, Zenon DEF Steps
<1>5. CASE d.success /\ t.generation = k.state.generation
  <2>1. Current(V, t)
    BY <1>1, <1>5, Zenon DEF Current
  <2>2. n = OnBarrier(k, t, TRUE)
    BY <1>5, Zenon DEF OnBarrier
  <2>3. \E e \in Items(V.dones) : e.then = t /\ e.success
    BY <1>2, <1>5, Zenon
  <2>4. Popped(k, V)
    BY <1>1, <1>3, Zenon DEF Popped
  <2> HIDE DEF n, t, d
  <2>5. Steps(OnBarrier(k, t, TRUE), V, u)
    BY <1>1, <1>2, <2>1, <2>3, <2>4, ContinuedSteps, Zenon
  <2> QED  BY <2>2, <2>5, Zenon DEF n, t, d
<1> QED  BY <1>4, <1>5, Zenon

-----------------------------------------------------------------------------
(* The steps of the main thread.                                           *)
Handled(k, m) ==
    CASE m.kind = "vanished" -> Lose(k)
      [] m.kind = "removing" -> OnRemoveUserStarted(k, m.user)
      [] m.kind = "started" -> OnSwitchUserStarted(k, m.switch)
      [] m.kind = "completed" -> OnSwitchUserCompleted(k, m.switch)
      [] OTHER -> OnMethodFinished(k, m)

LEMMA ReceiveSteps ==
    ASSUME NEW V, NEW u, Good(V, u), V.auth.link = "watching", V.bus # <<>>,
           NEW k, DOMAIN k = DOMAIN V, \A f \in DOMAIN V : f # "bus" => k[f] = V[f],
           k.bus = Tail(V.bus), NEW n \in Handled(k, Head(V.bus))
    PROVE  Steps(n, V, u)
<1> DEFINE m == Head(V.bus)
<1>1. /\ Sound(k) /\ k.auth = V.auth /\ k.state = V.state
      /\ ~News(m) => Good(k, u)
      /\ \A v : Covered(V, v) => Covered(k, v) \/ (m.kind = "removing" /\ m.user = v)
  BY BusPopped, ZenonT(60)
<1>2. k.auth.link = "watching"
  BY <1>1, Zenon
<1>3. Steps(n, k, u) /\ \A v \in Users : m.kind = "removing" /\ m.user = v => Covered(n, v)
  <2>1. CASE m.kind = "vanished"
    <3>1. n \in Lose(k)
      BY <2>1, Zenon DEF Handled
    <3> QED  BY <1>1, <2>1, <3>1, LoseSteps, Zenon
  <2>2. CASE m.kind = "removing"
    <3>1. n \in OnRemoveUserStarted(k, m.user)
      BY <2>2, Zenon DEF Handled
    <3> QED  BY <1>1, <1>2, <3>1, RemoveStartedSteps, Zenon
  <2>3. CASE m.kind = "started"
    <3>1. n \in OnSwitchUserStarted(k, m.switch)
      BY <2>3, Zenon DEF Handled
    <3> QED  BY <1>1, <1>2, <2>3, <3>1, SwitchStartedSteps, Zenon
  <2>4. CASE m.kind = "completed"
    <3>1. n \in OnSwitchUserCompleted(k, m.switch) /\ ~News(m)
      BY <2>4, Zenon DEF Handled, News
    <3> QED  BY <1>1, <1>2, <2>4, <3>1, SwitchCompletedSteps, Zenon
  <2>5. CASE m.kind \notin {"started", "completed", "removing", "vanished"}
    <3>1. n \in OnMethodFinished(k, Head(V.bus)) /\ ~News(Head(V.bus))
      BY <2>5, Zenon DEF Handled, News
    <3>2. Head(V.bus).kind \notin {"started", "completed", "removing", "vanished"}
      BY <2>5, Zenon
    <3> QED  BY <2>5, <3>1, <3>2, MethodFinishedSteps, ZenonT(60)
  <2> QED  BY <2>1, <2>2, <2>3, <2>4, <2>5, Zenon
<1>4. Moves(n, V)
  BY <1>1, <1>3, Zenon DEF Steps, Moves
<1> QED  BY <1>1, <1>3, <1>4, Zenon DEF Steps

(* The connection is being made: nothing counts, so no link is wrong.      *)
LEMMA LinkSteps ==
    ASSUME NEW V, NEW u, Good(V, u), ~On(V),
           V.auth.timer = "retry" \/ V.auth.link \notin {"down", "stopped"},
           NEW n, DOMAIN n = DOMAIN V, n.state = V.state, n.bus = V.bus, n.calls = V.calls,
           n.dbq = V.dbq, n.dones = V.dones, n.missed = V.missed,
           DOMAIN n.auth = AuthFields, n.auth.timer # "retry",
           n.auth.synchronized = V.auth.synchronized, n.auth.link # "stopped"
    PROVE  Steps(n, V, u)
<1>0. V.auth.link # "stopped"
  BY Zenon DEF Good, Sound, Links
<1>1. ~V.auth.synchronized /\ ~V.state.ready
  BY <1>0, Zenon DEF Good, Sound, Links, Wired
<1>2. /\ Thens(n) = Thens(V) /\ Replies(n) = Replies(V)
      /\ \A x : Current(n, x) <=> Current(V, x)
  BY Zenon DEF Thens, Replies, Current
<1>3. /\ \A c \in Items(n.calls) : ~Current(n, c)
      /\ \A m \in Replies(n) : ~Current(n, m.call)
      /\ \A t \in Thens(n) : ~Current(n, t)
  <2>1. \A t \in Thens(V) : ~Current(V, t)
    BY Zenon DEF Good, Wired
  <2>2. /\ \A c \in Items(V.calls) : ~Current(V, c)
        /\ \A m \in Replies(V) : ~Current(V, m.call)
    BY Zenon DEF Good, Wired
  <2> QED  BY <1>2, <2>1, <2>2, Zenon
<1>4. Sound(n)
  <2>1. Links(n)
    BY <1>1, Zenon DEF Links
  <2>2. Stamps(n, n.state.generation)
    BY <1>2, Zenon DEF Good, Sound, Stamps
  <2> QED  BY <2>1, <2>2, Zenon DEF Good, Sound, Whole, Shape, Lists
<1>5. Wired(n)
  BY <1>1, <1>3, Zenon DEF Wired
<1>6. Fresh(n)
  BY <1>3, ThenOf, Zenon DEF Fresh
<1>7. Ordered(n)
  BY OrderedStill, <1>1, Zenon DEF Good
<1>8. \A v : Told(n, v) <=> Told(V, v)
  BY <1>2, Zenon DEF Told
<1>9. Follows(n, u)
  BY <1>8, Zenon DEF Good, Follows
<1>10. Good(n, u)
  BY <1>4, <1>5, <1>6, <1>7, <1>9, Zenon DEF Good
<1>11. Moves(n, V)
  BY Zenon DEF Moves
<1>12. \A v : Covered(V, v) => Covered(n, v)
  BY <1>0, <1>2, Zenon DEF Covered
<1> QED  BY <1>10, <1>11, <1>12, Zenon DEF Steps

LEMMA StartSteps ==
    ASSUME NEW V, NEW u, Good(V, u), V.auth.timer = "retry",
           NEW n, n = [V EXCEPT !.auth.timer = "none", !.auth.link = "connecting"]
    PROVE  Steps(n, V, u)
<1>1. /\ DOMAIN n = DOMAIN V /\ n.state = V.state /\ n.bus = V.bus /\ n.calls = V.calls
      /\ n.dbq = V.dbq /\ n.dones = V.dones /\ n.missed = V.missed
  BY Zenon DEF Good, Sound, Whole, Shape
<1>2. /\ DOMAIN n.auth = AuthFields /\ n.auth.link = "connecting" /\ n.auth.timer = "none"
      /\ n.auth.initialized = V.auth.initialized
      /\ n.auth.synchronized = V.auth.synchronized
  BY Zenon DEF Good, Sound, Whole, Shape, AuthFields
<1>3. V.auth.link = "down" /\ ~On(V)
  BY Zenon DEF Good, Sound, Links, On
<1> QED  BY <1>1, <1>2, <1>3, LinkSteps, Zenon

LEMMA ConnectedSteps ==
    ASSUME NEW V, NEW u, Good(V, u), V.auth.link = "connecting",
           NEW n, n = [V EXCEPT !.auth.link = "watching"]
    PROVE  Steps(n, V, u)
<1>1. /\ DOMAIN n = DOMAIN V /\ n.state = V.state /\ n.bus = V.bus /\ n.calls = V.calls
      /\ n.dbq = V.dbq /\ n.dones = V.dones /\ n.missed = V.missed
  BY Zenon DEF Good, Sound, Whole, Shape
<1>2. /\ DOMAIN n.auth = AuthFields /\ n.auth.link = "watching"
      /\ n.auth.timer = V.auth.timer /\ n.auth.initialized = V.auth.initialized
      /\ n.auth.synchronized = V.auth.synchronized
  BY Zenon DEF Good, Sound, Whole, Shape, AuthFields
<1>3. V.auth.timer # "retry" /\ ~On(V)
  BY Zenon DEF Good, Sound, Links, On
<1> QED  BY <1>1, <1>2, <1>3, LinkSteps, Zenon

LEMMA InitializeSteps ==
    ASSUME NEW V, NEW u, Good(V, u), V.auth.link = "watching", ~V.auth.initialized
    PROVE  Steps(Method([Fenced(V) EXCEPT !.auth.initialized = TRUE],
                        "SwitchUserWait", "initial"), V, u)
<1> DEFINE f == Fenced(V)
           g == [f EXCEPT !.auth.initialized = TRUE]
           n == Method(g, "SwitchUserWait", "initial")
<1>1. /\ Clear(f) /\ f.state.generation = V.state.generation + 1
      /\ f.auth = V.auth /\ V.state.generation \in Nat
  BY FencedIsClear, Zenon DEF Good, Sound, Whole, Shape, Counts
<1>2. ~V.auth.synchronized
  BY Zenon DEF Good, Sound, Links, On
<1> HIDE DEF f
<1>3. /\ DOMAIN g = DOMAIN f /\ g.state = f.state /\ g.bus = f.bus /\ g.calls = f.calls
      /\ g.dbq = f.dbq /\ g.dones = f.dones
  BY <1>1, Zenon DEF Clear, Whole, Shape
<1>4. /\ DOMAIN g.auth = AuthFields /\ g.auth.link = "watching" /\ g.auth.initialized
      /\ g.auth.timer = V.auth.timer /\ ~g.auth.synchronized
  BY <1>1, <1>2, Zenon DEF Clear, Whole, Shape, AuthFields
<1> HIDE DEF g
<1>5. Clear(g) /\ On(g)
  <2>1. Shape(g) /\ Links(g)
    BY <1>1, <1>3, <1>4, Zenon DEF Clear, Whole, Shape, Links
  <2>2. Clear(g)
    BY <1>1, <1>3, <1>4, <2>1, ClearAgain, Zenon
  <2> QED  BY <1>4, <2>2, Zenon DEF On
<1>6. Good(n, u) /\ Alike(n, g)
  <2>1. Good(g, u)
    BY <1>5, ClearIsGood, Zenon
  <2>2. "SwitchUserWait" \notin {"RemoveUserDone", "SwitchUserDone"}
    OBVIOUS
  <2> QED  BY <1>5, <2>1, <2>2, MethodGood, Zenon
<1> HIDE DEF n
<1>7. Moves(n, V)
  <2>1. V.state.generation < g.state.generation
    BY <1>1, <1>3
  <2> QED  BY <1>6, <2>1, Zenon DEF Alike, Moves
<1>8. \A v : Covered(g, v)
  <2>1. \A d \in Items(g.dones) : ~Current(g, d.then)
    BY <1>5, ClearCounts, ThenOf, Zenon
  <2> QED  BY <1>4, <2>1, Zenon DEF Covered
<1>9. \A v : Covered(n, v)
  BY <1>6, <1>8, AlikeCovered, Zenon
<1>10. Steps(n, V, u)
  BY <1>6, <1>7, <1>9, Zenon DEF Steps
<1> QED  BY <1>10, Zenon DEF n, g, f

LEMMA StopSteps ==
    ASSUME NEW V, NEW u, Good(V, u), NEW spent
    PROVE  Steps([Fenced(V) EXCEPT !.budget = spent, !.auth.link = "stopped",
                                   !.auth.timer = "none", !.bus = <<>>, !.calls = <<>>], V, u)
<1> DEFINE f == Fenced(V)
           n == [f EXCEPT !.budget = spent, !.auth.link = "stopped",
                          !.auth.timer = "none", !.bus = <<>>, !.calls = <<>>]
<1>1. /\ Clear(f) /\ f.state.generation = V.state.generation + 1
      /\ V.state.generation \in Nat
  BY FencedIsClear, Zenon DEF Good, Sound, Whole, Shape, Counts
<1> HIDE DEF f
<1>2. /\ DOMAIN n = DOMAIN f /\ n.state = f.state /\ n.bus = <<>> /\ n.calls = <<>>
      /\ n.dbq = f.dbq /\ n.dones = f.dones
  BY <1>1, Zenon DEF Clear, Whole, Shape
<1>3. DOMAIN n.auth = AuthFields /\ n.auth.link = "stopped" /\ n.auth.timer = "none"
  BY <1>1, Zenon DEF Clear, Whole, Shape, AuthFields
<1> HIDE DEF n
<1>4. Clear(n)
  <2>1. Shape(n) /\ Links(n)
    BY <1>1, <1>2, <1>3, Zenon DEF Clear, Whole, Shape, Links
  <2> QED  BY <1>1, <1>2, <1>3, <2>1, ClearAgain, Zenon
<1>5. Good(n, u)
  BY <1>4, ClearIsGood, Zenon
<1>6. V.state.generation < n.state.generation
  BY <1>1, <1>2
<1>7. Steps(n, V, u)
  BY <1>3, <1>5, <1>6, Zenon DEF Steps, Moves, Covered
<1> QED  BY <1>7, Zenon DEF n, f

(* Every step of the main thread, and the stop of the daemon.              *)
LEMMA MainSteps ==
    ASSUME NEW u, Good(View, u), Main \/ Stop PROVE \E n : Set(n) /\ Steps(n, View, u)
<1> DEFINE V == View
<1>1. /\ DOMAIN V = {"auth", "state", "bus", "calls", "dbq", "dones", "missed", "failed",
                     "budget"}
      /\ V.auth = auth /\ V.bus = bus /\ V.dones = dones
  BY Zenon DEF View
<1> HIDE DEF V
<1>2. Good(V, u)
  BY Zenon DEF V
<1>3. CASE Receive
  <2> DEFINE k == [V EXCEPT !.bus = Tail(@)]
  <2>1. PICK n \in Handled(k, Head(V.bus)) : Set(n)
    BY <1>1, <1>3, Zenon DEF Receive, Handled, V
  <2>2. V.auth.link = "watching" /\ V.bus # <<>>
    BY <1>1, <1>3, Zenon DEF Receive
  <2>3. /\ DOMAIN k = DOMAIN V /\ (\A f \in DOMAIN V : f # "bus" => k[f] = V[f])
        /\ k.bus = Tail(V.bus)
    BY <1>1, Zenon
  <2> HIDE DEF k
  <2>4. Steps(n, V, u)
    BY <1>2, <2>1, <2>2, <2>3, ReceiveSteps, ZenonT(60)
  <2> QED  BY <2>1, <2>4, Zenon DEF V
<1>4. CASE Done
  <2> DEFINE k == [V EXCEPT !.dones = Tail(@)]
             d == Head(V.dones)
  <2>1. V.dones # <<>>
    BY <1>1, <1>4, Zenon DEF Done
  <2>2. PICK n : Set(n) /\ (n = k \/ n = OnBarrier(k, d.then, d.success))
    BY <1>1, <1>4, Zenon DEF Done, V
  <2>3. /\ DOMAIN k = DOMAIN V /\ (\A f \in DOMAIN V : f # "dones" => k[f] = V[f])
        /\ k.dones = Tail(V.dones)
    BY <1>1, Zenon
  <2> HIDE DEF k
  <2>4. Steps(OnBarrier(k, d.then, d.success), V, u)
    BY <1>2, <2>1, <2>3, BarrierDoneSteps, ZenonT(60)
  <2>5. Steps(k, V, u)
    <3>1. Good(k, u) /\ k.state = V.state /\ \A v : Covered(V, v) => Covered(k, v)
      BY <1>2, <2>1, <2>3, DonePopped, ZenonT(60)
    <3> QED  BY <3>1, Zenon DEF Steps, Moves
  <2> QED  BY <2>2, <2>4, <2>5, Zenon DEF V
<1>5. CASE Start
  <2> DEFINE n == [V EXCEPT !.auth.timer = "none", !.auth.link = "connecting"]
  <2>1. Set(n) /\ V.auth.timer = "retry"
    BY <1>1, <1>5, Zenon DEF Start, V
  <2>2. Steps(n, V, u)
    BY <1>2, <2>1, StartSteps, Zenon
  <2> QED  BY <2>1, <2>2, Zenon DEF V
<1>6. CASE Connected
  <2> DEFINE n == [V EXCEPT !.auth.link = "watching"]
             k == [V EXCEPT !.budget = Spent]
  <2>1. V.auth.link = "connecting" /\ (Set(n) \/ \E l \in Lose(k) : Set(l))
    BY <1>1, <1>6, Zenon DEF Connected, V
  <2>2. Steps(n, V, u)
    BY <1>2, <2>1, ConnectedSteps, Zenon
  <2>3. ASSUME NEW l \in Lose(k) PROVE Steps(l, V, u)
    <3>1. /\ DOMAIN k = DOMAIN V /\ k.auth = V.auth /\ k.state = V.state /\ k.bus = V.bus
          /\ k.calls = V.calls /\ k.dbq = V.dbq /\ k.dones = V.dones /\ k.missed = V.missed
      BY <1>1, Zenon
    <3> HIDE DEF k
    <3>2. Alike(k, V) /\ k.auth.timer = V.auth.timer /\ DOMAIN k.auth = AuthFields
      BY <1>2, <3>1, Zenon DEF Alike, Good, Sound, Whole
    <3>3. Sound(k)
      <4>1. Good(k, u)
        BY <1>2, <3>1, <3>2, AlikeGood, Zenon
      <4> QED  BY <4>1, Zenon DEF Good
    <3>4. Good(l, u) /\ k.state.generation < l.state.generation /\ \A v : Covered(l, v)
      BY <3>3, LoseGood, Zenon
    <3> QED  BY <3>1, <3>4, Zenon DEF Steps, Moves
  <2> QED  BY <2>1, <2>2, <2>3, Zenon DEF V
<1>7. CASE Initialize
  <2> DEFINE n == Method([Fenced(V) EXCEPT !.auth.initialized = TRUE],
                         "SwitchUserWait", "initial")
  <2>1. Set(n) /\ V.auth.link = "watching" /\ ~V.auth.initialized
    BY <1>1, <1>7, Zenon DEF Initialize, V
  <2>2. Steps(n, V, u)
    BY <1>2, <2>1, InitializeSteps, Zenon
  <2> QED  BY <2>1, <2>2, Zenon DEF V
<1>8. CASE Timer
  <2>1. Sound(View)
    BY Zenon DEF Good
  <2> QED  BY <1>8, <2>1, LoseSteps, Zenon DEF Timer
<1>9. CASE Stop
  BY <1>9, StopSteps, Zenon DEF Stop
<1> QED  BY <1>3, <1>4, <1>5, <1>6, <1>7, <1>8, <1>9, Zenon DEF Main

-----------------------------------------------------------------------------
(* The manager.                                                            *)
LEMMA CallsFewer ==
    ASSUME NEW k, NEW u, Good(k, u), NEW n, DOMAIN n = DOMAIN k, n.auth = k.auth,
           n.state = k.state, n.bus = k.bus, n.dbq = k.dbq, n.dones = k.dones,
           n.missed = k.missed, IsList(n.calls), Items(n.calls) \subseteq Items(k.calls)
    PROVE  Good(n, u) /\ Alike(n, k)
<1>1. Alike(n, k)
  BY Zenon DEF Alike
<1>2. /\ Thens(n) = Thens(k) /\ Replies(n) = Replies(k) /\ (On(n) <=> On(k))
      /\ \A x : Current(n, x) <=> Current(k, x)
  BY Zenon DEF Thens, Replies, Current, On
<1>3. Sound(n)
  <2>1. Whole(n)
    BY Zenon DEF Good, Sound, Whole, Shape, Lists
  <2>2. Stamps(n, n.state.generation)
    BY <1>2, Zenon DEF Good, Sound, Stamps
  <2>3. Links(n)
    BY <1>2, Zenon DEF Good, Sound, Links
  <2> QED  BY <2>1, <2>2, <2>3, Zenon DEF Sound
<1>4. Wired(n)
  BY <1>2, Zenon DEF Good, Wired
<1>5. Fresh(n)
  BY <1>2, Zenon DEF Good, Fresh
<1>6. Ordered(n)
  <2>1. Ordered(k) /\ (n.state.ready => NoRemovals(k))
    BY Zenon DEF Good, Ordered
  <2> QED  BY <2>1, OrderedStill, Zenon
<1>7. \A v : Told(n, v) <=> Told(k, v)
  BY <1>2, Zenon DEF Told
<1>8. Follows(n, u)
  BY <1>7, Zenon DEF Good, Follows
<1> QED  BY <1>1, <1>3, <1>4, <1>5, <1>6, <1>8, Zenon DEF Good

(* While the authority is not subscribed nothing tells it a user, and its  *)
(* next barrier retires every approval.                                    *)
LEMMA OffCovers ==
    ASSUME NEW k, NEW u, Good(k, u), ~On(k), NEW w
    PROVE  Good(k, w) /\ \A v : Covered(k, v)
<1>1. ~k.state.ready /\ \A m \in Replies(k) : ~Current(k, m.call)
  BY Zenon DEF Good, Wired
<1>2. \A t \in Thens(k) : Current(k, t) => ~IsRead(t)
  BY Zenon DEF Good, Wired, IsRead
<1>3. \A v : ~Told(k, v)
  BY <1>1, <1>2, ThenOf, Zenon DEF Told
<1>4. Good(k, w)
  BY <1>3, Zenon DEF Good, Follows
<1>5. k.auth.link = "stopped" \/ ~k.auth.synchronized
  BY Zenon DEF Good, Sound, Links
<1>6. \A d \in Items(k.dones) : Current(k, d.then) => ~IsRead(d.then)
  BY <1>2, ThenOf, Zenon
<1>7. \A v : Covered(k, v)
  BY <1>5, <1>6, Zenon DEF Covered
<1> QED  BY <1>4, <1>7

(* What a reply tells, when it is the last on the bus.                     *)
LEMMA LastTold ==
    ASSUME NEW k, NEW n, IsList(k.bus), NEW m, n.bus = Append(k.bus, m),
           n.state = k.state, n.dbq = k.dbq, n.dones = k.dones, NEW v, Told(n, v)
    PROVE  \/ Told(k, v)
           \/ IsReply(m) /\ m.user = v /\ \A x \in Items(n.bus) : ~News(x)
<1>1. /\ Len(k.bus) \in Nat /\ Len(Append(k.bus, m)) = Len(k.bus) + 1
      /\ Append(k.bus, m)[Len(k.bus) + 1] = m
      /\ \A i \in 1..Len(k.bus) : Append(k.bus, m)[i] = k.bus[i]
  BY ItemsAppend
<1>2. /\ Len(n.bus) = Len(k.bus) + 1 /\ n.bus[Len(k.bus) + 1] = m
      /\ \A i \in 1..Len(k.bus) : n.bus[i] = k.bus[i]
  BY <1>1, Zenon
<1>3. Thens(n) = Thens(k) /\ \A x : Current(n, x) <=> Current(k, x)
  BY Zenon DEF Thens, Current
<1>4. CASE ~\E i \in 1..Len(n.bus) :
                 /\ IsReply(n.bus[i]) /\ Current(n, n.bus[i].call) /\ n.bus[i].user = v
                 /\ \A j \in 1..i : ~News(n.bus[j])
  BY <1>3, <1>4, Zenon DEF Told
<1>5. ASSUME NEW i \in 1..Len(n.bus),
             IsReply(n.bus[i]), Current(n, n.bus[i].call), n.bus[i].user = v,
             \A j \in 1..i : ~News(n.bus[j])
      PROVE  \/ Told(k, v)
             \/ IsReply(m) /\ m.user = v /\ \A x \in Items(n.bus) : ~News(x)
  <2>1. CASE i = Len(k.bus) + 1
    <3>1. n.bus[i] = m /\ i = Len(n.bus)
      BY <1>2, <2>1, Zenon
    <3> QED  BY <1>5, <3>1, Zenon DEF Items
  <2>2. CASE i # Len(k.bus) + 1
    <3>1. i \in 1..Len(k.bus) /\ 1..i \subseteq 1..Len(k.bus)
      BY <1>1, <1>2, <2>2
    <3>2. n.bus[i] = k.bus[i] /\ \A j \in 1..i : n.bus[j] = k.bus[j]
      BY <1>2, <3>1, Zenon
    <3>3. /\ IsReply(k.bus[i]) /\ Current(k, k.bus[i].call) /\ k.bus[i].user = v
          /\ \A j \in 1..i : ~News(k.bus[j])
      BY <1>3, <1>5, <3>2, Zenon
    <3> QED  BY <3>1, <3>3, Zenon DEF Told
  <2> QED  BY <2>1, <2>2, Zenon
<1> QED  BY <1>4, <1>5, Zenon

LEMMA BusGrows ==
    ASSUME NEW k, NEW u, Good(k, u), NEW n, DOMAIN n = DOMAIN k, n.auth = k.auth,
           n.state = k.state, n.calls = k.calls, n.dbq = k.dbq, n.dones = k.dones,
           n.missed = k.missed, NEW m, n.bus = Append(k.bus, m), NEW w,
           News(m) \/ w = u,
           IsReply(m) => /\ Stamped(m.call, k.state.generation) /\ m.user = u
                         /\ Current(k, m.call) =>
                               On(k) /\ (k.auth.synchronized \/ First(m.call))
    PROVE  /\ Good(n, w) /\ \A v : Covered(k, v) => Covered(n, v)
           /\ m.kind = "removing" => Covered(n, m.user)
<1>1. IsList(k.bus)
  BY Zenon DEF Good, Sound, Whole, Lists
<1>2. IsList(n.bus) /\ Items(n.bus) = Items(k.bus) \cup {m}
  <2>1. IsList(Append(k.bus, m)) /\ Items(Append(k.bus, m)) = Items(k.bus) \cup {m}
    BY <1>1, ItemsAppend, Zenon
  <2> QED  BY <2>1, Zenon
<1>3. \A v : Told(n, v) =>
         Told(k, v) \/ (IsReply(m) /\ m.user = v /\ \A x \in Items(n.bus) : ~News(x))
  BY <1>1, LastTold, Zenon
<1>4. /\ Thens(n) = Thens(k) /\ (On(n) <=> On(k))
      /\ \A x : Current(n, x) <=> Current(k, x)
      /\ \A x \in Replies(n) : x \in Replies(k) \/ (IsReply(m) /\ x = m)
  BY <1>2, Zenon DEF Thens, Replies, Current, On
<1>5. Sound(n)
  <2>1. Whole(n)
    BY <1>2, Zenon DEF Good, Sound, Whole, Shape, Lists
  <2>2. Stamps(n, n.state.generation)
    BY <1>4, Zenon DEF Good, Sound, Stamps
  <2>3. Links(n)
    BY <1>4, Zenon DEF Good, Sound, Links
  <2> QED  BY <2>1, <2>2, <2>3, Zenon DEF Sound
<1>6. Wired(n)
  BY <1>4, Zenon DEF Good, Wired
<1>7. Fresh(n)
  BY <1>4, Zenon DEF Good, Fresh
<1>8. Ordered(n)
  <2>1. Ordered(k) /\ (n.state.ready => NoRemovals(k))
    BY Zenon DEF Good, Ordered
  <2> QED  BY <2>1, OrderedStill, Zenon
<1>9. Follows(n, w)
  <2>1. Follows(k, u)
    BY Zenon DEF Good
  <2>2. (\A x \in Items(n.bus) : ~News(x)) =>
           /\ \A x \in Items(k.bus) : ~News(x)
           /\ w = u
    BY <1>2, Zenon
  <2>3. (\A x \in Items(n.bus) : ~News(x)) => \A v : Told(n, v) => v = u
    BY <1>3, <2>1, <2>2, Zenon DEF Follows
  <2>4. \A v, x : Told(n, v) /\ Told(n, x) => v = x
    BY <1>3, <2>1, <2>3, Zenon DEF Follows
  <2> QED  BY <2>2, <2>3, <2>4, Zenon DEF Follows
<1>10. \A v : Covered(k, v) => Covered(n, v)
  BY <1>2, <1>4, Zenon DEF Covered
<1>11. m.kind = "removing" => Covered(n, m.user)
  BY <1>2, Zenon DEF Covered
<1> QED  BY <1>5, <1>6, <1>7, <1>8, <1>9, <1>10, <1>11, Zenon DEF Good

-----------------------------------------------------------------------------
(* The database thread runs the first barrier of its list.                 *)
Ran(n, V, d) ==
    /\ V.dbq # <<>> /\ n.dbq = Tail(V.dbq) /\ d.then = Head(V.dbq).then
    /\ n.dones = Append(V.dones, d)

LEMMA BarrierRunItems ==
    ASSUME NEW V, Whole(V), NEW n, NEW d, Ran(n, V, d)
    PROVE  /\ IsList(n.dbq) /\ IsList(n.dones)
           /\ Items(V.dbq) = {Head(V.dbq)} \cup Items(n.dbq)
           /\ Items(n.dones) = Items(V.dones) \cup {d}
           /\ Thens(n) = Thens(V)
<1>1. IsList(V.dbq) /\ IsList(V.dones)
  BY Zenon DEF Whole, Lists
<1>2. IsList(Tail(V.dbq)) /\ Items(V.dbq) = {Head(V.dbq)} \cup Items(Tail(V.dbq))
  BY <1>1, ItemsTail, Zenon DEF Ran
<1>3. IsList(Append(V.dones, d)) /\ Items(Append(V.dones, d)) = Items(V.dones) \cup {d}
  BY <1>1, ItemsAppend, Zenon
<1>4. /\ IsList(n.dbq) /\ IsList(n.dones)
      /\ Items(V.dbq) = {Head(V.dbq)} \cup Items(n.dbq)
      /\ Items(n.dones) = Items(V.dones) \cup {d}
  BY <1>2, <1>3, Zenon DEF Ran
<1>5. Thens(n) = Thens(V)
  <2>1. Thens(n) \subseteq Thens(V)
    BY <1>4, Zenon DEF Ran, Thens
  <2>2. Thens(V) \subseteq Thens(n)
    BY <1>4, Zenon DEF Ran, Thens
  <2> QED  BY <2>1, <2>2, Zenon
<1> QED  BY <1>4, <1>5, Zenon

LEMMA BarrierRunOrdered ==
    ASSUME NEW V, Whole(V), Ordered(V), NEW n, NEW d, Ran(n, V, d), n.state = V.state
    PROVE  Ordered(n)
<1> DEFINE job == Head(V.dbq)
<1>1. /\ Items(V.dbq) = {job} \cup Items(n.dbq)
      /\ Items(n.dones) = Items(V.dones) \cup {d}
  BY BarrierRunItems, ZenonT(60)
<1>2. /\ Len(V.dbq) \in Nat \ {0} /\ Len(n.dbq) = Len(V.dbq) - 1 /\ job = V.dbq[1]
      /\ \A i \in 1..Len(n.dbq) : n.dbq[i] = V.dbq[i + 1] /\ i + 1 \in 1..Len(V.dbq)
  <2>1. IsList(V.dbq)
    BY Zenon DEF Whole, Lists
  <2> QED  BY <2>1, ItemsTail DEF Ran
<1>3. /\ Len(V.dones) \in Nat /\ Len(n.dones) = Len(V.dones) + 1
      /\ n.dones[Len(V.dones) + 1] = d
      /\ \A i \in 1..Len(V.dones) : n.dones[i] = V.dones[i]
  <2>1. IsList(V.dones)
    BY Zenon DEF Whole, Lists
  <2> QED  BY <2>1, ItemsAppend DEF Ran
<1>4. \A x : Current(n, x) <=> Current(V, x)
  BY Zenon DEF Current
<1>5. ASSUME NEW i \in 1..Len(n.dbq), NEW j \in 1..Len(n.dbq), i < j,
             Current(n, n.dbq[i].then)
      PROVE  n.dbq[j].removed = NoUser /\ n.dbq[j].then.kind # "lose"
  <2>1. i + 1 \in 1..Len(V.dbq) /\ j + 1 \in 1..Len(V.dbq) /\ i + 1 < j + 1
    BY <1>2, <1>5
  <2>2. n.dbq[i] = V.dbq[i + 1] /\ n.dbq[j] = V.dbq[j + 1]
    BY <1>2, Zenon
  <2>3. Current(V, V.dbq[i + 1].then)
    BY <1>4, <1>5, <2>2, Zenon
  <2> QED  BY <2>1, <2>2, <2>3, Zenon DEF Ordered
<1>6. ASSUME NEW i \in 1..Len(n.dones), NEW j \in 1..Len(n.dones), i < j,
             Current(n, n.dones[i].then)
      PROVE  ~(Current(n, n.dones[j].then) /\ n.dones[j].then.kind = "lose")
  <2>1. i \in 1..Len(V.dones)
    BY <1>3, <1>6
  <2>2. n.dones[i] = V.dones[i] /\ Current(V, V.dones[i].then) /\ V.dones[i] \in Items(V.dones)
    BY <1>3, <1>4, <1>6, <2>1, Zenon DEF Items
  <2>3. CASE j = Len(V.dones) + 1
    <3>1. n.dones[j].then = job.then
      BY <1>3, <2>3, Zenon DEF Ran
    <3> QED  BY <1>1, <1>4, <2>2, <3>1, Zenon DEF Ordered
  <2>4. CASE j # Len(V.dones) + 1
    <3>1. j \in 1..Len(V.dones)
      BY <1>3, <2>4
    <3>2. n.dones[j] = V.dones[j]
      BY <1>3, <3>1, Zenon
    <3> QED  BY <1>4, <1>6, <2>1, <2>2, <3>1, <3>2, Zenon DEF Ordered
  <2> QED  BY <2>3, <2>4, Zenon
<1>7. ASSUME NEW e \in Items(n.dones), Current(n, e.then), NEW j \in Items(n.dbq)
      PROVE  j.removed = NoUser /\ ~(Current(n, j.then) /\ j.then.kind = "lose")
  <2>1. CASE e \in Items(V.dones)
    BY <1>1, <1>4, <1>7, <2>1, Zenon DEF Ordered
  <2>2. CASE e = d
    <3>1. Current(V, V.dbq[1].then)
      BY <1>2, <1>4, <1>7, <2>2, Zenon DEF Ran
    <3>2. PICK i \in 1..Len(n.dbq) : j = n.dbq[i]
      BY Zenon DEF Items
    <3>3. 1 \in 1..Len(V.dbq) /\ i + 1 \in 1..Len(V.dbq) /\ 1 < i + 1
      BY <1>2
    <3>4. j = V.dbq[i + 1]
      BY <1>2, <3>2, Zenon
    <3> QED  BY <3>1, <3>3, <3>4, Zenon DEF Ordered
  <2> QED  BY <1>1, <2>1, <2>2, Zenon
<1>8. n.state.ready => NoRemovals(n)
  BY <1>1, Zenon DEF Ordered, NoRemovals
<1> QED  BY <1>5, <1>6, <1>7, <1>8, Zenon DEF Ordered

LEMMA BarrierRunGood ==
    ASSUME NEW V, NEW u, Good(V, u), NEW n, DOMAIN n = DOMAIN V,
           n.auth = V.auth, n.state = V.state, n.bus = V.bus, n.calls = V.calls,
           NEW d, Ran(n, V, d)
    PROVE  /\ Good(n, u)
           /\ \A v : /\ Covered(V, v) /\ (v \in V.missed => v \in n.missed)
                     /\ ~Head(V.dbq).retire /\ Head(V.dbq).removed # v
                     => Covered(n, v)
<1> DEFINE job == Head(V.dbq)
<1>1. Whole(V) /\ Ordered(V)
  BY Zenon DEF Good, Sound
<1>2. /\ IsList(n.dbq) /\ IsList(n.dones)
      /\ Items(V.dbq) = {job} \cup Items(n.dbq)
      /\ Items(n.dones) = Items(V.dones) \cup {d}
      /\ Thens(n) = Thens(V)
  BY <1>1, BarrierRunItems, Zenon
<1>3. Ordered(n)
  BY <1>1, BarrierRunOrdered, Zenon
<1>4. Replies(n) = Replies(V) /\ (On(n) <=> On(V)) /\ \A x : Current(n, x) <=> Current(V, x)
  BY Zenon DEF Replies, Current, On
<1>5. Sound(n)
  <2>1. Whole(n)
    BY <1>2, Zenon DEF Good, Sound, Whole, Shape, Lists
  <2>2. Stamps(n, n.state.generation)
    BY <1>2, <1>4, Zenon DEF Good, Sound, Stamps
  <2>3. Links(n)
    BY <1>4, Zenon DEF Good, Sound, Links
  <2> QED  BY <2>1, <2>2, <2>3, Zenon DEF Sound
<1>6. Wired(n)
  BY <1>2, <1>4, Zenon DEF Good, Wired
<1>7. Fresh(n)
  BY <1>2, <1>4, Zenon DEF Good, Fresh
<1>8. \A v : Told(n, v) <=> Told(V, v)
  BY <1>2, <1>4, Zenon DEF Told
<1>9. Follows(n, u)
  BY <1>8, Zenon DEF Good, Follows
<1>10. ASSUME NEW v, Covered(V, v), v \in V.missed => v \in n.missed, ~job.retire,
              job.removed # v
       PROVE  Covered(n, v)
  <2>1. Current(V, job.then) /\ IsRead(job.then) => V.auth.synchronized
    BY <1>2, <1>10, Zenon DEF Good, Fresh
  <2> QED  BY <1>2, <1>4, <1>10, <2>1, Zenon DEF Ran, Covered
<1> QED  BY <1>3, <1>5, <1>6, <1>7, <1>9, <1>10, Zenon DEF Good

LEMMA BarrierFailsSteps ==
    ASSUME NEW V, NEW u, Good(V, u), NEW n, DOMAIN n = DOMAIN V,
           n.auth = V.auth, n.state = Fence(V.state), n.bus = V.bus, n.calls = V.calls,
           NEW d, Ran(n, V, d),
           n.missed = V.missed \cup ({Head(V.dbq).removed} \ {NoUser})
    PROVE  Steps(n, V, u)
<1> DEFINE job == Head(V.dbq)
<1>1. Whole(V) /\ Stamps(V, V.state.generation) /\ Links(V)
  BY Zenon DEF Good, Sound
<1>2. /\ IsList(n.dbq) /\ IsList(n.dones)
      /\ Items(V.dbq) = {job} \cup Items(n.dbq)
      /\ Thens(n) = Thens(V)
  BY <1>1, BarrierRunItems, Zenon
<1>3. /\ Counts(n.state) /\ n.state.generation = V.state.generation + 1 /\ ~n.state.ready
      /\ V.state.generation \in Nat
  <2>1. Counts(V.state)
    BY <1>1, Zenon DEF Whole, Shape
  <2>2. LET f == Fence(V.state)
        IN Counts(f) /\ f.generation = V.state.generation + 1 /\ ~f.ready
    BY <2>1 DEF Counts, Fence
  <2> QED  BY <2>1, <2>2 DEF Counts
<1>4. Clear(n)
  <2>1. Whole(n) /\ Links(n)
    BY <1>1, <1>2, <1>3, Zenon DEF Whole, Shape, Lists, Links, On
  <2>2. Stamps(n, V.state.generation)
    BY <1>1, <1>2, Zenon DEF Stamps, Replies
  <2>3. n.state.generation - 1 = V.state.generation
    BY <1>3
  <2> QED  BY <1>3, <2>1, <2>2, <2>3, Zenon DEF Clear
<1>5. Good(n, u) /\ \A e \in Items(n.dones) : ~Current(n, e.then)
  BY <1>4, ClearIsGood, ClearCounts, ThenOf, Zenon
<1>6. Moves(n, V)
  BY <1>3 DEF Moves
<1>7. ASSUME NEW v \in Users, Covered(V, v) PROVE Covered(n, v)
  <2>1. job.removed = v => v \in n.missed
    BY ProfilesAssumption, Zenon
  <2> QED  BY <1>2, <1>5, <1>7, <2>1, Zenon DEF Covered
<1> QED  BY <1>5, <1>6, <1>7, Zenon DEF Steps

-----------------------------------------------------------------------------
(* Approvals of a user who has been removed since.                         *)
Stale ==
    {u \in Users : grants[u] # NoGrant /\ grants[u].incarnation # manager.incarnation[u]}

(* Requests and replies of the present generation are of the active user.  *)
Served ==
    /\ IsList(out)
    /\ \A r \in Items(out) : Stamped(r, state.generation)
                             /\ (r.generation = state.generation => Check(r.user))
    /\ work.at \in {"checked", "admitted", "committed", "final"}
       /\ work.generation = state.generation => Check(work.user)

ProfileInv ==
    /\ DOMAIN manager = {"user", "incarnation", "switch"}
    /\ Good(View, manager.user)
    /\ \A u \in Stale : Covered(View, u)
    /\ Served

LEMMA ViewFields ==
    /\ DOMAIN View = {"auth", "state", "bus", "calls", "dbq", "dones", "missed", "failed",
                      "budget"}
    /\ View.auth = auth /\ View.state = state /\ View.bus = bus /\ View.calls = calls
    /\ View.dbq = dbq /\ View.dones = dones /\ View.missed = missed
BY Zenon DEF View

LEMMA ViewFieldsNext ==
    /\ DOMAIN View' = {"auth", "state", "bus", "calls", "dbq", "dones", "missed", "failed",
                       "budget"}
    /\ View'.auth = auth' /\ View'.state = state' /\ View'.bus = bus'
    /\ View'.calls = calls' /\ View'.dbq = dbq' /\ View'.dones = dones'
    /\ View'.missed = missed'
BY Zenon DEF View

LEMMA GoodShape == ASSUME NEW k, NEW u, Good(k, u) PROVE Counts(k.state)
BY Zenon DEF Good, Sound, Whole, Shape

(* Whoever is served stays served over a step, or is fenced.               *)
LEMMA ServedMoves ==
    ASSUME RaceInv, Served, Counts(state'), Moves(View', View), UNCHANGED <<work, out>>
    PROVE  Served'
<1>1. \/ state.generation < state'.generation
      \/ /\ state'.generation = state.generation
         /\ state.ready => state'.ready /\ state'.user = state.user
  BY ViewFields, ViewFieldsNext, Zenon DEF Moves
<1>2. /\ state.generation \in Nat /\ state'.generation \in Nat
      /\ work.generation \in Nat /\ work.generation <= state.generation
  BY Zenon DEF RaceInv, Counts, WorkOK
<1>3. CASE state.generation < state'.generation
  <2>1. work'.generation # state'.generation
    BY <1>2, <1>3
  <2>2. \A r : Stamped(r, state.generation) =>
                  Stamped(r, state'.generation) /\ r.generation # state'.generation
    BY <1>2, <1>3 DEF Stamped
  <2> QED  BY <2>1, <2>2, Zenon DEF Served
<1>4. CASE /\ state'.generation = state.generation
           /\ state.ready => state'.ready /\ state'.user = state.user
  BY <1>4, Zenon DEF Served, Check
<1> QED  BY <1>1, <1>3, <1>4, Zenon

LEMMA MainStays == RaceInv /\ ProfileInv /\ (Main \/ Stop) => ProfileInv'
<1> SUFFICES ASSUME RaceInv, ProfileInv, Main \/ Stop PROVE ProfileInv'
  OBVIOUS
<1>1. PICK n : Set(n) /\ Steps(n, View, manager.user)
  BY MainSteps, Zenon DEF ProfileInv
<1>2. /\ UNCHANGED <<manager, work, grants, out>>
      /\ auth' = n.auth /\ state' = n.state /\ bus' = n.bus /\ calls' = n.calls
      /\ dbq' = n.dbq /\ dones' = n.dones /\ missed' = n.missed
  BY <1>1, Zenon DEF Set
<1>3. /\ Good(n, manager.user) /\ Moves(n, View)
      /\ \A v \in Users : Covered(View, v) => Covered(n, v)
  BY <1>1, Zenon DEF Steps
<1>4. DOMAIN n = DOMAIN View' /\ DOMAIN n.auth = AuthFields
  BY <1>3, ViewFieldsNext, Zenon DEF Good, Sound, Whole, Shape
<1>5. Alike(View', n) /\ View'.calls = n.calls /\ View'.auth = n.auth
  BY <1>2, ViewFieldsNext, Zenon DEF Alike
<1>6. Good(View', manager.user)
  BY <1>3, <1>4, <1>5, AlikeGood, Zenon
<1>7. \A v : Covered(n, v) => Covered(View', v)
  BY <1>5, AlikeCovered, Zenon
<1>8. Served'
  <2>1. Moves(View', View)
    BY <1>3, <1>5, Zenon DEF Alike, Moves
  <2>2. Counts(state')
    BY <1>6, GoodShape, ViewFieldsNext, Zenon
  <2> QED  BY <1>2, <2>1, <2>2, ServedMoves, Zenon DEF ProfileInv
<1>9. Stale' = Stale
  BY <1>2, Zenon DEF Stale
<1>10. \A u \in Stale' : Covered(View', u)
  BY <1>3, <1>7, <1>9, Zenon DEF ProfileInv, Stale
<1> QED  BY <1>2, <1>6, <1>8, <1>10, Zenon DEF ProfileInv

LEMMA FenceProfilesStays == RaceInv /\ ProfileInv /\ FenceProfiles => ProfileInv'
<1> SUFFICES ASSUME RaceInv, ProfileInv, FenceProfiles PROVE ProfileInv'
  OBVIOUS
<1> DEFINE V == View
           n == View'
           u == manager.user
           job == Head(dbq)
           Retired(v) == job.retire \/ v = job.removed
<1>1. /\ UNCHANGED <<manager, work, out>> /\ UNCHANGED <<auth, bus, calls>>
      /\ dbq # <<>> /\ dbq' = Tail(dbq)
  BY Zenon DEF FenceProfiles
<1>2. DOMAIN n = DOMAIN V /\ n.auth = V.auth /\ n.bus = V.bus /\ n.calls = V.calls
  BY <1>1, ViewFields, ViewFieldsNext, Zenon
<1>3. \A d : d.then = job.then /\ dones' = Append(dones, d) => Ran(n, V, d)
  BY <1>1, ViewFields, ViewFieldsNext, Zenon DEF Ran
<1>4. job = Head(V.dbq) /\ V.missed = missed /\ n.missed = missed' /\ V.state = state
      /\ n.state = state'
  BY ViewFields, ViewFieldsNext, Zenon
<1>5. Good(V, u) /\ (\A v \in Stale : Covered(V, v)) /\ Served
  BY Zenon DEF ProfileInv
<1> HIDE DEF V, n
<1>6. SUFFICES /\ Good(n, u) /\ Moves(n, V)
               /\ \A v \in Stale' : Covered(n, v)
  <2> SUFFICES ASSUME Good(n, u), Moves(n, V), \A v \in Stale' : Covered(n, v)
               PROVE  ProfileInv'
    OBVIOUS
  <2>1. Counts(state')
    BY <1>4, GoodShape, Zenon
  <2>2. Served'
    BY <1>1, <1>5, <2>1, ServedMoves, Zenon DEF V, n
  <2> QED  BY <1>1, <2>2, Zenon DEF ProfileInv, n
<1>7. CASE /\ grants' = [v \in Users |-> IF Retired(v) THEN NoGrant ELSE grants[v]]
           /\ missed' = {v \in missed : ~Retired(v)}
           /\ dones' = Append(dones, [then |-> job.then, success |-> TRUE])
           /\ UNCHANGED state
  <2> DEFINE d == [then |-> job.then, success |-> TRUE]
  <2>1. Ran(n, V, d) /\ n.state = V.state
    <3>1. d.then = job.then
      BY Zenon
    <3> QED  BY <1>3, <1>4, <1>7, <3>1, Zenon
  <2> HIDE DEF d
  <2>2. /\ Good(n, u)
        /\ \A v : /\ Covered(V, v) /\ (v \in V.missed => v \in n.missed)
                  /\ ~job.retire /\ job.removed # v
                  => Covered(n, v)
    BY <1>2, <1>4, <1>5, <2>1, BarrierRunGood, ZenonT(60)
  <2>3. Moves(n, V)
    BY <2>1, Zenon DEF Moves
  <2>4. ASSUME NEW v \in Stale' PROVE v \in Stale /\ ~Retired(v)
    BY <1>1, <1>7, Zenon DEF Stale
  <2>5. ASSUME NEW v \in Stale' PROVE Covered(n, v)
    <3>1. Covered(V, v) /\ ~job.retire /\ job.removed # v
      BY <1>5, <2>4, Zenon
    <3>2. v \in V.missed => v \in n.missed
      BY <1>4, <1>7, <2>4, Zenon
    <3> QED  BY <2>2, <3>1, <3>2, Zenon
  <2> QED  BY <2>2, <2>3, <2>5, Zenon
<1>8. CASE /\ state' = Fence(state) /\ UNCHANGED grants
           /\ missed' = missed \cup ({job.removed} \ {NoUser})
           /\ dones' = Append(dones, [then |-> job.then, success |-> FALSE])
  <2> DEFINE d == [then |-> job.then, success |-> FALSE]
  <2>1. Ran(n, V, d) /\ n.state = Fence(V.state)
    <3>1. d.then = job.then
      BY Zenon
    <3> QED  BY <1>3, <1>4, <1>8, <3>1, Zenon
  <2> HIDE DEF d
  <2>2. n.missed = V.missed \cup ({Head(V.dbq).removed} \ {NoUser})
    BY <1>4, <1>8, Zenon
  <2>3. Steps(n, V, u)
    BY <1>2, <1>5, <2>1, <2>2, BarrierFailsSteps, ZenonT(60)
  <2>4. Stale' = Stale
    BY <1>1, <1>8, Zenon DEF Stale
  <2> QED  BY <1>5, <2>3, <2>4, Zenon DEF Steps, Stale
<1> QED  BY <1>7, <1>8, ZenonT(60) DEF FenceProfiles

(* Steps that leave what the main thread sees.                             *)
LEMMA ViewKept ==
    ASSUME ProfileInv, UNCHANGED <<auth, state, bus, calls, dbq, dones, missed>>
    PROVE  Good(View', manager.user) /\ \A v : Covered(View, v) => Covered(View', v)
<1>1. Alike(View', View) /\ View'.calls = View.calls /\ DOMAIN View' = DOMAIN View
      /\ View'.auth = View.auth
  BY ViewFields, ViewFieldsNext, Zenon DEF Alike
<1>2. Good(View, manager.user)
  BY Zenon DEF ProfileInv
<1>3. DOMAIN View'.auth = AuthFields
  BY <1>1, <1>2, Zenon DEF Good, Sound, Whole
<1>4. Good(View', manager.user)
  BY <1>1, <1>2, <1>3, AlikeGood, Zenon
<1> QED  BY <1>1, <1>4, AlikeCovered, Zenon

(* Mid-request, the request is still the active user's, or fenced.         *)
LEMMA WorkStays ==
    RaceInv /\ ProfileInv
    /\ ((\E u \in Users : Begin(u)) \/ ActiveContext \/ CommitAdmitted \/ Commit
        \/ Compensate \/ Reply) => ProfileInv'
<1> SUFFICES ASSUME RaceInv, ProfileInv,
                    \/ \E u \in Users : Begin(u)
                    \/ ActiveContext \/ CommitAdmitted \/ Commit \/ Compensate \/ Reply
             PROVE  ProfileInv'
  OBVIOUS
<1>1. UNCHANGED <<manager, bus, calls, auth, state, dbq, dones, sent, missed>>
  BY ZenonT(60) DEF Begin, ActiveContext, CommitAdmitted, Commit, Compensate, Reply, Work
<1>2. Good(View', manager.user) /\ \A v : Covered(View, v) => Covered(View', v)
  BY <1>1, ViewKept, Zenon
<1>3. WorkOK(work) /\ Served /\ DOMAIN manager = {"user", "incarnation", "switch"}
  BY Zenon DEF RaceInv, ProfileInv
<1>4. \A w : Check(w)' <=> Check(w)
  BY <1>1, Zenon DEF Check
<1> DEFINE Serving(w) ==
             w.at \in {"checked", "admitted", "committed", "final"}
             /\ w.generation = state.generation => Check(w.user)
<1>5. Serving(Idle)
  BY Zenon DEF Idle
<1>6. ASSUME NEW at \in {"checked", "admitted", "committed", "final"},
             work.at = "captured" => Check(work.user), work.at # "idle"
      PROVE  Serving([work EXCEPT !.at = at])
  <2>1. LET w == [work EXCEPT !.at = at]
        IN w.generation = work.generation /\ w.user = work.user
    BY <1>3 DEF WorkOK
  <2>2. work.at \in {"idle", "captured", "checked", "admitted", "committed", "final"}
    BY <1>3 DEF WorkOK
  <2>3. work.generation = state.generation => Check(work.user)
    BY <1>3, <1>6, <2>2 DEF Served
  <2> QED  BY <2>1, <2>3, Zenon
<1>7. SUFFICES /\ Stale' \subseteq Stale /\ Serving(work')
               /\ IsList(out')
               /\ \A r \in Items(out') : r \in Items(out)
                     \/ (r.generation = state.generation /\ Check(r.user))
  <2> SUFFICES ASSUME Stale' \subseteq Stale, Serving(work'), IsList(out'),
                      \A r \in Items(out') : r \in Items(out)
                         \/ (r.generation = state.generation /\ Check(r.user))
               PROVE  ProfileInv'
    BY Zenon
  <2>1. \A r \in Items(out') : Stamped(r, state.generation)
                               /\ (r.generation = state.generation => Check(r.user))
    <3>1. \A r : r.generation = state.generation => Stamped(r, state.generation)
      BY DEF RaceInv, Counts, Stamped
    <3> QED  BY <1>3, <3>1, Zenon DEF Served
  <2>2. Served'
    BY <1>1, <1>4, <2>1, Zenon DEF Served
  <2> QED  BY <1>1, <1>2, <1>3, <2>2, Zenon DEF ProfileInv
<1>8. ASSUME NEW u \in Users, Begin(u) PROVE Serving(work') /\ UNCHANGED <<grants, out>>
  <2>1. /\ work' = [Idle EXCEPT !.at = "captured", !.user = u, !.generation = state.generation]
        /\ UNCHANGED <<grants, out>>
    BY <1>8, Zenon DEF Begin, Work
  <2>2. work'.at = "captured"
    BY <2>1, Zenon DEF Idle
  <2> QED  BY <2>1, <2>2, Zenon
<1>9. ASSUME ActiveContext \/ CommitAdmitted PROVE Serving(work') /\ UNCHANGED <<grants, out>>
  <2>1. /\ UNCHANGED <<grants, out>>
        /\ \/ work' = Idle
           \/ \E at \in {"checked", "admitted"} :
                 /\ work' = [work EXCEPT !.at = at] /\ work.at # "idle"
                 /\ work.at = "captured" => Check(work.user)
    BY <1>9, Zenon DEF ActiveContext, CommitAdmitted, Work
  <2> QED  BY <1>5, <1>6, <2>1, Zenon
<1>10. IsList(out)
  BY <1>3, Zenon DEF Served
<1>11. CASE (\E u \in Users : Begin(u)) \/ ActiveContext \/ CommitAdmitted
  <2>1. Serving(work') /\ UNCHANGED <<grants, out>>
    BY <1>8, <1>9, <1>11, Zenon
  <2> QED  BY <1>1, <1>10, <2>1, Zenon DEF Stale
<1>12. CASE Commit
  <2> DEFINE given == [incarnation |-> manager.incarnation[work.user],
                       raced |-> work.generation # state.generation]
  <2>1. PICK granted \in BOOLEAN :
          /\ work' = [work EXCEPT !.at = "committed", !.granted = granted]
          /\ grants' = IF ~granted THEN grants ELSE [grants EXCEPT ![work.user] = given]
          /\ out' = out /\ work.at = "admitted"
    BY <1>12, Zenon DEF Commit, Work
  <2>2. /\ work'.at = "committed" /\ work'.generation = work.generation
        /\ work'.user = work.user
    BY <1>3, <2>1, Zenon DEF WorkOK
  <2>3. Serving(work')
    BY <1>3, <2>1, <2>2, Zenon DEF Served
  <2>4. given.incarnation = manager.incarnation[work.user]
    BY Zenon
  <2> HIDE DEF given
  <2>5. grants \in [Users -> [incarnation: Nat, raced: BOOLEAN]]
    BY Zenon DEF RaceInv
  <2>6. \A v \in Users : grants'[v] = grants[v] \/ (v = work.user /\ grants'[v] = given)
    BY <2>1, <2>5, Zenon
  <2>7. Stale' \subseteq Stale
    BY <1>1, <2>4, <2>6, Zenon DEF Stale
  <2> QED  BY <1>10, <2>1, <2>3, <2>7, Zenon
<1>13. CASE Compensate
  <2>1. /\ out' = out /\ work.at = "committed"
        /\ work' = Idle \/ work' = [work EXCEPT !.at = "final"]
        /\ grants' = grants \/ grants' = [grants EXCEPT ![work.user] = NoGrant]
    BY <1>13, ZenonT(60) DEF Compensate, Work
  <2>2. Serving(work')
    BY <1>5, <1>6, <2>1, Zenon
  <2>3. grants \in [Users -> [incarnation: Nat, raced: BOOLEAN]]
    BY Zenon DEF RaceInv
  <2>4. \A v \in Users : grants'[v] = grants[v] \/ grants'[v] = NoGrant
    BY <2>1, <2>3, Zenon
  <2>5. Stale' \subseteq Stale
    BY <1>1, <2>4, Zenon DEF Stale
  <2> QED  BY <1>10, <2>1, <2>2, <2>5, Zenon
<1>14. CASE Reply
  <2> DEFINE r == [user |-> work.user, generation |-> work.generation]
  <2>1. /\ work' = Idle /\ work.at = "final" /\ UNCHANGED grants
        /\ out' = IF work.generation = state.generation THEN Append(out, r) ELSE out
    BY <1>14, Zenon DEF Reply, Work
  <2>2. r.user = work.user /\ r.generation = work.generation
    BY Zenon
  <2> HIDE DEF r
  <2>3. IsList(Append(out, r)) /\ Items(Append(out, r)) = Items(out) \cup {r}
    BY <1>10, ItemsAppend, Zenon
  <2>4. work.generation = state.generation => Check(work.user)
    BY <1>3, <2>1, Zenon DEF Served
  <2>5. /\ IsList(out')
        /\ \A x \in Items(out') : x \in Items(out)
              \/ (x.generation = state.generation /\ Check(x.user))
    <3>1. CASE work.generation = state.generation
      BY <2>1, <2>2, <2>3, <2>4, <3>1, Zenon
    <3>2. CASE work.generation # state.generation
      BY <1>10, <2>1, <3>2, Zenon
    <3> QED  BY <3>1, <3>2, Zenon
  <2>6. Stale' = Stale
    BY <1>1, <2>1, Zenon DEF Stale
  <2> QED  BY <1>5, <2>1, <2>5, <2>6, Zenon
<1> QED  BY <1>11, <1>12, <1>13, <1>14, Zenon

LEMMA SendStays ==
    ASSUME RaceInv, ProfileInv, Send
    PROVE  ProfileInv' /\ \A r \in sent' \ sent : Check(r.user)
<1>1. /\ UNCHANGED <<manager, auth, state, bus, calls, dbq, dones, work, grants, missed>>
      /\ out # <<>> /\ out' = Tail(out)
      /\ sent' = IF Head(out).generation = state.generation
                 THEN sent \cup {Head(out)} ELSE sent
  BY Zenon DEF Send
<1>2. Good(View', manager.user) /\ \A v : Covered(View, v) => Covered(View', v)
  BY <1>1, ViewKept, Zenon
<1>3. Served
  BY Zenon DEF ProfileInv
<1>4. IsList(Tail(out)) /\ Items(out) = {Head(out)} \cup Items(Tail(out))
  BY <1>1, <1>3, ItemsTail, Zenon DEF Served
<1>5. Served'
  BY <1>1, <1>3, <1>4, Zenon DEF Served, Check
<1>6. Stale' = Stale
  BY <1>1, Zenon DEF Stale
<1>7. ProfileInv'
  BY <1>1, <1>2, <1>5, <1>6, Zenon DEF ProfileInv
<1>8. \A r \in sent' \ sent : Check(r.user)
  BY <1>1, <1>3, <1>4, Zenon DEF Served
<1> QED  BY <1>7, <1>8, Zenon

(* What the manager does: the view gains what is put on the bus.           *)
LEMMA ManagerStays ==
    ASSUME RaceInv, ProfileInv, Manager, DOMAIN manager' = DOMAIN manager,
           IsList(calls'), Items(calls') \subseteq Items(calls),
           \/ /\ bus' = bus
              /\ \/ ~On(View)
                 \/ manager'.user = manager.user /\ manager'.incarnation = manager.incarnation
           \/ \E m :
              /\ bus' = Append(bus, m)
              /\ News(m) \/ manager'.user = manager.user
              /\ IsReply(m) => m.call \in Items(calls) /\ m.user = manager.user
              /\ \A u \in Users :
                    \/ manager'.incarnation[u] = manager.incarnation[u]
                    \/ m.kind = "removing" /\ m.user = u
    PROVE  ProfileInv'
<1> DEFINE V == View
           n == View'
           k == [V EXCEPT !.calls = calls']
           u == manager.user
           w == manager'.user
<1>1. UNCHANGED <<auth, state, dbq, dones, work, grants, broken, out, sent, missed, failed>>
  BY Zenon DEF Manager
<1>2. Good(V, u) /\ (\A v \in Stale : Covered(V, v)) /\ Served
  BY Zenon DEF ProfileInv
<1>3. /\ DOMAIN n = DOMAIN V /\ n.auth = V.auth /\ n.state = V.state /\ n.dbq = V.dbq
      /\ n.dones = V.dones /\ n.missed = V.missed /\ n.bus = bus' /\ n.calls = calls'
      /\ V.bus = bus /\ V.calls = calls
  BY <1>1, ViewFields, ViewFieldsNext, Zenon
<1>4. /\ DOMAIN k = DOMAIN V /\ k.auth = V.auth /\ k.state = V.state /\ k.dbq = V.dbq
      /\ k.dones = V.dones /\ k.missed = V.missed /\ k.bus = V.bus /\ k.calls = calls'
  BY ViewFields, Zenon
<1> HIDE DEF V, n, k
<1>5. Good(k, u) /\ Alike(k, V)
  <2>1. IsList(k.calls) /\ Items(k.calls) \subseteq Items(V.calls)
    BY <1>3, <1>4, Zenon
  <2> QED  BY <1>2, <1>4, <2>1, CallsFewer, Zenon
<1>6. Served'
  <2>1. Counts(state') /\ Moves(View', View)
    BY <1>1, ViewFields, ViewFieldsNext, Zenon DEF RaceInv, Moves
  <2> QED  BY <1>1, <1>2, <2>1, ServedMoves, Zenon
<1>7. SUFFICES Good(n, w) /\ \A v \in Stale' : Covered(n, v)
  BY <1>6, Zenon DEF ProfileInv, n
<1>8. \A v : Covered(V, v) => Covered(k, v)
  BY <1>5, AlikeCovered, Zenon
<1>9. CASE bus' = bus
  <2>1. /\ DOMAIN n = DOMAIN k /\ n.auth = k.auth /\ n.state = k.state /\ n.dbq = k.dbq
        /\ n.dones = k.dones /\ n.missed = k.missed /\ n.bus = k.bus /\ n.calls = k.calls
    BY <1>3, <1>4, <1>9, Zenon
  <2>2. Good(n, u) /\ Alike(n, k)
    <3>1. Alike(n, k) /\ DOMAIN n.auth = AuthFields /\ n.auth.timer = k.auth.timer
      BY <1>5, <2>1, Zenon DEF Alike, Good, Sound, Whole
    <3> QED  BY <1>5, <2>1, <3>1, AlikeGood, Zenon
  <2>3. \A v : Covered(k, v) => Covered(n, v)
    BY <2>2, AlikeCovered, Zenon
  <2>4. CASE ~On(View)
    <3>1. ~On(n)
      BY <1>3, <2>4, Zenon DEF On, V
    <3> QED  BY <2>2, <3>1, OffCovers, Zenon
  <2>5. CASE manager'.user = manager.user /\ manager'.incarnation = manager.incarnation
    <3>1. Stale' = Stale
      BY <1>1, <2>5, Zenon DEF Stale
    <3> QED  BY <1>2, <1>8, <2>2, <2>3, <2>5, <3>1, Zenon
  <2>6. CASE \E m : /\ bus' = Append(bus, m)
    <3>1. PICK m : bus' = Append(bus, m)
      BY <2>6
    <3>2. IsList(bus)
      BY <1>2, <1>3, Zenon DEF Good, Sound, Whole, Lists
    <3>3. Len(bus) \in Nat /\ Len(Append(bus, m)) = Len(bus) + 1
      BY <3>2, ItemsAppend, Zenon
    <3> QED  BY <1>9, <3>1, <3>3
  <2> QED  BY <2>4, <2>5, <2>6, Zenon
<1>10. ASSUME NEW m, bus' = Append(bus, m), News(m) \/ w = u,
              IsReply(m) => m.call \in Items(calls) /\ m.user = u,
              \A v \in Users : \/ manager'.incarnation[v] = manager.incarnation[v]
                               \/ m.kind = "removing" /\ m.user = v
       PROVE  Good(n, w) /\ \A v \in Stale' : Covered(n, v)
  <2>1. /\ DOMAIN n = DOMAIN k /\ n.auth = k.auth /\ n.state = k.state /\ n.dbq = k.dbq
        /\ n.dones = k.dones /\ n.missed = k.missed /\ n.calls = k.calls
    BY <1>3, <1>4, Zenon
  <2>2. n.bus = Append(k.bus, m)
    BY <1>3, <1>4, <1>10, Zenon
  <2>3. IsReply(m) => /\ Stamped(m.call, k.state.generation) /\ m.user = u
                      /\ Current(k, m.call) =>
                            On(k) /\ (k.auth.synchronized \/ First(m.call))
    <3>1. \A c \in Items(V.calls) : Stamped(c, V.state.generation)
      BY <1>2, Zenon DEF Good, Sound, Stamps
    <3>2. \A c \in Items(V.calls) :
             Current(V, c) => On(V) /\ (V.auth.synchronized \/ First(c))
      BY <1>2, Zenon DEF Good, Wired, Fresh
    <3>3. IsReply(m) => m.call \in Items(V.calls) /\ m.user = u
      BY <1>3, <1>10, Zenon
    <3>4. (On(k) <=> On(V)) /\ \A x : Current(k, x) <=> Current(V, x)
      BY <1>4, Zenon DEF On, Current
    <3> QED  BY <1>4, <3>1, <3>2, <3>3, <3>4, Zenon
  <2>4. /\ Good(n, w) /\ (\A v : Covered(k, v) => Covered(n, v))
        /\ m.kind = "removing" => Covered(n, m.user)
    BY <1>5, <1>10, <2>1, <2>2, <2>3, BusGrows, ZenonT(60)
  <2>5. ASSUME NEW v \in Stale' PROVE v \in Stale \/ (m.kind = "removing" /\ m.user = v)
    BY <1>1, <1>10, Zenon DEF Stale
  <2> QED  BY <1>2, <1>8, <2>4, <2>5, Zenon
<1> QED  BY <1>9, <1>10, Zenon

LEMMA SessiondStays == RaceInv /\ ProfileInv /\ Sessiond => ProfileInv'
<1> SUFFICES ASSUME RaceInv, ProfileInv, Sessiond PROVE ProfileInv'
  OBVIOUS
<1>1. /\ DOMAIN manager = {"user", "incarnation", "switch"}
      /\ manager.incarnation \in [Users -> Nat]
  BY Zenon DEF ProfileInv, RaceInv
<1>2. IsList(calls) /\ (On(View) <=> Subscribed)
  BY ViewFields, Zenon DEF ProfileInv, Good, Sound, Whole, Lists, On, Subscribed
<1>3. Manager
  BY ZenonT(60) DEF Sessiond, ManagerSwitches, ManagerRemoves, ManagerCompletes,
     ManagerAnswers, ManagerRestarts
<1>4. ASSUME NEW to \in Users, ManagerSwitches(to) PROVE ProfileInv'
  <2>1. /\ UNCHANGED calls /\ DOMAIN manager' = DOMAIN manager
        /\ manager'.incarnation = manager.incarnation
    BY <1>1, <1>4, Zenon DEF ManagerSwitches
  <2>2. PICK s : bus' = Emitted([kind |-> "started", switch |-> s])
    BY <1>4, Zenon DEF ManagerSwitches
  <2> DEFINE m == [kind |-> "started", switch |-> s]
  <2>3. News(m) /\ ~IsReply(m)
    BY Zenon DEF News, IsReply
  <2> HIDE DEF m
  <2>4. (bus' = bus /\ ~On(View)) \/ bus' = Append(bus, m)
    BY <1>2, <2>2, Zenon DEF Emitted, m
  <2> QED  BY <1>2, <1>3, <2>1, <2>3, <2>4, ManagerStays, Zenon
<1>5. CASE ManagerCompletes
  <2>1. /\ UNCHANGED calls /\ DOMAIN manager' = DOMAIN manager
        /\ manager'.incarnation = manager.incarnation /\ manager'.user = manager.user
    BY <1>1, <1>5, Zenon DEF ManagerCompletes
  <2> DEFINE m == [kind |-> "completed", switch |-> manager.switch]
  <2>2. ~IsReply(m)
    BY Zenon DEF IsReply
  <2>3. (bus' = bus /\ ~On(View)) \/ bus' = Append(bus, m)
    BY <1>2, <1>5, Zenon DEF ManagerCompletes, Emitted
  <2> HIDE DEF m
  <2> QED  BY <1>2, <1>3, <2>1, <2>2, <2>3, ManagerStays, Zenon
<1>6. ASSUME NEW user \in Users, ManagerRemoves(user) PROVE ProfileInv'
  <2>1. UNCHANGED calls /\ manager' = [manager EXCEPT !.incarnation[user] = @ + 1]
    BY <1>6, Zenon DEF ManagerRemoves
  <2>2. DOMAIN manager' = DOMAIN manager /\ manager'.user = manager.user
    BY <1>1, <2>1, Zenon
  <2>3. \A v \in Users : v # user => manager'.incarnation[v] = manager.incarnation[v]
    BY <1>1, <2>1, Zenon
  <2> DEFINE m == [kind |-> "removing", user |-> user]
  <2>4. ~IsReply(m) /\ m.kind = "removing" /\ m.user = user
    BY Zenon DEF IsReply
  <2>5. (bus' = bus /\ ~On(View)) \/ bus' = Append(bus, m)
    BY <1>2, <1>6, Zenon DEF ManagerRemoves, Emitted
  <2> HIDE DEF m
  <2> QED  BY <1>2, <1>3, <2>1, <2>2, <2>3, <2>4, <2>5, ManagerStays, Zenon
<1>7. CASE ManagerAnswers
  <2> DEFINE c == Head(calls)
  <2>1. /\ UNCHANGED manager /\ calls # <<>> /\ calls' = Tail(calls)
        /\ \/ bus' = Append(bus, [kind |-> "reply", call |-> c, user |-> manager.user])
           \/ bus' = Append(bus, [kind |-> "noReply", call |-> c])
    BY <1>7, Zenon DEF ManagerAnswers
  <2>2. IsList(Tail(calls)) /\ Items(calls) = {c} \cup Items(Tail(calls))
    BY <1>2, <2>1, ItemsTail, Zenon
  <2> HIDE DEF c
  <2>3. PICK m : bus' = Append(bus, m) /\ (IsReply(m) => m.call = c /\ m.user = manager.user)
    <3> DEFINE reply == [kind |-> "reply", call |-> c, user |-> manager.user]
               none == [kind |-> "noReply", call |-> c]
    <3>1. reply.call = c /\ reply.user = manager.user /\ ~IsReply(none)
      BY Zenon DEF IsReply
    <3>2. bus' = Append(bus, reply) \/ bus' = Append(bus, none)
      BY <2>1, Zenon
    <3> HIDE DEF reply, none
    <3> QED  BY <3>1, <3>2, Zenon
  <2>4. IsList(calls') /\ Items(calls') \subseteq Items(calls) /\ c \in Items(calls)
    BY <2>1, <2>2, Zenon
  <2>5. IsReply(m) => m.call \in Items(calls) /\ m.user = manager.user
    BY <2>3, <2>4, Zenon
  <2>6. /\ DOMAIN manager' = DOMAIN manager /\ manager'.user = manager.user
        /\ \A v \in Users : manager'.incarnation[v] = manager.incarnation[v]
    BY <2>1, Zenon
  <2> QED  BY <1>3, <2>3, <2>4, <2>5, <2>6, ManagerStays, Zenon
<1>8. CASE ManagerRestarts
  <2>1. /\ calls' = <<>> /\ DOMAIN manager' = DOMAIN manager
        /\ manager'.incarnation = manager.incarnation /\ manager'.user = manager.user
    BY <1>1, <1>8, Zenon DEF ManagerRestarts
  <2>2. IsList(calls') /\ Items(calls') \subseteq Items(calls)
    BY <2>1, ItemsNone, Zenon
  <2> DEFINE m == [kind |-> "vanished"]
  <2>3. ~IsReply(m)
    BY Zenon DEF IsReply
  <2>4. bus' = bus \/ bus' = Append(bus, m)
    BY <1>8, Zenon DEF ManagerRestarts
  <2> HIDE DEF m
  <2> QED  BY <1>3, <2>1, <2>2, <2>3, <2>4, ManagerStays, Zenon
<1> QED  BY <1>4, <1>5, <1>6, <1>7, <1>8, Zenon DEF Sessiond

(* The invariant, on which the three results below rest.  RaceInv gives    *)
(* the types of what the database thread holds.                            *)
LEMMA ProfileInvariance == Spec => []ProfileInv
<1>1. Init => ProfileInv
  <2> SUFFICES ASSUME Init PROVE ProfileInv
    OBVIOUS
  <2>1. DOMAIN manager = {"user", "incarnation", "switch"}
    BY Zenon DEF Init
  <2>2. /\ bus = <<>> /\ calls = <<>> /\ dbq = <<>> /\ dones = <<>> /\ out = <<>>
        /\ work.at = "idle"
    BY Zenon DEF Init, Idle
  <2>3. /\ auth.link = "connecting" /\ ~auth.synchronized /\ auth.timer = "none"
        /\ DOMAIN auth = AuthFields
    BY Zenon DEF Init, AuthFields
  <2>4. Counts(state) /\ ~state.ready
    BY DEF Init, Counts
  <2>5. /\ View.auth = auth /\ View.state = state /\ Items(View.bus) = {}
        /\ Items(View.calls) = {} /\ Items(View.dbq) = {} /\ Items(View.dones) = {}
        /\ Lists(View)
    BY <2>2, ItemsNone, ViewFields, Zenon DEF Lists
  <2>6. Whole(View) /\ Links(View)
    BY <2>3, <2>4, <2>5, ViewFields, Zenon DEF Whole, Shape, Links
  <2>7. Stamps(View, View.state.generation - 1)
    BY <2>5, Zenon DEF Stamps, Thens, Replies
  <2>8. Clear(View)
    BY <2>4, <2>5, <2>6, <2>7, Zenon DEF Clear
  <2>9. Good(View, manager.user)
    BY <2>8, ClearIsGood, Zenon
  <2>10. \A v : Covered(View, v)
    BY <2>3, <2>5, Zenon DEF Covered
  <2>11. Served
    BY <2>2, ItemsNone, Zenon DEF Served
  <2> QED  BY <2>1, <2>9, <2>10, <2>11, Zenon DEF ProfileInv
<1>2. RaceInv /\ ProfileInv /\ [Next]_vars => ProfileInv'
  <2> SUFFICES ASSUME RaceInv, ProfileInv, [Next]_vars PROVE ProfileInv'
    OBVIOUS
  <2>1. CASE UNCHANGED vars
    BY <2>1, Zenon DEF vars, ProfileInv, View, Stale, Served, Check
  <2>2. CASE Next
    BY <2>2, MainStays, FenceProfilesStays, WorkStays, SendStays, SessiondStays, Zenon
       DEF Next, Database
  <2> QED  BY <2>1, <2>2, Zenon
<1> QED  BY <1>1, <1>2, RaceInvariance, PTL DEF Spec

-----------------------------------------------------------------------------
(* For any users, switches, removals, restarts, losses and failures, a     *)
(* daemon that is ready for a user other than the manager's has the news   *)
(* of the switch, or of the manager's end, on its bus: a read of the       *)
(* current user that a switch overtook never makes it ready                *)
(* (ProfileState::Activate, OnMethodFinished).                             *)
THEOREM ReadyOnlyForManagersUser == Spec => []ReadyFollowsManager
<1>1. ProfileInv => ReadyFollowsManager
  <2> SUFFICES ASSUME ProfileInv, state.ready, state.user # manager.user
               PROVE  \E i \in 1..Len(bus) : bus[i].kind \in {"started", "vanished"}
    BY Zenon DEF ReadyFollowsManager
  <2>1. Told(View, state.user)
    BY ViewFields, Zenon DEF Told
  <2>2. PICK m \in Items(View.bus) : News(m)
    BY <2>1, Zenon DEF ProfileInv, Good, Follows
  <2>3. m \in Items(bus)
    BY <2>2, ViewFields, Zenon
  <2> QED  BY <2>2, <2>3, Zenon DEF Items, News
<1> QED  BY <1>1, ProfileInvariance, PTL

(* An approval-sensitive reply leaves the daemon only while its profile is *)
(* the active one, whatever fences, switches and activations came between  *)
(* the check of the profile, the commit and the last comparison of the     *)
(* generation (ActiveContext, ProfileCommit, Server::Execute).             *)
THEOREM RepliesAreForTheActiveProfile == Spec => SentForActiveProfile
<1>1. RaceInv /\ ProfileInv /\ [Next]_vars => [\A r \in sent' \ sent : Check(r.user)]_vars
  <2> SUFFICES ASSUME RaceInv, ProfileInv, Next
               PROVE  \A r \in sent' \ sent : Check(r.user)
    BY Zenon
  <2>1. CASE Send
    BY <2>1, SendStays, Zenon
  <2>2. CASE ~Send
    <3>1. sent' = sent
      <4>1. CASE Main \/ Stop
        BY <4>1, ZenonT(60) DEF Main, Receive, Done, Start, Connected, Initialize, Timer, Stop,
           Set
      <4>2. CASE Database \/ \E u \in Users : Begin(u)
        BY <4>2, ZenonT(60) DEF Database, FenceProfiles, ActiveContext, CommitAdmitted, Commit,
           Compensate, Reply, Begin, Work
      <4>3. CASE Sessiond
        BY <4>3, ZenonT(60) DEF Sessiond, ManagerSwitches, ManagerRemoves, ManagerCompletes,
           ManagerAnswers, ManagerRestarts, Manager
      <4> QED  BY <2>2, <4>1, <4>2, <4>3, Zenon DEF Next
    <3> QED  BY <3>1, Zenon
  <2> QED  BY <2>1, <2>2, Zenon
<1> QED  BY <1>1, RaceInvariance, ProfileInvariance, PTL DEF Spec, SentForActiveProfile

(* No user is served from the approvals of an earlier user of the same     *)
(* name, unless the barrier of that removal failed: the barrier of an      *)
(* observed removal retires them, the barrier after any gap in observation *)
(* retires all, and both run before the read that makes the daemon ready   *)
(* (OnRemoveUserStarted, Lose, FenceProfiles).                             *)
THEOREM ApprovalsDoNotOutliveTheirUser == Spec => []ApprovalsEndWithTheirUser
<1>1. ProfileInv => ApprovalsEndWithTheirUser
  <2> SUFFICES ASSUME ProfileInv, NEW u \in Users, OthersApprovals(u) PROVE u \in missed
    BY Zenon DEF ApprovalsEndWithTheirUser
  <2>1. u \in Stale /\ state.ready
    BY Zenon DEF OthersApprovals, Stale, Check
  <2>2. Covered(View, u)
    BY <2>1, Zenon DEF ProfileInv
  <2>3. On(View) /\ View.auth.synchronized /\ NoRemovals(View)
    BY <2>1, ViewFields, Zenon DEF ProfileInv, Good, Wired, Ordered
  <2>4. \A m \in Items(View.bus) : m.kind # "removing"
    BY ViewFields, Zenon DEF OthersApprovals, Items
  <2>5. View.auth.link # "stopped" /\ \A j \in Items(View.dbq) : j.removed # u
    BY <2>3, ProfilesAssumption, Zenon DEF On, NoRemovals
  <2> QED  BY <2>2, <2>3, <2>4, <2>5, ViewFields, Zenon DEF Covered
<1> QED  BY <1>1, ProfileInvariance, PTL
=============================================================================
