-------------------------- MODULE RepositoryProofs --------------------------
(* Safety of Repository for any number of definitions, sessions, requests, *)
(* executions and artifacts, and for any bounds.                           *)
EXTENDS Repository, DatabaseProofs, FiniteSetTheorems

(* The inductive invariant.                                                *)
Inv ==
    /\ TypeOK
    /\ \A r \in Requests : IsFiniteSet(screens[r])
    /\ DatabaseInv(db)

(* The empty database satisfies the invariant.                             *)
LEMMA InitInv == Init => Inv
<1> SUFFICES ASSUME Init PROVE Inv
  OBVIOUS
<1>1. EmptyDatabase \in DatabaseType
  <2>1. NoDefinition \in Definition
    BY Zenon DEF NoDefinition, Definition
  <2>2. [state |-> "NONE", policy |-> "CONNECTION_BOUND", generation |-> 0,
         limit |-> 0, lease |-> 0, resume |-> 0] \in Session
    BY Zenon DEF Session
  <2>3. [state |-> "NONE", ctx |-> Unversioned, rows |-> {},
         session |-> NoSession, generation |-> 0, deadline |-> 0,
         target |-> 0, versions |-> [d \in Definitions |-> <<0, 0>>],
         allowed |-> {}, token |-> 0, shown |-> {}, chosen |-> "",
         rank |-> 0] \in Request
    <3>1. Unversioned \in Context
      BY DEF Unversioned, Context
    <3>2. [d \in Definitions |-> <<0, 0>>] \in [Definitions -> Nat \X Nat]
      OBVIOUS
    <3> QED  BY <3>1, <3>2 DEF Request
  <2>4. [state |-> "none", mode |-> "ONCE", policy |-> 0,
         session |-> NoSession, expires |-> 0, remaining |-> 0] \in Grant
    BY DEF Grant, GrantModes
  <2>5. [state |-> "none", rows |-> {}, session |-> NoSession,
         generation |-> 0, created |-> 0, grants |-> {}] \in Authorization
    BY Zenon DEF Authorization
  <2>6. [state |-> "NONE", session |-> NoSession, instance |-> 0,
         expires |-> 0, sources |-> {}, parents |-> {}] \in Artifact
    BY Zenon DEF Artifact
  <2> QED  BY <2>1, <2>2, <2>3, <2>4, <2>5, <2>6, Zenon DEF EmptyDatabase, DatabaseType
<1>2. TypeOK
  <2>1. NoDefinition \in Definition
    BY Zenon DEF NoDefinition, Definition
  <2> QED  BY <1>1, <2>1, Zenon DEF Init, TypeOK
<1>3. \A r \in Requests : IsFiniteSet(screens[r])
  BY FS_EmptySet, Zenon DEF Init
<1>4. RowsInv(EmptyDatabase)
  BY GrantNames, Zenon DEF RowsInv, FreshGrants, ShownRows, OnceCounts, SessionSources, OnceSpent,
                    CoveredRows, ParentsExist, WithinParents, FreshSessions, EmptyDatabase
<1>5. StatesInv(EmptyDatabase)
  BY Zenon DEF StatesInv, LiveSources, DataInOpenSession, ClosedClean, CurrentGrants,
         GrantInOpenSession, PendingInSession, NamedGrantsExist, EmptyDatabase
<1>6. DatabaseInv(db)
  BY <1>4, <1>5, Zenon DEF DatabaseInv, Init
<1> QED  BY <1>2, <1>3, <1>6, Zenon DEF Inv

-----------------------------------------------------------------------------
(* Each handler, in a state that satisfies the invariant, leaves tables    *)
(* that satisfy it and undoes nothing.                                     *)

(* A withdrawal that keeps the invariants is such a step.                  *)
LEMMA WithdrawnGood ==
    ASSUME NEW T \in DatabaseType, NEW U \in DatabaseType, Withdrawn(T, U), DatabaseInv(U)
    PROVE  Good(T, U)
BY WithdrawnForward, Zenon DEF Good

(* So is no step at all.                                                   *)
LEMMA StutterGood ==
    ASSUME NEW T \in DatabaseType, DatabaseInv(T)
    PROVE  Good(T, T)
BY WithdrawnReflexive, WithdrawnGood, Zenon DEF Withdrawn

(* Expire before a request (Execute).                                      *)
LEMMA SweepGood == Inv /\ Sweep => Good(db, db') /\ Withdrawn(db, db')
BY ExpireType, ExpireKeeps, WithdrawnGood, BoundsAssumption, Zenon DEF Inv, TypeOK, Sweep

(* A registered definition is stored under the installed generation.       *)
LEMMA RegistryType ==
    ASSUME TypeOK, NEW d \in Definitions, NEW policy \in 1..MaxPolicy, NEW text \in 1..MaxText
    PROVE  [registry EXCEPT ![d] = [active |-> TRUE, policy |-> policy, text |-> text,
                                    identity |-> authority[PackageOf[d]]]]
               \in [Definitions -> Definition]
<1>1. policy \in Nat /\ text \in Nat
  BY BoundsAssumption
<1>2. authority[PackageOf[d]] \in Nat
  BY DefinitionsAssumption, Zenon DEF TypeOK
<1>3. [active |-> TRUE, policy |-> policy, text |-> text,
       identity |-> authority[PackageOf[d]]] \in Definition
  BY <1>1, <1>2, Zenon DEF Definition
<1> QED  BY <1>3, Zenon DEF TypeOK

(* Registering or updating a definition (Register).                        *)
LEMMA RegisterGood ==
    ASSUME Inv, NEW d \in Definitions, NEW policy \in 1..MaxPolicy, NEW text \in 1..MaxText,
           Register(d, policy, text)
    PROVE  Good(db, db') /\ Withdrawn(db, db') /\ registry' \in [Definitions -> Definition]
<1>1. registry' \in [Definitions -> Definition]
  BY RegistryType, Zenon DEF Inv, Register
<1>2. db' = Replay(db, registry', authority)
  BY Zenon DEF Register, Commit
<1> QED  BY <1>1, <1>2, ReplayType, ReplayKeeps, ReplayWithdraws, WithdrawnGood, Zenon DEF Inv, TypeOK

(* Unregistering a package (Unregister).                                   *)
LEMMA UnregisterGood ==
    ASSUME Inv, NEW p \in Packages, Unregister(p)
    PROVE  Good(db, db') /\ Withdrawn(db, db') /\ registry' \in [Definitions -> Definition]
<1>1. registry' \in [Definitions -> Definition]
  BY Zenon DEF Inv, TypeOK, Unregister, Definition
<1>2. db' = Replay(db, registry', authority)
  BY Zenon DEF Unregister, Commit
<1> QED  BY <1>1, <1>2, ReplayType, ReplayKeeps, ReplayWithdraws, WithdrawnGood, Zenon DEF Inv, TypeOK

(* Replay, sweep and compaction on a timer (Tick).                         *)
LEMMA TickGood == Inv /\ Tick => Good(db, db') /\ Withdrawn(db, db')
<1> SUFFICES ASSUME Inv, Tick PROVE Good(db, db') /\ Withdrawn(db, db')
  OBVIOUS
<1> DEFINE replayed == Replay(db, registry, authority)
           tables == Expire(replayed, now, Grace)
<1>1. db \in DatabaseType /\ DatabaseInv(db) /\ now \in Nat /\ Grace \in Nat
  BY BoundsAssumption, Zenon DEF Inv, TypeOK
<1>2. replayed \in DatabaseType /\ Withdrawn(db, replayed) /\ DatabaseInv(replayed)
  BY <1>1, ReplayType, ReplayKeeps, ReplayWithdraws, Zenon DEF Inv, TypeOK
<1>3. \/ db' = tables
      \/ \E receiptsFirst \in BOOLEAN : db' = CompactMetadata(tables, receiptsFirst)
  BY Zenon DEF Tick
<1> HIDE DEF replayed
<1>4. tables \in DatabaseType /\ Withdrawn(replayed, tables) /\ DatabaseInv(tables)
  BY <1>1, <1>2, ExpireType, ExpireKeeps, Zenon
<1> HIDE DEF tables
<1>5. Withdrawn(db, tables)
  BY <1>1, <1>2, <1>4, WithdrawnTransitive, Zenon
<1>6. db' \in DatabaseType /\ Withdrawn(db, db') /\ DatabaseInv(db')
  BY <1>1, <1>3, <1>4, <1>5, CompactMetadataType, CompactMetadataKeeps, WithdrawnTransitive
<1> QED  BY <1>1, <1>6, WithdrawnGood, Zenon

(* Replay and the reset of runtime state at start (Open).                  *)
LEMMA RestartGood ==
    ASSUME Inv, NEW clock, Restart(clock)
    PROVE  Good(db, db') /\ Withdrawn(db, db')
<1> DEFINE replayed == Replay(db, registry, authority)
<1>1. db \in DatabaseType /\ DatabaseInv(db) /\ registry \in [Definitions -> Definition]
  BY Zenon DEF Inv, TypeOK
<1>2. replayed \in DatabaseType /\ Withdrawn(db, replayed) /\ DatabaseInv(replayed)
  BY <1>1, ReplayType, ReplayKeeps, ReplayWithdraws, Zenon
<1>3. db' = ResetRuntime(replayed)
  BY Zenon DEF Restart
<1> HIDE DEF replayed
<1>4. db' \in DatabaseType /\ Withdrawn(replayed, db') /\ DatabaseInv(db')
  BY <1>2, <1>3, ResetRuntimeType, ResetRuntimeKeeps, Zenon
<1> QED  BY <1>1, <1>2, <1>4, WithdrawnTransitive, WithdrawnGood, Zenon
-----------------------------------------------------------------------------
(* Sessions.                                                               *)

(* Closing sessions and finishing their cleanup.                           *)
LEMMA CloseGood ==
    ASSUME NEW T \in DatabaseType, DatabaseInv(T), NEW S \in SUBSET Sessions
    PROVE  /\ Good(T, FinishCleanup(CloseSessions(T, S)))
           /\ Withdrawn(T, FinishCleanup(CloseSessions(T, S)))
<1> DEFINE closed == CloseSessions(T, S)
<1>1. closed \in DatabaseType /\ Withdrawn(T, closed) /\ DatabaseInv(closed)
  BY NamesAssumption, CloseSessionsType, CloseSessionsWithdraws, CloseSessionsKeeps, Zenon
<1> HIDE DEF closed
<1>2. /\ FinishCleanup(closed) \in DatabaseType /\ Withdrawn(closed, FinishCleanup(closed))
      /\ DatabaseInv(FinishCleanup(closed))
  BY <1>1, FinishCleanupType, FinishCleanupWithdraws, FinishCleanupKeeps, Zenon
<1>3. Withdrawn(T, FinishCleanup(closed))
  BY <1>1, <1>2, WithdrawnTransitive, Zenon
<1>4. Good(T, FinishCleanup(closed))
  BY <1>2, <1>3, WithdrawnGood, Zenon
<1> QED  BY <1>3, <1>4, Zenon DEF closed

(* Opening a session that was never open.                                  *)
LEMMA SessionOpenGood ==
    ASSUME Inv, NEW s \in Sessions, NEW lifecycle \in Lifecycles, NEW lifetime \in Lifetimes,
           SessionOpen(s, lifecycle, lifetime)
    PROVE  Good(db, db')
<1> DEFINE session == [state |-> "ACTIVE", policy |-> lifecycle, generation |-> 1,
                       limit |-> now + lifetime, lease |-> now + Lease, resume |-> 0]
<1>1. now + lifetime \in Nat /\ now + Lease \in Nat
  BY BoundsAssumption DEF Inv, TypeOK
<1>2. session \in Session
  BY <1>1, BoundsAssumption, Zenon DEF Session
<1>3. db' = [db EXCEPT !.sessions[s] = session] /\ db.sessions[s].state = "NONE"
  BY Zenon DEF SessionOpen, Update, Commit
<1>4. session.state = "ACTIVE" /\ session.generation = 1
  OBVIOUS
<1> HIDE DEF session
<1> QED  BY <1>2, <1>3, <1>4, SessionChangeKeeps DEF Inv, TypeOK

(* Closing a session on request.                                           *)
LEMMA SessionCloseGood ==
    ASSUME Inv, NEW s \in Sessions, SessionClose(s)
    PROVE  Good(db, db') /\ Withdrawn(db, db')
BY CloseGood, Zenon DEF Inv, TypeOK, SessionClose, Update, Commit

(* Suspending a session, which closes a connection-bound one.              *)
LEMMA SessionSuspendGood ==
    ASSUME Inv, NEW s \in Sessions, SessionSuspend(s)
    PROVE  Good(db, db') /\ Withdrawn(db, db')
<1>1. db \in DatabaseType /\ DatabaseInv(db) /\ now + Grace \in Nat
  BY BoundsAssumption DEF Inv, TypeOK
<1>2. \/ db' = FinishCleanup(CloseSessions(db, {s}))
      \/ db' = SuspendSessions(db, {s}, now + Grace)
  BY Zenon DEF SessionSuspend, Update, Commit
<1>3. /\ Good(db, SuspendSessions(db, {s}, now + Grace))
      /\ Withdrawn(db, SuspendSessions(db, {s}, now + Grace))
  BY <1>1, SuspendSessionsType, SuspendSessionsWithdraws, SuspendSessionsKeeps, WithdrawnGood, Zenon
<1> QED  BY <1>1, <1>2, <1>3, CloseGood, Zenon

(* Resuming a suspended session in a new generation.                       *)
LEMMA SessionResumeGood ==
    ASSUME Inv, NEW s \in Sessions, SessionResume(s)
    PROVE  Good(db, db')
<1> DEFINE generation == db.sessions[s].generation + 1
           lease == now + Lease
           session == [db.sessions[s] EXCEPT !.state = "ACTIVE", !.generation = generation,
                                             !.lease = lease]
<1>1. /\ db \in DatabaseType /\ db.sessions[s] \in Session /\ lease \in Nat
      /\ generation \in Nat /\ generation > db.sessions[s].generation
  <2>1. db \in DatabaseType /\ now \in Nat
    BY Zenon DEF Inv, TypeOK
  <2>2. db.sessions[s] \in Session
    BY <2>1, Zenon DEF DatabaseType
  <2>3. db.sessions[s].generation \in Nat
    BY <2>1, NumbersTyped, Zenon
  <2>4. lease \in Nat
    BY <2>1, BoundsAssumption
  <2> QED  BY <2>1, <2>2, <2>3, <2>4
<1>2. /\ db.sessions[s].state = "SUSPENDED"
      /\ db' = [db EXCEPT !.sessions[s].state = "ACTIVE", !.sessions[s].generation = generation,
                          !.sessions[s].lease = lease]
  BY Zenon DEF SessionResume, Update, Commit
<1> HIDE DEF generation, lease
<1>3. session \in Session /\ session.state = "ACTIVE" /\ session.generation = generation
  BY <1>1, Zenon DEF Session
<1>4. db' = [db EXCEPT !.sessions[s] = session]
  BY <1>1, <1>2, ZenonT(60) DEF DatabaseType, Session
<1> HIDE DEF session
<1>5. session.generation > db.sessions[s].generation /\ DatabaseInv(db)
  BY <1>1, <1>3, Zenon DEF Inv
<1>6. Good(db, [db EXCEPT !.sessions[s] = session])
  BY <1>1, <1>2, <1>3, <1>5, SessionChangeKeeps, Zenon
<1> QED  BY <1>4, <1>6, Zenon

(* A heartbeat, which moves the lease alone.                               *)
LEMMA SessionHeartbeatGood ==
    ASSUME Inv, NEW s \in Sessions, SessionHeartbeat(s)
    PROVE  Good(db, db')
<1> DEFINE lease == now + Lease
           session == [db.sessions[s] EXCEPT !.lease = lease]
<1>1. db \in DatabaseType /\ db.sessions[s] \in Session /\ lease \in Nat
  BY BoundsAssumption DEF Inv, TypeOK, DatabaseType
<1>2. db.sessions[s].state = "ACTIVE" /\ db' = [db EXCEPT !.sessions[s].lease = lease]
  BY Zenon DEF SessionHeartbeat, Update, Commit
<1> HIDE DEF lease
<1>3. /\ session \in Session /\ session.state = db.sessions[s].state
      /\ session.generation = db.sessions[s].generation
  BY <1>1, Zenon DEF Session
<1>4. db' = [db EXCEPT !.sessions[s] = session]
  BY <1>1, <1>2, Zenon DEF DatabaseType
<1> HIDE DEF session
<1> QED  BY <1>1, <1>2, <1>3, <1>4, SessionChangeKeeps DEF Inv
-----------------------------------------------------------------------------
(* Requests.                                                               *)

(* The fields of a stored request.                                         *)
LEMMA RequestFields ==
    ASSUME NEW q \in Request
    PROVE  /\ q.ctx \in Context /\ q.rows \subseteq Definitions
           /\ q.session \in Sessions \cup {NoSession} /\ q.generation \in Nat
           /\ q.versions \in [Definitions -> Nat \X Nat]
           /\ q.shown \subseteq Definitions /\ q.chosen \in GrantModes \cup {""}
BY Zenon DEF Request

(* A request ends, or is prompted, with what else it holds unchanged.      *)
ChosenModes == GrantModes \cup {""}

EndStates == {"PENDING", "ALLOWED", "DENIED", "CANCELLED", "INVALIDATED"}

Rewritten(q, state, token, shown, chosen, rank) ==
    [q EXCEPT !.state = state, !.token = token, !.shown = shown,
              !.chosen = chosen, !.rank = rank]

(* A rewrite of one request that ends it or changes its screen.            *)
LEMMA RequestRewritten ==
    ASSUME NEW q \in Request, NEW token \in Nat, NEW shown \in SUBSET Definitions,
           NEW chosen \in ChosenModes, NEW rank \in Nat,
           NEW state \in EndStates
    PROVE  LET new == Rewritten(q, state, token, shown, chosen, rank)
           IN /\ new \in Request
              /\ new.state = state /\ new.shown = shown
              /\ new.rows = q.rows /\ new.session = q.session
              /\ new.generation = q.generation /\ new.versions = q.versions
BY Zenon DEF Request, Rewritten, ChosenModes, EndStates

(* What CreateRequest inserts.                                             *)
LEMMA CreateRequestGood ==
    ASSUME Inv, NEW r \in Requests, NEW rows \in RowSets, NEW s \in CallSessions,
           NEW ctx \in Contexts, NEW wait \in Waits, CreateRequest(r, rows, s, ctx, wait)
    PROVE  Good(db, db')
<1> DEFINE q == Query(rows, s, ctx)
           decision == CheckConditions(db, q, now)
           state == IF decision = "CONSENT_REQUIRED" THEN "PENDING" ELSE decision
           generation == q.generation
           target == q.target
           versions == [d \in Definitions |->
               IF d \in rows /\ db.defs[d].active
               THEN <<db.defs[d].policy, db.defs[d].text>> ELSE <<0, 0>>]
           allowed == rows \ (MissingRows(db, q, now) \cup DeniedRows(db, q))
           chosen == IF ctx.version = 2 /\ decision = "ALLOWED" THEN ctx.mode ELSE ""
           deadline == now + wait
           request == [state |-> state, ctx |-> ctx, rows |-> rows, session |-> s,
                       generation |-> generation, deadline |-> deadline, target |-> target,
                       versions |-> versions, allowed |-> allowed, token |-> 0, shown |-> {},
                       chosen |-> chosen, rank |-> 0]
<1>1. /\ db \in DatabaseType /\ DatabaseInv(db) /\ now \in Nat
  BY Zenon DEF Inv, TypeOK
<1>2. /\ ctx \in Context /\ rows \in SUBSET Definitions /\ s \in Sessions \cup {NoSession}
  BY ContextsAssumption, Zenon
<1>3. ctx.duration \in Nat /\ ctx.mode \in {"ONCE", "SESSION", "TIMED"}
  BY <1>2, Zenon DEF Context
<1>4. state \in {"PENDING", "ALLOWED", "DENIED"}
  BY Zenon DEF CheckConditions
<1>5. generation \in Nat /\ target \in Nat /\ deadline \in Nat
  <2>1. (IF s = NoSession THEN 0 ELSE db.sessions[s].generation) \in Nat
    BY <1>1, <1>2, NumbersTyped, Zenon
  <2>2. now + ctx.duration \in Nat /\ now + wait \in Nat
    BY <1>1, <1>3, BoundsAssumption
  <2> QED  BY <2>1, <2>2, Zenon DEF Query
<1>6. versions \in [Definitions -> Nat \X Nat]
  BY <1>1, Zenon DEF DatabaseType, Definition
<1>7. allowed \in SUBSET Definitions /\ chosen \in GrantModes \cup {""}
  BY <1>2, <1>3, Zenon DEF GrantModes
<1>8. db.requests[r].state = "NONE" /\ db' = [db EXCEPT !.requests[r] = request]
  BY Zenon DEF CreateRequest, Update, Commit
<1>9. s # NoSession => /\ db.sessions[s].state = "ACTIVE"
                       /\ db.sessions[s].generation = generation
  BY Zenon DEF CreateRequest, Evaluable, SessionActive, Query
<1> HIDE DEF state, generation, target, deadline, versions, allowed, chosen, decision, q
<1>10. /\ request \in Request /\ request.state = state /\ request.shown = {}
       /\ request.session = s /\ request.generation = generation
  BY <1>2, <1>4, <1>5, <1>6, <1>7, Zenon DEF Request
<1> HIDE DEF request
<1>11. /\ request.shown \subseteq request.rows /\ request.state # "NONE"
       /\ request.session # NoSession =>
             /\ db.sessions[request.session].state = "ACTIVE"
             /\ db.sessions[request.session].generation = request.generation
  BY <1>4, <1>9, <1>10, Zenon
<1>12. Good(db, [db EXCEPT !.requests[r] = request])
  BY <1>1, <1>8, <1>10, <1>11, RequestChangeKeeps, Zenon
<1> QED  BY <1>8, <1>12, Zenon

(* A pending request is rewritten: prompted or ended without a grant.      *)
LEMMA PendingRewrittenGood ==
    ASSUME NEW T \in DatabaseType, DatabaseInv(T), NEW r \in Requests,
           T.requests[r].state = "PENDING",
           NEW token \in Nat, NEW shown \in SUBSET T.requests[r].rows,
           NEW chosen \in ChosenModes,
           NEW state \in EndStates
    PROVE  Good(T, [T EXCEPT !.requests[r] =
                      Rewritten(T.requests[r], state, token, shown, chosen, T.requests[r].rank)])
<1> DEFINE q == T.requests[r]
           new == Rewritten(q, state, token, shown, chosen, q.rank)
<1>1. q \in Request
  BY Zenon DEF DatabaseType
<1>2. q.rows \subseteq Definitions /\ q.rank \in Nat
  BY <1>1, Zenon DEF Request
<1>3. shown \in SUBSET Definitions
  BY <1>2, Zenon
<1>4. /\ new \in Request
      /\ new.state = state /\ new.shown = shown
      /\ new.rows = q.rows /\ new.session = q.session
      /\ new.generation = q.generation /\ new.versions = q.versions
  <2> DEFINE rank == q.rank
  <2>1. rank \in Nat
    BY <1>2, Zenon
  <2> HIDE DEF q, rank
  <2> SUFFICES LET n == Rewritten(q, state, token, shown, chosen, rank)
               IN /\ n \in Request
                  /\ n.state = state /\ n.shown = shown
                  /\ n.rows = q.rows /\ n.session = q.session
                  /\ n.generation = q.generation /\ n.versions = q.versions
    BY Zenon DEF rank
  <2> QED  BY <1>1, <1>3, <2>1, RequestRewritten, SMTT(60)
<1> HIDE DEF new
<1>5. new.session # NoSession =>
         /\ T.sessions[new.session].state = "ACTIVE"
         /\ T.sessions[new.session].generation = new.generation
  BY <1>4, Zenon DEF DatabaseInv, StatesInv, PendingInSession
<1>6. new.shown \subseteq new.rows /\ new.state # "NONE"
  BY <1>4, Zenon DEF EndStates
<1>7. Good(T, [T EXCEPT !.requests[r] = new])
  BY <1>4, <1>5, <1>6, RequestChangeKeeps, Zenon
<1> QED  BY <1>7, Zenon DEF new

(* The rewrites of the handlers: cancel, prompt and answer.                *)
LEMMA RewriteCancel ==
    ASSUME NEW q \in Request, NEW state, NEW token
    PROVE  [q EXCEPT !.state = state, !.token = token]
              = Rewritten(q, state, token, q.shown, q.chosen, q.rank)
BY Zenon DEF Request, Rewritten

(* Issuing a token is such a rewrite.                                      *)
LEMMA RewritePrompt ==
    ASSUME NEW q \in Request, NEW token, NEW shown
    PROVE  [q EXCEPT !.token = token, !.shown = shown]
              = Rewritten(q, q.state, token, shown, q.chosen, q.rank)
BY Zenon DEF Request, Rewritten

(* Recording an answer is such a rewrite.                                  *)
LEMMA RewriteAnswer ==
    ASSUME NEW q \in Request, NEW state, NEW chosen
    PROVE  [q EXCEPT !.state = state, !.token = 0, !.shown = {}, !.chosen = chosen]
              = Rewritten(q, state, 0, {}, chosen, q.rank)
BY Zenon DEF Request, Rewritten

(* Cancelling a pending request.                                           *)
LEMMA CancelRequestGood ==
    ASSUME Inv, NEW r \in Requests, CancelRequest(r)
    PROVE  Good(db, db')
<1> DEFINE q == db.requests[r]
<1>1. db \in DatabaseType /\ DatabaseInv(db) /\ q \in Request /\ q.state = "PENDING"
  BY Zenon DEF Inv, TypeOK, DatabaseType, CancelRequest
<1>2. db' = [db EXCEPT !.requests[r] = [q EXCEPT !.state = "CANCELLED", !.token = 0]]
  BY <1>1, Zenon DEF CancelRequest, Update, Commit, DatabaseType
<1>3. q.shown \in SUBSET q.rows /\ q.chosen \in ChosenModes /\ "CANCELLED" \in EndStates
  BY <1>1, RequestFields, Zenon DEF DatabaseInv, RowsInv, ShownRows, ChosenModes, EndStates
<1>4. [q EXCEPT !.state = "CANCELLED", !.token = 0]
         = Rewritten(q, "CANCELLED", 0, q.shown, q.chosen, q.rank)
  BY <1>1, RewriteCancel, Zenon
<1>5. Good(db, [db EXCEPT !.requests[r] = Rewritten(q, "CANCELLED", 0, q.shown, q.chosen, q.rank)])
  BY <1>1, <1>3, PendingRewrittenGood, Zenon
<1> QED  BY <1>2, <1>4, <1>5, Zenon

(* The period an answer chooses.                                           *)
LEMMA ChosenTyped ==
    ASSUME NEW q \in Request, NEW mode \in GrantModes
    PROVE  Chosen(q, mode).chosen \in ChosenModes
BY RequestFields, Zenon DEF Chosen, ChosenModes, Request

(* The user denies.                                                        *)
LEMMA DenyGood ==
    ASSUME Inv, NEW r \in Requests, NEW screen, NEW mode \in GrantModes, Deny(r, screen, mode)
    PROVE  Good(db, db')
<1> DEFINE q == db.requests[r]
           chosen == Chosen(q, mode).chosen
<1>1. db \in DatabaseType /\ DatabaseInv(db) /\ q \in Request /\ q.state = "PENDING"
  BY Zenon DEF Inv, TypeOK, DatabaseType, Deny, Promptable
<1>2. chosen \in ChosenModes /\ "DENIED" \in EndStates
  BY <1>1, ChosenTyped, Zenon DEF EndStates
<1>3. db' = [db EXCEPT !.requests[r].state = "DENIED", !.requests[r].token = 0,
                       !.requests[r].shown = {}, !.requests[r].chosen = chosen]
  BY Zenon DEF Deny, Update, Commit
<1> HIDE DEF chosen
<1>4. db' = [db EXCEPT !.requests[r] = [q EXCEPT !.state = "DENIED", !.token = 0, !.shown = {},
                                                 !.chosen = chosen]]
  BY <1>1, <1>3, ZenonT(60) DEF DatabaseType
<1>5. [q EXCEPT !.state = "DENIED", !.token = 0, !.shown = {}, !.chosen = chosen]
         = Rewritten(q, "DENIED", 0, {}, chosen, q.rank)
  BY <1>1, RewriteAnswer, Zenon
<1>6. Good(db, [db EXCEPT !.requests[r] = Rewritten(q, "DENIED", 0, {}, chosen, q.rank)])
  BY <1>1, <1>2, PendingRewrittenGood, Zenon
<1> QED  BY <1>4, <1>5, <1>6, Zenon

(* A request that needs no question is answered (GetPrompt).               *)
LEMMA FinishUnaskedGood ==
    ASSUME Inv, NEW r \in Requests, FinishUnasked(r)
    PROVE  Good(db, db')
<1> DEFINE q == db.requests[r]
           state == IF CheckConditions(db, q, now) = "ALLOWED" THEN "ALLOWED" ELSE "INVALIDATED"
           chosen == IF q.ctx.version = 2 THEN q.ctx.mode ELSE ""
<1>1. db \in DatabaseType /\ DatabaseInv(db) /\ q \in Request /\ q.state = "PENDING"
  BY Zenon DEF Inv, TypeOK, DatabaseType, FinishUnasked, Promptable
<1>2. chosen \in ChosenModes /\ state \in EndStates
  BY <1>1, RequestFields, Zenon DEF EndStates, ChosenModes, GrantModes, Context
<1>3. db' = [db EXCEPT !.requests[r].state = state, !.requests[r].token = 0,
                       !.requests[r].shown = {}, !.requests[r].chosen = chosen]
  BY Zenon DEF FinishUnasked, Update, Commit
<1> HIDE DEF chosen, state
<1>4. db' = [db EXCEPT !.requests[r] = [q EXCEPT !.state = state, !.token = 0, !.shown = {},
                                                 !.chosen = chosen]]
  BY <1>1, <1>3, ZenonT(60) DEF DatabaseType
<1>5. [q EXCEPT !.state = state, !.token = 0, !.shown = {}, !.chosen = chosen]
         = Rewritten(q, state, 0, {}, chosen, q.rank)
  BY <1>1, RewriteAnswer, Zenon
<1>6. Good(db, [db EXCEPT !.requests[r] = Rewritten(q, state, 0, {}, chosen, q.rank)])
  BY <1>1, <1>2, PendingRewrittenGood, Zenon
<1> QED  BY <1>4, <1>5, <1>6, Zenon

(* Only rows of the request are displayed.                                 *)
LEMMA DisplayedRows ==
    ASSUME NEW q \in Request
    PROVE  Displayed(q) \subseteq q.rows
BY Zenon DEF Displayed, MissingRows

(* Displaying a request, on a new screen with a new token.                 *)
LEMMA GetPromptGood ==
    ASSUME Inv, NEW r \in Requests, GetPrompt(r)
    PROVE  /\ Good(db, db')
           /\ screens' \in [Requests -> SUBSET Screen]
           /\ \A x \in Requests : IsFiniteSet(screens'[x])
<1> DEFINE q == db.requests[r]
           token == Cardinality(screens[r]) + 1
           shown == Displayed(q)
           screen == [token |-> token, rows |-> shown, versions |-> q.versions]
<1>1. db \in DatabaseType /\ DatabaseInv(db) /\ q \in Request /\ q.state = "PENDING"
  BY Zenon DEF Inv, TypeOK, DatabaseType, GetPrompt, Promptable
<1>2. token \in Nat
  BY FS_CardinalityType DEF Inv
<1>3. shown \in SUBSET q.rows /\ q.chosen \in ChosenModes /\ "PENDING" \in EndStates
  BY <1>1, DisplayedRows, RequestFields, Zenon DEF ChosenModes, EndStates
<1>4. /\ db' = [db EXCEPT !.requests[r].token = token, !.requests[r].shown = shown]
      /\ screens' = [screens EXCEPT ![r] = @ \cup {screen}]
  BY Zenon DEF GetPrompt, Commit
<1> HIDE DEF token, shown
<1>5. db' = [db EXCEPT !.requests[r] = [q EXCEPT !.token = token, !.shown = shown]]
  BY <1>1, <1>4, Zenon DEF DatabaseType
<1>6. [q EXCEPT !.token = token, !.shown = shown]
         = Rewritten(q, "PENDING", token, shown, q.chosen, q.rank)
  BY <1>1, RewritePrompt, Zenon
<1>7. Good(db, [db EXCEPT !.requests[r] = Rewritten(q, "PENDING", token, shown, q.chosen, q.rank)])
  BY <1>1, <1>2, <1>3, PendingRewrittenGood, Zenon
<1>8. Good(db, db')
  BY <1>5, <1>6, <1>7, Zenon
<1>9. screen \in Screen
  BY <1>1, <1>2, <1>3, RequestFields, Zenon DEF Screen
<1> HIDE DEF screen
<1>10. screens' \in [Requests -> SUBSET Screen]
  BY <1>4, <1>9, Zenon DEF Inv, TypeOK
<1>11. \A x \in Requests : IsFiniteSet(screens'[x])
  <2>1. IsFiniteSet(screens[r] \cup {screen})
    BY FS_AddElement, Zenon DEF Inv
  <2> QED  BY <1>4, <2>1, Zenon DEF Inv, TypeOK
<1> QED  BY <1>8, <1>10, <1>11, Zenon

(* Retiring an approval that no longer holds.                              *)
LEMMA RetireStoredApprovalGood ==
    ASSUME Inv, NEW r \in Requests, RetireStoredApproval(r)
    PROVE  Good(db, db')
<1> DEFINE q == db.requests[r]
           new == [q EXCEPT !.state = "INVALIDATED"]
<1>1. db \in DatabaseType /\ DatabaseInv(db) /\ q \in Request /\ q.state = "ALLOWED"
  BY Zenon DEF Inv, TypeOK, DatabaseType, RetireStoredApproval
<1>2. db' = [db EXCEPT !.requests[r] = new]
  BY <1>1, Zenon DEF RetireStoredApproval, Update, Commit, DatabaseType
<1>3. /\ new \in Request /\ new.state = "INVALIDATED"
      /\ new.versions = q.versions /\ new.shown = q.shown /\ new.rows = q.rows
  BY <1>1, Zenon DEF Request
<1> HIDE DEF new
<1>4. new.shown \subseteq new.rows
  BY <1>1, <1>3, Zenon DEF DatabaseInv, RowsInv, ShownRows
<1>5. Good(db, [db EXCEPT !.requests[r] = new])
  BY <1>1, <1>3, <1>4, RequestChangeKeeps, ZenonT(60)
<1> QED  BY <1>2, <1>5, Zenon

(* An approval grants rows of the request only.                            *)
LEMMA GrantedRowsWithin ==
    ASSUME NEW T \in DatabaseType, DatabaseInv(T), NEW r \in Requests, NEW mode
    PROVE  GrantedRows(T.requests[r], mode) \subseteq T.requests[r].rows
<1>1. T.requests[r].shown \subseteq T.requests[r].rows
  BY Zenon DEF DatabaseInv, RowsInv, ShownRows
<1> QED  BY <1>1, Zenon DEF GrantedRows

(* The grants an approval inserts are current and of the request's session.*)
LEMMA InsertedGrants ==
    ASSUME Inv, NEW r \in Requests, NEW D \in SUBSET db.requests[r].rows,
           NEW mode \in GrantModes, NEW duration \in Nat, Promptable(r),
           mode = "SESSION" => db.requests[r].session # NoSession
    PROVE  /\ Inserted(r, D, mode, duration) \in [GrantIds -> Grant]
           /\ Answered(db, r, Inserted(r, D, mode, duration))
<1> DEFINE q == db.requests[r]
           session == IF mode = "SESSION" THEN q.session ELSE NoSession
           expires == IF mode = "TIMED" THEN now + duration ELSE 0
           remaining == IF mode = "ONCE" THEN 1 ELSE -1
           new(d) == [state |-> "live", mode |-> mode, policy |-> db.defs[d].policy,
                      session |-> session, expires |-> expires, remaining |-> remaining]
           I == Inserted(r, D, mode, duration)
<1>1. db \in DatabaseType /\ db.grants \in [GrantIds -> Grant] /\ now \in Nat
  BY Zenon DEF Inv, TypeOK, DatabaseType
<1>2. session \in Sessions \cup {NoSession} /\ expires \in Nat /\ remaining \in -1..1
  BY <1>1, SessionsTyped
<1>3. mode = "SESSION" => session \in Sessions /\ Open(db.sessions[session])
  BY Zenon DEF Promptable, SessionActive, Open
<1>4. \A d \in Definitions : db.defs[d].policy \in Nat
  BY <1>1, Zenon DEF DatabaseType, Definition
<1>5. \A d \in D : db.defs[d].active /\ q.versions[d] = <<db.defs[d].policy, db.defs[d].text>>
  BY Zenon DEF Promptable
<1>6. I = [g \in GrantIds |-> IF g[1] = r /\ g[2] \in D THEN new(g[2]) ELSE db.grants[g]]
  BY Zenon DEF Inserted
<1>7. mode = "ONCE" => remaining = 1
  OBVIOUS
<1> HIDE DEF session, expires, remaining, I
<1>8. \A d \in Definitions : new(d) \in Grant
  BY <1>2, <1>4, Zenon DEF Grant
<1>9. \A d \in Definitions :
         /\ new(d).state = "live" /\ new(d).policy = db.defs[d].policy
         /\ new(d).mode = mode /\ new(d).session = session /\ new(d).remaining = remaining
  OBVIOUS
<1> HIDE DEF new
<1>10. I \in [GrantIds -> Grant]
  BY <1>1, <1>6, <1>8, GrantNames, ZenonT(60)
<1>11. ASSUME NEW g \in GrantIds, I[g] # db.grants[g]
       PROVE  /\ g[1] = r
              /\ I[g].state = "live"
              /\ db.defs[g[2]].active
              /\ I[g].policy = db.defs[g[2]].policy
              /\ db.requests[r].versions[g[2]] = <<db.defs[g[2]].policy, db.defs[g[2]].text>>
              /\ I[g].mode = "ONCE" => I[g].remaining = 1
              /\ I[g].mode = "SESSION" => I[g].session \in Sessions /\ Open(db.sessions[I[g].session])
  <2>1. g[1] = r /\ g[2] \in D /\ g[2] \in Definitions /\ I[g] = new(g[2])
    BY <1>6, <1>11, GrantNames, Zenon
  <2> QED  BY <1>3, <1>5, <1>7, <1>9, <2>1, ZenonT(60)
<1>12. Answered(db, r, I)
  BY <1>11, Zenon DEF Answered
<1> QED  BY <1>10, <1>12, Zenon DEF I

(* The tables after an answer, with the fields of its request set one by   *)
(* one and as one rewrite of the request.                                  *)
Settled(T, r, state, chosen) ==
    [T EXCEPT !.requests[r].state = state, !.requests[r].token = 0,
              !.requests[r].shown = {}, !.requests[r].chosen = chosen]

SettledRequest(q, state, chosen) ==
    [q EXCEPT !.state = state, !.token = 0, !.shown = {}, !.chosen = chosen]

Granted(T, r, grants, rank) == [T EXCEPT !.grants = grants, !.requests[r].rank = rank]

WithRequest(T, r, q) == [T EXCEPT !.requests[r] = q]

WithAnswer(T, r, grants, q) == [T EXCEPT !.grants = grants, !.requests[r] = q]

(* What Settled leaves of each table.                                      *)
LEMMA SettledTables ==
    ASSUME NEW T \in DatabaseType, NEW r \in Requests, NEW state, NEW chosen
    PROVE  Settled(T, r, state, chosen)
              = WithRequest(T, r, SettledRequest(T.requests[r], state, chosen))
BY ZenonT(60) DEF DatabaseType, Settled, WithRequest, SettledRequest

(* What Granted leaves of each table.                                      *)
LEMMA GrantedTables ==
    ASSUME NEW T \in DatabaseType, NEW r \in Requests, NEW grants \in [GrantIds -> Grant],
           NEW rank \in Nat, NEW state, NEW chosen
    PROVE  Settled(Granted(T, r, grants, rank), r, state, chosen)
              = WithAnswer(T, r, grants, Rewritten(T.requests[r], state, 0, {}, chosen, rank))
<1> DEFINE q == T.requests[r]
           ranked == [q EXCEPT !.rank = rank]
           granted == Granted(T, r, grants, rank)
           answered == SettledRequest(ranked, state, chosen)
<1>1. q \in Request
  BY Zenon DEF DatabaseType
<1>2. answered = Rewritten(q, state, 0, {}, chosen, rank)
  BY <1>1, Zenon DEF Request, Rewritten, SettledRequest
<1>3. ranked \in Request
  BY <1>1, Zenon DEF Request
<1>4. granted = [T EXCEPT !.grants = grants, !.requests = [T.requests EXCEPT ![r] = ranked]]
  BY Zenon DEF DatabaseType, Granted
<1> HIDE DEF ranked, granted
<1>5. /\ granted \in DatabaseType
      /\ granted.requests = [T.requests EXCEPT ![r] = ranked] /\ granted.requests[r] = ranked
  BY <1>3, <1>4, Zenon DEF DatabaseType
<1>6. Settled(granted, r, state, chosen) = WithRequest(granted, r, answered)
  <2>1. granted \in DatabaseType
    BY <1>5, Zenon
  <2>2. granted.requests[r] = ranked
    BY <1>5, Zenon
  <2>3. Settled(granted, r, state, chosen)
           = WithRequest(granted, r, SettledRequest(granted.requests[r], state, chosen))
    BY <2>1, SettledTables, Zenon
  <2> QED  BY <2>2, <2>3, Zenon
<1> HIDE DEF answered
<1>7. WithRequest(granted, r, answered) = WithAnswer(T, r, grants, answered)
  <2> DEFINE requests == [T.requests EXCEPT ![r] = answered]
             ranks == [T.requests EXCEPT ![r] = ranked]
  <2>1. [granted.requests EXCEPT ![r] = answered] = requests
    BY <1>5, Zenon DEF DatabaseType
  <2>2. WithRequest(granted, r, answered) = [granted EXCEPT !.requests = requests]
    BY <1>5, <2>1, Zenon DEF WithRequest
  <2>3. granted = [T EXCEPT !.grants = grants, !.requests = ranks]
    BY <1>4, Zenon
  <2>4. WithAnswer(T, r, grants, answered) = [T EXCEPT !.grants = grants, !.requests = requests]
    BY Zenon DEF WithAnswer, DatabaseType
  <2> HIDE DEF requests, ranks
  <2>5. [granted EXCEPT !.requests = requests] = [T EXCEPT !.grants = grants, !.requests = requests]
    BY <2>3, Zenon DEF DatabaseType
  <2> QED  BY <2>2, <2>4, <2>5, Zenon
<1> QED  BY <1>2, <1>6, <1>7, Zenon DEF granted

(* The answered request, as a rewrite of the tables.                       *)
LEMMA AnswerRewritten ==
    ASSUME NEW q \in Request, NEW state \in EndStates, NEW chosen \in ChosenModes, NEW rank \in Nat
    PROVE  LET new == Rewritten(q, state, 0, {}, chosen, rank)
           IN /\ new \in Request
              /\ new.state = state /\ new.shown = {} /\ new.versions = q.versions
<1>1. 0 \in Nat /\ {} \in SUBSET Definitions
  OBVIOUS
<1> QED  BY <1>1, RequestRewritten

(* The user approves: grants inserted, the request answered.               *)
LEMMA ApproveGood ==
    ASSUME Inv, NEW r \in Requests, NEW screen, NEW mode \in GrantModes,
           NEW duration \in Durations \cup {db.requests[r].ctx.duration},
           Approve(r, screen, mode, duration)
    PROVE  Good(db, db')
<1> DEFINE q == db.requests[r]
           D == GrantedRows(q, mode)
           rank == 1 + Cardinality({x \in Requests : db.requests[x].rank > 0})
           grants == Inserted(r, D, mode, duration)
           granted == Granted(db, r, grants, rank)
           state == IF CheckConditions(granted, Chosen(q, mode), now) = "ALLOWED"
                    THEN "ALLOWED" ELSE "INVALIDATED"
           chosen == Chosen(q, mode).chosen
           new == Rewritten(q, state, 0, {}, chosen, rank)
<1>1. db \in DatabaseType /\ DatabaseInv(db) /\ q \in Request /\ q.state = "PENDING"
  BY Zenon DEF Inv, TypeOK, DatabaseType, Approve, Promptable
<1>2. rank \in Nat
  <2>1. IsFiniteSet({x \in Requests : db.requests[x].rank > 0})
    BY NamesAssumption, FS_Subset, Zenon
  <2> QED  BY <2>1, FS_CardinalityType
<1>3. duration \in Nat
  BY <1>1, RequestFields, BoundsAssumption, Zenon DEF Context
<1>4. D \in SUBSET q.rows
  BY <1>1, GrantedRowsWithin, Zenon
<1>5. Promptable(r) /\ (mode = "SESSION" => q.session # NoSession)
  BY Zenon DEF Approve
<1>6. chosen \in ChosenModes
  BY <1>1, ChosenTyped, Zenon
<1>7. db' = Settled(granted, r, state, chosen)
  BY Zenon DEF Approve, Update, Commit, Settled, Granted
<1>8. state \in EndStates /\ state \notin {"NONE", "PENDING"}
  BY Zenon DEF EndStates
<1> HIDE DEF D, rank, state, chosen
<1>9. grants \in [GrantIds -> Grant] /\ Answered(db, r, grants)
  BY <1>3, <1>4, <1>5, InsertedGrants, Zenon
<1> HIDE DEF grants
<1>10. db' = WithAnswer(db, r, grants, new)
  BY <1>1, <1>2, <1>7, <1>9, GrantedTables, ZenonT(120)
<1> HIDE DEF q
<1>11. new \in Request /\ new.state = state /\ new.shown = {} /\ new.versions = q.versions
  BY <1>1, <1>2, <1>6, <1>8, AnswerRewritten
<1> HIDE DEF new
<1> USE DEF q
<1>12. Good(db, WithAnswer(db, r, grants, new))
  BY <1>1, <1>8, <1>9, <1>11, GrantInsertKeeps, Zenon DEF WithAnswer
<1> QED  BY <1>10, <1>12, Zenon

-----------------------------------------------------------------------------
(* Checks and data.                                                        *)

(* Counting down touches nothing but the count of ONCE grants.             *)
LEMMA ConsumeGrants ==
    ASSUME NEW T \in DatabaseType, NEW G
    PROVE  /\ Consume(T.grants, G) \in [GrantIds -> Grant]
           /\ \A g \in GrantIds :
                LET new == Consume(T.grants, G)[g]
                IN /\ new.state = T.grants[g].state /\ new.mode = T.grants[g].mode
                   /\ new.policy = T.grants[g].policy /\ new.session = T.grants[g].session
                   /\ new.remaining =
                         IF g \in G /\ T.grants[g].mode = "ONCE" /\ T.grants[g].remaining > 0
                         THEN T.grants[g].remaining - 1 ELSE T.grants[g].remaining
<1>1. T.grants \in [GrantIds -> Grant]
  BY Zenon DEF DatabaseType
<1>2. ASSUME NEW grant \in Grant, grant.remaining > 0
      PROVE  LET new == [grant EXCEPT !.remaining = @ - 1]
             IN /\ new \in Grant
                /\ new.state = grant.state /\ new.mode = grant.mode
                /\ new.policy = grant.policy /\ new.session = grant.session
                /\ new.remaining = grant.remaining - 1
  <2> DEFINE remaining == grant.remaining - 1
  <2>1. remaining \in -1..1
    BY <1>2 DEF Grant
  <2> HIDE DEF remaining
  <2>2. LET new == [grant EXCEPT !.remaining = remaining]
        IN /\ new \in Grant
           /\ new.state = grant.state /\ new.mode = grant.mode
           /\ new.policy = grant.policy /\ new.session = grant.session
           /\ new.remaining = remaining
    BY <2>1, Zenon DEF Grant
  <2> QED  BY <2>2, Zenon DEF remaining
<1> QED  BY <1>1, <1>2, Zenon DEF Consume

(* The grants found for the rows of a check.                               *)
LEMMA FoundGrants ==
    ASSUME NEW T \in DatabaseType, NEW q, NEW clock, q.rows \subseteq Definitions,
           CheckConditions(T, q, clock) = "ALLOWED"
    PROVE  LET found == UNION {Newest(T, q, d, clock) : d \in q.rows}
           IN /\ found \in SUBSET GrantIds
              /\ \A d \in q.rows : \E g \in found : g[2] = d
              /\ \A g \in found : /\ T.grants[g].state = "live" /\ T.grants[g].remaining # 0
                                  /\ T.grants[g].mode = "SESSION" => T.grants[g].session = q.session
<1>1. \A d \in q.rows : \A g \in Newest(T, q, d, clock) :
         /\ g \in GrantIds /\ g[2] = d
         /\ T.grants[g].state = "live" /\ T.grants[g].remaining # 0
         /\ T.grants[g].mode = "SESSION" => T.grants[g].session = q.session
  BY Zenon DEF Newest, Covering
<1>2. \A d \in q.rows : Newest(T, q, d, clock) # {}
  BY Zenon DEF CheckConditions, DeniedRows, MissingRows
<1> QED  BY <1>1, <1>2

(* An execution: ONCE grants consumed, the receipt inserted.               *)
LEMMA AuthorizeGood ==
    ASSUME Inv, NEW o \in Operations, NEW rows \in RowSets, NEW s \in CallSessions,
           NEW ctx \in Contexts, Authorize(o, rows, s, ctx)
    PROVE  Good(db, db')
<1> DEFINE q == Query(rows, s, ctx)
           found == UNION {Newest(db, q, d, now) : d \in rows}
           generation == q.generation
           auth == [state |-> "valid", rows |-> rows, session |-> s,
                    generation |-> generation, created |-> now, grants |-> found]
           grants == Consume(db.grants, found)
<1>1. db \in DatabaseType /\ DatabaseInv(db) /\ now \in Nat
  BY Zenon DEF Inv, TypeOK
<1>2. rows \in SUBSET Definitions /\ s \in Sessions \cup {NoSession}
  BY ContextsAssumption, Zenon
<1>3. q.rows = rows /\ q.session = s
  BY Zenon DEF Query
<1>4. generation \in Nat
  BY <1>1, <1>2, NumbersTyped, ZenonT(60) DEF Query
<1>5. /\ db.auths[o].state = "none" /\ CheckConditions(db, q, now) = "ALLOWED"
      /\ db' = [db EXCEPT !.auths[o] = auth, !.grants = grants]
  BY Zenon DEF Authorize, Update, Commit
<1> HIDE DEF q, generation
<1>6. /\ found \in SUBSET GrantIds
      /\ \A d \in rows : \E g \in found : g[2] = d
      /\ \A g \in found : /\ db.grants[g].state = "live" /\ db.grants[g].remaining # 0
                          /\ db.grants[g].mode = "SESSION" => db.grants[g].session = s
  BY <1>1, <1>2, <1>3, <1>5, FoundGrants
<1> HIDE DEF found
<1>7. /\ auth \in Authorization /\ auth.state = "valid" /\ auth.rows = rows
      /\ auth.session = s /\ auth.grants = found
  BY <1>1, <1>2, <1>4, <1>6, Zenon DEF Authorization
<1> HIDE DEF auth
<1>8. /\ grants \in [GrantIds -> Grant]
      /\ \A g \in GrantIds :
           /\ grants[g].state = db.grants[g].state /\ grants[g].mode = db.grants[g].mode
           /\ grants[g].policy = db.grants[g].policy /\ grants[g].session = db.grants[g].session
           /\ grants[g].remaining =
                 IF g \in auth.grants /\ db.grants[g].mode = "ONCE" /\ db.grants[g].remaining > 0
                 THEN db.grants[g].remaining - 1 ELSE db.grants[g].remaining
  BY <1>1, <1>7, ConsumeGrants, ZenonT(60)
<1> HIDE DEF grants
<1>9. Good(db, [db EXCEPT !.auths[o] = auth, !.grants = grants])
  BY <1>1, <1>5, <1>6, <1>7, <1>8, ReceiptInsertKeeps, ZenonT(60)
<1> QED  BY <1>5, <1>9, Zenon

(* The user revokes the grants of a definition.                            *)
LEMMA RevokeGood ==
    ASSUME Inv, NEW d \in Definitions, Revoke(d)
    PROVE  Good(db, db') /\ Withdrawn(db, db')
<1> DEFINE G == {g \in GrantIds : g[2] = d}
           stale(X) == \E g \in X : RevokedGrants(db, G)[g].state = "revoked"
           O == {o \in Operations : stale(db.auths[o].grants)}
           A == {a \in Artifacts : stale(db.artifacts[a].sources)}
<1>1. db \in DatabaseType /\ DatabaseInv(db)
  BY Zenon DEF Inv, TypeOK
<1>2. db' = [db EXCEPT !.grants = RevokedGrants(db, G), !.auths = InvalidAuths(db, O),
                       !.artifacts = BlockedArtifacts(db, A)]
  BY Zenon DEF Revoke, Update, Commit
<1>3. \A a \in Artifacts :
         (\E g \in db.artifacts[a].sources : RevokedGrants(db, G)[g].state = "revoked") => a \in A
  BY Zenon
<1> HIDE DEF G, O, A
<1>4. LET U == [db EXCEPT !.grants = RevokedGrants(db, G), !.auths = InvalidAuths(db, O),
                          !.artifacts = BlockedArtifacts(db, A)]
      IN Good(db, U) /\ Withdrawn(db, U)
  BY <1>1, <1>3, RevokeKeeps, Zenon
<1> QED  BY <1>2, <1>4, Zenon

(* Data registered under a receipt.                                        *)
LEMMA DataRegisterGood ==
    ASSUME Inv, NEW o \in Operations, NEW d \in Definitions, NEW i \in Instances,
           DataRegister(o, d, i)
    PROVE  Good(db, db')
<1> DEFINE auth == db.auths[o]
           expires == auth.created + RetentionOf[d]
           artifact == [state |-> "ACTIVE", session |-> auth.session, instance |-> i,
                        expires |-> expires, sources |-> auth.grants, parents |-> {}]
<1>1. db \in DatabaseType /\ DatabaseInv(db) /\ auth \in Authorization /\ o \in Artifacts
  BY Zenon DEF Inv, TypeOK, DatabaseType, Artifacts
<1>2. auth.created \in Nat /\ auth.grants \subseteq GrantIds
  BY <1>1, Zenon DEF Authorization
<1>3. expires \in Nat /\ i \in Nat
  BY <1>2, DefinitionsAssumption, BoundsAssumption
<1>4. /\ db.artifacts[o].state = "NONE" /\ auth.session \in Sessions
      /\ SessionActive(db, auth.session, auth.generation, now)
      /\ ReceiptValid(db, o, now, authority) /\ d \in auth.rows
      /\ db' = [db EXCEPT !.artifacts[o] = artifact]
  BY Zenon DEF DataRegister, Update, Commit
<1> HIDE DEF expires
<1>5. /\ artifact \in Artifact /\ artifact.state = "ACTIVE" /\ artifact.session = auth.session
      /\ artifact.sources = auth.grants /\ artifact.parents = {}
  BY <1>2, <1>3, <1>4, Zenon DEF Artifact
<1> HIDE DEF artifact
<1>6. Open(db.sessions[auth.session])
  BY <1>4, NamesAssumption, Zenon DEF SessionActive, Open
<1>7. auth.grants # {}
  BY <1>1, <1>4, Zenon DEF ReceiptValid, DatabaseInv, RowsInv, CoveredRows
<1>8. \A g \in auth.grants :
         /\ db.grants[g].state = "live"
         /\ db.grants[g].mode = "SESSION" => db.grants[g].session = auth.session
  BY <1>1, <1>4, Zenon DEF ReceiptValid, DatabaseInv, RowsInv, SessionSources
<1>9. Good(db, [db EXCEPT !.artifacts[o] = artifact])
  BY <1>1, <1>4, <1>5, <1>6, <1>7, <1>8, ArtifactInsertKeeps, ZenonT(60)
<1> QED  BY <1>4, <1>9, Zenon

(* Data registered as derived from other data.                             *)
LEMMA DataRegisterDerivedGood ==
    ASSUME Inv, NEW a \in Derived, NEW parents \in SUBSET Artifacts, NEW i \in Instances,
           DataRegisterDerived(a, parents, i)
    PROVE  Good(db, db')
<1>1. db \in DatabaseType /\ DatabaseInv(db) /\ a \in Artifacts /\ i \in Nat
  BY BoundsAssumption, Zenon DEF Inv, TypeOK, Artifacts
<1>2. PICK s \in Sessions, expires \in {db.artifacts[p].expires : p \in parents} :
         /\ \A p \in parents : db.artifacts[p].session = s
         /\ \A p \in parents : expires <= db.artifacts[p].expires
         /\ db' = [db EXCEPT !.artifacts[a] =
                     [state |-> "ACTIVE", session |-> s, instance |-> i, expires |-> expires,
                      sources |-> UNION {db.artifacts[p].sources : p \in parents},
                      parents |-> parents]]
  BY Zenon DEF DataRegisterDerived, Update, Commit
<1> DEFINE sources == UNION {db.artifacts[p].sources : p \in parents}
           artifact == [state |-> "ACTIVE", session |-> s, instance |-> i, expires |-> expires,
                        sources |-> sources, parents |-> parents]
<1>3. /\ db.artifacts[a].state = "NONE" /\ parents # {}
      /\ \A p \in parents : ValidateArtifactProvenance(db, p, now, authority)
  BY ZenonT(60) DEF DataRegisterDerived
<1>4. \A p \in parents :
         /\ db.artifacts[p].state = "ACTIVE" /\ db.artifacts[p].sources # {}
         /\ \A g \in db.artifacts[p].sources : db.grants[g].state = "live"
         /\ Open(db.sessions[s])
  BY <1>2, <1>3, NamesAssumption DEF ValidateArtifactProvenance, SessionActive, Open
<1>5. expires \in Nat
  BY <1>1 DEF DatabaseType, Artifact
<1>6. sources \in SUBSET GrantIds
  BY <1>1, EdgesTyped, ZenonT(60)
<1>7. sources # {} /\ \A p \in parents : db.artifacts[p].sources \subseteq sources
  BY <1>3, <1>4
<1>8. \A g \in sources :
         /\ db.grants[g].state = "live"
         /\ db.grants[g].mode = "SESSION" => db.grants[g].session = s
  BY <1>1, <1>2, <1>4 DEF DatabaseInv, RowsInv, SessionSources
<1> HIDE DEF sources
<1>9. /\ artifact \in Artifact /\ artifact.state = "ACTIVE" /\ artifact.session = s
      /\ artifact.sources = sources /\ artifact.parents = parents /\ artifact.expires = expires
  BY <1>1, <1>5, <1>6, Zenon DEF Artifact
<1>10. db' = [db EXCEPT !.artifacts[a] = artifact]
  BY <1>2, Zenon DEF sources
<1> HIDE DEF artifact
<1>11. Open(db.sessions[s])
  BY <1>3, <1>4, Zenon
<1>12. \A p \in artifact.parents :
          /\ db.artifacts[p].state # "NONE"
          /\ db.artifacts[p].sources \subseteq artifact.sources
          /\ artifact.expires <= db.artifacts[p].expires
          /\ db.artifacts[p].session = artifact.session
  BY <1>2, <1>4, <1>7, <1>9, Zenon
<1>13. Good(db, [db EXCEPT !.artifacts[a] = artifact])
  BY <1>1, <1>3, <1>7, <1>8, <1>9, <1>11, <1>12, ArtifactInsertKeeps, Zenon
<1> QED  BY <1>10, <1>13, Zenon

(* A holder reports a deletion, and the session may close.                 *)
LEMMA CleanupAckGood ==
    ASSUME Inv, NEW a \in Artifacts, NEW i, NEW success \in BOOLEAN, CleanupAck(a, i, success)
    PROVE  Good(db, db')
<1> DEFINE state == IF success THEN "DELETED" ELSE "CLEANUP_FAILED"
           acked == [db EXCEPT !.artifacts[a].state = state]
           V == FinishCleanup(acked)
<1>1. db \in DatabaseType /\ DatabaseInv(db)
  BY Zenon DEF Inv, TypeOK
<1>2. /\ db.artifacts[a].state # "NONE" /\ (success \/ db.artifacts[a].state # "DELETED")
      /\ db' = FinishCleanup(acked)
  BY Zenon DEF CleanupAck, Update, Commit
<1>3. /\ state \in {"DELETED", "CLEANUP_FAILED"}
      /\ state = "DELETED" \/ db.artifacts[a].state # "DELETED"
  BY <1>2, Zenon
<1> HIDE DEF state
<1>4. /\ acked.sessions = db.sessions /\ acked.requests = db.requests
      /\ acked.grants = db.grants /\ acked.auths = db.auths
  BY <1>1, Zenon DEF DatabaseType
<1>5. Good(db, acked)
  BY <1>1, <1>2, <1>3, ArtifactStateKeeps, ZenonT(60)
<1> HIDE DEF acked
<1>6. V \in DatabaseType /\ DatabaseInv(V) /\ Forward(acked, V)
  BY <1>5, FinishCleanupType, FinishCleanupKeeps, FinishCleanupWithdraws, WithdrawnForward, Zenon
     DEF Good
<1>7. /\ V.requests = db.requests /\ V.grants = db.grants /\ V.auths = db.auths
      /\ V.artifacts = acked.artifacts
  BY <1>4, <1>5, ZenonT(60) DEF Good, FinishCleanup, DatabaseType
<1> HIDE DEF V
<1>8. Forward(db, V)
  BY <1>4, <1>5, <1>6, <1>7 DEF Good, Forward
<1>9. Good(db, V)
  BY <1>6, <1>8, Zenon DEF Good
<1> QED  BY <1>2, <1>9, Zenon DEF V

(* A fence ends every open session, and with it all data in use; every     *)
(* request and receipt is gone, and when the profile retires every grant.  *)
LEMMA FenceProfilesGood ==
    ASSUME Inv, NEW retire \in BOOLEAN, FenceProfiles(retire)
    PROVE  Good(db, db') /\ Withdrawn(db, db')
<1> DEFINE S == {s \in Sessions : Open(db.sessions[s])}
           closed == CloseSessions(db, S)
           requests == [r \in Requests |->
               IF closed.requests[r].state \in {"PENDING", "ALLOWED"}
               THEN [closed.requests[r] EXCEPT !.state = "INVALIDATED", !.token = 0]
               ELSE closed.requests[r]]
           grants == IF retire THEN RevokedGrants(closed, GrantIds) ELSE closed.grants
           fenced == [closed EXCEPT !.requests = requests, !.grants = grants,
                                    !.auths = InvalidAuths(closed, Operations)]
<1>1. db \in DatabaseType /\ DatabaseInv(db)
  BY Zenon DEF Inv, TypeOK
<1>2. db' = FinishCleanup(fenced)
  BY Zenon DEF FenceProfiles
<1>3. closed \in DatabaseType /\ Withdrawn(db, closed) /\ DatabaseInv(closed)
  BY <1>1, NamesAssumption, CloseSessionsType, CloseSessionsWithdraws, CloseSessionsKeeps, ZenonT(60)
<1>4. \A a \in Artifacts : closed.artifacts[a].state # "ACTIVE"
  <2>1. \A s \in Sessions : ~Open(closed.sessions[s])
    BY <1>1 DEF CloseSessions, Open, DatabaseType, Session
  <2> QED  BY <1>3, <2>1, Zenon DEF DatabaseInv, StatesInv, DataInOpenSession
<1> HIDE DEF closed, S
<1>5. /\ requests \in [Requests -> Request]
      /\ \A r \in Requests : /\ RequestWithdrawn(closed.requests[r], requests[r])
                             /\ requests[r].state # "PENDING"
  <2>1. ASSUME NEW q \in Request
        PROVE  LET new == [q EXCEPT !.state = "INVALIDATED", !.token = 0]
               IN /\ new \in Request /\ new.state = "INVALIDATED"
                  /\ new.ctx = q.ctx /\ new.rows = q.rows /\ new.session = q.session
                  /\ new.generation = q.generation /\ new.versions = q.versions
                  /\ new.shown = q.shown /\ new.rank = q.rank
                  /\ new.deadline = q.deadline /\ new.token = 0
    BY Zenon DEF Request
  <2>2. closed.requests \in [Requests -> Request]
    BY <1>3, Zenon DEF DatabaseType
  <2> QED  BY <2>1, <2>2, ZenonT(60) DEF RequestWithdrawn
<1> HIDE DEF requests
<1>6. /\ grants \in [GrantIds -> Grant]
      /\ \A g \in GrantIds :
           /\ GrantWithdrawn(closed.grants[g], grants[g])
           /\ grants[g].state \in {"none", "deleted"} => closed.grants[g].state \in {"none", "deleted"}
  <2>1. closed.grants \in [GrantIds -> Grant] /\ RevokedGrants(closed, GrantIds) \in [GrantIds -> Grant]
    BY <1>3, RevokedGrantsType, Zenon DEF DatabaseType
  <2>2. \A g \in GrantIds : /\ GrantWithdrawn(closed.grants[g], RevokedGrants(closed, GrantIds)[g])
                            /\ GrantWithdrawn(closed.grants[g], closed.grants[g])
    BY <1>3, UpdatesWithdraw, WithdrawnReflexive, Zenon
  <2>3. \A g \in GrantIds : RevokedGrants(closed, GrantIds)[g].state \in {"none", "deleted"} =>
           closed.grants[g].state \in {"none", "deleted"}
    BY <1>3, Zenon DEF RevokedGrants, DatabaseType, Grant
  <2> QED  BY <2>1, <2>2, <2>3, Zenon
<1> HIDE DEF grants
<1>7. /\ InvalidAuths(closed, Operations) \in [Operations -> Authorization]
      /\ \A o \in Operations :
            AuthWithdrawn(closed.auths[o], InvalidAuths(closed, Operations)[o])
  BY <1>3, InvalidAuthsType, UpdatesWithdraw, Zenon
<1>8. /\ fenced \in DatabaseType
      /\ fenced.defs = closed.defs /\ fenced.sessions = closed.sessions
      /\ fenced.artifacts = closed.artifacts /\ fenced.requests = requests
      /\ fenced.grants = grants /\ fenced.auths = InvalidAuths(closed, Operations)
  BY <1>3, <1>5, <1>6, <1>7, Zenon DEF DatabaseType
<1> HIDE DEF fenced
<1>9. Withdrawn(closed, fenced)
  BY <1>3, <1>5, <1>6, <1>7, <1>8, WithdrawnReflexive, Zenon DEF Withdrawn
<1>10. DatabaseInv(fenced)
  <2>1. RowsInv(fenced) /\ CurrentGrants(fenced)
    BY <1>3, <1>8, <1>9, WithdrawnKeepsRows, WithdrawnKeepsCurrent, Zenon DEF DatabaseInv, StatesInv
  <2>2. LiveSources(fenced) /\ DataInOpenSession(fenced)
    BY <1>4, <1>8, Zenon DEF LiveSources, DataInOpenSession
  <2>3. ClosedClean(fenced)
    BY <1>3, <1>8, ZenonT(60) DEF ClosedClean, DatabaseInv, StatesInv
  <2>4. GrantInOpenSession(fenced)
    BY <1>3, <1>6, <1>8 DEF GrantInOpenSession, GrantWithdrawn, DatabaseInv, StatesInv
  <2>5. PendingInSession(fenced)
    BY <1>5, <1>8, Zenon DEF PendingInSession
  <2>6. NamedGrantsExist(fenced)
    BY <1>3, <1>6, <1>7, <1>8, Zenon DEF NamedGrantsExist, AuthWithdrawn, DatabaseInv, StatesInv
  <2> QED  BY <2>1, <2>2, <2>3, <2>4, <2>5, <2>6, Zenon DEF DatabaseInv, StatesInv
<1>11. /\ FinishCleanup(fenced) \in DatabaseType /\ DatabaseInv(FinishCleanup(fenced))
       /\ Withdrawn(fenced, FinishCleanup(fenced))
  BY <1>8, <1>10, FinishCleanupType, FinishCleanupKeeps, FinishCleanupWithdraws, Zenon
<1>12. Withdrawn(closed, FinishCleanup(fenced))
  BY <1>3, <1>8, <1>9, <1>11, WithdrawnTransitive, Zenon
<1>13. Withdrawn(db, FinishCleanup(fenced))
  BY <1>1, <1>3, <1>11, <1>12, WithdrawnTransitive, Zenon
<1> QED  BY <1>1, <1>2, <1>11, <1>13, WithdrawnGood, Zenon
-----------------------------------------------------------------------------
(* Every step keeps the invariant and undoes nothing.                      *)
Kept == Inv' /\ Forward(db, db')

(* The state besides the tables.                                           *)
RestTyped ==
    /\ now' \in Nat /\ swept' \in BOOLEAN /\ revised' \in BOOLEAN
    /\ registry' \in [Definitions -> Definition]
    /\ authority' \in [Packages -> Nat]
    /\ screens' \in [Requests -> SUBSET Screen]
    /\ \A r \in Requests : IsFiniteSet(screens'[r])

(* Good tables and a well typed rest make a kept invariant.                *)
LEMMA Assembled == Good(db, db') /\ RestTyped => Kept
BY Zenon DEF Good, RestTyped, Kept, Inv, TypeOK

(* A handler that commits tables and leaves the registry and the screens.  *)
Updated ==
    /\ now' = now /\ authority' = authority /\ registry' = registry /\ screens' = screens
    /\ swept' \in BOOLEAN /\ revised' \in BOOLEAN

(* A handler of that kind needs good tables only.                          *)
LEMMA UpdatedKept == Inv /\ Updated /\ Good(db, db') => Kept
<1> SUFFICES ASSUME Inv, Updated, Good(db, db') PROVE Kept
  OBVIOUS
<1>1. RestTyped
  BY Zenon DEF Inv, TypeOK, Updated, RestTyped
<1> QED  BY <1>1, Assembled, Zenon

(* The clock and the package manager touch no table.                       *)
LEMMA EnvironmentKept ==
    ASSUME Inv, Advance \/ \E p \in Packages : Reinstall(p)
    PROVE  Kept
<1>1. db' = db
  BY Zenon DEF Advance, Reinstall
<1>2. Good(db, db')
  BY <1>1, StutterGood, Zenon DEF Inv, TypeOK
<1>3. now' \in Nat /\ authority' \in [Packages -> Nat]
  BY DEF Advance, Reinstall, Inv, TypeOK
<1>4. registry' = registry /\ screens' = screens /\ swept' = swept /\ revised' = FALSE
  BY Zenon DEF Advance, Reinstall
<1>5. RestTyped
  BY <1>3, <1>4, Zenon DEF Inv, TypeOK, RestTyped
<1> QED  BY <1>2, <1>5, Assembled, Zenon

(* Steps the daemon takes on its own.                                      *)
LEMMA DaemonKept ==
    ASSUME Inv, \/ Sweep \/ Answer \/ Tick
                \/ \E retire \in BOOLEAN : FenceProfiles(retire)
                \/ \E clock \in {0, now} : Restart(clock)
    PROVE  Kept
<1>1. CASE Sweep
  <2>1. Updated
    BY <1>1, Zenon DEF Sweep, Updated, ExpireChanges
  <2> QED  BY <1>1, <2>1, SweepGood, UpdatedKept, Zenon
<1>2. CASE Answer
  <2>1. Updated /\ db' = db
    BY <1>2, Zenon DEF Answer, Commit, Updated
  <2>2. Good(db, db')
    BY <2>1, StutterGood, Zenon DEF Inv, TypeOK
  <2> QED  BY <2>1, <2>2, UpdatedKept, Zenon
<1>3. CASE Tick
  <2>1. Updated
    BY <1>3, Zenon DEF Tick, Updated, ExpireChanges, Inv, TypeOK
  <2> QED  BY <1>3, <2>1, TickGood, UpdatedKept, Zenon
<1>4. CASE \E retire \in BOOLEAN : FenceProfiles(retire)
  <2>1. Updated
    BY <1>4, Zenon DEF FenceProfiles, Updated, Inv, TypeOK
  <2> QED  BY <1>4, <2>1, FenceProfilesGood, UpdatedKept, Zenon
<1>5. CASE \E clock \in {0, now} : Restart(clock)
  <2>1. now' \in Nat
    BY <1>5 DEF Restart, Inv, TypeOK
  <2>2. registry' = registry /\ screens' = screens /\ authority' = authority
    BY <1>5, Zenon DEF Restart
  <2>3. swept' = FALSE /\ revised' = TRUE
    BY <1>5, Zenon DEF Restart
  <2>4. RestTyped
    BY <2>1, <2>2, <2>3, Zenon DEF RestTyped, Inv, TypeOK
  <2> QED  BY <1>5, <2>4, RestartGood, Assembled, Zenon
<1> QED  BY <1>1, <1>2, <1>3, <1>4, <1>5, Zenon

(* Calls of packages that define conditions.                               *)
LEMMA DefinersKept ==
    ASSUME Inv, Definers
    PROVE  Kept
<1>1. ASSUME NEW d \in Definitions, NEW policy \in 1..MaxPolicy, NEW text \in 1..MaxText,
             Register(d, policy, text)
      PROVE  Kept
  <2>1. Good(db, db') /\ registry' \in [Definitions -> Definition]
    BY <1>1, RegisterGood, Zenon
  <2>2. RestTyped
    BY <1>1, <2>1, Zenon DEF Register, Commit, RestTyped, Inv, TypeOK
  <2> QED  BY <2>1, <2>2, Assembled, Zenon
<1>2. ASSUME NEW p \in Packages, Unregister(p)
      PROVE  Kept
  <2>1. Good(db, db') /\ registry' \in [Definitions -> Definition]
    BY <1>2, UnregisterGood, Zenon
  <2>2. RestTyped
    BY <1>2, <2>1, Zenon DEF Unregister, Commit, RestTyped, Inv, TypeOK
  <2> QED  BY <2>1, <2>2, Assembled, Zenon
<1> QED  BY <1>1, <1>2, Zenon DEF Definers

(* Calls about sessions.                                                   *)
LEMMA SessionCallsKept ==
    ASSUME Inv, SessionCalls
    PROVE  Kept
<1> USE DEF Update, Commit, Updated
<1>1. PICK s \in Sessions :
         \/ \E lifecycle \in Lifecycles, lifetime \in Lifetimes :
               SessionOpen(s, lifecycle, lifetime)
         \/ SessionClose(s) \/ SessionSuspend(s) \/ SessionResume(s) \/ SessionHeartbeat(s)
  BY Zenon DEF SessionCalls
<1>2. CASE \E lifecycle \in Lifecycles, lifetime \in Lifetimes :
              SessionOpen(s, lifecycle, lifetime)
  <2>1. Updated
    BY <1>2, Zenon DEF SessionOpen
  <2> QED  BY <1>2, <2>1, SessionOpenGood, UpdatedKept, Zenon
<1>3. CASE SessionClose(s)
  <2>1. Updated
    BY <1>3, Zenon DEF SessionClose
  <2> QED  BY <1>3, <2>1, SessionCloseGood, UpdatedKept, Zenon
<1>4. CASE SessionSuspend(s)
  <2>1. Updated
    BY <1>4, Zenon DEF SessionSuspend
  <2> QED  BY <1>4, <2>1, SessionSuspendGood, UpdatedKept, Zenon
<1>5. CASE SessionResume(s)
  <2>1. Updated
    BY <1>5, Zenon DEF SessionResume
  <2> QED  BY <1>5, <2>1, SessionResumeGood, UpdatedKept, Zenon
<1>6. CASE SessionHeartbeat(s)
  <2>1. Updated
    BY <1>6, Zenon DEF SessionHeartbeat
  <2> QED  BY <1>6, <2>1, SessionHeartbeatGood, UpdatedKept, Zenon
<1> QED  BY <1>1, <1>2, <1>3, <1>4, <1>5, <1>6, Zenon

(* Calls about requests and prompts.                                       *)
LEMMA RequestCallsKept ==
    ASSUME Inv, RequestCalls
    PROVE  Kept
<1> USE DEF Update, Commit, Updated
<1>1. PICK r \in Requests :
         \/ \E rows \in RowSets, s \in CallSessions, ctx \in Contexts, wait \in Waits :
               CreateRequest(r, rows, s, ctx, wait)
         \/ GetPrompt(r) \/ FinishUnasked(r) \/ CancelRequest(r) \/ RetireStoredApproval(r)
         \/ \E screen \in screens[r] : \E mode \in GrantModes :
               \/ \E duration \in Durations \cup {db.requests[r].ctx.duration} :
                     Approve(r, screen, mode, duration)
               \/ Deny(r, screen, mode)
  BY Zenon DEF RequestCalls
<1>2. ASSUME NEW rows \in RowSets, NEW s \in CallSessions, NEW ctx \in Contexts, NEW wait \in Waits,
             CreateRequest(r, rows, s, ctx, wait)
      PROVE  Kept
  <2>1. Updated
    BY <1>2, Zenon DEF CreateRequest
  <2> QED  BY <1>2, <2>1, CreateRequestGood, UpdatedKept, Zenon
<1>3. CASE GetPrompt(r)
  <2>1. RestTyped
    BY <1>3, GetPromptGood, Zenon DEF GetPrompt, RestTyped, Inv, TypeOK
  <2> QED  BY <1>3, <2>1, GetPromptGood, Assembled, Zenon
<1>4. CASE FinishUnasked(r)
  <2>1. Updated
    BY <1>4, Zenon DEF FinishUnasked
  <2> QED  BY <1>4, <2>1, FinishUnaskedGood, UpdatedKept, Zenon
<1>5. CASE CancelRequest(r)
  <2>1. Updated
    BY <1>5, Zenon DEF CancelRequest
  <2> QED  BY <1>5, <2>1, CancelRequestGood, UpdatedKept, Zenon
<1>6. CASE RetireStoredApproval(r)
  <2>1. Updated
    BY <1>6, Zenon DEF RetireStoredApproval
  <2> QED  BY <1>6, <2>1, RetireStoredApprovalGood, UpdatedKept, Zenon
<1>7. ASSUME NEW screen \in screens[r], NEW mode \in GrantModes,
             NEW duration \in Durations \cup {db.requests[r].ctx.duration},
             Approve(r, screen, mode, duration)
      PROVE  Kept
  <2>1. Updated
    BY <1>7, Zenon DEF Approve
  <2> QED  BY <1>7, <2>1, ApproveGood, UpdatedKept, ZenonT(60)
<1>8. ASSUME NEW screen \in screens[r], NEW mode \in GrantModes, Deny(r, screen, mode)
      PROVE  Kept
  <2>1. Updated
    BY <1>8, Zenon DEF Deny
  <2> QED  BY <1>8, <2>1, DenyGood, UpdatedKept, ZenonT(60)
<1> QED  BY <1>1, <1>2, <1>3, <1>4, <1>5, <1>6, <1>7, <1>8, ZenonT(60)

(* Executions and revocations.                                             *)
LEMMA CheckCallsKept ==
    ASSUME Inv, CheckCalls
    PROVE  Kept
<1> USE DEF Update, Commit, Updated
<1>1. ASSUME NEW o \in Operations, NEW rows \in RowSets, NEW s \in CallSessions,
             NEW ctx \in Contexts, Authorize(o, rows, s, ctx)
      PROVE  Kept
  <2>1. Updated
    BY <1>1, ZenonT(60) DEF Authorize
  <2> QED  BY <1>1, <2>1, AuthorizeGood, UpdatedKept, Zenon
<1>2. ASSUME NEW d \in Definitions, Revoke(d)
      PROVE  Kept
  <2>1. Updated
    BY <1>2, Zenon DEF Revoke
  <2> QED  BY <1>2, <2>1, RevokeGood, UpdatedKept, Zenon
<1> QED  BY <1>1, <1>2, Zenon DEF CheckCalls

(* Calls about data.                                                       *)
LEMMA DataCallsKept ==
    ASSUME Inv, DataCalls
    PROVE  Kept
<1> USE DEF Update, Commit, Updated
<1>1. ASSUME NEW o \in Operations, NEW d \in Definitions, NEW i \in Instances,
             DataRegister(o, d, i)
      PROVE  Kept
  <2>1. Updated
    BY <1>1, Zenon DEF DataRegister
  <2> QED  BY <1>1, <2>1, DataRegisterGood, UpdatedKept, Zenon
<1>2. ASSUME NEW a \in Derived, NEW parents \in SUBSET Artifacts, NEW i \in Instances,
             DataRegisterDerived(a, parents, i)
      PROVE  Kept
  <2>1. Updated
    BY <1>2, Zenon DEF DataRegisterDerived
  <2> QED  BY <1>2, <2>1, DataRegisterDerivedGood, UpdatedKept, ZenonT(60)
<1>3. ASSUME NEW a \in Artifacts, NEW i \in Instances, NEW success \in BOOLEAN,
             CleanupAck(a, i, success)
      PROVE  Kept
  <2>1. Updated
    BY <1>3, Zenon DEF CleanupAck
  <2> QED  BY <1>3, <2>1, CleanupAckGood, UpdatedKept, ZenonT(60)
<1> QED  BY <1>1, <1>2, <1>3, Zenon DEF DataCalls

(* Every step of the repository.                                           *)
LEMMA NextKept == Inv /\ [Next]_vars => Kept
<1> SUFFICES ASSUME Inv, [Next]_vars PROVE Kept
  OBVIOUS
<1>1. CASE UNCHANGED vars
  <2>1. Updated /\ db' = db
    BY <1>1, Zenon DEF vars, Updated, Inv, TypeOK
  <2>2. Good(db, db')
    BY <2>1, StutterGood, Zenon DEF Inv, TypeOK
  <2> QED  BY <2>1, <2>2, UpdatedKept, ZenonT(60)
<1>2. CASE Advance \/ \E p \in Packages : Reinstall(p)
  BY <1>2, EnvironmentKept, Zenon
<1>3. CASE \/ Sweep \/ Answer \/ Tick
           \/ \E retire \in BOOLEAN : FenceProfiles(retire)
           \/ \E clock \in {0, now} : Restart(clock)
  BY <1>3, DaemonKept, Zenon
<1>4. CASE Definers \/ SessionCalls \/ RequestCalls \/ CheckCalls \/ DataCalls
  BY <1>4, DefinersKept, SessionCallsKept, RequestCallsKept, CheckCallsKept, DataCallsKept, ZenonT(60)
<1> QED  BY <1>1, <1>2, <1>3, <1>4, Zenon DEF Next

-----------------------------------------------------------------------------
(* The inductive invariant holds of every behaviour of the repository.     *)
THEOREM Invariance == Spec => []Inv
<1>1. Inv /\ [Next]_vars => Inv'
  BY NextKept, Zenon DEF Kept
<1> QED  BY <1>1, InitInv, PTL DEF Spec

(* Every row keeps the type of its table, whatever calls are made.         *)
THEOREM TypeCorrect == Spec => []TypeOK
<1>1. Inv => TypeOK
  BY Zenon DEF Inv
<1> QED  BY <1>1, Invariance, PTL

(* A ONCE grant pays for at most one execution (ConsumeGrants).            *)
THEOREM OnceIsSpentOnce == Spec => []OnceSpentOnce
<1>1. Inv => OnceSpentOnce
  BY Zenon DEF Inv, DatabaseInv, RowsInv, OnceSpent, OnceSpentOnce
<1> QED  BY <1>1, Invariance, PTL

(* A valid receipt names a grant for each of its conditions, compacted or  *)
(* not (Execute, CompactMetadata).                                         *)
THEOREM ReceiptsCoverRows == Spec => []ReceiptCoversRows
<1>1. Inv => ReceiptCoversRows
  BY Zenon DEF Inv, DatabaseInv, RowsInv, CoveredRows, ReceiptCoversRows
<1> QED  BY <1>1, Invariance, PTL

(* Derived data carries the sources of its parents and outlives none       *)
(* (DataRegister, CompactMetadata).                                        *)
THEOREM DerivedStaysWithinParents == Spec => []DerivedWithinParents
<1>1. Inv => DerivedWithinParents
  BY Zenon DEF Inv, DatabaseInv, RowsInv, WithinParents, DerivedWithinParents
<1> QED  BY <1>1, Invariance, PTL

(* Usable data rests on live grants alone, in a session still open: every  *)
(* way to revoke a grant or to end a session blocks it in the same step.   *)
THEOREM DataIsCovered == Spec => []ActiveDataIsCovered
<1>1. Inv => ActiveDataIsCovered
  BY Zenon DEF Inv, DatabaseInv, StatesInv, LiveSources, DataInOpenSession, ActiveDataIsCovered
<1> QED  BY <1>1, Invariance, PTL

(* No session is CLOSED before the deletion of all its data has been       *)
(* acknowledged (FinishCleanup).                                           *)
THEOREM ClosedSessionsAreClean == Spec => []ClosedIsClean
<1>1. Inv => ClosedIsClean
  BY Zenon DEF Inv, DatabaseInv, StatesInv, ClosedClean, ClosedIsClean
<1> QED  BY <1>1, Invariance, PTL

(* A usable grant is one for the policy and the text in force (Replay).    *)
THEOREM LiveGrantsAreCurrent == Spec => []LiveGrantIsCurrent
<1>1. Inv => LiveGrantIsCurrent
  BY ZenonT(60) DEF Inv, DatabaseInv, StatesInv, CurrentGrants, LiveGrantIsCurrent
<1> QED  BY <1>1, Invariance, PTL

(* A usable SESSION grant has its session, and a pending request waits in  *)
(* the generation of the session that asked (SessionSuspend, CloseSession).*)
THEOREM SessionsBoundTheirOwn == Spec => []NothingOutlivesItsSession
<1>1. Inv => NothingOutlivesItsSession
  BY ZenonT(60) DEF Inv, DatabaseInv, StatesInv, GrantInOpenSession, PendingInSession,
         NothingOutlivesItsSession
<1> QED  BY <1>1, Invariance, PTL

(* No receipt and no artifact names a grant that was never made or has     *)
(* been compacted away (CompactMetadata).                                  *)
THEOREM SourcesExist == Spec => []NoDanglingSource
<1>1. Inv => NoDanglingSource
  BY Zenon DEF Inv, DatabaseInv, StatesInv, NamedGrantsExist, NoDanglingSource
<1> QED  BY <1>1, Invariance, PTL

(* No step revives a revoked grant, refills a ONCE grant, revalidates a    *)
(* receipt, unblocks data or forgets an acknowledged deletion.             *)
THEOREM WithdrawalIsFinal == Spec => NothingComesBack
<1>1. Inv /\ [Next]_vars =>
         [/\ \A g \in GrantIds :
                /\ db.grants[g].state \in {"revoked", "deleted"} => db'.grants[g].state # "live"
                /\ db.grants[g].state # "none" => db'.grants[g].remaining <= db.grants[g].remaining
          /\ \A o \in Operations : db.auths[o].state = "invalid" => db'.auths[o].state = "invalid"
          /\ \A a \in Artifacts :
                /\ db.artifacts[a].state \notin {"NONE", "ACTIVE"} => db'.artifacts[a].state # "ACTIVE"
                /\ db.artifacts[a].state = "DELETED" => db'.artifacts[a].state = "DELETED"]_vars
  BY NextKept, Zenon DEF Kept, Forward
<1> QED  BY <1>1, Invariance, PTL DEF Spec, NothingComesBack

(* No step changes the answer to a request that has ended, except to       *)
(* retire an approval (FinishRequest, RetireStoredApproval).               *)
THEOREM AnswersAreFinal == Spec => FinishedRequestsStay
<1>1. Inv /\ [Next]_vars =>
         [\A r \in Requests :
             db.requests[r].state \notin {"NONE", "PENDING"} =>
                 \/ db'.requests[r].state = db.requests[r].state
                 \/ db.requests[r].state = "ALLOWED" /\ db'.requests[r].state = "INVALIDATED"]_vars
  BY NextKept, Zenon DEF Kept, Forward
<1> QED  BY <1>1, Invariance, PTL DEF Spec, FinishedRequestsStay

(* No step reopens a session or changes it under an unchanged generation   *)
(* (SessionOpen, SessionSuspend, SessionResume, CloseSession).             *)
THEOREM SessionsMoveForward == Spec => SessionMovesForward
<1>1. Inv /\ [Next]_vars =>
         [\A s \in Sessions :
             LET old == db.sessions[s]
                 new == db'.sessions[s]
             IN /\ old.state = "CLOSED" => new.state = "CLOSED"
                /\ old.state = "CLOSING" => new.state \in {"CLOSING", "CLOSED"}
                /\ new.generation >= old.generation
                /\ Open(old) /\ new.state # old.state => new.generation > old.generation]_vars
  BY NextKept, Zenon DEF Kept, Forward
<1> QED  BY <1>1, Invariance, PTL DEF Spec, SessionMovesForward
=============================================================================
