------------------------------ MODULE Database ------------------------------
(***************************************************************************)
(* The tables of the consentd repository and the helpers of                *)
(* Repository::Impl that read or rewrite them.  A database is one record   *)
(* value: defs, sessions, requests, grants, auths (authorization receipts  *)
(* with their authorization_grants edges) and artifacts (with their        *)
(* artifact_grants and artifact_parents edges).  Every helper is a         *)
(* function of that value, so that a handler is the composition of the     *)
(* calls the code makes inside its transaction.  T names the tables.       *)
(*                                                                         *)
(* Row identity.  A request is named by its unique client key, a receipt   *)
(* by its unique (enforcer, operation, step) key.  A prompt is answered at *)
(* most once and inserts at most one grant per row, so a grant is named by *)
(* its request and definition.  (receipt, holder) is unique among original *)
(* artifacts, so an original artifact is named by its receipt; the derived *)
(* ones have names of their own.                                           *)
(***************************************************************************)
EXTENDS Integers, FiniteSets

CONSTANTS
    Definitions,   \* consent definitions, one row context each
    Packages,      \* installed packages
    PackageOf,     \* the package that registers a definition
    ModesOf,       \* the grant modes a definition's policy permits
    RetentionOf,   \* its retention_ms (0: its data may not be registered)
    Sessions, Requests, Operations, Derived,
    NoSession      \* the empty session id of a request

ASSUME DefinitionsAssumption ==
    /\ PackageOf \in [Definitions -> Packages]
    /\ ModesOf \in [Definitions -> SUBSET {"ONCE", "SESSION", "TIMED", "PERSISTENT"}]
    /\ RetentionOf \in [Definitions -> Nat]

ASSUME NamesAssumption ==
    /\ NoSession \notin Sessions
    /\ Operations \cap Derived = {}
    /\ IsFiniteSet(Requests)

GrantIds == Requests \X Definitions
Artifacts == Operations \cup Derived
GrantModes == {"ONCE", "SESSION", "TIMED", "PERSISTENT"}

(* A registered definition; policy 0 is a definition never registered.     *)
Definition == [active: BOOLEAN, policy: Nat, text: Nat, identity: Nat]

(* idle_deadline and absolute_deadline are set together at open, never     *)
(* change and are always tested together: limit is the earlier one.        *)
Session == [state: {"NONE", "ACTIVE", "SUSPENDED", "CLOSING", "CLOSED"},
            policy: {"CONNECTION_BOUND", "RESUMABLE_CONVERSATION"},
            generation: Nat, limit: Nat, lease: Nat, resume: Nat]

(* The approval context of a request: version 0 is an unversioned request, *)
(* 1 a selected approval, 2 a selected approval with period choices.       *)
Context == [version: 0..2, kind: {"TASK", "PREAPPROVAL"},
            mode: {"ONCE", "SESSION", "TIMED"}, duration: Nat]

(* allowed: the rows whose stored decision is ALLOWED; versions: policy    *)
(* and text of each row at creation; target: _approval_deadline; token: 0  *)
(* when empty; shown: _prompt_row; chosen: chosen_grant_mode; rank: the    *)
(* rowid order of the grants its answer inserted.                          *)
Request == [state: {"NONE", "PENDING", "ALLOWED", "DENIED", "CANCELLED",
                    "EXPIRED", "INVALIDATED"},
            ctx: Context, rows: SUBSET Definitions,
            session: Sessions \cup {NoSession}, generation: Nat,
            deadline: Nat, target: Nat,
            versions: [Definitions -> Nat \X Nat],
            allowed: SUBSET Definitions, token: Nat,
            shown: SUBSET Definitions,
            chosen: GrantModes \cup {""}, rank: Nat]

Grant == [state: {"none", "live", "revoked", "deleted"}, mode: GrantModes,
          policy: Nat, session: Sessions \cup {NoSession},
          expires: Nat, remaining: -1..1]

Authorization == [state: {"none", "valid", "invalid"},
                  rows: SUBSET Definitions,
                  session: Sessions \cup {NoSession}, generation: Nat,
                  created: Nat, grants: SUBSET GrantIds]

Artifact == [state: {"NONE", "ACTIVE", "CLEANUP_PENDING", "CLEANUP_FAILED",
                     "DELETED"},
             session: Sessions \cup {NoSession}, instance: Nat,
             expires: Nat, sources: SUBSET GrantIds,
             parents: SUBSET Artifacts]

DatabaseType == [defs: [Definitions -> Definition],
                 sessions: [Sessions -> Session],
                 requests: [Requests -> Request],
                 grants: [GrantIds -> Grant],
                 auths: [Operations -> Authorization],
                 artifacts: [Artifacts -> Artifact]]

NoDefinition == [active |-> FALSE, policy |-> 0, text |-> 0, identity |-> 0]

Unversioned == [version |-> 0, kind |-> "TASK", mode |-> "ONCE", duration |-> 0]

(* A freshly created database: every table is empty.                       *)
EmptyDatabase ==
    [defs |-> [d \in Definitions |-> NoDefinition],
     sessions |-> [s \in Sessions |->
         [state |-> "NONE", policy |-> "CONNECTION_BOUND", generation |-> 0,
          limit |-> 0, lease |-> 0, resume |-> 0]],
     requests |-> [r \in Requests |->
         [state |-> "NONE", ctx |-> Unversioned, rows |-> {},
          session |-> NoSession, generation |-> 0, deadline |-> 0,
          target |-> 0, versions |-> [d \in Definitions |-> <<0, 0>>],
          allowed |-> {}, token |-> 0, shown |-> {}, chosen |-> "",
          rank |-> 0]],
     grants |-> [g \in GrantIds |->
         [state |-> "none", mode |-> "ONCE", policy |-> 0,
          session |-> NoSession, expires |-> 0, remaining |-> 0]],
     auths |-> [o \in Operations |->
         [state |-> "none", rows |-> {}, session |-> NoSession,
          generation |-> 0, created |-> 0, grants |-> {}]],
     artifacts |-> [a \in Artifacts |->
         [state |-> "NONE", session |-> NoSession, instance |-> 0,
          expires |-> 0, sources |-> {}, parents |-> {}]]]

-----------------------------------------------------------------------------
(* UPDATE statements shared by the helpers below.                          *)

(* UPDATE grants SET revoked=1 for the grants in G.                        *)
RevokedGrants(T, G) ==
    [g \in GrantIds |-> IF g \in G /\ T.grants[g].state = "live"
                        THEN [T.grants[g] EXCEPT !.state = "revoked"]
                        ELSE T.grants[g]]

(* UPDATE authorizations SET valid=0 for the receipts in O.                *)
InvalidAuths(T, O) ==
    [o \in Operations |-> IF o \in O /\ T.auths[o].state = "valid"
                          THEN [T.auths[o] EXCEPT !.state = "invalid"]
                          ELSE T.auths[o]]

(* ACTIVE artifacts in A are blocked and become CLEANUP_PENDING.           *)
BlockedArtifacts(T, A) ==
    [a \in Artifacts |-> IF a \in A /\ T.artifacts[a].state = "ACTIVE"
                         THEN [T.artifacts[a] EXCEPT !.state = "CLEANUP_PENDING"]
                         ELSE T.artifacts[a]]

(* PENDING requests in R end in the given state and lose their token.      *)
FinishedRequests(T, R, state) ==
    [r \in Requests |-> IF r \in R /\ T.requests[r].state = "PENDING"
                        THEN [T.requests[r] EXCEPT !.state = state, !.token = 0]
                        ELSE T.requests[r]]

-----------------------------------------------------------------------------
(* Definitions changed: everything that rests on their grants goes.        *)
Invalidate(T, D) ==
    LET touches(G) == \E g \in G : g[2] \in D
    IN [T EXCEPT
          !.grants = RevokedGrants(T, {g \in GrantIds : g[2] \in D}),
          !.auths = InvalidAuths(T, {o \in Operations : touches(T.auths[o].grants)}),
          !.artifacts = BlockedArtifacts(T,
              {a \in Artifacts : touches(T.artifacts[a].sources)}),
          !.requests = FinishedRequests(T,
              {r \in Requests : T.requests[r].rows \cap D # {}}, "INVALIDATED")]

(* The projection of the registry: a definition whose installation the     *)
(* authority no longer vouches for is stored inactive.                     *)
Validator(definition, d, installed) ==
    definition.identity = installed[PackageOf[d]]

Projection(registered, installed) ==
    [d \in Definitions |->
        [registered[d] EXCEPT !.active = @ /\ Validator(registered[d], d, installed)]]

(* Mutant of ChangedDefinitions: a new text alone is not a change.         *)
ChangedPolicies(T, registered, installed) ==
    {d \in Definitions :
        LET new == Projection(registered, installed)[d]
        IN [new EXCEPT !.text = 0] # [T.defs[d] EXCEPT !.text = 0]}

ChangedDefinitions(T, registered, installed) ==
    {d \in Definitions : Projection(registered, installed)[d] # T.defs[d]}

Replay(T, registered, installed) ==
    [Invalidate(T, ChangedDefinitions(T, registered, installed))
        EXCEPT !.defs = Projection(registered, installed)]

-----------------------------------------------------------------------------
(* Sessions.                                                               *)
Open(session) == session.state \in {"ACTIVE", "SUSPENDED"}

(* Mutant of FinishCleanup: a failed deletion counts as done.              *)
FinishCleanupFailed(T) ==
    [T EXCEPT !.sessions = [s \in Sessions |->
        IF /\ T.sessions[s].state = "CLOSING"
           /\ \A a \in Artifacts : T.artifacts[a].session = s
                 => T.artifacts[a].state \in {"DELETED", "CLEANUP_FAILED"}
        THEN [T.sessions[s] EXCEPT !.state = "CLOSED"]
        ELSE T.sessions[s]]]

FinishCleanup(T) ==
    [T EXCEPT !.sessions = [s \in Sessions |->
        IF /\ T.sessions[s].state = "CLOSING"
           /\ \A a \in Artifacts : T.artifacts[a].session = s
                                     => T.artifacts[a].state = "DELETED"
        THEN [T.sessions[s] EXCEPT !.state = "CLOSED"]
        ELSE T.sessions[s]]]

(* CloseSession for every session in S.                                    *)
CloseSessions(T, S) ==
    [T EXCEPT
       !.sessions = [s \in Sessions |->
           IF s \in S /\ Open(T.sessions[s])
           THEN [T.sessions[s] EXCEPT !.state = "CLOSING", !.generation = @ + 1]
           ELSE T.sessions[s]],
       !.grants = RevokedGrants(T,
           {g \in GrantIds : T.grants[g].mode = "SESSION" /\ T.grants[g].session \in S}),
       !.artifacts = BlockedArtifacts(T,
           {a \in Artifacts : T.artifacts[a].session \in S}),
       !.requests = FinishedRequests(T,
           {r \in Requests : T.requests[r].session \in S}, "INVALIDATED")]

(* Mutant of SuspendSessions: requests go on waiting.                      *)
SuspendSessionsKeepRequests(T, S, resume) ==
    [T EXCEPT
       !.sessions = [s \in Sessions |->
           IF s \in S /\ T.sessions[s].state = "ACTIVE"
           THEN [T.sessions[s] EXCEPT !.state = "SUSPENDED",
                                       !.generation = @ + 1, !.resume = resume]
           ELSE T.sessions[s]]]

(* SuspendSession for every session in S.                                  *)
SuspendSessions(T, S, resume) ==
    [T EXCEPT
       !.sessions = [s \in Sessions |->
           IF s \in S /\ T.sessions[s].state = "ACTIVE"
           THEN [T.sessions[s] EXCEPT !.state = "SUSPENDED",
                                       !.generation = @ + 1, !.resume = resume]
           ELSE T.sessions[s]],
       !.requests = FinishedRequests(T,
           {r \in Requests : T.requests[r].session \in S}, "INVALIDATED")]

(* SessionState(..., active): the guard of everything done in a session.   *)
SessionActive(T, s, generation, clock) ==
    \/ s = NoSession
    \/ /\ s \in Sessions
       /\ T.sessions[s].state = "ACTIVE"
       /\ T.sessions[s].generation = generation
       /\ T.sessions[s].limit > clock
       /\ T.sessions[s].lease > clock

(* Mutant of ResetRuntime: TIMED grants survive the restart.               *)
ResetRuntimeKeepsTimed(T) ==
    FinishCleanup(
      [T EXCEPT
         !.requests = FinishedRequests(T, Requests, "INVALIDATED"),
         !.sessions = [s \in Sessions |->
             IF Open(T.sessions[s])
             THEN [T.sessions[s] EXCEPT !.state = "CLOSING", !.generation = @ + 1]
             ELSE T.sessions[s]],
         !.grants = RevokedGrants(T,
             {g \in GrantIds : T.grants[g].mode \in {"ONCE", "SESSION"}}),
         !.auths = InvalidAuths(T, Operations),
         !.artifacts = BlockedArtifacts(T, Artifacts)])

(* A restarted daemon keeps PERSISTENT grants and nothing else that could  *)
(* permit an action.                                                       *)
ResetRuntime(T) ==
    FinishCleanup(
      [T EXCEPT
         !.requests = FinishedRequests(T, Requests, "INVALIDATED"),
         !.sessions = [s \in Sessions |->
             IF Open(T.sessions[s])
             THEN [T.sessions[s] EXCEPT !.state = "CLOSING", !.generation = @ + 1]
             ELSE T.sessions[s]],
         !.grants = RevokedGrants(T,
             {g \in GrantIds : T.grants[g].mode # "PERSISTENT"}),
         !.auths = InvalidAuths(T, Operations),
         !.artifacts = BlockedArtifacts(T, Artifacts)])

-----------------------------------------------------------------------------
(* The deadline sweep that precedes every request and runs in every tick.  *)
(* Mutant of ExpiredRequests: only prompted requests expire.               *)
ExpiredPrompts(T, clock) ==
    {r \in Requests : /\ T.requests[r].state = "PENDING" /\ T.requests[r].token # 0
                      /\ T.requests[r].deadline <= clock}

ExpiredRequests(T, clock) ==
    {r \in Requests : T.requests[r].state = "PENDING" /\ T.requests[r].deadline <= clock}

ExpiredSessions(T, clock) ==
    {s \in Sessions :
        LET session == T.sessions[s]
        IN \/ session.state = "ACTIVE" /\ (session.limit <= clock \/ session.lease <= clock)
           \/ session.state = "SUSPENDED" /\ (session.limit <= clock \/ session.resume <= clock)}

(* A resumable session whose connection lease ran out is only suspended.   *)
LapsedSessions(T, clock) ==
    {s \in ExpiredSessions(T, clock) :
        /\ T.sessions[s].policy = "RESUMABLE_CONVERSATION"
        /\ T.sessions[s].state = "ACTIVE"
        /\ T.sessions[s].limit > clock}

ExpiredArtifacts(T, clock) ==
    {a \in Artifacts : T.artifacts[a].state = "ACTIVE" /\ T.artifacts[a].expires <= clock}

Expire(T, clock, grace) ==
    LET swept == [T EXCEPT !.requests =
                    FinishedRequests(T, ExpiredRequests(T, clock), "EXPIRED")]
        closed == CloseSessions(swept,
                    ExpiredSessions(T, clock) \ LapsedSessions(T, clock))
        suspended == SuspendSessions(closed, LapsedSessions(T, clock), clock + grace)
    IN FinishCleanup([suspended EXCEPT !.artifacts =
                        BlockedArtifacts(suspended, ExpiredArtifacts(T, clock))])

ExpireChanges(T, clock) ==
    \/ ExpiredRequests(T, clock) # {}
    \/ ExpiredSessions(T, clock) # {}
    \/ ExpiredArtifacts(T, clock) # {}

-----------------------------------------------------------------------------
(* Evaluation.  q is a request: its rows, session, ctx, target and chosen. *)

(* Mutant of Covers: any TIMED grant answers a TIMED request.              *)
CoversAnyTime(q, grant, clock) ==
    /\ grant.expires = 0 \/ grant.expires > clock
    /\ IF q.chosen = "PERSISTENT"
       THEN grant.mode = "PERSISTENT"
       ELSE \/ q.ctx.version = 0 \/ q.ctx.kind = "TASK"
            \/ q.ctx.mode = "ONCE" \/ grant.mode = "PERSISTENT"
            \/ q.ctx.mode = grant.mode

(* approval::Covers: does grant g answer the period the request asks for?  *)
Covers(q, grant, clock) ==
    /\ grant.expires = 0 \/ grant.expires > clock
    /\ IF q.chosen = "PERSISTENT"
       THEN grant.mode = "PERSISTENT"
       ELSE \/ q.ctx.version = 0 \/ q.ctx.kind = "TASK"
            \/ q.ctx.mode = "ONCE" \/ grant.mode = "PERSISTENT"
            \/ q.ctx.mode = "SESSION" /\ grant.mode = "SESSION"
            \/ /\ q.ctx.mode = "TIMED" /\ grant.mode = "TIMED"
               /\ grant.expires >= q.target

(* Mutant of Covering: a spent ONCE grant still covers.                    *)
CoveringSpent(T, q, d, clock) ==
    {g \in GrantIds :
        /\ g[2] = d
        /\ T.grants[g].state = "live"
        /\ T.grants[g].policy = T.defs[d].policy
        /\ T.grants[g].mode = "SESSION" => T.grants[g].session = q.session
        /\ Covers(q, T.grants[g], clock)}

Covering(T, q, d, clock) ==
    {g \in GrantIds :
        /\ g[2] = d
        /\ T.grants[g].state = "live"
        /\ T.grants[g].policy = T.defs[d].policy
        /\ T.grants[g].remaining # 0
        /\ T.grants[g].mode = "SESSION" => T.grants[g].session = q.session
        /\ Covers(q, T.grants[g], clock)}

(* ORDER BY rowid DESC: the newest covering grant, as a set of at most one. *)
Newest(T, q, d, clock) ==
    LET covering == Covering(T, q, d, clock)
    IN {g \in covering : \A h \in covering : T.requests[h[1]].rank <= T.requests[g[1]].rank}

DeniedRows(T, q) == {d \in q.rows : ~T.defs[d].active}

MissingRows(T, q, clock) ==
    {d \in q.rows : T.defs[d].active /\ Newest(T, q, d, clock) = {}}

(* Mutant of CheckConditions: one covered row is enough.                   *)
CheckAnyCondition(T, q, clock) ==
    IF DeniedRows(T, q) # {} THEN "DENIED"
    ELSE IF MissingRows(T, q, clock) = q.rows THEN "CONSENT_REQUIRED"
    ELSE "ALLOWED"

CheckConditions(T, q, clock) ==
    IF DeniedRows(T, q) # {} THEN "DENIED"
    ELSE IF MissingRows(T, q, clock) # {} THEN "CONSENT_REQUIRED"
    ELSE "ALLOWED"

(* What makes CheckConditions fail instead of deciding.                    *)
Evaluable(T, q, clock, installed) ==
    /\ SessionActive(T, q.session, q.generation, clock)
    /\ \A d \in q.rows : T.defs[d].active => Validator(T.defs[d], d, installed)

(* A receipt that may still be used.                                       *)
ReceiptValid(T, o, clock, installed) ==
    /\ T.auths[o].state = "valid"
    /\ \A g \in T.auths[o].grants :
          /\ T.grants[g].state = "live"
          /\ T.grants[g].expires = 0 \/ T.grants[g].expires > clock
    /\ \A d \in T.auths[o].rows :
          T.defs[d].active /\ Validator(T.defs[d], d, installed)

(* ValidateArtifactProvenance: may artifact a be used in its session?      *)
ValidateArtifactProvenance(T, a, clock, installed) ==
    LET artifact == T.artifacts[a]
    IN /\ artifact.state = "ACTIVE"
       /\ artifact.expires > clock
       /\ artifact.session \in Sessions
       /\ SessionActive(T, artifact.session,
                        T.sessions[artifact.session].generation, clock)
       /\ artifact.sources # {}
       /\ \A g \in artifact.sources :
             /\ T.grants[g].state = "live"
             /\ T.defs[g[2]].active
             /\ T.grants[g].policy = T.defs[g[2]].policy
             /\ Validator(T.defs[g[2]], g[2], installed)

-----------------------------------------------------------------------------
(* CompactMetadata: the receipts that are not valid lose payload and       *)
(* edges; a revoked grant that no edge names any more is deleted.  The     *)
(* classes are visited in rotation, so the grants may come before or after *)
(* the receipts.  (The two other classes clear fields that are dead here.) *)
CompactAuths(T) ==
    [T EXCEPT !.auths = [o \in Operations |->
        IF T.auths[o].state = "invalid"
        THEN [T.auths[o] EXCEPT !.grants = {}, !.rows = {}]
        ELSE T.auths[o]]]

(* Mutant of CompactGrants: the sources of artifacts are forgotten.        *)
CompactGrantsOfArtifacts(T) ==
    [T EXCEPT !.grants = [g \in GrantIds |->
        IF /\ T.grants[g].state = "revoked"
           /\ \A o \in Operations : g \notin T.auths[o].grants
        THEN [T.grants[g] EXCEPT !.state = "deleted"]
        ELSE T.grants[g]]]

CompactGrants(T) ==
    [T EXCEPT !.grants = [g \in GrantIds |->
        IF /\ T.grants[g].state = "revoked"
           /\ \A o \in Operations : g \notin T.auths[o].grants
           /\ \A a \in Artifacts : g \notin T.artifacts[a].sources
        THEN [T.grants[g] EXCEPT !.state = "deleted"]
        ELSE T.grants[g]]]

CompactMetadata(T, receiptsFirst) ==
    IF receiptsFirst THEN CompactGrants(CompactAuths(T))
                     ELSE CompactAuths(CompactGrants(T))
=============================================================================
