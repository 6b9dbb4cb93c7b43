----------------------------- MODULE Repository -----------------------------
(***************************************************************************)
(* The consentd repository as a state machine.  One serialized executor    *)
(* runs every request: a deadline sweep in a transaction of its own, then  *)
(* the method's handler in another.  Between the two the clock may move,   *)
(* so the deadlines a handler tests again are real tests.  Ticks (replay,  *)
(* sweep and metadata compaction), installation changes and restarts       *)
(* happen between requests.                                                *)
(*                                                                         *)
(* One subject and profile is modelled.  A rejected or read-only method is *)
(* Answer: its transaction leaves the tables as they were.                 *)
(***************************************************************************)
EXTENDS Database

CONSTANTS
    MaxNow,          \* bound on the clock
    MaxPolicy,       \* bound on policy_version
    MaxText,         \* bound on text_revision
    MaxIdentity,     \* bound on the installation generations of a package
    MaxGeneration,   \* bound on session generations reached by resume
    MaxToken,        \* bound on the prompts issued for one request
    Lifecycles,      \* the session policies clients ask for
    Lifetimes,       \* idle/absolute limits clients ask for
    Lease,           \* connection lease, granted at open and by heartbeat
    Grace,           \* reconnect grace of a suspended session
    Waits,           \* deadline_ms of requests
    Durations,       \* duration_ms of unversioned TIMED answers
    Contexts,        \* approval contexts requests and checks carry
    RowSets,         \* the requirement lists requests and checks carry
    CallSessions,    \* the session ids requests and checks carry
    Instances,       \* process instances of the holder
    SessionCapacity, PendingCapacity, ArtifactCapacity

ASSUME BoundsAssumption ==
    /\ {MaxNow, MaxPolicy, MaxText, MaxIdentity, MaxGeneration, MaxToken,
        Lease, Grace, SessionCapacity, PendingCapacity, ArtifactCapacity} \subseteq Nat
    /\ Lifetimes \subseteq Nat /\ Waits \subseteq Nat
    /\ Durations \subseteq Nat \ {0}
    /\ Instances \subseteq Nat
    /\ Lifecycles \subseteq {"CONNECTION_BOUND", "RESUMABLE_CONVERSATION"}

ASSUME ContextsAssumption ==
    /\ Contexts \subseteq Context
    /\ \A c \in Contexts : c.mode = "TIMED" => c.duration > 0
    /\ \A c \in Contexts : c.version = 0 => c.kind = "TASK"
    /\ RowSets \subseteq SUBSET Definitions
    /\ {} \notin RowSets
    /\ CallSessions \subseteq Sessions \cup {NoSession}

VARIABLES
    now,        \* the monotonic clock
    swept,      \* the executor is between the sweep and the handler
    revised,    \* the last step bumped the policy revision
    registry,   \* definitions_: the durable registry
    authority,  \* the installation generation of each package
    db,         \* the tables
    screens     \* the prompts UI instances hold, per request

vars == <<now, swept, revised, registry, authority, db, screens>>

Screen == [token: Nat, rows: SUBSET Definitions,
           versions: [Definitions -> Nat \X Nat]]

TypeOK ==
    /\ now \in Nat
    /\ swept \in BOOLEAN
    /\ revised \in BOOLEAN
    /\ registry \in [Definitions -> Definition]
    /\ authority \in [Packages -> Nat]
    /\ db \in DatabaseType
    /\ screens \in [Requests -> SUBSET Screen]

Init ==
    /\ now = 0
    /\ swept = FALSE
    /\ revised = FALSE
    /\ registry = [d \in Definitions |-> NoDefinition]
    /\ authority = [p \in Packages |-> 1]
    /\ db = EmptyDatabase
    /\ screens = [r \in Requests |-> {}]

-----------------------------------------------------------------------------
(* The environment: the clock, and the installer's authority file.         *)
Advance ==
    /\ now < MaxNow
    /\ now' = now + 1
    /\ revised' = FALSE
    /\ UNCHANGED <<swept, registry, authority, db, screens>>

Reinstall(p) ==
    /\ authority[p] < MaxIdentity
    /\ authority' = [authority EXCEPT ![p] = @ + 1]
    /\ revised' = FALSE
    /\ UNCHANGED <<now, swept, registry, db, screens>>

-----------------------------------------------------------------------------
(* Execute: the sweep, then one handler.                                   *)
Sweep ==
    /\ ~swept
    /\ swept' = TRUE
    /\ db' = Expire(db, now, Grace)
    /\ revised' = ExpireChanges(db, now)
    /\ UNCHANGED <<now, registry, authority, screens>>

(* The handler commits new tables, and bumps the revision if it says so.   *)
Commit(tables, bump) ==
    /\ swept
    /\ swept' = FALSE
    /\ db' = tables
    /\ revised' = bump
    /\ UNCHANGED <<now, authority>>

(* A method that reads, repeats a finished operation or is refused.        *)
Answer == Commit(db, FALSE) /\ UNCHANGED <<registry, screens>>

(* register and update: CommonRegister, WriteRegistry and Replay.          *)
Register(d, policy, text) ==
    /\ policy >= registry[d].policy
    /\ text >= registry[d].text
    /\ registry' = [registry EXCEPT ![d] =
           [active |-> TRUE, policy |-> policy, text |-> text,
            identity |-> authority[PackageOf[d]]]]
    /\ Commit(Replay(db, registry', authority), TRUE)
    /\ UNCHANGED screens

(* unregister: every definition of the package, under its generation.      *)
Unregister(p) ==
    /\ \A d \in Definitions :
          PackageOf[d] = p /\ registry[d].active => registry[d].identity = authority[p]
    /\ registry' = [d \in Definitions |->
           IF PackageOf[d] = p THEN [registry[d] EXCEPT !.active = FALSE] ELSE registry[d]]
    /\ Commit(Replay(db, registry', authority), TRUE)
    /\ UNCHANGED screens

-----------------------------------------------------------------------------
(* Sessions.                                                               *)
Update(tables) == Commit(tables, TRUE) /\ UNCHANGED <<registry, screens>>

SessionOpen(s, lifecycle, lifetime) ==
    /\ db.sessions[s].state = "NONE"
    /\ Cardinality({t \in Sessions : Open(db.sessions[t])}) < SessionCapacity
    /\ Update([db EXCEPT !.sessions[s] =
           [state |-> "ACTIVE", policy |-> lifecycle, generation |-> 1,
            limit |-> now + lifetime, lease |-> now + Lease, resume |-> 0]])

SessionClose(s) ==
    /\ db.sessions[s].state # "NONE"
    /\ Update(FinishCleanup(CloseSessions(db, {s})))

SessionSuspend(s) ==
    /\ db.sessions[s].state = "ACTIVE"
    /\ \/ /\ db.sessions[s].policy = "CONNECTION_BOUND"
          /\ Update(FinishCleanup(CloseSessions(db, {s})))
       \/ /\ db.sessions[s].policy = "RESUMABLE_CONVERSATION"
          /\ Update(SuspendSessions(db, {s}, now + Grace))

SessionResume(s) ==
    /\ db.sessions[s].state = "SUSPENDED"
    /\ db.sessions[s].resume > now
    /\ db.sessions[s].generation < MaxGeneration
    /\ Update([db EXCEPT !.sessions[s].state = "ACTIVE",
                         !.sessions[s].generation = @ + 1,
                         !.sessions[s].lease = now + Lease])

(* Mutant of SessionHeartbeat: it extends the session, not only the lease. *)
SessionHeartbeatExtends(s) ==
    /\ db.sessions[s].state = "ACTIVE"
    /\ Update([db EXCEPT !.sessions[s].lease = now + Lease,
                         !.sessions[s].limit = now + Lease])

SessionHeartbeat(s) ==
    /\ db.sessions[s].state = "ACTIVE"
    /\ Update([db EXCEPT !.sessions[s].lease = now + Lease])

-----------------------------------------------------------------------------
(* Evaluate: request (create) and check AUTHORIZE.                         *)

(* What a caller sends: rows, session and its generation, approval context.*)
Query(rows, s, ctx) ==
    [rows |-> rows, session |-> s,
     generation |-> IF s = NoSession THEN 0 ELSE db.sessions[s].generation,
     ctx |-> ctx, chosen |-> "",
     target |-> IF ctx.version > 0 /\ ctx.kind = "PREAPPROVAL" /\ ctx.mode = "TIMED"
                THEN now + ctx.duration ELSE 0]

CreateRequest(r, rows, s, ctx, wait) ==
    LET q == Query(rows, s, ctx)
        decision == CheckConditions(db, q, now)
        missing == MissingRows(db, q, now)
    IN /\ db.requests[r].state = "NONE"
       /\ ctx.version > 0 /\ ctx.mode = "SESSION" => s # NoSession
       /\ Evaluable(db, q, now, authority)
       /\ ctx.version > 0 => \A d \in missing : ctx.mode \in ModesOf[d]
       /\ decision = "CONSENT_REQUIRED" =>
             Cardinality({x \in Requests : db.requests[x].state = "PENDING"}) < PendingCapacity
       /\ Update([db EXCEPT !.requests[r] =
             [state |-> IF decision = "CONSENT_REQUIRED" THEN "PENDING" ELSE decision,
              ctx |-> ctx, rows |-> rows, session |-> s,
              generation |-> q.generation, deadline |-> now + wait,
              target |-> q.target,
              versions |-> [d \in Definitions |->
                  IF d \in rows /\ db.defs[d].active
                  THEN <<db.defs[d].policy, db.defs[d].text>> ELSE <<0, 0>>],
              allowed |-> rows \ (missing \cup DeniedRows(db, q)),
              token |-> 0, shown |-> {},
              chosen |-> IF ctx.version = 2 /\ decision = "ALLOWED" THEN ctx.mode ELSE "",
              rank |-> 0]])

(* All rows pass before any ONCE grant is consumed.                        *)
Consume(grants, G) ==
    [g \in GrantIds |->
        IF g \in G /\ grants[g].mode = "ONCE" /\ grants[g].remaining > 0
        THEN [grants[g] EXCEPT !.remaining = @ - 1] ELSE grants[g]]

(* Mutant of Authorize: only a valid receipt is found as the prior one.    *)
AuthorizeAgain(o, rows, s, ctx) ==
    LET q == Query(rows, s, ctx)
        found == UNION {Newest(db, q, d, now) : d \in rows}
    IN /\ db.auths[o].state # "valid"
       /\ Evaluable(db, q, now, authority)
       /\ CheckConditions(db, q, now) = "ALLOWED"
       /\ Update([db EXCEPT
             !.auths[o] = [state |-> "valid", rows |-> rows, session |-> s,
                           generation |-> q.generation, created |-> now,
                           grants |-> found],
             !.grants = Consume(@, found)])

Authorize(o, rows, s, ctx) ==
    LET q == Query(rows, s, ctx)
        found == UNION {Newest(db, q, d, now) : d \in rows}
    IN /\ db.auths[o].state = "none"
       /\ ctx.version > 0 /\ ctx.mode = "SESSION" => s # NoSession
       /\ Evaluable(db, q, now, authority)
       /\ CheckConditions(db, q, now) = "ALLOWED"
       /\ Update([db EXCEPT
             !.auths[o] = [state |-> "valid", rows |-> rows, session |-> s,
                           generation |-> q.generation, created |-> now,
                           grants |-> found],
             !.grants = Consume(@, found)])

-----------------------------------------------------------------------------
(* Prompt: get_prompt and respond.                                         *)

(* What both require of a pending request before anything else.            *)
Promptable(r) ==
    LET request == db.requests[r]
    IN /\ request.state = "PENDING"
       /\ request.deadline > now
       /\ SessionActive(db, request.session, request.generation, now)
       /\ \A d \in request.rows :
             /\ db.defs[d].active
             /\ Validator(db.defs[d], d, authority)
             /\ request.versions[d] = <<db.defs[d].policy, db.defs[d].text>>

(* Version 2 offers PERSISTENT beside the requested period.                *)
OffersPersistent(request) ==
    request.ctx.version = 2 /\ \A d \in request.rows : "PERSISTENT" \in ModesOf[d]

Displayed(request) ==
    IF request.ctx.version = 0 \/ OffersPersistent(request) THEN request.rows
    ELSE MissingRows(db, request, now) \ request.allowed

(* Mutant of GetPrompt: an earlier screen's token stays good.              *)
GetPromptSameToken(r) ==
    LET request == db.requests[r]
    IN /\ Promptable(r)
       /\ Displayed(request) # {}
       /\ Commit([db EXCEPT !.requests[r].token = 1,
                            !.requests[r].shown = Displayed(request)], TRUE)
       /\ screens' = [screens EXCEPT ![r] = @ \cup
             {[token |-> 1, rows |-> Displayed(request),
               versions |-> request.versions]}]
       /\ UNCHANGED registry

(* A new prompt: the token rotates and the rows shown are recorded.        *)
GetPrompt(r) ==
    LET request == db.requests[r]
        token == Cardinality(screens[r]) + 1
    IN /\ Promptable(r)
       /\ Displayed(request) # {}
       /\ token <= MaxToken
       /\ Commit([db EXCEPT !.requests[r].token = token,
                            !.requests[r].shown = Displayed(request)], TRUE)
       /\ screens' = [screens EXCEPT ![r] = @ \cup
             {[token |-> token, rows |-> Displayed(request),
               versions |-> request.versions]}]
       /\ UNCHANGED registry

(* Nothing is left to ask: the request ends without a screen.              *)
FinishUnasked(r) ==
    LET request == db.requests[r]
    IN /\ Promptable(r)
       /\ Displayed(request) = {}
       /\ Update([db EXCEPT
             !.requests[r].state = IF CheckConditions(db, request, now) = "ALLOWED"
                                   THEN "ALLOWED" ELSE "INVALIDATED",
             !.requests[r].token = 0,
             !.requests[r].shown = {},
             !.requests[r].chosen = IF request.ctx.version = 2 THEN request.ctx.mode ELSE ""])

(* The modes a response may carry.                                         *)
Choices(request) ==
    CASE request.ctx.version = 0 -> GrantModes
      [] request.ctx.version = 1 -> {request.ctx.mode}
      [] OTHER -> {request.ctx.mode} \cup
                  (IF OffersPersistent(request) THEN {"PERSISTENT"} ELSE {})

(* The request with the chosen period as its target, as in evaluation.     *)
Chosen(request, mode) ==
    IF request.ctx.version = 2 THEN [request EXCEPT !.chosen = mode] ELSE request

(* The displayed rows that an approval still has to grant.                 *)
GrantedRows(request, mode) ==
    LET covered == request.rows \ MissingRows(db, Chosen(request, mode), now)
    IN CASE request.ctx.version = 0 -> request.rows \ request.allowed
         [] request.ctx.version = 1 -> request.shown \ (request.allowed \cup covered)
         [] OTHER -> request.shown \ covered

Inserted(r, D, mode, duration) ==
    [g \in GrantIds |->
        IF g[1] = r /\ g[2] \in D
        THEN [state |-> "live", mode |-> mode, policy |-> db.defs[g[2]].policy,
              session |-> IF mode = "SESSION" THEN db.requests[r].session ELSE NoSession,
              expires |-> IF mode = "TIMED" THEN now + duration ELSE 0,
              remaining |-> IF mode = "ONCE" THEN 1 ELSE -1]
        ELSE db.grants[g]]

(* The user approves on a screen; the whole AND is evaluated again.        *)
Approve(r, screen, mode, duration) ==
    LET request == db.requests[r]
        D == GrantedRows(request, mode)
        rank == 1 + Cardinality({x \in Requests : db.requests[x].rank > 0})
        granted == [db EXCEPT !.grants = Inserted(r, D, mode, duration),
                              !.requests[r].rank = rank]
        decision == CheckConditions(granted, Chosen(request, mode), now)
    IN /\ Promptable(r)
       /\ request.token # 0 /\ screen.token = request.token
       /\ mode \in Choices(request)
       /\ request.ctx.version > 0 => duration = request.ctx.duration
       /\ mode = "SESSION" => request.session # NoSession
       /\ \A d \in D : mode \in ModesOf[d]
       /\ Update([granted EXCEPT
             !.requests[r].state = IF decision = "ALLOWED" THEN "ALLOWED" ELSE "INVALIDATED",
             !.requests[r].token = 0,
             !.requests[r].shown = {},
             !.requests[r].chosen = Chosen(request, mode).chosen])

Deny(r, screen, mode) ==
    LET request == db.requests[r]
    IN /\ Promptable(r)
       /\ request.token # 0 /\ screen.token = request.token
       /\ mode \in Choices(request)
       /\ Update([db EXCEPT !.requests[r].state = "DENIED",
                            !.requests[r].token = 0, !.requests[r].shown = {},
                            !.requests[r].chosen = Chosen(request, mode).chosen])

(* Mutant of CancelRequest: a decided request is cancelled too.            *)
CancelAnyRequest(r) ==
    /\ db.requests[r].state # "NONE"
    /\ Update([db EXCEPT !.requests[r].state = "CANCELLED", !.requests[r].token = 0])

(* cancel_request.                                                         *)
CancelRequest(r) ==
    /\ db.requests[r].state = "PENDING"
    /\ Update([db EXCEPT !.requests[r].state = "CANCELLED", !.requests[r].token = 0])

(* ValidateStoredApproval, from get_request_result and from a retried      *)
(* request: an approval with chosen period that no longer holds is gone.   *)
RetireStoredApproval(r) ==
    LET request == db.requests[r]
    IN /\ request.state = "ALLOWED"
       /\ request.ctx.version = 2
       /\ Evaluable(db, request, now, authority)
       /\ \A d \in request.rows : db.defs[d].active =>
             request.versions[d][1] = db.defs[d].policy
       /\ CheckConditions(db, request, now) # "ALLOWED"
       /\ Update([db EXCEPT !.requests[r].state = "INVALIDATED"])

(* Mutant of Revoke: data already obtained stays usable.                   *)
RevokeKeepsData(d) ==
    LET grants == RevokedGrants(db, {g \in GrantIds : g[2] = d})
        stale(G) == \E g \in G : grants[g].state = "revoked"
    IN Update([db EXCEPT
          !.grants = grants,
          !.auths = InvalidAuths(db, {o \in Operations : stale(db.auths[o].grants)})])

(* Mutant of Revoke: no new revision.                                      *)
RevokeUnannounced(d) ==
    LET grants == RevokedGrants(db, {g \in GrantIds : g[2] = d})
        stale(G) == \E g \in G : grants[g].state = "revoked"
    IN /\ Commit([db EXCEPT
             !.grants = grants,
             !.auths = InvalidAuths(db, {o \in Operations : stale(db.auths[o].grants)}),
             !.artifacts = BlockedArtifacts(db,
                 {a \in Artifacts : stale(db.artifacts[a].sources)})], FALSE)
       /\ UNCHANGED <<registry, screens>>

Revoke(d) ==
    LET grants == RevokedGrants(db, {g \in GrantIds : g[2] = d})
        stale(G) == \E g \in G : grants[g].state = "revoked"
    IN Update([db EXCEPT
          !.grants = grants,
          !.auths = InvalidAuths(db, {o \in Operations : stale(db.auths[o].grants)}),
          !.artifacts = BlockedArtifacts(db,
              {a \in Artifacts : stale(db.artifacts[a].sources)})])

-----------------------------------------------------------------------------
(* Data.                                                                   *)
Resident(s) ==
    {a \in Artifacts : db.artifacts[a].session = s /\ db.artifacts[a].state # "DELETED"}

(* data_register: the one original artifact of receipt o, for its row d.   *)
DataRegister(o, d, i) ==
    LET auth == db.auths[o]
    IN /\ db.artifacts[o].state = "NONE"
       /\ auth.session \in Sessions
       /\ SessionActive(db, auth.session, auth.generation, now)
       /\ ReceiptValid(db, o, now, authority)
       /\ d \in auth.rows
       /\ RetentionOf[d] > 0
       /\ auth.created + RetentionOf[d] > now
       /\ Cardinality(Resident(auth.session)) < ArtifactCapacity
       /\ Update([db EXCEPT !.artifacts[o] =
             [state |-> "ACTIVE", session |-> auth.session, instance |-> i,
              expires |-> auth.created + RetentionOf[d],
              sources |-> auth.grants, parents |-> {}]])

(* Mutant of DataRegisterDerived: the sources of one parent only.          *)
DataRegisterDerivedOne(a, parents, i) ==
    /\ db.artifacts[a].state = "NONE"
    /\ parents # {}
    /\ \A p \in parents : /\ db.artifacts[p].instance = i
                          /\ ValidateArtifactProvenance(db, p, now, authority)
    /\ \E s \in Sessions, one \in parents :
          /\ \A p \in parents : db.artifacts[p].session = s
          /\ Update([db EXCEPT !.artifacts[a] =
                [state |-> "ACTIVE", session |-> s, instance |-> i,
                 expires |-> db.artifacts[one].expires,
                 sources |-> db.artifacts[one].sources, parents |-> parents]])

(* data_register_derived: the sources of all parents, the least expiry.    *)
DataRegisterDerived(a, parents, i) ==
    /\ db.artifacts[a].state = "NONE"
    /\ parents # {}
    /\ \A p \in parents : /\ db.artifacts[p].instance = i
                          /\ ValidateArtifactProvenance(db, p, now, authority)
    /\ \E s \in Sessions, expires \in {db.artifacts[p].expires : p \in parents} :
          /\ \A p \in parents : db.artifacts[p].session = s
          /\ \A p \in parents : expires <= db.artifacts[p].expires
          /\ Cardinality(Resident(s)) < ArtifactCapacity
          /\ Update([db EXCEPT !.artifacts[a] =
                [state |-> "ACTIVE", session |-> s, instance |-> i,
                 expires |-> expires,
                 sources |-> UNION {db.artifacts[p].sources : p \in parents},
                 parents |-> parents]])

(* data_release and cleanup_ack; another instance of the holder may only   *)
(* reconcile what is already blocked.                                      *)
CleanupAck(a, i, success) ==
    LET artifact == db.artifacts[a]
    IN /\ artifact.state # "NONE"
       /\ artifact.instance # i =>
             artifact.state \in {"CLEANUP_PENDING", "CLEANUP_FAILED", "DELETED"}
       /\ success \/ artifact.state # "DELETED"
       /\ Update(FinishCleanup([db EXCEPT !.artifacts[a].state =
             IF success THEN "DELETED" ELSE "CLEANUP_FAILED"]))

-----------------------------------------------------------------------------
(* Work of the daemon between requests.                                    *)

(* Tick: replay the registry, sweep, and when due compact.                 *)
Tick ==
    LET replayed == Replay(db, registry, authority)
        tables == Expire(replayed, now, Grace)
    IN /\ ~swept
       /\ \/ db' = tables
          \/ \E receiptsFirst \in BOOLEAN : db' = CompactMetadata(tables, receiptsFirst)
       /\ revised' = \/ ChangedDefinitions(db, registry, authority) # {}
                     \/ ExpireChanges(replayed, now)
       /\ UNCHANGED <<now, swept, registry, authority, screens>>

(* A switch (or removal) of the active user ends the profile's sessions.   *)
FenceProfiles(retire) ==
    LET closed == CloseSessions(db, {s \in Sessions : Open(db.sessions[s])})
        fenced == [closed EXCEPT
            !.requests = [r \in Requests |->
                IF closed.requests[r].state \in {"PENDING", "ALLOWED"}
                THEN [closed.requests[r] EXCEPT !.state = "INVALIDATED", !.token = 0]
                ELSE closed.requests[r]],
            !.grants = IF retire THEN RevokedGrants(closed, GrantIds) ELSE @,
            !.auths = InvalidAuths(closed, Operations)]
    IN /\ ~swept
       /\ db' = FinishCleanup(fenced)
       /\ revised' = TRUE
       /\ UNCHANGED <<now, swept, registry, authority, screens>>

(* The daemon stops or dies; the next one opens the same database.  After  *)
(* a reboot the monotonic clock has started again.                         *)
Restart(clock) ==
    /\ db' = ResetRuntime(Replay(db, registry, authority))
    /\ now' = clock
    /\ swept' = FALSE
    /\ revised' = TRUE
    /\ UNCHANGED <<registry, authority, screens>>

-----------------------------------------------------------------------------
Definers ==
    \/ \E d \in Definitions, policy \in 1..MaxPolicy, text \in 1..MaxText :
          Register(d, policy, text)
    \/ \E p \in Packages : Unregister(p)

SessionCalls ==
    \E s \in Sessions :
       \/ \E lifecycle \in Lifecycles, lifetime \in Lifetimes :
             SessionOpen(s, lifecycle, lifetime)
       \/ SessionClose(s) \/ SessionSuspend(s) \/ SessionResume(s) \/ SessionHeartbeat(s)

RequestCalls ==
    \E r \in Requests :
       \/ \E rows \in RowSets, s \in CallSessions, ctx \in Contexts, wait \in Waits :
             CreateRequest(r, rows, s, ctx, wait)
       \/ GetPrompt(r) \/ FinishUnasked(r) \/ CancelRequest(r) \/ RetireStoredApproval(r)
       \/ \E screen \in screens[r] :
             \E mode \in GrantModes :
                \/ \E duration \in Durations \cup {db.requests[r].ctx.duration} :
                      Approve(r, screen, mode, duration)
                \/ Deny(r, screen, mode)

CheckCalls ==
    \/ \E o \in Operations, rows \in RowSets, s \in CallSessions, ctx \in Contexts :
          Authorize(o, rows, s, ctx)
    \/ \E d \in Definitions : Revoke(d)

DataCalls ==
    \E i \in Instances :
       \/ \E o \in Operations, d \in Definitions : DataRegister(o, d, i)
       \/ \E a \in Derived, parents \in SUBSET Artifacts : DataRegisterDerived(a, parents, i)
       \/ \E a \in Artifacts, success \in BOOLEAN : CleanupAck(a, i, success)

Next ==
    \/ Advance
    \/ \E p \in Packages : Reinstall(p)
    \/ Sweep \/ Answer
    \/ Definers \/ SessionCalls \/ RequestCalls \/ CheckCalls \/ DataCalls
    \/ Tick \/ \E retire \in BOOLEAN : FenceProfiles(retire)
    \/ \E clock \in {0, now} : Restart(clock)

Spec == Init /\ [][Next]_vars
-----------------------------------------------------------------------------
(* Safety.                                                                 *)

(* A ONCE grant backs one receipt ever: once a receipt names it, it has no *)
(* use left, and no second receipt names it (Evaluate's remaining-1 with   *)
(* the receipt's insert in one transaction).                               *)
OnceSpentOnce ==
    \A o \in Operations : \A g \in db.auths[o].grants :
        db.grants[g].mode = "ONCE" =>
            /\ db.grants[g].remaining = 0
            /\ \A p \in Operations \ {o} : g \notin db.auths[p].grants

(* A valid receipt names a grant for each of its rows: Evaluate is all or  *)
(* nothing, and compaction keeps the edges of a valid receipt.             *)
ReceiptCoversRows ==
    \A o \in Operations : db.auths[o].state = "valid" =>
        \A d \in db.auths[o].rows : \E g \in db.auths[o].grants :
            g[2] = d

(* Data a holder may still use rests only on grants nobody has revoked,    *)
(* whichever of revoke, unregister, update, session end, profile switch or *)
(* restart revoked them, and for derived data through all its parents; and *)
(* its session is neither closing nor closed (Invalidate, CloseSession).   *)
ActiveDataIsCovered ==
    \A a \in Artifacts : db.artifacts[a].state = "ACTIVE" =>
        /\ db.artifacts[a].sources # {}
        /\ \A g \in db.artifacts[a].sources : db.grants[g].state = "live"
        /\ db.artifacts[a].session \in Sessions
        /\ Open(db.sessions[db.artifacts[a].session])

(* CLOSED is reported only when every artifact of the session was          *)
(* acknowledged deleted (FinishCleanup), and stays true.                   *)
ClosedIsClean ==
    \A s \in Sessions : db.sessions[s].state = "CLOSED" =>
        \A a \in Artifacts : db.artifacts[a].session = s => db.artifacts[a].state = "DELETED"

(* A usable grant is one for an active definition, with the policy and the *)
(* text the approved request showed still in force: Replay invalidates     *)
(* grants and prompts on every change of a definition.                     *)
LiveGrantIsCurrent ==
    \A g \in GrantIds : db.grants[g].state = "live" =>
        /\ db.defs[g[2]].active
        /\ db.grants[g].policy = db.defs[g[2]].policy
        /\ db.requests[g[1]].versions[g[2]] = <<db.defs[g[2]].policy, db.defs[g[2]].text>>

(* Nothing outlives the session it is for: a usable SESSION grant belongs  *)
(* to a session that can still be active, and a request waits for the user *)
(* only while its session is ACTIVE in the very generation that asked      *)
(* (suspend, resume and close end it).                                     *)
NothingOutlivesItsSession ==
    /\ \A g \in GrantIds : db.grants[g].state = "live" /\ db.grants[g].mode = "SESSION" =>
          db.grants[g].session \in Sessions /\ Open(db.sessions[db.grants[g].session])
    /\ \A r \in Requests : db.requests[r].state = "PENDING" /\ db.requests[r].session # NoSession =>
          LET session == db.sessions[db.requests[r].session]
          IN session.state = "ACTIVE" /\ session.generation = db.requests[r].generation

(* Compaction deletes no grant that a receipt or an artifact names.        *)
NoDanglingSource ==
    \A g \in GrantIds : db.grants[g].state \in {"none", "deleted"} =>
        /\ \A o \in Operations : g \notin db.auths[o].grants
        /\ \A a \in Artifacts : g \notin db.artifacts[a].sources

(* Derived data carries every source of every ancestor and outlives none,  *)
(* so blocking by source or by expiry reaches it.                          *)
DerivedWithinParents ==
    \A a \in Artifacts : \A p \in db.artifacts[a].parents :
        /\ db.artifacts[p].sources \subseteq db.artifacts[a].sources
        /\ db.artifacts[a].expires <= db.artifacts[p].expires
        /\ db.artifacts[p].session = db.artifacts[a].session

(* No deadline lies further ahead than was asked for, though a reboot      *)
(* starts the monotonic clock again: ResetRuntime ends all that has one.   *)
DeadlinesWithinReach ==
    /\ \A g \in GrantIds : db.grants[g].state = "live" /\ db.grants[g].mode = "TIMED" =>
          \E t \in Durations \cup {db.requests[g[1]].ctx.duration} : db.grants[g].expires <= now + t
    /\ \A s \in Sessions : Open(db.sessions[s]) =>
          \E t \in Lifetimes : db.sessions[s].limit <= now + t
    /\ \A r \in Requests : db.requests[r].state = "PENDING" =>
          \E t \in Waits : db.requests[r].deadline <= now + t
    /\ \A a \in Artifacts : db.artifacts[a].state = "ACTIVE" =>
          \E d \in Definitions : db.artifacts[a].expires <= now + RetentionOf[d]

-----------------------------------------------------------------------------
(* What a step may never do.                                               *)

(* A grant is created only for a condition that every screen with the      *)
(* request's current token displayed, in the policy and text in force.     *)
InformedConsent ==
    [][\A g \in GrantIds : db.grants[g].state = "none" /\ db'.grants[g].state = "live" =>
          \A screen \in screens[g[1]] : screen.token = db.requests[g[1]].token =>
              /\ g[2] \in screen.rows
              /\ screen.versions[g[2]] = <<db.defs[g[2]].policy, db.defs[g[2]].text>>]_vars

(* An approval asked for in advance rests, when it is given, on grants that *)
(* last as long as was asked: a session's length, the whole time up to the  *)
(* deadline fixed when it was asked, or without end.                        *)
PreapprovalLastsAsAsked ==
    [][\A r \in Requests :
          LET asked == db'.requests[r]
          IN /\ db.requests[r].state # "ALLOWED" /\ asked.state = "ALLOWED"
             /\ asked.ctx.kind = "PREAPPROVAL" /\ asked.ctx.mode # "ONCE"
             => \A d \in asked.rows : \E x \in Requests :
                   LET grant == db'.grants[x, d]
                   IN /\ grant.state = "live"
                      /\ \/ grant.mode = "PERSISTENT"
                         \/ grant.mode = "SESSION" /\ asked.ctx.mode = "SESSION"
                               /\ grant.session = asked.session
                         \/ grant.mode = "TIMED" /\ asked.ctx.mode = "TIMED"
                               /\ grant.expires >= asked.target]_vars

(* A finished request stays as it ended; only an approval may be retired.  *)
FinishedRequestsStay ==
    [][\A r \in Requests :
          db.requests[r].state \notin {"NONE", "PENDING"} =>
              \/ db'.requests[r].state = db.requests[r].state
              \/ db.requests[r].state = "ALLOWED" /\ db'.requests[r].state = "INVALIDATED"]_vars

(* Nothing withdrawn comes back: not a revoked grant, a used ONCE grant,   *)
(* an invalid receipt, blocked data or a deletion that was acknowledged.   *)
NothingComesBack ==
    [][/\ \A g \in GrantIds :
             /\ db.grants[g].state \in {"revoked", "deleted"} => db'.grants[g].state # "live"
             /\ db.grants[g].state # "none" => db'.grants[g].remaining <= db.grants[g].remaining
       /\ \A o \in Operations : db.auths[o].state = "invalid" => db'.auths[o].state = "invalid"
       /\ \A a \in Artifacts :
             /\ db.artifacts[a].state \notin {"NONE", "ACTIVE"} => db'.artifacts[a].state # "ACTIVE"
             /\ db.artifacts[a].state = "DELETED" => db'.artifacts[a].state = "DELETED"]_vars

(* A session only moves forward, and whoever holds an older generation     *)
(* than the last change between ACTIVE, SUSPENDED and CLOSING is stale.    *)
SessionMovesForward ==
    [][\A s \in Sessions :
          LET old == db.sessions[s]
              new == db'.sessions[s]
          IN /\ old.state = "CLOSED" => new.state = "CLOSED"
             /\ old.state = "CLOSING" => new.state \in {"CLOSING", "CLOSED"}
             /\ new.generation >= old.generation
             /\ Open(old) /\ new.state # old.state => new.generation > old.generation]_vars

(* A decision a client may cache: unversioned, on grants with no count and *)
(* no expiry of their own, in an active session.                           *)
Cacheable(T, clock, installed, rows, s) ==
    LET generation == IF s = NoSession THEN 0 ELSE T.sessions[s].generation
        q == [rows |-> rows, session |-> s, generation |-> generation,
              ctx |-> Unversioned, chosen |-> "", target |-> 0]
    IN /\ Evaluable(T, q, clock, installed)
       /\ CheckConditions(T, q, clock) = "ALLOWED"
       /\ \A d \in rows : \A g \in Newest(T, q, d, clock) :
             T.grants[g].mode \in {"PERSISTENT", "SESSION"}

(* Whatever turns such a decision also bumps the policy revision, so that  *)
(* cached answers are dropped.  A decision may otherwise end only by its   *)
(* session's own deadlines, which bound the ttl, or by a change outside    *)
(* the repository that the next tick replays.                              *)
CachedDecisionLossIsAnnounced ==
    [][now' = now /\ authority' = authority =>
          \A rows \in RowSets, s \in CallSessions :
              Cacheable(db, now, authority, rows, s)
                /\ ~Cacheable(db', now, authority, rows, s)
              => revised']_vars
-----------------------------------------------------------------------------
(* Liveness.                                                               *)

(* The clock runs; the executor finishes the request it has begun and,     *)
(* being first in first out, reaches every tick that was submitted.        *)
FairSpec == Spec /\ WF_vars(Advance) /\ WF_vars(Answer) /\ SF_vars(Tick)

(* A holder retries the deletion of data it was told to delete until it is *)
(* acknowledged, so requests keep arriving.                                *)
Deletes(a) ==
    /\ db.artifacts[a].state \in {"CLEANUP_PENDING", "CLEANUP_FAILED"}
    /\ \E i \in Instances : CleanupAck(a, i, TRUE)

Cooperation == WF_vars(Sweep) /\ \A a \in Artifacts : SF_vars(Deletes(a))

(* No request waits beyond its deadline for a user who never answers.      *)
PendingEnds ==
    \A r \in Requests :
        db.requests[r].state = "PENDING" /\ db.requests[r].deadline <= MaxNow
            ~> db.requests[r].state # "PENDING"

(* However often it is resumed or kept alive by heartbeats, a session ends *)
(* at its limit, and once it ends it is CLOSED as soon as the holders have *)
(* deleted its data.                                                       *)
SessionEnds ==
    Cooperation =>
        \A s \in Sessions :
            Open(db.sessions[s]) /\ db.sessions[s].limit <= MaxNow
                ~> db.sessions[s].state = "CLOSED"
=============================================================================
