--------------------------- MODULE DatabaseProofs ---------------------------
(* The types of the tables, the invariants they satisfy, withdrawal (what  *)
(* the helpers of Database never give back), and what handlers insert.     *)
EXTENDS Database, TLAPS

(* A grant's name is its request and its definition.                       *)
LEMMA GrantNames ==
    \A g \in GrantIds : g[1] \in Requests /\ g[2] \in Definitions
BY Zenon DEF GrantIds

(* The four UPDATE statements keep their tables well typed.                *)
LEMMA RevokedGrantsType ==
    ASSUME NEW T \in DatabaseType, NEW G
    PROVE  RevokedGrants(T, G) \in [GrantIds -> Grant]
BY ZenonT(60) DEF RevokedGrants, DatabaseType, Grant

(* Marking receipts invalid keeps the type of the table.                   *)
LEMMA InvalidAuthsType ==
    ASSUME NEW T \in DatabaseType, NEW O
    PROVE  InvalidAuths(T, O) \in [Operations -> Authorization]
BY ZenonT(60) DEF InvalidAuths, DatabaseType, Authorization

(* Blocking data keeps the type of the table.                              *)
LEMMA BlockedArtifactsType ==
    ASSUME NEW T \in DatabaseType, NEW A
    PROVE  BlockedArtifacts(T, A) \in [Artifacts -> Artifact]
BY DEF BlockedArtifacts, DatabaseType, Artifact

(* Ending requests keeps the type of the table.                            *)
LEMMA FinishedRequestsType ==
    ASSUME NEW T \in DatabaseType, NEW R,
           NEW state \in {"DENIED", "CANCELLED", "EXPIRED", "INVALIDATED"}
    PROVE  FinishedRequests(T, R, state) \in [Requests -> Request]
<1>1. ASSUME NEW q \in Request
      PROVE  [q EXCEPT !.state = state, !.token = 0] \in Request
  BY Zenon DEF Request
<1>2. T.requests \in [Requests -> Request]
  BY Zenon DEF DatabaseType
<1> QED  BY <1>1, <1>2, Zenon DEF FinishedRequests

(* The helpers keep the tables well typed.                                 *)
LEMMA InvalidateType ==
    ASSUME NEW T \in DatabaseType, NEW D
    PROVE  Invalidate(T, D) \in DatabaseType
BY RevokedGrantsType, InvalidAuthsType, BlockedArtifactsType, FinishedRequestsType, Zenon
   DEF Invalidate, DatabaseType

(* Replaying the registry keeps the type of the tables (Replay).           *)
LEMMA ReplayType ==
    ASSUME NEW T \in DatabaseType, NEW registered \in [Definitions -> Definition],
           NEW installed
    PROVE  Replay(T, registered, installed) \in DatabaseType
<1>1. Projection(registered, installed) \in [Definitions -> Definition]
  BY Zenon DEF Projection, Definition, Validator
<1>2. Invalidate(T, ChangedDefinitions(T, registered, installed)) \in DatabaseType
  BY InvalidateType, Zenon
<1> QED  BY <1>1, <1>2, Zenon DEF Replay, DatabaseType

(* Ending clean sessions keeps their type (FinishCleanup).                 *)
LEMMA FinishCleanupType ==
    ASSUME NEW T \in DatabaseType
    PROVE  FinishCleanup(T) \in DatabaseType
<1>1. ASSUME NEW session \in Session
      PROVE  [session EXCEPT !.state = "CLOSED"] \in Session
  BY Zenon DEF Session
<1> QED  BY <1>1, Zenon DEF FinishCleanup, DatabaseType

(* So does marking sessions CLOSING.                                       *)
LEMMA ClosingType ==
    ASSUME NEW session \in Session
    PROVE  [session EXCEPT !.state = "CLOSING", !.generation = @ + 1] \in Session
<1> DEFINE generation == session.generation + 1
<1>1. generation \in Nat
  BY DEF Session
<1> HIDE DEF generation
<1>2. [session EXCEPT !.state = "CLOSING", !.generation = generation] \in Session
  BY <1>1, Zenon DEF Session
<1> QED  BY <1>2, Zenon DEF generation

(* So does closing sessions with all they hold (CloseSession).             *)
LEMMA CloseSessionsType ==
    ASSUME NEW T \in DatabaseType, NEW S
    PROVE  CloseSessions(T, S) \in DatabaseType
BY ClosingType, RevokedGrantsType, BlockedArtifactsType, FinishedRequestsType, Zenon
   DEF CloseSessions, DatabaseType

(* So does suspending sessions (SuspendSession).                           *)
LEMMA SuspendSessionsType ==
    ASSUME NEW T \in DatabaseType, NEW S, NEW resume \in Nat
    PROVE  SuspendSessions(T, S, resume) \in DatabaseType
<1>1. ASSUME NEW session \in Session
      PROVE  [session EXCEPT !.state = "SUSPENDED", !.generation = @ + 1,
                             !.resume = resume] \in Session
  <2> DEFINE generation == session.generation + 1
  <2>1. generation \in Nat
    BY DEF Session
  <2> HIDE DEF generation
  <2>2. [session EXCEPT !.state = "SUSPENDED", !.generation = generation,
                        !.resume = resume] \in Session
    BY <2>1, Zenon DEF Session
  <2> QED  BY <2>2, Zenon DEF generation
<1> QED  BY <1>1, FinishedRequestsType, Zenon DEF SuspendSessions, DatabaseType

(* So does the reset of runtime state at start (ResetRuntime).             *)
LEMMA ResetRuntimeType ==
    ASSUME NEW T \in DatabaseType
    PROVE  ResetRuntime(T) \in DatabaseType
<1> DEFINE U ==
      [T EXCEPT
         !.requests = FinishedRequests(T, Requests, "INVALIDATED"),
         !.sessions = [s \in Sessions |->
             IF Open(T.sessions[s])
             THEN [T.sessions[s] EXCEPT !.state = "CLOSING", !.generation = @ + 1]
             ELSE T.sessions[s]],
         !.grants = RevokedGrants(T,
             {g \in GrantIds : T.grants[g].mode # "PERSISTENT"}),
         !.auths = InvalidAuths(T, Operations),
         !.artifacts = BlockedArtifacts(T, Artifacts)]
<1>1. U \in DatabaseType
  BY ClosingType, RevokedGrantsType, InvalidAuthsType, BlockedArtifactsType,
     FinishedRequestsType, Zenon DEF DatabaseType
<1> QED  BY <1>1, FinishCleanupType, Zenon DEF ResetRuntime

(* So does the sweep of what has expired (Expire).                         *)
LEMMA ExpireType ==
    ASSUME NEW T \in DatabaseType, NEW clock \in Nat, NEW grace \in Nat
    PROVE  Expire(T, clock, grace) \in DatabaseType
<1> DEFINE swept == [T EXCEPT !.requests =
                       FinishedRequests(T, ExpiredRequests(T, clock), "EXPIRED")]
           closed == CloseSessions(swept,
                       ExpiredSessions(T, clock) \ LapsedSessions(T, clock))
           suspended == SuspendSessions(closed, LapsedSessions(T, clock), clock + grace)
           blocked == [suspended EXCEPT !.artifacts =
                         BlockedArtifacts(suspended, ExpiredArtifacts(T, clock))]
<1>1. swept \in DatabaseType
  BY FinishedRequestsType, Zenon DEF DatabaseType
<1> HIDE DEF swept
<1>2. closed \in DatabaseType
  BY <1>1, CloseSessionsType, Zenon
<1> HIDE DEF closed
<1>3. suspended \in DatabaseType
  BY <1>2, SuspendSessionsType
<1> HIDE DEF suspended
<1>4. blocked \in DatabaseType
  BY <1>3, BlockedArtifactsType, Zenon DEF DatabaseType
<1> HIDE DEF blocked
<1>5. FinishCleanup(blocked) \in DatabaseType
  BY <1>4, FinishCleanupType, Zenon
<1> QED  BY <1>5, Zenon DEF Expire, swept, closed, suspended, blocked

(* Compacting receipts keeps the type of the table.                        *)
LEMMA CompactAuthsType ==
    ASSUME NEW T \in DatabaseType
    PROVE  CompactAuths(T) \in DatabaseType
<1>1. ASSUME NEW auth \in Authorization
      PROVE  [auth EXCEPT !.grants = {}, !.rows = {}] \in Authorization
  BY Zenon DEF Authorization
<1> QED  BY <1>1, Zenon DEF CompactAuths, DatabaseType

(* Compacting grants keeps the type of the table.                          *)
LEMMA CompactGrantsType ==
    ASSUME NEW T \in DatabaseType
    PROVE  CompactGrants(T) \in DatabaseType
<1>1. ASSUME NEW grant \in Grant
      PROVE  [grant EXCEPT !.state = "deleted"] \in Grant
  BY Zenon DEF Grant
<1> QED  BY <1>1, Zenon DEF CompactGrants, DatabaseType

(* So does a whole pass of CompactMetadata.                                *)
LEMMA CompactMetadataType ==
    ASSUME NEW T \in DatabaseType, NEW receiptsFirst \in BOOLEAN
    PROVE  CompactMetadata(T, receiptsFirst) \in DatabaseType
BY CompactAuthsType, CompactGrantsType, Zenon DEF CompactMetadata

-----------------------------------------------------------------------------
(* The invariants, as predicates of the tables T.                          *)

(* A request that is not decided has inserted no grant.                    *)
FreshGrants(T) ==
    \A g \in GrantIds : T.requests[g[1]].state \in {"NONE", "PENDING"} => T.grants[g].state = "none"

(* Only rows of the request are recorded as shown.                         *)
ShownRows(T) == \A r \in Requests : T.requests[r].shown \subseteq T.requests[r].rows

(* A ONCE grant is counted, no use or one.                                 *)
OnceCounts(T) == \A g \in GrantIds : T.grants[g].mode = "ONCE" => T.grants[g].remaining \in {0, 1}

(* A SESSION grant backs receipts and data of its own session only.        *)
SessionSources(T) ==
    /\ \A o \in Operations : \A g \in T.auths[o].grants :
          T.grants[g].mode = "SESSION" => T.grants[g].session = T.auths[o].session
    /\ \A a \in Artifacts : \A g \in T.artifacts[a].sources :
          T.grants[g].mode = "SESSION" => T.grants[g].session = T.artifacts[a].session

OnceSpent(T) ==
    \A o \in Operations : \A g \in T.auths[o].grants :
        T.grants[g].mode = "ONCE" =>
            /\ T.grants[g].remaining = 0
            /\ \A p \in Operations \ {o} : g \notin T.auths[p].grants

CoveredRows(T) ==
    \A o \in Operations : T.auths[o].state = "valid" =>
        \A d \in T.auths[o].rows : \E g \in T.auths[o].grants : g[2] = d

(* Parents are rows of the table.                                          *)
ParentsExist(T) ==
    \A a \in Artifacts : \A p \in T.artifacts[a].parents : T.artifacts[p].state # "NONE"

WithinParents(T) ==
    \A a \in Artifacts : \A p \in T.artifacts[a].parents :
        /\ T.artifacts[p].sources \subseteq T.artifacts[a].sources
        /\ T.artifacts[a].expires <= T.artifacts[p].expires
        /\ T.artifacts[p].session = T.artifacts[a].session

(* A session that was never opened has no generation.                      *)
FreshSessions(T) == \A s \in Sessions : T.sessions[s].state = "NONE" => T.sessions[s].generation = 0

(* What holds of the rows as they were inserted, and whatever is withdrawn *)
(* later.                                                                  *)
RowsInv(T) ==
    /\ FreshGrants(T) /\ ShownRows(T) /\ OnceCounts(T) /\ SessionSources(T)
    /\ OnceSpent(T) /\ CoveredRows(T) /\ ParentsExist(T) /\ WithinParents(T)
    /\ FreshSessions(T)

LiveSources(T) ==
    \A a \in Artifacts : T.artifacts[a].state = "ACTIVE" =>
        /\ T.artifacts[a].sources # {}
        /\ \A g \in T.artifacts[a].sources : T.grants[g].state = "live"

DataInOpenSession(T) ==
    \A a \in Artifacts : T.artifacts[a].state = "ACTIVE" =>
        T.artifacts[a].session \in Sessions /\ Open(T.sessions[T.artifacts[a].session])

ClosedClean(T) ==
    \A s \in Sessions : T.sessions[s].state = "CLOSED" =>
        \A a \in Artifacts : T.artifacts[a].session = s => T.artifacts[a].state = "DELETED"

CurrentGrants(T) ==
    \A g \in GrantIds : T.grants[g].state = "live" =>
        /\ T.defs[g[2]].active
        /\ T.grants[g].policy = T.defs[g[2]].policy
        /\ T.requests[g[1]].versions[g[2]] = <<T.defs[g[2]].policy, T.defs[g[2]].text>>

GrantInOpenSession(T) ==
    \A g \in GrantIds : T.grants[g].state = "live" /\ T.grants[g].mode = "SESSION" =>
        T.grants[g].session \in Sessions /\ Open(T.sessions[T.grants[g].session])

PendingInSession(T) ==
    \A r \in Requests : T.requests[r].state = "PENDING" /\ T.requests[r].session # NoSession =>
        /\ T.sessions[T.requests[r].session].state = "ACTIVE"
        /\ T.sessions[T.requests[r].session].generation = T.requests[r].generation

NamedGrantsExist(T) ==
    \A g \in GrantIds : T.grants[g].state \in {"none", "deleted"} =>
        /\ \A o \in Operations : g \notin T.auths[o].grants
        /\ \A a \in Artifacts : g \notin T.artifacts[a].sources

(* What relates the states of rows in different tables.                    *)
StatesInv(T) ==
    /\ LiveSources(T) /\ DataInOpenSession(T) /\ ClosedClean(T) /\ CurrentGrants(T)
    /\ GrantInOpenSession(T) /\ PendingInSession(T) /\ NamedGrantsExist(T)

DatabaseInv(T) == RowsInv(T) /\ StatesInv(T)

-----------------------------------------------------------------------------
(* U has the rows of T, some of them withdrawn: what the code does to rows *)
(* that exist, except for what a user or a client asks.                    *)
GrantWithdrawn(old, new) ==
    /\ new.mode = old.mode /\ new.policy = old.policy /\ new.session = old.session
    /\ new.expires = old.expires /\ new.remaining = old.remaining
    /\ \/ new.state = old.state
       \/ old.state = "live" /\ new.state \in {"revoked", "deleted"}
       \/ old.state = "revoked" /\ new.state = "deleted"

AuthWithdrawn(old, new) ==
    /\ new.session = old.session /\ new.created = old.created
    /\ new.grants \subseteq old.grants
    /\ old.state = "none" <=> new.state = "none"
    /\ new.state = "valid" => old.state = "valid" /\ new.grants = old.grants /\ new.rows = old.rows

ArtifactWithdrawn(old, new) ==
    /\ new.session = old.session /\ new.instance = old.instance
    /\ new.expires = old.expires
    /\ new.sources = old.sources /\ new.parents = old.parents
    /\ \/ new.state = old.state
       \/ old.state = "ACTIVE" /\ new.state = "CLEANUP_PENDING"

RequestWithdrawn(old, new) ==
    /\ new.ctx = old.ctx /\ new.rows = old.rows /\ new.session = old.session
    /\ new.generation = old.generation /\ new.versions = old.versions
    /\ new.shown = old.shown /\ new.rank = old.rank
    /\ new.deadline = old.deadline /\ new.token \in {old.token, 0}
    /\ \/ new.state = old.state
       \/ old.state = "PENDING" /\ new.state \in {"EXPIRED", "INVALIDATED"}
       \/ old.state = "ALLOWED" /\ new.state = "INVALIDATED"

SessionWithdrawn(old, new) ==
    /\ new.generation >= old.generation /\ new.limit = old.limit
    /\ \/ new.state = old.state /\ new.generation = old.generation
       \/ old.state = "ACTIVE" /\ new.state = "SUSPENDED" /\ new.generation > old.generation
       \/ Open(old) /\ new.state \in {"CLOSING", "CLOSED"} /\ new.generation > old.generation
       \/ old.state = "CLOSING" /\ new.state = "CLOSED"

Withdrawn(T, U) ==
    /\ \A g \in GrantIds : GrantWithdrawn(T.grants[g], U.grants[g])
    /\ \A o \in Operations : AuthWithdrawn(T.auths[o], U.auths[o])
    /\ \A a \in Artifacts : ArtifactWithdrawn(T.artifacts[a], U.artifacts[a])
    /\ \A r \in Requests : RequestWithdrawn(T.requests[r], U.requests[r])
    /\ \A s \in Sessions : SessionWithdrawn(T.sessions[s], U.sessions[s])

(* Withdrawing twice is withdrawing.                                       *)
LEMMA WithdrawnTransitive ==
    ASSUME NEW T \in DatabaseType, NEW U \in DatabaseType, NEW V \in DatabaseType,
           Withdrawn(T, U), Withdrawn(U, V)
    PROVE  Withdrawn(T, V)
<1>1. \A g \in GrantIds : GrantWithdrawn(T.grants[g], V.grants[g])
  BY DEF Withdrawn, GrantWithdrawn
<1>2. \A o \in Operations : AuthWithdrawn(T.auths[o], V.auths[o])
  BY Zenon DEF Withdrawn, AuthWithdrawn
<1>3. \A a \in Artifacts : ArtifactWithdrawn(T.artifacts[a], V.artifacts[a])
  <2> SUFFICES ASSUME NEW a \in Artifacts
               PROVE  ArtifactWithdrawn(T.artifacts[a], V.artifacts[a])
    OBVIOUS
  <2>1. /\ ArtifactWithdrawn(T.artifacts[a], U.artifacts[a])
        /\ ArtifactWithdrawn(U.artifacts[a], V.artifacts[a])
    BY Zenon DEF Withdrawn
  <2> QED  BY <2>1, ZenonT(60) DEF ArtifactWithdrawn
<1>4. \A r \in Requests : RequestWithdrawn(T.requests[r], V.requests[r])
  BY DEF Withdrawn, RequestWithdrawn
<1>5. \A s \in Sessions : SessionWithdrawn(T.sessions[s], V.sessions[s])
  BY DEF Withdrawn, SessionWithdrawn, Open, DatabaseType, Session
<1> QED  BY <1>1, <1>2, <1>3, <1>4, <1>5, Zenon DEF Withdrawn

(* Withdrawal keeps what holds of the rows themselves.                     *)
LEMMA WithdrawnKeepsRows ==
    ASSUME NEW T \in DatabaseType, NEW U \in DatabaseType,
           RowsInv(T), Withdrawn(T, U)
    PROVE  RowsInv(U)
<1> USE DEF RowsInv, Withdrawn
<1>1. FreshGrants(U)
  BY GrantNames DEF FreshGrants, GrantWithdrawn, RequestWithdrawn
<1>2. ShownRows(U)
  BY Zenon DEF ShownRows, RequestWithdrawn
<1>3. OnceCounts(U)
  BY Zenon DEF OnceCounts, GrantWithdrawn
<1>4. \A o \in Operations : U.auths[o].grants \subseteq GrantIds /\ T.auths[o].grants \subseteq GrantIds
  BY Zenon DEF DatabaseType, Authorization
<1>5. \A a \in Artifacts : U.artifacts[a].sources \subseteq GrantIds
                            /\ U.artifacts[a].parents \subseteq Artifacts
  BY Zenon DEF DatabaseType, Artifact
<1>6. SessionSources(U)
  BY <1>4, <1>5 DEF SessionSources, GrantWithdrawn, AuthWithdrawn, ArtifactWithdrawn
<1>7. OnceSpent(U)
  BY <1>4 DEF OnceSpent, GrantWithdrawn, AuthWithdrawn
<1>8. CoveredRows(U)
  BY DEF CoveredRows, AuthWithdrawn
<1>9. ParentsExist(U)
  BY <1>5 DEF ParentsExist, ArtifactWithdrawn
<1>10. WithinParents(U)
  BY <1>5 DEF WithinParents, ArtifactWithdrawn
<1>11. FreshSessions(U)
  BY Zenon DEF FreshSessions, SessionWithdrawn, Open
<1> QED  BY <1>1, <1>2, <1>3, <1>6, <1>7, <1>8, <1>9, <1>10, <1>11, Zenon

-----------------------------------------------------------------------------
(* The UPDATE statements, row by row.                                      *)
LEMMA UpdatesWithdraw ==
    ASSUME NEW T \in DatabaseType, NEW G, NEW O, NEW A, NEW R,
           NEW state \in {"EXPIRED", "INVALIDATED"}
    PROVE  /\ \A g \in GrantIds : GrantWithdrawn(T.grants[g], RevokedGrants(T, G)[g])
           /\ \A o \in Operations : AuthWithdrawn(T.auths[o], InvalidAuths(T, O)[o])
           /\ \A a \in Artifacts : ArtifactWithdrawn(T.artifacts[a], BlockedArtifacts(T, A)[a])
           /\ \A r \in Requests : RequestWithdrawn(T.requests[r], FinishedRequests(T, R, state)[r])
<1>1. \A g \in GrantIds : GrantWithdrawn(T.grants[g], RevokedGrants(T, G)[g])
  BY ZenonT(60) DEF RevokedGrants, GrantWithdrawn, DatabaseType, Grant
<1>2. \A o \in Operations : AuthWithdrawn(T.auths[o], InvalidAuths(T, O)[o])
  BY ZenonT(60) DEF InvalidAuths, AuthWithdrawn, DatabaseType, Authorization
<1>3. \A a \in Artifacts : ArtifactWithdrawn(T.artifacts[a], BlockedArtifacts(T, A)[a])
  BY ZenonT(60) DEF BlockedArtifacts, ArtifactWithdrawn, DatabaseType, Artifact
<1>4. \A r \in Requests : RequestWithdrawn(T.requests[r], FinishedRequests(T, R, state)[r])
  <2>1. \A q \in Request : RequestWithdrawn(q, q)
    BY Zenon DEF RequestWithdrawn
  <2>2. ASSUME NEW q \in Request, q.state = "PENDING"
        PROVE  RequestWithdrawn(q, [q EXCEPT !.state = state, !.token = 0])
    BY <2>2, Zenon DEF RequestWithdrawn, Request
  <2>3. \A r \in Requests : T.requests[r] \in Request
    BY Zenon DEF DatabaseType
  <2> QED  BY <2>1, <2>2, <2>3, Zenon DEF FinishedRequests
<1> QED  BY <1>1, <1>2, <1>3, <1>4, Zenon

(* A row left alone counts as withdrawn.                                   *)
LEMMA WithdrawnReflexive ==
    ASSUME NEW T \in DatabaseType
    PROVE  /\ \A g \in GrantIds : GrantWithdrawn(T.grants[g], T.grants[g])
           /\ \A o \in Operations : AuthWithdrawn(T.auths[o], T.auths[o])
           /\ \A a \in Artifacts : ArtifactWithdrawn(T.artifacts[a], T.artifacts[a])
           /\ \A r \in Requests : RequestWithdrawn(T.requests[r], T.requests[r])
           /\ \A s \in Sessions : SessionWithdrawn(T.sessions[s], T.sessions[s])
BY DEF GrantWithdrawn, AuthWithdrawn, ArtifactWithdrawn, RequestWithdrawn,
       SessionWithdrawn, DatabaseType, Session

(* Revoking grants with their receipts, data and requests withdraws.       *)
LEMMA InvalidateWithdraws ==
    ASSUME NEW T \in DatabaseType, NEW D
    PROVE  Withdrawn(T, Invalidate(T, D))
BY UpdatesWithdraw, WithdrawnReflexive, Zenon DEF Withdrawn, Invalidate, DatabaseType

(* Replay invalidates before it stores: the grants that stay live belong   *)
(* to definitions that are stored as they were.                            *)
LEMMA ReplayWithdraws ==
    ASSUME NEW T \in DatabaseType, NEW registered \in [Definitions -> Definition], NEW installed
    PROVE  Withdrawn(T, Replay(T, registered, installed))
<1> DEFINE I == Invalidate(T, ChangedDefinitions(T, registered, installed))
<1>1. I \in DatabaseType /\ Withdrawn(T, I)
  BY InvalidateType, InvalidateWithdraws, Zenon
<1> HIDE DEF I
<1>2. Withdrawn(T, [I EXCEPT !.defs = Projection(registered, installed)])
  BY <1>1, Zenon DEF Withdrawn, DatabaseType
<1> QED  BY <1>2, Zenon DEF Replay, I

(* Ending clean sessions touches no row but theirs.                        *)
LEMMA FinishCleanupWithdraws ==
    ASSUME NEW T \in DatabaseType
    PROVE  Withdrawn(T, FinishCleanup(T))
<1>1. \A s \in Sessions : SessionWithdrawn(T.sessions[s], FinishCleanup(T).sessions[s])
  BY DEF FinishCleanup, SessionWithdrawn, DatabaseType, Session
<1> QED  BY <1>1, WithdrawnReflexive, Zenon DEF Withdrawn, FinishCleanup, DatabaseType

(* Closing sessions withdraws what they hold.                              *)
LEMMA CloseSessionsWithdraws ==
    ASSUME NEW T \in DatabaseType, NEW S
    PROVE  Withdrawn(T, CloseSessions(T, S))
<1>1. \A s \in Sessions : SessionWithdrawn(T.sessions[s], CloseSessions(T, S).sessions[s])
  BY DEF CloseSessions, SessionWithdrawn, Open, DatabaseType, Session
<1> QED  BY <1>1, UpdatesWithdraw, WithdrawnReflexive, Zenon
         DEF Withdrawn, CloseSessions, DatabaseType

(* Suspending sessions withdraws the requests that wait in them.           *)
LEMMA SuspendSessionsWithdraws ==
    ASSUME NEW T \in DatabaseType, NEW S, NEW resume \in Nat
    PROVE  Withdrawn(T, SuspendSessions(T, S, resume))
<1>1. \A s \in Sessions : SessionWithdrawn(T.sessions[s], SuspendSessions(T, S, resume).sessions[s])
  BY DEF SuspendSessions, SessionWithdrawn, DatabaseType, Session
<1> QED  BY <1>1, UpdatesWithdraw, WithdrawnReflexive, Zenon
         DEF Withdrawn, SuspendSessions, DatabaseType

(* Compacting receipts withdraws edges of invalid receipts alone.          *)
LEMMA CompactAuthsWithdraws ==
    ASSUME NEW T \in DatabaseType
    PROVE  Withdrawn(T, CompactAuths(T))
<1>1. \A o \in Operations : AuthWithdrawn(T.auths[o], CompactAuths(T).auths[o])
  BY ZenonT(60) DEF CompactAuths, AuthWithdrawn, DatabaseType, Authorization
<1> QED  BY <1>1, WithdrawnReflexive, Zenon DEF Withdrawn, CompactAuths, DatabaseType

(* Compacting grants deletes rows that no edge names.                      *)
LEMMA CompactGrantsWithdraws ==
    ASSUME NEW T \in DatabaseType
    PROVE  Withdrawn(T, CompactGrants(T))
<1>1. \A g \in GrantIds : GrantWithdrawn(T.grants[g], CompactGrants(T).grants[g])
  BY ZenonT(60) DEF CompactGrants, GrantWithdrawn, DatabaseType, Grant
<1> QED  BY <1>1, WithdrawnReflexive, Zenon DEF Withdrawn, CompactGrants, DatabaseType

-----------------------------------------------------------------------------
(* The helpers keep the invariants.                                        *)

(* Edges lead to rows of the tables.                                       *)
LEMMA EdgesTyped ==
    ASSUME NEW T \in DatabaseType
    PROVE  /\ \A o \in Operations : T.auths[o].grants \subseteq GrantIds
           /\ \A a \in Artifacts : /\ T.artifacts[a].sources \subseteq GrantIds
                                   /\ T.artifacts[a].parents \subseteq Artifacts
BY Zenon DEF DatabaseType, Authorization, Artifact

(* A row of the session table is a session.                                *)
LEMMA SessionsTyped ==
    ASSUME NEW T \in DatabaseType
    PROVE  /\ \A r \in Requests : T.requests[r].session \in Sessions \cup {NoSession}
           /\ \A g \in GrantIds : T.grants[g].session \in Sessions \cup {NoSession}
           /\ \A o \in Operations : T.auths[o].session \in Sessions \cup {NoSession}
           /\ \A a \in Artifacts : T.artifacts[a].session \in Sessions \cup {NoSession}
<1>1. /\ T.requests \in [Requests -> Request] /\ T.grants \in [GrantIds -> Grant]
      /\ T.auths \in [Operations -> Authorization] /\ T.artifacts \in [Artifacts -> Artifact]
  BY Zenon DEF DatabaseType
<1>2. \A request \in Request : request.session \in Sessions \cup {NoSession}
  BY Zenon DEF Request
<1>3. \A grant \in Grant : grant.session \in Sessions \cup {NoSession}
  BY Zenon DEF Grant
<1>4. \A auth \in Authorization : auth.session \in Sessions \cup {NoSession}
  BY Zenon DEF Authorization
<1>5. \A artifact \in Artifact : artifact.session \in Sessions \cup {NoSession}
  BY Zenon DEF Artifact
<1> QED  BY <1>1, <1>2, <1>3, <1>4, <1>5, Zenon

(* A withdrawal that leaves the definitions alone keeps grants current.    *)
LEMMA WithdrawnKeepsCurrent ==
    ASSUME NEW T \in DatabaseType, NEW U \in DatabaseType, Withdrawn(T, U),
           CurrentGrants(T), U.defs = T.defs
    PROVE  CurrentGrants(U)
<1> SUFFICES ASSUME NEW g \in GrantIds, U.grants[g].state = "live"
             PROVE  /\ U.defs[g[2]].active
                    /\ U.grants[g].policy = U.defs[g[2]].policy
                    /\ U.requests[g[1]].versions[g[2]] = <<U.defs[g[2]].policy, U.defs[g[2]].text>>
  BY Zenon DEF CurrentGrants
<1>1. T.grants[g].state = "live" /\ U.grants[g].policy = T.grants[g].policy
  BY Zenon DEF Withdrawn, GrantWithdrawn
<1>2. U.requests[g[1]].versions = T.requests[g[1]].versions
  BY GrantNames, Zenon DEF Withdrawn, RequestWithdrawn
<1> QED  BY <1>1, <1>2, Zenon DEF CurrentGrants

(* CurrentGrants, grant by grant: each live one is current by itself, or   *)
(* as it was before.                                                       *)
Current(T, g) ==
    /\ T.defs[g[2]].active
    /\ T.grants[g].policy = T.defs[g[2]].policy
    /\ T.requests[g[1]].versions[g[2]] = <<T.defs[g[2]].policy, T.defs[g[2]].text>>

(* Current grants, one grant at a time.                                    *)
LEMMA CurrentGrantsEach ==
    ASSUME NEW T, NEW U, CurrentGrants(T), U.defs = T.defs,
           \A g \in GrantIds : U.grants[g].state = "live" =>
              \/ Current(U, g)
              \/ /\ T.grants[g].state = "live" /\ U.grants[g].policy = T.grants[g].policy
                 /\ U.requests[g[1]].versions = T.requests[g[1]].versions
    PROVE  CurrentGrants(U)
<1> SUFFICES ASSUME NEW g \in GrantIds, U.grants[g].state = "live"
             PROVE  Current(U, g)
  BY ZenonT(60) DEF CurrentGrants, Current
<1>1. T.grants[g].state = "live" => Current(T, g)
  BY Zenon DEF CurrentGrants, Current
<1> QED  BY <1>1, Zenon DEF Current

(* FinishedRequests leaves none of its requests waiting.                   *)
LEMMA FinishedRequestsEnd ==
    ASSUME NEW T \in DatabaseType, NEW R, NEW state \in {"EXPIRED", "INVALIDATED"},
           NEW r \in Requests, FinishedRequests(T, R, state)[r].state = "PENDING"
    PROVE  r \notin R /\ FinishedRequests(T, R, state)[r] = T.requests[r]
<1>1. ASSUME NEW q \in Request
      PROVE  [q EXCEPT !.state = state, !.token = 0].state = state
  BY Zenon DEF Request
<1>2. T.requests[r] \in Request
  BY Zenon DEF DatabaseType
<1> QED  BY <1>1, <1>2, Zenon DEF FinishedRequests

-----------------------------------------------------------------------------
(* What no step may undo, as a relation of the tables before and after.    *)
Forward(T, U) ==
    /\ \A g \in GrantIds :
          /\ T.grants[g].state \in {"revoked", "deleted"} => U.grants[g].state # "live"
          /\ T.grants[g].state # "none" => U.grants[g].remaining <= T.grants[g].remaining
    /\ \A o \in Operations : T.auths[o].state = "invalid" => U.auths[o].state = "invalid"
    /\ \A a \in Artifacts :
          /\ T.artifacts[a].state \notin {"NONE", "ACTIVE"} => U.artifacts[a].state # "ACTIVE"
          /\ T.artifacts[a].state = "DELETED" => U.artifacts[a].state = "DELETED"
    /\ \A r \in Requests :
          T.requests[r].state \notin {"NONE", "PENDING"} =>
              \/ U.requests[r].state = T.requests[r].state
              \/ T.requests[r].state = "ALLOWED" /\ U.requests[r].state = "INVALIDATED"
    /\ \A s \in Sessions :
          /\ T.sessions[s].state = "CLOSED" => U.sessions[s].state = "CLOSED"
          /\ T.sessions[s].state = "CLOSING" => U.sessions[s].state \in {"CLOSING", "CLOSED"}
          /\ U.sessions[s].generation >= T.sessions[s].generation
          /\ Open(T.sessions[s]) /\ U.sessions[s].state # T.sessions[s].state
                => U.sessions[s].generation > T.sessions[s].generation

(* Tables that stay good and move forward.                                 *)
Good(T, U) == U \in DatabaseType /\ DatabaseInv(U) /\ Forward(T, U)

(* Counts and generations are numbers.                                     *)
LEMMA NumbersTyped ==
    ASSUME NEW T \in DatabaseType
    PROVE  /\ \A g \in GrantIds : T.grants[g].remaining \in -1..1
           /\ \A s \in Sessions : T.sessions[s].generation \in Nat
           /\ \A g \in GrantIds : T.grants[g].remaining <= T.grants[g].remaining
           /\ \A s \in Sessions : T.sessions[s].generation >= T.sessions[s].generation
<1>1. /\ \A g \in GrantIds : T.grants[g].remaining \in -1..1
      /\ \A s \in Sessions : T.sessions[s].generation \in Nat
  BY Zenon DEF DatabaseType, Grant, Session
<1>2. /\ \A n \in -1..1 : n <= n
      /\ \A n \in Nat : n >= n
  BY SMT
<1> QED  BY <1>1, <1>2, Zenon

(* Withdrawal never undoes.                                                *)
LEMMA WithdrawnForward ==
    ASSUME NEW T \in DatabaseType, NEW U \in DatabaseType, Withdrawn(T, U)
    PROVE  Forward(T, U)
<1>1. \A g \in GrantIds :
          /\ T.grants[g].state \in {"revoked", "deleted"} => U.grants[g].state # "live"
          /\ T.grants[g].state # "none" => U.grants[g].remaining <= T.grants[g].remaining
  BY NumbersTyped DEF Withdrawn, GrantWithdrawn
<1>2. \A o \in Operations : T.auths[o].state = "invalid" => U.auths[o].state = "invalid"
  BY Zenon DEF Withdrawn, AuthWithdrawn, DatabaseType, Authorization
<1>3. \A a \in Artifacts :
          /\ T.artifacts[a].state \notin {"NONE", "ACTIVE"} => U.artifacts[a].state # "ACTIVE"
          /\ T.artifacts[a].state = "DELETED" => U.artifacts[a].state = "DELETED"
  BY Zenon DEF Withdrawn, ArtifactWithdrawn
<1>4. \A r \in Requests :
          T.requests[r].state \notin {"NONE", "PENDING"} =>
              \/ U.requests[r].state = T.requests[r].state
              \/ T.requests[r].state = "ALLOWED" /\ U.requests[r].state = "INVALIDATED"
  BY Zenon DEF Withdrawn, RequestWithdrawn
<1>5. \A s \in Sessions :
          /\ T.sessions[s].state = "CLOSED" => U.sessions[s].state = "CLOSED"
          /\ T.sessions[s].state = "CLOSING" => U.sessions[s].state \in {"CLOSING", "CLOSED"}
          /\ U.sessions[s].generation >= T.sessions[s].generation
          /\ Open(T.sessions[s]) /\ U.sessions[s].state # T.sessions[s].state
                => U.sessions[s].generation > T.sessions[s].generation
  BY ZenonT(60) DEF Withdrawn, SessionWithdrawn, Open
<1> QED  BY <1>1, <1>2, <1>3, <1>4, <1>5, Zenon DEF Forward

-----------------------------------------------------------------------------
(* The helpers of Database keep the invariants.                            *)

(* Invalidation by definition keeps the invariant (Replay).                *)
LEMMA InvalidateKeeps ==
    ASSUME NEW T \in DatabaseType, NEW D, DatabaseInv(T)
    PROVE  DatabaseInv(Invalidate(T, D))
<1> DEFINE U == Invalidate(T, D)
<1>1. U \in DatabaseType /\ Withdrawn(T, U)
  BY InvalidateType, InvalidateWithdraws, Zenon
<1>2. U.sessions = T.sessions /\ U.defs = T.defs
  BY Zenon DEF Invalidate, DatabaseType
<1>3. /\ \A g \in GrantIds : U.grants[g].state = "live" => g[2] \notin D
      /\ \A g \in GrantIds : U.grants[g].state # "live" /\ T.grants[g].state = "live" => g[2] \in D
  BY Zenon DEF Invalidate, RevokedGrants, DatabaseType, Grant
<1>4. \A a \in Artifacts : U.artifacts[a].state = "ACTIVE" =>
          \A g \in T.artifacts[a].sources : g[2] \notin D
  BY Zenon DEF Invalidate, BlockedArtifacts, DatabaseType, Artifact
<1>5. \A g \in GrantIds : U.grants[g].state \in {"none", "deleted"}
                            => T.grants[g].state \in {"none", "deleted"}
  BY ZenonT(60) DEF Invalidate, RevokedGrants, DatabaseType, Grant
<1>0. /\ RowsInv(T)
      /\ LiveSources(T) /\ DataInOpenSession(T) /\ ClosedClean(T) /\ CurrentGrants(T)
      /\ GrantInOpenSession(T) /\ PendingInSession(T) /\ NamedGrantsExist(T)
  BY Zenon DEF DatabaseInv, StatesInv
<1> USE <1>0
<1> USE DEF Withdrawn
<1> HIDE DEF U
<1>6. RowsInv(U)
  BY <1>1, WithdrawnKeepsRows, Zenon
<1>7. LiveSources(U)
  BY <1>1, <1>3, <1>4, EdgesTyped DEF LiveSources, ArtifactWithdrawn
<1>8. DataInOpenSession(U)
  BY <1>1, <1>2, Zenon DEF DataInOpenSession, ArtifactWithdrawn
<1>9. ClosedClean(U)
  BY <1>1, <1>2 DEF ClosedClean, ArtifactWithdrawn
<1>10. CurrentGrants(U)
  BY <1>1, <1>2, WithdrawnKeepsCurrent, Zenon
<1>11. GrantInOpenSession(U)
  BY <1>1, <1>2, ZenonT(60) DEF GrantInOpenSession, GrantWithdrawn
<1>12. PendingInSession(U)
  BY <1>1, <1>2 DEF PendingInSession, RequestWithdrawn
<1>13. NamedGrantsExist(U)
  BY <1>1, <1>5 DEF NamedGrantsExist, AuthWithdrawn, ArtifactWithdrawn
<1> QED  BY <1>6, <1>7, <1>8, <1>9, <1>10, <1>11, <1>12, <1>13, Zenon DEF U, DatabaseInv, StatesInv

(* What reads some tables only is kept by whatever leaves them alone.      *)
LEMMA TablesAlone ==
    ASSUME NEW T, NEW U
    PROVE  /\ U.requests = T.requests /\ ShownRows(T) => ShownRows(U)
           /\ U.sessions = T.sessions /\ FreshSessions(T) => FreshSessions(U)
           /\ U.grants = T.grants /\ OnceCounts(T) => OnceCounts(U)
           /\ U.auths = T.auths /\ CoveredRows(T) => CoveredRows(U)
           /\ U.artifacts = T.artifacts /\ ParentsExist(T) => ParentsExist(U)
           /\ U.artifacts = T.artifacts /\ WithinParents(T) => WithinParents(U)
           /\ U.grants = T.grants /\ U.requests = T.requests /\ FreshGrants(T)
                 => FreshGrants(U)
           /\ U.grants = T.grants /\ U.auths = T.auths /\ OnceSpent(T) => OnceSpent(U)
           /\ U.artifacts = T.artifacts /\ U.sessions = T.sessions /\ DataInOpenSession(T)
                 => DataInOpenSession(U)
           /\ U.artifacts = T.artifacts /\ U.sessions = T.sessions /\ ClosedClean(T)
                 => ClosedClean(U)
           /\ U.requests = T.requests /\ U.sessions = T.sessions /\ PendingInSession(T)
                 => PendingInSession(U)
           /\ U.defs = T.defs /\ U.requests = T.requests /\ U.grants = T.grants /\ CurrentGrants(T)
                 => CurrentGrants(U)
           /\ U.grants = T.grants /\ U.sessions = T.sessions /\ GrantInOpenSession(T)
                 => GrantInOpenSession(U)
           /\ U.grants = T.grants /\ U.auths = T.auths /\ U.artifacts = T.artifacts /\ SessionSources(T)
                 => SessionSources(U)
           /\ U.grants = T.grants /\ U.artifacts = T.artifacts /\ LiveSources(T)
                 => LiveSources(U)
           /\ U.grants = T.grants /\ U.auths = T.auths /\ U.artifacts = T.artifacts /\ NamedGrantsExist(T)
                 => NamedGrantsExist(U)
<1>1. U.requests = T.requests /\ ShownRows(T) => ShownRows(U)
  BY Zenon DEF ShownRows
<1>2. U.sessions = T.sessions /\ FreshSessions(T) => FreshSessions(U)
  BY Zenon DEF FreshSessions
<1>3. U.grants = T.grants /\ OnceCounts(T) => OnceCounts(U)
  BY Zenon DEF OnceCounts
<1>4. U.auths = T.auths /\ CoveredRows(T) => CoveredRows(U)
  BY ZenonT(60) DEF CoveredRows
<1>5. U.artifacts = T.artifacts /\ ParentsExist(T) => ParentsExist(U)
  BY Zenon DEF ParentsExist
<1>6. U.artifacts = T.artifacts /\ WithinParents(T) => WithinParents(U)
  BY Zenon DEF WithinParents
<1>7. U.grants = T.grants /\ U.requests = T.requests /\ FreshGrants(T) => FreshGrants(U)
  BY Zenon DEF FreshGrants
<1>8. U.grants = T.grants /\ U.auths = T.auths /\ OnceSpent(T) => OnceSpent(U)
  BY Zenon DEF OnceSpent
<1>9. U.artifacts = T.artifacts /\ U.sessions = T.sessions /\ DataInOpenSession(T)
         => DataInOpenSession(U)
  BY Zenon DEF DataInOpenSession
<1>10. U.artifacts = T.artifacts /\ U.sessions = T.sessions /\ ClosedClean(T)
         => ClosedClean(U)
  BY Zenon DEF ClosedClean
<1>11. U.requests = T.requests /\ U.sessions = T.sessions /\ PendingInSession(T)
         => PendingInSession(U)
  BY Zenon DEF PendingInSession
<1>12. U.defs = T.defs /\ U.requests = T.requests /\ U.grants = T.grants /\ CurrentGrants(T)
         => CurrentGrants(U)
  BY Zenon DEF CurrentGrants
<1>13. U.grants = T.grants /\ U.sessions = T.sessions /\ GrantInOpenSession(T)
         => GrantInOpenSession(U)
  BY Zenon DEF GrantInOpenSession
<1>14. U.grants = T.grants /\ U.auths = T.auths /\ U.artifacts = T.artifacts /\ SessionSources(T)
         => SessionSources(U)
  BY ZenonT(60) DEF SessionSources
<1>15. U.grants = T.grants /\ U.artifacts = T.artifacts /\ LiveSources(T) => LiveSources(U)
  BY Zenon DEF LiveSources
<1>16. U.grants = T.grants /\ U.auths = T.auths /\ U.artifacts = T.artifacts /\ NamedGrantsExist(T)
         => NamedGrantsExist(U)
  BY Zenon DEF NamedGrantsExist
<1> QED  BY <1>1, <1>2, <1>3, <1>4, <1>5, <1>6, <1>7, <1>8, <1>9, <1>10, <1>11,
         <1>12, <1>13, <1>14, <1>15, <1>16, Zenon

(* What a step leaves alone it does not undo.                              *)
LEMMA ForwardAlone ==
    ASSUME NEW T \in DatabaseType, NEW U
    PROVE  /\ U.grants = T.grants => \A g \in GrantIds :
                /\ T.grants[g].state \in {"revoked", "deleted"} => U.grants[g].state # "live"
                /\ T.grants[g].state # "none" => U.grants[g].remaining <= T.grants[g].remaining
           /\ U.auths = T.auths => \A o \in Operations :
                T.auths[o].state = "invalid" => U.auths[o].state = "invalid"
           /\ U.artifacts = T.artifacts => \A a \in Artifacts :
                /\ T.artifacts[a].state \notin {"NONE", "ACTIVE"} => U.artifacts[a].state # "ACTIVE"
                /\ T.artifacts[a].state = "DELETED" => U.artifacts[a].state = "DELETED"
           /\ U.requests = T.requests => \A r \in Requests :
                T.requests[r].state \notin {"NONE", "PENDING"} =>
                    \/ U.requests[r].state = T.requests[r].state
                    \/ T.requests[r].state = "ALLOWED" /\ U.requests[r].state = "INVALIDATED"
           /\ U.sessions = T.sessions => \A s \in Sessions :
                /\ T.sessions[s].state = "CLOSED" => U.sessions[s].state = "CLOSED"
                /\ T.sessions[s].state = "CLOSING" => U.sessions[s].state \in {"CLOSING", "CLOSED"}
                /\ U.sessions[s].generation >= T.sessions[s].generation
                /\ Open(T.sessions[s]) /\ U.sessions[s].state # T.sessions[s].state
                      => U.sessions[s].generation > T.sessions[s].generation
<1>1. /\ \A g \in GrantIds : T.grants[g].remaining <= T.grants[g].remaining
      /\ \A s \in Sessions : T.sessions[s].generation >= T.sessions[s].generation
  BY NumbersTyped, Zenon
<1>2. "revoked" # "live" /\ "deleted" # "live"
  BY Zenon
<1> QED  BY <1>1, <1>2, ZenonT(60)

(* Replay keeps the invariant: what it changes, it invalidates.            *)
LEMMA ReplayKeeps ==
    ASSUME NEW T \in DatabaseType, NEW registered \in [Definitions -> Definition],
           NEW installed, DatabaseInv(T)
    PROVE  DatabaseInv(Replay(T, registered, installed))
<1> DEFINE D == ChangedDefinitions(T, registered, installed)
           I == Invalidate(T, D)
           U == Replay(T, registered, installed)
<1>1. I \in DatabaseType /\ U \in DatabaseType /\ DatabaseInv(I)
  BY InvalidateType, ReplayType, InvalidateKeeps, Zenon
<1>2. \A g \in GrantIds : I.grants[g].state = "live" => g[2] \notin D
  BY ZenonT(60) DEF Invalidate, RevokedGrants, DatabaseType, Grant
<1>3. I.defs = T.defs
  BY Zenon DEF Invalidate, DatabaseType
<1>4. \A d \in Definitions \ D : Projection(registered, installed)[d] = T.defs[d]
  BY Zenon DEF ChangedDefinitions
<1> HIDE DEF D, I
<1>5. /\ U.defs = Projection(registered, installed)
      /\ U.sessions = I.sessions /\ U.requests = I.requests /\ U.grants = I.grants
      /\ U.auths = I.auths /\ U.artifacts = I.artifacts
  BY <1>1, Zenon DEF Replay, DatabaseType, I, D
<1> HIDE DEF U
<1>6. CurrentGrants(U)
  BY <1>1, <1>2, <1>3, <1>4, <1>5, GrantNames, SMTT(60) DEF CurrentGrants, DatabaseInv, StatesInv
<1>7. RowsInv(U)
  BY <1>1, <1>5, TablesAlone, ZenonT(60) DEF DatabaseInv, RowsInv
<1>8. /\ LiveSources(U) /\ DataInOpenSession(U) /\ ClosedClean(U)
      /\ GrantInOpenSession(U) /\ PendingInSession(U) /\ NamedGrantsExist(U)
  BY <1>1, <1>5 DEF DatabaseInv, StatesInv, LiveSources, DataInOpenSession, ClosedClean,
                    GrantInOpenSession, PendingInSession, NamedGrantsExist
<1> QED  BY <1>6, <1>7, <1>8, Zenon DEF DatabaseInv, StatesInv, U

(* FinishCleanup closes only sessions whose data are deleted.              *)
LEMMA FinishCleanupKeeps ==
    ASSUME NEW T \in DatabaseType, DatabaseInv(T)
    PROVE  DatabaseInv(FinishCleanup(T))
<1> DEFINE U == FinishCleanup(T)
<1>1. U \in DatabaseType /\ Withdrawn(T, U)
  BY FinishCleanupType, FinishCleanupWithdraws, Zenon
<1>2. /\ U.defs = T.defs /\ U.requests = T.requests /\ U.grants = T.grants
      /\ U.auths = T.auths /\ U.artifacts = T.artifacts
  BY Zenon DEF FinishCleanup, DatabaseType
<1>3. \A s \in Sessions :
        \/ U.sessions[s] = T.sessions[s]
        \/ /\ T.sessions[s].state = "CLOSING"
           /\ \A a \in Artifacts : T.artifacts[a].session = s => T.artifacts[a].state = "DELETED"
  BY Zenon DEF FinishCleanup, DatabaseType
<1> HIDE DEF U
<1>4. RowsInv(U)
  BY <1>1, WithdrawnKeepsRows, ZenonT(60) DEF DatabaseInv
<1>5. /\ LiveSources(U) /\ CurrentGrants(U) /\ NamedGrantsExist(U)
  BY <1>2, SMTT(60) DEF DatabaseInv, StatesInv, LiveSources, CurrentGrants, NamedGrantsExist
<1>6. /\ DataInOpenSession(U) /\ GrantInOpenSession(U)
  BY <1>2, <1>3 DEF DatabaseInv, StatesInv, DataInOpenSession, GrantInOpenSession, Open
<1>7. PendingInSession(U)
  BY <1>2, <1>3, SessionsTyped DEF DatabaseInv, StatesInv, PendingInSession
<1>8. ClosedClean(U)
  BY <1>2, <1>3 DEF DatabaseInv, StatesInv, ClosedClean
<1> QED  BY <1>4, <1>5, <1>6, <1>7, <1>8, Zenon DEF DatabaseInv, StatesInv, U

(* Closing sessions takes their grants, data and requests with them.  Data *)
(* that rests on a revoked SESSION grant is data of the same session.      *)
LEMMA CloseSessionsKeeps ==
    ASSUME NEW T \in DatabaseType, NEW S, DatabaseInv(T), NoSession \notin S
    PROVE  DatabaseInv(CloseSessions(T, S))
<1> DEFINE U == CloseSessions(T, S)
<1>1. U \in DatabaseType /\ Withdrawn(T, U)
  BY CloseSessionsType, CloseSessionsWithdraws, Zenon
<1>2. U.defs = T.defs /\ U.auths = T.auths
  BY Zenon DEF CloseSessions, DatabaseType
<1>3. \A s \in Sessions \ S : U.sessions[s] = T.sessions[s]
  BY Zenon DEF CloseSessions, DatabaseType
<1>4. /\ \A g \in GrantIds : U.grants[g].state = "live" /\ U.grants[g].mode = "SESSION"
                               => U.grants[g].session \notin S
      /\ \A g \in GrantIds : U.grants[g].state # "live" /\ T.grants[g].state = "live"
                               => T.grants[g].mode = "SESSION" /\ T.grants[g].session \in S
      /\ \A g \in GrantIds : U.grants[g].state \in {"none", "deleted"}
                               => T.grants[g].state \in {"none", "deleted"}
  BY ZenonT(60) DEF CloseSessions, RevokedGrants, DatabaseType, Grant
<1>5. \A a \in Artifacts : U.artifacts[a].state = "ACTIVE" => U.artifacts[a].session \notin S
  BY ZenonT(60) DEF CloseSessions, BlockedArtifacts, DatabaseType, Artifact
<1>6. \A r \in Requests : U.requests[r].state = "PENDING" => U.requests[r].session \notin S
  BY FinishedRequestsEnd DEF CloseSessions, DatabaseType
<1>7. \A s \in Sessions : U.sessions[s].state = "CLOSED" => T.sessions[s].state = "CLOSED"
  BY DEF CloseSessions, DatabaseType, Session
<1> HIDE DEF U
<1>0. /\ RowsInv(T)
      /\ LiveSources(T) /\ DataInOpenSession(T) /\ ClosedClean(T) /\ CurrentGrants(T)
      /\ GrantInOpenSession(T) /\ PendingInSession(T) /\ NamedGrantsExist(T)
  BY Zenon DEF DatabaseInv, StatesInv
<1> USE <1>0
<1> USE DEF Withdrawn
<1>8. RowsInv(U)
  BY <1>1, WithdrawnKeepsRows, ZenonT(60)
<1>9. LiveSources(U)
  BY <1>1, <1>4, <1>5, EdgesTyped DEF LiveSources, ArtifactWithdrawn, RowsInv, SessionSources
<1>10. DataInOpenSession(U)
  BY <1>1, <1>3, <1>5 DEF DataInOpenSession, ArtifactWithdrawn
<1>11. ClosedClean(U)
  BY <1>1, <1>7 DEF ClosedClean, ArtifactWithdrawn
<1>12. CurrentGrants(U)
  BY <1>1, <1>2, WithdrawnKeepsCurrent, Zenon
<1>13. GrantInOpenSession(U)
  BY <1>1, <1>3, <1>4, SMTT(60) DEF GrantInOpenSession, GrantWithdrawn
<1>14. PendingInSession(U)
  BY <1>1, <1>3, <1>6, SessionsTyped DEF PendingInSession, RequestWithdrawn
<1>15. NamedGrantsExist(U)
  BY <1>1, <1>2, <1>4, ZenonT(60) DEF NamedGrantsExist, ArtifactWithdrawn
<1> QED  BY <1>8, <1>9, <1>10, <1>11, <1>12, <1>13, <1>14, <1>15, Zenon
         DEF U, DatabaseInv, StatesInv

(* Suspension leaves no request waiting in the session.                    *)
LEMMA SuspendSessionsKeeps ==
    ASSUME NEW T \in DatabaseType, NEW S, NEW resume \in Nat, DatabaseInv(T)
    PROVE  DatabaseInv(SuspendSessions(T, S, resume))
<1> DEFINE U == SuspendSessions(T, S, resume)
<1>1. U \in DatabaseType /\ Withdrawn(T, U)
  BY SuspendSessionsType, SuspendSessionsWithdraws, Zenon
<1>2. U.defs = T.defs /\ U.auths = T.auths /\ U.grants = T.grants /\ U.artifacts = T.artifacts
  BY Zenon DEF SuspendSessions, DatabaseType
<1>3. \A s \in Sessions \ S : U.sessions[s] = T.sessions[s]
  BY Zenon DEF SuspendSessions, DatabaseType
<1>4. \A s \in Sessions : /\ Open(T.sessions[s]) => Open(U.sessions[s])
                          /\ U.sessions[s].state = "CLOSED" => T.sessions[s].state = "CLOSED"
  BY ZenonT(60) DEF SuspendSessions, Open, DatabaseType, Session
<1>5. \A r \in Requests : U.requests[r].state = "PENDING" => U.requests[r].session \notin S
  BY FinishedRequestsEnd DEF SuspendSessions, DatabaseType
<1> HIDE DEF U
<1>0. /\ RowsInv(T)
      /\ LiveSources(T) /\ DataInOpenSession(T) /\ ClosedClean(T) /\ CurrentGrants(T)
      /\ GrantInOpenSession(T) /\ PendingInSession(T) /\ NamedGrantsExist(T)
  BY Zenon DEF DatabaseInv, StatesInv
<1> USE <1>0
<1> USE DEF Withdrawn
<1>6. RowsInv(U)
  BY <1>1, WithdrawnKeepsRows, Zenon
<1>7. LiveSources(U) /\ NamedGrantsExist(U)
  BY <1>2, Zenon DEF LiveSources, NamedGrantsExist
<1>8. DataInOpenSession(U) /\ GrantInOpenSession(U) /\ ClosedClean(U)
  BY <1>2, <1>4, ZenonT(60) DEF DataInOpenSession, GrantInOpenSession, ClosedClean
<1>9. CurrentGrants(U)
  BY <1>1, <1>2, WithdrawnKeepsCurrent, ZenonT(60)
<1>10. PendingInSession(U)
  BY <1>1, <1>3, <1>5, SessionsTyped, SMTT(60) DEF PendingInSession, RequestWithdrawn
<1> QED  BY <1>6, <1>7, <1>8, <1>9, <1>10, Zenon DEF U, DatabaseInv, StatesInv

(* A withdrawal that only ends requests keeps the invariants.              *)
LEMMA RequestsEndKeeps ==
    ASSUME NEW T \in DatabaseType, NEW U \in DatabaseType, DatabaseInv(T), Withdrawn(T, U),
           U.defs = T.defs, U.sessions = T.sessions, U.grants = T.grants,
           U.auths = T.auths, U.artifacts = T.artifacts
    PROVE  DatabaseInv(U)
<1>0. /\ RowsInv(T)
      /\ LiveSources(T) /\ DataInOpenSession(T) /\ ClosedClean(T) /\ CurrentGrants(T)
      /\ GrantInOpenSession(T) /\ PendingInSession(T) /\ NamedGrantsExist(T)
  BY Zenon DEF DatabaseInv, StatesInv
<1> USE <1>0
<1>1. RowsInv(U) /\ CurrentGrants(U)
  BY WithdrawnKeepsRows, WithdrawnKeepsCurrent, Zenon
<1>2. /\ LiveSources(U) /\ NamedGrantsExist(U) /\ DataInOpenSession(U)
      /\ GrantInOpenSession(U) /\ ClosedClean(U)
  BY DEF LiveSources, NamedGrantsExist, DataInOpenSession, GrantInOpenSession, ClosedClean
<1>3. PendingInSession(U)
  BY DEF PendingInSession, Withdrawn, RequestWithdrawn
<1> QED  BY <1>1, <1>2, <1>3, Zenon DEF DatabaseInv, StatesInv

(* So does one that only blocks data.                                      *)
LEMMA DataBlockedKeeps ==
    ASSUME NEW T \in DatabaseType, NEW A, DatabaseInv(T)
    PROVE  LET U == [T EXCEPT !.artifacts = BlockedArtifacts(T, A)]
           IN U \in DatabaseType /\ Withdrawn(T, U) /\ DatabaseInv(U)
<1> DEFINE U == [T EXCEPT !.artifacts = BlockedArtifacts(T, A)]
<1>1. U \in DatabaseType
  BY BlockedArtifactsType, Zenon DEF DatabaseType
<1>2. /\ U.defs = T.defs /\ U.sessions = T.sessions /\ U.requests = T.requests
      /\ U.grants = T.grants /\ U.auths = T.auths /\ U.artifacts = BlockedArtifacts(T, A)
  BY Zenon DEF DatabaseType
<1>3. Withdrawn(T, U)
  BY <1>2, UpdatesWithdraw, WithdrawnReflexive, Zenon DEF Withdrawn
<1> HIDE DEF U
<1>0. /\ RowsInv(T)
      /\ LiveSources(T) /\ DataInOpenSession(T) /\ ClosedClean(T) /\ CurrentGrants(T)
      /\ GrantInOpenSession(T) /\ PendingInSession(T) /\ NamedGrantsExist(T)
  BY Zenon DEF DatabaseInv, StatesInv
<1> USE <1>0
<1> USE DEF Withdrawn
<1>4. RowsInv(U) /\ CurrentGrants(U)
  BY <1>1, <1>2, <1>3, WithdrawnKeepsRows, WithdrawnKeepsCurrent, Zenon
<1>5. LiveSources(U) /\ NamedGrantsExist(U)
  BY <1>2, <1>3 DEF LiveSources, NamedGrantsExist, ArtifactWithdrawn
<1>6. DataInOpenSession(U) /\ ClosedClean(U)
  BY <1>2, <1>3 DEF DataInOpenSession, ClosedClean, ArtifactWithdrawn
<1>7. GrantInOpenSession(U) /\ PendingInSession(U)
  BY <1>2, Zenon DEF GrantInOpenSession, PendingInSession
<1> QED  BY <1>1, <1>3, <1>4, <1>5, <1>6, <1>7, Zenon DEF U, DatabaseInv, StatesInv

(* The sweep is a sequence of such steps.                                  *)
LEMMA ExpireKeeps ==
    ASSUME NEW T \in DatabaseType, NEW clock \in Nat, NEW grace \in Nat, DatabaseInv(T)
    PROVE  DatabaseInv(Expire(T, clock, grace)) /\ Withdrawn(T, Expire(T, clock, grace))
<1> DEFINE swept == [T EXCEPT !.requests =
                       FinishedRequests(T, ExpiredRequests(T, clock), "EXPIRED")]
           closed == CloseSessions(swept,
                       ExpiredSessions(T, clock) \ LapsedSessions(T, clock))
           suspended == SuspendSessions(closed, LapsedSessions(T, clock), clock + grace)
           blocked == [suspended EXCEPT !.artifacts =
                         BlockedArtifacts(suspended, ExpiredArtifacts(T, clock))]
<1>1. swept \in DatabaseType
  BY FinishedRequestsType, Zenon DEF DatabaseType
<1>2. /\ swept.defs = T.defs /\ swept.sessions = T.sessions /\ swept.grants = T.grants
      /\ swept.auths = T.auths /\ swept.artifacts = T.artifacts
      /\ swept.requests = FinishedRequests(T, ExpiredRequests(T, clock), "EXPIRED")
  BY Zenon DEF DatabaseType
<1> HIDE DEF swept
<1>3. Withdrawn(T, swept)
  BY <1>2, UpdatesWithdraw, WithdrawnReflexive, Zenon DEF Withdrawn
<1>4. DatabaseInv(swept)
  BY <1>1, <1>2, <1>3, RequestsEndKeeps, Zenon
<1>5. NoSession \notin ExpiredSessions(T, clock) \ LapsedSessions(T, clock)
  BY NamesAssumption, Zenon DEF ExpiredSessions
<1>6. closed \in DatabaseType /\ Withdrawn(swept, closed) /\ DatabaseInv(closed)
  BY <1>1, <1>4, <1>5, CloseSessionsType, CloseSessionsWithdraws, CloseSessionsKeeps, Zenon
<1> HIDE DEF closed
<1>7. suspended \in DatabaseType /\ Withdrawn(closed, suspended) /\ DatabaseInv(suspended)
  BY <1>6, SuspendSessionsType, SuspendSessionsWithdraws, SuspendSessionsKeeps
<1> HIDE DEF suspended
<1>8. blocked \in DatabaseType /\ Withdrawn(suspended, blocked) /\ DatabaseInv(blocked)
  BY <1>7, DataBlockedKeeps, Zenon
<1> HIDE DEF blocked
<1>9. /\ FinishCleanup(blocked) \in DatabaseType
      /\ Withdrawn(blocked, FinishCleanup(blocked)) /\ DatabaseInv(FinishCleanup(blocked))
  BY <1>8, FinishCleanupType, FinishCleanupWithdraws, FinishCleanupKeeps, Zenon
<1>10. Withdrawn(T, FinishCleanup(blocked))
  BY <1>1, <1>3, <1>6, <1>7, <1>8, <1>9, WithdrawnTransitive, Zenon
<1> QED  BY <1>9, <1>10, Zenon DEF Expire, swept, closed, suspended, blocked

(* A restart leaves no data usable, no request waiting, no session open    *)
(* and only PERSISTENT grants live.                                        *)
LEMMA ResetRuntimeKeeps ==
    ASSUME NEW T \in DatabaseType, DatabaseInv(T)
    PROVE  DatabaseInv(ResetRuntime(T)) /\ Withdrawn(T, ResetRuntime(T))
<1> DEFINE U ==
      [T EXCEPT
         !.requests = FinishedRequests(T, Requests, "INVALIDATED"),
         !.sessions = [s \in Sessions |->
             IF Open(T.sessions[s])
             THEN [T.sessions[s] EXCEPT !.state = "CLOSING", !.generation = @ + 1]
             ELSE T.sessions[s]],
         !.grants = RevokedGrants(T,
             {g \in GrantIds : T.grants[g].mode # "PERSISTENT"}),
         !.auths = InvalidAuths(T, Operations),
         !.artifacts = BlockedArtifacts(T, Artifacts)]
<1>1. U \in DatabaseType
  BY ClosingType, RevokedGrantsType, InvalidAuthsType, BlockedArtifactsType,
     FinishedRequestsType, Zenon DEF DatabaseType
<1>2. /\ U.defs = T.defs
      /\ U.requests = FinishedRequests(T, Requests, "INVALIDATED")
      /\ U.grants = RevokedGrants(T, {g \in GrantIds : T.grants[g].mode # "PERSISTENT"})
      /\ U.auths = InvalidAuths(T, Operations)
      /\ U.artifacts = BlockedArtifacts(T, Artifacts)
  BY Zenon DEF DatabaseType
<1>3. \A s \in Sessions : /\ SessionWithdrawn(T.sessions[s], U.sessions[s])
                          /\ U.sessions[s].state = "CLOSED" => T.sessions[s].state = "CLOSED"
  BY DEF SessionWithdrawn, Open, DatabaseType, Session
<1> HIDE DEF U
<1>4. Withdrawn(T, U)
  BY <1>2, <1>3, UpdatesWithdraw, Zenon DEF Withdrawn
<1>5. \A a \in Artifacts : U.artifacts[a].state # "ACTIVE"
  BY <1>2, Zenon DEF BlockedArtifacts, DatabaseType, Artifact
<1>6. \A r \in Requests : U.requests[r].state # "PENDING"
  BY <1>2, FinishedRequestsEnd, ZenonT(60)
<1>7. /\ \A g \in GrantIds : ~(U.grants[g].state = "live" /\ U.grants[g].mode = "SESSION")
      /\ \A g \in GrantIds : U.grants[g].state \in {"none", "deleted"}
                               => T.grants[g].state \in {"none", "deleted"}
  BY <1>2, ZenonT(60) DEF RevokedGrants, DatabaseType, Grant
<1>8. DatabaseInv(U)
  <2>0. /\ RowsInv(T)
        /\ LiveSources(T) /\ DataInOpenSession(T) /\ ClosedClean(T) /\ CurrentGrants(T)
        /\ GrantInOpenSession(T) /\ PendingInSession(T) /\ NamedGrantsExist(T)
    BY Zenon DEF DatabaseInv, StatesInv
  <2> USE <2>0
  <2> USE DEF Withdrawn
  <2>1. RowsInv(U) /\ CurrentGrants(U)
    BY <1>1, <1>2, <1>4, WithdrawnKeepsRows, WithdrawnKeepsCurrent, Zenon
  <2>2. LiveSources(U) /\ DataInOpenSession(U)
    BY <1>5, Zenon DEF LiveSources, DataInOpenSession
  <2>3. GrantInOpenSession(U) /\ PendingInSession(U)
    BY <1>6, <1>7, Zenon DEF GrantInOpenSession, PendingInSession
  <2>4. ClosedClean(U)
    BY <1>3, <1>4, SMTT(60) DEF ClosedClean, ArtifactWithdrawn
  <2>5. NamedGrantsExist(U)
    BY <1>4, <1>7 DEF NamedGrantsExist, AuthWithdrawn, ArtifactWithdrawn
  <2> QED  BY <2>1, <2>2, <2>3, <2>4, <2>5, Zenon DEF DatabaseInv, StatesInv
<1>9. /\ DatabaseInv(FinishCleanup(U)) /\ Withdrawn(U, FinishCleanup(U))
      /\ FinishCleanup(U) \in DatabaseType
  BY <1>1, <1>8, FinishCleanupType, FinishCleanupKeeps, FinishCleanupWithdraws, Zenon
<1>10. Withdrawn(T, FinishCleanup(U))
  BY <1>1, <1>4, <1>9, WithdrawnTransitive, Zenon
<1> QED  BY <1>9, <1>10, Zenon DEF ResetRuntime, U

(* Compaction of receipts drops edges of receipts that are not valid.      *)
LEMMA CompactAuthsKeeps ==
    ASSUME NEW T \in DatabaseType, DatabaseInv(T)
    PROVE  DatabaseInv(CompactAuths(T))
<1> DEFINE U == CompactAuths(T)
<1>1. U \in DatabaseType /\ Withdrawn(T, U)
  BY CompactAuthsType, CompactAuthsWithdraws, Zenon
<1>2. /\ U.defs = T.defs /\ U.sessions = T.sessions /\ U.requests = T.requests
      /\ U.grants = T.grants /\ U.artifacts = T.artifacts
  BY Zenon DEF CompactAuths, DatabaseType
<1> HIDE DEF U
<1>0. /\ RowsInv(T)
      /\ LiveSources(T) /\ DataInOpenSession(T) /\ ClosedClean(T) /\ CurrentGrants(T)
      /\ GrantInOpenSession(T) /\ PendingInSession(T) /\ NamedGrantsExist(T)
  BY Zenon DEF DatabaseInv, StatesInv
<1> USE <1>0
<1>3. RowsInv(U) /\ CurrentGrants(U)
  BY <1>1, <1>2, WithdrawnKeepsRows, WithdrawnKeepsCurrent, Zenon
<1>4. NamedGrantsExist(U)
  BY <1>1, <1>2, ZenonT(60) DEF NamedGrantsExist, Withdrawn, AuthWithdrawn
<1>5. /\ LiveSources(U) /\ DataInOpenSession(U) /\ ClosedClean(U)
      /\ GrantInOpenSession(U) /\ PendingInSession(U)
  BY <1>2 DEF LiveSources, DataInOpenSession, ClosedClean, GrantInOpenSession, PendingInSession
<1> QED  BY <1>3, <1>4, <1>5, Zenon DEF U, DatabaseInv, StatesInv

(* Compaction of grants deletes none that an edge names.                   *)
LEMMA CompactGrantsKeeps ==
    ASSUME NEW T \in DatabaseType, DatabaseInv(T)
    PROVE  DatabaseInv(CompactGrants(T))
<1> DEFINE U == CompactGrants(T)
<1>1. U \in DatabaseType /\ Withdrawn(T, U)
  BY CompactGrantsType, CompactGrantsWithdraws, Zenon
<1>2. /\ U.defs = T.defs /\ U.sessions = T.sessions /\ U.requests = T.requests
      /\ U.auths = T.auths /\ U.artifacts = T.artifacts
  BY Zenon DEF CompactGrants, DatabaseType
<1>3. \A g \in GrantIds :
         \/ U.grants[g] = T.grants[g]
         \/ /\ T.grants[g].state = "revoked"
            /\ \A o \in Operations : g \notin T.auths[o].grants
            /\ \A a \in Artifacts : g \notin T.artifacts[a].sources
  BY Zenon DEF CompactGrants, DatabaseType
<1> HIDE DEF U
<1>0. /\ RowsInv(T)
      /\ LiveSources(T) /\ DataInOpenSession(T) /\ ClosedClean(T) /\ CurrentGrants(T)
      /\ GrantInOpenSession(T) /\ PendingInSession(T) /\ NamedGrantsExist(T)
  BY Zenon DEF DatabaseInv, StatesInv
<1> USE <1>0
<1>4. RowsInv(U) /\ CurrentGrants(U)
  BY <1>1, <1>2, WithdrawnKeepsRows, WithdrawnKeepsCurrent, Zenon
<1>5. NamedGrantsExist(U)
  BY <1>2, <1>3, Zenon DEF NamedGrantsExist
<1>6. LiveSources(U)
  BY <1>2, <1>3, EdgesTyped DEF LiveSources
<1>7. GrantInOpenSession(U)
  BY <1>1, <1>2, ZenonT(60) DEF GrantInOpenSession, Withdrawn, GrantWithdrawn
<1>8. DataInOpenSession(U) /\ ClosedClean(U) /\ PendingInSession(U)
  BY <1>2, ZenonT(60) DEF DataInOpenSession, ClosedClean, PendingInSession
<1> QED  BY <1>4, <1>5, <1>6, <1>7, <1>8, Zenon DEF U, DatabaseInv, StatesInv

(* Compaction keeps the invariant: it deletes no named grant.              *)
LEMMA CompactMetadataKeeps ==
    ASSUME NEW T \in DatabaseType, NEW receiptsFirst \in BOOLEAN, DatabaseInv(T)
    PROVE  /\ DatabaseInv(CompactMetadata(T, receiptsFirst))
           /\ Withdrawn(T, CompactMetadata(T, receiptsFirst))
<1>1. DatabaseInv(CompactMetadata(T, receiptsFirst))
  BY CompactAuthsType, CompactGrantsType, CompactAuthsKeeps, CompactGrantsKeeps, Zenon
     DEF CompactMetadata
<1>2. Withdrawn(T, CompactMetadata(T, receiptsFirst))
  BY CompactAuthsType, CompactGrantsType, CompactAuthsWithdraws, CompactGrantsWithdraws,
     WithdrawnTransitive, Zenon DEF CompactMetadata
<1> QED  BY <1>1, <1>2, Zenon

-----------------------------------------------------------------------------
(* What handlers insert and change keeps the invariants as well.           *)

(* A session is opened, resumed or kept alive.                             *)
LEMMA SessionChangeKeeps ==
    ASSUME NEW T \in DatabaseType, NEW s \in Sessions, NEW session \in Session, DatabaseInv(T),
           session.state = "ACTIVE",
           T.sessions[s].state \in {"NONE", "SUSPENDED", "ACTIVE"},
           T.sessions[s].state = "NONE" => session.generation > 0,
           T.sessions[s].state = "SUSPENDED" => session.generation > T.sessions[s].generation,
           T.sessions[s].state = "ACTIVE" => session.generation = T.sessions[s].generation
    PROVE  Good(T, [T EXCEPT !.sessions[s] = session])
<1> DEFINE U == [T EXCEPT !.sessions[s] = session]
<1>1. U \in DatabaseType
  BY Zenon DEF DatabaseType
<1>2. /\ U.defs = T.defs /\ U.requests = T.requests /\ U.grants = T.grants
      /\ U.auths = T.auths /\ U.artifacts = T.artifacts
      /\ U.sessions = [T.sessions EXCEPT ![s] = session]
      /\ U.sessions[s] = session
      /\ \A t \in Sessions \ {s} : U.sessions[t] = T.sessions[t]
  BY Zenon DEF DatabaseType
<1> HIDE DEF U
<1>0. /\ RowsInv(T)
      /\ LiveSources(T) /\ DataInOpenSession(T) /\ ClosedClean(T) /\ CurrentGrants(T)
      /\ GrantInOpenSession(T) /\ PendingInSession(T) /\ NamedGrantsExist(T)
  BY Zenon DEF DatabaseInv, StatesInv
<1> USE <1>0
<1>3. RowsInv(U) /\ LiveSources(U) /\ NamedGrantsExist(U) /\ CurrentGrants(U)
  <2>1. FreshSessions(U)
    BY <1>2, ZenonT(60) DEF RowsInv, FreshSessions
  <2>2. /\ U.defs = T.defs /\ U.requests = T.requests /\ U.grants = T.grants
        /\ U.auths = T.auths /\ U.artifacts = T.artifacts
    BY <1>2, Zenon
  <2> QED  BY <2>1, <2>2, TablesAlone, ZenonT(60) DEF RowsInv
<1>4. \A t \in Sessions : Open(T.sessions[t]) => Open(U.sessions[t])
  BY <1>2, Zenon DEF Open
<1>6. DataInOpenSession(U) /\ GrantInOpenSession(U)
  <2>1. DataInOpenSession(U)
    <3> SUFFICES ASSUME NEW a \in Artifacts, T.artifacts[a].state = "ACTIVE"
                 PROVE  /\ T.artifacts[a].session \in Sessions
                        /\ Open(U.sessions[T.artifacts[a].session])
      BY <1>2, Zenon DEF DataInOpenSession
    <3>1. T.artifacts[a].session \in Sessions /\ Open(T.sessions[T.artifacts[a].session])
      BY Zenon DEF DataInOpenSession
    <3> QED  BY <1>4, <3>1, Zenon
  <2>2. GrantInOpenSession(U)
    <3> SUFFICES ASSUME NEW g \in GrantIds, T.grants[g].state = "live",
                        T.grants[g].mode = "SESSION"
                 PROVE  T.grants[g].session \in Sessions /\ Open(U.sessions[T.grants[g].session])
      BY <1>2, Zenon DEF GrantInOpenSession
    <3>1. T.grants[g].session \in Sessions /\ Open(T.sessions[T.grants[g].session])
      BY Zenon DEF GrantInOpenSession
    <3> QED  BY <1>4, <3>1, Zenon
  <2> QED  BY <2>1, <2>2, Zenon
<1>7. ClosedClean(U)
  <2> SUFFICES ASSUME NEW t \in Sessions, U.sessions[t].state = "CLOSED",
                      NEW a \in Artifacts, U.artifacts[a].session = t
               PROVE  U.artifacts[a].state = "DELETED"
    BY Zenon DEF ClosedClean
  <2>1. T.sessions[t].state = "CLOSED"
    <3>1. t # s
      BY <1>2, Zenon
    <3> QED  BY <1>2, <3>1, Zenon
  <2>2. U.artifacts[a] = T.artifacts[a]
    BY <1>2, Zenon
  <2> QED  BY <2>1, <2>2, Zenon DEF ClosedClean
<1>8. PendingInSession(U)
  <2> SUFFICES ASSUME NEW r \in Requests, T.requests[r].state = "PENDING",
                      T.requests[r].session # NoSession
               PROVE  /\ U.sessions[T.requests[r].session].state = "ACTIVE"
                      /\ U.sessions[T.requests[r].session].generation = T.requests[r].generation
    BY <1>2, Zenon DEF PendingInSession
  <2>1. /\ T.requests[r].session \in Sessions
        /\ T.sessions[T.requests[r].session].state = "ACTIVE"
        /\ T.sessions[T.requests[r].session].generation = T.requests[r].generation
    BY SessionsTyped, Zenon DEF PendingInSession
  <2>2. CASE T.requests[r].session = s
    BY <1>2, <2>1, <2>2, Zenon
  <2>3. CASE T.requests[r].session # s
    BY <1>2, <2>1, <2>3, Zenon
  <2> QED  BY <2>2, <2>3, Zenon
<1>9. Forward(T, U)
  <2>1. /\ session.generation >= T.sessions[s].generation
        /\ T.sessions[s].state = "SUSPENDED" => session.generation > T.sessions[s].generation
    <3>1. T.sessions[s].state = "NONE" => T.sessions[s].generation = 0
      BY Zenon DEF RowsInv, FreshSessions
    <3>2. session.generation \in Nat /\ T.sessions[s].generation \in Nat
      BY NumbersTyped, Zenon DEF Session
    <3> HIDE <1>0
    <3> QED  BY <3>1, <3>2, SMTT(60)
  <2>2. ASSUME NEW t \in Sessions
        PROVE  /\ T.sessions[t].state = "CLOSED" => U.sessions[t].state = "CLOSED"
               /\ T.sessions[t].state = "CLOSING" => U.sessions[t].state \in {"CLOSING", "CLOSED"}
               /\ U.sessions[t].generation >= T.sessions[t].generation
               /\ Open(T.sessions[t]) /\ U.sessions[t].state # T.sessions[t].state
                     => U.sessions[t].generation > T.sessions[t].generation
    <3>1. CASE t = s
      BY <1>2, <2>1, <3>1, ZenonT(60) DEF Open
    <3>2. CASE t # s
      <4>1. U.sessions[t] = T.sessions[t]
        BY <1>2, <3>2, Zenon
      <4> QED  BY <4>1, NumbersTyped, Zenon
    <3> QED  BY <3>1, <3>2, Zenon
  <2>3. /\ U.requests = T.requests /\ U.grants = T.grants
        /\ U.auths = T.auths /\ U.artifacts = T.artifacts
    BY <1>2, Zenon
  <2> QED  BY <2>2, <2>3, ForwardAlone, ZenonT(60) DEF Forward
<1> QED  BY <1>1, <1>3, <1>6, <1>7, <1>8, <1>9, Zenon
         DEF Good, U, DatabaseInv, StatesInv

(* A request is created, prompted or ended without a grant.                *)
LEMMA RequestChangeKeeps ==
    ASSUME NEW T \in DatabaseType, NEW r \in Requests, NEW request \in Request, DatabaseInv(T),
           T.requests[r].state # "NONE" => request.versions = T.requests[r].versions,
           request.shown \subseteq request.rows,
           request.state # "NONE",
           request.state = "PENDING" => T.requests[r].state \in {"NONE", "PENDING"},
           request.state = "PENDING" /\ request.session # NoSession =>
               /\ T.sessions[request.session].state = "ACTIVE"
               /\ T.sessions[request.session].generation = request.generation,
           \/ T.requests[r].state \in {"NONE", "PENDING"}
           \/ T.requests[r].state = "ALLOWED" /\ request.state = "INVALIDATED"
    PROVE  Good(T, [T EXCEPT !.requests[r] = request])
<1> DEFINE U == [T EXCEPT !.requests[r] = request]
<1>1. U \in DatabaseType
  BY Zenon DEF DatabaseType
<1>2. /\ U.defs = T.defs /\ U.sessions = T.sessions /\ U.grants = T.grants
      /\ U.auths = T.auths /\ U.artifacts = T.artifacts
      /\ U.requests[r] = request
      /\ \A x \in Requests \ {r} : U.requests[x] = T.requests[x]
  BY Zenon DEF DatabaseType
<1> HIDE DEF U
<1>0. /\ FreshGrants(T) /\ ShownRows(T) /\ OnceCounts(T) /\ SessionSources(T) /\ OnceSpent(T)
      /\ CoveredRows(T) /\ ParentsExist(T) /\ WithinParents(T) /\ FreshSessions(T)
      /\ LiveSources(T) /\ DataInOpenSession(T) /\ ClosedClean(T) /\ CurrentGrants(T)
      /\ GrantInOpenSession(T) /\ PendingInSession(T) /\ NamedGrantsExist(T)
  BY Zenon DEF DatabaseInv, StatesInv, RowsInv
<1> USE <1>0
<1>3. FreshGrants(U)
  BY <1>2, GrantNames, ZenonT(60) DEF FreshGrants
<1>4. ShownRows(U)
  BY <1>2, Zenon DEF ShownRows
<1>5. /\ OnceCounts(U) /\ SessionSources(U) /\ OnceSpent(U) /\ CoveredRows(U)
      /\ ParentsExist(U) /\ WithinParents(U) /\ FreshSessions(U)
      /\ LiveSources(U) /\ NamedGrantsExist(U) /\ DataInOpenSession(U)
      /\ GrantInOpenSession(U) /\ ClosedClean(U)
  <2>1. /\ U.defs = T.defs /\ U.sessions = T.sessions /\ U.grants = T.grants
        /\ U.auths = T.auths /\ U.artifacts = T.artifacts
    BY <1>2, Zenon
  <2> QED  BY <2>1, TablesAlone, ZenonT(60)
<1>7. CurrentGrants(U)
  <2>1. \A g \in GrantIds : T.grants[g].state = "live" =>
            U.requests[g[1]].versions = T.requests[g[1]].versions
    BY <1>2, GrantNames, Zenon DEF FreshGrants
  <2> QED  BY <1>2, <2>1, ZenonT(60) DEF CurrentGrants
<1>8. PendingInSession(U)
  BY <1>2, ZenonT(60) DEF PendingInSession
<1>9. Forward(T, U)
  <2>1. ASSUME NEW x \in Requests, T.requests[x].state \notin {"NONE", "PENDING"}
        PROVE  \/ U.requests[x].state = T.requests[x].state
               \/ T.requests[x].state = "ALLOWED" /\ U.requests[x].state = "INVALIDATED"
    <3>1. CASE x = r
      BY <1>2, <2>1, <3>1, Zenon
    <3>2. CASE x # r
      BY <1>2, <3>2, Zenon
    <3> QED  BY <3>1, <3>2, Zenon
  <2>2. /\ U.sessions = T.sessions /\ U.grants = T.grants
        /\ U.auths = T.auths /\ U.artifacts = T.artifacts
    BY <1>2, Zenon
  <2> QED  BY <2>1, <2>2, ForwardAlone, ZenonT(60) DEF Forward
<1> QED  BY <1>1, <1>3, <1>4, <1>5, <1>7, <1>8, <1>9, Zenon
         DEF Good, U, DatabaseInv, StatesInv, RowsInv

(* Data is registered: from live sources, in an open session, within its   *)
(* parents.                                                                *)
LEMMA ArtifactInsertKeeps ==
    ASSUME NEW T \in DatabaseType, NEW a \in Artifacts, NEW artifact \in Artifact, DatabaseInv(T),
           T.artifacts[a].state = "NONE",
           artifact.state = "ACTIVE",
           artifact.session \in Sessions, Open(T.sessions[artifact.session]),
           artifact.sources # {},
           \A g \in artifact.sources :
               /\ T.grants[g].state = "live"
               /\ T.grants[g].mode = "SESSION" => T.grants[g].session = artifact.session,
           \A p \in artifact.parents :
               /\ T.artifacts[p].state # "NONE"
               /\ T.artifacts[p].sources \subseteq artifact.sources
               /\ artifact.expires <= T.artifacts[p].expires
               /\ T.artifacts[p].session = artifact.session
    PROVE  Good(T, [T EXCEPT !.artifacts[a] = artifact])
<1> DEFINE U == [T EXCEPT !.artifacts[a] = artifact]
<1>1. U \in DatabaseType
  BY Zenon DEF DatabaseType
<1>2. /\ U.defs = T.defs /\ U.sessions = T.sessions /\ U.requests = T.requests
      /\ U.grants = T.grants /\ U.auths = T.auths
      /\ U.artifacts[a] = artifact
      /\ \A b \in Artifacts \ {a} : U.artifacts[b] = T.artifacts[b]
  BY Zenon DEF DatabaseType
<1>3. artifact.parents \subseteq Artifacts
  BY Zenon DEF Artifact
<1> HIDE DEF U
<1>0. /\ FreshGrants(T) /\ ShownRows(T) /\ OnceCounts(T) /\ SessionSources(T) /\ OnceSpent(T)
      /\ CoveredRows(T) /\ ParentsExist(T) /\ WithinParents(T) /\ FreshSessions(T)
      /\ LiveSources(T) /\ DataInOpenSession(T) /\ ClosedClean(T) /\ CurrentGrants(T)
      /\ GrantInOpenSession(T) /\ PendingInSession(T) /\ NamedGrantsExist(T)
  BY Zenon DEF DatabaseInv, StatesInv, RowsInv
<1> USE <1>0
<1>4. /\ FreshGrants(U) /\ ShownRows(U) /\ OnceCounts(U) /\ OnceSpent(U) /\ CoveredRows(U)
      /\ FreshSessions(U) /\ CurrentGrants(U) /\ GrantInOpenSession(U) /\ PendingInSession(U)
  <2>1. /\ U.defs = T.defs /\ U.sessions = T.sessions /\ U.requests = T.requests
        /\ U.grants = T.grants /\ U.auths = T.auths
    BY <1>2, Zenon
  <2> QED  BY <2>1, TablesAlone, ZenonT(60)
<1>5. SessionSources(U)
  <2>1. \A o \in Operations : \A g \in U.auths[o].grants :
           U.grants[g].mode = "SESSION" => U.grants[g].session = U.auths[o].session
    <3> SUFFICES ASSUME NEW o \in Operations, NEW g \in U.auths[o].grants,
                        U.grants[g].mode = "SESSION"
                 PROVE  U.grants[g].session = U.auths[o].session
      BY Zenon
    <3>1. U.grants[g] = T.grants[g] /\ U.auths[o] = T.auths[o]
      BY <1>2, Zenon
    <3>2. T.grants[g].mode = "SESSION" => T.grants[g].session = T.auths[o].session
      BY <3>1, ZenonT(60) DEF SessionSources
    <3> QED  BY <3>1, <3>2, ZenonT(60)
  <2>2. ASSUME NEW b \in Artifacts, NEW g \in U.artifacts[b].sources, U.grants[g].mode = "SESSION"
        PROVE  U.grants[g].session = U.artifacts[b].session
    <3>1. CASE b = a
      BY <1>2, <2>2, <3>1, Zenon
    <3>2. CASE b # a
      <4>1. U.grants[g] = T.grants[g] /\ U.artifacts[b] = T.artifacts[b]
        BY <1>2, <3>2, Zenon
      <4>2. T.grants[g].mode = "SESSION" => T.grants[g].session = T.artifacts[b].session
        BY <4>1, Zenon DEF SessionSources
      <4> QED  BY <2>2, <4>1, <4>2, Zenon
    <3> QED  BY <3>1, <3>2, Zenon
  <2> QED  BY <2>1, <2>2, Zenon DEF SessionSources
<1>11. ASSUME NEW b \in Artifacts, NEW p \in U.artifacts[b].parents
       PROVE  U.artifacts[p] = T.artifacts[p] /\ T.artifacts[p].state # "NONE"
  <2>1. p \in Artifacts /\ T.artifacts[p].state # "NONE"
    <3>1. CASE b = a
      BY <1>2, <1>3, <3>1, Zenon
    <3>2. CASE b # a
      <4>1. p \in T.artifacts[b].parents
        BY <1>2, <3>2, Zenon
      <4> QED  BY <4>1, EdgesTyped, Zenon DEF ParentsExist
    <3> QED  BY <3>1, <3>2, Zenon
  <2>2. p # a
    BY <2>1, Zenon
  <2> QED  BY <1>2, <2>1, <2>2, Zenon
<1>6. ParentsExist(U)
  <2> SUFFICES ASSUME NEW b \in Artifacts, NEW p \in U.artifacts[b].parents
               PROVE  U.artifacts[p].state # "NONE"
    BY Zenon DEF ParentsExist
  <2> QED  BY <1>11, Zenon
<1>7. WithinParents(U)
  <2> SUFFICES ASSUME NEW b \in Artifacts, NEW p \in U.artifacts[b].parents
               PROVE  /\ U.artifacts[p].sources \subseteq U.artifacts[b].sources
                      /\ U.artifacts[b].expires <= U.artifacts[p].expires
                      /\ U.artifacts[p].session = U.artifacts[b].session
    BY Zenon DEF WithinParents
  <2>1. U.artifacts[p] = T.artifacts[p]
    BY <1>11, Zenon
  <2>2. CASE b = a
    BY <1>2, <2>1, <2>2, Zenon
  <2>3. CASE b # a
    <3>1. U.artifacts[b] = T.artifacts[b]
      BY <1>2, <2>3, Zenon
    <3>2. /\ T.artifacts[p].sources \subseteq T.artifacts[b].sources
          /\ T.artifacts[b].expires <= T.artifacts[p].expires
          /\ T.artifacts[p].session = T.artifacts[b].session
      BY <3>1, Zenon DEF WithinParents
    <3> QED  BY <2>1, <3>1, <3>2, Zenon
  <2> QED  BY <2>2, <2>3, Zenon
<1>8. LiveSources(U) /\ DataInOpenSession(U)
  <2>1. LiveSources(U)
    <3> SUFFICES ASSUME NEW b \in Artifacts, U.artifacts[b].state = "ACTIVE"
                 PROVE  /\ U.artifacts[b].sources # {}
                        /\ \A g \in U.artifacts[b].sources : U.grants[g].state = "live"
      BY Zenon DEF LiveSources
    <3>3. \A g : U.grants[g] = T.grants[g]
      BY <1>2, Zenon
    <3>1. CASE b = a
      <4>1. U.artifacts[b] = artifact
        BY <1>2, <3>1, Zenon
      <4> QED  BY <3>3, <4>1, Zenon
    <3>2. CASE b # a
      <4>1. U.artifacts[b] = T.artifacts[b]
        BY <1>2, <3>2, Zenon
      <4>2. /\ T.artifacts[b].sources # {}
            /\ \A g \in T.artifacts[b].sources : T.grants[g].state = "live"
        BY <4>1, ZenonT(60) DEF LiveSources
      <4> QED  BY <3>3, <4>1, <4>2, ZenonT(60)
    <3> QED  BY <3>1, <3>2, Zenon
  <2>2. DataInOpenSession(U)
    BY <1>2, ZenonT(60) DEF DataInOpenSession
  <2> QED  BY <2>1, <2>2, Zenon
<1>9. ClosedClean(U)
  <2>1. T.sessions[artifact.session].state # "CLOSED"
    BY Zenon DEF Open
  <2> SUFFICES ASSUME NEW s \in Sessions, U.sessions[s].state = "CLOSED",
                      NEW b \in Artifacts, U.artifacts[b].session = s
               PROVE  U.artifacts[b].state = "DELETED"
    BY Zenon DEF ClosedClean
  <2>4. U.sessions[s] = T.sessions[s]
    BY <1>2, Zenon
  <2>2. b # a
    BY <1>2, <2>1, <2>4, Zenon
  <2>3. U.artifacts[b] = T.artifacts[b]
    BY <1>2, <2>2, Zenon
  <2>5. T.artifacts[b].session = s => T.artifacts[b].state = "DELETED"
    BY <2>4, ZenonT(60) DEF ClosedClean
  <2> QED  BY <2>3, <2>5, ZenonT(60)
<1>10. NamedGrantsExist(U)
  BY <1>2, ZenonT(60) DEF NamedGrantsExist
<1>12. Forward(T, U)
  <2>1. ASSUME NEW b \in Artifacts
        PROVE  /\ T.artifacts[b].state \notin {"NONE", "ACTIVE"} => U.artifacts[b].state # "ACTIVE"
               /\ T.artifacts[b].state = "DELETED" => U.artifacts[b].state = "DELETED"
    <3>1. CASE b = a
      BY <3>1, Zenon
    <3>2. CASE b # a
      BY <1>2, <3>2, Zenon
    <3> QED  BY <3>1, <3>2, Zenon
  <2>2. /\ U.sessions = T.sessions /\ U.requests = T.requests
        /\ U.grants = T.grants /\ U.auths = T.auths
    BY <1>2, Zenon
  <2> QED  BY <2>1, <2>2, ForwardAlone, ZenonT(60) DEF Forward
<1> QED  BY <1>1, <1>4, <1>5, <1>6, <1>7, <1>8, <1>9, <1>10, <1>12, Zenon
         DEF Good, U, DatabaseInv, StatesInv, RowsInv

(* A holder reports a deletion, done or failed.                            *)
LEMMA ArtifactStateKeeps ==
    ASSUME NEW T \in DatabaseType, NEW a \in Artifacts, DatabaseInv(T),
           NEW state \in {"DELETED", "CLEANUP_FAILED"},
           T.artifacts[a].state # "NONE",
           state = "DELETED" \/ T.artifacts[a].state # "DELETED"
    PROVE  Good(T, [T EXCEPT !.artifacts[a].state = state])
<1> DEFINE U == [T EXCEPT !.artifacts[a].state = state]
           artifact == [T.artifacts[a] EXCEPT !.state = state]
<1>1. T.artifacts[a] \in Artifact
  BY Zenon DEF DatabaseType
<1>2. /\ artifact \in Artifact /\ artifact.state = state
      /\ artifact.session = T.artifacts[a].session /\ artifact.expires = T.artifacts[a].expires
      /\ artifact.sources = T.artifacts[a].sources /\ artifact.parents = T.artifacts[a].parents
  BY <1>1, Zenon DEF Artifact
<1> HIDE DEF artifact
<1>3. U = [T EXCEPT !.artifacts = [T.artifacts EXCEPT ![a] = artifact]]
  BY Zenon DEF artifact, DatabaseType
<1> HIDE DEF U
<1>4. U \in DatabaseType
  BY <1>2, <1>3, Zenon DEF DatabaseType
<1>5. /\ U.defs = T.defs /\ U.sessions = T.sessions /\ U.requests = T.requests
      /\ U.grants = T.grants /\ U.auths = T.auths
      /\ U.artifacts[a] = artifact
      /\ \A b \in Artifacts \ {a} : U.artifacts[b] = T.artifacts[b]
  BY <1>3, Zenon DEF DatabaseType
<1>6. \A b \in Artifacts :
         /\ U.artifacts[b].session = T.artifacts[b].session
         /\ U.artifacts[b].expires = T.artifacts[b].expires
         /\ U.artifacts[b].sources = T.artifacts[b].sources
         /\ U.artifacts[b].parents = T.artifacts[b].parents
         /\ U.artifacts[b].state = "ACTIVE" => T.artifacts[b].state = "ACTIVE"
         /\ T.artifacts[b].state # "NONE" => U.artifacts[b].state # "NONE"
         /\ T.artifacts[b].state = "DELETED" => U.artifacts[b].state = "DELETED"
  BY <1>2, <1>5, Zenon
<1>0. /\ FreshGrants(T) /\ ShownRows(T) /\ OnceCounts(T) /\ SessionSources(T) /\ OnceSpent(T)
      /\ CoveredRows(T) /\ ParentsExist(T) /\ WithinParents(T) /\ FreshSessions(T)
      /\ LiveSources(T) /\ DataInOpenSession(T) /\ ClosedClean(T) /\ CurrentGrants(T)
      /\ GrantInOpenSession(T) /\ PendingInSession(T) /\ NamedGrantsExist(T)
  BY Zenon DEF DatabaseInv, StatesInv, RowsInv
<1> USE <1>0
<1>7. /\ FreshGrants(U) /\ ShownRows(U) /\ OnceCounts(U) /\ OnceSpent(U) /\ CoveredRows(U)
      /\ FreshSessions(U) /\ CurrentGrants(U) /\ GrantInOpenSession(U) /\ PendingInSession(U)
  <2>1. /\ U.defs = T.defs /\ U.sessions = T.sessions /\ U.requests = T.requests
        /\ U.grants = T.grants /\ U.auths = T.auths
    BY <1>5, Zenon
  <2> QED  BY <2>1, TablesAlone, ZenonT(60)
<1>8. SessionSources(U) /\ ParentsExist(U) /\ WithinParents(U)
  <2>1. SessionSources(U)
    <3>1. \A o \in Operations : \A g \in U.auths[o].grants :
             U.grants[g].mode = "SESSION" => U.grants[g].session = U.auths[o].session
      <4> SUFFICES ASSUME NEW o \in Operations, NEW g \in U.auths[o].grants,
                          U.grants[g].mode = "SESSION"
                   PROVE  U.grants[g].session = U.auths[o].session
        BY Zenon
      <4>1. U.grants[g] = T.grants[g] /\ U.auths[o] = T.auths[o]
        BY <1>5, Zenon
      <4>2. T.grants[g].mode = "SESSION" => T.grants[g].session = T.auths[o].session
        BY <4>1, ZenonT(60) DEF SessionSources
      <4> QED  BY <4>1, <4>2, ZenonT(60)
    <3>2. ASSUME NEW b \in Artifacts, NEW g \in U.artifacts[b].sources,
                 U.grants[g].mode = "SESSION"
          PROVE  U.grants[g].session = U.artifacts[b].session
      <4>1. /\ U.grants = T.grants /\ g \in T.artifacts[b].sources
            /\ U.artifacts[b].session = T.artifacts[b].session
        BY <1>5, <1>6, Zenon
      <4> QED  BY <3>2, <4>1, Zenon DEF SessionSources
    <3> QED  BY <3>1, <3>2, Zenon DEF SessionSources
  <2>2. ParentsExist(U)
    BY <1>5, <1>6, EdgesTyped, ZenonT(60) DEF ParentsExist
  <2>3. WithinParents(U)
    <3> SUFFICES ASSUME NEW b \in Artifacts, NEW p \in U.artifacts[b].parents
                 PROVE  /\ U.artifacts[p].sources \subseteq U.artifacts[b].sources
                        /\ U.artifacts[b].expires <= U.artifacts[p].expires
                        /\ U.artifacts[p].session = U.artifacts[b].session
      BY Zenon DEF WithinParents
    <3>1. p \in T.artifacts[b].parents /\ p \in Artifacts
      BY <1>6, EdgesTyped, Zenon
    <3>2. /\ T.artifacts[p].sources \subseteq T.artifacts[b].sources
          /\ T.artifacts[b].expires <= T.artifacts[p].expires
          /\ T.artifacts[p].session = T.artifacts[b].session
      BY <3>1, Zenon DEF WithinParents
    <3>3. /\ U.artifacts[b].session = T.artifacts[b].session
          /\ U.artifacts[b].expires = T.artifacts[b].expires
          /\ U.artifacts[b].sources = T.artifacts[b].sources
      BY <1>6, Zenon
    <3>4. /\ U.artifacts[p].session = T.artifacts[p].session
          /\ U.artifacts[p].expires = T.artifacts[p].expires
          /\ U.artifacts[p].sources = T.artifacts[p].sources
      BY <1>6, <3>1, Zenon
    <3> QED  BY <3>2, <3>3, <3>4, Zenon
  <2> QED  BY <2>1, <2>2, <2>3, Zenon
<1>9. LiveSources(U) /\ DataInOpenSession(U) /\ ClosedClean(U) /\ NamedGrantsExist(U)
  <2>1. LiveSources(U)
    <3> SUFFICES ASSUME NEW b \in Artifacts, U.artifacts[b].state = "ACTIVE"
                 PROVE  /\ U.artifacts[b].sources # {}
                        /\ \A g \in U.artifacts[b].sources : U.grants[g].state = "live"
      BY Zenon DEF LiveSources
    <3>2. \A g : U.grants[g] = T.grants[g]
      BY <1>5, Zenon
    <3>1. T.artifacts[b].state = "ACTIVE" /\ U.artifacts[b].sources = T.artifacts[b].sources
      BY <1>6, Zenon
    <3> QED  BY <3>1, <3>2, Zenon DEF LiveSources
  <2>2. DataInOpenSession(U)
    BY <1>5, <1>6, ZenonT(60) DEF DataInOpenSession
  <2>3. ClosedClean(U)
    <3> SUFFICES ASSUME NEW s \in Sessions, T.sessions[s].state = "CLOSED",
                        NEW b \in Artifacts, U.artifacts[b].session = s
                 PROVE  U.artifacts[b].state = "DELETED"
      BY <1>5, Zenon DEF ClosedClean
    <3>1. T.artifacts[b].state = "DELETED"
      BY <1>6, Zenon DEF ClosedClean
    <3> QED  BY <1>6, <3>1, Zenon
  <2>4. NamedGrantsExist(U)
    BY <1>5, <1>6, ZenonT(60) DEF NamedGrantsExist
  <2> QED  BY <2>1, <2>2, <2>3, <2>4, Zenon
<1>11. Forward(T, U)
  <2>1. U.artifacts[a].state = state
    BY <1>2, <1>5, Zenon
  <2>2. ASSUME NEW b \in Artifacts
        PROVE  /\ T.artifacts[b].state \notin {"NONE", "ACTIVE"} => U.artifacts[b].state # "ACTIVE"
               /\ T.artifacts[b].state = "DELETED" => U.artifacts[b].state = "DELETED"
    <3>1. T.artifacts[b].state = "DELETED" => U.artifacts[b].state = "DELETED"
      BY <1>6, Zenon
    <3>2. CASE b = a
      BY <2>1, <3>1, <3>2, Zenon
    <3>3. CASE b # a
      BY <1>5, <3>3, Zenon
    <3> QED  BY <3>1, <3>2, <3>3, Zenon
  <2>3. /\ U.sessions = T.sessions /\ U.requests = T.requests
        /\ U.grants = T.grants /\ U.auths = T.auths
    BY <1>5, Zenon
  <2> QED  BY <2>2, <2>3, ForwardAlone, ZenonT(60) DEF Forward
<1> QED  BY <1>4, <1>7, <1>8, <1>9, <1>11, Zenon DEF Good, U, DatabaseInv, StatesInv, RowsInv

(* The user revokes: the grants, and what rests on them.                   *)
LEMMA RevokeKeeps ==
    ASSUME NEW T \in DatabaseType, NEW G, NEW O, NEW A, DatabaseInv(T),
           \A a \in Artifacts :
               (\E g \in T.artifacts[a].sources : RevokedGrants(T, G)[g].state = "revoked") => a \in A
    PROVE  LET U == [T EXCEPT !.grants = RevokedGrants(T, G),
                              !.auths = InvalidAuths(T, O),
                              !.artifacts = BlockedArtifacts(T, A)]
           IN Good(T, U) /\ Withdrawn(T, U)
<1> DEFINE U == [T EXCEPT !.grants = RevokedGrants(T, G),
                          !.auths = InvalidAuths(T, O),
                          !.artifacts = BlockedArtifacts(T, A)]
<1>1. U \in DatabaseType
  BY RevokedGrantsType, InvalidAuthsType, BlockedArtifactsType, Zenon DEF DatabaseType
<1>2. /\ U.defs = T.defs /\ U.sessions = T.sessions /\ U.requests = T.requests
      /\ U.grants = RevokedGrants(T, G) /\ U.auths = InvalidAuths(T, O)
      /\ U.artifacts = BlockedArtifacts(T, A)
  BY Zenon DEF DatabaseType
<1> HIDE DEF U
<1>3. Withdrawn(T, U)
  BY <1>2, UpdatesWithdraw, WithdrawnReflexive, Zenon DEF Withdrawn
<1>4. \A g \in GrantIds :
         /\ U.grants[g].state # "live" /\ T.grants[g].state = "live" => U.grants[g].state = "revoked"
         /\ U.grants[g].state \in {"none", "deleted"} => T.grants[g].state \in {"none", "deleted"}
  BY <1>2, ZenonT(60) DEF RevokedGrants, DatabaseType, Grant
<1>5. \A a \in Artifacts : U.artifacts[a].state = "ACTIVE" => a \notin A
  BY <1>2, Zenon DEF BlockedArtifacts, DatabaseType, Artifact
<1>0. /\ RowsInv(T)
      /\ LiveSources(T) /\ DataInOpenSession(T) /\ ClosedClean(T) /\ CurrentGrants(T)
      /\ GrantInOpenSession(T) /\ PendingInSession(T) /\ NamedGrantsExist(T)
  BY Zenon DEF DatabaseInv, StatesInv
<1> USE <1>0
<1>6. RowsInv(U) /\ CurrentGrants(U)
  BY <1>1, <1>2, <1>3, WithdrawnKeepsRows, WithdrawnKeepsCurrent, Zenon
<1>7. LiveSources(U)
  <2>1. \A a \in Artifacts : U.artifacts[a].state = "ACTIVE" =>
           /\ T.artifacts[a].state = "ACTIVE" /\ U.artifacts[a].sources = T.artifacts[a].sources
           /\ \A g \in T.artifacts[a].sources : U.grants[g].state # "revoked"
    BY <1>2, <1>3, <1>5, ZenonT(60) DEF Withdrawn, ArtifactWithdrawn
  <2> QED  BY <1>4, <2>1, EdgesTyped, ZenonT(60) DEF LiveSources
<1>8. DataInOpenSession(U) /\ ClosedClean(U)
  <2>1. DataInOpenSession(U)
    BY <1>2, <1>3, ZenonT(60) DEF DataInOpenSession, Withdrawn, ArtifactWithdrawn
  <2>2. ClosedClean(U)
    <3> SUFFICES ASSUME NEW s \in Sessions, T.sessions[s].state = "CLOSED",
                        NEW b \in Artifacts, U.artifacts[b].session = s
                 PROVE  U.artifacts[b].state = "DELETED"
      BY <1>2, Zenon DEF ClosedClean
    <3>1. /\ U.artifacts[b].session = T.artifacts[b].session
          /\ T.artifacts[b].state = "DELETED" => U.artifacts[b].state = "DELETED"
      BY <1>3, Zenon DEF Withdrawn, ArtifactWithdrawn
    <3> QED  BY <3>1, Zenon DEF ClosedClean
  <2> QED  BY <2>1, <2>2, Zenon
<1>9. GrantInOpenSession(U)
  BY <1>2, <1>3, ZenonT(60) DEF GrantInOpenSession, Withdrawn, GrantWithdrawn
<1>10. PendingInSession(U)
  BY <1>2, Zenon DEF PendingInSession
<1>11. NamedGrantsExist(U)
  <2> SUFFICES ASSUME NEW g \in GrantIds, U.grants[g].state \in {"none", "deleted"}
               PROVE  /\ \A o \in Operations : g \notin U.auths[o].grants
                      /\ \A a \in Artifacts : g \notin U.artifacts[a].sources
    BY Zenon DEF NamedGrantsExist
  <2>1. /\ \A o \in Operations : g \notin T.auths[o].grants
        /\ \A a \in Artifacts : g \notin T.artifacts[a].sources
    BY <1>4, Zenon DEF NamedGrantsExist
  <2>2. \A o \in Operations : U.auths[o].grants \subseteq T.auths[o].grants
    BY <1>3, Zenon DEF Withdrawn, AuthWithdrawn
  <2>3. \A a \in Artifacts : U.artifacts[a].sources \subseteq T.artifacts[a].sources
    BY <1>3, Zenon DEF Withdrawn, ArtifactWithdrawn
  <2> QED  BY <2>1, <2>2, <2>3, Zenon
<1>12. Forward(T, U)
  BY <1>1, <1>3, WithdrawnForward, Zenon
<1> QED  BY <1>1, <1>3, <1>6, <1>7, <1>8, <1>9, <1>10, <1>11, <1>12, Zenon
         DEF Good, U, DatabaseInv, StatesInv

(* The grants of an answer to request r: current, with one use if ONCE, of *)
(* an open session if SESSION.                                             *)
Answered(T, r, grants) ==
    \A g \in GrantIds :
       \/ grants[g] = T.grants[g]
       \/ /\ g[1] = r
          /\ grants[g].state = "live"
          /\ T.defs[g[2]].active /\ grants[g].policy = T.defs[g[2]].policy
          /\ T.requests[r].versions[g[2]] = <<T.defs[g[2]].policy, T.defs[g[2]].text>>
          /\ grants[g].mode = "ONCE" => grants[g].remaining = 1
          /\ grants[g].mode = "SESSION" =>
                grants[g].session \in Sessions /\ Open(T.sessions[grants[g].session])

(* A request is decided and the grants of the answer are inserted.  Before *)
(* the answer it had none, so no edge names what is overwritten.           *)
LEMMA GrantInsertKeeps ==
    ASSUME NEW T \in DatabaseType, NEW r \in Requests, NEW request \in Request,
           NEW grants \in [GrantIds -> Grant], DatabaseInv(T), Answered(T, r, grants),
           T.requests[r].state = "PENDING",
           request.state \notin {"NONE", "PENDING"},
           request.versions = T.requests[r].versions,
           request.shown = {}
    PROVE  Good(T, [T EXCEPT !.grants = grants, !.requests[r] = request])
<1> DEFINE U == [T EXCEPT !.grants = grants, !.requests[r] = request]
<1>1. U \in DatabaseType
  BY Zenon DEF DatabaseType
<1>2. /\ U.defs = T.defs /\ U.sessions = T.sessions /\ U.grants = grants
      /\ U.auths = T.auths /\ U.artifacts = T.artifacts
      /\ U.requests[r] = request
      /\ \A x \in Requests \ {r} : U.requests[x] = T.requests[x]
  BY Zenon DEF DatabaseType
<1> HIDE DEF U
<1>0. /\ FreshGrants(T) /\ ShownRows(T) /\ OnceCounts(T) /\ SessionSources(T) /\ OnceSpent(T)
      /\ CoveredRows(T) /\ ParentsExist(T) /\ WithinParents(T) /\ FreshSessions(T)
      /\ LiveSources(T) /\ DataInOpenSession(T) /\ ClosedClean(T) /\ CurrentGrants(T)
      /\ GrantInOpenSession(T) /\ PendingInSession(T) /\ NamedGrantsExist(T)
  BY Zenon DEF DatabaseInv, StatesInv, RowsInv
<1> USE <1>0
<1>3. \A g \in GrantIds : T.grants[g].state # "none" => grants[g] = T.grants[g] /\ g[1] # r
  BY ZenonT(60) DEF FreshGrants, Answered
<1>4. /\ \A o \in Operations : \A g \in T.auths[o].grants : grants[g] = T.grants[g]
      /\ \A a \in Artifacts : \A g \in T.artifacts[a].sources : grants[g] = T.grants[g]
  BY <1>3, EdgesTyped, Zenon DEF NamedGrantsExist
<1>5. FreshGrants(U)
  <2> SUFFICES ASSUME NEW g \in GrantIds, U.requests[g[1]].state \in {"NONE", "PENDING"}
               PROVE  grants[g].state = "none"
    BY <1>2, Zenon DEF FreshGrants
  <2>1. g[1] # r /\ g[1] \in Requests
    BY <1>2, GrantNames, Zenon
  <2>2. T.grants[g].state = "none"
    BY <1>2, <2>1, Zenon DEF FreshGrants
  <2>3. grants[g] = T.grants[g]
    BY <2>1, Zenon DEF Answered
  <2> QED  BY <2>2, <2>3, Zenon
<1>6. ShownRows(U)
  BY <1>2, ZenonT(60) DEF ShownRows
<1>7. OnceCounts(U)
  BY <1>2, ZenonT(60) DEF OnceCounts, Answered
<1>8. SessionSources(U) /\ OnceSpent(U)
  <2>1. SessionSources(U)
    <3>1. ASSUME NEW o \in Operations, NEW g \in T.auths[o].grants, grants[g].mode = "SESSION"
          PROVE  grants[g].session = T.auths[o].session
      <4>1. grants[g] = T.grants[g]
        BY <1>4, Zenon
      <4> QED  BY <3>1, <4>1, Zenon DEF SessionSources
    <3>2. ASSUME NEW a \in Artifacts, NEW g \in T.artifacts[a].sources,
                 grants[g].mode = "SESSION"
          PROVE  grants[g].session = T.artifacts[a].session
      <4>1. grants[g] = T.grants[g]
        BY <1>4, Zenon
      <4> QED  BY <3>2, <4>1, Zenon DEF SessionSources
    <3>3. U.grants = grants /\ U.auths = T.auths /\ U.artifacts = T.artifacts
      BY <1>2, Zenon
    <3>4. \A o \in Operations : \A g \in U.auths[o].grants :
             U.grants[g].mode = "SESSION" => U.grants[g].session = U.auths[o].session
      BY <3>1, <3>3, Zenon
    <3>5. \A a \in Artifacts : \A g \in U.artifacts[a].sources :
             U.grants[g].mode = "SESSION" => U.grants[g].session = U.artifacts[a].session
      BY <3>2, <3>3, Zenon
    <3> QED  BY <3>4, <3>5, Zenon DEF SessionSources
  <2>2. OnceSpent(U)
    <3>1. ASSUME NEW o \in Operations, NEW g \in T.auths[o].grants, grants[g].mode = "ONCE"
          PROVE  /\ grants[g].remaining = 0
                 /\ \A p \in Operations \ {o} : g \notin T.auths[p].grants
      <4>1. grants[g] = T.grants[g]
        BY <1>4, Zenon
      <4> QED  BY <3>1, <4>1, Zenon DEF OnceSpent
    <3> QED  BY <1>2, <3>1, ZenonT(60) DEF OnceSpent
  <2> QED  BY <2>1, <2>2, Zenon
<1>9. /\ CoveredRows(U) /\ ParentsExist(U) /\ WithinParents(U) /\ FreshSessions(U)
      /\ DataInOpenSession(U) /\ ClosedClean(U)
  <2>1. U.sessions = T.sessions /\ U.auths = T.auths /\ U.artifacts = T.artifacts
    BY <1>2, Zenon
  <2> QED  BY <2>1, TablesAlone, ZenonT(60)
<1>10. LiveSources(U)
  <2> SUFFICES ASSUME NEW a \in Artifacts, T.artifacts[a].state = "ACTIVE"
               PROVE  /\ T.artifacts[a].sources # {}
                      /\ \A g \in T.artifacts[a].sources : grants[g].state = "live"
    <3>1. U.grants = grants /\ U.artifacts = T.artifacts
      BY <1>2, Zenon
    <3> QED  BY <3>1, Zenon DEF LiveSources
  <2> QED  BY <1>4, ZenonT(60) DEF LiveSources
<1>11. CurrentGrants(U)
  <2>1. \A g \in GrantIds : grants[g].state = "live" =>
            U.requests[g[1]].versions = T.requests[g[1]].versions
    BY <1>2, GrantNames, ZenonT(60) DEF Answered
  <2>2. ASSUME NEW g \in GrantIds, grants[g] # T.grants[g]
        PROVE  Current(U, g)
    <3>1. /\ g[1] = r /\ T.defs[g[2]].active /\ grants[g].policy = T.defs[g[2]].policy
          /\ T.requests[r].versions[g[2]] = <<T.defs[g[2]].policy, T.defs[g[2]].text>>
      BY <2>2, ZenonT(60) DEF Answered
    <3>2. U.requests[g[1]].versions = T.requests[r].versions
      BY <1>2, <3>1, Zenon
    <3> QED  BY <1>2, <3>1, <3>2, ZenonT(60) DEF Current
  <2> QED  BY <1>2, <2>1, <2>2, CurrentGrantsEach, ZenonT(60)
<1>12. GrantInOpenSession(U)
  <2> SUFFICES ASSUME NEW g \in GrantIds, grants[g].state = "live", grants[g].mode = "SESSION"
               PROVE  grants[g].session \in Sessions /\ Open(T.sessions[grants[g].session])
    BY <1>2, Zenon DEF GrantInOpenSession
  <2>1. \/ grants[g] = T.grants[g]
        \/ grants[g].session \in Sessions /\ Open(T.sessions[grants[g].session])
    BY Zenon DEF Answered
  <2>2. T.grants[g].state = "live" /\ T.grants[g].mode = "SESSION" =>
           T.grants[g].session \in Sessions /\ Open(T.sessions[T.grants[g].session])
    BY Zenon DEF GrantInOpenSession
  <2> QED  BY <2>1, <2>2, Zenon
<1>13. PendingInSession(U)
  BY <1>2, ZenonT(60) DEF PendingInSession
<1>14. NamedGrantsExist(U)
  BY <1>2, <1>4, ZenonT(60) DEF NamedGrantsExist, Answered
<1>15. Forward(T, U)
  <2>1. ASSUME NEW g \in GrantIds
        PROVE  /\ T.grants[g].state \in {"revoked", "deleted"} => grants[g].state # "live"
               /\ T.grants[g].state # "none" => grants[g].remaining <= T.grants[g].remaining
    <3>1. T.grants[g].state # "none" => grants[g] = T.grants[g]
      BY <1>3, Zenon
    <3>2. T.grants[g].remaining <= T.grants[g].remaining
      BY NumbersTyped, Zenon
    <3> QED  BY <3>1, <3>2, Zenon
  <2>2. ASSUME NEW x \in Requests, T.requests[x].state \notin {"NONE", "PENDING"}
        PROVE  U.requests[x].state = T.requests[x].state
    BY <1>2, <2>2, Zenon
  <2>3. \A s \in Sessions : T.sessions[s].generation >= T.sessions[s].generation
    BY NumbersTyped, Zenon
  <2> QED  BY <1>2, <2>1, <2>2, <2>3, Zenon DEF Forward
<1> QED  BY <1>1, <1>5, <1>6, <1>7, <1>8, <1>9, <1>10, <1>11, <1>12, <1>13, <1>14, <1>15, Zenon
         DEF Good, U, DatabaseInv, StatesInv, RowsInv

(* Only counts differ, and they have gone down.                            *)
SameGrants(T, grants) ==
    \A g \in GrantIds :
        /\ grants[g].state = T.grants[g].state /\ grants[g].mode = T.grants[g].mode
        /\ grants[g].policy = T.grants[g].policy /\ grants[g].session = T.grants[g].session

CountedDown(T, grants) ==
    \A g \in GrantIds :
        /\ grants[g].remaining <= T.grants[g].remaining
        /\ T.grants[g].remaining = 0 => grants[g].remaining = 0
        /\ T.grants[g].remaining \in {0, 1} => grants[g].remaining \in {0, 1}

(* The grants a receipt names are live, of its session or used up by it.   *)
Uses(T, auth, grants) ==
    \A g \in auth.grants :
        /\ T.grants[g].state = "live"
        /\ T.grants[g].mode = "SESSION" => T.grants[g].session = auth.session
        /\ T.grants[g].mode = "ONCE" => T.grants[g].remaining # 0 /\ grants[g].remaining = 0

(* A receipt is inserted over grants whose counts have gone down.          *)
LEMMA ReceiptOverGrants ==
    ASSUME NEW T \in DatabaseType, NEW o \in Operations, NEW auth \in Authorization,
           NEW grants \in [GrantIds -> Grant], DatabaseInv(T),
           T.auths[o].state = "none",
           auth.state = "valid",
           \A d \in auth.rows : \E g \in auth.grants : g[2] = d,
           Uses(T, auth, grants), SameGrants(T, grants), CountedDown(T, grants)
    PROVE  Good(T, [T EXCEPT !.auths[o] = auth, !.grants = grants])
<1> DEFINE U == [T EXCEPT !.auths[o] = auth, !.grants = grants]
<1>1. U \in DatabaseType
  BY Zenon DEF DatabaseType
<1>2. /\ U.defs = T.defs /\ U.sessions = T.sessions /\ U.requests = T.requests
      /\ U.grants = grants /\ U.artifacts = T.artifacts
      /\ U.auths[o] = auth
      /\ \A p \in Operations \ {o} : U.auths[p] = T.auths[p]
  BY ZenonT(60) DEF DatabaseType
<1>3. auth.grants \subseteq GrantIds
  BY Zenon DEF Authorization
<1> HIDE DEF U
<1>4. /\ FreshGrants(U) /\ ShownRows(U) /\ ParentsExist(U) /\ WithinParents(U)
      /\ FreshSessions(U)
  <2>0. FreshGrants(T) /\ ShownRows(T) /\ ParentsExist(T) /\ WithinParents(T) /\ FreshSessions(T)
    BY Zenon DEF DatabaseInv, StatesInv, RowsInv
  <2>1. FreshGrants(U)
    <3> SUFFICES ASSUME NEW g \in GrantIds, T.requests[g[1]].state \in {"NONE", "PENDING"}
                 PROVE  grants[g].state = "none"
      BY <1>2, Zenon DEF FreshGrants
    <3>1. T.grants[g].state = "none"
      BY <2>0, Zenon DEF FreshGrants
    <3> QED  BY <3>1, Zenon DEF SameGrants
  <2> QED  BY <1>2, <2>0, <2>1, TablesAlone, ZenonT(60)
<1>5. OnceCounts(U)
  <2> SUFFICES ASSUME NEW g \in GrantIds, T.grants[g].mode = "ONCE"
               PROVE  grants[g].remaining \in {0, 1}
    BY <1>2, Zenon DEF OnceCounts, SameGrants
  <2>1. T.grants[g].remaining \in {0, 1}
    BY Zenon DEF OnceCounts, DatabaseInv, StatesInv, RowsInv
  <2> QED  BY <2>1, Zenon DEF CountedDown
<1>6. SessionSources(U)
  <2>0. SessionSources(T)
    BY Zenon DEF DatabaseInv, StatesInv, RowsInv
  <2>1. \A p \in Operations : \A g \in U.auths[p].grants :
           U.grants[g].mode = "SESSION" => U.grants[g].session = U.auths[p].session
    <3> SUFFICES ASSUME NEW p \in Operations, NEW g \in U.auths[p].grants,
                        U.grants[g].mode = "SESSION"
                 PROVE  U.grants[g].session = U.auths[p].session
      BY Zenon
    <3>1. CASE p = o
      <4>1. g \in auth.grants /\ g \in GrantIds /\ U.auths[p] = auth
        BY <1>2, <1>3, <3>1, Zenon
      <4>2. T.grants[g].mode = "SESSION" => T.grants[g].session = auth.session
        BY <4>1, Zenon DEF Uses
      <4> QED  BY <1>2, <4>1, <4>2, Zenon DEF SameGrants
    <3>2. CASE p # o
      <4>1. g \in T.auths[p].grants /\ g \in GrantIds /\ U.auths[p] = T.auths[p]
        BY <1>2, <3>2, EdgesTyped, Zenon
      <4>2. T.grants[g].mode = "SESSION" => T.grants[g].session = T.auths[p].session
        BY <2>0, <4>1, Zenon DEF SessionSources
      <4> QED  BY <1>2, <4>1, <4>2, Zenon DEF SameGrants
    <3> QED  BY <3>1, <3>2, Zenon
  <2>2. \A a \in Artifacts : \A g \in U.artifacts[a].sources :
           U.grants[g].mode = "SESSION" => U.grants[g].session = U.artifacts[a].session
    <3>0. U.grants = grants /\ U.artifacts = T.artifacts
      BY <1>2, Zenon
    <3> SUFFICES ASSUME NEW a \in Artifacts, NEW g \in T.artifacts[a].sources,
                        grants[g].mode = "SESSION"
                 PROVE  grants[g].session = T.artifacts[a].session
      BY <3>0, ZenonT(60)
    <3>1. g \in GrantIds
      BY EdgesTyped, Zenon
    <3>2. T.grants[g].mode = "SESSION" => T.grants[g].session = T.artifacts[a].session
      BY <2>0, Zenon DEF SessionSources
    <3> QED  BY <3>1, <3>2, Zenon DEF SameGrants
  <2> QED  BY <2>1, <2>2, Zenon DEF SessionSources
<1>7. OnceSpent(U)
  <2>0. OnceSpent(T)
    BY Zenon DEF DatabaseInv, StatesInv, RowsInv
  <2>1. \A g \in auth.grants : T.grants[g].mode = "ONCE" =>
           \A p \in Operations : g \notin T.auths[p].grants
    BY <1>3, <2>0, Zenon DEF OnceSpent, Uses
  <2> SUFFICES ASSUME NEW p \in Operations, NEW g \in U.auths[p].grants,
                      U.grants[g].mode = "ONCE"
               PROVE  /\ U.grants[g].remaining = 0
                      /\ \A q \in Operations \ {p} : g \notin U.auths[q].grants
    BY Zenon DEF OnceSpent
  <2>2. CASE p = o
    <3>1. g \in auth.grants /\ g \in GrantIds /\ T.grants[g].mode = "ONCE"
      BY <1>2, <1>3, <2>2, Zenon DEF SameGrants
    <3>2. U.grants[g].remaining = 0
      BY <1>2, <3>1, Zenon DEF Uses
    <3> QED  BY <1>2, <2>1, <2>2, <3>1, <3>2, Zenon
  <2>3. CASE p # o
    <3>1. /\ g \in T.auths[p].grants /\ g \in GrantIds /\ T.grants[g].mode = "ONCE"
      BY <1>2, <2>3, EdgesTyped, Zenon DEF SameGrants
    <3>2. /\ T.grants[g].remaining = 0
          /\ \A q \in Operations \ {p} : g \notin T.auths[q].grants
      BY <2>0, <3>1, Zenon DEF OnceSpent
    <3>3. g \notin auth.grants
      BY <2>1, <3>1, Zenon
    <3>4. U.grants[g].remaining = 0
      BY <1>2, <3>1, <3>2, Zenon DEF CountedDown
    <3>5. ASSUME NEW q \in Operations \ {p}
          PROVE  g \notin U.auths[q].grants
      <4>1. CASE q = o
        BY <1>2, <3>3, <4>1, Zenon
      <4>2. CASE q # o
        BY <1>2, <3>2, <4>2, Zenon
      <4> QED  BY <4>1, <4>2, Zenon
    <3> QED  BY <3>4, <3>5, Zenon
  <2> QED  BY <2>2, <2>3, Zenon
<1>8. CoveredRows(U)
  <2> DEFINE Covered(A) == \A d \in A.rows : \E g \in A.grants : g[2] = d
  <2>1. /\ Covered(auth)
        /\ \A p \in Operations : T.auths[p].state = "valid" => Covered(T.auths[p])
    BY Zenon DEF CoveredRows, DatabaseInv, StatesInv, RowsInv
  <2> SUFFICES \A p \in Operations : U.auths[p].state = "valid" => Covered(U.auths[p])
    BY Zenon DEF CoveredRows
  <2> HIDE DEF Covered
  <2> SUFFICES ASSUME NEW p \in Operations, U.auths[p].state = "valid"
               PROVE  Covered(U.auths[p])
    BY Zenon
  <2>2. CASE p = o
    BY <1>2, <2>1, <2>2, Zenon
  <2>3. CASE p # o
    <3>1. U.auths[p] = T.auths[p]
      BY <1>2, <2>3, Zenon
    <3> QED  BY <2>1, <3>1, Zenon
  <2> QED  BY <2>2, <2>3, Zenon
<1>9. LiveSources(U) /\ DataInOpenSession(U) /\ ClosedClean(U)
  <2>0. LiveSources(T) /\ DataInOpenSession(T) /\ ClosedClean(T)
    BY Zenon DEF DatabaseInv, StatesInv, RowsInv
  <2>1. LiveSources(U)
    <3> SUFFICES ASSUME NEW a \in Artifacts, T.artifacts[a].state = "ACTIVE"
                 PROVE  /\ T.artifacts[a].sources # {}
                        /\ \A g \in T.artifacts[a].sources : grants[g].state = "live"
      BY <1>2, Zenon DEF LiveSources
    <3> QED  BY <2>0, EdgesTyped, ZenonT(60) DEF LiveSources, SameGrants
  <2> QED  BY <1>2, <2>0, <2>1, TablesAlone, ZenonT(60)
<1>10. CurrentGrants(U)
  <2>0. CurrentGrants(T)
    BY Zenon DEF DatabaseInv, StatesInv, RowsInv
  <2>1. \A g \in GrantIds :
           /\ U.grants[g].state = T.grants[g].state /\ U.grants[g].policy = T.grants[g].policy
           /\ U.requests[g[1]].versions = T.requests[g[1]].versions
    BY <1>2, ZenonT(60) DEF SameGrants
  <2> QED  BY <1>2, <2>0, <2>1, CurrentGrantsEach, ZenonT(60)
<1>11. GrantInOpenSession(U) /\ PendingInSession(U) /\ NamedGrantsExist(U)
  <2>0. GrantInOpenSession(T) /\ PendingInSession(T) /\ NamedGrantsExist(T)
    BY Zenon DEF DatabaseInv, StatesInv, RowsInv
  <2>1. GrantInOpenSession(U)
    <3> SUFFICES ASSUME NEW g \in GrantIds, T.grants[g].state = "live",
                        T.grants[g].mode = "SESSION"
                 PROVE  T.grants[g].session \in Sessions /\ Open(T.sessions[T.grants[g].session])
      BY <1>2, Zenon DEF GrantInOpenSession, SameGrants
    <3> QED  BY <2>0, Zenon DEF GrantInOpenSession
  <2>2. PendingInSession(U)
    BY <1>2, <2>0, TablesAlone, ZenonT(60)
  <2>3. NamedGrantsExist(U)
    <3> SUFFICES ASSUME NEW g \in GrantIds, T.grants[g].state \in {"none", "deleted"}
                 PROVE  /\ \A p \in Operations : g \notin U.auths[p].grants
                        /\ \A a \in Artifacts : g \notin T.artifacts[a].sources
      BY <1>2, Zenon DEF NamedGrantsExist, SameGrants
    <3>1. g \notin auth.grants
      BY Zenon DEF Uses
    <3>2. /\ \A p \in Operations : g \notin T.auths[p].grants
          /\ \A a \in Artifacts : g \notin T.artifacts[a].sources
      BY <2>0, Zenon DEF NamedGrantsExist
    <3>3. ASSUME NEW p \in Operations
          PROVE  g \notin U.auths[p].grants
      <4>1. CASE p = o
        BY <1>2, <3>1, <4>1, Zenon
      <4>2. CASE p # o
        BY <1>2, <3>2, <4>2, Zenon
      <4> QED  BY <4>1, <4>2, Zenon
    <3> QED  BY <3>2, <3>3, Zenon
  <2> QED  BY <2>1, <2>2, <2>3, Zenon
<1>12. Forward(T, U)
  <2>1. \A g \in GrantIds :
           /\ T.grants[g].state \in {"revoked", "deleted"} => U.grants[g].state # "live"
           /\ T.grants[g].state # "none" => U.grants[g].remaining <= T.grants[g].remaining
    BY <1>2, Zenon DEF SameGrants, CountedDown
  <2>2. \A p \in Operations : T.auths[p].state = "invalid" => U.auths[p].state = "invalid"
    BY <1>2, Zenon
  <2>3. \A s \in Sessions : T.sessions[s].generation >= T.sessions[s].generation
    BY NumbersTyped, Zenon
  <2> QED  BY <1>2, <2>1, <2>2, <2>3, Zenon DEF Forward
<1> QED  BY <1>1, <1>4, <1>5, <1>6, <1>7, <1>8, <1>9, <1>10, <1>11, <1>12, Zenon
         DEF Good, U, DatabaseInv, StatesInv, RowsInv

(* A receipt is inserted and the ONCE grants it names are used up.         *)
LEMMA ReceiptInsertKeeps ==
    ASSUME NEW T \in DatabaseType, NEW o \in Operations, NEW auth \in Authorization,
           NEW grants \in [GrantIds -> Grant], DatabaseInv(T),
           T.auths[o].state = "none",
           auth.state = "valid",
           \A d \in auth.rows : \E g \in auth.grants : g[2] = d,
           \A g \in auth.grants :
              /\ T.grants[g].state = "live" /\ T.grants[g].remaining # 0
              /\ T.grants[g].mode = "SESSION" => T.grants[g].session = auth.session,
           \A g \in GrantIds :
              /\ grants[g].state = T.grants[g].state /\ grants[g].mode = T.grants[g].mode
              /\ grants[g].policy = T.grants[g].policy /\ grants[g].session = T.grants[g].session
              /\ grants[g].remaining =
                    IF g \in auth.grants /\ T.grants[g].mode = "ONCE" /\ T.grants[g].remaining > 0
                    THEN T.grants[g].remaining - 1 ELSE T.grants[g].remaining
    PROVE  Good(T, [T EXCEPT !.auths[o] = auth, !.grants = grants])
<1>1. auth.grants \subseteq GrantIds
  BY Zenon DEF Authorization
<1>2. OnceCounts(T)
  BY Zenon DEF DatabaseInv, StatesInv, RowsInv
<1>3. \A g \in GrantIds : T.grants[g].remaining \in -1..1
  BY NumbersTyped, Zenon
<1> DEFINE Spent(g) == g \in auth.grants /\ T.grants[g].mode = "ONCE" /\ T.grants[g].remaining > 0
<1>4. \A g \in GrantIds :
         grants[g].remaining = IF Spent(g) THEN T.grants[g].remaining - 1 ELSE T.grants[g].remaining
  BY Zenon
<1> HIDE DEF Spent
<1>5. \A g \in GrantIds :
         /\ grants[g].remaining <= T.grants[g].remaining
         /\ T.grants[g].remaining = 0 /\ ~Spent(g) => grants[g].remaining = 0
         /\ T.grants[g].remaining = 1 /\ Spent(g) => grants[g].remaining = 0
         /\ ~Spent(g) => grants[g].remaining = T.grants[g].remaining
  BY <1>3, <1>4, SMTT(60)
<1>6. /\ \A g \in GrantIds : T.grants[g].remaining = 0 => ~Spent(g)
      /\ \A g \in auth.grants : T.grants[g].mode = "ONCE" => T.grants[g].remaining = 1 /\ Spent(g)
  <2>1. ~(0 > 0) /\ 1 > 0
    BY SMT
  <2> QED  BY <1>1, <1>2, <2>1, Zenon DEF Spent, OnceCounts
<1>7. CountedDown(T, grants)
  BY <1>5, <1>6, ZenonT(60) DEF CountedDown
<1>8. Uses(T, auth, grants)
  <2>1. \A g \in auth.grants : T.grants[g].mode = "ONCE" =>
           T.grants[g].remaining # 0 /\ grants[g].remaining = 0
    BY <1>1, <1>5, <1>6, Zenon
  <2> QED  BY <2>1, Zenon DEF Uses
<1>9. SameGrants(T, grants)
  BY Zenon DEF SameGrants
<1> QED  BY <1>7, <1>8, <1>9, ReceiptOverGrants, ZenonT(60)

=============================================================================
