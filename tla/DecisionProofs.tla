--------------------------- MODULE DecisionProofs ---------------------------
(* What decisions of Repository rest on: which steps take a cached one     *)
(* away, the invariant of deadlines, screens and contexts, and the steps   *)
(* that approve nothing.                                                   *)
EXTENDS RepositoryProofs

-----------------------------------------------------------------------------
(* Cached decisions.                                                       *)

(* U decides like T: nothing that an evaluation reads has changed.         *)
Steady(T, U) ==
    /\ U.defs = T.defs
    /\ \A r \in Requests : U.requests[r] = T.requests[r]
    /\ \A g \in GrantIds : \/ U.grants[g] = T.grants[g]
                           \/ T.grants[g].state # "live" /\ U.grants[g].state # "live"
    /\ \A s \in Sessions : \/ U.sessions[s] = T.sessions[s]
                           \/ T.sessions[s].state # "ACTIVE" /\ U.sessions[s].state # "ACTIVE"

(* Tables are steady with themselves.                                      *)
LEMMA SteadyReflexive == \A T : Steady(T, T)
BY Zenon DEF Steady

(* What decides like a table that decides like another.                    *)
LEMMA SteadyTransitive ==
    ASSUME NEW T, NEW U, NEW V, Steady(T, U), Steady(U, V)
    PROVE  Steady(T, V)
<1>1. \A g \in GrantIds : \/ V.grants[g] = T.grants[g]
                          \/ T.grants[g].state # "live" /\ V.grants[g].state # "live"
  BY Zenon DEF Steady
<1>2. \A s \in Sessions : \/ V.sessions[s] = T.sessions[s]
                          \/ T.sessions[s].state # "ACTIVE" /\ V.sessions[s].state # "ACTIVE"
  BY Zenon DEF Steady
<1>3. V.defs = T.defs /\ \A r \in Requests : V.requests[r] = T.requests[r]
  BY Zenon DEF Steady
<1> QED  BY <1>1, <1>2, <1>3, Zenon DEF Steady

(* An UPDATE of grants that selects no row changes none.                   *)
LEMMA NoGrantSelected ==
    ASSUME NEW T, NEW G, \A g \in GrantIds : g \notin G
    PROVE  \A g \in GrantIds : RevokedGrants(T, G)[g] = T.grants[g]
BY Zenon DEF RevokedGrants

(* Nor does one of requests that selects none that is pending.             *)
LEMMA NoRequestSelected ==
    ASSUME NEW T, NEW R, NEW state, \A r \in Requests : T.requests[r].state = "PENDING" => r \notin R
    PROVE  \A r \in Requests : FinishedRequests(T, R, state)[r] = T.requests[r]
BY Zenon DEF FinishedRequests

(* A replay that finds no change (Replay).                                 *)
LEMMA ReplaySteady ==
    ASSUME NEW T \in DatabaseType, NEW registered \in [Definitions -> Definition], NEW installed,
           ChangedDefinitions(T, registered, installed) = {}
    PROVE  Steady(T, Replay(T, registered, installed))
<1> DEFINE I == Invalidate(T, {})
           U == Replay(T, registered, installed)
           G == {g \in GrantIds : g[2] \in {}}
           R == {r \in Requests : T.requests[r].rows \cap {} # {}}
<1>1. I \in DatabaseType
  BY InvalidateType, Zenon
<1>2. U = [I EXCEPT !.defs = Projection(registered, installed)]
  BY Zenon DEF Replay
<1>3. /\ I.grants = RevokedGrants(T, G)
      /\ I.requests = FinishedRequests(T, R, "INVALIDATED")
      /\ I.sessions = T.sessions
  BY Zenon DEF Invalidate, DatabaseType
<1> HIDE DEF I
<1>4. /\ U.defs = Projection(registered, installed) /\ U.grants = I.grants
      /\ U.requests = I.requests /\ U.sessions = I.sessions
  BY <1>1, <1>2, Zenon DEF DatabaseType
<1> HIDE DEF U
<1>5. \A g \in GrantIds : U.grants[g] = T.grants[g]
  <2>1. \A g \in GrantIds : g \notin G
    BY Zenon
  <2> HIDE DEF G
  <2>2. \A g \in GrantIds : RevokedGrants(T, G)[g] = T.grants[g]
    BY <2>1, NoGrantSelected, Zenon
  <2> QED  BY <1>3, <1>4, <2>2, Zenon
<1>6. \A r \in Requests : U.requests[r] = T.requests[r]
  <2>1. \A r \in Requests : r \notin R
    BY Zenon
  <2> HIDE DEF R
  <2>2. \A r \in Requests : FinishedRequests(T, R, "INVALIDATED")[r] = T.requests[r]
    BY <2>1, NoRequestSelected, SMT
  <2> QED  BY <1>3, <1>4, <2>2, Zenon
<1>7. U.defs = T.defs
  <2>1. \A d \in Definitions : Projection(registered, installed)[d] = T.defs[d]
    BY Zenon DEF ChangedDefinitions
  <2>2. T.defs = [d \in Definitions |-> T.defs[d]]
    BY Zenon DEF DatabaseType
  <2>3. Projection(registered, installed)
           = [d \in Definitions |-> Projection(registered, installed)[d]]
    BY Zenon DEF Projection
  <2> QED  BY <1>4, <2>1, <2>2, <2>3, Zenon
<1>8. Steady(T, U)
  BY <1>3, <1>4, <1>5, <1>6, <1>7, Zenon DEF Steady
<1> QED  BY <1>8, Zenon DEF U

(* Ending clean sessions: none of them was active (FinishCleanup).         *)
LEMMA FinishCleanupSteady ==
    ASSUME NEW T \in DatabaseType
    PROVE  Steady(T, FinishCleanup(T))
<1> DEFINE U == FinishCleanup(T)
<1>1. U.defs = T.defs /\ U.requests = T.requests /\ U.grants = T.grants
  BY Zenon DEF FinishCleanup, DatabaseType
<1>2. ASSUME NEW s \in Sessions
      PROVE  \/ U.sessions[s] = T.sessions[s]
             \/ T.sessions[s].state # "ACTIVE" /\ U.sessions[s].state # "ACTIVE"
  BY DEF FinishCleanup, DatabaseType, Session
<1> HIDE DEF U
<1>3. Steady(T, U)
  BY <1>1, <1>2, Zenon DEF Steady
<1> QED  BY <1>3, Zenon DEF U

(* Compaction touches no usable grant (CompactMetadata).                   *)
LEMMA CompactSteady ==
    ASSUME NEW T \in DatabaseType
    PROVE  Steady(T, CompactAuths(T)) /\ Steady(T, CompactGrants(T))
<1>1. Steady(T, CompactAuths(T))
  BY Zenon DEF CompactAuths, DatabaseType, Steady
<1> DEFINE U == CompactGrants(T)
<1>2. U.defs = T.defs /\ U.requests = T.requests /\ U.sessions = T.sessions
  BY Zenon DEF CompactGrants, DatabaseType
<1>3. ASSUME NEW g \in GrantIds
      PROVE  \/ U.grants[g] = T.grants[g]
             \/ T.grants[g].state # "live" /\ U.grants[g].state # "live"
  BY DEF CompactGrants, DatabaseType, Grant
<1> HIDE DEF U
<1>4. Steady(T, U)
  BY <1>2, <1>3, Zenon DEF Steady
<1> QED  BY <1>1, <1>4, Zenon DEF U

(* In either order.                                                        *)
LEMMA CompactMetadataSteady ==
    ASSUME NEW T \in DatabaseType, NEW receiptsFirst
    PROVE  Steady(T, CompactMetadata(T, receiptsFirst))
<1>1. CompactAuths(T) \in DatabaseType /\ CompactGrants(T) \in DatabaseType
  BY CompactAuthsType, CompactGrantsType, Zenon
<1>2. /\ Steady(T, CompactAuths(T)) /\ Steady(CompactAuths(T), CompactGrants(CompactAuths(T)))
      /\ Steady(T, CompactGrants(T)) /\ Steady(CompactGrants(T), CompactAuths(CompactGrants(T)))
  BY <1>1, CompactSteady, Zenon
<1> QED  BY <1>2, SteadyTransitive, Zenon DEF CompactMetadata

(* Closing no session.                                                     *)
LEMMA CloseNoneSteady ==
    ASSUME NEW T \in DatabaseType
    PROVE  Steady(T, CloseSessions(T, {}))
<1> DEFINE U == CloseSessions(T, {})
           G == {g \in GrantIds : T.grants[g].mode = "SESSION" /\ T.grants[g].session \in {}}
           R == {r \in Requests : T.requests[r].session \in {}}
<1>1. U.grants = RevokedGrants(T, G) /\ U.requests = FinishedRequests(T, R, "INVALIDATED")
  BY Zenon DEF CloseSessions, DatabaseType
<1>2. U.defs = T.defs
  BY Zenon DEF CloseSessions, DatabaseType
<1>3. \A s \in Sessions : U.sessions[s] = T.sessions[s]
  BY Zenon DEF CloseSessions, DatabaseType
<1>4. (\A g \in GrantIds : g \notin G) /\ (\A r \in Requests : r \notin R)
  BY Zenon
<1> HIDE DEF U, G, R
<1>5. \A g \in GrantIds : U.grants[g] = T.grants[g]
  BY <1>1, <1>4, NoGrantSelected
<1>6. \A r \in Requests : U.requests[r] = T.requests[r]
  BY <1>1, <1>4, NoRequestSelected
<1>7. Steady(T, U)
  BY <1>2, <1>3, <1>5, <1>6, Zenon DEF Steady
<1> QED  BY <1>7, Zenon DEF U

(* Suspending no session.                                                  *)
LEMMA SuspendNoneSteady ==
    ASSUME NEW T \in DatabaseType, NEW resume
    PROVE  Steady(T, SuspendSessions(T, {}, resume))
<1> DEFINE U == SuspendSessions(T, {}, resume)
           R == {r \in Requests : T.requests[r].session \in {}}
<1>1. U.requests = FinishedRequests(T, R, "INVALIDATED")
  BY Zenon DEF SuspendSessions, DatabaseType
<1>2. U.defs = T.defs /\ U.grants = T.grants
  BY Zenon DEF SuspendSessions, DatabaseType
<1>3. \A s \in Sessions : U.sessions[s] = T.sessions[s]
  BY Zenon DEF SuspendSessions, DatabaseType
<1>4. \A r \in Requests : r \notin R
  BY Zenon
<1> HIDE DEF U, R
<1>5. \A r \in Requests : U.requests[r] = T.requests[r]
  BY <1>1, <1>4, NoRequestSelected
<1>6. Steady(T, U)
  BY <1>2, <1>3, <1>5, Zenon DEF Steady
<1> QED  BY <1>6, Zenon DEF U

(* A sweep that finds nothing expired (Expire).                            *)
LEMMA ExpireSteady ==
    ASSUME NEW T \in DatabaseType, NEW clock \in Nat, NEW grace \in Nat, ~ExpireChanges(T, clock)
    PROVE  Steady(T, Expire(T, clock, grace))
<1> DEFINE ended == [T EXCEPT !.requests =
                       FinishedRequests(T, ExpiredRequests(T, clock), "EXPIRED")]
           closed == CloseSessions(ended, ExpiredSessions(T, clock) \ LapsedSessions(T, clock))
           suspended == SuspendSessions(closed, LapsedSessions(T, clock), clock + grace)
           blocked == [suspended EXCEPT !.artifacts =
                         BlockedArtifacts(suspended, ExpiredArtifacts(T, clock))]
<1>1. ExpiredRequests(T, clock) = {} /\ ExpiredSessions(T, clock) = {}
  BY Zenon DEF ExpireChanges
<1>2. LapsedSessions(T, clock) = {}
  BY <1>1, Zenon DEF LapsedSessions
<1>3. ExpiredSessions(T, clock) \ LapsedSessions(T, clock) = {}
  BY <1>1, Zenon
<1>4. ended \in DatabaseType /\ Steady(T, ended)
  <2>1. FinishedRequests(T, ExpiredRequests(T, clock), "EXPIRED") \in [Requests -> Request]
    BY FinishedRequestsType, Zenon
  <2>2. \A r \in Requests :
           FinishedRequests(T, ExpiredRequests(T, clock), "EXPIRED")[r] = T.requests[r]
    BY <1>1, NoRequestSelected
  <2> HIDE <1>1
  <2> QED  BY <2>1, <2>2, Zenon DEF DatabaseType, Steady
<1> HIDE DEF ended
<1>5. closed \in DatabaseType /\ Steady(ended, closed)
  <2>1. closed = CloseSessions(ended, {})
    BY <1>3, Zenon
  <2> QED  BY <1>4, <2>1, CloseNoneSteady, CloseSessionsType, Zenon
<1> HIDE DEF closed
<1>6. suspended \in DatabaseType /\ Steady(closed, suspended)
  <2>1. suspended = SuspendSessions(closed, {}, clock + grace) /\ clock + grace \in Nat
    BY <1>2
  <2> QED  BY <1>5, <2>1, SuspendNoneSteady, SuspendSessionsType, Zenon
<1> HIDE DEF suspended
<1>7. blocked \in DatabaseType /\ Steady(suspended, blocked)
  BY <1>6, BlockedArtifactsType, Zenon DEF DatabaseType, Steady
<1> HIDE DEF blocked
<1>8. Steady(blocked, FinishCleanup(blocked))
  BY <1>7, FinishCleanupSteady, Zenon
<1>9. Steady(T, FinishCleanup(blocked))
  <2>1. Steady(T, closed)
    BY <1>4, <1>5, SteadyTransitive, Zenon
  <2>2. Steady(T, suspended)
    BY <1>6, <2>1, SteadyTransitive, Zenon
  <2>3. Steady(T, blocked)
    BY <1>7, <2>2, SteadyTransitive, Zenon
  <2> QED  BY <1>8, <2>3, SteadyTransitive, Zenon
<1> QED  BY <1>9, Zenon DEF Expire, blocked, suspended, closed, ended

-----------------------------------------------------------------------------
(* A decision is cacheable after what leaves the tables steady.            *)
LEMMA SteadyDecides ==
    ASSUME NEW T, NEW U, Steady(T, U), NEW q, NEW clock, NEW d
    PROVE  /\ Covering(U, q, d, clock) = Covering(T, q, d, clock)
           /\ Newest(U, q, d, clock) = Newest(T, q, d, clock)
<1>1. ASSUME NEW g \in GrantIds
      PROVE  g \in Covering(U, q, d, clock) <=> g \in Covering(T, q, d, clock)
  <2>1. CASE U.grants[g] = T.grants[g]
    BY <2>1, Zenon DEF Steady, Covering
  <2>2. CASE T.grants[g].state # "live" /\ U.grants[g].state # "live"
    BY <2>2, Zenon DEF Covering
  <2> QED  BY <2>1, <2>2, Zenon DEF Steady
<1>2. Covering(U, q, d, clock) \subseteq GrantIds /\ Covering(T, q, d, clock) \subseteq GrantIds
  BY Zenon DEF Covering
<1>3. Covering(U, q, d, clock) = Covering(T, q, d, clock)
  BY <1>1, <1>2, Zenon
<1>4. \A g \in GrantIds : U.requests[g[1]] = T.requests[g[1]]
  BY GrantNames, Zenon DEF Steady
<1> DEFINE C == Covering(T, q, d, clock)
<1>5. /\ Newest(U, q, d, clock)
            = {g \in C : \A h \in C : U.requests[h[1]].rank <= U.requests[g[1]].rank}
      /\ Newest(T, q, d, clock)
            = {g \in C : \A h \in C : T.requests[h[1]].rank <= T.requests[g[1]].rank}
  BY <1>3, Zenon DEF Newest
<1>6. C \subseteq GrantIds
  BY <1>2, Zenon
<1> HIDE DEF C
<1>7. Newest(U, q, d, clock) = Newest(T, q, d, clock)
  BY <1>4, <1>5, <1>6
<1> QED  BY <1>3, <1>7, Zenon

(* Steady tables lose no cacheable decision.                               *)
LEMMA SteadyCacheable ==
    ASSUME NEW T, NEW U, Steady(T, U), NEW clock, NEW installed, NEW rows,
           NEW s \in Sessions \cup {NoSession}, Cacheable(T, clock, installed, rows, s)
    PROVE  Cacheable(U, clock, installed, rows, s)
<1> DEFINE generation(V) == IF s = NoSession THEN 0 ELSE V.sessions[s].generation
           q(V) == [rows |-> rows, session |-> s, generation |-> generation(V),
                    ctx |-> Unversioned, chosen |-> "", target |-> 0]
           p == q(T)
<1>1. /\ Evaluable(T, p, clock, installed) /\ CheckConditions(T, p, clock) = "ALLOWED"
      /\ \A d \in rows : \A g \in Newest(T, p, d, clock) :
            T.grants[g].mode \in {"PERSISTENT", "SESSION"}
  BY Zenon DEF Cacheable
<1>2. p.session = s /\ p.rows = rows /\ p.generation = generation(T)
  BY Zenon
<1>3. s = NoSession \/ (s \in Sessions /\ T.sessions[s].state = "ACTIVE")
  BY <1>1, <1>2, Zenon DEF Evaluable, SessionActive
<1>4. s = NoSession \/ (s \in Sessions /\ U.sessions[s] = T.sessions[s])
  BY <1>3, Zenon DEF Steady
<1>5. q(U) = p
  BY <1>4, Zenon
<1>6. \A V : Cacheable(V, clock, installed, rows, s) <=>
         /\ Evaluable(V, q(V), clock, installed) /\ CheckConditions(V, q(V), clock) = "ALLOWED"
         /\ \A d \in rows : \A g \in Newest(V, q(V), d, clock) :
               V.grants[g].mode \in {"PERSISTENT", "SESSION"}
  BY Zenon DEF Cacheable
<1> HIDE DEF p, q, generation
<1>7. Evaluable(U, p, clock, installed)
  <2>1. U.defs = T.defs
    BY Zenon DEF Steady
  <2>2. SessionActive(U, p.session, p.generation, clock)
    BY <1>1, <1>2, <1>4, Zenon DEF Evaluable, SessionActive
  <2> QED  BY <1>1, <2>1, <2>2, Zenon DEF Evaluable
<1>0. \A d : Newest(U, p, d, clock) = Newest(T, p, d, clock)
  BY SteadyDecides
<1>8. CheckConditions(U, p, clock) = "ALLOWED"
  <2>1. DeniedRows(U, p) = DeniedRows(T, p)
    BY Zenon DEF DeniedRows, Steady
  <2>2. MissingRows(U, p, clock) = MissingRows(T, p, clock)
    BY <1>0, Zenon DEF MissingRows, Steady
  <2> QED  BY <1>1, <2>1, <2>2, Zenon DEF CheckConditions
<1>9. ASSUME NEW d \in rows, NEW g \in Newest(U, p, d, clock)
      PROVE  U.grants[g].mode \in {"PERSISTENT", "SESSION"}
  <2>1. g \in Newest(T, p, d, clock)
    BY <1>0, <1>9, Zenon
  <2>2. g \in GrantIds /\ T.grants[g].state = "live"
    BY <2>1, Zenon DEF Newest, Covering
  <2>3. U.grants[g] = T.grants[g]
    BY <2>2, Zenon DEF Steady
  <2> QED  BY <1>1, <2>1, <2>3, Zenon
<1> QED  BY <1>5, <1>6, <1>7, <1>8, <1>9, Zenon

-----------------------------------------------------------------------------
(* The inductive invariant, with the one of RepositoryProofs.              *)

(* A time that lies ahead of the clock by one of the spans at most.        *)
Near(time, clock, spans) == \E span \in spans : time <= clock + span

Spans(T, g) == Durations \cup {T.requests[g[1]].ctx.duration}

Retentions == {RetentionOf[d] : d \in Definitions}

GrantsNear(T, clock) ==
    \A g \in GrantIds : T.grants[g].state = "live" /\ T.grants[g].mode = "TIMED" =>
        Near(T.grants[g].expires, clock, Spans(T, g))

SessionsNear(T, clock) ==
    \A s \in Sessions : Open(T.sessions[s]) => Near(T.sessions[s].limit, clock, Lifetimes)

RequestsNear(T, clock) ==
    \A r \in Requests : T.requests[r].state = "PENDING" =>
        Near(T.requests[r].deadline, clock, Waits)

DataNear(T, clock) ==
    \A a \in Artifacts : T.artifacts[a].state = "ACTIVE" =>
        Near(T.artifacts[a].expires, clock, Retentions)

(* A usable receipt was made before now: data expires by its receipt's     *)
(* date and not by its own.                                                *)
ReceiptsPast(T, clock) ==
    \A o \in Operations : T.auths[o].state = "valid" => T.auths[o].created <= clock

InReach(T, clock) ==
    /\ GrantsNear(T, clock) /\ SessionsNear(T, clock) /\ RequestsNear(T, clock)
    /\ DataNear(T, clock) /\ ReceiptsPast(T, clock)

(* A request without a context is one for a task.                          *)
TaskContexts(T) ==
    \A r \in Requests : T.requests[r].ctx.version = 0 => T.requests[r].ctx.kind = "TASK"

(* A screen with the request's token shows what the request records as     *)
(* shown, and all rows when the request has no context.                    *)
Shows(screen, q) ==
    screen.token = q.token =>
        /\ screen.rows = q.shown /\ screen.versions = q.versions
        /\ q.ctx.version = 0 => q.shown = q.rows

(* No two screens of a request have the same token, and none has none.     *)
ScreensShow(T, held) ==
    \A r \in Requests : \A screen \in held[r] :
        screen.token \in 1..Cardinality(held[r]) /\ Shows(screen, T.requests[r])

ConsentInv == Inv /\ InReach(db, now) /\ TaskContexts(db) /\ ScreensShow(db, screens)

(* The invariant says of deadlines what DeadlinesWithinReach says.         *)
LEMMA InReachWithin == InReach(db, now) => DeadlinesWithinReach
<1> SUFFICES ASSUME InReach(db, now) PROVE DeadlinesWithinReach
  OBVIOUS
<1>1. \A g \in GrantIds : db.grants[g].state = "live" /\ db.grants[g].mode = "TIMED" =>
         \E t \in Durations \cup {db.requests[g[1]].ctx.duration} : db.grants[g].expires <= now + t
  BY Zenon DEF InReach, GrantsNear, Near, Spans
<1>2. \A s \in Sessions : Open(db.sessions[s]) =>
         \E t \in Lifetimes : db.sessions[s].limit <= now + t
  BY Zenon DEF InReach, SessionsNear, Near
<1>3. \A r \in Requests : db.requests[r].state = "PENDING" =>
         \E t \in Waits : db.requests[r].deadline <= now + t
  BY Zenon DEF InReach, RequestsNear, Near
<1>4. \A a \in Artifacts : db.artifacts[a].state = "ACTIVE" =>
         \E d \in Definitions : db.artifacts[a].expires <= now + RetentionOf[d]
  BY Zenon DEF InReach, DataNear, Near, Retentions
<1> QED  BY <1>1, <1>2, <1>3, <1>4, Zenon DEF DeadlinesWithinReach

(* The empty database satisfies the invariant.                             *)
LEMMA InitConsent == Init => ConsentInv
<1> SUFFICES ASSUME Init PROVE ConsentInv
  OBVIOUS
<1>1. InReach(EmptyDatabase, now)
  BY Zenon DEF InReach, GrantsNear, SessionsNear, RequestsNear, DataNear, ReceiptsPast,
               EmptyDatabase, Open
<1>2. TaskContexts(EmptyDatabase)
  BY Zenon DEF TaskContexts, EmptyDatabase, Unversioned
<1>3. ScreensShow(db, screens)
  BY Zenon DEF Init, ScreensShow
<1> QED  BY <1>1, <1>2, <1>3, InitInv, Zenon DEF Init, ConsentInv

-----------------------------------------------------------------------------
(* What a step may not do, as formulas of two states.                      *)
Informed ==
    \A g \in GrantIds : db.grants[g].state = "none" /\ db'.grants[g].state = "live" =>
        \A screen \in screens[g[1]] : screen.token = db.requests[g[1]].token =>
            /\ g[2] \in screen.rows
            /\ screen.versions[g[2]] = <<db.defs[g[2]].policy, db.defs[g[2]].text>>

(* A grant in T for row d that lasts as long as request q asks.            *)
LastsAs(grant, q) ==
    /\ grant.state = "live"
    /\ \/ grant.mode = "PERSISTENT"
       \/ grant.mode = "SESSION" /\ q.ctx.mode = "SESSION" /\ grant.session = q.session
       \/ grant.mode = "TIMED" /\ q.ctx.mode = "TIMED" /\ grant.expires >= q.target

Lasting ==
    \A r \in Requests :
        /\ db.requests[r].state # "ALLOWED" /\ db'.requests[r].state = "ALLOWED"
        /\ db'.requests[r].ctx.kind = "PREAPPROVAL" /\ db'.requests[r].ctx.mode # "ONCE"
        => \A d \in db'.requests[r].rows : \E x \in Requests :
              LastsAs(db'.grants[x, d], db'.requests[r])

Announced ==
    now' = now /\ authority' = authority =>
        \A rows \in RowSets, s \in CallSessions :
            Cacheable(db, now, authority, rows, s) /\ ~Cacheable(db', now, authority, rows, s)
            => revised'

(* What every step is shown to do.                                         *)
Consented ==
    /\ InReach(db', now') /\ TaskContexts(db') /\ ScreensShow(db', screens')
    /\ Informed /\ Lasting /\ Announced

(* A step that bumps the revision announces.                               *)
LEMMA RevisedAnnounced == revised' => Announced
BY Zenon DEF Announced

(* So does one that leaves the tables steady.                              *)
LEMMA SteadyAnnounced == Steady(db, db') => Announced
BY SteadyCacheable, ContextsAssumption, Zenon DEF Announced

-----------------------------------------------------------------------------
(* Steps that only withdraw.                                               *)

(* Withdrawal moves no deadline.                                           *)
LEMMA WithdrawnInReach ==
    ASSUME NEW T, NEW U, Withdrawn(T, U), NEW clock, InReach(T, clock)
    PROVE  InReach(U, clock)
<1>1. GrantsNear(U, clock)
  <2>1. \A g \in GrantIds : Spans(U, g) = Spans(T, g)
    BY GrantNames, Zenon DEF Spans, Withdrawn, RequestWithdrawn
  <2>2. \A g \in GrantIds : U.grants[g].state = "live" /\ U.grants[g].mode = "TIMED" =>
           /\ T.grants[g].state = "live" /\ T.grants[g].mode = "TIMED"
           /\ U.grants[g].expires = T.grants[g].expires
    BY Zenon DEF Withdrawn, GrantWithdrawn
  <2> QED  BY <2>1, <2>2, Zenon DEF InReach, GrantsNear
<1>2. SessionsNear(U, clock)
  <2>1. \A s \in Sessions : Open(U.sessions[s]) =>
           Open(T.sessions[s]) /\ U.sessions[s].limit = T.sessions[s].limit
    BY Zenon DEF Withdrawn, SessionWithdrawn, Open
  <2> QED  BY <2>1, Zenon DEF InReach, SessionsNear
<1>3. RequestsNear(U, clock)
  <2>1. \A r \in Requests : U.requests[r].state = "PENDING" =>
           T.requests[r].state = "PENDING" /\ U.requests[r].deadline = T.requests[r].deadline
    BY Zenon DEF Withdrawn, RequestWithdrawn
  <2> QED  BY <2>1, Zenon DEF InReach, RequestsNear
<1>4. DataNear(U, clock)
  <2>1. \A a \in Artifacts : U.artifacts[a].state = "ACTIVE" =>
           T.artifacts[a].state = "ACTIVE" /\ U.artifacts[a].expires = T.artifacts[a].expires
    BY Zenon DEF Withdrawn, ArtifactWithdrawn
  <2> QED  BY <2>1, Zenon DEF InReach, DataNear
<1>5. ReceiptsPast(U, clock)
  <2>1. \A o \in Operations : U.auths[o].state = "valid" =>
           T.auths[o].state = "valid" /\ U.auths[o].created = T.auths[o].created
    BY Zenon DEF Withdrawn, AuthWithdrawn
  <2> QED  BY <2>1, Zenon DEF InReach, ReceiptsPast
<1> QED  BY <1>1, <1>2, <1>3, <1>4, <1>5, Zenon DEF InReach

(* A request without a token is shown on no screen.                        *)
LEMMA NoToken ==
    ASSUME NEW screen, NEW n, screen.token \in 1..n, NEW q, q.token = 0
    PROVE  Shows(screen, q)
BY DEF Shows

(* Withdrawal takes tokens and changes nothing that a screen shows.        *)
LEMMA WithdrawnShow ==
    ASSUME NEW T, NEW U, Withdrawn(T, U), NEW held, ScreensShow(T, held)
    PROVE  ScreensShow(U, held)
<1> SUFFICES ASSUME NEW r \in Requests, NEW screen \in held[r]
             PROVE  screen.token \in 1..Cardinality(held[r]) /\ Shows(screen, U.requests[r])
  BY Zenon DEF ScreensShow
<1>1. screen.token \in 1..Cardinality(held[r]) /\ Shows(screen, T.requests[r])
  BY Zenon DEF ScreensShow
<1>2. /\ U.requests[r].shown = T.requests[r].shown /\ U.requests[r].rows = T.requests[r].rows
      /\ U.requests[r].versions = T.requests[r].versions /\ U.requests[r].ctx = T.requests[r].ctx
      /\ U.requests[r].token \in {T.requests[r].token, 0}
  BY Zenon DEF Withdrawn, RequestWithdrawn
<1>3. CASE U.requests[r].token = T.requests[r].token
  BY <1>1, <1>2, <1>3, Zenon DEF Shows
<1>4. CASE U.requests[r].token = 0
  BY <1>1, <1>4, NoToken, Zenon
<1> QED  BY <1>2, <1>3, <1>4, Zenon

(* Withdrawal grants nothing and allows nothing.                           *)
LEMMA WithdrawnConsented ==
    ASSUME ConsentInv, Withdrawn(db, db'), screens' = screens, now' = now, Announced
    PROVE  Consented
<1>1. InReach(db', now') /\ ScreensShow(db', screens')
  BY WithdrawnInReach, WithdrawnShow, Zenon DEF ConsentInv
<1>2. TaskContexts(db')
  BY Zenon DEF ConsentInv, TaskContexts, Withdrawn, RequestWithdrawn
<1>3. Informed
  BY Zenon DEF Informed, Withdrawn, GrantWithdrawn
<1>4. Lasting
  BY Zenon DEF Lasting, Withdrawn, RequestWithdrawn
<1> QED  BY <1>1, <1>2, <1>3, <1>4, Zenon DEF Consented

(* The tables do not change.                                               *)
LEMMA SameConsented ==
    ASSUME ConsentInv, db' = db, screens' = screens, InReach(db, now')
    PROVE  Consented
<1>1. Announced
  BY SteadyReflexive, SteadyAnnounced, Zenon
<1>2. Informed /\ Lasting
  BY Zenon DEF Informed, Lasting
<1>3. InReach(db', now') /\ TaskContexts(db') /\ ScreensShow(db', screens')
  BY Zenon DEF ConsentInv
<1> QED  BY <1>1, <1>2, <1>3, Zenon DEF Consented

(* The clock only moves away from deadlines.                               *)
LEMMA LaterInReach ==
    ASSUME NEW T \in DatabaseType, NEW clock \in Nat, InReach(T, clock)
    PROVE  InReach(T, clock + 1)
<1>1. ASSUME NEW time \in Nat, NEW spans \in SUBSET Nat, Near(time, clock, spans)
      PROVE  Near(time, clock + 1, spans)
  <2>1. PICK span \in spans : time <= clock + span
    BY <1>1, Zenon DEF Near
  <2>2. time <= clock + 1 + span
    BY <2>1
  <2> QED  BY <2>2, Zenon DEF Near
<1>2. GrantsNear(T, clock + 1)
  <2>1. \A g \in GrantIds : T.grants[g].expires \in Nat /\ Spans(T, g) \in SUBSET Nat
    <3>1. \A r \in Requests : T.requests[r].ctx.duration \in Nat
      BY Zenon DEF DatabaseType, Request, Context
    <3>2. \A g \in GrantIds : T.grants[g].expires \in Nat
      BY Zenon DEF DatabaseType, Grant
    <3>3. Durations \subseteq Nat
      BY BoundsAssumption, Zenon
    <3> QED  BY <3>1, <3>2, <3>3, GrantNames, Zenon DEF Spans
  <2> QED  BY <1>1, <2>1, Zenon DEF InReach, GrantsNear
<1>3. SessionsNear(T, clock + 1)
  <2>1. \A s \in Sessions : T.sessions[s].limit \in Nat
    BY Zenon DEF DatabaseType, Session
  <2> QED  BY <1>1, <2>1, BoundsAssumption, Zenon DEF InReach, SessionsNear
<1>4. RequestsNear(T, clock + 1)
  <2>1. \A r \in Requests : T.requests[r].deadline \in Nat
    BY Zenon DEF DatabaseType, Request
  <2> QED  BY <1>1, <2>1, BoundsAssumption, Zenon DEF InReach, RequestsNear
<1>5. DataNear(T, clock + 1)
  <2>1. \A a \in Artifacts : T.artifacts[a].expires \in Nat
    BY Zenon DEF DatabaseType, Artifact
  <2>2. Retentions \in SUBSET Nat
    BY DefinitionsAssumption, Zenon DEF Retentions
  <2> QED  BY <1>1, <2>1, <2>2, Zenon DEF InReach, DataNear
<1>6. ReceiptsPast(T, clock + 1)
  BY DEF InReach, ReceiptsPast, DatabaseType, Authorization
<1> QED  BY <1>2, <1>3, <1>4, <1>5, <1>6, Zenon DEF InReach

(* After the reset of runtime state nothing has a deadline (ResetRuntime). *)
LEMMA ResetInReach ==
    ASSUME NEW T \in DatabaseType, NEW clock
    PROVE  InReach(ResetRuntime(T), clock)
<1> DEFINE M == [T EXCEPT
         !.requests = FinishedRequests(T, Requests, "INVALIDATED"),
         !.sessions = [s \in Sessions |->
             IF Open(T.sessions[s])
             THEN [T.sessions[s] EXCEPT !.state = "CLOSING", !.generation = @ + 1]
             ELSE T.sessions[s]],
         !.grants = RevokedGrants(T,
             {g \in GrantIds : T.grants[g].mode # "PERSISTENT"}),
         !.auths = InvalidAuths(T, Operations),
         !.artifacts = BlockedArtifacts(T, Artifacts)]
           U == FinishCleanup(M)
<1>1. \A g \in GrantIds : M.grants[g].state = "live" => M.grants[g].mode # "TIMED"
  BY DEF RevokedGrants, DatabaseType, Grant
<1>2. \A s \in Sessions : ~Open(M.sessions[s])
  BY DEF Open, DatabaseType, Session
<1>3. \A r \in Requests : M.requests[r].state # "PENDING"
  <2>1. ASSUME NEW q \in Request
        PROVE  [q EXCEPT !.state = "INVALIDATED", !.token = 0].state = "INVALIDATED"
    BY Zenon DEF Request
  <2>2. \A r \in Requests : FinishedRequests(T, Requests, "INVALIDATED")[r].state # "PENDING"
    BY <2>1, Zenon DEF FinishedRequests, DatabaseType
  <2> QED  BY <2>2, Zenon DEF DatabaseType
<1>4. \A o \in Operations : M.auths[o].state # "valid"
  BY DEF InvalidAuths, DatabaseType, Authorization
<1>5. \A a \in Artifacts : M.artifacts[a].state # "ACTIVE"
  BY DEF BlockedArtifacts, DatabaseType, Artifact
<1>6. M \in DatabaseType
  BY ClosingType, RevokedGrantsType, InvalidAuthsType, BlockedArtifactsType,
     FinishedRequestsType, Zenon DEF DatabaseType
<1> HIDE DEF M
<1>7. /\ U.grants = M.grants /\ U.requests = M.requests /\ U.auths = M.auths
      /\ U.artifacts = M.artifacts
  BY <1>6, Zenon DEF FinishCleanup, DatabaseType
<1>8. \A s \in Sessions : ~Open(U.sessions[s])
  BY <1>2, <1>6 DEF FinishCleanup, Open, DatabaseType, Session
<1> HIDE DEF U
<1>9. InReach(U, clock)
  BY <1>1, <1>3, <1>4, <1>5, <1>7, <1>8, Zenon
     DEF InReach, GrantsNear, SessionsNear, RequestsNear, DataNear, ReceiptsPast
<1> QED  BY <1>9, Zenon DEF ResetRuntime, U, M

(* The clock and the package manager.                                      *)
LEMMA EnvironmentConsented ==
    ASSUME ConsentInv, Advance \/ \E p \in Packages : Reinstall(p)
    PROVE  Consented
<1>1. CASE Advance
  <2>1. InReach(db, now + 1)
    BY LaterInReach, Zenon DEF ConsentInv, Inv, TypeOK
  <2> QED  BY <1>1, <2>1, SameConsented, Zenon DEF Advance
<1>2. CASE \E p \in Packages : Reinstall(p)
  <2>1. db' = db /\ now' = now /\ screens' = screens
    BY <1>2, Zenon DEF Reinstall
  <2> QED  BY <2>1, SameConsented, Zenon DEF ConsentInv
<1> QED  BY <1>1, <1>2, Zenon

(* The sweep before a request (Execute).                                   *)
LEMMA SweepConsented == ConsentInv /\ Sweep => Consented
<1> SUFFICES ASSUME ConsentInv, Sweep PROVE Consented
  OBVIOUS
<1>1. Withdrawn(db, db') /\ screens' = screens /\ now' = now
  BY SweepGood, Zenon DEF ConsentInv, Sweep
<1>2. CASE ExpireChanges(db, now)
  BY <1>1, <1>2, RevisedAnnounced, WithdrawnConsented, Zenon DEF Sweep
<1>3. CASE ~ExpireChanges(db, now)
  <2>1. db \in DatabaseType /\ now \in Nat /\ Grace \in Nat
    BY BoundsAssumption, Zenon DEF ConsentInv, Inv, TypeOK
  <2>2. Steady(db, db')
    BY <1>3, <2>1, ExpireSteady, Zenon DEF Sweep
  <2> QED  BY <1>1, <2>2, SteadyAnnounced, WithdrawnConsented, Zenon
<1> QED  BY <1>2, <1>3, Zenon

(* The timer: a tick that finds nothing to do announces nothing (Tick).    *)
LEMMA TickConsented == ConsentInv /\ Tick => Consented
<1> SUFFICES ASSUME ConsentInv, Tick PROVE Consented
  OBVIOUS
<1> DEFINE replayed == Replay(db, registry, authority)
           tables == Expire(replayed, now, Grace)
           changed == \/ ChangedDefinitions(db, registry, authority) # {}
                      \/ ExpireChanges(replayed, now)
<1>1. Withdrawn(db, db')
  BY TickGood, Zenon DEF ConsentInv
<1>2. /\ screens' = screens /\ now' = now /\ revised' = changed
      /\ \/ db' = tables
         \/ \E receiptsFirst \in BOOLEAN : db' = CompactMetadata(tables, receiptsFirst)
  BY Zenon DEF Tick
<1>3. CASE changed
  BY <1>1, <1>2, <1>3, RevisedAnnounced, WithdrawnConsented, Zenon
<1>4. CASE ~changed
  <2>1. /\ db \in DatabaseType /\ now \in Nat /\ Grace \in Nat
        /\ registry \in [Definitions -> Definition]
    BY BoundsAssumption, Zenon DEF ConsentInv, Inv, TypeOK
  <2>2. replayed \in DatabaseType /\ Steady(db, replayed)
    BY <1>4, <2>1, ReplayType, ReplaySteady, Zenon
  <2>3. ~ExpireChanges(replayed, now)
    BY <1>4, Zenon
  <2> HIDE DEF changed, replayed
  <2>4. tables \in DatabaseType /\ Steady(replayed, tables)
    BY <2>1, <2>2, <2>3, ExpireType, ExpireSteady, Zenon
  <2> HIDE DEF tables
  <2>5. Steady(db, tables)
    BY <2>2, <2>4, SteadyTransitive, Zenon
  <2>6. Steady(db, db')
    <3>1. \A receiptsFirst : Steady(db, CompactMetadata(tables, receiptsFirst))
      <4> TAKE receiptsFirst
      <4>1. Steady(tables, CompactMetadata(tables, receiptsFirst))
        BY <2>4, CompactMetadataSteady, Zenon
      <4> QED  BY <2>5, <4>1, SteadyTransitive, Zenon
    <3> QED  BY <1>2, <2>5, <3>1, Zenon
  <2> QED  BY <1>1, <1>2, <2>6, SteadyAnnounced, WithdrawnConsented, Zenon
<1> QED  BY <1>3, <1>4, Zenon

(* What else the daemon does on its own.                                   *)
LEMMA DaemonConsented ==
    ASSUME ConsentInv, \/ Answer
                       \/ \E retire \in BOOLEAN : FenceProfiles(retire)
                       \/ \E clock \in {0, now} : Restart(clock)
    PROVE  Consented
<1>1. CASE Answer
  <2>1. db' = db /\ now' = now /\ screens' = screens
    BY <1>1, Zenon DEF Answer, Commit
  <2> QED  BY <2>1, SameConsented, Zenon DEF ConsentInv
<1>2. ASSUME NEW retire \in BOOLEAN, FenceProfiles(retire)
      PROVE  Consented
  <2>1. Withdrawn(db, db')
    BY <1>2, FenceProfilesGood, Zenon DEF ConsentInv
  <2>2. screens' = screens /\ now' = now /\ revised'
    BY <1>2, Zenon DEF FenceProfiles
  <2> QED  BY <2>1, <2>2, RevisedAnnounced, WithdrawnConsented, Zenon
<1>3. ASSUME NEW clock \in {0, now}, Restart(clock)
      PROVE  Consented
  <2>1. Withdrawn(db, db')
    BY <1>3, RestartGood, Zenon DEF ConsentInv
  <2>2. screens' = screens /\ revised'
    BY <1>3, Zenon DEF Restart
  <2>3. InReach(db', now')
    <3>1. Replay(db, registry, authority) \in DatabaseType
      BY ReplayType, Zenon DEF ConsentInv, Inv, TypeOK
    <3>2. db' = ResetRuntime(Replay(db, registry, authority))
      BY <1>3, Zenon DEF Restart
    <3> QED  BY <3>1, <3>2, ResetInReach, Zenon
  <2>4. ScreensShow(db', screens')
    BY <2>1, <2>2, WithdrawnShow, Zenon DEF ConsentInv
  <2>5. TaskContexts(db')
    BY <2>1, Zenon DEF ConsentInv, TaskContexts, Withdrawn, RequestWithdrawn
  <2>6. Informed
    BY <2>1, Zenon DEF Informed, Withdrawn, GrantWithdrawn
  <2>7. Lasting
    BY <2>1, Zenon DEF Lasting, Withdrawn, RequestWithdrawn
  <2> QED  BY <2>2, <2>3, <2>4, <2>5, <2>6, <2>7, RevisedAnnounced, Zenon DEF Consented
<1> QED  BY <1>1, <1>2, <1>3, Zenon

(* Calls of packages that define conditions.                               *)
LEMMA DefinersConsented ==
    ASSUME ConsentInv, Definers
    PROVE  Consented
<1>1. Withdrawn(db, db')
  BY RegisterGood, UnregisterGood, Zenon DEF ConsentInv, Definers
<1>2. screens' = screens /\ now' = now /\ revised'
  BY Zenon DEF Definers, Register, Unregister, Commit
<1> QED  BY <1>1, <1>2, RevisedAnnounced, WithdrawnConsented, Zenon

-----------------------------------------------------------------------------
(* Steps that change one table and bump the revision.                      *)

(* A request changes, and perhaps grants with it; no screen is new.        *)
LEMMA RequestConsented ==
    ASSUME ConsentInv, NEW r \in Requests,
           db'.sessions = db.sessions, db'.auths = db.auths, db'.artifacts = db.artifacts,
           \A x \in Requests \ {r} : db'.requests[x] = db.requests[x],
           screens' = screens, now' = now, revised',
           db'.requests[r].token = 0,
           db'.requests[r].ctx.version = 0 => db'.requests[r].ctx.kind = "TASK",
           db'.requests[r].state = "PENDING" => Near(db'.requests[r].deadline, now, Waits),
           GrantsNear(db', now), Informed, Lasting
    PROVE  Consented
<1>1. RequestsNear(db', now)
  <2> SUFFICES ASSUME NEW x \in Requests, db'.requests[x].state = "PENDING"
               PROVE  Near(db'.requests[x].deadline, now, Waits)
    BY Zenon DEF RequestsNear
  <2>1. CASE x = r
    BY <2>1, Zenon
  <2>2. CASE x # r
    BY <2>2, Zenon DEF ConsentInv, InReach, RequestsNear
  <2> QED  BY <2>1, <2>2, Zenon
<1>2. InReach(db', now')
  BY <1>1, Zenon DEF ConsentInv, InReach, SessionsNear, DataNear, ReceiptsPast
<1>3. TaskContexts(db')
  <2>1. \A x \in Requests \ {r} :
           db'.requests[x].ctx.version = 0 => db'.requests[x].ctx.kind = "TASK"
    BY Zenon DEF ConsentInv, TaskContexts
  <2> QED  BY <2>1, Zenon DEF TaskContexts
<1>4. ScreensShow(db', screens')
  <2> SUFFICES ASSUME NEW x \in Requests, NEW screen \in screens[x]
               PROVE  /\ screen.token \in 1..Cardinality(screens[x])
                      /\ Shows(screen, db'.requests[x])
    BY Zenon DEF ScreensShow
  <2>1. screen.token \in 1..Cardinality(screens[x]) /\ Shows(screen, db.requests[x])
    BY Zenon DEF ConsentInv, ScreensShow
  <2>2. CASE x = r
    BY <2>1, <2>2, NoToken, Zenon
  <2>3. CASE x # r
    BY <2>1, <2>3, Zenon
  <2> QED  BY <2>2, <2>3, Zenon
<1> QED  BY <1>2, <1>3, <1>4, RevisedAnnounced, Zenon DEF Consented

(* The other tables change, and no request.                                *)
LEMMA OthersConsented ==
    ASSUME ConsentInv, db'.requests = db.requests, screens' = screens, now' = now, revised',
           InReach(db', now),
           \A g \in GrantIds : db.grants[g].state = "none" => db'.grants[g].state = "none"
    PROVE  Consented
<1>1. Informed
  BY Zenon DEF Informed
<1>2. Lasting
  BY Zenon DEF Lasting
<1>3. TaskContexts(db') /\ ScreensShow(db', screens')
  BY Zenon DEF ConsentInv, TaskContexts, ScreensShow
<1> QED  BY <1>1, <1>2, <1>3, RevisedAnnounced, Zenon DEF Consented

(* One session changes to one within its limits.                           *)
LEMMA SessionConsented ==
    ASSUME ConsentInv, NEW s \in Sessions, NEW session,
           db' = [db EXCEPT !.sessions[s] = session],
           screens' = screens, now' = now, revised',
           Near(session.limit, now, Lifetimes)
    PROVE  Consented
<1>1. /\ db'.requests = db.requests /\ db'.grants = db.grants /\ db'.auths = db.auths
      /\ db'.artifacts = db.artifacts
      /\ \A t \in Sessions : db'.sessions[t] = IF t = s THEN session ELSE db.sessions[t]
  BY Zenon DEF ConsentInv, Inv, TypeOK, DatabaseType
<1>2. SessionsNear(db', now)
  BY <1>1, Zenon DEF ConsentInv, InReach, SessionsNear
<1>3. GrantsNear(db', now) /\ RequestsNear(db', now) /\ DataNear(db', now)
      /\ ReceiptsPast(db', now)
  BY <1>1, Zenon DEF ConsentInv, InReach, GrantsNear, Spans, RequestsNear, DataNear, ReceiptsPast
<1> QED  BY <1>1, <1>2, <1>3, OthersConsented, Zenon DEF InReach

(* Calls about sessions: a heartbeat and a resume leave the limit.         *)
LEMMA SessionCallsConsented ==
    ASSUME ConsentInv, SessionCalls
    PROVE  Consented
<1> USE DEF ConsentInv
<1>1. /\ screens' = screens /\ now' = now /\ revised'
      /\ db \in DatabaseType /\ now \in Nat /\ SessionsNear(db, now)
  BY Zenon DEF SessionCalls, SessionOpen, SessionClose, SessionSuspend, SessionResume,
               SessionHeartbeat, Update, Commit, Inv, TypeOK, InReach
<1>2. ASSUME NEW s \in Sessions, NEW lifecycle \in Lifecycles, NEW lifetime \in Lifetimes,
             SessionOpen(s, lifecycle, lifetime)
      PROVE  Consented
  <2> DEFINE session == [state |-> "ACTIVE", policy |-> lifecycle, generation |-> 1,
                         limit |-> now + lifetime, lease |-> now + Lease, resume |-> 0]
  <2>1. db' = [db EXCEPT !.sessions[s] = session]
    BY <1>2, Zenon DEF SessionOpen, Update, Commit
  <2>2. session.limit <= now + lifetime
    BY <1>1, BoundsAssumption
  <2> HIDE DEF session
  <2>3. Near(session.limit, now, Lifetimes)
    BY <2>2, Zenon DEF Near
  <2> QED  BY <1>1, <2>1, <2>3, SessionConsented, Zenon
<1>3. ASSUME NEW s \in Sessions, SessionClose(s) \/ SessionSuspend(s)
      PROVE  Consented
  <2>1. Withdrawn(db, db')
    BY <1>3, SessionCloseGood, SessionSuspendGood, Zenon
  <2> QED  BY <1>1, <2>1, RevisedAnnounced, WithdrawnConsented, Zenon
<1>4. ASSUME NEW s \in Sessions, SessionResume(s) \/ SessionHeartbeat(s)
      PROVE  Consented
  <2> DEFINE old == db.sessions[s]
             generation == db.sessions[s].generation + 1
             lease == now + Lease
             resumed == [old EXCEPT !.state = "ACTIVE", !.generation = generation, !.lease = lease]
             held == [old EXCEPT !.lease = lease]
  <2>1. Open(old) /\ old \in Session
    BY <1>1, <1>4, Zenon DEF SessionResume, SessionHeartbeat, Open, DatabaseType
  <2>2. \E session \in {resumed, held} : db' = [db EXCEPT !.sessions[s] = session]
    <3>1. CASE SessionResume(s)
      <4>1. db' = [db EXCEPT !.sessions[s].state = "ACTIVE",
                             !.sessions[s].generation = generation, !.sessions[s].lease = lease]
        BY <3>1, Zenon DEF SessionResume, Update, Commit
      <4> HIDE DEF generation, lease
      <4>2. db' = [db EXCEPT !.sessions[s] = resumed]
        BY <1>1, <4>1, ZenonT(60) DEF DatabaseType, Session
      <4> HIDE DEF resumed, held
      <4> QED  BY <4>2, Zenon
    <3>2. CASE SessionHeartbeat(s)
      <4>1. db' = [db EXCEPT !.sessions[s].lease = lease]
        BY <3>2, Zenon DEF SessionHeartbeat, Update, Commit
      <4> HIDE DEF lease
      <4>2. db' = [db EXCEPT !.sessions[s] = held]
        BY <1>1, <4>1, ZenonT(60) DEF DatabaseType, Session
      <4> HIDE DEF resumed, held
      <4> QED  BY <4>2, Zenon
    <3> QED  BY <1>4, <3>1, <3>2, Zenon
  <2>3. \A session \in {resumed, held} : session.limit = old.limit
    BY <2>1, Zenon DEF Session
  <2>4. Near(old.limit, now, Lifetimes)
    BY <1>1, <2>1, Zenon DEF SessionsNear
  <2> HIDE DEF resumed, held, old
  <2>5. PICK session \in {resumed, held} : db' = [db EXCEPT !.sessions[s] = session]
    BY <2>2, Zenon
  <2>6. Near(session.limit, now, Lifetimes)
    BY <2>3, <2>4, Zenon
  <2> QED  BY <1>1, <2>5, <2>6, SessionConsented, Zenon
<1> QED  BY <1>2, <1>3, <1>4, Zenon DEF SessionCalls
=============================================================================
