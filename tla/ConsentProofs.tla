---------------------------- MODULE ConsentProofs ---------------------------
(* Requests, approvals, executions and data: what an approval rests on and *)
(* how long it lasts.                                                      *)
EXTENDS DecisionProofs

-----------------------------------------------------------------------------
(* Requests.                                                               *)

(* What Evaluate allows in advance has grants that last (Covers).          *)
LEMMA AllowedLasts ==
    ASSUME NEW T, NEW q, NEW clock, CheckConditions(T, q, clock) = "ALLOWED",
           q.ctx.version # 0, q.ctx.kind = "PREAPPROVAL", q.ctx.mode # "ONCE", NEW d \in q.rows
    PROVE  \E x \in Requests : LastsAs(T.grants[x, d], q)
<1>1. Newest(T, q, d, clock) # {}
  BY Zenon DEF CheckConditions, DeniedRows, MissingRows
<1>2. PICK g \in Newest(T, q, d, clock) : TRUE
  BY <1>1, Zenon
<1>3. /\ g \in GrantIds /\ g[2] = d /\ T.grants[g].state = "live"
      /\ T.grants[g].mode = "SESSION" => T.grants[g].session = q.session
      /\ Covers(q, T.grants[g], clock)
  BY <1>2, Zenon DEF Newest, Covering
<1>4. PICK x \in Requests : g = <<x, d>>
  BY <1>3 DEF GrantIds
<1>5. LastsAs(T.grants[g], q)
  BY <1>3, Zenon DEF LastsAs, Covers
<1> QED  BY <1>4, <1>5, Zenon

(* One request is allowed on such grounds, or not allowed.                 *)
AllowedOn(r, T, q) ==
    /\ T.grants = db'.grants
    /\ \A x \in Requests \ {r} : db'.requests[x] = db.requests[x]
    /\ db'.requests[r].state = "ALLOWED" => CheckConditions(T, q, now) = "ALLOWED"
    /\ q.rows = db'.requests[r].rows /\ q.ctx = db'.requests[r].ctx
    /\ q.session = db'.requests[r].session /\ q.target = db'.requests[r].target
    /\ db'.requests[r].ctx.version = 0 => db'.requests[r].ctx.kind = "TASK"

(* Then what it is allowed on lasts.                                       *)
LEMMA AllowedLasting ==
    ASSUME NEW r \in Requests, NEW T, NEW q, AllowedOn(r, T, q)
    PROVE  Lasting
<1> USE DEF AllowedOn
<1> SUFFICES ASSUME NEW x \in Requests,
                    db.requests[x].state # "ALLOWED", db'.requests[x].state = "ALLOWED",
                    db'.requests[x].ctx.kind = "PREAPPROVAL", db'.requests[x].ctx.mode # "ONCE",
                    NEW d \in db'.requests[x].rows
             PROVE  \E y \in Requests : LastsAs(db'.grants[y, d], db'.requests[x])
  BY Zenon DEF Lasting
<1>1. x = r
  BY Zenon
<1>2. /\ CheckConditions(T, q, now) = "ALLOWED" /\ d \in q.rows
      /\ q.ctx.version # 0 /\ q.ctx.kind = "PREAPPROVAL" /\ q.ctx.mode # "ONCE"
  BY <1>1, Zenon
<1>3. \E y \in Requests : LastsAs(T.grants[y, d], q)
  BY <1>2, AllowedLasts, Zenon
<1> QED  BY <1>1, <1>3, ZenonT(60) DEF LastsAs

(* What a rewrite of a request leaves (RequestRewritten has the rest).     *)
LEMMA RewrittenLeaves ==
    ASSUME NEW q \in Request, NEW state, NEW token, NEW shown, NEW chosen, NEW rank
    PROVE  /\ Rewritten(q, state, token, shown, chosen, rank).state = state
           /\ Rewritten(q, state, token, shown, chosen, rank).token = token
           /\ Rewritten(q, state, token, shown, chosen, rank).shown = shown
           /\ Rewritten(q, state, token, shown, chosen, rank).ctx = q.ctx
           /\ Rewritten(q, state, token, shown, chosen, rank).rows = q.rows
           /\ Rewritten(q, state, token, shown, chosen, rank).session = q.session
           /\ Rewritten(q, state, token, shown, chosen, rank).deadline = q.deadline
           /\ Rewritten(q, state, token, shown, chosen, rank).target = q.target
           /\ Rewritten(q, state, token, shown, chosen, rank).versions = q.versions
BY Zenon DEF Request, Rewritten

(* A pending request ends, with no new grant.                              *)
LEMMA EndedConsented ==
    ASSUME ConsentInv, NEW r \in Requests, NEW state, NEW shown, NEW chosen, NEW rank,
           db' = WithRequest(db, r, Rewritten(db.requests[r], state, 0, shown, chosen, rank)),
           state # "PENDING",
           state = "ALLOWED" => CheckConditions(db, db.requests[r], now) = "ALLOWED",
           screens' = screens, now' = now, revised'
    PROVE  Consented
<1> DEFINE q == db.requests[r]
           new == Rewritten(q, state, 0, shown, chosen, rank)
<1>1. db \in DatabaseType /\ q \in Request
  BY Zenon DEF ConsentInv, Inv, TypeOK, DatabaseType
<1>2. /\ new.state = state /\ new.token = 0 /\ new.ctx = q.ctx /\ new.rows = q.rows
      /\ new.session = q.session /\ new.target = q.target
  <2> HIDE DEF q
  <2> QED  BY <1>1, RewrittenLeaves, SMTT(60)
<1> HIDE DEF new
<1>3. /\ db'.sessions = db.sessions /\ db'.auths = db.auths /\ db'.artifacts = db.artifacts
      /\ db'.grants = db.grants
      /\ \A x \in Requests \ {r} : db'.requests[x] = db.requests[x]
      /\ db'.requests[r] = new
  BY <1>1, Zenon DEF DatabaseType, WithRequest, new
<1>4. \A x \in Requests : db'.requests[x].ctx = db.requests[x].ctx
  BY <1>2, <1>3, Zenon
<1>5. new.ctx.version = 0 => new.ctx.kind = "TASK"
  BY <1>2, Zenon DEF ConsentInv, TaskContexts
<1>6. GrantsNear(db', now)
  <2>1. \A g \in GrantIds : Spans(db', g) = Spans(db, g)
    BY <1>4, GrantNames, Zenon DEF Spans
  <2> QED  BY <1>3, <2>1, Zenon DEF ConsentInv, InReach, GrantsNear
<1>7. Informed
  BY <1>3, Zenon DEF Informed
<1>8. Lasting
  <2>1. AllowedOn(r, db, q)
    BY <1>2, <1>3, <1>5, Zenon DEF AllowedOn
  <2> HIDE DEF q
  <2> QED  BY <2>1, AllowedLasting, Zenon
<1> QED  BY <1>2, <1>3, <1>5, <1>6, <1>7, <1>8, RequestConsented, ZenonT(60)

(* The user cancels or denies, or nothing is left to ask.                  *)
LEMMA EndCallsConsented ==
    ASSUME ConsentInv, NEW r \in Requests,
           \/ CancelRequest(r) \/ FinishUnasked(r)
           \/ \E screen \in screens[r], mode \in GrantModes : Deny(r, screen, mode)
    PROVE  Consented
<1> DEFINE q == db.requests[r]
<1>1. db \in DatabaseType /\ q \in Request
  BY Zenon DEF ConsentInv, Inv, TypeOK, DatabaseType
<1>2. screens' = screens /\ now' = now /\ revised'
  BY Zenon DEF CancelRequest, FinishUnasked, Deny, Update, Commit
<1>3. CASE CancelRequest(r)
  <2>1. db' = [db EXCEPT !.requests[r] = [q EXCEPT !.state = "CANCELLED", !.token = 0]]
    BY <1>1, <1>3, Zenon DEF CancelRequest, Update, Commit, DatabaseType
  <2>2. db' = WithRequest(db, r, Rewritten(q, "CANCELLED", 0, q.shown, q.chosen, q.rank))
    BY <1>1, <2>1, RewriteCancel, Zenon DEF WithRequest
  <2>3. "CANCELLED" # "PENDING" /\ "CANCELLED" # "ALLOWED"
    OBVIOUS
  <2> QED  BY <1>2, <2>2, <2>3, EndedConsented, Zenon
<1>4. ASSUME NEW state, NEW chosen, db' = Settled(db, r, state, chosen), state # "PENDING",
             state = "ALLOWED" => CheckConditions(db, q, now) = "ALLOWED"
      PROVE  Consented
  <2>1. db' = WithRequest(db, r, SettledRequest(q, state, chosen))
    BY <1>1, <1>4, SettledTables, Zenon
  <2>2. SettledRequest(q, state, chosen) = Rewritten(q, state, 0, {}, chosen, q.rank)
    BY <1>1, RewriteAnswer, Zenon DEF SettledRequest
  <2>3. db' = WithRequest(db, r, Rewritten(q, state, 0, {}, chosen, q.rank))
    BY <2>1, <2>2, Zenon
  <2> QED  BY <1>2, <1>4, <2>3, EndedConsented, Zenon
<1>5. CASE FinishUnasked(r)
  <2> DEFINE state == IF CheckConditions(db, q, now) = "ALLOWED" THEN "ALLOWED" ELSE "INVALIDATED"
             chosen == IF q.ctx.version = 2 THEN q.ctx.mode ELSE ""
  <2>1. db' = Settled(db, r, state, chosen)
    BY <1>5, Zenon DEF FinishUnasked, Update, Commit, Settled
  <2>2. /\ state # "PENDING"
        /\ state = "ALLOWED" => CheckConditions(db, q, now) = "ALLOWED"
    BY Zenon
  <2> HIDE DEF state, chosen
  <2> QED  BY <1>4, <2>1, <2>2, Zenon
<1>6. ASSUME NEW screen, NEW mode, Deny(r, screen, mode)
      PROVE  Consented
  <2>1. db' = Settled(db, r, "DENIED", Chosen(q, mode).chosen)
    BY <1>6, Zenon DEF Deny, Update, Commit, Settled
  <2>2. "DENIED" # "PENDING" /\ "DENIED" # "ALLOWED"
    OBVIOUS
  <2> QED  BY <1>4, <2>1, <2>2, Zenon
<1> QED  BY <1>3, <1>5, <1>6, Zenon

(* A stored approval is retired: nothing but the state changes.            *)
LEMMA RetireConsented ==
    ASSUME ConsentInv, NEW r \in Requests, RetireStoredApproval(r)
    PROVE  Consented
<1> DEFINE q == db.requests[r]
           new == [q EXCEPT !.state = "INVALIDATED"]
<1>1. db \in DatabaseType /\ q \in Request /\ q.state = "ALLOWED"
  BY Zenon DEF ConsentInv, Inv, TypeOK, DatabaseType, RetireStoredApproval
<1>2. /\ db' = [db EXCEPT !.requests[r] = new]
      /\ screens' = screens /\ now' = now /\ revised'
  BY <1>1, Zenon DEF RetireStoredApproval, Update, Commit, DatabaseType
<1>3. RequestWithdrawn(q, new)
  BY <1>1, Zenon DEF Request, RequestWithdrawn
<1> HIDE DEF new
<1>4. Withdrawn(db, db)
  BY <1>1, WithdrawnReflexive, Zenon DEF Withdrawn
<1>5. /\ db'.grants = db.grants /\ db'.auths = db.auths /\ db'.artifacts = db.artifacts
      /\ db'.sessions = db.sessions
      /\ \A x \in Requests : db'.requests[x] = IF x = r THEN new ELSE db.requests[x]
  BY <1>1, <1>2, Zenon DEF DatabaseType
<1>6. \A x \in Requests : RequestWithdrawn(db.requests[x], db'.requests[x])
  BY <1>3, <1>4, <1>5, Zenon DEF Withdrawn
<1>7. Withdrawn(db, db')
  BY <1>4, <1>5, <1>6, Zenon DEF Withdrawn
<1> QED  BY <1>2, <1>7, RevisedAnnounced, WithdrawnConsented, Zenon

(* A request is made: no grant names it yet, and its deadline is new.      *)
LEMMA CreateConsented ==
    ASSUME ConsentInv, NEW r \in Requests, NEW rows \in RowSets, NEW s \in CallSessions,
           NEW ctx \in Contexts, NEW wait \in Waits, CreateRequest(r, rows, s, ctx, wait)
    PROVE  Consented
<1> DEFINE q == Query(rows, s, ctx)
           decision == CheckConditions(db, q, now)
           state == IF decision = "CONSENT_REQUIRED" THEN "PENDING" ELSE decision
           generation == q.generation
           target == q.target
           versions == [d \in Definitions |->
               IF d \in rows /\ db.defs[d].active
               THEN <<db.defs[d].policy, db.defs[d].text>> ELSE <<0, 0>>]
           allowed == rows \ (MissingRows(db, q, now) \cup DeniedRows(db, q))
           chosen == IF ctx.version = 2 /\ decision = "ALLOWED" THEN ctx.mode ELSE ""
           deadline == now + wait
           new == [state |-> state, ctx |-> ctx, rows |-> rows, session |-> s,
                   generation |-> generation, deadline |-> deadline, target |-> target,
                   versions |-> versions, allowed |-> allowed, token |-> 0, shown |-> {},
                   chosen |-> chosen, rank |-> 0]
<1>1. /\ db \in DatabaseType /\ db.requests[r].state = "NONE"
      /\ db' = [db EXCEPT !.requests[r] = new]
      /\ screens' = screens /\ now' = now /\ revised'
  BY Zenon DEF CreateRequest, Update, Commit, ConsentInv, Inv, TypeOK
<1>2. state = "ALLOWED" => CheckConditions(db, q, now) = "ALLOWED"
  BY Zenon
<1>3. q.rows = rows /\ q.ctx = ctx /\ q.session = s /\ q.target = target
  BY Zenon DEF Query
<1>4. Near(deadline, now, Waits)
  <2>1. deadline <= now + wait
    BY BoundsAssumption DEF ConsentInv, Inv, TypeOK
  <2> QED  BY <2>1, Zenon DEF Near
<1> HIDE DEF state, generation, target, deadline, versions, allowed, chosen, decision, q
<1>5. /\ new.state = state /\ new.ctx = ctx /\ new.rows = rows /\ new.session = s
      /\ new.deadline = deadline /\ new.target = target /\ new.token = 0
  BY Zenon
<1> HIDE DEF new
<1>6. /\ db'.sessions = db.sessions /\ db'.auths = db.auths /\ db'.artifacts = db.artifacts
      /\ db'.grants = db.grants
      /\ \A x \in Requests \ {r} : db'.requests[x] = db.requests[x]
      /\ db'.requests[r] = new
  BY <1>1, Zenon DEF DatabaseType
<1>7. new.ctx.version = 0 => new.ctx.kind = "TASK"
  BY <1>5, ContextsAssumption, Zenon
<1>8. GrantsNear(db', now)
  <2>1. \A g \in GrantIds : g[1] = r => db.grants[g].state = "none"
    BY <1>1, Zenon DEF ConsentInv, Inv, DatabaseInv, RowsInv, FreshGrants
  <2>2. \A g \in GrantIds : g[1] # r => Spans(db', g) = Spans(db, g)
    BY <1>6, GrantNames, Zenon DEF Spans
  <2>3. ASSUME NEW g \in GrantIds, db'.grants[g].state = "live", db'.grants[g].mode = "TIMED"
        PROVE  Near(db'.grants[g].expires, now, Spans(db', g))
    <3>1. db'.grants[g] = db.grants[g]
      BY <1>6, Zenon
    <3>2. g[1] # r
      BY <2>1, <2>3, <3>1, Zenon
    <3>3. Near(db.grants[g].expires, now, Spans(db, g))
      BY <2>3, <3>1, Zenon DEF ConsentInv, InReach, GrantsNear
    <3> QED  BY <2>2, <3>1, <3>2, <3>3, Zenon
  <2> QED  BY <2>3, Zenon DEF GrantsNear
<1>9. Informed
  BY <1>6, Zenon DEF Informed
<1>10. Lasting
  <2>1. AllowedOn(r, db, q)
    BY <1>2, <1>3, <1>5, <1>6, <1>7, Zenon DEF AllowedOn
  <2> QED  BY <2>1, AllowedLasting, Zenon
<1>11. db'.requests[r].state = "PENDING" => Near(db'.requests[r].deadline, now, Waits)
  BY <1>4, <1>5, <1>6, Zenon
<1>12. /\ db'.requests[r].token = 0
       /\ db'.requests[r].ctx.version = 0 => db'.requests[r].ctx.kind = "TASK"
  BY <1>5, <1>6, <1>7, Zenon
<1> QED  BY <1>1, <1>6, <1>8, <1>9, <1>10, <1>11, <1>12, RequestConsented, ZenonT(60)

(* A prompt: the new token is on the new screen alone.                     *)
LEMMA GetPromptConsented ==
    ASSUME ConsentInv, NEW r \in Requests, GetPrompt(r)
    PROVE  Consented
<1> DEFINE q == db.requests[r]
           n == Cardinality(screens[r])
           token == n + 1
           shown == Displayed(q)
           screen == [token |-> token, rows |-> shown, versions |-> q.versions]
           new == [q EXCEPT !.token = token, !.shown = shown]
<1>1. db \in DatabaseType /\ q \in Request /\ q.state = "PENDING"
  BY Zenon DEF ConsentInv, Inv, TypeOK, DatabaseType, GetPrompt, Promptable
<1>2. n \in Nat /\ IsFiniteSet(screens[r]) /\ screens \in [Requests -> SUBSET Screen]
  BY FS_CardinalityType, Zenon DEF ConsentInv, Inv, TypeOK
<1>3. /\ db' = [db EXCEPT !.requests[r].token = token, !.requests[r].shown = shown]
      /\ screens' = [screens EXCEPT ![r] = @ \cup {screen}]
      /\ now' = now /\ revised'
  BY Zenon DEF GetPrompt, Commit
<1>4. q.ctx.version = 0 => shown = q.rows
  BY Zenon DEF Displayed
<1> HIDE DEF shown, token
<1>5. db' = [db EXCEPT !.requests[r] = new]
  BY <1>1, <1>3, Zenon DEF DatabaseType
<1>6. /\ new.state = "PENDING" /\ new.token = token /\ new.shown = shown /\ new.ctx = q.ctx
      /\ new.rows = q.rows /\ new.versions = q.versions /\ new.deadline = q.deadline
  BY <1>1, Zenon DEF Request
<1>7. screen.token = token /\ screen.rows = shown /\ screen.versions = q.versions
  BY Zenon
<1> HIDE DEF new, screen
<1>8. /\ db'.sessions = db.sessions /\ db'.auths = db.auths /\ db'.artifacts = db.artifacts
      /\ db'.grants = db.grants
      /\ \A x \in Requests \ {r} : db'.requests[x] = db.requests[x]
      /\ db'.requests[r] = new
  BY <1>1, <1>5, Zenon DEF DatabaseType
<1>9. \A x \in Requests :
         /\ db'.requests[x].ctx = db.requests[x].ctx
         /\ db'.requests[x].state = db.requests[x].state
         /\ db'.requests[x].deadline = db.requests[x].deadline
  BY <1>1, <1>6, <1>8, Zenon
<1>10. InReach(db', now')
  <2>1. \A g \in GrantIds : Spans(db', g) = Spans(db, g)
    BY <1>9, GrantNames, Zenon DEF Spans
  <2>2. GrantsNear(db', now) /\ RequestsNear(db', now)
    BY <1>8, <1>9, <2>1, Zenon DEF ConsentInv, InReach, GrantsNear, RequestsNear
  <2> QED  BY <1>3, <1>8, <2>2, Zenon
           DEF ConsentInv, InReach, SessionsNear, DataNear, ReceiptsPast
<1>11. TaskContexts(db') /\ Informed /\ Lasting
  BY <1>8, <1>9, Zenon DEF ConsentInv, TaskContexts, Informed, Lasting
<1>12. \A old \in screens[r] : old.token \in 1..n
  BY Zenon DEF ConsentInv, ScreensShow
<1> HIDE DEF n
<1>13. token \notin 1..n /\ token \in 1..(n + 1) /\ \A k \in 1..n : k \in 1..(n + 1)
  BY <1>2 DEF token
<1>14. screens'[r] = screens[r] \cup {screen} /\ Cardinality(screens'[r]) = n + 1
  <2>1. screen \notin screens[r]
    BY <1>7, <1>12, <1>13, Zenon
  <2>2. screens'[r] = screens[r] \cup {screen}
    BY <1>2, <1>3, Zenon
  <2>3. Cardinality(screens[r] \cup {screen}) = Cardinality(screens[r]) + 1
    BY <1>2, <2>1, FS_AddElement, Zenon
  <2> QED  BY <2>2, <2>3, Zenon DEF n
<1>15. ScreensShow(db', screens')
  <2> SUFFICES ASSUME NEW x \in Requests, NEW old \in screens'[x]
               PROVE  /\ old.token \in 1..Cardinality(screens'[x])
                      /\ Shows(old, db'.requests[x])
    BY Zenon DEF ScreensShow
  <2>1. CASE x # r
    <3>1. screens'[x] = screens[x] /\ db'.requests[x] = db.requests[x]
      BY <1>2, <1>3, <1>8, <2>1, Zenon
    <3> QED  BY <3>1, Zenon DEF ConsentInv, ScreensShow
  <2>2. CASE x = r /\ old \in screens[r]
    <3>1. old.token # token /\ old.token \in 1..(n + 1)
      BY <1>12, <1>13, <2>2, Zenon
    <3> QED  BY <1>6, <1>8, <1>14, <2>2, <3>1, Zenon DEF Shows
  <2>3. CASE x = r /\ old = screen
    <3>1. Shows(screen, new)
      BY <1>4, <1>6, <1>7, Zenon DEF Shows
    <3> QED  BY <1>7, <1>8, <1>13, <1>14, <2>3, <3>1, Zenon
  <2> QED  BY <1>14, <2>1, <2>2, <2>3, Zenon
<1> QED  BY <1>3, <1>10, <1>11, <1>15, RevisedAnnounced, Zenon DEF Consented

(* The request as the choice leaves it.                                    *)
LEMMA ChosenLeaves ==
    ASSUME NEW q \in Request, NEW mode
    PROVE  /\ Chosen(q, mode).rows = q.rows /\ Chosen(q, mode).ctx = q.ctx
           /\ Chosen(q, mode).session = q.session /\ Chosen(q, mode).target = q.target
BY Zenon DEF Chosen, Request

(* The user approves: only what the screen showed is granted, for as long  *)
(* as was chosen.                                                          *)
LEMMA ApproveConsented ==
    ASSUME ConsentInv, NEW r \in Requests, NEW screen, NEW mode \in GrantModes,
           NEW duration \in Durations \cup {db.requests[r].ctx.duration},
           Approve(r, screen, mode, duration)
    PROVE  Consented
<1> DEFINE q == db.requests[r]
           D == GrantedRows(q, mode)
           rank == 1 + Cardinality({x \in Requests : db.requests[x].rank > 0})
           grants == Inserted(r, D, mode, duration)
           granted == Granted(db, r, grants, rank)
           c == Chosen(q, mode)
           state == IF CheckConditions(granted, c, now) = "ALLOWED" THEN "ALLOWED" ELSE "INVALIDATED"
           chosen == Chosen(q, mode).chosen
           new == Rewritten(q, state, 0, {}, chosen, rank)
<1>1. Inv /\ db \in DatabaseType /\ DatabaseInv(db) /\ q \in Request /\ now \in Nat
  BY Zenon DEF ConsentInv, Inv, TypeOK, DatabaseType
<1>2. rank \in Nat
  <2>1. IsFiniteSet({x \in Requests : db.requests[x].rank > 0})
    BY NamesAssumption, FS_Subset, Zenon
  <2> QED  BY <2>1, FS_CardinalityType
<1>3. duration \in Nat
  BY <1>1, RequestFields, BoundsAssumption, Zenon DEF Context
<1>4. D \in SUBSET q.rows /\ (q.ctx.version # 0 => D \subseteq q.shown)
  BY <1>1, GrantedRowsWithin, Zenon DEF GrantedRows
<1>5. Promptable(r) /\ (mode = "SESSION" => q.session # NoSession)
  BY Zenon DEF Approve
<1>6. /\ db' = Settled(granted, r, state, chosen)
      /\ screens' = screens /\ now' = now /\ revised'
  BY Zenon DEF Approve, Update, Commit, Settled, Granted
<1>7. /\ state # "PENDING"
      /\ state = "ALLOWED" => CheckConditions(granted, c, now) = "ALLOWED"
  BY Zenon
<1>8. c.rows = q.rows /\ c.ctx = q.ctx /\ c.session = q.session /\ c.target = q.target
  BY <1>1, ChosenLeaves, Zenon
<1> HIDE DEF D, rank, state, chosen, c
<1>9. grants \in [GrantIds -> Grant]
  BY <1>1, <1>3, <1>4, <1>5, InsertedGrants, Zenon
<1>10. \A g \in GrantIds :
          \/ grants[g] = db.grants[g]
          \/ /\ g[1] = r /\ g[2] \in D
             /\ grants[g].mode = mode
             /\ grants[g].expires = IF mode = "TIMED" THEN now + duration ELSE 0
  BY Zenon DEF Inserted
<1> HIDE DEF grants
<1>11. granted.grants = grants
  BY <1>1, Zenon DEF Granted, DatabaseType
<1> HIDE DEF granted
<1>12. db' = WithAnswer(db, r, grants, new)
  BY <1>1, <1>2, <1>6, <1>9, GrantedTables, ZenonT(120) DEF granted
<1>13. /\ new.state = state /\ new.token = 0 /\ new.ctx = q.ctx /\ new.rows = q.rows
       /\ new.session = q.session /\ new.target = q.target
  BY <1>1, ZenonT(60) DEF Request, Rewritten
<1> HIDE DEF new
<1>14. /\ db'.sessions = db.sessions /\ db'.auths = db.auths /\ db'.artifacts = db.artifacts
       /\ db'.grants = grants
       /\ \A x \in Requests \ {r} : db'.requests[x] = db.requests[x]
       /\ db'.requests[r] = new
  BY <1>1, <1>12, Zenon DEF DatabaseType, WithAnswer
<1>15. \A x \in Requests : db'.requests[x].ctx = db.requests[x].ctx
  BY <1>13, <1>14, Zenon
<1>16. /\ db'.requests[r].token = 0 /\ db'.requests[r].state # "PENDING"
       /\ db'.requests[r].ctx.version = 0 => db'.requests[r].ctx.kind = "TASK"
  BY <1>7, <1>13, <1>14, Zenon DEF ConsentInv, TaskContexts
<1>17. GrantsNear(db', now)
  <2> SUFFICES ASSUME NEW g \in GrantIds, grants[g].state = "live", grants[g].mode = "TIMED"
               PROVE  Near(grants[g].expires, now, Spans(db', g))
    BY <1>14, Zenon DEF GrantsNear
  <2>1. Spans(db', g) = Spans(db, g)
    BY <1>15, GrantNames, Zenon DEF Spans
  <2>2. CASE grants[g] = db.grants[g]
    BY <2>1, <2>2, Zenon DEF ConsentInv, InReach, GrantsNear
  <2>3. CASE g[1] = r /\ grants[g].mode = mode
             /\ grants[g].expires = IF mode = "TIMED" THEN now + duration ELSE 0
    <3>1. grants[g].expires = now + duration /\ duration \in Spans(db, g)
      BY <2>3, Zenon DEF Spans
    <3>2. grants[g].expires <= now + duration
      BY <1>1, <1>3, <3>1
    <3> QED  BY <2>1, <3>1, <3>2, Zenon DEF Near
  <2> QED  BY <1>10, <2>2, <2>3, Zenon
<1>18. Informed
  <2> SUFFICES ASSUME NEW g \in GrantIds, db.grants[g].state = "none", grants[g].state = "live",
                      NEW held \in screens[g[1]], held.token = db.requests[g[1]].token
               PROVE  /\ g[2] \in held.rows
                      /\ held.versions[g[2]] = <<db.defs[g[2]].policy, db.defs[g[2]].text>>
    BY <1>14, Zenon DEF Informed
  <2>0. "none" # "live"
    OBVIOUS
  <2>1. g[1] = r /\ g[2] \in D
    BY <1>10, <2>0, Zenon
  <2>2. Shows(held, q)
    BY <2>1, Zenon DEF ConsentInv, ScreensShow
  <2>3. /\ held.rows = q.shown /\ held.versions = q.versions
        /\ q.ctx.version = 0 => q.shown = q.rows
    BY <2>1, <2>2, Zenon DEF Shows
  <2>4. g[2] \in q.shown /\ g[2] \in q.rows
    BY <1>4, <2>1, <2>3, Zenon
  <2>5. q.versions[g[2]] = <<db.defs[g[2]].policy, db.defs[g[2]].text>>
    BY <1>5, <2>4, Zenon DEF Promptable
  <2> QED  BY <2>3, <2>4, <2>5, Zenon
<1>19. Lasting
  <2>1. AllowedOn(r, granted, c)
    BY <1>7, <1>8, <1>11, <1>13, <1>14, <1>16, Zenon DEF AllowedOn
  <2> QED  BY <2>1, AllowedLasting, Zenon
<1> QED  BY <1>6, <1>14, <1>16, <1>17, <1>18, <1>19, RequestConsented, ZenonT(60)

(* Calls about requests.                                                   *)
LEMMA RequestCallsConsented ==
    ASSUME ConsentInv, RequestCalls
    PROVE  Consented
<1>1. PICK r \in Requests :
         \/ \E rows \in RowSets, s \in CallSessions, ctx \in Contexts, wait \in Waits :
               CreateRequest(r, rows, s, ctx, wait)
         \/ GetPrompt(r) \/ FinishUnasked(r) \/ CancelRequest(r) \/ RetireStoredApproval(r)
         \/ \E screen \in screens[r] :
               \E mode \in GrantModes :
                  \/ \E duration \in Durations \cup {db.requests[r].ctx.duration} :
                        Approve(r, screen, mode, duration)
                  \/ Deny(r, screen, mode)
  BY Zenon DEF RequestCalls
<1>2. CASE \E rows \in RowSets, s \in CallSessions, ctx \in Contexts, wait \in Waits :
              CreateRequest(r, rows, s, ctx, wait)
  BY <1>2, CreateConsented, Zenon
<1>3. CASE GetPrompt(r)
  BY <1>3, GetPromptConsented, Zenon
<1>4. CASE RetireStoredApproval(r)
  BY <1>4, RetireConsented, Zenon
<1>5. CASE \E screen \in screens[r], mode \in GrantModes,
               duration \in Durations \cup {db.requests[r].ctx.duration} :
              Approve(r, screen, mode, duration)
  BY <1>5, ApproveConsented, Zenon
<1>6. CASE \/ CancelRequest(r) \/ FinishUnasked(r)
           \/ \E screen \in screens[r], mode \in GrantModes : Deny(r, screen, mode)
  BY <1>6, EndCallsConsented, Zenon
<1> QED  BY <1>1, <1>2, <1>3, <1>4, <1>5, <1>6, Zenon

-----------------------------------------------------------------------------
(* Checks and data.                                                        *)

(* Counting down moves no deadline and makes no grant.                     *)
LEMMA ConsumeLeaves ==
    ASSUME NEW T \in DatabaseType, NEW G, NEW g \in GrantIds
    PROVE  /\ Consume(T.grants, G)[g].state = T.grants[g].state
           /\ Consume(T.grants, G)[g].mode = T.grants[g].mode
           /\ Consume(T.grants, G)[g].expires = T.grants[g].expires
<1>1. ASSUME NEW grant \in Grant, NEW count
      PROVE  LET new == [grant EXCEPT !.remaining = count]
             IN /\ new.state = grant.state /\ new.mode = grant.mode
                /\ new.expires = grant.expires
  BY Zenon DEF Grant
<1>2. T.grants[g] \in Grant
  BY Zenon DEF DatabaseType
<1> QED  BY <1>1, <1>2, Zenon DEF Consume

(* An execution: the receipt is of now.                                    *)
LEMMA AuthorizeConsented ==
    ASSUME ConsentInv, NEW o \in Operations, NEW rows, NEW s, NEW ctx, Authorize(o, rows, s, ctx)
    PROVE  Consented
<1> DEFINE found == UNION {Newest(db, Query(rows, s, ctx), d, now) : d \in rows}
           generation == Query(rows, s, ctx).generation
           auth == [state |-> "valid", rows |-> rows, session |-> s,
                    generation |-> generation, created |-> now, grants |-> found]
           grants == Consume(db.grants, found)
<1>1. db \in DatabaseType /\ now \in Nat
  BY Zenon DEF ConsentInv, Inv, TypeOK
<1>2. /\ db' = [db EXCEPT !.auths[o] = auth, !.grants = grants]
      /\ screens' = screens /\ now' = now /\ revised'
  BY Zenon DEF Authorize, Update, Commit
<1> HIDE DEF found, generation
<1>3. auth.created <= now
  BY <1>1
<1>4. \A g \in GrantIds :
         /\ grants[g].state = db.grants[g].state /\ grants[g].mode = db.grants[g].mode
         /\ grants[g].expires = db.grants[g].expires
  BY <1>1, ConsumeLeaves, Zenon
<1> HIDE DEF auth, grants
<1>5. /\ db'.requests = db.requests /\ db'.sessions = db.sessions
      /\ db'.artifacts = db.artifacts /\ db'.grants = grants
      /\ \A p \in Operations : db'.auths[p] = IF p = o THEN auth ELSE db.auths[p]
  BY <1>1, <1>2, Zenon DEF DatabaseType
<1>6. GrantsNear(db', now)
  BY <1>4, <1>5, Zenon DEF ConsentInv, InReach, GrantsNear, Spans
<1>7. ReceiptsPast(db', now)
  <2> SUFFICES ASSUME NEW p \in Operations, db'.auths[p].state = "valid"
               PROVE  db'.auths[p].created <= now
    BY Zenon DEF ReceiptsPast
  <2>1. CASE p = o
    BY <1>3, <1>5, <2>1, Zenon
  <2>2. CASE p # o
    BY <1>5, <2>2, Zenon DEF ConsentInv, InReach, ReceiptsPast
  <2> QED  BY <2>1, <2>2, Zenon
<1>8. InReach(db', now)
  BY <1>5, <1>6, <1>7, Zenon DEF ConsentInv, InReach, SessionsNear, RequestsNear, DataNear
<1> QED  BY <1>2, <1>4, <1>5, <1>8, OthersConsented, Zenon

(* One artifact changes to one within its retention, or one out of use.    *)
LEMMA ArtifactInReach ==
    ASSUME ConsentInv, NEW a \in Artifacts, NEW artifact, NEW U,
           U = [db EXCEPT !.artifacts[a] = artifact],
           artifact.state = "ACTIVE" => Near(artifact.expires, now, Retentions)
    PROVE  /\ InReach(U, now)
           /\ U.requests = db.requests /\ U.grants = db.grants
<1>1. /\ U.requests = db.requests /\ U.grants = db.grants /\ U.auths = db.auths
      /\ U.sessions = db.sessions
      /\ \A b \in Artifacts : U.artifacts[b] = IF b = a THEN artifact ELSE db.artifacts[b]
  BY Zenon DEF ConsentInv, Inv, TypeOK, DatabaseType
<1>2. DataNear(U, now)
  <2> SUFFICES ASSUME NEW b \in Artifacts, U.artifacts[b].state = "ACTIVE"
               PROVE  Near(U.artifacts[b].expires, now, Retentions)
    BY Zenon DEF DataNear
  <2>1. CASE b = a
    BY <1>1, <2>1, Zenon
  <2>2. CASE b # a
    BY <1>1, <2>2, Zenon DEF ConsentInv, InReach, DataNear
  <2> QED  BY <2>1, <2>2, Zenon
<1>3. GrantsNear(U, now)
  BY <1>1, Zenon DEF ConsentInv, InReach, GrantsNear, Spans
<1> QED  BY <1>1, <1>2, <1>3, Zenon DEF ConsentInv, InReach, SessionsNear, RequestsNear, ReceiptsPast

(* Data is kept from the date of its receipt, which is past.               *)
LEMMA DataRegisterConsented ==
    ASSUME ConsentInv, NEW o \in Operations, NEW d \in Definitions, NEW i, DataRegister(o, d, i)
    PROVE  Consented
<1> DEFINE auth == db.auths[o]
           expires == auth.created + RetentionOf[d]
           artifact == [state |-> "ACTIVE", session |-> auth.session, instance |-> i,
                        expires |-> expires, sources |-> auth.grants, parents |-> {}]
<1>1. db \in DatabaseType /\ now \in Nat /\ o \in Artifacts /\ auth \in Authorization
  BY Zenon DEF ConsentInv, Inv, TypeOK, DatabaseType, Artifacts
<1>2. /\ db' = [db EXCEPT !.artifacts[o] = artifact] /\ auth.state = "valid"
      /\ screens' = screens /\ now' = now /\ revised'
  BY Zenon DEF DataRegister, ReceiptValid, Update, Commit
<1>3. auth.created \in Nat /\ auth.created <= now
  BY <1>1, <1>2, Zenon DEF Authorization, ConsentInv, InReach, ReceiptsPast
<1>4. expires <= now + RetentionOf[d] /\ RetentionOf[d] \in Retentions
  BY <1>1, <1>3, DefinitionsAssumption DEF Retentions
<1> HIDE DEF expires, auth
<1>5. artifact.expires = expires
  BY Zenon
<1> HIDE DEF artifact
<1>6. Near(artifact.expires, now, Retentions)
  BY <1>4, <1>5, Zenon DEF Near
<1>7. InReach(db', now) /\ db'.requests = db.requests /\ db'.grants = db.grants
  BY <1>1, <1>2, <1>6, ArtifactInReach, Zenon
<1> QED  BY <1>2, <1>7, OthersConsented, Zenon

(* Derived data expires with one of its parents.                           *)
LEMMA DataRegisterDerivedConsented ==
    ASSUME ConsentInv, NEW a \in Derived, NEW parents \in SUBSET Artifacts, NEW i,
           DataRegisterDerived(a, parents, i)
    PROVE  Consented
<1>1. PICK s \in Sessions, expires \in {db.artifacts[p].expires : p \in parents} :
         db' = [db EXCEPT !.artifacts[a] =
                  [state |-> "ACTIVE", session |-> s, instance |-> i, expires |-> expires,
                   sources |-> UNION {db.artifacts[p].sources : p \in parents},
                   parents |-> parents]]
  BY Zenon DEF DataRegisterDerived, Update, Commit
<1> DEFINE sources == UNION {db.artifacts[p].sources : p \in parents}
           artifact == [state |-> "ACTIVE", session |-> s, instance |-> i, expires |-> expires,
                        sources |-> sources, parents |-> parents]
<1>2. screens' = screens /\ now' = now /\ revised' /\ a \in Artifacts
  BY Zenon DEF DataRegisterDerived, Update, Commit, Artifacts
<1>3. \A p \in parents : db.artifacts[p].state = "ACTIVE"
  BY ZenonT(60) DEF DataRegisterDerived, ValidateArtifactProvenance
<1>4. Near(expires, now, Retentions)
  <2>1. PICK p \in parents : expires = db.artifacts[p].expires
    BY Zenon
  <2> QED  BY <1>3, <2>1, Zenon DEF ConsentInv, InReach, DataNear
<1>5. db' = [db EXCEPT !.artifacts[a] = artifact]
  BY <1>1, Zenon
<1> HIDE DEF sources
<1>6. artifact.expires = expires
  BY Zenon
<1> HIDE DEF artifact
<1>7. InReach(db', now) /\ db'.requests = db.requests /\ db'.grants = db.grants
  BY <1>2, <1>4, <1>5, <1>6, ArtifactInReach, Zenon
<1> QED  BY <1>2, <1>7, OthersConsented, Zenon

(* An acknowledged deletion only takes data out of use.                    *)
LEMMA CleanupAckConsented ==
    ASSUME ConsentInv, NEW a \in Artifacts, NEW i, NEW success \in BOOLEAN,
           CleanupAck(a, i, success)
    PROVE  Consented
<1> DEFINE state == IF success THEN "DELETED" ELSE "CLEANUP_FAILED"
           acked == [db EXCEPT !.artifacts[a].state = state]
           artifact == [db.artifacts[a] EXCEPT !.state = state]
<1>1. db \in DatabaseType /\ DatabaseInv(db) /\ db.artifacts[a] \in Artifact
  BY Zenon DEF ConsentInv, Inv, TypeOK, DatabaseType
<1>2. /\ db.artifacts[a].state # "NONE" /\ (success \/ db.artifacts[a].state # "DELETED")
      /\ db' = FinishCleanup(acked) /\ screens' = screens /\ now' = now /\ revised'
  BY Zenon DEF CleanupAck, Update, Commit
<1>3. /\ state \in {"DELETED", "CLEANUP_FAILED"} /\ state # "ACTIVE"
      /\ state = "DELETED" \/ db.artifacts[a].state # "DELETED"
  BY <1>2, Zenon
<1> HIDE DEF state
<1>4. acked = [db EXCEPT !.artifacts[a] = artifact] /\ artifact.state = state
  BY <1>1, Zenon DEF DatabaseType, Artifact
<1>5. Good(db, acked)
  BY <1>1, <1>2, <1>3, ArtifactStateKeeps, ZenonT(60)
<1> HIDE DEF artifact, acked
<1>6. InReach(acked, now) /\ acked.requests = db.requests /\ acked.grants = db.grants
  BY <1>3, <1>4, ArtifactInReach, Zenon
<1>7. acked \in DatabaseType
  BY <1>5, Zenon DEF Good
<1>8. Withdrawn(acked, db')
  BY <1>2, <1>7, FinishCleanupWithdraws, Zenon
<1>9. InReach(db', now)
  BY <1>6, <1>8, WithdrawnInReach, Zenon
<1>10. db'.requests = db.requests /\ db'.grants = db.grants
  BY <1>2, <1>6, <1>7, Zenon DEF FinishCleanup, DatabaseType
<1> QED  BY <1>2, <1>9, <1>10, OthersConsented, Zenon

(* Checks, revocation and calls about data.                                *)
LEMMA CheckAndDataConsented ==
    ASSUME ConsentInv, CheckCalls \/ DataCalls
    PROVE  Consented
<1>1. CASE CheckCalls
  <2>1. CASE \E o \in Operations, rows \in RowSets, s \in CallSessions, ctx \in Contexts :
                Authorize(o, rows, s, ctx)
    BY <2>1, AuthorizeConsented, Zenon
  <2>2. ASSUME NEW d \in Definitions, Revoke(d)
        PROVE  Consented
    <3>1. Withdrawn(db, db')
      BY <2>2, RevokeGood, Zenon DEF ConsentInv
    <3>2. screens' = screens /\ now' = now /\ revised'
      BY <2>2, Zenon DEF Revoke, Update, Commit
    <3> QED  BY <3>1, <3>2, RevisedAnnounced, WithdrawnConsented, Zenon
  <2> QED  BY <1>1, <2>1, <2>2, Zenon DEF CheckCalls
<1>2. CASE DataCalls
  BY <1>2, DataRegisterConsented, DataRegisterDerivedConsented, CleanupAckConsented, Zenon
     DEF DataCalls
<1> QED  BY <1>1, <1>2, Zenon

(* Every step consents: with NextKept, the invariant is inductive.         *)
LEMMA NextConsented == ConsentInv /\ [Next]_vars => Consented
<1> SUFFICES ASSUME ConsentInv, [Next]_vars PROVE Consented
  OBVIOUS
<1>1. CASE UNCHANGED vars
  <2>1. db' = db /\ now' = now /\ screens' = screens
    BY <1>1, Zenon DEF vars
  <2> QED  BY <2>1, SameConsented, Zenon DEF ConsentInv
<1>2. CASE Advance \/ \E p \in Packages : Reinstall(p)
  BY <1>2, EnvironmentConsented, Zenon
<1>3. CASE Sweep \/ Tick
  BY <1>3, SweepConsented, TickConsented, Zenon
<1>4. CASE \/ Answer
           \/ \E retire \in BOOLEAN : FenceProfiles(retire)
           \/ \E clock \in {0, now} : Restart(clock)
  BY <1>4, DaemonConsented, Zenon
<1>5. CASE Definers
  BY <1>5, DefinersConsented, Zenon
<1>6. CASE SessionCalls
  BY <1>6, SessionCallsConsented, Zenon
<1>7. CASE RequestCalls
  BY <1>7, RequestCallsConsented, Zenon
<1>8. CASE CheckCalls \/ DataCalls
  BY <1>8, CheckAndDataConsented, Zenon
<1> QED  BY <1>1, <1>2, <1>3, <1>4, <1>5, <1>6, <1>7, <1>8, Zenon DEF Next

-----------------------------------------------------------------------------
(* The invariant of this module holds of every behaviour.                  *)
THEOREM ConsentInvariance == Spec => []ConsentInv
<1>1. ConsentInv /\ [Next]_vars => ConsentInv'
  <2> SUFFICES ASSUME ConsentInv, [Next]_vars PROVE ConsentInv'
    OBVIOUS
  <2>1. Inv'
    BY NextKept, Zenon DEF ConsentInv, Kept
  <2>2. InReach(db', now') /\ TaskContexts(db') /\ ScreensShow(db', screens')
    BY NextConsented, Zenon DEF Consented
  <2> QED  BY <2>1, <2>2, Zenon DEF ConsentInv
<1> QED  BY <1>1, InitConsent, PTL DEF Spec

(* No grant, session, pending request or data in use has a deadline that   *)
(* lies further ahead than was asked for or allowed, a reboot of the clock *)
(* included (ResetRuntime, SessionOpen, Evaluate, InsertGrants,            *)
(* DataRegister).                                                          *)
THEOREM DeadlinesStayWithinReach == Spec => []DeadlinesWithinReach
<1>1. ConsentInv => DeadlinesWithinReach
  BY InReachWithin, Zenon DEF ConsentInv
<1> QED  BY <1>1, ConsentInvariance, PTL

(* No step grants a condition that a screen with the request's token did   *)
(* not show in the policy and the text in force (GetPrompt, Respond).      *)
THEOREM ConsentIsInformed == Spec => InformedConsent
<1>1. ConsentInv /\ [Next]_vars =>
         [\A g \in GrantIds : db.grants[g].state = "none" /\ db'.grants[g].state = "live" =>
             \A screen \in screens[g[1]] : screen.token = db.requests[g[1]].token =>
                 /\ g[2] \in screen.rows
                 /\ screen.versions[g[2]] = <<db.defs[g[2]].policy, db.defs[g[2]].text>>]_vars
  BY NextConsented, Zenon DEF Consented, Informed
<1> QED  BY <1>1, ConsentInvariance, PTL DEF Spec, InformedConsent

(* No step allows a request made in advance on grants that end before the  *)
(* period it asked for (Evaluate, approval::Covers, Respond, GetPrompt).   *)
THEOREM PreapprovalsLast == Spec => PreapprovalLastsAsAsked
<1>1. ConsentInv /\ [Next]_vars =>
         [\A r \in Requests :
             LET asked == db'.requests[r]
             IN /\ db.requests[r].state # "ALLOWED" /\ asked.state = "ALLOWED"
                /\ asked.ctx.kind = "PREAPPROVAL" /\ asked.ctx.mode # "ONCE"
                => \A d \in asked.rows : \E x \in Requests :
                      LET grant == db'.grants[x, d]
                      IN /\ grant.state = "live"
                         /\ \/ grant.mode = "PERSISTENT"
                            \/ grant.mode = "SESSION" /\ asked.ctx.mode = "SESSION"
                                  /\ grant.session = asked.session
                            \/ grant.mode = "TIMED" /\ asked.ctx.mode = "TIMED"
                                  /\ grant.expires >= asked.target]_vars
  BY NextConsented, Zenon DEF Consented, Lasting, LastsAs
<1> QED  BY <1>1, ConsentInvariance, PTL DEF Spec, PreapprovalLastsAsAsked

(* No step of the daemon takes a decision away that a client may have      *)
(* cached without a new policy revision (Commit, Sweep, Tick).             *)
THEOREM CachedLossIsAnnounced == Spec => CachedDecisionLossIsAnnounced
<1>1. ConsentInv /\ [Next]_vars =>
         [now' = now /\ authority' = authority =>
             \A rows \in RowSets, s \in CallSessions :
                 Cacheable(db, now, authority, rows, s)
                   /\ ~Cacheable(db', now, authority, rows, s)
                 => revised']_vars
  BY NextConsented, Zenon DEF Consented, Announced
<1> QED  BY <1>1, ConsentInvariance, PTL DEF Spec, CachedDecisionLossIsAnnounced
=============================================================================
