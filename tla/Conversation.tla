---------------------------- MODULE Conversation ----------------------------
(***************************************************************************)
(* The feature coordinator, its worker processes and their calls to the    *)
(* daemon: a user selects features, runs tasks and closes the              *)
(* conversation, upon which the holder erases the data it keeps, page by   *)
(* page of the daemon's cleanup list.                                      *)
(*                                                                         *)
(* The coordinator is one thread; each worker is a process that serves one *)
(* request at a time and can die, or be killed, before and after it acts   *)
(* and before its reply is read.  Of the daemon's tables this module keeps *)
(* what these programs can see: the session, the approval, and the         *)
(* artifacts.  Ids of artifacts are random in the code: a new one may be   *)
(* any unused number.                                                      *)
(***************************************************************************)
EXTENDS Naturals, Sequences, FiniteSets, FiniteSetsExt

CONSTANTS
    Ids,          \* artifact ids, positive and in the order of the list
    Selections,   \* sets of features the user may select
    Tasks,        \* tasks the user may ask for
    PageSize,     \* rows of a cleanup page; 48 in the code
    MaxPages,     \* pages of one call of CleanupSweep; 128 in the code
    MaxBuffers,   \* buffers of the holder; 16 in the code
    MaxCommands,  \* bound on the user's commands
    MaxTroubles   \* bound on failed calls, reads and deadlines, dead workers, losses

ASSUME ConversationAssumption == Ids \subseteq Nat \ {0} /\ PageSize > 0 /\ MaxPages > 0

VARIABLES
    coord,    \* the coordinator
    workers,  \* its workers
    db,       \* what the daemon keeps of them
    started,  \* actions that workers have performed
    budget    \* commands and troubles left

vars == <<coord, workers, db, started, budget>>

-----------------------------------------------------------------------------
(* The catalog: "ce" reads the calendar, "cm" controls the device.         *)
FeaturesOf(task) ==
    CASE task \in {"summary", "once", "alternative", "expanded"} -> <<"calendar">>
      [] task = "off" -> <<"device">>
      [] task = "both" -> <<"calendar", "device">>
Ephemeral(task) == task \in {"once", "expanded"}
Provider(feature) == IF feature = "calendar" THEN "ce" ELSE "cm"
Workers == {"ce", "cm", "holder"}

NoJob == [kind |-> "none", task |-> "", op |-> 0, next |-> 0, phase |-> "", worker |-> "",
          revision |-> 0]
NoRetired == [worker |-> "", phase |-> "", action |-> <<0, 0>>]
NoCursor == [incarnation |-> 0, last |-> 0, upper |-> 0]
Fresh == [cursor |-> NoCursor, failure |-> FALSE, finished |-> TRUE]
NoReply == [reply |-> FALSE, ok |-> FALSE, allowed |-> FALSE, started |-> FALSE,
            artifact |-> 0, more |-> FALSE, count |-> 0]
(* A worker and its socket: the requests it has not served, what it has    *)
(* found out and not sent yet, the reply that waits to be read, and whether*)
(* an earlier reply was left in the socket unread.                         *)
Spawned(instance) ==
    [up |-> "none", instance |-> instance, inbox |-> <<>>, output |-> NoReply,
     answer |-> NoReply, astray |-> FALSE, authorized |-> <<0, 0>>, buffers |-> {},
     zeroed |-> {}, progress |-> Fresh, at |-> "idle", page |-> <<>>, more |-> FALSE,
     next |-> NoCursor, pages |-> 0, ok |-> FALSE]

NoArtifact == [state |-> "NONE", session |-> 0, instance |-> 0]
Pending == {"CLEANUP_PENDING", "CLEANUP_FAILED"}

Init ==
    /\ coord = [session |-> 0, failed |-> FALSE, revision |-> 1, selected |-> {},
                artifact |-> 0, job |-> NoJob, retired |-> NoRetired, ops |-> 0,
                counted |-> {}, uncertain |-> {}, closed |-> {}, reason |-> ""]
    /\ workers = [w \in Workers |-> Spawned(1)]
    /\ db = [incarnation |-> 1, sessions |-> <<>>, consent |-> TRUE,
             artifacts |-> [a \in Ids |-> NoArtifact]]
    /\ started = {}
    /\ budget = [commands |-> MaxCommands, troubles |-> MaxTroubles]

Trouble ==
    /\ budget.troubles > 0
    /\ budget' = [budget EXCEPT !.troubles = @ - 1]

-----------------------------------------------------------------------------
(* The daemon.                                                             *)
FinishCleanup(d) ==
    [d EXCEPT !.sessions = [s \in DOMAIN @ |->
        IF @[s] = "CLOSING" /\ \A a \in Ids : d.artifacts[a].session = s =>
                                  d.artifacts[a].state = "DELETED"
        THEN "CLOSED" ELSE @[s]]]

Blocked(d, B(_)) ==
    [d EXCEPT !.artifacts = [a \in Ids |->
        IF @[a].state = "ACTIVE" /\ B(@[a]) THEN [@[a] EXCEPT !.state = "CLEANUP_PENDING"]
        ELSE @[a]]]

CloseSession(d, s) ==
    IF d.sessions[s] # "ACTIVE" THEN d
    ELSE Blocked([d EXCEPT !.sessions[s] = "CLOSING"], LAMBDA a : a.session = s)

Active(d) == \E s \in DOMAIN d.sessions : s = Len(d.sessions) /\ d.sessions[s] = "ACTIVE"
Authorizes(d) == Active(d) /\ d.consent

(* cleanup_ack and data_release, by the instance that registered the data. *)
CleanupAck(d, a, success) ==
    FinishCleanup([d EXCEPT !.artifacts[a].state =
                      IF success THEN "DELETED" ELSE "CLEANUP_FAILED"])

(* The rows of a holder that wait for deletion.                            *)
Listed(d, instance) ==
    {a \in Ids : d.artifacts[a].instance = instance /\ d.artifacts[a].state \in Pending}

(* The order of a page.                                                    *)
Ascending(S) ==
    [i \in 1..Cardinality(S) |-> CHOOSE a \in S : Cardinality({b \in S : b < a}) = i - 1]

(* A cursor is well-formed if its position is before its upper end.        *)
Parse(cursor) == cursor = NoCursor \/ cursor.last < cursor.upper

(* cleanup_list: the first page of a sweep fixes its upper end, and one    *)
(* row more than fits is looked for.                                       *)
CleanupList(d, instance, cursor) ==
    LET upper == IF cursor = NoCursor THEN Max(Listed(d, instance) \cup {0}) ELSE cursor.upper
        rows == Ascending({a \in Listed(d, instance) : a > cursor.last /\ a <= upper})
        page == SubSeq(rows, 1, Min({PageSize, Len(rows)}))
        more == Len(rows) > PageSize
    IN [refused |-> \/ ~Parse(cursor)
                    \/ cursor # NoCursor /\ cursor.incarnation # d.incarnation,
        rows |-> page, more |-> more,
        next |-> IF ~more THEN NoCursor
                 ELSE [incarnation |-> d.incarnation, last |-> page[Len(page)],
                       upper |-> upper]]

-----------------------------------------------------------------------------
(* The coordinator: an actor that handles one command or one result at a   *)
(* time.  k is its state together with its workers.                        *)
Set(k) == coord' = k.coord /\ workers' = k.workers
Now == [coord |-> coord, workers |-> workers]

(* SendWorker spawns a worker at its first use; a dead one is not replaced *)
(* and the frame cannot be sent.                                           *)
Dead(k, w) == k.workers[w].up = "dead"
SendWorker(k, w, method) ==
    [k EXCEPT !.workers[w].up = "up",
              !.workers[w].inbox = Append(@, [method |-> method,
                                              action |-> <<k.coord.job.op, k.coord.job.next>>,
                                              artifact |-> k.coord.artifact])]

CaptureJob(job) ==
    [worker |-> job.worker, phase |-> job.phase, action |-> <<job.op, job.next>>]
Retire(c) == [c EXCEPT !.retired = CaptureJob(c.job)]

(* A provider request already in flight is drained before another is sent. *)
Cancel(c) ==
    IF c.job.kind = "none" THEN c
    ELSE [IF c.job.phase # "" THEN Retire(c) ELSE c EXCEPT !.job = NoJob, !.reason = "changed"]

FailJob(c) == [c EXCEPT !.job = NoJob, !.reason = "failed"]
EndJob(c, reason) == [c EXCEPT !.job = NoJob, !.reason = reason]

(* Mutant of RecordCompletion: no reply is taken for no action.            *)
RecordCompletionSilent(c, record, answer) ==
    IF record.phase \notin {"start", "reuse-start"} \/ ~answer.reply THEN c
    ELSE IF answer.started THEN [c EXCEPT !.counted = @ \cup {record.action}]
    ELSE IF ~answer.ok THEN c
    ELSE [c EXCEPT !.uncertain = @ \cup {record.action}]

(* What is recorded of an action request once its result is known, or      *)
(* known never to come: only an error that the worker reports is taken for *)
(* an action that was not performed.                                       *)
RecordCompletion(c, record, answer) ==
    IF record.phase \notin {"start", "reuse-start"} THEN c
    ELSE IF answer.reply /\ answer.started THEN [c EXCEPT !.counted = @ \cup {record.action}]
    ELSE IF answer.reply /\ ~answer.ok THEN c
    ELSE [c EXCEPT !.uncertain = @ \cup {record.action}]

RetiredResult(c, answer) ==
    [RecordCompletion(c, c.retired, answer) EXCEPT !.retired = NoRetired]

(* Whether the job still is what the user has selected.                    *)
Current(c) ==
    c.job.kind = "cleanup" \/
    /\ c.job.revision = c.revision
    /\ ~Ephemeral(c.job.task) => Range(FeaturesOf(c.job.task)) \subseteq c.selected

(* Authorize the next feature, at the holder if it has the data already.   *)
BeginAction(k) ==
    LET c == k.coord
        features == FeaturesOf(c.job.task)
        reuse == features[c.job.next + 1] = "calendar" /\ c.artifact # 0
                    /\ c.job.task # "expanded"
        w == IF reuse THEN "holder" ELSE Provider(features[c.job.next + 1])
        phase == IF reuse THEN "reuse-authorize" ELSE "authorize"
    IN IF ~Current(c) THEN [k EXCEPT !.coord = Cancel(@)]
       ELSE IF c.job.next = Len(features) THEN [k EXCEPT !.coord = EndJob(@, "completed")]
       ELSE IF Dead(k, w) THEN [k EXCEPT !.coord = FailJob(@)]
       ELSE SendWorker([k EXCEPT !.coord.job.worker = w, !.coord.job.phase = phase], w, phase)

DispatchStart(k) ==
    LET job == k.coord.job
        phase == IF job.phase = "authorize" THEN "start" ELSE "reuse-start"
        at == [k EXCEPT !.coord.job.phase = phase]
    IN IF Dead(k, job.worker) THEN [at EXCEPT !.coord = FailJob(Retire(@))]
       ELSE SendWorker(at, job.worker, phase)

Register(k) ==
    IF Dead(k, "holder") THEN [k EXCEPT !.coord = FailJob(@)]
    ELSE SendWorker([k EXCEPT !.coord.job.phase = "register", !.coord.job.worker = "holder"],
                    "holder", "register")

NextAction(k) == BeginAction([k EXCEPT !.coord.job.phase = "", !.coord.job.next = @ + 1])

(* The conversation is over: nothing is selected and no data is known.     *)
Closed(c) ==
    [c EXCEPT !.job = NoJob, !.reason = "closed", !.closed = @ \cup {c.session}, !.session = 0,
              !.artifact = 0, !.selected = {}, !.failed = FALSE, !.revision = @ + 1]

(* Mutant of CleanupReply: the daemon is not asked.                        *)
CleanupReplyUnconfirmed(k, answer) ==
    IF answer.ok /\ answer.more
    THEN IF Dead(k, "holder") THEN [k EXCEPT !.coord = FailJob(@)]
         ELSE SendWorker(k, "holder", "cleanup")
    ELSE IF ~answer.ok \/ answer.count # 0
    THEN [k EXCEPT !.coord = FailJob(@)]
    ELSE [k EXCEPT !.coord = Closed(@)]

(* A reply to the sweep: more of it, or its end, which is the end of the   *)
(* conversation if nothing is left and the daemon says so.                 *)
CleanupReply(k, answer) ==
    IF answer.ok /\ answer.more
    THEN IF Dead(k, "holder") THEN [k EXCEPT !.coord = FailJob(@)]
         ELSE SendWorker(k, "holder", "cleanup")
    ELSE IF ~answer.ok \/ answer.count # 0 \/ db.sessions[k.coord.session] # "CLOSED"
    THEN [k EXCEPT !.coord = FailJob(@)]
    ELSE [k EXCEPT !.coord = Closed(@)]

HandleWorkerResult(k, answer) ==
    LET c == k.coord
        phase == c.job.phase
        recorded == [k EXCEPT !.coord = RecordCompletion(@, CaptureJob(@.job), answer)]
        authorized == answer.ok /\ answer.allowed
    IN IF ~Current(c) THEN [k EXCEPT !.coord = RetiredResult(Cancel(@), answer)]
       ELSE CASE phase = "cleanup" -> CleanupReply(k, answer)
              [] phase \in {"authorize", "reuse-authorize"} ->
                    IF authorized THEN DispatchStart(k) ELSE [k EXCEPT !.coord = FailJob(@)]
              [] phase \in {"start", "reuse-start"} ->
                    IF ~answer.started \/ ~authorized
                    THEN [recorded EXCEPT !.coord = FailJob(@)]
                    ELSE IF phase = "start"
                            /\ FeaturesOf(c.job.task)[c.job.next + 1] = "calendar"
                    THEN Register(recorded) ELSE NextAction(recorded)
              [] phase = "register" ->
                    IF ~answer.ok THEN [k EXCEPT !.coord = FailJob(@)]
                    ELSE NextAction(IF c.job.task = "expanded" THEN k
                                    ELSE [k EXCEPT !.coord.artifact = answer.artifact])

-----------------------------------------------------------------------------
(* Commands of the user.                                                   *)
Command ==
    /\ budget.commands > 0
    /\ budget' = [budget EXCEPT !.commands = @ - 1]

Select(features) ==
    /\ Command /\ coord.job.kind # "cleanup"
    /\ coord' = [Cancel(coord) EXCEPT !.selected = features, !.revision = @ + 1, !.reason = ""]
    /\ UNCHANGED <<workers, db, started>>

(* StartRequest: the conversation's session is opened when there is none,  *)
(* and the user is asked to approve.                                       *)
StartRequest(kind, task) ==
    /\ Command /\ coord.job.kind = "none" /\ coord.retired = NoRetired /\ ~coord.failed
    /\ LET opens == coord.session = 0
           s == IF opens THEN Len(db.sessions) + 1 ELSE coord.session
           job == [NoJob EXCEPT !.kind = kind, !.task = task, !.op = coord.ops + 1,
                                !.revision = coord.revision]
       IN /\ db' = IF opens THEN [db EXCEPT !.sessions = Append(@, "ACTIVE")] ELSE db
          /\ coord' = [coord EXCEPT !.session = s, !.job = job, !.ops = @ + 1, !.reason = ""]
    /\ UNCHANGED <<workers, started>>

Preapprove == coord.selected # {} /\ StartRequest("preapprove", "")

Task(task) ==
    /\ Ephemeral(task) \/ Range(FeaturesOf(task)) \subseteq coord.selected
    /\ task = "alternative" => coord.artifact # 0
    /\ StartRequest("task", task)

(* The answer to the request; an alternative use needs none.               *)
RequestDone ==
    /\ coord.job.kind \in {"preapprove", "task"} /\ coord.job.phase = ""
    /\ LET asks == coord.job.task # "alternative"
       IN \/ /\ asks => Active(db)
             /\ db' = IF asks THEN [db EXCEPT !.consent = TRUE] ELSE db
             /\ Set(IF coord.job.kind = "task" THEN BeginAction(Now)
                    ELSE [Now EXCEPT !.coord = EndJob(@, "completed")])
          \/ /\ asks
             /\ Set([Now EXCEPT !.coord = EndJob(@, "completed")])
             /\ UNCHANGED db
    /\ UNCHANGED <<started, budget>>

(* conversation-close: refused while a worker's result is outstanding.     *)
Close ==
    /\ Command /\ coord.retired = NoRetired
    /\ LET c == Cancel(coord)
           gone == coord.session # 0 /\ db.sessions[coord.session] = "GONE"
           closing == [c EXCEPT !.job = [NoJob EXCEPT !.kind = "cleanup", !.phase = "cleanup",
                                                      !.worker = "holder"], !.reason = ""]
           k == [Now EXCEPT !.coord = closing]
       IN IF c.retired # NoRetired \/ gone
          THEN coord' = c /\ UNCHANGED <<workers, db>>
          ELSE IF c.session = 0
          THEN coord' = [c EXCEPT !.reason = "closed"] /\ UNCHANGED <<workers, db>>
          ELSE /\ db' = FinishCleanup(CloseSession(db, c.session))
               /\ Set(IF Dead(k, "holder") THEN [k EXCEPT !.coord = FailJob(@)]
                      ELSE SendWorker(k, "holder", "cleanup"))
    /\ UNCHANGED started

-----------------------------------------------------------------------------
(* Pump.  A result is read from the worker's socket when there is          *)
(* something in it, or the worker is gone.  The read may fail, and a reply *)
(* that was not read stays where it is: from then on each reply is taken   *)
(* for the one before it, has the wrong serial number and is dropped.      *)
Ready(w) == workers[w].answer.reply \/ workers[w].up = "dead" \/ workers[w].astray
Received(w) == [Now EXCEPT !.workers[w].answer = NoReply]
Unread(w) == [Now EXCEPT !.workers[w].answer = NoReply, !.workers[w].astray = TRUE]

WorkerResult ==
    /\ coord.job.phase # "" /\ Ready(coord.job.worker)
    /\ LET w == coord.job.worker
       IN \/ Set(HandleWorkerResult(Received(w), workers[w].answer)) /\ UNCHANGED budget
          \/ /\ workers[w].answer.reply /\ Trouble
             /\ Set(HandleWorkerResult(Unread(w), NoReply))
    /\ UNCHANGED <<db, started>>

DrainRetired ==
    /\ coord.retired # NoRetired /\ Ready(coord.retired.worker)
    /\ LET w == coord.retired.worker
       IN \/ /\ Set([Received(w) EXCEPT !.coord = RetiredResult(@, workers[w].answer)])
             /\ UNCHANGED budget
          \/ /\ workers[w].answer.reply /\ Trouble
             /\ Set([Unread(w) EXCEPT !.coord = RetiredResult(@, NoReply)])
    /\ UNCHANGED <<db, started>>

(* Mutant of RetiredDeadline: the worker is left alone.                    *)
RetiredDeadlineSpares ==
    /\ coord.retired # NoRetired /\ ~Ready(coord.retired.worker)
    /\ Trouble
    /\ coord' = RetiredResult(coord, NoReply)
    /\ UNCHANGED <<workers, db, started>>

(* No result within three minutes: the worker is killed, at whatever point *)
(* of its work, and another one takes its place when it is needed.         *)
RetiredDeadline ==
    /\ coord.retired # NoRetired /\ ~Ready(coord.retired.worker)
    /\ Trouble
    /\ coord' = RetiredResult(coord, NoReply)
    /\ workers' = [workers EXCEPT ![coord.retired.worker] = Spawned(@.instance + 1)]
    /\ UNCHANGED <<db, started>>

JobExpires ==
    /\ coord.job.kind # "none"
    /\ Trouble
    /\ coord' = Cancel(coord)
    /\ UNCHANGED <<workers, db, started>>

SelectionExpires ==
    /\ coord.selected # {}
    /\ coord' = [Cancel(coord) EXCEPT !.selected = {}, !.revision = @ + 1]
    /\ UNCHANGED <<workers, db, started, budget>>

HeartbeatFails ==
    /\ coord.session # 0 /\ ~coord.failed /\ coord.job.kind # "cleanup"
    /\ \/ db.sessions[coord.session] # "ACTIVE" /\ UNCHANGED budget
       \/ Trouble
    /\ coord' = [Cancel(coord) EXCEPT !.failed = TRUE, !.selected = {}, !.revision = @ + 1]
    /\ UNCHANGED <<workers, db, started>>

-----------------------------------------------------------------------------
(* The workers.  A request is executed, and then its reply is sent.        *)
Asked(w, methods) ==
    /\ workers[w].up = "up" /\ workers[w].inbox # <<>> /\ ~workers[w].output.reply
    /\ Head(workers[w].inbox).method \in methods
Answered(w, answer) ==
    [workers[w] EXCEPT !.inbox = Tail(@), !.output = [answer EXCEPT !.reply = TRUE]]
Failed == NoReply

Reply(w) ==
    /\ workers[w].output.reply
    /\ workers' = [workers EXCEPT ![w].output = NoReply,
                                  ![w].answer = IF workers[w].astray THEN NoReply
                                                ELSE workers[w].output]
    /\ UNCHANGED <<coord, db, started, budget>>

(* The holder has the data a reuse is about, and the daemon still permits. *)
Reuses(request) == request.method \in {"reuse-authorize", "reuse-start"}
Holds(w) ==
    LET request == Head(workers[w].inbox)
    IN Reuses(request) => request.artifact \in workers[w].buffers
Permitted(w) ==
    LET request == Head(workers[w].inbox)
    IN Authorizes(db) /\ (Reuses(request) => db.artifacts[request.artifact].state = "ACTIVE")

Authorize(w) ==
    /\ Asked(w, {"authorize", "reuse-authorize"})
    /\ LET allowed == Holds(w) /\ Permitted(w)
       IN workers' = [workers EXCEPT ![w] =
             [Answered(w, [NoReply EXCEPT !.ok = Holds(w), !.allowed = allowed])
                EXCEPT !.authorized = IF allowed THEN Head(workers[w].inbox).action ELSE @]]
    /\ UNCHANGED <<coord, db, started, budget>>

(* Only the operation authorized last starts, and only if it still may: a  *)
(* refusal of the daemon is no error.                                      *)
Start(w) ==
    /\ Asked(w, {"start", "reuse-start"})
    /\ LET action == Head(workers[w].inbox).action
           ok == Holds(w) /\ action = workers[w].authorized
           starts == ok /\ Permitted(w)
       IN /\ started' = IF starts THEN started \cup {action} ELSE started
          /\ workers' = [workers EXCEPT ![w] =
                Answered(w, [NoReply EXCEPT !.ok = ok, !.allowed = starts, !.started = starts])]
    /\ UNCHANGED <<coord, db, budget>>

Free == {a \in Ids : db.artifacts[a].state = "NONE"}
RegisterData ==
    /\ Asked("holder", {"register"})
    /\ LET h == workers["holder"]
           Inserted(a) == [db EXCEPT !.artifacts[a] = [state |-> "ACTIVE",
                              session |-> Len(db.sessions), instance |-> h.instance]]
       IN \/ /\ Cardinality(h.buffers) >= MaxBuffers \/ ~Authorizes(db) \/ Free = {}
             /\ workers' = [workers EXCEPT !["holder"] = Answered("holder", Failed)]
             /\ UNCHANGED <<db, budget>>
          \/ /\ Cardinality(h.buffers) < MaxBuffers /\ Authorizes(db)
             /\ \E a \in Free :
                /\ db' = Inserted(a)
                /\ \/ /\ workers' = [workers EXCEPT !["holder"] =
                            [Answered("holder", [NoReply EXCEPT !.ok = TRUE, !.artifact = a])
                                EXCEPT !.buffers = @ \cup {a}]]
                      /\ UNCHANGED budget
                   \/ /\ Trouble
                      /\ workers' = [workers EXCEPT !["holder"] = Answered("holder", Failed)]
    /\ UNCHANGED <<coord, started>>

-----------------------------------------------------------------------------
(* CleanupSweep in the holder.                                             *)
Holder(h) == workers' = [workers EXCEPT !["holder"] = h]
Sweeping(at) == workers["holder"].at = at

Sweep ==
    /\ Asked("holder", {"cleanup"}) /\ Sweeping("idle")
    /\ LET h == workers["holder"]
       IN Holder([h EXCEPT !.at = "fetch", !.pages = 0, !.progress =
             IF h.progress.finished THEN [Fresh EXCEPT !.finished = FALSE] ELSE h.progress])
    /\ UNCHANGED <<coord, db, started, budget>>

SweepAnswers(h, ok, more, count) ==
    [h EXCEPT !.at = "idle", !.inbox = Tail(@), !.page = <<>>, !.more = FALSE,
              !.next = NoCursor, !.pages = 0, !.ok = FALSE, !.output =
        [NoReply EXCEPT !.reply = TRUE, !.ok = ok, !.more = more, !.count = count]]

(* A call of CleanupSweep returns.                                         *)
SweepReturns(h, ok) ==
    [h EXCEPT !.at = "list", !.ok = ok, !.page = <<>>, !.more = FALSE, !.next = NoCursor,
              !.pages = 0]

SweepFetch ==
    /\ Sweeping("fetch")
    /\ LET h == workers["holder"]
           page == CleanupList(db, h.instance, h.progress.cursor)
       IN \/ /\ ~page.refused
             /\ Holder([h EXCEPT !.at = "clean", !.page = page.rows, !.more = page.more,
                                 !.pages = @ + 1, !.next = page.next])
             /\ UNCHANGED budget
          \/ /\ page.refused /\ Holder(SweepReturns(h, FALSE)) /\ UNCHANGED budget
          \/ Trouble /\ Holder(SweepReturns(h, FALSE))
    /\ UNCHANGED <<coord, db, started>>

(* One entry: data that is resident is wiped, then acknowledged.  Missing  *)
(* data is no proof of deletion.  An error is remembered, and the sweep    *)
(* goes on.                                                                *)
SweepClean ==
    /\ Sweeping("clean") /\ workers["holder"].page # <<>>
    /\ LET h == workers["holder"]
           a == Head(h.page)
           resident == a \in h.buffers
           refused == \/ db.artifacts[a].state = "NONE"
                      \/ ~resident /\ db.artifacts[a].state = "DELETED"
           wiped == [h EXCEPT !.page = Tail(@),
                              !.zeroed = IF resident THEN @ \cup {a} ELSE @]
           failing == [wiped EXCEPT !.progress.failure = TRUE]
       IN \/ /\ ~refused
             /\ db' = CleanupAck(db, a, resident)
             /\ Holder(IF resident THEN [wiped EXCEPT !.buffers = @ \ {a}, !.zeroed = @ \ {a}]
                       ELSE failing)
             /\ UNCHANGED budget
          \/ /\ refused
             /\ Holder(failing) /\ UNCHANGED <<db, budget>>
          \/ /\ Trouble
             /\ db' \in {db, IF refused THEN db ELSE CleanupAck(db, a, resident)}
             /\ Holder(failing)
    /\ UNCHANGED <<coord, started>>

(* Mutant of SweepPage: the end of the list does not end the sweep.        *)
SweepPageUnfinished ==
    /\ Sweeping("clean") /\ workers["holder"].page = <<>>
    /\ LET h == workers["holder"]
           over == [h EXCEPT !.progress.cursor = NoCursor]
           further == [h EXCEPT !.progress.cursor = h.next]
       IN Holder(IF ~h.more THEN SweepReturns(over, ~h.progress.failure)
                 ELSE IF h.pages = MaxPages THEN SweepAnswers(further, TRUE, TRUE, 0)
                 ELSE [further EXCEPT !.at = "fetch"])
    /\ UNCHANGED <<coord, db, started, budget>>

(* The page is done: the sweep is over, or goes on now or at the next call.*)
SweepPage ==
    /\ Sweeping("clean") /\ workers["holder"].page = <<>>
    /\ LET h == workers["holder"]
           over == [h EXCEPT !.progress.cursor = NoCursor, !.progress.finished = TRUE]
           further == [h EXCEPT !.progress.cursor = h.next]
       IN Holder(IF ~h.more THEN SweepReturns(over, ~h.progress.failure)
                 ELSE IF h.pages = MaxPages THEN SweepAnswers(further, TRUE, TRUE, 0)
                 ELSE [further EXCEPT !.at = "fetch"])
    /\ UNCHANGED <<coord, db, started, budget>>

(* What is left is listed from the start again and answered.               *)
SweepList ==
    /\ Sweeping("list")
    /\ LET h == workers["holder"]
       IN \/ /\ Holder(SweepAnswers(h, h.ok, ~h.progress.finished,
                                    Cardinality(Listed(db, h.instance))))
             /\ UNCHANGED budget
          \/ Trouble /\ Holder(SweepAnswers(h, FALSE, ~h.progress.finished, 0))
    /\ UNCHANGED <<coord, db, started>>

-----------------------------------------------------------------------------
(* A call to the daemon that fails before it has an effect, and a worker   *)
(* that dies, or cannot send its reply and exits, with all it holds: a     *)
(* reply it has sent can still be read.                                    *)
CallFails(w) ==
    /\ Asked(w, {"authorize", "start", "reuse-authorize", "reuse-start", "register"})
    /\ Trouble
    /\ workers' = [workers EXCEPT ![w] = Answered(w, Failed)]
    /\ UNCHANGED <<coord, db, started>>

WorkerDies(w) ==
    /\ workers[w].up = "up"
    /\ Trouble
    /\ workers' = [workers EXCEPT ![w] =
                      [Spawned(@.instance) EXCEPT !.up = "dead", !.answer = workers[w].answer]]
    /\ UNCHANGED <<coord, db, started>>

(* The daemon: consent is revoked, data expires, the session's lease or    *)
(* the connection is lost, the database is recreated.                      *)
Revoke ==
    /\ db.consent
    /\ db' = Blocked([db EXCEPT !.consent = FALSE], LAMBDA a : TRUE)
    /\ UNCHANGED <<coord, workers, started, budget>>

Expire(a) ==
    /\ db.artifacts[a].state = "ACTIVE"
    /\ db' = [db EXCEPT !.artifacts[a].state = "CLEANUP_PENDING"]
    /\ UNCHANGED <<coord, workers, started, budget>>

SessionLost ==
    /\ Active(db) /\ Trouble
    /\ db' = FinishCleanup(CloseSession(db, Len(db.sessions)))
    /\ UNCHANGED <<coord, workers, started>>

Recreate ==
    /\ Trouble
    /\ db' = [incarnation |-> db.incarnation + 1, sessions |-> [s \in DOMAIN db.sessions |-> "GONE"],
              consent |-> FALSE, artifacts |-> [a \in Ids |-> NoArtifact]]
    /\ UNCHANGED <<coord, workers, started>>

-----------------------------------------------------------------------------
Commands ==
    (\E f \in Selections : Select(f)) \/ Preapprove \/ (\E t \in Tasks : Task(t)) \/ Close
Pump == WorkerResult \/ DrainRetired
Deadlines == RetiredDeadline \/ JobExpires \/ SelectionExpires \/ HeartbeatFails
Serve(w) == Authorize(w) \/ Start(w) \/ Reply(w)
Hold == RegisterData \/ Sweep \/ SweepFetch \/ SweepClean \/ SweepPage \/ SweepList
Outside ==
    \/ RequestDone \/ Revoke \/ SessionLost \/ Recreate \/ \E a \in Ids : Expire(a)
    \/ \E w \in Workers : CallFails(w) \/ WorkerDies(w)

Next == Commands \/ Pump \/ Deadlines \/ (\E w \in Workers : Serve(w)) \/ Hold \/ Outside

Spec == Init /\ [][Next]_vars

(* The coordinator polls its workers, and the holder serves what it is     *)
(* sent: each is weakly fair, with what it has to do spelt out.  Of the    *)
(* other workers nothing is assumed.                                       *)
PumpHasWork ==
    \/ coord.job.phase # "" /\ Ready(coord.job.worker)
    \/ coord.retired # NoRetired /\ Ready(coord.retired.worker)
HolderHasWork == workers["holder"].inbox # <<>> \/ workers["holder"].output.reply

FairSpec ==
    /\ Spec
    /\ []<>~PumpHasWork \/ []<><<Pump>>_vars
    /\ []<>~HolderHasWork \/ []<><<Hold \/ Serve("holder")>>_vars

-----------------------------------------------------------------------------
(* "conversation closed; holder erased memory and acknowledged cleanup":   *)
(* once the coordinator reports that of a conversation, every artifact of  *)
(* it is acknowledged and no worker holds its data, whatever was cancelled,*)
(* lost or late (HandleWorkerResult, CleanupSweep, cleanup_list).          *)
ClosedMeansErased ==
    \A a \in Ids : db.artifacts[a].session \in coord.closed =>
        /\ db.artifacts[a].state = "DELETED"
        /\ a \notin workers["holder"].buffers \ workers["holder"].zeroed

(* "A cancelled task must not ... turn an uncertain outcome into 'nothing  *)
(* executed'": when the coordinator is at rest, each action a worker       *)
(* performed is counted or recorded as uncertain, although jobs are        *)
(* cancelled, expire and fail around it and workers die or are killed after*)
(* they acted and before they are heard; and what is counted was performed *)
(* (Cancel, Retire, RecordCompletion).                                     *)
ActionsAreAccounted ==
    /\ coord.counted \subseteq started
    /\ coord.job = NoJob /\ coord.retired = NoRetired =>
          started \subseteq coord.counted \cup coord.uncertain

(* "Keeping uncertainty never permits another start": an action that was   *)
(* given up as uncertain, or counted, is not performed afterwards, by the  *)
(* worker that did not answer in time or by another (RetiredResult, Pump). *)
RecordsAreFinal ==
    [][(started' \ started) \cap (coord.counted \cup coord.uncertain) = {}]_vars

(* Without trouble a conversation the user closes ends with everything     *)
(* erased, unless their selection changes or expires or they close it again*)
(* meanwhile: no page is left out and the sweep is taken up where it       *)
(* stopped (CleanupSweep, cleanup_list, HandleWorkerResult).               *)
CloseSucceeds ==
    coord.job.kind = "cleanup" ~>
        coord.reason \in {"closed", "changed"} \/ budget.troubles < MaxTroubles
=============================================================================
