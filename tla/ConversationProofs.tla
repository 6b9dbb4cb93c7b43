------------------------- MODULE ConversationProofs -------------------------
(***************************************************************************)
(* A closed conversation is erased, no action is lost sight of and none is *)
(* performed after it was given up: proofs about Conversation, for any     *)
(* artifacts, selections, tasks, page sizes and numbers of commands and    *)
(* troubles.                                                               *)
(***************************************************************************)
EXTENDS Conversation, TLAPS

-----------------------------------------------------------------------------
(* The fields of the records; the invariants need no more of their types.  *)
CoordFields == {"session", "failed", "revision", "selected", "artifact", "job", "retired", "ops",
                "counted", "uncertain", "closed", "reason"}
JobFields == {"kind", "task", "op", "next", "phase", "worker", "revision"}
WorkerFields == {"up", "instance", "inbox", "output", "answer", "astray", "authorized",
                 "buffers", "zeroed", "progress", "at", "page", "more", "next", "pages", "ok"}

CoordShape(c) == DOMAIN c = CoordFields /\ DOMAIN c.job = JobFields
WorkersShape(W) == DOMAIN W = Workers /\ \A w \in Workers : DOMAIN W[w] = WorkerFields

(* The exchange with a worker that is under way: the job's, or the one of  *)
(* a job that was given up, which is drained before another begins.        *)
Starting == {"start", "reuse-start"}
Phases == {"", "authorize", "reuse-authorize", "start", "reuse-start", "register", "cleanup"}
Out(c) == IF c.job.phase # "" THEN CaptureJob(c.job) ELSE c.retired
Known(c) == c.counted \cup c.uncertain
Underway(c) == IF Out(c).phase \in Starting THEN {Out(c).action} ELSE {}

CoordInv(c) ==
    /\ CoordShape(c) /\ c.job.phase \in Phases
    /\ c.job.kind # "none" => c.retired = NoRetired
    /\ c.job.phase # "" => c.job.kind # "none" /\ c.job.worker \in Workers
    /\ c.job.phase = "cleanup" => c.session # 0 /\ c.job.worker = "holder"
    /\ c.retired # NoRetired => c.retired.worker \in Workers

(* Actions are numbered by operation and step: what is recorded belongs to *)
(* operations begun and, of the job's own, to steps it has dispatched.     *)
Asking == {"", "authorize", "reuse-authorize"}
Begun(c) == c.job.kind \notin {"none", "cleanup"}
Numbered(c) ==
    /\ c.ops \in Nat
    /\ \A o \in Nat, n \in Nat : o > c.ops => <<o, n>> \notin Known(c)
    /\ Begun(c) =>
          /\ c.job.op = c.ops /\ c.job.next \in Nat
          /\ \A n \in Nat : n > c.job.next => <<c.ops, n>> \notin Known(c)
          /\ c.job.phase \in Asking => <<c.ops, c.job.next>> \notin Known(c)
    /\ c.job.phase \notin {"", "cleanup"} => Begun(c)
    /\ c.retired.phase \in Starting => \E n \in Nat : c.retired.action = <<c.ops, n>>

(* A worker's socket: what is swept for is at the head of the requests, and*)
(* a worker whose replies are out of step is never sent an action.         *)
Sequence(q) == \E X : q \in Seq(X)
NoStart(q) == \A i \in 1..Len(q) : q[i].method \notin Starting
Lane(h) ==
    /\ Sequence(h.inbox)
    /\ h.at # "idle" => h.inbox # <<>> /\ Head(h.inbox).method = "cleanup"
    /\ h.astray => ~h.answer.reply /\ NoStart(h.inbox)
    /\ ~h.answer.reply => ~h.answer.ok
Quiet(h) == ~h.answer.reply /\ (h.astray \/ (h.inbox = <<>> /\ ~h.output.reply))

(* What a reply says of the action of the exchange is true.                *)
Tells(c, answer, S) ==
    answer.reply => IF answer.started THEN Out(c).action \in S ELSE S \subseteq Known(c)

(* No worker but the one of the exchange has anything to do or to say,     *)
(* replies that are out of step apart; a request that is not served is the *)
(* exchange's, and has done nothing.                                       *)
WorkerInv(c, h, w, S) ==
    /\ Lane(h)
    /\ w # Out(c).worker => Quiet(h)
    /\ ~h.astray /\ h.inbox # <<>> =>
          /\ ~h.answer.reply /\ ~h.output.reply /\ h.up = "up" /\ Tail(h.inbox) = <<>>
          /\ Head(h.inbox).method = Out(c).phase /\ Head(h.inbox).action = Out(c).action
          /\ S \subseteq Known(c)
    /\ ~h.astray /\ h.output.reply => ~h.answer.reply /\ h.up = "up"
    /\ w = Out(c).worker /\ Out(c).phase \in Starting =>
          ~h.astray /\ Tells(c, h.output, S) /\ Tells(c, h.answer, S)

ExchangeInv(c, W, S) ==
    /\ CoordInv(c) /\ Numbered(c) /\ WorkersShape(W)
    /\ c.counted \subseteq S /\ S \subseteq Known(c) \cup Underway(c)
    /\ Out(c).phase \in Starting => Out(c).action \notin Known(c)
    /\ \A w \in Workers : WorkerInv(c, W[w], w, S)

(* Sessions and the data of each: what the daemon calls closed is deleted, *)
(* and what it calls deleted is wiped.                                     *)
States == {"ACTIVE", "CLOSING", "CLOSED", "GONE"}
DatabaseShape(d) ==
    /\ DOMAIN d = {"incarnation", "sessions", "consent", "artifacts"}
    /\ d.sessions \in Seq(States)
    /\ DOMAIN d.artifacts = Ids
    /\ \A a \in Ids : /\ DOMAIN d.artifacts[a] = {"state", "session", "instance"}
                      /\ d.artifacts[a].session \in 0..Len(d.sessions)

DataInv(d, h) ==
    /\ DatabaseShape(d)
    /\ \A a \in Ids : LET s == d.artifacts[a].session
                      IN s # 0 => /\ d.sessions[s] # "GONE"
                                  /\ d.sessions[s] = "CLOSED" => d.artifacts[a].state = "DELETED"
    /\ \A a \in Ids : d.artifacts[a].state = "DELETED" => a \notin h.buffers \ h.zeroed

ClosedInv(c, d) ==
    /\ c.session \in 0..Len(d.sessions)
    /\ \A s \in c.closed : s \in 1..Len(d.sessions) /\ d.sessions[s] \in {"CLOSED", "GONE"}

ConversationInv ==
    /\ ExchangeInv(coord, workers, started)
    /\ DataInv(db, workers["holder"])
    /\ ClosedInv(coord, db)

-----------------------------------------------------------------------------
(* A frame to a worker (SendWorker), in terms of the two parts of k.       *)
Pair(k, c, W) == DOMAIN k = {"coord", "workers"} /\ k.coord = c /\ k.workers = W
Action(job) == <<job.op, job.next>>
Request(c) == [method |-> c.job.phase, action |-> Action(c.job), artifact |-> c.artifact]

LEMMA CaptureIs ==
    ASSUME NEW job
    PROVE  /\ CaptureJob(job).worker = job.worker /\ CaptureJob(job).phase = job.phase
           /\ CaptureJob(job).action = Action(job)
<1> DEFINE a == Action(job)
<1>1. CaptureJob(job) = [worker |-> job.worker, phase |-> job.phase, action |-> a]
  BY Zenon DEF CaptureJob, Action
<1> HIDE DEF a
<1>2. /\ CaptureJob(job).worker = job.worker /\ CaptureJob(job).phase = job.phase
      /\ CaptureJob(job).action = a
  BY <1>1
<1> QED  BY <1>2, Zenon DEF a

LEMMA RequestIs ==
    ASSUME NEW c
    PROVE  Request(c).method = c.job.phase /\ Request(c).action = Action(c.job)
BY Zenon DEF Request

LEMMA PushIs ==
    ASSUME NEW q, NEW x, Sequence(q)
    PROVE  /\ Sequence(Append(q, x)) /\ Append(q, x) # <<>>
           /\ q = <<>> => Head(Append(q, x)) = x /\ Tail(Append(q, x)) = <<>>
           /\ q # <<>> => Head(Append(q, x)) = Head(q)
           /\ NoStart(q) /\ x.method \notin Starting => NoStart(Append(q, x))
<1>1. PICK X : q \in Seq(X)
  BY Zenon DEF Sequence
<1> DEFINE Y == X \cup {x}
           p == Append(q, x)
<1>2. q \in Seq(Y) /\ p \in Seq(Y) /\ Len(p) = Len(q) + 1
  BY <1>1
<1>3. p # <<>> /\ (q = <<>> => Head(p) = x /\ Tail(p) = <<>>) /\ (q # <<>> => Head(p) = Head(q))
  BY <1>1, <1>2
<1>4. \A i \in 1..Len(p) : p[i] = x \/ (i \in 1..Len(q) /\ p[i] = q[i])
  BY <1>1, <1>2
<1> HIDE DEF p
<1>5. NoStart(q) /\ x.method \notin Starting => NoStart(p)
  BY <1>4, Zenon DEF NoStart
<1> QED  BY <1>2, <1>3, <1>5, Zenon DEF Sequence, p

LEMMA PopIs ==
    ASSUME NEW q, Sequence(q), q # <<>>
    PROVE  /\ Sequence(Tail(q))
           /\ NoStart(q) => NoStart(Tail(q)) /\ Head(q).method \notin Starting
<1>1. PICK X : q \in Seq(X)
  BY Zenon DEF Sequence
<1>2. /\ Tail(q) \in Seq(X) /\ 1 \in 1..Len(q) /\ Head(q) = q[1]
      /\ \A i \in 1..Len(Tail(q)) : i + 1 \in 1..Len(q) /\ Tail(q)[i] = q[i + 1]
  BY <1>1
<1> QED  BY <1>2, Zenon DEF Sequence, NoStart

LEMMA EmptyIs == Sequence(<<>>) /\ NoStart(<<>>)
<1>1. <<>> \in Seq({}) /\ 1..Len(<<>>) = {}
  OBVIOUS
<1> QED  BY <1>1, Zenon DEF Sequence, NoStart

Sends(W, V, w, request) ==
    /\ WorkersShape(V)
    /\ \A x \in Workers \ {w} : V[x] = W[x]
    /\ V[w].up = "up" /\ V[w].inbox = Append(W[w].inbox, request)
    /\ V[w].output = W[w].output /\ V[w].answer = W[w].answer /\ V[w].astray = W[w].astray
    /\ V[w].at = W[w].at /\ V[w].buffers = W[w].buffers /\ V[w].zeroed = W[w].zeroed

LEMMA SendWorkerSends ==
    ASSUME NEW k, NEW c, NEW W, Pair(k, c, W), WorkersShape(W), NEW w \in Workers
    PROVE  LET m == SendWorker(k, w, c.job.phase)
           IN m.coord = c /\ Sends(W, m.workers, w, Request(c))
<1> DEFINE m == SendWorker(k, w, c.job.phase)
           r == Request(c)
           q == Append(W[w].inbox, r)
<1>1. m = [[k EXCEPT !.workers[w].up = "up"] EXCEPT !.workers[w].inbox = Append(@, r)]
  BY Zenon DEF SendWorker, Request, Action, Pair
<1> HIDE DEF r
<1>2. m.coord = c
  BY <1>1, Zenon DEF Pair
<1>3. m.workers = [[W EXCEPT ![w].up = "up"] EXCEPT ![w].inbox = Append(@, r)]
  BY <1>1, Zenon DEF Pair
<1>4. m.workers = [[W EXCEPT ![w].up = "up"] EXCEPT ![w].inbox = q]
  BY <1>3, Zenon DEF WorkersShape, WorkerFields
<1>5. q = Append(W[w].inbox, r)
  OBVIOUS
<1> DEFINE g == [[W[w] EXCEPT !.up = "up"] EXCEPT !.inbox = q]
<1> HIDE DEF m, q
<1>6. /\ DOMAIN m.workers = Workers /\ m.workers[w] = g
      /\ \A x \in Workers \ {w} : m.workers[x] = W[x]
  BY <1>4, Zenon DEF WorkersShape
<1>7. /\ DOMAIN g = WorkerFields /\ g.up = "up" /\ g.inbox = q /\ g.output = W[w].output
      /\ g.answer = W[w].answer /\ g.astray = W[w].astray /\ g.at = W[w].at
      /\ g.buffers = W[w].buffers /\ g.zeroed = W[w].zeroed
  BY Zenon DEF WorkersShape, WorkerFields
<1> HIDE DEF g
<1>8. Sends(W, m.workers, w, r)
  BY <1>5, <1>6, <1>7, Zenon DEF Sends, WorkersShape
<1> QED  BY <1>2, <1>8, Zenon DEF r, m

LEMMA NoJobIs == DOMAIN NoJob = JobFields /\ NoJob.kind = "none" /\ NoJob.phase = ""
BY Zenon DEF NoJob, JobFields

(* Cancel leaves the exchange, and what is recorded, as they are.          *)
LEMMA CancelKeeps ==
    ASSUME NEW c, CoordInv(c)
    PROVE  LET e == Cancel(c)
           IN /\ CoordInv(e) /\ Out(e) = Out(c)
              /\ e.counted = c.counted /\ e.uncertain = c.uncertain
              /\ e.session = c.session /\ e.closed = c.closed
              /\ e.job.kind = "none" /\ e.job.phase = ""
BY Zenon DEF Cancel, CoordInv, CoordShape, CoordFields, JobFields, Out, CaptureJob, Retire, NoJob,
       NoRetired, Phases

(* The numbers of actions, in a job that ends or goes on.                  *)
LEMMA NumberedEnds ==
    ASSUME NEW c, NEW e, Numbered(c), e.ops = c.ops, Known(e) = Known(c),
           e.job.kind \in {"none", "cleanup"}, e.job.phase \in {"", "cleanup"},
           e.retired \in {NoRetired, c.retired, CaptureJob(c.job)}
    PROVE  Numbered(e)
<1>1. NoRetired.phase \notin Starting
  BY Zenon DEF NoRetired, Starting
<1>2. e.retired.phase \in Starting => \E n \in Nat : e.retired.action = <<e.ops, n>>
  <2>1. CASE e.retired = CaptureJob(c.job)
    <3>1. e.retired.phase = c.job.phase /\ e.retired.action = <<c.job.op, c.job.next>>
      BY <2>1, CaptureIs, Zenon DEF Action
    <3>2. c.job.phase \in Starting => c.job.op = c.ops /\ c.job.next \in Nat
      BY Zenon DEF Numbered, Starting
    <3> QED  BY <3>1, <3>2, Zenon
  <2>2. CASE e.retired = NoRetired
    BY <1>1, <2>2, Zenon
  <2>3. CASE e.retired = c.retired
    BY <2>3, Zenon DEF Numbered
  <2> QED  BY <2>1, <2>2, <2>3, Zenon
<1>3. ~Begun(e)
  BY Zenon DEF Begun
<1> QED  BY <1>2, <1>3, Zenon DEF Numbered

SameStep(c, e) ==
    /\ e.ops = c.ops /\ e.job.op = c.job.op /\ e.job.next = c.job.next
    /\ e.job.phase \in Asking => c.job.phase \in Asking

LEMMA NumberedStays ==
    ASSUME NEW c, NEW e, Numbered(c), Begun(c), SameStep(c, e), Known(e) = Known(c),
           e.job.kind = c.job.kind, e.retired = c.retired
    PROVE  Numbered(e)
BY Zenon DEF Numbered, Begun, SameStep

(* Cancel leaves the numbers as they are.                                  *)
LEMMA CancelNumbered ==
    ASSUME NEW c, CoordInv(c), Numbered(c)
    PROVE  Numbered(Cancel(c))
<1> DEFINE e == Cancel(c)
<1>1. /\ e.counted = c.counted /\ e.uncertain = c.uncertain
      /\ e.job.kind = "none" /\ e.job.phase = ""
  BY CancelKeeps, Zenon
<1>2. e.ops = c.ops /\ e.retired \in {c.retired, CaptureJob(c.job)}
  BY Zenon DEF Cancel, CoordInv, CoordShape, CoordFields, Retire
<1> HIDE DEF e
<1>3. Known(e) = Known(c)
  BY <1>1, Zenon DEF Known
<1>4. Numbered(e)
  BY <1>1, <1>2, <1>3, NumberedEnds, Zenon
<1> QED  BY <1>4, Zenon DEF e

(* The coordinator at a point where it waits for no worker, and what a     *)
(* handler makes of it.                                                    *)
Resting(c, W, S) ==
    /\ CoordInv(c) /\ Numbered(c) /\ WorkersShape(W)
    /\ c.counted \subseteq S /\ S \subseteq Known(c)
    /\ \A w \in Workers : Lane(W[w]) /\ Quiet(W[w])

(* An action is sent only to a worker in step, and only once.              *)
Steady(c, W) ==
    Out(c).phase \in Starting => ~W[Out(c).worker].astray /\ Out(c).action \notin Known(c)

LEMMA NothingIsSteady ==
    ASSUME NEW c, NEW W, Out(c).phase \notin Starting \/ Out(c) = NoRetired
    PROVE  Steady(c, W)
<1>1. NoRetired.phase \notin Starting
  BY Zenon DEF NoRetired, Starting
<1> QED  BY <1>1, Zenon DEF Steady

Settles(c, W, k, S) ==
    /\ ExchangeInv(k.coord, k.workers, S)
    /\ k.workers["holder"].buffers = W["holder"].buffers
    /\ k.workers["holder"].zeroed = W["holder"].zeroed
    /\ k.coord.session = c.session /\ k.coord.closed = c.closed

LEMMA RestingSettles ==
    ASSUME NEW c, NEW W, NEW S, Resting(c, W, S), Steady(c, W)
    PROVE  ExchangeInv(c, W, S)
<1>1. ASSUME NEW w \in Workers
      PROVE  WorkerInv(c, W[w], w, S)
  <2>1. Lane(W[w]) /\ Quiet(W[w])
    BY Zenon DEF Resting
  <2> QED  BY <2>1, Zenon DEF WorkerInv, Quiet, Steady, Tells
<1> QED  BY <1>1, Zenon DEF Resting, ExchangeInv, Steady

LEMMA SentSettles ==
    ASSUME NEW c, NEW W, NEW S, NEW V, Resting(c, W, S), Steady(c, W), c.job.phase # "",
           Sends(W, V, c.job.worker, Request(c))
    PROVE  ExchangeInv(c, V, S)
<1> DEFINE w == c.job.worker
<1>1. /\ CoordInv(c) /\ Numbered(c) /\ WorkersShape(V) /\ S \subseteq Known(c)
      /\ c.counted \subseteq S
  BY Zenon DEF Resting, Sends
<1>2. w \in Workers
  BY <1>1, Zenon DEF CoordInv
<1>3. Out(c).worker = w /\ Out(c).phase = c.job.phase /\ Out(c).action = Action(c.job)
  BY CaptureIs, Zenon DEF Out
<1>4. ASSUME NEW x \in Workers \ {w}
      PROVE  WorkerInv(c, V[x], x, S)
  <2>1. Lane(V[x]) /\ Quiet(V[x]) /\ x # Out(c).worker
    BY <1>3, Zenon DEF Resting, Sends
  <2> QED  BY <2>1, Zenon DEF WorkerInv, Quiet
<1>5. WorkerInv(c, V[w], w, S)
  <2> DEFINE q == W[w].inbox
             x == Request(c)
  <2>1. Lane(W[w]) /\ Quiet(W[w])
    BY <1>2, Zenon DEF Resting
  <2>2. x.method = c.job.phase /\ x.action = Action(c.job)
    BY RequestIs, Zenon
  <2>3. /\ V[w].up = "up" /\ V[w].inbox = Append(q, x)
        /\ V[w].output = W[w].output /\ V[w].answer = W[w].answer
        /\ V[w].astray = W[w].astray /\ V[w].at = W[w].at
    BY Zenon DEF Sends
  <2> HIDE DEF x, q
  <2>4. Sequence(q) /\ (V[w].astray => NoStart(q))
    BY <2>1, <2>3, Zenon DEF Lane, q
  <2>5. V[w].astray => x.method \notin Starting
    BY <1>3, <2>2, <2>3, Zenon DEF Steady
  <2> DEFINE p == Append(q, x)
  <2>10. /\ Sequence(p) /\ p # <<>> /\ (q = <<>> => Head(p) = x /\ Tail(p) = <<>>)
         /\ q # <<>> => Head(p) = Head(q)
         /\ NoStart(q) /\ x.method \notin Starting => NoStart(p)
    BY <2>4, PushIs, Zenon
  <2> HIDE DEF p
  <2>11. V[w].inbox = p
    BY <2>3, Zenon DEF p
  <2>6. /\ Sequence(V[w].inbox) /\ V[w].inbox # <<>>
        /\ q = <<>> => Head(V[w].inbox) = x /\ Tail(V[w].inbox) = <<>>
        /\ q # <<>> => Head(V[w].inbox) = Head(q)
        /\ V[w].astray => NoStart(V[w].inbox)
    BY <2>4, <2>5, <2>10, <2>11, Zenon
  <2>7. Lane(V[w])
    BY <2>1, <2>3, <2>6, Zenon DEF Lane, q
  <2>8. ~V[w].answer.reply /\ (~V[w].astray => q = <<>> /\ ~V[w].output.reply)
    BY <2>1, <2>3, Zenon DEF Quiet, q
  <2>9. Out(c).phase \in Starting => ~V[w].astray
    BY <1>3, <2>3, Zenon DEF Steady
  <2> QED  BY <1>1, <1>3, <2>2, <2>3, <2>6, <2>7, <2>8, <2>9, Zenon DEF WorkerInv, Tells
<1>6. S \subseteq Known(c) \cup Underway(c)
  BY <1>1, Zenon
<1> QED  BY <1>1, <1>4, <1>5, <1>6, Zenon DEF ExchangeInv, Steady

(* A job that is given up, has failed or is over.                          *)
LEMMA EndedSettles ==
    ASSUME NEW c, NEW W, NEW S, Resting(c, W, S), NEW reason, c.retired = NoRetired,
           NEW k, Pair(k, [c EXCEPT !.job = NoJob, !.reason = reason], W)
    PROVE  Settles(c, W, k, S)
<1> DEFINE e == [c EXCEPT !.job = NoJob, !.reason = reason]
<1>1. /\ CoordInv(e) /\ Known(e) = Known(c) /\ e.session = c.session /\ e.closed = c.closed
      /\ e.counted = c.counted /\ e.ops = c.ops /\ e.job = NoJob /\ e.retired = NoRetired
  BY Zenon DEF Resting, CoordInv, CoordShape, CoordFields, JobFields, NoJob, NoRetired,
     Known, Phases
<1> HIDE DEF e
<1>2. Numbered(e)
  BY <1>1, NoJobIs, NumberedEnds, Zenon DEF Resting
<1>3. Resting(e, W, S)
  BY <1>1, <1>2, Zenon DEF Resting
<1>4. Steady(e, W)
  BY <1>1, NoJobIs, NothingIsSteady, Zenon DEF Out
<1> QED  BY <1>1, <1>3, <1>4, RestingSettles, Zenon DEF Settles, Pair, e

LEMMA CancelSettles ==
    ASSUME NEW c, NEW W, NEW S, Resting(c, W, S), Out(c) = NoRetired, NEW k, Pair(k, Cancel(c), W)
    PROVE  Settles(c, W, k, S)
<1> DEFINE e == Cancel(c)
<1>1. /\ CoordInv(e) /\ Out(e) = Out(c) /\ Known(e) = Known(c) /\ e.counted = c.counted
      /\ e.session = c.session /\ e.closed = c.closed
  BY CancelKeeps, Zenon DEF Resting, Known
<1>2. Numbered(e)
  BY CancelNumbered, Zenon DEF Resting
<1> HIDE DEF e
<1>3. Resting(e, W, S) /\ Steady(e, W)
  BY <1>1, <1>2, NothingIsSteady, Zenon DEF Resting
<1> QED  BY <1>1, <1>3, RestingSettles, Zenon DEF Settles, Pair, e

(* The job takes a new phase, with a worker.                               *)
Rephased(c, e, w, phase) ==
    /\ CoordShape(e)
    /\ e.job.kind = c.job.kind /\ e.job.phase = phase /\ e.job.worker = w
    /\ e.retired = c.retired /\ e.counted = c.counted /\ e.uncertain = c.uncertain
    /\ e.session = c.session /\ e.closed = c.closed

LEMMA RephasedSettles ==
    ASSUME NEW c, NEW W, NEW S, Resting(c, W, S), Begun(c), NEW e, NEW w \in Workers,
           NEW phase \in {"authorize", "reuse-authorize", "start", "reuse-start", "register"},
           Rephased(c, e, w, phase), SameStep(c, e), Steady(e, W), NEW k, Pair(k, e, W)
    PROVE  Settles(c, W, SendWorker(k, w, phase), S)
<1> DEFINE m == SendWorker(k, w, phase)
<1>1. phase # "" /\ phase # "cleanup" /\ c.job.kind # "none"
  BY Zenon DEF Begun
<1>2. CoordInv(e) /\ Known(e) = Known(c)
  BY <1>1, Zenon DEF Resting, CoordInv, Rephased, Known, Phases
<1>3. Numbered(e)
  BY <1>2, NumberedStays, Zenon DEF Resting, Rephased
<1>4. Resting(e, W, S)
  BY <1>2, <1>3, Zenon DEF Resting, Rephased
<1>5. m.coord = e /\ Sends(W, m.workers, w, Request(e))
  BY SendWorkerSends DEF Rephased, Resting
<1>6. ExchangeInv(e, m.workers, S)
  BY <1>1, <1>4, <1>5, SentSettles, Zenon DEF Rephased
<1>7. /\ m.workers["holder"].buffers = W["holder"].buffers
      /\ m.workers["holder"].zeroed = W["holder"].zeroed
  BY <1>5, Zenon DEF Sends, Workers
<1> QED  BY <1>5, <1>6, <1>7, Zenon DEF Settles, Rephased

LEMMA RephasedOut ==
    ASSUME NEW c, NEW e, NEW w, NEW phase, Rephased(c, e, w, phase), phase # ""
    PROVE  Out(e).phase = phase /\ Out(e).worker = w /\ Out(e).action = Action(e.job)
BY CaptureIs, Zenon DEF Rephased, Out

(* BeginAction ends the job, fails it, or asks a worker to authorize.      *)
LEMMA BeginActionSettles ==
    ASSUME NEW c, NEW W, NEW S, Resting(c, W, S), Begun(c), c.job.phase = "", NEW k, Pair(k, c, W)
    PROVE  Settles(c, W, BeginAction(k), S)
<1> DEFINE features == FeaturesOf(c.job.task)
           reuse == features[c.job.next + 1] = "calendar" /\ c.artifact # 0
                       /\ c.job.task # "expanded"
           w == IF reuse THEN "holder" ELSE Provider(features[c.job.next + 1])
           phase == IF reuse THEN "reuse-authorize" ELSE "authorize"
           at == [k EXCEPT !.coord.job.worker = w, !.coord.job.phase = phase]
<1>1. w \in Workers /\ phase \in {"authorize", "reuse-authorize"}
  BY Zenon DEF Provider, Workers
<1>2. BeginAction(k) \in {[k EXCEPT !.coord = Cancel(c)],
                          [k EXCEPT !.coord = EndJob(c, "completed")],
                          [k EXCEPT !.coord = FailJob(c)], SendWorker(at, w, phase)}
  BY Zenon DEF BeginAction, Pair
<1> HIDE DEF w, phase
<1>3. ASSUME NEW e
      PROVE  Pair([k EXCEPT !.coord = e], e, W)
  BY Zenon DEF Pair
<1>4. c.retired = NoRetired /\ Out(c) = NoRetired
  BY Zenon DEF Resting, CoordInv, Begun, Out
<1>5. Settles(c, W, [k EXCEPT !.coord = Cancel(c)], S)
  BY <1>3, <1>4, CancelSettles, Zenon
<1>6. /\ Settles(c, W, [k EXCEPT !.coord = EndJob(c, "completed")], S)
      /\ Settles(c, W, [k EXCEPT !.coord = FailJob(c)], S)
  BY <1>3, <1>4, EndedSettles, Zenon DEF EndJob, FailJob
<1>7. Rephased(c, at.coord, w, phase) /\ Pair(at, at.coord, W)
  BY Zenon DEF Rephased, Pair, Resting, CoordInv, CoordShape, CoordFields, JobFields
<1>8. SameStep(c, at.coord)
  BY Zenon DEF SameStep, Asking, Pair, Resting, CoordInv, CoordShape, CoordFields, JobFields
<1> HIDE DEF at
<1>9. phase # "" /\ phase \notin Starting
  BY <1>1, Zenon DEF Starting
<1>10. Steady(at.coord, W)
  <2>1. Out(at.coord).phase = phase
    BY <1>7, <1>9, RephasedOut, Zenon
  <2> QED  BY <1>9, <2>1, NothingIsSteady, Zenon
<1>11. Settles(c, W, SendWorker(at, w, phase), S)
  BY <1>1, <1>7, <1>8, <1>10, RephasedSettles, Zenon
<1> QED  BY <1>2, <1>5, <1>6, <1>11, Zenon

LEMMA NextActionSettles ==
    ASSUME NEW c, NEW W, NEW S, Resting(c, W, S), Begun(c), NEW k, Pair(k, c, W)
    PROVE  Settles(c, W, NextAction(k), S)
<1> DEFINE at == [k EXCEPT !.coord.job.phase = "", !.coord.job.next = @ + 1]
           e == at.coord
<1>1. Rephased(c, e, c.job.worker, "") /\ Pair(at, e, W)
  BY Zenon DEF Rephased, Pair, Resting, CoordInv, CoordShape, CoordFields, JobFields
<1>2. e.ops = c.ops /\ e.job.op = c.job.op /\ e.job.next = c.job.next + 1
  BY Zenon DEF Pair, Resting, CoordInv, CoordShape, CoordFields, JobFields
<1> HIDE DEF at
<1>3. CoordInv(e) /\ Known(e) = Known(c)
  BY <1>1, Zenon DEF Resting, CoordInv, Rephased, Known, Phases, Begun
<1>4. Numbered(e) /\ Begun(e)
  <2>1. Begun(e) /\ e.job.phase = "" /\ e.retired = c.retired
    BY <1>1, Zenon DEF Rephased, Begun
  <2>2. /\ c.ops \in Nat /\ c.job.op = c.ops /\ c.job.next \in Nat
        /\ \A n \in Nat : n > c.job.next => <<c.ops, n>> \notin Known(c)
        /\ \A o \in Nat, n \in Nat : o > c.ops => <<o, n>> \notin Known(c)
        /\ c.retired.phase \in Starting => \E n \in Nat : c.retired.action = <<c.ops, n>>
    BY Zenon DEF Numbered, Resting
  <2>3. /\ c.job.next + 1 \in Nat /\ c.job.next + 1 > c.job.next
        /\ \A n \in Nat : n > c.job.next + 1 => n > c.job.next
    BY <2>2
  <2>4. \A n \in Nat : n > e.job.next => <<e.ops, n>> \notin Known(e)
    BY <1>2, <1>3, <2>2, <2>3, Zenon
  <2>5. <<e.ops, e.job.next>> \notin Known(e)
    BY <1>2, <1>3, <2>2, <2>3, Zenon
  <2> QED  BY <1>2, <1>3, <2>1, <2>2, <2>3, <2>4, <2>5, Zenon DEF Numbered
<1>5. Resting(e, W, S)
  BY <1>1, <1>3, <1>4, Zenon DEF Resting, Rephased
<1>6. e.job.phase = ""
  BY <1>1, Zenon DEF Rephased
<1>7. Settles(e, W, BeginAction(at), S)
  BY <1>1, <1>4, <1>5, <1>6, BeginActionSettles, Zenon
<1> QED  BY <1>1, <1>7, Zenon DEF NextAction, Settles, Rephased, at

LEMMA DispatchStartSettles ==
    ASSUME NEW c, NEW W, NEW S, Resting(c, W, S), c.job.phase \in {"authorize", "reuse-authorize"},
           ~W[c.job.worker].astray, NEW k, Pair(k, c, W)
    PROVE  Settles(c, W, DispatchStart(k), S)
<1> DEFINE w == c.job.worker
           phase == IF c.job.phase = "authorize" THEN "start" ELSE "reuse-start"
           at == [k EXCEPT !.coord.job.phase = phase]
           failed == [at EXCEPT !.coord = FailJob(Retire(at.coord))]
<1>0. c.job.phase \notin {"", "cleanup"} /\ c.job.phase \in Asking
  BY Zenon DEF Asking
<1>1. /\ c.job.kind # "none" /\ c.retired = NoRetired /\ w \in Workers
      /\ phase \in {"start", "reuse-start"} /\ Begun(c)
      /\ <<c.job.op, c.job.next>> \notin Known(c)
  BY <1>0, Zenon DEF Resting, CoordInv, Numbered
<1>2. DispatchStart(k) \in {failed, SendWorker(at, w, phase)}
  BY Zenon DEF DispatchStart, Pair
<1> HIDE DEF phase
<1>3. Rephased(c, at.coord, w, phase) /\ Pair(at, at.coord, W)
  BY Zenon DEF Rephased, Pair, Resting, CoordInv, CoordShape, CoordFields, JobFields
<1>4. SameStep(c, at.coord)
  <2>1. at.coord.ops = c.ops /\ at.coord.job.op = c.job.op /\ at.coord.job.next = c.job.next
    BY Zenon DEF Pair, Resting, CoordInv, CoordShape, CoordFields, JobFields
  <2> QED  BY <1>0, <2>1, Zenon DEF SameStep
<1> HIDE DEF at
<1>5. Known(at.coord) = Known(c)
  BY <1>3, Zenon DEF Rephased, Known
<1>6. Steady(at.coord, W)
  <2>1. phase # ""
    BY <1>1, Zenon
  <2>2. /\ Out(at.coord).phase = phase /\ Out(at.coord).worker = w
        /\ Out(at.coord).action = Action(at.coord.job)
    <3> HIDE DEF w
    <3> QED  BY <1>3, <2>1, RephasedOut, Zenon
  <2>3. Action(at.coord.job) = <<c.job.op, c.job.next>>
    BY <1>4, Zenon DEF SameStep, Action
  <2> QED  BY <1>1, <1>5, <2>2, <2>3, Zenon DEF Steady
<1>7. Settles(c, W, SendWorker(at, w, phase), S)
  BY <1>1, <1>3, <1>4, <1>6, RephasedSettles, Zenon
<1>8. Settles(c, W, failed, S)
  <2> DEFINE e == FailJob(Retire(at.coord))
  <2>1. Pair(failed, e, W)
    BY <1>3, Zenon DEF Pair
  <2>2. /\ CoordShape(e) /\ e.job = NoJob /\ e.retired = CaptureJob(at.coord.job)
        /\ e.counted = c.counted /\ e.uncertain = c.uncertain
        /\ e.session = c.session /\ e.closed = c.closed /\ e.ops = at.coord.ops
    BY <1>3, Zenon DEF Rephased, FailJob, Retire, CoordShape, CoordFields, JobFields, NoJob
  <2> HIDE DEF e
  <2>3. e.retired.worker = w
    BY <1>3, <2>2, CaptureIs, Zenon DEF Rephased
  <2>4. e.job.kind = "none" /\ e.job.phase = ""
    BY <2>2, NoJobIs, Zenon
  <2>5. CoordInv(e) /\ Known(e) = Known(c)
    BY <1>1, <2>2, <2>3, <2>4, Zenon DEF CoordInv, Known, Phases
  <2>6. Numbered(at.coord)
    BY <1>1, <1>3, <1>4, <1>5, NumberedStays, Zenon DEF Resting, Rephased
  <2>7. Numbered(e)
    BY <1>5, <2>2, <2>4, <2>5, <2>6, NumberedEnds, Zenon
  <2>8. Resting(e, W, S)
    BY <2>2, <2>5, <2>7, Zenon DEF Resting
  <2>9. Out(e) = Out(at.coord)
    <3>1. at.coord.job.phase # ""
      BY <1>1, <1>3, Zenon DEF Rephased
    <3> QED  BY <2>2, <2>4, <3>1, Zenon DEF Out
  <2>10. Steady(e, W)
    BY <1>5, <1>6, <2>5, <2>9, Zenon DEF Steady
  <2> QED  BY <2>1, <2>2, <2>8, <2>10, RestingSettles, Zenon DEF Settles, Pair
<1> QED  BY <1>2, <1>7, <1>8, Zenon

LEMMA RegisterSettles ==
    ASSUME NEW c, NEW W, NEW S, Resting(c, W, S), Begun(c), NEW k, Pair(k, c, W)
    PROVE  Settles(c, W, Register(k), S)
<1> DEFINE at == [k EXCEPT !.coord.job.phase = "register", !.coord.job.worker = "holder"]
           failed == [k EXCEPT !.coord = FailJob(c)]
<1>1. Register(k) \in {failed, SendWorker(at, "holder", "register")}
  BY Zenon DEF Register, Pair
<1>2. c.retired = NoRetired
  BY Zenon DEF Resting, CoordInv, Begun
<1>3. Pair(failed, FailJob(c), W)
  BY Zenon DEF Pair
<1>4. Settles(c, W, failed, S)
  BY <1>2, <1>3, EndedSettles, Zenon DEF FailJob
<1>5. Rephased(c, at.coord, "holder", "register") /\ Pair(at, at.coord, W)
  BY Zenon DEF Rephased, Pair, Resting, CoordInv, CoordShape, CoordFields, JobFields
<1>6. "register" \notin Asking /\ "register" \notin Starting /\ "register" # ""
  BY Zenon DEF Asking, Starting
<1>7. SameStep(c, at.coord)
  <2>1. /\ at.coord.ops = c.ops /\ at.coord.job.op = c.job.op /\ at.coord.job.next = c.job.next
        /\ at.coord.job.phase = "register"
    BY Zenon DEF Pair, Resting, CoordInv, CoordShape, CoordFields, JobFields
  <2> QED  BY <1>6, <2>1, Zenon DEF SameStep
<1> HIDE DEF at
<1>8. Steady(at.coord, W)
  <2>1. Out(at.coord).phase = "register"
    BY <1>5, <1>6, RephasedOut, Zenon
  <2> QED  BY <1>6, <2>1, NothingIsSteady, Zenon
<1>9. Settles(c, W, SendWorker(at, "holder", "register"), S)
  BY <1>5, <1>7, <1>8, RephasedSettles, Zenon DEF Workers
<1> QED  BY <1>1, <1>4, <1>9, Zenon

-----------------------------------------------------------------------------
(* A result is read (Received), or is there and cannot be read (Unread),   *)
(* and what it says of an action is recorded.                              *)
Hears(W, V, w, answer) ==
    /\ WorkersShape(V)
    /\ \A x \in Workers \ {w} : V[x] = W[x]
    /\ V[w].answer = NoReply
    /\ V[w].inbox = W[w].inbox /\ V[w].output = W[w].output /\ V[w].at = W[w].at
    /\ V[w].buffers = W[w].buffers /\ V[w].zeroed = W[w].zeroed
    /\ \/ answer = W[w].answer /\ (V[w].astray <=> W[w].astray)
       \/ answer = NoReply /\ W[w].answer.reply /\ V[w].astray

LEMMA ReceivedHears ==
    ASSUME WorkersShape(workers), NEW w \in Workers
    PROVE  /\ Pair(Received(w), coord, Received(w).workers)
           /\ Hears(workers, Received(w).workers, w, workers[w].answer)
<1>1. /\ Pair(Received(w), coord, Received(w).workers)
      /\ Received(w).workers = [workers EXCEPT ![w].answer = NoReply]
  BY Zenon DEF Received, Now, Pair
<1>2. Hears(workers, [workers EXCEPT ![w].answer = NoReply], w, workers[w].answer)
  BY Zenon DEF Hears, WorkersShape, WorkerFields
<1> QED  BY <1>1, <1>2, Zenon

LEMMA UnreadHears ==
    ASSUME WorkersShape(workers), NEW w \in Workers, workers[w].answer.reply
    PROVE  /\ Pair(Unread(w), coord, Unread(w).workers)
           /\ Hears(workers, Unread(w).workers, w, NoReply)
<1> DEFINE V == [[workers EXCEPT ![w].answer = NoReply] EXCEPT ![w].astray = TRUE]
           g == [[workers[w] EXCEPT !.answer = NoReply] EXCEPT !.astray = TRUE]
<1>1. /\ Pair(Unread(w), coord, Unread(w).workers) /\ Unread(w).workers = V
  BY Zenon DEF Unread, Now, Pair
<1>2. DOMAIN V = Workers /\ V[w] = g /\ \A x \in Workers \ {w} : V[x] = workers[x]
  BY Zenon DEF WorkersShape
<1>3. /\ DOMAIN g = WorkerFields /\ g.answer = NoReply /\ g.astray /\ g.inbox = workers[w].inbox
      /\ g.output = workers[w].output /\ g.at = workers[w].at
      /\ g.buffers = workers[w].buffers /\ g.zeroed = workers[w].zeroed
  BY Zenon DEF WorkersShape, WorkerFields
<1> HIDE DEF g, V
<1>4. Hears(workers, V, w, NoReply)
  BY <1>2, <1>3, Zenon DEF Hears, WorkersShape
<1> QED  BY <1>1, <1>4, Zenon

LEMMA NoReplyIs == ~NoReply.reply /\ ~NoReply.ok
BY Zenon DEF NoReply

LEMMA HeardIsQuiet ==
    ASSUME NEW c, NEW W, NEW S, NEW V, NEW answer, ExchangeInv(c, W, S), NEW w \in Workers,
           w = Out(c).worker, W[w].answer.reply \/ W[w].up = "dead" \/ W[w].astray,
           Hears(W, V, w, answer)
    PROVE  \A x \in Workers : Lane(V[x]) /\ Quiet(V[x])
<1>1. ASSUME NEW x \in Workers \ {w}
      PROVE  Lane(V[x]) /\ Quiet(V[x])
  <2>1. Lane(W[x]) /\ Quiet(W[x])
    BY Zenon DEF ExchangeInv, WorkerInv
  <2> QED  BY <2>1, Zenon DEF Hears
<1>2. /\ Lane(W[w])
      /\ ~W[w].astray /\ W[w].inbox # <<>> => ~W[w].answer.reply /\ W[w].up = "up"
      /\ ~W[w].astray /\ W[w].output.reply => ~W[w].answer.reply /\ W[w].up = "up"
  BY Zenon DEF ExchangeInv, WorkerInv
<1>3. W[w].astray \/ (W[w].inbox = <<>> /\ ~W[w].output.reply)
  BY <1>2, Zenon
<1>4. W[w].answer.reply => W[w].inbox = <<>>
  BY <1>2, Zenon DEF Lane
<1>5. ~V[w].answer.reply /\ ~V[w].answer.ok
      /\ V[w].inbox = W[w].inbox /\ V[w].output = W[w].output /\ V[w].at = W[w].at
  BY NoReplyIs, Zenon DEF Hears
<1>6. (V[w].astray <=> W[w].astray) \/ (W[w].answer.reply /\ V[w].astray)
  BY Zenon DEF Hears
<1>7. Quiet(V[w])
  <2> DEFINE h == V[w]
             g == W[w]
  <2>1. ~h.answer.reply /\ h.inbox = g.inbox /\ h.output = g.output
    BY <1>5, Zenon
  <2>2. h.astray \/ ~g.astray
    BY <1>6, Zenon
  <2>3. g.astray \/ (g.inbox = <<>> /\ ~g.output.reply)
    BY <1>3, Zenon
  <2> HIDE DEF h, g
  <2>4. Quiet(h)
    BY <2>1, <2>2, <2>3, Zenon DEF Quiet
  <2> QED  BY <2>4, Zenon DEF h
<1>8. V[w].astray => NoStart(V[w].inbox)
  BY <1>2, <1>4, <1>5, <1>6, EmptyIs, Zenon DEF Lane
<1>9. Lane(V[w])
  BY <1>2, <1>5, <1>8, Zenon DEF Lane
<1> QED  BY <1>1, <1>7, <1>9, Zenon

Says(record, answer) == record.phase \in Starting /\ answer.reply /\ answer.started

Recorded(c, e, rec, answer) ==
    /\ CoordShape(e) /\ e.job = c.job /\ e.retired = c.retired /\ e.ops = c.ops
    /\ e.session = c.session /\ e.closed = c.closed
    /\ Known(c) \subseteq Known(e) /\ Known(e) \subseteq Known(c) \cup {rec.action}
    /\ rec.phase \notin Starting => Known(e) \subseteq Known(c)
    /\ rec.phase \in Starting /\ (~answer.reply \/ answer.started) => rec.action \in Known(e)
    /\ Says(rec, answer) => e.counted = c.counted \cup {rec.action}
    /\ ~Says(rec, answer) => e.counted = c.counted

LEMMA RecordIs ==
    ASSUME NEW c, CoordShape(c), NEW rec, NEW answer
    PROVE  Recorded(c, RecordCompletion(c, rec, answer), rec, answer)
<1> DEFINE e == RecordCompletion(c, rec, answer)
<1>1. CASE rec.phase \notin Starting \/ (answer.reply /\ ~answer.started /\ ~answer.ok)
  <2>1. e = c
    BY <1>1, Zenon DEF RecordCompletion, Starting
  <2> HIDE DEF e
  <2> QED  BY <1>1, <2>1, Zenon DEF Recorded, Says, e
<1>2. CASE rec.phase \in Starting /\ answer.reply /\ answer.started
  <2> DEFINE A == c.counted \cup {rec.action}
  <2>1. e = [c EXCEPT !.counted = A]
    BY <1>2, Zenon DEF RecordCompletion, Starting
  <2> HIDE DEF e, A
  <2>2. /\ DOMAIN e = CoordFields /\ e.counted = A /\ e.uncertain = c.uncertain /\ e.job = c.job
        /\ e.retired = c.retired /\ e.ops = c.ops /\ e.session = c.session /\ e.closed = c.closed
    BY <2>1, Zenon DEF CoordShape, CoordFields
  <2> QED  BY <1>2, <2>2, Zenon DEF Recorded, CoordShape, Known, Says, e, A
<1>3. CASE /\ rec.phase \in Starting
           /\ ~(answer.reply /\ answer.started) /\ ~(answer.reply /\ ~answer.ok)
  <2> DEFINE A == c.uncertain \cup {rec.action}
  <2>1. e = [c EXCEPT !.uncertain = A]
    BY <1>3, Zenon DEF RecordCompletion, Starting
  <2> HIDE DEF e, A
  <2>2. /\ DOMAIN e = CoordFields /\ e.counted = c.counted /\ e.uncertain = A /\ e.job = c.job
        /\ e.retired = c.retired /\ e.ops = c.ops /\ e.session = c.session /\ e.closed = c.closed
    BY <2>1, Zenon DEF CoordShape, CoordFields
  <2> QED  BY <1>3, <2>2, Zenon DEF Recorded, CoordShape, Known, Says, e, A
<1> QED  BY <1>1, <1>2, <1>3, Zenon

(* Once the result is recorded, nothing that was started is unknown, and   *)
(* what is counted was started.                                            *)
LEMMA RecordedIsKnown ==
    ASSUME NEW c, NEW W, NEW S, NEW V, NEW answer, ExchangeInv(c, W, S), NEW w \in Workers,
           w = Out(c).worker, Hears(W, V, w, answer),
           NEW b, CoordShape(b), b.counted = c.counted, b.uncertain = c.uncertain
    PROVE  LET e == RecordCompletion(b, Out(c), answer)
           IN S \subseteq Known(e) /\ e.counted \subseteq S
<1>1. Known(b) = Known(c)
  BY Zenon DEF Known
<1> DEFINE r == Out(c)
           e == RecordCompletion(b, r, answer)
<1> HIDE DEF r
<1>7. Recorded(b, e, r, answer)
  BY RecordIs, Zenon
<1> HIDE DEF e
<1>2. /\ Known(b) \subseteq Known(e)
      /\ r.phase \in Starting /\ (~answer.reply \/ answer.started) => r.action \in Known(e)
      /\ Says(r, answer) => e.counted = b.counted \cup {r.action}
      /\ ~Says(r, answer) => e.counted = b.counted
  BY <1>7, Zenon DEF Recorded
<1>3. S \subseteq Known(c) \cup Underway(c) /\ c.counted \subseteq S
  BY Zenon DEF ExchangeInv
<1>4. r.phase \in Starting => Tells(c, answer, S)
  <2>1. Out(c).phase \in Starting => Tells(c, W[w].answer, S)
    BY Zenon DEF ExchangeInv, WorkerInv, r
  <2>2. Tells(c, NoReply, S)
    BY NoReplyIs, Zenon DEF Tells
  <2>3. answer = W[w].answer \/ answer = NoReply
    BY Zenon DEF Hears
  <2> QED  BY <2>1, <2>2, <2>3, Zenon DEF r
<1>5. S \subseteq Known(e)
  BY <1>1, <1>2, <1>3, <1>4, Zenon DEF Underway, Tells, r
<1>6. e.counted \subseteq S
  BY <1>2, <1>3, <1>4, Zenon DEF Tells, Says, r
<1> QED  BY <1>5, <1>6, Zenon DEF e, r

(* The action that is recorded is the one dispatched last.                 *)
LEMMA RecordNumbered ==
    ASSUME NEW c, CoordShape(c), Numbered(c), NEW rec, NEW answer,
           rec.phase \in Starting =>
              \E n \in Nat : /\ rec.action = <<c.ops, n>>
                             /\ Begun(c) => n = c.job.next /\ c.job.phase \notin Asking
    PROVE  Numbered(RecordCompletion(c, rec, answer))
<1> DEFINE e == RecordCompletion(c, rec, answer)
<1>4. Recorded(c, e, rec, answer)
  BY RecordIs, Zenon
<1> HIDE DEF e
<1>1. /\ e.job = c.job /\ e.retired = c.retired /\ e.ops = c.ops
      /\ Known(c) \subseteq Known(e) /\ Known(e) \subseteq Known(c) \cup {rec.action}
      /\ rec.phase \notin Starting => Known(e) \subseteq Known(c)
  BY <1>4, Zenon DEF Recorded
<1>2. CASE rec.phase \notin Starting
  <2>1. Known(e) = Known(c)
    BY <1>1, <1>2, Zenon
  <2> QED  BY <1>1, <2>1, Zenon DEF Numbered, Begun, e
<1>3. CASE rec.phase \in Starting
  <2>1. PICK n \in Nat : /\ rec.action = <<c.ops, n>>
                         /\ Begun(c) => n = c.job.next /\ c.job.phase \notin Asking
    BY <1>3, Zenon
  <2>2. Known(e) \subseteq Known(c) \cup {<<c.ops, n>>}
    BY <1>1, <1>3, <2>1, Zenon
  <2>3. c.ops \in Nat /\ \A o \in Nat, m \in Nat : o > c.ops => <<o, m>> \notin Known(c)
    BY Zenon DEF Numbered
  <2>4. \A o \in Nat, m \in Nat : o > c.ops => <<o, m>> \notin Known(e)
    BY <2>2, <2>3
  <2>5. Begun(c) => \A m \in Nat : m > c.job.next => <<c.ops, m>> \notin Known(e)
    <3> SUFFICES ASSUME Begun(c), NEW m \in Nat, m > c.job.next PROVE <<c.ops, m>> \notin Known(e)
      BY Zenon
    <3>1. <<c.ops, m>> \notin Known(c) /\ c.job.next \in Nat
      BY Zenon DEF Numbered
    <3>2. <<c.ops, m>> # <<c.ops, n>>
      BY <2>1, <3>1
    <3> QED  BY <2>2, <3>1, <3>2, Zenon
  <2> QED  BY <1>1, <2>1, <2>3, <2>4, <2>5, Zenon DEF Numbered, Begun, e
<1> QED  BY <1>2, <1>3, Zenon

-----------------------------------------------------------------------------
(* A reply to the sweep: the conversation is closed only if the daemon     *)
(* says so.                                                                *)
LEMMA SentAgain ==
    ASSUME NEW c, NEW W, NEW S, Resting(c, W, S), c.job.phase = "cleanup", NEW k, Pair(k, c, W)
    PROVE  Settles(c, W, SendWorker(k, c.job.worker, c.job.phase), S)
<1> DEFINE m == SendWorker(k, c.job.worker, c.job.phase)
<1>1. c.job.worker \in Workers /\ WorkersShape(W)
  BY Zenon DEF Resting, CoordInv
<1>2. m.coord = c /\ Sends(W, m.workers, c.job.worker, Request(c))
  BY <1>1, SendWorkerSends, Zenon
<1>3. ExchangeInv(c, m.workers, S)
  <2>1. c.job.phase # "" /\ c.job.phase \notin Starting
    BY Zenon DEF Starting
  <2>2. Out(c).phase = c.job.phase
    BY <2>1, CaptureIs, Zenon DEF Out
  <2>3. Steady(c, W)
    BY <2>1, <2>2, NothingIsSteady, Zenon
  <2> QED  BY <1>2, <2>1, <2>3, SentSettles, Zenon
<1>4. /\ m.workers["holder"].buffers = W["holder"].buffers
      /\ m.workers["holder"].zeroed = W["holder"].zeroed
  BY <1>1, <1>2, Zenon DEF Sends, Workers
<1> QED  BY <1>2, <1>3, <1>4, Zenon DEF Settles

(* What a handler leaves, the conversation's end included.                 *)
Handled(W, k, S) ==
    /\ ExchangeInv(k.coord, k.workers, S)
    /\ k.workers["holder"].buffers = W["holder"].buffers
    /\ k.workers["holder"].zeroed = W["holder"].zeroed
    /\ ClosedInv(k.coord, db)

LEMMA SettlesHandled ==
    ASSUME NEW c, NEW W, NEW k, NEW S, Settles(c, W, k, S), ClosedInv(c, db)
    PROVE  Handled(W, k, S)
BY Zenon DEF Settles, Handled, ClosedInv

LEMMA CleanupReplyHandled ==
    ASSUME NEW c, NEW W, NEW S, Resting(c, W, S), c.job.phase = "cleanup", NEW k, Pair(k, c, W),
           ClosedInv(c, db), DatabaseShape(db), NEW answer
    PROVE  Handled(W, CleanupReply(k, answer), S)
<1> DEFINE failed == [k EXCEPT !.coord = FailJob(c)]
           e == Closed(c)
           closed == [k EXCEPT !.coord = e]
<1>1. \/ CleanupReply(k, answer) \in {failed, SendWorker(k, "holder", "cleanup")}
      \/ CleanupReply(k, answer) = closed /\ db.sessions[c.session] = "CLOSED"
  BY Zenon DEF CleanupReply, Pair
<1>2. /\ c.retired = NoRetired /\ c.session # 0 /\ c.job.worker = "holder"
      /\ CoordShape(c)
  BY Zenon DEF Resting, CoordInv
<1>3. Settles(c, W, failed, S)
  <2>1. Pair(failed, FailJob(c), W)
    BY Zenon DEF Pair
  <2> QED  BY <1>2, <2>1, EndedSettles, Zenon DEF FailJob
<1>4. Settles(c, W, SendWorker(k, "holder", "cleanup"), S)
  BY <1>2, SentAgain, Zenon
<1>5. ASSUME db.sessions[c.session] = "CLOSED"
      PROVE  Handled(W, closed, S)
  <2>1. Pair(closed, e, W)
    BY Zenon DEF Pair
  <2>2. /\ DOMAIN e = CoordFields /\ e.job = NoJob /\ e.retired = NoRetired
        /\ e.counted = c.counted /\ e.uncertain = c.uncertain /\ e.ops = c.ops
        /\ e.session = 0 /\ e.closed = c.closed \cup {c.session}
    BY <1>2, Zenon DEF Closed, CoordShape, CoordFields
  <2> HIDE DEF e
  <2>3. CoordInv(e) /\ Known(e) = Known(c)
    BY <2>2, NoJobIs, Zenon DEF CoordInv, CoordShape, Known, Phases
  <2>4. Resting(e, W, S) /\ Steady(e, W)
    <3>1. Numbered(e)
      BY <2>2, <2>3, NoJobIs, NumberedEnds, Zenon DEF Resting
    <3>2. Out(e) = NoRetired
      BY <2>2, NoJobIs, Zenon DEF Out
    <3> QED  BY <2>2, <2>3, <3>1, <3>2, NothingIsSteady, Zenon DEF Resting
  <2>5. Len(db.sessions) \in Nat
    BY DEF DatabaseShape
  <2>6. c.session \in 1..Len(db.sessions) /\ 0 \in 0..Len(db.sessions)
    BY <1>2, <2>5 DEF ClosedInv
  <2>7. ClosedInv(e, db)
    BY <1>5, <2>2, <2>6, Zenon DEF ClosedInv
  <2> QED  BY <2>1, <2>4, <2>7, RestingSettles, Zenon DEF Handled, Pair
<1> QED  BY <1>1, <1>3, <1>4, <1>5, SettlesHandled, Zenon

(* The result of a job's request is handled: it is recorded and dropped,   *)
(* or decides what the job does next.                                      *)
LEMMA ResultHandled ==
    ASSUME NEW c, NEW W, NEW S, NEW V, NEW answer, ExchangeInv(c, W, S), c.job.phase # "",
           W[c.job.worker].answer.reply \/ W[c.job.worker].up = "dead" \/ W[c.job.worker].astray,
           Hears(W, V, c.job.worker, answer), NEW k, Pair(k, c, V),
           ClosedInv(c, db), DatabaseShape(db)
    PROVE  Handled(V, HandleWorkerResult(k, answer), S)
<1> DEFINE w == c.job.worker
           rec == CaptureJob(c.job)
           m == HandleWorkerResult(k, answer)
<1>1. /\ CoordInv(c) /\ CoordShape(c) /\ c.retired = NoRetired /\ w \in Workers
      /\ c.job.kind # "none" /\ c.job.phase \in Phases /\ Numbered(c)
  BY Zenon DEF ExchangeInv, CoordInv
<1>2. Out(c) = rec /\ Out(c).worker = w
  BY CaptureIs, Zenon DEF Out
<1>3. \A x \in Workers : Lane(V[x]) /\ Quiet(V[x])
  BY <1>1, <1>2, HeardIsQuiet, Zenon
<1>4. WorkersShape(V)
  BY Zenon DEF Hears
<1>0. c.job.phase # "cleanup" => Begun(c)
  BY <1>1, Zenon DEF Numbered
<1> HIDE DEF w, m, rec
<1>5. CASE ~Current(c)
  <2> DEFINE b == Cancel(c)
             r == RecordCompletion(b, rec, answer)
             f == RetiredResult(b, answer)
  <2>1. m = [k EXCEPT !.coord = f]
    BY <1>5, Zenon DEF HandleWorkerResult, Pair, m
  <2>2. Pair([k EXCEPT !.coord = f], f, V)
    BY Zenon DEF Pair
  <2>3. b.retired = rec
    BY <1>1, Zenon DEF Cancel, Retire, CoordShape, CoordFields, rec
  <2>4. /\ CoordInv(b) /\ CoordShape(b) /\ Known(b) = Known(c) /\ b.session = c.session
        /\ b.closed = c.closed /\ b.job.kind = "none" /\ b.job.phase = ""
        /\ b.counted = c.counted /\ b.uncertain = c.uncertain
    BY <1>1, CancelKeeps, Zenon DEF Known, CoordInv
  <2>12. Numbered(b)
    BY <1>1, CancelNumbered, Zenon
  <2> HIDE DEF b
  <2>5. S \subseteq Known(r) /\ r.counted \subseteq S
    BY <1>1, <1>2, <2>4, RecordedIsKnown, Zenon DEF w
  <2>6. CoordShape(r) /\ r.job = b.job /\ r.session = b.session /\ r.closed = b.closed
        /\ r.ops = b.ops
    <3>1. CoordShape(b)
      BY <2>4, Zenon
    <3>2. Recorded(b, r, rec, answer)
      BY <3>1, RecordIs, Zenon
    <3> HIDE DEF r
    <3> QED  BY <3>2, Zenon DEF Recorded
  <2>13. Numbered(r)
    <3>1. ~Begun(b)
      BY <2>4, Zenon DEF Begun
    <3>2. rec.phase \in Starting => \E n \in Nat : rec.action = <<b.ops, n>>
      BY <2>3, <2>12, Zenon DEF Numbered
    <3>3. CoordShape(b)
      BY <2>4, Zenon
    <3> QED  BY <2>12, <3>1, <3>2, <3>3, RecordNumbered, Zenon
  <2> HIDE DEF r
  <2>7. f = [r EXCEPT !.retired = NoRetired]
    BY <2>3, Zenon DEF RetiredResult, r
  <2>8. /\ CoordShape(f) /\ f.job = r.job /\ f.session = r.session /\ f.closed = r.closed
        /\ f.retired = NoRetired /\ Known(f) = Known(r) /\ f.counted = r.counted /\ f.ops = r.ops
    BY <2>6, <2>7, Zenon DEF CoordShape, CoordFields, Known
  <2> HIDE DEF f
  <2>9. CoordInv(f)
    BY <2>4, <2>6, <2>8, Zenon DEF CoordInv, Phases
  <2>10. Resting(f, V, S) /\ Steady(f, V)
    <3>1. Numbered(f)
      BY <2>4, <2>6, <2>8, <2>13, NumberedEnds, Zenon
    <3>2. Out(f) = NoRetired
      BY <2>4, <2>6, <2>8, Zenon DEF Out
    <3> QED  BY <1>3, <1>4, <2>5, <2>8, <2>9, <3>1, <3>2, NothingIsSteady, Zenon DEF Resting
  <2>11. Settles(c, V, m, S)
    BY <2>1, <2>2, <2>4, <2>6, <2>8, <2>10, RestingSettles, Zenon DEF Settles, Pair
  <2> QED  BY <2>11, SettlesHandled, Zenon DEF m
<1>6. ASSUME c.job.phase \notin Starting
      PROVE  Resting(c, V, S)
  <2>1. S \subseteq Known(c)
    BY <1>2, <1>6, CaptureIs, Zenon DEF ExchangeInv, Underway, rec
  <2> QED  BY <1>1, <1>3, <1>4, <2>1, Zenon DEF Resting, ExchangeInv
<1> DEFINE failure == [k EXCEPT !.coord = FailJob(c)]
<1>7. Resting(c, V, S) => Settles(c, V, failure, S)
  <2>1. Pair(failure, FailJob(c), V)
    BY Zenon DEF Pair
  <2> QED  BY <1>1, <2>1, EndedSettles, Zenon DEF FailJob
<1>8. CASE Current(c) /\ c.job.phase = "cleanup"
  <2>1. m = CleanupReply(k, answer)
    BY <1>8, Zenon DEF HandleWorkerResult, Pair, m
  <2>2. Resting(c, V, S)
    BY <1>6, <1>8, Zenon DEF Starting
  <2> QED  BY <1>8, <2>1, <2>2, CleanupReplyHandled, Zenon DEF m
<1>9. CASE Current(c) /\ c.job.phase \in {"authorize", "reuse-authorize"}
  <2>1. (answer.ok /\ m = DispatchStart(k)) \/ m = failure
    BY <1>9, Zenon DEF HandleWorkerResult, Pair, m
  <2>2. Resting(c, V, S)
    BY <1>6, <1>9, Zenon DEF Starting
  <2>3. Settles(c, V, m, S)
    <3>1. answer.ok => ~V[w].astray
      <4>1. Lane(W[w])
        BY <1>1, Zenon DEF ExchangeInv, WorkerInv
      <4> QED  BY <4>1, NoReplyIs, Zenon DEF Lane, Hears, w
    <3>2. answer.ok => Settles(c, V, DispatchStart(k), S)
      BY <1>9, <2>2, <3>1, DispatchStartSettles, Zenon DEF w
    <3> QED  BY <1>7, <2>1, <2>2, <3>2, Zenon
  <2> QED  BY <2>3, SettlesHandled, Zenon DEF m

<1>10. CASE Current(c) /\ c.job.phase = "register"
  <2> DEFINE at == [k EXCEPT !.coord.artifact = answer.artifact]
  <2>1. m \in {NextAction(k), NextAction(at), failure}
    BY <1>10, Zenon DEF HandleWorkerResult, Pair, m
  <2>2. Resting(c, V, S)
    BY <1>6, <1>10, Zenon DEF Starting
  <2>3. /\ Rephased(c, at.coord, c.job.worker, c.job.phase) /\ Pair(at, at.coord, V)
        /\ at.coord.ops = c.ops /\ at.coord.job = c.job
    BY <1>1, Zenon DEF Rephased, Pair, CoordShape, CoordFields
  <2> HIDE DEF at
  <2>8. Begun(c) /\ Begun(at.coord)
    BY <1>0, <1>10, <2>3, Zenon DEF Begun
  <2>4. Resting(at.coord, V, S)
    <3>1. CoordInv(at.coord) /\ Known(at.coord) = Known(c)
      BY <1>1, <2>3, Zenon DEF CoordInv, Rephased, Known
    <3>2. Numbered(at.coord)
      BY <1>1, <2>3, <2>8, <3>1, NumberedStays, Zenon DEF SameStep, Rephased
    <3> QED  BY <2>2, <2>3, <3>1, <3>2, Zenon DEF Resting, Rephased
  <2>5. Settles(at.coord, V, NextAction(at), S)
    BY <2>3, <2>4, <2>8, NextActionSettles, Zenon
  <2>6. Settles(c, V, NextAction(at), S)
    BY <2>3, <2>5, Zenon DEF Settles, Rephased
  <2>7. Settles(c, V, m, S)
    <3>1. Settles(c, V, NextAction(k), S)
      BY <2>2, <2>8, NextActionSettles, Zenon
    <3> QED  BY <1>7, <2>1, <2>2, <2>6, <3>1, Zenon
  <2> QED  BY <2>7, SettlesHandled, Zenon DEF m
<1>11. CASE Current(c) /\ c.job.phase \in Starting
  <2> DEFINE e == RecordCompletion(c, rec, answer)
             at == [k EXCEPT !.coord = e]
             failed == [at EXCEPT !.coord = FailJob(at.coord)]
  <2>1. m \in {failed, Register(at), NextAction(at)}
    BY <1>11, Zenon DEF HandleWorkerResult, Pair, m, rec, Starting
  <2>2. /\ CoordShape(e) /\ e.job = c.job /\ e.retired = c.retired
        /\ e.session = c.session /\ e.closed = c.closed /\ e.ops = c.ops
    <3>1. Recorded(c, e, rec, answer)
      BY <1>1, RecordIs, Zenon
    <3> HIDE DEF e
    <3> QED  BY <3>1, Zenon DEF Recorded
  <2>3. S \subseteq Known(e) /\ e.counted \subseteq S
    BY <1>1, <1>2, RecordedIsKnown, Zenon DEF w
  <2>9. Begun(c) /\ c.job.phase \notin Asking
    BY <1>0, <1>11, Zenon DEF Starting, Asking
  <2>10. Numbered(e)
    <3>1. rec.action = <<c.job.op, c.job.next>>
      BY CaptureIs, Zenon DEF rec, Action
    <3>2. rec.action = <<c.ops, c.job.next>> /\ c.job.next \in Nat
      BY <1>1, <2>9, <3>1, Zenon DEF Numbered
    <3> QED  BY <1>1, <2>9, <3>2, RecordNumbered, Zenon
  <2> HIDE DEF e
  <2>4. Pair(at, e, V) /\ Pair(failed, FailJob(e), V)
    BY Zenon DEF Pair
  <2> HIDE DEF at, failed
  <2>5. CoordInv(e)
    BY <1>1, <2>2, Zenon DEF CoordInv
  <2>6. Resting(e, V, S) /\ Begun(e)
    BY <1>3, <1>4, <2>2, <2>3, <2>5, <2>9, <2>10, Zenon DEF Resting, Begun
  <2>7. Settles(e, V, m, S)
    BY <1>1, <2>1, <2>2, <2>4, <2>6, NextActionSettles, RegisterSettles, EndedSettles, Zenon
       DEF FailJob
  <2>8. Settles(c, V, m, S)
    BY <2>2, <2>7, Zenon DEF Settles
  <2> QED  BY <2>8, SettlesHandled, Zenon DEF m
<1> QED  BY <1>1, <1>5, <1>8, <1>9, <1>10, <1>11, Zenon DEF Phases, Starting, m

-----------------------------------------------------------------------------
(* The daemon's tables.  A session that is over stays over.                *)
Over == {"CLOSED", "GONE"}
Later(d, e) ==
    /\ Len(d.sessions) <= Len(e.sessions)
    /\ \A s \in 1..Len(d.sessions) : d.sessions[s] \in Over => e.sessions[s] \in Over

LEMMA ClosedStays ==
    ASSUME NEW c, NEW d, NEW e, DatabaseShape(d), DatabaseShape(e), ClosedInv(c, d), Later(d, e)
    PROVE  ClosedInv(c, e)
<1>1. Len(d.sessions) \in Nat /\ Len(e.sessions) \in Nat
  BY DEF DatabaseShape
<1>2. /\ 0..Len(d.sessions) \subseteq 0..Len(e.sessions)
      /\ 1..Len(d.sessions) \subseteq 1..Len(e.sessions)
  BY <1>1 DEF Later
<1> QED  BY <1>2, Zenon DEF ClosedInv, Later, Over

LEMMA MapIsSeq ==
    ASSUME NEW n \in Nat, NEW F \in [1..n -> States]
    PROVE  F \in Seq(States) /\ Len(F) = n
OBVIOUS

(* The tables e differ from d in the states of sessions and data only:     *)
(* what is closed in e has all its data deleted, and what is deleted in e  *)
(* was deleted in d or is wiped.                                           *)
Moved(d, e, h) ==
    /\ DOMAIN e = DOMAIN d
    /\ e.sessions \in [1..Len(d.sessions) -> States]
    /\ \A s \in 1..Len(d.sessions) :
          /\ d.sessions[s] = "CLOSED" => e.sessions[s] = "CLOSED"
          /\ d.sessions[s] = "GONE" <=> e.sessions[s] = "GONE"
          /\ d.sessions[s] # "CLOSED" /\ e.sessions[s] = "CLOSED" =>
                \A a \in Ids : e.artifacts[a].session = s => e.artifacts[a].state = "DELETED"
    /\ DOMAIN e.artifacts = Ids
    /\ \A a \in Ids :
          /\ DOMAIN e.artifacts[a] = DOMAIN d.artifacts[a]
          /\ e.artifacts[a].session = d.artifacts[a].session
          /\ d.artifacts[a].state = "DELETED" => e.artifacts[a].state = "DELETED"
          /\ d.artifacts[a].state # "DELETED" /\ e.artifacts[a].state = "DELETED" =>
                a \notin h.buffers \ h.zeroed

LEMMA MovedKeeps ==
    ASSUME NEW d, NEW e, NEW h, NEW g, DataInv(d, h), Moved(d, e, g),
           g.buffers \ g.zeroed \subseteq h.buffers \ h.zeroed
    PROVE  DataInv(e, g) /\ Later(d, e)
<1>1. DatabaseShape(d) /\ Len(d.sessions) \in Nat
  BY DEF DataInv, DatabaseShape
<1>2. e.sessions \in Seq(States) /\ Len(e.sessions) = Len(d.sessions)
  BY <1>1, MapIsSeq, Zenon DEF Moved
<1>3. DatabaseShape(e)
  BY <1>1, <1>2, Zenon DEF DatabaseShape, Moved
<1>4. ASSUME NEW a \in Ids, e.artifacts[a].session # 0
      PROVE  /\ e.sessions[e.artifacts[a].session] # "GONE"
             /\ e.sessions[e.artifacts[a].session] = "CLOSED" => e.artifacts[a].state = "DELETED"
  <2> DEFINE s == d.artifacts[a].session
  <2>1. e.artifacts[a].session = s /\ s \in 0..Len(d.sessions) /\ s # 0
    BY <1>1, <1>4, Zenon DEF DatabaseShape, Moved
  <2>2. s \in 1..Len(d.sessions)
    BY <1>1, <2>1
  <2>3. /\ d.sessions[s] # "GONE"
        /\ d.sessions[s] = "CLOSED" => d.artifacts[a].state = "DELETED"
    BY <2>1, Zenon DEF DataInv
  <2> HIDE DEF s
  <2> QED  BY <2>1, <2>2, <2>3, ZenonT(60) DEF Moved, s
<1>5. \A a \in Ids : e.artifacts[a].state = "DELETED" => a \notin g.buffers \ g.zeroed
  BY Zenon DEF DataInv, Moved
<1>6. Later(d, e)
  <2>1. Len(d.sessions) <= Len(e.sessions)
    BY <1>1, <1>2
  <2>2. \A s \in 1..Len(d.sessions) : d.sessions[s] \in Over => e.sessions[s] \in Over
    BY Zenon DEF Moved, Over
  <2> QED  BY <2>1, <2>2, Zenon DEF Later
<1> QED  BY <1>3, <1>4, <1>5, <1>6, Zenon DEF DataInv

LEMMA FinishMoves ==
    ASSUME NEW d, NEW e, NEW h, DatabaseShape(d), Moved(d, e, h)
    PROVE  Moved(d, FinishCleanup(e), h)
<1> DEFINE over(s) == \A a \in Ids : e.artifacts[a].session = s => e.artifacts[a].state = "DELETED"
           F == [s \in DOMAIN e.sessions |->
                    IF e.sessions[s] = "CLOSING" /\ over(s) THEN "CLOSED" ELSE e.sessions[s]]
           f == FinishCleanup(e)
<1>1. f = [e EXCEPT !.sessions = F]
  BY Zenon DEF FinishCleanup
<1>2. DOMAIN e = {"incarnation", "sessions", "consent", "artifacts"}
  BY Zenon DEF Moved, DatabaseShape
<1> HIDE DEF F
<1>3. DOMAIN f = DOMAIN e /\ f.sessions = F /\ f.artifacts = e.artifacts
  BY <1>1, <1>2, Zenon
<1> HIDE DEF f, over
<1>4. /\ DOMAIN e.sessions = 1..Len(d.sessions)
      /\ \A s \in 1..Len(d.sessions) : e.sessions[s] \in States
  BY Zenon DEF Moved
<1>5. F \in [1..Len(d.sessions) -> States]
  BY <1>4, Zenon DEF F, States
<1>6. \A s \in 1..Len(d.sessions) :
         F[s] = IF e.sessions[s] = "CLOSING" /\ over(s) THEN "CLOSED" ELSE e.sessions[s]
  BY <1>4, Zenon DEF F
<1>7. ASSUME NEW s \in 1..Len(d.sessions)
      PROVE  /\ d.sessions[s] = "CLOSED" => F[s] = "CLOSED"
             /\ d.sessions[s] = "GONE" <=> F[s] = "GONE"
             /\ d.sessions[s] # "CLOSED" /\ F[s] = "CLOSED" =>
                   \A a \in Ids : e.artifacts[a].session = s => e.artifacts[a].state = "DELETED"
  <2>1. /\ d.sessions[s] = "CLOSED" => e.sessions[s] = "CLOSED"
        /\ d.sessions[s] = "GONE" <=> e.sessions[s] = "GONE"
        /\ d.sessions[s] # "CLOSED" /\ e.sessions[s] = "CLOSED" => over(s)
    BY Zenon DEF Moved, over
  <2>2. CASE e.sessions[s] = "CLOSING" /\ over(s)
    BY <1>6, <2>1, <2>2, Zenon DEF over
  <2>3. CASE ~(e.sessions[s] = "CLOSING" /\ over(s))
    BY <1>6, <2>1, <2>3, Zenon DEF over
  <2> QED  BY <2>2, <2>3, Zenon
<1>8. /\ DOMAIN f = DOMAIN d /\ DOMAIN f.artifacts = Ids
      /\ \A a \in Ids :
          /\ DOMAIN f.artifacts[a] = DOMAIN d.artifacts[a]
          /\ f.artifacts[a].session = d.artifacts[a].session
          /\ d.artifacts[a].state = "DELETED" => f.artifacts[a].state = "DELETED"
          /\ d.artifacts[a].state # "DELETED" /\ f.artifacts[a].state = "DELETED" =>
                a \notin h.buffers \ h.zeroed
  BY <1>3, ZenonT(60) DEF Moved
<1>9. /\ f.sessions \in [1..Len(d.sessions) -> States]
      /\ \A s \in 1..Len(d.sessions) :
          /\ d.sessions[s] = "CLOSED" => f.sessions[s] = "CLOSED"
          /\ d.sessions[s] = "GONE" <=> f.sessions[s] = "GONE"
          /\ d.sessions[s] # "CLOSED" /\ f.sessions[s] = "CLOSED" =>
                \A a \in Ids : f.artifacts[a].session = s => f.artifacts[a].state = "DELETED"
  BY <1>3, <1>5, <1>7, Zenon
<1>10. Moved(d, f, h)
  BY <1>8, <1>9, Zenon DEF Moved
<1> QED  BY <1>10, Zenon DEF f

(* A row whose state changes, and nothing else.                            *)
LEMMA RowMoves ==
    ASSUME NEW d, NEW h, DatabaseShape(d), NEW a, NEW state,
           state = "DELETED" => a \notin h.buffers \ h.zeroed,
           state # "DELETED" /\ a \in Ids => d.artifacts[a].state # "DELETED"
    PROVE  Moved(d, [d EXCEPT !.artifacts[a].state = state], h)
<1> DEFINE e == [d EXCEPT !.artifacts[a].state = state]
           A == [d.artifacts EXCEPT ![a].state = state]
<1>1. DOMAIN e = DOMAIN d /\ e.sessions = d.sessions /\ e.artifacts = A
  BY Zenon DEF DatabaseShape
<1>2. /\ DOMAIN A = Ids
      /\ \A b \in Ids : /\ DOMAIN A[b] = DOMAIN d.artifacts[b]
                        /\ A[b].session = d.artifacts[b].session
                        /\ A[b].state = IF b = a THEN state ELSE d.artifacts[b].state
  BY Zenon DEF DatabaseShape
<1> HIDE DEF e, A
<1>3. d.sessions \in [1..Len(d.sessions) -> States]
  BY DEF DatabaseShape
<1>4. Moved(d, e, h)
  BY <1>1, <1>2, <1>3, Zenon DEF Moved
<1> QED  BY <1>4, Zenon DEF e

LEMMA AckMoves ==
    ASSUME NEW d, NEW h, DatabaseShape(d), NEW a, NEW success \in BOOLEAN,
           success => a \notin h.buffers \ h.zeroed,
           ~success /\ a \in Ids => d.artifacts[a].state # "DELETED"
    PROVE  Moved(d, CleanupAck(d, a, success), h)
<1> DEFINE state == IF success THEN "DELETED" ELSE "CLEANUP_FAILED"
<1>1. (state = "DELETED") <=> success
  OBVIOUS
<1>2. CleanupAck(d, a, success) = FinishCleanup([d EXCEPT !.artifacts[a].state = state])
  BY Zenon DEF CleanupAck
<1> HIDE DEF state
<1>3. Moved(d, [d EXCEPT !.artifacts[a].state = state], h)
  BY <1>1, RowMoves, Zenon
<1> QED  BY <1>2, <1>3, FinishMoves, Zenon

(* Rows that are blocked (Blocked): no deletion is made or unmade.         *)
BlockedRows(d, A) ==
    /\ DOMAIN A = Ids
    /\ \A a \in Ids : /\ DOMAIN A[a] = DOMAIN d.artifacts[a]
                      /\ A[a].session = d.artifacts[a].session
                      /\ A[a].state = "DELETED" <=> d.artifacts[a].state = "DELETED"

LEMMA BlockedMoves ==
    ASSUME NEW d, NEW e, NEW h, DatabaseShape(d), DOMAIN e = DOMAIN d,
           BlockedRows(d, e.artifacts), e.sessions \in [1..Len(d.sessions) -> States],
           \A s \in 1..Len(d.sessions) : \/ e.sessions[s] = d.sessions[s]
                                         \/ d.sessions[s] = "ACTIVE" /\ e.sessions[s] = "CLOSING"
    PROVE  Moved(d, e, h)
<1>1. \A s \in 1..Len(d.sessions) :
         /\ d.sessions[s] = "CLOSED" <=> e.sessions[s] = "CLOSED"
         /\ d.sessions[s] = "GONE" <=> e.sessions[s] = "GONE"
  OBVIOUS
<1> QED  BY <1>1, Zenon DEF Moved, BlockedRows

LEMMA BlockingRows ==
    ASSUME NEW d, DatabaseShape(d), NEW B \in [Ids -> BOOLEAN]
    PROVE  BlockedRows(d, [a \in Ids |->
               IF d.artifacts[a].state = "ACTIVE" /\ B[a]
               THEN [d.artifacts[a] EXCEPT !.state = "CLEANUP_PENDING"] ELSE d.artifacts[a]])
BY Zenon DEF BlockedRows, DatabaseShape

LEMMA CloseMoves ==
    ASSUME NEW d, NEW h, DatabaseShape(d), NEW s \in 1..Len(d.sessions)
    PROVE  Moved(d, CloseSession(d, s), h)
<1> DEFINE f == [d EXCEPT !.sessions[s] = "CLOSING"]
           B == [a \in Ids |-> d.artifacts[a].session = s]
           A == [a \in Ids |-> IF d.artifacts[a].state = "ACTIVE" /\ B[a]
                               THEN [d.artifacts[a] EXCEPT !.state = "CLEANUP_PENDING"]
                               ELSE d.artifacts[a]]
           e == [f EXCEPT !.artifacts = A]
<1>1. d.sessions \in [1..Len(d.sessions) -> States]
  BY DEF DatabaseShape
<1>2. CASE d.sessions[s] # "ACTIVE"
  <2>1. BlockedRows(d, d.artifacts)
    BY Zenon DEF BlockedRows, DatabaseShape
  <2>2. Moved(d, d, h)
    BY <1>1, <2>1, BlockedMoves, Zenon
  <2> QED  BY <1>2, <2>2, Zenon DEF CloseSession
<1>3. CASE d.sessions[s] = "ACTIVE"
  <2>1. f.artifacts = d.artifacts /\ DOMAIN f = DOMAIN d
    BY Zenon DEF DatabaseShape
  <2>2. f.sessions = [d.sessions EXCEPT ![s] = "CLOSING"]
    BY Zenon DEF DatabaseShape
  <2>3. CloseSession(d, s) = e
    <3>1. CloseSession(d, s) = [f EXCEPT !.artifacts = [a \in Ids |->
             IF f.artifacts[a].state = "ACTIVE" /\ f.artifacts[a].session = s
             THEN [f.artifacts[a] EXCEPT !.state = "CLEANUP_PENDING"] ELSE f.artifacts[a]]]
      BY <1>3, Zenon DEF CloseSession, Blocked
    <3> HIDE DEF f
    <3>2. A = [a \in Ids |->
             IF d.artifacts[a].state = "ACTIVE" /\ d.artifacts[a].session = s
             THEN [d.artifacts[a] EXCEPT !.state = "CLEANUP_PENDING"] ELSE d.artifacts[a]]
      BY ZenonT(60)
    <3> QED  BY <2>1, <3>1, <3>2, SMTT(60)
  <2>4. B \in [Ids -> BOOLEAN]
    OBVIOUS
  <2> HIDE DEF B
  <2>5. BlockedRows(d, A)
    BY <2>4, BlockingRows, Zenon
  <2> HIDE DEF A, f
  <2>6. DOMAIN d = {"incarnation", "sessions", "consent", "artifacts"}
    BY Zenon DEF DatabaseShape
  <2>7. DOMAIN e = DOMAIN d /\ e.artifacts = A /\ e.sessions = [d.sessions EXCEPT ![s] = "CLOSING"]
    BY <2>1, <2>2, <2>6, Zenon
  <2> HIDE DEF e
  <2>8. /\ e.sessions \in [1..Len(d.sessions) -> States]
        /\ \A t \in 1..Len(d.sessions) : \/ e.sessions[t] = d.sessions[t]
                                         \/ d.sessions[t] = "ACTIVE" /\ e.sessions[t] = "CLOSING"
    BY <1>1, <1>3, <2>7, Zenon DEF States
  <2>9. Moved(d, e, h)
    BY <2>5, <2>7, <2>8, BlockedMoves, Zenon
  <2> QED  BY <2>3, <2>9, Zenon
<1> QED  BY <1>2, <1>3, Zenon

LEMMA ClosingMoves ==
    ASSUME NEW d, NEW h, DatabaseShape(d), NEW s \in 1..Len(d.sessions)
    PROVE  Moved(d, FinishCleanup(CloseSession(d, s)), h)
BY CloseMoves, FinishMoves, Zenon

LEMMA DataMoves ==
    ASSUME NEW d, NEW e, NEW h, NEW g, NEW c, DataInv(d, h), ClosedInv(c, d), Moved(d, e, g),
           g.buffers \ g.zeroed \subseteq h.buffers \ h.zeroed
    PROVE  DataInv(e, g) /\ ClosedInv(c, e)
<1>1. DataInv(e, g) /\ Later(d, e)
  BY MovedKeeps, Zenon
<1> QED  BY <1>1, ClosedStays, Zenon DEF DataInv

LEMMA RevokeData ==
    ASSUME ConversationInv, Revoke
    PROVE  DataInv(db', workers["holder"]) /\ ClosedInv(coord, db')
<1> DEFINE f == [db EXCEPT !.consent = FALSE]
           B == [a \in Ids |-> TRUE]
           A == [a \in Ids |-> IF db.artifacts[a].state = "ACTIVE" /\ B[a]
                               THEN [db.artifacts[a] EXCEPT !.state = "CLEANUP_PENDING"]
                               ELSE db.artifacts[a]]
           e == [f EXCEPT !.artifacts = A]
<1>1. DatabaseShape(db) /\ db.sessions \in [1..Len(db.sessions) -> States]
  BY DEF ConversationInv, DataInv, DatabaseShape
<1>2. f.artifacts = db.artifacts /\ f.sessions = db.sessions /\ DOMAIN f = DOMAIN db
  BY <1>1, Zenon DEF DatabaseShape
<1>3. db' = e
  <2>1. db' = [f EXCEPT !.artifacts = [a \in Ids |->
           IF f.artifacts[a].state = "ACTIVE" /\ TRUE
           THEN [f.artifacts[a] EXCEPT !.state = "CLEANUP_PENDING"] ELSE f.artifacts[a]]]
    BY Zenon DEF Revoke, Blocked
  <2> HIDE DEF f
  <2>2. A = [a \in Ids |->
           IF db.artifacts[a].state = "ACTIVE" /\ TRUE
           THEN [db.artifacts[a] EXCEPT !.state = "CLEANUP_PENDING"] ELSE db.artifacts[a]]
    OBVIOUS
  <2> QED  BY <1>2, <2>1, <2>2, Zenon
<1>4. B \in [Ids -> BOOLEAN]
  OBVIOUS
<1> HIDE DEF B
<1>5. BlockedRows(db, A)
  BY <1>1, <1>4, BlockingRows, Zenon
<1> HIDE DEF A, f
<1>6. DOMAIN db = {"incarnation", "sessions", "consent", "artifacts"}
  BY <1>1, Zenon DEF DatabaseShape
<1>7. DOMAIN e = DOMAIN db /\ e.artifacts = A /\ e.sessions = db.sessions
  BY <1>2, <1>6, Zenon
<1> HIDE DEF e
<1>8. Moved(db, e, workers["holder"])
  BY <1>1, <1>5, <1>7, BlockedMoves, Zenon
<1> QED  BY <1>3, <1>8, DataMoves, Zenon DEF ConversationInv

LEMMA ExpireData ==
    ASSUME ConversationInv, NEW a \in Ids, Expire(a)
    PROVE  DataInv(db', workers["holder"]) /\ ClosedInv(coord, db')
<1>1. db.artifacts[a].state = "ACTIVE" /\ db' = [db EXCEPT !.artifacts[a].state = "CLEANUP_PENDING"]
  BY Zenon DEF Expire
<1>2. "CLEANUP_PENDING" # "DELETED" /\ db.artifacts[a].state # "DELETED"
  BY <1>1, Zenon
<1>3. Moved(db, db', workers["holder"])
  BY <1>1, <1>2, RowMoves, Zenon DEF ConversationInv, DataInv
<1> QED  BY <1>3, DataMoves, Zenon DEF ConversationInv

LEMMA ClosingData ==
    ASSUME ConversationInv, NEW s \in 1..Len(db.sessions),
           db' = FinishCleanup(CloseSession(db, s))
    PROVE  DataInv(db', workers["holder"]) /\ ClosedInv(coord, db')
<1>1. Moved(db, db', workers["holder"])
  BY ClosingMoves, Zenon DEF ConversationInv, DataInv
<1> QED  BY <1>1, DataMoves, Zenon DEF ConversationInv

LEMMA RecreateData ==
    ASSUME ConversationInv, Recreate
    PROVE  DataInv(db', workers["holder"]) /\ ClosedInv(coord, db')
<1> DEFINE F == [s \in DOMAIN db.sessions |-> "GONE"]
           A == [a \in Ids |-> NoArtifact]
<1>1. DatabaseShape(db) /\ Len(db.sessions) \in Nat /\ DOMAIN db.sessions = 1..Len(db.sessions)
  BY DEF ConversationInv, DataInv, DatabaseShape
<1>2. F \in [1..Len(db.sessions) -> States] /\ \A s \in 1..Len(db.sessions) : F[s] = "GONE"
  BY <1>1, Zenon DEF States
<1>3. db' = [incarnation |-> db.incarnation + 1, sessions |-> F, consent |-> FALSE, artifacts |-> A]
  BY Zenon DEF Recreate
<1>4. /\ DOMAIN A = Ids
      /\ \A a \in Ids : /\ DOMAIN A[a] = {"state", "session", "instance"}
                        /\ A[a].session = 0 /\ A[a].state # "DELETED"
  BY Zenon DEF NoArtifact
<1> HIDE DEF F, A
<1>5. /\ DOMAIN db' = {"incarnation", "sessions", "consent", "artifacts"}
      /\ db'.sessions = F /\ db'.artifacts = A
  BY <1>3, Zenon
<1>6. F \in Seq(States) /\ Len(F) = Len(db.sessions) /\ 0 \in 0..Len(db.sessions)
  BY <1>1, <1>2, MapIsSeq
<1>7. DatabaseShape(db')
  BY <1>4, <1>5, <1>6, Zenon DEF DatabaseShape
<1>8. DataInv(db', workers["holder"])
  BY <1>4, <1>5, <1>7, Zenon DEF DataInv
<1>9. Later(db, db')
  BY <1>1, <1>2, <1>5, <1>6 DEF Later, Over
<1> QED  BY <1>1, <1>7, <1>8, <1>9, ClosedStays, Zenon DEF ConversationInv

(* A session is opened: it is the last one, and has no data yet.           *)
LEMMA OpenData ==
    ASSUME NEW d, NEW h, NEW c, DataInv(d, h), ClosedInv(c, d)
    PROVE  LET e == [d EXCEPT !.sessions = Append(@, "ACTIVE")]
           IN DataInv(e, h) /\ ClosedInv(c, e) /\ Len(d.sessions) + 1 \in 0..Len(e.sessions)
<1> DEFINE e == [d EXCEPT !.sessions = Append(@, "ACTIVE")]
           n == Len(d.sessions)
<1>1. DatabaseShape(d) /\ n \in Nat /\ d.sessions \in Seq(States)
  BY DEF DataInv, DatabaseShape
<1>2. /\ DOMAIN e = DOMAIN d /\ e.artifacts = d.artifacts
      /\ e.sessions = Append(d.sessions, "ACTIVE")
  BY <1>1, Zenon DEF DatabaseShape
<1> HIDE DEF e
<1>3. /\ e.sessions \in Seq(States) /\ Len(e.sessions) = n + 1
      /\ \A s \in 1..n : e.sessions[s] = d.sessions[s]
  BY <1>1, <1>2 DEF States
<1>4. DatabaseShape(e)
  BY <1>1, <1>2, <1>3 DEF DatabaseShape
<1>5. \A a \in Ids : d.artifacts[a].session # 0 =>
         e.sessions[d.artifacts[a].session] = d.sessions[d.artifacts[a].session]
  BY <1>1, <1>3 DEF DatabaseShape
<1>6. DataInv(e, h)
  BY <1>2, <1>4, <1>5, Zenon DEF DataInv
<1>7. Later(d, e)
  BY <1>1, <1>3 DEF Later
<1>8. n + 1 \in 0..Len(e.sessions)
  BY <1>1, <1>3
<1>9. ClosedInv(c, e)
  BY <1>1, <1>4, <1>7, ClosedStays, Zenon
<1> QED  BY <1>6, <1>8, <1>9, Zenon DEF e

-----------------------------------------------------------------------------
(* The steps.  What each leaves is told of the next state.                 *)
LEMMA NextInv ==
    ASSUME ExchangeInv(coord', workers', started'), DataInv(db', workers'["holder"]),
           ClosedInv(coord', db')
    PROVE  ConversationInv'
BY Zenon DEF ConversationInv

(* A command or a deadline that ends the job: the exchange goes on.        *)
LEMMA ExchangeGoesOn ==
    ASSUME NEW c, NEW e, NEW W, NEW S, ExchangeInv(c, W, S), CoordInv(e), Numbered(e),
           Out(e) = Out(c), e.counted = c.counted, e.uncertain = c.uncertain
    PROVE  ExchangeInv(e, W, S)
<1>1. Known(e) = Known(c) /\ Underway(e) = Underway(c)
  BY Zenon DEF Known, Underway
<1>2. ASSUME NEW w \in Workers
      PROVE  WorkerInv(e, W[w], w, S)
  <2>1. WorkerInv(c, W[w], w, S)
    BY Zenon DEF ExchangeInv
  <2> QED  BY <1>1, <2>1, Zenon DEF WorkerInv, Tells
<1> QED  BY <1>1, <1>2, Zenon DEF ExchangeInv

LEMMA CancelFields ==
    ASSUME NEW c, CoordShape(c)
    PROVE  /\ DOMAIN Cancel(c) = CoordFields /\ DOMAIN Cancel(c).job = JobFields
           /\ Cancel(c).counted = c.counted /\ Cancel(c).uncertain = c.uncertain
           /\ Cancel(c).session = c.session /\ Cancel(c).closed = c.closed
           /\ Cancel(c).ops = c.ops
BY Zenon DEF Cancel, CoordShape, CoordFields, JobFields, Retire, NoJob

LEMMA CancelledGoesOn ==
    ASSUME ConversationInv, CoordShape(coord'), coord'.job = Cancel(coord).job,
           coord'.retired = Cancel(coord).retired, coord'.session = coord.session,
           coord'.closed = coord.closed, coord'.counted = coord.counted,
           coord'.uncertain = coord.uncertain, coord'.ops = coord.ops,
           UNCHANGED <<workers, db, started>>
    PROVE  ConversationInv'
<1> DEFINE e == Cancel(coord)
<1>1. /\ CoordInv(e) /\ Out(e) = Out(coord) /\ e.session = coord.session
      /\ e.job.kind = "none" /\ e.job.phase = ""
  BY CancelKeeps, Zenon DEF ConversationInv, ExchangeInv
<1>6. Numbered(e) /\ e.ops = coord.ops /\ e.counted = coord.counted /\ e.uncertain = coord.uncertain
  BY CancelFields, CancelNumbered, Zenon DEF ConversationInv, ExchangeInv, CoordInv
<1> HIDE DEF e
<1>2. CoordInv(coord')
  BY <1>1, Zenon DEF CoordInv, e
<1>3. Out(coord') = Out(e)
  BY Zenon DEF Out, e
<1>7. Numbered(coord')
  <2>1. coord'.ops = e.ops /\ Known(coord') = Known(e)
    BY <1>6, Zenon DEF Known
  <2>2. /\ coord'.job.kind \in {"none", "cleanup"} /\ coord'.job.phase \in {"", "cleanup"}
        /\ coord'.retired = e.retired
    BY <1>1, Zenon DEF e
  <2> QED  BY <1>6, <2>1, <2>2, NumberedEnds, Zenon
<1>4. ExchangeInv(coord', workers, started)
  BY <1>1, <1>2, <1>3, <1>7, ExchangeGoesOn, Zenon DEF ConversationInv
<1>5. ClosedInv(coord', db)
  BY Zenon DEF ConversationInv, ClosedInv
<1> QED  BY <1>4, <1>5, NextInv, Zenon DEF ConversationInv

LEMMA SelectStep ==
    ASSUME ConversationInv, NEW f, Select(f)
    PROVE  ConversationInv'
<1> DEFINE e == Cancel(coord)
<1>1. CoordShape(coord)
  BY Zenon DEF ConversationInv, ExchangeInv, CoordInv
<1>2. /\ DOMAIN e = CoordFields /\ DOMAIN e.job = JobFields
      /\ e.counted = coord.counted /\ e.uncertain = coord.uncertain /\ e.ops = coord.ops
      /\ e.session = coord.session /\ e.closed = coord.closed
  BY <1>1, CancelFields, Zenon
<1>3. /\ coord' = [e EXCEPT !.selected = f, !.revision = @ + 1, !.reason = ""]
      /\ UNCHANGED <<workers, db, started>>
  BY Zenon DEF Select
<1> HIDE DEF e
<1>4. /\ CoordShape(coord') /\ coord'.job = e.job /\ coord'.retired = e.retired
      /\ coord'.counted = coord.counted /\ coord'.uncertain = coord.uncertain
      /\ coord'.session = coord.session /\ coord'.closed = coord.closed /\ coord'.ops = coord.ops
  BY <1>2, <1>3, Zenon DEF CoordShape, CoordFields
<1> QED  BY <1>3, <1>4, CancelledGoesOn, Zenon DEF e

LEMMA JobExpiresStep ==
    ASSUME ConversationInv, JobExpires
    PROVE  ConversationInv'
<1>1. CoordShape(coord)
  BY Zenon DEF ConversationInv, ExchangeInv, CoordInv
<1>2. coord' = Cancel(coord) /\ UNCHANGED <<workers, db, started>>
  BY Zenon DEF JobExpires
<1> QED  BY <1>1, <1>2, CancelFields, CancelledGoesOn, Zenon DEF CoordShape

LEMMA SelectionExpiresStep ==
    ASSUME ConversationInv, SelectionExpires
    PROVE  ConversationInv'
<1> DEFINE e == Cancel(coord)
<1>1. CoordShape(coord)
  BY Zenon DEF ConversationInv, ExchangeInv, CoordInv
<1>2. /\ DOMAIN e = CoordFields /\ DOMAIN e.job = JobFields
      /\ e.counted = coord.counted /\ e.uncertain = coord.uncertain /\ e.ops = coord.ops
      /\ e.session = coord.session /\ e.closed = coord.closed
  BY <1>1, CancelFields, Zenon
<1>3. /\ coord' = [e EXCEPT !.selected = {}, !.revision = @ + 1]
      /\ UNCHANGED <<workers, db, started>>
  BY Zenon DEF SelectionExpires
<1> HIDE DEF e
<1>4. /\ CoordShape(coord') /\ coord'.job = e.job /\ coord'.retired = e.retired
      /\ coord'.counted = coord.counted /\ coord'.uncertain = coord.uncertain
      /\ coord'.session = coord.session /\ coord'.closed = coord.closed /\ coord'.ops = coord.ops
  BY <1>2, <1>3, Zenon DEF CoordShape, CoordFields
<1> QED  BY <1>3, <1>4, CancelledGoesOn, Zenon DEF e

LEMMA HeartbeatFailsStep ==
    ASSUME ConversationInv, HeartbeatFails
    PROVE  ConversationInv'
<1> DEFINE e == Cancel(coord)
<1>1. CoordShape(coord)
  BY Zenon DEF ConversationInv, ExchangeInv, CoordInv
<1>2. /\ DOMAIN e = CoordFields /\ DOMAIN e.job = JobFields
      /\ e.counted = coord.counted /\ e.uncertain = coord.uncertain /\ e.ops = coord.ops
      /\ e.session = coord.session /\ e.closed = coord.closed
  BY <1>1, CancelFields, Zenon
<1>3. /\ coord' = [e EXCEPT !.failed = TRUE, !.selected = {}, !.revision = @ + 1]
      /\ UNCHANGED <<workers, db, started>>
  BY Zenon DEF HeartbeatFails
<1> HIDE DEF e
<1>4. /\ CoordShape(coord') /\ coord'.job = e.job /\ coord'.retired = e.retired
      /\ coord'.counted = coord.counted /\ coord'.uncertain = coord.uncertain
      /\ coord'.session = coord.session /\ coord'.closed = coord.closed /\ coord'.ops = coord.ops
  BY <1>2, <1>3, Zenon DEF CoordShape, CoordFields
<1> QED  BY <1>3, <1>4, CancelledGoesOn, Zenon DEF e

(* No exchange is under way: no worker has anything to do.                 *)
LEMMA AtRest ==
    ASSUME NEW c, NEW W, NEW S, ExchangeInv(c, W, S), Out(c) = NoRetired
    PROVE  Resting(c, W, S)
<1>1. NoRetired.worker \notin Workers /\ NoRetired.phase \notin Starting
  BY Zenon DEF NoRetired, Workers, Starting
<1>2. S \subseteq Known(c)
  BY <1>1, Zenon DEF ExchangeInv, Underway
<1>3. ASSUME NEW w \in Workers
      PROVE  Lane(W[w]) /\ Quiet(W[w])
  BY <1>1, Zenon DEF ExchangeInv, WorkerInv
<1> QED  BY <1>2, <1>3, Zenon DEF Resting, ExchangeInv

LEMMA StartRequestStep ==
    ASSUME ConversationInv, NEW kind \in {"preapprove", "task"}, NEW task, StartRequest(kind, task)
    PROVE  ConversationInv'
<1> DEFINE s == IF coord.session = 0 THEN Len(db.sessions) + 1 ELSE coord.session
           job == [NoJob EXCEPT !.kind = kind, !.task = task, !.op = coord.ops + 1,
                                !.revision = coord.revision]
<1>1. CoordInv(coord) /\ CoordShape(coord) /\ coord.job.kind = "none" /\ coord.retired = NoRetired
  BY Zenon DEF ConversationInv, ExchangeInv, CoordInv, StartRequest
<1>2. /\ coord' = [coord EXCEPT !.session = s, !.job = job, !.ops = @ + 1, !.reason = ""]
      /\ UNCHANGED <<workers, started>>
  BY Zenon DEF StartRequest
<1>3. /\ DOMAIN job = JobFields /\ job.phase = "" /\ job.op = coord.ops + 1
      /\ job.next = 0
  BY Zenon DEF NoJob, JobFields
<1> HIDE DEF job, s
<1>4. /\ DOMAIN coord' = CoordFields /\ coord'.job = job /\ coord'.retired = NoRetired
      /\ coord'.counted = coord.counted /\ coord'.uncertain = coord.uncertain
      /\ coord'.session = s /\ coord'.closed = coord.closed /\ coord'.ops = coord.ops + 1
  BY <1>1, <1>2, Zenon DEF CoordShape, CoordFields
<1>5. coord.job.phase = ""
  BY <1>1, Zenon DEF CoordInv
<1>6. Out(coord) = NoRetired /\ Out(coord') = NoRetired
  BY <1>1, <1>3, <1>4, <1>5, Zenon DEF Out
<1>7. CoordInv(coord')
  <2>1. coord'.job.phase = "" /\ CoordShape(coord')
    BY <1>3, <1>4, Zenon DEF CoordShape
  <2>2. "" \in Phases /\ "" # "cleanup"
    BY Zenon DEF Phases
  <2> QED  BY <1>4, <2>1, <2>2, Zenon DEF CoordInv
<1>11. Numbered(coord')
  <2>1. coord.ops \in Nat /\ \A o \in Nat, n \in Nat : o > coord.ops => <<o, n>> \notin Known(coord)
    BY Zenon DEF ConversationInv, ExchangeInv, Numbered
  <2> DEFINE m == coord.ops + 1
  <2>2. m \in Nat /\ m > coord.ops /\ \A o \in Nat : o > m => o > coord.ops
    BY <2>1
  <2>3. NoRetired.phase \notin Starting /\ "" \in Asking
    BY Zenon DEF NoRetired, Starting, Asking
  <2>4. /\ coord'.ops = m /\ coord'.job.op = m /\ coord'.job.next = 0 /\ coord'.job.phase = ""
        /\ coord'.retired = NoRetired
    BY <1>3, <1>4, Zenon
  <2>6. 0 \in Nat
    OBVIOUS
  <2>5. Known(coord') = Known(coord)
    BY <1>4, Zenon DEF Known
  <2> HIDE DEF m
  <2> QED  BY <2>1, <2>2, <2>3, <2>4, <2>5, <2>6, Zenon DEF Numbered
<1>8. ExchangeInv(coord', workers, started)
  BY <1>4, <1>6, <1>7, <1>11, ExchangeGoesOn, Zenon DEF ConversationInv
<1>9. CASE coord.session = 0
  <2>1. db' = [db EXCEPT !.sessions = Append(@, "ACTIVE")] /\ s = Len(db.sessions) + 1
    BY <1>9, Zenon DEF StartRequest, s
  <2>2. /\ DataInv(db', workers["holder"]) /\ ClosedInv(coord, db') /\ s \in 0..Len(db'.sessions)
    BY <2>1, OpenData, Zenon DEF ConversationInv
  <2>3. ClosedInv(coord', db')
    BY <1>4, <2>2, Zenon DEF ClosedInv
  <2> QED  BY <1>2, <1>8, <2>2, <2>3, NextInv, Zenon
<1>10. CASE coord.session # 0
  <2>1. db' = db /\ s = coord.session
    BY <1>10, Zenon DEF StartRequest, s
  <2>2. ClosedInv(coord', db')
    BY <1>4, <2>1, Zenon DEF ClosedInv, ConversationInv
  <2> QED  BY <1>2, <1>8, <2>1, <2>2, NextInv, Zenon DEF ConversationInv
<1> QED  BY <1>9, <1>10, Zenon

(* Consent is given: the tables differ in nothing else.                    *)
LEMMA ConsentData ==
    ASSUME NEW d, NEW h, NEW c, DataInv(d, h), ClosedInv(c, d)
    PROVE  LET e == [d EXCEPT !.consent = TRUE] IN DataInv(e, h) /\ ClosedInv(c, e)
<1> DEFINE e == [d EXCEPT !.consent = TRUE]
<1>1. DOMAIN e = DOMAIN d /\ e.sessions = d.sessions /\ e.artifacts = d.artifacts
  BY Zenon DEF DataInv, DatabaseShape
<1> HIDE DEF e
<1>2. DataInv(e, h) /\ ClosedInv(c, e)
  BY <1>1, ZenonT(60) DEF DataInv, DatabaseShape, ClosedInv
<1> QED  BY <1>2, Zenon DEF e

(* What a handler settles is the next state.                               *)
LEMMA SettledStep ==
    ASSUME NEW k, NEW c, Set(k), Settles(c, workers, k, started'), DataInv(db', workers["holder"]),
           ClosedInv(c, db')
    PROVE  ConversationInv'
<1>1. coord' = k.coord /\ workers' = k.workers
  BY Zenon DEF Set
<1>2. ExchangeInv(coord', workers', started') /\ ClosedInv(coord', db')
  BY <1>1, Zenon DEF Settles, ClosedInv
<1>3. DataInv(db', workers'["holder"])
  BY <1>1, Zenon DEF Settles, DataInv
<1> QED  BY <1>2, <1>3, NextInv, Zenon

LEMMA RequestDoneStep ==
    ASSUME ConversationInv, RequestDone
    PROVE  ConversationInv'
<1> DEFINE ended == [Now EXCEPT !.coord = EndJob(coord, "completed")]
<1>1. /\ coord.job.kind # "none" /\ Begun(coord) /\ coord.job.phase = "" /\ started' = started
      /\ Set(BeginAction(Now)) \/ Set(ended)
      /\ db' = db \/ db' = [db EXCEPT !.consent = TRUE]
  <2>1. coord.job.kind \in {"preapprove", "task"} /\ coord.job.phase = "" /\ started' = started
    BY Zenon DEF RequestDone
  <2>2. coord.job.kind # "none" /\ Begun(coord)
    BY <2>1, Zenon DEF Begun
  <2>3. Now.coord = coord
    BY Zenon DEF Now
  <2> QED  BY <2>1, <2>2, <2>3, Zenon DEF RequestDone
<1>2. Pair(Now, coord, workers)
  BY Zenon DEF Now, Pair
<1>3. CoordInv(coord) /\ coord.retired = NoRetired /\ Out(coord) = NoRetired
  BY <1>1, Zenon DEF ConversationInv, ExchangeInv, CoordInv, Out
<1>4. Resting(coord, workers, started)
  BY <1>3, AtRest, Zenon DEF ConversationInv
<1>5. Settles(coord, workers, BeginAction(Now), started)
  BY <1>1, <1>2, <1>4, BeginActionSettles, Zenon
<1>6. Settles(coord, workers, ended, started)
  <2>1. Pair(ended, EndJob(coord, "completed"), workers)
    BY <1>2, Zenon DEF Pair
  <2> QED  BY <1>3, <1>4, <2>1, EndedSettles, Zenon DEF EndJob
<1>7. DataInv(db', workers["holder"]) /\ ClosedInv(coord, db')
  <2> DEFINE e == [db EXCEPT !.consent = TRUE]
  <2>1. DataInv(e, workers["holder"]) /\ ClosedInv(coord, e)
    BY ConsentData, Zenon DEF ConversationInv
  <2>2. db' = db \/ db' = e
    BY <1>1, Zenon
  <2> HIDE DEF e
  <2> QED  BY <2>1, <2>2, Zenon DEF ConversationInv
<1> QED  BY <1>1, <1>5, <1>6, <1>7, SettledStep, Zenon

(* Close: the session is closed at the daemon and the holder is told to    *)
(* clean up, unless a result is outstanding or the session is gone.        *)
LEMMA CloseStep ==
    ASSUME ConversationInv, Close
    PROVE  ConversationInv'
<1> DEFINE c == Cancel(coord)
           gone == coord.session # 0 /\ db.sessions[coord.session] = "GONE"
           job == [NoJob EXCEPT !.kind = "cleanup", !.phase = "cleanup", !.worker = "holder"]
           closing == [c EXCEPT !.job = job, !.reason = ""]
           k == [Now EXCEPT !.coord = closing]
           failed == [k EXCEPT !.coord = FailJob(closing)]
<1>1. k.coord = closing
  BY Zenon DEF Now
<1>2. \/ coord' = c /\ UNCHANGED <<workers, db>>
      \/ coord' = [c EXCEPT !.reason = "closed"] /\ UNCHANGED <<workers, db>>
      \/ /\ c.retired = NoRetired /\ c.session # 0
         /\ db' = FinishCleanup(CloseSession(db, c.session))
         /\ Set(failed) \/ Set(SendWorker(k, "holder", "cleanup"))
  BY <1>1, Zenon DEF Close
<1>3. started' = started
  BY Zenon DEF Close
<1>4. /\ DOMAIN job = JobFields /\ job.kind = "cleanup"
      /\ job.phase = "cleanup" /\ job.worker = "holder"
  BY Zenon DEF NoJob, JobFields
<1>5. CoordInv(coord) /\ CoordShape(coord)
  BY Zenon DEF ConversationInv, ExchangeInv, CoordInv
<1>6. /\ DOMAIN c = CoordFields /\ DOMAIN c.job = JobFields
      /\ c.counted = coord.counted /\ c.uncertain = coord.uncertain /\ c.ops = coord.ops
      /\ c.session = coord.session /\ c.closed = coord.closed
  BY <1>5, CancelFields, Zenon
<1>7. CoordInv(c) /\ Out(c) = Out(coord) /\ c.job.phase = ""
  BY <1>5, CancelKeeps, Zenon
<1> HIDE DEF c, job
<1>8. CASE coord' = c /\ UNCHANGED <<workers, db>>
  BY <1>3, <1>6, <1>8, CancelledGoesOn, Zenon DEF CoordShape, c
<1>9. CASE coord' = [c EXCEPT !.reason = "closed"] /\ UNCHANGED <<workers, db>>
  <2>1. /\ CoordShape(coord') /\ coord'.job = c.job /\ coord'.retired = c.retired
        /\ coord'.counted = coord.counted /\ coord'.uncertain = coord.uncertain
        /\ coord'.session = coord.session /\ coord'.closed = coord.closed /\ coord'.ops = coord.ops
    BY <1>6, <1>9, Zenon DEF CoordShape, CoordFields
  <2> QED  BY <1>3, <1>9, <2>1, CancelledGoesOn, Zenon DEF c
<1>10. CASE /\ c.retired = NoRetired /\ c.session # 0
            /\ db' = FinishCleanup(CloseSession(db, c.session))
            /\ Set(failed) \/ Set(SendWorker(k, "holder", "cleanup"))
  <2>1. Out(coord) = NoRetired
    BY <1>7, <1>10, Zenon DEF Out
  <2>2. Resting(coord, workers, started)
    BY <2>1, AtRest, Zenon DEF ConversationInv
  <2>3. /\ DOMAIN closing = CoordFields /\ closing.job = job /\ closing.retired = c.retired
        /\ closing.counted = coord.counted /\ closing.uncertain = coord.uncertain
        /\ closing.session = coord.session /\ closing.closed = coord.closed
        /\ closing.ops = coord.ops
    BY <1>6, Zenon DEF CoordFields
  <2>4. Pair(k, closing, workers) /\ Pair(failed, FailJob(closing), workers)
    BY Zenon DEF Now, Pair
  <2> HIDE DEF closing, k
  <2>5. CoordInv(closing)
    <3>1. "cleanup" \in Phases /\ "holder" \in Workers /\ "cleanup" # "none"
      BY DEF Phases, Workers
    <3>2. CoordShape(closing)
      BY <1>4, <2>3, Zenon DEF CoordShape
    <3>3. /\ closing.job.kind = "cleanup" /\ closing.job.phase = "cleanup"
          /\ closing.job.worker = "holder"
      BY <1>4, <2>3, Zenon
    <3> QED  BY <1>6, <1>10, <2>3, <3>1, <3>2, <3>3, Zenon DEF CoordInv
  <2>6. Resting(closing, workers, started)
    <3>1. Known(closing) = Known(coord)
      BY <2>3, Zenon DEF Known
    <3>2. /\ closing.job.kind \in {"none", "cleanup"} /\ closing.job.phase \in {"", "cleanup"}
          /\ closing.retired = NoRetired
      BY <1>4, <1>10, <2>3, Zenon
    <3>3. Numbered(closing)
      BY <2>2, <2>3, <3>1, <3>2, NumberedEnds, Zenon DEF Resting
    <3> QED  BY <2>2, <2>3, <2>5, <3>1, <3>3, Zenon DEF Resting
  <2>7. Settles(closing, workers, failed, started)
    BY <1>10, <2>3, <2>4, <2>6, EndedSettles, Zenon DEF FailJob
  <2>8. Settles(closing, workers, SendWorker(k, "holder", "cleanup"), started)
    <3>1. closing.job.phase = "cleanup" /\ closing.job.worker = "holder"
      BY <1>4, <2>3
    <3>2. Settles(closing, workers, SendWorker(k, closing.job.worker, closing.job.phase), started)
      BY <2>4, <2>6, <3>1, SentAgain, Zenon
    <3> QED  BY <3>1, <3>2, Zenon
  <2>9. c.session \in 1..Len(db.sessions)
    <3>1. c.session \in 0..Len(db.sessions) /\ c.session # 0 /\ Len(db.sessions) \in Nat
      BY <1>6, <1>10 DEF ConversationInv, ClosedInv, DataInv, DatabaseShape
    <3> QED  BY <3>1
  <2>10. DataInv(db', workers["holder"]) /\ ClosedInv(coord, db')
    BY <1>10, <2>9, ClosingData, Zenon
  <2>11. ClosedInv(closing, db')
    BY <2>3, <2>10, Zenon DEF ClosedInv
  <2> QED  BY <1>3, <1>10, <2>7, <2>8, <2>10, <2>11, SettledStep, Zenon
<1> QED  BY <1>2, <1>8, <1>9, <1>10, Zenon

LEMMA SessionLostStep ==
    ASSUME ConversationInv, SessionLost
    PROVE  ConversationInv'
<1>1. /\ Len(db.sessions) \in DOMAIN db.sessions /\ UNCHANGED <<coord, workers, started>>
      /\ db' = FinishCleanup(CloseSession(db, Len(db.sessions)))
  BY Zenon DEF SessionLost, Active
<1>2. Len(db.sessions) \in 1..Len(db.sessions)
  BY <1>1 DEF ConversationInv, DataInv, DatabaseShape
<1>3. DataInv(db', workers["holder"]) /\ ClosedInv(coord, db')
  BY <1>1, <1>2, ClosingData, Zenon
<1> QED  BY <1>1, <1>3, NextInv, Zenon DEF ConversationInv

LEMMA DaemonStep ==
    ASSUME ConversationInv, Revoke \/ Recreate \/ \E a \in Ids : Expire(a)
    PROVE  ConversationInv'
<1>1. DataInv(db', workers["holder"]) /\ ClosedInv(coord, db')
  BY RevokeData, RecreateData, ExpireData, Zenon
<1>2. UNCHANGED <<coord, workers, started>>
  BY Zenon DEF Revoke, Recreate, Expire
<1> QED  BY <1>1, <1>2, NextInv, Zenon DEF ConversationInv

(* A worker's result: for the job, or for the one that was given up.       *)
LEMMA WorkerResultStep ==
    ASSUME ConversationInv, WorkerResult
    PROVE  ConversationInv'
<1> DEFINE w == coord.job.worker
<1>1. /\ coord.job.phase # ""
      /\ workers[w].answer.reply \/ workers[w].up = "dead" \/ workers[w].astray
      /\ UNCHANGED <<db, started>>
      /\ \/ Set(HandleWorkerResult(Received(w), workers[w].answer))
         \/ workers[w].answer.reply /\ Set(HandleWorkerResult(Unread(w), NoReply))
  BY Zenon DEF WorkerResult, Ready
<1>2. w \in Workers /\ WorkersShape(workers)
  BY <1>1, Zenon DEF ConversationInv, ExchangeInv, CoordInv
<1>3. ASSUME NEW at, NEW answer, NEW V, Pair(at, coord, V), Hears(workers, V, w, answer),
             Set(HandleWorkerResult(at, answer))
      PROVE  ConversationInv'
  <2> DEFINE k == HandleWorkerResult(at, answer)
  <2>1. Handled(V, k, started)
    BY <1>1, <1>3, ResultHandled, Zenon DEF ConversationInv, DataInv
  <2>2. coord' = k.coord /\ workers' = k.workers
    BY <1>3, Zenon DEF Set
  <2> HIDE DEF k
  <2>3. /\ V["holder"].buffers = workers["holder"].buffers
        /\ V["holder"].zeroed = workers["holder"].zeroed
    BY <1>2, <1>3, Zenon DEF Hears, Workers
  <2>4. ExchangeInv(coord', workers', started') /\ ClosedInv(coord', db')
    BY <1>1, <2>1, <2>2, Zenon DEF Handled
  <2>5. DataInv(db', workers'["holder"])
    BY <1>1, <2>1, <2>2, <2>3, Zenon DEF Handled, DataInv, ConversationInv
  <2> QED  BY <2>4, <2>5, NextInv, Zenon
<1>4. CASE Set(HandleWorkerResult(Received(w), workers[w].answer))
  BY <1>2, <1>3, <1>4, ReceivedHears, Zenon
<1>5. CASE workers[w].answer.reply /\ Set(HandleWorkerResult(Unread(w), NoReply))
  BY <1>2, <1>3, <1>5, UnreadHears, Zenon
<1> QED  BY <1>1, <1>4, <1>5, Zenon

(* An exchange that a job left behind ends, with an answer or without.     *)
LEMMA RetiredIsOut ==
    ASSUME ConversationInv, coord.retired # NoRetired
    PROVE  /\ Out(coord) = coord.retired /\ coord.retired.worker \in Workers
           /\ coord.job.kind = "none" /\ coord.job.phase = "" /\ CoordShape(coord)
BY Zenon DEF ConversationInv, ExchangeInv, CoordInv, Out

LEMMA RetiredResultKeeps ==
    ASSUME ConversationInv, coord.retired # NoRetired, NEW answer
    PROVE  LET e == RetiredResult(coord, answer)
               r == RecordCompletion(coord, coord.retired, answer)
           IN /\ CoordInv(e) /\ Numbered(e) /\ Out(e) = NoRetired
              /\ e.session = coord.session /\ e.closed = coord.closed
              /\ e.counted = r.counted /\ Known(e) = Known(r)
<1> DEFINE r == RecordCompletion(coord, coord.retired, answer)
           e == RetiredResult(coord, answer)
<1>1. coord.job.kind = "none" /\ coord.job.phase = "" /\ CoordShape(coord)
  BY RetiredIsOut, Zenon
<1>2. /\ CoordShape(r) /\ r.job = coord.job /\ r.session = coord.session /\ r.closed = coord.closed
      /\ r.ops = coord.ops
  <2>1. Recorded(coord, r, coord.retired, answer)
    BY <1>1, RecordIs, Zenon
  <2> HIDE DEF r
  <2> QED  BY <2>1, Zenon DEF Recorded
<1>3. Numbered(r)
  <2>1. Numbered(coord) /\ ~Begun(coord)
    BY <1>1, Zenon DEF ConversationInv, ExchangeInv, Begun
  <2>2. coord.retired.phase \in Starting => \E n \in Nat : coord.retired.action = <<coord.ops, n>>
    BY <2>1, Zenon DEF Numbered
  <2> QED  BY <1>1, <2>1, <2>2, RecordNumbered, Zenon
<1>4. e = [r EXCEPT !.retired = NoRetired]
  BY Zenon DEF RetiredResult
<1> HIDE DEF r, e
<1>5. /\ CoordShape(e) /\ e.job = r.job /\ e.session = r.session /\ e.closed = r.closed
      /\ e.counted = r.counted /\ e.uncertain = r.uncertain /\ e.retired = NoRetired
      /\ e.ops = r.ops
  BY <1>2, <1>4, Zenon DEF CoordShape, CoordFields
<1>6. "" \in Phases /\ "" # "cleanup"
  BY Zenon DEF Phases
<1>7. CoordInv(e) /\ Out(e) = NoRetired
  BY <1>1, <1>2, <1>5, <1>6, Zenon DEF CoordInv, Out
<1>8. Known(e) = Known(r)
  BY <1>5, Zenon DEF Known
<1>9. Numbered(e)
  BY <1>1, <1>2, <1>3, <1>5, <1>8, NumberedEnds, Zenon
<1> QED  BY <1>2, <1>5, <1>7, <1>8, <1>9, Zenon DEF r, e

LEMMA DrainRetiredStep ==
    ASSUME ConversationInv, DrainRetired
    PROVE  ConversationInv'
<1> DEFINE w == coord.retired.worker
<1>1. /\ coord.retired # NoRetired
      /\ workers[w].answer.reply \/ workers[w].up = "dead" \/ workers[w].astray
      /\ UNCHANGED <<db, started>>
      /\ \/ Set([Received(w) EXCEPT !.coord = RetiredResult(@, workers[w].answer)])
         \/ /\ workers[w].answer.reply
            /\ Set([Unread(w) EXCEPT !.coord = RetiredResult(@, NoReply)])
  BY Zenon DEF DrainRetired, Ready
<1>2. w \in Workers /\ Out(coord) = coord.retired /\ CoordShape(coord) /\ WorkersShape(workers)
  BY <1>1, RetiredIsOut, Zenon DEF ConversationInv, ExchangeInv
<1>3. ASSUME NEW at, NEW answer, NEW V, Pair(at, coord, V), Hears(workers, V, w, answer),
             Set([at EXCEPT !.coord = RetiredResult(@, answer)])
      PROVE  ConversationInv'
  <2> DEFINE e == RetiredResult(coord, answer)
  <2>1. \A x \in Workers : Lane(V[x]) /\ Quiet(V[x])
    <3>1. ExchangeInv(coord, workers, started) /\ w = Out(coord).worker
      BY <1>2, Zenon DEF ConversationInv
    <3>2. workers[w].answer.reply \/ workers[w].up = "dead" \/ workers[w].astray
      BY <1>1, Zenon
    <3> HIDE DEF w
    <3> QED  BY <1>2, <1>3, <3>1, <3>2, HeardIsQuiet, Zenon
  <2>2. /\ CoordInv(e) /\ Numbered(e) /\ Out(e) = NoRetired
        /\ e.session = coord.session /\ e.closed = coord.closed
        /\ e.counted = RecordCompletion(coord, coord.retired, answer).counted
        /\ Known(e) = Known(RecordCompletion(coord, coord.retired, answer))
    BY <1>1, RetiredResultKeeps, Zenon
  <2>3. started \subseteq Known(e) /\ e.counted \subseteq started
    <3> DEFINE r == RecordCompletion(coord, Out(coord), answer)
    <3>1. ExchangeInv(coord, workers, started) /\ w = Out(coord).worker
      BY <1>2, Zenon DEF ConversationInv
    <3>2. started \subseteq Known(r) /\ r.counted \subseteq started
      <4> HIDE DEF w
      <4> QED  BY <1>2, <1>3, <3>1, RecordedIsKnown, ZenonT(60)
    <3> HIDE DEF e
    <3> QED  BY <1>2, <2>2, <3>2, Zenon
  <2>4. coord' = e /\ workers' = V
    <3>1. Set([at EXCEPT !.coord = e])
      BY <1>3, Zenon DEF Pair
    <3> HIDE DEF e
    <3> QED  BY <1>3, <3>1, Zenon DEF Set, Pair
  <2> HIDE DEF e
  <2>5. ExchangeInv(e, V, started)
    <3>1. Resting(e, V, started)
      BY <1>3, <2>1, <2>2, <2>3, Zenon DEF Resting, Hears
    <3>2. Steady(e, V)
      BY <2>2, NothingIsSteady, Zenon
    <3> QED  BY <3>1, <3>2, RestingSettles, Zenon
  <2>6. /\ V["holder"].buffers = workers["holder"].buffers
        /\ V["holder"].zeroed = workers["holder"].zeroed
    BY <1>2, <1>3, Zenon DEF Hears, Workers
  <2>7. ClosedInv(coord', db') /\ DataInv(db', workers'["holder"])
    BY <1>1, <2>2, <2>4, <2>6, Zenon DEF ConversationInv, ClosedInv, DataInv
  <2> QED  BY <1>1, <2>4, <2>5, <2>7, NextInv, Zenon
<1>4. CASE Set([Received(w) EXCEPT !.coord = RetiredResult(@, workers[w].answer)])
  BY <1>2, <1>3, <1>4, ReceivedHears, Zenon
<1>5. CASE /\ workers[w].answer.reply
           /\ Set([Unread(w) EXCEPT !.coord = RetiredResult(@, NoReply)])
  BY <1>2, <1>3, <1>5, UnreadHears, Zenon
<1> QED  BY <1>1, <1>4, <1>5, Zenon

(* A worker that is replaced, or dies, has nothing to do and no data.      *)
LEMMA SpawnedIs ==
    ASSUME NEW n
    PROVE  LET h == Spawned(n)
           IN /\ DOMAIN h = WorkerFields /\ h.inbox = <<>> /\ h.output = NoReply
              /\ h.answer = NoReply /\ ~h.astray /\ h.at = "idle"
              /\ h.buffers = {} /\ h.zeroed = {} /\ Lane(h) /\ Quiet(h)
<1> DEFINE none == <<0, 0>>
           empty == <<>>
           h == [up |-> "none", instance |-> n, inbox |-> empty, output |-> NoReply,
                 answer |-> NoReply, astray |-> FALSE,
                 authorized |-> none, buffers |-> {}, zeroed |-> {}, progress |-> Fresh,
                 at |-> "idle", page |-> empty, more |-> FALSE, next |-> NoCursor, pages |-> 0,
                 ok |-> FALSE]
<1>1. Spawned(n) = h
  BY Zenon DEF Spawned
<1>2. empty = <<>> /\ Sequence(empty)
  BY EmptyIs, Zenon
<1> HIDE DEF none, empty
<1>3. DOMAIN h = WorkerFields /\ h.inbox = empty /\ h.output = NoReply /\ h.answer = NoReply
      /\ ~h.astray /\ h.at = "idle" /\ h.buffers = {} /\ h.zeroed = {}
  BY Zenon DEF WorkerFields
<1> HIDE DEF h
<1>4. Lane(h) /\ Quiet(h)
  BY <1>2, <1>3, NoReplyIs, Zenon DEF Lane, Quiet
<1> QED  BY <1>1, <1>2, <1>3, <1>4, Zenon

LEMMA RetiredDeadlineStep ==
    ASSUME ConversationInv, RetiredDeadline
    PROVE  ConversationInv'
<1> DEFINE w == coord.retired.worker
           e == RetiredResult(coord, NoReply)
           r == RecordCompletion(coord, coord.retired, NoReply)
           h == Spawned(workers[w].instance + 1)
<1>1. /\ coord.retired # NoRetired
      /\ coord' = e /\ workers' = [workers EXCEPT ![w] = h]
      /\ UNCHANGED <<db, started>>
  BY Zenon DEF RetiredDeadline
<1>2. w \in Workers /\ Out(coord) = coord.retired /\ CoordShape(coord) /\ WorkersShape(workers)
  BY <1>1, RetiredIsOut, Zenon DEF ConversationInv, ExchangeInv
<1>3. /\ CoordInv(e) /\ Numbered(e) /\ Out(e) = NoRetired
      /\ e.session = coord.session /\ e.closed = coord.closed
      /\ e.counted = r.counted /\ Known(e) = Known(r)
  BY <1>1, RetiredResultKeeps, Zenon
<1>4. started \subseteq Known(e) /\ e.counted \subseteq started
  <2>5. Recorded(coord, r, coord.retired, NoReply)
    BY <1>2, RecordIs, Zenon
  <2>1. /\ Known(coord) \subseteq Known(r)
        /\ coord.retired.phase \in Starting /\ (~NoReply.reply \/ NoReply.started) =>
              coord.retired.action \in Known(r)
    <3> HIDE DEF r
    <3> QED  BY <2>5, Zenon DEF Recorded
  <2>2. ~Says(coord.retired, NoReply)
    BY NoReplyIs, Zenon DEF Says
  <2>3. r.counted = coord.counted
    <3>1. ~Says(coord.retired, NoReply) => r.counted = coord.counted
      <4> HIDE DEF r
      <4> QED  BY <2>5, Zenon DEF Recorded
    <3> QED  BY <2>2, <3>1, Zenon
  <2>4. started \subseteq Known(coord) \cup Underway(coord) /\ coord.counted \subseteq started
    BY Zenon DEF ConversationInv, ExchangeInv
  <2> HIDE DEF e, r
  <2> QED  BY <1>2, <1>3, <2>1, <2>3, <2>4, NoReplyIs, Zenon DEF Underway
<1>5. DOMAIN h = WorkerFields /\ Lane(h) /\ Quiet(h) /\ h.buffers = {}
  BY SpawnedIs, Zenon
<1> HIDE DEF e, h, r
<1>6. /\ DOMAIN workers' = Workers /\ workers'[w] = h
      /\ \A x \in Workers \ {w} : workers'[x] = workers[x]
  BY <1>1, <1>2, Zenon DEF WorkersShape
<1>7. \A x \in Workers \ {w} : Lane(workers[x]) /\ Quiet(workers[x])
  BY <1>2, Zenon DEF ConversationInv, ExchangeInv, WorkerInv
<1>8. WorkersShape(workers') /\ \A x \in Workers : Lane(workers'[x]) /\ Quiet(workers'[x])
  BY <1>2, <1>5, <1>6, <1>7, Zenon DEF WorkersShape
<1>9. ExchangeInv(coord', workers', started')
  <2>1. Resting(e, workers', started)
    BY <1>3, <1>4, <1>8, Zenon DEF Resting
  <2>2. Steady(e, workers')
    BY <1>3, NothingIsSteady, Zenon
  <2> QED  BY <1>1, <2>1, <2>2, RestingSettles, Zenon
<1>10. "holder" \in Workers
  BY Zenon DEF Workers
<1>11. DataInv(db', workers'["holder"])
  BY <1>1, <1>5, <1>6, <1>10, Zenon DEF ConversationInv, DataInv
<1>12. ClosedInv(coord', db')
  BY <1>1, <1>3, Zenon DEF ConversationInv, ClosedInv
<1> QED  BY <1>9, <1>11, <1>12, NextInv, Zenon

-----------------------------------------------------------------------------
(* The workers' own steps: w becomes h.                                    *)
LEMMA WorkerMoves ==
    ASSUME NEW c, NEW W, NEW S, NEW R, ExchangeInv(c, W, S), NEW w \in Workers, NEW h,
           DOMAIN h = WorkerFields, WorkerInv(c, h, w, R),
           R = S \/ (w = Out(c).worker /\ S \subseteq R /\ R \subseteq Known(c) \cup Underway(c))
    PROVE  ExchangeInv(c, [W EXCEPT ![w] = h], R)
<1> DEFINE V == [W EXCEPT ![w] = h]
<1>1. /\ CoordInv(c) /\ Numbered(c) /\ WorkersShape(W) /\ S \subseteq Known(c) \cup Underway(c)
      /\ c.counted \subseteq S /\ (Out(c).phase \in Starting => Out(c).action \notin Known(c))
  BY Zenon DEF ExchangeInv
<1>2. DOMAIN V = Workers /\ V[w] = h /\ \A x \in Workers \ {w} : V[x] = W[x]
  BY <1>1, Zenon DEF WorkersShape
<1> HIDE DEF V
<1>3. WorkersShape(V)
  BY <1>1, <1>2, Zenon DEF WorkersShape
<1>4. ASSUME NEW x \in Workers \ {w}
      PROVE  WorkerInv(c, V[x], x, R)
  <2>1. WorkerInv(c, W[x], x, S) /\ V[x] = W[x]
    BY <1>2, Zenon DEF ExchangeInv
  <2>2. CASE R = S
    BY <2>1, <2>2, Zenon
  <2>3. CASE w = Out(c).worker
    <3>1. x # Out(c).worker
      BY <2>3, Zenon
    <3>2. Lane(W[x]) /\ Quiet(W[x])
      BY <2>1, <3>1, Zenon DEF WorkerInv
    <3> QED  BY <2>1, <3>1, <3>2, Zenon DEF WorkerInv, Quiet
  <2> QED  BY <2>2, <2>3, Zenon
<1>5. WorkerInv(c, V[w], w, R)
  BY <1>2, Zenon
<1>6. c.counted \subseteq R /\ R \subseteq Known(c) \cup Underway(c)
  BY <1>1, Zenon
<1>7. ExchangeInv(c, V, R)
  BY <1>1, <1>3, <1>4, <1>5, <1>6, Zenon DEF ExchangeInv
<1> QED  BY <1>7, Zenon DEF V

(* A request of a worker in step belongs to the exchange.                  *)
LEMMA AskedIsOut ==
    ASSUME NEW c, NEW h, NEW w, NEW S, WorkerInv(c, h, w, S), h.inbox # <<>>, ~h.astray
    PROVE  /\ w = Out(c).worker /\ ~h.answer.reply /\ ~h.output.reply /\ S \subseteq Known(c)
           /\ h.up = "up" /\ Tail(h.inbox) = <<>>
           /\ Head(h.inbox).method = Out(c).phase /\ Head(h.inbox).action = Out(c).action
BY Zenon DEF WorkerInv, Quiet

(* What a worker's step may do: go on with a sweep, serve a request, send  *)
(* the reply, or die.                                                      *)
GoesOn(g, h) ==
    /\ g.inbox # <<>> /\ Head(g.inbox).method = "cleanup"
    /\ h.inbox = g.inbox /\ h.output = g.output /\ h.answer = g.answer /\ h.up = g.up
    /\ h.astray <=> g.astray
Serves(g, h) ==
    /\ g.inbox # <<>> /\ h.inbox = Tail(g.inbox) /\ h.at = "idle"
    /\ h.answer = g.answer /\ h.up = g.up
    /\ h.astray <=> g.astray
Answers(g, h) == Serves(g, h) /\ (Head(g.inbox).method \in Starting => ~h.output.started)
Replies(g, h) ==
    /\ g.output.reply /\ h.output = NoReply
    /\ h.answer = IF g.astray THEN NoReply ELSE g.output
    /\ h.inbox = g.inbox /\ h.at = g.at /\ h.up = g.up
    /\ h.astray <=> g.astray
Dies(g, h) ==
    /\ h.inbox = <<>> /\ h.output = NoReply /\ h.answer = g.answer /\ h.at = "idle"
    /\ ~h.astray

LEMMA ServedIs ==
    ASSUME NEW c, NEW g, NEW h, NEW w, NEW S, NEW R, WorkerInv(c, g, w, S), Serves(g, h),
           ~g.astray /\ Out(c).phase \in Starting => Tells(c, h.output, R)
    PROVE  WorkerInv(c, h, w, R)
<1>1. Lane(g) /\ Sequence(g.inbox)
  BY Zenon DEF WorkerInv, Lane
<1>2. /\ Sequence(Tail(g.inbox))
      /\ NoStart(g.inbox) => NoStart(Tail(g.inbox))
  BY <1>1, PopIs, Zenon DEF Serves
<1>3. /\ h.inbox = Tail(g.inbox) /\ h.at = "idle" /\ h.answer = g.answer /\ h.up = g.up
      /\ h.astray <=> g.astray
  BY Zenon DEF Serves
<1>4. Lane(h)
  BY <1>1, <1>2, <1>3, Zenon DEF Lane
<1>5. CASE g.astray
  <2>1. h.astray /\ ~h.answer.reply
    BY <1>1, <1>3, <1>5, Zenon DEF Lane
  <2>2. ~(w = Out(c).worker /\ Out(c).phase \in Starting)
    BY <1>5, Zenon DEF WorkerInv
  <2> QED  BY <1>4, <2>1, <2>2, Zenon DEF WorkerInv, Quiet
<1>6. CASE ~g.astray
  <2>1. /\ w = Out(c).worker /\ ~g.answer.reply /\ g.up = "up" /\ Tail(g.inbox) = <<>>
    BY <1>6, AskedIsOut, Zenon DEF Serves
  <2>2. ~h.astray /\ h.inbox = <<>> /\ ~h.answer.reply /\ h.up = "up"
    BY <1>3, <1>6, <2>1, Zenon
  <2>3. Out(c).phase \in Starting => Tells(c, h.output, R) /\ Tells(c, h.answer, R)
    BY <1>6, <2>2, Zenon DEF Tells
  <2> QED  BY <1>4, <2>1, <2>2, <2>3, Zenon DEF WorkerInv
<1> QED  BY <1>5, <1>6, Zenon

LEMMA RepliedIs ==
    ASSUME NEW c, NEW g, NEW h, NEW w, NEW S, WorkerInv(c, g, w, S), Replies(g, h)
    PROVE  WorkerInv(c, h, w, S)
<1>1. Lane(g)
  BY Zenon DEF WorkerInv
<1>2. /\ g.output.reply /\ h.output = NoReply /\ h.inbox = g.inbox /\ h.at = g.at /\ h.up = g.up
      /\ h.astray <=> g.astray
  BY Zenon DEF Replies
<1>3. CASE g.astray
  <2>1. h.astray /\ h.answer = NoReply /\ ~h.answer.reply /\ ~h.answer.ok
    BY <1>2, <1>3, NoReplyIs, Zenon DEF Replies
  <2>2. Lane(h)
    BY <1>1, <1>2, <1>3, <2>1, Zenon DEF Lane
  <2>3. ~(w = Out(c).worker /\ Out(c).phase \in Starting)
    BY <1>3, Zenon DEF WorkerInv
  <2> QED  BY <2>1, <2>2, <2>3, Zenon DEF WorkerInv, Quiet
<1>4. CASE ~g.astray
  <2>1. ~h.astray /\ h.answer = g.output /\ h.answer.reply /\ ~h.output.reply
    BY <1>2, <1>4, NoReplyIs, Zenon DEF Replies
  <2>2. Lane(h)
    BY <1>1, <1>2, <2>1, Zenon DEF Lane
  <2>3. g.inbox = <<>> /\ w = Out(c).worker
    BY <1>2, <1>4, Zenon DEF WorkerInv, Quiet
  <2>4. Out(c).phase \in Starting => Tells(c, h.output, S) /\ Tells(c, h.answer, S)
    <3>1. Out(c).phase \in Starting => Tells(c, g.output, S)
      BY <2>3, Zenon DEF WorkerInv
    <3> QED  BY <2>1, <3>1, Zenon DEF Tells
  <2> QED  BY <1>2, <2>1, <2>2, <2>3, <2>4, Zenon DEF WorkerInv
<1> QED  BY <1>3, <1>4, Zenon

LEMMA DiedIs ==
    ASSUME NEW c, NEW g, NEW h, NEW w, NEW S, WorkerInv(c, g, w, S), Dies(g, h)
    PROVE  WorkerInv(c, h, w, S)
<1>1. /\ h.inbox = <<>> /\ h.output = NoReply /\ h.answer = g.answer /\ h.at = "idle" /\ ~h.astray
      /\ ~h.output.reply
  BY NoReplyIs, Zenon DEF Dies
<1>2. Lane(h)
  BY <1>1, EmptyIs, Zenon DEF WorkerInv, Lane
<1>3. w # Out(c).worker => Quiet(h)
  BY <1>1, Zenon DEF WorkerInv, Quiet
<1>4. w = Out(c).worker /\ Out(c).phase \in Starting =>
         Tells(c, h.output, S) /\ Tells(c, h.answer, S)
  <2>1. w = Out(c).worker /\ Out(c).phase \in Starting => Tells(c, g.answer, S)
    BY Zenon DEF WorkerInv
  <2> QED  BY <1>1, <2>1, Zenon DEF Tells
<1> QED  BY <1>1, <1>2, <1>3, <1>4, Zenon DEF WorkerInv

LEMMA WorkerTurns ==
    ASSUME NEW c, NEW W, NEW S, ExchangeInv(c, W, S), NEW w \in Workers, NEW h,
           DOMAIN h = WorkerFields,
           GoesOn(W[w], h) \/ Answers(W[w], h) \/ Replies(W[w], h) \/ Dies(W[w], h)
    PROVE  ExchangeInv(c, [W EXCEPT ![w] = h], S)
<1>1. WorkerInv(c, W[w], w, S)
  BY Zenon DEF ExchangeInv
<1> DEFINE g == W[w]
<1>2. WorkerInv(c, h, w, S)
  <2>1. CASE GoesOn(g, h)
    <3> HIDE DEF g
    <3>1. /\ g.inbox # <<>> /\ Head(g.inbox).method = "cleanup" /\ h.inbox = g.inbox
          /\ h.output = g.output /\ h.answer = g.answer /\ h.up = g.up
          /\ h.astray <=> g.astray
      BY <2>1, Zenon DEF GoesOn
    <3>2. WorkerInv(c, g, w, S)
      BY <1>1, Zenon DEF g
    <3>3. Lane(h)
      BY <3>1, <3>2, Zenon DEF WorkerInv, Lane
    <3>4. w # Out(c).worker => Quiet(h)
      BY <3>1, <3>2, Zenon DEF WorkerInv, Quiet
    <3> QED  BY <3>1, <3>2, <3>3, <3>4, ZenonT(60) DEF WorkerInv
  <2>2. CASE Answers(g, h)
    <3>1. Serves(g, h) /\ (Head(g.inbox).method \in Starting => ~h.output.started)
      BY <2>2, Zenon DEF Answers
    <3>2. ~g.astray => S \subseteq Known(c) /\ Head(g.inbox).method = Out(c).phase
      BY <1>1, <3>1, AskedIsOut, Zenon DEF Serves
    <3>3. ~g.astray /\ Out(c).phase \in Starting => Tells(c, h.output, S)
      BY <3>1, <3>2, Zenon DEF Tells
    <3> QED  BY <1>1, <3>1, <3>3, ServedIs, Zenon
  <2>3. CASE Replies(g, h)
    BY <1>1, <2>3, RepliedIs, Zenon
  <2>4. CASE Dies(g, h)
    BY <1>1, <2>4, DiedIs, Zenon
  <2> QED  BY <2>1, <2>2, <2>3, <2>4, Zenon
<1> QED  BY <1>2, WorkerMoves, Zenon

(* Data that a worker no longer has.                                       *)
LEMMA BuffersShrink ==
    ASSUME NEW d, NEW h, NEW g, DataInv(d, h), g.buffers \ g.zeroed \subseteq h.buffers \ h.zeroed
    PROVE  DataInv(d, g)
BY Zenon DEF DataInv

LEMMA WorkerStep ==
    ASSUME ConversationInv, NEW w \in Workers, NEW h, DOMAIN h = WorkerFields,
           GoesOn(workers[w], h) \/ Answers(workers[w], h) \/ Replies(workers[w], h)
              \/ Dies(workers[w], h),
           h.buffers \ h.zeroed \subseteq workers[w].buffers \ workers[w].zeroed,
           workers' = [workers EXCEPT ![w] = h], UNCHANGED <<coord, db, started>>
    PROVE  ConversationInv'
<1>1. ExchangeInv(coord', workers', started')
  BY WorkerTurns, Zenon DEF ConversationInv
<1>2. DOMAIN workers = Workers /\ "holder" \in Workers
  BY Zenon DEF ConversationInv, ExchangeInv, WorkersShape, Workers
<1>3. workers'["holder"] = IF w = "holder" THEN h ELSE workers["holder"]
  BY <1>2, Zenon
<1>4. DataInv(db', workers'["holder"])
  BY <1>3, BuffersShrink, Zenon DEF ConversationInv
<1> QED  BY <1>1, <1>4, NextInv, Zenon DEF ConversationInv

LEMMA HolderIs ==
    ASSUME ConversationInv
    PROVE  "holder" \in Workers /\ \A w \in Workers : DOMAIN workers[w] = WorkerFields
BY Zenon DEF ConversationInv, ExchangeInv, WorkersShape, Workers

(* A request other than the sweep is served in one step (Answered).        *)
Told(g, h) ==
    /\ DOMAIN h = WorkerFields /\ Serves(g, h)
    /\ h.buffers = g.buffers /\ h.zeroed = g.zeroed

LEMMA AnsweredIs ==
    ASSUME ConversationInv, NEW w \in Workers, NEW answer,
           workers[w].inbox # <<>>, Head(workers[w].inbox).method # "cleanup"
    PROVE  LET h == Answered(w, answer)
           IN Told(workers[w], h) /\ h.output = [answer EXCEPT !.reply = TRUE]
<1> DEFINE g == workers[w]
           a == [answer EXCEPT !.reply = TRUE]
           q == Tail(g.inbox)
           h == [g EXCEPT !.inbox = q, !.output = a]
<1>1. DOMAIN g = WorkerFields
  BY HolderIs, Zenon
<1>2. Answered(w, answer) = h
  BY Zenon DEF Answered
<1>3. g.at = "idle"
  BY Zenon DEF ConversationInv, ExchangeInv, WorkerInv, Lane
<1> HIDE DEF a, q
<1>4. /\ DOMAIN h = WorkerFields /\ h.inbox = q /\ h.output = a /\ h.at = g.at
      /\ h.answer = g.answer /\ h.up = g.up /\ (h.astray <=> g.astray)
      /\ h.buffers = g.buffers /\ h.zeroed = g.zeroed
  BY <1>1, Zenon DEF WorkerFields
<1> HIDE DEF h
<1>5. Told(g, h)
  BY <1>3, <1>4, Zenon DEF Told, Serves, q
<1> QED  BY <1>2, <1>4, <1>5, Zenon DEF a

LEMMA AuthorizeStep ==
    ASSUME ConversationInv, NEW w \in Workers, Authorize(w)
    PROVE  ConversationInv'
<1>1. /\ workers[w].inbox # <<>>
      /\ Head(workers[w].inbox).method \in {"authorize", "reuse-authorize"}
  BY Zenon DEF Authorize, Asked
<1>2. /\ Head(workers[w].inbox).method # "cleanup"
      /\ Head(workers[w].inbox).method \notin Starting
  BY <1>1, Zenon DEF Starting
<1>3. PICK answer, x :
         /\ workers' = [workers EXCEPT ![w] = [Answered(w, answer) EXCEPT !.authorized = x]]
         /\ UNCHANGED <<coord, db, started>>
  BY Zenon DEF Authorize
<1> DEFINE g == Answered(w, answer)
           h == [g EXCEPT !.authorized = x]
<1>4. Told(workers[w], g)
  BY <1>1, <1>2, AnsweredIs, Zenon
<1> HIDE DEF g
<1>5. /\ DOMAIN h = WorkerFields /\ h.inbox = g.inbox /\ h.at = g.at
      /\ h.answer = g.answer /\ h.up = g.up /\ (h.astray <=> g.astray)
      /\ h.buffers = g.buffers /\ h.zeroed = g.zeroed
  BY <1>4, Zenon DEF WorkerFields, Told
<1>6. workers' = [workers EXCEPT ![w] = h]
  BY <1>3, Zenon DEF g
<1> HIDE DEF h
<1>7. /\ Answers(workers[w], h)
      /\ h.buffers \ h.zeroed \subseteq workers[w].buffers \ workers[w].zeroed
  BY <1>2, <1>4, <1>5, Zenon DEF Told, Serves, Answers
<1> QED  BY <1>3, <1>5, <1>6, <1>7, WorkerStep, Zenon

(* An answer that fails says that nothing was started.                     *)
LEMMA FailedIs ==
    ASSUME ConversationInv, NEW w \in Workers,
           workers[w].inbox # <<>>, Head(workers[w].inbox).method # "cleanup"
    PROVE  LET h == Answered(w, Failed)
           IN /\ DOMAIN h = WorkerFields /\ Answers(workers[w], h)
              /\ h.buffers = workers[w].buffers /\ h.zeroed = workers[w].zeroed
<1> DEFINE h == Answered(w, Failed)
           a == [Failed EXCEPT !.reply = TRUE]
<1>1. Told(workers[w], h) /\ h.output = a
  BY AnsweredIs, Zenon
<1>2. ~a.started
  BY Zenon DEF Failed, NoReply
<1> HIDE DEF h, a
<1> QED  BY <1>1, <1>2, Zenon DEF Told, Answers, h

LEMMA CallFailsStep ==
    ASSUME ConversationInv, NEW w \in Workers, CallFails(w)
    PROVE  ConversationInv'
<1>1. /\ workers[w].inbox # <<>>
      /\ Head(workers[w].inbox).method \in
            {"authorize", "start", "reuse-authorize", "reuse-start", "register"}
  BY Zenon DEF CallFails, Asked
<1>2. Head(workers[w].inbox).method # "cleanup"
  BY <1>1, Zenon
<1> DEFINE h == Answered(w, Failed)
<1>3. /\ DOMAIN h = WorkerFields /\ Answers(workers[w], h)
      /\ h.buffers = workers[w].buffers /\ h.zeroed = workers[w].zeroed
  BY <1>1, <1>2, FailedIs, Zenon
<1>4. workers' = [workers EXCEPT ![w] = h] /\ UNCHANGED <<coord, db, started>>
  BY Zenon DEF CallFails
<1> HIDE DEF h
<1> QED  BY <1>3, <1>4, WorkerStep, Zenon

LEMMA ReplyStep ==
    ASSUME ConversationInv, NEW w \in Workers, Reply(w)
    PROVE  ConversationInv'
<1> DEFINE g == workers[w]
           a == IF g.astray THEN NoReply ELSE g.output
           h == [g EXCEPT !.output = NoReply, !.answer = a]
<1>1. g.output.reply /\ UNCHANGED <<coord, db, started>>
  BY Zenon DEF Reply
<1>2. DOMAIN workers = Workers /\ DOMAIN g = WorkerFields
  BY HolderIs, Zenon DEF ConversationInv, ExchangeInv, WorkersShape
<1>3. workers' = [workers EXCEPT ![w].output = NoReply, ![w].answer = a]
  BY Zenon DEF Reply
<1> HIDE DEF a
<1>4. workers' = [workers EXCEPT ![w] = h]
  BY <1>2, <1>3, Zenon
<1>5. /\ DOMAIN h = WorkerFields /\ h.output = NoReply /\ h.answer = a /\ h.inbox = g.inbox
      /\ h.at = g.at /\ h.up = g.up /\ (h.astray <=> g.astray)
      /\ h.buffers = g.buffers /\ h.zeroed = g.zeroed
  BY <1>2, Zenon DEF WorkerFields
<1> HIDE DEF h
<1>6. Replies(g, h) /\ h.buffers \ h.zeroed \subseteq g.buffers \ g.zeroed
  BY <1>1, <1>5, Zenon DEF Replies, a
<1> QED  BY <1>1, <1>4, <1>5, <1>6, WorkerStep, Zenon

LEMMA WorkerDiesStep ==
    ASSUME ConversationInv, NEW w \in Workers, WorkerDies(w)
    PROVE  ConversationInv'
<1> DEFINE g == Spawned(workers[w].instance)
           h == [g EXCEPT !.up = "dead", !.answer = workers[w].answer]
<1>1. workers' = [workers EXCEPT ![w] = h] /\ UNCHANGED <<coord, db, started>>
  BY Zenon DEF WorkerDies
<1>2. /\ DOMAIN g = WorkerFields /\ g.inbox = <<>> /\ g.output = NoReply /\ ~g.astray
      /\ g.at = "idle" /\ g.buffers = {}
  BY SpawnedIs, ZenonT(60)
<1> HIDE DEF g
<1>3. /\ DOMAIN h = WorkerFields /\ h.inbox = <<>> /\ h.output = NoReply /\ ~h.astray
      /\ h.answer = workers[w].answer /\ h.at = "idle" /\ h.buffers = {}
  BY <1>2, Zenon DEF WorkerFields
<1> HIDE DEF h
<1>4. Dies(workers[w], h) /\ h.buffers \ h.zeroed \subseteq workers[w].buffers \ workers[w].zeroed
  BY <1>3, Zenon DEF Dies
<1> QED  BY <1>1, <1>3, <1>4, WorkerStep, Zenon

(* An action that starts is the exchange's own, is not recorded yet, and   *)
(* the reply says of it what is true.                                      *)
LEMMA StartIsOut ==
    ASSUME ConversationInv, NEW w \in Workers, Start(w)
    PROVE  /\ w = Out(coord).worker /\ started \subseteq Known(coord)
           /\ Out(coord).phase \in Starting /\ Out(coord).action \notin Known(coord)
           /\ Head(workers[w].inbox).action = Out(coord).action
<1> DEFINE g == workers[w]
<1>1. g.inbox # <<>> /\ Head(g.inbox).method \in Starting
  BY Zenon DEF Start, Asked, Starting
<1>2. WorkerInv(coord, g, w, started)
  BY Zenon DEF ConversationInv, ExchangeInv
<1>3. ~g.astray
  <2>1. Sequence(g.inbox) /\ (g.astray => NoStart(g.inbox))
    BY <1>2, Zenon DEF WorkerInv, Lane
  <2> QED  BY <1>1, <2>1, PopIs, Zenon
<1>4. /\ w = Out(coord).worker /\ started \subseteq Known(coord)
      /\ Head(g.inbox).method = Out(coord).phase /\ Head(g.inbox).action = Out(coord).action
  BY <1>1, <1>2, <1>3, AskedIsOut, Zenon
<1>5. Out(coord).phase \in Starting => Out(coord).action \notin Known(coord)
  BY Zenon DEF ConversationInv, ExchangeInv
<1> QED  BY <1>1, <1>4, <1>5, Zenon

LEMMA StartStep ==
    ASSUME ConversationInv, NEW w \in Workers, Start(w)
    PROVE  ConversationInv'
<1>1. workers[w].inbox # <<>> /\ Head(workers[w].inbox).method \in Starting
  BY Zenon DEF Start, Asked, Starting
<1>2. Head(workers[w].inbox).method # "cleanup"
  BY <1>1, Zenon DEF Starting
<1> DEFINE action == Head(workers[w].inbox).action
           ok == Holds(w) /\ action = workers[w].authorized
           starts == ok /\ Permitted(w)
           answer == [NoReply EXCEPT !.ok = ok, !.allowed = starts, !.started = starts]
           h == Answered(w, answer)
<1>3. /\ started' = IF starts THEN started \cup {action} ELSE started
      /\ workers' = [workers EXCEPT ![w] = h] /\ UNCHANGED <<coord, db>>
  BY Zenon DEF Start
<1>4. Told(workers[w], h) /\ h.output = [answer EXCEPT !.reply = TRUE]
  BY <1>1, <1>2, AnsweredIs, Zenon
<1>5. starts \in BOOLEAN
  BY Zenon DEF Holds, Permitted, Authorizes, Active
<1> HIDE DEF starts, ok
<1>6. [answer EXCEPT !.reply = TRUE].started = starts
  BY <1>5, Zenon DEF NoReply
<1> HIDE DEF h, answer
<1>7. /\ w = Out(coord).worker /\ started \subseteq Known(coord)
      /\ Out(coord).phase \in Starting /\ action = Out(coord).action
  BY StartIsOut, Zenon
<1> HIDE DEF action
<1>8. /\ started \subseteq started' /\ started' \subseteq Known(coord) \cup Underway(coord)
      /\ starts => action \in started'
      /\ ~starts => started' \subseteq Known(coord)
  BY <1>3, <1>7, Zenon DEF Underway
<1>9. WorkerInv(coord, h, w, started')
  <2>1. Tells(coord, h.output, started')
    BY <1>4, <1>6, <1>7, <1>8, Zenon DEF Tells
  <2>2. WorkerInv(coord, workers[w], w, started) /\ Serves(workers[w], h)
    BY <1>4, Zenon DEF ConversationInv, ExchangeInv, Told
  <2> QED  BY <2>1, <2>2, ServedIs, Zenon
<1>10. ExchangeInv(coord', workers', started')
  BY <1>3, <1>4, <1>7, <1>8, <1>9, WorkerMoves, Zenon DEF ConversationInv, Told
<1>11. DOMAIN workers = Workers /\ "holder" \in Workers
  BY Zenon DEF ConversationInv, ExchangeInv, WorkersShape, Workers
<1>12. workers'["holder"] = IF w = "holder" THEN h ELSE workers["holder"]
  BY <1>3, <1>11, Zenon
<1>13. DataInv(db', workers'["holder"])
  <2>1. h.buffers \ h.zeroed \subseteq workers[w].buffers \ workers[w].zeroed
    BY <1>4, Zenon DEF Told
  <2> QED  BY <1>3, <1>12, <2>1, BuffersShrink, ZenonT(60) DEF ConversationInv
<1> QED  BY <1>3, <1>10, <1>13, NextInv, Zenon DEF ConversationInv

(* A row that is inserted for data of the session that is open.            *)
LEMMA InsertedData ==
    ASSUME NEW d, NEW h, NEW g, NEW c, NEW n, DataInv(d, h), ClosedInv(c, d), NEW a \in Ids,
           Len(d.sessions) \in DOMAIN d.sessions, d.sessions[Len(d.sessions)] = "ACTIVE",
           \A b \in Ids \ {a} : b \in g.buffers \ g.zeroed => b \in h.buffers \ h.zeroed
    PROVE  LET e == [d EXCEPT !.artifacts[a] =
                        [state |-> "ACTIVE", session |-> Len(d.sessions), instance |-> n]]
           IN DataInv(e, g) /\ ClosedInv(c, e)
<1> DEFINE row == [state |-> "ACTIVE", session |-> Len(d.sessions), instance |-> n]
           e == [d EXCEPT !.artifacts[a] = row]
<1>1. DatabaseShape(d) /\ Len(d.sessions) \in Nat /\ Len(d.sessions) # 0
  BY DEF DataInv, DatabaseShape
<1>2. /\ DOMAIN row = {"state", "session", "instance"} /\ row.state = "ACTIVE"
      /\ row.session = Len(d.sessions)
  OBVIOUS
<1> HIDE DEF row
<1>3. /\ DOMAIN e = DOMAIN d /\ e.sessions = d.sessions
      /\ e.artifacts = [d.artifacts EXCEPT ![a] = row]
  BY <1>1, Zenon DEF DatabaseShape
<1> HIDE DEF e
<1>4. /\ DOMAIN e.artifacts = Ids /\ e.artifacts[a] = row
      /\ \A b \in Ids \ {a} : e.artifacts[b] = d.artifacts[b]
  BY <1>1, <1>3, Zenon DEF DatabaseShape
<1>5. Len(d.sessions) \in 0..Len(d.sessions)
  BY <1>1
<1>6. DatabaseShape(e)
  BY <1>1, <1>2, <1>3, <1>4, <1>5, Zenon DEF DatabaseShape
<1>7. ASSUME NEW b \in Ids
      PROVE  /\ e.artifacts[b].session # 0 =>
                   /\ e.sessions[e.artifacts[b].session] # "GONE"
                   /\ e.sessions[e.artifacts[b].session] = "CLOSED" =>
                         e.artifacts[b].state = "DELETED"
             /\ e.artifacts[b].state = "DELETED" => b \notin g.buffers \ g.zeroed
  <2>1. CASE b = a
    <3>1. "ACTIVE" # "GONE" /\ "ACTIVE" # "CLOSED" /\ "ACTIVE" # "DELETED"
      OBVIOUS
    <3> QED  BY <1>2, <1>3, <1>4, <2>1, <3>1, Zenon
  <2>2. CASE b # a
    BY <1>3, <1>4, <2>2, ZenonT(60) DEF DataInv
  <2> QED  BY <2>1, <2>2, Zenon
<1>8. DataInv(e, g) /\ ClosedInv(c, e)
  BY <1>3, <1>6, <1>7, Zenon DEF DataInv, ClosedInv
<1> QED  BY <1>8, Zenon DEF e, row

LEMMA RegisterDataStep ==
    ASSUME ConversationInv, RegisterData
    PROVE  ConversationInv'
<1> DEFINE h == workers["holder"]
           failed == Answered("holder", Failed)
           Inserted(a) == [db EXCEPT !.artifacts[a] = [state |-> "ACTIVE",
                              session |-> Len(db.sessions), instance |-> h.instance]]
           stored(a) == [Answered("holder", [NoReply EXCEPT !.ok = TRUE, !.artifact = a])
                            EXCEPT !.buffers = @ \cup {a}]
<1>1. h.inbox # <<>> /\ Head(h.inbox).method = "register"
  BY Zenon DEF RegisterData, Asked
<1>2. /\ h.inbox # <<>> /\ Head(h.inbox).method # "cleanup" /\ Head(h.inbox).method \notin Starting
      /\ "holder" \in Workers
  BY <1>1, HolderIs, Zenon DEF Starting
<1>3. /\ DOMAIN failed = WorkerFields /\ Answers(h, failed)
      /\ failed.buffers = h.buffers /\ failed.zeroed = h.zeroed
  BY <1>2, FailedIs, Zenon
<1>4. CASE workers' = [workers EXCEPT !["holder"] = failed] /\ UNCHANGED <<coord, db, started>>
  <2> HIDE DEF failed
  <2> QED  BY <1>2, <1>3, <1>4, WorkerStep, Zenon
<1>5. ASSUME NEW a \in Ids, NEW g, workers' = [workers EXCEPT !["holder"] = g],
             Authorizes(db), db' = Inserted(a), UNCHANGED <<coord, started>>,
             DOMAIN g = WorkerFields, Answers(h, g),
             \A b \in Ids \ {a} : b \in g.buffers \ g.zeroed => b \in h.buffers \ h.zeroed
      PROVE  ConversationInv'
  <2>1. ExchangeInv(coord', workers', started')
    BY <1>2, <1>5, WorkerTurns, Zenon DEF ConversationInv
  <2>2. Len(db.sessions) \in DOMAIN db.sessions /\ db.sessions[Len(db.sessions)] = "ACTIVE"
    BY <1>5, Zenon DEF Authorizes, Active
  <2>3. DataInv(db', g) /\ ClosedInv(coord, db')
    BY <1>5, <2>2, InsertedData, Zenon DEF ConversationInv
  <2>4. workers'["holder"] = g
    BY <1>2, <1>5, Zenon DEF ConversationInv, ExchangeInv, WorkersShape
  <2> QED  BY <1>5, <2>1, <2>3, <2>4, NextInv, Zenon
<1>6. ASSUME NEW a \in Ids
      PROVE  /\ DOMAIN stored(a) = WorkerFields /\ Answers(h, stored(a))
             /\ \A b \in Ids \ {a} : b \in stored(a).buffers \ stored(a).zeroed =>
                                        b \in h.buffers \ h.zeroed
  <2> DEFINE g == Answered("holder", [NoReply EXCEPT !.ok = TRUE, !.artifact = a])
             k == [g EXCEPT !.buffers = g.buffers \cup {a}]
  <2>1. DOMAIN g = WorkerFields /\ Serves(h, g) /\ g.buffers = h.buffers /\ g.zeroed = h.zeroed
    BY <1>2, AnsweredIs, Zenon DEF Told
  <2>2. stored(a) = k
    BY Zenon
  <2> HIDE DEF g
  <2>3. /\ DOMAIN k = WorkerFields /\ k.inbox = g.inbox /\ k.at = g.at
        /\ k.answer = g.answer /\ k.up = g.up /\ (k.astray <=> g.astray)
        /\ k.buffers = g.buffers \cup {a} /\ k.zeroed = g.zeroed
    BY <2>1, Zenon DEF WorkerFields
  <2> HIDE DEF k
  <2>4. /\ Answers(h, k)
        /\ \A b \in Ids \ {a} : b \in k.buffers \ k.zeroed => b \in h.buffers \ h.zeroed
    BY <1>2, <2>1, <2>3, Zenon DEF Answers, Serves
  <2> QED  BY <2>2, <2>3, <2>4, Zenon
<1>7. \/ workers' = [workers EXCEPT !["holder"] = failed] /\ UNCHANGED <<coord, db, started>>
      \/ /\ Authorizes(db) /\ UNCHANGED <<coord, started>>
         /\ \E a \in Ids : /\ db' = Inserted(a)
                           /\ \/ workers' = [workers EXCEPT !["holder"] = stored(a)]
                              \/ workers' = [workers EXCEPT !["holder"] = failed]
  BY Zenon DEF RegisterData, Free
<1> HIDE DEF failed, stored, Inserted
<1> QED  BY <1>3, <1>4, <1>5, <1>6, <1>7, Zenon

(* The sweep: it is about a request to clean up, and only ever wipes.      *)
Cleans(h) == h.inbox # <<>> /\ Head(h.inbox).method = "cleanup"

LEMMA SweepIsAsked ==
    ASSUME ConversationInv, workers["holder"].at # "idle"
    PROVE  Cleans(workers["holder"])
BY HolderIs, Zenon DEF ConversationInv, ExchangeInv, WorkerInv, Lane, Cleans

Kept(h, g) ==
    /\ DOMAIN g = WorkerFields /\ g.inbox = h.inbox /\ g.output = h.output
    /\ g.answer = h.answer /\ g.up = h.up /\ (g.astray <=> h.astray)
    /\ g.buffers = h.buffers /\ g.zeroed = h.zeroed
Continues(h, g) ==
    DOMAIN g = WorkerFields /\ GoesOn(h, g) /\ g.buffers = h.buffers /\ g.zeroed = h.zeroed
Ends(h, g) ==
    DOMAIN g = WorkerFields /\ Answers(h, g) /\ g.buffers = h.buffers /\ g.zeroed = h.zeroed

LEMMA KeptContinues ==
    ASSUME NEW h, NEW g, Cleans(h), Kept(h, g)
    PROVE  Continues(h, g)
BY Zenon DEF Cleans, Kept, Continues, GoesOn

LEMMA SweepAnswersIs ==
    ASSUME NEW h, NEW ok, NEW more, NEW count, DOMAIN h = WorkerFields, Cleans(h)
    PROVE  Ends(h, SweepAnswers(h, ok, more, count))
<1> DEFINE a == [NoReply EXCEPT !.reply = TRUE, !.ok = ok, !.more = more, !.count = count]
           q == Tail(h.inbox)
           g == [h EXCEPT !.at = "idle", !.inbox = q, !.page = <<>>, !.more = FALSE,
                          !.next = NoCursor, !.pages = 0, !.ok = FALSE, !.output = a]
<1>1. SweepAnswers(h, ok, more, count) = g
  BY Zenon DEF SweepAnswers
<1> HIDE DEF a, q
<1>2. /\ DOMAIN g = WorkerFields /\ g.inbox = q /\ g.at = "idle"
      /\ g.answer = h.answer /\ g.up = h.up /\ (g.astray <=> h.astray)
      /\ g.buffers = h.buffers /\ g.zeroed = h.zeroed
  BY Zenon DEF WorkerFields
<1>3. h.inbox # <<>> /\ Head(h.inbox).method \notin Starting
  BY Zenon DEF Cleans, Starting
<1> HIDE DEF g
<1> QED  BY <1>1, <1>2, <1>3, Zenon DEF Answers, Serves, Ends, q

LEMMA SweepReturnsIs ==
    ASSUME NEW h, NEW ok, DOMAIN h = WorkerFields, Cleans(h)
    PROVE  Continues(h, SweepReturns(h, ok))
<1> DEFINE g == SweepReturns(h, ok)
<1>1. Kept(h, g)
  BY Zenon DEF SweepReturns, WorkerFields, Kept
<1> HIDE DEF g
<1> QED  BY <1>1, KeptContinues, Zenon DEF g

LEMMA SweepStep ==
    ASSUME ConversationInv, Sweep
    PROVE  ConversationInv'
<1> DEFINE h == workers["holder"]
           p == IF h.progress.finished THEN [Fresh EXCEPT !.finished = FALSE] ELSE h.progress
           g == [h EXCEPT !.at = "fetch", !.pages = 0, !.progress = p]
<1>1. /\ Cleans(h) /\ workers' = [workers EXCEPT !["holder"] = g]
      /\ UNCHANGED <<coord, db, started>>
  BY Zenon DEF Sweep, Asked, Holder, Cleans
<1>2. "holder" \in Workers /\ DOMAIN h = WorkerFields
  BY HolderIs, Zenon
<1> HIDE DEF p
<1>3. Kept(h, g)
  BY <1>1, <1>2, Zenon DEF WorkerFields, Kept
<1> HIDE DEF g
<1>4. Continues(h, g)
  BY <1>1, <1>3, KeptContinues, Zenon
<1> QED  BY <1>1, <1>2, <1>4, WorkerStep, Zenon DEF Continues

LEMMA SweepFetchStep ==
    ASSUME ConversationInv, SweepFetch
    PROVE  ConversationInv'
<1> DEFINE h == workers["holder"]
           q == CleanupList(db, h.instance, h.progress.cursor)
           f == [h EXCEPT !.at = "clean", !.page = q.rows, !.more = q.more,
                          !.pages = @ + 1, !.next = q.next]
           r == SweepReturns(h, FALSE)
<1>1. /\ h.at = "fetch" /\ UNCHANGED <<coord, db, started>>
      /\ \/ workers' = [workers EXCEPT !["holder"] = f]
         \/ workers' = [workers EXCEPT !["holder"] = r]
  BY Zenon DEF SweepFetch, Sweeping, Holder
<1>2. "holder" \in Workers /\ DOMAIN h = WorkerFields /\ Cleans(h)
  <2>1. h.at # "idle"
    BY <1>1, Zenon
  <2> QED  BY <2>1, HolderIs, SweepIsAsked, Zenon
<1> HIDE DEF q
<1>3. Kept(h, f)
  BY <1>2, Zenon DEF WorkerFields, Kept
<1>4. Continues(h, r)
  BY <1>2, SweepReturnsIs, Zenon
<1> HIDE DEF f, r
<1>5. Continues(h, f)
  BY <1>2, <1>3, KeptContinues, Zenon
<1> QED  BY <1>1, <1>2, <1>4, <1>5, WorkerStep, Zenon DEF Continues

LEMMA SweepListStep ==
    ASSUME ConversationInv, SweepList
    PROVE  ConversationInv'
<1> DEFINE h == workers["holder"]
<1>1. PICK ok, more, count :
         /\ h.at = "list" /\ UNCHANGED <<coord, db, started>>
         /\ workers' = [workers EXCEPT !["holder"] = SweepAnswers(h, ok, more, count)]
  BY Zenon DEF SweepList, Sweeping, Holder
<1> DEFINE g == SweepAnswers(h, ok, more, count)
<1>2. "holder" \in Workers /\ DOMAIN h = WorkerFields /\ Cleans(h)
  <2>1. h.at # "idle"
    BY <1>1, Zenon
  <2> QED  BY <2>1, HolderIs, SweepIsAsked, Zenon
<1>3. Ends(h, g)
  BY <1>2, SweepAnswersIs, Zenon
<1>4. workers' = [workers EXCEPT !["holder"] = g]
  BY <1>1, Zenon
<1> HIDE DEF g
<1> QED  BY <1>1, <1>2, <1>3, <1>4, WorkerStep, Zenon DEF Ends

LEMMA SweepPageStep ==
    ASSUME ConversationInv, SweepPage
    PROVE  ConversationInv'
<1> DEFINE h == workers["holder"]
           over == [h EXCEPT !.progress.cursor = NoCursor, !.progress.finished = TRUE]
           further == [h EXCEPT !.progress.cursor = h.next]
           returned == SweepReturns(over, ~h.progress.failure)
           paused == SweepAnswers(further, TRUE, TRUE, 0)
           next == [further EXCEPT !.at = "fetch"]
<1>1. /\ h.at = "clean" /\ UNCHANGED <<coord, db, started>>
      /\ \E g \in {returned, paused, next} : workers' = [workers EXCEPT !["holder"] = g]
  BY Zenon DEF SweepPage, Sweeping, Holder
<1>2. "holder" \in Workers /\ DOMAIN h = WorkerFields /\ Cleans(h)
  <2>1. h.at # "idle"
    BY <1>1, Zenon
  <2> QED  BY <2>1, HolderIs, SweepIsAsked, Zenon
<1>3. Kept(h, over)
  BY <1>2, Zenon DEF WorkerFields, Kept
<1>4. Kept(h, further)
  BY <1>2, Zenon DEF WorkerFields, Kept
<1> HIDE DEF over, further
<1>5. Continues(h, returned)
  <2>1. DOMAIN over = WorkerFields /\ Cleans(over)
    BY <1>2, <1>3, Zenon DEF Kept, Cleans
  <2>2. Continues(over, returned)
    BY <2>1, SweepReturnsIs, Zenon
  <2> HIDE DEF returned
  <2> QED  BY <1>2, <1>3, <2>2, Zenon DEF Continues, GoesOn, Kept
<1>6. Ends(h, paused)
  <2>1. DOMAIN further = WorkerFields /\ Cleans(further)
    BY <1>2, <1>4, Zenon DEF Kept, Cleans
  <2>2. Ends(further, paused)
    BY <2>1, SweepAnswersIs, Zenon
  <2> HIDE DEF paused
  <2> QED  BY <1>4, <2>2, Zenon DEF Ends, Answers, Serves, Kept
<1>7. Continues(h, next)
  <2>1. Kept(h, next)
    BY <1>4, Zenon DEF WorkerFields, Kept
  <2> HIDE DEF next
  <2> QED  BY <1>2, <2>1, KeptContinues, Zenon
<1> HIDE DEF returned, paused, next
<1>8. \A g \in {returned, paused, next} :
         /\ DOMAIN g = WorkerFields
         /\ GoesOn(h, g) \/ Answers(h, g)
         /\ g.buffers \ g.zeroed \subseteq h.buffers \ h.zeroed
  BY <1>5, <1>6, <1>7, Zenon DEF Continues, Ends
<1> QED  BY <1>1, <1>2, <1>8, WorkerStep, Zenon

(* An entry is wiped before its deletion is acknowledged.                  *)
LEMMA SweepCleanStep ==
    ASSUME ConversationInv, SweepClean
    PROVE  ConversationInv'
<1> DEFINE h == workers["holder"]
           a == Head(h.page)
           resident == a \in h.buffers
           refused == \/ db.artifacts[a].state = "NONE"
                      \/ ~resident /\ db.artifacts[a].state = "DELETED"
           wiped == [h EXCEPT !.page = Tail(@), !.zeroed = IF resident THEN @ \cup {a} ELSE @]
           failing == [wiped EXCEPT !.progress.failure = TRUE]
           cleaned == [wiped EXCEPT !.buffers = @ \ {a}, !.zeroed = @ \ {a}]
<1>1. /\ h.at = "clean" /\ UNCHANGED <<coord, started>>
      /\ \/ /\ ~refused /\ db' = CleanupAck(db, a, resident)
            /\ workers' = [workers EXCEPT !["holder"] = IF resident THEN cleaned ELSE failing]
         \/ /\ db' = db /\ workers' = [workers EXCEPT !["holder"] = failing]
         \/ /\ ~refused /\ db' = CleanupAck(db, a, resident)
            /\ workers' = [workers EXCEPT !["holder"] = failing]
  BY Zenon DEF SweepClean, Sweeping, Holder
<1>2. "holder" \in Workers /\ DOMAIN h = WorkerFields /\ Cleans(h)
  <2>1. h.at # "idle"
    BY <1>1, Zenon
  <2> QED  BY <2>1, HolderIs, SweepIsAsked, Zenon
<1>3. ~resident /\ ~refused => db.artifacts[a].state # "DELETED"
  BY Zenon
<1> HIDE DEF a, refused
<1>4. /\ DOMAIN wiped = WorkerFields /\ GoesOn(h, wiped) /\ wiped.buffers = h.buffers
      /\ wiped.zeroed = IF resident THEN h.zeroed \cup {a} ELSE h.zeroed
  BY <1>2, Zenon DEF WorkerFields, GoesOn, Cleans
<1> HIDE DEF wiped
<1>5. /\ DOMAIN failing = WorkerFields /\ GoesOn(h, failing) /\ failing.buffers = h.buffers
      /\ failing.zeroed = IF resident THEN h.zeroed \cup {a} ELSE h.zeroed
  BY <1>4, Zenon DEF WorkerFields, GoesOn
<1>6. /\ DOMAIN cleaned = WorkerFields /\ GoesOn(h, cleaned) /\ cleaned.buffers = h.buffers \ {a}
      /\ cleaned.zeroed = (IF resident THEN h.zeroed \cup {a} ELSE h.zeroed) \ {a}
  BY <1>4, Zenon DEF WorkerFields, GoesOn
<1> HIDE DEF failing, cleaned
<1>7. ASSUME NEW g \in {failing, cleaned}
      PROVE  /\ DOMAIN g = WorkerFields /\ GoesOn(h, g)
             /\ g.buffers \ g.zeroed \subseteq h.buffers \ h.zeroed
             /\ a \notin g.buffers \ g.zeroed
  <2>1. CASE g = failing
    BY <1>2, <1>5, <2>1, Zenon
  <2>2. CASE g = cleaned
    BY <1>2, <1>6, <2>2, Zenon
  <2> QED  BY <2>1, <2>2, Zenon
<1>8. ASSUME NEW g \in {failing, cleaned}, workers' = [workers EXCEPT !["holder"] = g],
             DataInv(db', g), ClosedInv(coord, db')
      PROVE  ConversationInv'
  <2>1. ExchangeInv(coord', workers', started')
    BY <1>1, <1>2, <1>7, <1>8, WorkerTurns, Zenon DEF ConversationInv
  <2>2. workers'["holder"] = g
    BY <1>2, <1>8, Zenon DEF ConversationInv, ExchangeInv, WorkersShape
  <2> QED  BY <1>1, <1>8, <2>1, <2>2, NextInv, Zenon
<1>9. CASE ~refused /\ db' = CleanupAck(db, a, resident)
  <2>1. PICK g \in {failing, cleaned} : workers' = [workers EXCEPT !["holder"] = g]
    BY <1>1, Zenon
  <2>2. resident \in BOOLEAN /\ DatabaseShape(db)
    <3>1. resident \in BOOLEAN
      OBVIOUS
    <3> QED  BY <3>1, Zenon DEF ConversationInv, DataInv
  <2>3. g.buffers \ g.zeroed \subseteq h.buffers \ h.zeroed /\ a \notin g.buffers \ g.zeroed
    BY <1>7, Zenon
  <2>4. Moved(db, db', g)
    <3>1. /\ resident => a \notin g.buffers \ g.zeroed
          /\ ~resident /\ a \in Ids => db.artifacts[a].state # "DELETED"
      BY <1>3, <1>9, <2>3, Zenon
    <3> HIDE DEF resident
    <3>2. Moved(db, CleanupAck(db, a, resident), g)
      BY <2>2, <3>1, AckMoves, Zenon
    <3> QED  BY <1>9, <3>2, Zenon
  <2>5. DataInv(db', g) /\ ClosedInv(coord, db')
    BY <2>3, <2>4, DataMoves, Zenon DEF ConversationInv
  <2> QED  BY <1>8, <2>1, <2>5, Zenon
<1>10. CASE db' = db /\ workers' = [workers EXCEPT !["holder"] = failing]
  <2>1. DataInv(db', failing) /\ ClosedInv(coord, db')
    BY <1>7, <1>10, BuffersShrink, Zenon DEF ConversationInv
  <2> QED  BY <1>8, <1>10, <2>1, Zenon
<1> QED  BY <1>1, <1>9, <1>10, Zenon

-----------------------------------------------------------------------------
(* The invariant holds of the initial state and is kept by every step.     *)
LEMMA InitInv ==
    ASSUME Init
    PROVE  ConversationInv
<1> DEFINE n == NoJob
           r == NoRetired
           g == Spawned(1)
           A == [a \in Ids |-> NoArtifact]
<1>1. /\ coord = [session |-> 0, failed |-> FALSE, revision |-> 1, selected |-> {},
                  artifact |-> 0, job |-> n, retired |-> r, ops |-> 0,
                  counted |-> {}, uncertain |-> {}, closed |-> {}, reason |-> ""]
      /\ workers = [w \in Workers |-> g] /\ started = {}
      /\ db = [incarnation |-> 1, sessions |-> <<>>, consent |-> TRUE, artifacts |-> A]
  BY Zenon DEF Init
<1>2. DOMAIN n = JobFields /\ n.kind = "none" /\ n.phase = ""
  BY NoJobIs, Zenon
<1>3. /\ DOMAIN g = WorkerFields /\ Lane(g) /\ Quiet(g) /\ g.buffers = {}
  BY SpawnedIs, ZenonT(60)
<1>4. /\ DOMAIN A = Ids
      /\ \A a \in Ids : /\ DOMAIN A[a] = {"state", "session", "instance"}
                        /\ A[a].session = 0 /\ A[a].state # "DELETED"
  BY Zenon DEF NoArtifact
<1> HIDE DEF n, r, g, A
<1>5. /\ DOMAIN coord = CoordFields /\ coord.job = n /\ coord.retired = r /\ coord.session = 0
      /\ coord.closed = {} /\ coord.counted = {} /\ coord.uncertain = {}
      /\ coord.ops = 0
  BY <1>1, Zenon DEF CoordFields
<1>6. /\ DOMAIN db = {"incarnation", "sessions", "consent", "artifacts"}
      /\ db.sessions = <<>> /\ db.artifacts = A
  BY <1>1, Zenon
<1>7. "" \in Phases /\ "" # "cleanup"
  BY Zenon DEF Phases
<1>8. CoordInv(coord)
  BY <1>2, <1>5, <1>7, Zenon DEF CoordInv, CoordShape, r
<1>9. WorkersShape(workers) /\ \A w \in Workers : Lane(workers[w]) /\ Quiet(workers[w])
  BY <1>1, <1>3, Zenon DEF WorkersShape
<1>10. ExchangeInv(coord, workers, started)
  <2>1. coord.ops \in Nat /\ Known(coord) = {}
    BY <1>5 DEF Known
  <2>2. r.phase \notin Starting
    BY Zenon DEF NoRetired, Starting, r
  <2>3. Numbered(coord)
    BY <1>2, <1>5, <2>1, <2>2, Zenon DEF Numbered, Begun
  <2>4. Resting(coord, workers, started)
    BY <1>1, <1>5, <1>8, <1>9, <2>1, <2>3, Zenon DEF Resting
  <2>5. Steady(coord, workers)
    BY <1>2, <1>5, NothingIsSteady, Zenon DEF Out, r
  <2> QED  BY <2>4, <2>5, RestingSettles, Zenon
<1>11. <<>> \in Seq(States) /\ Len(<<>>) = 0 /\ 0 \in 0..0
  OBVIOUS
<1>12. DatabaseShape(db)
  BY <1>4, <1>6, <1>11, Zenon DEF DatabaseShape
<1>13. DataInv(db, workers["holder"])
  BY <1>4, <1>6, <1>12, Zenon DEF DataInv
<1>14. ClosedInv(coord, db)
  BY <1>5, <1>6, <1>11, Zenon DEF ClosedInv
<1> QED  BY <1>10, <1>13, <1>14, Zenon DEF ConversationInv

LEMMA StepInv ==
    ASSUME ConversationInv, [Next]_vars
    PROVE  ConversationInv'
<1>1. CASE Commands
  <2>1. Preapprove \/ (\E t \in Tasks : Task(t)) =>
           \E kind \in {"preapprove", "task"}, task \in Tasks \cup {""} : StartRequest(kind, task)
    BY Zenon DEF Preapprove, Task
  <2> QED  BY <1>1, <2>1, SelectStep, StartRequestStep, CloseStep, Zenon DEF Commands
<1>2. CASE Pump
  BY <1>2, WorkerResultStep, DrainRetiredStep, Zenon DEF Pump
<1>3. CASE Deadlines
  BY <1>3, RetiredDeadlineStep, JobExpiresStep, SelectionExpiresStep, HeartbeatFailsStep, Zenon
     DEF Deadlines
<1>4. CASE \E w \in Workers : Serve(w)
  BY <1>4, AuthorizeStep, StartStep, ReplyStep, Zenon DEF Serve
<1>5. CASE Hold
  BY <1>5, RegisterDataStep, SweepStep, SweepFetchStep, SweepCleanStep, SweepPageStep,
     SweepListStep, Zenon DEF Hold
<1>6. CASE Outside
  BY <1>6, RequestDoneStep, DaemonStep, SessionLostStep, CallFailsStep, WorkerDiesStep, Zenon
     DEF Outside
<1>7. CASE UNCHANGED vars
  <2>1. UNCHANGED <<coord, workers, db, started>>
    BY <1>7, Zenon DEF vars
  <2> QED  BY <2>1, NextInv, Zenon DEF ConversationInv
<1> QED  BY <1>1, <1>2, <1>3, <1>4, <1>5, <1>6, <1>7, Zenon DEF Next

(* At every moment at most one request of the coordinator is outstanding,  *)
(* with the worker it waits for or will drain; what was started is         *)
(* recorded, or is the action of that request; a worker whose replies are  *)
(* out of step is never asked to start anything.  What the daemon calls    *)
(* closed is deleted and what it calls deleted is wiped (SendWorker,       *)
(* Cancel, HandleWorkerResult, RetiredResult).                             *)
THEOREM ConversationInvariance == Spec => []ConversationInv
<1>1. Init => ConversationInv
  BY InitInv, Zenon
<1>2. ConversationInv /\ [Next]_vars => ConversationInv'
  BY StepInv, Zenon
<1> QED  BY <1>1, <1>2, PTL DEF Spec

(* Once the coordinator reports a conversation closed, every artifact of   *)
(* it is acknowledged as deleted and no worker holds its data, whatever    *)
(* was cancelled, lost, late or restarted, and however many conversations, *)
(* artifacts and pages there are (HandleWorkerResult on a cleanup).        *)
THEOREM ClosedIsErased == Spec => []ClosedMeansErased
<1>1. ConversationInv => ClosedMeansErased
  <2> SUFFICES ASSUME ConversationInv, NEW a \in Ids, db.artifacts[a].session \in coord.closed
               PROVE  /\ db.artifacts[a].state = "DELETED"
                      /\ a \notin workers["holder"].buffers \ workers["holder"].zeroed
    BY Zenon DEF ClosedMeansErased
  <2> DEFINE s == db.artifacts[a].session
  <2>1. s \in 1..Len(db.sessions) /\ db.sessions[s] \in {"CLOSED", "GONE"}
    BY Zenon DEF ConversationInv, ClosedInv
  <2>2. s # 0
    BY <2>1
  <2>3. db.sessions[s] # "GONE" /\ (db.sessions[s] = "CLOSED" => db.artifacts[a].state = "DELETED")
    BY <2>2, Zenon DEF ConversationInv, DataInv
  <2>4. db.artifacts[a].state = "DELETED"
    BY <2>1, <2>3, Zenon
  <2> QED  BY <2>4, Zenon DEF ConversationInv, DataInv
<1> QED  BY <1>1, ConversationInvariance, PTL

(* What is counted was performed, and when the coordinator is at rest each *)
(* action a worker performed is counted or recorded as uncertain, in every *)
(* interleaving of cancelled, expired and failed jobs with workers that    *)
(* answer late, die or are killed after they acted, and with replies that  *)
(* are never read (RecordCompletion, Retire, RetiredResult).               *)
THEOREM ActionsAreAccountedFor == Spec => []ActionsAreAccounted
<1>1. ConversationInv => ActionsAreAccounted
  <2> SUFFICES ASSUME ConversationInv
               PROVE  ActionsAreAccounted
    OBVIOUS
  <2>1. coord.counted \subseteq started
    BY Zenon DEF ConversationInv, ExchangeInv
  <2>2. ASSUME coord.job = NoJob, coord.retired = NoRetired
        PROVE  started \subseteq coord.counted \cup coord.uncertain
    <3>1. Out(coord) = NoRetired
      BY <2>2, NoJobIs, Zenon DEF Out
    <3>2. Resting(coord, workers, started)
      BY <3>1, AtRest, Zenon DEF ConversationInv
    <3> QED  BY <3>2, Zenon DEF Resting, Known
  <2> QED  BY <2>1, <2>2, Zenon DEF ActionsAreAccounted
<1> QED  BY <1>1, ConversationInvariance, PTL

(* Only a worker's start performs an action: no other step changes what is *)
(* started.                                                                *)
LEMMA OnlyStartStarts ==
    ASSUME [Next]_vars
    PROVE  (\E w \in Workers : Start(w)) \/ started' = started
<1>1. CASE Commands
  BY <1>1, Zenon DEF Commands, Select, Preapprove, Task, StartRequest, Close
<1>2. CASE Pump
  BY <1>2, Zenon DEF Pump, WorkerResult, DrainRetired
<1>3. CASE Deadlines
  BY <1>3, Zenon DEF Deadlines, RetiredDeadline, JobExpires, SelectionExpires, HeartbeatFails
<1>4. CASE \E w \in Workers : Serve(w)
  BY <1>4, Zenon DEF Serve, Authorize, Reply
<1>5. CASE Hold
  BY <1>5, Zenon DEF Hold, RegisterData, Sweep, SweepFetch, SweepClean, SweepPage, SweepList
<1>6. CASE Outside
  BY <1>6, Zenon DEF Outside, RequestDone, Revoke, SessionLost, Recreate, Expire, CallFails,
     WorkerDies
<1>7. CASE UNCHANGED vars
  BY <1>7, Zenon DEF vars
<1> QED  BY <1>1, <1>2, <1>3, <1>4, <1>5, <1>6, <1>7, Zenon DEF Next

(* An action that is counted or given up as uncertain is never performed   *)
(* afterwards, by the worker that did not answer in time or by another,    *)
(* however requests, replies, deaths and deadlines interleave              *)
(* (RetiredResult, Pump, SendWorker).                                      *)
THEOREM RecordsStayFinal == Spec => RecordsAreFinal
<1>1. ConversationInv /\ [Next]_vars =>
         [(started' \ started) \cap (coord.counted \cup coord.uncertain) = {}]_vars
  <2> SUFFICES ASSUME ConversationInv, [Next]_vars
               PROVE  (started' \ started) \cap (coord.counted \cup coord.uncertain) = {}
    BY Zenon
  <2>1. CASE started' = started
    BY <2>1, Zenon
  <2>2. CASE \E w \in Workers : Start(w)
    <3>1. PICK w \in Workers : Start(w)
      BY <2>2, Zenon
    <3>2. Head(workers[w].inbox).action \notin Known(coord)
      BY <3>1, StartIsOut, Zenon
    <3>3. started' \subseteq started \cup {Head(workers[w].inbox).action}
      BY <3>1, Zenon DEF Start
    <3> QED  BY <3>2, <3>3, Zenon DEF Known
  <2> QED  BY <2>1, <2>2, OnlyStartStarts, Zenon
<1> QED  BY <1>1, ConversationInvariance, PTL DEF Spec, RecordsAreFinal
=============================================================================
