------------------------------- MODULE Client -------------------------------
(***************************************************************************)
(* The client library: per handle an I/O thread with a wake and a deadline *)
(* source, the operations callers started, and the cache of decisions.     *)
(* Callers on other threads start operations, wait, detach and close while *)
(* the I/O thread works; a mutex makes each of their steps atomic.         *)
(*                                                                         *)
(* Requests are alike, so a handle's cache holds at most one decision: the *)
(* stamp it came with.                                                     *)
(***************************************************************************)
EXTENDS Protocol, FiniteSets, SequencesExt

CONSTANTS
    Asynchronous,  \* operations started with a callback
    MaxPending,    \* kMaxPending
    MaxFrames,     \* kMaxOutputBytes, in frames
    MaxStarted     \* bound on the operations of one behaviour

VARIABLES
    link,  \* the connections, shared with the daemon
    cl,    \* the State of each handle
    op,    \* the operations
    budget \* what is left of the bounds, shared with the daemon

Idle == [busy |-> FALSE, ops |-> {}]

Handle == [phase: {"new", "hello", "live", "closed"},
           disconnected: BOOLEAN, synced: BOOLEAN, stamp: Stamp, cache: Stamp,
           stopping: BOOLEAN, retired: BOOLEAN, wake: BOOLEAN, armed: SUBSET Ops,
           pump: [busy: BOOLEAN, ops: SUBSET Ops],
           output: Seq([op: Ops, poll: BOOLEAN, started: BOOLEAN]), wire: SUBSET Ops]
NewHandle == [phase |-> "new", disconnected |-> FALSE, synced |-> FALSE, stamp |-> NoStamp,
              cache |-> NoStamp, stopping |-> FALSE, retired |-> FALSE, wake |-> FALSE,
              armed |-> {}, pump |-> Idle, output |-> <<>>, wire |-> {}]

Operation == [at: {"new", "open", "done"}, status: Statuses,
              sent: BOOLEAN, accepted: BOOLEAN, remote: BOOLEAN,
              posted: BOOLEAN, detached: BOOLEAN]
NewOperation == [at |-> "new", status |-> "NONE", sent |-> FALSE, accepted |-> FALSE,
                 remote |-> FALSE, posted |-> FALSE, detached |-> FALSE]

TypeOK == cl \in [Clients -> Handle] /\ op \in [Ops -> Operation]

Init ==
    /\ cl = [c \in Clients |-> NewHandle]
    /\ op = [o \in Ops |-> NewOperation]

OpsOf(c) == {o \in Ops : Owner[o] = c}
Bounded == Cardinality({o \in Ops : op[o].at # "new"}) < MaxStarted
Open(ops, c) == {o \in OpsOf(c) : ops[o].at = "open"}

-----------------------------------------------------------------------------
(* Steps on one handle, its operations and its socket.                     *)
View(c) == [cl |-> cl[c], op |-> op, link |-> link[c]]

Update(c, k) ==
    /\ cl' = [cl EXCEPT ![c] = k.cl]
    /\ op' = k.op
    /\ link' = [link EXCEPT ![c] = k.link]

Set(c, k) == Update(c, k) /\ UNCHANGED budget

Trouble == budget.troubles > 0 /\ budget' = [budget EXCEPT !.troubles = @ - 1]
TimeOut(late) ==
    /\ Cardinality(late) <= budget.timeouts
    /\ budget' = [budget EXCEPT !.timeouts = @ - Cardinality(late)]

(* Mutant: a request that was sent counts as not run.                      *)
GivenUpPlainly(p, status) == status

(* What a caller is told about an operation given up: whether the daemon   *)
(* may have taken it.                                                      *)
GivenUp(p, status) == IF p.sent /\ ~p.accepted THEN "UNKNOWN" ELSE status

Completed(o, p, status) ==
    IF p.at # "open" THEN p
    ELSE [p EXCEPT !.at = "done", !.status = status, !.posted = o \in Asynchronous]

Complete(k, o, status) == [k EXCEPT !.op[o] = Completed(o, @, status)]

(* IoContext::Stop.                                                        *)
StopIo(k) == [k EXCEPT !.cl.stopping = TRUE, !.cl.wake = TRUE]

(* Fail: the connection is lost.  The loop quits on its next turn.         *)
Failed(k, c) ==
    StopIo([k EXCEPT
        !.cl.disconnected = TRUE, !.cl.synced = FALSE, !.cl.cache = NoStamp,
        !.op = [o \in Ops |-> IF o \in OpsOf(c)
                              THEN Completed(o, @[o], GivenUp(@[o], "DISCONNECTED"))
                              ELSE @[o]]])

(* Queue: a frame for the operation, or for its poll.                      *)
Queue(k, o) ==
    IF Len(k.cl.output) >= MaxFrames THEN Complete(k, o, "BUSY")
    ELSE [k EXCEPT
        !.cl.output = Append(@, [op |-> o, poll |-> k.op[o].remote, started |-> FALSE]),
        !.cl.wire = @ \cup {o}]

(* Write: frames of finished operations are dropped, others marked sent    *)
(* before they are offered to the socket.                                  *)
Write(k, c) ==
    LET keep == SelectSeq(k.cl.output, LAMBDA f : f.started \/ k.op[f.op].at = "open")
        room == SocketRoom - Len(k.link.in)
        n == IF room < Len(keep) THEN room ELSE Len(keep)
        offered == {keep[i].op : i \in 1..(IF n < Len(keep) THEN n + 1 ELSE n)}
        marked == [k EXCEPT !.op = [o \in Ops |-> IF o \in offered
                                                  THEN [@[o] EXCEPT !.sent = TRUE] ELSE @[o]]]
        rest == SubSeq(keep, n + 1, Len(keep))
    IN IF keep # <<>> /\ k.link.server = "closed"
       THEN {Failed([k EXCEPT !.op[keep[1].op].sent = TRUE], c)}
       ELSE {[marked EXCEPT
                !.link.in = @ \o [i \in 1..n |-> [op |-> keep[i].op, poll |-> keep[i].poll]],
                !.cl.output = IF rest = <<>> THEN rest ELSE [rest EXCEPT ![1].started = part]]
             : part \in IF rest = <<>> THEN {FALSE} ELSE {rest[1].started, TRUE}}

(* Pump, up to its snapshot of the operations.                             *)
PumpStart(k, c) ==
    IF k.cl.phase = "closed" \/ k.cl.disconnected THEN StopIo(k)
    ELSE [k EXCEPT !.cl.pump = [busy |-> TRUE, ops |-> Open(k.op, c)]]

(* Mutant: an event of the epoch the handle knows leaves the cache.        *)
InvalidateOnRecovery(k, s) ==
    [k EXCEPT !.cl.cache = IF s.epoch = k.cl.stamp.epoch THEN @ ELSE NoStamp,
              !.cl.stamp = s, !.cl.synced = s # NoStamp]

(* Invalidate, on an event.                                                *)
Invalidate(k, s) ==
    [k EXCEPT !.cl.cache = NoStamp, !.cl.stamp = s, !.cl.synced = s # NoStamp]

(* A reply's stamp: a late one must not take the handle back.              *)
Adopt(k, s) ==
    LET old == k.cl.stamp
    IN IF \/ s = NoStamp
          \/ old.epoch # 0 /\ s.epoch # old.epoch
          \/ s.epoch = old.epoch /\ s.revision < old.revision
       THEN [k EXCEPT !.cl.cache = NoStamp, !.cl.synced = FALSE]
       ELSE [k EXCEPT !.cl.cache = IF s.revision # old.revision THEN NoStamp ELSE @,
                      !.cl.stamp = s, !.cl.synced = TRUE]

(* Receive, with or without time left on the decision's lifetime.          *)
Receive(k, m, lasting) ==
    IF m.kind = "event" THEN Invalidate(k, m.stamp)
    ELSE IF m.op \notin k.cl.wire THEN k
    ELSE LET o == m.op
             adopted == Adopt([k EXCEPT !.cl.wire = @ \ {o}, !.op[o].accepted = TRUE], m.stamp)
             cached == IF m.decision = "ALLOWED" /\ lasting /\ adopted.cl.synced
                       THEN [adopted EXCEPT !.cl.cache = m.stamp] ELSE adopted
         IN IF m.status = "OK" /\ m.decision = "PENDING"
            THEN [adopted EXCEPT !.op[o].remote = TRUE]
            ELSE Complete(cached, o, m.status)

-----------------------------------------------------------------------------
(* The I/O thread.                                                         *)
Running(c) == cl[c].phase # "new" /\ ~cl[c].retired /\ ~cl[c].pump.busy

(* IoContext::Dispatch disarms its source before it looks for work.  The   *)
(* deadline source fires when a poll is due or a deadline has passed.      *)
Dispatch(c) ==
    /\ Running(c)
    /\ \E source \in {"wake", "armed"} :
          /\ IF source = "wake" THEN cl[c].wake
             ELSE \E o \in cl[c].armed : op[o].remote \/ budget.timeouts > 0
          /\ LET k == [View(c) EXCEPT !.cl.wake = @ /\ source # "wake",
                                      !.cl.armed = IF source = "armed" THEN {} ELSE @]
             IN Set(c, IF k.cl.stopping
                       THEN [k EXCEPT !.cl.retired = TRUE, !.cl.output = <<>>, !.cl.wire = {},
                                      !.cl.armed = {}, !.link.client = "closed",
                                      !.link.out = <<>>]
                       ELSE PumpStart(k, c))

(* Mutant: only polls set the deadline source.                             *)
ArmedForPolls(k, c) ==
    [k EXCEPT !.cl.armed = {o \in cl[c].pump.ops \cap Open(k.op, c) : k.op[o].remote}]

(* The deadline source waits for the operations of the snapshot still open.*)
Armed(k, c) == [k EXCEPT !.cl.armed = cl[c].pump.ops \cap Open(k.op, c)]

(* The rest of Pump: give up what is late, queue what is due, forget       *)
(* finished operations, write, and set the deadline for those left.  An    *)
(* operation is late from some time on; a poll is due now and then.        *)
Pump(c, late, due) ==
    /\ cl[c].pump.busy /\ late \subseteq Open(op, c) /\ TimeOut(late)
    /\ LET Step(k, o) ==
               IF k.op[o].at # "open" THEN k
               ELSE IF o \in late THEN Complete(k, o, GivenUp(k.op[o], "TIMEOUT"))
               ELSE IF o \notin k.cl.wire /\ (k.op[o].remote => o \in due) THEN Queue(k, o)
               ELSE k
           queued == FoldSeq(LAMBDA o, k : Step(k, o), [View(c) EXCEPT !.cl.pump = Idle],
                             SetToSeq(cl[c].pump.ops))
           trimmed == [queued EXCEPT !.cl.wire = @ \cap Open(queued.op, c)]
       IN \E k \in Write(trimmed, c) :
             Update(c, IF k.cl.disconnected THEN k
                       ELSE Armed(k, c))

(* The socket is readable or writable: read, or write, then pump.          *)
Ready(c) ==
    /\ Running(c) /\ ~cl[c].disconnected
    /\ \/ /\ link[c].out # <<>>
          /\ \E lasting \in BOOLEAN :
                Set(c, PumpStart(Receive([View(c) EXCEPT !.link.out = Tail(@)],
                                         Head(link[c].out), lasting), c))
       \/ /\ link[c].out = <<>> /\ link[c].server = "closed"
          /\ Set(c, Failed(View(c), c))
       \/ /\ cl[c].output # <<>> /\ Len(link[c].in) < SocketRoom
          /\ \E k \in Write(View(c), c) : Set(c, IF k.cl.disconnected THEN k
                                                ELSE PumpStart(k, c))

-----------------------------------------------------------------------------
(* Callers.                                                                *)
(* Admission proper: the operation is listed and the I/O thread woken.     *)
Admitted(k, o) ==
    [k EXCEPT !.op[o] = [NewOperation EXCEPT !.at = "open"], !.cl.wake = TRUE]

(* Connect: the socket, the thread, and the hello.                         *)
Connect(c) ==
    /\ cl[c].phase = "new" /\ Bounded
    /\ \E o \in OpsOf(c) :
          /\ Method[o] = "hello"
          /\ Set(c, Admitted([View(c) EXCEPT !.cl.phase = "hello", !.link.client = "open"], o))

Close(k, c) ==
    StopIo([k EXCEPT
        !.cl.phase = "closed", !.cl.cache = NoStamp,
        !.op = [o \in Ops |->
                  IF o \in OpsOf(c) /\ (@[o].at = "open" \/ @[o].posted)
                  THEN [@[o] EXCEPT !.at = "done", !.detached = TRUE,
                                    !.status = "DISCONNECTED", !.posted = FALSE]
                  ELSE @[o]]])

(* The hello returned; a handle that could not connect is not given out.   *)
Connected(c) ==
    /\ cl[c].phase = "hello"
    /\ \E o \in OpsOf(c) :
          /\ Method[o] = "hello" /\ op[o].at = "done"
          /\ Set(c, IF op[o].status = "OK" THEN [View(c) EXCEPT !.cl.phase = "live"]
                    ELSE Close(View(c), c))

(* Admit: refused, answered from the cache, or left to the I/O thread.     *)
Admit(o) ==
    LET c == Owner[o]
        pending == {p \in OpsOf(c) : op[p].at = "open" \/ op[p].posted}
        Refuse(status) == Set(c, [View(c) EXCEPT !.op[o].at = "done", !.op[o].status = status])
    IN /\ cl[c].phase = "live" /\ op[o].at = "new" /\ Method[o] # "hello" /\ Bounded
       /\ \/ cl[c].disconnected /\ Refuse("DISCONNECTED")
          \/ /\ ~cl[c].disconnected /\ Cardinality(pending) >= MaxPending
             /\ Refuse("BUSY")
          \/ /\ ~cl[c].disconnected /\ Cardinality(pending) < MaxPending
             /\ \/ Set(c, Admitted(View(c), o))
                \/ /\ Method[o] = "request" /\ cl[c].synced /\ cl[c].cache # NoStamp
                   /\ Set(c, [View(c) EXCEPT !.op[o].at = "done", !.op[o].status = "OK",
                                             !.op[o].posted = o \in Asynchronous])

(* Call: the wait ends at the deadline.                                    *)
CallTimeout(o) ==
    /\ op[o].at = "open" /\ o \notin Asynchronous /\ TimeOut({o})
    /\ op' = [op EXCEPT ![o].at = "done", ![o].status = GivenUp(op[o], "TIMEOUT")]
    /\ UNCHANGED <<link, cl>>

(* The caller's context runs the callback.                                 *)
Deliver(o) ==
    /\ op[o].posted
    /\ op' = [op EXCEPT ![o].posted = FALSE]
    /\ UNCHANGED <<link, cl, budget>>

Detach(o) ==
    /\ o \in Asynchronous /\ cl[Owner[o]].phase = "live"
    /\ op[o].at = "open" \/ op[o].posted
    /\ Trouble
    /\ op' = [op EXCEPT ![o].at = "done", ![o].detached = TRUE, ![o].posted = FALSE]
    /\ cl' = [cl EXCEPT ![Owner[o]].wake = TRUE]
    /\ UNCHANGED link

Destroy(c) ==
    /\ cl[c].phase = "live" /\ Trouble
    /\ Update(c, Close(View(c), c))

Pumps(c) == \E late \in SUBSET cl[c].pump.ops : \E due \in SUBSET cl[c].pump.ops :
               Pump(c, late, due)
Io(c) == Dispatch(c) \/ Ready(c) \/ Pumps(c)
Callers == \/ \E c \in Clients : Connect(c) \/ Connected(c) \/ Destroy(c)
           \/ \E o \in Ops : Admit(o) \/ CallTimeout(o) \/ Deliver(o) \/ Detach(o)
Next == (\E c \in Clients : Io(c)) \/ Callers
=============================================================================
