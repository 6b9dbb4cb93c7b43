------------------------------ MODULE Service -------------------------------
(***************************************************************************)
(* Client handles and the daemon, joined by their sockets.                 *)
(***************************************************************************)
EXTENDS Protocol, FiniteSets

CONSTANTS
    MaxConnections, MaxJobs, MaxInflight, MaxOutput, MaxSources, MaxRevision, MaxEpoch,
    MaxTroubles, MaxTimeouts, Asynchronous, MaxPending, MaxFrames, MaxStarted

VARIABLES link, conn, connections, dbq, ioq, started, phase, stopping, wakes,
          published, repo, executed, budget, cl, op

S == INSTANCE Server
C == INSTANCE Client

server == <<conn, connections, dbq, ioq, started, phase, stopping, wakes,
            published, repo, executed>>
client == <<cl, op>>
vars == <<link, budget, server, client>>

Init == S!Init /\ C!Init

Daemon ==
    \/ S!Signal /\ UNCHANGED client
    \/ S!Emergency /\ UNCHANGED client
    \/ S!Started /\ UNCHANGED client
    \/ S!Tick /\ UNCHANGED client
    \/ S!Finish /\ UNCHANGED client
    \/ S!AddConnection /\ UNCHANGED client
    \/ S!Execute /\ UNCHANGED client
    \/ S!Publish /\ UNCHANGED client
    \/ S!Respond /\ UNCHANGED client
    \/ S!Unavailable /\ UNCHANGED client
    \/ S!StopIo /\ UNCHANGED client
    \/ S!Startup /\ UNCHANGED client
    \/ S!Request /\ UNCHANGED client
    \/ S!TickJob /\ UNCHANGED client
    \/ S!ShutdownDatabase /\ UNCHANGED client
    \/ \E c \in Clients :
          \/ S!Incoming(c) /\ UNCHANGED client
          \/ S!Receive(c) /\ UNCHANGED client
          \/ S!Write(c) /\ UNCHANGED client
          \/ S!Deadline(c) /\ UNCHANGED client

Library ==
    \/ \E c \in Clients :
          \/ C!Dispatch(c) /\ UNCHANGED server
          \/ C!Pumps(c) /\ UNCHANGED server
          \/ C!Ready(c) /\ UNCHANGED server
          \/ C!Connect(c) /\ UNCHANGED server
          \/ C!Connected(c) /\ UNCHANGED server
          \/ C!Destroy(c) /\ UNCHANGED server
    \/ \E o \in Ops :
          \/ C!Admit(o) /\ UNCHANGED server
          \/ C!CallTimeout(o) /\ UNCHANGED server
          \/ C!Deliver(o) /\ UNCHANGED server
          \/ C!Detach(o) /\ UNCHANGED server

Next == Daemon \/ Library

Spec == Init /\ [][Next]_vars

(* The threads run and time passes.  A handle's I/O thread dispatches an   *)
(* armed source and leaves Pump; the wait of Call comes to its deadline,   *)
(* and so does an operation that Pump looks at again and again.  Nothing   *)
(* makes a signal arrive, the daemon answer, or a caller detach or destroy.*)
LooksAt(o) == cl[Owner[o]].pump.busy /\ o \in cl[Owner[o]].pump.ops

FairSpec ==
    /\ Spec
    /\ WF_vars((S!Emergency \/ S!Started \/ S!Finish) /\ UNCHANGED client)
    /\ WF_vars(S!StopIo /\ UNCHANGED client)
    /\ WF_vars(S!Db /\ UNCHANGED client)
    /\ \A c \in Clients : WF_vars(C!Dispatch(c) /\ UNCHANGED server)
    /\ \A c \in Clients : []<>~cl[c].pump.busy
    /\ \A o \in Ops : WF_vars(C!CallTimeout(o) /\ UNCHANGED server)
    /\ \A o \in Asynchronous : []<>LooksAt(o) => []<>(op[o].at # "open")

TypeOK == S!TypeOK /\ C!TypeOK

-----------------------------------------------------------------------------
(* The messages on their way to a client, oldest first.                    *)
Stream(c) == link[c].out \o conn[c].output

(* What a client knows after the first n of them: the stamp of the last    *)
(* event, or of the reply to its hello.                                    *)
Informs(m) == m.kind = "event" \/ Method[m.op] = "hello"
Known(c, n) ==
    LET told == {i \in 1..n : Informs(Stream(c)[i])}
    IN IF told = {} THEN cl[c].stamp
       ELSE Stream(c)[CHOOSE i \in told : \A j \in told : j <= i].stamp

(* Events are ordered ahead of that change's reply on each connection      *)
(* (Publish before Queue in the I/O thread, one FIFO from the database     *)
(* thread): no reply tells a client of a revision it has not been told of. *)
EventPrecedesReply ==
    \A c \in Clients : link[c].client = "open" => \A i \in 1..Len(Stream(c)) :
        ~Informs(Stream(c)[i]) => ~Newer(Stream(c)[i].stamp, Known(c, i - 1))

(* A handle that answers from its cache answers what the repository would, *)
(* unless the news is on its way: an invalidation or a lost connection in  *)
(* its socket, or a snapshot the I/O thread has not published.  (Client    *)
(* Receive and Invalidate; server Publish, Close and Post.)                *)
NewsFor(c) ==
    \/ link[c].server # "open" \/ stopping \/ "emergency" \in wakes
    \/ \E i \in 1..Len(Stream(c)) : Stream(c)[i].kind = "event"
    \/ \E i \in 1..Len(ioq) : ioq[i].kind \in {"publish", "reply", "storage"}

CacheLagsOnlyBehindNews ==
    \A c \in Clients :
        cl[c].phase = "live" /\ cl[c].synced /\ cl[c].cache # NoStamp =>
            /\ cl[c].cache = cl[c].stamp
            /\ cl[c].cache = repo \/ NewsFor(c)

(* A caller told TIMEOUT, DISCONNECTED or BUSY about an operation the      *)
(* daemon had not acknowledged may repeat it: the daemon never ran it, and *)
(* never will.  (sent is set before the write, accepted by the reply.)     *)
DefiniteFailureMeansNotRun ==
    \A o \in Ops :
        /\ op[o].at = "done" /\ ~op[o].detached /\ ~op[o].remote
        /\ op[o].status \in {"BUSY", "REFUSED", "TIMEOUT", "DISCONNECTED"}
        => o \notin executed

(* The counters that admission tests are exact: an open connection's       *)
(* inflight is the number of its requests between Execute and Respond, and *)
(* connections_ the number of accepted sockets, so that neither a limit    *)
(* leaks away nor a client exceeds it.                                     *)
Count(seq, T(_)) == Cardinality({i \in 1..Len(seq) : T(seq[i])})
CountersAreExact ==
    /\ connections = Cardinality({c \in Clients : conn[c].state \in {"accepted", "open"}})
    /\ wakes \cap {"emergency"} = {} /\ ~stopping =>
         \A c \in Clients :
            conn[c].state = "open" =>
               conn[c].inflight =
                  Count(dbq, LAMBDA j : j.kind = "request" /\ Owner[j.frame.op] = c)
                  + Count(ioq, LAMBDA i : i.kind = "reply" /\ i.client = c)

(* Every operation a caller started ends, whatever the daemon does: the    *)
(* deadline source or the wait of Call sees to it, and no wake-up is lost  *)
(* between Admit and Pump.                                                 *)
OperationsEnd == \A o \in Ops : op[o].at = "open" ~> op[o].at # "open"

(* A daemon told to stop runs every accepted job and then the last one,    *)
(* and quits (Stop, StopIo, ShutdownDatabase).                             *)
ShutdownEnds == stopping ~> (phase = "finished" /\ dbq = <<>>)
=============================================================================
