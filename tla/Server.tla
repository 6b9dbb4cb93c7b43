------------------------------- MODULE Server -------------------------------
(***************************************************************************)
(* The daemon's request pipeline: a main thread (signals, listener, tick), *)
(* an I/O thread that owns the connections, a pool of parsers and one      *)
(* database thread.  Threads talk through FIFO queues: jobs to the         *)
(* database thread, posted sources to the I/O and main threads.            *)
(*                                                                         *)
(* The repository is reduced to its stamp: a job may commit a change (a    *)
(* new revision), recover the database (a new epoch) or fail.              *)
(***************************************************************************)
EXTENDS Protocol, FiniteSets

CONSTANTS
    MaxConnections, MaxJobs, MaxInflight, MaxOutput, MaxSources,  \* limits of the code
    MaxRevision, MaxEpoch,   \* bounds on the stamps
    MaxTroubles,   \* bound on ticks, signals, refused or failed requests, lost
                   \* snapshots, slow peers, detached and destroyed handles together
    MaxTimeouts    \* bound on operations given up at their deadline

VARIABLES
    link,         \* the connections, shared with the clients
    conn,         \* the Connection object of each client
    connections,  \* connections_
    dbq, ioq,     \* jobs, and sources posted to the I/O thread
    started,      \* the start-up result posted to the main thread
    phase, stopping,
    wakes,        \* armed wake sources
    published, repo,
    executed,     \* operations the repository was given
    budget        \* what is left of the bounds, shared with the clients

Connection == [state: {"none", "accepted", "open", "closed"}, hello: BOOLEAN,
               parsing: Frame \cup {NoFrame}, inflight: Nat, output: Seq(Message)]
NoConnection == [state |-> "none", hello |-> FALSE, parsing |-> NoFrame, inflight |-> 0,
                 output |-> <<>>]

Job == [kind: {"startup", "tick", "shutdown"}] \cup [kind: {"request"}, frame: Frame]
Posted == [kind: {"add", "parsed"}, client: Clients]
             \cup [kind: {"publish"}, snapshot: Stamp]
             \cup [kind: {"reply"}, client: Clients, reply: Message, snapshot: Stamp]
             \cup [kind: {"storage"}]

TypeOK ==
    /\ link \in [Clients -> Link]
    /\ conn \in [Clients -> Connection]
    /\ connections \in Nat
    /\ dbq \in Seq(Job) /\ ioq \in Seq(Posted)
    /\ started \in {"no", "ready", "failed", "seen"}
    /\ phase \in {"starting", "running", "finished"}
    /\ stopping \in BOOLEAN
    /\ wakes \subseteq {"stopIo", "finished", "emergency"}
    /\ published \in Stamp /\ repo \in Stamp
    /\ executed \subseteq Ops
    /\ budget \in [troubles: Nat, timeouts: Nat]

Init ==
    /\ link = [c \in Clients |-> NoLink]
    /\ conn = [c \in Clients |-> NoConnection]
    /\ connections = 0
    /\ dbq = <<[kind |-> "startup"]>> /\ ioq = <<>>
    /\ started = "no" /\ phase = "starting" /\ stopping = FALSE /\ wakes = {}
    /\ published = NoStamp /\ repo = [epoch |-> 1, revision |-> 1]
    /\ executed = {}
    /\ budget = [troubles |-> MaxTroubles, timeouts |-> MaxTimeouts]

-----------------------------------------------------------------------------
(* What the I/O thread does to one connection.  A peer is the Connection   *)
(* together with its socket.                                               *)
Peer(c) == [conn |-> conn[c], link |-> link[c]]

Closed(p) ==
    IF p.conn.state # "open" THEN p
    ELSE [conn |-> [p.conn EXCEPT !.state = "closed", !.output = <<>>],
          link |-> [p.link EXCEPT !.server = "closed", !.in = <<>>]]

Least(m, n) == IF m < n THEN m ELSE n

(* Write: as much as the socket takes.                                     *)
Written(p) ==
    LET out == p.conn.output
        n == Least(SocketRoom - Len(p.link.out), Len(out))
    IN IF out = <<>> THEN p
       ELSE IF p.link.client = "closed" THEN Closed(p)
       ELSE [conn |-> [p.conn EXCEPT !.output = SubSeq(out, n + 1, Len(out))],
             link |-> [p.link EXCEPT !.out = @ \o SubSeq(out, 1, n)]]

Queued(p, m) ==
    IF p.conn.state # "open" THEN p
    ELSE IF Len(p.conn.output) >= MaxOutput THEN Closed(p)
    ELSE Written([p EXCEPT !.conn.output = Append(@, m)])

(* Receive: one frame at a time goes to a parser.                          *)
Received(p) ==
    IF p.conn.state # "open" \/ p.conn.parsing # NoFrame \/ stopping THEN p
    ELSE IF p.link.in # <<>>
         THEN [p EXCEPT !.conn.parsing = Head(p.link.in), !.link.in = Tail(@)]
    ELSE IF p.link.client = "closed" THEN Closed(p) ELSE p

(* The peers after a step, and the clients it counts out.                  *)
SetPeers(peers) ==
    /\ conn' = [c \in Clients |-> peers[c].conn]
    /\ link' = [c \in Clients |-> peers[c].link]
    /\ connections' = connections -
          Cardinality({c \in Clients : /\ conn[c].state \in {"accepted", "open"}
                                       /\ conn'[c].state = "closed"})

SetPeer(c, p) == SetPeers([d \in Clients |-> IF d = c THEN p ELSE Peer(d)])

(* Publish: an invalidation to every client that said hello.               *)
Announced(peers, snapshot) ==
    IF snapshot = published THEN peers
    ELSE [c \in Clients |-> IF peers[c].conn.hello THEN Queued(peers[c], Event(snapshot))
                            ELSE peers[c]]

(* Post: a source on the I/O thread; when it is refused the daemon stops.  *)
Sources(queue) == Len(queue) + (IF started \in {"ready", "failed"} THEN 1 ELSE 0)

Post(queue, item) ==
    \/ /\ Sources(queue) < MaxSources
       /\ ioq' = Append(queue, item) /\ UNCHANGED wakes
    \/ /\ Sources(queue) >= MaxSources
       /\ ioq' = queue /\ wakes' = wakes \cup {"emergency"}

(* Parse: the frame a connection has just read is decoded by the pool and  *)
(* posted back.  Frames of two connections may change places, as the order *)
(* in which they are read is not fixed either.                             *)
Parse(queue, c) ==
    IF conn'[c].parsing = NoFrame THEN ioq' = queue /\ UNCHANGED wakes
    ELSE Post(queue, [kind |-> "parsed", client |-> c])

Trouble == budget.troubles > 0 /\ budget' = [budget EXCEPT !.troubles = @ - 1]

(* Submit: admission to the database thread.                               *)
Full == Len(dbq) >= MaxJobs
Submitted(job) == IF Full THEN dbq ELSE Append(dbq, job)

-----------------------------------------------------------------------------
(* The main thread.                                                        *)
Stop(armed) ==
    /\ stopping' = TRUE
    /\ wakes' = armed \cup (IF stopping THEN {} ELSE {"stopIo"})

(* SIGTERM or SIGINT.                                                      *)
Signal ==
    /\ phase # "finished" /\ ~stopping /\ Trouble
    /\ Stop(wakes)
    /\ UNCHANGED <<link, conn, connections, dbq, ioq, started, phase, published,
                   repo, executed>>

Emergency ==
    /\ phase # "finished" /\ "emergency" \in wakes
    /\ Stop(wakes \ {"emergency"})
    /\ UNCHANGED <<link, conn, connections, dbq, ioq, started, phase, published,
                   repo, executed, budget>>

(* The database is open: publish, start the tick and the listener.         *)
Started ==
    /\ phase = "starting" /\ started \in {"ready", "failed"}
    /\ started' = "seen"
    /\ \/ /\ started = "failed"
          /\ Stop(wakes)
          /\ UNCHANGED <<phase, ioq>>
       \/ started = "ready" /\ stopping /\ UNCHANGED <<phase, stopping, wakes, ioq>>
       \/ /\ started = "ready" /\ ~stopping
          /\ phase' = "running"
          /\ Post(ioq, [kind |-> "publish", snapshot |-> repo])
          /\ UNCHANGED stopping
    /\ UNCHANGED <<link, conn, connections, dbq, published, repo, executed, budget>>

(* The listener's "incoming": a connection over the limit is dropped.      *)
Incoming(c) ==
    /\ phase = "running" /\ ~stopping
    /\ conn[c].state = "none" /\ link[c].client # "none"
    /\ \/ /\ connections < MaxConnections /\ Sources(ioq) < MaxSources
          /\ conn' = [conn EXCEPT ![c].state = "accepted"]
          /\ link' = [link EXCEPT ![c].server = "open"]
          /\ connections' = connections + 1
          /\ Post(ioq, [kind |-> "add", client |-> c])
       \/ /\ connections >= MaxConnections \/ Sources(ioq) >= MaxSources
          /\ conn' = [conn EXCEPT ![c].state = "closed"]
          /\ link' = [link EXCEPT ![c].server = "closed", ![c].in = <<>>]
          /\ wakes' = IF connections < MaxConnections THEN wakes \cup {"emergency"} ELSE wakes
          /\ UNCHANGED <<connections, ioq>>
    /\ UNCHANGED <<dbq, started, phase, stopping, published, repo, executed, budget>>

(* The 250 ms timer; a full queue skips the tick.                          *)
Tick ==
    /\ phase = "running" /\ ~stopping /\ Trouble
    /\ dbq' = Submitted([kind |-> "tick"])
    /\ UNCHANGED <<link, conn, connections, ioq, started, phase, stopping, wakes,
                   published, repo, executed>>

(* The main loop quits after the last job; posted sources are cancelled    *)
(* and every socket is closed.                                             *)
Finish ==
    /\ phase # "finished" /\ "finished" \in wakes
    /\ phase' = "finished" /\ wakes' = {} /\ ioq' = <<>>
    /\ conn' = [c \in Clients |-> IF conn[c].state = "none" THEN conn[c]
                                  ELSE [NoConnection EXCEPT !.state = "closed"]]
    /\ link' = [c \in Clients |-> IF conn[c].state = "none" THEN link[c]
                                  ELSE [link[c] EXCEPT !.server = "closed", !.in = <<>>]]
    /\ connections' = 0
    /\ UNCHANGED <<dbq, started, stopping, published, repo, executed, budget>>

-----------------------------------------------------------------------------
(* The I/O thread.                                                         *)
Alive == phase # "finished"
First(kind) == Alive /\ ioq # <<>> /\ Head(ioq).kind = kind

(* A peer that is not trusted, or one too many of its uid, is closed.      *)
AddConnection ==
    /\ First("add")
    /\ LET c == Head(ioq).client
           opened == [Peer(c) EXCEPT !.conn.state = "open"]
       IN \/ ~stopping /\ SetPeer(c, opened) /\ UNCHANGED budget
          \/ stopping /\ SetPeer(c, Closed(opened)) /\ UNCHANGED budget
          \/ ~stopping /\ SetPeer(c, Closed(opened)) /\ Trouble
    /\ ioq' = Tail(ioq)
    /\ UNCHANGED <<dbq, started, phase, stopping, wakes, published, repo, executed>>

(* The socket is readable: a frame, or the end of the stream.              *)
Receive(c) ==
    /\ Alive /\ Received(Peer(c)) # Peer(c)
    /\ SetPeer(c, Received(Peer(c)))
    /\ Parse(ioq, c)
    /\ UNCHANGED <<dbq, started, phase, stopping, published, repo, executed, budget>>

(* Mutant: a request the full queue refuses stays counted.                 *)
ExecuteKeepsCount ==
    /\ First("parsed")
    /\ LET c == Head(ioq).client
           f == conn[c].parsing
           p == [Peer(c) EXCEPT !.conn.parsing = NoFrame]
           counted == [p EXCEPT !.conn.inflight = @ + 1]
       IN /\ p.conn.state = "open" /\ (p.conn.hello \/ Method[f.op] = "hello")
          /\ SetPeer(c, IF Method[f.op] = "hello"
                        THEN Received(Queued([p EXCEPT !.conn.hello = TRUE],
                                             Reply(f.op, "OK", "NONE", published)))
                        ELSE IF Full
                        THEN Received(Queued(counted, Reply(f.op, "BUSY", "NONE", NoStamp)))
                        ELSE Received(counted))
          /\ dbq' = IF Method[f.op] = "hello" THEN dbq
                    ELSE Submitted([kind |-> "request", frame |-> f])
    /\ Parse(Tail(ioq), Head(ioq).client)
    /\ UNCHANGED <<started, phase, stopping, published, repo, executed, budget>>

(* Execute, for a frame of an open connection; then read on.  A request    *)
(* that peer or method do not permit is refused before it is counted.      *)
Execute ==
    /\ First("parsed")
    /\ LET c == Head(ioq).client
           f == conn[c].parsing
           p == [Peer(c) EXCEPT !.conn.parsing = NoFrame]
           Answer(status) == Received(Queued(p, Reply(f.op, status, "NONE", NoStamp)))
           welcome == Queued([p EXCEPT !.conn.hello = TRUE],
                             Reply(f.op, "OK", "NONE", published))
           counted == [p EXCEPT !.conn.inflight = @ + 1]
       IN \/ /\ p.conn.state # "open" \/ (~p.conn.hello /\ Method[f.op] # "hello")
             /\ SetPeer(c, Closed(p)) /\ UNCHANGED <<dbq, budget>>
          \/ /\ p.conn.state = "open" /\ (p.conn.hello \/ Method[f.op] = "hello")
             /\ \/ Trouble /\ SetPeer(c, Answer("REFUSED")) /\ UNCHANGED dbq
                \/ /\ p.conn.inflight >= MaxInflight \/ stopping
                   /\ SetPeer(c, Answer("BUSY")) /\ UNCHANGED <<dbq, budget>>
                \/ /\ p.conn.inflight < MaxInflight /\ ~stopping
                   /\ Method[f.op] = "hello"
                   /\ SetPeer(c, Received(welcome)) /\ UNCHANGED <<dbq, budget>>
                \/ /\ p.conn.inflight < MaxInflight /\ ~stopping
                   /\ Method[f.op] # "hello"
                   /\ SetPeer(c, IF Full THEN Answer("BUSY") ELSE Received(counted))
                   /\ dbq' = Submitted([kind |-> "request", frame |-> f])
                   /\ UNCHANGED budget
    /\ Parse(Tail(ioq), Head(ioq).client)
    /\ UNCHANGED <<started, phase, stopping, published, repo, executed>>

(* A snapshot of the start-up job or of a tick.                            *)
Publish ==
    /\ First("publish")
    /\ SetPeers(Announced([c \in Clients |-> Peer(c)], Head(ioq).snapshot))
    /\ published' = Head(ioq).snapshot
    /\ ioq' = Tail(ioq)
    /\ UNCHANGED <<dbq, started, phase, stopping, wakes, repo, executed, budget>>

(* Mutant: the reply goes out before the invalidation.                     *)
RespondReplyFirst ==
    /\ First("reply")
    /\ LET item == Head(ioq)
           answered == [c \in Clients |->
                          IF c # item.client THEN Peer(c)
                          ELSE Queued([Peer(c) EXCEPT !.conn.inflight = 0], item.reply)]
       IN SetPeers(Announced(answered, item.snapshot))
    /\ published' = Head(ioq).snapshot
    /\ ioq' = Tail(ioq)
    /\ UNCHANGED <<dbq, started, phase, stopping, wakes, repo, executed, budget>>

(* The end of a request: without a snapshot every other client is closed;  *)
(* then the invalidation, then the reply, unless the peer has died.        *)
Respond ==
    /\ First("reply")
    /\ LET item == Head(ioq)
           kept == [c \in Clients |-> IF item.snapshot = NoStamp /\ c # item.client
                                      THEN Closed(Peer(c)) ELSE Peer(c)]
           told == Announced(kept, item.snapshot)
           counted == [told[item.client] EXCEPT
                          !.conn.inflight = IF @ > 0 THEN @ - 1 ELSE 0]
       IN \/ /\ SetPeers([told EXCEPT ![item.client] = Queued(counted, item.reply)])
             /\ UNCHANGED budget
          \/ SetPeers([told EXCEPT ![item.client] = Closed(counted)]) /\ Trouble
    /\ published' = Head(ioq).snapshot
    /\ ioq' = Tail(ioq)
    /\ UNCHANGED <<dbq, started, phase, stopping, wakes, repo, executed>>

(* A tick found the storage unavailable: cached decisions must not outlive *)
(* it, so every connection is closed.                                      *)
Unavailable ==
    /\ First("storage")
    /\ SetPeers([c \in Clients |-> Closed(Peer(c))])
    /\ published' = NoStamp
    /\ ioq' = Tail(ioq)
    /\ UNCHANGED <<dbq, started, phase, stopping, wakes, repo, executed, budget>>

(* The socket takes more output.                                           *)
Write(c) ==
    /\ Alive /\ conn[c].state = "open" /\ Written(Peer(c)) # Peer(c)
    /\ SetPeer(c, Written(Peer(c)))
    /\ UNCHANGED <<dbq, ioq, started, phase, stopping, wakes, published, repo, executed,
                   budget>>

(* The connection's timer: no hello, or output nobody takes, for 5 s.      *)
Deadline(c) ==
    /\ Alive /\ conn[c].state = "open"
    /\ ~conn[c].hello \/ conn[c].output # <<>>
    /\ Trouble
    /\ SetPeer(c, Closed(Peer(c)))
    /\ UNCHANGED <<dbq, ioq, started, phase, stopping, wakes, published, repo, executed>>

(* Mutant: the last job is subject to the limit of Submit.                 *)
StopIoBounded ==
    /\ Alive /\ "stopIo" \in wakes
    /\ SetPeers([c \in Clients |-> Closed(Peer(c))])
    /\ wakes' = wakes \ {"stopIo"}
    /\ dbq' = Submitted([kind |-> "shutdown"])
    /\ UNCHANGED <<ioq, started, phase, stopping, published, repo, executed, budget>>

(* Stopping: close the clients, then queue the last job, whatever the      *)
(* queue holds.                                                            *)
StopIo ==
    /\ Alive /\ "stopIo" \in wakes
    /\ SetPeers([c \in Clients |-> Closed(Peer(c))])
    /\ wakes' = wakes \ {"stopIo"}
    /\ dbq' = Append(dbq, [kind |-> "shutdown"])
    /\ UNCHANGED <<ioq, started, phase, stopping, published, repo, executed, budget>>

-----------------------------------------------------------------------------
(* The database thread.  A job is counted until it has run.                *)
Job1(kind) == Alive /\ dbq # <<>> /\ Head(dbq).kind = kind

Revised == IF repo.revision < MaxRevision THEN {[repo EXCEPT !.revision = @ + 1]} ELSE {}
Recovered == IF repo.epoch < MaxEpoch
             THEN {[epoch |-> repo.epoch + 1, revision |-> 1]} ELSE {}

Startup ==
    /\ Job1("startup")
    /\ \/ started' = "ready" /\ UNCHANGED budget
       \/ started' = "failed" /\ Trouble
    /\ dbq' = Tail(dbq)
    /\ UNCHANGED <<link, conn, connections, ioq, phase, stopping, wakes, published,
                   repo, executed>>

(* A request: the repository answers, with a decision if it was asked for  *)
(* one; or it refuses or fails, and the snapshot may show a recovered      *)
(* database; or there is no snapshot.                                      *)
Decisions(f) == IF Method[f.op] = "request" THEN {"ALLOWED", "PENDING"} ELSE {"NONE"}

Request ==
    /\ Job1("request")
    /\ LET f == Head(dbq).frame
           Done(reply, snapshot) ==
               Post(ioq, [kind |-> "reply", client |-> Owner[f.op], reply |-> reply,
                          snapshot |-> snapshot])
       IN /\ executed' = IF f.poll THEN executed ELSE executed \cup {f.op}
          /\ \/ \E s \in {repo} \cup Revised, decision \in Decisions(f) :
                   /\ repo' = s
                   /\ Done(Reply(f.op, "OK", decision, s), s)
                   /\ UNCHANGED budget
             \/ \E s \in {repo} \cup Revised \cup Recovered :
                   /\ repo' = s
                   /\ Done(Reply(f.op, "FAILED", "NONE", NoStamp), s)
                   /\ Trouble
             \/ \E s \in {repo} \cup Revised :
                   /\ repo' = s
                   /\ Done(Reply(f.op, "FAILED", "NONE", NoStamp), NoStamp)
                   /\ Trouble
    /\ dbq' = Tail(dbq)
    /\ UNCHANGED <<link, conn, connections, started, phase, stopping, published>>

TickJob ==
    /\ Job1("tick")
    /\ \/ \E s \in {repo} \cup Revised \cup Recovered :
             /\ repo' = s
             /\ Post(ioq, [kind |-> "publish", snapshot |-> s])
       \/ Post(ioq, [kind |-> "storage"]) /\ UNCHANGED repo
    /\ dbq' = Tail(dbq)
    /\ UNCHANGED <<link, conn, connections, started, phase, stopping, published,
                   executed, budget>>

ShutdownDatabase ==
    /\ Job1("shutdown")
    /\ wakes' = wakes \cup {"finished"}
    /\ dbq' = Tail(dbq)
    /\ UNCHANGED <<link, conn, connections, ioq, started, phase, stopping, published,
                   repo, executed, budget>>

-----------------------------------------------------------------------------
Main == Signal \/ Emergency \/ Started \/ Tick \/ Finish \/ \E c \in Clients : Incoming(c)
Io == \/ AddConnection \/ Execute \/ Publish \/ Respond \/ Unavailable \/ StopIo
      \/ \E c \in Clients : Receive(c) \/ Write(c) \/ Deadline(c)
Db == Startup \/ Request \/ TickJob \/ ShutdownDatabase
Next == Main \/ Io \/ Db
=============================================================================
