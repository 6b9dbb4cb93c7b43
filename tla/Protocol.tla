------------------------------ MODULE Protocol ------------------------------
(***************************************************************************)
(* What travels between client library and daemon.  A stamp is the epoch   *)
(* and revision every successful reply and every invalidation carries.     *)
(***************************************************************************)
EXTENDS Naturals, Sequences

CONSTANTS
    Clients,      \* client handles
    Ops,          \* operations callers start, a hello for each client included
    Owner,        \* the client of an operation
    Method,       \* "hello", "request", or "change" for any other method
    SocketRoom    \* frames one direction of a socket holds

ASSUME ProtocolAssumption ==
    /\ Owner \in [Ops -> Clients]
    /\ Method \in [Ops -> {"hello", "request", "change"}]
    /\ \A c \in Clients : \E o \in Ops : Owner[o] = c /\ Method[o] = "hello"
    /\ "none" \notin Ops
    /\ SocketRoom \in Nat \ {0}

Stamp == [epoch: Nat, revision: Nat]
NoStamp == [epoch |-> 0, revision |-> 0]
Newer(s, t) ==
    \/ s.epoch > t.epoch
    \/ s.epoch = t.epoch /\ s.revision > t.revision

(* A request, or the poll for the result of one that waits for its user.   *)
Frame == [op: Ops, poll: BOOLEAN]
NoFrame == [op |-> "none", poll |-> FALSE]

Statuses == {"NONE", "OK", "BUSY", "REFUSED", "FAILED", "TIMEOUT", "DISCONNECTED", "UNKNOWN"}

Message == [kind: {"event", "reply"}, op: Ops \cup {"none"}, status: Statuses,
            decision: {"NONE", "ALLOWED", "PENDING"}, stamp: Stamp]
Event(s) == [kind |-> "event", op |-> "none", status |-> "OK", decision |-> "NONE",
             stamp |-> s]
Reply(o, status, decision, s) ==
    [kind |-> "reply", op |-> o, status |-> status, decision |-> decision, stamp |-> s]

(* One connection: what is in the socket each way, and the ends' states.   *)
Link == [in: Seq(Frame), out: Seq(Message),
         client: {"none", "open", "closed"}, server: {"backlog", "open", "closed"}]
NoLink == [in |-> <<>>, out |-> <<>>, client |-> "none", server |-> "backlog"]
=============================================================================
