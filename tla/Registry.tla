------------------------------ MODULE Registry ------------------------------
(***************************************************************************)
(* What the definition registry promises, without files: a set of          *)
(* installation operations that only grows, except that a crash may forget *)
(* operations nobody was told about and no decision was made from.         *)
(***************************************************************************)
CONSTANT Operations

VARIABLES
    applied,   \* operations the registry records
    acked,     \* operations whose caller got a success reply
    served     \* operations the database the daemon decides from projects

Init == applied = {} /\ acked = {} /\ served = {}

Apply(o) ==
    /\ applied' = applied \cup {o}
    /\ UNCHANGED <<acked, served>>

Ack(o) ==
    /\ o \in applied
    /\ acked' = acked \cup {o}
    /\ UNCHANGED <<applied, served>>

Serve ==
    /\ served' = applied
    /\ UNCHANGED <<applied, acked>>

(* The database is lost, or an older copy of it is put back.               *)
Unserve ==
    /\ served' \in SUBSET served
    /\ UNCHANGED <<applied, acked>>

(* A crash loses a write that was never confirmed.                         *)
Forget ==
    /\ applied' \in SUBSET applied
    /\ acked \cup served \subseteq applied'
    /\ UNCHANGED <<acked, served>>

Next == (\E o \in Operations : Apply(o) \/ Ack(o)) \/ Serve \/ Unserve \/ Forget

Spec == Init /\ [][Next]_<<applied, acked, served>>
=============================================================================
