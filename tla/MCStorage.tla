----------------------------- MODULE MCStorage ------------------------------
(* Small instances of Storage for TLC.                                     *)
EXTENDS Storage, TLC

CONSTANTS d1, register1, unregister1, seed1, seed2

Ask(kind, policy, text, generation) ==
    [kind |-> kind, definition |-> d1, policy |-> policy, text |-> text,
     generation |-> generation]

(* An install, its removal, an older image record of the same installation *)
(* and one of the next installation.                                       *)
Asked == register1 :> Ask("register", 3, 2, 1) @@ unregister1 :> Ask("unregister", 1, 1, 1)
            @@ seed1 :> Ask("seed", 2, 2, 1) @@ seed2 :> Ask("seed", 1, 2, 2)

Payloads == [o \in Operations |-> Asked[o]]
=============================================================================
