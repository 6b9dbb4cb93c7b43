---------------------------- MODULE MCBootstrap -----------------------------
(***************************************************************************)
(* A small device: one package with one app, two installers.               *)
(***************************************************************************)
EXTENDS Bootstrap, TLC

CONSTANTS p, a, b1, b2, at, co, i1, i2

Command(command, app, operation, expected) ==
    [command |-> command, package |-> p, app |-> app, operation |-> operation,
     expected |-> expected]

(* An installation carried through, a rival one started from the same      *)
(* point, an update of the first, and the id of that update used again for *)
(* a removal.                                                              *)
Commands == {Command("begin", None, b1, 0), Command("attach", a, at, 1),
             Command("commit", None, co, 1), Command("begin", None, b2, 0),
             Command("begin", None, b2, 1), Command("remove", None, b2, 1)}

(* The installers differ in name only.                                     *)
InstallerSymmetry == Permutations(Installers)
=============================================================================
