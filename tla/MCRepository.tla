---------------------------- MODULE MCRepository ----------------------------
(* Small instances of Repository for TLC.                                  *)
EXTENDS Repository, TLC

CONSTANTS d1, d2, p1, r1, r2, o1, o2

OnePackage == [d \in Definitions |-> p1]

OnceOrPersistent == [d \in Definitions |-> {"ONCE", "PERSISTENT"}]
PersistentOnly == [d \in Definitions |-> {"PERSISTENT"}]
SessionOrTimed == [d \in Definitions |-> {"SESSION", "TIMED"}]
TimedOnly == [d \in Definitions |-> {"TIMED"}]

Retention1 == [d \in Definitions |-> 1]
NoRetention == [d \in Definitions |-> 0]
ShortAndLong == [d \in Definitions |-> IF d = d1 THEN 1 ELSE 2]

ShortOrBoth == {{d1}, Definitions}
AllRows == {Definitions}
SingleRows == {{d} : d \in Definitions}

Task(version, mode) ==
    [version |-> version, kind |-> "TASK", mode |-> mode, duration |-> 0]
Preapproval(version, mode, duration) ==
    [version |-> version, kind |-> "PREAPPROVAL", mode |-> mode, duration |-> duration]

OnlyUnversioned == {Unversioned}
ChosenOnce == {Task(2, "ONCE")}
TimedAhead == {Preapproval(1, "TIMED", 2)}

NameSymmetry == Permutations(Definitions) \cup Permutations(Requests)
OperationSymmetry == Permutations(Operations)
=============================================================================
