----------------------------- MODULE Authority ------------------------------
(***************************************************************************)
(* The installation authority file and what one command of                 *)
(* consent-installation-authority does to its contents.  A generation is a *)
(* random UUID in the code; here it is the next unused number, and 0       *)
(* stands for a missing group and for the word "absent".                   *)
(***************************************************************************)
EXTENDS Naturals, FiniteSets

CONSTANTS
    Packages, Apps,
    Operations,  \* operation ids
    MaxGroups,   \* groups the file may hold; 4096 in the code
    None         \* no package, no app, no fingerprint

Request == [command: {"begin", "attach", "commit", "remove"}, package: Packages,
            app: Apps \cup {None}, operation: Operations, expected: Nat]

ASSUME AuthorityAssumption == None \notin Packages \cup Apps \cup Operations \cup Request

States == {"none", "pending", "active", "removed"}
Conf == [packages: [Packages -> [generation: Nat, state: States]],
         apps: [Apps -> [package: Packages \cup {None}, generation: Nat, state: States]],
         operations: [Operations -> [fingerprint: Request \cup {None}, generation: Nat]]]

(* The file before the first command: no group at all.                     *)
NoConf ==
    [packages |-> [p \in Packages |-> [generation |-> 0, state |-> "none"]],
     apps |-> [a \in Apps |-> [package |-> None, generation |-> 0, state |-> "none"]],
     operations |-> [o \in Operations |-> [fingerprint |-> None, generation |-> 0]]]

-----------------------------------------------------------------------------
(* The groups of the file, the one that carries its schema included.       *)
GroupCount(conf) ==
    LET groups == Cardinality({p \in Packages : conf.packages[p].state # "none"})
                  + Cardinality({a \in Apps : conf.apps[a].package # None})
                  + Cardinality({o \in Operations : conf.operations[o].fingerprint # None})
    IN  IF groups = 0 THEN 0 ELSE groups + 1

AppsOf(conf, package) == {a \in Apps : conf.apps[a].package = package}

(* Every app of the package is marked.                                     *)
MarkApps(conf, apps, state) ==
    [a \in Apps |-> IF a \in apps THEN [conf.apps[a] EXCEPT !.state = state]
                    ELSE conf.apps[a]]

Begun(conf, r, fresh) ==
    [conf EXCEPT !.packages[r.package] = [generation |-> fresh, state |-> "pending"],
                 !.apps = MarkApps(conf, AppsOf(conf, r.package), "removed")]

Attached(conf, r) ==
    [conf EXCEPT !.apps[r.app] =
        [package |-> r.package, generation |-> conf.packages[r.package].generation,
         state |-> "pending"]]

Committable(conf, package) ==
    {a \in AppsOf(conf, package) :
        /\ conf.apps[a].generation = conf.packages[package].generation
        /\ conf.apps[a].state = "pending"}

Committed(conf, r) ==
    [conf EXCEPT !.packages[r.package].state = "active",
                 !.apps = MarkApps(conf, Committable(conf, r.package), "active")]

Removed(conf, r) ==
    [conf EXCEPT !.packages[r.package].state = "removed",
                 !.apps = MarkApps(conf, AppsOf(conf, r.package), "removed")]

-----------------------------------------------------------------------------
(* Whether the command may run against the file, for an operation the file *)
(* does not record yet.                                                    *)
Applies(conf, r) ==
    /\ GroupCount(conf) < MaxGroups
    /\ conf.packages[r.package].generation = r.expected
    /\ r.command \in {"attach", "commit"} => conf.packages[r.package].state = "pending"
    /\ r.command = "attach" => conf.apps[r.app].package \in {None, r.package}
    /\ r.command = "commit" => Committable(conf, r.package) # {}
    /\ r.command = "remove" => conf.packages[r.package].generation # 0

(* The generation the command answers with.                                *)
Result(conf, r, fresh) ==
    IF r.command = "begin" THEN fresh ELSE conf.packages[r.package].generation

Changed(conf, r, fresh) ==
    CASE r.command = "begin"  -> Begun(conf, r, fresh)
      [] r.command = "attach" -> Attached(conf, r)
      [] r.command = "commit" -> Committed(conf, r)
      [] r.command = "remove" -> Removed(conf, r)

(* A recorded operation answers what it answered, if it asks for the same; *)
(* a new one changes the file and is recorded in it.                       *)
Repeats(conf, r) == conf.operations[r.operation].fingerprint = r
Conflicts(conf, r) == conf.operations[r.operation].fingerprint \notin {None, r}
Accepts(conf, r) ==
    ~Conflicts(conf, r) /\ (Repeats(conf, r) \/ Applies(conf, r))

Apply(conf, r, fresh) ==
    IF Repeats(conf, r) THEN conf
    ELSE [Changed(conf, r, fresh) EXCEPT
            !.operations[r.operation] =
                [fingerprint |-> r, generation |-> Result(conf, r, fresh)]]

-----------------------------------------------------------------------------
(* What the daemon takes for installed: GetInstallationIdentity of an app  *)
(* of a package, 0 for none.                                               *)
InstallationIdentity(conf, package, app) ==
    IF /\ conf.packages[package].state = "active"
       /\ conf.apps[app].state = "active" /\ conf.apps[app].package = package
       /\ conf.apps[app].generation = conf.packages[package].generation
    THEN conf.apps[app].generation ELSE 0
=============================================================================
