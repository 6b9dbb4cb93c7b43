----------------------------- MODULE Bootstrap ------------------------------
(***************************************************************************)
(* How a device comes to run consentd: the preparation helper (as package  *)
(* scriptlet, as ExecStartPre and as ExecStartPost), the checks the daemon *)
(* makes before it opens its stores, and the installation authority tool   *)
(* that shares the protected directory with them.                          *)
(*                                                                         *)
(* now is what a process sees; safe is what a power failure is certain to  *)
(* leave.  A rename or mkdir changes now, an fsync of the directory copies *)
(* its entries to safe, and a power failure leaves each entry that was not *)
(* synced in its old or its new form.  Owners, modes and labels are left   *)
(* out: a step that finds them wrong is a step that fails.                 *)
(***************************************************************************)
EXTENDS Authority

CONSTANTS
    Installers,      \* processes running consent-installation-authority
    Requests,        \* the commands they may be given
    MaxGeneration,   \* bound on generations the authority hands out
    MaxInvocations,  \* bound on activations of the unit
    MaxScripts,      \* bound on scriptlet runs
    MaxTroubles      \* bound on failing steps, kills, power failures and
                     \* lost files together

ASSUME BootstrapAssumption ==
    /\ Requests \subseteq Request
    /\ {MaxGroups, MaxGeneration, MaxInvocations, MaxScripts, MaxTroubles} \subseteq Nat

VARIABLES
    now, safe,   \* the files, as seen and as certain to last
    unit,        \* where the systemd unit is in its start sequence
    invocation,  \* INVOCATION_ID of the latest activation
    script,      \* where the package scriptlet is
    tool,        \* the installers
    issued,      \* generations drawn so far
    installed,   \* the package, with its unit, is on the device
    release7,    \* it was upgraded from release 7
    created,     \* registries created so far
    served,      \* registries a daemon has become READY with
    told,        \* results printed for each operation
    lost,        \* a file was lost
    budget       \* scriptlet runs and troubles left

helpers == <<unit, invocation, script>>
installation == <<tool, issued, told>>
history == <<created, served, lost>>
package == <<installed, release7>>
vars == <<now, safe, helpers, installation, package, history, budget>>

(* registry is the number of the registry found there, 0 for no file.      *)
AuthorityFiles == {"receipt", "lock", "conf"}
StateFiles == {"registry", "database"}
Files == {"authority", "state", "anchor"} \cup AuthorityFiles \cup StateFiles

Phases == {"ABSENT", "FRESH", "CLAIMED", "INITIALIZED"}
Receipt(phase, by) == [phase |-> phase, invocation |-> by]
Blank == [f \in Files |-> CASE f = "receipt"  -> Receipt("ABSENT", 0)
                            [] f = "conf"     -> NoConf
                            [] f = "registry" -> 0
                            [] OTHER          -> FALSE]
Release7 == [Blank EXCEPT !["authority"] = TRUE, !["lock"] = TRUE, !["state"] = TRUE,
                          !["registry"] = 1, !["database"] = TRUE]

Idle == [pc |-> "idle", draft |-> NoConf, operation |-> None]

Preparing == {"locking", "checking", "making", "entering", "preflight", "claimed"}
DaemonRuns == {"creating", "naming", "syncing", "ready", "completed", "active"}
Migrating == {"anchored", "migrated"}

DiskOK(disk) ==
    /\ DOMAIN disk = Files
    /\ \A f \in {"authority", "state", "anchor", "lock", "database"} : disk[f] \in BOOLEAN
    /\ disk["receipt"] \in [phase: Phases, invocation: Nat]
    /\ disk["conf"] \in Conf
    /\ disk["registry"] \in Nat

TypeOK ==
    /\ DiskOK(now) /\ DiskOK(safe)
    /\ unit \in {"inactive", "prepared"} \cup Preparing \cup DaemonRuns
    /\ script \in {"none", "made", "protected", "written"} \cup Migrating
    /\ {invocation, issued, created} \subseteq Nat
    /\ {installed, release7, lost} \subseteq BOOLEAN
    /\ tool \in [Installers -> [pc: {"idle", "applied", "renamed"}, draft: Conf,
                                operation: Operations \cup {None}]]
    /\ served \subseteq Nat
    /\ told \in [Operations -> SUBSET Nat]
    /\ budget \in [scripts: Nat, troubles: Nat]

Init ==
    /\ release7 \in BOOLEAN /\ installed = release7
    /\ now = (IF release7 THEN Release7 ELSE Blank) /\ safe = now
    /\ created = (IF release7 THEN 1 ELSE 0)
    /\ served = (IF release7 THEN {1} ELSE {})
    /\ unit = "inactive" /\ invocation = 0 /\ script = "none"
    /\ tool = [i \in Installers |-> Idle]
    /\ issued = 0 /\ told = [o \in Operations |-> {}]
    /\ lost = FALSE
    /\ budget = [scripts |-> MaxScripts, troubles |-> MaxTroubles]

-----------------------------------------------------------------------------
(* Durability.                                                             *)
Synced(files) == [f \in Files |-> IF f \in files THEN now[f] ELSE safe[f]]

(* What a power failure can leave.                                         *)
Remains ==
    {[f \in Files |-> IF f \in kept THEN now[f] ELSE safe[f]] :
        kept \in SUBSET {f \in Files : now[f] # safe[f]}}

Trouble ==
    /\ budget.troubles > 0
    /\ budget' = [budget EXCEPT !.troubles = @ - 1]

-----------------------------------------------------------------------------
(* flock on lifecycle.lock, always without waiting.                        *)
Exclusive == unit \in Preparing \ {"locking"} \/ script \in Migrating
Shared == unit \in DaemonRuns \/ \E i \in Installers : tool[i].pc # "idle"

(* Package scriptlets.  FirstInstall: the authority directory must not     *)
(* exist, and is durable before the receipt is written in it.              *)
FirstInstall ==
    /\ script = "none" /\ unit = "inactive" /\ budget.scripts > 0
    /\ ~now["state"] /\ ~now["authority"]
    /\ now' = [now EXCEPT !["authority"] = TRUE]
    /\ script' = "made" /\ installed' = TRUE
    /\ budget' = [budget EXCEPT !.scripts = @ - 1]
    /\ UNCHANGED <<safe, unit, invocation, installation, release7, history>>

FirstInstallProtect ==
    /\ script = "made"
    /\ safe' = Synced({"authority"} \cup AuthorityFiles)
    /\ script' = IF now["state"] THEN "none" ELSE "protected"
    /\ UNCHANGED <<now, unit, invocation, installation, package, history, budget>>

FirstInstallWrite ==
    /\ script = "protected"
    /\ now' = [now EXCEPT !["receipt"] = Receipt("FRESH", 0)]
    /\ script' = "written"
    /\ UNCHANGED <<safe, unit, invocation, installation, package, history, budget>>

(* MigrateRelease7, under the exclusive lock.  An initialized device needs *)
(* nothing; otherwise the one-shot anchor is spent before the receipt is   *)
(* written.                                                                *)
MigrateRelease7 ==
    /\ script = "none" /\ unit \notin DaemonRuns /\ budget.scripts > 0
    /\ now["authority"] /\ now["lock"] /\ ~Exclusive /\ ~Shared
    /\ now["receipt"].phase = "ABSENT" /\ release7
    /\ now["state"] /\ now["registry"] # 0 /\ now["database"]
    /\ ~now["anchor"]
    /\ now' = [now EXCEPT !["anchor"] = TRUE]
    /\ script' = "anchored"
    /\ budget' = [budget EXCEPT !.scripts = @ - 1]
    /\ UNCHANGED <<safe, unit, invocation, installation, package, history>>

MigrateRelease7Write ==
    /\ script = "anchored"
    /\ safe' = Synced({"anchor"})
    /\ now' = [now EXCEPT !["receipt"] = Receipt("INITIALIZED", 0)]
    /\ script' = "migrated"
    /\ UNCHANGED <<unit, invocation, installation, package, history, budget>>

(* The last fsync of WriteReceipt, for both scriptlets.                    *)
ScriptSync ==
    /\ script \in {"written", "migrated"}
    /\ safe' = Synced(AuthorityFiles)
    /\ script' = "none"
    /\ UNCHANGED <<now, unit, invocation, installation, package, history, budget>>

ScriptFails ==
    /\ script # "none"
    /\ Trouble
    /\ script' = "none"
    /\ UNCHANGED <<now, safe, unit, invocation, installation, package, history>>

-----------------------------------------------------------------------------
(* ExecStartPre: Prepare.  Each activation has a new INVOCATION_ID.        *)
Prepare ==
    /\ unit = "inactive" /\ installed /\ script \notin {"made", "protected", "written"}
    /\ invocation < MaxInvocations
    /\ invocation' = invocation + 1
    /\ unit' = "locking"
    /\ now' = [now EXCEPT !["authority"] = TRUE]
    /\ UNCHANGED <<safe, script, installation, package, history, budget>>

(* Directory's barrier, also for a directory found there, and the lock.    *)
PrepareLock ==
    /\ unit = "locking"
    /\ now' = [now EXCEPT !["lock"] = TRUE]
    /\ IF Exclusive \/ Shared
       THEN unit' = "inactive" /\ safe' = Synced({"authority"})
       ELSE /\ unit' = "checking"
            /\ safe' = [Synced({"authority"} \cup AuthorityFiles) EXCEPT !["lock"] = TRUE]
    /\ UNCHANGED <<invocation, script, installation, package, history, budget>>

PrepareCheck ==
    /\ unit = "checking"
    /\ unit' = IF \/ now["receipt"].phase = "FRESH" /\ ~now["state"]
                  \/ now["receipt"].phase = "INITIALIZED" /\ now["state"]
               THEN "making" ELSE "inactive"
    /\ UNCHANGED <<now, safe, invocation, script, installation, package, history, budget>>

PrepareState ==
    /\ unit = "making"
    /\ now' = [now EXCEPT !["state"] = TRUE]
    /\ unit' = "entering"
    /\ UNCHANGED <<safe, invocation, script, installation, package, history, budget>>

(* Locks, registrations, ownership and labels of everything managed: the   *)
(* contents stay as they are and both directories are synced.              *)
PrepareFiles ==
    /\ unit = "entering"
    /\ safe' = Synced({"authority", "state"} \cup AuthorityFiles \cup StateFiles)
    /\ unit' = "preflight"
    /\ UNCHANGED <<now, invocation, script, installation, package, history, budget>>

BootstrapPreflight ==
    /\ unit = "preflight"
    /\ \/ /\ now["receipt"].phase = "FRESH"
          /\ now["registry"] = 0 /\ ~now["database"]
          /\ now' = [now EXCEPT !["receipt"] = Receipt("CLAIMED", invocation)]
          /\ unit' = "claimed"
          /\ safe' = safe
       \/ /\ now["receipt"].phase = "INITIALIZED" /\ now["registry"] # 0
          /\ safe' = Synced(AuthorityFiles)
          /\ unit' = "prepared"
          /\ now' = now
       \/ /\ now["receipt"].phase = "INITIALIZED" /\ now["registry"] = 0
          /\ unit' = "inactive"
          /\ UNCHANGED <<now, safe>>
    /\ UNCHANGED <<invocation, script, installation, package, history, budget>>

PersistReceipt ==
    /\ unit = "claimed"
    /\ safe' = Synced(AuthorityFiles)
    /\ unit' = "prepared"
    /\ UNCHANGED <<now, invocation, script, installation, package, history, budget>>

-----------------------------------------------------------------------------
(* ExecStart: the daemon's own checks, then its stores.                    *)
(* Mutant of Assess: an initialized device may lack its registry.          *)
AssessAnyPair(disk) ==
    IF disk["receipt"] = Receipt("CLAIMED", invocation)
       /\ disk["registry"] = 0 /\ ~disk["database"] THEN "FIRST"
    ELSE IF disk["receipt"].phase # "INITIALIZED" THEN "REJECT"
    ELSE IF disk["database"] THEN "EXISTING" ELSE "RECOVER"

Assess(disk) ==
    IF disk["receipt"] = Receipt("CLAIMED", invocation)
       /\ disk["registry"] = 0 /\ ~disk["database"] THEN "FIRST"
    ELSE IF disk["receipt"].phase # "INITIALIZED" \/ disk["registry"] = 0 THEN "REJECT"
    ELSE IF disk["database"] THEN "EXISTING" ELSE "RECOVER"

CheckBootstrap ==
    /\ unit = "prepared"
    /\ unit' = CASE Exclusive \/ ~now["state"] \/ Assess(now) = "REJECT" -> "inactive"
                 [] OTHER -> "creating"
    /\ UNCHANGED <<now, safe, invocation, script, installation, package, history, budget>>

(* Open: a registry that is absent is created and synced, if there is no   *)
(* database either; then the database.  READY follows the sync of the      *)
(* registry that names it.                                                 *)
DaemonRegistry ==
    /\ unit = "creating"
    /\ IF now["registry"] = 0 /\ now["database"]
       THEN unit' = "inactive" /\ UNCHANGED <<now, created>>
       ELSE /\ unit' = "naming"
            /\ now' = [now EXCEPT !["registry"] = IF @ = 0 THEN created + 1 ELSE @]
            /\ created' = now'["registry"]
    /\ UNCHANGED <<safe, invocation, script, installation, package, served, lost, budget>>

DaemonDatabase ==
    /\ unit = "naming"
    /\ safe' = Synced(StateFiles)
    /\ now' = [now EXCEPT !["database"] = TRUE]
    /\ unit' = "syncing"
    /\ UNCHANGED <<invocation, script, installation, package, history, budget>>

(* Mutant of DaemonReady: READY before the directory is synced.            *)
DaemonReadyUnsynced ==
    /\ unit = "syncing"
    /\ served' = served \cup {now["registry"]}
    /\ unit' = "ready"
    /\ UNCHANGED <<now, safe, invocation, script, installation, package, created, lost, budget>>

DaemonReady ==
    /\ unit = "syncing"
    /\ safe' = Synced(StateFiles)
    /\ served' = served \cup {now["registry"]}
    /\ unit' = "ready"
    /\ UNCHANGED <<now, invocation, script, installation, package, created, lost, budget>>

(* ExecStartPost: CompleteBootstrap, without the lifecycle lock.  When it  *)
(* fails systemd stops the daemon.                                         *)
CompleteBootstrap ==
    /\ unit = "ready"
    /\ \/ /\ now["receipt"].phase = "INITIALIZED"
          /\ safe' = Synced(AuthorityFiles)
          /\ unit' = "active"
          /\ now' = now
       \/ /\ now["receipt"] = Receipt("CLAIMED", invocation)
          /\ now["registry"] # 0 /\ now["database"]
          /\ now' = [now EXCEPT !["receipt"] = Receipt("INITIALIZED", 0)]
          /\ unit' = "completed"
          /\ safe' = safe
    /\ UNCHANGED <<invocation, script, installation, package, history, budget>>

CompleteSync ==
    /\ unit = "completed"
    /\ safe' = Synced(AuthorityFiles)
    /\ unit' = "active"
    /\ UNCHANGED <<now, invocation, script, installation, package, history, budget>>

(* A normal stop, and a step of the unit that fails or is killed.          *)
UnitStops ==
    /\ unit = "active"
    /\ unit' = "inactive"
    /\ UNCHANGED <<now, safe, invocation, script, installation, package, history, budget>>

UnitFails ==
    /\ unit # "inactive"
    /\ Trouble
    /\ unit' = "inactive"
    /\ UNCHANGED <<now, safe, invocation, script, installation, package, history>>

-----------------------------------------------------------------------------
(* consent-installation-authority.  It holds the shared lifecycle lock and *)
(* the exclusive installations.lock from before it reads the file until    *)
(* after Persist.  A refused command changes nothing.                      *)
(* Mutant of Installer: two run at the same time.                          *)
InstallerUnlocked(i, r) ==
    /\ tool[i].pc = "idle"
    /\ now["authority"] /\ now["lock"] /\ ~Exclusive
    /\ Accepts(now["conf"], r)
    /\ Repeats(now["conf"], r) \/ issued < MaxGeneration
    /\ tool' = [tool EXCEPT ![i] =
        [pc |-> "applied", draft |-> Apply(now["conf"], r, issued + 1),
         operation |-> r.operation]]
    /\ issued' = IF Repeats(now["conf"], r) \/ r.command # "begin" THEN issued ELSE issued + 1
    /\ UNCHANGED <<now, safe, helpers, told, package, history, budget>>

Installer(i, r) ==
    /\ tool[i].pc = "idle"
    /\ now["authority"] /\ now["lock"] /\ ~Exclusive
    /\ \A j \in Installers : tool[j].pc = "idle"
    /\ Accepts(now["conf"], r)
    /\ Repeats(now["conf"], r) \/ issued < MaxGeneration
    /\ tool' = [tool EXCEPT ![i] =
        [pc |-> "applied", draft |-> Apply(now["conf"], r, issued + 1),
         operation |-> r.operation]]
    /\ issued' = IF Repeats(now["conf"], r) \/ r.command # "begin" THEN issued ELSE issued + 1
    /\ UNCHANGED <<now, safe, helpers, told, package, history, budget>>

Persist(i) ==
    /\ tool[i].pc = "applied"
    /\ now' = [now EXCEPT !["conf"] = tool[i].draft]
    /\ tool' = [tool EXCEPT ![i].pc = "renamed"]
    /\ UNCHANGED <<safe, helpers, issued, told, package, history, budget>>

Printed(i) == tool[i].draft.operations[tool[i].operation].generation

(* Mutant of PersistSync: the result is printed without the barrier.       *)
PersistSyncNothing(i) ==
    /\ tool[i].pc = "renamed"
    /\ told' = [told EXCEPT ![tool[i].operation] = @ \cup {Printed(i)}]
    /\ tool' = [tool EXCEPT ![i] = Idle]
    /\ UNCHANGED <<now, safe, helpers, issued, package, history, budget>>

(* The directory is synced before the result is printed.                   *)
PersistSync(i) ==
    /\ tool[i].pc = "renamed"
    /\ safe' = Synced(AuthorityFiles)
    /\ told' = [told EXCEPT ![tool[i].operation] = @ \cup {Printed(i)}]
    /\ tool' = [tool EXCEPT ![i] = Idle]
    /\ UNCHANGED <<now, helpers, issued, package, history, budget>>

InstallerFails(i) ==
    /\ tool[i].pc # "idle"
    /\ Trouble
    /\ tool' = [tool EXCEPT ![i] = Idle]
    /\ UNCHANGED <<now, safe, helpers, issued, told, package, history>>

-----------------------------------------------------------------------------
(* The device: the power fails, or stores are lost while no daemon runs.   *)
PowerFailure ==
    /\ Trouble
    /\ now' \in Remains /\ safe' = now'
    /\ unit' = "inactive" /\ script' = "none"
    /\ tool' = [i \in Installers |-> Idle]
    /\ UNCHANGED <<invocation, issued, told, package, history>>

Lose ==
    /\ unit \notin DaemonRuns
    /\ Trouble
    /\ \E gone \in {{"registry"}, {"database"}, {"registry", "database", "state"}} :
        /\ \E f \in gone : now[f] # Blank[f]
        /\ now' = [f \in Files |-> IF f \in gone THEN Blank[f] ELSE now[f]]
        /\ safe' = [f \in Files |-> IF f \in gone THEN Blank[f] ELSE safe[f]]
    /\ lost' = TRUE
    /\ UNCHANGED <<helpers, installation, package, created, served>>

-----------------------------------------------------------------------------
Script == FirstInstall \/ FirstInstallProtect \/ FirstInstallWrite \/ MigrateRelease7
          \/ MigrateRelease7Write \/ ScriptSync \/ ScriptFails
StartPre == Prepare \/ PrepareLock \/ PrepareCheck \/ PrepareState \/ PrepareFiles
            \/ BootstrapPreflight \/ PersistReceipt
Daemon == CheckBootstrap \/ DaemonDatabase \/ DaemonRegistry \/ DaemonReady
          \/ CompleteBootstrap \/ CompleteSync \/ UnitStops \/ UnitFails
Install == \E i \in Installers :
    (\E r \in Requests : Installer(i, r)) \/ Persist(i) \/ PersistSync(i)
    \/ InstallerFails(i)

Next == Script \/ StartPre \/ Daemon \/ Install \/ PowerFailure \/ Lose

Spec == Init /\ [][Next]_vars

-----------------------------------------------------------------------------
(* A device serves one registry in its life.  Whatever is lost, killed or  *)
(* run again, no daemon becomes READY with an empty registry in place of   *)
(* one that was served (recovery_state.cc:104, storage_prepare.cc:473).    *)
NoSilentReset == Cardinality(served) <= 1

(* A receipt that says INITIALIZED keeps its promise: as long as no file   *)
(* is lost, whatever a power failure leaves, the next activation passes    *)
(* the helper's and the daemon's checks and finds the stores it had        *)
(* (storage_prepare.cc:711).                                               *)
InitializedStaysBootable ==
    ~lost => \A disk \in Remains :
        disk["receipt"].phase = "INITIALIZED" =>
            disk["state"] /\ Assess(disk) = "EXISTING"

(* Every result the tool printed for an operation is the one the file      *)
(* records for it, now and after a power failure, so that a retry of the   *)
(* same operation answers the same (installation_authority.cc:148).        *)
ResultsAreKept ==
    \A o \in Operations : \A generation \in told[o] : \A disk \in Remains :
        /\ disk["conf"].operations[o].fingerprint # None
        /\ disk["conf"].operations[o].generation = generation

(* A generation that the tool reported removed or replaced is never again  *)
(* taken for installed, by a daemon that reads the file at any later       *)
(* moment, a restart after a power failure included (identity.cc:434,      *)
(* installation_authority.cc:170, 204).                                    *)
RetiredStaysRetired ==
    \A r \in Requests :
        /\ r.command \in {"begin", "remove"} /\ r.expected # 0
        /\ told[r.operation] # {}
        /\ now["conf"].operations[r.operation].fingerprint = r
        => \A disk \in Remains : \A app \in Apps :
              InstallationIdentity(disk["conf"], r.package, app) # r.expected
=============================================================================
