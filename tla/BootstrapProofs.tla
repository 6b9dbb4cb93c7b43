--------------------------- MODULE BootstrapProofs ---------------------------
(***************************************************************************)
(* Bootstrap's types, the two promises about the stores of a device, and   *)
(* what consent-installation-authority reports, for any packages, apps,    *)
(* operations and installers and any number of activations, scriptlets and *)
(* troubles.                                                               *)
(***************************************************************************)
EXTENDS Bootstrap, FiniteSetTheorems, TLAPS

(* The names of the files are distinct.                                    *)
LEMMA FileNames ==
    /\ Files = {"authority", "state", "anchor", "receipt", "lock", "conf", "registry", "database"}
    /\ AuthorityFiles \subseteq Files /\ StateFiles \subseteq Files
BY Zenon DEF Files, AuthorityFiles, StateFiles

-----------------------------------------------------------------------------
(* Types.                                                                  *)
LEMMA BlankOK == DiskOK(Blank) /\ DiskOK(Release7)
<1>1. NoConf \in Conf
  BY Zenon DEF NoConf, Conf, States
<1>2. Receipt("ABSENT", 0) \in [phase: Phases, invocation: Nat]
  BY Zenon DEF Receipt, Phases
<1>3. DiskOK(Blank)
  BY <1>1, <1>2, FileNames, Zenon DEF DiskOK, Blank
<1> QED  BY <1>3, FileNames, ZenonT(60) DEF DiskOK, Release7

LEMMA SyncedOK ==
    ASSUME DiskOK(now), DiskOK(safe), NEW F
    PROVE  DiskOK(Synced(F))
BY FileNames, Zenon DEF DiskOK, Synced

LEMMA RemainsOK ==
    ASSUME DiskOK(now), DiskOK(safe), NEW disk \in Remains
    PROVE  /\ DiskOK(disk)
           /\ \A f \in Files : disk[f] = now[f] \/ disk[f] = safe[f]
<1> PICK kept : disk = [f \in Files |-> IF f \in kept THEN now[f] ELSE safe[f]]
  BY Zenon DEF Remains
<1> QED  BY FileNames, Zenon DEF DiskOK

LEMMA ChangedOK ==
    ASSUME NEW conf \in Conf, NEW r \in Request, NEW fresh \in Nat
    PROVE  Changed(conf, r, fresh) \in Conf
<1> DEFINE App == [package: Packages \cup {None}, generation: Nat, state: States]
           Package == [generation: Nat, state: States]
<1>1. ASSUME NEW entry \in Package, NEW apps \in [Apps -> App]
      PROVE  [conf EXCEPT !.packages[r.package] = entry, !.apps = apps] \in Conf
  BY <1>1, ZenonT(60) DEF Conf
<1>2. /\ conf.packages \in [Packages -> Package] /\ conf.apps \in [Apps -> App]
  BY Zenon DEF Conf
<1>3. /\ r.package \in Packages /\ r.operation \in Operations
      /\ r.command \in {"begin", "attach", "commit", "remove"}
  BY Zenon DEF Request
<1>4. ASSUME NEW apps, NEW state \in States
      PROVE  MarkApps(conf, apps, state) \in [Apps -> App]
  <2>1. ASSUME NEW a \in Apps PROVE [conf.apps[a] EXCEPT !.state = state] \in App
    BY <1>2, <2>1, Zenon
  <2> QED  BY <1>2, <2>1, Zenon DEF MarkApps
<1>5. Begun(conf, r, fresh) \in Conf
  <2>1. [generation |-> fresh, state |-> "pending"] \in Package
    BY Zenon DEF States
  <2>2. MarkApps(conf, AppsOf(conf, r.package), "removed") \in [Apps -> App]
    BY <1>4, Zenon DEF States
  <2> HIDE DEF App, Package
  <2> QED  BY <2>1, <2>2, <1>1, ZenonT(60) DEF Begun
<1>6. Attached(conf, r) \in Conf
  BY ZenonT(60) DEF Attached, Conf, Request, States
<1>7. Committed(conf, r) \in Conf
  <2>1. [conf.packages[r.package] EXCEPT !.state = "active"] \in Package
    BY <1>2, <1>3 DEF States
  <2>2. MarkApps(conf, Committable(conf, r.package), "active") \in [Apps -> App]
    BY <1>4, Zenon DEF States
  <2> HIDE DEF App, Package
  <2> QED  BY <2>1, <2>2, <1>1, ZenonT(60) DEF Committed
<1>8. Removed(conf, r) \in Conf
  <2>1. [conf.packages[r.package] EXCEPT !.state = "removed"] \in Package
    BY <1>2, <1>3 DEF States
  <2>2. MarkApps(conf, AppsOf(conf, r.package), "removed") \in [Apps -> App]
    BY <1>4, Zenon DEF States
  <2> HIDE DEF App, Package
  <2> QED  BY <2>1, <2>2, <1>1, ZenonT(60) DEF Removed
<1> QED  BY <1>3, <1>5, <1>6, <1>7, <1>8, Zenon DEF Changed

LEMMA ApplyOK ==
    ASSUME NEW conf \in Conf, NEW r \in Request, NEW fresh \in Nat
    PROVE  Apply(conf, r, fresh) \in Conf
<1> DEFINE Record == [fingerprint: Request \cup {None}, generation: Nat]
<1>1. [fingerprint |-> r, generation |-> Result(conf, r, fresh)] \in Record
  BY Zenon DEF Result, Conf, Request
<1>2. ASSUME NEW c \in Conf, NEW record \in Record
      PROVE  [c EXCEPT !.operations[r.operation] = record] \in Conf
  BY ZenonT(60) DEF Conf, Request
<1> HIDE DEF Record
<1> QED  BY <1>1, <1>2, ChangedOK, Zenon DEF Apply

LEMMA InitOK == Init => TypeOK
<1> SUFFICES ASSUME Init PROVE TypeOK
  OBVIOUS
<1>1. DiskOK(now) /\ DiskOK(safe)
  BY BlankOK, Zenon DEF Init
<1>2. NoConf \in Conf
  BY Zenon DEF NoConf, Conf, States
<1>3. /\ {invocation, issued, created} \subseteq Nat /\ served \subseteq Nat
      /\ unit = "inactive" /\ script = "none"
  BY DEF Init
<1>4. {installed, release7, lost} \subseteq BOOLEAN
  BY Zenon DEF Init
<1>5. /\ tool \in [Installers -> [pc: {"idle", "applied", "renamed"}, draft: Conf,
                                 operation: Operations \cup {None}]]
      /\ told \in [Operations -> SUBSET Nat]
  BY <1>2, Zenon DEF Init, Idle
<1>6. budget \in [scripts: Nat, troubles: Nat]
  BY BootstrapAssumption, Zenon DEF Init
<1> QED  BY <1>1, <1>3, <1>4, <1>5, <1>6, Zenon DEF TypeOK

LEMMA ScriptOK == TypeOK /\ Script => TypeOK'
<1> SUFFICES ASSUME TypeOK, Script PROVE TypeOK'
  OBVIOUS
<1> USE DEF TypeOK, helpers, installation, package, history
<1>1. ASSUME NEW F PROVE DiskOK(Synced(F))
  BY SyncedOK, Zenon
<1>2. CASE FirstInstall
  BY <1>2, FileNames DEF FirstInstall, DiskOK
<1>3. CASE FirstInstallProtect
  BY <1>3, <1>1, Zenon DEF FirstInstallProtect
<1>4. CASE FirstInstallWrite
  BY <1>4, FileNames, Zenon DEF FirstInstallWrite, DiskOK, Receipt, Phases
<1>5. CASE MigrateRelease7
  BY <1>5, FileNames DEF MigrateRelease7, DiskOK, Migrating
<1>6. CASE MigrateRelease7Write
  <2>1. DiskOK(now')
    BY <1>6, FileNames, Zenon DEF MigrateRelease7Write, DiskOK, Receipt, Phases
  <2> QED  BY <1>6, <1>1, <2>1, Zenon DEF MigrateRelease7Write, Migrating
<1>7. CASE ScriptSync
  BY <1>7, <1>1, Zenon DEF ScriptSync
<1>8. CASE ScriptFails
  BY <1>8 DEF ScriptFails, Trouble
<1> QED  BY <1>2, <1>3, <1>4, <1>5, <1>6, <1>7, <1>8, Zenon DEF Script

LEMMA StartPreOK == TypeOK /\ StartPre => TypeOK'
<1> SUFFICES ASSUME TypeOK, StartPre PROVE TypeOK'
  OBVIOUS
<1> USE DEF TypeOK, helpers, installation, package, history
<1>1. ASSUME NEW F PROVE DiskOK(Synced(F))
  BY SyncedOK, Zenon
<1>2. CASE Prepare
  BY <1>2, FileNames DEF Prepare, DiskOK, Preparing
<1>3. CASE PrepareLock
  <2>1. DiskOK(now')
    BY <1>3, FileNames, Zenon DEF PrepareLock, DiskOK
  <2>2. ASSUME NEW F PROVE DiskOK([Synced(F) EXCEPT !["lock"] = TRUE])
    BY <1>1, FileNames, ZenonT(60) DEF DiskOK
  <2> QED  BY <1>3, <1>1, <2>1, <2>2, ZenonT(60) DEF PrepareLock, Preparing
<1>4. CASE PrepareCheck
  BY <1>4, Zenon DEF PrepareCheck, Preparing
<1>5. CASE PrepareState
  BY <1>5, FileNames, Zenon DEF PrepareState, DiskOK, Preparing
<1>6. CASE PrepareFiles
  BY <1>6, <1>1, Zenon DEF PrepareFiles, Preparing
<1>7. CASE BootstrapPreflight
  <2>1. DiskOK(now')
    BY <1>7, FileNames DEF BootstrapPreflight, DiskOK, Receipt, Phases
  <2> QED  BY <1>7, <1>1, <2>1, Zenon DEF BootstrapPreflight, Preparing
<1>8. CASE PersistReceipt
  BY <1>8, <1>1, Zenon DEF PersistReceipt
<1> QED  BY <1>2, <1>3, <1>4, <1>5, <1>6, <1>7, <1>8, Zenon DEF StartPre

LEMMA DaemonOK == TypeOK /\ Daemon => TypeOK'
<1> SUFFICES ASSUME TypeOK, Daemon PROVE TypeOK'
  OBVIOUS
<1> USE DEF TypeOK, helpers, installation, package, history
<1>1. ASSUME NEW F PROVE DiskOK(Synced(F))
  BY SyncedOK, Zenon
<1>2. CASE CheckBootstrap
  BY <1>2, Zenon DEF CheckBootstrap, DaemonRuns
<1>3. CASE DaemonRegistry
  <2>1. now["registry"] \in Nat /\ created \in Nat /\ DOMAIN now = Files
    BY Zenon DEF DiskOK
  <2>2. DiskOK(now') /\ created' \in Nat
    BY <1>3, <2>1, FileNames DEF DaemonRegistry, DiskOK
  <2> QED  BY <1>3, <2>2, Zenon DEF DaemonRegistry, DaemonRuns
<1>4. CASE DaemonDatabase
  <2>1. DiskOK(now')
    BY <1>4, FileNames, Zenon DEF DaemonDatabase, DiskOK
  <2> QED  BY <1>4, <1>1, <2>1, Zenon DEF DaemonDatabase, DaemonRuns
<1>5. CASE DaemonReady
  <2>1. now["registry"] \in Nat
    BY Zenon DEF DiskOK
  <2> QED  BY <1>5, <1>1, <2>1, ZenonT(60) DEF DaemonReady, DaemonRuns
<1>6. CASE CompleteBootstrap
  <2>1. DiskOK(now')
    BY <1>6, FileNames DEF CompleteBootstrap, DiskOK, Receipt, Phases
  <2> QED  BY <1>6, <1>1, <2>1, Zenon DEF CompleteBootstrap, DaemonRuns
<1>7. CASE CompleteSync
  BY <1>7, <1>1, Zenon DEF CompleteSync, DaemonRuns
<1>8. CASE UnitStops \/ UnitFails
  BY <1>8 DEF UnitStops, UnitFails, Trouble
<1> QED  BY <1>2, <1>3, <1>4, <1>5, <1>6, <1>7, <1>8, Zenon DEF Daemon

LEMMA InstallOK == TypeOK /\ Install => TypeOK'
<1> SUFFICES ASSUME TypeOK, Install PROVE TypeOK'
  OBVIOUS
<1> USE DEF TypeOK, helpers, installation, package, history
<1> PICK i \in Installers : (\E r \in Requests : Installer(i, r)) \/ Persist(i)
                            \/ PersistSync(i) \/ InstallerFails(i)
  BY Zenon DEF Install
<1> DEFINE Tool == [pc: {"idle", "applied", "renamed"}, draft: Conf,
                    operation: Operations \cup {None}]
<1>0. Idle \in Tool
  BY Zenon DEF Idle, NoConf, Conf, States
<1>1. CASE \E r \in Requests : Installer(i, r)
  <2> PICK r \in Requests : Installer(i, r)
    BY <1>1, Zenon
  <2>1. r \in Request /\ r.operation \in Operations
    BY BootstrapAssumption, Zenon DEF Request
  <2>2. Apply(now["conf"], r, issued + 1) \in Conf
    BY <2>1, ApplyOK DEF DiskOK
  <2>3. tool' \in [Installers -> Tool]
    BY <2>1, <2>2, Zenon DEF Installer
  <2> QED  BY <2>3 DEF Installer
<1>2. CASE Persist(i)
  <2>1. DiskOK(now')
    BY <1>2, FileNames, Zenon DEF Persist, DiskOK
  <2> QED  BY <1>2, <2>1, Zenon DEF Persist
<1>3. CASE PersistSync(i)
  <2>1. ASSUME tool[i].operation \in Operations PROVE Printed(i) \in Nat
    BY <2>1 DEF Printed, Conf
  <2>2. told' \in [Operations -> SUBSET Nat]
    <3>1. told' = [told EXCEPT ![tool[i].operation] = @ \cup {Printed(i)}]
      BY <1>3 DEF PersistSync
    <3>2. CASE tool[i].operation \in Operations
      BY <3>1, <3>2, <2>1
    <3>3. CASE tool[i].operation \notin Operations
      BY <3>1, <3>3, ZenonT(60)
    <3> QED  BY <3>2, <3>3
  <2>3. tool' \in [Installers -> Tool]
    BY <1>3, <1>0, Zenon DEF PersistSync
  <2> QED  BY <1>3, <2>2, <2>3, SyncedOK, Zenon DEF PersistSync
<1>4. CASE InstallerFails(i)
  <2>1. tool' \in [Installers -> Tool]
    BY <1>4, <1>0, Zenon DEF InstallerFails
  <2> QED  BY <1>4, <2>1 DEF InstallerFails, Trouble
<1> QED  BY <1>1, <1>2, <1>3, <1>4, Zenon

LEMMA OutsideOK == TypeOK /\ (PowerFailure \/ Lose) => TypeOK'
<1> SUFFICES ASSUME TypeOK, PowerFailure \/ Lose PROVE TypeOK'
  OBVIOUS
<1> USE DEF TypeOK, helpers, installation, package, history
<1>1. CASE PowerFailure
  <2>1. DiskOK(now') /\ DiskOK(safe')
    BY <1>1, RemainsOK, Zenon DEF PowerFailure
  <2>2. Idle \in [pc: {"idle", "applied", "renamed"}, draft: Conf,
                  operation: Operations \cup {None}]
    BY Zenon DEF Idle, NoConf, Conf, States
  <2> QED  BY <1>1, <2>1, <2>2 DEF PowerFailure, Trouble
<1>2. CASE Lose
  <2>1. DiskOK(now') /\ DiskOK(safe')
    <3> PICK gone : /\ now' = [f \in Files |-> IF f \in gone THEN Blank[f] ELSE now[f]]
                    /\ safe' = [f \in Files |-> IF f \in gone THEN Blank[f] ELSE safe[f]]
      BY <1>2, ZenonT(60) DEF Lose
    <3> QED  BY BlankOK, FileNames DEF DiskOK
  <2>2. lost' \in BOOLEAN
    BY <1>2, Zenon DEF Lose
  <2> QED  BY <1>2, <2>1, <2>2 DEF Lose, Trouble
<1> QED  BY <1>1, <1>2, Zenon

(* Bootstrap's state keeps its types.                                      *)
THEOREM TypeInvariance == Spec => []TypeOK
<1>1. TypeOK /\ [Next]_vars => TypeOK'
  <2>1. TypeOK /\ UNCHANGED vars => TypeOK'
    BY Zenon DEF TypeOK, vars, helpers, installation, package, history
  <2> QED  BY <2>1, ScriptOK, StartPreOK, DaemonOK, InstallOK, OutsideOK, Zenon DEF Next
<1> QED  BY <1>1, InitOK, PTL DEF Spec

-----------------------------------------------------------------------------
(* The receipt, the locks and the first registry.  A registry is created   *)
(* at most once because that takes a claim of the present activation, a    *)
(* claim takes a FRESH receipt, and only a scriptlet that found no         *)
(* authority directory writes one.                                         *)
Locked == {"checking", "making", "entering", "preflight", "claimed"}

ReceiptInv ==
    /\ created \in {0, 1}
    /\ now["registry"] \in {0, created} /\ safe["registry"] \in {0, created}
    /\ served \subseteq {1}
    /\ created = 1 => /\ now["authority"] /\ safe["authority"]
                      /\ now["receipt"].phase # "FRESH" /\ safe["receipt"].phase # "FRESH"
    /\ script \in {"made", "protected", "written"} => unit = "inactive" /\ created = 0
    /\ script \in Migrating => unit \in {"inactive", "locking"} /\ release7
    /\ unit # "inactive" => now["authority"]
    /\ unit \in Locked \cup {"prepared"} \cup DaemonRuns => safe["authority"]
    /\ unit \in {"prepared"} \cup DaemonRuns =>
          /\ now["receipt"].phase \in {"CLAIMED", "INITIALIZED"}
          /\ safe["receipt"].phase \in {"CLAIMED", "INITIALIZED"}
    /\ unit = "claimed" => created = 0 /\ now["receipt"] = Receipt("CLAIMED", invocation)
    /\ unit = "prepared" /\ now["receipt"] = Receipt("CLAIMED", invocation) => created = 0
    /\ unit = "creating" /\ now["registry"] = 0 /\ ~now["database"] => created = 0
    /\ unit \in {"naming", "syncing"} => now["registry"] = 1

(* The stores an initialized device has, in either form of each file.      *)
Stored(disk) == disk["state"] /\ disk["registry"] # 0 /\ disk["database"]

StoresInv == ~lost =>
    /\ \/ release7
       \/ now["receipt"].phase = "INITIALIZED" \/ safe["receipt"].phase = "INITIALIZED"
       \/ unit \in {"ready", "completed", "active"}
       => Stored(now) /\ Stored(safe)
    /\ unit = "entering" => now["state"]
    /\ unit \in {"preflight", "claimed", "prepared"} \cup DaemonRuns =>
          now["state"] /\ safe["state"]
    /\ unit = "syncing" => now["database"]

LEMMA ScriptReceipt == TypeOK /\ ReceiptInv /\ Script => ReceiptInv'
<1> SUFFICES ASSUME TypeOK, ReceiptInv, Script PROVE ReceiptInv'
  OBVIOUS
<1> USE FileNames DEF TypeOK, DiskOK, ReceiptInv, Locked, Migrating, DaemonRuns, Preparing, helpers, installation,
        package, history
<1>1. CASE FirstInstall
  BY <1>1, Zenon DEF FirstInstall
<1>2. CASE FirstInstallProtect
  BY <1>2, Zenon DEF FirstInstallProtect, Synced, AuthorityFiles
<1>3. CASE FirstInstallWrite
  BY <1>3 DEF FirstInstallWrite, Receipt
<1>4. CASE MigrateRelease7
  BY <1>4, Zenon DEF MigrateRelease7, Exclusive, Shared
<1>5. CASE MigrateRelease7Write
  BY <1>5, Zenon DEF MigrateRelease7Write, Synced, Receipt
<1>6. CASE ScriptSync
  BY <1>6, Zenon DEF ScriptSync, Synced, AuthorityFiles
<1>7. CASE ScriptFails
  BY <1>7, Zenon DEF ScriptFails
<1> QED  BY <1>1, <1>2, <1>3, <1>4, <1>5, <1>6, <1>7, ZenonT(60) DEF Script

LEMMA StartPreReceipt == TypeOK /\ ReceiptInv /\ StartPre => ReceiptInv'
<1> SUFFICES ASSUME TypeOK, ReceiptInv, StartPre PROVE ReceiptInv'
  OBVIOUS
<1> USE FileNames DEF TypeOK, DiskOK, ReceiptInv, Locked, Migrating, DaemonRuns, Preparing, helpers, installation,
        package, history
<1>1. CASE Prepare
  BY <1>1, Zenon DEF Prepare
<1>2. CASE PrepareLock
  <2>1. CASE Exclusive \/ Shared
    BY <1>2, <2>1 DEF PrepareLock, Synced
  <2>2. CASE ~(Exclusive \/ Shared)
    <3>1. \A f \in Files \ {"lock"} : now'[f] = now[f]
      BY <1>2 DEF PrepareLock
    <3> DEFINE F == {"authority"} \cup AuthorityFiles
    <3>3. safe' = [Synced(F) EXCEPT !["lock"] = TRUE]
      BY <1>2, <2>2, ZenonT(60) DEF PrepareLock
    <3>4. \A f \in Files \ {"lock"} : safe'[f] = Synced(F)[f]
      BY <3>3, Zenon DEF Synced
    <3>5. /\ \A f \in {"authority", "receipt"} : safe'[f] = now[f]
          /\ \A f \in {"registry", "database", "state"} : safe'[f] = safe[f]
      BY <3>4, ZenonT(60) DEF Synced, AuthorityFiles
    <3>2. unit = "locking" /\ unit' = "checking" /\ script \notin Migrating
      BY <1>2, <2>2 DEF PrepareLock, Exclusive
    <3> QED  BY <1>2, <3>1, <3>2, <3>5 DEF PrepareLock
  <2> QED  BY <2>1, <2>2, Zenon
<1>3. CASE PrepareCheck
  BY <1>3, Zenon DEF PrepareCheck
<1>4. CASE PrepareState
  BY <1>4, Zenon DEF PrepareState
<1>5. CASE PrepareFiles
  BY <1>5, Zenon DEF PrepareFiles, Synced, AuthorityFiles, StateFiles
<1>6. CASE BootstrapPreflight
  BY <1>6 DEF BootstrapPreflight, Synced, AuthorityFiles, Receipt
<1>7. CASE PersistReceipt
  BY <1>7 DEF PersistReceipt, Synced, AuthorityFiles, Receipt
<1> QED  BY <1>1, <1>2, <1>3, <1>4, <1>5, <1>6, <1>7, Zenon DEF StartPre

LEMMA DaemonReceipt == TypeOK /\ ReceiptInv /\ Daemon => ReceiptInv'
<1> SUFFICES ASSUME TypeOK, ReceiptInv, Daemon PROVE ReceiptInv'
  OBVIOUS
<1> USE FileNames DEF TypeOK, DiskOK, ReceiptInv, Locked, Migrating, DaemonRuns, Preparing, helpers, installation,
        package, history
<1>1. CASE CheckBootstrap
  BY <1>1, Zenon DEF CheckBootstrap, Assess, Receipt
<1>2. CASE DaemonRegistry
  BY <1>2 DEF DaemonRegistry
<1>3. CASE DaemonDatabase
  BY <1>3, Zenon DEF DaemonDatabase, Synced, StateFiles
<1>4. CASE DaemonReady
  BY <1>4, ZenonT(60) DEF DaemonReady, Synced, StateFiles
<1>5. CASE CompleteBootstrap
  BY <1>5 DEF CompleteBootstrap, Synced, AuthorityFiles, Receipt
<1>6. CASE CompleteSync
  BY <1>6, Zenon DEF CompleteSync, Synced, AuthorityFiles
<1>7. CASE UnitStops \/ UnitFails
  BY <1>7, ZenonT(60) DEF UnitStops, UnitFails
<1> QED  BY <1>1, <1>2, <1>3, <1>4, <1>5, <1>6, <1>7, ZenonT(60) DEF Daemon

LEMMA InstallReceipt == TypeOK /\ ReceiptInv /\ Install => ReceiptInv'
<1> SUFFICES ASSUME TypeOK, ReceiptInv, Install PROVE ReceiptInv'
  OBVIOUS
<1> USE FileNames DEF TypeOK, DiskOK, ReceiptInv, helpers, package, history
<1> PICK i \in Installers : (\E r \in Requests : Installer(i, r)) \/ Persist(i)
                            \/ PersistSync(i) \/ InstallerFails(i)
  BY Zenon DEF Install
<1>1. CASE \E r \in Requests : Installer(i, r)
  <2>1. UNCHANGED <<now, safe, unit, invocation, script, release7, created, served, lost>>
    BY <1>1, ZenonT(60) DEF Installer
  <2> QED  BY <2>1
<1>2. CASE Persist(i)
  BY <1>2, ZenonT(60) DEF Persist
<1>3. CASE PersistSync(i)
  BY <1>3, Zenon DEF PersistSync, Synced, AuthorityFiles
<1>4. CASE InstallerFails(i)
  BY <1>4 DEF InstallerFails
<1> QED  BY <1>1, <1>2, <1>3, <1>4, ZenonT(60)

LEMMA OutsideReceipt == TypeOK /\ ReceiptInv /\ (PowerFailure \/ Lose) => ReceiptInv'
<1> SUFFICES ASSUME TypeOK, ReceiptInv, PowerFailure \/ Lose PROVE ReceiptInv'
  BY SMTT(60)
<1> USE DEF TypeOK, ReceiptInv, helpers, package, history
<1>1. CASE PowerFailure
  <2>1. \A f \in Files : safe'[f] = now'[f] /\ (now'[f] = now[f] \/ now'[f] = safe[f])
    BY <1>1, RemainsOK, Zenon DEF PowerFailure
  <2> QED  BY <1>1, <2>1, FileNames, Zenon DEF PowerFailure, Migrating, Locked, DaemonRuns
<1>2. CASE Lose
  <2> PICK gone \in {{"registry"}, {"database"}, {"registry", "database", "state"}} :
            /\ now' = [f \in Files |-> IF f \in gone THEN Blank[f] ELSE now[f]]
            /\ safe' = [f \in Files |-> IF f \in gone THEN Blank[f] ELSE safe[f]]
    BY <1>2, Zenon DEF Lose
  <2>1. /\ \A f \in {"authority", "receipt"} : now'[f] = now[f] /\ safe'[f] = safe[f]
        /\ \A disk \in {now', safe'} : disk["registry"] \in {0, created}
    BY FileNames, ZenonT(60) DEF Blank
  <2> QED  BY <1>2, <2>1, Zenon DEF Lose, Locked, DaemonRuns
<1> QED  BY <1>1, <1>2, Zenon

LEMMA ScriptStores == TypeOK /\ ReceiptInv /\ StoresInv /\ Script => StoresInv'
<1> SUFFICES ASSUME TypeOK, ReceiptInv, StoresInv, Script PROVE StoresInv'
  OBVIOUS
<1> USE FileNames DEF TypeOK, DiskOK, ReceiptInv, StoresInv, Stored, Locked, Migrating, DaemonRuns, Preparing, helpers, installation,
        package, history
<1>1. CASE FirstInstall
  BY <1>1, Zenon DEF FirstInstall
<1>2. CASE FirstInstallProtect
  BY <1>2, Zenon DEF FirstInstallProtect, Synced, AuthorityFiles
<1>3. CASE FirstInstallWrite
  BY <1>3, Zenon DEF FirstInstallWrite, Receipt
<1>4. CASE MigrateRelease7
  BY <1>4, Zenon DEF MigrateRelease7, Exclusive, Shared
<1>5. CASE MigrateRelease7Write
  BY <1>5, Zenon DEF MigrateRelease7Write, Synced, Receipt
<1>6. CASE ScriptSync
  BY <1>6, Zenon DEF ScriptSync, Synced, AuthorityFiles
<1>7. CASE ScriptFails
  BY <1>7, ZenonT(60) DEF ScriptFails
<1> QED  BY <1>1, <1>2, <1>3, <1>4, <1>5, <1>6, <1>7, ZenonT(60) DEF Script

LEMMA StartPreStores == TypeOK /\ ReceiptInv /\ StoresInv /\ StartPre => StoresInv'
<1> SUFFICES ASSUME TypeOK, ReceiptInv, StoresInv, StartPre PROVE StoresInv'
  OBVIOUS
<1> USE FileNames DEF TypeOK, DiskOK, ReceiptInv, StoresInv, Stored, Locked, Migrating, DaemonRuns, Preparing, helpers, installation,
        package, history
<1>1. CASE Prepare
  BY <1>1, Zenon DEF Prepare
<1>2. CASE PrepareLock
  <2>1. CASE Exclusive \/ Shared
    BY <1>2, <2>1 DEF PrepareLock, Synced
  <2>2. CASE ~(Exclusive \/ Shared)
    <3>1. \A f \in Files \ {"lock"} : now'[f] = now[f]
      BY <1>2 DEF PrepareLock
    <3> DEFINE F == {"authority"} \cup AuthorityFiles
    <3>3. safe' = [Synced(F) EXCEPT !["lock"] = TRUE]
      BY <1>2, <2>2, ZenonT(60) DEF PrepareLock
    <3>4. \A f \in Files \ {"lock"} : safe'[f] = Synced(F)[f]
      BY <3>3, Zenon DEF Synced
    <3>5. /\ \A f \in {"authority", "receipt"} : safe'[f] = now[f]
          /\ \A f \in {"registry", "database", "state"} : safe'[f] = safe[f]
      BY <3>4, ZenonT(60) DEF Synced, AuthorityFiles
    <3>2. unit = "locking" /\ unit' = "checking" /\ script \notin Migrating
      BY <1>2, <2>2 DEF PrepareLock, Exclusive
    <3> QED  BY <1>2, <3>1, <3>2, <3>5 DEF PrepareLock
  <2> QED  BY <2>1, <2>2, Zenon
<1>3. CASE PrepareCheck
  BY <1>3, Zenon DEF PrepareCheck
<1>4. CASE PrepareState
  BY <1>4, Zenon DEF PrepareState
<1>5. CASE PrepareFiles
  BY <1>5, Zenon DEF PrepareFiles, Synced, AuthorityFiles, StateFiles
<1>6. CASE BootstrapPreflight
  BY <1>6 DEF BootstrapPreflight, Synced, AuthorityFiles, Receipt
<1>7. CASE PersistReceipt
  BY <1>7, Zenon DEF PersistReceipt, Synced, AuthorityFiles, Receipt
<1> QED  BY <1>1, <1>2, <1>3, <1>4, <1>5, <1>6, <1>7, Zenon DEF StartPre

LEMMA DaemonStores == TypeOK /\ ReceiptInv /\ StoresInv /\ Daemon => StoresInv'
<1> SUFFICES ASSUME TypeOK, ReceiptInv, StoresInv, Daemon PROVE StoresInv'
  OBVIOUS
<1> USE FileNames DEF TypeOK, DiskOK, ReceiptInv, StoresInv, Stored, Locked, Migrating, DaemonRuns, Preparing, helpers, installation,
        package, history
<1>1. CASE CheckBootstrap
  BY <1>1, Zenon DEF CheckBootstrap, Assess, Receipt
<1>2. CASE DaemonRegistry
  BY <1>2 DEF DaemonRegistry
<1>3. CASE DaemonDatabase
  BY <1>3, Zenon DEF DaemonDatabase, Synced, StateFiles
<1>4. CASE DaemonReady
  BY <1>4 DEF DaemonReady, Synced, StateFiles
<1>5. CASE CompleteBootstrap
  BY <1>5 DEF CompleteBootstrap, Synced, AuthorityFiles, Receipt
<1>6. CASE CompleteSync
  BY <1>6, Zenon DEF CompleteSync, Synced, AuthorityFiles
<1>7. CASE UnitStops \/ UnitFails
  BY <1>7, Zenon DEF UnitStops, UnitFails
<1> QED  BY <1>1, <1>2, <1>3, <1>4, <1>5, <1>6, <1>7, ZenonT(60) DEF Daemon

LEMMA InstallStores == TypeOK /\ StoresInv /\ Install => StoresInv'
<1> SUFFICES ASSUME TypeOK, StoresInv, Install PROVE StoresInv'
  OBVIOUS
<1> USE FileNames DEF TypeOK, DiskOK, StoresInv, Stored, helpers, package, history
<1> PICK i \in Installers : (\E r \in Requests : Installer(i, r)) \/ Persist(i)
                            \/ PersistSync(i) \/ InstallerFails(i)
  BY Zenon DEF Install
<1>1. CASE \E r \in Requests : Installer(i, r)
  <2>1. UNCHANGED <<now, safe, unit, invocation, script, release7, created, served, lost>>
    BY <1>1, ZenonT(60) DEF Installer
  <2> QED  BY <2>1, Zenon
<1>2. CASE Persist(i)
  BY <1>2, Zenon DEF Persist
<1>3. CASE PersistSync(i)
  BY <1>3, ZenonT(60) DEF PersistSync, Synced, AuthorityFiles
<1>4. CASE InstallerFails(i)
  BY <1>4, Zenon DEF InstallerFails
<1> QED  BY <1>1, <1>2, <1>3, <1>4, ZenonT(60)

LEMMA OutsideStores == TypeOK /\ StoresInv /\ (PowerFailure \/ Lose) => StoresInv'
<1> SUFFICES ASSUME TypeOK, StoresInv, PowerFailure \/ Lose PROVE StoresInv'
  OBVIOUS
<1> USE DEF TypeOK, StoresInv, Stored, helpers, package, history
<1>1. CASE PowerFailure
  <2>1. \A f \in Files : safe'[f] = now'[f] /\ (now'[f] = now[f] \/ now'[f] = safe[f])
    BY <1>1, RemainsOK, Zenon DEF PowerFailure
  <2> QED  BY <1>1, <2>1, FileNames, Zenon DEF PowerFailure, DaemonRuns
<1>2. CASE Lose
  BY <1>2, Zenon DEF Lose
<1> QED  BY <1>1, <1>2, Zenon

-----------------------------------------------------------------------------
LEMMA DeviceInit == Init => ReceiptInv /\ StoresInv
<1> SUFFICES ASSUME Init PROVE ReceiptInv /\ StoresInv
  BY SMTT(60)
<1>1. CASE release7
  <2>1. /\ \A f \in {"authority", "state", "database"} : Release7[f] = TRUE
        /\ Release7["registry"] = 1 /\ Release7["receipt"] = Receipt("ABSENT", 0)
    BY FileNames, ZenonT(60) DEF Release7, Blank
  <2>2. now = Release7 /\ safe = Release7 /\ created = 1 /\ served = {1}
    BY <1>1, Zenon DEF Init
  <2> QED  BY <1>1, <2>1, <2>2 DEF Init, ReceiptInv, StoresInv, Stored, Receipt, Migrating,
                   Locked, DaemonRuns
<1>2. CASE ~release7
  BY <1>2, FileNames DEF Init, ReceiptInv, StoresInv, Stored, Blank, Receipt, Migrating,
         Locked, DaemonRuns
<1> QED  BY <1>1, <1>2, Zenon

LEMMA DeviceInvariance == Spec => [](TypeOK /\ ReceiptInv /\ StoresInv)
<1> DEFINE DInv == TypeOK /\ ReceiptInv /\ StoresInv
<1>1. Init => DInv
  BY InitOK, DeviceInit, Zenon
<1>2. DInv /\ [Next]_vars => DInv'
  <2>1. DInv /\ UNCHANGED vars => DInv'
    <3> SUFFICES ASSUME DInv, UNCHANGED vars PROVE DInv'
      OBVIOUS
    <3>1. TypeOK'
      BY Zenon DEF TypeOK, vars, helpers, installation, package, history
    <3>2. ReceiptInv'
      BY DEF ReceiptInv, vars, helpers, installation, package, history
    <3>3. StoresInv'
      BY DEF StoresInv, Stored, vars, helpers, installation, package, history
    <3> QED  BY <3>1, <3>2, <3>3
  <2>2. DInv /\ Next => TypeOK'
    BY ScriptOK, StartPreOK, DaemonOK, InstallOK, OutsideOK, Zenon DEF Next
  <2>3. DInv /\ Next => ReceiptInv'
    BY ScriptReceipt, StartPreReceipt, DaemonReceipt, InstallReceipt, OutsideReceipt, Zenon DEF Next
  <2>4. DInv /\ Next => StoresInv'
    BY ScriptStores, StartPreStores, DaemonStores, InstallStores, OutsideStores, Zenon DEF Next
  <2> QED  BY <2>1, <2>2, <2>3, <2>4, Zenon
<1> QED  BY <1>1, <1>2, PTL DEF Spec

(* A device serves one registry in its life, whatever is lost, killed, run *)
(* again or cut off from power, for any number of each (recovery_state.cc, *)
(* storage_prepare.cc, bootstrap.cc).                                      *)
THEOREM OneRegistryIsServed == Spec => []NoSilentReset
<1>1. ReceiptInv => NoSilentReset
  <2> SUFFICES ASSUME ReceiptInv PROVE NoSilentReset
    OBVIOUS
  <2>1. IsFiniteSet({1}) /\ Cardinality({1}) = 1
    BY FS_Singleton, ZenonT(60)
  <2>2. served \subseteq {1}
    BY Zenon DEF ReceiptInv
  <2>3. Cardinality(served) <= Cardinality({1})
    BY <2>1, <2>2, FS_Subset, ZenonT(60)
  <2> QED  BY <2>1, <2>3, Zenon DEF NoSilentReset
<1> QED  BY <1>1, DeviceInvariance, PTL

(* As long as no file is lost, a device whose receipt says INITIALIZED has *)
(* its stores after any power failure (CompleteBootstrap, MigrateRelease7).*)
THEOREM InitializedDevicesBoot == Spec => []InitializedStaysBootable
<1>1. TypeOK /\ StoresInv => InitializedStaysBootable
  <2> SUFFICES ASSUME TypeOK, StoresInv, ~lost, NEW disk \in Remains,
                      disk["receipt"].phase = "INITIALIZED"
               PROVE  disk["state"] /\ Assess(disk) = "EXISTING"
    BY Zenon DEF InitializedStaysBootable
  <2>1. \A f \in Files : disk[f] = now[f] \/ disk[f] = safe[f]
    BY RemainsOK, Zenon DEF TypeOK
  <2>2. Stored(now) /\ Stored(safe)
    BY <2>1, FileNames, Zenon DEF StoresInv
  <2>3. Stored(disk)
    BY <2>1, <2>2, FileNames, Zenon DEF Stored
  <2> QED  BY <2>3, Zenon DEF Stored, Assess, Receipt
<1> QED  BY <1>1, DeviceInvariance, PTL

-----------------------------------------------------------------------------
(* What consent-installation-authority reports is kept.                    *)

(* Every operation the older file records is recorded the same.            *)
Extends(new, old) ==
    \A o \in Operations :
        old.operations[o].fingerprint # None => new.operations[o] = old.operations[o]

(* A file whose generations are among the first n, and in which no         *)
(* recorded removal or replacement is undone.                              *)
Retires(conf, n) ==
    /\ \A p \in Packages : conf.packages[p].generation <= n
    /\ \A o \in Operations : \A r \in Request :
          /\ conf.operations[o].fingerprint = r
          /\ r.command \in {"begin", "remove"} /\ r.expected # 0
          => /\ r.expected <= n
             /\ \/ conf.packages[r.package].generation # r.expected
                \/ conf.packages[r.package].state = "removed"

(* One tool at a time is between reading the file and the sync.  What it   *)
(* is about to write extends the file; what it has written is the file.    *)
ToolInv ==
    /\ \A i, j \in Installers : i # j => tool[i].pc = "idle" \/ tool[j].pc = "idle"
    /\ \A i \in Installers : tool[i].pc # "idle" =>
          /\ tool[i].operation \in Operations
          /\ tool[i].draft.operations[tool[i].operation].fingerprint # None
          /\ tool[i].pc = "renamed" => tool[i].draft = now["conf"]
          /\ tool[i].pc = "applied" => Extends(tool[i].draft, now["conf"])

(* A printed result is recorded, and the record is durable.                *)
ToldInv ==
    \A o \in Operations : \A generation \in told[o] :
        /\ now["conf"].operations[o].fingerprint # None
        /\ now["conf"].operations[o].generation = generation
        /\ safe["conf"].operations[o] = now["conf"].operations[o]

RetireInv ==
    /\ Retires(now["conf"], issued) /\ Retires(safe["conf"], issued)
    /\ \A i \in Installers : Retires(tool[i].draft, issued)

AuthorityInv == ToolInv /\ ToldInv /\ RetireInv

-----------------------------------------------------------------------------
(* What one command does to the file.                                      *)
LEMMA ChangedShape ==
    ASSUME NEW conf \in Conf, NEW r \in Request, NEW fresh \in Nat
    PROVE  /\ Changed(conf, r, fresh).operations = conf.operations
           /\ r.command = "begin" => Changed(conf, r, fresh).packages =
                [conf.packages EXCEPT ![r.package] = [generation |-> fresh, state |-> "pending"]]
           /\ r.command = "attach" => Changed(conf, r, fresh).packages = conf.packages
           /\ r.command = "commit" => Changed(conf, r, fresh).packages =
                [conf.packages EXCEPT ![r.package].state = "active"]
           /\ r.command = "remove" => Changed(conf, r, fresh).packages =
                [conf.packages EXCEPT ![r.package].state = "removed"]
<1>1. r.command \in {"begin", "attach", "commit", "remove"}
  BY Zenon DEF Request
<1>2. CASE r.command = "begin"
  BY <1>2, ZenonT(60) DEF Changed, Begun, Conf
<1>3. CASE r.command = "attach"
  BY <1>3, Zenon DEF Changed, Attached, Conf
<1>4. CASE r.command = "commit"
  BY <1>4, ZenonT(60) DEF Changed, Committed, Conf
<1>5. CASE r.command = "remove"
  BY <1>5, ZenonT(60) DEF Changed, Removed, Conf
<1> QED  BY <1>1, <1>2, <1>3, <1>4, <1>5, Zenon

LEMMA ApplyShape ==
    ASSUME NEW conf \in Conf, NEW r \in Request, NEW fresh \in Nat, ~Repeats(conf, r)
    PROVE  /\ Apply(conf, r, fresh).packages = Changed(conf, r, fresh).packages
           /\ Apply(conf, r, fresh).operations =
                [conf.operations EXCEPT ![r.operation] =
                    [fingerprint |-> r, generation |-> Result(conf, r, fresh)]]
<1> DEFINE c == Changed(conf, r, fresh)
           record == [fingerprint |-> r, generation |-> Result(conf, r, fresh)]
<1>1. c.operations = conf.operations
  BY ChangedShape, ZenonT(60)
<1>2. c \in Conf
  BY ChangedOK, Zenon
<1> QED  BY <1>1, <1>2, Zenon DEF Apply, Conf

LEMMA ApplyExtends ==
    ASSUME NEW conf \in Conf, NEW r \in Request, NEW fresh \in Nat, ~Conflicts(conf, r)
    PROVE  /\ Extends(Apply(conf, r, fresh), conf)
           /\ Apply(conf, r, fresh).operations[r.operation].fingerprint = r
<1>1. CASE Repeats(conf, r)
  BY <1>1, Zenon DEF Apply, Repeats, Extends
<1>2. CASE ~Repeats(conf, r)
  <2>1. conf.operations[r.operation].fingerprint = None /\ r.operation \in Operations
    BY <1>2, Zenon DEF Repeats, Conflicts, Request
  <2>2. DOMAIN conf.operations = Operations
    BY Zenon DEF Conf
  <2>3. Apply(conf, r, fresh).operations =
            [conf.operations EXCEPT ![r.operation] =
                [fingerprint |-> r, generation |-> Result(conf, r, fresh)]]
    BY <1>2, ApplyShape
  <2> QED  BY <2>1, <2>2, <2>3 DEF Extends
<1> QED  BY <1>1, <1>2, Zenon

LEMMA RetiresLater ==
    ASSUME NEW conf \in Conf, NEW n \in Nat, NEW m \in Nat, n <= m, Retires(conf, n)
    PROVE  Retires(conf, m)
BY DEF Retires, Conf, Request

(* A command leaves no recorded removal or replacement undone: a new       *)
(* generation is one never handed out, and only a pending one is activated.*)
LEMMA ApplyRetires ==
    ASSUME NEW conf \in Conf, NEW r \in Request, NEW n \in Nat,
           Retires(conf, n), ~Repeats(conf, r), ~Conflicts(conf, r), Applies(conf, r)
    PROVE  Retires(Apply(conf, r, n + 1), IF r.command = "begin" THEN n + 1 ELSE n)
<1> DEFINE new == Apply(conf, r, n + 1)
           m == IF r.command = "begin" THEN n + 1 ELSE n
<1>1. /\ r.command \in {"begin", "attach", "commit", "remove"} /\ r.package \in Packages
      /\ r.operation \in Operations /\ r.expected \in Nat
  BY Zenon DEF Request
<1>2. /\ new.packages = Changed(conf, r, n + 1).packages
      /\ \A o \in Operations \ {r.operation} : new.operations[o] = conf.operations[o]
      /\ new.operations[r.operation].fingerprint = r
  <2>1. n + 1 \in Nat /\ DOMAIN conf.operations = Operations
    BY DEF Conf
  <2>2. new.operations = [conf.operations EXCEPT ![r.operation] =
            [fingerprint |-> r, generation |-> Result(conf, r, n + 1)]]
    BY <2>1, ApplyShape
  <2>3. new.packages = Changed(conf, r, n + 1).packages
    BY <2>1, ApplyShape, ZenonT(60)
  <2> QED  BY <1>1, <2>1, <2>2, <2>3
<1>3. /\ DOMAIN conf.packages = Packages
      /\ \A p \in Packages : conf.packages[p].generation \in Nat /\ conf.packages[p].generation <= n
  BY Zenon DEF Conf, Retires
<1>4. conf.packages[r.package].generation = r.expected
  BY Zenon DEF Applies
<1> DEFINE after == Changed(conf, r, n + 1).packages
<1>5. /\ r.command = "begin" =>
            after = [conf.packages EXCEPT ![r.package] = [generation |-> n + 1, state |-> "pending"]]
      /\ r.command = "attach" => after = conf.packages
      /\ r.command = "commit" => after = [conf.packages EXCEPT ![r.package].state = "active"]
      /\ r.command = "remove" => after = [conf.packages EXCEPT ![r.package].state = "removed"]
  <2>1. n + 1 \in Nat
    OBVIOUS
  <2> QED  BY <2>1, ChangedShape
<1>6. /\ \A p \in Packages \ {r.package} : new.packages[p] = conf.packages[p]
      /\ r.command = "begin" => new.packages[r.package].generation = n + 1
      /\ r.command # "begin" =>
            new.packages[r.package].generation = conf.packages[r.package].generation
      /\ r.command = "remove" => new.packages[r.package].state = "removed"
  <2>1. conf.packages[r.package] \in [generation: Nat, state: States]
    BY <1>1, Zenon DEF Conf
  <2>2. new.packages = after
    BY <1>2, Zenon
  <2> HIDE DEF after, new
  <2>3. CASE r.command = "begin"
    BY <1>1, <1>3, <1>5, <2>1, <2>2, <2>3
  <2>4. CASE r.command = "attach"
    BY <1>1, <1>3, <1>5, <2>1, <2>2, <2>4, Zenon
  <2>5. CASE r.command = "commit"
    BY <1>1, <1>3, <1>5, <2>1, <2>2, <2>5
  <2>6. CASE r.command = "remove"
    BY <1>1, <1>3, <1>5, <2>1, <2>2, <2>6
  <2> QED  BY <1>1, <2>3, <2>4, <2>5, <2>6, Zenon
<1>7. r.command \in {"attach", "commit"} => conf.packages[r.package].state = "pending"
  BY Zenon DEF Applies
<1>8. \A p \in Packages : new.packages[p].generation <= m
  BY <1>1, <1>3, <1>6
<1>9. ASSUME NEW o \in Operations, NEW q \in Request, new.operations[o].fingerprint = q,
             q.command \in {"begin", "remove"}, q.expected # 0
      PROVE  /\ q.expected <= m
             /\ \/ new.packages[q.package].generation # q.expected
                \/ new.packages[q.package].state = "removed"
  <2>1. q.expected \in Nat /\ q.package \in Packages
    BY Zenon DEF Request
  <2>2. CASE o = r.operation
    <3>1. q = r
      BY <1>2, <1>9, <2>2
    <3> QED  BY <1>1, <1>3, <1>4, <1>6, <1>9, <3>1
  <2>3. CASE o # r.operation
    <3>1. /\ q.expected <= n
          /\ \/ conf.packages[q.package].generation # q.expected
             \/ conf.packages[q.package].state = "removed"
      BY <1>2, <1>9, <2>3, ZenonT(60) DEF Retires
    <3>2. CASE q.package # r.package
      BY <1>6, <2>1, <3>1, <3>2
    <3>3. CASE q.package = r.package
      BY <1>1, <1>6, <1>7, <2>1, <3>1, <3>3
    <3> QED  BY <3>2, <3>3
  <2> QED  BY <2>2, <2>3, Zenon
<1> HIDE DEF new, m
<1>10. Retires(new, m)
  BY <1>8, <1>9, Zenon DEF Retires
<1> QED  BY <1>10, Zenon DEF new, m

-----------------------------------------------------------------------------
(* Steps that are not the tool's leave the file as it is; some make it     *)
(* durable.                                                                *)
Quiet ==
    /\ UNCHANGED <<tool, told, issued>>
    /\ now'["conf"] = now["conf"] /\ safe'["conf"] \in {now["conf"], safe["conf"]}

LEMMA OthersAreQuiet == TypeOK /\ (Script \/ StartPre \/ Daemon \/ Lose) => Quiet
<1> SUFFICES ASSUME TypeOK, Script \/ StartPre \/ Daemon \/ Lose PROVE Quiet
  OBVIOUS
<1>0. "conf" \in Files /\ DOMAIN now = Files /\ DOMAIN safe = Files
  BY FileNames, Zenon DEF TypeOK, DiskOK
<1>1. \A F : Synced(F)["conf"] \in {now["conf"], safe["conf"]}
  BY <1>0, Zenon DEF Synced
<1>2. CASE Script
  BY <1>0, <1>1, <1>2, Zenon DEF Script, FirstInstall, FirstInstallProtect, FirstInstallWrite,
     MigrateRelease7, MigrateRelease7Write, ScriptSync, ScriptFails, Quiet, installation
<1>3. CASE StartPre
  <2>1. \A F : [Synced(F) EXCEPT !["lock"] = TRUE]["conf"] = Synced(F)["conf"]
    BY <1>0, Zenon DEF Synced
  <2>2. CASE PrepareLock
    BY <1>0, <1>1, <2>1, <2>2, ZenonT(60) DEF PrepareLock, Quiet, installation
  <2>3. CASE StartPre /\ ~PrepareLock
    BY <1>0, <1>1, <2>3, Zenon DEF StartPre, Prepare, PrepareCheck, PrepareState, PrepareFiles,
       BootstrapPreflight, PersistReceipt, Quiet, installation
  <2> QED  BY <1>3, <2>2, <2>3, Zenon
<1>4. CASE Daemon
  BY <1>0, <1>1, <1>4, Zenon DEF Daemon, CheckBootstrap, DaemonDatabase, DaemonRegistry, DaemonReady,
     CompleteBootstrap, CompleteSync, UnitStops, UnitFails, Quiet, installation
<1>5. CASE Lose
  <2> PICK gone \in {{"registry"}, {"database"}, {"registry", "database", "state"}} :
            /\ now' = [f \in Files |-> IF f \in gone THEN Blank[f] ELSE now[f]]
            /\ safe' = [f \in Files |-> IF f \in gone THEN Blank[f] ELSE safe[f]]
    BY <1>5, Zenon DEF Lose
  <2> QED  BY <1>0, <1>5, Zenon DEF Lose, Quiet, installation
<1> QED  BY <1>2, <1>3, <1>4, <1>5, Zenon

LEMMA QuietKeeps == AuthorityInv /\ Quiet => AuthorityInv'
<1> SUFFICES ASSUME AuthorityInv, Quiet PROVE AuthorityInv'
  BY SMTT(60)
<1>1. ToolInv'
  BY DEF AuthorityInv, ToolInv, Quiet, Extends
<1>2. ToldInv'
  BY ZenonT(60) DEF AuthorityInv, ToldInv, Quiet
<1>3. RetireInv'
  BY ZenonT(60) DEF AuthorityInv, RetireInv, Quiet, Retires
<1> QED  BY <1>1, <1>2, <1>3, ZenonT(60) DEF AuthorityInv

-----------------------------------------------------------------------------
(* The tool.                                                               *)
LEMMA IdleRetires == ASSUME NEW n \in Nat PROVE Retires(Idle.draft, n)
BY AuthorityAssumption DEF Retires, Idle, NoConf

LEMMA InstallerKeeps ==
    ASSUME TypeOK, AuthorityInv, NEW i \in Installers, NEW r \in Requests, Installer(i, r)
    PROVE  AuthorityInv'
<1> DEFINE conf == now["conf"]
           new == Apply(conf, r, issued + 1)
<1>1. /\ conf \in Conf /\ r \in Request /\ issued \in Nat /\ issued + 1 \in Nat
      /\ r.operation \in Operations /\ r # None
  BY BootstrapAssumption, AuthorityAssumption DEF TypeOK, DiskOK, Request
<1>2. /\ tool[i].pc = "idle" /\ \A j \in Installers : tool[j].pc = "idle"
      /\ ~Conflicts(conf, r) /\ (Repeats(conf, r) \/ Applies(conf, r))
      /\ tool' = [tool EXCEPT ![i] = [pc |-> "applied", draft |-> new,
                                      operation |-> r.operation]]
      /\ issued' = IF Repeats(conf, r) \/ r.command # "begin" THEN issued ELSE issued + 1
      /\ UNCHANGED <<now, safe, told>>
  BY Zenon DEF Installer, Accepts
<1>3. Extends(new, conf) /\ new.operations[r.operation].fingerprint = r
  BY <1>1, <1>2, ApplyExtends, Zenon
<1>4. /\ Retires(conf, issued) /\ Retires(safe["conf"], issued)
      /\ \A j \in Installers : Retires(tool[j].draft, issued)
  BY Zenon DEF AuthorityInv, RetireInv
<1>5. Retires(new, issued')
  <2>1. CASE Repeats(conf, r)
    BY <1>2, <1>4, <2>1, Zenon DEF Apply
  <2>2. CASE ~Repeats(conf, r)
    BY <1>1, <1>2, <1>4, <2>2, ApplyRetires, Zenon
  <2> QED  BY <2>1, <2>2, Zenon
<1>6. issued' \in Nat /\ issued <= issued'
  BY <1>1, <1>2
<1>7. tool \in [Installers -> [pc: {"idle", "applied", "renamed"}, draft: Conf,
                               operation: Operations \cup {None}]]
  BY Zenon DEF TypeOK
<1> HIDE DEF new
<1>8. /\ tool'[i] = [pc |-> "applied", draft |-> new, operation |-> r.operation]
      /\ \A j \in Installers \ {i} : tool'[j] = tool[j]
  BY <1>2, <1>7, ZenonT(60)
<1>9. ToolInv'
  BY <1>1, <1>2, <1>3, <1>8 DEF ToolInv, Extends
<1>10. ToldInv'
  BY <1>2, Zenon DEF AuthorityInv, ToldInv
<1>11. RetireInv'
  <2>1. Retires(conf, issued') /\ Retires(safe["conf"], issued')
    BY <1>1, <1>4, <1>6, RetiresLater, ZenonT(60) DEF TypeOK, DiskOK
  <2>2. \A j \in Installers \ {i} : Retires(tool[j].draft, issued')
    BY <1>1, <1>4, <1>6, <1>7, RetiresLater, Zenon
  <2>3. now' = now /\ safe' = safe
    BY <1>2, Zenon
  <2>4. \A j \in Installers : Retires(tool'[j].draft, issued')
    <3> SUFFICES ASSUME NEW j \in Installers PROVE Retires(tool'[j].draft, issued')
      OBVIOUS
    <3>1. CASE j = i
      BY <1>5, <1>8, <3>1
    <3>2. CASE j # i
      BY <1>8, <2>2, <3>2
    <3> QED  BY <3>1, <3>2, Zenon
  <2>5. Retires(now'["conf"], issued') /\ Retires(safe'["conf"], issued')
    BY <2>1, <2>3, Zenon
  <2> QED  BY <2>4, <2>5, ZenonT(60) DEF RetireInv, Retires
<1> QED  BY <1>9, <1>10, <1>11, Zenon DEF AuthorityInv

LEMMA PersistKeeps ==
    ASSUME TypeOK, AuthorityInv, NEW i \in Installers, Persist(i)
    PROVE  AuthorityInv'
<1>1. /\ tool[i].pc = "applied" /\ UNCHANGED <<safe, issued, told>>
      /\ now'["conf"] = tool[i].draft
  BY FileNames, Zenon DEF Persist, TypeOK, DiskOK
<1>2. tool'[i].pc = "renamed" /\ tool'[i].draft = tool[i].draft
      /\ tool'[i].operation = tool[i].operation
      /\ \A j \in Installers \ {i} : tool'[j] = tool[j]
  BY Zenon DEF Persist, TypeOK
<1>3. /\ \A j \in Installers \ {i} : tool[j].pc = "idle"
      /\ tool[i].operation \in Operations
      /\ tool[i].draft.operations[tool[i].operation].fingerprint # None
      /\ Extends(tool[i].draft, now["conf"])
  BY <1>1, ZenonT(60) DEF AuthorityInv, ToolInv
<1>4. ToolInv'
  <2>1. \A j \in Installers \ {i} : tool'[j].pc = "idle"
    BY <1>2, <1>3, Zenon
  <2>2. "renamed" # "applied"
    OBVIOUS
  <2> QED  BY <1>1, <1>2, <1>3, <2>1, <2>2, ZenonT(60) DEF ToolInv
<1>5. ToldInv'
  BY <1>1, <1>3 DEF AuthorityInv, ToldInv, Extends
<1>6. RetireInv'
  <2>1. Retires(tool[i].draft, issued) /\ \A j \in Installers : Retires(tool[j].draft, issued)
    BY Zenon DEF AuthorityInv, RetireInv
  <2>2. \A j \in Installers : tool'[j].draft = tool[j].draft
    BY <1>2, Zenon
  <2>3. Retires(safe["conf"], issued)
    BY Zenon DEF AuthorityInv, RetireInv
  <2> QED  BY <1>1, <2>1, <2>2, <2>3, ZenonT(60) DEF RetireInv, Retires
<1> QED  BY <1>4, <1>5, <1>6, Zenon DEF AuthorityInv

LEMMA PersistSyncKeeps ==
    ASSUME TypeOK, AuthorityInv, NEW i \in Installers, PersistSync(i)
    PROVE  AuthorityInv'
<1> DEFINE op == tool[i].operation
<1>1. /\ tool[i].pc = "renamed" /\ UNCHANGED <<now, issued>>
      /\ told' = [told EXCEPT ![op] = @ \cup {Printed(i)}]
  BY Zenon DEF PersistSync
<1>2. safe'["conf"] = now["conf"]
  BY FileNames, Zenon DEF PersistSync, Synced, AuthorityFiles
<1>3. tool'[i] = Idle /\ \A j \in Installers \ {i} : tool'[j] = tool[j]
  BY Zenon DEF PersistSync, TypeOK
<1>4. /\ op \in Operations /\ tool[i].draft = now["conf"]
      /\ now["conf"].operations[op].fingerprint # None
  BY <1>1, Zenon DEF AuthorityInv, ToolInv
<1>5. \A o \in Operations : told'[o] = IF o = op THEN told[o] \cup {Printed(i)} ELSE told[o]
  BY <1>1, <1>4, ZenonT(60) DEF TypeOK
<1>6. Printed(i) = now["conf"].operations[op].generation
  BY <1>4, Zenon DEF Printed
<1>7. ToolInv'
  BY <1>1, <1>3 DEF AuthorityInv, ToolInv, Idle, Extends
<1>8. ToldInv'
  <2>1. now' = now
    BY <1>1, Zenon
  <2> SUFFICES ASSUME NEW o \in Operations, NEW generation \in told'[o]
               PROVE  /\ now["conf"].operations[o].fingerprint # None
                      /\ now["conf"].operations[o].generation = generation
    BY <1>2, <2>1, Zenon DEF ToldInv
  <2>2. CASE generation \in told[o]
    BY <2>2, Zenon DEF AuthorityInv, ToldInv
  <2>3. CASE generation \notin told[o]
    BY <1>4, <1>5, <1>6, <2>3, ZenonT(60)
  <2> QED  BY <2>2, <2>3, Zenon
<1>9. RetireInv'
  <2>1. Retires(now["conf"], issued) /\ \A j \in Installers : Retires(tool[j].draft, issued)
    BY Zenon DEF AuthorityInv, RetireInv
  <2>2. Retires(Idle.draft, issued)
    BY IdleRetires, Zenon DEF TypeOK
  <2>3. \A j \in Installers : Retires(tool'[j].draft, issued)
    BY <1>3, <2>1, <2>2, Zenon
  <2>4. now' = now /\ issued' = issued
    BY <1>1, Zenon
  <2> QED  BY <1>2, <2>1, <2>3, <2>4, ZenonT(60) DEF RetireInv, Retires
<1> QED  BY <1>7, <1>8, <1>9, Zenon DEF AuthorityInv

LEMMA InstallerFailsKeeps ==
    ASSUME TypeOK, AuthorityInv, NEW i \in Installers, InstallerFails(i)
    PROVE  AuthorityInv'
<1>1. UNCHANGED <<now, safe, issued, told>>
  BY Zenon DEF InstallerFails
<1>2. tool'[i] = Idle /\ \A j \in Installers \ {i} : tool'[j] = tool[j]
  BY ZenonT(60) DEF InstallerFails, TypeOK
<1>3. ToolInv'
  BY <1>1, <1>2 DEF AuthorityInv, ToolInv, Idle, Extends
<1>4. ToldInv'
  BY <1>1, Zenon DEF AuthorityInv, ToldInv
<1>5. RetireInv'
  <2>1. Retires(Idle.draft, issued)
    BY IdleRetires, Zenon DEF TypeOK
  <2>2. \A j \in Installers : Retires(tool'[j].draft, issued)
    BY <1>2, <2>1, Zenon DEF AuthorityInv, RetireInv
  <2> QED  BY <1>1, <2>2, ZenonT(60) DEF AuthorityInv, RetireInv, Retires
<1> QED  BY <1>3, <1>4, <1>5, Zenon DEF AuthorityInv

LEMMA PowerFailureKeeps == ASSUME TypeOK, AuthorityInv, PowerFailure PROVE AuthorityInv'
<1>1. UNCHANGED <<issued, told>> /\ now' \in Remains /\ safe' = now'
  BY Zenon DEF PowerFailure
<1>2. now'["conf"] = now["conf"] \/ now'["conf"] = safe["conf"]
  BY <1>1, RemainsOK, FileNames, Zenon DEF TypeOK
<1>3. \A j \in Installers : tool'[j] = Idle
  BY Zenon DEF PowerFailure
<1>4. ToolInv'
  BY <1>3 DEF ToolInv, Idle
<1>5. ToldInv'
  BY <1>1, <1>2 DEF AuthorityInv, ToldInv
<1>6. RetireInv'
  <2>1. Retires(Idle.draft, issued)
    BY IdleRetires, Zenon DEF TypeOK
  <2>2. \A j \in Installers : Retires(tool'[j].draft, issued)
    BY <1>3, <2>1, Zenon
  <2>3. Retires(now'["conf"], issued) /\ safe'["conf"] = now'["conf"]
    BY <1>1, <1>2, Zenon DEF AuthorityInv, RetireInv
  <2>4. issued' = issued
    BY <1>1, Zenon
  <2> QED  BY <2>2, <2>3, <2>4, Zenon DEF RetireInv, Retires
<1> QED  BY <1>4, <1>5, <1>6, Zenon DEF AuthorityInv

LEMMA AuthorityInit == Init => AuthorityInv
<1> SUFFICES ASSUME Init PROVE AuthorityInv
  OBVIOUS
<1>1. safe = now /\ now["conf"] = NoConf /\ issued = 0
  BY FileNames, ZenonT(60) DEF Init, Blank, Release7
<1>2. \A j \in Installers : tool[j] = Idle
  BY Zenon DEF Init
<1>3. Retires(NoConf, 0)
  BY IdleRetires, Zenon DEF Idle
<1>4. ToolInv
  BY <1>2 DEF ToolInv, Idle
<1>5. ToldInv
  BY Zenon DEF Init, ToldInv
<1>6. RetireInv
  BY <1>1, <1>2, <1>3 DEF RetireInv, Idle
<1> QED  BY <1>4, <1>5, <1>6, Zenon DEF AuthorityInv

LEMMA AuthorityInvariance == Spec => [](TypeOK /\ AuthorityInv)
<1>1. TypeOK /\ AuthorityInv /\ [Next]_vars => AuthorityInv'
  <2>1. UNCHANGED vars => Quiet
    BY Zenon DEF vars, helpers, installation, Quiet
  <2>2. TypeOK /\ AuthorityInv /\ Install => AuthorityInv'
    BY InstallerKeeps, PersistKeeps, PersistSyncKeeps, InstallerFailsKeeps, Zenon DEF Install
  <2> QED  BY <2>1, <2>2, OthersAreQuiet, QuietKeeps, PowerFailureKeeps, Zenon DEF Next
<1> QED  BY <1>1, AuthorityInit, TypeInvariance, PTL DEF Spec

-----------------------------------------------------------------------------
(* Every result consent-installation-authority printed is the one a retry  *)
(* gets, whatever a power failure leaves of the file (Persist).            *)
THEOREM PrintedResultsAreKept == Spec => []ResultsAreKept
<1>1. TypeOK /\ AuthorityInv => ResultsAreKept
  <2> SUFFICES ASSUME TypeOK, AuthorityInv, NEW o \in Operations, NEW generation \in told[o],
                      NEW disk \in Remains
               PROVE  /\ disk["conf"].operations[o].fingerprint # None
                      /\ disk["conf"].operations[o].generation = generation
    BY Zenon DEF ResultsAreKept
  <2>1. disk["conf"] = now["conf"] \/ disk["conf"] = safe["conf"]
    BY RemainsOK, FileNames, Zenon DEF TypeOK
  <2> QED  BY <2>1 DEF AuthorityInv, ToldInv
<1> QED  BY <1>1, AuthorityInvariance, PTL

(* No daemon takes a generation reported removed or replaced for installed *)
(* again, for any number of packages, operations, retries and power        *)
(* failures (Remove, Begin, InstallationIdentity).                         *)
THEOREM RetiredForGood == Spec => []RetiredStaysRetired
<1>1. TypeOK /\ AuthorityInv => RetiredStaysRetired
  <2> SUFFICES ASSUME TypeOK, AuthorityInv, NEW r \in Requests,
                      r.command \in {"begin", "remove"}, r.expected # 0,
                      told[r.operation] # {},
                      now["conf"].operations[r.operation].fingerprint = r,
                      NEW disk \in Remains, NEW app \in Apps
               PROVE  InstallationIdentity(disk["conf"], r.package, app) # r.expected
    BY Zenon DEF RetiredStaysRetired
  <2>1. r \in Request /\ r.operation \in Operations /\ r.package \in Packages
    BY BootstrapAssumption, Zenon DEF Request
  <2>2. disk["conf"] = now["conf"] \/ disk["conf"] = safe["conf"]
    BY RemainsOK, FileNames, Zenon DEF TypeOK
  <2>3. safe["conf"].operations[r.operation] = now["conf"].operations[r.operation]
    BY <2>1, Zenon DEF AuthorityInv, ToldInv
  <2>4. Retires(disk["conf"], issued) /\ disk["conf"].operations[r.operation].fingerprint = r
    BY <2>2, <2>3, Zenon DEF AuthorityInv, RetireInv
  <2>5. \/ disk["conf"].packages[r.package].generation # r.expected
        \/ disk["conf"].packages[r.package].state = "removed"
    BY <2>1, <2>4, Zenon DEF Retires
  <2> QED  BY <2>5, Zenon DEF InstallationIdentity
<1> QED  BY <1>1, AuthorityInvariance, PTL
=============================================================================
