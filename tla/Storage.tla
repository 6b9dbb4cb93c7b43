------------------------------ MODULE Storage -------------------------------
(***************************************************************************)
(* The files behind the repository: the definition registry, written by    *)
(* temporary file, rename and directory sync, and the database, whose      *)
(* identity the registry records.  One executor runs one job at a time;    *)
(* between any two of its file operations the daemon may crash, the power  *)
(* may fail, and an operation may return an error.  The database file may  *)
(* be deleted, replaced or damaged while the daemon is stopped, idle or    *)
(* between the checks of a job.                                            *)
(*                                                                         *)
(* Contents are abstracted: a registry revision is the set of operations   *)
(* recorded in it, a consent decision is a member of Commits.  One package *)
(* is modelled.                                                            *)
(***************************************************************************)
EXTENDS Naturals, FiniteSets

CONSTANTS
    Definitions,     \* definition ids of the package
    Operations,      \* operation ids of the installer and of image records
    Payload,         \* what each operation asks for
    Commits,         \* consent decisions written to the database
    Inodes,          \* inode numbers the file system hands out
    MaxIncarnation,  \* bound on database incarnations
    MaxGeneration,   \* bound on installation generations of the package
    MaxTroubles      \* bound on harmed database files, file operations that
                     \* return an error, crashes and power failures together

Seeds == {o \in Operations : Payload[o].kind = "seed"}
Online == Operations \ Seeds

PayloadType == [kind: {"register", "unregister", "seed"}, definition: Definitions,
                policy: Nat, text: Nat, generation: Nat]

ASSUME StorageAssumption ==
    /\ Payload \in [Operations -> PayloadType]
    /\ Operations \cap Commits = {}
    /\ {"none", "tick"} \cap (Operations \cup Commits) = {}
    /\ Inodes \subseteq Nat \ {0}
    /\ {MaxIncarnation, MaxGeneration, MaxTroubles} \subseteq Nat

VARIABLES
    seen,      \* the registry file as a reader finds it
    safe,      \* the registry file as it would be after a power failure
    disk,      \* the database file
    receipt,   \* the bootstrap receipt
    spool,     \* image records present in the offline spool
    installed, \* the package's generation in the installation authority
    ready,     \* start-up finished
    pc,        \* the executor's position
    call,      \* locals of the procedures the executor is in
    mem,       \* definitions_, operations_ and expected_*
    current,   \* registry_identity_ is the identity of the file
    fenced, corrupt,
    handle,    \* db_: closed, the file db_identity_ names, or some other file
    acked,     \* operations and commits answered with success
    budget     \* troubles and incarnation ids left

files == <<seen, safe, disk, receipt, spool, installed>>
daemon == <<ready, pc, call, mem, current, fenced, corrupt, handle>>
ghosts == <<acked, budget>>
vars == <<files, daemon, ghosts>>

-----------------------------------------------------------------------------
(* Registry contents.  A policy of 0 is a definition never registered.     *)
Definition == [active: BOOLEAN, policy: Nat, text: Nat, generation: Nat]
Outcome == {"NONE", "DONE", "OBSOLETE"}
Content == [present: BOOLEAN, ops: [Operations -> Outcome],
            definitions: [Definitions -> Definition],
            inode: Nat, incarnation: Nat]

NoDefinition == [active |-> FALSE, policy |-> 0, text |-> 0, generation |-> 0]
NoOps == [o \in Operations |-> "NONE"]
NoRegistry == [present |-> FALSE, ops |-> NoOps,
               definitions |-> [d \in Definitions |-> NoDefinition],
               inode |-> 0, incarnation |-> 0]
Done(ops) == {o \in Operations : ops[o] # "NONE"}

(* Database contents: the projection, the kept and the runtime rows.       *)
Database == [present: BOOLEAN, good: BOOLEAN, inode: Nat, incarnation: Nat,
             ops: [Operations -> Outcome],
             definitions: [Definitions -> Definition],
             unknown: BOOLEAN, kept: SUBSET Commits, runtime: SUBSET Commits]
NewDatabase(inode) ==
    [present |-> TRUE, good |-> TRUE, inode |-> inode, incarnation |-> 0,
     ops |-> NoOps, definitions |-> [d \in Definitions |-> NoDefinition],
     unknown |-> FALSE, kept |-> {}, runtime |-> {}]
NoDatabase == [NewDatabase(0) EXCEPT !.present = FALSE]

Call == [job: Operations \cup Commits \cup {"none", "tick"},
         ret: {"work", "reply", "publish", "next", "ready"},
         back: {"reset", "ensured", "reply", "publish"},
         after: {"open", "replay"},
         recovering: BOOLEAN, existed: BOOLEAN, renewed: BOOLEAN, ok: BOOLEAN,
         draft: Content, seeds: SUBSET Seeds]
NoCall == [job |-> "none", ret |-> "next", back |-> "reset", after |-> "open",
           recovering |-> FALSE, existed |-> FALSE, renewed |-> FALSE, ok |-> FALSE,
           draft |-> NoRegistry, seeds |-> {}]

Labels == {"down", "idle", "ensure", "ensured", "work", "retire", "open", "attach",
           "flag", "rename", "sync", "replay", "reset", "next"}

TypeOK ==
    /\ seen \in Content /\ safe \in Content /\ mem \in Content
    /\ disk \in Database
    /\ receipt \in {"FIRST", "CLAIMED", "INITIALIZED"}
    /\ spool \subseteq Seeds
    /\ installed \in Nat
    /\ pc \in Labels
    /\ call \in Call
    /\ {ready, current, fenced, corrupt} \subseteq BOOLEAN
    /\ handle \in {"NONE", "LIVE", "STRAY"}
    /\ acked \subseteq Operations \cup Commits
    /\ budget \in [troubles: Nat, ids: Nat]

Init ==
    /\ seen = NoRegistry /\ safe = NoRegistry
    /\ disk = NoDatabase
    /\ receipt = "FIRST"
    /\ spool = {}
    /\ installed = 1
    /\ ready = FALSE /\ pc = "down" /\ call = NoCall /\ mem = NoRegistry
    /\ current = FALSE /\ fenced = FALSE /\ corrupt = FALSE /\ handle = "NONE"
    /\ acked = {}
    /\ budget = [troubles |-> MaxTroubles, ids |-> MaxIncarnation]

-----------------------------------------------------------------------------
(* Steps of the executor.                                                  *)
Goto(label, locals) == pc' = label /\ call' = locals

(* A process that ends keeps nothing.                                      *)
Exited ==
    /\ Goto("down", NoCall)
    /\ ready' = FALSE /\ handle' = "NONE" /\ mem' = NoRegistry
    /\ current' = FALSE /\ fenced' = FALSE /\ corrupt' = FALSE

(* A storage failure.  During start-up the daemon gives up.  Later the job *)
(* answers an error and the server still asks for a snapshot, whose Ensure *)
(* may repair what failed.                                                 *)
Throw(db, damaged) ==
    \/ ~ready /\ Exited
    \/ /\ ready
       /\ fenced' = TRUE /\ corrupt' = damaged /\ handle' = db
       /\ IF call.ret = "publish" THEN Goto("idle", NoCall)
          ELSE Goto("ensure", [NoCall EXCEPT !.job = call.job, !.ret = "publish"])
       /\ UNCHANGED <<ready, mem, current>>

(* A file operation returns an error; also a crash or a harmed file.       *)
Trouble ==
    /\ budget.troubles > 0
    /\ budget' = [budget EXCEPT !.troubles = @ - 1]

(* The bootstrap verdict on the pair of files.                             *)
Assess ==
    IF receipt = "FIRST" /\ ~seen.present /\ ~disk.present THEN "FIRST"
    ELSE IF receipt # "INITIALIZED" \/ ~seen.present THEN "REJECT"
    ELSE IF disk.present THEN "EXISTING" ELSE "RECOVER_DATABASE"

(* Start-up: CheckBootstrap, LoadRegistrations, Open and ReadRegistry.     *)
Start ==
    /\ pc = "down"
    /\ Assess # "REJECT"
    /\ receipt' = IF receipt = "FIRST" THEN "CLAIMED" ELSE receipt
    /\ \/ /\ seen.present
          /\ mem' = seen /\ current' = TRUE
          /\ Goto("open", [NoCall EXCEPT !.seeds = spool])
       \/ /\ ~seen.present /\ ~disk.present
          /\ Goto("rename", [NoCall EXCEPT !.seeds = spool, !.after = "open",
                                           !.draft = [NoRegistry EXCEPT !.present = TRUE]])
          /\ UNCHANGED <<mem, current>>
    /\ UNCHANGED <<seen, safe, disk, spool, installed, ready, fenced, corrupt, handle,
                   acked, budget>>

(* WriteRegistry: the temporary file is complete before the rename; after  *)
(* the rename the authority may have advanced, so the repository fences.   *)
WriteRegistryRename ==
    /\ pc = "rename"
    /\ \/ /\ seen' = call.draft
          /\ fenced' = TRUE /\ current' = FALSE
          /\ Goto("sync", call)
          /\ UNCHANGED <<ready, mem, corrupt, handle, budget>>
       \/ Trouble /\ Throw(handle, corrupt) /\ UNCHANGED seen
    /\ UNCHANGED <<safe, disk, receipt, spool, installed, acked>>

WriteRegistrySync ==
    /\ pc = "sync"
    /\ \/ /\ safe' = seen
          /\ mem' = seen /\ current' = TRUE
          /\ Goto(call.after, [call EXCEPT !.draft = NoRegistry])
          /\ UNCHANGED <<ready, fenced, corrupt, handle, budget>>
       \/ Trouble /\ Throw(handle, corrupt) /\ UNCHANGED safe
    /\ UNCHANGED <<seen, disk, receipt, spool, installed, acked>>

(* RetireDatabase: close the handle, rename the file and its journals away *)
(* and sync the directory.  An error may come before or after the rename.  *)
RetireDatabase ==
    /\ pc = "retire"
    /\ \/ /\ disk' = NoDatabase /\ handle' = "NONE"
          /\ Goto("open", [call EXCEPT !.recovering = TRUE])
          /\ UNCHANGED <<ready, mem, current, fenced, corrupt, budget>>
       \/ /\ Trouble /\ Throw("NONE", corrupt)
          /\ disk' \in {disk, NoDatabase}
    /\ UNCHANGED <<seen, safe, receipt, spool, installed, acked>>

(* Mutant of OpenDatabase: a database missing at start-up is just created. *)
OpenDatabaseUnmarked ==
    /\ pc = "open"
    /\ \/ /\ disk.present
          /\ Goto(IF mem.inode # 0 /\ disk.inode # mem.inode THEN "retire" ELSE "attach",
                  [call EXCEPT !.existed = TRUE])
          /\ UNCHANGED <<disk, ready, mem, current, fenced, corrupt, handle, budget>>
       \/ /\ ~disk.present
          /\ \E inode \in Inodes : disk' = NewDatabase(inode)
          /\ Goto("attach", [call EXCEPT !.existed = FALSE])
          /\ UNCHANGED <<ready, mem, current, fenced, corrupt, handle, budget>>
       \/ Trouble /\ Throw("NONE", corrupt) /\ UNCHANGED disk
    /\ UNCHANGED <<seen, safe, receipt, spool, installed, acked>>

(* OpenDatabase, up to an existing file of the expected identity or a new  *)
(* empty one.                                                              *)
OpenDatabase ==
    /\ pc = "open"
    /\ \/ /\ disk.present
          /\ Goto(IF mem.inode # 0 /\ disk.inode # mem.inode THEN "retire" ELSE "attach",
                  [call EXCEPT !.existed = TRUE])
          /\ UNCHANGED <<disk, ready, mem, current, fenced, corrupt, handle, budget>>
       \/ /\ ~disk.present
          /\ \E inode \in Inodes : disk' = NewDatabase(inode)
          /\ Goto("attach", [call EXCEPT !.existed = FALSE,
                                        !.recovering = @ \/ mem.inode # 0])
          /\ UNCHANGED <<ready, mem, current, fenced, corrupt, handle, budget>>
       \/ Trouble /\ Throw("NONE", corrupt) /\ UNCHANGED disk
    /\ UNCHANGED <<seen, safe, receipt, spool, installed, acked>>

(* SQLite opens the file, checks it, and gives it an incarnation.  Open    *)
(* answers damage by retiring the file; Ensure leaves that to its caller's *)
(* next attempt.                                                           *)
AttachDatabase ==
    /\ pc = "attach"
    /\ \/ /\ ~disk.good
          /\ \/ /\ ~ready /\ call.ret = "next"
                /\ Goto("retire", call)
                /\ handle' = "STRAY" /\ corrupt' = TRUE
                /\ UNCHANGED <<ready, mem, current, fenced>>
             \/ ~(~ready /\ call.ret = "next") /\ Throw("STRAY", TRUE)
          /\ UNCHANGED <<disk, budget>>
       \/ /\ disk.good
          /\ handle' = "STRAY" /\ corrupt' = FALSE
          /\ \/ /\ call.existed /\ mem.incarnation # 0 /\ disk.incarnation # mem.incarnation
                /\ Goto("retire", call)
                /\ UNCHANGED <<disk, budget>>
             \/ /\ call.existed /\ mem.incarnation # 0 => disk.incarnation = mem.incarnation
                /\ Goto("flag", call)
                /\ \/ disk.incarnation # 0 /\ UNCHANGED <<disk, budget>>
                   \/ /\ disk.incarnation = 0 /\ budget.ids > 0
                      /\ disk' = [disk EXCEPT !.incarnation = budget.ids]
                      /\ budget' = [budget EXCEPT !.ids = @ - 1]
          /\ UNCHANGED <<ready, mem, current, fenced>>
       \/ Trouble /\ Throw("STRAY", FALSE) /\ UNCHANGED disk
    /\ UNCHANGED <<seen, safe, receipt, spool, installed, acked>>

(* A recovered database is marked before the registry is told about it.    *)
FlagDatabase ==
    /\ pc = "flag"
    /\ \/ /\ disk' = [disk EXCEPT !.unknown = @ \/ call.recovering]
          /\ handle' = "LIVE"
          /\ mem' = [mem EXCEPT !.inode = disk.inode, !.incarnation = disk.incarnation]
          /\ Goto(IF mem' = mem THEN "replay" ELSE "rename",
                  [call EXCEPT !.renewed = TRUE, !.back = "reset", !.after = "replay",
                               !.draft = mem'])
          /\ UNCHANGED <<ready, current, fenced, corrupt, budget>>
       \/ Trouble /\ Throw("LIVE", corrupt) /\ UNCHANGED disk
    /\ UNCHANGED <<seen, safe, receipt, spool, installed, acked>>

(* Replay: first make the registry that was read durable, then project it  *)
(* in one transaction.  A transaction on a stray handle changes a file     *)
(* nobody will open again.                                                 *)
Validated(definitions) ==
    [d \in Definitions |-> [definitions[d] EXCEPT
        !.active = @ /\ definitions[d].generation = installed]]

Project == [disk EXCEPT !.ops = mem.ops, !.definitions = Validated(mem.definitions)]

(* Mutant of Replay: what can be read is taken to be durable.              *)
ReplayWithoutBarrier ==
    /\ pc = "replay"
    /\ \/ /\ safe' = safe
          /\ disk' = IF handle = "LIVE" THEN Project ELSE disk
          /\ fenced' = FALSE
          /\ Goto(IF call.back \in {"reply", "publish"} THEN "ensure" ELSE call.back,
                  [call EXCEPT !.back = "reset", !.after = "open",
                      !.ret = IF call.back \in {"reply", "publish"} THEN call.back ELSE @])
          /\ UNCHANGED <<ready, mem, current, corrupt, handle, budget>>
       \/ safe' = safe /\ ~disk.good /\ Throw(handle, TRUE) /\ UNCHANGED <<disk, budget>>
       \/ safe' = safe /\ Trouble /\ Throw(handle, corrupt) /\ UNCHANGED disk
    /\ UNCHANGED <<seen, receipt, spool, installed, acked>>

Replay ==
    /\ pc = "replay"
    /\ \/ /\ safe' = seen
          /\ disk' = IF handle = "LIVE" THEN Project ELSE disk
          /\ fenced' = FALSE
          /\ Goto(IF call.back \in {"reply", "publish"} THEN "ensure" ELSE call.back,
                  [call EXCEPT !.back = "reset", !.after = "open",
                      !.ret = IF call.back \in {"reply", "publish"} THEN call.back ELSE @])
          /\ UNCHANGED <<ready, mem, current, corrupt, handle, budget>>
       \/ safe' = seen /\ ~disk.good /\ Throw(handle, TRUE) /\ UNCHANGED <<disk, budget>>
       \/ safe' \in {safe, seen} /\ Trouble /\ Throw(handle, corrupt) /\ UNCHANGED disk
    /\ UNCHANGED <<seen, receipt, spool, installed, acked>>

(* Mutant of ResetRuntime: it leaves what an earlier process left.         *)
ResetRuntimeNothing ==
    /\ pc = "reset"
    /\ \/ /\ disk' = disk
          /\ Goto(IF call.ret = "next" THEN "next" ELSE "ensured",
                  [call EXCEPT !.recovering = FALSE, !.existed = FALSE])
          /\ UNCHANGED <<ready, mem, current, fenced, corrupt, handle, budget>>
       \/ Trouble /\ Throw(handle, corrupt) /\ UNCHANGED disk
    /\ UNCHANGED <<seen, safe, receipt, spool, installed, acked>>

(* ResetRuntime ends OpenDatabase.                                         *)
ResetRuntime ==
    /\ pc = "reset"
    /\ \/ /\ disk' = [disk EXCEPT !.runtime = {}]
          /\ Goto(IF call.ret = "next" THEN "next" ELSE "ensured",
                  [call EXCEPT !.recovering = FALSE, !.existed = FALSE])
          /\ UNCHANGED <<ready, mem, current, fenced, corrupt, handle, budget>>
       \/ Trouble /\ Throw(handle, corrupt) /\ UNCHANGED disk
    /\ UNCHANGED <<seen, safe, receipt, spool, installed, acked>>

(* Ensure: a registry file other than the one read last is read again; a   *)
(* database that is missing, replaced or damaged is recovered; a fence is  *)
(* lifted by a replay.  Damage shows in the size of the file, in the read  *)
(* of the incarnation, or not yet.  (First a mutant of EnsureRead: the     *)
(* fence goes up, but what memory holds is trusted.)                       *)
EnsureReadKeepsMemory ==
    /\ pc = "ensure" /\ handle # "NONE" /\ ~current
    /\ current' = TRUE /\ fenced' = TRUE
    /\ UNCHANGED <<files, ready, pc, call, mem, corrupt, handle, ghosts>>

EnsureRead ==
    /\ pc = "ensure" /\ handle # "NONE" /\ ~current
    /\ mem' = seen /\ current' = TRUE /\ fenced' = TRUE
    /\ UNCHANGED <<files, ready, pc, call, corrupt, handle, ghosts>>

Recover ==
    /\ fenced' = TRUE /\ corrupt' = corrupt
    /\ Goto(IF disk.present THEN "retire" ELSE "open", [call EXCEPT !.recovering = TRUE])
    /\ handle' = "NONE"
    /\ UNCHANGED <<ready, mem, current>>

Ensure ==
    /\ pc = "ensure"
    /\ \/ handle = "NONE" /\ Throw(handle, corrupt)
       \/ /\ handle # "NONE" /\ current
          /\ \/ /\ \/ corrupt \/ ~disk.present \/ ~disk.good \/ handle = "STRAY"
                   \/ disk.incarnation # mem.incarnation
                /\ Recover
             \/ /\ ~corrupt /\ disk.present /\ ~disk.good /\ handle = "LIVE"
                /\ Throw(handle, TRUE)
             \/ /\ ~corrupt /\ disk.present /\ handle = "LIVE"
                /\ disk.incarnation = mem.incarnation
                /\ Goto(IF fenced THEN "replay" ELSE "ensured",
                        IF fenced THEN [call EXCEPT !.back = "ensured"] ELSE call)
                /\ UNCHANGED <<ready, mem, current, fenced, corrupt, handle>>
    /\ UNCHANGED <<files, ghosts>>

(* Where Ensure returns to.  Execute checks that the database is still the *)
(* one it started on and that the installation still stands; the server    *)
(* compares epochs once more before the reply goes out.                    *)
InstallationStands(o) ==
    o \in Operations /\ Payload[o].kind # "unregister" =>
        LET d == mem.definitions[Payload[o].definition]
        IN d.active => d.generation = installed

Ensured ==
    /\ pc = "ensured"
    /\ \/ /\ call.ret = "work"
          /\ Goto("work", [call EXCEPT !.renewed = FALSE])
          /\ UNCHANGED <<ready, acked>>
       \/ /\ call.ret = "reply" /\ ready
          /\ Goto("ensure", [call EXCEPT !.ret = "publish",
                                !.ok = @ /\ ~call.renewed /\ InstallationStands(call.job)])
          /\ UNCHANGED <<ready, acked>>
       \/ /\ call.ret = "reply" /\ ~ready
          /\ Goto("next", call)
          /\ UNCHANGED <<ready, acked>>
       \/ /\ call.ret = "publish"
          /\ acked' = acked \cup (IF call.ok /\ ~call.renewed THEN {call.job} \ {"tick"}
                                 ELSE {})
          /\ Goto("idle", NoCall)
          /\ UNCHANGED ready
       \/ /\ call.ret = "ready"
          /\ ready' = TRUE
          /\ Goto("idle", NoCall)
          /\ UNCHANGED acked
    /\ UNCHANGED <<files, mem, current, fenced, corrupt, handle, budget>>

(* A job of the running daemon: an installer call, a consent decision or a *)
(* tick.                                                                   *)
Begin(job) ==
    /\ pc = "idle" /\ job \notin acked \cap Commits
    /\ Goto("ensure", [NoCall EXCEPT !.job = job, !.ret = "work", !.ok = TRUE])
    /\ UNCHANGED <<files, ready, mem, current, fenced, corrupt, handle, ghosts>>

(* CommonRegister.  The generation is checked before the receipt of an     *)
(* earlier call is looked up.                                              *)
Admitted(o) ==
    /\ Payload[o].generation = installed
    /\ Payload[o].kind = "unregister" =>
          \A d \in Definitions :
             mem.definitions[d].active => mem.definitions[d].generation = Payload[o].generation

(* Mutant of Accepts: revisions may go back.                               *)
AcceptsRollback(o) == Admitted(o)

Accepts(o) ==
    LET old == mem.definitions[Payload[o].definition]
    IN /\ Admitted(o)
       /\ Payload[o].kind # "unregister" =>
             Payload[o].policy >= old.policy /\ Payload[o].text >= old.text

Applied(o) ==
    LET p == Payload[o]
    IN IF p.kind = "unregister"
       THEN [d \in Definitions |-> [mem.definitions[d] EXCEPT !.active = FALSE]]
       ELSE [mem.definitions EXCEPT ![p.definition] =
                [active |-> TRUE, policy |-> p.policy, text |-> p.text,
                 generation |-> p.generation]]

Write(o, outcome, definitions) ==
    Goto("rename", [call EXCEPT !.after = "replay", !.back = "reply",
                       !.draft = [mem EXCEPT !.ops[o] = outcome, !.definitions = definitions]])

(* An online call: repeated, written or refused.                           *)
Register ==
    /\ pc = "work" /\ call.job \in Online
    /\ \/ /\ Admitted(call.job) /\ mem.ops[call.job] # "NONE"
          /\ Goto("ensure", [call EXCEPT !.ret = "reply"])
       \/ /\ Accepts(call.job) /\ mem.ops[call.job] = "NONE"
          /\ Write(call.job, "DONE", Applied(call.job))
       \/ /\ ~Admitted(call.job) \/ (mem.ops[call.job] = "NONE" /\ ~Accepts(call.job))
          /\ Goto("ensure", [call EXCEPT !.ret = "publish", !.ok = FALSE])
    /\ UNCHANGED <<files, ready, mem, current, fenced, corrupt, handle, ghosts>>

(* ObsoleteOfflineRegistration: the seed is older than what the same       *)
(* installation already has, or that was removed.                          *)
SameInstallation(o) ==
    LET old == mem.definitions[Payload[o].definition]
    IN old.policy # 0 /\ old.generation = Payload[o].generation

Crossed(o) ==
    LET old == mem.definitions[Payload[o].definition]
        p == Payload[o]
    IN \/ old.policy > p.policy /\ old.text < p.text
       \/ old.policy < p.policy /\ old.text > p.text

Obsolete(o) ==
    LET old == mem.definitions[Payload[o].definition]
        p == Payload[o]
    IN /\ SameInstallation(o)
       /\ \/ ~old.active
          \/ /\ old.policy >= p.policy /\ old.text >= p.text
             /\ <<old.policy, old.text>> # <<p.policy, p.text>>

(* Start-up imports the records of the spool in the order of their         *)
(* revisions.  A record of another installation waits for a later start; a *)
(* record that conflicts stops the daemon.                                 *)
Precedes(o, other) ==
    LET p == Payload[o]
        q == Payload[other]
    IN /\ p.definition = q.definition /\ p.generation = q.generation
       /\ p.policy < q.policy \/ (p.policy = q.policy /\ p.text < q.text)

NextRegistration ==
    /\ pc = "next"
    /\ \/ /\ call.seeds = {}
          /\ Goto("ensure", [NoCall EXCEPT !.ret = "ready"])
       \/ \E o \in call.seeds :
             /\ ~\E other \in call.seeds : Precedes(other, o)
             /\ Goto("ensure", [NoCall EXCEPT !.job = o, !.ret = "work",
                                             !.seeds = call.seeds \ {o}])
    /\ UNCHANGED <<files, ready, mem, current, fenced, corrupt, handle, ghosts>>

ImportOfflineRegistration ==
    /\ pc = "work" /\ call.job \in Seeds
    /\ LET o == call.job
           refused == \/ SameInstallation(o) /\ Crossed(o)
                      \/ ~Obsolete(o) /\ ~Accepts(o)
       IN \/ /\ Payload[o].generation # installed
             /\ Goto("next", call)
             /\ UNCHANGED <<ready, mem, current, fenced, corrupt, handle>>
          \/ /\ Payload[o].generation = installed
             /\ mem.ops[o] # "NONE"
             /\ Goto("ensure", [call EXCEPT !.ret = "reply"])
             /\ UNCHANGED <<ready, mem, current, fenced, corrupt, handle>>
          \/ /\ Payload[o].generation = installed
             /\ mem.ops[o] = "NONE" /\ refused
             /\ Exited
          \/ /\ Payload[o].generation = installed
             /\ mem.ops[o] = "NONE" /\ ~refused
             /\ IF Obsolete(o) THEN Write(o, "OBSOLETE", mem.definitions)
                ELSE Write(o, "DONE", Applied(o))
             /\ UNCHANGED <<ready, mem, current, fenced, corrupt, handle>>
    /\ UNCHANGED <<files, ghosts>>

(* A consent decision: one transaction.                                    *)
Decide ==
    /\ pc = "work" /\ call.job \in Commits
    /\ \/ /\ disk' = IF handle = "LIVE"
                     THEN [disk EXCEPT !.kept = @ \cup {call.job}, !.runtime = @ \cup {call.job}]
                     ELSE disk
          /\ Goto("ensure", [call EXCEPT !.ret = "reply"])
          /\ UNCHANGED <<ready, mem, current, fenced, corrupt, handle, budget>>
       \/ ~disk.good /\ Throw(handle, TRUE) /\ UNCHANGED <<disk, budget>>
       \/ Trouble /\ Throw(handle, corrupt) /\ UNCHANGED disk
    /\ UNCHANGED <<seen, safe, receipt, spool, installed, acked>>

(* Tick: check the database, then reconcile with the installation.         *)
Tick ==
    /\ pc = "work" /\ call.job = "tick"
    /\ \/ /\ disk.good
          /\ Goto("replay", [call EXCEPT !.back = "publish"])
          /\ UNCHANGED <<ready, mem, current, fenced, corrupt, handle>>
       \/ ~disk.good /\ Throw(handle, TRUE)
    /\ UNCHANGED <<files, ghosts>>

(* Shutdown, after the last job.                                           *)
Stop ==
    /\ pc = "idle"
    /\ disk' = IF handle = "LIVE" /\ ~fenced THEN [disk EXCEPT !.runtime = {}] ELSE disk
    /\ Exited
    /\ UNCHANGED <<seen, safe, receipt, spool, installed, ghosts>>

-----------------------------------------------------------------------------
(* The environment.                                                        *)
Crash ==
    /\ pc # "down" /\ Trouble
    /\ Exited
    /\ UNCHANGED <<files, acked>>

PowerFailure ==
    /\ Trouble
    /\ seen' \in {seen, safe} /\ safe' = seen'
    /\ Exited
    /\ UNCHANGED <<disk, receipt, spool, installed, acked>>

(* consent-storage-prepare --complete, once the daemon is ready.           *)
CompleteBootstrap ==
    /\ ready /\ pc = "idle" /\ receipt = "CLAIMED" /\ seen.present /\ disk.present
    /\ receipt' = "INITIALIZED"
    /\ UNCHANGED <<seen, safe, disk, spool, installed, daemon, ghosts>>

(* An image writer holds the lifecycle lock, so no daemon runs.            *)
AddRegistration(o) ==
    /\ pc = "down" /\ o \in Seeds \ spool
    /\ spool' = spool \cup {o}
    /\ UNCHANGED <<seen, safe, disk, receipt, installed, daemon, ghosts>>

(* The steps that read the authority; at others a change is not noticed.   *)
Reinstall ==
    /\ pc \in {"down", "idle", "ensured", "work", "replay"}
    /\ installed < MaxGeneration
    /\ installed' = installed + 1
    /\ UNCHANGED <<seen, safe, disk, receipt, spool, daemon, ghosts>>

(* The database file is deleted, replaced by an older copy of itself, or   *)
(* damaged in place.  A copy written over a recorded inode, in a file or   *)
(* in memory, is outside what inode and incarnation can tell apart, and is *)
(* not modelled.                                                           *)
HarmDatabase ==
    /\ pc \in {"down", "idle", "ensured", "work"} /\ disk.present
    /\ Trouble
    /\ \/ /\ disk' = NoDatabase
          /\ handle' = IF handle = "LIVE" THEN "STRAY" ELSE handle
       \/ /\ \E inode \in Inodes \ {disk.inode, seen.inode, safe.inode, mem.inode} :
                disk' = [disk EXCEPT !.inode = inode, !.kept = {}, !.runtime = {}]
          /\ handle' = IF handle = "LIVE" THEN "STRAY" ELSE handle
       \/ disk' = [disk EXCEPT !.good = FALSE] /\ UNCHANGED handle
    /\ UNCHANGED <<seen, safe, receipt, spool, installed, ready, pc, call, mem, current,
                   fenced, corrupt, acked>>

Executor ==
    \/ Start \/ WriteRegistryRename \/ WriteRegistrySync \/ RetireDatabase
    \/ OpenDatabase \/ AttachDatabase \/ FlagDatabase \/ Replay \/ ResetRuntime
    \/ EnsureRead \/ Ensure \/ Ensured \/ Register \/ NextRegistration
    \/ ImportOfflineRegistration \/ Decide \/ Tick \/ Stop
    \/ \E job \in Online \cup Commits \cup {"tick"} : Begin(job)

Next ==
    \/ Executor \/ Crash \/ PowerFailure \/ CompleteBootstrap \/ Reinstall \/ HarmDatabase
    \/ \E o \in Seeds : AddRegistration(o)

Spec == Init /\ [][Next]_vars

-----------------------------------------------------------------------------
(* The registry file, its crash protocol and the projection implement the  *)
(* registry a caller may assume (WriteRegistry, Replay, Ensure): what was  *)
(* acknowledged or decided from survives every crash and failed sync.      *)
Durable == INSTANCE Registry WITH
    applied <- Done(seen.ops),
    acked <- acked \cap Operations,
    served <- Done(disk.ops)

DurableRegistry == Durable!Spec

(* A handler runs (Execute and Import after Ensure) only while no fence is *)
(* up, with memory equal to a registry that would survive a power failure, *)
(* on a database that projects exactly that registry.                      *)
DecidesFromDurableState ==
    pc = "work" =>
        /\ ~fenced /\ current
        /\ safe.ops = seen.ops /\ safe.definitions = seen.definitions
        /\ mem.ops = seen.ops /\ mem.definitions = seen.definitions
        /\ handle = "LIVE" => disk.ops = mem.ops

(* If a handler runs on a database that lacks a decision some caller was   *)
(* told of, that database says that cleanup is unknown: OpenDatabase marks *)
(* a recovered file before any restart can mistake it for the original.    *)
LossIsFlagged ==
    pc = "work" /\ handle = "LIVE" /\ ~((acked \cap Commits) \subseteq disk.kept)
        => disk.unknown

(* Start-up leaves no open session, waiting request or period-bound grant  *)
(* of an earlier process, whatever crash or failure ended it: ResetRuntime *)
(* completes before the first record is imported or request is served.     *)
RuntimeEndsWithProcess ==
    ~ready /\ pc \in {"next", "ensure", "work"} /\ handle = "LIVE" => disk.runtime = {}

(* A definition never goes back to an older policy or text, and a removed  *)
(* one comes back only by an installer's call or by an image record of     *)
(* another installation: ImportOfflineRegistration records each record     *)
(* once, across restarts and database loss.  A power failure may undo an   *)
(* unconfirmed write.                                                      *)
SeedsRespectHistory ==
    [][Done(seen.ops) \subseteq Done(seen'.ops) =>
          \A d \in Definitions :
             LET old == seen.definitions[d]
                 new == seen'.definitions[d]
             IN /\ new.policy >= old.policy /\ new.text >= old.text
                /\ ~old.active /\ old.policy # 0 /\ new.active =>
                      \E o \in Done(seen'.ops) \ Done(seen.ops) :
                         o \in Online \/ new.generation # old.generation]_vars

(* Recovery (RetireDatabase) never puts a healthy database aside that      *)
(* holds a decision some caller was told of.                               *)
HealthyDatabaseIsKept ==
    [][pc = "retire" /\ disk.good => disk.kept \cap acked \subseteq disk'.kept]_vars
=============================================================================
