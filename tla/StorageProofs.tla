--------------------------- MODULE StorageProofs ----------------------------
(***************************************************************************)
(* The files behind the repository keep what was decided: proofs about     *)
(* Storage, for any operations, decisions, inodes and number of troubles.  *)
(***************************************************************************)
EXTENDS Storage, TLAPS

(* Where the executor stands on a fresh projection, and where a database   *)
(* is open for jobs.                                                       *)
Settled == {"reset", "next", "ensured", "work"}
Writing == {"rename", "sync"}
Attached == Settled \cup {"replay"}

-----------------------------------------------------------------------------
(* A process that is down has no memory; otherwise the registry exists, and*)
(* memory that counts as current agrees with the file that is seen.        *)
Same(r, s) == r.ops = s.ops /\ r.definitions = s.definitions

DownInv ==
    /\ pc = "down" => /\ call = NoCall /\ ~ready /\ ~current /\ ~fenced
                      /\ handle = "NONE" /\ mem = NoRegistry
    /\ ready \/ pc \notin {"down", "rename"} => seen.present
    /\ ~seen.present => seen = NoRegistry
    /\ ~safe.present => safe = NoRegistry
    /\ current => mem.present /\ Same(mem, seen)
    /\ pc \in Attached \cup {"retire", "open", "attach", "flag"} => current
    /\ pc = "idle" => ready

(* What a rename makes visible: the same contents, or one new operation    *)
(* that takes no definition back and revives none it should not.           *)
Newer(old, new, o) ==
    /\ new.policy >= old.policy /\ new.text >= old.text
    /\ ~old.active /\ old.policy # 0 /\ new.active =>
          o \in Online \/ new.generation # old.generation

Adds(r, s, o) ==
    /\ o \in Operations /\ r.ops[o] = "NONE" /\ s.ops[o] # "NONE"
    /\ \A p \in Operations \ {o} : s.ops[p] = r.ops[p]
    /\ \A d \in Definitions : Newer(r.definitions[d], s.definitions[d], o)

(* The registry that survives is behind the one that is seen, and neither  *)
(* the projection nor any answer is ahead of it.                           *)
RegistryInv ==
    /\ Done(safe.ops) \subseteq Done(seen.ops)
    /\ Done(safe.ops) = Done(seen.ops) => safe.definitions = seen.definitions
    /\ Done(disk.ops) \subseteq Done(safe.ops)
    /\ acked \cap Operations \subseteq Done(safe.ops)
    /\ pc = "rename" =>
          /\ call.draft.present
          /\ Same(seen, call.draft) \/ Adds(seen, call.draft, call.job)
    /\ pc = "sync" => fenced
    /\ pc \in Settled => ~fenced
    /\ pc \in Settled \cup {"idle", "ensure"} /\ ~fenced =>
          /\ Same(safe, seen)
          /\ handle = "LIVE" => disk.ops = seen.ops

(* An operation is answered only when it is recorded for good.             *)
ReplyInv ==
    /\ call.ok => call.job # "none"
    /\ call.job \in Operations /\ (call.ret = "reply" \/ (call.ret = "publish" /\ call.ok)) =>
          call.job \in Done(safe.ops)
    /\ call.back \in {"reply", "publish"} => pc \in Writing \cup {"replay"}
    /\ call.back = "publish" => call.job = "tick" /\ pc = "replay"
    /\ call.back = "reply" =>
          /\ call.after = "replay" /\ call.job \in Operations
          /\ pc = "rename" => call.job \in Done(call.draft.ops)
          /\ pc = "sync" => call.job \in Done(seen.ops)
          /\ pc = "replay" => call.job \in Done(safe.ops)

(* Start-up deletes the runtime rows before it imports the first record,   *)
(* and decisions come later.                                               *)
RuntimeInv ==
    /\ call.job \in Online \cup Commits \cup {"tick"} \/ call.ret = "publish" => ready
    /\ pc \in {"ensure", "ensured", "work"} => call.ret # "next"
    /\ call.back # "reset" => call.ret # "next"
    /\ ~ready /\ pc # "down" /\ (call.ret # "next" \/ pc = "next") => disk.runtime = {}

-----------------------------------------------------------------------------
(* Identities.  Incarnations are used once, so those of the registry and   *)
(* of the database are above the ones left.                                *)
Used(n) == n = 0 \/ n > budget.ids
Named(r) == (r.inode # 0 => r.incarnation # 0) /\ Used(r.incarnation)
SameFile(r, s) == r.inode = s.inode /\ r.incarnation = s.incarnation

NamesInv ==
    /\ Named(seen) /\ Named(safe) /\ Named(mem) /\ Used(disk.incarnation)
    /\ disk.present => disk.inode # 0
    /\ safe.inode # 0 => seen.inode # 0
    /\ current /\ seen.inode # 0 => mem.inode # 0
    /\ acked \cap Commits # {} => safe.inode # 0
    /\ ready \/ pc \in Settled \cup {"idle", "ensure"} => safe.inode # 0
    /\ ~ready /\ current /\ pc # "rename" => SameFile(mem, seen)
    /\ pc = "replay" => seen.inode # 0
    /\ pc = "sync" /\ call.after = "replay" => seen.inode # 0
    /\ pc = "rename" /\ call.after = "replay" =>
          current /\ mem.inode # 0 /\ SameFile(call.draft, mem)
    /\ pc \in Writing /\ call.after = "open" =>
          ~disk.present /\ ~ready /\ ~call.recovering /\ handle = "NONE"
    /\ pc = "rename" /\ call.after = "open" =>
          seen.inode = 0 /\ call.draft.inode = 0 /\ call.draft.incarnation = 0

(* A database that lacks an answered decision and does not say so.         *)
Lost == ~(acked \cap Commits \subseteq disk.kept) /\ ~disk.unknown
Names(r) == disk.present /\ SameFile(r, disk)

(* No registry names a lost database; a handle that is not of the file has *)
(* a file no registry names; and the executor works on no lost file.       *)
LossInv ==
    /\ Lost => ~Names(seen) /\ ~Names(safe)
    /\ pc \in Attached \/ (pc \in Writing /\ call.after = "replay") => handle # "NONE"
    /\ pc \in Attached \cup Writing \cup {"idle", "ensure"} /\ handle = "STRAY" =>
          ~Names(seen) /\ ~Names(safe) /\ ~Names(mem)
    /\ pc \in Attached \cup Writing /\ handle = "LIVE" => ~Lost
    /\ pc \in {"idle", "ensure"} /\ handle = "LIVE" /\ Lost =>
          disk.incarnation \notin {mem.incarnation, seen.incarnation}
    /\ /\ call.ret \in {"reply", "publish"} /\ call.ok /\ ~call.renewed
       /\ call.job \in Commits /\ handle = "LIVE"
       => call.job \in disk.kept

(* What OpenDatabase finds, creates and recovers.                          *)
OpenInv ==
    /\ pc = "open" => IF call.recovering THEN ~disk.present ELSE ~ready /\ SameFile(mem, seen)
    /\ pc \in {"open", "attach"} => handle = "NONE"
    /\ pc = "flag" => handle = "STRAY"
    /\ pc \in {"attach", "flag"} => disk.present
    /\ pc = "attach" =>
          IF call.existed
          THEN /\ ~ready /\ ~call.recovering /\ SameFile(mem, seen)
               /\ mem.inode # 0 => mem.inode = disk.inode
          ELSE /\ disk.good /\ disk.incarnation = 0
               /\ call.recovering \/ (acked \cap Commits = {} /\ ~ready)
    /\ pc = "flag" =>
          /\ disk.incarnation # 0
          /\ Lost => call.recovering
          /\ call.recovering =>
                disk.incarnation \notin {mem.incarnation, seen.incarnation, safe.incarnation}

-----------------------------------------------------------------------------
(* Types.                                                                  *)
Handles == {"NONE", "LIVE", "STRAY"}
FilesOK ==
    /\ seen \in Content /\ safe \in Content /\ disk \in Database
    /\ receipt \in {"FIRST", "CLAIMED", "INITIALIZED"}
    /\ spool \subseteq Seeds /\ installed \in Nat
DaemonOK ==
    /\ pc \in Labels /\ call \in Call /\ mem \in Content /\ handle \in Handles
    /\ ready \in BOOLEAN /\ current \in BOOLEAN /\ fenced \in BOOLEAN /\ corrupt \in BOOLEAN
GhostsOK ==
    acked \subseteq Operations \cup Commits /\ budget \in [troubles: Nat, ids: Nat]

LEMMA TypeParts == TypeOK <=> FilesOK /\ DaemonOK /\ GhostsOK
BY Zenon DEF TypeOK, FilesOK, DaemonOK, GhostsOK, Handles

LEMMA TypeNext == FilesOK' /\ DaemonOK' /\ GhostsOK' => TypeOK'
BY Zenon DEF TypeOK, FilesOK, DaemonOK, GhostsOK, Handles

(* The empty values have their types.                                      *)
LEMMA EmptyOK ==
    /\ NoRegistry \in Content /\ NoDatabase \in Database /\ NoCall \in Call
    /\ [NoRegistry EXCEPT !.present = TRUE] \in Content
    /\ \A i \in Nat : NewDatabase(i) \in Database
<1>1. NoDefinition \in Definition
  BY Zenon DEF NoDefinition, Definition
<1>2. NoOps \in [Operations -> Outcome]
  BY Zenon DEF NoOps, Outcome
<1>3. [d \in Definitions |-> NoDefinition] \in [Definitions -> Definition]
  BY <1>1, Zenon
<1>4. NoRegistry \in Content
  BY <1>2, <1>3, Zenon DEF NoRegistry, Content
<1>5. \A i \in Nat : NewDatabase(i) \in Database
  BY <1>2, <1>3, Zenon DEF NewDatabase, Database
<1>6. NoDatabase \in Database
  <2>1. NewDatabase(0) \in Database
    BY <1>5, Zenon
  <2>2. ASSUME NEW D \in Database PROVE [D EXCEPT !.present = FALSE] \in Database
    BY Zenon DEF Database
  <2> QED  BY <2>1, <2>2, Zenon DEF NoDatabase
<1>7. NoCall \in Call
  BY <1>4, Zenon DEF NoCall, Call
<1>8. [NoRegistry EXCEPT !.present = TRUE] \in Content
  BY <1>4, Zenon DEF Content
<1> QED  BY <1>4, <1>5, <1>6, <1>7, <1>8, Zenon

(* A failed file operation leaves the daemon well formed.                  *)
LEMMA ExitOK == ASSUME Exited PROVE DaemonOK'
BY EmptyOK, Zenon DEF Exited, Goto, DaemonOK, Labels, Handles

LEMMA ThrowOK ==
    ASSUME DaemonOK, NEW db \in Handles, NEW damaged \in BOOLEAN, Throw(db, damaged)
    PROVE  DaemonOK'
<1>1. CASE Exited
  BY <1>1, ExitOK, Zenon
<1>2. CASE ready /\ ~Exited
  <2>1. [NoCall EXCEPT !.job = call.job, !.ret = "publish"] \in Call
    BY EmptyOK, Zenon DEF Call, DaemonOK
  <2> QED  BY <1>2, <2>1, EmptyOK, Zenon DEF Throw, Goto, DaemonOK, Labels
<1> QED  BY <1>1, <1>2, Zenon DEF Throw

LEMMA TroubleOK ==
    ASSUME GhostsOK, Trouble
    PROVE  budget' \in [troubles: Nat, ids: Nat] /\ budget'.ids = budget.ids
BY DEF GhostsOK, Trouble

LEMMA GhostsNext ==
    ASSUME GhostsOK, UNCHANGED acked, Trouble \/ UNCHANGED budget
    PROVE  GhostsOK'
BY TroubleOK, Zenon DEF GhostsOK

(* Updates of the locals of a procedure.                                   *)
LEMMA CallOK ==
    ASSUME NEW c \in Call
    PROVE  /\ \A r \in Content : [c EXCEPT !.draft = r] \in Call
           /\ \A b \in BOOLEAN : /\ [c EXCEPT !.existed = b] \in Call
                                /\ [c EXCEPT !.recovering = b] \in Call
                                /\ [c EXCEPT !.renewed = b] \in Call
                                /\ [c EXCEPT !.recovering = FALSE, !.existed = FALSE] \in Call
                                /\ [c EXCEPT !.existed = FALSE, !.recovering = b] \in Call
                                /\ [c EXCEPT !.ret = "publish", !.ok = b] \in Call
           /\ \A to \in {"work", "reply", "publish", "next", "ready"} :
                 [c EXCEPT !.ret = to] \in Call
           /\ [c EXCEPT !.back = "ensured"] \in Call /\ [c EXCEPT !.back = "publish"] \in Call
           /\ \A r \in Content :
                 /\ [c EXCEPT !.renewed = TRUE, !.back = "reset", !.after = "replay",
                              !.draft = r] \in Call
                 /\ [c EXCEPT !.after = "replay", !.back = "reply", !.draft = r] \in Call
           /\ \A to \in {"work", "reply", "publish", "next", "ready"} :
                 [c EXCEPT !.back = "reset", !.after = "open", !.ret = to] \in Call
BY ZenonT(60) DEF Call

(* Updates of the database.                                                *)
LEMMA DiskOK ==
    ASSUME NEW D \in Database
    PROVE  /\ \A n \in Nat : [D EXCEPT !.incarnation = n] \in Database
           /\ \A b \in BOOLEAN : [D EXCEPT !.unknown = b] \in Database
           /\ [D EXCEPT !.good = FALSE] \in Database
           /\ [D EXCEPT !.runtime = {}] \in Database
           /\ \A n \in Nat : [D EXCEPT !.inode = n, !.kept = {}, !.runtime = {}] \in Database
           /\ \A K, R \in SUBSET Commits : [D EXCEPT !.kept = K, !.runtime = R] \in Database
           /\ \A o \in [Operations -> Outcome], d \in [Definitions -> Definition] :
                 [D EXCEPT !.ops = o, !.definitions = d] \in Database
BY Zenon DEF Database

LEMMA DatabaseFields ==
    ASSUME NEW D \in Database
    PROVE  /\ D.present \in BOOLEAN /\ D.good \in BOOLEAN /\ D.unknown \in BOOLEAN
           /\ D.inode \in Nat /\ D.incarnation \in Nat
           /\ D.ops \in [Operations -> Outcome]
           /\ D.definitions \in [Definitions -> Definition]
           /\ D.kept \subseteq Commits /\ D.runtime \subseteq Commits
BY Zenon DEF Database

LEMMA CallFields ==
    ASSUME NEW c \in Call
    PROVE  /\ c.recovering \in BOOLEAN /\ c.existed \in BOOLEAN /\ c.renewed \in BOOLEAN
           /\ c.ok \in BOOLEAN /\ c.draft \in Content /\ c.seeds \subseteq Seeds
           /\ c.job \in Operations \cup Commits \cup {"none", "tick"}
           /\ c.ret \in {"work", "reply", "publish", "next", "ready"}
           /\ c.back \in {"reset", "ensured", "reply", "publish"}
           /\ c.after \in {"open", "replay"}
BY Zenon DEF Call

LEMMA ContentFields ==
    ASSUME NEW r \in Content
    PROVE  /\ r.present \in BOOLEAN /\ r.inode \in Nat /\ r.incarnation \in Nat
           /\ r.ops \in [Operations -> Outcome]
           /\ r.definitions \in [Definitions -> Definition]
           /\ \A i, n \in Nat : [r EXCEPT !.inode = i, !.incarnation = n] \in Content
           /\ \A o \in Operations, e \in Outcome, d \in [Definitions -> Definition] :
                 [r EXCEPT !.ops[o] = e, !.definitions = d] \in Content
<1>1. /\ r.present \in BOOLEAN /\ r.inode \in Nat /\ r.incarnation \in Nat
      /\ r.ops \in [Operations -> Outcome]
      /\ r.definitions \in [Definitions -> Definition]
  BY Zenon DEF Content
<1>2. \A i, n \in Nat : [r EXCEPT !.inode = i, !.incarnation = n] \in Content
  BY Zenon DEF Content
<1>3. ASSUME NEW o \in Operations, NEW e \in Outcome, NEW d \in [Definitions -> Definition]
      PROVE  [r EXCEPT !.ops[o] = e, !.definitions = d] \in Content
  <2>1. [r.ops EXCEPT ![o] = e] \in [Operations -> Outcome]
    BY <1>1, Zenon
  <2> QED  BY <2>1, Zenon DEF Content
<1> QED  BY <1>1, <1>2, <1>3, Zenon

-----------------------------------------------------------------------------
(* The inductive invariant.                                                *)
StorageInv ==
    /\ TypeOK /\ DownInv /\ RegistryInv /\ ReplyInv /\ RuntimeInv
    /\ NamesInv /\ LossInv /\ OpenInv

(* A missing database projects, keeps and says nothing.                    *)
LEMMA NoDatabaseIsEmpty ==
    /\ ~NoDatabase.present /\ NoDatabase.incarnation = 0 /\ ~NoDatabase.unknown
    /\ NoDatabase.kept = {} /\ NoDatabase.runtime = {} /\ Done(NoDatabase.ops) = {}
BY Zenon DEF NoDatabase, NewDatabase, Done, NoOps

LEMMA NewDatabaseIsEmpty ==
    ASSUME NEW i \in Inodes
    PROVE  /\ NewDatabase(i).present /\ NewDatabase(i).good /\ ~NewDatabase(i).unknown
           /\ NewDatabase(i).inode = i /\ i # 0 /\ NewDatabase(i).incarnation = 0
           /\ NewDatabase(i).kept = {} /\ NewDatabase(i).runtime = {}
           /\ Done(NewDatabase(i).ops) = {} /\ NewDatabase(i) \in Database
BY StorageAssumption, EmptyOK, Zenon DEF NewDatabase, Done, NoOps

(* What a step that fails or ends the process does to the files.           *)
Spent == budget' \in [troubles: Nat, ids: Nat] /\ budget'.ids = budget.ids

SameRows(D, E) ==
    /\ E.present = D.present /\ E.inode = D.inode /\ E.incarnation = D.incarnation
    /\ E.ops = D.ops /\ E.kept = D.kept /\ E.unknown = D.unknown

(* A process that ends, wherever it was, leaves good files.                *)
LEMMA ExitKeeps ==
    ASSUME StorageInv, Exited, Spent, UNCHANGED <<acked, receipt, spool, installed>>,
           disk' \in Database, disk' = NoDatabase \/ SameRows(disk, disk'),
           \/ seen' = seen /\ safe' \in {safe, seen}
           \/ seen' = safe /\ safe' = safe
    PROVE  StorageInv'
<1> SUFFICES ASSUME TypeOK, DownInv, RegistryInv, ReplyInv, RuntimeInv, NamesInv, LossInv,
                    OpenInv
             PROVE  StorageInv'
  BY Zenon DEF StorageInv
<1>1. /\ pc' = "down" /\ call' = NoCall /\ ~ready' /\ ~current' /\ ~fenced'
      /\ handle' = "NONE" /\ mem' = NoRegistry
  BY Zenon DEF Exited, Goto
<1>2. TypeOK'
  <2>1. FilesOK' /\ GhostsOK'
    BY Zenon DEF TypeOK, FilesOK, GhostsOK, Spent
  <2> QED  BY <2>1, ExitOK, TypeNext, Zenon
<1>3. /\ NoCall.job = "none" /\ NoCall.ret = "next" /\ NoCall.back = "reset" /\ ~NoCall.ok
      /\ NoRegistry.inode = 0 /\ NoRegistry.incarnation = 0
  BY Zenon DEF NoCall, NoRegistry
<1>4. DownInv'
  BY <1>1, Zenon DEF DownInv, Attached, Settled
<1>5. RegistryInv'
  BY <1>1, NoDatabaseIsEmpty, Zenon DEF RegistryInv, Settled, SameRows
<1>6. ReplyInv'
  BY <1>1, <1>3, Zenon DEF ReplyInv
<1>7. RuntimeInv'
  BY <1>1, <1>3, StorageAssumption, Zenon DEF RuntimeInv, Online
<1>8. NamesInv'
  BY <1>1, <1>3, NoDatabaseIsEmpty
  DEF NamesInv, Named, Used, Settled, Writing, SameRows, Spent
<1>9. LossInv'
  <2>1. Lost' => ~Names(seen)' /\ ~Names(safe)'
    BY NoDatabaseIsEmpty, Zenon DEF LossInv, Lost, Names, SameFile, SameRows
  <2> QED  BY <1>1, <1>3, <2>1, Zenon DEF LossInv, Attached, Settled, Writing
<1>10. OpenInv'
  BY <1>1, Zenon DEF OpenInv
<1> QED  BY <1>2, <1>4, <1>5, <1>6, <1>7, <1>8, <1>9, <1>10, Zenon DEF StorageInv

(* A job that fails leaves the fence up and the answer negative.           *)
LEMMA ThrowKeeps ==
    ASSUME StorageInv, Spent, UNCHANGED <<seen, acked, receipt, spool, installed>>,
           pc # "down", safe' \in {safe, seen},
           NEW db \in Handles, NEW damaged \in BOOLEAN, Throw(db, damaged),
           disk' = disk \/ (disk' = NoDatabase /\ db = "NONE"),
           db = "STRAY" => ~Names(seen) /\ ~Names(safe) /\ ~Names(mem),
           db = "LIVE" /\ Lost => disk.incarnation \notin {mem.incarnation, seen.incarnation}
    PROVE  StorageInv'
<1> SUFFICES ASSUME TypeOK, DownInv, RegistryInv, ReplyInv, RuntimeInv, NamesInv, LossInv,
                    OpenInv
             PROVE  StorageInv'
  BY Zenon DEF StorageInv
<1>1. CASE Exited
  BY <1>1, ExitKeeps, EmptyOK, Zenon DEF TypeOK, SameRows
<1>2. CASE ~Exited
  <2> DEFINE answer == [NoCall EXCEPT !.job = call.job, !.ret = "publish"]
  <2>a. /\ ready /\ ready' = ready /\ fenced' = TRUE /\ handle' = db /\ mem' = mem
        /\ current' = current
        /\ \/ pc' = "idle" /\ call' = NoCall
           \/ pc' = "ensure" /\ call' = answer
    BY <1>2, Zenon DEF Throw, Goto
  <2>b. /\ NoCall.back = "reset" /\ NoCall.job = "none" /\ NoCall.ret = "next" /\ ~NoCall.ok
        /\ answer.back = "reset" /\ answer.job = call.job /\ answer.ret = "publish" /\ ~answer.ok
    BY Zenon DEF NoCall
  <2> HIDE DEF answer
  <2>1. /\ ready /\ ready' /\ fenced' /\ handle' = db /\ mem' = mem /\ current' = current
        /\ pc' \in {"idle", "ensure"} /\ call'.back = "reset"
        /\ call'.job \in {"none", call.job} /\ call'.ret \in {"next", "publish"} /\ ~call'.ok
        /\ pc' = "ensure" => call'.ret # "next"
    BY <2>a, <2>b, Zenon
  <2>2. TypeOK'
    <3>1. DaemonOK'
      BY TypeParts, ThrowOK
    <3>2. FilesOK' /\ GhostsOK'
      BY EmptyOK, Zenon DEF TypeOK, FilesOK, GhostsOK, Spent
    <3> QED  BY <3>1, <3>2, TypeNext
  <2>3. DownInv'
    BY <2>1, Zenon DEF DownInv, Attached, Settled, Same
  <2>4. RegistryInv'
    BY <2>1, NoDatabaseIsEmpty, Zenon DEF RegistryInv, Settled
  <2>5. ReplyInv'
    BY <2>1, Zenon DEF ReplyInv
  <2>6. RuntimeInv'
    BY <2>1, Zenon DEF RuntimeInv
  <2>7. NamesInv'
    BY <2>1, NoDatabaseIsEmpty, Zenon
    DEF NamesInv, Named, Used, Settled, Writing, Spent, SameFile
  <2>8. LossInv'
    <3>1. Lost' => ~Names(seen)' /\ ~Names(safe)'
      BY NoDatabaseIsEmpty, Zenon DEF LossInv, Lost, Names, SameFile
    <3>2. handle' = "STRAY" => ~Names(seen)' /\ ~Names(safe)' /\ ~Names(mem)'
      BY <2>1, NoDatabaseIsEmpty DEF Names, SameFile
    <3>3. handle' = "LIVE" /\ Lost' => disk'.incarnation \notin {mem'.incarnation, seen'.incarnation}
      BY <2>1 DEF Lost
    <3> QED  BY <2>1, <3>1, <3>2, <3>3 DEF LossInv, Attached, Settled, Writing
  <2>9. OpenInv'
    BY <2>1, Zenon DEF OpenInv
  <2> QED  BY <2>2, <2>3, <2>4, <2>5, <2>6, <2>7, <2>8, <2>9, Zenon DEF StorageInv
<1> QED  BY <1>1, <1>2, Zenon

(* A failure that leaves the handle as it is.                              *)
LEMMA FailKeeps ==
    ASSUME StorageInv, pc \in Attached \cup Writing \cup {"ensure"},
           UNCHANGED <<seen, disk, acked, receipt, spool, installed>>, safe' \in {safe, seen},
           Trouble \/ UNCHANGED budget,
           NEW damaged \in BOOLEAN, Throw(handle, damaged)
    PROVE  StorageInv'
<1> SUFFICES ASSUME TypeOK, DownInv, RegistryInv, ReplyInv, RuntimeInv, NamesInv, LossInv,
                    OpenInv
             PROVE  StorageInv'
  BY Zenon DEF StorageInv
<1>1. /\ pc # "down" /\ handle \in Handles
  BY Zenon DEF Attached, Settled, Writing, TypeOK, Handles
<1>2. Spent
  BY TypeParts, TroubleOK, Zenon DEF Spent, GhostsOK
<1>3. /\ handle = "STRAY" => ~Names(seen) /\ ~Names(safe) /\ ~Names(mem)
      /\ handle = "LIVE" /\ Lost => disk.incarnation \notin {mem.incarnation, seen.incarnation}
  BY Zenon DEF LossInv
<1> QED  BY <1>1, <1>2, <1>3, ThrowKeeps, Zenon

-----------------------------------------------------------------------------
(* The actions, one by one.  First the registry file.                      *)
LEMMA StartKeeps == ASSUME StorageInv, Start PROVE StorageInv'
<1> SUFFICES ASSUME TypeOK, DownInv, RegistryInv, ReplyInv, RuntimeInv, NamesInv, LossInv,
                    OpenInv
             PROVE  StorageInv'
  BY Zenon DEF StorageInv
<1> DEFINE read == [NoCall EXCEPT !.seeds = spool]
           first == [NoRegistry EXCEPT !.present = TRUE]
           make == [NoCall EXCEPT !.seeds = spool, !.after = "open", !.draft = first]
<1>1. /\ pc = "down" /\ receipt' \in {"CLAIMED", receipt}
      /\ UNCHANGED <<seen, safe, disk, spool, installed, ready, fenced, corrupt, handle,
                     acked, budget>>
      /\ \/ seen.present /\ mem' = seen /\ current' = TRUE /\ pc' = "open" /\ call' = read
         \/ /\ ~seen.present /\ ~disk.present /\ pc' = "rename" /\ call' = make
            /\ mem' = mem /\ current' = current
  BY Zenon DEF Start, Goto
<1>2. /\ read \in Call /\ make \in Call
      /\ read.job = "none" /\ read.ret = "next" /\ read.back = "reset" /\ ~read.recovering
      /\ make.job = "none" /\ make.ret = "next" /\ make.back = "reset" /\ ~make.recovering
      /\ ~read.ok /\ ~make.ok
      /\ make.after = "open" /\ make.draft = first
  <2>1. spool \subseteq Seeds
    BY Zenon DEF TypeOK
  <2>2. read \in Call /\ make \in Call
    BY <2>1, EmptyOK, Zenon DEF Call
  <2> QED  BY <2>2, Zenon DEF NoCall
<1>3. /\ first.present /\ Same(NoRegistry, first) /\ first.inode = 0 /\ first.incarnation = 0
      /\ NoRegistry.inode = 0
  BY Zenon DEF NoRegistry, Same
<1> HIDE DEF read, make, first
<1>4. /\ ~ready /\ ~current /\ ~fenced /\ handle = "NONE" /\ mem = NoRegistry
      /\ ~seen.present => seen = NoRegistry
  BY <1>1, Zenon DEF DownInv
<1>5. TypeOK'
  BY <1>1, <1>2, Zenon DEF TypeOK, Labels
<1>6. DownInv'
  BY <1>1, <1>4 DEF DownInv, Attached, Settled, Same
<1>7. RegistryInv'
  BY <1>1, <1>2, <1>3, <1>4, Zenon DEF RegistryInv, Settled
<1>8. ReplyInv'
  BY <1>1, <1>2, StorageAssumption, Zenon DEF ReplyInv
<1>9. RuntimeInv'
  BY <1>1, <1>2, StorageAssumption, Zenon DEF RuntimeInv, Online
<1>10. NamesInv'
  BY <1>1, <1>2, <1>3, <1>4, Zenon
  DEF NamesInv, Named, Used, Settled, Writing, SameFile
<1>11. LossInv'
  BY <1>1, <1>2, <1>4, Zenon DEF LossInv, Attached, Settled, Writing, Lost, Names, SameFile
<1>12. OpenInv'
  BY <1>1, <1>2, <1>4, Zenon DEF OpenInv, SameFile
<1> QED  BY <1>5, <1>6, <1>7, <1>8, <1>9, <1>10, <1>11, <1>12, Zenon DEF StorageInv

LEMMA RenameKeeps == ASSUME StorageInv, WriteRegistryRename PROVE StorageInv'
<1> SUFFICES ASSUME TypeOK, DownInv, RegistryInv, ReplyInv, RuntimeInv, NamesInv, LossInv,
                    OpenInv
             PROVE  StorageInv'
  BY Zenon DEF StorageInv
<1>1. CASE Trouble /\ Throw(handle, corrupt) /\ UNCHANGED seen
  <2>1. /\ pc = "rename" /\ UNCHANGED <<seen, safe, disk, receipt, spool, installed, acked>>
        /\ corrupt \in BOOLEAN
    BY <1>1, Zenon DEF WriteRegistryRename, TypeOK
  <2> QED  BY <1>1, <2>1, FailKeeps, Zenon DEF Writing
<1>2. CASE ~(Trouble /\ Throw(handle, corrupt) /\ UNCHANGED seen)
  <2>1. /\ pc = "rename" /\ seen' = call.draft /\ fenced' = TRUE /\ current' = FALSE
        /\ pc' = "sync" /\ call' = call
        /\ UNCHANGED <<ready, mem, corrupt, handle, budget>>
        /\ UNCHANGED <<safe, disk, receipt, spool, installed, acked>>
    BY <1>2, Zenon DEF WriteRegistryRename, Goto
  <2>2. /\ call.draft \in Content /\ call.draft.present
        /\ call.after \in {"open", "replay"}
    BY <2>1, CallFields, Zenon DEF TypeOK, RegistryInv
  <2>3. /\ Done(seen.ops) \subseteq Done(call.draft.ops)
        /\ \/ Done(seen.ops) # Done(call.draft.ops)
           \/ seen.definitions = call.draft.definitions
    BY <2>1, Zenon DEF RegistryInv, Same, Adds, Done
  <2>4. TypeOK'
    BY <2>1, <2>2, Zenon DEF TypeOK, Labels
  <2>5. DownInv'
    BY <2>1, <2>2, Zenon DEF DownInv, Attached, Settled
  <2>6. RegistryInv'
    BY <2>1, <2>3, Zenon DEF RegistryInv, Settled
  <2>7. ReplyInv'
    BY <2>1, Zenon DEF ReplyInv, Writing
  <2>8. RuntimeInv'
    BY <2>1, Zenon DEF RuntimeInv
  <2>9. NamesInv'
    BY <2>1, <2>2, Zenon DEF NamesInv, Named, Used, Settled, Writing, SameFile
  <2>10. LossInv'
    <3>1. Lost' <=> Lost
      BY <2>1, Zenon DEF Lost
    <3>2. Names(seen)' => call.after = "replay" /\ Names(mem)
      BY <2>1, <2>2 DEF NamesInv, Writing, Names, SameFile
    <3>3. (Names(safe)' <=> Names(safe)) /\ (Names(mem)' <=> Names(mem))
      BY <2>1 DEF Names, SameFile
    <3>4. call.after = "replay" => /\ handle \in {"LIVE", "STRAY"}
                                   /\ handle = "LIVE" => ~Lost
                                   /\ handle = "STRAY" => ~Names(safe) /\ ~Names(mem)
      BY <2>1 DEF TypeOK, LossInv, Writing
    <3> QED  BY <2>1, <3>1, <3>2, <3>3, <3>4
             DEF LossInv, Attached, Settled, Writing
  <2>11. OpenInv'
    BY <2>1, Zenon DEF OpenInv
  <2> QED  BY <2>4, <2>5, <2>6, <2>7, <2>8, <2>9, <2>10, <2>11, Zenon DEF StorageInv
<1> QED  BY <1>1, <1>2, Zenon

LEMMA SyncKeeps == ASSUME StorageInv, WriteRegistrySync PROVE StorageInv'
<1> SUFFICES ASSUME TypeOK, DownInv, RegistryInv, ReplyInv, RuntimeInv, NamesInv, LossInv,
                    OpenInv
             PROVE  StorageInv'
  BY Zenon DEF StorageInv
<1>1. CASE Trouble /\ Throw(handle, corrupt) /\ UNCHANGED safe
  <2>1. /\ pc = "sync" /\ UNCHANGED <<seen, disk, receipt, spool, installed, acked>>
        /\ corrupt \in BOOLEAN
    BY <1>1, Zenon DEF WriteRegistrySync, TypeOK
  <2> QED  BY <1>1, <2>1, FailKeeps, Zenon DEF Writing
<1>2. CASE ~(Trouble /\ Throw(handle, corrupt) /\ UNCHANGED safe)
  <2> DEFINE after == [call EXCEPT !.draft = NoRegistry]
  <2>1. /\ pc = "sync" /\ safe' = seen /\ mem' = seen /\ current' = TRUE
        /\ pc' = call.after /\ call' = after
        /\ UNCHANGED <<ready, fenced, corrupt, handle, budget>>
        /\ UNCHANGED <<seen, disk, receipt, spool, installed, acked>>
    BY <1>2, Zenon DEF WriteRegistrySync, Goto
  <2>2. /\ after.job = call.job /\ after.ret = call.ret /\ after.back = call.back
        /\ after.after = call.after /\ after.ok = call.ok /\ after.renewed = call.renewed
        /\ after.recovering = call.recovering
    BY Zenon DEF TypeOK, Call
  <2>3. after \in Call
    BY CallOK, EmptyOK, Zenon DEF TypeOK
  <2> HIDE DEF after
  <2>4. call.after \in {"open", "replay"} /\ seen.present /\ fenced
    BY <2>1, CallFields, Zenon DEF TypeOK, DownInv, RegistryInv
  <2>5. TypeOK'
    BY <2>1, <2>3, <2>4, Zenon DEF TypeOK, Labels
  <2>6. DownInv'
    BY <2>1, <2>4, Zenon DEF DownInv, Attached, Settled, Same
  <2>7. RegistryInv'
    BY <2>1, <2>4, Zenon DEF RegistryInv, Settled
  <2>8. ReplyInv'
    <3>1. Done(safe.ops) \subseteq Done(safe'.ops) /\ Done(safe'.ops) = Done(seen.ops)
      BY <2>1, Zenon DEF RegistryInv
    <3> QED  BY <2>1, <2>2, <2>4, <3>1 DEF ReplyInv, Writing
  <2>9. RuntimeInv'
    BY <2>1, <2>2, <2>4, Zenon DEF RuntimeInv
  <2>10. NamesInv'
    BY <2>1, <2>2, <2>4, Zenon DEF NamesInv, Named, Used, Settled, Writing, SameFile
  <2>11. LossInv'
    <3>1. /\ (Lost' <=> Lost) /\ (Names(seen)' <=> Names(seen))
          /\ (Names(safe)' <=> Names(seen)) /\ (Names(mem)' <=> Names(seen))
      BY <2>1, Zenon DEF Lost, Names, SameFile
    <3> QED  BY <2>1, <2>2, <2>4, <3>1 DEF LossInv, Attached, Settled, Writing
  <2>12. OpenInv'
    BY <2>1, <2>2, <2>4, Zenon DEF OpenInv, NamesInv, Writing, SameFile
  <2> QED  BY <2>5, <2>6, <2>7, <2>8, <2>9, <2>10, <2>11, <2>12, Zenon DEF StorageInv
<1> QED  BY <1>1, <1>2, Zenon

(* Opening a database.                                                     *)
LEMMA RetireKeeps == ASSUME StorageInv, RetireDatabase PROVE StorageInv'
<1> SUFFICES ASSUME TypeOK, DownInv, RegistryInv, ReplyInv, RuntimeInv, NamesInv, LossInv,
                    OpenInv
             PROVE  StorageInv'
  BY Zenon DEF StorageInv
<1>1. CASE Trouble /\ Throw("NONE", corrupt) /\ disk' \in {disk, NoDatabase}
  <2>1. /\ pc = "retire" /\ UNCHANGED <<seen, safe, receipt, spool, installed, acked>>
        /\ corrupt \in BOOLEAN /\ "NONE" \in Handles
    BY <1>1, Zenon DEF RetireDatabase, TypeOK, Handles
  <2>2. Spent
    BY <1>1, TypeParts, TroubleOK, Zenon DEF Spent
  <2> QED  BY <1>1, <2>1, <2>2, ThrowKeeps, Zenon
<1>2. CASE ~(Trouble /\ Throw("NONE", corrupt) /\ disk' \in {disk, NoDatabase})
  <2> DEFINE after == [call EXCEPT !.recovering = TRUE]
  <2>1. /\ pc = "retire" /\ disk' = NoDatabase /\ handle' = "NONE"
        /\ pc' = "open" /\ call' = after
        /\ UNCHANGED <<ready, mem, current, fenced, corrupt, budget>>
        /\ UNCHANGED <<seen, safe, receipt, spool, installed, acked>>
    BY <1>2, Zenon DEF RetireDatabase, Goto
  <2>2. /\ after.job = call.job /\ after.ret = call.ret /\ after.back = call.back
        /\ after.ok = call.ok /\ after.recovering
    BY Zenon DEF TypeOK, Call
  <2>3. after \in Call
    BY CallOK, Zenon DEF TypeOK
  <2> HIDE DEF after
  <2>4. TypeOK'
    BY <2>1, <2>3, EmptyOK, Zenon DEF TypeOK, Labels
  <2>5. DownInv'
    BY <2>1, Zenon DEF DownInv, Attached, Settled
  <2>6. RegistryInv'
    BY <2>1, NoDatabaseIsEmpty, Zenon DEF RegistryInv, Settled
  <2>7. ReplyInv'
    BY <2>1, <2>2, Zenon DEF ReplyInv, Writing
  <2>8. RuntimeInv'
    BY <2>1, <2>2, NoDatabaseIsEmpty, Zenon DEF RuntimeInv
  <2>9. NamesInv'
    BY <2>1, NoDatabaseIsEmpty, Zenon DEF NamesInv, Named, Used, Settled, Writing, SameFile
  <2>10. LossInv'
    BY <2>1, NoDatabaseIsEmpty, Zenon DEF LossInv, Attached, Settled, Writing, Names
  <2>11. OpenInv'
    BY <2>1, <2>2, NoDatabaseIsEmpty, Zenon DEF OpenInv
  <2> QED  BY <2>4, <2>5, <2>6, <2>7, <2>8, <2>9, <2>10, <2>11, Zenon DEF StorageInv
<1> QED  BY <1>1, <1>2, Zenon

LEMMA OpenKeeps == ASSUME StorageInv, OpenDatabase PROVE StorageInv'
<1> SUFFICES ASSUME TypeOK, DownInv, RegistryInv, ReplyInv, RuntimeInv, NamesInv, LossInv,
                    OpenInv
             PROVE  StorageInv'
  BY Zenon DEF StorageInv
<1>0. /\ pc = "open" /\ UNCHANGED <<seen, safe, receipt, spool, installed, acked>>
      /\ handle = "NONE" /\ call \in Call /\ current
  BY Zenon DEF OpenDatabase, OpenInv, TypeOK, DownInv
<1>1. CASE Trouble /\ Throw("NONE", corrupt) /\ UNCHANGED disk
  <2>1. corrupt \in BOOLEAN /\ "NONE" \in Handles
    BY Zenon DEF TypeOK, Handles
  <2>2. Spent
    BY <1>1, TypeParts, TroubleOK, Zenon DEF Spent
  <2> QED  BY <1>0, <1>1, <2>1, <2>2, ThrowKeeps, Zenon
<1>2. ASSUME disk.present, UNCHANGED <<disk, ready, mem, current, fenced, corrupt, handle, budget>>,
             pc' = IF mem.inode # 0 /\ disk.inode # mem.inode THEN "retire" ELSE "attach",
             call' = [call EXCEPT !.existed = TRUE]
      PROVE  StorageInv'
  <2>1. /\ call'.job = call.job /\ call'.ret = call.ret /\ call'.back = call.back
        /\ call'.ok = call.ok /\ call'.recovering = call.recovering /\ call'.existed
    BY <1>0, <1>2, Zenon DEF Call
  <2>2. ~call.recovering /\ ~ready /\ SameFile(mem, seen)
    BY <1>0, <1>2, Zenon DEF OpenInv
  <2>3. TypeOK'
    BY <1>0, <1>2, CallOK, Zenon DEF TypeOK, Labels
  <2>4. DownInv' /\ RegistryInv'
    BY <1>0, <1>2, Zenon DEF DownInv, RegistryInv, Attached, Settled
  <2>5. ReplyInv' /\ RuntimeInv'
    BY <1>0, <1>2, <2>1, Zenon DEF ReplyInv, RuntimeInv, Writing
  <2>6. NamesInv'
    BY <1>0, <1>2, Zenon DEF NamesInv, Named, Used, Settled, Writing, SameFile
  <2>7. LossInv'
    BY <1>0, <1>2, Zenon DEF LossInv, Attached, Settled, Writing, Names, Lost, SameFile
  <2>8. OpenInv'
    BY <1>0, <1>2, <2>1, <2>2, Zenon DEF OpenInv, SameFile
  <2> QED  BY <2>3, <2>4, <2>5, <2>6, <2>7, <2>8, Zenon DEF StorageInv
<1>3. ASSUME ~disk.present, NEW i \in Inodes, disk' = NewDatabase(i), pc' = "attach",
             call' = [call EXCEPT !.existed = FALSE, !.recovering = @ \/ mem.inode # 0],
             UNCHANGED <<ready, mem, current, fenced, corrupt, handle, budget>>
      PROVE  StorageInv'
  <2>1. /\ call'.job = call.job /\ call'.ret = call.ret /\ call'.back = call.back
        /\ call'.ok = call.ok /\ ~call'.existed
        /\ call'.recovering <=> call.recovering \/ mem.inode # 0
    BY <1>0, <1>3, Zenon DEF Call
  <2>2. TypeOK'
    BY <1>0, <1>3, CallOK, CallFields, NewDatabaseIsEmpty, Zenon DEF TypeOK, Labels
  <2>3. DownInv' /\ RegistryInv'
    BY <1>0, <1>3, NewDatabaseIsEmpty, Zenon DEF DownInv, RegistryInv, Attached, Settled
  <2>4. ReplyInv' /\ RuntimeInv'
    BY <1>0, <1>3, <2>1, NewDatabaseIsEmpty, Zenon DEF ReplyInv, RuntimeInv, Writing
  <2>5. NamesInv'
    BY <1>0, <1>3, NewDatabaseIsEmpty, Zenon
    DEF NamesInv, Named, Used, Settled, Writing, SameFile
  <2>6. LossInv'
    <3>1. ~Names(seen)' /\ ~Names(safe)'
      BY <1>0, <1>3, NewDatabaseIsEmpty DEF NamesInv, Named, Names, SameFile
    <3> QED  BY <1>0, <1>3, <3>1 DEF LossInv, Attached, Settled, Writing
  <2>7. OpenInv'
    <3>1. call'.recovering \/ (acked \cap Commits = {} /\ ~ready)
      BY <1>0, <2>1, Zenon DEF OpenInv, NamesInv, SameFile
    <3> QED  BY <1>0, <1>3, <2>1, <3>1, NewDatabaseIsEmpty DEF OpenInv
  <2> QED  BY <2>2, <2>3, <2>4, <2>5, <2>6, <2>7, Zenon DEF StorageInv
<1> QED  BY <1>1, <1>2, <1>3, Zenon DEF OpenDatabase, Goto

LEMMA AttachKeeps == ASSUME StorageInv, AttachDatabase PROVE StorageInv'
<1> SUFFICES ASSUME TypeOK, DownInv, RegistryInv, ReplyInv, RuntimeInv, NamesInv, LossInv,
                    OpenInv
             PROVE  StorageInv'
  BY Zenon DEF StorageInv
<1>0. /\ pc = "attach" /\ UNCHANGED <<seen, safe, receipt, spool, installed, acked>>
      /\ handle = "NONE" /\ call \in Call /\ current /\ disk \in Database /\ disk.present
      /\ "STRAY" \in Handles
  BY Zenon DEF AttachDatabase, OpenInv, TypeOK, DownInv, Attached, Settled, Handles
<1>1. ready => call.recovering /\ ~call.existed /\ disk.good /\ disk.incarnation = 0
  BY <1>0, Zenon DEF OpenInv
<1>2. disk.incarnation = 0 /\ disk.inode # 0 => ~Names(seen) /\ ~Names(safe) /\ ~Names(mem)
  BY Zenon DEF NamesInv, Named, Names, SameFile
<1>3. ASSUME NEW damaged \in BOOLEAN, Throw("STRAY", damaged), UNCHANGED disk,
             Trouble \/ UNCHANGED budget
      PROVE  StorageInv'
  <2>1. Spent
    BY <1>3, TypeParts, TroubleOK, Zenon DEF Spent, GhostsOK
  <2>2. CASE ready
    <3>1. ~Names(seen) /\ ~Names(safe) /\ ~Names(mem)
      BY <1>0, <1>1, <1>2, <2>2, Zenon DEF NamesInv
    <3> QED  BY <1>0, <1>3, <2>1, <3>1, ThrowKeeps
  <2>3. CASE ~ready
    BY <1>0, <1>3, <2>1, <2>3, ExitKeeps, Zenon DEF Throw, SameRows
  <2> QED  BY <2>2, <2>3, Zenon
<1>4. ASSUME pc' = "retire", call' = call, handle' = "STRAY", corrupt' \in BOOLEAN,
             UNCHANGED <<ready, mem, current, fenced, disk, budget>>
      PROVE  StorageInv'
  <2>1. TypeOK'
    BY <1>0, <1>4, Zenon DEF TypeOK, Labels
  <2>2. DownInv' /\ RegistryInv'
    BY <1>0, <1>4, Zenon DEF DownInv, RegistryInv, Attached, Settled
  <2>3. ReplyInv' /\ RuntimeInv'
    BY <1>0, <1>4, Zenon DEF ReplyInv, RuntimeInv, Writing
  <2>4. NamesInv'
    BY <1>0, <1>4, Zenon DEF NamesInv, Named, Used, Settled, Writing, SameFile
  <2>5. LossInv'
    BY <1>0, <1>4, Zenon DEF LossInv, Attached, Settled, Writing, Names, Lost, SameFile
  <2>6. OpenInv'
    BY <1>4, Zenon DEF OpenInv
  <2> QED  BY <2>1, <2>2, <2>3, <2>4, <2>5, <2>6, Zenon DEF StorageInv
<1>5. ASSUME pc' = "flag", call' = call, handle' = "STRAY", corrupt' = FALSE,
             UNCHANGED <<ready, mem, current, fenced>>,
             call.existed /\ mem.incarnation # 0 => disk.incarnation = mem.incarnation,
             \/ disk.incarnation # 0 /\ UNCHANGED <<disk, budget>>
             \/ /\ disk.incarnation = 0 /\ budget.ids > 0
                /\ disk' = [disk EXCEPT !.incarnation = budget.ids]
                /\ budget' = [budget EXCEPT !.ids = @ - 1]
      PROVE  StorageInv'
  <2>1. /\ disk' \in Database /\ disk'.present /\ disk'.inode = disk.inode
        /\ disk'.ops = disk.ops /\ disk'.kept = disk.kept /\ disk'.runtime = disk.runtime
        /\ disk'.unknown = disk.unknown
    <3>1. budget.ids \in Nat
      BY DEF TypeOK
    <3>2. CASE UNCHANGED disk
      BY <1>0, <3>2
    <3>3. CASE disk' = [disk EXCEPT !.incarnation = budget.ids]
      <4>1. disk' \in Database
        BY <1>0, <3>1, <3>3, DiskOK, Zenon
      <4> QED  BY <1>0, <3>3, <4>1, SMT DEF Database
    <3> QED  BY <1>5, <3>2, <3>3
  <2>2. /\ budget' \in [troubles: Nat, ids: Nat]
        /\ \/ disk.incarnation # 0 /\ disk'.incarnation = disk.incarnation
              /\ budget'.ids = budget.ids
           \/ /\ disk.incarnation = 0 /\ budget.ids \in Nat \ {0}
              /\ disk'.incarnation = budget.ids /\ budget'.ids = budget.ids - 1
    BY <1>0, <1>5 DEF TypeOK, Database
  <2>3. TypeOK'
    BY <1>0, <1>5, <2>1, <2>2, Zenon DEF TypeOK, Labels
  <2>4. DownInv' /\ RegistryInv'
    BY <1>0, <1>5, <2>1, Zenon DEF DownInv, RegistryInv, Attached, Settled
  <2>5. ReplyInv' /\ RuntimeInv'
    BY <1>0, <1>5, <2>1, Zenon DEF ReplyInv, RuntimeInv, Writing
  <2>6. /\ seen.incarnation \in Nat /\ safe.incarnation \in Nat /\ mem.incarnation \in Nat
        /\ disk.incarnation \in Nat
    BY ContentFields, DatabaseFields, Zenon DEF TypeOK
  <2>7. NamesInv'
    BY <1>0, <1>5, <2>1, <2>2, <2>6
    DEF NamesInv, Named, Used, Settled, Writing, SameFile
  <2>8. disk.incarnation = 0 =>
           disk'.incarnation \notin {mem.incarnation, seen.incarnation, safe.incarnation}
    BY <2>2, <2>6 DEF NamesInv, Named, Used
  <2>9. disk'.incarnation # 0
    BY <2>2, Zenon
  <2>10. LossInv'
    <3>1. Lost' => ~Names(seen)' /\ ~Names(safe)'
      BY <1>0, <2>1, <2>2, <2>8, Zenon DEF LossInv, Lost, Names, SameFile
    <3> QED  BY <1>0, <1>5, <3>1 DEF LossInv, Attached, Settled, Writing
  <2>11. OpenInv'
    <3>1. Lost' => call.recovering
      <4>1. SUFFICES ASSUME Lost, ~call.recovering PROVE FALSE
        BY <1>0, <2>1, Zenon DEF Lost
      <4>2. call.existed /\ mem.inode # 0 /\ mem.incarnation # 0
        BY <1>0, <4>1 DEF OpenInv, NamesInv, Named, Lost, SameFile
      <4> QED  BY <1>0, <1>5, <4>1, <4>2 DEF OpenInv, LossInv, Names, SameFile
    <3>2. call.recovering => disk.incarnation = 0
      BY <1>0 DEF OpenInv
    <3> QED  BY <1>0, <1>5, <2>1, <2>8, <2>9, <3>1, <3>2 DEF OpenInv
  <2> QED  BY <2>3, <2>4, <2>5, <2>7, <2>10, <2>11, Zenon DEF StorageInv
<1> QED  BY <1>3, <1>4, <1>5, Zenon DEF AttachDatabase, Goto

LEMMA FlagKeeps == ASSUME StorageInv, FlagDatabase PROVE StorageInv'
<1> SUFFICES ASSUME TypeOK, DownInv, RegistryInv, ReplyInv, RuntimeInv, NamesInv, LossInv,
                    OpenInv
             PROVE  StorageInv'
  BY Zenon DEF StorageInv
<1>0. /\ pc = "flag" /\ UNCHANGED <<seen, safe, receipt, spool, installed, acked>>
      /\ call \in Call /\ mem \in Content /\ disk \in Database /\ disk.present /\ current
      /\ "LIVE" \in Handles /\ corrupt \in BOOLEAN
  BY Zenon DEF FlagDatabase, OpenInv, TypeOK, DownInv, Attached, Settled, Handles
<1>1. CASE Trouble /\ Throw("LIVE", corrupt) /\ UNCHANGED disk
  <2>1. Spent
    BY <1>1, TypeParts, TroubleOK, Zenon DEF Spent
  <2>2. Lost => disk.incarnation \notin {mem.incarnation, seen.incarnation}
    BY <1>0, Zenon DEF OpenInv
  <2> QED  BY <1>0, <1>1, <2>1, <2>2, ThrowKeeps, Zenon
<1>2. ASSUME disk' = [disk EXCEPT !.unknown = @ \/ call.recovering], handle' = "LIVE",
             mem' = [mem EXCEPT !.inode = disk.inode, !.incarnation = disk.incarnation],
             pc' = IF mem' = mem THEN "replay" ELSE "rename",
             call' = [call EXCEPT !.renewed = TRUE, !.back = "reset", !.after = "replay",
                                  !.draft = mem'],
             UNCHANGED <<ready, current, fenced, corrupt, budget>>
      PROVE  StorageInv'
  <2>1. /\ mem' \in Content /\ mem'.inode = disk.inode /\ mem'.incarnation = disk.incarnation
        /\ mem'.present = mem.present /\ Same(mem', mem)
    <3>1. disk.inode \in Nat /\ disk.incarnation \in Nat
      BY <1>0, DatabaseFields
    <3> QED  BY <1>0, <1>2, <3>1, Zenon DEF Content, Same
  <2>2. /\ call' \in Call /\ call'.job = call.job /\ call'.ret = call.ret /\ call'.renewed
        /\ call'.back = "reset" /\ call'.after = "replay" /\ call'.draft = mem'
    <3>1. call' \in Call
      BY <1>0, <1>2, <2>1, CallOK, Zenon
    <3> QED  BY <1>0, <1>2, <3>1, SMT DEF Call
  <2>3. /\ disk' \in Database /\ disk'.present /\ disk'.inode = disk.inode
        /\ disk'.incarnation = disk.incarnation /\ disk'.ops = disk.ops
        /\ disk'.kept = disk.kept /\ disk'.runtime = disk.runtime
        /\ disk'.unknown <=> disk.unknown \/ call.recovering
    <3>1. (disk.unknown \/ call.recovering) \in BOOLEAN
      OBVIOUS
    <3>2. disk' \in Database
      BY <1>0, <1>2, <3>1, DiskOK, Zenon
    <3> QED  BY <1>0, <1>2, <3>2, Zenon DEF Database
  <2>4. pc' \in {"replay", "rename"} /\ (pc' = "replay" => mem' = mem)
    BY <1>2, Zenon
  <2>5. /\ mem.present /\ Same(mem, seen) /\ disk.inode # 0 /\ disk.incarnation # 0
        /\ Lost => call.recovering
    BY <1>0, Zenon DEF DownInv, NamesInv, OpenInv
  <2>6. TypeOK'
    BY <1>0, <1>2, <2>1, <2>2, <2>3, <2>4, Zenon DEF TypeOK, Labels
  <2>7. DownInv'
    BY <1>0, <1>2, <2>1, <2>4, <2>5, Zenon DEF DownInv, Attached, Settled, Same
  <2>8. RegistryInv'
    BY <1>0, <1>2, <2>1, <2>2, <2>3, <2>4, <2>5, Zenon DEF RegistryInv, Settled, Same
  <2>9. ReplyInv'
    <3>1. call'.ok = call.ok
      BY <1>0, <1>2, Zenon DEF Call
    <3> QED  BY <1>0, <2>2, <3>1 DEF ReplyInv
  <2>10. RuntimeInv'
    BY <1>0, <1>2, <2>2, <2>3, <2>4, Zenon DEF RuntimeInv
  <2>11. NamesInv'
    <3>1. Named(mem)'
      BY <1>2, <2>1, <2>5 DEF NamesInv, Named, Used
    <3>2. pc' = "replay" => seen.inode # 0
      BY <1>0, <2>1, <2>4, <2>5 DEF NamesInv, SameFile
    <3> QED  BY <1>0, <1>2, <2>1, <2>2, <2>3, <2>4, <2>5, <3>1, <3>2, Zenon
             DEF NamesInv, Named, Used, Settled, Writing, SameFile
  <2>12. LossInv'
    <3>1. ~Lost'
      BY <1>0, <2>3, <2>5, Zenon DEF Lost
    <3> QED  BY <1>2, <2>2, <2>4, <3>1 DEF LossInv, Attached, Settled, Writing
  <2>13. OpenInv'
    BY <2>4, Zenon DEF OpenInv
  <2> QED  BY <2>6, <2>7, <2>8, <2>9, <2>10, <2>11, <2>12, <2>13, Zenon DEF StorageInv
<1> QED  BY <1>1, <1>2, Zenon DEF FlagDatabase, Goto

(* The projection and the runtime rows.                                    *)
LEMMA ReplayKeeps == ASSUME StorageInv, Replay PROVE StorageInv'
<1> SUFFICES ASSUME TypeOK, DownInv, RegistryInv, ReplyInv, RuntimeInv, NamesInv, LossInv,
                    OpenInv
             PROVE  StorageInv'
  BY Zenon DEF StorageInv
<1>0. /\ pc = "replay" /\ UNCHANGED <<seen, receipt, spool, installed, acked>>
      /\ call \in Call /\ mem \in Content /\ disk \in Database /\ current
      /\ corrupt \in BOOLEAN /\ pc \in Attached
  BY Zenon DEF Replay, TypeOK, DownInv, Attached
<1>1. ASSUME safe' \in {safe, seen}, NEW damaged \in BOOLEAN, Throw(handle, damaged),
             UNCHANGED disk, Trouble \/ UNCHANGED budget
      PROVE  StorageInv'
  BY <1>0, <1>1, FailKeeps, Zenon
<1>2. ASSUME safe' = seen, disk' = (IF handle = "LIVE" THEN Project ELSE disk), fenced' = FALSE,
             pc' = IF call.back \in {"reply", "publish"} THEN "ensure" ELSE call.back,
             call' = [call EXCEPT !.back = "reset", !.after = "open",
                         !.ret = IF call.back \in {"reply", "publish"} THEN call.back ELSE @],
             UNCHANGED <<ready, mem, current, corrupt, handle, budget>>
      PROVE  StorageInv'
  <2>1. /\ call.back \in {"reset", "ensured", "reply", "publish"}
        /\ call.ret \in {"work", "reply", "publish", "next", "ready"}
    BY <1>0, CallFields, Zenon
  <2>2. /\ call' \in Call /\ call'.job = call.job /\ call'.back = "reset" /\ call'.ok = call.ok
        /\ call'.renewed = call.renewed
        /\ call'.ret = IF call.back \in {"reply", "publish"} THEN call.back ELSE call.ret
    <3> DEFINE to == IF call.back \in {"reply", "publish"} THEN call.back ELSE call.ret
    <3>1. to \in {"work", "reply", "publish", "next", "ready"}
      BY <2>1
    <3>2. call' = [call EXCEPT !.back = "reset", !.after = "open", !.ret = to]
      BY <1>2
    <3> HIDE DEF to
    <3>3. call' \in Call
      BY <1>0, <3>1, <3>2, CallOK, Zenon
    <3>4. /\ call'.job = call.job /\ call'.back = "reset" /\ call'.ok = call.ok
          /\ call'.renewed = call.renewed /\ call'.ret = to
      BY <1>0, <3>2, Zenon DEF Call
    <3> QED  BY <3>3, <3>4 DEF to
  <2>3. /\ disk' \in Database /\ SameFile(disk', disk) /\ disk'.present = disk.present
        /\ disk'.kept = disk.kept /\ disk'.runtime = disk.runtime
        /\ disk'.unknown = disk.unknown
        /\ IF handle = "LIVE" THEN disk'.ops = mem.ops ELSE disk'.ops = disk.ops
    <3>1. CASE handle # "LIVE"
      BY <1>0, <1>2, <3>1 DEF SameFile
    <3>2. CASE handle = "LIVE"
      <4>1. Validated(mem.definitions) \in [Definitions -> Definition]
        <5>1. mem.definitions \in [Definitions -> Definition]
          BY <1>0, ContentFields, Zenon
        <5>2. ASSUME NEW d \in Definition, NEW b \in BOOLEAN
              PROVE  [d EXCEPT !.active = b] \in Definition
          BY Zenon DEF Definition
        <5> QED  BY <5>1, <5>2, Zenon DEF Validated
      <4>2. mem.ops \in [Operations -> Outcome]
        BY <1>0, ContentFields, Zenon
      <4>3. disk' = [disk EXCEPT !.ops = mem.ops, !.definitions = Validated(mem.definitions)]
        BY <1>2, <3>2 DEF Project
      <4>4. disk' \in Database
        BY <1>0, <4>1, <4>2, <4>3, DiskOK, Zenon
      <4> QED  BY <1>0, <3>2, <4>3, <4>4, Zenon DEF Database, SameFile
    <3> QED  BY <3>1, <3>2
  <2>4. /\ pc' \in {"ensure", "ensured", "reset"}
        /\ pc' = "ensure" <=> call.back \in {"reply", "publish"}
        /\ pc' = "ensured" <=> call.back = "ensured"
    BY <1>2, <2>1, Zenon
  <2>5. Same(mem, seen) /\ Done(safe.ops) \subseteq Done(safe'.ops) /\ seen.inode # 0
    BY <1>0, <1>2, Zenon DEF DownInv, RegistryInv, NamesInv, Attached
  <2>6. TypeOK'
    BY <1>0, <1>2, <2>2, <2>3, <2>4, Zenon DEF TypeOK, Labels
  <2>7. DownInv'
    BY <1>0, <1>2, <2>4, Zenon DEF DownInv, Attached, Settled, Same
  <2>8. RegistryInv'
    BY <1>0, <1>2, <2>3, <2>4, <2>5, Zenon DEF RegistryInv, Settled, Same
  <2>9. ReplyInv'
    BY <1>0, <1>2, <2>2, <2>4, <2>5, StorageAssumption, Zenon DEF ReplyInv
  <2>10. RuntimeInv'
    <3>1. call.back = "publish" => ready
      BY Zenon DEF ReplyInv, RuntimeInv
    <3> QED  BY <1>0, <1>2, <2>1, <2>2, <2>3, <2>4, <3>1 DEF RuntimeInv
  <2>11. NamesInv'
    BY <1>0, <1>2, <2>3, <2>4, <2>5, Zenon
    DEF NamesInv, Named, Used, Settled, Writing, SameFile
  <2>12. LossInv'
    <3>1. /\ (Lost' <=> Lost) /\ (Names(seen)' <=> Names(seen))
          /\ (Names(safe)' <=> Names(seen)) /\ (Names(mem)' <=> Names(mem))
      BY <1>0, <1>2, <2>3, Zenon DEF Lost, Names, SameFile
    <3>2. /\ handle = "LIVE" => ~Lost
          /\ handle = "STRAY" => ~Names(seen) /\ ~Names(mem)
          /\ handle # "NONE" /\ (Lost => ~Names(seen))
      BY <1>0 DEF LossInv
    <3>3. call'.job \in Commits /\ call'.ret \in {"reply", "publish"} => call.ret = call'.ret
      BY <1>0, <2>1, <2>2, StorageAssumption DEF ReplyInv
    <3> QED  BY <1>0, <1>2, <2>2, <2>3, <2>4, <3>1, <3>2, <3>3
             DEF LossInv, Attached, Settled, Writing
  <2>13. OpenInv'
    BY <2>4, Zenon DEF OpenInv
  <2> QED  BY <2>6, <2>7, <2>8, <2>9, <2>10, <2>11, <2>12, <2>13, Zenon DEF StorageInv
<1> QED  BY <1>0, <1>1, <1>2, Zenon DEF Replay, Goto

LEMMA ResetKeeps == ASSUME StorageInv, ResetRuntime PROVE StorageInv'
<1> SUFFICES ASSUME TypeOK, DownInv, RegistryInv, ReplyInv, RuntimeInv, NamesInv, LossInv,
                    OpenInv
             PROVE  StorageInv'
  BY Zenon DEF StorageInv
<1>0. /\ pc = "reset" /\ UNCHANGED <<seen, safe, receipt, spool, installed, acked>>
      /\ call \in Call /\ disk \in Database /\ corrupt \in BOOLEAN /\ pc \in Attached
      /\ call.ret \in {"work", "reply", "publish", "next", "ready"}
  BY CallFields, Zenon DEF ResetRuntime, TypeOK, Attached, Settled
<1>1. CASE Trouble /\ Throw(handle, corrupt) /\ UNCHANGED disk
  BY <1>0, <1>1, FailKeeps, Zenon
<1>2. ASSUME disk' = [disk EXCEPT !.runtime = {}],
             pc' = IF call.ret = "next" THEN "next" ELSE "ensured",
             call' = [call EXCEPT !.recovering = FALSE, !.existed = FALSE],
             UNCHANGED <<ready, mem, current, fenced, corrupt, handle, budget>>
      PROVE  StorageInv'
  <2>1. /\ call'.job = call.job /\ call'.ret = call.ret /\ call'.back = call.back
        /\ call'.ok = call.ok /\ call'.renewed = call.renewed
    BY <1>0, <1>2, SMT DEF Call
  <2>2. SameRows(disk, disk') /\ disk'.runtime = {}
    BY <1>0, <1>2, SMT DEF Database, SameRows
  <2>3. call' \in Call /\ disk' \in Database
    BY <1>0, <1>2, CallOK, DiskOK, Zenon
  <2>4. pc' \in {"next", "ensured"} /\ (pc' = "next" <=> call.ret = "next")
    BY <1>2, Zenon
  <2>5. TypeOK'
    BY <1>0, <1>2, <2>3, <2>4, Zenon DEF TypeOK, Labels
  <2>6. DownInv'
    BY <1>0, <1>2, <2>4, Zenon DEF DownInv, Attached, Settled
  <2>7. RegistryInv'
    BY <1>0, <1>2, <2>2, <2>4, Zenon DEF RegistryInv, Settled, SameRows
  <2>8. ReplyInv' /\ RuntimeInv'
    BY <1>0, <1>2, <2>1, <2>2, <2>4, Zenon DEF ReplyInv, RuntimeInv, Writing
  <2>9. NamesInv'
    BY <1>0, <1>2, <2>2, <2>4, Zenon
    DEF NamesInv, Named, Used, Settled, Writing, SameFile, SameRows
  <2>10. LossInv'
    <3>1. /\ (Lost' <=> Lost) /\ (Names(seen)' <=> Names(seen))
          /\ (Names(safe)' <=> Names(safe)) /\ (Names(mem)' <=> Names(mem))
      BY <1>0, <1>2, <2>2, Zenon DEF Lost, Names, SameFile, SameRows
    <3> QED  BY <1>0, <1>2, <2>1, <2>2, <2>4, <3>1
             DEF LossInv, Attached, Settled, Writing, SameRows
  <2>11. OpenInv'
    BY <2>4, Zenon DEF OpenInv
  <2> QED  BY <2>5, <2>6, <2>7, <2>8, <2>9, <2>10, <2>11, Zenon DEF StorageInv
<1> QED  BY <1>1, <1>2, Zenon DEF ResetRuntime, Goto

(* Ensure.                                                                 *)
LEMMA EnsureReadKeeps == ASSUME StorageInv, EnsureRead PROVE StorageInv'
<1> SUFFICES ASSUME TypeOK, DownInv, RegistryInv, ReplyInv, RuntimeInv, NamesInv, LossInv,
                    OpenInv
             PROVE  StorageInv'
  BY Zenon DEF StorageInv
<1>1. /\ pc = "ensure" /\ mem' = seen /\ current' = TRUE /\ fenced' = TRUE
      /\ UNCHANGED <<seen, safe, disk, receipt, spool, installed, ready, pc, call, corrupt,
                     handle, acked, budget>>
  BY Zenon DEF EnsureRead, files, ghosts
<1>2. TypeOK'
  BY <1>1, Zenon DEF TypeOK
<1>3. DownInv' /\ RegistryInv'
  BY <1>1, Zenon DEF DownInv, RegistryInv, Attached, Settled, Same
<1>4. ReplyInv' /\ RuntimeInv'
  BY <1>1, Zenon DEF ReplyInv, RuntimeInv, Writing
<1>5. NamesInv'
  BY <1>1, Zenon DEF NamesInv, Named, Used, Settled, Writing, SameFile
<1>6. LossInv'
  BY <1>1, Zenon DEF LossInv, Attached, Settled, Writing, Lost, Names, SameFile
<1>7. OpenInv'
  BY <1>1, Zenon DEF OpenInv
<1> QED  BY <1>2, <1>3, <1>4, <1>5, <1>6, <1>7, Zenon DEF StorageInv

LEMMA EnsureKeeps == ASSUME StorageInv, Ensure PROVE StorageInv'
<1> SUFFICES ASSUME TypeOK, DownInv, RegistryInv, ReplyInv, RuntimeInv, NamesInv, LossInv,
                    OpenInv
             PROVE  StorageInv'
  BY Zenon DEF StorageInv
<1>0. /\ pc = "ensure" /\ call \in Call /\ corrupt \in BOOLEAN /\ call.back \in {"reset", "ensured"}
      /\ UNCHANGED <<seen, safe, disk, receipt, spool, installed, acked, budget>>
  BY CallFields, Zenon DEF Ensure, files, ghosts, TypeOK, ReplyInv, Writing
<1>1. ASSUME NEW damaged \in BOOLEAN, Throw(handle, damaged) PROVE StorageInv'
  BY <1>0, <1>1, FailKeeps, Zenon
<1>2. ASSUME current, Recover PROVE StorageInv'
  <2>1. /\ pc' = (IF disk.present THEN "retire" ELSE "open") /\ handle' = "NONE" /\ fenced' = TRUE
        /\ call' = [call EXCEPT !.recovering = TRUE]
        /\ UNCHANGED <<corrupt, ready, mem, current>>
    BY <1>2, Zenon DEF Recover, Goto
  <2>2. /\ call' \in Call /\ call'.job = call.job /\ call'.ret = call.ret /\ call'.back = call.back
        /\ call'.ok = call.ok /\ call'.recovering
    <3>1. call' \in Call
      BY <1>0, <2>1, CallOK, Zenon
    <3> QED  BY <1>0, <2>1, <3>1, SMT DEF Call
  <2>3. pc' \in {"retire", "open"} /\ (pc' = "open" => ~disk.present)
    BY <2>1, Zenon
  <2>4. TypeOK'
    BY <1>0, <2>1, <2>2, <2>3, Zenon DEF TypeOK, Labels
  <2>5. DownInv' /\ RegistryInv'
    BY <1>0, <1>2, <2>1, <2>3, Zenon DEF DownInv, RegistryInv, Attached, Settled
  <2>6. ReplyInv' /\ RuntimeInv'
    BY <1>0, <2>1, <2>2, <2>3, Zenon DEF ReplyInv, RuntimeInv, Writing
  <2>7. NamesInv'
    BY <1>0, <2>1, <2>3, Zenon DEF NamesInv, Named, Used, Settled, Writing, SameFile
  <2>8. LossInv'
    BY <1>0, <2>1, <2>3, Zenon DEF LossInv, Attached, Settled, Writing, Lost, Names, SameFile
  <2>9. OpenInv'
    BY <1>0, <2>1, <2>2, <2>3, Zenon DEF OpenInv
  <2> QED  BY <2>4, <2>5, <2>6, <2>7, <2>8, <2>9, Zenon DEF StorageInv
<1>3. ASSUME current, handle = "LIVE", disk.incarnation = mem.incarnation,
             pc' = IF fenced THEN "replay" ELSE "ensured",
             call' = IF fenced THEN [call EXCEPT !.back = "ensured"] ELSE call,
             UNCHANGED <<ready, mem, current, fenced, corrupt, handle>>
      PROVE  StorageInv'
  <2>1. /\ call' \in Call /\ call'.job = call.job /\ call'.ret = call.ret
        /\ call'.back \in {"reset", "ensured"} /\ call'.ok = call.ok
        /\ call'.renewed = call.renewed
    <3>1. call' \in Call
      BY <1>0, <1>3, CallOK, Zenon
    <3> QED  BY <1>0, <1>3, <3>1, SMT DEF Call
  <2>2. pc' \in {"replay", "ensured"} /\ (pc' = "ensured" => ~fenced) /\ ~Lost
    BY <1>0, <1>3, Zenon DEF LossInv
  <2>3. call.ret # "next" /\ seen.inode # 0 /\ safe.inode # 0
    BY <1>0, Zenon DEF RuntimeInv, NamesInv, Settled
  <2>4. TypeOK'
    BY <1>0, <1>3, <2>1, <2>2, Zenon DEF TypeOK, Labels
  <2>5. DownInv' /\ RegistryInv'
    BY <1>0, <1>3, <2>2, Zenon DEF DownInv, RegistryInv, Attached, Settled
  <2>6. ReplyInv'
    BY <1>0, <2>1, Zenon DEF ReplyInv
  <2>7. RuntimeInv'
    BY <1>0, <1>3, <2>1, <2>2, <2>3, Zenon DEF RuntimeInv
  <2>8. NamesInv'
    BY <1>0, <1>3, <2>2, <2>3, Zenon DEF NamesInv, Named, Used, Settled, Writing, SameFile
  <2>9. LossInv'
    <3>1. ~Lost'
      BY <1>0, <2>2, Zenon DEF Lost
    <3> QED  BY <1>0, <1>3, <2>1, <2>2, <3>1 DEF LossInv, Attached, Settled, Writing
  <2>10. OpenInv'
    BY <2>2, Zenon DEF OpenInv
  <2> QED  BY <2>4, <2>5, <2>6, <2>7, <2>8, <2>9, <2>10, Zenon DEF StorageInv
<1> QED  BY <1>0, <1>1, <1>2, <1>3, Zenon DEF Ensure, Goto

(* A position of the executor that no file step reaches: nothing but the   *)
(* locals and the answers changes.                                         *)
LEMMA MoveKeeps ==
    ASSUME StorageInv, pc \in Settled \cup {"idle"}, call' \in Call,
           pc' \in {"idle", "ensure", "work", "next"}, ready' \in BOOLEAN,
           pc' \in {"work", "next"} => pc \in Settled, pc' = "idle" => ready', ready => ready',
           acked' \subseteq Operations \cup Commits,
           acked' \cap Operations \subseteq Done(safe.ops),
           handle = "LIVE" => acked' \cap Commits \subseteq (acked \cap Commits) \cup disk.kept,
           handle = "NONE" => acked' = acked,
           UNCHANGED <<files, mem, current, fenced, corrupt, handle, budget>>,
           call'.back = "reset" \/ call'.back = call.back,
           RuntimeInv', call'.ok => call'.job # "none",
           call'.job \in Operations /\ (call'.ret = "reply" \/ (call'.ret = "publish" /\ call'.ok))
              => call'.job \in Done(safe.ops),
           /\ call'.ret \in {"reply", "publish"} /\ call'.ok /\ ~call'.renewed
           /\ call'.job \in Commits /\ handle = "LIVE"
           => call'.job \in disk.kept
    PROVE  StorageInv'
<1> SUFFICES ASSUME TypeOK, DownInv, RegistryInv, ReplyInv, RuntimeInv, NamesInv, LossInv,
                    OpenInv
             PROVE  StorageInv'
  BY Zenon DEF StorageInv
<1>0. UNCHANGED <<seen, safe, disk, receipt, spool, installed, mem, current, fenced, corrupt,
                  handle, budget>>
  BY Zenon DEF files
<1>1. TypeOK'
  BY <1>0, Zenon DEF TypeOK, Labels
<1>2. DownInv'
  BY <1>0 DEF DownInv, Attached, Settled
<1>3. RegistryInv'
  BY <1>0 DEF RegistryInv, Settled
<1>4. ReplyInv'
  <2>1. call'.back \notin {"reply", "publish"}
    BY Zenon DEF ReplyInv, Settled, Writing
  <2> QED  BY <1>0, <2>1, Zenon DEF ReplyInv
<1>5. NamesInv'
  <2>1. safe.inode # 0
    BY Zenon DEF NamesInv
  <2> QED  BY <1>0, <2>1 DEF NamesInv, Named, Used, Settled, Writing, SameFile
<1>6. LossInv'
  <2>1. (Names(seen)' <=> Names(seen)) /\ (Names(safe)' <=> Names(safe)) /\ (Names(mem)' <=> Names(mem))
    BY <1>0, Zenon DEF Names, SameFile
  <2>2. handle = "LIVE" => (Lost' => Lost)
    BY <1>0, Zenon DEF Lost
  <2>3. handle = "NONE" => (Lost' => Lost)
    BY <1>0, Zenon DEF Lost
  <2>4. handle \in {"NONE", "LIVE", "STRAY"}
    BY Zenon DEF TypeOK
  <2> QED  BY <1>0, <2>1, <2>2, <2>3, <2>4, Zenon DEF LossInv, Attached, Settled, Writing
<1>7. OpenInv'
  BY Zenon DEF OpenInv
<1> QED  BY <1>1, <1>2, <1>3, <1>4, <1>5, <1>6, <1>7, Zenon DEF StorageInv

LEMMA EnsuredKeeps == ASSUME StorageInv, Ensured PROVE StorageInv'
<1> SUFFICES ASSUME TypeOK, DownInv, RegistryInv, ReplyInv, RuntimeInv, NamesInv, LossInv,
                    OpenInv
             PROVE  StorageInv'
  BY Zenon DEF StorageInv
<1>0. /\ pc = "ensured" /\ call \in Call /\ pc \in Settled
      /\ UNCHANGED <<files, mem, current, fenced, corrupt, handle, budget>>
      /\ acked \subseteq Operations \cup Commits /\ acked \cap Operations \subseteq Done(safe.ops)
      /\ handle # "NONE" /\ ready \in BOOLEAN
      /\ call.ret # "next" /\ (~ready => disk.runtime = {}) /\ disk' = disk
  BY Zenon DEF Ensured, TypeOK, RegistryInv, LossInv, RuntimeInv, Settled, Attached, files
<1>1. /\ call.job \in Operations /\ (call.ret = "reply" \/ (call.ret = "publish" /\ call.ok)) =>
            call.job \in Done(safe.ops)
      /\ /\ call.ret \in {"reply", "publish"} /\ call.ok /\ ~call.renewed
         /\ call.job \in Commits /\ handle = "LIVE"
         => call.job \in disk.kept
      /\ call.job \in Online \cup Commits \cup {"tick"} \/ call.ret = "publish" => ready
      /\ call.back # "reset" => call.ret # "next"
  BY Zenon DEF ReplyInv, LossInv, RuntimeInv
<1>2. /\ NoCall.job = "none" /\ NoCall.ret = "next" /\ NoCall.back = "reset" /\ ~NoCall.ok
      /\ call.ok => call.job # "none"
  BY Zenon DEF NoCall, ReplyInv
<1>3. ASSUME call.ret = "work", pc' = "work", call' = [call EXCEPT !.renewed = FALSE],
             UNCHANGED <<ready, acked>>
      PROVE  StorageInv'
  <2>1. call' \in Call
    BY <1>0, <1>3, CallOK, Zenon
  <2>2. call'.ret = "work" /\ call'.job = call.job /\ call'.back = call.back /\ call'.ok = call.ok
    BY <1>0, <1>3, SMT DEF Call
  <2>3. RuntimeInv'
    BY <1>0, <1>1, <1>3, <2>2, Zenon DEF RuntimeInv
  <2> QED  BY <1>0, <1>2, <1>3, <2>1, <2>2, <2>3, MoveKeeps, Zenon
<1>4. ASSUME call.ret = "reply", ready, pc' = "ensure", UNCHANGED <<ready, acked>>,
             call' = [call EXCEPT !.ret = "publish",
                                  !.ok = @ /\ ~call.renewed /\ InstallationStands(call.job)]
      PROVE  StorageInv'
  <2> DEFINE ok == call.ok /\ ~call.renewed /\ InstallationStands(call.job)
  <2>1. call' = [call EXCEPT !.ret = "publish", !.ok = ok]
    BY <1>4, Zenon
  <2>2. ok \in BOOLEAN /\ (ok => call.ok /\ ~call.renewed)
    OBVIOUS
  <2> HIDE DEF ok
  <2>3. call' \in Call
    BY <1>0, <2>1, <2>2, CallOK, Zenon
  <2>4. /\ call'.ret = "publish" /\ call'.ok = ok /\ call'.job = call.job
        /\ call'.back = call.back /\ call'.renewed = call.renewed
    BY <1>0, <2>1, SMT DEF Call
  <2>5. RuntimeInv'
    BY <1>0, <1>4, <2>4, Zenon DEF RuntimeInv
  <2>6. /\ call'.job \in Operations => call'.job \in Done(safe.ops)
        /\ call'.ok => call'.job # "none"
        /\ call'.ok /\ call'.job \in Commits /\ handle = "LIVE" => call'.job \in disk.kept
    BY <1>1, <1>2, <1>4, <2>2, <2>4, Zenon
  <2> QED  BY <1>0, <1>4, <2>3, <2>4, <2>5, <2>6, MoveKeeps, Zenon
<1>5. ASSUME call.ret = "reply", ~ready, pc' = "next", call' = call, UNCHANGED <<ready, acked>>
      PROVE  StorageInv'
  <2>1. RuntimeInv'
    BY <1>0, <1>1, <1>5, Zenon DEF RuntimeInv
  <2> QED  BY <1>0, <1>1, <1>2, <1>5, <2>1, MoveKeeps, Zenon
<1>6. ASSUME call.ret = "publish", pc' = "idle", call' = NoCall, UNCHANGED ready,
             acked' = acked \cup (IF call.ok /\ ~call.renewed THEN {call.job} \ {"tick"} ELSE {})
      PROVE  StorageInv'
  <2>1. RuntimeInv'
    BY <1>0, <1>1, <1>2, <1>6, StorageAssumption, Zenon DEF RuntimeInv, Online
  <2>2. /\ acked' \subseteq Operations \cup Commits
        /\ acked' \cap Operations \subseteq Done(safe.ops)
        /\ handle = "LIVE" => acked' \cap Commits \subseteq (acked \cap Commits) \cup disk.kept
    <3>1. call.job \in Operations \cup Commits \cup {"none", "tick"}
      BY <1>0, CallFields
    <3>2. call.ok /\ ~call.renewed => call.job # "none"
      BY <1>0, <1>6, Zenon DEF ReplyInv
    <3> QED  BY <1>0, <1>1, <1>6, <3>1, <3>2, StorageAssumption
  <2> QED  BY <1>0, <1>1, <1>2, <1>6, <2>1, <2>2, EmptyOK, StorageAssumption, MoveKeeps, Zenon
<1>7. ASSUME call.ret = "ready", pc' = "idle", call' = NoCall, ready' = TRUE, UNCHANGED acked
      PROVE  StorageInv'
  <2>1. RuntimeInv'
    BY <1>0, <1>2, <1>7, Zenon DEF RuntimeInv
  <2> QED  BY <1>0, <1>2, <1>7, <2>1, EmptyOK, StorageAssumption, MoveKeeps, Zenon
<1> QED  BY <1>3, <1>4, <1>5, <1>6, <1>7, Zenon DEF Ensured, Goto

(* A call that is answered or passed on without a write.                   *)
LEMMA BeginKeeps ==
    ASSUME StorageInv, NEW job \in Online \cup Commits \cup {"tick"}, Begin(job)
    PROVE  StorageInv'
<1> SUFFICES ASSUME TypeOK, DownInv, RegistryInv
             PROVE  StorageInv'
  BY Zenon DEF StorageInv
<1>1. /\ pc = "idle" /\ pc' = "ensure" /\ ready
      /\ call' = [NoCall EXCEPT !.job = job, !.ret = "work", !.ok = TRUE]
      /\ UNCHANGED <<files, ready, mem, current, fenced, corrupt, handle, acked, budget>>
      /\ acked \subseteq Operations \cup Commits /\ acked \cap Operations \subseteq Done(safe.ops)
  BY Zenon DEF Begin, Goto, ghosts, DownInv, TypeOK, RegistryInv
<1>2. job \in Operations \cup Commits \cup {"none", "tick"} /\ job # "none"
  BY StorageAssumption, Zenon DEF Online
<1>3. call' \in Call
  BY <1>1, <1>2, EmptyOK, Zenon DEF Call
<1>4. call'.job = job /\ call'.ret = "work" /\ call'.back = "reset"
  BY <1>1, Zenon DEF NoCall
<1>5. RuntimeInv'
  BY <1>1, <1>4, Zenon DEF RuntimeInv
<1> QED  BY <1>1, <1>2, <1>3, <1>4, <1>5, MoveKeeps, Zenon

(* A handler that stays on the projection it was given.                    *)
LEMMA AnswerKeeps ==
    ASSUME StorageInv, pc = "work", pc' = "ensure",
           UNCHANGED <<files, ready, mem, current, fenced, corrupt, handle, ghosts>>,
           \/ /\ call.job \in Operations /\ mem.ops[call.job] # "NONE"
              /\ call' = [call EXCEPT !.ret = "reply"]
           \/ /\ call.job \in Online
              /\ call' = [call EXCEPT !.ret = "publish", !.ok = FALSE]
    PROVE  StorageInv'
<1> SUFFICES ASSUME TypeOK, DownInv, RegistryInv, ReplyInv, RuntimeInv
             PROVE  StorageInv'
  BY Zenon DEF StorageInv
<1>1. /\ call \in Call /\ acked \subseteq Operations \cup Commits /\ pc \in Settled
      /\ acked \cap Operations \subseteq Done(safe.ops) /\ disk' = disk
      /\ ready \in BOOLEAN /\ UNCHANGED <<acked, budget>>
  BY Zenon DEF TypeOK, RegistryInv, Settled, ghosts, files
<1>2. Same(mem, seen) /\ Same(safe, seen)
  BY <1>1, Zenon DEF DownInv, RegistryInv, Settled, Attached
<1>3. /\ call' \in Call /\ call'.job = call.job /\ call'.back = call.back
      /\ call'.ret \in {"reply", "publish"} /\ (call'.ret = "reply" => call'.ok = call.ok)
      /\ call'.ret = "publish" => ~call'.ok /\ call.job \in Online
      /\ call'.ret = "reply" => mem.ops[call.job] # "NONE"
      /\ call.job \in Operations
  <2>1. CASE call' = [call EXCEPT !.ret = "reply"] /\ mem.ops[call.job] # "NONE" /\ call.job \in Operations
    <3>1. call' \in Call
      BY <1>1, <2>1, CallOK, Zenon
    <3> QED  BY <1>1, <2>1, <3>1, SMT DEF Call
  <2>2. CASE call.job \in Online /\ call' = [call EXCEPT !.ret = "publish", !.ok = FALSE]
    <3>1. call' \in Call
      BY <1>1, <2>2, CallOK, Zenon
    <3> QED  BY <1>1, <2>2, <3>1, SMT DEF Call, Online
  <2> QED  BY <2>1, <2>2, Zenon
<1>4. /\ call'.ok => call'.job # "none"
      /\ call.job \notin Commits
      /\ call'.ret = "reply" => call'.job \in Done(safe.ops)
  BY <1>2, <1>3, StorageAssumption, Zenon DEF Same, Done
<1>5. RuntimeInv'
  BY <1>1, <1>3, Zenon DEF RuntimeInv
<1> QED  BY <1>1, <1>3, <1>4, <1>5, MoveKeeps, Zenon

LEMMA NextRegistrationKeeps == ASSUME StorageInv, NextRegistration PROVE StorageInv'
<1> SUFFICES ASSUME TypeOK, RegistryInv, RuntimeInv
             PROVE  StorageInv'
  BY Zenon DEF StorageInv
<1>1. /\ pc = "next" /\ pc' = "ensure" /\ pc \in Settled
      /\ UNCHANGED <<files, ready, mem, current, fenced, corrupt, handle, acked, budget>>
      /\ acked \subseteq Operations \cup Commits /\ acked \cap Operations \subseteq Done(safe.ops)
      /\ disk' = disk /\ ready \in BOOLEAN
  BY Zenon DEF NextRegistration, Goto, ghosts, files, TypeOK, RegistryInv, Settled
<1>2. ASSUME NEW job \in Seeds \cup {"none"}, NEW S \in SUBSET Seeds, NEW to \in {"work", "ready"},
             \/ call' = [NoCall EXCEPT !.job = job, !.ret = to, !.seeds = S]
             \/ call' = [NoCall EXCEPT !.ret = to] /\ job = "none"
      PROVE  StorageInv'
  <2>1. /\ job \in Operations \cup Commits \cup {"none", "tick"}
        /\ job \notin Online \cup Commits \cup {"tick"}
    BY StorageAssumption, Zenon DEF Seeds, Online
  <2>2. call' \in Call
    <3>1. /\ [NoCall EXCEPT !.job = job, !.ret = to, !.seeds = S] \in Call
      BY <2>1, EmptyOK, Zenon DEF Call
    <3>2. [NoCall EXCEPT !.ret = to] \in Call
      BY EmptyOK, CallOK, Zenon
    <3> QED  BY <1>2, <3>1, <3>2, Zenon
  <2>3. call'.job = job /\ call'.ret = to /\ call'.back = "reset" /\ ~call'.ok
    BY <1>2, Zenon DEF NoCall
  <2>4. RuntimeInv'
    BY <1>1, <2>1, <2>3, Zenon DEF RuntimeInv
  <2> QED  BY <1>1, <2>1, <2>2, <2>3, <2>4, MoveKeeps, Zenon
<1>3. call.seeds \subseteq Seeds
  BY CallFields, Zenon DEF TypeOK
<1> QED  BY <1>2, <1>3, Zenon DEF NextRegistration, Goto

(* What a call writes is newer than what it found.                         *)
LEMMA AppliedIsNewer ==
    ASSUME mem \in Content, NEW o \in Operations, Accepts(o),
           o \in Online \/ ~Obsolete(o)
    PROVE  /\ Applied(o) \in [Definitions -> Definition]
           /\ \A d \in Definitions : Newer(mem.definitions[d], Applied(o)[d], o)
<1>1. /\ Payload[o] \in PayloadType /\ mem.definitions \in [Definitions -> Definition]
  BY StorageAssumption, ContentFields, Zenon
<1>2. ASSUME NEW d \in Definition
      PROVE  /\ d.policy \in Nat /\ d.text \in Nat /\ Newer(d, d, o)
             /\ [d EXCEPT !.active = FALSE] \in Definition
             /\ Newer(d, [d EXCEPT !.active = FALSE], o)
  <2>1. d.policy \in Nat /\ d.text \in Nat
    BY Zenon DEF Definition
  <2>2. /\ [d EXCEPT !.active = FALSE].policy = d.policy
        /\ [d EXCEPT !.active = FALSE].text = d.text
        /\ ~[d EXCEPT !.active = FALSE].active
    BY SMT DEF Definition
  <2>3. [d EXCEPT !.active = FALSE] \in Definition
    BY Zenon DEF Definition
  <2> QED  BY <2>1, <2>2, <2>3 DEF Newer
<1>3. CASE Payload[o].kind = "unregister"
  <2>1. Applied(o) = [d \in Definitions |-> [mem.definitions[d] EXCEPT !.active = FALSE]]
    BY <1>3, Zenon DEF Applied
  <2> QED  BY <1>1, <1>2, <2>1, Zenon
<1>4. CASE Payload[o].kind # "unregister"
  <2> DEFINE p == Payload[o]
             old == mem.definitions[p.definition]
             new == [active |-> TRUE, policy |-> p.policy, text |-> p.text,
                     generation |-> p.generation]
  <2>1. /\ p.definition \in Definitions /\ p.policy \in Nat /\ p.text \in Nat
        /\ p.generation \in Nat
    BY <1>1, Zenon DEF PayloadType
  <2>2. Applied(o) = [mem.definitions EXCEPT ![p.definition] = new]
    BY <1>4, Zenon DEF Applied
  <2>3. new \in Definition
    BY <2>1, Zenon DEF Definition
  <2>4. p.policy >= old.policy /\ p.text >= old.text
    BY <1>4, Zenon DEF Accepts
  <2>5. ~old.active /\ old.policy # 0 => o \in Online \/ p.generation # old.generation
    BY Zenon DEF Obsolete, SameInstallation
  <2>6. Newer(old, new, o)
    BY <2>4, <2>5, Zenon DEF Newer
  <2>7. \A d \in Definitions : Newer(mem.definitions[d], mem.definitions[d], o)
    BY <1>1, <1>2, Zenon
  <2> HIDE DEF p, new
  <2> QED  BY <1>1, <2>1, <2>2, <2>3, <2>6, <2>7 , Zenon
<1> QED  BY <1>3, <1>4, Zenon

LEMMA WriteKeeps ==
    ASSUME StorageInv, pc = "work", call.job \in Operations, mem.ops[call.job] = "NONE",
           NEW outcome \in {"DONE", "OBSOLETE"}, NEW definitions \in [Definitions -> Definition],
           \A d \in Definitions : Newer(mem.definitions[d], definitions[d], call.job),
           Write(call.job, outcome, definitions),
           UNCHANGED <<files, ready, mem, current, fenced, corrupt, handle, ghosts>>
    PROVE  StorageInv'
<1> SUFFICES ASSUME TypeOK, DownInv, RegistryInv, ReplyInv, RuntimeInv, NamesInv, LossInv
             PROVE  StorageInv'
  BY Zenon DEF StorageInv
<1> DEFINE draft == [mem EXCEPT !.ops[call.job] = outcome, !.definitions = definitions]
<1>1. /\ pc' = "rename" /\ call' = [call EXCEPT !.after = "replay", !.back = "reply", !.draft = draft]
      /\ UNCHANGED <<seen, safe, disk, receipt, spool, installed, ready, mem, current, fenced,
                     corrupt, handle, acked, budget>>
  BY Zenon DEF Write, Goto, files, ghosts
<1>2. call \in Call /\ mem \in Content /\ mem.ops \in [Operations -> Outcome]
  BY ContentFields, Zenon DEF TypeOK
<1>3. draft \in Content
  BY <1>2, ContentFields, Zenon DEF Outcome
<1>4. /\ draft.present = mem.present /\ SameFile(draft, mem)
      /\ draft.ops = [mem.ops EXCEPT ![call.job] = outcome] /\ draft.definitions = definitions
  BY <1>2, <1>3, SMT DEF Content, SameFile
<1> HIDE DEF draft
<1>5. /\ call' \in Call
      /\ call'.job = call.job /\ call'.ret = call.ret /\ call'.back = "reply"
      /\ call'.after = "replay" /\ call'.draft = draft /\ call'.ok = call.ok
      /\ call'.renewed = call.renewed
  <2>1. call' \in Call
    BY <1>1, <1>2, <1>3, CallOK, Zenon
  <2> QED  BY <1>1, <1>2, <2>1, SMT DEF Call
<1>6. /\ mem.present /\ Same(mem, seen) /\ current /\ seen.present
      /\ mem.inode # 0 /\ call.ret # "next"
  BY Zenon DEF DownInv, NamesInv, RuntimeInv, Attached, Settled
<1>7. Adds(seen, draft, call.job)
  BY <1>2, <1>4, <1>6, Zenon DEF Adds, Same
<1>8. call.job \in Done(draft.ops)
  BY <1>2, <1>4, Zenon DEF Done
<1>9. TypeOK'
  BY <1>1, <1>5, Zenon DEF TypeOK, Labels
<1>10. DownInv'
  BY <1>1, <1>6, Zenon DEF DownInv, Attached, Settled
<1>11. RegistryInv'
  BY <1>1, <1>4, <1>5, <1>6, <1>7, Zenon DEF RegistryInv, Settled
<1>12. ReplyInv'
  BY <1>1, <1>5, <1>8, Zenon DEF ReplyInv, Writing
<1>13. RuntimeInv'
  BY <1>1, <1>5, <1>6 DEF RuntimeInv
<1>14. NamesInv'
  BY <1>1, <1>4, <1>5, <1>6 DEF NamesInv, Named, Used, Settled, Writing, SameFile
<1>15. LossInv'
  <2>1. /\ (Lost' <=> Lost) /\ (Names(seen)' <=> Names(seen))
        /\ (Names(safe)' <=> Names(safe)) /\ (Names(mem)' <=> Names(mem))
    BY <1>1, Zenon DEF Lost, Names, SameFile
  <2> QED  BY <1>1, <1>5, <2>1, Zenon DEF LossInv, Attached, Settled, Writing
<1>16. OpenInv'
  BY <1>1, Zenon DEF OpenInv
<1> QED  BY <1>9, <1>10, <1>11, <1>12, <1>13, <1>14, <1>15, <1>16, Zenon DEF StorageInv

LEMMA RegisterKeeps == ASSUME StorageInv, Register PROVE StorageInv'
<1>1. /\ pc = "work" /\ call.job \in Online /\ call.job \in Operations /\ mem \in Content
      /\ UNCHANGED <<files, ready, mem, current, fenced, corrupt, handle, ghosts>>
  BY Zenon DEF Register, Online, StorageInv, TypeOK
<1>2. ASSUME Accepts(call.job), mem.ops[call.job] = "NONE",
             Write(call.job, "DONE", Applied(call.job))
      PROVE  StorageInv'
  BY <1>1, <1>2, AppliedIsNewer, WriteKeeps, Zenon
<1> QED  BY <1>1, <1>2, AnswerKeeps, Zenon DEF Register, Goto

LEMMA ImportKeeps == ASSUME StorageInv, ImportOfflineRegistration PROVE StorageInv'
<1>1. /\ pc = "work" /\ call.job \in Seeds /\ call.job \in Operations /\ mem \in Content
      /\ call \in Call /\ UNCHANGED <<files, ghosts>>
      /\ UNCHANGED <<seen, safe, disk, receipt, spool, installed, acked, budget>>
  BY Zenon DEF ImportOfflineRegistration, Seeds, StorageInv, TypeOK, files, ghosts
<1>2. ASSUME pc' = "next", call' = call, UNCHANGED <<ready, mem, current, fenced, corrupt, handle>>
      PROVE  StorageInv'
  <2> SUFFICES ASSUME TypeOK, RegistryInv, ReplyInv, RuntimeInv, LossInv
               PROVE  StorageInv'
    BY Zenon DEF StorageInv
  <2>1. /\ pc \in Settled /\ ready \in BOOLEAN
        /\ acked \subseteq Operations \cup Commits /\ acked \cap Operations \subseteq Done(safe.ops)
    BY <1>1, Zenon DEF TypeOK, RegistryInv, Settled
  <2>2. RuntimeInv'
    BY <1>1, <1>2, Zenon DEF RuntimeInv
  <2>3. /\ call.job \notin Commits /\ (call.ok => call.job # "none")
        /\ call.ret = "reply" \/ (call.ret = "publish" /\ call.ok) => call.job \in Done(safe.ops)
    BY <1>1, StorageAssumption, Zenon DEF ReplyInv
  <2> QED  BY <1>1, <1>2, <2>1, <2>2, <2>3, MoveKeeps, Zenon
<1>3. ASSUME Exited PROVE StorageInv'
  <2>1. Spent /\ disk' \in Database /\ SameRows(disk, disk')
    BY <1>1, Zenon DEF Spent, SameRows, StorageInv, TypeOK
  <2> QED  BY <1>1, <1>3, <2>1, ExitKeeps, Zenon
<1>4. ASSUME Accepts(call.job), ~Obsolete(call.job), mem.ops[call.job] = "NONE",
             Write(call.job, "DONE", Applied(call.job)),
             UNCHANGED <<ready, mem, current, fenced, corrupt, handle>>
      PROVE  StorageInv'
  BY <1>1, <1>4, AppliedIsNewer, WriteKeeps, Zenon
<1>5. ASSUME mem.ops[call.job] = "NONE", Write(call.job, "OBSOLETE", mem.definitions),
             UNCHANGED <<ready, mem, current, fenced, corrupt, handle>>
      PROVE  StorageInv'
  <2>1. mem.definitions \in [Definitions -> Definition]
    BY <1>1, ContentFields, Zenon
  <2>2. \A d \in Definitions : Newer(mem.definitions[d], mem.definitions[d], call.job)
    BY <2>1 DEF Newer, Definition
  <2> QED  BY <1>1, <1>5, <2>1, <2>2, WriteKeeps, Zenon
<1>6. ASSUME mem.ops[call.job] # "NONE", pc' = "ensure", call' = [call EXCEPT !.ret = "reply"],
             UNCHANGED <<ready, mem, current, fenced, corrupt, handle>>
      PROVE  StorageInv'
  BY <1>1, <1>6, AnswerKeeps, Zenon
<1> QED  BY <1>2, <1>3, <1>4, <1>5, <1>6, Zenon DEF ImportOfflineRegistration, Goto

(* Decisions, the tick and the end of the process.                         *)
LEMMA DecideKeeps == ASSUME StorageInv, Decide PROVE StorageInv'
<1> SUFFICES ASSUME TypeOK, DownInv, RegistryInv, ReplyInv, RuntimeInv, NamesInv, LossInv
             PROVE  StorageInv'
  BY Zenon DEF StorageInv
<1>0. /\ pc = "work" /\ call.job \in Commits /\ call \in Call /\ disk \in Database
      /\ UNCHANGED <<seen, safe, receipt, spool, installed, acked>>
      /\ corrupt \in BOOLEAN /\ pc \in Attached /\ pc \in Settled
  BY Zenon DEF Decide, TypeOK, Attached, Settled
<1>1. ASSUME NEW damaged \in BOOLEAN, Throw(handle, damaged), UNCHANGED disk,
             Trouble \/ UNCHANGED budget
      PROVE  StorageInv'
  BY <1>0, <1>1, FailKeeps, Zenon
<1>2. ASSUME disk' = IF handle = "LIVE"
                     THEN [disk EXCEPT !.kept = @ \cup {call.job}, !.runtime = @ \cup {call.job}]
                     ELSE disk,
             pc' = "ensure", call' = [call EXCEPT !.ret = "reply"],
             UNCHANGED <<ready, mem, current, fenced, corrupt, handle, budget>>
      PROVE  StorageInv'
  <2>1. /\ call' \in Call /\ call'.ret = "reply" /\ call'.job = call.job /\ call'.back = call.back
        /\ call'.ok = call.ok
    <3>1. call' \in Call
      BY <1>0, <1>2, CallOK, Zenon
    <3> QED  BY <1>0, <1>2, <3>1, SMT DEF Call
  <2>2. /\ disk' \in Database /\ SameFile(disk', disk) /\ disk'.present = disk.present
        /\ disk'.ops = disk.ops /\ disk'.unknown = disk.unknown
        /\ disk.kept \subseteq disk'.kept /\ (handle = "LIVE" => call.job \in disk'.kept)
    <3>1. CASE handle # "LIVE"
      BY <1>0, <1>2, <3>1 DEF SameFile
    <3>2. CASE handle = "LIVE"
      <4>1. disk.kept \cup {call.job} \in SUBSET Commits /\ disk.runtime \cup {call.job} \in SUBSET Commits
        BY <1>0, DatabaseFields
      <4>2. disk' = [disk EXCEPT !.kept = disk.kept \cup {call.job},
                                 !.runtime = disk.runtime \cup {call.job}]
        BY <1>2, <3>2
      <4>3. disk' \in Database
        BY <1>0, <4>1, <4>2, DiskOK, Zenon
      <4> QED  BY <1>0, <4>2, <4>3, SMT DEF Database, SameFile
    <3> QED  BY <3>1, <3>2
  <2>3. ready /\ call.back \notin {"reply", "publish"} /\ call.job \notin Operations
    BY <1>0, StorageAssumption, Zenon DEF RuntimeInv, ReplyInv, Writing
  <2>4. TypeOK'
    BY <1>0, <1>2, <2>1, <2>2, Zenon DEF TypeOK, Labels
  <2>5. DownInv'
    BY <1>0, <1>2, <2>3, Zenon DEF DownInv, Attached, Settled
  <2>6. RegistryInv'
    BY <1>0, <1>2, <2>2, Zenon DEF RegistryInv, Settled
  <2>7. ReplyInv'
    BY <1>0, <2>1, <2>3, StorageAssumption, Zenon DEF ReplyInv
  <2>8. RuntimeInv'
    BY <1>2, <2>1, <2>3, Zenon DEF RuntimeInv
  <2>9. NamesInv'
    BY <1>0, <1>2, <2>2, Zenon DEF NamesInv, Named, Used, Settled, Writing, SameFile
  <2>10. LossInv'
    <3>1. /\ (Lost' => Lost) /\ (Names(seen)' <=> Names(seen))
          /\ (Names(safe)' <=> Names(safe)) /\ (Names(mem)' <=> Names(mem))
      BY <1>0, <1>2, <2>2, Zenon DEF Lost, Names, SameFile
    <3> QED  BY <1>0, <1>2, <2>1, <2>2, <3>1 DEF LossInv, Attached, Settled, Writing
  <2>11. OpenInv'
    BY <1>2, Zenon DEF OpenInv
  <2> QED  BY <2>4, <2>5, <2>6, <2>7, <2>8, <2>9, <2>10, <2>11, Zenon DEF StorageInv
<1> QED  BY <1>0, <1>1, <1>2, Zenon DEF Decide, Goto

LEMMA TickKeeps == ASSUME StorageInv, Tick PROVE StorageInv'
<1> SUFFICES ASSUME TypeOK, DownInv, RegistryInv, ReplyInv, RuntimeInv, NamesInv, LossInv
             PROVE  StorageInv'
  BY Zenon DEF StorageInv
<1>0. /\ pc = "work" /\ call.job = "tick" /\ call \in Call /\ pc \in Attached
      /\ UNCHANGED <<seen, safe, disk, receipt, spool, installed, acked, budget>>
  BY Zenon DEF Tick, TypeOK, Attached, Settled, files, ghosts
<1>1. CASE Throw(handle, TRUE)
  BY <1>0, <1>1, FailKeeps, Zenon
<1>2. ASSUME pc' = "replay", call' = [call EXCEPT !.back = "publish"],
             UNCHANGED <<ready, mem, current, fenced, corrupt, handle>>
      PROVE  StorageInv'
  <2>1. /\ call' \in Call /\ call'.job = call.job /\ call'.ret = call.ret /\ call'.back = "publish"
        /\ call'.ok = call.ok /\ call'.renewed = call.renewed
    <3>1. call' \in Call
      BY <1>0, <1>2, CallOK, Zenon
    <3> QED  BY <1>0, <1>2, <3>1, SMT DEF Call
  <2>2. /\ call.ret # "next" /\ current /\ seen.inode # 0
    BY <1>0, Zenon DEF RuntimeInv, DownInv, NamesInv, Attached, Settled
  <2>3. TypeOK'
    BY <1>0, <1>2, <2>1, Zenon DEF TypeOK, Labels
  <2>4. DownInv'
    BY <1>0, <1>2, Zenon DEF DownInv, Attached, Settled
  <2>5. RegistryInv'
    BY <1>0, <1>2, Zenon DEF RegistryInv, Settled
  <2>6. ReplyInv'
    BY <1>0, <1>2, <2>1, StorageAssumption, Zenon DEF ReplyInv
  <2>7. RuntimeInv'
    BY <1>0, <1>2, <2>1, <2>2, Zenon DEF RuntimeInv
  <2>8. NamesInv'
    BY <1>0, <1>2, <2>2, Zenon DEF NamesInv, Named, Used, Settled, Writing, SameFile
  <2>9. LossInv'
    <3>1. /\ (Lost' <=> Lost) /\ (Names(seen)' <=> Names(seen))
          /\ (Names(safe)' <=> Names(safe)) /\ (Names(mem)' <=> Names(mem))
      BY <1>0, <1>2, Zenon DEF Lost, Names, SameFile
    <3> QED  BY <1>0, <1>2, <2>1, <3>1 DEF LossInv, Attached, Settled, Writing
  <2>10. OpenInv'
    BY <1>2, Zenon DEF OpenInv
  <2> QED  BY <2>3, <2>4, <2>5, <2>6, <2>7, <2>8, <2>9, <2>10, Zenon DEF StorageInv
<1> QED  BY <1>0, <1>1, <1>2, Zenon DEF Tick, Goto

LEMMA EndKeeps ==
    ASSUME StorageInv, Stop \/ Crash \/ PowerFailure
    PROVE  StorageInv'
<1>1. /\ Exited /\ UNCHANGED <<acked, receipt, spool, installed>> /\ disk \in Database
      /\ \/ seen' = seen /\ safe' \in {safe, seen}
         \/ seen' = safe /\ safe' = safe
      /\ Trouble \/ UNCHANGED budget
      /\ disk' \in {disk, [disk EXCEPT !.runtime = {}]}
  BY Zenon DEF Stop, Crash, PowerFailure, files, ghosts, StorageInv, TypeOK
<1>2. disk' \in Database
  BY <1>1, DiskOK, Zenon
<1>3. SameRows(disk, disk')
  BY <1>1, <1>2, SMT DEF SameRows, Database
<1>4. Spent
  BY <1>1, TypeParts, TroubleOK, Zenon DEF StorageInv, Spent, GhostsOK
<1> QED  BY <1>1, <1>2, <1>3, <1>4, ExitKeeps, Zenon

-----------------------------------------------------------------------------
(* The environment.  Receipts, records and installations are in no part of *)
(* the invariant but the types.                                            *)
LEMMA OutsideKeeps ==
    ASSUME StorageInv, TypeOK', UNCHANGED <<seen, safe, disk, daemon, ghosts>>
    PROVE  StorageInv'
<1> SUFFICES ASSUME DownInv, RegistryInv, ReplyInv, RuntimeInv, NamesInv, LossInv, OpenInv
             PROVE  StorageInv'
  BY Zenon DEF StorageInv
<1>1. UNCHANGED <<seen, safe, disk, ready, pc, call, mem, current, fenced, corrupt, handle,
                  acked, budget>>
  BY Zenon DEF daemon, ghosts
<1>2. DownInv' /\ RegistryInv'
  BY <1>1, Zenon DEF DownInv, RegistryInv
<1>3. ReplyInv' /\ RuntimeInv'
  BY <1>1, Zenon DEF ReplyInv, RuntimeInv
<1>4. NamesInv'
  BY <1>1 DEF NamesInv, Named, Used, SameFile, Settled, Writing
<1>5. LossInv' /\ OpenInv'
  BY <1>1, Zenon DEF LossInv, OpenInv, Lost, Names
<1> QED  BY <1>2, <1>3, <1>4, <1>5, Zenon DEF StorageInv

LEMMA EnvironmentKeeps ==
    ASSUME StorageInv, CompleteBootstrap \/ Reinstall \/ \E o \in Seeds : AddRegistration(o)
    PROVE  StorageInv'
<1> SUFFICES ASSUME TypeOK
             PROVE  StorageInv'
  BY Zenon DEF StorageInv
<1>1. UNCHANGED <<seen, safe, disk, daemon, ghosts>>
  BY Zenon DEF CompleteBootstrap, Reinstall, AddRegistration
<1>2. /\ receipt' \in {"FIRST", "CLAIMED", "INITIALIZED"} /\ spool' \subseteq Seeds
      /\ installed' \in Nat
  BY DEF CompleteBootstrap, Reinstall, AddRegistration, TypeOK
<1>3. TypeOK'
  BY <1>1, <1>2, Zenon DEF TypeOK, daemon, ghosts
<1> QED  BY <1>1, <1>3, OutsideKeeps, Zenon

(* A harmed file is either unknown to every registry or has all its rows.  *)
LEMMA HarmKeeps == ASSUME StorageInv, HarmDatabase PROVE StorageInv'
<1> SUFFICES ASSUME TypeOK, DownInv, RegistryInv, ReplyInv, RuntimeInv, NamesInv, LossInv
             PROVE  StorageInv'
  BY Zenon DEF StorageInv
<1>1. /\ pc \in {"down", "idle", "ensured", "work"} /\ disk.present /\ disk \in Database
      /\ UNCHANGED <<seen, safe, receipt, spool, installed, ready, pc, call, mem, current,
                     fenced, corrupt, acked>>
      /\ Trouble /\ handle \in {"NONE", "LIVE", "STRAY"}
  BY Zenon DEF HarmDatabase, TypeOK
<1>2. Spent
  BY <1>1, TypeParts, TroubleOK, Zenon DEF Spent
<1> DEFINE Harmed ==
      /\ disk' \in Database /\ Done(disk'.ops) \subseteq Done(disk.ops)
      /\ disk'.incarnation \in {0, disk.incarnation} /\ (disk'.present => disk'.inode # 0)
      /\ disk'.runtime \subseteq disk.runtime
      /\ \/ /\ handle' = (IF handle = "LIVE" THEN "STRAY" ELSE handle)
            /\ ~Names(seen)' /\ ~Names(safe)' /\ ~Names(mem)'
         \/ handle' = handle /\ SameRows(disk, disk')
<1>3. Harmed
  <2>1. CASE disk' = NoDatabase /\ handle' = IF handle = "LIVE" THEN "STRAY" ELSE handle
    <3>1. disk' \in Database /\ ~disk'.present
      BY <2>1, EmptyOK, NoDatabaseIsEmpty, Zenon
    <3>2. ~Names(seen)' /\ ~Names(safe)' /\ ~Names(mem)'
      BY <3>1 DEF Names
    <3> QED  BY <2>1, <3>1, <3>2, NoDatabaseIsEmpty
  <2>2. ASSUME NEW i \in Inodes, i \notin {disk.inode, seen.inode, safe.inode, mem.inode},
               disk' = [disk EXCEPT !.inode = i, !.kept = {}, !.runtime = {}],
               handle' = IF handle = "LIVE" THEN "STRAY" ELSE handle
        PROVE  Harmed
    <3>1. i \in Nat /\ i # 0
      BY StorageAssumption
    <3>2. disk' \in Database
      BY <1>1, <2>2, <3>1, DiskOK, Zenon
    <3>3. /\ disk'.inode = i /\ disk'.ops = disk.ops /\ disk'.incarnation = disk.incarnation
          /\ disk'.runtime = {}
      BY <1>1, <2>2, <3>2, SMT DEF Database
    <3>4. ~Names(seen)' /\ ~Names(safe)' /\ ~Names(mem)'
      BY <1>1, <2>2, <3>3 DEF Names, SameFile
    <3> QED  BY <2>2, <3>1, <3>2, <3>3, <3>4
  <2>3. CASE disk' = [disk EXCEPT !.good = FALSE] /\ UNCHANGED handle
    <3>1. disk' \in Database
      BY <1>1, <2>3, DiskOK, Zenon
    <3>2. SameRows(disk, disk') /\ disk'.runtime = disk.runtime
      BY <1>1, <2>3, <3>1, Zenon DEF Database, SameRows
    <3> QED  BY <1>1, <2>3, <3>1, <3>2, Zenon DEF NamesInv, SameRows
  <2> HIDE DEF Harmed
  <2> QED  BY <2>1, <2>2, <2>3, Zenon DEF HarmDatabase
<1>4. handle' \in {"NONE", "LIVE", "STRAY"} /\ (handle' = "NONE" <=> handle = "NONE")
  BY <1>1, <1>3, Zenon
<1>5. TypeOK'
  BY <1>1, <1>2, <1>3, <1>4, Zenon DEF TypeOK, Spent
<1>6. DownInv'
  BY <1>1, <1>4, Zenon DEF DownInv, Attached, Settled, Same
<1>7. RegistryInv'
  BY <1>1, <1>3, Zenon DEF RegistryInv, SameRows, Settled
<1>8. ReplyInv'
  BY <1>1, Zenon DEF ReplyInv
<1>9. RuntimeInv'
  BY <1>1, <1>3, Zenon DEF RuntimeInv
<1>10. NamesInv'
  BY <1>1, <1>2, <1>3, ZenonT(60) DEF NamesInv, Named, Used, Settled, Writing, SameFile, Spent
<1>11. LossInv'
  <2>1. CASE ~Names(seen)' /\ ~Names(safe)' /\ ~Names(mem)' /\ handle' # "LIVE"
    BY <1>1, <1>4, <2>1, Zenon DEF LossInv, Attached, Settled, Writing
  <2>2. CASE handle' = handle /\ SameRows(disk, disk')
    <3>1. /\ (Lost' <=> Lost) /\ (Names(seen)' <=> Names(seen))
          /\ (Names(safe)' <=> Names(safe)) /\ (Names(mem)' <=> Names(mem))
      BY <1>1, <2>2, Zenon DEF Lost, Names, SameFile, SameRows
    <3> QED  BY <1>1, <2>2, <3>1 DEF LossInv, Attached, Settled, Writing, SameRows
  <2> QED  BY <1>1, <1>3, <2>1, <2>2, Zenon
<1>12. OpenInv'
  BY <1>1, Zenon DEF OpenInv
<1> QED  BY <1>5, <1>6, <1>7, <1>8, <1>9, <1>10, <1>11, <1>12, Zenon DEF StorageInv

LEMMA InitKeeps == ASSUME Init PROVE StorageInv
<1>1. /\ NoCall.job = "none" /\ NoCall.ret = "next" /\ NoCall.back = "reset" /\ ~NoCall.ok
      /\ NoRegistry.inode = 0 /\ NoRegistry.incarnation = 0 /\ ~NoRegistry.present
      /\ Done(NoRegistry.ops) = {}
  BY Zenon DEF NoCall, NoRegistry, Done, NoOps
<1>2. TypeOK
  <2>1. FilesOK
    BY EmptyOK, Zenon DEF Init, FilesOK
  <2>2. DaemonOK
    BY EmptyOK, Zenon DEF Init, DaemonOK, Labels, Handles
  <2>3. GhostsOK
    BY StorageAssumption, Zenon DEF Init, GhostsOK
  <2> QED  BY <2>1, <2>2, <2>3, TypeParts, Zenon
<1>3. DownInv /\ RegistryInv
  BY <1>1, NoDatabaseIsEmpty, Zenon DEF Init, DownInv, RegistryInv, Attached, Settled, Same
<1>4. ReplyInv /\ RuntimeInv
  BY <1>1, StorageAssumption, Zenon DEF Init, ReplyInv, RuntimeInv, Online
<1>5. NamesInv
  BY <1>1, NoDatabaseIsEmpty, Zenon DEF Init, NamesInv, Named, Used, Settled, Writing
<1>6. LossInv
  BY <1>1, NoDatabaseIsEmpty, Zenon DEF Init, LossInv, Lost, Attached, Settled, Writing
<1>7. OpenInv
  BY Zenon DEF Init, OpenInv
<1> QED  BY <1>2, <1>3, <1>4, <1>5, <1>6, <1>7, Zenon DEF StorageInv

(* Every step of the executor and of its surroundings keeps the invariant. *)
LEMMA StorageStep == ASSUME StorageInv, [Next]_vars PROVE StorageInv'
<1>1. ASSUME Executor PROVE StorageInv'
  <2>1. ASSUME NEW job \in Online \cup Commits \cup {"tick"}, Begin(job) PROVE StorageInv'
    BY <2>1, BeginKeeps, Zenon
  <2>2. CASE Stop
    BY <2>2, EndKeeps, Zenon
  <2> QED  BY <1>1, <2>1, <2>2, StartKeeps, RenameKeeps, SyncKeeps, RetireKeeps, OpenKeeps,
              AttachKeeps, FlagKeeps, ReplayKeeps, ResetKeeps, EnsureReadKeeps, EnsureKeeps,
              EnsuredKeeps, RegisterKeeps, NextRegistrationKeeps, ImportKeeps, DecideKeeps,
              TickKeeps, Zenon
           DEF Executor
<1>2. CASE UNCHANGED vars
  <2>1. TypeOK'
    BY <1>2, Zenon DEF StorageInv, TypeOK, vars, files, daemon, ghosts
  <2> QED  BY <1>2, <2>1, OutsideKeeps, Zenon DEF vars, files
<1> QED  BY <1>1, <1>2, EndKeeps, EnvironmentKeeps, HarmKeeps, Zenon DEF Next

(* The files, the daemon's memory and what has been answered stay in step  *)
(* at every point where power may fail, a file be harmed or the process    *)
(* end (OpenDatabase, Replay, Ensure, Register, Import and Execute).       *)
THEOREM StorageInvariance == Spec => []StorageInv
<1>1. Init => StorageInv
  BY InitKeeps, Zenon
<1>2. StorageInv /\ [Next]_vars => StorageInv'
  BY StorageStep, Zenon
<1> QED  BY <1>1, <1>2, PTL DEF Spec

-----------------------------------------------------------------------------
(* A handler decides from what a power failure would leave (Execute and    *)
(* Import after Ensure): no fence, memory and projection equal to a        *)
(* registry that is on stable storage.                                     *)
THEOREM DecidesFromDurableStateHolds == Spec => []DecidesFromDurableState
<1>1. StorageInv => DecidesFromDurableState
  BY Zenon DEF StorageInv, DecidesFromDurableState, DownInv, RegistryInv, Attached, Settled, Same
<1> QED  BY <1>1, StorageInvariance, PTL

(* A handler never runs on a database that silently lacks an answered      *)
(* decision: OpenDatabase marks a recovered file before the registry names *)
(* it, and the identities in the registry tell every other file apart.     *)
THEOREM LossIsFlaggedHolds == Spec => []LossIsFlagged
<1>1. StorageInv => LossIsFlagged
  BY Zenon DEF StorageInv, LossIsFlagged, LossInv, Lost, Attached, Settled
<1> QED  BY <1>1, StorageInvariance, PTL

(* Start-up has deleted the sessions, requests and period-bound grants of  *)
(* every earlier process before it imports a record (ResetRuntime).        *)
THEOREM RuntimeEndsWithProcessHolds == Spec => []RuntimeEndsWithProcess
<1>1. StorageInv => RuntimeEndsWithProcess
  BY Zenon DEF StorageInv, RuntimeEndsWithProcess, RuntimeInv
<1> QED  BY <1>1, StorageInvariance, PTL

-----------------------------------------------------------------------------
(* What one step does to the registry that is seen, to the answers and to  *)
(* the projection.                                                         *)
Quiet == UNCHANGED <<seen, acked>> /\ Done(disk'.ops) = Done(disk.ops)
Renames ==
    /\ pc = "rename" /\ seen' = call.draft /\ UNCHANGED <<acked, disk>>
Answers ==
    /\ UNCHANGED <<seen, disk>>
    /\ acked' \in {acked, acked \cup {call.job}}
    /\ call.job \in Operations /\ acked' # acked => call.job \in Done(seen.ops)
Projects ==
    /\ UNCHANGED <<seen, acked>> /\ Done(disk'.ops) = Done(seen.ops)
Discards ==
    /\ UNCHANGED <<seen, acked>> /\ Done(disk'.ops) = {}
Reverts ==
    /\ seen' = safe /\ UNCHANGED <<acked, disk>>

LEMMA StepKinds ==
    ASSUME StorageInv, [Next]_vars
    PROVE  Quiet \/ Renames \/ Answers \/ Projects \/ Discards \/ Reverts
<1> SUFFICES ASSUME TypeOK, DownInv, RegistryInv, ReplyInv
             PROVE  Quiet \/ Renames \/ Answers \/ Projects \/ Discards \/ Reverts
  BY Zenon DEF StorageInv
<1>0. disk \in Database /\ call \in Call
  BY Zenon DEF TypeOK
<1>1. ASSUME UNCHANGED <<seen, disk, acked>> PROVE Quiet
  BY <1>1, Zenon DEF Quiet
<1>2. ASSUME UNCHANGED <<seen, acked>>, disk' \in {disk, NoDatabase} PROVE Quiet \/ Discards
  BY <1>2, NoDatabaseIsEmpty, Zenon DEF Quiet, Discards
<1>3. CASE Start \/ WriteRegistrySync \/ EnsureRead \/ Ensure \/ Register
  BY <1>1, <1>3, Zenon DEF Start, WriteRegistrySync, EnsureRead, Ensure, Register, files, ghosts
<1>4. CASE NextRegistration \/ ImportOfflineRegistration \/ Tick \/ Crash \/ CompleteBootstrap \/ Reinstall
  BY <1>1, <1>4, Zenon
  DEF NextRegistration, ImportOfflineRegistration, Tick, Crash, CompleteBootstrap, Reinstall,
      files, ghosts
<1>5. CASE (\E job \in Online \cup Commits \cup {"tick"} : Begin(job)) \/ (\E o \in Seeds : AddRegistration(o))
  BY <1>1, <1>5, Zenon DEF Begin, AddRegistration, files, ghosts
<1>6. CASE UNCHANGED vars
  BY <1>1, <1>6, Zenon DEF vars, files, ghosts
<1>7. CASE WriteRegistryRename
  BY <1>1, <1>7, Zenon DEF WriteRegistryRename, Renames
<1>8. CASE RetireDatabase
  BY <1>2, <1>8, Zenon DEF RetireDatabase
<1>9. CASE OpenDatabase
  BY <1>1, <1>9, NewDatabaseIsEmpty, Zenon DEF OpenDatabase, Discards
<1>10. ASSUME UNCHANGED <<seen, acked>>, disk'.ops = disk.ops PROVE Quiet
  BY <1>10, Zenon DEF Quiet
<1>11. CASE AttachDatabase
  <2>1. [disk EXCEPT !.incarnation = budget.ids].ops = disk.ops
    BY <1>0, SMT DEF Database
  <2> QED  BY <1>10, <1>11, <2>1, Zenon DEF AttachDatabase
<1>12. CASE FlagDatabase
  <2>1. [disk EXCEPT !.unknown = @ \/ call.recovering].ops = disk.ops
    BY <1>0, Zenon DEF Database
  <2> QED  BY <1>10, <1>12, <2>1, Zenon DEF FlagDatabase
<1>13. [disk EXCEPT !.runtime = {}].ops = disk.ops
  BY <1>0, SMT DEF Database
<1>14. CASE ResetRuntime \/ Stop
  BY <1>10, <1>13, <1>14, Zenon DEF ResetRuntime, Stop, ghosts
<1>15. CASE Decide
  <2>1. [disk EXCEPT !.kept = @ \cup {call.job}, !.runtime = @ \cup {call.job}].ops = disk.ops
    BY <1>0, SMT DEF Database
  <2> QED  BY <1>10, <1>15, <2>1, Zenon DEF Decide
<1>16. CASE HarmDatabase
  <2>1. ASSUME NEW i PROVE [disk EXCEPT !.inode = i, !.kept = {}, !.runtime = {}].ops = disk.ops
    BY <1>0, SMT DEF Database
  <2>2. [disk EXCEPT !.good = FALSE].ops = disk.ops
    BY <1>0, Zenon DEF Database
  <2> QED  BY <1>2, <1>10, <1>16, <2>1, <2>2, Zenon DEF HarmDatabase
<1>17. CASE Replay
  <2>1. Project.ops = mem.ops
    BY <1>0, SMT DEF Project, Database
  <2>2. mem.ops = seen.ops
    BY <1>17, Zenon DEF Replay, DownInv, Attached, Same
  <2>3. Project.ops = mem.ops => Done(Project.ops) = Done(seen.ops)
    BY <2>2, Zenon
  <2> QED  BY <1>1, <1>17, <2>1, <2>3, Zenon DEF Replay, Projects
<1>18. CASE Ensured
  <2>1. UNCHANGED <<seen, disk>> /\ pc = "ensured"
    BY <1>18, Zenon DEF Ensured, files
  <2>2. \/ acked' = acked
        \/ /\ call.ret = "publish" /\ call.ok /\ acked' = acked \cup ({call.job} \ {"tick"})
    BY <1>18, Zenon DEF Ensured
  <2>3. call.ret = "publish" /\ call.ok /\ call.job \in Operations => call.job \in Done(seen.ops)
    BY Zenon DEF ReplyInv, RegistryInv
  <2> QED  BY <2>1, <2>2, <2>3, Zenon DEF Answers
<1>19. CASE PowerFailure
  BY <1>1, <1>19, Zenon DEF PowerFailure, Reverts
<1> QED  BY <1>3, <1>4, <1>5, <1>6, <1>7, <1>8, <1>9, <1>11, <1>12, <1>14, <1>15, <1>16, <1>17,
            <1>18, <1>19, Zenon
         DEF Next, Executor

(* The registry file with its rename, sync and replay implements the set   *)
(* of operations that callers may rely on: a crash or power failure takes  *)
(* back no operation that was acknowledged or decided from.                *)
THEOREM DurableRegistryHolds == Spec => DurableRegistry
<1>1. Init => Durable!Init
  <2>1. Done(NoRegistry.ops) = {}
    BY Zenon DEF NoRegistry, NoOps, Done
  <2> QED  BY <2>1, NoDatabaseIsEmpty, Zenon DEF Init, Durable!Init
<1>2. StorageInv /\ [Next]_vars =>
         [Durable!Next]_<<Done(seen.ops), acked \cap Operations, Done(disk.ops)>>
  <2> SUFFICES ASSUME StorageInv, [Next]_vars
               PROVE  [Durable!Next]_<<Done(seen.ops), acked \cap Operations, Done(disk.ops)>>
    OBVIOUS
  <2>1. RegistryInv
    BY Zenon DEF StorageInv
  <2>2. CASE Quiet
    BY <2>2, Zenon DEF Quiet
  <2>3. CASE Renames
    <3>1. CASE Same(seen, call.draft)
      BY <2>3, <3>1, Zenon DEF Renames, Same
    <3>2. CASE Adds(seen, call.draft, call.job)
      <4>1. /\ call.job \in Operations
            /\ Done(seen'.ops) = Done(seen.ops) \cup {call.job}
        BY <2>3, <3>2 DEF Renames, Adds, Done
      <4>2. Durable!Apply(call.job)
        BY <2>3, <4>1 DEF Renames, Durable!Apply
      <4> QED  BY <4>1, <4>2 DEF Durable!Next
    <3> QED  BY <2>1, <2>3, <3>1, <3>2 DEF RegistryInv, Renames
  <2>4. CASE Answers
    <3>1. CASE acked' \cap Operations = acked \cap Operations
      BY <2>4, <3>1, Zenon DEF Answers
    <3>2. CASE acked' \cap Operations # acked \cap Operations
      <4>1. /\ call.job \in Operations /\ call.job \in Done(seen.ops)
            /\ acked' \cap Operations = (acked \cap Operations) \cup {call.job}
        BY <2>4, <3>2 DEF Answers
      <4>2. Durable!Ack(call.job)
        BY <2>4, <4>1 DEF Answers, Durable!Ack
      <4> QED  BY <4>1, <4>2 DEF Durable!Next
    <3> QED  BY <3>1, <3>2
  <2>5. CASE Projects
    <3>1. Durable!Serve
      BY <2>5, Zenon DEF Projects, Durable!Serve
    <3> QED  BY <3>1 DEF Durable!Next
  <2>6. CASE Discards
    <3>1. Durable!Unserve
      BY <2>6, Zenon DEF Discards, Durable!Unserve
    <3> QED  BY <3>1 DEF Durable!Next
  <2>7. CASE Reverts
    <3>1. Durable!Forget
      BY <2>1, <2>7, Zenon DEF Reverts, RegistryInv, Durable!Forget
    <3> QED  BY <3>1 DEF Durable!Next
  <2> QED  BY <2>2, <2>3, <2>4, <2>5, <2>6, <2>7, StepKinds, Zenon
<1> QED  BY <1>1, <1>2, StorageInvariance, PTL DEF Spec, DurableRegistry, Durable!Spec

(* A definition never goes back to an older policy or text, and only an    *)
(* installer's call or an image record of another installation brings a    *)
(* removed one back (CommonRegister, ImportOfflineRegistration).           *)
THEOREM SeedsRespectHistoryHolds == Spec => SeedsRespectHistory
<1> DEFINE Respects ==
      Done(seen.ops) \subseteq Done(seen'.ops) =>
         \A d \in Definitions :
            LET old == seen.definitions[d]
                new == seen'.definitions[d]
            IN /\ new.policy >= old.policy /\ new.text >= old.text
               /\ ~old.active /\ old.policy # 0 /\ new.active =>
                     \E o \in Done(seen'.ops) \ Done(seen.ops) :
                        o \in Online \/ new.generation # old.generation
<1>1. ASSUME StorageInv, [Next]_vars PROVE Respects
  <2>1. RegistryInv /\ seen \in Content /\ \A d \in Definitions : seen.definitions[d] \in Definition
    BY <1>1, ContentFields, Zenon DEF StorageInv, TypeOK
  <2>2. ASSUME seen'.definitions = seen.definitions PROVE Respects
    <3>1. \A d \in Definitions : /\ seen.definitions[d].policy \in Nat
                                 /\ seen.definitions[d].text \in Nat
      BY <2>1, Zenon DEF Definition
    <3> QED  BY <2>2, <3>1
  <2>3. CASE Renames
    <3>1. CASE Same(seen, call.draft)
      BY <2>2, <2>3, <3>1, Zenon DEF Renames, Same
    <3>2. CASE Adds(seen, call.draft, call.job)
      <4>1. call.job \in Done(seen'.ops) \ Done(seen.ops)
        BY <2>3, <3>2 DEF Renames, Adds, Done
      <4>2. \A d \in Definitions : Newer(seen.definitions[d], seen'.definitions[d], call.job)
        BY <2>3, <3>2 DEF Renames, Adds
      <4> QED  BY <4>1, <4>2 DEF Newer
    <3> QED  BY <2>1, <2>3, <3>1, <3>2 DEF RegistryInv, Renames
  <2>4. CASE Reverts
    <3>1. Done(safe.ops) \subseteq Done(seen.ops)
      BY <2>1, Zenon DEF RegistryInv
    <3>2. Done(seen.ops) \subseteq Done(seen'.ops) => seen'.definitions = seen.definitions
      BY <2>1, <2>4, <3>1 DEF RegistryInv, Reverts
    <3> QED  BY <2>2, <3>2
  <2>5. CASE UNCHANGED seen
    BY <2>2, <2>5, Zenon
  <2> QED  BY <1>1, <2>3, <2>4, <2>5, StepKinds, Zenon DEF Quiet, Answers, Projects, Discards
<1>2. StorageInv /\ [Next]_vars => [Respects]_vars
  BY <1>1, Zenon
<1> QED  BY <1>2, StorageInvariance, PTL DEF Spec, SeedsRespectHistory
=============================================================================
