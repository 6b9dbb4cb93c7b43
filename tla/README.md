# A TLA+ model of the consent system

The repository implements *consent*: a daemon (`consentd`) that stores which
conditions packages have defined, asks the user about them, records what the
user granted, and answers enforcers that are about to act. Data produced under
a grant is registered with the daemon, which asks its holder to delete it when
the grant or its session ends. This directory holds TLA+ modules translated
from the source, TLC runs that check them on small instances, and TLAPS proofs
of the main invariants for instances of any size.

1. [The system](#1-the-system)
2. [The modules](#2-the-modules)
3. [The runs](#3-the-runs)
4. [Bounds and fairness](#4-bounds-and-fairness)
5. [Findings and observations](#5-findings-and-observations)
6. [The proofs](#6-the-proofs)
7. [Not modelled](#7-not-modelled)

## 1. The system

Paths below are relative to `src/src/`.

| Part | Source | Module |
|---|---|---|
| Tables, request handlers, deadlines, compaction | `consentd/repository.cc`, `common/approval.cc` | `Database`, `Repository` |
| Registry file, database identity, recovery, image records | `consentd/repository.cc` (`Open` ... `Ensure`, `ImportOfflineRegistration`), `common/offline_registration.cc` | `Storage`, `Registry` |
| Server threads and queues | `consentd/server.cc`, `common/dispatch.cc`, `consentd/main.cc` | `Server` |
| Client library | `consent/client.cc`, `consent/io_context.cc` | `Client` |
| Client and server together | the socket between them | `Protocol`, `Service` |
| Active user of the device | `consentd/profile_authority.cc`, `profile_state.cc`, `ProfileCommit` of `repository.cc` | `Profiles` |
| Installation records | `tools/installation_authority.cc`, `InstallationIdentity` of `consentd/identity.cc` | `Authority` |
| First start, migration, receipt, locks | `tools/storage_prepare.cc`, `consentd/bootstrap.cc`, `common/recovery_state.cc` | `Bootstrap` |
| Feature coordinator, workers, cleanup pages | `mocks/feature_coordinator.cc`, `mocks/feature_worker.cc`, `common/cleanup_sweep.cc`, `common/cleanup_cursor.cc`, `cleanup_list` of `repository.cc` | `Conversation` |

How they meet: a client sends a frame to the server; a parser decodes it; one
database thread runs `Repository::Execute`; the reply and the events of the new
policy revision go back through the connection's queue. A timer runs `Tick` on
the same thread. The profile authority submits barriers to it and raises a
generation that requests and replies are compared with. The approval UI is a
client that fetches prompts and answers them. Installers change the authority
file behind the daemon's back, which the next replay notices. The daemon is
started by a unit whose helper prepares the directories and guards, by a
receipt, against starting over with empty stores.

What is hard here, in short (each with its line in `PROJECT.json`): a sweep runs
in a transaction of its own before each handler; requests for one condition are
open side by side on several screens; a ONCE grant is consumed with all others
of its check or not at all; sessions change under requests, grants, receipts and
data; data derived from data follows every source of every ancestor; compaction
deletes rows others may name; registry and database are two files that fail
separately; news and replies race on a connection; the user changes between a
check, its commit and its reply; a tool is killed between its rename and its
answer; a page of deletions is listed while others are acknowledged.

## 2. The modules

### Database, Repository

`Database` holds the tables as one record `T` and the helpers of
`Repository::Impl` as operators on it (`Invalidate`, `Replay`, `FinishCleanup`,
`CloseSessions`, `SuspendSessions`, `ResetRuntime`, `Expire`, `CheckConditions`,
`ReceiptValid`, `CompactMetadata`, ...). A transaction is the composition of the
helpers it calls. `Repository` is the state machine: one action per handler, the
executor that runs a sweep and then a handler, and the environment.

| Variable | Code |
|---|---|
| `now` | `Now()`, the monotonic clock |
| `swept` | whether the executor is between the sweep and the handler of `Execute` |
| `revised` | whether the last step bumped the policy revision |
| `registry` | `definitions_` |
| `authority` | each package's installation generation |
| `db` | the tables |
| `screens` | prompts the UI instances hold: token, rows and their versions |

`Register`, `Unregister` are `CommonRegister`; `SessionOpen` ...
`SessionHeartbeat` are `Session`; `CreateRequest`, `Authorize` are `Evaluate`;
`GetPrompt`, `FinishUnasked`, `Approve`, `Deny` are `Prompt`; `CancelRequest`,
`RetireStoredApproval` are `Result`; `DataRegister`, `DataRegisterDerived`,
`CleanupAck` are `Data`; `Revoke`, `Tick`, `FenceProfiles` bear the code's names;
`Restart` is the replay and runtime reset of `OpenDatabase`. `Answer` is any
method that is rejected or only reads.

Abstractions: one subject and one profile; a definition has one row context and
fixed modes and retention; requests, receipts, grants and artifacts are named by
what the schema makes unique; roles, fingerprints and ownership checks reject,
which is `Answer`; idle and absolute limit are one deadline; a compaction pass
takes receipts or grants first, which is what a partial pass (128 rows) shows
the next one; rechecks after the commit decide about the reply only.

### Storage, Registry

`Storage` is the executor at the grain of file operations: `pc` and `call` are
its position and locals, `seen` and `safe` the registry file as read now and as
left by a power failure, `disk` the database file with its inode, incarnation,
projection and decisions, `mem`, `current`, `fenced`, `corrupt`, `handle` the
members of `Repository::Impl`. Jobs are an installer's operation, a decision or
a tick; each passes `Ensure`, which may read, write, replay, retire or recreate.
Between any two steps the process may crash, the power fail, an operation return
an error, or the database file be deleted, replaced or damaged (`HarmDatabase`; a
replacement has an inode that no registry in a file or in memory records, which
is all that `OpenDatabase` can compare). Image records
are imported on start in their order. A registry revision is the set of
operations it records.

`Registry` says what callers may assume: operations are applied, acknowledged,
projected, and forgotten only if nobody was told. `Storage!DurableRegistry` is
the refinement.

### Protocol, Server, Client, Service

`Server` has the main, I/O and database threads with the queues between them
(`dbq`, `ioq`), connections with their output and in-flight count, the snapshot
last published, wake sources and the stop sequence. The repository is reduced to
its stamp of epoch and revision. `Client` has, per handle, the I/O thread's pump,
armed deadlines, output, cached decision and stamp, and per operation what the
caller was told. `Service` joins both over sockets that hold a bounded number of
frames. Limits (`kMaxConnections` 64, `kMaxJobs` 128, 32 requests in flight, 512
sources, 256 KiB of output, and `kMaxPending` of the client) are constants, set
to 1, 2 or 3 so that each is reached.

### Profiles

The session manager (external) switches and removes users, answers calls late or
never and restarts; `bus` and `calls` carry signals, replies and method calls.
`auth` is the authority on the main thread, `state` the `ProfileState` all
threads share, `dbq` and `dones` the barriers and their results, `work` the
request the database thread is in, one action per place where the code looks at
the generation: `Begin`, `ActiveContext`, `CommitAdmitted`, `Commit`,
`Compensate`, `Reply`, and `Send` on the I/O thread. The main thread's handlers
are operators from a view of the state to the set of views they may leave.

### Authority, Bootstrap

`Authority` is the content of `installations.conf` and the four commands as
operators: conflicts, repeats, what each changes, and `InstallationIdentity`,
which the daemon reads from it. `Bootstrap` runs them on a device: package
scriptlets, the preparation helper, the daemon's preflight and completion, and
installers, step by step with their locks. `now` and `safe` are the files as
seen and as certain to last; a power failure keeps any of the changes not yet
synced.

### Conversation

The coordinator's job, retired job and accounts (`coord`), the worker processes
(`workers`), and what the daemon keeps of them (`db`): sessions, the approval, the
artifacts with their state. `started` is what no process can see as a whole: the
actions workers really performed.

A worker has the requests in its socket (`inbox`), the result of the request it
executed and has not sent (`output`), the reply the coordinator has not read
(`answer`), and the holder its buffers and sweep. Executing a request
(`Authorize`, `Start`, `RegisterData`, the sweep) and sending the reply (`Reply`)
are separate steps. A worker may die in between, or be killed by the deadline of
a retired job (`RetiredDeadline`): the action is performed and nobody hears of
it. A reply that was sent survives its worker, but the read may fail
(`Unread`); the worker is `astray` from then on, since each later reply is read
with the serial number of the one before and dropped. `CleanupList` is the daemon's page with its cursor and incarnation,
in the order of the ids (`Ascending`); `Sweep` ... `SweepList` are the steps of
`CleanupSweep` in the holder.

## 3. The runs

| Run | Properties | What it shows |
|---|---|---|
| `prompts` | `InformedConsent`, `PreapprovalLastsAsAsked` | two requests for the same conditions, several screens: only what the current screen displayed is granted, and an approval in advance lasts as long as asked |
| `lifecycle` | `NothingOutlivesItsSession`, `LiveGrantIsCurrent`, `DeadlinesWithinReach`, `CachedDecisionLossIsAnnounced` | a session of either lifecycle through all its changes, with updates, reinstallation, restart and reboot |
| `data` | `OnceSpentOnce`, `ReceiptCoversRows`, `ActiveDataIsCovered`, `ClosedIsClean`, `NoDanglingSource`, `DerivedWithinParents`, `FinishedRequestsStay`, `NothingComesBack` | two executions over two conditions, original and derived data, revocation, failed and repeated acknowledgements, compaction |
| `progress` | `PendingEnds`, `SessionEnds` | a request nobody answers ends; a session at its limit becomes CLOSED if its holder retries deletions |
| `storage` | `DecidesFromDurableState`, `LossIsFlagged`, `RuntimeEndsWithProcess`, `DurableRegistry`, `SeedsRespectHistory` | crashes, power failures, errors and a harmed database at every step of the executor: handlers run on durable state only, a lost decision is flagged, the abstract registry is implemented |
| `restart` | `HealthyDatabaseIsKept` (violated) | finding 1 |
| `service` | `EventPrecedesReply`, `CacheLagsOnlyBehindNews`, `CountersAreExact` | two handles, one changing what the other has cached: no reply overtakes its news, and a cache is stale only while news is on its way |
| `calls` | `DefiniteFailureMeansNotRun`, `OperationsEnd`, `ShutdownEnds` | deadlines, lost connections and a stop: a caller who may repeat a call may do so, every call ends, the daemon quits with its queue served |
| `profiles` | `ReadyFollowsManager`, `RacedGrantsAreRetired`, `ApprovalsEndWithTheirUser`, `SentForActiveProfile`, `Resynchronizes` | two switches, a removal, a request and a failure in any order |
| `removal` | `ObservedRemovalRetires` (violated) | finding 2 |
| `bootstrap` | `NoSilentReset`, `InitializedStaysBootable`, `ResultsAreKept`, `RetiredStaysRetired` | activations, scriptlets, two installers, power failures and lost stores in any order |
| `conversation` | `ClosedMeansErased`, `ActionsAreAccounted`, `RecordsAreFinal`, `CloseSucceeds` | tasks, cancellations, expiries, workers that die or are killed after they acted, replies that cannot be read, and a paged cleanup: no performed action is reported as not executed, and none is performed after it was recorded |

Sizes range from about 20,000 (`progress`) to 2 million (`storage`) distinct
states; a run takes one to three minutes with two workers.

Each property of a passing run has a mutant, named in `PROJECT.json`: a variant
of one definition with a bug the code could plausibly have (a guard dropped,
rows left behind, a barrier left out, a swapped order). TLC finds the property
violated on it.

## 4. Bounds and fairness

- **Repository.** Time reaches 0, 1 or 2: a deadline ahead, met exactly, or
  passed. `Restart` keeps the clock or sets it to 0. Two conditions tell a
  complete check from an incomplete one; two requests give side-by-side prompts;
  two operations the second attempt to spend a grant; two original artifacts and
  a derived one parents that agree and that differ (a check of the condition
  with the short retention, or of both conditions); three generations a session
  that was suspended and resumed. In `data` the clock stands: sessions and
  data end there by calls, revocation and restart. The holder has one process
  instance. The proofs cover any clock and any instances.
- **Storage.** One definition, an installer's register and unregister, and image
  records of the same and of the next installation; one decision; three
  incarnations and reused inodes; two troubles, so that a failure may hit the
  recovery from another.
- **Service, calls.** Queues of one or two places; two revisions and two epochs;
  one trouble. `service` has two handles and no deadlines, `calls` one handle,
  three operations and three deadlines.
- **Profiles.** Two users, two switches, a removal, a request, one trouble: a
  second switch during the first, and a failed barrier under either.
- **Bootstrap.** One package and app, six commands of which two share an
  operation id, two installers, three activations, two scriptlets, two
  troubles, so that a failure may hit the recovery from another. The proofs
  cover any number.
- **Conversation.** Pages of one row and one page per call, so that two artifacts
  need two pages and two calls; four commands and one trouble. One trouble is
  enough to lose the reply to an action after its job was cancelled, because a
  selection that changes or expires costs none. The proofs allow any number.

Symmetry is used for names that a run's constants treat alike, and never with
liveness properties.

Deadlock is checked in the four runs of `Repository`, whose clock wraps into a
restart so that a step is always possible. The other runs switch it off: a
daemon may be stopped for good, a client closed, and every bounded environment
comes to its end.

Fairness.

- `Repository!FairSpec`: the clock runs, the executor finishes the request it has
  begun, and a submitted tick is reached (the queue is first in, first out, so a
  tick that is enabled again and again is run: strong fairness). `SessionEnds` is
  conditional on `Cooperation`: requests keep arriving and a holder retries a
  deletion until it is acknowledged. No session with data reaches CLOSED
  otherwise, by design.
- `Service!FairSpec`: the daemon's main, I/O stop and database threads run, a
  handle's thread dispatches and leaves its pump, and time reaches deadlines.
  The daemon need not answer.
- `Profiles!FairSpec`: main and database thread run, and the manager answers or
  fails calls. `Resynchronizes` needs less than fairness to each of the three:
  that they do not all stand still while one has work. No chain of signals,
  replies, timers and barriers goes on for ever, so none of them can starve the
  others, and each bounded disturbance comes to an end.
- `Conversation!FairSpec`: the coordinator polls, and the holder serves what it
  was sent and sends its reply. Nothing is assumed of the other workers or of the
  user.

## 5. Findings and observations

Two runs refute a statement of the repository's own documents.

1. `restart`, `repository.cc:758`. `OpenDatabase` changes the expected identity
   in memory before `WriteRegistry` makes it durable. When that write fails, the
   next `Ensure` compares the database with memory only and lifts the fence;
   decisions are then acknowledged on a database that the registry file does not
   name, and an ordinary restart retires it.
2. `removal`, `profile_authority.cc:421`. When the barrier of an observed removal
   fails, the continuation returns with `synchronized_` still true. A later
   switch takes an ordinary barrier and activates, and the approvals of the
   removed user serve the next user of that name. `ApprovalsEndWithTheirUser`
   (in `profiles`) shows that this is the only way.

Observations made while modelling, without a run of their own:

- A first preparation that fails after `mkdir` (`storage_prepare.cc:504`) is
  refused on every retry (497-499), although 818-819 says "state is retained,
  retry after correcting the cause".
- A migration that stops between spending its anchor and writing the receipt
  (617-633, 675-681) cannot be continued; no property promises that it can.
- After a database is recreated, a holder's `CleanupSweep` keeps its old cursor,
  which every later `cleanup_list` refuses as stale, until the holder restarts.
  `CloseSucceeds` therefore speaks of conversations without trouble.
- A worker that died is replaced only when a retired job's deadline erases it.
- A reply that could not be read from a living worker stays in its socket
  (`feature_coordinator.cc` 120-128). The worker's later replies are refused for
  their serial number until it is replaced.

## 6. The proofs

Eight modules hold the proofs. They use no bound: the sets of names are
arbitrary, and the `Max...` constants any natural numbers. Assumptions are the
`ASSUME`s of the modules that declare the constants, evaluated by TLC in every
run: each definition has a package, modes and a retention; names of different
kinds are distinct from each other and from `None`, `NoSession` and `NoUser`; the
set of requests is finite; bounds are natural numbers; TIMED contexts have a
positive duration; requirement lists are not empty.

### Repository

`RepositoryProofs`: `TypeCorrect`; the invariants `OnceIsSpentOnce`,
`ReceiptsCoverRows`, `DerivedStaysWithinParents`, `DataIsCovered`,
`ClosedSessionsAreClean`, `LiveGrantsAreCurrent`, `SessionsBoundTheirOwn`,
`SourcesExist`; the action properties `WithdrawalIsFinal`, `AnswersAreFinal`,
`SessionsMoveForward` (of `SessionMovesForward`, which no run repeats).

None is inductive alone, so all are carried in `Inv` (theorem `Invariance`): the
type invariant, finiteness of a request's screens, and `DatabaseInv(db)`, which
has two halves. `RowsInv` is about what rows record and only grows: what the
properties say of ONCE counts, receipts and parents, and besides

- an undecided request has inserted no grant (an approval could otherwise
  overwrite one that was spent);
- what a prompt shows is among the request's rows (so that only versions the
  request fixed are granted);
- ONCE counts are 0 or 1 (so that one consumption leaves 0);
- the SESSION grants a receipt or an artifact names belong to its own session
  (so that closing that session reaches them);
- parents exist (so that a new artifact is nobody's parent);
- a session that was never opened has generation 0.

`StatesInv` is about which rows are usable: live sources, open sessions, clean
closings, current grants, pending requests, named grants.

- `DatabaseProofs`: each helper preserves the types, keeps `StatesInv` and only
  *withdraws* rows (`Withdrawn`, which by itself keeps `RowsInv` and implies
  `Forward`, the relation behind the action properties). What handlers write
  keeps the invariants too. The conclusion is `Good(T, U)`: `U` is well typed,
  satisfies `DatabaseInv` and undoes nothing of `T`.
- `RepositoryProofs`: every handler leads to good tables; then the disjuncts of
  `Next`, and the theorems.

`DecisionProofs` and `ConsentProofs`: the other four properties of `Repository`,
`DeadlinesStayWithinReach` (`DeadlinesWithinReach`), `ConsentIsInformed`
(`InformedConsent`), `PreapprovalsLast` (`PreapprovalLastsAsAsked`) and
`CachedLossIsAnnounced` (`CachedDecisionLossIsAnnounced`). `ConsentInv` (theorem
`ConsentInvariance`) adds to `Inv`:

- `InReach`: what the first property says, and that usable receipts are of the
  past (data expires by the date of its receipt, so a receipt of a time before
  the reboot would keep data beyond its retention);
- `ScreensShow`: a screen's token is one of the numbers up to that of the
  request's screens, so a new prompt's token is on no older screen; and the screen
  with the token shows the rows and versions the request records, all rows when
  the request has no context (then an approval grants all that was not allowed
  before, shown or not);
- `TaskContexts`: a request without a context is for a task, so `Covers`
  compares the period of every request made in advance.

Steps that only withdraw keep all of this. For the cached decisions nearly every
step announces a revision; a sweep or a tick that does not has found nothing to
expire and no definition to change, and leaves everything an evaluation reads as
it was (`Steady`), compaction included. The first of the two modules has `Steady`,
the invariant and the steps that approve nothing; the second has requests,
approvals, executions and data, and the theorems.

### Storage

`StorageProofs`: the five properties of the `storage` run, `DurableRegistryHolds`
(the refinement of `Registry`) among them. `StorageInv` (theorem
`StorageInvariance`) says, for every label of `pc`, how the two files, their
state after a power failure, the members of the repository and what was answered
are related:

- `DownInv`, `RegistryInv`: the registry that survives is behind the one that is
  seen; neither the projection nor an answer is ahead of the one that survives;
  where handlers run they are equal. A rename adds at most the operation of the
  call.
- `ReplyInv`: the continuation of a call says which operation is durable, so that
  an answer after the last of several returns is still justified.
- `RuntimeInv`: start-up has deleted runtime rows before it imports.
- `NamesInv`, `LossInv`, `OpenInv`: incarnations are used once; a database that
  lacks an answered decision without saying so is named by no registry, seen or
  surviving. That it is recreated and flagged before it is named is what
  `OpenInv` says between the steps of `OpenDatabase`.

For the refinement each step is one of six kinds (`StepKinds`: a rename, an
answer, a projection, a discarded projection, a reverted registry, or quiet), and
each kind is a step of `Registry` or a stutter. `SeedsRespectHistoryHolds` needs
only the rename: definitions change nowhere else.

### Bootstrap and Authority

`BootstrapProofs`: `TypeInvariance`, `OneRegistryIsServed` (`NoSilentReset`) and
`InitializedDevicesBoot` (`InitializedStaysBootable`). `ReceiptInv` is why a
registry is created at most once: creating it takes a claim of the present
activation, a claim takes a FRESH receipt, made durable under the exclusive lock
before the daemon runs, and only a scriptlet that found no authority directory
writes a FRESH one.
`StoresInv` says that whatever mixture of old and new files a power failure
leaves, a receipt that says INITIALIZED comes with its stores; it needs the
order of the syncs.

In the same module `PrintedResultsAreKept` (`ResultsAreKept`) and `RetiredForGood`
(`RetiredStaysRetired`). `ToolInv`: one tool is between reading and syncing the
file, and its draft extends the file. `ToldInv`: what was printed is recorded in
the file as seen and as certain to last. `RetireInv`: in each of these files and
drafts generations are among those drawn, and no recorded removal or
replacement is undone.

### Profiles

`ProfilesProofs`: the safety properties of the `profiles` run.

`NoRacedApprovalIsLeft` (`RacedGrantsAreRetired`): whatever the authority does,
the generation only grows (`Grown`, a lemma per handler). A raced approval
therefore belongs to the request that is about to compensate it, and that finds
a newer generation, however late it looks (`RaceInv`).

`ReadyOnlyForManagersUser` (`ReadyFollowsManager`), `RepliesAreForTheActiveProfile`
(`SentForActiveProfile`) and `ApprovalsDoNotOutliveTheirUser`
(`ApprovalsEndWithTheirUser`) rest on `ProfileInv`. Everything on its way, in four
sequences and three threads, carries the generation it was made in, and a fence
makes all of it stale at once (`FencedIsClear`); so the invariant speaks only of
what carries the present generation (`Current`):

- `Wired`: it was asked for over the present connection, or is the barrier of a
  loss (so that a read cannot outlive the signals it may be overtaken by);
- `Fresh`: before the authority is synchronized it is the first read, and its
  barrier retires every approval;
- `Ordered`: removals and losses queue before it (so that a removal is carried
  out before anyone is ready; a switch's pending flags survive a removal, so the
  calls themselves need not wait);
- `Follows`: all reads that no news precedes on the bus found the same user, and
  with no news on the bus that is the manager's;
- `Covered`: the approvals of a removed user are still to be retired: by a signal
  on the bus, a barrier in the queue, or the barrier of the first read. A failed
  barrier is what `missed` records;
- `Served`: requests past their check and replies not yet sent, of the present
  generation, are the active user's.

There is a lemma per handler (`...Steps`): from a good view it leaves a good
view, fences or leaves the active user active, and uncovers nobody.

### Conversation

`ConversationProofs`: `ClosedIsErased` (`ClosedMeansErased`),
`ActionsAreAccountedFor` (`ActionsAreAccounted`) and `RecordsStayFinal`
(`RecordsAreFinal`), for any number of commands, deaths, failed reads and
deadlines. `ConversationInv` (theorem `ConversationInvariance`) has three parts.

`ExchangeInv`: at most one exchange with a worker is under way, that of the job or
of a job given up and not yet drained (`Out`). Actions are numbered by operation
and step, and what is recorded or performed was numbered before the one
outstanding (`Numbered`), so a new action is never one of the old. What is
performed is recorded or is the outstanding action, and the outstanding action is
not recorded yet. Of each worker (`WorkerInv`): one without an exchange has
nothing to do or to say that would be believed (`Quiet`), the one in the exchange
has the request, the unsent result or the unread reply, and only one of them;
one that is astray is never sent an action (`Lane`); and a result that says the
action was, or was not, performed is true (`Tells`). Without the last a reply `worker-failed` could hide an action; without
`Quiet` a late reply could be booked on the next one, or a start given up as
uncertain be performed after all, which is why the deadline kills the worker.

`DataInv`: what the daemon calls deleted is wiped in the holder, and the
data of a closed session is deleted. `ClosedInv`: sessions the coordinator
reported closed are closed in the daemon.

### Only model-checked

Liveness, out of this prover's reach, in `progress`, `calls`, `profiles` and
`conversation`. The properties of `Service`, whose modules use the sequence
library that slows every proof step several times. `TypeOK` of `Service` and
`Profiles` documents the types and is in no run; the proofs of `Profiles` carry
the shape they need.

## 7. Not modelled

- Parsing, localization, digests, frame encoding, file syntax (`registration.cc`,
  `localization.cc`, `message.hh`, `parcel_codec.hh`, `key_file.cc`,
  `profile_config.cc`): functions on text without state; no property here tells
  two texts apart. The content rules of a registration are its policy and text
  revision.
- Reading `/proc`, sockets and labels (`identity.cc` but for
  `InstallationIdentity`): inputs of the model.
- The approval UI (`consent-ui/`): what the daemon sees of it is in `Repository`.
  Its own state is that of windows over a toolkit that is not in the repository.
- C wrappers, examples, logging, test programs among the mocks.
- *Server*: socket setup; the parser's overload refusal, which 64 connections
  with one frame each in a queue of 128 cannot reach. *Client*: argument checks
  of single calls; replies that break the protocol.
- *Bootstrap*: the transfer of a legacy `installations.conf`
  (`storage_prepare.cc` 508-515, 541-558); the classification build; owners,
  modes and labels are steps that may fail. *Offline records*: publication is one
  atomic step.
- *Conversation*: deduplication of command ids and its limits, revision checks,
  the retry of a previous action, scope reconciliation, the `release` method, the
  gated test build, a restart of the coordinator, workers that cannot be spawned,
  a frame that cannot be sent to a living worker. A result of status 0 without
  the mark of a start is recorded as uncertain, as in the code.
