# Dottie in TLA+

Specifications, model-checking configurations and machine-checked proofs for the
parts of Dottie that keep state between processes: the shard pipeline of
`apps/ava-factory`, the model missions of `factory/`, the GPU lease and
experiment queues of `packages/dottie-loop`, the Slack inbox of `apps/jarvisd`
and the session registry of `apps/dottie-rlm`. `PROJECT.json` lists every run,
every mapped definition with its source lines, every known hazard and every
theorem; this file says how to read them. Paths below are relative to `src/`.

To check: `tlc -config <X>.cfg <module of X>` for each run, and `tlapm <M>.tla`
for each module `<M>Proofs` (`ShardManifestProofs`, `ShardPipelineProofs`,
`MissionLedgerProofs`, `MissionRunsProofs`, `MissionPromotionProofs`,
`ExperimentQueueProofs`, `SlackInboxProofs`, `SessionRegistryProofs`).

## 1. Inventory

Dottie is one repository of several Python programs around one loop: decide,
execute, record, mine, retrain, gate, serve. They share no memory; they meet in
SQLite databases, JSON files and directories. That is where the hard behaviour
is, and what these specifications are about.

| Component | State it keeps | Operations | How it meets the others | What is hard |
|---|---|---|---|---|
| Shard manifest (`dottie/pipeline/manifest.py`) | table `shards`: state, split, attempts, owner, lease, tokenizer; the frozen tokenizer | `add_shard`, `claim`, `renew`, `complete`, `fail`, `release_claim`, `requeue_expired`, `rescue_stranded`, `mark_deleted`, `freeze_tokenizer`, `abandon_claims`, `clear_tokenizer_for_retrain` | SQLite file, `BEGIN IMMEDIATE` per method | leases that lapse under a living owner, capped attempts, the freeze gate, held-out splits |
| Collector (`collector.py`) | raw files, a resume cursor per source | publish, register, advance the cursor | raw directory, manifest | crash between the three, replay |
| Curator (`curator.py`) | one claimed shard, its loaded tokenizer, packed files | read and filter, pack, register held-out rows, complete, retire, remove raw | raw and packed directories, manifest | crash or lost lease between any two, two curators on one shard |
| Trainer's sampler (`dottie/data.py`) | one claimed packed shard | claim, verify hashes, renew, complete, release | packed directory, manifest | lost lease, files that vanish |
| Janitor and eviction (`janitor.py`, `eviction.py`) | none | choose rows, delete files, mark rows | the same | choice is stale when acted on |
| Tokenizer freeze and cutover (`tokenizer.py`, `scripts/reset_tokenizer_cutover.py`) | `tokenizer.json` | train, freeze, invalidate everything packed | manifest, packed directory | three steps without a transaction |
| Mission ledger (`factory/mission_ledger.py`, `mission_schema.py`) | missions, attempts, evaluation claims, processes, provenance, approvals, promotion journal | the methods of `Ledger` | SQLite file, one transaction per method | concurrent claims with different limits, cancel and resume at any time |
| Mission runs (`factory/mission.py`, `mission_process.py`, `cli.py`) | the frame of a command, its child process | `run`, `evaluate`, `preflight`, `cancel`, `resume`, `propose` | ledger, processes, repository | everything that happens while a training runs |
| Mission promotion (`factory/mission.py`, `mission_paths.py`) | stage files, hard links | `promote`, its recovery | ledger, repository | crash anywhere, concurrent recovery, foreign files |
| GPU lease and experiment queue (`packages/dottie-loop/dottie_loop/closed_loop.py`, `experiment.py`) | lease file; jobs and cpu/disk leases in the memory of each runner | `submit`, `claim`, `start`, `heartbeat`, `complete`, `fail` over `acquire`, `heartbeat`, `release` | one lease file under a file lock | a lease that expires under its job, a clock read before the wait for the lock, a dead owner, two records updated one after the other |
| Slack inbox (`apps/jarvisd/jarvisd/slack_inbox.py`) | bounded set of seen timestamps, inbox files | `drain` | inbox directory, state file, goals | a drain that dies or raises between opening a goal and saving, redelivery, forgetting at the bound |
| Session registry (`apps/dottie-rlm/dottie_rlm/registry.py`, `rlm.py`) | the index `registry.json`; per process the loaded sessions and the turns in flight | `create`, `get`, `touch`, `mark_done`, `evict_idle`, turns | whole-file read and write under a lock file; threads under a thread lock | a lock left by a dead process, a sweep in three steps beside turns and other processes |
| Jarvisd state (`state.py`, `auth.py`) | goals, board, pairing codes | claim, move, verify | SQLite | single use, one item in progress |
| Scout harness (`apps/scout-cli/bigbang`) | recovery ladder, herd store | run, retry, escalate | processes, files | retry of what was done |

What makes each correct is in section 3 for the modelled ones; for the others
section 7 says what is to be stated. The remaining directories (sites, consoles,
prompts, skills, knowledge, archives) hold no state machine.

## 2. Modules

```
ShardManifest  <-- ShardPipeline    <-- MCShardPipeline (3 configurations)
      ^   ^            ^------ ShardPipelineProofs (extends ShardManifestProofs too)
      ^   ^------- MCShardManifest (1)
      ^------ ShardManifestProofs

MissionLedger  <-- MissionRuns      <-- MCMissionRuns (1)
      ^   ^            ^------ MissionRunsProofs
      ^   ^------- MissionPromotion <-- MCMissionPromotion (2)
      ^   ^            ^------ MissionPromotionProofs
      ^   ^------- MCMissionLedger (1)
      ^------ MissionLedgerProofs

ExperimentQueue --implements--> GpuMutex       MCExperimentQueue (1)
      ^------ ExperimentQueueProofs
SlackInbox      --implements--> OpenOnce       MCSlackInbox (1)
      ^------ SlackInboxProofs
SessionRegistry --implements--> SessionIndex   MCSessionRegistry (2)
      ^------ SessionRegistryProofs

A <-- B : B EXTENDS A.   A --implements--> B : INSTANCE B WITH a refinement
mapping, B's specification a property of A.
```

The pipeline and the missions are built alike. The lower module (`ShardManifest`, `MissionLedger`)
is the database: each writing method, one transaction in the code, is one action,
and a method that raises is a disabled action. It is the abstract specification:
it allows any call at any time that the callers' own checks allow. The upper
modules are the processes, split wherever the code leaves a transaction, touches
a file or reads a value it uses later; they EXTEND the lower one and conjoin its
actions to their own program counters. That the processes use the database only
in the ways the lower module allows is checked as a refinement
(`ImplementsManifest`, `ImplementsLedger`; the mapping is the identity, since the
variables are shared). Both are also proved, for the missions with no restriction on
overlapping promoters or early resumptions, for the pipeline with eviction too, so
that what is proved of the ledger and of the manifest is true of their processes.

The three other components have abstract specifications of their own, over fewer
variables: what the GPU lease, the inbox and the index are for, in a page each,
without locks, clocks or files.

**ShardManifest.** `rows[s]` is the row with id `s`. A lease is `"live"` or
`"lapsed"`; `LeaseLapses` is the clock, and since worker ids are fresh per
process, an owner is a process life. Counts, paths and hashes are abstracted to
what the properties tell apart: whether `path` is the raw or the packed file, and
the tokenizer the hashes were computed with.

**ShardPipeline.** `cur[c]`, `trn[r]`, `coll`, `jan`, `cut` are the program
counters and locals of curators, trainers, collector, janitor and the cutover
script; `raw`, `packed`, `tokfile` are the disk. `CurRaises` says in which steps
an exception can come up, `CurFail` what `run_once` does about it. `TrnFinish` may
leave the row as it is, because `_release` swallows whatever `complete()` raises.
The janitor chooses among all rows, so that only its own conditions on state and
split keep it off the held-out ones. The cutover script may die after each of its
steps, or with part of the packed files removed (`CutCrash`). Which
documents survive the filters and which split each goes to is the constant
`SplitsOf`; `assign_split` is a hash of the document id, so it is the same at
every replay.

**MissionLedger.** `missions[m]`, `attempts[a]`, `journal[t]`. An attempt is a
mission and an ordinal (the uuid in its id adds nothing). `attempts[a]` joins the
four tables whose key is the attempt. Provenance is reduced to its verdict and
names to their identity and their `casefold`.

**MissionRuns.** A worker is one run of the `run` or `evaluate` command: `job[w]`
is its frame, `child[w]` the process it launched. `Raises` is an exception at any
call inside a try block; `WorkerKilled` is a kill or an exception outside one.
A process that got SIGTERM is `"told"` and may run on for a while and exit with
either status; one that exited exists until its command has waited for it, which
is what `cancel` looks at. Stale verdicts, missing reports and metric gates are
the nondeterministic `verdict` of `Judges`.

**MissionPromotion.** A stage file is absent, whole or being written by a
promoter; a destination is nobody's, somebody else's, or a link to the stage of a
transaction, with its own completeness, since both names have one inode.
`SameFile` is `os.path.samefile`. A promoter that begins a transaction is
identified with it, so the number of promoters bounds the transactions.

**ExperimentQueue.** `status[p]`, `owner[p]` and `held[p]` are the memory of
process `p` and are lost with it; `lease` is the file. A GPU call is up to
three actions: the caller of `claim()` looks up the runners alive (`ClaimGpu`),
`acquire()` reads the clock up to `MaxPause` ticks later (`ReadClock`) and works under
the file lock up to `MaxLag` ticks after that (`Acquire`), with `call[p].lag` saying how
old its time is. A heartbeat has the last two of them.
`complete()` and `fail()` release first and record after (`Release`, `Record`).
`lease.for` is a history variable, the job the lease was taken for. The mapping
to `GpuMutex` is the set `Using`: claimed GPU jobs whose lease was not yet given
back. Names (`OwnersOf`) are unique to a process, but a restarted process has the
names of the dead one.

**SlackInbox.** `place[f]` is where a file is, `saved` the state file, `work[d]` a
drain: the listing it took, the timestamps it has in memory, in their order, and
the file it is moving. A death and an exception both end a drain without saving
(`Die`); a move that fails is ignored, as in the code, and leaves the file
(`stuck`). The mapping to `OpenOnce` takes as remembered what is saved or in the
memory of the drain under the lock.

**SessionRegistry.** A caller is a thread; `frame[c]` says where its call is and
carries the copy of the index it read under the lock file, so that a write that
replaces the file is a write of that whole copy. The thread lock is `ThreadFree`.
`busy[p][s]` is `_busy_depth`. `TimeOut` and `BreakLock` are two steps, as in the
code, which looks at its deadline and then unlinks the file by name. Deadlines may
pass at any time (`Patient = FALSE`) or only while the maker of the lock file is dead
(`Patient = TRUE`, in the run that looks for a counterexample). `stolen` is a history
variable: some waiter has broken the lock of a call that was alive. The mapping to
`SessionIndex` is the identity on `index`, until then.

## 3. What the runs check

Passing runs; each property is stated in full, with its reason, where it is
defined.

| Run | Instance | Shows |
|---|---|---|
| `manifest` | 2 shards, 2 curators, 1 trainer, 2 tokenizers, 2 attempts | claims are well formed, held-out rows are never trained or deleted, the freeze gate holds, every move is legal |
| `pipeline` | 1 shard with train and val documents, 2 curators, 2 trainers, 2 tokenizers, eviction off | no raw file is lost while its shard has to be packed, packed rows have their files, only the holder advances, no living curator forgets a claim; the manifest is implemented |
| `pipeline_finish` | 1 shard with only val documents, 2 curators, 1 trainer, eviction of 1 row at a time, chosen among all rows | one finisher in the retire path, held-out files survive, every claim ends |
| `ledger` | 2 missions with limits 1 and 2, 2 attempts of each, 2 journal entries, 3 names of 2 persons | the limits hold whoever starts first; promotion is earned and only what is promoted is approved; a mission that ended comes back only with a fresh attempt |
| `runs` | 3 commands, 2 attempts, 1 kill | one evaluation per attempt; when cancel refuses; the ledger is implemented; unless the operator resumes early, verdicts rest on own evidence, processes have slots, a cancelled mission's process ends and every slot is freed |
| `promotion` | 2 attempts, 2 promoters one at a time, 2 outputs, 1 kill | all outputs or none, foreign files kept, no stage left; the ledger is implemented |
| `gpu_queue` | 2 runners, 3 GPU jobs and a cpu job, leases of 2 ticks, 1 tick from the look-up to the clock and 1 from the clock to the file lock, 1 crash | the GPU is a mutex although leases expire; outcomes land; a dead runner's lease is taken over |
| `slack_inbox` | 2 drains, 4 files: one message twice, one unreadable; room for 1 timestamp, 2 deaths, 1 failed move | no message is lost; a second goal is paid for by a death or by the bound; every message is handled |
| `session_registry` | 2 threads of one process and 1 of another on 1 session, deadlines at any time, 1 process dies | until a living call's lock is broken, one call moves one session; a sweep spares turns; a dead process's lock is broken |

Every property of a passing run has a mutant in `PROJECT.json`: a plausible slip
in one definition under which TLC finds the property violated.

**Bounds.** `MaxAttempts` of the manifest is the code's parameter (2 instead of 3:
one retry is enough to reach the cap); `MaxAttempts` of the ledger bounds the
resumptions, and 2 lets an old command meet a new attempt. `MaxCrashes` bounds
killed commands, the sizes of `Curators` and `Trainers` bound process lives.
Two curators let an old holder meet a new one; a third would meet them in pairs.
Two tokenizers let a replay in `pipeline` meet the files of an earlier packing;
`pipeline_finish` has one, for its properties do not look at hashes. One source shard suffices for the pipeline since steps of different shards write
different rows and files, except for batches, which `manifest` covers with two. Two outputs let a promotion fail after it published something. `MaxLag` of 1 lets a call judge a lease by a time that is past, and
`MaxPause` of 1 under a `Ttl` of 2 is the longest pause with which a look-up is
younger than a lease; leases expire under their jobs; a lease counts down
no further than a call can look back, so time itself needs no bound. `MaxSeen`
of 1 with two messages evicts one; `MaxDeaths` of 2 is a death in a drain and one
in the drain that repeats it; `MaxStuck` of 1 leaves one file behind. In
`session_registry` all three callers work on one session, so that every pair of calls
meets on it, two of them in one process; `registry_break` has two sessions
and three processes, since what is lost there is the session of another caller. Symmetry is used only in runs of safety
properties, over processes that no property orders.

**Assumptions about the surroundings.** `hurried` (in `MissionRuns`) records the
missions that were resumed before all earlier commands on them had returned or
were killed; `PassedIfUnhurried`, `ProcessHasSlot`, `CancelledStops` and
`SlotFreed` are about the others, and section 4 says what happens to these.
`Overlap = FALSE` (in `promotion`): one promoter at a time; `promotion_overlap`
shows otherwise. `EvictBatch = 0` (in `pipeline`): no eviction;
`pipeline_evict_race` shows otherwise. The cutover script runs with its workers
stopped, as its docstring asks, but the janitor runs. `Watching = TRUE` (in
`gpu_queue`): `claim()` is given the runners that are alive; with its default it
is given none, and a running job loses its lease when it expires. `Informed` (in
`gpu_queue` and its proofs) adds that `MaxPause < Ttl`: the look-up is younger than a
lease when `acquire()` reads the clock; section 4 says what happens otherwise. In
`session_registry` nothing is assumed about deadlines; `IndexUntilStolen` speaks of
the time before a living call's lock is broken.

**Fairness.** `ShardPipeline!FairSpec`: a living curator or trainer takes its
next step (`serve` loops until told to stop, `_wait_for_data` polls), an idle
curator requeues every few polls, and the clock passes a lease that is not
renewed. Renewing, starting, exiting and crashing carry no fairness.
`MissionRuns!FairSpec`: a command runs until it returns, and a process ends that
got SIGTERM (which the code assumes: `cancel` sends nothing stronger).
`SlotFreed` has as a premise that trainings and evaluations end, on which a
`wait()` without timeout depends. No fairness is put on the operator or on exceptions.
`ExperimentQueue!FairSpec`: time passes, a call on the lease file returns, a runner
tries again for the GPU while it has a job for it (weak fairness; the caller polls
`claim`), and reports in the end what became of a job it claimed (strong, since its
calls come between heartbeats). Starting, heartbeats and restarts are not assumed.
`SlackInbox!FairSpec`: drains are started again and again (the
`drain-inbox` command is made for that) and each of their steps returns; a message whose goal is refused time and
again is accepted in the end. `SessionRegistry!FairSpec`: of each process some call
goes on, and a waiter's deadline passes; nothing is assumed about which thread gets
the lock.

## 4. Disagreements found

Runs with `expect: violation` check what a document or a comment says, and TLC
shows what the code does instead. `PROJECT.json` quotes both sides.

* `pipeline_evict_race`: eviction deletes the file of a row that was claimed
  after it was chosen.
* `promotion_overlap`: two promoters recovering one transaction can leave a
  promoted mission without its artifact.
* `registry_break`: two waiters break the lock of a dead process one after the
  other; the second unlinks the lock the first has just made, and a session that
  was added is gone from the index.

Observations of the same models without a run of their own:

* `fail()` ignores who calls it (`manifest.py:579`), so a curator that lost its
  lease can end the live claim of its successor.
* A late command of a cancelled and resumed attempt decides the state of the next
  attempt, because `transition()` does not compare the attempt (`mission.py:563`).
* A raw shard whose last attempt ended in a crash is requeued by
  `requeue_expired` but can never be claimed again (`manifest.py:452`);
  `rescue_stranded` looks at PACKED rows only.
* `complete()` and `mark_deleted()` of a shard without train documents are two
  transactions (`curator.py:297-316`); a trainer can claim the row in between.
* A trainer can drop a shard whose row goes on naming it: `_release` swallows every
  exception of `complete()` (`data.py:226-233`), not only that of the lost lease its
  comment speaks of but also that of a database that stays busy. The shard is then
  trained and not consumed, and comes back when the lease lapses (`ClaimsEnd`).
* "Replays are idempotent" (`curator.py:41`) only while the tokenizer stays the
  same. A shard that is packed again after a retraining overwrites the files of
  rows that were registered with the old tokenizer (`curator.py:252`) before
  `add_shard` raises and the replay fails. The trainer refuses a train file whose
  hash differs from its row; nothing looks at the held-out files.
* `cancel` followed by `resume` takes a blocked mission to READY around the
  preflight (`mission_ledger.py:732`).
* `claim()` of an experiment queue raises at the first pending job that its caller
  proposed (`experiment.py:405`) and so never looks at the jobs behind it, and a
  runner that restarts under its name blocks the takeover of its own expired lease.
* `claim()` takes the live runners as an argument, looked up before `acquire()` reads
  the clock (`closed_loop.py:109-113`), and nothing bounds the time between. A caller
  looks up and pauses; a runner that was down starts, takes the lease, and
  works until it expires; the caller reads the clock, finds an expired lease whose
  owner is not on its list, and takes it. Two jobs then use the GPU, and the release
  of the robbed one is refused for ever (`closed_loop.py:141-142`), so that its outcome
  never lands. With `MaxPause = 2` in `MCExperimentQueue.cfg` TLC finds that trace.
* `MAX_SEEN` leftovers that cannot be moved, and one more, are opened again at
  every drain; and the eviction the comment calls FIFO (`slack_inbox.py:55`) is so
  only within one drain, since the state file is written with sorted keys
  (`slack_inbox.py:138`). An `open_goal` that raises loses what its drain has seen.
* A waiter for the registry's lock file sets its deadline once
  (`registry.py:185`) and not anew when the lock changes hands, so a few calls, each
  shorter than `timeout_s`, suffice for it to break the lock of a living one. The two
  then write whole indexes over each other.
* `evict_idle()` of the registry has no caller outside the tests. A turn that
  begins between its first step and its `drop_kernel()` loses its kernel; a session
  addressed in between is marked idle while it is loaded (`registry.py:446` asks
  only whether the index still says live); a sweep marks a session
  idle that another process uses; a `get()` between the two halves of `mark_done()`
  loads the session again.

## 5. What is proved

TLAPS checks the following for all values of the constants, from the named
ASSUMEs of the modules (limits and caps that are positive naturals, finitely many
missions, NULL and other markers distinct from values).

`ShardManifestProofs` proves type correctness, `ClaimShape`, `HeldOutTerminal`,
`TrainedOnFrozen` and the action properties `LegalMoves` and `HeldOutKept` of
`ShardManifest!MSpec`. None of the invariants is inductive alone: that a train
row carries the frozen tokenizer after `complete` depends on claims being well
formed, and that a held-out row is never claimed on its split not changing after
it was inserted; their conjunction is inductive. The proof has one step per
method, under it one per conjunct the method can disturb. `ClaimShape` is proved
and in no run.

`ShardPipelineProofs` proves, for any curators, trainers, sources and crashes,
`ImplementsManifest`: every step of the pipeline is one call of the manifest with
arguments it may be given, or leaves the rows alone. So what `ShardManifestProofs`
says of `MSpec` holds of the pipeline. The one fact needed besides is `FramesOK`:
what a process remembers in each of its steps, and that nobody works while a
cutover runs. On that rest, each with its own addition:

* `NoForgottenClaim` and `OnlyHolderAdvances`, from `OwnersKnow` (a living curator
  is at work on every row that names it; a trainer can drop one). It is inductive because every call but
  the loud ones (`LoudCurator`, `LoudTrainer`: claim, register, complete) only takes
  names out of rows.
* `SingleFinisher`, from `FinishersArePast`: a shard that some curator has
  completed never gets back to a state from which it is packed, so nobody else can
  be past `complete()` for it. The property alone is not inductive, since it does
  not say that the second curator's `complete()` must fail.
* `HeldOutFilesKept`, from `SplitsKept` and `HeldOutPacked`: a curator that is about
  to register a held-out split has packed it, the janitor has chosen no held-out row
  although it looks at all of them, and once a cutover has cleared the
  rows none is left that offers files.
* `RawSafe` and `PackedSafe`, if `EvictBatch = 0` and the sources are finitely many.
  `JanitorCalm` says that a sweep's choice stays right until it is acted on, because
  what is CONSUMED or DELETED stays so; `RawKept` adds the collector that has
  published and not yet registered; `TrainPacked` is the counterpart of
  `HeldOutPacked` for train rows. Eviction is excluded because it deletes files of
  rows that can still be claimed, which is the finding of `pipeline_evict_race`.

`MissionLedgerProofs` proves `LTypeOK`, `CapacityKept`, `PromotedOnEvidence`,
`ApprovedIsPromoted` and the action properties `ResumeIsFresh` and
`EvidenceAppendOnly` of `MissionLedger!LSpec` (the last is in no run). The
inductive invariant adds two facts: `BusyHasAttempt` (a mission that runs, is
judged or is promoted has an active attempt) and `JournalShape` (what
`_begin_promotion` checked about the names and the evidence stays true of every
entry that can still be used). The second is why a promotion that is finalized
long after it was begun is still earned: provenance is append-only. The steps fall
into four kinds by what they write, each described once (`MissionWrite`,
`EvidenceWrite`, the journal, and the finalization that writes all three); a lemma
per kind shows that it keeps the invariant. Capacity is a counting argument: the
set of busy missions grows only by a claim, by one element, and that claim compared
the count with every limit (`FS_AddElement`, `FS_Subset`).

`MissionRunsProofs` proves that the commands implement the ledger, and
`EvaluatedOnce`, `PassedIfUnhurried`, `ProcessHasSlot` and `RefusedOnlyAfterKill`.
The inductive invariant `RunsInv` says where a frame can be for each state of its
mission (`OnTime`), what its process can be (`ChildShape`), from when to when a
process is recorded (`RecordedShape`), that an attempt is run once and evaluated
once (`OneEach`, `FreshUnused`) and that a passing evaluation has written so
(`JudgedFirst`). Steps are of four kinds: a command goes on (`WorkerMove`), the
operator or a process acts while all commands stay (`OperatorMove`), a run is
claimed, an evaluation is claimed.

`MissionPromotionProofs` proves, for any number of overlapping promoters, that
they implement the ledger (`FramesOK` is enough: a promoter that has started has a
transaction), and for promoters that come one after the other
`PublishedWhenPromoted`, `NothingLeftBehind`, `StagesGone` and `ForeignKept`. The
invariant `PromInv` says what the recovery after a kill relies on: while a
transaction is open, a destination of its own has the inode of its stage
(`OpenIsLinked`), so that "the same inode" finds all of them; the outputs behind a
promoter's counter are published; it removes exactly its own (`WorkShape`). With
`Overlap` this fails at `OpenIsLinked`, which is the finding `promotion_overlap`.

`ExperimentQueueProofs` proves, if `Informed`, that a user of the GPU holds the
lease (`UserHoldsLease`) and that queues, file, clocks and crashes implement
`GpuMutex`. The invariant adds to the types that a dead process has no memory, what
each call under way knows and how old it can be (`PauseIsBounded`), and
`NewcomerIsYoung`: a runner unknown to a claim under way took its lease after that
claim looked up the runners, so the lease is no older than the claim is, and by
`MaxPause < Ttl` it was unexpired at the instant the clock was read.

`SlackInboxProofs` proves `NoMessageLost` and `ImplementsOpenOnce` for any drains,
files, messages and bounds. The invariant `InboxOK`: at most one drain is at work;
its memory holds, without repetition, all that the state file holds; at the move of
a file its message is in that memory. The state file is written with sorted keys, so
`LoadSeen` is a sorted enumeration of a set, defined by CHOOSE; that there is one for
every finite set of numbers is `SortedExists`, by a least counterexample
(`NatLessThanWellFounded`), because the provers cannot do induction on cardinality.

`SessionRegistryProofs` proves that `_busy_depth` counts the turns in flight
(`TurnsCounted`, with the cardinality theorems for adding and removing an element)
and from it `SweepSparesTurns`, for finitely many callers. It also proves
`IndexUntilStolen`: whole indexes read and written back are single moves of single
sessions until a waiter has broken the lock of a living call. The invariant says that,
until then, a living call under the lock is the one that made the lock file and has
read what the index still is. It needs no word about deadlines or about who waits,
because a waiter that breaks what it finds either breaks a dead process's lock, which
harms nobody, or sets `stolen`. That the second case occurs even if every wait ends
in time, when two waiters meet the lock of a dead process, is the finding
`registry_break`.

Only model-checked: the liveness properties `StaleLockBroken`, `DeadReclaimed`,
`SlotFreed`, `EveryMessageHandled`, `OutcomeLands`, `ClaimsEnd` and `CancelledStops`,
since fairness and ENABLED are outside the prover's reach. Every other property of a
passing run is proved, under the assumptions named above; its run shows that they are
met by an instance. No module uses recursion.

## 6. What is left out, and why

* Text, token and metric data; HTTP; hashing of documents and files beyond "the
  same or not". A corrupted file is one that fails its hash.
* SQLite itself: a transaction is atomic and durable. A method that waits longer
  than the busy timeout raises, which is an exception of its caller.
* Windows process handling. Process ids are not reused within a behaviour; the
  code compares start times for that reason.
* Preflight's blockers and the evidence checks before a promotion begins: they
  read and can only refuse.
* The collector's sources and back-pressure, the ranking of evictions, the phases
  of the curriculum: they choose which legal call comes next, and every choice is
  modelled.
* The components marked `not_modelled` in `PROJECT.json`.

## 7. Plan

1. Proofs: what remains of `RawSafe` and `PackedSafe` with eviction: a row without
   its files is one that a sweep chose before it was claimed.
2. `JarvisBoard` (`state.py`): claims, the one item in progress, single-use
   pairing codes.
3. The recovery ladder of the scout harness, then the deduplication database of
   the curator over a shard that is packed again.
