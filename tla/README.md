# SmartOTA-Bench: specifications, checks and proofs

TLA+ modules for SmartOTA-Bench: the operations of an update plan, the replay
engine, the deployment simulator with its checkpoints and A/B slots, the
interruption scenarios, the environment in which agents write plans, the
planners that build whole plans, and what runs all of this: dataset manifests
and the tools that change them, the benchmark suite and its attempt ledger.
TLC checks them on small instances; TLAPS proves for every instance the
invariants of the simulator, the slots, the scenarios, the environment, the
planners and the ledger, and that the simulator implements the replay engine.
`PROJECT.json` lists components, runs, the source lines behind each definition,
hazards, findings and theorems.

Paths below are relative to the repository; `semantics.py` is
`deployment/semantics.py`, `baselines.py` is `evaluation/baselines.py`,
`run_benchmark_suite.py` and the other tools are in `scripts/`.

## 1. Inventory

| Component | State | Operations | Interacts with |
|---|---|---|---|
| Operations, `encoding/operations.py` | none: dictionaries with an `op` | thirteen kinds: keep, skip, backup, copy, delta, raw_insert, append, delete, truncate, verify, rollback, checkpoint, commit | read by replay, simulator, environment |
| Replay engine, `encoding/replay.py` | blocks, snapshot, backups, counters | `apply_operation`, `replay_operations`, `validate_update` | says whether a plan is *correct* |
| Deployment simulator, `semantics.py` | image, snapshot, backups, install state, errors, rollback readiness, unsafe overwrites, checkpoints, resource counters and peaks | `apply_operation`, `interrupt`, `restore_checkpoint`, `rollback`, `complete`, `simulate_deployment` | says whether a plan is *feasible* |
| A/B slots, `semantics.py:623-794` | active and inactive slot and version, boot counters, verdict, flags | finalization from `complete` | writes the simulator's image, errors and state |
| Interruption scenarios, `baselines.py:737-1005` | a simulator, the plan, the cut, the strategy | cut, resume from a checkpoint, roll back and install again, costs | drives simulators and replay |
| Planning environment, `env/ota_env.py` | target blocks still pending, virtual index of backups, a simulator, the plan so far | one handler per action, legacy actions, action mask, rewards | writes plans |
| Planners, `baselines.py:28-731, 1008-1208` | a working image, saved blocks, a list of operations; for the greedy one a simulator and its clones | eight builders of whole plans, six policies that choose the next action | read old and new image, write plans, deploy them |
| Attempt ledger, `run_benchmark_suite.py` | one row per attempt, the result rows, four output files | matrix of attempts, run, classify, filter learned results, mark, write | loads manifests, runs planners; `make_paper_reports.py` reads the files |
| Dataset manifests, `datasets/manifest.py`, `register_dataset_artifacts.py`, `download_dataset_artifacts.py` | manifest, files on disk | validate, load, register, download | feeds the suite |
| Derived artifacts, `derive_alpine_rootfs_artifacts.py` | archives and a manifest of its own | unpack, pack, describe | reads one manifest, writes another |
| Generators, fixture builders, reports, audit | none | one-shot conversions | - |

Each program is sequential.  What makes it hard is not threads but histories: a
device may lose power between any two operations, be restored to any earlier
checkpoint or rolled back, go on, commit in the middle, be refused, and commit
again; every one of some forty fields has to be right after every such history,
and the tests follow a handful of them.  The same holds for the files: tools are
started in any order, over what earlier ones left, and may stop between any two
writes.

What makes each component correct:

* *replay*: a cut keeps exactly the bytes in front of it, whatever the blocks
  are; the reported peak covers the image, as far as writes refresh it.
* *simulator*: it does to the image what replay does; rollback readiness means
  that the old image can be had back; peaks and violations cover what was
  stored; checkpoints are in order, survive restores and are complete enough to
  go on from.
* *slots*: the running version is the old one until a healthy boot of the
  expected one; activation is whole or does not happen.
* *scenarios*: recovery ends where an uninterrupted installation ends, loses
  less than one checkpoint interval, costs the repeated work and happens
  whenever it is possible.
* *environment*: what the mask allows, the action accepts; the working image is
  the image of the device; a finished episode has installed the target.
* *planners*: the plan installs the target, reads no block after it was
  overwritten, and backs up before it overwrites; what is only tried leaves no
  trace; readiness to roll back is given up for a budget and for nothing else.
* *manifests*: what a manifest declares of an enabled pair is complete, what a
  download reports as done is what the manifest declares, and a suite measures
  nothing else.
* *ledger*: the rows of attempts and the rows of results account for each other
  in the files of one suite, and a learned result is reported only beside a
  deterministic one it was compared with.

## 2. Modules

| Module | Models | Lines of code behind it |
|---|---|---|
| `Blocks` | images as lists of byte blocks and the conversions both interpreters use | `replay.py:99-137`, `semantics.py:222, 549-560, 607-617` |
| `Operations` | the kinds of operation, sources, digests, backup areas | `operations.py`, `replay.py:140-166` |
| `Replay` | the replay engine, the abstract specification of the simulator | `replay.py:40-307` |
| `Deployment` | the simulator with slots | `semantics.py` |
| `ReplayAgreement` | the simulator implements the replay engine | both |
| `Recovery` | a simulator driven through an interruption scenario | `baselines.py:737-1005` |
| `Environment` | an agent writing a plan, deployed as it is written | `env/ota_env.py:216-420, 678-1148, 1247-1271` |
| `Planners` | the eight operation baselines and the deployment of their plans | `baselines.py:140-693, 1119-1208` |
| `Policies` | a plan from a baseline, an action policy or an agent | `baselines.py:28-123, 1008-1116` |
| `Manifest` | manifests, files, registration, download, derivation | `datasets/manifest.py:110-442`, the three tools |
| `Suite` | the matrix of attempts, ledger, filter and output files over `Manifest` | `run_benchmark_suite.py:219-595, 638-651, 753-775` |
| `MCOperations`, `MCDeployment`, `MCReplayAgreement`, `MCRecovery`, `MCEnvironment`, `MCPolicies`, `MCSuite` | values, plans and bounds of the runs | - |
| `SequenceFacts` | lemmas on naturals and flattened sequences | - |
| `DeploymentProofs` | lemmas on the operators of `Blocks` and `Operations`; type correctness of `Deployment`; order and survival of checkpoints, overwrite records, peaks, RAM violations, protection of the old image; the version of the active slot, whole activation; operations as functions of the device | - |
| `AgreementProofs` | the refinement, cuts, peaks in blocks and against budgets | - |
| `RecoveryProofs` | losses, checkpoints against the plan, resumed and reinstalled devices, what is downloaded again, activation after recovery | - |
| `EnvironmentProofs` | types of the environment, masked actions and the simulator, the working image and the device, finished episodes, readiness to roll back | - |
| `PlannerProofs` | plans of the eight planners reproduce the new image, and stay revertible | - |
| `GreedyProofs` | the trials of the greedy planner leave no trace; it keeps rollback ready while there is room | - |
| `SuiteProofs` | what the source manifest describes, the accounts of the ledger, the learned rows, what is measured and what is downloaded | - |

`Recovery`, `Environment` and `Planners` extend `Deployment` and use its
actions on one simulator state; `Policies` puts `Environment` and `Planners`
together, `Suite` extends `Manifest`.  `Suite` takes the result of a run as one
of `Outcomes`: what a run can end in is the subject of the other modules.
`ReplayAgreement` extends `Deployment` and instantiates `Replay` with a
refinement mapping.

### How the code becomes actions

One action per operation kind: `Keep`, `Backup`, `Copy`, `Delta`, `RawInsert`,
`AppendBlock`, `Delete`, `TruncateToBytes`, `TruncateToBlocks`, `Verify`,
`TakeCheckpoint`, `RollbackToSnapshot`, `RollbackToBackup`, `Commit`.  Each is
the whole of `DeploymentSimulator.apply_operation`: download and staging, the
operation, the count, the automatic checkpoint, the reset of staging, the peak
and the budget check.  That frame is written once, `Perform(op, e)`, and an
operation says in the record `e` what it assigns, the levels at which it
refreshes the peak (`refreshed`) and those at which it checks the budget
(`checked`), because the code does the two at different moments.  `Fail(op)` is
the same call when the operation raises: the download stays, nothing else
happened, since every operation checks before it writes (`Applicable`).

`Interrupt`, `Complete`, `RollbackInstall` and `Resume(i)` are the other
methods.  `complete` is both an operation (`Commit`) and the end of a plan;
`Completion(state)` is its effect, including `_finalize_ab_update` and
`_finalize_active_slot_update`.  `UpdateSpec` is what `simulate_deployment`
does; `Spec` is the whole interface: after an interruption a device is rolled
back or restored from *any* of its checkpoints.

In `Recovery`, `phase` is the position in `simulate_interrupted_update`, `pos`
the position in the list of operations; `runs` keeps the fresh device, the
device after the uninterrupted baseline and the device at the cut, for the
comparisons; `prefixes` keeps image and backups after each operation of the
baseline.

In `Environment`, an action of the agent is its handler up to the operation it
records; `pc` is the position in `step()` when an action records two operations
(the backup of `MB` and what `modify` chooses) or ends the episode (the cut of
`_finalize_structured_update`, then `complete`).  `Record(op, next)` is
`_record_operation`: the simulator takes the operation and the handler goes on,
or it raises and `pc` is `"raised"`, with what the handler had changed before
left changed.  `actions` is the set of actions an agent uses; agents choose any
of them that `Mask` allows, for any pending target.

In `Planners`, `stage` and `next` are the position in `_run_operation_baseline`
and in the loop over target blocks, `draft` and `saved` the `current_blocks`
and `backups` of a builder.  One step plans one block, with the backup and the
operation chosen for it; the cut to the new size ends a plan, `limit` is
`max_steps`, and the plan is deployed operation by operation on a fresh device.
The greedy planner has a simulator: `TryOperation` applies an operation of a
candidate to a clone, `JudgeCandidate` compares the score of the clone and goes
back to the simulator (`sim.planned`), `AdoptOperation` applies the best one.
`Policies` adds the action policies: `Offered` is what a policy may choose.

In `Manifest`, a file is a path and its content, of which size and hash are
functions.  `job` holds the tool that runs and its local variables; every write
to a final path is a step (`BeginFetch`, `EndFetch`, `DeriveFile`,
`BeginManifest`, `EndManifest`), and `Stop` may come between any two.  An input
that a tool refuses before it has written anything is an action that is not
enabled.  In `Suite`, `jobs` is the matrix flattened into the order of the
loops of `run_suite_with_attempt_ledger`, `ledger` and `results` are its local
lists, `outputs` the four files, each with the suite that wrote it.

### What is abstracted

* Times are left out: each is a sum of bytes over a rate.  `network_bytes` is
  left out of `Deployment`: every statement that changes `package_size_bytes`
  changes it alike; `Recovery` uses `package` for it.
* A digest is the value it digests.  A bsdiff4 patch is the block it was made
  from and the block it yields; applied to another block it fails (in the code
  a patch for another block raises, or yields a block that the digest of the
  operation refuses).  Other codecs always fail, as in the code.
* `metadata_overhead_bytes` is the constant `Overhead`; payload sizes are the
  lengths of the data, and one byte per patch in the runs.
* The cut of a scenario is an exact percentage, rounded up; the code rounds the
  product of two floats up, which may be one more (100 operations and 0.07).
  Both keep the bound that the properties use: one operation is left.
* Error messages are kinds; `pending_activation` (set and cleared in
  one call) and `current_ram_bytes` (likewise) are left out.
* `staging_strategy` is one of the two that exist; block indices and sizes are
  not negative; `backup_id` is always given.
* In `Environment`, rewards, observations and the textual encoding are left out,
  and the recorded plan, which is what the simulator accepted.  Which block
  counts as most similar, or gives the smallest patch, is a free choice among
  the blocks of the old image.  An explicit truncation size, backup name or
  digest in a payload is not modelled; `reset` is the initial state.
* The trial rollback before a recovery is decided runs on a copy and succeeds
  whenever `rollback_ready` holds; the code's copies of the simulator are one
  state, since each is used only from where the last one was left.
* In `Planners`, the length of a patch is chosen freely for each pair of blocks
  (`PatchSizes`); the order of candidates and the times in a score matter only
  among equal scores, where the model takes either; the weak checksum of rsync
  is left out, the strong one deciding after it.
* In `Manifest`, tools run one at a time.  Formats of fields and what
  `--dry-run` prints are left out; a torn manifest is not readable; a part of a
  content stands for all its proper parts.  A server may return any published
  content.  Domain and addresses of a pair are constants (`Real`, `HasUrl`):
  registration with `--domain`, `--old-url` or `--new-url` is left out.  Registration and download are of the source manifest, suites of the
  source or the derived one.
* In `Suite`, result rows are a set whose members carry their index, and a row
  keeps the contents that its attempt read.  Metrics are one flag, `better`: a
  learned result improves on or complements the deterministic ones.  Of the
  rows of a file left open nothing is said.  A manifest is its own identity; the
  code compares by `manifest.name`, so two manifests of one name would share
  comparison keys.

## 3. Runs

The alphabet has two bytes and a block two, so that blocks can be full, short
or empty, and in `agreement` longer than a block; images start with two blocks (`in_place` and `agreement` also with three, the
last one short, and with none); two backup names.  Plans are made of one or two
operations of every kind needed, with arguments that make them meet: the same
block saved, overwritten, read and rolled back, indices at, on and behind the
end, and operations that fail.  A run with three operations already has every
pair of kinds with a checkpoint, a cut and a restore between them; the
properties relate at most two operations and one restore, and the runs with
four operations add one more.

| Run | Shows | Distinct states |
|---|---|---|
| `every_kind` | types; order and survival of checkpoints; overwrite records; peaks and RAM violations; slots with a capacity that some candidates exceed and contents that some lack: over all kinds, with a checkpoint every two operations and restores from any checkpoint | 51,373 |
| `in_place` | `ReadyMeansProtected` for plans that move no blocks, three old images, four operations; the slots when boots fail twice | 94,752 |
| `agreement` | the simulator on one slot implements the replay engine, over all kinds and over plans that write the whole image as one block and cut it; cuts and peaks of every image reached; every peak above a budget is reported when the package is staged whole | 177,645 |
| `recovery` | every plan of at most four operations out of eight, cut at 0, 25, 50, 75 and 100 percent, checkpoint every three: the resumed or reinstalled device ends as the uninterrupted one, whenever it is possible, at the cost of the repeated work | 126,584 |
| `recovered_slots` | plans of at most four operations, commits included, with verification in the active slot: a recovered update whose plan commits at the end, if at all, is activated | 24,590 |
| `policies` | eight planners, six action policies and three agents that mix structured actions, on old images that are empty, shorter, as long and longer than a target with a short last block, with and without `max_steps`: plans reproduce the target, backup-safe plans stay revertible wherever they are cut, trials leave no trace, readiness is kept while there is room; masked actions are accepted, the working image is the device, finished means transformed, legacy plans keep the old image recoverable | 41,679 |
| `suite` | three starts of the four tools on two pairs that share a file, from no files or from the files shipped: registrations with and without provenance, downloads of any content with and without `--force`, derivations, suites of two policies of one name; what is declared, downloaded, measured and accounted for, with a stop between any two writes | 609,208 |

The runs of `Deployment` and `Environment` stop at `MaxOps` operations or at a
final state, those of `Planners` when a plan is deployed, `suite` after
`MaxRuns` starts, so deadlock is not checked: simulator and tools may be left
alone at any point.  `MaxOps` in `Recovery` is twice the length of the longest plan,
enough for two complete installations, so it never cuts a scenario short.
`MaxSteps` in `Environment` is
one more than the target image has blocks, so an episode can process all of
them and do one thing else between or before.  `MaxRuns` is three because the
histories that matter are of that length: something is left behind, something
else declares or repairs it, a suite measures it; for the ledger, two suites of
which the second stops.  `MaxAttempts` bounds the attempts of a suite times its
number, so that the first may have two pairs and a second one still runs.  The
storage budget of `policies`, 13, holds what an update that saves its blocks
takes (`Room`) when the old image is empty or has one block, 9 and 11, and not
when it has three or four, 15 and 18: the greedy planner has to choose on the
longer images, and must not give up readiness on the shorter ones.

Hypotheses that the runs put on a property, and why:

* `GreedyKeepsReadyWithRoom` is about streaming, no RAM budget and a storage
  budget with room for all old blocks beside the image: within a budget that
  lacks it the score prefers no violation to readiness, on purpose.
* `SavingPoliciesStayReady` is about an old image with as many blocks as the
  new one: legacy actions save a block before they overwrite it, but the final
  cut of a longer image removes blocks that no action was about.
* `DownloadsVerified` supposes that the pairs processed do not declare
  different contents for a file they share; with `--force` the second would
  replace what was verified for the first.
* `LedgerAccounts` is about a ledger and result rows of one suite.  After a
  crash between the two files they are of two suites, and the report, which
  compares the number of rows (`make_paper_reports.py:609`), need not notice.
* `ReadyMeansProtected` is about plans without `delete` and byte cuts: marks and
  backups name indices, and those two move blocks to other indices.
* `PeakBlocksCover` has one exception.  `full_replacement` and
  `whole_file_bsdiff` write the new image as one block, longer than
  `block_size`, and cut it to its size; that cut makes it many blocks, and a cut
  does not refresh `peak_blocks`.  So the image may have more blocks than the
  peak from a cut at a byte that follows a write of a long block until the next
  write or rollback, and at no other time (`LongBlockCut`).  `agreement` has
  such writes (`WithLongBlocks`) and reaches such images: from two old blocks to
  a new image of three, the last one short, a `full_replacement` has peak 2.
  Nothing in the repository reads `peak_blocks`.
* `PeaksReported` is about full-package staging, and about histories in which no
  saved block is written back.  `streaming_budget` shows why for the first; for
  the second, `rollback` empties the staging area after the write has raised
  the peak and before the next check.
* `RecoveredMeansActivated` is about plans that commit at the end, if at all.
  A commit in the middle may be refused and the next operations repair the
  image; resumed from before the commit, the scenario is reported recovered
  although the slots, which count as finalized, were never switched
  (`stale_finalize`).
* `ResumeMatchesUninterrupted` is about streaming and one slot: full-package
  staging is lost with the power, so the peaks differ, and the A/B fields are
  not part of a checkpoint (`stale_finalize`).
* `CheckpointsIndexPlan` excludes scenarios that reinstall: `rollback` keeps
  `applied_operations`, so the checkpoints of a reinstallation are numbered on
  from the first attempt and index no position of the plan.  A scenario is cut
  once, so the code never resumes from such a checkpoint.
* `ActiveSlotTrusted` speaks of the version of the active slot, not of
  `installed_blocks`: operations are accepted after a commit and may change the
  image afterwards.
* The properties of `Environment` hold for agents that are `Handled`: no mix of
  legacy and structured actions, and no legacy action on an image that grows.
  `virtual_index` shows why for the second.  The first: a structured backup
  enters its index in `_backup_index_to_id`, and a legacy action that finds its
  source at that index after it was overwritten reads the old content; and a
  structured copy names a virtual index of `MB` as an installed one.  `delete`
  and `backup` take an index of their own in the model; an integer action gives
  them the pending target, which `delete` always refuses although the mask
  allows it.

**Fairness** is assumed nowhere, and no liveness is checked: the programs are
loops over finite lists that wait for nothing, so that they end follows from
their shape.

**Variants.**  A definition may be preceded by a variant that nothing uses: the
definition with a plausible mistake.  Each property of each passing run is
violated, in that run, by at least one variant put in place of its definition:

| Module | Variants |
|---|---|
| `Blocks` | `BytesToFullBlocks`, `BytesToBlocksAndOne`, `HolesUnclamped` |
| `Operations` | `SaveBlockOnly` |
| `Deployment` | `UnprotectedByAny`, `ExceededStorage`, `ExceededRam`, `EarlyCheckpoint`, `TakesCheckpointLate`, `RollbackWholeImage`, `RefusalBySize`, `BootsOnceMore`, `FinalizesAfterCommit`, `RefusalInPlace`, `SwitchInPlace`, `KeptAll`, `KeptNone`, `StoredPeak` |
| `ReplayAgreement` | `GrowsByAppend` |
| `Environment` | `LastBackupId`, `InstalledReference`, `NextIndex`, `FinalizeKeepsTail` |
| `Planners` | `CopySourcesInOldImage`, `TailNotSaved`, `NeverTooLong`, `ScoreWithoutRollback`, `TriedInPlace` |
| `Policies` | `ActionForChanged` |
| `Manifest` | `AsDeclaredOld`, `RenderedUnchecked`, `SkipAnyExisting` |
| `Suite` | `KeyWithoutPair`, `LedgerFirst` |
| `Recovery` | `NextAfterCheckpoint`, `RollbackAndContinue`, `LastRunNetwork` |

`PROJECT.json` (`mutants`) says which property notices which.

### Where code and expectation part

Five runs end in a counterexample, and are kept as such:

* `backup_twice`: `backup` replaces what is saved under its name.  Save block
  0, overwrite it, save block 0 again: the old content is gone and
  `rollback_ready` still holds.  What holds is the weaker
  `ReadyMeansProtected`, a backup *from that index* exists.
* `streaming_budget`: with streaming, `_write_block` raises the peak while the
  payload is staged and staging is cleared before the next budget check, so
  a peak above the budget is reported without a violation.
* `stale_finalize`: the A/B fields are not part of a checkpoint.  A commit that
  is refused or does not boot, then a power cut and a restore from before the
  commit: the slots count as finalized, nothing is booted, and the update is
  complete although health checks always fail.
* `virtual_index`: old image A, new image C, A, and MB on both targets (the
  policy `sequential_mb`): the A saved for the first target has index 1 of the
  working image, so the second is taken to be in place and is recorded as a
  keep, which the simulator refuses; by then the target counts as processed.
* `cut_after_rollback`: a commit marks all targets processed even when its boot
  failed and the old image came back; the end of the episode then cuts that
  image to the size of the new one.

## 4. Proofs

The theorems about the simulator hold for every value of the constants that
satisfies `BlockSizeAssumption`, `OperationsAssumption` and
`DeploymentAssumption`: any alphabet, block size, set of plans, old images,
budgets and configuration.  The configuration must also satisfy
`RecoveryAssumption` in `RecoveryProofs`, and `EnvironmentAssumption`,
`PlannersAssumption` and `PoliciesAssumption` in `EnvironmentProofs`,
`PlannerProofs` and `GreedyProofs`; a further hypothesis is named in the
theorem it belongs to.  Those of `SuiteProofs` rest on `ShippedValid`, the
source manifest is valid at first, and on `SuiteAssumption`, a result with
errors is not valid and a suite names manifests: any pairs, files, registrations, servers, settings,
policies and outcomes.

* `TypeCorrect`: `Spec => []TypeOK`.  `TypeOK` says of a checkpoint that each
  of its fields has its type; the invariant that is inductive, `TypeInv`, puts
  checkpoints in one set `CheckpointSet` whose backup areas are finite
  functions.  The argument goes through `Effect`, the set of well typed effect
  records: every operation performs an effect of that set (`SucceedPerforms`,
  one lemma per operation) and performing one preserves the types
  (`PerformType`).  It rests on the lemmas at the start of the module and on
  `SequenceFacts`: that flattening, cutting, writing and deleting return images,
  that finite sets of levels have a maximum, that a backup area stays one.
  `FlattenSeq` and `Max` are the community modules' definitions, with `CHOOSE`
  and recursive functions, so their lemmas, and those on `FoldLeft` in
  `RecoveryProofs`, are proved from the least element of a set of naturals
  (`NatMin`, `JoinedExists`).
* `CheckpointsOrdered`: `Spec => []CheckpointOrder`.  Inductive together with
  `TypeInv`: an operation appends a checkpoint numbered `applied + 1` and no
  earlier one is ahead of `applied`; a restore from checkpoint `i` keeps
  exactly the first `i` (`ResumeKeeps`, where the order itself is needed to see
  that the filter of the code keeps a prefix).
* `OverwritesCorrect`, `PeakCorrect` and `RamCorrect`: `OverwritesAccounted`,
  `PeakCoversStorage` and `RamBudgetReported` always hold.  The three are proved
  together (`ReportsCorrect`).  The last is not inductive: a restore brings back the
  peak and the violations of a checkpoint, so the checkpoints must satisfy it
  too (`RamAccounted`), and restores need `CheckpointOrder` to stay among the
  checkpoints known to satisfy it.
* `CheckpointsKept`: `CheckpointsSurvive`, an action property, from the same
  invariants.
* `ReadyProtects`: `[]ReadyMeansProtected` under `InPlacePlan`: no `delete` and
  no byte cut, and backups of one name are of one index.  The hypothesis is on
  the set of operations, and is that of the run.  What is inductive says the
  same of every checkpoint, and that a name tells the index it was saved from
  (`NamesTellIndex`): without it a second backup could take the protection of
  another block away.
* `SlotsTrusted` and `ActivationAtomic`: `[]ActiveSlotTrusted` and
  `AtomicActivation`.  Inductive is the first with `Untouched`: slots that are
  not finalized have booted nothing, or a first finalization could add to
  reboots counted before.  The lemmas follow the cases of
  `_finalize_ab_update`: refused before the boot, not booting, booting.

**Agreement.**  `DeploymentImplementsReplay`: without A/B slots,
`AgreementSpec => DeploymentIsReplay`.  A step of the simulator is the replay
step of the same operation (`SucceedYields`, from what an effect record writes),
a failure is a failure of the replay for the same reason, and everything else
is a stutter; the invariant beside it is that what stopped the one has stopped
the other (`StoppedFails`).  `ReplayTypesCorrect` needs no hypothesis.
`CutsExact` and `CutsNormal` hold of every image the types admit, and are where
the arithmetic of full and short blocks is proved.  `PeakBlocksCorrect` holds
for every plan, those that write a whole image as one block included, and
supposes of the old images that they were read block by block (`ImagesFit`).
`PeakInv` strengthens it by the snapshot, to which a rollback returns without a
refresh, and by what makes the exception the only one: until a long block is
written every block of the image and of the backups fits (`SucceedFits`), and
then a cut leaves no more blocks than it finds.  `PeaksReportedCorrect` supposes one
slot, full-package staging and an old image within the storage budget
(`ImagesInBudget`; a simulator checks budgets at operations only, so the image
it starts from is not checked).

**Scenarios.**  All safety properties of `Recovery`, for every plan, cut,
interval and image.

* `LossBounded` (no further hypothesis): `LossInv`, while a plan is installed
  the last checkpoint is at most `applied % CheckpointInterval` operations back.
* `CheckpointsRight`, `RecoveredIffPossible`, `ReinstallMatches` (one slot) and
  `ResumeMatches` (one slot, streaming) compare two or three runs of a plan.
  Their invariant is `Traceable`: there is a trace `t` of states, `t[k]` the
  device after `k` operations of the plan from a fresh one, as far as the plan
  can be applied, and `Place` says for each phase of the scenario where the
  device stands beside that trace.  The baseline and the installation walk
  along it.  A recovering device follows it (`Follows`): it has the same image,
  errors and readiness, what it paid before on top, and besides the backups of
  the trace those it brought from the first attempt (`Overlay`).  That a backup
  which only the recovering device has is read by no operation the trace can
  do, and is saved again before the end, is what makes reinstalling right.  A
  resumed streaming device differs, until its next operation, in its install
  state and in a violation that the next check reports again (`Alike`).  The
  operations are written once more, as functions of the device
  (`EffectOf`, `Possible`, `Result`, in `DeploymentProofs`), and shown to be the
  actions of `Deployment`.
* `ExtraRepeats` (one slot): `ExtraIsRepeatedWork`.  The trace pays for each
  operation its download, so two devices of it differ by the downloads of the
  operations between them (`TracePaid`), and a resumed or reinstalled device has
  paid on top what `Follows` says.  The sum is the fold of the community modules:
  that it is what paying step by step comes to is `DownloadsAdd`, from the
  existence of the function on sets of numbers by which `FoldLeft` is defined
  (`SumsExist`), both by the least number that would be a counterexample.
* `RecoveredActivated` (A/B slots): `SlotsLeft`, until the recovery nothing is
  finalized, by `CommitsLast`; after that the slots are finalized at the last
  operation or at the end, and `Judged` says that finalized slots are healthy
  or the update failed.

**Environment.**  All properties of `Environment` and `Policies` but those that
a run refutes, for every agent, action policy, old and new image, patch and
`max_steps`.  `ImagesRead` says that old and new images are as `read_blocks`
makes them (`ota_env.py:122-123`, `:682`): full blocks, but perhaps the last.
`SlotFits`: the new image is not larger than the inactive slot; a commit that is
refused for its size leaves a failed device, which refuses the final cut, and
the code raises.  `Activates`: besides, the health check passes (with
`forced_fail` the old image comes back, as it should).

* `EnvTypeCorrect`: `PolicySpec => []EnvTypeOK`, from `EnvTypeInv`, which also
  says what `current` holds while an action is in progress.
* `WorkingImageTracked`, `MaskedAccepted` (`SlotFits`): `WorkingTracksDevice` and
  `MaskedStepsAccepted`.  Structured and legacy agents need different
  arguments.  `MirrorInv`: the working image of a structured agent *is* the
  image of the device at every point of `step()`, and the simulator raises for
  nothing that the mask and the handlers let pass (one lemma per action).
  `LegacyInv`: behind the image of the device the working image has one virtual
  block for each backup of `MB`, in order, `idOf` names the backup of each, and
  different virtual indices name different backups, since the name counts the
  steps.  That the virtual index of a source is the one whose backup holds its
  block at the time the operation is recorded, though `MB` saves a block first,
  is `LegacyBackup` between the two.
* `LegacyPlansRevertible`: `LegacyPreservesRollback` for every agent and action
  policy.  In `LegacyInv` every backup holds the block of the old image that
  its name says; it is there because a legacy agent saves a target only
  before that target was written.  Plans of baselines, which have no environment, are the
  subject of `BackupSafeRevertible`.
* `FinishedTransformed` (`Activates`): `FinishedMeansTransformed`.  `ProgressInv`:
  the blocks that are no longer pending are those of the new image, whatever
  was cut, deleted or appended at the tail; `EndInv`: when the episode ends, the
  device holds the new image after the final cut (`CutToExpected`), and the
  commit accepts it.
* `SavingPoliciesReady`: `SavingPoliciesStayReady`.  `ReadyInv`: what
  `modify` is about to overwrite was saved in the same step, or is what the
  new image has there.

**Planners.**

* `PlansReproduce` (`ImagesRead`, `Activates`): `PolicySpec =>
  []PlansReproduceTarget`, for all eight planners at once.  `Mix(old, d)` is the
  image of which the first `d` blocks are done.  `Right(old, plan, d)` is about
  the plan alone: it does the blocks 0 to `d - 1` in this order, each operation
  reads an installed block that is not done yet or done as the operation
  needs it, or a backup that an earlier operation of the plan has saved, with
  the content the operation expects.  What the first
  `k` operations of a right plan leave on a device is determined, `Executed`,
  and operation `k + 1` is applicable there (`Holding`): this is where a planner
  that reads a block it has overwritten would fail.  The builders keep `Right` for their drafts
  (`DraftInv`), the greedy planner for the plan with any candidate it tries
  (`Good`, `GreedyInv`), so its trials and adoptions never raise and at least
  one candidate is judged; the deployment follows the plan (`DeployInv`).  The
  cut comes last (`CutLast`), and leaves the bytes of the new image since the
  blocks in front of it are done.  The two planners that write the image at
  once are followed literally (`WholeInv`).
* `BackupSafeRevertible` (`ImagesRead`): `PolicySpec =>
  []BackupSafePlansRevertible`.  `KeptInv`: while a device is ready, every old
  block is in place or saved, and every backup of an old index holds the old
  block: a plan saves a block once (`SavesOnce`), and a block not yet saved of a
  device still ready is the old one.  The backup-safe plan saves every old block that it changes before it does so (`Guarded`) and
  those behind the new image (`TailSaved`); that no overwrite of such a plan is
  unprotected, the cut included, is `CarefulWrites` and `CarefulCut`.
* `TrialsTraceless` (`ImagesRead`): `PolicySpec => []TrialsLeaveNoTrace`.
  `TraceInv`: there is a trace of devices, each the `Result` of the next
  operation of the plan on the one before, from the fresh device to the
  simulator of the planner.  A trial leaves it alone, an adopted operation makes
  it longer, and the deployment follows it.  That no adopted or deployed
  operation is refused is in the invariant of `PlansReproduce`.
* `GreedyReady` (`ImagesRead`): `PolicySpec => []GreedyKeepsReadyWithRoom`, with
  the hypotheses of that property (section 3) and no others: any patch sizes,
  any order of the candidates, any way to break a tie.  `RollbackKept` follows
  the search.  Among the candidates for a block, or for the cut, there is a
  `Witness`: it writes no patch and the plan with it saves every old block
  before it changes it (`TargetWitness`, `CutWitness`).  Such a candidate stays
  ready and, as storage has room for its backups beside the image (`Room`),
  adds no violation (`TriedReady`), so its score begins with two zeros.  The
  score of the best candidate then does too, whatever the other five parts
  are and whichever of two equal ones is taken (`FirstScores`), and its trace ends
  ready.
  The invariant says as much of the best candidate found so far, of the one on
  trial, and of those left; besides, that a device still ready has saved each
  old block its plan changed (`GuardedTo`, `ReadyGuards`), which is why the next
  search has a witness again.  The deployment is ready at each operation since
  readiness that is lost does not come back (`ReadyBefore`) and the trace of
  `TrialsTraceless` ends ready.

**Suite.**

* `Described`: `SuiteSpec => []EnabledPairsDescribed`.  Only `register` writes
  the source manifest, and what it is about to write was validated when it
  started (`PendingValid`); the write in between is torn.
* `LedgerAccounted` and `LearnedCompared`: `LedgerAccounts` and
  `LearnedRowsCompared` always hold, by one invariant, `LedgerInv`.  While
  attempts are made, row `i` is attempt `i` and every result belongs to the row
  whose status it has (`Tracked`); from this the filter makes rows that account
  for the results left (`FilterAccounts`: the numbers agree because the index
  is a bijection from written results to marked rows), and no deterministic
  result is dropped, so a learned one keeps the one it was compared with
  (`FilterCompared`).  While files are written, each file of the list is still
  of an earlier suite, open, or holds what the suite holds (`Writing`), so a
  closed ledger of the same suite as the result rows is the last of four.
* `DeclaredRun`: `SuiteSpec => []RunsWhatIsDeclared`.  `ShapeInv` gives every
  readable manifest, and what is about to be written as one, entries with two
  files and two contents.  While a suite runs, its attempts are `GoodCell`s, on
  enabled pairs of manifests that load (`MatrixGood`, which needs that
  flattening keeps the elements), and neither manifests nor files change, so
  the contents an attempt finds are those declared (`GoodInputs`).
* `DownloadsCorrect`: `SuiteSpec => []DownloadsVerified`.  `Fetched`: a file of
  a chosen pair is left to do, or is as declared, or has the path that is being
  written.  In the last case the file that is fetched decides for it, because
  the pairs agree on shared files; that all files of the chosen pairs are left
  at first is `SelectionCovers`.

Every property of the passing runs is proved, on its hypotheses; what remains
with the model checker is what the five violation runs refute.

Definitions are written so that the provers can use them: `NameBlock` and
`Ascending` say what they do instead of using `:>`, `@@` and `SetToSortSeq`,
of which the provers know nothing.

## 5. Plan

Order of work; all of it is done.

1. `Blocks`, `Operations`, `Replay`: meaning of plans.
2. `Deployment`: simulator and slots.  Runs over all kinds, budgets, slots.
3. `ReplayAgreement`, `Recovery`: refinement and interruption scenarios.
4. `DeploymentProofs`: types, checkpoints, reports.
5. `Environment`: agents that write plans.
6. `Planners`, `Policies`: builders and policies that write plans.
7. `Manifest`, `Suite`: registration, download, derivation, attempts, ledger
   and output files, with failures between the steps.
8. `SuiteProofs`.
9. `AgreementProofs`, `RecoveryProofs`, in `DeploymentProofs` slots, what
   survives and what is protected, in `SuiteProofs` what is measured and
   downloaded.
10. `EnvironmentProofs`, `PlannerProofs`, `GreedyProofs`.

Not modelled, and not planned: synthetic data generation, the two builders of
fixtures, tables, plots and audit of the reports, metrics output, the training
and inference of learned policies.  They keep no state, or only files written
once and read by no other part; a model would repeat their arithmetic.
`run_baselines.py` runs the same policies on one pair or manifest and writes
their results to an output directory, as JSON lines and CSV, without a ledger.
