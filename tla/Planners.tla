------------------------------ MODULE Planners ------------------------------
(***************************************************************************)
(* The planners of evaluation/baselines.py that build a whole plan, the    *)
(* OPERATION_BASELINES, and _run_operation_baseline: a plan is built over  *)
(* a copy of the old image, one target block of the new image after the    *)
(* other, cut to max_steps operations, and deployed on a fresh device.     *)
(*                                                                         *)
(* deployment_aware_greedy plans on a simulator: it tries every candidate  *)
(* for a block on a clone, scores what the clone reports, and applies the  *)
(* best one.  Its simulator, the clones and the device that the plan is    *)
(* deployed on are here one DeploymentState, which is given back the state *)
(* of the simulator after a trial and that of a fresh device at the end.   *)
(*                                                                         *)
(* The size of a bsdiff4 patch is chosen freely for each pair of blocks,   *)
(* and the weak checksum of rsync is left out, the strong one deciding.    *)
(***************************************************************************)
EXTENDS Deployment

CONSTANTS
  Planners,      \* the planners of a run
  PatchSizes,    \* the sizes that a patch may have
  StepLimits     \* the values of max_steps, NoLimit for None

PlannerName ==
  {"full_replacement", "whole_file_bsdiff", "blockwise_bsdiff", "copy_only",
   "copy_delta", "backup_safe_copy_delta", "deployment_aware_greedy",
   "rsync_rolling_hash"}

(* _backup_id, a name of the pairs that the environment uses too.          *)
BackupName(i) == <<-1, i>>

ASSUME PlannersAssumption ==
  /\ Expected # NoImage
  /\ Planners \subseteq PlannerName
  /\ PatchSizes \subseteq Nat /\ PatchSizes # {}
  /\ StepLimits \subseteq Nat \cup {NoLimit}
  /\ \A old \in InitialImages : \A i \in 0 .. Len(old) : BackupName(i) \in BackupId

VARIABLES
  planner,   \* policy_name
  stage,     \* the part of _run_operation_baseline that is running
  next,      \* target_index, then the operations of the plan deployed
  plan,      \* operations
  limit,     \* max_steps
  draft,     \* current_blocks: the image that the plan leaves
  saved,     \* backups: the blocks saved by the plan, by their index
  search,    \* the candidates of the greedy planner
  sim        \* the fresh device, and the simulator of the greedy planner

planning == <<planner, stage, next, plan, limit, draft, saved, search, sim>>

NewBlock(t) == Expected[t + 1]
NewSize == ImageBytes(Expected)
InDraft(t) == t < Len(draft)

NoSearch == [left |-> << >>, trying |-> << >>, current |-> << >>,
             best |-> << >>, score |-> << >>]

PlanningInit ==
  /\ Init
  /\ planner \in Planners
  /\ stage = IF planner = "backup_safe_copy_delta" THEN "save" ELSE "plan"
  /\ next = 0
  /\ plan = << >>
  /\ limit \in StepLimits
  /\ draft = installed /\ saved = << >>
  /\ search = NoSearch
  /\ sim = [fresh |-> State, planned |-> State]

-----------------------------------------------------------------------------
(* The operations that a plan is made of, and SourceRef.                   *)
Installed(i)  == [area |-> "installed", index |-> i]
FromBackup(i) == [area |-> "backup", id |-> BackupName(i)]

KeepBlock(t)  == [op |-> "keep", target |-> t, hash |-> NewBlock(t)]
SaveBlock(i)  == [op |-> "backup", source |-> i, id |-> BackupName(i)]
CopyBlock(t, source) ==
  [op |-> "copy", source |-> source, target |-> t, hash |-> NewBlock(t)]
PatchBlock(t, source, base, size) ==
  [op |-> "delta", codec |-> "bsdiff4", source |-> source, target |-> t,
   base |-> base, result |-> NewBlock(t), patch |-> size, hash |-> NewBlock(t)]
RawBlock(t)   == [op |-> "raw_insert", target |-> t, data |-> NewBlock(t)]
CutToNewSize  == [op |-> "truncate", unit |-> "bytes", size |-> NewSize]

(* _first_exact_source among the blocks in place and then the saved ones,  *)
(* preferring the target itself: one source, or none.                      *)
ExactSource(t, blocks, area) ==
  LET places == {i \in 0 .. Len(blocks) - 1 : blocks[i + 1] = NewBlock(t)}
      kept   == {i \in DOMAIN area : area[i] = NewBlock(t)}
  IN  IF t \in places THEN {Installed(t)}
      ELSE IF places # {} THEN {Installed(Min(places))}
      ELSE {FromBackup(i) : i \in {j \in kept : j = Min(kept)}}

(* _copy_or_keep                                                           *)
CopyOrKeep(t, source) ==
  IF source = Installed(t) THEN KeepBlock(t) ELSE CopyBlock(t, source)

(* _bounded_delta_candidates: the target, its backup, or else a neighbour. *)
DeltaSources(t, blocks, area) ==
  LET near == {[ref |-> Installed(i), block |-> blocks[i + 1]] :
                 i \in {t} \cap (0 .. Len(blocks) - 1)} \cup
              {[ref |-> FromBackup(i), block |-> area[i]] : i \in {t} \cap DOMAIN area}
      last == Min({t, Len(blocks) - 1})
  IN  IF near # {} \/ blocks = << >> THEN near
      ELSE {[ref |-> Installed(last), block |-> blocks[last + 1]]}

(* The length of a payload in base64, in groups of four characters.        *)
Encoded(size) == (size + 2) \div 3

(* bsdiff4.diff of the blocks of some sources: a size for each block.      *)
Sizings(sources) == [{s.block : s \in sources} -> PatchSizes]

(* _best_delta_source, for one choice of the sizes: a block in place comes *)
(* before a saved one when the patches are as long.                        *)
BestSources(sources, sizing) ==
  {s \in sources : \A other \in sources :
     \/ sizing[s.block] < sizing[other.block]
     \/ sizing[s.block] = sizing[other.block]
          /\ (s.ref.area = "installed" \/ other.ref.area = "backup")}

(* _delta_or_raw: the operations it may choose.                            *)
DeltaOrRaw(t, sources) ==
  {RawBlock(t) : x \in {y \in {t} : sources = {}}} \cup
  UNION {{IF Encoded(sizing[s.block]) <= Encoded(Len(NewBlock(t)))
            THEN PatchBlock(t, s.ref, s.block, sizing[s.block]) ELSE RawBlock(t) :
          s \in BestSources(sources, sizing)} : sizing \in Sizings(sources)}

-----------------------------------------------------------------------------
(* The planners that keep no simulator.  The operations for a target block *)
(* leave it in the image; the backups among them are those of `area`.      *)
Plans(name) == planner = name /\ stage = "plan"

PlanBlock(operations, area) ==
  /\ plan' = plan \o operations
  /\ draft' = WriteBlock(draft, next, NewBlock(next))
  /\ saved' = area
  /\ next' = next + 1
  /\ UNCHANGED <<vars, planner, stage, limit, search, sim>>

(* full_replacement and whole_file_bsdiff write the new image into block 0.*)
PlanWhole(operation) ==
  /\ plan' = <<operation>>
  /\ draft' = WriteBlock(draft, 0, BlocksToBytes(Expected))
  /\ next' = Len(Expected)
  /\ UNCHANGED <<vars, planner, stage, limit, saved, search, sim>>

FullReplacement ==
  /\ Plans("full_replacement") /\ plan = << >> /\ NewSize > 0
  /\ PlanWhole([op |-> "raw_insert", target |-> 0, data |-> BlocksToBytes(Expected)])

WholeFileBsdiff ==
  /\ Plans("whole_file_bsdiff") /\ plan = << >>
  /\ \E size \in PatchSizes :
       PlanWhole([op |-> "delta", codec |-> "bsdiff4", source |-> [area |-> "image"],
                  target |-> 0, base |-> BlocksToBytes(draft),
                  result |-> BlocksToBytes(Expected), patch |-> size,
                  hash |-> BlocksToBytes(Expected)])

AlreadyInPlace(t) == InDraft(t) /\ draft[t + 1] = NewBlock(t)

BlockwiseBsdiff ==
  /\ Plans("blockwise_bsdiff") /\ next < Len(Expected)
  /\ \E size \in PatchSizes :
       PlanBlock(<<IF AlreadyInPlace(next) THEN KeepBlock(next)
                   ELSE IF InDraft(next)
                     THEN PatchBlock(next, Installed(next), draft[next + 1], size)
                   ELSE RawBlock(next)>>, saved)

(* Variant: the blocks of the old image are looked up, not the current ones.*)
CopySourcesInOldImage(t) == ExactSource(t, snapshot, << >>)

CopySources(t) == ExactSource(t, draft, << >>)

CopyOnly ==
  /\ Plans("copy_only") /\ next < Len(Expected)
  /\ LET sources == CopySources(next) IN
     \/ \E source \in sources : PlanBlock(<<CopyOrKeep(next, source)>>, saved)
     \/ sources = {} /\ PlanBlock(<<RawBlock(next)>>, saved)

CopyDelta ==
  /\ Plans("copy_delta") /\ next < Len(Expected)
  /\ LET sources == CopySources(next) IN
     \/ \E source \in sources : PlanBlock(<<CopyOrKeep(next, source)>>, saved)
     \/ /\ sources = {}
        /\ \E operation \in DeltaOrRaw(next, DeltaSources(next, draft, << >>)) :
             PlanBlock(<<operation>>, saved)

(* rsync_rolling_hash: the signatures are those of the old image, but a    *)
(* block is copied only while it is still there.                           *)
Unchanged(t) ==
  {i \in 0 .. Len(snapshot) - 1 : /\ snapshot[i + 1] = NewBlock(t)
                                  /\ InDraft(i) /\ draft[i + 1] = NewBlock(t)}

RsyncRollingHash ==
  /\ Plans("rsync_rolling_hash") /\ next < Len(Expected)
  /\ PlanBlock(<<IF AlreadyInPlace(next) THEN KeepBlock(next)
                 ELSE IF Unchanged(next) # {}
                   THEN CopyOrKeep(next, Installed(Min(Unchanged(next))))
                 ELSE RawBlock(next)>>, saved)

(* sorted, for a set of indices.                                           *)
Ascending(S) ==
  CHOOSE s \in [1 .. Cardinality(S) -> S] : \A i, j \in DOMAIN s : i < j => s[i] < s[j]

(* backup_safe_copy_delta: the blocks behind the new image are saved first,*)
(* then each block that changes, before its operation is chosen.           *)
Backups(indices) == [k \in DOMAIN indices |-> SaveBlock(indices[k])]

(* Variant: the blocks that only the cut removes are not saved.            *)
TailNotSaved == {}

RemovedTail == (NewSize + BlockSize - 1) \div BlockSize .. Len(snapshot) - 1

SaveTail ==
  /\ stage = "save"
  /\ plan' = Backups(Ascending(RemovedTail))
  /\ saved' = [i \in RemovedTail |-> draft[i + 1]]
  /\ stage' = "plan"
  /\ UNCHANGED <<vars, planner, next, limit, draft, search, sim>>

Overwrites(t) == t < Len(snapshot) /\ InDraft(t) /\ draft[t + 1] # NewBlock(t)

BackupSafeCopyDelta ==
  /\ Plans("backup_safe_copy_delta") /\ next < Len(Expected)
  /\ LET saves   == {t \in {next} : Overwrites(t)} \ DOMAIN saved
         area    == [i \in saves \cup DOMAIN saved |->
                       IF i \in saves THEN draft[i + 1] ELSE saved[i]]
         prefix  == Backups(SetToSeq(saves))
         sources == ExactSource(next, draft, area)
     IN
     \/ \E source \in sources :
          PlanBlock(Append(prefix, CopyOrKeep(next, source)), area)
     \/ /\ sources = {}
        /\ \E operation \in DeltaOrRaw(next, DeltaSources(next, draft, area)) :
             PlanBlock(Append(prefix, operation), area)

(* Variant: the tail of a longer old image stays.                          *)
NeverTooLong == FALSE

TooLong == ImageBytes(draft) > NewSize

(* _truncate_blocks_if_needed, the last operation of every plan.           *)
CutPlan ==
  /\ stage = "plan" /\ planner # "deployment_aware_greedy"
  /\ next = Len(Expected)
  /\ planner = "whole_file_bsdiff" => plan # << >>
  /\ IF TooLong /\ (planner = "backup_safe_copy_delta" => NewSize < ImageBytes(snapshot))
       THEN /\ plan' = Append(plan, CutToNewSize)
            /\ draft' = TruncateBytes(draft, NewSize)
       ELSE UNCHANGED <<plan, draft>>
  /\ stage' = "planned"
  /\ UNCHANGED <<vars, planner, next, limit, saved, search, sim>>

-----------------------------------------------------------------------------
(* The greedy planner.  _backup_refs_from_simulator:                       *)
SavedBlocks == [i \in {backups[id].index : id \in DOMAIN backups} |-> backups[BackupName(i)].block]

HasBackup(i) == \E id \in DOMAIN backups : backups[id].index = i

(* _backup_prefix_if_needed                                                *)
BackupPrefix(t) ==
  IF /\ RequireBackup
     /\ t < Len(snapshot) /\ NewBlock(t) # snapshot[t + 1]
     /\ t < Len(installed) /\ ~HasBackup(t)
    THEN <<SaveBlock(t)>> ELSE << >>

(* _with_backup_variants                                                   *)
WithAndWithout(prefix, operation) == {<<operation>>, Append(prefix, operation)}

(* _deployment_target_candidates                                           *)
TargetCandidates(t, sources, sizing) ==
  IF t < Len(installed) /\ installed[t + 1] = NewBlock(t) THEN {<<KeepBlock(t)>>}
  ELSE
    LET copies == {CopyBlock(t, Installed(i)) :
                     i \in {j \in 0 .. Len(installed) - 1 : installed[j + 1] = NewBlock(t)}} \cup
                  {CopyBlock(t, FromBackup(i)) :
                     i \in {j \in DOMAIN SavedBlocks : SavedBlocks[j] = NewBlock(t)}}
        patches == {PatchBlock(t, s.ref, s.block, sizing[s.block]) : s \in sources}
    IN  UNION {WithAndWithout(BackupPrefix(t), operation) :
                 operation \in copies \cup patches \cup {RawBlock(t)}}

(* _truncate_backup_indices: the blocks of the old image that the cut      *)
(* removes, and the last one that is left if it is not the old one.        *)
CutIndices ==
  LET cut  == TruncateBytes(installed, NewSize)
      left == Len(cut)
      last == {i \in {left - 1} : /\ left > 0 /\ i < Len(snapshot)
                                  /\ cut[left] # snapshot[left]}
  IN  {i \in last \cup {j \in left .. Len(installed) - 1 : j < Len(snapshot)} :
         i < Len(installed) /\ ~HasBackup(i)}

(* _deployment_truncate_candidates                                         *)
CutCandidates ==
  {<<CutToNewSize>>, Append(Backups(Ascending(CutIndices)), CutToNewSize)}

(* _choose_deployment_candidate goes through the candidates in an order    *)
(* that matters only among equal scores.                                   *)
StartSearch(candidates) ==
  LET order == SetToSeq(candidates) IN
  /\ stage' = "try"
  /\ search' = [left |-> Tail(order), trying |-> order[1], current |-> order[1],
                best |-> << >>, score |-> << >>]
  /\ UNCHANGED <<vars, planner, next, plan, limit, draft, saved, sim>>

GreedySearchesBlock ==
  /\ Plans("deployment_aware_greedy") /\ next < Len(Expected)
  /\ LET sources == DeltaSources(next, installed, SavedBlocks) IN
     \E sizing \in Sizings(sources) :
       StartSearch(TargetCandidates(next, sources, sizing))

GreedyCuts ==
  /\ Plans("deployment_aware_greedy") /\ next = Len(Expected)
  /\ IF ImageBytes(installed) > NewSize
       THEN StartSearch(CutCandidates)
       ELSE /\ stage' = "planned"
            /\ UNCHANGED <<vars, planner, next, plan, limit, draft, saved, search, sim>>

(* A candidate on its clone, up to an operation that raises.               *)
TryOperation ==
  /\ stage = "try" /\ search.trying # << >>
  /\ Apply(Head(search.trying))
  /\ search' = [search EXCEPT !.trying = IF installState' = "failed" THEN << >> ELSE Tail(@)]
  /\ UNCHANGED <<planner, stage, next, plan, limit, draft, saved, sim>>

(* Variant: readiness to roll back is not scored.                          *)
ScoreWithoutRollback ==
  <<Cardinality(violations \ sim.planned.violations), Cardinality(violations),
    package, peakStorage, peakRam, flash>>

(* The score of _score_deployment_candidate, but for times, which decide   *)
(* among equal ones.                                                       *)
Score ==
  <<Cardinality(violations \ sim.planned.violations),
    IF rollbackReady THEN 0 ELSE 1,
    Cardinality(violations), package, peakStorage, peakRam, flash>>

Below(score, other) ==
  \E k \in DOMAIN score : /\ score[k] < other[k]
                          /\ \A j \in 1 .. k - 1 : score[j] = other[j]

(* Whether the candidate may be taken for the best one so far.             *)
Verdicts ==
  IF installState = "failed" THEN {FALSE}
  ELSE IF search.best = << >> \/ Below(Score, search.score) THEN {TRUE}
  ELSE IF Below(search.score, Score) THEN {FALSE}
  ELSE BOOLEAN

(* Variant: the candidates are tried on the simulator itself.              *)
TriedInPlace(s) == UNCHANGED vars

(* What a trial leaves behind: it ran on a clone.                          *)
AfterTrial(s) == Become(s)

(* The score of the clone is compared, and the simulator is as before.     *)
JudgeCandidate ==
  /\ stage = "try" /\ search.trying = << >>
  /\ \E better \in Verdicts :
       LET best  == IF better THEN search.current ELSE search.best
           ended == search.left = << >>
           tried == IF ended THEN best ELSE Head(search.left)
       IN  /\ search' = [left |-> IF ended THEN << >> ELSE Tail(search.left),
                         trying |-> tried, current |-> tried, best |-> best,
                         score |-> IF better THEN Score ELSE search.score]
           /\ stage' = IF ~ended THEN "try" ELSE IF best = << >> THEN "raised" ELSE "adopt"
  /\ AfterTrial(sim.planned)
  /\ UNCHANGED <<planner, next, plan, limit, draft, saved, sim>>

(* _apply_candidate                                                        *)
AdoptOperation ==
  /\ stage = "adopt" /\ search.trying # << >>
  /\ Apply(Head(search.trying))
  /\ plan' = Append(plan, Head(search.trying))
  /\ search' = [search EXCEPT !.trying = Tail(@)]
  /\ UNCHANGED <<planner, stage, next, limit, draft, saved, sim>>

Adopted ==
  /\ stage = "adopt" /\ search.trying = << >>
  /\ sim' = [sim EXCEPT !.planned = State]
  /\ search' = NoSearch
  /\ next' = Min({next + 1, Len(Expected)})
  /\ stage' = IF next < Len(Expected) THEN "plan" ELSE "planned"
  /\ UNCHANGED <<vars, planner, plan, limit, draft, saved>>

-----------------------------------------------------------------------------
(* simulate_update of operations[:max_steps].                              *)
PlanEnd == IF limit = NoLimit THEN Len(plan) ELSE Min({limit, Len(plan)})

StartDeployment ==
  /\ stage = "planned"
  /\ Become(sim.fresh)
  /\ next' = 0
  /\ stage' = "deploy"
  /\ UNCHANGED <<planner, plan, limit, draft, saved, search, sim>>

DeployOperation ==
  /\ stage = "deploy" /\ next < PlanEnd /\ Running
  /\ Apply(plan[next + 1])
  /\ next' = next + 1
  /\ UNCHANGED <<planner, stage, plan, limit, draft, saved, search, sim>>

EndDeployment ==
  /\ stage = "deploy" /\ (next = PlanEnd \/ ~Running)
  /\ IF Running THEN Complete ELSE UNCHANGED vars
  /\ stage' = "done"
  /\ UNCHANGED <<planner, next, plan, limit, draft, saved, search, sim>>

PlanningNext ==
  \/ FullReplacement \/ WholeFileBsdiff \/ BlockwiseBsdiff \/ CopyOnly \/ CopyDelta
  \/ RsyncRollingHash \/ SaveTail \/ BackupSafeCopyDelta \/ CutPlan
  \/ GreedySearchesBlock \/ GreedyCuts \/ TryOperation \/ JudgeCandidate
  \/ AdoptOperation \/ Adopted
  \/ StartDeployment \/ DeployOperation \/ EndDeployment

PlanningSpec == PlanningInit /\ [][PlanningNext]_<<vars, planning>>

-----------------------------------------------------------------------------
Deployed == stage = "done" /\ PlanEnd = Len(plan)

(* The plan of every planner, deployed whole, is accepted to its last      *)
(* operation and leaves the new image, complete: the sources of a block    *)
(* are still there, with the content that the planner saw, when it is      *)
(* installed, though earlier blocks were overwritten, saved or moved by a  *)
(* cut (_source_candidates, _bounded_delta_candidates, _apply_candidate).  *)
PlansReproduceTarget ==
  /\ stage # "raised"
  /\ Deployed => /\ installState = "complete"
                 /\ BlocksToBytes(installed) = BlocksToBytes(Expected)

(* At each point of a plan, and wherever max_steps cuts it, rollback_ready *)
(* is as good as its word, and the backup-safe planner keeps it: the old   *)
(* content of every block that is no longer in place can be had from a     *)
(* backup (_backup_block, _backup_prefix_if_needed).                       *)
BackupSafePlansRevertible ==
  stage \in {"deploy", "done"} =>
    /\ RollbackDataPreserved
    /\ RequireBackup /\ planner = "backup_safe_copy_delta" => rollbackReady

(* The bytes that saving every block can need at once, when a payload is   *)
(* staged no longer than its operation.                                    *)
Room ==
  ImageBytes(snapshot) + BlockSize * Max({Len(snapshot), Len(Expected)})
    + Overhead + BlockSize

(* The greedy planner gives rollback up only for a budget: while the       *)
(* storage has room for the old blocks beside the image, each step keeps   *)
(* it (_score_deployment_candidate, _with_backup_variants,                 *)
(* _truncate_backup_indices).                                              *)
GreedyKeepsReadyWithRoom ==
  /\ planner = "deployment_aware_greedy" /\ stage \in {"plan", "deploy", "done"}
  /\ RequireBackup /\ Staging = "streaming" /\ RamBudget = NoLimit
  /\ ~Exceeds(Room, StorageBudget)
  => rollbackReady

(* What the greedy planner reckoned with is what its plan does: after the  *)
(* last operation the device is, to every counter, what the simulator was  *)
(* after the trials (clone, _apply_candidate).                             *)
TrialsLeaveNoTrace ==
  planner = "deployment_aware_greedy" /\ stage = "deploy" /\ next = Len(plan)
  => State = sim.planned
=============================================================================
