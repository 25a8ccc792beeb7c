--------------------------- MODULE PlannerProofs ---------------------------
(***************************************************************************)
(* The operation baselines: the plan of every planner is accepted to its   *)
(* last operation and leaves the new image, and rollback_ready is as good  *)
(* as its word wherever max_steps cuts the plan; for any images, patch     *)
(* sizes and configuration.                                                *)
(*                                                                         *)
(* Every planner but the two that write the image as a whole goes through  *)
(* the blocks in order.  Mix(d) is the image when d blocks are done; what  *)
(* an operation reads is in Mix of its target or saved, which is a         *)
(* property of the plan alone (Right), and a device that has executed the  *)
(* first operations of such a plan holds a Mix (Executed).                 *)
(***************************************************************************)
EXTENDS EnvironmentProofs

NewCount == Len(Expected)

(* The image when the first d blocks of the new one are done.              *)
Mix(old, d) ==
  [i \in 1 .. (IF d <= Len(old) THEN Len(old) ELSE d) |->
     IF i <= d THEN Expected[i] ELSE old[i]]

-----------------------------------------------------------------------------
(* Plans.                                                                  *)
Reference == {Installed(i) : i \in Nat} \cup {FromBackup(i) : i \in Nat}

PlanOp ==
  {KeepBlock(t) : t \in Nat} \cup {SaveBlock(i) : i \in Nat} \cup
  {CopyBlock(t, s) : t \in Nat, s \in Reference} \cup
  {PatchBlock(t, s, b, size) : t \in Nat, s \in Reference, b \in Block, size \in Nat} \cup
  {RawBlock(t) : t \in Nat} \cup {CutToNewSize}

Processing(op) == op.op \in {"keep", "copy", "delta", "raw_insert"}

(* A backup of a block that no operation before it has processed.          *)
Fresh(ops, j) ==
  \A m \in 1 .. j - 1 : Processing(ops[m]) => ops[m].target < ops[j].source

SavedBefore(ops, k, i) ==
  \E j \in 1 .. k - 1 : ops[j] = SaveBlock(i) /\ Fresh(ops, j)

Delivers(op, block) ==
  /\ op.op = "copy" => block = NewBlock(op.target)
  /\ op.op = "delta" => block = op.base

(* The block that an operation reads is there when its target is next.     *)
Reads(old, ops, k) ==
  LET op == ops[k]
      t  == op.target
  IN  /\ op.op = "keep" => t < Len(old) /\ old[t + 1] = NewBlock(t)
      /\ op.op \in {"copy", "delta"} =>
           \/ \E i \in 0 .. Len(Mix(old, t)) - 1 :
                op.source = Installed(i) /\ Delivers(op, Mix(old, t)[i + 1])
           \/ \E i \in 0 .. Len(old) - 1 :
                /\ op.source = FromBackup(i) /\ Delivers(op, old[i + 1])
                /\ SavedBefore(ops, k, i)

(* The operations process the first n blocks of the new image in order,    *)
(* and save no block twice.                                                *)
Covers(ops, n) ==
  \A t \in 0 .. n - 1 : \E k \in DOMAIN ops : Processing(ops[k]) /\ ops[k].target = t

InOrder(ops, k, n) ==
  /\ ops[k].target < n
  /\ \A j \in 1 .. k - 1 : Processing(ops[j]) => ops[j].target < ops[k].target

SavesOnce(old, ops, k) ==
  /\ ops[k].source < Len(old)
  /\ \A j \in 1 .. k - 1 : ops[j] # ops[k]

Right(old, ops, n) ==
  /\ ops \in Seq(PlanOp) /\ Covers(ops, n)
  /\ \A k \in DOMAIN ops :
       /\ Processing(ops[k]) => InOrder(ops, k, n) /\ Reads(old, ops, k)
       /\ ops[k].op = "backup" => SavesOnce(old, ops, k)

Uncut(ops) == \A k \in DOMAIN ops : ops[k].op # "truncate"
CutLast(ops) == \A k \in DOMAIN ops : ops[k].op = "truncate" => k = Len(ops)
AllFresh(ops) == \A k \in DOMAIN ops : ops[k].op = "backup" => Fresh(ops, k)

(* The first k operations have been executed and d blocks are done.        *)
Executed(old, ops, k, d, blocks, area) ==
  /\ d \in 0 .. NewCount /\ blocks = Mix(old, d)
  /\ \A j \in 1 .. k : Processing(ops[j]) => ops[j].target < d
  /\ \A t \in 0 .. d - 1 : \E j \in 1 .. k : Processing(ops[j]) /\ ops[j].target = t
  /\ \A id \in DOMAIN area : \E j \in 1 .. k : ops[j].op = "backup" /\ ops[j].id = id
  /\ \A j \in 1 .. k : ops[j].op = "backup" =>
       /\ ops[j].id \in DOMAIN area
       /\ area[ops[j].id] = [index |-> ops[j].source, block |-> area[ops[j].id].block]
       /\ Fresh(ops, j) => area[ops[j].id].block = old[ops[j].source + 1]

Holding(old, ops, k, blocks, area) == \E d \in 0 .. NewCount : Executed(old, ops, k, d, blocks, area)

-----------------------------------------------------------------------------
(* The states of the planners.                                             *)
Greedy == planner = "deployment_aware_greedy"
Careful == planner = "backup_safe_copy_delta"

(* The image is written as a whole; full_replacement writes nothing when   *)
(* the new image is empty.                                                 *)
AtOnce ==
  planner = "whole_file_bsdiff" \/ (planner = "full_replacement" /\ NewCount # 0)

Unharmed(state, kinds) == state \in {"ready", "installing"} /\ kinds = {}

PlanFrame ==
  /\ snapshot \in InitialImages /\ planner \in PlannerName
  /\ stage \in {"save", "plan", "try", "adopt", "planned", "deploy", "done"}
  /\ stage = "save" => Careful
  /\ stage \in {"try", "adopt"} => Greedy
  /\ limit \in StepLimits /\ "planned" \in DOMAIN sim
  /\ sim.fresh.installed = snapshot /\ sim.fresh.backups = << >>
  /\ Unharmed(sim.fresh.installState, sim.fresh.errors) /\ sim.fresh.rollbackReady = TRUE

(* What the careful planner promises: old blocks that change are saved     *)
(* before, and the blocks behind the new image.                            *)
Changes(old, op) ==
  /\ Processing(op) /\ op.target < Len(old)
  /\ NewBlock(op.target) # old[op.target + 1]

Guarded(old, ops) ==
  \A k \in DOMAIN ops :
    Changes(old, ops[k]) => \E j \in 1 .. k - 1 : ops[j] = SaveBlock(ops[k].target)

TailSaved(old, ops) ==
  \A i \in NewCount .. Len(old) - 1 : \E j \in DOMAIN ops : ops[j] = SaveBlock(i)

(* The blocks saved by the plan so far are those in `saved`.               *)
AreaPlanned(old, ops, area) ==
  /\ \A i \in DOMAIN area :
       /\ i \in 0 .. Len(old) - 1 /\ area[i] = old[i + 1]
       /\ \E j \in DOMAIN ops : ops[j] = SaveBlock(i) /\ Fresh(ops, j)
  /\ \A j \in DOMAIN ops : ops[j].op = "backup" => ops[j].source \in DOMAIN area

DraftInv ==
  ~AtOnce /\ ~Greedy /\ stage \in {"save", "plan"} =>
    /\ next \in 0 .. NewCount /\ draft = Mix(snapshot, next)
    /\ Right(snapshot, plan, next) /\ Uncut(plan) /\ AreaPlanned(snapshot, plan, saved)
    /\ stage = "save" => plan = << >> /\ next = 0
    /\ Careful => Guarded(snapshot, plan) /\ (stage = "plan" => TailSaved(snapshot, plan))

PlannedInv ==
  ~AtOnce /\ stage \in {"planned", "deploy", "done"} =>
    /\ Right(snapshot, plan, NewCount) /\ CutLast(plan)
    /\ Uncut(plan) => ImageBytes(Mix(snapshot, NewCount)) <= NewSize
    /\ Careful => Guarded(snapshot, plan) /\ TailSaved(snapshot, plan)

(* The plan with a candidate for block n, or for the cut behind the last.  *)
Extended(old, ops, n) ==
  IF n < NewCount THEN Right(old, ops, n + 1) /\ Uncut(ops) /\ AllFresh(ops)
                  ELSE Right(old, ops, NewCount) /\ CutLast(ops) /\ ~Uncut(ops)

Good(c) == c \in Seq(PlanOp) /\ c # << >> /\ Extended(snapshot, plan \o c, next)

GreedyPlans ==
  /\ next \in 0 .. NewCount /\ Right(snapshot, plan, next) /\ Uncut(plan) /\ AllFresh(plan)
  /\ Executed(snapshot, plan, Len(plan), next, sim.planned.installed, sim.planned.backups)
  /\ Unharmed(sim.planned.installState, sim.planned.errors)

GreedyInv ==
  Greedy =>
    /\ stage \in {"try", "adopt"} => "trying" \in DOMAIN search
    /\ stage = "plan" =>
         /\ GreedyPlans
         /\ sim.planned.installed = installed /\ sim.planned.backups = backups
         /\ sim.planned.installState = installState /\ sim.planned.errors = errors
    /\ stage = "try" =>
         /\ GreedyPlans /\ Unharmed(installState, errors)
         /\ Good(search.current) /\ (search.best = << >> \/ Good(search.best))
         /\ search.left \in Seq(Seq(PlanOp))
         /\ \A k \in DOMAIN search.left : Good(search.left[k])
         /\ \E k \in 0 .. Len(search.current) :
              /\ search.trying = SubSeq(search.current, k + 1, Len(search.current))
              /\ search.trying # << >> =>
                   Holding(snapshot, plan \o search.current, Len(plan) + k, installed, backups)
    /\ stage = "adopt" =>
         /\ next \in 0 .. NewCount /\ plan \in Seq(PlanOp) /\ search.trying \in Seq(PlanOp)
         /\ Extended(snapshot, plan \o search.trying, next)
         /\ Unharmed(installState, errors)
         /\ search.trying # << >> \/ next < NewCount =>
              Holding(snapshot, plan \o search.trying, Len(plan), installed, backups)

DeployInv ==
  stage = "deploy" =>
    /\ next \in 0 .. PlanEnd /\ Unharmed(installState, errors)
    /\ ~AtOnce =>
         /\ next < Len(plan) \/ Uncut(plan) => Holding(snapshot, plan, next, installed, backups)
         /\ next = Len(plan) /\ ~Uncut(plan) => installed = Expected

DoneInv == Deployed => Transformed /\ installState = "complete"

(* The plans that write the whole image, and perhaps cut it.               *)
NewImageBytes == BlocksToBytes(Expected)
WholeImage(old) == WriteBlock(old, 0, NewImageBytes)

WholeOps(old) ==
  {[op |-> "raw_insert", target |-> 0, data |-> NewImageBytes]} \cup
  {[op |-> "delta", codec |-> "bsdiff4", source |-> [area |-> "image"], target |-> 0,
    base |-> BlocksToBytes(old), result |-> NewImageBytes, patch |-> size,
    hash |-> NewImageBytes] : size \in PatchSizes}

WholeInv ==
  AtOnce =>
    /\ stage = "plan" =>
         \/ plan = << >> /\ next = 0 /\ draft = snapshot
         \/ /\ \E op \in WholeOps(snapshot) : plan = <<op>>
            /\ next = NewCount /\ draft = WholeImage(snapshot)
    /\ stage \in {"planned", "deploy", "done"} =>
         \E op \in WholeOps(snapshot) :
           \/ plan = <<op>> /\ ImageBytes(WholeImage(snapshot)) <= NewSize
           \/ plan = <<op, CutToNewSize>>
    /\ stage = "deploy" =>
         /\ DOMAIN backups = {}
         /\ installed = CASE next = 0 -> snapshot [] next = 1 -> WholeImage(snapshot)
                          [] next = 2 -> Expected

(* rollback_ready.                                                         *)
KeptInv ==
  stage \in {"deploy", "done"} =>
    /\ rollbackReady \in BOOLEAN
    /\ \A id \in DOMAIN backups :
         backups[id] = [index |-> backups[id].index, block |-> backups[id].block]
    /\ RequireBackup /\ rollbackReady =>
         /\ Protected(installed, backups)
         /\ \A id \in DOMAIN backups : backups[id].index < Len(snapshot) =>
              backups[id].block = snapshot[backups[id].index + 1]
    /\ RequireBackup /\ Careful => rollbackReady

BaselineInv ==
  PlanFrame /\ DraftInv /\ PlannedInv /\ GreedyInv /\ DeployInv /\ WholeInv /\ KeptInv

-----------------------------------------------------------------------------
(* Operations and images.                                                  *)
LEMMA PlanOpForms ==
  ASSUME NEW op \in PlanOp
  PROVE  /\ op.op \in {"keep", "backup", "copy", "delta", "raw_insert", "truncate"}
         /\ op.op = "keep" => op.target \in Nat /\ op = KeepBlock(op.target)
         /\ op.op = "backup" => op.source \in Nat /\ op = SaveBlock(op.source)
         /\ op.op = "copy" =>
              op.target \in Nat /\ op.source \in Reference /\ op = CopyBlock(op.target, op.source)
         /\ op.op = "delta" =>
              /\ op.target \in Nat /\ op.source \in Reference
              /\ op = PatchBlock(op.target, op.source, op.base, op.patch)
         /\ op.op = "raw_insert" => op.target \in Nat /\ op = RawBlock(op.target)
         /\ op.op = "truncate" => op = CutToNewSize
<1>1. ASSUME NEW t \in Nat, op = KeepBlock(t)
      PROVE  op.op = "keep" /\ op.target = t
  BY <1>1 DEF KeepBlock
<1>2. ASSUME NEW i \in Nat, op = SaveBlock(i)
      PROVE  op.op = "backup" /\ op.source = i
  BY <1>2 DEF SaveBlock
<1>3. ASSUME NEW t \in Nat, NEW s \in Reference, op = CopyBlock(t, s)
      PROVE  op.op = "copy" /\ op.target = t /\ op.source = s
  BY <1>3 DEF CopyBlock
<1>4. ASSUME NEW t \in Nat, NEW s \in Reference, NEW b, NEW size, op = PatchBlock(t, s, b, size)
      PROVE  op.op = "delta" /\ op.target = t /\ op.source = s /\ op.base = b /\ op.patch = size
  BY <1>4 DEF PatchBlock
<1>5. ASSUME NEW t \in Nat, op = RawBlock(t)
      PROVE  op.op = "raw_insert" /\ op.target = t
  BY <1>5 DEF RawBlock
<1>6. CutToNewSize.op = "truncate"  BY DEF CutToNewSize
<1>7. \/ \E t \in Nat : op = KeepBlock(t)
      \/ \E i \in Nat : op = SaveBlock(i)
      \/ \E t \in Nat : \E s \in Reference : op = CopyBlock(t, s)
      \/ \E t \in Nat : \E s \in Reference : \E b, size : op = PatchBlock(t, s, b, size)
      \/ \E t \in Nat : op = RawBlock(t)
      \/ op = CutToNewSize
  BY DEF PlanOp
<1> QED BY <1>1, <1>2, <1>3, <1>4, <1>5, <1>6, <1>7

(* The processing operations write, or keep, the new block of their target.*)
LEMMA ProcessingForms ==
  ASSUME NEW op \in PlanOp, Processing(op)
  PROVE  /\ op.target \in Nat /\ op.op \notin {"backup", "truncate"}
         /\ op.op = "keep" => op.hash = NewBlock(op.target)
         /\ op.op = "copy" => op.hash = NewBlock(op.target)
         /\ op.op = "delta" =>
              /\ op.hash = NewBlock(op.target) /\ op.result = NewBlock(op.target)
              /\ op.codec = "bsdiff4"
         /\ op.op = "raw_insert" => op.data = NewBlock(op.target)
<1>1. CASE op.op = "keep"  BY <1>1, PlanOpForms DEF KeepBlock
<1>2. CASE op.op = "copy"  BY <1>2, PlanOpForms DEF CopyBlock
<1>3. CASE op.op = "delta"  BY <1>3, PlanOpForms DEF PatchBlock
<1>4. CASE op.op = "raw_insert"  BY <1>4, PlanOpForms DEF RawBlock
<1> QED BY <1>1, <1>2, <1>3, <1>4 DEF Processing

LEMMA BackupForms ==
  ASSUME NEW op \in PlanOp, op.op = "backup"
  PROVE  op.source \in Nat /\ op.id = BackupName(op.source) /\ op = SaveBlock(op.source)
BY PlanOpForms DEF SaveBlock

LEMMA PlanOpsExist ==
  ASSUME NEW t \in Nat, NEW s \in Reference, NEW b \in Block, NEW size \in Nat
  PROVE  /\ KeepBlock(t) \in PlanOp /\ SaveBlock(t) \in PlanOp /\ CopyBlock(t, s) \in PlanOp
         /\ PatchBlock(t, s, b, size) \in PlanOp /\ RawBlock(t) \in PlanOp
         /\ CutToNewSize \in PlanOp
BY DEF PlanOp

LEMMA ReferencesExist ==
  ASSUME NEW i \in Nat  PROVE Installed(i) \in Reference /\ FromBackup(i) \in Reference
BY DEF Reference

LEMMA NewImage ==
  /\ Expected \in Image /\ NewCount \in Nat /\ DOMAIN Expected = 1 .. NewCount
  /\ NewSize \in Nat /\ CutToNewSize = CutToSize
  /\ \A t \in 0 .. NewCount - 1 : NewBlock(t) \in Block /\ NewBlock(t) = Target(t)
<1>1. Expected \in Image /\ NewCount \in Nat  BY ExpectedType DEF NewCount
<1>2. NewSize \in Nat  BY <1>1, BytesType DEF NewSize
<1>3. \A t \in 0 .. NewCount - 1 : NewBlock(t) \in Block /\ NewBlock(t) = Target(t)
  BY ExpectedType DEF NewCount, NewBlock, Target
<1> QED BY <1>1, <1>2, <1>3 DEF NewCount, CutToNewSize, CutToSize, NewSize, Image

LEMMA MixBlocks ==
  ASSUME NEW old \in Image, NEW d \in 0 .. NewCount
  PROVE  /\ Mix(old, d) \in Image
         /\ Len(Mix(old, d)) = (IF d <= Len(old) THEN Len(old) ELSE d)
         /\ Len(old) \in Nat /\ Len(Mix(old, d)) \in Nat
         /\ DOMAIN Mix(old, d) = 1 .. Len(Mix(old, d))
         /\ \A i \in 1 .. Len(Mix(old, d)) :
              Mix(old, d)[i] = IF i <= d THEN Expected[i] ELSE old[i]
<1> DEFINE n == IF d <= Len(old) THEN Len(old) ELSE d
           block(i) == IF i <= d THEN Expected[i] ELSE old[i]
<1>1. Len(old) \in Nat /\ NewCount \in Nat /\ d \in Nat /\ n \in Nat  BY NewImage DEF Image
<1>2. ASSUME NEW i \in 1 .. n  PROVE block(i) \in Block
  <2>1. CASE i <= d
    <3>1. i \in 1 .. NewCount  BY <1>1, <2>1
    <3>2. i \in 1 .. Len(Expected) /\ Expected \in Seq(Block)  BY <3>1, NewImage DEF Image, NewCount
    <3> QED BY <2>1, <3>2
  <2>2. CASE ~(i <= d)
    <3>1. i \in 1 .. Len(old) /\ old \in Seq(Block)  BY <1>1, <2>2 DEF Image
    <3> QED BY <2>2, <3>1
  <2> QED BY <2>1, <2>2
<1>3. Mix(old, d) = [i \in 1 .. n |-> block(i)]  BY DEF Mix
<1> HIDE DEF n, block
<1>4. [i \in 1 .. n |-> block(i)] \in Seq(Block)  BY <1>1, <1>2
<1>5. Len([i \in 1 .. n |-> block(i)]) = n  BY <1>1
<1> QED BY <1>1, <1>3, <1>4, <1>5 DEF n, block, Image

LEMMA SameImage ==
  ASSUME NEW a \in Image, NEW b \in Image, Len(a) = Len(b), \A i \in 1 .. Len(a) : a[i] = b[i]
  PROVE  a = b
BY DEF Image

LEMMA MixNothing ==
  ASSUME NEW old \in Image  PROVE Mix(old, 0) = old
<1>1. 0 \in 0 .. NewCount  BY NewImage
<1>2. \A i \in 1 .. Len(Mix(old, 0)) : ~(i <= 0)  BY <1>1, MixBlocks
<1> QED BY <1>1, <1>2, MixBlocks, SameImage

LEMMA MixWrite ==
  ASSUME NEW old \in Image, NEW d \in 0 .. NewCount - 1
  PROVE  /\ WriteBlock(Mix(old, d), d, NewBlock(d)) = Mix(old, d + 1)
         /\ d + 1 \in 0 .. NewCount
         /\ d < Len(old) /\ old[d + 1] = NewBlock(d) => Mix(old, d + 1) = Mix(old, d)
<1> DEFINE a == Mix(old, d)
           b == Mix(old, d + 1)
           w == WriteBlock(a, d, NewBlock(d))
<1>1. d \in 0 .. NewCount /\ d + 1 \in 0 .. NewCount /\ d \in Nat  BY NewImage
<1>2. /\ a \in Image /\ Len(a) \in Nat /\ Len(old) \in Nat
      /\ Len(a) = (IF d <= Len(old) THEN Len(old) ELSE d)
      /\ \A i \in 1 .. Len(a) : a[i] = IF i <= d THEN Expected[i] ELSE old[i]
  BY <1>1, MixBlocks
<1>3. /\ b \in Image /\ Len(b) \in Nat
      /\ Len(b) = (IF d + 1 <= Len(old) THEN Len(old) ELSE d + 1)
      /\ \A i \in 1 .. Len(b) : b[i] = IF i <= d + 1 THEN Expected[i] ELSE old[i]
  BY <1>1, MixBlocks
<1>4. NewBlock(d) \in Block /\ NewBlock(d) = Expected[d + 1]  BY NewImage DEF NewBlock
<1>5. w \in Image  BY <1>1, <1>2, <1>4, WriteBlockType
<1>6. /\ Len(w) = (IF d < Len(a) THEN Len(a) ELSE d + 1)
      /\ w[d + 1] = NewBlock(d)
      /\ \A i \in 1 .. Len(a) : i # d + 1 => w[i] = a[i]
  BY <1>1, <1>2, WrittenBlocks
<1> HIDE DEF a, b, w
<1>7. Len(w) = Len(b)  BY <1>1, <1>2, <1>3, <1>6
<1>8. \A i \in 1 .. Len(w) : w[i] = b[i]
  <2> TAKE i \in 1 .. Len(w)
  <2>1. CASE i = d + 1  BY <1>1, <1>3, <1>4, <1>6, <1>7, <2>1
  <2>2. CASE i # d + 1
    <3>1. i \in 1 .. Len(a)  BY <1>1, <1>2, <1>6, <2>2
    <3> QED BY <1>1, <1>2, <1>3, <1>6, <1>7, <2>2, <3>1
  <2> QED BY <2>1, <2>2
<1>9. w = b  BY <1>3, <1>5, <1>7, <1>8, SameImage
<1>10. ASSUME d < Len(old), old[d + 1] = NewBlock(d)  PROVE b = a
  <2>1. Len(b) = Len(a)  BY <1>1, <1>2, <1>3, <1>10
  <2>2. \A i \in 1 .. Len(b) : b[i] = a[i]
    <3> TAKE i \in 1 .. Len(b)
    <3>1. CASE i = d + 1
      <4>1. b[i] = Expected[d + 1]  BY <1>1, <1>3, <3>1
      <4>2. a[i] = old[d + 1]  BY <1>1, <1>2, <1>3, <2>1, <3>1
      <4> QED BY <1>4, <1>10, <4>1, <4>2
    <3>2. CASE i # d + 1  BY <1>1, <1>2, <1>3, <2>1, <3>2
    <3> QED BY <3>1, <3>2
  <2> QED BY <1>2, <1>3, <2>1, <2>2, SameImage
<1> QED BY <1>1, <1>9, <1>10 DEF a, b, w

-----------------------------------------------------------------------------
(* Executing a plan.                                                       *)

(* The next processing operation has the next block as its target.         *)
LEMMA NextTarget ==
  ASSUME NEW old \in Image, NEW ops, NEW n \in 0 .. NewCount, Right(old, ops, n),
         NEW k \in 0 .. Len(ops) - 1, Processing(ops[k + 1]),
         NEW d, NEW blocks, NEW area, Executed(old, ops, k, d, blocks, area)
  PROVE  ops[k + 1].target = d /\ d < NewCount
<1>1. ops \in Seq(PlanOp) /\ k \in Nat /\ k + 1 \in DOMAIN ops /\ d \in Nat /\ d <= NewCount
  BY NewImage DEF Right, Executed
<1>2. n \in Nat /\ n <= NewCount /\ NewCount \in Nat  BY NewImage
<1>3. \A j \in DOMAIN ops : Processing(ops[j]) => ops[j].target \in Nat
  BY <1>1, ProcessingForms
<1>4. /\ ops[k + 1].target \in Nat /\ ops[k + 1].target < n
      /\ \A j \in 1 .. k : Processing(ops[j]) => ops[j].target < ops[k + 1].target
  BY <1>1, <1>3 DEF Right, InOrder
<1>5. d <= ops[k + 1].target
  <2>1. CASE d = 0  BY <1>4, <2>1
  <2>2. CASE d # 0
    <3>1. d - 1 \in 0 .. d - 1  BY <1>1, <2>2
    <3>2. PICK j \in 1 .. k : Processing(ops[j]) /\ ops[j].target = d - 1
      BY <3>1 DEF Executed
    <3> QED BY <1>1, <1>4, <3>2
  <2> QED BY <2>1, <2>2
<1>6. ~(d < ops[k + 1].target)
  <2> SUFFICES ASSUME d < ops[k + 1].target  PROVE FALSE  OBVIOUS
  <2>1. d \in 0 .. n - 1  BY <1>1, <1>2, <1>4
  <2>2. PICK j \in DOMAIN ops : Processing(ops[j]) /\ ops[j].target = d
    BY <2>1 DEF Right, Covers
  <2>3. j \in Nat /\ j \in 1 .. Len(ops)  BY <1>1
  <2>4. CASE j <= k  BY <1>1, <2>2, <2>3, <2>4 DEF Executed
  <2>5. CASE j = k + 1  BY <1>1, <1>4, <2>2, <2>5
  <2>6. CASE j > k + 1
    <3>1. k + 1 \in 1 .. j - 1  BY <1>1, <2>3, <2>6
    <3>2. ops[k + 1].target < ops[j].target  BY <2>2, <3>1 DEF Right, InOrder
    <3> QED BY <1>1, <1>4, <2>2, <3>2
  <2> QED BY <1>1, <2>3, <2>4, <2>5, <2>6
<1> QED BY <1>1, <1>2, <1>4, <1>5, <1>6

LEMMA NamesTell ==
  ASSUME NEW i, NEW j, BackupName(i) = BackupName(j)  PROVE i = j
BY DEF BackupName

LEMMA SavedBlock ==
  ASSUME NEW old, NEW ops, NEW k \in Nat, NEW d, NEW blocks, NEW area,
         Executed(old, ops, k, d, blocks, area), NEW i \in Nat, SavedBefore(ops, k + 1, i)
  PROVE  BackupName(i) \in DOMAIN area /\ area[BackupName(i)].block = old[i + 1]
<1>1. PICK j \in 1 .. k : ops[j] = SaveBlock(i) /\ Fresh(ops, j)
  BY DEF SavedBefore
<1>2. ops[j].op = "backup" /\ ops[j].id = BackupName(i) /\ ops[j].source = i
  BY <1>1 DEF SaveBlock
<1> QED BY <1>1, <1>2 DEF Executed

LEMMA ReferenceFields ==
  ASSUME NEW i
  PROVE  /\ Installed(i).area = "installed" /\ Installed(i).index = i
         /\ FromBackup(i).area = "backup" /\ FromBackup(i).id = BackupName(i)
BY DEF Installed, FromBackup

(* What the next processing operation reads is on the device.              *)
LEMMA ReadsDevice ==
  ASSUME NEW old \in Image, NEW ops \in Seq(PlanOp), NEW k \in 0 .. Len(ops) - 1,
         NEW d \in 0 .. NewCount - 1,
         Processing(ops[k + 1]), ops[k + 1].target = d, Reads(old, ops, k + 1),
         Executed(old, ops, k, d, installed, backups)
  PROVE  /\ Applicable(ops[k + 1])
         /\ ops[k + 1].op = "copy" => SourceBlock(ops[k + 1].source) = NewBlock(d)
<1> DEFINE op == ops[k + 1]
<1>1. op \in PlanOp /\ k \in Nat  OBVIOUS
<1>2. d \in 0 .. NewCount /\ d \in Nat /\ installed = Mix(old, d)
  BY NewImage DEF Executed
<1>3. /\ Len(installed) \in Nat /\ Len(old) \in Nat /\ Len(old) <= Len(installed)
      /\ \A i \in 1 .. Len(installed) : installed[i] = IF i <= d THEN Expected[i] ELSE old[i]
  BY <1>2, MixBlocks
<1>4. CASE op.op = "keep"
  <2>1. d < Len(old) /\ old[d + 1] = NewBlock(d)  BY <1>4 DEF Reads
  <2>2. d + 1 \in 1 .. Len(installed) /\ ~(d + 1 <= d)  BY <1>2, <1>3, <2>1
  <2>3. installed[d + 1] = NewBlock(d) /\ InImage(d)
    BY <1>2, <1>3, <2>1, <2>2 DEF InImage
  <2>4. op.hash = NewBlock(d)  BY <1>1, <1>4, ProcessingForms
  <2> QED BY <1>4, <2>3, <2>4 DEF Applicable, HashMatches
<1>5. CASE op.op \in {"copy", "delta"}
  <2>1. Readable(op.source) /\ Delivers(op, SourceBlock(op.source))
    <3>1. CASE \E i \in 0 .. Len(Mix(old, d)) - 1 :
                 op.source = Installed(i) /\ Delivers(op, Mix(old, d)[i + 1])
      <4>1. PICK i \in 0 .. Len(Mix(old, d)) - 1 :
              op.source = Installed(i) /\ Delivers(op, Mix(old, d)[i + 1])
        BY <3>1
      <4>2. i \in 0 .. Len(installed) - 1 /\ Delivers(op, installed[i + 1])
        BY <1>2, <4>1
      <4>3. op.source.area = "installed" /\ op.source.index = i  BY <4>1, ReferenceFields
      <4> QED BY <4>2, <4>3 DEF Readable, SourceBlock, InImage
    <3>2. CASE \E i \in 0 .. Len(old) - 1 :
                 /\ op.source = FromBackup(i) /\ Delivers(op, old[i + 1])
                 /\ SavedBefore(ops, k + 1, i)
      <4>1. PICK i \in 0 .. Len(old) - 1 :
              /\ op.source = FromBackup(i) /\ Delivers(op, old[i + 1])
              /\ SavedBefore(ops, k + 1, i)
        BY <3>2
      <4>2. BackupName(i) \in DOMAIN backups /\ backups[BackupName(i)].block = old[i + 1]
        BY <1>1, <4>1, SavedBlock
      <4>3. op.source.area = "backup" /\ op.source.id = BackupName(i)
        BY <4>1, ReferenceFields
      <4> QED BY <4>1, <4>2, <4>3 DEF Readable, SourceBlock
    <3> QED BY <1>5, <3>1, <3>2 DEF Reads
  <2>2. CASE op.op = "copy"
    <3>1. op.hash = NewBlock(d)  BY <1>1, <2>2, ProcessingForms
    <3> QED BY <2>1, <2>2, <3>1 DEF Applicable, HashMatches, Delivers
  <2>3. CASE op.op = "delta"
    <3>1. op.hash = op.result /\ op.codec = "bsdiff4"  BY <1>1, <2>3, ProcessingForms
    <3> QED BY <2>1, <2>3, <3>1 DEF Applicable, HashMatches, Delivers
  <2> QED BY <1>5, <2>2, <2>3
<1>6. CASE op.op = "raw_insert"  BY <1>6 DEF Applicable
<1> QED BY <1>4, <1>5, <1>6 DEF Processing

LEMMA ProcessStep ==
  ASSUME NEW old \in Image, NEW ops, NEW n \in 0 .. NewCount, Right(old, ops, n),
         NEW k \in 0 .. Len(ops) - 1, Processing(ops[k + 1]),
         NEW d, Executed(old, ops, k, d, installed, backups)
  PROVE  /\ Applicable(ops[k + 1])
         /\ Succeed(ops[k + 1]) =>
              /\ Executed(old, ops, k + 1, d + 1, installed', backups')
              /\ backups' = backups
              /\ installed' = IF ops[k + 1].op = "keep" THEN installed
                              ELSE WriteBlock(installed, d, NewBlock(d))
              /\ rollbackReady' = (rollbackReady /\
                   (ops[k + 1].op = "keep" \/ Overwritten(d, NewBlock(d)) = {}))
<1> DEFINE op == ops[k + 1]
<1>1. ops \in Seq(PlanOp) /\ k \in Nat /\ k + 1 \in DOMAIN ops /\ op \in PlanOp
  BY DEF Right
<1>2. op.target = d /\ d < NewCount  BY NextTarget
<1>3. d \in 0 .. NewCount - 1 /\ d \in Nat  BY <1>2, NewImage DEF Executed
<1>4. Reads(old, ops, k + 1)  BY <1>1 DEF Right
<1>5. Applicable(op) /\ (op.op = "copy" => SourceBlock(op.source) = NewBlock(d))
  BY <1>1, <1>2, <1>3, <1>4, ReadsDevice
<1>6. ASSUME Succeed(op)
      PROVE  /\ backups' = backups
             /\ installed' = IF op.op = "keep" THEN installed
                             ELSE WriteBlock(installed, d, NewBlock(d))
             /\ rollbackReady' = (rollbackReady /\
                  (op.op = "keep" \/ Overwritten(d, NewBlock(d)) = {}))
             /\ installed' = Mix(old, d + 1)
  <2>1. installed = Mix(old, d)  BY DEF Executed
  <2>2. CASE op.op = "keep"
    <3>1. Yields(installed, backups, {})  BY <1>6, <2>2, SucceedYields
    <3>2. d < Len(old) /\ old[d + 1] = NewBlock(d)  BY <1>2, <1>4, <2>2 DEF Reads
    <3>3. Mix(old, d + 1) = Mix(old, d)  BY <1>3, <3>2, MixWrite
    <3> QED BY <2>1, <2>2, <3>1, <3>3 DEF Yields
  <2>3. CASE op.op # "keep"
    <3>1. Yields(WriteBlock(installed, d, NewBlock(d)), backups, Overwritten(d, NewBlock(d)))
      <4>1. CASE op.op = "copy"  BY <1>2, <1>5, <1>6, <4>1, SucceedYields
      <4>2. CASE op.op = "delta"
        <5>1. op.result = NewBlock(d)  BY <1>1, <1>2, <4>2, ProcessingForms
        <5> QED BY <1>2, <1>6, <4>2, <5>1, SucceedYields
      <4>3. CASE op.op = "raw_insert"
        <5>1. op.data = NewBlock(d)  BY <1>1, <1>2, <4>3, ProcessingForms
        <5> QED BY <1>2, <1>6, <4>3, <5>1, SucceedYields
      <4> QED BY <2>3, <4>1, <4>2, <4>3 DEF Processing
    <3>2. WriteBlock(Mix(old, d), d, NewBlock(d)) = Mix(old, d + 1)  BY <1>3, MixWrite
    <3> QED BY <2>1, <2>3, <3>1, <3>2 DEF Yields
  <2> QED BY <2>2, <2>3
<1>7. ASSUME Succeed(op)  PROVE Executed(old, ops, k + 1, d + 1, installed', backups')
  <2>1. d + 1 \in 0 .. NewCount  BY <1>3, MixWrite
  <2>2. \A j \in 1 .. k + 1 : Processing(ops[j]) => ops[j].target < d + 1
    <3>1. \A j \in 1 .. k : Processing(ops[j]) => ops[j].target < d  BY DEF Executed
    <3>2. \A j \in 1 .. k : Processing(ops[j]) => ops[j].target \in Nat
      BY <1>1, ProcessingForms
    <3> QED BY <1>1, <1>2, <1>3, <3>1, <3>2
  <2>3. \A t \in 0 .. d : \E j \in 1 .. k + 1 : Processing(ops[j]) /\ ops[j].target = t
    <3> TAKE t \in 0 .. d
    <3>1. CASE t = d  BY <1>1, <1>2, <3>1
    <3>2. CASE t # d
      <4>1. t \in 0 .. d - 1  BY <1>3, <3>2
      <4>2. PICK j \in 1 .. k : Processing(ops[j]) /\ ops[j].target = t
        BY <4>1 DEF Executed
      <4>3. j \in 1 .. k + 1  BY <1>1
      <4> QED BY <4>2, <4>3
    <3> QED BY <3>1, <3>2
  <2>4. \A id \in DOMAIN backups : \E j \in 1 .. k + 1 : ops[j].op = "backup" /\ ops[j].id = id
    BY <1>1 DEF Executed
  <2>5. op.op # "backup"  BY <1>1, ProcessingForms
  <2>6. \A j \in 1 .. k + 1 : ops[j].op = "backup" => j \in 1 .. k  BY <1>1, <2>5
  <2>7. (d + 1) - 1 = d  BY <1>3
  <2> QED BY <1>6, <1>7, <2>1, <2>2, <2>3, <2>4, <2>6, <2>7 DEF Executed
<1> QED BY <1>5, <1>6, <1>7

LEMMA SaveStep ==
  ASSUME NEW old \in Image, NEW ops, NEW n \in 0 .. NewCount, Right(old, ops, n),
         NEW k \in 0 .. Len(ops) - 1, ops[k + 1].op = "backup",
         NEW d, Executed(old, ops, k, d, installed, backups)
  PROVE  /\ Applicable(ops[k + 1])
         /\ Succeed(ops[k + 1]) =>
              /\ Executed(old, ops, k + 1, d, installed', backups')
              /\ installed' = installed /\ rollbackReady' = (rollbackReady /\ {} = {})
              /\ backups' = SaveBackup(backups, ops[k + 1].id,
                   [index |-> ops[k + 1].source, block |-> installed[ops[k + 1].source + 1]])
<1> DEFINE op == ops[k + 1]
           i == op.source
           record == [index |-> i, block |-> installed[i + 1]]
<1>1. ops \in Seq(PlanOp) /\ k \in Nat /\ k + 1 \in DOMAIN ops /\ op \in PlanOp
  BY DEF Right
<1>2. i \in Nat /\ op.id = BackupName(i) /\ op = SaveBlock(i)  BY <1>1, BackupForms
<1>3. i < Len(old) /\ \A j \in 1 .. k : ops[j] # op  BY <1>1 DEF Right, SavesOnce
<1>4. d \in 0 .. NewCount /\ d \in Nat /\ installed = Mix(old, d)
  BY NewImage DEF Executed
<1>5. /\ Len(installed) \in Nat /\ Len(old) \in Nat /\ Len(old) <= Len(installed)
      /\ \A m \in 1 .. Len(installed) : installed[m] = IF m <= d THEN Expected[m] ELSE old[m]
  <2> DEFINE w == Mix(old, d)
  <2>1. /\ Len(w) \in Nat /\ Len(old) \in Nat
        /\ Len(w) = (IF d <= Len(old) THEN Len(old) ELSE d)
        /\ \A m \in 1 .. Len(w) : w[m] = IF m <= d THEN Expected[m] ELSE old[m]
    BY <1>4, MixBlocks
  <2> HIDE DEF w
  <2>2. Len(old) <= Len(w)  BY <1>4, <2>1
  <2>3. installed = w  BY <1>4 DEF w
  <2> QED BY <2>1, <2>2, <2>3
<1>6. Applicable(op)  BY <1>2, <1>3, <1>5 DEF Applicable, InImage
<1>7. ASSUME Succeed(op)
      PROVE  /\ installed' = installed /\ rollbackReady' = (rollbackReady /\ {} = {})
             /\ backups' = SaveBackup(backups, op.id, record)
  <2>1. Yields(installed, SaveBackup(backups, op.id, record), {})  BY <1>7, SucceedYields
  <2> QED BY <2>1 DEF Yields
<1>8. ASSUME Succeed(op)  PROVE Executed(old, ops, k + 1, d, installed', backups')
  <2>1. \A id \in DOMAIN backups' : id \in DOMAIN backups \/ id = op.id
    BY <1>7, <1>8 DEF SaveBackup
  <2>2. \A id \in DOMAIN backups : id \in DOMAIN backups' /\ (id # op.id => backups'[id] = backups[id])
    BY <1>7, <1>8 DEF SaveBackup
  <2>3. op.id \in DOMAIN backups' /\ backups'[op.id] = record
    BY <1>7, <1>8 DEF SaveBackup
  <2>4. ~Processing(op)  BY DEF Processing
  <2>5. \A id \in DOMAIN backups' : \E j \in 1 .. k + 1 : ops[j].op = "backup" /\ ops[j].id = id
    <3> TAKE id \in DOMAIN backups'
    <3>1. CASE id = op.id  BY <1>1, <3>1
    <3>2. CASE id # op.id
      <4>1. PICK j \in 1 .. k : ops[j].op = "backup" /\ ops[j].id = id
        BY <2>1, <3>2 DEF Executed
      <4> QED BY <1>1, <4>1
    <3> QED BY <3>1, <3>2
  <2>6. ASSUME NEW j \in 1 .. k + 1, ops[j].op = "backup"
        PROVE  /\ ops[j].id \in DOMAIN backups'
               /\ backups'[ops[j].id] =
                    [index |-> ops[j].source, block |-> backups'[ops[j].id].block]
               /\ Fresh(ops, j) => backups'[ops[j].id].block = old[ops[j].source + 1]
    <3>1. CASE j = k + 1
      <4>1. ASSUME Fresh(ops, k + 1)  PROVE installed[i + 1] = old[i + 1]
        <5>1. d <= i
          <6>1. CASE d = 0  BY <1>2, <6>1
          <6>2. CASE d # 0
            <7>1. d - 1 \in 0 .. d - 1  BY <1>4, <6>2
            <7>2. PICK m \in 1 .. k : Processing(ops[m]) /\ ops[m].target = d - 1
              BY <7>1 DEF Executed
            <7>3. m \in 1 .. (k + 1) - 1  BY <1>1, <7>2
            <7>4. d - 1 < i  BY <4>1, <7>2, <7>3 DEF Fresh
            <7> QED BY <1>2, <1>4, <7>4
          <6> QED BY <6>1, <6>2
        <5>2. i + 1 \in 1 .. Len(installed) /\ ~(i + 1 <= d)  BY <1>2, <1>3, <1>4, <1>5, <5>1
        <5> QED BY <1>5, <5>2
      <4> QED BY <2>3, <3>1, <4>1
    <3>2. CASE j # k + 1
      <4>1. j \in 1 .. k /\ ops[j] # op /\ ops[j] \in PlanOp  BY <1>1, <1>3, <3>2
      <4>2. ops[j] = SaveBlock(ops[j].source) /\ ops[j].id = BackupName(ops[j].source)
        BY <2>6, <4>1, BackupForms
      <4>3. ops[j].id # op.id  BY <1>2, <4>1, <4>2, NamesTell
      <4>4. /\ ops[j].id \in DOMAIN backups
            /\ backups[ops[j].id] =
                 [index |-> ops[j].source, block |-> backups[ops[j].id].block]
            /\ Fresh(ops, j) => backups[ops[j].id].block = old[ops[j].source + 1]
        BY <2>6, <4>1 DEF Executed
      <4> QED BY <2>2, <4>3, <4>4
    <3> QED BY <3>1, <3>2
  <2>7. \A j \in 1 .. k + 1 : Processing(ops[j]) => j \in 1 .. k  BY <1>1, <2>4
  <2>8. \A t \in 0 .. d - 1 : \E j \in 1 .. k + 1 : Processing(ops[j]) /\ ops[j].target = t
    <3> TAKE t \in 0 .. d - 1
    <3>1. PICK j \in 1 .. k : Processing(ops[j]) /\ ops[j].target = t  BY DEF Executed
    <3> QED BY <1>1, <3>1
  <2>9. d \in 0 .. NewCount /\ installed' = Mix(old, d)  BY <1>4, <1>7, <1>8
  <2>10. \A j \in 1 .. k + 1 : Processing(ops[j]) => ops[j].target < d
    BY <2>7 DEF Executed
  <2> QED BY <2>5, <2>6, <2>8, <2>9, <2>10 DEF Executed
<1> QED BY <1>6, <1>7, <1>8

(* An operation of a plan for the first blocks, other than the cut.        *)
LEMMA ExecuteStep ==
  ASSUME NEW old \in Image, NEW ops, NEW n \in 0 .. NewCount, Right(old, ops, n),
         NEW k \in 0 .. Len(ops) - 1, ops[k + 1].op # "truncate",
         Holding(old, ops, k, installed, backups)
  PROVE  /\ Applicable(ops[k + 1])
         /\ Succeed(ops[k + 1]) => Holding(old, ops, k + 1, installed', backups')
<1>1. PICK d \in 0 .. NewCount : Executed(old, ops, k, d, installed, backups)
  BY DEF Holding
<1>2. ops \in Seq(PlanOp) /\ ops[k + 1] \in PlanOp  BY DEF Right
<1>3. CASE Processing(ops[k + 1])
  <2>1. Succeed(ops[k + 1]) => d + 1 \in 0 .. NewCount
    BY <1>1, <1>3, ProcessStep DEF Executed
  <2> QED BY <1>1, <1>3, <2>1, ProcessStep DEF Holding
<1>4. CASE ops[k + 1].op = "backup"
  <2> QED BY <1>1, <1>4, SaveStep DEF Holding
<1> QED BY <1>2, <1>3, <1>4, PlanOpForms DEF Processing

-----------------------------------------------------------------------------
(* Extending a plan.                                                       *)
Begins(ops, all) == Len(ops) <= Len(all) /\ \A k \in DOMAIN ops : all[k] = ops[k]

(* What an operation of the plan for block t reads is there.               *)
GoodSource(old, ops, t, source, block) ==
  \/ \E i \in 0 .. Len(Mix(old, t)) - 1 : source = Installed(i) /\ block = Mix(old, t)[i + 1]
  \/ \E i \in 0 .. Len(old) - 1 :
       /\ source = FromBackup(i) /\ block = old[i + 1]
       /\ \E j \in DOMAIN ops : ops[j] = SaveBlock(i) /\ Fresh(ops, j)

GoodOp(old, ops, t, op) ==
  /\ op \in PlanOp /\ Processing(op) /\ op.target = t
  /\ op.op = "keep" => t < Len(old) /\ old[t + 1] = NewBlock(t)
  /\ op.op \in {"copy", "delta"} =>
       \E block : GoodSource(old, ops, t, op.source, block) /\ Delivers(op, block)

LEMMA Earlier ==
  ASSUME NEW ops \in Seq(PlanOp), NEW all \in Seq(PlanOp), Begins(ops, all),
         NEW k \in DOMAIN ops
  PROVE  /\ k \in Nat /\ k <= Len(ops) /\ k \in DOMAIN all /\ all[k] = ops[k]
         /\ \A j \in 1 .. k - 1 : j \in DOMAIN ops /\ all[j] = ops[j]
<1>1. DOMAIN ops = 1 .. Len(ops) /\ DOMAIN all = 1 .. Len(all)  OBVIOUS
<1>2. Len(ops) \in Nat /\ Len(all) \in Nat /\ Len(ops) <= Len(all)  BY DEF Begins
<1>3. k \in Nat /\ k <= Len(ops) /\ k \in DOMAIN all  BY <1>1, <1>2
<1>4. \A j \in 1 .. k - 1 : j \in DOMAIN ops  BY <1>1, <1>2, <1>3
<1> QED BY <1>3, <1>4 DEF Begins

LEMMA EarlierKept ==
  ASSUME NEW old, NEW ops \in Seq(PlanOp), NEW all \in Seq(PlanOp), Begins(ops, all),
         NEW k \in DOMAIN ops
  PROVE  /\ Fresh(ops, k) => Fresh(all, k)
         /\ Reads(old, ops, k) => Reads(old, all, k)
         /\ SavesOnce(old, ops, k) => SavesOnce(old, all, k)
         /\ \A n \in Nat, m \in Nat : n <= m /\ Processing(ops[k]) /\ InOrder(ops, k, n)
                                        => InOrder(all, k, m)
<1>1. /\ k \in Nat /\ k <= Len(ops) /\ all[k] = ops[k]
      /\ \A j \in 1 .. k - 1 : j \in DOMAIN ops /\ all[j] = ops[j]
  BY Earlier
<1>2. Fresh(ops, k) => Fresh(all, k)  BY <1>1 DEF Fresh
<1>3. \A i : SavedBefore(ops, k, i) => SavedBefore(all, k, i)
  <2> TAKE i
  <2> HAVE SavedBefore(ops, k, i)
  <2>1. PICK j \in 1 .. k - 1 : ops[j] = SaveBlock(i) /\ Fresh(ops, j)
    BY DEF SavedBefore
  <2>2. j \in DOMAIN ops /\ all[j] = ops[j]  BY <1>1
  <2>3. \A m \in 1 .. j - 1 : all[m] = ops[m]  BY <2>2, Earlier
  <2>4. Fresh(all, j)  BY <2>1, <2>2, <2>3 DEF Fresh
  <2> QED BY <2>1, <2>2, <2>4 DEF SavedBefore
<1>4. Reads(old, ops, k) => Reads(old, all, k)
  <2> HAVE Reads(old, ops, k)
  <2> QED BY <1>1, <1>3 DEF Reads
<1>5. SavesOnce(old, ops, k) => SavesOnce(old, all, k)  BY <1>1 DEF SavesOnce
<1>6. \A n \in Nat, m \in Nat : n <= m /\ Processing(ops[k]) /\ InOrder(ops, k, n)
                                  => InOrder(all, k, m)
  <2> TAKE n \in Nat, m \in Nat
  <2> HAVE n <= m /\ Processing(ops[k]) /\ InOrder(ops, k, n)
  <2>1. ops[k].target \in Nat  BY ProcessingForms
  <2>2. all[k].target < m  BY <1>1, <2>1 DEF InOrder
  <2>3. \A j \in 1 .. k - 1 : Processing(all[j]) => all[j].target < all[k].target
    BY <1>1 DEF InOrder
  <2> QED BY <2>2, <2>3 DEF InOrder
<1> QED BY <1>2, <1>4, <1>5, <1>6

LEMMA AppendBegins ==
  ASSUME NEW ops \in Seq(PlanOp), NEW op \in PlanOp
  PROVE  LET all == Append(ops, op) IN
         /\ all \in Seq(PlanOp) /\ Begins(ops, all)
         /\ Len(ops) \in Nat /\ Len(all) = Len(ops) + 1 /\ all[Len(ops) + 1] = op
         /\ DOMAIN all = 1 .. Len(ops) + 1
         /\ \A k \in DOMAIN all : k \in DOMAIN ops \/ k = Len(ops) + 1
         /\ ops \o <<op>> = all
<1> DEFINE all == Append(ops, op)
<1>1. all \in Seq(PlanOp) /\ Len(ops) \in Nat /\ Len(all) = Len(ops) + 1
      /\ all[Len(ops) + 1] = op
  OBVIOUS
<1>2. \A k \in DOMAIN ops : all[k] = ops[k]  OBVIOUS
<1>3. DOMAIN all = 1 .. Len(ops) + 1 /\ DOMAIN ops = 1 .. Len(ops)  BY <1>1
<1>4. Begins(ops, all)  BY <1>1, <1>2 DEF Begins
<1>5. ops \o <<op>> = all  OBVIOUS
<1> QED BY <1>1, <1>3, <1>4, <1>5

LEMMA RightTargets ==
  ASSUME NEW old, NEW ops, NEW n \in Nat, Right(old, ops, n)
  PROVE  /\ ops \in Seq(PlanOp) /\ Len(ops) \in Nat /\ DOMAIN ops = 1 .. Len(ops)
         /\ \A k \in DOMAIN ops : Processing(ops[k]) => ops[k].target \in Nat /\ ops[k].target < n
BY ProcessingForms DEF Right, InOrder

(* The operation for the next block.                                       *)
LEMMA ExtendByBlock ==
  ASSUME NEW old \in Image, NEW ops, NEW n \in 0 .. NewCount - 1, Right(old, ops, n),
         NEW op, GoodOp(old, ops, n, op)
  PROVE  Right(old, Append(ops, op), n + 1)
<1> DEFINE all == Append(ops, op)
           last == Len(ops) + 1
<1>1. n \in Nat /\ n + 1 \in Nat /\ NewCount \in Nat  BY NewImage
<1>2. /\ ops \in Seq(PlanOp) /\ Len(ops) \in Nat /\ DOMAIN ops = 1 .. Len(ops)
      /\ \A k \in DOMAIN ops : Processing(ops[k]) => ops[k].target \in Nat /\ ops[k].target < n
  BY <1>1, RightTargets
<1>3. op \in PlanOp /\ Processing(op) /\ op.target = n  BY DEF GoodOp
<1>4. /\ all \in Seq(PlanOp) /\ Begins(ops, all)
      /\ all[last] = op /\ last \in DOMAIN all
      /\ \A k \in DOMAIN all : k \in DOMAIN ops \/ k = last
  BY <1>2, <1>3, AppendBegins
<1> HIDE DEF all
<1>5. \A k \in DOMAIN ops : k \in DOMAIN all /\ all[k] = ops[k]  BY <1>2, <1>4, Earlier
<1>6. Covers(all, n + 1)
  <2> SUFFICES ASSUME NEW t \in 0 .. (n + 1) - 1
               PROVE  \E k \in DOMAIN all : Processing(all[k]) /\ all[k].target = t
    BY DEF Covers
  <2>1. CASE t = n  BY <1>3, <1>4, <2>1
  <2>2. CASE t # n
    <3>1. t \in 0 .. n - 1  BY <1>1, <2>2
    <3>2. PICK k \in DOMAIN ops : Processing(ops[k]) /\ ops[k].target = t
      BY <3>1 DEF Right, Covers
    <3> QED BY <1>5, <3>2
  <2> QED BY <2>1, <2>2
<1>7. InOrder(all, last, n + 1)
  <2>1. \A j \in 1 .. last - 1 : j \in DOMAIN ops  BY <1>2
  <2>2. n < n + 1  BY <1>1
  <2> QED BY <1>2, <1>3, <1>4, <1>5, <2>1, <2>2 DEF InOrder
<1>8. Reads(old, all, last)
  <2>1. op.op = "keep" => n < Len(old) /\ old[n + 1] = NewBlock(n)  BY DEF GoodOp
  <2>2. ASSUME op.op \in {"copy", "delta"}
        PROVE  \/ \E i \in 0 .. Len(Mix(old, n)) - 1 :
                    op.source = Installed(i) /\ Delivers(op, Mix(old, n)[i + 1])
               \/ \E i \in 0 .. Len(old) - 1 :
                    /\ op.source = FromBackup(i) /\ Delivers(op, old[i + 1])
                    /\ SavedBefore(all, last, i)
    <3>1. PICK block : GoodSource(old, ops, n, op.source, block) /\ Delivers(op, block)
      BY <2>2 DEF GoodOp
    <3>2. CASE \E i \in 0 .. Len(Mix(old, n)) - 1 :
                 op.source = Installed(i) /\ block = Mix(old, n)[i + 1]
      BY <3>1, <3>2
    <3>3. CASE \E i \in 0 .. Len(old) - 1 :
                 /\ op.source = FromBackup(i) /\ block = old[i + 1]
                 /\ \E j \in DOMAIN ops : ops[j] = SaveBlock(i) /\ Fresh(ops, j)
      <4>1. PICK i \in 0 .. Len(old) - 1 :
              /\ op.source = FromBackup(i) /\ block = old[i + 1]
              /\ \E j \in DOMAIN ops : ops[j] = SaveBlock(i) /\ Fresh(ops, j)
        BY <3>3
      <4>2. PICK j \in DOMAIN ops : ops[j] = SaveBlock(i) /\ Fresh(ops, j)  BY <4>1
      <4>3. Fresh(all, j) /\ all[j] = SaveBlock(i)
        BY <1>2, <1>4, <1>5, <4>2, EarlierKept
      <4>4. j \in 1 .. last - 1  BY <1>2
      <4>5. SavedBefore(all, last, i)  BY <4>3, <4>4 DEF SavedBefore
      <4> QED BY <3>1, <4>1, <4>5
    <3> QED BY <3>1, <3>2, <3>3 DEF GoodSource
  <2> QED BY <1>3, <1>4, <2>1, <2>2 DEF Reads
<1>9. ASSUME NEW k \in DOMAIN all
      PROVE  /\ Processing(all[k]) => InOrder(all, k, n + 1) /\ Reads(old, all, k)
             /\ all[k].op = "backup" => SavesOnce(old, all, k)
  <2>1. CASE k = last
    <3>1. op.op # "backup"  BY <1>3, ProcessingForms
    <3> QED BY <1>4, <1>7, <1>8, <2>1, <3>1
  <2>2. CASE k \in DOMAIN ops
    <3>1. all[k] = ops[k]  BY <1>5, <2>2
    <3>2. Processing(ops[k]) => InOrder(all, k, n + 1)
      <4>1. n <= n + 1  BY <1>1
      <4>2. Processing(ops[k]) => InOrder(ops, k, n)  BY <2>2 DEF Right
      <4> QED BY <1>1, <1>2, <1>4, <2>2, <4>1, <4>2, EarlierKept
    <3>3. /\ Processing(ops[k]) => Reads(old, ops, k)
          /\ ops[k].op = "backup" => SavesOnce(old, ops, k)
      BY <2>2 DEF Right
    <3>4. /\ Processing(ops[k]) => Reads(old, all, k)
          /\ ops[k].op = "backup" => SavesOnce(old, all, k)
      BY <1>2, <1>4, <2>2, <3>3, EarlierKept
    <3> QED BY <3>1, <3>2, <3>4
  <2> QED BY <1>4, <2>1, <2>2
<1> QED BY <1>4, <1>6, <1>9 DEF Right, all

(* Operations that process nothing: backups of blocks that have none, and  *)
(* the cut.                                                                *)
LEMMA ExtendByOthers ==
  ASSUME NEW old \in Image, NEW ops, NEW n \in Nat, Right(old, ops, n),
         NEW all \in Seq(PlanOp), Begins(ops, all),
         \A k \in DOMAIN all : k \notin DOMAIN ops =>
           /\ ~Processing(all[k])
           /\ all[k].op = "backup" => SavesOnce(old, all, k)
  PROVE  Right(old, all, n)
<1>1. ops \in Seq(PlanOp)  BY DEF Right
<1>2. \A k \in DOMAIN ops : k \in DOMAIN all /\ all[k] = ops[k]  BY <1>1, Earlier
<1>3. Covers(all, n)
  <2> SUFFICES ASSUME NEW t \in 0 .. n - 1
               PROVE  \E k \in DOMAIN all : Processing(all[k]) /\ all[k].target = t
    BY DEF Covers
  <2>1. PICK k \in DOMAIN ops : Processing(ops[k]) /\ ops[k].target = t
    BY DEF Right, Covers
  <2> QED BY <1>2, <2>1
<1>4. ASSUME NEW k \in DOMAIN all
      PROVE  /\ Processing(all[k]) => InOrder(all, k, n) /\ Reads(old, all, k)
             /\ all[k].op = "backup" => SavesOnce(old, all, k)
  <2>1. CASE k \notin DOMAIN ops  BY <2>1
  <2>2. CASE k \in DOMAIN ops
    <3>1. all[k] = ops[k]  BY <1>2, <2>2
    <3>2. /\ Processing(ops[k]) => InOrder(ops, k, n) /\ Reads(old, ops, k)
          /\ ops[k].op = "backup" => SavesOnce(old, ops, k)
      BY <2>2 DEF Right
    <3>3. Processing(ops[k]) => InOrder(all, k, n)
      <4>1. n <= n  OBVIOUS
      <4> QED BY <1>1, <2>2, <3>2, <4>1, EarlierKept
    <3>4. /\ Processing(ops[k]) => Reads(old, all, k)
          /\ ops[k].op = "backup" => SavesOnce(old, all, k)
      BY <1>1, <2>2, <3>2, EarlierKept
    <3> QED BY <3>1, <3>3, <3>4
  <2> QED BY <2>1, <2>2
<1> QED BY <1>3, <1>4 DEF Right

-----------------------------------------------------------------------------
(* Lists of indices.                                                       *)
Ordered(S, s) ==
  s \in [1 .. Cardinality(S) -> S] /\ \A i, j \in DOMAIN s : i < j => s[i] < s[j]

(* A finite set of numbers can be sorted: the least number of elements of  *)
(* one that cannot would be that of one without its least element.         *)
LEMMA SortedExists ==
  ASSUME NEW S, S \subseteq Nat, IsFiniteSet(S)
  PROVE  \E s : Ordered(S, s)
<1> DEFINE Bad(n) == \E T \in SUBSET Nat :
                       IsFiniteSet(T) /\ Cardinality(T) = n /\ ~ \E s : Ordered(T, s)
           Sizes == {n \in Nat : Bad(n)}
<1>1. SUFFICES ASSUME Sizes # {}  PROVE FALSE
  <2>1. Cardinality(S) \in Nat  BY FS_CardinalityType
  <2>2. SUFFICES ASSUME ~ \E s : Ordered(S, s)  PROVE FALSE  OBVIOUS
  <2>3. Bad(Cardinality(S))  BY <2>2
  <2> QED BY <2>1, <2>3
<1>2. PICK n \in Sizes : \A m \in Sizes : n <= m  BY <1>1, NatMin
<1>3. PICK T \in SUBSET Nat :
        IsFiniteSet(T) /\ Cardinality(T) = n /\ ~ \E s : Ordered(T, s)
  BY <1>2
<1>4. CASE T = {}
  <2> DEFINE s == [i \in {} |-> 0]
  <2>1. n = 0  BY <1>3, <1>4, FS_EmptySet
  <2>2. 1 .. n = {}  BY <2>1
  <2>3. s \in [1 .. n -> T] /\ DOMAIN s = {}  BY <2>2
  <2>4. Ordered(T, s)  BY <1>3, <2>3 DEF Ordered
  <2> QED BY <1>3, <2>4
<1>5. CASE T # {}
  <2>1. PICK x \in T : \A y \in T : x <= y  BY <1>5, NatMin
  <2> DEFINE R == T \ {x}
  <2>2. IsFiniteSet(R) /\ Cardinality(R) = n - 1 /\ R \in SUBSET Nat
    BY <1>3, <2>1, FS_RemoveElement
  <2>3. n \in Nat /\ n - 1 \in Nat  BY <1>2, <2>2, FS_CardinalityType
  <2>4. ~Bad(n - 1)
    <3> SUFFICES ASSUME Bad(n - 1)  PROVE FALSE  OBVIOUS
    <3>1. n - 1 \in Sizes  BY <2>3
    <3>2. n <= n - 1  BY <1>2, <3>1
    <3> QED BY <2>3, <3>2
  <2>5. PICK r : Ordered(R, r)  BY <2>2, <2>4
  <2>6. r \in [1 .. n - 1 -> R] /\ \A i, j \in 1 .. n - 1 : i < j => r[i] < r[j]
    BY <2>2, <2>5 DEF Ordered
  <2> DEFINE s == [i \in 1 .. n |-> IF i = 1 THEN x ELSE r[i - 1]]
  <2>7. \A i \in 1 .. n : i # 1 => i - 1 \in 1 .. n - 1  BY <2>3
  <2>8. s \in [1 .. n -> T]
    <3>1. \A i \in 1 .. n : s[i] \in T  BY <2>1, <2>6, <2>7
    <3> QED BY <3>1
  <2>9. ASSUME NEW i \in 1 .. n, NEW j \in 1 .. n, i < j  PROVE s[i] < s[j]
    <3>1. j # 1 /\ s[j] = r[j - 1] /\ r[j - 1] \in R  BY <2>3, <2>6, <2>7, <2>9
    <3>2. CASE i = 1
      <4>1. x <= r[j - 1] /\ x # r[j - 1] /\ x \in Nat /\ r[j - 1] \in Nat
        BY <2>1, <3>1
      <4> QED BY <3>1, <3>2, <4>1
    <3>3. CASE i # 1
      <4>1. i - 1 \in 1 .. n - 1 /\ j - 1 \in 1 .. n - 1 /\ i - 1 < j - 1
        BY <2>3, <2>7, <2>9, <3>1, <3>3
      <4>2. r[i - 1] < r[j - 1]  BY <2>6, <4>1
      <4> QED BY <3>1, <3>3, <4>2
    <3> QED BY <3>2, <3>3
  <2> HIDE DEF s
  <2>10. DOMAIN s = 1 .. n  BY <2>8
  <2>11. Ordered(T, s)  BY <1>3, <2>8, <2>9, <2>10 DEF Ordered
  <2> QED BY <1>3, <2>11
<1> QED BY <1>4, <1>5

(* A list of all elements of a set, each once.                             *)
Lists(S, s) ==
  /\ s \in Seq(S) /\ \A x \in S : \E k \in DOMAIN s : s[k] = x
  /\ \A i, j \in DOMAIN s : s[i] = s[j] => i = j

LEMMA InjectionLists ==
  ASSUME NEW S, IsFiniteSet(S), NEW s \in [1 .. Cardinality(S) -> S],
         \A i, j \in DOMAIN s : s[i] = s[j] => i = j
  PROVE  Lists(S, s) /\ Len(s) = Cardinality(S)
<1>1. Cardinality(S) \in Nat  BY FS_CardinalityType
<1>2. s \in Injection(1 .. Cardinality(S), S)  BY DEF Injection, IsInjective
<1>3. IsFiniteSet(1 .. Cardinality(S)) /\ Cardinality(1 .. Cardinality(S)) = Cardinality(S)
  BY <1>1, FS_Interval
<1>4. s \in Surjection(1 .. Cardinality(S), S)  BY <1>2, <1>3, FS_Injection
<1>5. \A x \in S : \E k \in DOMAIN s : s[k] = x  BY <1>4 DEF Surjection
<1>6. s \in Seq(S) /\ Len(s) = Cardinality(S)  BY <1>1
<1> QED BY <1>5, <1>6 DEF Lists

LEMMA AscendingLists ==
  ASSUME NEW S, S \subseteq Nat, IsFiniteSet(S)
  PROVE  Lists(S, Ascending(S))
<1> DEFINE s == Ascending(S)
<1>1. s \in [1 .. Cardinality(S) -> S] /\ \A i, j \in DOMAIN s : i < j => s[i] < s[j]
  <2>1. \E r \in [1 .. Cardinality(S) -> S] : \A i, j \in DOMAIN r : i < j => r[i] < r[j]
    BY SortedExists DEF Ordered
  <2> QED BY <2>1 DEF Ascending
<1> HIDE DEF s
<1>2. ASSUME NEW i \in DOMAIN s, NEW j \in DOMAIN s, s[i] = s[j]  PROVE i = j
  <2>1. i \in Int /\ j \in Int /\ s[i] \in Nat /\ s[j] \in Nat
    <3>1. DOMAIN s = 1 .. Cardinality(S) /\ Cardinality(S) \in Nat
      BY <1>1, FS_CardinalityType
    <3>2. i \in 1 .. Cardinality(S) /\ j \in 1 .. Cardinality(S)  BY <3>1
    <3>3. s[i] \in S /\ s[j] \in S  BY <1>1, <3>2
    <3>4. \A x \in S : x \in Nat  OBVIOUS
    <3>5. s[i] \in Nat /\ s[j] \in Nat  BY <3>3, <3>4, Zenon
    <3> QED BY <3>1, <3>2, <3>5
  <2>2. CASE i < j  BY <1>1, <1>2, <2>1, <2>2
  <2>3. CASE j < i  BY <1>1, <1>2, <2>1, <2>3
  <2> QED BY <2>1, <2>2, <2>3
<1>3. Lists(S, s)  BY <1>1, <1>2, InjectionLists
<1> QED BY <1>3 DEF s

LEMMA SetToSeqLists ==
  ASSUME NEW S, IsFiniteSet(S)
  PROVE  Lists(S, SetToSeq(S)) /\ Len(SetToSeq(S)) = Cardinality(S)
<1> DEFINE s == SetToSeq(S)
<1>1. \E f \in [1 .. Cardinality(S) -> S] : IsInjective(f)
  <2>1. PICK f \in Bijection(1 .. Cardinality(S), S) : TRUE
    BY FS_CardinalityType DEF ExistsBijection
  <2>2. f \in [1 .. Cardinality(S) -> S] /\ IsInjective(f)  BY <2>1 DEF Bijection, Injection
  <2> QED BY <2>2
<1>2. s \in [1 .. Cardinality(S) -> S] /\ IsInjective(s)  BY <1>1 DEF SetToSeq
<1> HIDE DEF s
<1>3. \A i, j \in DOMAIN s : s[i] = s[j] => i = j  BY <1>2 DEF IsInjective
<1>4. Lists(S, s) /\ Len(s) = Cardinality(S)  BY <1>2, <1>3, InjectionLists
<1> QED BY <1>4 DEF s

-----------------------------------------------------------------------------
(* Saving blocks.                                                          *)
SavedIn(ops, i) == \E k \in DOMAIN ops : ops[k] = SaveBlock(i)

AddsSaves(ops, all, S) ==
  \A k \in DOMAIN all : k \notin DOMAIN ops => \E i \in S : all[k] = SaveBlock(i)

LEMMA BackupsForm ==
  ASSUME NEW indices \in Seq(Nat)
  PROVE  /\ Backups(indices) \in Seq(PlanOp) /\ Len(Backups(indices)) = Len(indices)
         /\ DOMAIN Backups(indices) = DOMAIN indices
         /\ \A k \in DOMAIN indices : Backups(indices)[k] = SaveBlock(indices[k])
<1>1. \A k \in DOMAIN indices : indices[k] \in Nat  OBVIOUS
<1>2. \A k \in DOMAIN indices : SaveBlock(indices[k]) \in PlanOp  BY <1>1 DEF PlanOp
<1>3. DOMAIN indices = 1 .. Len(indices) /\ Len(indices) \in Nat  OBVIOUS
<1>4. [k \in 1 .. Len(indices) |-> SaveBlock(indices[k])] \in Seq(PlanOp)
  BY <1>2, <1>3
<1>5. Len([k \in 1 .. Len(indices) |-> SaveBlock(indices[k])]) = Len(indices)  BY <1>3
<1> QED BY <1>3, <1>4, <1>5 DEF Backups

LEMMA SaveForm ==
  ASSUME NEW i
  PROVE  /\ SaveBlock(i).op = "backup" /\ SaveBlock(i).source = i
         /\ ~Processing(SaveBlock(i))
BY DEF SaveBlock, Processing

LEMMA ConcatBegins ==
  ASSUME NEW ops \in Seq(PlanOp), NEW more \in Seq(PlanOp)
  PROVE  LET all == ops \o more IN
         /\ all \in Seq(PlanOp) /\ Begins(ops, all)
         /\ Len(ops) \in Nat /\ Len(more) \in Nat /\ Len(all) = Len(ops) + Len(more)
         /\ DOMAIN all = 1 .. Len(ops) + Len(more)
         /\ \A k \in DOMAIN all :
              k \notin DOMAIN ops => k - Len(ops) \in DOMAIN more /\ all[k] = more[k - Len(ops)]
         /\ \A k \in DOMAIN more : Len(ops) + k \in DOMAIN all /\ all[Len(ops) + k] = more[k]
<1> DEFINE all == ops \o more
<1>1. all \in Seq(PlanOp) /\ Len(all) = Len(ops) + Len(more)  OBVIOUS
<1>2. /\ Len(ops) \in Nat /\ Len(more) \in Nat /\ DOMAIN ops = 1 .. Len(ops)
      /\ DOMAIN more = 1 .. Len(more)
  OBVIOUS
<1>3. DOMAIN all = 1 .. Len(ops) + Len(more)  BY <1>1
<1>4. \A k \in DOMAIN ops : all[k] = ops[k]  BY <1>2
<1>5. Begins(ops, all)  BY <1>1, <1>2, <1>4 DEF Begins
<1>6. \A k \in DOMAIN all : k \notin DOMAIN ops =>
        k - Len(ops) \in DOMAIN more /\ all[k] = more[k - Len(ops)]
  <2> TAKE k \in DOMAIN all
  <2> HAVE k \notin DOMAIN ops
  <2>1. k \in 1 .. Len(ops) + Len(more) /\ ~(k <= Len(ops))  BY <1>2, <1>3
  <2> QED BY <1>2, <2>1
<1>7. \A k \in DOMAIN more : Len(ops) + k \in DOMAIN all /\ all[Len(ops) + k] = more[k]
  BY <1>2, <1>3
<1> QED BY <1>1, <1>2, <1>3, <1>5, <1>6, <1>7

(* Blocks of the old image that the plan has not saved are saved.          *)
LEMMA ExtendBySaves ==
  ASSUME NEW old \in Image, NEW ops, NEW n \in Nat, Right(old, ops, n),
         NEW S, S \subseteq 0 .. Len(old) - 1, NEW indices, Lists(S, indices),
         \A i \in S : ~SavedIn(ops, i)
  PROVE  /\ Right(old, ops \o Backups(indices), n)
         /\ \A i \in S : SavedIn(ops \o Backups(indices), i)
         /\ Uncut(ops) => Uncut(ops \o Backups(indices))
         /\ AddsSaves(ops, ops \o Backups(indices), S)
<1> DEFINE more == Backups(indices)
           all == ops \o more
<1>1. Len(old) \in Nat /\ S \subseteq Nat  BY DEF Image
<1>2. indices \in Seq(S) /\ indices \in Seq(Nat)
  <2>1. indices \in Seq(S) /\ S \subseteq Nat  BY <1>1 DEF Lists
  <2>2. \A k \in 1 .. Len(indices) : indices[k] \in S  BY <2>1
  <2>3. \A x \in S : x \in Nat  BY <2>1
  <2>4. \A k \in 1 .. Len(indices) : indices[k] \in Nat  BY <2>2, <2>3, Zenon
  <2> QED BY <2>1, <2>4
<1>3. /\ more \in Seq(PlanOp) /\ DOMAIN more = DOMAIN indices
      /\ \A k \in DOMAIN indices : more[k] = SaveBlock(indices[k]) /\ indices[k] \in S
  BY <1>2, BackupsForm
<1>4. ops \in Seq(PlanOp)  BY DEF Right
<1> HIDE DEF more
<1>5. /\ all \in Seq(PlanOp) /\ Begins(ops, all) /\ Len(ops) \in Nat
      /\ DOMAIN all = 1 .. Len(ops) + Len(more) /\ Len(more) \in Nat
      /\ \A k \in DOMAIN all :
           k \notin DOMAIN ops => k - Len(ops) \in DOMAIN more /\ all[k] = more[k - Len(ops)]
      /\ \A k \in DOMAIN more : Len(ops) + k \in DOMAIN all /\ all[Len(ops) + k] = more[k]
  BY <1>3, <1>4, ConcatBegins
<1> HIDE DEF all
<1>6. \A k \in DOMAIN ops : k \in DOMAIN all /\ all[k] = ops[k]  BY <1>4, <1>5, Earlier
<1>7. ASSUME NEW k \in DOMAIN all, k \notin DOMAIN ops
      PROVE  /\ ~Processing(all[k]) /\ SavesOnce(old, all, k)
             /\ \E i \in S : all[k] = SaveBlock(i)
  <2> DEFINE m == k - Len(ops)
             i == indices[m]
  <2>1. m \in DOMAIN more /\ all[k] = more[m]  BY <1>5, <1>7
  <2>2. m \in DOMAIN indices /\ all[k] = SaveBlock(i) /\ i \in S  BY <1>3, <2>1
  <2>3. all[k].source = i /\ ~Processing(all[k])  BY <2>2, SaveForm
  <2>4. i < Len(old)
    <3>1. i \in 0 .. Len(old) - 1  BY <2>2, Zenon
    <3> QED BY <1>1, <3>1
  <2>5. ASSUME NEW j \in 1 .. k - 1, all[j] = all[k]  PROVE FALSE
    <3>1. j \in DOMAIN all /\ k \in Nat  BY <1>5
    <3>2. CASE j \in DOMAIN ops
      <4>1. ops[j] = SaveBlock(i)  BY <1>6, <2>2, <2>5, <3>2
      <4> QED BY <2>2, <3>2, <4>1 DEF SavedIn
    <3>3. CASE j \notin DOMAIN ops
      <4>1. j - Len(ops) \in DOMAIN more /\ all[j] = more[j - Len(ops)]
        BY <1>5, <3>1, <3>3
      <4>2. j - Len(ops) \in DOMAIN indices /\ all[j] = SaveBlock(indices[j - Len(ops)])
        BY <1>3, <4>1
      <4>3. indices[j - Len(ops)] = i  BY <2>2, <2>5, <4>2, SaveForm, ZenonT(40)
      <4>4. j - Len(ops) = m  BY <2>2, <4>2, <4>3 DEF Lists
      <4> QED BY <1>5, <3>1, <4>4
    <3> QED BY <3>2, <3>3
  <2>6. SavesOnce(old, all, k)  BY <2>3, <2>4, <2>5 DEF SavesOnce
  <2> QED BY <2>2, <2>3, <2>6
<1>8. Right(old, all, n)  BY <1>5, <1>7, ExtendByOthers
<1>9. ASSUME NEW i \in S  PROVE SavedIn(all, i)
  <2>1. PICK k \in DOMAIN indices : indices[k] = i  BY DEF Lists
  <2>2. k \in DOMAIN more /\ more[k] = SaveBlock(i)  BY <1>3, <2>1
  <2> QED BY <1>5, <2>2 DEF SavedIn
<1>10. ASSUME Uncut(ops)  PROVE Uncut(all)
  <2> SUFFICES ASSUME NEW k \in DOMAIN all  PROVE all[k].op # "truncate"  BY DEF Uncut
  <2>1. CASE k \in DOMAIN ops  BY <1>6, <1>10, <2>1 DEF Uncut
  <2>2. CASE k \notin DOMAIN ops  BY <1>7, <2>2, SaveForm
  <2> QED BY <2>1, <2>2
<1>11. AddsSaves(ops, all, S)  BY <1>7 DEF AddsSaves
<1> QED BY <1>8, <1>9, <1>10, <1>11 DEF all, more

-----------------------------------------------------------------------------
(* The operations that the planners choose.                                *)
LEMMA MixAt ==
  ASSUME NEW old \in Image, NEW t \in 0 .. NewCount - 1
  PROVE  /\ Mix(old, t) \in Image /\ Len(Mix(old, t)) \in Nat /\ Len(old) \in Nat
         /\ t \in Nat /\ t < NewCount /\ t \in 0 .. NewCount
         /\ NewBlock(t) \in Block
         /\ Len(old) <= Len(Mix(old, t))
         /\ t < Len(Mix(old, t)) => t < Len(old)
         /\ \A i \in t .. Len(old) - 1 : Mix(old, t)[i + 1] = old[i + 1]
         /\ \A i \in 0 .. Len(Mix(old, t)) - 1 : i \in Nat /\ Mix(old, t)[i + 1] \in Block
<1> DEFINE w == Mix(old, t)
<1>1. t \in Nat /\ t < NewCount /\ t \in 0 .. NewCount /\ NewBlock(t) \in Block  BY NewImage
<1>2. /\ w \in Image /\ Len(w) \in Nat /\ Len(old) \in Nat
      /\ Len(w) = (IF t <= Len(old) THEN Len(old) ELSE t)
      /\ \A i \in 1 .. Len(w) : w[i] = IF i <= t THEN Expected[i] ELSE old[i]
  BY <1>1, MixBlocks
<1> HIDE DEF w
<1>3. Len(old) <= Len(w) /\ (t < Len(w) => t < Len(old))  BY <1>1, <1>2
<1>4. ASSUME NEW i \in t .. Len(old) - 1  PROVE w[i + 1] = old[i + 1]
  <2>1. i + 1 \in 1 .. Len(w) /\ ~(i + 1 <= t)  BY <1>1, <1>2, <1>3
  <2> QED BY <1>2, <2>1
<1>5. ASSUME NEW i \in 0 .. Len(w) - 1  PROVE i \in Nat /\ w[i + 1] \in Block
  <2>1. i + 1 \in 1 .. Len(w) /\ w \in Seq(Block)  BY <1>2 DEF Image
  <2> QED BY <2>1
<1> QED BY <1>1, <1>2, <1>3, <1>4, <1>5 DEF w

LEMMA GoodSourceType ==
  ASSUME NEW old \in Image, NEW t \in 0 .. NewCount - 1, NEW ops, NEW source, NEW block,
         GoodSource(old, ops, t, source, block)
  PROVE  source \in Reference /\ block \in Block
<1>1. CASE \E i \in 0 .. Len(Mix(old, t)) - 1 :
             source = Installed(i) /\ block = Mix(old, t)[i + 1]
  <2>1. PICK i \in 0 .. Len(Mix(old, t)) - 1 :
          source = Installed(i) /\ block = Mix(old, t)[i + 1]
    BY <1>1
  <2>2. i \in Nat /\ block \in Block  BY <2>1, MixAt
  <2> QED BY <2>1, <2>2, ReferencesExist
<1>2. CASE \E i \in 0 .. Len(old) - 1 : source = FromBackup(i) /\ block = old[i + 1]
  <2>1. PICK i \in 0 .. Len(old) - 1 : source = FromBackup(i) /\ block = old[i + 1]
    BY <1>2
  <2>2. i \in Nat /\ i + 1 \in 1 .. Len(old) /\ old \in Seq(Block)  BY MixAt DEF Image
  <2>3. block \in Block  BY <2>1, <2>2
  <2> QED BY <2>1, <2>2, <2>3, ReferencesExist
<1> QED BY <1>1, <1>2 DEF GoodSource

LEMMA PlacedSource ==
  ASSUME NEW old \in Image, NEW t, NEW ops, NEW i \in 0 .. Len(Mix(old, t)) - 1
  PROVE  GoodSource(old, ops, t, Installed(i), Mix(old, t)[i + 1])
BY DEF GoodSource

LEMMA AreaSource ==
  ASSUME NEW old \in Image, NEW t, NEW ops, NEW area, AreaPlanned(old, ops, area),
         NEW i \in DOMAIN area
  PROVE  GoodSource(old, ops, t, FromBackup(i), area[i])
BY DEF GoodSource, AreaPlanned

LEMMA KeepGood ==
  ASSUME NEW old \in Image, NEW t \in 0 .. NewCount - 1, NEW ops,
         t < Len(old), old[t + 1] = NewBlock(t)
  PROVE  GoodOp(old, ops, t, KeepBlock(t))
<1>1. t \in Nat  BY MixAt
<1>2. KeepBlock(t) \in PlanOp  BY <1>1 DEF PlanOp
<1> QED BY <1>2 DEF GoodOp, KeepBlock, Processing

LEMMA RawGood ==
  ASSUME NEW old \in Image, NEW t \in 0 .. NewCount - 1, NEW ops
  PROVE  GoodOp(old, ops, t, RawBlock(t))
<1>1. t \in Nat  BY MixAt
<1>2. RawBlock(t) \in PlanOp  BY <1>1 DEF PlanOp
<1> QED BY <1>2 DEF GoodOp, RawBlock, Processing

LEMMA CopyGood ==
  ASSUME NEW old \in Image, NEW t \in 0 .. NewCount - 1, NEW ops, NEW source,
         GoodSource(old, ops, t, source, NewBlock(t))
  PROVE  GoodOp(old, ops, t, CopyBlock(t, source))
<1> DEFINE op == CopyBlock(t, source)
<1>1. t \in Nat /\ source \in Reference  BY MixAt, GoodSourceType
<1>2. op \in PlanOp  BY <1>1 DEF PlanOp
<1>3. op.op = "copy" /\ op.source = source /\ op.target = t  BY DEF CopyBlock
<1> HIDE DEF op
<1>4. GoodSource(old, ops, t, op.source, NewBlock(t)) /\ Delivers(op, NewBlock(t))
  BY <1>3 DEF Delivers
<1>5. GoodOp(old, ops, t, op)  BY <1>2, <1>3, <1>4 DEF GoodOp, Processing
<1> QED BY <1>5 DEF op

LEMMA PatchGood ==
  ASSUME NEW old \in Image, NEW t \in 0 .. NewCount - 1, NEW ops, NEW source, NEW block,
         GoodSource(old, ops, t, source, block), NEW size \in PatchSizes
  PROVE  GoodOp(old, ops, t, PatchBlock(t, source, block, size))
<1> DEFINE op == PatchBlock(t, source, block, size)
<1>1. /\ t \in Nat /\ source \in Reference /\ block \in Block
      /\ size \in Nat
  BY MixAt, GoodSourceType, PlannersAssumption
<1>2. op \in PlanOp  BY <1>1 DEF PlanOp
<1>3. op.op = "delta" /\ op.source = source /\ op.target = t /\ op.base = block
  BY DEF PatchBlock
<1> HIDE DEF op
<1>4. GoodSource(old, ops, t, op.source, block) /\ Delivers(op, block)
  BY <1>3 DEF Delivers
<1>5. GoodOp(old, ops, t, op)  BY <1>2, <1>3, <1>4 DEF GoodOp, Processing
<1> QED BY <1>5 DEF op

LEMMA ReferencesDiffer ==
  ASSUME NEW i, NEW j
  PROVE  /\ Installed(i) = Installed(j) => i = j
         /\ Installed(i) # FromBackup(j)
BY ReferenceFields

(* A copy of a block in place is a keep when it is the target itself.      *)
LEMMA PlacedCopyGood ==
  ASSUME NEW old \in Image, NEW t \in 0 .. NewCount - 1, NEW ops,
         NEW i \in 0 .. Len(Mix(old, t)) - 1, Mix(old, t)[i + 1] = NewBlock(t)
  PROVE  GoodOp(old, ops, t, CopyOrKeep(t, Installed(i)))
<1>1. CASE i = t
  <2>1. t < Len(Mix(old, t))  BY <1>1, MixAt
  <2>2. t < Len(old) /\ t \in Nat /\ Len(old) \in Nat  BY <2>1, MixAt
  <2>3. t \in t .. Len(old) - 1  BY <2>2
  <2>4. old[t + 1] = NewBlock(t)  BY <1>1, <2>3, MixAt
  <2> QED BY <1>1, <2>2, <2>4, KeepGood DEF CopyOrKeep
<1>2. CASE i # t
  <2>1. Installed(i) # Installed(t)  BY <1>2, ReferencesDiffer
  <2>2. GoodSource(old, ops, t, Installed(i), NewBlock(t))  BY PlacedSource
  <2> QED BY <2>1, <2>2, CopyGood DEF CopyOrKeep
<1> QED BY <1>1, <1>2

LEMMA ExactGood ==
  ASSUME NEW old \in Image, NEW t \in 0 .. NewCount - 1, NEW ops, NEW area,
         AreaPlanned(old, ops, area), NEW source \in ExactSource(t, Mix(old, t), area)
  PROVE  GoodOp(old, ops, t, CopyOrKeep(t, source))
<1> DEFINE w == Mix(old, t)
           places == {i \in 0 .. Len(w) - 1 : w[i + 1] = NewBlock(t)}
           kept == {i \in DOMAIN area : area[i] = NewBlock(t)}
<1>1. CASE t \in places
  <2>1. source = Installed(t)  BY <1>1 DEF ExactSource
  <2> QED BY <1>1, <2>1, PlacedCopyGood
<1>2. CASE t \notin places /\ places # {}
  <2>1. source = Installed(Min(places))  BY <1>2 DEF ExactSource
  <2>2. \A i \in places : i \in Nat  OBVIOUS
  <2> HIDE DEF places
  <2>3. Min(places) \in places  BY <1>2, <2>2, MinIn
  <2> USE DEF places
  <2>4. PICK i \in places : i = Min(places)  BY <2>3
  <2> QED BY <2>1, <2>4, PlacedCopyGood
<1>3. CASE places = {}
  <2>1. PICK i \in kept : source = FromBackup(i)  BY <1>3 DEF ExactSource
  <2>2. GoodSource(old, ops, t, source, NewBlock(t))  BY <2>1, AreaSource
  <2>3. source # Installed(t)  BY <2>1, ReferencesDiffer
  <2> QED BY <2>2, <2>3, CopyGood DEF CopyOrKeep
<1> QED BY <1>1, <1>2, <1>3

LEMMA DeltaSourceGood ==
  ASSUME NEW old \in Image, NEW t \in 0 .. NewCount - 1, NEW ops, NEW area,
         AreaPlanned(old, ops, area), NEW s \in DeltaSources(t, Mix(old, t), area)
  PROVE  GoodSource(old, ops, t, s.ref, s.block)
<1> DEFINE w == Mix(old, t)
           last == Min({t, Len(w) - 1})
<1>1. CASE s \in {[ref |-> Installed(i), block |-> w[i + 1]] : i \in {t} \cap (0 .. Len(w) - 1)}
  <2>1. PICK i \in 0 .. Len(w) - 1 : s = [ref |-> Installed(i), block |-> w[i + 1]]
    BY <1>1
  <2>2. s.ref = Installed(i) /\ s.block = w[i + 1]  BY <2>1
  <2> QED BY <2>2, PlacedSource
<1>2. CASE s \in {[ref |-> FromBackup(i), block |-> area[i]] : i \in {t} \cap DOMAIN area}
  <2>1. PICK i \in DOMAIN area : s = [ref |-> FromBackup(i), block |-> area[i]]
    BY <1>2
  <2>2. s.ref = FromBackup(i) /\ s.block = area[i]  BY <2>1
  <2> QED BY <2>2, AreaSource
<1>3. CASE w # << >> /\ s = [ref |-> Installed(last), block |-> w[last + 1]]
  <2>1. Len(w) \in Nat /\ t \in Nat /\ w \in Image  BY MixAt
  <2> HIDE DEF w
  <2>2. Len(w) # 0  BY <1>3, <2>1 DEF Image
  <2>3. last = IF t <= Len(w) - 1 THEN t ELSE Len(w) - 1  BY <2>1, MinOfTwo
  <2> HIDE DEF last
  <2>4. last \in 0 .. Len(w) - 1  BY <2>1, <2>2, <2>3
  <2>5. s.ref = Installed(last) /\ s.block = w[last + 1]  BY <1>3
  <2> USE DEF w
  <2> QED BY <2>4, <2>5, PlacedSource
<1> QED BY <1>1, <1>2, <1>3 DEF DeltaSources

LEMMA DeltaOrRawGood ==
  ASSUME NEW old \in Image, NEW t \in 0 .. NewCount - 1, NEW ops, NEW area,
         AreaPlanned(old, ops, area),
         NEW op \in DeltaOrRaw(t, DeltaSources(t, Mix(old, t), area))
  PROVE  GoodOp(old, ops, t, op)
<1> DEFINE sources == DeltaSources(t, Mix(old, t), area)
<1>1. CASE op = RawBlock(t)  BY <1>1, RawGood
<1>2. CASE \E sizing \in Sizings(sources) : \E s \in BestSources(sources, sizing) :
             op = PatchBlock(t, s.ref, s.block, sizing[s.block])
  <2>0. PICK sizing \in Sizings(sources) : \E s \in BestSources(sources, sizing) :
          op = PatchBlock(t, s.ref, s.block, sizing[s.block])
    BY <1>2
  <2>1. PICK s \in BestSources(sources, sizing) :
          op = PatchBlock(t, s.ref, s.block, sizing[s.block])
    BY <2>0
  <2>2. s \in sources  BY DEF BestSources
  <2>3. sizing[s.block] \in PatchSizes  BY <2>2 DEF Sizings
  <2>4. GoodSource(old, ops, t, s.ref, s.block)  BY <2>2, DeltaSourceGood
  <2> QED BY <2>1, <2>3, <2>4, PatchGood
<1> HIDE DEF sources
<1>3. op = RawBlock(t) \/ \E sizing \in Sizings(sources) : \E s \in BestSources(sources, sizing) :
        op = IF Encoded(sizing[s.block]) <= Encoded(Len(NewBlock(t)))
               THEN PatchBlock(t, s.ref, s.block, sizing[s.block]) ELSE RawBlock(t)
  BY DEF DeltaOrRaw, sources
<1> QED BY <1>1, <1>2, <1>3

-----------------------------------------------------------------------------
(* What else is kept when a plan grows.                                    *)
LEMMA GuardedMeansSaved ==
  ASSUME NEW old, NEW ops
  PROVE  /\ TailSaved(old, ops) <=> \A i \in NewCount .. Len(old) - 1 : SavedIn(ops, i)
         /\ Guarded(old, ops) <=> \A k \in DOMAIN ops :
              Changes(old, ops[k]) => \E j \in 1 .. k - 1 : ops[j] = SaveBlock(ops[k].target)
BY DEF TailSaved, SavedIn, Guarded

LEMMA GrownPlan ==
  ASSUME NEW old, NEW ops \in Seq(PlanOp), NEW op \in PlanOp
  PROVE  LET all == Append(ops, op) IN
         /\ \A i : SavedIn(ops, i) => SavedIn(all, i)
         /\ TailSaved(old, ops) => TailSaved(old, all)
         /\ Guarded(old, ops) /\ (Changes(old, op) => SavedIn(ops, op.target)) =>
              Guarded(old, all)
         /\ Uncut(ops) /\ op.op # "truncate" => Uncut(all)
         /\ AllFresh(ops) /\ (op.op = "backup" => Fresh(all, Len(ops) + 1)) => AllFresh(all)
         /\ Uncut(ops) => CutLast(all)
<1> DEFINE all == Append(ops, op)
           last == Len(ops) + 1
<1>1. /\ all \in Seq(PlanOp) /\ Begins(ops, all) /\ Len(ops) \in Nat /\ Len(all) = last
      /\ all[last] = op /\ DOMAIN all = 1 .. last /\ DOMAIN ops = 1 .. Len(ops)
      /\ \A k \in DOMAIN all : k \in DOMAIN ops \/ k = last
  BY AppendBegins
<1> HIDE DEF all
<1>2. \A k \in DOMAIN ops : k \in DOMAIN all /\ all[k] = ops[k]  BY <1>1, Earlier
<1>3. \A i : SavedIn(ops, i) => SavedIn(all, i)  BY <1>2 DEF SavedIn
<1>4. TailSaved(old, ops) => TailSaved(old, all)
  <2> HAVE TailSaved(old, ops)
  <2> QED BY <1>3, GuardedMeansSaved
<1>5. ASSUME Guarded(old, ops), Changes(old, op) => SavedIn(ops, op.target)
      PROVE  Guarded(old, all)
  <2> SUFFICES ASSUME NEW k \in DOMAIN all, Changes(old, all[k])
               PROVE  \E j \in 1 .. k - 1 : all[j] = SaveBlock(all[k].target)
    BY GuardedMeansSaved
  <2>1. CASE k \in DOMAIN ops
    <3>1. PICK j \in 1 .. k - 1 : ops[j] = SaveBlock(ops[k].target)
      BY <1>2, <1>5, <2>1, GuardedMeansSaved
    <3>2. all[j] = ops[j] /\ all[k] = ops[k]  BY <1>1, <2>1, Earlier
    <3> QED BY <3>1, <3>2
  <2>2. CASE k = last
    <3>1. PICK j \in DOMAIN ops : ops[j] = SaveBlock(op.target)
      BY <1>1, <1>5, <2>2 DEF SavedIn
    <3>2. j \in 1 .. k - 1  BY <1>1, <2>2
    <3> QED BY <1>1, <1>2, <2>2, <3>1, <3>2
  <2> QED BY <1>1, <2>1, <2>2
<1>6. Uncut(ops) /\ op.op # "truncate" => Uncut(all)  BY <1>1, <1>2 DEF Uncut
<1>7. AllFresh(ops) /\ (op.op = "backup" => Fresh(all, last)) => AllFresh(all)
  <2> HAVE AllFresh(ops) /\ (op.op = "backup" => Fresh(all, last))
  <2> SUFFICES ASSUME NEW k \in DOMAIN all, all[k].op = "backup"  PROVE Fresh(all, k)
    BY DEF AllFresh
  <2>1. CASE k \in DOMAIN ops
    <3>1. Fresh(ops, k)  BY <1>2, <2>1 DEF AllFresh
    <3> QED BY <1>1, <2>1, <3>1, EarlierKept
  <2>2. CASE k = last  BY <1>1, <2>2
  <2> QED BY <1>1, <2>1, <2>2
<1>8. Uncut(ops) => CutLast(all)  BY <1>1, <1>2 DEF Uncut, CutLast
<1> QED BY <1>3, <1>4, <1>5, <1>6, <1>7, <1>8 DEF all

LEMMA AreaGrows ==
  ASSUME NEW old \in Image, NEW ops \in Seq(PlanOp), NEW area, AreaPlanned(old, ops, area),
         NEW op \in PlanOp, op.op # "backup"
  PROVE  AreaPlanned(old, Append(ops, op), area)
<1> DEFINE all == Append(ops, op)
<1>1. /\ all \in Seq(PlanOp) /\ Begins(ops, all) /\ all[Len(ops) + 1] = op
      /\ \A k \in DOMAIN all : k \in DOMAIN ops \/ k = Len(ops) + 1
  BY AppendBegins
<1> HIDE DEF all
<1>2. \A k \in DOMAIN ops : k \in DOMAIN all /\ all[k] = ops[k]  BY <1>1, Earlier
<1>3. ASSUME NEW i \in DOMAIN area
      PROVE  \E j \in DOMAIN all : all[j] = SaveBlock(i) /\ Fresh(all, j)
  <2>1. PICK j \in DOMAIN ops : ops[j] = SaveBlock(i) /\ Fresh(ops, j)  BY DEF AreaPlanned
  <2>2. Fresh(all, j)  BY <1>1, <2>1, EarlierKept
  <2> QED BY <1>2, <2>1, <2>2
<1>4. \A j \in DOMAIN all : all[j].op = "backup" => all[j].source \in DOMAIN area
  BY <1>1, <1>2 DEF AreaPlanned
<1> QED BY <1>3, <1>4 DEF AreaPlanned, all

(* The next block, with an operation that finds what it reads.             *)
LEMMA BlockPlanned ==
  ASSUME NEW old \in Image, NEW ops, NEW n \in 0 .. NewCount - 1, Right(old, ops, n),
         Uncut(ops), NEW op, GoodOp(old, ops, n, op)
  PROVE  LET all == Append(ops, op) IN
         /\ Right(old, all, n + 1) /\ Uncut(all)
         /\ AllFresh(ops) => AllFresh(all)
         /\ TailSaved(old, ops) => TailSaved(old, all)
         /\ Guarded(old, ops) /\ (Changes(old, op) => SavedIn(ops, n)) => Guarded(old, all)
         /\ \A area : AreaPlanned(old, ops, area) => AreaPlanned(old, all, area)
<1>1. ops \in Seq(PlanOp)  BY DEF Right
<1>2. op \in PlanOp /\ op.target = n /\ op.op # "backup" /\ op.op # "truncate"
  BY ProcessingForms DEF GoodOp
<1>3. Right(old, Append(ops, op), n + 1)  BY ExtendByBlock
<1>4. \A area : AreaPlanned(old, ops, area) => AreaPlanned(old, Append(ops, op), area)
  BY <1>1, <1>2, AreaGrows
<1> QED BY <1>1, <1>2, <1>3, <1>4, GrownPlan

(* The backup of the next block.                                           *)
LEMMA FreshNext ==
  ASSUME NEW old, NEW ops, NEW n \in Nat, Right(old, ops, n)
  PROVE  Fresh(Append(ops, SaveBlock(n)), Len(ops) + 1)
<1> DEFINE op == SaveBlock(n)
           all == Append(ops, op)
<1>1. /\ ops \in Seq(PlanOp) /\ Len(ops) \in Nat /\ DOMAIN ops = 1 .. Len(ops)
      /\ \A k \in DOMAIN ops : Processing(ops[k]) => ops[k].target \in Nat /\ ops[k].target < n
  BY RightTargets
<1>2. op \in PlanOp /\ op.source = n  BY SaveForm DEF PlanOp
<1>3. all \in Seq(PlanOp) /\ Begins(ops, all) /\ all[Len(ops) + 1] = op
  BY <1>1, <1>2, AppendBegins
<1> HIDE DEF all
<1>4. \A k \in DOMAIN ops : all[k] = ops[k]  BY <1>1, <1>3, Earlier
<1>5. \A m \in 1 .. (Len(ops) + 1) - 1 : m \in DOMAIN ops  BY <1>1
<1>6. Fresh(all, Len(ops) + 1)  BY <1>1, <1>2, <1>3, <1>4, <1>5 DEF Fresh
<1> QED BY <1>6 DEF all

LEMMA SavePlanned ==
  ASSUME NEW old \in Image, NEW ops, NEW n \in 0 .. Len(old) - 1, Right(old, ops, n),
         Uncut(ops), ~SavedIn(ops, n)
  PROVE  LET all == Append(ops, SaveBlock(n)) IN
         /\ Right(old, all, n) /\ Uncut(all) /\ SavedIn(all, n)
         /\ AllFresh(ops) => AllFresh(all)
         /\ TailSaved(old, ops) => TailSaved(old, all)
         /\ Guarded(old, ops) => Guarded(old, all)
         /\ \A area : AreaPlanned(old, ops, area) =>
              AreaPlanned(old, all, [i \in {n} \cup DOMAIN area |->
                                       IF i \in {n} THEN old[n + 1] ELSE area[i]])
<1> DEFINE op == SaveBlock(n)
           all == Append(ops, op)
           last == Len(ops) + 1
<1>1. n \in Nat /\ n < Len(old) /\ Len(old) \in Nat  BY DEF Image
<1>2. /\ op \in PlanOp /\ op.op = "backup" /\ op.source = n /\ ~Processing(op)
      /\ op.op # "truncate"
  BY <1>1, SaveForm DEF PlanOp
<1>3. ops \in Seq(PlanOp)  BY DEF Right
<1>4. /\ all \in Seq(PlanOp) /\ Begins(ops, all) /\ all[last] = op /\ last \in DOMAIN all
      /\ Len(ops) \in Nat /\ DOMAIN ops = 1 .. Len(ops)
      /\ \A k \in DOMAIN all : k \in DOMAIN ops \/ k = last
  BY <1>2, <1>3, AppendBegins
<1>5. Fresh(all, last)  BY <1>1, FreshNext
<1>6. /\ TailSaved(old, ops) => TailSaved(old, all)
      /\ Guarded(old, ops) => Guarded(old, all)
      /\ Uncut(all)
      /\ AllFresh(ops) => AllFresh(all)
  <2>1. ~Changes(old, op)  BY <1>2 DEF Changes
  <2> QED BY <1>2, <1>3, <1>5, <2>1, GrownPlan
<1> HIDE DEF all, op
<1>7. \A k \in DOMAIN ops : k \in DOMAIN all /\ all[k] = ops[k]  BY <1>3, <1>4, Earlier
<1>8. SavedIn(all, n)  BY <1>4 DEF SavedIn, op
<1>9. SavesOnce(old, all, last)
  <2>1. \A j \in 1 .. last - 1 : j \in DOMAIN ops  BY <1>4
  <2>2. \A j \in DOMAIN ops : ops[j] # op  BY DEF SavedIn, op
  <2> QED BY <1>1, <1>2, <1>4, <1>7, <2>1, <2>2 DEF SavesOnce
<1>10. Right(old, all, n)
  <2>1. \A k \in DOMAIN all : k \notin DOMAIN ops =>
          /\ ~Processing(all[k])
          /\ all[k].op = "backup" => SavesOnce(old, all, k)
    BY <1>2, <1>4, <1>9
  <2> QED BY <1>1, <1>4, <2>1, ExtendByOthers
<1>11. ASSUME NEW area, AreaPlanned(old, ops, area)
       PROVE  AreaPlanned(old, all, [i \in {n} \cup DOMAIN area |->
                                       IF i \in {n} THEN old[n + 1] ELSE area[i]])
  <2> DEFINE new == [i \in {n} \cup DOMAIN area |-> IF i \in {n} THEN old[n + 1] ELSE area[i]]
  <2>1. DOMAIN new = {n} \cup DOMAIN area  OBVIOUS
  <2>2. ASSUME NEW i \in DOMAIN new
        PROVE  /\ i \in 0 .. Len(old) - 1 /\ new[i] = old[i + 1]
               /\ \E j \in DOMAIN all : all[j] = SaveBlock(i) /\ Fresh(all, j)
    <3>1. CASE i = n  BY <1>4, <1>5, <3>1 DEF op
    <3>2. CASE i # n
      <4>1. i \in DOMAIN area /\ new[i] = area[i]  BY <3>2
      <4>2. PICK j \in DOMAIN ops : ops[j] = SaveBlock(i) /\ Fresh(ops, j)
        BY <1>11, <4>1 DEF AreaPlanned
      <4>3. Fresh(all, j)  BY <1>3, <1>4, <4>2, EarlierKept
      <4>4. i \in 0 .. Len(old) - 1 /\ area[i] = old[i + 1]  BY <1>11, <4>1 DEF AreaPlanned
      <4> QED BY <1>7, <4>1, <4>2, <4>3, <4>4
    <3> QED BY <3>1, <3>2
  <2>3. \A j \in DOMAIN all : all[j].op = "backup" => all[j].source \in DOMAIN new
    BY <1>2, <1>4, <1>7, <1>11, <2>1 DEF AreaPlanned
  <2> HIDE DEF new
  <2>4. AreaPlanned(old, all, new)  BY <2>2, <2>3 DEF AreaPlanned
  <2> QED BY <2>4 DEF new
<1> QED BY <1>6, <1>8, <1>10, <1>11 DEF all, op

(* The cut behind the last block.                                          *)
LEMMA CutForm ==
  /\ CutToNewSize \in PlanOp /\ CutToNewSize.op = "truncate" /\ CutToNewSize.unit = "bytes"
  /\ CutToNewSize.size = NewSize /\ ~Processing(CutToNewSize)
BY DEF PlanOp, CutToNewSize, Processing

LEMMA CutPlanned ==
  ASSUME NEW old \in Image, NEW ops, NEW n \in Nat, Right(old, ops, n), Uncut(ops)
  PROVE  LET all == Append(ops, CutToNewSize) IN
         /\ Right(old, all, n) /\ CutLast(all) /\ ~Uncut(all)
         /\ TailSaved(old, ops) => TailSaved(old, all)
         /\ Guarded(old, ops) => Guarded(old, all)
<1> DEFINE op == CutToNewSize
           all == Append(ops, op)
           last == Len(ops) + 1
<1>1. op \in PlanOp /\ op.op = "truncate" /\ ~Processing(op)  BY CutForm
<1>2. ops \in Seq(PlanOp)  BY DEF Right
<1>3. /\ all \in Seq(PlanOp) /\ Begins(ops, all) /\ all[last] = op /\ last \in DOMAIN all
      /\ \A k \in DOMAIN all : k \in DOMAIN ops \/ k = last
  BY <1>1, <1>2, AppendBegins
<1>4. /\ TailSaved(old, ops) => TailSaved(old, all)
      /\ Guarded(old, ops) => Guarded(old, all)
      /\ CutLast(all)
  <2>1. ~Changes(old, op)  BY <1>1 DEF Changes
  <2> QED BY <1>1, <1>2, <2>1, GrownPlan
<1> HIDE DEF all, op
<1>5. Right(old, all, n)
  <2>1. \A k \in DOMAIN all : k \notin DOMAIN ops =>
          /\ ~Processing(all[k])
          /\ all[k].op = "backup" => SavesOnce(old, all, k)
    BY <1>1, <1>3
  <2> QED BY <1>3, <2>1, ExtendByOthers
<1>6. ~Uncut(all)  BY <1>1, <1>3 DEF Uncut
<1> QED BY <1>4, <1>5, <1>6 DEF all, op

-----------------------------------------------------------------------------
(* The steps of the planners that keep no simulator.                       *)
LEMMA SamePlanner ==
  ASSUME planner' = planner
  PROVE  (AtOnce' <=> AtOnce) /\ (Greedy' <=> Greedy) /\ (Careful' <=> Careful)
BY DEF AtOnce, Greedy, Careful, NewCount

LEMMA FrameKept ==
  ASSUME PlanFrame, UNCHANGED <<snapshot, planner, limit>>, sim'.fresh = sim.fresh,
         DOMAIN sim' = DOMAIN sim,
         stage' \in {"save", "plan", "try", "adopt", "planned", "deploy", "done"},
         stage' = "save" => Careful, stage' \in {"try", "adopt"} => Greedy
  PROVE  PlanFrame'
BY DEF PlanFrame, Careful, Greedy, Unharmed

(* A step of a planner, before there is a deployment.                      *)
LEMMA PlanningStep ==
  ASSUME BaselineInv, ~Greedy, UNCHANGED <<vars, planner, limit, search, sim>>,
         stage' \in {"plan", "planned"}, DraftInv', PlannedInv', WholeInv'
  PROVE  BaselineInv'
<1>1. snapshot' = snapshot /\ planner' = planner /\ limit' = limit /\ sim' = sim
  BY DEF vars
<1>2. PlanFrame'  BY <1>1, FrameKept DEF BaselineInv
<1>3. ~Greedy'  BY <1>1, SamePlanner
<1>4. GreedyInv'  BY <1>3 DEF GreedyInv
<1>5. DeployInv' /\ KeptInv'  BY DEF DeployInv, KeptInv
<1> QED BY <1>2, <1>4, <1>5 DEF BaselineInv

LEMMA DraftFacts ==
  ASSUME BaselineInv, ~AtOnce, ~Greedy, stage = "plan"
  PROVE  /\ snapshot \in Image /\ next \in 0 .. NewCount /\ draft = Mix(snapshot, next)
         /\ Right(snapshot, plan, next) /\ Uncut(plan) /\ AreaPlanned(snapshot, plan, saved)
         /\ Careful => Guarded(snapshot, plan) /\ TailSaved(snapshot, plan)
BY DeploymentAssumption DEF BaselineInv, DraftInv, PlanFrame

LEMMA PlanDrafted ==
  ASSUME BaselineInv, ~AtOnce, ~Greedy, stage = "plan", next \in 0 .. NewCount - 1,
         UNCHANGED <<vars, planner, stage, limit, search, sim>>,
         next' = next + 1, draft' = WriteBlock(draft, next, NewBlock(next)),
         Right(snapshot, plan', next + 1), Uncut(plan'), AreaPlanned(snapshot, plan', saved'),
         Careful => Guarded(snapshot, plan') /\ TailSaved(snapshot, plan')
  PROVE  BaselineInv'
<1>1. snapshot' = snapshot /\ planner' = planner /\ stage' = "plan"  BY DEF vars
<1>2. ~AtOnce' /\ ~Greedy' /\ (Careful' <=> Careful)  BY <1>1, SamePlanner
<1>3. draft' = Mix(snapshot, next + 1) /\ next + 1 \in 0 .. NewCount
  BY DraftFacts, MixWrite
<1>4. DraftInv'  BY <1>1, <1>2, <1>3 DEF DraftInv
<1>5. PlannedInv' /\ WholeInv'  BY <1>1, <1>2 DEF PlannedInv, WholeInv
<1> QED BY <1>1, <1>4, <1>5, PlanningStep

LEMMA BlockDrafted ==
  ASSUME BaselineInv, ~AtOnce, ~Greedy, ~Careful, stage = "plan", next \in 0 .. NewCount - 1,
         NEW op, GoodOp(snapshot, plan, next, op), PlanBlock(<<op>>, saved)
  PROVE  BaselineInv'
<1>1. /\ snapshot \in Image /\ Right(snapshot, plan, next) /\ Uncut(plan)
      /\ AreaPlanned(snapshot, plan, saved) /\ plan \in Seq(PlanOp)
  BY DraftFacts DEF Right
<1>2. op \in PlanOp  BY DEF GoodOp
<1>3. plan' = Append(plan, op)  BY <1>1, <1>2, AppendBegins DEF PlanBlock
<1>4. /\ Right(snapshot, Append(plan, op), next + 1) /\ Uncut(Append(plan, op))
      /\ AreaPlanned(snapshot, Append(plan, op), saved)
  BY <1>1, BlockPlanned
<1>5. /\ UNCHANGED <<vars, planner, stage, limit, search, sim>> /\ saved' = saved
      /\ next' = next + 1 /\ draft' = WriteBlock(draft, next, NewBlock(next))
  BY DEF PlanBlock
<1> QED BY <1>3, <1>4, <1>5, PlanDrafted

LEMMA InDraftMeans ==
  ASSUME BaselineInv, ~AtOnce, ~Greedy, stage = "plan", next \in 0 .. NewCount - 1
  PROVE  /\ InDraft(next) => next < Len(snapshot) /\ draft[next + 1] = snapshot[next + 1]
                             /\ next \in 0 .. Len(draft) - 1
         /\ next < Len(snapshot) => InDraft(next)
<1> DEFINE w == Mix(snapshot, next)
<1>1. snapshot \in Image /\ draft = w  BY DraftFacts
<1>2. /\ Len(w) \in Nat /\ Len(snapshot) \in Nat /\ next \in Nat /\ Len(snapshot) <= Len(w)
      /\ next < Len(w) => next < Len(snapshot)
      /\ \A i \in next .. Len(snapshot) - 1 : w[i + 1] = snapshot[i + 1]
  BY <1>1, MixAt
<1> HIDE DEF w
<1>3. ASSUME next < Len(w)  PROVE w[next + 1] = snapshot[next + 1] /\ next \in 0 .. Len(w) - 1
  BY <1>2, <1>3
<1> QED BY <1>1, <1>2, <1>3 DEF InDraft

LEMMA BlockwiseStep ==
  ASSUME BaselineInv, BlockwiseBsdiff  PROVE BaselineInv'
<1>1. /\ planner = "blockwise_bsdiff" /\ stage = "plan" /\ next < NewCount
      /\ ~AtOnce /\ ~Greedy /\ ~Careful
  BY DEF BlockwiseBsdiff, Plans, AtOnce, Greedy, Careful, NewCount
<1>2. snapshot \in Image /\ next \in 0 .. NewCount - 1 /\ draft = Mix(snapshot, next)
  BY <1>1, DraftFacts, NewImage
<1>3. PICK size \in PatchSizes :
        PlanBlock(<<IF AlreadyInPlace(next) THEN KeepBlock(next)
                    ELSE IF InDraft(next)
                      THEN PatchBlock(next, Installed(next), draft[next + 1], size)
                    ELSE RawBlock(next)>>, saved)
  BY DEF BlockwiseBsdiff
<1>4. PICK op : op = IF AlreadyInPlace(next) THEN KeepBlock(next)
                     ELSE IF InDraft(next)
                       THEN PatchBlock(next, Installed(next), draft[next + 1], size)
                     ELSE RawBlock(next)
  OBVIOUS
<1>5. PlanBlock(<<op>>, saved)  BY <1>3, <1>4
<1>6. GoodOp(snapshot, plan, next, op)
  <2>1. CASE AlreadyInPlace(next)
    <3>1. next < Len(snapshot) /\ snapshot[next + 1] = NewBlock(next)
      BY <1>1, <1>2, <2>1, InDraftMeans DEF AlreadyInPlace
    <3> QED BY <1>2, <1>4, <2>1, <3>1, KeepGood
  <2>2. CASE ~AlreadyInPlace(next) /\ InDraft(next)
    <3>1. next \in 0 .. Len(Mix(snapshot, next)) - 1  BY <1>1, <1>2, <2>2, InDraftMeans
    <3>2. GoodSource(snapshot, plan, next, Installed(next), draft[next + 1])
      BY <1>2, <3>1, PlacedSource
    <3> QED BY <1>2, <1>4, <2>2, <3>2, PatchGood
  <2>3. CASE ~AlreadyInPlace(next) /\ ~InDraft(next)
    BY <1>2, <1>4, <2>3, RawGood
  <2> QED BY <2>1, <2>2, <2>3
<1> QED BY <1>1, <1>2, <1>5, <1>6, BlockDrafted

LEMMA NoAreaPlanned ==
  ASSUME NEW old, NEW ops, \A j \in DOMAIN ops : ops[j].op # "backup"
  PROVE  AreaPlanned(old, ops, << >>)
BY DEF AreaPlanned

LEMMA CopyStep ==
  ASSUME BaselineInv, CopyOnly \/ CopyDelta  PROVE BaselineInv'
<1>1. /\ planner \in {"copy_only", "copy_delta"} /\ stage = "plan" /\ next < NewCount
      /\ ~AtOnce /\ ~Greedy /\ ~Careful
  BY DEF CopyOnly, CopyDelta, Plans, AtOnce, Greedy, Careful, NewCount
<1>2. snapshot \in Image /\ next \in 0 .. NewCount - 1 /\ draft = Mix(snapshot, next)
  BY <1>1, DraftFacts, NewImage
<1>3. AreaPlanned(snapshot, << >>, << >>)  BY NoAreaPlanned
<1>4. \E op : PlanBlock(<<op>>, saved) /\ GoodOp(snapshot, << >>, next, op)
  <2>1. CASE \E source \in CopySources(next) : PlanBlock(<<CopyOrKeep(next, source)>>, saved)
    <3>1. PICK source \in CopySources(next) : PlanBlock(<<CopyOrKeep(next, source)>>, saved)
      BY <2>1
    <3>2. source \in ExactSource(next, Mix(snapshot, next), << >>)
      BY <1>2 DEF CopySources
    <3>3. GoodOp(snapshot, << >>, next, CopyOrKeep(next, source))
      BY <1>2, <1>3, <3>2, ExactGood
    <3> QED BY <3>1, <3>3
  <2>2. CASE PlanBlock(<<RawBlock(next)>>, saved)
    BY <1>2, <2>2, RawGood
  <2>3. CASE \E operation \in DeltaOrRaw(next, DeltaSources(next, draft, << >>)) :
               PlanBlock(<<operation>>, saved)
    <3>1. PICK operation \in DeltaOrRaw(next, DeltaSources(next, draft, << >>)) :
            PlanBlock(<<operation>>, saved)
      BY <2>3
    <3>2. GoodOp(snapshot, << >>, next, operation)  BY <1>2, <1>3, DeltaOrRawGood
    <3> QED BY <3>1, <3>2
  <2> QED BY <2>1, <2>2, <2>3 DEF CopyOnly, CopyDelta
<1>5. PICK op : PlanBlock(<<op>>, saved) /\ GoodOp(snapshot, << >>, next, op)  BY <1>4
<1>6. GoodOp(snapshot, plan, next, op)  BY <1>5 DEF GoodOp, GoodSource
<1> QED BY <1>1, <1>2, <1>5, <1>6, BlockDrafted

LEMMA RsyncStep ==
  ASSUME BaselineInv, RsyncRollingHash  PROVE BaselineInv'
<1>1. /\ planner = "rsync_rolling_hash" /\ stage = "plan" /\ next < NewCount
      /\ ~AtOnce /\ ~Greedy /\ ~Careful
  BY DEF RsyncRollingHash, Plans, AtOnce, Greedy, Careful, NewCount
<1>2. snapshot \in Image /\ next \in 0 .. NewCount - 1 /\ draft = Mix(snapshot, next)
  BY <1>1, DraftFacts, NewImage
<1>3. PICK op : op = IF AlreadyInPlace(next) THEN KeepBlock(next)
                     ELSE IF Unchanged(next) # {}
                       THEN CopyOrKeep(next, Installed(Min(Unchanged(next))))
                     ELSE RawBlock(next)
  OBVIOUS
<1>4. PlanBlock(<<op>>, saved)  BY <1>3 DEF RsyncRollingHash
<1>5. GoodOp(snapshot, plan, next, op)
  <2>1. CASE AlreadyInPlace(next)
    <3>1. next < Len(snapshot) /\ snapshot[next + 1] = NewBlock(next)
      BY <1>1, <1>2, <2>1, InDraftMeans DEF AlreadyInPlace
    <3> QED BY <1>2, <1>3, <2>1, <3>1, KeepGood
  <2>2. CASE ~AlreadyInPlace(next) /\ Unchanged(next) # {}
    <3>1. Len(snapshot) \in Nat  BY <1>2 DEF Image
    <3>2. \A i \in Unchanged(next) : i \in Nat  BY <3>1 DEF Unchanged
    <3>3. Min(Unchanged(next)) \in Unchanged(next)  BY <2>2, <3>2, MinIn
    <3>4. PICK i \in Unchanged(next) : i = Min(Unchanged(next))  BY <3>3
    <3>5. i \in Nat /\ i < Len(draft) /\ draft[i + 1] = NewBlock(next)
      BY <3>2 DEF Unchanged, InDraft
    <3>6. Len(Mix(snapshot, next)) \in Nat  BY <1>2, MixAt
    <3>7. i \in 0 .. Len(Mix(snapshot, next)) - 1  BY <1>2, <3>5, <3>6
    <3>8. GoodOp(snapshot, plan, next, CopyOrKeep(next, Installed(i)))
      BY <1>2, <3>5, <3>7, PlacedCopyGood
    <3> QED BY <1>3, <2>2, <3>4, <3>8
  <2>3. CASE ~AlreadyInPlace(next) /\ Unchanged(next) = {}
    BY <1>2, <1>3, <2>3, RawGood
  <2> QED BY <2>1, <2>2, <2>3
<1> QED BY <1>1, <1>2, <1>4, <1>5, BlockDrafted

-----------------------------------------------------------------------------
(* The careful planner.                                                    *)
LEMMA AreaSaves ==
  ASSUME NEW old \in Image, NEW ops \in Seq(PlanOp), NEW area, AreaPlanned(old, ops, area)
  PROVE  \A i \in Nat : i \in DOMAIN area <=> SavedIn(ops, i)
<1> SUFFICES ASSUME NEW i \in Nat  PROVE i \in DOMAIN area <=> SavedIn(ops, i)  OBVIOUS
<1>1. ASSUME i \in DOMAIN area  PROVE SavedIn(ops, i)
  BY <1>1 DEF AreaPlanned, SavedIn
<1>2. ASSUME SavedIn(ops, i)  PROVE i \in DOMAIN area
  <2>1. PICK j \in DOMAIN ops : ops[j] = SaveBlock(i)  BY <1>2 DEF SavedIn
  <2>2. ops[j].op = "backup" /\ ops[j].source = i  BY <2>1, SaveForm
  <2> QED BY <2>2 DEF AreaPlanned
<1> QED BY <1>1, <1>2

LEMMA NumberList ==
  ASSUME NEW S, S \subseteq Nat, NEW s \in Seq(S)  PROVE s \in Seq(Nat)
<1>1. \A k \in 1 .. Len(s) : s[k] \in S  OBVIOUS
<1>2. \A x \in S : x \in Nat  OBVIOUS
<1>3. \A k \in 1 .. Len(s) : s[k] \in Nat  BY <1>1, <1>2, Zenon
<1> QED BY <1>3

LEMMA PrefixForm ==
  ASSUME NEW n \in Nat, NEW saves, saves \in {{}, {n}}
  PROVE  Backups(SetToSeq(saves)) = IF saves = {} THEN << >> ELSE <<SaveBlock(n)>>
<1> DEFINE s == SetToSeq(saves)
           b == Backups(s)
<1>1. IsFiniteSet(saves) /\ Cardinality(saves) = IF saves = {} THEN 0 ELSE 1
  <2>1. CASE saves = {}  BY <2>1, FS_EmptySet
  <2>2. CASE saves = {n}
    <3>1. IsFiniteSet({n}) /\ Cardinality({n}) = 1  BY FS_Singleton
    <3> QED BY <2>2, <3>1
  <2> QED BY <2>1, <2>2
<1>2. Lists(saves, s) /\ Len(s) = IF saves = {} THEN 0 ELSE 1
  BY <1>1, SetToSeqLists
<1> HIDE DEF s
<1>3. s \in Seq(saves) /\ s \in Seq(Nat)
  <2>1. s \in Seq(saves) /\ saves \subseteq Nat  BY <1>2 DEF Lists
  <2> QED BY <2>1, NumberList
<1>4. b \in Seq(PlanOp) /\ Len(b) = Len(s) /\ \A k \in DOMAIN s : b[k] = SaveBlock(s[k])
  BY <1>3, BackupsForm
<1> HIDE DEF b
<1>5. CASE saves = {}
  <2>1. Len(b) = 0  BY <1>2, <1>4, <1>5
  <2>2. b = << >>  BY <1>4, <2>1
  <2> QED BY <1>5, <2>2 DEF b, s
<1>6. CASE saves # {}
  <2>1. Len(b) = 1 /\ 1 \in DOMAIN s  BY <1>2, <1>3, <1>4, <1>6
  <2>2. s[1] = n  BY <1>3, <1>6, <2>1
  <2>3. b[1] = SaveBlock(n)  BY <1>4, <2>1, <2>2
  <2>4. b = <<SaveBlock(n)>>  BY <1>4, <2>1, <2>3
  <2> QED BY <1>6, <2>4 DEF b, s
<1> QED BY <1>5, <1>6

LEMMA AppendedLater ==
  ASSUME NEW ops \in Seq(PlanOp), NEW more \in Seq(PlanOp), NEW op \in PlanOp
  PROVE  ops \o Append(more, op) = Append(ops \o more, op)
OBVIOUS

LEMMA CarefulStep ==
  ASSUME BaselineInv, BackupSafeCopyDelta  PROVE BaselineInv'
<1>1. /\ planner = "backup_safe_copy_delta" /\ stage = "plan" /\ next < NewCount
      /\ ~AtOnce /\ ~Greedy /\ Careful
  BY DEF BackupSafeCopyDelta, Plans, AtOnce, Greedy, Careful, NewCount
<1>2. /\ snapshot \in Image /\ next \in 0 .. NewCount - 1 /\ next \in Nat
      /\ draft = Mix(snapshot, next)
      /\ Right(snapshot, plan, next) /\ Uncut(plan) /\ AreaPlanned(snapshot, plan, saved)
      /\ Guarded(snapshot, plan) /\ TailSaved(snapshot, plan) /\ plan \in Seq(PlanOp)
  BY <1>1, DraftFacts, NewImage DEF Right
<1> DEFINE saves == {t \in {next} : Overwrites(t)} \ DOMAIN saved
           area == [i \in saves \cup DOMAIN saved |->
                      IF i \in saves THEN draft[i + 1] ELSE saved[i]]
           prefix == Backups(SetToSeq(saves))
           base == plan \o prefix
<1>3. saves \in {{}, {next}}  OBVIOUS
<1>4. prefix = IF saves = {} THEN << >> ELSE <<SaveBlock(next)>>
  BY <1>2, <1>3, PrefixForm
<1>5. SaveBlock(next) \in PlanOp  BY <1>2 DEF PlanOp
<1>6. /\ base \in Seq(PlanOp) /\ prefix \in Seq(PlanOp)
      /\ Right(snapshot, base, next) /\ Uncut(base) /\ AreaPlanned(snapshot, base, area)
      /\ Guarded(snapshot, base) /\ TailSaved(snapshot, base)
  <2>1. CASE saves = {}
    <3>1. base = plan
      <4>1. prefix = << >>  BY <1>4, <2>1
      <4>2. plan \o << >> = plan  BY <1>2
      <4> QED BY <4>1, <4>2
    <3>2. DOMAIN area = DOMAIN saved /\ \A i \in DOMAIN saved : area[i] = saved[i]
      BY <2>1
    <3> HIDE DEF area
    <3>3. AreaPlanned(snapshot, plan, area)  BY <1>2, <3>2 DEF AreaPlanned
    <3> QED BY <1>2, <1>4, <2>1, <3>1, <3>3
  <2>2. CASE saves = {next}
    <3>1. Overwrites(next) /\ next \notin DOMAIN saved
      <4>1. next \in saves  BY <2>2
      <4> QED BY <4>1
    <3>2. next < Len(snapshot) /\ draft[next + 1] = snapshot[next + 1]
      BY <1>1, <1>2, <3>1, InDraftMeans DEF Overwrites
    <3>3. next \in 0 .. Len(snapshot) - 1
      <4>1. Len(snapshot) \in Nat  BY <1>2 DEF Image
      <4> QED BY <1>2, <3>2, <4>1
    <3>4. ~SavedIn(plan, next)  BY <1>2, <3>1, AreaSaves
    <3>5. base = Append(plan, SaveBlock(next))
      <4>1. prefix = <<SaveBlock(next)>>  BY <1>4, <2>2
      <4> QED BY <1>2, <1>5, <4>1, AppendBegins
    <3> DEFINE new == [i \in {next} \cup DOMAIN saved |->
                         IF i \in {next} THEN snapshot[next + 1] ELSE saved[i]]
    <3>6. area = new  BY <2>2, <3>2
    <3> HIDE DEF area, base, prefix, saves
    <3>7. /\ Right(snapshot, base, next) /\ Uncut(base) /\ Guarded(snapshot, base)
          /\ TailSaved(snapshot, base)
      BY <1>2, <3>3, <3>4, <3>5, SavePlanned
    <3>9. AreaPlanned(snapshot, base, new)
      <4>1. \A kept : AreaPlanned(snapshot, plan, kept) =>
              AreaPlanned(snapshot, Append(plan, SaveBlock(next)),
                          [i \in {next} \cup DOMAIN kept |->
                             IF i \in {next} THEN snapshot[next + 1] ELSE kept[i]])
        BY <1>2, <3>3, <3>4, SavePlanned
      <4>2. AreaPlanned(snapshot, Append(plan, SaveBlock(next)), new)
        BY <1>2, <4>1 DEF new
      <4> QED BY <3>5, <4>2
    <3>8. base \in Seq(PlanOp) /\ prefix \in Seq(PlanOp)
      <4>1. prefix = <<SaveBlock(next)>>  BY <1>4, <2>2
      <4> QED BY <1>2, <1>5, <3>5, <4>1
    <3> HIDE DEF new
    <3> QED BY <3>6, <3>7, <3>8, <3>9
  <2> QED BY <1>3, <2>1, <2>2
<1>7. PICK op : PlanBlock(Append(prefix, op), area) /\ GoodOp(snapshot, base, next, op)
  <2>1. CASE \E source \in ExactSource(next, draft, area) :
               PlanBlock(Append(prefix, CopyOrKeep(next, source)), area)
    <3> HIDE DEF area, base, prefix
    <3>1. PICK source \in ExactSource(next, draft, area) :
            PlanBlock(Append(prefix, CopyOrKeep(next, source)), area)
      BY <2>1
    <3>2. source \in ExactSource(next, Mix(snapshot, next), area)  BY <1>2
    <3>3. GoodOp(snapshot, base, next, CopyOrKeep(next, source))
      BY <1>2, <1>6, <3>2, ExactGood
    <3> QED BY <3>1, <3>3
  <2>2. CASE \E operation \in DeltaOrRaw(next, DeltaSources(next, draft, area)) :
               PlanBlock(Append(prefix, operation), area)
    <3> HIDE DEF area, base, prefix
    <3>1. PICK operation \in DeltaOrRaw(next, DeltaSources(next, draft, area)) :
            PlanBlock(Append(prefix, operation), area)
      BY <2>2
    <3>2. GoodOp(snapshot, base, next, operation)  BY <1>2, <1>6, DeltaOrRawGood
    <3> QED BY <3>1, <3>2
  <2> QED BY <2>1, <2>2 DEF BackupSafeCopyDelta
<1>8. Changes(snapshot, op) => SavedIn(base, next)
  <2> HAVE Changes(snapshot, op)
  <2>1. next < Len(snapshot) /\ NewBlock(next) # snapshot[next + 1]
    BY <1>7 DEF Changes, GoodOp
  <2>2. Overwrites(next)  BY <1>1, <1>2, <2>1, InDraftMeans DEF Overwrites
  <2>3. next \in DOMAIN area  BY <2>2
  <2> HIDE DEF area, base
  <2> QED BY <1>2, <1>6, <2>3, AreaSaves
<1> HIDE DEF area, base, prefix, saves
<1>9. /\ op \in PlanOp
      /\ Right(snapshot, Append(base, op), next + 1) /\ Uncut(Append(base, op))
      /\ AreaPlanned(snapshot, Append(base, op), area)
      /\ Guarded(snapshot, Append(base, op)) /\ TailSaved(snapshot, Append(base, op))
  BY <1>2, <1>6, <1>7, <1>8, BlockPlanned DEF GoodOp
<1>10. plan' = Append(base, op)
  <2>1. plan' = plan \o Append(prefix, op)  BY <1>7 DEF PlanBlock
  <2> QED BY <1>2, <1>6, <1>9, <2>1, AppendedLater DEF base
<1>11. /\ UNCHANGED <<vars, planner, stage, limit, search, sim>> /\ saved' = area
       /\ next' = next + 1 /\ draft' = WriteBlock(draft, next, NewBlock(next))
  BY <1>7 DEF PlanBlock
<1> QED BY <1>1, <1>2, <1>9, <1>10, <1>11, PlanDrafted

(* The number of blocks of the new image, from its size.                   *)
LEMMA CountFromSize ==
  ASSUME ImagesRead  PROVE NewCount = (NewSize + BlockSize - 1) \div BlockSize
<1> DEFINE n == (Len(BlocksToBytes(Expected)) + BlockSize - 1) \div BlockSize
<1>1. Len(BytesToBlocks(BlocksToBytes(Expected))) = n
  <2>1. NewSize \in Nat /\ NewSize = Len(BlocksToBytes(Expected))
    BY NewImage DEF NewSize, ImageBytes
  <2>2. n \in Nat  BY <2>1, BlockSizeAssumption
  <2> HIDE DEF n
  <2>3. \E f : BytesToBlocks(BlocksToBytes(Expected)) = [i \in 1 .. n |-> f[i]]
    <3> DEFINE f == [i \in 1 .. n |-> SubSeq(BlocksToBytes(Expected), (i - 1) * BlockSize + 1,
                       Min({i * BlockSize, Len(BlocksToBytes(Expected))}))]
    <3>1. BytesToBlocks(BlocksToBytes(Expected)) = f  BY DEF BytesToBlocks, n
    <3>2. f = [i \in 1 .. n |-> f[i]]  OBVIOUS
    <3> HIDE DEF f
    <3> QED BY <3>1, <3>2
  <2> QED BY <2>2, <2>3
<1>2. BytesToBlocks(BlocksToBytes(Expected)) = Expected  BY DEF ImagesRead, AsRead
<1> QED BY <1>1, <1>2 DEF NewCount, NewSize, ImageBytes

LEMMA SaveTailStep ==
  ASSUME ImagesRead, BaselineInv, SaveTail  PROVE BaselineInv'
<1>1. /\ stage = "save" /\ Careful /\ planner = "backup_safe_copy_delta"
      /\ ~AtOnce /\ ~Greedy /\ snapshot \in Image
  BY DeploymentAssumption DEF SaveTail, BaselineInv, PlanFrame, Careful, AtOnce, Greedy
<1>2. /\ plan = << >> /\ next = 0 /\ draft = Mix(snapshot, 0)
      /\ Right(snapshot, << >>, 0) /\ Uncut(<< >>)
  BY <1>1 DEF BaselineInv, DraftInv
<1>3. draft = snapshot  BY <1>1, <1>2, MixNothing
<1> DEFINE S == RemovedTail
           all == Backups(Ascending(S))
<1>4. S = NewCount .. Len(snapshot) - 1 /\ NewCount \in Nat /\ Len(snapshot) \in Nat
  BY <1>1, CountFromSize, NewImage DEF RemovedTail, Image
<1>5. S \subseteq Nat /\ S \subseteq 0 .. Len(snapshot) - 1 /\ IsFiniteSet(S)
  <2>1. IsFiniteSet(NewCount .. Len(snapshot) - 1)
    <3>1. NewCount \in Int /\ Len(snapshot) - 1 \in Int  BY <1>4
    <3> QED BY <3>1, FS_Interval
  <2> QED BY <1>4, <2>1
<1>6. Lists(S, Ascending(S))  BY <1>5, AscendingLists
<1>7. /\ Right(snapshot, all, 0) /\ Uncut(all) /\ all \in Seq(PlanOp)
      /\ \A i \in S : SavedIn(all, i)
      /\ \A k \in DOMAIN all : \E i \in S : all[k] = SaveBlock(i)
  <2>1. \A i \in S : ~SavedIn(<< >>, i)  BY DEF SavedIn
  <2>2. Ascending(S) \in Seq(Nat)
    <3>1. Ascending(S) \in Seq(S)  BY <1>6 DEF Lists
    <3> HIDE DEF S
    <3> QED BY <1>5, <3>1, NumberList
  <2>3. all \in Seq(PlanOp)  BY <2>2, BackupsForm
  <2>4. << >> \o all = all  BY <2>3
  <2> HIDE DEF all
  <2>5. all = Backups(Ascending(S))  BY DEF all
  <2> DEFINE indices == Ascending(S)
             joined == << >> \o Backups(indices)
  <2>6. Lists(S, indices)  BY <1>6
  <2>7. joined = all  BY <2>4, <2>5
  <2> HIDE DEF S, indices
  <2>8. 0 \in Nat /\ Right(snapshot, << >>, 0)  BY <1>2
  <2>9. /\ Right(snapshot, joined, 0) /\ \A i \in S : SavedIn(joined, i)
        /\ Uncut(<< >>) => Uncut(joined)
        /\ AddsSaves(<< >>, joined, S)
    <3>1. PICK none : none = << >>  OBVIOUS
    <3>2. 0 \in Nat /\ Right(snapshot, none, 0)  BY <2>8, <3>1
    <3>4. \A i \in S : ~SavedIn(none, i)  BY <2>1, <3>1
    <3>5. S \subseteq 0 .. Len(snapshot) - 1 /\ snapshot \in Image  BY <1>1, <1>5
    <3>3. /\ Right(snapshot, none \o Backups(indices), 0)
          /\ \A i \in S : SavedIn(none \o Backups(indices), i)
          /\ Uncut(none) => Uncut(none \o Backups(indices))
          /\ AddsSaves(none, none \o Backups(indices), S)
      BY <2>6, <3>2, <3>4, <3>5, ExtendBySaves
    <3> QED BY <3>1, <3>3
  <2> HIDE DEF joined
  <2> QED BY <1>2, <2>3, <2>7, <2>9 DEF AddsSaves
<1> HIDE DEF all
<1>8. \A k \in DOMAIN all : ~Processing(all[k]) /\ all[k].source \in S
  <2> HIDE DEF S
  <2> QED BY <1>7, SaveForm
<1>9. plan' = all /\ saved' = [i \in S |-> draft[i + 1]] /\ stage' = "plan"
  BY DEF SaveTail, all
<1>10. AreaPlanned(snapshot, all, saved')
  <2>1. ASSUME NEW i \in S
        PROVE  /\ i \in 0 .. Len(snapshot) - 1 /\ saved'[i] = snapshot[i + 1]
               /\ \E j \in DOMAIN all : all[j] = SaveBlock(i) /\ Fresh(all, j)
    <3>1. saved'[i] = snapshot[i + 1]  BY <1>3, <1>9
    <3>2. PICK j \in DOMAIN all : all[j] = SaveBlock(i)  BY <1>7 DEF SavedIn
    <3>3. \A m \in 1 .. j - 1 : m \in DOMAIN all  BY <1>7
    <3>4. Fresh(all, j)  BY <1>8, <3>3 DEF Fresh
    <3> QED BY <1>5, <3>1, <3>2, <3>4
  <2>2. DOMAIN saved' = S  BY <1>9
  <2> HIDE DEF S
  <2> QED BY <1>8, <2>1, <2>2 DEF AreaPlanned
<1>11. Guarded(snapshot, all)  BY <1>8 DEF Guarded, Changes
<1>12. TailSaved(snapshot, all)  BY <1>4, <1>7, GuardedMeansSaved
<1>13. /\ UNCHANGED <<vars, planner, next, limit, draft, search, sim>>
       /\ snapshot' = snapshot /\ planner' = planner
  BY DEF SaveTail, vars
<1>14. ~AtOnce' /\ ~Greedy'  BY <1>1, <1>13, SamePlanner
<1>15. DraftInv'
  <2>1. 0 \in 0 .. NewCount  BY NewImage
  <2> QED BY <1>2, <1>7, <1>9, <1>10, <1>11, <1>12, <1>13, <2>1 DEF DraftInv
<1>16. PlannedInv' /\ WholeInv'  BY <1>9, <1>14 DEF PlannedInv, WholeInv
<1> QED BY <1>1, <1>9, <1>13, <1>15, <1>16, PlanningStep

-----------------------------------------------------------------------------
(* The plans that write the whole image, and the end of a plan.            *)
LEMMA SizeOfCount ==
  ASSUME ImagesRead  PROVE NewSize <= NewCount * BlockSize
<1>1. Expected \in Image  BY NewImage
<1>2. Fits(Expected)  BY <1>1, ReadImage DEF ImagesRead
<1> QED BY <1>1, <1>2, BytesFit DEF NewSize, NewCount

LEMMA SizeOfRead ==
  ASSUME NEW old \in Image, AsRead(old)
  PROVE  Len(old) * BlockSize < ImageBytes(old) + BlockSize
<1>1. BlocksToBytes(old) \in Block  BY BytesType
<1>2. BytesToBlocks(BlocksToBytes(old)) = old  BY DEF AsRead
<1> QED BY <1>1, <1>2, CutEnds DEF ImageBytes

(* A longer old image has more bytes than the new one.                     *)
LEMMA LongerHasMore ==
  ASSUME ImagesRead, NEW old \in Image, AsRead(old), NewCount < Len(old)
  PROVE  NewSize < ImageBytes(old)
<1> DEFINE n == Len(old)
           low == (n - 1) * BlockSize
<1>1. n \in Nat /\ NewCount \in Nat /\ BlockSize \in Nat /\ NewSize \in Nat
      /\ ImageBytes(old) \in Nat
  BY NewImage, BlockSizeAssumption, BytesType DEF Image
<1>2. n - 1 \in Nat /\ NewCount <= n - 1  BY <1>1
<1>3. NewCount * BlockSize <= low /\ NewCount * BlockSize \in Nat /\ low \in Nat
  <2> HIDE DEF n
  <2> QED BY <1>1, <1>2, MulMonotone
<1>4. n * BlockSize = low + BlockSize  BY <1>1, <1>2
<1>5. low + BlockSize < ImageBytes(old) + BlockSize  BY <1>4, SizeOfRead
<1>6. NewSize <= NewCount * BlockSize  BY SizeOfCount
<1> HIDE DEF low
<1> QED BY <1>1, <1>3, <1>5, <1>6

LEMMA MixAll ==
  ASSUME NEW old \in Image, Len(old) <= NewCount
  PROVE  Mix(old, NewCount) = Expected
<1> DEFINE w == Mix(old, NewCount)
<1>1. NewCount \in Nat /\ NewCount \in 0 .. NewCount /\ Expected \in Image  BY NewImage
<1>2. /\ w \in Image /\ Len(w) \in Nat /\ Len(old) \in Nat
      /\ Len(w) = (IF NewCount <= Len(old) THEN Len(old) ELSE NewCount)
      /\ \A i \in 1 .. Len(w) : w[i] = IF i <= NewCount THEN Expected[i] ELSE old[i]
  BY <1>1, MixBlocks
<1> HIDE DEF w
<1>3. Len(w) = Len(Expected)  BY <1>1, <1>2 DEF NewCount
<1>4. \A i \in 1 .. Len(w) : w[i] = Expected[i]  BY <1>1, <1>2, <1>3 DEF NewCount
<1>5. w = Expected  BY <1>1, <1>2, <1>3, <1>4, SameImage
<1> QED BY <1>5 DEF w

LEMMA WholePlanned ==
  ASSUME BaselineInv, AtOnce, stage = "plan", draft = snapshot,
         NEW op \in WholeOps(snapshot), PlanWhole(op)
  PROVE  BaselineInv'
<1>1. /\ UNCHANGED <<vars, planner, limit, search, sim>> /\ stage' = "plan"
      /\ plan' = <<op>> /\ next' = NewCount /\ draft' = WholeImage(snapshot)
      /\ snapshot' = snapshot /\ planner' = planner
  BY DEF PlanWhole, vars, NewCount, WholeImage, NewImageBytes
<1>2. AtOnce' /\ ~Greedy  BY <1>1, SamePlanner DEF AtOnce, Greedy
<1>3. DraftInv' /\ PlannedInv'  BY <1>1, <1>2 DEF DraftInv, PlannedInv
<1>4. WholeInv'  BY <1>1 DEF WholeInv
<1> QED BY <1>1, <1>2, <1>3, <1>4, PlanningStep

LEMMA WholeStep ==
  ASSUME ImagesRead, BaselineInv, FullReplacement \/ WholeFileBsdiff
  PROVE  BaselineInv'
<1>1. CASE FullReplacement
  <2>1. planner = "full_replacement" /\ stage = "plan" /\ plan = << >> /\ NewSize > 0
    BY <1>1 DEF FullReplacement, Plans
  <2>2. NewCount # 0
    <3>1. NewSize <= NewCount * BlockSize /\ NewSize \in Nat /\ BlockSize \in Nat
      BY SizeOfCount, NewImage, BlockSizeAssumption
    <3> QED BY <2>1, <3>1
  <2>3. AtOnce  BY <2>1, <2>2 DEF AtOnce
  <2>4. draft = snapshot  BY <2>1, <2>3 DEF BaselineInv, WholeInv
  <2> DEFINE op == [op |-> "raw_insert", target |-> 0, data |-> NewImageBytes]
  <2>5. PlanWhole(op)  BY <1>1 DEF FullReplacement, NewImageBytes
  <2>6. op \in WholeOps(snapshot)  BY DEF WholeOps
  <2> HIDE DEF op
  <2> QED BY <2>1, <2>3, <2>4, <2>5, <2>6, WholePlanned
<1>2. CASE WholeFileBsdiff
  <2>1. planner = "whole_file_bsdiff" /\ stage = "plan" /\ plan = << >>
    BY <1>2 DEF WholeFileBsdiff, Plans
  <2>2. AtOnce  BY <2>1 DEF AtOnce
  <2>3. draft = snapshot  BY <2>1, <2>2 DEF BaselineInv, WholeInv
  <2>4. PICK size \in PatchSizes :
          PlanWhole([op |-> "delta", codec |-> "bsdiff4", source |-> [area |-> "image"],
                     target |-> 0, base |-> BlocksToBytes(snapshot),
                     result |-> NewImageBytes, patch |-> size, hash |-> NewImageBytes])
    BY <1>2, <2>3 DEF WholeFileBsdiff, NewImageBytes
  <2> DEFINE op == [op |-> "delta", codec |-> "bsdiff4", source |-> [area |-> "image"],
                     target |-> 0, base |-> BlocksToBytes(snapshot),
                     result |-> NewImageBytes, patch |-> size, hash |-> NewImageBytes]
  <2>5. op \in WholeOps(snapshot) /\ PlanWhole(op)  BY <2>4 DEF WholeOps
  <2> HIDE DEF op
  <2> QED BY <2>1, <2>2, <2>3, <2>5, WholePlanned
<1> QED BY <1>1, <1>2

LEMMA WholeImageType ==
  ASSUME NEW old \in Image
  PROVE  WholeImage(old) \in Image /\ ImageBytes(WholeImage(old)) \in Nat
<1>1. NewImageBytes \in Block  BY NewImage, BytesType DEF NewImageBytes
<1>2. WholeImage(old) \in Image  BY <1>1, WriteBlockType DEF WholeImage
<1> QED BY <1>2, BytesType

LEMMA TwoOps ==
  ASSUME NEW a, NEW b  PROVE Append(<<a>>, b) = <<a, b>>
<1> DEFINE S == {a, b}
           s == <<a>>
           p == <<a, b>>
           q == Append(s, b)
<1>1. s \in Seq(S) /\ Len(s) = 1 /\ s[1] = a /\ b \in S  OBVIOUS
<1>2. p \in Seq(S) /\ Len(p) = 2 /\ p[1] = a /\ p[2] = b  OBVIOUS
<1>3. q \in Seq(S) /\ Len(q) = 2 /\ q[1] = a /\ q[2] = b
  <2> HIDE DEF S, s
  <2>1. q \in Seq(S) /\ Len(q) = Len(s) + 1 /\ q[Len(s) + 1] = b
    BY <1>1, AppendProperties
  <2>2. q[1] = s[1]
    <3>1. 1 \in 1 .. Len(s)  BY <1>1
    <3> QED BY <1>1, <3>1, AppendProperties
  <2> QED BY <1>1, <2>1, <2>2
<1>4. p = q
  <2> HIDE DEF p, q, S
  <2> QED BY <1>2, <1>3
<1> QED BY <1>4

LEMMA CutPlanStep ==
  ASSUME ImagesRead, BaselineInv, CutPlan
  PROVE  BaselineInv'
<1>1. /\ stage = "plan" /\ ~Greedy /\ next = NewCount /\ stage' = "planned"
      /\ UNCHANGED <<vars, planner, limit, search, sim>>
      /\ snapshot' = snapshot /\ planner' = planner
      /\ planner = "whole_file_bsdiff" => plan # << >>
      /\ \/ TooLong /\ plan' = Append(plan, CutToNewSize)
         \/ /\ ~TooLong \/ (Careful /\ ~(NewSize < ImageBytes(snapshot)))
            /\ plan' = plan
  BY DEF CutPlan, Greedy, Careful, NewCount, vars
<1>2. (AtOnce' <=> AtOnce) /\ (Greedy' <=> Greedy) /\ (Careful' <=> Careful)
  BY <1>1, SamePlanner
<1>3. snapshot \in Image /\ AsRead(snapshot)
  BY DeploymentAssumption DEF BaselineInv, PlanFrame, ImagesRead
<1>4. DraftInv'  BY <1>1 DEF DraftInv
<1>5. CASE AtOnce
  <2>1. PICK op \in WholeOps(snapshot) : plan = <<op>> /\ draft = WholeImage(snapshot)
    <3>1. ~(plan = << >> /\ next = 0)  BY <1>1, <1>5 DEF AtOnce
    <3> QED BY <1>1, <1>5, <3>1 DEF BaselineInv, WholeInv
  <2>2. \/ plan' = <<op>> /\ ImageBytes(WholeImage(snapshot)) <= NewSize
        \/ plan' = <<op, CutToNewSize>>
    <3>1. ~Careful  BY <1>5 DEF AtOnce, Careful
    <3>2. CASE plan' = Append(plan, CutToNewSize)
      <4>1. Append(<<op>>, CutToNewSize) = <<op, CutToNewSize>>  BY TwoOps
      <4> QED BY <2>1, <3>2, <4>1
    <3>3. CASE ~TooLong /\ plan' = plan
      <4>1. ~(ImageBytes(WholeImage(snapshot)) > NewSize)  BY <2>1, <3>3 DEF TooLong
      <4>2. ImageBytes(WholeImage(snapshot)) \in Nat /\ NewSize \in Nat
        BY <1>3, WholeImageType, NewImage
      <4> QED BY <2>1, <3>3, <4>1, <4>2
    <3> QED BY <1>1, <3>1, <3>2, <3>3
  <2>3. WholeInv'  BY <1>1, <2>2 DEF WholeInv
  <2>4. PlannedInv'  BY <1>2, <1>5 DEF PlannedInv
  <2> QED BY <1>1, <1>4, <2>3, <2>4, PlanningStep
<1>6. CASE ~AtOnce
  <2>1. /\ draft = Mix(snapshot, NewCount)
        /\ Right(snapshot, plan, NewCount) /\ Uncut(plan)
        /\ Careful => Guarded(snapshot, plan) /\ TailSaved(snapshot, plan)
    BY <1>1, <1>6, DraftFacts
  <2>2. /\ Right(snapshot, plan', NewCount) /\ CutLast(plan')
        /\ Careful => Guarded(snapshot, plan') /\ TailSaved(snapshot, plan')
        /\ Uncut(plan') => ImageBytes(Mix(snapshot, NewCount)) <= NewSize
    <3>1. CASE plan' = Append(plan, CutToNewSize)
      <4>1. NewCount \in Nat  BY NewImage
      <4>2. /\ Right(snapshot, Append(plan, CutToNewSize), NewCount)
            /\ CutLast(Append(plan, CutToNewSize)) /\ ~Uncut(Append(plan, CutToNewSize))
            /\ TailSaved(snapshot, plan) => TailSaved(snapshot, Append(plan, CutToNewSize))
            /\ Guarded(snapshot, plan) => Guarded(snapshot, Append(plan, CutToNewSize))
        BY <1>3, <2>1, <4>1, CutPlanned
      <4> QED BY <2>1, <3>1, <4>2
    <3>2. CASE /\ ~TooLong \/ (Careful /\ ~(NewSize < ImageBytes(snapshot)))
               /\ plan' = plan
      <4>1. CutLast(plan)  BY <2>1 DEF CutLast, Uncut
      <4>2. ImageBytes(Mix(snapshot, NewCount)) \in Nat /\ NewSize \in Nat
        <5>1. NewCount \in 0 .. NewCount  BY NewImage
        <5>2. Mix(snapshot, NewCount) \in Image  BY <1>3, <5>1, MixBlocks
        <5> QED BY <5>2, BytesType, NewImage
      <4>3. ImageBytes(Mix(snapshot, NewCount)) <= NewSize
        <5>1. CASE ~TooLong
          <6>1. ~(ImageBytes(Mix(snapshot, NewCount)) > NewSize)  BY <2>1, <5>1 DEF TooLong
          <6> QED BY <4>2, <6>1
        <5>2. CASE ~(NewSize < ImageBytes(snapshot))
          <6>1. ~(NewCount < Len(snapshot))  BY <1>3, <5>2, LongerHasMore
          <6>2. Len(snapshot) <= NewCount
            <7>1. Len(snapshot) \in Nat /\ NewCount \in Nat  BY <1>3, NewImage DEF Image
            <7> QED BY <6>1, <7>1
          <6>3. ImageBytes(Mix(snapshot, NewCount)) = NewSize
            BY <1>3, <6>2, MixAll DEF NewSize
          <6> QED BY <4>2, <6>3
        <5> QED BY <3>2, <5>1, <5>2
      <4> QED BY <2>1, <3>2, <4>1, <4>3
    <3> QED BY <1>1, <3>1, <3>2
  <2>3. PlannedInv'  BY <1>1, <1>2, <2>2 DEF PlannedInv
  <2>4. WholeInv'  BY <1>2, <1>6 DEF WholeInv
  <2> QED BY <1>1, <1>4, <2>3, <2>4, PlanningStep
<1> QED BY <1>5, <1>6

-----------------------------------------------------------------------------
(* The greedy planner: its simulator has executed the plan, and so its     *)
(* backups are those that the plan has saved.                              *)
LEMMA ExecutedLater ==
  ASSUME NEW old, NEW ops \in Seq(PlanOp), NEW all \in Seq(PlanOp), Begins(ops, all),
         NEW k \in 0 .. Len(ops), NEW d, NEW blocks, NEW area,
         Executed(old, ops, k, d, blocks, area)
  PROVE  Executed(old, all, k, d, blocks, area)
<1>1. \A j \in 1 .. k : j \in DOMAIN ops /\ all[j] = ops[j]
  BY DEF Begins
<1>2. \A j \in 1 .. k : Fresh(all, j) => Fresh(ops, j)
  <2> TAKE j \in 1 .. k
  <2> HAVE Fresh(all, j)
  <2>1. \A m \in 1 .. j - 1 : all[m] = ops[m]  BY <1>1, Earlier
  <2> QED BY <1>1, <2>1 DEF Fresh
<1>3. \A j \in 1 .. k : Processing(all[j]) => all[j].target < d
  BY <1>1 DEF Executed
<1>4. \A t \in 0 .. d - 1 : \E j \in 1 .. k : Processing(all[j]) /\ all[j].target = t
  <2> TAKE t \in 0 .. d - 1
  <2>1. PICK j \in 1 .. k : Processing(ops[j]) /\ ops[j].target = t  BY DEF Executed
  <2> QED BY <1>1, <2>1
<1>5. \A id \in DOMAIN area : \E j \in 1 .. k : all[j].op = "backup" /\ all[j].id = id
  BY <1>1 DEF Executed
<1>6. \A j \in 1 .. k : all[j].op = "backup" =>
       /\ all[j].id \in DOMAIN area
       /\ area[all[j].id] = [index |-> all[j].source, block |-> area[all[j].id].block]
       /\ Fresh(all, j) => area[all[j].id].block = old[all[j].source + 1]
  BY <1>1, <1>2 DEF Executed
<1> QED BY <1>3, <1>4, <1>5, <1>6 DEF Executed

LEMMA GoodOpLater ==
  ASSUME NEW old, NEW ops \in Seq(PlanOp), NEW all \in Seq(PlanOp), Begins(ops, all),
         NEW t, NEW op, GoodOp(old, ops, t, op)
  PROVE  GoodOp(old, all, t, op)
<1>1. ASSUME NEW source, NEW block, GoodSource(old, ops, t, source, block)
      PROVE  GoodSource(old, all, t, source, block)
  <2>1. CASE \E i \in 0 .. Len(Mix(old, t)) - 1 :
               source = Installed(i) /\ block = Mix(old, t)[i + 1]
    BY <2>1 DEF GoodSource
  <2>2. CASE \E i \in 0 .. Len(old) - 1 :
               /\ source = FromBackup(i) /\ block = old[i + 1]
               /\ \E j \in DOMAIN ops : ops[j] = SaveBlock(i) /\ Fresh(ops, j)
    <3>1. PICK i \in 0 .. Len(old) - 1 :
            /\ source = FromBackup(i) /\ block = old[i + 1]
            /\ \E j \in DOMAIN ops : ops[j] = SaveBlock(i) /\ Fresh(ops, j)
      BY <2>2
    <3>2. PICK j \in DOMAIN ops : ops[j] = SaveBlock(i) /\ Fresh(ops, j)  BY <3>1
    <3>3. j \in DOMAIN all /\ all[j] = SaveBlock(i) /\ Fresh(all, j)
      BY <3>2, Earlier, EarlierKept
    <3> QED BY <3>1, <3>3 DEF GoodSource
  <2> QED BY <1>1, <2>1, <2>2 DEF GoodSource
<1>2. op.op \in {"copy", "delta"} =>
        \E block : GoodSource(old, all, t, op.source, block) /\ Delivers(op, block)
  BY <1>1 DEF GoodOp
<1> QED BY <1>2 DEF GoodOp

(* A backup area that a plan with early backups leaves.                    *)
LEMMA AreaExecuted ==
  ASSUME NEW old \in Image, NEW ops, NEW n \in Nat, Right(old, ops, n), AllFresh(ops),
         NEW d, NEW blocks, NEW area, Executed(old, ops, Len(ops), d, blocks, area)
  PROVE  /\ \A id \in DOMAIN area :
              /\ id = BackupName(area[id].index) /\ area[id].index \in 0 .. Len(old) - 1
              /\ area[id].block = old[area[id].index + 1]
              /\ \E j \in DOMAIN ops : ops[j] = SaveBlock(area[id].index) /\ Fresh(ops, j)
         /\ \A j \in DOMAIN ops : ops[j].op = "backup" =>
              \E id \in DOMAIN area : area[id].index = ops[j].source
<1>1. ops \in Seq(PlanOp) /\ DOMAIN ops = 1 .. Len(ops)  BY DEF Right
<1>2. Len(old) \in Nat  BY DEF Image
<1>3. ASSUME NEW j \in DOMAIN ops, ops[j].op = "backup"
      PROVE  /\ ops[j].id \in DOMAIN area /\ area[ops[j].id].index = ops[j].source
             /\ area[ops[j].id].block = old[ops[j].source + 1]
             /\ ops[j] = SaveBlock(ops[j].source) /\ ops[j].id = BackupName(ops[j].source)
             /\ ops[j].source \in 0 .. Len(old) - 1 /\ Fresh(ops, j)
  <2>1. Fresh(ops, j)  BY <1>3 DEF AllFresh
  <2>2. ops[j] \in PlanOp  BY <1>1
  <2>3. /\ ops[j].source \in Nat /\ ops[j].id = BackupName(ops[j].source)
        /\ ops[j] = SaveBlock(ops[j].source)
    BY <1>3, <2>2, BackupForms
  <2>4. ops[j].source < Len(old)  BY <1>3 DEF Right, SavesOnce
  <2>5. /\ ops[j].id \in DOMAIN area
        /\ area[ops[j].id] = [index |-> ops[j].source, block |-> area[ops[j].id].block]
        /\ area[ops[j].id].block = old[ops[j].source + 1]
    BY <1>1, <1>3, <2>1 DEF Executed
  <2>6. ops[j].source \in 0 .. Len(old) - 1  BY <1>2, <2>3, <2>4
  <2>7. area[ops[j].id].index = ops[j].source  BY <2>5
  <2> QED BY <2>1, <2>3, <2>5, <2>6, <2>7
<1>4. ASSUME NEW id \in DOMAIN area
      PROVE  /\ id = BackupName(area[id].index) /\ area[id].index \in 0 .. Len(old) - 1
             /\ area[id].block = old[area[id].index + 1]
             /\ \E j \in DOMAIN ops : ops[j] = SaveBlock(area[id].index) /\ Fresh(ops, j)
  <2>1. PICK j \in DOMAIN ops : ops[j].op = "backup" /\ ops[j].id = id
    BY <1>1 DEF Executed
  <2> QED BY <1>3, <2>1
<1> QED BY <1>3, <1>4

LEMMA SavedBlocksPlanned ==
  ASSUME NEW old \in Image, NEW ops, NEW n \in Nat, Right(old, ops, n), AllFresh(ops),
         NEW d, NEW blocks, Executed(old, ops, Len(ops), d, blocks, backups)
  PROVE  /\ AreaPlanned(old, ops, SavedBlocks)
         /\ \A i \in Nat : HasBackup(i) <=> SavedIn(ops, i)
<1>1. /\ \A id \in DOMAIN backups :
           /\ id = BackupName(backups[id].index) /\ backups[id].index \in 0 .. Len(old) - 1
           /\ backups[id].block = old[backups[id].index + 1]
           /\ \E j \in DOMAIN ops : ops[j] = SaveBlock(backups[id].index) /\ Fresh(ops, j)
      /\ \A j \in DOMAIN ops : ops[j].op = "backup" =>
           \E id \in DOMAIN backups : backups[id].index = ops[j].source
  BY AreaExecuted
<1>2. \A i : i \in DOMAIN SavedBlocks <=> HasBackup(i)  BY DEF SavedBlocks, HasBackup
<1>3. ASSUME NEW i \in DOMAIN SavedBlocks
      PROVE  /\ i \in 0 .. Len(old) - 1 /\ SavedBlocks[i] = old[i + 1]
             /\ \E j \in DOMAIN ops : ops[j] = SaveBlock(i) /\ Fresh(ops, j)
  <2>1. PICK id \in DOMAIN backups : backups[id].index = i  BY <1>2 DEF HasBackup
  <2>2. SavedBlocks[i] = backups[BackupName(i)].block  BY DEF SavedBlocks
  <2> QED BY <1>1, <2>1, <2>2
<1>4. \A j \in DOMAIN ops : ops[j].op = "backup" => ops[j].source \in DOMAIN SavedBlocks
  BY <1>1, <1>2 DEF HasBackup
<1>5. AreaPlanned(old, ops, SavedBlocks)  BY <1>3, <1>4 DEF AreaPlanned
<1>6. ops \in Seq(PlanOp)  BY DEF Right
<1>7. \A i \in Nat : i \in DOMAIN SavedBlocks <=> SavedIn(ops, i)
  BY <1>5, <1>6, AreaSaves
<1> QED BY <1>2, <1>5, <1>7

(* A step of the greedy planner, before there is a deployment.             *)
LEMMA GreedyPlanningStep ==
  ASSUME BaselineInv, Greedy, UNCHANGED <<snapshot, planner, limit>>,
         sim'.fresh = sim.fresh, DOMAIN sim' = DOMAIN sim, stage' \in {"plan", "try", "adopt", "planned"},
         GreedyInv', stage' = "planned" => PlannedInv'
  PROVE  BaselineInv'
<1>1. (AtOnce' <=> AtOnce) /\ (Greedy' <=> Greedy) /\ (Careful' <=> Careful)
  BY SamePlanner
<1>2. ~AtOnce' /\ Greedy'  BY <1>1 DEF Greedy, AtOnce
<1>3. PlanFrame'
  <2>1. PlanFrame /\ stage' # "save"  BY DEF BaselineInv
  <2> QED BY <2>1, FrameKept
<1>4. DraftInv' /\ WholeInv'  BY <1>2 DEF DraftInv, WholeInv
<1>5. PlannedInv'  BY DEF PlannedInv
<1>6. DeployInv' /\ KeptInv'  BY DEF DeployInv, KeptInv
<1> QED BY <1>3, <1>4, <1>5, <1>6 DEF BaselineInv

LEMMA GreedyFacts ==
  ASSUME BaselineInv, Greedy, stage = "plan"
  PROVE  /\ snapshot \in Image /\ next \in 0 .. NewCount /\ plan \in Seq(PlanOp)
         /\ Right(snapshot, plan, next) /\ Uncut(plan) /\ AllFresh(plan)
         /\ installed = Mix(snapshot, next)
         /\ Executed(snapshot, plan, Len(plan), next, installed, backups)
         /\ Unharmed(installState, errors)
         /\ AreaPlanned(snapshot, plan, SavedBlocks)
         /\ \A i \in Nat : HasBackup(i) <=> SavedIn(plan, i)
<1>1. snapshot \in Image  BY DeploymentAssumption DEF BaselineInv, PlanFrame
<1>2. /\ next \in 0 .. NewCount /\ Right(snapshot, plan, next) /\ Uncut(plan) /\ AllFresh(plan)
      /\ Executed(snapshot, plan, Len(plan), next, installed, backups)
      /\ Unharmed(installState, errors)
  BY DEF BaselineInv, GreedyInv, GreedyPlans
<1>3. plan \in Seq(PlanOp)  BY <1>2 DEF Right
<1>4. installed = Mix(snapshot, next)  BY <1>2 DEF Executed
<1>5. next \in Nat  BY <1>2, NewImage
<1>6. /\ AreaPlanned(snapshot, plan, SavedBlocks)
      /\ \A i \in Nat : HasBackup(i) <=> SavedIn(plan, i)
  BY <1>1, <1>2, <1>5, SavedBlocksPlanned
<1> QED BY <1>1, <1>2, <1>3, <1>4, <1>6

(* The first candidate is on a clone of the simulator.                     *)
LEMMA CloneHolds ==
  ASSUME NEW old, NEW ops \in Seq(PlanOp), NEW c \in Seq(PlanOp),
         NEW d \in 0 .. NewCount, NEW blocks, NEW area,
         Executed(old, ops, Len(ops), d, blocks, area)
  PROVE  Holding(old, ops \o c, Len(ops), blocks, area)
<1>1. (ops \o c) \in Seq(PlanOp) /\ Begins(ops, ops \o c) /\ Len(ops) \in Nat
  BY ConcatBegins
<1>2. Len(ops) \in 0 .. Len(ops)  BY <1>1
<1>3. Executed(old, ops \o c, Len(ops), d, blocks, area)
  <2> DEFINE all == ops \o c
  <2>1. all \in Seq(PlanOp) /\ Begins(ops, all)  BY <1>1
  <2> HIDE DEF all
  <2>2. Executed(old, all, Len(ops), d, blocks, area)  BY <1>2, <2>1, ExecutedLater
  <2> QED BY <2>2 DEF all
<1> QED BY <1>3 DEF Holding

LEMMA WholeTail ==
  ASSUME NEW S, NEW s \in Seq(S)  PROVE SubSeq(s, 1, Len(s)) = s
OBVIOUS

(* A state of the search.                                                  *)
LEMMA Searching ==
  ASSUME BaselineInv, Greedy, GreedyPlans,
         UNCHANGED <<snapshot, planner, limit, next, plan, sim>>, stage' = "try",
         NEW left, NEW chosen, NEW best, NEW trying, NEW k \in 0 .. Len(chosen),
         search'.left = left, search'.current = chosen, search'.best = best,
         search'.trying = trying, "trying" \in DOMAIN search', left \in Seq(Seq(PlanOp)),
         Good(chosen), best = << >> \/ Good(best), \A j \in DOMAIN left : Good(left[j]),
         trying = SubSeq(chosen, k + 1, Len(chosen)),
         trying # << >> =>
           Holding(snapshot, plan \o chosen, Len(plan) + k, installed', backups'),
         Unharmed(installState, errors)'
  PROVE  BaselineInv'
<1>1. GreedyPlans'  BY DEF GreedyPlans
<1>2. /\ Good(search.current)' /\ (search.best = << >> \/ Good(search.best))'
      /\ (\A j \in DOMAIN search.left : Good(search.left[j]))'
  BY DEF Good
<1>3. (\E j \in 0 .. Len(search.current) :
              /\ search.trying = SubSeq(search.current, j + 1, Len(search.current))
              /\ search.trying # << >> =>
                   Holding(snapshot, plan \o search.current, Len(plan) + j, installed, backups))'
  OBVIOUS
<1>4. GreedyInv'  BY <1>1, <1>2, <1>3 DEF GreedyInv
<1> QED BY <1>4, GreedyPlanningStep

LEMMA SearchStarted ==
  ASSUME BaselineInv, Greedy, stage = "plan", NEW candidates,
         IsFiniteSet(candidates), candidates # {}, \A c \in candidates : Good(c),
         StartSearch(candidates)
  PROVE  BaselineInv'
<1> DEFINE order == SetToSeq(candidates)
<1>1. order \in Seq(candidates) /\ \A x \in candidates : \E k \in DOMAIN order : order[k] = x
  BY SetToSeqLists DEF Lists
<1>2. /\ stage' = "try" /\ search'.left = Tail(order) /\ search'.trying = order[1]
      /\ search'.current = order[1] /\ search'.best = << >> /\ "trying" \in DOMAIN search'
      /\ UNCHANGED <<vars, planner, next, plan, limit, draft, saved, sim>>
  BY DEF StartSearch
<1>3. UNCHANGED <<snapshot, planner, limit, next, plan, sim, installed, backups,
                  installState, errors>>
  BY <1>2 DEF vars
<1>4. Len(order) \in Nat /\ Len(order) >= 1
  <2>1. PICK x \in candidates : TRUE  OBVIOUS
  <2>2. PICK k \in DOMAIN order : order[k] = x  BY <1>1, <2>1
  <2> HIDE DEF order
  <2>3. DOMAIN order = 1 .. Len(order) /\ Len(order) \in Nat  BY <1>1
  <2> QED BY <2>2, <2>3
<1>5. order[1] \in candidates /\ Tail(order) \in Seq(candidates)
  <2> HIDE DEF order
  <2>1. order # << >>  BY <1>1, <1>4
  <2> QED BY <1>1, <1>4, <2>1
<1> HIDE DEF order
<1>6. \A c \in candidates : c \in Seq(PlanOp)  BY DEF Good
<1>7. PICK left : left = Tail(order)  OBVIOUS
<1>8. PICK first : first = order[1]  OBVIOUS
<1>9. left \in Seq(candidates) /\ first \in candidates /\ first \in Seq(PlanOp)
  BY <1>5, <1>6, <1>7, <1>8
<1>10. left \in Seq(Seq(PlanOp)) /\ \A k \in DOMAIN left : left[k] \in candidates
  BY <1>6, <1>9
<1>11. GreedyPlans  BY DEF BaselineInv, GreedyInv
<1>12. Unharmed(installState, errors)' /\ next \in 0 .. NewCount /\ plan \in Seq(PlanOp)
       /\ Executed(snapshot, plan, Len(plan), next, installed, backups)
  <2>1. Unharmed(installState, errors)  BY GreedyFacts
  <2> QED BY <1>3, <2>1, GreedyFacts DEF Unharmed
<1>13. Holding(snapshot, plan \o first, Len(plan) + 0, installed', backups')
  <2>1. Holding(snapshot, plan \o first, Len(plan), installed, backups)
    BY <1>9, <1>12, CloneHolds
  <2>2. Len(plan) + 0 = Len(plan)  BY <1>12
  <2> QED BY <1>3, <2>1, <2>2
<1>14. first = SubSeq(first, 0 + 1, Len(first)) /\ 0 \in 0 .. Len(first)
  <2>1. 0 + 1 = 1 /\ Len(first) \in Nat  BY <1>9
  <2>2. SubSeq(first, 1, Len(first)) = first  BY <1>9, WholeTail
  <2> QED BY <2>1, <2>2
<1>15. Good(first) /\ \A k \in DOMAIN left : Good(left[k])  BY <1>9, <1>10
<1>16. PICK none : none = << >>  OBVIOUS
<1>17. /\ search'.left = left /\ search'.current = first /\ search'.best = none
       /\ search'.trying = first /\ "trying" \in DOMAIN search'
  BY <1>2, <1>7, <1>8, <1>16
<1> QED BY <1>2, <1>3, <1>10, <1>11, <1>12, <1>13, <1>14, <1>15, <1>16, <1>17, Searching

-----------------------------------------------------------------------------
(* The candidates of the greedy planner.                                   *)
LEMMA FiniteRange ==
  ASSUME NEW S, IsFiniteSet(S), NEW f, DOMAIN f = S
  PROVE  IsFiniteSet({f[x] : x \in S})
<1> DEFINE T == {f[x] : x \in S}
           g == [x \in S |-> f[x]]
<1>1. g \in Surjection(S, T)
  <2>1. g \in [S -> T]  OBVIOUS
  <2>2. \A t \in T : \E x \in S : g[x] = t  OBVIOUS
  <2> QED BY <2>1, <2>2 DEF Surjection
<1> HIDE DEF g, T
<1>2. IsFiniteSet(T)  BY <1>1, FS_Surjection
<1> QED BY <1>2 DEF T

LEMMA FiniteIndices ==
  ASSUME NEW n \in Nat, NEW S, S \subseteq 0 .. n - 1  PROVE IsFiniteSet(S)
<1>1. IsFiniteSet(0 .. n - 1)
  <2>1. 0 \in Int /\ n - 1 \in Int  OBVIOUS
  <2> QED BY <2>1, FS_Interval
<1> QED BY <1>1, FS_Subset

LEMMA FiniteCopies ==
  ASSUME NEW t, NEW S, IsFiniteSet(S)
  PROVE  /\ IsFiniteSet({CopyBlock(t, Installed(i)) : i \in S})
         /\ IsFiniteSet({CopyBlock(t, FromBackup(i)) : i \in S})
<1>1. IsFiniteSet({CopyBlock(t, Installed(i)) : i \in S})
  <2> DEFINE f == [i \in S |-> CopyBlock(t, Installed(i))]
  <2>1. {f[i] : i \in S} = {CopyBlock(t, Installed(i)) : i \in S}  OBVIOUS
  <2>2. DOMAIN f = S  OBVIOUS
  <2> HIDE DEF f
  <2>3. IsFiniteSet({f[i] : i \in S})  BY <2>2, FiniteRange
  <2> QED BY <2>1, <2>3
<1>2. IsFiniteSet({CopyBlock(t, FromBackup(i)) : i \in S})
  <2> DEFINE f == [i \in S |-> CopyBlock(t, FromBackup(i))]
  <2>1. {f[i] : i \in S} = {CopyBlock(t, FromBackup(i)) : i \in S}  OBVIOUS
  <2>2. DOMAIN f = S  OBVIOUS
  <2> HIDE DEF f
  <2>3. IsFiniteSet({f[i] : i \in S})  BY <2>2, FiniteRange
  <2> QED BY <2>1, <2>3
<1> QED BY <1>1, <1>2

LEMMA FinitePatches ==
  ASSUME NEW t, NEW S, IsFiniteSet(S), NEW sizing
  PROVE  IsFiniteSet({PatchBlock(t, s.ref, s.block, sizing[s.block]) : s \in S})
<1> DEFINE f == [s \in S |-> PatchBlock(t, s.ref, s.block, sizing[s.block])]
<1>1. {f[i] : i \in S} = {PatchBlock(t, s.ref, s.block, sizing[s.block]) : s \in S}  OBVIOUS
<1>2. DOMAIN f = S  OBVIOUS
<1> HIDE DEF f
<1>3. IsFiniteSet({f[i] : i \in S})  BY <1>2, FiniteRange
<1> QED BY <1>1, <1>3

LEMMA FiniteVariants ==
  ASSUME NEW prefix, NEW S, IsFiniteSet(S)
  PROVE  IsFiniteSet(UNION {WithAndWithout(prefix, op) : op \in S})
<1> DEFINE f == [op \in S |-> <<op>>]
           g == [op \in S |-> Append(prefix, op)]
           one == {f[op] : op \in S}
           two == {g[op] : op \in S}
<1>1. DOMAIN f = S /\ DOMAIN g = S  OBVIOUS
<1>2. IsFiniteSet(one) /\ IsFiniteSet(two)
  <2> HIDE DEF f, g
  <2> QED BY <1>1, FiniteRange
<1>3. UNION {WithAndWithout(prefix, op) : op \in S} = one \cup two
  BY DEF WithAndWithout
<1> HIDE DEF one, two
<1> QED BY <1>2, <1>3, FS_Union, ZenonT(40)

LEMMA FiniteSources ==
  ASSUME NEW t, NEW blocks, NEW area  PROVE IsFiniteSet(DeltaSources(t, blocks, area))
<1> DEFINE last == Min({t, Len(blocks) - 1})
           a == [ref |-> Installed(t), block |-> blocks[t + 1]]
           b == [ref |-> FromBackup(t), block |-> area[t]]
           c == [ref |-> Installed(last), block |-> blocks[last + 1]]
<1>1. DeltaSources(t, blocks, area) \in SUBSET {a, b, c}  BY DEF DeltaSources
<1>2. IsFiniteSet({a, b, c})
  <2> HIDE DEF a, b, c
  <2>1. IsFiniteSet({a})  BY FS_Singleton
  <2>2. IsFiniteSet({a} \cup {b})  BY <2>1, FS_AddElement
  <2>3. IsFiniteSet(({a} \cup {b}) \cup {c})  BY <2>2, FS_AddElement
  <2>4. ({a} \cup {b}) \cup {c} = {a, b, c}  OBVIOUS
  <2> QED BY <2>3, <2>4
<1> QED BY <1>1, <1>2, FS_Subset

(* A candidate: an operation for the block, with a backup before it or not.*)
LEMMA BlockCandidateGood ==
  ASSUME BaselineInv, Greedy, stage = "plan", next \in 0 .. NewCount - 1,
         NEW op, GoodOp(snapshot, plan, next, op)
  PROVE  /\ Good(<<op>>)
         /\ next < Len(snapshot) /\ ~HasBackup(next) => Good(Append(<<SaveBlock(next)>>, op))
         /\ Good(Append(<< >>, op))
<1>1. /\ snapshot \in Image /\ next \in Nat /\ plan \in Seq(PlanOp)
      /\ Right(snapshot, plan, next) /\ Uncut(plan) /\ AllFresh(plan)
      /\ HasBackup(next) <=> SavedIn(plan, next)
  BY GreedyFacts, NewImage
<1>2. op \in PlanOp /\ SaveBlock(next) \in PlanOp
  BY <1>1, PlanOpsExist, ReferencesExist DEF GoodOp, PlanOp
<1>3. next < NewCount  BY NewImage
<1>4. Good(<<op>>)
  <2>1. plan \o <<op>> = Append(plan, op)  BY <1>1, <1>2, AppendBegins
  <2>2. /\ Right(snapshot, Append(plan, op), next + 1) /\ Uncut(Append(plan, op))
        /\ AllFresh(Append(plan, op))
    BY <1>1, BlockPlanned
  <2>3. <<op>> \in Seq(PlanOp) /\ <<op>> # << >>  BY <1>2
  <2> QED BY <1>3, <2>1, <2>2, <2>3 DEF Good, Extended
<1>5. Append(<< >>, op) = <<op>>
  <2>1. << >> \in Seq(PlanOp)  OBVIOUS
  <2> QED BY <1>2, <2>1, AppendIsConcat
<1>6. ASSUME next < Len(snapshot), ~HasBackup(next)
      PROVE  Good(Append(<<SaveBlock(next)>>, op))
  <2> DEFINE more == Append(plan, SaveBlock(next))
             all == Append(more, op)
             c == Append(<<SaveBlock(next)>>, op)
  <2>1. next \in 0 .. Len(snapshot) - 1
    <3>1. Len(snapshot) \in Nat  BY <1>1 DEF Image
    <3> QED BY <1>1, <1>6, <3>1
  <2>2. Right(snapshot, more, next) /\ Uncut(more) /\ AllFresh(more)
    BY <1>1, <1>6, <2>1, SavePlanned
  <2>3. more \in Seq(PlanOp) /\ Begins(plan, more)  BY <1>1, <1>2, AppendBegins
  <2>4. GoodOp(snapshot, more, next, op)
    <3> HIDE DEF more
    <3> QED BY <1>1, <2>3, GoodOpLater
  <2>5. Right(snapshot, all, next + 1) /\ Uncut(all) /\ AllFresh(all)
    <3> HIDE DEF more
    <3> QED BY <1>1, <2>2, <2>4, BlockPlanned
  <2>6. plan \o c = all
    <3>1. <<SaveBlock(next)>> \in Seq(PlanOp)  BY <1>2
    <3>2. plan \o c = Append(plan \o <<SaveBlock(next)>>, op)
      BY <1>1, <1>2, <3>1, AppendedLater
    <3>3. plan \o <<SaveBlock(next)>> = more  BY <1>1, <1>2, AppendBegins
    <3> QED BY <3>2, <3>3
  <2>7. c \in Seq(PlanOp) /\ c # << >>
    <3>1. <<SaveBlock(next)>> \in Seq(PlanOp)  BY <1>2
    <3> QED BY <1>2, <3>1, AppendProperties
  <2> HIDE DEF all, c
  <2>8. Good(c)  BY <1>3, <2>5, <2>6, <2>7 DEF Good, Extended
  <2> QED BY <2>8 DEF c
<1> QED BY <1>4, <1>5, <1>6

LEMMA TargetCandidatesGood ==
  ASSUME BaselineInv, Greedy, stage = "plan", next < NewCount,
         NEW sizing \in Sizings(DeltaSources(next, installed, SavedBlocks))
  PROVE  LET cs == TargetCandidates(next, DeltaSources(next, installed, SavedBlocks), sizing) IN
         IsFiniteSet(cs) /\ cs # {} /\ \A c \in cs : Good(c)
<1> DEFINE sources == DeltaSources(next, installed, SavedBlocks)
<1>1. /\ snapshot \in Image /\ next \in Nat /\ plan \in Seq(PlanOp)
      /\ installed = Mix(snapshot, next)
      /\ AreaPlanned(snapshot, plan, SavedBlocks) /\ next \in 0 .. NewCount - 1
  BY GreedyFacts, NewImage
<1>2. Len(installed) \in Nat /\ Len(snapshot) \in Nat
  <2>1. Len(Mix(snapshot, next)) \in Nat /\ Len(snapshot) \in Nat  BY <1>1, MixAt
  <2> QED BY <1>1, <2>1
<1>3. CASE next < Len(installed) /\ installed[next + 1] = NewBlock(next)
  <2> DEFINE one == <<KeepBlock(next)>>
  <2>1. TargetCandidates(next, sources, sizing) = {one}  BY <1>3 DEF TargetCandidates
  <2>2. next < Len(snapshot) /\ snapshot[next + 1] = NewBlock(next)
    <3> DEFINE w == Mix(snapshot, next)
    <3>1. /\ next < Len(w) => next < Len(snapshot)
          /\ \A i \in next .. Len(snapshot) - 1 : w[i + 1] = snapshot[i + 1]
      BY <1>1, MixAt
    <3>2. installed = w  BY <1>1
    <3> HIDE DEF w
    <3>3. next < Len(snapshot)  BY <1>3, <3>1, <3>2
    <3>4. next \in next .. Len(snapshot) - 1  BY <1>1, <1>2, <3>3
    <3> QED BY <1>3, <3>1, <3>2, <3>3, <3>4
  <2>3. GoodOp(snapshot, plan, next, KeepBlock(next))  BY <1>1, <2>2, KeepGood
  <2>4. Good(one)
    <3>1. PICK op : op = KeepBlock(next)  OBVIOUS
    <3>2. GoodOp(snapshot, plan, next, op)  BY <2>3, <3>1
    <3>3. Good(<<op>>)  BY <1>1, <3>2, BlockCandidateGood
    <3> QED BY <3>1, <3>3
  <2> HIDE DEF one
  <2> QED BY <2>1, <2>4, FS_Singleton
<1>4. CASE ~(next < Len(installed) /\ installed[next + 1] = NewBlock(next))
  <2> DEFINE here == {j \in 0 .. Len(installed) - 1 : installed[j + 1] = NewBlock(next)}
             kept == {j \in DOMAIN SavedBlocks : SavedBlocks[j] = NewBlock(next)}
             copies == {CopyBlock(next, Installed(i)) : i \in here} \cup
                       {CopyBlock(next, FromBackup(i)) : i \in kept}
             patches == {PatchBlock(next, s.ref, s.block, sizing[s.block]) : s \in sources}
             ops == copies \cup patches \cup {RawBlock(next)}
             cands == UNION {WithAndWithout(BackupPrefix(next), op) : op \in ops}
  <2>1. TargetCandidates(next, sources, sizing) = cands
    BY <1>4 DEF TargetCandidates
  <2>2. IsFiniteSet(ops)
    <3>1. IsFiniteSet(here)  BY <1>2, FiniteIndices
    <3>2. IsFiniteSet(kept)
      <4>1. kept \subseteq 0 .. Len(snapshot) - 1  BY <1>1 DEF AreaPlanned
      <4> HIDE DEF kept
      <4> QED BY <1>2, <4>1, FiniteIndices
    <3>3. IsFiniteSet(sources)  BY FiniteSources
    <3>4. IsFiniteSet(patches)
      <4> HIDE DEF sources
      <4> QED BY <3>3, FinitePatches
    <3>5. IsFiniteSet(copies)
      <4> HIDE DEF here, kept
      <4> QED BY <3>1, <3>2, FiniteCopies, FS_Union
    <3> HIDE DEF copies, patches
    <3>6. IsFiniteSet(copies \cup patches)  BY <3>4, <3>5, FS_Union
    <3> QED BY <3>6, FS_AddElement
  <2>3. ASSUME NEW op \in ops  PROVE GoodOp(snapshot, plan, next, op)
    <3>1. CASE op \in {CopyBlock(next, Installed(i)) : i \in here}
      <4>1. PICK i \in here : op = CopyBlock(next, Installed(i))  BY <3>1
      <4>2. i \in 0 .. Len(Mix(snapshot, next)) - 1 /\ Mix(snapshot, next)[i + 1] = NewBlock(next)
        BY <1>1, <4>1
      <4>3. GoodSource(snapshot, plan, next, Installed(i), NewBlock(next))
        <5>1. GoodSource(snapshot, plan, next, Installed(i), Mix(snapshot, next)[i + 1])
          BY <1>1, <4>2, PlacedSource
        <5> QED BY <4>2, <5>1
      <4> QED BY <1>1, <4>1, <4>3, CopyGood
    <3>2. CASE op \in {CopyBlock(next, FromBackup(i)) : i \in kept}
      <4>1. PICK i \in kept : op = CopyBlock(next, FromBackup(i))  BY <3>2
      <4>2. GoodSource(snapshot, plan, next, FromBackup(i), NewBlock(next))
        <5>1. i \in DOMAIN SavedBlocks /\ SavedBlocks[i] = NewBlock(next)  BY <4>1
        <5>2. GoodSource(snapshot, plan, next, FromBackup(i), SavedBlocks[i])
          BY <1>1, <5>1, AreaSource
        <5> QED BY <5>1, <5>2
      <4> QED BY <1>1, <4>1, <4>2, CopyGood
    <3>3. CASE op \in patches
      <4>1. PICK s \in sources :
              op = PatchBlock(next, s.ref, s.block, sizing[s.block])
        BY <3>3
      <4>2. GoodSource(snapshot, plan, next, s.ref, s.block)
        BY <1>1, <4>1, DeltaSourceGood
      <4>3. sizing[s.block] \in PatchSizes  BY <4>1 DEF Sizings
      <4> QED BY <1>1, <4>1, <4>2, <4>3, PatchGood
    <3>4. CASE op = RawBlock(next)  BY <1>1, <3>4, RawGood
    <3> QED BY <3>1, <3>2, <3>3, <3>4
  <2>4. ASSUME NEW c \in cands  PROVE Good(c)
    <3>1. PICK op \in ops : c \in {<<op>>, Append(BackupPrefix(next), op)}
      BY DEF WithAndWithout
    <3>2. /\ Good(<<op>>) /\ Good(Append(<< >>, op))
          /\ next < Len(snapshot) /\ ~HasBackup(next) => Good(Append(<<SaveBlock(next)>>, op))
      BY <1>1, <2>3, BlockCandidateGood
    <3>3. \/ BackupPrefix(next) = << >>
          \/ BackupPrefix(next) = <<SaveBlock(next)>> /\ next < Len(snapshot) /\ ~HasBackup(next)
      BY DEF BackupPrefix
    <3> QED BY <3>1, <3>2, <3>3
  <2>5. <<RawBlock(next)>> \in cands  BY DEF WithAndWithout
  <2>6. IsFiniteSet(cands)
    <3> HIDE DEF ops
    <3> QED BY <2>2, FiniteVariants
  <2> HIDE DEF cands
  <2> QED BY <2>1, <2>4, <2>5, <2>6
<1> QED BY <1>3, <1>4

LEMMA GreedySearchStep ==
  ASSUME BaselineInv, GreedySearchesBlock  PROVE BaselineInv'
<1> DEFINE sources == DeltaSources(next, installed, SavedBlocks)
<1>1. Greedy /\ stage = "plan" /\ next < NewCount
  BY DEF GreedySearchesBlock, Plans, Greedy, NewCount
<1>2. PICK sizing \in Sizings(sources) :
        StartSearch(TargetCandidates(next, sources, sizing))
  BY DEF GreedySearchesBlock
<1>3. PICK cs : cs = TargetCandidates(next, sources, sizing)  OBVIOUS
<1>4. StartSearch(cs) /\ IsFiniteSet(cs) /\ cs # {} /\ \A c \in cs : Good(c)
  BY <1>1, <1>2, <1>3, TargetCandidatesGood
<1> QED BY <1>1, <1>4, SearchStarted

-----------------------------------------------------------------------------
(* The cut at the end of the greedy planner, and its trials.               *)
LEMMA CutIndicesUnsaved ==
  ASSUME BaselineInv, Greedy, stage = "plan"
  PROVE  /\ CutIndices \subseteq 0 .. Len(snapshot) - 1
         /\ \A i \in CutIndices : ~SavedIn(plan, i)
<1> DEFINE cut == TruncateBytes(installed, NewSize)
           left == Len(cut)
<1>1. /\ snapshot \in Image /\ next \in 0 .. NewCount /\ installed = Mix(snapshot, next)
      /\ \A i \in Nat : HasBackup(i) <=> SavedIn(plan, i)
  BY GreedyFacts
<1>2. installed \in Image /\ Len(installed) \in Nat /\ Len(snapshot) \in Nat
  BY <1>1, MixBlocks
<1>3. left \in Nat
  <2>1. cut \in Image  BY <1>2, NewImage, TruncateBytesType
  <2> HIDE DEF cut
  <2> QED BY <2>1 DEF Image
<1>4. ASSUME NEW i \in CutIndices
      PROVE  i \in Nat /\ i < Len(snapshot) /\ ~HasBackup(i)
  <2>1. CASE i = left - 1 /\ left > 0 /\ i < Len(snapshot)
    <3> HIDE DEF left
    <3>1. i \in Nat  BY <1>3, <2>1
    <3> QED BY <1>4, <2>1, <3>1 DEF CutIndices
  <2>2. CASE i \in left .. Len(installed) - 1 /\ i < Len(snapshot)
    <3> HIDE DEF left
    <3>1. i \in Nat  BY <1>2, <1>3, <2>2
    <3> QED BY <1>4, <2>2, <3>1 DEF CutIndices
  <2> QED BY <1>4, <2>1, <2>2 DEF CutIndices
<1> QED BY <1>1, <1>2, <1>4

LEMMA CutCandidatesGood ==
  ASSUME BaselineInv, Greedy, stage = "plan", next = NewCount
  PROVE  IsFiniteSet(CutCandidates) /\ \A c \in CutCandidates : Good(c)
<1>1. /\ snapshot \in Image /\ plan \in Seq(PlanOp) /\ installed = Mix(snapshot, NewCount)
      /\ Right(snapshot, plan, NewCount) /\ Uncut(plan)
  BY GreedyFacts
<1>2. NewCount \in Nat /\ NewCount \in 0 .. NewCount /\ ~(NewCount < NewCount)  BY NewImage
<1> DEFINE indices == Ascending(CutIndices)
           one == <<CutToNewSize>>
           saves == Backups(indices)
           two == Append(saves, CutToNewSize)
<1>3. Good(one)
  <2>1. plan \o one = Append(plan, CutToNewSize)  BY <1>1, CutForm, AppendBegins
  <2>2. LET all == Append(plan, CutToNewSize) IN
        Right(snapshot, all, NewCount) /\ CutLast(all) /\ ~Uncut(all)
    BY <1>1, <1>2, CutPlanned
  <2>3. one \in Seq(PlanOp) /\ one # << >>  BY CutForm
  <2> HIDE DEF one
  <2> QED BY <1>2, <2>1, <2>2, <2>3 DEF Good, Extended
<1>4. Good(two)
  <2> DEFINE more == plan \o saves
             all == Append(more, CutToNewSize)
  <2>1. CutIndices \subseteq 0 .. Len(snapshot) - 1 /\ \A i \in CutIndices : ~SavedIn(plan, i)
    BY CutIndicesUnsaved
  <2>2. Len(snapshot) \in Nat  BY <1>1 DEF Image
  <2>3. \A i \in CutIndices : i \in Nat  BY <2>1, <2>2
  <2>4. CutIndices \subseteq Nat /\ IsFiniteSet(CutIndices)
    BY <2>1, <2>2, <2>3, FiniteIndices
  <2>5. Lists(CutIndices, indices)  BY <2>4, AscendingLists
  <2>6. Right(snapshot, more, NewCount) /\ Uncut(more)
    <3> HIDE DEF indices
    <3> QED BY <1>1, <1>2, <2>1, <2>5, ExtendBySaves
  <2>7. saves \in Seq(PlanOp)
    <3>1. indices \in Seq(Nat)  BY <2>4, <2>5, NumberList DEF Lists
    <3> HIDE DEF indices
    <3> QED BY <3>1, BackupsForm
  <2>8. Right(snapshot, all, NewCount) /\ CutLast(all) /\ ~Uncut(all)
    <3> HIDE DEF more
    <3> QED BY <1>1, <1>2, <2>6, CutPlanned
  <2>9. plan \o two = all
    <3> HIDE DEF saves
    <3> QED BY <1>1, <2>7, CutForm, AppendedLater
  <2>10. two \in Seq(PlanOp) /\ two # << >>
    <3> HIDE DEF saves
    <3> QED BY <2>7, CutForm, AppendProperties
  <2> HIDE DEF two, all
  <2> QED BY <1>2, <2>8, <2>9, <2>10 DEF Good, Extended
<1> HIDE DEF one, two
<1>5. CutCandidates = {one, two}  BY DEF CutCandidates, one, two
<1>6. IsFiniteSet({one, two})
  <2>1. IsFiniteSet({one} \cup {two})  BY FS_Singleton, FS_AddElement
  <2>2. {one} \cup {two} = {one, two}  OBVIOUS
  <2> QED BY <2>1, <2>2
<1> QED BY <1>3, <1>4, <1>5, <1>6

LEMMA GreedyCutStep ==
  ASSUME BaselineInv, GreedyCuts  PROVE BaselineInv'
<1>1. Greedy /\ stage = "plan" /\ next = NewCount
  BY DEF GreedyCuts, Plans, Greedy, NewCount
<1>2. /\ snapshot \in Image /\ plan \in Seq(PlanOp) /\ installed = Mix(snapshot, NewCount)
      /\ Right(snapshot, plan, NewCount) /\ Uncut(plan)
  BY <1>1, GreedyFacts
<1>3. NewCount \in Nat /\ NewCount \in 0 .. NewCount /\ ~(NewCount < NewCount)  BY NewImage
<1>4. CASE ImageBytes(installed) > NewSize
  <2>1. PICK cs : cs = CutCandidates  OBVIOUS
  <2>2. StartSearch(cs)  BY <1>1, <1>4, <2>1 DEF GreedyCuts, NewCount
  <2>3. IsFiniteSet(cs) /\ \A x \in cs : Good(x)  BY <1>1, <2>1, CutCandidatesGood
  <2>4. cs # {}  BY <2>1 DEF CutCandidates
  <2> QED BY <1>1, <2>2, <2>3, <2>4, SearchStarted
<1>5. CASE ~(ImageBytes(installed) > NewSize)
  <2>1. /\ stage' = "planned"
        /\ UNCHANGED <<vars, planner, next, plan, limit, draft, saved, search, sim>>
    BY <1>5 DEF GreedyCuts
  <2>2. /\ UNCHANGED <<snapshot, planner, limit>> /\ sim' = sim /\ plan' = plan
    BY <2>1 DEF vars
  <2>3. GreedyInv'  BY <2>1 DEF GreedyInv
  <2>4. PlannedInv'
    <3>1. ~Careful'  BY <1>1, <2>2 DEF Greedy, Careful
    <3>2. CutLast(plan)  BY <1>2 DEF Uncut, CutLast
    <3>3. ImageBytes(Mix(snapshot, NewCount)) \in Nat /\ NewSize \in Nat
      <4>1. Mix(snapshot, NewCount) \in Image  BY <1>2, <1>3, MixBlocks
      <4> QED BY <4>1, BytesType, NewImage
    <3>4. ~(ImageBytes(Mix(snapshot, NewCount)) > NewSize)  BY <1>2, <1>5
    <3>5. ImageBytes(Mix(snapshot, NewCount)) <= NewSize  BY <3>3, <3>4
    <3> QED BY <1>2, <2>2, <3>1, <3>2, <3>5 DEF PlannedInv
  <2> QED BY <1>1, <2>1, <2>2, <2>3, <2>4, GreedyPlanningStep
<1> QED BY <1>4, <1>5

(* An operation of a plan that is right is accepted, the cut included.     *)
LEMMA CutApplies ==
  ASSUME NEW op \in PlanOp, op.op = "truncate"  PROVE Applicable(op)
BY DEF Applicable

LEMMA OperationAccepted ==
  ASSUME NEW old \in Image, NEW ops, NEW n \in 0 .. NewCount, Right(old, ops, n),
         CutLast(ops), NEW k \in 0 .. Len(ops) - 1,
         Holding(old, ops, k, installed, backups), Unharmed(installState, errors),
         Apply(ops[k + 1])
  PROVE  /\ Succeed(ops[k + 1]) /\ Unharmed(installState, errors)'
         /\ snapshot' = snapshot
         /\ ops[k + 1].op # "truncate" => Holding(old, ops, k + 1, installed', backups')
         /\ ops[k + 1].op = "truncate" => k + 1 = Len(ops)
<1> DEFINE op == ops[k + 1]
<1>1. ops \in Seq(PlanOp) /\ k + 1 \in DOMAIN ops /\ op \in PlanOp  BY DEF Right
<1>2. Applicable(op)
  <2>1. CASE op.op = "truncate"  BY <1>1, <2>1, CutApplies
  <2>2. CASE op.op # "truncate"  BY <2>2, ExecuteStep
  <2> QED BY <2>1, <2>2
<1>3. Succeed(op)  BY <1>2 DEF Apply, Fail
<1>4. op.op \notin {"commit", "rollback"}  BY <1>1, PlanOpForms
<1>5. errors' = errors /\ installState' = "installing" /\ snapshot' = snapshot
  BY <1>3, <1>4, SucceedYields
<1>6. Unharmed(installState, errors)'  BY <1>5 DEF Unharmed
<1>7. op.op # "truncate" => Holding(old, ops, k + 1, installed', backups')
  BY <1>3, ExecuteStep
<1>8. op.op = "truncate" => k + 1 = Len(ops)  BY <1>1 DEF CutLast
<1> QED BY <1>3, <1>5, <1>6, <1>7, <1>8

LEMMA ExtendedRight ==
  ASSUME NEW old, NEW ops, NEW n \in 0 .. NewCount, Extended(old, ops, n)
  PROVE  /\ \E m \in 0 .. NewCount : Right(old, ops, m)
         /\ CutLast(ops) /\ (n < NewCount => Uncut(ops)) /\ ops \in Seq(PlanOp)
<1>1. NewCount \in Nat  BY NewImage
<1>2. CASE n < NewCount
  <2>1. Right(old, ops, n + 1) /\ Uncut(ops)  BY <1>2 DEF Extended
  <2>2. n + 1 \in 0 .. NewCount  BY <1>1, <1>2
  <2>3. CutLast(ops)  BY <2>1 DEF CutLast, Uncut
  <2> QED BY <2>1, <2>2, <2>3 DEF Right
<1>3. CASE ~(n < NewCount)
  <2>1. Right(old, ops, NewCount) /\ CutLast(ops)  BY <1>3 DEF Extended
  <2>2. NewCount \in 0 .. NewCount  BY <1>1
  <2> QED BY <1>3, <2>1, <2>2 DEF Right
<1> QED BY <1>2, <1>3

LEMMA Remaining ==
  ASSUME NEW S, NEW s \in Seq(S), NEW k \in 0 .. Len(s), NEW rest,
         rest = SubSeq(s, k + 1, Len(s)), rest # << >>
  PROVE  /\ k < Len(s) /\ Head(rest) = s[k + 1] /\ rest \in Seq(S) /\ k + 1 \in 0 .. Len(s)
         /\ Tail(rest) = SubSeq(s, (k + 1) + 1, Len(s))
         /\ k + 1 = Len(s) => Tail(rest) = << >>
<1>1. k \in Nat /\ Len(s) \in Nat  OBVIOUS
<1>2. k < Len(s)
  <2> SUFFICES ASSUME k = Len(s)  PROVE FALSE  BY <1>1
  <2> QED BY <1>1
<1>3. /\ rest \in Seq(S) /\ Len(rest) = Len(s) - k
      /\ \A i \in 1 .. Len(rest) : rest[i] = s[k + i]
  BY <1>1, <1>2
<1>4. Head(rest) = s[k + 1]  BY <1>1, <1>2, <1>3
<1>5. Tail(rest) = SubSeq(s, (k + 1) + 1, Len(s))
  <2> DEFINE a == Tail(rest)
             b == SubSeq(s, (k + 1) + 1, Len(s))
  <2>1. a \in Seq(S) /\ Len(a) = Len(s) - k - 1
        /\ \A i \in 1 .. Len(a) : a[i] = rest[i + 1]
    BY <1>1, <1>2, <1>3
  <2>2. b \in Seq(S) /\ Len(b) = Len(s) - k - 1
        /\ \A i \in 1 .. Len(b) : b[i] = s[(k + 1) + i]
    BY <1>1, <1>2
  <2> HIDE DEF a, b
  <2>3. \A i \in 1 .. Len(a) : a[i] = b[i]
    <3> TAKE i \in 1 .. Len(a)
    <3>1. i + 1 \in 1 .. Len(rest) /\ i \in 1 .. Len(b)  BY <1>1, <1>2, <1>3, <2>1, <2>2
    <3>2. k + (i + 1) = (k + 1) + i  BY <1>1
    <3>3. a[i] = s[k + (i + 1)]  BY <1>3, <2>1, <3>1
    <3> QED BY <2>2, <3>1, <3>2, <3>3
  <2> QED BY <2>1, <2>2, <2>3
<1>6. k + 1 \in 0 .. Len(s)  BY <1>1, <1>2
<1>7. k + 1 = Len(s) => SubSeq(s, (k + 1) + 1, Len(s)) = << >>  BY <1>1
<1> QED BY <1>2, <1>3, <1>4, <1>5, <1>6, <1>7

-----------------------------------------------------------------------------
(* The trials, the verdict, and the candidate that is adopted.             *)
LEMMA TryStep ==
  ASSUME BaselineInv, TryOperation  PROVE BaselineInv'
<1>1. /\ stage = "try" /\ search.trying # << >> /\ Apply(Head(search.trying))
      /\ search' = [search EXCEPT !.trying = IF installState' = "failed" THEN << >> ELSE Tail(@)]
      /\ UNCHANGED <<planner, stage, next, plan, limit, draft, saved, sim>>
  BY DEF TryOperation
<1>2. Greedy /\ snapshot \in Image
  BY <1>1, DeploymentAssumption DEF BaselineInv, PlanFrame
<1>3. /\ GreedyPlans /\ Unharmed(installState, errors) /\ "trying" \in DOMAIN search
      /\ Good(search.current) /\ (search.best = << >> \/ Good(search.best))
      /\ search.left \in Seq(Seq(PlanOp)) /\ \A k \in DOMAIN search.left : Good(search.left[k])
      /\ \E k \in 0 .. Len(search.current) :
           /\ search.trying = SubSeq(search.current, k + 1, Len(search.current))
           /\ search.trying # << >> =>
                Holding(snapshot, plan \o search.current, Len(plan) + k, installed, backups)
  BY <1>1, <1>2 DEF BaselineInv, GreedyInv
<1>4. PICK chosen : chosen = search.current  OBVIOUS
<1>5. PICK left : left = search.left  OBVIOUS
<1>6. PICK best : best = search.best  OBVIOUS
<1>7. PICK rest : rest = search.trying  OBVIOUS
<1>8. PICK k \in 0 .. Len(chosen) :
        /\ rest = SubSeq(chosen, k + 1, Len(chosen))
        /\ Holding(snapshot, plan \o chosen, Len(plan) + k, installed, backups)
  BY <1>1, <1>3, <1>4, <1>7
<1>9. /\ chosen \in Seq(PlanOp) /\ plan \in Seq(PlanOp) /\ next \in 0 .. NewCount
      /\ Extended(snapshot, plan \o chosen, next)
  BY <1>3, <1>4 DEF Good, GreedyPlans, Right
<1>10. PICK all : all = plan \o chosen  OBVIOUS
<1>11. PICK m \in 0 .. NewCount : Right(snapshot, all, m)
  BY <1>9, <1>10, ExtendedRight
<1>12. CutLast(all)  BY <1>9, <1>10, ExtendedRight
<1>13. /\ k < Len(chosen) /\ Head(rest) = chosen[k + 1] /\ k + 1 \in 0 .. Len(chosen)
       /\ Tail(rest) = SubSeq(chosen, (k + 1) + 1, Len(chosen))
       /\ k + 1 = Len(chosen) => Tail(rest) = << >>
  <2>1. rest # << >>  BY <1>1, <1>7
  <2>2. chosen \in Seq(PlanOp)  BY <1>9
  <2>3. rest = SubSeq(chosen, k + 1, Len(chosen))  BY <1>8
  <2> QED BY <2>1, <2>2, <2>3, Remaining
<1>14. /\ Len(plan) \in Nat /\ Len(chosen) \in Nat /\ k \in Nat /\ k + 1 \in DOMAIN chosen
       /\ Len(all) = Len(plan) + Len(chosen)
       /\ all[Len(plan) + (k + 1)] = chosen[k + 1]
  <2>1. Len(chosen) \in Nat /\ DOMAIN chosen = 1 .. Len(chosen) /\ k \in Nat  BY <1>9
  <2>2. k < Len(chosen)  BY <1>13
  <2>3. k + 1 \in 1 .. Len(chosen)  BY <2>1, <2>2
  <2>4. k + 1 \in DOMAIN chosen  BY <2>1, <2>3
  <2> QED BY <1>9, <1>10, <2>1, <2>4, ConcatBegins
<1>15. PICK j : j = Len(plan) + k  OBVIOUS
<1>16. j \in 0 .. Len(all) - 1 /\ j + 1 = Len(plan) + (k + 1)
       /\ (j + 1 = Len(all) => k + 1 = Len(chosen))
  BY <1>13, <1>14, <1>15
<1>17. all[j + 1] = Head(rest)  BY <1>13, <1>14, <1>16
<1>18. Holding(snapshot, all, j, installed, backups)  BY <1>8, <1>10, <1>15
<1>19. Apply(all[j + 1])  BY <1>1, <1>7, <1>17
<1>20. /\ Unharmed(installState, errors)' /\ snapshot' = snapshot
       /\ all[j + 1].op # "truncate" => Holding(snapshot, all, j + 1, installed', backups')
       /\ all[j + 1].op = "truncate" => j + 1 = Len(all)
  BY <1>2, <1>3, <1>11, <1>12, <1>16, <1>18, <1>19, OperationAccepted
<1>21. installState' # "failed"  BY <1>20 DEF Unharmed
<1>22. PICK trying : trying = Tail(rest)  OBVIOUS
<1>23. /\ search'.trying = trying /\ search'.left = left /\ search'.current = chosen
       /\ search'.best = best /\ "trying" \in DOMAIN search'
  <2>1. search'.left = search.left /\ search'.current = search.current
        /\ search'.best = search.best /\ DOMAIN search' = DOMAIN search
    BY <1>1
  <2>2. search'.trying = Tail(search.trying)
    <3>1. search' = [search EXCEPT !.trying = Tail(@)]  BY <1>1, <1>21
    <3> QED BY <1>3, <3>1
  <2> QED BY <1>3, <1>4, <1>5, <1>6, <1>7, <1>22, <2>1, <2>2
<1>24. trying # << >> =>
         Holding(snapshot, plan \o chosen, Len(plan) + (k + 1), installed', backups')
  BY <1>10, <1>13, <1>16, <1>20, <1>22
<1>25. /\ Good(chosen) /\ (best = << >> \/ Good(best)) /\ left \in Seq(Seq(PlanOp))
       /\ \A i \in DOMAIN left : Good(left[i])
  BY <1>3, <1>4, <1>5, <1>6
<1>26. trying = SubSeq(chosen, (k + 1) + 1, Len(chosen))  BY <1>13, <1>22
<1>27. stage' = "try" /\ UNCHANGED <<snapshot, planner, limit, next, plan, sim>>
  BY <1>1, <1>20
<1> QED
  BY <1>2, <1>3, <1>13, <1>20, <1>23, <1>24, <1>25, <1>26, <1>27, Searching, ZenonT(40)

LEMMA JudgeStep ==
  ASSUME BaselineInv, JudgeCandidate  PROVE BaselineInv'
<1>1. PICK better \in Verdicts :
       LET best  == IF better THEN search.current ELSE search.best
           ended == search.left = << >>
           tried == IF ended THEN best ELSE Head(search.left)
       IN  /\ search' = [left |-> IF ended THEN << >> ELSE Tail(search.left),
                         trying |-> tried, current |-> tried, best |-> best,
                         score |-> IF better THEN Score ELSE search.score]
           /\ stage' = IF ~ended THEN "try" ELSE IF best = << >> THEN "raised" ELSE "adopt"
  BY DEF JudgeCandidate
<1>2. /\ stage = "try" /\ Become(sim.planned)
      /\ UNCHANGED <<planner, next, plan, limit, draft, saved, sim>>
  BY DEF JudgeCandidate, AfterTrial
<1>3. Greedy /\ snapshot \in Image
  BY <1>2, DeploymentAssumption DEF BaselineInv, PlanFrame
<1>4. /\ GreedyPlans /\ Unharmed(installState, errors)
      /\ Good(search.current) /\ (search.best = << >> \/ Good(search.best))
      /\ search.left \in Seq(Seq(PlanOp)) /\ \A k \in DOMAIN search.left : Good(search.left[k])
  BY <1>2, <1>3 DEF BaselineInv, GreedyInv
<1>5. search.best # << >> \/ better
  <2>1. installState # "failed"  BY <1>4 DEF Unharmed
  <2> QED BY <1>1, <2>1 DEF Verdicts
<1>6. PICK best : best = IF better THEN search.current ELSE search.best  OBVIOUS
<1>7. PICK left : left = search.left  OBVIOUS
<1>8. Good(best) /\ best # << >> /\ best \in Seq(PlanOp)
  BY <1>4, <1>5, <1>6 DEF Good
<1>9. /\ installed' = sim.planned.installed /\ backups' = sim.planned.backups
      /\ installState' = sim.planned.installState /\ errors' = sim.planned.errors
      /\ snapshot' = snapshot
  BY <1>2 DEF Become
<1>10. Unharmed(installState, errors)'  BY <1>4, <1>9 DEF GreedyPlans, Unharmed
<1>11. plan \in Seq(PlanOp) /\ next \in 0 .. NewCount
       /\ Executed(snapshot, plan, Len(plan), next, installed', backups')
  BY <1>4, <1>9 DEF GreedyPlans, Right
<1>12. UNCHANGED <<snapshot, planner, limit, next, plan, sim>>  BY <1>2, <1>9
<1>13. ASSUME NEW c \in Seq(PlanOp)
       PROVE  Holding(snapshot, plan \o c, Len(plan), installed', backups')
  <2>1. PICK blocks : blocks = installed'  OBVIOUS
  <2>2. PICK area : area = backups'  OBVIOUS
  <2>3. Executed(snapshot, plan, Len(plan), next, blocks, area)  BY <1>11, <2>1, <2>2
  <2>4. Holding(snapshot, plan \o c, Len(plan), blocks, area)  BY <1>11, <2>3, CloneHolds
  <2> QED BY <2>1, <2>2, <2>4
<1>14. CASE left # << >>
  <2>1. PICK tried : tried = Head(left)  OBVIOUS
  <2>2. PICK later : later = Tail(left)  OBVIOUS
  <2>3. /\ left \in Seq(Seq(PlanOp)) /\ \A k \in DOMAIN left : Good(left[k])
    BY <1>4, <1>7
  <2>4. Len(left) \in Nat /\ DOMAIN left = 1 .. Len(left) /\ Len(left) >= 1
    BY <1>14, <2>3
  <2>5. tried = left[1] /\ Good(tried) /\ tried \in Seq(PlanOp)
    <3>1. 1 \in DOMAIN left  BY <2>4
    <3>2. tried = left[1]  BY <1>14, <2>1, <2>3
    <3> QED BY <2>3, <3>1, <3>2 DEF Good
  <2>6. later \in Seq(Seq(PlanOp)) /\ \A k \in DOMAIN later : Good(later[k])
    <3>1. /\ later \in Seq(Seq(PlanOp)) /\ Len(later) = Len(left) - 1
          /\ \A k \in 1 .. Len(later) : later[k] = left[k + 1]
      BY <1>14, <2>2, <2>3
    <3>2. \A k \in DOMAIN later : k \in 1 .. Len(later) /\ k + 1 \in DOMAIN left
      BY <2>4, <3>1
    <3> QED BY <2>3, <3>1, <3>2
  <2>7. /\ search'.left = later /\ search'.trying = tried /\ search'.current = tried
        /\ search'.best = best /\ stage' = "try" /\ "trying" \in DOMAIN search'
    BY <1>1, <1>6, <1>7, <1>14, <2>1, <2>2
  <2>8. tried = SubSeq(tried, 0 + 1, Len(tried)) /\ 0 \in 0 .. Len(tried)
    <3>1. 0 + 1 = 1 /\ Len(tried) \in Nat  BY <2>5
    <3>2. SubSeq(tried, 1, Len(tried)) = tried  BY <2>5, WholeTail
    <3> QED BY <3>1, <3>2
  <2>9. Holding(snapshot, plan \o tried, Len(plan) + 0, installed', backups')
    <3>1. Len(plan) + 0 = Len(plan)  BY <1>11
    <3> QED BY <1>13, <2>5, <3>1
  <2>10. best = << >> \/ Good(best)  BY <1>8
  <2> QED
    BY <1>3, <1>4, <1>10, <1>12, <2>5, <2>6, <2>7, <2>8, <2>9, <2>10, Searching
<1>15. CASE left = << >>
  <2>1. stage' = "adopt" /\ search'.trying = best /\ "trying" \in DOMAIN search'
    BY <1>1, <1>6, <1>7, <1>8, <1>15
  <2>2. Extended(snapshot, plan \o best, next)  BY <1>8 DEF Good
  <2>3. Holding(snapshot, plan \o best, Len(plan), installed', backups')  BY <1>8, <1>13
  <2>4. GreedyInv'
    BY <1>8, <1>10, <1>11, <1>12, <2>1, <2>2, <2>3 DEF GreedyInv
  <2> QED BY <1>3, <1>12, <2>1, <2>4, GreedyPlanningStep
<1> QED BY <1>14, <1>15

LEMMA HeadAndTail ==
  ASSUME NEW S, NEW a \in Seq(S), NEW b \in Seq(S), b # << >>
  PROVE  /\ Append(a, Head(b)) \o Tail(b) = a \o b /\ Append(a, Head(b)) \in Seq(S)
         /\ Len(Append(a, Head(b))) = Len(a) + 1 /\ Tail(b) \in Seq(S) /\ Head(b) = b[1]
         /\ (a \o b)[Len(a) + 1] = Head(b) /\ Len(a) \in 0 .. Len(a \o b) - 1
         /\ Len(a) + 1 = Len(a \o b) => Tail(b) = << >>
<1> DEFINE all == a \o b
           one == Append(a, Head(b))
           both == one \o Tail(b)
<1>1. /\ Len(a) \in Nat /\ Len(b) \in Nat /\ Len(b) >= 1
      /\ Head(b) = b[1] /\ Head(b) \in S
      /\ Tail(b) \in Seq(S) /\ Len(Tail(b)) = Len(b) - 1
      /\ \A i \in 1 .. Len(b) - 1 : Tail(b)[i] = b[i + 1]
  OBVIOUS
<1>2. /\ all \in Seq(S) /\ Len(all) = Len(a) + Len(b)
      /\ \A i \in 1 .. Len(a) : all[i] = a[i]
      /\ \A i \in Len(a) + 1 .. Len(a) + Len(b) : all[i] = b[i - Len(a)]
  OBVIOUS
<1>3. /\ one \in Seq(S) /\ Len(one) = Len(a) + 1
      /\ \A i \in 1 .. Len(a) : one[i] = a[i]
      /\ one[Len(a) + 1] = Head(b)
  BY <1>1, AppendProperties
<1>4. PICK rest : rest = Tail(b)  OBVIOUS
<1>5. /\ rest \in Seq(S) /\ Len(rest) = Len(b) - 1
      /\ \A i \in 1 .. Len(b) - 1 : rest[i] = b[i + 1]
  BY <1>1, <1>4
<1>6. /\ both \in Seq(S) /\ Len(both) = Len(a) + Len(b)
      /\ \A i \in 1 .. Len(a) + 1 : both[i] = one[i]
      /\ \A i \in Len(a) + 2 .. Len(a) + Len(b) : both[i] = rest[i - (Len(a) + 1)]
  <2> HIDE DEF one
  <2>1. both = one \o rest  BY <1>4
  <2>2. /\ (one \o rest) \in Seq(S) /\ Len(one \o rest) = Len(one) + Len(rest)
        /\ \A i \in 1 .. Len(one) + Len(rest) :
             (one \o rest)[i] = IF i <= Len(one) THEN one[i] ELSE rest[i - Len(one)]
    BY <1>3, <1>5, ConcatProperties
  <2> HIDE DEF both
  <2>3. Len(one) + Len(rest) = Len(a) + Len(b)  BY <1>1, <1>3, <1>5
  <2>4. \A i \in 1 .. Len(a) + 1 : i \in 1 .. Len(one) + Len(rest) /\ i <= Len(one)
    BY <1>1, <1>3, <2>3
  <2>5. \A i \in Len(a) + 2 .. Len(a) + Len(b) :
          i \in 1 .. Len(one) + Len(rest) /\ ~(i <= Len(one))
    BY <1>1, <1>3, <2>3
  <2>6. \A i \in 1 .. Len(a) + 1 : both[i] = one[i]  BY <2>1, <2>2, <2>4
  <2>7. \A i \in Len(a) + 2 .. Len(a) + Len(b) : both[i] = rest[i - (Len(a) + 1)]
    BY <1>3, <2>1, <2>2, <2>5
  <2> QED BY <2>1, <2>2, <2>3, <2>6, <2>7
<1> HIDE DEF all, one, both
<1>7. \A i \in 1 .. Len(both) : both[i] = all[i]
  <2> TAKE i \in 1 .. Len(both)
  <2>1. CASE i <= Len(a)
    <3>1. i \in 1 .. Len(a) /\ i \in 1 .. Len(a) + 1  BY <1>1, <1>6, <2>1
    <3> QED BY <1>2, <1>3, <1>6, <3>1
  <2>2. CASE i = Len(a) + 1
    <3>1. i \in 1 .. Len(a) + 1 /\ i \in Len(a) + 1 .. Len(a) + Len(b) /\ i - Len(a) = 1
      BY <1>1, <2>2
    <3> QED BY <1>1, <1>2, <1>3, <1>6, <2>2, <3>1
  <2>3. CASE i > Len(a) + 1
    <3>1. /\ i \in Len(a) + 2 .. Len(a) + Len(b) /\ i \in Len(a) + 1 .. Len(a) + Len(b)
          /\ i - (Len(a) + 1) \in 1 .. Len(b) - 1
          /\ (i - (Len(a) + 1)) + 1 = i - Len(a)
      BY <1>1, <1>6, <2>3
    <3>2. both[i] = rest[i - (Len(a) + 1)]  BY <1>6, <3>1
    <3>3. rest[i - (Len(a) + 1)] = b[(i - (Len(a) + 1)) + 1]  BY <1>5, <3>1
    <3> QED BY <1>2, <3>1, <3>2, <3>3
  <2>4. i \in Nat /\ Len(a) \in Nat  BY <1>1, <1>6
  <2>5. i <= Len(a) \/ i = Len(a) + 1 \/ i > Len(a) + 1  BY <2>4
  <2> QED BY <2>1, <2>2, <2>3, <2>5
<1>8. both = all  BY <1>2, <1>6, <1>7
<1>9. Len(a) \in 0 .. Len(all) - 1 /\ all[Len(a) + 1] = Head(b)
  <2>1. Len(a) + 1 \in Len(a) + 1 .. Len(a) + Len(b) /\ (Len(a) + 1) - Len(a) = 1  BY <1>1
  <2> QED BY <1>1, <1>2, <2>1
<1>10. Len(a) + 1 = Len(all) => Tail(b) = << >>
  <2> HAVE Len(a) + 1 = Len(all)
  <2>1. Len(rest) = 0 /\ rest \in Seq(S)  BY <1>1, <1>2, <1>5
  <2> QED BY <1>4, <2>1
<1> QED BY <1>1, <1>3, <1>8, <1>9, <1>10 DEF all, one, both

LEMMA AdoptStep ==
  ASSUME BaselineInv, AdoptOperation  PROVE BaselineInv'
<1>1. /\ stage = "adopt" /\ search.trying # << >> /\ Apply(Head(search.trying))
      /\ plan' = Append(plan, Head(search.trying))
      /\ search' = [search EXCEPT !.trying = Tail(@)]
      /\ UNCHANGED <<planner, stage, next, limit, draft, saved, sim>>
  BY DEF AdoptOperation
<1>2. Greedy /\ snapshot \in Image
  BY <1>1, DeploymentAssumption DEF BaselineInv, PlanFrame
<1>3. /\ next \in 0 .. NewCount /\ plan \in Seq(PlanOp) /\ search.trying \in Seq(PlanOp)
      /\ Extended(snapshot, plan \o search.trying, next)
      /\ Unharmed(installState, errors) /\ "trying" \in DOMAIN search
      /\ Holding(snapshot, plan \o search.trying, Len(plan), installed, backups)
  BY <1>1, <1>2 DEF BaselineInv, GreedyInv
<1>4. PICK rest : rest = search.trying  OBVIOUS
<1>5. PICK all : all = plan \o rest  OBVIOUS
<1>6. /\ Append(plan, Head(rest)) \o Tail(rest) = all /\ Append(plan, Head(rest)) \in Seq(PlanOp)
      /\ Len(Append(plan, Head(rest))) = Len(plan) + 1 /\ Tail(rest) \in Seq(PlanOp)
      /\ all[Len(plan) + 1] = Head(rest) /\ Len(plan) \in 0 .. Len(all) - 1
      /\ Len(plan) + 1 = Len(all) => Tail(rest) = << >>
  <2>1. rest \in Seq(PlanOp) /\ rest # << >>  BY <1>1, <1>3, <1>4
  <2> QED BY <1>3, <1>5, <2>1, HeadAndTail, SMTT(30)
<1>7. PICK j : j = Len(plan)  OBVIOUS
<1>8. PICK m \in 0 .. NewCount : Right(snapshot, all, m)
  BY <1>3, <1>4, <1>5, ExtendedRight
<1>9. CutLast(all) /\ (next < NewCount => Uncut(all))  BY <1>3, <1>4, <1>5, ExtendedRight
<1>10. /\ j \in 0 .. Len(all) - 1 /\ Holding(snapshot, all, j, installed, backups)
       /\ Apply(all[j + 1])
  BY <1>1, <1>3, <1>4, <1>5, <1>6, <1>7
<1>11. /\ Unharmed(installState, errors)' /\ snapshot' = snapshot
       /\ all[j + 1].op # "truncate" => Holding(snapshot, all, j + 1, installed', backups')
       /\ all[j + 1].op = "truncate" => j + 1 = Len(all)
  BY <1>2, <1>3, <1>8, <1>9, <1>10, OperationAccepted
<1>12. PICK later : later = Tail(rest)  OBVIOUS
<1>13. PICK grown : grown = Append(plan, Head(rest))  OBVIOUS
<1>14. /\ search'.trying = later /\ plan' = grown /\ stage' = "adopt" /\ next' = next
       /\ UNCHANGED <<snapshot, planner, limit>> /\ sim' = sim /\ "trying" \in DOMAIN search'
  <2>1. search'.trying = Tail(search.trying) /\ DOMAIN search' = DOMAIN search
    BY <1>1, <1>3
  <2> QED BY <1>1, <1>3, <1>4, <1>11, <1>12, <1>13, <2>1
<1>15. /\ grown \o later = all /\ grown \in Seq(PlanOp) /\ later \in Seq(PlanOp)
       /\ Len(grown) = j + 1 /\ (j + 1 = Len(all) => later = << >>)
  BY <1>6, <1>7, <1>12, <1>13
<1>16. Extended(snapshot, all, next)  BY <1>3, <1>4, <1>5
<1>17. later # << >> \/ next < NewCount =>
         Holding(snapshot, grown \o later, Len(grown), installed', backups')
  <2>1. ASSUME later # << >> \/ next < NewCount  PROVE all[j + 1].op # "truncate"
    <3>1. CASE later # << >>  BY <1>11, <1>15, <3>1
    <3>2. CASE next < NewCount
      <4>1. j + 1 \in DOMAIN all
        <5>1. all \in Seq(PlanOp)  BY <1>8 DEF Right
        <5> QED BY <1>10, <5>1
      <4> QED BY <1>9, <3>2, <4>1 DEF Uncut
    <3> QED BY <2>1, <3>1, <3>2
  <2> QED BY <1>11, <1>15, <2>1
<1>18. GreedyInv'
  BY <1>3, <1>11, <1>14, <1>15, <1>16, <1>17 DEF GreedyInv
<1> QED BY <1>2, <1>14, <1>18, GreedyPlanningStep

(* A whole plan for n blocks, executed, leaves n blocks.                   *)
LEMMA ExecutedAll ==
  ASSUME NEW old, NEW ops, NEW n \in 0 .. NewCount, Right(old, ops, n),
         NEW d, NEW blocks, NEW area, Executed(old, ops, Len(ops), d, blocks, area)
  PROVE  d = n
<1>1. ops \in Seq(PlanOp) /\ DOMAIN ops = 1 .. Len(ops) /\ NewCount \in Nat /\ n \in Nat
  BY NewImage DEF Right
<1>2. d \in Nat  BY <1>1 DEF Executed
<1>3. ~(d < n)
  <2> SUFFICES ASSUME d < n  PROVE FALSE  OBVIOUS
  <2>1. d \in 0 .. n - 1  BY <1>1, <1>2
  <2>2. PICK k \in DOMAIN ops : Processing(ops[k]) /\ ops[k].target = d
    BY <2>1 DEF Right, Covers
  <2>3. ops[k].target < d  BY <1>1, <2>2 DEF Executed
  <2> QED BY <1>2, <2>2, <2>3
<1>4. ~(n < d)
  <2> SUFFICES ASSUME n < d  PROVE FALSE  OBVIOUS
  <2>1. n \in 0 .. d - 1  BY <1>1, <1>2
  <2>2. PICK k \in 1 .. Len(ops) : Processing(ops[k]) /\ ops[k].target = n
    BY <2>1 DEF Executed
  <2>3. ops[k].target < n  BY <1>1, <2>2 DEF Right, InOrder
  <2> QED BY <1>1, <2>2, <2>3
<1> QED BY <1>1, <1>2, <1>3, <1>4

LEMMA AdoptedStep ==
  ASSUME BaselineInv, Adopted  PROVE BaselineInv'
<1>1. /\ stage = "adopt" /\ search.trying = << >>
      /\ sim' = [sim EXCEPT !.planned = State]
      /\ next' = Min({next + 1, NewCount})
      /\ stage' = IF next < NewCount THEN "plan" ELSE "planned"
      /\ UNCHANGED <<vars, planner, plan, limit, draft, saved>>
  BY DEF Adopted, NewCount
<1>2. Greedy /\ snapshot \in Image
  BY <1>1, DeploymentAssumption DEF BaselineInv, PlanFrame
<1>3. /\ next \in 0 .. NewCount /\ plan \in Seq(PlanOp)
      /\ Extended(snapshot, plan, next)
      /\ Unharmed(installState, errors)
      /\ next < NewCount => Holding(snapshot, plan, Len(plan), installed, backups)
  <2>1. /\ next \in 0 .. NewCount /\ plan \in Seq(PlanOp)
        /\ Extended(snapshot, plan \o search.trying, next)
        /\ Unharmed(installState, errors)
        /\ next < NewCount =>
             Holding(snapshot, plan \o search.trying, Len(plan), installed, backups)
    BY <1>1, <1>2 DEF BaselineInv, GreedyInv
  <2>2. plan \o search.trying = plan
    <3>1. plan \o << >> = plan  BY <2>1, ConcatEmptySeq
    <3> QED BY <1>1, <3>1
  <2> QED BY <2>1, <2>2
<1>4. /\ UNCHANGED <<snapshot, planner, limit, plan, installed, backups, installState, errors>>
  BY <1>1 DEF vars
<1>5. sim'.fresh = sim.fresh /\ DOMAIN sim' = DOMAIN sim /\ sim'.planned = State
  <2>1. "planned" \in DOMAIN sim  BY DEF BaselineInv, PlanFrame
  <2> QED BY <1>1, <2>1
<1>6. NewCount \in Nat /\ next \in Nat  BY <1>3, NewImage
<1>7. CASE next < NewCount
  <2>1. Right(snapshot, plan, next + 1) /\ Uncut(plan) /\ AllFresh(plan)
    BY <1>3, <1>7 DEF Extended
  <2>2. next + 1 \in 0 .. NewCount /\ next' = next + 1
    <3>1. next + 1 <= NewCount /\ next + 1 \in Nat  BY <1>6, <1>7
    <3>2. Min({next + 1, NewCount}) = next + 1  BY <1>6, <3>1, MinOfTwo
    <3> QED BY <1>1, <1>6, <3>1, <3>2
  <2>3. PICK d \in 0 .. NewCount : Executed(snapshot, plan, Len(plan), d, installed, backups)
    BY <1>3, <1>7 DEF Holding
  <2>4. d = next + 1  BY <2>1, <2>2, <2>3, ExecutedAll
  <2>6. /\ sim'.planned.installed = installed /\ sim'.planned.backups = backups
        /\ sim'.planned.installState = installState /\ sim'.planned.errors = errors
    BY <1>5 DEF State
  <2>7. GreedyPlans'
    BY <1>3, <1>4, <2>1, <2>2, <2>3, <2>4, <2>6 DEF GreedyPlans, Unharmed
  <2>8. GreedyInv'  BY <1>1, <1>4, <1>7, <2>6, <2>7 DEF GreedyInv
  <2> QED BY <1>1, <1>2, <1>4, <1>5, <1>7, <2>8, GreedyPlanningStep
<1>8. CASE ~(next < NewCount)
  <2>1. Right(snapshot, plan, NewCount) /\ CutLast(plan) /\ ~Uncut(plan)
    BY <1>3, <1>8 DEF Extended
  <2>2. ~Careful'  BY <1>2, <1>4 DEF Greedy, Careful
  <2>3. PlannedInv'  BY <1>4, <2>1, <2>2 DEF PlannedInv
  <2>4. GreedyInv'  BY <1>1, <1>8 DEF GreedyInv
  <2> QED BY <1>1, <1>2, <1>4, <1>5, <1>8, <2>3, <2>4, GreedyPlanningStep
<1> QED BY <1>7, <1>8
-----------------------------------------------------------------------------
(* The deployment of the plan.                                             *)
LEMMA PlanEndType ==
  ASSUME limit \in StepLimits, Len(plan) \in Nat
  PROVE  PlanEnd \in 0 .. Len(plan)
<1>1. limit \in Nat \/ limit = NoLimit  BY PlannersAssumption
<1>2. CASE limit = NoLimit  BY <1>2 DEF PlanEnd
<1>3. CASE limit \in Nat /\ limit # NoLimit
  <2>1. Min({limit, Len(plan)}) = IF limit <= Len(plan) THEN limit ELSE Len(plan)
    BY <1>3, MinOfTwo
  <2> QED BY <1>3, <2>1 DEF PlanEnd
<1> QED BY <1>1, <1>2, <1>3

LEMMA DeployFacts ==
  ASSUME BaselineInv, ~AtOnce, stage \in {"planned", "deploy"}
  PROVE  /\ snapshot \in Image /\ snapshot \in InitialImages /\ plan \in Seq(PlanOp)
         /\ Len(plan) \in Nat /\ DOMAIN plan = 1 .. Len(plan) /\ PlanEnd \in 0 .. Len(plan)
         /\ Right(snapshot, plan, NewCount) /\ CutLast(plan) /\ NewCount \in 0 .. NewCount
         /\ Uncut(plan) => ImageBytes(Mix(snapshot, NewCount)) <= NewSize
         /\ Careful => Guarded(snapshot, plan) /\ TailSaved(snapshot, plan)
<1>1. snapshot \in InitialImages /\ snapshot \in Image /\ limit \in StepLimits
  BY DeploymentAssumption DEF BaselineInv, PlanFrame
<1>2. /\ Right(snapshot, plan, NewCount) /\ CutLast(plan)
      /\ Uncut(plan) => ImageBytes(Mix(snapshot, NewCount)) <= NewSize
      /\ Careful => Guarded(snapshot, plan) /\ TailSaved(snapshot, plan)
  BY DEF BaselineInv, PlannedInv
<1>3. plan \in Seq(PlanOp) /\ Len(plan) \in Nat /\ DOMAIN plan = 1 .. Len(plan)
  BY <1>2 DEF Right
<1>4. PlanEnd \in 0 .. Len(plan)  BY <1>1, <1>3, PlanEndType
<1>5. NewCount \in 0 .. NewCount  BY NewImage
<1> QED BY <1>1, <1>2, <1>3, <1>4, <1>5

(* What a step of the deployment leaves alone.                             *)
LEMMA DeploymentStep ==
  ASSUME BaselineInv, stage \in {"planned", "deploy"}, stage' \in {"deploy", "done"},
         UNCHANGED <<planner, plan, limit, draft, saved, search, sim>>, snapshot' = snapshot,
         DeployInv', WholeInv', KeptInv'
  PROVE  BaselineInv'
<1>1. PlanFrame'  BY FrameKept DEF BaselineInv
<1>2. DraftInv' /\ GreedyInv'  BY DEF DraftInv, GreedyInv
<1>3. (AtOnce' <=> AtOnce) /\ (Careful' <=> Careful)  BY SamePlanner
<1>4. PlannedInv'  BY <1>3 DEF BaselineInv, PlannedInv
<1> QED BY <1>1, <1>2, <1>4 DEF BaselineInv

LEMMA StartStep ==
  ASSUME BaselineInv, StartDeployment  PROVE BaselineInv'
<1>1. /\ stage = "planned" /\ Become(sim.fresh) /\ next' = 0 /\ stage' = "deploy"
      /\ UNCHANGED <<planner, plan, limit, draft, saved, search, sim>>
  BY DEF StartDeployment
<1>2. /\ installed' = snapshot /\ backups' = << >> /\ snapshot' = snapshot
      /\ rollbackReady' = TRUE /\ Unharmed(installState', errors')
  BY <1>1 DEF Become, BaselineInv, PlanFrame
<1>3. DOMAIN backups' = {}  BY <1>2
<1>4. snapshot \in Image /\ limit \in StepLimits
  BY DeploymentAssumption DEF BaselineInv, PlanFrame
<1>5. (AtOnce' <=> AtOnce) /\ (Careful' <=> Careful) /\ PlanEnd' = PlanEnd
  BY <1>1, SamePlanner DEF PlanEnd
<1>6. KeptInv'
  <2>1. Protected(snapshot, << >>)  BY SnapshotProtected
  <2> QED BY <1>2, <1>3, <2>1 DEF KeptInv, Protected
<1>7. WholeInv'  BY <1>1, <1>2, <1>3, <1>5 DEF BaselineInv, WholeInv
<1>8. 0 \in 0 .. PlanEnd
  <2>1. CASE AtOnce
    <3>1. Len(plan) \in Nat  BY <1>1, <2>1 DEF BaselineInv, WholeInv
    <3>2. PlanEnd \in 0 .. Len(plan)  BY <1>4, <3>1, PlanEndType
    <3> QED BY <3>1, <3>2
  <2>2. CASE ~AtOnce
    <3>1. PlanEnd \in 0 .. Len(plan) /\ Len(plan) \in Nat  BY <1>1, <2>2, DeployFacts
    <3> QED BY <3>1
  <2> QED BY <2>1, <2>2
<1>9. ASSUME ~AtOnce
      PROVE  /\ Holding(snapshot, plan, 0, installed', backups')
             /\ 0 = Len(plan) => Uncut(plan)
  <2>1. Len(plan) \in Nat /\ DOMAIN plan = 1 .. Len(plan)  BY <1>1, <1>9, DeployFacts
  <2>2. installed' = Mix(snapshot, 0)  BY <1>2, <1>4, MixNothing
  <2>3. 0 \in 0 .. NewCount  BY NewImage
  <2>4. Executed(snapshot, plan, 0, 0, installed', backups')
    BY <1>3, <2>2, <2>3 DEF Executed
  <2>5. 0 = Len(plan) => Uncut(plan)  BY <2>1 DEF Uncut
  <2> QED BY <2>3, <2>4, <2>5 DEF Holding
<1>10. DeployInv'
  BY <1>1, <1>2, <1>5, <1>8, <1>9 DEF DeployInv, Uncut, Unharmed
<1> QED BY <1>1, <1>2, <1>6, <1>7, <1>10, DeploymentStep

-----------------------------------------------------------------------------
(* rollback_ready in a deployment.                                         *)
LEMMA OverwriteProtects ==
  ASSUME installed \in Image, snapshot \in Image, RequireBackup, Protected(installed, backups),
         NEW target \in Nat, NEW block, Overwritten(target, block) = {}
  PROVE  Protected(WriteBlock(installed, target, block), backups)
<1> DEFINE w == WriteBlock(installed, target, block)
<1> SUFFICES ASSUME NEW i \in DOMAIN snapshot,
                    \A id \in DOMAIN backups : backups[id].index # i - 1
             PROVE  i \in DOMAIN w /\ w[i] = snapshot[i]
  BY DEF Protected
<1>1. i \in DOMAIN installed /\ installed[i] = snapshot[i]  BY DEF Protected
<1>2. i \in 1 .. Len(snapshot) /\ Len(snapshot) \in Nat  BY DEF Image
<1>3. CASE i = target + 1
  <2>1. target < Len(snapshot) /\ i - 1 = target  BY <1>2, <1>3
  <2>2. Unprotected(target)  BY <2>1 DEF Unprotected
  <2>3. block = snapshot[i]  BY <1>3, <2>2 DEF Overwritten
  <2> QED BY <1>3, <2>3, WriteBlockElements
<1>4. CASE i # target + 1  BY <1>1, <1>4, WriteBlockElements
<1> QED BY <1>3, <1>4

LEMMA SavedIndex ==
  ASSUME NEW old, NEW ops, NEW k \in Nat, NEW d, NEW blocks, NEW area,
         Executed(old, ops, k, d, blocks, area), NEW i, NEW j \in 1 .. k, ops[j] = SaveBlock(i)
  PROVE  \E id \in DOMAIN area : area[id].index = i
<1>1. ops[j].op = "backup" /\ ops[j].source = i  BY DEF SaveBlock
<1>2. /\ ops[j].id \in DOMAIN area
      /\ area[ops[j].id] = [index |-> i, block |-> area[ops[j].id].block]
  BY <1>1 DEF Executed
<1> QED BY <1>2

(* The careful planner overwrites no block that it has not saved.          *)
LEMMA CarefulWrites ==
  ASSUME NEW ops, NEW k \in Nat, k + 1 \in DOMAIN ops, Guarded(snapshot, ops),
         Processing(ops[k + 1]), NEW d \in Nat, ops[k + 1].target = d,
         Executed(snapshot, ops, k, d, installed, backups)
  PROVE  Overwritten(d, NewBlock(d)) = {}
<1> SUFFICES ASSUME Unprotected(d), NewBlock(d) # snapshot[d + 1]  PROVE FALSE
  BY DEF Overwritten
<1>1. Changes(snapshot, ops[k + 1])  BY DEF Unprotected, Changes
<1>2. PICK j \in 1 .. (k + 1) - 1 : ops[j] = SaveBlock(d)  BY <1>1 DEF Guarded
<1>3. j \in 1 .. k  BY <1>2
<1>4. \E id \in DOMAIN backups : backups[id].index = d  BY <1>2, <1>3, SavedIndex
<1> QED BY <1>4 DEF Unprotected

LEMMA KeptProcessing ==
  ASSUME BaselineInv, ~AtOnce, stage = "deploy", next < Len(plan),
         Processing(plan[next + 1]), Succeed(plan[next + 1]), UNCHANGED <<planner, snapshot>>
  PROVE  KeptInv'
<1>1. /\ snapshot \in Image /\ Right(snapshot, plan, NewCount) /\ NewCount \in 0 .. NewCount
      /\ Careful => Guarded(snapshot, plan)
      /\ Len(plan) \in Nat /\ DOMAIN plan = 1 .. Len(plan) /\ PlanEnd \in 0 .. Len(plan)
  BY DeployFacts
<1>2. /\ next \in 0 .. Len(plan) - 1 /\ next \in Nat /\ next + 1 \in DOMAIN plan
      /\ Holding(snapshot, plan, next, installed, backups)
  BY <1>1 DEF BaselineInv, DeployInv
<1>3. PICK d \in 0 .. NewCount : Executed(snapshot, plan, next, d, installed, backups)
  BY <1>2 DEF Holding
<1>4. /\ backups' = backups
      /\ installed' = IF plan[next + 1].op = "keep" THEN installed
                      ELSE WriteBlock(installed, d, NewBlock(d))
      /\ rollbackReady' = (rollbackReady /\
           (plan[next + 1].op = "keep" \/ Overwritten(d, NewBlock(d)) = {}))
  BY <1>1, <1>2, <1>3, ProcessStep
<1>5. plan[next + 1].target = d /\ d \in Nat /\ installed \in Image
  <2>1. plan[next + 1].target = d  BY <1>1, <1>2, <1>3, NextTarget
  <2>2. d \in Nat  BY <1>3, NewImage
  <2>3. installed = Mix(snapshot, d)  BY <1>3 DEF Executed
  <2> QED BY <1>1, <1>3, <2>1, <2>2, <2>3, MixBlocks
<1>6. /\ rollbackReady \in BOOLEAN
      /\ \A id \in DOMAIN backups :
           backups[id] = [index |-> backups[id].index, block |-> backups[id].block]
      /\ RequireBackup /\ rollbackReady =>
           /\ Protected(installed, backups)
           /\ \A id \in DOMAIN backups : backups[id].index < Len(snapshot) =>
                backups[id].block = snapshot[backups[id].index + 1]
      /\ RequireBackup /\ Careful => rollbackReady
  BY DEF BaselineInv, KeptInv
<1>7. rollbackReady' \in BOOLEAN  BY <1>4
<1>8. ASSUME RequireBackup, rollbackReady'  PROVE Protected(installed', backups)
  <2>1. rollbackReady /\ Protected(installed, backups)  BY <1>4, <1>6, <1>8
  <2>2. CASE plan[next + 1].op = "keep"  BY <1>4, <2>1, <2>2
  <2>3. CASE plan[next + 1].op # "keep"
    <3>1. Overwritten(d, NewBlock(d)) = {}  BY <1>4, <1>8, <2>3
    <3>2. Protected(WriteBlock(installed, d, NewBlock(d)), backups)
      BY <1>1, <1>5, <1>8, <2>1, <3>1, OverwriteProtects
    <3> QED BY <1>4, <2>3, <3>2
  <2> QED BY <2>2, <2>3
<1>9. ASSUME RequireBackup, Careful  PROVE rollbackReady'
  <2>1. rollbackReady /\ Guarded(snapshot, plan)  BY <1>1, <1>6, <1>9
  <2>2. Overwritten(d, NewBlock(d)) = {}  BY <1>2, <1>3, <1>5, <2>1, CarefulWrites
  <2> QED BY <1>4, <2>1, <2>2
<1>10. Careful' <=> Careful  BY DEF Careful
<1> QED BY <1>4, <1>6, <1>7, <1>8, <1>9, <1>10 DEF KeptInv, Protected
LEMMA KeptSaving ==
  ASSUME BaselineInv, ~AtOnce, stage = "deploy", next < Len(plan),
         plan[next + 1].op = "backup", Succeed(plan[next + 1]), UNCHANGED <<planner, snapshot>>
  PROVE  KeptInv'
<1>1. /\ snapshot \in Image /\ Right(snapshot, plan, NewCount) /\ NewCount \in 0 .. NewCount
      /\ plan \in Seq(PlanOp)
      /\ Len(plan) \in Nat /\ DOMAIN plan = 1 .. Len(plan) /\ PlanEnd \in 0 .. Len(plan)
  BY DeployFacts
<1>2. /\ next \in 0 .. Len(plan) - 1 /\ next \in Nat /\ next + 1 \in DOMAIN plan
      /\ Holding(snapshot, plan, next, installed, backups)
  BY <1>1 DEF BaselineInv, DeployInv
<1>3. PICK d \in 0 .. NewCount : Executed(snapshot, plan, next, d, installed, backups)
  BY <1>2 DEF Holding
<1>4. PICK i : i = plan[next + 1].source  OBVIOUS
<1>5. /\ plan[next + 1] = SaveBlock(i) /\ plan[next + 1].id = BackupName(i) /\ i \in Nat
      /\ i < Len(snapshot) /\ \A j \in 1 .. next : plan[j] # SaveBlock(i)
  <2>1. plan[next + 1] \in PlanOp  BY <1>1, <1>2
  <2>2. SavesOnce(snapshot, plan, next + 1)  BY <1>1, <1>2 DEF Right
  <2>3. (next + 1) - 1 = next  BY <1>2
  <2> QED BY <1>4, <2>1, <2>2, <2>3, BackupForms DEF SavesOnce
<1> DEFINE record == [index |-> i, block |-> installed[i + 1]]
<1>6. /\ installed' = installed /\ rollbackReady' = (rollbackReady /\ {} = {})
      /\ backups' = SaveBackup(backups, BackupName(i), record)
  BY <1>1, <1>2, <1>3, <1>4, <1>5, SaveStep
<1>7. /\ rollbackReady \in BOOLEAN
      /\ \A id \in DOMAIN backups :
           backups[id] = [index |-> backups[id].index, block |-> backups[id].block]
      /\ RequireBackup /\ rollbackReady =>
           /\ Protected(installed, backups)
           /\ \A id \in DOMAIN backups : backups[id].index < Len(snapshot) =>
                backups[id].block = snapshot[backups[id].index + 1]
      /\ RequireBackup /\ Careful => rollbackReady
  BY DEF BaselineInv, KeptInv
<1>8. \A id \in DOMAIN backups : backups[id].index # i
  <2> SUFFICES ASSUME NEW id \in DOMAIN backups, backups[id].index = i  PROVE FALSE
    OBVIOUS
  <2>1. PICK j \in 1 .. next : plan[j].op = "backup" /\ plan[j].id = id
    BY <1>3 DEF Executed
  <2>2. backups[id] = [index |-> plan[j].source, block |-> backups[id].block]
    BY <1>3, <2>1 DEF Executed
  <2>3. backups[id].index = plan[j].source  BY <2>2
  <2>4. plan[j] \in PlanOp  BY <1>1, <1>2
  <2>5. plan[j] = SaveBlock(plan[j].source)  BY <2>1, <2>4, BackupForms
  <2>6. plan[j] = SaveBlock(i)  BY <2>3, <2>5
  <2> QED BY <1>5, <2>6
<1>9. DOMAIN backups' = DOMAIN backups \cup {BackupName(i)}  BY <1>6 DEF SaveBackup
<1>10. \A id \in DOMAIN backups' :
         backups'[id] = IF id = BackupName(i) THEN record ELSE backups[id]
  BY <1>6, <1>9 DEF SaveBackup
<1>11. record.index = i /\ record.block = installed[i + 1]
       /\ record = [index |-> record.index, block |-> record.block]
  OBVIOUS
<1> HIDE DEF record
<1>12. BackupName(i) \notin DOMAIN backups
  <2> SUFFICES ASSUME BackupName(i) \in DOMAIN backups  PROVE FALSE  OBVIOUS
  <2>1. PICK j \in 1 .. next : plan[j].op = "backup" /\ plan[j].id = BackupName(i)
    BY <1>3 DEF Executed
  <2>2. plan[j] \in PlanOp  BY <1>1, <1>2
  <2>3. plan[j] = SaveBlock(plan[j].source) /\ plan[j].id = BackupName(plan[j].source)
    BY <2>1, <2>2, BackupForms
  <2>4. plan[j].source = i  BY <2>1, <2>3, NamesTell
  <2>5. plan[j] = SaveBlock(i)  BY <2>3, <2>4
  <2> QED BY <1>5, <2>5
<1>13. \A id \in DOMAIN backups : id \in DOMAIN backups' /\ backups'[id] = backups[id]
  BY <1>9, <1>10, <1>12
<1>14. \A id \in DOMAIN backups' :
         backups'[id] = [index |-> backups'[id].index, block |-> backups'[id].block]
  BY <1>7, <1>9, <1>10, <1>11
<1>15. ASSUME RequireBackup, rollbackReady'  PROVE Protected(installed', backups')
  <2>1. Protected(installed, backups)  BY <1>6, <1>7, <1>15
  <2> QED BY <1>6, <1>13, <2>1 DEF Protected
<1>16. ASSUME RequireBackup, rollbackReady', NEW id \in DOMAIN backups',
              backups'[id].index < Len(snapshot)
       PROVE  backups'[id].block = snapshot[backups'[id].index + 1]
  <2>1. rollbackReady  BY <1>6, <1>7, <1>16
  <2>2. CASE id = BackupName(i)
    <3>1. backups'[id] = record  BY <1>10, <1>16, <2>2
    <3>2. i + 1 \in DOMAIN snapshot
      <4>1. DOMAIN snapshot = 1 .. Len(snapshot) /\ Len(snapshot) \in Nat  BY <1>1 DEF Image
      <4> QED BY <1>5, <4>1
    <3>3. \A name \in DOMAIN backups : backups[name].index # (i + 1) - 1
      BY <1>5, <1>8
    <3>4. installed[i + 1] = snapshot[i + 1]
      BY <1>7, <1>16, <2>1, <3>2, <3>3 DEF Protected
    <3> QED BY <1>11, <3>1, <3>4
  <2>3. CASE id # BackupName(i)
    <3>1. id \in DOMAIN backups /\ backups'[id] = backups[id]
      BY <1>9, <1>10, <1>16, <2>3
    <3> QED BY <1>7, <1>16, <2>1, <3>1
  <2> QED BY <2>2, <2>3
<1>17. rollbackReady' = rollbackReady  BY <1>6, <1>7
<1>18. Careful' <=> Careful  BY DEF Careful
<1>19. RequireBackup /\ rollbackReady' => Protected(installed, backups)'
  BY <1>15 DEF Protected
<1> QED BY <1>7, <1>14, <1>16, <1>17, <1>18, <1>19 DEF KeptInv

-----------------------------------------------------------------------------
(* The cut at the end of a plan.                                           *)
LEMMA CutInFront ==
  ASSUME NEW old \in Image, installed = Mix(old, NewCount)
  PROVE  /\ TargetInFront /\ installed \in Image
         /\ Len(installed) \in Nat /\ NewCount <= Len(installed)
         /\ \A i \in 1 .. NewCount : installed[i] = Expected[i]
<1>1. NewCount \in 0 .. NewCount /\ NewCount \in Nat /\ Expected \in Image
      /\ DOMAIN Expected = 1 .. NewCount
  BY NewImage
<1>2. /\ Mix(old, NewCount) \in Image
      /\ Len(Mix(old, NewCount)) = (IF NewCount <= Len(old) THEN Len(old) ELSE NewCount)
      /\ Len(old) \in Nat /\ Len(Mix(old, NewCount)) \in Nat
      /\ \A i \in 1 .. Len(Mix(old, NewCount)) :
           Mix(old, NewCount)[i] = IF i <= NewCount THEN Expected[i] ELSE old[i]
  BY <1>1, MixBlocks
<1>3. installed \in Image /\ Len(installed) \in Nat /\ NewCount <= Len(installed)
  BY <1>1, <1>2
<1>4. \A i \in 1 .. NewCount : installed[i] = Expected[i]
  <2> TAKE i \in 1 .. NewCount
  <2>1. i \in 1 .. Len(installed) /\ i <= NewCount  BY <1>1, <1>3
  <2> QED BY <1>2, <2>1
<1>5. Agree(Expected, installed, Len(Expected))  BY <1>4 DEF Agree, NewCount
<1>6. TargetInFront
  BY <1>1, <1>3, <1>5, BytesInFront DEF TargetInFront, NewCount
<1> QED BY <1>3, <1>4, <1>6

(* A cut to the new image removes no old block that is still needed.       *)
LEMMA CutProtects ==
  ASSUME RequireBackup, snapshot \in Image, installed \in Image,
         TruncateBytes(installed, CutToSize.size) = Expected,
         Protected(installed, backups), Removed(LastCut(CutToSize)) = {},
         \A i \in 1 .. NewCount : i \in DOMAIN snapshot /\ installed[i] = snapshot[i] =>
           Expected[i] = snapshot[i]
  PROVE  Protected(Expected, backups)
<1> SUFFICES ASSUME NEW i \in DOMAIN snapshot,
                    \A id \in DOMAIN backups : backups[id].index # i - 1
             PROVE  i \in DOMAIN Expected /\ Expected[i] = snapshot[i]
  BY DEF Protected
<1>1. i \in DOMAIN installed /\ installed[i] = snapshot[i]  BY DEF Protected
<1>2. /\ i \in 1 .. Len(snapshot) /\ Len(snapshot) \in Nat /\ i \in 1 .. Len(installed)
      /\ Len(installed) \in Nat /\ NewCount \in Nat /\ DOMAIN Expected = 1 .. NewCount
  BY <1>1, NewImage DEF Image
<1>3. i <= NewCount
  <2> SUFFICES ASSUME ~(i <= NewCount)  PROVE FALSE  OBVIOUS
  <2>1. i - 1 \in NewCount .. Len(installed) - 1 /\ i - 1 < Len(snapshot)  BY <1>2
  <2>2. i - 1 \in LastCut(CutToSize)  BY <2>1 DEF LastCut, NewCount
  <2>3. Unprotected(i - 1)  BY <2>1 DEF Unprotected
  <2> QED BY <2>2, <2>3 DEF Removed
<1>4. i \in 1 .. NewCount  BY <1>2, <1>3
<1> QED BY <1>1, <1>2, <1>4
(* The last operation of a plan with a cut.                                *)
LEMMA BeforeCut ==
  ASSUME NEW old, NEW ops, Right(old, ops, NewCount), CutLast(ops),
         NEW k \in 0 .. Len(ops) - 1, ops[k + 1].op = "truncate",
         NEW d, NEW blocks, NEW area, Executed(old, ops, k, d, blocks, area)
  PROVE  d = NewCount /\ k + 1 = Len(ops) /\ ops[k + 1] = CutToSize
<1>1. ops \in Seq(PlanOp) /\ DOMAIN ops = 1 .. Len(ops) /\ Len(ops) \in Nat /\ NewCount \in Nat
  BY NewImage DEF Right
<1>2. k \in Nat /\ k + 1 \in DOMAIN ops  BY <1>1
<1>3. k + 1 = Len(ops)  BY <1>2 DEF CutLast
<1>4. d \in 0 .. NewCount /\ d \in Nat  BY <1>1 DEF Executed
<1>5. ~(d < NewCount)
  <2> SUFFICES ASSUME d < NewCount  PROVE FALSE  OBVIOUS
  <2>1. d \in 0 .. NewCount - 1  BY <1>1, <1>4
  <2>2. PICK j \in DOMAIN ops : Processing(ops[j]) /\ ops[j].target = d
    BY <2>1 DEF Right, Covers
  <2>3. j # k + 1  BY <2>2 DEF Processing
  <2>4. j \in 1 .. k  BY <1>1, <1>2, <1>3, <2>3
  <2>5. ops[j].target < d  BY <2>2, <2>4 DEF Executed
  <2> QED BY <1>4, <2>2, <2>5
<1>6. ops[k + 1] = CutToSize
  <2>1. ops[k + 1] \in PlanOp  BY <1>1, <1>2
  <2>2. ops[k + 1] = CutToNewSize  BY <2>1, PlanOpForms
  <2> QED BY <2>2, NewImage
<1>7. d = NewCount  BY <1>1, <1>4, <1>5
<1> QED BY <1>3, <1>6, <1>7

(* The careful planner has saved what the cut removes.                     *)
LEMMA CarefulCut ==
  ASSUME snapshot \in Image, NEW ops, NEW k \in Nat, k + 1 = Len(ops), CutLast(ops),
         DOMAIN ops = 1 .. Len(ops), ops[k + 1].op = "truncate", TailSaved(snapshot, ops),
         Executed(snapshot, ops, k, NewCount, installed, backups),
         TruncateBytes(installed, CutToSize.size) = Expected
  PROVE  Removed(LastCut(CutToSize)) = {}
<1> SUFFICES ASSUME NEW i \in LastCut(CutToSize), Unprotected(i)  PROVE FALSE
  BY DEF Removed
<1>1. installed = Mix(snapshot, NewCount)  BY DEF Executed
<1>2. /\ Len(installed) \in Nat /\ NewCount \in Nat
      /\ \A j \in 1 .. NewCount : installed[j] = Expected[j]
  BY <1>1, NewImage, CutInFront
<1>3. i < Len(snapshot) /\ \A id \in DOMAIN backups : backups[id].index # i
  BY DEF Unprotected
<1>4. i \in NewCount .. Len(installed) - 1
  <2>1. \/ /\ i = NewCount - 1 /\ NewCount > 0 /\ Expected[NewCount] # installed[NewCount]
        \/ i \in NewCount .. Len(installed) - 1
    BY DEF LastCut, NewCount
  <2>2. NewCount > 0 => installed[NewCount] = Expected[NewCount]
    <3> HAVE NewCount > 0
    <3>1. NewCount \in 1 .. NewCount  BY <1>2
    <3> QED BY <1>2, <3>1
  <2> QED BY <2>1, <2>2
<1>5. i \in NewCount .. Len(snapshot) - 1
  <2>1. Len(snapshot) \in Nat  BY DEF Image
  <2> QED BY <1>2, <1>3, <1>4, <2>1
<1>6. PICK j \in DOMAIN ops : ops[j] = SaveBlock(i)  BY <1>5 DEF TailSaved
<1>7. j # k + 1  BY <1>6 DEF SaveBlock
<1>8. j \in 1 .. k  BY <1>6, <1>7
<1>9. \E id \in DOMAIN backups : backups[id].index = i  BY <1>6, <1>8, SavedIndex
<1> QED BY <1>3, <1>9

LEMMA KeptCutting ==
  ASSUME ImagesRead, BaselineInv, ~AtOnce, stage = "deploy", next < Len(plan),
         plan[next + 1].op = "truncate", Succeed(plan[next + 1]), UNCHANGED <<planner, snapshot>>
  PROVE  KeptInv' /\ installed' = Expected
<1>1. /\ snapshot \in Image /\ Right(snapshot, plan, NewCount) /\ CutLast(plan)
      /\ Careful => TailSaved(snapshot, plan)
      /\ Len(plan) \in Nat /\ DOMAIN plan = 1 .. Len(plan) /\ PlanEnd \in 0 .. Len(plan)
  BY DeployFacts
<1>2. /\ next \in 0 .. Len(plan) - 1 /\ next \in Nat
      /\ Holding(snapshot, plan, next, installed, backups)
  BY <1>1 DEF BaselineInv, DeployInv
<1>3. PICK d \in 0 .. NewCount : Executed(snapshot, plan, next, d, installed, backups)
  BY <1>2 DEF Holding
<1>4. d = NewCount /\ next + 1 = Len(plan) /\ plan[next + 1] = CutToSize
  BY <1>1, <1>2, <1>3, BeforeCut
<1>5. installed = Mix(snapshot, NewCount)  BY <1>3, <1>4 DEF Executed
<1>6. /\ TargetInFront /\ installed \in Image
      /\ \A i \in 1 .. NewCount : installed[i] = Expected[i]
  BY <1>1, <1>5, CutInFront
<1>7. Succeed(CutToSize)  BY <1>4
<1>8. /\ installed' = Expected /\ backups' = backups
      /\ rollbackReady' = (rollbackReady /\ Removed(LastCut(CutToSize)) = {})
      /\ TruncateBytes(installed, CutToSize.size) = Expected
  BY <1>6, <1>7, CutToExpected
<1>9. /\ rollbackReady \in BOOLEAN
      /\ \A id \in DOMAIN backups :
           backups[id] = [index |-> backups[id].index, block |-> backups[id].block]
      /\ RequireBackup /\ rollbackReady =>
           /\ Protected(installed, backups)
           /\ \A id \in DOMAIN backups : backups[id].index < Len(snapshot) =>
                backups[id].block = snapshot[backups[id].index + 1]
      /\ RequireBackup /\ Careful => rollbackReady
  BY DEF BaselineInv, KeptInv
<1>10. rollbackReady' \in BOOLEAN  BY <1>8
<1>11. ASSUME RequireBackup, rollbackReady'  PROVE Protected(Expected, backups)
  <2>1. rollbackReady /\ Removed(LastCut(CutToSize)) = {}  BY <1>8, <1>11
  <2> QED BY <1>1, <1>6, <1>8, <1>9, <1>11, <2>1, CutProtects
<1>12. ASSUME RequireBackup, Careful  PROVE rollbackReady'
  <2>1. Executed(snapshot, plan, next, NewCount, installed, backups)  BY <1>3, <1>4
  <2>2. Removed(LastCut(CutToSize)) = {}
    BY <1>1, <1>2, <1>4, <1>8, <1>12, <2>1, CarefulCut
  <2> QED BY <1>8, <1>9, <1>12, <2>2
<1>13. Careful' <=> Careful  BY DEF Careful
<1>14. KeptInv'
  BY <1>8, <1>9, <1>10, <1>11, <1>12, <1>13 DEF KeptInv, Protected
<1> QED BY <1>8, <1>14

(* An operation of a plan that goes through the blocks.                    *)
LEMMA BlockwiseDeployed ==
  ASSUME ImagesRead, BaselineInv, ~AtOnce, DeployOperation
  PROVE  BaselineInv'
<1>1. /\ stage = "deploy" /\ next < PlanEnd /\ Apply(plan[next + 1]) /\ next' = next + 1
      /\ UNCHANGED <<planner, stage, plan, limit, draft, saved, search, sim>>
  BY DEF DeployOperation
<1>2. /\ snapshot \in Image /\ Right(snapshot, plan, NewCount) /\ CutLast(plan)
      /\ plan \in Seq(PlanOp) /\ NewCount \in 0 .. NewCount
      /\ Len(plan) \in Nat /\ DOMAIN plan = 1 .. Len(plan) /\ PlanEnd \in 0 .. Len(plan)
  BY <1>1, DeployFacts
<1>3. next \in 0 .. PlanEnd /\ next \in Nat /\ PlanEnd \in Nat
      /\ Unharmed(installState, errors)
  BY <1>1, <1>2 DEF BaselineInv, DeployInv
<1>4. next < Len(plan) /\ next \in 0 .. Len(plan) - 1 /\ next + 1 \in 0 .. PlanEnd
      /\ next + 1 \in DOMAIN plan
  BY <1>1, <1>2, <1>3
<1>5. Holding(snapshot, plan, next, installed, backups)
  BY <1>1, <1>4 DEF BaselineInv, DeployInv
<1>6. /\ Succeed(plan[next + 1]) /\ Unharmed(installState, errors)' /\ snapshot' = snapshot
      /\ plan[next + 1].op # "truncate" =>
           Holding(snapshot, plan, next + 1, installed', backups')
      /\ plan[next + 1].op = "truncate" => next + 1 = Len(plan)
  BY <1>1, <1>2, <1>3, <1>4, <1>5, OperationAccepted
<1>7. /\ (AtOnce' <=> AtOnce) /\ (Careful' <=> Careful) /\ PlanEnd' = PlanEnd
      /\ Unharmed(installState', errors')
  BY <1>1, <1>6, SamePlanner DEF PlanEnd, Unharmed
<1>8. plan[next + 1] \in PlanOp  BY <1>2, <1>4
<1>9. WholeInv'  BY <1>7 DEF WholeInv
<1>10. CASE plan[next + 1].op = "truncate"
  <2>1. KeptInv' /\ installed' = Expected  BY <1>1, <1>4, <1>6, <1>10, KeptCutting
  <2>2. ~Uncut(plan)  BY <1>4, <1>10 DEF Uncut
  <2>3. next' = Len(plan)  BY <1>1, <1>6, <1>10
  <2>4. ~(next' < Len(plan))  BY <1>2, <2>3
  <2>5. DeployInv'
    BY <1>1, <1>4, <1>7, <2>1, <2>2, <2>4 DEF DeployInv, Uncut, Unharmed
  <2> QED BY <1>1, <1>6, <1>9, <2>1, <2>5, DeploymentStep
<1>11. CASE plan[next + 1].op # "truncate"
  <2>1. Holding(snapshot, plan, next + 1, installed', backups')  BY <1>6, <1>11
  <2>2. KeptInv'
    <3>1. CASE plan[next + 1].op = "backup"  BY <1>1, <1>4, <1>6, <3>1, KeptSaving
    <3>2. CASE plan[next + 1].op # "backup"
      <4>1. Processing(plan[next + 1])  BY <1>8, <1>11, <3>2, PlanOpForms DEF Processing
      <4> QED BY <1>1, <1>4, <1>6, <4>1, KeptProcessing
    <3> QED BY <3>1, <3>2
  <2>3. next + 1 = Len(plan) => Uncut(plan)
    BY <1>2, <1>4, <1>11 DEF Uncut, CutLast
  <2>4. DeployInv'
    BY <1>1, <1>4, <1>6, <1>7, <2>1, <2>3 DEF DeployInv, Uncut, Unharmed, Holding, Executed
  <2> QED BY <1>1, <1>6, <1>9, <2>2, <2>4, DeploymentStep
<1> QED BY <1>10, <1>11
-----------------------------------------------------------------------------
(* The plans that write the image as a whole.                              *)
LEMMA WholeWritten ==
  ASSUME NEW op \in WholeOps(snapshot), installed = snapshot, Apply(op)
  PROVE  /\ installed' = WholeImage(snapshot) /\ backups' = backups /\ snapshot' = snapshot
         /\ rollbackReady' = (rollbackReady /\ Overwritten(0, NewImageBytes) = {})
         /\ errors' = errors /\ installState' = "installing"
<1>1. /\ op.op \in {"raw_insert", "delta"} /\ op.target = 0
      /\ op.op = "raw_insert" => op.data = NewImageBytes
      /\ op.op = "delta" => /\ op.codec = "bsdiff4" /\ op.source = [area |-> "image"]
                            /\ op.base = BlocksToBytes(snapshot)
                            /\ op.result = NewImageBytes /\ op.hash = NewImageBytes
  BY DEF WholeOps
<1>2. Applicable(op)
  <2>1. CASE op.op = "raw_insert"  BY <2>1 DEF Applicable
  <2>2. CASE op.op = "delta"
    <3>1. op.source.area = "image"  BY <1>1, <2>2
    <3>2. Readable(op.source)  BY <3>1 DEF Readable
    <3>3. SourceBlock(op.source) = op.base  BY <1>1, <2>2, <3>1 DEF SourceBlock
    <3> QED BY <1>1, <2>2, <3>2, <3>3 DEF Applicable, HashMatches
  <2> QED BY <1>1, <2>1, <2>2
<1>3. Succeed(op)  BY <1>2 DEF Apply, Fail
<1>4. /\ snapshot' = snapshot /\ errors' = errors /\ installState' = "installing"
      /\ Yields(WriteBlock(installed, 0, NewImageBytes), backups, Overwritten(0, NewImageBytes))
  BY <1>1, <1>3, SucceedYields
<1> QED BY <1>4 DEF Yields, WholeImage

LEMMA WholeInFront ==
  ASSUME NEW old \in Image, installed = WholeImage(old)
  PROVE  /\ TargetInFront /\ installed \in Image
         /\ 1 \in DOMAIN installed /\ installed[1] = NewImageBytes
<1>1. NewImageBytes \in Block /\ NewImageBytes \in Seq(Byte) /\ Len(NewImageBytes) = NewSize
      /\ NewSize \in Nat
  BY NewImage, BytesType DEF NewImageBytes, Block, NewSize, ImageBytes
<1>2. installed \in Image  BY <1>1, WholeImageType
<1>3. 1 \in DOMAIN installed /\ installed[1] = NewImageBytes
  <2>1. 0 + 1 \in DOMAIN WriteBlock(old, 0, NewImageBytes)
        /\ WriteBlock(old, 0, NewImageBytes)[0 + 1] = NewImageBytes
    BY WriteBlockElements
  <2> QED BY <2>1 DEF WholeImage
<1>4. 1 \in 1 .. Len(installed)  BY <1>2, <1>3 DEF Image
<1>5. FullUntil(installed, 1)  BY DEF FullUntil
<1> DEFINE b == BlocksToBytes(installed)
<1>6. /\ NewSize <= ImageBytes(installed) /\ NewImageBytes = SubSeq(b, 1, NewSize)
  <2>1. LET low  == (1 - 1) * BlockSize
            high == low + Len(installed[1])
        IN  /\ low \in Nat /\ high <= ImageBytes(installed)
            /\ installed[1] = SubSeq(b, low + 1, high)
    BY <1>2, <1>4, <1>5, BlockInBytes
  <2>2. (1 - 1) * BlockSize = 0  BY BlockSizeAssumption
  <2>3. Len(installed[1]) = NewSize /\ 0 + Len(installed[1]) = NewSize /\ 0 + 1 = 1
    BY <1>1, <1>3
  <2> QED BY <1>3, <2>1, <2>2, <2>3
<1>7. b \in Seq(Byte) /\ Len(b) = ImageBytes(installed)
  BY <1>2, BytesType DEF Block, ImageBytes
<1> HIDE DEF b
<1>8. Take(b, NewSize) = NewImageBytes  BY <1>1, <1>6, <1>7, TakeStart
<1> QED BY <1>2, <1>3, <1>8 DEF TargetInFront, NewSize, NewImageBytes, b

(* An image of a block is that block.                                      *)
LEMMA FewBlocks ==
  ASSUME ImagesRead, NewSize <= BlockSize, NewCount # 0
  PROVE  NewCount = 1 /\ Expected[1] = NewImageBytes
<1>1. Expected \in Image /\ NewCount \in Nat /\ NewSize \in Nat /\ BlockSize \in Nat \ {0}
  BY NewImage, BlockSizeAssumption
<1>2. Len(Expected) * BlockSize < ImageBytes(Expected) + BlockSize
  BY <1>1, SizeOfRead DEF ImagesRead
<1>3. NewCount = 1
  <2> SUFFICES ASSUME NewCount >= 2  PROVE FALSE  BY <1>1
  <2>1. NewCount * BlockSize < NewSize + BlockSize  BY <1>2 DEF NewCount, NewSize
  <2>2. NewCount * BlockSize >= 2 * BlockSize  BY <1>1
  <2> QED BY <1>1, <2>1, <2>2
<1>4. 1 \in 1 .. Len(Expected) /\ Len(Expected) = 1  BY <1>3 DEF NewCount
<1>5. FullUntil(Expected, 1)  BY DEF FullUntil
<1>6. NewImageBytes \in Seq(Byte) /\ Len(NewImageBytes) = NewSize
  BY <1>1, BytesType DEF NewImageBytes, Block, NewSize, ImageBytes
<1>7. LET low  == (1 - 1) * BlockSize
          high == low + Len(Expected[1])
      IN  /\ Expected[1] = SubSeq(BlocksToBytes(Expected), low + 1, high)
          /\ 1 = Len(Expected) => ImageBytes(Expected) = high
  BY <1>1, <1>4, <1>5, BlockInBytes
<1>8. (1 - 1) * BlockSize = 0  BY <1>1
<1>9. Expected[1] \in Block /\ Len(Expected[1]) \in Nat  BY <1>1, <1>4 DEF Image, Block
<1>10. Expected[1] = SubSeq(NewImageBytes, 1, NewSize)
  BY <1>4, <1>7, <1>8, <1>9 DEF NewImageBytes, NewSize
<1>11. SubSeq(NewImageBytes, 1, Len(NewImageBytes)) = NewImageBytes  BY <1>6
<1> QED BY <1>3, <1>6, <1>10, <1>11

(* A device that is still ready was given the old image as a whole.        *)
LEMMA WholeKeptByCut ==
  ASSUME ImagesRead, snapshot \in Image, AsRead(snapshot), installed = WholeImage(snapshot),
         DOMAIN backups = {}, Protected(installed, backups),
         NEW i \in 1 .. NewCount, i \in DOMAIN snapshot, installed[i] = snapshot[i]
  PROVE  Expected[i] = snapshot[i]
<1>1. /\ installed \in Image /\ installed[1] = NewImageBytes
  BY WholeInFront
<1>2. DOMAIN snapshot = 1 .. Len(snapshot) /\ Len(snapshot) \in Nat /\ NewCount \in Nat
  BY NewImage DEF Image
<1>3. 1 \in DOMAIN snapshot /\ NewCount # 0  BY <1>2
<1>4. snapshot[1] = NewImageBytes  BY <1>1, <1>3 DEF Protected
<1>5. Fits(snapshot)  BY ReadImage
<1>6. Len(snapshot[1]) <= BlockSize  BY <1>3, <1>5 DEF Fits
<1>7. NewSize <= BlockSize  BY <1>4, <1>6 DEF NewSize, NewImageBytes, ImageBytes
<1>8. NewCount = 1 /\ Expected[1] = NewImageBytes  BY <1>3, <1>7, FewBlocks
<1>9. i = 1  BY <1>8
<1> QED BY <1>4, <1>8, <1>9
LEMMA WholePlans ==
  ASSUME BaselineInv, AtOnce, stage = "deploy"
  PROVE  /\ snapshot \in Image /\ snapshot \in InitialImages /\ ~Careful
         /\ next \in 0 .. PlanEnd /\ PlanEnd \in 0 .. Len(plan) /\ Len(plan) \in {1, 2}
         /\ Unharmed(installState, errors) /\ DOMAIN backups = {}
         /\ installed = CASE next = 0 -> snapshot [] next = 1 -> WholeImage(snapshot)
                          [] next = 2 -> Expected
         /\ plan[1] \in WholeOps(snapshot)
         /\ Len(plan) = 1 => ImageBytes(WholeImage(snapshot)) <= NewSize
         /\ Len(plan) = 2 => plan[2] = CutToSize
<1>1. /\ snapshot \in InitialImages /\ snapshot \in Image /\ limit \in StepLimits
      /\ next \in 0 .. PlanEnd /\ Unharmed(installState, errors) /\ DOMAIN backups = {}
      /\ installed = CASE next = 0 -> snapshot [] next = 1 -> WholeImage(snapshot)
                       [] next = 2 -> Expected
  BY DeploymentAssumption DEF BaselineInv, PlanFrame, DeployInv, WholeInv
<1>2. PICK op \in WholeOps(snapshot) :
        \/ plan = <<op>> /\ ImageBytes(WholeImage(snapshot)) <= NewSize
        \/ plan = <<op, CutToNewSize>>
  BY DEF BaselineInv, WholeInv
<1>3. CutToNewSize = CutToSize  BY NewImage
<1>4. /\ Len(plan) \in {1, 2} /\ plan[1] = op
      /\ Len(plan) = 1 => ImageBytes(WholeImage(snapshot)) <= NewSize
      /\ Len(plan) = 2 => plan[2] = CutToSize
  BY <1>2, <1>3
<1>5. PlanEnd \in 0 .. Len(plan)  BY <1>1, <1>4, PlanEndType
<1>6. ~Careful  BY DEF AtOnce, Careful
<1> QED BY <1>1, <1>2, <1>4, <1>5, <1>6

LEMMA WholeDeployed ==
  ASSUME ImagesRead, BaselineInv, AtOnce, DeployOperation
  PROVE  BaselineInv'
<1>1. /\ stage = "deploy" /\ next < PlanEnd /\ Apply(plan[next + 1]) /\ next' = next + 1
      /\ UNCHANGED <<planner, stage, plan, limit, draft, saved, search, sim>>
  BY DEF DeployOperation
<1>2. /\ snapshot \in Image /\ snapshot \in InitialImages /\ ~Careful
      /\ next \in 0 .. PlanEnd /\ PlanEnd \in 0 .. Len(plan) /\ Len(plan) \in {1, 2}
      /\ Unharmed(installState, errors) /\ DOMAIN backups = {}
      /\ plan[1] \in WholeOps(snapshot) /\ (Len(plan) = 2 => plan[2] = CutToSize)
      /\ next = 0 => installed = snapshot
      /\ next = 1 => installed = WholeImage(snapshot)
  BY <1>1, WholePlans
<1>3. next \in {0, 1} /\ next + 1 \in 0 .. PlanEnd /\ (next = 1 => Len(plan) = 2)
  BY <1>1, <1>2
<1>4. /\ AtOnce' /\ ~Careful' /\ PlanEnd' = PlanEnd
  BY <1>1, <1>2, SamePlanner DEF PlanEnd
<1>5. /\ rollbackReady \in BOOLEAN
      /\ RequireBackup /\ rollbackReady => Protected(installed, backups)
  BY <1>1 DEF BaselineInv, KeptInv
<1>6. AsRead(snapshot)  BY <1>2 DEF ImagesRead
<1>7. \E op \in WholeOps(snapshot) :
        \/ plan = <<op>> /\ ImageBytes(WholeImage(snapshot)) <= NewSize
        \/ plan = <<op, CutToNewSize>>
  BY <1>1 DEF BaselineInv, WholeInv
<1>8. CASE next = 0
  <2>1. installed = snapshot /\ Apply(plan[1])  BY <1>1, <1>2, <1>8
  <2>2. /\ installed' = WholeImage(snapshot) /\ backups' = backups /\ snapshot' = snapshot
        /\ rollbackReady' = (rollbackReady /\ Overwritten(0, NewImageBytes) = {})
        /\ errors' = errors /\ installState' = "installing"
    BY <1>2, <2>1, WholeWritten
  <2>3. next' = 1  BY <1>1, <1>8
  <2>4. WholeInv'  BY <1>1, <1>2, <1>4, <1>7, <2>2, <2>3 DEF WholeInv
  <2>5. DeployInv'
    BY <1>1, <1>2, <1>3, <1>4, <2>2 DEF DeployInv, Unharmed
  <2>6. ASSUME RequireBackup, rollbackReady'  PROVE Protected(WholeImage(snapshot), backups)
    <3>1. Protected(installed, backups) /\ Overwritten(0, NewImageBytes) = {}
      BY <1>5, <2>2, <2>6
    <3>2. Protected(WriteBlock(installed, 0, NewImageBytes), backups)
      BY <1>2, <2>1, <2>6, <3>1, OverwriteProtects
    <3> QED BY <2>1, <3>2 DEF WholeImage
  <2>7. rollbackReady' \in BOOLEAN  BY <2>2
  <2>8. KeptInv'  BY <1>2, <1>4, <2>2, <2>6, <2>7 DEF KeptInv, Protected
  <2> QED BY <1>1, <2>2, <2>4, <2>5, <2>8, DeploymentStep
<1>9. CASE next = 1
  <2>1. installed = WholeImage(snapshot) /\ Apply(CutToSize)  BY <1>1, <1>2, <1>3, <1>9
  <2>2. Succeed(CutToSize)  BY <2>1, CutOperation DEF Apply, Fail
  <2>3. TargetInFront /\ installed \in Image  BY <1>2, <2>1, WholeInFront
  <2>4. /\ installed' = Expected /\ backups' = backups /\ snapshot' = snapshot
        /\ rollbackReady' = (rollbackReady /\ Removed(LastCut(CutToSize)) = {})
        /\ errors' = errors /\ installState' = "installing"
        /\ TruncateBytes(installed, CutToSize.size) = Expected
    BY <2>2, <2>3, CutToExpected
  <2>5. next' = 2  BY <1>1, <1>9
  <2>6. WholeInv'  BY <1>1, <1>2, <1>4, <1>7, <2>4, <2>5 DEF WholeInv
  <2>7. DeployInv'
    BY <1>1, <1>2, <1>3, <1>4, <2>4 DEF DeployInv, Unharmed
  <2>8. ASSUME RequireBackup, rollbackReady'  PROVE Protected(Expected, backups)
    <3>1. Protected(installed, backups) /\ Removed(LastCut(CutToSize)) = {}
      BY <1>5, <2>4, <2>8
    <3>2. \A i \in 1 .. NewCount : i \in DOMAIN snapshot /\ installed[i] = snapshot[i] =>
            Expected[i] = snapshot[i]
      BY <1>2, <1>6, <2>1, <3>1, WholeKeptByCut
    <3> QED BY <1>2, <2>3, <2>4, <2>8, <3>1, <3>2, CutProtects
  <2>9. rollbackReady' \in BOOLEAN  BY <2>4
  <2>10. KeptInv'  BY <1>2, <1>4, <2>4, <2>8, <2>9 DEF KeptInv, Protected
  <2> QED BY <1>1, <2>4, <2>6, <2>7, <2>10, DeploymentStep
<1> QED BY <1>3, <1>8, <1>9

-----------------------------------------------------------------------------
(* The end of a deployment.                                                *)
LEMMA EndsRunning ==
  ASSUME BaselineInv, EndDeployment
  PROVE  /\ stage = "deploy" /\ stage' = "done" /\ next = PlanEnd /\ Complete
         /\ UNCHANGED <<planner, next, plan, limit, draft, saved, search, sim, snapshot>>
         /\ Unharmed(installState, errors)
<1>1. /\ stage = "deploy" /\ stage' = "done"
      /\ UNCHANGED <<planner, next, plan, limit, draft, saved, search, sim>>
      /\ next = PlanEnd \/ ~Running
      /\ IF Running THEN Complete ELSE UNCHANGED vars
  BY DEF EndDeployment
<1>2. Unharmed(installState, errors)  BY <1>1 DEF BaselineInv, DeployInv
<1>3. Running  BY <1>2 DEF Running, Unharmed
<1>4. Complete  BY <1>1, <1>3
<1>5. snapshot' = snapshot  BY <1>4 DEF Complete
<1> QED BY <1>1, <1>2, <1>3, <1>4, <1>5

LEMMA EndOfDeployment ==
  ASSUME BaselineInv, EndDeployment  PROVE BaselineInv'
<1>1. /\ stage = "deploy" /\ stage' = "done" /\ Complete
      /\ UNCHANGED <<planner, next, plan, limit, draft, saved, search, sim, snapshot>>
  BY EndsRunning
<1> DEFINE c == Completion(installState)
<1>2. installed' = c.installed /\ backups' = backups /\ rollbackReady' = rollbackReady
  BY <1>1 DEF Complete, safety
<1>3. Protected(installed, backups) => Protected(c.installed, backups)
  BY CompletionProtects
<1> HIDE DEF c
<1>4. (AtOnce' <=> AtOnce) /\ (Careful' <=> Careful)  BY <1>1, SamePlanner
<1>5. KeptInv'
  BY <1>1, <1>2, <1>3, <1>4 DEF BaselineInv, KeptInv, Protected
<1>6. DeployInv'  BY <1>1 DEF DeployInv
<1>7. WholeInv'  BY <1>1, <1>4 DEF BaselineInv, WholeInv
<1> QED BY <1>1, <1>5, <1>6, <1>7, DeploymentStep

(* A plan deployed whole leaves the new image.                             *)
LEMMA PlanEnded ==
  ASSUME ImagesRead, BaselineInv, stage = "deploy", next = Len(plan)
  PROVE  Transformed
<1>1. Expected \in Image /\ NewSize \in Nat  BY NewImage
<1>2. CASE AtOnce
  <2>1. /\ snapshot \in Image /\ Len(plan) \in {1, 2}
        /\ next = 1 => installed = WholeImage(snapshot)
        /\ next = 2 => installed = Expected
        /\ Len(plan) = 1 => ImageBytes(WholeImage(snapshot)) <= NewSize
    BY <1>2, WholePlans
  <2>2. CASE Len(plan) = 1
    <3>1. installed = WholeImage(snapshot) /\ ImageBytes(installed) <= NewSize
      BY <2>1, <2>2
    <3>2. TargetInFront /\ installed \in Image /\ ImageBytes(installed) \in Nat
      BY <2>1, <3>1, WholeInFront, WholeImageType
    <3>3. ~(ImageBytes(installed) > ImageBytes(Expected))  BY <1>1, <3>1, <3>2 DEF NewSize
    <3> QED BY <3>2, <3>3, NotLongerIsExact
  <2>3. CASE Len(plan) = 2  BY <2>1, <2>3 DEF Transformed
  <2> QED BY <2>1, <2>2, <2>3
<1>3. CASE ~AtOnce /\ ~Uncut(plan)
  BY <1>3 DEF BaselineInv, DeployInv, Transformed
<1>4. CASE ~AtOnce /\ Uncut(plan)
  <2>1. /\ snapshot \in Image /\ Right(snapshot, plan, NewCount) /\ NewCount \in 0 .. NewCount
        /\ ImageBytes(Mix(snapshot, NewCount)) <= NewSize
    BY <1>4, DeployFacts
  <2>2. Holding(snapshot, plan, Len(plan), installed, backups)
    BY <1>4 DEF BaselineInv, DeployInv
  <2>3. PICK d \in 0 .. NewCount : Executed(snapshot, plan, Len(plan), d, installed, backups)
    BY <2>2 DEF Holding
  <2>4. d = NewCount  BY <2>1, <2>3, ExecutedAll
  <2>5. installed = Mix(snapshot, NewCount)  BY <2>3, <2>4 DEF Executed
  <2>6. TargetInFront /\ installed \in Image  BY <2>1, <2>5, CutInFront
  <2>7. ImageBytes(installed) \in Nat  BY <2>6, BytesType
  <2>8. ~(ImageBytes(installed) > ImageBytes(Expected))
    BY <1>1, <2>1, <2>5, <2>7 DEF NewSize
  <2> QED BY <2>6, <2>8, NotLongerIsExact
<1> QED BY <1>2, <1>3, <1>4

LEMMA DoneAtEnd ==
  ASSUME ImagesRead, Activates, BaselineInv, EndDeployment
  PROVE  DoneInv'
<1>1. /\ stage' = "done" /\ stage = "deploy" /\ next = PlanEnd /\ Complete
      /\ UNCHANGED <<planner, next, plan, limit>> /\ Unharmed(installState, errors)
  BY EndsRunning
<1> SUFFICES ASSUME PlanEnd' = Len(plan')
             PROVE  Transformed' /\ installState' = "complete"
  BY DEF DoneInv, Deployed
<1>2. next = Len(plan)  BY <1>1 DEF PlanEnd
<1>3. Transformed  BY <1>1, <1>2, PlanEnded
<1>4. errors = {} /\ installState \in {"ready", "installing", "complete"} /\ SlotFits
  BY <1>1 DEF Unharmed, Activates, SlotFits
<1> DEFINE c == Completion(installState)
<1>5. c.state = "complete" /\ c.installed = installed  BY <1>3, <1>4, CompletionOfTarget
<1>6. installed' = c.installed /\ installState' = c.state  BY <1>1 DEF Complete
<1> QED BY <1>3, <1>5, <1>6 DEF Transformed
-----------------------------------------------------------------------------
(* The invariant of the baselines.                                         *)
LEMMA NoPlanYet ==
  ASSUME NEW old \in Image, NEW ops, ops = << >>
  PROVE  /\ Right(old, ops, 0) /\ Uncut(ops) /\ AllFresh(ops) /\ Guarded(old, ops)
         /\ \A area : DOMAIN area = {} =>
              AreaPlanned(old, ops, area) /\ Executed(old, ops, Len(ops), 0, old, area)
<1>1. DOMAIN ops = {} /\ Len(ops) = 0 /\ ops \in Seq(PlanOp)  BY DEF Uncut
<1>2. 0 .. 0 - 1 = {}  OBVIOUS
<1>3. Right(old, ops, 0)  BY <1>1, <1>2 DEF Right, Covers
<1>4. Uncut(ops) /\ AllFresh(ops) /\ Guarded(old, ops)  BY <1>1 DEF Uncut, AllFresh, Guarded
<1>5. ASSUME NEW area, DOMAIN area = {}
      PROVE  AreaPlanned(old, ops, area) /\ Executed(old, ops, Len(ops), 0, old, area)
  <2>1. old = Mix(old, 0) /\ 0 \in 0 .. NewCount  BY MixNothing, NewImage
  <2>2. AreaPlanned(old, ops, area)  BY <1>1, <1>5 DEF AreaPlanned
  <2>3. 1 .. Len(ops) = {}  BY <1>1
  <2>4. Executed(old, ops, Len(ops), 0, old, area)
    BY <1>2, <1>5, <2>1, <2>3 DEF Executed
  <2> QED BY <2>2, <2>4
<1> QED BY <1>3, <1>4, <1>5

LEMMA BaselineInit ==
  ASSUME PlanningInit  PROVE BaselineInv /\ DoneInv
<1>1. /\ installed \in InitialImages /\ snapshot = installed /\ backups = << >>
      /\ installState = "ready" /\ errors = {} /\ rollbackReady = TRUE
      /\ planner \in Planners /\ next = 0 /\ plan = << >> /\ limit \in StepLimits
      /\ stage = IF planner = "backup_safe_copy_delta" THEN "save" ELSE "plan"
      /\ draft = installed /\ saved = << >> /\ sim = [fresh |-> State, planned |-> State]
  BY DEF PlanningInit, Init
<1>2. snapshot \in Image /\ planner \in PlannerName
  BY <1>1, DeploymentAssumption, PlannersAssumption
<1>3. /\ State.installed = installed /\ State.backups = backups
      /\ State.installState = installState /\ State.errors = errors
      /\ State.rollbackReady = rollbackReady
  BY DEF State
<1>4. /\ sim.fresh.installed = snapshot /\ sim.fresh.backups = << >>
      /\ sim.fresh.installState = "ready" /\ sim.fresh.errors = {}
      /\ sim.fresh.rollbackReady = TRUE /\ "planned" \in DOMAIN sim
      /\ sim.planned.installed = installed /\ sim.planned.backups = backups
      /\ sim.planned.installState = installState /\ sim.planned.errors = errors
  <2>1. sim.fresh = State /\ sim.planned = State /\ "planned" \in DOMAIN sim  BY <1>1
  <2> QED BY <1>1, <1>3, <2>1
<1>5. stage \in {"save", "plan"} /\ (stage = "save" <=> Careful) /\ stage # "done"
  BY <1>1 DEF Careful
<1>6. PlanFrame  BY <1>1, <1>2, <1>4, <1>5 DEF PlanFrame, Unharmed
<1>7. /\ Right(snapshot, plan, 0) /\ Uncut(plan) /\ AllFresh(plan) /\ Guarded(snapshot, plan)
      /\ \A area : DOMAIN area = {} =>
           /\ AreaPlanned(snapshot, plan, area)
           /\ Executed(snapshot, plan, Len(plan), 0, snapshot, area)
  BY <1>1, <1>2, NoPlanYet
<1>8. DOMAIN saved = {} /\ DOMAIN backups = {} /\ 0 \in 0 .. NewCount
      /\ snapshot = Mix(snapshot, 0)
  BY <1>1, <1>2, MixNothing, NewImage
<1>9. AreaPlanned(snapshot, plan, saved)
      /\ Executed(snapshot, plan, Len(plan), 0, snapshot, backups)
  BY <1>7, <1>8
<1>10. DraftInv
  BY <1>1, <1>5, <1>7, <1>8, <1>9 DEF DraftInv
<1>11. GreedyInv
  <2>1. Greedy => stage = "plan"  BY <1>1 DEF Greedy
  <2>2. GreedyPlans
    BY <1>1, <1>4, <1>7, <1>8, <1>9 DEF GreedyPlans, Unharmed
  <2> QED BY <1>4, <1>5, <2>1, <2>2 DEF GreedyInv
<1>12. WholeInv  BY <1>1, <1>5 DEF WholeInv
<1>13. PlannedInv /\ DeployInv /\ KeptInv /\ DoneInv
  BY <1>5 DEF PlannedInv, DeployInv, KeptInv, DoneInv, Deployed
<1> QED BY <1>6, <1>10, <1>11, <1>12, <1>13 DEF BaselineInv

LEMMA BaselineStep ==
  ASSUME ImagesRead, BaselineInv, PlanningNext  PROVE BaselineInv'
<1>1. CASE FullReplacement \/ WholeFileBsdiff  BY <1>1, WholeStep
<1>2. CASE BlockwiseBsdiff  BY <1>2, BlockwiseStep
<1>3. CASE CopyOnly \/ CopyDelta  BY <1>3, CopyStep
<1>4. CASE RsyncRollingHash  BY <1>4, RsyncStep
<1>5. CASE SaveTail  BY <1>5, SaveTailStep
<1>6. CASE BackupSafeCopyDelta  BY <1>6, CarefulStep
<1>7. CASE CutPlan  BY <1>7, CutPlanStep
<1>8. CASE GreedySearchesBlock  BY <1>8, GreedySearchStep
<1>9. CASE GreedyCuts  BY <1>9, GreedyCutStep
<1>10. CASE TryOperation  BY <1>10, TryStep
<1>11. CASE JudgeCandidate  BY <1>11, JudgeStep
<1>12. CASE AdoptOperation  BY <1>12, AdoptStep
<1>13. CASE Adopted  BY <1>13, AdoptedStep
<1>14. CASE StartDeployment  BY <1>14, StartStep
<1>15. CASE DeployOperation
  BY <1>15, BlockwiseDeployed, WholeDeployed
<1>16. CASE EndDeployment  BY <1>16, EndOfDeployment
<1> QED BY <1>1, <1>2, <1>3, <1>4, <1>5, <1>6, <1>7, <1>8, <1>9, <1>10, <1>11, <1>12,
           <1>13, <1>14, <1>15, <1>16 DEF PlanningNext

(* Only the end of a deployment makes it done.                             *)
LEMMA DoneStep ==
  ASSUME ImagesRead, Activates, BaselineInv, PlanningNext  PROVE DoneInv'
<1>1. CASE EndDeployment  BY <1>1, DoneAtEnd
<1>2. ASSUME stage' # "done"  PROVE DoneInv'  BY <1>2 DEF DoneInv, Deployed
<1>3. CASE FullReplacement \/ WholeFileBsdiff
  BY <1>2, <1>3 DEF FullReplacement, WholeFileBsdiff, PlanWhole, Plans
<1>4. CASE BlockwiseBsdiff \/ CopyOnly \/ CopyDelta \/ RsyncRollingHash \/ BackupSafeCopyDelta
  <2>1. Plans(planner) /\ stage' = stage
    BY <1>4 DEF BlockwiseBsdiff, CopyOnly, CopyDelta, RsyncRollingHash, BackupSafeCopyDelta,
                PlanBlock, Plans
  <2> QED BY <1>2, <2>1 DEF Plans
<1>5. CASE SaveTail \/ CutPlan  BY <1>2, <1>5 DEF SaveTail, CutPlan
<1>6. CASE GreedySearchesBlock \/ GreedyCuts
  BY <1>2, <1>6 DEF GreedySearchesBlock, GreedyCuts, StartSearch
<1>7. CASE TryOperation \/ AdoptOperation
  BY <1>2, <1>7 DEF TryOperation, AdoptOperation
<1>8. CASE JudgeCandidate
  <2>1. stage' \in {"try", "raised", "adopt"}  BY <1>8 DEF JudgeCandidate
  <2> QED BY <1>2, <2>1
<1>9. CASE Adopted  BY <1>2, <1>9 DEF Adopted
<1>10. CASE StartDeployment \/ DeployOperation
  BY <1>2, <1>10 DEF StartDeployment, DeployOperation
<1> QED BY <1>1, <1>3, <1>4, <1>5, <1>6, <1>7, <1>8, <1>9, <1>10 DEF PlanningNext

LEMMA BaselineStutters ==
  ASSUME BaselineInv, UNCHANGED <<vars, planning>>  PROVE BaselineInv'
<1>1. UNCHANGED <<planner, stage, next, plan, limit, draft, saved, search, sim, installed,
                  snapshot, backups, installState, errors, rollbackReady>>
  BY DEF vars, planning
<1>2. /\ (AtOnce' <=> AtOnce) /\ (Greedy' <=> Greedy) /\ (Careful' <=> Careful)
      /\ PlanEnd' = PlanEnd
  BY <1>1 DEF AtOnce, Greedy, Careful, PlanEnd
<1>3. PlanFrame'  BY <1>1, <1>2 DEF BaselineInv, PlanFrame
<1>4. DraftInv'  BY <1>1, <1>2 DEF BaselineInv, DraftInv
<1>5. PlannedInv'  BY <1>1, <1>2 DEF BaselineInv, PlannedInv
<1>6. GreedyPlans' <=> GreedyPlans  BY <1>1 DEF GreedyPlans
<1>7. GreedyInv'
  <2>1. \A c : Good(c)' <=> Good(c)  BY <1>1 DEF Good
  <2> QED BY <1>1, <1>2, <1>6, <2>1 DEF BaselineInv, GreedyInv, Good
<1>8. DeployInv'  BY <1>1, <1>2 DEF BaselineInv, DeployInv
<1>9. WholeInv'  BY <1>1, <1>2 DEF BaselineInv, WholeInv
<1>10. KeptInv'  BY <1>1, <1>2 DEF BaselineInv, KeptInv, Protected
<1> QED BY <1>3, <1>4, <1>5, <1>7, <1>8, <1>9, <1>10 DEF BaselineInv
-----------------------------------------------------------------------------
(* The invariant of every plan: nothing is planned behind an episode.      *)
PlannedPolicy == IF policy = "baseline" THEN BaselineInv ELSE stage = "idle"
DonePolicy == policy = "baseline" => DoneInv

LEMMA PlannedPolicyStep ==
  ASSUME ImagesRead, PolicyFrame, PlannedPolicy, [PolicyNext]_policyVars
  PROVE  PlannedPolicy' /\ (Activates /\ DonePolicy => DonePolicy')
<1>1. policy' = policy  BY PolicyStep
<1>2. CASE policy # "baseline"
  <2>1. UNCHANGED planning  BY <1>2 DEF PolicyNext, policyVars
  <2>2. stage' = stage  BY <2>1 DEF planning
  <2> QED BY <1>1, <1>2, <2>2 DEF PlannedPolicy, DonePolicy
<1>3. CASE policy = "baseline" /\ PlanningNext
  <2>1. BaselineInv  BY <1>3 DEF PlannedPolicy
  <2>2. BaselineInv'  BY <1>3, <2>1, BaselineStep
  <2>3. Activates => DoneInv'  BY <1>3, <2>1, DoneStep
  <2> QED BY <1>1, <1>3, <2>2, <2>3 DEF PlannedPolicy, DonePolicy
<1>4. CASE policy = "baseline" /\ UNCHANGED policyVars
  <2>1. UNCHANGED <<vars, planning>>  BY <1>4 DEF policyVars, envVars
  <2>2. BaselineInv  BY <1>4 DEF PlannedPolicy
  <2>3. BaselineInv'  BY <2>1, <2>2, BaselineStutters
  <2>4. DoneInv' <=> DoneInv
    <3>1. UNCHANGED <<stage, plan, limit, installed, installState>>
      BY <2>1 DEF vars, planning
    <3> QED BY <3>1 DEF DoneInv, Deployed, PlanEnd, Transformed
  <2> QED BY <1>1, <1>4, <2>3, <2>4 DEF PlannedPolicy, DonePolicy
<1>5. policy = "baseline" => PlanningNext \/ UNCHANGED policyVars
  BY PolicyNames DEF PolicyNext
<1> QED BY <1>2, <1>3, <1>4, <1>5

LEMMA PlannedPolicyInit ==
  ASSUME PolicyInit  PROVE PolicyFrame /\ PlannedPolicy /\ DonePolicy
<1>1. PolicyFrame  BY PolicyFrameInit
<1>2. CASE policy = "baseline"
  <2>1. PlanningInit  BY <1>2, PolicyNames DEF PolicyInit
  <2> QED BY <1>1, <1>2, <2>1, BaselineInit DEF PlannedPolicy, DonePolicy
<1>3. CASE policy # "baseline"
  BY <1>1, <1>3 DEF PolicyInit, NoPlan, PlannedPolicy, DonePolicy
<1> QED BY <1>2, <1>3

LEMMA PlannedPolicyInvariant ==
  ASSUME ImagesRead
  PROVE  PolicySpec => [](PolicyFrame /\ PlannedPolicy /\ (Activates => DonePolicy))
<1> DEFINE Inv == PolicyFrame /\ PlannedPolicy /\ (Activates => DonePolicy)
<1>1. PolicyInit => Inv  BY PlannedPolicyInit
<1>2. Inv /\ [PolicyNext]_policyVars => Inv'
  <2> SUFFICES ASSUME Inv, [PolicyNext]_policyVars  PROVE Inv'  OBVIOUS
  <2>1. PolicyFrame'  BY PolicyStep
  <2>2. PlannedPolicy' /\ (Activates /\ DonePolicy => DonePolicy')  BY PlannedPolicyStep
  <2>3. Activates' <=> Activates  BY DEF Activates, SlotFits
  <2> QED BY <2>1, <2>2, <2>3
<1> QED BY <1>1, <1>2, PTL DEF PolicySpec

-----------------------------------------------------------------------------
(* For images that are read from files and a new image that activates, for *)
(* every planner, patch size and max_steps: planning never raises, and a   *)
(* plan that is deployed whole leaves exactly the bytes of the new image   *)
(* and a complete device (_source_candidates, _bounded_delta_candidates,   *)
(* _truncate_blocks_if_needed, _apply_candidate).                          *)
THEOREM PlansReproduce ==
  ASSUME ImagesRead, Activates  PROVE PolicySpec => []PlansReproduceTarget
<1>1. PolicyFrame /\ PlannedPolicy /\ (Activates => DonePolicy) => PlansReproduceTarget
  <2> SUFFICES ASSUME PlannedPolicy, DonePolicy  PROVE PlansReproduceTarget  OBVIOUS
  <2>1. CASE policy = "baseline"
    <3>1. BaselineInv /\ DoneInv  BY <2>1 DEF PlannedPolicy, DonePolicy
    <3>2. stage # "raised"  BY <3>1 DEF BaselineInv, PlanFrame
    <3> QED BY <3>1, <3>2 DEF DoneInv, PlansReproduceTarget, Transformed
  <2>2. CASE policy # "baseline"
    BY <2>2 DEF PlannedPolicy, PlansReproduceTarget, Deployed
  <2> QED BY <2>1, <2>2
<1> QED BY <1>1, PlannedPolicyInvariant, PTL

(* For images that are read from files, whatever the planner: at each      *)
(* point of a deployment, and wherever max_steps cuts it, a device that    *)
(* calls itself ready to roll back has the old content of every block in   *)
(* place or in a backup, and the backup-safe planner never loses it        *)
(* (_mark_overwrite_if_unprotected, _backup_block).                        *)
THEOREM BackupSafeRevertible ==
  ASSUME ImagesRead  PROVE PolicySpec => []BackupSafePlansRevertible
<1>1. PolicyFrame /\ PlannedPolicy /\ (Activates => DonePolicy) => BackupSafePlansRevertible
  <2> SUFFICES ASSUME PlannedPolicy, stage \in {"deploy", "done"}
               PROVE  /\ RollbackDataPreserved
                      /\ RequireBackup /\ planner = "backup_safe_copy_delta" => rollbackReady
    BY DEF BackupSafePlansRevertible
  <2>1. BaselineInv  BY DEF PlannedPolicy
  <2>2. /\ \A id \in DOMAIN backups :
             backups[id] = [index |-> backups[id].index, block |-> backups[id].block]
        /\ RequireBackup /\ rollbackReady =>
             /\ Protected(installed, backups)
             /\ \A id \in DOMAIN backups : backups[id].index < Len(snapshot) =>
                  backups[id].block = snapshot[backups[id].index + 1]
        /\ RequireBackup /\ Careful => rollbackReady
    BY <2>1 DEF BaselineInv, KeptInv
  <2>3. snapshot \in Image  BY <2>1, DeploymentAssumption DEF BaselineInv, PlanFrame
  <2>4. ASSUME RequireBackup, rollbackReady, NEW i \in DOMAIN snapshot,
               ~(i \in DOMAIN installed /\ installed[i] = snapshot[i])
        PROVE  \E id \in DOMAIN backups : backups[id] = [index |-> i - 1, block |-> snapshot[i]]
    <3>1. PICK id \in DOMAIN backups : backups[id].index = i - 1
      BY <2>2, <2>4 DEF Protected
    <3>2. i \in Nat /\ i - 1 < Len(snapshot) /\ (i - 1) + 1 = i
      <4>1. DOMAIN snapshot = 1 .. Len(snapshot) /\ Len(snapshot) \in Nat  BY <2>3 DEF Image
      <4> QED BY <4>1
    <3>3. backups[id].block = snapshot[i]  BY <2>2, <2>4, <3>1, <3>2
    <3> QED BY <2>2, <3>1, <3>3
  <2>5. RollbackDataPreserved  BY <2>4 DEF RollbackDataPreserved
  <2> QED BY <2>2, <2>5 DEF Careful
<1> QED BY <1>1, PlannedPolicyInvariant, PTL
=============================================================================
