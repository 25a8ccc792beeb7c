----------------------------- MODULE SuiteProofs -----------------------------
(***************************************************************************)
(* The properties of Suite, for every matrix, every input of the tools and *)
(* every sequence of crashes: what the source manifest describes, how      *)
(* ledger and result rows account for each other, which learned rows are   *)
(* reported, what a suite measures and what a download leaves on disk.     *)
(***************************************************************************)
EXTENDS Suite, SequenceFacts

JobFields == DOMAIN job = {"tool", "pairs", "left", "force", "pending"}

(***************************************************************************)
(* The source manifest.                                                    *)
(***************************************************************************)

(* What register is about to write has been validated.                     *)
PendingValid == job.tool = "register" => SchemaValid(job.pending)

DescribedInv == JobFields /\ PendingValid /\ EnabledPairsDescribed

(* No step of another tool starts a suite, and only register changes the   *)
(* source manifest.                                                        *)
LEMMA ManifestStepTool ==
  ASSUME JobFields, ManifestStep
  PROVE  /\ JobFields'
         /\ job'.tool \notin {"suite", "outputs", "open"}
         /\ \/ manifest'["source"] = manifest["source"]
            \/ manifest'["source"] = Torn
            \/ job.tool = "register" /\ manifest'["source"] = job.pending
         /\ job'.tool = "register" =>
              \/ job.tool = "register" /\ job'.pending = job.pending
              \/ SchemaValid(job'.pending)
<1> USE DEF JobFields, Idle
<1>1. CASE \E r \in Registrations : Register(r)
  BY <1>1 DEF Register, Start, BeginManifest, Rendered
<1>2. CASE \E pairs \in SUBSET Pair \ {{}}, force \in BOOLEAN :
             StartDownload(pairs, force)
  BY <1>2 DEF StartDownload, Start
<1>3. CASE KeepExisting
  BY <1>3 DEF KeepExisting, DropFile, Downloading
<1>4. CASE \E c \in Original : BeginFetch(c)
  BY <1>4 DEF BeginFetch
<1>5. CASE EndFetch
  <2>1. manifest' = manifest /\ job.tool = "fetch"  BY <1>5 DEF EndFetch
  <2>2. CASE job.pending = NextDeclared
    <3>1. job' = [job EXCEPT !.tool = "download", !.pending = <<>>,
                             !.left = Tail(@)]
      BY <1>5, <2>2 DEF EndFetch
    <3> QED BY <2>1, <3>1
  <2>3. CASE job.pending # NextDeclared
    <3>1. job' = Idle  BY <1>5, <2>3 DEF EndFetch
    <3> QED BY <2>1, <3>1
  <2> QED BY <2>2, <2>3
<1>6. CASE RefuseFile
  BY <1>6 DEF RefuseFile, End
<1>7. CASE EndDownload
  BY <1>7 DEF EndDownload, End
<1>8. CASE \E p \in Pair : StartDerive(p)
  BY <1>8 DEF StartDerive, Start
<1>9. CASE DeriveFile
  BY <1>9 DEF DeriveFile
<1>10. CASE BeginDerived
  BY <1>10 DEF BeginDerived, BeginManifest
<1>11. CASE EndManifest("register", "source")
  BY <1>11 DEF EndManifest, End
<1>12. CASE EndManifest("derived", "rootfs")
  BY <1>12 DEF EndManifest, End
<1> QED
  BY <1>1, <1>2, <1>3, <1>4, <1>5, <1>6, <1>7, <1>8, <1>9, <1>10, <1>11, <1>12
  DEF ManifestStep

LEMMA SuiteStepTool ==
  ASSUME JobFields, SuiteNext, ~(ManifestStep /\ UNCHANGED suiteVars)
  PROVE  /\ JobFields'
         /\ job'.tool # "register"
         /\ manifest' = manifest
<1> USE DEF JobFields, Idle, End
<1>1. CASE \E ms \in Selections : StartSuite(ms)
  BY <1>1 DEF StartSuite, Start
<1>2. CASE \E status \in {"timeout", "error"} : AttemptFails(status)
  BY <1>2 DEF AttemptFails, Attempting, manifestVars
<1>3. CASE \E r \in Outcomes : AttemptReturns(r)
  BY <1>3 DEF AttemptReturns, Attempting, manifestVars
<1>4. CASE FilterResults  BY <1>4 DEF FilterResults
<1>5. CASE OpenOutput  BY <1>5 DEF OpenOutput
<1>6. CASE CloseOutput  BY <1>6 DEF CloseOutput
<1>7. CASE EndSuite  BY <1>7 DEF EndSuite
<1>8. CASE Stop  BY <1>8 DEF Stop, Crash
<1> QED
  BY <1>1, <1>2, <1>3, <1>4, <1>5, <1>6, <1>7, <1>8 DEF SuiteNext

(* register_dataset_artifacts.py validates what it has rendered before it  *)
(* writes it: whatever is registered, downloaded, derived, run or          *)
(* interrupted, the source manifest is torn or describes its enabled real  *)
(* pairs completely.                                                       *)
THEOREM Described == SuiteSpec => []EnabledPairsDescribed
<1>1. SuiteInit => DescribedInv
  BY ShippedValid
  DEF SuiteInit, ManifestInit, DescribedInv, JobFields, PendingValid,
      EnabledPairsDescribed, Idle
<1>2. DescribedInv /\ [SuiteNext]_vars => DescribedInv'
  <2> SUFFICES ASSUME DescribedInv, [SuiteNext]_vars PROVE DescribedInv'
    OBVIOUS
  <2> USE DEF DescribedInv, PendingValid, EnabledPairsDescribed
  <2>1. CASE ManifestStep /\ UNCHANGED suiteVars
    <3>1. JobFields'  BY <2>1, ManifestStepTool
    <3>2. PendingValid'
      BY <2>1, ManifestStepTool DEF SchemaValid, Contract
    <3>3. EnabledPairsDescribed'
      BY <2>1, ManifestStepTool DEF SchemaValid, Contract
    <3> QED BY <3>1, <3>2, <3>3
  <2>2. CASE SuiteNext /\ ~(ManifestStep /\ UNCHANGED suiteVars)
    BY <2>2, SuiteStepTool DEF SchemaValid, Contract
  <2>3. CASE UNCHANGED vars
    BY <2>3 DEF vars, manifestVars, JobFields, SchemaValid, Contract
  <2> QED BY <2>1, <2>2, <2>3
<1>3. DescribedInv => EnabledPairsDescribed  BY DEF DescribedInv
<1> QED BY <1>1, <1>2, <1>3, PTL DEF SuiteSpec

(***************************************************************************)
(* The ledger and the results of the suite that runs.                      *)
(***************************************************************************)

(* Row i names the attempt i; each result belongs to one row, which has    *)
(* its status; a completed attempt has a result and one that timed out has *)
(* none.                                                                   *)
Tracked(rows, found) ==
  /\ rows \in Seq(Range(rows))
  /\ \A i \in DOMAIN rows :
       /\ rows[i] = [id |-> rows[i].id, status |-> rows[i].status,
                     written |-> FALSE]
       /\ rows[i].id[1] = i
       /\ rows[i].status # "excluded"
       /\ rows[i].status = "completed" => \E r \in found : r.index = i
       /\ rows[i].status = "timeout" => \A r \in found : r.index # i
  /\ IsFiniteSet(found)
  /\ \A r \in found :
       /\ r.index \in DOMAIN rows
       /\ r.id = rows[r.index].id
       /\ r.result \in Returned
       /\ rows[r.index].status = Classify(r.result)
  /\ \A q, r \in found : q.index = r.index => q = r

(* What the filter leaves of learned results.                              *)
Compared(found) ==
  ~ReportAllLearned =>
    \A r \in found :
      r.cell.policy.learned =>
        /\ CompletedReplay(r)
        /\ \E b \in found :
             /\ ~b.cell.policy.learned
             /\ b.cell.manifest = r.cell.manifest
             /\ b.cell.pair = r.cell.pair
             /\ b.cell.setting = r.cell.setting

LEMMA ClassifyFacts ==
  ASSUME NEW r \in Returned
  PROVE  /\ Classify(r) \notin {"excluded", "timeout"}
         /\ Classify(r) = "completed" => r.completed /\ r.valid
BY DEF Classify, Returned

LEMMA TrackedStart == Tracked(<<>>, {})
BY FS_EmptySet DEF Tracked, Range

LEMMA RowAppended ==
  ASSUME NEW rows, NEW found, Tracked(rows, found), NEW row,
         row = [id |-> row.id, status |-> row.status, written |-> FALSE],
         row.id[1] = Len(rows) + 1, row.status # "excluded",
         NEW more, \A r \in more : r.index # Len(rows) + 1 => r \in found,
         found \subseteq more, IsFiniteSet(more),
         \A r \in more : r.index = Len(rows) + 1 =>
            /\ r.id = row.id /\ r.result \in Returned
            /\ row.status = Classify(r.result),
         \A q, r \in more : q.index = Len(rows) + 1 /\ r.index = q.index => q = r,
         row.status = "completed" => \E r \in more : r.index = Len(rows) + 1,
         row.status = "timeout" => more = found
  PROVE  Tracked(Append(rows, row), more)
<1> DEFINE n == Len(rows) + 1
           new == Append(rows, row)
<1>1. rows \in Seq(Range(rows)) /\ Len(rows) \in Nat /\ DOMAIN rows = 1..Len(rows)
  BY DEF Tracked
<1>2. rows \in Seq(Range(rows) \cup {row})
  BY <1>1
<1>3. /\ DOMAIN new = 1..n /\ Len(new) = n
      /\ \A i \in DOMAIN rows : new[i] = rows[i]
      /\ new[n] = row
  BY <1>1, <1>2
<1>4. new \in Seq(Range(new))
  <2>1. \A i \in 1..n : new[i] \in Range(new)  BY <1>3 DEF Range
  <2>2. new \in Seq(Range(rows) \cup {row})  BY <1>2
  <2> QED BY <2>1, <2>2, <1>3, <1>1
<1> HIDE DEF new
<1>5. n \notin DOMAIN rows /\ \A r \in found : r.index # n
  BY <1>1 DEF Tracked
<1>6. DOMAIN new = DOMAIN rows \cup {n}  BY <1>1, <1>3
<1> HIDE DEF n
<1>7. ASSUME NEW i \in DOMAIN new
      PROVE  /\ new[i] = [id |-> new[i].id, status |-> new[i].status,
                          written |-> FALSE]
             /\ new[i].id[1] = i
             /\ new[i].status # "excluded"
             /\ new[i].status = "completed" => \E r \in more : r.index = i
             /\ new[i].status = "timeout" => \A r \in more : r.index # i
  <2>1. CASE i = n
    BY <2>1, <1>3, <1>5 DEF n
  <2>2. CASE i \in DOMAIN rows
    <3>1. i # n /\ new[i] = rows[i]  BY <2>2, <1>3, <1>5
    <3>2. \A r \in more : r.index = i => r \in found  BY <3>1 DEF n
    <3> QED BY <2>2, <3>1, <3>2 DEF Tracked
  <2> QED BY <2>1, <2>2, <1>6
<1>8. ASSUME NEW r \in more
      PROVE  /\ r.index \in DOMAIN new
             /\ r.id = new[r.index].id
             /\ r.result \in Returned
             /\ new[r.index].status = Classify(r.result)
  <2>1. CASE r.index = n  BY <2>1, <1>3, <1>6 DEF n
  <2>2. CASE r.index # n
    <3>1. r \in found  BY <2>2 DEF n
    <3>2. /\ r.index \in DOMAIN rows /\ r.id = rows[r.index].id
          /\ r.result \in Returned
          /\ rows[r.index].status = Classify(r.result)
      BY <3>1 DEF Tracked
    <3>3. new[r.index] = rows[r.index] /\ r.index \in DOMAIN new
      BY <3>2, <1>3, <1>6
    <3> QED BY <3>2, <3>3
  <2> QED BY <2>1, <2>2
<1>9. \A q, r \in more : q.index = r.index => q = r
  BY <1>5 DEF Tracked, n
<1> QED BY <1>4, <1>7, <1>8, <1>9 DEF Tracked, new

(* What the filter makes of a row: it keeps its name, is marked when its   *)
(* result is reported and excluded when its result is not.                 *)
LEMMA MarkFacts ==
  ASSUME Tracked(ledger, results), NEW i \in DOMAIN ledger
  PROVE  LET row == Mark(ledger[i])
         IN  /\ row.id = ledger[i].id
             /\ row.written \in BOOLEAN
             /\ row.written <=> \E r \in results : r.index = i /\ Reported(r)
             /\ row.status = "completed" =>
                  /\ ledger[i].status = "completed"
                  /\ row.written
             /\ row.status \in {"timeout", "excluded"} => ~row.written
<1> DEFINE mine == {r \in results : r.id = ledger[i].id}
<1>1. /\ ledger[i] = [id |-> ledger[i].id, status |-> ledger[i].status,
                      written |-> FALSE]
      /\ ledger[i].status # "excluded"
      /\ ledger[i].status = "completed" => \E r \in results : r.index = i
      /\ ledger[i].status = "timeout" => \A r \in results : r.index # i
  BY DEF Tracked
<1>2. \A r \in results : r.index = i <=> r.id = ledger[i].id
  BY DEF Tracked
<1>3. \A r \in results : r \in mine <=> r.index = i  BY <1>2
<1>4. mine \subseteq results  OBVIOUS
<1>5. Mark(ledger[i]) =
        IF \E r \in mine : Reported(r) THEN [ledger[i] EXCEPT !.written = TRUE]
        ELSE IF mine # {} THEN [ledger[i] EXCEPT !.status = "excluded"]
        ELSE ledger[i]
  BY DEF Mark
<1> HIDE DEF mine
<1>6. CASE \E r \in mine : Reported(r)
  <2>1. Mark(ledger[i]) = [id |-> ledger[i].id, status |-> ledger[i].status,
                           written |-> TRUE]
    <3>1. Mark(ledger[i]) = [ledger[i] EXCEPT !.written = TRUE]
      BY <1>5, <1>6
    <3> QED BY <1>1, <3>1
  <2>2. \E r \in results : r.index = i /\ Reported(r)  BY <1>3, <1>4, <1>6
  <2> QED BY <1>1, <2>1, <2>2
<1>7. CASE mine # {} /\ ~\E r \in mine : Reported(r)
  <2>1. Mark(ledger[i]) = [ledger[i] EXCEPT !.status = "excluded"]
    BY <1>5, <1>7
  <2>2. \A r \in results : r.index = i => ~Reported(r)  BY <1>3, <1>7
  <2>3. /\ Mark(ledger[i]).id = ledger[i].id
        /\ Mark(ledger[i]).written = FALSE
        /\ Mark(ledger[i]).status = "excluded"
    <3>1. DOMAIN ledger[i] = {"id", "status", "written"} /\ ledger[i].written = FALSE
      BY <1>1
    <3> QED BY <2>1, <3>1
  <2> QED BY <2>2, <2>3, Zenon
<1>8. CASE mine = {}
  <2>1. Mark(ledger[i]) = ledger[i]  BY <1>5, <1>8
  <2>2. \A r \in results : r.index # i  BY <1>3, <1>8
  <2>3. /\ Mark(ledger[i]).id = ledger[i].id
        /\ Mark(ledger[i]).written = FALSE
        /\ Mark(ledger[i]).status # "excluded"
        /\ Mark(ledger[i]).status # "completed"
    BY <1>1, <2>1, <2>2
  <2> QED BY <2>2, <2>3, Zenon
<1> QED BY <1>6, <1>7, <1>8

LEMMA FilterAccounts ==
  ASSUME Tracked(ledger, results)
  PROVE  Accounts([i \in DOMAIN ledger |-> Mark(ledger[i])],
                  {r \in results : Reported(r)})
<1> DEFINE rows == [i \in DOMAIN ledger |-> Mark(ledger[i])]
           found == {r \in results : Reported(r)}
           marked == {i \in DOMAIN rows : rows[i].written}
<1>1. DOMAIN rows = DOMAIN ledger /\ \A i \in DOMAIN rows : rows[i] = Mark(ledger[i])
  OBVIOUS
<1>2. found \subseteq results /\ \A r \in results : r \in found <=> Reported(r)
  OBVIOUS
<1> HIDE DEF rows, found
<1>3. \A i \in DOMAIN rows :
        /\ rows[i].id = ledger[i].id
        /\ rows[i].written \in BOOLEAN
        /\ rows[i].written <=> \E r \in found : r.index = i
        /\ rows[i].status = "completed" =>
             ledger[i].status = "completed" /\ rows[i].written
        /\ rows[i].status \in {"timeout", "excluded"} => ~rows[i].written
  <2> TAKE i \in DOMAIN rows
  <2>1. rows[i] = Mark(ledger[i]) /\ i \in DOMAIN ledger  BY <1>1
  <2>2. (\E r \in found : r.index = i) <=>
          \E r \in results : r.index = i /\ Reported(r)
    BY <1>2
  <2> QED BY <2>1, <2>2, MarkFacts
<1>4. \A r \in found :
        /\ r.index \in DOMAIN rows
        /\ r.id = ledger[r.index].id
        /\ r.result \in Returned
        /\ ledger[r.index].status = Classify(r.result)
  BY <1>1, <1>2 DEF Tracked
<1>5. \A q, r \in found : q.index = r.index => q = r
  BY <1>2 DEF Tracked
<1>6. \A i, k \in DOMAIN rows : rows[i].id = rows[k].id => i = k
  BY <1>1, <1>3 DEF Tracked
<1>7. {rows[i].id : i \in {k \in DOMAIN rows : rows[k].written}} =
        {r.id : r \in found}
  <2>1. ASSUME NEW i \in DOMAIN rows, rows[i].written
        PROVE  rows[i].id \in {r.id : r \in found}
    <3>1. PICK r \in found : r.index = i  BY <2>1, <1>3
    <3> QED BY <3>1, <1>3, <1>4
  <2>2. ASSUME NEW r \in found
        PROVE  r.id \in {rows[i].id : i \in {k \in DOMAIN rows : rows[k].written}}
    <3>1. r.index \in DOMAIN rows /\ rows[r.index].written
      BY <2>2, <1>3, <1>4
    <3>2. rows[r.index].id = r.id  BY <3>1, <1>3, <1>4
    <3> QED BY <3>1, <3>2
  <2> QED BY <2>1, <2>2
<1>8. ASSUME NEW i \in DOMAIN rows, rows[i].status = "completed"
      PROVE  \E r \in found : r.id = rows[i].id /\ CompletedReplay(r)
  <2>1. PICK r \in found : r.index = i  BY <1>3, <1>8
  <2>2. r.id = rows[i].id  BY <2>1, <1>3, <1>4
  <2>3. Classify(r.result) = "completed"  BY <2>1, <1>3, <1>4, <1>8
  <2> QED BY <2>2, <2>3, <1>4, ClassifyFacts DEF CompletedReplay
<1>9. ResultRowsMatchReported(rows, found)
  <2> DEFINE f == [r \in found |-> r.index]
  <2>1. IsFiniteSet(found)  BY <1>2, FS_Subset DEF Tracked
  <2>2. f \in Bijection(found, marked)
    <3>1. \A r \in found : r.index \in marked  BY <1>3, <1>4
    <3>2. \A i \in marked : \E r \in found : f[r] = i  BY <1>3
    <3>3. \A q, r \in found : f[q] = f[r] => q = r  BY <1>5
    <3>4. f \in [found -> marked]  BY <3>1
    <3>5. f \in Injection(found, marked)  BY <3>3, <3>4 DEF Injection, IsInjective
    <3>6. f \in Surjection(found, marked)  BY <3>2, <3>4 DEF Surjection
    <3> QED BY <3>5, <3>6 DEF Bijection
  <2>3. ExistsBijection(found, marked)
    <3> HIDE DEF f, marked
    <3> QED BY <2>2 DEF ExistsBijection
  <2>4. Cardinality(marked) = Cardinality(found)
    <3> HIDE DEF marked
    <3> QED BY <2>1, <2>3, FS_Bijection
  <2> QED BY <2>4 DEF ResultRowsMatchReported
<1> QED BY <1>3, <1>6, <1>7, <1>8, <1>9 DEF Accounts, rows, found

LEMMA FilterCompared == Compared({r \in results : Reported(r)})
<1> DEFINE found == {r \in results : Reported(r)}
<1> SUFFICES ASSUME ~ReportAllLearned, NEW r \in found, r.cell.policy.learned
             PROVE  /\ CompletedReplay(r)
                    /\ \E b \in found :
                         /\ ~b.cell.policy.learned
                         /\ b.cell.manifest = r.cell.manifest
                         /\ b.cell.pair = r.cell.pair
                         /\ b.cell.setting = r.cell.setting
  BY DEF Compared
<1>1. HasReason(r)  BY DEF Reported
<1>2. PICK b \in Baselines(r) : TRUE  BY <1>1 DEF HasReason
<1>3. /\ b \in results /\ ~b.cell.policy.learned
      /\ ComparisonKey(b.cell) = ComparisonKey(r.cell)
  BY <1>2 DEF Baselines
<1>4. b \in found  BY <1>3 DEF Reported
<1> QED BY <1>1, <1>3, <1>4 DEF HasReason, ComparisonKey

(***************************************************************************)
(* The files.  Those the suite that runs has closed hold its ledger and    *)
(* its results; those it has not opened are of earlier suites.             *)
(***************************************************************************)
Stamped ==
  /\ JobFields
  /\ suites \in Nat
  /\ DOMAIN outputs = Output
  /\ \A f \in Output : outputs[f].suite \in Nat /\ outputs[f].suite <= suites

Unopened == \A f \in Output : outputs[f].suite < suites

Writing ==
  /\ Accounts(ledger, results)
  /\ Compared(results)
  /\ written \in 0..4
  /\ \A k \in 1..4 :
       /\ k > written => outputs[WriteOrder[k]].suite < suites
       /\ k < written \/ (k = written /\ job.tool = "outputs") =>
            outputs[WriteOrder[k]] =
              [suite |-> suites, rows |-> Content(WriteOrder[k]), closed |-> TRUE]
       /\ k = written /\ job.tool = "open" =>
            /\ outputs[WriteOrder[k]].suite = suites
            /\ outputs[WriteOrder[k]].closed = FALSE
  /\ job.tool = "open" => written # 0

LedgerInv ==
  /\ Stamped
  /\ job.tool = "suite" =>
       Tracked(ledger, results) /\ Unopened /\ written = 0
  /\ job.tool \in {"outputs", "open"} => Writing
  /\ LedgerAccounts
  /\ LearnedRowsCompared

LEMMA Orders ==
  /\ WriteOrder[1] = "jsonl" /\ WriteOrder[2] = "csv"
  /\ WriteOrder[3] = "markdown" /\ WriteOrder[4] = "attempt_ledger"
  /\ Len(WriteOrder) = 4
  /\ \A k \in 1..4 : WriteOrder[k] \in Output
  /\ \A k, n \in 1..4 : WriteOrder[k] = WriteOrder[n] => k = n
BY DEF WriteOrder, Output

LEMMA FilePropertiesKept ==
  ASSUME LedgerAccounts, LearnedRowsCompared, UNCHANGED outputs
  PROVE  LedgerAccounts' /\ LearnedRowsCompared'
<1>1. LedgerAccounts'
  BY DEF LedgerAccounts
<1>2. LearnedRowsCompared'
  BY DEF LearnedRowsCompared, CompletedReplay
<1> QED BY <1>1, <1>2

LEMMA FilesUnchanged ==
  ASSUME LedgerInv, JobFields', UNCHANGED outputs, suites' \in Nat,
         suites <= suites',
         job'.tool \notin {"suite", "outputs", "open"}
  PROVE  LedgerInv'
<1>1. Stamped'  BY DEF LedgerInv, Stamped
<1>2. LedgerAccounts' /\ LearnedRowsCompared'
  BY FilePropertiesKept DEF LedgerInv
<1> QED BY <1>1, <1>2 DEF LedgerInv

LEMMA StartKeeps ==
  ASSUME LedgerInv, NEW ms, StartSuite(ms) PROVE LedgerInv'
<1>1. /\ job'.tool = "suite" /\ JobFields' /\ suites' = suites + 1
      /\ UNCHANGED outputs /\ ledger' = <<>> /\ results' = {}
      /\ written' = 0
  BY DEF StartSuite, Start, Idle, JobFields
<1>2. Stamped' /\ Unopened'  BY <1>1 DEF LedgerInv, Stamped, Unopened
<1>3. Tracked(ledger, results)'  BY <1>1, TrackedStart DEF Tracked, Range
<1>4. LedgerAccounts' /\ LearnedRowsCompared'
  BY <1>1, FilePropertiesKept DEF LedgerInv
<1> QED BY <1>1, <1>2, <1>3, <1>4 DEF LedgerInv

LEMMA AttemptKeeps ==
  ASSUME LedgerInv, Attempting, NEW status,
         UNCHANGED <<manifestVars, jobs, written, outputs, suites>>,
         ledger' = Append(ledger, LedgerRow(status)),
         \/ status \in {"timeout", "error"} /\ results' = results
         \/ \E r \in Returned :
              status = Classify(r) /\ results' = results \cup {ResultRow(r)}
  PROVE  LedgerInv'
<1>1. /\ job.tool = "suite" /\ job' = job
      /\ UNCHANGED <<outputs, suites, written>>
  BY DEF Attempting, manifestVars
<1>2. Tracked(ledger, results) /\ written = 0  BY <1>1 DEF LedgerInv
<1> DEFINE row == LedgerRow(status)
<1>3. /\ row = [id |-> row.id, status |-> row.status, written |-> FALSE]
      /\ row.status = status
      /\ row.id = RunId(NextIndex, NextCell)
      /\ row.id[1] = Len(ledger) + 1
  BY DEF LedgerRow, RunId, NextIndex
<1> HIDE DEF row
<1>4. IsFiniteSet(results) /\ \A r \in results : r.index # Len(ledger) + 1
  BY <1>2 DEF Tracked
<1>5. Tracked(Append(ledger, row), results')
  <2>1. CASE status \in {"timeout", "error"} /\ results' = results
    BY <2>1, <1>2, <1>3, <1>4, RowAppended
  <2>2. CASE \E r \in Returned :
               status = Classify(r) /\ results' = results \cup {ResultRow(r)}
    <3>1. PICK r \in Returned :
            status = Classify(r) /\ results' = results \cup {ResultRow(r)}
      BY <2>2
    <3>2. /\ ResultRow(r).index = Len(ledger) + 1
          /\ ResultRow(r).id = row.id
          /\ ResultRow(r).result = r
      BY <1>3 DEF ResultRow, NextIndex
    <3>3. status \notin {"excluded", "timeout"}  BY <3>1, ClassifyFacts
    <3>4. IsFiniteSet(results')  BY <3>1, <1>4, FS_AddElement
    <3>5. \A q \in results' : q.index = Len(ledger) + 1 => q = ResultRow(r)
      BY <3>1, <1>4
    <3>6. ResultRow(r) \in results' /\ results \subseteq results'
      BY <3>1
    <3>7. \A q \in results' : q.index # Len(ledger) + 1 => q \in results
      BY <3>1, <3>2
    <3> QED BY <3>1, <3>2, <3>3, <3>4, <3>5, <3>6, <3>7, <1>2, <1>3, RowAppended
  <2> QED BY <2>1, <2>2
<1>6. Tracked(ledger, results)'  BY <1>5 DEF row, Tracked, Range
<1>7. Stamped' /\ Unopened'
  BY <1>1 DEF LedgerInv, Stamped, Unopened, JobFields
<1>8. LedgerAccounts' /\ LearnedRowsCompared'
  BY <1>1, FilePropertiesKept DEF LedgerInv
<1> QED BY <1>1, <1>2, <1>6, <1>7, <1>8 DEF LedgerInv

LEMMA FilterKeeps ==
  ASSUME LedgerInv, FilterResults PROVE LedgerInv'
<1>1. /\ job.tool = "suite" /\ job'.tool = "outputs" /\ JobFields'
      /\ UNCHANGED <<outputs, suites, written>>
      /\ results' = {r \in results : Reported(r)}
      /\ ledger' = [i \in DOMAIN ledger |-> Mark(ledger[i])]
  BY DEF FilterResults, LedgerInv, Stamped, JobFields
<1>2. Tracked(ledger, results) /\ Unopened /\ written = 0
  BY <1>1 DEF LedgerInv
<1>3. Accounts(ledger, results)'
  <2>1. Accounts([i \in DOMAIN ledger |-> Mark(ledger[i])],
                 {r \in results : Reported(r)})
    BY <1>2, FilterAccounts
  <2> DEFINE rows == [i \in DOMAIN ledger |-> Mark(ledger[i])]
             found == {r \in results : Reported(r)}
  <2>2. ledger' = rows /\ results' = found  BY <1>1
  <2>3. Accounts(rows, found)  BY <2>1
  <2> HIDE DEF rows, found
  <2> QED BY <2>2, <2>3
<1>4. Compared(results)'
  <2> DEFINE found == {r \in results : Reported(r)}
  <2>1. Compared(found)  BY FilterCompared
  <2>2. results' = found  BY <1>1
  <2> HIDE DEF found
  <2> QED BY <2>1, <2>2 DEF Compared, CompletedReplay
<1>5. Stamped' /\ Unopened'  BY <1>1, <1>2 DEF LedgerInv, Stamped, Unopened
<1>6. Writing'
  <2>1. written' = 0 /\ written' \in 0..4 /\ job'.tool # "open"
    BY <1>1, <1>2
  <2>2. ASSUME NEW k \in 1..4
        PROVE  /\ outputs'[WriteOrder[k]].suite < suites'
               /\ ~(k < written') /\ k # written'
    BY <1>5, <2>1, Orders DEF Unopened
  <2> QED BY <1>3, <1>4, <2>1, <2>2 DEF Writing
<1>7. LedgerAccounts' /\ LearnedRowsCompared'
  BY <1>1, FilePropertiesKept DEF LedgerInv
<1> QED BY <1>1, <1>5, <1>6, <1>7 DEF LedgerInv

(* The stamps of two files tell whether one suite wrote both.              *)
LEMMA OpenKeeps ==
  ASSUME LedgerInv, OpenOutput PROVE LedgerInv'
<1> DEFINE n == written + 1
           f == WriteOrder[n]
           file == [suite |-> suites, rows |-> {}, closed |-> FALSE]
<1>1. /\ job.tool = "outputs" /\ job'.tool = "open" /\ JobFields'
      /\ written' = n /\ written < 4 /\ outputs' = [outputs EXCEPT ![f] = file]
      /\ UNCHANGED <<ledger, results, suites>>
  BY Orders DEF OpenOutput, LedgerInv, Stamped, JobFields
<1>2. Writing /\ Stamped  BY <1>1 DEF LedgerInv
<1>3. n \in 1..4 /\ f \in Output  BY <1>1, <1>2, Orders DEF Writing
<1>4. /\ DOMAIN outputs' = Output /\ outputs'[f] = file
      /\ \A g \in Output : g # f => outputs'[g] = outputs[g]
  BY <1>1, <1>2, <1>3 DEF Stamped
<1>5. file.suite = suites /\ file.closed = FALSE  OBVIOUS
<1> HIDE DEF file
<1>6. Stamped'  BY <1>1, <1>2, <1>4, <1>5 DEF Stamped
<1>7. \A k \in 1..4 : WriteOrder[k] = f <=> k = n
  BY <1>3, Orders
<1> HIDE DEF f
<1>8. Writing'
  <2>1. Accounts(ledger, results)' /\ Compared(results)'
    BY <1>1, <1>2
    DEF Writing, Accounts, Compared, CompletedReplay, ResultRowsMatchReported
  <2>2. ASSUME NEW k \in 1..4
        PROVE  /\ k > written' => outputs'[WriteOrder[k]].suite < suites'
               /\ k < written' \/ (k = written' /\ job'.tool = "outputs") =>
                    outputs'[WriteOrder[k]] =
                      [suite |-> suites', rows |-> Content(WriteOrder[k])',
                       closed |-> TRUE]
               /\ k = written' /\ job'.tool = "open" =>
                    /\ outputs'[WriteOrder[k]].suite = suites'
                    /\ outputs'[WriteOrder[k]].closed = FALSE
    <3>1. CASE k = n
      <4>1. outputs'[WriteOrder[k]] = file  BY <3>1, <1>4, <1>7
      <4> QED BY <3>1, <4>1, <1>1, <1>3, <1>5
    <3>2. CASE k # n
      <4>1. WriteOrder[k] \in Output /\ WriteOrder[k] # f  BY <3>2, <1>7, Orders
      <4>2. outputs'[WriteOrder[k]] = outputs[WriteOrder[k]]  BY <4>1, <1>4
      <4>3. Content(WriteOrder[k])' = Content(WriteOrder[k])
        BY <1>1 DEF Content, WriteOrder
      <4>4. written \in 0..4  BY <1>2 DEF Writing
      <4>5. k > n => k > written  BY <4>4
      <4>6. k < n => k < written \/ k = written  BY <4>4
      <4> QED BY <3>2, <4>2, <4>3, <4>5, <4>6, <1>1, <1>2 DEF Writing
    <3> QED BY <3>1, <3>2
  <2>3. written' \in 0..4 /\ written' # 0  BY <1>1, <1>3
  <2> QED BY <2>1, <2>2, <2>3 DEF Writing
<1>9. LedgerAccounts'
  <2>1. SUFFICES ASSUME outputs'["attempt_ledger"].closed,
                        outputs'["attempt_ledger"].suite = outputs'["jsonl"].suite
                 PROVE  FALSE
    BY DEF LedgerAccounts
  <2>2. n # 4  BY <2>1, <1>4, <1>5, <1>7, <1>3, Orders
  <2>3. outputs'["attempt_ledger"].suite < suites
    <3>1. 4 > written' /\ WriteOrder[4] = "attempt_ledger"
      BY <2>2, <1>1, <1>3, Orders
    <3> QED BY <3>1, <1>1, <1>8 DEF Writing
  <2>4. outputs'["jsonl"].suite = suites
    <3>1. WriteOrder[1] = "jsonl"  BY Orders
    <3>2. CASE n = 1  BY <3>1, <3>2, <1>1, <1>8 DEF Writing
    <3>3. CASE n # 1
      <4>1. 1 < written'  BY <3>3, <1>1, <1>3
      <4>2. outputs'[WriteOrder[1]] =
              [suite |-> suites', rows |-> Content(WriteOrder[1])', closed |-> TRUE]
        BY <4>1, <1>8 DEF Writing
      <4> QED BY <3>1, <4>2, <1>1
    <3> QED BY <3>2, <3>3
  <2>5. outputs'["attempt_ledger"].suite \in Nat /\ suites \in Nat
    BY <1>6, <1>2 DEF Stamped, Output
  <2> QED BY <2>1, <2>3, <2>4, <2>5
<1>10. LearnedRowsCompared'
  <2>1. "jsonl" \in Output  BY DEF Output
  <2>2. CASE f = "jsonl"
    BY <2>2, <1>4, <1>5 DEF LearnedRowsCompared
  <2>3. CASE f # "jsonl"
    BY <2>1, <2>3, <1>4 DEF LedgerInv, LearnedRowsCompared, CompletedReplay
  <2> QED BY <2>2, <2>3
<1> QED BY <1>1, <1>6, <1>8, <1>9, <1>10 DEF LedgerInv

LEMMA CloseKeeps ==
  ASSUME LedgerInv, CloseOutput PROVE LedgerInv'
<1> DEFINE n == written
           f == WriteOrder[n]
           file == [suite |-> suites, rows |-> Content(f), closed |-> TRUE]
<1>1. /\ job.tool = "open" /\ job'.tool = "outputs" /\ JobFields'
      /\ outputs' = [outputs EXCEPT ![f] = file]
      /\ UNCHANGED <<ledger, results, suites, written>>
  BY DEF CloseOutput, LedgerInv, Stamped, JobFields, localVars
<1>2. Writing /\ Stamped  BY <1>1 DEF LedgerInv
<1>3. n \in 1..4 /\ f \in Output
  <2>1. n \in 1..4  BY <1>1, <1>2 DEF Writing
  <2> QED BY <2>1, Orders
<1>4. /\ DOMAIN outputs' = Output /\ outputs'[f] = file
      /\ \A g \in Output : g # f => outputs'[g] = outputs[g]
  BY <1>1, <1>2, <1>3 DEF Stamped
<1>5. file.suite = suites /\ file.closed = TRUE /\ file.rows = Content(f)
  OBVIOUS
<1>6. file = [suite |-> suites, rows |-> Content(f), closed |-> TRUE]
  OBVIOUS
<1> HIDE DEF file
<1>7. \A k \in 1..4 : WriteOrder[k] = f <=> k = n
  BY <1>3, Orders
<1>8. \A k \in 1..4 : Content(WriteOrder[k])' = Content(WriteOrder[k])
  BY <1>1 DEF Content, WriteOrder
<1>9. f = WriteOrder[n]  OBVIOUS
<1> HIDE DEF f
<1>10. Stamped'  BY <1>1, <1>2, <1>4, <1>5 DEF Stamped
<1>11. \A k \in 1..4 :
         /\ k > n => outputs'[WriteOrder[k]].suite < suites
         /\ k <= n => outputs'[WriteOrder[k]] =
              [suite |-> suites, rows |-> Content(WriteOrder[k]), closed |-> TRUE]
  <2> TAKE k \in 1..4
  <2>1. CASE k = n
    <3>1. outputs'[WriteOrder[k]] = file /\ Content(WriteOrder[k]) = Content(f)
      BY <2>1, <1>4, <1>9
    <3> QED BY <2>1, <3>1, <1>3, <1>6
  <2>2. CASE k # n
    <3>1. WriteOrder[k] \in Output /\ WriteOrder[k] # f  BY <2>2, <1>7, Orders
    <3>2. outputs'[WriteOrder[k]] = outputs[WriteOrder[k]]  BY <3>1, <1>4
    <3>3. k <= n => k < written  BY <2>2, <1>3
    <3> QED BY <3>2, <3>3, <1>2 DEF Writing
  <2> QED BY <2>1, <2>2
<1>12. Accounts(ledger, results) /\ Compared(results)  BY <1>2 DEF Writing
<1>13. Writing'
  <2>1. Accounts(ledger, results)' /\ Compared(results)'
    BY <1>1, <1>12
  <2>2. written' = n /\ n \in 0..4 /\ job'.tool = "outputs"  BY <1>1, <1>3
  <2>3. ASSUME NEW k \in 1..4
        PROVE  /\ k > written' => outputs'[WriteOrder[k]].suite < suites'
               /\ k < written' \/ (k = written' /\ job'.tool = "outputs") =>
                    outputs'[WriteOrder[k]] =
                      [suite |-> suites', rows |-> Content(WriteOrder[k])',
                       closed |-> TRUE]
               /\ k = written' /\ job'.tool = "open" =>
                    /\ outputs'[WriteOrder[k]].suite = suites'
                    /\ outputs'[WriteOrder[k]].closed = FALSE
    <3>1. k < n \/ k = n => k <= n  BY <1>3
    <3> QED BY <3>1, <2>2, <1>1, <1>8, <1>11
  <2> HIDE DEF n
  <2> QED BY <2>1, <2>2, <2>3 DEF Writing
<1>14. LearnedRowsCompared'
  <2>1. "jsonl" \in Output  BY DEF Output
  <2>2. CASE f = "jsonl"
    <3>1. Content(f) = results  BY <2>2 DEF Content
    <3>2. outputs'["jsonl"].rows = results  BY <2>2, <3>1, <1>4, <1>5
    <3> QED BY <3>2, <1>12 DEF LearnedRowsCompared, Compared, CompletedReplay
  <2>3. CASE f # "jsonl"
    BY <2>1, <2>3, <1>4 DEF LedgerInv, LearnedRowsCompared, CompletedReplay
  <2> QED BY <2>2, <2>3
<1>15. LedgerAccounts'
  <2>1. outputs'["jsonl"] = [suite |-> suites, rows |-> results, closed |-> TRUE]
    <3>1. 1 \in 1..4 /\ 1 <= n /\ WriteOrder[1] = "jsonl"  BY <1>3, Orders
    <3> QED BY <3>1, <1>11 DEF Content
  <2>2. CASE n = 4
    <3>1. \A g \in Output : outputs'[g] =
            [suite |-> suites, rows |-> Content(g), closed |-> TRUE]
      <4>1. \A g \in Output : \E k \in 1..4 : g = WriteOrder[k]
        BY Orders DEF Output
      <4>2. \A k \in 1..4 : k <= n  BY <2>2
      <4> QED BY <4>1, <4>2, <1>11
    <3>2. outputs'["attempt_ledger"] =
            [suite |-> suites, rows |-> ledger, closed |-> TRUE]
      BY <3>1 DEF Output, Content
    <3>3. \A g \in {"jsonl", "csv", "markdown"} : outputs'[g] =
            [suite |-> suites, rows |-> results, closed |-> TRUE]
      BY <3>1 DEF Output, Content
    <3> DEFINE l == outputs'["attempt_ledger"]
               j == outputs'["jsonl"]
    <3>4. l.rows = ledger /\ j.rows = results  BY <2>1, <3>2
    <3>5. Accounts(l.rows, j.rows)  BY <3>4, <1>12
    <3>6. \A g \in {"jsonl", "csv", "markdown"} :
            outputs'[g] = [suite |-> l.suite, rows |-> j.rows, closed |-> TRUE]
      BY <3>2, <3>3, <3>4
    <3> QED BY <3>5, <3>6 DEF LedgerAccounts
  <2>3. CASE n # 4
    <3>1. outputs'["attempt_ledger"].suite < suites  BY <2>3, <1>3, <1>11, Orders
    <3>2. outputs'["jsonl"].suite = suites  BY <2>1
    <3>3. outputs'["attempt_ledger"].suite \in Nat /\ suites \in Nat
      BY <1>1, <1>10 DEF Stamped, Output
    <3>4. outputs'["attempt_ledger"].suite # outputs'["jsonl"].suite
      BY <3>1, <3>2, <3>3
    <3> QED BY <3>4 DEF LedgerAccounts
  <2> QED BY <2>2, <2>3
<1> QED BY <1>1, <1>10, <1>13, <1>14, <1>15 DEF LedgerInv

LEMMA LedgerStep ==
  ASSUME LedgerInv, [SuiteNext]_vars PROVE LedgerInv'
<1>1. JobFields  BY DEF LedgerInv, Stamped
<1>2. suites \in Nat  BY DEF LedgerInv, Stamped
<1>3. CASE ManifestStep /\ UNCHANGED suiteVars
  BY <1>1, <1>2, <1>3, ManifestStepTool, FilesUnchanged DEF suiteVars
<1>4. CASE \E ms \in Selections : StartSuite(ms)
  BY <1>4, StartKeeps
<1>5. CASE \E status \in {"timeout", "error"} : AttemptFails(status)
  <2>1. PICK status \in {"timeout", "error"} : AttemptFails(status)  BY <1>5
  <2> QED BY <2>1, AttemptKeeps DEF AttemptFails
<1>6. CASE \E r \in Outcomes : AttemptReturns(r)
  <2>1. PICK r \in Outcomes : AttemptReturns(r)  BY <1>6
  <2>2. r \in Returned  BY SuiteAssumption
  <2> QED BY <2>1, <2>2, AttemptKeeps DEF AttemptReturns
<1>7. CASE FilterResults  BY <1>7, FilterKeeps
<1>8. CASE OpenOutput  BY <1>8, OpenKeeps
<1>9. CASE CloseOutput  BY <1>9, CloseKeeps
<1>10. CASE EndSuite
  <2>1. job' = Idle /\ UNCHANGED <<outputs, suites>>
    BY <1>10 DEF EndSuite, End
  <2>2. JobFields' /\ job'.tool \notin {"suite", "outputs", "open"}
    BY <2>1 DEF JobFields, Idle
  <2> QED BY <1>2, <2>1, <2>2, FilesUnchanged
<1>11. CASE Stop
  <2>1. job' = Idle /\ UNCHANGED <<outputs, suites>>
    BY <1>11 DEF Stop, Crash, End
  <2>2. JobFields' /\ job'.tool \notin {"suite", "outputs", "open"}
    BY <2>1 DEF JobFields, Idle
  <2> QED BY <1>2, <2>1, <2>2, FilesUnchanged
<1>12. CASE UNCHANGED vars
  <2>1. /\ UNCHANGED <<job, jobs, ledger, results, written, outputs, suites>>
    BY <1>12 DEF vars, manifestVars, suiteVars, localVars
  <2>2. Stamped' /\ (Unopened <=> Unopened')
    BY <2>1 DEF LedgerInv, Stamped, Unopened, JobFields
  <2>3. Tracked(ledger, results) <=> Tracked(ledger, results)'
    BY <2>1 DEF Tracked, Range
  <2>4. Writing <=> Writing'
    BY <2>1 DEF Writing, Accounts, Compared, CompletedReplay,
      ResultRowsMatchReported, Content, WriteOrder
  <2>5. LedgerAccounts' /\ LearnedRowsCompared'
    BY <2>1, FilePropertiesKept DEF LedgerInv
  <2> QED BY <2>1, <2>2, <2>3, <2>4, <2>5 DEF LedgerInv
<1> QED
  BY <1>3, <1>4, <1>5, <1>6, <1>7, <1>8, <1>9, <1>10, <1>11, <1>12 DEF SuiteNext

LEMMA LedgerStarts == SuiteInit => LedgerInv
BY DEF SuiteInit, ManifestInit, LedgerInv, Stamped, JobFields, Idle, NoFile,
  Output, LedgerAccounts, LearnedRowsCompared

(* update_attempt_ledger_for_reported_results and write_outputs: a closed  *)
(* ledger accounts for the result rows of its suite, with all four files   *)
(* of that suite beside it, for every matrix, every result of an attempt   *)
(* and whatever earlier suites and crashes left in the directory.          *)
THEOREM LedgerAccounted == SuiteSpec => []LedgerAccounts
<1>1. LedgerInv => LedgerAccounts  BY DEF LedgerInv
<1> QED BY LedgerStarts, LedgerStep, <1>1, PTL DEF SuiteSpec

(* filter_reported_results: without --report-all-learned a result file has *)
(* a learned row only beside a deterministic row of its pair and setting.  *)
THEOREM LearnedCompared == SuiteSpec => []LearnedRowsCompared
<1>1. LedgerInv => LearnedRowsCompared  BY DEF LedgerInv
<1> QED BY LedgerStarts, LedgerStep, <1>1, PTL DEF SuiteSpec

(***************************************************************************)
(* What a suite measures.                                                  *)
(***************************************************************************)

(* A description gives both sides of each of its pairs a file and a        *)
(* content or Undeclared.                                                  *)
Shaped(d) ==
  \A p \in DOMAIN d :
    /\ DOMAIN d[p] = {"file", "declared", "documents", "enabled"}
    /\ d[p].file \in [Side -> Path]
    /\ d[p].declared = [s \in Side |-> d[p].declared[s]]

(* Tools that go on with pairs of the source manifest leave it alone.      *)
SourceRead ==
  /\ manifest["source"] \notin {Absent, Torn}
  /\ job.pairs \subseteq DOMAIN manifest["source"]

ShapeInv ==
  /\ JobFields
  /\ DOMAIN manifest = ManifestId /\ DOMAIN disk = Path
  /\ \A m \in ManifestId : manifest[m] \notin {Absent, Torn} => Shaped(manifest[m])
  /\ job.tool \in {"register", "derived"} => Shaped(job.pending)
  /\ job.tool \in {"download", "fetch", "derive"} => SourceRead

LEMMA ShapeStarts == SuiteInit => ShapeInv
<1> SUFFICES ASSUME SuiteInit PROVE ShapeInv  OBVIOUS
<1>1. Shaped(Initial)
  <2>1. \A p \in DOMAIN Initial : Initial[p] \in Entry  BY ManifestAssumption
  <2> QED BY <2>1 DEF Shaped, Entry
<1>2. disk \in [Path -> Data \cup {Absent}]
  BY ManifestAssumption DEF SuiteInit, ManifestInit
<1> QED BY <1>1, <1>2 DEF SuiteInit, ManifestInit, ShapeInv, JobFields, Idle, ManifestId

LEMMA RegisteredShaped ==
  ASSUME NEW r \in Registrations, NEW d, Shaped(d), r.pair \in DOMAIN d
  PROVE  Shaped([d EXCEPT ![r.pair] = Registered(@, r)])
<1> DEFINE e == d[r.pair]
           g == Registered(e, r)
           n == [d EXCEPT ![r.pair] = g]
<1>1. r.file \in [Side -> Path]  BY ManifestAssumption
<1>2. /\ DOMAIN g = {"file", "declared", "documents", "enabled"}
      /\ g.file = r.file /\ g.declared = [s \in Side |-> disk[r.file[s]]]
  BY DEF Registered, Shaped
<1>3. g.declared = [s \in Side |-> g.declared[s]]
  <2> DEFINE c == g.declared
  <2>1. c = [s \in Side |-> disk[r.file[s]]]  BY <1>2
  <2> HIDE DEF c
  <2> QED BY <2>1 DEF c
<1> HIDE DEF g
<1>4. DOMAIN n = DOMAIN d /\ \A p \in DOMAIN n : n[p] = IF p = r.pair THEN g ELSE d[p]
  OBVIOUS
<1> HIDE DEF n
<1>5. Shaped(n)  BY <1>1, <1>2, <1>3, <1>4 DEF Shaped
<1> QED BY <1>5 DEF n, g

LEMMA DerivedShaped ==
  ASSUME NEW S, NEW d, Shaped(d), S \subseteq DOMAIN d
  PROVE  Shaped([p \in S |-> DerivedEntry(d[p])])
<1> SUFFICES ASSUME NEW p \in S
             PROVE  LET e == DerivedEntry(d[p]) IN
                    /\ DOMAIN e = {"file", "declared", "documents", "enabled"}
                    /\ e.file \in [Side -> Path]
                    /\ e.declared = [s \in Side |-> e.declared[s]]
  BY DEF Shaped
<1>1. d[p].file \in [Side -> Path] /\ RootfsPath \in [Path -> Path]
  BY ManifestAssumption DEF Shaped
<1> QED BY <1>1 DEF DerivedEntry

LEMMA ShapeStep == ShapeInv /\ [SuiteNext]_vars => ShapeInv'
<1> SUFFICES ASSUME ShapeInv, [SuiteNext]_vars PROVE ShapeInv'  OBVIOUS
<1> USE DEF ShapeInv, JobFields, Idle, SourceRead
<1>1. ASSUME NEW r \in Registrations, Register(r)  PROVE ShapeInv'
  <2> DEFINE d == [manifest["source"] EXCEPT ![r.pair] = Registered(@, r)]
  <2>1. Shaped(d)
    BY <1>1, RegisteredShaped DEF Register, Readable, ManifestId
  <2> HIDE DEF d
  <2>2. /\ job'.tool = "register" /\ job'.pending = d /\ DOMAIN job' = DOMAIN Idle
        /\ manifest' = [manifest EXCEPT !["source"] = Torn] /\ disk' = disk
    BY <1>1 DEF Register, Start, BeginManifest, d
  <2> QED BY <2>1, <2>2 DEF ManifestId, Shaped
<1>2. ASSUME NEW pairs \in SUBSET Pair \ {{}}, NEW force \in BOOLEAN,
             StartDownload(pairs, force)
      PROVE  ShapeInv'
  BY <1>2 DEF StartDownload, Start, Readable, Shaped
<1>3. CASE KeepExisting  BY <1>3 DEF KeepExisting, DropFile, Downloading, Shaped
<1>4. ASSUME NEW c \in Original, BeginFetch(c)  PROVE ShapeInv'
  BY <1>4 DEF BeginFetch, Downloading, Shaped
<1>5. CASE EndFetch
  <2>1. manifest' = manifest /\ DOMAIN disk' = DOMAIN disk /\ job.tool = "fetch"
    BY <1>5 DEF EndFetch
  <2>2. /\ JobFields' /\ job'.tool \in {"none", "download"}
        /\ job'.tool = "download" => job'.pairs = job.pairs
    <3>1. CASE job' = Idle  BY <3>1
    <3>2. CASE job' = [job EXCEPT !.tool = "download", !.pending = << >>, !.left = Tail(@)]
      BY <3>2
    <3> QED BY <1>5, <3>1, <3>2 DEF EndFetch
  <2> QED BY <2>1, <2>2 DEF Shaped
<1>6. CASE RefuseFile  BY <1>6 DEF RefuseFile, End, Shaped
<1>7. CASE EndDownload  BY <1>7 DEF EndDownload, End, Shaped
<1>8. ASSUME NEW p \in Pair, StartDerive(p)  PROVE ShapeInv'
  BY <1>8 DEF StartDerive, Start, Readable, Shaped
<1>9. CASE DeriveFile  BY <1>9 DEF DeriveFile, Shaped
<1>10. CASE BeginDerived
  <2> DEFINE d == [p \in job.pairs |-> DerivedEntry(manifest["source"][p])]
  <2>1. Shaped(d)  BY <1>10, DerivedShaped DEF BeginDerived, ManifestId
  <2> HIDE DEF d
  <2>2. /\ job'.tool = "derived" /\ job'.pending = d /\ DOMAIN job' = DOMAIN job
        /\ manifest' = [manifest EXCEPT !["rootfs"] = Torn] /\ disk' = disk
    BY <1>10 DEF BeginDerived, BeginManifest, d
  <2> QED BY <2>1, <2>2 DEF ManifestId, Shaped
<1>11. CASE EndManifest("register", "source")
  BY <1>11 DEF EndManifest, End, Shaped, ManifestId
<1>12. CASE EndManifest("derived", "rootfs")
  BY <1>12 DEF EndManifest, End, Shaped, ManifestId
<1>13. CASE SuiteNext /\ ~(ManifestStep /\ UNCHANGED suiteVars)
  <2>1. JobFields' /\ manifest' = manifest /\ job'.tool # "register"
    BY <1>13, SuiteStepTool
  <2>2. disk' = disk /\ job'.tool \in {"none", "suite", "outputs", "open"}
    <3> USE DEF End
    <3>1. ASSUME NEW ms \in Selections, StartSuite(ms)
          PROVE  disk' = disk /\ job'.tool \in {"none", "suite", "outputs", "open"}
      BY <3>1 DEF StartSuite, Start
    <3>2. ASSUME NEW status, AttemptFails(status)
          PROVE  disk' = disk /\ job'.tool \in {"none", "suite", "outputs", "open"}
      BY <3>2 DEF AttemptFails, Attempting, manifestVars
    <3>3. ASSUME NEW r, AttemptReturns(r)
          PROVE  disk' = disk /\ job'.tool \in {"none", "suite", "outputs", "open"}
      BY <3>3 DEF AttemptReturns, Attempting, manifestVars
    <3>4. CASE FilterResults  BY <3>4 DEF FilterResults
    <3>5. CASE OpenOutput  BY <3>5 DEF OpenOutput
    <3>6. CASE CloseOutput  BY <3>6 DEF CloseOutput
    <3>7. CASE EndSuite  BY <3>7 DEF EndSuite
    <3>8. CASE Stop  BY <3>8 DEF Stop, Crash
    <3> QED BY <1>13, <3>1, <3>2, <3>3, <3>4, <3>5, <3>6, <3>7, <3>8 DEF SuiteNext
  <2> QED BY <2>1, <2>2 DEF Shaped
<1>14. CASE UNCHANGED vars  BY <1>14 DEF vars, manifestVars, Shaped
<1> QED
  BY <1>1, <1>2, <1>3, <1>4, <1>5, <1>6, <1>7, <1>8, <1>9, <1>10, <1>11, <1>12, <1>13, <1>14
  DEF SuiteNext, ManifestStep

-----------------------------------------------------------------------------
(* The attempts of a suite are about enabled pairs of manifests that were  *)
(* loaded; neither they nor their files change while the suite runs.       *)
GoodCell ==
  {c \in [manifest : ManifestId, pair : Pair, setting : Range(Settings),
          policy : Range(Policies)] :
     Loads(c.manifest) /\ c.pair \in EnabledPairs(c.manifest)}

LEMMA SameCells ==
  ASSUME disk' = disk, manifest' = manifest  PROVE GoodCell' = GoodCell
<1>1. ASSUME NEW CONSTANT m  PROVE EnabledPairs(m)' = EnabledPairs(m)
  BY DEF EnabledPairs
<1>2. ASSUME NEW CONSTANT m  PROVE Loads(m)' <=> Loads(m)
  BY <1>1 DEF Loads, Readable, AsDeclared, SchemaValid, Contract
<1>3. ASSUME NEW CONSTANT c
      PROVE  (Loads(c.manifest) /\ c.pair \in EnabledPairs(c.manifest))'
               <=> Loads(c.manifest) /\ c.pair \in EnabledPairs(c.manifest)
  BY <1>1, <1>2
<1> QED BY <1>3 DEF GoodCell

LEMMA MatrixGood ==
  ASSUME NEW m \in ManifestId, Loads(m)  PROVE Matrix(m) \in Seq(GoodCell)
<1> DEFINE row(p, i) == [j \in DOMAIN Policies |->
             [manifest |-> m, pair |-> p, setting |-> Settings[i], policy |-> Policies[j]]]
<1>1. /\ Len(Settings) \in Nat /\ DOMAIN Settings = 1 .. Len(Settings)
      /\ Len(Policies) \in Nat /\ DOMAIN Policies = 1 .. Len(Policies)
      /\ Len(PairOrder) \in Nat /\ DOMAIN PairOrder = 1 .. Len(PairOrder)
  BY SuiteAssumption, ManifestAssumption
<1>2. ASSUME NEW p \in Pair, p \in EnabledPairs(m)  PROVE Cells(m, p) \in Seq(GoodCell)
  <2>1. ASSUME NEW i \in DOMAIN Settings  PROVE row(p, i) \in Seq(GoodCell)
    <3>1. Settings[i] \in Range(Settings)  BY DEF Range
    <3>2. \A j \in DOMAIN Policies : Policies[j] \in Range(Policies)  BY DEF Range
    <3>3. \A j \in DOMAIN Policies : row(p, i)[j] \in GoodCell
      BY <1>2, <3>1, <3>2 DEF GoodCell
    <3> QED BY <1>1, <3>3, SeqDef
  <2> DEFINE rows == [i \in DOMAIN Settings |-> row(p, i)]
  <2>2. rows \in Seq(Seq(GoodCell))
    <3>1. \A i \in DOMAIN Settings : rows[i] \in Seq(GoodCell)  BY <2>1
    <3> HIDE DEF row
    <3> QED BY <1>1, <3>1, SeqDef
  <2> HIDE DEF rows
  <2>3. FlattenSeq(rows) \in Seq(GoodCell)  BY <2>2, FlattenSeqType
  <2> QED BY <2>3 DEF Cells, rows
<1> DEFINE part(i) == IF PairOrder[i] \in EnabledPairs(m) THEN Cells(m, PairOrder[i]) ELSE << >>
           parts == [i \in DOMAIN PairOrder |-> part(i)]
<1> HIDE DEF row
<1>3. ASSUME NEW i \in DOMAIN PairOrder  PROVE part(i) \in Seq(GoodCell)
  <2>1. PairOrder[i] \in Pair  BY DEF Pair
  <2>2. << >> \in Seq(GoodCell)  BY EmptySeq
  <2> QED BY <1>2, <2>1, <2>2
<1>4. parts \in Seq(Seq(GoodCell))
  <2>1. \A i \in DOMAIN PairOrder : parts[i] \in Seq(GoodCell)  BY <1>3
  <2> HIDE DEF part
  <2> QED BY <1>1, <2>1, SeqDef
<1> HIDE DEF parts
<1>5. FlattenSeq(parts) \in Seq(GoodCell)  BY <1>4, FlattenSeqType
<1> QED BY <1>5 DEF Matrix, parts, part

(* The contents that an attempt finds are those that are declared.         *)
LEMMA GoodInputs ==
  ASSUME ShapeInv, NEW c \in GoodCell, c.pair \in Real
  PROVE  Inputs(c) = manifest[c.manifest][c.pair].declared
<1> DEFINE d == manifest[c.manifest]  e == d[c.pair]
<1>1. /\ d \notin {Absent, Torn} /\ c.manifest \in ManifestId /\ SchemaValid(d)
      /\ c.pair \in DOMAIN d /\ e.enabled /\ AsDeclared(e)
  BY DEF GoodCell, Loads, Readable, EnabledPairs
<1>2. e.declared = [s \in Side |-> e.declared[s]]  BY <1>1 DEF ShapeInv, Shaped
<1>3. \A s \in Side : e.declared[s] # Undeclared  BY <1>1 DEF SchemaValid, Contract
<1>4. \A s \in Side : e.declared[s] = disk[e.file[s]]  BY <1>1, <1>3 DEF AsDeclared
<1>5. Inputs(c) = [s \in Side |-> disk[e.file[s]]]  BY DEF Inputs
<1> HIDE DEF d, e
<1>6. [s \in Side |-> disk[e.file[s]]] = [s \in Side |-> e.declared[s]]  BY <1>4
<1> QED BY <1>2, <1>5, <1>6 DEF d, e

RunInv ==
  /\ RunsWhatIsDeclared
  /\ job.tool = "suite" => jobs \in Seq(GoodCell) /\ Len(ledger) \in Nat

LEMMA RunStep == ShapeInv /\ RunInv /\ [SuiteNext]_vars => RunInv'
<1> SUFFICES ASSUME ShapeInv, RunInv, [SuiteNext]_vars PROVE RunInv'  OBVIOUS
<1> USE DEF RunInv, RunsWhatIsDeclared, Measuring
<1>0. JobFields  BY DEF ShapeInv
<1>1. CASE ManifestStep /\ UNCHANGED suiteVars
  BY <1>0, <1>1, ManifestStepTool
<1>2. ASSUME NEW ms \in Selections, StartSuite(ms)  PROVE RunInv'
  <2> DEFINE parts == [i \in DOMAIN ms |-> Matrix(ms[i])]
  <2>1. /\ ms \in Seq(ManifestId) /\ DOMAIN ms = 1 .. Len(ms) /\ Len(ms) \in Nat
    BY SuiteAssumption
  <2>2. parts \in Seq(Seq(GoodCell))
    <3>1. \A i \in DOMAIN ms : parts[i] \in Seq(GoodCell)
      BY <1>2, <2>1, MatrixGood DEF StartSuite
    <3> QED BY <2>1, <3>1, SeqDef
  <2> HIDE DEF parts
  <2>3. FlattenSeq(parts) \in Seq(GoodCell)  BY <2>2, FlattenSeqType
  <2>4. /\ jobs' = FlattenSeq(parts) /\ ledger' = << >> /\ results' = {}
        /\ disk' = disk /\ manifest' = manifest
    BY <1>2 DEF StartSuite, parts
  <2>5. GoodCell' = GoodCell  BY <2>4, SameCells
  <2>6. Len(ledger') = 0  BY <2>4
  <2> QED BY <2>3, <2>4, <2>5, <2>6
<1>3. ASSUME NEW status, AttemptFails(status)  PROVE RunInv'
  <2>1. /\ job' = job /\ disk' = disk /\ manifest' = manifest /\ jobs' = jobs
        /\ results' = results /\ job.tool = "suite"
        /\ ledger' = Append(ledger, LedgerRow(status))
    BY <1>3 DEF AttemptFails, Attempting, manifestVars
  <2>2. GoodCell' = GoodCell  BY <2>1, SameCells
  <2>3. Len(ledger') \in Nat  BY <2>1
  <2> QED BY <2>1, <2>2, <2>3
<1>4. ASSUME NEW r, AttemptReturns(r)  PROVE RunInv'
  <2>1. /\ job' = job /\ disk' = disk /\ manifest' = manifest /\ jobs' = jobs
        /\ results' = results \cup {ResultRow(r)} /\ job.tool = "suite"
        /\ ledger' = Append(ledger, LedgerRow(Classify(r)))
        /\ Len(ledger) < Len(jobs)
    BY <1>4 DEF AttemptReturns, Attempting, manifestVars
  <2>2. GoodCell' = GoodCell  BY <2>1, SameCells
  <2>3. Len(ledger') \in Nat  BY <2>1
  <2>4. NextCell \in GoodCell  BY <2>1 DEF NextCell, NextIndex
  <2>5. LET row == ResultRow(r) IN row.cell = NextCell /\ row.ran = Inputs(NextCell)
    BY DEF ResultRow
  <2>6. NextCell.pair \in Real =>
          Inputs(NextCell) = manifest[NextCell.manifest][NextCell.pair].declared
    BY <2>4, GoodInputs
  <2>7. RunsWhatIsDeclared'  BY <2>1, <2>5, <2>6
  <2> QED BY <2>1, <2>2, <2>3, <2>7
<1>5. CASE FilterResults  BY <1>0, <1>5 DEF FilterResults, JobFields
<1>6. CASE OpenOutput  BY <1>0, <1>6 DEF OpenOutput, JobFields
<1>7. CASE CloseOutput  BY <1>0, <1>7 DEF CloseOutput, JobFields, localVars
<1>8. CASE EndSuite  BY <1>8 DEF EndSuite, End, Idle
<1>9. CASE Stop  BY <1>9 DEF Stop, Crash, End, Idle
<1>10. CASE UNCHANGED vars
  <2>1. GoodCell' = GoodCell  BY <1>10, SameCells DEF vars, manifestVars
  <2> QED BY <1>10, <2>1 DEF vars, manifestVars, suiteVars, localVars
<1> QED
  BY <1>1, <1>2, <1>3, <1>4, <1>5, <1>6, <1>7, <1>8, <1>9, <1>10 DEF SuiteNext

(* run_suite_with_attempt_ledger loads manifests before it starts: a real  *)
(* pair is measured on exactly the contents that its manifest declares,    *)
(* whatever registrations, downloads, derivations and crashes came before. *)
THEOREM DeclaredRun == SuiteSpec => []RunsWhatIsDeclared
<1>1. SuiteInit => RunInv
  BY DEF SuiteInit, ManifestInit, Idle, RunInv, RunsWhatIsDeclared, Measuring
<1>2. RunInv => RunsWhatIsDeclared  BY DEF RunInv
<1> QED BY ShapeStarts, ShapeStep, RunStep, <1>1, <1>2, PTL DEF SuiteSpec
(***************************************************************************)
(* What a download leaves on disk.                                         *)
(***************************************************************************)

(* The pairs do not declare different contents for a file they share.      *)
FilesAgree(pairs) ==
  \A p, q \in pairs, s, t \in Side :
    FileOf(p, s) = FileOf(q, t) => DeclaredOf(p, s) = DeclaredOf(q, t)

FileRef(pairs) == [pair : pairs, side : Side]

(* A file that is not left to do is as declared, or being fetched again.   *)
Fetched ==
  /\ job.left \in Seq(FileRef(job.pairs))
  /\ job.tool = "fetch" => job.left # << >>
  /\ FilesAgree(job.pairs) =>
       \A f \in FileRef(job.pairs) :
         \/ f \in Range(job.left)
         \/ disk[FileOf(f.pair, f.side)] = DeclaredOf(f.pair, f.side)
         \/ job.tool = "fetch" /\ FileOf(f.pair, f.side) = NextPath

DownloadInv ==
  /\ DownloadsVerified
  /\ verified # {} => job.tool = "none"
  /\ job.tool \in {"download", "fetch"} => Fetched

LEMMA SelectionCovers ==
  ASSUME NEW pairs, pairs \subseteq Pair
  PROVE  /\ Selection(pairs) \in Seq(FileRef(pairs))
         /\ FileRef(pairs) \subseteq Range(Selection(pairs))
<1> DEFINE part(i) == IF PairOrder[i] \in pairs THEN Files(PairOrder[i]) ELSE << >>
           parts == [i \in DOMAIN PairOrder |-> part(i)]
<1>1. Len(PairOrder) \in Nat /\ DOMAIN PairOrder = 1 .. Len(PairOrder)
  BY ManifestAssumption
<1>2. ASSUME NEW i \in DOMAIN PairOrder  PROVE part(i) \in Seq(FileRef(pairs))
  <2>1. CASE PairOrder[i] \in pairs  BY <2>1 DEF Files, FileRef, Side
  <2>2. CASE PairOrder[i] \notin pairs  BY <2>2, EmptySeq
  <2> QED BY <2>1, <2>2
<1>3. parts \in Seq(Seq(FileRef(pairs))) /\ Len(parts) = Len(PairOrder)
  <2>1. \A i \in DOMAIN PairOrder : parts[i] \in Seq(FileRef(pairs))  BY <1>2
  <2> HIDE DEF part
  <2> QED BY <1>1, <2>1, SeqDef
<1>4. \A i \in 1 .. Len(parts) : parts[i] = part(i)  BY <1>1, <1>3
<1> HIDE DEF parts
<1>5. FlattenSeq(parts) \in Seq(FileRef(pairs))  BY <1>3, FlattenSeqType
<1>6. ASSUME NEW f \in FileRef(pairs)  PROVE f \in Range(FlattenSeq(parts))
  <2>1. f.pair \in pairs /\ f.side \in Side /\ f = [pair |-> f.pair, side |-> f.side]
    BY DEF FileRef
  <2>2. PICK i \in DOMAIN PairOrder : PairOrder[i] = f.pair  BY <2>1 DEF Pair
  <2>3. i \in 1 .. Len(parts) /\ parts[i] = Files(f.pair)  BY <1>1, <1>3, <1>4, <2>1, <2>2
  <2>4. f \in Range(Files(f.pair))
    <3> DEFINE two == Files(f.pair)
    <3>1. /\ 1 \in DOMAIN two /\ two[1] = [pair |-> f.pair, side |-> "old"]
          /\ 2 \in DOMAIN two /\ two[2] = [pair |-> f.pair, side |-> "new"]
      BY DEF Files
    <3> HIDE DEF two
    <3>2. f \in Range(two)  BY <2>1, <3>1 DEF Side, Range
    <3> QED BY <3>2 DEF two
  <2>5. Range(parts[i]) \subseteq Range(FlattenSeq(parts))  BY <1>3, <2>3, FlattenSeqCovers
  <2> QED BY <2>3, <2>4, <2>5
<1> QED BY <1>5, <1>6 DEF Selection, parts, part

(* The first of the files left, and what is left without it.               *)
LEMMA NextLeft ==
  ASSUME ShapeInv, Fetched, job.tool \in {"download", "fetch"}, job.left # << >>
  PROVE  /\ NextFile \in FileRef(job.pairs)
         /\ Tail(job.left) \in Seq(FileRef(job.pairs))
         /\ Range(job.left) \subseteq {NextFile} \cup Range(Tail(job.left))
         /\ NextPath = FileOf(NextFile.pair, NextFile.side) /\ NextPath \in DOMAIN disk
         /\ NextDeclared = DeclaredOf(NextFile.pair, NextFile.side)
<1> DEFINE left == job.left  rest == Tail(left)
<1>1. left \in Seq(FileRef(job.pairs)) /\ left # << >>  BY DEF Fetched
<1> HIDE DEF left
<1>2. /\ Head(left) \in FileRef(job.pairs) /\ rest \in Seq(FileRef(job.pairs))
      /\ Head(left) = left[1] /\ Len(left) \in Nat /\ DOMAIN left = 1 .. Len(left)
      /\ DOMAIN rest = 1 .. Len(left) - 1
      /\ \A i \in 1 .. Len(left) - 1 : rest[i] = left[i + 1]
  BY <1>1
<1> HIDE DEF rest
<1>3. ASSUME NEW i \in DOMAIN left, i # 1  PROVE left[i] \in Range(rest)
  <2>1. i - 1 \in DOMAIN rest /\ rest[i - 1] = left[i]  BY <1>2, <1>3
  <2> QED BY <2>1 DEF Range
<1>4. Range(left) \subseteq {Head(left)} \cup Range(rest)  BY <1>2, <1>3 DEF Range
<1>5. NextFile = Head(left)  BY DEF NextFile, left
<1>6. /\ NextFile.pair \in DOMAIN manifest["source"] /\ NextFile.side \in Side
      /\ Shaped(manifest["source"])
  BY <1>2, <1>5 DEF ShapeInv, SourceRead, FileRef, ManifestId
<1>7. manifest["source"][NextFile.pair].file \in [Side -> Path] /\ DOMAIN disk = Path
  BY <1>6 DEF ShapeInv, Shaped
<1>8. /\ NextPath = FileOf(NextFile.pair, NextFile.side) /\ NextPath \in DOMAIN disk
      /\ NextDeclared = DeclaredOf(NextFile.pair, NextFile.side)
  BY <1>6, <1>7 DEF NextPath, NextDeclared, NextEntry, FileOf, DeclaredOf
<1> QED BY <1>2, <1>4, <1>5, <1>8 DEF left, rest

LEMMA DownloadStep == ShapeInv /\ DownloadInv /\ [SuiteNext]_vars => DownloadInv'
<1> SUFFICES ASSUME ShapeInv, DownloadInv, [SuiteNext]_vars PROVE DownloadInv'  OBVIOUS
<1>0. DOMAIN job = {"tool", "pairs", "left", "force", "pending"}
  BY DEF ShapeInv, JobFields
<1>a. ASSUME verified' = {}  PROVE DownloadsVerified'
  BY <1>a DEF DownloadsVerified
<1>b. verified = {} \/ job.tool = "none"  BY DEF DownloadInv
<1>c. ASSUME job'.tool \notin {"download", "fetch"}, verified' = {}  PROVE DownloadInv'
  BY <1>a, <1>c DEF DownloadInv
<1>1. ASSUME NEW r \in Registrations, Register(r)  PROVE DownloadInv'
  BY <1>1, <1>c DEF Register, Start, Idle
<1>2. ASSUME NEW pairs \in SUBSET Pair \ {{}}, NEW force \in BOOLEAN,
             StartDownload(pairs, force)
      PROVE  DownloadInv'
  <2>1. /\ job'.tool = "download" /\ job'.pairs = pairs /\ job'.left = Selection(pairs)
        /\ verified' = {}
    BY <1>2 DEF StartDownload, Start, Idle
  <2>2. /\ Selection(pairs) \in Seq(FileRef(pairs))
        /\ FileRef(pairs) \subseteq Range(Selection(pairs))
    BY SelectionCovers
  <2>3. Fetched'  BY <2>1, <2>2 DEF Fetched, FileRef
  <2> QED BY <1>a, <2>1, <2>3 DEF DownloadInv
<1>3. CASE KeepExisting
  <2>1. /\ job.tool = "download" /\ job.left # << >> /\ disk[NextPath] = NextDeclared
        /\ job' = [job EXCEPT !.left = Tail(@)]
        /\ disk' = disk /\ manifest' = manifest /\ verified' = verified
    BY <1>3 DEF KeepExisting, Downloading, DropFile, ExistingAccepted
  <2>2. Fetched /\ verified = {}  BY <1>b, <2>1 DEF DownloadInv
  <2>3. job'.tool = "download" /\ job'.pairs = job.pairs /\ job'.left = Tail(job.left)
    BY <1>0, <2>1
  <2>4. Fetched'
    BY <2>1, <2>2, <2>3, NextLeft, SMTT(30) DEF Fetched, FileRef, FilesAgree, FileOf, DeclaredOf
  <2> QED BY <1>a, <2>1, <2>2, <2>4 DEF DownloadInv
<1>4. ASSUME NEW c \in Original, BeginFetch(c)  PROVE DownloadInv'
  <2>1. /\ job.tool = "download" /\ job.left # << >>
        /\ disk' = [disk EXCEPT ![NextPath] = Partial(c)]
        /\ job' = [job EXCEPT !.tool = "fetch", !.pending = c]
        /\ manifest' = manifest /\ verified' = verified
    BY <1>4 DEF BeginFetch, Downloading
  <2>2. Fetched /\ verified = {}  BY <1>b, <2>1 DEF DownloadInv
  <2>3. job'.tool = "fetch" /\ job'.pairs = job.pairs /\ job'.left = job.left
    BY <1>0, <2>1
  <2>4. NextPath' = NextPath
    BY <2>1, <2>3 DEF NextPath, NextEntry, NextFile
  <2>5. \A x : x # NextPath => disk'[x] = disk[x]  BY <2>1
  <2>6. Fetched'
    BY <2>1, <2>2, <2>3, <2>4, <2>5 DEF Fetched, FileRef, FilesAgree, FileOf, DeclaredOf
  <2> QED BY <1>a, <2>1, <2>2, <2>6 DEF DownloadInv
<1>5. CASE EndFetch
  <2>1. /\ job.tool = "fetch" /\ disk' = [disk EXCEPT ![NextPath] = job.pending]
        /\ manifest' = manifest /\ verified' = verified
    BY <1>5 DEF EndFetch
  <2>2. Fetched /\ verified = {}  BY <1>b, <2>1 DEF DownloadInv
  <2>3. CASE job.pending # NextDeclared
    <3>1. job' = Idle  BY <1>5, <2>3 DEF EndFetch
    <3> QED BY <1>c, <2>1, <2>2, <3>1 DEF Idle
  <2>4. CASE job.pending = NextDeclared
    <3>1. job' = [job EXCEPT !.tool = "download", !.pending = << >>, !.left = Tail(@)]
      BY <1>5, <2>4 DEF EndFetch
    <3>2. /\ job'.tool = "download" /\ job'.pairs = job.pairs
          /\ job'.left = Tail(job.left)
      BY <1>0, <3>1
    <3>3. job.left # << >>  BY <2>1, <2>2 DEF Fetched
    <3>4. /\ NextFile \in FileRef(job.pairs)
          /\ Tail(job.left) \in Seq(FileRef(job.pairs))
          /\ Range(job.left) \subseteq {NextFile} \cup Range(Tail(job.left))
          /\ NextPath = FileOf(NextFile.pair, NextFile.side) /\ NextPath \in DOMAIN disk
          /\ NextDeclared = DeclaredOf(NextFile.pair, NextFile.side)
      BY <2>1, <2>2, <3>3, NextLeft
    <3>5. /\ disk'[NextPath] = NextDeclared
          /\ \A x : x # NextPath => disk'[x] = disk[x]
      BY <2>1, <2>4, <3>4
    <3>6. /\ \A p, s : FileOf(p, s)' = FileOf(p, s)
          /\ \A p, s : DeclaredOf(p, s)' = DeclaredOf(p, s)
          /\ FilesAgree(job.pairs)' <=> FilesAgree(job.pairs)
      BY <2>1, <3>2 DEF FileOf, DeclaredOf, FilesAgree
    <3>7. ASSUME FilesAgree(job.pairs), NEW f \in FileRef(job.pairs),
                 f \notin Range(Tail(job.left))
          PROVE  disk'[FileOf(f.pair, f.side)] = DeclaredOf(f.pair, f.side)
      <4>1. CASE FileOf(f.pair, f.side) = NextPath
        <5>1. DeclaredOf(f.pair, f.side) = NextDeclared
          BY <3>4, <3>7, <4>1 DEF FilesAgree, FileRef
        <5> QED BY <3>5, <4>1, <5>1
      <4>2. CASE FileOf(f.pair, f.side) # NextPath
        <5>1. f # NextFile  BY <3>4, <4>2
        <5>2. disk[FileOf(f.pair, f.side)] = DeclaredOf(f.pair, f.side)
          BY <2>2, <3>4, <3>7, <4>2, <5>1 DEF Fetched
        <5> QED BY <3>5, <4>2, <5>2
      <4> QED BY <4>1, <4>2
    <3>8. Fetched'
      BY <3>2, <3>4, <3>6, <3>7 DEF Fetched, FileRef
    <3> QED BY <1>a, <2>1, <2>2, <3>2, <3>8 DEF DownloadInv
  <2> QED BY <2>3, <2>4
<1>6. CASE RefuseFile
  BY <1>6, <1>b, <1>c DEF RefuseFile, Downloading, End, Idle
<1>7. CASE EndDownload
  <2>1. /\ job.tool = "download" /\ job.left = << >> /\ job' = Idle
        /\ verified' = job.pairs /\ disk' = disk /\ manifest' = manifest
    BY <1>7 DEF EndDownload, End
  <2>2. Fetched  BY <2>1 DEF DownloadInv
  <2>3. Range(job.left) = {}  BY <2>1 DEF Range
  <2>4. ASSUME FilesAgree(job.pairs), NEW p \in job.pairs, NEW s \in Side
        PROVE  disk[FileOf(p, s)] = DeclaredOf(p, s)
    <3> DEFINE f == [pair |-> p, side |-> s]
    <3>1. f \in FileRef(job.pairs) /\ f.pair = p /\ f.side = s  BY DEF FileRef
    <3> HIDE DEF f
    <3> QED BY <2>1, <2>2, <2>3, <2>4, <3>1 DEF Fetched
  <2>5. DownloadsVerified'
    BY <2>1, <2>4 DEF DownloadsVerified, FilesAgree, FileOf, DeclaredOf
  <2> QED BY <2>1, <2>5 DEF DownloadInv, Idle
<1>8. ASSUME NEW p \in Pair, StartDerive(p)  PROVE DownloadInv'
  BY <1>8, <1>c DEF StartDerive, Start, Idle
<1>9. CASE DeriveFile  BY <1>0, <1>9, <1>b, <1>c DEF DeriveFile
<1>10. CASE BeginDerived  BY <1>0, <1>10, <1>b, <1>c DEF BeginDerived
<1>11. CASE EndManifest("register", "source")
  BY <1>11, <1>b, <1>c DEF EndManifest, End, Idle
<1>12. CASE EndManifest("derived", "rootfs")
  BY <1>12, <1>b, <1>c DEF EndManifest, End, Idle
<1>13. ASSUME NEW ms \in Selections, StartSuite(ms)  PROVE DownloadInv'
  BY <1>13, <1>c DEF StartSuite, Start, Idle
<1>14. ASSUME NEW status, AttemptFails(status)  PROVE DownloadInv'
  BY <1>14, <1>b, <1>c DEF AttemptFails, Attempting, manifestVars
<1>15. ASSUME NEW r, AttemptReturns(r)  PROVE DownloadInv'
  BY <1>15, <1>b, <1>c DEF AttemptReturns, Attempting, manifestVars
<1>16. CASE FilterResults  BY <1>0, <1>16, <1>b, <1>c DEF FilterResults
<1>17. CASE OpenOutput  BY <1>0, <1>17, <1>b, <1>c DEF OpenOutput
<1>18. CASE CloseOutput  BY <1>0, <1>18, <1>b, <1>c DEF CloseOutput
<1>19. CASE EndSuite  BY <1>19, <1>b, <1>c DEF EndSuite, End, Idle
<1>20. CASE Stop  BY <1>20, <1>b, <1>c DEF Stop, Crash, End, Idle
<1>21. CASE UNCHANGED vars
  BY <1>21, SMTT(30) DEF vars, manifestVars, DownloadInv, DownloadsVerified, Fetched, FileRef, FilesAgree,
               FileOf, DeclaredOf, NextPath, NextEntry, NextFile
<1> QED
  BY <1>1, <1>2, <1>3, <1>4, <1>5, <1>6, <1>7, <1>8, <1>9, <1>10, <1>11, <1>12, <1>13, <1>14,
     <1>15, <1>16, <1>17, <1>18, <1>19, <1>20, <1>21
  DEF SuiteNext, ManifestStep

(* A download that ends well leaves the files of the pairs it processed as *)
(* the manifest declares them, whatever interrupted, wrong or forced ones  *)
(* left there before, if these pairs do not contradict one another         *)
(* (_download_pair).                                                       *)
THEOREM DownloadsCorrect == SuiteSpec => []DownloadsVerified
<1>1. SuiteInit => DownloadInv
  BY DEF SuiteInit, ManifestInit, Idle, DownloadInv, DownloadsVerified
<1>2. DownloadInv => DownloadsVerified  BY DEF DownloadInv
<1> QED BY ShapeStarts, ShapeStep, DownloadStep, <1>1, <1>2, PTL DEF SuiteSpec
=============================================================================
