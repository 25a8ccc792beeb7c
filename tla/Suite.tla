------------------------------- MODULE Suite -------------------------------
(***************************************************************************)
(* run_benchmark_suite.py over the manifests of module Manifest: the       *)
(* matrix of attempts, the attempt ledger, the filter of learned results,  *)
(* the four output files of one directory, and how make_paper_reports.py   *)
(* reads two of them.  Later suites write over the files of earlier ones.  *)
(*                                                                         *)
(* Result rows are a set: their order is that of their indices, which the  *)
(* program keeps beside them and leaves out of the files.                  *)
(***************************************************************************)
EXTENDS Manifest

CONSTANTS
  Settings,        \* block size, deployment, interruptions and seed, in order
  Policies,        \* [name, learned], in the order of the command line
  ReportAllLearned,\* --report-all-learned
  Outcomes,        \* the results run_policy may return
  Selections,      \* the manifests a suite may be started with
  MaxAttempts      \* bound on the attempts of a suite, times its number

(* A result: replay_errors, replay_validity, completed; and, of a learned  *)
(* policy, that it improves on or complements the deterministic ones.      *)
Returned ==
  {r \in [errors : BOOLEAN, valid : BOOLEAN, completed : BOOLEAN,
          better : BOOLEAN] : r.errors => ~r.valid}

ASSUME SuiteAssumption ==
  /\ ReportAllLearned \in BOOLEAN
  /\ Settings \in Seq(Range(Settings)) /\ Policies \in Seq(Range(Policies))
  /\ Selections \subseteq Seq(ManifestId)
  /\ Outcomes \subseteq Returned
  /\ MaxAttempts \in Nat

VARIABLES
  jobs,     \* the attempts of the suite that runs, in order
  ledger,   \* one row per attempt made
  results,  \* one row per attempt that returned a result
  written,  \* how many files the suite has opened
  outputs,  \* the files of the output directory
  suites    \* how many suites were started

localVars == <<jobs, ledger, results, written>>
suiteVars == <<localVars, outputs, suites>>
vars == <<manifestVars, suiteVars>>

Output == {"jsonl", "csv", "markdown", "attempt_ledger"}

(* A file: the suite that wrote it, its rows, and whether the suite closed *)
(* it.  Of the rows of a file left open nothing is said.                   *)
NoFile == [suite |-> 0, rows |-> {}, closed |-> FALSE]

SuiteInit ==
  /\ ManifestInit
  /\ jobs = <<>>
  /\ ledger = <<>>
  /\ results = {}
  /\ written = 0
  /\ outputs = [f \in Output |-> NoFile]
  /\ suites = 0

(***************************************************************************)
(* The matrix: manifests, their enabled pairs, settings, policies.         *)
(***************************************************************************)
Cells(m, p) ==
  FlattenSeq([i \in DOMAIN Settings |->
    [j \in DOMAIN Policies |->
      [manifest |-> m, pair |-> p, setting |-> Settings[i],
       policy |-> Policies[j]]]])

Matrix(m) ==
  FlattenSeq([i \in DOMAIN PairOrder |->
    IF PairOrder[i] \in EnabledPairs(m) THEN Cells(m, PairOrder[i]) ELSE << >>])

StartSuite(ms) ==
  /\ \A i \in DOMAIN ms : Loads(ms[i])
  /\ suites' = suites + 1
  /\ Start([Idle EXCEPT !.tool = "suite"])
  /\ jobs' = FlattenSeq([i \in DOMAIN ms |-> Matrix(ms[i])])
  /\ suites' * Len(jobs') <= MaxAttempts
  /\ ledger' = <<>>
  /\ results' = {}
  /\ written' = 0
  /\ UNCHANGED <<disk, manifest, outputs>>

(***************************************************************************)
(* One attempt: run_policy returns a result, times out or raises.          *)
(***************************************************************************)
Attempting == job.tool = "suite" /\ Len(ledger) < Len(jobs)
NextIndex == Len(ledger) + 1
NextCell == jobs[NextIndex]

(* _attempt_run_id: the index tells attempts of one name apart.            *)
RunId(i, cell) ==
  <<i, cell.manifest, cell.pair, cell.setting, cell.policy.name>>

LedgerRow(status) ==
  [id |-> RunId(NextIndex, NextCell), status |-> status, written |-> FALSE]

(* The artifacts that the cell names.                                      *)
Inputs(cell) ==
  [s \in Side |-> disk[manifest[cell.manifest][cell.pair].file[s]]]

ResultRow(r) ==
  [index |-> NextIndex, id |-> RunId(NextIndex, NextCell), cell |-> NextCell,
   result |-> r, ran |-> Inputs(NextCell)]

(* _classify_result_status.                                                *)
Classify(r) ==
  CASE r.errors -> "failed_replay"
    [] ~r.errors /\ ~r.valid -> "invalid_replay"
    [] ~r.errors /\ r.valid /\ ~r.completed -> "error"
    [] OTHER -> "completed"

AttemptFails(status) ==
  /\ Attempting
  /\ ledger' = Append(ledger, LedgerRow(status))
  /\ UNCHANGED <<manifestVars, jobs, results, written, outputs, suites>>

AttemptReturns(r) ==
  /\ Attempting
  /\ r.better => NextCell.policy.learned
  /\ ledger' = Append(ledger, LedgerRow(Classify(r)))
  /\ results' = results \cup {ResultRow(r)}
  /\ UNCHANGED <<manifestVars, jobs, written, outputs, suites>>

(***************************************************************************)
(* The filter: a learned result is reported when it beats or complements   *)
(* the deterministic results of the same comparison key.                   *)
(* The code takes the name of the manifest for its identity, the model the *)
(* manifest itself: manifests of one name would share their keys.          *)
(***************************************************************************)
\* Variant: the key leaves out the pair.
KeyWithoutPair(cell) == <<cell.manifest, cell.setting>>

ComparisonKey(cell) == <<cell.manifest, cell.pair, cell.setting>>

CompletedReplay(row) == row.result.completed /\ row.result.valid

Baselines(row) ==
  {b \in results :
     ~b.cell.policy.learned /\ ComparisonKey(b.cell) = ComparisonKey(row.cell)}

(* learned_comparison_reason gives one.                                    *)
HasReason(row) ==
  /\ Baselines(row) # {}
  /\ CompletedReplay(row)
  /\ \/ \E b \in Baselines(row) : ~CompletedReplay(b)
     \/ row.result.better

Reported(row) ==
  row.cell.policy.learned => ReportAllLearned \/ HasReason(row)

(* update_attempt_ledger_for_reported_results, for one row.                *)
Mark(row) ==
  LET mine == {r \in results : r.id = row.id}
  IN  IF \E r \in mine : Reported(r) THEN [row EXCEPT !.written = TRUE]
      ELSE IF mine # {} THEN [row EXCEPT !.status = "excluded"]
      ELSE row

FilterResults ==
  /\ job.tool = "suite"
  /\ Len(ledger) = Len(jobs)
  /\ job' = [job EXCEPT !.tool = "outputs"]
  /\ results' = {r \in results : Reported(r)}
  /\ ledger' = [i \in DOMAIN ledger |-> Mark(ledger[i])]
  /\ UNCHANGED <<disk, manifest, verified, runs, jobs, written,
                 outputs, suites>>

(***************************************************************************)
(* The four files, one after the other; each is truncated, then filled.    *)
(***************************************************************************)
\* Variant: the ledger is written before the result rows.
LedgerFirst == <<"attempt_ledger", "csv", "markdown", "jsonl">>

WriteOrder == <<"jsonl", "csv", "markdown", "attempt_ledger">>

Content(f) == IF f = "attempt_ledger" THEN ledger ELSE results

OpenOutput ==
  /\ job.tool = "outputs"
  /\ written < Len(WriteOrder)
  /\ written' = written + 1
  /\ job' = [job EXCEPT !.tool = "open"]
  /\ outputs' = [outputs EXCEPT ![WriteOrder[written + 1]] =
       [suite |-> suites, rows |-> {}, closed |-> FALSE]]
  /\ UNCHANGED <<disk, manifest, verified, runs, jobs, ledger, results, suites>>

CloseOutput ==
  /\ job.tool = "open"
  /\ job' = [job EXCEPT !.tool = "outputs"]
  /\ outputs' = [outputs EXCEPT ![WriteOrder[written]] =
       [suite |-> suites, rows |-> Content(WriteOrder[written]),
        closed |-> TRUE]]
  /\ UNCHANGED <<disk, manifest, verified, runs, localVars, suites>>

Forget == jobs' = <<>> /\ ledger' = <<>> /\ results' = {} /\ written' = 0

EndSuite ==
  /\ job.tool = "outputs"
  /\ written = Len(WriteOrder)
  /\ End
  /\ Forget
  /\ UNCHANGED <<disk, manifest, verified, outputs, suites>>

(* Whatever runs stops, and its memory is gone.                            *)
Stop ==
  /\ Crash
  /\ Forget
  /\ UNCHANGED <<outputs, suites>>

SuiteNext ==
  \/ ManifestStep /\ UNCHANGED suiteVars
  \/ \E ms \in Selections : StartSuite(ms)
  \/ \E status \in {"timeout", "error"} : AttemptFails(status)
  \/ \E r \in Outcomes : AttemptReturns(r)
  \/ FilterResults
  \/ OpenOutput
  \/ CloseOutput
  \/ EndSuite
  \/ Stop

SuiteSpec == SuiteInit /\ [][SuiteNext]_vars

(***************************************************************************)
(* make_paper_reports.py compares what the ledger says was written with    *)
(* the result rows it reads beside it.                                     *)
(***************************************************************************)
ResultRowsMatchReported(rows, found) ==
  Cardinality({i \in DOMAIN rows : rows[i].written}) = Cardinality(found)

(***************************************************************************)
(* Properties.                                                             *)
(***************************************************************************)

(* What is on disk as the source manifest is the rest of an interrupted    *)
(* write or describes every enabled real pair completely: register         *)
(* validates what it will write before it writes it.                       *)
EnabledPairsDescribed ==
  manifest["source"] # Torn => SchemaValid(manifest["source"])

(* After a download that reported success, the files of the pairs it       *)
(* processed are what the manifest declares, whatever earlier downloads    *)
(* left behind, and with --force too, provided that no two of these pairs  *)
(* declare different contents for a file they share.                       *)
DeclaredOf(p, s) == manifest["source"][p].declared[s]
FileOf(p, s) == manifest["source"][p].file[s]

DownloadsVerified ==
  (\A p, q \in verified, s, t \in Side :
     FileOf(p, s) = FileOf(q, t) => DeclaredOf(p, s) = DeclaredOf(q, t))
  => \A p \in verified, s \in Side : disk[FileOf(p, s)] = DeclaredOf(p, s)

(* A suite runs real pairs on exactly the contents declared, never on what *)
(* an interrupted download or derivation left at the same path.            *)
Measuring == job.tool \in {"suite", "outputs", "open"}

RunsWhatIsDeclared ==
  Measuring =>
    \A r \in results :
      r.cell.pair \in Real =>
        r.ran = manifest[r.cell.manifest][r.cell.pair].declared

(* The result rows and the ledger rows of one suite, completely written,   *)
(* account for each other: a row says that its result is written exactly   *)
(* when there is one, completed rows are written results that replay to    *)
(* the target, and failed or excluded attempts have none.                  *)
Accounts(rows, found) ==
  /\ \A i, k \in DOMAIN rows : rows[i].id = rows[k].id => i = k
  /\ {rows[i].id : i \in {k \in DOMAIN rows : rows[k].written}} =
       {r.id : r \in found}
  /\ \A i \in DOMAIN rows :
       /\ rows[i].status = "completed" =>
            \E r \in found : r.id = rows[i].id /\ CompletedReplay(r)
       /\ rows[i].status \in {"timeout", "excluded"} => ~rows[i].written
  /\ ResultRowsMatchReported(rows, found)

(* A ledger is closed last: with result rows of the same suite beside it,  *)
(* all four files are complete and of this suite, and ledger and results   *)
(* account for each other, whatever earlier suites and crashes left.       *)
LedgerAccounts ==
  LET l == outputs["attempt_ledger"]
      j == outputs["jsonl"]
  IN  l.closed /\ l.suite = j.suite =>
        /\ \A f \in {"jsonl", "csv", "markdown"} :
             outputs[f] = [suite |-> l.suite, rows |-> j.rows, closed |-> TRUE]
        /\ Accounts(l.rows, j.rows)

(* Unless all are asked for, a learned row in a result file completed with *)
(* a valid replay, and the same file holds a deterministic row of the same *)
(* pair and setting that it was compared with.                             *)
LearnedRowsCompared ==
  outputs["jsonl"].closed /\ ~ReportAllLearned =>
    \A r \in outputs["jsonl"].rows :
      r.cell.policy.learned =>
        /\ CompletedReplay(r)
        /\ \E b \in outputs["jsonl"].rows :
             /\ ~b.cell.policy.learned
             /\ b.cell.manifest = r.cell.manifest
             /\ b.cell.pair = r.cell.pair
             /\ b.cell.setting = r.cell.setting

=============================================================================
