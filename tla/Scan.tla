-------------------------------- MODULE Scan --------------------------------
(***************************************************************************)
(* scan.run: the approved goals, the codebase map of the scan, the goal    *)
(* batches that run through the provider, the one retry of a batch and the *)
(* merge of what came back (analyzer/scan.rs, service/scan.rs).            *)
(*                                                                         *)
(* What a provider run returns is a kind of result; a single run of the    *)
(* provider is the subject of ProviderRunner, the report's own rules that  *)
(* of Materialize.                                                         *)
(***************************************************************************)
EXTENDS Naturals, FiniteSets

CONSTANTS
    MaxGoals,       \* bound: goals of a scan
    RecordedGoals,  \* bound: goals of a scan that is recorded in a workspace
    PerBatch,       \* GOALS_PER_PROVIDER_BATCH
    Concurrency,    \* MAX_CONCURRENT_PROVIDER_BATCHES
    RetryLimit,     \* MAX_RETRIED_PROVIDER_BATCHES
    NoReport

Reports == [decided : SUBSET Nat, unverified : SUBSET Nat, redacted : BOOLEAN,
            degraded : SUBSET Nat, seeded : BOOLEAN, partial : BOOLEAN]

ASSUME ScanAssumption ==
    /\ MaxGoals \in Nat /\ RecordedGoals \in Nat /\ PerBatch \in Nat \ {0} /\ Concurrency \in Nat
    /\ RetryLimit \in Nat /\ NoReport \notin Reports

VARIABLES
    inWorkspace,    \* the request names a workspace
    goals,          \* number of goals of the scan
    scanStage,      \* where the scan is
    earlier,        \* the workspace has reports of earlier analyses
    started,        \* the marks of the start in the ledger: "analysis", "repeat"
    map,            \* "none", "seeded", "unsaved" or "missing"
    waiting,        \* batches of the round that have not been started, lowest first
    flying,         \* batches whose provider run is under way
    attempt,        \* the round: 1, then 2 for the retries
    first,          \* what the first attempt of a batch returned
    second,         \* what its retry returned
    report,         \* the report, once there is one
    saved,          \* what of the report is in the ledger: "report", "marks"
    reply           \* how the request was answered

scanVars == <<inWorkspace, goals, earlier, scanStage, started, map, waiting, flying, attempt,
              first, second, report, saved, reply>>
scanSetting == <<inWorkspace, goals, earlier>>
batchVars == <<waiting, flying, attempt, first, second>>

\* provider_batch_ranges
BatchCount == (goals + PerBatch - 1) \div PerBatch
Batches == 1 .. BatchCount
BatchOf(g) == (g - 1) \div PerBatch + 1
GoalsOf(b) == {g \in 1 .. goals : BatchOf(g) = b}

(* What a provider run of a batch may end with.                             *)
(*   good     every goal assessed on evidence, nothing to object            *)
(*   omits    the last of the batch's goals is not assessed                 *)
(*   copied   a Partial rationale repeats repository text                   *)
(*   bare     goals are assessed, no criterion cites evidence               *)
(*   invalid  the evidence or the narrative does not pass validation        *)
(*   empty, shape    no assessment at all; not the analysis schema          *)
(*   failed, fatal   the run failed; it failed as every run would           *)
Values == {"good", "omits", "copied", "bare", "invalid", "empty", "shape"}
Errors == {"failed", "fatal"}

\* provider_batch_is_fatal: not installed, not started, not authenticated, at
\* a usage limit or without read-only permissions.
Fatal(r) == r = "fatal"

\* provider_batch_result_needs_retry, and the errors that are not fatal.
NeedsRetry(r) == r \in {"shape", "empty", "bare", "copied", "failed"}

ScanInit ==
    /\ inWorkspace \in BOOLEAN /\ goals \in 0 .. MaxGoals /\ earlier \in BOOLEAN
    /\ inWorkspace => goals <= RecordedGoals
    /\ earlier => inWorkspace
    /\ scanStage = "goals" /\ started = {} /\ map = "none"
    /\ waiting = {} /\ flying = {} /\ attempt = 0 /\ first = <<>> /\ second = <<>>
    /\ report = NoReport /\ saved = {} /\ reply = ""

Replies(code) == scanStage' = "answered" /\ reply' = code
Goes(s) == scanStage' = s /\ UNCHANGED reply

-----------------------------------------------------------------------------
(* apply_approved_goals: the goals are those of the workspace, and refused  *)
(* when there are none or the set is not ready.                             *)
ApplyApprovedGoals ==
    /\ scanStage = "goals"
    /\ IF ~inWorkspace THEN Goes("map")
       ELSE \/ goals > 0 /\ Goes("start")
            \/ goals = 0 /\ Replies("approved_goals_required")
            \/ Replies("goal_set_incomplete")
            \/ Replies("workspace_load_failed")
    /\ UNCHANGED <<scanSetting, started, map, batchVars, report, saved>>

(* record_analysis_started, before any provider runs: the mark of the start *)
(* and, where there are earlier reports, of a repeated analysis.  A failure *)
(* or the end of the process may have left the first of them, or all.       *)
RecordStarted ==
    /\ scanStage = "start"
    /\ LET marks == IF earlier THEN {"analysis", "repeat"} ELSE {"analysis"}
       IN  \/ started' = marks /\ Goes("map")
           \/ /\ started' \in {{}, {"analysis"}, marks}
              /\ \E end \in {"instrumentation_persistence_failed", "killed"} : Replies(end)
    /\ UNCHANGED <<scanSetting, map, batchVars, report, saved>>

(* ensure_codebase_map: reused or generated, generated and not saved, or    *)
(* missing; it never fails the scan.                                        *)
EnsureMap ==
    /\ scanStage = "map"
    /\ map' \in IF inWorkspace THEN {"seeded", "unsaved", "missing"} ELSE {"none"}
    /\ Goes("prepare")
    /\ UNCHANGED <<scanSetting, started, batchVars, report, saved>>

(* run_scan_with_map up to the first batch: goals and repositories are      *)
(* validated, the repositories cloned, the provider looked for.             *)
Prepare ==
    /\ scanStage = "prepare"
    /\ \/ /\ goals > 0
          /\ attempt' = 1 /\ waiting' = Batches
          /\ first' = [b \in Batches |-> ""] /\ second' = [b \in Batches |-> ""]
          /\ Goes("batches")
       \/ UNCHANGED <<attempt, waiting, first, second>> /\ Replies("scan_failed")
    /\ UNCHANGED <<scanSetting, started, map, flying, report, saved>>

(* buffer_unordered starts the next batch while there is room.              *)
StartBatch ==
    /\ scanStage = "batches" /\ Cardinality(flying) < Concurrency
    /\ \E b \in waiting :
          /\ \A c \in waiting : b <= c
          /\ flying' = flying \cup {b} /\ waiting' = waiting \ {b}
    /\ UNCHANGED <<scanSetting, scanStage, started, map, attempt, first, second, report,
                   saved, reply>>

(* A provider run ends, in any order.                                       *)
BatchEnds(b, r) ==
    /\ scanStage = "batches" /\ b \in flying
    /\ r = "omits" => Cardinality(GoalsOf(b)) > 1
    /\ flying' = flying \ {b}
    /\ IF attempt = 1 THEN first' = [first EXCEPT ![b] = r] /\ UNCHANGED second
       ELSE second' = [second EXCEPT ![b] = r] /\ UNCHANGED first
    /\ UNCHANGED <<scanSetting, scanStage, started, map, waiting, attempt, report, saved,
                   reply>>

\* The lowest retryable batches, at most RetryLimit of them.
Retries ==
    LET retryable == {b \in Batches : NeedsRetry(first[b])}
    IN  {b \in retryable : Cardinality({c \in retryable : c < b}) < RetryLimit}

(* Every batch has run once: the retries, without the fatal failures.       *)
BeginRetries ==
    /\ scanStage = "batches" /\ attempt = 1 /\ waiting = {} /\ flying = {}
    /\ attempt' = 2 /\ waiting' = Retries
    /\ UNCHANGED <<scanSetting, scanStage, started, map, flying, first, second, report,
                   saved, reply>>

\* Mutant: a retry always replaces the first result.
RetryWins(b) == IF second[b] # "" THEN second[b] ELSE first[b]

\* A retry replaces the first result unless it failed where that succeeded.
Result(b) == IF second[b] \in Values \/ (second[b] \in Errors /\ first[b] \in Errors)
             THEN second[b] ELSE first[b]

LastGoal(b) == CHOOSE g \in GoalsOf(b) : \A h \in GoalsOf(b) : h <= g

\* The goals whose assessments of batch b go into the report.
Merged(b) ==
    CASE Result(b) \in {"good", "copied", "bare"} -> GoalsOf(b)
      [] Result(b) = "omits" -> GoalsOf(b) \ {LastGoal(b)}
      [] OTHER -> {}

\* Batches of which the report says that they were not complete.
Degraded(b) == Result(b) \in {"failed", "shape", "empty", "omits", "invalid"}

\* The report of the merged results: goals no batch answered, or answered
\* without evidence, are unverified; a repeated text is redacted.
Materialized ==
    LET assessed == UNION {Merged(b) : b \in Batches}
        grounded == {g \in assessed : Result(BatchOf(g)) # "bare"}
    IN  [decided  |-> grounded,
         unverified |-> (1 .. goals) \ grounded,
         redacted |-> \E b \in Batches : Result(b) = "copied",
         degraded |-> {b \in Batches : Degraded(b)},
         seeded   |-> map \in {"seeded", "unsaved"},
         partial  |-> \/ grounded # 1 .. goals
                      \/ \E b \in Batches : Degraded(b) \/ Result(b) = "copied"
                      \/ map = "missing"]

(* The merge: a fatal failure ends the scan, the report is built once, and  *)
(* a scan without its map is partial.                                       *)
Merge ==
    /\ scanStage = "batches" /\ attempt = 2 /\ waiting = {} /\ flying = {}
    /\ IF \E b \in Batches : Fatal(Result(b))
       THEN report' = NoReport /\ Replies("provider_failed")
       ELSE \/ report' = Materialized /\ Goes("save")
            \/ report' = NoReport /\ Replies("scan_failed")
    /\ UNCHANGED <<scanSetting, started, map, batchVars, saved>>

(* The report is answered without a workspace to record it in.              *)
AnswerUnsaved ==
    /\ scanStage = "save" /\ ~inWorkspace
    /\ Replies("ok")
    /\ UNCHANGED <<scanSetting, started, map, batchVars, report, saved>>

(* record_report_with_repositories: the repositories are attached again,    *)
(* the report is validated and appended.  A failure may come before the     *)
(* append or leave the report there.                                        *)
AppendReport ==
    /\ scanStage = "save" /\ inWorkspace
    /\ \/ saved' = {"report"} /\ Goes("marks")
       \/ saved' \in {{}, {"report"}} /\ Replies("report_persistence_failed")
    /\ UNCHANGED <<scanSetting, started, map, batchVars, report>>

(* The events that follow the report: the product events and the actions it *)
(* verifies or reopens.  A failure among them leaves the report recorded,   *)
(* and the last of them may be there although its sync failed.              *)
AppendMarks ==
    /\ scanStage = "marks"
    /\ \/ saved' = saved \cup {"marks"} /\ Replies("ok")
       \/ saved' \in {saved, saved \cup {"marks"}} /\ Replies("report_persistence_failed")
    /\ UNCHANGED <<scanSetting, started, map, batchVars, report>>

(* The desktop cancels the scan: its process is ended.                      *)
ScanKilled ==
    /\ scanStage # "answered"
    /\ Replies("killed")
    /\ UNCHANGED <<scanSetting, started, map, batchVars, report, saved>>

ScanNext ==
    \/ ApplyApprovedGoals \/ RecordStarted \/ EnsureMap \/ Prepare \/ StartBatch
    \/ \E b \in flying, r \in Values \cup Errors : BatchEnds(b, r)
    \/ BeginRetries \/ Merge \/ AnswerUnsaved \/ AppendReport \/ AppendMarks \/ ScanKilled

-----------------------------------------------------------------------------
ScanTypeOK ==
    /\ scanStage \in {"goals", "start", "map", "prepare", "batches", "save", "marks",
                     "answered"}
    /\ started \subseteq {"analysis", "repeat"} /\ saved \subseteq {"report", "marks"}
    /\ waiting \subseteq Batches /\ flying \subseteq Batches /\ attempt \in 0 .. 2

(* The provider runs of a scan are bounded: no more at a time, no batch     *)
(* twice at once, no retry of a fatal failure or of a good result, and no   *)
(* more retries than the limit.                                             *)
RunsBounded ==
    /\ Cardinality(flying) <= Concurrency
    /\ waiting \cap flying = {}
    /\ attempt > 0 => Cardinality({b \in Batches : second[b] # ""}) <= RetryLimit
    /\ attempt = 2 => \A b \in flying \cup {c \in Batches : second[c] # ""} : NeedsRetry(first[b])

(* failed_rewrite_preserves_the_usable_initial_result: a goal that the      *)
(* first attempt decided is decided in the report unless the retry came     *)
(* back with another answer.                                                *)
DecidedNotLost ==
    report # NoReport =>
        \A g \in 1 .. goals :
            first[BatchOf(g)] \in {"good", "copied"} /\ second[BatchOf(g)] \notin Values
                => g \in report.decided

(* A report that is not partial has a decision on every goal, each from a   *)
(* run of the goal's own batch that passed every check, and was seeded with *)
(* a map where it has a workspace; a scan of any lesser kind says so.       *)
WholeOrPartial ==
    report # NoReport =>
        /\ report.decided \cup report.unverified = 1 .. goals
        /\ ~report.partial =>
              /\ \A g \in 1 .. goals : "good" \in {first[BatchOf(g)], second[BatchOf(g)]}
              /\ report.degraded = {} /\ (inWorkspace => report.seeded)

(* A failure every run would share ends the scan when no answer of its      *)
(* batch exists; a failure of one run never does.                           *)
OnlyFatalFails ==
    /\ reply = "provider_failed" => \E b \in Batches : "fatal" \in {first[b], second[b]}
    /\ report # NoReport => \A b \in Batches : first[b] # "fatal"

(* What is in the ledger was begun there: every provider run of a workspace *)
(* comes after the marks of its start, a report is recorded after the runs, *)
(* and the events that follow it only after it.  An answer of success means *)
(* that all of it is there; an answer that the report was not persisted     *)
(* does not mean that it is not, and no other failure leaves a report.      *)
SavedWasStarted ==
    /\ inWorkspace /\ attempt > 0 => "analysis" \in started /\ (earlier => "repeat" \in started)
    /\ "repeat" \in started => earlier /\ "analysis" \in started
    /\ saved # {} => inWorkspace /\ attempt = 2 /\ report # NoReport /\ "report" \in saved
    /\ saved # {} => reply \in {"", "ok", "report_persistence_failed", "killed"}
    /\ inWorkspace /\ reply = "ok" => saved = {"report", "marks"}

(* A scan asks the provider a bounded number of times, loses no decision to *)
(* a failed retry, and is complete or says that it is not.                  *)
ScanSound ==
    ScanTypeOK /\ RunsBounded /\ DecidedNotLost /\ WholeOrPartial /\ OnlyFatalFails
    /\ SavedWasStarted
=============================================================================
