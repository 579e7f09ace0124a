--------------------------- MODULE WorkspaceLedger ---------------------------
(***************************************************************************)
(* What the signed events of one workspace mean: WorkspaceProjection::apply *)
(* over goals, report history and tracked actions, and the mutating        *)
(* entry points of LocalWorkspaceStore that append those events.           *)
(*                                                                         *)
(* An entry point holds the workspace lock for its whole duration and      *)
(* appends its events one at a time (EventLog shows that operations do not *)
(* interleave and that the log order is the lamport order), so the         *)
(* projection of the log is one state and op is the operation in progress. *)
(* It may end between any two events: an error or the death of the process *)
(* leaves the events appended so far.  Scans run outside the lock, between *)
(* reading the approved goals and submitting a report.                     *)
(*                                                                         *)
(* A goal version is its goal and a revision, since its id is a hash of    *)
(* its contents.  A report is its completion number (its event), the id    *)
(* and completion time its producer chose, the goal versions it assessed,  *)
(* those it found supported and the recommendations it makes.  Product     *)
(* events are not projected; only the first-report mark is counted.        *)
(***************************************************************************)
EXTENDS Naturals, FiniteSets

CONSTANTS
    Goal, Revision,     \* logical goals and revisions of their text
    Rec,                \* recommendation ids (an action's id is a hash of one)
    ReportId,           \* report ids: numbers, so that they have an order
    Time,               \* readings of the wall clock; it may be set back
    Scanner,            \* scans and agent sessions
    MaxReports          \* bound: reports completed in a behaviour

ASSUME LedgerAssumption ==
    /\ Revision \subseteq Nat /\ ReportId \subseteq Nat /\ Time \subseteq Nat
    /\ MaxReports \in Nat

VARIABLES
    versions,   \* goal_versions
    approved,   \* approved_goals, as the set of approved versions
    reports,    \* reports, report_event_ids and report_ordinals
    count,      \* report_completion_count
    deleted,    \* deleted_report_event_ids
    status,     \* the status of each recommendation's action
    firstMarks, \* TimeToFirstSavedReport product events in the log
    op,         \* the locked operation in progress
    scan        \* what each running scan read when it began

vars == <<versions, approved, reports, count, deleted, status, firstMarks, op, scan>>
goalVars == <<versions, approved>>
historyVars == <<reports, count, deleted>>

Version == [goal : Goal, rev : Revision]
Status == {"none", "Open", "Planned", "InProgress", "ReadyForVerification",
           "Verified", "Reopened", "Deferred", "Dismissed"}

Idle == [at |-> "idle"]

-----------------------------------------------------------------------------
(* ActionStatus::may_transition_to.                                        *)
MayTransition ==
    {"Open"} \X {"Planned", "Deferred", "Dismissed"}
    \cup {"Planned"} \X {"InProgress", "Deferred", "Dismissed"}
    \cup {"InProgress"} \X {"ReadyForVerification", "Deferred"}
    \cup {"ReadyForVerification"} \X {"Verified", "Reopened"}
    \cup {"Verified"} \X {"Reopened"}
    \cup {"Reopened"} \X {"Planned", "InProgress", "Deferred", "Dismissed"}
    \cup {"Deferred"} \X {"Open", "Planned", "Dismissed"}
    \cup {"Dismissed"} \X {"Reopened"}

\* The next status on the way to ReadyForVerification, in ready_action's loop.
NextStatus(s) ==
    CASE s \in {"Open", "Deferred"}      -> "Planned"
      [] s \in {"Planned", "Reopened"}   -> "InProgress"
      [] s = "InProgress"                -> "ReadyForVerification"
      [] s \in {"Verified", "Dismissed"} -> "Reopened"

\* The approved set after one version of its goal is approved.
WithApproved(v) == {w \in approved : w.goal # v.goal} \cup {v}

\* A set with at most one version of each goal.
OnePerGoal(S) == \A v, w \in S : v.goal = w.goal => v = w

\* The reports that may come first in key order of those that recommend a: the
\* keys of superseded reports come before the report ids.  Among themselves they
\* are in the order of version 7 UUIDs, that is of a clock that may be set back.
FirstRecommending(a) ==
    LET having == {r \in reports : \E c \in r.recs : c.id = a}
        historical == {r \in having : r.superseded > 0}
    IN  IF historical # {} THEN historical
        ELSE {r \in having : \A s \in having : r.id <= s.id}

\* The goals that the recommendation an action is for may name: those of the
\* first report that has it, or none if all such reports were deleted.
AffectedGoals(a) ==
    IF FirstRecommending(a) = {} THEN {{}}
    ELSE {UNION {c.goals : c \in {c \in r.recs : c.id = a}} : r \in FirstRecommending(a)}

\* The latest report, by completion time and then completion number.
Latest ==
    {r \in reports : \A s \in reports :
        s.time < r.time \/ (s.time = r.time /\ s.event <= r.event)}

Init ==
    /\ versions = {} /\ approved = {}
    /\ reports = {} /\ count = 0 /\ deleted = {}
    /\ status = [a \in Rec |-> "none"]
    /\ firstMarks = 0
    /\ op = Idle
    /\ scan = [s \in Scanner |-> Idle]

-----------------------------------------------------------------------------
(* approve_goal: a new version is proposed, approved and counted; a known   *)
(* one is only approved, and one that is approved already changes nothing.  *)
ApproveGoal(v) ==
    /\ op = Idle /\ v \notin approved
    /\ op' = [at |-> IF v \in versions THEN "reapprove" ELSE "propose", version |-> v]
    /\ UNCHANGED <<goalVars, historyVars, status, firstMarks, scan>>

GoalVersionProposed ==
    /\ op.at = "propose"
    /\ versions' = versions \cup {op.version}
    /\ op' = [op EXCEPT !.at = "approve"]
    /\ UNCHANGED <<approved, historyVars, status, firstMarks, scan>>

GoalVersionApproved ==
    /\ op.at \in {"approve", "reapprove"}
    /\ op.version \in versions
    /\ approved' = WithApproved(op.version)
    /\ op' = IF op.at = "approve" THEN [at |-> "product"] ELSE Idle
    /\ UNCHANGED <<versions, historyVars, status, firstMarks, scan>>

(* replace_goals: the request names each goal once.                         *)
ReplaceGoals(S) ==
    /\ op = Idle /\ S # {} /\ OnePerGoal(S) /\ S # approved
    /\ op' = [at |-> "replace", goals |-> S]
    /\ UNCHANGED <<goalVars, historyVars, status, firstMarks, scan>>

\* Mutant: the replacement's new versions are not added to the known ones.
GoalSetReplacedOnly ==
    /\ op.at = "replace"
    /\ approved' = op.goals
    /\ op' = [at |-> "product"]
    /\ UNCHANGED <<versions, historyVars, status, firstMarks, scan>>

GoalSetReplaced ==
    /\ op.at = "replace"
    /\ versions' = versions \cup op.goals
    /\ approved' = op.goals
    /\ op' = [at |-> "product"]
    /\ UNCHANGED <<historyVars, status, firstMarks, scan>>

(* The product event that ends both: it projects nothing.                   *)
GoalApprovalCounted ==
    /\ op.at = "product"
    /\ op' = Idle
    /\ UNCHANGED <<goalVars, historyVars, status, firstMarks, scan>>

-----------------------------------------------------------------------------
(* A scan reads the approved goals and freezes the commits it will look at. *)
StartScan(s) ==
    /\ scan[s] = Idle /\ approved # {}
    /\ scan' = [scan EXCEPT ![s] = [at |-> "scanning", goals |-> approved,
                    noted |-> {a \in Rec : status[a] = "ReadyForVerification"}]]
    /\ UNCHANGED <<goalVars, historyVars, status, firstMarks, op>>

(* The provider fails or the scan is abandoned.                             *)
ScanFails(s) ==
    /\ scan[s] # Idle
    /\ scan' = [scan EXCEPT ![s] = Idle]
    /\ UNCHANGED <<goalVars, historyVars, status, firstMarks, op>>

(* record_report_with_repositories: under the lock, the report's goals must *)
(* still be the approved ones (validate_report_for_persistence).            *)
RecordReport(s, id, time, supported, recs) ==
    /\ op = Idle /\ scan[s] # Idle /\ count < MaxReports
    /\ scan' = [scan EXCEPT ![s] = Idle]
    /\ op' = IF scan[s].goals = approved
             THEN [at |-> "complete", id |-> id, time |-> time, supported |-> supported,
                   recs |-> recs, goals |-> approved, noted |-> scan[s].noted,
                   first |-> reports = {}]
             ELSE Idle
    /\ UNCHANGED <<goalVars, historyVars, status, firstMarks>>

Completed(hist) ==
    [event |-> count + 1, id |-> op.id, time |-> op.time, goals |-> op.goals,
     supported |-> op.supported, recs |-> op.recs, superseded |-> hist]

\* Mutant: a report of the same id is overwritten.
ReportCompletedOver ==
    /\ op.at = "complete"
    /\ count' = count + 1
    /\ reports' = {r \in reports : r.superseded > 0 \/ r.id # op.id} \cup {Completed(0)}
    /\ op' = [op EXCEPT !.at = "scorecard"]
    /\ UNCHANGED <<goalVars, deleted, status, firstMarks, scan>>

\* Mutant: a report of the same id takes the place of a historical one.
ReportCompletedBehind ==
    /\ op.at = "complete"
    /\ count' = count + 1
    /\ reports' = reports \cup
         {Completed(IF \E r \in reports : r.superseded = 0 /\ r.id = op.id
                    THEN count + 1 ELSE 0)}
    /\ op' = [op EXCEPT !.at = "scorecard"]
    /\ UNCHANGED <<goalVars, deleted, status, firstMarks, scan>>

(* ReportCompleted: a report that had the id moves to a key of its own.     *)
ReportCompleted ==
    /\ op.at = "complete"
    /\ count' = count + 1
    /\ reports' = {IF r.superseded = 0 /\ r.id = op.id
                   THEN [r EXCEPT !.superseded = count + 1] ELSE r : r \in reports}
                  \cup {Completed(0)}
    /\ op' = [op EXCEPT !.at = "scorecard"]
    /\ UNCHANGED <<goalVars, deleted, status, firstMarks, scan>>

(* ScorecardGenerated, ReportSaved.                                         *)
ReportCounted ==
    /\ op.at \in {"scorecard", "saved"}
    /\ op' = [op EXCEPT !.at = IF op.at = "scorecard" THEN "saved" ELSE "compare"]
    /\ UNCHANGED <<goalVars, historyVars, status, firstMarks, scan>>

(* TimeToFirstSavedReport or ComparisonGenerated; then the actions that     *)
(* await verification are collected.                                        *)
ReportCompared ==
    /\ op.at = "compare"
    /\ firstMarks' = IF op.first THEN firstMarks + 1 ELSE firstMarks
    /\ op' = [at |-> "verify", supported |-> op.supported, noted |-> op.noted,
              todo |-> {a \in Rec : status[a] = "ReadyForVerification"}]
    /\ UNCHANGED <<goalVars, historyVars, status, scan>>

\* Mutant: an action without affected goals counts as supported.
VerifyActionVacuous(a) ==
    /\ op.at = "verify" /\ a \in op.todo
    /\ \E goals \in AffectedGoals(a) :
         status' = [status EXCEPT ![a] =
                       IF goals \subseteq op.supported THEN "Verified" ELSE "Reopened"]
    /\ op' = [op EXCEPT !.todo = @ \ {a}]
    /\ UNCHANGED <<goalVars, historyVars, firstMarks, scan>>

(* Each is verified if every goal its recommendation names is supported in  *)
(* the new report, and reopened otherwise.                                  *)
VerifyAction(a) ==
    /\ op.at = "verify" /\ a \in op.todo
    /\ \E goals \in AffectedGoals(a) :
         status' = [status EXCEPT ![a] =
                       IF goals # {} /\ goals \subseteq op.supported
                       THEN "Verified" ELSE "Reopened"]
    /\ op' = [op EXCEPT !.todo = @ \ {a}]
    /\ UNCHANGED <<goalVars, historyVars, firstMarks, scan>>

ReportRecorded ==
    /\ op.at = "verify" /\ op.todo = {}
    /\ op' = Idle
    /\ UNCHANGED <<goalVars, historyVars, status, firstMarks, scan>>

-----------------------------------------------------------------------------
(* ready_action: the action is created if it is new, then moved along.      *)
ReadyAction(a) ==
    /\ op = Idle
    /\ op' = [at |-> "ready", rec |-> a]
    /\ UNCHANGED <<goalVars, historyVars, status, firstMarks, scan>>

ActionCreated ==
    /\ op.at = "ready" /\ status[op.rec] = "none"
    /\ status' = [status EXCEPT ![op.rec] = "Open"]
    /\ UNCHANGED <<goalVars, historyVars, firstMarks, op, scan>>

\* Mutant: work in progress is deferred instead of handed to verification.
ActionDeferred ==
    LET from == status[op.rec]
        to == IF from = "InProgress" THEN "Deferred" ELSE NextStatus(from)
    IN  /\ op.at = "ready" /\ from \notin {"none", "ReadyForVerification"}
        /\ <<from, to>> \in MayTransition
        /\ status' = [status EXCEPT ![op.rec] = to]
        /\ UNCHANGED <<goalVars, historyVars, firstMarks, op, scan>>

(* One turn of the loop; the last carries the completion note, which a scan *)
(* that is already running cannot have looked at.                           *)
ActionTransitioned ==
    LET from == status[op.rec]
        to == NextStatus(from)
    IN  /\ op.at = "ready" /\ from \notin {"none", "ReadyForVerification"}
        /\ <<from, to>> \in MayTransition
        /\ status' = [status EXCEPT ![op.rec] = to]
        /\ scan' = IF to = "ReadyForVerification"
                   THEN [s \in Scanner |-> IF scan[s] = Idle THEN Idle
                                          ELSE [scan[s] EXCEPT !.noted = @ \ {op.rec}]]
                   ELSE scan
        /\ UNCHANGED <<goalVars, historyVars, firstMarks, op>>

ActionReady ==
    /\ op.at = "ready" /\ status[op.rec] = "ReadyForVerification"
    /\ op' = Idle
    /\ UNCHANGED <<goalVars, historyVars, status, firstMarks, scan>>

-----------------------------------------------------------------------------
(* delete_report appends a tombstone; the latest report cannot be deleted.  *)
DeleteReport(r) ==
    /\ op = Idle /\ r \in reports /\ r \notin Latest
    /\ reports' = reports \ {r}
    /\ deleted' = deleted \cup {r.event}
    /\ UNCHANGED <<goalVars, count, status, firstMarks, op, scan>>

(* The operation ends between two events: an append failed or the process   *)
(* died.                                                                    *)
Abort ==
    /\ op # Idle
    /\ op' = Idle
    /\ UNCHANGED <<goalVars, historyVars, status, firstMarks, scan>>

Recommendations(goals) ==
    {{}} \cup {{[id |-> a, goals |-> G]} : a \in Rec, G \in SUBSET goals \ {{}}}

Step ==
    \/ GoalVersionProposed \/ GoalVersionApproved \/ GoalSetReplaced \/ GoalApprovalCounted
    \/ ReportCompleted \/ ReportCounted \/ ReportCompared
    \/ \E a \in Rec : VerifyAction(a)
    \/ ReportRecorded
    \/ ActionCreated \/ ActionTransitioned \/ ActionReady

Next ==
    \/ \E v \in Version : ApproveGoal(v)
    \/ \E S \in SUBSET Version : ReplaceGoals(S)
    \/ \E s \in Scanner : StartScan(s) \/ ScanFails(s)
    \/ \E s \in Scanner, id \in ReportId, t \in Time :
         \E supported \in SUBSET approved, recs \in Recommendations(approved) :
             RecordReport(s, id, t, supported, recs)
    \/ \E a \in Rec : ReadyAction(a)
    \/ \E r \in reports : DeleteReport(r)
    \/ Step
    \/ Abort

Spec == Init /\ [][Next]_vars

(* The process that runs an operation keeps running, or dies (Abort).       *)
FairSpec == Spec /\ WF_vars(Step)

-----------------------------------------------------------------------------
(* Properties                                                              *)

Report ==
    [event : 1..MaxReports, id : ReportId, time : Time, goals : SUBSET Version,
     supported : SUBSET Version, superseded : 0..MaxReports,
     recs : SUBSET [id : Rec, goals : SUBSET Version]]

(* The operation in progress, by what it still needs.                      *)
Operation ==
    {Idle}
    \cup [at : {"propose", "approve", "reapprove"}, version : Version]
    \cup [at : {"replace"}, goals : {S \in SUBSET Version : OnePerGoal(S)}]
    \cup [at : {"product"}]
    \cup [at : {"complete", "scorecard", "saved", "compare"}, id : ReportId, time : Time,
          goals : SUBSET Version, supported : SUBSET Version, noted : SUBSET Rec,
          recs : SUBSET [id : Rec, goals : SUBSET Version], first : BOOLEAN]
    \cup [at : {"verify"}, supported : SUBSET Version, noted : SUBSET Rec, todo : SUBSET Rec]
    \cup [at : {"ready"}, rec : Rec]

Scan == {Idle} \cup [at : {"scanning"}, goals : SUBSET Version, noted : SUBSET Rec]

TypeOK ==
    /\ versions \subseteq Version /\ approved \subseteq Version
    /\ reports \subseteq Report /\ count \in 0..MaxReports
    /\ deleted \subseteq 1..MaxReports
    /\ status \in [Rec -> Status]
    /\ firstMarks \in Nat
    /\ op \in Operation
    /\ scan \in [Scanner -> Scan]

(* Goals resolve: every approved version is known to the ledger and no goal *)
(* has two, whatever operations were cut short (approved_goals fails on a   *)
(* version that is missing).                                                *)
GoalsResolve == approved \subseteq versions /\ OnePerGoal(approved)

(* History is complete: every completed report is either active or          *)
(* deleted, once, under the completion number it was given.                 *)
HistoryComplete ==
    /\ {r.event : r \in reports} \cup deleted = 1..count
    /\ {r.event : r \in reports} \cap deleted = {}
    /\ \A r, s \in reports : r.event = s.event => r = s

(* A report id resolves to the newest active report that used it, also when *)
(* ids repeat and reports are deleted in between.                           *)
IdResolvesToNewest ==
    \A r, s \in reports :
        (r.id = s.id /\ r.superseded = 0 /\ r # s) => s.superseded > 0 /\ s.event < r.event

(* A workspace with a completed report always shows one: deletions of       *)
(* reports in any order, with repeated ids and a clock set back, never      *)
(* empty the history.                                                       *)
NeverEmptied == count > 0 => reports # {}

(* The time to the first saved report is recorded at most once, although    *)
(* had_prior_report looks only at active reports and operations fail.       *)
FirstMarkOnce == firstMarks <= 1

(* An action becomes Verified only if an active report recommends it and    *)
(* the report being recorded supports every goal that recommendation names. *)
VerifiedIsSupported ==
    [][\A a \in Rec : (status'[a] = "Verified" /\ status[a] # "Verified") =>
         \E r \in reports, n \in reports : \E c \in r.recs :
             /\ c.id = a /\ c.goals # {} /\ n.event = count
             /\ c.goals \subseteq n.supported]_vars

(* Every operation ends: ready_action's loop reaches ReadyForVerification   *)
(* from whatever status an interrupted operation left behind.               *)
OperationsEnd == (op # Idle) ~> (op = Idle)

=============================================================================
