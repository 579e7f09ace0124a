---------------------------- MODULE ReportHistory ----------------------------
(***************************************************************************)
(* Saved reports as they are shown: the heatmap with its changes from one  *)
(* report to the next, the pages of the history and one report's finding   *)
(* (local_state/heatmap.rs), while reports are recorded and deleted and    *)
(* goals are added and edited between two requests of the desktop.         *)
(*                                                                         *)
(* An assessment gives each of two criteria a verdict and its evidence, a  *)
(* sequence of [at, to] coordinates.  Times are small numbers.             *)
(***************************************************************************)
EXTENDS Integers, Sequences, FiniteSets, SequencesExt

CONSTANTS
    MaxReports,     \* bound: reports that are ever recorded
    MaxTime,        \* bound: moments
    Window,         \* REPORT_HISTORY_LIMIT
    PageSize,       \* the limit of a page
    NoCursor        \* no page was loaded, or there is none before it

\* A page has one report at least (limit.clamp), and so has the window.
ASSUME HistoryAssumption ==
    {MaxReports, MaxTime} \subseteq Nat /\ {Window, PageSize} \subseteq Nat \ {0} /\ NoCursor \notin Nat

VARIABLES
    versions,   \* goal versions: [id, goal, created, position]
    approved,   \* the current version of each goal
    reports,    \* active reports: [event, ordinal, at, versions, results]
    recorded,   \* how many reports were recorded
    cursor,     \* the next_before that the desktop holds
    shown,      \* events on the pages that the desktop has loaded
    pageState,  \* "closed", "open", "all" (no older page), "lost" (cursor gone)
    atOpen      \* the reports that were active when it opened the history

historyVars == <<versions, approved, reports, recorded, cursor, shown, pageState, atOpen>>

Criteria == {"c1", "c2"}
Result(v1, e1, v2) == [c1 |-> [verdict |-> v1, evidence |-> e1], c2 |-> [verdict |-> v2, evidence |-> <<>>]]
Ref(at, to) == [at |-> at, to |-> to]
Results == {
    Result("supported", <<Ref(2, 3), Ref(1, 1), Ref(2, 3)>>, "unverified"), Result("partial", <<Ref(1, 1)>>, "unsupported") }

HistoryInit ==
    /\ versions = {[id |-> 1, goal |-> "g1", created |-> 0, position |-> 1]}
    /\ approved = [g \in {"g1"} |-> 1]
    /\ reports = {} /\ recorded = 0 /\ atOpen = {}
    /\ cursor = NoCursor /\ shown = <<>> /\ pageState = "closed"

-----------------------------------------------------------------------------
(* active_report_entries: by completion, then by the number of the run.     *)
Earlier(x, y) == x.at < y.at \/ (x.at = y.at /\ x.ordinal < y.ordinal)
Entries(rs) ==
    CHOOSE es \in [1 .. Cardinality(rs) -> rs] :
        ToSet(es) = rs /\ \A i, j \in DOMAIN es : i < j => Earlier(es[i], es[j])
Events(es) == [i \in DOMAIN es |-> es[i].event]

\* current_goals: by position, those without one at the end.
Position(g) == (CHOOSE v \in versions : v.id = approved[g]).position
Above(g, h) ==
    CASE Position(g) = 0 /\ Position(h) = 0 -> g = "g1"
      [] Position(g) = 0 /\ Position(h) # 0 -> FALSE
      [] Position(g) # 0 /\ Position(h) = 0 -> TRUE
      [] OTHER -> Position(g) < Position(h)
CurrentGoals ==
    CHOOSE gs \in [1 .. Cardinality(DOMAIN approved) -> DOMAIN approved] :
        ToSet(gs) = DOMAIN approved /\ \A i, j \in DOMAIN gs : i < j => Above(gs[i], gs[j])

\* sorted_evidence: a stable sort, then neighbours that are equal become one.
SortedEvidence(s) ==
    LET ordered == SelectSeq(s, LAMBDA e : e.at = 1) \o SelectSeq(s, LAMBDA e : e.at = 2)
    IN  FoldLeft(LAMBDA acc, e : IF acc # <<>> /\ acc[Len(acc)] = e THEN acc ELSE Append(acc, e), <<>>, ordered)

\* aggregate_goal and assessment_category.
GoalVerdict(r) ==
    LET assessed == {r[c].verdict : c \in Criteria} \ {"unverified"}
    IN  CASE assessed = {} -> "unverified" [] assessed = {"supported"} -> "supported"
          [] assessed = {"unsupported"} -> "unsupported" [] OTHER -> "partial"
Category(r) ==
    CASE GoalVerdict(r) = "supported" ->
             IF \A c \in Criteria : r[c].verdict = "supported" /\ r[c].evidence # <<>> THEN "strong" ELSE "functional"
      [] GoalVerdict(r) \in {"partial", "unverified"} -> "incomplete"
      [] GoalVerdict(r) = "unsupported" ->
             IF \E c \in Criteria : r[c].evidence # <<>> THEN "broken" ELSE "missing"

\* category_rank and category_change: 5 stands for no rank.
CategoryRank(c) ==
    CASE c = "missing" -> 0 [] c = "broken" -> 1 [] c = "incomplete" -> 2
      [] c = "functional" -> 3 [] c = "strong" -> 4 [] OTHER -> 5
Change(previous, now) ==
    LET was == CategoryRank(previous)  is == CategoryRank(now)
    IN  CASE is = 5 -> "not applicable"
          [] is # 5 /\ was = 5 -> "first"
          [] is # 5 /\ was # 5 /\ is > was -> "improved"
          [] is # 5 /\ was # 5 /\ is < was -> "declined"
          [] OTHER -> "unchanged"

\* criterion_rank and criterion_comparison.
CriterionRank == [unverified |-> 0, unsupported |-> 1, partial |-> 2, supported |-> 3]
Comparison(had, previous, verdict, evidence) ==
    CASE ~had -> "first"
      [] had /\ CriterionRank[verdict] > CriterionRank[previous.verdict] -> "improved"
      [] had /\ CriterionRank[verdict] < CriterionRank[previous.verdict] -> "declined"
      [] had /\ verdict = previous.verdict /\ evidence # previous.evidence -> "evidence_changed"
      [] OTHER -> "unchanged"

-----------------------------------------------------------------------------
(* A cell of the heatmap.                                                   *)
FirstCreated(g) ==
    LET times == {v.created : v \in {x \in versions : x.goal = g}}
    IN  CHOOSE t \in times : \A u \in times : t <= u
Predates(r, g) == r.at < FirstCreated(g)
\* goal_version_for_logical_goal: whether the report knows the goal.
Assesses(r, g) == \E v \in versions : v.goal = g /\ v.id \in r.versions /\ g \in DOMAIN r.results

NoCell == [verdict |-> "none", change |-> "none", criteria |-> <<>>]
Blank(verdict) == [c \in Criteria |-> [verdict |-> verdict, evidence |-> <<>>, change |-> "first"]]

\* history_cell: the verdict of a cell.
CellVerdict(r, g) ==
    CASE Predates(r, g) -> "not_applicable"
      [] ~Predates(r, g) /\ Assesses(r, g) -> Category(r.results[g])
      [] OTHER -> "missing"

CellCriteria(r, g, previous) ==
    CASE Predates(r, g) -> <<>>
      [] ~Predates(r, g) /\ Assesses(r, g) ->
            [c \in Criteria |->
                LET verdict == r.results[g][c].verdict
                    evidence == SortedEvidence(r.results[g][c].evidence)
                    had == previous.criteria # <<>>
                IN  [verdict |-> verdict, evidence |-> evidence,
                     change |-> Comparison(had, IF had THEN previous.criteria[c] ELSE NoCell, verdict, evidence)]]
      [] OTHER -> Blank("unverified")

Cell(r, g, previous) ==
    [verdict |-> CellVerdict(r, g), criteria |-> CellCriteria(r, g, previous),
     change |-> Change(previous.verdict, CellVerdict(r, g))]

\* build_report_heatmap: each report is compared with the one before it.
Row(r, cells) == [event |-> r.event, cells |-> cells]
Latest(s, n) == SubSeq(s, IF Len(s) > n THEN Len(s) - n + 1 ELSE 1, Len(s))
Heatmap(rs, analyses) ==
    LET es == Latest(Entries(rs), analyses)
        rows[n \in 1 .. Len(es)] ==
            Row(es[n], [g \in ToSet(CurrentGoals) |-> Cell(es[n], g, IF n = 1 THEN NoCell ELSE rows[n - 1].cells[g])])
    IN  rows

\* build_report_finding: the report and the one before it, on their own.
Finding(event, g) ==
    LET es == Entries(reports)
        at == CHOOSE i \in DOMAIN es : es[i].event = event
        rows == Heatmap({es[i] : i \in {j \in DOMAIN es : j = at \/ j = at - 1}}, 2)
    IN  rows[Len(rows)].cells[g]

-----------------------------------------------------------------------------
(* build_report_history_page: the page that ends before the cursor, and the *)
(* cursor of the next one.                                                  *)
PageStart(end) == IF end > PageSize THEN end - PageSize + 1 ELSE 1
Page(es, end) == SubSeq(Events(es), PageStart(end), end)

\* Mutant: the next page is asked for with the newest report that it omits.
NextBeforeOmitted(es, end) == IF PageStart(end) = 1 THEN NoCursor ELSE es[PageStart(end) - 1].event

NextBefore(es, end) == IF PageStart(end) = 1 THEN NoCursor ELSE es[PageStart(end)].event

OpenHistory ==
    /\ pageState \in {"closed", "lost"}
    /\ LET es == Entries(reports)
       IN  /\ shown' = Page(es, Len(es)) /\ cursor' = NextBefore(es, Len(es))
           /\ pageState' = IF NextBefore(es, Len(es)) = NoCursor THEN "all" ELSE "open"
           /\ atOpen' = ToSet(Events(es))
    /\ UNCHANGED <<versions, approved, reports, recorded>>

OlderPage ==
    /\ pageState = "open"
    /\ LET es == Entries(reports)
           at == {i \in DOMAIN es : es[i].event = cursor}
           end == (CHOOSE i \in at : TRUE) - 1
       IN  IF at = {} THEN pageState' = "lost" /\ UNCHANGED <<shown, cursor>>
           ELSE /\ shown' = Page(es, end) \o shown /\ cursor' = NextBefore(es, end)
                /\ pageState' = IF NextBefore(es, end) = NoCursor THEN "all" ELSE "open"
    /\ UNCHANGED <<versions, approved, reports, recorded, atOpen>>

(* A report is recorded: completed at any moment, since a scan may end      *)
(* before another one that is recorded first.                               *)
RecordRun ==
    /\ recorded < MaxReports
    /\ \E at \in 0 .. MaxTime, r \in Results, gs \in {{"g1"}, DOMAIN approved} :
          reports' = reports \cup {[event |-> recorded + 1, ordinal |-> recorded + 1, at |-> at,
                                    versions |-> {approved[g] : g \in DOMAIN approved},
                                    results |-> [g \in gs |-> r]]}
    /\ recorded' = recorded + 1
    /\ UNCHANGED <<versions, approved, cursor, shown, pageState, atOpen>>

DeleteRun ==
    /\ \E r \in reports : reports' = reports \ {r}
    /\ UNCHANGED <<versions, approved, recorded, cursor, shown, pageState, atOpen>>

(* A goal is added, without a position, or the first one is edited.         *)
ChangeGoals ==
    /\ Cardinality(versions) < 3
    /\ \E g \in {"g1", "g2"} :
          LET id == Cardinality(versions) + 1
          IN  /\ versions' = versions \cup {[id |-> id, goal |-> g, created |-> MaxTime, position |-> IF g = "g2" THEN 0 ELSE 2]}
              /\ approved' = [h \in DOMAIN approved \cup {g} |-> IF h = g THEN id ELSE approved[h]]
    /\ UNCHANGED <<reports, recorded, cursor, shown, pageState, atOpen>>

HistoryNext == OpenHistory \/ OlderPage \/ RecordRun \/ DeleteRun \/ ChangeGoals

-----------------------------------------------------------------------------
(* Whoever pages to the end has seen every report that was there when the   *)
(* history was opened and still is, and none twice, in spite of reports     *)
(* recorded and deleted in between.                                         *)
PagesWhole ==
    /\ pageState = "all" => (atOpen \cap {r.event : r \in reports}) \subseteq ToSet(shown)
    /\ Cardinality(ToSet(shown)) = Len(shown)

(* The finding of a report says of its goal what the heatmap says of it,    *)
(* except that the heatmap's window may hide the report before its first.   *)
FindingAgrees ==
    LET rows == Heatmap(reports, Window)
    IN  \A i \in DOMAIN rows, g \in DOMAIN approved :
            i > 1 \/ Cardinality(reports) <= Window => Finding(rows[i].event, g) = rows[i].cells[g]

(* A report from before a goal is never held against it, and a change is    *)
(* only claimed between two reports that could assess the goal.             *)
ChangesTrue ==
    LET rows == Heatmap(reports, Window)
    IN  \A i \in DOMAIN rows, g \in DOMAIN approved :
            rows[i].cells[g].change \in {"improved", "declined", "unchanged"} =>
                i > 1 /\ rows[i - 1].cells[g].verdict # "not_applicable"

(* The history shows every report once and tells one story of each.  Paging *)
(* changes no report, so the stories are compared before it starts.         *)
HistorySound == PagesWhole /\ (pageState = "closed" => FindingAgrees /\ ChangesTrue)
=============================================================================
