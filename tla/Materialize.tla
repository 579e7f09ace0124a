----------------------------- MODULE Materialize -----------------------------
(***************************************************************************)
(* From raw provider replies to a persisted report: the batches of a scan  *)
(* are validated one by one and merged, the merged analysis (or that of an *)
(* agent's session) becomes a report, its narrative is screened against    *)
(* the repository's source, and the report is validated again before it is *)
(* recorded (analyzer/report_materialize.rs, the end of analyzer/scan.rs,  *)
(* report_integrity.rs, and the domain's scoring.rs).                      *)
(*                                                                         *)
(* A text is "provider" (it holds words of the provider's) or "neutral"    *)
(* (worded by the core); a provider's text quotes the source when its      *)
(* field is in `quoted`.  A component and a title are numbers, 0 being     *)
(* empty; a provider's version may be "none" (empty) or "blank".           *)
(***************************************************************************)
EXTENDS Integers, Sequences, FiniteSets, SequencesExt

CONSTANTS
    MaxClaims,      \* MAX_REPORT_ARCHITECTURE_CLAIMS
    MaxActions,     \* MAX_REPORT_RECOMMENDATIONS
    NoDoc           \* no report

VARIABLES
    policy,     \* "redact" for a scan, "reject" for an agent's session
    replies,    \* what each batch returned; a session is one batch
    matStage,   \* where the report is
    raw,        \* the merged analysis
    before,     \* the report before its narrative was screened
    doc,        \* the report
    moved       \* goals were approved anew, or Git cannot read the commit any more

matVars == <<policy, replies, matStage, raw, before, doc, moved>>

-----------------------------------------------------------------------------
(* The frozen goals, in order; the first is the more important one.         *)
FrozenGoals == <<"g1", "g2">>
CriteriaOf == [g1 |-> {"c1", "c2"}, g2 |-> {"c3"}]
Priority == [g1 |-> 5, g2 |-> 2]
Bindable == {"e1", "e2", "e3"}

BatchGoals(b) == IF policy = "reject" THEN ToSet(FrozenGoals) ELSE {FrozenGoals[b]}

\* bind_evidence: the citations that resolve at the frozen commit.
Bind(cites) == cites \cap Bindable

-----------------------------------------------------------------------------
(* scoring.rs: a verdict counts twice its value; unverified criteria do not *)
(* count at all.                                                            *)
criterion_value == [supported |-> 2, partial |-> 1, unsupported |-> 0]

aggregate_goal(criteria) ==
    LET assessed == {criteria[i].verdict : i \in DOMAIN criteria} \ {"unverified"}
    IN  CASE assessed = {} -> "unverified"
          [] assessed = {"supported"} -> "supported"
          [] assessed = {"unsupported"} -> "unsupported"
          [] OTHER -> "partial"

Assessed(criteria) == SelectSeq(criteria, LAMBDA c : c.verdict # "unverified")
Plus(p, q) == <<p[1] * q[2] + q[1] * p[2], p[2] * q[2]>>

\* score_report: <<sum of weighted scores, included weight>> and the number
\* of unverified criteria.
score_report(assessments) ==
    LET scored == SelectSeq(assessments, LAMBDA a : Assessed(a.criteria) # <<>>)
        add(acc, a) ==
            LET values == Assessed(a.criteria)
                total == FoldLeft(LAMBDA n, c : n + criterion_value[c.verdict], 0, values)
            IN  Plus(acc, <<total * Priority[a.goal], Len(values)>>)
    IN  [coverage |-> <<FoldLeft(add, <<0, 1>>, scored),
                        FoldLeft(LAMBDA n, a : n + Priority[a.goal], 0, scored)>>,
         unverified |-> FoldLeft(LAMBDA n, a : n + Len(a.criteria) - Len(Assessed(a.criteria)), 0, assessments)]

-----------------------------------------------------------------------------
(* An assessment.  A citation was submitted and none bound, or one was      *)
(* needed: the criterion is unverified, and its rationale gives the first   *)
(* citation that failed, as the provider wrote it.                          *)
Unavailable(c) == Bind(c.cites) = {} /\ (c.cites # {} \/ c.verdict \in {"supported", "partial"})

BoundCriterion(c) ==
    [id |-> c.id, evidence |-> Bind(c.cites),
     verdict |-> IF Unavailable(c) THEN "unverified" ELSE c.verdict,
     text |-> IF Unavailable(c) /\ c.cites = {} THEN "neutral" ELSE "provider"]
Unanswered(id) == [id |-> id, evidence |-> {}, verdict |-> "unverified", text |-> "neutral"]
InOrder(ids) == SetToSortSeq(ids, LAMBDA x, y : x = "c1" \/ (x = "c2" /\ y = "c3"))

\* direct_summary
Prefix(verdict, evidence) ==
    CASE verdict = "supported" -> "Yes" [] verdict = "partial" -> "Partly"
      [] verdict = "unsupported" /\ evidence # {} -> "No"
      [] verdict = "unsupported" /\ evidence = {} -> "Could not find evidence"
      [] verdict = "unverified" -> "Could not verify"
EvidenceOf(items) == UNION {items[i].evidence : i \in DOMAIN items}

MaterializedGoal(a) ==
    LET bound == [i \in DOMAIN a.criteria |-> BoundCriterion(a.criteria[i])]
        missing == InOrder(CriteriaOf[a.goal] \ {a.criteria[i].id : i \in DOMAIN a.criteria})
        items == bound \o [i \in DOMAIN missing |-> Unanswered(missing[i])]
        invalid == missing # <<>> \/ \E i \in DOMAIN a.criteria : Unavailable(a.criteria[i])
    IN  [goal |-> a.goal, verdict |-> aggregate_goal(items), criteria |-> items,
         prefix |-> Prefix(aggregate_goal(items), EvidenceOf(items)),
         summary |-> IF invalid THEN "neutral" ELSE "provider",
         narrative |-> IF a.narrative THEN "provider" ELSE ""]

MissingGoal(g) ==
    LET items == [i \in DOMAIN InOrder(CriteriaOf[g]) |-> Unanswered(InOrder(CriteriaOf[g])[i])]
    IN  [goal |-> g, verdict |-> "unverified", criteria |-> items,
         prefix |-> "Could not verify", summary |-> "neutral", narrative |-> ""]

\* What makes the whole analysis an error.
Differ(s, Field(_)) == \A i, j \in DOMAIN s : i # j => Field(s[i]) # Field(s[j])
Linked(items, goals) == \A i \in DOMAIN items : ToSet(items[i].goals) \subseteq goals
WellFormed(r, goals) ==
    /\ r.fits
    /\ \A i \in DOMAIN r.assessments :
          LET a == r.assessments[i]
          IN  /\ a.goal \in goals
              /\ \A k \in DOMAIN a.criteria : a.criteria[k].id \in CriteriaOf[a.goal] /\ a.criteria[k].valid
              /\ Differ(a.criteria, LAMBDA c : c.id)
    /\ Differ(r.assessments, LAMBDA a : a.goal)
    /\ Linked(r.architecture, goals) /\ Linked(r.recommendations, goals)

\* A claim without summary or evidence is dropped, and so is a recommendation
\* without rank, impact or evidence.
KeptClaim(c) == c.complete /\ Bind(c.cites) # {}
KeptAction(r) == r.rank > 0 /\ r.complete /\ Bind(r.cites) # {}
BoundDecision(d) == [id |-> d.id, name |-> d.name, goals |-> d.goals, rank |-> d.rank,
                     evidence |-> Bind(d.cites), text |-> "provider"]

\* The warning about a dropped decision repeats the provider's component or
\* title, and the first citation that failed when that was the reason.
DropWarning(d, name, whole) ==
    {<<name, d.id>>} \cup (IF whole /\ d.cites # {} THEN {<<"citation", d.id>>} ELSE {})
DropWarnings(r) ==
    UNION {DropWarning(c, "component", c.complete) :
              c \in {x \in ToSet(r.architecture) : ~KeptClaim(x)}}
    \cup UNION {DropWarning(a, "title", a.rank > 0 /\ a.complete) :
                   a \in {x \in ToSet(r.recommendations) : ~KeptAction(x)}}

GoalOrder(a, b) == a.goal = "g1" /\ b.goal = "g2"
Gaps(r) ==
    \E i \in DOMAIN FrozenGoals :
        LET g == FrozenGoals[i]
            of == {k \in DOMAIN r.assessments : r.assessments[k].goal = g}
        IN  \/ of = {}
            \/ \E k \in of : LET a == r.assessments[k]
                             IN  \/ {a.criteria[n].id : n \in DOMAIN a.criteria} # CriteriaOf[g]
                                 \/ \E n \in DOMAIN a.criteria : Unavailable(a.criteria[n])

Materialized(r) ==
    LET returned == {r.assessments[i].goal : i \in DOMAIN r.assessments}
        absent == SelectSeq(FrozenGoals, LAMBDA g : g \notin returned)
        assessments ==
            SortSeq([i \in DOMAIN r.assessments |-> MaterializedGoal(r.assessments[i])]
                        \o [i \in DOMAIN absent |-> MissingGoal(absent[i])], GoalOrder)
        claims == SelectSeq(r.architecture, KeptClaim)
        actions == SelectSeq(r.recommendations, KeptAction)
    IN  [assessments |-> assessments, score |-> score_report(assessments), version |-> r.version,
         architecture |-> [i \in DOMAIN claims |-> BoundDecision(claims[i])],
         recommendations |-> [i \in DOMAIN actions |-> BoundDecision(actions[i])],
         warnings |-> DropWarnings(r),
         partial |-> Gaps(r), redacted |-> "none"]

-----------------------------------------------------------------------------
(* Screening.  narrative_fields: every field with its text.                 *)
Field(kind, of, text) == [kind |-> kind, of |-> of, text |-> text]
narrative_fields(d) ==
    {Field("version", <<>>, d.version)}
    \cup UNION {{Field("summary", <<a.goal>>, a.summary)}
                \cup (IF a.narrative = "" THEN {} ELSE {Field("narrative", <<a.goal>>, a.narrative)})
                \cup {Field("rationale", <<a.criteria[k].id>>, a.criteria[k].text) : k \in DOMAIN a.criteria}
                : a \in ToSet(d.assessments)}
    \cup UNION {{Field(kind, c.id, c.text) : kind \in {"component", "relationship", "claim"}}
                : c \in ToSet(d.architecture)}
    \cup UNION {{Field(kind, c.id, c.text) : kind \in {"title", "reason", "impact"}}
                : c \in ToSet(d.recommendations)}

Quoting(d, quoted) == {f \in narrative_fields(d) : f.text = "provider" /\ <<f.kind, f.of>> \in quoted}

\* consolidate_redacted_decisions: a decision joins the first one before it
\* that has its first goal.
Join(acc, c) ==
    LET hits == {i \in DOMAIN acc : c.goals # <<>> /\ c.goals[1] \in ToSet(acc[i].goals)}
        at == CHOOSE i \in hits : \A j \in hits : i <= j
    IN  IF hits = {} THEN Append(acc, c)
        ELSE [acc EXCEPT ![at].evidence = @ \cup c.evidence,
                         ![at].goals = @ \o SelectSeq(c.goals, LAMBDA g : g \notin ToSet(acc[at].goals))]

\* Mutant: a decision that joins another one loses its evidence.
JoinDropping(acc, c) ==
    IF \E i \in DOMAIN acc : c.goals # <<>> /\ c.goals[1] \in ToSet(acc[i].goals) THEN acc ELSE Append(acc, c)
ConsolidatedDropping(decisions) == FoldLeft(JoinDropping, <<>>, decisions)

Consolidated(decisions) == FoldLeft(Join, <<>>, decisions)

Neutral(a) == [a EXCEPT !.summary = "neutral", !.narrative = IF @ = "" THEN "" ELSE "neutral",
                        !.prefix = Prefix(a.verdict, EvidenceOf(a.criteria)),
                        !.criteria = [k \in DOMAIN @ |-> [@[k] EXCEPT !.text = "neutral"]]]
Renamed(decisions, kind) ==
    [i \in DOMAIN decisions |-> [decisions[i] EXCEPT !.id = <<kind, i>>, !.rank = i, !.text = "neutral"]]

\* redact_provider_narrative
RedactAll(d) ==
    [d EXCEPT !.version = "neutral",
              !.assessments = [i \in DOMAIN @ |-> Neutral(@[i])],
              !.architecture = Renamed(Consolidated(@), "claim"),
              !.recommendations =
                  Renamed(Consolidated(SortSeq(@, LAMBDA x, y : x.rank < y.rank)), "action"),
              !.partial = TRUE, !.redacted = "all"]

\* redact_narrative_fields: a claim or recommendation is replaced as a whole.
RedactFields(d, fields) ==
    LET hit(kind, of) == \E f \in fields : f.kind = kind /\ f.of = of
        text(old, kind, of) == IF hit(kind, of) THEN "neutral" ELSE old
        decision(c, kinds) == IF \E k \in kinds : hit(k, c.id) THEN [c EXCEPT !.text = "neutral"] ELSE c
    IN  [d EXCEPT
            !.version = text(@, "version", <<>>),
            !.assessments = [i \in DOMAIN @ |->
                [@[i] EXCEPT !.summary = text(@, "summary", <<d.assessments[i].goal>>),
                             !.narrative = text(@, "narrative", <<d.assessments[i].goal>>),
                             !.criteria = [k \in DOMAIN @ |->
                                 [@[k] EXCEPT !.text = text(@, "rationale", <<d.assessments[i].criteria[k].id>>)]]]],
            !.architecture = [i \in DOMAIN @ |-> decision(@[i], {"component", "relationship", "claim"})],
            !.recommendations = [i \in DOMAIN @ |-> decision(@[i], {"title", "reason", "impact"})],
            !.partial = TRUE, !.redacted = "fields"]

-----------------------------------------------------------------------------
(* The merge of a scan's batches.                                           *)
max_goal_priority(d) ==
    LET ps == {Priority[d.goals[i]] : i \in DOMAIN d.goals}
    IN  IF ps = {} THEN 0 ELSE CHOOSE p \in ps : \A q \in ps : q <= p

ClaimOrder(x, y) == \/ max_goal_priority(x) > max_goal_priority(y)
                    \/ max_goal_priority(x) = max_goal_priority(y) /\ x.name < y.name
ActionOrder(x, y) == \/ max_goal_priority(x) > max_goal_priority(y)
                     \/ /\ max_goal_priority(x) = max_goal_priority(y)
                        /\ x.rank < y.rank \/ (x.rank = y.rank /\ x.name < y.name)

\* The first of decisions with the same wording, then the first ones.
Unrepeated(s) ==
    FoldLeft(LAMBDA acc, d : IF \E i \in DOMAIN acc : acc[i].name = d.name THEN acc ELSE Append(acc, d), <<>>, s)
Truncated(s, most) == SubSeq(s, 1, IF Len(s) < most THEN Len(s) ELSE most)

\* retain_recommendations_for_goal_gaps
FullySupported(r, g) ==
    \E i \in DOMAIN r.assessments :
        LET a == r.assessments[i]
        IN  /\ a.goal = g /\ Len(a.criteria) = Cardinality(CriteriaOf[g])
            /\ \A c \in CriteriaOf[g] :
                  \E k \in DOMAIN a.criteria : a.criteria[k].id = c /\ a.criteria[k].verdict = "supported"
ForGaps(r) == SelectSeq(r.recommendations, LAMBDA d : \E i \in DOMAIN d.goals : ~FullySupported(r, d.goals[i]))

\* A batch's decisions get its number into their ids.
OfBatch(b, decisions) == [i \in DOMAIN decisions |-> [decisions[i] EXCEPT !.id = <<b>> \o @]]

\* run_scan, after the batches: those that are valid on their own, joined.
MergedRaw(rs) ==
    LET good == SelectSeq(<<1, 2>>, LAMBDA b : rs[b].assessments # <<>> /\ WellFormed(rs[b], BatchGoals(b)))
        every(Of(_)) == FoldLeft(LAMBDA acc, b : acc \o Of(b), <<>>, good)
        assessments == every(LAMBDA b : rs[b].assessments)
        claims == SortSeq(every(LAMBDA b : OfBatch(b, rs[b].architecture)), ClaimOrder)
        gaps == ForGaps([assessments |-> assessments,
                         recommendations |-> every(LAMBDA b : OfBatch(b, rs[b].recommendations))])
        actions == Truncated(Unrepeated(SortSeq(gaps, ActionOrder)), MaxActions)
        version == FoldLeft(LAMBDA v, b : IF v = "none" THEN rs[b].version ELSE v, "none", good)
    IN  [fits |-> TRUE, assessments |-> assessments,
         architecture |-> Truncated(Unrepeated(claims), MaxClaims),
         recommendations |-> [i \in DOMAIN actions |-> [actions[i] EXCEPT !.rank = i]],
         version |-> IF version = "none" THEN "neutral" ELSE version,
         quoted |-> UNION {rs[b].quoted : b \in {1, 2}},
         credential |-> \E b \in {1, 2} : rs[b].credential,
         degraded |-> Len(good) < 2]

-----------------------------------------------------------------------------
(* validate_report_for_persistence: the provider's version is given, the    *)
(* frozen commits and the approved set are still the report's, the          *)
(* scorecard covers them and adds up, and every decision is unique, linked  *)
(* and backed by evidence.                                                  *)
VersionGiven(d) == d.version \notin {"none", "blank"}
StillFrozen == ~moved
ScorecardConsistent(d) ==
    /\ {a.goal : a \in ToSet(d.assessments)} = ToSet(FrozenGoals) /\ Len(d.assessments) = Len(FrozenGoals)
    /\ \A a \in ToSet(d.assessments) :
          /\ {c.id : c \in ToSet(a.criteria)} = CriteriaOf[a.goal] /\ Differ(a.criteria, LAMBDA c : c.id)
          /\ a.verdict = aggregate_goal(a.criteria)
          /\ \A c \in ToSet(a.criteria) : c.verdict \in {"supported", "partial"} => c.evidence # {}
    /\ d.score = score_report(d.assessments)
DecisionsBacked(d) ==
    /\ \A c \in ToSet(d.architecture) : c.name # 0 /\ c.evidence # {}
    /\ Differ(d.architecture, LAMBDA c : c.id)
    /\ \A r \in ToSet(d.recommendations) : r.name # 0 /\ r.evidence # {} /\ r.goals # <<>>
    /\ Differ(d.recommendations, LAMBDA r : r.id) /\ Differ(d.recommendations, LAMBDA r : r.rank)
\* verify_evidence of what was bound at the frozen commit.
EvidenceResolves(d) ==
    \A e \in UNION {EvidenceOf(a.criteria) : a \in ToSet(d.assessments)}
                \cup EvidenceOf(d.architecture) \cup EvidenceOf(d.recommendations) : e \in Bindable
Persistable(d) ==
    /\ VersionGiven(d) /\ StillFrozen /\ ScorecardConsistent(d)
    /\ DecisionsBacked(d) /\ EvidenceResolves(d)

-----------------------------------------------------------------------------
(* Replies: a good one of a batch and what may be different in it.          *)
RawCriterion(id, verdict, cites, valid) == [id |-> id, verdict |-> verdict, cites |-> cites, valid |-> valid]
RawGoal(g, criteria) == [goal |-> g, criteria |-> criteria, narrative |-> g = "g1"]
Decision(id, name, goals, cites, rank, complete) ==
    [id |-> id, name |-> name, goals |-> goals, cites |-> cites, rank |-> rank, complete |-> complete]

Verdicts == {"supported", "partial", "unsupported", "unverified"}
FirstCriterion == {RawCriterion("c1", v, e, TRUE) : v \in Verdicts, e \in {{}, {"e1"}, {"bad"}, {"e1", "bad"}}}
                  \cup {RawCriterion("c1", "supported", {"e1"}, FALSE), RawCriterion("c9", "supported", {"e1"}, TRUE)}
SecondCriterion == {<<>>, <<RawCriterion("c2", "supported", {"e2"}, TRUE)>>,
                    <<RawCriterion("c2", "unsupported", {}, TRUE)>>, <<RawCriterion("c1", "supported", {"e1"}, TRUE)>>}
GoodGoal == [g1 |-> RawGoal("g1", <<RawCriterion("c1", "supported", {"e1"}, TRUE),
                                    RawCriterion("c2", "partial", {"e2"}, TRUE)>>),
             g2 |-> RawGoal("g2", <<RawCriterion("c3", "unsupported", {}, TRUE)>>)]

Claims(g) == {<<>>, <<Decision(<<"a">>, 2, <<g>>, {"e1"}, 1, TRUE), Decision(<<"b">>, 1, <<g>>, {"e2"}, 1, TRUE)>>,
              <<Decision(<<"a">>, 1, <<g>>, {"e1"}, 1, TRUE), Decision(<<"a">>, 3, <<>>, {"e3"}, 1, TRUE)>>,
              <<Decision(<<"a">>, 1, <<g>>, {"bad"}, 1, TRUE), Decision(<<"b">>, 2, <<g>>, {"e2"}, 1, FALSE)>>,
              <<Decision(<<"a">>, 0, <<g>>, {"e1"}, 1, TRUE)>>, <<Decision(<<"a">>, 1, <<"g9">>, {"e1"}, 1, TRUE)>>}
Actions(g) == {<<>>, <<Decision(<<"r">>, 1, <<g>>, {"e1"}, 2, TRUE), Decision(<<"s">>, 2, <<g>>, {"e3"}, 1, TRUE)>>,
               <<Decision(<<"r">>, 1, <<g>>, {"e2"}, 1, TRUE), Decision(<<"s">>, 1, <<g>>, {"e3"}, 0, TRUE)>>,
               <<Decision(<<"r">>, 1, <<>>, {"e1"}, 1, TRUE)>>}

Quotes(p) == {{}, {<<"summary", <<"g1">>>>}, {<<"rationale", <<"c1">>>>, <<"component", p>>},
              {<<"version", <<>>>>, <<"summary", <<"g1">>>>, <<"rationale", <<"c1">>>>, <<"claim", p>>,
               <<"narrative", <<"g1">>>>, <<"rationale", <<"c2">>>>}}
Raw(assessments, claims, actions, quoted, credential, fits) ==
    [assessments |-> assessments, architecture |-> claims, recommendations |-> actions,
     quoted |-> quoted, credential |-> credential, fits |-> fits, version |-> "provider"]
Versions(r) == {[r EXCEPT !.version = v] : v \in {"none", "blank"}}

FirstReplies(p) ==
    {Raw(<<RawGoal("g1", <<c1>> \o c2)>>, <<>>, <<>>, {}, FALSE, TRUE) : c1 \in FirstCriterion, c2 \in SecondCriterion}
    \cup {Raw(<<GoodGoal.g1>>, cs, as, q, k, TRUE) : cs \in Claims("g1"), as \in Actions("g1"), q \in Quotes(p),
                                                     k \in BOOLEAN}
    \cup {Raw(<<>>, <<>>, <<>>, {}, FALSE, TRUE), Raw(<<GoodGoal.g1, GoodGoal.g1>>, <<>>, <<>>, {}, FALSE, TRUE),
          Raw(<<GoodGoal.g1>>, <<>>, <<>>, {}, FALSE, FALSE),
          Raw(<<RawGoal("g1", <<RawCriterion("c1", "partial", {"bad"}, TRUE)>>)>>, <<>>, <<>>,
              {<<"rationale", <<"c1">>>>}, FALSE, TRUE)}
    \cup Versions(Raw(<<GoodGoal.g1>>, <<>>, <<>>, {}, FALSE, TRUE))
SecondReplies ==
    {Raw(<<GoodGoal.g2>>, cs, as, {}, FALSE, TRUE) : cs \in {<<>>, <<Decision(<<"a">>, 1, <<"g2">>, {"e3"}, 1, TRUE)>>},
                                                     as \in Actions("g2")}
    \cup {Raw(<<>>, <<>>, <<>>, {}, FALSE, TRUE)}
    \cup Versions(Raw(<<GoodGoal.g2>>, <<>>, <<>>, {}, FALSE, TRUE))

MatInit ==
    /\ policy \in {"redact", "reject"}
    /\ replies = <<>> /\ raw = NoDoc /\ before = NoDoc /\ doc = NoDoc
    /\ matStage = "batches" /\ moved = FALSE

(* Both batches of a scan end, and their results are merged.                *)
MergeBatches ==
    /\ matStage = "batches" /\ policy = "redact"
    /\ \E x \in FirstReplies(<<1, "a">>), y \in SecondReplies :
          replies' = <<x, y>> /\ raw' = MergedRaw(<<x, y>>)
    /\ matStage' = "raw"
    /\ UNCHANGED <<policy, before, doc, moved>>

(* An agent submits one analysis of all goals.                              *)
Submit ==
    /\ matStage = "batches" /\ policy = "reject"
    /\ \E x \in FirstReplies(<<"a">>), y \in SecondReplies :
          raw' = [x EXCEPT !.assessments = @ \o y.assessments, !.recommendations = @ \o y.recommendations]
                 @@ [degraded |-> FALSE]
    /\ matStage' = "raw"
    /\ UNCHANGED <<policy, replies, before, doc, moved>>

(* materialize_report_for_repositories_with_source_policy, up to screening. *)
Build ==
    /\ matStage = "raw"
    /\ IF WellFormed(raw, ToSet(FrozenGoals))
       THEN matStage' = "screen" /\ before' = Materialized(raw)
       ELSE matStage' = "error" /\ UNCHANGED before
    /\ UNCHANGED <<policy, replies, raw, doc, moved>>

(* screen_provider_narrative and what the policy makes of it.  Quoting in   *)
(* over a quarter of the fields forfeits the whole narrative.               *)
Screen ==
    /\ matStage = "screen"
    /\ LET quoting == Quoting(before, raw.quoted)
           clean == ~raw.credential /\ quoting = {}
           all == raw.credential \/ Cardinality(quoting) * 4 > Cardinality(narrative_fields(before))
           degraded(d) == [d EXCEPT !.partial = @ \/ raw.degraded]
       IN  IF ~clean /\ policy = "reject"
           THEN matStage' = "error" /\ UNCHANGED doc
           ELSE /\ matStage' = "ready"
                /\ doc' = degraded(CASE clean -> before
                                     [] ~clean /\ all -> RedactAll(before)
                                     [] ~clean /\ ~all -> RedactFields(before, quoting))
    /\ UNCHANGED <<policy, replies, raw, before, moved>>

(* The source or a cited excerpt cannot be read, or is more than may be     *)
(* compared; a credential is found before either is asked for.              *)
ScreenFails ==
    /\ matStage = "screen" /\ ~raw.credential
    /\ matStage' = "unreadable"
    /\ UNCHANGED <<policy, replies, raw, before, doc, moved>>

(* Another request replaces the goals, or the commit is pruned.             *)
Moves ==
    /\ matStage = "ready" /\ ~moved
    /\ moved' = TRUE
    /\ UNCHANGED <<policy, replies, matStage, raw, before, doc>>

Record ==
    /\ matStage = "ready"
    /\ matStage' = IF Persistable(doc) THEN "recorded" ELSE "refused"
    /\ UNCHANGED <<policy, replies, raw, before, doc, moved>>

MatNext == MergeBatches \/ Submit \/ Build \/ Screen \/ ScreenFails \/ Moves \/ Record

-----------------------------------------------------------------------------
(* A report answers for every frozen goal once, and a verdict that needs    *)
(* evidence has some.                                                       *)
Complete ==
    doc # NoDoc =>
        /\ [i \in DOMAIN doc.assessments |-> doc.assessments[i].goal] = FrozenGoals
        /\ \A a \in ToSet(doc.assessments), c \in UNION {ToSet(x.criteria) : x \in ToSet(doc.assessments)} :
              /\ c.verdict \in {"supported", "partial"} => c.evidence # {}
              /\ a.prefix = "Yes" => \A k \in DOMAIN a.criteria : a.criteria[k].verdict \in {"supported", "unverified"}

(* "validated verdicts, evidence coordinates, and scores were retained".    *)
EvidenceIn(d) == <<{<<a.goal, a.verdict, {<<c.id, c.verdict, c.evidence>> : c \in ToSet(a.criteria)}>> :
                       a \in ToSet(d.assessments)},
                   EvidenceOf(d.architecture), EvidenceOf(d.recommendations),
                   UNION {ToSet(r.goals) : r \in ToSet(d.recommendations)}, d.score>>
RedactionKeepsFindings == doc # NoDoc => EvidenceIn(doc) = EvidenceIn(before)

\* A decision that the report cannot hold.
Lacking(d) == ~d.complete \/ d.rank = 0 \/ Bind(d.cites) = {}

(* "A claim or recommendation that loses its evidence is dropped, but never *)
(* silently": whatever screening and consolidation did to the report, a     *)
(* decision's evidence is in it or a warning has its name.                  *)
DropsNamed ==
    LET Accounted(kind, offered, held) ==
            \A d \in ToSet(offered) : \/ <<kind, d.id>> \in doc.warnings
                                      \/ ~Lacking(d) /\ Bind(d.cites) \subseteq EvidenceOf(held)
    IN  doc # NoDoc => /\ Accounted("component", raw.architecture, doc.architecture)
                       /\ Accounted("title", raw.recommendations, doc.recommendations)

(* No narrative field of a report holds a text of the provider's that       *)
(* quotes the source, none holds any when there was a credential among      *)
(* them, and what was redacted is partial.  The warnings are no fields and  *)
(* are not screened: a quotation in them is the name, or the citation, of a *)
(* decision that the report does not hold.                                  *)
NoQuoteLeft ==
    doc # NoDoc =>
        /\ Quoting(doc, raw.quoted) = {}
        /\ raw.credential => \A f \in narrative_fields(doc) : f.text # "provider"
        /\ doc.redacted # "none" => doc.partial
        /\ \A w \in doc.warnings \cap raw.quoted :
              \E d \in ToSet(raw.architecture \o raw.recommendations) : d.id = w[2] /\ Lacking(d)

(* Batches that are valid on their own never make the merged report fail,   *)
(* as long as the source can be read, and it is recorded unless the goals   *)
(* or the commit moved, the version a batch gave is blank, a batch gave one *)
(* id twice, or a component or title is empty.                              *)
MergedIsRecorded ==
    policy = "redact" =>
        /\ matStage # "error"
        /\ matStage = "refused" =>
              \/ moved
              \/ doc.version = "blank" /\ \E b \in {1, 2} : replies[b].version = "blank"
              \/ \E d \in ToSet(doc.architecture \o doc.recommendations) : d.name = 0
              \/ doc.redacted # "all" /\ \E b \in {1, 2} :
                    \/ ~Differ(replies[b].architecture, LAMBDA c : c.id)
                    \/ ~Differ(replies[b].recommendations, LAMBDA c : c.id)

(* Coverage lies between none and all, and is all only when every assessed  *)
(* criterion is supported.                                                  *)
ScoreBounded ==
    doc # NoDoc =>
        LET num == doc.score.coverage[1]  den == doc.score.coverage[2]
        IN  /\ num[1] >= 0 /\ num[1] <= 2 * den * num[2]
            /\ den > 0 /\ num[1] = 2 * den * num[2] =>
                  \A a \in ToSet(doc.assessments), k \in 1 .. 2 :
                      k \in DOMAIN a.criteria => a.criteria[k].verdict \in {"supported", "unverified"}

(* A report is whole and backed by evidence, its narrative is free of       *)
(* quoted source whatever the provider returned, its redaction costs no     *)
(* finding, and what it dropped it names.                                   *)
MaterializeSound ==
    Complete /\ RedactionKeepsFindings /\ DropsNamed /\ NoQuoteLeft /\ MergedIsRecorded /\ ScoreBounded
=============================================================================
