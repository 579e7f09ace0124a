----------------------------- MODULE GoalDrafts -----------------------------
(***************************************************************************)
(* Goal generation: the product profile, the draft, at most two revisions, *)
(* the validation of a set against the catalog's coverage families, and    *)
(* the identities of current goals (analyzer/goal_drafts.rs,               *)
(* goal_catalog.rs, product_profile.rs).                                   *)
(*                                                                         *)
(* Texts are abstracted to what the checks tell apart: a key, a title and  *)
(* an outcome are names, with marks for what the checks look for.  The     *)
(* repair of a set, which only tests call at this commit, is GoalRepair.   *)
(***************************************************************************)
EXTENDS Naturals, Sequences, FiniteSets, SequencesExt

CONSTANTS
    MaxRevisions,   \* MAX_REVISIONS
    NoGoal          \* no identity, no result

VARIABLES
    brief,      \* the product brief: [long, mentions], a mention being [signal, before]
    current,    \* the existing goals: a set of [id, key, title, outcome]
    genStage,   \* where the generation is
    profile,    \* the grounded profile: [caps, facts, usableTerms]
    draft,      \* the provider's last reply
    revision,   \* how many revisions were asked for
    calls,      \* calls of the provider
    drafted     \* the goals that are returned, or why there are none

goalVars == <<brief, current, genStage, profile, draft, revision, calls, drafted>>

Business == "business"
Architecture == "architecture"
Operations == "operations"
GOAL_GROUPS == {Business, Architecture, Operations}
Engineering == {Architecture, Operations}
Signals == {"organizations", "integrations", "webhooks", "ai", "sensitive", "scale"}

-----------------------------------------------------------------------------
(* COVERAGE_FAMILIES: where a family's criterion may be, the signal that    *)
(* requires it ("" for always), whether stored sets need it too, and the    *)
(* phase and fallback goal of its repair.                                   *)
Family(label, groups, signal, stored, phase, fallback) ==
    [label |-> label, groups |-> groups, signal |-> signal, stored |-> stored,
     phase |-> phase, fallback |-> fallback]

baselineFamilies == <<
    Family("observability", {Operations}, "", TRUE, "core", Operations),
    Family("tests", {Architecture}, "", TRUE, "core", Architecture),
    Family("agents", {Architecture}, "", FALSE, "core", Architecture),
    Family("metrics", GOAL_GROUPS, "", FALSE, "core", Operations),
    Family("tenants", {Architecture}, "organizations", TRUE, "core", Architecture),
    Family("backups", Engineering, "", TRUE, "core", Operations) >>

deliveryFamilies == <<
    Family("security", Engineering, "", TRUE, "core", Architecture),
    Family("release", Engineering, "", TRUE, "core", Operations),
    Family("vulnerabilities", Engineering, "", TRUE, "supplyChain", "supplyChain"),
    Family("updates", Engineering, "", TRUE, "supplyChain", "supplyChain"),
    Family("licenses", Engineering, "", TRUE, "supplyChain", "supplyChain"),
    Family("bootstrap", Engineering, "", TRUE, "supplyChain", "supplyChain") >>

conditionalFamilies == <<
    Family("integrations", {Architecture}, "integrations", TRUE, "core", Architecture),
    Family("webhooks", {Operations}, "webhooks", TRUE, "webhook", "webhook"),
    Family("aiControls", Engineering, "ai", FALSE, "core", Architecture),
    Family("privacy", Engineering, "sensitive", FALSE, "core", Architecture),
    Family("migrations", Engineering, "", TRUE, "core", Architecture),
    Family("performance", Engineering, "scale", TRUE, "core", Operations) >>

COVERAGE_FAMILIES == baselineFamilies \o deliveryFamilies \o conditionalFamilies

\* capability_mention_is_negated: `before` is the words of the clause before
\* a mention, the nearest first.
Contrast == {"but"}
NegationWords == {"no", "not"}
Recent(before) ==
    LET near == SubSeq(before, 1, IF Len(before) < 6 THEN Len(before) ELSE 6)
        cuts == {i \in DOMAIN near : near[i] \in Contrast}
    IN  IF cuts = {} THEN near ELSE SubSeq(near, 1, Min(cuts) - 1)
Negated(before) ==
    LET r == Recent(before)
    IN  /\ ~\E i \in 1 .. Len(r) - 1 : r[i] = "only" /\ r[i + 1] = "not"
        /\ \E i \in DOMAIN r : r[i] \in NegationWords

\* contains_any_affirmed: a mention that is not negated makes the signal.
BriefSignals(b) == {m.signal : m \in {x \in b.mentions : ~Negated(x.before)}}

\* A family is required when its signal is given.
Applies(f, signals) == f.signal = "" \/ f.signal \in signals

-----------------------------------------------------------------------------
(* A text is what the checks find in it:                                    *)
(*   placeholder, drafting, aboutBrief   not substantive                    *)
(*   anchor, achieved, measured          repository_verifiability_failure   *)
(*   hardTactic, personaTask, tactic, material, negated, executive          *)
(*                                       business_goal_tactical_reason      *)
(*   absent                              a negated coverage statement       *)
(*   ownTerm                             a term of the product profile      *)
(* A criterion also covers families.  `shape` is "limits" when a field is   *)
(* out of bounds and "echo" when the title is one of the archetype menu.    *)
Criterion(covers, says) == [covers |-> covers, says |-> says]

Goal(key, title, outcome, group, covers) ==
    [id |-> NoGoal, key |-> key, title |-> title, outcome |-> outcome, group |-> group,
     shape |-> "fine", facts |-> {"f1"},
     titleSays |-> {"material", "ownTerm"}, outcomeSays |-> {"material"},
     criteria |-> <<Criterion(covers, {"anchor"}), Criterion({}, {"anchor", "measured"})>>]

CriterionTexts(g) == {g.criteria[i].says : i \in DOMAIN g.criteria}
Statements(g) == {g.titleSays, g.outcomeSays} \cup CriterionTexts(g)

\* provider_goal_non_substantive_reason
NonSubstantive(g) ==
    \/ \E s \in Statements(g) : s \cap {"placeholder", "drafting"} # {}
    \/ "aboutBrief" \in g.titleSays

\* repository_verifiability_failure: something of a repository is named, and
\* a result that was achieved comes with what measures it.
HasAnchor(says) == "anchor" \in says
ClaimsOutcome(says) == "achieved" \in says /\ "measured" \notin says
Verifiable(says) == HasAnchor(says) /\ ~ClaimsOutcome(says)

MaterialConsequence(says) == "material" \in says /\ "negated" \notin says
NamesTactic(g) == "hardTactic" \in g.titleSays
PersonaTask(g) == "personaTask" \in g.titleSays
DescribesTactics(g) == \E s \in {g.outcomeSays} \cup CriterionTexts(g) : "tactic" \in s

\* business_goal_tactical_reason, without the lexical materiality that no
\* caller asks for.
Tactical(g) ==
    \/ NamesTactic(g)
    \/ /\ PersonaTask(g)
       /\ ~(MaterialConsequence(g.titleSays) \/ MaterialConsequence(g.outcomeSays))
    \/ /\ DescribesTactics(g) /\ ~MaterialConsequence(g.titleSays)
       /\ ~(/\ MaterialConsequence(g.outcomeSays)
            /\ \E s \in Statements(g) : "executive" \in s)

\* statement_affirms_coverage
AffirmsCoverage(c, f) == f.label \in c.covers /\ "absent" \notin c.says

\* goals_affirm_all_coverage: goals of the family's groups affirm it.
Affirmed(goals, f) ==
    \E i \in DOMAIN goals : /\ goals[i].group \in f.groups
                            /\ \E k \in DOMAIN goals[i].criteria : AffirmsCoverage(goals[i].criteria[k], f)

Missing(goals, signals, generated) ==
    {i \in DOMAIN COVERAGE_FAMILIES :
        LET f == COVERAGE_FAMILIES[i]
        IN  (generated \/ f.stored) /\ Applies(f, signals) /\ ~Affirmed(goals, f)}

OfGroup(goals, group) == {i \in DOMAIN goals : goals[i].group = group}
Distinct(goals, Field(_)) ==
    \A i, j \in DOMAIN goals : i # j => Field(goals[i]) # Field(goals[j])

\* What every goal has to satisfy on its own.
WithinLimits(g) ==
    /\ ~NonSubstantive(g) /\ g.shape # "limits" /\ Len(g.criteria) \in 2 .. 6
    /\ \A s \in CriterionTexts(g) : Verifiable(s)

\* Mutant: two drafts may have one key.
ValidSetAnyKeys(goals, signals, generated) ==
    /\ Len(goals) \in (IF generated THEN 6 ELSE 3) .. 9
    /\ \A i \in DOMAIN goals :
          /\ WithinLimits(goals[i]) /\ goals[i].group \in GOAL_GROUPS
          /\ ~(goals[i].group = Business /\ Tactical(goals[i]))
    /\ Distinct(goals, LAMBDA g : g.title)
    /\ \A group \in GOAL_GROUPS : OfGroup(goals, group) # {}
    /\ generated => Cardinality(OfGroup(goals, Business)) >= 2
    /\ Missing(goals, signals, generated) = {}

\* validate_goal_drafts_with_materiality_and_profile.
ValidSet(goals, signals, generated) ==
    /\ Len(goals) \in (IF generated THEN 6 ELSE 3) .. 9
    /\ \A i \in DOMAIN goals :
          /\ WithinLimits(goals[i]) /\ goals[i].group \in GOAL_GROUPS
          /\ ~(goals[i].group = Business /\ Tactical(goals[i]))
    /\ Distinct(goals, LAMBDA g : g.key)
    /\ Distinct(goals, LAMBDA g : g.title)
    /\ \A i, j \in DOMAIN goals : i # j /\ goals[i].id # NoGoal => goals[i].id # goals[j].id
    /\ \A group \in GOAL_GROUPS : OfGroup(goals, group) # {}
    /\ generated => Cardinality(OfGroup(goals, Business)) >= 2
    /\ Missing(goals, signals, generated) = {}

\* validate_provider_goal_text: no title of the archetype menu.
Tailored(goals) == \A i \in DOMAIN goals : goals[i].id # NoGoal \/ goals[i].shape # "echo"

\* validate_goal_grounding: known facts, and for business goals one of them
\* and the product's own terms.
Grounded(goals) ==
    /\ profile.usableTerms
    /\ \A i \in DOMAIN goals :
          /\ goals[i].facts \subseteq profile.facts
          /\ goals[i].group = Business =>
                goals[i].facts # {} /\ "ownTerm" \in goals[i].titleSays \cup goals[i].outcomeSays

\* validate_grounded_provider_goal_drafts
Accepts(goals) == Tailored(goals) /\ ValidSet(goals, profile.caps, TRUE) /\ Grounded(goals)

\* validate_edited_goal_set: new keys, the stored identities, the smaller set.
Edited(goals) ==
    [i \in DOMAIN goals |-> [goals[i] EXCEPT !.key = <<"edited-goal", i>>,
                                             !.id = IF @ = NoGoal THEN <<"new", i>> ELSE @]]
ReadyForAnalysis(goals, signals) == ValidSet(Edited(goals), signals, FALSE)

-----------------------------------------------------------------------------
(* reconcile_goal_identities: a draft takes the key and the identity of the *)
(* one current goal it matches; a key that names a different goal is first  *)
(* replaced by one made from title and outcome; several matches are an      *)
(* error.                                                                   *)
Rekeyed(g) ==
    IF \E e \in current : e.key = g.key /\ e.title # g.title /\ e.outcome # g.outcome
    THEN [g EXCEPT !.key = <<"generated", g.title, g.outcome>>, !.id = NoGoal]
    ELSE g

Matches(g) == {e \in current : e.key = g.key \/ e.title = g.title \/ e.outcome = g.outcome}

Reconciled(g) ==
    LET r == Rekeyed(g)
    IN  IF Matches(r) = {} THEN r
        ELSE LET e == CHOOSE e \in Matches(r) : TRUE
             IN  [r EXCEPT !.key = e.key, !.id = e.id]

Ambiguous(goals) == \E i \in DOMAIN goals : Cardinality(Matches(Rekeyed(goals[i]))) > 1

-----------------------------------------------------------------------------
(* The drafts a provider may return: a set that passes, or one that misses  *)
(* in one respect.                                                          *)
All(signals, groups) ==
    {COVERAGE_FAMILIES[i].label : i \in {j \in DOMAIN COVERAGE_FAMILIES :
        Applies(COVERAGE_FAMILIES[j], signals) /\ COVERAGE_FAMILIES[j].groups \cap groups # {}}}

Good(signals) == <<
    Goal(<<"k1">>, "t1", "o1", Business, {}), Goal(<<"k2">>, "t2", "o2", Business, {"metrics"}),
    Goal(<<"k3">>, "t3", "o3", Architecture, All(signals, {Architecture})),
    Goal(<<"k4">>, "t4", "o4", Architecture, {}),
    Goal(<<"k5">>, "t5", "o5", Operations, All(signals, {Operations})),
    Goal(<<"k6">>, "t6", "o6", Operations, {}) >>

TitleMarks == {{}} \cup {m \cup {"ownTerm"} : m \in SUBSET {"hardTactic", "personaTask", "material", "negated"}}
OutcomeMarks == SUBSET {"tactic", "material", "executive"}
Unusable == {{"anchor", "placeholder"}, {}, {"anchor", "achieved"}, {"anchor", "absent"}}

Spoiled(goals) ==
       {[goals EXCEPT ![i].shape = s] : i \in {1, 4}, s \in {"limits", "echo"}}
    \cup {[goals EXCEPT ![3].criteria[1].says = s] : s \in Unusable}
    \cup {[goals EXCEPT ![2].key = <<"k1">>], [goals EXCEPT ![2].title = "t1"],
          [goals EXCEPT ![2].group = Operations], [goals EXCEPT ![2].group = "other"],
          [goals EXCEPT ![3].criteria[1].covers = {}], [goals EXCEPT ![3].criteria = <<>>],
          [goals EXCEPT ![1].facts = {}], [goals EXCEPT ![4].facts = {"f9"}],
          [goals EXCEPT ![5].group = Architecture, ![6].group = Architecture],
          SubSeq(goals, 1, 5), goals \o <<goals[4]>>}
    \cup {[goals EXCEPT ![1].titleSays = t, ![1].outcomeSays = o] : t \in TitleMarks, o \in OutcomeMarks}

GoalReplies(signals) ==
    {[kind |-> "failed"], [kind |-> "shape"]}
    \cup {[kind |-> "goals", goals |-> g] : g \in {Good(signals)} \cup Spoiled(Good(signals))}

Identity(id, key, title, outcome) == [id |-> id, key |-> key, title |-> title, outcome |-> outcome]
Currents == {
    {}, {Identity(<<"g1">>, <<"k1">>, "t1", "o1")},
    {Identity(<<"g1">>, <<"k9">>, "t1", "o9")}, {Identity(<<"g1">>, <<"k1">>, "t9", "o9")},
    {Identity(<<"g1">>, <<"k9">>, "t1", "o2")},
    {Identity(<<"g1">>, <<"k1">>, "t9", "o1"), Identity(<<"g2">>, <<"k9">>, "t1", "o9")},
    {Identity(<<"g1">>, <<"k1">>, "t1", "o1"), Identity(<<"g2">>, <<"k2">>, "t2", "o2")} }

Mention(signal, before) == [signal |-> signal, before |-> before]
Mentions == {
    {}, {Mention("webhooks", <<"supports">>)}, {Mention("webhooks", <<"no">>)},
    {Mention("webhooks", <<"a", "b", "c", "d", "e", "f", "no">>), Mention("ai", <<"only", "not">>)},
    {Mention("webhooks", <<"supports", "but", "not">>), Mention("ai", <<"yes", "no">>)} }

NoDraft == [kind |-> "none"]
NoProfile == [caps |-> {}, facts |-> {}, usableTerms |-> FALSE]
Profiles ==
    [caps : SUBSET {"webhooks", "ai"}, facts : {{}, {"f1", "f2"}}, usableTerms : BOOLEAN,
     named : BOOLEAN, factsCited : BOOLEAN, capsCited : BOOLEAN]

\* validate_product_profile
ValidProfile(p) ==
    p.named /\ Cardinality(p.facts) \in 2 .. 30 /\ p.factsCited /\ (p.caps # {} => p.capsCited)

GoalsInit ==
    /\ brief \in [long : BOOLEAN, mentions : Mentions] /\ current \in Currents
    /\ genStage = "begin" /\ profile = NoProfile /\ draft = NoDraft
    /\ revision = 0 /\ calls = 0 /\ drafted = NoGoal

Stops(why) == genStage' = "ended" /\ drafted' = [why |-> why, goals |-> <<>>]

(* A brief of fewer than twenty characters is refused before any call.      *)
Begin ==
    /\ genStage = "begin"
    /\ IF ~brief.long THEN Stops("brief")
       ELSE genStage' = "profile" /\ UNCHANGED drafted
    /\ UNCHANGED <<brief, current, profile, draft, revision, calls>>

(* build_product_profile: an incomplete profile, an ungrounded fact and a   *)
(* capability without a source end the generation.                          *)
BuildProfile ==
    /\ genStage = "profile"
    /\ calls' = calls + 1
    /\ \/ UNCHANGED profile /\ Stops("profile")
       \/ \E p \in Profiles :
             IF ValidProfile(p)
             THEN /\ profile' = [caps |-> p.caps, facts |-> p.facts, usableTerms |-> p.usableTerms]
                  /\ genStage' = "draft" /\ UNCHANGED drafted
             ELSE UNCHANGED profile /\ Stops("profile")
    /\ UNCHANGED <<brief, current, draft, revision>>

(* The provider drafts or revises; a failed run ends the generation.        *)
AskForGoals ==
    /\ genStage = "draft"
    /\ calls' = calls + 1
    /\ \E r \in GoalReplies(profile.caps) :
          /\ draft' = r
          /\ IF r.kind = "failed" THEN Stops("provider")
             ELSE genStage' = "review" /\ UNCHANGED drafted
    /\ UNCHANGED <<brief, current, profile, revision>>

(* The loop of generate_goal_drafts_inner: accepted, revised, or given up.  *)
Review ==
    /\ genStage = "review"
    /\ IF draft.kind = "goals" /\ Accepts(draft.goals)
       THEN /\ IF Ambiguous(draft.goals) THEN Stops("ambiguous")
               ELSE /\ genStage' = "ended"
                    /\ drafted' = [why |-> "",
                                   goals |-> [i \in DOMAIN draft.goals |-> Reconciled(draft.goals[i])]]
            /\ UNCHANGED revision
       ELSE IF revision = MaxRevisions
       THEN Stops("materiality") /\ UNCHANGED revision
       ELSE genStage' = "draft" /\ revision' = revision + 1 /\ UNCHANGED drafted
    /\ draft' = NoDraft
    /\ UNCHANGED <<brief, current, profile, calls>>

(* The limit on the whole generation.                                       *)
OverallLimit ==
    /\ genStage \in {"profile", "draft"}
    /\ Stops("limit")
    /\ UNCHANGED <<brief, current, profile, draft, revision, calls>>

GoalsNext == Begin \/ BuildProfile \/ AskForGoals \/ Review \/ OverallLimit

-----------------------------------------------------------------------------
GoalsTypeOK ==
    /\ genStage \in {"begin", "profile", "draft", "review", "ended"}
    /\ revision \in 0 .. MaxRevisions /\ calls \in 0 .. MaxRevisions + 2

Returned == IF drafted = NoGoal THEN <<>> ELSE drafted.goals
OneIdentity == \E i, j \in DOMAIN Returned :
                  i # j /\ Returned[i].id = Returned[j].id /\ Returned[i].id # NoGoal

(* A returned set has every family that its profile calls for, and once it  *)
(* is approved a scan accepts it: unless the brief's own words call for     *)
(* more than the profile, or two drafts took the identity of one goal.      *)
ReturnedUsable ==
    Returned # <<>> =>
        /\ Missing(Returned, profile.caps, TRUE) = {}
        /\ BriefSignals(brief) \subseteq profile.caps /\ ~OneIdentity
              => ReadyForAnalysis(Returned, BriefSignals(brief))

(* A draft never takes over the identity of a current goal that it shares   *)
(* nothing with but the key.                                                *)
IdentityNotStolen ==
    \A i \in DOMAIN Returned : Returned[i].id # NoGoal =>
        \E e \in current : /\ e.id = Returned[i].id /\ e.key = Returned[i].key
                           /\ e.title = Returned[i].title \/ e.outcome = Returned[i].outcome

(* Keys of a returned set differ, again unless two drafts match one goal.   *)
KeysApart ==
    \A i, j \in DOMAIN Returned : i # j /\ Returned[i].key = Returned[j].key
        => Returned[i].id = Returned[j].id /\ Returned[i].id # NoGoal

(* Goal generation asks the provider at most four times, and what it        *)
(* returns can be approved and scanned without breaking current identities. *)
GoalsSound == GoalsTypeOK /\ ReturnedUsable /\ IdentityNotStolen /\ KeysApart
=============================================================================
