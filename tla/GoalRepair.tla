----------------------------- MODULE GoalRepair -----------------------------
(***************************************************************************)
(* The deterministic repair of a goal set (analyzer/goal_drafts.rs): the   *)
(* cap, the consolidation of tactical goals, the keys that occur twice,    *)
(* and repair_required_engineering_baseline, one family of the catalog a   *)
(* step.  At this commit they are reached by tests only; the order is that *)
(* of the tests.                                                           *)
(*                                                                         *)
(* Of the goals with room the code takes the one that shares most words    *)
(* with the family; here it may be any of them.                            *)
(***************************************************************************)
EXTENDS GoalDrafts

CONSTANTS
    MaxOffered,     \* bound: goals a provider offers
    Keep,           \* MAX_PROVIDER_GOALS_BEFORE_REPAIR
    Most,           \* goals a set may have: 9
    PerGoal         \* criteria a goal may have before it has no room: 6

VARIABLES
    asked,      \* the signals of the brief
    set,        \* the goals, as in GoalDrafts, with a priority
    phase,      \* the step of the repair
    queue,      \* families of the phase that are still to be looked at
    pools       \* criteria that found no room, by fallback goal

repairVars == <<asked, set, phase, queue, pools>>

Pools == {"supplyChain", Architecture, Operations, "webhook"}
NoPools == [p \in Pools |-> <<>>]

Repaired(key, title, group, priority, criteria, says) ==
    [key |-> key, title |-> title, group |-> group, priority |-> priority,
     criteria |-> criteria, titleSays |-> says, outcomeSays |-> {"material"}]

\* Offered goals: full ones, ones with room, and ones that are tactical or
\* not substantive; a key occurs twice, one is that of a fallback goal.
Filled(n, covers) == [k \in 1 .. n |-> Criterion(IF k = 1 THEN covers ELSE {}, {"anchor"})]
Offered(i, choice, covers) ==
    Repaired(IF i < 3 THEN <<"key", 1>> ELSE <<Architecture, 1>>,
             IF i = 3 THEN <<Architecture, 1>> ELSE <<"title", i>>, choice[1], choice[2],
             Filled(IF choice[2] = 1 THEN PerGoal - 1 ELSE PerGoal, covers),
             CASE choice[2] = 3 -> {"hardTactic"} [] choice[2] = 4 -> {"placeholder"} [] OTHER -> {"material"})
OfferedKinds == ({Architecture} \X {1, 2}) \cup ({Operations} \X {1}) \cup ({Business} \X {1, 3, 4})

RepairFrom(signals, goals) ==
    asked = signals /\ set = goals /\ phase = "cap" /\ queue = <<>> /\ pools = NoPools

RepairInit ==
    \E n \in 0 .. MaxOffered, covers \in {{}, {"observability", "release", "backups"}}, signals \in {{}, Signals} :
    \E gs \in [1 .. n -> OfferedKinds] : RepairFrom(signals, [i \in 1 .. n |-> Offered(i, gs[i], covers)])

\* Whether goal i of the set is kept: the first of its group, or one of the
\* highest in priority that still fit.
FirstOfGroup(i) == \A j \in 1 .. i - 1 : set[j].group # set[i].group
Ahead(j, i) == ~FirstOfGroup(j) /\ (set[j].priority > set[i].priority
                                    \/ (set[j].priority = set[i].priority /\ j < i))
Kept(i) ==
    LET firsts == {j \in DOMAIN set : FirstOfGroup(j)}
    IN  i \in firsts \/ Cardinality(firsts) + Cardinality({j \in DOMAIN set : Ahead(j, i)}) < Keep

(* cap_provider_goal_set, in the set's order.                               *)
Cap ==
    /\ phase = "cap"
    /\ set' = IF Len(set) <= Keep THEN set
              ELSE LET kept == SetToSortSeq({i \in DOMAIN set : Kept(i)}, <)
                   IN  [i \in DOMAIN kept |-> set[kept[i]]]
    /\ phase' = "consolidate"
    /\ UNCHANGED <<asked, queue, pools>>

\* unique_repair_goal_key, and unique_repair_goal_title likewise.
unique_repair_goal_key(goals, base) ==
    <<base, CHOOSE n \in 1 .. 99 : /\ \A i \in DOMAIN goals : goals[i].key # <<base, n>>
                                   /\ \A m \in 1 .. n - 1 : \E i \in DOMAIN goals : goals[i].key = <<base, m>> >>
unique_repair_goal_title(goals, base) ==
    <<base, CHOOSE n \in 1 .. 99 : /\ \A i \in DOMAIN goals : goals[i].title # <<base, n>>
                                   /\ \A m \in 1 .. n - 1 : \E i \in DOMAIN goals : goals[i].title = <<base, m>> >>

(* consolidate_tactical_business_goals: a business goal that is tactical or *)
(* not substantive goes; when none is left, the core outcome takes up to    *)
(* three of the tactical ones' criteria.                                    *)
Consolidate ==
    /\ phase = "consolidate"
    /\ LET drops(g) == g.group = Business /\ (Tactical(g) \/ NonSubstantive(g))
           retained == SelectSeq(set, LAMBDA g : ~drops(g))
           useful == {g \in ToSet(set) : drops(g) /\ ~NonSubstantive(g)}
           taken == IF useful = {} THEN 0 ELSE 3
       IN  set' = IF Len(retained) < Len(set) /\ \A i \in DOMAIN retained : retained[i].group # Business
                  THEN Append(retained,
                              Repaired(unique_repair_goal_key(retained, "core"), <<"core", 1>>,
                                       Business, 5, Filled(3 + taken, {}), {"material"}))
                  ELSE retained
    /\ phase' = "keys"
    /\ UNCHANGED <<asked, queue, pools>>

\* Families of a phase whose signal the brief gives.
catalog_repairs(p) ==
    SelectSeq(COVERAGE_FAMILIES, LAMBDA f : f.phase = p /\ Applies(f, asked))

(* repair_duplicate_provider_keys: a key that was seen is made from the     *)
(* title and the outcome.                                                   *)
DistinctKeys ==
    /\ phase = "keys"
    /\ set' = [i \in DOMAIN set |->
                  IF \E j \in 1 .. i - 1 : set[j].key = set[i].key
                  THEN [set[i] EXCEPT !.key = <<"generated", set[i].title>>] ELSE set[i]]
    /\ phase' = "supplyChain" /\ queue' = catalog_repairs("supplyChain")
    /\ UNCHANGED <<asked, pools>>

\* place_repair_criterion: goals of the family's groups with room.
Room(f) == {i \in DOMAIN set : set[i].group \in f.groups /\ Len(set[i].criteria) < PerGoal}

(* One family: affirmed already, placed in a goal with room, or pooled.     *)
(* The core families' gaps were found before any of them was placed.        *)
Place ==
    /\ queue # <<>>
    /\ LET f == Head(queue)
           criterion == Criterion({f.label}, {"anchor"})
       IN  \/ phase # "core" /\ Affirmed(set, f) /\ UNCHANGED <<set, pools>>
           \/ /\ phase = "core" \/ ~Affirmed(set, f)
              /\ IF Room(f) # {}
                 THEN /\ \E i \in Room(f) : set' = [set EXCEPT ![i].criteria = Append(@, criterion)]
                      /\ UNCHANGED pools
                 ELSE pools' = [pools EXCEPT ![f.fallback] = Append(@, criterion)] /\ UNCHANGED set
    /\ queue' = Tail(queue)
    /\ UNCHANGED <<asked, phase>>

\* FALLBACK_GOALS: the group and the priority of a fallback goal.
FallbackGroup(p) == IF p \in {"supplyChain", Architecture} THEN Architecture ELSE Operations
FallbackPriority(p) == IF p \in {"supplyChain", "webhook"} THEN 3 ELSE 4

\* push_fallback_goal, unless there is nothing to add or no room for it: the
\* supply-chain goal has a leading criterion, another is padded to two.
Push(goals, p) ==
    LET extra == <<Criterion({}, {"anchor"})>>
        criteria == CASE p = "supplyChain" -> extra \o pools[p]
                      [] p # "supplyChain" /\ Len(pools[p]) = 1 -> pools[p] \o extra
                      [] OTHER -> pools[p]
    IN  IF pools[p] = <<>> \/ Len(goals) >= Most THEN goals
        ELSE Append(goals, Repaired(unique_repair_goal_key(goals, p), unique_repair_goal_title(goals, p),
                                    FallbackGroup(p), FallbackPriority(p), criteria, {"material"}))

\* RepairPhase: the families' passes, in order.
FollowingPhase == [supplyChain |-> "core", core |-> "webhook", webhook |-> "done"]

(* The end of a phase: its fallback goals, then the next phase.             *)
EndPhase ==
    /\ phase \in DOMAIN FollowingPhase /\ queue = <<>>
    /\ set' = CASE phase = "core" -> Push(Push(set, Architecture), Operations)
                [] OTHER -> Push(set, phase)
    /\ phase' = FollowingPhase[phase]
    /\ queue' = CASE phase = "supplyChain" ->
                       SelectSeq(catalog_repairs("core"), LAMBDA f : ~Affirmed(set', f))
                  [] OTHER -> catalog_repairs(phase')
    /\ pools' = NoPools
    /\ UNCHANGED asked

RepairNext == Cap \/ Consolidate \/ DistinctKeys \/ Place \/ EndPhase

-----------------------------------------------------------------------------
(* The nine-goal guarantee: a capped set is repaired within the limit,      *)
(* covers every family that the brief calls for, and has no key, and no     *)
(* title, twice, even when a draft already has that of a fallback goal.     *)
RepairSound ==
    /\ phase # "cap" => Len(set) <= Most
    /\ phase \notin {"cap", "consolidate", "keys"} => Distinct(set, LAMBDA g : g.key)
    /\ phase = "done" =>
          /\ \A i \in DOMAIN COVERAGE_FAMILIES :
                Applies(COVERAGE_FAMILIES[i], asked) => Affirmed(set, COVERAGE_FAMILIES[i])
          /\ Distinct(set, LAMBDA g : g.title)
=============================================================================
