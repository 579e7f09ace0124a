--------------------------- MODULE MapGeneration ---------------------------
(***************************************************************************)
(* Generation of a codebase map (map_generate.rs, map_materialize.rs): one *)
(* survey, deep dives into groups of components that run concurrently and  *)
(* end in any order, the merge of what came back, the screening of its     *)
(* wording, and one pass in which the provider rewrites screened fields.   *)
(* An agent's map is submitted whole and takes the second half only.       *)
(*                                                                         *)
(* A citation names a repository, a directory in front of the path and a   *)
(* file.  Wording is only told apart by what the screening looks at; a     *)
(* field is <<kind, i, j>>.                                                *)
(***************************************************************************)
EXTENDS Naturals, Sequences, FiniteSets, SequencesExt

CONSTANTS
    PerGroup,           \* DEEP_DIVE_COMPONENTS_PER_CHUNK
    MaxConcurrent,      \* MAX_CONCURRENT_DEEP_DIVES
    MaxComponents,      \* MAX_MAP_COMPONENTS
    MaxSteps,           \* MAX_MAP_FLOW_STEPS
    MaxItems,           \* MAX_MAP_INTERFACES_PER_COMPONENT and the other limits
    NoMap               \* nothing was built

VARIABLES
    mapPolicy,     \* MapNarrativePolicy: "Redact" for a scan, "Reject" for an agent
    mapStage,   \* "start", "groups", "screened", "built" or "failed"
    survey,     \* what the provider surveyed
    waiting,    \* groups not yet asked for
    inflight,   \* groups being detailed
    dives,      \* deep dives in the order in which they came back
    failed,     \* groups that could not be detailed
    map,        \* the materialized structure
    offered,    \* the wording of its fields as the provider gave it
    wording,    \* the wording of its fields now
    screened,   \* positions of the fields that were replaced
    told,       \* analysis_warnings
    partial

mapVars == <<mapPolicy, mapStage, survey, waiting, inflight, dives, failed, map, offered, wording, screened, told, partial>>

-----------------------------------------------------------------------------
(* What the provider sends.                                                 *)
Citation(repo, dir, file) == [repo |-> repo, dir |-> dir, file |-> file]
Resolvable == {Citation("r1", "", "a")}
Prefixed == {Citation("r2", "repository-1", "b")}
Dangling == {Citation("r1", "", "gone"), Citation("r1", "repository-1", "a"), Citation("zz", "", "a")}

Surveyed(name, repo, cites, roots) == [name |-> name, repo |-> repo, cites |-> cites, roots |-> roots]
Api == Surveyed("api", "r1", Resolvable, {"src"})
Db == Surveyed("db", "r2", Prefixed, {"repository-1/db", "../up"})
Survey(components, technologies, entries) ==
    [components |-> components, technologies |-> technologies, entries |-> entries]
EntryPoint(component, cites) == [component |-> component, cites |-> cites]

Surveys == {
    Survey(<<Api, Db>>, <<Resolvable, Dangling>>, <<EntryPoint("DB", Resolvable), EntryPoint("api", Dangling), EntryPoint("ui", Resolvable)>>),
    Survey(<<Api, Surveyed("API", "r2", Prefixed, {"b"}), Db>>, <<Resolvable, Prefixed, Resolvable>>, <<>>),
    Survey(<<Surveyed("api", "r1", Dangling, {"src"}), Api>>, <<Resolvable>>, <<EntryPoint("api", Prefixed)>>),
    Survey(<<Surveyed("", "r1", Resolvable, {"src"}), Surveyed("db", "zz", Resolvable, {"src"}), Surveyed("db", "r2", Resolvable, {"../up"})>>, <<>>, <<>>) }

Detail(name, interfaces, concerns, extra) ==
    [name |-> name, interfaces |-> interfaces, concerns |-> concerns, extra |-> extra]
Relation(from, to, cites) == [from |-> from, to |-> to, kind |-> "Calls", cites |-> cites]
Step(component, cites) == [component |-> component, cites |-> cites]
Flow(name, steps) == [name |-> name, steps |-> steps]
Dive(details, links, flows) == [details |-> details, links |-> links, flows |-> flows]

Dives == {
    Dive(<<Detail("Api", <<Resolvable, Dangling>>, <<Resolvable>>, Prefixed)>>, <<Relation("api", "db", Resolvable)>>, <<>>),
    Dive(<<Detail("db", <<Resolvable, Resolvable, Resolvable>>, <<>>, Resolvable), Detail("ui", <<Resolvable>>, <<>>, {})>>,
         <<Relation("API", "DB", Dangling), Relation("db", "ui", Resolvable)>>,
         <<Flow("write", <<Step("api", Dangling), Step("ui", Resolvable), Step("db", Resolvable)>>)>>),
    Dive(<<>>, <<Relation("db", "api", Resolvable), Relation("api", "api", Resolvable), Relation("db", "db", Resolvable)>>,
         <<Flow("show", <<Step("api", Resolvable), Step("ui", Resolvable)>>),
           Flow("read", <<Step("api", Dangling), Step("db", Dangling), Step("ui", Resolvable), Step("db", Resolvable)>>)>>) }

-----------------------------------------------------------------------------
(* normalize_survey_paths, normalize_deep_dive_paths and bind_evidence: the *)
(* directory of the cited repository is taken off, of no other one.         *)
Locations == [r1 |-> "repository-0", r2 |-> "repository-1"]
Tree == [r1 |-> {"a"}, r2 |-> {"b"}]
strip_directory_prefix(c) == IF c.repo \in DOMAIN Locations /\ c.dir = Locations[c.repo] THEN [c EXCEPT !.dir = ""] ELSE c
bind_evidence(cites) ==
    {c \in {strip_directory_prefix(x) : x \in cites} : c.repo \in DOMAIN Tree /\ c.dir = "" /\ c.file \in Tree[c.repo]}

normalized_name(n) ==
    CASE n \in {"api", "Api", "API"} -> "api" [] n \in {"db", "DB"} -> "db" [] OTHER -> n
root_paths(roots) == {IF r = "repository-1/db" THEN "db" ELSE r : r \in roots \ {"../up"}}

-----------------------------------------------------------------------------
(* materialize_codebase_map, component by component.  A component's id is   *)
(* its repository and normalized name.                                      *)
Named(acc, name) == {i \in DOMAIN acc.components : normalized_name(acc.components[i].name) = normalized_name(name)}
Warn(acc, what, name) == [acc EXCEPT !.told = @ \cup {<<what, name>>}]
\* take(most): what is beyond a limit is passed over without a warning.
Cut(items, most) == SubSeq(items, 1, IF Len(items) < most THEN Len(items) ELSE most)

AddComponent(acc, raw) ==
    IF \/ raw.name = "" \/ raw.repo \notin DOMAIN Tree \/ Named(acc, raw.name) # {}
       \/ bind_evidence(raw.cites) = {} \/ root_paths(raw.roots) = {}
    THEN Warn(acc, "component", raw.name)
    ELSE [acc EXCEPT !.components = Append(@, [id |-> <<raw.repo, normalized_name(raw.name)>>, name |-> raw.name,
                                               roots |-> root_paths(raw.roots), interfaces |-> 0, concerns |-> 0,
                                               evidence |-> bind_evidence(raw.cites)])]

AddTechnology(acc, cites) ==
    IF bind_evidence(cites) = {} THEN Warn(acc, "technology", "") ELSE [acc EXCEPT !.technologies = Append(@, bind_evidence(cites))]

Id(acc, name) == acc.components[CHOOSE i \in Named(acc, name) : TRUE].id

AddEntryPoint(acc, raw) ==
    IF Named(acc, raw.component) = {} \/ bind_evidence(raw.cites) = {} THEN Warn(acc, "entry point", raw.component)
    ELSE [acc EXCEPT !.entries = Append(@, [component |-> Id(acc, raw.component), evidence |-> bind_evidence(raw.cites)])]

\* Items that bind, until the component has as many as it may hold; one that
\* does not bind before that is named.
Binding(items) == Len(SelectSeq(items, LAMBDA c : bind_evidence(c) # {}))
Held(before, items) ==
    IF before + Binding(items) > MaxItems THEN MaxItems ELSE before + Binding(items)
Unbound(before, items, what) ==
    IF \E i \in DOMAIN items : /\ bind_evidence(items[i]) = {}
                              /\ before + Binding(SubSeq(items, 1, i)) < MaxItems
    THEN {what} ELSE {}

\* (a detail offers one further citation at most)
AddDetail(acc, detail) ==
    IF Named(acc, detail.name) = {} THEN Warn(acc, "detail", detail.name)
    ELSE LET i == CHOOSE k \in Named(acc, detail.name) : TRUE
             c == acc.components[i]
         IN  [acc EXCEPT !.told = @ \cup Unbound(c.interfaces, detail.interfaces, <<"interface", c.name>>)
                                     \cup Unbound(c.concerns, detail.concerns, <<"concern", c.name>>),
                         !.components[i].interfaces = Held(@, detail.interfaces),
                         !.components[i].concerns = Held(@, detail.concerns),
                         !.components[i].evidence =
                             IF Cardinality(@ \cup bind_evidence(detail.extra)) <= MaxItems THEN @ \cup bind_evidence(detail.extra) ELSE @]

(* A relationship is remembered before its citation is bound, so that a     *)
(* later mention of it is passed over whatever became of the first.         *)
AddLink(acc, raw) ==
    IF Len(acc.links) >= MaxItems THEN acc
    ELSE IF Named(acc, raw.from) = {} \/ Named(acc, raw.to) = {} THEN Warn(acc, "relationship", <<raw.from, raw.to>>)
    ELSE LET key == [from |-> Id(acc, raw.from), to |-> Id(acc, raw.to), kind |-> raw.kind]
         IN  IF key \in acc.seen THEN acc
             ELSE LET noted == [acc EXCEPT !.seen = @ \cup {key}]
                  IN  IF bind_evidence(raw.cites) = {} THEN Warn(noted, "relationship", <<raw.from, raw.to>>)
                      ELSE [noted EXCEPT !.links = Append(@, key)]

AddFlow(acc, raw) ==
    LET steps == SelectSeq(Cut(raw.steps, MaxSteps), LAMBDA s : Named(acc, s.component) # {})
    IN  IF Len(acc.flows) >= MaxItems THEN acc
        ELSE IF Len(steps) < 2 \/ \A i \in DOMAIN steps : bind_evidence(steps[i].cites) = {}
        THEN Warn(acc, "flow", raw.name)
        ELSE [acc EXCEPT !.flows = Append(@, Flow(raw.name, [i \in DOMAIN steps |-> Id(acc, steps[i].component)]))]

AddDive(acc, dive) ==
    LET detailed == FoldLeft(AddDetail, acc, dive.details)
        linked == FoldLeft(AddLink, detailed, dive.links)
    IN  FoldLeft(AddFlow, linked, dive.flows)

materialize_codebase_map(s, ds) ==
    LET empty == [components |-> <<>>, technologies |-> <<>>, entries |-> <<>>, links |-> <<>>, seen |-> {},
                  flows |-> <<>>, told |-> {}]
        surveyed == FoldLeft(AddComponent, empty, Cut(s.components, MaxComponents))
        equipped == FoldLeft(AddTechnology, surveyed, Cut(s.technologies, MaxItems))
        described == FoldLeft(AddEntryPoint, equipped, Cut(s.entries, MaxItems))
    IN  FoldLeft(AddDive, described, ds)

-----------------------------------------------------------------------------
(* The fields of a map are walked three times, each time by code of its own *)
(* that has to take them in the same order.                                 *)
Each(n, Of(_)) == FlattenSeq([i \in 1 .. n |-> Of(i)])

map_narrative_fields(m) ==
    << <<"summary", 0, 0>>, <<"style", 0, 0>> >>
    \o Each(Len(m.technologies), LAMBDA i : << <<"technology", i, 0>>, <<"role", i, 0>> >>)
    \o Each(Len(m.components), LAMBDA i :
            << <<"component", i, 0>>, <<"responsibility", i, 0>> >>
            \o Each(m.components[i].interfaces, LAMBDA j : << <<"interface", i, j>>, <<"interface text", i, j>> >>)
            \o [j \in 1 .. m.components[i].concerns |-> <<"concern", i, j>>])
    \o [i \in DOMAIN m.links |-> <<"relationship", i, 0>>]
    \o Each(Len(m.flows), LAMBDA i : << <<"flow", i, 0>>, <<"flow text", i, 0>> >>
                                     \o [j \in DOMAIN m.flows[i].steps |-> <<"step", i, j>>])
    \o [i \in DOMAIN m.entries |-> <<"entry point", i, 0>>]

\* The kind of field that each neutral text was written for.
neutral_map_replacements(m) ==
    <<"summary", "style">> \o Each(Len(m.technologies), LAMBDA i : <<"technology", "role">>)
    \o Each(Len(m.components), LAMBDA i :
            <<"component", "responsibility">>
            \o Each(m.components[i].interfaces, LAMBDA j : <<"interface", "interface text">>)
            \o [j \in 1 .. m.components[i].concerns |-> "concern"])
    \o [i \in DOMAIN m.links |-> "relationship"]
    \o Each(Len(m.flows), LAMBDA i : <<"flow", "flow text">> \o [j \in DOMAIN m.flows[i].steps |-> "step"])
    \o [i \in DOMAIN m.entries |-> "entry point"]

\* Mutant: the walk that replaces a field takes the concerns last.
ConcernsLast(m) ==
    SelectSeq(map_narrative_fields(m), LAMBDA f : f[1] # "concern")
    \o SelectSeq(map_narrative_fields(m), LAMBDA f : f[1] = "concern")

(* The order in which replace_map_narrative_field counts.                   *)
ReplaceOrder(m) ==
    << <<"summary", 0, 0>>, <<"style", 0, 0>> >>
    \o Each(Len(m.technologies), LAMBDA i : << <<"technology", i, 0>>, <<"role", i, 0>> >>)
    \o Each(Len(m.components), LAMBDA i :
            << <<"component", i, 0>>, <<"responsibility", i, 0>> >>
            \o Each(m.components[i].interfaces, LAMBDA j : << <<"interface", i, j>>, <<"interface text", i, j>> >>)
            \o [j \in 1 .. m.components[i].concerns |-> <<"concern", i, j>>])
    \o [i \in DOMAIN m.links |-> <<"relationship", i, 0>>]
    \o Each(Len(m.flows), LAMBDA i : << <<"flow", i, 0>>, <<"flow text", i, 0>> >>
                                     \o [j \in DOMAIN m.flows[i].steps |-> <<"step", i, j>>])
    \o [i \in DOMAIN m.entries |-> <<"entry point", i, 0>>]

replace_map_narrative_field(m, w, position, text) == [w EXCEPT ![ReplaceOrder(m)[position]] = text]

-----------------------------------------------------------------------------
(* Wording: "plain", "window" (shares a fingerprint with the source),       *)
(* "cited" (holds a short cited excerpt), "secret", "short", and the        *)
(* neutral text for a kind of field.                                        *)
Worded(is) == [is |-> is, of |-> ""]
NeutralText(kind) == [is |-> "neutral", of |-> kind]
Wordings(m) ==
    LET fields == map_narrative_fields(m)
        plain == [f \in ToSet(fields) |-> Worded("plain")]
    IN  {plain} \cup {[plain EXCEPT ![fields[i]] = Worded(is)] : i \in DOMAIN fields, is \in {"window", "cited", "secret"}}
                \cup {[plain EXCEPT ![fields[i]] = Worded("window"), ![fields[i + 1]] = Worded("cited")] : i \in 1 .. Len(fields) - 1}

contains_credential_marker(text) == text.is = "secret"
narrative_fields_matching_source(text) == text.is = "window"
Violations(m, w) == {i \in DOMAIN map_narrative_fields(m) : w[map_narrative_fields(m)[i]].is \in {"window", "cited"}}
Redacted(m, w) ==
    FoldFunctionOnSet(LAMBDA i, acc : replace_map_narrative_field(m, acc, i, NeutralText(neutral_map_replacements(m)[i])),
                      w, [i \in 1 .. Len(map_narrative_fields(m)) |-> i], Violations(m, w))

(* materialize_codebase_map with screen_map_narrative at its end, which     *)
(* fails when the source cannot be read.                                    *)
Built(s, ds, lost) ==
    LET m == materialize_codebase_map(s, ds)
        fails == mapStage' = "failed" /\ UNCHANGED <<map, offered, wording, screened, told, partial>>
    IN  \/ fails
        \/ /\ m.components # <<>>
           /\ \E w \in Wordings(m) :
                 LET bad == Violations(m, w)
                 IN  IF (\E f \in DOMAIN w : contains_credential_marker(w[f])) \/ (bad # {} /\ mapPolicy = "Reject")
                     THEN fails
                     ELSE /\ map' = m /\ offered' = w /\ wording' = Redacted(m, w)
                          /\ screened' = SetToSortSeq(bad, LAMBDA a, b : a < b)
                          /\ told' = m.told \cup {<<"group", k>> : k \in lost}
                                           \cup (IF bad = {} THEN {} ELSE {<<"screened", "">>})
                          /\ partial' = (lost # {} \/ bad # {})
                          /\ mapStage' = IF bad = {} THEN "built" ELSE "screened"

-----------------------------------------------------------------------------
TakeSurvey ==
    /\ mapPolicy = "Redact" /\ mapStage = "start"
    /\ \/ \E s \in Surveys :
            /\ survey' = s /\ mapStage' = "groups"
            /\ waiting' = 1 .. ((Len(s.components) + PerGroup - 1) \div PerGroup)
       \/ mapStage' = "failed" /\ UNCHANGED <<survey, waiting>>
    /\ UNCHANGED <<mapPolicy, inflight, dives, failed, map, offered, wording, screened, told, partial>>

(* buffer_unordered starts the groups in order, a few at a time.            *)
StartGroup ==
    /\ mapStage = "groups" /\ waiting # {} /\ Cardinality(inflight) < MaxConcurrent
    /\ LET k == CHOOSE x \in waiting : \A y \in waiting : x <= y
       IN  waiting' = waiting \ {k} /\ inflight' = inflight \cup {k}
    /\ UNCHANGED <<mapPolicy, mapStage, survey, dives, failed, map, offered, wording, screened, told, partial>>

EndGroup ==
    /\ mapStage = "groups"
    /\ \E k \in inflight :
          /\ inflight' = inflight \ {k}
          /\ \/ \E d \in Dives : dives' = Append(dives, d) /\ UNCHANGED failed
             \/ failed' = failed \cup {k} /\ UNCHANGED dives
    /\ UNCHANGED <<mapPolicy, mapStage, survey, waiting, map, offered, wording, screened, told, partial>>

(* The limit on survey and deep dives: the map fails as a whole.            *)
WallClock ==
    /\ mapPolicy = "Redact" /\ mapStage = "groups"
    /\ mapStage' = "failed" /\ waiting' = {} /\ inflight' = {}
    /\ UNCHANGED <<mapPolicy, survey, dives, failed, map, offered, wording, screened, told, partial>>

Merge ==
    /\ mapPolicy = "Redact" /\ mapStage = "groups" /\ waiting = {} /\ inflight = {}
    /\ Built(survey, dives, failed)
    /\ UNCHANGED <<mapPolicy, survey, waiting, inflight, dives, failed>>

(* An agent submits survey and deep dives together.                         *)
SubmitMap ==
    /\ mapPolicy = "Reject" /\ mapStage = "start"
    /\ \E s \in Surveys, d \in Dives : survey' = s /\ dives' = <<d>> /\ Built(s, <<d>>, {})
    /\ UNCHANGED <<mapPolicy, waiting, inflight, failed>>

\* What the rewrite of a field has to pass before it is used.
PassesScreen(rewrite) ==
    rewrite.is # "short" /\ ~contains_credential_marker(rewrite) /\ ~narrative_fields_matching_source(rewrite)

Rewritten(rewrites, upTo) ==
    FoldFunctionOnSet(LAMBDA p, acc : IF PassesScreen(rewrites[p]) THEN replace_map_narrative_field(map, acc, screened[p], rewrites[p]) ELSE acc,
                      wording, [p \in DOMAIN rewrites |-> p], 1 .. upTo)

(* rephrase_screened_fields: the run may fail, time out or answer with the  *)
(* wrong number of fields; a Git error at one rewrite ends the pass and     *)
(* leaves the ones before it in place.                                      *)
Rephrase ==
    /\ mapPolicy = "Redact" /\ mapStage = "screened" /\ mapStage' = "built"
    /\ \/ told' = told \cup {<<"pass failed", "">>} /\ UNCHANGED wording
       \/ \E rewrites \in [DOMAIN screened -> {Worded(is) : is \in {"plain", "window", "cited", "secret", "short"}}],
             upTo \in 0 .. Len(screened) :
            LET accepted == Cardinality({p \in 1 .. upTo : PassesScreen(rewrites[p])})
            IN  /\ wording' = Rewritten(rewrites, upTo)
                /\ told' = IF upTo < Len(screened) THEN told \cup {<<"pass failed", "">>}
                           ELSE IF accepted = Len(screened) THEN (told \ {<<"screened", "">>}) \cup {<<"rewritten", "">>}
                           ELSE IF accepted > 0 THEN told \cup {<<"some rewritten", "">>} ELSE told
    /\ UNCHANGED <<mapPolicy, survey, waiting, inflight, dives, failed, map, offered, screened, partial>>

-----------------------------------------------------------------------------
MapInit ==
    /\ mapPolicy \in {"Redact", "Reject"} /\ mapStage = "start" /\ survey = Survey(<<>>, <<>>, <<>>)
    /\ waiting = {} /\ inflight = {} /\ dives = <<>> /\ failed = {}
    /\ map = NoMap /\ offered = <<>> /\ wording = <<>> /\ screened = <<>> /\ told = {} /\ partial = FALSE

MapNext == TakeSurvey \/ StartGroup \/ EndGroup \/ WallClock \/ Merge \/ SubmitMap \/ Rephrase

-----------------------------------------------------------------------------
(* Whatever the deep dives name and in whatever order they end, everything  *)
(* in the map that refers to a component refers to exactly one component of *)
(* the map, and no relationship is in it twice.                             *)
ReferencesResolve ==
    LET ids == {map.components[i].id : i \in DOMAIN map.components}
    IN  /\ Cardinality(ids) = Len(map.components)
        /\ \A i \in DOMAIN map.links : map.links[i].from \in ids /\ map.links[i].to \in ids
        /\ \A i \in DOMAIN map.flows : Len(map.flows[i].steps) >= 2 /\ ToSet(map.flows[i].steps) \subseteq ids
        /\ \A i \in DOMAIN map.entries : map.entries[i].component \in ids
        /\ \A i, j \in DOMAIN map.links : map.links[i] = map.links[j] => i = j

(* The order in which the groups end decides which of two mentions of one   *)
(* relationship counts, and no more: below the limit, one whose mentions    *)
(* all bind is there, and one that no mention binds is not.                 *)
OrderDecidesLittle ==
    LET mentions == UNION {ToSet(dives[i].links) : i \in DOMAIN dives}
        known == {r \in mentions : Named(map, r.from) # {} /\ Named(map, r.to) # {}}
        Key(r) == [from |-> Id(map, r.from), to |-> Id(map, r.to), kind |-> r.kind]
    IN  \A r \in known :
          LET same == {x \in known : Key(x) = Key(r)}
          IN  /\ (\A x \in same : bind_evidence(x.cites) # {}) /\ Len(map.links) < MaxItems => Key(r) \in ToSet(map.links)
              /\ (\A x \in same : bind_evidence(x.cites) = {}) => Key(r) \notin ToSet(map.links)

\* What the provider offered is in the map or named in a warning.
ComponentTold(c) == Named(map, c.name) # {} \/ <<"component", c.name>> \in told
LinkTold(r) ==
    LET same(from, to) == from = normalized_name(r.from) /\ to = normalized_name(r.to)
    IN  \/ \E w \in told : w[1] = "relationship" /\ same(normalized_name(w[2][1]), normalized_name(w[2][2]))
        \/ \E i \in DOMAIN map.links : same(map.links[i].from[2], map.links[i].to[2]) /\ map.links[i].kind = r.kind
FlowTold(f) == <<"flow", f.name>> \in told \/ \E i \in DOMAIN map.flows : map.flows[i].name = f.name
FromDives(Of(_)) == UNION {ToSet(Of(dives[i])) : i \in DOMAIN dives}

(* "Failed deep-dive chunks degrade the map to partial": a map that is not  *)
(* partial has every group detailed and every field as it was offered.      *)
(* "Every dropped item is named in the map's warnings" is true of           *)
(* components, relationships and flows as long as the map is not full of    *)
(* their kind: beyond a limit the code passes over them without a word.     *)
DegradationTold ==
    /\ ~partial => failed = {} /\ wording = offered
    /\ failed # {} => \A k \in failed : <<"group", k>> \in told
    /\ mapPolicy = "Redact" => Len(dives) + Cardinality(failed) = (Len(survey.components) + PerGroup - 1) \div PerGroup
    /\ \A c \in ToSet(Cut(survey.components, MaxComponents)) : ComponentTold(c)
    /\ Len(map.links) < MaxItems => \A r \in FromDives(LAMBDA d : d.links) : LinkTold(r)
    /\ Len(map.flows) < MaxItems => \A f \in FromDives(LAMBDA d : d.flows) : FlowTold(f)

(* Screening touches the fields that were found and no other one, a neutral *)
(* text stands in a field of the kind it was written for, and nothing that  *)
(* shares a fingerprint with the source, or a credential, is kept in a      *)
(* field, whether the provider wrote it first or as a rewrite.  Warnings,   *)
(* which repeat names and cited paths of what was dropped, are no fields    *)
(* and pass as they are.                                                    *)
ScreeningHits ==
    LET fields == map_narrative_fields(map)
        found == {fields[screened[p]] : p \in DOMAIN screened}
    IN  /\ found = {f \in DOMAIN offered : offered[f].is \in {"window", "cited"}}
        /\ \A f \in DOMAIN wording :
              /\ f \notin found => wording[f] = offered[f]
              /\ wording[f].is \notin {"window", "secret", "short"}
              /\ wording[f].is = "neutral" => wording[f].of = f[1]
        /\ mapStage = "built" /\ <<"rewritten", "">> \in told => \A f \in DOMAIN wording : wording[f].is # "neutral"

(* A map that is kept is whole, resolved, screened, and says what it lacks. *)
MapSound ==
    mapStage \in {"screened", "built"} => ReferencesResolve /\ OrderDecidesLittle /\ DegradationTold /\ ScreeningHits
=============================================================================
