----------------------------- MODULE CodebaseMaps ----------------------------
(***************************************************************************)
(* Recorded codebase maps: record_codebase_map, load_codebase_map_for and  *)
(* load_codebase_map of local_state/workspace_store.rs, latest_map_for of  *)
(* the domain's projection, and the requests of service/map.rs and of the  *)
(* agents that lead to them.                                               *)
(*                                                                         *)
(* A map is a signed descriptor in the workspace's ledger and a body in a  *)
(* directory that all workspaces share, named by the hash of its contents; *)
(* the contents include the map's own id, so a body is named by the id.    *)
(***************************************************************************)
EXTENDS Naturals, FiniteSets

CONSTANTS
    Mapper,         \* processes that generate or submit maps
    MapSpace,       \* workspaces
    Commits,        \* frozen sets of commits
    KeptBodies,     \* bodies kept for the newest maps of a workspace
    MaxMaps,        \* bound: maps generated
    MaxMapClock,    \* bound: the clock
    MaxMapStop,     \* bound: requests that end in the middle
    NoMap

ASSUME MapsAssumption ==
    /\ IsFiniteSet(Mapper)
    /\ KeptBodies \in Nat /\ MaxMaps \in Nat /\ MaxMapClock \in Nat /\ MaxMapStop \in Nat
    /\ NoMap \notin 1 .. MaxMaps

VARIABLES
    mapClock,       \* the wall clock; it may be set back
    descriptors,    \* descriptors in the ledgers
    bodies,         \* body files that are there and intact
    damaged,        \* bodies that were removed or changed from outside
    mapsMade,       \* maps generated so far
    job,            \* what each process is doing
    lastJob,        \* map recorded last in each workspace
    mapStops

mapVars == <<mapClock, descriptors, bodies, damaged, mapsMade, job, lastJob, mapStops>>

NoJob == [step |-> "idle"]
Job(p, r) == job' = [job EXCEPT ![p] = r]
LedgerFree(w) == \A q \in Mapper : job[q].step \in {"append", "prune"} => job[q].map.ws # w

OfSpace(w) == {d \in descriptors : d.ws = w}

\* The order of the recorded maps: the newest first, equal times by their id.
Before(d, e) == d.time > e.time \/ (d.time = e.time /\ d.id < e.id)

\* latest_map_for: of the maps of these commits that none supersedes, the newest
\* (of equal times the one with the greatest id).
LatestMapFor(w, c) ==
    LET current == {d \in OfSpace(w) : d.commits = c /\ \A e \in OfSpace(w) : e.supersedes # d.id}
    IN  {d \in current : \A e \in current : e.time < d.time \/ (e.time = d.time /\ e.id <= d.id)}

\* load_codebase_map_for: a body that is missing or does not match its hash
\* counts as no map.
Loaded(w, c) == {d.id : d \in {d \in LatestMapFor(w, c) : d.id \in bodies}}

MapsInit ==
    /\ mapClock = 0 /\ mapsMade = 0
    /\ descriptors = {} /\ bodies = {} /\ damaged = {}
    /\ job = [p \in Mapper |-> NoJob]
    /\ lastJob = [w \in MapSpace |-> NoMap]
    /\ mapStops = 0

-----------------------------------------------------------------------------
(* No map for these commits, or a refresh (a recorded map that is only read *)
(* changes nothing): the map to supersede is read, without a lock, and one  *)
(* is generated by a provider or submitted by an agent.                     *)
GenerateMap(p, w, c) ==
    /\ job[p].step = "idle"
    /\ \E old \in IF Loaded(w, c) = {} THEN {NoMap} ELSE Loaded(w, c) :
          Job(p, [step |-> "generate", ws |-> w, commits |-> c, supersedes |-> old])
    /\ UNCHANGED <<mapClock, descriptors, bodies, damaged, mapsMade, lastJob, mapStops>>

(* The generation fails and nothing is recorded.                            *)
GenerationFails(p) ==
    /\ job[p].step = "generate"
    /\ Job(p, NoJob)
    /\ UNCHANGED <<mapClock, descriptors, bodies, damaged, mapsMade, lastJob, mapStops>>

(* The map is generated at this time and with a fresh id; then, under the   *)
(* workspace lock, its body is written.                                     *)
MaterializeMap(p) ==
    /\ job[p].step = "generate" /\ mapsMade < MaxMaps
    /\ mapsMade' = mapsMade + 1
    /\ Job(p, [step |-> "body",
               map |-> [id |-> mapsMade + 1, ws |-> job[p].ws, commits |-> job[p].commits,
                        time |-> mapClock, supersedes |-> job[p].supersedes]])
    /\ UNCHANGED <<mapClock, descriptors, bodies, damaged, lastJob, mapStops>>

WriteBody(p) ==
    /\ job[p].step = "body" /\ LedgerFree(job[p].map.ws)
    /\ bodies' = bodies \cup {job[p].map.id}
    /\ Job(p, [job[p] EXCEPT !.step = "append"])
    /\ UNCHANGED <<mapClock, descriptors, damaged, mapsMade, lastJob, mapStops>>

AppendDescriptor(p) ==
    /\ job[p].step = "append"
    /\ descriptors' = descriptors \cup {job[p].map}
    /\ lastJob' = [lastJob EXCEPT ![job[p].map.ws] = job[p].map.id]
    /\ Job(p, [job[p] EXCEPT !.step = "prune"])
    /\ UNCHANGED <<mapClock, bodies, damaged, mapsMade, mapStops>>

\* The maps of a workspace beyond the newest.
Stale(w) ==
    {d.id : d \in {d \in OfSpace(w) : Cardinality({e \in OfSpace(w) : Before(e, d)}) >= KeptBodies}}

\* Mutant: the body just written is pruned like any other.
PruneAllBodies(p) ==
    /\ job[p].step = "prune"
    /\ bodies' = bodies \ Stale(job[p].map.ws)
    /\ Job(p, NoJob)
    /\ UNCHANGED <<mapClock, descriptors, damaged, mapsMade, lastJob, mapStops>>

(* Their bodies are removed, except the one just written.                   *)
PruneBodies(p) ==
    /\ job[p].step = "prune"
    /\ bodies' = bodies \ (Stale(job[p].map.ws) \ {job[p].map.id})
    /\ Job(p, NoJob)
    /\ UNCHANGED <<mapClock, descriptors, damaged, mapsMade, lastJob, mapStops>>

(* The request ends in the middle: an error or the death of the process.    *)
MapStops(p) ==
    /\ job[p].step \in {"append", "prune"} /\ mapStops < MaxMapStop
    /\ mapStops' = mapStops + 1
    /\ Job(p, NoJob)
    /\ UNCHANGED <<mapClock, descriptors, bodies, damaged, mapsMade, lastJob>>

(* A body file is removed or changed by something else.                     *)
BodyDamaged(m) ==
    /\ m \in bodies /\ damaged = {}
    /\ bodies' = bodies \ {m} /\ damaged' = damaged \cup {m}
    /\ UNCHANGED <<mapClock, descriptors, mapsMade, job, lastJob, mapStops>>

MapClockMoves ==
    /\ mapClock' \in 0 .. MaxMapClock /\ mapClock' # mapClock
    /\ UNCHANGED <<descriptors, bodies, damaged, mapsMade, job, lastJob, mapStops>>

MapsNext ==
    \/ \E p \in Mapper, w \in MapSpace, c \in Commits : GenerateMap(p, w, c)
    \/ \E p \in Mapper :
          \/ GenerationFails(p) \/ MaterializeMap(p) \/ WriteBody(p) \/ AppendDescriptor(p)
          \/ PruneBodies(p) \/ MapStops(p)
    \/ \E m \in bodies : BodyDamaged(m)
    \/ MapClockMoves

-----------------------------------------------------------------------------
MapsTypeOK ==
    /\ \A d \in descriptors :
          /\ d.id \in 1 .. mapsMade /\ d.ws \in MapSpace /\ d.commits \in Commits
          /\ d.supersedes \in {NoMap} \cup 1 .. d.id
    /\ bodies \cup damaged \subseteq 1 .. mapsMade
    /\ mapStops \in 0 .. MaxMapStop

(* Of every workspace the newest maps keep their bodies, however the clock  *)
(* moved and whatever other workspaces prune in the shared directory.       *)
NewestBodiesKept ==
    \A d \in descriptors :
        d.id \notin Stale(d.ws) => d.id \in bodies \cup damaged

(* The map recorded last can be loaded, even when its time is older than    *)
(* that of the others.                                                      *)
LastRecordedKept ==
    \A w \in MapSpace : lastJob[w] # NoMap => lastJob[w] \in bodies \cup damaged

(* Bodies do not pile up: the newest, the last recorded, the ones that are  *)
(* being recorded and one for every interrupted request.                    *)
BodiesBounded ==
    \A w \in MapSpace :
        Cardinality({d.id : d \in OfSpace(w)} \cap bodies)
            <= KeptBodies + 1 + mapStops
                + Cardinality({p \in Mapper : job[p].step \in {"append", "prune"}})

(* Commits that have a map have a current one: the maps that supersede      *)
(* others, chosen without the lock, never supersede each other in a circle  *)
(* or across commits.                                                       *)
LatestMapExists ==
    \A d \in descriptors : LatestMapFor(d.ws, d.commits) # {}

(* Commits with a recorded map have a current one; the newest of every      *)
(* workspace and the one recorded last have their bodies, and few others.   *)
MapsSound == MapsTypeOK /\ LatestMapExists /\ NewestBodiesKept /\ LastRecordedKept /\ BodiesBounded
=============================================================================
