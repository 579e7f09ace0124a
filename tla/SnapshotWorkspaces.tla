------------------------- MODULE SnapshotWorkspaces -------------------------
(***************************************************************************)
(* Snapshot directories of provider runs (repository.rs, from              *)
(* ProviderSnapshotWorkspace to snapshot_lease_is_held).  Every run first  *)
(* removes the directories whose lease nobody holds, then makes its own    *)
(* and locks the lease in it, all under the cleanup lock of the parent     *)
(* directory; it gives the directory up without that lock.  A process may  *)
(* die at any step, and the operating system then releases its locks.      *)
(*                                                                         *)
(* remove_dir_all takes a directory's entries in any order: the lease file *)
(* and the source below repository-N are removed in steps of their own.    *)
(***************************************************************************)
EXTENDS Naturals, FiniteSets

CONSTANTS
    Procs,      \* processes, each of which makes one snapshot
    MaxDeaths,  \* bound: processes that die
    Nobody      \* the cleanup lock is free; no directory

ASSUME NobodyAssumption == Nobody \notin Procs

VARIABLES
    folders,    \* processes whose snapshot directory is there
    leases,     \* those whose lease file is in it
    held,       \* those whose lease is locked
    sources,    \* those with source below it
    cleanup,    \* who holds the cleanup lock
    runner,     \* where each process is
    todo,       \* the directories that a process has still to look at
    target,     \* the directory that it removes
    stale,      \* directories that had an owner no more when it took the lock
    deaths      \* how many processes have died

directories == <<folders, leases, held, sources>>
workspaceVars == <<directories, cleanup, runner, todo, target, stale, deaths>>

WorkspacesInit ==
    /\ folders = {} /\ leases = {} /\ held = {} /\ sources = {} /\ cleanup = Nobody
    /\ runner = [p \in Procs |-> "idle"] /\ todo = [p \in Procs |-> {}]
    /\ target = [p \in Procs |-> Nobody] /\ stale = [p \in Procs |-> {}] /\ deaths = 0

At(p, stage) == runner[p] = stage
Goes(p, stage) == runner' = [runner EXCEPT ![p] = stage]
Removing(p) == At(p, "removing") \/ At(p, "dropping") \/ At(p, "undoing")

(* with_snapshot_cleanup_lock, then the listing of the parent directory.    *)
LockCleanup(p) ==
    /\ At(p, "idle") /\ cleanup = Nobody
    /\ cleanup' = p /\ Goes(p, "clean")
    /\ todo' = [todo EXCEPT ![p] = folders]
    /\ stale' = [stale EXCEPT ![p] = {q \in leases : At(q, "dead")}]
    /\ UNCHANGED <<directories, target, deaths>>

(* One entry: without a lease, or with one that is held, it is left alone.  *)
Inspect(p) ==
    /\ At(p, "clean")
    /\ \E d \in todo[p] :
          /\ todo' = [todo EXCEPT ![p] = @ \ {d}]
          /\ IF d \in leases \ held
             THEN Goes(p, "removing") /\ target' = [target EXCEPT ![p] = d]
             ELSE UNCHANGED <<runner, target>>
    /\ UNCHANGED <<directories, cleanup, stale, deaths>>

(* An error of the cleanup ends the request and gives the lock back, in the *)
(* middle of a removal too; a run that drops its workspace ignores it.      *)
CleanupFails(p) ==
    /\ At(p, "clean") \/ Removing(p)
    /\ cleanup' = IF cleanup = p THEN Nobody ELSE cleanup
    /\ Goes(p, "done")
    /\ UNCHANGED <<directories, todo, target, stale, deaths>>

(* remove_dir_all, by the cleanup or by the owner that drops its workspace. *)
RemoveEntry(p) ==
    /\ Removing(p)
    /\ \/ target[p] \in leases /\ leases' = leases \ {target[p]} /\ UNCHANGED sources
       \/ target[p] \in sources /\ sources' = sources \ {target[p]} /\ UNCHANGED leases
    /\ UNCHANGED <<folders, held, cleanup, runner, todo, target, stale, deaths>>

RemoveDirectory(p) ==
    /\ Removing(p)
    /\ target[p] \notin leases \cup sources
    /\ folders' = folders \ {target[p]}
    /\ Goes(p, IF At(p, "removing") THEN "clean" ELSE "done")
    /\ cleanup' = IF At(p, "undoing") THEN Nobody ELSE cleanup
    /\ target' = [target EXCEPT ![p] = Nobody]
    /\ UNCHANGED <<leases, held, sources, todo, stale, deaths>>

(* new_in after the cleanup: the directory, its lease file, the lock on it; *)
(* only then is the cleanup lock given back.                                *)
MakeDirectory(p) ==
    /\ At(p, "clean") /\ todo[p] = {}
    /\ folders' = folders \cup {p}
    /\ Goes(p, "made")
    /\ UNCHANGED <<leases, held, sources, cleanup, todo, target, stale, deaths>>

\* Mutant: the cleanup lock is given back before the lease is locked.
MakeLeaseAlone(p) ==
    /\ At(p, "made")
    /\ leases' = leases \cup {p}
    /\ cleanup' = Nobody
    /\ Goes(p, "leased")
    /\ UNCHANGED <<folders, held, sources, todo, target, stale, deaths>>

MakeLease(p) ==
    /\ At(p, "made")
    /\ leases' = leases \cup {p}
    /\ Goes(p, "leased")
    /\ UNCHANGED <<folders, held, sources, cleanup, todo, target, stale, deaths>>

LockLease(p) ==
    /\ At(p, "leased")
    /\ held' = held \cup {p}
    /\ cleanup' = Nobody
    /\ Goes(p, "open")
    /\ UNCHANGED <<folders, leases, sources, todo, target, stale, deaths>>

(* The lease cannot be made or locked: the directory is removed again, the  *)
(* cleanup lock still being held.                                           *)
LeaseFails(p) ==
    /\ At(p, "made") \/ At(p, "leased")
    /\ target' = [target EXCEPT ![p] = p] /\ Goes(p, "undoing")
    /\ UNCHANGED <<directories, cleanup, todo, stale, deaths>>

(* snapshot_repository: the source is written below the directory.          *)
SnapshotRepository(p) ==
    /\ At(p, "open")
    /\ sources' = sources \cup {p}
    /\ Goes(p, "using")
    /\ UNCHANGED <<folders, leases, held, cleanup, todo, target, stale, deaths>>

(* Drop: the lease is unlocked first, then the directory is removed.        *)
DropWorkspace(p) ==
    /\ At(p, "open") \/ At(p, "using")
    /\ held' = held \ {p}
    /\ target' = [target EXCEPT ![p] = p] /\ Goes(p, "dropping")
    /\ UNCHANGED <<folders, leases, sources, cleanup, todo, stale, deaths>>

(* The process is killed: its locks end with it.                            *)
Die(p) ==
    /\ deaths < MaxDeaths /\ ~At(p, "idle") /\ ~At(p, "done") /\ ~At(p, "dead")
    /\ deaths' = deaths + 1 /\ Goes(p, "dead")
    /\ held' = held \ {p}
    /\ cleanup' = IF cleanup = p THEN Nobody ELSE cleanup
    /\ UNCHANGED <<folders, leases, sources, todo, target, stale>>

WorkspacesNext == \E p \in Procs :
    \/ LockCleanup(p) \/ Inspect(p) \/ CleanupFails(p) \/ RemoveEntry(p) \/ RemoveDirectory(p)
    \/ MakeDirectory(p) \/ MakeLease(p) \/ LockLease(p) \/ LeaseFails(p)
    \/ SnapshotRepository(p) \/ DropWorkspace(p) \/ Die(p)

WorkspacesSpec == WorkspacesInit /\ [][WorkspacesNext]_workspaceVars

-----------------------------------------------------------------------------
(* "without touching a concurrently active CodeCaddie snapshot": what a     *)
(* live run has made is never removed by the cleanup of another one.        *)
LiveSnapshotIntact ==
    \A p \in Procs :
        /\ At(p, "made") => p \in folders
        /\ At(p, "leased") \/ At(p, "open") \/ At(p, "using") => p \in folders \cap leases
        /\ At(p, "using") => p \in sources

(* "the next map or analysis run can clean source left by an interrupted    *)
(* process": a run that starts has none of it left, as long as the lease    *)
(* file of the dead run's directory was still there.                        *)
DebrisCleaned ==
    \A p \in Procs : At(p, "made") \/ At(p, "using") => stale[p] \cap (sources \cup folders) = {}

(* Source without a lease file, which no cleanup will look at, is only left *)
(* by a process that died, failed or is still busy removing a directory.    *)
LeaselessSource ==
    \A d \in sources \ leases : \E p \in Procs : target[p] = d

(* Snapshots are neither taken from under a run nor left behind by one.     *)
WorkspacesSound == LiveSnapshotIntact /\ DebrisCleaned /\ LeaselessSource
=============================================================================
