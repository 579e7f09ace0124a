----------------------------- MODULE LocalStore -----------------------------
(***************************************************************************)
(* The parts of a data root that do not share state beyond the ledger and  *)
(* the local state file, checked side by side: the content key and its     *)
(* sweep, backups and import, codebase maps, and desktop sessions.  A      *)
(* behaviour follows one part; the others stay where they are.             *)
(***************************************************************************)
EXTENDS AtRest, Backups, CodebaseMaps, DesktopSessions, TLC

VARIABLE part       \* the part that a behaviour follows

storeVars == <<part, atRestVars, backupVars, mapVars, sessionVars>>

StoreInit ==
    /\ part \in {"atRest", "backups", "maps", "sessions"}
    /\ AtRestInit /\ BackupInit /\ MapsInit /\ SessionsInit
    \* A part that is not followed starts in one state.
    /\ part # "atRest" => content = [f \in Managed |-> NoFile]
    /\ part # "backups" => log = Nothing

StoreNext ==
    /\ UNCHANGED part
    /\ \/ /\ part = "atRest" /\ AtRestNext
          /\ UNCHANGED <<backupVars, mapVars, sessionVars>>
       \/ /\ part = "backups" /\ BackupNext
          /\ UNCHANGED <<atRestVars, mapVars, sessionVars>>
       \/ /\ part = "maps" /\ MapsNext
          /\ UNCHANGED <<atRestVars, backupVars, sessionVars>>
       \/ /\ part = "sessions" /\ SessionsNext
          /\ UNCHANGED <<atRestVars, backupVars, mapVars>>

StoreSpec == StoreInit /\ [][StoreNext]_storeVars

\* Processes, workspaces and commits of the maps are interchangeable.
MapSymmetry == Permutations(Mapper) \cup Permutations(MapSpace) \cup Permutations(Commits)
=============================================================================
