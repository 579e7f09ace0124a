------------------------------ MODULE Backups -------------------------------
(***************************************************************************)
(* Portable backups of a workspace, their schedule, and the import of one  *)
(* into a data root: local_state/workspace_store.rs, portable_backup.rs    *)
(* and restore_exact of storage.rs.                                        *)
(*                                                                         *)
(* One workspace id is followed.  Its history is the number of its events  *)
(* together with the identity that signed them; a backup is a copy of it.  *)
(* A backup that is not authentic, or whose manifest, role or signatures   *)
(* are wrong, is refused before anything is written.                       *)
(***************************************************************************)
EXTENDS Naturals, FiniteSets

CONSTANTS
    Keeper,         \* core processes that handle backup requests
    Folder,         \* backup folders
    Owner,          \* editing identities, each the founder of one history
    Retain,         \* BACKUP_RETENTION_COUNT
    Cadence,        \* BACKUP_CADENCE_SECONDS
    MaxTime,        \* bound: the clock
    MaxEvents,      \* bound: events of a history
    MaxRuns,        \* bound: scheduled backups made
    MaxStop,        \* bound: requests that end in the middle
    Nothing

Histories == [by : Owner, events : 1 .. MaxEvents]
Schedules == [folder : Folder, last : 0 .. MaxTime \cup {Nothing}]

ASSUME BackupAssumption ==
    /\ Retain \in Nat /\ MaxTime \in Nat
    /\ MaxEvents \in Nat /\ MaxEvents >= 2
    /\ Nothing \notin Owner /\ Nothing \notin 0 .. MaxTime
    /\ Nothing \notin Histories /\ Nothing \notin Schedules

VARIABLES
    now,        \* the wall clock; it may be set back
    log,        \* the workspace's event log: Nothing or a history
    device,     \* the identity in the local state, Nothing without a state
    access,     \* who founded the workspace the local state gives access to
    recent,     \* the pointer names the workspace
    schedule,   \* Nothing or [folder, last]
    saved,      \* scheduled backups: [folder, time, serial, by, events]
    serial,     \* serial number of the last scheduled backup (its UUID)
    request,    \* what each process is doing
    archive,    \* backup files an import may be given
    stops

backupVars == <<now, log, device, access, recent, schedule, saved, serial, request, archive,
                stops>>
workspace == <<log, device, access, recent>>

Idle == [step |-> "idle"]
Is(p, step) == request[p].step = step
Becomes(p, r) == request' = [request EXCEPT ![p] = r]

\* The per-workspace lock, which also an import holds.
Unlocked == \A q \in Keeper : request[q].step \in {"idle", "enabled"}

History(o, n) == [by |-> o, events |-> n]

\* The workspace can be opened: the device has access to it and its log.
Reachable == access # Nothing /\ log # Nothing /\ log.by = access

BackupInit ==
    /\ now = 0
    /\ \/ /\ log = Nothing /\ device = Nothing /\ access = Nothing /\ recent = FALSE
       \/ \E o \in Owner :
             /\ log = History(o, 1) /\ device = o /\ access = o /\ recent = TRUE
    /\ schedule = Nothing /\ saved = {} /\ serial = 0
    /\ request = [p \in Keeper |-> Idle]
    /\ archive = {History(o, n) : o \in Owner, n \in 1 .. 2}
    /\ stops = 0

-----------------------------------------------------------------------------
(* Any command that appends an event to the workspace.                      *)
AppendEvent ==
    /\ Unlocked /\ Reachable /\ log.events < MaxEvents
    /\ log' = [log EXCEPT !.events = @ + 1]
    /\ UNCHANGED <<now, device, access, recent, schedule, saved, serial, request, archive, stops>>

(* export_portable_backup to a file of the user's choice.                   *)
ExportBackup ==
    /\ Unlocked /\ Reachable
    /\ archive' = archive \cup {log}
    /\ UNCHANGED <<now, workspace, schedule, saved, serial, request, stops>>

(* enable_backup_schedule saves a schedule without a last backup, gives the *)
(* lock back, and asks for a forced run.                                    *)
EnableSchedule(p, f) ==
    /\ Is(p, "idle") /\ Unlocked /\ Reachable
    /\ schedule' = [folder |-> f, last |-> Nothing]
    /\ Becomes(p, [step |-> "enabled"])
    /\ UNCHANGED <<now, workspace, saved, serial, archive, stops>>

(* disable_backup_schedule removes it.                                      *)
DisableSchedule(p) ==
    /\ Is(p, "idle") /\ Unlocked /\ Reachable
    /\ schedule' = Nothing
    /\ UNCHANGED <<now, workspace, saved, serial, request, archive, stops>>

\* now_unix.saturating_sub(last) >= BACKUP_CADENCE_SECONDS
Due == schedule # Nothing /\ (schedule.last = Nothing \/ now >= schedule.last + Cadence)

(* run_scheduled_backup_at: nothing is scheduled, or it is not due yet.     *)
RunNothing(p) ==
    /\ request[p].step \in {"idle", "enabled"} /\ Unlocked
    /\ schedule = Nothing \/ (Is(p, "idle") /\ ~Due)
    /\ Becomes(p, Idle)
    /\ UNCHANGED <<now, workspace, schedule, saved, serial, archive, stops>>

(* The backup is exported under a name that starts with the time; the       *)
(* desktop's timer asks for a run that is due, the user and an enable force *)
(* one.                                                                     *)
RunExport(p) ==
    /\ request[p].step \in {"idle", "enabled"} /\ Unlocked /\ Reachable
    /\ schedule # Nothing /\ serial < MaxRuns
    /\ serial' = serial + 1
    /\ saved' = saved \cup {[folder |-> schedule.folder, time |-> now, serial |-> serial + 1,
                             by |-> log.by, events |-> log.events]}
    /\ Becomes(p, [step |-> "saveSchedule", time |-> now, folder |-> schedule.folder])
    /\ UNCHANGED <<now, workspace, schedule, archive, stops>>

(* The time of the run is saved in the schedule.                            *)
RunSave(p) ==
    /\ Is(p, "saveSchedule")
    /\ schedule' = [folder |-> request[p].folder, last |-> request[p].time]
    /\ Becomes(p, [request[p] EXCEPT !.step = "prune"])
    /\ UNCHANGED <<now, workspace, saved, serial, archive, stops>>

\* Names sort by their time and then by their serial number.
Sooner(a, b) == a.time < b.time \/ (a.time = b.time /\ a.serial < b.serial)

\* prune_scheduled_backups: what stays of the backups in a folder.
Pruned(S) == {b \in S : Cardinality({c \in S : Sooner(b, c)}) < Retain}

(* Old backups are pruned; the answer names the new one.                    *)
RunPrune(p) ==
    LET here == {b \in saved : b.folder = request[p].folder}
    IN  /\ Is(p, "prune")
        /\ saved' = (saved \ here) \cup Pruned(here)
        /\ archive' = archive \cup {History(b.by, b.events) : b \in Pruned(here)}
        /\ Becomes(p, Idle)
        /\ UNCHANGED <<now, workspace, schedule, serial, stops>>

-----------------------------------------------------------------------------
(* create_workspace of another workspace: a local state with an identity.   *)
CreateOtherWorkspace(o) ==
    /\ Unlocked /\ device = Nothing
    /\ device' = o
    /\ UNCHANGED <<now, log, access, recent, schedule, saved, serial, request, archive, stops>>

\* Mutant: only the workspace is compared, not the identity.
MayImportWorkspace(b) == access \in {Nothing, b.by}

\* A backup may be imported where there is no local state with a workspace,
\* or by the same identity into no or the same workspace.
MayImport(b) == device \in {Nothing, b.by} /\ access \in {Nothing, b.by}

(* import_portable_backup holds both locks.                                 *)
ImportBackup(p, b) ==
    /\ Is(p, "idle") /\ Unlocked /\ MayImport(b)
    /\ Becomes(p, [step |-> "restore", backup |-> b])
    /\ UNCHANGED <<now, workspace, schedule, saved, serial, archive, stops>>

\* Mutant: an existing history is replaced by the one of the backup.
RestoreOver(p) ==
    LET b == request[p].backup
    IN  /\ Is(p, "restore")
        /\ log' = b /\ Becomes(p, [request[p] EXCEPT !.step = "saveState"])
        /\ UNCHANGED <<now, device, access, recent, schedule, saved, serial, archive, stops>>

(* restore_exact: the history is installed where there is none; the very    *)
(* same history is left; any other ends the import.                         *)
RestoreExact(p) ==
    LET b == request[p].backup
    IN  /\ Is(p, "restore")
        /\ IF log \in {Nothing, b}
           THEN log' = b /\ Becomes(p, [request[p] EXCEPT !.step = "saveState"])
           ELSE log' = log /\ Becomes(p, Idle)
        /\ UNCHANGED <<now, device, access, recent, schedule, saved, serial, archive, stops>>

(* The local state is saved with the backup's workspace and, where it has   *)
(* no workspace yet, with the backup's identity.                            *)
ImportState(p) ==
    /\ Is(p, "saveState")
    /\ access' = request[p].backup.by
    /\ device' = IF device = Nothing THEN request[p].backup.by ELSE device
    /\ Becomes(p, [step |-> "point"])
    /\ UNCHANGED <<now, log, recent, schedule, saved, serial, archive, stops>>

(* The pointer to the recent workspace is written.                          *)
ImportPoints(p) ==
    /\ Is(p, "point")
    /\ recent' = TRUE
    /\ Becomes(p, Idle)
    /\ UNCHANGED <<now, log, device, access, schedule, saved, serial, archive, stops>>

-----------------------------------------------------------------------------
(* A request ends in the middle: an error or the death of its process.      *)
Stop(p) ==
    /\ ~Is(p, "idle") /\ stops < MaxStop /\ stops' = stops + 1
    /\ Becomes(p, Idle)
    /\ UNCHANGED <<now, workspace, schedule, saved, serial, archive>>

(* The clock moves on, or is set back.                                      *)
ClockMoves ==
    /\ now' \in 0 .. MaxTime /\ now' # now
    /\ UNCHANGED <<workspace, schedule, saved, serial, request, archive, stops>>

BackupNext ==
    \/ AppendEvent \/ ExportBackup \/ ClockMoves
    \/ \E o \in Owner : CreateOtherWorkspace(o)
    \/ \E p \in Keeper :
          \/ \E f \in Folder : EnableSchedule(p, f)
          \/ DisableSchedule(p) \/ RunNothing(p) \/ RunExport(p) \/ RunSave(p) \/ RunPrune(p)
          \/ \E b \in archive : ImportBackup(p, b)
          \/ RestoreExact(p) \/ ImportState(p) \/ ImportPoints(p) \/ Stop(p)

-----------------------------------------------------------------------------
BackupTypeOK ==
    /\ now \in 0 .. MaxTime
    /\ log \in Histories \cup {Nothing}
    /\ device \in Owner \cup {Nothing} /\ access \in Owner \cup {Nothing}
    /\ recent \in BOOLEAN
    /\ schedule \in Schedules \cup {Nothing}
    /\ \A b \in saved : b.folder \in Folder /\ b.time \in 0 .. MaxTime /\ b.serial \in 1 .. serial
    /\ archive \subseteq Histories
    /\ \A p, q \in Keeper :
          {request[p].step, request[q].step} \cap {"idle", "enabled"} = {} => p = q

(* A workspace the device has access to can be opened and written: its log  *)
(* is there, founded by the identity that the local state holds.            *)
AccessHasHistory ==
    /\ access # Nothing => Reachable /\ device = access
    /\ recent => access # Nothing

(* The backup that the schedule names as the last success is there, or its  *)
(* folder holds as many as are retained with later dates: a clock that was  *)
(* set back is the only way to lose it.                                     *)
LastBackupKept ==
    schedule # Nothing /\ schedule.last # Nothing =>
        LET here == {b \in saved : b.folder = schedule.folder}
        IN  \/ \E b \in here : b.time = schedule.last
            \/ Cardinality({b \in here : b.time > schedule.last}) >= Retain

(* A folder holds no more than the retained backups, the one being made,    *)
(* and one for every interrupted request.                                   *)
RetentionHolds ==
    \A f \in Folder :
        Cardinality({b \in saved : b.folder = f})
            <= Retain + stops + (IF Unlocked THEN 0 ELSE 1)

(* A history that is installed is only ever extended.                       *)
HistoryOnlyGrows ==
    [][log # Nothing => log' # Nothing /\ log'.by = log.by /\ log'.events >= log.events]_backupVars

(* Backups and imports leave a workspace that can be opened, and the        *)
(* retention keeps what the schedule promises and no more.                  *)
BackupsSound == BackupTypeOK /\ AccessHasHistory /\ LastBackupKept /\ RetentionHolds
=============================================================================
