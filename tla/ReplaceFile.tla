----------------------------- MODULE ReplaceFile -----------------------------
(***************************************************************************)
(* The crash-safe replacement and recovery of persistence.rs, as the local *)
(* state file uses it: a mutating entry point takes the local-state lock,  *)
(* loads the file (recovering it from sidecars first), changes it and      *)
(* saves it back; a read-only request loads it without the lock.           *)
(*                                                                         *)
(* The document is abstracted to the set of updates it contains, a file to *)
(* its contents, and a sidecar to its creation order (a UUID v7 sorts by   *)
(* time), its suffix and its contents.  Encryption and the migration of a  *)
(* plaintext file are left to the at-rest components.                      *)
(***************************************************************************)
EXTENDS Naturals, FiniteSets

CONSTANTS
    Writer,         \* core processes running a local-state mutation
    Reader,         \* core processes loading the local state without the lock
    MaxOps,         \* bound: mutations started in a behaviour
    MaxReads,       \* bound: unlocked loads started in a behaviour
    MaxDamage,      \* bound: times the disk damages the main file
    MaxPowerLoss,   \* bound: power losses
    FirstSave,      \* whether the behaviour starts before the first save
    Free            \* the lock's value when no process holds it

Proc == Writer \cup Reader

ASSUME ProcAssumption == Free \notin Proc /\ Writer \cap Reader = {}
ASSUME BoundAssumption ==
    /\ MaxOps \in Nat /\ MaxReads \in Nat /\ MaxDamage \in Nat /\ MaxPowerLoss \in Nat
    /\ FirstSave \in BOOLEAN

VARIABLES
    dir,        \* the directory: [main : {} or {contents}, side : set of sidecars]
    onDisk,     \* the directories a power loss may leave: everything since the
                \* last sync_parent
    lock,       \* holder of the local-state lock
    pc,         \* where each process is
    doc,        \* the document each process has loaded, as a set of updates
    mine,       \* number of the sidecar each process created or has chosen
    op,         \* the update each writer makes
    nextId,     \* next UUID v7 of a sidecar
    nextOp,     \* next update
    reads,      \* unlocked loads started
    acked,      \* updates whose save returned Ok
    excused,    \* updates the disk may have damaged
    damages, powerLosses

vars == <<dir, onDisk, lock, pc, doc, mine, op, nextId, nextOp, reads, acked,
          excused, damages, powerLosses>>
envVars == <<excused, damages, powerLosses>>
counters == <<nextOp, reads>>

-----------------------------------------------------------------------------
\* A file's contents: whether it opens and parses, and the updates in it.
Torn == [ok |-> FALSE, ops |-> {}]
Whole(ops) == [ok |-> TRUE, ops |-> ops]

\* valid_json on the main file and on the sidecars of a directory.
MainValid(d) == \E f \in d.main : f.ok
Candidates(d) == {s \in d.side : s.file.ok}

\* candidates.sort(); reverse(); find(valid): the newest valid sidecar.
Newest(S) == {s \in S : \A t \in S : t.id <= s.id}

\* What a load that finds the directory d, alone, returns; none if it fails.
Loads(d) ==
    IF MainValid(d) THEN {f.ops : f \in d.main}
    ELSE {s.file.ops : s \in Newest(Candidates(d))}

\* LocalStateFile::exists.
Exists == dir.main # {} \/ dir.side # {}

Tmp(id, file) == [id |-> id, suffix |-> "tmp", file |-> file]

\* A directory operation: visible at once, durable at the next sync_parent.
Change(d) == dir' = d /\ onDisk' = onDisk \cup {d}

\* A directory operation followed by sync_parent.
ChangeSynced(d) == dir' = d /\ onDisk' = {d}

\* cleanup_sidecars / cleanup_replace_sidecars sync only what they removed.
Cleanup(d) == IF d = dir THEN UNCHANGED <<dir, onDisk>> ELSE ChangeSynced(d)

Goto(p, l) == pc' = [pc EXCEPT ![p] = l]

\* The request ends; a writer drops its guard.
Leave(p) ==
    /\ Goto(p, "idle")
    /\ lock' = IF lock = p THEN Free ELSE lock

Init ==
    /\ dir = [main |-> IF FirstSave THEN {} ELSE {Whole({})}, side |-> {}]
    /\ onDisk = {dir}
    /\ lock = Free
    /\ pc = [p \in Proc |-> "idle"]
    /\ doc = [p \in Proc |-> {}]
    /\ mine = [p \in Proc |-> 0]
    /\ op = [p \in Proc |-> 0]
    /\ nextId = 1 /\ nextOp = 1 /\ reads = 0
    /\ acked = {} /\ excused = {}
    /\ damages = 0 /\ powerLosses = 0

-----------------------------------------------------------------------------
\* Mutant: the mutation starts from an empty document whatever is on disk.
AcquireEmpty(p) ==
    /\ p \in Writer /\ pc[p] = "idle" /\ lock = Free
    /\ nextOp <= MaxOps
    /\ lock' = p
    /\ op' = [op EXCEPT ![p] = nextOp]
    /\ nextOp' = nextOp + 1
    /\ doc' = [doc EXCEPT ![p] = {}]
    /\ Goto(p, "cleanup")
    /\ UNCHANGED <<dir, onDisk, mine, nextId, reads, acked, envVars>>

(* A mutation takes the local-state lock and loads the file if there is one; *)
(* create_workspace starts from an empty document otherwise.                 *)
Acquire(p) ==
    /\ p \in Writer /\ pc[p] = "idle" /\ lock = Free
    /\ nextOp <= MaxOps
    /\ lock' = p
    /\ op' = [op EXCEPT ![p] = nextOp]
    /\ nextOp' = nextOp + 1
    /\ doc' = [doc EXCEPT ![p] = {}]
    /\ Goto(p, IF Exists THEN "check" ELSE "cleanup")
    /\ UNCHANGED <<dir, onDisk, mine, nextId, reads, acked, envVars>>

(* A read-only request loads the file without the lock.                      *)
StartRead(p) ==
    /\ p \in Reader /\ pc[p] = "idle" /\ Exists
    /\ reads < MaxReads
    /\ reads' = reads + 1
    /\ Goto(p, "check")
    /\ UNCHANGED <<dir, onDisk, lock, doc, mine, op, nextId, nextOp, acked, envVars>>

(* recover_json_replace: a valid main file, a candidate, or neither.         *)
Check(p) ==
    /\ pc[p] = "check"
    /\ \/ MainValid(dir) /\ Goto(p, "discard") /\ UNCHANGED mine
       \/ /\ ~MainValid(dir)
          /\ \E s \in Newest(Candidates(dir)) : mine' = [mine EXCEPT ![p] = s.id]
          /\ Goto(p, "quarantine")
       \/ ~MainValid(dir) /\ Candidates(dir) = {} /\ Goto(p, "read") /\ UNCHANGED mine
    /\ UNCHANGED <<dir, onDisk, lock, doc, op, nextId, counters, acked, envVars>>

(* cleanup_replace_sidecars, after a valid main file or a promotion.         *)
Discard(p) ==
    /\ pc[p] = "discard"
    /\ Cleanup([dir EXCEPT !.side = {}])
    /\ Goto(p, "read")
    /\ UNCHANGED <<lock, doc, mine, op, nextId, counters, acked, envVars>>

(* The unreadable main file is set aside, synced.                            *)
Quarantine(p) ==
    /\ pc[p] = "quarantine"
    /\ IF dir.main = {}
       THEN UNCHANGED <<dir, onDisk, nextId>>
       ELSE /\ \E f \in dir.main : ChangeSynced(
                  [main |-> {}, side |-> dir.side \cup
                      {[id |-> nextId, suffix |-> "quarantined", file |-> f]}])
            /\ nextId' = nextId + 1
    /\ Goto(p, "promote")
    /\ UNCHANGED <<lock, doc, mine, op, counters, acked, envVars>>

(* The candidate becomes the main file; it may be gone by now.               *)
Promote(p) ==
    LET found == {s \in dir.side : s.id = mine[p]}
    IN  /\ pc[p] = "promote"
        /\ IF found = {}
           THEN Leave(p) /\ UNCHANGED <<dir, onDisk>>
           ELSE /\ Change([main |-> {s.file : s \in found}, side |-> dir.side \ found])
                /\ Goto(p, "promoted") /\ UNCHANGED lock
        /\ UNCHANGED <<doc, mine, op, nextId, counters, acked, envVars>>

(* sync_parent after the promotion.                                          *)
Promoted(p) ==
    /\ pc[p] = "promoted"
    /\ ChangeSynced(dir)
    /\ Goto(p, "discard")
    /\ UNCHANGED <<lock, doc, mine, op, nextId, counters, acked, envVars>>

(* load reads and decodes the main file; a reader is done then.              *)
Read(p) ==
    /\ pc[p] = "read"
    /\ IF MainValid(dir) /\ p \in Writer
       THEN /\ \E f \in dir.main : doc' = [doc EXCEPT ![p] = f.ops]
            /\ Goto(p, "cleanup") /\ UNCHANGED lock
       ELSE Leave(p) /\ UNCHANGED doc
    /\ UNCHANGED <<dir, onDisk, mine, op, nextId, counters, acked, envVars>>

(* write_private_replace: old temporary files go first.                      *)
CleanupTmp(p) ==
    /\ pc[p] = "cleanup"
    /\ Cleanup([dir EXCEPT !.side = {s \in @ : s.suffix # "tmp"}])
    /\ Goto(p, "create")
    /\ UNCHANGED <<lock, doc, mine, op, nextId, counters, acked, envVars>>

(* write_private_new creates the temporary file and starts writing it.       *)
CreateTemp(p) ==
    /\ pc[p] = "create"
    /\ Change([dir EXCEPT !.side = @ \cup {Tmp(nextId, Torn)}])
    /\ mine' = [mine EXCEPT ![p] = nextId]
    /\ nextId' = nextId + 1
    /\ Goto(p, "write")
    /\ UNCHANGED <<lock, doc, op, counters, acked, envVars>>

(* write_all and sync_all: the contents of the temporary file are durable    *)
(* wherever its directory entry is.                                          *)
WriteTemp(p) ==
    LET written(d) == [d EXCEPT !.side = {IF s.id = mine[p]
                                          THEN Tmp(s.id, Whole(doc[p] \cup {op[p]}))
                                          ELSE s : s \in @}]
    IN  /\ pc[p] = "write"
        /\ dir' = written(dir)
        /\ onDisk' = {written(d) : d \in onDisk}
        /\ Goto(p, "rename")
        /\ UNCHANGED <<lock, doc, mine, op, nextId, counters, acked, envVars>>

(* rename_replace puts the new contents in place, unless an unlocked load    *)
(* has removed the temporary file: then the save fails.                      *)
Rename(p) ==
    LET found == {s \in dir.side : s.id = mine[p]}
    IN  /\ pc[p] = "rename"
        /\ IF found = {}
           THEN Leave(p) /\ UNCHANGED <<dir, onDisk>>
           ELSE /\ Change([main |-> {s.file : s \in found}, side |-> dir.side \ found])
                /\ Goto(p, "sync") /\ UNCHANGED lock
        /\ UNCHANGED <<doc, mine, op, nextId, counters, acked, envVars>>

\* Mutant: the save returns Ok without syncing the directory.
ReturnUnsynced(p) ==
    /\ pc[p] = "sync"
    /\ acked' = acked \cup {op[p]}
    /\ Leave(p)
    /\ UNCHANGED <<dir, onDisk, doc, mine, op, nextId, counters, envVars>>

(* sync_parent; the save returns Ok.                                         *)
SyncParent(p) ==
    /\ pc[p] = "sync"
    /\ ChangeSynced(dir)
    /\ acked' = acked \cup {op[p]}
    /\ Leave(p)
    /\ UNCHANGED <<doc, mine, op, nextId, counters, envVars>>

(* A write, a sync or a rename fails, or the process dies: the directory     *)
(* keeps what is in it and the lock is released.                             *)
Abandon(p) ==
    /\ pc[p] # "idle"
    /\ Leave(p)
    /\ UNCHANGED <<dir, onDisk, doc, mine, op, nextId, counters, acked, envVars>>

(* Every process dies and the directory is one of those since the last sync. *)
PowerLoss ==
    /\ powerLosses < MaxPowerLoss
    /\ powerLosses' = powerLosses + 1
    /\ dir' \in onDisk
    /\ onDisk' = {dir'}
    /\ pc' = [p \in Proc |-> "idle"]
    /\ lock' = Free
    /\ UNCHANGED <<doc, mine, op, nextId, counters, acked, excused, damages>>

(* The disk damages the main file while nobody uses it; if a load cannot     *)
(* recover it from a sidecar, its updates are excused.                       *)
Damage ==
    LET damaged(d) == IF d.main = dir.main THEN [d EXCEPT !.main = {Torn}] ELSE d
    IN  /\ damages < MaxDamage
        /\ damages' = damages + 1
        /\ dir.main # {} /\ \A p \in Proc : pc[p] = "idle"
        /\ dir' = damaged(dir)
        /\ onDisk' = {damaged(d) : d \in onDisk}
        /\ excused' = IF \E d \in onDisk' : Loads(d) = {} THEN 1..(nextOp - 1) ELSE excused
        /\ UNCHANGED <<lock, pc, doc, mine, op, nextId, counters, acked, powerLosses>>

Step(p) ==
    \/ Check(p) \/ Discard(p) \/ Quarantine(p) \/ Promote(p) \/ Promoted(p) \/ Read(p)
    \/ CleanupTmp(p) \/ CreateTemp(p) \/ WriteTemp(p) \/ Rename(p) \/ SyncParent(p)

Next ==
    \/ \E p \in Proc : Acquire(p) \/ StartRead(p) \/ Step(p) \/ Abandon(p)
    \/ PowerLoss
    \/ Damage

Spec == Init /\ [][Next]_vars

-----------------------------------------------------------------------------
(* Properties                                                              *)

Update == 1..MaxOps
File == [ok : BOOLEAN, ops : SUBSET Update]
Sidecar == [id : Nat, suffix : {"tmp", "quarantined"}, file : File]
Directory == [main : SUBSET File, side : SUBSET Sidecar]
Label == {"idle", "check", "discard", "quarantine", "promote", "promoted", "read",
          "cleanup", "create", "write", "rename", "sync"}

(* Types, one main file at most, the current directory among those a power *)
(* loss may leave, and a writer inside its request holding the lock.       *)
TypeOK ==
    /\ dir \in onDisk /\ onDisk \subseteq Directory
    /\ \A d \in onDisk : \A f, g \in d.main : f = g
    /\ lock \in Writer \cup {Free}
    /\ pc \in [Proc -> Label]
    /\ doc \in [Proc -> SUBSET Update]
    /\ mine \in [Proc -> Nat] /\ op \in [Proc -> 0..MaxOps]
    /\ nextId \in Nat \ {0} /\ nextOp \in 1..(MaxOps + 1) /\ reads \in 0..MaxReads
    /\ acked \subseteq Update /\ excused \subseteq Update
    /\ damages \in 0..MaxDamage /\ powerLosses \in 0..MaxPowerLoss
    /\ \A p \in Writer : pc[p] # "idle" <=> lock = p

(* Every update whose save returned Ok is in what a load returns, now and  *)
(* after a power loss at this moment: no interrupted save or recovery, no  *)
(* concurrent load and no lost directory change drops it                   *)
(* (write_private_replace_with, recover_json_replace).                     *)
AckedKept ==
    \A d \in onDisk : \A u \in acked \ excused : \E ops \in Loads(d) : u \in ops

(* A sidecar that recovery could promote is never a stale snapshot: it     *)
(* holds every acknowledged update (recover_json_replace trusts the newest *)
(* sidecar that opens, whatever is in it).                                 *)
CandidatesCurrent ==
    \A d \in onDisk : \A s \in Candidates(d) : acked \ excused \subseteq s.file.ops

=============================================================================
