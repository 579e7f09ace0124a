------------------------------ MODULE EventLog ------------------------------
(***************************************************************************)
(* The encrypted append-only event log of one workspace (storage.rs) as    *)
(* the mutating entry points of workspace_store.rs use it: a core process  *)
(* takes the workspace's advisory lock (locks.rs), loads the log, appends  *)
(* one or more signed events and drops the lock.  Processes may die at any *)
(* instruction, I/O may fail, the machine may lose power, and the disk may *)
(* damage a committed record.  A behaviour starts where create_workspace   *)
(* stopped; create_workspace itself and the entry points that read the log *)
(* without the lock are in EventLogUnlocked.                               *)
(*                                                                         *)
(* Bytes are abstracted to what the recovery code tells apart.  `log' is   *)
(* the sequence of newline-terminated records visible in the file, `tail'  *)
(* the unterminated bytes after the last newline.  An event is known by    *)
(* the operation that produced it, its number in that operation and its    *)
(* lamport clock; its payload, signature and ciphertext are left out.      *)
(***************************************************************************)
EXTENDS Naturals, Sequences, FiniteSets

CONSTANTS
    Proc,           \* core processes that mutate the workspace
    MaxOps,         \* bound: operations started in a behaviour
    MaxBatch,       \* bound: events one operation appends
    MaxFaults,      \* bound: committed records the disk damages
    MaxPowerLoss,   \* bound: power losses
    Free            \* the lock's value when no process holds it

ASSUME ProcAssumption == Free \notin Proc
ASSUME BoundAssumption ==
    /\ MaxOps \in Nat /\ MaxBatch \in Nat \ {0}
    /\ MaxFaults \in Nat /\ MaxPowerLoss \in Nat

VARIABLES
    log,        \* newline-terminated records of the file, as any process sees them
    tail,       \* unterminated bytes at the end of the file
    synced,     \* how many records sync_data has made durable
    lock,       \* holder of the workspace's advisory lock
    pc,         \* where each process is in its operation
    op,         \* the operation each process runs
    left,       \* events of that operation still to append
    view,       \* applied_event_ids.len() of the process's projection
    nextOp,     \* next operation number
    acked,      \* events whose append returned Ok
    damaged,    \* indices of the records the disk damaged
    powerLosses

vars == <<log, tail, synced, lock, pc, op, left, view, nextOp, acked,
          damaged, powerLosses>>

fileVars == <<log, tail, synced>>
procVars == <<op, left, view>>
envVars == <<damaged, powerLosses>>

-----------------------------------------------------------------------------
Event == [op : Nat \ {0}, n : Nat \ {0}, lamport : Nat \ {0}]

\* A committed line that does not open, authenticate or parse.
Malformed == [op |-> 0, n |-> 0, lamport |-> 0]

\* No bytes after the last newline, and bytes that are no event's prefix.
NoTail == [op |-> 0, n |-> 0, lamport |-> 0]
Torn == [op |-> 0, n |-> 1, lamport |-> 0]

States == {"idle", "waiting", "locked", "append", "writing", "written"}

\* The process holds the advisory lock.
Holding(p) == pc[p] \notin {"idle", "waiting"}

HasMalformed == \E i \in DOMAIN log : log[i] = Malformed

\* append_encrypted_json_record opens the first and the last committed record.
AppendRefused ==
    /\ log # <<>>
    /\ Malformed \in {log[1], log[Len(log)]}

\* recover_unterminated_tail: drop the bytes after the last newline and, when
\* there were any, sync what is left.
RecoverTail == synced' = IF tail = NoTail THEN synced ELSE Len(log)

\* The event a process signs at lamport clock t.
Signed(p, t) == [op |-> op[p], n |-> left[p], lamport |-> t]

\* WorkspaceCreated, the first event of every log.
Founding == [op |-> 1, n |-> 1, lamport |-> 1]

\* create_workspace failed or died after it wrote the founding event: before
\* sync_data, before sync_parent, or once that append had returned.
Init ==
    /\ log = <<Founding>> /\ tail = NoTail
    /\ \/ synced \in {0, 1} /\ acked = {}
       \/ synced = 1 /\ acked = {Founding}
    /\ lock = Free
    /\ pc = [p \in Proc |-> "idle"]
    /\ op = [p \in Proc |-> 0]
    /\ left = [p \in Proc |-> 0]
    /\ view = [p \in Proc |-> 0]
    /\ nextOp = 2
    /\ damaged = {}
    /\ powerLosses = 0

-----------------------------------------------------------------------------
(* The operation ends, successfully or not: the guard is dropped.            *)
Leave(p) ==
    /\ pc' = [pc EXCEPT ![p] = "idle"]
    /\ lock' = Free

(* A request for a mutating entry point that appends b events arrives.       *)
Request(p) ==
    /\ pc[p] = "idle"
    /\ nextOp <= MaxOps
    /\ \E b \in 1..MaxBatch : left' = [left EXCEPT ![p] = b]
    /\ op' = [op EXCEPT ![p] = nextOp]
    /\ nextOp' = nextOp + 1
    /\ pc' = [pc EXCEPT ![p] = "waiting"]
    /\ UNCHANGED <<fileVars, lock, view, acked, envVars>>

(* Mutant: a shared instead of an exclusive lock.                            *)
AcquireShared(p) ==
    /\ pc[p] = "waiting"
    /\ lock' = p
    /\ pc' = [pc EXCEPT ![p] = "locked"]
    /\ UNCHANGED <<fileVars, procVars, nextOp, acked, envVars>>

(* acquire_write_lock: try_lock_exclusive succeeds.                          *)
Acquire(p) ==
    /\ pc[p] = "waiting"
    /\ lock = Free
    /\ lock' = p
    /\ pc' = [pc EXCEPT ![p] = "locked"]
    /\ UNCHANGED <<fileVars, procVars, nextOp, acked, envVars>>

(* acquire_write_lock: ten seconds of WouldBlock end in an error.            *)
LockTimeout(p) ==
    /\ pc[p] = "waiting"
    /\ lock # Free
    /\ pc' = [pc EXCEPT ![p] = "idle"]
    /\ UNCHANGED <<fileVars, lock, procVars, nextOp, acked, envVars>>

(* load_parts: the log is read in full.  A malformed record is an error, and *)
(* so is a log without the founding event (no fingerprint to match).         *)
Load(p) ==
    /\ pc[p] = "locked"
    /\ ~HasMalformed /\ log # <<>>
    /\ tail' = NoTail
    /\ RecoverTail
    /\ view' = [view EXCEPT ![p] = Len(log)]
    /\ pc' = [pc EXCEPT ![p] = "append"]
    /\ UNCHANGED <<log, lock, op, left, nextOp, acked, envVars>>

(* Mutant: recovery treats a damaged last record as a crash residue.         *)
LoadDropsDamage(p) ==
    /\ pc[p] = "locked"
    /\ log # <<>> /\ log[Len(log)] = Malformed
    /\ log' = SubSeq(log, 1, Len(log) - 1)
    /\ tail' = NoTail
    /\ synced' = Len(log')
    /\ Leave(p)
    /\ UNCHANGED <<procVars, nextOp, acked, envVars>>

(* Mutant: a malformed record is waited out instead of reported.             *)
LoadHangs(p) ==
    /\ pc[p] = "locked"
    /\ log = <<>>
    /\ tail' = NoTail
    /\ RecoverTail
    /\ Leave(p)
    /\ UNCHANGED <<log, procVars, nextOp, acked, envVars>>

LoadFails(p) ==
    /\ pc[p] = "locked"
    /\ HasMalformed \/ log = <<>>
    /\ tail' = NoTail
    /\ RecoverTail
    /\ Leave(p)
    /\ UNCHANGED <<log, procVars, nextOp, acked, envVars>>

(* append: apply the event to the projection, recover the tail once more,    *)
(* open the file for appending and let the first bytes of the record reach   *)
(* it.  A fresh event never equals the last record, so the idempotent-retry  *)
(* branch of append_encrypted_json_record is not taken.                      *)
WriteStart(p) ==
    /\ pc[p] = "append"
    /\ ~AppendRefused
    /\ RecoverTail
    /\ tail' = Signed(p, view[p] + 1)
    /\ view' = [view EXCEPT ![p] = @ + 1]
    /\ pc' = [pc EXCEPT ![p] = "writing"]
    /\ UNCHANGED <<log, lock, op, left, nextOp, acked, envVars>>

AppendFails(p) ==
    /\ pc[p] = "append"
    /\ AppendRefused
    /\ RecoverTail
    /\ tail' = NoTail
    /\ Leave(p)
    /\ UNCHANGED <<log, procVars, nextOp, acked, envVars>>

(* write_all writes the rest of the record and its newline.  The line is the *)
(* event only if its first bytes are still there.                            *)
WriteRest(p) ==
    LET e == Signed(p, view[p])
    IN  /\ pc[p] = "writing"
        /\ log' = Append(log, IF tail = e THEN e ELSE Malformed)
        /\ tail' = NoTail
        /\ pc' = [pc EXCEPT ![p] = "written"]
        /\ UNCHANGED <<synced, lock, procVars, nextOp, acked, envVars>>

(* write_all or sync_data fails: the operation returns Err and leaves in the *)
(* file whatever it wrote.                                                   *)
IoFails(p) ==
    /\ pc[p] \in {"writing", "written"}
    /\ Leave(p)
    /\ UNCHANGED <<fileVars, procVars, nextOp, acked, envVars>>

(* append returns Ok for the record just written: the operation goes on to   *)
(* its next event or ends.                                                   *)
Acknowledge(p) ==
    /\ acked' = acked \cup {log[Len(log)]}
    /\ left' = [left EXCEPT ![p] = @ - 1]
    /\ IF left[p] > 1
       THEN pc' = [pc EXCEPT ![p] = "append"] /\ UNCHANGED lock
       ELSE Leave(p)

(* Mutant: Ok is returned before sync_data.                                  *)
AcknowledgeUnsynced(p) ==
    /\ pc[p] = "written"
    /\ Acknowledge(p)
    /\ UNCHANGED <<log, tail, synced, op, view, nextOp, envVars>>

(* sync_data; the file existed before, so append then returns Ok without     *)
(* syncing the parent directory.                                             *)
Sync(p) ==
    /\ pc[p] = "written"
    /\ synced' = Len(log)
    /\ Acknowledge(p)
    /\ UNCHANGED <<log, tail, op, view, nextOp, envVars>>

(* The process dies; the operating system releases its lock.                 *)
Crash(p) ==
    /\ pc[p] # "idle"
    /\ pc' = [pc EXCEPT ![p] = "idle"]
    /\ lock' = IF lock = p THEN Free ELSE lock
    /\ UNCHANGED <<fileVars, procVars, nextOp, acked, envVars>>

(* Power fails: every process dies, records beyond the synced ones survive   *)
(* in part, and the tail is whatever bytes reached the disk.  A file whose   *)
(* data was synced is assumed to keep its directory entry.                   *)
PowerLoss ==
    /\ powerLosses < MaxPowerLoss
    /\ powerLosses' = powerLosses + 1
    /\ pc' = [p \in Proc |-> "idle"]
    /\ lock' = Free
    /\ \E n \in synced..Len(log) : log' = SubSeq(log, 1, n)
    /\ tail' \in {NoTail, Torn}
    /\ UNCHANGED <<synced, damaged, procVars, nextOp, acked>>

(* The disk damages a durable committed record.                              *)
DiskFault ==
    /\ Cardinality(damaged) < MaxFaults
    /\ \E i \in 1..synced :
        /\ log' = [log EXCEPT ![i] = Malformed]
        /\ damaged' = damaged \cup {i}
    /\ UNCHANGED <<tail, synced, lock, pc, procVars, nextOp, acked,
                   powerLosses>>

Step(p) ==
    \/ Acquire(p) \/ LockTimeout(p)
    \/ Load(p) \/ LoadFails(p)
    \/ WriteStart(p) \/ AppendFails(p) \/ WriteRest(p)
    \/ Sync(p)

Next ==
    \/ \E p \in Proc : Request(p) \/ Step(p) \/ IoFails(p) \/ Crash(p)
    \/ PowerLoss
    \/ DiskFault

Spec == Init /\ [][Next]_vars

(* A process that has not died keeps executing its request: nothing in the   *)
(* core waits on anything but the lock, and that wait ends by itself.        *)
FairSpec == Spec /\ \A p \in Proc : WF_vars(Step(p))

-----------------------------------------------------------------------------
TypeOK ==
    /\ log \in Seq(Event \cup {Malformed})
    /\ tail \in Event \cup {NoTail, Torn}
    /\ synced \in Nat
    /\ lock \in Proc \cup {Free}
    /\ pc \in [Proc -> States]
    /\ op \in [Proc -> Nat]
    /\ left \in [Proc -> Nat]
    /\ view \in [Proc -> Nat]
    /\ nextOp \in Nat \ {0}
    /\ acked \subseteq Event
    /\ damaged \subseteq Nat
    /\ powerLosses \in Nat

(* The lamport clock of an event is its position in the log, whatever        *)
(* processes raced, failed or died before it was appended: no two writers    *)
(* derive the same clock (workspace_store.rs write_lock) and no record is    *)
(* skipped when the clock is derived.                                        *)
LamportsAgree ==
    \A i \in DOMAIN log : log[i] = Malformed \/ log[i].lamport = i

(* Every event whose append returned Ok is in the log and stays there, at    *)
(* its own position, through crashes, I/O errors and power loss; only damage *)
(* to that very record can take it away.                                     *)
AckedKept ==
    \A e \in acked :
        /\ e.lamport \in DOMAIN log
        /\ log[e.lamport] = e \/ e.lamport \in damaged

(* The events of one mutating entry point are adjacent in the log: no other  *)
(* operation's event falls between them, although an operation may end or    *)
(* die part-way and other processes run in between.                          *)
OperationsContiguous ==
    \A i, k \in DOMAIN log :
        log[i] # Malformed /\ log[k] # Malformed /\ log[i].op = log[k].op
            => \A j \in i..k : log[j] = Malformed \/ log[j].op = log[i].op

(* The append path never commits a malformed record by itself: a hard error  *)
(* on load means the file was damaged from outside.                          *)
MalformedOnlyFromDamage ==
    \A i \in DOMAIN log : log[i] = Malformed => i \in damaged

(* A damaged record is left where it is for inspection: no recovery, append  *)
(* or power loss drops or overwrites it.                                     *)
DamageLeftInPlace ==
    [][\A i \in damaged : i \in DOMAIN log' /\ log'[i] = Malformed]_vars

(* The detailed log implements the promise of DurableLog: its committed      *)
(* records are the entries, the synced ones the stable prefix.               *)
Promise == INSTANCE DurableLog WITH entries <- log, stable <- synced

ImplementsDurableLog == Promise!Spec

(* A request for a mutating entry point always ends: it gets the lock and    *)
(* runs to an answer, or acquire_write_lock gives up.                        *)
RequestsEnd == \A p \in Proc : pc[p] = "waiting" ~> pc[p] = "idle"
=============================================================================
