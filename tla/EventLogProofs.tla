--------------------------- MODULE EventLogProofs ---------------------------
(***************************************************************************)
(* Proofs about EventLog for any number of processes, operations, faults   *)
(* and power losses.                                                       *)
(***************************************************************************)
EXTENDS EventLog, TLAPS

-----------------------------------------------------------------------------
(* The inductive invariant, in parts.                                      *)

\* The advisory lock is held exactly by the process inside an operation.
LockInv == \A p \in Proc : Holding(p) <=> lock = p

\* What the lock holder knows about the file at each point of its operation.
HolderSees(p) ==
    /\ pc[p] # "idle" => op[p] # 0 /\ left[p] # 0
    /\ pc[p] = "append" => view[p] = Len(log) /\ tail = NoTail
    /\ pc[p] = "writing" => view[p] = Len(log) + 1 /\ tail = Signed(p, view[p])
    /\ pc[p] = "written" => /\ view[p] = Len(log) /\ tail = NoTail
                            /\ view[p] > synced
                            /\ log[Len(log)] = Signed(p, view[p])

HolderInv == \A p \in Proc : HolderSees(p)

\* Only synced records are damaged, and they read as malformed.
SyncInv ==
    /\ synced <= Len(log)
    /\ damaged \subseteq 1..synced
    /\ \A i \in damaged : log[i] = Malformed

IInv == TypeOK /\ LockInv /\ HolderInv /\ SyncInv
            /\ LamportsAgree /\ MalformedOnlyFromDamage

\* Every acknowledged event lies in the synced prefix.
AckInv ==
    \A e \in acked :
        /\ e.lamport <= synced
        /\ log[e.lamport] = e \/ e.lamport \in damaged

(* What create_workspace leaves satisfies the invariant.                    *)
LEMMA InitIInv == Init => IInv
<1> SUFFICES ASSUME Init PROVE IInv
  OBVIOUS
<1>1. TypeOK
  BY BoundAssumption DEF Init, TypeOK, Event, Founding, States
<1>2. LockInv /\ HolderInv
  BY ProcAssumption DEF Init, LockInv, HolderInv, HolderSees, Holding
<1>3. SyncInv /\ LamportsAgree /\ MalformedOnlyFromDamage
  BY DEF Init, SyncInv, LamportsAgree, MalformedOnlyFromDamage, Founding, Malformed
<1> QED
  BY <1>1, <1>2, <1>3 DEF IInv

(* Type correctness is inductive on its own except for the bytes of the     *)
(* event being written, which HolderInv describes.                          *)
LEMMA TypeStep == IInv /\ [Next]_vars => TypeOK'
<1> SUFFICES ASSUME IInv, [Next]_vars PROVE TypeOK'
  OBVIOUS
<1> USE DEF IInv, TypeOK, fileVars, procVars, envVars, States
<1>1. ASSUME NEW p \in Proc, Request(p) PROVE TypeOK'
  BY <1>1, BoundAssumption DEF Request
<1>2. ASSUME NEW p \in Proc, Acquire(p) PROVE TypeOK'
  BY <1>2 DEF Acquire
<1>3. ASSUME NEW p \in Proc, LockTimeout(p) PROVE TypeOK'
  BY <1>3 DEF LockTimeout
<1>4. ASSUME NEW p \in Proc, Load(p) PROVE TypeOK'
  BY <1>4 DEF Load, RecoverTail
<1>5. ASSUME NEW p \in Proc, LoadFails(p) PROVE TypeOK'
  BY <1>5 DEF LoadFails, RecoverTail, Leave
<1>6. ASSUME NEW p \in Proc, WriteStart(p) PROVE TypeOK'
  <2>1. Signed(p, view[p] + 1) \in Event
    <3>1. pc[p] = "append" /\ op[p] # 0 /\ left[p] # 0
      BY <1>6 DEF WriteStart, HolderInv, HolderSees
    <3> QED
      BY <3>1 DEF Signed, Event
  <2> QED
    BY <1>6, <2>1 DEF WriteStart, RecoverTail
<1>7. ASSUME NEW p \in Proc, AppendFails(p) PROVE TypeOK'
  BY <1>7 DEF AppendFails, RecoverTail, Leave
<1>8. ASSUME NEW p \in Proc, WriteRest(p) PROVE TypeOK'
  <2>1. Signed(p, view[p]) \in Event
    BY <1>8 DEF WriteRest, HolderInv, HolderSees, Signed, Event
  <2>2. log' \in Seq(Event \cup {Malformed})
    BY <1>8, <2>1 DEF WriteRest
  <2> QED
    BY <1>8, <2>2 DEF WriteRest
<1>9. ASSUME NEW p \in Proc, Sync(p) PROVE TypeOK'
  <2>1. log[Len(log)] \in Event
    <3>1. pc[p] = "written"
      BY <1>9 DEF Sync
    <3>2. log[Len(log)] = Signed(p, view[p]) /\ op[p] # 0 /\ left[p] # 0 /\ view[p] > synced
      BY <3>1 DEF HolderInv, HolderSees
    <3> QED
      BY <3>2 DEF Signed, Event
  <2>2. left' \in [Proc -> Nat]
    BY <1>9 DEF Sync, Acknowledge, HolderInv, HolderSees
  <2>3. pc' \in [Proc -> States] /\ lock' \in Proc \cup {Free}
    BY <1>9 DEF Sync, Acknowledge, Leave
  <2> QED
    BY <1>9, <2>1, <2>2, <2>3 DEF Sync, Acknowledge
<1>10. ASSUME NEW p \in Proc, IoFails(p) PROVE TypeOK'
  BY <1>10 DEF IoFails, Leave
<1>11. ASSUME NEW p \in Proc, Crash(p) PROVE TypeOK'
  BY <1>11 DEF Crash
<1>12. CASE PowerLoss
  <2>1. log' \in Seq(Event \cup {Malformed})
    <3>1. ASSUME NEW n \in synced..Len(log), log' = SubSeq(log, 1, n)
          PROVE log' \in Seq(Event \cup {Malformed})
      BY <3>1
    <3> QED
      BY <1>12, <3>1 DEF PowerLoss
  <2>2. pc' \in [Proc -> States] /\ lock' \in Proc \cup {Free}
    BY <1>12 DEF PowerLoss
  <2>3. /\ tail' \in Event \cup {NoTail, Torn}
        /\ synced' \in Nat
    BY <1>12 DEF PowerLoss
  <2>4. damaged' \subseteq Nat
    BY <1>12 DEF PowerLoss
  <2> QED
    BY <1>12, <2>1, <2>2, <2>3, <2>4 DEF PowerLoss
<1>13. CASE DiskFault
  BY <1>13 DEF DiskFault, SyncInv
<1>14. CASE UNCHANGED vars
  BY <1>14 DEF vars
<1> QED
  BY <1>1, <1>2, <1>3, <1>4, <1>5, <1>6, <1>7, <1>8, <1>9, <1>10, <1>11,
     <1>12, <1>13, <1>14 DEF Next, Step

(* The lock excludes, and its holder's view of the file stays right.        *)
LEMMA LockStep == IInv /\ [Next]_vars => LockInv'
<1> SUFFICES ASSUME IInv, [Next]_vars PROVE LockInv'
  OBVIOUS
<1> USE ProcAssumption DEF IInv, TypeOK, LockInv, Holding
<1>1. ASSUME NEW p \in Proc, Request(p) \/ Acquire(p) \/ LockTimeout(p) PROVE LockInv'
  BY <1>1 DEF Request, Acquire, LockTimeout
<1>2. ASSUME NEW p \in Proc, Load(p) \/ LoadFails(p) PROVE LockInv'
  BY <1>2 DEF Load, LoadFails, Leave
<1>3. ASSUME NEW p \in Proc, WriteStart(p) \/ AppendFails(p) \/ WriteRest(p) PROVE LockInv'
  BY <1>3 DEF WriteStart, AppendFails, WriteRest, Leave
<1>4. ASSUME NEW p \in Proc, Sync(p) PROVE LockInv'
  BY <1>4 DEF Sync, Acknowledge, Leave
<1>5. ASSUME NEW p \in Proc, IoFails(p) \/ Crash(p) PROVE LockInv'
  BY <1>5 DEF IoFails, Crash, Leave
<1>6. CASE PowerLoss
  BY <1>6 DEF PowerLoss
<1>7. CASE DiskFault \/ UNCHANGED vars
  BY <1>7 DEF DiskFault, vars
<1> QED
  BY <1>1, <1>2, <1>3, <1>4, <1>5, <1>6, <1>7 DEF Next, Step

(* The lock holder's knowledge of the file survives every step of the       *)
(* others.                                                                  *)
LEMMA HolderStep == IInv /\ [Next]_vars => HolderInv'
<1> SUFFICES ASSUME IInv, [Next]_vars, NEW q \in Proc PROVE HolderSees(q)'
  BY DEF HolderInv
<1> USE ProcAssumption, BoundAssumption
    DEF IInv, TypeOK, LockInv, Holding, HolderInv, HolderSees, SyncInv, fileVars, procVars, envVars
<1>1. ASSUME NEW p \in Proc, Request(p) PROVE HolderSees(q)'
  BY <1>1 DEF Request, Signed
<1>2. ASSUME NEW p \in Proc, Acquire(p) \/ LockTimeout(p) PROVE HolderSees(q)'
  BY <1>2 DEF Acquire, LockTimeout, Signed
<1>3. ASSUME NEW p \in Proc, Load(p) \/ LoadFails(p) PROVE HolderSees(q)'
  BY <1>3 DEF Load, LoadFails, Leave, Signed
<1>4. ASSUME NEW p \in Proc, WriteStart(p) \/ AppendFails(p) PROVE HolderSees(q)'
  <2>1. CASE AppendFails(p)
    BY <2>1 DEF AppendFails, Leave
  <2>2. CASE WriteStart(p) /\ q # p
    BY <2>2 DEF WriteStart
  <2>3. CASE WriteStart(p) /\ q = p
    <3>1. view'[p] = view[p] + 1 /\ pc'[p] = "writing" /\ log' = log
      BY <2>3 DEF WriteStart
    <3>2. tail' = Signed(p, view[p])'
      BY <2>3, <3>1 DEF WriteStart, Signed
    <3>3. view[p] = Len(log) /\ op'[p] # 0 /\ left'[p] # 0
      BY <2>3 DEF WriteStart
    <3> QED
      BY <2>3, <3>1, <3>2, <3>3
  <2> QED
    BY <1>4, <2>1, <2>2, <2>3
<1>5. ASSUME NEW p \in Proc, WriteRest(p) PROVE HolderSees(q)'
  <2>1. tail = Signed(p, view[p]) /\ view[p] = Len(log) + 1
    BY <1>5 DEF WriteRest
  <2>2. log' = Append(log, Signed(p, view[p])) /\ synced' = synced
    BY <1>5, <2>1 DEF WriteRest
  <2>3. Len(log') = Len(log) + 1 /\ log'[Len(log')] = Signed(p, view[p])
    BY <2>2
  <2>4. Signed(p, view[p])' = Signed(p, view[p])
    BY <1>5 DEF WriteRest, Signed
  <2>5. CASE q = p
    BY <1>5, <2>1, <2>2, <2>3, <2>4, <2>5 DEF WriteRest
  <2>6. CASE q # p
    BY <1>5, <2>6 DEF WriteRest
  <2> QED
    BY <2>5, <2>6
<1>6. ASSUME NEW p \in Proc, Sync(p) PROVE HolderSees(q)'
  <2>1. CASE q = p
    BY <1>6, <2>1 DEF Sync, Acknowledge, Leave, States
  <2>2. CASE q # p
    BY <1>6, <2>2 DEF Sync, Acknowledge, Leave, States
  <2> QED
    BY <2>1, <2>2
<1>7. ASSUME NEW p \in Proc, IoFails(p) \/ Crash(p) PROVE HolderSees(q)'
  <2>1. Signed(q, view[q])' = Signed(q, view[q])
    BY <1>7 DEF IoFails, Crash, Leave, Signed
  <2> QED
    BY <1>7, <2>1 DEF IoFails, Crash, Leave
<1>8. CASE PowerLoss
  BY <1>8 DEF PowerLoss
<1>9. CASE DiskFault
  BY <1>9 DEF DiskFault, Signed
<1>10. CASE UNCHANGED vars
  BY <1>10 DEF vars, Signed
<1> QED
  BY <1>1, <1>2, <1>3, <1>4, <1>5, <1>6, <1>7, <1>8, <1>9, <1>10 DEF Next, Step

-----------------------------------------------------------------------------
(* How any step changes the committed records: it leaves them alone, adds    *)
(* the lock holder's event with the next clock, loses some that were never   *)
(* synced, or damages a synced one.                                          *)
Grows == \E p \in Proc :
            /\ log' = Append(log, Signed(p, Len(log) + 1))
            /\ op[p] # 0 /\ left[p] # 0
            /\ UNCHANGED <<synced, damaged, acked>>

Settles == /\ log' = log /\ damaged' = damaged
           /\ synced' \in {synced, Len(log)}
           /\ \/ acked' = acked
              \/ /\ synced' = Len(log) /\ Len(log) > 0
                 /\ log[Len(log)] \in Event
                 /\ acked' = acked \cup {log[Len(log)]}

Shrinks == /\ \E n \in synced..Len(log) : log' = SubSeq(log, 1, n)
           /\ UNCHANGED <<synced, damaged, acked>>

Corrupts == /\ \E i \in 1..synced : /\ log' = [log EXCEPT ![i] = Malformed]
                                   /\ damaged' = damaged \cup {i}
            /\ UNCHANGED <<synced, acked>>

(* Every step is of one of the four kinds.                                  *)
LEMMA StepKinds ==
    IInv /\ [Next]_vars => Grows \/ Settles \/ Shrinks \/ Corrupts
<1> SUFFICES ASSUME IInv, [Next]_vars
             PROVE  Grows \/ Settles \/ Shrinks \/ Corrupts
  OBVIOUS
<1> USE DEF fileVars, procVars, envVars
<1>1. ASSUME NEW p \in Proc,
             Request(p) \/ Acquire(p) \/ LockTimeout(p) \/ IoFails(p) \/ Crash(p)
      PROVE Settles
  BY <1>1 DEF Request, Acquire, LockTimeout, IoFails, Crash, Settles
<1>2. ASSUME NEW p \in Proc,
             Load(p) \/ LoadFails(p) \/ WriteStart(p) \/ AppendFails(p)
      PROVE Settles
  BY <1>2 DEF Load, LoadFails, WriteStart, AppendFails, RecoverTail, Settles
<1>3. ASSUME NEW p \in Proc, WriteRest(p) PROVE Grows
  <2>1. tail = Signed(p, view[p]) /\ view[p] = Len(log) + 1 /\ op[p] # 0 /\ left[p] # 0
    BY <1>3 DEF IInv, HolderInv, HolderSees, WriteRest
  <2> QED
    BY <1>3, <2>1 DEF WriteRest, Grows
<1>4. ASSUME NEW p \in Proc, Sync(p) PROVE Settles
  <2>1. pc[p] = "written" /\ log[Len(log)] = Signed(p, view[p]) /\ op[p] # 0
        /\ left[p] # 0 /\ view[p] > synced /\ view[p] = Len(log)
    BY <1>4 DEF IInv, HolderInv, HolderSees, Sync
  <2>2. log[Len(log)] \in Event /\ Len(log) > 0
    BY <2>1 DEF IInv, TypeOK, Signed, Event
  <2> QED
    BY <1>4, <2>2 DEF Sync, Acknowledge, Settles
<1>5. CASE PowerLoss
  BY <1>5 DEF PowerLoss, Shrinks
<1>6. CASE DiskFault
  BY <1>6 DEF DiskFault, Corrupts
<1>7. CASE UNCHANGED vars
  BY <1>7 DEF vars, Settles
<1> QED
  BY <1>1, <1>2, <1>3, <1>4, <1>5, <1>6, <1>7 DEF Next, Step

(* What remains of the invariant only depends on the kind of step.           *)
LEMMA RecordStep ==
    IInv /\ [Next]_vars => (SyncInv /\ LamportsAgree /\ MalformedOnlyFromDamage)'
<1> SUFFICES ASSUME IInv, [Next]_vars
             PROVE  (SyncInv /\ LamportsAgree /\ MalformedOnlyFromDamage)'
  OBVIOUS
<1> USE DEF SyncInv, LamportsAgree, MalformedOnlyFromDamage
<1>1. log \in Seq(Event \cup {Malformed}) /\ synced \in Nat /\ op \in [Proc -> Nat]
  BY DEF IInv, TypeOK
<1>2. SyncInv /\ LamportsAgree /\ MalformedOnlyFromDamage
  BY DEF IInv
<1>3. CASE Grows
  <2>1. PICK p \in Proc : /\ log' = Append(log, Signed(p, Len(log) + 1))
                          /\ op[p] # 0 /\ left[p] # 0
                          /\ UNCHANGED <<synced, damaged, acked>>
    BY <1>3 DEF Grows
  <2>2. Signed(p, Len(log) + 1).lamport = Len(log) + 1 /\ Signed(p, Len(log) + 1) # Malformed
    BY <1>1, <2>1 DEF Signed, Malformed
  <2>3. /\ Len(log') = Len(log) + 1
        /\ \A i \in 1..Len(log) : log'[i] = log[i]
        /\ log'[Len(log) + 1] = Signed(p, Len(log) + 1)
        /\ DOMAIN log' = 1..(Len(log) + 1) /\ DOMAIN log = 1..Len(log)
    BY <1>1, <2>1
  <2> QED
    BY <1>1, <1>2, <2>1, <2>2, <2>3
<1>4. CASE Settles
  BY <1>1, <1>2, <1>4 DEF Settles
<1>5. CASE Shrinks
  <2>1. PICK n \in synced..Len(log) : log' = SubSeq(log, 1, n)
    BY <1>5 DEF Shrinks
  <2>2. Len(log') = n /\ DOMAIN log' = 1..n /\ \A i \in 1..n : log'[i] = log[i]
    BY <1>1, <2>1
  <2> QED
    BY <1>1, <1>2, <1>5, <2>1, <2>2 DEF Shrinks
<1>6. CASE Corrupts
  BY <1>1, <1>2, <1>6 DEF Corrupts
<1> QED
  BY <1>3, <1>4, <1>5, <1>6, StepKinds

(* IInv is an invariant of the log.                                          *)
THEOREM Invariance == Spec => []IInv
<1>1. IInv /\ [Next]_vars => IInv'
  BY TypeStep, LockStep, HolderStep, RecordStep DEF IInv
<1> QED
  BY InitIInv, <1>1, PTL DEF Spec

(* Type correctness of the log, its lock and its writers.                    *)
THEOREM TypeCorrect == Spec => []TypeOK
<1>1. IInv => TypeOK
  BY DEF IInv
<1> QED
  BY Invariance, <1>1, PTL

(* The lamport clock of every event is its position in the log, for any      *)
(* number of racing, failing and dying writers (WorkspaceStore::append under *)
(* the workspace lock).                                                      *)
THEOREM ClocksAgree == Spec => []LamportsAgree
<1>1. IInv => LamportsAgree
  BY DEF IInv
<1> QED
  BY Invariance, <1>1, PTL

(* Under the lock the append path of storage.rs never commits a malformed    *)
(* record, even after torn writes, failed syncs and power loss.              *)
THEOREM AppendsWellFormed == Spec => []MalformedOnlyFromDamage
<1>1. IInv => MalformedOnlyFromDamage
  BY DEF IInv
<1> QED
  BY Invariance, <1>1, PTL

-----------------------------------------------------------------------------

(* What an acknowledged event rests on is kept by every step.                *)
LEMMA AckStep ==
    IInv /\ AckInv /\ [Next]_vars => AckInv'
<1> SUFFICES ASSUME IInv, AckInv, [Next]_vars, NEW e \in acked'
             PROVE  /\ e.lamport <= synced'
                    /\ log'[e.lamport] = e \/ e.lamport \in damaged'
  BY DEF AckInv
<1>1. /\ log \in Seq(Event \cup {Malformed}) /\ synced \in Nat /\ acked \subseteq Event
      /\ synced <= Len(log)
      /\ \A i \in DOMAIN log : log[i] = Malformed \/ log[i].lamport = i
  BY DEF IInv, TypeOK, SyncInv, LamportsAgree
<1>2. \A d \in acked : /\ d.lamport \in 1..synced
                       /\ log[d.lamport] = d \/ d.lamport \in damaged
  BY <1>1 DEF AckInv, Event
<1>3. CASE Grows
  BY <1>1, <1>2, <1>3 DEF Grows
<1>4. CASE Settles
  <2>1. CASE e \in acked
    BY <1>1, <1>2, <1>4, <2>1 DEF Settles
  <2>2. CASE e \notin acked
    <3>1. e = log[Len(log)] /\ e \in Event /\ Len(log) > 0
          /\ synced' = Len(log) /\ log' = log
      BY <1>4, <2>2 DEF Settles
    <3>2. log[Len(log)] # Malformed
      BY <3>1 DEF Event, Malformed
    <3>3. e.lamport = Len(log)
      BY <1>1, <3>1, <3>2
    <3> QED
      BY <1>1, <3>1, <3>3
  <2> QED
    BY <2>1, <2>2
<1>5. CASE Shrinks
  BY <1>1, <1>2, <1>5 DEF Shrinks
<1>6. CASE Corrupts
  BY <1>1, <1>2, <1>6 DEF Corrupts
<1> QED
  BY <1>3, <1>4, <1>5, <1>6, StepKinds

(* No acknowledged event is ever lost: once an append has returned Ok, the   *)
(* event stays at its position through every crash, I/O error, power loss    *)
(* and tail recovery by lock holders, unless the disk damages that record.   *)
THEOREM AcknowledgedEventsKept == Spec => []AckedKept
<1>1. Init => AckInv
  BY DEF Init, AckInv, Founding
<1>2. IInv /\ AckInv => AckedKept
  BY DEF IInv, TypeOK, SyncInv, AckInv, AckedKept, Event
<1> QED
  BY Invariance, AckStep, <1>1, <1>2, PTL DEF Spec

(* A damaged record is never dropped or overwritten.                         *)
THEOREM DamageKept == Spec => DamageLeftInPlace
<1>1. IInv /\ [Next]_vars => [\A i \in damaged : i \in DOMAIN log' /\ log'[i] = Malformed]_vars
  <2> SUFFICES ASSUME IInv, [Next]_vars, NEW i \in damaged
               PROVE  i \in DOMAIN log' /\ log'[i] = Malformed
    OBVIOUS
  <2>1. /\ log \in Seq(Event \cup {Malformed}) /\ synced \in Nat
        /\ synced <= Len(log) /\ i \in 1..synced /\ log[i] = Malformed
    BY DEF IInv, TypeOK, SyncInv
  <2>2. CASE Grows
    BY <2>1, <2>2 DEF Grows
  <2>3. CASE Settles
    BY <2>1, <2>3 DEF Settles
  <2>4. CASE Shrinks
    BY <2>1, <2>4 DEF Shrinks
  <2>5. CASE Corrupts
    BY <2>1, <2>5 DEF Corrupts
  <2> QED
    BY <2>2, <2>3, <2>4, <2>5, StepKinds
<1> QED
  BY Invariance, <1>1, PTL DEF Spec, DamageLeftInPlace

(* The detailed log implements DurableLog: the committed records are its     *)
(* entries and the synced ones its stable prefix.                            *)
THEOREM Refinement == Spec => ImplementsDurableLog
<1>1. Init => Promise!Init
  BY DEF Init, Promise!Init, Founding
<1>2. IInv /\ [Next]_vars => [Promise!Next]_(Promise!vars)
  <2> SUFFICES ASSUME IInv, [Next]_vars PROVE Promise!Next
    OBVIOUS
  <2>1. /\ log \in Seq(Event \cup {Malformed}) /\ synced \in Nat /\ op \in [Proc -> Nat]
        /\ synced <= Len(log)
    BY DEF IInv, TypeOK, SyncInv
  <2>2. CASE Grows
    BY <2>1, <2>2 DEF Grows, Signed, Promise!Next, Promise!Extend
  <2>3. CASE Settles
    BY <2>1, <2>3 DEF Settles, Promise!Next, Promise!Settle
  <2>4. CASE Shrinks
    BY <2>1, <2>4 DEF Shrinks, Promise!Next, Promise!Lose
  <2>5. CASE Corrupts
    BY <2>1, <2>5 DEF Corrupts, Promise!Next, Promise!Damage
  <2> QED
    BY <2>2, <2>3, <2>4, <2>5, StepKinds
<1> QED
  BY Invariance, <1>1, <1>2, PTL DEF Spec, ImplementsDurableLog, Promise!Spec

-----------------------------------------------------------------------------
(* The events of one operation are adjacent.                                 *)

\* Operation numbers are fresh, and a process's number is its own.
NumbersInv ==
    /\ \A i \in DOMAIN log : log[i].op < nextOp
    /\ \A p \in Proc : pc[p] # "idle" => op[p] < nextOp
    /\ \A p, q \in Proc : pc[p] # "idle" /\ pc[q] # "idle" /\ op[p] = op[q] => p = q

\* Before its first append a process has nothing in the log; after it, what
\* it has there reaches to the end of the log.
Placed(p) ==
    /\ pc[p] \in {"waiting", "locked"} => \A i \in DOMAIN log : log[i].op # op[p]
    /\ pc[p] # "idle" =>
         \A i \in DOMAIN log : log[i].op = op[p] =>
             \A j \in i..Len(log) : log[j] = Malformed \/ log[j].op = op[p]

BatchInv == NumbersInv /\ (\A p \in Proc : Placed(p)) /\ OperationsContiguous

(* A step that leaves the records alone moves one process on, or none.       *)
LEMMA BatchSettles ==
    ASSUME IInv, BatchInv, [Next]_vars, log' = log
    PROVE  BatchInv'
<1> USE DEF fileVars, procVars, envVars
<1>1. /\ log \in Seq(Event \cup {Malformed}) /\ nextOp \in Nat \ {0}
      /\ op \in [Proc -> Nat] /\ pc \in [Proc -> States]
  BY DEF IInv, TypeOK
<1>2. \A i \in DOMAIN log : log[i].op \in Nat
  BY <1>1 DEF Event, Malformed
<1>3. NumbersInv /\ (\A p \in Proc : Placed(p)) /\ OperationsContiguous
  BY DEF BatchInv
<1>4. OperationsContiguous'
  BY <1>3 DEF OperationsContiguous
<1>5. ASSUME NEW p \in Proc, Request(p) PROVE BatchInv'
  <2>1. /\ nextOp' = nextOp + 1 /\ op' = [op EXCEPT ![p] = nextOp]
        /\ pc' = [pc EXCEPT ![p] = "waiting"]
    BY <1>5 DEF Request
  <2>2. NumbersInv'
    BY <1>1, <1>2, <1>3, <2>1 DEF NumbersInv
  <2>3. \A i \in DOMAIN log : log[i].op # nextOp
    BY <1>1, <1>2, <1>3 DEF NumbersInv
  <2>4. ASSUME NEW q \in Proc PROVE Placed(q)'
    <3>1. CASE q = p
      BY <1>1, <2>1, <2>3, <3>1 DEF Placed
    <3>2. CASE q # p
      BY <1>1, <1>3, <2>1, <3>2 DEF Placed
    <3> QED BY <3>1, <3>2
  <2> QED BY <1>4, <2>2, <2>4 DEF BatchInv
<1>6. ASSUME UNCHANGED <<op, nextOp>>,
             \A q \in Proc : \/ pc'[q] \in {pc[q], "idle"}
                             \/ pc'[q] = "locked" /\ pc[q] = "waiting"
                             \/ pc'[q] \notin {"waiting", "locked"} /\ pc[q] # "idle"
      PROVE BatchInv'
  <2>1. NumbersInv'
    BY <1>3, <1>6 DEF NumbersInv
  <2>2. ASSUME NEW q \in Proc PROVE Placed(q)'
    BY <1>3, <1>6 DEF Placed
  <2> QED BY <1>4, <2>1, <2>2 DEF BatchInv
<1>7. ASSUME NEW p \in Proc, Acquire(p) \/ LockTimeout(p) \/ Load(p) \/ LoadFails(p) PROVE BatchInv'
  BY <1>1, <1>6, <1>7 DEF Acquire, LockTimeout, Load, LoadFails, Leave
<1>8. ASSUME NEW p \in Proc, WriteStart(p) \/ AppendFails(p) \/ WriteRest(p) PROVE BatchInv'
  BY <1>1, <1>6, <1>8 DEF WriteStart, AppendFails, WriteRest, Leave
<1>9. ASSUME NEW p \in Proc, Sync(p) \/ IoFails(p) \/ Crash(p) PROVE BatchInv'
  BY <1>1, <1>6, <1>9 DEF Sync, IoFails, Crash, Acknowledge, Leave
<1>10. CASE PowerLoss
  BY <1>6, <1>10 DEF PowerLoss
<1>11. CASE DiskFault \/ UNCHANGED vars
  BY <1>6, <1>11 DEF DiskFault, vars
<1> QED
  BY <1>5, <1>7, <1>8, <1>9, <1>10, <1>11 DEF Next, Step

(* The lock holder's event is put behind its own events or behind none.      *)
LEMMA BatchGrows ==
    ASSUME IInv, BatchInv, NEW p \in Proc, WriteRest(p)
    PROVE  BatchInv'
<1>1. /\ log \in Seq(Event \cup {Malformed}) /\ op \in [Proc -> Nat] /\ pc \in [Proc -> States]
      /\ nextOp \in Nat
  BY DEF IInv, TypeOK
<1>2. NumbersInv /\ (\A q \in Proc : Placed(q)) /\ OperationsContiguous
  BY DEF BatchInv
<1>3. PICK e : e = Signed(p, view[p])
  OBVIOUS
<1>4. /\ tail = e /\ op[p] # 0 /\ pc[p] = "writing"
      /\ \A q \in Proc \ {p} : pc[q] \in {"idle", "waiting"}
  BY <1>3 DEF IInv, HolderInv, HolderSees, LockInv, Holding, WriteRest
<1>5. /\ log' = Append(log, e) /\ UNCHANGED <<op, nextOp>>
      /\ pc' = [pc EXCEPT ![p] = "written"]
  BY <1>3, <1>4 DEF WriteRest, procVars
<1>6. e.op = op[p] /\ e # Malformed
  BY <1>3, <1>4 DEF Signed, Malformed
<1>7. /\ Len(log') = Len(log) + 1 /\ DOMAIN log' = 1..(Len(log) + 1) /\ DOMAIN log = 1..Len(log)
      /\ \A i \in DOMAIN log : log'[i] = log[i]
      /\ log'[Len(log) + 1] = e /\ Len(log) \in Nat
  BY <1>1, <1>5
<1>8. pc'[p] = "written" /\ \A q \in Proc \ {p} : pc'[q] = pc[q]
  BY <1>1, <1>5
<1>9. op[p] < nextOp
  BY <1>2, <1>4 DEF NumbersInv
<1>10. NumbersInv'
  <2>1. \A i \in DOMAIN log' : log'[i].op < nextOp
    BY <1>2, <1>6, <1>7, <1>9 DEF NumbersInv
  <2> QED BY <1>2, <1>4, <1>5, <1>8, <2>1 DEF NumbersInv
<1>11. ASSUME NEW i \in DOMAIN log, log[i].op = op[p], NEW j \in i..(Len(log) + 1)
       PROVE  log'[j] = Malformed \/ log'[j].op = op[p]
  <2>1. CASE j = Len(log) + 1
    BY <1>6, <1>7, <2>1
  <2>2. CASE j \in i..Len(log)
    <3>1. log[j] = Malformed \/ log[j].op = op[p]
      BY <1>2, <1>4, <1>11, <2>2 DEF Placed
    <3> QED BY <1>7, <2>2, <3>1
  <2> QED BY <1>7, <2>1, <2>2
<1>12. ASSUME NEW q \in Proc PROVE Placed(q)'
  <2>1. CASE q = p
    BY <1>5, <1>6, <1>7, <1>8, <1>11, <2>1 DEF Placed
  <2>2. CASE q # p /\ pc[q] # "idle"
    <3>1. op[q] # op[p] /\ pc[q] = "waiting" /\ \A i \in DOMAIN log : log[i].op # op[q]
      BY <1>2, <1>4, <2>2 DEF NumbersInv, Placed
    <3>2. \A i \in DOMAIN log' : log'[i].op # op[q]
      BY <1>6, <1>7, <3>1
    <3> QED BY <1>5, <1>8, <3>2 DEF Placed
  <2>3. CASE q # p /\ pc[q] = "idle"
    BY <1>8, <2>3 DEF Placed
  <2> QED BY <2>1, <2>2, <2>3
<1>13. OperationsContiguous'
  <2> SUFFICES ASSUME NEW i \in DOMAIN log', NEW k \in DOMAIN log',
                      log'[i] # Malformed, log'[k] # Malformed, log'[i].op = log'[k].op,
                      NEW j \in i..k
               PROVE  log'[j] = Malformed \/ log'[j].op = log'[i].op
    BY DEF OperationsContiguous
  <2>1. CASE k \in DOMAIN log
    <3>1. i \in DOMAIN log /\ j \in DOMAIN log
      BY <1>7, <2>1
    <3> QED BY <1>2, <1>7, <2>1, <3>1 DEF OperationsContiguous
  <2>2. CASE k = Len(log) + 1
    <3>1. log'[i].op = op[p] /\ j \in i..(Len(log) + 1)
      BY <1>6, <1>7, <2>2
    <3>2. CASE i \in DOMAIN log
      BY <1>7, <1>11, <3>1, <3>2
    <3>3. CASE i = Len(log) + 1
      BY <1>7, <3>1, <3>3
    <3> QED BY <1>7, <3>2, <3>3
  <2> QED BY <1>7, <2>1, <2>2
<1> QED BY <1>10, <1>12, <1>13 DEF BatchInv

(* A power loss cuts the log and ends every operation.                       *)
LEMMA BatchShrinks ==
    ASSUME IInv, BatchInv, PowerLoss
    PROVE  BatchInv'
<1>1. log \in Seq(Event \cup {Malformed}) /\ synced \in Nat
  BY DEF IInv, TypeOK
<1>2. PICK n \in synced..Len(log) : log' = SubSeq(log, 1, n)
  BY DEF PowerLoss
<1>3. /\ DOMAIN log' = 1..n /\ DOMAIN log = 1..Len(log) /\ Len(log) \in Nat /\ n \in Nat
      /\ n <= Len(log) /\ \A i \in 1..n : log'[i] = log[i]
  BY <1>1, <1>2
<1>4. nextOp' = nextOp /\ \A p \in Proc : pc'[p] = "idle"
  BY DEF PowerLoss
<1>5. NumbersInv' /\ \A p \in Proc : Placed(p)'
  BY <1>3, <1>4 DEF BatchInv, NumbersInv, Placed
<1>6. OperationsContiguous'
  <2> SUFFICES ASSUME NEW i \in DOMAIN log', NEW k \in DOMAIN log',
                      log'[i] # Malformed, log'[k] # Malformed, log'[i].op = log'[k].op,
                      NEW j \in i..k
               PROVE  log'[j] = Malformed \/ log'[j].op = log'[i].op
    BY DEF OperationsContiguous
  <2>1. i \in DOMAIN log /\ k \in DOMAIN log /\ j \in 1..n
    BY <1>3
  <2> QED BY <1>3, <2>1 DEF BatchInv, OperationsContiguous
<1> QED BY <1>5, <1>6 DEF BatchInv

(* A damaged record belongs to no operation any more.                        *)
LEMMA BatchCorrupts ==
    ASSUME IInv, BatchInv, DiskFault
    PROVE  BatchInv'
<1>1. /\ log \in Seq(Event \cup {Malformed}) /\ nextOp \in Nat \ {0} /\ synced <= Len(log)
      /\ synced \in Nat
  BY DEF IInv, TypeOK, SyncInv
<1>2. PICK d \in 1..synced : log' = [log EXCEPT ![d] = Malformed]
  BY DEF DiskFault
<1>3. /\ DOMAIN log' = DOMAIN log /\ Len(log') = Len(log) /\ DOMAIN log = 1..Len(log)
      /\ Len(log) \in Nat
      /\ \A i \in DOMAIN log : log'[i] = log[i] \/ log'[i] = Malformed
  BY <1>1, <1>2
<1>4. Malformed.op = 0
  BY DEF Malformed
<1>5. UNCHANGED <<pc, op, nextOp>>
  BY DEF DiskFault, procVars
<1>6. \A p \in Proc : pc[p] # "idle" => op[p] # 0
  BY DEF IInv, HolderInv, HolderSees
<1>7. NumbersInv'
  BY <1>1, <1>3, <1>4, <1>5 DEF BatchInv, NumbersInv
<1>8. ASSUME NEW p \in Proc PROVE Placed(p)'
  BY <1>3, <1>4, <1>5, <1>6 DEF BatchInv, Placed
<1>9. OperationsContiguous'
  <2> SUFFICES ASSUME NEW i \in DOMAIN log', NEW k \in DOMAIN log',
                      log'[i] # Malformed, log'[k] # Malformed, log'[i].op = log'[k].op,
                      NEW j \in i..k
               PROVE  log'[j] = Malformed \/ log'[j].op = log'[i].op
    BY DEF OperationsContiguous
  <2>1. log'[i] = log[i] /\ log'[k] = log[k] /\ j \in DOMAIN log
    BY <1>3
  <2>2. log[j] = Malformed \/ log[j].op = log[i].op
    BY <1>3, <2>1 DEF BatchInv, OperationsContiguous
  <2> QED BY <1>3, <2>1, <2>2
<1> QED BY <1>7, <1>8, <1>9 DEF BatchInv

(* The events of one mutating entry point are adjacent in the log, for any   *)
(* number of processes, batches, failures, power losses and damaged records: *)
(* the workspace lock spans the whole operation, and what a failed operation *)
(* left is never continued.                                                  *)
THEOREM OperationsAdjacent == Spec => []OperationsContiguous
<1>1. Init => BatchInv
  BY DEF Init, BatchInv, NumbersInv, Placed, OperationsContiguous, Founding
<1>2. IInv /\ BatchInv /\ [Next]_vars => BatchInv'
  <2> SUFFICES ASSUME IInv, BatchInv, [Next]_vars PROVE BatchInv'
    OBVIOUS
  <2>1. CASE log' = log
    BY <2>1, BatchSettles
  <2>2. ASSUME NEW p \in Proc, Request(p) \/ Step(p) \/ IoFails(p) \/ Crash(p), ~WriteRest(p)
        PROVE  log' = log
    BY <2>2 DEF Request, Step, IoFails, Crash, Acquire, LockTimeout, Load, LoadFails, WriteStart,
                AppendFails, Sync, fileVars
  <2> QED BY <2>1, <2>2, BatchGrows, BatchShrinks, BatchCorrupts DEF Next, Step, vars
<1>3. BatchInv => OperationsContiguous
  BY DEF BatchInv
<1> QED
  BY Invariance, <1>1, <1>2, <1>3, PTL DEF Spec
=============================================================================
