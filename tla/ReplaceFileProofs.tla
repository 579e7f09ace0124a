-------------------------- MODULE ReplaceFileProofs --------------------------
(***************************************************************************)
(* Proofs about ReplaceFile: type correctness for every instance, and, for *)
(* a local-state file that exists and that the disk does not damage, that  *)
(* no acknowledged update is lost to interrupted saves, unlocked loads and *)
(* power losses, for any number of processes and operations.               *)
(***************************************************************************)
EXTENDS ReplaceFile, WellFoundedInduction, TLAPS

Saving == {"cleanup", "create", "write", "rename", "sync"}

(* Only a writer saves, and a writer at work has an update to make. *)
Roles ==
    \A p \in Proc :
        /\ pc[p] \in Saving => p \in Writer
        /\ p \in Writer /\ pc[p] # "idle" => op[p] \in Update

(* A sidecar's number names it in every directory a power loss may leave. *)
Numbered ==
    \A d \in onDisk : \A s, t \in d.side :
        s.id < nextId /\ (s.id = t.id => s = t)

Types == TypeOK /\ Roles /\ Numbered

(* The types hold at the start.                                             *)
LEMMA InitTypes == Init => Types
<1> SUFFICES ASSUME Init PROVE Types
  OBVIOUS
<1> USE ProcAssumption, BoundAssumption
<1>1. dir \in Directory /\ dir.side = {} /\ \A f, g \in dir.main : f = g
  <2>1. Whole({}) \in File
    BY DEF Whole, File
  <2>2. dir = [main |-> IF FirstSave THEN {} ELSE {Whole({})}, side |-> {}]
    BY DEF Init
  <2>3. dir = [main |-> dir.main, side |-> {}] /\ dir.main \in {{}, {Whole({})}}
    BY <2>2
  <2> QED BY <2>1, <2>3 DEF Directory
<1>2. onDisk = {dir}
  BY DEF Init
<1>3. TypeOK
  BY <1>1, <1>2 DEF Init, TypeOK, Label, Proc, Update
<1>4. Roles /\ Numbered
  BY <1>1, <1>2 DEF Init, Roles, Numbered, Saving, Proc
<1> QED BY <1>3, <1>4 DEF Types

(* Replacing the directories by ones of the right shape keeps the part of  *)
(* the type invariant that is about directories.                           *)
DirOK(d, n) ==
    /\ d \in Directory
    /\ \A f, g \in d.main : f = g
    /\ \A s, t \in d.side : s.id < n /\ (s.id = t.id => s = t)

(* Every directory a power loss may leave is well formed.                   *)
LEMMA TypesShape ==
    ASSUME Types
    PROVE  \A d \in onDisk : DirOK(d, nextId)
BY DEF Types, TypeOK, Numbered, DirOK

(* A directory stays well formed when the next number grows.                *)
LEMMA LaterNumbers ==
    ASSUME NEW n \in Nat, NEW d, DirOK(d, n) PROVE DirOK(d, n + 1)
BY SMT DEF DirOK, Directory, Sidecar

(* A directory stays well formed without some of its sidecars.              *)
LEMMA FewerSidecars ==
    ASSUME NEW n \in Nat, NEW d, DirOK(d, n), NEW S, S \subseteq d.side
    PROVE  DirOK([d EXCEPT !.side = S], n)
BY SMT DEF DirOK, Directory

(* A directory stays well formed with a sidecar of the next number.         *)
LEMMA AddSidecar ==
    ASSUME NEW n \in Nat, NEW M \in SUBSET File, NEW S \in SUBSET Sidecar,
           \A f, g \in M : f = g,
           \A s, t \in S : s.id < n /\ (s.id = t.id => s = t),
           NEW q \in Sidecar, q.id = n
    PROVE  DirOK([main |-> M, side |-> S \cup {q}], n + 1)
<1>1. \A s \in S : s.id \in Nat
  BY DEF Sidecar
<1> QED BY <1>1 DEF DirOK, Directory

(* A directory stays well formed when a sidecar is renamed to the main      *)
(* file.                                                                    *)
LEMMA SidecarToMain ==
    ASSUME NEW n \in Nat, NEW d, DirOK(d, n), NEW i \in Nat,
           NEW found, found = {s \in d.side : s.id = i}
    PROVE  DirOK([main |-> {s.file : s \in found}, side |-> d.side \ found], n)
<1>1. \A s \in d.side : s.file \in File
  BY DEF DirOK, Directory, Sidecar
<1>2. \A s, t \in found : s = t
  BY DEF DirOK
<1> QED BY <1>1, <1>2 DEF DirOK, Directory

(* The facts about everything that is not a directory. *)
Rest ==
    /\ lock \in Writer \cup {Free}
    /\ pc \in [Proc -> Label]
    /\ doc \in [Proc -> SUBSET Update]
    /\ mine \in [Proc -> Nat] /\ op \in [Proc -> 0..MaxOps]
    /\ nextId \in Nat \ {0} /\ nextOp \in 1..(MaxOps + 1) /\ reads \in 0..MaxReads
    /\ acked \subseteq Update /\ excused \subseteq Update
    /\ damages \in 0..MaxDamage /\ powerLosses \in 0..MaxPowerLoss
    /\ \A p \in Writer : pc[p] # "idle" <=> lock = p
    /\ Roles

Dirs == dir \in onDisk /\ \A d \in onDisk : DirOK(d, nextId)

(* The types are those of the directories and those of the rest.            *)
LEMMA TypesSplit == Types <=> (Dirs /\ Rest)
BY DEF Types, TypeOK, Numbered, DirOK, Rest, Dirs

(* The current directory is one that a power loss may leave.                *)
LEMMA DirIn == ASSUME Types PROVE dir \in onDisk
BY DEF Types, TypeOK

(* Every step keeps the types of everything but directories.                *)
LEMMA NextRest == ASSUME Types, [Next]_vars PROVE Rest'
<1> USE ProcAssumption, BoundAssumption
<1>r. Rest
  BY TypesSplit
<1>1. CASE UNCHANGED vars
  BY <1>r, <1>1 DEF vars, Rest, Roles
<1>2. CASE PowerLoss
  BY <1>r, <1>2 DEF PowerLoss, Rest, Roles, counters, Saving, Proc, Label
<1>3. CASE Damage
  <2>1. /\ excused' = 1..(nextOp - 1) \/ excused' = excused
        /\ damages < MaxDamage /\ damages' = damages + 1
        /\ UNCHANGED <<lock, pc, doc, mine, op, nextId, nextOp, reads, acked, powerLosses>>
    BY <1>3, Zenon DEF Damage, counters
  <2>2. excused' \subseteq Update
    <3>1. nextOp \in 1..(MaxOps + 1) /\ excused \subseteq Update
      BY <1>r DEF Rest
    <3>2. 1..(nextOp - 1) \subseteq Update
      BY <3>1 DEF Update
    <3> QED BY <2>1, <3>1, <3>2
  <2> QED BY <1>r, <2>1, <2>2 DEF Rest, Roles
<1>4. ASSUME NEW p \in Proc, Acquire(p) \/ StartRead(p) \/ Step(p) \/ Abandon(p)
      PROVE  Rest'
  <2> USE <1>r DEF Rest, Roles, Proc, Label, Saving, Update
  <2>1. CASE Acquire(p)
    BY <2>1 DEF Acquire, Goto, envVars
  <2>2. CASE StartRead(p)
    BY <2>2 DEF StartRead, Goto, envVars
  <2>3. CASE Check(p)
    <3>1. mine' \in [Proc -> Nat]
      <4>1. \A s \in Newest(Candidates(dir)) : s.id \in Nat
        BY TypesShape, DirIn DEF DirOK, Directory, Sidecar, Newest, Candidates
      <4> QED BY <2>3, <4>1 DEF Check
    <3> QED BY <2>3, <3>1 DEF Check, Goto, envVars, counters
  <2>4. CASE Discard(p)
    BY <2>4 DEF Discard, Goto, envVars, counters
  <2>5. CASE Quarantine(p)
    <3>1. nextId' \in Nat \ {0}
      BY <2>5 DEF Quarantine
    <3> QED BY <2>5, <3>1 DEF Quarantine, Goto, envVars, counters
  <2>6. CASE Promote(p)
    BY <2>6 DEF Promote, Goto, Leave, envVars, counters
  <2>7. CASE Promoted(p)
    BY <2>7 DEF Promoted, Goto, envVars, counters
  <2>8. CASE Read(p)
    <3>1. doc' \in [Proc -> SUBSET Update]
      <4>1. \A f \in dir.main : f.ops \in SUBSET Update
        BY TypesShape, DirIn DEF DirOK, Directory, File
      <4> QED BY <2>8, <4>1 DEF Read
    <3> QED BY <2>8, <3>1 DEF Read, Goto, Leave, envVars, counters
  <2>9. CASE CleanupTmp(p)
    BY <2>9 DEF CleanupTmp, Goto, envVars, counters
  <2>10. CASE CreateTemp(p)
    BY <2>10 DEF CreateTemp, Goto, envVars, counters
  <2>11. CASE WriteTemp(p)
    BY <2>11 DEF WriteTemp, Goto, envVars, counters
  <2>12. CASE Rename(p)
    BY <2>12 DEF Rename, Goto, Leave, envVars, counters
  <2>13. CASE SyncParent(p)
    BY <2>13 DEF SyncParent, Leave, envVars, counters, Goto
  <2>14. CASE Abandon(p)
    BY <2>14 DEF Abandon, Leave, envVars, counters, Goto
  <2> QED BY <1>4, <2>1, <2>2, <2>3, <2>4, <2>5, <2>6, <2>7, <2>8, <2>9, <2>10, <2>11, <2>12,
      <2>13, <2>14 DEF Step
<1> QED BY <1>1, <1>2, <1>3, <1>4 DEF Next

(* Every step keeps the directories well formed.                            *)
LEMMA NextDirs == ASSUME Types, [Next]_vars PROVE Dirs'
<1> USE ProcAssumption, BoundAssumption
<1>d. Dirs /\ nextId \in Nat
  BY TypesSplit DEF Rest
<1>1. CASE UNCHANGED <<dir, onDisk, nextId>>
  BY <1>d, <1>1 DEF Dirs
<1>2. CASE PowerLoss
  BY <1>d, <1>2 DEF PowerLoss, Dirs
<1>3. CASE Damage
  <2> DEFINE damaged(d) == IF d.main = dir.main THEN [d EXCEPT !.main = {Torn}] ELSE d
  <2>1. dir' = damaged(dir) /\ onDisk' = {damaged(d) : d \in onDisk} /\ nextId' = nextId
    BY <1>3, Zenon DEF Damage
  <2>2. ASSUME NEW d \in onDisk PROVE DirOK(damaged(d), nextId)
    <3>1. DirOK(d, nextId) /\ Torn \in File
      BY <1>d DEF Dirs, Torn, File
    <3> HIDE DEF Torn
    <3> QED BY <3>1 DEF DirOK, Directory
  <2> HIDE DEF damaged
  <2> QED BY <1>d, <2>1, <2>2 DEF Dirs
<1>4. ASSUME NEW p \in Proc, Step(p) PROVE Dirs'
  <2>i. mine[p] \in Nat
    BY TypesSplit DEF Rest
  <2>s. ASSUME NEW d, DirOK(d, nextId), ChangeSynced(d), nextId' = nextId PROVE Dirs'
    BY <2>s DEF Dirs, ChangeSynced
  <2>c. ASSUME NEW d, DirOK(d, nextId), Change(d), nextId' = nextId PROVE Dirs'
    BY <1>d, <2>c DEF Dirs, Change
  <2>u. ASSUME NEW S, S \subseteq dir.side, Cleanup([dir EXCEPT !.side = S]), nextId' = nextId
        PROVE  Dirs'
    <3>1. DirOK([dir EXCEPT !.side = S], nextId)
      BY <1>d, <2>u, FewerSidecars DEF Dirs
    <3> QED BY <1>d, <1>1, <2>s, <2>u, <3>1 DEF Cleanup
  <2>1. CASE Check(p) \/ Read(p)
    BY <1>1, <2>1 DEF Check, Read
  <2>2. CASE Discard(p)
    <3> DEFINE S == {}
    <3>1. S \subseteq dir.side /\ Cleanup([dir EXCEPT !.side = S]) /\ nextId' = nextId
      BY <2>2 DEF Discard
    <3> HIDE DEF S
    <3> QED BY <2>u, <3>1
  <2>3. CASE CleanupTmp(p)
    <3> DEFINE S == {s \in dir.side : s.suffix # "tmp"}
    <3>1. S \subseteq dir.side /\ Cleanup([dir EXCEPT !.side = S]) /\ nextId' = nextId
      BY <1>d, <2>3 DEF CleanupTmp, Dirs, DirOK, Directory
    <3> HIDE DEF S
    <3> QED BY <2>u, <3>1
  <2>4. CASE Promote(p) \/ Rename(p)
    <3> DEFINE found == {s \in dir.side : s.id = mine[p]}
               d == [main |-> {s.file : s \in found}, side |-> dir.side \ found]
    <3>1. nextId' = nextId /\ (UNCHANGED <<dir, onDisk>> \/ Change(d))
      BY <2>4 DEF Promote, Rename
    <3>2. DirOK(d, nextId)
      BY <1>d, <2>i, SidecarToMain DEF Dirs
    <3> HIDE DEF d
    <3> QED BY <1>1, <2>c, <3>1, <3>2
  <2>5. CASE Promoted(p) \/ SyncParent(p)
    <3>1. ChangeSynced(dir) /\ nextId' = nextId
      BY <2>5 DEF Promoted, SyncParent
    <3> QED BY <1>d, <2>s, <3>1 DEF Dirs
  <2>6. CASE Quarantine(p)
    <3>1. CASE dir.main = {}
      BY <1>1, <2>6, <3>1 DEF Quarantine
    <3>2. CASE dir.main # {}
      <4>1. PICK f \in dir.main :
              /\ ChangeSynced([main |-> {}, side |-> dir.side \cup
                     {[id |-> nextId, suffix |-> "quarantined", file |-> f]}])
              /\ nextId' = nextId + 1
        BY <2>6, <3>2 DEF Quarantine
      <4> DEFINE q == [id |-> nextId, suffix |-> "quarantined", file |-> f]
                 d == [main |-> {}, side |-> dir.side \cup {q}]
      <4>2. DirOK(d, nextId + 1)
        <5>1. DirOK(dir, nextId)
          BY <1>d DEF Dirs
        <5>2. q \in Sidecar /\ q.id = nextId
          BY <1>d, <5>1 DEF DirOK, Directory, Sidecar
        <5> HIDE DEF q
        <5>3. {} \in SUBSET File /\ dir.side \in SUBSET Sidecar
          BY <5>1 DEF DirOK, Directory
        <5>4. \A s, t \in dir.side : s.id < nextId /\ (s.id = t.id => s = t)
          BY <5>1 DEF DirOK
        <5> QED BY <1>d, <5>2, <5>3, <5>4, AddSidecar
      <4> QED BY <4>1, <4>2 DEF Dirs, ChangeSynced
    <3> QED BY <3>1, <3>2
  <2>7. CASE CreateTemp(p)
    <3> DEFINE t == Tmp(nextId, Torn)
    <3>1. t \in Sidecar /\ t.id = nextId
      BY <1>d DEF Tmp, Torn, Sidecar, File
    <3>2. Change([dir EXCEPT !.side = @ \cup {t}]) /\ nextId' = nextId + 1
      BY <2>7 DEF CreateTemp
    <3> HIDE DEF t
    <3>3. DirOK(dir, nextId)
      BY <1>d DEF Dirs
    <3>4. [dir EXCEPT !.side = @ \cup {t}] = [main |-> dir.main, side |-> dir.side \cup {t}]
      BY <3>3 DEF DirOK, Directory
    <3>5. DirOK([dir EXCEPT !.side = @ \cup {t}], nextId + 1)
      <4>1. dir.main \in SUBSET File /\ dir.side \in SUBSET Sidecar /\ \A f, g \in dir.main : f = g
        BY <3>3 DEF DirOK, Directory
      <4>2. \A s, u \in dir.side : s.id < nextId /\ (s.id = u.id => s = u)
        BY <3>3 DEF DirOK
      <4>3. DirOK([main |-> dir.main, side |-> dir.side \cup {t}], nextId + 1)
        BY <1>d, <3>1, <4>1, <4>2, AddSidecar
      <4> QED BY <3>4, <4>3, Zenon
    <3>6. \A d \in onDisk : DirOK(d, nextId + 1)
      BY <1>d, LaterNumbers DEF Dirs
    <3> DEFINE c == [dir EXCEPT !.side = @ \cup {t}]
    <3>7. dir' = c /\ onDisk' = onDisk \cup {c} /\ DirOK(c, nextId + 1)
      BY <3>2, <3>5 DEF Change
    <3> HIDE DEF c
    <3> QED BY <3>2, <3>6, <3>7 DEF Dirs
  <2>8. CASE WriteTemp(p)
    <3> DEFINE w == Whole(doc[p] \cup {op[p]})
               written(d) == [d EXCEPT !.side = {IF s.id = mine[p] THEN Tmp(s.id, w) ELSE s : s \in @}]
    <3>1. dir' = written(dir) /\ onDisk' = {written(d) : d \in onDisk} /\ nextId' = nextId
      BY <2>8, Zenon DEF WriteTemp
    <3>2. w \in File
      BY <2>8, TypesSplit DEF Rest, Roles, Saving, Whole, File, WriteTemp, Label
    <3> HIDE DEF w
    <3>3. ASSUME NEW d, DirOK(d, nextId) PROVE DirOK(written(d), nextId)
      <4> DEFINE S == {IF s.id = mine[p] THEN Tmp(s.id, w) ELSE s : s \in d.side}
      <4>1. \A s \in d.side : s \in Sidecar /\ s.id < nextId /\ (s.id = mine[p] => Tmp(s.id, w) \in Sidecar /\ Tmp(s.id, w).id = s.id)
        BY <3>2, <3>3 DEF DirOK, Directory, Sidecar, Tmp
      <4>2. written(d) = [main |-> d.main, side |-> S]
        BY <3>3 DEF DirOK, Directory
      <4>3. S \subseteq Sidecar /\ \A s, t \in S : s.id < nextId /\ (s.id = t.id => s = t)
        BY <3>3, <4>1 DEF DirOK
      <4> HIDE DEF S
      <4> QED BY <3>3, <4>2, <4>3 DEF DirOK, Directory
    <3> HIDE DEF written
    <3> QED BY <1>d, <3>1, <3>3 DEF Dirs
  <2> QED BY <1>4, <2>1, <2>2, <2>3, <2>4, <2>5, <2>6, <2>7, <2>8 DEF Step
<1>5. ASSUME NEW p \in Proc, Acquire(p) \/ StartRead(p) \/ Abandon(p) PROVE Dirs'
  BY <1>1, <1>5 DEF Acquire, StartRead, Abandon
<1>6. CASE UNCHANGED vars
  BY <1>1, <1>6 DEF vars
<1> QED BY <1>2, <1>3, <1>4, <1>5, <1>6 DEF Next

(* Every step keeps the types.                                              *)
LEMMA NextTypes == Types /\ [Next]_vars => Types'
<1>1. ASSUME Types, [Next]_vars PROVE (Dirs /\ Rest)'
  BY <1>1, NextDirs, NextRest
<1>2. Types' <=> (Dirs /\ Rest)'
  BY DEF Types, TypeOK, Numbered, DirOK, Rest, Dirs
<1> QED BY <1>1, <1>2

(* Type correctness of directory, lock and processes, for every instance:  *)
(* sidecar numbers stay unique in each directory a power loss may leave.   *)
THEOREM TypeCorrect == Spec => []TypeOK
<1>1. Types => TypeOK
  BY DEF Types
<1> QED BY InitTypes, NextTypes, <1>1, PTL DEF Spec

-----------------------------------------------------------------------------
(* A file that exists and that the disk does not damage. *)
SafeFile == FirstSave = FALSE /\ MaxDamage = 0

(* What the main file is in every directory a power loss may leave. *)
Holds(d) == \E f \in d.main : f.ok /\ acked \subseteq f.ops

(* Recovery has nothing to do, a saving writer started from a document with *)
(* all acknowledged updates, and its temporary file and then the main file  *)
(* hold its own.                                                            *)
Kept ==
    /\ excused = {}
    /\ \A d \in onDisk : Holds(d)
    /\ \A p \in Proc :
        /\ pc[p] \notin {"quarantine", "promote", "promoted"}
        /\ pc[p] \in Saving => acked \subseteq doc[p]
        /\ pc[p] = "rename" => \A d \in onDisk : \A s \in d.side :
              s.id = mine[p] => s.file = Whole(doc[p] \cup {op[p]})
        /\ pc[p] = "sync" => \A f \in dir.main : op[p] \in f.ops

(* A file written in full is valid and holds what was written.              *)
LEMMA WholeIs == ASSUME NEW X PROVE Whole(X).ok /\ Whole(X).ops = X
BY DEF Whole

(* The existing file holds nothing that is owed yet.                        *)
LEMMA InitKept == ASSUME SafeFile, Init PROVE Kept
<1>1. dir.main = {Whole({})} /\ onDisk = {dir} /\ acked = {} /\ excused = {}
  <2>1. dir = [main |-> {Whole({})}, side |-> {}]
    BY DEF SafeFile, Init
  <2> QED BY <2>1 DEF Init
<1>2. \A d \in onDisk : Holds(d)
  BY <1>1, WholeIs DEF Holds
<1>3. \A p \in Proc : pc[p] = "idle"
  BY DEF Init
<1> QED BY <1>1, <1>2, <1>3 DEF Kept, Saving

(* A directory that holds what is owed has a valid main file.               *)
LEMMA HoldsValid == ASSUME NEW d, Holds(d) PROVE MainValid(d)
BY DEF Holds, MainValid

(* The main file of a directory that keeps it holds what it held. *)
LEMMA SameMain ==
    ASSUME NEW d, NEW e, e.main = d.main, Holds(d), acked' = acked PROVE Holds(e)'
BY DEF Holds

(* Every step keeps the invariant of an undamaged file.                     *)
LEMMA NextKept == ASSUME SafeFile, Types, Kept, [Next]_vars PROVE Kept'
<1> USE ProcAssumption, BoundAssumption
<1>d. dir \in onDisk /\ Holds(dir) /\ MainValid(dir)
  BY DirIn, HoldsValid DEF Kept
<1>t. /\ pc \in [Proc -> Label] /\ doc \in [Proc -> SUBSET Update] /\ mine \in [Proc -> Nat]
      /\ op \in [Proc -> 0..MaxOps]
      /\ \A p \in Writer : pc[p] # "idle" <=> lock = p
      /\ \A p \in Proc : pc[p] \in Saving => p \in Writer
  BY DEF Types, TypeOK, Roles
<1>e. \A p, q \in Proc : pc[p] \in Saving /\ pc[q] \in Saving => p = q
  BY <1>t DEF Saving
<1>s. dir \in Directory /\ \A S : [dir EXCEPT !.side = S].main = dir.main /\ [dir EXCEPT !.side = S].side = S
  BY <1>d, TypesShape DEF DirOK, Directory
<1>1. CASE UNCHANGED vars
  BY <1>1 DEF vars, Kept, Holds
<1>2. CASE PowerLoss
  BY <1>2 DEF PowerLoss, Kept, Holds, Saving
<1>3. CASE Damage
  BY <1>3, SMT DEF Damage, SafeFile, Types, TypeOK
<1>n. ASSUME NEW p \in Proc, NEW l \in Label \ {"quarantine", "promote", "promoted", "rename", "sync"},
             Goto(p, l), UNCHANGED <<acked, excused, mine>>,
             UNCHANGED <<dir, onDisk>> \/ \E S \in SUBSET dir.side : ChangeSynced([dir EXCEPT !.side = S]),
             \A q \in Proc \ {p} : doc'[q] = doc[q] /\ (pc[q] \in Saving => op'[q] = op[q]),
             l \in Saving => acked \subseteq doc'[p]
      PROVE  Kept'
  <2>1. \A q \in Proc : pc'[q] = IF q = p THEN l ELSE pc[q]
    BY <1>n, <1>t DEF Goto
  <2>2. dir'.main = dir.main /\ \A d \in onDisk' : d.main = dir.main \/ d \in onDisk
    BY <1>n, <1>s DEF ChangeSynced
  <2>3. \A d \in onDisk' : \A s \in d.side : \E e \in onDisk : s \in e.side
    <3>1. CASE UNCHANGED <<dir, onDisk>>
      BY <3>1
    <3>2. ASSUME NEW S \in SUBSET dir.side, ChangeSynced([dir EXCEPT !.side = S])
          PROVE  \A d \in onDisk' : \A s \in d.side : s \in dir.side
      <4>1. PICK e : e = [dir EXCEPT !.side = S]
        OBVIOUS
      <4>2. e.side = S /\ onDisk' = {e}
        BY <1>s, <3>2, <4>1 DEF ChangeSynced
      <4> QED BY <4>2
    <3> QED BY <1>n, <1>d, <3>1, <3>2
  <2>4. \A d \in onDisk' : Holds(d)'
    BY <1>n, <1>d, <2>2, SameMain DEF Kept
  <2>5. ASSUME NEW q \in Proc \ {p}
        PROVE  /\ pc'[q] \notin {"quarantine", "promote", "promoted"}
               /\ pc'[q] \in Saving => acked' \subseteq doc'[q]
               /\ pc'[q] = "rename" => \A d \in onDisk' : \A s \in d.side :
                     s.id = mine'[q] => s.file = Whole(doc'[q] \cup {op'[q]})
               /\ pc'[q] = "sync" => \A f \in dir'.main : op'[q] \in f.ops
    <3>1. pc'[q] = pc[q] /\ doc'[q] = doc[q] /\ mine'[q] = mine[q] /\ acked' = acked
      BY <1>n, <2>1
    <3>2. pc[q] \in Saving => op'[q] = op[q]
      BY <1>n
    <3>3. pc'[q] \notin {"quarantine", "promote", "promoted"} /\ (pc'[q] \in Saving => acked' \subseteq doc'[q])
      BY <3>1 DEF Kept
    <3>4. pc'[q] = "rename" => \A d \in onDisk' : \A s \in d.side :
                     s.id = mine'[q] => s.file = Whole(doc'[q] \cup {op'[q]})
      BY <2>3, <3>1, <3>2 DEF Kept, Saving
    <3>5. pc'[q] = "sync" => \A f \in dir'.main : op'[q] \in f.ops
      BY <2>2, <3>1, <3>2 DEF Kept, Saving
    <3> QED BY <3>3, <3>4, <3>5
  <2> QED BY <1>n, <2>1, <2>4, <2>5 DEF Kept, Saving
<1>4. ASSUME NEW p \in Proc, Acquire(p) PROVE Kept'
  <2>1. Exists
    BY <1>d DEF Exists, MainValid
  <2>2. Goto(p, "check")
    BY <1>4, <2>1 DEF Acquire
  <2> QED BY <1>4, <1>n, <1>t, <2>2 DEF Acquire, envVars, Label, Saving
<1>5. ASSUME NEW p \in Proc, StartRead(p) \/ Abandon(p) PROVE Kept'
  <2>1. Goto(p, "check") \/ Goto(p, "idle")
    BY <1>5 DEF StartRead, Abandon, Leave
  <2> QED BY <1>5, <1>n, <2>1 DEF StartRead, Abandon, envVars, Label, Saving
<1>6. ASSUME NEW p \in Proc, Check(p) PROVE Kept'
  <2>1. Goto(p, "discard") /\ UNCHANGED mine
    BY <1>6, <1>d DEF Check
  <2> QED BY <1>6, <1>n, <2>1 DEF Check, envVars, Label, Saving
<1>7. ASSUME NEW p \in Proc, Read(p) PROVE Kept'
  <2>1. \A f \in dir.main : acked \subseteq f.ops
    BY <1>d, TypesShape DEF Holds, DirOK
  <2>2. CASE Goto(p, "idle") /\ UNCHANGED doc
    BY <1>7, <1>n, <2>2 DEF Read, envVars, Label, Saving
  <2>3. CASE Goto(p, "cleanup") /\ \E f \in dir.main : doc' = [doc EXCEPT ![p] = f.ops]
    <3>1. acked \subseteq doc'[p] /\ \A q \in Proc \ {p} : doc'[q] = doc[q]
      BY <1>t, <2>1, <2>3
    <3> QED BY <1>7, <1>n, <2>3, <3>1 DEF Read, envVars, Label
  <2> QED BY <1>7, <2>2, <2>3 DEF Read, Leave
<1>8. ASSUME NEW p \in Proc, Discard(p) PROVE Kept'
  <2> DEFINE S == {}
  <2>1. S \in SUBSET dir.side /\ Cleanup([dir EXCEPT !.side = S])
    BY <1>8 DEF Discard
  <2> HIDE DEF S
  <2>2. UNCHANGED <<dir, onDisk>> \/ ChangeSynced([dir EXCEPT !.side = S])
    BY <2>1 DEF Cleanup
  <2> QED BY <1>8, <1>n, <2>1, <2>2 DEF Discard, envVars, Label, Saving
<1>9. ASSUME NEW p \in Proc, CleanupTmp(p) PROVE Kept'
  <2> DEFINE S == {s \in dir.side : s.suffix # "tmp"}
  <2>1. S \in SUBSET dir.side /\ Cleanup([dir EXCEPT !.side = S])
    BY <1>9, <1>s DEF CleanupTmp
  <2> HIDE DEF S
  <2>2. UNCHANGED <<dir, onDisk>> \/ ChangeSynced([dir EXCEPT !.side = S])
    BY <2>1 DEF Cleanup
  <2>3. acked \subseteq doc[p]
    BY <1>9 DEF CleanupTmp, Kept, Saving
  <2> QED BY <1>9, <1>n, <2>1, <2>2, <2>3 DEF CleanupTmp, envVars, Label, Saving
<1>10. ASSUME NEW p \in Proc, pc[p] \in Saving,
              NEW l \in {"write", "rename", "sync", "idle"}, Goto(p, l),
              excused' = excused, UNCHANGED <<doc, op>>,
              \A d \in onDisk' : Holds(d)',
              l # "idle" => acked' = acked,
              l = "rename" => \A d \in onDisk' : \A s \in d.side :
                     s.id = mine'[p] => s.file = Whole(doc[p] \cup {op[p]}),
              l = "sync" => \A f \in dir'.main : op[p] \in f.ops
       PROVE  Kept'
  <2>1. \A q \in Proc : pc'[q] = IF q = p THEN l ELSE pc[q]
    BY <1>10, <1>t DEF Goto
  <2>2. \A q \in Proc \ {p} : pc'[q] \notin Saving \cup {"quarantine", "promote", "promoted"}
    BY <1>10, <1>e, <2>1 DEF Kept
  <2>3. acked \subseteq doc[p]
    BY <1>10 DEF Kept
  <2> QED BY <1>10, <2>1, <2>2, <2>3 DEF Kept, Saving
<1>11. ASSUME NEW p \in Proc, CreateTemp(p) PROVE Kept'
  <2> DEFINE d == [dir EXCEPT !.side = @ \cup {Tmp(nextId, Torn)}]
  <2>1. d.main = dir.main /\ onDisk' = onDisk \cup {d}
    BY <1>11, <1>s DEF CreateTemp, Change
  <2> HIDE DEF d
  <2>2. \A e \in onDisk' : Holds(e)'
    BY <1>11, <1>d, <2>1, SameMain DEF Kept, CreateTemp
  <2> QED BY <1>10, <1>11, <2>2 DEF CreateTemp, envVars, Saving
<1>12. ASSUME NEW p \in Proc, WriteTemp(p) PROVE Kept'
  <2> DEFINE w == Whole(doc[p] \cup {op[p]})
             written(d) == [d EXCEPT !.side = {IF s.id = mine[p] THEN Tmp(s.id, w) ELSE s : s \in @}]
  <2>1. onDisk' = {written(d) : d \in onDisk}
    BY <1>12, Zenon DEF WriteTemp
  <2>2. \A d \in onDisk : written(d).main = d.main
    BY TypesShape DEF DirOK, Directory
  <2>3. \A d \in onDisk : \A s \in written(d).side : s.id = mine[p] => s.file = w
    BY TypesShape DEF DirOK, Directory, Tmp
  <2> HIDE DEF written, w
  <2>4. \A d \in onDisk' : Holds(d)'
    BY <1>12, <2>1, <2>2, SameMain DEF Kept, WriteTemp
  <2>5. \A d \in onDisk' : \A s \in d.side : s.id = mine'[p] => s.file = Whole(doc[p] \cup {op[p]})
    BY <1>12, <2>1, <2>3 DEF WriteTemp, w
  <2> QED BY <1>10, <1>12, <2>4, <2>5 DEF WriteTemp, envVars, Saving
<1>13. ASSUME NEW p \in Proc, Rename(p) PROVE Kept'
  <2> DEFINE found == {s \in dir.side : s.id = mine[p]}
             d == [main |-> {s.file : s \in found}, side |-> dir.side \ found]
  <2>f. pc[p] = "rename" /\ UNCHANGED <<doc, op, mine, acked, excused>>
    BY <1>13 DEF Rename, envVars
  <2>1. CASE found = {}
    BY <1>13, <1>n, <2>1, <2>f DEF Rename, Leave, Label, Saving
  <2>2. CASE found # {}
    <3>1. Goto(p, "sync") /\ dir' = d /\ onDisk' = onDisk \cup {d}
      BY <1>13, <2>2 DEF Rename, Change
    <3>2. d.main = {Whole(doc[p] \cup {op[p]})}
      BY <1>d, <2>2, <2>f DEF Kept
    <3>3. acked \subseteq doc[p]
      BY <2>f DEF Kept, Saving
    <3>c. PICK c : c = d
      OBVIOUS
    <3> HIDE DEF d
    <3>4. Holds(c)' /\ \A f \in c.main : op[p] \in f.ops
      BY <2>f, <3>2, <3>3, <3>c, WholeIs DEF Holds
    <3>5. \A e \in onDisk' : Holds(e)'
      <4>1. \A e \in onDisk : Holds(e)'
        BY <2>f, SameMain DEF Kept
      <4> QED BY <3>1, <3>4, <3>c, <4>1
    <3> QED BY <1>10, <2>f, <3>1, <3>4, <3>5, <3>c DEF Saving
  <2> QED BY <2>1, <2>2
<1>14. ASSUME NEW p \in Proc, SyncParent(p) PROVE Kept'
  <2>1. pc[p] = "sync" /\ onDisk' = {dir} /\ dir' = dir /\ acked' = acked \cup {op[p]}
        /\ Goto(p, "idle") /\ UNCHANGED <<doc, op, excused>>
    BY <1>14 DEF SyncParent, ChangeSynced, Leave, envVars
  <2>2. Holds(dir)'
    BY <1>d, <2>1 DEF Kept, Holds
  <2> QED BY <1>10, <2>1, <2>2 DEF Saving
<1>15. ASSUME NEW p \in Proc, Quarantine(p) \/ Promote(p) \/ Promoted(p) PROVE FALSE
  BY <1>15 DEF Quarantine, Promote, Promoted, Kept
<1> QED BY <1>1, <1>2, <1>3, <1>4, <1>5, <1>6, <1>7, <1>8, <1>9, <1>11, <1>12, <1>13, <1>14, <1>15
        DEF Next, Step

(* No update whose save returned Ok is lost: when the file exists and the  *)
(* disk does not damage it, any number of locked writers and unlocked      *)
(* readers may interleave, fail and die at every step of                   *)
(* write_private_replace_with and recover_json_replace, and power losses   *)
(* may drop every directory change that sync_parent has not covered.       *)
THEOREM AcknowledgedUpdatesKept == ASSUME SafeFile PROVE Spec => []AckedKept
<1>1. Init => Types /\ Kept
  BY InitTypes, InitKept
<1>2. (Types /\ Kept) /\ [Next]_vars => (Types /\ Kept)'
  BY NextTypes, NextKept
<1>3. Types /\ Kept => AckedKept
  <2> SUFFICES ASSUME Types, Kept, NEW d \in onDisk, NEW u \in acked
               PROVE  \E ops \in Loads(d) : u \in ops
    BY DEF AckedKept
  <2>1. PICK f \in d.main : f.ok /\ acked \subseteq f.ops
    BY DEF Kept, Holds
  <2>2. f.ops \in Loads(d)
    BY <2>1 DEF Loads, MainValid
  <2> QED BY <2>1, <2>2
<1> QED BY <1>1, <1>2, <1>3, PTL DEF Spec
-----------------------------------------------------------------------------
(* Without unlocked loads, from the first save on and with damage.          *)

(* The updates that a load must return.                                     *)
Owed == acked \ excused

(* A load of d finds something, and nothing that it could find is stale.    *)
Recoverable(d, A) ==
    /\ \A s \in d.side : s.file.ok => A \subseteq s.file.ops
    /\ \A f \in d.main : f.ok => A \subseteq f.ops
    /\ A = {} \/ MainValid(d) \/ \E s \in d.side : s.file.ok

(* What the process that holds the lock has established.                    *)
Established(p) ==
    /\ pc[p] \in {"discard", "promoted"} => MainValid(dir)
    /\ pc[p] \in {"quarantine", "promote"} => \E s \in dir.side : s.id = mine[p] /\ s.file.ok
    /\ pc[p] = "quarantine" => ~MainValid(dir)
    /\ pc[p] = "read" => dir.side = {} \/ ~MainValid(dir)
    /\ pc[p] \in Saving => Owed \subseteq doc[p] /\ op[p] < nextOp
    /\ pc[p] # "idle" => op[p] < nextOp
    /\ pc[p] \in {"cleanup", "create", "sync"} => dir.side = {}
    /\ pc[p] \in {"write", "rename"} => \A s \in dir.side : s.id = mine[p]
    /\ pc[p] = "rename" => \A s \in dir.side : s.file = Whole(doc[p] \cup {op[p]})
    /\ pc[p] = "sync" => dir.main = {Whole(doc[p] \cup {op[p]})}

LockedInv ==
    /\ acked \subseteq 1 .. (nextOp - 1)
    /\ \A d \in onDisk : Recoverable(d, Owed)
    /\ \A p \in Proc : Established(p)

LessNat == {ss \in Nat \X Nat : ss[1] < ss[2]}

(* A set of natural numbers that is not empty has a least element.          *)
LEMMA Least ==
    ASSUME NEW T \in SUBSET Nat, T # {}
    PROVE  \E m \in T : \A k \in T : m <= k
<1>1. OpToRel(<, Nat) = LessNat
  BY Zenon DEF OpToRel, LessNat
<1>2. IsWellFoundedOn(LessNat, Nat)
  BY <1>1, NatLessThanWellFounded, Zenon DEF OpToRel, LessNat
<1>3. PICK m \in T : \A y \in T : ~ (<<y, m>> \in LessNat)
  BY <1>2, WFMin
<1>4. \A y \in T : ~ (y < m)
  BY <1>3 DEF LessNat
<1> QED BY <1>4

(* One process at a time is inside a request.                               *)
LEMMA OthersIdle ==
    ASSUME Reader = {}, Types, NEW p \in Proc, pc[p] # "idle" \/ lock = Free
    PROVE  \A q \in Proc \ {p} : pc[q] = "idle"
BY ProcAssumption DEF Types, TypeOK, Proc

(* A step of that process leaves nothing to show about the others.          *)
LEMMA OneMoves ==
    ASSUME Reader = {}, Types, NEW p \in Proc, pc[p] # "idle" \/ lock = Free,
           \A q \in Proc \ {p} : pc'[q] = pc[q], acked' \subseteq 1 .. (nextOp' - 1),
           \A d \in onDisk' : Recoverable(d, Owed'), Established(p)'
    PROVE  LockedInv'
<1>1. \A q \in Proc \ {p} : pc'[q] = "idle"
  BY OthersIdle
<1>2. ASSUME NEW q \in Proc \ {p} PROVE Established(q)'
  BY <1>1 DEF Established, Saving
<1> QED BY <1>2 DEF LockedInv

(* What a directory's parts are after they are changed.                     *)
LEMMA Parts ==
    ASSUME Types, LockedInv
    PROVE  /\ dir \in onDisk /\ Recoverable(dir, Owed)
           /\ \A d \in onDisk : \A S : /\ [d EXCEPT !.side = S].main = d.main
                                       /\ [d EXCEPT !.side = S].side = S
           /\ \A f, g \in dir.main : f = g
           /\ \A s, t \in dir.side : s.id = t.id => s = t
           /\ pc \in [Proc -> Label] /\ doc \in [Proc -> SUBSET Update]
           /\ mine \in [Proc -> Nat] /\ op \in [Proc -> 0 .. MaxOps]
           /\ nextOp \in Nat \ {0}
<1>1. \A d \in onDisk : d \in Directory
  BY DEF Types, TypeOK
<1>2. \A d \in onDisk : \A S : /\ [d EXCEPT !.side = S].main = d.main
                               /\ [d EXCEPT !.side = S].side = S
  BY <1>1 DEF Directory
<1>3. dir \in onDisk /\ nextOp \in Nat \ {0}
  BY BoundAssumption DEF Types, TypeOK
<1> QED BY <1>2, <1>3 DEF Types, TypeOK, Numbered, LockedInv

(* The file is being created, or is there and holds nothing that is owed.   *)
LEMMA InitLocked == Init => LockedInv
<1> SUFFICES ASSUME Init PROVE LockedInv
  OBVIOUS
<1>1. onDisk = {dir} /\ acked = {} /\ nextOp = 1 /\ \A p \in Proc : pc[p] = "idle"
  BY DEF Init
<1>2. Owed = {}
  BY <1>1 DEF Owed
<1> QED BY <1>1, <1>2 DEF LockedInv, Recoverable, Established, Saving

(* A process that changes no file and acknowledges nothing.                 *)
LEMMA QuietMove ==
    ASSUME Reader = {}, Types, LockedInv, NEW p \in Proc, pc[p] # "idle" \/ lock = Free,
           \A q \in Proc \ {p} : pc'[q] = pc[q], UNCHANGED <<dir, onDisk, acked, excused>>,
           nextOp' >= nextOp, nextOp' \in Nat, Established(p)'
    PROVE  LockedInv'
<1>1. Owed' = Owed
  BY DEF Owed
<1>2. \A d \in onDisk' : Recoverable(d, Owed')
  BY <1>1 DEF LockedInv
<1>3. acked' \subseteq 1 .. (nextOp' - 1)
  BY Parts DEF LockedInv
<1> QED BY <1>2, <1>3, OneMoves

(* Loading: what is found is current, and stays so while it is recovered.   *)
LEMMA LoadLocked ==
    ASSUME Reader = {}, Types, LockedInv, NEW p \in Proc,
           \/ Acquire(p) \/ StartRead(p) \/ Check(p) \/ Discard(p) \/ Quarantine(p) \/ Promote(p)
           \/ Promoted(p) \/ Read(p)
    PROVE  LockedInv'
<1> USE DEF Goto, envVars, counters
<1>p. /\ dir \in onDisk /\ Recoverable(dir, Owed)
      /\ \A f, g \in dir.main : f = g
      /\ \A s, t \in dir.side : s.id = t.id => s = t
      /\ pc \in [Proc -> Label] /\ doc \in [Proc -> SUBSET Update] /\ mine \in [Proc -> Nat]
      /\ op \in [Proc -> 0 .. MaxOps] /\ nextOp \in Nat \ {0}
  BY Parts
<1>q. /\ \A d \in onDisk : Recoverable(d, Owed)
      /\ acked \subseteq 1 .. (nextOp - 1)
      /\ Established(p)
  BY DEF LockedInv
<1>1. CASE Acquire(p)
  <2>1. /\ UNCHANGED <<dir, onDisk, mine, acked, excused>> /\ lock = Free /\ op'[p] = nextOp
        /\ nextOp' = nextOp + 1 /\ doc'[p] = {}
    BY <1>1, <1>p DEF Acquire
  <2>2. CASE Exists
    <3>1. Goto(p, "check")
      BY <1>1, <2>2 DEF Acquire
    <3>2. Established(p)'
      BY <1>p, <2>1, <3>1 DEF Established, Saving
    <3> QED BY <1>p, <2>1, <3>1, <3>2, QuietMove
  <2>3. CASE ~Exists
    <3>1. Goto(p, "cleanup")
      BY <1>1, <2>3 DEF Acquire
    <3>2. dir.side = {} /\ Owed = {}
      BY <1>p, <2>3 DEF Exists, Recoverable, MainValid
    <3>3. Owed' = {}
      BY <2>1, <3>2 DEF Owed
    <3>4. Established(p)'
      BY <1>p, <2>1, <3>1, <3>2, <3>3 DEF Established, Saving
    <3> QED BY <1>p, <2>1, <3>1, <3>4, QuietMove
  <2> QED BY <2>2, <2>3
<1>2. CASE StartRead(p)
  BY <1>2 DEF StartRead
<1>3. CASE Check(p)
  <2>1. /\ UNCHANGED <<dir, onDisk, doc, op, nextOp, acked, excused>> /\ pc[p] = "check"
    BY <1>3 DEF Check
  <2>2. CASE MainValid(dir) /\ Goto(p, "discard") /\ UNCHANGED mine
    <3>1. Established(p)'
      BY <1>p, <1>q, <2>1, <2>2 DEF Established, Saving, MainValid
    <3> QED BY <1>p, <2>1, <2>2, <3>1, QuietMove
  <2>3. CASE /\ ~MainValid(dir) /\ Goto(p, "quarantine")
             /\ \E s \in Newest(Candidates(dir)) : mine' = [mine EXCEPT ![p] = s.id]
    <3>1. \E s \in dir.side : s.id = mine'[p] /\ s.file.ok
      BY <1>p, <2>3 DEF Newest, Candidates
    <3>2. Established(p)'
      BY <1>p, <1>q, <2>1, <2>3, <3>1 DEF Established, Saving, MainValid
    <3> QED BY <1>p, <2>1, <2>3, <3>2, QuietMove
  <2>4. CASE ~MainValid(dir) /\ Goto(p, "read") /\ UNCHANGED mine
    <3>1. Established(p)'
      BY <1>p, <1>q, <2>1, <2>4 DEF Established, Saving, MainValid
    <3> QED BY <1>p, <2>1, <2>4, <3>1, QuietMove
  <2> QED BY <1>3, <2>2, <2>3, <2>4 DEF Check
<1>4. CASE Discard(p)
  <2>1. /\ UNCHANGED <<doc, op, nextOp, acked, excused, mine>> /\ pc[p] = "discard"
        /\ Goto(p, "read") /\ Cleanup([dir EXCEPT !.side = {}])
    BY <1>4 DEF Discard
  <2>2. PICK e : e = [dir EXCEPT !.side = {}]
    OBVIOUS
  <2>3. e.main = dir.main /\ e.side = {} /\ MainValid(dir)
    BY <1>p, <1>q, <2>1, <2>2, Parts DEF Established
  <2>4. dir' = e /\ (onDisk' = onDisk \/ onDisk' = {e})
    BY <2>1, <2>2 DEF Cleanup, ChangeSynced
  <2>5. Owed' = Owed
    BY <2>1 DEF Owed
  <2>6. Recoverable(e, Owed)
    BY <1>p, <2>3 DEF Recoverable, MainValid
  <2>7. \A d \in onDisk' : Recoverable(d, Owed')
    BY <1>q, <2>4, <2>5, <2>6
  <2>8. Established(p)'
    BY <1>p, <1>q, <2>1, <2>3, <2>4 DEF Established, Saving
  <2> QED BY <1>p, <1>q, <2>1, <2>7, <2>8, OneMoves
<1>5. CASE Quarantine(p)
  <2>1. /\ UNCHANGED <<doc, op, nextOp, acked, excused, mine>> /\ pc[p] = "quarantine"
        /\ Goto(p, "promote")
    BY <1>5 DEF Quarantine
  <2>2. Owed' = Owed
    BY <2>1 DEF Owed
  <2>3. PICK s \in dir.side : s.id = mine[p] /\ s.file.ok
    BY <1>q, <2>1 DEF Established
  <2>4. CASE dir.main = {}
    <3>1. UNCHANGED <<dir, onDisk>>
      BY <1>5, <2>4 DEF Quarantine
    <3>2. Established(p)'
      BY <1>p, <1>q, <2>1, <2>3, <3>1 DEF Established, Saving
    <3> QED BY <1>p, <2>1, <3>1, <3>2, QuietMove
  <2>5. CASE dir.main # {}
    <3>1. PICK f \in dir.main : ChangeSynced(
             [main |-> {}, side |-> dir.side \cup
                 {[id |-> nextId, suffix |-> "quarantined", file |-> f]}])
      BY <1>5, <2>5 DEF Quarantine
    <3>2. PICK aside : aside = [id |-> nextId, suffix |-> "quarantined", file |-> f]
      OBVIOUS
    <3>3. aside.file = f /\ ~f.ok
      BY <1>q, <2>1, <3>2 DEF Established, MainValid
    <3>4. dir'.main = {} /\ dir'.side = dir.side \cup {aside} /\ onDisk' = {dir'}
      BY <3>1, <3>2 DEF ChangeSynced
    <3>5. Recoverable(dir', Owed)
      BY <1>p, <2>3, <3>3, <3>4 DEF Recoverable
    <3>6. \A d \in onDisk' : Recoverable(d, Owed')
      BY <2>2, <3>4, <3>5
    <3>7. Established(p)'
      BY <1>p, <1>q, <2>1, <2>3, <3>4 DEF Established, Saving
    <3> QED BY <1>p, <1>q, <2>1, <3>6, <3>7, OneMoves
  <2> QED BY <2>4, <2>5
<1>6. CASE Promote(p)
  <2> DEFINE found == {s \in dir.side : s.id = mine[p]}
  <2>1. /\ UNCHANGED <<doc, op, nextOp, acked, excused, mine>> /\ pc[p] = "promote"
    BY <1>6 DEF Promote
  <2>2. Owed' = Owed
    BY <2>1 DEF Owed
  <2>3. PICK s \in dir.side : s.id = mine[p] /\ s.file.ok
    BY <1>q, <2>1 DEF Established
  <2>4. found = {s}
    BY <1>p, <2>3
  <2>5. /\ Change([main |-> {t.file : t \in found}, side |-> dir.side \ found])
        /\ Goto(p, "promoted")
    BY <1>6, <2>4 DEF Promote
  <2>6. dir'.main = {s.file} /\ dir'.side \subseteq dir.side /\ onDisk' = onDisk \cup {dir'}
    BY <2>4, <2>5 DEF Change
  <2>7. Recoverable(dir', Owed)
    BY <1>p, <2>3, <2>6 DEF Recoverable, MainValid
  <2>8. \A d \in onDisk' : Recoverable(d, Owed')
    BY <1>q, <2>2, <2>6, <2>7
  <2>9. MainValid(dir')
    BY <2>3, <2>6 DEF MainValid
  <2>10. Established(p)'
    BY <1>p, <1>q, <2>1, <2>5, <2>9 DEF Established, Saving
  <2> QED BY <1>p, <1>q, <2>1, <2>5, <2>8, <2>10, OneMoves
<1>7. CASE Promoted(p)
  <2>1. /\ UNCHANGED <<doc, op, nextOp, acked, excused, mine>> /\ pc[p] = "promoted"
        /\ Goto(p, "discard") /\ dir' = dir /\ onDisk' = {dir}
    BY <1>7 DEF Promoted, ChangeSynced
  <2>2. Owed' = Owed
    BY <2>1 DEF Owed
  <2>3. MainValid(dir')
    BY <1>q, <2>1 DEF Established
  <2>4. Established(p)'
    BY <1>p, <1>q, <2>1, <2>3 DEF Established, Saving
  <2>5. \A d \in onDisk' : Recoverable(d, Owed')
    BY <1>p, <2>1, <2>2
  <2> QED BY <1>p, <1>q, <2>1, <2>4, <2>5, OneMoves
<1>8. CASE Read(p)
  <2>1. UNCHANGED <<dir, onDisk, op, nextOp, acked, excused, mine>> /\ pc[p] = "read"
    BY <1>8 DEF Read
  <2>2. CASE Goto(p, "idle")
    <3>1. Established(p)'
      BY <1>p, <2>2 DEF Established, Saving
    <3> QED BY <1>p, <2>1, <2>2, <3>1, QuietMove
  <2>3. CASE /\ MainValid(dir) /\ Goto(p, "cleanup")
             /\ \E f \in dir.main : doc' = [doc EXCEPT ![p] = f.ops]
    <3>1. PICK f \in dir.main : doc' = [doc EXCEPT ![p] = f.ops]
      BY <2>3
    <3>2. f.ok
      BY <1>p, <2>3 DEF MainValid
    <3>3. Owed \subseteq doc'[p]
      BY <1>p, <3>1, <3>2 DEF Recoverable
    <3>4. Owed' \subseteq doc'[p] /\ dir'.side = {}
      BY <1>q, <2>1, <2>3, <3>3 DEF Owed, Established
    <3>5. Established(p)'
      BY <1>p, <1>q, <2>1, <2>3, <3>4 DEF Established, Saving
    <3> QED BY <1>p, <2>1, <2>3, <3>5, QuietMove
  <2> QED BY <1>8, <2>2, <2>3 DEF Read, Leave
<1> QED BY <1>1, <1>2, <1>3, <1>4, <1>5, <1>6, <1>7, <1>8

(* Saving: the temporary file holds what the main file will.                *)
LEMMA SaveLocked ==
    ASSUME Reader = {}, Types, LockedInv, NEW p \in Proc,
           CleanupTmp(p) \/ CreateTemp(p) \/ WriteTemp(p) \/ Rename(p) \/ SyncParent(p) \/ Abandon(p)
    PROVE  LockedInv'
<1> USE DEF Goto, envVars, counters
<1>p. /\ dir \in onDisk /\ Recoverable(dir, Owed)
      /\ \A f, g \in dir.main : f = g
      /\ \A s, t \in dir.side : s.id = t.id => s = t
      /\ pc \in [Proc -> Label] /\ doc \in [Proc -> SUBSET Update] /\ mine \in [Proc -> Nat]
      /\ op \in [Proc -> 0 .. MaxOps] /\ nextOp \in Nat \ {0}
  BY Parts
<1>q. /\ \A d \in onDisk : Recoverable(d, Owed)
      /\ acked \subseteq 1 .. (nextOp - 1)
      /\ Established(p)
  BY DEF LockedInv
<1>1. CASE CleanupTmp(p)
  <2>1. /\ UNCHANGED <<doc, op, nextOp, acked, excused, mine>> /\ pc[p] = "cleanup"
        /\ Goto(p, "create") /\ Cleanup([dir EXCEPT !.side = {s \in @ : s.suffix # "tmp"}])
    BY <1>1 DEF CleanupTmp
  <2>2. PICK e : e = [dir EXCEPT !.side = {s \in @ : s.suffix # "tmp"}]
    OBVIOUS
  <2>3. e.main = dir.main /\ e.side = {} /\ dir.side = {}
    <3>1. dir.side = {}
      BY <1>q, <2>1 DEF Established
    <3> QED BY <1>p, <2>2, <3>1, Parts
  <2>4. dir' = e /\ (onDisk' = onDisk \/ onDisk' = {e})
    BY <2>1, <2>2 DEF Cleanup, ChangeSynced
  <2>5. Owed' = Owed
    BY <2>1 DEF Owed
  <2>6. Recoverable(e, Owed)
    BY <1>p, <2>3 DEF Recoverable, MainValid
  <2>7. \A d \in onDisk' : Recoverable(d, Owed')
    BY <1>q, <2>4, <2>5, <2>6
  <2>8. Established(p)'
    BY <1>p, <1>q, <2>1, <2>3, <2>4, <2>5 DEF Established, Saving
  <2> QED BY <1>p, <1>q, <2>1, <2>7, <2>8, OneMoves
<1>2. CASE CreateTemp(p)
  <2>1. /\ UNCHANGED <<doc, op, nextOp, acked, excused>> /\ pc[p] = "create" /\ Goto(p, "write")
        /\ Change([dir EXCEPT !.side = @ \cup {Tmp(nextId, Torn)}]) /\ mine'[p] = nextId
    BY <1>2, <1>p DEF CreateTemp
  <2>2. PICK t : t = Tmp(nextId, Torn)
    OBVIOUS
  <2>3. t.id = nextId /\ ~t.file.ok
    BY <2>2 DEF Tmp, Torn
  <2>4. dir.side = {}
    BY <1>q, <2>1 DEF Established
  <2>5. dir'.main = dir.main /\ dir'.side = {t} /\ onDisk' = onDisk \cup {dir'}
    BY <1>p, <2>1, <2>2, <2>4, Parts DEF Change
  <2>6. Owed' = Owed
    BY <2>1 DEF Owed
  <2>7. Recoverable(dir', Owed)
    BY <1>p, <2>3, <2>4, <2>5 DEF Recoverable, MainValid
  <2>8. \A d \in onDisk' : Recoverable(d, Owed')
    BY <1>q, <2>5, <2>6, <2>7
  <2>9. Established(p)'
    BY <1>p, <1>q, <2>1, <2>3, <2>5, <2>6 DEF Established, Saving
  <2> QED BY <1>p, <1>q, <2>1, <2>8, <2>9, OneMoves
<1>3. CASE WriteTemp(p)
  <2> DEFINE w == Whole(doc[p] \cup {op[p]})
             New(s) == IF s.id = mine[p] THEN Tmp(s.id, w) ELSE s
             written(d) == [d EXCEPT !.side = {New(s) : s \in @}]
  <2>1. /\ UNCHANGED <<doc, op, nextOp, acked, excused, mine>> /\ pc[p] = "write"
        /\ Goto(p, "rename")
    BY <1>3 DEF WriteTemp
  <2>2. dir' = written(dir) /\ onDisk' = {written(d) : d \in onDisk}
    BY <1>3, Zenon DEF WriteTemp
  <2>3. \A d \in onDisk : written(d).main = d.main /\ written(d).side = {New(s) : s \in d.side}
    BY Parts
  <2>4. w.ok /\ w.ops = doc[p] \cup {op[p]}
    BY WholeIs
  <2>5. \A s : s.id = mine[p] => New(s).id = mine[p] /\ New(s).file = w
    BY DEF Tmp
  <2>6. \A s : s.id # mine[p] => New(s) = s
    OBVIOUS
  <2>7. Owed' = Owed /\ Owed \subseteq doc[p]
    BY <1>q, <2>1 DEF Owed, Established, Saving
  <2> HIDE DEF written, New, w
  <2>8. ASSUME NEW d \in onDisk PROVE Recoverable(written(d), Owed)
    <3>1. \A s \in d.side : s.file.ok => Owed \subseteq s.file.ops
      BY <1>q DEF Recoverable
    <3>2. \A s \in d.side : New(s).file.ok => Owed \subseteq New(s).file.ops
      BY <2>4, <2>5, <2>6, <2>7, <3>1
    <3>3. \A s \in d.side : s.file.ok => New(s).file.ok
      BY <2>4, <2>5, <2>6
    <3> QED BY <1>q, <2>3, <3>2, <3>3 DEF Recoverable, MainValid
  <2>9. \A d \in onDisk' : Recoverable(d, Owed')
    BY <2>2, <2>7, <2>8
  <2>10. \A s \in dir'.side : s.id = mine'[p] /\ s.file = Whole(doc'[p] \cup {op'[p]})
    <3>1. \A s \in dir.side : s.id = mine[p]
      BY <1>q, <2>1 DEF Established
    <3>2. dir'.side = {New(s) : s \in dir.side}
      BY <1>p, <2>2, <2>3
    <3>3. \A s \in dir.side : New(s).id = mine[p] /\ New(s).file = w
      BY <2>5, <3>1
    <3>4. \A s \in dir'.side : s.id = mine[p] /\ s.file = w
      BY <3>2, <3>3
    <3>5. w = Whole(doc'[p] \cup {op'[p]}) /\ mine'[p] = mine[p]
      BY <2>1 DEF w
    <3> QED BY <3>4, <3>5
  <2>11. Established(p)'
    BY <1>p, <1>q, <2>1, <2>7, <2>10 DEF Established, Saving
  <2> QED BY <1>p, <1>q, <2>1, <2>9, <2>11, OneMoves
<1>4. CASE Rename(p)
  <2> DEFINE found == {s \in dir.side : s.id = mine[p]}
  <2>1. UNCHANGED <<doc, op, nextOp, acked, excused, mine>> /\ pc[p] = "rename"
    BY <1>4 DEF Rename
  <2>2. Owed' = Owed /\ Owed \subseteq doc[p]
    BY <1>q, <2>1 DEF Owed, Established, Saving
  <2>3. CASE found = {}
    <3>1. Goto(p, "idle") /\ UNCHANGED <<dir, onDisk>>
      BY <1>4, <2>3 DEF Rename, Leave
    <3>2. Established(p)'
      BY <1>p, <3>1 DEF Established, Saving
    <3> QED BY <1>p, <2>1, <3>1, <3>2, QuietMove
  <2>4. CASE found # {}
    <3>1. Change([main |-> {s.file : s \in found}, side |-> dir.side \ found]) /\ Goto(p, "sync")
      BY <1>4, <2>4 DEF Rename
    <3>2. found = dir.side /\ \A s \in found : s.file = Whole(doc[p] \cup {op[p]})
      BY <1>q, <2>1 DEF Established
    <3>3. PICK w : w = Whole(doc[p] \cup {op[p]})
      OBVIOUS
    <3>4. {s.file : s \in found} = {w}
      BY <2>4, <3>2, <3>3
    <3>5. dir'.main = {w} /\ dir'.side = {} /\ onDisk' = onDisk \cup {dir'}
      BY <3>1, <3>2, <3>4 DEF Change
    <3>6. w.ok /\ Owed \subseteq w.ops
      BY <2>2, <3>3, WholeIs
    <3>7. Recoverable(dir', Owed)
      BY <3>5, <3>6 DEF Recoverable, MainValid
    <3>8. \A d \in onDisk' : Recoverable(d, Owed')
      BY <1>q, <2>2, <3>5, <3>7
    <3>9. Established(p)'
      BY <1>p, <1>q, <2>1, <2>2, <3>1, <3>3, <3>5 DEF Established, Saving
    <3> QED BY <1>p, <1>q, <2>1, <3>1, <3>8, <3>9, OneMoves
  <2> QED BY <2>3, <2>4
<1>5. CASE SyncParent(p)
  <2>1. /\ UNCHANGED <<doc, op, nextOp, excused, mine>> /\ pc[p] = "sync" /\ Goto(p, "idle")
        /\ dir' = dir /\ onDisk' = {dir} /\ acked' = acked \cup {op[p]}
    BY <1>5 DEF SyncParent, ChangeSynced, Leave
  <2>2. /\ dir.side = {} /\ dir.main = {Whole(doc[p] \cup {op[p]})} /\ Owed \subseteq doc[p]
        /\ op[p] < nextOp
    BY <1>q, <2>1 DEF Established, Saving
  <2>3. PICK w : w = Whole(doc[p] \cup {op[p]})
    OBVIOUS
  <2>4. w.ok /\ w.ops = doc[p] \cup {op[p]} /\ dir.main = {w}
    BY <2>2, <2>3, WholeIs
  <2>5. Owed' \subseteq Owed \cup {op[p]}
    BY <2>1 DEF Owed
  <2>6. Recoverable(dir, Owed')
    BY <2>2, <2>4, <2>5 DEF Recoverable, MainValid
  <2>7. \A d \in onDisk' : Recoverable(d, Owed')
    BY <2>1, <2>6
  <2>8. acked' \subseteq 1 .. (nextOp' - 1)
    <3>1. op[p] \in 1 .. MaxOps
      BY <2>1, ProcAssumption DEF Types, Roles, Update, Proc
    <3>2. op[p] \in 1 .. (nextOp - 1)
      BY <1>p, <2>2, <3>1, BoundAssumption
    <3> QED BY <1>q, <2>1, <3>2
  <2>9. Established(p)'
    BY <1>p, <2>1 DEF Established, Saving
  <2> QED BY <1>p, <2>1, <2>7, <2>8, <2>9, OneMoves
<1>6. CASE Abandon(p)
  <2>1. /\ UNCHANGED <<dir, onDisk, nextOp, acked, excused>> /\ pc[p] # "idle" /\ Goto(p, "idle")
    BY <1>6 DEF Abandon, Leave
  <2>2. Established(p)'
    BY <1>p, <2>1 DEF Established, Saving
  <2> QED BY <1>p, <2>1, <2>2, QuietMove
<1> QED BY <1>1, <1>2, <1>3, <1>4, <1>5, <1>6

(* Damage takes only updates that are excused then; power loss takes none.  *)
LEMMA FaultsLocked ==
    ASSUME Reader = {}, Types, LockedInv, PowerLoss \/ Damage
    PROVE  LockedInv'
<1>q. /\ \A d \in onDisk : Recoverable(d, Owed)
      /\ acked \subseteq 1 .. (nextOp - 1)
  BY DEF LockedInv
<1>1. CASE PowerLoss
  <2>1. /\ UNCHANGED <<acked, excused, nextOp>> /\ dir' \in onDisk /\ onDisk' = {dir'}
        /\ \A p \in Proc : pc'[p] = "idle"
    BY <1>1 DEF PowerLoss, counters
  <2>2. Owed' = Owed
    BY <2>1 DEF Owed
  <2>3. \A p \in Proc : Established(p)'
    BY <2>1 DEF Established, Saving
  <2> QED BY <1>q, <2>1, <2>2, <2>3 DEF LockedInv
<1>2. CASE Damage
  <2> DEFINE damaged(d) == IF d.main = dir.main THEN [d EXCEPT !.main = {Torn}] ELSE d
  <2>1. /\ UNCHANGED <<acked, pc, nextOp>> /\ \A p \in Proc : pc[p] = "idle"
        /\ onDisk' = {damaged(d) : d \in onDisk}
        /\ excused' = IF \E d \in onDisk' : Loads(d) = {} THEN 1 .. (nextOp - 1) ELSE excused
    BY <1>2, Zenon DEF Damage, counters
  <2>2. \A p \in Proc : Established(p)'
    BY <2>1 DEF Established, Saving
  <2>3. CASE \E d \in onDisk' : Loads(d) = {}
    <3>1. Owed' = {}
      BY <1>q, <2>1, <2>3 DEF Owed
    <3>2. \A d \in onDisk' : Recoverable(d, Owed')
      BY <3>1 DEF Recoverable
    <3> QED BY <1>q, <2>1, <2>2, <3>2 DEF LockedInv
  <2>4. CASE \A d \in onDisk' : Loads(d) # {}
    <3>1. Owed' = Owed
      BY <2>1, <2>4 DEF Owed
    <3>2. ASSUME NEW d \in onDisk PROVE Recoverable(damaged(d), Owed)
      <4>1. \/ damaged(d) = d
            \/ damaged(d).side = d.side /\ damaged(d).main = {Torn}
        BY DEF Types, TypeOK, Directory
      <4>2. Loads(damaged(d)) # {}
        BY <2>1, <2>4
      <4>3. ~Torn.ok
        BY DEF Torn
      <4> HIDE DEF damaged
      <4>4. MainValid(damaged(d)) \/ \E s \in damaged(d).side : s.file.ok
        BY <4>2 DEF Loads, Newest, Candidates
      <4> QED BY <1>q, <4>1, <4>3, <4>4 DEF Recoverable
    <3>3. \A d \in onDisk' : Recoverable(d, Owed')
      BY <2>1, <3>1, <3>2
    <3> QED BY <1>q, <2>1, <2>2, <3>3 DEF LockedInv
  <2> QED BY <2>3, <2>4
<1> QED BY <1>1, <1>2

(* The invariant of the locked file is inductive.                           *)
LEMMA NextLocked == ASSUME Reader = {}, Types, LockedInv, [Next]_vars PROVE LockedInv'
<1>1. CASE UNCHANGED vars
  BY <1>1 DEF vars, LockedInv, Recoverable, Established, Owed, Saving, MainValid
<1>2. ASSUME NEW p \in Proc, Acquire(p) \/ StartRead(p) \/ Step(p) \/ Abandon(p) PROVE LockedInv'
  BY <1>2, LoadLocked, SaveLocked DEF Step
<1> QED BY <1>1, <1>2, FaultsLocked DEF Next

(* Of sidecars with different numbers below a bound one is the newest.      *)
LEMMA NewestExists ==
    ASSUME Types, NEW d \in onDisk, Candidates(d) # {}
    PROVE  Newest(Candidates(d)) # {}
<1> DEFINE back == {nextId - s.id : s \in Candidates(d)}
<1>1. \A s \in Candidates(d) : s.id \in Nat /\ s.id < nextId
  BY DEF Types, TypeOK, Numbered, Candidates, Directory, Sidecar
<1>2. nextId \in Nat
  BY DEF Types, TypeOK
<1>3. back \in SUBSET Nat /\ back # {}
  BY <1>1, <1>2
<1>4. PICK n \in back : \A k \in back : n <= k
  BY <1>3, Least
<1>5. PICK s \in Candidates(d) : nextId - s.id = n
  BY <1>4
<1>6. ASSUME NEW t \in Candidates(d) PROVE t.id <= s.id
  <2>1. n <= nextId - t.id
    BY <1>4
  <2> QED BY <1>1, <1>2, <1>5, <2>1
<1> QED BY <1>6 DEF Newest

(* A file that is only loaded under the lock, from its first save on and    *)
(* however often the disk damages it: no sidecar that recover_json_replace  *)
(* could promote is stale.                                                  *)
THEOREM SidecarsAreCurrent == ASSUME Reader = {} PROVE Spec => []CandidatesCurrent
<1>1. Init => Types /\ LockedInv
  BY InitTypes, InitLocked
<1>2. (Types /\ LockedInv) /\ [Next]_vars => (Types /\ LockedInv)'
  BY NextTypes, NextLocked
<1>3. Types /\ LockedInv => CandidatesCurrent
  BY DEF LockedInv, Recoverable, Owed, CandidatesCurrent, Candidates
<1> QED BY <1>1, <1>2, <1>3, PTL DEF Spec

(* The same file returns every update whose save returned Ok, also after    *)
(* the next power loss, unless damage took the only copy.                   *)
THEOREM LockedUpdatesKept == ASSUME Reader = {} PROVE Spec => []AckedKept
<1>1. Init => Types /\ LockedInv
  BY InitTypes, InitLocked
<1>2. (Types /\ LockedInv) /\ [Next]_vars => (Types /\ LockedInv)'
  BY NextTypes, NextLocked
<1>3. Types /\ LockedInv => AckedKept
  <2> SUFFICES ASSUME Types, LockedInv, NEW d \in onDisk, NEW u \in Owed
               PROVE  \E ops \in Loads(d) : u \in ops
    BY DEF AckedKept, Owed
  <2>1. Recoverable(d, Owed)
    BY DEF LockedInv
  <2>2. CASE MainValid(d)
    <3>1. PICK f \in d.main : f.ok
      BY <2>2 DEF MainValid
    <3>2. u \in f.ops /\ f.ops \in Loads(d)
      BY <2>1, <2>2, <3>1 DEF Recoverable, Loads
    <3> QED BY <3>2
  <2>3. CASE ~MainValid(d)
    <3>1. Candidates(d) # {}
      BY <2>1, <2>3 DEF Recoverable, Candidates
    <3>2. PICK s \in Newest(Candidates(d)) : TRUE
      BY <3>1, NewestExists
    <3>3. s \in d.side /\ s.file.ok
      BY <3>2 DEF Newest, Candidates
    <3>4. u \in s.file.ops /\ s.file.ops \in Loads(d)
      BY <2>1, <2>3, <3>2, <3>3 DEF Recoverable, Loads
    <3> QED BY <3>4
  <2> QED BY <2>2, <2>3
<1> QED BY <1>1, <1>2, <1>3, PTL DEF Spec
==============================================================================
