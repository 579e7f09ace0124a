-------------------------- MODULE LocalStoreProofs --------------------------
(***************************************************************************)
(* Proofs about the parts of LocalStore for any number of processes, keys, *)
(* deaths, power losses, backups, maps and panics.                         *)
(***************************************************************************)
EXTENDS LocalStore, FiniteSetTheorems, WellFoundedInduction, TLAPS

(* A step of the composition is a step of every part or leaves it alone.    *)
LEMMA StoreStep ==
  ASSUME [StoreNext]_storeVars
  PROVE  /\ [AtRestNext]_atRestVars /\ [BackupNext]_backupVars
         /\ [MapsNext]_mapVars /\ [SessionsNext]_sessionVars
BY DEF StoreNext, storeVars


LessNat == {ss \in Nat \X Nat : ss[1] < ss[2]}

(* A set of natural numbers that is not empty has a least element.          *)
LEMMA Least ==
  ASSUME NEW T \in SUBSET Nat, T # {}
  PROVE  \E m \in T : \A k \in T : m <= k
<1>1. OpToRel(<, Nat) = LessNat
  BY Zenon DEF OpToRel, LessNat
<1>2. IsWellFoundedOn(LessNat, Nat)
  BY <1>1, NatLessThanWellFounded, Zenon DEF OpToRel, LessNat
<1>3. PICK m \in T : \A y \in T : ~ (<<y, m>> \in LessNat)
  BY <1>2, WFMin
<1>4. \A y \in T : ~ (y < m)
  BY <1>3 DEF LessNat
<1> QED BY <1>4

-----------------------------------------------------------------------------
(* The content key.                                                         *)

Places == {"off", "loadKey", "writeKey", "renameKey", "syncKey", "migrate", "sweep", "ready"}
AtRestTypes == AtRestTypeOK /\ at \in [Opener -> Places] /\ keyLosses \in Nat

\* The key lock and the migration lock have one holder.
LocksInv ==
    /\ \A p, q \in Opener : at[p] \in HoldsKeyLock /\ at[q] \in HoldsKeyLock => p = q
    /\ \A p, q \in Opener : at[p] = "sweep" /\ at[q] = "sweep" => p = q

\* The key that a process works with is the one in the data root.
KeyInv == \A p \in Opener :
    /\ at[p] \in {"writeKey", "renameKey", "syncKey", "migrate", "sweep", "ready"} => cipher[p] \in ContentKey
    /\ at[p] \in {"syncKey", "migrate", "sweep", "ready"} => root.key = cipher[p]
    /\ at[p] = "writeKey" => root = [key |-> NoFile, pending |-> "short"]
    /\ at[p] = "renameKey" => root = [key |-> NoFile, pending |-> cipher[p]]

\* The files a sweep has gone through; the marker stays away until its end.
SweepInv == \A p \in Opener :
    /\ at[p] = "sweep" => /\ marker = NoFile
                          /\ \A i \in 1 .. swept[p] : content[Sweep[i]] \in {NoFile, cipher[p]}
    /\ at[p] = "ready" => marker = cipher[p]

MarkerInv == marker # NoFile => \A f \in Managed : content[f] \in {NoFile, marker}

\* The local state is the first file to be there and the first to be sealed.
StateFirst == \A f \in Managed :
    /\ content[f] # NoFile => content["state"] # NoFile
    /\ content[f] \in ContentKey => content[f] = content["state"]

\* Sealing the local state has made its key durable.
KeyDurable ==
    keyLosses = 0 /\ content["state"] \in ContentKey =>
        \A d \in rootDisk : d.key = content["state"]

AtRestInv == /\ AtRestTypes /\ LocksInv /\ KeyInv /\ SweepInv /\ MarkerInv /\ StateFirst
             /\ KeyDurable

(* The sweep goes through the managed files in four steps.                  *)
LEMMA SweepOrder ==
  /\ Len(Sweep) = 4 /\ \A i \in 1 .. 4 : Sweep[i] \in Managed
  /\ Sweep[1] = "state" /\ \A f \in Managed : \E i \in 1 .. 4 : Sweep[i] = f
BY DEF Sweep, Managed

(* A pending file that is completed is still a data root.                   *)
LEMMA WrittenIsRoot == \A d \in Root, k \in ContentKey : Written(d, k) \in Root
<1> SUFFICES ASSUME NEW d \in Root, NEW k \in ContentKey PROVE Written(d, k) \in Root
  OBVIOUS
<1>1. CASE d.pending = "short"
  <2>1. Written(d, k) = [d EXCEPT !.pending = k]
    BY <1>1 DEF Written
  <2> QED BY <2>1 DEF Root, KeyFile
<1>2. CASE d.pending # "short"
  BY <1>2 DEF Written
<1> QED BY <1>1, <1>2

(* Nothing is sealed and no process runs at the start.                      *)
LEMMA AtRestStart == AtRestInit => AtRestInv
<1> SUFFICES ASSUME AtRestInit PROVE AtRestInv
  OBVIOUS
<1> USE AtRestAssumption DEF AtRestInit
<1>1. AtRestTypes
  BY SweepOrder DEF AtRestTypes, AtRestTypeOK, Places, Root, KeyFile, Managed
<1>2. LocksInv /\ KeyInv /\ SweepInv /\ MarkerInv
  BY DEF LocksInv, KeyInv, SweepInv, MarkerInv, HoldsKeyLock
<1>3. StateFirst /\ KeyDurable
  BY DEF StateFirst, KeyDurable, Managed
<1> QED BY <1>1, <1>2, <1>3 DEF AtRestInv

(* Every step leaves values of the right kind.                              *)
LEMMA AtRestTypeStep ==
  ASSUME AtRestInv, AtRestNext
  PROVE  AtRestTypes'
<1> USE AtRestAssumption DEF AtRestInv, AtRestTypes, AtRestTypeOK, Places, To, counts, KeyInv,
    Root, KeyFile
<1>1. ASSUME NEW p \in Opener, OpenStore(p) PROVE AtRestTypes'
  BY <1>1 DEF OpenStore, Free
<1>2. ASSUME NEW p \in Opener, ReadKey(p) PROVE AtRestTypes'
  BY <1>2 DEF ReadKey
<1>3. ASSUME NEW p \in Opener, PromotePending(p) PROVE AtRestTypes'
  BY <1>3 DEF PromotePending, RootChanges
<1>4. ASSUME NEW p \in Opener, PendingTooShort(p) PROVE AtRestTypes'
  BY <1>4 DEF PendingTooShort, StartFails
<1>5. ASSUME NEW p \in Opener, NEW k \in ContentKey, GenerateKey(p, k) PROVE AtRestTypes'
  BY <1>5 DEF GenerateKey, RootChanges
<1>6. ASSUME NEW p \in Opener, WriteKey(p) PROVE AtRestTypes'
  <2>1. \A d \in Root : Written(d, cipher[p]) \in Root
    BY <1>6, WrittenIsRoot DEF WriteKey
  <2>2. root' \in Root /\ rootDisk' \subseteq Root /\ root' \in rootDisk'
    BY <1>6, <2>1 DEF WriteKey
  <2> QED BY <1>6, <2>2 DEF WriteKey
<1>7. ASSUME NEW p \in Opener, RenameKey(p) PROVE AtRestTypes'
  BY <1>7 DEF RenameKey, RootChanges
<1>8. ASSUME NEW p \in Opener, SyncKey(p) PROVE AtRestTypes'
  BY <1>8 DEF SyncKey
<1>9. ASSUME NEW p \in Opener, MarkerFound(p) PROVE AtRestTypes'
  BY <1>9 DEF MarkerFound, Free
<1>10. ASSUME NEW p \in Opener, MarkerForeign(p) PROVE AtRestTypes'
  BY <1>10 DEF MarkerForeign, StartFails, Free
<1>11. ASSUME NEW p \in Opener, BeginSweep(p) PROVE AtRestTypes'
  BY <1>11, SweepOrder DEF BeginSweep, Free
<1>12. ASSUME NEW p \in Opener, Protect(p) PROVE AtRestTypes'
  BY <1>12, SweepOrder DEF Protect
<1>13. ASSUME NEW p \in Opener, ProtectFails(p) PROVE AtRestTypes'
  BY <1>13 DEF ProtectFails, StartFails
<1>14. ASSUME NEW p \in Opener, WriteMarker(p) PROVE AtRestTypes'
  BY <1>14 DEF WriteMarker
<1>15. ASSUME NEW p \in Opener, HandleRequest(p) PROVE AtRestTypes'
  BY <1>15 DEF HandleRequest
<1>16. ASSUME NEW p \in Opener, ProcessDies(p) PROVE AtRestTypes'
  BY <1>16 DEF ProcessDies
<1>17. ASSUME NEW f \in Managed, OldBuildWrites(f) PROVE AtRestTypes'
  BY <1>17 DEF OldBuildWrites
<1>18. ASSUME Blackout PROVE AtRestTypes'
  BY <1>18 DEF Blackout
<1>19. ASSUME LoseKeyFile PROVE AtRestTypes'
  BY <1>19 DEF LoseKeyFile
<1> QED BY <1>1, <1>2, <1>3, <1>4, <1>5, <1>6, <1>7, <1>8, <1>9, <1>10, <1>11, <1>12, <1>13, <1>14,
    <1>15, <1>16, <1>17, <1>18, <1>19 DEF AtRestNext

(* Each lock is taken only when it is free.                                 *)
LEMMA LocksStep ==
  ASSUME AtRestInv, AtRestNext
  PROVE  LocksInv'
<1> USE AtRestAssumption DEF AtRestInv, AtRestTypes, AtRestTypeOK, Places, To, counts, LocksInv,
    HoldsKeyLock
<1>1. ASSUME NEW p \in Opener, OpenStore(p) PROVE LocksInv'
  BY <1>1 DEF OpenStore, Free
<1>2. ASSUME NEW p \in Opener, ReadKey(p) PROVE LocksInv'
  BY <1>2 DEF ReadKey
<1>3. ASSUME NEW p \in Opener, PromotePending(p) PROVE LocksInv'
  BY <1>3 DEF PromotePending, RootChanges
<1>4. ASSUME NEW p \in Opener, PendingTooShort(p) PROVE LocksInv'
  BY <1>4 DEF PendingTooShort, StartFails
<1>5. ASSUME NEW p \in Opener, NEW k \in ContentKey, GenerateKey(p, k) PROVE LocksInv'
  BY <1>5 DEF GenerateKey, RootChanges
<1>6. ASSUME NEW p \in Opener, WriteKey(p) PROVE LocksInv'
  BY <1>6 DEF WriteKey, Written
<1>7. ASSUME NEW p \in Opener, RenameKey(p) PROVE LocksInv'
  BY <1>7 DEF RenameKey, RootChanges
<1>8. ASSUME NEW p \in Opener, SyncKey(p) PROVE LocksInv'
  BY <1>8 DEF SyncKey
<1>9. ASSUME NEW p \in Opener, MarkerFound(p) PROVE LocksInv'
  BY <1>9 DEF MarkerFound, Free
<1>10. ASSUME NEW p \in Opener, MarkerForeign(p) PROVE LocksInv'
  BY <1>10 DEF MarkerForeign, StartFails, Free
<1>11. ASSUME NEW p \in Opener, BeginSweep(p) PROVE LocksInv'
  BY <1>11 DEF BeginSweep, Free
<1>12. ASSUME NEW p \in Opener, Protect(p) PROVE LocksInv'
  BY <1>12 DEF Protect
<1>13. ASSUME NEW p \in Opener, ProtectFails(p) PROVE LocksInv'
  BY <1>13 DEF ProtectFails, StartFails
<1>14. ASSUME NEW p \in Opener, WriteMarker(p) PROVE LocksInv'
  BY <1>14 DEF WriteMarker
<1>15. ASSUME NEW p \in Opener, HandleRequest(p) PROVE LocksInv'
  BY <1>15 DEF HandleRequest
<1>16. ASSUME NEW p \in Opener, ProcessDies(p) PROVE LocksInv'
  BY <1>16 DEF ProcessDies
<1>17. ASSUME NEW f \in Managed, OldBuildWrites(f) PROVE LocksInv'
  BY <1>17 DEF OldBuildWrites
<1>18. ASSUME Blackout PROVE LocksInv'
  BY <1>18 DEF Blackout
<1>19. ASSUME LoseKeyFile PROVE LocksInv'
  BY <1>19 DEF LoseKeyFile
<1> QED BY <1>1, <1>2, <1>3, <1>4, <1>5, <1>6, <1>7, <1>8, <1>9, <1>10, <1>11, <1>12, <1>13, <1>14,
    <1>15, <1>16, <1>17, <1>18, <1>19 DEF AtRestNext

(* The key file changes only while nobody works with its key.               *)
LEMMA KeyStep ==
  ASSUME AtRestInv, AtRestNext
  PROVE  KeyInv'
<1> USE AtRestAssumption DEF AtRestInv, AtRestTypes, AtRestTypeOK, Places, To, counts, KeyInv,
    LocksInv, HoldsKeyLock, Root, KeyFile
<1>1. ASSUME NEW p \in Opener, OpenStore(p) PROVE KeyInv'
  BY <1>1 DEF OpenStore, Free
<1>2. ASSUME NEW p \in Opener, ReadKey(p) PROVE KeyInv'
  BY <1>2 DEF ReadKey
<1>3. ASSUME NEW p \in Opener, PromotePending(p) PROVE KeyInv'
  BY <1>3 DEF PromotePending, RootChanges
<1>4. ASSUME NEW p \in Opener, PendingTooShort(p) PROVE KeyInv'
  BY <1>4 DEF PendingTooShort, StartFails
<1>5. ASSUME NEW p \in Opener, NEW k \in ContentKey, GenerateKey(p, k) PROVE KeyInv'
  BY <1>5 DEF GenerateKey, RootChanges
<1>6. ASSUME NEW p \in Opener, WriteKey(p) PROVE KeyInv'
  <2>1. root' = [key |-> NoFile, pending |-> cipher[p]]
    BY <1>6 DEF WriteKey, Written
  <2> QED BY <1>6, <2>1 DEF WriteKey
<1>7. ASSUME NEW p \in Opener, RenameKey(p) PROVE KeyInv'
  BY <1>7 DEF RenameKey, RootChanges
<1>8. ASSUME NEW p \in Opener, SyncKey(p) PROVE KeyInv'
  BY <1>8 DEF SyncKey
<1>9. ASSUME NEW p \in Opener, MarkerFound(p) PROVE KeyInv'
  BY <1>9 DEF MarkerFound, Free
<1>10. ASSUME NEW p \in Opener, MarkerForeign(p) PROVE KeyInv'
  BY <1>10 DEF MarkerForeign, StartFails, Free
<1>11. ASSUME NEW p \in Opener, BeginSweep(p) PROVE KeyInv'
  BY <1>11 DEF BeginSweep, Free
<1>12. ASSUME NEW p \in Opener, Protect(p) PROVE KeyInv'
  BY <1>12 DEF Protect
<1>13. ASSUME NEW p \in Opener, ProtectFails(p) PROVE KeyInv'
  BY <1>13 DEF ProtectFails, StartFails
<1>14. ASSUME NEW p \in Opener, WriteMarker(p) PROVE KeyInv'
  BY <1>14 DEF WriteMarker
<1>15. ASSUME NEW p \in Opener, HandleRequest(p) PROVE KeyInv'
  BY <1>15 DEF HandleRequest
<1>16. ASSUME NEW p \in Opener, ProcessDies(p) PROVE KeyInv'
  BY <1>16 DEF ProcessDies
<1>17. ASSUME NEW f \in Managed, OldBuildWrites(f) PROVE KeyInv'
  BY <1>17 DEF OldBuildWrites
<1>18. ASSUME Blackout PROVE KeyInv'
  BY <1>18 DEF Blackout
<1>19. ASSUME LoseKeyFile PROVE KeyInv'
  BY <1>19 DEF LoseKeyFile
<1> QED BY <1>1, <1>2, <1>3, <1>4, <1>5, <1>6, <1>7, <1>8, <1>9, <1>10, <1>11, <1>12, <1>13, <1>14,
    <1>15, <1>16, <1>17, <1>18, <1>19 DEF AtRestNext

(* Nobody undoes what a sweep has done.                                     *)
LEMMA SweepStep ==
  ASSUME AtRestInv, AtRestNext
  PROVE  SweepInv'
<1> USE AtRestAssumption DEF AtRestInv, AtRestTypes, AtRestTypeOK, Places, To, counts, KeyInv,
    LocksInv, SweepInv, MarkerInv, StateFirst
<1>1. ASSUME NEW p \in Opener, OpenStore(p) PROVE SweepInv'
  BY <1>1 DEF OpenStore, Free
<1>2. ASSUME NEW p \in Opener, ReadKey(p) PROVE SweepInv'
  BY <1>2 DEF ReadKey
<1>3. ASSUME NEW p \in Opener, PromotePending(p) PROVE SweepInv'
  BY <1>3 DEF PromotePending, RootChanges
<1>4. ASSUME NEW p \in Opener, PendingTooShort(p) PROVE SweepInv'
  BY <1>4 DEF PendingTooShort, StartFails
<1>5. ASSUME NEW p \in Opener, NEW k \in ContentKey, GenerateKey(p, k) PROVE SweepInv'
  BY <1>5 DEF GenerateKey, RootChanges
<1>6. ASSUME NEW p \in Opener, WriteKey(p) PROVE SweepInv'
  BY <1>6 DEF WriteKey, Written
<1>7. ASSUME NEW p \in Opener, RenameKey(p) PROVE SweepInv'
  BY <1>7 DEF RenameKey, RootChanges
<1>8. ASSUME NEW p \in Opener, SyncKey(p) PROVE SweepInv'
  BY <1>8 DEF SyncKey
<1>9. ASSUME NEW p \in Opener, MarkerFound(p) PROVE SweepInv'
  BY <1>9 DEF MarkerFound, Free
<1>10. ASSUME NEW p \in Opener, MarkerForeign(p) PROVE SweepInv'
  BY <1>10 DEF MarkerForeign, StartFails, Free
<1>11. ASSUME NEW p \in Opener, BeginSweep(p) PROVE SweepInv'
  BY <1>11 DEF BeginSweep, Free
<1>12. ASSUME NEW p \in Opener, Protect(p) PROVE SweepInv'
  BY <1>12, SweepOrder DEF Protect
<1>13. ASSUME NEW p \in Opener, ProtectFails(p) PROVE SweepInv'
  BY <1>13 DEF ProtectFails, StartFails
<1>14. ASSUME NEW p \in Opener, WriteMarker(p) PROVE SweepInv'
  BY <1>14 DEF WriteMarker
<1>15. ASSUME NEW p \in Opener, HandleRequest(p) PROVE SweepInv'
  BY <1>15 DEF HandleRequest
<1>16. ASSUME NEW p \in Opener, ProcessDies(p) PROVE SweepInv'
  BY <1>16 DEF ProcessDies
<1>17. ASSUME NEW f \in Managed, OldBuildWrites(f) PROVE SweepInv'
  BY <1>17, SweepOrder DEF OldBuildWrites
<1>18. ASSUME Blackout PROVE SweepInv'
  BY <1>18 DEF Blackout
<1>19. ASSUME LoseKeyFile PROVE SweepInv'
  BY <1>19 DEF LoseKeyFile
<1> QED BY <1>1, <1>2, <1>3, <1>4, <1>5, <1>6, <1>7, <1>8, <1>9, <1>10, <1>11, <1>12, <1>13, <1>14,
    <1>15, <1>16, <1>17, <1>18, <1>19 DEF AtRestNext

(* Behind the marker everything is sealed with its key.                     *)
LEMMA MarkerStep ==
  ASSUME AtRestInv, AtRestNext
  PROVE  MarkerInv'
<1> USE AtRestAssumption DEF AtRestInv, AtRestTypes, AtRestTypeOK, Places, To, counts, KeyInv,
    SweepInv, MarkerInv
<1>1. ASSUME NEW p \in Opener, OpenStore(p) PROVE MarkerInv'
  BY <1>1 DEF OpenStore, Free
<1>2. ASSUME NEW p \in Opener, ReadKey(p) PROVE MarkerInv'
  BY <1>2 DEF ReadKey
<1>3. ASSUME NEW p \in Opener, PromotePending(p) PROVE MarkerInv'
  BY <1>3 DEF PromotePending, RootChanges
<1>4. ASSUME NEW p \in Opener, PendingTooShort(p) PROVE MarkerInv'
  BY <1>4 DEF PendingTooShort, StartFails
<1>5. ASSUME NEW p \in Opener, NEW k \in ContentKey, GenerateKey(p, k) PROVE MarkerInv'
  BY <1>5 DEF GenerateKey, RootChanges
<1>6. ASSUME NEW p \in Opener, WriteKey(p) PROVE MarkerInv'
  BY <1>6 DEF WriteKey, Written
<1>7. ASSUME NEW p \in Opener, RenameKey(p) PROVE MarkerInv'
  BY <1>7 DEF RenameKey, RootChanges
<1>8. ASSUME NEW p \in Opener, SyncKey(p) PROVE MarkerInv'
  BY <1>8 DEF SyncKey
<1>9. ASSUME NEW p \in Opener, MarkerFound(p) PROVE MarkerInv'
  BY <1>9 DEF MarkerFound, Free
<1>10. ASSUME NEW p \in Opener, MarkerForeign(p) PROVE MarkerInv'
  BY <1>10 DEF MarkerForeign, StartFails, Free
<1>11. ASSUME NEW p \in Opener, BeginSweep(p) PROVE MarkerInv'
  BY <1>11 DEF BeginSweep, Free
<1>12. ASSUME NEW p \in Opener, Protect(p) PROVE MarkerInv'
  BY <1>12 DEF Protect
<1>13. ASSUME NEW p \in Opener, ProtectFails(p) PROVE MarkerInv'
  BY <1>13 DEF ProtectFails, StartFails
<1>14. ASSUME NEW p \in Opener, WriteMarker(p) PROVE MarkerInv'
  BY <1>14, SweepOrder DEF WriteMarker
<1>15. ASSUME NEW p \in Opener, HandleRequest(p) PROVE MarkerInv'
  BY <1>15 DEF HandleRequest
<1>16. ASSUME NEW p \in Opener, ProcessDies(p) PROVE MarkerInv'
  BY <1>16 DEF ProcessDies
<1>17. ASSUME NEW f \in Managed, OldBuildWrites(f) PROVE MarkerInv'
  BY <1>17 DEF OldBuildWrites, Managed
<1>18. ASSUME Blackout PROVE MarkerInv'
  BY <1>18 DEF Blackout
<1>19. ASSUME LoseKeyFile PROVE MarkerInv'
  BY <1>19 DEF LoseKeyFile
<1> QED BY <1>1, <1>2, <1>3, <1>4, <1>5, <1>6, <1>7, <1>8, <1>9, <1>10, <1>11, <1>12, <1>13, <1>14,
    <1>15, <1>16, <1>17, <1>18, <1>19 DEF AtRestNext

(* The local state is sealed before anything else.                          *)
LEMMA StateFirstStep ==
  ASSUME AtRestInv, AtRestNext
  PROVE  StateFirst'
<1> USE AtRestAssumption DEF AtRestInv, AtRestTypes, AtRestTypeOK, Places, To, counts, KeyInv,
    SweepInv, MarkerInv, StateFirst
<1>1. ASSUME NEW p \in Opener, OpenStore(p) PROVE StateFirst'
  BY <1>1 DEF OpenStore, Free
<1>2. ASSUME NEW p \in Opener, ReadKey(p) PROVE StateFirst'
  BY <1>2 DEF ReadKey
<1>3. ASSUME NEW p \in Opener, PromotePending(p) PROVE StateFirst'
  BY <1>3 DEF PromotePending, RootChanges
<1>4. ASSUME NEW p \in Opener, PendingTooShort(p) PROVE StateFirst'
  BY <1>4 DEF PendingTooShort, StartFails
<1>5. ASSUME NEW p \in Opener, NEW k \in ContentKey, GenerateKey(p, k) PROVE StateFirst'
  BY <1>5 DEF GenerateKey, RootChanges
<1>6. ASSUME NEW p \in Opener, WriteKey(p) PROVE StateFirst'
  BY <1>6 DEF WriteKey, Written
<1>7. ASSUME NEW p \in Opener, RenameKey(p) PROVE StateFirst'
  BY <1>7 DEF RenameKey, RootChanges
<1>8. ASSUME NEW p \in Opener, SyncKey(p) PROVE StateFirst'
  BY <1>8 DEF SyncKey
<1>9. ASSUME NEW p \in Opener, MarkerFound(p) PROVE StateFirst'
  BY <1>9 DEF MarkerFound, Free
<1>10. ASSUME NEW p \in Opener, MarkerForeign(p) PROVE StateFirst'
  BY <1>10 DEF MarkerForeign, StartFails, Free
<1>11. ASSUME NEW p \in Opener, BeginSweep(p) PROVE StateFirst'
  BY <1>11 DEF BeginSweep, Free
<1>12. ASSUME NEW p \in Opener, Protect(p) PROVE StateFirst'
  BY <1>12, SweepOrder DEF Protect, Managed
<1>13. ASSUME NEW p \in Opener, ProtectFails(p) PROVE StateFirst'
  BY <1>13 DEF ProtectFails, StartFails
<1>14. ASSUME NEW p \in Opener, WriteMarker(p) PROVE StateFirst'
  BY <1>14 DEF WriteMarker
<1>15. ASSUME NEW p \in Opener, HandleRequest(p) PROVE StateFirst'
  BY <1>15 DEF HandleRequest, Managed
<1>16. ASSUME NEW p \in Opener, ProcessDies(p) PROVE StateFirst'
  BY <1>16 DEF ProcessDies
<1>17. ASSUME NEW f \in Managed, OldBuildWrites(f) PROVE StateFirst'
  BY <1>17 DEF OldBuildWrites, Managed
<1>18. ASSUME Blackout PROVE StateFirst'
  BY <1>18 DEF Blackout
<1>19. ASSUME LoseKeyFile PROVE StateFirst'
  BY <1>19 DEF LoseKeyFile
<1> QED BY <1>1, <1>2, <1>3, <1>4, <1>5, <1>6, <1>7, <1>8, <1>9, <1>10, <1>11, <1>12, <1>13, <1>14,
    <1>15, <1>16, <1>17, <1>18, <1>19 DEF AtRestNext

(* The key of a sealed local state is in every root a power loss may leave. *)
LEMMA DurableStep ==
  ASSUME AtRestInv, AtRestNext
  PROVE  KeyDurable'
<1> USE AtRestAssumption DEF AtRestInv, AtRestTypes, AtRestTypeOK, Places, To, counts, KeyInv,
    SweepInv, MarkerInv, StateFirst, KeyDurable, Root
<1>1. ASSUME NEW p \in Opener, OpenStore(p) PROVE KeyDurable'
  BY <1>1 DEF OpenStore, Free
<1>2. ASSUME NEW p \in Opener, ReadKey(p) PROVE KeyDurable'
  BY <1>2 DEF ReadKey
<1>3. ASSUME NEW p \in Opener, PromotePending(p) PROVE KeyDurable'
  BY <1>3 DEF PromotePending, RootChanges
<1>4. ASSUME NEW p \in Opener, PendingTooShort(p) PROVE KeyDurable'
  BY <1>4 DEF PendingTooShort, StartFails
<1>5. ASSUME NEW p \in Opener, NEW k \in ContentKey, GenerateKey(p, k) PROVE KeyDurable'
  BY <1>5 DEF GenerateKey, RootChanges
<1>6. ASSUME NEW p \in Opener, WriteKey(p) PROVE KeyDurable'
  BY <1>6 DEF WriteKey, Written
<1>7. ASSUME NEW p \in Opener, RenameKey(p) PROVE KeyDurable'
  BY <1>7 DEF RenameKey, RootChanges
<1>8. ASSUME NEW p \in Opener, SyncKey(p) PROVE KeyDurable'
  BY <1>8 DEF SyncKey
<1>9. ASSUME NEW p \in Opener, MarkerFound(p) PROVE KeyDurable'
  BY <1>9 DEF MarkerFound, Free
<1>10. ASSUME NEW p \in Opener, MarkerForeign(p) PROVE KeyDurable'
  BY <1>10 DEF MarkerForeign, StartFails, Free
<1>11. ASSUME NEW p \in Opener, BeginSweep(p) PROVE KeyDurable'
  BY <1>11 DEF BeginSweep, Free
<1>12. ASSUME NEW p \in Opener, Protect(p) PROVE KeyDurable'
  BY <1>12, SweepOrder DEF Protect, InRoot
<1>13. ASSUME NEW p \in Opener, ProtectFails(p) PROVE KeyDurable'
  BY <1>13 DEF ProtectFails, StartFails
<1>14. ASSUME NEW p \in Opener, WriteMarker(p) PROVE KeyDurable'
  BY <1>14 DEF WriteMarker
<1>15. ASSUME NEW p \in Opener, HandleRequest(p) PROVE KeyDurable'
  BY <1>15 DEF HandleRequest, InRoot, Managed
<1>16. ASSUME NEW p \in Opener, ProcessDies(p) PROVE KeyDurable'
  BY <1>16 DEF ProcessDies
<1>17. ASSUME NEW f \in Managed, OldBuildWrites(f) PROVE KeyDurable'
  BY <1>17 DEF OldBuildWrites, InRoot, Managed
<1>18. ASSUME Blackout PROVE KeyDurable'
  BY <1>18 DEF Blackout
<1>19. ASSUME LoseKeyFile PROVE KeyDurable'
  BY <1>19 DEF LoseKeyFile
<1> QED BY <1>1, <1>2, <1>3, <1>4, <1>5, <1>6, <1>7, <1>8, <1>9, <1>10, <1>11, <1>12, <1>13, <1>14,
    <1>15, <1>16, <1>17, <1>18, <1>19 DEF AtRestNext

(* Every step keeps the invariant of keys and files.                        *)
LEMMA AtRestInductive == AtRestInv /\ [AtRestNext]_atRestVars => AtRestInv'
<1> SUFFICES ASSUME AtRestInv, [AtRestNext]_atRestVars PROVE AtRestInv'
  OBVIOUS
<1>1. CASE AtRestNext
  BY <1>1, AtRestTypeStep, LocksStep, KeyStep, SweepStep, MarkerStep, StateFirstStep, DurableStep
  DEF AtRestInv
<1>2. CASE UNCHANGED atRestVars
  BY <1>2 DEF atRestVars, AtRestInv, AtRestTypes, AtRestTypeOK, LocksInv, KeyInv, SweepInv,
      MarkerInv,
     StateFirst, KeyDurable
<1> QED BY <1>1, <1>2

(* at_rest.rs and migrate_active_state_at_rest, for any number of processes,*)
(* keys, deaths and power losses: what was sealed stays readable after a    *)
(* power loss, nothing is plain behind the marker, and one key is in use.   *)
THEOREM ContentKeyIsSafe == StoreSpec => []KeySafe
<1>1. StoreInit => AtRestInv
  BY AtRestStart DEF StoreInit
<1>2. AtRestInv /\ [StoreNext]_storeVars => AtRestInv'
  BY StoreStep, AtRestInductive
<1>3. AtRestInv => KeySafe
  <2> SUFFICES ASSUME AtRestInv PROVE KeySafe
    OBVIOUS
  <2> USE AtRestAssumption DEF AtRestInv, AtRestTypes, AtRestTypeOK
  <2>1. SealedStaysReadable
    BY DEF SealedStaysReadable, KeyAfterRestart, StateFirst, KeyDurable
  <2>2. MarkerMeansProtected
    BY DEF MarkerMeansProtected, MarkerInv
  <2>3. OneKeySeals
    BY DEF OneKeySeals, StateFirst
  <2> QED BY <2>1, <2>2, <2>3 DEF KeySafe
<1> QED BY <1>1, <1>2, <1>3, PTL DEF StoreSpec

-----------------------------------------------------------------------------
(* Desktop sessions and panics.                                             *)

Kinds == {"crash", "crashAlert", "session", "outcome", "outcomeAlert"}
Record == [nth : Nat, kind : Kinds, of : Nat]
Activity == {NotRecording}
            \cup [step : {"crash", "alert", "session", "remove"}, claimed : Nat, nth : Nat]
            \cup [step : {"outcomeAlert"}, nth : Nat]

RecordTypes ==
    /\ SessionsTypeOK /\ broken \in Nat /\ begun \in Nat
    /\ recording \in [Recorder -> Activity]
    /\ reliability \in SUBSET Record /\ IsFiniteSet(reliability)
    /\ \A r \in reliability : r.nth < Cardinality(reliability)

\* One process records at a time.
RecordingInv == \A p, q \in Recorder : recording[p].step # "idle" /\ recording[q].step # "idle" => p = q

\* What a recording has claimed and already appended.
AppendedInv == \A p \in Recorder :
    /\ recording[p].step = "session" => recording[p].claimed \in {0, pendingFile}
    /\ recording[p].step \in {"alert", "remove"} => Records("crash", recording[p].claimed) # {}
    /\ recording[p].step = "session" /\ recording[p].claimed # 0 =>
          Records("crash", recording[p].claimed) # {}
    /\ recording[p].step = "outcomeAlert" => Records("outcome", recording[p].nth) # {}

\* The panic in the marker file has not been counted; the pending one has been
\* counted at most once for every broken recording, and once more by the one
\* that is in progress.
CountsPending(p) == recording[p].step \in {"alert", "session", "remove"} /\ recording[p].claimed # 0
CrashesInv ==
    /\ pendingFile # 0 => pendingFile # panicFile
    /\ \A r \in reliability : r.kind = "crash" => r.of \in 1 .. panics /\ r.of # panicFile
    /\ (\A p \in Recorder : ~CountsPending(p)) =>
          Cardinality(Records("crash", pendingFile)) <= broken

SessionsInv ==
    /\ RecordTypes /\ RecordingInv /\ AppendedInv /\ CrashesInv
    /\ PanicNotLost /\ PanicCountedOnce /\ AlertsFollowRecords

\* The records of a ledger of this kind about n.
RecordsIn(S, k, n) == {r \in S : r.kind = k /\ r.of = n}

(* The records of the ledger, with the ledger named.                        *)
LEMMA RecordsAreIn ==
  /\ \A k, n : Records(k, n) = RecordsIn(reliability, k, n)
  /\ \A k, n : Records(k, n)' = RecordsIn(reliability', k, n)
BY DEF Records, RecordsIn

\* What appending a record of this kind about n does.
Appended(k, n) ==
    /\ reliability' \subseteq Record /\ IsFiniteSet(reliability')
    /\ \A r \in reliability' : r.nth < Cardinality(reliability')
    /\ \A r \in reliability' :
          r \in reliability \/ (r.kind = k /\ r.of = n /\ \A c \in reliability : c.nth < r.nth)
    /\ reliability \subseteq reliability' /\ \E r \in reliability' : r.kind = k /\ r.of = n
    /\ \A m \in Nat : k # "crash" \/ m # n =>
          RecordsIn(reliability', "crash", m) = RecordsIn(reliability, "crash", m)
    /\ k = "crash" => Cardinality(RecordsIn(reliability', "crash", n))
                          <= Cardinality(RecordsIn(reliability, "crash", n)) + 1

(* A record is new, comes after all others, and adds one to its kind.       *)
LEMMA AppendEffect ==
  ASSUME RecordTypes
  PROVE  \A k \in Kinds, n \in Nat : AppendRecord(k, n) => Appended(k, n)
<1> SUFFICES ASSUME NEW k \in Kinds, NEW n \in Nat, AppendRecord(k, n) PROVE Appended(k, n)
  OBVIOUS
<1> DEFINE r == [nth |-> Cardinality(reliability), kind |-> k, of |-> n]
<1>1. reliability' = reliability \cup {r}
  BY DEF AppendRecord
<1>2. IsFiniteSet(reliability) /\ Cardinality(reliability) \in Nat
      /\ reliability \subseteq Record /\ \A x \in reliability : x.nth < Cardinality(reliability)
  BY FS_CardinalityType DEF RecordTypes
<1>3. r \in Record /\ r.kind = k /\ r.of = n /\ r.nth = Cardinality(reliability)
  BY <1>2 DEF Record
<1>4. r \notin reliability
  BY <1>2, <1>3 DEF Record
<1> HIDE DEF r
<1>5. IsFiniteSet(reliability') /\ Cardinality(reliability') = Cardinality(reliability) + 1
  BY <1>1, <1>2, <1>4, FS_AddElement
<1>6. \A x \in reliability' : x.nth < Cardinality(reliability')
  BY <1>1, <1>2, <1>3, <1>5 DEF Record
<1>7. k = "crash" => RecordsIn(reliability', "crash", n) = RecordsIn(reliability, "crash", n) \cup {r}
  BY <1>1, <1>3 DEF RecordsIn
<1>8. \A m \in Nat : k # "crash" \/ m # n =>
          RecordsIn(reliability', "crash", m) = RecordsIn(reliability, "crash", m)
  BY <1>1, <1>3 DEF RecordsIn
<1>9. IsFiniteSet(RecordsIn(reliability, "crash", n)) /\ Cardinality(RecordsIn(reliability, "crash", n)) \in Nat
  <2>1. RecordsIn(reliability, "crash", n) \in SUBSET reliability
    BY DEF RecordsIn
  <2> QED BY <1>2, <2>1, FS_Subset, FS_CardinalityType
<1>10. k = "crash" => Cardinality(RecordsIn(reliability', "crash", n))
                          <= Cardinality(RecordsIn(reliability, "crash", n)) + 1
  <2> DEFINE R == RecordsIn(reliability, "crash", n)
  <2> HIDE DEF R
  <2>1. Cardinality(R \cup {r}) = IF r \in R THEN Cardinality(R) ELSE Cardinality(R) + 1
    BY <1>9, FS_AddElement DEF R
  <2> QED BY <1>7, <1>9, <2>1 DEF R
<1> QED BY <1>1, <1>2, <1>3, <1>5, <1>6, <1>8, <1>10 DEF Appended

(* The steps that append.                                                   *)
LEMMA AppendSteps ==
  ASSUME SessionsInv, NEW p \in Recorder
  PROVE  /\ AppendCrash(p) => Appended("crash", recording[p].claimed)
         /\ AppendCrashAlert(p) => Appended("crashAlert", recording[p].claimed)
         /\ AppendSession(p) => Appended("session", recording[p].nth)
         /\ \A alert \in BOOLEAN : RecordOutcome(p, alert) => Appended("outcome", begun + 1)
         /\ AppendOutcomeAlert(p) => Appended("outcomeAlert", recording[p].nth)
<1>1. RecordTypes
  BY DEF SessionsInv
<1>2. recording[p] \in Activity /\ begun + 1 \in Nat /\ Kinds = {"crash", "crashAlert", "session", "outcome", "outcomeAlert"}
  BY <1>1 DEF RecordTypes, Kinds
<1>3. recording[p].step \in {"crash", "alert", "session"} => recording[p].claimed \in Nat /\ recording[p].nth \in Nat
  BY <1>2 DEF Activity, NotRecording
<1>4. recording[p].step = "outcomeAlert" => recording[p].nth \in Nat
  BY <1>2 DEF Activity, NotRecording
<1>5. AppendCrash(p) => Appended("crash", recording[p].claimed)
  BY <1>1, <1>2, <1>3, AppendEffect DEF AppendCrash
<1>6. AppendCrashAlert(p) => Appended("crashAlert", recording[p].claimed)
  BY <1>1, <1>2, <1>3, AppendEffect DEF AppendCrashAlert
<1>7. AppendSession(p) => Appended("session", recording[p].nth)
  BY <1>1, <1>2, <1>3, AppendEffect DEF AppendSession
<1>8. ASSUME NEW alert \in BOOLEAN, RecordOutcome(p, alert) PROVE Appended("outcome", begun + 1)
  BY <1>1, <1>2, <1>8, AppendEffect DEF RecordOutcome
<1>9. AppendOutcomeAlert(p) => Appended("outcomeAlert", recording[p].nth)
  BY <1>1, <1>2, <1>4, AppendEffect DEF AppendOutcomeAlert
<1> QED BY <1>5, <1>6, <1>7, <1>8, <1>9

(* The crashes of a panic can be counted; a panic that is in the marker     *)
(* file, or did not happen, has none.                                       *)
LEMMA CrashCount ==
  ASSUME SessionsInv
  PROVE  /\ \A m \in Nat : Cardinality(Records("crash", m)) \in Nat
         /\ \A m \in Nat : m = 0 \/ m = panicFile \/ m > panics => Cardinality(Records("crash", m)) = 0
         /\ UNCHANGED reliability => \A m : Records("crash", m)' = Records("crash", m)
<1>1. \A m \in Nat : Records("crash", m) \in SUBSET reliability
  BY DEF Records
<1>2. \A m \in Nat : Cardinality(Records("crash", m)) \in Nat
  BY <1>1, FS_Subset, FS_CardinalityType DEF SessionsInv, RecordTypes
<1>3. \A m \in Nat : m = 0 \/ m = panicFile \/ m > panics => Records("crash", m) = {}
  BY DEF Records, SessionsInv, RecordTypes, SessionsTypeOK, CrashesInv
<1>4. UNCHANGED reliability => \A m : Records("crash", m)' = Records("crash", m)
  BY DEF Records
<1> QED BY <1>2, <1>3, <1>4, FS_EmptySet

(* A ledger without records.                                                *)
LEMMA SessionsStart == SessionsInit => SessionsInv
<1> SUFFICES ASSUME SessionsInit PROVE SessionsInv
  OBVIOUS
<1> USE SessionsAssumption DEF SessionsInit
<1>1. \A k, n : Records(k, n) = {}
  BY DEF Records
<1>2. RecordTypes /\ RecordingInv /\ AppendedInv
  BY <1>1, FS_EmptySet DEF RecordTypes, SessionsTypeOK, Activity, NotRecording, RecordingInv,
      AppendedInv
<1>3. CrashesInv
  BY <1>1, FS_EmptySet DEF CrashesInv
<1>4. PanicNotLost /\ PanicCountedOnce /\ AlertsFollowRecords
  BY <1>1, FS_EmptySet DEF PanicNotLost, PanicCountedOnce, AlertsFollowRecords
<1> QED BY <1>2, <1>3, <1>4 DEF SessionsInv

(* Every step leaves values of the right kind, and the claimed panic is the *)
(* pending one.                                                             *)
LEMMA RecordTypeStep ==
  ASSUME SessionsInv, SessionsNext
  PROVE  RecordTypes'
<1> USE SessionsAssumption DEF SessionsInv, RecordTypes, SessionsTypeOK, Activity, Kinds, markers,
    RecordingInv, AppendedInv
<1>1. ASSUME DesktopPanics PROVE RecordTypes'
  <2>1. panics \in Nat /\ panics' = panics + 1 /\ panics' \in 0 .. MaxPanics
    BY <1>1 DEF DesktopPanics
  <2>2. {panicFile', pendingFile'} \subseteq 0 .. panics'
    BY <1>1, <2>1 DEF DesktopPanics
  <2>3. overwritten' \subseteq 1 .. panics'
    <3>1. panicFile \in 0 .. panics /\ overwritten \subseteq 1 .. panics
      OBVIOUS
    <3>2. overwritten' = overwritten \cup ({panicFile} \ {0})
      BY <1>1 DEF DesktopPanics
    <3> QED BY ONLY <2>1, <3>1, <3>2
  <2> QED BY <1>1, <2>1, <2>2, <2>3 DEF DesktopPanics
<1>2. ASSUME NEW p \in Recorder, StartSession(p) PROVE RecordTypes'
  BY <1>2 DEF StartSession, Recording, LogFree, NotRecording
<1>3. ASSUME NEW p \in Recorder, AppendCrash(p) PROVE RecordTypes'
  <2>1. Appended("crash", recording[p].claimed)
    BY <1>3, AppendSteps
  <2> QED BY <1>3, <2>1 DEF AppendCrash, Appended, Recording, NotRecording
<1>4. ASSUME NEW p \in Recorder, AppendCrashAlert(p) PROVE RecordTypes'
  <2>1. Appended("crashAlert", recording[p].claimed)
    BY <1>4, AppendSteps
  <2> QED BY <1>4, <2>1 DEF AppendCrashAlert, Appended, Recording, NotRecording
<1>5. ASSUME NEW p \in Recorder, AppendSession(p) PROVE RecordTypes'
  <2>1. Appended("session", recording[p].nth)
    BY <1>5, AppendSteps
  <2> QED BY <1>5, <2>1 DEF AppendSession, Appended, Recording, NotRecording
<1>6. ASSUME NEW p \in Recorder, RemoveMarker(p) PROVE RecordTypes'
  BY <1>6 DEF RemoveMarker, Recording, NotRecording
<1>7. ASSUME NEW p \in Recorder, EndSession(p) PROVE RecordTypes'
  BY <1>7 DEF EndSession, Recording, LogFree, NotRecording
<1>8. ASSUME NEW p \in Recorder, NEW alert \in BOOLEAN, RecordOutcome(p, alert) PROVE RecordTypes'
  <2>1. Appended("outcome", begun + 1)
    BY <1>8, AppendSteps
  <2> QED BY <1>8, <2>1 DEF RecordOutcome, Appended, Recording, LogFree, NotRecording
<1>9. ASSUME NEW p \in Recorder, AppendOutcomeAlert(p) PROVE RecordTypes'
  <2>1. Appended("outcomeAlert", recording[p].nth)
    BY <1>9, AppendSteps
  <2> QED BY <1>9, <2>1 DEF AppendOutcomeAlert, Appended, Recording, NotRecording
<1>10. ASSUME NEW p \in Recorder, RecordingBreaks(p) PROVE RecordTypes'
  BY <1>10 DEF RecordingBreaks, Recording, NotRecording
<1> QED BY <1>1, <1>2, <1>3, <1>4, <1>5, <1>6, <1>7, <1>8, <1>9, <1>10 DEF SessionsNext

(* A recording begins only while the ledger is free.                        *)
LEMMA RecordingStep ==
  ASSUME SessionsInv, SessionsNext
  PROVE  RecordingInv'
<1> USE SessionsAssumption DEF SessionsInv, RecordTypes, SessionsTypeOK, Activity, Kinds, markers,
    RecordingInv
<1>1. ASSUME DesktopPanics PROVE RecordingInv'
  BY <1>1 DEF DesktopPanics
<1>2. ASSUME NEW p \in Recorder, StartSession(p) PROVE RecordingInv'
  BY <1>2 DEF StartSession, Recording, LogFree, NotRecording
<1>3. ASSUME NEW p \in Recorder, AppendCrash(p) PROVE RecordingInv'
  BY <1>3 DEF AppendCrash, Recording, NotRecording
<1>4. ASSUME NEW p \in Recorder, AppendCrashAlert(p) PROVE RecordingInv'
  BY <1>4 DEF AppendCrashAlert, Recording, NotRecording
<1>5. ASSUME NEW p \in Recorder, AppendSession(p) PROVE RecordingInv'
  BY <1>5 DEF AppendSession, Recording, NotRecording
<1>6. ASSUME NEW p \in Recorder, RemoveMarker(p) PROVE RecordingInv'
  BY <1>6 DEF RemoveMarker, Recording, NotRecording
<1>7. ASSUME NEW p \in Recorder, EndSession(p) PROVE RecordingInv'
  BY <1>7 DEF EndSession, Recording, LogFree, NotRecording
<1>8. ASSUME NEW p \in Recorder, NEW alert \in BOOLEAN, RecordOutcome(p, alert) PROVE RecordingInv'
  BY <1>8 DEF RecordOutcome, Recording, LogFree, NotRecording
<1>9. ASSUME NEW p \in Recorder, AppendOutcomeAlert(p) PROVE RecordingInv'
  BY <1>9 DEF AppendOutcomeAlert, Recording, NotRecording
<1>10. ASSUME NEW p \in Recorder, RecordingBreaks(p) PROVE RecordingInv'
  BY <1>10 DEF RecordingBreaks, Recording, NotRecording
<1> QED BY <1>1, <1>2, <1>3, <1>4, <1>5, <1>6, <1>7, <1>8, <1>9, <1>10 DEF SessionsNext

(* What was appended stays.                                                 *)
LEMMA AppendedStep ==
  ASSUME SessionsInv, SessionsNext
  PROVE  AppendedInv'
<1> USE SessionsAssumption DEF SessionsInv, RecordTypes, SessionsTypeOK, Activity, Kinds, markers,
    RecordingInv, AppendedInv, Records
<1>1. ASSUME DesktopPanics PROVE AppendedInv'
  BY <1>1 DEF DesktopPanics
<1>2. ASSUME NEW p \in Recorder, StartSession(p) PROVE AppendedInv'
  BY <1>2 DEF StartSession, Recording, LogFree, NotRecording
<1>3. ASSUME NEW p \in Recorder, AppendCrash(p) PROVE AppendedInv'
  <2>1. Appended("crash", recording[p].claimed)
    BY <1>3, AppendSteps
  <2> QED BY <1>3, <2>1 DEF AppendCrash, Appended, Recording, NotRecording
<1>4. ASSUME NEW p \in Recorder, AppendCrashAlert(p) PROVE AppendedInv'
  <2>1. Appended("crashAlert", recording[p].claimed)
    BY <1>4, AppendSteps
  <2> QED BY <1>4, <2>1 DEF AppendCrashAlert, Appended, Recording, NotRecording
<1>5. ASSUME NEW p \in Recorder, AppendSession(p) PROVE AppendedInv'
  <2>1. Appended("session", recording[p].nth)
    BY <1>5, AppendSteps
  <2> QED BY <1>5, <2>1 DEF AppendSession, Appended, Recording, NotRecording
<1>6. ASSUME NEW p \in Recorder, RemoveMarker(p) PROVE AppendedInv'
  BY <1>6 DEF RemoveMarker, Recording, NotRecording
<1>7. ASSUME NEW p \in Recorder, EndSession(p) PROVE AppendedInv'
  BY <1>7 DEF EndSession, Recording, LogFree, NotRecording
<1>8. ASSUME NEW p \in Recorder, NEW alert \in BOOLEAN, RecordOutcome(p, alert) PROVE AppendedInv'
  <2>1. Appended("outcome", begun + 1)
    BY <1>8, AppendSteps
  <2>2. CASE alert
    BY <1>8, <2>1, <2>2 DEF RecordOutcome, Appended, Recording, LogFree, NotRecording
  <2>3. CASE ~alert
    BY <1>8, <2>1, <2>3 DEF RecordOutcome, Appended, Recording, LogFree, NotRecording
  <2> QED BY <2>2, <2>3
<1>9. ASSUME NEW p \in Recorder, AppendOutcomeAlert(p) PROVE AppendedInv'
  <2>1. Appended("outcomeAlert", recording[p].nth)
    BY <1>9, AppendSteps
  <2> QED BY <1>9, <2>1 DEF AppendOutcomeAlert, Appended, Recording, NotRecording
<1>10. ASSUME NEW p \in Recorder, RecordingBreaks(p) PROVE AppendedInv'
  BY <1>10 DEF RecordingBreaks, Recording, NotRecording
<1> QED BY <1>1, <1>2, <1>3, <1>4, <1>5, <1>6, <1>7, <1>8, <1>9, <1>10 DEF SessionsNext

(* A panic is counted while it is pending.                                  *)
LEMMA CrashesStep ==
  ASSUME SessionsInv, SessionsNext
  PROVE  CrashesInv'
<1> USE SessionsAssumption DEF SessionsInv, RecordTypes, SessionsTypeOK, Activity, Kinds, markers,
    RecordingInv, AppendedInv, CrashesInv, CountsPending
<1>1. ASSUME DesktopPanics PROVE CrashesInv'
  BY <1>1, CrashCount DEF DesktopPanics
<1>2. ASSUME NEW p \in Recorder, StartSession(p) PROVE CrashesInv'
  BY <1>2, CrashCount DEF StartSession, Recording, LogFree, NotRecording
<1>3. ASSUME NEW p \in Recorder, AppendCrash(p) PROVE CrashesInv'
  <2>1. Appended("crash", recording[p].claimed)
    BY <1>3, AppendSteps
  <2> QED BY <1>3, <2>1 DEF AppendCrash, Appended, Recording, NotRecording
<1>4. ASSUME NEW p \in Recorder, AppendCrashAlert(p) PROVE CrashesInv'
  <2>1. Appended("crashAlert", recording[p].claimed)
    BY <1>4, AppendSteps
  <2>2. \A m \in Nat : Records("crash", m)' = Records("crash", m)
    BY <2>1, RecordsAreIn DEF Appended
  <2> QED BY <1>4, <2>1, <2>2, CrashCount DEF AppendCrashAlert, Appended, Recording, NotRecording
<1>5. ASSUME NEW p \in Recorder, AppendSession(p) PROVE CrashesInv'
  <2>1. Appended("session", recording[p].nth)
    BY <1>5, AppendSteps
  <2>2. \A m \in Nat : Records("crash", m)' = Records("crash", m)
    BY <2>1, RecordsAreIn DEF Appended
  <2> QED BY <1>5, <2>1, <2>2, CrashCount DEF AppendSession, Appended, Recording, NotRecording
<1>6. ASSUME NEW p \in Recorder, RemoveMarker(p) PROVE CrashesInv'
  BY <1>6, CrashCount DEF RemoveMarker, Recording, NotRecording
<1>7. ASSUME NEW p \in Recorder, EndSession(p) PROVE CrashesInv'
  BY <1>7, CrashCount DEF EndSession, Recording, LogFree, NotRecording
<1>8. ASSUME NEW p \in Recorder, NEW alert \in BOOLEAN, RecordOutcome(p, alert) PROVE CrashesInv'
  <2>1. Appended("outcome", begun + 1)
    BY <1>8, AppendSteps
  <2>2. \A m \in Nat : Records("crash", m)' = Records("crash", m)
    BY <2>1, RecordsAreIn DEF Appended
  <2> QED BY <1>8, <2>1, <2>2, CrashCount DEF RecordOutcome, Appended, Recording, LogFree,
      NotRecording
<1>9. ASSUME NEW p \in Recorder, AppendOutcomeAlert(p) PROVE CrashesInv'
  <2>1. Appended("outcomeAlert", recording[p].nth)
    BY <1>9, AppendSteps
  <2>2. \A m \in Nat : Records("crash", m)' = Records("crash", m)
    BY <2>1, RecordsAreIn DEF Appended
  <2> QED BY <1>9, <2>1, <2>2, CrashCount DEF AppendOutcomeAlert, Appended, Recording, NotRecording
<1>10. ASSUME NEW p \in Recorder, RecordingBreaks(p) PROVE CrashesInv'
  <2>1. Records("crash", pendingFile)' = Records("crash", pendingFile) /\ broken' = broken + 1
        /\ UNCHANGED <<panics, panicFile, pendingFile, reliability>>
    BY <1>10, CrashCount DEF RecordingBreaks
  <2>2. Cardinality(Records("crash", pendingFile)) <= 1 + broken
    BY CrashCount DEF PanicCountedOnce
  <2> QED BY <2>1, <2>2
<1> QED BY <1>1, <1>2, <1>3, <1>4, <1>5, <1>6, <1>7, <1>8, <1>9, <1>10 DEF SessionsNext

(* A marker is removed after its crash was appended.                        *)
LEMMA NotLostPanicStep ==
  ASSUME SessionsInv, SessionsNext
  PROVE  PanicNotLost'
<1> USE SessionsAssumption DEF SessionsInv, RecordTypes, SessionsTypeOK, Activity, Kinds, markers,
    RecordingInv, AppendedInv, PanicNotLost, Records
<1>1. ASSUME DesktopPanics PROVE PanicNotLost'
  BY <1>1 DEF DesktopPanics
<1>2. ASSUME NEW p \in Recorder, StartSession(p) PROVE PanicNotLost'
  BY <1>2 DEF StartSession, Recording, LogFree, NotRecording
<1>3. ASSUME NEW p \in Recorder, AppendCrash(p) PROVE PanicNotLost'
  <2>1. Appended("crash", recording[p].claimed)
    BY <1>3, AppendSteps
  <2> QED BY <1>3, <2>1 DEF AppendCrash, Appended, Recording, NotRecording
<1>4. ASSUME NEW p \in Recorder, AppendCrashAlert(p) PROVE PanicNotLost'
  <2>1. Appended("crashAlert", recording[p].claimed)
    BY <1>4, AppendSteps
  <2> QED BY <1>4, <2>1 DEF AppendCrashAlert, Appended, Recording, NotRecording
<1>5. ASSUME NEW p \in Recorder, AppendSession(p) PROVE PanicNotLost'
  <2>1. Appended("session", recording[p].nth)
    BY <1>5, AppendSteps
  <2> QED BY <1>5, <2>1 DEF AppendSession, Appended, Recording, NotRecording
<1>6. ASSUME NEW p \in Recorder, RemoveMarker(p) PROVE PanicNotLost'
  BY <1>6 DEF RemoveMarker, Recording, NotRecording
<1>7. ASSUME NEW p \in Recorder, EndSession(p) PROVE PanicNotLost'
  BY <1>7 DEF EndSession, Recording, LogFree, NotRecording
<1>8. ASSUME NEW p \in Recorder, NEW alert \in BOOLEAN, RecordOutcome(p, alert) PROVE PanicNotLost'
  <2>1. Appended("outcome", begun + 1)
    BY <1>8, AppendSteps
  <2> QED BY <1>8, <2>1 DEF RecordOutcome, Appended, Recording, LogFree, NotRecording
<1>9. ASSUME NEW p \in Recorder, AppendOutcomeAlert(p) PROVE PanicNotLost'
  <2>1. Appended("outcomeAlert", recording[p].nth)
    BY <1>9, AppendSteps
  <2> QED BY <1>9, <2>1 DEF AppendOutcomeAlert, Appended, Recording, NotRecording
<1>10. ASSUME NEW p \in Recorder, RecordingBreaks(p) PROVE PanicNotLost'
  BY <1>10 DEF RecordingBreaks, Recording, NotRecording
<1> QED BY <1>1, <1>2, <1>3, <1>4, <1>5, <1>6, <1>7, <1>8, <1>9, <1>10 DEF SessionsNext

(* Only a break after the append lets a panic be counted again.             *)
LEMMA CountedStep ==
  ASSUME SessionsInv, SessionsNext
  PROVE  PanicCountedOnce'
<1> USE SessionsAssumption DEF SessionsInv, RecordTypes, SessionsTypeOK, Activity, Kinds, markers,
    RecordingInv, AppendedInv, CrashesInv, CountsPending, PanicCountedOnce
<1>1. ASSUME DesktopPanics PROVE PanicCountedOnce'
  BY <1>1, CrashCount DEF DesktopPanics
<1>2. ASSUME NEW p \in Recorder, StartSession(p) PROVE PanicCountedOnce'
  BY <1>2, CrashCount DEF StartSession, Recording, LogFree, NotRecording
<1>3. ASSUME NEW p \in Recorder, AppendCrash(p) PROVE PanicCountedOnce'
  <2>1. Appended("crash", recording[p].claimed)
    BY <1>3, AppendSteps
  <2>2. \A q \in Recorder : ~CountsPending(q)
    BY <1>3 DEF AppendCrash
  <2>3. recording[p].claimed = pendingFile /\ pendingFile \in Nat /\ UNCHANGED <<panics, broken>>
    BY <1>3 DEF AppendCrash
  <2>4. Cardinality(RecordsIn(reliability, "crash", pendingFile)) <= broken
        /\ Cardinality(RecordsIn(reliability, "crash", pendingFile)) \in Nat
    BY <2>2, <2>3, CrashCount, RecordsAreIn
  <2>5. ASSUME NEW m \in 1 .. panics
        PROVE  Cardinality(RecordsIn(reliability', "crash", m)) <= 1 + broken
    <3>1. CASE m = pendingFile
      <4>1. Cardinality(RecordsIn(reliability', "crash", recording[p].claimed))
                <= Cardinality(RecordsIn(reliability, "crash", recording[p].claimed)) + 1
        BY ONLY <2>1 DEF Appended
      <4>2. Cardinality(RecordsIn(reliability', "crash", m)) \in Nat
        <5>1. RecordsIn(reliability', "crash", m) \in SUBSET reliability' /\ IsFiniteSet(reliability')
          BY <2>1 DEF Appended, RecordsIn
        <5> QED BY ONLY <5>1, FS_Subset, FS_CardinalityType
      <4>3. broken \in Nat
        OBVIOUS
      <4> QED BY ONLY <2>3, <2>4, <3>1, <4>1, <4>2, <4>3
    <3>2. CASE m # pendingFile
      <4>1. Cardinality(Records("crash", m)) <= 1 + broken
        OBVIOUS
      <4> QED BY <2>1, <2>3, <3>2, <4>1, RecordsAreIn DEF Appended
    <3> QED BY <3>1, <3>2
  <2> QED BY <2>3, <2>5, RecordsAreIn
<1>4. ASSUME NEW p \in Recorder, AppendCrashAlert(p) PROVE PanicCountedOnce'
  <2>1. Appended("crashAlert", recording[p].claimed)
    BY <1>4, AppendSteps
  <2>2. \A m \in Nat : Records("crash", m)' = Records("crash", m)
    BY <2>1, RecordsAreIn DEF Appended
  <2> QED BY <1>4, <2>1, <2>2, CrashCount DEF AppendCrashAlert, Appended, Recording, NotRecording
<1>5. ASSUME NEW p \in Recorder, AppendSession(p) PROVE PanicCountedOnce'
  <2>1. Appended("session", recording[p].nth)
    BY <1>5, AppendSteps
  <2>2. \A m \in Nat : Records("crash", m)' = Records("crash", m)
    BY <2>1, RecordsAreIn DEF Appended
  <2> QED BY <1>5, <2>1, <2>2, CrashCount DEF AppendSession, Appended, Recording, NotRecording
<1>6. ASSUME NEW p \in Recorder, RemoveMarker(p) PROVE PanicCountedOnce'
  BY <1>6, CrashCount DEF RemoveMarker, Recording, NotRecording
<1>7. ASSUME NEW p \in Recorder, EndSession(p) PROVE PanicCountedOnce'
  BY <1>7, CrashCount DEF EndSession, Recording, LogFree, NotRecording
<1>8. ASSUME NEW p \in Recorder, NEW alert \in BOOLEAN, RecordOutcome(p, alert)
      PROVE PanicCountedOnce'
  <2>1. Appended("outcome", begun + 1)
    BY <1>8, AppendSteps
  <2>2. \A m \in Nat : Records("crash", m)' = Records("crash", m)
    BY <2>1, RecordsAreIn DEF Appended
  <2> QED BY <1>8, <2>1, <2>2, CrashCount DEF RecordOutcome, Appended, Recording, LogFree,
      NotRecording
<1>9. ASSUME NEW p \in Recorder, AppendOutcomeAlert(p) PROVE PanicCountedOnce'
  <2>1. Appended("outcomeAlert", recording[p].nth)
    BY <1>9, AppendSteps
  <2>2. \A m \in Nat : Records("crash", m)' = Records("crash", m)
    BY <2>1, RecordsAreIn DEF Appended
  <2> QED BY <1>9, <2>1, <2>2, CrashCount DEF AppendOutcomeAlert, Appended, Recording, NotRecording
<1>10. ASSUME NEW p \in Recorder, RecordingBreaks(p) PROVE PanicCountedOnce'
  BY <1>10, CrashCount DEF RecordingBreaks, Recording, NotRecording
<1> QED BY <1>1, <1>2, <1>3, <1>4, <1>5, <1>6, <1>7, <1>8, <1>9, <1>10 DEF SessionsNext

(* An alert comes after what it is about.                                   *)
LEMMA AlertsStep ==
  ASSUME SessionsInv, SessionsNext
  PROVE  AlertsFollowRecords'
<1> USE SessionsAssumption DEF SessionsInv, RecordTypes, SessionsTypeOK, Activity, Kinds, markers,
    RecordingInv, AppendedInv, AlertsFollowRecords, Records
<1>1. ASSUME DesktopPanics PROVE AlertsFollowRecords'
  BY <1>1 DEF DesktopPanics
<1>2. ASSUME NEW p \in Recorder, StartSession(p) PROVE AlertsFollowRecords'
  BY <1>2 DEF StartSession, Recording, LogFree, NotRecording
<1>3. ASSUME NEW p \in Recorder, AppendCrash(p) PROVE AlertsFollowRecords'
  <2>1. Appended("crash", recording[p].claimed)
    BY <1>3, AppendSteps
  <2> QED BY <1>3, <2>1 DEF AppendCrash, Appended, Recording, NotRecording
<1>4. ASSUME NEW p \in Recorder, AppendCrashAlert(p) PROVE AlertsFollowRecords'
  <2>1. Appended("crashAlert", recording[p].claimed)
    BY <1>4, AppendSteps
  <2> QED BY <1>4, <2>1 DEF AppendCrashAlert, Appended, Recording, NotRecording
<1>5. ASSUME NEW p \in Recorder, AppendSession(p) PROVE AlertsFollowRecords'
  <2>1. Appended("session", recording[p].nth)
    BY <1>5, AppendSteps
  <2> QED BY <1>5, <2>1 DEF AppendSession, Appended, Recording, NotRecording
<1>6. ASSUME NEW p \in Recorder, RemoveMarker(p) PROVE AlertsFollowRecords'
  BY <1>6 DEF RemoveMarker, Recording, NotRecording
<1>7. ASSUME NEW p \in Recorder, EndSession(p) PROVE AlertsFollowRecords'
  BY <1>7 DEF EndSession, Recording, LogFree, NotRecording
<1>8. ASSUME NEW p \in Recorder, NEW alert \in BOOLEAN, RecordOutcome(p, alert)
      PROVE AlertsFollowRecords'
  <2>1. Appended("outcome", begun + 1)
    BY <1>8, AppendSteps
  <2> QED BY <1>8, <2>1 DEF RecordOutcome, Appended, Recording, LogFree, NotRecording
<1>9. ASSUME NEW p \in Recorder, AppendOutcomeAlert(p) PROVE AlertsFollowRecords'
  <2>1. Appended("outcomeAlert", recording[p].nth)
    BY <1>9, AppendSteps
  <2> QED BY <1>9, <2>1 DEF AppendOutcomeAlert, Appended, Recording, NotRecording
<1>10. ASSUME NEW p \in Recorder, RecordingBreaks(p) PROVE AlertsFollowRecords'
  BY <1>10 DEF RecordingBreaks, Recording, NotRecording
<1> QED BY <1>1, <1>2, <1>3, <1>4, <1>5, <1>6, <1>7, <1>8, <1>9, <1>10 DEF SessionsNext

(* Every step keeps the invariant of the session marks.                     *)
LEMMA SessionsInductive == SessionsInv /\ [SessionsNext]_sessionVars => SessionsInv'
<1> SUFFICES ASSUME SessionsInv, [SessionsNext]_sessionVars PROVE SessionsInv'
  OBVIOUS
<1>1. CASE SessionsNext
  BY <1>1, RecordTypeStep, RecordingStep, AppendedStep, CrashesStep, NotLostPanicStep, CountedStep,
     AlertsStep DEF SessionsInv
<1>2. CASE UNCHANGED sessionVars
  <2> USE <1>2 DEF sessionVars, SessionsInv, Records
  <2>1. RecordTypes' /\ RecordingInv' /\ AppendedInv'
    BY DEF RecordTypes, SessionsTypeOK, RecordingInv, AppendedInv
  <2>2. CrashesInv'
    BY DEF CrashesInv, CountsPending
  <2>3. PanicNotLost' /\ PanicCountedOnce' /\ AlertsFollowRecords'
    BY DEF PanicNotLost, PanicCountedOnce, AlertsFollowRecords
  <2> QED BY <2>1, <2>2, <2>3
<1> QED BY <1>1, <1>2

(* record_desktop_session_with_panic_marker and claim_native_panic_marker,  *)
(* for any number of panics, sessions and broken recordings: every panic is *)
(* counted, not more often than broken recordings explain, and an alert     *)
(* follows what it is about.                                                *)
THEOREM PanicsAreCounted == StoreSpec => []SessionsSound
<1>1. StoreInit => SessionsInv
  BY SessionsStart DEF StoreInit
<1>2. SessionsInv /\ [StoreNext]_storeVars => SessionsInv'
  BY StoreStep, SessionsInductive
<1>3. SessionsInv => SessionsSound
  BY DEF SessionsInv, RecordTypes, SessionsSound
<1> QED BY <1>1, <1>2, <1>3, PTL DEF StoreSpec

-----------------------------------------------------------------------------
(* Backups and imports.                                                     *)

Saved == [folder : Folder, time : 0 .. MaxTime, serial : Nat, by : Owner, events : 1 .. MaxEvents]
Request ==
    [step : {"idle", "enabled", "point"}]
    \cup [step : {"saveSchedule", "prune"}, time : 0 .. MaxTime, folder : Folder]
    \cup [step : {"restore", "saveState"}, backup : Histories]

BackupTypes ==
    /\ BackupTypeOK /\ request \in [Keeper -> Request]
    /\ saved \subseteq Saved /\ IsFiniteSet(saved)
    /\ serial \in Nat /\ stops \in Nat

\* No two backups have the same name.
SerialsInv == \A a, b \in saved : a.serial = b.serial => a = b

\* A run exports its backup before it saves the schedule.
RunInv == \A p \in Keeper : Is(p, "saveSchedule") =>
    \E b \in saved : b.folder = request[p].folder /\ b.time = request[p].time

\* An import goes on only where it may, and saves the local state after the
\* history.
ImportInv == \A p \in Keeper :
    /\ Is(p, "restore") \/ Is(p, "saveState") => MayImport(request[p].backup)
    /\ Is(p, "saveState") => log = request[p].backup
    /\ Is(p, "point") => access # Nothing

\* Only the folder of the run in progress may hold one backup more.
BackupsIn(S, f) == {b \in S : b.folder = f}
Running(f) == \E p \in Keeper : request[p].step \in {"saveSchedule", "prune"} /\ request[p].folder = f
FolderInv == \A f \in Folder :
    /\ Cardinality(BackupsIn(saved, f)) <= Retain + stops + 1
    /\ ~Running(f) => Cardinality(BackupsIn(saved, f)) <= Retain + stops

BackupInv ==
    /\ BackupTypes /\ SerialsInv /\ RunInv /\ ImportInv /\ FolderInv
    /\ AccessHasHistory /\ LastBackupKept

(* Of some backups one is the first and, as names are bounded, one is the   *)
(* last.                                                                    *)
LEMMA FirstBackup ==
  ASSUME NEW T \in SUBSET Saved, T # {}
  PROVE  \E x \in T : \A y \in T : ~Sooner(y, x)
<1> DEFINE times == {b.time : b \in T}
<1>1. times \in SUBSET Nat /\ times # {} /\ \A b \in T : b.time \in Nat /\ b.serial \in Nat
  BY BackupAssumption DEF Saved
<1>2. PICK t \in times : \A k \in times : t <= k
  BY <1>1, Least
<1> DEFINE serials == {b.serial : b \in {c \in T : c.time = t}}
<1>3. serials \in SUBSET Nat /\ serials # {}
  BY <1>1, <1>2
<1>4. PICK n \in serials : \A k \in serials : n <= k
  BY <1>3, Least
<1>5. PICK x \in T : x.time = t /\ x.serial = n
  BY <1>4
<1>6. \A y \in T : t <= y.time /\ (y.time = t => n <= y.serial)
  BY <1>2, <1>4
<1> QED BY <1>1, <1>5, <1>6 DEF Sooner

(* A set of backups that is not empty has a last one in pruning order.      *)
LEMMA LastBackup ==
  ASSUME NEW T \in SUBSET Saved, T # {}, NEW N \in Nat, \A b \in T : b.serial <= N
  PROVE  \E x \in T : \A y \in T : ~Sooner(x, y)
<1> DEFINE times == {MaxTime - b.time : b \in T}
<1>1. times \in SUBSET Nat /\ times # {} /\ \A b \in T : b.time \in Nat /\ b.serial \in Nat
  BY BackupAssumption DEF Saved
<1>2. PICK t \in times : \A k \in times : t <= k
  BY <1>1, Least
<1> DEFINE serials == {N - b.serial : b \in {c \in T : MaxTime - c.time = t}}
<1>3. serials \in SUBSET Nat /\ serials # {}
  BY <1>1, <1>2
<1>4. PICK n \in serials : \A k \in serials : n <= k
  BY <1>3, Least
<1>5. PICK x \in T : MaxTime - x.time = t /\ N - x.serial = n
  BY <1>4
<1>6. \A y \in T : t <= MaxTime - y.time /\ (MaxTime - y.time = t => n <= N - y.serial)
  BY <1>2, <1>4
<1> QED BY <1>1, <1>5, <1>6, BackupAssumption DEF Sooner

\* The backups of a folder that come after this one.
After(S, b) == {c \in S : Sooner(b, c)}

(* Pruning keeps no more than the retained backups ...                      *)
LEMMA PrunedFew ==
  ASSUME NEW S \in SUBSET Saved, IsFiniteSet(S), \A a, b \in S : a.serial = b.serial => a = b
  PROVE  /\ Pruned(S) \in SUBSET S /\ IsFiniteSet(Pruned(S))
         /\ Cardinality(Pruned(S)) \in Nat /\ Cardinality(Pruned(S)) <= Retain
<1>1. Pruned(S) \in SUBSET S
  BY DEF Pruned
<1>2. IsFiniteSet(Pruned(S)) /\ Cardinality(Pruned(S)) \in Nat
  BY <1>1, FS_Subset, FS_CardinalityType
<1>3. CASE Pruned(S) = {}
  BY <1>3, FS_EmptySet, BackupAssumption
<1>4. CASE Pruned(S) # {}
  <2>1. PICK y \in Pruned(S) : \A z \in Pruned(S) : ~Sooner(z, y)
    BY <1>1, <1>4, FirstBackup
  <2>2. \A z \in Pruned(S) : z = y \/ Sooner(y, z)
    BY <1>1, <2>1, BackupAssumption DEF Sooner, Saved
  <2>3. Pruned(S) \ {y} \in SUBSET After(S, y)
    BY <1>1, <2>2 DEF After
  <2>4. IsFiniteSet(After(S, y)) /\ Cardinality(After(S, y)) \in Nat
    <3>1. After(S, y) \in SUBSET S
      BY DEF After
    <3> QED BY <3>1, FS_Subset, FS_CardinalityType
  <2>5. Cardinality(After(S, y)) < Retain
    BY <2>1 DEF Pruned, After
  <2>6. Cardinality(Pruned(S) \ {y}) <= Cardinality(After(S, y))
    BY <2>3, <2>4, FS_Subset
  <2>7. Cardinality(Pruned(S) \ {y}) = Cardinality(Pruned(S)) - 1
    BY <1>2, <2>1, FS_RemoveElement
  <2> QED BY <1>1, <1>2, <2>4, <2>5, <2>6, <2>7, BackupAssumption
<1> QED BY <1>1, <1>2, <1>3, <1>4

\* A backup of this time is there, or enough later ones are.
Kept(S, t) ==
    \/ \E b \in S : b.time = t
    \/ Cardinality({b \in S : b.time > t}) >= Retain

(* ... and they are the last ones: a backup gives way only to later ones.   *)
LEMMA PrunedKeeps ==
  ASSUME NEW S \in SUBSET Saved, IsFiniteSet(S), NEW N \in Nat, \A b \in S : b.serial <= N,
         NEW t \in Nat, Kept(S, t)
  PROVE  Kept(Pruned(S), t)
<1> DEFINE L == {b \in S : b.time > t}
           K == {b \in Pruned(S) : b.time > t}
<1>1. Pruned(S) \in SUBSET S
  BY DEF Pruned
<1>2. ASSUME NEW T \in SUBSET S
      PROVE  IsFiniteSet(T) /\ Cardinality(T) \in Nat /\ T \in SUBSET Saved
  BY <1>2, FS_Subset, FS_CardinalityType
<1>3. \A b \in S : b.time \in Nat /\ b.serial \in Nat
  BY BackupAssumption DEF Saved
<1>4. ASSUME NEW x \in S, x \notin Pruned(S)
      PROVE  Cardinality(After(S, x)) >= Retain
  <2>1. ~(Cardinality(After(S, x)) < Retain)
    BY <1>4 DEF Pruned, After
  <2>2. Cardinality(After(S, x)) \in Nat
    BY <1>2 DEF After
  <2> QED BY <2>1, <2>2, BackupAssumption
<1>5. (\E b \in Pruned(S) : b.time = t) \/ Cardinality(L) >= Retain
  <2> SUFFICES ASSUME ~(Cardinality(L) >= Retain) PROVE \E b \in Pruned(S) : b.time = t
    OBVIOUS
  <2> DEFINE T == {b \in S : b.time = t}
  <2>1. T # {} /\ T \in SUBSET S /\ T \in SUBSET Saved
    BY DEF Kept
  <2>2. PICK x \in T : \A y \in T : ~Sooner(x, y)
    BY <2>1, LastBackup
  <2>3. CASE x \in Pruned(S)
    BY <2>3
  <2>4. CASE x \notin Pruned(S)
    <3>1. After(S, x) \in SUBSET L
      BY <1>3, <2>2 DEF After, Sooner
    <3>2. Cardinality(After(S, x)) <= Cardinality(L) /\ Cardinality(L) \in Nat
          /\ Cardinality(After(S, x)) \in Nat
      BY <1>2, <3>1, FS_Subset DEF After
    <3> QED BY <1>4, <2>4, <3>2, BackupAssumption
  <2> QED BY <2>3, <2>4
<1>6. Cardinality(L) >= Retain => Cardinality(K) >= Retain
  <2>1. CASE L \in SUBSET Pruned(S)
    <3>1. L = K
      BY <1>1, <2>1
    <3> QED BY <3>1
  <2>2. CASE L \notin SUBSET Pruned(S)
    <3> DEFINE T == L \ Pruned(S)
    <3>1. T # {} /\ T \in SUBSET Saved /\ \A b \in T : b.serial <= N
      BY <2>2
    <3>2. PICK x \in T : \A y \in T : ~Sooner(x, y)
      BY <3>1, LastBackup
    <3>3. After(S, x) \in SUBSET K
      BY <1>3, <3>2 DEF After, Sooner
    <3>4. Cardinality(After(S, x)) <= Cardinality(K) /\ Cardinality(K) \in Nat
          /\ Cardinality(After(S, x)) \in Nat
      BY <1>1, <1>2, <3>3, FS_Subset DEF After
    <3> QED BY <1>4, <3>2, <3>4, BackupAssumption
  <2> QED BY <2>1, <2>2
<1> QED BY <1>5, <1>6 DEF Kept

(* What the steps that change the saved backups do to them.                 *)
\* A run adds a backup to the folder of the schedule.
Exported(p) ==
    \E r \in Saved :
        /\ r.folder = schedule.folder /\ r.time = now /\ r.serial = serial + 1
        /\ r \notin saved /\ saved' = saved \cup {r}

\* A run leaves the pruned backups of its folder and all others.
WasPruned(p) ==
    /\ saved' \in SUBSET saved
    /\ BackupsIn(saved', request[p].folder) = Pruned(BackupsIn(saved, request[p].folder))
    /\ \A f \in Folder : f # request[p].folder => BackupsIn(saved', f) = BackupsIn(saved, f)

(* What an export leaves, in one formula.                                   *)
LEMMA ExportEffect ==
  ASSUME BackupTypes
  PROVE  \A p \in Keeper : RunExport(p) => Exported(p)
<1> SUFFICES ASSUME NEW p \in Keeper, RunExport(p) PROVE Exported(p)
  OBVIOUS
<1> DEFINE r == [folder |-> schedule.folder, time |-> now, serial |-> serial + 1,
                 by |-> log.by, events |-> log.events]
<1>1. schedule \in Schedules /\ log \in Histories
  BY DEF BackupTypes, BackupTypeOK, RunExport, Reachable
<1>2. r \in Saved
  BY <1>1 DEF BackupTypes, BackupTypeOK, Saved, Schedules, Histories
<1>3. r \notin saved
  BY DEF BackupTypes, BackupTypeOK
<1>4. saved' = saved \cup {r}
  BY DEF RunExport
<1> QED BY <1>2, <1>3, <1>4 DEF Exported

(* What pruning leaves, in one formula.                                     *)
LEMMA PruneEffect ==
  ASSUME BackupTypes
  PROVE  \A p \in Keeper : RunPrune(p) => WasPruned(p)
<1> SUFFICES ASSUME NEW p \in Keeper, RunPrune(p) PROVE WasPruned(p)
  OBVIOUS
<1> DEFINE f == request[p].folder
           here == BackupsIn(saved, f)
<1>1. saved' = (saved \ here) \cup Pruned(here)
  BY DEF RunPrune, BackupsIn
<1>2. Pruned(here) \in SUBSET here /\ here \in SUBSET saved /\ \A b \in saved : b \in here <=> b.folder = f
  BY DEF Pruned, BackupsIn
<1> HIDE DEF here
<1>3. BackupsIn(saved', f) = Pruned(here)
  BY <1>1, <1>2 DEF BackupsIn
<1>4. \A g \in Folder : g # f => BackupsIn(saved', g) = BackupsIn(saved, g)
  BY <1>1, <1>2 DEF BackupsIn
<1>5. saved' \in SUBSET saved
  BY <1>1, <1>2
<1> QED BY <1>3, <1>4, <1>5 DEF WasPruned, here

(* The backups of a folder can be counted.                                  *)
LEMMA FolderCount ==
  ASSUME BackupTypes
  PROVE  \A f : /\ BackupsIn(saved, f) \in SUBSET saved /\ BackupsIn(saved, f) \in SUBSET Saved
                /\ IsFiniteSet(BackupsIn(saved, f)) /\ Cardinality(BackupsIn(saved, f)) \in Nat
<1>1. \A f : BackupsIn(saved, f) \in SUBSET saved
  BY DEF BackupsIn
<1> QED BY <1>1, FS_Subset, FS_CardinalityType DEF BackupTypes

(* An empty history, or one of a single owner.                              *)
LEMMA BackupStart == BackupInit => BackupInv
<1> SUFFICES ASSUME BackupInit PROVE BackupInv
  OBVIOUS
<1> USE BackupAssumption DEF BackupInit, Idle, Is
<1>1. BackupTypes
  <2>1. archive \subseteq Histories
    BY DEF Histories, History
  <2>2. log \in Histories \cup {Nothing} /\ device \in Owner \cup {Nothing} /\ access \in Owner \cup {Nothing}
    BY DEF Histories, History
  <2>3. request \in [Keeper -> Request] /\ \A p \in Keeper : request[p].step = "idle"
    BY DEF Request
  <2>4. IsFiniteSet({})
    BY FS_EmptySet
  <2>5. recent \in BOOLEAN
    OBVIOUS
  <2>6. \A p, q \in Keeper : {request[p].step, request[q].step} \cap {"idle", "enabled"} # {}
    BY <2>3
  <2>7. now \in 0 .. MaxTime /\ schedule = Nothing /\ saved = {} /\ serial \in Nat /\ stops \in Nat
    OBVIOUS
  <2> QED BY ONLY <2>1, <2>2, <2>3, <2>4, <2>5, <2>6, <2>7 DEF BackupTypes, BackupTypeOK
<1>2. SerialsInv /\ RunInv /\ ImportInv
  BY DEF SerialsInv, RunInv, ImportInv
<1>3. FolderInv
  <2>1. \A f : BackupsIn(saved, f) = {}
    BY DEF BackupsIn
  <2>2. Cardinality({}) = 0
    BY FS_EmptySet
  <2>3. Retain + stops \in Nat /\ 0 <= Retain + stops /\ 0 <= Retain + stops + 1
    OBVIOUS
  <2> QED BY ONLY <2>1, <2>2, <2>3 DEF FolderInv
<1>4. AccessHasHistory /\ LastBackupKept
  BY DEF AccessHasHistory, Reachable, LastBackupKept, History, Histories
<1> QED BY <1>1, <1>2, <1>3, <1>4 DEF BackupInv

(* Every step leaves values of the right kind, and one holder of the lock.  *)
LEMMA BackupTypeStep ==
  ASSUME BackupInv, BackupNext
  PROVE  BackupTypes'
<1> USE BackupAssumption DEF BackupInv, BackupTypes, BackupTypeOK, Request, Is, Idle, Unlocked,
    workspace
<1>1. ASSUME AppendEvent PROVE BackupTypes'
  BY <1>1 DEF AppendEvent, Reachable, Histories
<1>2. ASSUME ExportBackup PROVE BackupTypes'
  BY <1>2 DEF ExportBackup, Reachable
<1>3. ASSUME ClockMoves PROVE BackupTypes'
  BY <1>3 DEF ClockMoves
<1>4. ASSUME NEW o \in Owner, CreateOtherWorkspace(o) PROVE BackupTypes'
  BY <1>4 DEF CreateOtherWorkspace
<1>5. ASSUME NEW p \in Keeper, NEW f \in Folder, EnableSchedule(p, f) PROVE BackupTypes'
  BY <1>5 DEF EnableSchedule, Becomes, Schedules
<1>6. ASSUME NEW p \in Keeper, DisableSchedule(p) PROVE BackupTypes'
  BY <1>6 DEF DisableSchedule, Becomes
<1>7. ASSUME NEW p \in Keeper, RunNothing(p) PROVE BackupTypes'
  BY <1>7 DEF RunNothing, Becomes
<1>8. ASSUME NEW p \in Keeper, RunExport(p) PROVE BackupTypes'
  <2>1. Exported(p)
    BY <1>8, ExportEffect
  <2>2. IsFiniteSet(saved')
    BY <2>1, FS_AddElement DEF Exported
  <2> QED BY <1>8, <2>1, <2>2 DEF RunExport, Exported, Saved, Schedules, Becomes
<1>9. ASSUME NEW p \in Keeper, RunSave(p) PROVE BackupTypes'
  BY <1>9 DEF RunSave, Becomes, Schedules
<1>10. ASSUME NEW p \in Keeper, RunPrune(p) PROVE BackupTypes'
  <2>1. WasPruned(p)
    BY <1>10, PruneEffect
  <2>2. IsFiniteSet(saved') /\ saved' \in SUBSET saved
    BY <2>1, FS_Subset DEF WasPruned
  <2>3. archive' \subseteq Histories
    <3>1. \A b \in saved : History(b.by, b.events) \in Histories
      BY DEF Saved, History, Histories
    <3> QED BY <1>10, <3>1 DEF RunPrune, Pruned
  <2> QED BY <1>10, <2>2, <2>3 DEF RunPrune, Becomes
<1>11. ASSUME NEW p \in Keeper, NEW b \in archive, ImportBackup(p, b) PROVE BackupTypes'
  BY <1>11 DEF ImportBackup, Becomes
<1>12. ASSUME NEW p \in Keeper, RestoreExact(p) PROVE BackupTypes'
  BY <1>12 DEF RestoreExact, Becomes
<1>13. ASSUME NEW p \in Keeper, ImportState(p) PROVE BackupTypes'
  BY <1>13 DEF ImportState, Becomes, Histories
<1>14. ASSUME NEW p \in Keeper, ImportPoints(p) PROVE BackupTypes'
  BY <1>14 DEF ImportPoints, Becomes
<1>15. ASSUME NEW p \in Keeper, Stop(p) PROVE BackupTypes'
  BY <1>15 DEF Stop, Becomes
<1> QED BY <1>1, <1>2, <1>3, <1>4, <1>5, <1>6, <1>7, <1>8, <1>9, <1>10, <1>11, <1>12, <1>13, <1>14,
    <1>15 DEF BackupNext

(* A new backup has a serial number of its own.                             *)
LEMMA SerialsStep ==
  ASSUME BackupInv, BackupNext
  PROVE  SerialsInv'
<1> USE BackupAssumption DEF BackupInv, BackupTypes, BackupTypeOK, Request, Is, Idle, Unlocked,
    workspace, SerialsInv
<1>1. ASSUME AppendEvent PROVE SerialsInv'
  BY <1>1 DEF AppendEvent
<1>2. ASSUME ExportBackup PROVE SerialsInv'
  BY <1>2 DEF ExportBackup
<1>3. ASSUME ClockMoves PROVE SerialsInv'
  BY <1>3 DEF ClockMoves
<1>4. ASSUME NEW o \in Owner, CreateOtherWorkspace(o) PROVE SerialsInv'
  BY <1>4 DEF CreateOtherWorkspace
<1>5. ASSUME NEW p \in Keeper, NEW f \in Folder, EnableSchedule(p, f) PROVE SerialsInv'
  BY <1>5 DEF EnableSchedule, Becomes
<1>6. ASSUME NEW p \in Keeper, DisableSchedule(p) PROVE SerialsInv'
  BY <1>6 DEF DisableSchedule, Becomes
<1>7. ASSUME NEW p \in Keeper, RunNothing(p) PROVE SerialsInv'
  BY <1>7 DEF RunNothing, Becomes
<1>8. ASSUME NEW p \in Keeper, RunExport(p) PROVE SerialsInv'
  <2>1. Exported(p)
    BY <1>8, ExportEffect
  <2> QED BY <2>1 DEF Exported
<1>9. ASSUME NEW p \in Keeper, RunSave(p) PROVE SerialsInv'
  BY <1>9 DEF RunSave, Becomes
<1>10. ASSUME NEW p \in Keeper, RunPrune(p) PROVE SerialsInv'
  <2>1. WasPruned(p)
    BY <1>10, PruneEffect
  <2> QED BY <2>1 DEF WasPruned
<1>11. ASSUME NEW p \in Keeper, NEW b \in archive, ImportBackup(p, b) PROVE SerialsInv'
  BY <1>11 DEF ImportBackup, Becomes
<1>12. ASSUME NEW p \in Keeper, RestoreExact(p) PROVE SerialsInv'
  BY <1>12 DEF RestoreExact, Becomes
<1>13. ASSUME NEW p \in Keeper, ImportState(p) PROVE SerialsInv'
  BY <1>13 DEF ImportState, Becomes
<1>14. ASSUME NEW p \in Keeper, ImportPoints(p) PROVE SerialsInv'
  BY <1>14 DEF ImportPoints, Becomes
<1>15. ASSUME NEW p \in Keeper, Stop(p) PROVE SerialsInv'
  BY <1>15 DEF Stop, Becomes
<1> QED BY <1>1, <1>2, <1>3, <1>4, <1>5, <1>6, <1>7, <1>8, <1>9, <1>10, <1>11, <1>12, <1>13, <1>14,
    <1>15 DEF BackupNext

(* While a run saves the schedule, no other run prunes.                     *)
LEMMA RunStep ==
  ASSUME BackupInv, BackupNext
  PROVE  RunInv'
<1> USE BackupAssumption DEF BackupInv, BackupTypes, BackupTypeOK, Request, Is, Idle, Unlocked,
    workspace, RunInv
<1>1. ASSUME AppendEvent PROVE RunInv'
  BY <1>1 DEF AppendEvent
<1>2. ASSUME ExportBackup PROVE RunInv'
  BY <1>2 DEF ExportBackup
<1>3. ASSUME ClockMoves PROVE RunInv'
  BY <1>3 DEF ClockMoves
<1>4. ASSUME NEW o \in Owner, CreateOtherWorkspace(o) PROVE RunInv'
  BY <1>4 DEF CreateOtherWorkspace
<1>5. ASSUME NEW p \in Keeper, NEW f \in Folder, EnableSchedule(p, f) PROVE RunInv'
  BY <1>5 DEF EnableSchedule, Becomes
<1>6. ASSUME NEW p \in Keeper, DisableSchedule(p) PROVE RunInv'
  BY <1>6 DEF DisableSchedule, Becomes
<1>7. ASSUME NEW p \in Keeper, RunNothing(p) PROVE RunInv'
  BY <1>7 DEF RunNothing, Becomes
<1>8. ASSUME NEW p \in Keeper, RunExport(p) PROVE RunInv'
  <2>1. Exported(p)
    BY <1>8, ExportEffect
  <2> QED BY <1>8, <2>1 DEF RunExport, Exported, Becomes
<1>9. ASSUME NEW p \in Keeper, RunSave(p) PROVE RunInv'
  BY <1>9 DEF RunSave, Becomes
<1>10. ASSUME NEW p \in Keeper, RunPrune(p) PROVE RunInv'
  <2>1. \A q \in Keeper : request'[q].step # "saveSchedule"
    BY <1>10 DEF RunPrune, Becomes
  <2> QED BY <2>1
<1>11. ASSUME NEW p \in Keeper, NEW b \in archive, ImportBackup(p, b) PROVE RunInv'
  BY <1>11 DEF ImportBackup, Becomes
<1>12. ASSUME NEW p \in Keeper, RestoreExact(p) PROVE RunInv'
  BY <1>12 DEF RestoreExact, Becomes
<1>13. ASSUME NEW p \in Keeper, ImportState(p) PROVE RunInv'
  BY <1>13 DEF ImportState, Becomes
<1>14. ASSUME NEW p \in Keeper, ImportPoints(p) PROVE RunInv'
  BY <1>14 DEF ImportPoints, Becomes
<1>15. ASSUME NEW p \in Keeper, Stop(p) PROVE RunInv'
  BY <1>15 DEF Stop, Becomes
<1> QED BY <1>1, <1>2, <1>3, <1>4, <1>5, <1>6, <1>7, <1>8, <1>9, <1>10, <1>11, <1>12, <1>13, <1>14,
    <1>15 DEF BackupNext

(* The lock keeps the workspace as the import found it.                     *)
LEMMA ImportStep ==
  ASSUME BackupInv, BackupNext
  PROVE  ImportInv'
<1> USE BackupAssumption DEF BackupInv, BackupTypes, BackupTypeOK, Request, Is, Idle, Unlocked,
    workspace, ImportInv, MayImport, AccessHasHistory, Reachable
<1>1. ASSUME AppendEvent PROVE ImportInv'
  BY <1>1 DEF AppendEvent
<1>2. ASSUME ExportBackup PROVE ImportInv'
  BY <1>2 DEF ExportBackup
<1>3. ASSUME ClockMoves PROVE ImportInv'
  BY <1>3 DEF ClockMoves
<1>4. ASSUME NEW o \in Owner, CreateOtherWorkspace(o) PROVE ImportInv'
  BY <1>4 DEF CreateOtherWorkspace
<1>5. ASSUME NEW p \in Keeper, NEW f \in Folder, EnableSchedule(p, f) PROVE ImportInv'
  BY <1>5 DEF EnableSchedule, Becomes
<1>6. ASSUME NEW p \in Keeper, DisableSchedule(p) PROVE ImportInv'
  BY <1>6 DEF DisableSchedule, Becomes
<1>7. ASSUME NEW p \in Keeper, RunNothing(p) PROVE ImportInv'
  BY <1>7 DEF RunNothing, Becomes
<1>8. ASSUME NEW p \in Keeper, RunExport(p) PROVE ImportInv'
  BY <1>8 DEF RunExport, Becomes
<1>9. ASSUME NEW p \in Keeper, RunSave(p) PROVE ImportInv'
  BY <1>9 DEF RunSave, Becomes
<1>10. ASSUME NEW p \in Keeper, RunPrune(p) PROVE ImportInv'
  BY <1>10 DEF RunPrune, Becomes
<1>11. ASSUME NEW p \in Keeper, NEW b \in archive, ImportBackup(p, b) PROVE ImportInv'
  BY <1>11 DEF ImportBackup, Becomes
<1>12. ASSUME NEW p \in Keeper, RestoreExact(p) PROVE ImportInv'
  BY <1>12 DEF RestoreExact, Becomes
<1>13. ASSUME NEW p \in Keeper, ImportState(p) PROVE ImportInv'
  BY <1>13 DEF ImportState, Becomes, Histories
<1>14. ASSUME NEW p \in Keeper, ImportPoints(p) PROVE ImportInv'
  BY <1>14 DEF ImportPoints, Becomes
<1>15. ASSUME NEW p \in Keeper, Stop(p) PROVE ImportInv'
  BY <1>15 DEF Stop, Becomes
<1> QED BY <1>1, <1>2, <1>3, <1>4, <1>5, <1>6, <1>7, <1>8, <1>9, <1>10, <1>11, <1>12, <1>13, <1>14,
    <1>15 DEF BackupNext

(* The history is there before the local state gives access to it.          *)
LEMMA AccessStep ==
  ASSUME BackupInv, BackupNext
  PROVE  AccessHasHistory'
<1> USE BackupAssumption DEF BackupInv, BackupTypes, BackupTypeOK, Request, Is, Idle, Unlocked,
    workspace, ImportInv, MayImport, AccessHasHistory, Reachable
<1>1. ASSUME AppendEvent PROVE AccessHasHistory'
  BY <1>1 DEF AppendEvent, Histories
<1>2. ASSUME ExportBackup PROVE AccessHasHistory'
  BY <1>2 DEF ExportBackup
<1>3. ASSUME ClockMoves PROVE AccessHasHistory'
  BY <1>3 DEF ClockMoves
<1>4. ASSUME NEW o \in Owner, CreateOtherWorkspace(o) PROVE AccessHasHistory'
  BY <1>4 DEF CreateOtherWorkspace
<1>5. ASSUME NEW p \in Keeper, NEW f \in Folder, EnableSchedule(p, f) PROVE AccessHasHistory'
  BY <1>5 DEF EnableSchedule, Becomes
<1>6. ASSUME NEW p \in Keeper, DisableSchedule(p) PROVE AccessHasHistory'
  BY <1>6 DEF DisableSchedule, Becomes
<1>7. ASSUME NEW p \in Keeper, RunNothing(p) PROVE AccessHasHistory'
  BY <1>7 DEF RunNothing, Becomes
<1>8. ASSUME NEW p \in Keeper, RunExport(p) PROVE AccessHasHistory'
  BY <1>8 DEF RunExport, Becomes
<1>9. ASSUME NEW p \in Keeper, RunSave(p) PROVE AccessHasHistory'
  BY <1>9 DEF RunSave, Becomes
<1>10. ASSUME NEW p \in Keeper, RunPrune(p) PROVE AccessHasHistory'
  BY <1>10 DEF RunPrune, Becomes
<1>11. ASSUME NEW p \in Keeper, NEW b \in archive, ImportBackup(p, b) PROVE AccessHasHistory'
  BY <1>11 DEF ImportBackup, Becomes
<1>12. ASSUME NEW p \in Keeper, RestoreExact(p) PROVE AccessHasHistory'
  BY <1>12 DEF RestoreExact, Becomes, Histories
<1>13. ASSUME NEW p \in Keeper, ImportState(p) PROVE AccessHasHistory'
  BY <1>13 DEF ImportState, Becomes, Histories
<1>14. ASSUME NEW p \in Keeper, ImportPoints(p) PROVE AccessHasHistory'
  BY <1>14 DEF ImportPoints, Becomes
<1>15. ASSUME NEW p \in Keeper, Stop(p) PROVE AccessHasHistory'
  BY <1>15 DEF Stop, Becomes
<1> QED BY <1>1, <1>2, <1>3, <1>4, <1>5, <1>6, <1>7, <1>8, <1>9, <1>10, <1>11, <1>12, <1>13, <1>14,
    <1>15 DEF BackupNext

(* A run adds one backup to its folder and then prunes it; a run that stops *)
(* before that leaves one more.                                             *)
LEMMA FolderStep ==
  ASSUME BackupInv, BackupNext
  PROVE  FolderInv'
<1> USE BackupAssumption DEF BackupInv, BackupTypes, BackupTypeOK, Request, Is, Idle, Unlocked,
    workspace, FolderInv, Running
<1>1. ASSUME AppendEvent PROVE FolderInv'
  BY <1>1, FolderCount DEF AppendEvent
<1>2. ASSUME ExportBackup PROVE FolderInv'
  BY <1>2, FolderCount DEF ExportBackup
<1>3. ASSUME ClockMoves PROVE FolderInv'
  BY <1>3, FolderCount DEF ClockMoves
<1>4. ASSUME NEW o \in Owner, CreateOtherWorkspace(o) PROVE FolderInv'
  BY <1>4, FolderCount DEF CreateOtherWorkspace
<1>5. ASSUME NEW p \in Keeper, NEW f \in Folder, EnableSchedule(p, f) PROVE FolderInv'
  BY <1>5, FolderCount DEF EnableSchedule, Becomes
<1>6. ASSUME NEW p \in Keeper, DisableSchedule(p) PROVE FolderInv'
  BY <1>6, FolderCount DEF DisableSchedule, Becomes
<1>7. ASSUME NEW p \in Keeper, RunNothing(p) PROVE FolderInv'
  BY <1>7, FolderCount DEF RunNothing, Becomes
<1>8. ASSUME NEW p \in Keeper, RunExport(p) PROVE FolderInv'
  <2> DEFINE g == schedule.folder
  <2>1. Exported(p) /\ stops' = stops
    BY <1>8, ExportEffect DEF RunExport
  <2>2. PICK r \in Saved : r.folder = g /\ r \notin saved /\ saved' = saved \cup {r}
    BY <2>1 DEF Exported
  <2>3. \A f \in Folder : ~Running(f) /\ Cardinality(BackupsIn(saved, f)) <= Retain + stops
    BY <1>8 DEF RunExport
  <2>4. request'[p].step = "saveSchedule" /\ request'[p].folder = g
    BY <1>8 DEF RunExport, Becomes
  <2>5. ASSUME NEW f \in Folder, f # g
        PROVE  Cardinality(BackupsIn(saved', f)) <= Retain + stops
    <3>1. BackupsIn(saved', f) = BackupsIn(saved, f)
      BY <2>2, <2>5 DEF BackupsIn
    <3> QED BY <2>3, <3>1
  <2>6. Cardinality(BackupsIn(saved', g)) <= Retain + stops + 1
    <3>1. g \in Folder
      BY <2>2 DEF Saved
    <3>2. BackupsIn(saved', g) = BackupsIn(saved, g) \cup {r}
      BY <2>2 DEF BackupsIn
    <3>3. Cardinality(BackupsIn(saved, g) \cup {r}) <= Cardinality(BackupsIn(saved, g)) + 1
      <4> DEFINE R == BackupsIn(saved, g)
      <4>1. IsFiniteSet(R) /\ Cardinality(R) \in Nat
        BY FolderCount
      <4> HIDE DEF R
      <4>2. Cardinality(R \cup {r}) = IF r \in R THEN Cardinality(R) ELSE Cardinality(R) + 1
        BY ONLY <4>1, FS_AddElement
      <4>3. Cardinality(R \cup {r}) <= Cardinality(R) + 1
        BY ONLY <4>1, <4>2
      <4> QED BY <4>3 DEF R
    <3>4. Cardinality(BackupsIn(saved, g)) \in Nat /\ Cardinality(BackupsIn(saved, g)) <= Retain + stops
      BY <2>3, <3>1, FolderCount
    <3>5. Cardinality(BackupsIn(saved, g) \cup {r}) \in Nat
      BY ONLY BackupTypes, FolderCount, FS_AddElement, FS_CardinalityType
    <3> QED BY <3>2, <3>3, <3>4, <3>5
  <2>7. ASSUME NEW f \in Folder
        PROVE  /\ Cardinality(BackupsIn(saved', f)) <= Retain + stops + 1
               /\ f # g => Cardinality(BackupsIn(saved', f)) <= Retain + stops
    <3>1. Cardinality(BackupsIn(saved', f)) \in Nat
      BY <2>2, FolderCount, FS_AddElement, FS_Subset, FS_CardinalityType DEF BackupsIn
    <3> QED BY <2>5, <2>6, <3>1
  <2> QED BY <2>1, <2>4, <2>7
<1>9. ASSUME NEW p \in Keeper, RunSave(p) PROVE FolderInv'
  BY <1>9, FolderCount DEF RunSave, Becomes
<1>10. ASSUME NEW p \in Keeper, RunPrune(p) PROVE FolderInv'
  <2> DEFINE g == request[p].folder
  <2>1. WasPruned(p) /\ stops' = stops
    BY <1>10, PruneEffect DEF RunPrune
  <2>2. \A f \in Folder : f # g => ~Running(f)
    BY <1>10 DEF RunPrune
  <2>3. Cardinality(Pruned(BackupsIn(saved, g))) \in Nat /\ Cardinality(Pruned(BackupsIn(saved, g))) <= Retain
    <3>1. \A a, b \in BackupsIn(saved, g) : a.serial = b.serial => a = b
      BY DEF SerialsInv, BackupsIn
    <3> QED BY <3>1, FolderCount, PrunedFew
  <2>4. ASSUME NEW f \in Folder
        PROVE  /\ Cardinality(BackupsIn(saved', f)) <= Retain + stops
               /\ Cardinality(BackupsIn(saved', f)) \in Nat
    <3>1. CASE f = g
      BY <2>1, <2>3, <3>1 DEF WasPruned
    <3>2. CASE f # g
      BY <2>1, <2>2, <3>2, FolderCount DEF WasPruned
    <3> QED BY <3>1, <3>2
  <2> QED BY <2>1, <2>4
<1>11. ASSUME NEW p \in Keeper, NEW b \in archive, ImportBackup(p, b) PROVE FolderInv'
  BY <1>11, FolderCount DEF ImportBackup, Becomes
<1>12. ASSUME NEW p \in Keeper, RestoreExact(p) PROVE FolderInv'
  BY <1>12, FolderCount DEF RestoreExact, Becomes
<1>13. ASSUME NEW p \in Keeper, ImportState(p) PROVE FolderInv'
  BY <1>13, FolderCount DEF ImportState, Becomes
<1>14. ASSUME NEW p \in Keeper, ImportPoints(p) PROVE FolderInv'
  BY <1>14, FolderCount DEF ImportPoints, Becomes
<1>15. ASSUME NEW p \in Keeper, Stop(p) PROVE FolderInv'
  BY <1>15, FolderCount DEF Stop, Becomes
<1> QED BY <1>1, <1>2, <1>3, <1>4, <1>5, <1>6, <1>7, <1>8, <1>9, <1>10, <1>11, <1>12, <1>13, <1>14,
    <1>15 DEF BackupNext

(* The backup of the schedule is kept in its folder.                        *)
LEMMA LastIsKept ==
  /\ LastBackupKept <=> (schedule # Nothing /\ schedule.last # Nothing =>
                            Kept(BackupsIn(saved, schedule.folder), schedule.last))
  /\ LastBackupKept' <=> (schedule' # Nothing /\ schedule'.last # Nothing =>
                             Kept(BackupsIn(saved', schedule'.folder), schedule'.last))
BY DEF LastBackupKept, Kept, BackupsIn

(* A folder that only grows keeps what it has.                              *)
LEMMA KeptGrows ==
  ASSUME NEW S, NEW S2, S \in SUBSET S2, IsFiniteSet(S2), NEW t \in Nat, Kept(S, t)
  PROVE  Kept(S2, t)
<1> DEFINE L == {b \in S : b.time > t}
           L2 == {b \in S2 : b.time > t}
<1>1. L \in SUBSET L2 /\ L2 \in SUBSET S2
  OBVIOUS
<1>2. IsFiniteSet(L2) /\ Cardinality(L2) \in Nat /\ Cardinality(L) \in Nat
      /\ Cardinality(L) <= Cardinality(L2)
  BY <1>1, FS_Subset, FS_CardinalityType
<1> QED BY <1>2, BackupAssumption DEF Kept

(* A run saves the schedule after its backup, and pruning keeps the last.   *)
LEMMA LastStep ==
  ASSUME BackupInv, BackupNext
  PROVE  LastBackupKept'
<1> USE BackupAssumption DEF BackupInv, BackupTypes, BackupTypeOK, Request, Is, Idle, Unlocked,
    workspace
<1>1. ASSUME AppendEvent PROVE LastBackupKept'
  BY <1>1, LastIsKept DEF AppendEvent
<1>2. ASSUME ExportBackup PROVE LastBackupKept'
  BY <1>2, LastIsKept DEF ExportBackup
<1>3. ASSUME ClockMoves PROVE LastBackupKept'
  BY <1>3, LastIsKept DEF ClockMoves
<1>4. ASSUME NEW o \in Owner, CreateOtherWorkspace(o) PROVE LastBackupKept'
  BY <1>4, LastIsKept DEF CreateOtherWorkspace
<1>5. ASSUME NEW p \in Keeper, NEW f \in Folder, EnableSchedule(p, f) PROVE LastBackupKept'
  BY <1>5, LastIsKept DEF EnableSchedule, Becomes
<1>6. ASSUME NEW p \in Keeper, DisableSchedule(p) PROVE LastBackupKept'
  BY <1>6, LastIsKept DEF DisableSchedule, Becomes
<1>7. ASSUME NEW p \in Keeper, RunNothing(p) PROVE LastBackupKept'
  BY <1>7, LastIsKept DEF RunNothing, Becomes
<1>8. ASSUME NEW p \in Keeper, RunExport(p) PROVE LastBackupKept'
  <2>1. Exported(p) /\ schedule' = schedule
    BY <1>8, ExportEffect DEF RunExport
  <2>2. IsFiniteSet(saved') /\ saved \in SUBSET saved'
    BY <2>1, FS_AddElement DEF Exported
  <2> SUFFICES ASSUME schedule # Nothing, schedule.last # Nothing
               PROVE  Kept(BackupsIn(saved', schedule.folder), schedule.last)
    BY <2>1, LastIsKept
  <2>3. schedule.last \in Nat
    BY DEF Schedules
  <2>4. /\ BackupsIn(saved, schedule.folder) \in SUBSET BackupsIn(saved', schedule.folder)
        /\ IsFiniteSet(BackupsIn(saved', schedule.folder))
    <3>1. BackupsIn(saved', schedule.folder) \in SUBSET saved'
      BY DEF BackupsIn
    <3> QED BY <2>2, <3>1, FS_Subset DEF BackupsIn
  <2>5. Kept(BackupsIn(saved, schedule.folder), schedule.last)
    BY LastIsKept
  <2> QED BY <2>3, <2>4, <2>5, KeptGrows
<1>9. ASSUME NEW p \in Keeper, RunSave(p) PROVE LastBackupKept'
  <2>1. PICK b \in saved : b.folder = request[p].folder /\ b.time = request[p].time
    BY <1>9 DEF RunSave, RunInv
  <2>2. schedule' = [folder |-> request[p].folder, last |-> request[p].time] /\ saved' = saved
    BY <1>9 DEF RunSave
  <2> QED BY <2>1, <2>2, LastIsKept DEF Kept, BackupsIn
<1>10. ASSUME NEW p \in Keeper, RunPrune(p) PROVE LastBackupKept'
  <2>1. WasPruned(p) /\ schedule' = schedule
    BY <1>10, PruneEffect DEF RunPrune
  <2> SUFFICES ASSUME schedule # Nothing, schedule.last # Nothing
               PROVE  Kept(BackupsIn(saved', schedule.folder), schedule.last)
    BY <2>1, LastIsKept
  <2>2. schedule.last \in Nat /\ schedule.folder \in Folder
    BY DEF Schedules
  <2>3. Kept(BackupsIn(saved, schedule.folder), schedule.last)
    BY LastIsKept
  <2>4. CASE schedule.folder = request[p].folder
    <3>1. \A b \in BackupsIn(saved, schedule.folder) : b.serial <= serial
      BY DEF BackupsIn
    <3>2. Kept(Pruned(BackupsIn(saved, schedule.folder)), schedule.last)
      BY <2>2, <2>3, <3>1, FolderCount, PrunedKeeps
    <3> QED BY <2>1, <2>4, <3>2 DEF WasPruned
  <2>5. CASE schedule.folder # request[p].folder
    BY <2>1, <2>2, <2>3, <2>5 DEF WasPruned
  <2> QED BY <2>4, <2>5
<1>11. ASSUME NEW p \in Keeper, NEW b \in archive, ImportBackup(p, b) PROVE LastBackupKept'
  BY <1>11, LastIsKept DEF ImportBackup, Becomes
<1>12. ASSUME NEW p \in Keeper, RestoreExact(p) PROVE LastBackupKept'
  BY <1>12, LastIsKept DEF RestoreExact, Becomes
<1>13. ASSUME NEW p \in Keeper, ImportState(p) PROVE LastBackupKept'
  BY <1>13, LastIsKept DEF ImportState, Becomes
<1>14. ASSUME NEW p \in Keeper, ImportPoints(p) PROVE LastBackupKept'
  BY <1>14, LastIsKept DEF ImportPoints, Becomes
<1>15. ASSUME NEW p \in Keeper, Stop(p) PROVE LastBackupKept'
  BY <1>15, LastIsKept DEF Stop, Becomes
<1> QED BY <1>1, <1>2, <1>3, <1>4, <1>5, <1>6, <1>7, <1>8, <1>9, <1>10, <1>11, <1>12, <1>13, <1>14,
    <1>15 DEF BackupNext

(* Every step keeps the invariant of the backups.                           *)
LEMMA BackupInductive == BackupInv /\ [BackupNext]_backupVars => BackupInv'
<1> SUFFICES ASSUME BackupInv, [BackupNext]_backupVars PROVE BackupInv'
  OBVIOUS
<1>1. CASE BackupNext
  BY <1>1, BackupTypeStep, SerialsStep, RunStep, ImportStep, FolderStep, AccessStep, LastStep
     DEF BackupInv
<1>2. CASE UNCHANGED backupVars
  <2> USE <1>2 DEF backupVars, BackupInv
  <2>1. BackupTypes'
    BY DEF BackupTypes, BackupTypeOK
  <2>2. SerialsInv' /\ RunInv' /\ ImportInv'
    BY DEF SerialsInv, RunInv, ImportInv, Is, MayImport
  <2>3. FolderInv'
    BY DEF FolderInv, Running
  <2>4. AccessHasHistory' /\ LastBackupKept'
    BY LastIsKept DEF AccessHasHistory, Reachable
  <2> QED BY <2>1, <2>2, <2>3, <2>4
<1> QED BY <1>1, <1>2

(* The invariant of the backups always holds.                               *)
LEMMA BackupInvariant == StoreSpec => []BackupInv
<1>1. StoreInit => BackupInv
  BY BackupStart DEF StoreInit
<1>2. BackupInv /\ [StoreNext]_storeVars => BackupInv'
  BY StoreStep, BackupInductive
<1> QED BY <1>1, <1>2, PTL DEF StoreSpec

(* import_portable_backup, run_scheduled_backup_at and                      *)
(* prune_scheduled_backups, for any retention, clock, number of folders and *)
(* interrupted requests: a workspace the device has access to can be        *)
(* opened, and pruning keeps what the schedule promises and no more.        *)
THEOREM BackupsAreKept == StoreSpec => []BackupsSound
<1>1. BackupInv => BackupsSound
  <2> SUFFICES ASSUME BackupInv PROVE BackupsSound
    OBVIOUS
  <2>1. RetentionHolds
    <3> SUFFICES ASSUME NEW f \in Folder
                 PROVE  Cardinality(BackupsIn(saved, f)) <= Retain + stops + (IF Unlocked THEN 0 ELSE 1)
      BY DEF RetentionHolds, BackupsIn
    <3>1. Unlocked => ~Running(f)
      BY DEF Unlocked, Running
    <3>2. Retain \in Nat /\ stops \in Nat
      BY BackupAssumption DEF BackupInv, BackupTypes
    <3> QED BY <3>1, <3>2 DEF BackupInv, FolderInv
  <2> QED BY <2>1 DEF BackupInv, BackupTypes, BackupsSound
<1> QED BY <1>1, BackupInvariant, PTL

(* restore_exact: a history that is installed is only ever extended, by     *)
(* whatever imports, exports and appends come in whatever order.            *)
THEOREM HistoriesOnlyGrow == StoreSpec => HistoryOnlyGrows
<1> DEFINE Grows == log # Nothing => log' # Nothing /\ log'.by = log.by /\ log'.events >= log.events
<1>1. BackupInv /\ [StoreNext]_storeVars => [Grows]_backupVars
  <2> SUFFICES ASSUME BackupInv, BackupNext, log # Nothing
               PROVE  log' # Nothing /\ log'.by = log.by /\ log'.events >= log.events
    BY StoreStep
  <2>1. log \in Histories /\ log.events \in Nat /\ log.events + 1 >= log.events
    BY DEF BackupInv, BackupTypes, BackupTypeOK, Histories
  <2>2. CASE AppendEvent
    <3>1. log' = [log EXCEPT !.events = @ + 1] /\ log' # Nothing
      BY <2>2, BackupInductive, BackupAssumption DEF AppendEvent, Histories, BackupInv,
          BackupTypes, BackupTypeOK
    <3> QED BY <2>1, <3>1 DEF Histories
  <2>3. CASE UNCHANGED log
    BY <2>1, <2>3
  <2>4. ASSUME NEW p \in Keeper, RestoreExact(p) PROVE UNCHANGED log
    BY <2>1, <2>4 DEF RestoreExact
  <2> QED BY <2>2, <2>3, <2>4 DEF BackupNext, ExportBackup, ClockMoves, CreateOtherWorkspace,
      EnableSchedule,
      DisableSchedule, RunNothing, RunExport, RunSave, RunPrune, ImportBackup, ImportState, ImportPoints,
      Stop, workspace
<1> QED BY <1>1, BackupInvariant, PTL DEF StoreSpec, HistoryOnlyGrows

-----------------------------------------------------------------------------
(* Codebase maps.                                                           *)

Ids == 1 .. MaxMaps
MapRec == [id : Ids, ws : MapSpace, commits : Commits, time : 0 .. MaxMapClock,
           supersedes : {NoMap} \cup Ids]
JobRec ==
    [step : {"idle"}]
    \cup [step : {"generate"}, ws : MapSpace, commits : Commits, supersedes : {NoMap} \cup Ids]
    \cup [step : {"body", "append", "prune"}, map : MapRec]
HasMap(p) == job[p].step \in {"body", "append", "prune"}
InLedger(p) == job[p].step \in {"append", "prune"}

MapTypes ==
    /\ mapClock \in 0 .. MaxMapClock /\ mapsMade \in 0 .. MaxMaps /\ mapStops \in 0 .. MaxMapStop
    /\ descriptors \subseteq MapRec /\ IsFiniteSet(descriptors)
    /\ job \in [Mapper -> JobRec] /\ lastJob \in [MapSpace -> {NoMap} \cup Ids]
    /\ bodies \cup damaged \subseteq 1 .. mapsMade

\* Every map has an id of its own, which is not older than the ids made so far.
IdsInv ==
    /\ \A d \in descriptors : d.id <= mapsMade
    /\ \A d, e \in descriptors : d.id = e.id => d = e
    /\ \A p \in Mapper : HasMap(p) => job[p].map.id <= mapsMade
    /\ \A p, q \in Mapper : HasMap(p) /\ HasMap(q) /\ job[p].map.id = job[q].map.id => p = q
    /\ \A p \in Mapper : job[p].step \in {"body", "append"} =>
          \A d \in descriptors : d.id # job[p].map.id

\* The map that m supersedes is older and is about the same commits.
SupersedesOlder(m) ==
    m.supersedes = NoMap
    \/ \E e \in descriptors : /\ e.id = m.supersedes /\ e.ws = m.ws /\ e.commits = m.commits
                              /\ e.id < m.id
SupersedeInv ==
    /\ \A d \in descriptors : SupersedesOlder(d)
    /\ \A p \in Mapper : HasMap(p) => SupersedesOlder(job[p].map)
    /\ \A p \in Mapper : job[p].step = "generate" =>
          job[p].supersedes = NoMap
          \/ \E e \in descriptors : /\ e.id = job[p].supersedes /\ e.ws = job[p].ws
                                    /\ e.commits = job[p].commits

\* One process at a time records a map of a workspace: its body is written, and
\* what it recorded is the last of the workspace.
LedgerInv ==
    /\ \A p, q \in Mapper : InLedger(p) /\ InLedger(q) /\ job[p].map.ws = job[q].map.ws => p = q
    /\ \A p \in Mapper : InLedger(p) => job[p].map.id \in bodies \cup damaged
    /\ \A p \in Mapper : job[p].step = "prune" =>
          job[p].map \in descriptors /\ lastJob[job[p].map.ws] = job[p].map.id
    /\ \A w \in MapSpace : lastJob[w] # NoMap => \E d \in descriptors : d.id = lastJob[w] /\ d.ws = w

\* The maps of a workspace in D, those beyond the newest, and their bodies.
SpaceIn(D, w) == {d \in D : d.ws = w}
AheadOf(D, d) == {e \in SpaceIn(D, d.ws) : Before(e, d)}
FreshIn(D, w) == {d \in SpaceIn(D, w) : Cardinality(AheadOf(D, d)) < KeptBodies}
BodiesOf(D, B, w) == {d.id : d \in SpaceIn(D, w)} \cap B
Pruning(w) == \E p \in Mapper : job[p].step = "prune" /\ job[p].map.ws = w

\* Only the map that is being recorded is one too many.
BodiesInv == \A w \in MapSpace :
    /\ Cardinality(BodiesOf(descriptors, bodies, w)) <= KeptBodies + 1 + mapStops + 1
    /\ ~Pruning(w) => Cardinality(BodiesOf(descriptors, bodies, w)) <= KeptBodies + 1 + mapStops

MapsInv ==
    /\ MapTypes /\ IdsInv /\ SupersedeInv /\ LedgerInv /\ BodiesInv
    /\ NewestBodiesKept /\ LastRecordedKept

(* Of some maps one has the greatest id, one comes last in the order of the *)
(* recorded maps, and one is the newest.                                    *)
LEMMA GreatestId ==
  ASSUME NEW T \in SUBSET MapRec, T # {}
  PROVE  \E x \in T : \A y \in T : y.id <= x.id
<1> DEFINE ids == {MaxMaps - d.id : d \in T}
<1>1. ids \in SUBSET Nat /\ ids # {} /\ \A d \in T : d.id \in Nat
  BY MapsAssumption DEF MapRec, Ids
<1>2. PICK n \in ids : \A k \in ids : n <= k
  BY <1>1, Least
<1>3. PICK x \in T : MaxMaps - x.id = n
  BY <1>2
<1>4. \A y \in T : n <= MaxMaps - y.id
  BY <1>2
<1> QED BY <1>1, <1>3, <1>4, MapsAssumption

(* A set of maps that is not empty has a last one in recording order.       *)
LEMMA LastMap ==
  ASSUME NEW T \in SUBSET MapRec, T # {}
  PROVE  \E x \in T : \A y \in T : ~Before(x, y)
<1> DEFINE times == {d.time : d \in T}
<1>1. times \in SUBSET Nat /\ times # {} /\ \A d \in T : d.time \in Nat /\ d.id \in Nat
  BY MapsAssumption DEF MapRec, Ids
<1>2. PICK t \in times : \A k \in times : t <= k
  BY <1>1, Least
<1> DEFINE same == {d \in T : d.time = t}
<1>3. PICK x \in same : \A y \in same : y.id <= x.id
  <2>1. same \in SUBSET MapRec /\ same # {}
    BY <1>2
  <2> QED BY <2>1, GreatestId
<1>4. \A y \in T : t <= y.time
  BY <1>2
<1> QED BY <1>1, <1>3, <1>4 DEF Before

(* A set of maps that is not empty has a newest one.                        *)
LEMMA NewestMap ==
  ASSUME NEW T \in SUBSET MapRec, T # {}
  PROVE  \E x \in T : \A y \in T : y.time < x.time \/ (y.time = x.time /\ y.id <= x.id)
<1> DEFINE times == {MaxMapClock - d.time : d \in T}
<1>1. times \in SUBSET Nat /\ times # {} /\ \A d \in T : d.time \in Nat /\ d.id \in Nat
  BY MapsAssumption DEF MapRec, Ids
<1>2. PICK t \in times : \A k \in times : t <= k
  BY <1>1, Least
<1> DEFINE same == {d \in T : MaxMapClock - d.time = t}
<1>3. PICK x \in same : \A y \in same : y.id <= x.id
  <2>1. same \in SUBSET MapRec /\ same # {}
    BY <1>2
  <2> QED BY <2>1, GreatestId
<1>4. \A y \in T : t <= MaxMapClock - y.time /\ (MaxMapClock - y.time = t => y.id <= x.id)
  BY <1>2, <1>3
<1> QED BY <1>1, <1>3, <1>4, MapsAssumption

(* Of a workspace as many maps are fresh as bodies are kept, or fewer.      *)
LEMMA FreshFew ==
  ASSUME NEW D \in SUBSET MapRec, IsFiniteSet(D), \A d, e \in D : d.id = e.id => d = e,
         NEW w \in MapSpace
  PROVE  /\ IsFiniteSet({d.id : d \in FreshIn(D, w)})
         /\ Cardinality({d.id : d \in FreshIn(D, w)}) \in Nat
         /\ Cardinality({d.id : d \in FreshIn(D, w)}) <= KeptBodies
<1> DEFINE F == FreshIn(D, w)
<1>1. F \in SUBSET D /\ \A d \in F : d.ws = w
  BY DEF FreshIn, SpaceIn
<1>2. IsFiniteSet(F) /\ Cardinality(F) \in Nat
  BY <1>1, FS_Subset, FS_CardinalityType
<1>3. Cardinality(F) <= KeptBodies
  <2>1. CASE F = {}
    BY <2>1, FS_EmptySet, MapsAssumption
  <2>2. CASE F # {}
    <3>1. PICK y \in F : \A z \in F : ~Before(y, z)
      <4>1. F \in SUBSET MapRec
        BY <1>1
      <4> QED BY <2>2, <4>1, LastMap
    <3>2. \A z \in F : z = y \/ Before(z, y)
      BY <1>1, <3>1, MapsAssumption DEF Before, MapRec, Ids
    <3>3. F \ {y} \in SUBSET AheadOf(D, y)
      BY <1>1, <3>2 DEF AheadOf, SpaceIn
    <3>4. IsFiniteSet(AheadOf(D, y)) /\ Cardinality(AheadOf(D, y)) \in Nat
      <4>1. AheadOf(D, y) \in SUBSET D
        BY DEF AheadOf, SpaceIn
      <4> QED BY <4>1, FS_Subset, FS_CardinalityType
    <3>5. Cardinality(AheadOf(D, y)) < KeptBodies
      BY <3>1 DEF FreshIn
    <3>6. Cardinality(F \ {y}) <= Cardinality(AheadOf(D, y))
      BY <3>3, <3>4, FS_Subset
    <3>7. Cardinality(F \ {y}) = Cardinality(F) - 1
      BY <1>2, <3>1, FS_RemoveElement
    <3> QED BY <1>2, <3>4, <3>5, <3>6, <3>7, MapsAssumption
  <2> QED BY <2>1, <2>2
<1> DEFINE I == {d.id : d \in F}
<1>4. IsFiniteSet(I) /\ Cardinality(I) <= Cardinality(F)
  <2>1. [d \in F |-> d.id] \in Surjection(F, I)
    BY DEF Surjection
  <2> QED BY <1>2, <2>1, FS_Surjection
<1>5. Cardinality(I) \in Nat
  BY <1>4, FS_CardinalityType
<1> QED BY <1>2, <1>3, <1>4, <1>5, MapsAssumption

(* A map that none supersedes is the one with the greatest id.              *)
LEMMA LatestExists ==
  ASSUME MapsInv
  PROVE  LatestMapExists
<1> SUFFICES ASSUME NEW d \in descriptors
             PROVE  LatestMapFor(d.ws, d.commits) # {}
  BY DEF LatestMapExists
<1> DEFINE same == {e \in OfSpace(d.ws) : e.commits = d.commits}
           current == {e \in same : \A g \in OfSpace(d.ws) : g.supersedes # e.id}
<1>1. descriptors \in SUBSET MapRec /\ OfSpace(d.ws) \in SUBSET descriptors
  BY DEF MapsInv, MapTypes, OfSpace
<1>2. PICK x \in same : \A y \in same : y.id <= x.id
  <2>1. same \in SUBSET MapRec /\ d \in same
    BY <1>1 DEF OfSpace
  <2> QED BY <2>1, GreatestId
<1>3. ASSUME NEW g \in OfSpace(d.ws) PROVE g.supersedes # x.id
  <2> SUFFICES ASSUME g.supersedes = x.id PROVE FALSE
    OBVIOUS
  <2>1. x \in descriptors /\ g \in descriptors /\ x.id \in Ids /\ g.id \in Ids
    BY <1>1, <1>2, <1>3 DEF MapRec
  <2>2. x.id # NoMap
    BY <2>1, MapsAssumption DEF Ids
  <2>3. PICK e \in descriptors : e.id = g.supersedes /\ e.ws = g.ws /\ e.commits = g.commits /\ e.id < g.id
    BY <2>1, <2>2 DEF MapsInv, SupersedeInv, SupersedesOlder
  <2>4. e = x
    BY <2>1, <2>3 DEF MapsInv, IdsInv
  <2>5. g \in same
    BY <1>2, <1>3, <2>3, <2>4
  <2> QED BY <1>2, <2>1, <2>3, <2>4, <2>5, MapsAssumption DEF Ids
<1>4. PICK z \in current : \A y \in current : y.time < z.time \/ (y.time = z.time /\ y.id <= z.id)
  <2>1. current \in SUBSET MapRec /\ x \in current
    BY <1>1, <1>2, <1>3
  <2> QED BY <2>1, NewestMap
<1> QED BY <1>4 DEF LatestMapFor

\* The ids of the maps of a workspace beyond the newest.
StaleIn(D, w) ==
    {d.id : d \in {d \in SpaceIn(D, w) : Cardinality({e \in SpaceIn(D, w) : Before(e, d)}) >= KeptBodies}}

(* Stale, with the descriptors named.                                       *)
LEMMA StaleIs ==
  /\ \A w : Stale(w) = StaleIn(descriptors, w)
  /\ \A w : Stale(w)' = StaleIn(descriptors', w)
BY DEF Stale, StaleIn, SpaceIn, OfSpace

(* A stale id is that of a map of the workspace.                            *)
LEMMA StaleOwn ==
  ASSUME NEW D, NEW w
  PROVE  \A x \in StaleIn(D, w) : \E d \in D : d.id = x /\ d.ws = w
BY DEF StaleIn, SpaceIn

(* A map is fresh or stale, in its own workspace only.                      *)
LEMMA FreshOrStale ==
  ASSUME NEW D \in SUBSET MapRec, IsFiniteSet(D), \A d, e \in D : d.id = e.id => d = e, NEW d \in D
  PROVE  /\ d.id \notin StaleIn(D, d.ws) <=> d \in FreshIn(D, d.ws)
         /\ \A w : d.id \in StaleIn(D, w) => d.ws = w
<1>1. \A w : d.id \in StaleIn(D, w) => d.ws = w
  BY DEF StaleIn, SpaceIn
<1>2. {e \in SpaceIn(D, d.ws) : Before(e, d)} = AheadOf(D, d)
  BY DEF AheadOf
<1>3. Cardinality(AheadOf(D, d)) \in Nat
  <2>1. AheadOf(D, d) \in SUBSET D
    BY DEF AheadOf, SpaceIn
  <2> QED BY <2>1, FS_Subset, FS_CardinalityType
<1>4. d.id \in StaleIn(D, d.ws) <=> Cardinality(AheadOf(D, d)) >= KeptBodies
  BY <1>2 DEF StaleIn, SpaceIn
<1>5. d \in FreshIn(D, d.ws) <=> Cardinality(AheadOf(D, d)) < KeptBodies
  BY DEF FreshIn, SpaceIn
<1> QED BY <1>1, <1>3, <1>4, <1>5, MapsAssumption

(* A map that is fresh was fresh when there were fewer.                     *)
LEMMA FreshBefore ==
  ASSUME NEW D, NEW D2, D \in SUBSET D2, IsFiniteSet(D2), NEW d \in D, d \in FreshIn(D2, d.ws)
  PROVE  d \in FreshIn(D, d.ws)
<1>1. AheadOf(D, d) \in SUBSET AheadOf(D2, d) /\ AheadOf(D2, d) \in SUBSET D2
  BY DEF AheadOf, SpaceIn
<1>2. /\ Cardinality(AheadOf(D, d)) <= Cardinality(AheadOf(D2, d))
      /\ Cardinality(AheadOf(D, d)) \in Nat /\ Cardinality(AheadOf(D2, d)) \in Nat
  BY <1>1, FS_Subset, FS_CardinalityType
<1> QED BY <1>2, MapsAssumption DEF FreshIn, SpaceIn

(* The bodies of a workspace can be counted.                                *)
LEMMA BodiesCount ==
  ASSUME MapTypes
  PROVE  \A D, w : /\ IsFiniteSet(BodiesOf(D, bodies, w))
                   /\ Cardinality(BodiesOf(D, bodies, w)) \in Nat
<1>1. IsFiniteSet(1 .. mapsMade)
  BY FS_Interval, MapsAssumption DEF MapTypes
<1>2. \A D, w : BodiesOf(D, bodies, w) \in SUBSET (1 .. mapsMade)
  BY DEF BodiesOf, MapTypes
<1> QED BY ONLY <1>1, <1>2, FS_Subset, FS_CardinalityType

\* What recording a descriptor and pruning do.
Recorded(p) ==
    /\ job[p].map \in MapRec /\ \A d \in descriptors : d.id # job[p].map.id
    /\ descriptors' = descriptors \cup {job[p].map} /\ IsFiniteSet(descriptors')
    /\ lastJob' = [lastJob EXCEPT ![job[p].map.ws] = job[p].map.id]
BodiesPruned(p) ==
    /\ job[p].map \in descriptors
    /\ bodies' = bodies \ (StaleIn(descriptors, job[p].map.ws) \ {job[p].map.id})

(* What recording a map and pruning its bodies leave.                       *)
LEMMA RecordEffect ==
  ASSUME MapsInv
  PROVE  /\ \A p \in Mapper : AppendDescriptor(p) => Recorded(p)
         /\ \A p \in Mapper : PruneBodies(p) => BodiesPruned(p)
<1>1. ASSUME NEW p \in Mapper, AppendDescriptor(p) PROVE Recorded(p)
  <2>1. job[p].map \in MapRec /\ \A d \in descriptors : d.id # job[p].map.id
    BY <1>1 DEF AppendDescriptor, MapsInv, MapTypes, JobRec, IdsInv
  <2>2. descriptors' = descriptors \cup {job[p].map}
    BY <1>1 DEF AppendDescriptor
  <2>3. IsFiniteSet(descriptors')
    BY <2>2, FS_AddElement DEF MapsInv, MapTypes
  <2> QED BY <1>1, <2>1, <2>2, <2>3 DEF AppendDescriptor, Recorded
<1>2. ASSUME NEW p \in Mapper, PruneBodies(p) PROVE BodiesPruned(p)
  BY <1>2, StaleIs DEF PruneBodies, BodiesPruned, MapsInv, LedgerInv
<1> QED BY <1>1, <1>2

(* What is superseded is a recorded map of the same commits.                *)
LEMMA GenerateEffect ==
  ASSUME NEW p \in Mapper, NEW w \in MapSpace, NEW c \in Commits, GenerateMap(p, w, c)
  PROVE  \E old \in {NoMap} \cup {d.id : d \in {e \in descriptors : e.ws = w /\ e.commits = c}} :
            Job(p, [step |-> "generate", ws |-> w, commits |-> c, supersedes |-> old])
<1>1. Loaded(w, c) \subseteq {d.id : d \in {e \in descriptors : e.ws = w /\ e.commits = c}}
  BY DEF Loaded, LatestMapFor, OfSpace
<1>2. PICK old \in IF Loaded(w, c) = {} THEN {NoMap} ELSE Loaded(w, c) :
         Job(p, [step |-> "generate", ws |-> w, commits |-> c, supersedes |-> old])
  BY Zenon DEF GenerateMap
<1>3. old \in {NoMap} \cup {d.id : d \in {e \in descriptors : e.ws = w /\ e.commits = c}}
  BY <1>1
<1> QED BY <1>2, <1>3, Zenon

(* No maps.                                                                 *)
LEMMA MapsStart == MapsInit => MapsInv
<1> SUFFICES ASSUME MapsInit PROVE MapsInv
  OBVIOUS
<1> USE MapsAssumption DEF MapsInit, NoJob, HasMap, InLedger
<1>1. MapTypes
  <2>1. IsFiniteSet({})
    BY FS_EmptySet
  <2>2. job \in [Mapper -> JobRec]
    BY DEF JobRec
  <2> QED BY <2>1, <2>2 DEF MapTypes
<1>2. IdsInv /\ SupersedeInv /\ LedgerInv
  BY DEF IdsInv, SupersedeInv, LedgerInv
<1>3. BodiesInv
  <2>1. \A w : BodiesOf(descriptors, bodies, w) = {}
    BY DEF BodiesOf
  <2>2. Cardinality({}) = 0 /\ mapStops = 0
    BY FS_EmptySet
  <2> QED BY <2>1, <2>2 DEF BodiesInv
<1>4. NewestBodiesKept /\ LastRecordedKept
  BY DEF NewestBodiesKept, LastRecordedKept
<1> QED BY <1>1, <1>2, <1>3, <1>4 DEF MapsInv

(* Every step leaves values of the right kind.                              *)
LEMMA MapTypeStep ==
  ASSUME MapsInv, MapsNext
  PROVE  MapTypes'
<1> USE MapsAssumption DEF MapsInv, MapTypes, JobRec, MapRec, Ids, HasMap, InLedger
<1>1. ASSUME NEW p \in Mapper, NEW w \in MapSpace, NEW c \in Commits, GenerateMap(p, w, c)
      PROVE MapTypes'
  <2>1. PICK old \in {NoMap} \cup {d.id : d \in {e \in descriptors : e.ws = w /\ e.commits = c}} :
           Job(p, [step |-> "generate", ws |-> w, commits |-> c, supersedes |-> old])
    BY <1>1, GenerateEffect
  <2> QED BY <1>1, <2>1 DEF GenerateMap, Job
<1>2. ASSUME NEW p \in Mapper, GenerationFails(p) PROVE MapTypes'
  BY <1>2 DEF GenerationFails, Job, NoJob
<1>3. ASSUME NEW p \in Mapper, MaterializeMap(p) PROVE MapTypes'
  BY <1>3 DEF MaterializeMap, Job, NoJob
<1>4. ASSUME NEW p \in Mapper, WriteBody(p) PROVE MapTypes'
  <2>1. job[p].map.id \in 1 .. mapsMade
    BY <1>4 DEF WriteBody, IdsInv
  <2> QED BY <1>4, <2>1 DEF WriteBody, Job, NoJob
<1>5. ASSUME NEW p \in Mapper, AppendDescriptor(p) PROVE MapTypes'
  <2>1. Recorded(p)
    BY <1>5, RecordEffect
  <2> QED BY <1>5, <2>1 DEF AppendDescriptor, Recorded, Job, NoJob
<1>6. ASSUME NEW p \in Mapper, PruneBodies(p) PROVE MapTypes'
  <2>1. BodiesPruned(p)
    BY <1>6, RecordEffect
  <2> QED BY <1>6, <2>1 DEF PruneBodies, BodiesPruned, Job, NoJob
<1>7. ASSUME NEW p \in Mapper, MapStops(p) PROVE MapTypes'
  BY <1>7 DEF MapStops, Job, NoJob
<1>8. ASSUME NEW m \in bodies, BodyDamaged(m) PROVE MapTypes'
  BY <1>8 DEF BodyDamaged
<1>9. ASSUME MapClockMoves PROVE MapTypes'
  BY <1>9 DEF MapClockMoves
<1> QED BY <1>1, <1>2, <1>3, <1>4, <1>5, <1>6, <1>7, <1>8, <1>9 DEF MapsNext

(* A map gets the next id when it is generated.                             *)
LEMMA IdsStep ==
  ASSUME MapsInv, MapsNext
  PROVE  IdsInv'
<1> USE MapsAssumption DEF MapsInv, MapTypes, JobRec, MapRec, Ids, HasMap, InLedger, IdsInv
<1>1. ASSUME NEW p \in Mapper, NEW w \in MapSpace, NEW c \in Commits, GenerateMap(p, w, c)
      PROVE IdsInv'
  BY <1>1 DEF GenerateMap, Job, NoJob
<1>2. ASSUME NEW p \in Mapper, GenerationFails(p) PROVE IdsInv'
  BY <1>2 DEF GenerationFails, Job, NoJob
<1>3. ASSUME NEW p \in Mapper, MaterializeMap(p) PROVE IdsInv'
  BY <1>3 DEF MaterializeMap, Job, NoJob
<1>4. ASSUME NEW p \in Mapper, WriteBody(p) PROVE IdsInv'
  BY <1>4 DEF WriteBody, Job, NoJob
<1>5. ASSUME NEW p \in Mapper, AppendDescriptor(p) PROVE IdsInv'
  <2>1. Recorded(p)
    BY <1>5, RecordEffect
  <2> QED BY <1>5, <2>1 DEF AppendDescriptor, Recorded, Job, NoJob
<1>6. ASSUME NEW p \in Mapper, PruneBodies(p) PROVE IdsInv'
  <2>1. BodiesPruned(p)
    BY <1>6, RecordEffect
  <2> QED BY <1>6, <2>1 DEF PruneBodies, BodiesPruned, Job, NoJob
<1>7. ASSUME NEW p \in Mapper, MapStops(p) PROVE IdsInv'
  BY <1>7 DEF MapStops, Job, NoJob
<1>8. ASSUME NEW m \in bodies, BodyDamaged(m) PROVE IdsInv'
  BY <1>8 DEF BodyDamaged
<1>9. ASSUME MapClockMoves PROVE IdsInv'
  BY <1>9 DEF MapClockMoves
<1> QED BY <1>1, <1>2, <1>3, <1>4, <1>5, <1>6, <1>7, <1>8, <1>9 DEF MapsNext

(* The map to supersede is recorded before the new one gets its id.         *)
LEMMA SupersedeStep ==
  ASSUME MapsInv, MapsNext
  PROVE  SupersedeInv'
<1> USE MapsAssumption DEF MapsInv, MapTypes, JobRec, MapRec, Ids, HasMap, InLedger, IdsInv,
    SupersedeInv, SupersedesOlder
<1>1. ASSUME NEW p \in Mapper, NEW w \in MapSpace, NEW c \in Commits, GenerateMap(p, w, c)
      PROVE SupersedeInv'
  <2>1. PICK old \in {NoMap} \cup {d.id : d \in {e \in descriptors : e.ws = w /\ e.commits = c}} :
           Job(p, [step |-> "generate", ws |-> w, commits |-> c, supersedes |-> old])
    BY <1>1, GenerateEffect
  <2> QED BY <1>1, <2>1 DEF GenerateMap, Job
<1>2. ASSUME NEW p \in Mapper, GenerationFails(p) PROVE SupersedeInv'
  BY <1>2 DEF GenerationFails, Job, NoJob
<1>3. ASSUME NEW p \in Mapper, MaterializeMap(p) PROVE SupersedeInv'
  BY <1>3 DEF MaterializeMap, Job, NoJob
<1>4. ASSUME NEW p \in Mapper, WriteBody(p) PROVE SupersedeInv'
  BY <1>4 DEF WriteBody, Job, NoJob
<1>5. ASSUME NEW p \in Mapper, AppendDescriptor(p) PROVE SupersedeInv'
  <2>1. Recorded(p)
    BY <1>5, RecordEffect
  <2> QED BY <1>5, <2>1 DEF AppendDescriptor, Recorded, Job, NoJob
<1>6. ASSUME NEW p \in Mapper, PruneBodies(p) PROVE SupersedeInv'
  <2>1. BodiesPruned(p)
    BY <1>6, RecordEffect
  <2> QED BY <1>6, <2>1 DEF PruneBodies, BodiesPruned, Job, NoJob
<1>7. ASSUME NEW p \in Mapper, MapStops(p) PROVE SupersedeInv'
  BY <1>7 DEF MapStops, Job, NoJob
<1>8. ASSUME NEW m \in bodies, BodyDamaged(m) PROVE SupersedeInv'
  BY <1>8 DEF BodyDamaged
<1>9. ASSUME MapClockMoves PROVE SupersedeInv'
  BY <1>9 DEF MapClockMoves
<1> QED BY <1>1, <1>2, <1>3, <1>4, <1>5, <1>6, <1>7, <1>8, <1>9 DEF MapsNext

(* The workspace lock is held from the body to the pruning.                 *)
LEMMA LedgerStep ==
  ASSUME MapsInv, MapsNext
  PROVE  LedgerInv'
<1> USE MapsAssumption DEF MapsInv, MapTypes, JobRec, MapRec, Ids, HasMap, InLedger, IdsInv,
    LedgerInv
<1>1. ASSUME NEW p \in Mapper, NEW w \in MapSpace, NEW c \in Commits, GenerateMap(p, w, c)
      PROVE LedgerInv'
  BY <1>1 DEF GenerateMap, Job, NoJob
<1>2. ASSUME NEW p \in Mapper, GenerationFails(p) PROVE LedgerInv'
  BY <1>2 DEF GenerationFails, Job, NoJob
<1>3. ASSUME NEW p \in Mapper, MaterializeMap(p) PROVE LedgerInv'
  BY <1>3 DEF MaterializeMap, Job, NoJob
<1>4. ASSUME NEW p \in Mapper, WriteBody(p) PROVE LedgerInv'
  BY <1>4 DEF WriteBody, Job, NoJob, LedgerFree
<1>5. ASSUME NEW p \in Mapper, AppendDescriptor(p) PROVE LedgerInv'
  <2>1. Recorded(p)
    BY <1>5, RecordEffect
  <2> QED BY <1>5, <2>1 DEF AppendDescriptor, Recorded, Job, NoJob
<1>6. ASSUME NEW p \in Mapper, PruneBodies(p) PROVE LedgerInv'
  <2>1. BodiesPruned(p)
    BY <1>6, RecordEffect
  <2>2. \A x \in bodies : x \in bodies' \/ (/\ x # job[p].map.id
                                             /\ \E d \in descriptors : d.id = x /\ d.ws = job[p].map.ws)
    BY <2>1, StaleOwn DEF BodiesPruned
  <2>3. job' = [job EXCEPT ![p] = NoJob] /\ UNCHANGED <<descriptors, damaged, lastJob>>
        /\ job[p].step = "prune"
    BY <1>6 DEF PruneBodies, Job
  <2>4. ASSUME NEW q \in Mapper, q # p, InLedger(q) PROVE job[q].map.id \in bodies' \cup damaged
    <3>1. CASE job[q].step = "append"
      BY <2>2, <2>4, <3>1
    <3>2. CASE job[q].step = "prune"
      BY <2>2, <2>3, <2>4, <3>2
    <3> QED BY <2>4, <3>1, <3>2
  <2> QED BY <2>3, <2>4 DEF NoJob
<1>7. ASSUME NEW p \in Mapper, MapStops(p) PROVE LedgerInv'
  BY <1>7 DEF MapStops, Job, NoJob
<1>8. ASSUME NEW m \in bodies, BodyDamaged(m) PROVE LedgerInv'
  BY <1>8 DEF BodyDamaged
<1>9. ASSUME MapClockMoves PROVE LedgerInv'
  BY <1>9 DEF MapClockMoves
<1> QED BY <1>1, <1>2, <1>3, <1>4, <1>5, <1>6, <1>7, <1>8, <1>9 DEF MapsNext

(* A map is recorded with its body, and pruning removes stale ones only.    *)
LEMMA NewestStep ==
  ASSUME MapsInv, MapsNext
  PROVE  NewestBodiesKept'
<1> USE MapsAssumption DEF MapsInv, MapTypes, JobRec, MapRec, Ids, HasMap, InLedger,
    NewestBodiesKept
<1>1. ASSUME NEW p \in Mapper, NEW w \in MapSpace, NEW c \in Commits, GenerateMap(p, w, c)
      PROVE NewestBodiesKept'
  BY <1>1, StaleIs DEF GenerateMap, Job, NoJob
<1>2. ASSUME NEW p \in Mapper, GenerationFails(p) PROVE NewestBodiesKept'
  BY <1>2, StaleIs DEF GenerationFails, Job, NoJob
<1>3. ASSUME NEW p \in Mapper, MaterializeMap(p) PROVE NewestBodiesKept'
  BY <1>3, StaleIs DEF MaterializeMap, Job, NoJob
<1>4. ASSUME NEW p \in Mapper, WriteBody(p) PROVE NewestBodiesKept'
  BY <1>4, StaleIs DEF WriteBody, Job, NoJob
<1>5. ASSUME NEW p \in Mapper, AppendDescriptor(p) PROVE NewestBodiesKept'
  <2>1. Recorded(p) /\ UNCHANGED <<bodies, damaged>>
    BY <1>5, RecordEffect DEF AppendDescriptor
  <2>2. /\ descriptors \in SUBSET descriptors' /\ IsFiniteSet(descriptors')
        /\ descriptors' \in SUBSET MapRec /\ \A d, e \in descriptors' : d.id = e.id => d = e
    BY <2>1 DEF Recorded, IdsInv
  <2> SUFFICES ASSUME NEW d \in descriptors', d.id \notin StaleIn(descriptors', d.ws)
               PROVE  d.id \in bodies \cup damaged
    BY <2>1, StaleIs
  <2>3. CASE d = job[p].map
    BY <1>5, <2>3 DEF AppendDescriptor, LedgerInv
  <2>4. CASE d \in descriptors
    <3>1. d \in FreshIn(descriptors', d.ws)
      BY <2>2, FreshOrStale
    <3>2. d \in FreshIn(descriptors, d.ws)
      BY <2>2, <2>4, <3>1, FreshBefore
    <3>3. descriptors \in SUBSET MapRec /\ IsFiniteSet(descriptors)
          /\ \A a, b \in descriptors : a.id = b.id => a = b
      BY DEF IdsInv
    <3>4. d.id \notin StaleIn(descriptors, d.ws)
      BY <2>4, <3>2, <3>3, FreshOrStale
    <3> QED BY <2>4, <3>4, StaleIs
  <2> QED BY <2>1, <2>3, <2>4 DEF Recorded
<1>6. ASSUME NEW p \in Mapper, PruneBodies(p) PROVE NewestBodiesKept'
  <2>1. BodiesPruned(p) /\ UNCHANGED <<descriptors, damaged>>
    BY <1>6, RecordEffect DEF PruneBodies
  <2> SUFFICES ASSUME NEW d \in descriptors, d.id \notin StaleIn(descriptors, d.ws)
               PROVE  d.id \in bodies' \cup damaged
    BY <2>1, StaleIs
  <2>2. d.id \in bodies \cup damaged
    BY StaleIs
  <2>3. d.id \notin StaleIn(descriptors, job[p].map.ws)
    <3>1. ASSUME d.id \in StaleIn(descriptors, job[p].map.ws) PROVE FALSE
      <4>1. PICK e \in descriptors : e.id = d.id /\ e.ws = job[p].map.ws
        BY <3>1, StaleOwn
      <4>2. e = d
        BY <4>1 DEF IdsInv
      <4> QED BY <3>1, <4>1, <4>2
    <3> QED BY <3>1
  <2> QED BY <2>1, <2>2, <2>3 DEF BodiesPruned
<1>7. ASSUME NEW p \in Mapper, MapStops(p) PROVE NewestBodiesKept'
  BY <1>7, StaleIs DEF MapStops, Job, NoJob
<1>8. ASSUME NEW m \in bodies, BodyDamaged(m) PROVE NewestBodiesKept'
  <2>1. UNCHANGED descriptors /\ bodies \cup damaged \subseteq bodies' \cup damaged'
    BY <1>8 DEF BodyDamaged
  <2> QED BY <2>1, StaleIs
<1>9. ASSUME MapClockMoves PROVE NewestBodiesKept'
  BY <1>9, StaleIs DEF MapClockMoves
<1> QED BY <1>1, <1>2, <1>3, <1>4, <1>5, <1>6, <1>7, <1>8, <1>9 DEF MapsNext

(* Pruning spares the body just written, and those of other workspaces.     *)
LEMMA LastRecordedStep ==
  ASSUME MapsInv, MapsNext
  PROVE  LastRecordedKept'
<1> USE MapsAssumption DEF MapsInv, MapTypes, JobRec, MapRec, Ids, HasMap, InLedger,
    LastRecordedKept, LedgerInv
<1>1. ASSUME NEW p \in Mapper, NEW w \in MapSpace, NEW c \in Commits, GenerateMap(p, w, c)
      PROVE LastRecordedKept'
  BY <1>1 DEF GenerateMap, Job, NoJob
<1>2. ASSUME NEW p \in Mapper, GenerationFails(p) PROVE LastRecordedKept'
  BY <1>2 DEF GenerationFails, Job, NoJob
<1>3. ASSUME NEW p \in Mapper, MaterializeMap(p) PROVE LastRecordedKept'
  BY <1>3 DEF MaterializeMap, Job, NoJob
<1>4. ASSUME NEW p \in Mapper, WriteBody(p) PROVE LastRecordedKept'
  BY <1>4 DEF WriteBody, Job, NoJob
<1>5. ASSUME NEW p \in Mapper, AppendDescriptor(p) PROVE LastRecordedKept'
  <2>1. Recorded(p)
    BY <1>5, RecordEffect
  <2> QED BY <1>5, <2>1 DEF AppendDescriptor, Recorded, Job, NoJob
<1>6. ASSUME NEW p \in Mapper, PruneBodies(p) PROVE LastRecordedKept'
  <2>1. BodiesPruned(p) /\ UNCHANGED <<lastJob, damaged>> /\ job[p].step = "prune"
    BY <1>6, RecordEffect DEF PruneBodies
  <2> SUFFICES ASSUME NEW w \in MapSpace, lastJob[w] # NoMap
               PROVE  lastJob[w] \in bodies' \cup damaged
    BY <2>1
  <2>2. lastJob[w] \in bodies \cup damaged
    OBVIOUS
  <2>3. CASE w = job[p].map.ws
    BY <2>1, <2>2, <2>3 DEF BodiesPruned
  <2>4. CASE w # job[p].map.ws
    <3>1. lastJob[w] \notin StaleIn(descriptors, job[p].map.ws)
      <4>1. PICK d \in descriptors : d.id = lastJob[w] /\ d.ws = w
        OBVIOUS
      <4>2. ASSUME lastJob[w] \in StaleIn(descriptors, job[p].map.ws) PROVE FALSE
        <5>1. PICK e \in descriptors : e.id = lastJob[w] /\ e.ws = job[p].map.ws
          BY <4>2, StaleOwn
        <5> QED BY <2>4, <4>1, <5>1 DEF IdsInv
      <4> QED BY <4>2
    <3> QED BY <2>1, <2>2, <3>1 DEF BodiesPruned
  <2> QED BY <2>3, <2>4
<1>7. ASSUME NEW p \in Mapper, MapStops(p) PROVE LastRecordedKept'
  BY <1>7 DEF MapStops, Job, NoJob
<1>8. ASSUME NEW m \in bodies, BodyDamaged(m) PROVE LastRecordedKept'
  BY <1>8 DEF BodyDamaged
<1>9. ASSUME MapClockMoves PROVE LastRecordedKept'
  BY <1>9 DEF MapClockMoves
<1> QED BY <1>1, <1>2, <1>3, <1>4, <1>5, <1>6, <1>7, <1>8, <1>9 DEF MapsNext

(* A recorded map adds one body to its workspace; pruning leaves the newest *)
(* and the one just written.                                                *)
LEMMA BodiesStep ==
  ASSUME MapsInv, MapsNext
  PROVE  BodiesInv'
<1> USE MapsAssumption DEF MapsInv, MapTypes, JobRec, MapRec, Ids, HasMap, InLedger, BodiesInv,
    Pruning
<1>1. ASSUME NEW p \in Mapper, NEW w \in MapSpace, NEW c \in Commits, GenerateMap(p, w, c)
      PROVE BodiesInv'
  BY <1>1 DEF GenerateMap, Job, NoJob
<1>2. ASSUME NEW p \in Mapper, GenerationFails(p) PROVE BodiesInv'
  BY <1>2 DEF GenerationFails, Job, NoJob
<1>3. ASSUME NEW p \in Mapper, MaterializeMap(p) PROVE BodiesInv'
  BY <1>3 DEF MaterializeMap, Job, NoJob
<1>4. ASSUME NEW p \in Mapper, WriteBody(p) PROVE BodiesInv'
  <2>1. \A w : BodiesOf(descriptors, bodies', w) = BodiesOf(descriptors, bodies, w)
    BY <1>4 DEF WriteBody, BodiesOf, SpaceIn, IdsInv
  <2> QED BY <1>4, <2>1 DEF WriteBody, Job
<1>5. ASSUME NEW p \in Mapper, AppendDescriptor(p) PROVE BodiesInv'
  <2> DEFINE m == job[p].map
             Has(D, w) == Cardinality(BodiesOf(D, bodies, w))
  <2>1. Recorded(p) /\ UNCHANGED <<bodies, mapStops>> /\ job[p].step = "append"
    BY <1>5, RecordEffect DEF AppendDescriptor
  <2>2. \A w \in MapSpace : Has(descriptors, w) \in Nat /\ Has(descriptors', w) \in Nat
    BY BodiesCount
  <2>3. m.ws \in MapSpace /\ ~Pruning(m.ws)
    BY <2>1 DEF LedgerInv
  <2>4. job'[p].step = "prune" /\ job'[p].map = m /\ \A q \in Mapper : q # p => job'[q] = job[q]
    BY <1>5 DEF AppendDescriptor, Job
  <2>5. Has(descriptors', m.ws) <= Has(descriptors, m.ws) + 1
    <3> DEFINE R == BodiesOf(descriptors, bodies, m.ws)
    <3>1. BodiesOf(descriptors', bodies, m.ws) \in SUBSET (R \cup {m.id})
      BY <2>1 DEF Recorded, BodiesOf, SpaceIn
    <3>2. IsFiniteSet(R) /\ Cardinality(R) \in Nat
      BY BodiesCount
    <3> HIDE DEF R
    <3>3. IsFiniteSet(R \cup {m.id}) /\ Cardinality(R \cup {m.id}) \in Nat
          /\ Cardinality(R \cup {m.id}) <= Cardinality(R) + 1
      <4>1. Cardinality(R \cup {m.id}) = IF m.id \in R THEN Cardinality(R) ELSE Cardinality(R) + 1
        BY ONLY <3>2, FS_AddElement
      <4> QED BY ONLY <3>2, <4>1, FS_AddElement
    <3>4. Has(descriptors', m.ws) <= Cardinality(R \cup {m.id})
      BY ONLY <3>1, <3>3, FS_Subset
    <3> QED BY <2>2, <2>3, <3>2, <3>3, <3>4 DEF R
  <2>6. \A w \in MapSpace : w # m.ws => BodiesOf(descriptors', bodies, w) = BodiesOf(descriptors, bodies, w)
    BY <2>1 DEF Recorded, BodiesOf, SpaceIn
  <2>7. ASSUME NEW w \in MapSpace, w # m.ws
        PROVE  /\ Has(descriptors', w) <= KeptBodies + 1 + mapStops + 1
               /\ ~Pruning(w)' => Has(descriptors', w) <= KeptBodies + 1 + mapStops
    <3>1. Pruning(w) => Pruning(w)'
      BY <2>1, <2>4, <2>7
    <3> QED BY <2>6, <2>7, <3>1
  <2>8. Has(descriptors', m.ws) <= KeptBodies + 1 + mapStops + 1
    BY <2>2, <2>3, <2>5
  <2>9. \E q \in Mapper : job'[q].step = "prune" /\ job'[q].map.ws = m.ws
    BY <2>4
  <2> QED BY <2>1, <2>2, <2>3, <2>7, <2>8, <2>9
<1>6. ASSUME NEW p \in Mapper, PruneBodies(p) PROVE BodiesInv'
  <2> DEFINE m == job[p].map
  <2>1. BodiesPruned(p) /\ UNCHANGED <<descriptors, mapStops>> /\ job[p].step = "prune"
    BY <1>6, RecordEffect DEF PruneBodies
  <2>2. job'[p].step = "idle" /\ \A q \in Mapper : q # p => job'[q] = job[q]
    BY <1>6 DEF PruneBodies, Job, NoJob
  <2>3. bodies' \in SUBSET bodies
    BY <2>1 DEF BodiesPruned
  <2>4. \A w \in MapSpace : /\ Cardinality(BodiesOf(descriptors, bodies, w)) \in Nat
                            /\ Cardinality(BodiesOf(descriptors, bodies', w)) \in Nat
                            /\ Cardinality(BodiesOf(descriptors, bodies', w))
                                  <= Cardinality(BodiesOf(descriptors, bodies, w))
    <3>1. \A w \in MapSpace : BodiesOf(descriptors, bodies', w) \in SUBSET BodiesOf(descriptors, bodies, w)
      BY <2>3 DEF BodiesOf
    <3>2. \A w \in MapSpace : IsFiniteSet(BodiesOf(descriptors, bodies, w))
                              /\ Cardinality(BodiesOf(descriptors, bodies, w)) \in Nat
      BY BodiesCount
    <3> QED BY ONLY <3>1, <3>2, FS_Subset, FS_CardinalityType
  <2>5. Cardinality(BodiesOf(descriptors, bodies', m.ws)) <= KeptBodies + 1
    <3> DEFINE F == {d.id : d \in FreshIn(descriptors, m.ws)}
    <3>1. descriptors \in SUBSET MapRec /\ IsFiniteSet(descriptors) /\ m \in descriptors /\ m.ws \in MapSpace
          /\ \A d, e \in descriptors : d.id = e.id => d = e
      BY <2>1 DEF BodiesPruned, IdsInv
    <3>2. IsFiniteSet(F) /\ Cardinality(F) \in Nat /\ Cardinality(F) <= KeptBodies
      BY <3>1, FreshFew
    <3>3. BodiesOf(descriptors, bodies', m.ws) \in SUBSET (F \cup {m.id})
      <4> SUFFICES ASSUME NEW d \in descriptors, d.ws = m.ws, d.id \in bodies', d.id # m.id
                   PROVE  d \in FreshIn(descriptors, m.ws)
        BY DEF BodiesOf, SpaceIn
      <4>1. d.id \notin StaleIn(descriptors, d.ws)
        BY <2>1 DEF BodiesPruned
      <4> QED BY <3>1, <4>1, FreshOrStale
    <3> HIDE DEF F
    <3>4. Cardinality(F \cup {m.id}) = IF m.id \in F THEN Cardinality(F) ELSE Cardinality(F) + 1
      BY ONLY <3>2, FS_AddElement
    <3>5. IsFiniteSet(F \cup {m.id}) /\ Cardinality(F \cup {m.id}) \in Nat
      BY ONLY <3>2, FS_AddElement, FS_CardinalityType
    <3>6. Cardinality(F \cup {m.id}) <= KeptBodies + 1
      BY ONLY <3>2, <3>4, <3>5, MapsAssumption
    <3>7. Cardinality(BodiesOf(descriptors, bodies', m.ws)) <= Cardinality(F \cup {m.id})
      BY ONLY <3>3, <3>5, FS_Subset
    <3> QED BY <2>4, <3>1, <3>5, <3>6, <3>7
  <2>6. ASSUME NEW w \in MapSpace, w # m.ws, ~Pruning(w)' PROVE ~Pruning(w)
    BY <2>1, <2>2, <2>6
  <2>7. ASSUME NEW w \in MapSpace
        PROVE  /\ Cardinality(BodiesOf(descriptors, bodies', w)) <= KeptBodies + 1 + mapStops + 1
               /\ ~Pruning(w)' => Cardinality(BodiesOf(descriptors, bodies', w)) <= KeptBodies + 1 + mapStops
    <3>1. CASE w = m.ws
      <4>1. KeptBodies \in Nat /\ mapStops \in Nat /\ Cardinality(BodiesOf(descriptors, bodies', w)) \in Nat
        BY <2>4
      <4> QED BY ONLY <2>5, <3>1, <4>1
    <3>2. CASE w # m.ws
      BY <2>4, <2>6, <3>2
    <3> QED BY <3>1, <3>2
  <2> QED BY <2>1, <2>7
<1>7. ASSUME NEW p \in Mapper, MapStops(p) PROVE BodiesInv'
  <2>1. UNCHANGED <<descriptors, bodies>> /\ mapStops' = mapStops + 1
    BY <1>7 DEF MapStops
  <2>2. \A w \in MapSpace : Cardinality(BodiesOf(descriptors, bodies, w)) \in Nat
    BY BodiesCount
  <2> QED BY <2>1, <2>2
<1>8. ASSUME NEW m \in bodies, BodyDamaged(m) PROVE BodiesInv'
  <2>1. UNCHANGED <<descriptors, mapStops, job>> /\ bodies' \in SUBSET bodies
    BY <1>8 DEF BodyDamaged
  <2>2. \A w \in MapSpace : /\ BodiesOf(descriptors, bodies', w) \in SUBSET BodiesOf(descriptors, bodies, w)
                            /\ IsFiniteSet(BodiesOf(descriptors, bodies, w))
    BY <2>1, BodiesCount DEF BodiesOf
  <2>3. \A w \in MapSpace : /\ Cardinality(BodiesOf(descriptors, bodies, w)) \in Nat
                            /\ Cardinality(BodiesOf(descriptors, bodies', w)) \in Nat
                            /\ Cardinality(BodiesOf(descriptors, bodies', w))
                                  <= Cardinality(BodiesOf(descriptors, bodies, w))
    BY ONLY <2>2, FS_Subset, FS_CardinalityType
  <2> QED BY <2>1, <2>3
<1>9. ASSUME MapClockMoves PROVE BodiesInv'
  BY <1>9 DEF MapClockMoves
<1> QED BY <1>1, <1>2, <1>3, <1>4, <1>5, <1>6, <1>7, <1>8, <1>9 DEF MapsNext

(* Every step keeps the invariant of the maps.                              *)
LEMMA MapsInductive == MapsInv /\ [MapsNext]_mapVars => MapsInv'
<1> SUFFICES ASSUME MapsInv, [MapsNext]_mapVars PROVE MapsInv'
  OBVIOUS
<1>1. CASE MapsNext
  BY <1>1, MapTypeStep, IdsStep, SupersedeStep, LedgerStep, BodiesStep, NewestStep, LastRecordedStep
     DEF MapsInv
<1>2. CASE UNCHANGED mapVars
  <2> USE <1>2 DEF mapVars, MapsInv, HasMap, InLedger
  <2>1. MapTypes' /\ IdsInv'
    BY DEF MapTypes, IdsInv
  <2>2. SupersedeInv' /\ LedgerInv'
    BY DEF SupersedeInv, SupersedesOlder, LedgerInv
  <2>3. BodiesInv'
    BY DEF BodiesInv, Pruning
  <2>4. NewestBodiesKept' /\ LastRecordedKept'
    BY StaleIs DEF NewestBodiesKept, LastRecordedKept
  <2> QED BY <2>1, <2>2, <2>3, <2>4
<1> QED BY <1>1, <1>2

(* record_codebase_map and latest_map_for, for any number of processes,     *)
(* workspaces, commits and kept bodies, however the clock moves and         *)
(* requests break off: commits with a recorded map have a current one, and  *)
(* the newest maps and the last one have their bodies, and few others.      *)
THEOREM MapsAreKept == StoreSpec => []MapsSound
<1>1. StoreInit => MapsInv
  BY MapsStart DEF StoreInit
<1>2. MapsInv /\ [StoreNext]_storeVars => MapsInv'
  BY StoreStep, MapsInductive
<1>3. MapsInv => MapsSound
  <2> SUFFICES ASSUME MapsInv PROVE MapsSound
    OBVIOUS
  <2>1. MapsTypeOK
    BY MapsAssumption DEF MapsInv, MapTypes, MapRec, Ids, IdsInv, SupersedeInv, SupersedesOlder,
        MapsTypeOK
  <2>2. BodiesBounded
    <3> DEFINE Busy == {p \in Mapper : job[p].step \in {"append", "prune"}}
    <3> SUFFICES ASSUME NEW w \in MapSpace
                 PROVE  Cardinality(BodiesOf(descriptors, bodies, w))
                            <= KeptBodies + 1 + mapStops + Cardinality(Busy)
      BY DEF BodiesBounded, BodiesOf, SpaceIn, OfSpace
    <3>1. IsFiniteSet(Busy) /\ Cardinality(Busy) \in Nat
      <4>1. Busy \in SUBSET Mapper
        OBVIOUS
      <4> QED BY ONLY <4>1, FS_Subset, FS_CardinalityType, MapsAssumption
    <3>2. Pruning(w) => Cardinality(Busy) >= 1
      <4>1. Pruning(w) => Busy # {}
        BY DEF Pruning
      <4>2. Busy # {} => Cardinality(Busy) # 0
        BY ONLY <3>1, FS_EmptySet
      <4> QED BY <3>1, <4>1, <4>2
    <3>3. Cardinality(BodiesOf(descriptors, bodies, w)) \in Nat /\ mapStops \in Nat /\ KeptBodies \in Nat
      BY BodiesCount, MapsAssumption DEF MapsInv, MapTypes
    <3>4. /\ Cardinality(BodiesOf(descriptors, bodies, w)) <= KeptBodies + 1 + mapStops + 1
          /\ ~Pruning(w) => Cardinality(BodiesOf(descriptors, bodies, w)) <= KeptBodies + 1 + mapStops
      BY DEF MapsInv, BodiesInv
    <3> HIDE DEF Busy
    <3> QED BY <3>1, <3>2, <3>3, <3>4
  <2> QED BY <2>1, <2>2, LatestExists DEF MapsInv, MapsSound
<1> QED BY <1>1, <1>2, <1>3, PTL DEF StoreSpec
=============================================================================
