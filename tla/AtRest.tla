------------------------------- MODULE AtRest -------------------------------
(***************************************************************************)
(* The local content key and the one-time sweep that encrypts the files of *)
(* older builds: at_rest.rs, and migrate_active_state_at_rest of           *)
(* local_state/workspace_store.rs.                                         *)
(*                                                                         *)
(* Every core process opens the store: it loads or creates the key under   *)
(* the key lock, then sweeps the managed files under the migration lock    *)
(* unless a marker says that was done.  A managed file is plain text or    *)
(* sealed with a key; replacing one is atomic and durable (ReplaceFile).   *)
(* The key file is not: its directory entry is durable only after a sync   *)
(* of the data root, so RootDisk holds every root a power loss may leave.  *)
(***************************************************************************)
EXTENDS Naturals, FiniteSets, Sequences

CONSTANTS
    Opener,         \* core processes
    ContentKey,     \* random keys; their number bounds the keys generated
    MaxDeath,       \* bound: processes that die
    MaxBlackout,    \* bound: power losses
    MaxKeyLoss,     \* bound: losses of the key file
    NoFile

ASSUME AtRestAssumption ==
    /\ {NoFile, "plain", "short"} \cap ContentKey = {}
    /\ NoFile # "plain" /\ NoFile # "short"

\* The files of the sweep, in its order: the local state, the event logs, the
\* two pointers of the data root, and the directories of maps, sessions and
\* backup schedules.
Sweep == <<"state", "events", "pointers", "directories">>
Managed == {"state", "events", "pointers", "directories"}

\* Replacing one of these syncs the data root itself.
InRoot == {"state", "pointers"}

VARIABLES
    root,       \* the key file and the pending key file
    rootDisk,   \* what a power loss may leave of them
    content,    \* each managed file: NoFile, "plain", or the key it is sealed with
    marker,     \* the marker of the sweep: NoFile or the key it is sealed with
    at,         \* where each process is
    cipher,     \* the key each process loaded
    swept,      \* managed files each process has gone through
    deaths, blackouts, keyLosses

atRestVars == <<root, rootDisk, content, marker, at, cipher, swept,
              deaths, blackouts, keyLosses>>
counts == <<deaths, blackouts, keyLosses>>

HoldsKeyLock == {"loadKey", "writeKey", "renameKey", "syncKey"}
Free(locked) == \A q \in Opener : at[q] \notin locked

To(p, place) == at' = [at EXCEPT ![p] = place]

\* A change of the data root that is not synced yet.
RootChanges(new) ==
    /\ root' = new
    /\ rootDisk' = rootDisk \cup {new}

\* A start that fails: the process reports the error and ends.
StartFails(p) ==
    /\ To(p, "off")
    /\ cipher' = [cipher EXCEPT ![p] = NoFile]
    /\ UNCHANGED <<root, rootDisk, content, marker, swept, counts>>

AtRestInit ==
    /\ root = [key |-> NoFile, pending |-> NoFile]
    /\ rootDisk = {root}
    /\ content \in [Managed -> {NoFile, "plain"}]
    /\ (\E f \in Managed : content[f] # NoFile) => content["state"] # NoFile
    /\ marker = NoFile
    /\ at = [p \in Opener |-> "off"]
    /\ cipher = [p \in Opener |-> NoFile]
    /\ swept = [p \in Opener |-> 0]
    /\ deaths = 0 /\ blackouts = 0 /\ keyLosses = 0

-----------------------------------------------------------------------------
(* from_local_key_file takes the key lock.                                  *)
OpenStore(p) ==
    /\ at[p] = "off" /\ Free(HoldsKeyLock)
    /\ To(p, "loadKey")
    /\ UNCHANGED <<root, rootDisk, content, marker, cipher, swept, counts>>

(* The key file exists and is read; the root is not synced here.            *)
ReadKey(p) ==
    /\ at[p] = "loadKey" /\ root.key # NoFile
    /\ cipher' = [cipher EXCEPT ![p] = root.key]
    /\ To(p, "migrate")
    /\ UNCHANGED <<root, rootDisk, content, marker, swept, counts>>

(* A complete pending key, left by a process that died, is promoted.        *)
PromotePending(p) ==
    /\ at[p] = "loadKey" /\ root.key = NoFile /\ root.pending \in ContentKey
    /\ cipher' = [cipher EXCEPT ![p] = root.pending]
    /\ RootChanges([key |-> root.pending, pending |-> NoFile])
    /\ To(p, "syncKey")
    /\ UNCHANGED <<content, marker, swept, counts>>

(* A pending key that was not written completely has the wrong length.      *)
PendingTooShort(p) ==
    /\ at[p] = "loadKey" /\ root.key = NoFile /\ root.pending = "short"
    /\ StartFails(p)

\* Keys are random: a new one differs from every key in use.
Fresh(k) ==
    /\ k # marker /\ \A f \in Managed : content[f] # k
    /\ \A q \in Opener : cipher[q] # k

(* No key at all: a fresh one is generated and the pending file created.    *)
GenerateKey(p, k) ==
    /\ at[p] = "loadKey" /\ root = [key |-> NoFile, pending |-> NoFile]
    /\ Fresh(k)
    /\ cipher' = [cipher EXCEPT ![p] = k]
    /\ RootChanges([root EXCEPT !.pending = "short"])
    /\ To(p, "writeKey")
    /\ UNCHANGED <<content, marker, swept, counts>>

\* The pending file is the same one in every root it may be found in.
Written(d, k) == IF d.pending = "short" THEN [d EXCEPT !.pending = k] ELSE d

(* write_all and sync_all of the pending file.                              *)
WriteKey(p) ==
    /\ at[p] = "writeKey"
    /\ root' = Written(root, cipher[p])
    /\ rootDisk' = {Written(d, cipher[p]) : d \in rootDisk}
    /\ To(p, "renameKey")
    /\ UNCHANGED <<content, marker, cipher, swept, counts>>

RenameKey(p) ==
    /\ at[p] = "renameKey"
    /\ RootChanges([key |-> root.pending, pending |-> NoFile])
    /\ To(p, "syncKey")
    /\ UNCHANGED <<content, marker, cipher, swept, counts>>

(* sync_directory of the data root; the key lock is given back.             *)
SyncKey(p) ==
    /\ at[p] = "syncKey"
    /\ rootDisk' = {root}
    /\ To(p, "migrate")
    /\ UNCHANGED <<root, content, marker, cipher, swept, counts>>

-----------------------------------------------------------------------------
(* migrate_active_state_at_rest under its lock: done already ...            *)
MarkerFound(p) ==
    /\ at[p] = "migrate" /\ Free({"sweep"})
    /\ marker = cipher[p]
    /\ To(p, "ready")
    /\ UNCHANGED <<root, rootDisk, content, marker, cipher, swept, counts>>

(* ... or sealed with another key, which cannot be authenticated ...        *)
MarkerForeign(p) ==
    /\ at[p] = "migrate" /\ Free({"sweep"})
    /\ marker \notin {NoFile, cipher[p]}
    /\ StartFails(p)

(* ... or to be done.                                                       *)
BeginSweep(p) ==
    /\ at[p] = "migrate" /\ Free({"sweep"})
    /\ marker = NoFile
    /\ swept' = [swept EXCEPT ![p] = 0]
    /\ To(p, "sweep")
    /\ UNCHANGED <<root, rootDisk, content, marker, cipher, counts>>

\* Mutant: the local state is left for its next load.
ProtectWithoutState(p) ==
    LET f == Sweep[swept[p] + 1]
    IN  /\ at[p] = "sweep" /\ swept[p] < Len(Sweep)
        /\ content[f] \in {NoFile, "plain", cipher[p]}
        /\ content' = IF content[f] = "plain" /\ f # "state"
                      THEN [content EXCEPT ![f] = cipher[p]] ELSE content
        /\ rootDisk' = IF content[f] = "plain" /\ f \in InRoot \ {"state"} THEN {root} ELSE rootDisk
        /\ swept' = [swept EXCEPT ![p] = @ + 1]
        /\ UNCHANGED <<root, marker, at, cipher, counts>>

(* The next file of the sweep: a plain one is sealed and replaced, a sealed *)
(* one is opened and left.                                                  *)
Protect(p) ==
    LET f == Sweep[swept[p] + 1]
    IN  /\ at[p] = "sweep" /\ swept[p] < Len(Sweep)
        /\ content[f] \in {NoFile, "plain", cipher[p]}
        /\ content' = IF content[f] = "plain" THEN [content EXCEPT ![f] = cipher[p]] ELSE content
        /\ rootDisk' = IF content[f] = "plain" /\ f \in InRoot THEN {root} ELSE rootDisk
        /\ swept' = [swept EXCEPT ![p] = @ + 1]
        /\ UNCHANGED <<root, marker, at, cipher, counts>>

(* A file sealed with another key ends the start; the marker stays away.    *)
ProtectFails(p) ==
    /\ at[p] = "sweep" /\ swept[p] < Len(Sweep)
    /\ content[Sweep[swept[p] + 1]] \notin {NoFile, "plain", cipher[p]}
    /\ StartFails(p)

(* The marker is replaced, and so synced, in the data root.                 *)
WriteMarker(p) ==
    /\ at[p] = "sweep" /\ swept[p] = Len(Sweep)
    /\ marker' = cipher[p] /\ rootDisk' = {root}
    /\ To(p, "ready")
    /\ UNCHANGED <<root, content, cipher, swept, counts>>

(* The request is handled: it may write a managed file, always sealed.      *)
HandleRequest(p) ==
    /\ at[p] = "ready"
    /\ \/ UNCHANGED <<content, rootDisk>>
       \/ \E f \in Managed :
             /\ content[f] \in {NoFile, cipher[p]}
             /\ f = "state" \/ content["state"] # NoFile
             /\ content' = [content EXCEPT ![f] = cipher[p]]
             /\ rootDisk' = IF f \in InRoot THEN {root} ELSE rootDisk
    /\ To(p, "off")
    /\ cipher' = [cipher EXCEPT ![p] = NoFile]
    /\ UNCHANGED <<root, marker, swept, counts>>

-----------------------------------------------------------------------------
(* A build without encryption that still runs: it must read the local state *)
(* before it writes anything, and cannot once that is sealed.               *)
OldBuildWrites(f) ==
    /\ content["state"] = "plain"
    /\ content[f] \in {NoFile, "plain"} /\ content' = [content EXCEPT ![f] = "plain"]
    /\ rootDisk' = IF f \in InRoot THEN {root} ELSE rootDisk
    /\ UNCHANGED <<root, marker, at, cipher, swept, counts>>

(* A process dies; its locks are released.                                  *)
ProcessDies(p) ==
    /\ at[p] # "off" /\ deaths < MaxDeath /\ deaths' = deaths + 1
    /\ To(p, "off")
    /\ cipher' = [cipher EXCEPT ![p] = NoFile]
    /\ UNCHANGED <<root, rootDisk, content, marker, swept, blackouts, keyLosses>>

Blackout ==
    /\ blackouts < MaxBlackout /\ blackouts' = blackouts + 1
    /\ root' \in rootDisk /\ rootDisk' = {root'}
    /\ at' = [p \in Opener |-> "off"]
    /\ cipher' = [p \in Opener |-> NoFile]
    /\ UNCHANGED <<content, marker, swept, deaths, keyLosses>>

(* The key file is deleted while no process runs.                           *)
LoseKeyFile ==
    /\ keyLosses < MaxKeyLoss /\ keyLosses' = keyLosses + 1
    /\ \A p \in Opener : at[p] = "off"
    /\ root' = [key |-> NoFile, pending |-> NoFile] /\ rootDisk' = {root'}
    /\ UNCHANGED <<content, marker, at, cipher, swept, deaths, blackouts>>

AtRestNext ==
    \/ \E p \in Opener :
          \/ OpenStore(p) \/ ReadKey(p) \/ PromotePending(p) \/ PendingTooShort(p)
          \/ \E k \in ContentKey : GenerateKey(p, k)
          \/ WriteKey(p) \/ RenameKey(p) \/ SyncKey(p)
          \/ MarkerFound(p) \/ MarkerForeign(p) \/ BeginSweep(p)
          \/ Protect(p) \/ ProtectFails(p) \/ WriteMarker(p)
          \/ HandleRequest(p) \/ ProcessDies(p)
    \/ \E f \in Managed : OldBuildWrites(f)
    \/ Blackout \/ LoseKeyFile

-----------------------------------------------------------------------------
KeyFile == ContentKey \cup {NoFile, "short"}
Root == [key : ContentKey \cup {NoFile}, pending : KeyFile]

AtRestTypeOK ==
    /\ root \in Root /\ rootDisk \subseteq Root /\ root \in rootDisk
    /\ content \in [Managed -> ContentKey \cup {NoFile, "plain"}]
    /\ marker \in ContentKey \cup {NoFile}
    /\ cipher \in [Opener -> ContentKey \cup {NoFile}]
    /\ \A p \in Opener : at[p] \in {"migrate", "sweep", "ready"} => cipher[p] # NoFile
    /\ swept \in [Opener -> 0 .. Len(Sweep)]

\* The key that a start loads from a data root, if it gets one.
KeyAfterRestart(d) == IF d.key # NoFile THEN d.key ELSE d.pending

(* Whatever a power loss leaves of the data root, the next start loads the  *)
(* key that every sealed file was sealed with, unless its file was deleted. *)
SealedStaysReadable ==
    keyLosses = 0 =>
        \A d \in rootDisk, f \in Managed :
            content[f] \in ContentKey => KeyAfterRestart(d) = content[f]

(* Once the marker exists no managed file is plain text, although builds    *)
(* that write plain text may have run during the sweep.                     *)
MarkerMeansProtected ==
    marker # NoFile => \A f \in Managed : content[f] # "plain"

(* A start with a new key, after the old one was lost, never seals one file *)
(* beside files that are sealed with the old key.                           *)
OneKeySeals ==
    \A f, g \in Managed :
        {content[f], content[g]} \subseteq ContentKey => content[f] = content[g]

(* The content key is safe: what was sealed with it stays readable, nothing *)
(* is left plain behind the marker, and no two keys are in use.             *)
KeySafe == AtRestTypeOK /\ SealedStaysReadable /\ MarkerMeansProtected /\ OneKeySeals
=============================================================================
