--------------------------- MODULE DesktopSessions ---------------------------
(***************************************************************************)
(* Reliability records of a workspace's ledger: the desktop sessions and   *)
(* the panic marker they consume, and request outcomes with their alerts   *)
(* (record_desktop_session_with_panic_marker, claim_native_panic_marker    *)
(* and record_reliability_operation of local_state/workspace_store.rs).    *)
(*                                                                         *)
(* The desktop's runtime leaves a marker file when it panics; a later      *)
(* panic overwrites it.  The next session start renames it to a pending    *)
(* file, appends a crash, an alert and the session, and removes it.        *)
(***************************************************************************)
EXTENDS Naturals, FiniteSets

CONSTANTS
    Recorder,       \* core processes that record a session or an outcome
    MaxPanics,      \* bound: panics of the desktop
    MaxRecords,     \* bound: records of sessions and outcomes begun
    MaxBroken       \* bound: recordings that end in the middle

ASSUME SessionsAssumption == MaxPanics \in Nat

VARIABLES
    panics,         \* panics so far; 0 stands for no panic below
    panicFile,      \* the panic in the marker file
    pendingFile,    \* the panic in the pending file
    overwritten,    \* panics whose marker a later one replaced
    recording,      \* what each process is recording
    reliability,    \* records in the ledger: [nth, kind, of]
    begun, broken

sessionVars == <<panics, panicFile, pendingFile, overwritten, recording, reliability, begun, broken>>
markers == <<panics, panicFile, pendingFile, overwritten>>

NotRecording == [step |-> "idle"]
Recording(p, r) == recording' = [recording EXCEPT ![p] = r]
LogFree == \A q \in Recorder : recording[q].step = "idle"

AppendRecord(kind, of) ==
    reliability' = reliability \cup {[nth |-> Cardinality(reliability), kind |-> kind, of |-> of]}

SessionsInit ==
    /\ panics = 0 /\ panicFile = 0 /\ pendingFile = 0 /\ overwritten = {}
    /\ recording = [p \in Recorder |-> NotRecording]
    /\ reliability = {}
    /\ begun = 0 /\ broken = 0

-----------------------------------------------------------------------------
(* The desktop panics, at any time.                                         *)
DesktopPanics ==
    /\ panics < MaxPanics /\ panics' = panics + 1
    /\ panicFile' = panics + 1
    /\ overwritten' = overwritten \cup ({panicFile} \ {0})
    /\ UNCHANGED <<pendingFile, recording, reliability, begun, broken>>

\* Mutant: a marker that is already pending is left alone.
StartSessionFresh(p) ==
    /\ recording[p].step = "idle" /\ LogFree /\ begun < MaxRecords
    /\ begun' = begun + 1
    /\ panicFile' = 0
    /\ pendingFile' = IF panicFile # 0 THEN panicFile ELSE pendingFile
    /\ Recording(p, [step |-> IF panicFile = 0 THEN "session" ELSE "crash",
                     claimed |-> panicFile, nth |-> begun + 1])
    /\ UNCHANGED <<panics, overwritten, reliability, broken>>

(* A session starts, under the workspace lock.  claim_native_panic_marker:  *)
(* a pending marker of an earlier start is taken first, else the marker is  *)
(* renamed.                                                                 *)
StartSession(p) ==
    /\ recording[p].step = "idle" /\ LogFree /\ begun < MaxRecords
    /\ begun' = begun + 1
    /\ \/ pendingFile # 0 /\ UNCHANGED <<panicFile, pendingFile>>
       \/ pendingFile = 0 /\ pendingFile' = panicFile /\ panicFile' = 0
    /\ Recording(p, [step |-> IF pendingFile' = 0 THEN "session" ELSE "crash",
                     claimed |-> pendingFile', nth |-> begun + 1])
    /\ UNCHANGED <<panics, overwritten, reliability, broken>>

(* The crash is appended ...                                                *)
AppendCrash(p) ==
    /\ recording[p].step = "crash"
    /\ AppendRecord("crash", recording[p].claimed)
    /\ Recording(p, [recording[p] EXCEPT !.step = "alert"])
    /\ UNCHANGED <<markers, begun, broken>>

(* ... then the alert of the crash ...                                      *)
AppendCrashAlert(p) ==
    /\ recording[p].step = "alert"
    /\ AppendRecord("crashAlert", recording[p].claimed)
    /\ Recording(p, [recording[p] EXCEPT !.step = "session"])
    /\ UNCHANGED <<markers, begun, broken>>

(* ... then the session ...                                                 *)
AppendSession(p) ==
    /\ recording[p].step = "session"
    /\ AppendRecord("session", recording[p].nth)
    /\ Recording(p, IF recording[p].claimed = 0 THEN NotRecording
                    ELSE [recording[p] EXCEPT !.step = "remove"])
    /\ UNCHANGED <<markers, begun, broken>>

(* ... and the claimed marker is removed.                                   *)
RemoveMarker(p) ==
    /\ recording[p].step = "remove"
    /\ pendingFile' = 0
    /\ Recording(p, NotRecording)
    /\ UNCHANGED <<panics, panicFile, overwritten, reliability, begun, broken>>

(* A session ends.                                                          *)
EndSession(p) ==
    /\ recording[p].step = "idle" /\ LogFree /\ begun < MaxRecords
    /\ begun' = begun + 1
    /\ Recording(p, [step |-> "session", claimed |-> 0, nth |-> begun + 1])
    /\ UNCHANGED <<markers, reliability, broken>>

(* record_reliability_operation: the outcome of a request, and the alert of *)
(* one that failed or took too long.                                        *)
RecordOutcome(p, alert) ==
    /\ recording[p].step = "idle" /\ LogFree /\ begun < MaxRecords
    /\ begun' = begun + 1
    /\ AppendRecord("outcome", begun + 1)
    /\ Recording(p, IF alert THEN [step |-> "outcomeAlert", nth |-> begun + 1] ELSE NotRecording)
    /\ UNCHANGED <<markers, broken>>

AppendOutcomeAlert(p) ==
    /\ recording[p].step = "outcomeAlert"
    /\ AppendRecord("outcomeAlert", recording[p].nth)
    /\ Recording(p, NotRecording)
    /\ UNCHANGED <<markers, begun, broken>>

(* The recording ends in the middle: an append fails or the process dies.   *)
RecordingBreaks(p) ==
    /\ recording[p].step # "idle" /\ broken < MaxBroken /\ broken' = broken + 1
    /\ Recording(p, NotRecording)
    /\ UNCHANGED <<markers, reliability, begun>>

SessionsNext ==
    \/ DesktopPanics
    \/ \E p \in Recorder :
          \/ StartSession(p) \/ AppendCrash(p) \/ AppendCrashAlert(p) \/ AppendSession(p)
          \/ RemoveMarker(p) \/ EndSession(p) \/ AppendOutcomeAlert(p) \/ RecordingBreaks(p)
          \/ \E alert \in BOOLEAN : RecordOutcome(p, alert)

-----------------------------------------------------------------------------
Records(kind, of) == {r \in reliability : r.kind = kind /\ r.of = of}

SessionsTypeOK ==
    /\ panics \in 0 .. MaxPanics
    /\ {panicFile, pendingFile} \subseteq 0 .. panics
    /\ overwritten \subseteq 1 .. panics
    /\ \A p \in Recorder : recording[p].step \in {"crash", "alert", "remove"} =>
          recording[p].claimed = pendingFile /\ pendingFile # 0

(* A panic is never forgotten: its marker is still there for a later start, *)
(* or a later panic replaced it, or its crash is in the ledger.             *)
PanicNotLost ==
    \A n \in 1 .. panics :
        n \in {panicFile, pendingFile} \cup overwritten \/ Records("crash", n) # {}

(* A panic is counted as one crash, and once more for every recording that  *)
(* ended between the append and the removal of the marker.                  *)
PanicCountedOnce ==
    \A n \in 1 .. panics : Cardinality(Records("crash", n)) <= 1 + broken

(* An alert never stands alone: the crash or outcome it is about is in the  *)
(* ledger before it.                                                        *)
AlertsFollowRecords ==
    \A r \in reliability :
        /\ r.kind = "crashAlert" => \E c \in Records("crash", r.of) : c.nth < r.nth
        /\ r.kind = "outcomeAlert" => \E c \in Records("outcome", r.of) : c.nth < r.nth

(* Every panic of the desktop is counted, and not more often than broken    *)
(* recordings explain; alerts follow what they are about.                   *)
SessionsSound == SessionsTypeOK /\ PanicNotLost /\ PanicCountedOnce /\ AlertsFollowRecords
=============================================================================
