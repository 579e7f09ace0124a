-------------------------- MODULE EventLogUnlocked --------------------------
(***************************************************************************)
(* The event log together with the two kinds of entry point that touch it  *)
(* without the workspace lock: readers, which run the tail recovery of     *)
(* storage.rs before they read, and create_workspace, which holds only the *)
(* local-state lock while it appends the three founding events.            *)
(***************************************************************************)
EXTENDS EventLog

CONSTANTS
    Reader,     \* core processes serving a read-only request
    Creating    \* whether the behaviour starts inside create_workspace

VARIABLES
    scanned,    \* {k}: the reader counted k committed records and an
                \* unterminated tail, and is about to call set_len; else {}
    founded     \* founding events appended; 3 once create_workspace is over

unlockedVars == <<scanned, founded>>
allVars == <<vars, unlockedVars>>

UnlockedInit ==
    /\ Init
    /\ scanned = [r \in Reader |-> {}]
    /\ \/ Creating /\ founded = 1 /\ Founding \in acked
       \/ ~Creating /\ founded = 3

(* recover_unterminated_tail reads to the end of the file and finds bytes     *)
(* after the last newline.                                                    *)
ScanTail(r) ==
    /\ scanned[r] = {}
    /\ tail # NoTail
    /\ scanned' = [scanned EXCEPT ![r] = {Len(log)}]
    /\ UNCHANGED <<vars, founded>>

(* set_len(committed_bytes) with the length counted by the scan; beyond the   *)
(* end of the file it pads with NUL bytes.                                    *)
TruncateTail(r) ==
    /\ \E k \in scanned[r] :
        /\ log' = IF k <= Len(log) THEN SubSeq(log, 1, k) ELSE log
        /\ tail' = IF k <= Len(log) THEN NoTail ELSE Torn
    /\ synced' = Len(log')
    /\ scanned' = [scanned EXCEPT ![r] = {}]
    /\ UNCHANGED <<lock, pc, procVars, nextOp, acked, envVars, founded>>

(* create_workspace appends its next event from its own projection, which has *)
(* seen the founding events only.                                             *)
CreateAppend ==
    LET e == [op |-> 1, n |-> founded + 1, lamport |-> founded + 1]
    IN  /\ founded < 3
        /\ tail' = NoTail
        /\ log' = Append(log, e)
        /\ synced' = Len(log')
        /\ acked' = acked \cup {e}
        /\ founded' = founded + 1
        /\ UNCHANGED <<lock, pc, procVars, nextOp, envVars, scanned>>

UnlockedNext ==
    \/ Next /\ UNCHANGED unlockedVars
    \/ \E r \in Reader : ScanTail(r) \/ TruncateTail(r)
    \/ CreateAppend

UnlockedSpec == UnlockedInit /\ [][UnlockedNext]_allVars
=============================================================================
