--------------------------- MODULE AppUpdateProofs ---------------------------
(***************************************************************************)
(* Proofs about AppUpdate: type correctness, and, as long as no update is  *)
(* started while a helper runs (Overlap = FALSE), that the working         *)
(* application is never lost, that a failed update is rolled back and      *)
(* reported, and that the mailbox is never stale, for any number of        *)
(* releases, helpers, launches and deaths.                                 *)
(***************************************************************************)
EXTENDS AppUpdate, TLAPS

\* Where a helper has not touched the bundle, and where it has.
Before == {"waiting", "validate", "extract", "aside"}
Swapping == {"replace", "undo", "health", "activate", "quarantine", "restore"}

\* The bundles in the private directories of the other helpers.
Elsewhere(h) == UNION {{helper[g].backup, helper[g].failed} : g \in Helper \ {h}}

(* Helpers are started in order, the one that runs is the newest, and none   *)
(* runs while the core is about to start one.                                *)
Solo ==
    /\ \A g, h \in Helper : g <= h /\ h \in Started => g \in Started
    /\ \A h \in Helper : Active(h) => \A g \in Started : g <= h
    /\ core.at \in {"clear", "spawn"} => \A h \in Helper : ~Active(h)

(* The mailbox is empty when a helper starts.                                *)
Mail == MailboxCurrent /\ (core.at = "spawn" => mailbox = Empty)

(* What each helper will report, by where it is.                             *)
Codes(h) ==
    /\ helper[h].at \in {"unused", "cleanup"} \cup Before \cup Swapping =>
           helper[h].code = "none"
    /\ helper[h].at = "recover" => helper[h].code \in {"InstallFailed", "ManualRepairRequired"}
    /\ helper[h].at = "reopen" => helper[h].code = "InstallFailed"
CodeInv == \A h \in Helper : Codes(h)

(* Where the working bundle is while a helper moves bundles about.           *)
Place(h) ==
    /\ helper[h].at \in {"unused"} \cup Before => helper[h].backup = 0 /\ helper[h].failed = 0
    /\ helper[h].at \in Swapping => working \in {helper[h].backup} \cup Elsewhere(h)
    /\ helper[h].at = "cleanup" => working = target
PlaceInv == WorkingKept /\ \A h \in Helper : Place(h)

(* The prior bundle is the working one unless somebody asked for a repair.   *)
Prior(h) ==
    /\ helper[h].at \in Before \cup {"recover", "reopen"} /\ helper[h].code # "ManualRepairRequired" =>
           target = working \/ Unconfirmed(h)
    /\ helper[h].at \in Swapping => helper[h].backup = working \/ Unconfirmed(h)
    /\ helper[h].at = "cleanup" => target = working
Settled ==
    (\A h \in Helper : ~Active(h)) =>
        \/ target = working
        \/ \E g \in Helper : helper[g].at = "dead" \/ helper[g].code = "ManualRepairRequired"
PriorInv == Settled /\ \A h \in Helper : Prior(h)

(* A helper about to reopen the application has left its result, or will     *)
(* show it.                                                                  *)
Reports(h) ==
    helper[h].at = "reopen" =>
        helper[h].told \/ helper[h].taken \/ helper[h].lost \/ mailbox.by = h
ReportInv == FailureTold /\ \A h \in Helper : Reports(h)

IInv == TypeOK /\ Solo /\ Mail /\ CodeInv /\ PlaceInv /\ PriorInv /\ ReportInv

-----------------------------------------------------------------------------
(* Types.                                                                   *)

(* A helper that was never started has a helper's state.                    *)
LEMMA UnusedType == Unused \in HelperState
BY UpdateAssumption DEF Unused, HelperState, Bundle, Code

(* The types hold at the start.                                             *)
LEMMA InitTypes == Init => TypeOK
<1> SUFFICES ASSUME Init PROVE TypeOK
  OBVIOUS
<1>1. helper \in [Helper -> HelperState]
  BY UnusedType DEF Init
<1>2. QED
  BY <1>1, UpdateAssumption DEF Init, TypeOK, Release, Bundle, NoCore, Empty, Code

(* Every release is a bundle, and so is the one installed first.            *)
LEMMA Bundles == 0 \in Bundle /\ Release \subseteq Bundle
BY UpdateAssumption DEF Bundle, Release

\* Marking a helper's result as shown or taken keeps its type.
LEMMA MarkTypes ==
    ASSUME NEW x \in HelperState
    PROVE  [x EXCEPT !.told = TRUE] \in HelperState /\ [x EXCEPT !.taken = TRUE] \in HelperState
BY DEF HelperState

(* What a helper's recovery changes in it keeps its type.                   *)
LEMMA RecoverTypes ==
    ASSUME NEW y \in HelperState, NEW l \in {"reopen", "done"}, NEW a \in BOOLEAN, NEW b \in BOOLEAN
    PROVE  /\ [y EXCEPT !.at = l, !.lost = a, !.beside = b] \in HelperState
           /\ Noticed([y EXCEPT !.at = l, !.lost = a, !.beside = b]) \in HelperState
<1>1. [y EXCEPT !.at = l, !.lost = a, !.beside = b] \in HelperState
  BY DEF HelperState
<1>2. ASSUME NEW x \in HelperState PROVE Noticed(x) \in HelperState
  <2>1. (x.told \/ x.code = "ManualRepairRequired") \in BOOLEAN
    OBVIOUS
  <2>2. ASSUME NEW t \in BOOLEAN PROVE [x EXCEPT !.told = t] \in HelperState
    BY <1>2, <2>2 DEF HelperState
  <2>3. QED
    BY <2>1, <2>2 DEF Noticed
<1>3. QED
  BY <1>1, <1>2

\* What the desktop and the core do to their own records.
LEMMA DeskTypes ==
    ASSUME TypeOK,
           Publish \/ Launch \/ Handshake \/ HandshakeLost \/ CheckUpdates \/ StartDownload
               \/ Quit \/ CoreStep
    PROVE  TypeOK'
<1> USE UpdateAssumption DEF TypeOK, Release, Bundle
<1>1. CASE Publish
  BY <1>1 DEF Publish, bounds
<1>2. CASE Launch
  BY <1>2 DEF Launch, Open
<1>3. CASE Handshake
  <2>1. helper' \in [Helper -> HelperState]
    BY <1>3, MarkTypes DEF Handshake, EmptyMailbox
  <2>2. QED
    BY <1>3, <2>1 DEF Handshake, EmptyMailbox, bounds, Empty, Code
<1>4. CASE HandshakeLost
  <2>1. helper' \in [Helper -> HelperState]
    BY <1>4, MarkTypes DEF HandshakeLost
  <2>2. QED
    BY <1>4, <2>1 DEF HandshakeLost, Empty, Code
<1>5. CASE CheckUpdates \/ StartDownload \/ Quit
  BY <1>5 DEF CheckUpdates, StartDownload, Quit, bounds
<1>6. CASE Fetch \/ StageArtifact \/ StageManifest \/ StageMetadata
  <2>1. CASE Fetch
    BY <2>1, Bundles DEF Fetch, bounds
  <2>2. CASE StageArtifact
    BY <2>2 DEF StageArtifact, bounds
  <2>3. CASE StageManifest
    BY <2>3 DEF StageManifest, bounds
  <2>4. CASE StageMetadata
    BY <2>4 DEF StageMetadata, bounds
  <2>5. QED
    BY <1>6, <2>1, <2>2, <2>3, <2>4
<1>7. CASE InstallValidates \/ InstallReplies \/ CoreFails
  BY <1>7 DEF InstallValidates, InstallReplies, CoreFails, bounds, NoCore
<1>8. CASE InstallClears
  <2>1. helper' \in [Helper -> HelperState]
    BY <1>8, MarkTypes DEF InstallClears, EmptyMailbox
  <2>2. QED
    BY <1>8, <2>1 DEF InstallClears, EmptyMailbox, bounds, Empty, Code
<1>9. CASE InstallSpawns
  <2>1. PICK h \in Helper : helper' = [helper EXCEPT ![h] = [Unused EXCEPT !.at = "waiting",
                                        !.own = core.own, !.parent = desktop.number]]
    BY <1>9 DEF InstallSpawns
  <2>2. [Unused EXCEPT !.at = "waiting", !.own = core.own, !.parent = desktop.number]
            \in HelperState
    BY UnusedType DEF HelperState
  <2>3. QED
    BY <1>9, <2>1, <2>2 DEF InstallSpawns, bounds
<1>10. QED
  BY <1>1, <1>2, <1>3, <1>4, <1>5, <1>6, <1>7, <1>8, <1>9 DEF CoreStep

(* Steps and deaths of helpers keep the types.                              *)
LEMMA HelperTypes ==
    ASSUME TypeOK, NEW h \in Helper, HelperStep(h) \/ HelperDies(h)
    PROVE  TypeOK'
<1> USE DEF helperOnly, bounds, Fail, Goto
<1>1. helper[h] \in HelperState /\ target \in Bundle /\ staging.artifact \in Bundle
  BY DEF TypeOK
<1>2. \E x \in HelperState : Becomes(h, x)
  <2> USE <1>1, Bundles DEF HelperState, Code
  <2>1. CASE ParentGone(h)
    BY <2>1 DEF ParentGone
  <2>2. CASE WaitTimesOut(h)
    BY <2>2 DEF WaitTimesOut
  <2>3. CASE ValidatesStaged(h)
    BY <2>3 DEF ValidatesStaged
  <2>4. CASE Extracts(h)
    BY <2>4 DEF Extracts
  <2>5. CASE GivesUp(h)
    BY <2>5 DEF GivesUp
  <2>6. CASE MovesAside(h)
    BY <2>6 DEF MovesAside
  <2>7. CASE Replaces(h)
    BY <2>7 DEF Replaces
  <2>8. CASE ReplaceFails(h)
    BY <2>8 DEF ReplaceFails
  <2>9. CASE Restores(h)
    BY <2>9 DEF Restores
  <2>10. CASE RollbackFails(h)
    BY <2>10 DEF RollbackFails
  <2>11. CASE Quarantines(h)
    BY <2>11 DEF Quarantines
  <2>12. CASE Healthy(h)
    BY <2>12 DEF Healthy
  <2>13. CASE CandidateFails(h)
    BY <2>13 DEF CandidateFails
  <2>14. CASE CleansUp(h)
    BY <2>14 DEF CleansUp
  <2>15. CASE Activates(h)
    BY <2>15 DEF Activates
  <2>16. CASE \E recorded \in BOOLEAN : Recovers(h, recorded)
    <3>1. PICK recorded \in BOOLEAN : Recovers(h, recorded)
      BY <2>16
    <3> DEFINE reopen == helper[h].code = "InstallFailed" /\ ~ParentRuns(h)
               x == [helper[h] EXCEPT !.at = IF reopen THEN "reopen" ELSE "done",
                                      !.lost = ~recorded, !.beside = ParentRuns(h)]
    <3> HIDE DEF HelperState, Code
    <3>2. /\ (~recorded) \in BOOLEAN /\ ParentRuns(h) \in BOOLEAN
          /\ (IF reopen THEN "reopen" ELSE "done") \in {"reopen", "done"}
      BY DEF ParentRuns
    <3>3. x \in HelperState /\ Noticed(x) \in HelperState
      BY <1>1, <3>2, RecoverTypes, Zenon
    <3>4. Becomes(h, IF reopen THEN x ELSE Noticed(x))
      BY <3>1 DEF Recovers
    <3> HIDE DEF x
    <3>5. QED
      BY <3>3, <3>4
  <2>17. CASE Reopens(h)
    BY <2>17 DEF Reopens
  <2>18. CASE \E recorded \in BOOLEAN : ReopenFails(h, recorded)
    BY <2>18 DEF ReopenFails
  <2>19. CASE HelperDies(h)
    BY <2>19 DEF HelperDies
  <2>20. QED
    BY <2>1, <2>2, <2>3, <2>4, <2>5, <2>6, <2>7, <2>8, <2>9, <2>10, <2>11, <2>12, <2>13,
       <2>14, <2>15, <2>16, <2>17, <2>18, <2>19 DEF HelperStep
<1>3. helper' \in [Helper -> HelperState]
  BY <1>2 DEF Becomes, TypeOK
<1>4. mailbox' \in [code : Code, by : 0..MaxHelpers]
  <2>1. ASSUME NEW c \in Code PROVE [code |-> c, by |-> h] \in [code : Code, by : 0..MaxHelpers]
    BY <2>1, UpdateAssumption DEF Helper
  <2>2. "ReopenFailed" \in Code /\ helper[h].code \in Code
    BY <1>1 DEF Code, HelperState
  <2>3. mailbox \in [code : Code, by : 0..MaxHelpers]
    BY DEF TypeOK
  <2>4. mailbox' \in {mailbox, [code |-> helper[h].code, by |-> h],
                      [code |-> "ReopenFailed", by |-> h]}
    BY DEF HelperStep, HelperDies, ParentGone, WaitTimesOut, ValidatesStaged, Extracts, GivesUp,
           MovesAside, Replaces, ReplaceFails, Restores, RollbackFails, Quarantines, Healthy,
           CandidateFails, CleansUp, Activates, Recovers, Reopens, ReopenFails
  <2>5. QED
    BY <2>1, <2>2, <2>3, <2>4
<1>5. desktop' \in [at : {"off", "boot", "idle", "available", "downloading", "installing",
                          "restarting"}, number : Nat]
  <2>1. desktop' = desktop \/ Open
    BY DEF HelperStep, HelperDies, ParentGone, WaitTimesOut, ValidatesStaged, Extracts, GivesUp,
           MovesAside, Replaces, ReplaceFails, Restores, RollbackFails, Quarantines, Healthy,
           CandidateFails, CleansUp, Activates, Recovers, Reopens, ReopenFails
  <2>2. QED
    BY <2>1 DEF Open, TypeOK
<1>6. target' \in Bundle /\ working' \in Release
  <2>1. target' \in {target, 0, helper[h].repl, helper[h].backup}
    BY DEF HelperStep, HelperDies, ParentGone, WaitTimesOut, ValidatesStaged, Extracts, GivesUp,
           MovesAside, Replaces, ReplaceFails, Restores, RollbackFails, Quarantines, Healthy,
           CandidateFails, CleansUp, Activates, Recovers, Reopens, ReopenFails
  <2>2. working' = working \/ (working' = target /\ target # 0)
    BY DEF HelperStep, HelperDies, ParentGone, WaitTimesOut, ValidatesStaged, Extracts, GivesUp,
           MovesAside, Replaces, ReplaceFails, Restores, RollbackFails, Quarantines, Healthy,
           CandidateFails, CleansUp, Activates, Recovers, Reopens, ReopenFails
  <2>3. target \in Bundle /\ target # 0 => target \in Release
    BY UpdateAssumption DEF Bundle, Release
  <2>4. QED
    BY <1>1, <2>1, <2>2, <2>3, Bundles DEF TypeOK, HelperState
<1>7. /\ UNCHANGED <<published, staging, core, launches>>
      /\ crashes' \in {crashes, crashes + 1}
  BY DEF HelperStep, HelperDies, ParentGone, WaitTimesOut, ValidatesStaged, Extracts, GivesUp,
         MovesAside, Replaces, ReplaceFails, Restores, RollbackFails, Quarantines, Healthy,
         CandidateFails, CleansUp, Activates, Recovers, Reopens, ReopenFails
<1>8. QED
  BY <1>3, <1>4, <1>5, <1>6, <1>7 DEF TypeOK

(* Every step keeps the types.                                              *)
LEMMA NextTypes == TypeOK /\ [Next]_vars => TypeOK'
<1> SUFFICES ASSUME TypeOK, [Next]_vars PROVE TypeOK'
  OBVIOUS
<1>1. CASE UNCHANGED vars
  BY <1>1 DEF vars, TypeOK
<1>2. CASE Next
  BY <1>2, DeskTypes, HelperTypes DEF Next
<1>3. QED
  BY <1>1, <1>2

(* Type correctness: the states of desktop, core, helpers, staging and       *)
(* mailbox, with every recorded code one of the codes of this platform.      *)
THEOREM TypeCorrect == Spec => []TypeOK
<1>1. QED
  BY InitTypes, NextTypes, PTL DEF Spec

-----------------------------------------------------------------------------
(* What a step does to the bundles, the mailbox and the helpers' places.    *)

\* The helper h takes the step; the other helpers and the core do not move.
Frame(h) ==
    /\ Active(h) /\ helper'[h].at # "unused" /\ core' = core
    /\ \A g \in Helper \ {h} : helper'[g] = helper[g]

\* Nothing is moved from one path to another.
Still(h) ==
    /\ target' = target /\ working' = working
    /\ helper'[h].backup = helper[h].backup /\ helper'[h].failed = helper[h].failed

SameCode(h) == helper'[h].code = helper[h].code

Prepares(h) ==
    /\ helper[h].at \in Before /\ Still(h)
    /\ \/ helper'[h].at \in Before /\ SameCode(h)
       \/ helper'[h].at = "recover" /\ helper'[h].code = "InstallFailed"
Lifts(h) ==
    /\ helper[h].at = "aside" /\ helper'[h].at = "replace" /\ SameCode(h)
    /\ helper'[h].backup = target /\ working' = working
Swaps(h) ==
    /\ helper[h].at \in Swapping /\ helper'[h].at \in Swapping /\ SameCode(h)
    /\ helper'[h].backup = helper[h].backup /\ working' = working
PutsBack(h) ==
    /\ helper[h].at \in Swapping /\ helper'[h].at = "recover"
    /\ helper'[h].code = "InstallFailed"
    /\ target' = helper[h].backup /\ working' = working
LosesTrack(h) ==
    /\ helper[h].at \in Swapping /\ helper'[h].at = "recover" /\ Still(h)
    /\ helper'[h].code = "ManualRepairRequired"
Starts(h) ==
    /\ helper[h].at = "activate" /\ helper'[h].at = "cleanup" /\ SameCode(h)
    /\ target' = target /\ working' = target
Finishes(h) ==
    /\ helper[h].at = "cleanup" /\ helper'[h].at = "done" /\ SameCode(h)
    /\ target' = target /\ working' = working
Dies(h) == helper'[h].at = "dead" /\ Still(h) /\ SameCode(h)

\* The helper reports: it leaves its result, or goes on to show it.
Tells(h) ==
    /\ Still(h) /\ mailbox' \in {mailbox, [code |-> helper'[h].code, by |-> h]}
    /\ \/ /\ helper[h].at = "recover" /\ SameCode(h)
          /\ mailbox'.by = h \/ helper'[h].lost
          /\ \/ helper'[h].at = "reopen" /\ helper[h].code = "InstallFailed"
             \/ /\ helper'[h].at = "done"
                /\ \/ helper'[h].told
                   \/ mailbox'.by = h
                   \/ helper'[h].lost /\ helper'[h].beside
       \/ /\ helper[h].at = "reopen" /\ helper'[h].at = "done"
          /\ \/ helper'[h].told
             \/ /\ mailbox' = mailbox /\ SameCode(h) /\ ~helper[h].lost /\ ~helper[h].told
                /\ helper'[h].taken = helper[h].taken
          /\ helper'[h].code # "ManualRepairRequired" \/ SameCode(h)

Silent(h) ==
    /\ mailbox' = mailbox
    /\ \/ Prepares(h) \/ Lifts(h) \/ Swaps(h) \/ PutsBack(h) \/ LosesTrack(h)
       \/ Starts(h) \/ Finishes(h) \/ Dies(h)

\* A helper's new record, read field by field.
LEMMA Reads ==
    ASSUME TypeOK, NEW h \in Helper, NEW x, Becomes(h, x)
    PROVE  /\ helper'[h] = x
           /\ \A g \in Helper \ {h} : helper'[g] = helper[g]
BY DEF TypeOK, Becomes

(* A helper changes only its own part, silently or by telling a result.     *)
LEMMA HelperKinds ==
    ASSUME TypeOK, NEW h \in Helper, Codes(h), HelperStep(h) \/ HelperDies(h)
    PROVE  Frame(h) /\ (Silent(h) \/ Tells(h))
<1> USE DEF helperOnly, bounds, At, Frame, Still, SameCode, Active, Before, Swapping
<1>1. helper[h] \in HelperState
  BY DEF TypeOK
<1>2. CASE ParentGone(h)
  BY <1>1, <1>2, Reads DEF ParentGone, Goto, HelperState, Silent, Prepares
<1>3. CASE WaitTimesOut(h)
  <2> DEFINE x == [helper[h] EXCEPT !.at = "recover", !.code = "InstallFailed"]
  <2>1. helper'[h] = x /\ \A g \in Helper \ {h} : helper'[g] = helper[g]
    BY <1>3, Reads DEF WaitTimesOut, Fail
  <2>2. QED
    BY <1>1, <1>3, <2>1 DEF WaitTimesOut, HelperState, Silent, Prepares
<1>4. CASE ValidatesStaged(h)
  <2> DEFINE x == [helper[h] EXCEPT !.at = "extract", !.want = staging.artifact]
  <2>1. helper'[h] = x /\ \A g \in Helper \ {h} : helper'[g] = helper[g]
    BY <1>4, Reads DEF ValidatesStaged
  <2>2. QED
    BY <1>1, <1>4, <2>1 DEF ValidatesStaged, HelperState, Silent, Prepares
<1>5. CASE Extracts(h)
  <2> DEFINE x == [helper[h] EXCEPT !.at = "aside", !.repl = staging.artifact]
  <2>1. helper'[h] = x /\ \A g \in Helper \ {h} : helper'[g] = helper[g]
    BY <1>5, Reads DEF Extracts
  <2>2. QED
    BY <1>1, <1>5, <2>1 DEF Extracts, HelperState, Silent, Prepares
<1>6. CASE GivesUp(h)
  <2> DEFINE x == [helper[h] EXCEPT !.at = "recover", !.code = "InstallFailed"]
  <2>1. helper'[h] = x /\ \A g \in Helper \ {h} : helper'[g] = helper[g]
    BY <1>6, Reads DEF GivesUp, Fail
  <2>2. QED
    BY <1>1, <1>6, <2>1 DEF GivesUp, HelperState, Silent, Prepares
<1>7. CASE MovesAside(h)
  <2> DEFINE x == [helper[h] EXCEPT !.at = "replace", !.backup = target]
  <2>1. helper'[h] = x /\ \A g \in Helper \ {h} : helper'[g] = helper[g]
    BY <1>7, Reads DEF MovesAside
  <2>2. QED
    BY <1>1, <1>7, <2>1 DEF MovesAside, HelperState, Silent, Lifts
<1>8. CASE Replaces(h)
  <2> DEFINE x == [helper[h] EXCEPT !.at = "health", !.repl = 0]
  <2>1. helper'[h] = x /\ \A g \in Helper \ {h} : helper'[g] = helper[g]
    BY <1>8, Reads DEF Replaces
  <2>2. QED
    BY <1>1, <1>8, <2>1 DEF Replaces, HelperState, Silent, Swaps
<1>9. CASE ReplaceFails(h)
  BY <1>1, <1>9, Reads DEF ReplaceFails, Goto, HelperState, Silent, Swaps
<1>10. CASE Restores(h)
  <2> DEFINE x == [helper[h] EXCEPT !.at = "recover", !.code = "InstallFailed",
                                     !.backup = 0, !.failed = 0]
  <2>1. helper'[h] = x /\ \A g \in Helper \ {h} : helper'[g] = helper[g]
    BY <1>10, Reads DEF Restores
  <2>2. QED
    BY <1>1, <1>10, <2>1 DEF Restores, HelperState, Silent, PutsBack
<1>11. CASE RollbackFails(h)
  <2> DEFINE x == [helper[h] EXCEPT !.at = "recover", !.code = "ManualRepairRequired"]
  <2>1. helper'[h] = x /\ \A g \in Helper \ {h} : helper'[g] = helper[g]
    BY <1>11, Reads DEF RollbackFails, Fail
  <2>2. QED
    BY <1>1, <1>11, <2>1 DEF RollbackFails, HelperState, Silent, LosesTrack
<1>12. CASE Quarantines(h)
  <2> DEFINE x == [helper[h] EXCEPT !.at = "restore", !.failed = target]
  <2>1. helper'[h] = x /\ \A g \in Helper \ {h} : helper'[g] = helper[g]
    BY <1>12, Reads DEF Quarantines
  <2>2. QED
    BY <1>1, <1>12, <2>1 DEF Quarantines, HelperState, Silent, Swaps
<1>13. CASE Healthy(h)
  BY <1>1, <1>13, Reads DEF Healthy, Goto, HelperState, Silent, Swaps
<1>14. CASE CandidateFails(h)
  BY <1>1, <1>14, Reads DEF CandidateFails, Goto, HelperState, Silent, Swaps
<1>15. CASE CleansUp(h)
  <2> DEFINE x == [helper[h] EXCEPT !.at = "done", !.backup = 0]
  <2>1. helper'[h] = x /\ \A g \in Helper \ {h} : helper'[g] = helper[g]
    BY <1>15, Reads DEF CleansUp
  <2>2. QED
    BY <1>1, <1>15, <2>1 DEF CleansUp, HelperState, Silent, Finishes
<1>16. CASE Activates(h)
  BY <1>1, <1>16, Reads DEF Activates, Goto, HelperState, Silent, Starts
<1>17. CASE HelperDies(h)
  BY <1>1, <1>17, Reads DEF HelperDies, Goto, HelperState, Silent, Dies
<1>18. CASE \E recorded \in BOOLEAN : Recovers(h, recorded)
  <2>1. PICK recorded \in BOOLEAN : Recovers(h, recorded)
    BY <1>18
  <2> DEFINE reopen == helper[h].code = "InstallFailed" /\ ~ParentRuns(h)
             x == [helper[h] EXCEPT !.at = IF reopen THEN "reopen" ELSE "done",
                                    !.lost = ~recorded, !.beside = ParentRuns(h)]
  <2>2. /\ helper'[h] = IF reopen THEN x ELSE Noticed(x)
        /\ \A g \in Helper \ {h} : helper'[g] = helper[g]
    BY <2>1, Reads, Zenon DEF Recovers
  <2>3. /\ helper[h].at = "recover"
        /\ mailbox' = IF recorded THEN [code |-> helper[h].code, by |-> h] ELSE mailbox
        /\ UNCHANGED <<target, working, core>>
    BY <2>1 DEF Recovers
  <2>4. helper[h].code \in {"InstallFailed", "ManualRepairRequired"}
    BY <2>3 DEF Codes
  <2>5. /\ x.at = (IF reopen THEN "reopen" ELSE "done") /\ x.code = helper[h].code
        /\ x.backup = helper[h].backup /\ x.failed = helper[h].failed
        /\ x.lost = (~recorded) /\ x.beside = ParentRuns(h)
    BY <1>1 DEF HelperState
  <2>6. x \in HelperState
    <3>1. /\ (~recorded) \in BOOLEAN /\ ParentRuns(h) \in BOOLEAN
          /\ (IF reopen THEN "reopen" ELSE "done") \in {"reopen", "done"}
      BY DEF ParentRuns
    <3>2. QED
      BY <1>1, <3>1, RecoverTypes, Zenon
  <2> HIDE DEF x
  <2>7. /\ Noticed(x).at = x.at /\ Noticed(x).code = x.code
        /\ Noticed(x).backup = x.backup /\ Noticed(x).failed = x.failed
        /\ Noticed(x).lost = x.lost /\ Noticed(x).beside = x.beside
        /\ x.code = "ManualRepairRequired" => Noticed(x).told
    BY <2>6 DEF Noticed, HelperState
  <2>8. QED
    BY <2>2, <2>3, <2>4, <2>5, <2>7 DEF Tells
<1>19. CASE Reopens(h)
  <2> DEFINE x == [helper[h] EXCEPT !.at = "done", !.told = @ \/ helper[h].lost]
  <2>1. helper'[h] = x /\ \A g \in Helper \ {h} : helper'[g] = helper[g]
    BY <1>19, Reads DEF Reopens
  <2>2. QED
    BY <1>1, <1>19, <2>1 DEF Reopens, HelperState, Tells
<1>20. CASE \E recorded \in BOOLEAN : ReopenFails(h, recorded)
  <2> DEFINE x == [helper[h] EXCEPT !.at = "done", !.code = "ReopenFailed", !.told = TRUE]
  <2>1. helper'[h] = x /\ \A g \in Helper \ {h} : helper'[g] = helper[g]
    BY <1>20, Reads DEF ReopenFails
  <2>2. QED
    BY <1>1, <1>20, <2>1 DEF ReopenFails, HelperState, Tells
<1>21. QED
  BY <1>2, <1>3, <1>4, <1>5, <1>6, <1>7, <1>8, <1>9, <1>10, <1>11, <1>12, <1>13, <1>14, <1>15,
      <1>16, <1>17, <1>18, <1>19, <1>20 DEF HelperStep

\* The desktop or the core takes a step that no helper can tell.
Quiet ==
    /\ UNCHANGED <<target, working, helper, mailbox>>
    /\ core'.at = "spawn" => core.at = "spawn"
    /\ core'.at = "clear" => core.at = "clear" \/ \A h \in Helper : ~Active(h)

\* The mailbox is emptied; its result is shown, superseded or taken.
Emptied ==
    /\ UNCHANGED <<target, working>> /\ mailbox' = Empty
    /\ core'.at \in {"clear", "spawn"} => core' = core \/ core.at = "clear"
    /\ \A h \in Helper :
        /\ helper'[h].at = helper[h].at /\ helper'[h].code = helper[h].code
        /\ helper'[h].backup = helper[h].backup /\ helper'[h].failed = helper[h].failed
        /\ helper'[h].lost = helper[h].lost /\ helper'[h].beside = helper[h].beside
        /\ h # mailbox.by => helper'[h] = helper[h]
        /\ h = mailbox.by => helper'[h].told \/ helper'[h].taken

\* A new helper starts.
Spawned(h) ==
    /\ UNCHANGED <<target, working, mailbox>>
    /\ core.at = "spawn" /\ core'.at = "reply"
    /\ h \notin Started /\ \A g \in Helper \ Started : h <= g
    /\ \A g \in Helper \ {h} : helper'[g] = helper[g]
    /\ helper'[h].at = "waiting" /\ helper'[h].code = "none"
    /\ helper'[h].backup = 0 /\ helper'[h].failed = 0

(* A step of desktop or core leaves helpers and mailbox alone, empties the  *)
(* mailbox or starts one helper.                                            *)
LEMMA DeskKinds ==
    ASSUME TypeOK, Overlap = FALSE,
           Publish \/ Launch \/ Handshake \/ HandshakeLost \/ CheckUpdates \/ StartDownload
               \/ Quit \/ CoreStep
    PROVE  Quiet \/ Emptied \/ \E h \in Helper : Spawned(h)
<1>1. CASE Publish \/ Launch \/ CheckUpdates \/ StartDownload \/ Quit
  BY <1>1 DEF Publish, Launch, CheckUpdates, StartDownload, Quit, Quiet
<1>2. CASE Fetch \/ StageArtifact \/ StageManifest \/ StageMetadata
  <2>1. core'.at \in {"artifact", "manifest", "metadata", "install"}
    <3>1. CASE Fetch
      BY <3>1 DEF Fetch, TypeOK
    <3>2. CASE StageArtifact
      BY <3>2 DEF StageArtifact, TypeOK
    <3>3. CASE StageManifest
      BY <3>3 DEF StageManifest, TypeOK
    <3>4. CASE StageMetadata
      BY <3>4 DEF StageMetadata
    <3>5. QED
      BY <1>2, <3>1, <3>2, <3>3, <3>4
  <2>2. UNCHANGED <<target, working, helper, mailbox>>
    BY <1>2 DEF Fetch, StageArtifact, StageManifest, StageMetadata
  <2>3. QED
    BY <2>1, <2>2 DEF Quiet
<1>3. CASE InstallValidates \/ InstallReplies \/ CoreFails
  BY <1>3 DEF InstallValidates, InstallReplies, CoreFails, NoCore, Quiet, TypeOK
<1>4. ASSUME NEW h \in Helper
      PROVE  /\ [helper[h] EXCEPT !.told = TRUE].told /\ [helper[h] EXCEPT !.taken = TRUE].taken
             /\ \A x \in {[helper[h] EXCEPT !.told = TRUE], [helper[h] EXCEPT !.taken = TRUE]} :
                  /\ x.at = helper[h].at /\ x.code = helper[h].code
                  /\ x.backup = helper[h].backup /\ x.failed = helper[h].failed
                  /\ x.lost = helper[h].lost /\ x.beside = helper[h].beside
  BY <1>4 DEF TypeOK, HelperState
<1>5. CASE Handshake
  BY <1>4, <1>5 DEF Handshake, EmptyMailbox, Emptied
<1>6. CASE HandshakeLost
  BY <1>4, <1>6 DEF HandshakeLost, Emptied
<1>7. CASE InstallClears
  BY <1>4, <1>7 DEF InstallClears, EmptyMailbox, Emptied
<1>8. CASE InstallSpawns
  <2> DEFINE x == [Unused EXCEPT !.at = "waiting", !.own = core.own, !.parent = desktop.number]
  <2>1. PICK h \in Helper : /\ h \notin Started /\ \A g \in Helper \ Started : h <= g
                            /\ helper' = [helper EXCEPT ![h] = x]
    BY <1>8 DEF InstallSpawns
  <2>2. x.at = "waiting" /\ x.code = "none" /\ x.backup = 0 /\ x.failed = 0
    BY DEF Unused
  <2> HIDE DEF x
  <2>3. Spawned(h)
    BY <1>8, <2>1, <2>2 DEF InstallSpawns, Spawned, TypeOK
  <2>4. QED
    BY <2>3
<1>9. QED
  BY <1>1, <1>2, <1>3, <1>5, <1>6, <1>7, <1>8 DEF CoreStep

-----------------------------------------------------------------------------
(* The inductive invariant.                                                 *)

(* The inductive invariant holds at the start.                              *)
LEMMA InitIInv == Init => IInv
<1> SUFFICES ASSUME Init PROVE IInv
  OBVIOUS
<1>1. TypeOK
  BY InitTypes
<1>2. \A h \in Helper : /\ helper[h].at = "unused" /\ helper[h].code = "none"
                        /\ helper[h].backup = 0 /\ helper[h].failed = 0
  BY DEF Init, Unused
<1>3. Solo /\ Mail /\ CodeInv
  BY <1>2 DEF Init, Solo, Mail, CodeInv, Codes, MailboxCurrent, Started, Active, NoCore
<1>4. PlaceInv
  BY <1>2 DEF Init, PlaceInv, WorkingKept, Place, Before, Swapping
<1>5. PriorInv
  BY <1>2 DEF Init, PriorInv, Settled, Prior, Before, Swapping
<1>6. ReportInv
  BY <1>2 DEF ReportInv, FailureTold, Reports
<1>7. QED
  BY <1>1, <1>3, <1>4, <1>5, <1>6 DEF IInv

(* Those steps of desktop and core keep the inductive invariant.            *)
LEMMA DeskStep ==
    ASSUME IInv, TypeOK', Quiet \/ Emptied \/ \E h \in Helper : Spawned(h)
    PROVE  IInv'
<1> USE DEF IInv
<1>1. CASE Quiet
  <2>1. Solo' /\ Mail'
    BY <1>1 DEF Quiet, Solo, Mail, MailboxCurrent, Started, Active
  <2>2. CodeInv' /\ PlaceInv'
    BY <1>1 DEF Quiet, CodeInv, Codes, PlaceInv, WorkingKept, Place, Elsewhere
  <2>3. PriorInv' /\ ReportInv'
    BY <1>1 DEF Quiet, PriorInv, Settled, Prior, Unconfirmed, Active, ReportInv, FailureTold,
                Reports
  <2>4. QED
    BY <2>1, <2>2, <2>3
<1>2. CASE Emptied
  <2>1. Solo' /\ Mail'
    BY <1>2 DEF Emptied, Solo, Mail, MailboxCurrent, Started, Active
  <2>2. CodeInv'
    BY <1>2 DEF Emptied, CodeInv, Codes
  <2>3. PlaceInv'
    BY <1>2 DEF Emptied, PlaceInv, WorkingKept, Place, Elsewhere
  <2>4. PriorInv'
    BY <1>2 DEF Emptied, PriorInv, Settled, Prior, Unconfirmed, Active
  <2>5. ReportInv'
    BY <1>2 DEF Emptied, ReportInv, FailureTold, Reports, Empty
  <2>6. QED
    BY <2>1, <2>2, <2>3, <2>4, <2>5
<1>3. CASE \E h \in Helper : Spawned(h)
  <2>1. PICK h \in Helper : Spawned(h)
    BY <1>3
  <2>2. Solo'
    BY <2>1 DEF Spawned, Solo, Started, Active, Helper
  <2>3. Mail'
    BY <2>1 DEF Spawned, Mail, MailboxCurrent
  <2>4. CodeInv'
    BY <2>1 DEF Spawned, CodeInv, Codes
  <2>5. PlaceInv'
    <3>1. helper[h].at = "unused" /\ helper[h].backup = 0 /\ helper[h].failed = 0
      BY <2>1 DEF Spawned, Started, PlaceInv, Place
    <3>2. \A g \in Helper : /\ helper'[g].backup = helper[g].backup
                            /\ helper'[g].failed = helper[g].failed
      BY <2>1, <3>1 DEF Spawned
    <3>3. WorkingKept' /\ \A g \in Helper : Elsewhere(g)' = Elsewhere(g)
      BY <2>1, <3>2 DEF Spawned, PlaceInv, WorkingKept, Elsewhere
    <3>4. ASSUME NEW g \in Helper PROVE Place(g)'
      <4>1. CASE g = h
        BY <2>1, <4>1 DEF Spawned, Place, Before, Swapping
      <4>2. CASE g # h
        BY <2>1, <3>3, <4>2 DEF Spawned, PlaceInv, Place
      <4>3. QED
        BY <4>1, <4>2
    <3>5. QED
      BY <3>3, <3>4 DEF PlaceInv
  <2>6. PriorInv'
    <3>1. Active(h)'
      BY <2>1 DEF Spawned, Active
    <3>2. \A g \in Helper : ~Active(g)
      BY <2>1 DEF Spawned, Solo
    <3>3. helper[h].at = "unused" /\ helper[h].code = "none"
      BY <2>1 DEF Spawned, Started, CodeInv, Codes
    <3>4. target = working \/ Unconfirmed(h)
      BY <3>2, <3>3 DEF PriorInv, Settled, Unconfirmed
    <3>5. Unconfirmed(h)' = Unconfirmed(h)
      BY <2>1 DEF Spawned, Unconfirmed
    <3>6. Prior(h)'
      BY <2>1, <3>4, <3>5 DEF Spawned, Prior, Before, Swapping
    <3>7. ASSUME NEW g \in Helper \ {h} PROVE Prior(g)'
      BY <2>1, <3>2, <3>7 DEF Spawned, Prior, Active, Before, Swapping
    <3>8. QED
      BY <3>1, <3>6, <3>7 DEF PriorInv, Settled
  <2>7. ReportInv'
    BY <2>1 DEF Spawned, ReportInv, FailureTold, Reports
  <2>8. QED
    BY <2>2, <2>3, <2>4, <2>5, <2>6, <2>7
<1>4. QED
  BY <1>1, <1>2, <1>3

\* A helper that runs is alone, and no other helper's result is in the mailbox.
LEMMA Alone ==
    ASSUME IInv, NEW h \in Helper, Active(h)
    PROVE  \A g \in Helper \ {h} : ~Active(g) /\ mailbox.by # g
<1>1. ASSUME NEW g \in Helper \ {h} PROVE ~Active(g) /\ mailbox.by # g
  <2>1. h \in Started /\ (Active(g) => g \in Started)
    BY <1>1 DEF Active, Started
  <2>2. ~Active(g)
    BY <1>1, <2>1 DEF IInv, Solo, Helper
  <2>3. g # 0
    BY <1>1 DEF Helper
  <2>4. mailbox # Empty => mailbox.by \in Started /\ h <= mailbox.by /\ mailbox.by <= h
    BY <2>1 DEF IInv, Mail, MailboxCurrent, Solo
  <2>5. QED
    BY <1>1, <2>2, <2>3, <2>4 DEF Empty, Helper, Started
<1>2. QED
  BY <1>1

(* Those steps of helpers keep the inductive invariant.                     *)
LEMMA HelperStepInv ==
    ASSUME IInv, TypeOK', NEW h \in Helper, Frame(h), Silent(h) \/ Tells(h)
    PROVE  IInv'
<1>1. \A g \in Helper \ {h} : /\ helper'[g] = helper[g] /\ ~Active(g) /\ mailbox.by # g
  BY Alone DEF Frame
<1>2. Active(h) /\ helper[h].at # "unused" /\ helper'[h].at # "unused" /\ core' = core
  BY DEF Frame, Active
<1>3. Started' = Started
  BY <1>1, <1>2 DEF Started
<1>4. Solo'
  <2>1. \A g \in Helper : Active(g)' => g = h
    BY <1>1 DEF Active
  <2>2. QED
    BY <1>2, <1>3, <2>1 DEF IInv, Solo
<1>5. Mail'
  <2>1. core.at # "spawn"
    BY <1>2 DEF IInv, Solo
  <2>2. mailbox' = mailbox \/ mailbox'.by = h
    BY DEF Silent, Tells
  <2>3. h \in Started /\ \A g \in Started : g <= h
    BY <1>2 DEF IInv, Solo, Started
  <2>4. QED
    BY <1>2, <1>3, <2>1, <2>2, <2>3 DEF IInv, Mail, MailboxCurrent
<1>6. CodeInv'
  <2>1. Codes(h)'
    <3>1. CASE Silent(h)
      BY <3>1 DEF IInv, CodeInv, Codes, Silent, Prepares, Lifts, Swaps, PutsBack, LosesTrack,
                  Starts, Finishes, Dies, SameCode, Before, Swapping
    <3>2. CASE Tells(h)
      BY <3>2 DEF IInv, CodeInv, Codes, Tells, SameCode, Before, Swapping
    <3>3. QED
      BY <3>1, <3>2
  <2>2. ASSUME NEW g \in Helper \ {h} PROVE Codes(g)'
    BY <1>1, <2>2 DEF IInv, CodeInv, Codes
  <2>3. QED
    BY <2>1, <2>2 DEF CodeInv
<1>7. PlaceInv'
  <2>1. Elsewhere(h)' = Elsewhere(h)
    BY <1>1 DEF Elsewhere
  <2>2. /\ WorkingKept <=> working \in {target, helper[h].backup, helper[h].failed} \cup Elsewhere(h)
        /\ WorkingKept' <=> working' \in {target', helper'[h].backup, helper'[h].failed}
                                          \cup Elsewhere(h)
    <3>1. WorkingKept <=> working \in {target, helper[h].backup, helper[h].failed} \cup Elsewhere(h)
      BY DEF WorkingKept, Elsewhere
    <3>2. WorkingKept' <=> working' \in {target', helper'[h].backup, helper'[h].failed}
                                          \cup Elsewhere(h)'
      BY DEF WorkingKept, Elsewhere
    <3>3. QED
      BY <2>1, <3>1, <3>2
  <2>3. working # 0
    BY DEF IInv, TypeOK, Release
  <2>4. WorkingKept /\ Place(h)
    BY DEF IInv, PlaceInv
  <2> HIDE DEF WorkingKept, Elsewhere
  <2>5. WorkingKept' /\ Place(h)'
    <3>1. CASE Prepares(h) \/ LosesTrack(h) \/ Dies(h) \/ Tells(h)
      BY <2>1, <2>2, <2>4, <3>1 DEF Prepares, LosesTrack, Dies, Tells, Still, Place, Before,
          Swapping
    <3>2. CASE Lifts(h)
      BY <2>1, <2>2, <2>3, <2>4, <3>2 DEF Lifts, Place, Before, Swapping
    <3>3. CASE Swaps(h)
      BY <2>1, <2>2, <2>4, <3>3 DEF Swaps, Place, Before, Swapping
    <3>4. CASE PutsBack(h)
      BY <2>1, <2>2, <2>4, <3>4 DEF PutsBack, Place, Before, Swapping
    <3>5. CASE Starts(h) \/ Finishes(h)
      BY <2>1, <2>2, <2>4, <3>5 DEF Starts, Finishes, Place, Before, Swapping
    <3>6. QED
      BY <3>1, <3>2, <3>3, <3>4, <3>5 DEF Silent
  <2>6. ASSUME NEW g \in Helper \ {h} PROVE Place(g)'
    BY <1>1, <2>6 DEF IInv, PlaceInv, Place, Active, Before, Swapping
  <2>7. QED
    BY <2>5, <2>6 DEF PlaceInv
<1>8. PriorInv'
  <2>1. Unconfirmed(h)' = Unconfirmed(h)
    BY <1>1 DEF Unconfirmed
  <2> HIDE DEF Unconfirmed
  <2>2. Prior(h) /\ Codes(h)
    BY DEF IInv, PriorInv, CodeInv
  <2>3. Prior(h)'
    <3>1. CASE Silent(h)
      BY <2>1, <2>2, <3>1 DEF Silent, Prior, Codes, Prepares, Lifts, Swaps, PutsBack, LosesTrack,
                  Starts, Finishes, Dies, Still, SameCode, Before, Swapping
    <3>2. CASE Tells(h)
      BY <2>1, <2>2, <3>2 DEF Prior, Codes, Tells, Still, SameCode, Before, Swapping
    <3>3. QED
      BY <3>1, <3>2
  <2>4. Unconfirmed(h) => \E g \in Helper : helper'[g].at = "dead" \/ helper'[g].code = "ManualRepairRequired"
    BY <1>1 DEF Unconfirmed
  <2>5. Settled'
    <3> SUFFICES ASSUME helper'[h].at \in {"done", "dead"}
                 PROVE  \/ target' = working'
                        \/ helper'[h].at = "dead" \/ helper'[h].code = "ManualRepairRequired"
                        \/ Unconfirmed(h)
      BY <1>2, <2>4 DEF Settled, Active
    <3>1. CASE Silent(h)
      BY <2>2, <3>1 DEF Silent, Prior, Codes, Prepares, Lifts, Swaps, PutsBack, LosesTrack,
                  Starts, Finishes, Dies, Before, Swapping
    <3>2. CASE Tells(h)
      BY <2>2, <3>2 DEF Prior, Codes, Tells, Still, SameCode, Before, Swapping
    <3>3. QED
      BY <3>1, <3>2
  <2>6. ASSUME NEW g \in Helper \ {h} PROVE Prior(g)'
    BY <1>1, <2>6 DEF Prior, Active, Before, Swapping
  <2>7. QED
    BY <2>3, <2>5, <2>6 DEF PriorInv
<1>9. ReportInv'
  <2> DEFINE Told(g) ==
               (helper[g].at = "done" /\ helper[g].code # "none") =>
                   \/ helper[g].told \/ mailbox.by = g
                   \/ (helper[g].lost /\ helper[g].beside) \/ helper[g].taken
  <2>1. ASSUME NEW g \in Helper \ {h} PROVE Reports(g)' /\ Told(g)'
    BY <1>1, <2>1 DEF IInv, ReportInv, FailureTold, Reports, Active
  <2>2. Reports(h) /\ Codes(h)
    BY DEF IInv, ReportInv, CodeInv
  <2>3. Reports(h)' /\ Told(h)'
    <3>1. CASE Silent(h)
      BY <2>2, <3>1 DEF Silent, Reports, Codes, Prepares, Lifts, Swaps, PutsBack, LosesTrack,
                  Starts, Finishes, Dies, SameCode, Before, Swapping
    <3>2. CASE Tells(h)
      BY <2>2, <3>2 DEF Reports, Codes, Tells, SameCode, Before, Swapping
    <3>3. QED
      BY <3>1, <3>2
  <2>4. (\A g \in Helper : Told(g)') => FailureTold'
    BY DEF FailureTold
  <2> HIDE DEF Told
  <2>5. QED
    BY <2>1, <2>3, <2>4 DEF ReportInv
<1>10. QED
  BY <1>4, <1>5, <1>6, <1>7, <1>8, <1>9 DEF IInv

(* Every step keeps the inductive invariant while updates do not overlap.   *)
LEMMA NextIInv ==
    ASSUME Overlap = FALSE, IInv, [Next]_vars
    PROVE  IInv'
<1>1. TypeOK /\ TypeOK'
  BY NextTypes DEF IInv
<1>2. CASE UNCHANGED vars
  BY <1>1, <1>2, DeskStep DEF vars, Quiet
<1>3. CASE Next
  <2>1. CASE \E h \in Helper : HelperStep(h) \/ HelperDies(h)
    <3>1. PICK h \in Helper : HelperStep(h) \/ HelperDies(h)
      BY <2>1
    <3>2. Frame(h) /\ (Silent(h) \/ Tells(h))
      BY <1>1, <3>1, HelperKinds DEF IInv, CodeInv
    <3>3. QED
      BY <1>1, <3>2, HelperStepInv
  <2>2. CASE Publish \/ Launch \/ Handshake \/ HandshakeLost \/ CheckUpdates \/ StartDownload
               \/ Quit \/ CoreStep
    BY <1>1, <2>2, DeskKinds, DeskStep
  <2>3. QED
    BY <1>3, <2>1, <2>2 DEF Next
<1>4. QED
  BY <1>2, <1>3

(* While updates do not overlap the inductive invariant always holds.       *)
LEMMA Invariance ==
    ASSUME Overlap = FALSE
    PROVE  Spec => []IInv
<1>1. IInv /\ [Next]_vars => IInv'
  BY NextIInv
<1>2. QED
  BY InitIInv, <1>1, PTL DEF Spec

-----------------------------------------------------------------------------
(* What follows for every reachable state.                                  *)

(* The application that last launched is never lost by the two renames of    *)
(* replace_application_transaction, its rollback, or a helper's death.       *)
THEOREM WorkingIsKept ==
    ASSUME Overlap = FALSE
    PROVE  Spec => []WorkingKept
<1>1. IInv => WorkingKept
  BY DEF IInv, PlaceInv
<1>2. QED
  BY <1>1, Invariance, PTL

(* When recover_failed_update sees an ordinary failure the prior application *)
(* is back at its path, unless an earlier helper died or asked for a repair. *)
THEOREM FailureRollsBack ==
    ASSUME Overlap = FALSE
    PROVE  Spec => []RolledBack
<1>1. IInv => RolledBack
  BY DEF IInv, PriorInv, Prior, RolledBack
<1>2. QED
  BY <1>1, Invariance, PTL

(* A failed update is reported: in the mailbox, at a startup or in a notice. *)
THEOREM FailureIsTold ==
    ASSUME Overlap = FALSE
    PROVE  Spec => []FailureTold
<1>1. IInv => FailureTold
  BY DEF IInv, ReportInv
<1>2. QED
  BY <1>1, Invariance, PTL

(* A result in the mailbox is from the newest helper (clear_updater_result   *)
(* before every start).                                                      *)
THEOREM MailboxIsCurrent ==
    ASSUME Overlap = FALSE
    PROVE  Spec => []MailboxCurrent
<1>1. IInv => MailboxCurrent
  BY DEF IInv, Mail
<1>2. QED
  BY <1>1, Invariance, PTL
=============================================================================
