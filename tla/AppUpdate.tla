------------------------------ MODULE AppUpdate ------------------------------
(***************************************************************************)
(* A macOS application update, from the desktop's prompt to the relaunch:  *)
(* the desktop (main.zig) asks a core process to download and stage a      *)
(* release and then to install it (update.rs); that core starts the        *)
(* external helper and the desktop quits; the helper                       *)
(* (bin/codecaddie-updater.rs) waits for the desktop's process, validates  *)
(* what is staged, replaces the application bundle in two renames, checks  *)
(* and launches it, and on failure rolls back, leaves a result in the      *)
(* one-shot mailbox and reopens the application.                           *)
(*                                                                         *)
(* Everybody shares the file system: the bundle at the application's path, *)
(* the staging directory, the mailbox and each helper's private directories*)
(* (named by its process id).  A person may launch or quit the application *)
(* at any time, a newer release may be published, any rename, launch or    *)
(* mailbox write may fail, and a helper may die.                           *)
(*                                                                         *)
(* A release is its number; 0 stands for no bundle or no file.  Signatures,*)
(* archive inventories and code-signing checks are a comparison of release *)
(* numbers that may also fail.                                             *)
(***************************************************************************)
EXTENDS Naturals

CONSTANTS
    MaxRelease,     \* bound: releases published
    MaxHelpers,     \* bound: helpers started
    MaxLaunch,      \* bound: launches by a person
    MaxCrash,       \* bound: helpers and handshakes that die
    Overlap         \* whether an update may be started while a helper runs

ASSUME UpdateAssumption ==
    /\ MaxRelease \in Nat \ {0} /\ MaxHelpers \in Nat /\ MaxLaunch \in Nat
    /\ MaxCrash \in Nat /\ Overlap \in BOOLEAN

VARIABLES
    published,  \* the release the update channel serves
    target,     \* the bundle at the application's path
    staging,    \* the staging directory: artifact, signed manifest, metadata
    desktop,    \* the desktop process: update_status and process number
    core,       \* the core process that serves its update request
    helper,     \* the helpers, in the order they were started
    mailbox,    \* updater result: its code and the helper it is from
    working,    \* the installed release that last launched (history)
    launches, crashes

vars == <<published, target, staging, desktop, core, helper, mailbox, working, launches, crashes>>
bounds == <<launches, crashes>>

Release == 1..MaxRelease
Bundle == 0..MaxRelease
Helper == 1..MaxHelpers

NoCore == [at |-> "none", own |-> 0, rel |-> 0]
Empty == [code |-> "none", by |-> 0]
Unused == [at |-> "unused", parent |-> 0, own |-> 0, want |-> 0, repl |-> 0, backup |-> 0, failed |-> 0,
           code |-> "none", lost |-> FALSE, beside |-> FALSE, taken |-> FALSE,
           told |-> FALSE]

Active(h) == helper[h].at \notin {"unused", "done", "dead"}
Started == {h \in Helper : helper[h].at # "unused"}

\* process_exists(parent_pid)
ParentRuns(h) == desktop.at # "off" /\ desktop.number = helper[h].parent

\* validate_staged: the artifact is the one the signed manifest and the
\* metadata name, and newer than the release of the process that asks.
Staged(own) ==
    /\ staging.artifact = staging.manifest /\ staging.manifest = staging.metadata
    /\ staging.artifact > own

Init ==
    /\ published \in Release
    /\ target = 1 /\ working = 1
    /\ staging = [artifact |-> 0, manifest |-> 0, metadata |-> 0]
    /\ desktop = [at |-> "off", number |-> 0]
    /\ core = NoCore
    /\ helper = [h \in Helper |-> Unused]
    /\ mailbox = Empty
    /\ launches = 0 /\ crashes = 0

-----------------------------------------------------------------------------
(* The desktop.                                                             *)

Publish ==
    /\ published < MaxRelease
    /\ published' = published + 1
    /\ UNCHANGED <<target, staging, desktop, core, helper, mailbox, working, bounds>>

\* Opening the bundle starts a process, unless the application runs already.
Open ==
    IF desktop.at = "off"
    THEN desktop' = [at |-> "boot", number |-> desktop.number + 1]
    ELSE UNCHANGED desktop

Launch ==
    /\ desktop.at = "off" /\ target # 0 /\ launches < MaxLaunch
    /\ Open
    /\ launches' = launches + 1
    /\ UNCHANGED <<published, target, staging, core, helper, mailbox, working, crashes>>

\* A result in the mailbox reaches the desktop, or a new attempt supersedes it.
EmptyMailbox ==
    /\ mailbox' = Empty
    /\ helper' = [h \in Helper |-> IF h = mailbox.by THEN [helper[h] EXCEPT !.told = TRUE]
                                   ELSE helper[h]]

(* The startup handshake: the core takes the mailbox's result.  A failure    *)
(* stays on display; otherwise a check for updates follows.                  *)
Handshake ==
    /\ desktop.at = "boot" /\ target # 0
    /\ desktop' = [desktop EXCEPT !.at = "idle"]
    /\ EmptyMailbox
    /\ UNCHANGED <<published, target, staging, core, working, bounds>>

(* The core dies, or its answer is cut short, after it has consumed the      *)
(* result: the desktop may try the handshake again.                          *)
HandshakeLost ==
    /\ desktop.at = "boot" /\ target # 0 /\ mailbox # Empty /\ crashes < MaxCrash
    /\ mailbox' = Empty
    /\ helper' = [h \in Helper |-> IF h = mailbox.by THEN [helper[h] EXCEPT !.taken = TRUE]
                                   ELSE helper[h]]
    /\ crashes' = crashes + 1
    /\ UNCHANGED <<published, target, staging, desktop, core, working, launches>>

(* updates.check, select_update and handleUpdateChecked: a prompt opens for  *)
(* a release newer than the core that is at the application's path.          *)
CheckUpdates ==
    /\ desktop.at = "idle" /\ target # 0 /\ published > target
    /\ desktop' = [desktop EXCEPT !.at = "available"]
    /\ UNCHANGED <<published, target, staging, core, helper, mailbox, working, bounds>>

StartDownload ==
    /\ desktop.at = "available" /\ target # 0
    /\ desktop' = [desktop EXCEPT !.at = "downloading"]
    /\ core' = [at |-> "fetch", own |-> target, rel |-> 0]
    /\ UNCHANGED <<published, target, staging, helper, mailbox, working, bounds>>

\* handleUpdateInstalled quits; a person may quit when no request is under way.
Quit ==
    /\ desktop.at \in {"idle", "available", "restarting"}
    /\ desktop' = [desktop EXCEPT !.at = "off"]
    /\ UNCHANGED <<published, target, staging, core, helper, mailbox, working, bounds>>

-----------------------------------------------------------------------------
(* The core processes that serve updates.download and updates.install.      *)

Fetch ==
    /\ core.at = "fetch" /\ published > core.own
    /\ core' = [core EXCEPT !.at = "artifact", !.rel = published]
    /\ UNCHANGED <<published, target, staging, desktop, helper, mailbox, working, bounds>>

(* stage_release renames the verified download into place, then writes the   *)
(* manifest and last the metadata; handleUpdateDownloaded asks for the       *)
(* installation.                                                             *)
StageArtifact ==
    /\ core.at = "artifact"
    /\ staging' = [staging EXCEPT !.artifact = core.rel]
    /\ core' = [core EXCEPT !.at = "manifest"]
    /\ UNCHANGED <<published, target, desktop, helper, mailbox, working, bounds>>

StageManifest ==
    /\ core.at = "manifest"
    /\ staging' = [staging EXCEPT !.manifest = core.rel]
    /\ core' = [core EXCEPT !.at = "metadata"]
    /\ UNCHANGED <<published, target, desktop, helper, mailbox, working, bounds>>

StageMetadata ==
    /\ core.at = "metadata" /\ target # 0
    /\ staging' = [staging EXCEPT !.metadata = core.rel]
    /\ core' = [at |-> "install", own |-> target, rel |-> 0]
    /\ desktop' = [desktop EXCEPT !.at = "installing"]
    /\ UNCHANGED <<published, target, helper, mailbox, working, bounds>>

InstallValidates ==
    /\ core.at = "install" /\ Staged(core.own)
    /\ Overlap \/ \A h \in Helper : ~Active(h)
    /\ core' = [core EXCEPT !.at = "clear"]
    /\ UNCHANGED <<published, target, staging, desktop, helper, mailbox, working, bounds>>

\* Mutant: an earlier result is left in the mailbox.
ClearNothing ==
    /\ core.at = "clear"
    /\ core' = [core EXCEPT !.at = "spawn"]
    /\ UNCHANGED <<published, target, staging, desktop, helper, mailbox, working, bounds>>

(* clear_updater_result: a new attempt supersedes a result nobody has read.  *)
InstallClears ==
    /\ core.at = "clear"
    /\ EmptyMailbox
    /\ core' = [core EXCEPT !.at = "spawn"]
    /\ UNCHANGED <<published, target, staging, desktop, working, bounds>>

InstallSpawns ==
    /\ core.at = "spawn"
    /\ \E h \in Helper :
        /\ h \notin Started /\ \A g \in Helper \ Started : h <= g
        /\ helper' = [helper EXCEPT ![h] = [Unused EXCEPT !.at = "waiting", !.own = core.own,
                                                          !.parent = desktop.number]]
    /\ core' = [core EXCEPT !.at = "reply"]
    /\ UNCHANGED <<published, target, staging, desktop, mailbox, working, bounds>>

InstallReplies ==
    /\ core.at = "reply"
    /\ core' = NoCore
    /\ desktop' = [desktop EXCEPT !.at = "restarting"]
    /\ UNCHANGED <<published, target, staging, helper, mailbox, working, bounds>>

(* The request fails, or the core dies or its answer is not understood,      *)
(* wherever it was: setUpdateFailure, with the prompt still open.            *)
CoreFails ==
    /\ core # NoCore
    /\ core' = NoCore
    /\ desktop' = [desktop EXCEPT !.at = "available"]
    /\ UNCHANGED <<published, target, staging, helper, mailbox, working, bounds>>

-----------------------------------------------------------------------------
(* The helper: run, install_macos and replace_application_transaction.      *)

helperOnly == <<published, staging, desktop, core, mailbox, working, bounds>>

At(h, label) == helper[h].at = label
Becomes(h, x) == helper' = [helper EXCEPT ![h] = x]
Goto(h, label) == Becomes(h, [helper[h] EXCEPT !.at = label])

\* The update fails with a code; the top level recovers (main).
Fail(h, code) == Becomes(h, [helper[h] EXCEPT !.at = "recover", !.code = code])

(* wait_for_parent returns, or gives up after five minutes.  The probe for a *)
(* process is taken to work.                                                 *)
ParentGone(h) ==
    /\ At(h, "waiting") /\ ~ParentRuns(h)
    /\ Goto(h, "validate")
    /\ UNCHANGED <<helperOnly, target>>

WaitTimesOut(h) ==
    /\ At(h, "waiting") /\ ParentRuns(h)
    /\ Fail(h, "InstallFailed")
    /\ UNCHANGED <<helperOnly, target>>

ValidatesStaged(h) ==
    /\ At(h, "validate") /\ Staged(helper[h].own)
    /\ Becomes(h, [helper[h] EXCEPT !.at = "extract", !.want = staging.artifact])
    /\ UNCHANGED <<helperOnly, target>>

(* The archive is extracted and the bundle in it must be the release that    *)
(* was validated: a later download may have replaced the artifact.           *)
Extracts(h) ==
    /\ At(h, "extract") /\ staging.artifact = helper[h].want
    /\ Becomes(h, [helper[h] EXCEPT !.at = "aside", !.repl = staging.artifact])
    /\ UNCHANGED <<helperOnly, target>>

(* Nothing has been touched yet: the update is given up, also when the first *)
(* rename fails.                                                             *)
GivesUp(h) ==
    /\ helper[h].at \in {"validate", "extract", "aside"}
    /\ Fail(h, "InstallFailed")
    /\ UNCHANGED <<helperOnly, target>>

(* rename(target, backup)                                                    *)
MovesAside(h) ==
    /\ At(h, "aside") /\ target # 0
    /\ target' = 0
    /\ Becomes(h, [helper[h] EXCEPT !.at = "replace", !.backup = target])
    /\ UNCHANGED helperOnly

(* rename(replacement, target)                                               *)
Replaces(h) ==
    /\ At(h, "replace") /\ target = 0
    /\ target' = helper[h].repl
    /\ Becomes(h, [helper[h] EXCEPT !.at = "health", !.repl = 0])
    /\ UNCHANGED helperOnly

ReplaceFails(h) ==
    /\ At(h, "replace")
    /\ Goto(h, "undo")
    /\ UNCHANGED <<helperOnly, target>>

(* rename(backup, target) after the replacement failed, or after the failed  *)
(* candidate was moved away; what was moved away is then deleted.            *)
Restores(h) ==
    /\ helper[h].at \in {"undo", "restore"} /\ target = 0
    /\ target' = helper[h].backup
    /\ Becomes(h, [helper[h] EXCEPT !.at = "recover", !.code = "InstallFailed",
                                     !.backup = 0, !.failed = 0])
    /\ UNCHANGED helperOnly

(* A rename of the rollback fails: the state on disk is not known.           *)
RollbackFails(h) ==
    /\ helper[h].at \in {"undo", "quarantine", "restore"}
    /\ Fail(h, "ManualRepairRequired")
    /\ UNCHANGED <<helperOnly, target>>

\* Mutant: the prior bundle is removed once the new one reports its identity.
HealthyDropsBackup(h) ==
    /\ At(h, "health") /\ target = helper[h].want
    /\ Becomes(h, [helper[h] EXCEPT !.at = "activate", !.backup = 0])
    /\ UNCHANGED <<helperOnly, target>>

(* health: the core at the application's path reports the expected identity. *)
Healthy(h) ==
    /\ At(h, "health") /\ target = helper[h].want
    /\ Goto(h, "activate")
    /\ UNCHANGED <<helperOnly, target>>

(* activate: macOS opens the application.  The update is complete.           *)
Activates(h) ==
    /\ At(h, "activate") /\ target # 0
    /\ Open
    /\ working' = target
    /\ Goto(h, "cleanup")
    /\ UNCHANGED <<published, target, staging, core, mailbox, bounds>>

\* Mutant: a launch failure is reported without a rollback.
LaunchFailsInPlace(h) ==
    /\ helper[h].at \in {"health", "activate"}
    /\ Fail(h, "InstallFailed")
    /\ UNCHANGED <<helperOnly, target>>

(* The health check or the launch fails, for whatever reason.                *)
CandidateFails(h) ==
    /\ helper[h].at \in {"health", "activate"}
    /\ Goto(h, "quarantine")
    /\ UNCHANGED <<helperOnly, target>>

(* rename(target, failed)                                                    *)
Quarantines(h) ==
    /\ At(h, "quarantine") /\ target # 0
    /\ target' = 0
    /\ Becomes(h, [helper[h] EXCEPT !.at = "restore", !.failed = target])
    /\ UNCHANGED helperOnly

(* The prior bundle is removed; nothing is recorded for a success.           *)
CleansUp(h) ==
    /\ At(h, "cleanup")
    /\ Becomes(h, [helper[h] EXCEPT !.at = "done", !.backup = 0])
    /\ UNCHANGED <<helperOnly, target>>

-----------------------------------------------------------------------------
(* recover_failed_update and main's notices.                                *)

\* Native notices exist for every code but InstallFailed.
Noticed(x) == [x EXCEPT !.told = @ \/ x.code = "ManualRepairRequired"]

\* Mutant: the application is left closed after every failure.
RecoversClosed(h, recorded) ==
    /\ At(h, "recover")
    /\ Becomes(h, Noticed([helper[h] EXCEPT !.at = "done", !.told = ~recorded,
                                            !.beside = ParentRuns(h)]))
    /\ mailbox' = IF recorded THEN [code |-> helper[h].code, by |-> h] ELSE mailbox
    /\ UNCHANGED <<published, target, staging, desktop, core, working, bounds>>

(* The code is recorded first, or cannot be.  The application is reopened    *)
(* only if the state on disk is known and its process is gone.               *)
Recovers(h, recorded) ==
    LET reopen == helper[h].code = "InstallFailed" /\ ~ParentRuns(h)
        x == [helper[h] EXCEPT !.at = IF reopen THEN "reopen" ELSE "done",
                               !.lost = ~recorded, !.beside = ParentRuns(h)]
    IN  /\ At(h, "recover")
        /\ Becomes(h, IF reopen THEN x ELSE Noticed(x))
        /\ mailbox' = IF recorded THEN [code |-> helper[h].code, by |-> h] ELSE mailbox
        /\ UNCHANGED <<published, target, staging, desktop, core, working, bounds>>

\* Mutant: reopening is taken for reporting.
ReopensSilently(h) ==
    /\ At(h, "reopen") /\ target # 0
    /\ Open
    /\ Goto(h, "done")
    /\ UNCHANGED <<published, target, staging, core, mailbox, working, bounds>>

(* Reopening succeeds; a result that could not be recorded is shown now.     *)
Reopens(h) ==
    /\ At(h, "reopen") /\ target # 0
    /\ Open
    /\ Becomes(h, [helper[h] EXCEPT !.at = "done", !.told = @ \/ helper[h].lost])
    /\ UNCHANGED <<published, target, staging, core, mailbox, working, bounds>>

(* Reopening fails: the code is replaced, and a notice is shown.             *)
ReopenFails(h, recorded) ==
    /\ At(h, "reopen")
    /\ Becomes(h, [helper[h] EXCEPT !.at = "done", !.code = "ReopenFailed", !.told = TRUE])
    /\ mailbox' = IF recorded THEN [code |-> "ReopenFailed", by |-> h] ELSE mailbox
    /\ UNCHANGED <<published, target, staging, desktop, core, working, bounds>>

HelperDies(h) ==
    /\ Active(h) /\ crashes < MaxCrash
    /\ crashes' = crashes + 1
    /\ Goto(h, "dead")
    /\ UNCHANGED <<published, target, staging, desktop, core, mailbox, working, launches>>

-----------------------------------------------------------------------------
HelperStep(h) ==
    \/ ParentGone(h) \/ WaitTimesOut(h) \/ ValidatesStaged(h) \/ Extracts(h) \/ GivesUp(h)
    \/ MovesAside(h) \/ Replaces(h) \/ ReplaceFails(h) \/ Restores(h) \/ RollbackFails(h)
    \/ Healthy(h) \/ Activates(h) \/ CandidateFails(h) \/ Quarantines(h) \/ CleansUp(h)
    \/ \E recorded \in BOOLEAN : Recovers(h, recorded) \/ ReopenFails(h, recorded)
    \/ Reopens(h)

CoreStep ==
    \/ Fetch \/ StageArtifact \/ StageManifest \/ StageMetadata
    \/ InstallValidates \/ InstallClears \/ InstallSpawns \/ InstallReplies \/ CoreFails

Next ==
    \/ Publish \/ Launch \/ Handshake \/ HandshakeLost \/ CheckUpdates \/ StartDownload \/ Quit
    \/ CoreStep
    \/ \E h \in Helper : HelperStep(h) \/ HelperDies(h)

Spec == Init /\ [][Next]_vars

(* Processes that have not died keep running; a desktop told to quit does.   *)
FairSpec ==
    /\ Spec /\ WF_vars(CoreStep)
    /\ \A h \in Helper : WF_vars(HelperStep(h))
    /\ WF_vars(desktop.at = "restarting" /\ Quit)

-----------------------------------------------------------------------------
(* Properties                                                              *)

Code == {"none", "InstallFailed", "ReopenFailed", "ManualRepairRequired"}

HelperState ==
    [at : {"unused", "waiting", "validate", "extract", "aside", "replace", "undo", "health",
           "activate", "cleanup", "quarantine", "restore", "recover", "reopen", "done", "dead"},
     parent : Nat, own : Bundle, want : Bundle, repl : Bundle, backup : Bundle, failed : Bundle,
     code : Code, lost : BOOLEAN, beside : BOOLEAN, taken : BOOLEAN, told : BOOLEAN]

TypeOK ==
    /\ published \in Release /\ target \in Bundle /\ working \in Release
    /\ staging \in [artifact : Bundle, manifest : Bundle, metadata : Bundle]
    /\ desktop \in [at : {"off", "boot", "idle", "available", "downloading", "installing",
                          "restarting"}, number : Nat]
    /\ core \in [at : {"none", "fetch", "artifact", "manifest", "metadata", "install", "clear",
                       "spawn", "reply"}, own : Bundle, rel : Bundle]
    /\ helper \in [Helper -> HelperState]
    /\ mailbox \in [code : Code, by : 0..MaxHelpers]
    /\ launches \in Nat /\ crashes \in Nat

(* The application that last launched is never lost: it is at its path or in *)
(* a helper's private directories, whichever rename fails and wherever a     *)
(* helper dies.                                                              *)
WorkingKept ==
    working \in {target} \cup UNION {{helper[h].backup, helper[h].failed} : h \in Helper}

(* A helper died, or could not confirm its rollback and said so.             *)
Unconfirmed(h) ==
    \E g \in Helper \ {h} :
        helper[g].at = "dead" \/ helper[g].code = "ManualRepairRequired"

(* A failed update restores the exact prior application before it is         *)
(* reported and reopened, unless an earlier one asked for a repair.          *)
RolledBack ==
    \A h \in Helper :
        (helper[h].at \in {"recover", "reopen"} /\ helper[h].code = "InstallFailed") =>
            target = working \/ Unconfirmed(h)

(* A failed update is never silent: its result waits in the mailbox, was     *)
(* shown at a startup or in a notice, or is superseded by a new attempt.     *)
(* The exceptions are a result that could not be recorded while the          *)
(* application was still open, and one consumed by a handshake that failed.  *)
FailureTold ==
    \A h \in Helper :
        (helper[h].at = "done" /\ helper[h].code # "none") =>
            \/ helper[h].told \/ mailbox.by = h
            \/ (helper[h].lost /\ helper[h].beside) \/ helper[h].taken

(* A result in the mailbox is from the latest attempt: a desktop never shows *)
(* a failure that a later update has overtaken.                              *)
MailboxCurrent ==
    mailbox # Empty => mailbox.by \in Started /\ \A h \in Started : h <= mailbox.by

(* An application that quits for an update runs again, or a notice says why  *)
(* not, unless the helper dies or gave up waiting for it to quit.            *)
ComesBack ==
    desktop.at = "restarting" ~>
        \/ desktop.at = "boot"
        \/ \E h \in Helper : helper[h].at = "dead" \/ helper[h].told \/ helper[h].beside
=============================================================================
