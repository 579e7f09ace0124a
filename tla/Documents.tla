----------------------------- MODULE Documents -----------------------------
(***************************************************************************)
(* The documents that the core makes from a repository and from what a     *)
(* provider answers: context texts, goal sets and their repair, reports    *)
(* and their history, codebase maps; and what stands between them and the  *)
(* repository: the snapshot, its directories and the provider's stream.    *)
(* A part sees another one only through a finished result, so a behaviour  *)
(* follows one part and the others stay in one state.                      *)
(***************************************************************************)
EXTENDS GoalRepair, Materialize, ProviderStream, ReportHistory, Repository,
        SnapshotWorkspaces, MapGeneration, ContextDocuments

VARIABLE subject        \* the part that a behaviour follows

documentVars == <<goalVars, repairVars, matVars, streamVars, historyVars, repositoryVars,
                  workspaceVars, mapVars, contextVars>>

Subjects == {"goals", "repair", "report", "stream", "history", "repository", "workspaces", "map", "context"}

DocumentsInit ==
    /\ subject \in Subjects
    /\ GoalsInit /\ (subject # "goals" => ~brief.long /\ brief.mentions = {} /\ current = {})
    /\ IF subject = "repair" THEN RepairInit ELSE RepairFrom({}, <<>>)
    /\ MatInit /\ (subject # "report" => policy = "redact")
    /\ StreamInit /\ (subject # "stream" => streamKind = "codex")
    /\ HistoryInit
    /\ RepositoryInit /\ (subject # "repository" => task = "command")
    /\ WorkspacesInit
    /\ MapInit /\ (subject # "map" => mapPolicy = "Redact")
    /\ ContextInit /\ (subject # "context" => format = "pdf" /\ \A f \in {"deck", "note"} : disk[f] = disk["photo"])

DocumentsNext ==
    /\ UNCHANGED subject
    /\ \/ /\ subject = "goals" /\ GoalsNext
          /\ UNCHANGED <<repairVars, matVars, streamVars, historyVars, repositoryVars, workspaceVars, mapVars, contextVars>>
       \/ /\ subject = "repair" /\ RepairNext
          /\ UNCHANGED <<goalVars, matVars, streamVars, historyVars, repositoryVars, workspaceVars, mapVars, contextVars>>
       \/ /\ subject = "report" /\ MatNext
          /\ UNCHANGED <<goalVars, repairVars, streamVars, historyVars, repositoryVars, workspaceVars, mapVars, contextVars>>
       \/ /\ subject = "stream" /\ StreamNext
          /\ UNCHANGED <<goalVars, repairVars, matVars, historyVars, repositoryVars, workspaceVars, mapVars, contextVars>>
       \/ /\ subject = "history" /\ HistoryNext
          /\ UNCHANGED <<goalVars, repairVars, matVars, streamVars, repositoryVars, workspaceVars, mapVars, contextVars>>
       \/ /\ subject = "repository" /\ RepositoryNext
          /\ UNCHANGED <<goalVars, repairVars, matVars, streamVars, historyVars, workspaceVars, mapVars, contextVars>>
       \/ /\ subject = "workspaces" /\ WorkspacesNext
          /\ UNCHANGED <<goalVars, repairVars, matVars, streamVars, historyVars, repositoryVars, mapVars, contextVars>>
       \/ /\ subject = "map" /\ MapNext
          /\ UNCHANGED <<goalVars, repairVars, matVars, streamVars, historyVars, repositoryVars, workspaceVars, contextVars>>
       \/ /\ subject = "context" /\ ContextNext
          /\ UNCHANGED <<goalVars, repairVars, matVars, streamVars, historyVars, repositoryVars, workspaceVars, mapVars>>

DocumentsSpec == DocumentsInit /\ [][DocumentsNext]_<<subject, documentVars>>

-----------------------------------------------------------------------------
(* A goal set that generation returns can be approved and scanned and takes *)
(* no current goal's identity; one that the repair of drafts completes is   *)
(* within the limit, has no key twice and covers what the brief calls for.  *)
GoalSetsSound == GoalsSound /\ RepairSound
=============================================================================
