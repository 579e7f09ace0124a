------------------------------ MODULE Analysis ------------------------------
(***************************************************************************)
(* The way of an analysis through the core: the request and its answer,    *)
(* the scan with its batches, and one run of the provider.  Each part sees *)
(* the next one only through what it returns, so a behaviour follows one   *)
(* part and the others stay where they are.                                *)
(***************************************************************************)
EXTENDS CoreRequests, Scan, ProviderRunner

VARIABLE part       \* the part that a behaviour follows

analysisVars == <<part, requestVars, scanVars, runnerVars>>

\* A part that is not followed starts in one state.
AnalysisInit ==
    /\ part \in {"requests", "scan", "runner"}
    /\ RequestsInit /\ ScanInit /\ RunnerInit
    /\ part # "requests" => mode = "stdin" /\ frames = <<>>
    /\ part # "scan" => ~inWorkspace /\ goals = 0
    /\ part # "runner" => kind = "claude" /\ ~progress

OfRunner(A) == part = "runner" /\ A /\ UNCHANGED <<part, requestVars, scanVars>>

AnalysisNext ==
    \/ part = "requests" /\ RequestsNext /\ UNCHANGED <<part, scanVars, runnerVars>>
    \/ part = "scan" /\ ScanNext /\ UNCHANGED <<part, requestVars, runnerVars>>
    \/ OfRunner(RunnerNext)

(* The runtime polls the run's future and the probe's thread, and a         *)
(* deadline that was set passes.                                            *)
AnalysisFairness ==
    /\ WF_analysisVars(OfRunner(RunnerStep))
    /\ WF_analysisVars(OfRunner(Expire))

AnalysisSpec == AnalysisInit /\ [][AnalysisNext]_analysisVars /\ AnalysisFairness

(* Every run ends: a CLI that writes before it reads, one that never exits  *)
(* and a helper that keeps the pipes open are all ended by the deadline.    *)
EveryRunEnds == part = "runner" ~> runStage = "done"
=============================================================================
