---------------------------- MODULE CoreRequests ----------------------------
(***************************************************************************)
(* One core process and the requests the desktop gives it: main.rs,        *)
(* protocol.rs, service.rs and the handlers under service/.                *)
(*                                                                         *)
(* A request is followed from its frame to its answer: version, release    *)
(* control, dispatch, the handler's own checks, its work, the reliability  *)
(* record and the answer.  What a handler's work does to the ledger or to  *)
(* files is the subject of other modules; here it is one mark in `worked`. *)
(***************************************************************************)
EXTENDS Naturals, Sequences, FiniteSets

CONSTANTS
    MaxFrames,      \* bound: frames on standard input
    MaxProgress,    \* bound: progress lines of one request
    NoRequest

ASSUME RequestsAssumption == MaxFrames \in Nat /\ MaxProgress \in Nat

VARIABLES
    mode,       \* "stdin" or "file": where requests come from
    frames,     \* what is still to be read
    taken,      \* number of the request that is being handled
    current,    \* that request, NoRequest between two of them
    stage,      \* how far its handling is
    answer,     \* [ok, code]; code is "" for a success
    output,     \* what was written: [id, kind, code, told, known, due, list]
    worked,     \* numbers of the requests whose handler changed something
    recorded,   \* numbers of the requests whose outcome is in the ledger
    alerted,    \* numbers of the requests whose alert is in the ledger
    staged,     \* the staging file of the request exists
    killed      \* the process was killed

requestVars == <<mode, frames, taken, current, stage, answer, output, worked, recorded, alerted,
                 staged, killed>>

-----------------------------------------------------------------------------
(* The dispatch table, a row for each method.  A handler makes its checks   *)
(* in an order; it fails before it changed anything with a code of `early`, *)
(* and with a code of `late` when its work may be done in part.             *)
Handler(method, checks, early, late) ==
    [method |-> method, checks |-> checks, early |-> early, late |-> late]
Scoped == <<"scope", "params">>

systemHandlers == {Handler(m, <<>>, {}, {}) : m \in {"system.ping", "privacy.promise"}}

providerHandlers == {Handler("providers.detect", <<>>, {}, {})}

updateHandlers ==
    {Handler("updates.check", <<>>, {}, {"update_check_failed"}),
     Handler("updates.download", <<>>, {}, {"update_download_failed"}),
     Handler("updates.install", <<"params">>,
             {"update_install_from_volume", "update_install_translocated",
              "update_install_parent_unwritable", "update_install_bundle_missing"},
             {"update_install_failed"})}

settingsHandlers ==
    {Handler("settings.launchAtLogin.get", <<>>, {"launch_at_login_unavailable"}, {}),
     Handler("settings.launchAtLogin.set", <<"params">>, {}, {"launch_at_login_failed"}),
     Handler("settings.provider.get", <<>>, {"provider_preference_unavailable"}, {}),
     Handler("settings.provider.set", <<"params">>, {}, {"provider_preference_failed"})}

contextHandlers ==
    {Handler("context.files.inspect", <<"params">>, {"context_file_inspection_failed"}, {})}

workspaceHandlers ==
    {Handler("workspace.create", <<"params">>, {}, {"workspace_create_failed"}),
     Handler("workspace.recent", <<>>, {}, {"workspace_resume_failed"}),
     Handler("workspace.open", <<"params">>, {}, {"workspace_open_failed"}),
     Handler("workspace.context.update", Scoped, {}, {"workspace_context_update_failed"}),
     Handler("workspace.recovery.export", Scoped, {}, {"recovery_export_failed"})}

backupHandlers ==
    {Handler("workspace.backup.export", Scoped, {}, {"backup_export_failed"}),
     Handler("workspace.backup.import", <<"params">>, {}, {"backup_import_failed"}),
     Handler("workspace.backup.schedule.status", <<"scope">>,
             {"backup_schedule_status_failed"}, {})}

scheduleHandlers ==
    {Handler("workspace.backup.schedule.enable", Scoped, {}, {"backup_schedule_enable_failed"}),
     Handler("workspace.backup.schedule.disable", <<"scope">>, {},
             {"backup_schedule_disable_failed"}),
     Handler("workspace.backup.schedule.run", Scoped, {}, {"backup_schedule_run_failed"})}

reportHandlers ==
    {Handler("reports.history.list", Scoped, {"report_history_load_failed"}, {}),
     Handler("reports.finding.get", Scoped, {"report_finding_load_failed"}, {}),
     Handler("reports.delete", Scoped,
             {"latest_report_protected", "report_already_deleted", "report_not_found"},
             {"report_delete_failed"}),
     Handler("reports.export_word", Scoped, {}, {"word_report_export_failed"})}

goalHandlers ==
    {Handler("goals.approve", Scoped, {}, {"goal_approval_failed"}),
     Handler("goals.replace", Scoped, {}, {"goal_replacement_failed"}),
     Handler("goals.generate", <<"params">>, {"goal_context_unavailable"},
             {"goal_generation_failed"})}

actionHandlers == {Handler("actions.ready", Scoped, {}, {"action_transition_failed"})}

instrumentationHandlers ==
    {Handler("instrumentation.record", Scoped, {}, {"instrumentation_persistence_failed"})}

promptHandlers ==
    {Handler("recommendations.prompt", Scoped, {"recommendation_prompt_failed"}, {}),
     Handler("recommendations.copy_prompt", Scoped, {},
             {"clipboard_failed", "instrumentation_persistence_failed"})}

reliabilityHandlers ==
    {Handler("reliability.record", Scoped, {"reliability_event_rejected"},
             {"reliability_persistence_failed"})}

\* provider_failure_response: what a failed analysis is reported as.
providerFailures == {"scan_failed", "provider_timeout", "provider_response_invalid",
                     "provider_contract_invalid", "provider_failed"}

scanHandlers ==
    {Handler("scan.run", <<"params">>,
             {"approved_goals_required", "goal_set_incomplete", "workspace_load_failed"},
             {"instrumentation_persistence_failed", "report_persistence_failed"}
                \cup providerFailures)}

mapHandlers ==
    {Handler("map.generate", <<"params", "scope">>,
             {"workspace_load_failed", "repository_unavailable"},
             {"map_generation_failed", "map_persistence_failed"}),
     Handler("map.get", <<"params", "scope">>, {"map_not_found", "workspace_load_failed"}, {})}

DISPATCH ==
    systemHandlers \cup providerHandlers \cup updateHandlers \cup settingsHandlers
    \cup contextHandlers \cup workspaceHandlers \cup backupHandlers \cup scheduleHandlers
    \cup reportHandlers \cup goalHandlers \cup actionHandlers \cup instrumentationHandlers
    \cup promptHandlers \cup reliabilityHandlers \cup scanHandlers \cup mapHandlers

Methods == {h.method : h \in DISPATCH}
HandlerOf(m) == CHOOSE h \in DISPATCH : h.method = m
Unknown == "unknown.method"

\* runtime_controls.rs: the methods a release control may pause.
Controlled == {"goals.generate", "scan.run", "map.generate", "workspace.backup.import",
               "reports.export_word", "recommendations.copy_prompt"}

\* streams_progress
Streams(r) == r.stream /\ r.method \in {"goals.generate", "scan.run", "map.generate"}

\* response_workspace_id: the request's workspace, or the one the result names.
NamesWorkspace == {"workspace.create", "workspace.recent", "workspace.open",
                   "workspace.backup.import"}
HasWorkspace(r, a) == r.scope \/ (a.ok /\ r.method \in NamesWorkspace)

-----------------------------------------------------------------------------
Bad == {[broken |-> b] : b \in {"oversized", "truncated", "malformed"}}
Frame(m, v, s, p, t) == [method |-> m, version |-> v, scope |-> s, params |-> p, stream |-> t]

\* The frames of a behaviour: any request first, one of a few after it.
First == {Frame(m, v, s, p, t) : m \in Methods \cup {Unknown}, v \in BOOLEAN, s \in BOOLEAN,
                                 p \in BOOLEAN, t \in BOOLEAN}
Later == {Frame("map.generate", TRUE, TRUE, TRUE, TRUE),
          Frame("map.get", TRUE, FALSE, TRUE, FALSE)}

\* An answer; `told` is what it says of its reliability record: "yes", "no",
\* or nothing; `known` whether it belongs to a workspace; `due` whether an
\* alert belongs beside the record.
Success == [ok |-> TRUE, code |-> "", told |-> "", known |-> FALSE, due |-> FALSE]

RequestsInit ==
    /\ mode \in {"stdin", "file"}
    /\ \/ frames = <<>>
       \/ \E b \in Bad : frames = <<b>>
       \/ \E f \in First : frames = <<f>>
       \/ \E f \in First, g \in Later \cup Bad : frames = <<f, g>>
    /\ Len(frames) <= MaxFrames
    /\ taken = 0 /\ current = NoRequest /\ stage = "reading" /\ answer = Success
    /\ output = <<>> /\ worked = {} /\ recorded = {} /\ alerted = {}
    /\ staged = (mode = "file") /\ killed = FALSE

Advance(s) == stage' = s
Answers(a) == answer' = a
Fails(code) == Answers([Success EXCEPT !.ok = FALSE, !.code = code])

\* read_frame: one frame, or an error that ends the process.
Take(f) ==
    IF f \in Bad
    THEN Advance("ended") /\ UNCHANGED <<taken, current>>
    ELSE Advance("admit") /\ taken' = taken + 1 /\ current' = f

(* The loop of main: the next frame of standard input, or its end.          *)
ReadStdin ==
    /\ mode = "stdin" /\ stage = "reading"
    /\ IF frames = <<>>
       THEN Advance("ended") /\ UNCHANGED <<frames, taken, current>>
       ELSE Take(Head(frames)) /\ frames' = Tail(frames)
    /\ UNCHANGED <<mode, answer, output, worked, recorded, alerted, staged, killed>>

(* read_request_file looks at the name, the kind and the place of the file  *)
(* before it takes charge of it.                                            *)
OpenRequestFile ==
    /\ mode = "file" /\ stage = "reading"
    /\ \E accepted \in BOOLEAN : Advance(IF accepted THEN "opened" ELSE "refused")
    /\ UNCHANGED <<mode, frames, taken, current, answer, output, worked, recorded, alerted, staged,
                   killed>>

(* The file holds exactly one frame; it is deleted whatever it holds.       *)
ReadRequestFile ==
    /\ stage = "opened"
    /\ IF Len(frames) = 1 THEN Take(Head(frames))
       ELSE Advance("ended") /\ UNCHANGED <<taken, current>>
    /\ staged' = FALSE /\ frames' = <<>>
    /\ UNCHANGED <<mode, answer, output, worked, recorded, alerted, killed>>

\* What ends a request before its handler: version, control, dispatch.
Refusal(r, control) ==
    IF ~r.version THEN "protocol_version"
    ELSE IF r.method \in Controlled /\ control = "paused" THEN "feature_paused"
    ELSE IF r.method \in Controlled /\ control = "unreadable" THEN "feature_control_unavailable"
    ELSE IF r.method \notin Methods THEN "method_not_found"
    ELSE ""

\* method_is_paused: the control file is missing (the shipped controls apply)
\* or leaves the feature active, pauses it, or cannot be read and validated.
ControlState == {"active", "paused", "unreadable"}

(* handle and handle_with_progress.                                         *)
Admit ==
    /\ stage = "admit"
    /\ \E control \in ControlState :
          IF Refusal(current, control) = ""
          THEN Advance("checks") /\ UNCHANGED answer
          ELSE Advance("finalize") /\ Fails(Refusal(current, control))
    /\ UNCHANGED <<mode, frames, taken, current, output, worked, recorded, alerted, staged, killed>>

\* The checks a request fails, in the order its handler makes them.
Failed(r) == SelectSeq(HandlerOf(r.method).checks,
                       LAMBDA c : (c = "scope" /\ ~r.scope) \/ (c = "params" /\ ~r.params))

(* required_workspace and parsed_params, then the handler's own refusals.   *)
Check ==
    /\ stage = "checks"
    /\ IF Failed(current) # <<>>
       THEN /\ Advance("finalize")
            /\ Fails(IF Head(Failed(current)) = "scope" THEN "workspace_required"
                     ELSE "invalid_params")
       ELSE \/ Advance("work") /\ UNCHANGED answer
            \/ \E code \in HandlerOf(current.method).early : Advance("finalize") /\ Fails(code)
    /\ UNCHANGED <<mode, frames, taken, current, output, worked, recorded, alerted, staged, killed>>

(* A progress line of a streaming request.                                  *)
Progress ==
    /\ stage = "work" /\ Streams(current)
    /\ Cardinality({i \in DOMAIN output : output[i].id = taken}) < MaxProgress
    /\ output' = Append(output, [id |-> taken, kind |-> "progress", code |-> "", told |-> "",
                                known |-> FALSE, due |-> FALSE, list |-> FALSE])
    /\ UNCHANGED <<mode, frames, taken, current, stage, answer, worked, recorded, alerted, staged,
                   killed>>

(* The handler's work, which may change something even when it fails.       *)
Work ==
    /\ stage = "work"
    /\ \/ Answers(Success)
       \/ \E code \in HandlerOf(current.method).late : Fails(code)
    /\ worked' \in {worked, worked \cup {taken}}
    /\ Advance("finalize")
    /\ UNCHANGED <<mode, frames, taken, current, output, recorded, alerted, staged, killed>>

\* What the answer to r says of its record: an error always, a success only
\* that the record is missing, where its result has room for a warning.
Told(r, a, made) ==
    IF ~a.ok THEN (IF made THEN "yes" ELSE "no")
    ELSE IF HasWorkspace(r, a) /\ ~made /\ r.method # "providers.detect" THEN "no" ELSE ""

\* The operations that have an objective: config/service-level-objectives.json.
Covered == {"scan.run", "goals.generate", "map.generate", "workspace.recent",
            "workspace.recovery.export", "workspace.backup.export", "workspace.backup.import",
            "workspace.backup.schedule.run", "reports.export_word"}

\* alert_for: a covered operation failed, or took longer than its objective.
AlertFor(r, a, slow) == r.method \in Covered /\ (~a.ok \/ slow)

\* The answer says whether every record of it was acknowledged.
Finished(a, made) == Answers([a EXCEPT !.told = Told(current, a, made)]) /\ Advance("write")

(* finalize_response and record_reliability_operation: where a workspace is *)
(* known its outcome is appended.  A refused append may have left nothing,  *)
(* or a record that is there although its sync failed.                      *)
Finalize ==
    /\ stage = "finalize"
    /\ \E slow \in BOOLEAN :
          LET known == HasWorkspace(current, answer)
              due   == known /\ AlertFor(current, answer, slow)
              a     == [answer EXCEPT !.known = known, !.due = due]
          IN  \/ /\ recorded' \in IF known THEN {recorded, recorded \cup {taken}} ELSE {recorded}
                 /\ Finished(a, FALSE)
              \/ /\ known /\ recorded' = recorded \cup {taken}
                 /\ IF due THEN Answers(a) /\ Advance("alert") ELSE Finished(a, TRUE)
    /\ UNCHANGED <<mode, frames, taken, current, output, worked, alerted, staged, killed>>

\* Mutant: the alert is best effort, its failure is not returned.
AlertBestEffort ==
    /\ stage = "alert"
    /\ alerted' \in {alerted, alerted \cup {taken}} /\ Finished(answer, TRUE)
    /\ UNCHANGED <<mode, frames, taken, current, output, worked, recorded, staged, killed>>

(* The alert is appended beside the outcome, which stays when this fails.   *)
RaiseAlert ==
    /\ stage = "alert"
    /\ \/ alerted' = alerted \cup {taken} /\ Finished(answer, TRUE)
       \/ alerted' \in {alerted, alerted \cup {taken}} /\ Finished(answer, FALSE)
    /\ UNCHANGED <<mode, frames, taken, current, output, worked, recorded, staged, killed>>

(* The answer is written, as a frame or as the last line of a stream; a     *)
(* result that is too large for a frame ends the process instead.           *)
WriteAnswer ==
    /\ stage = "write"
    /\ \/ /\ output' = Append(output, [id |-> taken, code |-> answer.code,
                                       kind |-> IF answer.ok THEN "result" ELSE "error",
                                       told |-> answer.told, known |-> answer.known,
                                       due |-> answer.due,
                                       list |-> current.method = "providers.detect"])
          /\ Advance(IF mode = "stdin" THEN "reading" ELSE "ended")
       \/ output' = output /\ answer.ok /\ ~Streams(current) /\ Advance("ended")
    /\ current' = NoRequest
    /\ UNCHANGED <<mode, frames, taken, answer, worked, recorded, alerted, staged, killed>>

(* The desktop cancels the request, or the system ends the process.         *)
Kill ==
    /\ stage \notin {"ended", "refused"}
    /\ Advance("ended") /\ killed' = TRUE
    /\ UNCHANGED <<mode, frames, taken, current, answer, output, worked, recorded, alerted, staged>>

RequestsNext ==
    \/ ReadStdin \/ OpenRequestFile \/ ReadRequestFile \/ Admit \/ Check \/ Progress \/ Work
    \/ Finalize \/ RaiseAlert \/ WriteAnswer \/ Kill

-----------------------------------------------------------------------------
RequestsTypeOK ==
    /\ mode \in {"stdin", "file"} /\ taken \in 0 .. MaxFrames
    /\ stage \in {"reading", "opened", "admit", "checks", "work", "finalize", "alert", "write",
                  "ended", "refused"}
    /\ worked \subseteq 1 .. taken /\ recorded \subseteq 1 .. taken /\ alerted \subseteq 1 .. taken
    /\ staged \in BOOLEAN /\ killed \in BOOLEAN

Terminal(o) == o.kind # "progress"

(* What is written is about a request that was read, in the order they were *)
(* read; nothing of a request comes after its answer, and only the last     *)
(* request can be left without one: the n-th answer is the n-th request's.  *)
AnswersInOrder ==
    /\ \A i \in DOMAIN output : output[i].id \in 1 .. taken
    /\ \A i, j \in DOMAIN output : i < j => output[i].id <= output[j].id
    /\ \A i, j \in DOMAIN output : i < j /\ Terminal(output[i]) => output[i].id < output[j].id
    /\ \A n \in 1 .. taken - 1 : \E i \in DOMAIN output : output[i].id = n /\ Terminal(output[i])

(* "The operation was not started": an answer that refuses a request comes  *)
(* from a handler that changed nothing.                                     *)
RefusedDidNothing ==
    LET early == (UNION {h.early : h \in DISPATCH})
                 \cup {"protocol_version", "feature_paused", "feature_control_unavailable",
                       "method_not_found", "workspace_required", "invalid_params"}
    IN  \A i \in DOMAIN output : output[i].code \in early => output[i].id \notin worked

\* An answer from which the desktop concludes that its record was made.
Vouched(o) == o.told = "yes" \/ (o.kind = "result" /\ o.known /\ o.told = "" /\ ~o.list)

(* An answer that says its reliability record was made, and a success in a  *)
(* workspace that says nothing, has its outcome in the ledger and beside it *)
(* the alert that was due; no alert is there without its outcome.  An       *)
(* answer that says no promises nothing about a known workspace: an append  *)
(* that failed may be visible, and the outcome stays when its alert fails.  *)
(* The list that providers.detect answers has no room for a warning.        *)
TelemetryTold ==
    /\ \A i \in DOMAIN output : Vouched(output[i]) =>
          output[i].id \in recorded /\ (output[i].due => output[i].id \in alerted)
    /\ \A i \in DOMAIN output :
          output[i].told = "no" /\ ~output[i].known => output[i].id \notin recorded
    /\ alerted \subseteq recorded

(* A staging file of the user's text outlives its process only when it was  *)
(* refused or the process was killed before it read the file.               *)
StagingRemoved == stage = "ended" /\ ~killed => ~staged

(* Every request is answered in turn and truthfully.                        *)
RequestsSound ==
    RequestsTypeOK /\ AnswersInOrder /\ RefusedDidNothing /\ TelemetryTold /\ StagingRemoved
=============================================================================
