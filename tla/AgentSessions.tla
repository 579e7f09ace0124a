---------------------------- MODULE AgentSessions ----------------------------
(***************************************************************************)
(* Analysis sessions of coding agents: agent_gateway.rs behind the MCP     *)
(* server (mcp.rs) and the one-shot command line (agent_cli.rs).  Every    *)
(* server and every command is a process of its own; what they share is    *)
(* the session directory, the agent's inbox and the workspace's ledger.    *)
(*                                                                         *)
(* A session is a file <id>.json; a submission claims it by renaming it,   *)
(* gives it back by renaming it again when it fails, and removes it when   *)
(* its report is recorded.  Its contents never change, so a file is its    *)
(* name.  A goal set is its hash.  Session files of builds that did not    *)
(* encrypt them are protected before the gateway runs (AtRest).            *)
(*                                                                         *)
(* Collecting the expired files reads and removes them one by one; since   *)
(* an expired session stays expired and its name is never used again, the  *)
(* whole sweep is one step.                                                *)
(***************************************************************************)
EXTENDS Naturals, FiniteSets

CONSTANTS
    Mcp, Cli,       \* MCP servers and agent commands
    Session,        \* session ids; their number bounds the sessions begun
    Workspace,      \* workspaces of the device
    Editor,         \* those in which the device has the Editor role
    MaxGoals,       \* bound: goal sets of a workspace
    Ttl,            \* SESSION_TTL
    MaxClock,       \* bound: readings of the clock
    MaxFail,        \* bound: appends that fail
    MaxCrash,       \* bound: processes that die
    None

Proc == Mcp \cup Cli

\* The contents of a session file.
Body == [ws : Workspace, goals : Nat, expires : Nat]

ASSUME AgentAssumption ==
    /\ Mcp \cap Cli = {} /\ Editor \subseteq Workspace
    /\ None \notin Session \cup Workspace \cup Body
    /\ MaxGoals \in Nat /\ Ttl \in Nat \ {0} /\ MaxClock \in Nat
    /\ MaxFail \in Nat /\ MaxCrash \in Nat

VARIABLES
    clock,      \* the wall clock
    goals,      \* hash of each workspace's approved goal set, 0 for none
    body,       \* the contents of each session that was begun
    open,       \* sessions whose file is at its own path
    claimed,    \* claimed files: <<session, process>>
    started,    \* sessions with an AnalysisStarted mark in the ledger
    returned,   \* sessions an agent was told of
    reports,    \* reports in the ledgers
    inbox,      \* commands whose payload file is in the inbox
    pc, mine,   \* where each process is, and the session it works on
    ws, seen,   \* the workspace it resolved and the goal set it read
    spent,      \* sessions whose claim was committed
    orphan,     \* sessions whose claim died with its process
    twice,      \* submissions that failed after their report was appended
    fails, crashes

vars == <<clock, goals, body, open, claimed, started, returned, reports, inbox,
          pc, mine, ws, seen, spent, orphan, twice, fails, crashes>>
files == <<body, open, claimed>>
ledger == <<goals, started, reports>>
history == <<returned, spent, orphan, twice>>
locals == <<mine, ws, seen>>
bounds == <<fails, crashes>>

-----------------------------------------------------------------------------
Expired(s) == body[s].expires <= clock

\* collect_expired_sessions, on the session files and on the claimed ones.
CollectExpired(S) == {s \in S : ~Expired(s)}
Collect ==
    /\ open' = CollectExpired(open)
    /\ claimed' = {c \in claimed : ~Expired(c[1])}

Goto(p, l) == pc' = [pc EXCEPT ![p] = l]

\* The request is answered.
Done(p) ==
    /\ Goto(p, "idle")
    /\ mine' = [mine EXCEPT ![p] = None]
    /\ ws' = [ws EXCEPT ![p] = None]
    /\ seen' = [seen EXCEPT ![p] = 0]

\* A command's payload is removed once it was read, whatever the outcome.
Processed(p) == inbox' = inbox \ {p}

\* Mutant: a failed submission removes its claim.
GiveBackNothing(p) ==
    /\ claimed' = claimed \ {<<mine[p], p>>}
    /\ open' = open

\* The claim of a failed submission is given back when it is dropped.
GiveBack(p) ==
    LET held == {s \in {mine[p]} : <<s, p>> \in claimed}
    IN  /\ open' = open \cup held
        /\ claimed' = claimed \ (held \X {p})

Init ==
    /\ clock = 0
    /\ goals = [w \in Workspace |-> 1]
    /\ body = [s \in Session |-> None]
    /\ open = {} /\ claimed = {}
    /\ started = {} /\ returned = {}
    /\ reports = {}
    /\ inbox = {}
    /\ pc = [p \in Proc |-> "idle"]
    /\ mine = [p \in Proc |-> None] /\ ws = [p \in Proc |-> None] /\ seen = [p \in Proc |-> 0]
    /\ spent = {} /\ orphan = {} /\ twice = {}
    /\ fails = 0 /\ crashes = 0

-----------------------------------------------------------------------------
\* A session id is left for every begin_analysis in progress.
IdLeft == Cardinality({q \in Proc : pc[q] = "begin"}) < Cardinality({s \in Session : body[s] = None})

(* begin_analysis of the MCP server: the workspace is the one the server    *)
(* was started for or the most recent one.  A request without approved      *)
(* goals, or for anything but HEAD of the one registered checkout, is       *)
(* refused before anything is written.                                      *)
BeginAnalysis(p, w) ==
    /\ p \in Mcp /\ pc[p] = "idle" /\ IdLeft
    /\ goals[w] # 0
    /\ ws' = [ws EXCEPT ![p] = w]
    /\ Goto(p, "begin")
    /\ UNCHANGED <<clock, ledger, files, inbox, mine, seen, history, bounds>>

(* The begin-analysis command: the workspace of --workspace or the most     *)
(* recent one, and HEAD or a commit that the registered checkout has; goals *)
(* are only looked at when the session is opened.                           *)
BeginCommand(p, w) ==
    /\ p \in Cli /\ pc[p] = "idle" /\ IdLeft
    /\ ws' = [ws EXCEPT ![p] = w]
    /\ Goto(p, "begin")
    /\ UNCHANGED <<clock, ledger, files, inbox, mine, seen, history, bounds>>

(* open_session: expired files are collected, the goals are read again, and *)
(* the session file is written under a fresh id.                            *)
OpenSession(p, s) ==
    /\ pc[p] = "begin" /\ goals[ws[p]] # 0
    /\ body[s] = None
    /\ body' = [body EXCEPT ![s] = [ws |-> ws[p], goals |-> goals[ws[p]], expires |-> clock + Ttl]]
    /\ open' = CollectExpired(open) \cup {s}
    /\ claimed' = {c \in claimed : ~Expired(c[1])}
    /\ mine' = [mine EXCEPT ![p] = s]
    /\ Goto(p, "mark")
    /\ UNCHANGED <<clock, ledger, inbox, ws, seen, history, bounds>>

(* ... or the goal set is empty.                                            *)
OpenRefused(p) ==
    /\ pc[p] = "begin" /\ goals[ws[p]] = 0
    /\ Collect
    /\ Done(p)
    /\ UNCHANGED <<clock, ledger, body, inbox, history, bounds>>

(* record_analysis_started succeeds: the agent is told of the session.      *)
MarkStarted(p) ==
    /\ pc[p] = "mark" /\ ws[p] \in Editor
    /\ started' = started \cup {mine[p]}
    /\ returned' = returned \cup {mine[p]}
    /\ Done(p)
    /\ UNCHANGED <<clock, goals, reports, files, inbox, spent, orphan, twice, bounds>>

\* Mutant: the session file is not retracted when its start cannot be marked.
StartNotMarkedLeft(p) ==
    /\ pc[p] = "mark"
    /\ \/ ws[p] \notin Editor /\ UNCHANGED fails
       \/ ws[p] \in Editor /\ fails < MaxFail /\ fails' = fails + 1
    /\ Done(p)
    /\ UNCHANGED <<clock, ledger, files, inbox, history, crashes>>

(* record_analysis_started fails: on a device without the Editor role, or   *)
(* on either of its two appends (the second marks a repeated analysis).     *)
(* The session file is retracted; the first mark stays in the ledger.       *)
StartNotMarked(p) ==
    /\ pc[p] = "mark"
    /\ \/ ws[p] \notin Editor /\ UNCHANGED <<started, fails>>
       \/ /\ ws[p] \in Editor /\ fails < MaxFail /\ fails' = fails + 1
          /\ started' \in {started} \cup
                {started \cup {mine[p]} : r \in {r \in reports : r.ws = ws[p]}}
    /\ open' = open \ {mine[p]}
    /\ Done(p)
    /\ UNCHANGED <<clock, goals, reports, body, claimed, inbox, history, crashes>>

-----------------------------------------------------------------------------
\* load_session: the request goes on if the session is at its path and not
\* expired, and is over otherwise.
Load(p, s, next) ==
    \/ /\ s \in open /\ ~Expired(s)
       /\ mine' = [mine EXCEPT ![p] = s]
       /\ Goto(p, next)
       /\ UNCHANGED <<ws, seen>>
    \/ (s \notin open \/ Expired(s)) /\ UNCHANGED <<pc, locals>>

(* The command checks the session before it reads the payload; an unknown   *)
(* session leaves the payload in place.                                     *)
VerifySession(p, s) ==
    /\ p \in Cli /\ pc[p] = "idle" /\ p \in inbox
    /\ s \in returned
    /\ Collect
    /\ Load(p, s, "read")
    /\ UNCHANGED <<clock, ledger, body, inbox, history, bounds>>

(* read_payload: a payload that is too large or not JSON ends the command.  *)
ReadPayload(p) ==
    /\ pc[p] = "read"
    /\ \/ Goto(p, "claim") /\ UNCHANGED <<inbox, locals>>
       \/ Done(p) /\ Processed(p)
    /\ UNCHANGED <<clock, ledger, files, history, bounds>>

(* The MCP server hands the submission to the gateway as it is.             *)
SubmitAnalysis(p, s) ==
    /\ p \in Mcp /\ pc[p] = "idle" /\ s \in returned
    /\ mine' = [mine EXCEPT ![p] = s]
    /\ Goto(p, "claim")
    /\ UNCHANGED <<clock, ledger, files, inbox, ws, seen, history, bounds>>

\* Mutant: the session file is read where it is.
ClaimByReading(p) ==
    /\ pc[p] = "claim"
    /\ mine[p] \in CollectExpired(open)
    /\ open' = CollectExpired(open)
    /\ claimed' = {c \in claimed : ~Expired(c[1])} \cup {<<mine[p], p>>}
    /\ Goto(p, "check")
    /\ UNCHANGED <<clock, ledger, body, inbox, locals, history, bounds>>

(* claim_session: the rename that only one submission can win.              *)
ClaimSession(p) ==
    /\ pc[p] = "claim"
    /\ mine[p] \in CollectExpired(open)
    /\ open' = CollectExpired(open) \ {mine[p]}
    /\ claimed' = {c \in claimed : ~Expired(c[1])} \cup {<<mine[p], p>>}
    /\ Goto(p, "check")
    /\ UNCHANGED <<clock, ledger, body, inbox, locals, history, bounds>>

(* ... the file is gone: another submission has it, or it was collected.    *)
ClaimRefused(p) ==
    /\ pc[p] = "claim"
    /\ mine[p] \notin CollectExpired(open)
    /\ Collect
    /\ Done(p)
    /\ Processed(p)
    /\ UNCHANGED <<clock, ledger, body, history, bounds>>

(* The claim expired between the rename and the look at the contents.       *)
ClaimExpired(p) ==
    /\ pc[p] = "check" /\ Expired(mine[p])
    /\ claimed' = claimed \ {<<mine[p], p>>}
    /\ Done(p)
    /\ Processed(p)
    /\ UNCHANGED <<clock, ledger, body, open, history, bounds>>

\* Mutant: the goal set is not compared with the one the session began with.
CheckRole(p) ==
    LET w == body[mine[p]].ws
    IN  /\ pc[p] = "check" /\ ~Expired(mine[p])
        /\ w \in Editor
        /\ ws' = [ws EXCEPT ![p] = w] /\ seen' = [seen EXCEPT ![p] = goals[w]]
        /\ Goto(p, "record")
        /\ UNCHANGED <<clock, ledger, files, inbox, mine, history, bounds>>

(* Role, repositories and contents are accepted, the approved goals are the *)
(* ones the session began with, and the report is materialised for them.    *)
CheckSubmission(p) ==
    LET w == body[mine[p]].ws
    IN  /\ pc[p] = "check" /\ ~Expired(mine[p])
        /\ w \in Editor
        /\ goals[w] = body[mine[p]].goals
        /\ ws' = [ws EXCEPT ![p] = w] /\ seen' = [seen EXCEPT ![p] = goals[w]]
        /\ Goto(p, "record")
        /\ UNCHANGED <<clock, ledger, files, inbox, mine, history, bounds>>

(* Anything of that fails: the claim is dropped.                            *)
SubmissionRejected(p) ==
    /\ pc[p] = "check" /\ ~Expired(mine[p])
    /\ GiveBack(p)
    /\ Done(p)
    /\ Processed(p)
    /\ UNCHANGED <<clock, ledger, body, history, bounds>>

(* record_report_with_repositories, under the workspace lock: the report is *)
(* validated against the goals approved now and its first event appended.   *)
RecordReport(p) ==
    /\ pc[p] = "record" /\ goals[ws[p]] = seen[p]
    /\ reports' = reports \cup {[session |-> mine[p], by |-> p, ws |-> ws[p], goals |-> seen[p],
                                 approved |-> goals[ws[p]], nth |-> Cardinality(reports)]}
    /\ Goto(p, "rest")
    /\ UNCHANGED <<clock, goals, started, files, inbox, locals, history, bounds>>

(* The goals changed since they were read, or the append failed.            *)
RecordRefused(p) ==
    /\ pc[p] = "record"
    /\ \/ goals[ws[p]] # seen[p] /\ UNCHANGED fails
       \/ fails < MaxFail /\ fails' = fails + 1
    /\ GiveBack(p)
    /\ Done(p)
    /\ Processed(p)
    /\ UNCHANGED <<clock, ledger, body, history, crashes>>

(* A later event of the report fails: the claim is given back although the  *)
(* report is in the ledger.                                                 *)
RecordFails(p) ==
    /\ pc[p] = "rest"
    /\ fails < MaxFail /\ fails' = fails + 1
    /\ twice' = twice \cup {[session |-> mine[p], nth |-> fails]}
    /\ GiveBack(p)
    /\ Done(p)
    /\ Processed(p)
    /\ UNCHANGED <<clock, ledger, body, returned, spent, orphan, crashes>>

(* The report is recorded: claim.commit removes the claimed file.           *)
Commit(p) ==
    /\ pc[p] = "rest"
    /\ claimed' = claimed \ {<<mine[p], p>>}
    /\ spent' = spent \cup {mine[p]}
    /\ Done(p)
    /\ Processed(p)
    /\ UNCHANGED <<clock, ledger, body, open, returned, orphan, twice, bounds>>

-----------------------------------------------------------------------------
(* submit_codebase_map does not consume the session.                        *)
SubmitMap(p, s) ==
    /\ pc[p] = "idle" /\ s \in returned /\ (p \in Cli => p \in inbox)
    /\ Collect
    /\ Load(p, s, "map")
    /\ UNCHANGED <<clock, ledger, body, inbox, history, bounds>>

(* The map is rejected, or recorded in the session's workspace, which       *)
(* CodebaseMaps models; either way the request is over.                     *)
RecordMap(p) ==
    /\ pc[p] = "map"
    /\ Done(p)
    /\ Processed(p)
    /\ UNCHANGED <<clock, ledger, files, history, bounds>>

(* note-action removes its payload; the note itself is ready_action of the  *)
(* most recent workspace (WorkspaceLedger).                                 *)
NoteAction(p) ==
    /\ p \in Cli /\ pc[p] = "idle" /\ p \in inbox
    /\ Processed(p)
    /\ UNCHANGED <<clock, ledger, files, pc, locals, history, bounds>>

-----------------------------------------------------------------------------
(* The bot transfers a payload into the inbox.                              *)
Transfer(p) ==
    /\ p \in Cli \ inbox /\ pc[p] = "idle"
    /\ inbox' = inbox \cup {p}
    /\ UNCHANGED <<clock, ledger, files, pc, locals, history, bounds>>

(* The desktop of an Editor replaces the approved goals.                    *)
ReplaceGoals(w) ==
    /\ w \in Editor
    /\ goals' \in {[goals EXCEPT ![w] = g] : g \in (0 .. MaxGoals) \ {goals[w]}}
    /\ UNCHANGED <<clock, started, reports, files, inbox, pc, locals, history, bounds>>

Tick ==
    /\ clock < MaxClock /\ clock' = clock + 1
    /\ UNCHANGED <<ledger, files, inbox, pc, locals, history, bounds>>

(* A process dies; the claim it holds stays in the directory.               *)
Crash(p) ==
    /\ pc[p] # "idle" /\ crashes < MaxCrash /\ crashes' = crashes + 1
    /\ orphan' = orphan \cup {s \in {mine[p]} : <<s, p>> \in claimed}
    /\ Done(p)
    /\ UNCHANGED <<clock, ledger, files, inbox, returned, spent, twice, fails>>

Step(p) ==
    \/ \E s \in Session : OpenSession(p, s)
    \/ OpenRefused(p) \/ MarkStarted(p) \/ StartNotMarked(p)
    \/ ReadPayload(p) \/ ClaimSession(p) \/ ClaimRefused(p) \/ ClaimExpired(p)
    \/ CheckSubmission(p) \/ SubmissionRejected(p)
    \/ RecordReport(p) \/ RecordRefused(p) \/ RecordFails(p) \/ Commit(p)
    \/ RecordMap(p)

Next ==
    \/ \E p \in Proc : Step(p) \/ Crash(p)
    \/ \E p \in Proc, w \in Workspace : BeginAnalysis(p, w) \/ BeginCommand(p, w)
    \/ \E p \in Proc, s \in Session :
          VerifySession(p, s) \/ SubmitAnalysis(p, s) \/ SubmitMap(p, s)
    \/ \E p \in Proc : NoteAction(p) \/ Transfer(p)
    \/ \E w \in Workspace : ReplaceGoals(w)
    \/ Tick

Spec == Init /\ [][Next]_vars

-----------------------------------------------------------------------------
(* A session an agent was told of is not lost before it expires: its file   *)
(* is at its path for anyone to submit, a running submission holds it, its  *)
(* report was recorded, or the process that held it died.                   *)
SessionNotLost ==
    \A s \in returned :
        \/ Expired(s)
        \/ s \in open \cup spent \cup orphan
        \/ \E p \in Proc : <<s, p>> \in claimed /\ mine[p] = s /\ pc[p] \in {"check", "record", "rest"}

(* A session leads to one report, and to one more only for every submission *)
(* that failed after its report was in the ledger.                          *)
ReportedOnce ==
    \A s \in Session :
        Cardinality({r \in reports : r.session = s})
            <= 1 + Cardinality({t \in twice : t.session = s})

(* Every report of a session is about the goals the session began with,     *)
(* which were the approved ones when it entered the ledger, in the session's *)
(* workspace, and that ledger has the mark of the session's start.          *)
ReportsFollowSessions ==
    \A r \in reports :
        /\ r.session \in started
        /\ r.goals = body[r.session].goals /\ r.goals = r.approved
        /\ r.ws = body[r.session].ws

(* The file of a session that an agent was not told of goes away with its   *)
(* begin_analysis, unless the process died.                                 *)
RetractedUnmarked ==
    \A s \in open \ returned : crashes > 0 \/ \E p \in Proc : pc[p] = "mark" /\ mine[p] = s

=============================================================================
