--------------------------- MODULE ProviderRunner ---------------------------
(***************************************************************************)
(* One run of an installed provider CLI: the capability probe, the         *)
(* adapter's preparation, the process tree, the pipes and the deadline of  *)
(* provider/runner.rs, mod.rs, stream.rs and the three adapters.           *)
(*                                                                         *)
(* Output is counted in chunks.  The CLI may leave a helper process in its *)
(* group that goes on holding the pipes.  A process that leaves the group  *)
(* is beyond the runner's reach and not part of the model.                 *)
(***************************************************************************)
EXTENDS Naturals

CONSTANTS
    Candidates,     \* executables of the provider's name on PATH
    PromptChunks,   \* size of a prompt that is written to standard input
    PipeCap,        \* what a pipe holds
    OutputLimit,    \* MAX_PROVIDER_OUTPUT
    MaxWritten      \* bound: chunks the tree writes to one pipe

ASSUME RunnerAssumption ==
    {Candidates, PromptChunks, PipeCap, OutputLimit, MaxWritten} \subseteq Nat

VARIABLES
    kind,       \* the provider: "claude", "codex" or "grok"
    progress,   \* a sink for progress is given
    runStage,   \* where the run is
    left,       \* candidates still to be probed, then prompt chunks to write
    alive,      \* the live processes of the group in hand: "cli", "helper"
    holds,      \* the helper holds the pipes open
    status,     \* how the CLI exited: "none", "ok", "failed"
    said,       \* the CLI's result: "nothing", "typed" or "plain" JSON
    input,      \* prompt chunks in the CLI's standard input
    pipe,       \* chunks in the pipes of its output and its errors
    written,    \* chunks that were written to them
    kept,       \* chunks the runner has read
    private,    \* the private contract or home directory exists
    expired,    \* the deadline has passed
    dropped,    \* the run's future was dropped while its probes were running
    strays,     \* groups with live processes that a probe gave up on
    verdict     \* "" while the run goes on, then its end

runnerVars == <<kind, progress, runStage, left, alive, holds, status, said, input, pipe, written,
                kept, private, expired, dropped, strays, verdict>>
processVars == <<alive, holds, status, said, input, pipe, written>>
setting == <<kind, progress>>

Channel == {"out", "err"}
Empty == [c \in Channel |-> 0]

\* The adapters: where the prompt goes, the private directory a run needs,
\* where the result is read, and the probe that follows a sufficient help.
claudeAdapter ==
    [prompt |-> "argument", private |-> FALSE, result |-> "output", sandboxed |-> FALSE]
codexAdapter ==
    [prompt |-> "stdin", private |-> TRUE, result |-> "file", sandboxed |-> FALSE]
grokAdapter ==
    [prompt |-> "argument", private |-> TRUE, result |-> "output", sandboxed |-> TRUE]
Adapter == IF kind = "claude" THEN claudeAdapter ELSE IF kind = "codex" THEN codexAdapter
           ELSE grokAdapter

\* A live process has the pipes open.
Held == "cli" \in alive \/ ("helper" \in alive /\ holds)

RunnerInit ==
    /\ kind \in {"claude", "codex", "grok"} /\ progress \in BOOLEAN
    /\ runStage = "probe" /\ left = Candidates
    /\ alive = {} /\ holds = FALSE /\ status = "none" /\ said = "nothing"
    /\ input = 0 /\ pipe = Empty /\ written = Empty /\ kept = Empty
    /\ private = FALSE /\ expired = FALSE /\ dropped = FALSE /\ strays = 0 /\ verdict = ""

\* ProviderProcessTree::terminate, and the wait for the killed child.
Terminate ==
    /\ alive' = {} /\ holds' = FALSE /\ input' = 0 /\ pipe' = Empty

\* A run ends: its directories go with it, its tree was ended before.
Ends(v) ==
    /\ runStage' = "done" /\ verdict' = v /\ private' = FALSE

\* A fresh child.
Spawned ==
    /\ alive' = {"cli"} /\ holds' = FALSE /\ status' = "none" /\ said' = "nothing"
    /\ input' = 0 /\ pipe' = Empty /\ written' = Empty /\ expired' = FALSE

-----------------------------------------------------------------------------
\* The candidate is not used.
NextCandidate == runStage' = "probe" /\ left' = left - 1 /\ UNCHANGED <<verdict, private>>

Probing == runStage \in {"probing", "probingSandbox"}

(* find_compatible_on_path asks the next candidate for its help; a Grok     *)
(* whose help is sufficient must also start in its strict sandbox.          *)
StartProbe ==
    /\ \/ runStage = "probe" /\ left > 0 /\ runStage' = "probing"
       \/ runStage = "probeSandbox" /\ runStage' = "probingSandbox"
    /\ Spawned
    /\ UNCHANGED <<setting, left, kept, private, dropped, strays, verdict>>

(* Its output file cannot be made, or it cannot be started.                 *)
ProbeNotStarted ==
    /\ \/ runStage = "probe" /\ left > 0
       \/ runStage = "probeSandbox"
    /\ NextCandidate
    /\ UNCHANGED <<setting, processVars, kept, expired, dropped, strays>>

(* No candidate is left.                                                    *)
NotInstalled ==
    /\ runStage = "probe" /\ left = 0
    /\ Ends(IF dropped THEN "cancelled" ELSE "notInstalled") /\ Terminate
    /\ UNCHANGED <<setting, left, status, said, written, kept, expired, dropped, strays>>

(* bounded_probe: the child has exited, its output is too long or its time  *)
(* is over.  Its group is killed; a child that succeeded is accepted when   *)
(* its output can be read and its help names what the adapter needs.        *)
ProbeEnds ==
    /\ Probing
    /\ status # "none" \/ written["out"] > OutputLimit \/ expired
    /\ Terminate
    /\ \E usable \in BOOLEAN :
          IF ~(status = "ok" /\ written["out"] <= OutputLimit /\ usable)
          THEN NextCandidate
          ELSE IF Adapter.sandboxed /\ runStage = "probing"
          THEN runStage' = "probeSandbox" /\ UNCHANGED <<left, verdict, private>>
          ELSE IF dropped
          THEN Ends("cancelled") /\ UNCHANGED left
          ELSE runStage' = "configure" /\ left' = PromptChunks /\ UNCHANGED <<verdict, private>>
    /\ UNCHANGED <<setting, status, said, written, kept, expired, dropped, strays>>

(* The output file or the child cannot be looked at: the probe returns and  *)
(* lets the child go, and what is alive of its group goes on without it.    *)
ProbeBreaks ==
    /\ Probing
    /\ strays' = strays + (IF alive # {} THEN 1 ELSE 0)
    /\ alive' = {} /\ holds' = FALSE /\ UNCHANGED <<status, said, input, pipe, written>>
    /\ NextCandidate
    /\ UNCHANGED <<setting, kept, expired, dropped>>

(* The adapter prepares its private directory and its arguments.            *)
Configure ==
    /\ runStage = "configure"
    /\ runStage' = "spawn" /\ private' = Adapter.private
    /\ UNCHANGED <<setting, left, processVars, kept, expired, dropped, strays, verdict>>

(* The directory cannot be made, or the help does not name a flag that a    *)
(* run without repository tools needs.                                      *)
ConfigureFails ==
    /\ runStage = "configure" /\ Adapter.private
    /\ Ends("invalidContract")
    /\ UNCHANGED <<setting, left, processVars, kept, expired, dropped, strays>>

(* The CLI is started as the leader of its own group, or cannot be.         *)
Spawn ==
    /\ runStage = "spawn" /\ Spawned
    /\ runStage' = IF Adapter.prompt = "stdin" THEN "feed" ELSE "execute"
    /\ UNCHANGED <<setting, left, kept, private, dropped, strays, verdict>>

SpawnFails ==
    /\ runStage = "spawn"
    /\ Ends("startFailed")
    /\ UNCHANGED <<setting, left, processVars, kept, expired, dropped, strays>>

-----------------------------------------------------------------------------
\* The run ends: the tree is terminated before its outcome is returned.
Concludes(v) ==
    /\ Terminate /\ Ends(v)
    /\ UNCHANGED <<setting, left, status, said, written, kept, expired, dropped, strays>>

(* The prompt is written to Codex; nothing reads its output meanwhile.      *)
Feed ==
    /\ runStage = "feed" /\ left > 0 /\ input < PipeCap /\ Held
    /\ left' = left - 1 /\ input' = input + 1
    /\ UNCHANGED <<setting, runStage, alive, holds, status, said, pipe, written, kept, private,
                   expired, dropped, strays, verdict>>

FeedDone ==
    /\ runStage = "feed" /\ left = 0
    /\ runStage' = "execute"
    /\ UNCHANGED <<setting, left, processVars, kept, private, expired, dropped, strays, verdict>>

(* Nobody is left to read the prompt.                                       *)
FeedBroken ==
    /\ runStage = "feed" /\ left > 0 /\ ~Held
    /\ Concludes("ioFailed")

(* read_bounded and read_stream_output: a chunk, unless it exceeds the      *)
(* limit.                                                                   *)
ReadChunk(c) ==
    /\ runStage = "execute" /\ pipe[c] > 0 /\ kept[c] < OutputLimit
    /\ pipe' = [pipe EXCEPT ![c] = @ - 1] /\ kept' = [kept EXCEPT ![c] = @ + 1]
    /\ UNCHANGED <<setting, runStage, left, alive, holds, status, said, input, written, private,
                   expired, dropped, strays, verdict>>

ReadTooMuch(c) ==
    /\ runStage = "execute" /\ pipe[c] > 0 /\ kept[c] = OutputLimit
    /\ Concludes("ioFailed")

(* process_stream_line: a line that is too long or not UTF-8.               *)
ReadBadLine ==
    /\ runStage = "execute" /\ progress /\ pipe["out"] > 0
    /\ Concludes("ioFailed")

\* The result can be read: Codex writes it to a file; with progress only the
\* lines of type "result" were retained, without it the whole output.
Extracted ==
    \/ Adapter.result = "file" /\ said # "nothing"
    \/ Adapter.result = "output" /\ progress /\ said = "typed"
    \/ Adapter.result = "output" /\ ~progress /\ said # "nothing"

Outcome == IF status # "ok" THEN "providerFailed"
           ELSE IF Extracted THEN "accepted" ELSE "malformedResult"

\* Mutant: the helper is left alone because the CLI has exited by itself.
JoinOnly ==
    /\ runStage = "execute" /\ status # "none" /\ ~Held /\ pipe = Empty
    /\ Ends(Outcome)
    /\ UNCHANGED <<setting, left, processVars, kept, expired, dropped, strays>>

(* try_join: both pipes are at their end and the CLI has exited; the group  *)
(* is killed before the result is looked at.                                *)
Join ==
    /\ runStage = "execute" /\ status # "none" /\ ~Held /\ pipe = Empty
    /\ Concludes(Outcome)

\* Mutant: the deadline applies only once the prompt was written.
TimeOutExecution ==
    /\ runStage = "execute" /\ expired
    /\ Concludes("timedOut")

(* timeout_at, around the prompt and around the execution.                  *)
TimeOut ==
    /\ runStage \in {"feed", "execute"} /\ expired
    /\ Concludes("timedOut")

(* The run's future is dropped: the guard ends the tree.  A probe runs on   *)
(* its own thread and is not stopped, nor are those after it.               *)
Cancel ==
    \/ /\ runStage \in {"feed", "execute"} /\ Concludes("cancelled")
    \/ /\ Probing /\ dropped' = TRUE
       /\ UNCHANGED <<setting, runStage, left, processVars, kept, private, expired, strays,
                      verdict>>

-----------------------------------------------------------------------------
Underway == Probing \/ runStage \in {"feed", "execute"}

(* The CLI reads from its standard input.                                   *)
CliReads ==
    /\ "cli" \in alive /\ input > 0
    /\ input' = input - 1
    /\ UNCHANGED <<setting, runStage, left, alive, holds, status, said, pipe, written, kept,
                   private, expired, dropped, strays, verdict>>

(* A process of the tree writes; a probe writes to a file, a run to pipes   *)
(* that block when they are full.                                           *)
TreeWrites(c) ==
    /\ Underway /\ Held /\ written[c] < MaxWritten
    /\ written' = [written EXCEPT ![c] = @ + 1]
    /\ IF Probing THEN c = "out" /\ UNCHANGED pipe
       ELSE pipe[c] < PipeCap /\ pipe' = [pipe EXCEPT ![c] = @ + 1]
    /\ UNCHANGED <<setting, runStage, left, alive, holds, status, said, input, kept, private,
                   expired, dropped, strays, verdict>>

(* The CLI starts a helper, which inherits its pipes or not.                *)
CliForks ==
    /\ "cli" \in alive /\ "helper" \notin alive
    /\ alive' = alive \cup {"helper"} /\ holds' \in BOOLEAN
    /\ UNCHANGED <<setting, runStage, left, status, said, input, pipe, written, kept, private,
                   expired, dropped, strays, verdict>>

CliExits ==
    /\ "cli" \in alive
    /\ alive' = alive \ {"cli"}
    /\ status' \in {"ok", "failed"} /\ said' \in {"nothing", "typed", "plain"}
    /\ input' = IF "helper" \in alive /\ holds THEN input ELSE 0
    /\ UNCHANGED <<setting, runStage, left, holds, pipe, written, kept, private, expired, dropped,
                   strays, verdict>>

HelperExits ==
    /\ "helper" \in alive
    /\ alive' = alive \ {"helper"} /\ holds' = FALSE
    /\ UNCHANGED <<setting, runStage, left, status, said, input, pipe, written, kept, private,
                   expired, dropped, strays, verdict>>

(* A group that was let go ends by itself, at any time or never.            *)
StrayEnds ==
    /\ strays > 0
    /\ strays' = strays - 1
    /\ UNCHANGED <<setting, runStage, left, processVars, kept, private, expired, dropped, verdict>>

(* The deadline passes.                                                     *)
Expire ==
    /\ Underway /\ ~expired
    /\ expired' = TRUE
    /\ UNCHANGED <<setting, runStage, left, processVars, kept, private, dropped, strays, verdict>>

(* The core itself is killed: nobody ends the tree or removes the files.    *)
CoreKilled ==
    /\ runStage # "done"
    /\ runStage' = "done" /\ verdict' = "killed"
    /\ UNCHANGED <<setting, left, processVars, kept, private, expired, dropped, strays>>

RunnerStep ==
    \/ StartProbe \/ NotInstalled \/ ProbeEnds \/ Configure \/ Spawn \/ Feed \/ FeedDone
    \/ FeedBroken \/ Join \/ TimeOut
    \/ \E c \in Channel : ReadChunk(c) \/ ReadTooMuch(c)

RunnerNext ==
    \/ RunnerStep \/ ProbeNotStarted \/ ProbeBreaks \/ StrayEnds \/ ConfigureFails \/ SpawnFails
    \/ ReadBadLine \/ Cancel \/ CliReads \/ CliForks \/ CliExits \/ HelperExits \/ Expire
    \/ CoreKilled
    \/ \E c \in Channel : TreeWrites(c)

-----------------------------------------------------------------------------
RunnerTypeOK ==
    /\ runStage \in {"probe", "probing", "probeSandbox", "probingSandbox", "configure", "spawn",
                     "feed", "execute", "done"}
    /\ left \in 0 .. PromptChunks + Candidates /\ alive \subseteq {"cli", "helper"}
    /\ strays \in 0 .. Candidates
    /\ input \in 0 .. PipeCap /\ pipe \in [Channel -> 0 .. PipeCap]
    /\ written \in [Channel -> 0 .. MaxWritten] /\ kept \in [Channel -> 0 .. OutputLimit]

\* While candidates are probed, and once one of them is prepared and run.
Searching == runStage \in {"probe", "probing", "probeSandbox", "probingSandbox"}
Chosen ==
    \/ runStage \in {"configure", "spawn", "feed", "execute"}
    \/ verdict \in {"accepted", "malformedResult", "providerFailed", "ioFailed", "timedOut",
                   "startFailed", "invalidContract"}

(* A run that ended by itself, by its deadline or by cancellation leaves no *)
(* process of its own group and no private directory; only a core that was  *)
(* killed leaves them.  What it can leave are the groups of probes that     *)
(* could not be looked at: at most one for each candidate it refused, so    *)
(* that a CLI that was prepared or run is never one of them.                *)
NothingLeft ==
    /\ runStage = "done" /\ verdict # "killed" => alive = {} /\ ~private
    /\ Searching => strays <= Candidates - left
    /\ Chosen => strays < Candidates

(* An accepted result is that of a CLI that succeeded, and nothing that the *)
(* tree wrote was cut off or left unread.                                   *)
AcceptedWhole ==
    verdict = "accepted" => status = "ok" /\ said # "nothing" /\ kept = written

(* A run leaves nothing behind and accepts only complete results.           *)
RunnerSound == RunnerTypeOK /\ NothingLeft /\ AcceptedWhole
=============================================================================
