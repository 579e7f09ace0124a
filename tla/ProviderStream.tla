--------------------------- MODULE ProviderStream ---------------------------
(***************************************************************************)
(* What the core keeps and shows of a provider's event lines: the records  *)
(* that are retained, the activity feed with its file ordinals and safe    *)
(* paths, the result that is extracted at the end, and the reason that is  *)
(* given for a failure (provider/stream.rs, provider/codex.rs).            *)
(*                                                                         *)
(* A line is an event record or not JSON.  A path is whether it is         *)
(* absolute and its parts.  A message is its fixed wording, and its path.  *)
(***************************************************************************)
EXTENDS Naturals, Sequences, FiniteSets, SequencesExt

CONSTANTS
    MaxLines,       \* bound: lines of a run
    RetainLimit,    \* MAX_PROVIDER_OUTPUT, in lines
    NoResult        \* no structured result

ASSUME StreamAssumption == MaxLines \in Nat /\ RetainLimit \in Nat \ {0}

VARIABLES
    streamKind,     \* which provider
    lines,          \* the lines so far
    retained,       \* the records that are kept
    files_read,     \* the distinct files, in the order of their first reading
    feed,           \* messages sent to the progress sink
    streamEnd       \* what the run ended with

streamVars == <<streamKind, lines, retained, files_read, feed, streamEnd>>

-----------------------------------------------------------------------------
(* Event lines.                                                             *)
Path(absolute, parts) == [absolute |-> absolute, parts |-> parts]
Paths == {Path(TRUE, <<"tmp", "repository-1", "a">>), Path(FALSE, <<"repository-1", "a">>),
          Path(FALSE, <<".", "repository-1", "b">>), Path(TRUE, <<"home", "secret">>),
          Path(FALSE, <<"..", "secret">>), Path(FALSE, <<"repository-1", "..", "home">>), Path(FALSE, <<>>)}
Block(type, tool, path) == [type |-> type, tool |-> tool, path |-> path]
Blocks == {Block("text", "", Path(FALSE, <<>>)), Block("thinking", "", Path(FALSE, <<>>)),
           Block("tool_use", "other", Path(FALSE, <<>>))}
          \cup {Block("tool_use", "read", p) : p \in Paths}
          \cup {Block("tool_use", "list", p) : p \in {Path(FALSE, <<".", "repository-1", "b">>), Path(TRUE, <<"home", "secret">>)}}

Event(type, blocks, output, says) == [type |-> type, blocks |-> blocks, output |-> output, says |-> says]
\* output: the structured field of a result; says: what a diagnostic mentions.
Messages ==
    {Event("assistant", <<b>>, "", {}) : b \in Blocks}
    \cup {Event("assistant", <<Block("tool_use", "read", Path(FALSE, <<"repository-1", "a">>)),
                               Block("text", "", Path(FALSE, <<>>))>>, "", {}),
          Event("system", <<>>, "", {}), Event("notJson", <<>>, "", {})}
    \cup {Event("result", <<>>, o, {}) : o \in {"json", "other json", "plain text", "null"}}
Says == {{}, {"auth"}, {"limit", "network"}, {"turns", "auth"}, {"schema"}, {"sandbox"}}
CodexEvents ==
    {Event("item.started", <<b>>, "", {}) : b \in Blocks}
    \cup {Event(t, <<>>, "", {}) : t \in {"turn.started", "turn.completed", "notJson"}}
    \cup {Event("error", <<>>, "", s) : s \in Says} \cup {Event("turn.failed", <<>>, "", s) : s \in Says}
EventsOf(k) == IF k = "codex" THEN CodexEvents ELSE Messages

StreamInit ==
    /\ streamKind \in {"codex", "claude"}
    /\ lines = <<>> /\ retained = <<>> /\ files_read = <<>> /\ feed = <<>>
    /\ streamEnd = [result |-> NoResult, reason |-> ""]

-----------------------------------------------------------------------------
(* retain_stream_line: a terminal result replaces what was kept; Codex'     *)
(* errors are kept as long as they fit.                                     *)
RetainAppends(e) == IF e.type = "result" THEN Append(retained, e) ELSE retained

Retain(e) ==
    CASE e.type = "result" -> <<e>>
      [] streamKind = "codex" /\ e.type \in {"error", "turn.failed"} /\ Len(retained) < RetainLimit ->
            Append(retained, e)
      [] OTHER -> retained

\* safe_repository_activity_path: the parts that are shown, or none.
IsRepository(part) == part \in {"repository-1"}
SafePath(p) ==
    LET at == {i \in DOMAIN p.parts : IsRepository(p.parts[i])}
        cut == IF at = {} THEN <<>>
               ELSE SubSeq(p.parts, CHOOSE i \in at : \A j \in at : i <= j, Len(p.parts))
        shown == CASE p.absolute -> cut
                   [] ~p.absolute /\ p.parts # <<>> /\ p.parts[1] = "." -> Tail(p.parts)
                   [] OTHER -> p.parts
    IN  IF \E i \in DOMAIN shown : shown[i] \in {".", ".."} THEN <<>> ELSE shown

\* activity_from_tool_block: reading needs a path, listing may go without.
ActivityOf(b) ==
    CASE b.type = "tool_use" /\ b.tool = "read" /\ SafePath(b.path) # <<>> -> <<"read", SafePath(b.path)>>
      [] b.type = "tool_use" /\ b.tool = "list" -> <<"list", SafePath(b.path)>>
      [] OTHER -> <<>>

\* repository_activity: the last block that names one.
RepositoryActivity(e) ==
    IF e.type \notin {"assistant", "item.started"} THEN <<>>
    ELSE LET named == {i \in DOMAIN e.blocks : ActivityOf(e.blocks[i]) # <<>>}
         IN  IF named = {} THEN <<>>
             ELSE ActivityOf(e.blocks[CHOOSE i \in named : \A j \in named : j <= i])

\* messages_stream_progress, and codex::progress_message: fixed wording.
FixedMessage(e) ==
    CASE e.type = "system" -> "starting" [] e.type = "result" -> "finalizing"
      [] e.type = "assistant" -> e.blocks[Len(e.blocks)].type
      [] OTHER -> ""
CodexMessage(e) ==
    CASE e.type = "turn.started" -> "context" [] e.type = "turn.completed" -> "assembling"
      [] e.type = "item.started" /\ e.blocks[1].type # "tool_use" -> e.blocks[1].type
      [] OTHER -> ""

\* repository_message: a file keeps the ordinal of its first reading.
OrdinalOf(files, path) == CHOOSE i \in DOMAIN files : files[i] = path
WithFile(path) == IF path \in ToSet(files_read) THEN files_read ELSE Append(files_read, path)

Message(wording, path, ordinal) == [wording |-> wording, path |-> path, ordinal |-> ordinal]

(* process_stream_line                                                      *)
Line ==
    /\ Len(lines) < MaxLines /\ streamEnd.reason = "" /\ streamEnd.result = NoResult
    /\ \E e \in EventsOf(streamKind) :
          LET activity == RepositoryActivity(e)
              fixed == IF streamKind = "codex" THEN CodexMessage(e) ELSE FixedMessage(e)
              reads == activity # <<>> /\ activity[1] = "read"
          IN  /\ lines' = Append(lines, e)
              /\ retained' = Retain(e)
              /\ files_read' = IF reads THEN WithFile(activity[2]) ELSE files_read
              /\ feed' = CASE reads -> Append(feed, Message(
                                     IF activity[2] \in ToSet(files_read) THEN "re-reading" ELSE "reading",
                                     activity[2], OrdinalOf(WithFile(activity[2]), activity[2])))
                           [] ~reads /\ activity # <<>> -> Append(feed, Message("list", activity[2], 0))
                           [] activity = <<>> /\ fixed # "" -> Append(feed, Message(fixed, <<>>, 0))
                           [] OTHER -> feed
    /\ UNCHANGED <<streamKind, streamEnd>>

\* extract_stream_result and structured_json: the parsed output of the last
\* result, or the event's own text.
extract_stream_result ==
    IF retained = <<>> THEN NoResult
    ELSE LET last == retained[Len(retained)]
         IN  CASE last.output = "null" -> "envelope" [] OTHER -> last.output

\* provider_failure_message: the first reason that a diagnostic names.
Reasons == <<"turns", "schema", "auth", "limit", "sandbox", "network">>
provider_failure_message(stderr) ==
    LET said == stderr \cup (IF streamKind = "codex" THEN (UNION {r.says : r \in ToSet(retained)}) ELSE {})
        named == {i \in DOMAIN Reasons : Reasons[i] \in said}
    IN  IF named = {} THEN "exited" ELSE Reasons[CHOOSE i \in named : \A j \in named : i <= j]

(* The CLI exits: with a result, or with an error status.  Codex' result is *)
(* the file it wrote.                                                       *)
Exit ==
    /\ streamEnd.reason = "" /\ streamEnd.result = NoResult
    /\ \/ \E stderr \in SUBSET {"auth", "network"} :
             streamEnd' = [result |-> NoResult, reason |-> provider_failure_message(stderr)]
       \/ /\ streamKind # "codex"
          /\ streamEnd' = IF extract_stream_result = NoResult
                          THEN [result |-> NoResult, reason |-> "no structured JSON"]
                          ELSE [result |-> extract_stream_result, reason |-> ""]
       \/ /\ streamKind = "codex"
          /\ \E file \in {NoResult, "json"} :
                streamEnd' = [result |-> file, reason |-> IF file = NoResult THEN "no result file" ELSE ""]
    /\ UNCHANGED <<streamKind, lines, retained, files_read, feed>>

StreamNext == Line \/ Exit

-----------------------------------------------------------------------------
ResultLines == {i \in DOMAIN lines : lines[i].type = "result"}
LastResult == lines[CHOOSE i \in ResultLines : \A j \in ResultLines : j <= i]

(* The terminal event wins: what a Claude or Grok run returns is the output *)
(* of the last result line, however many came before it and whatever came   *)
(* in between, and no more than the limit is ever kept.                     *)
TerminalEventWins ==
    /\ Len(retained) <= RetainLimit
    /\ streamKind = "claude" /\ ResultLines # {} => retained = <<LastResult>>
    /\ streamEnd.result # NoResult /\ streamKind = "claude" =>
          streamEnd.result = IF LastResult.output = "null" THEN "envelope" ELSE LastResult.output

(* "Host paths and traversal components never reach progress IPC", and a    *)
(* file has one ordinal however often and under whatever path it is read.   *)
FeedSafe ==
    \A i \in DOMAIN feed :
        /\ ToSet(feed[i].path) \cap {"..", ".", "home", "secret", "tmp"} = {}
        /\ feed[i].ordinal <= Len(files_read)
        /\ \A j \in DOMAIN feed : feed[i].ordinal > 0 /\ feed[j].ordinal > 0 =>
              (feed[i].path = feed[j].path <=> feed[i].ordinal = feed[j].ordinal)

(* A Codex run that failed is reported as a mere exit only when none of its *)
(* first lines, as many as are sure to be kept, named a reason.             *)
FailureNamed ==
    streamEnd.reason = "exited" /\ streamKind = "codex" =>
        \A i \in 1 .. Len(lines) : i <= RetainLimit => lines[i].says = {}

(* The core keeps the provider's last word and shows none of its text.      *)
StreamSound == TerminalEventWins /\ FeedSafe /\ FailureNamed
=============================================================================
