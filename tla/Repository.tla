----------------------------- MODULE Repository -----------------------------
(***************************************************************************)
(* What the core does with an attached Git repository (repository.rs): a   *)
(* frozen commit written to disk through one cat-file --batch, evidence    *)
(* coordinates bound and verified, provider text compared with the source, *)
(* and short Git commands run with a limit on output and time.             *)
(*                                                                         *)
(* A task follows one of these operations.  Sizes and lines are small      *)
(* numbers, a text is a sequence of words.                                 *)
(***************************************************************************)
EXTENDS Integers, Sequences, FiniteSets, SequencesExt, Sums

CONSTANTS
    MaxEntries,     \* MAX_SNAPSHOT_FILES
    MaxBlob,        \* MAX_BLOB_BYTES
    MaxSnapshot,    \* MAX_SNAPSHOT_BYTES
    MaxEvidence,    \* MAX_EVIDENCE_LINES
    MaxRetained     \* MAX_GIT_STDOUT_BYTES

ASSUME RepositoryAssumption ==
    {MaxEntries, MaxBlob, MaxSnapshot, MaxRetained} \subseteq Nat /\ MaxEvidence \in Nat \ {0}

VARIABLES
    task,       \* "clone", "cite", "screen" or "command"
    gitStage,   \* where the task is: ends with "done" or "failed"
    folds,      \* whether the disk tells paths apart by case
    tree,       \* the listing of the commit: entries [path, kind, size]
    entries,    \* the blobs still to come, by their place in the listing
    total,      \* bytes counted so far
    files,      \* files written, read-only: [path, content]
    child,      \* the Git process: "none", "running", "exited", "killed"
    cited,      \* a request and the reference it was bound to
    source,     \* the lines of the commit: [size, words]
    grepped,    \* how many of them were read
    matched,    \* fields of the narrative that were found in the source
    pipe,       \* chunks in the pipe of a command
    wrote,      \* chunks that it wrote
    retained_out,   \* chunks kept by the reader
    helper      \* whether a descendant of the command holds the pipe

snapshotVars == <<folds, tree, entries, files>>
screenVars == <<source, grepped, matched>>
pipeVars == <<pipe, wrote, retained_out, helper>>
repositoryVars == <<task, gitStage, total, child, cited, snapshotVars, screenVars, pipeVars>>

-----------------------------------------------------------------------------
(* clone_at and materialize_snapshot.                                       *)
Entry(path, kind, size) == [path |-> path, kind |-> kind, size |-> size]
\* "a" and "A" are one path where the disk folds case, ".." leaves the tree.
Trees == {<<>>} \cup UNION {[1 .. n -> {Entry("a", "blob", 1), Entry("A", "blob", 2), Entry("b", "blob", 3),
                                        Entry("m", "commit", 0), Entry("..", "blob", 1)}] : n \in 1 .. 3}
Listings == {t \in Trees : \A i, j \in DOMAIN t : i # j => t[i].path # t[j].path}

validate_relative_path(path) == path # ".."
Blobs(t) == {i \in DOMAIN t : t[i].kind # "commit"}
OnDisk(path) == IF folds /\ path = "A" THEN "a" ELSE path

Fail == gitStage' = "failed"

(* The listing is checked as a whole before anything is asked for.          *)
ListTree ==
    /\ task = "clone" /\ gitStage = "start"
    /\ IF (\E i \in DOMAIN tree : ~validate_relative_path(tree[i].path)) \/ Cardinality(Blobs(tree)) > MaxEntries
       THEN Fail /\ UNCHANGED <<entries, child>>
       ELSE IF Blobs(tree) = {} THEN gitStage' = "done" /\ UNCHANGED <<entries, child>>
       ELSE gitStage' = "batch" /\ entries' = Blobs(tree) /\ child' = "running"
    /\ UNCHANGED <<task, total, cited, folds, tree, files, screenVars, pipeVars>>

\* Mutant: the bytes of a blob that is too large are not counted.
CountSkipped(e) == IF e.size > MaxBlob THEN total ELSE total + e.size

Counted(e) == total + e.size

(* materialize_batch_entries: Git answers the next request, out of step, or *)
(* not at all; a blob over the limit is skipped, a file that is there       *)
(* already, being read-only, cannot be written again.                       *)
NextBlob ==
    /\ gitStage = "batch" /\ entries # {}
    /\ LET next == CHOOSE i \in entries : \A j \in entries : i <= j
           e == tree[next]
           bad == Counted(e) > MaxSnapshot \/ (e.size <= MaxBlob /\ \E f \in files : f.path = OnDisk(e.path))
       IN  \E answers \in BOOLEAN :
             IF ~answers \/ bad
             THEN Fail /\ child' = "killed" /\ UNCHANGED <<entries, total, files>>
             ELSE /\ total' = Counted(e) /\ entries' = entries \ {next}
                  /\ files' = files \cup (IF e.size <= MaxBlob THEN {[path |-> OnDisk(e.path), content |-> e]} ELSE {})
                  /\ UNCHANGED <<gitStage, child>>
    /\ UNCHANGED <<task, cited, folds, tree, screenVars, pipeVars>>

(* The writer is joined and the exit status checked.                        *)
EndBatch ==
    /\ gitStage = "batch" /\ entries = {}
    /\ child' = "exited" /\ gitStage' \in {"done", "failed"}
    /\ UNCHANGED <<task, total, cited, snapshotVars, screenVars, pipeVars>>

-----------------------------------------------------------------------------
(* evidence, resolve_tree_path, read_evidence and verify_evidence.  The     *)
(* commit holds three paths, two of which differ in case only.              *)
LinesOf == [readme |-> 2, Readme |-> 1, main |-> 5]
SameButCase(requested) ==
    CASE requested \in {"readme", "Readme", "README"} -> {"readme", "Readme"}
      [] requested \in {"main", "MAIN"} -> {"main"}
      [] OTHER -> {}
Resolved(requested) ==
    IF requested \in DOMAIN LinesOf THEN {requested}
    ELSE IF Cardinality(SameButCase(requested)) = 1 THEN SameButCase(requested) ELSE {}

\* The trailing edge is clamped to the blob and to what the viewer shows.
LastLine(path, start, end) ==
    LET within == IF end < LinesOf[path] THEN end ELSE LinesOf[path]
    IN  IF within < start + MaxEvidence - 1 THEN within ELSE start + MaxEvidence - 1

NoRef == [path |-> "none", start |-> 0, end |-> 0, excerpt |-> {}]
evidence(path, start, end) ==
    LET found == Resolved(path)
    IN  IF path = ".." \/ start = 0 \/ end < start \/ found = {} THEN NoRef
        ELSE LET p == CHOOSE x \in found : TRUE
             IN  IF start > LinesOf[p] THEN NoRef
                 ELSE [path |-> p, start |-> start, end |-> LastLine(p, start, end),
                       excerpt |-> {<<p, k>> : k \in start .. LastLine(p, start, end)}]

\* The blob and the hash of the excerpt have to come out the same.
verify_evidence(ref) == evidence(ref.path, ref.start, ref.end).excerpt = ref.excerpt
read_evidence(ref) == {<<ref.path, k>> : k \in ref.start .. ref.end}

Cite ==
    /\ task = "cite" /\ gitStage = "start"
    /\ \E path \in {"readme", "README", "MAIN", "main", "gone", ".."}, start \in 0 .. 6, end \in 0 .. 7 :
          cited' = [path |-> path, start |-> start, end |-> end, ref |-> evidence(path, start, end)]
    /\ gitStage' = "done"
    /\ UNCHANGED <<task, total, child, snapshotVars, screenVars, pipeVars>>

-----------------------------------------------------------------------------
(* narrative_fields_matching_source: a word is as long as its number says.  *)
Chars(words) == FoldLeft(LAMBDA n, w : n + w, Len(words) - 1, words)
\* The whole line, and at every word the last three and the last four words.
each_fingerprint(words) ==
    LET windows == {SubSeq(words, x[1] - x[2] + 1, x[1]) : x \in {y \in (DOMAIN words) \X (3 .. 4) : y[2] <= y[1]}}
    IN  {f \in {words} \cup windows : Chars(f) >= 24}

NarrativeFields == << <<9, 7, 8, 1>>, <<5, 6, 4, 5, 3>> >>
field_fingerprints == [i \in DOMAIN NarrativeFields |-> each_fingerprint(NarrativeFields[i])]

Text(size, words) == [size |-> size, words |-> words]
SourceLines == {Text(1, <<4, 9, 7, 8>>), Text(1, <<5, 6, 4, 5, 3>>), Text(1, <<6, 4, 5>>), Text(3, <<9, 7, 8>>)}
Sources == {<<>>} \cup UNION {[1 .. n -> SourceLines] : n \in 1 .. 3}

StartGrep ==
    /\ task = "screen" /\ gitStage = "start"
    /\ child' = "running" /\ gitStage' = "grep"
    /\ UNCHANGED <<task, total, cited, snapshotVars, screenVars, pipeVars>>

(* One line: a line over the blob limit is discarded but counted, and once  *)
(* every field has matched the rest is not read.                            *)
GrepLine ==
    /\ gitStage = "grep" /\ grepped < Len(source)
    /\ LET line == source[grepped + 1]
           hits == {i \in DOMAIN NarrativeFields :
                       line.size <= MaxBlob /\ each_fingerprint(line.words) \cap field_fingerprints[i] # {}}
       IN  /\ total' = total + line.size
           /\ IF total + line.size > MaxSnapshot
              THEN Fail /\ child' = "killed" /\ UNCHANGED matched
              ELSE /\ matched' = matched \cup hits
                   /\ IF matched \cup hits = DOMAIN NarrativeFields
                      THEN gitStage' = "done" /\ child' = "killed"
                      ELSE UNCHANGED <<gitStage, child>>
    /\ grepped' = grepped + 1
    /\ UNCHANGED <<task, cited, snapshotVars, source, pipeVars>>

GrepEnds ==
    /\ gitStage = "grep" /\ grepped = Len(source)
    /\ child' = "exited" /\ gitStage' \in {"done", "failed"}
    /\ UNCHANGED <<task, total, cited, snapshotVars, screenVars, pipeVars>>

-----------------------------------------------------------------------------
(* run_child_bounded: the reader drains the pipe while the caller polls the *)
(* child; at the deadline the child is killed and the reader left alone.    *)
Command ==
    /\ task = "command" /\ gitStage = "start"
    /\ child' = "running" /\ gitStage' = "poll"
    /\ UNCHANGED <<task, total, cited, snapshotVars, screenVars, pipeVars>>

GitWrites ==
    /\ child = "running" /\ gitStage = "poll" /\ wrote < MaxRetained + 1 /\ pipe = 0
    /\ pipe' = 1 /\ wrote' = wrote + 1
    /\ UNCHANGED <<task, gitStage, total, child, cited, snapshotVars, screenVars, retained_out, helper>>

GitExits ==
    /\ child = "running" /\ gitStage = "poll"
    /\ child' = "exited" /\ helper' \in BOOLEAN
    /\ UNCHANGED <<task, gitStage, total, cited, snapshotVars, screenVars, pipe, wrote, retained_out>>

HelperEnds ==
    /\ helper /\ helper' = FALSE
    /\ UNCHANGED <<task, gitStage, total, child, cited, snapshotVars, screenVars, pipe, wrote, retained_out>>

Drain ==
    /\ task = "command" /\ pipe = 1
    /\ pipe' = 0
    /\ retained_out' = IF retained_out + 1 > MaxRetained THEN retained_out ELSE retained_out + 1
    /\ UNCHANGED <<task, gitStage, total, child, cited, snapshotVars, screenVars, wrote, helper>>

DeadlinePasses ==
    /\ gitStage = "poll" /\ child = "running"
    /\ child' = "killed" /\ Fail /\ helper' \in BOOLEAN
    /\ UNCHANGED <<task, total, cited, snapshotVars, screenVars, pipe, wrote, retained_out>>

(* The child has exited: its output ends when nobody holds the pipe.        *)
JoinReader ==
    /\ gitStage = "poll" /\ child = "exited" /\ ~helper /\ pipe = 0
    /\ gitStage' = IF wrote > MaxRetained THEN "failed" ELSE "done"
    /\ UNCHANGED <<task, total, child, cited, snapshotVars, screenVars, pipeVars>>

-----------------------------------------------------------------------------
RepositoryInit ==
    /\ task \in {"clone", "cite", "screen", "command"} /\ gitStage = "start"
    /\ IF task = "clone" THEN folds \in BOOLEAN /\ tree \in Listings ELSE folds = FALSE /\ tree = <<>>
    /\ source \in IF task = "screen" THEN Sources ELSE {<<>>}
    /\ entries = {} /\ total = 0 /\ files = {} /\ child = "none" /\ matched = {} /\ grepped = 0
    /\ cited = [path |-> "none", start |-> 0, end |-> 0, ref |-> NoRef]
    /\ pipe = 0 /\ wrote = 0 /\ retained_out = 0 /\ helper = FALSE

RepositoryNext ==
    \/ ListTree \/ NextBlob \/ EndBatch \/ Cite \/ StartGrep \/ GrepLine \/ GrepEnds
    \/ Command \/ GitWrites \/ GitExits \/ HelperEnds \/ Drain \/ DeadlinePasses \/ JoinReader

-----------------------------------------------------------------------------
\* What an entry adds to the size of the snapshot.
BlobSize(e) == IF e.kind = "commit" THEN 0 ELSE e.size

(* A snapshot that is handed to a provider is the commit: every blob that   *)
(* fits is there with its own content, even on a disk that folds case, and  *)
(* the sizes add up to no more than the limit; a listing with a path that   *)
(* leaves the tree writes nothing at all.                                   *)
SnapshotFaithful ==
    /\ task = "clone" /\ gitStage = "done" =>
          /\ {f.content : f \in files} = {tree[i] : i \in {k \in Blobs(tree) : tree[k].size <= MaxBlob}}
          /\ Total([i \in DOMAIN tree |-> BlobSize(tree[i])]) <= MaxSnapshot
    /\ (\E i \in DOMAIN tree : ~validate_relative_path(tree[i].path)) => files = {}

(* A reference names lines that exist, starts where the provider said, is   *)
(* no longer than the viewer shows, verifies and reads back as it was bound.*)
EvidenceStable ==
    LET r == cited.ref
    IN  r # NoRef => /\ r.start = cited.start /\ r.start <= r.end /\ r.end <= cited.end
                     /\ r.end <= LinesOf[r.path] /\ r.end - r.start < MaxEvidence
                     /\ cited.path \in DOMAIN LinesOf => r.path = cited.path
                     /\ verify_evidence(r) /\ read_evidence(r) = r.excerpt

(* The comparison finds exactly the fields that share three or four words   *)
(* in a row, or a whole line, with a line that is not oversized: stopping   *)
(* early loses none, and a field that quotes nothing is never named.        *)
SharesWords(field, words) ==
    \/ words = field /\ Chars(field) >= 24
    \/ \E n \in 3 .. 4 : \E i \in 1 .. Len(field) - n + 1, j \in 1 .. Len(words) - n + 1 :
          /\ \A k \in 0 .. n - 1 : field[i + k] = words[j + k]
          /\ Chars(SubSeq(field, i, i + n - 1)) >= 24
ScreeningExact ==
    task = "screen" /\ gitStage = "done" =>
        matched = {f \in DOMAIN NarrativeFields :
                      \E i \in DOMAIN source : source[i].size <= MaxBlob /\ SharesWords(NarrativeFields[f], source[i].words)}

(* No Git process outlives the operation that started it, and output that   *)
(* was cut is never passed off as whole.                                    *)
CommandsContained ==
    /\ gitStage \in {"done", "failed"} => child # "running"
    /\ task = "command" /\ gitStage = "done" => retained_out = wrote

RepositorySound == SnapshotFaithful /\ EvidenceStable /\ ScreeningExact /\ CommandsContained
=============================================================================
