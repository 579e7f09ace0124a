# CodeCaddie in TLA+

CodeCaddie is a local desktop product: a native Zig application (`apps/desktop`)
starts one Rust core process (`crates/codecaddie-core`) per request, and AI
agents reach the same core through a long-lived MCP process or a one-shot
command line. There is no server. What can go wrong goes wrong on one machine:
several core processes share one directory of encrypted files, any of them can
die at any instruction, the power can fail, and the application replaces its
own bundle while a person is using it.

This directory holds the TLA+ modules for the parts of the system where that
matters, the TLC configurations that check them on small instances, and TLAPS
proofs for every instance. `PROJECT.json` is the index: which definition models
which lines, which run checks what, which mutant each property catches, which
hazards are covered.

## 1. Inventory

Paths are relative to `crates/codecaddie-core/src` unless they name another
crate. Sections 2 to 4 say what is modelled; 6 what is not.

| Component | State it keeps | Operations | What is hard, and what correct means |
|---|---|---|---|
| Event log (`storage.rs`, `local_state/locks.rs`, entry points of `local_state/workspace_store.rs`) | `events.cclog` of a workspace: one encrypted record per line; an advisory lock file | load with recovery of an interrupted tail, append with `sync_data`, `restore_exact` | writers of several processes, readers without the lock, death inside `write_all`, power loss, damaged records. An acknowledged event is never lost, clocks are positions, damage is never papered over |
| Local state file (`persistence.rs`, `local_state/`) | one JSON document for the device, its `.tmp` and `.quarantined` sidecars, a lock | load with recovery from sidecars, replace, create-once | every intermediate directory state may survive a power loss; loads recover (and delete files) without the lock. No acknowledged update is lost, a stale sidecar never comes back |
| Workspace ledger (`codecaddie-domain`: `event.rs`, `projection.rs`, `model.rs`; mutations in `workspace_store.rs`) | goals, report history, actions, context, maps | approve and replace goals, record and delete reports, ready and verify actions | an operation is several events and may stop between them; scans take minutes and record what they read at their start; report ids repeat and clocks run backwards |
| Application update (`update.rs`, `bin/codecaddie-updater.rs`, `service/updates.rs`, desktop `main.zig`) | staging directory, application bundle, helper's private directories, one-shot result mailbox | check, download, stage, install, replace, roll back, report, reopen | three processes hand over to each other and die; two renames are not atomic. The working application survives, failures are reported, the application comes back |
| Agent sessions (`agent_gateway.rs`, `mcp.rs`, `agent_cli.rs`) | session files, claimed by rename, with an expiry; a payload inbox | begin, submit, submit map, note an action, collect expired | two agents submit one session; expiry races a submission; death between recording the report and removing the session. A session is recorded at most once, a failed one can be retried |
| Backups (`local_state/portable_backup.rs`, schedule in `workspace_store.rs`) | schedule, backup files, generations | export, import, enable, run, prune | the lock is dropped between enabling and the first backup; pruning orders by name while the clock may go back; an import is three writes. A workspace that the device knows can be opened, history is only extended |
| At-rest encryption (`at_rest.rs`) | content key, its pending file, a marker | create or promote the key, seal, open, sweep old files | the key file is renamed before its directory is synced; an older build still writes. What was sealed stays readable |
| Desktop sessions (`reliability.rs`, `service/reliability.rs`) | session marks, panic marker, counters | start, end, record an outcome, alert | a start that dies half-way. Every panic is counted |
| Service dispatch and protocol (`main.rs`, `protocol.rs`, `service.rs`, `service/`) | staging file of a request | read a frame, admit, check, work, record, answer | a kill or a failure between the work and its record. A refused request did nothing, an answer is truthful |
| Scan pipeline (`analyzer/scan.rs`, `service/scan.rs`) | batches of a scan | run, limited retry, degrade, merge, save | batches end in any order and fail in part. No decision is lost to a retry, a partial report says so |
| Provider runner (`provider/runner.rs` and adapters) | one child process with three pipes | probe, feed, read, join, time out, cancel | exit, output, deadline and descendants race. Every run ends and leaves nothing of its own behind |
| Provider stream (`provider/stream.rs`, `provider/codex.rs`) | retained lines, counters for progress | retain, report progress, extract a result | limits at the boundary; what a person sees is never provider text |
| Goal drafting (`analyzer/goal_drafts.rs`, `goal_catalog.rs`, `product_profile.rs`) | profile and drafts of one request | profile, draft, review, reconcile, approve, repair | several attempts under one limit; identities change after validation |
| Reports and scores (`analyzer/report_materialize.rs`, `report_integrity.rs`, domain `scoring.rs`) | one report | bind, screen, redact, consolidate, score, validate | screened wording makes decisions collide; what is materialised must be recordable |
| Report history (`local_state/heatmap.rs`) | none; cursors in the desktop | page, finding, heatmap | reports come and go between two pages |
| Codebase map (`analyzer/map_generate.rs`, `map_materialize.rs`, `service/map.rs`) | map bodies and descriptors | survey, detail, merge, screen, rewrite, record, prune | groups end in any order; three walks over one document must agree; bodies and descriptors are written apart |
| Repository (`repository.rs`) | snapshot directories with leases; child processes | materialise a commit, bind and verify evidence, compare wording with source, run Git | limits, deadlines, pipes held by descendants; cleanup beside live runs |
| Context documents (`context_documents.rs`) | references with size and hash | inspect, attach, extract | files change between the look and the read |
| Desktop state machine (`apps/desktop/src/main.zig`, `model.zig`, `core_ipc.zig`) | request keys, screens, pending answers | `update` on every message | answers that arrive after the person moved on |
| Export, repository tools for providers, identity, launch at login, channels | none, or a field of the local state | formatting, bounded reads | thin |

Interactions. The desktop sends one framed request to a fresh core process and
waits for its exit. Core processes never talk to each other: they meet in the
file system, under two kinds of advisory lock (one per workspace, one for the
device's local state). A mutation takes the lock, loads everything, appends or
replaces, and drops the lock; most read-only requests take no lock, yet run the
same recovery code, which writes. The updater helper outlives both the core that
started it and the desktop it waits for; it reports through a file.

## 2. Modules

| Module | Models | Extends |
|---|---|---|
| `DurableLog` | abstract: a log that grows at its end, of which a stable prefix is never taken back | |
| `EventLog` | the event log under the workspace lock; shown to implement `DurableLog` | |
| `EventLogUnlocked` | the same file with readers and `create_workspace`, which take no workspace lock | `EventLog` |
| `ReplaceFile` | replacement and recovery of the local state file | |
| `WorkspaceLedger` | commands, events and projection of a workspace | |
| `AppUpdate` | desktop, update core, helper, bundle, staging and mailbox | |
| `EventLogProofs`, `ReplaceFileProofs`, `WorkspaceLedgerProofs`, `AppUpdateProofs`, `AgentSessionsProofs`, `LocalStoreProofs`, `AnalysisProofs`, `DocumentsProofs` | the theorems | each its module |
| `AgentSessions` | session files, claims and submissions of agents, with the goals they are checked against | |
| `AtRest` | content key, sweep and marker | |
| `Backups` | schedule, retention, import | |
| `CodebaseMaps` | recording, superseding and pruning of maps | |
| `DesktopSessions` | session marks and panic counting | |
| `LocalStore` | the four above, side by side | `AtRest`, `Backups`, `CodebaseMaps`, `DesktopSessions` |
| `CoreRequests` | a request from its frame to its answer | |
| `Scan` | a scan from its goals to its report | |
| `ProviderRunner` | one run of a provider's command line | |
| `Analysis` | the three above | `CoreRequests`, `Scan`, `ProviderRunner` |
| `Sums` | the total of a sequence of numbers | |
| `GoalDrafts` | generation, validation and identities of goals | |
| `GoalRepair` | completion of a provider's drafts | `GoalDrafts` |
| `Materialize` | a report from raw answer to record | |
| `ProviderStream` | what is kept and shown of a provider's output | |
| `ReportHistory` | pages, findings and the heatmap | |
| `Repository` | snapshot, evidence, source matching, Git commands | `Sums` |
| `SnapshotWorkspaces` | snapshot directories, leases and cleanup | |
| `MapGeneration` | a codebase map from survey to rewritten wording | |
| `ContextDocuments` | attached files that change | `Sums` |
| `Documents` | the nine from `GoalDrafts` on | each of them |

Mutated forms of an action stand before it, marked `Mutant`; no specification
uses them.

**EventLog.** `log` is the newline-terminated records, `tail` the unterminated
bytes after them: exactly what `recover_unterminated_tail` tells apart. `synced`
is how much `sync_data` has made durable; `view` the length of the projection a
process has loaded, from which it derives the next clock. The actions follow
`load_parts` and `append_encrypted_json_record`: the lock, the load with
recovery, the refusal to append beside a damaged first or last record, the first
bytes, the newline, the sync, the answer. `Crash` stops a process anywhere,
`IoFails` makes a write or a sync fail, `PowerLoss` cuts the file back to any
length from `synced` on with any residue behind it, `DiskFault` damages a durable
record.

**EventLogUnlocked** adds `ScanTail`/`TruncateTail` (the two halves of recovery
in a reader) and `CreateAppend`.

**ReplaceFile.** `dir` is the directory, `onDisk` the set of directories a power
loss may leave: it grows with every rename, creation and removal and collapses
at `sync_parent`. A document is the set of updates in it, so that lost updates
show. One process runs `check -> discard | quarantine, promote -> read ->
cleanup, create, write, rename, sync`; a reader stops after `read`.

**WorkspaceLedger.** One operation holds the workspace lock at a time (`op`); its
events are steps of their own, because an operation can stop between two of them
(`Abort`) and what it has appended stays. A report that has the id of an earlier
one moves the earlier one to a key of its own (`superseded`). A scan runs outside
the lock: it copies the approved goals when it starts and is recorded later.
`noted` is a history variable: the actions whose completion note existed when the
scan froze its commits.

**AppUpdate.** A release is its number. `core` walks through download, staging
and installation; each helper has a record of its own with its place in `run`,
`install_macos` and `replace_application_transaction`, and its private
`backup` and `failed` directories, named by its process id in the code and by its
number here. `working` is a history variable, the installed release that last
launched. `desktop.number` is the process id the helper waits for. `lost`,
`beside`, `taken` and `told` record what happened to a helper's result.

**AgentSessions.** A session file is at its path (`open`), renamed to a claimer's
name (`claimed`), or gone; `body` is what it says. A long-lived MCP process and a
one-shot command share the directory; the command reads its payload from an inbox
between the look at the session and the claim. `reports` is what was recorded,
by whom and against which goals; `spent`, `orphan` and `twice` are history
variables that say why a session has no file or a second report.

**AtRest, Backups, CodebaseMaps, DesktopSessions** are parts of one data root that
share nothing beyond the ledger and the local state file, which have modules of
their own; `LocalStore` checks them in one run in which a behaviour follows one
part (`part`). In `AtRest` `rootDisk` is the set of roots a power loss may leave.
In `Backups` a history is a length and the identity that signed it; `request` is
where each process is in an export, a scheduled run or an import. In
`CodebaseMaps` `descriptors` is the ledger's side and `bodies` the files.
`DesktopSessions` follows the panic marker from the desktop's last words to its
counter.

**CoreRequests** has the dispatch table of `service.rs` as data, a set of rows
(`DISPATCH`): for each method the order of its checks and the codes with which it
fails before and after it changed something. The reliability record of a request is
two appends, the outcome (`Finalize`) and the alert that an objective calls for
(`RaiseAlert`); each may fail with nothing or with its event in the ledger. **Scan**
keeps for every batch the result of its `first` and `second` attempt; `waiting` is the batches not yet
started, which start lowest first, as the code's iterator over ranges yields them. Its two writes to the ledger are
`RecordStarted` (one mark, or two) and, after the batches, `AppendReport` and
`AppendMarks`: any of them may fail half-way, and what it has appended stays.
**ProviderRunner** has a pipe of `PipeCap` chunks in each
direction, a process tree (`alive`) of the command line and one helper, and the
deadline as an action that may pass in every stage. A probe that cannot look at its
output file or its child returns without ending them (`ProbeBreaks`); `strays` counts
the groups that go on by themselves.

**GoalDrafts, GoalRepair, Materialize, MapGeneration, ContextDocuments.** A text is
what the code can tell about it: the families a statement affirms, whether it has
an anchor in the repository, whether it shares words with the source. The catalogue
is a table of families with their signals and phases. Everything that decides is
kept: the order of checks, which error ends a request and which drops an item,
what is sorted, merged or renamed afterwards. The warnings of a report are the
provider's texts that they repeat, apart from the narrative fields, because only
the fields are screened; those of a map are what they name. `MapGeneration` has the three walks
over a map's fields as three definitions, because their agreement is what is
checked; its groups end in any order.

**Repository, SnapshotWorkspaces.** `Repository` follows one of four operations
(`task`). A Git process writes into a pipe that a descendant may keep open.
`SnapshotWorkspaces` has several processes around one parent directory:
`remove_dir_all` removes the lease file and the source in any order and may stop
between them.

**ReportHistory** pages through a history to which other requests add and from which
they delete between two pages. **ProviderStream** takes a sequence of lines.

Sorts are written as the choice of an arrangement in order (`Entries`,
`CurrentGoals`, `Sorted`), tables that are built row by row as recursive functions
(`Heatmap`, `Total`): the same values TLC computes, in a form that can be reasoned
about for every size.

## 3. Runs

Each pass run is complete: TLC explores every reachable state of the instance.
Several runs of each module differ only in their bounds.

| Run | Checks | Shows |
|---|---|---|
| `event_log` | `LamportsAgree`, `AckedKept`, `OperationsContiguous`, `DamageLeftInPlace`, `ImplementsDurableLog`, `RequestsEnd` | with every writer under the lock, no crash, error or power loss loses an acknowledged event, mixes two operations, or damages a record; every request ends |
| `replace_file_locked` | `AckedKept`, `CandidatesCurrent` | locked writers from the first save on, with damage of the main file |
| `replace_file_readers` | `AckedKept` | an existing, undamaged file tolerates unlocked loads: a save may fail, none is lost |
| `ledger_history` | `HistoryComplete`, `IdResolvesToNewest` | three reports, repeated ids, a clock set back, deletions |
| `ledger_actions` | `GoalsResolve`, `VerifiedIsSupported`, `OperationsEnd` | goals, scans, reports and actions interleaved and interrupted |
| `app_update` | `WorkingKept`, `RolledBack`, `FailureTold`, `MailboxCurrent`, `ComesBack` | one helper at a time, whatever fails |
| `agent_sessions` | `SessionNotLost`, `ReportedOnce`, `ReportsFollowSessions`, `RetractedUnmarked` | an MCP process and a command race for sessions, goals are replaced, sessions expire, processes die |
| `local_store` | `KeySafe`, `BackupsSound`, `MapsSound`, `SessionsSound`, `HistoryOnlyGrows` | one key seals and stays readable through power losses; imports and scheduled backups leave a workspace that opens; map bodies match descriptors; panics are counted |
| `analysis` | `RequestsSound`, `ScanSound`, `RunnerSound`, `EveryRunEnds` | answers vouch only for what is in the ledger, scans lose no decision, say when they are partial and are recorded after they were begun, provider runs end, leave nothing of their own behind and accept only complete output |
| `documents` | `GoalSetsSound`, `MaterializeSound`, `StreamSound`, `HistorySound`, `RepositorySound`, `WorkspacesSound`, `MapSound`, `ContextSound` | what the core builds from provider answers and repositories |

A property whose name ends in `Sound` is the conjunction of the named parts that
stand before it in the module of its component: each part has a comment of its
own, and the conjunction is what a caller of the component relies on.

Two runs end in a violation. Each is a disagreement between the code and a
sentence of the repository, quoted in `PROJECT.json` under `findings`:

| Run | What happens |
|---|---|
| `readers_lose_events` | a reader counts committed bytes while a writer is inside `write_all`; its later `set_len` removes the record after the writer was told it is recorded |
| `app_update_overlap` | the answer to `updates.install` is lost after the helper was spawned, the person tries again, and two helpers replace one bundle: the last to roll back deletes the restored application |

### What modelling the code brought up besides

None of these has a run. Each follows from the lines named.

- `create_workspace` publishes the workspace and then appends without its lock: a
  second process derives the same lamport clock (`workspace_store.rs:864`).
- During the first save of the local state an unlocked load quarantines the file
  that has just arrived, and another deletes the quarantined copy
  (`persistence.rs:325`); death inside the very first temporary file leaves a
  state that `exists()` and never loads (`persistence.rs:92`).
- A scan that was running when a completion note was recorded marks the action
  Verified (`workspace_store.rs:1985`).
- An agent's payload is removed with its inbox entry when the session vanished
  between the look and the claim (`agent_cli.rs:230`).
- A directory synced only by the append that created the log: when that append
  dies before the sync, later appends answer without it (`storage.rs:236`).
- `reconcile_goal_identities` runs after validation and lets two drafts take one
  current goal's id and key (`goal_drafts.rs:437`); generation reads coverage from
  the profile and approval from the brief (`goal_drafts.rs:1418`), which the comment
  at `goal_catalog.rs:248` rules out; the fallback goal of the architecture group can
  have more than six criteria. The repair functions are called by tests only at
  this commit.
- A usable first result of a batch is replaced by a retry that is well-formed and
  empty (`scan.rs:96`); nine goals make five batches where the comment at
  `scan.rs:60` says four.
- One claim with an empty title or component, or an id repeated in a batch, makes
  persistence refuse the whole report (`report_integrity.rs:173`), and so does a
  version of spaces only (`report_integrity.rs:44`); a repository that cannot be
  read during the screening ends the request (`report_materialize.rs:888`).
- A claim or recommendation without usable evidence is dropped before the report is
  screened, and the warning that names it repeats up to eighty characters of the
  provider's component or title (`report_materialize.rs:331`, `371`), which is then no
  narrative field: a quotation of the source can be recorded there, although the
  comment at `report_materialize.rs:503` says "Reports may retain conclusions and
  coordinates, but never code". `NoQuoteLeft` is therefore about the fields, and says
  of the warnings only that what they quote was dropped.
- What a survey or its deep dives offer beyond a limit of the map is passed over
  without a warning: components, technologies and entry points
  (`map_materialize.rs:113`, `179`, `197`), steps (`328`), relationships and flows
  (`286`, `322`), although `map_materialize.rs:4` says "Every dropped item is named in
  the map's warnings". The schema in the prompt bounds a survey, but the core does not
  check it, and four deep dives within theirs may offer 64 relationships and 16 flows
  for 48 and 8 places. `DegradationTold` therefore speaks of what is within the limits.
- The outcome of a request is appended before its alert: when the alert's append
  fails the answer says `telemetryRecorded=false`, or carries a warning, although
  the outcome is in the ledger (`workspace_store.rs:2151`). `TelemetryTold`
  therefore reads a yes, and not a no.
- A failure after the first of the events of a report answers
  `report_persistence_failed`, marked as retryable, with the report recorded
  (`workspace_store.rs:1928`); a failure among the marks of a start leaves the mark of
  a scan that never ran (`workspace_store.rs:2061`). `SavedWasStarted` says what holds
  in spite of it.
- A probe that cannot look at its output file or its child returns and leaves the
  process group running (`provider/mod.rs:164`, `167`). `NothingLeft` says that this
  is all a run leaves: at most one group for each candidate it refused, and never
  that of the command line it runs.
- Evidence with equal start lines has no canonical order, and the first report of a
  heatmap window is shown as "first" while its finding shows a change
  (`heatmap.rs`).
- The limits on the size of context files are checked on the size that was looked up,
  never on the bytes that were read, and the second reading compares the hash of the
  bytes with the first one: when another program swaps a file between the look and
  the read both times, bytes beyond the limit are accepted and the reported size is
  that of the small file (`context_documents.rs:222`). The text limit still holds.
  `TextAsAttached` therefore bounds the sizes that are reported; the attempt to prove
  it of the bytes showed that they are not bounded.
- A process that dies in `remove_dir_all` after the lease file is gone leaves source
  that no cleanup looks at (`repository.rs:773`): `LeaselessSource` says it is the
  only way. The join of the output reader has no deadline once the child has
  exited (`repository.rs:884`). On a disk that folds case a commit with two paths
  that differ in case cannot be materialised.
- The rewrite of a screened map field is not compared with cited excerpts
  (`map_generate.rs:502` against `map_materialize.rs:619`) although the comment at
  `map_generate.rs:225` calls the screening identical: `ScreeningHits` leaves this
  case out. A failure in the middle of the pass leaves some fields rewritten
  under a warning that says neutral wording was kept. Dives are merged in the order
  they end, and a relationship is remembered before its evidence binds
  (`map_materialize.rs:300`), so which mention counts depends on that order;
  `OrderDecidesLittle` bounds it. Unresolved steps of a flow that keeps two others
  are dropped silently (`map_materialize.rs:331`). Warnings of a map repeat names
  that no screening saw, as those of a report do.

### Bounds, and why they are enough

- `event_log`: two processes are the fewest that race, three operations of at
  most two events (the founding one included) let an operation follow another
  that died half-way; one power loss and one damaged record each meet every
  state. `nextOp <= MaxOps` is the only bound on the file's length.
- `replace_file_*`: two writers, and in `replace_file_readers` one reader with
  two loads; three updates, so that an update is saved over one that was
  abandoned. Damage and readers are in different runs: a reader that meets a
  damaged file is exposed to the race with a first save described above.
- `ledger_*`: three reports with two ids are the fewest that repeat an id and
  supersede twice; two goals are needed for a replacement that changes part of
  the set, and are in the run without repeated ids.
- `app_update`: two helpers and three releases let a second update follow a
  failed, a killed and a successful one; one death meets every step.
- `agent_sessions`: one MCP process and one command are the two kinds that race;
  two sessions in two workspaces let a payload meet the wrong one; one tick of the
  clock is the time to live, one failure and one death meet every step.
- `local_store`: two processes per part; two keys, so that a lost key is followed
  by another; one retained backup and three runs, so that pruning has a choice; two
  identities for an import that must be refused; three maps over one kept body.
- `analysis`: two frames, five goals in three batches with at most two retries (a
  batch is left without one); with a workspace, which multiplies them by the stages of
  its ledger, four goals in two batches (`RecordedGoals`); two candidates, so that one
  is refused and its group let go before another is run; pipes of one chunk with prompts of two and outputs up
  to one beyond the limit, one helper in the process tree.
- `documents`: limits of one to six, always one less than what the inputs offer, so
  that each is met and passed; goal sets of four drafts against a limit of six;
  three lines of a stream; three reports in pages of one; trees of three entries
  with every combination of an oversized blob, a submodule, a case collision and a
  path that leaves the tree; three processes around the snapshot directory, two of
  which may die; three edits of files while they are attached and read, the fewest
  that show a small file to both looks and a large one to both reads. The inputs
  are named sets (`Surveys`, `Dives`, `Listings`, `Contents`, ...) chosen so that
  each branch of the code is taken. A map holds two components (`MaxComponents`), two
  items of each kind (`MaxItems`) and flows of three steps (`MaxSteps`); surveys offer
  three components and dives more steps than a flow keeps.

In the three composed runs a behaviour follows one part: the parts meet only
through finished results, and the state that they do share, the ledger and the
files, has modules of its own.

`CHECK_DEADLOCK FALSE` is set where the bounds let a behaviour stop: all
operations done, all launches used.

### Fairness

`RequestsEnd` and `OperationsEnd` assume weak fairness of a process's own steps:
the core is sequential, waits for nothing but the lock, and that wait ends after
ten seconds (`LockTimeout`). Death is an action of its own and is not fair.
`ComesBack` assumes weak fairness of the update core, of each helper, and of the
quitting of a desktop that was told to quit (`restarting`); nothing is assumed of
the person, of `Publish`, or of the checks' outcome: for each helper weak
fairness covers the disjunction of its steps, so that a failing branch may always
be taken. `EveryRunEnds` assumes weak fairness of the runner's own steps (the
runtime polls the future) and that a deadline that was set passes; nothing is
assumed of the command line or its helper, which may block, write or stay forever.
The other runs check safety only.

## 4. Proofs

All theorems hold for every value of the constants that satisfies the named
assumptions of the modules (`ProcAssumption`, `BoundAssumption`,
`UpdateAssumption`, ...); further hypotheses are in the theorem.

**EventLogProofs.** None of the properties is inductive: a step is safe because
of what the process that takes it knows about the file. `IInv` adds `LockInv`
(in its critical section exactly the holder of the lock), `HolderInv` (what the
holder has loaded is the length of the file, and what it is writing is the tail,
unless the record it wrote is the last one) and `SyncInv` (durable records are
in the log, damage is inside the durable part). `StepKinds` reduces the ten
process actions to four effects on the file: it grows by the record with the next
clock, settles, shrinks to a prefix beyond `synced`, or is damaged. From these:
`ClocksAgree`, `AppendsWellFormed`, `AcknowledgedEventsKept` (with `AckInv`, that
acknowledged events are synced), `DamageKept`, and `Refinement`, that the log
implements `DurableLog`. `OperationsAdjacent` needs `BatchInv`: operation numbers
are fresh and a running process's number is its own (`NumbersInv`), a process that
has not appended yet has nothing in the log, and what one that appends has there
reaches to the log's end (`Placed`). A power loss ends every operation, so what it
cut off is never continued.

**ReplaceFileProofs.** `TypeCorrect` includes that a directory never has two main
files and that a writer inside its request holds the lock; it needs that sidecar
numbers are below `nextId` (`Numbered`) and which labels belong to readers
(`Roles`). `AcknowledgedUpdatesKept` is proved under `SafeFile`: the file exists
and the disk does not damage it. The strengthening `Kept` says that in every
directory a power loss may leave the main file is valid and holds every
acknowledged update, that recovery therefore has nothing to do, and that a
writer past its load holds them too. Outside
`SafeFile` unlocked loads do lose updates (section 3).
`SidecarsAreCurrent` and `LockedUpdatesKept` drop `SafeFile` and assume instead that
every load holds the lock (`Reader = {}`): from the first save on, and with any
damage. There the main file may be invalid, so `LockedInv` says of every directory a
power loss may leave that everything in it which opens holds what is owed and that,
when anything is owed, something opens (`Recoverable`), and of the process inside the lock what it
has established so far (`Established`): that the main file is valid before sidecars
are deleted, that the candidate it promotes is still there, that nothing but its own
temporary file is beside the main file while it saves. That the newest sidecar exists
rests on `Least`, below.

**WorkspaceLedgerProofs.** One invariant for all: the history properties and
`OpKnows`, what an operation that records a report relies on between its events
(the report it completed is still there with the support it was given, and a
first-report mark is pending only if none was recorded), and `MarksStart`, no
mark before the first report. Theorems: `GoalsAlwaysResolve`, `HistoryIsComplete`,
`IdsResolve`, `HistoryNeverEmptied`, `FirstReportMarkedOnce`, and
`VerifiedActionsSupported`, the action property.

**AppUpdateProofs.** `TypeCorrect` holds always. The other four assume
`Overlap = FALSE` and rest on one invariant: `Solo` (helpers are started in
order, the one that runs is the newest, and none runs when the core is about to
start one), `Mail` (the mailbox is empty at that moment), `CodeInv` (what a helper
will report, by its place), `PlaceInv` (while a helper moves bundles the working
one is in its backup or in another helper's directory, and it has none of its own
before the first rename), `PriorInv` (that backup is the working one, unless an
earlier helper died or asked for a repair) and `ReportInv`. As in the event log
the actions are first reduced to what they do to bundles, mailbox and places
(`HelperKinds`, `DeskKinds`). Theorems: `WorkingIsKept`, `FailureRollsBack`,
`FailureIsTold`, `MailboxIsCurrent`.

**AgentSessionsProofs.** For any number of servers, commands, workspaces and sessions,
failures and deaths, from `AgentAssumption`. One invariant in parts: whatever refers to
a session refers to one that was begun (`KnownInv`), what a process has read by its
place (`PlaceInv`), a session whose start is being marked belongs to one process
(`MarkInv`), a session is at its path or with one submission (`ClaimInv`), and
`CountInv`: where a report can still come from, a session at its path or claimed and
not yet recorded, it has no report beyond those that failed submissions explain. The
last is what makes `ReportedOnce` inductive. Theorems: `SessionsAreKept`,
`OneReportPerSession`, `ReportsMatchSessions`, `UnmarkedIsRetracted`.

**LocalStoreProofs.** The four parts of the data root, each with an invariant of its
own; a behaviour follows one part, so a step of another changes nothing in it.

- `AtRestInv`: both locks have one holder, the key a process works with is the one in
  the data root (`KeyInv`), the files a sweep has gone through are sealed (`SweepInv`),
  the local state is the first file to be sealed (`StateFirst`) and sealing it has made
  its key durable (`KeyDurable`). Theorem: `ContentKeyIsSafe`.
- `SessionsInv`: one process records at a time, what a recording has appended at each
  step (`AppendedInv`), and the pending panic was counted at most once for every broken
  recording and once by the one in progress (`CrashesInv`). Theorem: `PanicsAreCounted`.
- `BackupInv`: a run exports before it saves the schedule (`RunInv`), an import goes on
  only where it may and saves the state after the history (`ImportInv`), and only the
  folder of the run in progress holds one backup more (`FolderInv`). Which backup
  pruning takes is settled by lemmas about `Sooner`, the order of names. Theorems:
  `BackupsAreKept` and the action property `HistoriesOnlyGrow`.
- `MapsInv`: ids are unique (`IdsInv`), a map supersedes an older one of the same
  commits, although it was chosen without the lock (`SupersedeInv`, from which no
  circle follows), one process at a time records a map of a workspace (`LedgerInv`),
  and only the map being recorded is one body too many (`BodiesInv`). Theorem:
  `MapsAreKept`.

**AnalysisProofs.** The three parts of an analysis, for every size of their constants.

- `RunsLeaveNothing` from `TreeInv` (a process tree lives only while the runner waits
  for it, unless the core was killed), `StrayInv` (a probe that let its group go has
  used up a candidate, so a candidate that is run is not among the groups left) and
  `PipeInv` (every chunk that was written is in a pipe or was read).
- `ScansAreSound` from `RoundInv` (the second round runs the retries and nothing else,
  and they are within the limit), `StageInv` (the marks of the start are complete,
  `Begun`, from the map on, and what is saved by the stage) and `ReportInv` (the report
  is the merge of what the batches returned, none of them fatal). Every append may fail
  with or without its event, so nothing follows from an answer of failure.
- `RequestsAreAnswered` from `OrderInv` (a request is answered by the time the next is
  read), `EffectInv` (a request that will be refused has done nothing), `RecordInv`
  (an answer that vouches, written or about to be (`Vouching`), has its outcome in the
  ledger and the alert that was due; the alert is only appended to an outcome that is
  there) and `StagedInv`. That
  no code of the dispatch table stands for a failure before the work in one handler and
  after it in another is `DispatchApart`, proved row by row.

**DocumentsProofs.** Five parts of the documents, each with an invariant of its own; a
step of `Documents` is a step of one part and leaves the others alone (`PartSteps`).

- The snapshot directories, for any number of processes and deaths, from
  `NobodyAssumption` alone. `WorkspacesSound` says nothing of the steps between, so
  `WorkspacesInv` adds: `LockInv` (whoever is between taking and giving back the cleanup
  lock holds it), `OwnInv` (what a process knows of its own directory; a dead one holds
  no lease), `TargetInv` (what is removed is one's own or belongs to a run that is over)
  and `DebrisInv` (a stale directory is still listed and has its lease, or is being
  removed, or is gone). A lease that is not locked then belongs to the holder of the
  lock or to a run that is over, so the cleanup never picks a live run. Theorem:
  `SnapshotsSound`.
- The provider's stream, for any number of lines and any limit above zero
  (`StreamAssumption`). `RetainInv` says what is kept: the last result alone, or of
  Codex every line within the limit that names a reason. `FeedInv` ties an ordinal in
  the feed to its place in `files_read`, where no path stands twice; only with it is it
  inductive that two messages agree on path and ordinal. Which paths can be shown at all is
  settled input by input. Theorem: `StreamIsSound`.
- The repository, for every limit (`RepositoryAssumption`: limits are numbers, and
  evidence may have one line). `CloneInv` says that the files written are the blobs
  that were dealt with and their sizes the number counted, `ScreenInv` that what was
  matched so far is what the lines read so far share words with, `PipeInv` and `StageInv`
  where output and child can be. `FingerprintsMeet` shows that two texts have a fingerprint in
  common exactly when they share three or four words in a row, or are the same. Theorem:
  `RepositoryIsSound`.
- The context documents, for every limit and any number of edits
  (`ContextAssumption`). `RefsInv` says what is true of a file that became a reference,
  and of the disk unless it was touched; `InHand` the same of a file that was looked at and
  not read; `InspectInv` and `ExtractInv` that the counters are totals over the references
  dealt with and the sections their flattened text. `AllRefsInv` remembers that all
  references together were within the limits: without it the second reading might refuse
  files nobody touched, which `NoFalseAlarm` excludes. Theorem: `ContextIsSound`.
- The report history, for any number of reports and every window and page size above
  zero (`HistoryAssumption`; the code clamps a page to at least one report). Pages:
  while the report of the cursor is there, no report that is shown is `Earlier` than it, and
  one that was there at the start and is not shown is (`PageInv`); what other requests record or
  delete moves no report to the other side. Heatmap: a cell is determined by its report and
  the one before it (`CellAgain`), so the finding, which sees two reports, and the heatmap,
  which sees a window, agree from the second row on. `GoalsInv` keeps the order of the
  current goals strict. Theorem: `HistoryIsSound`.

The inputs of these modules (event lines, listings, contents of files, results) are the
same named sets in the proofs as in the run; the number of lines, edits, reports and
processes, and every limit, is arbitrary.

Extrema and totals. The library's induction theorems cannot be instantiated, but its
`WFMin` takes a relation and a set. With `NatLessThanWellFounded` it gives the
least-number principle, from which the proofs obtain the newest sidecar, the last
backup in pruning order, the newest map and the greatest batch to retry, for sets of any
size. In `DocumentsProofs` it stands in for induction: two functions with one recursion
have no least place where they differ (`TotalsAgree`, `FlattensAgree`), and a set of
reports that cannot be put in order has no smallest such subset (`Arrangeable`).

`TypeOK` of the first four of these modules, `MalformedOnlyFromDamage`, `NeverEmptied` and
`FirstMarkOnce` are proved and not part of a run.

Only model-checked: the liveness properties `RequestsEnd`, `OperationsEnd`,
`ComesBack` and `EveryRunEnds` (fairness and `ENABLED` are outside what TLAPS
proves here), and `GoalSetsSound`, `MaterializeSound` and `MapSound`. These three say
what a chain of folds, filters and sorts makes of one nested document. One action is the whole
chain, so no invariant holds between its links, and what each link computes is
induction over data, with an operator as its argument.

## 5. Assumptions and abstractions

- A record's payload, signature and ciphertext are left out: a record opens or
  is `Malformed`. A signed event differs from every earlier one, so the
  idempotent-retry branch of the append is never taken.
- A file whose data was synced keeps its directory entry.
- Advisory locks are exclusive and released by the operating system at death.
- A sidecar's UUID v7 sorts by creation.
- The model of updates covers macOS. A process can always be probed; opening an
  application that runs starts no second process; a core that serves a request
  runs the release that is at the application's path. Quitting while a core
  request is in flight is left out, and the handshake is one step apart from
  `HandshakeLost`.
- `Overlap` separates what holds while nobody starts an update beside a running
  helper from what happens when somebody does. Nothing in the code enforces the
  former: that is the finding of `app_update_overlap`.
- Signatures, archive inventories and code-signing checks are comparisons of
  release numbers that may also fail for any reason.

- Reading from the pipe of a Git child does not fail (`repository.rs:342`, `358`,
  `528`, `867` would return without killing the child); a child is ended by its exit,
  a kill, or with its process group. The probes of a provider may break.
- The looks of `inspect_paths` at one file (`symlink_metadata`, `canonicalize`,
  `metadata`: `context_documents.rs:128`) are one step (`InspectSize`): a link put in
  between is followed by the code. The read that comes after is a step of its own.
- The panic marker belongs to the device and the lock under which it is consumed to
  a workspace (`workspace_store.rs:2197`). `DesktopSessions` follows one workspace, so
  its recorders are serialised; starts in two workspaces at once are not modelled.
- A hash identifies what was hashed, and random identifiers do not repeat.
- A provider's answer is any of the named inputs of a module: the code never relies
  on a provider keeping to its prompt, and neither does a property.
- A filesystem lock of a snapshot lease ends with its process; names of temporary
  directories are not used twice.

## 6. Not modelled, and the plan

- The desktop's request keys, navigation and stale answers (`main.zig`): the
  messages of an update and the session marks are modelled, the rest is a large
  table of screens. The Windows installation path of the updater and the selection
  of a release among several channels.
- Rule-pack upgrades of a ledger and the free-text fields of a workspace.
- Formatting and text for people or prompts: exports, the inventory of a prompt,
  progress sentences, command-line arguments. They keep no state.
- `provider_repository_mcp.rs`, a read-only tool server over one snapshot;
  identifiers, launch at login, channel names.
- The test-only assurance modules (`*_assurance.rs`, `privacy_test_support.rs`).

What would come next: the desktop's table of screens as a module of its own, composed with
`CoreRequests`, and the links of `Materialize` and `MapGeneration` as separate steps, which
would make their invariants provable one link at a time.
