# Nagient: a verification development

Nagient is a self-hosted agent: a runtime process that polls chat transports, gives each
message to a language model together with a catalogue of tools, runs the tools the model
asks for, and keeps jobs to run later. Command-line processes work on the same files.
Nothing in the code takes a lock: threads of the runtime and the command-line processes
meet in JSON and TOML files, each written by truncating and then filling it. This
directory holds TLA+ models of those parts, the TLC configurations that check them, and
proofs checked by TLAPS. Source paths are relative to `src/`.

## 1. The system's components

| Component | State | Operations | Talks to | Where it is hard | Module |
|---|---|---|---|---|---|
| Job scheduler (`src/nagient/application/services/scheduler_service.py`, `workspace/jobs.py`, the loop of `infrastructure/runtime.py`) | one file per job; the round's copies | schedule, cancel, run due jobs, next wait | agents' `system.jobs` tools; the handler wakes an agent in the middle of a round | stale copies written back, deaths between run and record, torn files | `JobScheduler` |
| Approval workflow (`workflow_service.py`, `security/workflows.py`, parts of `agent_runtime_service.py`) | one file per request; buttons in chats | create, answer from chat, answer from the command line, resume the agent | tool batches create requests, approved ones call the tools | two answers at once, the check of the status far from its use, deaths between run and record | `ApprovalWorkflow` |
| Agent turn loop (`agent_runtime_service.py`, `agent_turn_service.py`) | previous results, last and deferred message, turn counter | turn, final summary | provider, tool batches, memory, transports | bounded turns, errors in the middle | `AgentTurn` |
| Session memory (`session_memory_service.py`) | sqlite messages with focus flags, notes and index | append, build context, notes | every turn | a list read in one statement and used in another | `SessionMemory` (notes and search not modelled) |
| Tool batches (`tool_service.py`, `security/approval_policy.py`) | the prepared calls, the batch's checkpoint | prepare, checkpoint, run or queue each call | agent turns, approvals and the command line begin them; backups take the checkpoint | one call failing, a checkpoint failing, batches side by side on one workspace | `ToolBatch` |
| Backups (`backups/manager.py`) | a git repository and its working directory, one metadata file per snapshot | snapshot, restore, prune, list | tool batches (checkpoint), approvals (restore) | a mirror and an index that all snapshots share, collection in the middle of another's snapshot, identity by content and second, order by hash, restoring over a live workspace | `Snapshots` |
| Configuration, secrets and interactions (`app/configuration.py`, `configuration_service.py`, `security/broker.py`, `infrastructure/control_panel.py`, `submit_interaction`, `workspace/manager.py`) | `config.toml`, two secret files, secret metadata, stored interactions, `workspace.json` | patch, apply, store, bind, remove, submit, init | tools, approvals, panel, command line | read-modify-write races, files that must agree | `SharedFiles` |
| Runtime lifecycle (`infrastructure/runtime.py`) | started transports, poll threads, stop event, heartbeat | start, poll, handle, stop | every event handler, the message service | threads that outlive their two-second join, the position of the polls | `RuntimeLifecycle` |
| Activation (`preflight_service.py`, `reconcile_service.py`, `status_service.py`) | report, effective and last-known-good files | inspect, reconcile, status | runtime start, panel, command line | three writes after two reads; a verdict from many separate checks | `Preflight`, `ProviderStatus`, `RuntimeLifecycle` |
| Provider authentication (`provider_service.py`, `providers/storage.py`, `providers/builtin.py`) | credential and session files, the service's tokens | login, complete, refresh, logout | every model call refreshes | refreshes at the same time and at a logout, lost answers | `ProviderAuth` |
| Plugin installer and registries (`plugins/installer.py`, `*/registry.py`) | plugin directories | install, replace, list, remove, load | command line, every inspection | directories changed file by file while others load them | `PluginStore` |
| Updates, command line, built-in tools, process adapters, scaffolds, logging, install scripts | none of their own, or external | | | I/O, parsing and rendering; what they do to shared state is in the modules above | section 12 |

What makes each correct: a one-off job runs once, a cancelled one never, a recurring one no
oftener than its interval; a request is run for its owner only, once, and not when it was
refused; what an agent did and said is in its memory, and a plan that uses up its turns is answered;
a batch that changes the workspace can be rolled back; no configuration change is lost but to one
that overlapped it, and a secret that is said to exist has a value; what an activation allows can
answer, what the status tells is so, and no message is confirmed before it was handled; an account
that is shown can be used, and a logged-out one stays logged out; a plugin that is listed is whole.
The list `hazards` of `PROJECT.json` has the lines where each of these can go wrong.

## 2. Plan

Done, in this order: **JobScheduler** refining **JobLedger**; **ApprovalWorkflow** refining
**ApprovalLedger**; **ToolBatch** over **Snapshots**; **AgentTurn** over **SessionMemory**; **SharedFiles**;
**RuntimeLifecycle** over **Preflight** and **ProviderStatus**, refining **UpdateDelivery**; **ProviderAuth**;
**PluginStore**; and the theorems of section 13 about each.

How they fit together: `RuntimeLifecycle` starts and ends the threads, and what it calls "handled" is
one event in `ApprovalWorkflow` or `AgentTurn`; a turn's `RunTurn` is a batch of `ToolBatch`; a call
that waits for approval there is an `Ask` of `ApprovalWorkflow`; the loop of `JobScheduler` is the one
of `RuntimeLifecycle` (its `RunJobsAndWait`); `SharedFiles`, `ProviderAuth` and `PluginStore` are what the
commands and tools change, and what `Preflight` inspects. They are composed where they share state
(`ToolBatch` extends `Snapshots`, `AgentTurn` extends `SessionMemory`, `RuntimeLifecycle` extends `Preflight`) and
are separate where one sees of another only that a call returned.

Left to do: an abstract
batch (a checkpoint and then edits, over a map from snapshots to workspaces) and its refinement;
`Snapshots` composed with `JobLedger`, since a restore brings back job files.

## 3. JobScheduler

`JobScheduler.tla` models `SchedulerService` and `JobStore`, driven by `RuntimeAgent.serve`.

| Model | Code |
|---|---|
| `store[j]` | the file `<job_id>.json`: missing, torn (truncated), or a record |
| `batch[j]` | the local list `due_jobs` of `run_due_jobs`, less the jobs settled already |
| `loop`, `current`, `wakeAt` | where `serve` is, the job being handled, the end of `stop_event.wait` |
| `caller[c]` | an agent inside a `system.jobs` tool call |
| `BeginRound`, `AbortRound` | `store.due()` at the head of `run_due_jobs`, or its exception in `_run_due_jobs` |
| `StartHandler`, `SettleOnce`, `SettleInterval`, `SettleFailed`, `EndSettle` | the body of the `for` loop, by trigger and outcome |
| `Plan`, `Wake` | `_next_runtime_wait_seconds` and the wait |
| `ScheduleOnce`, `ScheduleInterval`, `EndSchedule` | `schedule_*` and `JobStore.save` |
| `CancelLoad`, `CancelOnce`, `CancelInterval`, `EndCancel` | `cancel_job` |
| `Crash`, `Restart`, `Abandon`, `Tick` | the environment |

One caller is `Woken`, the agent that the running handler woke: it acts only while the handler
runs, and the handler cannot return before its calls have. The others are transport threads
and command-line processes and act at any time.

Names, payloads, notes and the text of times are left out. `"completed"` appears in no file
(a one-off is deleted), `"pending"` is treated by the code as `"scheduled"`, and jobs triggered
by events are never due. `JobStore.delete` is one step although it looks and then unlinks. The
wall clock only moves forward.

What an overlap of two writes leaves follows the system calls: `write_text` opens with
truncation and then writes from the start. A writer that fills a file another has filled since
its own truncation leaves its own text, with the tail of the other if that was longer
(`Filled`). A file unlinked while it is open stays gone.

`JobLedger.tla` is the abstract specification: jobs that are new, active or ended, and a
round's claims on them, without files, clock or copies. `KeepsLedger` is the refinement; a job
is active while its file says scheduled.

**Run `sched`** (419,471 states). Two jobs, one of each trigger; two agents, one woken by the
handler; seconds of two ticks, an interval of two seconds, a heartbeat of three ticks, four
ticks of time and one death. Two agents are enough to overlap each other's writes and the
round's; four ticks are enough for a recurring job to run, be due again and meet the
truncation of the second; one death separates a run from its record. The last tick stands for
all later times, so that the loop may go round for ever and liveness means something. It
checks:

- `OnceFiresOnce`: one-off jobs start once, plus once per death in the window.
- `QuietCancelSticks`: a cancel that returned while no round held a copy is final.
- `IntervalSpacing`: runs of a recurring job are more than the interval less a second apart.
- `KeepsLedger`: the refinement.
- `OnceEventuallyHandled`: a stored one-off job is handled in the end, unless a file was left
  that no reader can parse.

Fairness: the loop's own steps, the handler's return, a tool call that was begun, and the
clock. The code justifies each: the loop's thread only waits with a timeout, model turns are
counted and calls have timeouts, and the supervisor restarts the runtime. Cancels do not go on
for ever, since a cancel in progress can make a round fail. Nobody must schedule or cancel.

**Run `sched_cancel`** finds `CancelIsFinal` violated: `run_due_jobs` writes its stale copy of a
recurring job over the record that `cancel_job` stored while the handler ran. The agent that
the handler woke can do this to its own job.

## 4. ApprovalWorkflow

`ApprovalWorkflow.tla` models `WorkflowStore`, `WorkflowService.resolve_approval`, and the parts of
`handle_inbound_event` that answer requests and create them.

| Model | Code |
|---|---|
| `file[i]` | `approvals/<id>.json` |
| `buttons[c]` | the inline keyboards sent to a chat, which stay pressable |
| `task[a]` | the call stack of an actor: a transport's poll thread, the scheduler's thread in a wake-up, or an `approval respond` process |
| `Message`, `Decide` | `handle_inbound_event` with a text that is, or is not, a decision; `_maybe_resolve_transport_approval` up to the pick |
| `Respond` | `nagient approval respond` |
| `Approve`, `Execute`, `Refuse`, `Record`, `Save` | `resolve_approval`: load and start, the action's end, the two halves of the write |
| `Raise` | an exception that ends the event with an error reply |
| `Resume`, `Reply` | what `_maybe_resolve_transport_approval` does with the result, the fall-through of a handled button included |
| `Ask`, `Asked` | `create_approval` from a tool call, or from the assistant with the id and owner it wrote |
| `EndTurn` | the end of the model's turns, and the prompt with buttons |
| `Crash`, `Kill` | the environment |

A poll thread handles one event at a time, a transport belongs to one thread, and a session
belongs to one transport; these are assumptions on the constants. Wake-ups have no sender.

Left out: the wording of decisions (`"reject"` is `"cancel"`), messages stored in memory (the
sqlite calls are taken to succeed), and what the action itself does, but for whether it worked.
An assistant's request is taken to be `"pending"`, although it may write any status; it may
write an id of its own but not one the store made before; its owner is the event's sender or
one it names (`Claims`). `nagient chat`, which runs turns in a process of its own, would be one
more handler. An approved `agent.resume` action that makes further requests is left out.

**Run `approval`** (1,226,755 states). One chat with two users, wake-ups, one operator, two
requests, one id an assistant may write, three events, one death. Two users tell an owner from
another; three events are a request, its answer and a second answer. With four events the two
properties about ids hold too (checked apart; it takes too long for a run). Deadlock is not
checked: when the events are used up, the system stops. The users are symmetric. It checks:

- `OwnerOnly`: a thread runs a request's action only for its chat and its owner.
- `HandlerRunsOnce`: no thread runs it twice, but for deaths during the run.
- `PendingNotRun`: what still reads pending was not run.
- `RefusedNotRun`: what reads refused was not run, unless an operator took part.

`ApprovalLedger.tla` is the abstract specification: requests that are new, open or closed, and the
actors that have picked one, run it or store its outcome, without files, records or events. A request is opened
once and closed for good; one that has a user and that no operator touched is picked by one thread
at a time; what was picked is closed before it is done with, unless its actor dies. `KeepsLedger` is the
refinement: a request is open while its file reads pending, and new until its creator has filled it.

These hold for ids made by the store. For an id that an assistant wrote they do not: it can
replace a record, and a late answer can bring the old one back. Operators are not held to them
either: `approval respond` looks neither at the owner nor at the status.

**Run `approval_live`** (121,307 states): one user, one request, four events. `EventEnds`: every
event and command ends, although an approval resumes the agent, which may ask again, and a
handled button goes on to a turn. `AnswerLands`: a decision that picked a request settles it.
`KeepsLedger`: the refinement of `ApprovalLedger`, which was also checked apart on the instance of run `approval`
(2,303,659 states without symmetry).
Fairness: an actor that has begun goes on. A turn is one step that may end at any time, which
stands for the bounded turns of the code and their timeouts.

**Run `approval_outcome`** finds `ApprovedMeansDone` violated: a tool that fails returns a result, and the
request is approved and reported as performed. Two more disagreements are in section 11.

## 5. ToolBatch and Snapshots

`Snapshots.tla` models `BackupManager`, each call of it step by step; `ToolBatch.tla` extends it with
`ToolService.invoke_batch`, which takes snapshots as checkpoints and runs tools that take, prune
and restore them.

| Model | Code |
|---|---|
| `disk` | the workspace |
| `mirror`, `index`, `commits` | the backup repository's directory, its index, the commits in its object database |
| `refs[n]`, `live`, `made` | `refs/nagient/snapshots/<time>-<uuid>`: what each was made for, which exist, how many were ever made |
| `meta` | `snapshots/<commit hash>.json`: the ref it names, 0 while it has no content |
| `op[a]` | the call of `BackupManager` that actor `a` is in: a poll thread, the scheduler's, or a `nagient tool invoke` process |
| `batch[a]` | the locals of `invoke_batch`: the prepared calls, the one that is next, the checkpoint |
| `Sweep`, `List`, `Enter`, `CopyOpen`, `CopyFill`, `SyncFails` | `_sync_tree`, into the mirror for a snapshot and into the workspace for a restore, one directory after another: removals, the listing, a directory made, each copy as truncation and content, what raises |
| `Stage`, `CommitIndex`, `Publish`, `Describe`, `Fill` | `git add -A`, `write-tree` with `commit-tree`, `update-ref`, the two halves of the metadata's write |
| `Select`, `Unref`, `Forget`, `Collect` | `prune_snapshots`: `list_snapshots`, then for each one `update-ref -d` and `unlink`, then `gc --prune=now` |
| `Archive`, `Restored` | `restore_snapshot`, before and after its `_sync_tree` |
| `GitFails`, `SelectFails` | a git command, or the listing, raises |
| `Begin`, `Checkpointed`, `CheckpointFailed` | `invoke_batch` up to the checkpoint, its success and its failure |
| `Ask`, `RunNothing`, `RunEdit`, `RunShell`, `RunGit`, `RunBackup`, `RunPrune`, `RunRestore`, `Returned`, `End` | the loop over the prepared calls |
| `Rollback` | the workflow action `backup.restore`, which restores without a batch |
| `Crash`, `Tick` | the environment |

A commit is a record of its tree, its second and its message, so two snapshots that agree in these
are one commit, as they are for git.

A tree says of each path whether it is a file, with what content, a directory or absent (`Tree`); which paths may be
directories, and what they are in, are constants (`Folders`, `Above`). `_sync_tree` removes an entry of the
target only when the source has nothing of that name. A file makes way for a directory (`Enter`), but a directory does not
make way for a file: it stays, with what is in it, and `copy2` puts the file into it, at `Inside[f]`
(`Destination`). `nested` is history: that happened to this snapshot or restore. In `Staged`, as in git, a directory is there for the
files in it, and ignored files are left out.

`FunctionSpec` groups the built-in functions by what the
policy and the need of a checkpoint make of them. A command of the shell or of git is a sequence of
changes of files and directories, as many and in what order it likes (`Changes`), and `RunNothing` is its end. The policy
goes by what the call says of a command: one that is called read-only needs neither approval nor
checkpoint, and may change files all the same (`readonly`). `origin`, `pruned`, `spoiled`, and the fields `before`
and `alone` of a batch are history: nothing in the model's guards reads them.

Left out: a write of the workspace is one step (which may leave a file `Partial` when the tool
raises half-way), and so is the removal of what a sweep finds gone in one directory. Two copies of one
file at the same time leave the content of the last to write, not a mixture of their lengths. The
order of hashes is any order. `created_at`, `write-tree` and `commit-tree` are one step; so is a listing, and
so are the look and the `unlink` of a prune, which fail as in `SelectFails` and `GitFails`. `auto_approve` is
an input of a call, set by an approved request, by the command line, by a scheduled tool call
(`agent_runtime_service.py:739`) or by the model itself (`agent_turn_service.py:27`). What an approved call does in
the approval's own records is `ApprovalWorkflow`. `workspace.json`, which `ensure_layout` rewrites, is
left to `SharedFiles`, and a home directory inside the workspace is not modelled. A process that a
command leaves running is not modelled. `diff` and `export` read only. Symbolic links are not modelled, and what is ignored does not change,
although `.gitignore` is itself a file of the workspace.

**Run `batch`** (2,668,662 states). Two actors; a path that is a file or a directory by turns, and the path of the same name in
that directory; one content besides "partly written"; five batches (a delete and a write with a checkpoint; an approved restore with a
command of git to be approved; an approved command of git and a read-only one of the shell, both without a checkpoint; a backup
with a prune), two of them or rollbacks in a behaviour; two refs, two seconds, prunes that keep one, one death. Two
batches are enough for one to disturb the other at each step, or to find what the other left when
it failed or died; a path with one in it is enough for each pair of kinds that source and target can have
at an entry, in the root and below it; two seconds tell commits of one content apart. Deadlock is not checked: when the batches are used up,
the system stops. The actors are symmetric. It checks:

- `CheckpointFaithful`: a checkpoint during which nobody else changed the workspace or took a
  snapshot holds the files of the workspace as the batch found it, ignored ones apart, whatever earlier snapshots
  left in the mirror and in the index; unless a file took the place of a directory of the mirror.
- `RollbackReturns`: restoring it, undisturbed, brings these files back, unless one of them has become a directory.
- `CheckpointHeld`: a call that needs a checkpoint, and is yet to run, has one; it can be
  restored, unless a prune chose it. A prune may choose the checkpoint of a batch that is running.
- `ListedRestorable`: what the list shows has its commit, although another's `gc` may run between any two
  steps of a snapshot, unless its own prune ended between the ref and the metadata.
- `NoLostRefs`: without a death, a ref that no metadata names belongs to a snapshot in the making, or
  to a commit that was taken twice.

Both exceptions happen in the run: a delete and a write put a file where the mirror has a directory, and a restore finds
a directory where its snapshot has a file. Nothing is ignored in it. With `Ignored = {inner}` the mirror keeps what no
snapshot has: `CheckpointFaithful` was checked apart for that (1,410,913 states), on a checkpointed shell command with an approved
restore and on a command of git, with one second and no prune.

## 6. AgentTurn and SessionMemory

`AgentTurn.tla` models `AgentRuntimeService.handle_inbound_event` once an event is known to be a
message for the model, over `SessionMemory.tla`, the messages of one session in SQLite. A message of a
chat is handled in its transport's thread and a wake-up in the main loop, so two events of a
session may be handled at once.

| Model | Code |
|---|---|
| `messages`, `inFocus` | the table `messages`, and its column `in_focus` |
| `build[t]` | where thread `t` is in `build_prompt_context`, with the ids it read |
| `turn[t]` | the locals of `handle_inbound_event`: the turn's number, the answer, `last_message`, the deferred reply, how many results are stored |
| `ran`, `ended`, `unsynced` | history |
| `Receive`, `BuildContext` (`SelectFocus`, `SyncFocus`, `ReadMessages`) | the stored message, and the statements of `build_prompt_context`, each committed by itself |
| `Answer`, `Excuse` | the provider's answer, or its failure (`_finalize_provider_failure`) |
| `Say`, `RunTurn`, `KeepResult` | a plain message is stored; `run_turn`, with the errors a batch or a request may raise; the results are stored one by one |
| `Wait`, `Render`, `Return`, `GoOn` | the endings of a turn: an approval is pending, a deferred message (rendered and stored, rendered to an empty text, or not rendered), a reply, the next turn |
| `Summarise`, `StoreSummary` | `_finalize_after_max_turns` |
| `MemoryFails`, `Die` | SQLite raises; the runtime dies |

A batch is one step here, its inside being `ToolBatch`; a text is who made it and in which turn; what
is sent on the way (typing, drafts, progress) is left out, since a failure to send is only logged.
`Answers` is what the model may answer: a message, plain or deferred until the tools have run,
calls, requests to the user, in any combination that `_parse_assistant_response` lets through. Notes,
their index and the search are not modelled. Prompts hold all rows up to a limit and a summary of
the rest, of which nothing is claimed.

**Run `turn`** (579,947 states). Two threads, two events, two turns, at most one call, four
answers (a reply; words and a call; a deferred message with a call, alone and with a request), a focus of two
messages, six rows, one death. Two turns make a plan that uses them up; two events
overlap each other's focus; more rows than the focus are needed for a flag to be lost. A session
with no more rows stops, so deadlock is not checked. The threads are symmetric. It checks:

- `WorkRemembered`: calls that were run have their results in the memory, in all turns but the one
  that an error or a death stopped.
- `ReplyRemembered`: what the user was told is in the memory as said by the assistant, but for a
  deferred message that is returned, as the model wrote it, beside a request to the user, and for one whose placeholders came to
  an empty text, which is returned and not stored.
- `PlanAnswered`: when all turns ran calls the reply is a summary, a list of results or the last turn's rendered message, and not the text
  that announced the next step. It is empty only where that message came to an empty text.
- `FocusKept`: the newest messages are flagged, but for those stored while a thread held a list; the
  next list heals these.

## 7. SharedFiles

`SharedFiles.tla` models the writers of the files that threads and processes share: `config.toml`,
`secrets.env`, `tool-secrets.env`, the secrets' metadata, a stored interaction and `workspace.json`.

| Model | Code |
|---|---|
| `disk[f]`, `blank`, `garbled` | what a file holds; opened (and so emptied) for writing; two texts mixed |
| `client[c]` | the operation of a thread or process, the edits it has yet to make, the copy it read |
| `check` | `control-panel-validation.toml` |
| `Plan(op)` | which files each operation edits, in the code's order: `store_secret` and `bind_secret` (`login`, `submit`, `refer`), `remove_secret`, the setters of `ConfigurationService` and `_patch_config_file`, the panel's page, `submit_interaction`, `ensure_layout`, `init --force` |
| `Begin`, `Read`, `Look`, `Truncate`, `Fill` | load, edit a copy, `open("w")`, write; `Look` is the question whether a bound secret has a value |
| `Post`, `Load`, `Unlink` | the panel's `_validate_config` |
| `GivesUp`, `WriteFails`, `Die` | a file that cannot be read, a full disk, a death |
| `last`, `lost`, `unsure`, `crossed` | history: what the files would hold if nothing overlapped, and where it did |

A value is the operation that wrote it. Texts are shorter than a write buffer, so a write is one step
after the truncation; over a text another writer wrote meanwhile it may leave the longer's tail, except in
the `.env` files, where a tail is only another line. A page may hold a value that no TOML can (`odd`). The settings
one can edit are one kind of edit of a section. Names defined in the environment need no file.

**Run `shared_files`** (838,001 states). Two symmetric clients, two operations of any kind, two names,
two scopes, two sections, two faults. Two operations overlap at every pair of steps; a third adds
no new pair, since all claims are about a file or a name at rest or about one overlap. When the
operations are used up it stops, so deadlock is not checked. It checks:

- `EditsKept`: a file whose edits never overlapped holds all of them.
- `SecretsHold`: what the metadata says exists has a value, and an interaction stored as a success
  has stored and bound its secret, whatever died or failed between two files; not after a removal was cut
  short, operations on one name overlapped, or `init --force`.
- `PanelChecks`: a page that does not load is not written, unless two checks overlapped.

## 8. Preflight, ProviderStatus and RuntimeLifecycle

`ProviderStatus.tla` states, for the built-in provider plugins, what `validate_config` and `auth_status`
say of a profile, and apart from it what `_build_request_auth` or `_resolve_bearer_token` would send. `Preflight.tla`
is `PreflightService.inspect` with the transport, provider and tool managers, as a function of the
configuration. `RuntimeLifecycle.tla` extends them with the processes.

| Model | Code |
|---|---|
| `config` | `config.toml` with the secrets, plugins and credentials it refers to; may not parse |
| `report`, `kept` | `activation-report.json`; `effective-config.json` and `last-known-good.json` |
| `rec[p]` | `ReconcileService.reconcile` in the runtime as it starts, and in a `nagient reconcile` |
| `main`, `beat`, `signal` | `RuntimeAgent.serve`, `heartbeat.json`, the stop event |
| `thread[t]` | a poll thread: its stop event, the plugin's poll position, the batch it is in |
| `service[t]` | the message service: what has arrived and what a poll has confirmed |
| `Inspect`, `LayOut`, `WriteReport`, `WriteEffective`, `WriteGood` | `reconcile` |
| `Load`, `StampAndStartPanel`, `StartTransport` | `serve` up to its loop |
| `Heartbeat`, `ScanFails`, `RunJobsAndWait`, `LeaveLoop` | its loop |
| `TellThread`, `StopPlugin`, `Exit` | its `finally` |
| `Ask`, `Answer`, `PollFails`, `Handle`, `Hang`, `EndThread` | `_poll_transport_loop` |
| `Edit`, `EditUnseen` | a watched file is written; or one is removed (`storage.py:32` at a logout, `installer.py:190` when a plugin is removed) or copied with the time it had |
| `GoStale` | the heartbeat gets older than the grace of `status_service.py:112` |
| `Signal`, `Die`, `Arrive`, `Boot`, `Command` | the environment |
| `NeedsReconcile`, `NeedsRestart` | `StatusService` |

Times of files are kept as "the newest one is after it" (after the report, after the start that the heartbeat tells, after
this process's start), which is all that is done with them. The newest is of the files that exist: `Edit` gives one a new time, while
`EditUnseen` leaves the newest time or takes it away, so that no flag rises and one may fall. The history field `hidden` of a report and
of the process says that an edit of either kind came which the times do not tell: in the middle of the reconciliation or the start, or unseen. A torn
heartbeat, from which status takes the file's own time as the start, is left out. The join's two
seconds are a `StopPlugin` that waits for nothing. What handling an event does is in `ApprovalWorkflow` and
`AgentTurn`; sending a reply either works or is logged. The polling plugin is the one of
`examples/plugins/telegram-aiogram/transport.py`, which keeps the position in memory and sends it with the next poll;
the message service is external.

**Run `runtime`** (297,839 states). The console and one polled chat, two providers (a ChatGPT login, an API
key), one tool; two configurations: all well with a token to be refreshed; the chat's secret missing and the console enabled, nobody
signed in, no default and a broken tool; and one that does not parse. One edit, two starts or commands,
two updates, one fault. The edit is seen or unseen, starts the console beside the chat, or takes what it needs from a start; two starts are a
runtime with a command beside it or a restart; two updates are a batch that can be left in the middle. It checks:

- `StatusTold`: a report that status does not ask to refresh is of the configuration on disk; so is the configuration of a running
  process with a fresh heartbeat that status does not ask to restart. Excluded are the hidden edits, which nothing tells of,
  and a stale heartbeat, of which status says that it is stale and asks for no restart. With one edit no flag can fall: the
  two invariants were also checked with two edits, three starts and no updates, over three configurations (693,731 states), and they are theorems.
- `AllowedAnswers`: a stored report that allows the activation, in safe mode and with an interactive
  transport, is of a configuration that can answer: a healthy transport, a ready provider, and a key to send for the
  default one, but for the gaps that `Gap` names.
- `ConfirmedWasHandled`: no update is confirmed that was not handled, at a stop or a death in the middle of
  a batch too.
- `KeepsDelivery`: the poll threads implement `UpdateDelivery.tla`, where a reader handles updates in order, none twice
  and none left out, and confirms what it has handled and only that, while it is open; told to stop it may
  finish what it holds and forget its place, and the next reader goes on behind what was confirmed. Failed polls,
  hung handlers, batches, the two-second join and deaths are not in it.
- `SignalEnds`: a signal ends the process although a handler hangs.
- `UpdatesHandled`: what arrives at a running transport is handled, unless a handler hangs.

Fairness: the process's own steps and each poll thread's. Its thread never waits without a timeout
(the join, the loop's wait, the plugins' calls), and the poll threads are threads of it. The edits, faults,
arrivals, starts and signals need not happen. Deadlock is not checked: a process that is down and
may not start again has ended.

## 9. ProviderAuth

`ProviderAuth.tla` models the account of one provider in the modes with refresh tokens.

| Model | Code |
|---|---|
| `file` | `credentials/<provider>.json`: none, empty, mixed, or the numbers of its two tokens |
| `session` | `auth-sessions/<id>.json`, and the code of it at the service |
| `service` | the provider's tokens: issued, refresh tokens it accepts, access tokens that have not expired |
| `client[c]` | an operation of a thread or a process: a use of the provider, `login`, `complete_login`, `logout` |
| `Load`, `Exchange`, `Truncate`, `Fill` | `_refresh_credential_if_needed` with `refresh_credential` and `save` |
| `BeginSession`, `ReadSession`, `StillPending`, `Redeem`, `EndLogin` | `login` and `complete_login` |
| `Unlink` | `logout` |
| `NoAnswer`, `Retries` | `_provider_request_with_retry` |
| `Expire`, `Approve`, `Die` | the environment |

The service is external: it withdraws a refresh token when it gives out the next (`Rotates`) and
redeems a code once.

**Run `auth`** (213,742 states). Three clients, one session, rotation, two attempts, four tokens, four operations, one fault.
Two clients refresh at once while a third logs in or out; four tokens are two such rounds. It checks:

- `StaysSignedIn`: an account that is shown has a refresh token that the service accepts, or a client is about to
  write its successor, however many refresh at once, unless an answer with a token was lost.
- `LogoutSticks`: after a logout that no refresh overlapped nobody is signed in until a login is completed.

**Run `auth_repair`** finds `LoginRepairs` violated: `login`, `complete_login` and `logout` all load the credential
first, and raise on a file that a death left empty, although the preflight tells the user to repair a
profile with `nagient auth login`.

## 10. PluginStore

`PluginStore.tla` models `nagient plugin install`, `list` and `remove` on the plugins' directories, and a registry that loads
what is there.

| Model | Code |
|---|---|
| `made`, `files[p]`, `metadata[p]` | a plugin's directory; its manifest, code, environment and packages, each as the repository it is of; `.nagient-plugin.json` |
| `client[c]` | a command, with the files it has yet to copy or remove |
| `loader`, `found` | a registry's pass over its family's directories, and its result |
| `Menu`, `Choose`, `Clone`, `Look`, `Make`, `Copy`, `CopiedAll`, `MakeEnvironment`, `RunPip`, `Sign`, `Fill` | `install_plugin` and `install_plugin_dependencies` |
| `Uninstall`, `Unlink`, `RemoveDirectory` | `remove_plugin` and the `rmtree`s |
| `Discover`, `ReadManifest`, `ReadText`, `ReadAgain`, `LoadCode`, `Discovered` | `discover` of the registries |
| `Die` | the environment |

A repository is its id, family, needs and runtime and whether linting accepts it. `_safe_directory_name`
gives two ids one folder (`FolderOf`). A clone that fails also stands for a manifest that is refused.

**Run `plugins`** (373,181 states). Two symmetric commands, one pass of a registry, one failing write or death; two folders and five
repositories: two versions of a tool, a tool of the same folder whose requirements cannot be met, an invalid transport, and
a tool in a folder of its own, so that a pass goes from one directory to the next.
Two commands overlap, or the second finds what the first left; a removed directory is like a
new one, so more commands find nothing else. Deadlock is not checked: it stops when they are done. It checks:

- `ListedIsWhole`: what `plugin list` shows has the manifest, the code and the claimed packages of
  one repository, whatever died or failed, unless a removal was cut short or two commands overlapped in it.
- `LoadedIsOne`: a registry never loads one version's code under another's manifest, unless a command was at
  work in the directory meanwhile.

## 11. Known disagreements

Three runs end in a violation: `sched_cancel`, `approval_outcome` and `auth_repair`. The models show more
that a reader should know of; the properties above are stated so as to exclude these, by name.

Approvals and turns:

- Pressing a handled button again answers another pending request of the chat, the last by file name
  (`agent_runtime_service.py:368`).
- A handled button's text goes on to the model as a user's message, after a cancellation too (line 436).
- A second run of an assistant's own request id is possible (section 4).
- A deferred message whose placeholders come to an empty text is returned as an empty reply (line 1586), and not stored.
- When the summary call fails, the list of results is of the last turn only, where the docstring (line 610)
  speaks of the accumulated results.

Backups:

- `list_snapshots` sorts by file name, which is the commit's hash: a prune keeps the largest hashes and not the newest.
- `_sync_tree` removes an entry of the target only when the source has nothing of that name (`manager.py:202`). Where the snapshot has a
  file and the workspace a directory, a restore that nobody disturbs leaves the directory with what is in it, puts the file into it
  (`copy2`, line 219), and returns `restored: True` (line 125), where the tool says "Restore a local backup snapshot into the
  workspace." (`tools/builtin.py:1189`): `RollbackReturns` without its exception fails in 21 steps. A snapshot of a file that takes
  the place of a directory of the mirror goes wrong in the same way, and what was in the directory stays in the snapshot, unless it is ignored.
- The mirror has the workspace's `.gitignore`, and `git add -A` obeys it: a checkpoint has no ignored file, and
  restoring it deletes them.

Files and secrets:

- A death in the middle of writing `metadata.json` makes every later edit of a secret's metadata fail; of `workspace.json`,
  every later event.
- `init --force` empties the secret files while the metadata still says that the secrets exist.
- The quick connection of a provider clears another provider's default mark (`cli.py:2208`, `configuration_service.py:175`), and
  "Unset as default" does nothing when the default is inferred.

Activation and runtime:

- `docs/architecture.md:37` starts the loop "only when the activation report is allowed by safe mode"; `serve` starts it
  always (as `docker/scripts/entrypoint.sh:53` knows), and the report only decides which transports start.
- A transport that is only "degraded" counts as unhealthy, although it is started.
- An API key whose secret is the empty text counts as signed in; plugins with a credential file are called ready but cannot
  chat; a Codex request ignores the mode, and expired tokens or ones stored as "token", which `auth_status`
  accepts; a Codex file that cannot be read hides a stored key from `auth_status`.
- A logout and the removal of a plugin leave no newer file time: status asks for nothing, and after one that removes the newest file it
  withdraws what it asked for (`status_service.py:196`). While the heartbeat is stale it asks for no restart (line 130).
- A refresh writes a watched directory, so that status asks for a reconciliation and a restart; a watched file
  that vanishes during the scan ends the loop (`runtime.py:711`); long jobs make the heartbeat stale.
- The rest of a batch of events is handled after its transport was stopped.

Accounts and plugins:

- A torn credential makes the preflight raise too.
- After a lost answer of a rotated exchange the retry sends the withdrawn token: the account is gone, and status
  shows it.
- A refresh that overlaps a logout stores the credential again, and one that overlaps a login can overwrite it.
- An install that dies before the metadata is neither listed nor removable, and only `--force` replaces it; a forced
  reinstall that fails leaves neither version; registries load a plugin that is half installed.
- "a/b" and "a_b" share a folder; of one id in two families `remove` takes the first.

## 12. Not modelled

- **Updates and migrations**: a filter and a sort over a manifest, without state.
- **The command line's wizards**: menus, prompts and rendering. A menu saves what it showed earlier, over what changed
  meanwhile, and a wizard that edits the settings' paths keeps working on the old ones; both are stale copies in one
  user's terminal.
- **Notes, their index and search** of the session memory: queries that no other step depends on.
- **Delivery of replies**, drafts and notifications: each is one call that works or is logged, and nothing
  records which.
- **External services' requests and responses**, process adapters (one subprocess per call), bundled
  transports (send-only), scaffolds, logging, release scripts: I/O and text.
- **The wall clock going backwards**, and clocks of files that disagree with each other.

## 13. Proofs

TLAPS checks every theorem for all values of the constants, under the assumptions
that the modules name (`SchedulerAssumption`, `ApprovalAssumption`, `SnapshotAssumption`, `CommitAssumption`,
`BatchAssumption`, `FilesAssumption`, `MemoryAssumption`, `TurnAssumption`, `PreflightConstants`, `RuntimeConstants`,
`ProviderAuthConstants` and `StoreAssumption`), which TLC evaluates in each run. The modules
follow one plan: an inductive invariant `IInv`, found with TLC as an invariant of the small
instance; a lemma per action that it is preserved, where an action that leaves most of the
state alone goes through a lemma on what it leaves; then the theorems.

**`JobSchedulerProofs`**: `TypeCorrect`, `OnceAtMostOnce`, `QuietCancelFinal`, `IntervalKept` and
`Refinement`. None of the properties is inductive alone. `RoundInv` says what the round's copies
are: of stored jobs, scheduled, unless just settled. `CreationInv` keeps a job being created out
of every other actor's hands: no file, no copy and no cancel of it exists until its first write
ends. `SpentInv` is the heart of `OnceFiresOnce`: once a one-off job was started without a death to excuse it, and is over,
its file can never read scheduled again, whoever still writes it. `SpacingInv` says that every
scheduled record of a recurring job that can still be started, in its file or in a copy, has the
second in which the job last ended as its `last_run_at`, and that a copy was due when it was
taken. `IntervalKept` then follows
from the guard of `Due`, and `Refinement` step by step from the same invariant.

**`ApprovalProofs`**: `TypeCorrect`, `Ownership`, `RunsAtMostOnce`, `PendingMeansNotRun`, `RefusedMeansNotRun` and
`Refinement`. `OriginInv`: all
the records of a store-made id that an actor could act on, in the file or in an actor's hands, name
one chat and one owner, and `AnswerInv`: a thread that picked the id has an event of that chat and
owner. `HomeInv`: a record under a store-made id is of that request, and one under an assistant's
id is of a request whose own file is never written. `FreshInv` and `CreateInv`: an id of the store
is used once, and until its file is filled nobody else holds it. `PendingInv` and `PickInv` are the
heart of the rest: a request that reads pending was run by nobody, but for who is running it or
died running it, and neither was one that a thread has picked, by that thread. `PickedInv` and `RefusedInv` are
about a request of a user in which no operator takes part: since every record of it names one chat and one user
(`OriginInv`), only the thread of that chat's transport answers it (`SourceInv`), so what this thread has picked still
reads pending, and when it refuses it nobody has run it. `Refinement` follows step by step from the same
invariant, with `SavedInv`, that a request whose outcome is being stored is pending no more: the fill of a file closes
a request or opens one that was new, and every other step moves an actor or stutters.

**`ToolBatchProofs`**: `TypeCorrect`, `CheckpointsAreFaithful`, `RollbacksReturn`, `CheckpointsAreHeld`,
`ListedAreRestorable` and `NoRefIsLost`. Three arguments, one for each named part of the invariant:
`NamesInv`, that a ref is made once and only its maker knows it until its metadata is filled, so that
no prune can take it away first, and that whoever holds a commit or lists one has a live ref for it or has
removed it itself; `HeldInv`, that a commit that a batch was given stays until a prune chooses it;
`ContentsInv`, that while a checkpoint is alone, and no file has gone into a directory of its name, each stage (mirror, index, commit)
agrees with the workspace in the paths that are past it, and that a restore agrees with its commit in the same way. For `_sync_tree` this is
one lemma about two trees (`SyncAgrees`), used in both directions: a path is past when it is neither listed and still to copy nor in the directories still to visit.
The history fields make the last one a statement about what others did in between.

**`AgentTurnProofs`**: `TypesKept`, `WorkIsRemembered`, `ReplyIsRemembered`, `PlanIsAnswered` and `FocusIsKept`. `OwnerInv`: an event
that is open belongs to one thread, so that nobody else adds to what it ran. `Live` says, for each place in the
loop, what its thread has run and stored so far, and `Closed` what that comes to when the event ends. The
memory only grows, so what was remembered stays (`HasStays`). `FocusInv`: each list in use covers the newest
messages but for those stored since.

**`ProviderAuthProofs`**: `TypesKept`, `AccountStaysSignedIn`, `LogoutHolds` and `SessionIsHeld`, with and without rotation. The heart
is `TokenInv`: a token that a client is about to store is nowhere else, neither in the file nor in the hands of
a client that refreshes, so only who exchanged a token can have had it withdrawn, and that client is about to store
the next. `GoneInv` covers a client whose file was deleted under it.

**`RuntimeProofs`**: `SignedInHasKey` and `AllowedCanAnswer` are about `ProviderStatus` and `Preflight` alone, for every profile and
configuration of any size; then `TypesKept`, `StatusIsTold`, `AllowedIsAnswered`, `ConfirmedIsHandled` and
`Refinement` (of `UpdateDelivery`) for the runtime. `SeenInv` and `RunInv`
follow what a reconciliation and a process have read against what an edit overtook, or hid; `ThreadInv` says that the
position a thread polls from is behind what it handled. The refinement takes two more facts. `LifeInv`: no thread is there before
the process serves, and a plugin is stopped, and forgets its position, only after its thread was told to. `PlaceInv`: a thread
that waits for an answer has confirmed its position, and a batch that it handles ends at its position and lies behind
what is confirmed; so each place where a thread goes on is where it left off, or, once it was told to stop, behind what is
confirmed.

**`SharedFilesProofs`**: `FilesTypes`, `EditsAreKept`, `SecretsAreHeld` and `PagesAreChecked`. The invariant follows the copy that
a client holds of its file. `Upright`: a copy that is not stale, of a file of which nothing was lost, is what the
file would hold had no edits overlapped, and while its client is filling the file every other copy of it is stale. So two
such copies are never both written, and a text is only mixed with another by a client whose copy was old
(`MixedIsLost`). `NameInv` and `DoneInv` state about the history what `SecretsHold` states about the disk, with
the steps in between: a client that is about to record a secret has written its value, and one that found a value in
`bind_secret` found it in the history too. `Alone` says whose page is in the file of a check that no other
overlapped.

**`PluginStoreProofs`**: `StoreTypes`, `ListedPluginsAreWhole` and `LoadedPluginsAreOne`. Commands do not know of each other, so the
argument is about a directory in which they did not overlap: one command holds it at most (`SoleInv`), it works where its
repository's id puts it (`AimInv`), and it has done there what its place in its steps says (`WorkInv`): it began in a directory
that was gone, each file is missing or its own, and all are there before it signs. Hence the files of such a directory are of one
repository (`OneInv`), and what is listed is whole (`ListedIsWhole` is a part of the invariant, with `FromInv` that it names a
repository). `ReadInv` says that what a registry has read of a directory that nobody worked on since is still there, and
`LoadedIsOne` follows when the code is loaded.

**Only model-checked**: the liveness properties (`OnceEventuallyHandled`, `EventEnds`, `AnswerLands`, `SignalEnds` and
`UpdatesHandled`), since TLAPS has no support for them here. Every invariant and every refinement that a passing
run checks is also a theorem. The other way round, the runs `batch` and `auth` leave out `TypeOK`, which there says no more than
the types, and which the theorems have.

## 14. Files

| File | What |
|---|---|
| `JobLedger.tla`, `JobScheduler.tla` | abstract and detailed scheduler |
| `MCJobScheduler.tla`, `JobScheduler.cfg`, `JobCancelFinal.cfg` | its runs |
| `JobSchedulerProofs.tla` | its theorems |
| `ApprovalLedger.tla`, `ApprovalWorkflow.tla` | abstract and detailed approvals |
| `MCApprovalWorkflow.tla`, `Approval*.cfg` | its runs |
| `ApprovalProofs.tla` | its theorems |
| `Snapshots.tla`, `ToolBatch.tla` | backups, and the tool batches over them |
| `MCToolBatch.tla`, `ToolBatch.cfg` | their run |
| `ToolBatchProofs.tla` | their theorems |
| `SessionMemory.tla`, `AgentTurn.tla` | the session's memory, and the agent's turns over it |
| `MCAgentTurn.tla`, `AgentTurn.cfg`, `AgentTurnProofs.tla` | their run and theorems |
| `SharedFiles.tla`, `MCSharedFiles.tla`, `SharedFiles.cfg` | configuration, secrets, interactions |
| `SharedFilesProofs.tla` | their theorems |
| `ProviderStatus.tla`, `Preflight.tla` | inspection of a configuration |
| `UpdateDelivery.tla`, `RuntimeLifecycle.tla` | abstract delivery of updates, and the runtime process |
| `MCRuntimeLifecycle.tla`, `RuntimeLifecycle.cfg`, `RuntimeProofs.tla` | their run and theorems |
| `ProviderAuth.tla`, `MCProviderAuth.tla`, `ProviderAuth.cfg`, `AuthRepair.cfg` | accounts and their runs |
| `ProviderAuthProofs.tla` | their theorems |
| `PluginStore.tla`, `MCPluginStore.tla`, `PluginStore.cfg` | plugins |
| `PluginStoreProofs.tla` | their theorems |
| `PROJECT.json` | components, runs, mutants, source map, findings, hazards, theorems |

Definitions marked as drafts in a module's comments, and a few described as "one that ..." before the definition
they vary, are mutations of the one that follows them: with a draft in its place, the property named in
`PROJECT.json` fails.
