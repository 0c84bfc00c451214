------------------------------- MODULE ToolBatch -------------------------------
(***************************************************************************)
(* ToolService.invoke_batch over the snapshots of BackupManager: the calls *)
(* of a model's answer are all prepared, one checkpoint of the workspace   *)
(* is taken if one of them that is to run needs it, and they are run in    *)
(* order; a call that must be approved first is queued instead, and comes  *)
(* back approved, in a batch of its own.  A call that fails does not stop  *)
(* the others; a checkpoint that fails stops them all.                     *)
(*                                                                         *)
(* Batches run in the transports' threads, in the scheduler's, and in      *)
(* "nagient tool invoke" processes, over one workspace and one backup      *)
(* repository.  A batch with a call that cannot be resolved raises before  *)
(* it changes anything, which is a step that leaves this state as it is.   *)
(***************************************************************************)
EXTENDS Snapshots, Sequences

CONSTANTS
    Batches,      \* the batches that may be asked for
    Keep,         \* how many snapshots a prune keeps
    CheckpointLabel, BackupLabel,   \* the reasons of the two kinds of snapshots
    MaxBatches,   \* bound: batches begun
    MaxCrashes    \* bound: deaths of the runtime

(* What becomes of a call, by function: the policy and the need of a        *)
(* checkpoint after the tool's own assessment of the risk, and whether a    *)
(* call that the user expects needs no approval.                            *)
FunctionSpec ==
    LET Function(policy, checkpoint, eager) ==
            [policy |-> policy, checkpoint |-> checkpoint, eager |-> eager]
    IN [read      |-> Function("never",    FALSE, FALSE),
        write     |-> Function("never",    TRUE,  FALSE),
        delete    |-> Function("required", TRUE,  FALSE),
        shell     |-> Function("never",    TRUE,  FALSE),
        readonly  |-> Function("never",    FALSE, FALSE),
        dangerous |-> Function("required", TRUE,  FALSE),
        git       |-> Function("required", FALSE, TRUE),
        revert    |-> Function("required", TRUE,  FALSE),
        backup    |-> Function("never",    FALSE, FALSE),
        prune     |-> Function("never",    FALSE, FALSE),
        restore   |-> Function("required", TRUE,  FALSE)]

Call == [fn : DOMAIN FunctionSpec, auto : BOOLEAN, expected : BOOLEAN, dry : BOOLEAN]

ASSUME BatchAssumption ==
    /\ Batches \subseteq Seq(Call)
    /\ Keep \in Nat \ {0}
    /\ {CheckpointLabel, BackupLabel} \subseteq Labels
    /\ MaxBatches \in Nat /\ MaxCrashes \in Nat

VARIABLES
    batch,     \* batch[a]: the batch that actor a is in
    batches,   \* batches begun
    crashes,
    origin,    \* history: the checkpoints taken of a workspace at rest, with that workspace
    pruned,    \* history: the snapshots that some prune chose to remove
    spoiled    \* history: the snapshots whose prune ended between its ref and its metadata

history == <<origin, pruned, spoiled>>

vars == <<snapshotVars, batch, batches, crashes, history>>

(* "alone" and "before" are history: the workspace as the batch, or a       *)
(* restore of a snapshot, found it, and whether nobody else changed it or   *)
(* took a snapshot since.                                                   *)
Batch ==
    [step   : {"idle", "checkpoint", "run", "call"},
     calls  : Seq(Call),
     next   : Nat \ {0},
     cp     : Commit \cup {NoCommit},
     before : Tree,
     alone  : BOOLEAN]

NoBatch ==
    [step |-> "idle", calls |-> <<>>, next |-> 1, cp |-> NoCommit,
     before |-> NoTree, alone |-> FALSE]

----
(* ApprovalPolicyEngine.decide *)
Policy(call) ==
    LET spec == FunctionSpec[call.fn] IN
        IF spec.policy = "required" /\ call.expected /\ spec.eager THEN "never" ELSE spec.policy

MustAsk(call) == Policy(call) = "required" /\ ~call.auto

NeedsCheckpoint(call) == FunctionSpec[call.fn].checkpoint /\ ~call.dry /\ ~MustAsk(call)

(* Draft: "and" for "or" in the loop over the calls *)
CheckpointRequiredByAll(calls) == \A i \in DOMAIN calls : NeedsCheckpoint(calls[i])

CheckpointRequired(calls) == \E i \in DOMAIN calls : NeedsCheckpoint(calls[i])

Creating(a) == op[a].kind = "create"

(* Others who are in a checkpoint or in a restore are not alone any more *)
Disturbed(a) ==
    [b \in Actors |-> IF b = a THEN batch[b] ELSE [batch[b] EXCEPT !.alone = FALSE]]

----
Init ==
    /\ SnapshotsInit
    /\ batch = [a \in Actors |-> NoBatch]
    /\ batches = 0
    /\ crashes = 0
    /\ origin = {}
    /\ pruned = {}
    /\ spoiled = {}

(* invoke_batch: prepare the calls, and begin the checkpoint *)
Begin(a) ==
    /\ batch[a].step = "idle"
    /\ batches < MaxBatches
    /\ batches' = batches + 1
    /\ \E calls \in Batches :
           LET begun == [NoBatch EXCEPT !.calls = calls, !.before = disk,
                                        !.alone = \A b \in Actors : ~Creating(b)]
           IN IF CheckpointRequired(calls)
              THEN /\ op' = [op EXCEPT ![a] = Blank("create", "sweep", CheckpointLabel)]
                   /\ batch' = [Disturbed(a) EXCEPT ![a] = [begun EXCEPT !.step = "checkpoint"]]
              ELSE /\ batch' = [batch EXCEPT ![a] = [begun EXCEPT !.step = "run"]]
                   /\ UNCHANGED op
    /\ UNCHANGED <<disk, store, second, crashes, history>>

Checkpointed(a) ==
    /\ batch[a].step = "checkpoint" /\ At(a, "done")
    /\ batch' = [batch EXCEPT ![a].step = "run", ![a].cp = op[a].commit]
    /\ op' = [op EXCEPT ![a] = NoOp]
    /\ origin' = IF batch[a].alone
                 THEN origin \cup {[commit |-> op[a].commit, tree |-> batch[a].before,
                                     nested |-> op[a].nested]}
                 ELSE origin
    /\ UNCHANGED <<disk, store, second, batches, crashes, pruned, spoiled>>

(* Every call of the batch is answered as failed *)
CheckpointFailed(a) ==
    /\ batch[a].step = "checkpoint" /\ At(a, "failed")
    /\ batch' = [batch EXCEPT ![a] = NoBatch]
    /\ op' = [op EXCEPT ![a] = NoOp]
    /\ UNCHANGED <<disk, store, second, batches, crashes, history>>

----
(* The calls of the batch, in order *)

HasCall(a) == batch[a].step = "run" /\ batch[a].next \in DOMAIN batch[a].calls

NextCall(a) == batch[a].calls[batch[a].next]

Advanced(a) == [batch EXCEPT ![a].next = @ + 1]

(* The call is queued for approval *)
Ask(a) ==
    /\ HasCall(a) /\ MustAsk(NextCall(a))
    /\ batch' = Advanced(a)
    /\ UNCHANGED <<snapshotVars, batches, crashes, history>>

Runs(a, fns) == HasCall(a) /\ ~MustAsk(NextCall(a)) /\ NextCall(a).fn \in fns

(* A function that changes nothing, a dry run of one that would, or one     *)
(* that raises; or a command ends, is refused, or runs out of time          *)
RunNothing(a) ==
    /\ Runs(a, DOMAIN FunctionSpec)
    /\ batch' = Advanced(a)
    /\ UNCHANGED <<snapshotVars, batches, crashes, history>>

(* What one change may make of the workspace *)

Writes ==
    {Put(disk, f, v) : f \in {g \in Files : ~Blocked(disk, g) /\ disk[g] # Dir}, v \in Data}

NewFolders ==
    {Put(disk, f, Dir) : f \in {g \in Folders : ~Blocked(disk, g) /\ disk[g] = Absent}}

Removals == {Without(disk, {f}) : f \in Files}

(* A file is written, with the directories it is in, or half of it before   *)
(* the function raises; or a file or a directory is removed                 *)
RunEdit(a) ==
    /\ Runs(a, {"write", "delete"}) /\ ~NextCall(a).dry
    /\ disk' \in IF NextCall(a).fn = "write" THEN Writes ELSE Removals
    /\ batch' = [Disturbed(a) EXCEPT ![a].next = @ + 1]
    /\ UNCHANGED <<store, second, op, batches, crashes, history>>

(* A command of the workspace makes change after change while others go on; *)
(* RunNothing is its end.                                                   *)
Changes(a) ==
    /\ ~NextCall(a).dry
    /\ disk' \in Writes \cup NewFolders \cup Removals
    /\ batch' = Disturbed(a)
    /\ UNCHANGED <<store, second, op, batches, crashes, history>>

(* A shell command; that it is read-only is what its caller says *)
RunShell(a) == Runs(a, {"shell", "readonly", "dangerous"}) /\ Changes(a)

(* git restore of a path, clone, pull, or another command of git *)
RunGit(a) == Runs(a, {"revert", "git"}) /\ Changes(a)

(* The tools of the backup plugin do not look at dry_run *)
RunBackup(a) ==
    /\ Runs(a, {"backup"})
    /\ op' = [op EXCEPT ![a] = Blank("create", "sweep", BackupLabel)]
    /\ batch' = [Disturbed(a) EXCEPT ![a].step = "call"]
    /\ UNCHANGED <<disk, store, second, batches, crashes, history>>

RunPrune(a) ==
    /\ Runs(a, {"prune"})
    /\ op' = [op EXCEPT ![a] = Blank("prune", "select", CheckpointLabel)]
    /\ batch' = [batch EXCEPT ![a].step = "call"]
    /\ UNCHANGED <<disk, store, second, batches, crashes, history>>

(* The snapshots whose ids somebody may have: of checkpoints and backups *)
Known == commits \cup {m.commit : m \in meta}

StartRestore(a) ==
    \E c \in Known : op' = [op EXCEPT ![a] = [Blank("restore", "archive", c.label)
                                                  EXCEPT !.commit = c]]

RunRestore(a) ==
    /\ Runs(a, {"restore"})
    /\ StartRestore(a)
    /\ batch' = [Disturbed(a) EXCEPT ![a].step = "call", ![a].alone = TRUE]
    /\ UNCHANGED <<disk, store, second, batches, crashes, history>>

Returned(a) ==
    /\ batch[a].step = "call" /\ op[a].step \in {"done", "failed"}
    /\ batch' = [batch EXCEPT ![a].step = "run", ![a].next = @ + 1]
    /\ op' = [op EXCEPT ![a] = NoOp]
    /\ UNCHANGED <<disk, store, second, batches, crashes, history>>

End(a) ==
    /\ batch[a].step = "run" /\ ~HasCall(a)
    /\ batch' = [batch EXCEPT ![a] = NoBatch]
    /\ UNCHANGED <<snapshotVars, batches, crashes, history>>

(* The workflow action "backup.restore" of an approved request: a restore   *)
(* without a batch, and so without a checkpoint                             *)
Rollback(a) ==
    /\ batch[a].step = "idle"
    /\ batches < MaxBatches
    /\ batches' = batches + 1
    /\ StartRestore(a)
    /\ batch' = [Disturbed(a) EXCEPT ![a] = [NoBatch EXCEPT !.step = "call", !.alone = TRUE]]
    /\ UNCHANGED <<disk, store, second, crashes, history>>

----
(* The steps inside BackupManager *)

SyncStep(a) ==
    /\ Sweep(a) \/ List(a) \/ Enter(a) \/ CopyOpen(a) \/ CopyFill(a) \/ SyncFails(a)
    /\ batch' = IF op[a].kind = "restore" THEN Disturbed(a) ELSE batch
    /\ UNCHANGED <<batches, crashes, history>>

CreateStep(a) ==
    /\ Stage(a) \/ CommitIndex(a) \/ Publish(a) \/ Describe(a) \/ Fill(a)
    /\ UNCHANGED <<batch, batches, crashes, history>>

FailStep(a) ==
    /\ GitFails(a) \/ SelectFails(a)
    /\ UNCHANGED <<batch, batches, crashes, history>>

SelectStep(a) ==
    /\ Select(a, Keep)
    /\ pruned' = pruned \cup {m.commit : m \in op'[a].victims}
    /\ UNCHANGED <<batch, batches, crashes, origin, spoiled>>

PruneStep(a) ==
    /\ Unref(a) \/ Forget(a) \/ Collect(a)
    /\ UNCHANGED <<batch, batches, crashes, history>>

RestoreStep(a) ==
    /\ Archive(a) \/ Restored(a)
    /\ UNCHANGED <<batch, batches, crashes, history>>

Work(a) ==
    \/ Begin(a) \/ Rollback(a) \/ Checkpointed(a) \/ CheckpointFailed(a)
    \/ Ask(a) \/ RunNothing(a) \/ RunEdit(a) \/ RunShell(a) \/ RunGit(a)
    \/ RunBackup(a) \/ RunPrune(a) \/ RunRestore(a) \/ Returned(a) \/ End(a)
    \/ SyncStep(a) \/ CreateStep(a) \/ FailStep(a) \/ SelectStep(a) \/ PruneStep(a)
    \/ RestoreStep(a)

(* The runtime dies, with all its threads *)
Crash ==
    /\ crashes < MaxCrashes
    /\ crashes' = crashes + 1
    /\ spoiled' = spoiled \cup {op[a].commit : a \in {b \in Actors : At(b, "forget")}}
    /\ op' = [a \in Actors |-> NoOp]
    /\ batch' = [a \in Actors |-> NoBatch]
    /\ UNCHANGED <<disk, store, second, batches, origin, pruned>>

Tick ==
    /\ second < MaxSecond
    /\ second' = second + 1
    /\ UNCHANGED <<disk, store, op, batch, batches, crashes, history>>

Next == (\E a \in Actors : Work(a)) \/ Crash \/ Tick

Spec == Init /\ [][Next]_vars

----
TypeOK ==
    /\ disk \in Tree /\ mirror \in Tree /\ index \in Tree
    /\ commits \subseteq Commit
    /\ made \in 0..MaxSnapshots
    /\ refs \in [Refs -> Commit \cup {NoCommit}]
    /\ live \subseteq 1..made
    /\ meta \subseteq Metadata
    /\ second \in 0..MaxSecond
    /\ op \in [Actors -> Op]
    /\ batch \in [Actors -> Batch]
    /\ batches \in 0..MaxBatches /\ crashes \in 0..MaxCrashes
    /\ origin \subseteq [commit : Commit, tree : Tree, nested : BOOLEAN]
    /\ pruned \subseteq Commit /\ spoiled \subseteq Commit

(* The files that a snapshot is to keep *)
Saved(tree) ==
    [f \in Files \ Ignored |-> IF tree[f] \in Data THEN tree[f] ELSE Absent]

(* A checkpoint that was taken while nobody else changed the workspace or  *)
(* took a snapshot holds the files of the workspace as the batch found it, *)
(* but for what git ignores: whatever earlier snapshots left in the mirror *)
(* and in the index, those that failed or died in the middle too; and      *)
(* unless a file took the place of a directory that the mirror still had.  *)
CheckpointFaithful ==
    \A o \in origin : ~o.nested => Saved(o.commit.tree) = Saved(o.tree)

UndisturbedRestore(a) == op[a].kind = "restore" /\ At(a, "done") /\ batch[a].alone

(* A restore that nobody disturbed brings back the files of the workspace  *)
(* that the checkpoint was taken of, but for what git ignores, whoever     *)
(* took it and whatever was written, added and removed since; unless a     *)
(* file of the snapshot has become a directory, or had taken the place of  *)
(* one in the checkpoint.                                                  *)
RollbackReturns ==
    \A a \in Actors, o \in origin :
        UndisturbedRestore(a) /\ ~op[a].nested /\ o.commit = op[a].commit /\ ~o.nested
            => Saved(disk) = Saved(o.tree)

(* Each call of a running batch that is yet to run, and needs a checkpoint, *)
(* has one; and that can be restored, as long as no prune chose it.         *)
CheckpointHeld ==
    \A a \in Actors :
        /\ batch[a].step = "run"
        /\ \E i \in DOMAIN batch[a].calls : i >= batch[a].next /\ NeedsCheckpoint(batch[a].calls[i])
        => batch[a].cp \in commits \cup (pruned \ {NoCommit})

(* What the list shows can be restored, but for snapshots whose prune is,  *)
(* or ended, half done: although another actor's prune collects every      *)
(* commit without a ref, and may do so in the middle of this snapshot.     *)
ListedRestorable ==
    \A m \in meta :
        \/ m.commit \in commits
        \/ m.commit \in spoiled
        \/ \E a \in Actors : At(a, "forget") /\ op[a].commit = m.commit

(* Without a death, a ref that no metadata file names, and that no prune    *)
(* will therefore find, belongs to a snapshot still being taken, or to a    *)
(* commit that was taken twice.                                             *)
NoLostRefs ==
    crashes = 0 =>
        \A n \in live :
            \/ [commit |-> refs[n], ref |-> n] \in meta
            \/ \E a \in Actors : op[a].step \in {"describe", "fill"} /\ op[a].ref = n
            \/ \E k \in (1..made) \ {n} : refs[k] = refs[n]
=============================================================================
