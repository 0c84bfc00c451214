------------------------------- MODULE Snapshots -------------------------------
(***************************************************************************)
(* BackupManager: snapshots of the workspace in a git repository of its    *)
(* own.  A snapshot copies the workspace into the repository's directory   *)
(* (the mirror), stages it, commits the index without a parent, names the  *)
(* commit by a ref, and writes a metadata file called after the commit.    *)
(* The directory, the index and the objects are shared by every thread and *)
(* process that takes or prunes snapshots; nothing locks them together.    *)
(*                                                                         *)
(* A commit is its content: two snapshots of one tree with one message in  *)
(* one second are one commit, with two refs and one metadata file.         *)
(*                                                                         *)
(* A snapshot copies the workspace to the mirror, and a restore copies a   *)
(* commit to the workspace, with one function, _sync_tree, which goes      *)
(* through both trees directory by directory.  It leaves a directory where *)
(* the source has a file of that name, and the file goes into it.          *)
(***************************************************************************)
EXTENDS Integers, FiniteSets

CONSTANTS
    Actors,         \* threads and processes that call tools
    Files,          \* paths in the workspace
    Folders,        \* those that may be directories
    Above,          \* Above[f]: the directories that f is in
    Inside,         \* Inside[d]: the path of the same name as d, in d
    Ignored,        \* the paths that a .gitignore of the workspace matches
    Values,         \* contents of files
    Absent,         \* "nothing there"
    Dir,            \* "a directory"
    Partial,        \* the content of a file that was truncated, and not yet or not fully written
    NoFile,
    NoCommit,
    Labels,         \* commit messages: reasons and labels
    MaxSnapshots,   \* bound: refs ever made
    MaxSecond       \* bound: seconds that pass

Data     == Values \cup {Partial}
Contents == Data \cup {Absent, Dir}

(* The paths below d, if d is in this path *)
Below(d) == {f \in Files : d \in Above[f]}

(* What the listing of a directory may show; NoFile stands for the root *)
In(d) == {f \in Files : Above[f] = IF d = NoFile THEN {} ELSE Above[d] \cup {d}}

ASSUME PathAssumption ==
    /\ Folders \subseteq Files
    /\ NoFile \notin Files
    /\ Above \in [Files -> SUBSET Folders]
    /\ \A f \in Files : f \notin Above[f] /\ \A d \in Above[f] : Above[d] \subseteq Above[f]
    /\ \A f \in Files : \A d \in Above[f] \cup {NoFile} : \E g \in In(d) : g = f \/ f \in Below(g)
    /\ Inside \in [Folders -> Files]
    /\ \A d \in Folders : Inside[d] \in In(d)
    /\ Ignored \subseteq Files
    /\ \A d \in Ignored : Below(d) \subseteq Ignored

ASSUME SnapshotAssumption ==
    /\ {Absent, Dir} \cap Data = {} /\ Absent # Dir
    /\ Partial \notin Values
    /\ MaxSnapshots \in Nat /\ MaxSecond \in Nat

(* What is in a directory is in a directory *)
Tree ==
    {tree \in [Files -> Contents] :
        \A f \in Files :
            /\ tree[f] # Absent => \A d \in Above[f] : tree[d] = Dir
            /\ tree[f] = Dir => f \in Folders}

Commit == [tree : Tree, second : 0..MaxSecond, label : Labels]

ASSUME CommitAssumption == NoCommit \notin Commit

Refs == 1..MaxSnapshots

(* A metadata file, found by its commit; ref 0 is a file without content *)
Metadata == [commit : Commit, ref : 0..MaxSnapshots]

VARIABLES
    disk,      \* the workspace
    mirror,    \* the working directory of the backup repository
    index,     \* its index
    commits,   \* the commits in its object database
    made,      \* refs made so far
    refs,      \* refs[n]: the commit that ref n was made for
    live,      \* the refs that exist
    meta,      \* the metadata files
    second,    \* the wall clock
    op         \* op[a]: the BackupManager call that actor a is in

store == <<mirror, index, commits, made, refs, live, meta>>

snapshotVars == <<disk, store, second, op>>

(* "done" and "failed" are calls that returned, or raised, but whose caller *)
(* has not gone on yet.                                                     *)
Op ==
    [step    : {"none", "done", "failed",
                "sweep", "list", "copy", "commit", "publish", "describe", "fill",
                "select", "unref", "forget",
                "archive"},
     kind    : {"none", "create", "prune", "restore"},
     label   : Labels,               \* a snapshot's message
     dir     : Files \cup {NoFile},  \* the directory being compared, NoFile for the root
     left    : SUBSET Files,         \* what is listed and still to copy
     open    : Files \cup {NoFile},  \* the file being copied
     into    : Files \cup {NoFile},  \* the path it is copied to, NoFile between two copies
     nested  : BOOLEAN,              \* history: a file went into a directory of its name
     commit  : Commit \cup {NoCommit},
     ref     : 0..MaxSnapshots,
     victims : SUBSET Metadata]      \* the snapshots still to prune, as they were listed

Blank(kind, step, label) ==
    [step |-> step, kind |-> kind, label |-> label, dir |-> NoFile, left |-> {},
     open |-> NoFile, into |-> NoFile, nested |-> FALSE,
     commit |-> NoCommit, ref |-> 0, victims |-> {}]

NoOp == Blank("none", "none", CHOOSE l \in Labels : TRUE)

----
(* Trees *)

NoTree == [f \in Files |-> Absent]

Blocked(tree, f) == \E d \in Above[f] : tree[d] \in Data

(* mkdir(parents=True) of what f is in, and then v at f *)
Put(tree, f, v) ==
    [g \in Files |-> IF g = f THEN v ELSE IF g \in Above[f] THEN Dir ELSE tree[g]]

(* unlink and rmtree *)
Without(tree, paths) ==
    [f \in Files |-> IF f \in paths \/ Above[f] \cap paths # {} THEN Absent ELSE tree[f]]

(* Draft: copies without removing *)
SweptNothing(target, source, d) == target

(* The first loop of _sync_tree: of each entry of the target's directory    *)
(* it asks only whether the source has something of that name.              *)
Swept(target, source, d) == Without(target, {f \in In(d) : source[f] = Absent})

(* git add -A: a directory is there for the files in it *)
Staged(tree) ==
    LET Kept(f) == f \notin Ignored /\ tree[f] \in Data IN
        [f \in Files |-> IF Kept(f) \/ \E g \in Below(f) : Kept(g) THEN tree[f] ELSE Absent]

----
At(a, step) == op[a].step = step

Goto(a, step) == op' = [op EXCEPT ![a].step = step]

----
SnapshotsInit ==
    /\ disk \in {tree \in Tree : \A f \in Files : tree[f] # Partial}
    /\ mirror = NoTree
    /\ index = NoTree
    /\ commits = {}
    /\ made = 0
    /\ refs = [n \in Refs |-> NoCommit]
    /\ live = {}
    /\ meta = {}
    /\ second = 0
    /\ op = [a \in Actors |-> NoOp]

(* _sync_tree *)

(* A snapshot copies from the workspace, a restore from what git archive gave *)
Source(a) == IF op[a].kind = "restore" THEN op[a].commit.tree ELSE disk
Target(a) == IF op[a].kind = "restore" THEN disk ELSE mirror

Write(a, tree) ==
    IF op[a].kind = "restore" THEN disk' = tree /\ UNCHANGED mirror
                              ELSE mirror' = tree /\ UNCHANGED disk

Sweep(a) ==
    /\ At(a, "sweep")
    /\ op[a].dir # NoFile => Target(a)[op[a].dir] = Dir
    /\ Write(a, Swept(Target(a), Source(a), op[a].dir))
    /\ Goto(a, "list")
    /\ UNCHANGED <<index, commits, made, refs, live, meta, second>>

List(a) ==
    /\ At(a, "list")
    /\ op[a].dir # NoFile => Source(a)[op[a].dir] = Dir
    /\ op' = [op EXCEPT ![a].step = "copy",
                        ![a].left = @ \cup {f \in In(op[a].dir) : Source(a)[f] # Absent}]
    /\ UNCHANGED <<disk, store, second>>

(* The next entry, in any order but that a directory is finished before *)
(* what it is in.                                                       *)
Turn(a, f) ==
    /\ At(a, "copy") /\ op[a].into = NoFile
    /\ f \in op[a].left
    /\ \A g \in op[a].left : Above[g] \subseteq Above[f]

(* A directory: a file in its place is removed *)
Enter(a) ==
    \E f \in Files :
        /\ Turn(a, f) /\ Source(a)[f] = Dir /\ ~Blocked(Target(a), f)
        /\ Write(a, Put(Target(a), f, Dir))
        /\ op' = [op EXCEPT ![a].step = "sweep", ![a].dir = f, ![a].left = @ \ {f}]
        /\ UNCHANGED <<index, commits, made, refs, live, meta, second>>

(* shutil.copy2 takes the path of a file, or of a directory to copy it to *)
Destination(tree, f) == IF tree[f] = Dir THEN Inside[f] ELSE f

CopyOpen(a) ==
    \E f \in Files :
        /\ Turn(a, f) /\ Source(a)[f] \in Data /\ ~Blocked(Target(a), f)
        /\ LET g == Destination(Target(a), f) IN
               /\ Target(a)[g] # Dir
               /\ Write(a, Put(Target(a), g, Partial))
               /\ op' = [op EXCEPT ![a].open = f, ![a].into = g, ![a].left = @ \ {f},
                                   ![a].nested = @ \/ g # f]
        /\ UNCHANGED <<index, commits, made, refs, live, meta, second>>

(* A file removed from the workspace since it was opened still has a        *)
(* content, which one the model has forgotten; one removed from the target  *)
(* stays gone.                                                              *)
CopyFill(a) ==
    /\ At(a, "copy") /\ op[a].into # NoFile
    /\ LET v == Source(a)[op[a].open]  g == op[a].into IN
           IF Target(a)[g] \in Data
           THEN \E w \in IF v \in Data THEN {v} ELSE Data : Write(a, Put(Target(a), g, w))
           ELSE UNCHANGED <<disk, mirror>>
    /\ op' = [op EXCEPT ![a].open = NoFile, ![a].into = NoFile]
    /\ UNCHANGED <<index, commits, made, refs, live, meta, second>>

(* A directory that is gone, on either side, when it is to be read; an      *)
(* entry that is gone when its turn comes, whose directory is made all the  *)
(* same; a file in the way of a directory above, or a directory in the way  *)
(* of a file that goes into one.                                            *)
SyncFails(a) ==
    /\ \/ /\ op[a].dir # NoFile
          /\ \/ At(a, "sweep") /\ Target(a)[op[a].dir] # Dir
             \/ At(a, "list") /\ Source(a)[op[a].dir] # Dir
          /\ UNCHANGED <<disk, mirror>>
       \/ \E f \in Files :
             /\ Turn(a, f)
             /\ IF Blocked(Target(a), f)
                THEN UNCHANGED <<disk, mirror>>
                ELSE /\ \/ Source(a)[f] = Absent
                        \/ /\ Source(a)[f] \in Data
                           /\ Target(a)[Destination(Target(a), f)] = Dir
                     /\ Write(a, Put(Target(a), f, Target(a)[f]))
    /\ Goto(a, "failed")
    /\ UNCHANGED <<index, commits, made, refs, live, meta, second>>

Copied(a) == At(a, "copy") /\ op[a].into = NoFile /\ op[a].left = {}

(* create_snapshot *)

(* Draft: stages while files are still to be copied *)
StageEarly(a) ==
    /\ op[a].kind = "create" /\ At(a, "copy") /\ op[a].into = NoFile
    /\ index' = Staged(mirror)
    /\ Goto(a, "commit")
    /\ UNCHANGED <<disk, mirror, commits, made, refs, live, meta, second>>

(* git add -A *)
Stage(a) ==
    /\ op[a].kind = "create" /\ Copied(a)
    /\ index' = Staged(mirror)
    /\ Goto(a, "commit")
    /\ UNCHANGED <<disk, mirror, commits, made, refs, live, meta, second>>

(* git write-tree and commit-tree *)
CommitIndex(a) ==
    /\ At(a, "commit")
    /\ LET c == [tree |-> index, second |-> second, label |-> op[a].label] IN
           /\ commits' = commits \cup {c}
           /\ op' = [op EXCEPT ![a].step = "publish", ![a].commit = c]
    /\ UNCHANGED <<disk, mirror, index, made, refs, live, meta, second>>

(* git update-ref, which refuses a commit that is not there *)
Publish(a) ==
    /\ At(a, "publish")
    /\ op[a].commit \in commits
    /\ made < MaxSnapshots
    /\ made' = made + 1
    /\ refs' = [refs EXCEPT ![made + 1] = op[a].commit]
    /\ live' = live \cup {made + 1}
    /\ op' = [op EXCEPT ![a].step = "describe", ![a].ref = made + 1]
    /\ UNCHANGED <<disk, mirror, index, commits, meta, second>>

WithoutMeta(c) == {m \in meta : m.commit # c}

(* _write_metadata: truncate, then fill *)
Describe(a) ==
    /\ At(a, "describe")
    /\ meta' = WithoutMeta(op[a].commit) \cup {[commit |-> op[a].commit, ref |-> 0]}
    /\ Goto(a, "fill")
    /\ UNCHANGED <<disk, mirror, index, commits, made, refs, live, second>>

(* A file unlinked since it was opened stays gone *)
Fill(a) ==
    /\ At(a, "fill")
    /\ meta' = IF \E m \in meta : m.commit = op[a].commit
               THEN WithoutMeta(op[a].commit)
                        \cup {[commit |-> op[a].commit, ref |-> op[a].ref]}
               ELSE meta
    /\ Goto(a, "done")
    /\ UNCHANGED <<disk, mirror, index, commits, made, refs, live, second>>

(* A git command fails (on the index lock of another, on a commit that was *)
(* collected, on a full disk) and raises.                                  *)
GitFails(a) ==
    /\ \/ op[a].step \in {"commit", "publish", "unref", "archive"}
       \/ op[a].kind = "create" /\ Copied(a)
    /\ Goto(a, "failed")
    /\ UNCHANGED <<disk, store, second>>

----
(* prune_snapshots *)

(* list_snapshots sorts by file name, which is the hash of the commit: any *)
(* "keep" of the snapshots may come first.                                 *)
Select(a, keep) ==
    /\ At(a, "select")
    /\ \A m \in meta : m.ref # 0
    /\ \E kept \in SUBSET meta :
           /\ IF Cardinality(meta) <= keep THEN kept = meta ELSE Cardinality(kept) = keep
           /\ op' = [op EXCEPT ![a].step = IF kept = meta THEN "done" ELSE "unref",
                               ![a].victims = meta \ kept]
    /\ UNCHANGED <<disk, store, second>>

(* A metadata file that does not parse, or that another prune removed since *)
(* it was listed, raises out of the listing                                 *)
SelectFails(a) ==
    /\ At(a, "select")
    /\ \/ \E m \in meta : m.ref = 0
       \/ \E b \in Actors : At(b, "forget")
    /\ Goto(a, "failed")
    /\ UNCHANGED <<disk, store, second>>

(* Draft: looks for a ref of the snapshot's id, and finds none *)
UnrefNothing(a) ==
    /\ At(a, "unref")
    /\ \E m \in op[a].victims :
           op' = [op EXCEPT ![a].step = "forget", ![a].commit = m.commit,
                            ![a].victims = @ \ {m}]
    /\ UNCHANGED <<disk, store, second>>

(* git update-ref -d, which is content with a ref that is gone already *)
Unref(a) ==
    /\ At(a, "unref")
    /\ \E m \in op[a].victims :
           /\ live' = live \ {m.ref}
           /\ op' = [op EXCEPT ![a].step = "forget", ![a].commit = m.commit,
                               ![a].victims = @ \ {m}]
    /\ UNCHANGED <<disk, mirror, index, commits, made, refs, meta, second>>

(* Draft: the metadata file stays *)
ForgetNothing(a) ==
    /\ At(a, "forget")
    /\ Goto(a, "unref")
    /\ UNCHANGED <<disk, store, second>>

Forget(a) ==
    /\ At(a, "forget")
    /\ meta' = WithoutMeta(op[a].commit)
    /\ Goto(a, "unref")
    /\ UNCHANGED <<disk, mirror, index, commits, made, refs, live, second>>

(* git gc --prune=now: a commit that no ref names is gone, one of a         *)
(* snapshot in the making too                                               *)
Collect(a) ==
    /\ At(a, "unref") /\ op[a].victims = {}
    /\ commits' = {c \in commits : \E n \in live : refs[n] = c}
    /\ Goto(a, "done")
    /\ UNCHANGED <<disk, mirror, index, made, refs, live, meta, second>>

----
(* restore_snapshot *)

(* git archive into a temporary directory *)
Archive(a) ==
    /\ At(a, "archive")
    /\ op[a].commit \in commits
    /\ Goto(a, "sweep")
    /\ UNCHANGED <<disk, store, second>>

Restored(a) ==
    /\ op[a].kind = "restore" /\ Copied(a)
    /\ Goto(a, "done")
    /\ UNCHANGED <<disk, store, second>>
=============================================================================
