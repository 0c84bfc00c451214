---------------------------- MODULE ToolBatchProofs ----------------------------
(***************************************************************************)
(* Proofs about ToolBatch and Snapshots, for every set of actors, files    *)
(* and batches and all bounds: type correctness, and the invariants        *)
(* CheckpointFaithful, RollbackReturns, CheckpointHeld, ListedRestorable   *)
(* and NoLostRefs.                                                         *)
(*                                                                         *)
(* Two arguments meet.  One is about names: a ref is made once, and nobody *)
(* but its maker can know it before its metadata file is filled; so no     *)
(* prune removes the ref of a snapshot that is being made, and what is     *)
(* listed, or held as a checkpoint, has a ref of its commit until a prune  *)
(* chose it.  The other is about content: while an actor is alone in its   *)
(* checkpoint, the mirror, then the index, then the commit agree with the  *)
(* workspace it began with, whatever was left in them before: each path is *)
(* what its source is, or _sync_tree is still to come to it or to what it  *)
(* is in.                                                                  *)
(***************************************************************************)
EXTENDS ToolBatch, TLAPS

StepsOf(kind) ==
    CASE kind = "none"    -> {"none"}
      [] kind = "create"  -> {"sweep", "list", "copy", "commit", "publish", "describe", "fill",
                              "done", "failed"}
      [] kind = "prune"   -> {"select", "unref", "forget", "done", "failed"}
      [] kind = "restore" -> {"archive", "sweep", "list", "copy", "done", "failed"}

Kind(a) ==
    /\ op[a].step \in StepsOf(op[a].kind)
    /\ batch[a].step \in {"idle", "run"} => op[a].kind = "none"
    /\ batch[a].step = "checkpoint" => op[a].kind = "create"
    /\ op[a].kind = "restore" => op[a].commit \in Commit
    /\ Creating(a) /\ op[a].step \in {"publish", "describe", "fill", "done"}
           => op[a].commit \in Commit
    /\ At(a, "forget") => op[a].commit \in Commit

KindInv == \A a \in Actors : Kind(a)

----
(* Names *)

Making(a) == op[a].step \in {"describe", "fill"}

LiveInv == \A n \in live : refs[n] \in commits

MakerInv ==
    /\ \A a \in Actors : Making(a) => op[a].ref \in live /\ refs[op[a].ref] = op[a].commit
    /\ \A a, b \in Actors : a # b /\ Making(a) /\ Making(b) => op[a].ref # op[b].ref

(* The ref of a listed snapshot, in its file or in a prune's copy *)
Listed(m) ==
    /\ m.ref \in 1..made
    /\ refs[m.ref] = m.commit
    /\ \A a \in Actors : Making(a) => op[a].ref # m.ref

NamedInv == \A m \in meta : m.ref # 0 => Listed(m)

VictimInv ==
    \A a \in Actors : \A m \in op[a].victims : Listed(m) /\ m.commit \in pruned

ForgetInv ==
    \A a \in Actors :
        At(a, "forget") => \E k \in (1..made) \ live : refs[k] = op[a].commit

Anchored(c) == \E n \in live : refs[n] = c

ListInv ==
    \A m \in meta :
        \/ Anchored(m.commit)
        \/ m.commit \in spoiled
        \/ \E a \in Actors : At(a, "forget") /\ op[a].commit = m.commit

(* The metadata file of a snapshot in the making went away: a prune had     *)
(* listed another snapshot of the commit.                                   *)
UnlinkInv ==
    \A a \in Actors :
        At(a, "fill") /\ WithoutMeta(op[a].commit) = meta
            => \E k \in 1..made : k # op[a].ref /\ refs[k] = op[a].commit

Kept(c) == c \in pruned \/ Anchored(c)

Held(a) ==
    /\ Creating(a) /\ op[a].step \in {"describe", "fill", "done"} => Kept(op[a].commit)
    /\ batch[a].cp # NoCommit => Kept(batch[a].cp)
    /\ batch[a].step \in {"run", "call"} /\ CheckpointRequired(batch[a].calls)
           => batch[a].cp # NoCommit

HeldInv == \A a \in Actors : Held(a)

----
(* Contents *)

(* What the copy r has still to come to *)
Waiting(r, f) ==
    \/ f \in r.left \/ f = r.open \/ Above[f] \cap r.left # {}
    \/ r.step \in {"sweep", "list"} /\ r.dir \in Above[f] \cup {NoFile}

SyncSteps == {"sweep", "list", "copy"}

(* The copy r of S to T, of which nobody else changes either *)
Agrees(r, S, T) ==
    r.step \in SyncSteps /\ ~r.nested =>
        /\ \A f \in Files : Waiting(r, f) \/ T[f] = S[f]
        /\ \A f \in r.left : S[f] # Absent
        /\ r.step = "list" => \A f \in In(r.dir) : S[f] = Absent => T[f] = Absent
        /\ r.into = r.open
        /\ r.step # "copy" => r.open = NoFile
        /\ r.open # NoFile => S[r.open] \in Data /\ T[r.open] \in Data

Shot(a) ==
    batch[a].step = "checkpoint" /\ batch[a].alone =>
        /\ \A b \in Actors : b # a => ~Creating(b)
        /\ disk = batch[a].before
        /\ Agrees(op[a], disk, mirror)
        /\ At(a, "commit") /\ ~op[a].nested => index = Staged(disk)
        /\ op[a].step \in {"publish", "describe", "fill", "done"} /\ ~op[a].nested
               => op[a].commit.tree = Staged(disk)

ShotInv == \A a \in Actors : Shot(a)

Extracting(a) ==
    op[a].kind = "restore" =>
        /\ At(a, "archive") => op[a].dir = NoFile /\ op[a].left = {} /\ op[a].open = NoFile
                               /\ op[a].into = NoFile
        /\ batch[a].alone =>
               /\ Agrees(op[a], op[a].commit.tree, disk)
               /\ At(a, "done") /\ ~op[a].nested => disk = op[a].commit.tree

RestoreInv == \A a \in Actors : Extracting(a)

NamesInv ==
    /\ LiveInv
    /\ MakerInv
    /\ NamedInv
    /\ VictimInv
    /\ ForgetInv
    /\ ListInv
    /\ UnlinkInv
    /\ NoLostRefs

ContentsInv ==
    /\ ShotInv
    /\ RestoreInv
    /\ CheckpointFaithful

IInv ==
    /\ TypeOK
    /\ KindInv
    /\ NamesInv
    /\ HeldInv
    /\ ContentsInv

----
(* Trees *)

LEMMA NoTreeType == NoTree \in Tree
BY SnapshotAssumption DEF NoTree, Tree, Contents

LEMMA WithoutType ==
    ASSUME NEW tree \in Tree, NEW paths
    PROVE  /\ Without(tree, paths) \in Tree
           /\ \A f \in paths \cap Files : Without(tree, paths)[f] = Absent
           /\ \A f \in Files : f \in paths \/ Above[f] \cap paths # {}
                                \/ Without(tree, paths)[f] = tree[f]
<1> DEFINE cut == Without(tree, paths)
<1>1. /\ cut \in [Files -> Contents]
      /\ \A f \in Files :
             \/ cut[f] = Absent
             \/ cut[f] = tree[f] /\ f \notin paths /\ Above[f] \cap paths = {}
  BY DEF Without, Tree, Contents
<1>2. ASSUME NEW f \in Files, cut[f] # Absent, NEW d \in Above[f]
      PROVE  cut[d] = Dir
  <2>1. d \in Files /\ d \notin paths /\ Above[d] \cap paths = {} /\ tree[f] # Absent
    BY <1>1, <1>2, PathAssumption
  <2>2. tree[d] = Dir
    BY <2>1 DEF Tree
  <2> QED
    BY <2>1, <2>2 DEF Without
<1>3. ASSUME NEW f \in Files, cut[f] = Dir
      PROVE  f \in Folders
  BY <1>1, <1>3, SnapshotAssumption DEF Tree
<1>4. cut \in Tree
  BY <1>1, <1>2, <1>3 DEF Tree
<1> QED
  BY <1>4 DEF Without

LEMMA PutType ==
    ASSUME NEW tree \in Tree, NEW f \in Files, NEW v \in Contents,
           tree[f] = Dir => v = Dir, v = Dir => f \in Folders
    PROVE  /\ Put(tree, f, v) \in Tree
           /\ Put(tree, f, v)[f] = v
           /\ \A d \in Above[f] : Put(tree, f, v)[d] = Dir
           /\ \A g \in Files : g # f /\ g \notin Above[f] => Put(tree, f, v)[g] = tree[g]
<1> DEFINE new == Put(tree, f, v)
<1>1. f \notin Above[f] /\ Above[f] \subseteq Folders /\ Folders \subseteq Files
  BY PathAssumption
<1>2. /\ new \in [Files -> Contents]
      /\ new[f] = v
      /\ \A d \in Above[f] : new[d] = Dir
      /\ \A g \in Files : g # f /\ g \notin Above[f] => new[g] = tree[g]
  BY <1>1 DEF Put, Tree, Contents
<1> HIDE DEF new
<1>3. ASSUME NEW g \in Files, new[g] # Absent, NEW d \in Above[g]
      PROVE  new[d] = Dir
  <2>1. d \in Files /\ d # g /\ Above[d] \subseteq Above[g]
    BY PathAssumption
  <2>2. CASE g = f \/ g \in Above[f]
    BY <1>2, <2>2, PathAssumption
  <2>3. CASE g # f /\ g \notin Above[f]
    <3>1. tree[d] = Dir
      BY <1>2, <1>3, <2>3 DEF Tree
    <3> QED
      BY <1>2, <2>1, <3>1
  <2> QED
    BY <2>2, <2>3
<1>4. ASSUME NEW g \in Files, new[g] = Dir
      PROVE  g \in Folders
  BY <1>1, <1>2, <1>4 DEF Tree
<1>5. new \in Tree
  BY <1>2, <1>3, <1>4 DEF Tree
<1> QED
  BY <1>2, <1>5 DEF new

LEMMA StagedType ==
    ASSUME NEW tree \in Tree
    PROVE  /\ Staged(tree) \in Tree
           /\ Saved(Staged(tree)) = Saved(tree)
<1> DEFINE Stored(f) == f \notin Ignored /\ tree[f] \in Data
           staged == Staged(tree)
<1>1. /\ staged \in [Files -> Contents]
      /\ \A f \in Files :
             \/ staged[f] = tree[f] /\ (Stored(f) \/ \E g \in Below(f) : Stored(g))
             \/ staged[f] = Absent /\ ~Stored(f)
  BY DEF Staged, Tree, Contents
<1>2. ASSUME NEW f \in Files, staged[f] # Absent, NEW d \in Above[f]
      PROVE  staged[d] = Dir
  <2>1. d \in Files /\ tree[d] = Dir
    BY <1>1, <1>2, PathAssumption DEF Tree
  <2>2. PICK g \in Files : Stored(g) /\ (g = f \/ g \in Below(f))
    BY <1>1, <1>2 DEF Below
  <2>3. g \in Below(d)
    BY <2>2, PathAssumption DEF Below
  <2> QED
    BY <2>1, <2>2, <2>3 DEF Staged
<1>3. ASSUME NEW f \in Files, staged[f] = Dir
      PROVE  f \in Folders
  BY <1>1, <1>3, SnapshotAssumption DEF Tree
<1>4. staged \in Tree
  BY <1>1, <1>2, <1>3 DEF Tree
<1>5. ASSUME NEW f \in Files \ Ignored
      PROVE  (staged[f] \in Data => staged[f] = tree[f]) /\ (tree[f] \in Data => staged[f] = tree[f])
  BY <1>1, SnapshotAssumption
<1> QED
  BY <1>4, <1>5 DEF Saved

----
(* Types *)

LEMMA NoOpType ==
    /\ NoOp \in Op
    /\ NoOp.kind = "none" /\ NoOp.step = "none" /\ NoOp.victims = {}
<1>1. (CHOOSE l \in Labels : TRUE) \in Labels
  BY BatchAssumption
<1> QED
  BY <1>1, SnapshotAssumption DEF NoOp, Blank, Op

LEMMA BlankType ==
    ASSUME NEW kind \in {"create", "prune", "restore"},
           NEW step \in {"sweep", "select", "archive"}, NEW label \in Labels
    PROVE  /\ Blank(kind, step, label) \in Op
           /\ Blank(kind, step, label).kind = kind
           /\ Blank(kind, step, label).step = step
           /\ Blank(kind, step, label).victims = {}
           /\ Blank(kind, step, label).dir = NoFile /\ Blank(kind, step, label).left = {}
           /\ Blank(kind, step, label).open = NoFile /\ Blank(kind, step, label).into = NoFile
BY SnapshotAssumption DEF Blank, Op

LEMMA NoBatchType ==
    /\ NoBatch \in Batch
    /\ NoBatch.step = "idle" /\ NoBatch.cp = NoCommit /\ NoBatch.alone = FALSE
<1>1. NoTree \in Tree
  BY NoTreeType
<1> QED
  BY <1>1 DEF NoBatch, Batch

LEMMA DisturbedType ==
    ASSUME batch \in [Actors -> Batch], NEW a \in Actors
    PROVE  /\ Disturbed(a) \in [Actors -> Batch]
           /\ Disturbed(a)[a] = batch[a]
           /\ \A b \in Actors : b # a =>
                  /\ ~Disturbed(a)[b].alone
                  /\ Disturbed(a)[b].step = batch[b].step
                  /\ Disturbed(a)[b].calls = batch[b].calls
                  /\ Disturbed(a)[b].next = batch[b].next
                  /\ Disturbed(a)[b].cp = batch[b].cp
                  /\ Disturbed(a)[b].before = batch[b].before
BY DEF Disturbed, Batch

LEMMA GotoType ==
    ASSUME op \in [Actors -> Op], NEW a \in Actors,
           NEW s \in {"done", "failed", "sweep", "list", "commit", "publish", "fill", "unref"},
           Goto(a, s)
    PROVE  /\ op' \in [Actors -> Op]
           /\ op'[a] = [op[a] EXCEPT !.step = s]
           /\ \A b \in Actors : b # a => op'[b] = op[b]
           /\ op'[a].step = s /\ op'[a].kind = op[a].kind /\ op'[a].label = op[a].label
           /\ op'[a].dir = op[a].dir /\ op'[a].left = op[a].left
           /\ op'[a].open = op[a].open /\ op'[a].into = op[a].into
           /\ op'[a].nested = op[a].nested
           /\ op'[a].commit = op[a].commit /\ op'[a].ref = op[a].ref
           /\ op'[a].victims = op[a].victims
BY DEF Goto, Op

LEMMA OpUpdate ==
    ASSUME op \in [Actors -> Op], NEW a \in Actors, NEW r \in Op,
           op' = [op EXCEPT ![a] = r]
    PROVE  /\ op' \in [Actors -> Op]
           /\ op'[a] = r
           /\ \A b \in Actors : b # a => op'[b] = op[b]
OBVIOUS

LEMMA KindOfStep ==
    ASSUME TypeOK, KindInv, NEW a \in Actors
    PROVE  /\ op[a].step \in {"sweep", "list", "copy"} => op[a].kind \in {"create", "restore"}
           /\ op[a].step \in {"commit", "publish", "describe", "fill"} => op[a].kind = "create"
           /\ op[a].step \in {"select", "unref", "forget"} => op[a].kind = "prune"
           /\ op[a].step = "archive" => op[a].kind = "restore"
           /\ op[a].step = "none" => op[a].kind = "none"
<1>1. op[a].step \in StepsOf(op[a].kind) /\ op[a].kind \in {"none", "create", "prune", "restore"}
  BY DEF TypeOK, KindInv, Kind, Op
<1>2. CASE op[a].kind = "none"
  BY <1>1, <1>2 DEF StepsOf
<1>3. CASE op[a].kind = "create"
  BY <1>1, <1>3 DEF StepsOf
<1>4. CASE op[a].kind = "prune"
  BY <1>1, <1>4 DEF StepsOf
<1>5. CASE op[a].kind = "restore"
  BY <1>1, <1>5 DEF StepsOf
<1> QED
  BY <1>1, <1>2, <1>3, <1>4, <1>5

LEMMA SweptType ==
    ASSUME NEW S \in Tree, NEW T \in Tree, NEW d \in Files \cup {NoFile}
    PROVE  /\ Swept(T, S, d) \in Tree
           /\ \A f \in In(d) : S[f] = Absent => Swept(T, S, d)[f] = Absent
           /\ \A f \in Files : d = NoFile \/ d \in Above[f] \/ Swept(T, S, d)[f] = T[f]
<1> DEFINE paths == {f \in In(d) : S[f] = Absent}
<1>1. Swept(T, S, d) = Without(T, paths) /\ paths \subseteq Files
  BY DEF Swept, In
<1>2. ASSUME NEW f \in Files, d # NoFile, d \notin Above[f]
      PROVE  f \notin paths /\ Above[f] \cap paths = {}
  BY <1>2, PathAssumption DEF In
<1> HIDE DEF paths
<1>3. /\ Swept(T, S, d) \in Tree
      /\ \A f \in paths : Swept(T, S, d)[f] = Absent
      /\ \A f \in Files : d = NoFile \/ d \in Above[f] \/ Swept(T, S, d)[f] = T[f]
  BY <1>1, <1>2, WithoutType
<1> QED
  BY <1>3 DEF paths

LEMMA SourceTarget ==
    ASSUME TypeOK, KindInv, NEW a \in Actors
    PROVE  Source(a) \in Tree /\ Target(a) \in Tree
BY DEF Source, Target, TypeOK, KindInv, Kind, Commit

(* What the steps of _sync_tree do to the call of their actor *)
Others(a) == \A b \in Actors : b # a => op'[b] = op[b]

SyncFrame(a) ==
    /\ op' \in [Actors -> Op] /\ Others(a)
    /\ op'[a].kind = op[a].kind /\ op'[a].commit = op[a].commit /\ op'[a].ref = op[a].ref
    /\ op'[a].victims = op[a].victims

LEMMA SweepEffect ==
    ASSUME TypeOK, KindInv, NEW a \in Actors, Sweep(a)
    PROVE  /\ SyncFrame(a)
           /\ op[a].step = "sweep" /\ op'[a].step = "list"
           /\ Write(a, Swept(Target(a), Source(a), op[a].dir))
           /\ Swept(Target(a), Source(a), op[a].dir) \in Tree
           /\ op'[a].dir = op[a].dir /\ op'[a].left = op[a].left /\ op'[a].open = op[a].open
           /\ op'[a].into = op[a].into /\ op'[a].nested = op[a].nested
<1>1. op[a].dir \in Files \cup {NoFile} /\ op \in [Actors -> Op]
  BY DEF TypeOK, Op
<1>2. Swept(Target(a), Source(a), op[a].dir) \in Tree
  BY <1>1, SourceTarget, SweptType
<1>3. Goto(a, "list") /\ op[a].step = "sweep"
      /\ Write(a, Swept(Target(a), Source(a), op[a].dir))
  BY DEF Sweep, At
<1> QED
  BY <1>1, <1>2, <1>3, GotoType DEF SyncFrame, Others

LEMMA ListEffect ==
    ASSUME TypeOK, NEW a \in Actors, List(a)
    PROVE  /\ SyncFrame(a)
           /\ op[a].step = "list" /\ op'[a].step = "copy"
           /\ UNCHANGED <<disk, mirror>>
           /\ op'[a].left = op[a].left \cup {f \in In(op[a].dir) : Source(a)[f] # Absent}
           /\ op'[a].dir = op[a].dir /\ op'[a].open = op[a].open
           /\ op'[a].into = op[a].into /\ op'[a].nested = op[a].nested
<1> DEFINE q == op[a]
           left == q.left \cup {f \in In(q.dir) : Source(a)[f] # Absent}
<1>1. op' = [op EXCEPT ![a] = [q EXCEPT !.step = "copy", !.left = left]]
  BY DEF List, TypeOK, Op
<1>2. q \in Op /\ left \in SUBSET Files /\ q.step = "list" /\ UNCHANGED <<disk, mirror>>
  BY DEF List, TypeOK, Op, At, In, store
<1> HIDE DEF q, left
<1> DEFINE r == [q EXCEPT !.step = "copy", !.left = left]
<1>3. /\ r \in Op /\ r.step = "copy" /\ r.left = left
      /\ r.kind = q.kind /\ r.commit = q.commit /\ r.ref = q.ref /\ r.victims = q.victims
      /\ r.dir = q.dir /\ r.open = q.open /\ r.into = q.into /\ r.nested = q.nested
  BY <1>2 DEF Op
<1>4. op' \in [Actors -> Op] /\ op'[a] = r /\ Others(a)
  <2>1. op' = [op EXCEPT ![a] = r]
    BY <1>1
  <2> HIDE DEF r
  <2> QED
    BY <1>3, <2>1, OpUpdate DEF TypeOK, Others
<1> HIDE DEF r
<1> QED
  BY <1>2, <1>3, <1>4 DEF SyncFrame, q, left

LEMMA EnterEffect ==
    ASSUME TypeOK, KindInv, NEW a \in Actors, Enter(a)
    PROVE  \E f \in op[a].left :
               /\ SyncFrame(a)
               /\ f \in Files /\ Source(a)[f] = Dir /\ f \in Folders
               /\ Write(a, Put(Target(a), f, Dir)) /\ Put(Target(a), f, Dir) \in Tree
               /\ op[a].step = "copy" /\ op[a].into = NoFile
               /\ op'[a].step = "sweep" /\ op'[a].dir = f /\ op'[a].left = op[a].left \ {f}
               /\ op'[a].open = op[a].open
               /\ op'[a].into = op[a].into /\ op'[a].nested = op[a].nested
<1> DEFINE q == op[a]
<1>0. PICK f \in Files :
          /\ f \in q.left /\ q.step = "copy" /\ q.into = NoFile /\ Source(a)[f] = Dir
          /\ Write(a, Put(Target(a), f, Dir))
          /\ op' = [op EXCEPT ![a].step = "sweep", ![a].dir = f, ![a].left = @ \ {f}]
  BY DEF Enter, Turn, At
<1>1. /\ f \in q.left /\ q.step = "copy" /\ q.into = NoFile /\ Source(a)[f] = Dir
      /\ Write(a, Put(Target(a), f, Dir))
      /\ op' = [op EXCEPT ![a] = [q EXCEPT !.step = "sweep", !.dir = f, !.left = q.left \ {f}]]
  BY <1>0 DEF TypeOK, Op
<1>2. f \in Folders
  BY <1>1, SourceTarget DEF Tree
<1>3. Put(Target(a), f, Dir) \in Tree
  BY <1>2, SourceTarget, PutType DEF Contents
<1> DEFINE left == q.left \ {f}
           r == [q EXCEPT !.step = "sweep", !.dir = f, !.left = left]
<1>4. q \in Op /\ left \in SUBSET Files
  BY DEF TypeOK, Op
<1> HIDE DEF q, left
<1>5. /\ r \in Op /\ r.step = "sweep" /\ r.dir = f /\ r.left = left
      /\ r.kind = q.kind /\ r.commit = q.commit /\ r.ref = q.ref /\ r.victims = q.victims
      /\ r.open = q.open /\ r.into = q.into /\ r.nested = q.nested
  BY <1>4 DEF Op
<1>6. op' \in [Actors -> Op] /\ op'[a] = r /\ Others(a)
  <2>1. op' = [op EXCEPT ![a] = r]
    BY <1>1 DEF left
  <2> HIDE DEF r
  <2> QED
    BY <1>5, <2>1, OpUpdate DEF TypeOK, Others
<1> HIDE DEF r
<1> QED
  BY <1>1, <1>2, <1>3, <1>5, <1>6 DEF SyncFrame, q, left

LEMMA CopyOpenEffect ==
    ASSUME TypeOK, KindInv, NEW a \in Actors, CopyOpen(a)
    PROVE  \E f \in op[a].left, g \in Files :
               /\ SyncFrame(a)
               /\ f \in Files /\ Source(a)[f] \in Data
               /\ g = Destination(Target(a), f) /\ Target(a)[g] # Dir
               /\ Write(a, Put(Target(a), g, Partial)) /\ Put(Target(a), g, Partial) \in Tree
               /\ op[a].step = "copy" /\ op[a].into = NoFile
               /\ op'[a].step = "copy" /\ op'[a].open = f /\ op'[a].into = g
               /\ op'[a].left = op[a].left \ {f} /\ op'[a].dir = op[a].dir
               /\ op'[a].nested = (op[a].nested \/ g # f)
<1> DEFINE q == op[a]
<1>0. PICK f \in Files :
          /\ f \in q.left /\ q.step = "copy" /\ q.into = NoFile /\ Source(a)[f] \in Data
          /\ LET g == Destination(Target(a), f) IN
                 /\ Target(a)[g] # Dir
                 /\ Write(a, Put(Target(a), g, Partial))
                 /\ op' = [op EXCEPT ![a].open = f, ![a].into = g, ![a].left = @ \ {f},
                                     ![a].nested = @ \/ g # f]
  BY DEF CopyOpen, Turn, At
<1> DEFINE g == Destination(Target(a), f)
<1>1. /\ f \in q.left /\ q.step = "copy" /\ q.into = NoFile /\ Source(a)[f] \in Data
      /\ Target(a)[g] # Dir /\ Write(a, Put(Target(a), g, Partial))
      /\ op' = [op EXCEPT ![a] = [q EXCEPT !.open = f, !.into = g, !.left = q.left \ {f},
                                           !.nested = q.nested \/ g # f]]
  BY <1>0 DEF TypeOK, Op
<1> DEFINE left == q.left \ {f}
           nested == q.nested \/ g # f
           r == [q EXCEPT !.open = f, !.into = g, !.left = left, !.nested = nested]
<1>2. g \in Files
  BY SourceTarget, PathAssumption DEF Destination, Tree
<1>3. Put(Target(a), g, Partial) \in Tree
  BY <1>1, <1>2, SourceTarget, PutType, SnapshotAssumption DEF Contents, Data
<1>4. q \in Op /\ left \in SUBSET Files /\ nested \in BOOLEAN
  BY DEF TypeOK, Op
<1>5. op' = [op EXCEPT ![a] = r]
  BY <1>1
<1> HIDE DEF q, left, g, nested
<1>6. /\ r \in Op /\ r.step = q.step /\ r.open = f /\ r.into = g /\ r.left = left
      /\ r.nested = nested /\ r.dir = q.dir
      /\ r.kind = q.kind /\ r.commit = q.commit /\ r.ref = q.ref /\ r.victims = q.victims
  BY <1>2, <1>4 DEF Op
<1> HIDE DEF r
<1>7. op' \in [Actors -> Op] /\ op'[a] = r /\ Others(a)
  BY <1>5, <1>6, OpUpdate DEF TypeOK, Others
<1> QED
  BY <1>1, <1>2, <1>3, <1>6, <1>7 DEF SyncFrame, q, left, g, nested

LEMMA CopyFillEffect ==
    ASSUME TypeOK, KindInv, NEW a \in Actors, CopyFill(a)
    PROVE  /\ SyncFrame(a)
           /\ op[a].step = "copy" /\ op[a].into \in Files
           /\ \/ \E w \in Data :
                     /\ Source(a)[op[a].open] \in Data => w = Source(a)[op[a].open]
                     /\ Target(a)[op[a].into] \in Data
                     /\ Write(a, Put(Target(a), op[a].into, w))
                     /\ Put(Target(a), op[a].into, w) \in Tree
              \/ Target(a)[op[a].into] \notin Data /\ UNCHANGED <<disk, mirror>>
           /\ op'[a].step = "copy" /\ op'[a].left = op[a].left
           /\ op'[a].open = NoFile /\ op'[a].into = NoFile
           /\ op'[a].dir = op[a].dir /\ op'[a].nested = op[a].nested
<1> DEFINE q == op[a]
           r == [q EXCEPT !.open = NoFile, !.into = NoFile]
<1>1. /\ q \in Op /\ q.step = "copy" /\ q.into \in Files
      /\ op' = [op EXCEPT ![a] = r]
  BY DEF CopyFill, At, TypeOK, Op
<1>2. \/ \E w \in Data :
            /\ Source(a)[op[a].open] \in Data => w = Source(a)[op[a].open]
            /\ Target(a)[op[a].into] \in Data
            /\ Write(a, Put(Target(a), op[a].into, w))
            /\ Put(Target(a), op[a].into, w) \in Tree
      \/ Target(a)[op[a].into] \notin Data /\ UNCHANGED <<disk, mirror>>
  <2> DEFINE v == Source(a)[op[a].open]
             g == op[a].into
  <2>1. CASE Target(a)[g] \in Data
    <3>1. PICK w \in IF v \in Data THEN {v} ELSE Data : Write(a, Put(Target(a), g, w))
      BY <2>1 DEF CopyFill
    <3>2. g \in Files
      BY <1>1
    <3>3. w \in Data /\ (v \in Data => w = v)
      BY <3>1
    <3>4. Put(Target(a), g, w) \in Tree
      BY <2>1, <3>2, <3>3, SourceTarget, PutType, SnapshotAssumption DEF Contents
    <3> QED
      BY <2>1, <3>1, <3>2, <3>3, <3>4
  <2>2. CASE Target(a)[g] \notin Data
    BY <2>2 DEF CopyFill
  <2> QED
    BY <2>1, <2>2
<1> HIDE DEF q
<1>3. /\ r \in Op /\ r.step = q.step /\ r.open = NoFile /\ r.into = NoFile
      /\ r.left = q.left /\ r.nested = q.nested /\ r.dir = q.dir
      /\ r.kind = q.kind /\ r.commit = q.commit /\ r.ref = q.ref /\ r.victims = q.victims
  BY <1>1 DEF Op
<1> HIDE DEF r
<1>4. op' \in [Actors -> Op] /\ op'[a] = r /\ Others(a)
  BY <1>1, <1>3, OpUpdate DEF TypeOK, Others
<1> QED
  BY <1>1, <1>2, <1>3, <1>4 DEF SyncFrame, q

LEMMA SyncFailsEffect ==
    ASSUME TypeOK, KindInv, NEW a \in Actors, SyncFails(a)
    PROVE  /\ SyncFrame(a)
           /\ op[a].step \in SyncSteps /\ op'[a].step = "failed"
           /\ \/ UNCHANGED <<disk, mirror>>
              \/ \E tree \in Tree : Write(a, tree)
<1>1. op \in [Actors -> Op] /\ Goto(a, "failed")
  BY DEF TypeOK, SyncFails
<1>2. op[a].step \in SyncSteps
  BY DEF SyncFails, Turn, At, SyncSteps
<1>3. \/ UNCHANGED <<disk, mirror>>
      \/ \E f \in Files : Write(a, Put(Target(a), f, Target(a)[f]))
  BY DEF SyncFails
<1>4. \A f \in Files : Put(Target(a), f, Target(a)[f]) \in Tree
  <2> TAKE f \in Files
  <2>1. Target(a)[f] \in Contents /\ (Target(a)[f] = Dir => f \in Folders)
    BY SourceTarget DEF Tree
  <2> QED
    BY <2>1, SourceTarget, PutType
<1> QED
  BY <1>1, <1>2, <1>3, <1>4, GotoType DEF SyncFrame, Others

LEMMA SyncEffect ==
    ASSUME TypeOK, KindInv, NEW a \in Actors, SyncStep(a)
    PROVE  /\ SyncFrame(a)
           /\ op[a].step \in SyncSteps /\ op'[a].step \in SyncSteps \cup {"failed"}
           /\ UNCHANGED <<index, commits, made, refs, live, meta, second>>
           /\ UNCHANGED <<batches, crashes, origin, pruned, spoiled>>
           /\ \/ UNCHANGED <<disk, mirror>>
              \/ \E tree \in Tree : Write(a, tree)
           /\ batch' = IF op[a].kind = "restore" THEN Disturbed(a) ELSE batch
<1> USE DEF SyncSteps
<1>1. /\ SyncFrame(a)
      /\ op[a].step \in SyncSteps /\ op'[a].step \in SyncSteps \cup {"failed"}
      /\ \/ UNCHANGED <<disk, mirror>>
         \/ \E tree \in Tree : Write(a, tree)
  <2>1. CASE Sweep(a) \/ List(a)
    BY <2>1, SweepEffect, ListEffect
  <2>2. CASE Enter(a) \/ CopyOpen(a)
    BY <2>2, EnterEffect, CopyOpenEffect
  <2>3. CASE CopyFill(a)
    BY <2>3, CopyFillEffect
  <2>4. CASE SyncFails(a)
    BY <2>4, SyncFailsEffect
  <2> QED
    BY <2>1, <2>2, <2>3, <2>4 DEF SyncStep
<1>2. UNCHANGED <<index, commits, made, refs, live, meta, second>>
  BY DEF SyncStep, Sweep, List, Enter, CopyOpen, CopyFill, SyncFails, store
<1> QED
  BY <1>1, <1>2 DEF SyncStep, history

LEMMA SyncTypes ==
    ASSUME TypeOK, KindInv, NEW a \in Actors, SyncStep(a)
    PROVE  TypeOK'
<1>1. disk' \in Tree /\ mirror' \in Tree
  BY SyncEffect DEF Write, TypeOK
<1>2. batch' \in [Actors -> Batch]
  BY SyncEffect, DisturbedType DEF TypeOK
<1> QED
  BY <1>1, <1>2, SyncEffect DEF SyncFrame, TypeOK

StoreType ==
    /\ mirror \in Tree /\ index \in Tree
    /\ commits \subseteq Commit
    /\ made \in 0..MaxSnapshots
    /\ refs \in [Refs -> Commit \cup {NoCommit}]
    /\ live \subseteq 1..made
    /\ meta \subseteq Metadata

LEMMA CreateTypes ==
    ASSUME TypeOK, KindInv, NEW a \in Actors, CreateStep(a)
    PROVE  TypeOK'
<1>0. UNCHANGED <<disk, second, batch, batches, crashes, origin, pruned, spoiled>>
  BY DEF CreateStep, history, Stage, CommitIndex, Publish, Describe, Fill, store
<1> SUFFICES StoreType' /\ (op \in [Actors -> Op])'
  BY <1>0 DEF TypeOK, StoreType
<1>6. CASE Stage(a)
  <2>1. index' \in Tree
    BY <1>6, StagedType DEF Stage, TypeOK
  <2> QED
    BY <1>6, <2>1, GotoType DEF Stage, TypeOK, StoreType
<1>7. CASE CommitIndex(a)
  <2> DEFINE c == [tree |-> index, second |-> second, label |-> op[a].label]
  <2>1. c \in Commit
    BY DEF TypeOK, Op, Commit
  <2>2. commits' = commits \cup {c} /\ op' = [op EXCEPT ![a].step = "publish", ![a].commit = c]
    BY <1>7 DEF CommitIndex
  <2> DEFINE r == [op[a] EXCEPT !.step = "publish", !.commit = c]
  <2>3. r \in Op
    <3> DEFINE q == op[a]
    <3>1. q \in Op /\ r = [q EXCEPT !.step = "publish", !.commit = c]
      BY DEF TypeOK
    <3> HIDE DEF q, c
    <3> QED
      BY <2>1, <3>1 DEF Op
  <2>4. op' \in [Actors -> Op]
    <3>1. op' = [op EXCEPT ![a] = r]
      BY <2>2
    <3> QED
      BY <3>1, <2>3, OpUpdate DEF TypeOK
  <2> QED
    BY <1>7, <2>1, <2>2, <2>4 DEF CommitIndex, TypeOK, StoreType
<1>8. CASE Publish(a)
  <2>1. /\ op[a].commit \in Commit /\ made + 1 \in Refs
        /\ made' = made + 1 /\ live' = live \cup {made + 1}
        /\ refs' = [refs EXCEPT ![made + 1] = op[a].commit]
        /\ op' = [op EXCEPT ![a].step = "describe", ![a].ref = made + 1]
        /\ UNCHANGED <<mirror, index, commits, meta>>
    BY <1>8, SnapshotAssumption DEF Publish, TypeOK, Refs
  <2>2. refs' \in [Refs -> Commit \cup {NoCommit}]
    BY <2>1 DEF TypeOK
  <2>3. live' \subseteq 1..made' /\ made' \in 0..MaxSnapshots
    BY <2>1, SnapshotAssumption DEF TypeOK, Refs
  <2> DEFINE r == [op[a] EXCEPT !.step = "describe", !.ref = made + 1]
  <2>4. r \in Op
    <3> DEFINE q == op[a]
               n == made + 1
    <3>1. n \in 0..MaxSnapshots
      BY <2>1, SnapshotAssumption DEF TypeOK, Refs
    <3>2. q \in Op /\ r = [q EXCEPT !.step = "describe", !.ref = n]
      BY DEF TypeOK
    <3> HIDE DEF q, n
    <3> QED
      BY <3>1, <3>2 DEF Op
  <2>5. op' \in [Actors -> Op]
    <3>1. op' = [op EXCEPT ![a] = r]
      BY <2>1
    <3> QED
      BY <3>1, <2>4, OpUpdate DEF TypeOK
  <2> QED
    BY <2>1, <2>2, <2>3, <2>5 DEF TypeOK, StoreType
<1>9. CASE Describe(a)
  <2>1. op[a].commit \in Commit
    BY <1>9, KindOfStep DEF Describe, KindInv, Kind, Creating, At, TypeOK
  <2>2. meta' \subseteq Metadata
    BY <1>9, <2>1, SnapshotAssumption DEF Describe, TypeOK, Metadata, WithoutMeta
  <2> QED
    BY <1>9, <2>2, GotoType DEF Describe, TypeOK, StoreType
<1>10. CASE Fill(a)
  <2>1. op[a].commit \in Commit /\ op[a].ref \in 0..MaxSnapshots
    BY <1>10, KindOfStep DEF Fill, KindInv, Kind, Creating, At, TypeOK, Op
  <2>2. meta' \subseteq Metadata
    BY <1>10, <2>1 DEF Fill, TypeOK, Metadata, WithoutMeta
  <2> QED
    BY <1>10, <2>2, GotoType DEF Fill, TypeOK, StoreType
<1> QED
  BY <1>6, <1>7, <1>8, <1>9, <1>10 DEF CreateStep

LEMMA PruneTypes ==
    ASSUME TypeOK, KindInv, NEW a \in Actors, PruneStep(a) \/ SelectStep(a) \/ FailStep(a)
    PROVE  TypeOK'
<1>0. UNCHANGED <<disk, second, batch, batches, crashes, origin, spoiled>>
  BY DEF PruneStep, SelectStep, FailStep, history, Unref, Forget, Collect, Select, GitFails,
     SelectFails
<1> USE DEF Goto, At
<1>1. CASE Unref(a) /\ PruneStep(a)
  <2>1. PICK m \in op[a].victims :
            /\ live' = live \ {m.ref}
            /\ op' = [op EXCEPT ![a].step = "forget", ![a].commit = m.commit,
                                ![a].victims = @ \ {m}]
    BY <1>1 DEF Unref
  <2>2. m \in Metadata
    BY DEF TypeOK, Op
  <2> DEFINE r == [op[a] EXCEPT !.step = "forget", !.commit = m.commit, !.victims = @ \ {m}]
  <2>3. r \in Op
    <3> DEFINE c == m.commit
               left == op[a].victims \ {m}
    <3>1. op[a] \in Op /\ c \in Commit /\ left \in SUBSET Metadata
      BY <2>2 DEF TypeOK, Op, Metadata
    <3>2. r = [op[a] EXCEPT !.step = "forget", !.commit = c, !.victims = left]
      OBVIOUS
    <3> HIDE DEF c, left
    <3> QED
      BY <3>1, <3>2 DEF Op
  <2>4. op' = [op EXCEPT ![a] = r]
    BY <2>1
  <2>5. op' \in [Actors -> Op]
    BY <2>3, <2>4, OpUpdate DEF TypeOK
  <2> QED
    BY <1>0, <1>1, <2>1, <2>5 DEF Unref, PruneStep, history, TypeOK
<1>2. CASE Forget(a) /\ PruneStep(a)
  <2>1. op' \in [Actors -> Op]
    BY <1>2, GotoType DEF Forget, TypeOK
  <2> QED
    BY <1>0, <1>2, <2>1 DEF Forget, PruneStep, history, TypeOK, WithoutMeta
<1>3. CASE Collect(a) /\ PruneStep(a)
  <2>1. op' \in [Actors -> Op]
    BY <1>3, GotoType DEF Collect, TypeOK
  <2> QED
    BY <1>0, <1>3, <2>1 DEF Collect, PruneStep, history, TypeOK
<1>4. CASE SelectStep(a)
  <2>1. PICK kept \in SUBSET meta :
            op' = [op EXCEPT ![a].step = IF kept = meta THEN "done" ELSE "unref",
                             ![a].victims = meta \ kept]
    BY <1>4 DEF SelectStep, Select
  <2> DEFINE r == [op[a] EXCEPT !.step = IF kept = meta THEN "done" ELSE "unref",
                                !.victims = meta \ kept]
  <2>2. meta \ kept \in SUBSET Metadata
    BY DEF TypeOK
  <2>3. r \in Op
    <3> DEFINE s == IF kept = meta THEN "done" ELSE "unref"
               left == meta \ kept
               q == op[a]
    <3>1. q \in Op /\ s \in {"unref", "done"} /\ left \in SUBSET Metadata
      BY <2>2 DEF TypeOK
    <3>2. r = [q EXCEPT !.step = s, !.victims = left]
      OBVIOUS
    <3> HIDE DEF s, left, q
    <3>3. [q EXCEPT !.step = s] \in Op
      BY <3>1 DEF Op
    <3>4. [[q EXCEPT !.step = s] EXCEPT !.victims = left] \in Op
      BY <3>1, <3>3 DEF Op
    <3> HIDE DEF r
    <3> QED
      BY <3>2, <3>4
  <2>4. op' = [op EXCEPT ![a] = r]
    BY <2>1
  <2>5. op' \in [Actors -> Op] /\ op'[a] = r
    BY <2>3, <2>4, OpUpdate DEF TypeOK
  <2>6. op'[a].victims \subseteq Metadata
    BY <2>3, <2>5 DEF Op
  <2>7. pruned' \subseteq Commit
    BY <1>4, <2>6 DEF SelectStep, TypeOK, Metadata
  <2> QED
    BY <1>0, <1>4, <2>5, <2>7 DEF SelectStep, Select, store, TypeOK
<1>5. CASE FailStep(a)
  <2>1. op' \in [Actors -> Op]
    BY <1>5, GotoType DEF FailStep, GitFails, SelectFails, TypeOK
  <2> QED
    BY <1>0, <1>5, <2>1 DEF FailStep, GitFails, SelectFails, store, history, TypeOK
<1> QED
  BY <1>1, <1>2, <1>3, <1>4, <1>5 DEF PruneStep

LEMMA RestoreTypes ==
    ASSUME TypeOK, NEW a \in Actors, RestoreStep(a)
    PROVE  TypeOK'
<1>1. op' \in [Actors -> Op]
  BY GotoType DEF RestoreStep, Archive, Restored, TypeOK
<1> QED
  BY <1>1 DEF RestoreStep, Archive, Restored, store, history, TypeOK

LEMMA StartRestoreType ==
    ASSUME TypeOK, NEW a \in Actors, StartRestore(a)
    PROVE  /\ op' \in [Actors -> Op]
           /\ \A b \in Actors : b # a => op'[b] = op[b]
           /\ op'[a].kind = "restore" /\ op'[a].step = "archive" /\ op'[a].victims = {}
           /\ op'[a].commit \in Commit
           /\ op'[a].dir = NoFile /\ op'[a].left = {}
           /\ op'[a].open = NoFile /\ op'[a].into = NoFile
<1>1. PICK c \in Known : op' = [op EXCEPT ![a] = [Blank("restore", "archive", c.label)
                                                     EXCEPT !.commit = c]]
  BY DEF StartRestore
<1>2. c \in Commit /\ c.label \in Labels
  BY DEF Known, TypeOK, Metadata, Commit
<1> DEFINE r == [Blank("restore", "archive", c.label) EXCEPT !.commit = c]
<1>3. /\ r \in Op
      /\ r.kind = "restore" /\ r.step = "archive" /\ r.victims = {} /\ r.commit = c
      /\ r.dir = NoFile /\ r.left = {} /\ r.open = NoFile /\ r.into = NoFile
  <2> DEFINE q == Blank("restore", "archive", c.label)
  <2>1. /\ q \in Op /\ q.kind = "restore" /\ q.step = "archive" /\ q.victims = {}
        /\ q.dir = NoFile /\ q.left = {} /\ q.open = NoFile /\ q.into = NoFile
    BY <1>2, BlankType
  <2> HIDE DEF q
  <2>2. LET t == [q EXCEPT !.commit = c] IN
            /\ t \in Op
            /\ t.kind = "restore" /\ t.step = "archive" /\ t.victims = {} /\ t.commit = c
            /\ t.dir = NoFile /\ t.left = {} /\ t.open = NoFile /\ t.into = NoFile
    BY <1>2, <2>1 DEF Op
  <2> QED
    BY <2>2 DEF q
<1>4. op' \in [Actors -> Op] /\ op'[a] = r /\ \A b \in Actors : b # a => op'[b] = op[b]
  BY <1>1, <1>3, OpUpdate DEF TypeOK
<1> HIDE DEF r
<1> QED
  BY <1>2, <1>3, <1>4

(* What a step of a batch does to the call and the batch of its actor *)
BeginType(a) ==
    \/ /\ op'[a].kind = "create" /\ op'[a].step = "sweep" /\ op'[a].victims = {}
       /\ batch'[a].step = "checkpoint"
    \/ op'[a] = op[a] /\ batch'[a].step = "run"

LEMMA BeginTypes ==
    ASSUME TypeOK, NEW a \in Actors, Begin(a)
    PROVE  /\ TypeOK'
           /\ \A b \in Actors : b # a => op'[b] = op[b] /\ batch'[b].step = batch[b].step
           /\ BeginType(a)
<1>1. PICK calls \in Batches :
          LET begun == [NoBatch EXCEPT !.calls = calls, !.before = disk,
                                       !.alone = \A b \in Actors : ~Creating(b)]
          IN IF CheckpointRequired(calls)
             THEN /\ op' = [op EXCEPT ![a] = Blank("create", "sweep", CheckpointLabel)]
                  /\ batch' = [Disturbed(a) EXCEPT ![a] = [begun EXCEPT !.step = "checkpoint"]]
             ELSE /\ batch' = [batch EXCEPT ![a] = [begun EXCEPT !.step = "run"]]
                  /\ UNCHANGED op
  BY DEF Begin
<1> DEFINE begun == [NoBatch EXCEPT !.calls = calls, !.before = disk,
                                    !.alone = \A b \in Actors : ~Creating(b)]
<1>2. /\ [begun EXCEPT !.step = "checkpoint"] \in Batch
      /\ [begun EXCEPT !.step = "run"] \in Batch
  <2> DEFINE alone == \A b \in Actors : ~Creating(b)
  <2>1. calls \in Seq(Call) /\ disk \in Tree /\ alone \in BOOLEAN
    BY BatchAssumption DEF TypeOK
  <2>2. begun = [NoBatch EXCEPT !.calls = calls, !.before = disk, !.alone = alone]
    OBVIOUS
  <2> HIDE DEF alone
  <2>3. begun \in Batch
    BY <2>1, <2>2, NoBatchType DEF Batch
  <2> HIDE DEF begun
  <2> QED
    BY <2>3 DEF Batch
<1>3. /\ UNCHANGED <<disk, mirror, index, commits, made, refs, live, meta, second, crashes>>
      /\ UNCHANGED <<origin, pruned, spoiled>>
      /\ batches' \in 0..MaxBatches
  BY BatchAssumption DEF Begin, store, history, TypeOK
<1>4. CASE CheckpointRequired(calls)
  <2> DEFINE r == Blank("create", "sweep", CheckpointLabel)
             t == [begun EXCEPT !.step = "checkpoint"]
  <2>1. op' = [op EXCEPT ![a] = r] /\ batch' = [Disturbed(a) EXCEPT ![a] = t]
    BY <1>1, <1>4
  <2>2. r \in Op /\ r.kind = "create" /\ r.step = "sweep" /\ r.victims = {}
    BY BlankType, BatchAssumption
  <2>3. t \in Batch /\ t.step = "checkpoint"
    BY <1>2 DEF NoBatch
  <2> HIDE DEF r, t, begun
  <2>4. op' \in [Actors -> Op] /\ op'[a] = r /\ \A b \in Actors : b # a => op'[b] = op[b]
    BY <2>1, <2>2 DEF TypeOK
  <2>5. batch' \in [Actors -> Batch] /\ batch'[a] = t
        /\ \A b \in Actors : b # a => batch'[b].step = batch[b].step
    BY <2>1, <2>3, DisturbedType DEF TypeOK
  <2> QED
    BY <1>3, <2>2, <2>3, <2>4, <2>5 DEF TypeOK, BeginType
<1>5. CASE ~CheckpointRequired(calls)
  <2> DEFINE t == [begun EXCEPT !.step = "run"]
  <2>1. op' = op /\ batch' = [batch EXCEPT ![a] = t]
    BY <1>1, <1>5
  <2>2. t \in Batch /\ t.step = "run"
    BY <1>2 DEF NoBatch
  <2> HIDE DEF t, begun
  <2> QED
    BY <1>3, <2>1, <2>2 DEF TypeOK, BeginType
<1> QED
  BY <1>4, <1>5

(* A step that ends a call of BackupManager *)
LEMMA NoOpUpdate ==
    ASSUME op \in [Actors -> Op], NEW a \in Actors, op' = [op EXCEPT ![a] = NoOp]
    PROVE  /\ op' \in [Actors -> Op]
           /\ op'[a].kind = "none" /\ op'[a].step = "none" /\ op'[a].victims = {}
           /\ \A b \in Actors : b # a => op'[b] = op[b]
BY NoOpType, OpUpdate

LEMMA BatchUpdate ==
    ASSUME NEW f \in [Actors -> Batch], NEW a \in Actors, NEW t \in Batch,
           batch' = [f EXCEPT ![a] = t]
    PROVE  /\ batch' \in [Actors -> Batch]
           /\ batch'[a] = t
           /\ \A b \in Actors : b # a => batch'[b] = f[b]
OBVIOUS

LEMMA CheckpointTypes ==
    ASSUME TypeOK, KindInv, NEW a \in Actors, Checkpointed(a) \/ CheckpointFailed(a)
    PROVE  /\ TypeOK'
           /\ \A b \in Actors : b # a => op'[b] = op[b] /\ batch'[b] = batch[b]
           /\ op'[a].kind = "none" /\ op'[a].step = "none" /\ op'[a].victims = {}
           /\ batch'[a].step \in {"idle", "run"}
<1>1. op' = [op EXCEPT ![a] = NoOp]
  BY DEF Checkpointed, CheckpointFailed
<1>2. /\ UNCHANGED <<disk, mirror, index, commits, made, refs, live, meta, second, batches, crashes>>
      /\ UNCHANGED <<pruned, spoiled>>
  BY DEF Checkpointed, CheckpointFailed, store, history
<1>3. CASE Checkpointed(a)
  <2>1. op[a].commit \in Commit
    BY <1>3 DEF Checkpointed, KindInv, Kind, Creating, At
  <2>2. batch' \in [Actors -> Batch] /\ batch'[a].step = "run"
        /\ \A b \in Actors : b # a => batch'[b] = batch[b]
    <3> DEFINE q == batch[a]
               t == [q EXCEPT !.step = "run", !.cp = op[a].commit]
    <3>1. batch' = [batch EXCEPT ![a] = t]
      BY <1>3 DEF Checkpointed
    <3>2. t \in Batch /\ t.step = "run"
      <4>1. q \in Batch
        BY DEF TypeOK
      <4>2. q.next + 1 \in Nat \ {0}
        BY <4>1 DEF Batch
      <4> HIDE DEF q
      <4> QED
        BY <2>1, <4>1, <4>2 DEF Batch
    <3> HIDE DEF t
    <3> QED
      BY <3>1, <3>2, BatchUpdate DEF TypeOK
  <2>3. origin' \subseteq [commit : Commit, tree : Tree, nested : BOOLEAN]
    BY <1>3, <2>1 DEF Checkpointed, TypeOK, Batch, Op
  <2> QED
    BY <1>1, <1>2, <2>2, <2>3, NoOpUpdate DEF TypeOK
<1>4. CASE CheckpointFailed(a)
  <2>1. batch' \in [Actors -> Batch] /\ batch'[a].step = "idle"
        /\ \A b \in Actors : b # a => batch'[b] = batch[b]
    BY <1>4, NoBatchType DEF CheckpointFailed, TypeOK
  <2>2. origin' = origin
    BY <1>4 DEF CheckpointFailed, history
  <2> QED
    BY <1>1, <1>2, <2>1, <2>2, NoOpUpdate DEF TypeOK
<1> QED
  BY <1>3, <1>4

LEMMA AdvancedType ==
    ASSUME batch \in [Actors -> Batch], NEW a \in Actors
    PROVE  /\ Advanced(a) \in [Actors -> Batch]
           /\ \A b \in Actors : b # a => Advanced(a)[b] = batch[b]
           /\ Advanced(a)[a] = [batch[a] EXCEPT !.next = @ + 1]
<1> DEFINE q == batch[a]
           t == [q EXCEPT !.next = @ + 1]
<1>1. t \in Batch
  <2>1. q \in Batch
    OBVIOUS
  <2>2. q.next + 1 \in Nat \ {0}
    BY <2>1 DEF Batch
  <2> HIDE DEF q
  <2> QED
    BY <2>1, <2>2 DEF Batch
<1>2. Advanced(a) = [batch EXCEPT ![a] = t]
  BY DEF Advanced
<1> HIDE DEF t
<1>3. Advanced(a) \in [Actors -> Batch] /\ Advanced(a)[a] = t
      /\ \A b \in Actors : b # a => Advanced(a)[b] = batch[b]
  BY <1>1, <1>2
<1> QED
  BY <1>3 DEF t

RunCommand(a) == RunShell(a) \/ RunGit(a)

QuietStep(a) == Ask(a) \/ RunNothing(a) \/ End(a) \/ RunEdit(a) \/ RunCommand(a)

(* What changes make of the workspace is a tree *)
LEMMA ChangesType ==
    ASSUME disk \in Tree
    PROVE  Writes \cup NewFolders \cup Removals \subseteq Tree
<1>1. \A f \in Files, v \in Data : disk[f] # Dir => Put(disk, f, v) \in Tree
  BY PutType, SnapshotAssumption DEF Contents
<1>2. \A f \in Folders : disk[f] = Absent => Put(disk, f, Dir) \in Tree
  BY PutType, PathAssumption DEF Contents
<1>3. \A f \in Files : Without(disk, {f}) \in Tree
  BY WithoutType
<1>4. Writes \subseteq Tree
  BY <1>1 DEF Writes
<1>5. NewFolders \subseteq Tree
  BY <1>2 DEF NewFolders
<1>6. Removals \subseteq Tree
  BY <1>3 DEF Removals
<1> QED
  BY <1>4, <1>5, <1>6

(* What a command does, whichever it is *)
LEMMA CommandEffect ==
    ASSUME NEW a \in Actors, RunCommand(a)
    PROVE  /\ batch[a].step = "run"
           /\ batch' = Disturbed(a)
           /\ disk' \in Writes \cup NewFolders \cup Removals
           /\ UNCHANGED <<mirror, index, commits, made, refs, live, meta, second, op>>
           /\ UNCHANGED <<batches, crashes, origin, pruned, spoiled>>
  BY DEF RunCommand, RunShell, RunGit, Runs, HasCall, Changes, store, history

LEMMA QuietTypes ==
    ASSUME TypeOK, NEW a \in Actors, QuietStep(a)
    PROVE  /\ TypeOK'
           /\ op' = op
           /\ \A b \in Actors : b # a => batch'[b].step = batch[b].step
           /\ batch[a].step = "run" /\ batch'[a].step \in {"idle", "run"}
<1>1. CASE Ask(a) \/ RunNothing(a)
  <2>1. /\ batch[a].step = "run" /\ batch' = Advanced(a)
        /\ UNCHANGED <<disk, mirror, index, commits, made, refs, live, meta, second, op>>
        /\ UNCHANGED <<batches, crashes, origin, pruned, spoiled>>
    BY <1>1 DEF Ask, RunNothing, Runs, HasCall, snapshotVars, store, history
  <2>2. /\ batch' \in [Actors -> Batch] /\ batch'[a].step = "run"
        /\ \A b \in Actors : b # a => batch'[b] = batch[b]
    <3> DEFINE q == batch[a]
    <3>1. /\ batch' \in [Actors -> Batch] /\ batch'[a] = [q EXCEPT !.next = @ + 1]
          /\ \A b \in Actors : b # a => batch'[b] = batch[b]
      BY <2>1, AdvancedType DEF TypeOK
    <3>2. q \in Batch /\ q.step = "run"
      BY <2>1 DEF TypeOK
    <3> HIDE DEF q
    <3>3. [q EXCEPT !.next = @ + 1].step = "run"
      BY <3>2 DEF Batch
    <3> QED
      BY <3>1, <3>3
  <2> QED
    BY <2>1, <2>2 DEF TypeOK
<1>2. CASE End(a)
  BY <1>2, NoBatchType DEF End, snapshotVars, store, history, TypeOK
<1>3. CASE RunEdit(a)
  <2>1. disk' \in Tree
    BY <1>3, ChangesType DEF RunEdit, TypeOK
  <2>2. batch[a].step = "run" /\ batch' = [Disturbed(a) EXCEPT ![a].next = @ + 1]
    BY <1>3 DEF RunEdit, Runs, HasCall
  <2>3. /\ batch' \in [Actors -> Batch] /\ batch'[a].step = "run"
        /\ \A b \in Actors : b # a => batch'[b].step = batch[b].step
    <3> DEFINE q == batch[a]
               t == [q EXCEPT !.next = @ + 1]
    <3>1. t \in Batch /\ t.step = "run"
      <4>1. q \in Batch /\ q.step = "run"
        BY <2>2 DEF TypeOK
      <4>2. q.next + 1 \in Nat \ {0}
        BY <4>1 DEF Batch
      <4> HIDE DEF q
      <4> QED
        BY <4>1, <4>2 DEF Batch
    <3>2. /\ Disturbed(a) \in [Actors -> Batch] /\ Disturbed(a)[a] = batch[a]
          /\ \A b \in Actors : b # a => Disturbed(a)[b].step = batch[b].step
      BY DisturbedType DEF TypeOK
    <3>3. batch' = [Disturbed(a) EXCEPT ![a] = t]
      BY <2>2, <3>2
    <3> HIDE DEF t
    <3> QED
      BY <3>1, <3>2, <3>3, BatchUpdate
  <2> QED
    BY <1>3, <2>1, <2>2, <2>3 DEF RunEdit, store, history, TypeOK
<1>4. CASE RunCommand(a)
  <2>1. disk' \in Tree
    BY <1>4, CommandEffect, ChangesType DEF TypeOK
  <2>2. /\ batch' \in [Actors -> Batch] /\ batch'[a] = batch[a]
        /\ \A b \in Actors : b # a => batch'[b].step = batch[b].step
    BY <1>4, CommandEffect, DisturbedType DEF TypeOK
  <2> QED
    BY <1>4, <2>1, <2>2, CommandEffect DEF TypeOK
<1> QED
  BY <1>1, <1>2, <1>3, <1>4 DEF QuietStep

(* A step that calls BackupManager for a tool, or for an approved rollback *)
CallStep(a) == RunBackup(a) \/ RunPrune(a) \/ RunRestore(a) \/ Rollback(a)

CallType(a) ==
    /\ op'[a].victims = {}
    /\ \/ op'[a].kind = "create" /\ op'[a].step = "sweep"
       \/ op'[a].kind = "prune" /\ op'[a].step = "select"
       \/ /\ op'[a].kind = "restore" /\ op'[a].step = "archive" /\ op'[a].commit \in Commit
          /\ op'[a].dir = NoFile /\ op'[a].left = {}
          /\ op'[a].open = NoFile /\ op'[a].into = NoFile

LEMMA CallTypes ==
    ASSUME TypeOK, NEW a \in Actors, CallStep(a)
    PROVE  /\ TypeOK'
           /\ \A b \in Actors : b # a => op'[b] = op[b] /\ batch'[b].step = batch[b].step
           /\ batch'[a].step = "call"
           /\ CallType(a)
<1>1. /\ UNCHANGED <<disk, mirror, index, commits, made, refs, live, meta, second, crashes>>
      /\ UNCHANGED <<origin, pruned, spoiled>>
      /\ batches' \in 0..MaxBatches
  BY BatchAssumption DEF CallStep, RunBackup, RunPrune, RunRestore, Rollback, store, history, TypeOK
<1>2. /\ batch' \in [Actors -> Batch] /\ batch'[a].step = "call"
      /\ \A b \in Actors : b # a => batch'[b].step = batch[b].step
  <2>1. CASE RunBackup(a)
    <3> DEFINE q == batch[a]
               t == [q EXCEPT !.step = "call"]
    <3>1. t \in Batch /\ t.step = "call"
      <4>1. q \in Batch
        BY DEF TypeOK
      <4>2. q.next + 1 \in Nat \ {0}
        BY <4>1 DEF Batch
      <4> HIDE DEF q
      <4> QED
        BY <4>1, <4>2 DEF Batch
    <3>2. /\ Disturbed(a) \in [Actors -> Batch] /\ Disturbed(a)[a] = batch[a]
          /\ \A b \in Actors : b # a => Disturbed(a)[b].step = batch[b].step
      BY DisturbedType DEF TypeOK
    <3>3. batch' = [Disturbed(a) EXCEPT ![a] = t]
      BY <2>1, <3>2 DEF RunBackup
    <3> HIDE DEF t
    <3> QED
      BY <3>1, <3>2, <3>3, BatchUpdate
  <2>2. CASE RunPrune(a)
    <3> DEFINE q == batch[a]
               t == [q EXCEPT !.step = "call"]
    <3>1. t \in Batch /\ t.step = "call"
      <4>1. q \in Batch
        BY DEF TypeOK
      <4> HIDE DEF q
      <4> QED
        BY <4>1 DEF Batch
    <3>2. batch' = [batch EXCEPT ![a] = t]
      BY <2>2 DEF RunPrune
    <3> HIDE DEF t
    <3> QED
      BY <3>1, <3>2, BatchUpdate DEF TypeOK
  <2>3. CASE RunRestore(a)
    <3> DEFINE q == batch[a]
               t == [q EXCEPT !.step = "call", !.alone = TRUE]
    <3>1. t \in Batch /\ t.step = "call"
      <4>1. q \in Batch
        BY DEF TypeOK
      <4>2. q.next + 1 \in Nat \ {0}
        BY <4>1 DEF Batch
      <4> HIDE DEF q
      <4> QED
        BY <4>1, <4>2 DEF Batch
    <3>2. /\ Disturbed(a) \in [Actors -> Batch] /\ Disturbed(a)[a] = batch[a]
          /\ \A b \in Actors : b # a => Disturbed(a)[b].step = batch[b].step
      BY DisturbedType DEF TypeOK
    <3>3. batch' = [Disturbed(a) EXCEPT ![a] = t]
      BY <2>3, <3>2 DEF RunRestore
    <3> HIDE DEF t
    <3> QED
      BY <3>1, <3>2, <3>3, BatchUpdate
  <2>4. CASE Rollback(a)
    <3> DEFINE t == [NoBatch EXCEPT !.step = "call", !.alone = TRUE]
    <3>1. t \in Batch /\ t.step = "call"
      BY NoBatchType DEF Batch
    <3>2. batch' = [Disturbed(a) EXCEPT ![a] = t]
      BY <2>4 DEF Rollback
    <3> HIDE DEF t
    <3> QED
      BY <3>1, <3>2, DisturbedType DEF TypeOK
  <2> QED
    BY <2>1, <2>2, <2>3, <2>4 DEF CallStep
<1>3. /\ op' \in [Actors -> Op] /\ CallType(a)
      /\ \A b \in Actors : b # a => op'[b] = op[b]
  <2>1. CASE RunBackup(a)
    BY <2>1, BlankType, OpUpdate, BatchAssumption DEF RunBackup, TypeOK, CallType
  <2>2. CASE RunPrune(a)
    BY <2>2, BlankType, OpUpdate, BatchAssumption DEF RunPrune, TypeOK, CallType
  <2>3. CASE StartRestore(a)
    BY <2>3, StartRestoreType DEF CallType
  <2> QED
    BY <2>1, <2>2, <2>3 DEF CallStep, RunRestore, Rollback
<1> QED
  BY <1>1, <1>2, <1>3 DEF TypeOK

LEMMA ReturnedTypes ==
    ASSUME TypeOK, NEW a \in Actors, Returned(a)
    PROVE  /\ TypeOK'
           /\ \A b \in Actors : b # a => op'[b] = op[b] /\ batch'[b] = batch[b]
           /\ op'[a].kind = "none" /\ op'[a].step = "none" /\ op'[a].victims = {}
           /\ batch'[a].step = "run"
<1>1. op' = [op EXCEPT ![a] = NoOp]
  BY DEF Returned
<1>2. /\ batch' \in [Actors -> Batch] /\ batch'[a].step = "run"
      /\ \A b \in Actors : b # a => batch'[b] = batch[b]
  <2> DEFINE q == batch[a]
             t == [q EXCEPT !.step = "run", !.next = @ + 1]
  <2>1. batch' = [batch EXCEPT ![a] = t]
    BY DEF Returned
  <2>2. t \in Batch /\ t.step = "run"
    <3>1. q \in Batch
      BY DEF TypeOK
    <3>2. q.next + 1 \in Nat \ {0}
      BY <3>1 DEF Batch
    <3> HIDE DEF q
    <3> QED
      BY <3>1, <3>2 DEF Batch
  <2> HIDE DEF t
  <2> QED
    BY <2>1, <2>2, BatchUpdate DEF TypeOK
<1> QED
  BY <1>1, <1>2, NoOpUpdate DEF Returned, store, history, TypeOK

(* What the other steps that are not a mere Goto do to it *)

LEMMA CommitEffect ==
    ASSUME TypeOK, NEW a \in Actors, CommitIndex(a)
    PROVE  /\ Others(a) /\ At(a, "commit")
           /\ op'[a].commit \in Commit /\ commits' = commits \cup {op'[a].commit}
           /\ op'[a].commit.tree = index
           /\ op'[a].step = "publish" /\ op'[a].kind = op[a].kind
           /\ op'[a].victims = op[a].victims /\ op'[a].nested = op[a].nested
<1> DEFINE c == [tree |-> index, second |-> second, label |-> op[a].label]
<1>1. c \in Commit /\ c.tree = index
  BY DEF TypeOK, Op, Commit
<1>2. /\ commits' = commits \cup {c} /\ At(a, "commit")
      /\ op' = [op EXCEPT ![a].step = "publish", ![a].commit = c]
  BY DEF CommitIndex
<1> HIDE DEF c
<1>3. /\ Others(a)
      /\ op'[a].step = "publish" /\ op'[a].commit = c /\ op'[a].kind = op[a].kind
      /\ op'[a].victims = op[a].victims /\ op'[a].nested = op[a].nested
  BY <1>2 DEF TypeOK, Op, Others
<1> QED
  BY <1>1, <1>2, <1>3

LEMMA PublishEffect ==
    ASSUME TypeOK, NEW a \in Actors, Publish(a)
    PROVE  /\ Others(a) /\ At(a, "publish")
           /\ op[a].commit \in commits
           /\ made + 1 \in Refs /\ made' = made + 1
           /\ refs'[made + 1] = op[a].commit /\ live' = live \cup {made + 1}
           /\ \A n \in Refs : n # made + 1 => refs'[n] = refs[n]
           /\ op'[a].step = "describe" /\ op'[a].ref = made + 1 /\ op'[a].kind = op[a].kind
           /\ op'[a].commit = op[a].commit /\ op'[a].victims = op[a].victims
           /\ op'[a].nested = op[a].nested
<1>1. /\ At(a, "publish") /\ op[a].commit \in commits /\ made < MaxSnapshots
      /\ made' = made + 1 /\ live' = live \cup {made + 1}
      /\ refs' = [refs EXCEPT ![made + 1] = op[a].commit]
      /\ op' = [op EXCEPT ![a].step = "describe", ![a].ref = made + 1]
  BY DEF Publish
<1>2. made + 1 \in Refs
  BY <1>1, SnapshotAssumption DEF TypeOK, Refs
<1>3. refs'[made + 1] = op[a].commit /\ \A n \in Refs : n # made + 1 => refs'[n] = refs[n]
  BY <1>1, <1>2 DEF TypeOK
<1>4. /\ Others(a)
      /\ op'[a].step = "describe" /\ op'[a].ref = made + 1 /\ op'[a].kind = op[a].kind
      /\ op'[a].commit = op[a].commit /\ op'[a].victims = op[a].victims
      /\ op'[a].nested = op[a].nested
  BY <1>1 DEF TypeOK, Op, Others
<1> QED
  BY <1>1, <1>2, <1>3, <1>4

LEMMA SelectEffect ==
    ASSUME TypeOK, NEW a \in Actors, SelectStep(a)
    PROVE  /\ Others(a) /\ At(a, "select")
           /\ \A m \in meta : m.ref # 0
           /\ op'[a].victims \subseteq meta
           /\ pruned' = pruned \cup {m.commit : m \in op'[a].victims}
           /\ op'[a].step \in {"done", "unref"} /\ op'[a].kind = op[a].kind
           /\ op'[a].commit = op[a].commit
<1>1. PICK kept \in SUBSET meta :
          op' = [op EXCEPT ![a].step = IF kept = meta THEN "done" ELSE "unref",
                           ![a].victims = meta \ kept]
  BY DEF SelectStep, Select
<1> DEFINE s == IF kept = meta THEN "done" ELSE "unref"
           left == meta \ kept
<1>2. /\ op' = [op EXCEPT ![a].step = s, ![a].victims = left]
      /\ s \in {"done", "unref"} /\ left \subseteq meta
  BY <1>1
<1> HIDE DEF s, left
<1>3. /\ Others(a)
      /\ op'[a].step = s /\ op'[a].victims = left /\ op'[a].kind = op[a].kind
      /\ op'[a].commit = op[a].commit
  BY <1>2 DEF TypeOK, Op, Others
<1> QED
  BY <1>2, <1>3 DEF SelectStep, Select

LEMMA UnrefEffect ==
    ASSUME TypeOK, NEW a \in Actors, Unref(a)
    PROVE  /\ Others(a) /\ At(a, "unref")
           /\ \E m \in op[a].victims :
                  /\ m \in Metadata
                  /\ live' = live \ {m.ref} /\ op'[a].commit = m.commit
                  /\ op'[a].victims = op[a].victims \ {m}
           /\ op'[a].step = "forget" /\ op'[a].kind = op[a].kind
<1>1. PICK m \in op[a].victims :
          /\ live' = live \ {m.ref}
          /\ op' = [op EXCEPT ![a].step = "forget", ![a].commit = m.commit,
                              ![a].victims = op[a].victims \ {m}]
  BY DEF Unref, TypeOK, Op
<1> DEFINE c == m.commit
           left == op[a].victims \ {m}
<1>2. /\ op' = [op EXCEPT ![a].step = "forget", ![a].commit = c, ![a].victims = left]
      /\ m \in Metadata /\ At(a, "unref")
  BY <1>1 DEF Unref, TypeOK, Op
<1> HIDE DEF c, left
<1>3. /\ Others(a)
      /\ op'[a].step = "forget" /\ op'[a].commit = c /\ op'[a].victims = left
      /\ op'[a].kind = op[a].kind
  BY <1>2 DEF TypeOK, Op, Others
<1> QED
  BY <1>1, <1>2, <1>3 DEF c, left

ManagerStep(a) ==
    SyncStep(a) \/ CreateStep(a) \/ FailStep(a) \/ SelectStep(a) \/ PruneStep(a) \/ RestoreStep(a)

LEMMA ManagerBatch ==
    ASSUME TypeOK, NEW a \in Actors, ManagerStep(a)
    PROVE  /\ batch'[a] = batch[a]
           /\ \A b \in Actors : batch'[b].step = batch[b].step
<1>1. CASE SyncStep(a)
  BY <1>1, DisturbedType DEF SyncStep, TypeOK
<1>2. CASE ~SyncStep(a)
  <2>1. batch' = batch
    BY <1>2 DEF ManagerStep, CreateStep, FailStep, SelectStep, PruneStep, RestoreStep
  <2> QED
    BY <2>1
<1> QED
  BY <1>1, <1>2

(* The kinds and the steps that Kind is about, after a step inside          *)
(* BackupManager                                                            *)
LEMMA ManagerKind ==
    ASSUME TypeOK, KindInv, NEW a \in Actors, ManagerStep(a)
    PROVE  Others(a) /\ Kind(a)'
<1> USE DEF At, StepsOf
<1> DEFINE Fits ==
      /\ op'[a].kind = op[a].kind /\ op[a].kind # "none"
      /\ op'[a].step \in StepsOf(op[a].kind)
      /\ op[a].kind = "restore" => op'[a].commit = op[a].commit
      /\ Creating(a) /\ op'[a].step \in {"publish", "describe", "fill", "done"}
            => op'[a].commit \in Commit
      /\ op'[a].step = "forget" => op'[a].commit \in Commit
<1>0. op \in [Actors -> Op]
  BY DEF TypeOK
<1>1. ASSUME CreateStep(a) PROVE Others(a) /\ Fits
  <2> USE DEF Creating
  <2>1. CASE Stage(a)
    BY <1>0, <2>1, GotoType DEF Stage, Others
  <2>5. CASE CommitIndex(a)
    BY <2>5, CommitEffect, KindOfStep
  <2>6. CASE Publish(a)
    BY <2>6, PublishEffect, KindOfStep DEF TypeOK
  <2>7. CASE Describe(a) \/ Fill(a)
    <3>1. op[a].kind = "create" /\ op[a].step \in {"describe", "fill"}
      BY <2>7, KindOfStep DEF Describe, Fill
    <3>2. op[a].commit \in Commit
      BY <3>1 DEF KindInv, Kind
    <3> QED
      BY <1>0, <2>7, <3>1, <3>2, GotoType DEF Describe, Fill, Others
  <2> QED
    BY <1>1, <2>1, <2>5, <2>6, <2>7 DEF CreateStep
<1>2. ASSUME FailStep(a) PROVE Others(a) /\ Fits
  <2>1. Goto(a, "failed")
    BY <1>2 DEF FailStep, GitFails, SelectFails
  <2>2. op[a].kind \in {"create", "prune", "restore"}
    BY <1>2, KindOfStep DEF FailStep, GitFails, SelectFails
  <2> QED
    BY <1>0, <2>1, <2>2, GotoType DEF Others
<1>3. ASSUME SelectStep(a) PROVE Others(a) /\ Fits
  BY <1>3, SelectEffect, KindOfStep DEF Creating
<1>4. ASSUME PruneStep(a) PROVE Others(a) /\ Fits
  <2>1. CASE Unref(a)
    BY <2>1, UnrefEffect, KindOfStep DEF Creating, Metadata
  <2>2. CASE Forget(a) \/ Collect(a)
    BY <1>0, <2>2, GotoType, KindOfStep DEF Forget, Collect, Creating, Others
  <2> QED
    BY <1>4, <2>1, <2>2 DEF PruneStep
<1>5. ASSUME RestoreStep(a) PROVE Others(a) /\ Fits
  BY <1>0, <1>5, GotoType, KindOfStep DEF RestoreStep, Archive, Restored, Creating, Others
<1>6. ASSUME SyncStep(a) PROVE Others(a) /\ Fits
  <2>1. op[a].kind \in {"create", "restore"}
    BY <1>6, SyncEffect, KindOfStep DEF SyncSteps
  <2> QED
    BY <1>6, <2>1, SyncEffect DEF SyncFrame, SyncSteps
<1>7. Others(a) /\ Fits
  BY <1>1, <1>2, <1>3, <1>4, <1>5, <1>6 DEF ManagerStep
<1>8. batch'[a] = batch[a]
  BY ManagerBatch
<1> QED
  BY <1>7, <1>8 DEF KindInv, Kind, Creating

LEMMA KindOther ==
    ASSUME KindInv, NEW b \in Actors, op'[b] = op[b], batch'[b].step = batch[b].step
    PROVE  Kind(b)'
BY DEF KindInv, Kind, Creating, At

LEMMA TypeStep ==
    ASSUME TypeOK, KindInv, [Next]_vars
    PROVE  TypeOK' /\ KindInv'
<1>1. ASSUME NEW a \in Actors, Work(a) PROVE TypeOK' /\ KindInv'
  <2>1. SUFFICES /\ TypeOK' /\ Kind(a)'
                 /\ \A b \in Actors : b # a => op'[b] = op[b] /\ batch'[b].step = batch[b].step
    BY KindOther DEF KindInv
  <2> USE DEF At, StepsOf
  <2>2. CASE Begin(a)
    <3>1. batch[a].step = "idle"
      BY <2>2 DEF Begin
    <3> QED
      BY <2>2, <3>1, BeginTypes DEF BeginType, KindInv, Kind, Creating
  <2>3. CASE Checkpointed(a) \/ CheckpointFailed(a)
    BY <2>3, CheckpointTypes DEF Kind, Creating
  <2>4. CASE QuietStep(a)
    BY <2>4, QuietTypes DEF KindInv, Kind, Creating
  <2>5. CASE CallStep(a)
    BY <2>5, CallTypes DEF CallType, Kind, Creating
  <2>6. CASE Returned(a)
    BY <2>6, ReturnedTypes DEF Kind, Creating
  <2>7. CASE ManagerStep(a)
    BY <2>7, SyncTypes, CreateTypes, PruneTypes, RestoreTypes, ManagerBatch, ManagerKind
       DEF ManagerStep, Others
  <2> QED
    BY <1>1, <2>2, <2>3, <2>4, <2>5, <2>6, <2>7 DEF Work, RunCommand, QuietStep, CallStep, ManagerStep
<1>2. CASE Crash
  <2>1. /\ \A a \in Actors : op'[a] = NoOp /\ batch'[a] = NoBatch
        /\ op' \in [Actors -> Op] /\ batch' \in [Actors -> Batch]
    BY <1>2, NoOpType, NoBatchType DEF Crash
  <2>2. spoiled' \subseteq Commit /\ crashes' \in 0..MaxCrashes
    BY <1>2, BatchAssumption DEF Crash, TypeOK, KindInv, Kind
  <2>3. TypeOK'
    BY <1>2, <2>1, <2>2 DEF Crash, store, TypeOK
  <2> QED
    BY <2>1, <2>3, NoOpType, NoBatchType DEF KindInv, Kind, Creating, StepsOf, At
<1>3. CASE Tick
  BY <1>3, SnapshotAssumption DEF Tick, store, history, TypeOK, KindInv,
     Kind, Creating, At
<1>4. CASE UNCHANGED vars
  BY <1>4 DEF vars, snapshotVars, store, history, TypeOK, KindInv, Kind,
     Creating, At
<1> QED
  BY <1>1, <1>2, <1>3, <1>4 DEF Next

LEMMA TypeInit == Init => TypeOK /\ KindInv
<1> SUFFICES ASSUME Init PROVE TypeOK /\ KindInv
  OBVIOUS
<1>1. /\ op \in [Actors -> Op] /\ batch \in [Actors -> Batch]
      /\ \A a \in Actors : op[a] = NoOp /\ batch[a] = NoBatch
  BY NoOpType, NoBatchType DEF Init, SnapshotsInit
<1>2. TypeOK
  BY <1>1, NoTreeType, SnapshotAssumption, BatchAssumption DEF Init, SnapshotsInit, TypeOK
<1> QED
  BY <1>1, <1>2, NoOpType, NoBatchType DEF KindInv, Kind, Creating, StepsOf, At

----
(* Names *)

(* A step that touches neither names nor the calls that know them *)
Views(b) ==
    /\ op'[b].victims \subseteq op[b].victims
    /\ \/ op'[b].step \notin {"describe", "fill", "forget"}
          /\ op[b].step \notin {"describe", "fill", "forget"}
       \/ op'[b].step = op[b].step /\ op'[b].commit = op[b].commit /\ op'[b].ref = op[b].ref

Quiet ==
    /\ UNCHANGED <<made, refs, live, meta, pruned, spoiled, crashes>>
    /\ commits \subseteq commits'
    /\ \A b \in Actors : Views(b)

LEMMA QuietNames ==
    ASSUME NamesInv, Quiet
    PROVE  NamesInv'
<1> USE DEF NamesInv
<1>1. \A b \in Actors : /\ Making(b)' <=> Making(b)
                        /\ At(b, "forget")' <=> At(b, "forget")
                        /\ At(b, "fill")' <=> At(b, "fill")
                        /\ Making(b) \/ At(b, "forget")
                              => op'[b].commit = op[b].commit /\ op'[b].ref = op[b].ref
                        /\ op'[b].victims \subseteq op[b].victims
  BY DEF Quiet, Views, Making, At
<1>2. UNCHANGED <<made, refs, live, meta, pruned, spoiled, crashes>> /\ commits \subseteq commits'
  BY DEF Quiet
<1>3. LiveInv'
  BY <1>2 DEF LiveInv
<1>4. MakerInv'
  BY <1>1, <1>2 DEF MakerInv
<1>5. NamedInv' /\ VictimInv'
  BY <1>1, <1>2 DEF NamedInv, VictimInv, Listed
<1>6. ForgetInv'
  BY <1>1, <1>2 DEF ForgetInv
<1>7. ListInv'
  BY <1>1, <1>2 DEF ListInv, Anchored
<1>8. UnlinkInv'
  <2>1. \A b \in Actors : At(b, "fill") => Making(b)
    BY DEF At, Making
  <2> QED
    BY <1>1, <1>2, <2>1 DEF UnlinkInv, WithoutMeta
<1>9. NoLostRefs'
  <2>1. \A b \in Actors : (op[b].step \in {"describe", "fill"}) <=> Making(b)
    BY DEF Making
  <2>2. \A b \in Actors : (op[b].step \in {"describe", "fill"})' <=> Making(b)'
    BY DEF Making
  <2> QED
    BY <1>1, <1>2, <2>1, <2>2 DEF NoLostRefs
<1> QED
  BY <1>3, <1>4, <1>5, <1>6, <1>7, <1>8, <1>9

LEMMA PublishNames ==
    ASSUME TypeOK, KindInv, NamesInv, NEW a \in Actors, CreateStep(a), Publish(a)
    PROVE  NamesInv'
<1> USE DEF NamesInv
<1>0. PICK c, n : c = op[a].commit /\ n = made + 1
  OBVIOUS
<1>1. /\ Others(a) /\ op[a].step = "publish"
      /\ c \in commits
      /\ n \in Refs /\ made' = n
      /\ refs'[n] = c /\ live' = live \cup {n}
      /\ \A k \in Refs : k # n => refs'[k] = refs[k]
      /\ op'[a].step = "describe" /\ op'[a].ref = n /\ op'[a].commit = c
      /\ op'[a].victims = op[a].victims
      /\ UNCHANGED <<commits, meta, pruned, spoiled, crashes>>
  BY <1>0, PublishEffect DEF CreateStep, Publish, history, At
<1>2. /\ \A k \in 1..made : k # n /\ refs'[k] = refs[k] /\ k \in 1..made'
      /\ live \subseteq 1..made /\ made \in Nat
  BY <1>0, <1>1, SnapshotAssumption DEF TypeOK, Refs
<1>3. LiveInv'
  BY <1>1, <1>2 DEF LiveInv
<1>4. MakerInv'
  <2>1. \A b \in Actors : b # a /\ Making(b)' =>
            /\ Making(b) /\ op'[b] = op[b]
            /\ op[b].ref \in live /\ op[b].ref # n
            /\ refs'[op[b].ref] = op[b].commit
    <3> SUFFICES ASSUME NEW b \in Actors, b # a, Making(b)'
                 PROVE  /\ Making(b) /\ op'[b] = op[b]
                        /\ op[b].ref \in live /\ op[b].ref # n
                        /\ refs'[op[b].ref] = op[b].commit
      OBVIOUS
    <3>1. op'[b] = op[b]
      BY <1>1 DEF Others
    <3>2. Making(b)
      BY <3>1 DEF Making
    <3>3. op[b].ref \in live /\ refs[op[b].ref] = op[b].commit
      BY <3>2 DEF MakerInv
    <3> QED
      BY <1>2, <3>1, <3>2, <3>3
  <2>2. op'[a].ref \in live' /\ refs'[op'[a].ref] = op'[a].commit
    BY <1>1
  <2>3. \A b \in Actors : Making(b)' => op'[b].ref \in live' /\ refs'[op'[b].ref] = op'[b].commit
    BY <1>1, <2>1, <2>2
  <2>4. \A b, d \in Actors : b # d /\ Making(b)' /\ Making(d)' => op'[b].ref # op'[d].ref
    <3> SUFFICES ASSUME NEW b \in Actors, NEW d \in Actors, b # d, Making(b)', Making(d)'
                 PROVE  op'[b].ref # op'[d].ref
      OBVIOUS
    <3>1. CASE b = a
      BY <1>1, <2>1, <3>1
    <3>2. CASE d = a
      BY <1>1, <2>1, <3>2
    <3>3. CASE b # a /\ d # a
      BY <2>1, <3>3 DEF MakerInv
    <3> QED
      BY <3>1, <3>2, <3>3
  <2> QED
    BY <2>3, <2>4 DEF MakerInv
<1>5. \A m : Listed(m) => Listed(m)'
  BY <1>1, <1>2 DEF Listed, Making, Others
<1>6. NamedInv' /\ VictimInv'
  BY <1>1, <1>5 DEF NamedInv, VictimInv, Others
<1>7. ForgetInv'
  BY <1>1, <1>2 DEF ForgetInv, Others, At
<1>8. ListInv'
  BY <1>1, <1>2 DEF ListInv, Anchored, Others, At
<1>9. UnlinkInv'
  BY <1>1, <1>2 DEF UnlinkInv, WithoutMeta, Others, At
<1>10. NoLostRefs'
  <2> SUFFICES ASSUME crashes = 0, NEW k \in live'
               PROVE  \/ [commit |-> refs'[k], ref |-> k] \in meta
                      \/ \E b \in Actors : op'[b].step \in {"describe", "fill"} /\ op'[b].ref = k
                      \/ \E j \in (1..made') \ {k} : refs'[j] = refs'[k]
    BY <1>1 DEF NoLostRefs
  <2>1. CASE k = n
    BY <1>1, <2>1
  <2>2. CASE k # n
    <3>1. k \in live /\ refs'[k] = refs[k]
      BY <1>1, <1>2, <2>2
    <3>2. CASE [commit |-> refs[k], ref |-> k] \in meta
      BY <3>1, <3>2
    <3>3. CASE \E b \in Actors : op[b].step \in {"describe", "fill"} /\ op[b].ref = k
      BY <1>1, <3>3 DEF Others
    <3>4. CASE \E j \in (1..made) \ {k} : refs[j] = refs[k]
      BY <1>2, <3>1, <3>4
    <3> QED
      BY <3>1, <3>2, <3>3, <3>4 DEF NoLostRefs
  <2> QED
    BY <2>1, <2>2
<1> QED
  BY <1>3, <1>4, <1>6, <1>7, <1>8, <1>9, <1>10

(* The metadata file of a snapshot in the making is created or filled *)
LEMMA DescribeNames ==
    ASSUME TypeOK, KindInv, NamesInv, NEW a \in Actors, CreateStep(a), Describe(a)
    PROVE  NamesInv'
<1> USE DEF NamesInv
<1>0. PICK c, n : c = op[a].commit /\ n = op[a].ref
  OBVIOUS
<1>1. /\ Others(a) /\ op[a].step = "describe" /\ op'[a].step = "fill"
      /\ op'[a].commit = c /\ op'[a].ref = n /\ op'[a].victims = op[a].victims
      /\ meta' = {m \in meta : m.commit # c} \cup {[commit |-> c, ref |-> 0]}
      /\ UNCHANGED <<commits, made, refs, live, pruned, spoiled, crashes>>
  <2>1. Others(a) /\ op'[a].step = "fill" /\ op'[a].commit = c /\ op'[a].ref = n
        /\ op'[a].victims = op[a].victims
    BY <1>0, GotoType DEF Describe, TypeOK, Others
  <2> QED
    BY <1>0, <2>1 DEF CreateStep, Describe, WithoutMeta, history, At
<1>2. n \in live /\ refs[n] = c /\ live \subseteq 1..made
  BY <1>0, <1>1 DEF MakerInv, Making, TypeOK
<1>3. LiveInv' /\ MakerInv' /\ ForgetInv'
  <2>1. LiveInv'
    BY <1>1 DEF LiveInv
  <2>2. MakerInv'
    BY <1>0, <1>1, <1>2 DEF MakerInv, Making, Others
  <2>3. ForgetInv'
    BY <1>1 DEF ForgetInv, Others, At
  <2> QED
    BY <2>1, <2>2, <2>3
<1>4. \A m : Listed(m) => Listed(m)'
  BY <1>0, <1>1 DEF Listed, Making, Others
<1>5. NamedInv' /\ VictimInv'
  BY <1>1, <1>4 DEF NamedInv, VictimInv, Others
<1>6. ListInv'
  BY <1>1, <1>2 DEF ListInv, Anchored, Others, At
<1>7. UnlinkInv'
  <2> SUFFICES ASSUME NEW b \in Actors, op'[b].step = "fill",
                      {m \in meta' : m.commit # op'[b].commit} = meta'
               PROVE  \E k \in 1..made : k # op'[b].ref /\ refs[k] = op'[b].commit
    BY <1>1 DEF UnlinkInv, WithoutMeta, At
  <2>1. op'[b].commit # c
    <3>1. [commit |-> c, ref |-> 0] \in meta'
      BY <1>1
    <3>2. [commit |-> c, ref |-> 0].commit # op'[b].commit
      BY <3>1
    <3> QED
      BY <3>2
  <2>2. b # a /\ op[b].step = "fill" /\ op'[b] = op[b]
    BY <1>1, <2>1 DEF Others
  <2>3. {m \in meta : m.commit # op[b].commit} = meta
    BY <1>1, <2>1, <2>2
  <2> QED
    BY <1>1, <2>2, <2>3 DEF UnlinkInv, WithoutMeta, At
<1>8. NoLostRefs'
  <2> SUFFICES ASSUME crashes = 0, NEW k \in live
               PROVE  \/ [commit |-> refs[k], ref |-> k] \in meta'
                      \/ \E b \in Actors : op'[b].step \in {"describe", "fill"} /\ op'[b].ref = k
                      \/ \E j \in (1..made) \ {k} : refs[j] = refs[k]
    BY <1>1 DEF NoLostRefs
  <2>1. CASE k = n
    BY <1>1, <2>1
  <2>2. CASE k # n /\ [commit |-> refs[k], ref |-> k] \in meta
    <3>1. CASE refs[k] = c
      BY <1>2, <2>2, <3>1
    <3>2. CASE refs[k] # c
      BY <1>1, <2>2, <3>2
    <3> QED
      BY <3>1, <3>2
  <2>3. CASE k # n /\ \E b \in Actors : op[b].step \in {"describe", "fill"} /\ op[b].ref = k
    BY <1>0, <1>1, <2>3 DEF Others
  <2> QED
    BY <2>1, <2>2, <2>3 DEF NoLostRefs
<1> QED
  BY <1>3, <1>5, <1>6, <1>7, <1>8

LEMMA FillNames ==
    ASSUME TypeOK, KindInv, NamesInv, NEW a \in Actors, CreateStep(a), Fill(a)
    PROVE  NamesInv'
<1> USE DEF NamesInv
<1>0. PICK c, n : c = op[a].commit /\ n = op[a].ref
  OBVIOUS
<1>1. /\ Others(a) /\ op[a].step = "fill" /\ op'[a].step = "done"
      /\ op'[a].victims = op[a].victims
      /\ meta' = IF \E m \in meta : m.commit = c
                 THEN {m \in meta : m.commit # c} \cup {[commit |-> c, ref |-> n]} ELSE meta
      /\ UNCHANGED <<commits, made, refs, live, pruned, spoiled, crashes>>
  <2>1. Others(a) /\ op'[a].step = "done" /\ op'[a].victims = op[a].victims
    BY GotoType DEF Fill, TypeOK, Others
  <2> QED
    BY <1>0, <2>1 DEF CreateStep, Fill, WithoutMeta, history, At
<1>2. n \in live /\ refs[n] = c /\ live \subseteq 1..made
      /\ \A b \in Actors : b # a /\ Making(b) => op[b].ref # n
  BY <1>0, <1>1 DEF MakerInv, Making, TypeOK
<1>9. ~(\E m \in meta : m.commit = c) => \E k \in 1..made : k # n /\ refs[k] = c
  <2> SUFFICES ASSUME ~(\E m \in meta : m.commit = c)
               PROVE  \E k \in 1..made : k # n /\ refs[k] = c
    OBVIOUS
  <2>1. {m \in meta : m.commit # c} = meta
    OBVIOUS
  <2> QED
    BY <1>0, <1>1, <2>1 DEF UnlinkInv, WithoutMeta, At
<1>3. LiveInv' /\ MakerInv' /\ ForgetInv'
  <2>1. LiveInv'
    BY <1>1 DEF LiveInv
  <2>2. MakerInv'
    BY <1>0, <1>1, <1>2 DEF MakerInv, Making, Others
  <2>3. ForgetInv'
    BY <1>1 DEF ForgetInv, Others, At
  <2> QED
    BY <2>1, <2>2, <2>3
<1>4. \A m : Listed(m) => Listed(m)'
  BY <1>0, <1>1 DEF Listed, Making, Others
<1>5. NamedInv' /\ VictimInv'
  <2>1. Listed([commit |-> c, ref |-> n])'
    BY <1>1, <1>2 DEF Listed, Making, Others
  <2> QED
    BY <1>1, <1>4, <2>1 DEF NamedInv, VictimInv, Others
<1>6. ListInv'
  BY <1>1, <1>2 DEF ListInv, Anchored, Others, At
<1>7. UnlinkInv'
  <2> SUFFICES ASSUME NEW b \in Actors, op'[b].step = "fill",
                      {m \in meta' : m.commit # op'[b].commit} = meta'
               PROVE  \E k \in 1..made : k # op'[b].ref /\ refs[k] = op'[b].commit
    BY <1>1 DEF UnlinkInv, WithoutMeta, At
  <2>1. b # a /\ op[b].step = "fill" /\ op'[b] = op[b]
    BY <1>1 DEF Others
  <2>2. {m \in meta : m.commit # op[b].commit} = meta
    <3> SUFFICES ASSUME NEW m \in meta, m.commit = op[b].commit
                 PROVE  FALSE
      OBVIOUS
    <3>1. CASE op[b].commit = c
      <4>1. [commit |-> c, ref |-> n] \in meta'
        BY <1>1, <3>1
      <4>2. [commit |-> c, ref |-> n].commit # op'[b].commit
        BY <4>1
      <4> QED
        BY <2>1, <3>1, <4>2
    <3>2. CASE op[b].commit # c
      <4>1. m \in meta'
        BY <1>1, <3>2
      <4> QED
        BY <2>1, <4>1
    <3> QED
      BY <3>1, <3>2
  <2> QED
    BY <1>1, <2>1, <2>2 DEF UnlinkInv, WithoutMeta, At
<1>8. NoLostRefs'
  <2> SUFFICES ASSUME crashes = 0, NEW k \in live
               PROVE  \/ [commit |-> refs[k], ref |-> k] \in meta'
                      \/ \E b \in Actors : op'[b].step \in {"describe", "fill"} /\ op'[b].ref = k
                      \/ \E j \in (1..made) \ {k} : refs[j] = refs[k]
    BY <1>1 DEF NoLostRefs
  <2>1. CASE k = n
    <3>1. CASE \E m \in meta : m.commit = c
      BY <1>1, <1>2, <2>1, <3>1
    <3>2. CASE ~ \E m \in meta : m.commit = c
      BY <1>2, <1>9, <2>1, <3>2
    <3> QED
      BY <3>1, <3>2
  <2>2. CASE k # n /\ [commit |-> refs[k], ref |-> k] \in meta
    <3>1. CASE refs[k] = c
      BY <1>2, <2>2, <3>1
    <3>2. CASE refs[k] # c
      BY <1>1, <2>2, <3>2
    <3> QED
      BY <3>1, <3>2
  <2>3. CASE k # n /\ \E b \in Actors : op[b].step \in {"describe", "fill"} /\ op[b].ref = k
    BY <1>0, <1>1, <2>3 DEF Others
  <2> QED
    BY <2>1, <2>2, <2>3 DEF NoLostRefs
<1> QED
  BY <1>3, <1>5, <1>6, <1>7, <1>8

LEMMA SelectNames ==
    ASSUME TypeOK, KindInv, NamesInv, NEW a \in Actors, SelectStep(a)
    PROVE  NamesInv'
<1> USE DEF NamesInv
<1>1. /\ Others(a) /\ op[a].step = "select" /\ op'[a].step \in {"done", "unref"}
      /\ \A m \in meta : m.ref # 0
      /\ op'[a].victims \subseteq meta
      /\ pruned' = pruned \cup {m.commit : m \in op'[a].victims}
      /\ UNCHANGED <<commits, made, refs, live, meta, spoiled, crashes>>
  BY SelectEffect DEF SelectStep, Select, store, At
<1>2. \A b \in Actors : /\ Making(b)' <=> Making(b)
                        /\ At(b, "forget")' <=> At(b, "forget")
                        /\ At(b, "fill")' <=> At(b, "fill")
                        /\ Making(b) \/ At(b, "forget") => op'[b] = op[b]
  BY <1>1 DEF Others, Making, At
<1>3. LiveInv' /\ MakerInv' /\ ForgetInv'
  <2>1. LiveInv'
    BY <1>1 DEF LiveInv
  <2>2. MakerInv'
    BY <1>1, <1>2 DEF MakerInv
  <2>3. ForgetInv'
    BY <1>1, <1>2 DEF ForgetInv
  <2> QED
    BY <2>1, <2>2, <2>3
<1>4. \A m : Listed(m) => Listed(m)'
  BY <1>1, <1>2 DEF Listed
<1>5. NamedInv'
  BY <1>1, <1>4 DEF NamedInv
<1>6. VictimInv'
  <2> SUFFICES ASSUME NEW b \in Actors, NEW m \in op'[b].victims
               PROVE  Listed(m)' /\ m.commit \in pruned'
    BY DEF VictimInv
  <2>1. CASE b = a
    BY <1>1, <1>4, <2>1 DEF NamedInv
  <2>2. CASE b # a
    BY <1>1, <1>4, <2>2 DEF VictimInv, Others
  <2> QED
    BY <2>1, <2>2
<1>7. ListInv'
  BY <1>1, <1>2 DEF ListInv, Anchored
<1>8. UnlinkInv'
  <2>1. \A b \in Actors : At(b, "fill") => Making(b)
    BY DEF At, Making
  <2> QED
    BY <1>1, <1>2, <2>1 DEF UnlinkInv, WithoutMeta
<1>9. NoLostRefs'
  BY <1>1 DEF NoLostRefs, Others
<1> QED
  BY <1>3, <1>5, <1>6, <1>7, <1>8, <1>9

LEMMA UnrefNames ==
    ASSUME TypeOK, KindInv, NamesInv, NEW a \in Actors, PruneStep(a), Unref(a)
    PROVE  NamesInv'
<1> USE DEF NamesInv
<1>1. PICK m \in op[a].victims :
          /\ live' = live \ {m.ref} /\ op'[a].commit = m.commit
          /\ op'[a].victims = op[a].victims \ {m}
  BY UnrefEffect
<1>2. /\ Others(a) /\ op[a].step = "unref" /\ op'[a].step = "forget"
      /\ UNCHANGED <<commits, made, refs, meta, pruned, spoiled, crashes>>
  BY UnrefEffect DEF PruneStep, Unref, history, At
<1>3. /\ m.ref \in 1..made /\ refs[m.ref] = m.commit /\ m.commit \in pruned
      /\ \A b \in Actors : Making(b) => op[b].ref # m.ref
  BY DEF VictimInv, Listed
<1>4. \A b \in Actors : /\ Making(b)' <=> Making(b)
                        /\ At(b, "fill")' <=> At(b, "fill")
                        /\ Making(b) => op'[b] = op[b]
  BY <1>2 DEF Others, Making, At
<1>5. LiveInv'
  BY <1>1, <1>2 DEF LiveInv
<1>6. MakerInv'
  BY <1>1, <1>2, <1>3, <1>4 DEF MakerInv
<1>7. \A v : Listed(v) => Listed(v)'
  BY <1>2, <1>4 DEF Listed
<1>8. NamedInv' /\ VictimInv'
  <2>1. NamedInv'
    BY <1>2, <1>7 DEF NamedInv
  <2>2. \A b \in Actors : op'[b].victims \subseteq op[b].victims
    BY <1>1, <1>2 DEF Others
  <2> QED
    BY <1>2, <1>7, <2>1, <2>2 DEF VictimInv
<1>9. ForgetInv'
  <2> SUFFICES ASSUME NEW b \in Actors, op'[b].step = "forget"
               PROVE  \E k \in (1..made) \ live' : refs[k] = op'[b].commit
    BY <1>2 DEF ForgetInv, At
  <2>1. CASE b = a
    BY <1>1, <1>3, <2>1
  <2>2. CASE b # a
    BY <1>1, <1>2, <2>2 DEF ForgetInv, At, Others
  <2> QED
    BY <2>1, <2>2
<1>10. ListInv'
  <2> SUFFICES ASSUME NEW v \in meta
               PROVE  \/ Anchored(v.commit)'
                      \/ v.commit \in spoiled
                      \/ \E b \in Actors : At(b, "forget")' /\ op'[b].commit = v.commit
    BY <1>2 DEF ListInv
  <2>1. CASE Anchored(v.commit)
    <3>1. PICK n \in live : refs[n] = v.commit
      BY <2>1 DEF Anchored
    <3>2. CASE n = m.ref
      BY <1>1, <1>2, <1>3, <3>1, <3>2 DEF At
    <3>3. CASE n # m.ref
      BY <1>1, <1>2, <3>1, <3>3 DEF Anchored
    <3> QED
      BY <3>2, <3>3
  <2>2. CASE \E b \in Actors : At(b, "forget") /\ op[b].commit = v.commit
    BY <1>2, <2>2 DEF Others, At
  <2> QED
    BY <2>1, <2>2 DEF ListInv
<1>11. UnlinkInv'
  <2>1. \A b \in Actors : At(b, "fill") => Making(b)
    BY DEF At, Making
  <2> QED
    BY <1>2, <1>4, <2>1 DEF UnlinkInv, WithoutMeta
<1>12. NoLostRefs'
  BY <1>1, <1>2 DEF NoLostRefs, Others
<1> QED
  BY <1>5, <1>6, <1>8, <1>9, <1>10, <1>11, <1>12

LEMMA ForgetNames ==
    ASSUME TypeOK, KindInv, NamesInv, NEW a \in Actors, PruneStep(a), Forget(a)
    PROVE  NamesInv'
<1> USE DEF NamesInv
<1>0. PICK c : c = op[a].commit
  OBVIOUS
<1>1. /\ Others(a) /\ op[a].step = "forget" /\ op'[a].step = "unref"
      /\ op'[a].victims = op[a].victims
      /\ meta' = {m \in meta : m.commit # c}
      /\ UNCHANGED <<commits, made, refs, live, pruned, spoiled, crashes>>
  <2>1. Others(a) /\ op'[a].step = "unref" /\ op'[a].victims = op[a].victims
    BY GotoType DEF Forget, TypeOK, Others
  <2> QED
    BY <1>0, <2>1 DEF PruneStep, Forget, WithoutMeta, history, At
<1>2. PICK k \in (1..made) \ live : refs[k] = c
  BY <1>0, <1>1 DEF ForgetInv, At
<1>3. \A b \in Actors : /\ Making(b)' <=> Making(b)
                        /\ At(b, "fill")' <=> At(b, "fill")
                        /\ Making(b) => op'[b] = op[b]
  BY <1>1 DEF Others, Making, At
<1>4. LiveInv' /\ MakerInv'
  <2>1. LiveInv'
    BY <1>1 DEF LiveInv
  <2>2. MakerInv'
    BY <1>1, <1>3 DEF MakerInv
  <2> QED
    BY <2>1, <2>2
<1>5. ForgetInv'
  BY <1>1 DEF ForgetInv, At, Others
<1>6. \A v : Listed(v) => Listed(v)'
  BY <1>1, <1>3 DEF Listed
<1>7. NamedInv' /\ VictimInv'
  <2>1. NamedInv'
    BY <1>1, <1>6 DEF NamedInv
  <2>2. VictimInv'
    BY <1>1, <1>6 DEF VictimInv, Others
  <2> QED
    BY <2>1, <2>2
<1>8. ListInv'
  <2> SUFFICES ASSUME NEW v \in meta, v.commit # c
               PROVE  \/ Anchored(v.commit)
                      \/ v.commit \in spoiled
                      \/ \E b \in Actors : At(b, "forget")' /\ op'[b].commit = v.commit
    BY <1>1 DEF ListInv, Anchored
  <2>1. CASE \E b \in Actors : At(b, "forget") /\ op[b].commit = v.commit
    BY <1>0, <1>1, <2>1 DEF Others, At
  <2> QED
    BY <2>1 DEF ListInv
<1>9. UnlinkInv'
  <2> SUFFICES ASSUME NEW b \in Actors, op'[b].step = "fill",
                      {m \in meta' : m.commit # op'[b].commit} = meta'
               PROVE  \E j \in 1..made : j # op'[b].ref /\ refs[j] = op'[b].commit
    BY <1>1 DEF UnlinkInv, WithoutMeta, At
  <2>1. b # a /\ op[b].step = "fill" /\ op'[b] = op[b]
    BY <1>1 DEF Others
  <2>2. CASE op[b].commit = c
    <3>1. op[b].ref \in live
      BY <2>1 DEF MakerInv, Making
    <3> QED
      BY <1>2, <2>1, <2>2, <3>1
  <2>3. CASE op[b].commit # c
    <3>1. {m \in meta : m.commit # op[b].commit} = meta
      <4> SUFFICES ASSUME NEW m \in meta, m.commit = op[b].commit
                   PROVE  FALSE
        OBVIOUS
      <4>1. m \in meta'
        BY <1>1, <2>3
      <4> QED
        BY <2>1, <4>1
    <3> QED
      BY <2>1, <3>1 DEF UnlinkInv, WithoutMeta, At
  <2> QED
    BY <2>2, <2>3
<1>10. NoLostRefs'
  <2> SUFFICES ASSUME crashes = 0, NEW n \in live
               PROVE  \/ [commit |-> refs[n], ref |-> n] \in meta'
                      \/ \E b \in Actors : op'[b].step \in {"describe", "fill"} /\ op'[b].ref = n
                      \/ \E j \in (1..made) \ {n} : refs[j] = refs[n]
    BY <1>1 DEF NoLostRefs
  <2>1. CASE [commit |-> refs[n], ref |-> n] \in meta
    <3>1. CASE refs[n] = c
      BY <1>2, <3>1
    <3>2. CASE refs[n] # c
      BY <1>1, <2>1, <3>2
    <3> QED
      BY <3>1, <3>2
  <2>2. CASE \E b \in Actors : op[b].step \in {"describe", "fill"} /\ op[b].ref = n
    BY <1>1, <2>2 DEF Others
  <2> QED
    BY <2>1, <2>2 DEF NoLostRefs
<1> QED
  BY <1>4, <1>5, <1>7, <1>8, <1>9, <1>10

LEMMA CollectNames ==
    ASSUME TypeOK, KindInv, NamesInv, NEW a \in Actors, PruneStep(a), Collect(a)
    PROVE  NamesInv'
<1> USE DEF NamesInv
<1>1. /\ Others(a) /\ op[a].step = "unref" /\ op'[a].step = "done"
      /\ op'[a].victims = op[a].victims
      /\ commits' = {c \in commits : \E n \in live : refs[n] = c}
      /\ UNCHANGED <<made, refs, live, meta, pruned, spoiled, crashes>>
  <2>1. Others(a) /\ op'[a].step = "done" /\ op'[a].victims = op[a].victims
    BY GotoType DEF Collect, TypeOK, Others
  <2> QED
    BY <2>1 DEF PruneStep, Collect, history, At
<1>2. \A b \in Actors : /\ Making(b)' <=> Making(b)
                        /\ At(b, "forget")' <=> At(b, "forget")
                        /\ At(b, "fill")' <=> At(b, "fill")
                        /\ Making(b) \/ At(b, "forget") => op'[b] = op[b]
                        /\ op'[b].victims = op[b].victims
  BY <1>1 DEF Others, Making, At
<1>3. LiveInv'
  BY <1>1 DEF LiveInv
<1>4. MakerInv' /\ ForgetInv'
  <2>1. MakerInv'
    BY <1>1, <1>2 DEF MakerInv
  <2>2. ForgetInv'
    BY <1>1, <1>2 DEF ForgetInv
  <2> QED
    BY <2>1, <2>2
<1>5. NamedInv' /\ VictimInv'
  BY <1>1, <1>2 DEF NamedInv, VictimInv, Listed
<1>6. ListInv'
  BY <1>1, <1>2 DEF ListInv, Anchored
<1>7. UnlinkInv'
  <2>1. \A b \in Actors : At(b, "fill") => Making(b)
    BY DEF At, Making
  <2> QED
    BY <1>1, <1>2, <2>1 DEF UnlinkInv, WithoutMeta
<1>8. NoLostRefs'
  BY <1>1 DEF NoLostRefs, Others
<1> QED
  BY <1>3, <1>4, <1>5, <1>6, <1>7, <1>8

LEMMA CrashNames ==
    ASSUME TypeOK, KindInv, NamesInv, Crash
    PROVE  NamesInv'
<1> USE DEF NamesInv
<1>1. /\ \A b \in Actors : op'[b].step = "none" /\ op'[b].victims = {}
      /\ crashes' # 0
      /\ UNCHANGED <<commits, made, refs, live, meta, pruned>>
  BY NoOpType DEF Crash, store, TypeOK
<1>2. /\ spoiled \subseteq spoiled'
      /\ \A b \in Actors : At(b, "forget") => op[b].commit \in spoiled'
  BY DEF Crash
<1>3. LiveInv' /\ MakerInv' /\ ForgetInv' /\ UnlinkInv'
  BY <1>1 DEF LiveInv, MakerInv, ForgetInv, UnlinkInv, Making, At
<1>4. NamedInv' /\ VictimInv'
  BY <1>1 DEF NamedInv, VictimInv, Listed, Making
<1>5. ListInv'
  BY <1>1, <1>2 DEF ListInv, Anchored
<1>6. NoLostRefs'
  BY <1>1 DEF NoLostRefs
<1> QED
  BY <1>3, <1>4, <1>5, <1>6

LEMMA NamesStep ==
    ASSUME TypeOK, KindInv, NamesInv, [Next]_vars
    PROVE  NamesInv'
<1>1. ASSUME NEW a \in Actors, Work(a) PROVE NamesInv'
  <2> USE DEF At
  <2>0. op \in [Actors -> Op]
    BY DEF TypeOK
  <2>1. ASSUME Begin(a) \/ QuietStep(a) PROVE Quiet
    <3>1. CASE Begin(a)
      <4>1. op[a].step = "none"
        BY <3>1 DEF Begin, KindInv, Kind, StepsOf
      <4>2. /\ \A b \in Actors : b # a => op'[b] = op[b]
            /\ op'[a] = op[a] \/ (op'[a].step = "sweep" /\ op'[a].victims = {})
        BY <3>1, BeginTypes DEF BeginType
      <4> QED
        BY <3>1, <4>1, <4>2 DEF Begin, store, history, Quiet, Views
    <3>2. CASE QuietStep(a)
      <4>1. op' = op
        BY <3>2, QuietTypes
      <4>2. CASE RunCommand(a)
        BY <4>1, <4>2, CommandEffect DEF Quiet, Views
      <4> QED
        BY <3>2, <4>1, <4>2 DEF QuietStep, Ask, RunNothing, RunEdit, End, snapshotVars, store,
           history, Quiet, Views
    <3> QED
      BY <2>1, <3>1, <3>2
  <2>2. ASSUME Checkpointed(a) \/ CheckpointFailed(a) \/ Returned(a) PROVE Quiet
    <3>1. /\ \A b \in Actors : b # a => op'[b] = op[b]
          /\ op'[a].step = "none" /\ op'[a].victims = {}
      BY <2>2, CheckpointTypes, ReturnedTypes
    <3>2. op[a].step \in {"done", "failed"}
      BY <2>2 DEF Checkpointed, CheckpointFailed, Returned
    <3> QED
      BY <2>2, <3>1, <3>2 DEF Checkpointed, CheckpointFailed, Returned, store, history, Quiet, Views
  <2>3. ASSUME CallStep(a) PROVE Quiet
    <3>1. /\ \A b \in Actors : b # a => op'[b] = op[b]
          /\ op'[a].step \in {"sweep", "select", "archive"} /\ op'[a].victims = {}
      BY <2>3, CallTypes DEF CallType
    <3>2. op[a].step = "none"
      BY <2>3 DEF CallStep, RunBackup, RunPrune, RunRestore, Rollback, Runs, HasCall, KindInv,
         Kind, StepsOf
    <3> QED
      BY <2>3, <3>1, <3>2 DEF CallStep, RunBackup, RunPrune, RunRestore, Rollback, store, history,
         Quiet, Views
  <2>4. ASSUME CreateStep(a) PROVE NamesInv'
    <3>1. CASE Stage(a)
      <4>1. Quiet
        BY <2>0, <2>4, <3>1, GotoType
           DEF CreateStep, Stage, Copied, history, Quiet, Views
      <4> QED
        BY <4>1, QuietNames
    <3>3. CASE CommitIndex(a)
      <4>1. Others(a) /\ op[a].step = "commit" /\ op'[a].step = "publish"
            /\ op'[a].victims = op[a].victims /\ commits \subseteq commits'
        BY <3>3, CommitEffect
      <4>2. Quiet
        BY <2>4, <3>3, <4>1 DEF CreateStep, CommitIndex, history, Quiet, Views, Others
      <4> QED
        BY <4>2, QuietNames
    <3> QED
      BY <2>4, <3>1, <3>3, PublishNames, DescribeNames, FillNames DEF CreateStep
  <2>5. ASSUME FailStep(a) PROVE Quiet
    <3>1. Goto(a, "failed") /\ op[a].step \in {"commit", "publish", "unref", "archive", "copy", "select"}
      BY <2>5 DEF FailStep, GitFails, SelectFails, Copied
    <3> QED
      BY <2>0, <2>5, <3>1, GotoType DEF FailStep, GitFails, SelectFails, store, history, Quiet, Views
  <2>6. ASSUME RestoreStep(a) PROVE Quiet
    BY <2>0, <2>6, GotoType
       DEF RestoreStep, Archive, Restored, Copied, store, history, Quiet, Views
  <2>7. ASSUME SyncStep(a) PROVE Quiet
    BY <2>7, SyncEffect DEF SyncFrame, SyncSteps, Quiet, Views, Others
  <2>8. CASE PruneStep(a)
    BY <2>8, UnrefNames, ForgetNames, CollectNames DEF PruneStep
  <2> QED
    BY <1>1, <2>1, <2>2, <2>3, <2>4, <2>5, <2>6, <2>7, <2>8, QuietNames, SelectNames
       DEF Work, RunCommand, QuietStep, CallStep
<1>2. CASE Crash
  BY <1>2, CrashNames
<1>3. CASE Tick \/ UNCHANGED vars
  <2>1. Quiet
    BY <1>3 DEF Tick, vars, snapshotVars, store, history, Quiet, Views
  <2> QED
    BY <2>1, QuietNames
<1> QED
  BY <1>1, <1>2, <1>3 DEF Next

LEMMA NamesInit == Init => NamesInv
<1> SUFFICES ASSUME Init PROVE NamesInv
  OBVIOUS
<1>1. /\ \A a \in Actors : op[a].step = "none" /\ op[a].victims = {}
      /\ live = {} /\ meta = {}
  BY NoOpType DEF Init, SnapshotsInit
<1> QED
  BY <1>1 DEF NamesInv, LiveInv, MakerInv, NamedInv, VictimInv, ForgetInv, ListInv, UnlinkInv,
     NoLostRefs, Making, At

----
(* Held *)

LEMMA KeptStays ==
    ASSUME TypeOK, KindInv, NamesInv, [Next]_vars, NEW c, Kept(c)
    PROVE  Kept(c)'
<1>1. CASE UNCHANGED <<refs, live>> /\ pruned \subseteq pruned'
  BY <1>1 DEF Kept, Anchored
<1>2. ASSUME NEW a \in Actors, Publish(a), pruned' = pruned PROVE Kept(c)'
  <2>1. live \subseteq live' /\ \A n \in live : refs'[n] = refs[n]
    BY <1>2, PublishEffect, SnapshotAssumption DEF TypeOK, Refs
  <2> QED
    BY <1>2, <2>1 DEF Kept, Anchored
<1>3. ASSUME NEW a \in Actors, Unref(a), PruneStep(a) PROVE Kept(c)'
  <2>1. PICK m \in op[a].victims : live' = live \ {m.ref}
    BY <1>3, UnrefEffect
  <2>2. refs[m.ref] = m.commit /\ m.commit \in pruned
    BY DEF NamesInv, VictimInv, Listed
  <2>3. UNCHANGED <<refs, pruned>>
    BY <1>3 DEF Unref, PruneStep, history
  <2> QED
    BY <2>1, <2>2, <2>3 DEF Kept, Anchored
<1>4. ASSUME NEW a \in Actors, Work(a) PROVE Kept(c)'
  <2>1. CASE Begin(a) \/ Rollback(a) \/ Checkpointed(a) \/ CheckpointFailed(a)
    BY <1>1, <2>1 DEF Begin, Rollback, Checkpointed, CheckpointFailed, store, history
  <2>2. CASE Ask(a) \/ RunNothing(a) \/ End(a)
    BY <1>1, <2>2 DEF Ask, RunNothing, End, snapshotVars, store, history
  <2>3. CASE RunEdit(a) \/ RunBackup(a) \/ RunPrune(a) \/ RunRestore(a) \/ Returned(a)
    BY <1>1, <2>3 DEF RunEdit, RunBackup, RunPrune, RunRestore, Returned, store, history
  <2>4. CASE CreateStep(a)
    BY <1>1, <1>2, <2>4 DEF CreateStep, Stage, CommitIndex, Describe, Fill, history
  <2>5. CASE FailStep(a) \/ RestoreStep(a)
    BY <1>1, <2>5 DEF FailStep, GitFails, SelectFails, RestoreStep, Archive, Restored, store, history
  <2>9. CASE SyncStep(a)
    BY <1>1, <2>9, SyncEffect
  <2>6. CASE SelectStep(a)
    BY <1>1, <2>6 DEF SelectStep, Select, store
  <2>7. CASE PruneStep(a)
    BY <1>1, <1>3, <2>7 DEF PruneStep, Forget, Collect, history
  <2>8. CASE RunCommand(a)
    BY <1>1, <2>8, CommandEffect
  <2> QED
    BY <1>4, <2>1, <2>2, <2>3, <2>4, <2>5, <2>6, <2>7, <2>8, <2>9 DEF Work, RunCommand
<1>5. CASE Crash \/ Tick \/ UNCHANGED vars
  BY <1>1, <1>5 DEF Crash, Tick, vars, snapshotVars, store, history
<1> QED
  BY <1>4, <1>5 DEF Next

(* What a step of one actor leaves of the batches of the others *)
LEMMA BatchOthers ==
    ASSUME TypeOK, NEW a \in Actors, Work(a), NEW b \in Actors, b # a
    PROVE  /\ batch'[b].step = batch[b].step /\ batch'[b].calls = batch[b].calls
           /\ batch'[b].next = batch[b].next
           /\ batch'[b].cp = batch[b].cp /\ batch'[b].before = batch[b].before
           /\ batch'[b].alone => batch[b].alone /\ batch'[b] = batch[b]
<1>1. CASE batch'[b] = batch[b]
  BY <1>1
<1>2. CASE batch'[b] = Disturbed(a)[b]
  BY <1>2, DisturbedType DEF TypeOK
<1>3. batch'[b] = batch[b] \/ batch'[b] = Disturbed(a)[b]
  <2>0. batch \in [Actors -> Batch] /\ Disturbed(a) \in [Actors -> Batch]
    BY DisturbedType DEF TypeOK
  <2>1. CASE Begin(a) \/ Rollback(a)
    BY <2>0, <2>1 DEF Begin, Rollback
  <2>2. CASE Checkpointed(a) \/ CheckpointFailed(a) \/ Returned(a)
    BY <2>0, <2>2 DEF Checkpointed, CheckpointFailed, Returned
  <2>3. CASE Ask(a) \/ RunNothing(a) \/ End(a)
    BY <2>0, <2>3 DEF Ask, RunNothing, End, Advanced
  <2>4. CASE RunEdit(a) \/ RunCommand(a)
    BY <2>0, <2>4, CommandEffect DEF RunEdit
  <2>5. CASE RunBackup(a) \/ RunPrune(a) \/ RunRestore(a)
    BY <2>0, <2>5 DEF RunBackup, RunPrune, RunRestore
  <2>6. CASE SyncStep(a)
    BY <2>6 DEF SyncStep
  <2>7. CASE CreateStep(a) \/ FailStep(a) \/ SelectStep(a) \/ PruneStep(a) \/ RestoreStep(a)
    BY <2>7 DEF CreateStep, FailStep, SelectStep, PruneStep, RestoreStep
  <2> QED
    BY <2>1, <2>2, <2>3, <2>4, <2>5, <2>6, <2>7 DEF Work, RunCommand
<1> QED
  BY <1>1, <1>2, <1>3

(* What the steps of a batch do to it *)
Keeps(a) == batch'[a].cp = batch[a].cp /\ batch'[a].calls = batch[a].calls

Resets(a) == batch'[a].cp = NoCommit /\ batch'[a].calls = <<>>

LEMMA BeginEffect ==
    ASSUME TypeOK, NEW a \in Actors, Begin(a)
    PROVE  /\ batch'[a].cp = NoCommit /\ batch'[a].before = disk
           /\ batch'[a].alone <=> \A b \in Actors : ~Creating(b)
           /\ \/ /\ CheckpointRequired(batch'[a].calls) /\ batch'[a].step = "checkpoint"
                 /\ op'[a].kind = "create" /\ op'[a].step = "sweep"
                 /\ op'[a].dir = NoFile /\ op'[a].left = {}
                 /\ op'[a].open = NoFile /\ op'[a].into = NoFile
                 /\ \A b \in Actors : b # a => ~batch'[b].alone
              \/ /\ ~CheckpointRequired(batch'[a].calls) /\ batch'[a].step = "run"
                 /\ op' = op
<1> DEFINE alone == \A b \in Actors : ~Creating(b)
<1>0. batch \in [Actors -> Batch] /\ Disturbed(a) \in [Actors -> Batch]
      /\ \A b \in Actors : b # a => ~Disturbed(a)[b].alone
  BY DisturbedType DEF TypeOK
<1>1. PICK calls \in Batches :
          LET begun == [NoBatch EXCEPT !.calls = calls, !.before = disk, !.alone = alone]
          IN IF CheckpointRequired(calls)
             THEN /\ op' = [op EXCEPT ![a] = Blank("create", "sweep", CheckpointLabel)]
                  /\ batch' = [Disturbed(a) EXCEPT ![a] = [begun EXCEPT !.step = "checkpoint"]]
             ELSE /\ batch' = [batch EXCEPT ![a] = [begun EXCEPT !.step = "run"]]
                  /\ UNCHANGED op
  BY DEF Begin
<1> HIDE DEF alone
<1> DEFINE begun == [NoBatch EXCEPT !.calls = calls, !.before = disk, !.alone = alone]
<1>2. /\ begun.cp = NoCommit /\ begun.before = disk /\ begun.alone = alone /\ begun.calls = calls
      /\ DOMAIN begun = DOMAIN NoBatch
  BY DEF NoBatch
<1>3. CASE CheckpointRequired(calls)
  <2> DEFINE t == [begun EXCEPT !.step = "checkpoint"]
             r == Blank("create", "sweep", CheckpointLabel)
  <2>1. /\ t.cp = NoCommit /\ t.before = disk /\ t.alone = alone /\ t.calls = calls
        /\ t.step = "checkpoint"
    BY DEF NoBatch
  <2>2. /\ r.kind = "create" /\ r.step = "sweep"
        /\ r.dir = NoFile /\ r.left = {} /\ r.open = NoFile /\ r.into = NoFile
    BY DEF Blank
  <2>3. op' = [op EXCEPT ![a] = r] /\ batch' = [Disturbed(a) EXCEPT ![a] = t]
    BY <1>1, <1>3
  <2> HIDE DEF t, r, begun
  <2>4. op'[a] = r /\ batch'[a] = t /\ \A b \in Actors : b # a => ~batch'[b].alone
    BY <1>0, <2>3 DEF TypeOK
  <2> QED
    BY <1>3, <2>1, <2>2, <2>4 DEF alone
<1>4. CASE ~CheckpointRequired(calls)
  <2> DEFINE t == [begun EXCEPT !.step = "run"]
  <2>1. /\ t.cp = NoCommit /\ t.before = disk /\ t.alone = alone /\ t.calls = calls
        /\ t.step = "run"
    BY DEF NoBatch
  <2>2. op' = op /\ batch' = [batch EXCEPT ![a] = t]
    BY <1>1, <1>4
  <2> HIDE DEF t, begun
  <2>3. batch'[a] = t
    BY <1>0, <2>2
  <2> QED
    BY <1>4, <2>1, <2>2, <2>3 DEF alone
<1> QED
  BY <1>3, <1>4

LEMMA RunEffect ==
    ASSUME TypeOK, NEW a \in Actors, Ask(a) \/ RunNothing(a) \/ RunEdit(a) \/ RunCommand(a)
    PROVE  /\ Keeps(a) /\ op' = op
           /\ batch[a].step = "run" /\ batch'[a].step = "run"
<1>0. batch \in [Actors -> Batch] /\ Disturbed(a) \in [Actors -> Batch]
      /\ Disturbed(a)[a] = batch[a]
  BY DisturbedType DEF TypeOK
<1>6. CASE RunCommand(a)
  BY <1>0, <1>6, CommandEffect DEF Keeps
<1>7. SUFFICES ASSUME Ask(a) \/ RunNothing(a) \/ RunEdit(a)
               PROVE  Keeps(a) /\ op' = op /\ batch[a].step = "run" /\ batch'[a].step = "run"
  BY <1>6
<1>1. PICK f \in {batch, Disturbed(a)} : batch' = [f EXCEPT ![a].next = @ + 1]
  BY <1>7 DEF Ask, RunNothing, RunEdit, Advanced
<1> DEFINE q == batch[a]
           t == [q EXCEPT !.next = @ + 1]
<1>2. t.cp = q.cp /\ t.calls = q.calls /\ t.step = q.step
  BY <1>0 DEF Batch
<1>3. f \in [Actors -> Batch] /\ f[a] = q
  BY <1>0
<1>4. batch' = [f EXCEPT ![a] = t]
  BY <1>1, <1>3
<1>5. batch'[a] = t
  BY <1>3, <1>4
<1> HIDE DEF t
<1> QED
  BY <1>2, <1>5, <1>7 DEF Keeps, Ask, RunNothing, RunEdit, Runs, HasCall, snapshotVars

LEMMA CallEffect ==
    ASSUME TypeOK, NEW a \in Actors, RunBackup(a) \/ RunPrune(a) \/ RunRestore(a)
    PROVE  Keeps(a) /\ batch[a].step = "run" /\ batch'[a].step = "call"
<1>0. batch \in [Actors -> Batch] /\ Disturbed(a) \in [Actors -> Batch]
      /\ Disturbed(a)[a] = batch[a]
  BY DisturbedType DEF TypeOK
<1>1. CASE RunBackup(a) \/ RunPrune(a)
  <2>1. PICK f \in {batch, Disturbed(a)} : batch' = [f EXCEPT ![a].step = "call"]
    BY <1>1 DEF RunBackup, RunPrune
  <2> QED
    BY <1>0, <1>1, <2>1 DEF Keeps, Batch, RunBackup, RunPrune, Runs, HasCall
<1>2. CASE RunRestore(a)
  <2>1. batch' = [Disturbed(a) EXCEPT ![a].step = "call", ![a].alone = TRUE]
    BY <1>2 DEF RunRestore
  <2> QED
    BY <1>0, <1>2, <2>1 DEF Keeps, Batch, RunRestore, Runs, HasCall
<1> QED
  BY <1>1, <1>2

LEMMA ReturnedEffect ==
    ASSUME TypeOK, NEW a \in Actors, Returned(a)
    PROVE  Keeps(a) /\ batch[a].step = "call"
<1>1. batch' = [batch EXCEPT ![a].step = "run", ![a].next = batch[a].next + 1]
  BY DEF Returned, TypeOK
<1> DEFINE n == batch[a].next + 1
<1>2. batch' = [batch EXCEPT ![a].step = "run", ![a].next = n]
  BY <1>1
<1> HIDE DEF n
<1> QED
  BY <1>2 DEF Keeps, TypeOK, Batch, Returned

LEMMA CheckpointedEffect ==
    ASSUME TypeOK, NEW a \in Actors, Checkpointed(a)
    PROVE  /\ batch'[a].cp = op[a].commit /\ batch'[a].calls = batch[a].calls
           /\ batch[a].step = "checkpoint" /\ batch'[a].step = "run"
           /\ op[a].step = "done"
<1> DEFINE c == op[a].commit
<1>1. batch' = [batch EXCEPT ![a].step = "run", ![a].cp = c]
  BY DEF Checkpointed
<1> HIDE DEF c
<1>2. batch'[a].cp = c /\ batch'[a].calls = batch[a].calls /\ batch'[a].step = "run"
  BY <1>1 DEF TypeOK, Batch
<1> QED
  BY <1>2 DEF c, Checkpointed, At

LEMMA ResetEffect ==
    ASSUME TypeOK, NEW a \in Actors, CheckpointFailed(a) \/ End(a) \/ Rollback(a)
    PROVE  Resets(a)
<1>0. batch \in [Actors -> Batch] /\ Disturbed(a) \in [Actors -> Batch]
  BY DisturbedType DEF TypeOK
<1>1. CASE CheckpointFailed(a) \/ End(a)
  BY <1>0, <1>1 DEF CheckpointFailed, End, NoBatch, Resets
<1>2. CASE Rollback(a)
  <2> DEFINE t == [NoBatch EXCEPT !.step = "call", !.alone = TRUE]
  <2>1. t.cp = NoCommit /\ t.calls = <<>>
    BY DEF NoBatch
  <2>2. batch' = [Disturbed(a) EXCEPT ![a] = t]
    BY <1>2 DEF Rollback
  <2> HIDE DEF t
  <2> QED
    BY <1>0, <2>1, <2>2 DEF Resets
<1> QED
  BY <1>1, <1>2

LEMMA HeldStep ==
    ASSUME TypeOK, KindInv, NamesInv, HeldInv, [Next]_vars
    PROVE  HeldInv'
<1>0. \A c : Kept(c) => Kept(c)'
  BY KeptStays
<1>1. ASSUME NEW b \in Actors, op'[b] = op[b],
             batch'[b].cp = batch[b].cp, batch'[b].calls = batch[b].calls,
             batch'[b].step = batch[b].step
      PROVE  Held(b)'
  BY <1>0, <1>1 DEF HeldInv, Held, Creating
<1>2. ASSUME NEW a \in Actors, Work(a) PROVE HeldInv'
  <2> SUFFICES Held(a)'
    <3>1. ASSUME NEW b \in Actors, b # a PROVE Held(b)'
      <4>1. op'[b] = op[b]
        <5>1. CASE Begin(a)
          BY <3>1, <5>1, BeginTypes
        <5>2. CASE Checkpointed(a) \/ CheckpointFailed(a)
          BY <3>1, <5>2, CheckpointTypes
        <5>3. CASE QuietStep(a)
          BY <5>3, QuietTypes
        <5>4. CASE CallStep(a)
          BY <3>1, <5>4, CallTypes
        <5>5. CASE Returned(a)
          BY <3>1, <5>5, ReturnedTypes
        <5>6. CASE ManagerStep(a)
          BY <3>1, <5>6, ManagerKind DEF Others
        <5> QED
          BY <1>2, <5>1, <5>2, <5>3, <5>4, <5>5, <5>6 DEF Work, RunCommand, QuietStep, CallStep, ManagerStep
      <4> QED
        BY <1>1, <1>2, <3>1, <4>1, BatchOthers
    <3> QED
      BY <3>1 DEF HeldInv
  <2>0. ~CheckpointRequired(<<>>)
    BY DEF CheckpointRequired
  <2>1. Held(a) /\ op \in [Actors -> Op]
    BY DEF HeldInv, TypeOK
  <2>2. CASE Begin(a)
    <3>1. op[a].kind = "none"
      BY <2>2 DEF Begin, KindInv, Kind
    <3> QED
      BY <2>2, <3>1, BeginEffect DEF Held, Creating
  <2>3. CASE Checkpointed(a)
    <3>1. Creating(a) /\ op[a].commit \in Commit
      BY <2>3, CheckpointedEffect DEF Checkpointed, KindInv, Kind, Creating
    <3>2. PICK c : c = op[a].commit
      OBVIOUS
    <3>3. Kept(c) /\ Kept(c)'
      BY <1>0, <2>1, <2>3, <3>1, <3>2, CheckpointedEffect DEF Held
    <3>4. op'[a].kind = "none" /\ batch'[a].cp = c
      BY <2>3, <3>2, CheckpointTypes, CheckpointedEffect
    <3>5. c # NoCommit
      BY <3>1, <3>2, CommitAssumption
    <3> QED
      BY <3>3, <3>4, <3>5 DEF Held, Creating, Kept, Anchored
  <2>4. CASE CheckpointFailed(a) \/ End(a) \/ Rollback(a)
    <3>1. op'[a].kind # "create"
      <4>1. CASE CheckpointFailed(a)
        BY <4>1, CheckpointTypes
      <4>2. CASE End(a)
        BY <4>2, QuietTypes DEF QuietStep, KindInv, Kind
      <4>3. CASE Rollback(a)
        BY <4>3, StartRestoreType DEF Rollback
      <4> QED
        BY <2>4, <4>1, <4>2, <4>3
    <3> QED
      BY <2>0, <2>4, <3>1, ResetEffect DEF Resets, Held, Creating
  <2>5. CASE Ask(a) \/ RunNothing(a) \/ RunEdit(a) \/ RunCommand(a)
    BY <1>1, <2>5, RunEffect DEF Keeps
  <2>6. CASE RunBackup(a) \/ RunPrune(a) \/ RunRestore(a)
    <3>1. op'[a].step \notin {"describe", "fill", "done"}
      BY <2>6, CallTypes DEF CallStep, CallType
    <3> QED
      BY <1>0, <2>1, <2>6, <3>1, CallEffect DEF Keeps, Held
  <2>7. CASE Returned(a)
    <3>1. op'[a].kind = "none"
      BY <2>7, ReturnedTypes
    <3> QED
      BY <1>0, <2>1, <2>7, <3>1, ReturnedEffect, ReturnedTypes DEF Keeps, Held, Creating
  <2>8. CASE ManagerStep(a)
    <3>1. batch'[a] = batch[a]
      BY <2>8, ManagerBatch
    <3>2. SUFFICES ASSUME op'[a].kind = "create", op'[a].step \in {"describe", "fill", "done"},
                          NEW c, c = op'[a].commit
                   PROVE  Kept(c)'
      <4>1. batch'[a].cp # NoCommit => Kept(batch[a].cp)'
        <5>1. PICK c : c = batch[a].cp
          OBVIOUS
        <5>2. batch[a].cp # NoCommit => Kept(c)'
          BY <1>0, <2>1, <5>1 DEF Held
        <5> QED
          BY <3>1, <5>1, <5>2 DEF Kept, Anchored
      <4> QED
        BY <2>1, <3>1, <4>1 DEF Held, Creating, Kept, Anchored
    <3>3. CASE Publish(a)
      BY <3>2, <3>3, PublishEffect DEF Kept, Anchored
    <3>4. CASE Describe(a) \/ Fill(a)
      <4>1. Creating(a) /\ op[a].step \in {"describe", "fill"} /\ op'[a].commit = op[a].commit
        BY <2>1, <3>4, GotoType, KindOfStep DEF Describe, Fill, At, Creating
      <4> QED
        BY <1>0, <2>1, <3>2, <4>1 DEF Held
    <3>5. CASE ~(Publish(a) \/ Describe(a) \/ Fill(a))
      <4>1. CASE CreateStep(a)
        BY <2>1, <3>2, <3>5, <4>1, GotoType, CommitEffect DEF CreateStep, Stage
      <4>2. CASE FailStep(a)
        BY <2>1, <3>2, <4>2, GotoType DEF FailStep, GitFails, SelectFails
      <4>3. CASE SelectStep(a)
        BY <3>2, <4>3, SelectEffect, KindOfStep DEF At
      <4>4. CASE PruneStep(a)
        BY <2>1, <3>2, <4>4, GotoType, UnrefEffect, KindOfStep DEF PruneStep, Forget, Collect, At
      <4>5. CASE RestoreStep(a)
        BY <2>1, <3>2, <4>5, GotoType, KindOfStep DEF RestoreStep, Archive, Restored, At
      <4>6. CASE SyncStep(a)
        BY <3>2, <4>6, SyncEffect DEF SyncSteps
      <4> QED
        BY <2>8, <4>1, <4>2, <4>3, <4>4, <4>5, <4>6 DEF ManagerStep
    <3> QED
      BY <3>3, <3>4, <3>5
  <2> QED
    BY <1>2, <2>2, <2>3, <2>4, <2>5, <2>6, <2>7, <2>8 DEF Work, RunCommand, ManagerStep
<1>3. CASE Crash
  BY <1>3, NoOpType, NoBatchType DEF Crash, HeldInv, Held, Creating
<1>4. CASE Tick \/ UNCHANGED vars
  BY <1>1, <1>4 DEF Tick, vars, snapshotVars, HeldInv
<1> QED
  BY <1>2, <1>3, <1>4 DEF Next

LEMMA HeldInit == Init => HeldInv
<1> SUFFICES ASSUME Init PROVE HeldInv
  OBVIOUS
<1>1. \A a \in Actors : op[a] = NoOp /\ batch[a] = NoBatch
  BY DEF Init, SnapshotsInit
<1> QED
  BY <1>1, NoOpType, NoBatchType DEF HeldInv, Held, Creating

----
(* Contents *)

LEMMA OpOthers ==
    ASSUME TypeOK, KindInv, NEW a \in Actors, Work(a)
    PROVE  Others(a)
<1>1. CASE Begin(a)
  BY <1>1, BeginTypes DEF Others
<1>2. CASE Checkpointed(a) \/ CheckpointFailed(a)
  BY <1>2, CheckpointTypes DEF Others
<1>3. CASE QuietStep(a)
  BY <1>3, QuietTypes DEF Others
<1>4. CASE CallStep(a)
  BY <1>4, CallTypes DEF Others
<1>5. CASE Returned(a)
  BY <1>5, ReturnedTypes DEF Others
<1>6. CASE ManagerStep(a)
  BY <1>6, ManagerKind
<1> QED
  BY <1>1, <1>2, <1>3, <1>4, <1>5, <1>6 DEF Work, RunCommand, QuietStep, CallStep, ManagerStep

(* A step that changes the workspace, or begins a snapshot, tells everybody *)
LEMMA AloneQuiet ==
    ASSUME TypeOK, KindInv, NEW a \in Actors, Work(a),
           NEW b \in Actors, b # a, batch'[b].alone
    PROVE  /\ disk' = disk
           /\ ~Creating(a) => ~Creating(a)' /\ mirror' = mirror /\ index' = index
<1> USE DEF Creating
<1>0. /\ batch \in [Actors -> Batch] /\ Disturbed(a) \in [Actors -> Batch]
      /\ ~Disturbed(a)[b].alone
  BY DisturbedType DEF TypeOK
<1>1. CASE Begin(a)
  BY <1>1, BeginEffect DEF Begin, store
<1>2. CASE Checkpointed(a) \/ CheckpointFailed(a) \/ Returned(a)
  BY <1>2, CheckpointTypes, ReturnedTypes DEF Checkpointed, CheckpointFailed, Returned, store
<1>3. CASE Ask(a) \/ RunNothing(a) \/ End(a)
  BY <1>3 DEF Ask, RunNothing, End, snapshotVars, store
<1>4. CASE RunEdit(a) \/ RunCommand(a) \/ RunBackup(a) \/ RunRestore(a) \/ Rollback(a)
  <2>1. CASE RunEdit(a) \/ RunCommand(a)
    BY <1>0, <2>1, CommandEffect DEF RunEdit
  <2>2. CASE RunBackup(a)
    BY <1>0, <2>2 DEF RunBackup
  <2>3. CASE RunRestore(a) \/ Rollback(a)
    BY <1>0, <2>3 DEF RunRestore, Rollback
  <2> QED
    BY <1>4, <2>1, <2>2, <2>3
<1>5. CASE RunPrune(a)
  <2>1. op'[a].kind = "prune"
    BY <1>5, BlankType, OpUpdate, BatchAssumption DEF RunPrune, TypeOK
  <2> QED
    BY <1>5, <2>1 DEF RunPrune, store
<1>6. CASE SyncStep(a)
  <2>1. op[a].kind = "create"
    BY <1>0, <1>6, SyncEffect, KindOfStep DEF SyncSteps
  <2>2. disk' = disk
    BY <1>6, <2>1, SyncEffect DEF Write
  <2> QED
    BY <2>1, <2>2
<1>7. CASE CreateStep(a)
  <2>1. op[a].kind = "create" /\ disk' = disk
    BY <1>7, KindOfStep DEF CreateStep, Stage, CommitIndex, Publish, Describe, Fill, At
  <2> QED
    BY <2>1
<1>8. CASE FailStep(a) \/ SelectStep(a) \/ PruneStep(a) \/ RestoreStep(a)
  <2>1. op'[a].kind = op[a].kind
    <3>1. CASE FailStep(a) \/ RestoreStep(a)
      BY <3>1, GotoType DEF FailStep, GitFails, SelectFails, RestoreStep, Archive, Restored, TypeOK
    <3>2. CASE SelectStep(a)
      BY <3>2, SelectEffect
    <3>3. CASE PruneStep(a)
      BY <3>3, UnrefEffect, GotoType DEF PruneStep, Forget, Collect, TypeOK
    <3> QED
      BY <1>8, <3>1, <3>2, <3>3
  <2>2. UNCHANGED <<disk, mirror, index>>
    BY <1>8 DEF FailStep, GitFails, SelectFails, SelectStep, Select, PruneStep, Unref, Forget,
       Collect, RestoreStep, Archive, Restored, store
  <2> QED
    BY <2>1, <2>2
<1> QED
  BY <1>1, <1>2, <1>3, <1>4, <1>5, <1>6, <1>7, <1>8 DEF Work, RunCommand

LEMMA OtherContents ==
    ASSUME TypeOK, KindInv, ContentsInv, NEW a \in Actors, Work(a), NEW b \in Actors, b # a
    PROVE  Shot(b)' /\ Extracting(b)'
<1>1. op'[b] = op[b] /\ \A d \in Actors : d # a => op'[d] = op[d]
  BY OpOthers DEF Others
<1>2. batch'[b].step = batch[b].step /\ (batch'[b].alone => batch[b].alone /\ batch'[b] = batch[b])
  BY BatchOthers
<1>3. Shot(b)'
  <2> SUFFICES ASSUME batch[b].step = "checkpoint", batch'[b].alone
               PROVE  Shot(b)'
    BY <1>2 DEF Shot
  <2>1. batch[b].alone /\ batch'[b] = batch[b] /\ \A d \in Actors : d # b => ~Creating(d)
    BY <1>2 DEF ContentsInv, ShotInv, Shot
  <2>2. disk' = disk /\ mirror' = mirror /\ index' = index /\ ~Creating(a)'
    BY <2>1, AloneQuiet
  <2>3. \A d \in Actors : d # b => ~Creating(d)'
    BY <1>1, <2>1, <2>2 DEF Creating
  <2> QED
    BY <1>1, <2>1, <2>2, <2>3 DEF ContentsInv, ShotInv, Shot, At
<1>4. Extracting(b)'
  <2>1. batch'[b].alone => disk' = disk /\ batch[b].alone
    BY <1>2, AloneQuiet
  <2> QED
    BY <1>1, <2>1 DEF ContentsInv, RestoreInv, Extracting, At
<1> QED
  BY <1>3, <1>4

(* The copy of S to T, step by step *)

LEMMA SweepAgrees ==
    ASSUME NEW S \in Tree, NEW T \in Tree, NEW r \in Op, NEW q, Agrees(r, S, T),
           r.step = "sweep", q.step = "list", q.dir = r.dir, q.left = r.left,
           q.open = r.open, q.into = r.into, q.nested = r.nested
    PROVE  Agrees(q, S, Swept(T, S, r.dir))
<1> SUFFICES ASSUME ~r.nested
             PROVE  Agrees(q, S, Swept(T, S, r.dir))
  BY DEF Agrees
<1>1. r.dir \in Files \cup {NoFile}
  BY DEF Op
<1>2. /\ \A f \in Files : Waiting(r, f) \/ T[f] = S[f]
      /\ \A f \in r.left : S[f] # Absent
      /\ r.into = r.open /\ r.open = NoFile
  BY DEF Agrees, SyncSteps
<1>3. \A f \in Files : Waiting(q, f) \/ Swept(T, S, r.dir)[f] = S[f]
  <2> SUFFICES ASSUME NEW f \in Files, ~Waiting(q, f)
               PROVE  Swept(T, S, r.dir)[f] = S[f]
    OBVIOUS
  <2>1. ~Waiting(r, f) /\ r.dir \notin Above[f] \cup {NoFile}
    BY DEF Waiting
  <2>2. \A g \in Files :
            r.dir = NoFile \/ r.dir \in Above[g] \/ Swept(T, S, r.dir)[g] = T[g]
    BY <1>1, SweptType
  <2> QED
    BY <1>2, <2>1, <2>2
<1>4. \A f \in In(r.dir) : S[f] = Absent => Swept(T, S, r.dir)[f] = Absent
  BY <1>1, SweptType
<1> QED
  BY <1>2, <1>3, <1>4 DEF Agrees

LEMMA ListAgrees ==
    ASSUME NEW S \in Tree, NEW T \in Tree, NEW r \in Op, NEW q, Agrees(r, S, T),
           r.step = "list", q.step = "copy", q.dir = r.dir,
           q.left = r.left \cup {f \in In(r.dir) : S[f] # Absent},
           q.open = r.open, q.into = r.into, q.nested = r.nested
    PROVE  Agrees(q, S, T)
<1> SUFFICES ASSUME ~r.nested
             PROVE  Agrees(q, S, T)
  BY DEF Agrees
<1>1. /\ \A f \in Files : Waiting(r, f) \/ T[f] = S[f]
      /\ \A f \in r.left : S[f] # Absent
      /\ \A f \in In(r.dir) : S[f] = Absent => T[f] = Absent
      /\ r.into = r.open /\ r.open = NoFile
  BY DEF Agrees, SyncSteps
<1>2. \A f \in Files : Waiting(q, f) \/ T[f] = S[f]
  <2> SUFFICES ASSUME NEW f \in Files, ~Waiting(q, f), T[f] # S[f]
               PROVE  FALSE
    OBVIOUS
  <2>1. f \notin q.left /\ Above[f] \cap q.left = {} /\ f # r.open
    BY DEF Waiting
  <2>2. r.dir \in Above[f] \cup {NoFile}
    BY <1>1, <2>1 DEF Waiting
  <2>3. PICK g \in In(r.dir) : g = f \/ f \in Below(g)
    BY <2>2, PathAssumption
  <2>4. S[g] = Absent /\ g \in Files
    BY <2>1, <2>3 DEF Below, In
  <2>5. T[g] = Absent
    BY <1>1, <2>3, <2>4
  <2>6. f \in Below(g)
    BY <2>3, <2>4, <2>5
  <2>7. S[f] = Absent /\ T[f] = Absent
    BY <2>4, <2>5, <2>6, SnapshotAssumption DEF Below, Tree
  <2> QED
    BY <2>7
<1> QED
  BY <1>1, <1>2 DEF Agrees

LEMMA EnterAgrees ==
    ASSUME NEW S \in Tree, NEW T \in Tree, NEW r \in Op, NEW q, Agrees(r, S, T),
           r.step = "copy", r.into = NoFile, NEW f \in r.left, S[f] = Dir, f \in Folders,
           q.step = "sweep", q.dir = f, q.left = r.left \ {f},
           q.open = r.open, q.into = r.into, q.nested = r.nested
    PROVE  Agrees(q, S, Put(T, f, Dir))
<1> SUFFICES ASSUME ~r.nested
             PROVE  Agrees(q, S, Put(T, f, Dir))
  BY DEF Agrees
<1>1. /\ \A g \in Files : Waiting(r, g) \/ T[g] = S[g]
      /\ \A g \in r.left : S[g] # Absent
      /\ r.into = r.open
  BY DEF Agrees, SyncSteps
<1>2. f \in Files /\ Dir \in Contents
  BY DEF Op, Contents
<1>3. /\ Put(T, f, Dir)[f] = Dir
      /\ \A d \in Above[f] : Put(T, f, Dir)[d] = Dir
      /\ \A g \in Files : g # f /\ g \notin Above[f] => Put(T, f, Dir)[g] = T[g]
  BY <1>2, PutType
<1>4. \A d \in Above[f] : S[d] = Dir
  BY <1>2, SnapshotAssumption DEF Tree
<1>5. \A g \in Files : Waiting(q, g) \/ Put(T, f, Dir)[g] = S[g]
  <2> SUFFICES ASSUME NEW g \in Files, ~Waiting(q, g), g # f, g \notin Above[f]
               PROVE  T[g] = S[g]
    BY <1>3, <1>4
  <2>1. ~Waiting(r, g)
    BY DEF Waiting
  <2> QED
    BY <1>1, <2>1
<1> QED
  BY <1>1, <1>5 DEF Agrees

LEMMA CopyOpenAgrees ==
    ASSUME NEW S \in Tree, NEW T \in Tree, NEW r \in Op, NEW q, Agrees(r, S, T),
           r.step = "copy", r.into = NoFile, NEW f \in r.left, S[f] \in Data,
           NEW g \in Files, T[g] # Dir,
           q.step = "copy", q.dir = r.dir, q.left = r.left \ {f},
           q.open = f, q.into = g, q.nested = (r.nested \/ g # f)
    PROVE  Agrees(q, S, Put(T, g, Partial))
<1> SUFFICES ASSUME ~r.nested, g = f
             PROVE  Agrees(q, S, Put(T, f, Partial))
  BY DEF Agrees
<1>1. /\ \A h \in Files : Waiting(r, h) \/ T[h] = S[h]
      /\ \A h \in r.left : S[h] # Absent
      /\ r.into = r.open
  BY DEF Agrees, SyncSteps
<1>2. f \in Files /\ Partial \in Contents /\ Partial \in Data /\ Partial # Dir
  BY SnapshotAssumption DEF Op, Contents, Data
<1>3. /\ Put(T, f, Partial)[f] = Partial
      /\ \A d \in Above[f] : Put(T, f, Partial)[d] = Dir
      /\ \A h \in Files : h # f /\ h \notin Above[f] => Put(T, f, Partial)[h] = T[h]
  BY <1>2, PutType
<1>4. S[f] # Absent /\ S[f] # Dir /\ \A d \in Above[f] : S[d] = Dir
  BY <1>2, SnapshotAssumption DEF Tree
<1>5. \A h \in Files : Waiting(q, h) \/ Put(T, f, Partial)[h] = S[h]
  <2> SUFFICES ASSUME NEW h \in Files, ~Waiting(q, h), h # f, h \notin Above[f]
               PROVE  T[h] = S[h]
    BY <1>3, <1>4 DEF Waiting
  <2>1. CASE f \in Above[h]
    <3>1. S[h] = Absent /\ T[h] = Absent
      BY <1>2, <1>4, <2>1 DEF Tree
    <3> QED
      BY <3>1
  <2>2. CASE f \notin Above[h]
    <3>1. ~Waiting(r, h)
      BY <1>1, <2>2, PathAssumption DEF Waiting
    <3> QED
      BY <1>1, <3>1
  <2> QED
    BY <2>1, <2>2
<1> QED
  BY <1>1, <1>2, <1>3, <1>5 DEF Agrees

LEMMA CopyFillAgrees ==
    ASSUME NEW S \in Tree, NEW T \in Tree, NEW r \in Op, NEW q, Agrees(r, S, T),
           r.step = "copy", r.into \in Files, NEW U,
           \/ \E w \in Data : (S[r.open] \in Data => w = S[r.open]) /\ U = Put(T, r.into, w)
           \/ T[r.into] \notin Data,
           q.step = "copy", q.left = r.left, q.open = NoFile, q.into = NoFile,
           q.nested = r.nested
    PROVE  Agrees(q, S, U)
<1> SUFFICES ASSUME ~r.nested
             PROVE  Agrees(q, S, U)
  BY DEF Agrees
<1> DEFINE f == r.open
<1>1. /\ \A h \in Files : Waiting(r, h) \/ T[h] = S[h]
      /\ \A h \in r.left : S[h] # Absent
      /\ r.into = f /\ f \in Files /\ S[f] \in Data /\ T[f] \in Data
  BY PathAssumption DEF Agrees, SyncSteps
<1>2. U = Put(T, f, S[f])
  BY <1>1
<1>3. S[f] \in Contents /\ S[f] # Dir /\ S[f] # Absent /\ T[f] # Dir
  BY <1>1, SnapshotAssumption DEF Contents
<1>4. \A d \in Above[f] : S[d] = Dir
  BY <1>1, <1>3 DEF Tree
<1> HIDE DEF f
<1>5. /\ U[f] = S[f]
      /\ \A d \in Above[f] : U[d] = Dir
      /\ \A h \in Files : h # f /\ h \notin Above[f] => U[h] = T[h]
  BY <1>1, <1>2, <1>3, PutType
<1>6. \A h \in Files : Waiting(q, h) \/ U[h] = S[h]
  <2> SUFFICES ASSUME NEW h \in Files, ~Waiting(q, h), h # f, h \notin Above[f]
               PROVE  T[h] = S[h]
    BY <1>4, <1>5
  <2>1. ~Waiting(r, h)
    BY DEF Waiting, f
  <2> QED
    BY <1>1, <2>1
<1> QED
  BY <1>1, <1>6 DEF Agrees

(* Nothing waits any more *)
LEMMA CopiedAgrees ==
    ASSUME NEW S \in Tree, NEW T \in Tree, NEW r \in Op, Agrees(r, S, T), ~r.nested,
           r.step = "copy", r.into = NoFile, r.left = {}
    PROVE  T = S
<1>1. \A f \in Files : T[f] = S[f]
  <2> TAKE f \in Files
  <2>1. r.open = NoFile
    BY DEF Agrees, SyncSteps
  <2>2. ~Waiting(r, f)
    BY <2>1, PathAssumption DEF Waiting
  <2> QED
    BY <2>2 DEF Agrees, SyncSteps
<1> QED
  BY <1>1 DEF Tree

LEMMA WriteTarget ==
    ASSUME NEW a \in Actors, SyncFrame(a)
    PROVE  /\ \A tree : Write(a, tree) => Target(a)' = tree /\ Source(a)' = Source(a)
           /\ UNCHANGED <<disk, mirror>> => Target(a)' = Target(a) /\ Source(a)' = Source(a)
BY DEF SyncFrame, Write, Target, Source

LEMMA SyncAgrees ==
    ASSUME TypeOK, KindInv, NEW a \in Actors, SyncStep(a),
           Agrees(op[a], Source(a), Target(a))
    PROVE  Agrees(op'[a], Source(a)', Target(a)')
<1>1. op[a] \in Op /\ Source(a) \in Tree /\ Target(a) \in Tree
  BY SourceTarget DEF TypeOK
<1>2. CASE Sweep(a)
  BY <1>1, <1>2, SweepEffect, SweepAgrees, WriteTarget
<1>3. CASE List(a)
  BY <1>1, <1>3, ListEffect, ListAgrees, WriteTarget
<1>4. CASE Enter(a)
  BY <1>1, <1>4, EnterEffect, EnterAgrees, WriteTarget
<1>5. CASE CopyOpen(a)
  BY <1>1, <1>5, CopyOpenEffect, CopyOpenAgrees, WriteTarget
<1>6. CASE CopyFill(a)
  BY <1>1, <1>6, CopyFillEffect, CopyFillAgrees, WriteTarget
<1>7. CASE SyncFails(a)
  BY <1>7, SyncFailsEffect DEF Agrees, SyncSteps
<1> QED
  BY <1>2, <1>3, <1>4, <1>5, <1>6, <1>7 DEF SyncStep

(* A checkpoint that is alone, step by step *)
LEMMA SyncShot ==
    ASSUME TypeOK, KindInv, NEW a \in Actors, Shot(a), SyncStep(a)
    PROVE  Shot(a)'
<1> SUFFICES ASSUME batch'[a].step = "checkpoint", batch'[a].alone
             PROVE  Shot(a)'
  BY DEF Shot
<1> USE DEF At
<1>1. batch'[a] = batch[a]
  BY ManagerBatch DEF ManagerStep
<1>2. op[a].kind = "create"
  BY <1>1 DEF KindInv, Kind
<1>3. /\ \A b \in Actors : b # a => ~Creating(b)
      /\ disk = batch[a].before
      /\ Agrees(op[a], disk, mirror)
  BY <1>1 DEF Shot
<1>4. Source(a) = disk /\ Target(a) = mirror /\ op'[a].kind = "create"
  BY <1>2, SyncEffect DEF Source, Target, SyncFrame
<1>5. disk' = disk
  BY <1>2, SyncEffect DEF Write
<1>6. Agrees(op'[a], disk', mirror')
  <2>1. Source(a)' = disk' /\ Target(a)' = mirror'
    BY <1>4 DEF Source, Target
  <2> QED
    BY <1>3, <1>4, <2>1, SyncAgrees
<1>7. \A b \in Actors : b # a => ~Creating(b)'
  BY <1>3, SyncEffect DEF SyncFrame, Others, Creating
<1>8. op'[a].step \in SyncSteps \cup {"failed"}
  BY SyncEffect
<1> QED
  BY <1>1, <1>3, <1>5, <1>6, <1>7, <1>8 DEF Shot, SyncSteps

LEMMA CreateShot ==
    ASSUME TypeOK, KindInv, NEW a \in Actors, Shot(a), CreateStep(a)
    PROVE  Shot(a)'
<1> SUFFICES ASSUME batch[a].step = "checkpoint", batch[a].alone
             PROVE  Shot(a)'
  BY DEF CreateStep, Shot
<1> USE DEF At
<1>1. /\ disk' = disk /\ batch' = batch
      /\ disk = batch[a].before
      /\ op \in [Actors -> Op]
  BY DEF CreateStep, Stage, CommitIndex, Publish, Describe, Fill, Shot, TypeOK
<1>2. \A b \in Actors : b # a => ~Creating(b)'
  <2>1. Others(a)
    BY ManagerKind DEF ManagerStep
  <2> QED
    BY <2>1 DEF Shot, Creating, Others
<1>3. CASE Stage(a)
  <2>1. op'[a].step = "commit" /\ op'[a].nested = op[a].nested
    BY <1>1, <1>3, GotoType DEF Stage
  <2>2. ~op[a].nested => index' = Staged(disk)
    <3> SUFFICES ASSUME ~op[a].nested
                 PROVE  index' = Staged(disk)
      OBVIOUS
    <3>1. Agrees(op[a], disk, mirror) /\ op[a].step = "copy" /\ op[a].into = NoFile
          /\ op[a].left = {} /\ index' = Staged(mirror)
      BY <1>3 DEF Stage, Copied, Shot
    <3>2. mirror = disk
      BY <3>1, CopiedAgrees DEF TypeOK
    <3> QED
      BY <3>1, <3>2
  <2> QED
    BY <1>1, <1>2, <2>1, <2>2 DEF Shot, Agrees, SyncSteps
<1>4. CASE CommitIndex(a)
  <2>1. /\ op[a].step = "commit" /\ op'[a].step = "publish" /\ op'[a].commit.tree = index
        /\ op'[a].nested = op[a].nested
    BY <1>4, CommitEffect
  <2> QED
    BY <1>1, <1>2, <2>1 DEF Shot, Agrees, SyncSteps
<1>5. CASE Publish(a)
  <2>1. /\ op[a].step = "publish" /\ op'[a].step = "describe" /\ op'[a].commit = op[a].commit
        /\ op'[a].nested = op[a].nested
    BY <1>5, PublishEffect
  <2> QED
    BY <1>1, <1>2, <2>1 DEF Shot, Agrees, SyncSteps
<1>6. CASE Describe(a) \/ Fill(a)
  <2>1. /\ op[a].step \in {"describe", "fill"} /\ op'[a].step \in {"fill", "done"}
        /\ op'[a].commit = op[a].commit /\ op'[a].nested = op[a].nested
    BY <1>1, <1>6, GotoType DEF Describe, Fill
  <2> QED
    BY <1>1, <1>2, <2>1 DEF Shot, Agrees, SyncSteps
<1> QED
  BY <1>3, <1>4, <1>5, <1>6 DEF CreateStep

LEMMA OwnShot ==
    ASSUME TypeOK, KindInv, NEW a \in Actors, Shot(a), Work(a)
    PROVE  Shot(a)'
<1> USE DEF At
<1>1. CASE Begin(a)
  <2>1. op[a].kind = "none" /\ disk' = disk
    BY <1>1 DEF Begin, KindInv, Kind
  <2>2. \A b \in Actors : b # a => op'[b] = op[b]
    BY OpOthers DEF Others
  <2>3. batch'[a].step = "checkpoint" => Agrees(op'[a], disk', mirror') /\ op'[a].step = "sweep"
    BY <1>1, BeginEffect DEF Agrees, Waiting
  <2> QED
    BY <1>1, <2>1, <2>2, <2>3, BeginEffect DEF Shot, Creating
<1>2. CASE Checkpointed(a) \/ CheckpointFailed(a) \/ QuietStep(a) \/ CallStep(a) \/ Returned(a)
  <2>1. batch'[a].step # "checkpoint"
    BY <1>2, CheckpointTypes, QuietTypes, CallTypes, ReturnedTypes
  <2> QED
    BY <2>1 DEF Shot
<1>3. CASE ManagerStep(a) /\ ~CreateStep(a) /\ ~SyncStep(a)
  <2> SUFFICES ASSUME batch[a].step = "checkpoint", batch[a].alone
               PROVE  Shot(a)'
    BY <1>3, ManagerBatch DEF Shot
  <2>1. op[a].kind = "create"
    BY DEF KindInv, Kind
  <2>2. CASE FailStep(a)
    <3>1. Goto(a, "failed") /\ disk' = disk /\ batch' = batch
      BY <2>2 DEF FailStep, GitFails, SelectFails
    <3>2. op'[a].step = "failed" /\ Others(a)
      BY <3>1, GotoType DEF TypeOK, Others
    <3> QED
      BY <3>1, <3>2 DEF Shot, Agrees, SyncSteps, Creating, Others
  <2>3. CASE SelectStep(a) \/ PruneStep(a) \/ RestoreStep(a)
    BY <2>1, <2>3, KindOfStep DEF SelectStep, Select, PruneStep, Unref, Forget, Collect,
       RestoreStep, Archive, Restored
  <2> QED
    BY <1>3, <2>2, <2>3 DEF ManagerStep
<1> QED
  BY <1>1, <1>2, <1>3, SyncShot, CreateShot
     DEF Work, RunCommand, QuietStep, CallStep, ManagerStep

(* A restore that is alone *)
LEMMA SyncExtracting ==
    ASSUME TypeOK, KindInv, NEW a \in Actors, Extracting(a), SyncStep(a)
    PROVE  Extracting(a)'
<1> SUFFICES ASSUME op[a].kind = "restore", op'[a].kind = "restore"
             PROVE  Extracting(a)'
  BY SyncEffect DEF SyncFrame, Extracting
<1> USE DEF At
<1>1. batch'[a] = batch[a] /\ op'[a].commit = op[a].commit
      /\ op'[a].step \in SyncSteps \cup {"failed"}
  BY ManagerBatch, SyncEffect DEF ManagerStep, SyncFrame
<1>2. batch[a].alone => Agrees(op'[a], op[a].commit.tree, disk')
  <2>1. Source(a) = op[a].commit.tree /\ Source(a)' = op[a].commit.tree
        /\ Target(a) = disk /\ Target(a)' = disk'
    BY <1>1 DEF Source, Target
  <2> QED
    BY <2>1, SyncAgrees DEF Extracting
<1> QED
  BY <1>1, <1>2 DEF Extracting, SyncSteps

LEMMA OwnExtracting ==
    ASSUME TypeOK, KindInv, NEW a \in Actors, Extracting(a), Work(a)
    PROVE  Extracting(a)'
<1> USE DEF At
<1>0. op \in [Actors -> Op]
  BY DEF TypeOK
<1>1. CASE Begin(a)
  <2>1. op[a].kind = "none"
    BY <1>1 DEF Begin, KindInv, Kind
  <2> QED
    BY <1>1, <2>1, BeginEffect DEF Extracting
<1>2. CASE Checkpointed(a) \/ CheckpointFailed(a) \/ Returned(a)
  BY <1>2, CheckpointTypes, ReturnedTypes DEF Extracting
<1>3. CASE QuietStep(a)
  BY <1>3, QuietTypes DEF Extracting, KindInv, Kind
<1>4. CASE CallStep(a)
  BY <1>4, CallTypes DEF CallType, Extracting, Agrees, SyncSteps
<1>5. CASE ManagerStep(a) /\ ~SyncStep(a)
  <2> SUFFICES ASSUME op'[a].kind = "restore"
               PROVE  Extracting(a)'
    BY DEF Extracting
  <2>0. batch'[a] = batch[a]
    BY <1>5, ManagerBatch
  <2>1. CASE CreateStep(a) \/ SelectStep(a) \/ PruneStep(a)
    <3>1. op[a].kind \in {"create", "prune"}
      BY <2>1, KindOfStep DEF CreateStep, Stage, CommitIndex, Publish, Describe, Fill,
         SelectStep, Select, PruneStep, Unref, Forget, Collect
    <3>2. op'[a].kind \in {"create", "prune"}
      <4>1. CASE CreateStep(a)
        BY <1>0, <3>1, <4>1, GotoType, CommitEffect, PublishEffect
           DEF CreateStep, Stage, Describe, Fill
      <4>2. CASE SelectStep(a)
        BY <3>1, <4>2, SelectEffect
      <4>3. CASE PruneStep(a)
        BY <1>0, <3>1, <4>3, UnrefEffect, GotoType DEF PruneStep, Forget, Collect
      <4> QED
        BY <2>1, <4>1, <4>2, <4>3
    <3> QED
      BY <3>2
  <2>2. CASE FailStep(a)
    <3>1. op'[a].step = "failed"
      BY <1>0, <2>2, GotoType DEF FailStep, GitFails, SelectFails
    <3> QED
      BY <3>1 DEF Extracting, Agrees, SyncSteps
  <2>3. CASE Archive(a)
    <3>1. /\ op[a].step = "archive" /\ op[a].kind = "restore" /\ op'[a].step = "sweep"
          /\ op'[a].dir = op[a].dir /\ op'[a].left = op[a].left
          /\ op'[a].open = op[a].open /\ op'[a].into = op[a].into
      BY <1>0, <2>3, GotoType, KindOfStep DEF Archive
    <3>2. /\ op'[a].dir = NoFile /\ op'[a].left = {}
          /\ op'[a].open = NoFile /\ op'[a].into = NoFile
      BY <3>1 DEF Extracting
    <3>3. Agrees(op'[a], op'[a].commit.tree, disk')
      BY <3>1, <3>2 DEF Agrees, Waiting
    <3> QED
      BY <3>1, <3>3 DEF Extracting
  <2>4. CASE Restored(a)
    <3>1. /\ op[a].step = "copy" /\ op[a].left = {} /\ op[a].into = NoFile
          /\ op'[a].step = "done" /\ op'[a].nested = op[a].nested
          /\ op[a].kind = "restore" /\ op'[a].commit = op[a].commit /\ disk' = disk
      BY <1>0, <2>4, GotoType DEF Restored, Copied
    <3>2. batch[a].alone /\ ~op[a].nested => disk = op[a].commit.tree
      <4> SUFFICES ASSUME batch[a].alone, ~op[a].nested
                   PROVE  disk = op[a].commit.tree
        OBVIOUS
      <4>1. Agrees(op[a], op[a].commit.tree, disk)
        BY <3>1 DEF Extracting
      <4>2. op[a].commit.tree \in Tree /\ disk \in Tree
        BY <3>1 DEF TypeOK, KindInv, Kind, Commit
      <4> QED
        BY <3>1, <4>1, <4>2, CopiedAgrees DEF TypeOK
    <3>3. Agrees(op'[a], op'[a].commit.tree, disk')
      BY <3>1 DEF Agrees, SyncSteps
    <3> QED
      BY <2>0, <3>1, <3>2, <3>3 DEF Extracting
  <2> QED
    BY <1>5, <2>1, <2>2, <2>3, <2>4 DEF ManagerStep, RestoreStep
<1> QED
  BY <1>1, <1>2, <1>3, <1>4, <1>5, SyncExtracting
     DEF Work, RunCommand, QuietStep, CallStep, ManagerStep

LEMMA ContentsStep ==
    ASSUME TypeOK, KindInv, ContentsInv, [Next]_vars
    PROVE  ContentsInv'
<1>1. ASSUME NEW a \in Actors, Work(a) PROVE ContentsInv'
  <2>1. Shot(a)' /\ Extracting(a)'
    BY <1>1, OwnShot, OwnExtracting DEF ContentsInv, ShotInv, RestoreInv
  <2>2. ShotInv' /\ RestoreInv'
    BY <1>1, <2>1, OtherContents DEF ShotInv, RestoreInv
  <2>3. CASE Checkpointed(a) /\ batch[a].alone
    <3>1. /\ batch[a].step = "checkpoint" /\ op[a].step = "done"
          /\ origin' = origin \cup {[commit |-> op[a].commit, tree |-> batch[a].before,
                                     nested |-> op[a].nested]}
      BY <2>3 DEF Checkpointed, At
    <3>2. ~op[a].nested => /\ op[a].commit.tree = Staged(disk)
                           /\ batch[a].before = disk /\ disk \in Tree
      BY <2>3, <3>1 DEF ContentsInv, ShotInv, Shot, TypeOK
    <3>3. ~op[a].nested => Saved(op[a].commit.tree) = Saved(batch[a].before)
      BY <3>2, StagedType
    <3> QED
      BY <2>2, <3>1, <3>3 DEF ContentsInv, CheckpointFaithful
  <2>4. CASE ~(Checkpointed(a) /\ batch[a].alone)
    <3>1. origin' = origin
      <4>1. CASE Begin(a) \/ Rollback(a) \/ CheckpointFailed(a) \/ Checkpointed(a)
        BY <2>4, <4>1 DEF Begin, Rollback, CheckpointFailed, Checkpointed, history
      <4>2. CASE Ask(a) \/ RunNothing(a) \/ End(a) \/ RunEdit(a) \/ RunBackup(a) \/ RunPrune(a)
        BY <4>2 DEF Ask, RunNothing, End, RunEdit, RunBackup, RunPrune, history
      <4>3. CASE RunRestore(a) \/ Returned(a) \/ ManagerStep(a)
        BY <4>3 DEF RunRestore, Returned, ManagerStep, SyncStep, CreateStep, FailStep, SelectStep,
           PruneStep, RestoreStep, history
      <4>4. CASE RunCommand(a)
        BY <4>4, CommandEffect
      <4> QED
        BY <1>1, <4>1, <4>2, <4>3, <4>4 DEF Work, RunCommand, ManagerStep
    <3> QED
      BY <2>2, <3>1 DEF ContentsInv, CheckpointFaithful
  <2> QED
    BY <2>3, <2>4
<1>2. CASE Crash
  <2>1. \A b \in Actors : op'[b] = NoOp /\ batch'[b] = NoBatch
    BY <1>2 DEF Crash
  <2> QED
    BY <1>2, <2>1, NoOpType, NoBatchType DEF Crash, ContentsInv, ShotInv, Shot, RestoreInv,
       Extracting, CheckpointFaithful
<1>3. CASE Tick \/ UNCHANGED vars
  BY <1>3 DEF Tick, vars, snapshotVars, store, history, ContentsInv, ShotInv, Shot, RestoreInv,
     Extracting, CheckpointFaithful, At, Creating
<1> QED
  BY <1>1, <1>2, <1>3 DEF Next

LEMMA ContentsInit == Init => ContentsInv
<1> SUFFICES ASSUME Init PROVE ContentsInv
  OBVIOUS
<1>1. \A a \in Actors : op[a] = NoOp /\ batch[a] = NoBatch
  BY DEF Init, SnapshotsInit
<1> QED
  BY <1>1, NoOpType, NoBatchType DEF Init, ContentsInv, ShotInv, Shot, RestoreInv, Extracting,
     CheckpointFaithful

----
(* The inductive invariant holds of the initial states and is kept by every *)
(* step of invoke_batch and of BackupManager, and by a death of the runtime *)
THEOREM Invariance == Spec => []IInv
<1>1. Init => IInv
  BY TypeInit, NamesInit, HeldInit, ContentsInit DEF IInv
<1>2. IInv /\ [Next]_vars => IInv'
  BY TypeStep, NamesStep, HeldStep, ContentsStep DEF IInv
<1> QED
  BY <1>1, <1>2, PTL DEF Spec

(* Every variable keeps its type: no call of BackupManager, in any order of *)
(* threads and processes, leaves it                                         *)
THEOREM TypeCorrect == Spec => []TypeOK
<1>1. IInv => TypeOK
  BY DEF IInv
<1> QED
  BY <1>1, Invariance, PTL

(* create_snapshot: a checkpoint of a workspace at rest holds its files,    *)
(* but for those that git ignores, whatever earlier snapshots left in the   *)
(* mirror and the index; unless a file went into a directory that the       *)
(* mirror still had                                                         *)
THEOREM CheckpointsAreFaithful == Spec => []CheckpointFaithful
<1>1. IInv => CheckpointFaithful
  BY DEF IInv, ContentsInv
<1> QED
  BY <1>1, Invariance, PTL

(* restore_snapshot: an undisturbed restore of such a checkpoint brings the *)
(* files of the workspace back, but for those that git ignores; unless a    *)
(* file went into a directory that the workspace has now                    *)
THEOREM RollbacksReturn == Spec => []RollbackReturns
<1>1. IInv => RollbackReturns
  <2> SUFFICES ASSUME IInv, NEW a \in Actors, NEW o \in origin,
                      op[a].kind = "restore", At(a, "done"), batch[a].alone,
                      ~op[a].nested, o.commit = op[a].commit, ~o.nested
               PROVE  Saved(disk) = Saved(o.tree)
    BY DEF RollbackReturns, UndisturbedRestore
  <2>1. disk = op[a].commit.tree
    BY DEF IInv, ContentsInv, RestoreInv, Extracting
  <2>2. Saved(o.commit.tree) = Saved(o.tree)
    BY DEF IInv, ContentsInv, CheckpointFaithful
  <2> QED
    BY <2>1, <2>2
<1> QED
  BY <1>1, Invariance, PTL

(* invoke_batch: no call that needs a checkpoint is reached without one     *)
(* that can be restored, or that a prune chose to remove                    *)
THEOREM CheckpointsAreHeld == Spec => []CheckpointHeld
<1>1. IInv => CheckpointHeld
  <2> SUFFICES ASSUME IInv, NEW a \in Actors, batch[a].step = "run",
                      NEW i \in DOMAIN batch[a].calls, NeedsCheckpoint(batch[a].calls[i])
               PROVE  batch[a].cp \in commits \cup (pruned \ {NoCommit})
    BY DEF CheckpointHeld
  <2>1. CheckpointRequired(batch[a].calls)
    BY DEF CheckpointRequired
  <2>2. batch[a].cp # NoCommit /\ Kept(batch[a].cp)
    BY <2>1 DEF IInv, HeldInv, Held
  <2>3. \A n \in live : refs[n] \in commits
    BY DEF IInv, NamesInv, LiveInv
  <2> QED
    BY <2>2, <2>3 DEF Kept, Anchored
<1> QED
  BY <1>1, Invariance, PTL

(* list_snapshots against prune_snapshots: what is listed can be restored,  *)
(* but for snapshots whose prune is, or ended, half done                    *)
THEOREM ListedAreRestorable == Spec => []ListedRestorable
<1>1. IInv => ListedRestorable
  BY DEF IInv, NamesInv, LiveInv, ListInv, Anchored, ListedRestorable
<1> QED
  BY <1>1, Invariance, PTL

(* create_snapshot against prune_snapshots: without a death, every ref is   *)
(* in the list, in the making, or one of two of a commit                    *)
THEOREM NoRefIsLost == Spec => []NoLostRefs
<1>1. IInv => NoLostRefs
  BY DEF IInv, NamesInv
<1> QED
  BY <1>1, Invariance, PTL
=============================================================================
