--------------------------- MODULE SharedFilesProofs ---------------------------
(***************************************************************************)
(* Proofs about SharedFiles, for every number of clients, names, sections, *)
(* operations and faults.                                                  *)
(*                                                                         *)
(* The invariant follows the copy that a client holds of its file.  A copy *)
(* that is not stale, of a file of which nothing was lost, is what the     *)
(* file would hold (Upright); the first to open the file makes the copies  *)
(* of all the others stale, so two of them are never written.  The rest is *)
(* about the history: what the files would hold of a name on which nothing *)
(* overlapped (NameInv), of the interaction (DoneInv), and whose page is   *)
(* in the file of a check that no other overlapped (Alone).                *)
(***************************************************************************)
EXTENDS SharedFiles, SequenceTheorems, TLAPS

(* The tasks that an operation may still have before it. *)
Left(op) ==
    LET upsert == Task(op.scope, "upsert")
        record == Task("metadata", "record")
        bind == Task("metadata", "bind")
        set == Task("config", "set")
        done == Task("request", "success")
        core == Task("core", "default")
        tool == Task("tool", "default")
    IN
    CASE op.kind = "bind" -> {<<bind>>}
      [] op.kind = "login" -> {<<upsert, record, bind>>, <<record, bind>>, <<bind>>}
      [] op.kind = "remove" -> {<<Task(op.scope, "drop"), Task("metadata", "gone")>>,
                                <<Task("metadata", "gone")>>}
      [] op.kind = "set" -> {<<set>>}
      [] op.kind = "refer" -> {<<set, upsert, record, bind>>, <<upsert, record, bind>>,
                               <<record, bind>>, <<bind>>}
      [] op.kind = "panel" -> {<<Task("config", "page")>>}
      [] op.kind = "submit" -> {<<upsert, record, bind, done>>, <<record, bind, done>>,
                                <<bind, done>>, <<done>>, <<Task("request", "failed")>>}
      [] op.kind = "cancel" -> {<<Task("request", "cancelled")>>}
      [] op.kind = "layout" -> {<<Task("workspace", "create")>>}
      [] op.kind = "init" -> {<<Task("config", "default"), core, tool>>, <<core, tool>>, <<tool>>}
      [] OTHER -> {}

(* An edit that does not depend on what the file holds. *)
Absolute(task) == task.file = "request" \/ task.edit = "default"

Copies == {"blank"} \cup UNION {Contents(f) : f \in Files}

Slot == [op : Op, todo : {<<>>} \cup UNION {Left(op) : op \in Op}, stage : Stages,
         copy : Copies, stale : BOOLEAN, found : BOOLEAN]

(* Where a client at work is. *)
SoundAt(x, begun) ==
    LET task == Head(x.todo) IN
    /\ x.op.id \in 1..begun
    /\ x.op.kind = "submit" => x.op.name = Asked
    /\ x.todo \in Left(x.op)
    /\ Absolute(task) => x.stage \in {"write", "fill"}
    /\ ~Absolute(task) /\ x.stage # "read" => x.copy \in Contents(task.file)
    /\ x.stage = "look" => task.edit = "bind"
    /\ x.stage \in {"page", "load", "unlink"} => task.edit = "page"

Sound(x) == SoundAt(x, ops)

Placed(x) == x \in Slot /\ (x = Idle \/ Sound(x))

WorkInv ==
    /\ \A c \in Clients : Placed(client[c])
    /\ \A c, d \in Clients :
           Busy(c) /\ Busy(d) /\ client[c].op.id = client[d].op.id => c = d
    /\ odd \cup crossed \subseteq 1..ops

(* What the files hold, and what is told of them. *)
FilesInv ==
    /\ DOMAIN last = Files /\ \A f \in Files : last[f] \in Contents(f)
    /\ lost \subseteq Files
    /\ \A f \in blank : disk[f] = Empty(f)
    /\ garbled \subseteq lost

TypeInv == TypeOK /\ client \in [Clients -> Slot] /\ WorkInv /\ FilesInv

(* A client that holds no copy of a file. *)
Apart(x) ==
    x.todo = <<>> \/ x.stage = "read" \/ (x.stage = "write" /\ Absolute(Head(x.todo)))

(* A client that has read the file of its task. *)
Holds(c, f) == Busy(c) /\ client[c].stage # "read" /\ Now(c).file = f

(* A copy that is not stale is what the file would hold, and its writer is *)
(* the only one with such a copy.                                           *)
Upright(c, f) ==
    Holds(c, f) /\ ~client[c].stale /\ f \notin lost =>
        /\ Absolute(Now(c)) \/ client[c].copy = last[f]
        /\ client[c].stage = "fill" =>
               /\ f \in blank
               /\ \A d \in Clients \ {c} :
                      Holds(d, f) => client[d].stale
                                     \/ (Absolute(Now(d)) /\ client[d].stage = "write")

OverlapInv == EditsKept /\ \A c \in Clients, f \in Files : Upright(c, f)

(* A check that no other overlapped is of the page of its own client. *)
Alone(c) ==
    LET id == client[c].op.id IN
    Busy(c) /\ Checking(c) /\ id \notin crossed =>
        /\ \A d \in Clients : Busy(d) /\ Checking(d) => d = c
        /\ client[c].stage = "load" => check = IF id \in odd THEN "odd" ELSE "plain"
        /\ client[c].stage = "unlink" /\ client[c].found => id \notin odd

(* What PanelChecks says of a client. *)
Checked(c) ==
    Busy(c) /\ Now(c).edit = "page" /\ client[c].stage \in {"write", "fill"} =>
        client[c].op.id \notin odd \/ client[c].op.id \in crossed

PanelInv == \A c \in Clients : Checked(c) /\ Alone(c)

(* The operations on a name. *)
On(c, n) == Busy(c) /\ OnName(client[c].op) /\ client[c].op.name = n

Valued(n) == \E s \in Scopes : last[s][n] # 0

(* No two operations on a name overlapped, and nothing was lost of it. *)
Sure(n) == n \notin unsure /\ lost \cap (Scopes \cup {"metadata"}) = {}

(* A client that is about to say that a secret exists. *)
Finds(c) == Now(c).edit = "bind" /\ client[c].found /\ client[c].stage \in {"write", "fill"}

(* What the files would hold of a name on which nothing overlapped. *)
NameInv(n) ==
    Sure(n) =>
        /\ \A c, d \in Clients : On(c, n) /\ On(d, n) => c = d
        /\ \A c \in Clients : Busy(c) => client[c].op.kind # "init"
        /\ last.metadata[n].exists = "yes" =>
               Valued(n) \/ \E c \in Clients : On(c, n) /\ client[c].op.kind = "remove"
        /\ \A c \in Clients :
               On(c, n) /\ (Now(c).edit = "record" \/ Finds(c)) =>
                   last[client[c].op.scope][n] # 0

(* An interaction that is stored as done, or is about to be. *)
DoneInv ==
    "metadata" \notin lost =>
        /\ disk.request = "success" => last.metadata[Asked].bound
        /\ \A c \in Clients :
               Busy(c) /\ Now(c).edit = "success" => last.metadata[Asked].bound

SecretInv == (\A n \in Names : NameInv(n)) /\ DoneInv

IInv == TypeInv /\ OverlapInv /\ PanelInv /\ SecretInv

(* What a task of an operation is. *)
Storing(op) == op.kind \in {"login", "refer", "submit"}

Fits(op, task) ==
    \/ task = Task(op.scope, "upsert") /\ Storing(op)
    \/ task = Task("metadata", "record") /\ Storing(op)
    \/ task = Task("metadata", "bind") /\ (Storing(op) \/ op.kind = "bind")
    \/ task = Task(op.scope, "drop") /\ op.kind = "remove"
    \/ task = Task("metadata", "gone") /\ op.kind = "remove"
    \/ task = Task("config", "set") /\ op.kind \in {"set", "refer"}
    \/ task = Task("config", "page") /\ op.kind = "panel"
    \/ task = Task("workspace", "create") /\ op.kind = "layout"
    \/ task.file \in Scopes \cup {"config"} /\ task.edit = "default" /\ op.kind = "init"
    \/ task = Task("request", "success") /\ op.kind = "submit"
    \/ task = Task("request", "failed") /\ op.kind = "submit"
    \/ task = Task("request", "cancelled") /\ op.kind = "cancel"

----
(* The plans as they are written out. *)
LEMMA JoinOne ==
    ASSUME NEW a, NEW b, NEW c
    PROVE  <<a, b>> \o <<c>> = <<a, b, c>>
<1> DEFINE S == {a, b, c}
           s == <<a, b>> \o <<c>>
           t == <<a, b, c>>
<1>1. s \in Seq(S) /\ t \in Seq(S) /\ Len(s) = 3 /\ Len(t) = 3 /\ \A i \in 1..3 : s[i] = t[i]
  OBVIOUS
<1> HIDE DEF S, s, t
<1>2. s = t
  BY <1>1, SeqEqual
<1> QED
  BY <1>2 DEF s, t

LEMMA JoinTwo ==
    ASSUME NEW a, NEW b, NEW c
    PROVE  <<a>> \o <<b, c>> = <<a, b, c>>
<1> DEFINE S == {a, b, c}
           s == <<a>> \o <<b, c>>
           t == <<a, b, c>>
<1>1. s \in Seq(S) /\ t \in Seq(S) /\ Len(s) = 3 /\ Len(t) = 3 /\ \A i \in 1..3 : s[i] = t[i]
  OBVIOUS
<1> HIDE DEF S, s, t
<1>2. s = t
  BY <1>1, SeqEqual
<1> QED
  BY <1>2 DEF s, t

LEMMA JoinLast ==
    ASSUME NEW a, NEW b, NEW c, NEW d
    PROVE  <<a, b, c>> \o <<d>> = <<a, b, c, d>>
<1> DEFINE S == {a, b, c, d}
           s == <<a, b, c>> \o <<d>>
           t == <<a, b, c, d>>
<1>1. s \in Seq(S) /\ t \in Seq(S) /\ Len(s) = 4 /\ Len(t) = 4 /\ \A i \in 1..4 : s[i] = t[i]
  OBVIOUS
<1> HIDE DEF S, s, t
<1>2. s = t
  BY <1>1, SeqEqual
<1> QED
  BY <1>2 DEF s, t

(* An operation begins with its whole plan before it. *)
LEMMA PlanLeft ==
    ASSUME NEW op \in Op, op.kind # "none"
    PROVE  Plan(op) \in Left(op)
<1> DEFINE upsert == Task(op.scope, "upsert")
           record == Task("metadata", "record")
           bind == Task("metadata", "bind")
           done == Task("request", "success")
           set == Task("config", "set")
<1>1. Store(op) = <<upsert, record>> /\ Bind = <<bind>>
  BY DEF Store, Bind
<1> HIDE DEF upsert, record, bind, done, set
<1>2. <<upsert, record>> \o <<bind>> = <<upsert, record, bind>>
  BY ONLY JoinOne
<1>3. <<upsert, record, bind>> \o <<done>> = <<upsert, record, bind, done>>
  BY ONLY JoinLast, Zenon
<1>4. <<set>> \o <<upsert, record>> = <<set, upsert, record>>
  BY ONLY JoinTwo, Zenon
<1>5. <<set, upsert, record>> \o <<bind>> = <<set, upsert, record, bind>>
  BY ONLY JoinLast, Zenon
<1>6. Store(op) \o Bind = <<upsert, record, bind>>
  BY <1>1, <1>2, Zenon
<1>7. Store(op) \o Bind \o <<done>> = <<upsert, record, bind, done>>
  BY <1>6, <1>3, Zenon
<1>8. <<set>> \o Store(op) \o Bind = <<set, upsert, record, bind>>
  BY <1>1, <1>4, <1>5, Zenon
<1> USE DEF upsert, record, bind, done, set
<1> QED
  BY <1>6, <1>7, <1>8 DEF Plan, Left, Bind, Initialize, Op, Kinds

(* After the first task of an operation the others are left. *)
LEMMA LeftTail ==
    ASSUME NEW op, NEW todo \in Left(op)
    PROVE  /\ todo # <<>> /\ todo[1] = Head(todo)
           /\ Fits(op, Head(todo))
           /\ Len(todo) # 1 =>
                  /\ Tail(todo) \in Left(op)
                  /\ todo[2] = Head(Tail(todo))
                  /\ Head(Tail(todo)).edit = "record" => Head(todo).edit = "upsert"
                  /\ Head(Tail(todo)).edit = "success" => Head(todo).edit = "bind"
           /\ Len(todo) = 1 => Head(todo).edit \notin {"upsert", "drop"}
<1> DEFINE upsert == Task(op.scope, "upsert")
           record == Task("metadata", "record")
           bind == Task("metadata", "bind")
           done == Task("request", "success")
           failed == Task("request", "failed")
           set == Task("config", "set")
           drop == Task(op.scope, "drop")
           gone == Task("metadata", "gone")
           config == Task("config", "default")
           core == Task("core", "default")
           tool == Task("tool", "default")
           Goal(t) == /\ t # <<>> /\ t[1] = Head(t)
                      /\ Fits(op, Head(t))
                      /\ Len(t) # 1 =>
                             /\ t[2] = Head(Tail(t))
                             /\ Head(Tail(t)).edit = "record" => Head(t).edit = "upsert"
                             /\ Head(Tail(t)).edit = "success" => Head(t).edit = "bind"
                      /\ Len(t) = 1 => Head(t).edit \notin {"upsert", "drop"}
<1>1. ASSUME NEW task, Fits(op, task), task.edit \notin {"upsert", "drop"}
      PROVE  Goal(<<task>>)
  BY <1>1
<1>2. ASSUME NEW task, NEW next, Fits(op, task), next.edit = "record" => task.edit = "upsert",
             next.edit = "success" => task.edit = "bind"
      PROVE  /\ Goal(<<task, next>>)
             /\ \A a : Goal(<<task, next, a>>)
             /\ \A a, b : Goal(<<task, next, a, b>>)
  BY <1>2
<1> HIDE DEF Goal
<1>3. /\ upsert.edit = "upsert" /\ record.edit = "record" /\ bind.edit = "bind"
      /\ done.edit = "success" /\ failed.edit = "failed" /\ set.edit = "set"
      /\ drop.edit = "drop" /\ gone.edit = "gone" /\ core.edit = "default"
      /\ tool.edit = "default" /\ config.edit = "default"
  BY DEF Task
<1>4. /\ Storing(op) => Fits(op, upsert) /\ Fits(op, record) /\ Fits(op, bind)
      /\ op.kind = "bind" => Fits(op, bind)
      /\ op.kind = "refer" => Fits(op, set)
      /\ op.kind = "remove" => Fits(op, drop) /\ Fits(op, gone)
      /\ op.kind = "init" => Fits(op, config) /\ Fits(op, core) /\ Fits(op, tool)
      /\ op.kind = "submit" => Fits(op, done) /\ Fits(op, failed)
  BY DEF Fits, Scopes, Task
<1>5. /\ op.kind = "set" => Fits(op, set)
      /\ op.kind = "panel" => Fits(op, Task("config", "page"))
      /\ op.kind = "cancel" => Fits(op, Task("request", "cancelled"))
      /\ op.kind = "layout" => Fits(op, Task("workspace", "create"))
  BY DEF Fits
<1>6. /\ Task("config", "page").edit = "page" /\ Task("request", "cancelled").edit = "cancelled"
      /\ Task("workspace", "create").edit = "create"
  BY DEF Task
<1> HIDE DEF upsert, record, bind, done, failed, set, drop, gone, config, core, tool
<1>7. \/ op.kind \in {"login", "refer"}
         /\ todo \in {<<upsert, record, bind>>, <<record, bind>>, <<bind>>}
      \/ op.kind = "refer" /\ todo = <<set, upsert, record, bind>>
      \/ op.kind = "submit" /\ todo \in {<<upsert, record, bind, done>>, <<record, bind, done>>,
                                         <<bind, done>>, <<done>>, <<failed>>}
      \/ op.kind = "bind" /\ todo = <<bind>>
      \/ op.kind = "remove" /\ todo \in {<<drop, gone>>, <<gone>>}
      \/ op.kind = "set" /\ todo = <<set>>
      \/ op.kind = "panel" /\ todo = <<Task("config", "page")>>
      \/ op.kind = "cancel" /\ todo = <<Task("request", "cancelled")>>
      \/ op.kind = "layout" /\ todo = <<Task("workspace", "create")>>
      \/ op.kind = "init" /\ todo \in {<<config, core, tool>>, <<core, tool>>, <<tool>>}
  BY DEF Left, Storing, upsert, record, bind, done, failed, set, drop, gone, config, core, tool
<1>8. Goal(todo)
  BY <1>1, <1>2, <1>3, <1>4, <1>5, <1>6, <1>7 DEF Storing
<1>9. /\ op.kind = "login" => {<<record, bind>>, <<bind>>} \subseteq Left(op)
      /\ op.kind = "refer" =>
             {<<upsert, record, bind>>, <<record, bind>>, <<bind>>} \subseteq Left(op)
      /\ op.kind = "submit" =>
             {<<record, bind, done>>, <<bind, done>>, <<done>>} \subseteq Left(op)
      /\ op.kind = "remove" => <<gone>> \in Left(op)
      /\ op.kind = "init" => {<<core, tool>>, <<tool>>} \subseteq Left(op)
  BY DEF Left, upsert, record, bind, done, gone, core, tool
<1>10. ASSUME NEW a, NEW b, todo = <<a, b>>
       PROVE  Tail(todo) = <<b>>
  BY <1>10
<1>11. ASSUME NEW a, NEW b, NEW c, todo = <<a, b, c>>
       PROVE  Tail(todo) = <<b, c>>
  <2>1. Tail(<<a, b, c>>) = <<b, c>>
    OBVIOUS
  <2> QED
    BY <1>11, <2>1, Zenon
<1>12. ASSUME NEW a, NEW b, NEW c, NEW d, todo = <<a, b, c, d>>
       PROVE  Tail(todo) = <<b, c, d>>
  <2>1. Tail(<<a, b, c, d>>) = <<b, c, d>>
    OBVIOUS
  <2> QED
    BY <1>12, <2>1, Zenon
<1>13. /\ \A task : todo = <<task>> => Len(todo) = 1
  OBVIOUS
<1> DEFINE Follows == Len(todo) = 1 \/ Tail(todo) \in Left(op)
<1>14. ASSUME op.kind \in {"login", "refer"},
              todo \in {<<upsert, record, bind>>, <<record, bind>>, <<bind>>}
       PROVE  Follows
  <2>1. CASE todo = <<upsert, record, bind>>
    BY <1>9, <1>11, <1>14, <2>1
  <2>2. CASE todo = <<record, bind>>
    BY <1>9, <1>10, <1>14, <2>2
  <2> QED
    BY <1>13, <1>14, <2>1, <2>2
<1>15. ASSUME op.kind = "submit",
              todo \in {<<upsert, record, bind, done>>, <<record, bind, done>>, <<bind, done>>,
                        <<done>>, <<failed>>}
       PROVE  Follows
  <2>1. CASE todo = <<upsert, record, bind, done>>
    BY <1>9, <1>12, <1>15, <2>1
  <2>2. CASE todo = <<record, bind, done>>
    BY <1>9, <1>11, <1>15, <2>2
  <2>3. CASE todo = <<bind, done>>
    BY <1>9, <1>10, <1>15, <2>3
  <2> QED
    BY <1>13, <1>15, <2>1, <2>2, <2>3
<1>16. ASSUME op.kind = "refer", todo = <<set, upsert, record, bind>>
       PROVE  Follows
  BY <1>9, <1>12, <1>16
<1>17. ASSUME op.kind = "remove", todo \in {<<drop, gone>>, <<gone>>}
       PROVE  Follows
  BY <1>9, <1>10, <1>13, <1>17
<1>18. ASSUME op.kind = "init", todo \in {<<config, core, tool>>, <<core, tool>>, <<tool>>}
       PROVE  Follows
  <2>1. CASE todo = <<config, core, tool>>
    BY <1>9, <1>11, <1>18, <2>1
  <2>2. CASE todo = <<core, tool>>
    BY <1>9, <1>10, <1>18, <2>2
  <2> QED
    BY <1>13, <1>18, <2>1, <2>2
<1>19. Len(todo) # 1 => Tail(todo) \in Left(op)
  BY <1>7, <1>13, <1>14, <1>15, <1>16, <1>17, <1>18
<1> QED
  BY <1>8, <1>19 DEF Goal

----
(* What the files may hold, file by file. *)
LEMMA ContentsAre ==
    /\ \A f \in Scopes : Contents(f) = [Names -> 0..MaxOps]
    /\ Contents("config") = [Sections -> 0..MaxOps]
    /\ Contents("metadata") = [Names -> Metadata]
    /\ Contents("workspace") = 0..MaxOps
    /\ Contents("request") = {"pending", "success", "failed", "cancelled", "blank"}
<1>1. \A f \in Scopes : Contents(f) = [Names -> 0..MaxOps]
  <2>1. Contents("core") = [Names -> 0..MaxOps] /\ Contents("tool") = [Names -> 0..MaxOps]
    BY DEF Contents, Scopes
  <2> QED
    BY <2>1 DEF Scopes
<1>2. Contents("config") = [Sections -> 0..MaxOps]
  BY DEF Contents, Scopes
<1>3. Contents("metadata") = [Names -> Metadata]
  BY DEF Contents, Scopes
<1>4. Contents("workspace") = 0..MaxOps
  BY DEF Contents, Scopes
<1>5. Contents("request") = {"pending", "success", "failed", "cancelled", "blank"}
  BY DEF Contents, Scopes
<1> QED
  BY <1>1, <1>2, <1>3, <1>4, <1>5

LEMMA EmptyAre ==
    /\ \A f \in Scopes : Empty(f) = [n \in Names |-> 0]
    /\ Empty("config") = [s \in Sections |-> 0]
    /\ Empty("metadata") = [n \in Names |-> Unknown]
    /\ Empty("workspace") = 0
    /\ Empty("request") = "blank"
BY DEF Empty, Scopes

(* An empty file is one of them. *)
LEMMA EmptyType == \A f \in Files : Empty(f) \in Contents(f)
<1>1. Unknown \in Metadata
  BY DEF Unknown, Metadata
<1>2. 0 \in 0..MaxOps
  BY FilesAssumption
<1>3. \A f \in Scopes : Empty(f) \in Contents(f)
  BY <1>2, ContentsAre, EmptyAre
<1>4. Empty("config") \in Contents("config")
  BY <1>2, ContentsAre, EmptyAre
<1>5. Empty("workspace") \in Contents("workspace") /\ Empty("request") \in Contents("request")
  BY <1>2, ContentsAre, EmptyAre
<1>6. Empty("metadata") \in Contents("metadata")
  BY <1>1, ContentsAre, EmptyAre
<1> QED
  BY <1>3, <1>4, <1>6, <1>5 DEF Files

(* What the edits write is what their files may hold. *)
LEMMA EditedType ==
    ASSUME NEW op \in Op, NEW task, Fits(op, task), NEW found \in BOOLEAN,
           NEW copy \in Contents(task.file)
    PROVE  Edited(op, task, found, copy) \in Contents(task.file)
<1>1. task.file \in Files /\ op.name \in Names /\ op.section \in Sections /\ op.id \in 0..MaxOps
  BY DEF Fits, Task, Op, Files, Scopes
<1>2. CASE task.edit \in {"upsert", "drop"}
  <2>1. task.file \in Scopes
    BY <1>2 DEF Fits, Task, Op
  <2>2. copy \in [Names -> 0..MaxOps] /\ Contents(task.file) = [Names -> 0..MaxOps]
    BY <2>1, ContentsAre
  <2> QED
    BY <1>1, <1>2, <2>2, FilesAssumption DEF Edited
<1>3. CASE task.edit \in {"record", "bind", "gone"}
  <2>1. task.file = "metadata"
    BY <1>3 DEF Fits, Task, Scopes
  <2>2. copy \in [Names -> Metadata] /\ Contents(task.file) = [Names -> Metadata]
    BY <2>1, ContentsAre
  <2>3. Edited(op, task, found, copy) \in [Names -> Metadata]
    BY <1>1, <1>3, <2>2 DEF Edited, Metadata
  <2> QED
    BY <2>2, <2>3
<1>4. CASE task.edit \in {"set", "page"}
  <2>1. task.file = "config"
    BY <1>4 DEF Fits, Task, Scopes
  <2>2. copy \in [Sections -> 0..MaxOps] /\ Contents(task.file) = [Sections -> 0..MaxOps]
    BY <2>1, ContentsAre
  <2> QED
    BY <1>1, <1>4, <2>2 DEF Edited
<1>5. CASE task.edit = "create"
  <2>1. task.file = "workspace"
    BY <1>5 DEF Fits, Task, Scopes
  <2> QED
    BY <1>1, <1>5, <2>1, ContentsAre DEF Edited, Created
<1>6. CASE task.edit = "default"
  BY <1>1, <1>6, EmptyType DEF Edited, Default
<1>7. CASE task.edit \in {"success", "failed", "cancelled"}
  <2>1. task.file = "request"
    BY <1>7 DEF Fits, Task, Scopes
  <2> QED
    BY <1>7, <2>1, ContentsAre DEF Edited
<1> QED
  BY <1>2, <1>3, <1>4, <1>5, <1>6, <1>7 DEF Fits, Task

(* An absolute edit does not depend on the copy. *)
LEMMA EditedAbsolute ==
    ASSUME NEW op \in Op, NEW task, Fits(op, task), Absolute(task), NEW found
    PROVE  /\ \A copy, other : Edited(op, task, found, copy) = Edited(op, task, found, other)
           /\ task.file = "request" =>
                  \A copy : Edited(op, task, found, copy) = task.edit
           /\ \A copy : Edited(op, task, found, copy) \in Contents(task.file)
<1>1. CASE task.edit = "default"
  <2>1. task.file \in Files /\ task.file # "request"
    BY <1>1 DEF Fits, Task, Files, Scopes
  <2>2. \A copy : Edited(op, task, found, copy) = Empty(task.file)
    BY <1>1 DEF Edited, Default
  <2> QED
    BY <2>1, <2>2, EmptyType
<1>2. CASE task.file = "request"
  <2>1. task.edit \in {"success", "failed", "cancelled"}
    BY <1>2 DEF Fits, Task, Scopes, Op
  <2>2. \A copy : Edited(op, task, found, copy) = task.edit
    BY <2>1 DEF Edited
  <2> QED
    BY <1>2, <2>1, <2>2, ContentsAre
<1> QED
  BY <1>1, <1>2 DEF Absolute

----
(* Where a client goes. *)
LEMMA IdleIs ==
    /\ Idle \in Slot /\ Placed(Idle) /\ Apart(Idle)
    /\ Idle.todo = <<>> /\ Idle.op.kind = "none" /\ Idle.stage = "read"
    /\ Idle.stale = FALSE /\ Idle.found = FALSE /\ Idle.copy = "blank"
<1>1. NoOp \in Op
  BY FilesAssumption DEF NoOp, Op, Kinds, Scopes
<1> QED
  BY <1>1 DEF Idle, Slot, Placed, Apart, Stages, Copies, NoOp

(* A client at work. *)
LEMMA AtWork ==
    ASSUME TypeInv, NEW c \in Clients, Busy(c)
    PROVE  /\ client[c] \in Slot /\ Sound(client[c])
           /\ client[c].op \in Op /\ client[c].op.kind # "none"
           /\ client[c].op.id \in 1..ops
           /\ client[c].todo \in Left(client[c].op)
           /\ Fits(client[c].op, Now(c))
           /\ Now(c).file \in Files
<1>1. client[c] \in Slot /\ Sound(client[c])
  BY IdleIs DEF TypeInv, WorkInv, Placed, Busy
<1>2. client[c].op \in Op
  BY <1>1 DEF Slot
<1>3. Fits(client[c].op, Now(c))
  BY <1>1, LeftTail DEF Sound, SoundAt, Now
<1>4. Now(c).file \in Files /\ client[c].op.kind # "none"
  BY <1>2, <1>3 DEF Fits, Task, Op, Files, Scopes, Storing
<1> QED
  BY <1>1, <1>2, <1>3, <1>4 DEF Sound, SoundAt

(* After an edit a client is idle, or begins the next edit of its plan. *)
LEMMA RestIs ==
    ASSUME TypeInv, NEW c \in Clients, Busy(c)
    PROVE  /\ Placed(Rest(c)) /\ Apart(Rest(c))
           /\ Now(c).edit \in {"upsert", "drop"} => Rest(c) # Idle
           /\ \/ Rest(c) = Idle
              \/ /\ Rest(c).op = client[c].op
                 /\ Rest(c).stage # "fill"
                 /\ Rest(c).todo # <<>>
                 /\ Head(Rest(c).todo).edit = "record" => Now(c).edit = "upsert"
                 /\ Head(Rest(c).todo).edit = "success" => Now(c).edit = "bind"
<1> DEFINE x == client[c]
           t == Tail(x.todo)
<1>1. /\ x \in Slot /\ Sound(x) /\ x.op \in Op /\ x.todo \in Left(x.op)
  BY AtWork
<1>2. CASE Len(x.todo) = 1
  BY <1>1, <1>2, LeftTail, IdleIs DEF Rest, Now
<1>3. CASE Len(x.todo) # 1
  <2>1. t \in Left(x.op) /\ x.todo[2] = Head(t) /\ t # <<>> /\ Fits(x.op, Head(t))
    BY <1>1, <1>3, LeftTail
  <2>2. Rest(c) = [x EXCEPT !.todo = t, !.stage = Entering(Head(t)), !.copy = "blank",
                            !.stale = FALSE, !.found = FALSE]
    BY <1>3, <2>1 DEF Rest
  <2>3. Entering(Head(t)) = IF Absolute(Head(t)) THEN "write" ELSE "read"
    BY DEF Entering, Absolute
  <2>4. Rest(c) \in Slot
    BY <1>1, <2>1, <2>2, <2>3 DEF Slot, Stages, Copies
  <2>5. /\ Rest(c).op = x.op /\ Rest(c).todo = t /\ Rest(c).stage = Entering(Head(t))
    BY <1>1, <2>2 DEF Slot
  <2>6. Sound(Rest(c)) /\ Apart(Rest(c))
    BY <1>1, <2>1, <2>3, <2>5 DEF Sound, SoundAt, Apart
  <2>7. /\ Head(t).edit = "record" => Now(c).edit = "upsert"
        /\ Head(t).edit = "success" => Now(c).edit = "bind"
    BY <1>1, <1>3, LeftTail DEF Now
  <2> QED
    BY <2>1, <2>3, <2>4, <2>5, <2>6, <2>7, IdleIs DEF Placed
<1> QED
  BY <1>2, <1>3

(* What a client does after it gave up. *)
After(c) ==
    IF client[c].op.kind = "submit" /\ Now(c).file # "request"
    THEN [Idle EXCEPT !.op = client[c].op, !.todo = <<Task("request", "failed")>>,
                      !.stage = "write"]
    ELSE Idle

(* It is idle, or stores the interaction as failed. *)
LEMMA AfterIs ==
    ASSUME TypeInv, NEW c \in Clients, Busy(c)
    PROVE  /\ Placed(After(c)) /\ Apart(After(c))
           /\ \/ After(c) = Idle
              \/ /\ After(c).op = client[c].op /\ client[c].op.kind = "submit"
                 /\ After(c).stage = "write"
                 /\ Head(After(c).todo).edit = "failed"
<1> DEFINE x == [Idle EXCEPT !.op = client[c].op, !.todo = <<Task("request", "failed")>>,
                             !.stage = "write"]
<1>1. CASE client[c].op.kind = "submit"
  <2>1. <<Task("request", "failed")>> \in Left(client[c].op)
    BY <1>1 DEF Left
  <2>2. x \in Slot
    BY <2>1, AtWork, IdleIs DEF Slot, Stages
  <2>3. x.op = client[c].op /\ x.todo = <<Task("request", "failed")>> /\ x.stage = "write"
    BY DEF Idle
  <2>4. Head(x.todo) = Task("request", "failed")
    BY <2>3
  <2>5. Sound(x) /\ Apart(x) /\ Head(x.todo).edit = "failed"
    BY <2>1, <2>3, <2>4, AtWork, <1>1 DEF Sound, SoundAt, Apart, Absolute, Task
  <2> QED
    BY <1>1, <2>2, <2>3, <2>5, IdleIs DEF After, Placed
<1> QED
  BY <1>1, IdleIs DEF After

(* A client of which only the stage and what belongs to it changes. *)
LEMMA StaysPlaced ==
    ASSUME TypeInv, NEW c \in Clients, Busy(c), NEW x \in Slot,
           x.op = client[c].op, x.todo = client[c].todo,
           Absolute(Now(c)) => x.stage \in {"write", "fill"},
           ~Absolute(Now(c)) /\ x.stage # "read" => x.copy \in Contents(Now(c).file),
           x.stage = "look" => Now(c).edit = "bind",
           x.stage \in {"page", "load", "unlink"} => Now(c).edit = "page"
    PROVE  Placed(x)
BY AtWork DEF Placed, Sound, SoundAt, Now

(* The step in which a file is read. *)
Taken(c) ==
    [client[c] EXCEPT !.copy = disk[Now(c).file], !.stale = Now(c).file \in blank,
                      !.stage = CASE Now(c).edit = "bind" -> "look"
                                  [] Now(c).edit = "page" -> "page"
                                  [] OTHER -> "write"]

LEMMA TakenIs ==
    ASSUME TypeInv, NEW c \in Clients, At(c, "read")
    PROVE  /\ Placed(Taken(c)) /\ Taken(c).op = client[c].op /\ Taken(c).todo = client[c].todo
           /\ Taken(c).copy = disk[Now(c).file]
           /\ Taken(c).stale = (Now(c).file \in blank)
           /\ Taken(c).found = client[c].found
           /\ ~Absolute(Now(c))
           /\ Taken(c).stage \in {"look", "page", "write"}
           /\ Now(c).edit \in {"bind", "page"} => Taken(c).stage # "write"
<1>1. Busy(c) /\ client[c] \in Slot /\ Sound(client[c]) /\ Now(c).file \in Files
  BY AtWork DEF At
<1>2. ~Absolute(Now(c))
  BY <1>1 DEF At, Sound, SoundAt, Now
<1>3. disk[Now(c).file] \in Contents(Now(c).file)
  BY <1>1 DEF TypeInv, TypeOK
<1> DEFINE copy == disk[Now(c).file]
           stale == Now(c).file \in blank
           stage == CASE Now(c).edit = "bind" -> "look"
                      [] Now(c).edit = "page" -> "page"
                      [] OTHER -> "write"
<1>4. copy \in Copies /\ stale \in BOOLEAN /\ stage \in Stages
  BY <1>1, <1>3 DEF Copies, Stages
<1>5. Taken(c) = [client[c] EXCEPT !.copy = copy, !.stale = stale, !.stage = stage]
  BY DEF Taken
<1> HIDE DEF copy, stale, stage
<1>6. Taken(c) \in Slot
  BY <1>1, <1>4, <1>5 DEF Slot
<1> USE DEF copy, stale, stage
<1>7. /\ Taken(c).op = client[c].op /\ Taken(c).todo = client[c].todo
      /\ Taken(c).copy = disk[Now(c).file]
      /\ Taken(c).stale = (Now(c).file \in blank)
      /\ Taken(c).found = client[c].found
      /\ Taken(c).stage = CASE Now(c).edit = "bind" -> "look"
                            [] Now(c).edit = "page" -> "page"
                            [] OTHER -> "write"
  BY <1>1 DEF Taken, Slot
<1>8. /\ Taken(c).stage \in {"look", "page", "write"}
      /\ Now(c).edit \in {"bind", "page"} => Taken(c).stage # "write"
      /\ Taken(c).stage = "look" => Now(c).edit = "bind"
      /\ Taken(c).stage = "page" => Now(c).edit = "page"
  BY <1>7
<1>9. Placed(Taken(c))
  BY <1>1, <1>2, <1>3, <1>6, <1>7, <1>8, StaysPlaced
<1> QED
  BY <1>2, <1>7, <1>8, <1>9

(* The stages between reading a file and writing it. *)
Staged(c, stage, found) == [client[c] EXCEPT !.stage = stage, !.found = found]

LEMMA StagedIs ==
    ASSUME TypeInv, NEW c \in Clients, Busy(c), ~Absolute(Now(c)), client[c].stage # "read",
           NEW stage \in {"load", "unlink", "write"}, NEW found \in BOOLEAN,
           stage \in {"load", "unlink"} => Now(c).edit = "page"
    PROVE  /\ Placed(Staged(c, stage, found))
           /\ Staged(c, stage, found).op = client[c].op
           /\ Staged(c, stage, found).todo = client[c].todo
           /\ Staged(c, stage, found).copy = client[c].copy
           /\ Staged(c, stage, found).stale = client[c].stale
           /\ Staged(c, stage, found).found = found
           /\ Staged(c, stage, found).stage = stage
<1> DEFINE x == Staged(c, stage, found)
<1>1. client[c] \in Slot /\ Sound(client[c])
  BY AtWork
<1>2. x \in Slot
  BY <1>1 DEF Staged, Slot, Stages
<1>3. /\ x.op = client[c].op /\ x.todo = client[c].todo
      /\ x.copy = client[c].copy /\ x.stale = client[c].stale
      /\ x.found = found /\ x.stage = stage
  BY <1>1 DEF Staged, Slot
<1>4. Placed(x)
  BY <1>1, <1>2, <1>3, StaysPlaced DEF Sound, SoundAt, Now
<1> QED
  BY <1>3, <1>4

(* The clients after a step in which only c moves, within its operation. *)
LEMMA OneMoves ==
    ASSUME TypeInv, NEW c \in Clients, Busy(c), NEW x, Placed(x), x = Idle \/ x.op = client[c].op,
           client' = [client EXCEPT ![c] = x], ops' = ops, odd' = odd,
           crossed' \subseteq crossed \cup 1..ops
    PROVE  /\ client' \in [Clients -> Slot]
           /\ WorkInv'
           /\ client'[c] = x
           /\ \A d \in Clients : d # c => client'[d] = client[d]
<1>1. client' \in [Clients -> Slot] /\ client'[c] = x
      /\ \A d \in Clients : d # c => client'[d] = client[d]
  BY DEF TypeInv, Placed
<1>2. \A d \in Clients : Placed(client'[d])
  BY <1>1 DEF TypeInv, WorkInv
<1>3. (\A d \in Clients : Placed(client[d]))'
  BY <1>2 DEF Placed, Sound, SoundAt
<1>4. \A d, e \in Clients :
          Busy(d)' /\ Busy(e)' /\ client'[d].op.id = client'[e].op.id => d = e
  BY <1>1, IdleIs DEF TypeInv, WorkInv, Busy
<1>5. (odd \cup crossed \subseteq 1..ops)'
  BY DEF TypeInv, WorkInv
<1> QED
  BY <1>1, <1>3, <1>4, <1>5 DEF WorkInv

(* The types of the clients follow from where they are. *)
LEMMA ClientTypes ==
    ASSUME NEW x \in Slot, NEW begun, x = Idle \/ SoundAt(x, begun)
    PROVE  /\ x.op \in Op /\ x.stage \in Stages /\ x.stale \in BOOLEAN /\ x.found \in BOOLEAN
           /\ x.stage = "fill" => x.todo # <<>>
BY IdleIs, LeftTail DEF Slot, SoundAt

(* How a read ends. *)
LEMMA ReadCases ==
    ASSUME NEW c \in Clients, Read(c)
    PROVE  /\ \/ /\ Unreadable(Now(c).file)
                 /\ client' = [client EXCEPT ![c] = After(c)]
                 /\ unsure' = IF client[c].op.kind = "remove"
                              THEN unsure \cup {client[c].op.name} ELSE unsure
              \/ /\ ~Unreadable(Now(c).file)
                 /\ unsure' = unsure
                 /\ \/ /\ ~Needs(client[c].op, Now(c), disk[Now(c).file])
                       /\ client' = [client EXCEPT ![c] = Rest(c)]
                    \/ client' = [client EXCEPT ![c] = Taken(c)]
           /\ UNCHANGED <<files, check, ops, faults, odd, last, lost, crossed>>
BY DEF Read, GivesUp, After, Taken

(* A client that begins an operation. *)
Begun(op) ==
    [Idle EXCEPT !.op = op, !.todo = Plan(op), !.stage = Entering(Plan(op)[1])]

LEMMA PlanStarts ==
    ASSUME NEW op \in Op, op.kind # "none"
    PROVE  Head(Plan(op)).edit \notin {"record", "success"}
<1>1. Head(Store(op) \o Bind) = Task(op.scope, "upsert")
  BY JoinOne DEF Store, Bind
<1>2. Head(Store(op) \o Bind \o <<Task("request", "success")>>) = Task(op.scope, "upsert")
  BY DEF Store, Bind
<1>3. Head(<<Task("config", "set")>> \o Store(op) \o Bind) = Task("config", "set")
  BY DEF Store, Bind
<1> QED
  BY <1>1, <1>2, <1>3 DEF Plan, Bind, Initialize, Op, Kinds, Task

(* It starts at the first edit of its plan, with a new number. *)
LEMMA BeginIs ==
    ASSUME TypeInv, NEW c \in Clients, Begin(c)
    PROVE  /\ ~Busy(c) /\ ops' = ops + 1 /\ ops' \in 1..MaxOps
           /\ \E op \in Op :
                /\ client' = [client EXCEPT ![c] = Begun(op)]
                /\ Begun(op) \in Slot /\ Apart(Begun(op)) /\ SoundAt(Begun(op), ops')
                /\ Begun(op).op = op /\ op.id = ops'
                /\ Begun(op).todo # <<>> /\ Begun(op).stage # "fill"
                /\ Head(Begun(op).todo).edit \notin {"record", "success"}
                /\ unsure' = CASE op.kind = "init" -> Names
                               [] OnName(op) /\ Together(op) -> unsure \cup {op.name}
                               [] OTHER -> unsure
           /\ odd \subseteq odd' /\ odd' \subseteq odd \cup {ops'}
           /\ UNCHANGED <<files, check, faults, last, lost, crossed>>
<1>1. /\ ~Busy(c) /\ ops' = ops + 1 /\ ops' \in 1..MaxOps
      /\ UNCHANGED <<files, check, faults, last, lost, crossed>>
  BY FilesAssumption DEF Begin, TypeInv, TypeOK
<1>2. PICK kind \in Kinds \ {"none"}, name \in Names, scope \in Scopes, section \in Sections :
           LET op == [kind |-> kind, name |-> name, scope |-> scope, section |-> section,
                      id |-> ops + 1]
           IN
           /\ ~OnName(op) => name = Asked /\ scope = NoOp.scope
           /\ kind \notin {"set", "refer", "panel"} => section = NoOp.section
           /\ kind = "submit" => name = Asked
           /\ kind \in {"submit", "cancel"} => ~Unreadable("request")
           /\ client' = [client EXCEPT ![c] = [Idle EXCEPT !.op = op, !.todo = Plan(op),
                                                           !.stage = Entering(Plan(op)[1])]]
           /\ unsure' = CASE kind = "init" -> Names
                          [] OnName(op) /\ Together(op) -> unsure \cup {name}
                          [] OTHER -> unsure
           /\ \/ UNCHANGED odd
              \/ kind \in {"set", "panel"} /\ odd' = odd \cup {ops + 1}
  BY DEF Begin
<1> DEFINE op == [kind |-> kind, name |-> name, scope |-> scope, section |-> section,
                  id |-> ops + 1]
<1>3. /\ client' = [client EXCEPT ![c] = Begun(op)]
       /\ unsure' = CASE op.kind = "init" -> Names
                      [] OnName(op) /\ Together(op) -> unsure \cup {op.name}
                      [] OTHER -> unsure
  BY <1>2 DEF Begun
<1>4. odd \subseteq odd' /\ odd' \subseteq odd \cup {ops'}
  BY <1>1, <1>2
<1>5. /\ op \in Op /\ op.kind # "none" /\ op.id = ops' /\ op.kind = kind /\ op.name = name
      /\ op.kind = "submit" => op.name = Asked
  BY <1>1, <1>2 DEF Op
<1> HIDE DEF op
<1>6. /\ Plan(op) \in Left(op) /\ Plan(op)[1] = Head(Plan(op)) /\ Plan(op) # <<>>
      /\ Fits(op, Head(Plan(op)))
      /\ Head(Plan(op)).edit \notin {"record", "success"}
  BY <1>5, PlanLeft, LeftTail, PlanStarts
<1>7. Entering(Head(Plan(op))) = IF Absolute(Head(Plan(op))) THEN "write" ELSE "read"
  BY DEF Entering, Absolute
<1>8. Begun(op) = [Idle EXCEPT !.op = op, !.todo = Plan(op), !.stage = Entering(Head(Plan(op)))]
  BY <1>6 DEF Begun
<1>9. Begun(op) \in Slot
  <2>1. Plan(op) \in {<<>>} \cup UNION {Left(o) : o \in Op}
    BY <1>5, <1>6
  <2>2. Entering(Head(Plan(op))) \in Stages
    BY <1>7 DEF Stages
  <2> QED
    BY <1>5, <1>8, <2>1, <2>2, IdleIs DEF Slot
<1>10. /\ Begun(op).op = op /\ Begun(op).todo = Plan(op)
      /\ Begun(op).stage = Entering(Head(Plan(op)))
  BY <1>8 DEF Idle
<1>11. Apart(Begun(op)) /\ Begun(op).stage # "fill"
  BY <1>7, <1>10 DEF Apart
<1>12. SoundAt(Begun(op), ops')
  BY <1>1, <1>5, <1>6, <1>7, <1>10, IdleIs DEF SoundAt
<1>13. Head(Begun(op).todo).edit \notin {"record", "success"} /\ Begun(op).todo # <<>>
  BY <1>6, <1>10
<1> QED
  BY <1>1, <1>5, <1>9, <1>10, <1>11, <1>12, <1>13, <1>3, <1>4

(* A client that opens its file for writing. *)
LEMMA TruncateIs ==
    ASSUME TypeInv, NEW c \in Clients, Truncate(c)
    PROVE  /\ Busy(c) /\ client[c].stage = "write" /\ Now(c).file \in Files
           /\ client' \in [Clients -> Slot]
           /\ \A d \in Clients :
                  /\ Placed(client'[d])
                  /\ client'[d].op = client[d].op /\ client'[d].todo = client[d].todo
                  /\ client'[d].copy = client[d].copy /\ client'[d].found = client[d].found
                  /\ d # c => client'[d].stage = client[d].stage
                  /\ client[d].stale => client'[d].stale
                  /\ d # c /\ Holds(d, Now(c).file) => client'[d].stale
                  /\ d # c /\ ~Holds(d, Now(c).file) => client'[d] = client[d]
           /\ client'[c].stage = "fill" /\ client'[c].stale = client[c].stale
<1> DEFINE x == [client[c] EXCEPT !.stage = "fill"]
           old(d) == [client[d] EXCEPT !.stale = TRUE]
<1>1. Busy(c) /\ client[c].stage = "write" /\ client[c] \in Slot /\ Now(c).file \in Files
  BY AtWork DEF Truncate, At
<1>2. client' = [d \in Clients |->
           CASE d = c -> x
             [] d # c /\ Busy(d) /\ Now(d).file = Now(c).file
                      /\ client[d].stage \notin {"read"} -> old(d)
             [] OTHER -> client[d]]
  BY DEF Truncate
<1> HIDE DEF x, old
<1>3. /\ client'[c] = x
      /\ \A d \in Clients : d # c =>
             client'[d] = IF Holds(d, Now(c).file) THEN old(d) ELSE client[d]
  BY <1>2 DEF Holds
<1>4. /\ x \in Slot /\ x.op = client[c].op /\ x.todo = client[c].todo
      /\ x.copy = client[c].copy /\ x.found = client[c].found
      /\ x.stale = client[c].stale /\ x.stage = "fill"
  BY <1>1 DEF x, Slot, Stages
<1>5. Placed(x)
  BY <1>1, <1>4, StaysPlaced, AtWork DEF Sound, SoundAt, Now
<1>6. ASSUME NEW d \in Clients, Holds(d, Now(c).file)
      PROVE  /\ old(d) \in Slot /\ Placed(old(d))
             /\ old(d).op = client[d].op /\ old(d).todo = client[d].todo
             /\ old(d).copy = client[d].copy /\ old(d).found = client[d].found
             /\ old(d).stale /\ old(d).stage = client[d].stage
  <2>1. Busy(d) /\ client[d] \in Slot /\ Sound(client[d])
    BY <1>6, AtWork DEF Holds
  <2>2. /\ old(d) \in Slot /\ old(d).op = client[d].op /\ old(d).todo = client[d].todo
        /\ old(d).copy = client[d].copy /\ old(d).found = client[d].found
        /\ old(d).stale = TRUE /\ old(d).stage = client[d].stage
    BY <2>1 DEF old, Slot
  <2>3. Placed(old(d))
    BY <2>1, <2>2, StaysPlaced DEF Sound, SoundAt, Now
  <2> QED
    BY <2>2, <2>3
<1>7. \A d \in Clients : client[d] \in Slot /\ Placed(client[d])
  BY DEF TypeInv, WorkInv
<1>8. \A d \in Clients : client'[d] \in Slot /\ Placed(client'[d])
  BY <1>3, <1>4, <1>5, <1>6, <1>7
<1>9. client' \in [Clients -> Slot]
  BY <1>2, <1>8
<1> QED
  BY <1>1, <1>3, <1>4, <1>6, <1>8, <1>9

(* What a client writes. *)
Content(c) == Edited(client[c].op, Now(c), client[c].found, client[c].copy)

Added(c) ==
    IF Now(c).file = "request" THEN Content(c)
    ELSE Edited(client[c].op, Now(c), client[c].found, last[Now(c).file])

(* It writes a text of the kind that the file holds. *)
LEMMA FillIs ==
    ASSUME TypeInv, NEW c \in Clients, Fill(c)
    PROVE  /\ Busy(c) /\ client[c].stage = "fill" /\ Now(c).file \in Files
           /\ Content(c) \in Contents(Now(c).file) /\ Added(c) \in Contents(Now(c).file)
           /\ disk' = [disk EXCEPT ![Now(c).file] = Content(c)]
           /\ last' = [last EXCEPT ![Now(c).file] = Added(c)]
           /\ blank' = blank \ {Now(c).file}
           /\ garbled \subseteq garbled'
           /\ garbled' # garbled =>
                  Now(c).file \notin blank \cup Scopes /\ garbled' = garbled \cup {Now(c).file}
           /\ lost' = IF client[c].stale THEN lost \cup {Now(c).file} ELSE lost
           /\ client' = [client EXCEPT ![c] = Rest(c)]
           /\ UNCHANGED <<check, ops, faults, odd, unsure, crossed>>
<1>1. /\ Busy(c) /\ client[c].stage = "fill" /\ client[c] \in Slot /\ Sound(client[c])
      /\ client[c].op \in Op /\ Fits(client[c].op, Now(c)) /\ Now(c).file \in Files
  BY AtWork DEF Fill, At
<1>2. client[c].found \in BOOLEAN
  BY <1>1 DEF Slot
<1>3. Content(c) \in Contents(Now(c).file)
  <2>1. CASE Absolute(Now(c))
    BY <1>1, <2>1, EditedAbsolute DEF Content
  <2>2. CASE ~Absolute(Now(c))
    <3>1. client[c].copy \in Contents(Now(c).file)
      BY <1>1, <2>2 DEF Sound, SoundAt, Now
    <3> QED
      BY <1>1, <1>2, <3>1, EditedType DEF Content
  <2> QED
    BY <2>1, <2>2
<1>4. Added(c) \in Contents(Now(c).file)
  <2>1. last[Now(c).file] \in Contents(Now(c).file)
    BY <1>1 DEF TypeInv, FilesInv
  <2> QED
    BY <1>1, <1>2, <1>3, <2>1, EditedType DEF Added
<1>5. last' = [last EXCEPT ![Now(c).file] = Added(c)]
  BY DEF Fill, Filled, Content, Added
<1>6. garbled' \in {garbled} \cup
                   {garbled \cup {Now(c).file} : f \in {Now(c).file} \ (blank \cup Scopes)}
  BY DEF Fill, Filled
<1>7. /\ garbled \subseteq garbled'
      /\ garbled' # garbled =>
             Now(c).file \notin blank \cup Scopes /\ garbled' = garbled \cup {Now(c).file}
  BY <1>6
<1>8. /\ disk' = [disk EXCEPT ![Now(c).file] = Content(c)]
      /\ blank' = blank \ {Now(c).file}
      /\ lost' = IF client[c].stale THEN lost \cup {Now(c).file} ELSE lost
      /\ client' = [client EXCEPT ![c] = Rest(c)]
      /\ UNCHANGED <<check, ops, faults, odd, unsure, crossed>>
  BY DEF Fill, Filled, Content
<1> QED
  BY <1>1, <1>3, <1>4, <1>5, <1>7, <1>8

----
(* The types and the files. *)
LEMMA TypeInit == Init => TypeInv
<1> SUFFICES ASSUME Init PROVE TypeInv
  OBVIOUS
<1>1. \A f \in Files : disk[f] \in Contents(f)
  BY EmptyType, ContentsAre DEF Init, Files
<1>2. client \in [Clients -> Slot] /\ \A c \in Clients : client[c] = Idle
  BY IdleIs DEF Init
<1>3. WorkInv
  BY <1>2, IdleIs DEF Init, WorkInv, Busy
<1>4. FilesInv
  BY <1>1 DEF Init, FilesInv
<1>5. TypeOK
  BY <1>1, <1>2, IdleIs, ClientTypes, FilesAssumption DEF Init, TypeOK
<1> QED
  BY <1>2, <1>3, <1>4, <1>5 DEF TypeInv

(* A step in which only the clients, the check and the faults change. *)
LEMMA TypeQuiet ==
    ASSUME TypeInv, client' \in [Clients -> Slot], WorkInv',
           UNCHANGED <<files, ops, odd, last, lost>>,
           check' \in {"absent", "plain", "odd"}, faults' \in 0..MaxFaults,
           unsure' \subseteq Names, crossed' \subseteq Ids
    PROVE  TypeInv'
<1>1. FilesInv'
  BY DEF TypeInv, FilesInv, files
<1>2. (\A c \in Clients :
           /\ client[c].op \in Op
           /\ client[c].stage \in Stages
           /\ client[c].stale \in BOOLEAN /\ client[c].found \in BOOLEAN
           /\ client[c].stage = "fill" => Busy(c))'
  BY ClientTypes DEF WorkInv, Placed, Sound, Busy
<1>3. TypeOK'
  BY <1>2 DEF TypeInv, TypeOK, files
<1> QED
  BY <1>1, <1>3 DEF TypeInv

LEMMA TypeBegin ==
    ASSUME TypeInv, NEW c \in Clients, Begin(c)
    PROVE  TypeInv'
<1>1. PICK op \in Op :
          /\ client' = [client EXCEPT ![c] = Begun(op)]
          /\ Begun(op) \in Slot /\ SoundAt(Begun(op), ops')
          /\ Begun(op).op.id = ops' /\ unsure' \subseteq Names
  <2>1. \A op \in Op : op.name \in Names
    BY DEF Op
  <2> QED
    BY <2>1, BeginIs DEF TypeInv, TypeOK
<1>2. /\ ops' = ops + 1 /\ ops' \in 1..MaxOps /\ ops \in 0..MaxOps /\ ~Busy(c)
      /\ odd' \subseteq odd \cup {ops'}
      /\ UNCHANGED <<files, check, faults, last, lost, crossed>>
  BY BeginIs DEF TypeInv, TypeOK
<1>3. /\ client' \in [Clients -> Slot] /\ client'[c] = Begun(op)
      /\ \A d \in Clients : d # c => client'[d] = client[d]
  BY <1>1 DEF TypeInv
<1>4. \A x : Sound(x) => SoundAt(x, ops')
  BY <1>2 DEF Sound, SoundAt
<1>5. \A d \in Clients : client'[d] \in Slot /\ (client'[d] = Idle \/ SoundAt(client'[d], ops'))
  BY <1>1, <1>3, <1>4 DEF TypeInv, WorkInv, Placed
<1>6. (\A d \in Clients : Placed(client[d]))'
  BY <1>5 DEF Placed, Sound
<1>7. \A d \in Clients : d # c /\ client'[d].todo # <<>> => client'[d].op.id \in 1..ops
  BY <1>3, AtWork DEF Busy
<1>8. \A d, e \in Clients :
          Busy(d)' /\ Busy(e)' /\ client'[d].op.id = client'[e].op.id => d = e
  <2> SUFFICES ASSUME NEW d \in Clients, NEW e \in Clients, client'[d].todo # <<>>,
                      client'[e].todo # <<>>, client'[d].op.id = client'[e].op.id, d # e
               PROVE  FALSE
    BY DEF Busy
  <2>1. CASE d = c \/ e = c
    BY <1>1, <1>2, <1>3, <1>7, <2>1
  <2>2. CASE d # c /\ e # c
    BY <1>3, <2>2 DEF TypeInv, WorkInv, Busy
  <2> QED
    BY <2>1, <2>2
<1>9. odd' \cup crossed' \subseteq 1..ops' /\ 1..ops' \subseteq Ids
  BY <1>2, FilesAssumption DEF TypeInv, WorkInv, Ids
<1>10. WorkInv'
  BY <1>6, <1>8, <1>9 DEF WorkInv
<1>11. FilesInv'
  BY <1>2 DEF TypeInv, FilesInv, files
<1>12. (\A d \in Clients :
           /\ client[d].op \in Op
           /\ client[d].stage \in Stages
           /\ client[d].stale \in BOOLEAN /\ client[d].found \in BOOLEAN
           /\ client[d].stage = "fill" => Busy(d))'
  BY <1>5, ClientTypes DEF Busy
<1>13. TypeOK'
  BY <1>1, <1>2, <1>9, <1>12 DEF TypeInv, TypeOK, files
<1> QED
  BY <1>3, <1>10, <1>11, <1>13 DEF TypeInv

(* The steps between reading a file and writing it. *)
LEMMA Between ==
    ASSUME TypeInv, NEW c \in Clients, Look(c) \/ Post(c) \/ Load(c) \/ Unlink(c)
    PROVE  /\ Busy(c) /\ ~Absolute(Now(c)) /\ client[c].stage \in Stages \ {"read", "write", "fill"}
           /\ Look(c) => /\ client[c].stage = "look" /\ Now(c).edit = "bind"
                         /\ client' = [client EXCEPT ![c] =
                              Staged(c, "write", disk[client[c].op.scope][client[c].op.name] # 0)]
           /\ Post(c) => /\ client[c].stage = "page" /\ Now(c).edit = "page"
                         /\ client' = [client EXCEPT ![c] = Staged(c, "load", client[c].found)]
           /\ Load(c) => /\ client[c].stage = "load" /\ Now(c).edit = "page"
                         /\ client' = [client EXCEPT ![c] = Staged(c, "unlink", check # "odd")]
           /\ Unlink(c) => /\ client[c].stage = "unlink" /\ Now(c).edit = "page"
                           /\ \/ client' = [client EXCEPT ![c] = Idle]
                              \/ /\ client[c].found
                                 /\ client' = [client EXCEPT ![c] =
                                                   Staged(c, "write", client[c].found)]
           /\ UNCHANGED <<files, ops, faults, odd, last, lost, unsure>>
<1>1. client[c].stage \in {"look", "page", "load", "unlink"} /\ Busy(c)
  BY DEF Look, Post, Load, Unlink, At
<1>2. client[c] \in Slot /\ Sound(client[c]) /\ client \in [Clients -> Slot]
  BY <1>1, AtWork DEF TypeInv
<1>3. /\ ~Absolute(Now(c))
      /\ client[c].stage = "look" => Now(c).edit = "bind"
      /\ client[c].stage \in {"page", "load", "unlink"} => Now(c).edit = "page"
  BY <1>1, <1>2 DEF Sound, SoundAt, Now
<1>4. \A stage : Staged(c, stage, client[c].found) = [client[c] EXCEPT !.stage = stage]
  BY <1>2 DEF Staged, Slot
<1>5. Look(c) => client' = [client EXCEPT ![c] =
          Staged(c, "write", disk[client[c].op.scope][client[c].op.name] # 0)]
  BY <1>2 DEF Look, Staged, Slot
<1>6. Post(c) => client' = [client EXCEPT ![c] = Staged(c, "load", client[c].found)]
  BY <1>4 DEF Post
<1>7. Load(c) => client' = [client EXCEPT ![c] = Staged(c, "unlink", check # "odd")]
  BY <1>2 DEF Load, Staged, Slot
<1>8. Unlink(c) => \/ client' = [client EXCEPT ![c] = Idle]
                   \/ /\ client[c].found
                      /\ client' = [client EXCEPT ![c] = Staged(c, "write", client[c].found)]
  BY <1>4 DEF Unlink
<1>9. UNCHANGED <<files, ops, faults, odd, last, lost, unsure>>
  BY DEF Look, Post, Load, Unlink, history
<1> QED
  BY <1>1, <1>3, <1>5, <1>6, <1>7, <1>8, <1>9 DEF Look, Post, Load, Unlink, At, Stages

(* A client that gives an operation up, or dies. *)
LEMMA GivingUp ==
    ASSUME TypeInv, NEW c \in Clients, WriteFails(c) \/ Die(c)
    PROVE  /\ Busy(c) /\ faults' \in 0..MaxFaults
           /\ \/ client' = [client EXCEPT ![c] = After(c)]
              \/ client' = [client EXCEPT ![c] = Idle]
           /\ unsure' = IF client[c].op.kind = "remove"
                        THEN unsure \cup {client[c].op.name} ELSE unsure
           /\ UNCHANGED <<files, check, ops, odd, last, lost, crossed>>
<1>1. Busy(c) /\ faults' \in 0..MaxFaults
  BY FilesAssumption DEF WriteFails, Die, At, TypeInv, TypeOK
<1> QED
  BY <1>1 DEF WriteFails, Die, GivesUp, After

(* The steps that write no file. *)
LEMMA TypeMoves ==
    ASSUME TypeInv, NEW c \in Clients,
           Read(c) \/ Look(c) \/ Post(c) \/ Load(c) \/ Unlink(c) \/ WriteFails(c) \/ Die(c)
    PROVE  TypeInv'
<1>1. ASSUME Busy(c), NEW x, Placed(x), x = Idle \/ x.op = client[c].op,
             client' = [client EXCEPT ![c] = x],
             UNCHANGED <<files, ops, odd, last, lost>>,
             check' \in {"absent", "plain", "odd"}, faults' \in 0..MaxFaults,
             unsure' \subseteq unsure \cup {client[c].op.name},
             crossed' \subseteq crossed \cup 1..ops
      PROVE  TypeInv'
  <2>1. client' \in [Clients -> Slot] /\ WorkInv'
    BY <1>1, OneMoves
  <2>2. unsure' \subseteq Names /\ crossed' \subseteq Ids
    <3>1. client[c].op.name \in Names
      BY <1>1, AtWork DEF Op
    <3>2. 1..ops \subseteq Ids
      BY FilesAssumption DEF TypeInv, TypeOK, Ids
    <3> QED
      BY <1>1, <3>1, <3>2 DEF TypeInv, TypeOK
  <2> QED
    BY <1>1, <2>1, <2>2, TypeQuiet
<1>2. /\ check \in {"absent", "plain", "odd"} /\ faults \in 0..MaxFaults
      /\ \A x : x.op = client[c].op => x = Idle \/ x.op = client[c].op
  BY DEF TypeInv, TypeOK
<1>3. CASE Read(c)
  <2>1. Busy(c) /\ At(c, "read")
    BY <1>3 DEF Read, At
  <2>2. CASE client' = [client EXCEPT ![c] = After(c)]
    BY <1>1, <1>2, <1>3, <2>1, <2>2, ReadCases, AfterIs
  <2>3. CASE client' = [client EXCEPT ![c] = Rest(c)]
    BY <1>1, <1>2, <1>3, <2>1, <2>3, ReadCases, RestIs
  <2>4. CASE client' = [client EXCEPT ![c] = Taken(c)]
    BY <1>1, <1>2, <1>3, <2>1, <2>4, ReadCases, TakenIs
  <2> QED
    BY <1>3, <2>2, <2>3, <2>4, ReadCases
<1>4. CASE Look(c) \/ Post(c) \/ Load(c) \/ Unlink(c)
  <2>1. /\ Busy(c) /\ ~Absolute(Now(c)) /\ client[c].stage # "read"
        /\ UNCHANGED <<files, ops, faults, odd, last, lost, unsure>>
    BY <1>4, Between
  <2>2. client[c].found \in BOOLEAN
    BY DEF TypeInv, TypeOK
  <2>3. check' \in {"absent", "plain", "odd"}
    BY <1>2, <1>4 DEF Look, Post, Load, Unlink
  <2>4. crossed' \subseteq crossed \cup 1..ops
    <3>1. \A d \in Clients : Busy(d) => client[d].op.id \in 1..ops
      BY AtWork
    <3>2. CASE Post(c)
      BY <2>1, <3>1, <3>2 DEF Post
    <3>3. CASE Look(c) \/ Load(c) \/ Unlink(c)
      BY <3>3 DEF Look, Load, Unlink, history
    <3> QED
      BY <1>4, <3>2, <3>3
  <2>5. PICK x : /\ Placed(x) /\ (x = Idle \/ x.op = client[c].op)
                 /\ client' = [client EXCEPT ![c] = x]
    <3>1. /\ Placed(Staged(c, "write", client[c].found))
          /\ Staged(c, "write", client[c].found).op = client[c].op
      BY <2>1, <2>2, StagedIs
    <3>2. CASE Look(c)
      <4> DEFINE found == disk[client[c].op.scope][client[c].op.name] # 0
      <4>1. found \in BOOLEAN
        OBVIOUS
      <4>2. client' = [client EXCEPT ![c] = Staged(c, "write", found)]
        BY <3>2, Between
      <4> HIDE DEF found
      <4> QED
        BY <2>1, <4>1, <4>2, StagedIs
    <3>3. CASE Post(c)
      BY <2>1, <2>2, <3>3, Between, StagedIs
    <3>4. CASE Load(c)
      <4> DEFINE found == check # "odd"
      <4>1. found \in BOOLEAN
        OBVIOUS
      <4>2. client' = [client EXCEPT ![c] = Staged(c, "unlink", found)] /\ Now(c).edit = "page"
        BY <3>4, Between
      <4> HIDE DEF found
      <4> QED
        BY <2>1, <4>1, <4>2, StagedIs
    <3>5. CASE Unlink(c)
      BY <3>1, <3>5, Between, IdleIs
    <3> QED
      BY <1>4, <3>2, <3>3, <3>4, <3>5
  <2> QED
    BY <1>1, <1>2, <2>1, <2>3, <2>4, <2>5
<1>5. CASE WriteFails(c) \/ Die(c)
  BY <1>1, <1>2, <1>5, GivingUp, AfterIs, IdleIs
<1> QED
  BY <1>3, <1>4, <1>5

LEMMA TypeTruncate ==
    ASSUME TypeInv, NEW c \in Clients, Truncate(c)
    PROVE  TypeInv'
<1> DEFINE f == Now(c).file
<1>1. /\ f \in Files /\ client' \in [Clients -> Slot]
      /\ \A d \in Clients : /\ Placed(client'[d]) /\ client'[d].op = client[d].op
                            /\ client'[d].todo = client[d].todo
  BY TruncateIs
<1>2. /\ disk' = [disk EXCEPT ![f] = Empty(f)] /\ blank' = blank \cup {f}
      /\ garbled' = garbled \ {f} /\ UNCHANGED <<check, ops, faults, odd, history>>
  BY DEF Truncate
<1> HIDE DEF f
<1>3. WorkInv'
  <2>1. (\A d \in Clients : Placed(client[d]))'
    BY <1>1, <1>2 DEF Placed, Sound, SoundAt
  <2> QED
    BY <1>1, <1>2, <2>1 DEF TypeInv, WorkInv, Busy, history
<1>4. FilesInv'
  BY <1>1, <1>2 DEF TypeInv, TypeOK, FilesInv, history
<1>5. (\A d \in Clients :
           /\ client[d].op \in Op
           /\ client[d].stage \in Stages
           /\ client[d].stale \in BOOLEAN /\ client[d].found \in BOOLEAN
           /\ client[d].stage = "fill" => Busy(d))'
  BY <1>1, ClientTypes DEF Placed, Sound, Busy
<1>6. TypeOK'
  BY <1>1, <1>2, <1>5, EmptyType DEF TypeInv, TypeOK, history
<1> QED
  BY <1>1, <1>3, <1>4, <1>6 DEF TypeInv

(* Texts are only mixed by a client whose copy was old. *)
LEMMA MixedIsLost ==
    ASSUME TypeInv, OverlapInv, NEW c \in Clients, Fill(c)
    PROVE  /\ garbled' \subseteq lost'
           /\ Now(c).file \notin lost' =>
                  /\ Now(c).file \in blank /\ garbled' = garbled /\ ~client[c].stale
                  /\ Content(c) = Added(c)
                  /\ \A d \in Clients \ {c} :
                         Holds(d, Now(c).file) =>
                             client[d].stale \/ (Absolute(Now(d)) /\ client[d].stage = "write")
<1> DEFINE f == Now(c).file
<1>1. /\ Busy(c) /\ client[c].stage = "fill" /\ f \in Files /\ Holds(c, f)
  BY FillIs DEF Holds
<1>2. /\ garbled' # garbled => f \notin blank \cup Scopes /\ garbled' = garbled \cup {f}
      /\ lost' = IF client[c].stale THEN lost \cup {f} ELSE lost
  BY FillIs
<1>3. f \notin lost' => ~client[c].stale /\ f \notin lost
  BY <1>2
<1>4. f \notin lost' =>
          /\ f \in blank /\ garbled' = garbled
          /\ Absolute(Now(c)) \/ client[c].copy = last[f]
          /\ \A d \in Clients \ {c} :
                 Holds(d, f) => client[d].stale \/ (Absolute(Now(d)) /\ client[d].stage = "write")
  BY <1>1, <1>2, <1>3 DEF OverlapInv, Upright
<1>5. garbled' \subseteq lost'
  BY <1>2, <1>4 DEF TypeInv, FilesInv
<1>6. f \notin lost' => Content(c) = Added(c)
  <2>1. Fits(client[c].op, Now(c)) /\ client[c].op \in Op
    BY <1>1, AtWork
  <2>2. CASE Absolute(Now(c))
    BY <2>1, <2>2, EditedAbsolute DEF Content, Added
  <2>3. CASE client[c].copy = last[f]
    BY <2>3 DEF Content, Added
  <2> QED
    BY <1>4, <2>2, <2>3
<1> QED
  BY <1>3, <1>4, <1>5, <1>6

LEMMA TypeFill ==
    ASSUME TypeInv, OverlapInv, NEW c \in Clients, Fill(c)
    PROVE  TypeInv'
<1> DEFINE f == Now(c).file
<1>1. /\ Busy(c) /\ f \in Files
      /\ Content(c) \in Contents(f) /\ Added(c) \in Contents(f)
      /\ disk' = [disk EXCEPT ![f] = Content(c)]
      /\ last' = [last EXCEPT ![f] = Added(c)]
      /\ blank' = blank \ {f}
      /\ garbled' # garbled => f \notin blank \cup Scopes /\ garbled' = garbled \cup {f}
      /\ lost' = IF client[c].stale THEN lost \cup {f} ELSE lost
      /\ client' = [client EXCEPT ![c] = Rest(c)]
      /\ UNCHANGED <<check, ops, faults, odd, unsure, crossed>>
  BY FillIs
<1>2. client' \in [Clients -> Slot] /\ WorkInv'
  BY <1>1, RestIs, OneMoves
<1>3. garbled' \subseteq lost'
  BY MixedIsLost
<1> HIDE DEF f
<1>4. lost' \subseteq Files /\ garbled' \subseteq Files \ Scopes
  BY <1>1 DEF TypeInv, TypeOK
<1>5. FilesInv'
  BY <1>1, <1>3, <1>4 DEF TypeInv, TypeOK, FilesInv
<1>6. (\A d \in Clients :
           /\ client[d].op \in Op
           /\ client[d].stage \in Stages
           /\ client[d].stale \in BOOLEAN /\ client[d].found \in BOOLEAN
           /\ client[d].stage = "fill" => Busy(d))'
  BY <1>2, ClientTypes DEF WorkInv, Placed, Sound, Busy
<1>7. TypeOK'
  BY <1>1, <1>4, <1>6 DEF TypeInv, TypeOK
<1> QED
  BY <1>2, <1>5, <1>7 DEF TypeInv

----
(* Edits that do not overlap are kept. *)
LEMMA OverlapApart ==
    ASSUME TypeInv, OverlapInv, NEW c \in Clients, NEW x, Apart(x),
           client' = [client EXCEPT ![c] = x], UNCHANGED <<files, last, lost>>
    PROVE  OverlapInv'
<1>1. client'[c] = x /\ \A d \in Clients : d # c => client'[d] = client[d]
  BY DEF TypeInv
<1>2. \A f \in Files : Holds(c, f)' => Absolute(Now(c))' /\ client'[c].stage = "write"
  BY <1>1 DEF Apart, Holds, Busy, Now, Absolute
<1>3. \A d \in Clients, f \in Files : d # c => (Holds(d, f)' <=> Holds(d, f)) /\ Now(d)' = Now(d)
  BY <1>1 DEF Holds, Busy, Now
<1>4. EditsKept'
  BY DEF OverlapInv, EditsKept, Settled, files
<1>5. ASSUME NEW d \in Clients, NEW f \in Files
      PROVE  Upright(d, f)'
  <2>1. CASE d = c
    BY <1>2, <2>1 DEF Upright
  <2>2. CASE d # c
    <3>1. Upright(d, f)
      BY DEF OverlapInv
    <3> QED
      BY <1>1, <1>2, <1>3, <2>2, <3>1 DEF Upright, files, Absolute
  <2> QED
    BY <2>1, <2>2
<1> QED
  BY <1>4, <1>5 DEF OverlapInv

(* The copy that is read is old when the file is open for writing. *)
LEMMA OverlapTaken ==
    ASSUME TypeInv, OverlapInv, NEW c \in Clients, Read(c), ~Unreadable(Now(c).file),
           client' = [client EXCEPT ![c] = Taken(c)]
    PROVE  OverlapInv'
<1> DEFINE g == Now(c).file
<1>1. /\ At(c, "read") /\ Busy(c) /\ UNCHANGED <<files, last, lost>>
  BY ReadCases DEF Read, At
<1>2. /\ client'[c] = Taken(c) /\ \A d \in Clients : d # c => client'[d] = client[d]
  BY DEF TypeInv
<1>3. /\ Taken(c).todo = client[c].todo /\ Taken(c).copy = disk[g]
      /\ Taken(c).stale = (g \in blank) /\ Taken(c).stage \in {"look", "page", "write"}
      /\ g \in Files
  BY <1>1, TakenIs, AtWork
<1>4. Now(c)' = Now(c)
  BY <1>2, <1>3 DEF Now
<1>5. \A d \in Clients, f \in Files : d # c => (Holds(d, f)' <=> Holds(d, f)) /\ Now(d)' = Now(d)
  BY <1>2 DEF Holds, Busy, Now
<1>6. EditsKept'
  BY <1>1 DEF OverlapInv, EditsKept, Settled, files
<1>7. g \notin garbled
  BY DEF Unreadable
<1>8. ASSUME NEW d \in Clients, NEW f \in Files
      PROVE  Upright(d, f)'
  <2>1. CASE d = c
    <3>1. Holds(c, f)' => f = g
      BY <1>4 DEF Holds
    <3>2. g \notin blank /\ g \notin lost => disk[g] = last[g]
      BY <1>3, <1>7 DEF OverlapInv, EditsKept, Settled
    <3> QED
      BY <1>1, <1>2, <1>3, <2>1, <3>1, <3>2 DEF Upright
  <2>2. CASE d # c
    <3>1. Upright(d, f)
      BY DEF OverlapInv
    <3>2. Holds(c, f)' => f = g /\ (f \in blank => client'[c].stale)
      BY <1>2, <1>3, <1>4 DEF Holds
    <3> QED
      BY <1>1, <1>2, <1>5, <2>2, <3>1, <3>2 DEF Upright, files, Absolute
  <2> QED
    BY <2>1, <2>2
<1> QED
  BY <1>6, <1>8 DEF OverlapInv

(* Between reading and writing the copy is kept. *)
LEMMA OverlapStaged ==
    ASSUME TypeInv, OverlapInv, NEW c \in Clients, NEW x,
           Busy(c), client[c].stage # "read",
           x.todo = client[c].todo, x.copy = client[c].copy, x.stale = client[c].stale,
           x.stage \notin {"read", "fill"}, ~Absolute(Now(c)),
           client' = [client EXCEPT ![c] = x], UNCHANGED <<files, last, lost>>
    PROVE  OverlapInv'
<1>1. client'[c] = x /\ \A d \in Clients : d # c => client'[d] = client[d]
  BY DEF TypeInv
<1>2. \A d \in Clients, f \in Files : (Holds(d, f)' <=> Holds(d, f)) /\ Now(d)' = Now(d)
  BY <1>1 DEF Holds, Busy, Now
<1>3. EditsKept'
  BY DEF OverlapInv, EditsKept, Settled, files
<1>4. ASSUME NEW d \in Clients, NEW f \in Files
      PROVE  Upright(d, f)'
  <2>1. Upright(d, f)
    BY DEF OverlapInv
  <2> QED
    BY <1>1, <1>2, <2>1 DEF Upright, files, Absolute
<1> QED
  BY <1>3, <1>4 DEF OverlapInv

(* The first to open a file makes the other copies of it stale. *)
LEMMA OverlapTruncate ==
    ASSUME TypeInv, OverlapInv, NEW c \in Clients, Truncate(c)
    PROVE  OverlapInv'
<1> DEFINE g == Now(c).file
<1>1. /\ Busy(c) /\ client[c].stage = "write" /\ g \in Files
      /\ \A d \in Clients :
             /\ client'[d].todo = client[d].todo /\ client'[d].copy = client[d].copy
             /\ client[d].stale => client'[d].stale
             /\ d # c /\ Holds(d, g) => client'[d].stale
             /\ d # c => client'[d].stage = client[d].stage
             /\ d # c /\ ~Holds(d, g) => client'[d] = client[d]
      /\ client'[c].stage = "fill" /\ client'[c].stale = client[c].stale
  BY TruncateIs
<1>2. /\ disk' = [disk EXCEPT ![g] = Empty(g)] /\ blank' = blank \cup {g}
      /\ garbled' = garbled \ {g} /\ last' = last /\ lost' = lost
  BY DEF Truncate, history
<1>3. \A d \in Clients, f \in Files : (Holds(d, f)' <=> Holds(d, f)) /\ Now(d)' = Now(d)
  BY <1>1 DEF Holds, Busy, Now
<1>4. EditsKept'
  BY <1>1, <1>2 DEF OverlapInv, EditsKept, Settled, TypeInv, TypeOK
<1>5. \A d \in Clients : Holds(d, g) => d = c \/ client'[d].stale
  BY <1>1
<1>6. \A f \in Files : Holds(c, f) => f = g
  BY DEF Holds
<1>7. ASSUME NEW d \in Clients, NEW f \in Files
      PROVE  Upright(d, f)'
  <2>1. Upright(d, f)
    BY DEF OverlapInv
  <2>2. CASE d = c
    BY <1>1, <1>2, <1>3, <1>5, <1>6, <2>1, <2>2 DEF Upright
  <2>3. CASE d # c /\ f = g
    BY <1>3, <1>5, <2>3 DEF Upright
  <2>4. CASE d # c /\ f # g
    <3>1. \A e \in Clients : Holds(e, f) => client'[e] = client[e]
      BY <1>1, <1>6, <2>4 DEF Holds
    <3> QED
      BY <1>2, <1>3, <2>1, <2>4, <3>1 DEF Upright, Absolute
  <2> QED
    BY <2>2, <2>3, <2>4
<1> QED
  BY <1>4, <1>7 DEF OverlapInv

(* What is written from such a copy is what the file would hold. *)
LEMMA OverlapFill ==
    ASSUME TypeInv, OverlapInv, NEW c \in Clients, Fill(c)
    PROVE  OverlapInv'
<1> DEFINE g == Now(c).file
<1>1. /\ Busy(c) /\ g \in Files
      /\ disk' = [disk EXCEPT ![g] = Content(c)]
      /\ last' = [last EXCEPT ![g] = Added(c)]
      /\ blank' = blank \ {g}
      /\ garbled \subseteq garbled'
      /\ garbled' # garbled => garbled' = garbled \cup {g}
      /\ lost \subseteq lost' /\ lost' \subseteq lost \cup {g}
      /\ client' = [client EXCEPT ![c] = Rest(c)]
  BY FillIs
<1>2. /\ client'[c] = Rest(c) /\ Apart(Rest(c))
      /\ \A d \in Clients : d # c => client'[d] = client[d]
  BY <1>1, RestIs DEF TypeInv
<1>3. \A f \in Files : Holds(c, f)' => Absolute(Now(c))' /\ client'[c].stage = "write"
  BY <1>2 DEF Apart, Holds, Busy, Now, Absolute
<1>4. \A d \in Clients, f \in Files : d # c => (Holds(d, f)' <=> Holds(d, f)) /\ Now(d)' = Now(d)
  BY <1>2 DEF Holds, Busy, Now
<1>5. g \notin lost' =>
          /\ garbled' = garbled /\ Content(c) = Added(c)
          /\ \A d \in Clients \ {c} :
                 Holds(d, g) => client[d].stale \/ (Absolute(Now(d)) /\ client[d].stage = "write")
  BY MixedIsLost
<1> HIDE DEF g
<1>6. EditsKept'
  <2> SUFFICES ASSUME NEW f \in Files, Settled(f)'
               PROVE  disk'[f] = last'[f]
    BY DEF EditsKept
  <2>1. f \in DOMAIN disk /\ f \in DOMAIN last
    BY DEF TypeInv, TypeOK, FilesInv
  <2>2. CASE f = g
    BY <1>1, <1>5, <2>1, <2>2 DEF Settled
  <2>3. CASE f # g
    <3>1. Settled(f)
      BY <1>1, <2>3 DEF Settled
    <3> QED
      BY <1>1, <2>3, <3>1 DEF OverlapInv, EditsKept
  <2> QED
    BY <2>2, <2>3
<1>7. ASSUME NEW d \in Clients, NEW f \in Files
      PROVE  Upright(d, f)'
  <2>1. Upright(d, f)
    BY DEF OverlapInv
  <2>2. CASE d = c
    BY <1>3, <2>2 DEF Upright
  <2>3. CASE d # c /\ f = g
    <3>1. f \notin lost' /\ Holds(d, f) =>
              client[d].stale \/ (Absolute(Now(d)) /\ client[d].stage = "write")
      BY <1>5, <2>3
    <3> QED
      BY <1>2, <1>4, <2>3, <3>1 DEF Upright, Absolute
  <2>4. CASE d # c /\ f # g
    <3>1. last'[f] = last[f] /\ (f \in blank' <=> f \in blank) /\ (f \in lost' <=> f \in lost)
      BY <1>1, <2>4
    <3> QED
      BY <1>2, <1>3, <1>4, <2>1, <2>4, <3>1 DEF Upright, Absolute
  <2> QED
    BY <2>2, <2>3, <2>4
<1> QED
  BY <1>6, <1>7 DEF OverlapInv

LEMMA OverlapSteps ==
    ASSUME TypeInv, OverlapInv, NEW c \in Clients,
           \/ Begin(c) \/ Read(c) \/ Look(c) \/ Post(c) \/ Load(c) \/ Unlink(c)
           \/ Truncate(c) \/ Fill(c) \/ WriteFails(c) \/ Die(c)
    PROVE  OverlapInv'
<1>1. CASE Begin(c)
  BY <1>1, BeginIs, OverlapApart
<1>2. CASE Read(c)
  <2>1. Busy(c) /\ UNCHANGED <<files, last, lost>>
    BY <1>2, ReadCases DEF Read, At
  <2>2. CASE client' = [client EXCEPT ![c] = After(c)]
    BY <2>1, <2>2, AfterIs, OverlapApart
  <2>3. CASE client' = [client EXCEPT ![c] = Rest(c)]
    BY <2>1, <2>3, RestIs, OverlapApart
  <2>4. CASE ~Unreadable(Now(c).file) /\ client' = [client EXCEPT ![c] = Taken(c)]
    BY <1>2, <2>4, OverlapTaken
  <2> QED
    BY <1>2, <2>2, <2>3, <2>4, ReadCases
<1>3. CASE Look(c) \/ Post(c) \/ Load(c) \/ Unlink(c)
  <2>1. /\ Busy(c) /\ ~Absolute(Now(c)) /\ client[c].stage # "read"
        /\ UNCHANGED <<files, last, lost>>
    BY <1>3, Between
  <2>2. client[c] \in Slot
    BY DEF TypeInv
  <2>3. ASSUME NEW stage \in {"load", "unlink", "write"}, NEW found,
               client' = [client EXCEPT ![c] = Staged(c, stage, found)]
        PROVE  OverlapInv'
    <3>1. /\ Staged(c, stage, found).todo = client[c].todo
          /\ Staged(c, stage, found).copy = client[c].copy
          /\ Staged(c, stage, found).stale = client[c].stale
          /\ Staged(c, stage, found).stage = stage
      BY <2>2 DEF Staged, Slot
    <3> QED
      BY <2>1, <2>3, <3>1, OverlapStaged
  <2>4. CASE client' = [client EXCEPT ![c] = Idle]
    BY <2>1, <2>4, IdleIs, OverlapApart
  <2>5. \/ client' = [client EXCEPT ![c] = Idle]
        \/ \E stage \in {"load", "unlink", "write"}, found \in {client[c].found, check # "odd",
               disk[client[c].op.scope][client[c].op.name] # 0} :
               client' = [client EXCEPT ![c] = Staged(c, stage, found)]
    BY <1>3, Between
  <2> QED
    BY <2>3, <2>4, <2>5
<1>4. CASE Truncate(c)
  BY <1>4, OverlapTruncate
<1>5. CASE Fill(c)
  BY <1>5, OverlapFill
<1>6. CASE WriteFails(c) \/ Die(c)
  BY <1>6, GivingUp, AfterIs, IdleIs, OverlapApart
<1> QED
  BY <1>1, <1>2, <1>3, <1>4, <1>5, <1>6

----
(* The panel's checks. *)
LEMMA ApartIsNoPage ==
    ASSUME NEW x, Apart(x), x.todo = <<>> \/ Fits(x.op, Head(x.todo)), x.op.scope \in Scopes
    PROVE  /\ x.todo # <<>> => x.stage \notin {"load", "unlink", "fill"}
           /\ x.todo # <<>> /\ Head(x.todo).edit = "page" => x.stage = "read"
BY DEF Apart, Absolute, Fits, Task, Scopes

LEMMA PlacedFits ==
    ASSUME NEW x, NEW begun, x \in Slot, x = Idle \/ SoundAt(x, begun)
    PROVE  (x.todo = <<>> \/ Fits(x.op, Head(x.todo))) /\ x.op.scope \in Scopes
BY IdleIs, LeftTail DEF SoundAt, Slot, Op

LEMMA PanelApart ==
    ASSUME TypeInv, PanelInv, NEW c \in Clients, NEW x, Apart(x),
           x.todo = <<>> \/ Fits(x.op, Head(x.todo)), x.op.scope \in Scopes,
           client' = [client EXCEPT ![c] = x], check' = check, crossed' = crossed,
           \A d \in Clients : Busy(d) => (client[d].op.id \in odd' <=> client[d].op.id \in odd)
    PROVE  PanelInv'
<1>1. client'[c] = x /\ \A d \in Clients : d # c => client'[d] = client[d]
  BY DEF TypeInv
<1>2. /\ x.todo # <<>> => x.stage \notin {"load", "unlink", "fill"}
      /\ x.todo # <<>> /\ Head(x.todo).edit = "page" => x.stage = "read"
  BY ApartIsNoPage
<1>3. ASSUME NEW d \in Clients
      PROVE  Checked(d)' /\ Alone(d)'
  <2>1. Checked(d) /\ Alone(d)
    BY DEF PanelInv
  <2>2. CASE d = c
    BY <1>1, <1>2, <2>2 DEF Checked, Alone, Busy, Now, Checking
  <2>3. CASE d # c
    <3>1. Checked(d)'
      BY <1>1, <2>1, <2>3 DEF Checked, Busy, Now
    <3>2. Alone(d)'
      BY <1>1, <1>2, <2>1, <2>3 DEF Alone, Busy, Checking
    <3> QED
      BY <3>1, <3>2
  <2> QED
    BY <2>2, <2>3
<1> QED
  BY <1>3 DEF PanelInv

(* A client whose stage changes otherwise than in a check. *)
LEMMA PanelElse ==
    ASSUME TypeInv, PanelInv, UNCHANGED <<check, crossed, odd>>,
           \A d \in Clients :
               /\ client'[d].op = client[d].op /\ client'[d].todo = client[d].todo
               /\ client'[d].found = client[d].found \/ client'[d].stage \notin {"load", "unlink"}
               /\ \/ client'[d].stage = client[d].stage
                  \/ client[d].stage = "write" /\ client'[d].stage = "fill"
                  \/ ~Checking(d)' /\ Now(d).edit # "page"
                  \/ ~Checking(d)' /\ client'[d].stage \notin {"write", "fill"}
    PROVE  PanelInv'
<1>1. ASSUME NEW d \in Clients
      PROVE  (Busy(d)' <=> Busy(d)) /\ Now(d)' = Now(d) /\ (Checking(d)' => Checking(d))
  BY DEF Busy, Now, Checking
<1>2. ASSUME NEW d \in Clients
      PROVE  Checked(d)' /\ Alone(d)'
  <2>1. Checked(d) /\ Alone(d)
    BY DEF PanelInv
  <2>2. Checked(d)'
    BY <1>1, <2>1 DEF Checked
  <2>3. Alone(d)'
    BY <1>1, <2>1 DEF Alone, Checking
  <2> QED
    BY <2>2, <2>3
<1> QED
  BY <1>2 DEF PanelInv

(* A check that meets another marks both. *)
LEMMA PanelPost ==
    ASSUME TypeInv, PanelInv, NEW c \in Clients, Post(c)
    PROVE  PanelInv'
<1> DEFINE x == Staged(c, "load", client[c].found)
           id == client[c].op.id
           others == {client[d].op.id : d \in {d \in Clients \ {c} : Busy(d) /\ Checking(d)}}
<1>1. /\ Busy(c) /\ client[c].stage = "page" /\ Now(c).edit = "page"
      /\ client' = [client EXCEPT ![c] = x] /\ odd' = odd
  BY Between
<1>2. /\ check' = IF id \in odd THEN "odd" ELSE "plain"
      /\ crossed' = IF others = {} THEN crossed ELSE crossed \cup others \cup {id}
  BY DEF Post
<1>3. x.op = client[c].op /\ x.todo = client[c].todo /\ x.stage = "load"
  BY <1>1, AtWork DEF Staged, Slot
<1>4. client'[c] = x /\ \A d \in Clients : d # c => client'[d] = client[d]
  BY <1>1 DEF TypeInv
<1>5. \A d \in Clients : d # c /\ Busy(d) /\ Checking(d) => client[d].op.id \in others
  OBVIOUS
<1> HIDE DEF others, x
<1>6. ASSUME NEW d \in Clients
      PROVE  Checked(d)' /\ Alone(d)'
  <2>1. Checked(d) /\ Alone(d)
    BY DEF PanelInv
  <2>2. CASE d = c
    <3>1. Checked(d)'
      BY <1>3, <1>4, <2>2 DEF Checked
    <3>2. id \notin crossed' => \A e \in Clients : Busy(e)' /\ Checking(e)' => e = c
      BY <1>2, <1>4, <1>5 DEF Busy, Checking
    <3>3. Alone(d)'
      BY <1>1, <1>2, <1>3, <1>4, <2>2, <3>2 DEF Alone
    <3> QED
      BY <3>1, <3>3
  <2>3. CASE d # c
    <3>1. Checked(d)'
      BY <1>1, <1>2, <1>4, <2>1, <2>3 DEF Checked, Busy, Now
    <3>2. Busy(d) /\ Checking(d) => client[d].op.id \in crossed'
      BY <1>2, <1>5, <2>3
    <3>3. Alone(d)'
      BY <1>4, <2>3, <3>2 DEF Alone, Busy, Checking
    <3> QED
      BY <3>1, <3>3
  <2> QED
    BY <2>2, <2>3
<1> QED
  BY <1>6 DEF PanelInv

LEMMA PanelLoad ==
    ASSUME TypeInv, PanelInv, NEW c \in Clients, Load(c)
    PROVE  PanelInv'
<1> DEFINE x == Staged(c, "unlink", check # "odd")
<1>1. /\ Busy(c) /\ client[c].stage = "load" /\ Now(c).edit = "page"
      /\ client' = [client EXCEPT ![c] = x] /\ odd' = odd
  BY Between
<1>2. UNCHANGED <<check, crossed>>
  BY DEF Load, history
<1>3. /\ x.op = client[c].op /\ x.todo = client[c].todo /\ x.stage = "unlink"
      /\ x.found = (check # "odd")
  BY <1>1, AtWork DEF Staged, Slot
<1>4. client'[c] = x /\ \A d \in Clients : d # c => client'[d] = client[d]
  BY <1>1 DEF TypeInv
<1> HIDE DEF x
<1>5. \A d \in Clients : (Busy(d)' <=> Busy(d)) /\ (Checking(d)' <=> Checking(d)) /\ Now(d)' = Now(d)
  BY <1>1, <1>3, <1>4 DEF Busy, Checking, Now
<1>6. ASSUME NEW d \in Clients
      PROVE  Checked(d)' /\ Alone(d)'
  <2>1. Checked(d) /\ Alone(d)
    BY DEF PanelInv
  <2>2. Checked(d)'
    BY <1>1, <1>2, <1>3, <1>4, <1>5, <2>1 DEF Checked
  <2>3. Alone(d)'
    <3>1. CASE d = c
      <4>1. client[c].op.id \notin crossed =>
                /\ \A e \in Clients : Busy(e) /\ Checking(e) => e = c
                /\ check = IF client[c].op.id \in odd THEN "odd" ELSE "plain"
        BY <1>1, <2>1, <3>1 DEF Alone, Checking
      <4>2. client'[c].op = client[c].op /\ client'[c].stage = "unlink"
            /\ (client'[c].found <=> check # "odd")
        BY <1>3, <1>4
      <4> QED
        BY <1>1, <1>2, <1>5, <3>1, <4>1, <4>2 DEF Alone
    <3>2. CASE d # c
      <4>1. Busy(d) /\ Checking(d) => client[d].op.id \in crossed
        BY <1>1, <2>1, <3>2 DEF Alone, Checking
      <4> QED
        BY <1>2, <1>4, <1>5, <3>2, <4>1 DEF Alone
    <3> QED
      BY <3>1, <3>2
  <2> QED
    BY <2>2, <2>3
<1> QED
  BY <1>6 DEF PanelInv

LEMMA PanelUnlink ==
    ASSUME TypeInv, PanelInv, NEW c \in Clients, Unlink(c)
    PROVE  PanelInv'
<1>1. /\ Busy(c) /\ client[c].stage = "unlink" /\ Now(c).edit = "page" /\ odd' = odd
  BY Between
<1>2. crossed' = crossed
  BY DEF Unlink, history
<1>3. PICK x : /\ client' = [client EXCEPT ![c] = x]
               /\ x.todo = <<>> \/ (/\ x.op = client[c].op /\ x.todo = client[c].todo
                                    /\ x.stage = "write" /\ client[c].found)
  <2>1. \/ client' = [client EXCEPT ![c] = Idle]
        \/ client[c].found /\ client' = [client EXCEPT ![c] = Staged(c, "write", client[c].found)]
    BY Between
  <2>2. /\ Staged(c, "write", client[c].found).op = client[c].op
        /\ Staged(c, "write", client[c].found).todo = client[c].todo
        /\ Staged(c, "write", client[c].found).stage = "write"
    BY <1>1, AtWork DEF Staged, Slot
  <2> QED
    BY <2>1, <2>2, IdleIs
<1>4. client'[c] = x /\ \A d \in Clients : d # c => client'[d] = client[d]
  BY <1>3 DEF TypeInv
<1>5. ASSUME NEW d \in Clients
      PROVE  Checked(d)' /\ Alone(d)'
  <2>1. Checked(d) /\ Alone(d)
    BY DEF PanelInv
  <2>2. CASE d = c
    BY <1>1, <1>2, <1>3, <1>4, <2>1, <2>2 DEF Checked, Alone, Busy, Checking
  <2>3. CASE d # c
    <3>1. Checked(d)'
      BY <1>1, <1>2, <1>4, <2>1, <2>3 DEF Checked, Busy, Now
    <3>2. Busy(d) /\ Checking(d) => client[d].op.id \in crossed
      BY <1>1, <2>1, <2>3 DEF Alone, Checking
    <3>3. Alone(d)'
      BY <1>2, <1>4, <2>3, <3>2 DEF Alone, Busy, Checking
    <3> QED
      BY <3>1, <3>3
  <2> QED
    BY <2>2, <2>3
<1> QED
  BY <1>5 DEF PanelInv

LEMMA PanelSteps ==
    ASSUME TypeInv, PanelInv, NEW c \in Clients,
           \/ Begin(c) \/ Read(c) \/ Look(c) \/ Post(c) \/ Load(c) \/ Unlink(c)
           \/ Truncate(c) \/ Fill(c) \/ WriteFails(c) \/ Die(c)
    PROVE  PanelInv'
<1>1. ASSUME NEW x, Placed(x), Apart(x), client' = [client EXCEPT ![c] = x],
             UNCHANGED <<check, crossed, odd>>
      PROVE  PanelInv'
  BY <1>1, PlacedFits, PanelApart DEF Placed, Sound
<1>2. CASE Begin(c)
  <2>1. PICK op \in Op : /\ client' = [client EXCEPT ![c] = Begun(op)]
                         /\ Begun(op) \in Slot /\ Apart(Begun(op))
                         /\ SoundAt(Begun(op), ops')
    BY <1>2, BeginIs
  <2>2. odd \subseteq odd' /\ odd' \subseteq odd \cup {ops'} /\ ops' = ops + 1
    BY <1>2, BeginIs
  <2>3. \A d \in Clients : Busy(d) => client[d].op.id # ops'
    BY <2>2, AtWork DEF TypeInv, TypeOK
  <2>4. check' = check /\ crossed' = crossed
    BY <1>2, BeginIs
  <2> QED
    BY <2>1, <2>2, <2>3, <2>4, PlacedFits, PanelApart
<1>3. CASE Read(c)
  <2>1. Busy(c) /\ At(c, "read") /\ UNCHANGED <<check, crossed, odd>>
    BY <1>3, ReadCases DEF Read, At
  <2>2. CASE client' = [client EXCEPT ![c] = After(c)]
    BY <1>1, <2>1, <2>2, AfterIs
  <2>3. CASE client' = [client EXCEPT ![c] = Rest(c)]
    BY <1>1, <2>1, <2>3, RestIs
  <2>4. CASE client' = [client EXCEPT ![c] = Taken(c)]
    <3>1. client'[c] = Taken(c) /\ \A d \in Clients : d # c => client'[d] = client[d]
      BY <2>4 DEF TypeInv
    <3>2. /\ Taken(c).op = client[c].op /\ Taken(c).todo = client[c].todo
          /\ Taken(c).found = client[c].found
          /\ Taken(c).stage \in {"look", "page", "write"}
          /\ Now(c).edit = "page" => Taken(c).stage # "write"
      BY <2>1, TakenIs
    <3>3. \A d \in Clients :
               /\ client'[d].op = client[d].op /\ client'[d].todo = client[d].todo
               /\ client'[d].found = client[d].found
               /\ \/ client'[d].stage = client[d].stage
                  \/ ~Checking(d)' /\ Now(d).edit # "page"
                  \/ ~Checking(d)' /\ client'[d].stage \notin {"write", "fill"}
      BY <3>1, <3>2 DEF Checking
    <3> QED
      BY <2>1, <3>3, PanelElse
  <2> QED
    BY <1>3, <2>2, <2>3, <2>4, ReadCases
<1>4. CASE Look(c)
  <2>1. /\ Busy(c) /\ Now(c).edit = "bind"
        /\ client' = [client EXCEPT ![c] =
               Staged(c, "write", disk[client[c].op.scope][client[c].op.name] # 0)]
    BY <1>4, Between
  <2> DEFINE x == Staged(c, "write", disk[client[c].op.scope][client[c].op.name] # 0)
  <2>2. x.op = client[c].op /\ x.todo = client[c].todo /\ x.stage = "write"
    BY <2>1, AtWork DEF Staged, Slot
  <2> HIDE DEF x
  <2>3. client'[c] = x /\ \A d \in Clients : d # c => client'[d] = client[d]
    BY <2>1 DEF TypeInv, x
  <2>4. \A d \in Clients :
            /\ client'[d].op = client[d].op /\ client'[d].todo = client[d].todo
            /\ client'[d].found = client[d].found \/ client'[d].stage \notin {"load", "unlink"}
            /\ \/ client'[d].stage = client[d].stage
               \/ ~Checking(d)' /\ Now(d).edit # "page"
    BY <2>1, <2>2, <2>3 DEF Checking
  <2>5. UNCHANGED <<check, crossed, odd>>
    BY <1>4 DEF Look, history
  <2> QED
    BY <2>4, <2>5, PanelElse
<1>5. CASE Truncate(c)
  <2>1. UNCHANGED <<check, crossed, odd>>
    BY <1>5 DEF Truncate, history
  <2>2. \A d \in Clients :
            /\ client'[d].op = client[d].op /\ client'[d].todo = client[d].todo
            /\ client'[d].found = client[d].found
            /\ \/ client'[d].stage = client[d].stage
               \/ client[d].stage = "write" /\ client'[d].stage = "fill"
    BY <1>5, TruncateIs
  <2> QED
    BY <2>1, <2>2, PanelElse
<1>6. CASE Fill(c)
  BY <1>1, <1>6, FillIs, RestIs
<1>7. CASE WriteFails(c) \/ Die(c)
  BY <1>1, <1>7, GivingUp, AfterIs, IdleIs
<1> QED
  BY <1>2, <1>3, <1>4, <1>5, <1>6, <1>7, PanelPost, PanelLoad, PanelUnlink

----
(* The secrets. *)
LEMMA NameQuiet ==
    ASSUME NEW n \in Names, NameInv(n), last' = last, unsure \subseteq unsure', lost \subseteq lost',
           \A d \in Clients : Busy(d)' => Busy(d) /\ client'[d].op = client[d].op,
           \A d \in Clients : Sure(n)' /\ On(d, n) /\ client[d].op.kind = "remove" =>
               Busy(d)' \/ last.metadata[n].exists # "yes",
           \A d \in Clients : Sure(n)' /\ On(d, n)' =>
               /\ Now(d)'.edit = "record" => Now(d).edit = "record"
               /\ Finds(d)' => Finds(d) \/ last[client[d].op.scope][n] # 0
    PROVE  NameInv(n)'
<1> SUFFICES ASSUME Sure(n)' PROVE NameInv(n)'
  BY DEF NameInv
<1>1. Sure(n)
  BY DEF Sure
<1>2. \A d \in Clients : On(d, n)' => On(d, n) /\ client'[d].op = client[d].op
  BY DEF On
<1>3. \A c, d \in Clients : On(c, n)' /\ On(d, n)' => c = d
  BY <1>1, <1>2 DEF NameInv
<1>4. \A c \in Clients : Busy(c)' => client'[c].op.kind # "init"
  BY <1>1 DEF NameInv
<1>5. last'.metadata[n].exists = "yes" =>
          Valued(n)' \/ \E c \in Clients : On(c, n)' /\ client'[c].op.kind = "remove"
  <2>1. SUFFICES ASSUME last.metadata[n].exists = "yes", NEW c \in Clients, On(c, n),
                        client[c].op.kind = "remove"
                 PROVE  On(c, n)' /\ client'[c].op.kind = "remove"
    BY <1>1 DEF NameInv, Valued
  <2> QED
    BY <2>1 DEF On
<1>6. \A c \in Clients :
          On(c, n)' /\ (Now(c)'.edit = "record" \/ Finds(c)') =>
              last'[client'[c].op.scope][n] # 0
  BY <1>1, <1>2 DEF NameInv
<1> QED
  BY <1>3, <1>4, <1>5, <1>6 DEF NameInv

LEMMA DoneQuiet ==
    ASSUME DoneInv, last' = last, lost \subseteq lost',
           disk'.request = "success" => disk.request = "success",
           \A d \in Clients : Busy(d)' /\ Now(d)'.edit = "success" =>
               Busy(d) /\ Now(d).edit = "success"
    PROVE  DoneInv'
BY DEF DoneInv

(* What an edit changes of the names. *)
LEMMA FillLast ==
    ASSUME TypeInv, NEW c \in Clients, Fill(c)
    PROVE  LET op == client[c].op  edit == Now(c).edit IN
           /\ op.name \in Names /\ op.scope \in Scopes
           /\ \A k \in Names : last.metadata[k].bound => last'.metadata[k].bound
           /\ edit = "bind" => last'.metadata[op.name].bound
           /\ edit # "default" =>
                  /\ \A s \in Scopes, k \in Names : k # op.name => last'[s][k] = last[s][k]
                  /\ \A k \in Names : k # op.name => last'.metadata[k] = last.metadata[k]
                  /\ ~OnName(op) => last'.metadata = last.metadata
                                    /\ \A s \in Scopes : last'[s] = last[s]
                  /\ edit # "drop" =>
                         \A s \in Scopes : last[s][op.name] # 0 => last'[s][op.name] # 0
                  /\ edit = "upsert" => last'[op.scope][op.name] # 0
                  /\ last'.metadata[op.name].exists =
                         CASE edit = "record" -> "yes"
                           [] edit = "bind" -> IF client[c].found THEN "yes" ELSE "no"
                           [] edit = "gone" -> "no"
                           [] OTHER -> last.metadata[op.name].exists
<1> DEFINE op == client[c].op
           f == Now(c).file
           edit == Now(c).edit
<1>1. /\ Busy(c) /\ f \in Files /\ last' = [last EXCEPT ![f] = Added(c)] /\ Fits(op, Now(c))
      /\ op \in Op /\ op.id \in 1..ops
  BY FillIs, AtWork
<1>2. op.name \in Names /\ op.scope \in Scopes /\ op.id # 0 /\ op.id \in Nat
  BY <1>1 DEF Op, TypeInv, TypeOK
<1>3. /\ f \in DOMAIN last /\ last'[f] = Added(c)
      /\ \A g \in Files : g # f => last'[g] = last[g]
  BY <1>1 DEF TypeInv, FilesInv
<1>4. /\ \A s \in Scopes : last[s] \in [Names -> 0..MaxOps] /\ s \in Files /\ s # "metadata"
      /\ last["metadata"] \in [Names -> Metadata] /\ "metadata" \in Files
  BY ContentsAre DEF TypeInv, FilesInv, Files, Scopes
<1>5. f # "request" => Added(c) = Edited(op, Now(c), client[c].found, last[f])
  BY DEF Added
<1>6. CASE edit = "upsert"
  <2>1. f = op.scope /\ Added(c) = [last[f] EXCEPT ![op.name] = op.id] /\ OnName(op)
    BY <1>1, <1>2, <1>5, <1>6 DEF Fits, Task, Edited, Scopes, Storing, OnName
  <2> HIDE DEF op, f, edit
  <2>2. /\ last'["metadata"] = last["metadata"]
        /\ last'[f][op.name] # 0 /\ \A k \in Names : k # op.name => last'[f][k] = last[f][k]
    BY <1>1, <1>2, <1>3, <1>4, <2>1
  <2> QED
    BY <1>2, <1>3, <1>4, <1>6, <2>1, <2>2 DEF op, f, edit
<1>7. CASE edit = "drop"
  <2>1. f = op.scope /\ Added(c) = [last[f] EXCEPT ![op.name] = 0] /\ OnName(op)
    BY <1>1, <1>2, <1>5, <1>7 DEF Fits, Task, Edited, Scopes, Storing, OnName
  <2> HIDE DEF op, f, edit
  <2>2. /\ last'["metadata"] = last["metadata"]
        /\ \A k \in Names : k # op.name => last'[f][k] = last[f][k]
    BY <1>1, <1>2, <1>3, <1>4, <2>1
  <2> QED
    BY <1>2, <1>3, <1>4, <1>7, <2>1, <2>2 DEF op, f, edit
<1>8. CASE edit \in {"record", "bind", "gone"}
  <2>1. f = "metadata" /\ OnName(op)
    BY <1>1, <1>2, <1>8 DEF Fits, Task, Scopes, Storing, OnName
  <2>2. Added(c) =
            CASE edit = "record" -> [last["metadata"] EXCEPT ![op.name].exists = "yes"]
              [] edit = "bind" -> [last["metadata"] EXCEPT ![op.name] =
                     [exists |-> IF client[c].found THEN "yes" ELSE "no", bound |-> TRUE]]
              [] OTHER -> [last["metadata"] EXCEPT ![op.name].exists = "no"]
    BY <1>5, <1>8, <2>1 DEF Edited
  <2> HIDE DEF op, f, edit
  <2>3. \A s \in Scopes : last'[s] = last[s]
    BY <1>3, <1>4, <2>1
  <2>4. \A k \in Names : k # op.name => last'["metadata"][k] = last["metadata"][k]
    BY <1>3, <1>4, <1>8, <2>1, <2>2
  <2>5. last["metadata"][op.name] \in [exists : {"none", "yes", "no"}, bound : BOOLEAN]
    BY <1>2, <1>4 DEF Metadata
  <2>6. /\ last'["metadata"][op.name].exists =
               CASE edit = "record" -> "yes"
                 [] edit = "bind" -> IF client[c].found THEN "yes" ELSE "no"
                 [] OTHER -> "no"
        /\ last["metadata"][op.name].bound => last'["metadata"][op.name].bound
        /\ edit = "bind" => last'["metadata"][op.name].bound
    BY <1>2, <1>3, <1>4, <1>8, <2>1, <2>2, <2>5
  <2> QED
    BY <1>2, <1>4, <1>8, <2>1, <2>3, <2>4, <2>6 DEF op, f, edit
<1>9. CASE edit \in {"set", "page", "create", "success", "failed", "cancelled"}
  <2>1. f \notin Scopes \cup {"metadata"}
    BY <1>1, <1>9 DEF Fits, Task, Scopes
  <2>2. last'["metadata"] = last["metadata"] /\ \A s \in Scopes : last'[s] = last[s]
    BY <1>3, <1>4, <2>1
  <2> HIDE DEF op, f, edit
  <2> QED
    BY <1>2, <1>9, <2>2 DEF op, f, edit
<1>10. CASE edit = "default"
  <2>1. f # "metadata"
    BY <1>1, <1>10 DEF Fits, Task, Scopes
  <2> QED
    BY <1>2, <1>3, <1>4, <1>10, <2>1
<1>11. \/ edit \in {"upsert", "drop", "record", "bind", "gone", "default"}
       \/ edit \in {"set", "page", "create", "success", "failed", "cancelled"}
  BY <1>1 DEF Fits, Task
<1> QED
  BY <1>6, <1>7, <1>8, <1>9, <1>10, <1>11

(* An edit of a secret. *)
LEMMA NameFill ==
    ASSUME TypeInv, NEW n \in Names, NameInv(n), NEW c \in Clients, Fill(c)
    PROVE  NameInv(n)'
<1> SUFFICES ASSUME Sure(n)' PROVE NameInv(n)'
  BY DEF NameInv
<1> DEFINE op == client[c].op
           edit == Now(c).edit
           m == op.name
<1>1. /\ Busy(c) /\ client[c].stage = "fill" /\ client' = [client EXCEPT ![c] = Rest(c)]
      /\ unsure' = unsure /\ lost \subseteq lost'
  BY FillIs
<1>2. /\ client'[c] = Rest(c) /\ \A d \in Clients : d # c => client'[d] = client[d]
  BY <1>1 DEF TypeInv
<1>3. Sure(n)
  BY <1>1 DEF Sure
<1>4. /\ \A d, e \in Clients : On(d, n) /\ On(e, n) => d = e
      /\ \A d \in Clients : Busy(d) => client[d].op.kind # "init"
      /\ last.metadata[n].exists = "yes" =>
             Valued(n) \/ \E d \in Clients : On(d, n) /\ client[d].op.kind = "remove"
      /\ \A d \in Clients :
             On(d, n) /\ (Now(d).edit = "record" \/ Finds(d)) => last[client[d].op.scope][n] # 0
  BY <1>3 DEF NameInv
<1>5. Fits(op, Now(c)) /\ op \in Op
  BY <1>1, AtWork
<1>6. edit # "default"
  BY <1>1, <1>4, <1>5 DEF Fits, Task, Op
<1>7. /\ m \in Names /\ op.scope \in Scopes
      /\ \A s \in Scopes, k \in Names : k # m => last'[s][k] = last[s][k]
      /\ \A k \in Names : k # m => last'.metadata[k] = last.metadata[k]
      /\ ~OnName(op) => last'.metadata = last.metadata /\ \A s \in Scopes : last'[s] = last[s]
      /\ edit # "drop" => \A s \in Scopes : last[s][m] # 0 => last'[s][m] # 0
      /\ edit = "upsert" => last'[op.scope][m] # 0
      /\ last'.metadata[m].exists = CASE edit = "record" -> "yes"
                                      [] edit = "bind" -> IF client[c].found THEN "yes" ELSE "no"
                                      [] edit = "gone" -> "no"
                                      [] OTHER -> last.metadata[m].exists
  BY <1>6, FillLast
<1>8. /\ Rest(c) = Idle \/ (/\ Rest(c).op = op /\ Rest(c).stage # "fill"
                            /\ Head(Rest(c).todo).edit = "record" => edit = "upsert")
      /\ edit \in {"upsert", "drop"} => Rest(c) # Idle /\ Rest(c).todo # <<>>
      /\ Apart(Rest(c))
      /\ Placed(Rest(c))
  BY <1>1, RestIs
<1>9. Idle.todo = <<>>
  BY IdleIs
<1>10. Rest(c).todo # <<>> => Rest(c) # Idle /\ Rest(c).op = op
  BY <1>8, <1>9
<1>11. Rest(c).todo # <<>> => ~(Rest(c).stage = "write" /\ Head(Rest(c).todo).edit = "bind")
  <2>1. Rest(c).todo # <<>> => Fits(Rest(c).op, Head(Rest(c).todo)) /\ Rest(c).op.scope \in Scopes
    BY <1>8, PlacedFits DEF Placed, Sound
  <2> QED
    BY <1>8, <2>1 DEF Apart, Absolute, Fits, Task, Scopes
<1> HIDE DEF op, edit, m
<1>12. \A d \in Clients : On(d, n)' => On(d, n) /\ client'[d].op = client[d].op
  BY <1>1, <1>2, <1>10 DEF On, Busy, op
<1>13. \A d, e \in Clients : On(d, n)' /\ On(e, n)' => d = e
  BY <1>4, <1>12
<1>14. \A d \in Clients : Busy(d)' => client'[d].op.kind # "init"
  BY <1>1, <1>2, <1>4, <1>10 DEF Busy, op
<1>15. \A s \in Scopes : last[s][n] # 0 /\ ~(n = m /\ edit = "drop") => last'[s][n] # 0
  BY <1>7
<1>16. n = m /\ OnName(op) => On(c, n)
  BY <1>1 DEF On, op, m
<1>17. edit \in {"upsert", "drop", "record", "bind", "gone"} => OnName(op)
  BY <1>5 DEF Fits, Task, Storing, OnName, edit
<1>18. edit = "drop" => op.kind = "remove"
  BY <1>5 DEF Fits, Task, edit
<1>19. last'.metadata[n].exists = "yes" =>
           Valued(n)' \/ \E d \in Clients : On(d, n)' /\ client'[d].op.kind = "remove"
  <2> SUFFICES ASSUME last'.metadata[n].exists = "yes"
               PROVE  Valued(n)' \/ \E d \in Clients : On(d, n)' /\ client'[d].op.kind = "remove"
    OBVIOUS
  <2>1. CASE n = m /\ edit = "drop"
    <3>1. On(c, n) /\ op.kind = "remove" /\ Rest(c).todo # <<>> /\ Rest(c).op = op
      BY <1>8, <1>10, <1>16, <1>17, <1>18, <2>1
    <3> QED
      BY <1>2, <3>1 DEF On, Busy, op
  <2>2. CASE n = m /\ edit \in {"record", "bind"}
    <3>1. On(c, n)
      BY <1>16, <1>17, <2>2
    <3>2. last[op.scope][n] # 0
      BY <1>1, <1>4, <1>7, <2>2, <3>1 DEF Finds, op, edit
    <3> QED
      BY <1>7, <1>15, <2>2, <3>2 DEF Valued
  <2>3. CASE n # m \/ edit \notin {"drop", "record", "bind"}
    <3>1. last.metadata[n].exists = "yes" /\ (n = m => edit # "gone")
      BY <1>7, <2>3
    <3>2. Valued(n) => Valued(n)'
      BY <1>15, <2>3 DEF Valued
    <3>3. ASSUME NEW d \in Clients, On(d, n), client[d].op.kind = "remove"
          PROVE  On(d, n)' /\ client'[d].op.kind = "remove"
      <4>1. CASE d # c
        BY <1>2, <3>3, <4>1 DEF On, Busy
      <4>2. CASE d = c
        <5>1. edit \in {"drop", "gone"} /\ n = m
          BY <1>5, <3>3, <4>2 DEF Fits, Task, Storing, On, edit, op, m
        <5> QED
          BY <2>3, <3>1, <5>1
      <4> QED
        BY <4>1, <4>2
    <3> QED
      BY <1>4, <3>1, <3>2, <3>3
  <2> QED
    BY <2>1, <2>2, <2>3
<1>20. ASSUME NEW d \in Clients, On(d, n)', Now(d)'.edit = "record" \/ Finds(d)'
       PROVE  last'[client'[d].op.scope][n] # 0
  <2>1. CASE d = c
    <3>1. Rest(c).todo # <<>> /\ Rest(c).op = op /\ n = m
      BY <1>2, <1>10, <1>20, <2>1 DEF On, Busy, op, m
    <3>2. Head(Rest(c).todo).edit = "record"
      <4>1. Now(c)' = Head(Rest(c).todo) /\ client'[c].stage = Rest(c).stage
        BY <1>2 DEF Now
      <4>2. Finds(c)' => Head(Rest(c).todo).edit = "bind" /\ Rest(c).stage \in {"write", "fill"}
        BY <4>1 DEF Finds
      <4>3. Rest(c).stage # "fill"
        BY <1>8, <1>10, <3>1
      <4> QED
        BY <1>11, <1>20, <2>1, <3>1, <4>1, <4>2, <4>3
    <3>3. edit = "upsert"
      BY <1>8, <3>1, <3>2, <1>10
    <3> QED
      BY <1>2, <1>7, <2>1, <3>1, <3>3
  <2>2. CASE d # c
    <3>1. client'[d] = client[d] /\ On(d, n)
      BY <1>2, <1>12, <1>20, <2>2
    <3>2. last[client[d].op.scope][n] # 0
      BY <1>4, <1>20, <3>1 DEF Finds, Now
    <3>3. ~(n = m /\ edit = "drop")
      BY <1>4, <1>16, <1>17, <2>2, <3>1
    <3>4. client[d].op.scope \in Scopes
      BY <3>1, AtWork DEF On, Op
    <3> QED
      BY <1>15, <3>1, <3>2, <3>3, <3>4
  <2> QED
    BY <2>1, <2>2
<1> QED
  BY <1>13, <1>14, <1>19, <1>20 DEF NameInv

(* The clients after a step in which only c moves. *)
LEMMA NameMoves ==
    ASSUME TypeInv, NEW n \in Names, NameInv(n), NEW c \in Clients, Busy(c), NEW x,
           client' = [client EXCEPT ![c] = x], UNCHANGED <<last, lost>>, unsure \subseteq unsure',
           x.todo # <<>> => x.op = client[c].op,
           Sure(n)' /\ On(c, n) /\ client[c].op.kind = "remove" =>
               x.todo # <<>> \/ last.metadata[n].exists # "yes",
           Sure(n)' /\ On(c, n) /\ x.todo # <<>> =>
               /\ Head(x.todo).edit = "record" => Now(c).edit = "record"
               /\ Head(x.todo).edit = "bind" /\ x.found /\ x.stage \in {"write", "fill"} =>
                      last[client[c].op.scope][n] # 0
    PROVE  NameInv(n)'
<1>1. client'[c] = x /\ \A d \in Clients : d # c => client'[d] = client[d]
  BY DEF TypeInv
<1>2. \A d \in Clients : Busy(d)' => Busy(d) /\ client'[d].op = client[d].op
  BY <1>1 DEF Busy
<1>3. \A d \in Clients : Sure(n)' /\ On(d, n) /\ client[d].op.kind = "remove" =>
          Busy(d)' \/ last.metadata[n].exists # "yes"
  BY <1>1 DEF Busy, On
<1>4. ASSUME NEW d \in Clients, Sure(n)', On(d, n)'
      PROVE  /\ Now(d)'.edit = "record" => Now(d).edit = "record"
             /\ Finds(d)' => Finds(d) \/ last[client[d].op.scope][n] # 0
  <2>1. On(d, n) /\ client'[d].todo # <<>>
    BY <1>2, <1>4 DEF On, Busy
  <2>2. CASE d = c
    BY <1>1, <1>4, <2>1, <2>2 DEF Finds, Now
  <2>3. CASE d # c
    BY <1>1, <2>3 DEF Finds, Now
  <2> QED
    BY <2>2, <2>3
<1> QED
  BY <1>2, <1>3, <1>4, NameQuiet

(* What is not an operation on the name. *)
LEMMA KindsOfEdits ==
    ASSUME NEW op \in Op, NEW task, Fits(op, task)
    PROVE  /\ task.edit = "page" => ~OnName(op)
           /\ op.kind = "remove" => task.edit \in {"drop", "gone"}
           /\ task.edit \in {"drop", "gone"} => op.kind = "remove" /\ OnName(op)
           /\ task.edit = "drop" => task.file = op.scope
           /\ task.edit = "gone" => task.file = "metadata"
           /\ op.name \in Names /\ op.scope \in Scopes
BY DEF Fits, Task, Storing, OnName, Op

(* A removal that finds nothing of its name to remove removes nothing. *)
LEMMA NameRead ==
    ASSUME TypeInv, OverlapInv, NEW n \in Names, NameInv(n), NEW c \in Clients, Read(c)
    PROVE  NameInv(n)'
<1> DEFINE op == client[c].op
           edit == Now(c).edit
<1>1. Busy(c) /\ At(c, "read") /\ UNCHANGED <<files, last, lost>>
  BY ReadCases DEF Read, At
<1>2. op \in Op /\ Fits(op, Now(c))
  BY <1>1, AtWork
<1>3. CASE /\ client' = [client EXCEPT ![c] = After(c)]
           /\ unsure' = IF op.kind = "remove" THEN unsure \cup {op.name} ELSE unsure
  <2>1. /\ After(c).todo # <<>> => /\ After(c).op = op
                                   /\ Head(After(c).todo).edit = "failed"
    BY <1>1, AfterIs, IdleIs
  <2>2. Sure(n)' /\ On(c, n) => op.kind # "remove"
    BY <1>3 DEF Sure, On
  <2> QED
    BY <1>1, <1>3, <2>1, <2>2, NameMoves
<1>4. CASE /\ ~Unreadable(Now(c).file) /\ unsure' = unsure
           /\ ~Needs(op, Now(c), disk[Now(c).file])
           /\ client' = [client EXCEPT ![c] = Rest(c)]
  <2>1. edit \in {"drop", "gone"}
    BY <1>4 DEF Needs
  <2>2. /\ Rest(c).todo # <<>> => Rest(c).op = op /\ Head(Rest(c).todo).edit # "record"
        /\ edit = "drop" => Rest(c).todo # <<>>
        /\ Rest(c).stage # "fill"
        /\ Placed(Rest(c)) /\ Apart(Rest(c))
    BY <1>1, <2>1, RestIs, IdleIs
  <2>3. Rest(c).todo # <<>> => Fits(op, Head(Rest(c).todo)) /\ op.kind = "remove"
    BY <1>2, <2>1, <2>2, PlacedFits, KindsOfEdits DEF Placed, Sound
  <2>4. Rest(c).todo # <<>> => Head(Rest(c).todo).edit # "bind"
    BY <1>2, <2>3, KindsOfEdits
  <2>5. Sure(n)' /\ On(c, n) /\ edit = "gone" => last.metadata[n].exists # "yes"
    <3> SUFFICES ASSUME Sure(n)', On(c, n), edit = "gone"
                 PROVE  last.metadata[n].exists # "yes"
      OBVIOUS
    <3>1. Now(c).file = "metadata" /\ op.name = n
      BY <1>2, KindsOfEdits DEF On
    <3>2. "metadata" \notin garbled \cup blank \cup lost /\ "metadata" \in Files
      BY <1>1, <1>4, <3>1 DEF Unreadable, Sure, Files
    <3>3. disk["metadata"] = last["metadata"]
      BY <3>2 DEF OverlapInv, EditsKept, Settled
    <3>4. disk["metadata"][n] = Unknown
      BY <1>4, <3>1 DEF Needs
    <3> QED
      BY <3>3, <3>4 DEF Unknown
  <2> QED
    BY <1>1, <1>4, <2>1, <2>2, <2>4, <2>5, NameMoves
<1>5. CASE unsure' = unsure /\ client' = [client EXCEPT ![c] = Taken(c)]
  <2>1. /\ Taken(c).op = op /\ Taken(c).todo = client[c].todo /\ client[c].todo # <<>>
        /\ edit = "bind" => Taken(c).stage \notin {"write", "fill"}
    BY <1>1, TakenIs DEF Busy
  <2> QED
    BY <1>1, <1>5, <2>1, NameMoves DEF Now
<1> QED
  BY <1>3, <1>4, <1>5, ReadCases

(* A secret that bind_secret finds has a value. *)
LEMMA NameBetween ==
    ASSUME TypeInv, OverlapInv, NEW n \in Names, NameInv(n), NEW c \in Clients,
           Look(c) \/ Post(c) \/ Load(c) \/ Unlink(c)
    PROVE  NameInv(n)'
<1> DEFINE op == client[c].op
<1>1. /\ Busy(c) /\ ~Absolute(Now(c)) /\ client[c].stage # "read"
      /\ UNCHANGED <<files, last, lost, unsure>>
  BY Between
<1>2. op \in Op /\ Fits(op, Now(c)) /\ client[c] \in Slot /\ client[c].todo # <<>>
  BY <1>1, AtWork DEF Busy
<1>3. CASE Look(c)
  <2> DEFINE found == disk[op.scope][op.name] # 0
  <2>1. /\ Now(c).edit = "bind" /\ client' = [client EXCEPT ![c] = Staged(c, "write", found)]
    BY <1>3, Between
  <2>2. /\ Staged(c, "write", found).op = op /\ Staged(c, "write", found).todo = client[c].todo
        /\ Staged(c, "write", found).found = found
    BY <1>2 DEF Staged, Slot
  <2>3. Sure(n)' /\ On(c, n) /\ found => last[op.scope][n] # 0
    <3> SUFFICES ASSUME Sure(n)', On(c, n), found
                 PROVE  last[op.scope][n] # 0
      OBVIOUS
    <3>1. op.name = n /\ op.scope \in Scopes /\ op.scope \in Files
      BY <1>2, KindsOfEdits DEF On, Files
    <3>2. op.scope \notin lost /\ op.scope \notin garbled
      BY <1>1, <3>1 DEF Sure, TypeInv, TypeOK
    <3>3. op.scope \notin blank
      <4>1. Empty(op.scope)[n] = 0
        BY <3>1, EmptyAre
      <4> QED
        BY <3>1, <4>1 DEF TypeInv, FilesInv
    <3> QED
      BY <3>1, <3>2, <3>3 DEF OverlapInv, EditsKept, Settled
  <2> HIDE DEF found
  <2> DEFINE x == Staged(c, "write", found)
  <2>4. /\ x.op = op /\ x.todo = client[c].todo /\ x.found = found
        /\ client' = [client EXCEPT ![c] = x]
    BY <2>1, <2>2
  <2> HIDE DEF x
  <2>5. Sure(n)' /\ On(c, n) /\ x.todo # <<>> =>
            /\ Head(x.todo).edit = "record" => Now(c).edit = "record"
            /\ Head(x.todo).edit = "bind" /\ x.found /\ x.stage \in {"write", "fill"} =>
                   last[op.scope][n] # 0
    BY <2>3, <2>4 DEF Now
  <2>6. x.todo # <<>>
    BY <1>2, <2>4
  <2> QED
    BY <1>1, <2>4, <2>5, <2>6, NameMoves
<1>4. CASE Post(c) \/ Load(c) \/ Unlink(c)
  <2>1. Now(c).edit = "page"
    BY <1>4, Between
  <2>2. ~On(c, n) /\ op.kind # "remove"
    BY <1>2, <2>1, KindsOfEdits DEF On
  <2>3. PICK x : client' = [client EXCEPT ![c] = x] /\ (x.todo # <<>> => x.op = op)
    <3>1. \A stage, found : Staged(c, stage, found).op = op
      BY <1>2 DEF Staged, Slot
    <3> QED
      BY <1>4, <3>1, Between, IdleIs
  <2> QED
    BY <1>1, <2>2, <2>3, NameMoves
<1> QED
  BY <1>3, <1>4

LEMMA NameTruncate ==
    ASSUME TypeInv, NEW n \in Names, NameInv(n), NEW c \in Clients, Truncate(c)
    PROVE  NameInv(n)'
<1>1. /\ client[c].stage = "write" /\ last' = last /\ lost' = lost /\ unsure' = unsure
  BY TruncateIs DEF Truncate, history
<1>2. \A d \in Clients :
          /\ client'[d].op = client[d].op /\ client'[d].todo = client[d].todo
          /\ client'[d].found = client[d].found
          /\ d # c => client'[d].stage = client[d].stage
  BY TruncateIs
<1>3. \A d \in Clients : /\ Busy(d)' <=> Busy(d)
                         /\ Now(d)' = Now(d)
                         /\ Finds(d)' => Finds(d)
  BY <1>1, <1>2 DEF Busy, Now, Finds
<1> QED
  BY <1>1, <1>2, <1>3, NameQuiet DEF On

LEMMA NameGivingUp ==
    ASSUME TypeInv, NEW n \in Names, NameInv(n), NEW c \in Clients, WriteFails(c) \/ Die(c)
    PROVE  NameInv(n)'
<1>1. /\ Busy(c) /\ UNCHANGED <<last, lost>> /\ unsure \subseteq unsure'
      /\ client' = [client EXCEPT ![c] = After(c)] \/ client' = [client EXCEPT ![c] = Idle]
      /\ client[c].op.kind = "remove" => client[c].op.name \in unsure'
  BY GivingUp
<1>2. After(c).todo # <<>> => After(c).op = client[c].op /\ Head(After(c).todo).edit = "failed"
  BY <1>1, AfterIs, IdleIs
<1>3. Sure(n)' /\ On(c, n) => client[c].op.kind # "remove"
  BY <1>1 DEF Sure, On
<1>4. PICK x : /\ client' = [client EXCEPT ![c] = x]
               /\ x.todo # <<>> => x.op = client[c].op /\ Head(x.todo).edit = "failed"
  BY <1>1, <1>2, IdleIs
<1> QED
  BY <1>1, <1>3, <1>4, NameMoves

LEMMA NameBegin ==
    ASSUME TypeInv, NEW n \in Names, NameInv(n), NEW c \in Clients, Begin(c)
    PROVE  NameInv(n)'
<1> SUFFICES ASSUME Sure(n)' PROVE NameInv(n)'
  BY DEF NameInv
<1>1. PICK op \in Op :
          /\ client' = [client EXCEPT ![c] = Begun(op)]
          /\ Begun(op).op = op /\ Begun(op).todo # <<>> /\ Begun(op).stage # "fill"
          /\ Apart(Begun(op)) /\ Begun(op) \in Slot /\ SoundAt(Begun(op), ops')
          /\ Head(Begun(op).todo).edit \notin {"record", "success"}
          /\ unsure' = CASE op.kind = "init" -> Names
                         [] OnName(op) /\ Together(op) -> unsure \cup {op.name}
                         [] OTHER -> unsure
  BY BeginIs
<1>2. ~Busy(c) /\ last' = last /\ lost' = lost
  BY BeginIs
<1> DEFINE x == Begun(op)
<1>3. /\ client'[c] = x /\ x.op = op
      /\ \A d \in Clients : d # c => client'[d] = client[d]
  BY <1>1 DEF TypeInv
<1>4. op.kind # "init" /\ (OnName(op) /\ op.name = n => ~Together(op)) /\ Sure(n)
  <2>1. op.kind # "init"
    <3>1. op.kind = "init" => unsure' = Names
      BY <1>1 DEF OnName
    <3>2. n \notin unsure'
      BY DEF Sure
    <3> QED
      BY <3>1, <3>2
  <2>2. unsure' = IF OnName(op) /\ Together(op) THEN unsure \cup {op.name} ELSE unsure
    BY <1>1, <2>1
  <2> QED
    BY <1>2, <2>1, <2>2 DEF Sure
<1>5. \A d \in Clients : d # c =>
          /\ On(d, n)' <=> On(d, n)
          /\ Now(d)' = Now(d)
          /\ Finds(d)' <=> Finds(d)
  BY <1>3 DEF On, Busy, Now, Finds
<1>6. On(c, n)' => \A d \in Clients : d # c => ~On(d, n)
  BY <1>3, <1>4 DEF On, Together
<1>7. ~On(c, n)
  BY <1>2 DEF On
<1>8. Head(x.todo).edit # "record" /\ ~(Head(x.todo).edit = "bind" /\ x.stage \in {"write", "fill"})
  <2>1. Fits(op, Head(x.todo)) /\ op.scope \in Scopes
    BY <1>1, PlacedFits
  <2> QED
    BY <1>1, <2>1 DEF Apart, Absolute, Fits, Task, Scopes
<1> HIDE DEF x
<1>9. Now(c)'.edit # "record" /\ ~Finds(c)'
  BY <1>3, <1>8 DEF Now, Finds
<1>10. \A d, e \in Clients : On(d, n)' /\ On(e, n)' => d = e
  BY <1>4, <1>5, <1>6 DEF NameInv
<1>11. \A d \in Clients : Busy(d)' => client'[d].op.kind # "init"
  BY <1>3, <1>4 DEF NameInv, Busy
<1>12. last'.metadata[n].exists = "yes" =>
           Valued(n)' \/ \E d \in Clients : On(d, n)' /\ client'[d].op.kind = "remove"
  BY <1>2, <1>3, <1>4, <1>5, <1>7 DEF NameInv, Valued
<1>13. \A d \in Clients :
           On(d, n)' /\ (Now(d)'.edit = "record" \/ Finds(d)') =>
               last'[client'[d].op.scope][n] # 0
  BY <1>2, <1>3, <1>4, <1>5, <1>9 DEF NameInv
<1> QED
  BY <1>10, <1>11, <1>12, <1>13 DEF NameInv

LEMMA NameSteps ==
    ASSUME TypeInv, OverlapInv, NEW n \in Names, NameInv(n), NEW c \in Clients,
           \/ Begin(c) \/ Read(c) \/ Look(c) \/ Post(c) \/ Load(c) \/ Unlink(c)
           \/ Truncate(c) \/ Fill(c) \/ WriteFails(c) \/ Die(c)
    PROVE  NameInv(n)'
BY NameBegin, NameRead, NameBetween, NameTruncate, NameFill, NameGivingUp

(* The interaction. *)
LEMMA DoneSteps ==
    ASSUME TypeInv, DoneInv, NEW c \in Clients,
           \/ Begin(c) \/ Read(c) \/ Look(c) \/ Post(c) \/ Load(c) \/ Unlink(c)
           \/ Truncate(c) \/ Fill(c) \/ WriteFails(c) \/ Die(c)
    PROVE  DoneInv'
<1>1. ASSUME NEW x, client' = [client EXCEPT ![c] = x], UNCHANGED <<files, last, lost>>,
             x.todo # <<>> /\ Head(x.todo).edit = "success" => Busy(c) /\ Now(c).edit = "success"
      PROVE  DoneInv'
  <2>1. client'[c] = x /\ \A d \in Clients : d # c => client'[d] = client[d]
    BY <1>1 DEF TypeInv
  <2>2. \A d \in Clients : Busy(d)' /\ Now(d)'.edit = "success" => Busy(d) /\ Now(d).edit = "success"
    BY <1>1, <2>1 DEF Busy, Now
  <2> QED
    BY <1>1, <2>2, DoneQuiet DEF files
<1>2. CASE Begin(c)
  BY <1>1, <1>2, BeginIs
<1>3. CASE Read(c)
  <2>1. Busy(c) /\ At(c, "read") /\ UNCHANGED <<files, last, lost>>
    BY <1>3, ReadCases DEF Read, At
  <2>2. CASE client' = [client EXCEPT ![c] = After(c)]
    BY <1>1, <2>1, <2>2, AfterIs, IdleIs
  <2>3. CASE /\ ~Needs(client[c].op, Now(c), disk[Now(c).file])
             /\ client' = [client EXCEPT ![c] = Rest(c)]
    <3>1. Now(c).edit # "bind"
      BY <2>3 DEF Needs
    <3> QED
      BY <1>1, <2>1, <2>3, <3>1, RestIs, IdleIs
  <2>4. CASE client' = [client EXCEPT ![c] = Taken(c)]
    <3>1. Taken(c).todo = client[c].todo
      BY <2>1, TakenIs
    <3> QED
      BY <1>1, <2>1, <2>4, <3>1 DEF Now
  <2> QED
    BY <1>3, <2>2, <2>3, <2>4, ReadCases
<1>4. CASE Look(c) \/ Post(c) \/ Load(c) \/ Unlink(c)
  <2>1. Busy(c) /\ UNCHANGED <<files, last, lost>>
    BY <1>4, Between
  <2>2. \A stage, found : Staged(c, stage, found).todo = client[c].todo
    BY <2>1, AtWork DEF Staged, Slot
  <2>3. PICK x : client' = [client EXCEPT ![c] = x] /\ (x.todo # <<>> => x.todo = client[c].todo)
    BY <1>4, <2>2, Between, IdleIs
  <2> QED
    BY <1>1, <2>1, <2>3 DEF Now
<1>5. CASE Truncate(c)
  <2>1. /\ last' = last /\ lost' = lost /\ Now(c).file \in Files
        /\ disk' = [disk EXCEPT ![Now(c).file] = Empty(Now(c).file)]
    BY <1>5, TruncateIs DEF Truncate, history
  <2>2. disk'["request"] = "success" => disk["request"] = "success"
    BY <2>1, EmptyAre DEF TypeInv, TypeOK
  <2>3. \A d \in Clients : (Busy(d)' <=> Busy(d)) /\ Now(d)' = Now(d)
    BY <1>5, TruncateIs DEF Busy, Now
  <2> QED
    BY <2>1, <2>2, <2>3, DoneQuiet
<1>6. CASE Fill(c)
  <2>1. /\ Busy(c) /\ Now(c).file \in Files /\ client' = [client EXCEPT ![c] = Rest(c)]
        /\ disk' = [disk EXCEPT ![Now(c).file] = Content(c)] /\ lost \subseteq lost'
    BY <1>6, FillIs
  <2>2. /\ \A k \in Names : last.metadata[k].bound => last'.metadata[k].bound
        /\ Now(c).edit = "bind" => last'.metadata[client[c].op.name].bound
    BY <1>6, FillLast
  <2>3. client'[c] = Rest(c) /\ \A d \in Clients : d # c => client'[d] = client[d]
    BY <2>1 DEF TypeInv
  <2>4. Fits(client[c].op, Now(c)) /\ client[c].op \in Op /\ Sound(client[c])
    BY <2>1, AtWork
  <2>5. disk'["request"] = "success" => disk["request"] = "success" \/ Now(c).edit = "success"
    <3>1. Now(c).file = "request" => Content(c) = Now(c).edit
      BY <2>4, EditedAbsolute DEF Content, Absolute
    <3>2. "request" \in DOMAIN disk
      BY DEF TypeInv, TypeOK, Files
    <3> QED
      BY <2>1, <3>1, <3>2
  <2>6. Rest(c).todo # <<>> /\ Head(Rest(c).todo).edit = "success" =>
            Now(c).edit = "bind" /\ client[c].op.name = Asked
    <3> SUFFICES ASSUME Rest(c).todo # <<>>, Head(Rest(c).todo).edit = "success"
                 PROVE  Now(c).edit = "bind" /\ client[c].op.name = Asked
      OBVIOUS
    <3>1. Now(c).edit = "bind" /\ Rest(c).op = client[c].op /\ Placed(Rest(c))
      BY <2>1, RestIs, IdleIs
    <3>2. Fits(client[c].op, Head(Rest(c).todo)) /\ client[c].op.scope \in Scopes
      BY <3>1, PlacedFits DEF Placed, Sound
    <3>3. client[c].op.kind = "submit"
      BY <3>2 DEF Fits, Task
    <3> QED
      BY <2>4, <3>1, <3>3 DEF Sound, SoundAt
  <2> SUFFICES ASSUME "metadata" \notin lost'
               PROVE  /\ disk'.request = "success" => last'.metadata[Asked].bound
                      /\ \A d \in Clients :
                             Busy(d)' /\ Now(d)'.edit = "success" => last'.metadata[Asked].bound
    BY DEF DoneInv
  <2>7. /\ disk.request = "success" => last.metadata[Asked].bound
        /\ \A d \in Clients :
               Busy(d) /\ Now(d).edit = "success" => last.metadata[Asked].bound
    BY <2>1 DEF DoneInv
  <2>8. disk'.request = "success" => last'.metadata[Asked].bound
    BY <2>1, <2>2, <2>5, <2>7, FilesAssumption
  <2>9. ASSUME NEW d \in Clients, Busy(d)', Now(d)'.edit = "success"
        PROVE  last'.metadata[Asked].bound
    <3>1. CASE d = c
      BY <2>2, <2>3, <2>6, <2>9, <3>1 DEF Busy, Now
    <3>2. CASE d # c
      BY <2>2, <2>3, <2>7, <2>9, <3>2, FilesAssumption DEF Busy, Now
    <3> QED
      BY <3>1, <3>2
  <2> QED
    BY <2>8, <2>9
<1>7. CASE WriteFails(c) \/ Die(c)
  <2>1. UNCHANGED <<files, last, lost>> /\ Busy(c)
    BY <1>7, GivingUp
  <2> QED
    BY <1>1, <1>7, <2>1, GivingUp, AfterIs, IdleIs
<1> QED
  BY <1>2, <1>3, <1>4, <1>5, <1>6, <1>7

----
LEMMA Initial == Init => IInv
<1> SUFFICES ASSUME Init PROVE IInv
  OBVIOUS
<1>1. TypeInv
  BY TypeInit
<1>2. /\ \A c \in Clients : ~Busy(c)
      /\ last = disk /\ unsure = {} /\ disk["request"] = "pending"
      /\ disk["metadata"] = Empty("metadata")
  BY IdleIs DEF Init, Busy, Files, Scopes
<1>3. OverlapInv
  BY <1>2 DEF OverlapInv, EditsKept, Upright, Holds
<1>4. PanelInv
  BY <1>2 DEF PanelInv, Checked, Alone
<1>5. SecretInv
  <2>1. \A n \in Names : last.metadata[n].exists # "yes"
    BY <1>2, EmptyAre DEF Unknown
  <2> QED
    BY <1>2, <2>1 DEF SecretInv, NameInv, DoneInv, On
<1> QED
  BY <1>1, <1>3, <1>4, <1>5 DEF IInv

(* Every step of every client keeps the invariant. *)
LEMMA Inductive == IInv /\ [Next]_vars => IInv'
<1> SUFFICES ASSUME IInv, [Next]_vars PROVE IInv'
  OBVIOUS
<1>1. TypeInv /\ OverlapInv /\ PanelInv /\ (\A n \in Names : NameInv(n)) /\ DoneInv
  BY DEF IInv, SecretInv
<1>2. ASSUME NEW c \in Clients,
             \/ Begin(c) \/ Read(c) \/ Look(c) \/ Post(c) \/ Load(c) \/ Unlink(c)
             \/ Truncate(c) \/ Fill(c) \/ WriteFails(c) \/ Die(c)
      PROVE  IInv'
  <2>1. TypeInv'
    BY <1>1, <1>2, TypeBegin, TypeMoves, TypeTruncate, TypeFill
  <2>2. OverlapInv' /\ PanelInv' /\ DoneInv'
    BY <1>1, <1>2, OverlapSteps, PanelSteps, DoneSteps
  <2>3. \A n \in Names : NameInv(n)'
    BY <1>1, <1>2, NameSteps
  <2> QED
    BY <2>1, <2>2, <2>3 DEF IInv, SecretInv
<1>3. CASE UNCHANGED vars
  <2>1. /\ UNCHANGED <<disk, blank, garbled, check, client, ops, faults, odd>>
        /\ UNCHANGED <<last, lost, unsure, crossed>>
    BY <1>3 DEF vars, files, history
  <2>2. TypeInv'
    BY <1>1, <2>1
       DEF TypeInv, TypeOK, WorkInv, FilesInv, Placed, Sound, SoundAt, Busy
  <2>3. OverlapInv'
    BY <1>1, <2>1 DEF OverlapInv, EditsKept, Settled, Upright, Holds, Busy, Now, Absolute
  <2>4. PanelInv'
    BY <1>1, <2>1 DEF PanelInv, Checked, Alone, Checking, Busy, Now
  <2>5. SecretInv'
    BY <1>1, <2>1 DEF SecretInv, NameInv, DoneInv, Sure, Finds, On, Valued, Busy, Now
  <2> QED
    BY <2>2, <2>3, <2>4, <2>5 DEF IInv
<1> QED
  BY <1>2, <1>3 DEF Next

(* In every reachable state the invariant holds: a copy that is not stale  *)
(* is what the file would hold, and a check that none overlapped is of the *)
(* page of its own client.                                                 *)
THEOREM FilesInvariant == Spec => []IInv
<1> QED
  BY Initial, Inductive, PTL DEF Spec

(* The files hold what their writers write, whatever the clients do.       *)
THEOREM FilesTypes == Spec => []TypeOK
<1>1. IInv => TypeOK
  BY DEF IInv, TypeInv
<1> QED
  BY <1>1, FilesInvariant, PTL

(* Reading a file, editing the copy and writing it back loses an edit only *)
(* to one of the same file that overlapped it (FileSecretBroker._write_map, *)
(* SecretMetadataStore.upsert, save_config), whatever fails or dies.       *)
THEOREM EditsAreKept == Spec => []EditsKept
<1>1. IInv => EditsKept
  BY DEF IInv, OverlapInv
<1> QED
  BY <1>1, FilesInvariant, PTL

(* Of a name on which no operations overlapped and no removal was cut, the *)
(* metadata says only of a secret that has a value that it exists, and an  *)
(* interaction that is stored as done has bound its secret.                *)
THEOREM SecretsAreHeld == Spec => []SecretsHold
<1>1. IInv => SecretsHold
  <2> SUFFICES ASSUME IInv PROVE SecretsHold
    OBVIOUS
  <2>1. EditsKept /\ (\A n \in Names : NameInv(n)) /\ DoneInv
    BY DEF IInv, OverlapInv, SecretInv
  <2>2. ASSUME NEW n \in Names, Quiet(n)
        PROVE  /\ Sure(n) /\ "metadata" \notin lost
               /\ disk["metadata"] = last["metadata"]
               /\ \A s \in Scopes : disk[s] = last[s]
               /\ \A c \in Clients : ~On(c, n)
    BY <2>1, <2>2 DEF Quiet, EditsKept, Settled, Sure, On, Files
  <2>3. ASSUME NEW n \in Names, Quiet(n)
        PROVE  ExistsHasValue(n)
    BY <2>1, <2>2, <2>3 DEF NameInv, ExistsHasValue, Valued
  <2>4. Quiet(Asked) => DoneIsStored
    BY <2>1, <2>2, FilesAssumption DEF DoneInv, DoneIsStored
  <2> QED
    BY <2>3, <2>4 DEF SecretsHold
<1> QED
  BY <1>1, FilesInvariant, PTL

(* A page that makes config.toml unreadable is refused before it is written, *)
(* but for requests whose checks overlapped (_validate_config).             *)
THEOREM PagesAreChecked == Spec => []PanelChecks
<1>1. IInv => PanelChecks
  BY DEF IInv, PanelInv, Checked, PanelChecks
<1> QED
  BY <1>1, FilesInvariant, PTL
=============================================================================
