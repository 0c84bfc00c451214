------------------------------ MODULE SharedFiles ------------------------------
(***************************************************************************)
(* The files that the runtime's threads, the command line and the control  *)
(* panel share without a lock: config.toml, secrets.env, tool-secrets.env, *)
(* the metadata of the secrets, a stored interaction, and workspace.json.  *)
(* Every writer reads a file, edits its copy, opens the file for writing,  *)
(* which empties it, and writes the copy; only "nagient init --force" does *)
(* not read.  An operation edits one file after another.                   *)
(*                                                                         *)
(* A value is kept as the number of the operation that wrote it.  A text   *)
(* is written in one piece: texts are shorter than a write buffer.  Names  *)
(* that the environment defines are no part of this: they need no file.    *)
(***************************************************************************)
EXTENDS Naturals, Sequences

CONSTANTS
    Clients,      \* threads and processes
    Names,        \* names of secrets
    Sections,     \* parts of config.toml
    Asked,        \* the secret that the stored interaction asks for
    MaxOps,       \* bound: operations
    MaxFaults     \* bound: deaths and failing writes

ASSUME FilesAssumption ==
    /\ Asked \in Names
    /\ Sections # {}
    /\ MaxOps \in Nat \ {0}
    /\ MaxFaults \in Nat

Ids == 1..MaxOps
Scopes == {"core", "tool"}   \* secrets.env and tool-secrets.env
Files == Scopes \cup {"config", "metadata", "request", "workspace"}

(* SecretMetadata of a name: whether it exists, and is bound to a target *)
Unknown == [exists |-> "none", bound |-> FALSE]
Metadata == [exists : {"none", "yes", "no"}, bound : BOOLEAN]

Contents(file) ==
    CASE file \in Scopes -> [Names -> 0..MaxOps]
      [] file = "config" -> [Sections -> 0..MaxOps]
      [] file = "metadata" -> [Names -> Metadata]
      [] file = "workspace" -> 0..MaxOps
      [] OTHER -> {"pending", "success", "failed", "cancelled", "blank"}

(* A file with no text in it; that there is no workspace.json is its 0 *)
Empty(file) ==
    CASE file \in Scopes -> [n \in Names |-> 0]
      [] file = "config" -> [s \in Sections |-> 0]
      [] file = "metadata" -> [n \in Names |-> Unknown]
      [] file = "workspace" -> 0
      [] OTHER -> "blank"

VARIABLES
    disk,       \* disk[f]: what file f holds
    blank,      \* the files that are opened for writing, or were left so
    garbled,    \* the files in which two texts are mixed
    check,      \* control-panel-validation.toml
    client,     \* client[c]: the operation of c, and how far it is
    ops,        \* operations begun
    faults,
    odd,        \* operations whose value no TOML text can hold
    last,       \* history: what the files would hold if edits never overlapped
    lost,       \* history: the files whose edits overlapped
    unsure,     \* history: the names whose operations overlapped or were cut
    crossed     \* history: the panel's requests whose checks overlapped

files == <<disk, blank, garbled>>
history == <<last, lost, unsure, crossed>>
vars == <<files, check, client, ops, faults, odd, history>>

Kinds == {"login", "bind", "remove", "set", "refer", "panel", "submit", "cancel", "layout",
          "init", "none"}

Op == [kind : Kinds, name : Names, scope : Scopes, section : Sections, id : 0..MaxOps]

Task(file, edit) == [file |-> file, edit |-> edit]

(* Draft: a secret's metadata is written before its value *)
StoreRecordFirst(op) == <<Task("metadata", "record"), Task(op.scope, "upsert")>>

(* The edits of an operation, in the code's order *)
Store(op) == <<Task(op.scope, "upsert"), Task("metadata", "record")>>
Bind == <<Task("metadata", "bind")>>

(* ConfigurationService.initialize(force), which leaves the metadata alone *)
Initialize == <<Task("config", "default"), Task("core", "default"), Task("tool", "default")>>

Plan(op) ==
    CASE op.kind = "bind" -> Bind
      [] op.kind = "login" -> Store(op) \o Bind
      [] op.kind = "remove" -> <<Task(op.scope, "drop"), Task("metadata", "gone")>>
      [] op.kind = "set" -> <<Task("config", "set")>>
      [] op.kind = "refer" -> <<Task("config", "set")>> \o Store(op) \o Bind
      [] op.kind = "panel" -> <<Task("config", "page")>>
      [] op.kind = "submit" -> Store(op) \o Bind \o <<Task("request", "success")>>
      [] op.kind = "cancel" -> <<Task("request", "cancelled")>>
      [] op.kind = "layout" -> <<Task("workspace", "create")>>
      [] op.kind = "init" -> Initialize
      [] OTHER -> <<>>

NoOp ==
    [kind |-> "none", name |-> Asked, scope |-> "core",
     section |-> CHOOSE s \in Sections : TRUE, id |-> 0]

Stages == {"read", "look", "page", "load", "unlink", "write", "fill"}

Idle == [op |-> NoOp, todo |-> <<>>, stage |-> "read", copy |-> "blank", stale |-> FALSE,
         found |-> FALSE]

----
Init ==
    /\ disk = [f \in Files |-> IF f = "request" THEN "pending" ELSE Empty(f)]
    /\ blank = {}
    /\ garbled = {}
    /\ check = "absent"
    /\ client = [c \in Clients |-> Idle]
    /\ ops = 0
    /\ faults = 0
    /\ odd = {}
    /\ last = disk
    /\ lost = {}
    /\ unsure = {}
    /\ crossed = {}

Busy(c) == client[c].todo # <<>>
Now(c) == Head(client[c].todo)
At(c, stage) == Busy(c) /\ client[c].stage = stage

(* An interaction is edited in the copy that was loaded at the start, and  *)
(* the default text of a file replaces what it holds                       *)
Entering(task) == IF task.file = "request" \/ task.edit = "default" THEN "write" ELSE "read"

(* Draft: the place in the last edit is kept *)
RestInPlace(c) == [client[c] EXCEPT !.todo = Tail(@)]

Rest(c) ==
    IF Len(client[c].todo) = 1 THEN Idle
    ELSE [client[c] EXCEPT !.todo = Tail(@), !.stage = Entering(client[c].todo[2]),
                           !.copy = "blank", !.stale = FALSE, !.found = FALSE]

(* TOML of an odd value does not parse; an empty text is TOML, but not JSON *)
Unreadable(file) ==
    \/ file \in garbled
    \/ file \in blank /\ file \in {"metadata", "request", "workspace"}
    \/ file = "config" /\ \E s \in Sections : disk.config[s] \in odd

(* WorkspaceManager.ensure_layout: the time of creation is kept *)
Created(op, copy) == IF copy = 0 THEN op.id ELSE copy

(* What "nagient init" writes: sections as they come, and no secrets *)
Default(file) == Empty(file)

(* The copy as it is written back *)
Edited(op, task, found, copy) ==
    CASE task.edit = "upsert" -> [copy EXCEPT ![op.name] = op.id]
      [] task.edit = "drop" -> [copy EXCEPT ![op.name] = 0]
      [] task.edit = "record" -> [copy EXCEPT ![op.name].exists = "yes"]
      [] task.edit = "bind" ->
             [copy EXCEPT ![op.name] = [exists |-> IF found THEN "yes" ELSE "no", bound |-> TRUE]]
      [] task.edit = "gone" -> [copy EXCEPT ![op.name].exists = "no"]
      [] task.edit \in {"set", "page"} -> [copy EXCEPT ![op.section] = op.id]
      [] task.edit = "create" -> Created(op, copy)
      [] task.edit = "default" -> Default(task.file)
      [] OTHER -> task.edit

(* Nothing is written when there is nothing to remove *)
Needs(op, task, copy) ==
    CASE task.edit = "drop" -> copy[op.name] # 0
      [] task.edit = "gone" -> copy[op.name] # Unknown
      [] OTHER -> TRUE

OnName(op) == op.kind \notin {"none", "set", "panel", "cancel", "layout", "init"}

(* The other operations under way on the same name *)
Together(op) ==
    \E c \in Clients : Busy(c) /\ OnName(client[c].op) /\ client[c].op.name = op.name

(* An operation begins; one on the interaction loads it first *)
Begin(c) ==
    /\ ~Busy(c) /\ ops < MaxOps
    /\ ops' = ops + 1
    /\ \E kind \in Kinds \ {"none"}, name \in Names, scope \in Scopes, section \in Sections :
           LET op == [kind |-> kind, name |-> name, scope |-> scope, section |-> section,
                      id |-> ops + 1]
           IN
           /\ ~OnName(op) => name = Asked /\ scope = NoOp.scope
           /\ kind \notin {"set", "refer", "panel"} => section = NoOp.section
           /\ kind = "submit" => name = Asked
           /\ kind \in {"submit", "cancel"} => ~Unreadable("request")
           /\ client' = [client EXCEPT ![c] = [Idle EXCEPT !.op = op, !.todo = Plan(op),
                                                           !.stage = Entering(Plan(op)[1])]]
           /\ unsure' = CASE kind = "init" -> Names
                          [] OnName(op) /\ Together(op) -> unsure \cup {name}
                          [] OTHER -> unsure
           /\ \/ UNCHANGED odd
              \/ kind \in {"set", "panel"} /\ odd' = odd \cup {ops + 1}
    /\ UNCHANGED <<files, check, faults, last, lost, crossed>>

(* An operation is given up, but a failing interaction is still stored.  A *)
(* removal that is given up leaves the name's metadata as it was.          *)
GivesUp(c) ==
    /\ client' = [client EXCEPT ![c] =
           IF client[c].op.kind = "submit" /\ Now(c).file # "request"
           THEN [Idle EXCEPT !.op = client[c].op, !.todo = <<Task("request", "failed")>>,
                             !.stage = "write"]
           ELSE Idle]
    /\ unsure' = IF client[c].op.kind = "remove" THEN unsure \cup {client[c].op.name} ELSE unsure

(* The file is read, or cannot be read *)
Read(c) ==
    LET task == Now(c)  copy == disk[task.file] IN
    /\ At(c, "read")
    /\ \/ /\ Unreadable(task.file) /\ GivesUp(c)
       \/ /\ ~Unreadable(task.file)
          /\ client' = [client EXCEPT ![c] =
                 IF ~Needs(client[c].op, task, copy) THEN Rest(c)
                 ELSE [client[c] EXCEPT !.copy = copy, !.stale = task.file \in blank,
                                        !.stage = CASE task.edit = "bind" -> "look"
                                                    [] task.edit = "page" -> "page"
                                                    [] OTHER -> "write"]]
          /\ UNCHANGED unsure
    /\ UNCHANGED <<files, check, ops, faults, odd, last, lost, crossed>>

(* bind_secret: whether the secret has a value *)
Look(c) ==
    LET op == client[c].op IN
    /\ At(c, "look")
    /\ client' = [client EXCEPT ![c].found = disk[op.scope][op.name] # 0, ![c].stage = "write"]
    /\ UNCHANGED <<files, check, ops, faults, odd, history>>

Checking(c) == client[c].stage \in {"load", "unlink"}

(* The page is sent back, and written to the file for validation *)
Post(c) ==
    LET others == {client[d].op.id : d \in {d \in Clients \ {c} : Busy(d) /\ Checking(d)}} IN
    /\ At(c, "page")
    /\ client' = [client EXCEPT ![c].stage = "load"]
    /\ check' = IF client[c].op.id \in odd THEN "odd" ELSE "plain"
    /\ crossed' = IF others = {} THEN crossed ELSE crossed \cup others \cup {client[c].op.id}
    /\ UNCHANGED <<files, ops, faults, odd, last, lost, unsure>>

(* Draft: what was loaded is not looked at *)
LoadAnything(c) ==
    /\ At(c, "load")
    /\ client' = [client EXCEPT ![c].stage = "unlink", ![c].found = TRUE]
    /\ UNCHANGED <<files, check, ops, faults, odd, history>>

(* _validate_config loads whatever is in that file *)
Load(c) ==
    /\ At(c, "load")
    /\ client' = [client EXCEPT ![c].stage = "unlink", ![c].found = check # "odd"]
    /\ UNCHANGED <<files, check, ops, faults, odd, history>>

(* The file is removed; a page that did not load is refused, and one that  *)
(* was only to be previewed is not written.                                *)
Unlink(c) ==
    /\ At(c, "unlink")
    /\ check' = "absent"
    /\ \/ client[c].found /\ client' = [client EXCEPT ![c].stage = "write"]
       \/ client' = [client EXCEPT ![c] = Idle]
    /\ UNCHANGED <<files, ops, faults, odd, history>>

(* open(file, "w"): copies that others have of the file are old from here *)
Truncate(c) ==
    LET file == Now(c).file IN
    /\ At(c, "write")
    /\ disk' = [disk EXCEPT ![file] = Empty(file)]
    /\ blank' = blank \cup {file}
    /\ garbled' = garbled \ {file}
    /\ client' = [d \in Clients |->
           CASE d = c -> [client[c] EXCEPT !.stage = "fill"]
             [] d # c /\ Busy(d) /\ Now(d).file = file
                      /\ client[d].stage \notin {"read"} -> [client[d] EXCEPT !.stale = TRUE]
             [] OTHER -> client[d]]
    /\ UNCHANGED <<check, ops, faults, odd, history>>

Filled(c, content) ==
    LET file == Now(c).file IN
    /\ disk' = [disk EXCEPT ![file] = content]
    /\ blank' = blank \ {file}
    /\ garbled' \in {garbled} \cup {garbled \cup {file} : f \in {file} \ (blank \cup Scopes)}
    /\ last' = [last EXCEPT ![file] = IF file = "request" THEN content
                            ELSE Edited(client[c].op, Now(c), client[c].found, last[file])]
    /\ lost' = IF client[c].stale THEN lost \cup {file} ELSE lost
    /\ client' = [client EXCEPT ![c] = Rest(c)]
    /\ UNCHANGED <<check, ops, faults, odd, unsure, crossed>>

(* Draft: the edit is written without the rest of the file *)
FillAlone(c) ==
    /\ At(c, "fill")
    /\ Filled(c, Edited(client[c].op, Now(c), client[c].found, Empty(Now(c).file)))

(* The text is written.  Over a text that another writer wrote meanwhile,  *)
(* the end of the longer one stays.                                        *)
Fill(c) ==
    /\ At(c, "fill")
    /\ Filled(c, Edited(client[c].op, Now(c), client[c].found, client[c].copy))

(* The disk is full: the file stays empty *)
WriteFails(c) ==
    /\ At(c, "fill") /\ faults < MaxFaults
    /\ faults' = faults + 1
    /\ GivesUp(c)
    /\ UNCHANGED <<files, check, ops, odd, last, lost, crossed>>

Die(c) ==
    /\ Busy(c) /\ faults < MaxFaults
    /\ faults' = faults + 1
    /\ client' = [client EXCEPT ![c] = Idle]
    /\ unsure' = IF client[c].op.kind = "remove" THEN unsure \cup {client[c].op.name} ELSE unsure
    /\ UNCHANGED <<files, check, ops, odd, last, lost, crossed>>

Next == \E c \in Clients :
            \/ Begin(c) \/ Read(c) \/ Look(c) \/ Post(c) \/ Load(c) \/ Unlink(c)
            \/ Truncate(c) \/ Fill(c) \/ WriteFails(c) \/ Die(c)

Spec == Init /\ [][Next]_vars

----
(* The files hold what their writers write, and a client is in one task *)
TypeOK ==
    /\ DOMAIN disk = Files /\ \A f \in Files : disk[f] \in Contents(f)
    /\ blank \subseteq Files
    /\ garbled \subseteq Files \ Scopes
    /\ check \in {"absent", "plain", "odd"}
    /\ \A c \in Clients :
           /\ client[c].op \in Op
           /\ client[c].stage \in Stages
           /\ client[c].stale \in BOOLEAN /\ client[c].found \in BOOLEAN
           /\ client[c].stage = "fill" => Busy(c)
    /\ ops \in 0..MaxOps /\ faults \in 0..MaxFaults
    /\ odd \subseteq Ids /\ crossed \subseteq Ids
    /\ lost \subseteq Files /\ unsure \subseteq Names

Settled(file) == file \notin blank \cup garbled \cup lost

(* Nothing is under way on a name, nor was lost of it *)
Quiet(n) ==
    /\ n \notin unsure
    /\ \A f \in Scopes \cup {"metadata"} : Settled(f)
    /\ \A c \in Clients : Busy(c) /\ OnName(client[c].op) => client[c].op.name # n

(* An update is only ever lost to one that overlapped it in the same file: *)
(* otherwise each file holds every edit that was made in it.               *)
EditsKept == \A f \in Files : Settled(f) => disk[f] = last[f]

ExistsHasValue(n) == disk.metadata[n].exists = "yes" => \E s \in Scopes : disk[s][n] # 0

DoneIsStored == disk.request = "success" => disk.metadata[Asked].bound

(* Files that are written one after the other agree, whatever was cut short *)
(* between them, as long as no removal was, no two operations on a name     *)
(* overlapped and no "init --force" was run: a secret that the metadata     *)
(* says exists has a value (SecretBroker.self_check warns of the opposite), *)
(* and an interaction that is stored as done has stored its secret, and     *)
(* bound it.                                                                *)
SecretsHold ==
    /\ \A n \in Names : Quiet(n) => ExistsHasValue(n)
    /\ Quiet(Asked) => DoneIsStored

(* The panel never makes config.toml unreadable, but for two requests whose *)
(* checks overlapped: they share one file for it (_validate_config).       *)
PanelChecks ==
    \A c \in Clients :
        Busy(c) /\ Now(c).edit = "page" /\ client[c].stage \in {"write", "fill"} =>
            client[c].op.id \notin odd \/ client[c].op.id \in crossed
=============================================================================
