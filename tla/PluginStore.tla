------------------------------ MODULE PluginStore ------------------------------
(***************************************************************************)
(* The directories of the installed plugins: "nagient plugin install",      *)
(* "list" and "remove", and the registries of the runtime, which load what  *)
(* they find there.  Nothing is locked, and nothing is renamed into place:  *)
(* a directory is removed file by file, and copied file by file.            *)
(*                                                                         *)
(* A plugin's files are its manifest and its code (the texts that the       *)
(* manifest names count as code); a file is kept as the repository that it   *)
(* was copied from, a number into Repositories, or 0.                       *)
(***************************************************************************)
EXTENDS Naturals, Sequences, FiniteSets, FiniteSetsExt, Functions

CONSTANTS
    Clients,        \* commands that may run at the same time
    Repositories,   \* what can be cloned: a sequence of Repository records
    FolderNames,    \* names of directories, in the order in which they sort
    FolderOf,       \* _safe_directory_name: plugin ids may share a folder
    Catalog,        \* the repositories that the program's own catalog offers
    Builtin,        \* ids of the plugins that are part of the program
    MaxOps,         \* bound: commands
    MaxScans,       \* bound: passes of a registry
    MaxFaults       \* bound: deaths and failing writes

Families == <<"transport", "provider", "tool">>

ASSUME StoreAssumption ==
    /\ Repositories \in Seq([id : DOMAIN FolderOf, family : Range(Families),
                             needs : {"none", "some", "unmet"},
                             runtime : {"python", "process"}, valid : BOOLEAN])
    /\ Len(Repositories) > 0
    /\ FolderNames \in Seq(Range(FolderNames))
    /\ \A id \in DOMAIN FolderOf : FolderOf[id] \in Range(FolderNames)
    /\ Catalog \subseteq DOMAIN Repositories
    /\ MaxOps \in Nat /\ MaxScans \in Nat /\ MaxFaults \in Nat

Sources == DOMAIN Repositories
Places == Range(Families) \X Range(FolderNames)
PlaceOf(family, id) == <<family, FolderOf[id]>>
Target(s) == PlaceOf(Repositories[s].family, Repositories[s].id)

Copied == {"manifest", "code"}
Parts == Copied \cup {"venv", "packages", "metadata"}

(* .nagient-plugin.json; an empty text is unreadable, and "none" stands for  *)
(* dependencies that are not required, or are skipped                        *)
NoMetadata == [from |-> 0, deps |-> "absent"]
Metadata == [from : {0} \cup Sources,
             deps : {"absent", "blank", "none", "installed"}]

VARIABLES
    made,       \* the directories that exist
    files,      \* files[p][part]: the repository that it is of, or 0
    metadata,   \* metadata[p]
    client,     \* client[c]: a command, and how far it is
    ops,
    loader,     \* a registry's pass over its family's directories, with the names left
    found,      \* the plugins of that pass
    scans,
    faults,
    torn,       \* history: directories whose removal was cut short
    crossed     \* history: directories on which commands overlapped

store == <<made, files, metadata>>
reading == <<loader, found, scans>>
vars == <<store, client, ops, reading, faults, torn, crossed>>

Idle == [stage |-> "idle", source |-> 1, place |-> Target(1), force |-> FALSE, deps |-> FALSE,
         todo |-> {}, failed |-> FALSE, seen |-> {}]

Asleep == [family |-> "none", left |-> {}, stage |-> "look", manifest |-> 0, again |-> 0,
           mixed |-> FALSE]

Init ==
    /\ made = {}
    /\ files = [p \in Places |-> [part \in Parts \ {"metadata"} |-> 0]]
    /\ metadata = [p \in Places |-> NoMetadata]
    /\ client = [c \in Clients |-> Idle]
    /\ ops = 0
    /\ loader = Asleep
    /\ found = {}
    /\ scans = 0
    /\ faults = 0
    /\ torn = {}
    /\ crossed = {}

----
At(c, stage) == client[c].stage = stage
To(c, stage) == client' = [client EXCEPT ![c].stage = stage]
Ends(c) == client' = [client EXCEPT ![c] = Idle]

(* What a directory holds *)
Present(p) == {part \in Parts \ {"metadata"} : files[p][part] # 0}
                  \cup {part \in {"metadata"} : metadata[p] # NoMetadata}

Removing == {"clear", "drop", "remove"}
Working == Removing \cup {"make", "copy", "venv", "pip", "sign", "fill"}

Holds(c, p) == client[c].stage \in Working /\ client[c].place = p
Others(c, p) == \E d \in Clients \ {c} : Holds(d, p)

(* A registry goes through the directories in the order of their names *)
First(names) == FolderNames[Min({i \in DOMAIN FolderNames : FolderNames[i] \in names})]
Here == <<loader.family, First(loader.left)>>

(* History: c is at work on p from here on; what was done to a directory is *)
(* forgotten once it is gone                                                *)
Enters(c, p) ==
    /\ crossed' = IF Others(c, p) THEN crossed \cup {p} ELSE crossed \ ({p} \ made)
    /\ torn' = torn \ ({p} \ made)
    /\ loader' = IF loader.left # {} /\ Here = p
                 THEN [loader EXCEPT !.mixed = TRUE]
                 ELSE loader

(* list_installed_plugins *)
Listed(p) == metadata[p].deps \notin {"absent", "blank"}
ListedIds == {Repositories[metadata[p].from].id : p \in {p \in Places : Listed(p)}}

Command(c, request) ==
    /\ At(c, "idle") /\ ops < MaxOps
    /\ ops' = ops + 1
    /\ client' = [client EXCEPT ![c] = request]
    /\ UNCHANGED <<store, reading, faults, torn, crossed>>

(* "plugin install <id or URL>"; --no-dependencies tells where there are some *)
Install(c) ==
    \E s \in Sources, force, deps \in BOOLEAN :
        /\ deps \/ Repositories[s].needs # "none"
        /\ Command(c, [Idle EXCEPT !.stage = "clone", !.source = s, !.place = Target(s),
                                   !.force = force, !.deps = deps])

(* "plugin install": the menu shows what is installed now *)
Menu(c) ==
    \E force, deps \in BOOLEAN :
        /\ Command(c, [Idle EXCEPT !.stage = "menu", !.force = force, !.deps = deps,
                                   !.seen = IF force THEN {} ELSE ListedIds])

(* ... and what was installed then is not installed again *)
Choose(c) ==
    /\ At(c, "menu")
    /\ \/ Ends(c)
       \/ \E s \in Catalog :
              /\ client[c].force \/ Repositories[s].id \notin client[c].seen
              /\ client' = [client EXCEPT ![c].stage = "clone", ![c].source = s,
                                          ![c].place = Target(s), ![c].seen = {}]
    /\ UNCHANGED <<store, ops, reading, faults, torn, crossed>>

(* The clone may fail, and its manifest may be refused *)
Clone(c) ==
    /\ At(c, "clone")
    /\ \/ Ends(c)
       \/ To(c, "look")
    /\ UNCHANGED <<store, ops, reading, faults, torn, crossed>>

(* Draft: the new files are copied over the old ones *)
LookMerging(c) ==
    LET p == client[c].place IN
    /\ At(c, "look")
    /\ \/ p \in made /\ ~client[c].force /\ Ends(c) /\ UNCHANGED <<torn, crossed, loader>>
       \/ p \in made /\ client[c].force
          /\ client' = [client EXCEPT ![c].stage = "copy", ![c].todo = Copied]
          /\ Enters(c, p)
       \/ p \notin made /\ To(c, "make") /\ Enters(c, p)
    /\ UNCHANGED <<store, ops, found, scans, faults>>

(* A plugin that is there is refused, or removed first *)
Look(c) ==
    LET p == client[c].place IN
    /\ At(c, "look")
    /\ \/ p \in made /\ ~client[c].force /\ Ends(c) /\ UNCHANGED <<torn, crossed, loader>>
       \/ p \in made /\ client[c].force
          /\ client' = [client EXCEPT ![c].stage = "clear", ![c].todo = Present(p),
                                          ![c].force = FALSE]
          /\ Enters(c, p)
       \/ p \notin made
          /\ client' = [client EXCEPT ![c].stage = "make", ![c].force = FALSE]
          /\ Enters(c, p)
    /\ UNCHANGED <<store, ops, found, scans, faults>>

(* "plugin remove": the first family that has the plugin; its metadata need *)
(* not be readable                                                          *)
Installed(p) == p \in made /\ metadata[p] # NoMetadata

Uninstall(c) ==
    \E id \in DOMAIN FolderOf, f \in DOMAIN Families :
        LET p == PlaceOf(Families[f], id) IN
        /\ At(c, "idle") /\ ops < MaxOps
        /\ ops' = ops + 1
        /\ Installed(p)
        /\ \A g \in 1..f - 1 : ~Installed(PlaceOf(Families[g], id))
        /\ client' = [client EXCEPT ![c] = [Idle EXCEPT !.stage = "remove", !.place = p,
                                                        !.todo = Present(p)]]
        /\ Enters(c, p)
        /\ UNCHANGED <<store, found, scans, faults>>

(* rmtree unlinks one file after another, in no order that the code knows; *)
(* one that somebody else removed may end it, if errors are not ignored    *)
Unlink(c) ==
    LET p == client[c].place IN
    /\ client[c].stage \in Removing
    /\ \E part \in client[c].todo :
           \/ /\ part \notin Present(p) /\ client[c].stage # "drop"
              /\ Ends(c)
              /\ torn' = torn \cup {p}
              /\ UNCHANGED store
           \/ /\ client' = [client EXCEPT ![c].todo = @ \ {part}]
              /\ files' = IF part = "metadata" THEN files ELSE [files EXCEPT ![p][part] = 0]
              /\ metadata' = IF part = "metadata" THEN [metadata EXCEPT ![p] = NoMetadata]
                             ELSE metadata
              /\ UNCHANGED <<made, torn>>
    /\ UNCHANGED <<ops, reading, faults, crossed>>

AfterRemoval(c) == IF At(c, "clear") THEN To(c, "make") ELSE Ends(c)

(* ... and then the directory, if nothing was put there meanwhile *)
RemoveDirectory(c) ==
    LET p == client[c].place IN
    /\ client[c].stage \in Removing /\ client[c].todo = {}
    /\ \/ /\ p \in made /\ Present(p) = {}
          /\ made' = made \ {p}
          /\ AfterRemoval(c)
          /\ torn' = torn \ {p}
          /\ crossed' = IF Others(c, p) THEN crossed ELSE crossed \ {p}
       \/ /\ p \notin made \/ Present(p) # {}
          /\ Ends(c)
          /\ torn' = torn \cup {p}
          /\ UNCHANGED <<made, crossed>>
    /\ UNCHANGED <<files, metadata, ops, reading, faults>>

(* copytree makes the directory, which must not be there *)
Make(c) ==
    LET p == client[c].place IN
    /\ At(c, "make")
    /\ IF p \in made THEN Ends(c) /\ UNCHANGED made
       ELSE /\ made' = made \cup {p}
            /\ client' = [client EXCEPT ![c].stage = "copy", ![c].todo = Copied]
    /\ UNCHANGED <<files, metadata, ops, reading, faults, torn, crossed>>

(* A file that cannot be copied does not stop the others *)
Copy(c) ==
    LET p == client[c].place IN
    /\ At(c, "copy")
    /\ \E part \in client[c].todo :
           \/ /\ p \in made
              /\ files' = [files EXCEPT ![p][part] = client[c].source]
              /\ client' = [client EXCEPT ![c].todo = @ \ {part}]
              /\ UNCHANGED faults
           \/ /\ p \notin made \/ faults < MaxFaults
              /\ faults' = IF p \in made THEN faults + 1 ELSE faults
              /\ client' = [client EXCEPT ![c].todo = @ \ {part}, ![c].failed = TRUE]
              /\ UNCHANGED files
    /\ UNCHANGED <<made, metadata, ops, reading, torn, crossed>>

----
(* Draft: the metadata is written before the dependencies are there *)
CopiedSigningFirst(c) ==
    /\ At(c, "copy") /\ client[c].todo = {}
    /\ IF client[c].failed THEN Ends(c) ELSE To(c, "sign")
    /\ UNCHANGED <<store, ops, reading, faults, torn, crossed>>

(* The files are copied: the dependencies come next.  A requirements file  *)
(* that is not there is refused, as a failing pip is: all is removed.      *)
CopiedAll(c) ==
    LET needs == Repositories[client[c].source].needs IN
    /\ At(c, "copy") /\ client[c].todo = {}
    /\ CASE client[c].failed -> Ends(c)
         [] ~client[c].failed /\ (~client[c].deps \/ needs = "none") -> To(c, "sign")
         [] ~client[c].failed /\ client[c].deps /\ needs = "some" -> To(c, "venv")
         [] OTHER -> client' = [client EXCEPT ![c].stage = "drop",
                                              ![c].todo = Present(client[c].place)]
    /\ UNCHANGED <<store, ops, reading, faults, torn, crossed>>

(* The environment is made; when that fails, everything stays as it is *)
MakeEnvironment(c) ==
    LET p == client[c].place IN
    /\ At(c, "venv")
    /\ \/ /\ p \in made
          /\ files' = [files EXCEPT ![p]["venv"] = client[c].source]
          /\ To(c, "pip")
          /\ UNCHANGED faults
       \/ /\ p \notin made \/ faults < MaxFaults
          /\ faults' = IF p \in made THEN faults + 1 ELSE faults
          /\ Ends(c)
          /\ UNCHANGED files
    /\ UNCHANGED <<made, metadata, ops, reading, torn, crossed>>

(* pip install: refused, or done *)
RunPip(c) ==
    LET p == client[c].place IN
    /\ At(c, "pip")
    /\ \/ /\ files[p]["venv"] # 0
          /\ files' = [files EXCEPT ![p]["packages"] = client[c].source]
          /\ To(c, "sign")
       \/ /\ client' = [client EXCEPT ![c].stage = "drop", ![c].todo = Present(p)]
          /\ UNCHANGED files
    /\ UNCHANGED <<made, metadata, ops, reading, faults, torn, crossed>>

(* Draft: the directory is taken to be there *)
SignAnyway(c) ==
    /\ At(c, "sign")
    /\ metadata' = [metadata EXCEPT ![client[c].place] = [from |-> 0, deps |-> "blank"]]
    /\ To(c, "fill")
    /\ UNCHANGED <<made, files, ops, reading, faults, torn, crossed>>

(* The metadata is opened for writing, and written *)
Sign(c) ==
    LET p == client[c].place IN
    /\ At(c, "sign")
    /\ IF p \in made
       THEN /\ metadata' = [metadata EXCEPT ![p] = [from |-> 0, deps |-> "blank"]]
            /\ To(c, "fill")
       ELSE Ends(c) /\ UNCHANGED metadata
    /\ UNCHANGED <<made, files, ops, reading, faults, torn, crossed>>

Dependencies(c) ==
    IF client[c].deps /\ Repositories[client[c].source].needs = "some" THEN "installed"
    ELSE "none"

Fill(c) ==
    LET p == client[c].place IN
    /\ At(c, "fill")
    /\ metadata' = IF metadata[p] = NoMetadata THEN metadata
                   ELSE [metadata EXCEPT ![p] = [from |-> client[c].source,
                                                 deps |-> Dependencies(c)]]
    /\ Ends(c)
    /\ UNCHANGED <<made, files, ops, reading, faults, torn, crossed>>

Die(c) ==
    /\ ~At(c, "idle") /\ faults < MaxFaults
    /\ faults' = faults + 1
    /\ Ends(c)
    /\ torn' = IF client[c].stage \in Removing THEN torn \cup {client[c].place} ELSE torn
    /\ UNCHANGED <<store, ops, reading, crossed>>

----
(* A registry lists the directories there are *)
Discover ==
    \E family \in Range(Families) :
        /\ loader.family = "none" /\ scans < MaxScans
        /\ scans' = scans + 1
        /\ loader' = [Asleep EXCEPT !.family = family,
                          !.left = {name \in Range(FolderNames) : <<family, name>> \in made}]
        /\ found' = {}
        /\ UNCHANGED <<store, client, ops, faults, torn, crossed>>

Busy(p) == \E c \in Clients : Holds(c, p)

(* On to the next directory *)
Skip == loader' = [Asleep EXCEPT !.family = loader.family,
                                 !.left = loader.left \ {First(loader.left)}]

(* The next manifest is read; a directory without one is no plugin *)
ReadManifest ==
    /\ loader.left # {} /\ loader.stage = "look"
    /\ \/ /\ files[Here]["manifest"] = 0 /\ Skip
       \/ /\ files[Here]["manifest"] # 0
          /\ loader' = [loader EXCEPT !.stage = "text", !.manifest = files[Here]["manifest"],
                                      !.mixed = loader.mixed \/ Busy(Here)]
    /\ UNCHANGED <<store, client, ops, found, scans, faults, torn, crossed>>

(* The instructions or the schema that it names must be there, and may be   *)
(* where the rest of the code is not                                        *)
ReadText ==
    /\ loader.left # {} /\ loader.stage = "text"
    /\ \/ files[Here]["code"] = 0 /\ Skip
       \/ loader' = [loader EXCEPT !.stage = "again"]
    /\ UNCHANGED <<store, client, ops, found, scans, faults, torn, crossed>>

(* The manifest is read again, for how the plugin is run *)
ReadAgain ==
    /\ loader.left # {} /\ loader.stage = "again"
    /\ IF files[Here]["manifest"] = 0 THEN Skip
       ELSE loader' = [loader EXCEPT !.stage = "code", !.again = files[Here]["manifest"]]
    /\ UNCHANGED <<store, client, ops, found, scans, faults, torn, crossed>>

(* Code whose packages are missing may fail when it is loaded *)
Runs(p) ==
    \/ Repositories[loader.again].runtime = "process"
    \/ Repositories[files[p]["code"]].needs = "none"
    \/ files[p]["packages"] # 0

Plugin ==
    [id |-> Repositories[loader.manifest].id, manifest |-> loader.manifest,
     again |-> loader.again, code |-> files[Here]["code"],
     mixed |-> loader.mixed \/ Here \in crossed]

(* A plugin that is not valid, or whose id is taken, is left out *)
Accepted ==
    /\ files[Here]["code"] # 0
    /\ Repositories[files[Here]["code"]].valid
    /\ Plugin.id \notin Builtin \cup {plugin.id : plugin \in found}

(* The code is loaded *)
LoadCode ==
    /\ loader.left # {} /\ loader.stage = "code"
    /\ Skip
    /\ \/ Accepted /\ found' = found \cup {Plugin}
       \/ (Accepted => ~Runs(Here)) /\ UNCHANGED found
    /\ UNCHANGED <<store, client, ops, scans, faults, torn, crossed>>

Discovered ==
    /\ loader.family # "none" /\ loader.left = {}
    /\ loader' = Asleep
    /\ UNCHANGED <<store, client, ops, found, scans, faults, torn, crossed>>

Scan == ReadManifest \/ ReadText \/ ReadAgain \/ LoadCode \/ Discovered

Step(c) ==
    \/ Install(c) \/ Menu(c) \/ Choose(c) \/ Clone(c) \/ Look(c) \/ Uninstall(c)
    \/ Unlink(c) \/ RemoveDirectory(c) \/ Make(c) \/ Copy(c) \/ CopiedAll(c)
    \/ MakeEnvironment(c) \/ RunPip(c) \/ Sign(c) \/ Fill(c) \/ Die(c)

Next == Discover \/ Scan \/ \E c \in Clients : Step(c)

Spec == Init /\ [][Next]_vars

----
(* A directory that is not there holds nothing, and a command that is not   *)
(* at work on a directory has nothing left to do in one                     *)
TypeOK ==
    /\ made \subseteq Places /\ torn \subseteq Places /\ crossed \subseteq Places
    /\ files \in [Places -> [Parts \ {"metadata"} -> {0} \cup Sources]]
    /\ metadata \in [Places -> Metadata]
    /\ \A p \in Places \ made : Present(p) = {}
    /\ \A c \in Clients :
           /\ client[c].stage \in {"idle", "menu", "clone", "look"} \cup Working
           /\ client[c].source \in Sources
           /\ client[c].place \in Places
           /\ client[c].todo \subseteq Parts
           /\ client[c].todo # {} => client[c].stage \in Removing \cup {"copy"}
    /\ ops \in 0..MaxOps /\ scans \in 0..MaxScans /\ faults \in 0..MaxFaults

Cut(p) == p \in torn \cup crossed \/ \E c \in Clients : Holds(c, p) /\ client[c].stage \in Removing

(* A plugin that "plugin list" shows is there in one piece, with the        *)
(* packages that its metadata claims, whatever commands died or failed      *)
(* before, unless a removal was cut short or commands overlapped on it.     *)
ListedIsWhole ==
    \A p \in Places :
        Listed(p) /\ ~Cut(p) =>
            LET s == metadata[p].from IN
            /\ Target(s) = p
            /\ \A part \in Copied : files[p][part] = s
            /\ metadata[p].deps = "installed" => files[p]["packages"] = s

(* A registry never puts the code of one version under the manifest of      *)
(* another, unless a command was at work on the directory meanwhile, or     *)
(* commands overlapped there before: a half of a plugin may be found, but   *)
(* never the halves of two.                                                 *)
LoadedIsOne ==
    \A plugin \in found :
        ~plugin.mixed => plugin.manifest = plugin.code /\ plugin.again = plugin.code
=============================================================================
