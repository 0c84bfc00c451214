--------------------------- MODULE PluginStoreProofs ---------------------------
(***************************************************************************)
(* Proofs about PluginStore, for every set of commands, every repositories *)
(* and folders and all bounds: type correctness, ListedIsWhole and         *)
(* LoadedIsOne.                                                            *)
(*                                                                         *)
(* What makes them inductive is that a directory on which no commands      *)
(* overlapped has one command at work at most, and that this one command   *)
(* knows what it has done there: it began in a directory that was gone, so *)
(* that every file is of its own repository, and it signs at the end.      *)
(***************************************************************************)
EXTENDS PluginStore, WellFoundedInduction, TLAPS

(* Commands and the registry's pass *)

Task ==
    [stage : {"idle", "menu", "clone", "look"} \cup Working,
     source : Sources, place : Places, force : BOOLEAN, deps : BOOLEAN,
     todo : SUBSET Parts, failed : BOOLEAN, seen : SUBSET DOMAIN FolderOf]

TaskInv ==
    /\ client \in [Clients -> Task]
    /\ \A c \in Clients : At(c, "copy") => client[c].todo \subseteq Copied

Pass ==
    [family : Range(Families) \cup {"none"}, left : SUBSET Range(FolderNames),
     stage : {"look", "text", "again", "code"}, manifest : {0} \cup Sources,
     again : {0} \cup Sources, mixed : BOOLEAN]

PassInv ==
    /\ loader \in Pass
    /\ loader.family = "none" => loader.left = {}

(* An install works in the directory that its repository's id gives *)
Installing == {"clone", "look", "clear", "make", "copy", "venv", "pip", "sign", "fill"}

AimInv ==
    \A c \in Clients :
        client[c].stage \in Installing => client[c].place = Target(client[c].source)

(* Commands that overlap are known to *)
SoleInv ==
    \A p \in Places \ crossed, c, d \in Clients : Holds(c, p) /\ Holds(d, p) => c = d

(* What a command that has its directory for itself has done there *)
Signing == {"venv", "pip", "sign", "fill"}

Sound(t) ==
    /\ t.stage = "make" => t.place \notin made
    /\ t.stage \in {"copy", "venv", "pip", "sign"} => metadata[t.place] = NoMetadata
    /\ t.stage = "fill" => ~Listed(t.place)
    /\ t.stage = "copy" =>
           \A part \in Copied :
               /\ files[t.place][part] \in {0, t.source}
               /\ ~t.failed /\ part \notin t.todo => files[t.place][part] = t.source
    /\ t.stage \in Signing => \A part \in Copied : files[t.place][part] = t.source
    /\ t.stage \in {"sign", "fill"} /\ t.deps /\ Repositories[t.source].needs = "some"
           => files[t.place]["packages"] = t.source

WorkInv ==
    \A c \in Clients :
        client[c].stage \in Working /\ client[c].place \notin crossed => Sound(client[c])

(* The files are of one repository *)
One(p) ==
    files[p]["manifest"] # 0 /\ files[p]["code"] # 0 => files[p]["manifest"] = files[p]["code"]

OneInv == \A p \in Places \ crossed : One(p)

(* What is listed names a repository, and is whole *)
FromInv == \A p \in Places : Listed(p) => metadata[p].from \in Sources

Whole(p) ==
    /\ Target(metadata[p].from) = p
    /\ \A part \in Copied : files[p][part] = metadata[p].from
    /\ metadata[p].deps = "installed" => files[p]["packages"] = metadata[p].from

(* What the registry read in a directory that nobody worked on is there *)
ReadInv ==
    loader.left # {} /\ loader.stage # "look" /\ ~loader.mixed
        => /\ ~Busy(Here)
           /\ files[Here]["manifest"] = loader.manifest
           /\ loader.manifest # 0
           /\ loader.stage = "code" => loader.again = loader.manifest

IInv ==
    /\ TypeOK
    /\ TaskInv
    /\ PassInv
    /\ AimInv
    /\ SoleInv
    /\ WorkInv
    /\ OneInv
    /\ FromInv
    /\ ListedIsWhole
    /\ ReadInv
    /\ LoadedIsOne

----
(* Names, folders and repositories *)

LEMMA FirstOf ==
    ASSUME NEW names \in SUBSET Range(FolderNames), names # {}
    PROVE  First(names) \in names
<1> DEFINE places == {i \in DOMAIN FolderNames : FolderNames[i] \in names}
<1>1. places \subseteq Nat /\ places # {}
  <2>1. FolderNames \in Seq(Range(FolderNames))
    BY StoreAssumption
  <2>2. DOMAIN FolderNames = 1..Len(FolderNames) /\ Len(FolderNames) \in Nat
    BY <2>1
  <2>3. PICK name \in names : TRUE
    OBVIOUS
  <2>4. \E i \in DOMAIN FolderNames : FolderNames[i] = name
    BY <2>3 DEF Range
  <2> QED
    BY <2>2, <2>3, <2>4
<1>2. PICK i \in places : \A j \in places : i <= j
  <2>1. \E i \in places : \A j \in places : ~(<<j, i>> \in OpToRel(<, Nat))
    BY <1>1, WFMin, NatLessThanWellFounded, Zenon
  <2>2. \A i, j \in Nat : j < i => <<j, i>> \in OpToRel(<, Nat)
    BY Zenon DEF OpToRel
  <2>3. PICK i \in places : \A j \in places : ~(<<j, i>> \in OpToRel(<, Nat))
    BY <2>1, Zenon
  <2>4. \A j \in places : ~(j < i)
    BY <1>1, <2>2, <2>3
  <2> QED
    BY <1>1, <2>4
<1>3. Min(places) \in places
  BY <1>2 DEF Min
<1> QED
  BY <1>3 DEF First

LEMMA RepositoryType ==
    ASSUME NEW s \in Sources
    PROVE  /\ Repositories[s].id \in DOMAIN FolderOf
           /\ Repositories[s].family \in Range(Families)
           /\ Repositories[s].needs \in {"none", "some", "unmet"}
<1> DEFINE Repository == [id : DOMAIN FolderOf, family : Range(Families),
                          needs : {"none", "some", "unmet"},
                          runtime : {"python", "process"}, valid : BOOLEAN]
<1>1. Repositories \in Seq(Repository) /\ s \in DOMAIN Repositories
  BY StoreAssumption DEF Sources
<1>2. Repositories[s] \in Repository
  <2> HIDE DEF Repository
  <2> QED
    BY <1>1
<1> QED
  BY <1>2

LEMMA PlaceType ==
    ASSUME NEW family \in Range(Families), NEW id \in DOMAIN FolderOf
    PROVE  PlaceOf(family, id) \in Places
BY StoreAssumption DEF PlaceOf, Places

LEMMA TargetType ==
    ASSUME NEW s \in Sources
    PROVE  Target(s) \in Places
BY RepositoryType, PlaceType DEF Target

LEMMA IdleType == Idle \in Task /\ Idle.stage = "idle"
<1>1. 1 \in Sources
  BY StoreAssumption DEF Sources
<1> QED
  BY <1>1, TargetType DEF Idle, Task

LEMMA InitInv ==
    ASSUME Init
    PROVE  IInv
<1>1. /\ client \in [Clients -> Task]
      /\ \A c \in Clients : client[c].stage = "idle" /\ client[c].todo = {}
                            /\ client[c].source \in Sources /\ client[c].place \in Places
  <2>1. client = [c \in Clients |-> Idle]
    BY DEF Init
  <2>2. Idle.todo = {} /\ Idle.source \in Sources /\ Idle.place \in Places
    BY IdleType DEF Idle, Task
  <2> QED
    BY <2>1, <2>2, IdleType
<1>2. \A p \in Places : Present(p) = {} /\ ~Listed(p)
  BY DEF Init, Present, Listed, NoMetadata
<1>3. TypeOK
  <2>1. NoMetadata \in Metadata
    BY DEF NoMetadata, Metadata
  <2> QED
    BY <1>1, <1>2, <2>1, StoreAssumption DEF Init, TypeOK
<1>4. TaskInv /\ AimInv /\ SoleInv /\ WorkInv
  BY <1>1 DEF TaskInv, AimInv, SoleInv, WorkInv, Holds, At, Working, Removing,
                 Installing
<1>5. PassInv /\ ReadInv
  BY DEF Init, Asleep, PassInv, Pass, ReadInv
<1>6. OneInv /\ FromInv /\ ListedIsWhole /\ LoadedIsOne
  BY <1>2 DEF Init, OneInv, One, FromInv, ListedIsWhole, LoadedIsOne, Parts, Copied
<1> QED
  BY <1>3, <1>4, <1>5, <1>6 DEF IInv

----
(* What a step leaves alone *)

(* The directories and the counters have their types *)
StoreOK ==
    /\ made \subseteq Places /\ torn \subseteq Places /\ crossed \subseteq Places
    /\ files \in [Places -> [Parts \ {"metadata"} -> {0} \cup Sources]]
    /\ metadata \in [Places -> Metadata]
    /\ \A p \in Places \ made : Present(p) = {}
    /\ ops \in 0..MaxOps /\ scans \in 0..MaxScans /\ faults \in 0..MaxFaults

(* A command's own part of the types and the aims *)
Fit(c) ==
    /\ client[c] \in Task
    /\ At(c, "copy") => client[c].todo \subseteq Copied
    /\ client[c].todo # {} => client[c].stage \in Removing \cup {"copy"}
    /\ client[c].stage \in Installing => client[c].place = Target(client[c].source)

LEMMA Fitting ==
    ASSUME IInv
    PROVE  /\ StoreOK
           /\ client \in [Clients -> Task]
           /\ \A c \in Clients : Fit(c)
<1>1. StoreOK
  BY DEF IInv, TypeOK, StoreOK
<1>2. client \in [Clients -> Task] /\ \A c \in Clients : Fit(c)
  BY DEF IInv, TypeOK, TaskInv, AimInv, Fit
<1> QED
  BY <1>1, <1>2

(* Only command c goes on *)
Alone(c) ==
    /\ client' \in [Clients -> Task]
    /\ \A d \in Clients \ {c} : client'[d] = client[d]

LEMMA AloneFits ==
    ASSUME IInv, NEW c \in Clients, Alone(c), StoreOK', Fit(c)'
    PROVE  TypeOK' /\ TaskInv' /\ AimInv'
<1>1. \A d \in Clients : Fit(d)'
  <2> TAKE d \in Clients
  <2>1. CASE d = c
    BY <2>1
  <2>2. CASE d # c
    BY <2>2, Fitting DEF Alone, Fit, At
  <2> QED
    BY <2>1, <2>2
<1>2. TypeOK'
  BY <1>1 DEF StoreOK, Fit, TypeOK, Task
<1>3. TaskInv' /\ AimInv'
  BY <1>1 DEF Alone, Fit, TaskInv, AimInv
<1> QED
  BY <1>2, <1>3

LEMMA StageSets ==
    /\ Working = {"clear", "drop", "remove", "make", "copy", "venv", "pip", "sign", "fill"}
    /\ Removing = {"clear", "drop", "remove"}
BY DEF Working, Removing

----
(* A command that is at work on no directory, before and after the step *)
LEMMA QuietStep ==
    ASSUME IInv, NEW c \in Clients, Alone(c), StoreOK', Fit(c)',
           client[c].stage \notin Working, client'[c].stage \notin Working,
           UNCHANGED <<store, reading, torn, crossed>>
    PROVE  IInv'
<1>1. UNCHANGED <<made, files, metadata, loader, found, scans, torn, crossed>>
  BY DEF store, reading
<1>2. \A d \in Clients : /\ client'[d].stage \in Working => client'[d] = client[d]
                         /\ \A p \in Places : Holds(d, p)' <=> Holds(d, p)
  BY DEF Alone, Holds
<1>3. \A p \in Places : /\ Listed(p)' <=> Listed(p)
                        /\ One(p)' <=> One(p)
                        /\ Cut(p)' <=> Cut(p)
  <2>1. \A p \in Places : (Listed(p)' <=> Listed(p)) /\ (One(p)' <=> One(p))
    BY <1>1 DEF Listed, One
  <2>2. \A p \in Places, d \in Clients :
            Holds(d, p) /\ client[d].stage \in Removing
                <=> (Holds(d, p) /\ client[d].stage \in Removing)'
    BY <1>2, StageSets DEF Holds, Alone
  <2>3. \A p \in Places : Cut(p)' <=> Cut(p)
    BY <1>1, <2>2 DEF Cut
  <2> QED
    BY <2>1, <2>3
<1>4. TypeOK' /\ TaskInv' /\ AimInv'
  BY AloneFits
<1>5. PassInv' /\ LoadedIsOne'
  BY <1>1 DEF IInv, PassInv, LoadedIsOne
<1>6. SoleInv'
  BY <1>1, <1>2 DEF IInv, SoleInv
<1>7. WorkInv'
  <2>1. \A d \in Clients : client'[d] = client[d] => (Sound(client[d])' <=> Sound(client[d]))
    BY <1>1 DEF Sound, Listed
  <2> QED
    BY <1>1, <1>2, <2>1 DEF IInv, WorkInv
<1>8. OneInv' /\ FromInv'
  BY <1>1, <1>3 DEF IInv, OneInv, FromInv
<1>9. ListedIsWhole'
  BY <1>1, <1>3 DEF IInv, ListedIsWhole
<1>10. ReadInv'
  <2>1. loader.left # {} => Here \in Places
    BY FirstOf DEF IInv, PassInv, Pass, Here, Places
  <2>2. Here' = Here
    BY <1>1 DEF Here, First
  <2>3. loader.left # {} => (Busy(Here)' <=> Busy(Here))
    BY <1>2, <2>1, <2>2 DEF Busy
  <2> QED
    BY <1>1, <2>2, <2>3 DEF IInv, ReadInv
<1> QED
  BY <1>4, <1>5, <1>6, <1>7, <1>8, <1>9, <1>10 DEF IInv

(* A command's step in its directory p: all others stay as they are *)
Elsewhere(p) ==
    \A q \in Places \ {p} :
        /\ files'[q] = files[q] /\ metadata'[q] = metadata[q]
        /\ q \in made' <=> q \in made
        /\ q \in torn' <=> q \in torn
        /\ q \in crossed' <=> q \in crossed

LEMMA WorkStep ==
    ASSUME IInv, NEW c \in Clients, Alone(c), StoreOK', Fit(c)',
           NEW p \in Places, Holds(c, p), Elsewhere(p),
           UNCHANGED reading,
           client'[c].stage \in Working => client'[c].place = p,
           p \in crossed => p \in crossed' \/ (p \notin made' /\ ~Others(c, p)),
           p \in crossed' => p \in crossed,
           p \notin crossed' /\ client'[c].stage \in Working => Sound(client[c])',
           p \notin crossed' => One(p)',
           Listed(p)' => metadata'[p].from \in Sources,
           Listed(p)' /\ ~Cut(p)' => Whole(p)'
    PROVE  IInv'
<1>1. UNCHANGED <<loader, found>>
  BY DEF reading
<1>2. \A d \in Clients \ {c} :
          /\ client'[d] = client[d]
          /\ \A q \in Places : Holds(d, q)' <=> Holds(d, q)
  BY DEF Alone, Holds
<1>3. \A q \in Places \ {p} : ~Holds(c, q) /\ ~Holds(c, q)'
  BY DEF Holds
<1>4. p \notin crossed' => \A d \in Clients \ {c} : ~Holds(d, p)
  BY DEF IInv, SoleInv, Others
<1>5. \A q \in Places \ {p} : /\ Listed(q)' <=> Listed(q)
                              /\ One(q)' <=> One(q)
                              /\ Whole(q)' <=> Whole(q)
                              /\ Cut(q)' <=> Cut(q)
  <2> TAKE q \in Places \ {p}
  <2>1. (Listed(q)' <=> Listed(q)) /\ (One(q)' <=> One(q)) /\ (Whole(q)' <=> Whole(q))
    BY DEF Elsewhere, Listed, One, Whole
  <2>2. \A d \in Clients :
            Holds(d, q) /\ client[d].stage \in Removing
                <=> (Holds(d, q) /\ client[d].stage \in Removing)'
    BY <1>2, <1>3
  <2>3. Cut(q)' <=> Cut(q)
    BY <2>2 DEF Cut, Elsewhere
  <2> QED
    BY <2>1, <2>3
<1>6. TypeOK' /\ TaskInv' /\ AimInv'
  BY AloneFits
<1>7. PassInv' /\ LoadedIsOne'
  BY <1>1 DEF IInv, PassInv, LoadedIsOne
<1>8. SoleInv'
  <2> SUFFICES ASSUME NEW q \in Places \ crossed', NEW d \in Clients, NEW e \in Clients,
                      Holds(d, q)', Holds(e, q)'
               PROVE  d = e
    BY DEF SoleInv
  <2>1. CASE q = p
    BY <2>1, <1>2, <1>4
  <2>2. CASE q # p
    BY <2>2, <1>2, <1>3 DEF IInv, SoleInv, Elsewhere
  <2> QED
    BY <2>1, <2>2
<1>9. WorkInv'
  <2> SUFFICES ASSUME NEW d \in Clients, client'[d].stage \in Working,
                      client'[d].place \notin crossed'
               PROVE  Sound(client[d])'
    BY DEF WorkInv
  <2>1. CASE d = c
    BY <2>1
  <2>2. CASE d # c
    <3>1. client[d] \in Task /\ client'[d] = client[d]
      BY <2>2, <1>2, Fitting DEF Fit
    <3>2. client[d].place \in Places /\ Holds(d, client[d].place)
      BY <3>1 DEF Task, Holds
    <3>3. client[d].place # p
      BY <1>4, <2>2, <3>1, <3>2
    <3>4. Sound(client[d])
      BY <3>1, <3>2, <3>3 DEF IInv, WorkInv, Elsewhere
    <3>5. Sound(client[d])' <=> Sound(client[d])
      BY <1>5, <3>1, <3>2, <3>3 DEF Sound, Elsewhere
    <3> QED
      BY <3>4, <3>5
  <2> QED
    BY <2>1, <2>2
<1>10. OneInv' /\ FromInv'
  BY <1>5 DEF IInv, OneInv, FromInv, Elsewhere
<1>11. ListedIsWhole'
  <2>1. \A q \in Places : Listed(q)' /\ ~Cut(q)' => Whole(q)'
    BY <1>5 DEF IInv, ListedIsWhole, Whole
  <2> QED
    BY <2>1 DEF ListedIsWhole, Whole
<1>12. ReadInv'
  <2>1. Here' = Here
    BY <1>1 DEF Here, First
  <2>2. ASSUME loader.left # {}, loader.stage # "look", ~loader.mixed
        PROVE  /\ ~Busy(Here)'
               /\ files'[Here] = files[Here]
    <3>1. Here \in Places
      BY <2>2, FirstOf DEF IInv, PassInv, Pass, Here, Places
    <3>2. ~Busy(Here)
      BY <2>2 DEF IInv, ReadInv
    <3>3. Here # p
      BY <3>2 DEF Busy
    <3> QED
      BY <1>2, <1>3, <2>1, <3>1, <3>2, <3>3 DEF Busy, Elsewhere
  <2> QED
    BY <1>1, <2>1, <2>2 DEF IInv, ReadInv
<1> QED
  BY <1>6, <1>7, <1>8, <1>9, <1>10, <1>11, <1>12 DEF IInv

(* A command goes to work on directory p *)
LEMMA EnterStep ==
    ASSUME IInv, NEW c \in Clients, Alone(c), StoreOK', Fit(c)',
           NEW p \in Places, Enters(c, p), UNCHANGED <<store, found>>,
           client[c].stage \notin Working,
           client'[c].stage \in Removing \cup {"make"}, client'[c].place = p,
           client'[c].stage = "make" => p \notin made
    PROVE  IInv'
<1>1. UNCHANGED <<made, files, metadata, found>>
  BY DEF store
<1>2. \A d \in Clients \ {c} :
          /\ client'[d] = client[d]
          /\ \A q \in Places : Holds(d, q)' <=> Holds(d, q)
  BY DEF Alone, Holds
<1>3. \A q \in Places : ~Holds(c, q)
  BY DEF Holds
<1>4. /\ \A q \in Places \ {p} : q \in crossed' <=> q \in crossed
      /\ p \notin crossed' => ~Others(c, p) /\ (p \in crossed => p \notin made)
      /\ \A q \in Places : q \in torn /\ q \notin torn' => q = p /\ p \notin made
  BY DEF Enters
<1>5. p \notin made => ~Listed(p) /\ One(p)
  <2>1. p \notin made => Present(p) = {}
    BY Fitting DEF StoreOK
  <2>2. Present(p) = {} => metadata[p] = NoMetadata /\ files[p]["code"] = 0
    BY DEF Present, Parts, Copied
  <2> QED
    BY <2>1, <2>2 DEF Listed, NoMetadata, One
<1>6. TypeOK' /\ TaskInv' /\ AimInv'
  BY AloneFits
<1>7. LoadedIsOne'
  BY <1>1 DEF IInv, LoadedIsOne
<1>8. SoleInv'
  <2> SUFFICES ASSUME NEW q \in Places \ crossed', NEW d \in Clients, NEW e \in Clients,
                      Holds(d, q)', Holds(e, q)'
               PROVE  d = e
    BY DEF SoleInv
  <2>1. CASE q = p
    BY <2>1, <1>2, <1>4 DEF Others
  <2>2. CASE q # p
    <3>1. ~Holds(c, q)'
      BY <2>2 DEF Holds
    <3> QED
      BY <2>2, <3>1, <1>2, <1>4 DEF IInv, SoleInv
  <2> QED
    BY <2>1, <2>2
<1>9. WorkInv'
  <2> SUFFICES ASSUME NEW d \in Clients, client'[d].stage \in Working,
                      client'[d].place \notin crossed'
               PROVE  Sound(client[d])'
    BY DEF WorkInv
  <2>1. CASE d = c
    BY <2>1, <1>1, StageSets DEF Sound, Signing
  <2>2. CASE d # c
    <3>1. client[d] \in Task /\ client'[d] = client[d]
      BY <2>2, <1>2, Fitting DEF Fit
    <3>2. client[d].place \in Places /\ Holds(d, client[d].place)
      BY <3>1 DEF Task, Holds
    <3>3. client[d].place # p
      BY <1>4, <2>2, <3>1, <3>2 DEF Others
    <3>4. Sound(client[d])
      BY <3>1, <3>2, <3>3, <1>4 DEF IInv, WorkInv
    <3>5. Sound(client[d])' <=> Sound(client[d])
      BY <1>1, <3>1 DEF Sound, Listed
    <3> QED
      BY <3>4, <3>5
  <2> QED
    BY <2>1, <2>2
<1>10. OneInv' /\ FromInv'
  BY <1>1, <1>4, <1>5 DEF IInv, OneInv, FromInv, One, Listed
<1>11. ListedIsWhole'
  <2> SUFFICES ASSUME NEW q \in Places, Listed(q)', ~Cut(q)'
               PROVE  Whole(q)'
    BY DEF ListedIsWhole, Whole
  <2>1. Listed(q)
    BY <1>1 DEF Listed
  <2>2. CASE q = p
    <3>1. client'[c].stage = "make"
      BY <2>2 DEF Cut, Holds, Working
    <3> QED
      BY <1>5, <2>1, <2>2, <3>1
  <2>3. CASE q # p
    <3>1. \A d \in Clients : Holds(d, q) => Holds(d, q)' /\ client'[d] = client[d]
      BY <1>2, <1>3
    <3>2. ~Cut(q)
      BY <1>4, <2>3, <3>1 DEF Cut
    <3> QED
      BY <1>1, <2>1, <3>2 DEF IInv, ListedIsWhole, Whole
  <2> QED
    BY <2>2, <2>3
<1>12. /\ loader'.left = loader.left /\ loader'.stage = loader.stage
       /\ loader'.family = loader.family
       /\ loader'.manifest = loader.manifest /\ loader'.again = loader.again
       /\ loader' \in Pass
       /\ ~loader'.mixed => ~loader.mixed /\ ~(loader.left # {} /\ Here = p)
  BY DEF Enters, IInv, PassInv, Pass
<1>13. PassInv'
  BY <1>12 DEF IInv, PassInv
<1>14. ReadInv'
  <2>1. Here' = Here
    BY <1>12 DEF Here, First
  <2>2. ASSUME loader.left # {}, loader.stage # "look", ~loader'.mixed
        PROVE  ~Busy(Here)'
    <3>1. Here \in Places
      BY <2>2, FirstOf DEF IInv, PassInv, Pass, Here, Places
    <3>2. ~Busy(Here) /\ Here # p
      BY <1>12, <2>2 DEF IInv, ReadInv
    <3>3. ~Holds(c, Here)'
      BY <2>1, <3>2 DEF Holds
    <3> QED
      BY <1>2, <2>1, <3>1, <3>2, <3>3 DEF Busy
  <2> QED
    BY <1>1, <1>12, <2>1, <2>2 DEF IInv, ReadInv
<1> QED
  BY <1>6, <1>7, <1>8, <1>9, <1>10, <1>11, <1>13, <1>14 DEF IInv

(* A step of the registry *)
LEMMA RegistryStep ==
    ASSUME IInv, UNCHANGED <<store, client, ops, faults, torn, crossed>>,
           scans' \in 0..MaxScans, PassInv', ReadInv', LoadedIsOne'
    PROVE  IInv'
<1>1. UNCHANGED <<made, files, metadata, client, torn, crossed>>
  BY DEF store
<1>2. TypeOK' /\ TaskInv' /\ AimInv'
  BY <1>1 DEF IInv, TypeOK, TaskInv, AimInv, Present, At
<1>3. SoleInv' /\ WorkInv'
  BY <1>1 DEF IInv, SoleInv, WorkInv, Holds, Sound, Listed
<1>4. OneInv' /\ FromInv' /\ ListedIsWhole'
  BY <1>1 DEF IInv, OneInv, One, FromInv, ListedIsWhole, Listed, Cut, Holds
<1> QED
  BY <1>2, <1>3, <1>4 DEF IInv

----
(* Commands that are not at work on a directory yet *)

LEMMA Becomes ==
    ASSUME IInv, NEW c \in Clients, NEW new \in Task, client' = [client EXCEPT ![c] = new]
    PROVE  Alone(c) /\ client'[c] = new
BY Fitting DEF Alone

LEMMA EndedStep ==
    ASSUME IInv, NEW c \in Clients, Ends(c), client[c].stage \notin Working,
           UNCHANGED <<store, ops, reading, faults, torn, crossed>>
    PROVE  IInv'
<1>1. Alone(c) /\ client'[c] = Idle
  BY Becomes, IdleType DEF Ends
<1>2. client'[c].stage = "idle" /\ client'[c].todo = {} /\ client'[c] \in Task
  BY <1>1, IdleType DEF Idle
<1>3. StoreOK'
  BY Fitting DEF StoreOK, store, reading, Present
<1>4. Fit(c)'
  BY <1>2 DEF Fit, At, Installing
<1> QED
  BY <1>1, <1>2, <1>3, <1>4, StageSets, QuietStep

LEMMA CommandStep ==
    ASSUME IInv, NEW c \in Clients, NEW new \in Task, Command(c, new),
           new.stage \in {"menu", "clone"}, new.todo = {},
           new.stage = "clone" => new.place = Target(new.source)
    PROVE  IInv'
<1>1. Alone(c) /\ client'[c] = new
  BY Becomes DEF Command
<1>2. client[c].stage \notin Working /\ client'[c].stage \notin Working
  BY <1>1, StageSets DEF Command, At
<1>3. StoreOK'
  <2>1. ops' \in 0..MaxOps
    BY Fitting, StoreAssumption DEF Command, StoreOK
  <2> QED
    BY <2>1, Fitting DEF Command, StoreOK, store, reading, Present
<1>4. Fit(c)'
  BY <1>1 DEF Fit, At, Installing
<1> QED
  BY <1>1, <1>2, <1>3, <1>4, QuietStep DEF Command

LEMMA InstallStep ==
    ASSUME IInv, NEW c \in Clients, Install(c)
    PROVE  IInv'
<1>1. PICK s \in Sources, force \in BOOLEAN, deps \in BOOLEAN :
          Command(c, [Idle EXCEPT !.stage = "clone", !.source = s, !.place = Target(s),
                                  !.force = force, !.deps = deps])
  BY DEF Install
<1> DEFINE new == [Idle EXCEPT !.stage = "clone", !.source = s, !.place = Target(s),
                               !.force = force, !.deps = deps]
<1>2. /\ new \in Task /\ new.stage = "clone" /\ new.todo = {}
      /\ new.place = Target(s) /\ new.source = s
  BY IdleType, TargetType DEF Idle, Task
<1> HIDE DEF new
<1> QED
  BY <1>1, <1>2, CommandStep DEF new

LEMMA MenuStep ==
    ASSUME IInv, NEW c \in Clients, Menu(c)
    PROVE  IInv'
<1>1. ListedIds \in SUBSET DOMAIN FolderOf
  BY RepositoryType DEF ListedIds, IInv, FromInv
<1>2. PICK force \in BOOLEAN, deps \in BOOLEAN :
          Command(c, [Idle EXCEPT !.stage = "menu", !.force = force, !.deps = deps,
                                  !.seen = IF force THEN {} ELSE ListedIds])
  BY DEF Menu
<1> DEFINE new == [Idle EXCEPT !.stage = "menu", !.force = force, !.deps = deps,
                               !.seen = IF force THEN {} ELSE ListedIds]
<1>3. new \in Task /\ new.stage = "menu" /\ new.todo = {}
  BY <1>1, IdleType DEF Idle, Task
<1> HIDE DEF new
<1> QED
  BY <1>2, <1>3, CommandStep DEF new

LEMMA ChooseStep ==
    ASSUME IInv, NEW c \in Clients, Choose(c)
    PROVE  IInv'
<1>1. /\ client[c].stage \notin Working /\ client[c] \in Task /\ client[c].todo = {}
      /\ UNCHANGED <<store, ops, reading, faults, torn, crossed>>
  BY Fitting, StageSets DEF Choose, At, Fit
<1>2. CASE Ends(c)
  BY <1>1, <1>2, EndedStep
<1>3. ASSUME NEW s \in Catalog,
             client' = [client EXCEPT ![c].stage = "clone", ![c].source = s,
                                      ![c].place = Target(s), ![c].seen = {}]
      PROVE  IInv'
  <2> DEFINE new == [client[c] EXCEPT !.stage = "clone", !.source = s, !.place = Target(s),
                                      !.seen = {}]
  <2>1. s \in Sources /\ Target(s) \in Places
    BY StoreAssumption, TargetType DEF Sources
  <2>2. /\ new \in Task /\ new.stage = "clone" /\ new.todo = {}
        /\ new.place = Target(new.source)
    BY <1>1, <2>1 DEF Task
  <2>3. client' = [client EXCEPT ![c] = new]
    BY <1>3
  <2> HIDE DEF new
  <2>4. Alone(c) /\ client'[c] = new
    BY <2>2, <2>3, Becomes
  <2>5. Fit(c)' /\ client'[c].stage \notin Working
    BY <2>2, <2>4, StageSets DEF Fit, At
  <2>6. StoreOK'
    BY <1>1, Fitting DEF StoreOK, store, reading, Present
  <2> QED
    BY <1>1, <2>4, <2>5, <2>6, QuietStep
<1> QED
  BY <1>2, <1>3 DEF Choose

LEMMA CloneStep ==
    ASSUME IInv, NEW c \in Clients, Clone(c)
    PROVE  IInv'
<1>1. /\ client[c].stage = "clone" /\ client[c].stage \notin Working
      /\ client[c] \in Task /\ client[c].todo = {}
      /\ client[c].place = Target(client[c].source)
      /\ UNCHANGED <<store, ops, reading, faults, torn, crossed>>
  BY Fitting, StageSets DEF Clone, At, Fit, Installing
<1>2. CASE Ends(c)
  BY <1>1, <1>2, EndedStep
<1>3. CASE To(c, "look")
  <2> DEFINE new == [client[c] EXCEPT !.stage = "look"]
  <2>1. /\ new \in Task /\ new.stage = "look" /\ new.todo = {}
        /\ new.place = Target(new.source)
    BY <1>1 DEF Task
  <2>2. client' = [client EXCEPT ![c] = new]
    BY <1>3 DEF To
  <2> HIDE DEF new
  <2>3. Alone(c) /\ client'[c] = new
    BY <2>1, <2>2, Becomes
  <2>4. Fit(c)' /\ client'[c].stage \notin Working
    BY <2>1, <2>3, StageSets DEF Fit, At
  <2>5. StoreOK'
    BY <1>1, Fitting DEF StoreOK, store, reading, Present
  <2> QED
    BY <1>1, <2>3, <2>4, <2>5, QuietStep
<1> QED
  BY <1>2, <1>3 DEF Clone

----
(* Commands that go to work on a directory *)

LEMMA EnteringStore ==
    ASSUME IInv, NEW c \in Clients, NEW p \in Places, Enters(c, p), UNCHANGED store,
           ops' \in 0..MaxOps, UNCHANGED <<scans, faults>>
    PROVE  StoreOK'
<1>1. torn' \subseteq Places /\ crossed' \subseteq Places
  BY Fitting DEF StoreOK, Enters
<1> QED
  BY <1>1, Fitting DEF StoreOK, store, Present

LEMMA LookStep ==
    ASSUME IInv, NEW c \in Clients, Look(c)
    PROVE  IInv'
<1> DEFINE p == client[c].place
<1>1. /\ client[c].stage = "look" /\ client[c].stage \notin Working
      /\ client[c] \in Task /\ client[c].todo = {} /\ p \in Places
      /\ p = Target(client[c].source)
      /\ UNCHANGED <<store, ops, found, scans, faults>>
      /\ ops \in 0..MaxOps
  BY Fitting, StageSets DEF Look, At, Fit, Installing, Task, StoreOK
<1>2. CASE Ends(c) /\ UNCHANGED <<torn, crossed, loader>>
  BY <1>1, <1>2, EndedStep DEF reading
<1>3. CASE /\ client' = [client EXCEPT ![c].stage = "clear", ![c].todo = Present(p),
                                       ![c].force = FALSE]
           /\ Enters(c, p)
  <2> DEFINE new == [client[c] EXCEPT !.stage = "clear", !.todo = Present(p), !.force = FALSE]
  <2>1. Present(p) \subseteq Parts
    BY DEF Present, Parts
  <2>2. /\ new \in Task /\ new.stage = "clear" /\ new.place = p
        /\ new.place = Target(new.source)
    BY <1>1, <2>1, StageSets DEF Task
  <2>3. client' = [client EXCEPT ![c] = new]
    BY <1>3
  <2> HIDE DEF new
  <2>4. Alone(c) /\ client'[c] = new
    BY <2>2, <2>3, Becomes
  <2>5. Fit(c)' /\ client'[c].stage \in Removing
    BY <2>2, <2>4, StageSets DEF Fit, At
  <2>6. StoreOK'
    BY <1>1, <1>3, EnteringStore
  <2> HIDE DEF p
  <2> QED
    BY <1>1, <1>3, <2>2, <2>4, <2>5, <2>6, EnterStep
<1>4. CASE /\ p \notin made
           /\ client' = [client EXCEPT ![c].stage = "make", ![c].force = FALSE]
           /\ Enters(c, p)
  <2> DEFINE new == [client[c] EXCEPT !.stage = "make", !.force = FALSE]
  <2>1. /\ new \in Task /\ new.stage = "make" /\ new.place = p /\ new.todo = {}
        /\ new.place = Target(new.source)
    BY <1>1, StageSets DEF Task
  <2>2. client' = [client EXCEPT ![c] = new]
    BY <1>4
  <2> HIDE DEF new
  <2>3. Alone(c) /\ client'[c] = new
    BY <2>1, <2>2, Becomes
  <2>4. Fit(c)'
    BY <2>1, <2>3 DEF Fit, At
  <2>5. StoreOK'
    BY <1>1, <1>4, EnteringStore
  <2> HIDE DEF p
  <2> QED
    BY <1>1, <1>4, <2>1, <2>3, <2>4, <2>5, EnterStep
<1> QED
  BY <1>2, <1>3, <1>4 DEF Look

LEMMA UninstallStep ==
    ASSUME IInv, NEW c \in Clients, Uninstall(c)
    PROVE  IInv'
<1>1. PICK id \in DOMAIN FolderOf, f \in DOMAIN Families :
          LET p == PlaceOf(Families[f], id) IN
          /\ At(c, "idle") /\ ops < MaxOps
          /\ ops' = ops + 1
          /\ client' = [client EXCEPT ![c] = [Idle EXCEPT !.stage = "remove", !.place = p,
                                                          !.todo = Present(p)]]
          /\ Enters(c, p)
          /\ UNCHANGED <<store, found, scans, faults>>
  BY DEF Uninstall
<1> DEFINE p == PlaceOf(Families[f], id)
           new == [Idle EXCEPT !.stage = "remove", !.place = p, !.todo = Present(p)]
<1>2. p \in Places
  BY PlaceType DEF Range
<1>3. new \in Task /\ new.stage = "remove" /\ new.place = p
  BY <1>2, IdleType, StageSets DEF Idle, Task, Present, Parts
<1>4. client' = [client EXCEPT ![c] = new] /\ Enters(c, p) /\ UNCHANGED <<store, found>>
  BY <1>1
<1>5. client[c].stage \notin Working
  BY <1>1, StageSets DEF At
<1>6. StoreOK'
  <2>1. ops' \in 0..MaxOps
    BY <1>1, Fitting, StoreAssumption DEF StoreOK
  <2> QED
    BY <1>1, <1>2, <2>1, EnteringStore
<1> HIDE DEF p, new
<1>7. Alone(c) /\ client'[c] = new
  BY <1>3, <1>4, Becomes
<1>8. Fit(c)' /\ client'[c].stage \in Removing
  BY <1>3, <1>7, StageSets DEF Fit, At, Installing
<1> QED
  BY <1>2, <1>3, <1>4, <1>5, <1>6, <1>7, <1>8, EnterStep

----
(* Commands at work on a directory *)

LEMMA AtWork ==
    ASSUME IInv, NEW c \in Clients, client[c].stage \in Working
    PROVE  /\ client[c] \in Task
           /\ client[c].place \in Places
           /\ client[c].source \in Sources
           /\ Holds(c, client[c].place)
           /\ client[c].place \notin crossed => Sound(client[c])
<1>1. client[c] \in Task
  BY Fitting DEF Fit
<1>2. client[c].place \in Places /\ client[c].source \in Sources
  BY <1>1 DEF Task
<1> QED
  BY <1>1, <1>2 DEF Holds, IInv, WorkInv

(* A directory that is not there, and one that is signed by nobody *)
LEMMA Empty ==
    ASSUME IInv, NEW p \in Places, Present(p) = {}
    PROVE  /\ \A part \in Parts \ {"metadata"} : files[p][part] = 0
           /\ metadata[p] = NoMetadata
BY DEF Present, Parts, Copied

LEMMA FileWritten ==
    ASSUME IInv, NEW p \in Places, NEW part \in Parts \ {"metadata"},
           NEW v \in {0} \cup Sources, files' = [files EXCEPT ![p][part] = v]
    PROVE  /\ files' \in [Places -> [Parts \ {"metadata"} -> {0} \cup Sources]]
           /\ files'[p][part] = v
           /\ \A other \in Parts \ {"metadata", part} : files'[p][other] = files[p][other]
           /\ \A q \in Places \ {p} : files'[q] = files[q]
BY Fitting DEF StoreOK

LEMMA MetadataWritten ==
    ASSUME IInv, NEW p \in Places, NEW m \in Metadata, metadata' = [metadata EXCEPT ![p] = m]
    PROVE  /\ metadata' \in [Places -> Metadata]
           /\ metadata'[p] = m
           /\ \A q \in Places \ {p} : metadata'[q] = metadata[q]
BY Fitting DEF StoreOK

(* A command ends, and leaves the directory as it is *)
LEMMA LeaveStep ==
    ASSUME IInv, NEW c \in Clients, NEW p \in Places, Holds(c, p), Ends(c),
           UNCHANGED <<store, ops, reading, crossed>>, faults' \in 0..MaxFaults,
           torn' \in {torn, torn \cup {p}},
           client[c].stage \in Removing => p \in torn'
    PROVE  IInv'
<1>1. UNCHANGED <<made, files, metadata, ops, loader, found, scans, crossed>>
  BY DEF store, reading
<1>3. Alone(c) /\ client'[c] = Idle
  BY Becomes, IdleType DEF Ends
<1>4. client'[c].stage = "idle" /\ client'[c].todo = {} /\ client'[c] \in Task
  BY <1>3, IdleType DEF Idle
<1>5. Fit(c)' /\ client'[c].stage \notin Working
  BY <1>4, StageSets DEF Fit, At, Installing
<1>6. torn' \subseteq Places
  BY Fitting DEF StoreOK
<1>7. StoreOK'
  BY <1>1, <1>6, Fitting DEF StoreOK, Present
<1>8. Elsewhere(p)
  BY <1>1 DEF Elsewhere
<1>9. (Listed(p)' <=> Listed(p)) /\ (One(p)' <=> One(p)) /\ (Whole(p)' <=> Whole(p))
  BY <1>1 DEF Listed, One, Whole
<1>10. Cut(p) => Cut(p)'
  <2>1. CASE p \in torn \cup crossed
    BY <2>1, <1>1 DEF Cut
  <2>2. ASSUME NEW d \in Clients, Holds(d, p), client[d].stage \in Removing
        PROVE  Cut(p)'
    <3>1. CASE d = c
      BY <2>2, <3>1 DEF Cut
    <3>2. CASE d # c
      <4>1. client'[d] = client[d]
        BY <1>3, <3>2 DEF Alone
      <4> QED
        BY <2>2, <4>1 DEF Cut, Holds
    <3> QED
      BY <3>1, <3>2
  <2> QED
    BY <2>1, <2>2 DEF Cut
<1>11. /\ Listed(p)' => metadata'[p].from \in Sources
       /\ Listed(p)' /\ ~Cut(p)' => Whole(p)'
       /\ p \notin crossed' => One(p)'
  BY <1>1, <1>9, <1>10 DEF IInv, FromInv, ListedIsWhole, Whole, OneInv
<1> QED
  BY <1>1, <1>3, <1>5, <1>7, <1>8, <1>11, WorkStep DEF reading

(* A command builds its directory: while it is alone, nothing is signed *)
LEMMA BuildStep ==
    ASSUME IInv, NEW c \in Clients, NEW p \in Places, Holds(c, p),
           Alone(c), StoreOK', Fit(c)', Holds(c, p)',
           Elsewhere(p), UNCHANGED <<reading, torn, crossed>>,
           p \notin crossed =>
               Sound(client[c])' /\ One(p)' /\ metadata'[p].deps \in {"absent", "blank"},
           metadata' = metadata \/ metadata'[p].deps \in {"absent", "blank"}
    PROVE  IInv'
<1>1. Listed(p)' => metadata'[p].from \in Sources
  BY DEF Listed, IInv, FromInv
<1>2. p \notin crossed' => ~Listed(p)' /\ One(p)' /\ Sound(client[c])'
  BY DEF Listed
<1>3. p \in crossed' => Cut(p)'
  BY DEF Cut
<1>4. client'[c].stage \in Working => client'[c].place = p
  BY DEF Holds
<1> QED
  BY <1>1, <1>2, <1>3, <1>4, WorkStep

LEMMA UnlinkStep ==
    ASSUME IInv, NEW c \in Clients, Unlink(c)
    PROVE  IInv'
<1>1. client[c].stage \in Removing /\ client[c].stage \in Working /\ client[c] \in Task
  BY StageSets, Fitting DEF Unlink, Fit
<1>2. PICK p \in Places : p = client[c].place /\ Holds(c, p)
  BY <1>1, AtWork
<1>3. PICK part \in client[c].todo :
          \/ /\ Ends(c)
             /\ torn' = torn \cup {p}
             /\ UNCHANGED store
          \/ /\ client' = [client EXCEPT ![c].todo = @ \ {part}]
             /\ files' = IF part = "metadata" THEN files ELSE [files EXCEPT ![p][part] = 0]
             /\ metadata' = IF part = "metadata" THEN [metadata EXCEPT ![p] = NoMetadata]
                            ELSE metadata
             /\ UNCHANGED <<made, torn>>
  BY <1>2 DEF Unlink
<1>4. /\ UNCHANGED <<ops, reading, faults, crossed>>
      /\ part \in Parts
  BY <1>1 DEF Unlink, Task
<1>5. CASE Ends(c) /\ torn' = torn \cup {p} /\ UNCHANGED store
  <2>1. faults' \in 0..MaxFaults
    BY <1>4, Fitting DEF StoreOK
  <2> QED
    BY <1>2, <1>4, <1>5, <2>1, LeaveStep
<1>6. CASE /\ client' = [client EXCEPT ![c].todo = @ \ {part}]
           /\ files' = IF part = "metadata" THEN files ELSE [files EXCEPT ![p][part] = 0]
           /\ metadata' = IF part = "metadata" THEN [metadata EXCEPT ![p] = NoMetadata]
                          ELSE metadata
           /\ UNCHANGED <<made, torn>>
  <2> DEFINE new == [client[c] EXCEPT !.todo = @ \ {part}]
  <2>1. /\ new \in Task /\ new.stage = client[c].stage /\ new.place = p
        /\ new.source = client[c].source
    BY <1>1, <1>2 DEF Task
  <2>2. client' = [client EXCEPT ![c] = new]
    BY <1>6
  <2> HIDE DEF new
  <2>3. Alone(c) /\ client'[c] = new
    BY <2>1, <2>2, Becomes
  <2>4. Fit(c)'
    <3>1. client[c].stage \in Installing => p = Target(client[c].source)
      BY <1>2, Fitting DEF Fit
    <3> QED
      BY <1>1, <2>1, <2>3, <3>1, StageSets DEF Fit, At
  <2>5. /\ files' \in [Places -> [Parts \ {"metadata"} -> {0} \cup Sources]]
        /\ \A other \in Parts \ {"metadata"} : files'[p][other] \in {0, files[p][other]}
        /\ \A q \in Places \ {p} : files'[q] = files[q]
    BY <1>4, <1>6, FileWritten, Fitting DEF StoreOK
  <2>6. /\ metadata' \in [Places -> Metadata]
        /\ metadata'[p] \in {NoMetadata, metadata[p]}
        /\ \A q \in Places \ {p} : metadata'[q] = metadata[q]
    <3>1. NoMetadata \in Metadata
      BY DEF NoMetadata, Metadata
    <3> QED
      BY <1>6, <3>1, MetadataWritten, Fitting DEF StoreOK
  <2>7. \A q \in Places \ made' : Present(q)' = {}
    <3> SUFFICES ASSUME NEW q \in Places \ made
                 PROVE  Present(q)' = {}
      BY <1>6
    <3>1. Present(q) = {}
      BY Fitting DEF StoreOK
    <3>2. (\A other \in Parts \ {"metadata"} : files'[q][other] = 0) /\ metadata'[q] = NoMetadata
      BY <2>5, <2>6, <3>1, Empty
    <3> QED
      BY <3>2 DEF Present
  <2>8. StoreOK'
    BY <1>4, <1>6, <2>5, <2>6, <2>7, Fitting DEF StoreOK, reading
  <2>9. Elsewhere(p)
    BY <1>4, <1>6, <2>5, <2>6 DEF Elsewhere
  <2>10. Cut(p)' /\ Sound(client[c])'
    BY <1>1, <2>1, <2>3, StageSets DEF Cut, Holds, Sound, Signing
  <2>11. Listed(p)' => metadata'[p].from \in Sources
    BY <2>6 DEF Listed, NoMetadata, IInv, FromInv
  <2>12. p \notin crossed' => One(p)'
    BY <1>4, <2>5 DEF IInv, OneInv, One, Parts, Copied
  <2> QED
    BY <1>2, <1>4, <2>1, <2>3, <2>4, <2>8, <2>9, <2>10, <2>11, <2>12, WorkStep
<1> QED
  BY <1>3, <1>5, <1>6

LEMMA RemoveDirectoryStep ==
    ASSUME IInv, NEW c \in Clients, RemoveDirectory(c)
    PROVE  IInv'
<1>1. /\ client[c].stage \in Removing /\ client[c].stage \in Working /\ client[c] \in Task
      /\ client[c].todo = {}
      /\ UNCHANGED <<files, metadata, ops, reading, faults>>
  BY StageSets, Fitting DEF RemoveDirectory, Fit
<1>2. PICK p \in Places : p = client[c].place /\ Holds(c, p)
  BY <1>1, AtWork
<1>3. CASE Ends(c) /\ torn' = torn \cup {p} /\ UNCHANGED <<made, crossed>>
  <2>1. faults' \in 0..MaxFaults
    BY <1>1, Fitting DEF StoreOK
  <2> QED
    BY <1>1, <1>2, <1>3, <2>1, LeaveStep DEF store
<1>4. CASE /\ Present(p) = {}
           /\ made' = made \ {p}
           /\ AfterRemoval(c)
           /\ torn' = torn \ {p}
           /\ crossed' = IF Others(c, p) THEN crossed ELSE crossed \ {p}
  <2> DEFINE new == IF At(c, "clear") THEN [client[c] EXCEPT !.stage = "make"] ELSE Idle
  <2>1. /\ new \in Task /\ new.todo = {}
        /\ At(c, "clear") => new.stage = "make" /\ new.place = p /\ new.source = client[c].source
        /\ ~At(c, "clear") => new.stage = "idle"
    <3>1. CASE At(c, "clear")
      BY <1>1, <1>2, <3>1, StageSets DEF Task
    <3>2. CASE ~At(c, "clear")
      BY <3>2, IdleType DEF Idle
    <3> QED
      BY <3>1, <3>2
  <2>2. client' = [client EXCEPT ![c] = new]
    BY <1>4 DEF AfterRemoval, To, Ends
  <2> HIDE DEF new
  <2>3. Alone(c) /\ client'[c] = new
    BY <2>1, <2>2, Becomes
  <2>4. Fit(c)'
    <3>1. At(c, "clear") => p = Target(client[c].source)
      BY <1>2, Fitting DEF Fit, At, Installing
    <3> QED
      BY <2>1, <2>3, <3>1 DEF Fit, At, Installing
  <2>5. /\ \A part \in Parts \ {"metadata"} : files'[p][part] = 0
        /\ metadata'[p] = NoMetadata
        /\ Present(p)' = {}
    BY <1>1, <1>4, Empty DEF Present
  <2>6. StoreOK'
    <3>1. made' \subseteq Places /\ torn' \subseteq Places /\ crossed' \subseteq Places
      BY <1>4, Fitting DEF StoreOK
    <3>2. \A q \in Places \ made' : Present(q)' = {}
      BY <1>1, <1>4, <2>5, Fitting DEF StoreOK, Present
    <3> QED
      BY <1>1, <3>1, <3>2, Fitting DEF StoreOK, reading
  <2>7. Elsewhere(p)
    BY <1>1, <1>4 DEF Elsewhere
  <2>8. client'[c].stage \in Working => client'[c].place = p /\ Sound(client[c])'
    BY <1>4, <2>1, <2>3, StageSets DEF Sound, Signing
  <2>9. ~Listed(p)' /\ One(p)'
    BY <2>5 DEF Listed, NoMetadata, One, Parts, Copied
  <2>10. /\ p \in crossed => p \in crossed' \/ (p \notin made' /\ ~Others(c, p))
         /\ p \in crossed' => p \in crossed
    BY <1>4
  <2> QED
    BY <1>1, <1>2, <2>3, <2>4, <2>6, <2>7, <2>8, <2>9, <2>10, WorkStep
<1> QED
  BY <1>2, <1>3, <1>4 DEF RemoveDirectory

LEMMA MakeStep ==
    ASSUME IInv, NEW c \in Clients, Make(c)
    PROVE  IInv'
<1>1. /\ client[c].stage = "make" /\ client[c].stage \in Working /\ client[c] \in Task
      /\ UNCHANGED <<files, metadata, ops, reading, faults, torn, crossed>>
  BY StageSets, Fitting DEF Make, At, Fit
<1>2. PICK p \in Places : p = client[c].place /\ Holds(c, p)
  BY <1>1, AtWork
<1>3. CASE Ends(c) /\ UNCHANGED made
  <2>1. faults' \in 0..MaxFaults
    BY <1>1, Fitting DEF StoreOK
  <2> QED
    BY <1>1, <1>2, <1>3, <2>1, LeaveStep, StageSets DEF store
<1>4. CASE /\ p \notin made
           /\ made' = made \cup {p}
           /\ client' = [client EXCEPT ![c].stage = "copy", ![c].todo = Copied]
  <2> DEFINE new == [client[c] EXCEPT !.stage = "copy", !.todo = Copied]
  <2>1. /\ new \in Task /\ new.stage = "copy" /\ new.place = p /\ new.todo = Copied
        /\ new.source = client[c].source
    BY <1>1, <1>2, StageSets DEF Task, Parts
  <2>2. client' = [client EXCEPT ![c] = new]
    BY <1>4
  <2> HIDE DEF new
  <2>3. Alone(c) /\ client'[c] = new
    BY <2>1, <2>2, Becomes
  <2>4. Fit(c)'
    <3>1. p = Target(client[c].source)
      BY <1>1, <1>2, Fitting DEF Fit, Installing
    <3> QED
      BY <2>1, <2>3, <3>1 DEF Fit, At
  <2>5. /\ \A part \in Parts \ {"metadata"} : files[p][part] = 0
        /\ metadata[p] = NoMetadata
    BY <1>4, Empty, Fitting DEF StoreOK
  <2>6. StoreOK'
    BY <1>1, <1>4, Fitting DEF StoreOK, reading, Present
  <2>7. Elsewhere(p)
    BY <1>1, <1>4 DEF Elsewhere
  <2>8. Sound(client[c])' /\ One(p)' /\ metadata'[p].deps = "absent"
    BY <1>1, <2>1, <2>3, <2>5
    DEF Sound, Signing, One, NoMetadata, Parts, Copied
  <2>9. Holds(c, p)'
    BY <2>1, <2>3, StageSets DEF Holds
  <2> QED
    BY <1>1, <1>2, <2>3, <2>4, <2>6, <2>7, <2>8, <2>9, BuildStep
<1> QED
  BY <1>2, <1>3, <1>4 DEF Make

(* A written file changes what is there only in a directory that is there *)
LEMMA FileStore ==
    ASSUME IInv, NEW p \in Places, NEW part \in Parts \ {"metadata"}, NEW s \in Sources,
           files' = [files EXCEPT ![p][part] = s],
           p \in made, UNCHANGED <<made, metadata, ops, scans, torn, crossed>>,
           faults' \in 0..MaxFaults
    PROVE  StoreOK' /\ Elsewhere(p)
<1>1. /\ files' \in [Places -> [Parts \ {"metadata"} -> {0} \cup Sources]]
      /\ \A q \in Places \ {p} : files'[q] = files[q]
  BY FileWritten
<1>2. \A q \in Places \ made : Present(q)' = {}
  BY <1>1, Fitting DEF StoreOK, Present
<1> QED
  BY <1>1, <1>2, Fitting DEF StoreOK, Elsewhere

LEMMA CopyStep ==
    ASSUME IInv, NEW c \in Clients, Copy(c)
    PROVE  IInv'
<1>1. /\ client[c].stage = "copy" /\ client[c].stage \in Working /\ client[c] \in Task
      /\ client[c].todo \subseteq Copied
      /\ UNCHANGED <<made, metadata, ops, reading, torn, crossed>>
  BY StageSets, Fitting DEF Copy, At, Fit
<1>2. PICK p \in Places :
          /\ p = client[c].place /\ Holds(c, p)
          /\ p \notin crossed => Sound(client[c])
  BY <1>1, AtWork
<1>3. PICK part \in client[c].todo :
          \/ /\ p \in made
             /\ files' = [files EXCEPT ![p][part] = client[c].source]
             /\ client' = [client EXCEPT ![c].todo = @ \ {part}]
             /\ UNCHANGED faults
          \/ /\ p \notin made \/ faults < MaxFaults
             /\ faults' = IF p \in made THEN faults + 1 ELSE faults
             /\ client' = [client EXCEPT ![c].todo = @ \ {part}, ![c].failed = TRUE]
             /\ UNCHANGED files
  BY <1>2 DEF Copy
<1>4. part \in Copied /\ part \in Parts \ {"metadata"} /\ client[c].source \in Sources
  BY <1>1, AtWork DEF Parts, Copied
<1>5. p = Target(client[c].source)
  BY <1>1, <1>2, Fitting DEF Fit, Installing
<1>6. CASE /\ p \in made
           /\ files' = [files EXCEPT ![p][part] = client[c].source]
           /\ client' = [client EXCEPT ![c].todo = @ \ {part}]
           /\ UNCHANGED faults
  <2> DEFINE new == [client[c] EXCEPT !.todo = @ \ {part}]
  <2>1. /\ new \in Task /\ new.stage = "copy" /\ new.place = p
        /\ new.todo = client[c].todo \ {part}
        /\ new.source = client[c].source /\ new.failed = client[c].failed
    BY <1>1, <1>2 DEF Task
  <2>2. client' = [client EXCEPT ![c] = new]
    BY <1>6
  <2> HIDE DEF new
  <2>3. Alone(c) /\ client'[c] = new
    BY <2>1, <2>2, Becomes
  <2>4. Fit(c)' /\ Holds(c, p)'
    BY <1>1, <1>5, <2>1, <2>3, StageSets DEF Fit, At, Holds
  <2>5. StoreOK' /\ Elsewhere(p)
    BY <1>1, <1>4, <1>6, FileStore, Fitting DEF StoreOK, reading
  <2>6. /\ files'[p][part] = client[c].source
        /\ \A other \in Parts \ {"metadata", part} : files'[p][other] = files[p][other]
    <3>1. files \in [Places -> [Parts \ {"metadata"} -> {0} \cup Sources]]
      BY Fitting DEF StoreOK
    <3>2. files'[p] = [files[p] EXCEPT ![part] = client[c].source]
      BY <1>6, <3>1
    <3>3. files[p] \in [Parts \ {"metadata"} -> {0} \cup Sources]
      BY <3>1
    <3> QED
      BY <1>4, <3>2, <3>3
  <2>7. ASSUME p \notin crossed
        PROVE  /\ Sound(client[c])' /\ One(p)'
               /\ metadata'[p].deps = "absent"
    <3>1. /\ metadata[p] = NoMetadata
          /\ \A other \in Copied :
                 /\ files[p][other] \in {0, client[c].source}
                 /\ ~client[c].failed /\ other \notin client[c].todo
                        => files[p][other] = client[c].source
      BY <1>1, <1>2, <2>7 DEF Sound
    <3>2. \A other \in Copied :
              /\ files'[p][other] \in {0, client[c].source}
              /\ ~new.failed /\ other \notin new.todo => files'[p][other] = client[c].source
      BY <1>4, <2>1, <2>6, <3>1 DEF Parts, Copied
    <3> QED
      BY <1>1, <2>1, <2>3, <3>1, <3>2 DEF Sound, Signing, One, NoMetadata, Copied
  <2> QED
    BY <1>1, <1>2, <2>3, <2>4, <2>5, <2>7, BuildStep
<1>7. CASE /\ p \notin made \/ faults < MaxFaults
           /\ faults' = IF p \in made THEN faults + 1 ELSE faults
           /\ client' = [client EXCEPT ![c].todo = @ \ {part}, ![c].failed = TRUE]
           /\ UNCHANGED files
  <2> DEFINE new == [client[c] EXCEPT !.todo = @ \ {part}, !.failed = TRUE]
  <2>1. /\ new \in Task /\ new.stage = "copy" /\ new.place = p
        /\ new.todo = client[c].todo \ {part}
        /\ new.source = client[c].source /\ new.failed = TRUE
    BY <1>1, <1>2 DEF Task
  <2>2. client' = [client EXCEPT ![c] = new]
    BY <1>7
  <2> HIDE DEF new
  <2>3. Alone(c) /\ client'[c] = new
    BY <2>1, <2>2, Becomes
  <2>4. Fit(c)' /\ Holds(c, p)'
    BY <1>1, <1>5, <2>1, <2>3, StageSets DEF Fit, At, Holds
  <2>5. faults' \in 0..MaxFaults
    BY <1>7, Fitting, StoreAssumption DEF StoreOK
  <2>6. StoreOK' /\ Elsewhere(p)
    BY <1>1, <1>7, <2>5, Fitting DEF StoreOK, reading, Present, Elsewhere
  <2>7. ASSUME p \notin crossed
        PROVE  /\ Sound(client[c])' /\ One(p)'
               /\ metadata'[p].deps = "absent"
    <3>1. /\ metadata[p] = NoMetadata
          /\ \A other \in Copied : files[p][other] \in {0, client[c].source}
      BY <1>1, <1>2, <2>7 DEF Sound
    <3>2. One(p)'
      BY <1>7, <2>7 DEF IInv, OneInv, One
    <3>3. Sound(client[c])'
      BY <1>1, <1>7, <2>1, <2>3, <3>1 DEF Sound, Signing
    <3> QED
      BY <1>1, <3>1, <3>2, <3>3 DEF NoMetadata
  <2> QED
    BY <1>1, <1>2, <2>3, <2>4, <2>6, <2>7, BuildStep
<1> QED
  BY <1>3, <1>6, <1>7

(* A command that gives up begins to remove its directory *)
LEMMA DropStep ==
    ASSUME IInv, NEW c \in Clients, NEW p \in Places, Holds(c, p), p = client[c].place,
           client[c].stage \in {"copy", "pip"},
           client' = [client EXCEPT ![c].stage = "drop", ![c].todo = Present(p)],
           UNCHANGED <<store, ops, reading, faults, torn, crossed>>
    PROVE  IInv'
<1> DEFINE new == [client[c] EXCEPT !.stage = "drop", !.todo = Present(p)]
<1>1. client[c] \in Task /\ Present(p) \subseteq Parts
  BY Fitting DEF Fit, Present, Parts
<1>2. new \in Task /\ new.stage = "drop" /\ new.place = p
  BY <1>1, StageSets DEF Task
<1>3. client' = [client EXCEPT ![c] = new]
  OBVIOUS
<1> HIDE DEF new
<1>4. Alone(c) /\ client'[c] = new
  BY <1>2, <1>3, Becomes
<1>5. client'[c] \in Task /\ client'[c].stage = "drop" /\ client'[c].place = p
  BY <1>2, <1>4
<1>8. Holds(c, p)'
  BY <1>5, StageSets DEF Holds
<1>9. Fit(c)'
  <2>1. client'[c].stage # "copy" /\ client'[c].stage \in Removing \cup {"copy"}
    BY <1>5, StageSets
  <2>2. client'[c].stage \notin Installing
    BY <1>5 DEF Installing
  <2> QED
    BY <1>5, <2>1, <2>2, Zenon DEF Fit, At
<1>6. /\ StoreOK' /\ Elsewhere(p)
      /\ UNCHANGED <<files, metadata, made, torn, crossed>>
  BY Fitting DEF StoreOK, store, reading, Present, Elsewhere
<1>7. p \notin crossed =>
          Sound(client[c])' /\ One(p)' /\ metadata'[p].deps \in {"absent", "blank"}
  <2>1. Sound(client[c])'
    BY <1>2, <1>4 DEF Sound, Signing
  <2>2. p \notin crossed => One(p)'
    BY <1>6 DEF IInv, OneInv, One
  <2>3. p \notin crossed => Sound(client[c])
    BY StageSets, AtWork
  <2>4. p \notin crossed => metadata[p] = NoMetadata
    BY <2>3 DEF Sound
  <2> QED
    BY <1>6, <2>1, <2>2, <2>4 DEF NoMetadata
<1> QED
  BY <1>4, <1>6, <1>7, <1>8, <1>9, BuildStep

LEMMA CopiedAllStep ==
    ASSUME IInv, NEW c \in Clients, CopiedAll(c)
    PROVE  IInv'
<1>1. /\ client[c].stage = "copy" /\ client[c].stage \in Working /\ client[c] \in Task
      /\ client[c].todo = {}
      /\ UNCHANGED <<store, ops, reading, faults, torn, crossed>>
  BY StageSets, Fitting DEF CopiedAll, At, Fit
<1>2. PICK p \in Places :
          /\ p = client[c].place /\ Holds(c, p)
          /\ p \notin crossed => Sound(client[c])
  BY <1>1, AtWork
<1>3. p = Target(client[c].source)
  BY <1>1, <1>2, Fitting DEF Fit, Installing
<1>4. /\ StoreOK' /\ Elsewhere(p)
      /\ UNCHANGED <<files, metadata, made, torn, crossed>>
  BY <1>1, Fitting DEF StoreOK, store, reading, Present, Elsewhere
<1>5. CASE Ends(c)
  <2>1. faults' \in 0..MaxFaults
    BY <1>1, Fitting DEF StoreOK
  <2> QED
    BY <1>1, <1>2, <1>5, <2>1, StageSets, LeaveStep
<1>6. ASSUME NEW stage \in {"sign", "venv"}, ~client[c].failed,
             stage = "sign" => ~(client[c].deps /\ Repositories[client[c].source].needs = "some"),
             To(c, stage)
      PROVE  IInv'
  <2> DEFINE new == [client[c] EXCEPT !.stage = stage]
  <2>1. /\ new \in Task /\ new.stage = stage /\ new.place = p /\ new.todo = {}
        /\ new.source = client[c].source /\ new.deps = client[c].deps
    BY <1>1, <1>2, StageSets DEF Task
  <2>2. client' = [client EXCEPT ![c] = new]
    BY <1>6 DEF To
  <2> HIDE DEF new
  <2>3. Alone(c) /\ client'[c] = new
    BY <2>1, <2>2, Becomes
  <2>4. Fit(c)' /\ Holds(c, p)'
    BY <1>3, <2>1, <2>3, StageSets DEF Fit, At, Holds
  <2>5. ASSUME p \notin crossed
        PROVE  /\ Sound(client[c])' /\ One(p)'
               /\ metadata'[p].deps = "absent"
    <3>1. /\ metadata[p] = NoMetadata
          /\ \A part \in Copied : files[p][part] = client[c].source
      BY <1>1, <1>2, <1>6, <2>5 DEF Sound
    <3>2. One(p)'
      BY <1>4, <2>5 DEF IInv, OneInv, One
    <3>3. Sound(client[c])'
      BY <1>4, <1>6, <2>1, <2>3, <3>1 DEF Sound, Signing
    <3> QED
      BY <1>4, <3>1, <3>2, <3>3 DEF NoMetadata
  <2> QED
    BY <1>1, <1>2, <1>4, <2>3, <2>4, <2>5, BuildStep
<1>7. CASE client' = [client EXCEPT ![c].stage = "drop", ![c].todo = Present(p)]
  BY <1>1, <1>2, <1>4, <1>7, DropStep
<1> QED
  BY <1>1, <1>2, <1>5, <1>6, <1>7 DEF CopiedAll

(* The environment and the packages are files too *)
LEMMA EnvironmentStep ==
    ASSUME IInv, NEW c \in Clients, NEW p \in Places, Holds(c, p), p = client[c].place,
           NEW part \in {"venv", "packages"}, NEW stage \in {"pip", "sign"},
           client[c].stage \in {"venv", "pip"}, p \in made,
           stage = "sign" => part = "packages",
           files' = [files EXCEPT ![p][part] = client[c].source], To(c, stage),
           UNCHANGED <<made, metadata, ops, reading, faults, torn, crossed>>
    PROVE  IInv'
<1> DEFINE new == [client[c] EXCEPT !.stage = stage]
<1>1. /\ client[c] \in Task /\ client[c].todo = {} /\ p = Target(client[c].source)
      /\ client[c].source \in Sources
  BY StageSets, AtWork, Fitting DEF Fit, Installing
<1>2. /\ new \in Task /\ new.stage = stage /\ new.place = p /\ new.todo = {}
      /\ new.source = client[c].source
  BY <1>1, StageSets DEF Task
<1>3. client' = [client EXCEPT ![c] = new]
  BY DEF To
<1> HIDE DEF new
<1>4. Alone(c) /\ client'[c] = new
  BY <1>2, <1>3, Becomes
<1>5. Fit(c)' /\ Holds(c, p)'
  BY <1>1, <1>2, <1>4, StageSets DEF Fit, At, Holds
<1>6. part \in Parts \ {"metadata"} /\ part \notin Copied
  BY DEF Parts, Copied
<1>7. StoreOK' /\ Elsewhere(p)
  BY <1>1, <1>6, FileStore, Fitting DEF StoreOK, reading
<1>8. /\ files'[p][part] = client[c].source
      /\ \A other \in Copied : files'[p][other] = files[p][other]
  <2>1. Copied \subseteq Parts \ {"metadata", part}
    BY <1>6 DEF Parts, Copied
  <2>2. /\ files'[p][part] = client[c].source
        /\ \A other \in Parts \ {"metadata", part} : files'[p][other] = files[p][other]
    <3>1. files \in [Places -> [Parts \ {"metadata"} -> {0} \cup Sources]]
      BY Fitting DEF StoreOK
    <3>2. files'[p] = [files[p] EXCEPT ![part] = client[c].source]
      BY <1>1, <3>1
    <3>3. files[p] \in [Parts \ {"metadata"} -> {0} \cup Sources]
      BY <3>1
    <3> QED
      BY <1>6, <3>2, <3>3
  <2> QED
    BY <2>1, <2>2
<1>9. ASSUME p \notin crossed
      PROVE  Sound(client[c])' /\ One(p)' /\ metadata'[p].deps = "absent"
  <2>1. /\ metadata[p] = NoMetadata
        /\ \A other \in Copied : files[p][other] = client[c].source
    BY <1>9, StageSets, AtWork DEF Sound, Signing
  <2>2. One(p)'
    BY <1>8, <2>1 DEF One, Copied
  <2>3. Sound(client[c])'
    BY <1>2, <1>4, <1>8, <2>1 DEF Sound, Signing
  <2> QED
    BY <2>1, <2>2, <2>3 DEF NoMetadata
<1> QED
  BY <1>4, <1>5, <1>7, <1>9, BuildStep

LEMMA MakeEnvironmentStep ==
    ASSUME IInv, NEW c \in Clients, MakeEnvironment(c)
    PROVE  IInv'
<1>1. /\ client[c].stage = "venv" /\ client[c].stage \in Working
      /\ UNCHANGED <<made, metadata, ops, reading, torn, crossed>>
  BY StageSets DEF MakeEnvironment, At
<1>2. PICK p \in Places : p = client[c].place /\ Holds(c, p)
  BY <1>1, AtWork
<1>3. CASE /\ p \in made
           /\ files' = [files EXCEPT ![p]["venv"] = client[c].source]
           /\ To(c, "pip")
           /\ UNCHANGED faults
  BY <1>1, <1>2, <1>3, EnvironmentStep
<1>4. CASE /\ p \notin made \/ faults < MaxFaults
           /\ faults' = IF p \in made THEN faults + 1 ELSE faults
           /\ Ends(c)
           /\ UNCHANGED files
  <2>1. faults' \in 0..MaxFaults
    BY <1>4, Fitting, StoreAssumption DEF StoreOK
  <2> QED
    BY <1>1, <1>2, <1>4, <2>1, StageSets, LeaveStep DEF store
<1> QED
  BY <1>2, <1>3, <1>4 DEF MakeEnvironment

LEMMA RunPipStep ==
    ASSUME IInv, NEW c \in Clients, RunPip(c)
    PROVE  IInv'
<1>1. /\ client[c].stage = "pip" /\ client[c].stage \in Working
      /\ UNCHANGED <<made, metadata, ops, reading, faults, torn, crossed>>
  BY StageSets DEF RunPip, At
<1>2. PICK p \in Places : p = client[c].place /\ Holds(c, p)
  BY <1>1, AtWork
<1>3. CASE /\ files[p]["venv"] # 0
           /\ files' = [files EXCEPT ![p]["packages"] = client[c].source]
           /\ To(c, "sign")
  <2>1. Present(p) # {}
    BY <1>3, Empty DEF Parts, Copied
  <2>2. p \in made
    BY <2>1, Fitting DEF StoreOK
  <2> QED
    BY <1>1, <1>2, <1>3, <2>2, EnvironmentStep
<1>4. CASE /\ client' = [client EXCEPT ![c].stage = "drop", ![c].todo = Present(p)]
           /\ UNCHANGED files
  BY <1>1, <1>2, <1>4, DropStep DEF store
<1> QED
  BY <1>2, <1>3, <1>4 DEF RunPip

LEMMA SignStep ==
    ASSUME IInv, NEW c \in Clients, Sign(c)
    PROVE  IInv'
<1>1. /\ client[c].stage = "sign" /\ client[c].stage \in Working
      /\ client[c] \in Task /\ client[c].todo = {}
      /\ UNCHANGED <<made, files, ops, reading, faults, torn, crossed>>
  BY StageSets, Fitting DEF Sign, At, Fit
<1>2. PICK p \in Places : p = client[c].place /\ Holds(c, p)
  BY <1>1, AtWork
<1>3. CASE Ends(c) /\ UNCHANGED metadata
  <2>1. faults' \in 0..MaxFaults
    BY <1>1, Fitting DEF StoreOK
  <2> QED
    BY <1>1, <1>2, <1>3, <2>1, StageSets, LeaveStep DEF store
<1>4. CASE /\ p \in made
           /\ metadata' = [metadata EXCEPT ![p] = [from |-> 0, deps |-> "blank"]]
           /\ To(c, "fill")
  <2> DEFINE new == [client[c] EXCEPT !.stage = "fill"]
             m == [from |-> 0, deps |-> "blank"]
  <2>1. p = Target(client[c].source)
    BY <1>1, <1>2, Fitting DEF Fit, Installing
  <2>2. /\ new \in Task /\ new.stage = "fill" /\ new.place = p /\ new.todo = {}
        /\ new.source = client[c].source /\ new.deps = client[c].deps
    BY <1>1, <1>2, StageSets DEF Task
  <2>3. client' = [client EXCEPT ![c] = new]
    BY <1>4 DEF To
  <2>4. m \in Metadata /\ m.deps = "blank"
    BY DEF Metadata
  <2>5. /\ metadata' \in [Places -> Metadata] /\ metadata'[p].deps = "blank"
        /\ \A q \in Places \ {p} : metadata'[q] = metadata[q]
    BY <1>4, <2>4, MetadataWritten
  <2> HIDE DEF new, m
  <2>6. Alone(c) /\ client'[c] = new
    BY <2>2, <2>3, Becomes
  <2>7. Fit(c)' /\ Holds(c, p)'
    BY <2>1, <2>2, <2>6, StageSets DEF Fit, At, Holds
  <2>8. StoreOK' /\ Elsewhere(p)
    BY <1>1, <1>4, <2>5, Fitting DEF StoreOK, Present, reading, Elsewhere
  <2>9. ASSUME p \notin crossed
        PROVE  Sound(client[c])' /\ One(p)'
    <3>1. /\ \A part \in Copied : files[p][part] = client[c].source
          /\ client[c].deps /\ Repositories[client[c].source].needs = "some"
                 => files[p]["packages"] = client[c].source
      BY <1>1, <1>2, <2>9, AtWork DEF Sound, Signing
    <3>2. One(p)'
      BY <1>1, <2>9 DEF IInv, OneInv, One
    <3>3. Sound(client[c])'
      BY <1>1, <2>2, <2>5, <2>6, <3>1 DEF Sound, Signing, Listed
    <3> QED
      BY <3>2, <3>3
  <2> QED
    BY <1>1, <1>2, <2>5, <2>6, <2>7, <2>8, <2>9, BuildStep
<1> QED
  BY <1>2, <1>3, <1>4 DEF Sign

LEMMA FillStep ==
    ASSUME IInv, NEW c \in Clients, Fill(c)
    PROVE  IInv'
<1>1. /\ client[c].stage = "fill" /\ client[c].stage \in Working /\ Ends(c)
      /\ client[c].source \in Sources
      /\ UNCHANGED <<made, files, ops, reading, faults, torn, crossed>>
  BY StageSets, AtWork DEF Fill, At
<1>2. PICK p \in Places :
          /\ p = client[c].place /\ Holds(c, p)
          /\ p \notin crossed => Sound(client[c])
  BY <1>1, AtWork
<1> DEFINE m == [from |-> client[c].source, deps |-> Dependencies(c)]
<1>3. /\ p = Target(client[c].source)
      /\ m \in Metadata /\ m.from = client[c].source
      /\ m.deps = "installed"
             => client[c].deps /\ Repositories[client[c].source].needs = "some"
  BY <1>1, <1>2, Fitting DEF Fit, Installing, Metadata, Dependencies
<1>4. \/ metadata' = metadata /\ metadata[p] = NoMetadata
      \/ metadata[p] # NoMetadata /\ metadata' = [metadata EXCEPT ![p] = m]
  BY <1>2 DEF Fill
<1> HIDE DEF m
<1>5. /\ metadata' \in [Places -> Metadata]
      /\ \/ metadata'[p] = NoMetadata
         \/ metadata'[p] = m /\ metadata[p] # NoMetadata
      /\ \A q \in Places \ {p} : metadata'[q] = metadata[q]
  BY <1>3, <1>4, MetadataWritten, Fitting DEF StoreOK
<1>6. Alone(c) /\ client'[c] = Idle
  BY <1>1, Becomes, IdleType DEF Ends
<1>7. client'[c].stage = "idle" /\ client'[c].todo = {} /\ client'[c] \in Task
  BY <1>6, IdleType DEF Idle
<1>8. Fit(c)' /\ client'[c].stage \notin Working
  BY <1>7, StageSets DEF Fit, At, Installing
<1>9. \A q \in Places \ made : Present(q)' = {}
  <2> SUFFICES ASSUME NEW q \in Places \ made
               PROVE  Present(q)' = {}
    OBVIOUS
  <2>1. Present(q) = {}
    BY Fitting DEF StoreOK
  <2>2. metadata[q] = NoMetadata /\ metadata'[q] = NoMetadata
    BY <1>5, <2>1, Empty
  <2> QED
    BY <1>1, <2>1, <2>2 DEF Present
<1>10. StoreOK' /\ Elsewhere(p)
  BY <1>1, <1>5, <1>9, Fitting DEF StoreOK, reading, Elsewhere
<1>11. Listed(p)' => metadata'[p] = m
  BY <1>5 DEF Listed, NoMetadata
<1>12. Listed(p)' => metadata'[p].from \in Sources
  BY <1>1, <1>3, <1>11
<1>13. p \notin crossed' => One(p)'
  BY <1>1 DEF IInv, OneInv, One
<1>14. Listed(p)' /\ ~Cut(p)' => Whole(p)'
  <2> SUFFICES ASSUME Listed(p)', p \notin crossed
               PROVE  Whole(p)'
    BY <1>1 DEF Cut
  <2>1. /\ \A part \in Copied : files[p][part] = client[c].source
        /\ m.deps = "installed" => files[p]["packages"] = client[c].source
    BY <1>1, <1>2, <1>3 DEF Sound, Signing
  <2> QED
    BY <1>1, <1>3, <1>11, <2>1 DEF Whole
<1> QED
  BY <1>1, <1>2, <1>6, <1>8, <1>10, <1>12, <1>13, <1>14, WorkStep

LEMMA DieStep ==
    ASSUME IInv, NEW c \in Clients, Die(c)
    PROVE  IInv'
<1>1. /\ Ends(c) /\ faults' \in 0..MaxFaults
      /\ UNCHANGED <<store, ops, reading, crossed>>
      /\ torn' = IF client[c].stage \in Removing THEN torn \cup {client[c].place} ELSE torn
  BY Fitting, StoreAssumption DEF Die, StoreOK
<1>2. CASE client[c].stage \in Working
  <2>1. PICK p \in Places : p = client[c].place /\ Holds(c, p)
    BY <1>2, AtWork
  <2> QED
    BY <1>1, <2>1, LeaveStep
<1>3. CASE client[c].stage \notin Working
  <2>1. Alone(c) /\ client'[c] = Idle
    BY <1>1, Becomes, IdleType DEF Ends
  <2>2. client'[c].stage = "idle" /\ client'[c].todo = {} /\ client'[c] \in Task
    BY <2>1, IdleType DEF Idle
  <2>3. Fit(c)' /\ client'[c].stage \notin Working
    BY <2>2, StageSets DEF Fit, At, Installing
  <2>4. UNCHANGED torn
    BY <1>1, <1>3, StageSets
  <2>5. StoreOK'
    BY <1>1, <2>4, Fitting DEF StoreOK, store, reading, Present
  <2> QED
    BY <1>1, <1>3, <2>1, <2>3, <2>4, <2>5, QuietStep
<1> QED
  BY <1>2, <1>3

----
(* The registry *)

LEMMA AtHere ==
    ASSUME IInv, loader.left # {}
    PROVE  Here \in Places /\ loader.family # "none"
BY FirstOf DEF IInv, PassInv, Pass, Here, Places

(* It begins, goes on to the next directory, or ends *)
LEMMA FreshPassStep ==
    ASSUME IInv, loader' \in Pass, loader'.stage = "look",
           loader'.family = "none" => loader'.left = {},
           UNCHANGED <<store, client, ops, faults, torn, crossed>>,
           scans' \in 0..MaxScans, LoadedIsOne'
    PROVE  IInv'
<1>1. PassInv'
  BY DEF PassInv
<1>2. ReadInv'
  BY DEF ReadInv
<1> QED
  BY <1>1, <1>2, RegistryStep

LEMMA SkipStep ==
    ASSUME IInv, loader.left # {}, Skip, LoadedIsOne',
           UNCHANGED <<store, client, ops, scans, faults, torn, crossed>>
    PROVE  IInv'
<1>1. /\ loader' \in Pass /\ loader'.stage = "look" /\ loader'.family = loader.family
      /\ loader'.left \subseteq loader.left
  BY DEF Skip, Asleep, IInv, PassInv, Pass
<1>2. scans' \in 0..MaxScans
  BY Fitting DEF StoreOK
<1> QED
  BY <1>1, <1>2, FreshPassStep DEF IInv, PassInv

LEMMA DiscoverStep ==
    ASSUME IInv, Discover
    PROVE  IInv'
<1>1. PICK family \in Range(Families) :
          /\ loader.family = "none" /\ scans < MaxScans
          /\ scans' = scans + 1
          /\ loader' = [Asleep EXCEPT !.family = family,
                            !.left = {name \in Range(FolderNames) : <<family, name>> \in made}]
          /\ found' = {}
          /\ UNCHANGED <<store, client, ops, faults, torn, crossed>>
  BY DEF Discover
<1>2. scans' \in 0..MaxScans
  BY <1>1, Fitting, StoreAssumption DEF StoreOK
<1>3. family # "none"
  BY DEF Range, Families
<1>4. LoadedIsOne'
  BY <1>1 DEF LoadedIsOne
<1>5. loader' \in Pass /\ loader'.stage = "look" /\ loader'.family = family
  BY <1>1 DEF Asleep, Pass
<1> QED
  BY <1>1, <1>2, <1>3, <1>4, <1>5, FreshPassStep

LEMMA DiscoveredStep ==
    ASSUME IInv, Discovered
    PROVE  IInv'
<1>1. /\ loader' \in Pass /\ loader'.stage = "look" /\ loader'.left = {}
      /\ UNCHANGED <<store, client, ops, found, scans, faults, torn, crossed>>
  BY DEF Discovered, Asleep, Pass
<1>2. scans' \in 0..MaxScans /\ LoadedIsOne'
  BY <1>1, Fitting DEF StoreOK, IInv, LoadedIsOne
<1> QED
  BY <1>1, <1>2, FreshPassStep

(* It reads on in the directory where it is *)
LEMMA ReadOnStep ==
    ASSUME IInv, loader.left # {}, loader' \in Pass,
           loader'.family = loader.family, loader'.left = loader.left,
           ~loader'.mixed => /\ ~Busy(Here)
                             /\ files[Here]["manifest"] = loader'.manifest
                             /\ loader'.manifest # 0
                             /\ loader'.stage = "code" => loader'.again = loader'.manifest,
           UNCHANGED <<store, client, ops, found, scans, faults, torn, crossed>>
    PROVE  IInv'
<1>1. PassInv'
  BY DEF IInv, PassInv
<1>2. scans' \in 0..MaxScans /\ LoadedIsOne'
  BY Fitting DEF StoreOK, IInv, LoadedIsOne
<1>3. Here' = Here
  BY DEF Here, First
<1>4. Busy(Here)' <=> Busy(Here)
  BY <1>3 DEF Busy, Holds
<1>5. ReadInv'
  BY <1>3, <1>4 DEF ReadInv, store
<1> QED
  BY <1>1, <1>2, <1>5, RegistryStep

LEMMA ReadingStep ==
    ASSUME IInv, ReadManifest \/ ReadText \/ ReadAgain
    PROVE  IInv'
<1>1. /\ loader.left # {} /\ loader \in Pass /\ Here \in Places
      /\ UNCHANGED <<store, client, ops, found, scans, faults, torn, crossed>>
  BY AtHere DEF ReadManifest, ReadText, ReadAgain, IInv, PassInv
<1>2. LoadedIsOne' /\ files[Here]["manifest"] \in {0} \cup Sources
  BY <1>1, Fitting DEF IInv, LoadedIsOne, StoreOK, Parts, Copied
<1>3. CASE Skip
  BY <1>1, <1>2, <1>3, SkipStep
<1>4. CASE /\ files[Here]["manifest"] # 0
           /\ loader' = [loader EXCEPT !.stage = "text", !.manifest = files[Here]["manifest"],
                                       !.mixed = loader.mixed \/ Busy(Here)]
  <2>1. /\ loader' \in Pass
        /\ loader'.family = loader.family /\ loader'.left = loader.left
        /\ loader'.manifest = files[Here]["manifest"] /\ loader'.stage = "text"
        /\ ~loader'.mixed => ~Busy(Here)
    BY <1>1, <1>2, <1>4 DEF Pass
  <2> QED
    BY <1>1, <1>4, <2>1, ReadOnStep
<1>5. CASE loader.stage = "text" /\ loader' = [loader EXCEPT !.stage = "again"]
  <2>1. /\ loader' \in Pass
        /\ loader'.family = loader.family /\ loader'.left = loader.left
        /\ loader'.manifest = loader.manifest /\ loader'.stage = "again"
        /\ loader'.mixed = loader.mixed
    BY <1>1, <1>5 DEF Pass
  <2> QED
    BY <1>1, <1>5, <2>1, ReadOnStep DEF IInv, ReadInv
<1>6. CASE /\ loader.stage = "again"
           /\ loader' = [loader EXCEPT !.stage = "code", !.again = files[Here]["manifest"]]
  <2>1. /\ loader' \in Pass
        /\ loader'.family = loader.family /\ loader'.left = loader.left
        /\ loader'.manifest = loader.manifest /\ loader'.again = files[Here]["manifest"]
        /\ loader'.mixed = loader.mixed
    BY <1>1, <1>2, <1>6 DEF Pass
  <2> QED
    BY <1>1, <1>6, <2>1, ReadOnStep DEF IInv, ReadInv
<1> QED
  BY <1>3, <1>4, <1>5, <1>6 DEF ReadManifest, ReadText, ReadAgain

LEMMA LoadCodeStep ==
    ASSUME IInv, LoadCode
    PROVE  IInv'
<1>1. /\ loader.left # {} /\ loader.stage = "code" /\ Skip /\ Here \in Places
      /\ UNCHANGED <<store, client, ops, scans, faults, torn, crossed>>
  BY AtHere DEF LoadCode
<1>2. CASE UNCHANGED found
  <2>1. LoadedIsOne'
    BY <1>2 DEF IInv, LoadedIsOne
  <2> QED
    BY <1>1, <2>1, SkipStep
<1>3. CASE Accepted /\ found' = found \cup {Plugin}
  <2>1. ASSUME ~Plugin.mixed
        PROVE  Plugin.manifest = Plugin.code /\ Plugin.again = Plugin.code
    <3>1. /\ ~loader.mixed /\ Here \notin crossed
          /\ Plugin.manifest = loader.manifest /\ Plugin.again = loader.again
          /\ Plugin.code = files[Here]["code"]
      BY <2>1 DEF Plugin
    <3>2. /\ files[Here]["manifest"] = loader.manifest /\ loader.manifest # 0
          /\ loader.again = loader.manifest
      BY <1>1, <3>1 DEF IInv, ReadInv
    <3>3. files[Here]["code"] # 0
      BY <1>3 DEF Accepted
    <3>4. One(Here)
      BY <1>1, <3>1 DEF IInv, OneInv
    <3> QED
      BY <3>1, <3>2, <3>3, <3>4 DEF One
  <2>2. LoadedIsOne'
    BY <1>3, <2>1 DEF IInv, LoadedIsOne
  <2> QED
    BY <1>1, <2>2, SkipStep
<1> QED
  BY <1>2, <1>3 DEF LoadCode

----
(* Every step *)

LEMMA StutterStep ==
    ASSUME IInv, UNCHANGED vars
    PROVE  IInv'
<1>1. scans' \in 0..MaxScans
  BY Fitting DEF StoreOK, vars, reading
<1>2. PassInv' /\ LoadedIsOne'
  BY DEF IInv, PassInv, LoadedIsOne, vars, reading
<1>3. ReadInv'
  BY DEF IInv, ReadInv, Busy, Holds, Here, First, vars, store, reading
<1> QED
  BY <1>1, <1>2, <1>3, RegistryStep DEF vars, reading

LEMMA NextStep == IInv /\ [Next]_vars => IInv'
<1> SUFFICES ASSUME IInv, [Next]_vars
             PROVE  IInv'
  OBVIOUS
<1>1. CASE Discover
  BY <1>1, DiscoverStep
<1>2. CASE Scan
  BY <1>2, ReadingStep, LoadCodeStep, DiscoveredStep DEF Scan
<1>3. ASSUME NEW c \in Clients, Step(c)
      PROVE  IInv'
  <2>1. CASE Install(c) \/ Menu(c) \/ Choose(c) \/ Clone(c)
    BY <2>1, InstallStep, MenuStep, ChooseStep, CloneStep
  <2>2. CASE Look(c) \/ Uninstall(c) \/ Unlink(c) \/ RemoveDirectory(c)
    BY <2>2, LookStep, UninstallStep, UnlinkStep, RemoveDirectoryStep
  <2>3. CASE Make(c) \/ Copy(c) \/ CopiedAll(c) \/ MakeEnvironment(c)
    BY <2>3, MakeStep, CopyStep, CopiedAllStep, MakeEnvironmentStep
  <2>4. CASE RunPip(c) \/ Sign(c) \/ Fill(c) \/ Die(c)
    BY <2>4, RunPipStep, SignStep, FillStep, DieStep
  <2> QED
    BY <1>3, <2>1, <2>2, <2>3, <2>4 DEF Step
<1>4. CASE UNCHANGED vars
  BY <1>4, StutterStep
<1> QED
  BY <1>1, <1>2, <1>3, <1>4 DEF Next

----
(* Theorems *)

(* The inductive invariant holds in every reachable state. *)
THEOREM StoreInvariant == Spec => []IInv
<1>1. Init => IInv
  BY InitInv
<1> QED
  BY <1>1, NextStep, PTL DEF Spec

(* The records keep their types, a directory that is not there holds       *)
(* nothing, and no command has work left that its stage does not name.     *)
THEOREM StoreTypes == Spec => []TypeOK
<1>1. IInv => TypeOK
  BY DEF IInv
<1> QED
  BY <1>1, StoreInvariant, PTL

(* What list_installed_plugins shows is there in one piece, with its       *)
(* packages, whatever died or failed, unless a removal was cut short or    *)
(* commands overlapped on it.                                              *)
THEOREM ListedPluginsAreWhole == Spec => []ListedIsWhole
<1>1. IInv => ListedIsWhole
  BY DEF IInv
<1> QED
  BY <1>1, StoreInvariant, PTL

(* A registry puts no code under the manifest of another version, unless a *)
(* command was at work there meanwhile or commands overlapped before.      *)
THEOREM LoadedPluginsAreOne == Spec => []LoadedIsOne
<1>1. IInv => LoadedIsOne
  BY DEF IInv
<1> QED
  BY <1>1, StoreInvariant, PTL
=============================================================================
