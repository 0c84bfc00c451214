---------------------------- MODULE RuntimeProofs ----------------------------
(***************************************************************************)
(* Proofs about Preflight and RuntimeLifecycle, for every set of           *)
(* transports, providers and configurations and every bound.               *)
(*                                                                         *)
(* What an inspection allows is shown for a configuration by itself        *)
(* (AllowedCanAnswer). The invariant of the runtime adds to the properties *)
(* where each actor is: what a reconciliation in progress has seen, what   *)
(* the loop has stamped, and how far a thread is in its batch. LifeInv and *)
(* PlaceInv, where the process is with its threads, carry the refinement   *)
(* of UpdateDelivery (Refinement).                                         *)
(***************************************************************************)
EXTENDS RuntimeLifecycle, SequenceTheorems, TLAPS

(* A reconciliation that was not overtaken by an edit saw the file's state. *)
SeenInv ==
    /\ ReportTold
    /\ \A p \in Procs : /\ rec[p].at # "idle" /\ rec[p].at # "inspect" => rec[p].seen \in Configs
                        /\ rec[p].at \in {"layout", "report"} => rec[p].hidden \/ rec[p].seen = config

(* A process that no edit overtook as it started runs on the file's state,  *)
(* or its heartbeats say that there was an edit.                            *)
RunInv ==
    /\ main.at = "stamp" => main.config \in Configs
    /\ main.at \in {"stamp", "start", "loop", "jobs"} =>
           main.hidden \/ main.edited \/ main.config = config
    /\ main.at = "jobs" => beat.there /\ (main.edited => beat.edited)

(* The position that a thread asks from is behind what was handled.         *)
ThreadInv(t) ==
    LET handled == service[t].handled IN
    /\ 1 .. service[t].confirmed \subseteq handled
    /\ thread[t].at \in {"ready", "asked"} => 1 .. thread[t].offset \subseteq handled
    /\ thread[t].at = "handling" =>
           /\ 1 .. thread[t].next - 1 \subseteq handled
           /\ thread[t].next <= thread[t].upto
           /\ thread[t].offset <= thread[t].upto

IInv ==
    /\ TypeOK
    /\ SeenInv
    /\ RunInv
    /\ \A t \in Polled : ThreadInv(t)

----
(* Whatever a profile holds, one that auth_status calls signed in has a key *)
(* for its requests, or falls into one of the named gaps.                   *)
THEOREM SignedInHasKey ==
    ASSUME NEW p \in ProviderProfile
    PROVE  KeyBehindStatus(p)
<1> SUFFICES ASSUME Authenticated(p)
             PROVE  HasKey(p) \/ Gap(p)
  BY DEF KeyBehindStatus
<1>1. CASE p.kind = "http"
  BY <1>1 DEF Authenticated, HasKey, Gap, HttpSignedIn, HttpKey
<1>2. CASE p.kind = "file"
  BY <1>2 DEF Gap
<1>3. CASE p.kind = "codex"
  <2>1. CodexSignedIn(p)
    BY <1>3 DEF Authenticated
  <2>2. CASE p.mode = "api_key"
    BY <1>3, <2>1, <2>2 DEF CodexSignedIn, KeySignedIn, HasKey, CodexKey
  <2>3. CASE p.mode \in {"oauth_browser", "device_code"}
    BY <1>3, <2>1, <2>3 DEF CodexSignedIn, ManagedSignedIn, HasKey, CodexKey, Gap
  <2>4. CASE p.mode \in {"stored_token", "codex_auth_file"}
    <3>1. CASE StoredToken(p)
      BY <1>3, <2>4, <3>1 DEF StoredToken, HasKey, CodexKey, Gap
    <3>2. CASE "access_token" \in p.env \cup Cached(p) \/ "api_key" \in p.env \cup Cached(p)
      BY <1>3, <3>2 DEF HasKey, CodexKey
    <3>3. p.env \cup Cached(p) \subseteq {"access_token", "api_key"}
      BY DEF ProviderProfile, Cached
    <3>4. StoredToken(p) \/ p.env \cup Cached(p) # {}
      BY <2>1, <2>4 DEF CodexSignedIn, TokenSignedIn, CacheSignedIn
    <3> QED
      BY <3>1, <3>2, <3>3, <3>4
  <2> QED
    BY <2>1, <2>2, <2>3, <2>4 DEF CodexSignedIn
<1> QED
  BY <1>1, <1>2, <1>3 DEF ProviderProfile

(* An allowed configuration with an interactive transport can answer: some  *)
(* transport is healthy, some provider is ready, and the default provider   *)
(* if there is one, with a key to send (_activation_blocking_errors and the *)
(* provider rules).                                                         *)
THEOREM AllowedCanAnswer ==
    ASSUME NEW c \in Configuration
    PROVE  Answers(c)
<1> SUFFICES ASSUME c.safe, CanActivate(c), Interactive(c) # {}
             PROVE  /\ \E i \in Transports : PluginState(c.transports[i]) = "ready"
                    /\ \E i \in Providers : Ready(c.providers[i])
                    /\ c.default = NoProvider
                       \/ LET p == c.providers[c.default] IN Ready(p) /\ (HasKey(p) \/ Gap(p))
  BY DEF Answers
<1>1. \A i \in Issues(c) : i.severity = "error" => i.code = "tool"
  BY DEF CanActivate, Blocking, Errors
<1>2. /\ c.transports \in [Transports -> PluginProfile]
      /\ c.providers \in [Providers -> ProviderProfile]
      /\ c.default \in Providers \cup {NoProvider}
  BY DEF Configuration
<1>3. \E i \in Transports : PluginState(c.transports[i]) = "ready"
  <2>1. NoTransport(c) = {}
    <3>1. Issue("no_healthy_transports", "error") \notin Issues(c)
      BY <1>1 DEF Issue
    <3> QED
      BY <3>1 DEF Issues, NoTransport, Strict
  <2> QED
    BY <1>2, <2>1 DEF NoTransport, Enabled
<1>4. c.default \in ReadyProviders(c) \/ (ReadyProviders(c) # {} /\ c.default = NoProvider)
  <2>1. Issue("transport_provider_not_ready", "error") \notin Issues(c)
    BY <1>1 DEF Issue
  <2> QED
    BY <2>1 DEF Issues, TransportProviderLink
<1>5. ASSUME NEW i \in Providers, Ready(c.providers[i])
      PROVE  HasKey(c.providers[i]) \/ Gap(c.providers[i])
  <2>1. c.providers[i] \in ProviderProfile
    BY <1>2
  <2>2. Authenticated(c.providers[i])
    BY <1>5 DEF Ready, SignedIn
  <2> QED
    BY <2>1, <2>2, SignedInHasKey DEF KeyBehindStatus
<1> QED
  BY <1>3, <1>4, <1>5 DEF ReadyProviders

----
(* The types of the parts of the state. *)
RecType == [at : {"idle", "inspect", "layout", "report", "effective", "good"},
            seen : Configs \cup {NoConfig}, hidden : BOOLEAN]

MainType == [at : {"down", "reconcile", "load", "stamp", "start", "loop",
                   "jobs", "stopping", "joining"},
             seen : Configs \cup {NoConfig}, config : Configs \cup {NoConfig},
             hidden : BOOLEAN, edited : BOOLEAN, todo : SUBSET Transports,
             started : Seq(Transports)]

ThreadType == [at : {"none", "ready", "asked", "handling", "hung"},
               stop : BOOLEAN, offset : 0 .. MaxUpdates,
               next : 1 .. MaxUpdates + 1, upto : 0 .. MaxUpdates]

ServiceType == [arrived : 0 .. MaxUpdates, confirmed : 0 .. MaxUpdates,
                handled : SUBSET Updates]

UsedType == [edits : 0 .. MaxEdits, starts : 0 .. MaxStarts, faults : 0 .. MaxFaults]

ReportType == [of : Configs \cup {NoConfig}, older : BOOLEAN, hidden : BOOLEAN]

BeatType == [there : BOOLEAN, fresh : BOOLEAN, edited : BOOLEAN]

LEMMA Types ==
    TypeOK <=>
        /\ config \in Configs \cup {Unreadable}
        /\ report \in ReportType
        /\ kept \in [effective : Configs \cup {NoConfig}, good : Configs \cup {NoConfig}]
        /\ beat \in BeatType
        /\ rec \in [Procs -> RecType]
        /\ main \in MainType
        /\ thread \in [Polled -> ThreadType]
        /\ service \in [Polled -> ServiceType]
        /\ signal \in BOOLEAN
        /\ used \in UsedType
BY DEF TypeOK, ReportType, BeatType, RecType, MainType, ThreadType, ServiceType, UsedType

LEMMA TypesNext ==
    ASSUME config' \in Configs \cup {Unreadable}, report' \in ReportType,
           kept' \in [effective : Configs \cup {NoConfig}, good : Configs \cup {NoConfig}],
           beat' \in BeatType,
           rec' \in [Procs -> RecType], main' \in MainType,
           thread' \in [Polled -> ThreadType], service' \in [Polled -> ServiceType],
           signal' \in BOOLEAN, used' \in UsedType
    PROVE  TypeOK'
BY DEF TypeOK, ReportType, BeatType, RecType, MainType, ThreadType, ServiceType, UsedType

LEMMA Resting ==
    /\ Down \in MainType /\ Down.at = "down"
    /\ NoReconcile \in RecType /\ NoReconcile.at = "idle"
    /\ NoThread \in ThreadType /\ NoThread.at = "none" /\ NoThread.offset = 0
    /\ {MaxEdits, MaxUpdates, MaxStarts, MaxFaults} \subseteq Nat
<1>1. {MaxEdits, MaxUpdates, MaxStarts, MaxFaults} \subseteq Nat
  BY RuntimeConstants
<1>2. NoThread \in ThreadType /\ NoThread.at = "none" /\ NoThread.offset = 0
  BY <1>1 DEF NoThread, ThreadType
<1>3. Down \in MainType /\ Down.at = "down"
  BY DEF Down, MainType
<1>4. NoReconcile \in RecType /\ NoReconcile.at = "idle"
  BY DEF NoReconcile, RecType
<1> QED
  BY <1>1, <1>2, <1>3, <1>4

LEMMA UseType ==
    ASSUME TypeOK
    PROVE  /\ used.edits < MaxEdits => Use("edits") \in UsedType
           /\ used.starts < MaxStarts => Use("starts") \in UsedType
           /\ used.faults < MaxFaults => Use("faults") \in UsedType
BY Types, Resting DEF Use, UsedType

----
(* Every step, grouped by the part of the state it disturbs. *)
LEMMA InitInv == Init => IInv
<1> SUFFICES ASSUME Init PROVE IInv
  OBVIOUS
<1>1. TypeOK
  <2>1. report \in ReportType /\ kept \in [effective : Configs \cup {NoConfig}, good : Configs \cup {NoConfig}]
    BY DEF Init, ReportType
  <2>2. service \in [Polled -> ServiceType] /\ used \in UsedType
    BY Resting DEF Init, ServiceType, UsedType
  <2>3. rec \in [Procs -> RecType] /\ main \in MainType /\ thread \in [Polled -> ThreadType]
    BY Resting DEF Init
  <2> QED
    BY <2>1, <2>2, <2>3, Types, RuntimeConstants DEF Init, BeatType
<1>2. SeenInv
  BY Resting DEF Init, SeenInv, ReportTold, NeedsReconcile, Procs
<1>3. RunInv
  BY Resting DEF Init, RunInv
<1>4. \A t \in Polled : ThreadInv(t)
  BY Resting DEF Init, ThreadInv
<1> QED
  BY <1>1, <1>2, <1>3, <1>4 DEF IInv

LEMMA EditStep ==
    ASSUME IInv, NEW c \in Configs \cup {Unreadable}, Edit(c)
    PROVE  IInv'
<1> USE DEF IInv
<1>1. /\ main'.at = main.at /\ main'.config = main.config
      /\ main'.hidden = (main.hidden \/ Loading) /\ main'.edited = (main.at # "down" /\ ~Loading)
      /\ main' \in MainType
  <2>1. Loading \in BOOLEAN /\ (main.hidden \/ Loading) \in BOOLEAN /\ (main.at # "down" /\ ~Loading) \in BOOLEAN
    BY DEF Loading
  <2> QED
    BY <2>1, Types DEF Edit, MainType
<1>2. /\ rec' \in [Procs -> RecType]
      /\ \A p \in Procs : /\ rec'[p].at = rec[p].at /\ rec'[p].seen = rec[p].seen
                          /\ rec'[p].hidden = (rec[p].at # "idle")
  <2>1. rec \in [Procs -> RecType] /\ rec' = [p \in Procs |-> [rec[p] EXCEPT !.hidden = rec[p].at # "idle"]]
    BY Types DEF Edit
  <2>2. ASSUME NEW p \in Procs
        PROVE  /\ rec'[p] \in RecType
               /\ rec'[p].at = rec[p].at /\ rec'[p].seen = rec[p].seen
               /\ rec'[p].hidden = (rec[p].at # "idle")
    <3>1. (rec[p].at # "idle") \in BOOLEAN /\ rec[p] \in RecType
      BY <2>1
    <3> QED
      BY <2>1, <3>1 DEF RecType
  <2> QED
    BY <2>1, <2>2
<1>3. report' \in ReportType /\ report'.of = report.of /\ report'.older = (report.of # NoConfig)
  BY Types DEF Edit, ReportType
<1>4. beat' \in BeatType /\ beat'.there = beat.there /\ beat'.edited = beat.there
  BY Types DEF Edit, BeatType
<1>5. TypeOK'
  BY <1>1, <1>2, <1>3, <1>4, Types, TypesNext, UseType DEF Edit
<1>6. SeenInv'
  BY <1>2, <1>3 DEF SeenInv, ReportTold, NeedsReconcile
<1>7. RunInv'
  BY <1>1, <1>4 DEF RunInv, Loading
<1>8. \A t \in Polled : ThreadInv(t)'
  BY DEF Edit, ThreadInv
<1> QED
  BY <1>5, <1>6, <1>7, <1>8

(* An edit without a new time is hidden from whatever had read the files.   *)
LEMMA EditUnseenStep ==
    ASSUME IInv, NEW c \in Configs \cup {Unreadable}, EditUnseen(c)
    PROVE  IInv'
<1> USE DEF IInv
<1>1. PICK older \in BOOLEAN, sinceBeat \in BOOLEAN, sinceStart \in BOOLEAN :
          /\ sinceBeat => beat.edited
          /\ sinceStart => main.edited /\ (beat.there => sinceBeat)
          /\ report' = [report EXCEPT !.older = older, !.hidden = report.of # NoConfig]
          /\ beat' = [beat EXCEPT !.edited = sinceBeat]
          /\ main' = [main EXCEPT !.hidden = main.at # "down", !.edited = sinceStart]
  BY DEF EditUnseen
<1>2. main' \in MainType /\ main'.at = main.at /\ main'.config = main.config
      /\ main'.hidden = (main.at # "down") /\ main'.edited = sinceStart
  <2>1. (main.at # "down") \in BOOLEAN /\ main \in MainType
    BY Types
  <2> QED
    BY <1>1, <2>1 DEF MainType
<1>3. /\ rec' \in [Procs -> RecType]
      /\ \A p \in Procs : /\ rec'[p].at = rec[p].at /\ rec'[p].seen = rec[p].seen
                          /\ rec'[p].hidden = (rec[p].at # "idle")
  <2>1. rec \in [Procs -> RecType] /\ rec' = [p \in Procs |-> [rec[p] EXCEPT !.hidden = rec[p].at # "idle"]]
    BY Types DEF EditUnseen
  <2>2. ASSUME NEW p \in Procs
        PROVE  /\ rec'[p] \in RecType
               /\ rec'[p].at = rec[p].at /\ rec'[p].seen = rec[p].seen
               /\ rec'[p].hidden = (rec[p].at # "idle")
    <3>1. (rec[p].at # "idle") \in BOOLEAN /\ rec[p] \in RecType
      BY <2>1
    <3> QED
      BY <2>1, <3>1 DEF RecType
  <2> QED
    BY <2>1, <2>2
<1>4. report' \in ReportType /\ report'.of = report.of /\ report'.hidden = (report.of # NoConfig)
  <2>1. (report.of # NoConfig) \in BOOLEAN /\ report \in ReportType
    BY Types
  <2> QED
    BY <1>1, <2>1 DEF ReportType
<1>5. beat' \in BeatType /\ beat'.there = beat.there /\ beat'.edited = sinceBeat
  BY <1>1, Types DEF BeatType
<1>6. TypeOK'
  BY <1>2, <1>3, <1>4, <1>5, Types, TypesNext, UseType DEF EditUnseen
<1>7. SeenInv'
  BY <1>3, <1>4 DEF SeenInv, ReportTold, NeedsReconcile
<1>8. RunInv'
  BY <1>1, <1>2, <1>5 DEF RunInv
<1>9. \A t \in Polled : ThreadInv(t)'
  BY DEF EditUnseen, ThreadInv
<1> QED
  BY <1>6, <1>7, <1>8, <1>9

(* The heartbeat ages without its file changing. *)
LEMMA GoStaleStep ==
    ASSUME IInv, GoStale
    PROVE  IInv'
<1> USE DEF IInv
<1>1. /\ beat' \in BeatType /\ beat'.there = beat.there /\ beat'.edited = beat.edited
      /\ UNCHANGED <<config, report, kept, rec, main, thread, service, signal, used>>
  BY Types DEF GoStale, BeatType
<1>2. TypeOK'
  BY <1>1, Types, TypesNext
<1> QED
  BY <1>1, <1>2 DEF SeenInv, ReportTold, NeedsReconcile, RunInv, ThreadInv

(* A process whose reconciliation ended, at once or by an exception. *)
LEMMA FailsStep ==
    ASSUME IInv, NEW p \in Procs, Fails(p)
    PROVE  IInv'
<1> USE DEF IInv
<1>1. rec' \in [Procs -> RecType] /\ \A q \in Procs : rec'[q] = rec[q] \/ rec'[q].at = "idle"
  BY Types, Resting DEF Fails
<1>2. main' \in MainType /\ (main' = main \/ main'.at = "down")
  BY Types, Resting DEF Fails
<1>3. TypeOK'
  BY <1>1, <1>2, Types, TypesNext DEF Fails
<1>4. SeenInv'
  BY <1>1 DEF Fails, SeenInv, ReportTold, NeedsReconcile
<1>5. RunInv'
  BY <1>2 DEF Fails, RunInv
<1>6. \A t \in Polled : ThreadInv(t)'
  BY DEF Fails, ThreadInv
<1> QED
  BY <1>3, <1>4, <1>5, <1>6

LEMMA ReturnsMain ==
    ASSUME IInv, NEW p \in Procs, Returns(p), rec[p].seen \in Configs
    PROVE  /\ main' \in MainType /\ (main' = main \/ main'.at = "load")
           /\ rec' \in [Procs -> RecType] /\ rec'[p].at = "idle"
           /\ \A q \in Procs : q # p => rec'[q] = rec[q]
BY Types, Resting DEF IInv, Returns, MainType

(* Reconciliation beside its exceptions. *)
LEMMA ReconcileStep ==
    ASSUME IInv, NEW p \in Procs, Reconcile(p)
    PROVE  IInv'
<1> USE DEF IInv
<1>1. CASE Fails(p)
  BY <1>1, FailsStep
<1>2. CASE (Inspect(p) \/ LayOut(p)) /\ ~Fails(p)
  <2>1. /\ rec' \in [Procs -> RecType] /\ \A q \in Procs : q # p => rec'[q] = rec[q]
        /\ \/ rec'[p].at = "layout" /\ rec'[p].seen = config /\ config \in Configs
           \/ /\ rec'[p].at = "report" /\ rec[p].at = "layout"
              /\ rec'[p].seen = rec[p].seen /\ rec'[p].hidden = rec[p].hidden
        /\ UNCHANGED <<config, report, kept, beat, main, thread, service, signal, used>>
    <3>1. CASE Inspect(p)
      <4>1. /\ config # Unreadable
            /\ rec' = [rec EXCEPT ![p] = [at |-> "layout", seen |-> config, hidden |-> FALSE]]
            /\ UNCHANGED <<config, report, kept, beat, main, thread, service, signal, used>>
        BY <1>2, <3>1 DEF Inspect
      <4>2. [at |-> "layout", seen |-> config, hidden |-> FALSE] \in RecType
        BY <4>1, Types DEF RecType
      <4> QED
        BY <4>1, <4>2, Types
    <3>2. CASE LayOut(p)
      BY <1>2, <3>2, Types DEF LayOut, RecType
    <3> QED
      BY <1>2, <3>1, <3>2
  <2>2. TypeOK'
    BY <2>1, Types, TypesNext
  <2>3. SeenInv'
    BY <2>1 DEF SeenInv, ReportTold, NeedsReconcile
  <2> QED
    BY <2>1, <2>2, <2>3 DEF RunInv, ThreadInv
<1>3. CASE WriteReport(p)
  <2>1. /\ rec[p].at = "report" /\ rec[p].seen \in Configs /\ (rec[p].hidden \/ rec[p].seen = config)
        /\ report' = [of |-> rec[p].seen, older |-> FALSE, hidden |-> rec[p].hidden]
        /\ UNCHANGED <<config, kept, beat, thread, service, signal, used>>
    BY <1>3 DEF WriteReport, SeenInv
  <2>2. report' \in ReportType
    BY <2>1, Types DEF ReportType, RecType
  <2>3. /\ rec' \in [Procs -> RecType] /\ \A q \in Procs : q # p => rec'[q] = rec[q]
        /\ \/ rec'[p].at = "idle"
           \/ rec'[p].at = "effective" /\ rec'[p].seen = rec[p].seen
        /\ main' \in MainType /\ (main' = main \/ main'.at = "load")
    <3>1. CASE Returns(p)
      BY <2>1, <3>1, ReturnsMain
    <3>2. CASE rec' = [rec EXCEPT ![p].at = "effective"] /\ UNCHANGED main
      BY <3>2, Types DEF RecType
    <3> QED
      BY <1>3, <3>1, <3>2 DEF WriteReport
  <2>4. TypeOK'
    BY <2>1, <2>2, <2>3, Types, TypesNext
  <2>5. SeenInv'
    BY <2>1, <2>3 DEF SeenInv, ReportTold, NeedsReconcile
  <2>6. RunInv'
    BY <2>1, <2>3 DEF RunInv
  <2> QED
    BY <2>1, <2>4, <2>5, <2>6 DEF ThreadInv
<1>4. CASE WriteEffective(p) \/ WriteGood(p)
  <2>1. /\ rec[p].seen \in Configs
        /\ UNCHANGED <<config, report, beat, thread, service, signal, used>>
    BY <1>4 DEF WriteEffective, WriteGood, SeenInv
  <2>2. kept' \in [effective : Configs \cup {NoConfig}, good : Configs \cup {NoConfig}]
    BY <1>4, <2>1, Types DEF WriteEffective, WriteGood
  <2>3. /\ rec' \in [Procs -> RecType] /\ \A q \in Procs : q # p => rec'[q] = rec[q]
        /\ \/ rec'[p].at = "idle"
           \/ rec'[p].at = "good" /\ rec'[p].seen = rec[p].seen
        /\ main' \in MainType /\ (main' = main \/ main'.at = "load")
    <3>1. CASE WriteGood(p)
      BY <2>1, <3>1, ReturnsMain DEF WriteGood
    <3>2. CASE WriteEffective(p)
      BY <3>2, Types DEF WriteEffective, RecType
    <3> QED
      BY <1>4, <3>1, <3>2
  <2>4. TypeOK'
    BY <2>1, <2>2, <2>3, Types, TypesNext
  <2>5. SeenInv'
    BY <2>1, <2>3 DEF SeenInv, ReportTold, NeedsReconcile
  <2>6. RunInv'
    BY <2>1, <2>3 DEF RunInv
  <2> QED
    BY <2>1, <2>4, <2>5, <2>6 DEF ThreadInv
<1> QED
  BY <1>1, <1>2, <1>3, <1>4 DEF Reconcile

(* The command and the boot begin a reconciliation. *)
LEMMA BeginStep ==
    ASSUME IInv, Command \/ Boot
    PROVE  IInv'
<1> USE DEF IInv
<1>1. /\ rec' \in [Procs -> RecType]
      /\ \A p \in Procs : rec'[p] = rec[p] \/ rec'[p].at = "inspect"
  BY Types DEF Command, Boot, Procs, RecType
<1>2. main' \in MainType /\ (main' = main \/ main'.at = "reconcile")
  BY Types, Resting DEF Command, Boot, MainType
<1>3. used' \in UsedType /\ signal' \in BOOLEAN
  BY Types, UseType DEF Command, Boot
<1>4. UNCHANGED <<config, report, kept, beat, thread, service>>
  BY DEF Command, Boot
<1>5. TypeOK'
  BY <1>1, <1>2, <1>3, <1>4, Types, TypesNext
<1>6. SeenInv'
  BY <1>1, <1>4 DEF SeenInv, ReportTold, NeedsReconcile
<1>7. RunInv'
  BY <1>2, <1>4 DEF RunInv
<1> QED
  BY <1>4, <1>5, <1>6, <1>7 DEF ThreadInv

(* A step of the runtime process that neither reconciles nor beats. *)
LEMMA MainStep ==
    ASSUME IInv, main' \in MainType, RunInv',
           UNCHANGED <<config, report, kept, rec, service, used>>,
           beat' \in BeatType, signal' \in BOOLEAN,
           thread' \in [Polled -> ThreadType],
           \A t \in Polled : \/ thread'[t].at \in {"none", "hung"}
                             \/ /\ thread'[t].at = thread[t].at /\ thread'[t].next = thread[t].next
                                /\ thread'[t].upto = thread[t].upto
                                /\ thread'[t].offset \in {0, thread[t].offset}
                             \/ thread'[t].at = "ready" /\ thread'[t].offset = 0
    PROVE  IInv'
<1> USE DEF IInv
<1>1. TypeOK'
  BY Types, TypesNext
<1>2. SeenInv'
  BY DEF SeenInv, ReportTold, NeedsReconcile
<1>3. ASSUME NEW t \in Polled PROVE ThreadInv(t)'
  <2>1. 1 .. 0 = {} /\ thread[t].upto \in Nat /\ service'[t] = service[t]
    BY Types, Resting DEF ThreadType
  <2>2. 0 <= thread[t].upto /\ \A S : 1 .. 0 \subseteq S
    BY <2>1
  <2> QED
    BY <2>1, <2>2 DEF ThreadInv
<1> QED
  BY <1>1, <1>2, <1>3

(* The runtime process. *)
LEMMA WorkStep ==
    ASSUME IInv, Work
    PROVE  IInv'
<1> USE DEF IInv
<1>1. main \in MainType /\ thread \in [Polled -> ThreadType] /\ signal \in BOOLEAN
      /\ beat \in BeatType
  BY Types
<1>2. ASSUME main' \in MainType, RunInv',
             UNCHANGED <<config, report, kept, beat, rec, thread, service, signal, used>>
      PROVE  IInv'
  BY <1>1, <1>2, MainStep
<1>3. CASE Load
  <2>1. CASE Fails("runtime")
    BY <2>1, FailsStep DEF Procs
  <2>2. CASE config # Unreadable /\ main' = [main EXCEPT !.at = "stamp", !.config = config]
             /\ UNCHANGED <<config, report, kept, beat, rec, thread, service, signal, used>>
    <3>1. config \in Configs
      BY <2>2, Types
    <3>2. main' \in MainType /\ main'.at = "stamp" /\ main'.config = config
      BY <1>1, <2>2, <3>1 DEF MainType
    <3>3. RunInv'
      BY <2>2, <3>1, <3>2 DEF RunInv
    <3> QED
      BY <1>2, <2>2, <3>2, <3>3
  <2> QED
    BY <1>3, <2>1, <2>2 DEF Load
<1>4. CASE StampAndStartPanel
  <2> DEFINE todo == Enabled(Settings[main.config].transports)
  <2>1. main.at = "stamp" /\ main.config \in Configs
        /\ UNCHANGED <<config, report, kept, beat, rec, thread, service, signal, used>>
    BY <1>4 DEF StampAndStartPanel, RunInv
  <2>2. todo \in SUBSET Transports
    BY <2>1, RuntimeConstants DEF Enabled, Configuration
  <2> HIDE DEF todo
  <2>3. \/ main' = [main EXCEPT !.at = StartOrLoop(todo), !.todo = todo]
        \/ main' = [main EXCEPT !.at = "stopping"]
    BY <1>4 DEF StampAndStartPanel, todo
  <2>4. StartOrLoop(todo) \in {"loop", "start"}
    BY DEF StartOrLoop
  <2>5. main' \in MainType /\ main'.at \in {"loop", "start", "stopping"}
        /\ main'.config = main.config /\ main'.hidden = main.hidden /\ main'.edited = main.edited
    BY <1>1, <2>2, <2>3, <2>4 DEF MainType
  <2>6. RunInv'
    BY <2>1, <2>5 DEF RunInv
  <2> QED
    BY <1>2, <2>1, <2>5, <2>6
<1>5. ASSUME NEW t \in Transports, StartTransport(t) PROVE IInv'
  <2> DEFINE todo == main.todo \ {t}
             over == [main EXCEPT !.at = StartOrLoop(todo), !.todo = todo]
  <2>1. StartOrLoop(todo) \in {"loop", "start"}
    BY DEF StartOrLoop
  <2>2. over \in MainType /\ over.at \in {"loop", "start"} /\ over.started = main.started
        /\ over.config = main.config /\ over.hidden = main.hidden /\ over.edited = main.edited
    BY <1>1, <2>1 DEF MainType
  <2> HIDE DEF over
  <2>3. [over EXCEPT !.started = Append(@, t)] \in MainType
    <3>1. Append(over.started, t) \in Seq(Transports)
      BY <2>2, AppendProperties DEF MainType
    <3> QED
      BY <2>2, <3>1 DEF MainType
  <2>4. main' = over \/ main' = [over EXCEPT !.started = Append(@, t)]
    BY <1>5 DEF StartTransport, over
  <2>5. main' \in MainType /\ main'.at = over.at
        /\ main'.config = main.config /\ main'.hidden = main.hidden /\ main'.edited = main.edited
    BY <2>2, <2>3, <2>4 DEF MainType
  <2>6. main.at = "start" /\ UNCHANGED <<config, report, kept, beat, rec, service, signal, used>>
        /\ (UNCHANGED thread \/ (t \in Polled /\ thread' = [thread EXCEPT ![t] = [NoThread EXCEPT !.at = "ready"]]))
    BY <1>5 DEF StartTransport
  <2>7. RunInv'
    BY <2>2, <2>5, <2>6 DEF RunInv
  <2>8. LET x == [NoThread EXCEPT !.at = "ready"] IN
        x \in ThreadType /\ x.at = "ready" /\ x.offset = 0
    BY Resting DEF ThreadType
  <2> QED
    BY <1>1, <2>5, <2>6, <2>7, <2>8, MainStep
<1>6. CASE Heartbeat
  <2>1. main.at = "loop" /\ main' = [main EXCEPT !.at = "jobs"] /\ beat' = [there |-> TRUE, fresh |-> TRUE, edited |-> main.edited]
        /\ UNCHANGED <<config, report, kept, rec, thread, service, signal, used>>
    BY <1>6 DEF Heartbeat
  <2>2. /\ main' \in MainType /\ main'.at = "jobs" /\ main'.config = main.config
        /\ main'.hidden = main.hidden /\ main'.edited = main.edited
        /\ beat' \in BeatType /\ beat'.there /\ beat'.edited = main.edited
    BY <1>1, <2>1 DEF MainType, BeatType
  <2>3. RunInv'
    BY <2>1, <2>2 DEF RunInv
  <2> QED
    BY <1>1, <2>1, <2>2, <2>3, MainStep
<1>7. ASSUME NEW stage \in {"loop", "stopping", "joining"}, main.at # "down",
             main' = [main EXCEPT !.at = stage] \/ main' = [main EXCEPT !.at = stage, !.started = SubSeq(@, 1, Len(@) - 1)],
             stage = "loop" => main.at = "jobs",
             UNCHANGED <<config, beat>>
      PROVE  main' \in MainType /\ RunInv'
  <2>1. SubSeq(main.started, 1, Len(main.started) - 1) \in Seq(Transports)
    <3>1. main.started \in Seq(Transports) /\ Len(main.started) \in Nat
      BY <1>1 DEF MainType
    <3> QED
      BY <3>1, SubSeqProperties
  <2>2. main' \in MainType /\ main'.at = stage /\ main'.config = main.config
        /\ main'.hidden = main.hidden /\ main'.edited = main.edited
    BY <1>1, <1>7, <2>1 DEF MainType
  <2>3. RunInv'
    BY <1>7, <2>2 DEF RunInv
  <2> QED
    BY <2>2, <2>3
<1>8. CASE ScanFails \/ RunJobsAndWait \/ LeaveLoop
  <2>1. PICK stage \in {"loop", "stopping"} :
            /\ main' = [main EXCEPT !.at = stage] /\ (stage = "loop" => main.at = "jobs") /\ main.at # "down"
            /\ UNCHANGED <<config, report, kept, beat, rec, thread, service, signal, used>>
    BY <1>8 DEF ScanFails, RunJobsAndWait, LeaveLoop
  <2> QED
    BY <1>2, <1>7, <2>1
<1>9. CASE TellThread \/ StopPlugin
  <2>1. main' \in MainType /\ RunInv'
    BY <1>7, <1>9 DEF TellThread, StopPlugin
  <2>2. UNCHANGED <<config, report, kept, beat, rec, service, signal, used>>
    BY <1>9 DEF TellThread, StopPlugin
  <2>3. /\ thread' \in [Polled -> ThreadType]
        /\ \A t \in Polled : /\ thread'[t].at = thread[t].at /\ thread'[t].next = thread[t].next
                             /\ thread'[t].upto = thread[t].upto
                             /\ thread'[t].offset \in {0, thread[t].offset}
    <3>1. \/ UNCHANGED thread
          \/ LastStarted \in Polled /\ thread' = [thread EXCEPT ![LastStarted].stop = TRUE]
          \/ LastStarted \in Polled /\ thread' = [thread EXCEPT ![LastStarted].offset = 0]
      BY <1>9 DEF TellThread, StopPlugin
    <3>2. 0 \in 0 .. MaxUpdates
      BY Resting
    <3>3. ASSUME NEW t \in Polled
          PROVE  /\ [thread EXCEPT ![t].stop = TRUE] \in [Polled -> ThreadType]
                 /\ [thread EXCEPT ![t].offset = 0] \in [Polled -> ThreadType]
      <4>1. [thread[t] EXCEPT !.stop = TRUE] \in ThreadType /\ [thread[t] EXCEPT !.offset = 0] \in ThreadType
        BY <1>1, <3>2 DEF ThreadType
      <4> QED
        BY <1>1, <4>1
    <3>4. CASE UNCHANGED thread
      BY <1>1, <3>4
    <3>5. CASE LastStarted \in Polled /\ thread' = [thread EXCEPT ![LastStarted].stop = TRUE]
      <4>1. PICK t \in Polled : thread' = [thread EXCEPT ![t].stop = TRUE]
        BY <3>5
      <4>2. thread' \in [Polled -> ThreadType]
        BY <3>3, <4>1
      <4>3. ASSUME NEW d \in Polled
            PROVE  /\ thread'[d].at = thread[d].at /\ thread'[d].next = thread[d].next
                   /\ thread'[d].upto = thread[d].upto
                   /\ thread'[d].offset \in {0, thread[d].offset}
        BY <1>1, <4>1 DEF ThreadType
      <4> QED
        BY <4>2, <4>3
    <3>6. CASE LastStarted \in Polled /\ thread' = [thread EXCEPT ![LastStarted].offset = 0]
      <4>1. PICK t \in Polled : thread' = [thread EXCEPT ![t].offset = 0]
        BY <3>6
      <4>2. thread' \in [Polled -> ThreadType]
        BY <3>3, <4>1
      <4>3. ASSUME NEW d \in Polled
            PROVE  /\ thread'[d].at = thread[d].at /\ thread'[d].next = thread[d].next
                   /\ thread'[d].upto = thread[d].upto
                   /\ thread'[d].offset \in {0, thread[d].offset}
        BY <1>1, <4>1 DEF ThreadType
      <4> QED
        BY <4>2, <4>3
    <3> QED
      BY <3>1, <3>4, <3>5, <3>6
  <2> QED
    BY <1>1, <2>1, <2>2, <2>3, MainStep
<1>10. CASE Exit
  <2>1. /\ main' = Down /\ thread' = [t \in Polled |-> NoThread] /\ signal' = FALSE
        /\ UNCHANGED <<config, report, kept, beat, rec, service, used>>
    BY <1>10 DEF Exit
  <2>2. RunInv' /\ main' \in MainType /\ thread' \in [Polled -> ThreadType]
    BY <2>1, Resting DEF RunInv
  <2> QED
    BY <1>1, <2>1, <2>2, Resting, MainStep
<1> QED
  BY <1>3, <1>4, <1>5, <1>6, <1>8, <1>9, <1>10, ReconcileStep DEF Work, Procs

(* A signal, and a death. *)
LEMMA EndStep ==
    ASSUME IInv, Signal \/ Die
    PROVE  IInv'
<1> USE DEF IInv
<1>1. CASE Signal
  BY <1>1, Types, MainStep DEF Signal, RunInv
<1>2. CASE Die
  <2>1. TypeOK'
    <3>1. rec' \in [Procs -> RecType] /\ main' \in MainType
          /\ thread' \in [Polled -> ThreadType] /\ signal' \in BOOLEAN
          /\ UNCHANGED <<config, report, kept, beat, service, used>>
      BY <1>2, Types, Resting DEF Die
    <3> QED
      BY <3>1, Types, TypesNext
  <2>2. \A p \in Procs : rec'[p] = rec[p] \/ rec'[p].at = "idle"
    BY <1>2, Types, Resting DEF Die
  <2>3. SeenInv'
    BY <1>2, <2>2 DEF Die, SeenInv, ReportTold, NeedsReconcile
  <2>4. RunInv'
    BY <1>2, Resting DEF Die, RunInv
  <2>5. \A t \in Polled : ThreadInv(t)'
    BY <1>2, Resting DEF Die, ThreadInv
  <2> QED
    BY <2>1, <2>3, <2>4, <2>5
<1> QED
  BY <1>1, <1>2

(* The poll threads and the message service. *)
LEMMA ThreadStep ==
    ASSUME IInv, NEW t \in Polled, Arrive(t) \/ Poll(t) \/ Fault(t)
    PROVE  IInv'
<1> USE DEF IInv
<1>1. /\ UNCHANGED <<config, report, kept, beat, rec, main, signal>>
      /\ used' \in UsedType
  BY Types, UseType DEF Arrive, Poll, Fault, Ask, Answer, Handle, EndThread, PollFails, Hang
<1>2. /\ thread[t] \in ThreadType /\ service[t] \in ServiceType /\ ThreadInv(t)
      /\ thread \in [Polled -> ThreadType] /\ service \in [Polled -> ServiceType]
      /\ MaxUpdates \in Nat
  BY Types, Resting
<1>3. SUFFICES ASSUME TRUE
               PROVE  /\ \E x \in ThreadType : thread' = [thread EXCEPT ![t] = x]
                      /\ \E y \in ServiceType : service' = [service EXCEPT ![t] = y]
                      /\ ThreadInv(t)'
  <2>1. ASSUME NEW x \in ThreadType, thread' = [thread EXCEPT ![t] = x],
               NEW y \in ServiceType, service' = [service EXCEPT ![t] = y], ThreadInv(t)'
        PROVE  IInv'
    <3>1. thread' \in [Polled -> ThreadType] /\ service' \in [Polled -> ServiceType]
          /\ \A d \in Polled : d # t => thread'[d] = thread[d] /\ service'[d] = service[d]
      BY <1>2, <2>1
    <3>2. TypeOK'
      BY <1>1, <3>1, Types, TypesNext
    <3>3. SeenInv' /\ RunInv'
      BY <1>1 DEF SeenInv, ReportTold, NeedsReconcile, RunInv
    <3>4. \A d \in Polled : ThreadInv(d)'
      BY <2>1, <3>1 DEF ThreadInv
    <3> QED
      BY <3>2, <3>3, <3>4
  <2> QED
    BY <2>1
<1>4. CASE Arrive(t)
  <2> DEFINE y == [service[t] EXCEPT !.arrived = @ + 1]
  <2>1. y \in ServiceType /\ y.confirmed = service[t].confirmed /\ y.handled = service[t].handled
    BY <1>2, <1>4 DEF Arrive, ServiceType
  <2>2. service' = [service EXCEPT ![t] = y] /\ thread' = [thread EXCEPT ![t] = thread[t]]
    BY <1>2, <1>4 DEF Arrive
  <2> HIDE DEF y
  <2>3. thread'[t] = thread[t] /\ service'[t] = y
    BY <1>2, <2>2
  <2>4. ThreadInv(t)'
    BY <1>2, <2>1, <2>3 DEF ThreadInv
  <2> QED
    BY <1>2, <2>1, <2>2, <2>4
<1>5. CASE Ask(t)
  <2> DEFINE y == [service[t] EXCEPT !.confirmed = Larger(@, thread[t].offset)]
             x == [thread[t] EXCEPT !.at = "asked"]
  <2>1. Larger(service[t].confirmed, thread[t].offset) \in {service[t].confirmed, thread[t].offset}
    BY DEF Larger
  <2>2. /\ y \in ServiceType /\ y.confirmed \in {service[t].confirmed, thread[t].offset}
        /\ y.handled = service[t].handled
    BY <1>2, <2>1 DEF ServiceType, ThreadType
  <2>3. x \in ThreadType /\ x.at = "asked" /\ x.offset = thread[t].offset
    BY <1>2 DEF ThreadType
  <2>4. service' = [service EXCEPT ![t] = y] /\ thread' = [thread EXCEPT ![t] = x]
        /\ thread[t].at = "ready"
    BY <1>5 DEF Ask
  <2> HIDE DEF x, y
  <2>5. thread'[t] = x /\ service'[t] = y
    BY <1>2, <2>4
  <2>6. ThreadInv(t)'
    BY <1>2, <2>2, <2>3, <2>4, <2>5 DEF ThreadInv
  <2> QED
    BY <2>2, <2>3, <2>4, <2>6
<1>6. CASE Answer(t)
  <2> DEFINE first == service[t].confirmed + 1
             last  == service[t].arrived
             x == IF first > last THEN [thread[t] EXCEPT !.at = "ready"]
                  ELSE [thread[t] EXCEPT !.at = "handling", !.offset = last,
                                         !.next = first, !.upto = last]
  <2>1. first \in Nat /\ last \in 0 .. MaxUpdates /\ first - 1 = service[t].confirmed /\ first >= 1
    BY <1>2 DEF ServiceType
  <2>2. thread' = [thread EXCEPT ![t] = x] /\ thread[t].at = "asked"
        /\ service' = [service EXCEPT ![t] = service[t]]
    BY <1>2, <1>6 DEF Answer
  <2>3. CASE first > last
    <3>1. x \in ThreadType /\ x.at = "ready" /\ x.offset = thread[t].offset
      BY <1>2, <2>3 DEF ThreadType
    <3> HIDE DEF x
    <3>2. thread'[t] = x /\ service'[t] = service[t]
      BY <1>2, <2>2
    <3> QED
      BY <1>2, <2>2, <3>1, <3>2 DEF ThreadInv
  <2>4. CASE ~(first > last)
    <3>1. first \in 1 .. MaxUpdates + 1
      BY <1>2, <2>1, <2>4
    <3>2. /\ x \in ThreadType /\ x.at = "handling" /\ x.offset = last
          /\ x.next = first /\ x.upto = last
      BY <1>2, <2>1, <2>4, <3>1 DEF ThreadType
    <3> HIDE DEF x
    <3>3. thread'[t] = x /\ service'[t] = service[t]
      BY <1>2, <2>2
    <3>4. first <= last /\ last <= last
      BY <2>1, <2>4
    <3>5. ThreadInv(t)'
      BY <1>2, <2>1, <3>2, <3>3, <3>4 DEF ThreadInv
    <3> QED
      BY <1>2, <2>2, <3>2, <3>5
  <2> QED
    BY <2>3, <2>4
<1>7. CASE Handle(t)
  <2> DEFINE y == [service[t] EXCEPT !.handled = @ \cup {thread[t].next}]
             x == IF thread[t].next < thread[t].upto THEN [thread[t] EXCEPT !.next = @ + 1]
                  ELSE [thread[t] EXCEPT !.at = "ready", !.next = 1, !.upto = 0]
  <2>1. /\ thread[t].at = "handling" /\ thread' = [thread EXCEPT ![t] = x]
        /\ service' = [service EXCEPT ![t] = y]
    <3>1. thread[t].at = "handling" /\ service' = [service EXCEPT ![t] = y]
      BY <1>2, <1>7 DEF Handle
    <3>2. thread' = [thread EXCEPT ![t] = x]
      BY <1>7 DEF Handle
    <3> QED
      BY <3>1, <3>2
  <2>2. /\ thread[t].next \in Nat /\ thread[t].upto \in 0 .. MaxUpdates /\ thread[t].offset \in Nat
        /\ thread[t].next >= 1 /\ thread[t].next <= thread[t].upto
        /\ thread[t].offset <= thread[t].upto
        /\ 1 .. thread[t].next - 1 \subseteq service[t].handled
        /\ 1 .. service[t].confirmed \subseteq service[t].handled
    BY <1>2, <2>1 DEF ThreadType, ThreadInv
  <2>3. /\ y \in ServiceType /\ y.confirmed = service[t].confirmed
        /\ y.handled = service[t].handled \cup {thread[t].next}
    <3>1. thread[t].next \in Updates
      BY <1>2, <2>2 DEF Updates
    <3> QED
      BY <1>2, <3>1 DEF ServiceType
  <2>4. 1 .. thread[t].next \subseteq y.handled
    BY <2>2, <2>3
  <2>5. /\ x \in ThreadType /\ x.offset = thread[t].offset
        /\ \/ x.at = "ready" /\ x.offset <= thread[t].next
           \/ x.at = "handling" /\ x.next = thread[t].next + 1 /\ x.upto = thread[t].upto
              /\ thread[t].next < thread[t].upto
    <3>1. CASE thread[t].next < thread[t].upto
      BY <1>2, <2>1, <2>2, <3>1 DEF ThreadType
    <3>2. CASE ~(thread[t].next < thread[t].upto)
      <4>1. 1 \in 1 .. MaxUpdates + 1 /\ 0 \in 0 .. MaxUpdates
        BY <1>2
      <4>2. thread[t].offset <= thread[t].next
        BY <2>2, <3>2
      <4> QED
        BY <1>2, <3>2, <4>1, <4>2 DEF ThreadType
    <3> QED
      BY <3>1, <3>2
  <2> HIDE DEF x, y
  <2>6. thread'[t] = x /\ service'[t] = y
    BY <1>2, <2>1
  <2>7. ThreadInv(t)'
    <3>1. 1 .. y.confirmed \subseteq y.handled
      BY <2>2, <2>3
    <3>2. x.at \in {"ready", "asked"} => 1 .. x.offset \subseteq y.handled
      BY <2>2, <2>4, <2>5
    <3>3. x.at = "handling" =>
              /\ 1 .. x.next - 1 \subseteq y.handled
              /\ x.next <= x.upto /\ x.offset <= x.upto
      BY <2>2, <2>4, <2>5
    <3> QED
      BY <2>6, <3>1, <3>2, <3>3 DEF ThreadInv
  <2> QED
    BY <2>1, <2>3, <2>5, <2>7
<1>8. CASE EndThread(t) \/ PollFails(t) \/ Hang(t)
  <2>1. PICK stage \in {"none", "ready", "hung"} :
            /\ thread' = [thread EXCEPT ![t].at = stage] /\ UNCHANGED service
            /\ stage = "ready" => thread[t].at = "asked"
    BY <1>8 DEF EndThread, PollFails, Hang
  <2> DEFINE x == [thread[t] EXCEPT !.at = stage]
  <2>2. x \in ThreadType /\ x.at = stage /\ x.offset = thread[t].offset
    BY <1>2 DEF ThreadType
  <2>3. thread' = [thread EXCEPT ![t] = x] /\ service' = [service EXCEPT ![t] = service[t]]
    BY <1>2, <2>1
  <2> HIDE DEF x
  <2>4. thread'[t] = x /\ service'[t] = service[t]
    BY <1>2, <2>3
  <2>5. ThreadInv(t)'
    BY <1>2, <2>1, <2>2, <2>4 DEF ThreadInv
  <2> QED
    BY <1>2, <2>2, <2>3, <2>5
<1> QED
  BY <1>4, <1>5, <1>6, <1>7, <1>8 DEF Poll, Fault

LEMMA NextInv == IInv /\ [Next]_vars => IInv'
<1> SUFFICES ASSUME IInv, [Next]_vars PROVE IInv'
  OBVIOUS
<1>1. CASE UNCHANGED vars
  <2>1. TypeOK'
    BY <1>1, Types, TypesNext DEF IInv, vars
  <2> QED
    BY <1>1, <2>1 DEF vars, IInv, SeenInv, ReportTold, NeedsReconcile, RunInv, ThreadInv
<1>2. CASE Next
  BY <1>2, EditStep, EditUnseenStep, GoStaleStep, BeginStep, ReconcileStep, WorkStep, EndStep, ThreadStep DEF Next, Procs
<1> QED
  BY <1>1, <1>2

----
(* IInv is an inductive invariant. *)
THEOREM RuntimeInvariant == Spec => []IInv
BY InitInv, NextInv, PTL DEF Spec

(* The process, its threads and its files keep their type (TypeOK).         *)
THEOREM TypesKept == Spec => []TypeOK
BY RuntimeInvariant, PTL DEF IInv

(* What status tells of the report and of the running process is so         *)
(* (status_service.py: needs_reconcile, needs_restart).                     *)
THEOREM StatusIsTold == Spec => []StatusTold
<1>1. IInv => StatusTold
  <2> SUFFICES ASSUME IInv, main.at = "jobs", beat.fresh, ~main.hidden
               PROVE  NeedsRestart \/ main.config = config
    BY DEF IInv, SeenInv, StatusTold, RestartTold
  <2> QED
    BY Types DEF IInv, RunInv, NeedsRestart, MainType
<1> QED
  BY <1>1, RuntimeInvariant, PTL

(* A report that allows its configuration tells of one that can answer      *)
(* (ReconcileService over PreflightService).                                *)
THEOREM AllowedIsAnswered == Spec => []AllowedAnswers
<1>1. IInv => AllowedAnswers
  <2> SUFFICES ASSUME IInv, report.of # NoConfig PROVE Answers(Settings[report.of])
    BY DEF AllowedAnswers
  <2>1. Settings[report.of] \in Configuration
    BY Types, RuntimeConstants DEF IInv, ReportType
  <2> QED
    BY <2>1, AllowedCanAnswer
<1> QED
  BY <1>1, RuntimeInvariant, PTL

(* An update is confirmed to the service only after it was handled: none is *)
(* lost, whenever the process stops or dies (_poll_transport_loop).         *)
THEOREM ConfirmedIsHandled == Spec => []ConfirmedWasHandled
<1>1. IInv => ConfirmedWasHandled
  BY DEF IInv, ThreadInv, ConfirmedWasHandled
<1> QED
  BY <1>1, RuntimeInvariant, PTL
----
(* The poll threads implement UpdateDelivery.  Beyond IInv it takes where   *)
(* the process is with its threads: none runs before the process serves,    *)
(* and a plugin is stopped, and forgets its position, only after its thread *)
(* was told; and that a thread's position is the end of its batch.          *)

LifeInv ==
    /\ rec["runtime"].at # "idle" => main.at = "reconcile"
    /\ main.at \in {"down", "reconcile", "load", "stamp"} =>
           \A t \in Polled : thread[t].at = "none"
    /\ main.at = "start" => \A t \in main.todo \cap Polled : thread[t].at = "none"
    /\ main.at = "joining" =>
           /\ main.started # <<>>
           /\ LastStarted \in Polled => thread[LastStarted].stop

(* Thread x fits service y: it asks from what it confirms, and a batch that *)
(* it handles lies behind what is confirmed and ends at its position, which *)
(* only the stop of its plugin forgets.                                     *)
Fits(x, y) ==
    /\ x.at = "asked" => x.offset <= y.confirmed
    /\ x.at = "handling" =>
           /\ y.confirmed < x.next
           /\ x.upto <= y.arrived
           /\ \/ x.offset = x.upto
              \/ x.stop /\ x.offset = 0

PlaceInv == \A t \in Polled : Fits(thread[t], service[t])

(* What a step of a thread or of the service leaves of LifeInv              *)
LEMMA LifeOfThreads ==
    ASSUME LifeInv, UNCHANGED <<rec, main>>,
           \A t \in Polled : /\ thread[t].at = "none" => thread'[t].at = "none"
                             /\ thread[t].stop => thread'[t].stop
    PROVE  LifeInv'
BY DEF LifeInv, LastStarted

LEMMA LifeOfReconcile ==
    ASSUME IInv, LifeInv, NEW p \in Procs, Reconcile(p)
    PROVE  LifeInv'
<1>1. UNCHANGED thread /\ rec \in [Procs -> RecType] /\ main \in MainType
  BY Types DEF IInv, Reconcile, Inspect, LayOut, WriteReport, WriteEffective, WriteGood, Fails
<1>2. rec[p].at # "idle"
  BY DEF Reconcile, Inspect, LayOut, WriteReport, WriteEffective, WriteGood
<1>3. CASE p = "runtime"
  <2>1. main.at = "reconcile" /\ \A t \in Polled : thread[t].at = "none"
    BY <1>2, <1>3 DEF LifeInv
  <2>2. \/ main' = main
        \/ main'.at \in {"down", "load"} /\ rec'["runtime"].at = "idle"
    <3>1. CASE Fails(p)
      BY <1>1, <1>3, <3>1, Resting DEF Fails, Procs
    <3>2. CASE Returns(p)
      BY <1>1, <1>3, <3>2, Resting DEF Returns, Procs, MainType
    <3>3. CASE ~Fails(p) /\ ~Returns(p)
      BY <3>3 DEF Reconcile, Inspect, LayOut, WriteReport, WriteEffective, WriteGood
    <3> QED
      BY <3>1, <3>2, <3>3
  <2>3. CASE main' = main
    BY <1>1, <2>1, <2>3 DEF LifeInv
  <2>4. CASE main'.at \in {"down", "load"} /\ rec'["runtime"].at = "idle"
    BY <1>1, <2>1, <2>4 DEF LifeInv
  <2> QED
    BY <2>2, <2>3, <2>4
<1>4. CASE p = "command"
  <2>1. main' = main /\ rec'["runtime"] = rec["runtime"]
    BY <1>1, <1>4 DEF Reconcile, Inspect, LayOut, WriteReport, WriteEffective, WriteGood,
       Fails, Returns, Procs
  <2> QED
    BY <1>1, <2>1 DEF LifeInv, LastStarted
<1> QED
  BY <1>3, <1>4 DEF Procs

LEMMA LifeOfWork ==
    ASSUME IInv, LifeInv, Work
    PROVE  LifeInv'
<1>1. main \in MainType /\ rec \in [Procs -> RecType] /\ thread \in [Polled -> ThreadType]
  BY Types DEF IInv
<1>2. CASE Reconcile("runtime")
  BY <1>2, LifeOfReconcile DEF Procs
<1>3. CASE Load
  <2>1. main.at = "load" /\ rec["runtime"].at = "idle"
        /\ \A t \in Polled : thread[t].at = "none"
    BY <1>3 DEF Load, LifeInv
  <2>2. /\ main'.at \in {"down", "stamp"} /\ rec'["runtime"].at = "idle"
        /\ UNCHANGED thread
    BY <1>1, <1>3, <2>1, Resting DEF Load, Fails, MainType, Procs
  <2> QED
    BY <2>1, <2>2 DEF LifeInv
<1>4. CASE StampAndStartPanel
  <2> DEFINE todo == Enabled(Settings[main.config].transports)
  <2>1. main.at = "stamp" /\ rec["runtime"].at = "idle" /\ UNCHANGED <<rec, thread>>
        /\ \A t \in Polled : thread[t].at = "none"
    BY <1>4 DEF StampAndStartPanel, LifeInv
  <2>2. main'.at \in {"start", "loop", "stopping"}
    <3> HIDE DEF todo
    <3>1. \/ main' = [main EXCEPT !.at = StartOrLoop(todo), !.todo = todo]
          \/ main' = [main EXCEPT !.at = "stopping"]
      BY <1>4 DEF StampAndStartPanel, todo
    <3> QED
      BY <1>1, <3>1 DEF StartOrLoop, MainType
  <2> QED
    BY <2>1, <2>2 DEF LifeInv
<1>5. ASSUME NEW t \in Transports, StartTransport(t) PROVE LifeInv'
  <2> DEFINE todo == main.todo \ {t}
             over == [main EXCEPT !.at = StartOrLoop(todo), !.todo = todo]
  <2>1. over.at \in {"start", "loop"} /\ over.todo = main.todo \ {t} /\ over \in MainType
    BY <1>1 DEF StartOrLoop, MainType
  <2> HIDE DEF over
  <2>2. main' = over \/ main' = [over EXCEPT !.started = Append(@, t)]
    BY <1>5 DEF StartTransport, over
  <2>3. main'.at \in {"start", "loop"} /\ main'.todo = main.todo \ {t}
    BY <2>1, <2>2 DEF MainType
  <2>4. main.at = "start" /\ UNCHANGED rec /\ \A d \in Polled : d # t => thread'[d] = thread[d]
    BY <1>1, <1>5 DEF StartTransport
  <2> QED
    BY <2>3, <2>4 DEF LifeInv
<1>6. CASE Heartbeat \/ ScanFails \/ RunJobsAndWait \/ LeaveLoop
  <2>1. /\ main.at \in {"loop", "jobs"} /\ main'.at \in {"loop", "jobs", "stopping"}
        /\ UNCHANGED <<rec, thread>>
    BY <1>1, <1>6 DEF Heartbeat, ScanFails, RunJobsAndWait, LeaveLoop, MainType
  <2> QED
    BY <2>1 DEF LifeInv
<1>7. CASE TellThread
  <2>1. /\ main.at = "stopping" /\ main'.at = "joining" /\ UNCHANGED rec
        /\ main'.started = main.started /\ main.started # <<>>
    BY <1>1, <1>7 DEF TellThread, MainType
  <2>2. LastStarted' = LastStarted
    BY <2>1 DEF LastStarted
  <2>3. LastStarted \in Polled => thread'[LastStarted].stop
    BY <1>1, <1>7 DEF TellThread, ThreadType
  <2> QED
    BY <2>1, <2>2, <2>3 DEF LifeInv
<1>8. CASE StopPlugin
  <2>1. main.at = "joining" /\ main'.at = "stopping" /\ UNCHANGED rec
    BY <1>1, <1>8 DEF StopPlugin, MainType
  <2> QED
    BY <2>1 DEF LifeInv
<1>9. CASE Exit
  <2>1. main.at = "stopping" /\ main' = Down /\ UNCHANGED rec
        /\ thread' = [t \in Polled |-> NoThread]
    BY <1>9 DEF Exit
  <2> QED
    BY <2>1, Resting DEF LifeInv
<1> QED
  BY <1>2, <1>3, <1>4, <1>5, <1>6, <1>7, <1>8, <1>9 DEF Work

LEMMA LifeStep ==
    ASSUME IInv, LifeInv, [Next]_vars
    PROVE  LifeInv'
<1>1. main \in MainType /\ rec \in [Procs -> RecType] /\ thread \in [Polled -> ThreadType]
  BY Types DEF IInv
<1>2. ASSUME NEW c \in Configs \cup {Unreadable}, Edit(c) \/ EditUnseen(c)
      PROVE  LifeInv'
  <2>1. /\ main'.at = main.at /\ main'.todo = main.todo /\ main'.started = main.started
        /\ rec'["runtime"].at = rec["runtime"].at /\ UNCHANGED thread
    <3>1. CASE Edit(c)
      BY <1>1, <3>1 DEF Edit, MainType, Procs, RecType
    <3>2. CASE EditUnseen(c)
      <4>1. rec'["runtime"].at = rec["runtime"].at /\ UNCHANGED thread
        BY <1>1, <3>2 DEF EditUnseen, Procs, RecType
      <4>2. PICK sinceStart \in BOOLEAN :
                main' = [main EXCEPT !.hidden = main.at # "down", !.edited = sinceStart]
        BY <3>2 DEF EditUnseen
      <4> QED
        BY <1>1, <4>1, <4>2 DEF MainType
    <3> QED
      BY <1>2, <3>1, <3>2
  <2>2. LastStarted' = LastStarted
    BY <2>1 DEF LastStarted
  <2> QED
    BY <2>1, <2>2 DEF LifeInv
<1>3. CASE Command
  <2>1. UNCHANGED <<main, thread>> /\ rec'["runtime"] = rec["runtime"]
    BY <1>1, <1>3 DEF Command, Procs
  <2> QED
    BY <2>1 DEF LifeInv, LastStarted
<1>4. CASE Boot
  <2>1. main.at = "down" /\ main'.at = "reconcile" /\ UNCHANGED thread
    BY <1>4, Resting DEF Boot, MainType
  <2> QED
    BY <2>1 DEF LifeInv
<1>5. CASE Signal \/ GoStale
  BY <1>5, LifeOfThreads DEF Signal, GoStale
<1>6. CASE Die
  <2>1. main' = Down /\ rec'["runtime"].at = "idle" /\ thread' = [t \in Polled |-> NoThread]
    BY <1>1, <1>6, Resting DEF Die, Procs
  <2> QED
    BY <2>1, Resting DEF LifeInv
<1>7. ASSUME NEW t \in Polled, Arrive(t) \/ Poll(t) \/ Fault(t) PROVE LifeInv'
  <2>1. UNCHANGED <<rec, main>> /\ \A d \in Polled : d # t => thread'[d] = thread[d]
    BY <1>1, <1>7 DEF Arrive, Poll, Fault, Ask, Answer, Handle, EndThread, PollFails, Hang
  <2>2. thread[t].at = "none" => thread'[t].at = "none"
    BY <1>1, <1>7 DEF Arrive, Poll, Fault, Ask, Answer, Handle, EndThread, PollFails, Hang
  <2>3. thread'[t].stop = thread[t].stop
    <3>1. thread[t] \in ThreadType
      BY <1>1
    <3>2. CASE Arrive(t) \/ Ask(t) \/ EndThread(t) \/ PollFails(t) \/ Hang(t)
      BY <1>1, <3>1, <3>2 DEF Arrive, Ask, EndThread, PollFails, Hang, ThreadType
    <3>3. CASE Answer(t)
      <4> DEFINE x == IF service[t].confirmed + 1 > service[t].arrived
                      THEN [thread[t] EXCEPT !.at = "ready"]
                      ELSE [thread[t] EXCEPT !.at = "handling", !.offset = service[t].arrived,
                                             !.next = service[t].confirmed + 1,
                                             !.upto = service[t].arrived]
      <4>1. x.stop = thread[t].stop
        BY <3>1 DEF ThreadType
      <4>2. thread' = [thread EXCEPT ![t] = x]
        BY <3>3 DEF Answer
      <4> HIDE DEF x
      <4> QED
        BY <1>1, <4>1, <4>2
    <3>4. CASE Handle(t)
      <4> DEFINE over == [thread[t] EXCEPT !.at = "ready", !.next = 1, !.upto = 0]
                 onto(next) == [thread[t] EXCEPT !.next = next]
      <4>1. over.stop = thread[t].stop /\ \A next : onto(next).stop = thread[t].stop
        BY <3>1 DEF ThreadType
      <4>2. PICK x : thread' = [thread EXCEPT ![t] = x]
                     /\ (x = over \/ \E next : x = onto(next))
        BY <3>4 DEF Handle
      <4> HIDE DEF over, onto
      <4> QED
        BY <1>1, <4>1, <4>2
    <3> QED
      BY <1>7, <3>2, <3>3, <3>4 DEF Poll, Fault
  <2> QED
    BY <2>1, <2>2, <2>3, LifeOfThreads
<1>8. CASE UNCHANGED vars
  BY <1>8, LifeOfThreads DEF vars
<1> QED
  BY <1>2, <1>3, <1>4, <1>5, <1>6, <1>7, <1>8, LifeOfReconcile, LifeOfWork DEF Next, Procs

(* What the delivery sees of thread x of a transport with service y         *)
PlaceOf(x, y) ==
    IF x.at \in {"handling", "hung"} THEN x.next ELSE Larger(y.confirmed, x.offset) + 1

OpenOf(x) == x.at # "none" /\ ~x.stop

(* One thread with its service has changed                                  *)
LEMMA OneThread ==
    ASSUME TypeOK, PlaceInv, NEW t \in Polled, NEW x, NEW y, Fits(x, y),
           thread' = [thread EXCEPT ![t] = x], service' = [service EXCEPT ![t] = y]
    PROVE  /\ PlaceInv'
           /\ deliveryPlace' = [deliveryPlace EXCEPT ![t] = PlaceOf(x, y)]
           /\ deliveryOpen' = [deliveryOpen EXCEPT ![t] = OpenOf(x)]
           /\ [d \in Polled |-> service[d].arrived]' =
                  [[d \in Polled |-> service[d].arrived] EXCEPT ![t] = y.arrived]
           /\ [d \in Polled |-> service[d].confirmed]' =
                  [[d \in Polled |-> service[d].confirmed] EXCEPT ![t] = y.confirmed]
           /\ [d \in Polled |-> service[d].handled]' =
                  [[d \in Polled |-> service[d].handled] EXCEPT ![t] = y.handled]
<1>1. /\ \A d \in Polled : d # t => thread'[d] = thread[d] /\ service'[d] = service[d]
      /\ thread'[t] = x /\ service'[t] = y
  BY Types
<1>2. PlaceInv'
  BY <1>1 DEF PlaceInv, Fits
<1>3. /\ deliveryPlace' = [d \in Polled |-> IF d = t THEN PlaceOf(x, y) ELSE deliveryPlace[d]]
      /\ deliveryPlace = [d \in Polled |-> deliveryPlace[d]]
  BY <1>1 DEF deliveryPlace, PlaceOf
<1>4. /\ deliveryOpen' = [d \in Polled |-> IF d = t THEN OpenOf(x) ELSE deliveryOpen[d]]
      /\ deliveryOpen = [d \in Polled |-> deliveryOpen[d]]
  BY <1>1 DEF deliveryOpen, OpenOf
<1>5. /\ deliveryPlace' = [deliveryPlace EXCEPT ![t] = PlaceOf(x, y)]
      /\ deliveryOpen' = [deliveryOpen EXCEPT ![t] = OpenOf(x)]
  BY <1>3, <1>4
<1>6. [d \in Polled |-> service[d].arrived]' =
          [[d \in Polled |-> service[d].arrived] EXCEPT ![t] = y.arrived]
  <2>1. [d \in Polled |-> service[d].arrived]' =
            [d \in Polled |-> IF d = t THEN y.arrived ELSE service[d].arrived]
    BY <1>1
  <2> QED
    BY <2>1
<1>7. [d \in Polled |-> service[d].confirmed]' =
          [[d \in Polled |-> service[d].confirmed] EXCEPT ![t] = y.confirmed]
  <2>1. [d \in Polled |-> service[d].confirmed]' =
            [d \in Polled |-> IF d = t THEN y.confirmed ELSE service[d].confirmed]
    BY <1>1
  <2> QED
    BY <2>1
<1>8. [d \in Polled |-> service[d].handled]' =
          [[d \in Polled |-> service[d].handled] EXCEPT ![t] = y.handled]
  <2>1. [d \in Polled |-> service[d].handled]' =
            [d \in Polled |-> IF d = t THEN y.handled ELSE service[d].handled]
    BY <1>1
  <2> QED
    BY <2>1
<1> QED
  BY <1>2, <1>5, <1>6, <1>7, <1>8

(* Threads that close, and of which the closed ones may forget their place  *)
LEMMA ClosingMaps ==
    ASSUME UNCHANGED service,
           \A d \in Polled :
               /\ OpenOf(thread'[d]) => OpenOf(thread[d])
               /\ \/ PlaceOf(thread'[d], service[d]) = PlaceOf(thread[d], service[d])
                  \/ /\ ~OpenOf(thread'[d])
                     /\ PlaceOf(thread'[d], service[d]) = service[d].confirmed + 1
    PROVE  \E C \in SUBSET Polled : Delivery!Close(C)
<1> DEFINE C == {d \in Polled : ~OpenOf(thread'[d])}
           F == {d \in C : PlaceOf(thread'[d], service[d]) # PlaceOf(thread[d], service[d])}
<1>1. deliveryOpen' = [d \in Polled |-> deliveryOpen[d] /\ d \notin C]
  BY DEF deliveryOpen, OpenOf
<1>2. deliveryPlace' = [d \in Polled |-> IF d \in F THEN [c \in Polled |-> service[c].confirmed][d] + 1
                                         ELSE deliveryPlace[d]]
  BY DEF deliveryPlace, PlaceOf
<1>3. C \in SUBSET Polled /\ F \in SUBSET C
  OBVIOUS
<1> HIDE DEF C, F
<1>4. Delivery!Close(C)
  BY <1>1, <1>2, <1>3 DEF Delivery!Close
<1> QED
  BY <1>3, <1>4

(* ... and whose place is where it was                                      *)
LEMMA PlaceSame ==
    ASSUME NEW t \in Polled
    PROVE  /\ [deliveryPlace EXCEPT ![t] = deliveryPlace[t]] = deliveryPlace
           /\ [deliveryOpen EXCEPT ![t] = deliveryOpen[t]] = deliveryOpen
<1>1. /\ deliveryPlace = [d \in Polled |-> deliveryPlace[d]]
      /\ deliveryOpen = [d \in Polled |-> deliveryOpen[d]]
  BY DEF deliveryPlace, deliveryOpen
<1> QED
  BY <1>1

LEMMA LargerIs ==
    ASSUME NEW a \in Nat, NEW b \in Nat
    PROVE  /\ Larger(a, b) \in Nat /\ Larger(a, b) >= a /\ Larger(a, b) >= b
           /\ Larger(a, b) \in {a, b}
           /\ b <= a => Larger(a, b) = a
           /\ b >= a => Larger(a, b) = b
           /\ Larger(Larger(a, b), b) = Larger(a, b)
BY DEF Larger

(* An update arrives, or a poll confirms                                    *)
LEMMA AskMaps ==
    ASSUME IInv, PlaceInv, NEW t \in Polled, Arrive(t) \/ Ask(t)
    PROVE  PlaceInv' /\ (Delivery!Arrive(t) \/ Delivery!Confirm(t))
<1>1. /\ thread[t] \in ThreadType /\ service[t] \in ServiceType /\ TypeOK
      /\ thread \in [Polled -> ThreadType] /\ service \in [Polled -> ServiceType]
      /\ Fits(thread[t], service[t])
  BY Types DEF IInv, PlaceInv
<1>2. /\ thread[t].offset \in Nat /\ service[t].confirmed \in Nat /\ service[t].arrived \in Nat
      /\ thread[t].upto \in Nat
  BY <1>1, Resting DEF ThreadType, ServiceType
<1>3. CASE Arrive(t)
  <2> DEFINE x == thread[t]
             y == [service[t] EXCEPT !.arrived = @ + 1]
  <2>1. /\ y.arrived = service[t].arrived + 1 /\ y.confirmed = service[t].confirmed
        /\ y.handled = service[t].handled
    BY <1>1 DEF ServiceType
  <2>2. thread' = [thread EXCEPT ![t] = x] /\ service' = [service EXCEPT ![t] = y]
    BY <1>1, <1>3 DEF Arrive
  <2>3. UNCHANGED thread
    BY <1>3 DEF Arrive
  <2> HIDE DEF x, y
  <2>4. Fits(x, y)
    BY <1>1, <1>2, <2>1 DEF Fits, x
  <2>5. /\ PlaceInv'
        /\ deliveryPlace' = [deliveryPlace EXCEPT ![t] = PlaceOf(x, y)]
        /\ deliveryOpen' = [deliveryOpen EXCEPT ![t] = OpenOf(x)]
        /\ [d \in Polled |-> service[d].arrived]' =
               [[d \in Polled |-> service[d].arrived] EXCEPT ![t] = y.arrived]
        /\ [d \in Polled |-> service[d].confirmed]' =
               [[d \in Polled |-> service[d].confirmed] EXCEPT ![t] = y.confirmed]
        /\ [d \in Polled |-> service[d].handled]' =
               [[d \in Polled |-> service[d].handled] EXCEPT ![t] = y.handled]
    BY <1>1, <2>2, <2>4, OneThread
  <2>6. PlaceOf(x, y) = deliveryPlace[t] /\ OpenOf(x) = deliveryOpen[t]
    BY <2>1 DEF PlaceOf, OpenOf, deliveryPlace, deliveryOpen, x
  <2>7. deliveryPlace' = deliveryPlace /\ deliveryOpen' = deliveryOpen
    BY <2>5, <2>6, PlaceSame
  <2> QED
    BY <2>1, <2>5, <2>7 DEF Delivery!Arrive
<1>4. CASE Ask(t)
  <2> DEFINE x == [thread[t] EXCEPT !.at = "asked"]
             y == [service[t] EXCEPT !.confirmed = Larger(@, thread[t].offset)]
  <2>1. /\ y.arrived = service[t].arrived /\ y.handled = service[t].handled
        /\ y.confirmed = Larger(service[t].confirmed, thread[t].offset)
        /\ x.at = "asked" /\ x.stop = thread[t].stop /\ x.offset = thread[t].offset
    BY <1>1 DEF ThreadType, ServiceType
  <2>2. thread' = [thread EXCEPT ![t] = x] /\ service' = [service EXCEPT ![t] = y]
        /\ thread[t].at = "ready" /\ ~thread[t].stop
    BY <1>4 DEF Ask
  <2> HIDE DEF x, y
  <2>3. Fits(x, y)
    BY <1>2, <2>1, LargerIs DEF Fits
  <2>4. /\ PlaceInv'
        /\ deliveryPlace' = [deliveryPlace EXCEPT ![t] = PlaceOf(x, y)]
        /\ deliveryOpen' = [deliveryOpen EXCEPT ![t] = OpenOf(x)]
        /\ [d \in Polled |-> service[d].arrived]' =
               [[d \in Polled |-> service[d].arrived] EXCEPT ![t] = y.arrived]
        /\ [d \in Polled |-> service[d].confirmed]' =
               [[d \in Polled |-> service[d].confirmed] EXCEPT ![t] = y.confirmed]
        /\ [d \in Polled |-> service[d].handled]' =
               [[d \in Polled |-> service[d].handled] EXCEPT ![t] = y.handled]
    BY <1>1, <2>2, <2>3, OneThread
  <2>5. deliveryOpen[t] = TRUE /\ OpenOf(x) = TRUE
    BY <2>1, <2>2 DEF OpenOf, deliveryOpen
  <2>6. PlaceOf(x, y) = deliveryPlace[t] /\ y.confirmed = deliveryPlace[t] - 1
    <3> DEFINE larger == Larger(service[t].confirmed, thread[t].offset)
    <3>1. deliveryPlace[t] = larger + 1
      BY <2>2 DEF deliveryPlace
    <3>2. PlaceOf(x, y) = Larger(larger, thread[t].offset) + 1 /\ y.confirmed = larger
      BY <2>1 DEF PlaceOf
    <3>3. larger \in Nat /\ Larger(larger, thread[t].offset) = larger
      BY <1>2, LargerIs
    <3> HIDE DEF larger
    <3> QED
      BY <3>1, <3>2, <3>3
  <2>7. deliveryPlace' = deliveryPlace /\ deliveryOpen' = deliveryOpen
    BY <2>4, <2>6, <2>5, PlaceSame
  <2>8. /\ [d \in Polled |-> service[d].arrived]' = [d \in Polled |-> service[d].arrived]
        /\ [d \in Polled |-> service[d].handled]' = [d \in Polled |-> service[d].handled]
    BY <2>1, <2>4
  <2> QED
    BY <2>4, <2>5, <2>6, <2>7, <2>8 DEF Delivery!Confirm
<1> QED
  BY <1>3, <1>4

(* A thread is answered, fails to poll, hangs or ends, and keeps its place  *)
LEMMA AnswerMaps ==
    ASSUME IInv, PlaceInv, NEW t \in Polled,
           Answer(t) \/ EndThread(t) \/ PollFails(t) \/ Hang(t)
    PROVE  PlaceInv' /\ \E C \in SUBSET Polled : Delivery!Close(C)
<1>1. /\ thread[t] \in ThreadType /\ service[t] \in ServiceType /\ TypeOK
      /\ thread \in [Polled -> ThreadType] /\ service \in [Polled -> ServiceType]
      /\ Fits(thread[t], service[t])
  BY Types DEF IInv, PlaceInv
<1>2. /\ thread[t].offset \in Nat /\ service[t].confirmed \in Nat /\ service[t].arrived \in Nat
      /\ thread[t].upto \in Nat
  BY <1>1, Resting DEF ThreadType, ServiceType
<1>3. SUFFICES ASSUME NEW x, thread' = [thread EXCEPT ![t] = x], UNCHANGED service,
                      Fits(x, service[t]), OpenOf(x) => OpenOf(thread[t]),
                      PlaceOf(x, service[t]) = PlaceOf(thread[t], service[t])
               PROVE  PlaceInv' /\ \E C \in SUBSET Polled : Delivery!Close(C)
  <2>1. CASE Answer(t)
    <3> DEFINE first == service[t].confirmed + 1
               last  == service[t].arrived
               x == IF first > last THEN [thread[t] EXCEPT !.at = "ready"]
                    ELSE [thread[t] EXCEPT !.at = "handling", !.offset = last,
                                           !.next = first, !.upto = last]
    <3>1. /\ thread[t].at = "asked" /\ UNCHANGED service
          /\ thread' = [thread EXCEPT ![t] = x]
      BY <1>1, <2>1 DEF Answer
    <3>2. PlaceOf(thread[t], service[t]) = service[t].confirmed + 1
      BY <1>1, <1>2, <3>1, LargerIs DEF Fits, PlaceOf
    <3>3. CASE first > last
      <4>1. x.at = "ready" /\ x.stop = thread[t].stop /\ x.offset = thread[t].offset
        BY <1>1, <3>3 DEF ThreadType
      <4> HIDE DEF x
      <4>2. Fits(x, service[t]) /\ PlaceOf(x, service[t]) = PlaceOf(thread[t], service[t])
            /\ (OpenOf(x) => OpenOf(thread[t]))
        BY <3>1, <4>1 DEF Fits, PlaceOf, OpenOf
      <4> QED
        BY <1>3, <3>1, <4>2
    <3>4. CASE ~(first > last)
      <4>1. /\ x.at = "handling" /\ x.stop = thread[t].stop /\ x.offset = last
            /\ x.next = first /\ x.upto = last
        BY <1>1, <3>4 DEF ThreadType
      <4> HIDE DEF x
      <4>2. /\ Fits(x, service[t]) /\ (OpenOf(x) => OpenOf(thread[t]))
            /\ PlaceOf(x, service[t]) = PlaceOf(thread[t], service[t])
        BY <1>2, <3>1, <3>2, <4>1 DEF Fits, PlaceOf, OpenOf
      <4> QED
        BY <1>3, <3>1, <4>2
    <3> QED
      BY <3>3, <3>4
  <2>2. CASE EndThread(t) \/ PollFails(t) \/ Hang(t)
    <3>1. PICK stage \in {"none", "ready", "hung"} :
              /\ thread' = [thread EXCEPT ![t].at = stage] /\ UNCHANGED service
              /\ stage = "none" => thread[t].at = "ready"
              /\ stage = "ready" => thread[t].at = "asked"
              /\ stage = "hung" => thread[t].at = "handling"
      BY <2>2 DEF EndThread, PollFails, Hang
    <3> DEFINE x == [thread[t] EXCEPT !.at = stage]
    <3>2. /\ x.at = stage /\ x.stop = thread[t].stop /\ x.offset = thread[t].offset
          /\ x.next = thread[t].next
      BY <1>1 DEF ThreadType
    <3>3. thread' = [thread EXCEPT ![t] = x]
      BY <1>1, <3>1
    <3> HIDE DEF x
    <3>4. /\ Fits(x, service[t]) /\ (OpenOf(x) => OpenOf(thread[t]))
          /\ PlaceOf(x, service[t]) = PlaceOf(thread[t], service[t])
      BY <3>1, <3>2 DEF Fits, PlaceOf, OpenOf
    <3> QED
      BY <1>3, <3>1, <3>3, <3>4
  <2> QED
    BY <2>1, <2>2
<1>4. service' = [service EXCEPT ![t] = service[t]]
  BY <1>1, <1>3
<1>5. PlaceInv'
  BY <1>1, <1>3, <1>4, OneThread
<1>6. thread'[t] = x /\ \A d \in Polled : d # t => thread'[d] = thread[d]
  BY <1>1, <1>3
<1> QED
  BY <1>3, <1>5, <1>6, ClosingMaps

(* A thread handles the event that its place is at                          *)
LEMMA HandleMaps ==
    ASSUME IInv, PlaceInv, NEW t \in Polled, Handle(t)
    PROVE  PlaceInv' /\ Delivery!Handle(t)
<1>1. /\ thread[t] \in ThreadType /\ service[t] \in ServiceType /\ TypeOK
      /\ thread \in [Polled -> ThreadType] /\ service \in [Polled -> ServiceType]
      /\ Fits(thread[t], service[t]) /\ ThreadInv(t) /\ thread[t].at = "handling"
  BY Types DEF IInv, PlaceInv, Handle
<1> DEFINE next == thread[t].next
           y == [service[t] EXCEPT !.handled = @ \cup {next}]
           x == IF next < thread[t].upto THEN [thread[t] EXCEPT !.next = next + 1]
                ELSE [thread[t] EXCEPT !.at = "ready", !.next = 1, !.upto = 0]
<1>2. /\ next \in Nat /\ thread[t].upto \in Nat /\ thread[t].offset \in Nat
      /\ service[t].confirmed \in Nat /\ service[t].arrived \in Nat
      /\ next <= thread[t].upto /\ thread[t].upto <= service[t].arrived
      /\ service[t].confirmed < next
      /\ \/ thread[t].offset = thread[t].upto
         \/ thread[t].stop /\ thread[t].offset = 0
  BY <1>1, Resting DEF ThreadType, ServiceType, ThreadInv, Fits
<1>3. thread' = [thread EXCEPT ![t] = x] /\ service' = [service EXCEPT ![t] = y]
  <2>1. service' = [service EXCEPT ![t] = y]
    BY <1>1 DEF Handle
  <2>2. thread' = [thread EXCEPT ![t] = x]
    BY DEF Handle
  <2> QED
    BY <2>1, <2>2
<1>4. /\ y.arrived = service[t].arrived /\ y.confirmed = service[t].confirmed
      /\ y.handled = service[t].handled \cup {next}
  BY <1>1 DEF ServiceType
<1>5. /\ x.stop = thread[t].stop /\ x.offset = thread[t].offset
      /\ \/ next < thread[t].upto /\ x.at = "handling" /\ x.next = next + 1
            /\ x.upto = thread[t].upto
         \/ next = thread[t].upto /\ x.at = "ready"
  <2>1. CASE next < thread[t].upto
    BY <1>1, <2>1 DEF ThreadType
  <2>2. CASE ~(next < thread[t].upto)
    <3>1. next = thread[t].upto
      BY <1>2, <2>2
    <3> QED
      BY <1>1, <2>2, <3>1 DEF ThreadType
  <2> QED
    BY <2>1, <2>2
<1> HIDE DEF x, y
<1>6. Fits(x, y)
  BY <1>2, <1>4, <1>5 DEF Fits
<1>7. deliveryPlace[t] = next /\ next <= service[t].arrived
  BY <1>1, <1>2 DEF deliveryPlace
<1>8. OpenOf(x) = deliveryOpen[t]
  BY <1>1, <1>5 DEF OpenOf, deliveryOpen
<1>9. \/ PlaceOf(x, y) = next + 1
      \/ ~deliveryOpen[t] /\ PlaceOf(x, y) = service[t].confirmed + 1
  <2>1. CASE x.at = "handling"
    BY <1>5, <2>1 DEF PlaceOf
  <2>2. CASE x.at = "ready"
    <3>1. next = thread[t].upto
          /\ PlaceOf(x, y) = Larger(service[t].confirmed, thread[t].offset) + 1
      BY <1>4, <1>5, <2>2 DEF PlaceOf
    <3>2. CASE thread[t].offset = thread[t].upto
      <4>1. Larger(service[t].confirmed, thread[t].offset) = next
        BY <1>2, <3>1, <3>2 DEF Larger
      <4> QED
        BY <3>1, <4>1
    <3>3. CASE thread[t].stop /\ thread[t].offset = 0
      <4>1. Larger(service[t].confirmed, 0) = service[t].confirmed
        BY <1>2 DEF Larger
      <4>2. ~deliveryOpen[t]
        BY <3>3 DEF deliveryOpen
      <4> QED
        BY <3>1, <3>3, <4>1, <4>2
    <3> QED
      BY <1>2, <3>2, <3>3
  <2> QED
    BY <1>5, <2>1, <2>2
<1>10. /\ PlaceInv'
       /\ deliveryPlace' = [deliveryPlace EXCEPT ![t] = PlaceOf(x, y)]
       /\ deliveryOpen' = [deliveryOpen EXCEPT ![t] = OpenOf(x)]
       /\ [d \in Polled |-> service[d].arrived]' =
              [[d \in Polled |-> service[d].arrived] EXCEPT ![t] = y.arrived]
       /\ [d \in Polled |-> service[d].confirmed]' =
              [[d \in Polled |-> service[d].confirmed] EXCEPT ![t] = y.confirmed]
       /\ [d \in Polled |-> service[d].handled]' =
              [[d \in Polled |-> service[d].handled] EXCEPT ![t] = y.handled]
  BY <1>1, <1>3, <1>6, OneThread
<1>11. /\ [d \in Polled |-> service[d].arrived]' = [d \in Polled |-> service[d].arrived]
       /\ [d \in Polled |-> service[d].confirmed]' = [d \in Polled |-> service[d].confirmed]
       /\ deliveryOpen' = deliveryOpen
  <2>1. deliveryOpen' = deliveryOpen
    BY <1>8, <1>10, PlaceSame
  <2>2. [d \in Polled |-> service[d].arrived]' = [d \in Polled |-> service[d].arrived]
    BY <1>4, <1>10
  <2>3. [d \in Polled |-> service[d].confirmed]' = [d \in Polled |-> service[d].confirmed]
    BY <1>4, <1>10
  <2> QED
    BY <2>1, <2>2, <2>3
<1>12. \/ deliveryPlace' = [deliveryPlace EXCEPT ![t] = @ + 1]
       \/ /\ ~deliveryOpen[t]
          /\ deliveryPlace' = [deliveryPlace EXCEPT
                                   ![t] = [d \in Polled |-> service[d].confirmed][t] + 1]
  BY <1>7, <1>9, <1>10
<1>13. [d \in Polled |-> service[d].handled]' =
           [[d \in Polled |-> service[d].handled] EXCEPT ![t] = @ \cup {deliveryPlace[t]}]
  BY <1>4, <1>7, <1>10
<1> HIDE DEF next
<1> QED
  BY <1>7, <1>10, <1>11, <1>12, <1>13 DEF Delivery!Handle

(* The process starts a thread, which goes on behind what is confirmed      *)
LEMMA StartMaps ==
    ASSUME IInv, PlaceInv, LifeInv, NEW t \in Transports, StartTransport(t)
    PROVE  PlaceInv' /\ (UNCHANGED <<thread, service>> \/ \E d \in Polled : Delivery!Open(d))
<1>1. CASE UNCHANGED thread
  BY <1>1 DEF StartTransport, PlaceInv, Fits
<1> DEFINE x == [NoThread EXCEPT !.at = "ready"]
<1>2. CASE t \in Polled /\ thread' = [thread EXCEPT ![t] = x]
  <2>1. main.at = "start" /\ t \in main.todo /\ UNCHANGED service
    BY DEF StartTransport
  <2>2. TypeOK /\ service \in [Polled -> ServiceType]
    BY Types DEF IInv
  <2>3. x.at = "ready" /\ x.stop = FALSE /\ x.offset = 0
    BY DEF NoThread
  <2> HIDE DEF x
  <2>4. Fits(x, service[t]) /\ service' = [service EXCEPT ![t] = service[t]]
    BY <2>1, <2>2, <2>3 DEF Fits
  <2> DEFINE y == service[t]
  <2> HIDE DEF y
  <2>5. Fits(x, y) /\ service' = [service EXCEPT ![t] = y] /\ thread' = [thread EXCEPT ![t] = x]
    BY <1>2, <2>4 DEF y
  <2>6. /\ PlaceInv'
        /\ deliveryPlace' = [deliveryPlace EXCEPT ![t] = PlaceOf(x, y)]
        /\ deliveryOpen' = [deliveryOpen EXCEPT ![t] = OpenOf(x)]
        /\ [d \in Polled |-> service[d].arrived]' =
               [[d \in Polled |-> service[d].arrived] EXCEPT ![t] = y.arrived]
        /\ [d \in Polled |-> service[d].confirmed]' =
               [[d \in Polled |-> service[d].confirmed] EXCEPT ![t] = y.confirmed]
        /\ [d \in Polled |-> service[d].handled]' =
               [[d \in Polled |-> service[d].handled] EXCEPT ![t] = y.handled]
    <3>1. t \in Polled
      BY <1>2
    <3> QED
      BY <2>2, <2>5, <3>1, OneThread
  <2>7. ~deliveryOpen[t] /\ OpenOf(x) = TRUE
    BY <1>2, <2>1, <2>3 DEF LifeInv, deliveryOpen, OpenOf
  <2>8. PlaceOf(x, y) = [d \in Polled |-> service[d].confirmed][t] + 1
    <3>1. service[t].confirmed \in Nat
      BY <1>2, <2>2, Resting DEF ServiceType
    <3> QED
      BY <1>2, <2>3, <3>1 DEF PlaceOf, Larger, y
  <2> QED
    BY <1>2, <2>1, <2>6, <2>7, <2>8 DEF Delivery!Open
<1> QED
  BY <1>1, <1>2 DEF StartTransport

(* The process stops its threads, or ends with them                         *)
LEMMA StopMaps ==
    ASSUME IInv, PlaceInv, LifeInv, TellThread \/ StopPlugin \/ Exit \/ Die
    PROVE  PlaceInv' /\ \E C \in SUBSET Polled : Delivery!Close(C)
<1>1. /\ thread \in [Polled -> ThreadType] /\ service \in [Polled -> ServiceType]
      /\ UNCHANGED service
  BY Types DEF IInv, TellThread, StopPlugin, Exit, Die
<1>2. \A d \in Polled :
          /\ service[d].confirmed \in Nat /\ thread[d].offset \in Nat
          /\ thread[d] \in ThreadType
  BY <1>1, Resting DEF ServiceType, ThreadType
<1>3. ASSUME NEW d \in Polled
      PROVE  \/ thread'[d] = thread[d]
             \/ thread'[d] = NoThread
             \/ thread'[d] = [thread[d] EXCEPT !.stop = TRUE]
             \/ thread[d].stop /\ thread'[d] = [thread[d] EXCEPT !.offset = 0]
  <2>1. CASE TellThread
    BY <1>1, <2>1 DEF TellThread
  <2>2. CASE StopPlugin
    BY <1>1, <2>2 DEF StopPlugin, LifeInv
  <2>3. CASE Exit \/ Die
    BY <2>3 DEF Exit, Die
  <2> QED
    BY <2>1, <2>2, <2>3
<1>4. ASSUME NEW d \in Polled
      PROVE  /\ Fits(thread'[d], service[d])
             /\ OpenOf(thread'[d]) => OpenOf(thread[d])
             /\ \/ PlaceOf(thread'[d], service[d]) = PlaceOf(thread[d], service[d])
                \/ /\ ~OpenOf(thread'[d])
                   /\ PlaceOf(thread'[d], service[d]) = service[d].confirmed + 1
  <2>0. Fits(thread[d], service[d]) /\ thread[d] \in ThreadType
        /\ Larger(service[d].confirmed, 0) = service[d].confirmed
    BY <1>2, LargerIs DEF PlaceInv
  <2>1. CASE thread'[d] = thread[d]
    BY <2>0, <2>1
  <2>2. CASE thread'[d] = NoThread
    BY <2>0, <2>2, Resting DEF Fits, OpenOf, PlaceOf
  <2>3. CASE thread'[d] = [thread[d] EXCEPT !.stop = TRUE]
    <3> DEFINE x == [thread[d] EXCEPT !.stop = TRUE]
    <3>1. /\ x.at = thread[d].at /\ x.stop = TRUE /\ x.offset = thread[d].offset
          /\ x.next = thread[d].next /\ x.upto = thread[d].upto
      BY <2>0 DEF ThreadType
    <3>2. thread'[d] = x
      BY <2>3
    <3> HIDE DEF x
    <3> QED
      BY <2>0, <3>1, <3>2 DEF Fits, OpenOf, PlaceOf
  <2>4. CASE thread[d].stop /\ thread'[d] = [thread[d] EXCEPT !.offset = 0]
    <3> DEFINE x == [thread[d] EXCEPT !.offset = 0]
    <3>1. /\ x.at = thread[d].at /\ x.stop = thread[d].stop /\ x.offset = 0
          /\ x.next = thread[d].next /\ x.upto = thread[d].upto
      BY <2>0 DEF ThreadType
    <3>2. thread'[d] = x /\ thread[d].stop
      BY <2>4
    <3> HIDE DEF x
    <3>3. Fits(x, service[d])
      BY <1>2, <2>0, <3>1, <3>2 DEF Fits
    <3> QED
      BY <2>0, <3>1, <3>2, <3>3 DEF OpenOf, PlaceOf
  <2> QED
    BY <1>3, <2>1, <2>2, <2>3, <2>4
<1>5. PlaceInv'
  BY <1>1, <1>4 DEF PlaceInv
<1> QED
  BY <1>1, <1>4, <1>5, ClosingMaps

(* Every step of the runtime is a step of the delivery, or none             *)
LEMMA StepMaps ==
    IInv /\ LifeInv /\ PlaceInv /\ [Next]_vars
        => PlaceInv' /\ [Delivery!DeliveryNext]_(Delivery!deliveryVars)
<1> SUFFICES ASSUME IInv, LifeInv, PlaceInv, [Next]_vars
             PROVE  /\ PlaceInv'
                    /\ Delivery!DeliveryNext \/ UNCHANGED <<thread, service>>
  BY DEF Delivery!deliveryVars, deliveryPlace, deliveryOpen
<1> USE DEF Delivery!DeliveryNext
<1>1. ASSUME UNCHANGED <<thread, service>>
      PROVE  PlaceInv'
  BY <1>1 DEF PlaceInv, Fits
<1>2. CASE \/ \E c \in Configs \cup {Unreadable} : Edit(c) \/ EditUnseen(c)
           \/ GoStale \/ Command \/ Boot \/ Signal
  BY <1>1, <1>2 DEF Edit, EditUnseen, GoStale, Command, Boot, Signal
<1>3. ASSUME NEW p \in Procs, Reconcile(p)
      PROVE  UNCHANGED <<thread, service>>
  BY <1>3 DEF Reconcile, Inspect, LayOut, WriteReport, WriteEffective, WriteGood, Fails
<1>4. CASE Work
  <2>1. CASE Reconcile("runtime")
    BY <1>1, <1>3, <2>1 DEF Procs
  <2>2. CASE Load \/ StampAndStartPanel \/ Heartbeat \/ ScanFails \/ RunJobsAndWait \/ LeaveLoop
    BY <1>1, <2>2 DEF Load, Fails, StampAndStartPanel, Heartbeat, ScanFails, RunJobsAndWait,
       LeaveLoop
  <2>3. ASSUME NEW t \in Transports, StartTransport(t)
        PROVE  PlaceInv' /\ (Delivery!DeliveryNext \/ UNCHANGED <<thread, service>>)
    BY <2>3, StartMaps
  <2>4. CASE TellThread \/ StopPlugin \/ Exit
    BY <2>4, StopMaps
  <2> QED
    BY <1>4, <2>1, <2>2, <2>3, <2>4 DEF Work
<1>5. CASE Reconcile("command")
  BY <1>1, <1>3, <1>5 DEF Procs
<1>6. CASE Die
  BY <1>6, StopMaps
<1>7. ASSUME NEW t \in Polled, Arrive(t) \/ Poll(t) \/ Fault(t)
      PROVE  PlaceInv' /\ Delivery!DeliveryNext
  BY <1>7, AskMaps, AnswerMaps, HandleMaps DEF Poll, Fault
<1>8. CASE UNCHANGED vars
  BY <1>1, <1>8 DEF vars
<1> QED
  BY <1>2, <1>4, <1>5, <1>6, <1>7, <1>8 DEF Next

(* The poll threads implement the delivery (_poll_transport_loop over the   *)
(* transports' pollers): in order, none twice while a thread goes on, and   *)
(* none again that was confirmed.                                           *)
THEOREM Refinement == Spec => KeepsDelivery
<1>1. Init => LifeInv /\ PlaceInv /\ Delivery!DeliveryInit
  <2> SUFFICES ASSUME Init PROVE LifeInv /\ PlaceInv /\ Delivery!DeliveryInit
    OBVIOUS
  <2>1. LifeInv /\ PlaceInv
    BY Resting DEF Init, LifeInv, PlaceInv, Fits, Procs
  <2>2. /\ deliveryPlace = [t \in Polled |-> 1]
        /\ deliveryOpen = [t \in Polled |-> FALSE]
    <3>1. ASSUME NEW t \in Polled
          PROVE  /\ thread[t].at = "none" /\ thread[t].offset = 0
                 /\ service[t].confirmed = 0
      BY DEF Init, NoThread
    <3>2. Larger(0, 0) + 1 = 1
      BY DEF Larger
    <3>3. ASSUME NEW t \in Polled
          PROVE  /\ (IF thread[t].at \in {"handling", "hung"} THEN thread[t].next
                     ELSE Larger(service[t].confirmed, thread[t].offset) + 1) = 1
                 /\ (thread[t].at # "none" /\ ~thread[t].stop) = FALSE
      BY <3>1, <3>2
    <3> QED
      BY <3>3 DEF deliveryPlace, deliveryOpen
  <2>3. Delivery!DeliveryInit
    BY <2>2 DEF Init, Delivery!DeliveryInit
  <2> QED
    BY <2>1, <2>3
<1>2. IInv /\ LifeInv /\ [Next]_vars => LifeInv'
  BY LifeStep
<1> QED
  BY <1>1, <1>2, StepMaps, RuntimeInvariant, PTL DEF Spec, KeepsDelivery, Delivery!DeliverySpec
=============================================================================
