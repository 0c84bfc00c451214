--------------------------- MODULE RuntimeLifecycle ---------------------------
(* The runtime process (RuntimeAgent.serve), the reconciliation it starts   *)
(* with and that `nagient reconcile` runs beside it (ReconcileService), and *)
(* the poll threads of its transports, against a message service that       *)
(* delivers an update again until a poll confirms it. The operator edits    *)
(* the configuration at any time; the process can be told to stop, and can  *)
(* die. Preflight.tla says what an inspection of a configuration finds.     *)
(*                                                                          *)
(* File times are compared and never shown, so a comparison is kept instead *)
(* of the times: the newest time of the watched files that exist is after   *)
(* the report (report.older), after the start that the heartbeat tells      *)
(* (beat.edited), after the start of this process (main.edited). The times  *)
(* do not tell of every edit: hidden says that one was missed.              *)
EXTENDS Preflight, Naturals, Sequences

CONSTANTS
    Configs,        \* configurations the operator writes
    Settings,       \* what each of them says
    First,          \* the one that the setup wrote
    Unreadable,     \* a config.toml that does not parse
    NoConfig,
    Polled,         \* the transports whose plugin polls
    MaxEdits,       \* bound: edits of the configuration
    MaxUpdates,     \* bound: updates per transport
    MaxStarts,      \* bound: starts of the process and reconcile commands
    MaxFaults       \* bound: lost poll answers, hung handlers

ASSUME RuntimeConstants ==
    /\ Settings \in [Configs -> Configuration]
    /\ First \in Configs
    /\ Unreadable \notin Configs
    /\ NoConfig \notin Configs \cup {Unreadable}
    /\ Polled \subseteq Transports
    /\ {MaxEdits, MaxUpdates, MaxStarts, MaxFaults} \subseteq Nat

VARIABLES
    config,     \* config.toml and the secrets and plugins it refers to
    report,     \* activation-report.json: of which configuration
    kept,       \* effective-config.json and last-known-good.json
    beat,       \* heartbeat.json
    rec,        \* the two processes that reconcile
    main,       \* the runtime process
    thread,     \* its poll threads
    service,    \* the message service behind each polled transport
    signal,     \* SIGINT or SIGTERM has arrived
    used        \* what is used of the bounds

vars == <<config, report, kept, beat, rec, main, thread, service, signal, used>>

Procs == {"runtime", "command"}

Updates == 1 .. MaxUpdates

NoReconcile == [at |-> "idle", seen |-> NoConfig, hidden |-> FALSE]

Down == [at |-> "down", seen |-> NoConfig, config |-> NoConfig,
         hidden |-> FALSE, edited |-> FALSE, todo |-> {}, started |-> <<>>]

(* offset is the poll position that the plugin keeps in memory, 0 for none. *)
NoThread == [at |-> "none", stop |-> FALSE, offset |-> 0, next |-> 1, upto |-> 0]

TypeOK ==
    /\ config \in Configs \cup {Unreadable}
    /\ report \in [of : Configs \cup {NoConfig}, older : BOOLEAN, hidden : BOOLEAN]
    /\ kept \in [effective : Configs \cup {NoConfig}, good : Configs \cup {NoConfig}]
    /\ beat \in [there : BOOLEAN, fresh : BOOLEAN, edited : BOOLEAN]
    /\ rec \in [Procs -> [at : {"idle", "inspect", "layout", "report", "effective", "good"},
                          seen : Configs \cup {NoConfig}, hidden : BOOLEAN]]
    /\ main \in [at : {"down", "reconcile", "load", "stamp", "start", "loop",
                       "jobs", "stopping", "joining"},
                 seen : Configs \cup {NoConfig}, config : Configs \cup {NoConfig},
                 hidden : BOOLEAN, edited : BOOLEAN, todo : SUBSET Transports, started : Seq(Transports)]
    /\ thread \in [Polled -> [at : {"none", "ready", "asked", "handling", "hung"},
                              stop : BOOLEAN, offset : 0 .. MaxUpdates,
                              next : 1 .. MaxUpdates + 1, upto : 0 .. MaxUpdates]]
    /\ service \in [Polled -> [arrived : 0 .. MaxUpdates, confirmed : 0 .. MaxUpdates,
                               handled : SUBSET Updates]]
    /\ signal \in BOOLEAN
    /\ used \in [edits : 0 .. MaxEdits, starts : 0 .. MaxStarts,
                 faults : 0 .. MaxFaults]

Init ==
    /\ config = First
    /\ report = [of |-> NoConfig, older |-> FALSE, hidden |-> FALSE]
    /\ kept = [effective |-> NoConfig, good |-> NoConfig]
    /\ beat = [there |-> FALSE, fresh |-> FALSE, edited |-> FALSE]
    /\ rec = [p \in Procs |-> NoReconcile]
    /\ main = Down
    /\ thread = [t \in Polled |-> NoThread]
    /\ service = [t \in Polled |-> [arrived |-> 0, confirmed |-> 0, handled |-> {}]]
    /\ signal = FALSE
    /\ used = [edits |-> 0, starts |-> 0, faults |-> 0]

Use(what) == [used EXCEPT ![what] = @ + 1]

(* The configuration this process runs on may have changed while it loaded. *)
Loading == main.at \in {"reconcile", "load", "stamp"}

-----------------------------------------------------------------------------
(* The operator edits the configuration, and the file that is written gets  *)
(* a time of its own.                                                       *)
Edit(c) ==
    /\ used.edits < MaxEdits
    /\ c # config
    /\ config' = c
    /\ report' = [report EXCEPT !.older = report.of # NoConfig]
    /\ beat' = [beat EXCEPT !.edited = beat.there]
    /\ rec' = [p \in Procs |-> [rec[p] EXCEPT !.hidden = rec[p].at # "idle"]]
    /\ main' = [main EXCEPT !.hidden = @ \/ Loading,
                            !.edited = main.at # "down" /\ ~Loading]
    /\ used' = Use("edits")
    /\ UNCHANGED <<kept, thread, service, signal>>

(* An edit that leaves no new time: a logout or the removal of a plugin     *)
(* takes its files away, a copied file may keep the time it had. The newest *)
(* time stays or falls, and what was newer before may not be any more; what *)
(* is after the start of this process is after any earlier start too.       *)
EditUnseen(c) ==
    /\ used.edits < MaxEdits
    /\ c # config
    /\ config' = c
    /\ \E older, sinceBeat, sinceStart \in BOOLEAN :
        /\ older => report.older
        /\ sinceBeat => beat.edited
        /\ sinceStart => main.edited /\ (beat.there => sinceBeat)
        /\ report' = [report EXCEPT !.older = older,
                                    !.hidden = report.of # NoConfig]
        /\ beat' = [beat EXCEPT !.edited = sinceBeat]
        /\ main' = [main EXCEPT !.hidden = main.at # "down",
                                !.edited = sinceStart]
    /\ rec' = [p \in Procs |-> [rec[p] EXCEPT !.hidden = rec[p].at # "idle"]]
    /\ used' = Use("edits")
    /\ UNCHANGED <<kept, thread, service, signal>>

(* The heartbeat gets older than the grace of two intervals: a job takes    *)
(* long, or the process is gone.                                            *)
GoStale ==
    /\ beat.fresh
    /\ beat' = [beat EXCEPT !.fresh = FALSE]
    /\ UNCHANGED <<config, report, kept, rec, main, thread, service, signal, used>>

(* What the status command concludes from the times of the files: that the  *)
(* runtime, if its heartbeat is fresh, is to be restarted, and that the     *)
(* report is to be refreshed.                                               *)
NeedsRestart == beat.fresh /\ beat.edited

(* One that compares with the start of the runtime in both cases.           *)
NeedsReconcileSinceStart == report.of = NoConfig \/ NeedsRestart

NeedsReconcile == report.of = NoConfig \/ report.older

-----------------------------------------------------------------------------
(* Reconciliation, by the runtime as it starts or by the command. An        *)
(* exception ends the process; the runtime has not entered its try yet.     *)

Fails(p) ==
    /\ rec' = [rec EXCEPT ![p] = NoReconcile]
    /\ main' = IF p = "runtime" THEN Down ELSE main
    /\ signal' = IF p = "runtime" THEN FALSE ELSE signal
    /\ UNCHANGED <<config, report, kept, beat, thread, service, used>>

Returns(p) ==
    /\ rec' = [rec EXCEPT ![p] = NoReconcile]
    /\ main' = IF p = "runtime"
               THEN [main EXCEPT !.at = "load", !.seen = rec[p].seen]
               ELSE main

Command ==
    /\ rec["command"].at = "idle"
    /\ used.starts < MaxStarts
    /\ rec' = [rec EXCEPT !["command"].at = "inspect"]
    /\ used' = Use("starts")
    /\ UNCHANGED <<config, report, kept, beat, main, thread, service, signal>>

Inspect(p) ==
    /\ rec[p].at = "inspect"
    /\ \/ /\ config # Unreadable
          /\ rec' = [rec EXCEPT ![p] = [at |-> "layout", seen |-> config, hidden |-> FALSE]]
          /\ UNCHANGED <<config, report, kept, beat, main, thread, service, signal, used>>
       \/ config = Unreadable /\ Fails(p)

(* The configuration is loaded once more for the workspace's layout.        *)
LayOut(p) ==
    /\ rec[p].at = "layout"
    /\ \/ /\ config # Unreadable
          /\ rec' = [rec EXCEPT ![p].at = "report"]
          /\ UNCHANGED <<config, report, kept, beat, main, thread, service, signal, used>>
       \/ config = Unreadable /\ Fails(p)

WriteReport(p) ==
    /\ rec[p].at = "report"
    /\ report' = [of |-> rec[p].seen, older |-> FALSE, hidden |-> rec[p].hidden]
    /\ IF CanActivate(Settings[rec[p].seen])
       THEN rec' = [rec EXCEPT ![p].at = "effective"] /\ UNCHANGED main
       ELSE Returns(p)
    /\ UNCHANGED <<config, kept, beat, thread, service, signal, used>>

WriteEffective(p) ==
    /\ rec[p].at = "effective"
    /\ kept' = [kept EXCEPT !.effective = rec[p].seen]
    /\ rec' = [rec EXCEPT ![p].at = "good"]
    /\ UNCHANGED <<config, report, beat, main, thread, service, signal, used>>

WriteGood(p) ==
    /\ rec[p].at = "good"
    /\ kept' = [kept EXCEPT !.good = rec[p].seen]
    /\ Returns(p)
    /\ UNCHANGED <<config, report, beat, thread, service, signal, used>>

Reconcile(p) ==
    Inspect(p) \/ LayOut(p) \/ WriteReport(p) \/ WriteEffective(p) \/ WriteGood(p)

-----------------------------------------------------------------------------
(* The runtime process. It serves whatever the report says of the           *)
(* activation: the report only decides which transports start.              *)

Boot ==
    /\ main.at = "down"
    /\ used.starts < MaxStarts
    /\ main' = [Down EXCEPT !.at = "reconcile"]
    /\ rec' = [rec EXCEPT !["runtime"].at = "inspect"]
    /\ signal' = FALSE
    /\ used' = Use("starts")
    /\ UNCHANGED <<config, report, kept, beat, thread, service>>

Load ==
    /\ main.at = "load"
    /\ \/ /\ config # Unreadable
          /\ main' = [main EXCEPT !.at = "stamp", !.config = config]
          /\ UNCHANGED <<config, report, kept, beat, rec, thread, service, signal, used>>
       \/ config = Unreadable /\ Fails("runtime")

StartOrLoop(todo) == IF todo = {} THEN "loop" ELSE "start"

(* The start is stamped, and the control panel starts unless its port is    *)
(* taken, which ends the process the way a signal does.                     *)
StampAndStartPanel ==
    LET todo == Enabled(Settings[main.config].transports) IN
    /\ main.at = "stamp"
    /\ \/ main' = [main EXCEPT !.at = StartOrLoop(todo), !.todo = todo]
       \/ main' = [main EXCEPT !.at = "stopping"]
    /\ UNCHANGED <<config, report, kept, beat, rec, thread, service, signal, used>>

(* A transport that failed its inspection is skipped, and one whose plugin  *)
(* is gone; one that raises while it starts is not counted as started.      *)
Starts(t) ==
    /\ PluginState(Settings[main.seen].transports[t]) \in Usable \cup {"disabled"}
    /\ Settings[main.config].transports[t].found

StartTransport(t) ==
    LET todo == main.todo \ {t}
        over == [main EXCEPT !.at = StartOrLoop(todo), !.todo = todo]
    IN
    /\ main.at = "start"
    /\ t \in main.todo
    /\ \/ /\ Starts(t)
          /\ main' = [over EXCEPT !.started = Append(@, t)]
          /\ thread' = IF t \in Polled
                       THEN [thread EXCEPT ![t] = [NoThread EXCEPT !.at = "ready"]]
                       ELSE thread
       \/ main' = over /\ UNCHANGED thread
    /\ UNCHANGED <<config, report, kept, beat, rec, service, signal, used>>

(* One turn of the loop: the scan of the watched files (with its warning),  *)
(* the heartbeat, the jobs that are due, the wait. Under --once the loop    *)
(* ends after a turn; the flag is not kept, any turn may be the last.       *)
Heartbeat ==
    /\ main.at = "loop"
    /\ ~signal
    /\ beat' = [there |-> TRUE, fresh |-> TRUE, edited |-> main.edited]
    /\ main' = [main EXCEPT !.at = "jobs"]
    /\ UNCHANGED <<config, report, kept, rec, thread, service, signal, used>>

(* A watched file disappears between the scan's listing and its stat: the   *)
(* exception ends the loop.                                                 *)
ScanFails ==
    /\ main.at = "loop"
    /\ ~signal
    /\ main' = [main EXCEPT !.at = "stopping"]
    /\ UNCHANGED <<config, report, kept, beat, rec, thread, service, signal, used>>

RunJobsAndWait ==
    /\ main.at = "jobs"
    /\ \E then \in {"loop", "stopping"} : main' = [main EXCEPT !.at = then]
    /\ UNCHANGED <<config, report, kept, beat, rec, thread, service, signal, used>>

LeaveLoop ==
    /\ main.at = "loop"
    /\ signal
    /\ main' = [main EXCEPT !.at = "stopping"]
    /\ UNCHANGED <<config, report, kept, beat, rec, thread, service, signal, used>>

(* The transports stop in the reverse order of their start: the poll thread *)
(* is told, gets two seconds to end, and the plugin is stopped whether or   *)
(* not the thread has ended. Stopping the plugin forgets its poll position. *)
LastStarted == main.started[Len(main.started)]

Polls(t) == t \in Polled /\ thread[t].at # "none"

TellThread ==
    /\ main.at = "stopping"
    /\ main.started # <<>>
    /\ main' = [main EXCEPT !.at = "joining"]
    /\ thread' = IF LastStarted \in Polled
                 THEN [thread EXCEPT ![LastStarted].stop = TRUE]
                 ELSE thread
    /\ UNCHANGED <<config, report, kept, beat, rec, service, signal, used>>

(* A stop that waits for the poll thread however long it takes.             *)
StopPluginJoined ==
    /\ main.at = "joining"
    /\ ~Polls(LastStarted)
    /\ main' = [main EXCEPT !.at = "stopping",
                            !.started = SubSeq(@, 1, Len(@) - 1)]
    /\ thread' = IF LastStarted \in Polled
                 THEN [thread EXCEPT ![LastStarted].offset = 0]
                 ELSE thread
    /\ UNCHANGED <<config, report, kept, beat, rec, service, signal, used>>

StopPlugin ==
    /\ main.at = "joining"
    /\ main' = [main EXCEPT !.at = "stopping",
                            !.started = SubSeq(@, 1, Len(@) - 1)]
    /\ thread' = IF LastStarted \in Polled
                 THEN [thread EXCEPT ![LastStarted].offset = 0]
                 ELSE thread
    /\ UNCHANGED <<config, report, kept, beat, rec, service, signal, used>>

(* The threads are daemons: they end with the process.                      *)
Exit ==
    /\ main.at = "stopping"
    /\ main.started = <<>>
    /\ main' = Down
    /\ thread' = [t \in Polled |-> NoThread]
    /\ signal' = FALSE
    /\ UNCHANGED <<config, report, kept, beat, rec, service, used>>

Work ==
    \/ Reconcile("runtime") \/ Load \/ StampAndStartPanel
    \/ \E t \in Transports : StartTransport(t)
    \/ Heartbeat \/ ScanFails \/ RunJobsAndWait \/ LeaveLoop
    \/ TellThread \/ StopPlugin \/ Exit

(* A signal that finds the process stopping changes nothing.                *)
Signal ==
    /\ main.at \notin {"down", "stopping", "joining"}
    /\ ~signal
    /\ signal' = TRUE
    /\ UNCHANGED <<config, report, kept, beat, rec, main, thread, service, used>>

Die ==
    /\ main.at # "down"
    /\ main' = Down
    /\ rec' = [rec EXCEPT !["runtime"] = NoReconcile]
    /\ thread' = [t \in Polled |-> NoThread]
    /\ signal' = FALSE
    /\ UNCHANGED <<config, report, kept, beat, service, used>>

-----------------------------------------------------------------------------
(* A poll thread. The position it asks from is the last update it was given *)
(* before: the request confirms all updates up to it to the service.        *)

Arrive(t) ==
    /\ service[t].arrived < MaxUpdates
    /\ service' = [service EXCEPT ![t].arrived = @ + 1]
    /\ UNCHANGED <<config, report, kept, beat, rec, main, thread, signal, used>>

Larger(a, b) == IF a > b THEN a ELSE b

(* A thread that asks for more while it still handles its batch.            *)
AskAhead(t) ==
    /\ thread[t].at \in {"ready", "handling"}
    /\ ~thread[t].stop
    /\ thread' = [thread EXCEPT ![t].at = "asked"]
    /\ service' = [service EXCEPT ![t].confirmed = Larger(@, thread[t].offset)]
    /\ UNCHANGED <<config, report, kept, beat, rec, main, signal, used>>

(* A thread that asks from the last update it was given, and not behind it. *)
AskFromLast(t) ==
    /\ thread[t].at = "ready"
    /\ ~thread[t].stop
    /\ thread' = [thread EXCEPT ![t].at = "asked"]
    /\ service' = [service EXCEPT ![t].confirmed = Larger(@, thread[t].offset - 1)]
    /\ UNCHANGED <<config, report, kept, beat, rec, main, signal, used>>

Ask(t) ==
    /\ thread[t].at = "ready"
    /\ ~thread[t].stop
    /\ thread' = [thread EXCEPT ![t].at = "asked"]
    /\ service' = [service EXCEPT ![t].confirmed = Larger(@, thread[t].offset)]
    /\ UNCHANGED <<config, report, kept, beat, rec, main, signal, used>>

Answer(t) ==
    LET first == service[t].confirmed + 1
        last  == service[t].arrived
    IN
    /\ thread[t].at = "asked"
    /\ thread' = [thread EXCEPT ![t] =
                     IF first > last THEN [@ EXCEPT !.at = "ready"]
                     ELSE [@ EXCEPT !.at = "handling", !.offset = last,
                                    !.next = first, !.upto = last]]
    /\ UNCHANGED <<config, report, kept, beat, rec, main, service, signal, used>>

(* A thread that a failed poll ends.                                        *)
PollFailsForGood(t) ==
    /\ thread[t].at = "asked"
    /\ used.faults < MaxFaults
    /\ thread' = [thread EXCEPT ![t].at = "none"]
    /\ used' = Use("faults")
    /\ UNCHANGED <<config, report, kept, beat, rec, main, service, signal>>

PollFails(t) ==
    /\ thread[t].at = "asked"
    /\ used.faults < MaxFaults
    /\ thread' = [thread EXCEPT ![t].at = "ready"]
    /\ used' = Use("faults")
    /\ UNCHANGED <<config, report, kept, beat, rec, main, service, signal>>

(* A batch that is handled one event too far.                               *)
HandlePastBatch(t) ==
    /\ thread[t].at = "handling"
    /\ service' = [service EXCEPT ![t].handled = @ \cup {thread[t].next}]
    /\ thread' = [thread EXCEPT ![t] =
                     IF @.next <= @.upto THEN [@ EXCEPT !.next = thread[t].next + 1]
                     ELSE [@ EXCEPT !.at = "ready", !.next = 1, !.upto = 0]]
    /\ UNCHANGED <<config, report, kept, beat, rec, main, signal, used>>

(* One event of the batch: it is ignored, or the agent handles it and the   *)
(* reply is sent or its failure logged. Nothing here ends the thread, and   *)
(* the stop event is not looked at before the batch is done.                *)
Handle(t) ==
    /\ thread[t].at = "handling"
    /\ service' = [service EXCEPT ![t].handled = @ \cup {thread[t].next}]
    /\ thread' = [thread EXCEPT ![t] =
                     IF @.next < @.upto THEN [@ EXCEPT !.next = thread[t].next + 1]
                     ELSE [@ EXCEPT !.at = "ready", !.next = 1, !.upto = 0]]
    /\ UNCHANGED <<config, report, kept, beat, rec, main, signal, used>>

Hang(t) ==
    /\ thread[t].at = "handling"
    /\ used.faults < MaxFaults
    /\ thread' = [thread EXCEPT ![t].at = "hung"]
    /\ used' = Use("faults")
    /\ UNCHANGED <<config, report, kept, beat, rec, main, service, signal>>

EndThread(t) ==
    /\ thread[t].at = "ready"
    /\ thread[t].stop
    /\ thread' = [thread EXCEPT ![t].at = "none"]
    /\ UNCHANGED <<config, report, kept, beat, rec, main, service, signal, used>>

Poll(t) == Ask(t) \/ Answer(t) \/ Handle(t) \/ EndThread(t)

Fault(t) == PollFails(t) \/ Hang(t)

-----------------------------------------------------------------------------
Next ==
    \/ \E c \in Configs \cup {Unreadable} : Edit(c) \/ EditUnseen(c)
    \/ GoStale
    \/ Command
    \/ Reconcile("command")
    \/ Boot
    \/ Work
    \/ Signal
    \/ Die
    \/ \E t \in Polled : Arrive(t) \/ Poll(t) \/ Fault(t)

Spec == Init /\ [][Next]_vars

(* The process and its threads run until the process ends.                  *)
FairSpec ==
    Spec /\ WF_vars(Work) /\ \A t \in Polled : WF_vars(Poll(t))

-----------------------------------------------------------------------------
(* What status tells can be relied on (status_service.py: needs_reconcile,  *)
(* needs_restart; runtime.py: started_at_epoch) as far as file times go. A  *)
(* report that it does not ask to refresh tells of the configuration on     *)
(* disk; a runtime that runs with a fresh heartbeat and that it does not    *)
(* ask to restart uses the configuration on disk. Excluded are the hidden   *)
(* edits, which nothing tells of: one that fell into the reconciliation     *)
(* that wrote the report, or into the start of the process, and one since   *)
(* then that left no new time. Of a stale heartbeat status says that it is  *)
(* stale, and asks for no restart whatever was edited.                      *)
ReportTold == NeedsReconcile \/ report.hidden \/ report.of = config

RestartTold ==
    main.at = "jobs" /\ beat.fresh /\ ~main.hidden
        => NeedsRestart \/ main.config = config

StatusTold == ReportTold /\ RestartTold

(* The report's verdict can be relied on: what it allows can answer.        *)
AllowedAnswers == report.of # NoConfig => Answers(Settings[report.of])

(* An update is confirmed to the service only when it has been handled, so  *)
(* none is lost when the process stops, dies or gives up on its thread in   *)
(* the middle of a batch (_poll_transport_loop).                            *)
ConfirmedWasHandled ==
    \A t \in Polled : 1 .. service[t].confirmed \subseteq service[t].handled

(* A runtime told to stop ends although a handler hangs (the join's bound). *)
SignalEnds == signal ~> main.at = "down"

(* What has arrived at a transport that runs is all handled some time,      *)
(* unless the transport stops or a handler hangs.                           *)
Backlog(t) == ~(1 .. service[t].arrived \subseteq service[t].handled)

UpdatesHandled ==
    \A t \in Polled :
        Backlog(t) ~> \/ ~Backlog(t)
                      \/ ~\E i \in DOMAIN main.started : main.started[i] = t
                      \/ thread[t].at = "hung"

-----------------------------------------------------------------------------
(* The poll threads as UpdateDelivery sees them: the place of a thread is   *)
(* the event of its batch that it is at, or else behind what it was given   *)
(* and what is confirmed.                                                   *)
deliveryPlace ==
    [t \in Polled |->
        IF thread[t].at \in {"handling", "hung"} THEN thread[t].next
        ELSE Larger(service[t].confirmed, thread[t].offset) + 1]

deliveryOpen == [t \in Polled |-> thread[t].at # "none" /\ ~thread[t].stop]

Delivery == INSTANCE UpdateDelivery
            WITH Channels  <- Polled,
                 arrived   <- [t \in Polled |-> service[t].arrived],
                 confirmed <- [t \in Polled |-> service[t].confirmed],
                 handled   <- [t \in Polled |-> service[t].handled],
                 place     <- deliveryPlace,
                 open      <- deliveryOpen

(* As long as it is not told to stop, a thread handles the updates in their *)
(* order, none twice and none left out, and confirms those it has handled;  *)
(* after a failed poll too. An update is handled again only by a process    *)
(* that follows one which did not live to confirm it.                       *)
KeepsDelivery == Delivery!DeliverySpec
=============================================================================
