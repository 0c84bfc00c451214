----------------------------- MODULE JobScheduler -----------------------------
(***************************************************************************)
(* The job scheduler: SchedulerService and JobStore, driven by the runtime *)
(* loop of RuntimeAgent.serve and called by agents through the             *)
(* system.jobs tools.  A job is one JSON file; nothing locks it.  The loop *)
(* reads the due jobs once per round, calls the handler on the copies it   *)
(* read, and writes the outcome back from the copy.  Agents (transport     *)
(* threads, command-line processes, and the agent the handler itself woke) *)
(* schedule and cancel jobs meanwhile.                                     *)
(*                                                                         *)
(* A file write is two steps, as Path.write_text is: the file is truncated *)
(* ("torn"), then filled.  Time counts ticks; a stored time is truncated   *)
(* to the second, as strftime does.                                        *)
(***************************************************************************)
EXTENDS Integers, FiniteSets

CONSTANTS
    Jobs,            \* job ids, each generated once (_job_id)
    OnceJobs,        \* those created by schedule_once
    Every,           \* Every[j]: interval_seconds of the others
    Callers,         \* agents using the system.jobs tools
    Woken,           \* the agent that the running handler woke
    Idle,            \* "no job": not in Jobs
    TicksPerSecond,
    Heartbeat,       \* heartbeat_interval_seconds, in ticks
    MinWait,         \* the loop's shortest wait (0.5 s), in ticks
    Horizon,         \* bound: the last tick, standing for all later ones
    MaxCrashes       \* bound: deaths of processes

ASSUME SchedulerAssumption ==
    /\ OnceJobs \subseteq Jobs
    /\ Every \in [Jobs -> Nat \ {0}]
    /\ Woken \in Callers
    /\ Idle \notin Jobs
    /\ TicksPerSecond \in Nat \ {0}
    /\ Heartbeat \in Nat \ {0}
    /\ MinWait \in Nat \ {0}
    /\ Horizon \in Nat
    /\ MaxCrashes \in Nat

VARIABLES
    now,        \* the clock, in ticks
    store,      \* store[j]: the job's file
    loop,       \* where the runtime loop is
    batch,      \* batch[j]: the copy this round read of a job it still has to settle
    current,    \* the job whose handler is running or being settled, or Idle
    wakeAt,     \* when the loop's wait ends; 0 when it is not waiting
    caller,     \* caller[c]: the tool call agent c is in
    crashes,    \* deaths so far
    life,       \* history: whether schedule_* has started, or finished, writing j
    fires,      \* history: how often one-off job j's handler was started
    excuse,     \* history: how often the runtime died between start and settlement
    endedAt,    \* history: when a run of recurring job j last ended well
    told,       \* history: the jobs for which some cancel_job has returned
    withdrawn   \* history: those for which no round held a copy when it did

loopVars == <<loop, batch, current, wakeAt>>
history  == <<life, fires, excuse, endedAt, told, withdrawn>>
vars     == <<now, store, loopVars, caller, crashes, history>>

----
(* Records *)

NoTime == -1

JobStatus == {"missing", "torn", "scheduled", "failed", "cancelled"}

JobRecord == [status : JobStatus, runAt : Int, last : Int]

NoFile   == [status |-> "missing", runAt |-> NoTime, last |-> NoTime]
TornFile == [status |-> "torn",    runAt |-> NoTime, last |-> NoTime]

Resting == [step |-> "resting", job |-> Idle, rec |-> NoFile]

Held(j) == batch[j].status # "missing"

Readable == \A j \in Jobs : store[j].status # "torn"

(* strftime("%Y-%m-%dT%H:%M:%SZ") drops the fraction of the second *)
Second(t) == t - (t % TicksPerSecond)

MaxOf(a, b) == IF a < b THEN b ELSE a

DueAt(j, rec) ==
    IF j \in OnceJobs THEN rec.runAt
    ELSE IF rec.last = NoTime THEN 0
    ELSE rec.last + Every[j] * TicksPerSecond

(* JobStore.due.  The two drafts forget the status, and take a one-off job *)
(* only in the very instant it is due.                                     *)
DueAnyStatus(j, rec) == rec.status # "missing" /\ DueAt(j, rec) <= now
DueOnTheDot(j, rec) == rec.status = "scheduled" /\ DueAt(j, rec) = now
Due(j, rec) == rec.status = "scheduled" /\ DueAt(j, rec) <= now

----
(* The runtime loop *)

Init ==
    /\ now = 0
    /\ store = [j \in Jobs |-> NoFile]
    /\ loop = "round"
    /\ batch = [j \in Jobs |-> NoFile]
    /\ current = Idle
    /\ wakeAt = 0
    /\ caller = [c \in Callers |-> Resting]
    /\ crashes = 0
    /\ life = [j \in Jobs |-> "unborn"]
    /\ fires = [j \in OnceJobs |-> 0]
    /\ excuse = [j \in OnceJobs |-> 0]
    /\ endedAt = [j \in Jobs \ OnceJobs |-> NoTime]
    /\ told = {}
    /\ withdrawn = {}

(* run_due_jobs lists the due jobs once, at the start of the round *)
BeginRound ==
    /\ loop = "round"
    /\ Readable
    /\ batch' = [j \in Jobs |-> IF Due(j, store[j]) THEN store[j] ELSE NoFile]
    /\ loop' = "pick"
    /\ UNCHANGED <<now, store, current, wakeAt, caller, crashes, history>>

(* A torn file makes JobStore.list raise: the round ends before it began *)
AbortRound ==
    /\ loop = "round"
    /\ ~Readable
    /\ loop' = "plan"
    /\ UNCHANGED <<now, store, batch, current, wakeAt, caller, crashes, history>>

Counted(f, j) == IF j \in OnceJobs THEN [f EXCEPT ![j] = @ + 1] ELSE f

StartHandler(j) ==
    /\ loop = "pick"
    /\ Held(j)
    /\ current' = j
    /\ loop' = "handle"
    /\ fires' = Counted(fires, j)
    /\ UNCHANGED <<now, store, batch, wakeAt, caller, crashes, life, excuse,
                   endedAt, told, withdrawn>>

(* The handler of a one-off job returns: its file is deleted.  (In the     *)
(* draft it is not.)                                                       *)
SettleOnceKeepsFile ==
    /\ loop = "handle"
    /\ caller[Woken] = Resting
    /\ current \in OnceJobs
    /\ batch' = [batch EXCEPT ![current] = NoFile]
    /\ current' = Idle
    /\ loop' = "pick"
    /\ UNCHANGED <<now, store, wakeAt, caller, crashes, history>>

SettleOnce ==
    /\ loop = "handle"
    /\ caller[Woken] = Resting
    /\ current \in OnceJobs
    /\ store' = [store EXCEPT ![current] = NoFile]
    /\ batch' = [batch EXCEPT ![current] = NoFile]
    /\ current' = Idle
    /\ loop' = "pick"
    /\ UNCHANGED <<now, wakeAt, caller, crashes, history>>

(* The record run_due_jobs makes of a copy after a run *)
Settled(rec, status) == [rec EXCEPT !.status = status, !.last = Second(now)]

(* The handler of a recurring job returns: the copy read at the start of   *)
(* the round is written back, scheduled, with a new last_run_at.  (The     *)
(* draft forgets the new last_run_at.)                                     *)
SettleIntervalSameTime ==
    /\ loop = "handle"
    /\ caller[Woken] = Resting
    /\ current \in Jobs \ OnceJobs
    /\ store' = [store EXCEPT ![current] = TornFile]
    /\ endedAt' = [endedAt EXCEPT ![current] = now]
    /\ loop' = "save"
    /\ UNCHANGED <<now, batch, current, wakeAt, caller, crashes, life, fires, excuse,
                   told, withdrawn>>

SettleInterval ==
    /\ loop = "handle"
    /\ caller[Woken] = Resting
    /\ current \in Jobs \ OnceJobs
    /\ batch' = [batch EXCEPT ![current] = Settled(@, "scheduled")]
    /\ store' = [store EXCEPT ![current] = TornFile]
    /\ endedAt' = [endedAt EXCEPT ![current] = now]
    /\ loop' = "save"
    /\ UNCHANGED <<now, current, wakeAt, caller, crashes, life, fires, excuse,
                   told, withdrawn>>

(* The handler raises: the copy is written back as failed *)
SettleFailed ==
    /\ loop = "handle"
    /\ caller[Woken] = Resting
    /\ batch' = [batch EXCEPT ![current] = Settled(@, "failed")]
    /\ store' = [store EXCEPT ![current] = TornFile]
    /\ loop' = "save"
    /\ UNCHANGED <<now, current, wakeAt, caller, crashes, history>>

(* What filling a file can leave. An unlinked file stays unlinked; a second *)
(* writer that truncated it too, and filled it with a longer text, leaves   *)
(* the tail of that text behind ours.                                       *)
Filled(file, rec) ==
    IF file.status = "missing" THEN {file}
    ELSE IF file.status = "torn" THEN {rec}
    ELSE {rec, TornFile}

EndSettleStillCurrent ==
    /\ loop = "save"
    /\ \E file \in Filled(store[current], batch[current]) :
           store' = [store EXCEPT ![current] = file]
    /\ batch' = [batch EXCEPT ![current] = NoFile]
    /\ loop' = "pick"
    /\ UNCHANGED <<now, current, wakeAt, caller, crashes, history>>

EndSettle ==
    /\ loop = "save"
    /\ \E file \in Filled(store[current], batch[current]) :
           store' = [store EXCEPT ![current] = file]
    /\ batch' = [batch EXCEPT ![current] = NoFile]
    /\ current' = Idle
    /\ loop' = "pick"
    /\ UNCHANGED <<now, wakeAt, caller, crashes, history>>

EndRound ==
    /\ loop = "pick"
    /\ \A j \in Jobs : ~Held(j)
    /\ loop' = "plan"
    /\ UNCHANGED <<now, store, batch, current, wakeAt, caller, crashes, history>>

(* _next_runtime_wait_seconds over JobStore.seconds_until_next_due: the     *)
(* heartbeat, or less when a job is due earlier; a torn file hides them all *)
Delays ==
    {Heartbeat} \cup
        {MaxOf(0, DueAt(j, store[j]) - now) :
             j \in {i \in Jobs : Readable /\ store[i].status = "scheduled"}}

Plan ==
    /\ loop = "plan"
    /\ \E d \in Delays :
           /\ \A e \in Delays : d <= e
           /\ wakeAt' = now + MaxOf(MinWait, d)
    /\ loop' = "asleep"
    /\ UNCHANGED <<now, store, batch, current, caller, crashes, history>>

(* The last tick stands for every later time, so a wait ends in it *)
Wake ==
    /\ loop = "asleep"
    /\ now >= wakeAt \/ now = Horizon
    /\ loop' = "round"
    /\ wakeAt' = 0
    /\ UNCHANGED <<now, store, batch, current, caller, crashes, history>>

(* The runtime process dies, with the agent its handler woke *)
Crash ==
    /\ loop # "down"
    /\ crashes < MaxCrashes
    /\ crashes' = crashes + 1
    /\ loop' = "down"
    /\ batch' = [j \in Jobs |-> NoFile]
    /\ excuse' = Counted(excuse, current)
    /\ current' = Idle
    /\ wakeAt' = 0
    /\ caller' = [caller EXCEPT ![Woken] = Resting]
    /\ UNCHANGED <<now, store, life, fires, endedAt, told, withdrawn>>

Restart ==
    /\ loop = "down"
    /\ loop' = "round"
    /\ UNCHANGED <<now, store, batch, current, wakeAt, caller, crashes, history>>

----
(* Agents *)

Active(c) == c = Woken => loop = "handle"

BeginSchedule(c, j, rec) ==
    /\ Active(c)
    /\ caller[c] = Resting
    /\ life[j] = "unborn"
    /\ life' = [life EXCEPT ![j] = "saving"]
    /\ store' = [store EXCEPT ![j] = TornFile]
    /\ caller' = [caller EXCEPT ![c] = [step |-> "schedule", job |-> j, rec |-> rec]]
    /\ UNCHANGED <<now, loopVars, crashes, fires, excuse, endedAt, told, withdrawn>>

ScheduleOnce(c) ==
    \E j \in OnceJobs, t \in 0..Horizon :
        BeginSchedule(c, j, [status |-> "scheduled", runAt |-> Second(t), last |-> NoTime])

ScheduleInterval(c) ==
    \E j \in Jobs \ OnceJobs :
        BeginSchedule(c, j, [status |-> "scheduled", runAt |-> NoTime, last |-> NoTime])

EndSchedule(c) ==
    /\ caller[c].step = "schedule"
    /\ \E file \in Filled(store[caller[c].job], caller[c].rec) :
           store' = [store EXCEPT ![caller[c].job] = file]
    /\ life' = [life EXCEPT ![caller[c].job] = "stored"]
    /\ caller' = [caller EXCEPT ![c] = Resting]
    /\ UNCHANGED <<now, loopVars, crashes, fires, excuse, endedAt, told, withdrawn>>

(* cancel_job loads the record; a missing or torn file raises *)
CancelLoad(c) ==
    /\ Active(c)
    /\ caller[c] = Resting
    /\ \E j \in Jobs :
           /\ store[j].status \notin {"missing", "torn"}
           /\ caller' = [caller EXCEPT ![c] = [step |-> "cancel", job |-> j, rec |-> store[j]]]
    /\ UNCHANGED <<now, store, loopVars, crashes, history>>

(* cancel_job returns *)
Told(j) ==
    /\ told' = told \cup {j}
    /\ withdrawn' = IF Held(j) THEN withdrawn ELSE withdrawn \cup {j}

(* ... deletes the file of a one-off job *)
CancelOnce(c) ==
    /\ caller[c].step = "cancel"
    /\ caller[c].job \in OnceJobs
    /\ store' = [store EXCEPT ![caller[c].job] = NoFile]
    /\ Told(caller[c].job)
    /\ caller' = [caller EXCEPT ![c] = Resting]
    /\ UNCHANGED <<now, loopVars, crashes, life, fires, excuse, endedAt>>

(* ... and writes back the loaded record of a recurring one as cancelled.  *)
(* (In the draft, as it was.)                                              *)
CancelIntervalInName(c) ==
    /\ caller[c].step = "cancel"
    /\ caller[c].job \in Jobs \ OnceJobs
    /\ store' = [store EXCEPT ![caller[c].job] = TornFile]
    /\ caller' = [caller EXCEPT ![c].step = "cancelling"]
    /\ UNCHANGED <<now, loopVars, crashes, history>>

CancelInterval(c) ==
    /\ caller[c].step = "cancel"
    /\ caller[c].job \in Jobs \ OnceJobs
    /\ store' = [store EXCEPT ![caller[c].job] = TornFile]
    /\ caller' = [caller EXCEPT ![c] =
                      [step |-> "cancelling", job |-> @.job,
                       rec |-> [@.rec EXCEPT !.status = "cancelled"]]]
    /\ UNCHANGED <<now, loopVars, crashes, history>>

EndCancel(c) ==
    /\ caller[c].step = "cancelling"
    /\ \E file \in Filled(store[caller[c].job], caller[c].rec) :
           store' = [store EXCEPT ![caller[c].job] = file]
    /\ Told(caller[c].job)
    /\ caller' = [caller EXCEPT ![c] = Resting]
    /\ UNCHANGED <<now, loopVars, crashes, life, fires, excuse, endedAt>>

(* An agent outside the handler dies in the middle of its call *)
Abandon(c) ==
    /\ c # Woken
    /\ caller[c] # Resting
    /\ crashes < MaxCrashes
    /\ crashes' = crashes + 1
    /\ caller' = [caller EXCEPT ![c] = Resting]
    /\ UNCHANGED <<now, store, loopVars, history>>

Tick ==
    /\ now < Horizon
    /\ now' = now + 1
    /\ UNCHANGED <<store, loopVars, caller, crashes, history>>

----
Settling == SettleOnce \/ SettleInterval \/ SettleFailed

Looping ==
    \/ BeginRound
    \/ AbortRound
    \/ \E j \in Jobs : StartHandler(j)
    \/ EndSettle
    \/ EndRound
    \/ Plan
    \/ Wake
    \/ Restart

Calling(c) ==
    \/ EndSchedule(c)
    \/ CancelOnce(c)
    \/ CancelInterval(c)
    \/ EndCancel(c)

Next ==
    \/ Looping
    \/ SettleOnce
    \/ SettleInterval
    \/ SettleFailed
    \/ Crash
    \/ Tick
    \/ \E c \in Callers :
           \/ ScheduleOnce(c)
           \/ ScheduleInterval(c)
           \/ CancelLoad(c)
           \/ Calling(c)
           \/ Abandon(c)

Spec == Init /\ [][Next]_vars

(***************************************************************************)
(* The runtime's thread and its supervisor keep going, a call that was     *)
(* begun goes on, the clock runs, and a handler returns or raises (its     *)
(* model turns are counted and its calls have timeouts).  Agents do not    *)
(* cancel jobs without end: a file is torn for an instant only, and not    *)
(* every round can meet one.  Nobody has to schedule or cancel anything,   *)
(* and nothing has to crash.                                               *)
(***************************************************************************)
Fairness ==
    /\ WF_vars(Looping)
    /\ WF_vars(Settling)
    /\ \A c \in Callers : WF_vars(Calling(c))
    /\ WF_vars(Tick)
    /\ <>[][\A c \in Callers : ~CancelLoad(c)]_vars

FairSpec == Spec /\ Fairness

----
(* Properties *)

(* The records, and where the loop is against the job it is busy with:     *)
(* a job is current exactly while its handler runs or is being settled,    *)
(* and the round still holds the copy it will write back.                  *)
TypeOK ==
    /\ now \in 0..Horizon
    /\ store \in [Jobs -> JobRecord]
    /\ batch \in [Jobs -> JobRecord]
    /\ loop \in {"round", "pick", "handle", "save", "plan", "asleep", "down"}
    /\ current \in Jobs \cup {Idle}
    /\ wakeAt \in Nat
    /\ caller \in [Callers -> [step : {"resting", "schedule", "cancel", "cancelling"},
                               job  : Jobs \cup {Idle},
                               rec  : JobRecord]]
    /\ crashes \in 0..MaxCrashes
    /\ life \in [Jobs -> {"unborn", "saving", "stored"}]
    /\ fires \in [OnceJobs -> Nat]
    /\ excuse \in [OnceJobs -> Nat]
    /\ endedAt \in [Jobs \ OnceJobs -> Int]
    /\ told \subseteq Jobs
    /\ withdrawn \subseteq told
    /\ loop \in {"handle", "save"} <=> current # Idle
    /\ \A c \in Callers : caller[c].step = "resting" <=> caller[c].job = Idle

(* A one-off job's handler is started once, and again only for a runtime   *)
(* that died between the start and the settlement: no failure, no cancel   *)
(* and no stale copy brings it back.                                       *)
OnceFiresOnce == \A j \in OnceJobs : fires[j] <= 1 + excuse[j]

(* A cancellation that returned while no round held a copy of the job is   *)
(* final: the job is never in a round again and its file never scheduled.  *)
QuietCancelSticks ==
    \A j \in withdrawn :
        /\ ~Held(j)
        /\ store[j].status \in {"missing", "torn", "cancelled"}

(* What the tool promises (agent_builtin.py:469, "Cancel a scheduled job by *)
(* id."): a job whose cancellation has returned is not scheduled.  The code *)
(* breaks it: run_due_jobs writes its stale copy over the cancelled record. *)
CancelIsFinal == \A j \in told : store[j].status # "scheduled"

(* Runs of a recurring job are apart by its interval, up to the second that *)
(* last_run_at is truncated to; no crash, stale copy or cancel shortens it. *)
IntervalSpacing ==
    [][\A j \in Jobs \ OnceJobs :
          loop = "pick" /\ current' = j /\ endedAt[j] # NoTime
              => now - endedAt[j] > (Every[j] - 1) * TicksPerSecond]_vars

(* A file that nobody is about to fill and that no reader can parse *)
Abandoned(j) ==
    /\ store[j].status = "torn"
    /\ ~(loop = "save" /\ current = j)
    /\ \A c \in Callers : caller[c].job # j

(* A stored one-off job is handled in the end, or some writer died (or met  *)
(* another writer) and left a file that stops every later round.            *)
OnceEventuallyHandled ==
    \A j \in OnceJobs :
        store[j].status = "scheduled"
            ~> (store[j].status # "scheduled" \/ \E i \in Jobs : Abandoned(i))

(* The scheduler keeps the promises of JobLedger.  A job counts as active   *)
(* while its file says scheduled: from the end of the write that created it *)
(* to the beginning of the write that ends it.                              *)
ledgerPhase ==
    [j \in Jobs |->
        IF life[j] # "stored" THEN "new"
        ELSE IF store[j].status = "scheduled" THEN "active" ELSE "ended"]

ledgerOwed ==
    [j \in Jobs |->
        IF current = j THEN "started" ELSE IF Held(j) THEN "claimed" ELSE "idle"]

Ledger == INSTANCE JobLedger WITH phase <- ledgerPhase, owed <- ledgerOwed

KeepsLedger == Ledger!LedgerSpec
=============================================================================
