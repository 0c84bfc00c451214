-------------------------- MODULE JobSchedulerProofs --------------------------
(***************************************************************************)
(* Proofs about JobScheduler, for every set of jobs and agents, every      *)
(* clock and every number of crashes.                                      *)
(*                                                                         *)
(* None of the invariants of interest is inductive.  What they rest on is  *)
(* who may still write a job's file, and from which copy: a creating agent *)
(* is the only writer of a file nobody can read yet (CreationInv), and the *)
(* copies the round holds were scheduled when it read them (RoundInv).     *)
(***************************************************************************)
EXTENDS JobScheduler, TLAPS

(* The copies of the round: there are none between rounds, the copy of the *)
(* job being handled is still there, and only a copy that is being saved   *)
(* has left the state it was read in.                                      *)
RoundInv ==
    /\ loop \in {"round", "plan", "asleep", "down"} => \A j \in Jobs : ~Held(j)
    /\ current # Idle => Held(current)
    /\ \A j \in Jobs :
           Held(j) => \/ batch[j].status = "scheduled"
                      \/ loop = "save" /\ current = j
    /\ loop = "save" /\ current \in OnceJobs => batch[current].status = "failed"

(* Until its creation is over, a job's file is missing or torn, it is in   *)
(* no round, nobody is cancelling it or has cancelled it, and one agent    *)
(* at most is about to fill the file.                                      *)
CreationInv ==
    /\ \A j \in Jobs :
           /\ life[j] = "unborn" => store[j].status = "missing"
           /\ life[j] = "saving" => store[j].status = "torn"
           /\ Held(j) => life[j] = "stored"
           /\ j \in told => life[j] = "stored"
    /\ \A c \in Callers :
           /\ caller[c].step = "schedule" =>
                  /\ life[caller[c].job] = "saving"
                  /\ caller[c].rec.status = "scheduled"
                  /\ \A d \in Callers : caller[d].job = caller[c].job => d = c
           /\ caller[c].step \in {"cancel", "cancelling"} => life[caller[c].job] = "stored"
           /\ caller[c].step = "cancelling" => caller[c].rec.status = "cancelled"

(* A one-off job that was started and not excused by a crash is either     *)
(* being handled or over.                                                  *)
SpentInv ==
    \A j \in OnceJobs :
        /\ fires[j] <= 1 + excuse[j]
        /\ fires[j] > excuse[j] =>
               \/ current = j
               \/ ~Held(j) /\ life[j] = "stored" /\ store[j].status # "scheduled"

(* The end of a recurring job's last run is the last_run_at of every copy  *)
(* that can still be written or started, and a copy was due when taken.    *)
SpacingInv ==
    \A j \in Jobs \ OnceJobs :
        /\ Held(j) /\ current # j => DueAt(j, batch[j]) <= now
        /\ endedAt[j] # NoTime =>
               /\ endedAt[j] \in Nat
               /\ life[j] = "stored"
               /\ store[j].status = "scheduled" => store[j].last = Second(endedAt[j])
               /\ batch[j].status = "scheduled" /\ ~(loop = "handle" /\ current = j)
                      => batch[j].last = Second(endedAt[j])

IInv == TypeOK /\ RoundInv /\ CreationInv /\ SpentInv /\ SpacingInv /\ QuietCancelSticks

----
(* A job that begins to be created has one writer. *)
LEMMA BeginScheduleCreates ==
    ASSUME IInv, NEW c \in Callers, NEW j \in Jobs, NEW rec,
           rec.status = "scheduled", BeginSchedule(c, j, rec)
    PROVE  CreationInv'
<1> USE DEF IInv, CreationInv
<1>1. \A d \in Callers : caller[d].job # j
  <2> SUFFICES ASSUME NEW d \in Callers, caller[d].job = j PROVE FALSE
    OBVIOUS
  <2>1. caller[d].step \in {"schedule", "cancel", "cancelling"}
    BY SchedulerAssumption DEF TypeOK
  <2>2. life[j] = "unborn"
    BY DEF BeginSchedule
  <2> QED
    BY <2>1, <2>2
<1>2. \A i \in Jobs :
          /\ life'[i] = "unborn" => store'[i].status = "missing"
          /\ life'[i] = "saving" => store'[i].status = "torn"
          /\ Held(i)' => life'[i] = "stored"
          /\ i \in told' => life'[i] = "stored"
  BY DEF BeginSchedule, TypeOK, TornFile, Held, loopVars
<1>3. \A d \in Callers \ {c} : caller'[d] = caller[d]
  BY DEF BeginSchedule, TypeOK
<1>4. /\ caller'[c].step = "schedule" /\ caller'[c].job = j
      /\ caller'[c].rec.status = "scheduled"
      /\ life' = [life EXCEPT ![j] = "saving"]
      /\ life \in [Jobs -> {"unborn", "saving", "stored"}]
  BY DEF BeginSchedule, TypeOK
<1>5. \A d \in Callers :
          /\ caller'[d].step = "schedule" =>
                 /\ life'[caller'[d].job] = "saving"
                 /\ caller'[d].rec.status = "scheduled"
                 /\ \A e \in Callers : caller'[e].job = caller'[d].job => e = d
          /\ caller'[d].step \in {"cancel", "cancelling"} => life'[caller'[d].job] = "stored"
          /\ caller'[d].step = "cancelling" => caller'[d].rec.status = "cancelled"
  <2> TAKE d \in Callers
  <2>1. CASE d = c
    BY <1>1, <1>3, <1>4, <2>1
  <2>2. CASE d # c
    <3>1. caller'[d] = caller[d] /\ caller[d].job # j
      BY <1>1, <1>3, <2>2
    <3>2. caller[d].job \in Jobs \cup {Idle}
      BY DEF TypeOK
    <3>3. caller[d].step # "resting" => caller[d].job \in Jobs
      BY <3>2 DEF TypeOK
    <3> QED
      BY <1>1, <1>3, <1>4, <3>1, <3>3
  <2> QED
    BY <2>1, <2>2
<1> QED
  BY <1>2, <1>5

(* A settled copy is a record. *)
LEMMA SettledType ==
    TypeOK => \A rec \in JobRecord, status \in JobStatus : Settled(rec, status) \in JobRecord
<1> SUFFICES ASSUME TypeOK, NEW rec \in JobRecord, NEW status \in JobStatus
             PROVE  Settled(rec, status) \in JobRecord
  OBVIOUS
<1>1. Second(now) \in Int
  BY SchedulerAssumption DEF TypeOK, Second
<1> QED
  BY <1>1 DEF Settled, JobRecord

(* The time a record is due is a tick. *)
LEMMA DueAtType == \A j \in Jobs, rec \in JobRecord : DueAt(j, rec) \in Int
<1> SUFFICES ASSUME NEW j \in Jobs, NEW rec \in JobRecord PROVE DueAt(j, rec) \in Int
  OBVIOUS
<1>1. Every[j] * TicksPerSecond \in Int
  BY SchedulerAssumption
<1> QED
  BY <1>1 DEF DueAt, JobRecord

(* Every step keeps the types. *)
LEMMA TypeStep == IInv /\ [Next]_vars => TypeOK'
<1> SUFFICES ASSUME IInv, [Next]_vars PROVE TypeOK'
  OBVIOUS
<1>0. \A rec \in JobRecord, s \in JobStatus : Settled(rec, s) \in JobRecord
  BY SettledType DEF IInv
<1> USE SchedulerAssumption DEF IInv, TypeOK, JobRecord, JobStatus, NoFile, TornFile,
      NoTime, Resting, loopVars, history
<1>1. CASE BeginRound
  BY <1>1 DEF BeginRound, Due
<1>2. CASE AbortRound
  BY <1>2 DEF AbortRound
<1>3. ASSUME NEW j \in Jobs, StartHandler(j) PROVE TypeOK'
  BY <1>3 DEF StartHandler, Counted
<1>4. CASE EndSettle
  BY <1>4 DEF EndSettle, Filled
<1>5. CASE EndRound
  BY <1>5 DEF EndRound
<1>6. CASE Plan
  BY <1>6 DEF Plan, Delays, MaxOf
<1>7. CASE Wake
  BY <1>7 DEF Wake
<1>8. CASE Restart
  BY <1>8 DEF Restart
<1>9. CASE SettleOnce
  BY <1>9 DEF SettleOnce
<1>10. CASE SettleInterval
  BY <1>0, <1>10 DEF SettleInterval
<1>11. CASE SettleFailed
  BY <1>0, <1>11 DEF SettleFailed
<1>12. CASE Crash
  BY <1>12 DEF Crash, Counted
<1>13. CASE Tick
  BY <1>13 DEF Tick
<1>14. ASSUME NEW c \in Callers, ScheduleOnce(c) PROVE TypeOK'
  BY <1>14 DEF ScheduleOnce, BeginSchedule, Second
<1>15. ASSUME NEW c \in Callers, ScheduleInterval(c) PROVE TypeOK'
  BY <1>15 DEF ScheduleInterval, BeginSchedule
<1>16. ASSUME NEW c \in Callers, EndSchedule(c) PROVE TypeOK'
  BY <1>16 DEF EndSchedule, Filled
<1>17. ASSUME NEW c \in Callers, CancelLoad(c) PROVE TypeOK'
  BY <1>17 DEF CancelLoad
<1>18. ASSUME NEW c \in Callers, CancelOnce(c) PROVE TypeOK'
  BY <1>18 DEF CancelOnce, Told
<1>19. ASSUME NEW c \in Callers, CancelInterval(c) PROVE TypeOK'
  <2> DEFINE call == [step |-> "cancelling", job |-> caller[c].job,
                      rec |-> [caller[c].rec EXCEPT !.status = "cancelled"]]
  <2>1. [caller[c].rec EXCEPT !.status = "cancelled"] \in JobRecord
    OBVIOUS
  <2>2. call \in [step : {"resting", "schedule", "cancel", "cancelling"},
                 job  : Jobs \cup {Idle},
                 rec  : JobRecord]
    BY <2>1
  <2>3. caller' = [caller EXCEPT ![c] = call]
    BY <1>19 DEF CancelInterval
  <2>4. call.step = "cancelling" /\ call.job # Idle
    BY <1>19, SchedulerAssumption DEF CancelInterval
  <2> HIDE DEF call
  <2>5. store' \in [Jobs -> JobRecord]
    BY <1>19 DEF CancelInterval
  <2>6. caller' \in [Callers -> [step : {"resting", "schedule", "cancel", "cancelling"},
                                job  : Jobs \cup {Idle},
                                rec  : JobRecord]]
    BY <2>2, <2>3
  <2>7. \A d \in Callers : caller'[d].step = "resting" <=> caller'[d].job = Idle
    BY <2>3, <2>4
  <2> QED
    BY <1>19, <2>5, <2>6, <2>7 DEF CancelInterval
<1>20. ASSUME NEW c \in Callers, EndCancel(c) PROVE TypeOK'
  BY <1>20 DEF EndCancel, Told, Filled
<1>21. ASSUME NEW c \in Callers, Abandon(c) PROVE TypeOK'
  BY <1>21 DEF Abandon
<1>22. CASE UNCHANGED vars
  BY <1>22 DEF vars
<1> QED
  BY <1>1, <1>2, <1>3, <1>4, <1>5, <1>6, <1>7, <1>8, <1>9, <1>10, <1>11, <1>12,
      <1>13, <1>14, <1>15, <1>16, <1>17, <1>18, <1>19, <1>20, <1>21, <1>22 DEF Next,
      Looping, Calling, Settling

(* A round holds what it read until it has settled it. *)
LEMMA RoundStep == IInv /\ [Next]_vars => RoundInv'
<1> SUFFICES ASSUME IInv, [Next]_vars PROVE RoundInv'
  OBVIOUS
<1> USE SchedulerAssumption DEF IInv, RoundInv, TypeOK, JobRecord, JobStatus, NoFile,
      TornFile, NoTime, Resting, Held, loopVars, history
<1>1. CASE BeginRound
  BY <1>1 DEF BeginRound, Due
<1>2. CASE AbortRound
  BY <1>2 DEF AbortRound
<1>3. ASSUME NEW j \in Jobs, StartHandler(j) PROVE RoundInv'
  BY <1>3 DEF StartHandler, Counted
<1>4. CASE EndSettle
  BY <1>4 DEF EndSettle, Filled
<1>5. CASE EndRound
  BY <1>5 DEF EndRound
<1>6. CASE Plan
  BY <1>6 DEF Plan, Delays, MaxOf
<1>7. CASE Wake
  BY <1>7 DEF Wake
<1>8. CASE Restart
  BY <1>8 DEF Restart
<1>9. CASE SettleOnce
  BY <1>9 DEF SettleOnce
<1>10. CASE SettleInterval
  BY <1>10 DEF SettleInterval, Settled, Second
<1>11. CASE SettleFailed
  BY <1>11 DEF SettleFailed, Settled, Second
<1>12. CASE Crash
  BY <1>12 DEF Crash, Counted
<1>13. CASE Tick
  BY <1>13 DEF Tick
<1>14. ASSUME NEW c \in Callers, ScheduleOnce(c) PROVE RoundInv'
  BY <1>14 DEF ScheduleOnce, BeginSchedule, Second
<1>15. ASSUME NEW c \in Callers, ScheduleInterval(c) PROVE RoundInv'
  BY <1>15 DEF ScheduleInterval, BeginSchedule
<1>16. ASSUME NEW c \in Callers, EndSchedule(c) PROVE RoundInv'
  BY <1>16 DEF EndSchedule, Filled
<1>17. ASSUME NEW c \in Callers, CancelLoad(c) PROVE RoundInv'
  BY <1>17 DEF CancelLoad
<1>18. ASSUME NEW c \in Callers, CancelOnce(c) PROVE RoundInv'
  BY <1>18 DEF CancelOnce, Told
<1>19. ASSUME NEW c \in Callers, CancelInterval(c) PROVE RoundInv'
  BY <1>19 DEF CancelInterval
<1>20. ASSUME NEW c \in Callers, EndCancel(c) PROVE RoundInv'
  BY <1>20 DEF EndCancel, Told, Filled
<1>21. ASSUME NEW c \in Callers, Abandon(c) PROVE RoundInv'
  BY <1>21 DEF Abandon
<1>22. CASE UNCHANGED vars
  BY <1>22 DEF vars
<1> QED
  BY <1>1, <1>2, <1>3, <1>4, <1>5, <1>6, <1>7, <1>8, <1>9, <1>10, <1>11, <1>12,
      <1>13, <1>14, <1>15, <1>16, <1>17, <1>18, <1>19, <1>20, <1>21, <1>22 DEF Next,
      Looping, Calling, Settling

(* Nobody but its creator writes the file of a job that is being created. *)
LEMMA CreationStep == IInv /\ [Next]_vars => CreationInv'
<1> SUFFICES ASSUME IInv, [Next]_vars PROVE CreationInv'
  OBVIOUS
<1> USE SchedulerAssumption DEF IInv, RoundInv, CreationInv, TypeOK, JobRecord,
      JobStatus, NoFile, TornFile, NoTime, Resting, Held, loopVars, history
<1>1. CASE BeginRound
  BY <1>1 DEF BeginRound, Due
<1>2. CASE AbortRound
  BY <1>2 DEF AbortRound
<1>3. ASSUME NEW j \in Jobs, StartHandler(j) PROVE CreationInv'
  BY <1>3 DEF StartHandler, Counted
<1>4. CASE EndSettle
  BY <1>4 DEF EndSettle, Filled
<1>5. CASE EndRound
  BY <1>5 DEF EndRound
<1>6. CASE Plan
  BY <1>6 DEF Plan, Delays, MaxOf
<1>7. CASE Wake
  BY <1>7 DEF Wake
<1>8. CASE Restart
  BY <1>8 DEF Restart
<1>9. CASE SettleOnce
  BY <1>9 DEF SettleOnce
<1>10. CASE SettleInterval
  BY <1>10 DEF SettleInterval, Settled, Second
<1>11. CASE SettleFailed
  BY <1>11 DEF SettleFailed, Settled, Second
<1>12. CASE Crash
  BY <1>12 DEF Crash, Counted
<1>13. CASE Tick
  BY <1>13 DEF Tick
<1>14. ASSUME NEW c \in Callers, ScheduleOnce(c) PROVE CreationInv'
  <2>1. PICK j \in OnceJobs, t \in 0..Horizon :
            BeginSchedule(c, j, [status |-> "scheduled", runAt |-> Second(t),
      last |-> NoTime])
    BY <1>14 DEF ScheduleOnce
  <2> DEFINE rec == [status |-> "scheduled", runAt |-> Second(t), last |-> NoTime]
  <2>2. rec.status = "scheduled"
    OBVIOUS
  <2>3. BeginSchedule(c, j, rec)
    BY <2>1
  <2> HIDE DEF rec
  <2>4. j \in Jobs
    OBVIOUS
  <2> QED
    BY ONLY IInv, <2>2, <2>3, <2>4, BeginScheduleCreates
<1>15. ASSUME NEW c \in Callers, ScheduleInterval(c) PROVE CreationInv'
  BY <1>15 DEF ScheduleInterval, BeginSchedule
<1>16. ASSUME NEW c \in Callers, EndSchedule(c) PROVE CreationInv'
  BY <1>16 DEF EndSchedule, Filled
<1>17. ASSUME NEW c \in Callers, CancelLoad(c) PROVE CreationInv'
  BY <1>17 DEF CancelLoad
<1>18. ASSUME NEW c \in Callers, CancelOnce(c) PROVE CreationInv'
  BY <1>18 DEF CancelOnce, Told
<1>19. ASSUME NEW c \in Callers, CancelInterval(c) PROVE CreationInv'
  BY <1>19 DEF CancelInterval
<1>20. ASSUME NEW c \in Callers, EndCancel(c) PROVE CreationInv'
  BY <1>20 DEF EndCancel, Told, Filled
<1>21. ASSUME NEW c \in Callers, Abandon(c) PROVE CreationInv'
  BY <1>21 DEF Abandon
<1>22. CASE UNCHANGED vars
  BY <1>22 DEF vars
<1> QED
  BY <1>1, <1>2, <1>3, <1>4, <1>5, <1>6, <1>7, <1>8, <1>9, <1>10, <1>11, <1>12,
      <1>13, <1>14, <1>15, <1>16, <1>17, <1>18, <1>19, <1>20, <1>21, <1>22 DEF Next,
      Looping, Calling, Settling

(* A one-off job that was started is not scheduled again. *)
LEMMA SpentStep == IInv /\ [Next]_vars => SpentInv'
<1> SUFFICES ASSUME IInv, [Next]_vars PROVE SpentInv'
  OBVIOUS
<1> USE SchedulerAssumption DEF IInv, RoundInv, CreationInv, SpentInv, TypeOK,
      JobRecord, JobStatus, NoFile, TornFile, NoTime, Resting, Held, loopVars, history
<1>1. CASE BeginRound
  BY <1>1 DEF BeginRound, Due
<1>2. CASE AbortRound
  BY <1>2 DEF AbortRound
<1>3. ASSUME NEW j \in Jobs, StartHandler(j) PROVE SpentInv'
  BY <1>3 DEF StartHandler, Counted
<1>4. CASE EndSettle
  BY <1>4 DEF EndSettle, Filled
<1>5. CASE EndRound
  BY <1>5 DEF EndRound
<1>6. CASE Plan
  BY <1>6 DEF Plan, Delays, MaxOf
<1>7. CASE Wake
  BY <1>7 DEF Wake
<1>8. CASE Restart
  BY <1>8 DEF Restart
<1>9. CASE SettleOnce
  BY <1>9 DEF SettleOnce
<1>10. CASE SettleInterval
  BY <1>10 DEF SettleInterval, Settled, Second
<1>11. CASE SettleFailed
  BY <1>11 DEF SettleFailed, Settled, Second
<1>12. CASE Crash
  BY <1>12 DEF Crash, Counted
<1>13. CASE Tick
  BY <1>13 DEF Tick
<1>14. ASSUME NEW c \in Callers, ScheduleOnce(c) PROVE SpentInv'
  BY <1>14 DEF ScheduleOnce, BeginSchedule, Second
<1>15. ASSUME NEW c \in Callers, ScheduleInterval(c) PROVE SpentInv'
  BY <1>15 DEF ScheduleInterval, BeginSchedule
<1>16. ASSUME NEW c \in Callers, EndSchedule(c) PROVE SpentInv'
  BY <1>16 DEF EndSchedule, Filled
<1>17. ASSUME NEW c \in Callers, CancelLoad(c) PROVE SpentInv'
  BY <1>17 DEF CancelLoad
<1>18. ASSUME NEW c \in Callers, CancelOnce(c) PROVE SpentInv'
  BY <1>18 DEF CancelOnce, Told
<1>19. ASSUME NEW c \in Callers, CancelInterval(c) PROVE SpentInv'
  BY <1>19 DEF CancelInterval
<1>20. ASSUME NEW c \in Callers, EndCancel(c) PROVE SpentInv'
  BY <1>20 DEF EndCancel, Told, Filled
<1>21. ASSUME NEW c \in Callers, Abandon(c) PROVE SpentInv'
  BY <1>21 DEF Abandon
<1>22. CASE UNCHANGED vars
  BY <1>22 DEF vars
<1> QED
  BY <1>1, <1>2, <1>3, <1>4, <1>5, <1>6, <1>7, <1>8, <1>9, <1>10, <1>11, <1>12,
      <1>13, <1>14, <1>15, <1>16, <1>17, <1>18, <1>19, <1>20, <1>21, <1>22 DEF Next,
      Looping, Calling, Settling

(* last_run_at of every copy that may still be written keeps up with the runs. *)
LEMMA SpacingStep == IInv /\ [Next]_vars => SpacingInv'
<1> SUFFICES ASSUME IInv, [Next]_vars PROVE SpacingInv'
  OBVIOUS
<1> USE SchedulerAssumption DEF IInv, RoundInv, CreationInv, SpacingInv, TypeOK,
      JobRecord, JobStatus, NoFile, TornFile, NoTime, Resting, Held, loopVars, history
<1>1. CASE BeginRound
  BY <1>1 DEF BeginRound, Due
<1>2. CASE AbortRound
  BY <1>2 DEF AbortRound
<1>3. ASSUME NEW j \in Jobs, StartHandler(j) PROVE SpacingInv'
  BY <1>3 DEF StartHandler, Counted
<1>4. CASE EndSettle
  BY <1>4 DEF EndSettle, Filled
<1>5. CASE EndRound
  BY <1>5 DEF EndRound
<1>6. CASE Plan
  BY <1>6 DEF Plan, Delays, MaxOf
<1>7. CASE Wake
  BY <1>7 DEF Wake
<1>8. CASE Restart
  BY <1>8 DEF Restart
<1>9. CASE SettleOnce
  BY <1>9 DEF SettleOnce
<1>10. CASE SettleInterval
  BY <1>10 DEF SettleInterval, Settled, Second
<1>11. CASE SettleFailed
  BY <1>11 DEF SettleFailed, Settled, Second
<1>12. CASE Crash
  BY <1>12 DEF Crash, Counted
<1>13. CASE Tick
  <2> SUFFICES ASSUME NEW j \in Jobs \ OnceJobs, Held(j), current # j
               PROVE  DueAt(j, batch[j]) <= now + 1
    BY <1>13 DEF Tick, Second
  <2>1. batch[j] \in JobRecord
    OBVIOUS
  <2> QED
    BY <2>1, DueAtType
<1>14. ASSUME NEW c \in Callers, ScheduleOnce(c) PROVE SpacingInv'
  BY <1>14 DEF ScheduleOnce, BeginSchedule, Second
<1>15. ASSUME NEW c \in Callers, ScheduleInterval(c) PROVE SpacingInv'
  BY <1>15 DEF ScheduleInterval, BeginSchedule
<1>16. ASSUME NEW c \in Callers, EndSchedule(c) PROVE SpacingInv'
  BY <1>16 DEF EndSchedule, Filled
<1>17. ASSUME NEW c \in Callers, CancelLoad(c) PROVE SpacingInv'
  BY <1>17 DEF CancelLoad
<1>18. ASSUME NEW c \in Callers, CancelOnce(c) PROVE SpacingInv'
  BY <1>18 DEF CancelOnce, Told
<1>19. ASSUME NEW c \in Callers, CancelInterval(c) PROVE SpacingInv'
  BY <1>19 DEF CancelInterval
<1>20. ASSUME NEW c \in Callers, EndCancel(c) PROVE SpacingInv'
  BY <1>20 DEF EndCancel, Told, Filled
<1>21. ASSUME NEW c \in Callers, Abandon(c) PROVE SpacingInv'
  BY <1>21 DEF Abandon
<1>22. CASE UNCHANGED vars
  BY <1>22 DEF vars
<1> QED
  BY <1>1, <1>2, <1>3, <1>4, <1>5, <1>6, <1>7, <1>8, <1>9, <1>10, <1>11, <1>12,
      <1>13, <1>14, <1>15, <1>16, <1>17, <1>18, <1>19, <1>20, <1>21, <1>22 DEF Next,
      Looping, Calling, Settling

(* A cancellation that met no round stays. *)
LEMMA QuietStep == IInv /\ [Next]_vars => QuietCancelSticks'
<1> SUFFICES ASSUME IInv, [Next]_vars PROVE QuietCancelSticks'
  OBVIOUS
<1> USE SchedulerAssumption DEF IInv, RoundInv, CreationInv, QuietCancelSticks,
      TypeOK, JobRecord, JobStatus, NoFile, TornFile, NoTime, Resting, Held,
      loopVars, history
<1>1. CASE BeginRound
  BY <1>1 DEF BeginRound, Due
<1>2. CASE AbortRound
  BY <1>2 DEF AbortRound
<1>3. ASSUME NEW j \in Jobs, StartHandler(j) PROVE QuietCancelSticks'
  BY <1>3 DEF StartHandler, Counted
<1>4. CASE EndSettle
  BY <1>4 DEF EndSettle, Filled
<1>5. CASE EndRound
  BY <1>5 DEF EndRound
<1>6. CASE Plan
  BY <1>6 DEF Plan, Delays, MaxOf
<1>7. CASE Wake
  BY <1>7 DEF Wake
<1>8. CASE Restart
  BY <1>8 DEF Restart
<1>9. CASE SettleOnce
  BY <1>9 DEF SettleOnce
<1>10. CASE SettleInterval
  BY <1>10 DEF SettleInterval, Settled, Second
<1>11. CASE SettleFailed
  BY <1>11 DEF SettleFailed, Settled, Second
<1>12. CASE Crash
  BY <1>12 DEF Crash, Counted
<1>13. CASE Tick
  BY <1>13 DEF Tick
<1>14. ASSUME NEW c \in Callers, ScheduleOnce(c) PROVE QuietCancelSticks'
  BY <1>14 DEF ScheduleOnce, BeginSchedule, Second
<1>15. ASSUME NEW c \in Callers, ScheduleInterval(c) PROVE QuietCancelSticks'
  BY <1>15 DEF ScheduleInterval, BeginSchedule
<1>16. ASSUME NEW c \in Callers, EndSchedule(c) PROVE QuietCancelSticks'
  BY <1>16 DEF EndSchedule, Filled
<1>17. ASSUME NEW c \in Callers, CancelLoad(c) PROVE QuietCancelSticks'
  BY <1>17 DEF CancelLoad
<1>18. ASSUME NEW c \in Callers, CancelOnce(c) PROVE QuietCancelSticks'
  BY <1>18 DEF CancelOnce, Told
<1>19. ASSUME NEW c \in Callers, CancelInterval(c) PROVE QuietCancelSticks'
  BY <1>19 DEF CancelInterval
<1>20. ASSUME NEW c \in Callers, EndCancel(c) PROVE QuietCancelSticks'
  BY <1>20 DEF EndCancel, Told, Filled
<1>21. ASSUME NEW c \in Callers, Abandon(c) PROVE QuietCancelSticks'
  BY <1>21 DEF Abandon
<1>22. CASE UNCHANGED vars
  BY <1>22 DEF vars
<1> QED
  BY <1>1, <1>2, <1>3, <1>4, <1>5, <1>6, <1>7, <1>8, <1>9, <1>10, <1>11, <1>12,
      <1>13, <1>14, <1>15, <1>16, <1>17, <1>18, <1>19, <1>20, <1>21, <1>22 DEF Next,
      Looping, Calling, Settling

(* The first state satisfies the invariant. *)
LEMMA InitInv == Init => IInv
BY SchedulerAssumption DEF Init, IInv, TypeOK, RoundInv, CreationInv, SpentInv, SpacingInv,
      QuietCancelSticks, JobRecord, JobStatus, NoFile, NoTime, Resting, Held

(* Every step keeps the invariant. *)
LEMMA NextInv == IInv /\ [Next]_vars => IInv'
BY TypeStep, RoundStep, CreationStep, SpentStep, SpacingStep, QuietStep DEF IInv

(* The invariant holds in every reachable state. *)
THEOREM Invariance == Spec => []IInv
BY InitInv, NextInv, PTL DEF Spec

(* Type correctness, with the loop's position against its current job. *)
THEOREM TypeCorrect == Spec => []TypeOK
<1>1. IInv => TypeOK
  BY DEF IInv
<1> QED
  BY <1>1, Invariance, PTL

(* A one-off job's handler is started once, and once more for every death *)
(* of the runtime between a start and its settlement.                     *)
THEOREM OnceAtMostOnce == Spec => []OnceFiresOnce
<1>1. IInv => OnceFiresOnce
  BY DEF IInv, SpentInv, OnceFiresOnce
<1> QED
  BY <1>1, Invariance, PTL

(* A cancellation that returns while no round holds the job is final. *)
THEOREM QuietCancelFinal == Spec => []QuietCancelSticks
<1>1. IInv => QuietCancelSticks
  BY DEF IInv
<1> QED
  BY <1>1, Invariance, PTL

(* Two runs of a recurring job are its interval apart, less a second. *)
THEOREM IntervalKept == Spec => IntervalSpacing
<1> DEFINE Spaced ==
      \A j \in Jobs \ OnceJobs :
          loop = "pick" /\ current' = j /\ endedAt[j] # NoTime
              => now - endedAt[j] > (Every[j] - 1) * TicksPerSecond
<1>1. IInv /\ [Next]_vars => [Spaced]_vars
  <2> SUFFICES ASSUME IInv, [Next]_vars,
                      NEW j \in Jobs \ OnceJobs,
                      loop = "pick", current' = j, endedAt[j] # NoTime
               PROVE  now - endedAt[j] > (Every[j] - 1) * TicksPerSecond
    OBVIOUS
  <2>1. current = Idle /\ j # Idle
    BY SchedulerAssumption DEF IInv, TypeOK
  <2>2. Held(j)
    <3>1. StartHandler(j)
      BY <2>1 DEF Next, Looping, Calling, vars, loopVars, BeginRound, AbortRound, StartHandler,
            EndSettle, EndRound, Plan, Wake, Restart, SettleOnce, SettleInterval,
            SettleFailed, Crash, Tick, ScheduleOnce, ScheduleInterval, BeginSchedule,
            EndSchedule, CancelLoad, CancelOnce, CancelInterval, EndCancel, Abandon
    <3> QED
      BY <3>1 DEF StartHandler
  <2> DEFINE e == endedAt[j]
             n == Every[j]
             T == TicksPerSecond
  <2>3. e \in Nat /\ now \in Nat /\ n \in Nat /\ T \in Nat \ {0}
    BY SchedulerAssumption DEF IInv, TypeOK, SpacingInv
  <2>4. batch[j].last = e - (e % T)
    BY <2>1, <2>2 DEF IInv, SpacingInv, RoundInv, Second
  <2>5. e % T \in 0..(T - 1)
    BY <2>3
  <2>6. batch[j].last # NoTime
    BY <2>3, <2>4, <2>5 DEF NoTime
  <2>7. batch[j].last + n * T <= now
    BY <2>1, <2>2, <2>6 DEF IInv, SpacingInv, DueAt
  <2>8. (n - 1) * T = n * T - T /\ n * T \in Nat
    BY <2>3
  <2> HIDE DEF e, n, T
  <2>9. now - e > (n - 1) * T
    BY <2>3, <2>4, <2>5, <2>7, <2>8
  <2> QED
    BY <2>9 DEF e, n, T
<1> QED
  BY <1>1, Invariance, PTL DEF Spec, IntervalSpacing
----
(***************************************************************************)
(* The scheduler keeps the promises of JobLedger.  Two facts connect a     *)
(* step to the ledger: what a step does to one job's phase, and that it    *)
(* leaves every other job's alone.                                         *)
(***************************************************************************)

(* Writing to one stored job a record that is not scheduled withdraws it, *)
(* or changes nothing.                                                    *)
LEMMA WithdrawOrStutter ==
    ASSUME IInv, NEW j \in Jobs, life[j] = "stored", NEW file,
           file.status # "scheduled",
           store' = [store EXCEPT ![j] = file],
           life' = life, ledgerOwed' = ledgerOwed
    PROVE  Ledger!Withdraw(j) \/ (ledgerPhase' = ledgerPhase /\ ledgerOwed' = ledgerOwed)
<1>1. store \in [Jobs -> JobRecord]
  BY DEF IInv, TypeOK
<1>2. ledgerPhase' = [ledgerPhase EXCEPT ![j] = "ended"]
  BY <1>1 DEF ledgerPhase
<1>3. CASE ledgerPhase[j] = "active"
  BY <1>2, <1>3 DEF Ledger!Withdraw
<1>4. CASE ledgerPhase[j] = "ended"
  BY <1>2, <1>4 DEF ledgerPhase
<1> QED
  BY <1>3, <1>4 DEF ledgerPhase

(* A round claims jobs that are in force. *)
LEMMA RoundClaims == IInv /\ BeginRound => \E S \in SUBSET Jobs : Ledger!Claim(S)
<1> SUFFICES ASSUME IInv, BeginRound PROVE \E S \in SUBSET Jobs : Ledger!Claim(S)
  OBVIOUS
<1> DEFINE S == {j \in Jobs : Due(j, store[j])}
<1>1. \A j \in Jobs : ledgerOwed[j] = "idle"
  BY SchedulerAssumption DEF IInv, TypeOK, RoundInv, BeginRound, ledgerOwed
<1>2. \A j \in S : ledgerPhase[j] = "active"
  BY DEF IInv, TypeOK, CreationInv, Due, ledgerPhase
<1>3. ledgerOwed' = [j \in Jobs |-> IF j \in S THEN "claimed" ELSE "idle"]
  BY SchedulerAssumption DEF IInv, TypeOK, BeginRound, Due, ledgerOwed, Held, NoFile
<1>4. ledgerPhase' = ledgerPhase
  BY DEF BeginRound, ledgerPhase, history
<1> QED
  BY <1>1, <1>2, <1>3, <1>4 DEF Ledger!Claim

(* Recording an outcome settles the job: it is over, or it recurs. *)
LEMMA SettleSettles ==
    IInv /\ (EndSettle \/ SettleOnce) => \E j \in Jobs : Ledger!Settle(j)
<1> SUFFICES ASSUME IInv, EndSettle \/ SettleOnce PROVE Ledger!Settle(current)
  BY DEF IInv, TypeOK, EndSettle, SettleOnce
<1>1. current \in Jobs /\ current' = Idle /\ Idle \notin Jobs /\ life' = life
  BY SchedulerAssumption DEF IInv, TypeOK, EndSettle, SettleOnce, history
<1>2. batch' = [batch EXCEPT ![current] = NoFile] /\ batch \in [Jobs -> JobRecord]
  BY DEF IInv, TypeOK, EndSettle, SettleOnce
<1>3. ledgerOwed[current] = "started" /\ ledgerOwed' = [ledgerOwed EXCEPT ![current] = "idle"]
  BY <1>1, <1>2 DEF ledgerOwed, Held, NoFile
<1>4. life[current] = "stored"
  BY <1>1 DEF IInv, RoundInv, CreationInv
<1>5. PICK file : /\ store' = [store EXCEPT ![current] = file]
                  /\ current \in OnceJobs => file.status # "scheduled"
  <2>1. CASE SettleOnce
    <3>1. store' = [store EXCEPT ![current] = NoFile] /\ NoFile.status # "scheduled"
      BY <2>1 DEF SettleOnce, NoFile
    <3> QED
      BY <3>1
  <2>2. CASE EndSettle
    <3>1. PICK file \in Filled(store[current], batch[current]) :
              store' = [store EXCEPT ![current] = file]
      BY <2>2 DEF EndSettle
    <3>2. current \in OnceJobs => batch[current].status = "failed"
      BY <2>2 DEF EndSettle, IInv, RoundInv
    <3>3. current \in OnceJobs => file.status # "scheduled"
      BY <3>1, <3>2 DEF Filled, TornFile
    <3> QED
      BY <3>1, <3>3
  <2> QED
    BY <2>1, <2>2
<1>6. \E next \in {"active", "ended"} :
          /\ ledgerPhase' = [ledgerPhase EXCEPT ![current] = next]
          /\ current \in OnceJobs => next = "ended"
  <2>1. store \in [Jobs -> JobRecord]
    BY DEF IInv, TypeOK
  <2>2. CASE file.status = "scheduled"
    BY <1>1, <1>4, <1>5, <2>1, <2>2 DEF ledgerPhase
  <2>3. CASE file.status # "scheduled"
    BY <1>1, <1>4, <1>5, <2>1, <2>3 DEF ledgerPhase
  <2> QED
    BY <2>2, <2>3
<1> QED
  BY <1>3, <1>6 DEF Ledger!Settle

(* The end of a creation adds the job. *)
LEMMA CreationAdds ==
    ASSUME IInv, NEW c \in Callers, EndSchedule(c)
    PROVE  \E j \in Jobs : Ledger!Add(j)
<1> DEFINE j == caller[c].job
<1>1. j \in Jobs /\ life[j] = "saving" /\ store[j].status = "torn"
  BY SchedulerAssumption DEF IInv, TypeOK, CreationInv, EndSchedule
<1>2. store' = [store EXCEPT ![j] = caller[c].rec] /\ caller[c].rec.status = "scheduled"
  BY <1>1 DEF IInv, CreationInv, EndSchedule, Filled
<1>3. life' = [life EXCEPT ![j] = "stored"]
  BY DEF EndSchedule
<1>4. ledgerOwed' = ledgerOwed
  BY DEF EndSchedule, ledgerOwed, Held, loopVars
<1> HIDE DEF j
<1>5. ledgerPhase[j] = "new" /\ ledgerPhase' = [ledgerPhase EXCEPT ![j] = "active"]
  BY <1>1, <1>2, <1>3 DEF ledgerPhase, IInv, TypeOK
<1> QED
  BY <1>1, <1>4, <1>5 DEF Ledger!Add

(* Every step of the scheduler is a step of the ledger, or none. *)
LEMMA StepMaps ==
    IInv /\ IInv' /\ [Next]_vars => [Ledger!LedgerNext]_(Ledger!ledgerVars)
<1> DEFINE Same == ledgerPhase' = ledgerPhase /\ ledgerOwed' = ledgerOwed
<1> SUFFICES ASSUME IInv, IInv', [Next]_vars PROVE Ledger!LedgerNext \/ Same
  BY DEF Ledger!ledgerVars
<1> USE DEF Ledger!LedgerNext
<1>1. CASE BeginRound
  BY <1>1, RoundClaims
<1>2. CASE AbortRound \/ EndRound \/ Plan \/ Wake \/ Restart \/ Tick
  BY <1>2 DEF AbortRound, EndRound, Plan, Wake, Restart, Tick, loopVars, history,
        ledgerPhase, ledgerOwed, Held
<1>3. ASSUME NEW j \in Jobs, StartHandler(j) PROVE Ledger!Start(j)
  <2>1. current = Idle /\ current' = j /\ Idle \notin Jobs
    BY <1>3, SchedulerAssumption DEF StartHandler, IInv, TypeOK
  <2> QED
    BY <1>3, <2>1 DEF StartHandler, Ledger!Start, ledgerPhase, ledgerOwed, Held
<1>4. CASE EndSettle \/ SettleOnce
  BY <1>4, SettleSettles
<1>5. CASE SettleInterval \/ SettleFailed
  <2>1. current \in Jobs /\ life[current] = "stored"
    BY <1>5, SchedulerAssumption DEF SettleInterval, SettleFailed, IInv, TypeOK, RoundInv,
          CreationInv
  <2>2. /\ store' = [store EXCEPT ![current] = TornFile]
        /\ TornFile.status # "scheduled"
        /\ life' = life
    BY <1>5 DEF SettleInterval, SettleFailed, TornFile, history
  <2>3. \A j \in Jobs : j # current => batch'[j] = batch[j]
    BY <1>5, <2>1 DEF SettleInterval, SettleFailed, IInv, TypeOK
  <2>4. current' = current
    BY <1>5 DEF SettleInterval, SettleFailed
  <2>5. ledgerOwed' = ledgerOwed
    BY <2>3, <2>4 DEF ledgerOwed, Held
  <2> QED
    BY <2>1, <2>2, <2>5, WithdrawOrStutter
<1>6. CASE Crash
  <2>1. ledgerOwed' = [j \in Jobs |-> "idle"] /\ ledgerPhase' = ledgerPhase
    BY <1>6, SchedulerAssumption DEF Crash, ledgerOwed, ledgerPhase, Held, NoFile
  <2> QED
    BY <2>1 DEF Ledger!Lapse
<1>7. ASSUME NEW c \in Callers, ScheduleOnce(c) \/ ScheduleInterval(c) PROVE Same
  <2>0. PICK j \in Jobs : \E rec : BeginSchedule(c, j, rec)
    BY <1>7, SchedulerAssumption DEF ScheduleOnce, ScheduleInterval
  <2>1. PICK rec : BeginSchedule(c, j, rec)
    BY <2>0
  <2>2. ledgerOwed' = ledgerOwed
    BY <2>1 DEF BeginSchedule, ledgerOwed, Held, loopVars
  <2>3. \A i \in Jobs :
            \/ life[i] # "stored" /\ life'[i] # "stored"
            \/ life'[i] = life[i] /\ store'[i] = store[i]
    <3> TAKE i \in Jobs
    <3>1. life \in [Jobs -> {"unborn", "saving", "stored"}] /\ store \in [Jobs -> JobRecord]
      BY DEF IInv, TypeOK
    <3>2. CASE i = j
      <4>1. life[j] = "unborn" /\ life' = [life EXCEPT ![j] = "saving"]
        BY <2>1 DEF BeginSchedule
      <4>2. life[i] # "stored" /\ life'[i] # "stored"
        BY <3>1, <3>2, <4>1
      <4> QED
        BY <4>2
    <3>3. CASE i # j
      BY <2>1, <3>1, <3>3 DEF BeginSchedule
    <3> QED
      BY <3>2, <3>3
  <2>4. ledgerPhase' = ledgerPhase
    BY <2>3 DEF ledgerPhase
  <2> QED
    BY <2>2, <2>4
<1>8. ASSUME NEW c \in Callers, EndSchedule(c) PROVE Ledger!LedgerNext
  BY <1>8, CreationAdds
<1>9. ASSUME NEW c \in Callers, CancelLoad(c) \/ Abandon(c) PROVE Same
  BY <1>9 DEF CancelLoad, Abandon, loopVars, history, ledgerPhase, ledgerOwed, Held
<1>10. ASSUME NEW c \in Callers, CancelOnce(c) \/ CancelInterval(c) \/ EndCancel(c)
       PROVE  Ledger!LedgerNext \/ Same
  <2> DEFINE j == caller[c].job
  <2>1. j \in Jobs /\ life[j] = "stored"
    BY <1>10, SchedulerAssumption DEF CancelOnce, CancelInterval, EndCancel, IInv, TypeOK,
          CreationInv
  <2>2. life' = life /\ ledgerOwed' = ledgerOwed
    BY <1>10 DEF CancelOnce, CancelInterval, EndCancel, loopVars, history, ledgerOwed, Held
  <2>3. PICK file : store' = [store EXCEPT ![j] = file] /\ file.status # "scheduled"
    <3>1. CASE CancelOnce(c)
      <4>1. store' = [store EXCEPT ![j] = NoFile] /\ NoFile.status # "scheduled"
        BY <3>1 DEF CancelOnce, NoFile
      <4> QED
        BY <4>1
    <3>2. CASE CancelInterval(c)
      <4>1. store' = [store EXCEPT ![j] = TornFile] /\ TornFile.status # "scheduled"
        BY <3>2 DEF CancelInterval, TornFile
      <4> QED
        BY <4>1
    <3>3. CASE EndCancel(c)
      <4>1. caller[c].rec.status = "cancelled"
        BY <3>3 DEF EndCancel, IInv, CreationInv
      <4>2. PICK file \in Filled(store[j], caller[c].rec) :
                store' = [store EXCEPT ![j] = file]
        BY <3>3 DEF EndCancel
      <4>3. file.status # "scheduled"
        BY <4>1, <4>2 DEF Filled, TornFile
      <4> QED
        BY <4>2, <4>3
    <3> QED
      BY <1>10, <3>1, <3>2, <3>3
  <2> HIDE DEF j
  <2> QED
    BY <2>1, <2>2, <2>3, WithdrawOrStutter
<1>11. CASE UNCHANGED vars
  BY <1>11 DEF vars, loopVars, history, ledgerPhase, ledgerOwed, Held
<1> QED
  BY <1>1, <1>2, <1>3, <1>4, <1>5, <1>6, <1>7, <1>8, <1>9, <1>10, <1>11
     DEF Next, Looping, Calling

(* The scheduler implements the ledger. *)
THEOREM Refinement == Spec => KeepsLedger
<1>1. Init => Ledger!LedgerInit
  BY SchedulerAssumption DEF Init, Ledger!LedgerInit, ledgerPhase, ledgerOwed, Held, NoFile
<1> QED
  BY <1>1, StepMaps, Invariance, PTL DEF Spec, KeepsLedger, Ledger!LedgerSpec
==============================================================================
