------------------------------ MODULE JobLedger ------------------------------
(***************************************************************************)
(* What the scheduler promises about the jobs of a workspace, with neither *)
(* files, nor clock, nor record copies: a stored job stays in force until  *)
(* it is withdrawn or run to its end, a round claims jobs that are in      *)
(* force, a claimed job is started at most once in that round, and a       *)
(* one-off job that was settled is over.                                   *)
(***************************************************************************)

CONSTANTS
    Jobs,       \* job ids
    OnceJobs    \* the ids of one-off jobs; the others recur

VARIABLES
    phase,      \* phase[j]: "new", "active" or "ended"
    owed        \* owed[j]: "idle", "claimed" or "started" by the current round

ledgerVars == <<phase, owed>>

LedgerInit ==
    /\ phase = [j \in Jobs |-> "new"]
    /\ owed = [j \in Jobs |-> "idle"]

(* The job becomes durable. *)
Add(j) ==
    /\ phase[j] = "new"
    /\ phase' = [phase EXCEPT ![j] = "active"]
    /\ UNCHANGED owed

(* The job stops being in force: it was cancelled, or its end is being     *)
(* recorded.                                                               *)
Withdraw(j) ==
    /\ phase[j] = "active"
    /\ phase' = [phase EXCEPT ![j] = "ended"]
    /\ UNCHANGED owed

(* A round takes jobs that are in force, and only those. *)
Claim(S) ==
    /\ \A j \in Jobs : owed[j] = "idle"
    /\ \A j \in S : phase[j] = "active"
    /\ owed' = [j \in Jobs |-> IF j \in S THEN "claimed" ELSE "idle"]
    /\ UNCHANGED phase

Start(j) ==
    /\ owed[j] = "claimed"
    /\ owed' = [owed EXCEPT ![j] = "started"]
    /\ UNCHANGED phase

(* The handler's outcome is recorded. Only a recurring job may be in force *)
(* again.                                                                  *)
Settle(j) ==
    /\ owed[j] = "started"
    /\ owed' = [owed EXCEPT ![j] = "idle"]
    /\ \E next \in IF j \in OnceJobs THEN {"ended"} ELSE {"active", "ended"} :
           phase' = [phase EXCEPT ![j] = next]

(* The runtime dies: the round is forgotten, the jobs are not. *)
Lapse ==
    /\ owed' = [j \in Jobs |-> "idle"]
    /\ UNCHANGED phase

LedgerNext ==
    \/ \E j \in Jobs : Add(j) \/ Withdraw(j) \/ Start(j) \/ Settle(j)
    \/ \E S \in SUBSET Jobs : Claim(S)
    \/ Lapse

LedgerSpec == LedgerInit /\ [][LedgerNext]_ledgerVars
=============================================================================
