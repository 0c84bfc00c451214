---------------------------- MODULE ApprovalLedger ----------------------------
(***************************************************************************)
(* What the approval workflow promises of a request under an id that the   *)
(* store made, with neither files, nor records, nor events.  A request is  *)
(* opened once and closed for good.  Threads pick it only while it is      *)
(* open; one that a user asked for, and that no operator answers, only     *)
(* while nobody else is at it.  An open request is not given up, and what  *)
(* was picked is closed before it is done with, unless its actor dies.     *)
(***************************************************************************)

CONSTANTS
    Requests,     \* ids that the store makes
    Handlers,     \* threads
    Operators     \* commands

VARIABLES
    phase,        \* phase[r]: "new", "private" or "shared" (both open), or "closed"
    picked,       \* picked[r]: the actors that have picked r,
    running,      \* ... that run its action,
    saving        \* ... that store its outcome

ledgerVars == <<phase, picked, running, saving>>

At(r) == picked[r] \cup running[r] \cup saving[r]
Free(a) == \A r \in Requests : a \notin At(r)

LedgerInit ==
    /\ phase = [r \in Requests |-> "new"]
    /\ picked = [r \in Requests |-> {}]
    /\ running = [r \in Requests |-> {}]
    /\ saving = [r \in Requests |-> {}]

(* The request can be answered: by its user only, or by anybody *)
Open(r) ==
    /\ phase[r] = "new"
    /\ \/ At(r) = {} /\ phase' = [phase EXCEPT ![r] = "private"]
       \/ phase' = [phase EXCEPT ![r] = "shared"]
    /\ UNCHANGED <<picked, running, saving>>

Pick(h, r) ==
    /\ Free(h)
    /\ phase[r] = "shared" \/ (phase[r] = "private" /\ At(r) = {})
    /\ picked' = [picked EXCEPT ![r] = @ \cup {h}]
    /\ UNCHANGED <<phase, running, saving>>

(* An operator answers any request; from then on it is not its user's alone *)
Force(o, r) ==
    /\ Free(o)
    /\ picked' = [picked EXCEPT ![r] = @ \cup {o}]
    /\ phase' = [phase EXCEPT ![r] = IF @ = "private" THEN "shared" ELSE @]
    /\ UNCHANGED <<running, saving>>

Start(a, r) ==
    /\ a \in picked[r]
    /\ phase[r] # "new"
    /\ picked' = [picked EXCEPT ![r] = @ \ {a}]
    /\ running' = [running EXCEPT ![r] = @ \cup {a}]
    /\ UNCHANGED <<phase, saving>>

(* The request is refused, or its action is over *)
Close(a, r) ==
    /\ a \in picked[r] \cup running[r]
    /\ phase[r] # "new"
    /\ phase' = [phase EXCEPT ![r] = "closed"]
    /\ picked' = [picked EXCEPT ![r] = @ \ {a}]
    /\ running' = [running EXCEPT ![r] = @ \ {a}]
    /\ saving' = [saving EXCEPT ![r] = @ \cup {a}]

End(a, r) ==
    /\ a \in saving[r]
    /\ saving' = [saving EXCEPT ![r] = @ \ {a}]
    /\ UNCHANGED <<phase, picked, running>>

GiveUp(a, r) ==
    /\ a \in picked[r]
    /\ phase[r] \in {"new", "closed"}
    /\ picked' = [picked EXCEPT ![r] = @ \ {a}]
    /\ UNCHANGED <<phase, running, saving>>

(* Actors die: requests that they were creating are never opened *)
Die(A) ==
    /\ picked' = [r \in Requests |-> picked[r] \ A]
    /\ running' = [r \in Requests |-> running[r] \ A]
    /\ saving' = [r \in Requests |-> saving[r] \ A]
    /\ \E lost \in SUBSET {r \in Requests : phase[r] = "new"} :
           phase' = [r \in Requests |-> IF r \in lost THEN "closed" ELSE phase[r]]

LedgerNext ==
    \/ \E r \in Requests :
           \/ Open(r)
           \/ \E h \in Handlers : Pick(h, r)
           \/ \E o \in Operators : Force(o, r)
           \/ \E a \in Handlers \cup Operators :
                  Start(a, r) \/ Close(a, r) \/ End(a, r) \/ GiveUp(a, r)
    \/ \E A \in {Handlers} \cup {{o} : o \in Operators} : Die(A)

LedgerSpec == LedgerInit /\ [][LedgerNext]_ledgerVars
=============================================================================
