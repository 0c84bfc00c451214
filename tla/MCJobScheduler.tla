---------------------------- MODULE MCJobScheduler ----------------------------
(* One one-off and one recurring job, the agent the handler wakes and one   *)
(* other agent (a transport thread or a command-line process).              *)
EXTENDS JobScheduler

CONSTANTS once, interval, woken, other

MCEvery == [j \in {once, interval} |-> 2]
=============================================================================
