---------------------------- MODULE UpdateDelivery ----------------------------
(* What the poll loops promise of the updates of a message service, with    *)
(* neither processes, nor threads, nor batches. A reader of a channel has a *)
(* place in its updates. While it is open it handles them in their order,   *)
(* none twice and none left out, and confirms all before its place, and     *)
(* only those. Closed, it may handle what it still holds; it may forget its *)
(* place, and then goes on behind what is confirmed.                        *)
EXTENDS Naturals

CONSTANT Channels

VARIABLES
    arrived,    \* arrived[c]: how many updates there are
    confirmed,  \* ... up to which one the service will not give them again
    handled,    \* ... which were handled
    place,      \* the next one that the reader of c will handle
    open        \* the reader is there, and not told to stop

deliveryVars == <<arrived, confirmed, handled, place, open>>

DeliveryInit ==
    /\ arrived = [c \in Channels |-> 0]
    /\ confirmed = [c \in Channels |-> 0]
    /\ handled = [c \in Channels |-> {}]
    /\ place = [c \in Channels |-> 1]
    /\ open = [c \in Channels |-> FALSE]

Arrive(c) ==
    /\ arrived' = [arrived EXCEPT ![c] = @ + 1]
    /\ UNCHANGED <<confirmed, handled, place, open>>

Open(c) ==
    /\ ~open[c]
    /\ open' = [open EXCEPT ![c] = TRUE]
    /\ place' = [place EXCEPT ![c] = confirmed[c] + 1]
    /\ UNCHANGED <<arrived, confirmed, handled>>

Handle(c) ==
    /\ place[c] <= arrived[c]
    /\ handled' = [handled EXCEPT ![c] = @ \cup {place[c]}]
    /\ \/ place' = [place EXCEPT ![c] = @ + 1]
       \/ ~open[c] /\ place' = [place EXCEPT ![c] = confirmed[c] + 1]
    /\ UNCHANGED <<arrived, confirmed, open>>

Confirm(c) ==
    /\ open[c]
    /\ confirmed' = [confirmed EXCEPT ![c] = place[c] - 1]
    /\ UNCHANGED <<arrived, handled, place, open>>

(* The readers of C close, and closed readers may forget their place.       *)
Close(C) ==
    /\ open' = [c \in Channels |-> open[c] /\ c \notin C]
    /\ \E F \in SUBSET C :
           place' = [c \in Channels |-> IF c \in F THEN confirmed[c] + 1 ELSE place[c]]
    /\ UNCHANGED <<arrived, confirmed, handled>>

DeliveryNext ==
    \/ \E c \in Channels : Arrive(c) \/ Open(c) \/ Handle(c) \/ Confirm(c)
    \/ \E C \in SUBSET Channels : Close(C)

DeliverySpec == DeliveryInit /\ [][DeliveryNext]_deliveryVars
=============================================================================
