-------------------------- MODULE MCApprovalWorkflow --------------------------
(* One transport with one chat of two users, wake-ups, and an operator.     *)
EXTENDS ApprovalWorkflow, TLC

CONSTANTS telegram, group

UserSymmetry == Permutations(Senders)

MCChatsOf == [t \in {telegram} |-> {group}]
=============================================================================
