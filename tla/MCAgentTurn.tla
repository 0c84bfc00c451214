------------------------------ MODULE MCAgentTurn ------------------------------
(* A chat's thread and the main loop, each with an event of one session.   *)
EXTENDS AgentTurn, TLC

CONSTANTS chat, loop

MCAnswer(message, calls, asks) == [message |-> message, calls |-> calls, asks |-> asks]

MCAnswers ==
    {MCAnswer("plain", 0, FALSE), MCAnswer("plain", 1, FALSE),
     MCAnswer("deferred", 1, FALSE), MCAnswer("deferred", 1, TRUE)}

MCSymmetry == Permutations({chat, loop})
=============================================================================
