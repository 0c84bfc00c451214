------------------------------- MODULE AgentTurn -------------------------------
(***************************************************************************)
(* AgentRuntimeService.handle_inbound_event: the turns of the model over   *)
(* one event of a session.  A message of the chat is handled in its        *)
(* transport's thread, a wake-up of the scheduler in the main loop, so two *)
(* events of a session may be handled at once, over one session memory.    *)
(* Each turn builds a prompt, asks the provider, runs the calls it answers *)
(* with as one batch (ToolBatch), and stores what was said and done.  After *)
(* the last turn the provider is asked once more, for a summary only.      *)
(*                                                                         *)
(* Events that are no messages or have no text end before this state       *)
(* changes, and answers to approvals are in ApprovalWorkflow.  Typing,     *)
(* progress messages, drafts and notifications are sent on the way: when   *)
(* sending fails that is logged and nothing else, so they leave no trace   *)
(* here.  What the model may answer is any combination of a message,       *)
(* calls, and requests to the user; texts are kept as far as who made them *)
(* and when.                                                               *)
(***************************************************************************)
EXTENDS SessionMemory

CONSTANTS
    MaxTurns,     \* agent.max_turns
    Answers,      \* what the model may answer with
    MaxCalls,     \* bound: calls of one answer
    MaxEvents,    \* bound: events handled
    MaxDeaths     \* bound: deaths of the runtime

(* AssistantResponse: a message is deferred (message_mode "after_tools", or *)
(* placeholders in it) only along with calls.                               *)
Response == [message : {"empty", "plain", "deferred"}, calls : 0..MaxCalls, asks : BOOLEAN]

ASSUME TurnAssumption ==
    /\ MaxTurns \in Nat \ {0}
    /\ MaxCalls \in Nat
    /\ MaxEvents \in Nat
    /\ MaxDeaths \in Nat
    /\ Answers \subseteq {r \in Response : r.message = "deferred" => r.calls > 0}

Events == 1..MaxEvents
Turns == 1..MaxTurns

(* What the assistant is stored or sent as saying: its message as it is, a *)
(* deferred message with the results filled in, the note that an approval  *)
(* is pending, the excuse for a failing provider, the provider's summary,  *)
(* and the list of results that stands in for one.  Never stored are "raw", *)
(* a deferred message as the model wrote it, and "silence", one that came   *)
(* to an empty text.                                                       *)
Texts == {"said", "rendered", "wait", "excuse", "summary", "tally"}
Unstored == {"raw", "silence"}

NoReply == [turn |-> 0, text |-> "none"]
Reply == [turn : Turns, text : Texts \cup Unstored] \cup {NoReply}

Message ==
    [role : {"user", "assistant", "tool"}, event : Events, turn : 0..MaxTurns,
     call : 0..MaxCalls, text : Texts \cup {"none"}]

VARIABLES
    turn,      \* turn[t]: the event that thread t handles
    events,    \* events received
    deaths,
    ran,       \* history: ran[e][k], the calls run in turn k of event e
    ended      \* history: ended[e], how the handling of event e ended

history == <<ran, ended>>
vars == <<memoryVars, turn, events, deaths, history>>

NoResponse == [message |-> "empty", calls |-> 0, asks |-> FALSE]

Stages == {"idle", "context", "ask", "say", "run", "keep", "wait", "render",
           "close", "excuse", "summary"}

Turn ==
    [stage : Stages, event : 0..MaxEvents, turn : 0..MaxTurns, final : BOOLEAN,
     last : Reply, deferred : Reply, answer : Response, kept : 0..MaxCalls,
     waits : BOOLEAN, prev : 0..MaxCalls, text : Texts]

NoTurn ==
    [stage |-> "idle", event |-> 0, turn |-> 0, final |-> FALSE, last |-> NoReply,
     deferred |-> NoReply, answer |-> NoResponse, kept |-> 0, waits |-> FALSE,
     prev |-> 0, text |-> "summary"]

Endings == {"none", "open", "reply", "asked", "prompt", "error", "lost"}
Open == [how |-> "open", reply |-> NoReply]

----
Init ==
    /\ MemoryInit
    /\ turn = [t \in Threads |-> NoTurn]
    /\ events = 0
    /\ deaths = 0
    /\ ran = [e \in Events |-> [k \in Turns |-> 0]]
    /\ ended = [e \in Events |-> [how |-> "none", reply |-> NoReply]]

At(t, stage) == turn[t].stage = stage

Stored(t, role, call, text) ==
    AppendMessage([role |-> role, event |-> turn[t].event, turn |-> turn[t].turn,
                   call |-> call, text |-> text])

Reached(t, stage) == turn' = [turn EXCEPT ![t].stage = stage]

Ends(t, how, reply) ==
    /\ turn' = [turn EXCEPT ![t] = NoTurn]
    /\ ended' = [ended EXCEPT ![turn[t].event] = [how |-> how, reply |-> reply]]

Quiet == UNCHANGED <<messages, inFocus, unsynced, events, deaths>>

(* An event with a text that no approval took is stored, or cannot be *)
Receive(t) ==
    /\ At(t, "idle") /\ events < MaxEvents
    /\ events' = events + 1
    /\ \/ /\ AppendMessage([role |-> "user", event |-> events + 1, turn |-> 0, call |-> 0,
                              text |-> "none"])
          /\ turn' = [turn EXCEPT ![t] = [NoTurn EXCEPT !.stage = "context", !.turn = 1,
                                                        !.event = events + 1]]
          /\ ended' = [ended EXCEPT ![events + 1] = Open]
       \/ /\ ended' = [ended EXCEPT ![events + 1] = [how |-> "error", reply |-> NoReply]]
          /\ UNCHANGED <<memoryVars, turn>>
    /\ UNCHANGED <<deaths, ran>>

BuildContext(t) ==
    /\ At(t, "context")
    /\ \/ (SelectFocus(t) \/ SyncFocus(t)) /\ UNCHANGED turn
       \/ ReadMessages(t) /\ Reached(t, "ask")
    /\ UNCHANGED <<events, deaths, history>>

(* generate_assistant_response within a turn *)
Answer(t) ==
    /\ At(t, "ask") /\ ~turn[t].final
    /\ \/ \E answer \in Answers :
              turn' = [turn EXCEPT ![t].stage = IF answer.message = "plain" THEN "say" ELSE "run",
                                  ![t].answer = answer]
       \/ Reached(t, "excuse")
    /\ build' = [build EXCEPT ![t] = NoBuild]
    /\ Quiet /\ UNCHANGED history

(* _finalize_provider_failure *)
Excuse(t) ==
    /\ At(t, "excuse")
    /\ Stored(t, "assistant", 0, "excuse")
    /\ Ends(t, "reply", [turn |-> turn[t].turn, text |-> "excuse"])
    /\ UNCHANGED <<events, deaths, ran>>

(* A message that is not deferred is stored before the calls are run *)
Say(t) ==
    /\ At(t, "say")
    /\ Stored(t, "assistant", 0, "said")
    /\ turn' = [turn EXCEPT ![t].stage = "run",
                            ![t].last = [turn |-> turn[t].turn, text |-> "said"]]
    /\ UNCHANGED <<events, deaths, history>>

AfterResults(answer, waits) ==
    CASE waits -> "wait"
      [] ~waits /\ answer.message = "deferred" -> "render"
      [] OTHER -> "close"

(* Draft: the turn pauses for an approval before the results are stored *)
AfterBatchPausing(answer, waits) ==
    IF answer.calls = 0 \/ waits THEN AfterResults(answer, waits) ELSE "keep"

AfterBatch(answer, waits) ==
    IF answer.calls = 0 THEN AfterResults(answer, waits) ELSE "keep"

(* AgentTurnService.run_turn: the batch, then the requests to the user.    *)
(* A batch that cannot be prepared raises and runs nothing; a request that *)
(* cannot be created raises after the batch.                               *)
RunTurn(t) ==
    LET answer == turn[t].answer
        calls == [ran EXCEPT ![turn[t].event][turn[t].turn] = answer.calls]
    IN
    /\ At(t, "run")
    /\ \/ /\ ran' = calls
          /\ \E waits \in {w \in BOOLEAN : w => answer.calls > 0} :
                 turn' = [turn EXCEPT ![t].stage = AfterBatch(answer, waits),
                                      ![t].kept = 0, ![t].waits = waits]
          /\ UNCHANGED ended
       \/ answer.calls > 0 /\ Ends(t, "error", NoReply) /\ UNCHANGED ran
       \/ answer.asks /\ Ends(t, "error", NoReply) /\ ran' = calls
    /\ UNCHANGED build /\ Quiet

(* The results are stored one by one *)
KeepResult(t) ==
    LET answer == turn[t].answer IN
    /\ At(t, "keep")
    /\ Stored(t, "tool", turn[t].kept + 1, "none")
    /\ turn' = [turn EXCEPT ![t].kept = @ + 1,
                            ![t].stage = IF turn[t].kept + 1 = answer.calls
                                         THEN AfterResults(answer, turn[t].waits) ELSE @]
    /\ UNCHANGED <<events, deaths, history>>

(* A call waits for an approval: the turn ends with a note of it, or with a *)
(* prompt with buttons that the transport took.                             *)
Wait(t) ==
    /\ At(t, "wait")
    /\ Stored(t, "assistant", 0, "wait")
    /\ \/ Ends(t, "prompt", [turn |-> turn[t].turn, text |-> "wait"])
       \/ Ends(t, "reply", [turn |-> turn[t].turn, text |-> "wait"])
    /\ UNCHANGED <<events, deaths, ran>>

(* Draft: the deferred reply is only returned *)
RenderUnstored(t) ==
    LET rendered == [turn |-> turn[t].turn, text |-> "rendered"] IN
    /\ At(t, "render")
    /\ turn' = [turn EXCEPT ![t].stage = "close", ![t].last = rendered, ![t].deferred = rendered]
    /\ UNCHANGED <<memoryVars, events, deaths, history>>

(* _render_deferred_assistant_message: with the results filled in, the text *)
(* may be empty, which is a reply all the same, but not stored and no last  *)
(* message; or a placeholder names no result, and there is no reply yet.    *)
Render(t) ==
    LET Now(text) == [turn |-> turn[t].turn, text |-> text] IN
    /\ At(t, "render")
    /\ \/ /\ Stored(t, "assistant", 0, "rendered")
          /\ turn' = [turn EXCEPT ![t].stage = "close", ![t].last = Now("rendered"),
                                  ![t].deferred = Now("rendered")]
       \/ /\ turn' = [turn EXCEPT ![t].stage = "close", ![t].deferred = Now("silence")]
          /\ UNCHANGED memoryVars
       \/ Reached(t, "close") /\ UNCHANGED memoryVars
    /\ UNCHANGED <<events, deaths, history>>

(* turn_result.message or last_message *)
Words(t) ==
    CASE turn[t].answer.message = "plain" -> [turn |-> turn[t].turn, text |-> "said"]
      [] turn[t].answer.message = "deferred" -> [turn |-> turn[t].turn, text |-> "raw"]
      [] OTHER -> turn[t].last

Finished(t) == turn[t].answer.asks \/ turn[t].answer.calls = 0

Return(t) ==
    /\ At(t, "close")
    /\ \/ Finished(t) /\ Ends(t, IF turn[t].answer.asks THEN "asked" ELSE "reply", Words(t))
       \/ ~Finished(t) /\ turn[t].deferred # NoReply /\ Ends(t, "reply", turn[t].deferred)
    /\ UNCHANGED <<build, ran>> /\ Quiet

Goes(t) == At(t, "close") /\ ~Finished(t) /\ turn[t].deferred = NoReply

(* The next round of the loop, with the results of this one *)
Again(t) ==
    [NoTurn EXCEPT !.stage = "context", !.event = turn[t].event, !.turn = turn[t].turn,
                   !.last = turn[t].last, !.prev = turn[t].answer.calls]

(* Draft: the runtime as it was before the summary, which returned the last *)
(* message after the last turn.                                             *)
GoOnUntilCap(t) ==
    /\ Goes(t)
    /\ IF turn[t].turn < MaxTurns
       THEN /\ turn' = [turn EXCEPT ![t] = [Again(t) EXCEPT !.turn = @ + 1]]
            /\ UNCHANGED ended
       ELSE Ends(t, "reply", turn[t].last)
    /\ UNCHANGED <<build, ran>> /\ Quiet

(* Draft: the loop is one round too long *)
GoOnTooLong(t) ==
    /\ Goes(t)
    /\ turn' = [turn EXCEPT ![t] = IF turn[t].turn <= MaxTurns
                                   THEN [Again(t) EXCEPT !.turn = @ + 1]
                                   ELSE [Again(t) EXCEPT !.final = TRUE]]
    /\ UNCHANGED <<build, history>> /\ Quiet

GoOn(t) ==
    /\ Goes(t)
    /\ turn' = [turn EXCEPT ![t] = IF turn[t].turn < MaxTurns
                                   THEN [Again(t) EXCEPT !.turn = @ + 1]
                                   ELSE [Again(t) EXCEPT !.final = TRUE]]
    /\ UNCHANGED <<build, history>> /\ Quiet

(* _finalize_after_max_turns: calls and requests of the answer are ignored; *)
(* without an answer the results of the last turn are listed.               *)
Summarise(t) ==
    /\ At(t, "ask") /\ turn[t].final
    /\ \E text \in {"summary"} \cup {x \in {"tally"} : turn[t].prev > 0} :
           turn' = [turn EXCEPT ![t].stage = "summary", ![t].text = text]
    /\ build' = [build EXCEPT ![t] = NoBuild]
    /\ Quiet /\ UNCHANGED history

StoreSummary(t) ==
    /\ At(t, "summary")
    /\ Stored(t, "assistant", 0, turn[t].text)
    /\ Ends(t, "reply", [turn |-> turn[t].turn, text |-> turn[t].text])
    /\ UNCHANGED <<events, deaths, ran>>

(* SQLite refuses: the file is locked for too long, or the disk is full.    *)
(* The exception goes up to the thread's loop, which answers with an error. *)
MemoryFails(t) ==
    /\ turn[t].stage \in {"context", "excuse", "say", "keep", "wait", "render", "summary"}
    /\ Ends(t, "error", NoReply)
    /\ build' = [build EXCEPT ![t] = NoBuild]
    /\ Quiet /\ UNCHANGED ran

(* The runtime dies with all its threads; a supervisor starts it again *)
Die ==
    /\ deaths < MaxDeaths
    /\ \E t \in Threads : ~At(t, "idle")
    /\ deaths' = deaths + 1
    /\ turn' = [t \in Threads |-> NoTurn]
    /\ build' = [t \in Threads |-> NoBuild]
    /\ ended' = [e \in Events |-> IF ended[e] = Open
                                  THEN [how |-> "lost", reply |-> NoReply] ELSE ended[e]]
    /\ UNCHANGED <<messages, inFocus, unsynced, events, ran>>

(* What a thread does with the event it has *)
Step(t) ==
    \/ BuildContext(t) \/ Answer(t) \/ Excuse(t) \/ Say(t)
    \/ RunTurn(t) \/ KeepResult(t) \/ Wait(t) \/ Render(t) \/ Return(t)
    \/ GoOn(t) \/ Summarise(t) \/ StoreSummary(t) \/ MemoryFails(t)

Next == \/ \E t \in Threads : Receive(t) \/ Step(t)
        \/ Die

Spec == Init /\ [][Next]_vars

----
(* The records keep their types, and an event is open while a thread has it *)
TypeOK ==
    /\ MemoryTypeOK
    /\ messages \in Seq(Message)
    /\ turn \in [Threads -> Turn]
    /\ events \in 0..MaxEvents
    /\ deaths \in 0..MaxDeaths
    /\ ran \in [Events -> [Turns -> 0..MaxCalls]]
    /\ ended \in [Events -> [how : Endings, reply : Reply]]
    /\ \A t \in Threads : ~At(t, "idle") => turn[t].event \in Events /\ ended[turn[t].event] = Open

Remembered(role, e, k, call, text) ==
    \E i \in 1..Len(messages) :
        messages[i] = [role |-> role, event |-> e, turn |-> k, call |-> call, text |-> text]

(* The turns of an event whose batch was run and whose results were stored: *)
(* all of them once it ended well, else those before the one it stopped in. *)
Past(e, k) ==
    \/ ended[e].how \in {"reply", "asked", "prompt"}
    \/ \E later \in Turns : later > k /\ ran[e][later] > 0

(* Every call that was run has its result in the session's memory, in all  *)
(* turns but the one in which an error or a death stopped the event: the   *)
(* model is never asked to go on from work that the session does not know. *)
WorkRemembered ==
    \A e \in Events, k \in Turns :
        Past(e, k) => \A c \in 1..ran[e][k] : Remembered("tool", e, k, c, "none")

(* What the user is answered is in the memory as said by the assistant, but *)
(* for a deferred message returned beside a request to the user, and for an *)
(* empty one, which tells the user nothing.                                 *)
ReplyRemembered ==
    \A e \in Events :
        LET reply == ended[e].reply IN
            reply # NoReply /\ reply.text \notin Unstored =>
                Remembered("assistant", e, reply.turn, 0, reply.text)

(* A plan that uses up its turns ends with a summary or with the results    *)
(* (_finalize_after_max_turns), or as its last turn ends it: never with the *)
(* message that announced the next step, nor with its placeholders.  It     *)
(* ends in silence only where the deferred message of the last turn came to *)
(* an empty text, which the code returns as it is.                          *)
PlanAnswered ==
    \A e \in Events :
        /\ ended[e].how = "reply"
        /\ \A k \in Turns : ran[e][k] > 0
        => ended[e].reply.turn = MaxTurns /\ ended[e].reply.text \notin {"said", "raw"}
=============================================================================
