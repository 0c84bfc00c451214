----------------------------- MODULE AgentTurnProofs -----------------------------
(***************************************************************************)
(* Proofs about AgentTurn, for every number of threads, turns, calls and   *)
(* messages, whatever the model answers.                                   *)
(*                                                                         *)
(* An event that is being handled belongs to one thread (OwnerInv).  What  *)
(* that thread has done so far is in the memory (Live); what an ended      *)
(* event leaves is what its thread had (Closed); and the flags of the      *)
(* focus follow the lists that the threads hold (FocusInv).                *)
(***************************************************************************)
EXTENDS AgentTurn, TLAPS

Working(t) == ~At(t, "idle")

OwnerInv ==
    /\ \A t \in Threads :
           Working(t) =>
               /\ turn[t].event \in 1..events
               /\ turn[t].turn \in Turns
               /\ \A d \in Threads : Working(d) /\ turn[d].event = turn[t].event => d = t
               /\ turn[t].answer.message = "deferred" => turn[t].answer.calls > 0
               /\ At(t, "keep") => turn[t].kept < turn[t].answer.calls
               /\ turn[t].final => /\ turn[t].turn = MaxTurns
                                   /\ turn[t].stage \in {"context", "ask", "summary"}
               /\ At(t, "summary") => turn[t].final /\ turn[t].text \in {"summary", "tally"}
    /\ \A e \in Events :
           /\ e > events => /\ ended[e] = [how |-> "none", reply |-> NoReply]
                            /\ \A k \in Turns : ran[e][k] = 0
           /\ ended[e] = Open => \E t \in Threads : Working(t) /\ turn[t].event = e

(* What the memory m has: a message, and the results of all the calls that *)
(* were run, as r says, in turn k of event e.                              *)
Has(m, role, e, k, c, text) ==
    \E i \in 1..Len(m) :
        m[i] = [role |-> role, event |-> e, turn |-> k, call |-> c, text |-> text]

Done(m, r, e, k) == \A c \in 1..r[e][k] : Has(m, "tool", e, k, c, "none")

Spoken(m, e, reply) == Has(m, "assistant", e, reply.turn, 0, reply.text)

(* What a thread at work has run and stored, x being where it is. *)
Live(m, r, x) ==
    /\ \A j \in Turns : j < x.turn => Done(m, r, x.event, j)
    /\ \A j \in Turns : j > x.turn => r[x.event][j] = 0
    /\ x.final => Done(m, r, x.event, x.turn)
    /\ ~x.final /\ x.stage \in {"context", "ask", "say", "run", "excuse"}
           => r[x.event][x.turn] = 0
    /\ x.stage \in {"keep", "wait", "render", "close"} => r[x.event][x.turn] = x.answer.calls
    /\ x.stage \in {"wait", "render", "close"} => Done(m, r, x.event, x.turn)
    /\ x.stage = "keep" => \A c \in 1..x.kept : Has(m, "tool", x.event, x.turn, c, "none")
    /\ x.last # NoReply => x.last.text \notin Unstored /\ Spoken(m, x.event, x.last)
    /\ x.deferred # NoReply =>
           /\ x.stage = "close"
           /\ \/ /\ x.deferred = [turn |-> x.turn, text |-> "rendered"]
                 /\ Spoken(m, x.event, x.deferred)
              \/ x.deferred = [turn |-> x.turn, text |-> "silence"]
    /\ x.stage \in {"run", "keep", "wait", "render", "close"} /\ x.answer.message = "plain"
           => Has(m, "assistant", x.event, x.turn, 0, "said")

(* What is known of an event e that is not open and has this ending. *)
Closed(m, r, ending, e) ==
    /\ \A k \in Turns :
           \/ ending.how \in {"reply", "asked", "prompt"}
           \/ \E later \in Turns : later > k /\ r[e][later] > 0
           => Done(m, r, e, k)
    /\ ending.reply # NoReply /\ ending.reply.text \notin Unstored => Spoken(m, e, ending.reply)
    /\ ending.how = "reply" /\ (\A k \in Turns : r[e][k] > 0)
           => ending.reply.turn = MaxTurns /\ ending.reply.text \notin {"said", "raw"}

FocusInv ==
    /\ FocusKept
    /\ \A t \in Threads : build[t].focus \subseteq 1..Len(messages)
    /\ \A t \in Threads : build[t].step = "flag" =>
           LastIds(FocusLimit) \ unsynced \subseteq build[t].focus

IInv ==
    /\ TypeOK
    /\ OwnerInv
    /\ \A t \in Threads : Working(t) => Live(messages, ran, turn[t])
    /\ \A e \in Events : ended[e] # Open => Closed(messages, ran, ended[e], e)
    /\ FocusInv

----
(* What is remembered stays so when a message is appended. *)
LEMMA AppendKeeps ==
    ASSUME messages \in Seq(Message), NEW m \in Message, AppendMessage(m)
    PROVE  /\ messages' \in Seq(Message)
           /\ Len(messages') = Len(messages) + 1
           /\ \A i \in 1..Len(messages) : i \in 1..Len(messages') /\ messages'[i] = messages[i]
           /\ Len(messages') \in 1..Len(messages')
           /\ messages'[Len(messages')] = m
<1> messages' = Append(messages, m)
  BY DEF AppendMessage
<1> Len(messages) \in Nat
  OBVIOUS
<1> QED
  OBVIOUS

(* A memory m that has grown to n has what it had. *)
Grown(m, n) == \A i \in 1..Len(m) : i \in 1..Len(n) /\ n[i] = m[i]

LEMMA HasStays ==
    \A m, n, role, e, k, c, text :
        Grown(m, n) /\ Has(m, role, e, k, c, text) => Has(n, role, e, k, c, text)
BY DEF Has, Grown

LEMMA DoneStays ==
    \A m, n, r, s, e, k : Grown(m, n) /\ s[e][k] = r[e][k] /\ Done(m, r, e, k) => Done(n, s, e, k)
BY HasStays DEF Done

LEMMA LiveStays ==
    ASSUME NEW m, NEW n, NEW r, NEW s, NEW x, Grown(m, n), s[x.event] = r[x.event], Live(m, r, x)
    PROVE  Live(n, s, x)
BY HasStays, DoneStays DEF Live, Spoken

LEMMA ClosedStays ==
    ASSUME NEW m, NEW n, NEW r, NEW s, NEW ending, NEW e, Grown(m, n), s[e] = r[e],
           Closed(m, r, ending, e)
    PROVE  Closed(n, s, ending, e)
BY HasStays, DoneStays DEF Closed, Spoken

(* What thread t leaves alone in a step of its own. *)
Apart(t) ==
    /\ Grown(messages, messages')
    /\ \A d \in Threads \ {t} : turn'[d] = turn[d]
    /\ \A e \in Events : e # turn[t].event => ended'[e] = ended[e] /\ ran'[e] = ran[e]
    /\ events' = events

LEMMA StoredMessage ==
    ASSUME TypeOK, OwnerInv, NEW t \in Threads, Working(t), NEW role \in {"user", "assistant", "tool"},
           NEW c \in 0..MaxCalls, NEW text \in Texts \cup {"none"}, Stored(t, role, c, text),
           NEW e, NEW k, e = turn[t].event, k = turn[t].turn
    PROVE  /\ Grown(messages, messages')
           /\ messages' \in Seq(Message)
           /\ Len(messages') = Len(messages) + 1
           /\ Has(messages', role, e, k, c, text)
           /\ inFocus' = inFocus \cup {Len(messages) + 1}
           /\ UNCHANGED build
           /\ unsynced' \subseteq unsynced \cup {Len(messages) + 1}
<1> DEFINE m == [role |-> role, event |-> e, turn |-> k, call |-> c, text |-> text]
<1>1. e \in Events /\ k \in 0..MaxTurns
  BY TurnAssumption DEF OwnerInv, TypeOK, Events, Turns, Working
<1>2. m \in Message
  BY <1>1 DEF Message
<1>3. AppendMessage(m)
  BY DEF Stored
<1>4. messages \in Seq(Message)
  BY DEF TypeOK
<1>5. /\ messages' \in Seq(Message) /\ Len(messages') = Len(messages) + 1 /\ Grown(messages, messages')
      /\ Len(messages') \in 1..Len(messages') /\ messages'[Len(messages')] = m
  BY <1>2, <1>3, <1>4, AppendKeeps DEF Grown
<1>6. Has(messages', role, e, k, c, text)
  BY <1>5 DEF Has
<1> QED
  BY <1>3, <1>5, <1>6 DEF AppendMessage

----
(* The types of what threads and events have. *)
WorkTypes ==
    /\ turn \in [Threads -> Turn]
    /\ ended \in [Events -> [how : Endings, reply : Reply]]
    /\ \A t \in Threads : Working(t) => turn[t].event \in Events /\ ended[turn[t].event] = Open

MemoryTypes == MemoryTypeOK /\ messages \in Seq(Message)

LEMMA IdleType == NoTurn \in Turn /\ NoTurn.stage = "idle" /\ NoBuild \in Build
<1>1. 0 \in 0..MaxTurns /\ 0 \in 0..MaxEvents /\ 0 \in 0..MaxCalls
  BY TurnAssumption
<1>2. NoReply \in Reply
  BY DEF Reply
<1>3. NoResponse \in Response
  BY <1>1 DEF NoResponse, Response
<1> QED
  BY <1>1, <1>2, <1>3 DEF NoTurn, Turn, Stages, Texts, NoBuild, Build

(* A thread that goes on with its event. *)
LEMMA GoesOn ==
    ASSUME TypeOK, OwnerInv, NEW t \in Threads, Working(t), NEW x \in Turn,
           turn' = [turn EXCEPT ![t] = x], x.event = turn[t].event, UNCHANGED <<ended, events>>
    PROVE  /\ WorkTypes'
           /\ \A d \in Threads \ {t} : turn'[d] = turn[d]
           /\ turn'[t] = x
BY DEF TypeOK, OwnerInv, WorkTypes, Working, At

(* A thread whose event ends. *)
LEMMA Finishes ==
    ASSUME TypeOK, OwnerInv, NEW t \in Threads, Working(t), NEW how \in Endings, NEW reply \in Reply,
           Ends(t, how, reply), events' = events
    PROVE  /\ WorkTypes'
           /\ \A d \in Threads \ {t} : turn'[d] = turn[d]
           /\ turn'[t] = NoTurn
           /\ ended'[turn[t].event] = [how |-> how, reply |-> reply]
           /\ \A e \in Events : e # turn[t].event => ended'[e] = ended[e]
<1>1. /\ turn' = [turn EXCEPT ![t] = NoTurn]
      /\ ended' = [ended EXCEPT ![turn[t].event] = [how |-> how, reply |-> reply]]
  BY DEF Ends
<1>2. turn[t].event \in Events
  BY DEF TypeOK, Working
<1>3. turn' \in [Threads -> Turn] /\ ended' \in [Events -> [how : Endings, reply : Reply]]
  BY <1>1, IdleType DEF TypeOK
<1>4. \A d \in Threads : Working(d)' => d # t /\ Working(d) /\ turn'[d] = turn[d]
  BY <1>1, IdleType DEF TypeOK, Working, At
<1>5. \A d \in Threads : Working(d)' => turn'[d].event \in Events /\ ended'[turn'[d].event] = Open
  BY <1>1, <1>2, <1>4 DEF TypeOK, OwnerInv, Working
<1> QED
  BY <1>1, <1>2, <1>3, <1>5 DEF WorkTypes, TypeOK

LEMMA StoredTypes ==
    ASSUME TypeOK, OwnerInv, NEW t \in Threads, Working(t), NEW role \in {"user", "assistant", "tool"},
           NEW c \in 0..MaxCalls, NEW text \in Texts \cup {"none"}, Stored(t, role, c, text)
    PROVE  MemoryTypes'
<1>1. /\ messages' \in Seq(Message) /\ Len(messages') = Len(messages) + 1
      /\ inFocus' = inFocus \cup {Len(messages) + 1} /\ UNCHANGED build
      /\ unsynced' \subseteq unsynced \cup {Len(messages) + 1}
  BY StoredMessage
<1>2. Len(messages) \in Nat
  BY DEF TypeOK
<1>3. 1..Len(messages') = (1..Len(messages)) \cup {Len(messages) + 1}
  BY <1>1, <1>2
<1>4. inFocus' \subseteq 1..Len(messages') /\ unsynced' \subseteq 1..Len(messages')
  BY <1>1, <1>3 DEF TypeOK, MemoryTypeOK
<1> QED
  BY <1>1, <1>4 DEF MemoryTypes, MemoryTypeOK, TypeOK

LEMMA QuietTypes ==
    ASSUME TypeOK, UNCHANGED <<messages, inFocus, unsynced>>,
           build' = build \/ \E t \in Threads : build' = [build EXCEPT ![t] = NoBuild]
    PROVE  MemoryTypes'
BY IdleType DEF TypeOK, MemoryTypes, MemoryTypeOK

(* A reply of a turn is a reply. *)
LEMMA ReplyType ==
    \A k \in Turns, text \in Texts \cup Unstored : [turn |-> k, text |-> text] \in Reply
BY DEF Reply

(* Types are kept by a step of one thread. *)
LEMMA StepTypes ==
    ASSUME IInv, NEW t \in Threads, Step(t)
    PROVE  TypeOK'
<1> DEFINE e == turn[t].event  k == turn[t].turn  answer == turn[t].answer
<1> USE DEF IInv
<1>0. /\ turn[t] \in Turn /\ answer \in Response /\ answer.calls \in 0..MaxCalls
      /\ NoReply \in Reply /\ messages \in Seq(Message)
  BY DEF TypeOK, Turn, Response, Reply
<1>1. Working(t) /\ k \in Turns /\ e \in Events
  <2>1. Working(t)
    BY DEF Step, BuildContext, Answer, Excuse, Say, RunTurn, KeepResult, Wait, Render,
           Return, GoOn, Goes, Summarise, StoreSummary, MemoryFails, At, Working
  <2> QED
    BY <2>1 DEF OwnerInv, TypeOK, Working
<1>2. k \in 0..MaxTurns /\ NoResponse \in Response
  BY <1>1, TurnAssumption DEF Turns, NoResponse, Response
<1>3. SUFFICES /\ MemoryTypes' /\ WorkTypes' /\ UNCHANGED <<events, deaths>>
               /\ ran' \in [Events -> [Turns -> 0..MaxCalls]]
  BY DEF TypeOK, MemoryTypes, WorkTypes, Working
<1>4. ran \in [Events -> [Turns -> 0..MaxCalls]]
  BY DEF TypeOK
<1>5. CASE BuildContext(t)
  <2>1. MemoryTypes'
    <3>1. CASE SelectFocus(t)
      BY <3>1 DEF SelectFocus, MemoryTypes, MemoryTypeOK, TypeOK, Build, FocusIds, LastIds
    <3>2. CASE SyncFocus(t)
      BY <3>2 DEF SyncFocus, MemoryTypes, MemoryTypeOK, TypeOK, Build, FocusInv
    <3>3. CASE ReadMessages(t)
      <4>1. build[t] \in Build
        BY DEF TypeOK, MemoryTypeOK
      <4>2. [build[t] EXCEPT !.step = "built"] \in Build
        BY <4>1 DEF Build
      <4> QED
        BY <3>3, <4>2 DEF ReadMessages, MemoryTypes, MemoryTypeOK, TypeOK
    <3> QED
      BY <1>5, <3>1, <3>2, <3>3 DEF BuildContext
  <2>2. WorkTypes'
    <3>1. CASE UNCHANGED turn
      BY <1>5, <3>1 DEF BuildContext, history, WorkTypes, TypeOK, Working, At
    <3>2. CASE Reached(t, "ask")
      <4>1. [turn[t] EXCEPT !.stage = "ask"] \in Turn
        BY <1>0 DEF Turn, Stages
      <4> QED
        BY <1>1, <1>5, <3>2, <4>1, GoesOn DEF BuildContext, history, Reached, Turn
    <3> QED
      BY <1>5, <3>1, <3>2 DEF BuildContext
  <2> QED
    BY <1>4, <1>5, <2>1, <2>2 DEF BuildContext, history
<1>6. CASE Answer(t)
  <2>1. MemoryTypes'
    BY <1>6, QuietTypes DEF Answer, Quiet
  <2>2. WorkTypes'
    <3>1. CASE Reached(t, "excuse")
      <4>1. [turn[t] EXCEPT !.stage = "excuse"] \in Turn
        BY <1>0 DEF Turn, Stages
      <4> QED
        BY <1>1, <1>6, <3>1, <4>1, GoesOn DEF Answer, Quiet, history, Reached, Turn
    <3>2. ASSUME NEW a \in Answers, NEW stage \in {"say", "run"},
                 turn' = [turn EXCEPT ![t].stage = stage, ![t].answer = a]
          PROVE  WorkTypes'
      <4>1. [turn[t] EXCEPT !.stage = stage, !.answer = a] \in Turn
        BY <1>0, TurnAssumption DEF Turn, Stages
      <4>2. turn' = [turn EXCEPT ![t] = [turn[t] EXCEPT !.stage = stage, !.answer = a]]
        BY <3>2
      <4> QED
        BY <1>0, <1>1, <1>6, <4>1, <4>2, GoesOn DEF Answer, Quiet, history, Turn
    <3> QED
      BY <1>6, <3>1, <3>2 DEF Answer
  <2> QED
    BY <1>4, <1>6, <2>1, <2>2 DEF Answer, Quiet, history
<1>7. CASE Excuse(t)
  <2>1. MemoryTypes'
    BY <1>1, <1>7, TurnAssumption, StoredTypes DEF Excuse, Texts
  <2>2. WorkTypes'
    BY <1>1, <1>7, ReplyType, Finishes DEF Excuse, Texts, Endings
  <2> QED
    BY <1>4, <1>7, <2>1, <2>2 DEF Excuse
<1>8. CASE Say(t)
  <2>1. MemoryTypes'
    BY <1>1, <1>8, TurnAssumption, StoredTypes DEF Say, Texts
  <2>2. [turn[t] EXCEPT !.stage = "run", !.last = [turn |-> k, text |-> "said"]] \in Turn
    BY <1>0, <1>1, ReplyType DEF Turn, Stages, Texts
  <2>3. turn' = [turn EXCEPT ![t] = [turn[t] EXCEPT !.stage = "run",
                                         !.last = [turn |-> k, text |-> "said"]]]
    BY <1>8 DEF Say
  <2>4. WorkTypes'
    BY <1>0, <1>1, <1>8, <2>2, <2>3, GoesOn DEF Say, history, Turn
  <2> QED
    BY <1>4, <1>8, <2>1, <2>4 DEF Say, history
<1>9. CASE RunTurn(t)
  <2>1. MemoryTypes'
    BY <1>9, QuietTypes DEF RunTurn, Quiet
  <2>2. ran' \in [Events -> [Turns -> 0..MaxCalls]]
    <3>1. ran' = ran \/ ran' = [ran EXCEPT ![e][k] = answer.calls]
      BY <1>9 DEF RunTurn
    <3>2. ASSUME NEW d \in Events, NEW j \in Turns, NEW n \in 0..MaxCalls
          PROVE  [ran EXCEPT ![d][j] = n] \in [Events -> [Turns -> 0..MaxCalls]]
      <4>1. [ran[d] EXCEPT ![j] = n] \in [Turns -> 0..MaxCalls]
        BY <1>4
      <4> QED
        BY <1>4, <4>1
    <3>3. [ran EXCEPT ![e][k] = answer.calls] \in [Events -> [Turns -> 0..MaxCalls]]
      <4>1. e \in Events /\ k \in Turns /\ answer.calls \in 0..MaxCalls
        BY <1>0, <1>1
      <4> HIDE DEF e, k, answer
      <4> QED
        BY <3>2, <4>1
    <3> QED
      BY <1>4, <3>1, <3>3
  <2>3. WorkTypes'
    <3>1. ASSUME NEW waits \in BOOLEAN,
                 turn' = [turn EXCEPT ![t].stage = AfterBatch(answer, waits),
                                      ![t].kept = 0, ![t].waits = waits],
                 UNCHANGED ended
          PROVE  WorkTypes'
      <4>1. AfterBatch(answer, waits) \in Stages
        BY DEF AfterBatch, AfterResults, Stages
      <4>2. [turn[t] EXCEPT !.stage = AfterBatch(answer, waits), !.kept = 0, !.waits = waits] \in Turn
        <5>1. 0 \in 0..MaxCalls
          BY TurnAssumption
        <5> QED
          BY <1>0, <4>1, <5>1 DEF Turn
      <4>3. turn' = [turn EXCEPT ![t] = [turn[t] EXCEPT !.stage = AfterBatch(answer, waits),
                                             !.kept = 0, !.waits = waits]]
        BY <3>1
      <4> QED
        BY <1>0, <1>1, <1>9, <3>1, <4>2, <4>3, GoesOn DEF RunTurn, Quiet, Turn
    <3>2. CASE Ends(t, "error", NoReply)
      BY <1>0, <1>1, <1>9, <3>2, Finishes DEF RunTurn, Quiet, Endings
    <3> QED
      BY <1>9, <3>1, <3>2 DEF RunTurn
  <2> QED
    BY <1>9, <2>1, <2>2, <2>3 DEF RunTurn, Quiet
<1>10. CASE KeepResult(t)
  <2>1. turn[t].kept + 1 \in 0..MaxCalls
    <3>1. turn[t].kept < answer.calls
      BY <1>1, <1>10 DEF KeepResult, OwnerInv
    <3>2. turn[t].kept \in Nat /\ MaxCalls \in Nat
      BY <1>0, TurnAssumption DEF Turn
    <3> QED
      BY <1>0, <3>1, <3>2
  <2>2. MemoryTypes'
    BY <1>1, <1>10, <2>1, StoredTypes DEF KeepResult
  <2>3. PICK stage \in Stages : turn' = [turn EXCEPT ![t].kept = @ + 1, ![t].stage = stage]
    <3>1. AfterResults(answer, turn[t].waits) \in Stages
      BY DEF AfterResults, Stages
    <3>2. turn[t].stage \in Stages
      BY <1>0 DEF Turn
    <3> QED
      BY <1>10, <3>1, <3>2 DEF KeepResult
  <2>4. [turn[t] EXCEPT !.kept = @ + 1, !.stage = stage] \in Turn
    BY <1>0, <2>1 DEF Turn
  <2>5. turn' = [turn EXCEPT ![t] = [turn[t] EXCEPT !.kept = @ + 1, !.stage = stage]]
    BY <2>3
  <2>6. WorkTypes'
    BY <1>0, <1>1, <1>10, <2>4, <2>5, GoesOn DEF KeepResult, history, Turn
  <2> QED
    BY <1>4, <1>10, <2>2, <2>6 DEF KeepResult, history
<1>11. CASE Wait(t)
  <2>1. MemoryTypes'
    BY <1>1, <1>11, TurnAssumption, StoredTypes DEF Wait, Texts
  <2>2. WorkTypes'
    BY <1>1, <1>11, ReplyType, Finishes DEF Wait, Texts, Endings
  <2> QED
    BY <1>4, <1>11, <2>1, <2>2 DEF Wait
<1>12. CASE Render(t)
  <2>1. MemoryTypes'
    <3>1. CASE Stored(t, "assistant", 0, "rendered")
      BY <1>1, <3>1, TurnAssumption, StoredTypes DEF Texts
    <3>2. CASE UNCHANGED memoryVars
      BY <3>2 DEF memoryVars, MemoryTypes, MemoryTypeOK, TypeOK
    <3> QED
      BY <1>12, <3>1, <3>2 DEF Render
  <2>2. WorkTypes'
    <3>1. CASE Reached(t, "close")
      <4>1. [turn[t] EXCEPT !.stage = "close"] \in Turn
        BY <1>0 DEF Turn, Stages
      <4> QED
        BY <1>1, <1>12, <3>1, <4>1, GoesOn DEF Render, history, Reached, Turn
    <3>2. ASSUME NEW text \in Reply,
                 turn' = [turn EXCEPT ![t].stage = "close", ![t].last = text, ![t].deferred = text]
          PROVE  WorkTypes'
      <4>1. [turn[t] EXCEPT !.stage = "close", !.last = text, !.deferred = text] \in Turn
        BY <1>0 DEF Turn, Stages
      <4>2. turn' = [turn EXCEPT ![t] = [turn[t] EXCEPT !.stage = "close", !.last = text,
                                             !.deferred = text]]
        BY <3>2
      <4> QED
        BY <1>0, <1>1, <1>12, <4>1, <4>2, GoesOn DEF Render, history, Turn
    <3>3. ASSUME NEW text \in Reply,
                 turn' = [turn EXCEPT ![t].stage = "close", ![t].deferred = text]
          PROVE  WorkTypes'
      <4>1. [turn[t] EXCEPT !.stage = "close", !.deferred = text] \in Turn
        BY <1>0 DEF Turn, Stages
      <4>2. turn' = [turn EXCEPT ![t] = [turn[t] EXCEPT !.stage = "close", !.deferred = text]]
        BY <3>3
      <4> QED
        BY <1>0, <1>1, <1>12, <4>1, <4>2, GoesOn DEF Render, history, Turn
    <3> QED
      BY <1>1, <1>12, <3>1, <3>2, <3>3, ReplyType DEF Render, Texts, Unstored
  <2> QED
    BY <1>4, <1>12, <2>1, <2>2 DEF Render, history
<1>13. CASE Return(t)
  <2>1. MemoryTypes'
    BY <1>13, QuietTypes DEF Return, Quiet
  <2>2. Words(t) \in Reply /\ turn[t].deferred \in Reply
    BY <1>0, <1>1, ReplyType DEF Words, Texts, Unstored, Turn
  <2>3. WorkTypes'
    BY <1>1, <1>13, <2>2, Finishes DEF Return, Quiet, Endings
  <2> QED
    BY <1>4, <1>13, <2>1, <2>3 DEF Return, Quiet
<1>14. CASE GoOn(t)
  <2>1. MemoryTypes'
    BY <1>14, QuietTypes DEF GoOn, Quiet
  <2>2. Again(t) \in Turn /\ Again(t).event = e /\ Again(t).turn = k
    <3>1. 0 \in 0..MaxCalls /\ e \in 0..MaxEvents
      BY <1>1, TurnAssumption DEF Events
    <3> QED
      BY <1>0, <1>2, <3>1 DEF Again, NoTurn, Turn, Stages, Texts
  <2>3. PICK x \in {[Again(t) EXCEPT !.turn = @ + 1], [Again(t) EXCEPT !.final = TRUE]} :
            /\ turn' = [turn EXCEPT ![t] = x]
            /\ x = [Again(t) EXCEPT !.turn = @ + 1] => k < MaxTurns \/ x = [Again(t) EXCEPT !.final = TRUE]
    BY <1>14 DEF GoOn
  <2>4. x \in Turn /\ x.event = e
    <3>1. CASE x = [Again(t) EXCEPT !.final = TRUE]
      BY <2>2, <3>1 DEF Turn
    <3>2. CASE x = [Again(t) EXCEPT !.turn = @ + 1] /\ k < MaxTurns
      <4>1. k + 1 \in 0..MaxTurns
        BY <1>1, <3>2, TurnAssumption DEF Turns
      <4> QED
        BY <2>2, <3>2, <4>1 DEF Turn
    <3> QED
      BY <2>3, <3>1, <3>2
  <2>5. WorkTypes'
    BY <1>1, <1>14, <2>3, <2>4, GoesOn DEF GoOn, Quiet, history
  <2> QED
    BY <1>4, <1>14, <2>1, <2>5 DEF GoOn, Quiet, history
<1>15. CASE Summarise(t)
  <2>1. MemoryTypes'
    BY <1>15, QuietTypes DEF Summarise, Quiet
  <2>2. WorkTypes'
    <3>1. PICK text \in {"summary", "tally"} :
              turn' = [turn EXCEPT ![t].stage = "summary", ![t].text = text]
      BY <1>15 DEF Summarise
    <3>2. [turn[t] EXCEPT !.stage = "summary", !.text = text] \in Turn
      BY <1>0 DEF Turn, Stages, Texts
    <3>3. turn' = [turn EXCEPT ![t] = [turn[t] EXCEPT !.stage = "summary", !.text = text]]
      BY <3>1
    <3> QED
      BY <1>0, <1>1, <1>15, <3>2, <3>3, GoesOn DEF Summarise, Quiet, history, Turn
  <2> QED
    BY <1>4, <1>15, <2>1, <2>2 DEF Summarise, Quiet, history
<1>16. CASE StoreSummary(t)
  <2>1. turn[t].text \in Texts
    BY <1>0 DEF Turn
  <2>2. MemoryTypes'
    BY <1>1, <1>16, <2>1, TurnAssumption, StoredTypes DEF StoreSummary
  <2>3. [turn |-> k, text |-> turn[t].text] \in Reply
    BY <1>1, <2>1, ReplyType
  <2>4. WorkTypes'
    BY <1>1, <1>16, <2>3, Finishes DEF StoreSummary, Endings
  <2> QED
    BY <1>4, <1>16, <2>2, <2>4 DEF StoreSummary
<1>17. CASE MemoryFails(t)
  <2>1. MemoryTypes'
    BY <1>17, QuietTypes DEF MemoryFails, Quiet
  <2>2. WorkTypes'
    BY <1>0, <1>1, <1>17, Finishes DEF MemoryFails, Quiet, Endings
  <2> QED
    BY <1>4, <1>17, <2>1, <2>2 DEF MemoryFails, Quiet
<1> QED
  BY <1>5, <1>6, <1>7, <1>8, <1>9, <1>10, <1>11, <1>12, <1>13, <1>14, <1>15, <1>16, <1>17 DEF Step

----
(* A thread at work that steps was at work, on an event and in a turn. *)
LEMMA StepWorks ==
    ASSUME IInv, NEW t \in Threads, Step(t)
    PROVE  /\ Working(t) /\ turn[t].event \in Events /\ turn[t].turn \in Turns
           /\ ended[turn[t].event] = Open
           /\ turn[t] \in Turn /\ turn[t].answer \in Response
           /\ Live(messages, ran, turn[t])
<1>1. Working(t)
  BY DEF Step, BuildContext, Answer, Excuse, Say, RunTurn, KeepResult, Wait, Render,
         Return, GoOn, Goes, Summarise, StoreSummary, MemoryFails, At, Working
<1> QED
  BY <1>1 DEF IInv, OwnerInv, TypeOK, Working, Turn

LEMMA GrownRefl == \A m : Grown(m, m)
BY DEF Grown

(* A step of a thread leaves the other threads and events alone. *)
LEMMA StepApart ==
    ASSUME IInv, NEW t \in Threads, Step(t)
    PROVE  Apart(t)
<1> DEFINE e == turn[t].event
<1> USE DEF IInv
<1>1. Working(t) /\ turn[t] \in Turn /\ turn[t].answer \in Response /\ messages \in Seq(Message)
  BY StepWorks DEF TypeOK
<1>2. 0 \in 0..MaxCalls
  BY TurnAssumption
<1>3. Grown(messages, messages')
  <2>1. \A text \in Texts : Stored(t, "assistant", 0, text) => Grown(messages, messages')
    BY <1>1, <1>2, StoredMessage
  <2>2. ASSUME KeepResult(t) PROVE Grown(messages, messages')
    <3>1. turn[t].kept + 1 \in 0..MaxCalls
      BY <1>1, <2>2, TurnAssumption DEF KeepResult, OwnerInv, Turn, Response
    <3> QED
      BY <1>1, <2>2, <3>1, StoredMessage DEF KeepResult
  <2>3. turn[t].text \in Texts /\ {"excuse", "said", "wait", "rendered"} \subseteq Texts
    BY <1>1 DEF Turn, Texts
  <2>4. \/ messages' = messages
        \/ \E text \in Texts : Stored(t, "assistant", 0, text)
        \/ KeepResult(t)
    BY <2>3 DEF Step, BuildContext, SelectFocus, SyncFocus, ReadMessages, Answer, Excuse, Say,
           RunTurn, Wait, Render, memoryVars, Return, GoOn, Summarise, StoreSummary, MemoryFails, Quiet
  <2> QED
    BY <2>1, <2>2, <2>4, GrownRefl
<1>4. \A d \in Threads \ {t} : turn'[d] = turn[d]
  BY DEF TypeOK, Step, BuildContext, Reached, Answer, Excuse, Say, RunTurn, KeepResult, Wait,
         Render, Return, GoOn, Summarise, StoreSummary, MemoryFails, Ends
<1>5. \A d \in Events : d # e => ended'[d] = ended[d]
  BY DEF TypeOK, Step, BuildContext, Answer, Excuse, Say, RunTurn, KeepResult, Wait,
         Render, Return, GoOn, Summarise, StoreSummary, MemoryFails, Ends, history
<1>6. \A d \in Events : d # e => ran'[d] = ran[d]
  BY DEF TypeOK, Step, BuildContext, Answer, Excuse, Say, RunTurn, KeepResult, Wait,
         Render, Return, GoOn, Summarise, StoreSummary, MemoryFails, Ends, history
<1>7. events' = events
  BY DEF Step, BuildContext, Answer, Excuse, Say, RunTurn, KeepResult, Wait,
         Render, Return, GoOn, Summarise, StoreSummary, MemoryFails, Quiet
<1> QED
  BY <1>3, <1>4, <1>5, <1>6, <1>7 DEF Apart

(* In all turns up to its own, a thread's work is remembered. *)
LEMMA AllDone ==
    ASSUME NEW m, NEW r, NEW x, Live(m, r, x), x.turn \in Turns,
           Done(m, r, x.event, x.turn)
    PROVE  \A j \in Turns : Done(m, r, x.event, j)
<1> SUFFICES ASSUME NEW j \in Turns PROVE Done(m, r, x.event, j)
  OBVIOUS
<1>1. j < x.turn \/ j = x.turn \/ j > x.turn
  BY TurnAssumption DEF Turns
<1>2. CASE j > x.turn
  <2>1. r[x.event][j] = 0
    BY <1>2 DEF Live
  <2> QED
    BY <2>1 DEF Done
<1> QED
  BY <1>1, <1>2 DEF Live

(* Before the turn of the last call that was run, all is remembered. *)
LEMMA LivePast ==
    ASSUME NEW m, NEW r, NEW x, Live(m, r, x), x.turn \in Turns,
           NEW k \in Turns, NEW later \in Turns, later > k, r[x.event][later] > 0
    PROVE  Done(m, r, x.event, k)
<1>1. ~(later > x.turn)
  BY DEF Live
<1>2. k < x.turn
  BY <1>1, TurnAssumption DEF Turns
<1> QED
  BY <1>2 DEF Live

(* An event that an error or a death stops. *)
LEMMA LiveStops ==
    ASSUME NEW m, NEW r, NEW x, Live(m, r, x), x.turn \in Turns,
           NEW how \in {"error", "lost"}
    PROVE  Closed(m, r, [how |-> how, reply |-> NoReply], x.event)
BY LivePast DEF Closed

(* An event that ends in a turn whose work is remembered. *)
LEMMA LiveEnds ==
    ASSUME NEW m, NEW r, NEW x, Live(m, r, x), x.turn \in Turns,
           Done(m, r, x.event, x.turn), NEW how, NEW reply,
           reply # NoReply /\ reply.text \notin Unstored => Spoken(m, x.event, reply),
           how = "reply" /\ (\A k \in Turns : r[x.event][k] > 0)
               => reply.turn = MaxTurns /\ reply.text \notin {"said", "raw"}
    PROVE  Closed(m, r, [how |-> how, reply |-> reply], x.event)
BY AllDone DEF Closed

(* The thread that ran a call in every turn is in the last one. *)
LEMMA PlanUsedUp ==
    ASSUME NEW m, NEW r, NEW x, Live(m, r, x), x.turn \in Turns,
           \A k \in Turns : r[x.event][k] > 0
    PROVE  x.turn = MaxTurns
<1>1. MaxTurns \in Turns /\ r[x.event][MaxTurns] > 0
  BY TurnAssumption DEF Turns
<1>2. ~(MaxTurns > x.turn)
  BY <1>1 DEF Live
<1> QED
  BY <1>2, TurnAssumption DEF Turns

----
(* What OwnerInv says of one thread alone. *)
Sound(x) ==
    /\ x.turn \in Turns
    /\ x.answer.message = "deferred" => x.answer.calls > 0
    /\ x.stage = "keep" => x.kept < x.answer.calls
    /\ x.final => x.turn = MaxTurns /\ x.stage \in {"context", "ask", "summary"}
    /\ x.stage = "summary" => x.final /\ x.text \in {"summary", "tally"}

(* Thread t goes on with event e, as x. *)
Onward(t, e, x) ==
    /\ turn'[t] = x /\ x.stage # "idle" /\ x.event = e
    /\ ended' = ended
    /\ Sound(x)
    /\ Live(messages', ran', x)

(* Thread t is through with event e. *)
Through(t, e) ==
    /\ turn'[t] = NoTurn
    /\ ended'[e] # Open
    /\ Closed(messages', ran', ended'[e], e)

Outcome(t) == Onward(t, turn[t].event, turn'[t]) \/ Through(t, turn[t].event)

(* The ending of an event, as the thread records it. *)
LEMMA EndsThrough ==
    ASSUME IInv, NEW t \in Threads, Step(t), NEW how, how # "open", NEW reply, Ends(t, how, reply),
           Closed(messages', ran', [how |-> how, reply |-> reply], turn[t].event)
    PROVE  Outcome(t)
<1> DEFINE e == turn[t].event
<1>1. e \in Events
  BY StepWorks
<1>2. turn'[t] = NoTurn /\ ended'[e] = [how |-> how, reply |-> reply]
  BY <1>1 DEF Ends, IInv, TypeOK
<1>3. ended'[e] # Open
  BY <1>2 DEF Open
<1> QED
  BY <1>2, <1>3 DEF Outcome, Through

(* The thread of an event that an error stops. *)
LEMMA ErrorEnds ==
    ASSUME IInv, NEW t \in Threads, Step(t), Ends(t, "error", NoReply), UNCHANGED <<messages, ran>>
    PROVE  Outcome(t)
<1>1. Closed(messages, ran, [how |-> "error", reply |-> NoReply], turn[t].event)
  BY StepWorks, LiveStops
<1> QED
  BY <1>1, EndsThrough

LEMMA BuildContextOutcome ==
    ASSUME IInv, NEW t \in Threads, Step(t), BuildContext(t) PROVE Outcome(t)
<1>1. UNCHANGED <<messages, ran, ended>>
  BY DEF BuildContext, SelectFocus, SyncFocus, ReadMessages, history
<1>2. Working(t) /\ Live(messages, ran, turn[t]) /\ Sound(turn[t]) /\ turn[t].stage = "context"
  BY StepWorks DEF BuildContext, At, Sound, IInv, OwnerInv
<1>3. turn' \in [Threads -> Turn] /\ turn \in [Threads -> Turn]
  BY StepTypes DEF TypeOK, IInv
<1>4. turn'[t] = turn[t] \/ turn'[t] = [turn[t] EXCEPT !.stage = "ask"]
  BY <1>3 DEF BuildContext, Reached
<1>5. /\ Sound([turn[t] EXCEPT !.stage = "ask"])
      /\ Live(messages, ran, [turn[t] EXCEPT !.stage = "ask"])
  BY <1>2, <1>3 DEF Sound, Live, Turn
<1> QED
  BY <1>1, <1>2, <1>3, <1>4, <1>5 DEF Outcome, Onward, Turn

LEMMA AnswerOutcome ==
    ASSUME IInv, NEW t \in Threads, Step(t), Answer(t) PROVE Outcome(t)
<1>1. UNCHANGED <<messages, ran, ended>>
  BY DEF Answer, Quiet, history
<1>2. /\ Working(t) /\ Live(messages, ran, turn[t]) /\ Sound(turn[t])
      /\ turn[t].stage = "ask" /\ ~turn[t].final /\ turn[t] \in Turn
      /\ turn \in [Threads -> Turn]
  BY StepWorks DEF Answer, At, Sound, IInv, OwnerInv, TypeOK
<1>3. CASE Reached(t, "excuse")
  <2>1. turn'[t] = [turn[t] EXCEPT !.stage = "excuse"]
    BY <1>2, <1>3 DEF Reached
  <2>2. Sound(turn'[t]) /\ Live(messages, ran, turn'[t]) /\ turn'[t].event = turn[t].event
        /\ turn'[t].stage # "idle"
    BY <1>2, <2>1 DEF Sound, Live, Turn
  <2> QED
    BY <1>1, <2>2 DEF Outcome, Onward
<1>4. ASSUME NEW a \in Answers, NEW stage \in {"say", "run"},
             a.message = "plain" => stage = "say",
             turn' = [turn EXCEPT ![t].stage = stage, ![t].answer = a]
      PROVE  Outcome(t)
  <2>1. turn'[t] = [turn[t] EXCEPT !.stage = stage, !.answer = a]
    BY <1>2, <1>4
  <2>2. a.message = "deferred" => a.calls > 0
    BY TurnAssumption
  <2>3. Sound(turn'[t]) /\ Live(messages, ran, turn'[t]) /\ turn'[t].event = turn[t].event
        /\ turn'[t].stage # "idle"
    BY <1>2, <1>4, <2>1, <2>2 DEF Sound, Live, Turn
  <2> QED
    BY <1>1, <2>3 DEF Outcome, Onward
<1> QED
  BY <1>3, <1>4 DEF Answer

LEMMA ExcuseOutcome ==
    ASSUME IInv, NEW t \in Threads, Step(t), Excuse(t) PROVE Outcome(t)
<1> DEFINE e == turn[t].event  k == turn[t].turn  reply == [turn |-> k, text |-> "excuse"]
<1>1. /\ Working(t) /\ Live(messages, ran, turn[t]) /\ Sound(turn[t]) /\ k \in Turns
      /\ turn[t].stage = "excuse" /\ TypeOK /\ OwnerInv
  BY StepWorks DEF Excuse, At, Sound, IInv, OwnerInv
<1>2. ran' = ran /\ Ends(t, "reply", reply) /\ Stored(t, "assistant", 0, "excuse")
  BY DEF Excuse
<1>3. Grown(messages, messages') /\ Has(messages', "assistant", e, k, 0, "excuse")
  <2>1. 0 \in 0..MaxCalls
    BY TurnAssumption
  <2> QED
    BY <1>1, <1>2, <2>1, StoredMessage DEF Texts
<1>4. Live(messages', ran, turn[t])
  BY <1>1, <1>3, LiveStays
<1>5. ran[e][k] = 0
  BY <1>1 DEF Sound, Live
<1>6. Done(messages', ran, e, k)
  BY <1>5 DEF Done
<1>7. Closed(messages', ran, [how |-> "reply", reply |-> reply], e)
  BY <1>1, <1>3, <1>4, <1>5, <1>6, LiveEnds DEF Spoken
<1> QED
  BY <1>2, <1>7, EndsThrough

LEMMA SayOutcome ==
    ASSUME IInv, NEW t \in Threads, Step(t), Say(t) PROVE Outcome(t)
<1> DEFINE e == turn[t].event  k == turn[t].turn  reply == [turn |-> k, text |-> "said"]
<1>1. /\ Working(t) /\ Live(messages, ran, turn[t]) /\ Sound(turn[t]) /\ k \in Turns
      /\ turn[t].stage = "say" /\ TypeOK /\ OwnerInv /\ turn[t] \in Turn
      /\ turn \in [Threads -> Turn]
  BY StepWorks DEF Say, At, Sound, IInv, OwnerInv, TypeOK
<1>2. ran' = ran /\ ended' = ended /\ Stored(t, "assistant", 0, "said")
      /\ turn'[t] = [turn[t] EXCEPT !.stage = "run", !.last = reply]
  BY <1>1 DEF Say, history
<1>3. Grown(messages, messages') /\ Has(messages', "assistant", e, k, 0, "said")
  <2>1. 0 \in 0..MaxCalls
    BY TurnAssumption
  <2> QED
    BY <1>1, <1>2, <2>1, StoredMessage DEF Texts
<1>4. Live(messages', ran, turn[t])
  BY <1>1, <1>3, LiveStays
<1>5. Live(messages', ran, turn'[t]) /\ Sound(turn'[t]) /\ turn'[t].event = e
      /\ turn'[t].stage # "idle"
  BY <1>1, <1>2, <1>3, <1>4 DEF Live, Sound, Spoken, Unstored, Turn
<1> QED
  BY <1>2, <1>5 DEF Outcome, Onward

LEMMA RunTurnOutcome ==
    ASSUME IInv, NEW t \in Threads, Step(t), RunTurn(t) PROVE Outcome(t)
<1> DEFINE e == turn[t].event  k == turn[t].turn  answer == turn[t].answer
           calls == [ran EXCEPT ![e][k] = answer.calls]
<1>1. /\ Working(t) /\ Live(messages, ran, turn[t]) /\ Sound(turn[t]) /\ k \in Turns /\ e \in Events
      /\ turn[t].stage = "run" /\ turn[t] \in Turn /\ answer \in Response
      /\ turn \in [Threads -> Turn] /\ ran \in [Events -> [Turns -> 0..MaxCalls]]
  BY StepWorks DEF RunTurn, At, Sound, IInv, OwnerInv, TypeOK
<1>2. messages' = messages
  BY DEF RunTurn, Quiet
<1>3. /\ calls[e][k] = answer.calls
      /\ \A j \in Turns : j # k => calls[e][j] = ran[e][j]
  BY <1>1
<1>4. \A j \in Turns : j < k => Done(messages, calls, e, j)
  <2>1. \A j \in Turns : j < k => Done(messages, ran, e, j) /\ j # k
    BY <1>1, TurnAssumption DEF Live, Turns
  <2> QED
    BY <1>3, <2>1 DEF Done
<1>5. \A j \in Turns : j > k => calls[e][j] = 0
  BY <1>1, <1>3, TurnAssumption DEF Live, Turns
<1> HIDE DEF calls
<1>6. ASSUME NEW waits \in BOOLEAN, waits => answer.calls > 0, ran' = calls, ended' = ended,
             turn' = [turn EXCEPT ![t].stage = AfterBatch(answer, waits),
                                  ![t].kept = 0, ![t].waits = waits]
      PROVE  Outcome(t)
  <2> DEFINE x == [turn[t] EXCEPT !.stage = AfterBatch(answer, waits), !.kept = 0, !.waits = waits]
  <2>1. turn'[t] = x
    BY <1>1, <1>6
  <2>2. \/ answer.calls > 0 /\ AfterBatch(answer, waits) = "keep"
        \/ answer.calls = 0 /\ AfterBatch(answer, waits) = "close"
    BY <1>1, <1>6, TurnAssumption DEF AfterBatch, AfterResults, Sound, Response
  <2>3. answer.calls = 0 => Done(messages, calls, e, k)
    BY <1>3 DEF Done
  <2>4. x.event = e /\ x.turn = k /\ x.answer = answer /\ x.last = turn[t].last
        /\ x.deferred = turn[t].deferred /\ x.final = turn[t].final /\ x.kept = 0
        /\ x.stage = AfterBatch(answer, waits)
    BY <1>1 DEF Turn
  <2> HIDE DEF x
  <2>5. Sound(x)
    BY <1>1, <2>2, <2>4 DEF Sound
  <2>6. Live(messages, calls, x)
    BY <1>1, <1>3, <1>4, <1>5, <2>2, <2>3, <2>4 DEF Live, Sound
  <2> QED
    BY <1>2, <1>6, <2>1, <2>2, <2>4, <2>5, <2>6 DEF Outcome, Onward
<1>7. CASE Ends(t, "error", NoReply) /\ ran' = ran
  BY <1>2, <1>7, ErrorEnds
<1>8. CASE Ends(t, "error", NoReply) /\ ran' = calls
  <2>1. ASSUME NEW j \in Turns, NEW later \in Turns, later > j, calls[e][later] > 0
        PROVE  Done(messages, calls, e, j)
    <3>1. ~(later > k)
      BY <1>5, <2>1
    <3>2. j < k
      BY <1>1, <2>1, <3>1, TurnAssumption DEF Turns
    <3> QED
      BY <1>4, <3>2
  <2>2. Closed(messages, calls, [how |-> "error", reply |-> NoReply], e)
    BY <2>1 DEF Closed
  <2> QED
    BY <1>2, <1>8, <2>2, EndsThrough
<1> QED
  BY <1>6, <1>7, <1>8 DEF RunTurn, calls

LEMMA KeepResultOutcome ==
    ASSUME IInv, NEW t \in Threads, Step(t), KeepResult(t) PROVE Outcome(t)
<1> DEFINE e == turn[t].event  k == turn[t].turn  answer == turn[t].answer  c == turn[t].kept + 1
           stage == IF c = answer.calls THEN AfterResults(answer, turn[t].waits) ELSE "keep"
           x == [turn[t] EXCEPT !.kept = c, !.stage = stage]
<1>1. /\ Working(t) /\ Live(messages, ran, turn[t]) /\ Sound(turn[t]) /\ k \in Turns
      /\ turn[t].stage = "keep" /\ TypeOK /\ OwnerInv /\ turn[t] \in Turn
      /\ turn \in [Threads -> Turn] /\ answer \in Response
  BY StepWorks DEF KeepResult, At, Sound, IInv, OwnerInv, TypeOK
<1>2. c \in 0..MaxCalls /\ c <= answer.calls /\ turn[t].kept \in Nat /\ answer.calls \in Nat
  BY <1>1, TurnAssumption DEF Sound, Turn, Response
<1>3. ran' = ran /\ ended' = ended /\ Stored(t, "tool", c, "none") /\ turn'[t] = x
  BY <1>1 DEF KeepResult, history
<1>4. Grown(messages, messages') /\ Has(messages', "tool", e, k, c, "none")
  BY <1>1, <1>2, <1>3, StoredMessage
<1>5. Live(messages', ran, turn[t])
  BY <1>1, <1>4, LiveStays
<1>6. \A i \in 1..c : Has(messages', "tool", e, k, i, "none")
  <2>1. \A i \in 1..c : i \in 1..turn[t].kept \/ i = c
    BY <1>2
  <2> QED
    BY <1>1, <1>4, <1>5, <2>1 DEF Live
<1>7. stage \in {"keep", "wait", "render", "close"} /\ (stage = "keep" => c < answer.calls)
  BY <1>2 DEF AfterResults
<1>8. stage # "keep" => Done(messages', ran, e, k)
  <2>1. stage # "keep" => ran[e][k] = c
    BY <1>1 DEF Live
  <2> QED
    BY <1>6, <2>1 DEF Done
<1>9. /\ x.event = e /\ x.turn = k /\ x.answer = answer /\ x.last = turn[t].last
      /\ x.deferred = turn[t].deferred /\ x.final = turn[t].final /\ x.kept = c /\ x.stage = stage
  BY <1>1 DEF Turn
<1> HIDE DEF stage, x, c
<1>10. Sound(x) /\ Live(messages', ran, x)
  BY <1>1, <1>5, <1>6, <1>7, <1>8, <1>9 DEF Live, Sound
<1> QED
  BY <1>3, <1>7, <1>9, <1>10 DEF Outcome, Onward

LEMMA WaitOutcome ==
    ASSUME IInv, NEW t \in Threads, Step(t), Wait(t) PROVE Outcome(t)
<1> DEFINE e == turn[t].event  k == turn[t].turn  reply == [turn |-> k, text |-> "wait"]
<1>1. /\ Working(t) /\ Live(messages, ran, turn[t]) /\ k \in Turns
      /\ turn[t].stage = "wait" /\ TypeOK /\ OwnerInv
  BY StepWorks DEF Wait, At, IInv
<1>2. ran' = ran /\ Stored(t, "assistant", 0, "wait")
  BY DEF Wait
<1>3. Grown(messages, messages') /\ Has(messages', "assistant", e, k, 0, "wait")
  <2>1. 0 \in 0..MaxCalls
    BY TurnAssumption
  <2> QED
    BY <1>1, <1>2, <2>1, StoredMessage DEF Texts
<1>4. Live(messages', ran, turn[t])
  BY <1>1, <1>3, LiveStays
<1>5. Done(messages', ran, e, k)
  BY <1>1, <1>4 DEF Live
<1>6. \A how \in {"prompt", "reply"} : Closed(messages', ran, [how |-> how, reply |-> reply], e)
  BY <1>1, <1>3, <1>4, <1>5, LiveEnds, PlanUsedUp DEF Spoken
<1> QED
  BY <1>2, <1>6, EndsThrough DEF Wait

LEMMA RenderOutcome ==
    ASSUME IInv, NEW t \in Threads, Step(t), Render(t) PROVE Outcome(t)
<1> DEFINE e == turn[t].event  k == turn[t].turn  reply == [turn |-> k, text |-> "rendered"]
<1>1. /\ Working(t) /\ Live(messages, ran, turn[t]) /\ Sound(turn[t]) /\ k \in Turns
      /\ turn[t].stage = "render" /\ TypeOK /\ OwnerInv /\ turn[t] \in Turn
      /\ turn \in [Threads -> Turn]
  BY StepWorks DEF Render, At, Sound, IInv, OwnerInv, TypeOK
<1>2. ran' = ran /\ ended' = ended
  BY DEF Render, history
<1>3. CASE Stored(t, "assistant", 0, "rendered")
           /\ turn' = [turn EXCEPT ![t].stage = "close", ![t].last = reply, ![t].deferred = reply]
  <2>1. turn'[t] = [turn[t] EXCEPT !.stage = "close", !.last = reply, !.deferred = reply]
    BY <1>1, <1>3
  <2>2. Grown(messages, messages') /\ Has(messages', "assistant", e, k, 0, "rendered")
    <3>1. 0 \in 0..MaxCalls
      BY TurnAssumption
    <3> QED
      BY <1>1, <1>3, <3>1, StoredMessage DEF Texts
  <2>3. Live(messages', ran, turn[t])
    BY <1>1, <2>2, LiveStays
  <2>4. Live(messages', ran, turn'[t]) /\ Sound(turn'[t]) /\ turn'[t].event = e
        /\ turn'[t].stage # "idle"
    BY <1>1, <2>1, <2>2, <2>3 DEF Live, Sound, Spoken, Unstored, Turn
  <2> QED
    BY <1>2, <2>4 DEF Outcome, Onward
<1>4. CASE Reached(t, "close") /\ UNCHANGED memoryVars
  <2>1. turn'[t] = [turn[t] EXCEPT !.stage = "close"] /\ messages' = messages
    BY <1>1, <1>4 DEF Reached, memoryVars
  <2>2. Live(messages, ran, turn'[t]) /\ Sound(turn'[t]) /\ turn'[t].event = e
        /\ turn'[t].stage # "idle"
    BY <1>1, <2>1 DEF Live, Sound, Turn
  <2> QED
    BY <1>2, <2>1, <2>2 DEF Outcome, Onward
<1>5. CASE /\ turn' = [turn EXCEPT ![t].stage = "close",
                                  ![t].deferred = [turn |-> k, text |-> "silence"]]
           /\ UNCHANGED memoryVars
  <2>1. /\ turn'[t] = [turn[t] EXCEPT !.stage = "close",
                                      !.deferred = [turn |-> k, text |-> "silence"]]
        /\ messages' = messages
    BY <1>1, <1>5 DEF memoryVars
  <2>2. Live(messages, ran, turn'[t]) /\ Sound(turn'[t]) /\ turn'[t].event = e
        /\ turn'[t].stage # "idle"
    BY <1>1, <2>1 DEF Live, Sound, Turn
  <2> QED
    BY <1>2, <2>1, <2>2 DEF Outcome, Onward
<1> QED
  BY <1>3, <1>4, <1>5 DEF Render

LEMMA ReturnOutcome ==
    ASSUME IInv, NEW t \in Threads, Step(t), Return(t) PROVE Outcome(t)
<1> DEFINE e == turn[t].event  k == turn[t].turn  answer == turn[t].answer
<1>1. /\ Working(t) /\ Live(messages, ran, turn[t]) /\ Sound(turn[t]) /\ k \in Turns
      /\ turn[t].stage = "close" /\ answer \in Response /\ ran' = ran /\ messages' = messages
  BY StepWorks DEF Return, At, Sound, IInv, OwnerInv, Quiet
<1>2. Done(messages, ran, e, k) /\ ran[e][k] = answer.calls
  BY <1>1 DEF Live
<1>3. CASE Finished(t) /\ Ends(t, IF answer.asks THEN "asked" ELSE "reply", Words(t))
  <2>1. Words(t) # NoReply /\ Words(t).text \notin Unstored => Spoken(messages, e, Words(t))
    <3>1. CASE answer.message = "plain"
      BY <1>1, <3>1 DEF Words, Spoken, Live
    <3>2. CASE answer.message = "deferred"
      BY <3>2 DEF Words, Unstored
    <3>3. CASE answer.message = "empty"
      BY <1>1, <3>3 DEF Words, Live
    <3> QED
      BY <1>1, <3>1, <3>2, <3>3 DEF Response
  <2>2. ~answer.asks => ~(ran[e][k] > 0)
    BY <1>2, <1>3 DEF Finished
  <2>3. Closed(messages, ran, [how |-> IF answer.asks THEN "asked" ELSE "reply",
                               reply |-> Words(t)], e)
    BY <1>1, <1>2, <2>1, <2>2, LiveEnds
  <2> QED
    BY <1>1, <1>3, <2>3, EndsThrough
<1>4. CASE turn[t].deferred # NoReply /\ Ends(t, "reply", turn[t].deferred)
  <2>1. \/ /\ turn[t].deferred = [turn |-> k, text |-> "rendered"]
           /\ Spoken(messages, e, turn[t].deferred)
        \/ turn[t].deferred = [turn |-> k, text |-> "silence"]
    BY <1>1, <1>4 DEF Live
  <2>2. Closed(messages, ran, [how |-> "reply", reply |-> turn[t].deferred], e)
    BY <1>1, <1>2, <2>1, LiveEnds, PlanUsedUp DEF Unstored
  <2> QED
    BY <1>1, <1>4, <2>2, EndsThrough
<1> QED
  BY <1>3, <1>4 DEF Return

LEMMA GoOnOutcome ==
    ASSUME IInv, NEW t \in Threads, Step(t), GoOn(t) PROVE Outcome(t)
<1> DEFINE e == turn[t].event  k == turn[t].turn
<1>1. /\ Working(t) /\ Live(messages, ran, turn[t]) /\ k \in Turns
      /\ turn[t].stage = "close" /\ turn \in [Threads -> Turn]
      /\ ran' = ran /\ messages' = messages /\ ended' = ended
  BY StepWorks DEF GoOn, Goes, At, IInv, TypeOK, Quiet, history
<1>2. /\ Again(t).stage = "context" /\ Again(t).event = e /\ Again(t).turn = k
      /\ Again(t).final = FALSE /\ Again(t).last = turn[t].last /\ Again(t).deferred = NoReply
      /\ Again(t).answer = NoResponse
  BY DEF Again, NoTurn
<1>3. \A j \in Turns : Done(messages, ran, e, j)
  BY <1>1, AllDone DEF Live
<1>4. \A j \in Turns : j > k => ran[e][j] = 0
  BY <1>1 DEF Live
<1>5. turn[t].last # NoReply => turn[t].last.text \notin Unstored /\ Spoken(messages, e, turn[t].last)
  BY <1>1 DEF Live
<1>6. CASE k < MaxTurns
  <2> DEFINE x == [Again(t) EXCEPT !.turn = @ + 1]
  <2>1. turn'[t] = x
    BY <1>1, <1>6 DEF GoOn
  <2>2. /\ x.stage = "context" /\ x.event = e /\ x.turn = k + 1 /\ x.final = FALSE
        /\ x.last = turn[t].last /\ x.deferred = NoReply /\ x.answer = NoResponse
    BY <1>2 DEF Again, NoTurn
  <2>3. k + 1 \in Turns /\ ran[e][k + 1] = 0 /\ \A j \in Turns : j > k + 1 => j > k
    BY <1>1, <1>4, <1>6, TurnAssumption DEF Turns
  <2> HIDE DEF x
  <2>4. Sound(x)
    BY <2>2, <2>3 DEF Sound, NoResponse
  <2>5. Live(messages, ran, x)
    BY <1>3, <1>4, <1>5, <2>2, <2>3 DEF Live
  <2> QED
    BY <1>1, <2>1, <2>2, <2>4, <2>5 DEF Outcome, Onward
<1>7. CASE ~(k < MaxTurns)
  <2> DEFINE x == [Again(t) EXCEPT !.final = TRUE]
  <2>1. turn'[t] = x
    BY <1>1, <1>7 DEF GoOn
  <2>2. /\ x.stage = "context" /\ x.event = e /\ x.turn = k /\ x.final = TRUE
        /\ x.last = turn[t].last /\ x.deferred = NoReply /\ x.answer = NoResponse
    BY <1>2 DEF Again, NoTurn
  <2>3. k = MaxTurns
    BY <1>1, <1>7, TurnAssumption DEF Turns
  <2> HIDE DEF x
  <2>4. Sound(x)
    BY <1>1, <2>2, <2>3 DEF Sound, NoResponse
  <2>5. Live(messages, ran, x)
    BY <1>1, <1>3, <1>4, <1>5, <2>2 DEF Live
  <2> QED
    BY <1>1, <2>1, <2>2, <2>4, <2>5 DEF Outcome, Onward
<1> QED
  BY <1>6, <1>7

LEMMA SummariseOutcome ==
    ASSUME IInv, NEW t \in Threads, Step(t), Summarise(t) PROVE Outcome(t)
<1>1. /\ Live(messages, ran, turn[t]) /\ Sound(turn[t]) /\ turn[t].final /\ turn[t] \in Turn
      /\ turn \in [Threads -> Turn] /\ turn[t].stage = "ask"
      /\ ran' = ran /\ messages' = messages /\ ended' = ended
  BY StepWorks DEF Summarise, At, Sound, IInv, OwnerInv, TypeOK, Quiet, history
<1>2. PICK text \in {"summary", "tally"} :
          turn'[t] = [turn[t] EXCEPT !.stage = "summary", !.text = text]
  BY <1>1 DEF Summarise
<1>3. Live(messages, ran, turn'[t]) /\ Sound(turn'[t]) /\ turn'[t].event = turn[t].event
      /\ turn'[t].stage # "idle"
  BY <1>1, <1>2 DEF Live, Sound, Turn
<1> QED
  BY <1>1, <1>3 DEF Outcome, Onward

LEMMA StoreSummaryOutcome ==
    ASSUME IInv, NEW t \in Threads, Step(t), StoreSummary(t) PROVE Outcome(t)
<1> DEFINE e == turn[t].event  k == turn[t].turn  text == turn[t].text
           reply == [turn |-> k, text |-> text]
<1>1. /\ Working(t) /\ Live(messages, ran, turn[t]) /\ Sound(turn[t]) /\ k \in Turns
      /\ turn[t].stage = "summary" /\ TypeOK /\ OwnerInv
  BY StepWorks DEF StoreSummary, At, Sound, IInv, OwnerInv
<1>2. ran' = ran /\ Ends(t, "reply", reply) /\ Stored(t, "assistant", 0, text)
      /\ text \in {"summary", "tally"} /\ k = MaxTurns /\ turn[t].final
  BY <1>1 DEF StoreSummary, Sound
<1>3. Grown(messages, messages') /\ Has(messages', "assistant", e, k, 0, text)
  <2>1. 0 \in 0..MaxCalls
    BY TurnAssumption
  <2> QED
    BY <1>1, <1>2, <2>1, StoredMessage DEF Texts
<1>4. Live(messages', ran, turn[t])
  BY <1>1, <1>3, LiveStays
<1>5. Done(messages', ran, e, k)
  BY <1>2, <1>4 DEF Live
<1>6. Closed(messages', ran, [how |-> "reply", reply |-> reply], e)
  BY <1>1, <1>2, <1>3, <1>4, <1>5, LiveEnds DEF Spoken
<1> QED
  BY <1>2, <1>6, EndsThrough

(* A step of a thread leaves its event at work or closed as it should. *)
LEMMA StepOutcome ==
    ASSUME IInv, NEW t \in Threads, Step(t) PROVE Outcome(t)
<1>1. CASE MemoryFails(t)
  BY <1>1, ErrorEnds DEF MemoryFails, Quiet
<1> QED
  BY <1>1, BuildContextOutcome, AnswerOutcome, ExcuseOutcome, SayOutcome, RunTurnOutcome,
     KeepResultOutcome, WaitOutcome, RenderOutcome, ReturnOutcome, GoOnOutcome,
     SummariseOutcome, StoreSummaryOutcome DEF Step

----
(* What IInv says of threads and events. *)
WorkInv ==
    /\ OwnerInv
    /\ \A t \in Threads : Working(t) => Live(messages, ran, turn[t])
    /\ \A e \in Events : ended[e] # Open => Closed(messages, ran, ended[e], e)

LEMMA StepWorkInv ==
    ASSUME IInv, NEW t \in Threads, Step(t) PROVE WorkInv'
<1> DEFINE e == turn[t].event
<1> USE DEF IInv
<1>1. Apart(t) /\ Outcome(t)
  BY StepApart, StepOutcome
<1>2. /\ Working(t) /\ e \in Events /\ ended[e] = Open /\ e \in 1..events
  BY StepWorks DEF OwnerInv
<1>3. \A d \in Threads \ {t} :
          /\ turn'[d] = turn[d]
          /\ turn[d].stage # "idle" => turn[d].event # e /\ turn[d].event \in Events
  BY <1>1, <1>2 DEF Apart, OwnerInv, TypeOK, Working, At
<1>4. events' = events
  BY <1>1 DEF Apart
<1>5. \A d \in Events \ {e} : ended'[d] = ended[d] /\ ran'[d] = ran[d]
  BY <1>1 DEF Apart
<1>6. \/ turn'[t].stage = "idle" /\ ended'[e] # Open /\ Closed(messages', ran', ended'[e], e)
      \/ /\ turn'[t].stage # "idle" /\ turn'[t].event = e /\ ended'[e] = Open
         /\ Sound(turn'[t]) /\ Live(messages', ran', turn'[t])
  BY <1>1, <1>2 DEF Outcome, Onward, Through, NoTurn
<1>7. OwnerInv'
  <2>1. ASSUME NEW d \in Threads, Working(d)'
        PROVE  /\ turn'[d].event \in 1..events
               /\ Sound(turn'[d])
               /\ \A b \in Threads : Working(b)' /\ turn'[b].event = turn'[d].event => b = d
    <3>1. CASE d = t
      BY <1>2, <1>3, <1>6, <2>1, <3>1 DEF Working, At
    <3>2. CASE d # t
      <4>1. turn'[d] = turn[d] /\ Working(d) /\ turn[d].event # e
        BY <1>3, <2>1, <3>2 DEF Working, At
      <4>2. turn[d].event \in 1..events /\ Sound(turn[d])
        BY <4>1 DEF OwnerInv, Sound, At
      <4>3. \A b \in Threads : Working(b)' /\ turn'[b].event = turn[d].event => b = d
        BY <1>3, <1>6, <4>1 DEF OwnerInv, Working, At
      <4> QED
        BY <4>1, <4>2, <4>3
    <3> QED
      BY <3>1, <3>2
  <2>2. ASSUME NEW d \in Events
        PROVE  /\ d > events => /\ ended'[d] = [how |-> "none", reply |-> NoReply]
                                /\ \A k \in Turns : ran'[d][k] = 0
               /\ ended'[d] = Open => \E b \in Threads : Working(b)' /\ turn'[b].event = d
    <3>1. CASE d = e
      BY <1>2, <1>6, <3>1 DEF Working, At, TypeOK
    <3>2. CASE d # e
      <4>1. ended'[d] = ended[d] /\ ran'[d] = ran[d]
        BY <1>5, <3>2
      <4>2. \A b \in Threads : Working(b) /\ turn[b].event = d => Working(b)' /\ turn'[b].event = d
        BY <1>3, <3>2 DEF Working, At
      <4> QED
        BY <4>1, <4>2 DEF OwnerInv
    <3> QED
      BY <3>1, <3>2
  <2> QED
    BY <1>4, <2>1, <2>2 DEF OwnerInv, Sound, Working, At
<1>8. ASSUME NEW d \in Threads, Working(d)' PROVE Live(messages', ran', turn'[d])
  <2>1. CASE d = t
    BY <1>6, <1>8, <2>1 DEF Working, At
  <2>2. CASE d # t
    <3>1. turn'[d] = turn[d] /\ Working(d) /\ ran'[turn[d].event] = ran[turn[d].event]
      BY <1>3, <1>5, <1>8, <2>2 DEF Working, At
    <3> QED
      BY <1>1, <3>1, LiveStays DEF Apart
  <2> QED
    BY <2>1, <2>2
<1>9. ASSUME NEW d \in Events, ended'[d] # Open PROVE Closed(messages', ran', ended'[d], d)
  <2>1. CASE d = e
    BY <1>6, <1>9, <2>1
  <2>2. CASE d # e
    BY <1>1, <1>5, <1>9, <2>2, ClosedStays DEF Apart
  <2> QED
    BY <2>1, <2>2
<1>10. Open' = Open
  BY DEF Open, NoReply
<1> QED
  BY <1>7, <1>8, <1>9, <1>10 DEF WorkInv

(* An event that has just come in has done nothing. *)
LEMMA ReceiveTypes ==
    ASSUME IInv, NEW t \in Threads, Receive(t)
    PROVE  TypeOK' /\ WorkInv'
<1> DEFINE e == events + 1
           m == [role |-> "user", event |-> e, turn |-> 0, call |-> 0, text |-> "none"]
           x == [NoTurn EXCEPT !.stage = "context", !.turn = 1, !.event = e]
<1> USE DEF IInv
<1>1. /\ e \in Events /\ e \in 0..MaxEvents /\ e > events /\ events' = e /\ 1 \in Turns
      /\ events \in Nat /\ 0 \in 0..MaxCalls /\ 0 \in 0..MaxTurns /\ ran' = ran /\ deaths' = deaths
      /\ turn[t].stage = "idle"
  BY TurnAssumption DEF Receive, TypeOK, Events, Turns, At
<1>2. ended[e] = [how |-> "none", reply |-> NoReply] /\ \A k \in Turns : ran[e][k] = 0
  BY <1>1 DEF OwnerInv
<1>3. /\ turn \in [Threads -> Turn] /\ ended \in [Events -> [how : Endings, reply : Reply]]
      /\ NoReply \in Reply /\ messages \in Seq(Message)
      /\ \A d \in Threads : Working(d) => /\ turn[d].event \in 1..events /\ turn[d].event # e
                                           /\ turn[d].event \in Events
                                           /\ ended[turn[d].event] = Open
  BY <1>1 DEF TypeOK, OwnerInv, Reply, Working
<1>4. m \in Message
  BY <1>1 DEF Message
<1>5. \/ /\ AppendMessage(m) /\ turn' = [turn EXCEPT ![t] = x]
         /\ ended' = [ended EXCEPT ![e] = Open]
      \/ /\ ended' = [ended EXCEPT ![e] = [how |-> "error", reply |-> NoReply]]
         /\ UNCHANGED <<memoryVars, turn>>
  BY DEF Receive
<1>6. MemoryTypes' /\ Grown(messages, messages')
  <2>1. CASE UNCHANGED memoryVars
    BY <2>1, GrownRefl DEF memoryVars, MemoryTypes, MemoryTypeOK, TypeOK
  <2>2. CASE AppendMessage(m)
    <3>1. messages' \in Seq(Message) /\ Len(messages') = Len(messages) + 1 /\ Grown(messages, messages')
      BY <1>3, <1>4, <2>2, AppendKeeps DEF Grown
    <3>2. 1..Len(messages') = (1..Len(messages)) \cup {Len(messages) + 1}
      BY <1>3, <3>1
    <3>3. inFocus' \subseteq 1..Len(messages') /\ unsynced' \subseteq 1..Len(messages')
      BY <2>2, <3>2 DEF AppendMessage, TypeOK, MemoryTypeOK
    <3> QED
      BY <2>2, <3>1, <3>3 DEF AppendMessage, MemoryTypes, MemoryTypeOK, TypeOK
  <2> QED
    BY <1>5, <2>1, <2>2
<1>7. /\ x.stage = "context" /\ x.turn = 1 /\ x.event = e /\ x.final = FALSE /\ x.last = NoReply
      /\ x.deferred = NoReply /\ x.answer = NoResponse /\ x \in Turn
  <2>1. 1 \in 0..MaxTurns
    BY <1>1, TurnAssumption
  <2> QED
    BY <1>1, <2>1, IdleType DEF NoTurn, Turn, Stages
<1> HIDE DEF x, m
<1>8. Sound(x) /\ Live(messages', ran, x)
  <2>1. \A j \in Turns : ~(j < 1)
    BY TurnAssumption DEF Turns
  <2>2. Done(messages', ran, e, 1)
    BY <1>1, <1>2 DEF Done
  <2> QED
    BY <1>1, <1>2, <1>7, <2>1, <2>2 DEF Sound, Live, NoResponse
<1>9. Closed(messages', ran, [how |-> "error", reply |-> NoReply], e)
  BY <1>2 DEF Closed
<1>10. WorkTypes'
  <2>1. Open \in [how : Endings, reply : Reply]
        /\ [how |-> "error", reply |-> NoReply] \in [how : Endings, reply : Reply]
    BY <1>3 DEF Open, Endings
  <2>2. turn' \in [Threads -> Turn] /\ ended' \in [Events -> [how : Endings, reply : Reply]]
    BY <1>3, <1>5, <1>7, <2>1 DEF memoryVars
  <2>3. ASSUME NEW d \in Threads, Working(d)'
        PROVE  turn'[d].event \in Events /\ ended'[turn'[d].event] = Open
    <3>1. CASE turn'[d] = turn[d] /\ Working(d)
      BY <1>1, <1>3, <1>5, <3>1
    <3>2. CASE ~(turn'[d] = turn[d] /\ Working(d))
      <4>1. d = t /\ turn'[d] = x /\ ended'[e] = Open
        BY <1>1, <1>3, <1>5, <2>3, <3>2 DEF Working, At
      <4> QED
        BY <1>1, <1>7, <4>1
    <3> QED
      BY <3>1, <3>2
  <2>4. Open' = Open
    BY DEF Open, NoReply
  <2> QED
    BY <2>2, <2>3, <2>4 DEF WorkTypes
<1>11. TypeOK'
  BY <1>1, <1>6, <1>10 DEF TypeOK, MemoryTypes, WorkTypes, Working
<1>12. \A d \in Threads : Working(d)' =>
           \/ d # t /\ turn'[d] = turn[d] /\ Working(d)
           \/ /\ d = t /\ turn'[d] = x /\ ended'[e] = Open
  BY <1>1, <1>3, <1>5 DEF Working, At
<1>13. \A d \in Threads : Working(d) => Working(d)' /\ turn'[d] = turn[d]
  BY <1>1, <1>3, <1>5 DEF Working, At
<1>14. \A d \in Events : d # e => ended'[d] = ended[d]
  BY <1>3, <1>5
<1>15. OwnerInv'
  <2>1. ASSUME NEW d \in Threads, Working(d)'
        PROVE  /\ turn'[d].event \in 1..events'
               /\ Sound(turn'[d])
               /\ \A b \in Threads : Working(b)' /\ turn'[b].event = turn'[d].event => b = d
    <3>1. CASE d = t
      BY <1>1, <1>3, <1>7, <1>8, <1>12, <2>1, <3>1
    <3>2. CASE d # t
      <4>1. turn'[d] = turn[d] /\ Working(d) /\ turn[d].event # e /\ turn[d].event \in 1..events
        BY <1>3, <1>12, <2>1, <3>2
      <4>2. Sound(turn[d])
        BY <4>1 DEF OwnerInv, Sound, At
      <4>3. \A b \in Threads : Working(b)' /\ turn'[b].event = turn[d].event => b = d
        BY <1>7, <1>12, <4>1 DEF OwnerInv
      <4>4. turn[d].event \in 1..events'
        BY <1>1, <4>1
      <4> QED
        BY <4>1, <4>2, <4>3, <4>4
    <3> QED
      BY <3>1, <3>2
  <2>2. ASSUME NEW d \in Events
        PROVE  /\ d > events' => /\ ended'[d] = [how |-> "none", reply |-> NoReply]
                                 /\ \A k \in Turns : ran'[d][k] = 0
               /\ ended'[d] = Open => \E b \in Threads : Working(b)' /\ turn'[b].event = d
    <3>1. CASE d = e
      <4>1. ended'[e] = Open => Working(t)' /\ turn'[t].event = e
        BY <1>1, <1>3, <1>5, <1>7 DEF Working, At, Open
      <4> QED
        BY <1>1, <3>1, <4>1
    <3>2. CASE d # e
      <4>1. ended'[d] = ended[d] /\ ran' = ran /\ (d > events' => d > events)
        BY <1>1, <1>14, <3>2 DEF Events
      <4> QED
        BY <1>13, <4>1 DEF OwnerInv
    <3> QED
      BY <3>1, <3>2
  <2> QED
    BY <2>1, <2>2 DEF OwnerInv, Sound, Working, At
<1>16. \A d \in Threads : Working(d)' => Live(messages', ran', turn'[d])
  BY <1>1, <1>6, <1>8, <1>12, LiveStays
<1>17. ASSUME NEW d \in Events, ended'[d] # Open PROVE Closed(messages', ran', ended'[d], d)
  <2>1. CASE d = e
    <3>1. ended'[e] = [how |-> "error", reply |-> NoReply]
      BY <1>1, <1>3, <1>5, <1>17, <2>1
    <3> QED
      BY <1>1, <1>9, <2>1, <3>1
  <2>2. CASE d # e
    BY <1>1, <1>6, <1>14, <1>17, <2>2, ClosedStays
  <2> QED
    BY <2>1, <2>2
<1>18. Open' = Open
  BY DEF Open, NoReply
<1> QED
  BY <1>11, <1>15, <1>16, <1>17, <1>18 DEF WorkInv

(* The events that were open when the runtime dies are closed as lost. *)
LEMMA DieTypes ==
    ASSUME IInv, Die
    PROVE  TypeOK' /\ WorkInv'
<1> DEFINE lost == [how |-> "lost", reply |-> NoReply]
<1> USE DEF IInv
<1>1. /\ turn' = [t \in Threads |-> NoTurn] /\ build' = [t \in Threads |-> NoBuild]
      /\ ended' = [e \in Events |-> IF ended[e] = Open THEN lost ELSE ended[e]]
      /\ UNCHANGED <<messages, inFocus, unsynced, events, ran>>
      /\ deaths' \in 0..MaxDeaths
  BY TurnAssumption DEF Die, TypeOK
<1>2. /\ ended \in [Events -> [how : Endings, reply : Reply]] /\ NoReply \in Reply
      /\ lost \in [how : Endings, reply : Reply] /\ lost # Open
  BY DEF TypeOK, Reply, Open, Endings
<1>3. \A t \in Threads : ~Working(t)'
  BY <1>1, IdleType DEF Working, At
<1>4. \A e \in Events : ended'[e] # Open
  BY <1>1, <1>2
<1>5. TypeOK'
  BY <1>1, <1>2, <1>3, IdleType DEF TypeOK, MemoryTypeOK, Working
<1>6. ASSUME NEW e \in Events PROVE Closed(messages, ran, ended'[e], e)
  <2>1. CASE ended[e] = Open
    <3>1. PICK t \in Threads : Working(t) /\ turn[t].event = e
      BY <2>1 DEF OwnerInv
    <3>2. Live(messages, ran, turn[t]) /\ turn[t].turn \in Turns
      BY <3>1 DEF OwnerInv
    <3> QED
      BY <1>1, <2>1, <3>1, <3>2, LiveStops
  <2>2. CASE ended[e] # Open
    BY <1>1, <2>2
  <2> QED
    BY <2>1, <2>2
<1>7. ASSUME NEW e \in Events, e > events
      PROVE  ended'[e] = [how |-> "none", reply |-> NoReply] /\ \A k \in Turns : ran[e][k] = 0
  BY <1>1, <1>7 DEF OwnerInv, Open
<1>8. OwnerInv'
  BY <1>1, <1>3, <1>4, <1>7 DEF OwnerInv, Open, NoReply
<1>9. Open' = Open
  BY DEF Open, NoReply
<1> QED
  BY <1>1, <1>3, <1>5, <1>6, <1>8, <1>9 DEF WorkInv

----
(* What a step does to the memory. *)
LEMMA MemoryMoves ==
    ASSUME IInv, [Next]_vars
    PROVE  \/ \E m \in Message : AppendMessage(m)
           \/ \E t \in Threads : SelectFocus(t) \/ SyncFocus(t) \/ ReadMessages(t)
           \/ /\ UNCHANGED <<messages, inFocus, unsynced>>
              /\ \A t \in Threads : build'[t] \in {build[t], NoBuild}
<1> USE DEF IInv
<1>0. build \in [Threads -> Build] /\ 0 \in 0..MaxCalls /\ 0 \in 0..MaxTurns
  BY TurnAssumption DEF TypeOK, MemoryTypeOK
<1>1. CASE UNCHANGED vars
  BY <1>0, <1>1 DEF vars, memoryVars
<1>2. CASE Die
  BY <1>0, <1>2 DEF Die
<1>3. ASSUME NEW t \in Threads, Receive(t)
      PROVE  (\E m \in Message : AppendMessage(m)) \/ UNCHANGED memoryVars
  <2>1. events + 1 \in Events
    BY <1>3, TurnAssumption DEF Receive, TypeOK, Events
  <2>2. [role |-> "user", event |-> events + 1, turn |-> 0, call |-> 0, text |-> "none"] \in Message
    BY <1>0, <2>1 DEF Message
  <2> QED
    BY <1>3, <2>2 DEF Receive
<1>4. ASSUME NEW t \in Threads, Working(t), NEW role \in {"user", "assistant", "tool"},
             NEW c \in 0..MaxCalls, NEW text \in Texts \cup {"none"}, Stored(t, role, c, text)
      PROVE  \E m \in Message : AppendMessage(m)
  <2>1. turn[t].event \in Events /\ turn[t].turn \in 0..MaxTurns
    BY <1>4, TurnAssumption DEF TypeOK, OwnerInv, Turns, Working
  <2>2. [role |-> role, event |-> turn[t].event, turn |-> turn[t].turn,
         call |-> c, text |-> text] \in Message
    BY <2>1 DEF Message
  <2> QED
    BY <1>4, <2>2 DEF Stored
<1>5. ASSUME NEW t \in Threads, Step(t)
      PROVE  \/ \E m \in Message : AppendMessage(m)
             \/ SelectFocus(t) \/ SyncFocus(t) \/ ReadMessages(t)
             \/ /\ UNCHANGED <<messages, inFocus, unsynced>>
                /\ build' = build \/ build' = [build EXCEPT ![t] = NoBuild]
  <2>1. Working(t) /\ turn[t] \in Turn /\ turn[t].text \in Texts
    BY <1>5, StepWorks DEF Turn
  <2>2. ASSUME KeepResult(t) PROVE \E m \in Message : AppendMessage(m)
    <3>1. turn[t].kept + 1 \in 0..MaxCalls
      BY <1>5, <2>1, <2>2, StepWorks, TurnAssumption DEF KeepResult, OwnerInv, Turn, Response
    <3> QED
      BY <1>4, <2>1, <2>2, <3>1 DEF KeepResult
  <2>3. \A text \in Texts : Stored(t, "assistant", 0, text) => \E m \in Message : AppendMessage(m)
    BY <1>0, <1>4, <2>1
  <2>4. {"excuse", "said", "wait", "rendered"} \subseteq Texts
    BY DEF Texts
  <2> QED
    BY <1>5, <2>1, <2>2, <2>3, <2>4 DEF Step, BuildContext, Answer, Excuse, Say, RunTurn, Wait, Render,
       memoryVars, Return, GoOn, Summarise, StoreSummary, MemoryFails, Quiet
<1> QED
  BY <1>0, <1>1, <1>2, <1>3, <1>5 DEF Next, memoryVars

(* The flags follow the focus. *)
LEMMA FocusStep ==
    ASSUME IInv, [Next]_vars PROVE FocusInv'
<1> DEFINE n == Len(messages)
<1> USE DEF IInv
<1>1. n \in Nat /\ FocusLimit \in Nat /\ messages \in Seq(Message) /\ build \in [Threads -> Build]
  BY MemoryAssumption DEF TypeOK, MemoryTypeOK
<1>2. ASSUME NEW m \in Message, AppendMessage(m) PROVE FocusInv'
  <2>1. Len(messages') = n + 1
    BY <1>1, <1>2 DEF AppendMessage
  <2>2. LastIds(FocusLimit)' \subseteq LastIds(FocusLimit) \cup {n + 1}
    BY <1>1, <2>1 DEF LastIds
  <2>3. 1..n \subseteq 1..(n + 1)
    BY <1>1
  <2>4. build' = build /\ inFocus' = inFocus \cup {n + 1} /\ unsynced \subseteq unsynced'
        /\ \A t \in Threads : build[t].step = "flag" => n + 1 \in unsynced'
    BY <1>2 DEF AppendMessage
  <2>5. FocusKept'
    BY <2>2, <2>4 DEF FocusInv, FocusKept
  <2>6. \A t \in Threads : build'[t].focus \subseteq 1..Len(messages')
    BY <2>1, <2>3, <2>4 DEF FocusInv
  <2>7. \A t \in Threads : build'[t].step = "flag" =>
            LastIds(FocusLimit)' \ unsynced' \subseteq build'[t].focus
    BY <2>2, <2>4 DEF FocusInv
  <2> QED
    BY <2>5, <2>6, <2>7 DEF FocusInv
<1>3. ASSUME NEW t \in Threads, SelectFocus(t) PROVE FocusInv'
  <2>1. UNCHANGED <<messages, inFocus, unsynced>>
        /\ build' = [build EXCEPT ![t] = [step |-> "flag", focus |-> LastIds(FocusLimit)]]
    BY <1>3 DEF SelectFocus, FocusIds
  <2>2. LastIds(FocusLimit) \subseteq 1..n /\ LastIds(FocusLimit)' = LastIds(FocusLimit)
    BY <2>1 DEF LastIds
  <2> QED
    BY <1>1, <2>1, <2>2 DEF FocusInv, FocusKept
<1>4. ASSUME NEW t \in Threads, SyncFocus(t) PROVE FocusInv'
  <2>1. /\ build[t].step = "flag" /\ inFocus' = build[t].focus /\ messages' = messages
        /\ build' = [build EXCEPT ![t].step = "read"]
        /\ unsynced \ build[t].focus \subseteq unsynced'
        /\ (\E d \in Threads \ {t} : build[d].step = "flag") => unsynced' = unsynced
    BY <1>4 DEF SyncFocus
  <2>2. LastIds(FocusLimit)' = LastIds(FocusLimit)
    BY <2>1 DEF LastIds
  <2>3. \A d \in Threads : build'[d].focus = build[d].focus
                          /\ (build'[d].step = "flag" => d # t /\ build[d].step = "flag")
    BY <1>1, <2>1 DEF Build
  <2>4. FocusKept'
    BY <2>1, <2>2 DEF FocusInv, FocusKept
  <2> QED
    BY <2>1, <2>2, <2>3, <2>4 DEF FocusInv
<1>5. ASSUME NEW t \in Threads, ReadMessages(t) PROVE FocusInv'
  <2>1. UNCHANGED <<messages, inFocus, unsynced>> /\ build' = [build EXCEPT ![t].step = "built"]
    BY <1>5 DEF ReadMessages
  <2>2. LastIds(FocusLimit)' = LastIds(FocusLimit)
    BY <2>1 DEF LastIds
  <2>3. \A d \in Threads : build'[d].focus = build[d].focus
                          /\ (build'[d].step = "flag" => build[d].step = "flag")
    BY <1>1, <2>1 DEF Build
  <2> QED
    BY <2>1, <2>2, <2>3 DEF FocusInv, FocusKept
<1>6. ASSUME UNCHANGED <<messages, inFocus, unsynced>>,
             \A t \in Threads : build'[t] \in {build[t], NoBuild}
      PROVE  FocusInv'
  <2>1. LastIds(FocusLimit)' = LastIds(FocusLimit)
    BY <1>6 DEF LastIds
  <2> QED
    BY <1>6, <2>1 DEF FocusInv, FocusKept, NoBuild
<1> QED
  BY <1>2, <1>3, <1>4, <1>5, <1>6, MemoryMoves

----
(* The invariant holds at the start, and every step keeps it. *)
LEMMA InitInv == Init => IInv
<1> SUFFICES ASSUME Init PROVE IInv
  OBVIOUS
<1>1. 0 \in 0..MaxEvents /\ 0 \in 0..MaxDeaths /\ 0 \in 0..MaxCalls
  BY TurnAssumption
<1>2. messages = <<>> /\ Len(messages) = 0 /\ messages \in Seq(Message)
  BY DEF Init, MemoryInit
<1>3. NoReply \in Reply
  BY DEF Reply
<1>4. /\ turn = [t \in Threads |-> NoTurn] /\ events = 0 /\ deaths = 0 /\ inFocus = {} /\ unsynced = {}
      /\ build = [t \in Threads |-> NoBuild]
      /\ ran = [e \in Events |-> [k \in Turns |-> 0]]
      /\ ended = [e \in Events |-> [how |-> "none", reply |-> NoReply]]
  BY DEF Init, MemoryInit
<1>5. \A t \in Threads : ~Working(t)
  BY <1>4, IdleType DEF Working, At
<1>6. TypeOK
  BY <1>1, <1>2, <1>3, <1>4, <1>5, IdleType DEF TypeOK, MemoryTypeOK, Endings, Working
<1>7. OwnerInv
  BY <1>4, <1>5 DEF OwnerInv, Open
<1>8. \A e \in Events : Closed(messages, ran, ended[e], e)
  BY <1>4 DEF Closed
<1>9. FocusInv
  BY <1>2, <1>4 DEF FocusInv, FocusKept, LastIds, NoBuild
<1> QED
  BY <1>5, <1>6, <1>7, <1>8, <1>9 DEF IInv

LEMMA NextInv == IInv /\ [Next]_vars => IInv'
<1> SUFFICES ASSUME IInv, [Next]_vars PROVE IInv'
  OBVIOUS
<1>1. FocusInv'
  BY FocusStep
<1>2. TypeOK' /\ WorkInv'
  <2>1. CASE UNCHANGED vars
    <3>1. TypeOK' <=> TypeOK
      BY <2>1 DEF vars, memoryVars, history, TypeOK, MemoryTypeOK, At, Open, NoReply
    <3>2. WorkInv' <=> WorkInv
      BY <2>1 DEF vars, memoryVars, history, WorkInv, OwnerInv, Working, At, Open, NoReply
    <3> QED
      BY <3>1, <3>2 DEF IInv, WorkInv
  <2>2. CASE Die
    BY <2>2, DieTypes
  <2>3. ASSUME NEW t \in Threads, Receive(t) PROVE TypeOK' /\ WorkInv'
    BY <2>3, ReceiveTypes
  <2>4. ASSUME NEW t \in Threads, Step(t) PROVE TypeOK' /\ WorkInv'
    BY <2>4, StepTypes, StepWorkInv
  <2> QED
    BY <2>1, <2>2, <2>3, <2>4 DEF Next
<1> QED
  BY <1>1, <1>2 DEF IInv, WorkInv

(* Every state that is reached has what the invariant says. *)
THEOREM TurnInvariant == Spec => []IInv
<1> QED
  BY InitInv, NextInv, PTL DEF Spec

(* The records keep their types, and an event is open while a thread has it *)
(* (AgentRuntimeService.handle_inbound_event).                              *)
THEOREM TypesKept == Spec => []TypeOK
<1>1. IInv => TypeOK
  BY DEF IInv
<1> QED
  BY <1>1, TurnInvariant, PTL

(* However the model plans, whatever fails and whenever the runtime dies,   *)
(* the session knows every call of every turn that the event went past.     *)
THEOREM WorkIsRemembered == Spec => []WorkRemembered
<1>1. IInv => WorkRemembered
  <2> SUFFICES ASSUME IInv, NEW e \in Events, NEW k \in Turns, Past(e, k)
               PROVE  Done(messages, ran, e, k)
    BY DEF WorkRemembered, Remembered, Done, Has
  <2>1. CASE ended[e] # Open
    BY <2>1 DEF IInv, Closed, Past
  <2>2. CASE ended[e] = Open
    <3>1. PICK t \in Threads : Working(t) /\ turn[t].event = e
      BY <2>2 DEF IInv, OwnerInv
    <3>2. PICK later \in Turns : later > k /\ ran[e][later] > 0
      BY <2>2 DEF Past, Open
    <3> QED
      BY <3>1, <3>2, LivePast DEF IInv, OwnerInv
  <2> QED
    BY <2>1, <2>2
<1> QED
  BY <1>1, TurnInvariant, PTL

(* The session remembers as the assistant's words what the user is answered.*)
THEOREM ReplyIsRemembered == Spec => []ReplyRemembered
<1>1. IInv => ReplyRemembered
  <2> SUFFICES ASSUME IInv, NEW e \in Events, ended[e].reply # NoReply,
                      ended[e].reply.text \notin Unstored
               PROVE  Spoken(messages, e, ended[e].reply)
    BY DEF ReplyRemembered, Remembered, Spoken, Has
  <2>1. ended[e] # Open
    BY DEF Open
  <2> QED
    BY <2>1 DEF IInv, Closed
<1> QED
  BY <1>1, TurnInvariant, PTL

(* A plan that uses up its turns ends in a summary, in its results, or as   *)
(* its last turn ends it, never in the announcement of a step to come; in   *)
(* silence only where a deferred message came to an empty text.             *)
THEOREM PlanIsAnswered == Spec => []PlanAnswered
<1>1. IInv => PlanAnswered
  BY DEF IInv, PlanAnswered, Closed, Open
<1> QED
  BY <1>1, TurnInvariant, PTL

(* The latest messages stay in focus, whatever threads build prompts at the *)
(* same time.                                                               *)
THEOREM FocusIsKept == Spec => []FocusKept
<1>1. IInv => FocusKept
  BY DEF IInv, FocusInv
<1> QED
  BY <1>1, TurnInvariant, PTL
=============================================================================
