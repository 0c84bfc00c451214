--------------------------- MODULE ApprovalWorkflow ---------------------------
(***************************************************************************)
(* Approval requests: WorkflowStore and WorkflowService.resolve_approval,  *)
(* with the two ways a request is answered.  A chat user answers through   *)
(* AgentRuntimeService.handle_inbound_event, run by one thread per         *)
(* transport and by the scheduler's wake-ups; an operator answers with     *)
(* "nagient approval respond", a process of its own.  Both load the        *)
(* request, run its action, and write the outcome; nothing locks the file  *)
(* and nobody looks at the status once a request was picked.               *)
(*                                                                         *)
(* Agent turns create requests: for tool calls under a fresh id, and for   *)
(* the assistant's own approval_requests under the id the assistant wrote. *)
(* A file write truncates ("torn"), then fills.                            *)
(***************************************************************************)
EXTENDS Integers, FiniteSets

CONSTANTS
    Chats,         \* the transports' sessions: a transport id and a session id
    Senders,       \* users
    Nobody,        \* "no sender": a wake-up's, and the owner of what it creates
    Threads,       \* the transports' polling threads
    ChatsOf,       \* ChatsOf[t]: the sessions of thread t's transport
    Waker,         \* the scheduler's thread, in handle_inbound_event for a wake-up
    Operators,     \* "nagient approval respond" processes
    NamedIds,      \* request ids written by an assistant
    NoId,          \* "no request id"
    Claims,        \* users that an assistant names as the owner of its request
    MaxRequests,   \* bound: requests created
    MaxEvents,     \* bound: events handled and commands run
    MaxCrashes     \* bound: deaths of processes

Requests == 1..MaxRequests
Ids      == Requests \cup NamedIds     \* a fresh id is its request's number
Handlers == Threads \cup {Waker}
Actors   == Handlers \cup Operators

ASSUME ApprovalAssumption ==
    /\ Nobody \notin Senders
    /\ IsFiniteSet(Threads)
    /\ ChatsOf \in [Threads -> SUBSET Chats]
    /\ \A s, t \in Threads : s # t => ChatsOf[s] \cap ChatsOf[t] = {}
    /\ Waker \notin Threads
    /\ Handlers \cap Operators = {}
    /\ NoId \notin Ids
    /\ Claims \subseteq Senders \cup {Nobody}
    /\ NamedIds \cap Requests = {}
    /\ MaxRequests \in Nat /\ MaxEvents \in Nat /\ MaxCrashes \in Nat

VARIABLES
    file,      \* file[i]: the JSON file of request id i
    made,      \* requests created so far
    buttons,   \* buttons[c]: the ids whose approval buttons were sent to chat c
    task,      \* task[a]: what actor a is in the middle of
    events,    \* events and commands so far
    crashes,   \* deaths so far
    runs,      \* history: runs[a][r]: how often a started the action of r
    operated,  \* history: the ids an operator began to answer
    excuse,    \* history: how often an actor died while it ran the action of r
    worked     \* history: the requests whose tool call succeeded

history == <<runs, operated, excuse, worked>>

vars == <<file, made, buttons, task, events, crashes, history>>

----
(* Records *)

(* "cancel" stands for "reject" too, which is handled alike *)
Decision == {"approve", "cancel"}

Final == {"approved", "failed", "cancel"}

(* Whether a success continues the agent: not with on_success = "none", nor *)
(* with an on_success_message to send instead                               *)
After == {"resume", "stop"}

ApprovalRequest ==
    [status : {"missing", "torn", "pending"} \cup Final,
     req    : 0..MaxRequests,
     chat   : Chats \cup {NoId},
     owner  : Senders \cup {Nobody},
     after  : After]

Blank(status) ==
    [status |-> status, req |-> 0, chat |-> NoId, owner |-> Nobody, after |-> "resume"]

(* The steps of an actor: "picked" a request to answer; "running" its      *)
(* action; "saving" its outcome; "answered" it, and has the reply to make; *)
(* in a model "turn" for the event, or in one "resuming" after an approval *)
(* (and, in either, "creating" a request).                                 *)
Task ==
    [step     : {"idle", "picked", "running", "saving", "answered", "turn", "creating"},
     chat     : Chats \cup {NoId},
     sender   : Senders \cup {Nobody},
     decision : Decision \cup {"none"},
     wants    : Ids \cup {NoId},         \* the id a button named
     pick     : Ids \cup {NoId},         \* the request picked, or being created
     after    : After,                   \* what the request picked wants of a success
     rec      : ApprovalRequest,         \* its record, as loaded or to be written
     resuming : BOOLEAN,                 \* the turn continues an approved action
     resumed  : BOOLEAN,                 \* ... and is over
     asked    : Requests \cup {NoId}]       \* the last request a tool call of the turn created

Idle ==
    [step |-> "idle", chat |-> NoId, sender |-> Nobody, decision |-> "none",
     wants |-> NoId, pick |-> NoId, after |-> "resume", rec |-> Blank("missing"),
     resuming |-> FALSE, resumed |-> FALSE, asked |-> NoId]

Event(chat, sender, decision, wants) ==
    [Idle EXCEPT !.chat = chat, !.sender = sender, !.decision = decision, !.wants = wants]

Readable == \A i \in Ids : file[i].status # "torn"

----
Init ==
    /\ file = [i \in Ids |-> Blank("missing")]
    /\ made = 0
    /\ buttons = [c \in Chats |-> {}]
    /\ task = [a \in Actors |-> Idle]
    /\ events = 0
    /\ crashes = 0
    /\ runs = [a \in Actors |-> [r \in Requests |-> 0]]
    /\ operated = {}
    /\ excuse = [r \in Requests |-> 0]
    /\ worked = {}

(* What reaches handle_inbound_event: a user's message in a chat of the    *)
(* thread's transport, or a wake-up for any chat and from no sender        *)
Origins(h) ==
    IF h = Waker THEN Chats \X {Nobody} ELSE ChatsOf[h] \X Senders

Begin(a, newTask) ==
    /\ task[a] = Idle
    /\ events < MaxEvents
    /\ events' = events + 1
    /\ task' = [task EXCEPT ![a] = newTask]
    /\ operated' = IF a \in Operators THEN operated \cup {newTask.pick} ELSE operated
    /\ UNCHANGED <<file, made, buttons, crashes, runs, excuse, worked>>

(* A text that is no decision goes to the model *)
Message(h) ==
    \E o \in Origins(h) :
        Begin(h, [Event(o[1], o[2], "none", NoId) EXCEPT !.step = "turn"])

(* _approval_requester_matches.  (Drafts: no check; wake-ups may answer.) *)
RequesterUnchecked(owner, sender) == TRUE
RequesterOrWake(owner, sender) == owner = Nobody \/ sender = Nobody \/ owner = sender
RequesterMatches(owner, sender) == owner = Nobody \/ owner = sender

(* (Draft: whatever the status is) *)
PendingOrNot(chat, sender) ==
    {i \in Ids : /\ file[i].status \notin {"missing", "torn"}
                 /\ file[i].chat = chat
                 /\ RequesterMatches(file[i].owner, sender)}

Pending(chat, sender) ==
    {i \in Ids : /\ file[i].status = "pending"
                 /\ file[i].chat = chat
                 /\ RequesterMatches(file[i].owner, sender)}

(* _maybe_resolve_transport_approval picks the request the button named,   *)
(* if it is pending, or else the last pending one in the order of the      *)
(* (random) file names                                                     *)
Picks(pending, wants) == IF wants \in pending THEN {wants} ELSE pending

(* A word that is a decision, or a button (of a transport's user) *)
Decide(h) ==
    \E o \in Origins(h), d \in Decision :
        \E wants \in {NoId} \cup (IF h = Waker THEN {} ELSE buttons[o[1]]) :
            LET e == Event(o[1], o[2], d, wants)
                pending == Pending(o[1], o[2])
            IN \/ /\ ~Readable                    \* list_approvals raises
                  /\ Begin(h, Idle)
               \/ /\ Readable
                  /\ pending = {}                 \* no approval: a message like any other
                  /\ Begin(h, [Event(o[1], o[2], "none", NoId) EXCEPT !.step = "turn"])
               \/ /\ Readable
                  /\ \E i \in Picks(pending, wants) :
                         Begin(h, [e EXCEPT !.step = "picked", !.pick = i,
                                            !.after = file[i].after])

(* "nagient approval respond <id> --decision <d>" *)
Respond(o) ==
    \E i \in Ids, d \in Decision :
        /\ file[i].status # "missing"
        /\ Begin(o, [Event(NoId, Nobody, d, NoId) EXCEPT !.step = "picked", !.pick = i])

----
(* resolve_approval, by a handler or an operator *)

(* The record is loaded whatever its status, and an approved action starts *)
Approve(a) ==
    /\ task[a].step = "picked"
    /\ task[a].decision = "approve"
    /\ file[task[a].pick].status # "torn"
    /\ task' = [task EXCEPT ![a] = [@ EXCEPT !.step = "running", !.rec = file[task[a].pick]]]
    /\ runs' = [runs EXCEPT ![a][file[task[a].pick].req] = @ + 1]
    /\ UNCHANGED <<file, made, buttons, events, crashes, operated, excuse, worked>>

(* The outcome begins to be written *)
Record(a, rec, status) ==
    /\ task' = [task EXCEPT ![a] = [@ EXCEPT !.step = "saving",
                                             !.rec = [rec EXCEPT !.status = status]]]
    /\ file' = [file EXCEPT ![task[a].pick] = Blank("torn")]
    /\ UNCHANGED <<made, buttons, events, crashes, runs, operated, excuse>>

Refuse(a) ==
    /\ task[a].step = "picked"
    /\ task[a].decision = "cancel"
    /\ file[task[a].pick].status # "torn"
    /\ Record(a, file[task[a].pick], task[a].decision)
    /\ UNCHANGED worked

(* The action returns, or raises.  A tool that fails returns: only its     *)
(* result says so.  (Drafts: a failure leaves the request for another try; *)
(* an exception is not caught.)                                            *)
ExecuteRetried(a) ==
    /\ task[a].step = "running"
    /\ \/ Record(a, task[a].rec, "approved")
       \/ Record(a, task[a].rec, "pending")
    /\ UNCHANGED worked

ExecuteUncaught(a) ==
    /\ task[a].step = "running"
    /\ \/ /\ Record(a, task[a].rec, "approved")
          /\ worked' = worked \cup {task[a].rec.req}
       \/ /\ task' = [task EXCEPT ![a] = Idle]
          /\ UNCHANGED <<file, made, buttons, events, crashes, history>>

Execute(a) ==
    /\ task[a].step = "running"
    /\ \/ /\ Record(a, task[a].rec, "approved")
          /\ worked' = worked \cup {task[a].rec.req}
       \/ /\ Record(a, task[a].rec, "approved")
          /\ UNCHANGED worked
       \/ /\ Record(a, task[a].rec, "failed")
          /\ UNCHANGED worked

(* What filling a file can leave: another writer that truncated it too,    *)
(* and filled it with a longer text, leaves the tail of it behind ours     *)
Filled(old, rec) == IF old.status = "torn" THEN {rec} ELSE {rec, Blank("torn")}

Fill(i, rec) == \E new \in Filled(file[i], rec) : file' = [file EXCEPT ![i] = new]

Save(a) ==
    /\ task[a].step = "saving"
    /\ Fill(task[a].pick, task[a].rec)
    /\ task' = [task EXCEPT ![a] =
                   IF a \in Operators THEN Idle ELSE [@ EXCEPT !.step = "answered"]]
    /\ UNCHANGED <<made, buttons, events, crashes, history>>

(* The file is unreadable, or the event's handler raises elsewhere: the    *)
(* exception ends the command, or the event with an error reply            *)
Raise(a) ==
    /\ \/ task[a].step = "picked" /\ file[task[a].pick].status = "torn"
       \/ task[a].step = "turn"
    /\ task' = [task EXCEPT ![a] = Idle]
    /\ UNCHANGED <<file, made, buttons, events, crashes, history>>

----
(* The reply to a decision, and the model's turns *)

(* _approval_should_resume_agent, after _approval_message_override.        *)
(* (Draft: it forgets that it has resumed.)                                *)
ShouldResumeAgain(t) == t.rec.status = "approved" /\ t.after = "resume"

ShouldResume(t) ==
    /\ t.rec.status = "approved"
    /\ t.after = "resume"
    /\ ~t.resumed

Resume(h) ==
    /\ task[h].step = "answered"
    /\ ShouldResume(task[h])
    /\ task' = [task EXCEPT ![h] = [@ EXCEPT !.step = "turn", !.resuming = TRUE]]
    /\ UNCHANGED <<file, made, buttons, events, crashes, history>>

(* The reply is returned; or the button's message was edited, nothing is   *)
(* returned, and handle_inbound_event goes on with the button's text as a  *)
(* message                                                                 *)
Reply(h) ==
    /\ task[h].step = "answered"
    /\ ~ShouldResume(task[h])
    /\ \/ task' = [task EXCEPT ![h] = Idle]
       \/ /\ task[h].wants # NoId
          /\ task' = [task EXCEPT ![h] = [@ EXCEPT !.step = "turn"]]
    /\ UNCHANGED <<file, made, buttons, events, crashes, history>>

(* A turn writes a new request into file i.  (Draft: its number is not     *)
(* counted.)                                                               *)
Write(h, i, owner, after, asked) ==
    /\ task[h].step = "turn"
    /\ made < MaxRequests
    /\ file' = [file EXCEPT ![i] = Blank("torn")]
    /\ task' = [task EXCEPT ![h] = [@ EXCEPT
           !.step = "creating", !.pick = i, !.asked = asked,
           !.rec = [status |-> "pending", req |-> made + 1, chat |-> task[h].chat,
                    owner |-> owner, after |-> after]]]
    /\ UNCHANGED <<buttons, events, crashes, history>>

(* A tool call asks under a fresh id and for the event's sender; the       *)
(* assistant under a fresh id or one that it wrote, and for that sender    *)
(* unless it wrote one.  A resumed turn has the same sender.               *)
AskUncounted(h) ==
    /\ Write(h, made + 1, task[h].sender, "stop", made + 1)
    /\ UNCHANGED made

Ask(h) ==
    \E i \in {made + 1} \cup NamedIds, owner \in {task[h].sender} \cup Claims,
       after \in After, asked \in {task[h].asked, made + 1} :
        /\ asked = made + 1 => i = made + 1 /\ owner = task[h].sender
        /\ Write(h, i, owner, after, asked)
        /\ made' = made + 1

Asked(h) ==
    /\ task[h].step = "creating"
    /\ Fill(task[h].pick, task[h].rec)
    /\ task' = [task EXCEPT ![h] = [@ EXCEPT !.step = "turn", !.pick = NoId,
                                             !.rec = Blank("missing")]]
    /\ UNCHANGED <<made, buttons, events, crashes, history>>

(* The turn ends, with buttons for the last tool call that waits, if the   *)
(* transport has them; a resumed one goes back to the reply                *)
EndTurn(h) ==
    /\ task[h].step = "turn"
    /\ task' = [task EXCEPT ![h] =
                   IF @.resuming
                   THEN [@ EXCEPT !.step = "answered", !.resuming = FALSE, !.resumed = TRUE,
                                  !.asked = NoId]
                   ELSE Idle]
    /\ buttons' \in
           {buttons} \cup
           (IF task[h].asked = NoId THEN {}
            ELSE {[buttons EXCEPT ![task[h].chat] = @ \cup {task[h].asked}]})
    /\ UNCHANGED <<file, made, events, crashes, history>>

----
(* Deaths: of the runtime with all its threads, or of an operator's command *)
Dying(A) ==
    /\ crashes < MaxCrashes
    /\ \E a \in A : task[a] # Idle
    /\ crashes' = crashes + 1
    /\ task' = [a \in Actors |-> IF a \in A THEN Idle ELSE task[a]]
    /\ excuse' = [r \in Requests |->
                     excuse[r] + Cardinality({a \in A : task[a].step = "running"
                                                        /\ task[a].rec.req = r})]
    /\ UNCHANGED <<file, made, buttons, events, runs, operated, worked>>

Crash   == Dying(Handlers)
Kill(o) == Dying({o})

----
Resolving(a) == Approve(a) \/ Refuse(a) \/ Execute(a) \/ Save(a)

Conversing(h) == Resume(h) \/ Reply(h) \/ Ask(h) \/ Asked(h) \/ EndTurn(h)

Next ==
    \/ \E h \in Handlers : Message(h) \/ Decide(h) \/ Conversing(h)
    \/ \E o \in Operators : Respond(o) \/ Kill(o)
    \/ \E a \in Actors : Resolving(a) \/ Raise(a)
    \/ Crash

Spec == Init /\ [][Next]_vars

(***************************************************************************)
(* A thread that is handling an event goes on (its calls have timeouts and *)
(* a turn's model calls are counted), and so does a command.  Nobody has   *)
(* to answer anything, and nothing has to die.                             *)
(***************************************************************************)
Working(a) ==
    \/ Resolving(a)
    \/ Raise(a)
    \/ a \in Handlers /\ Conversing(a)

FairSpec == Spec /\ \A a \in Actors : WF_vars(Working(a))

----
(* Properties *)

(* The records, and what the steps say of the request an actor works on:   *)
(* one that is being run or written is the record that was loaded.         *)
TypeOK ==
    /\ file \in [Ids -> ApprovalRequest]
    /\ made \in 0..MaxRequests
    /\ buttons \in [Chats -> SUBSET Requests]
    /\ task \in [Actors -> Task]
    /\ events \in 0..MaxEvents
    /\ crashes \in 0..MaxCrashes
    /\ runs \in [Actors -> [Requests -> Nat]]
    /\ operated \subseteq Ids
    /\ excuse \in [Requests -> Nat]
    /\ worked \subseteq Requests
    /\ \A a \in Actors :
           task[a].step \in {"picked", "running", "saving", "creating"}
               => task[a].pick \in Ids
    /\ \A a \in Actors :
           task[a].step \in {"running", "saving", "creating"}
               => task[a].rec.req \in 1..made
    /\ \A i \in Ids : file[i].status \notin {"missing", "torn"} => file[i].req \in 1..made

(* Ownership is scoped to the originating session and sender               *)
(* (docs/architecture.md:121): a handler runs a request's action for an    *)
(* event of the chat that asked for it and of the user the request names,  *)
(* whoever wrote to its file meanwhile.  For the ids the store makes.      *)
OwnerOnly ==
    \A h \in Handlers :
        task[h].step = "running" /\ task[h].pick \in Requests
            => /\ task[h].rec.chat = task[h].chat
               /\ task[h].rec.owner \in {Nobody, task[h].sender}

(* No thread runs a request's action twice, but for one that died with the *)
(* runtime while it ran: repeated answers and buttons pressed again        *)
(* included.  For the requests under an id the store made: those under an  *)
(* assistant's id can be run twice, when an answer that is late writes an  *)
(* old record over a new one.                                              *)
HandlerRunsOnce ==
    \A h \in Handlers, r \in Requests :
        file[r].status # "missing" => runs[h][r] <= 1 + excuse[r]

(* A request that still reads "pending" has not been run by anybody, but   *)
(* for an actor that is running it or died running it.                     *)
PendingNotRun ==
    \A r \in Requests, a \in Actors :
        file[r].status = "pending" /\ runs[a][r] > excuse[r]
            => task[a].step = "running" /\ task[a].rec.req = r

(* A user's request that reads as refused was not run, unless an operator  *)
(* took part: the chat's only thread answers it, once.                     *)
RefusedNotRun ==
    \A r \in Requests \ operated :
        file[r].status = "cancel" /\ file[r].owner # Nobody
            => \A h \in Handlers : runs[h][r] <= excuse[r]

(* Every event is done with in the end: resumed turns do not feed each     *)
(* other, and a handled button's extra turn ends too.                      *)
EventEnds == \A a \in Actors : task[a] # Idle ~> task[a] = Idle

(* A file that nobody is about to fill and that no reader can parse *)
Wrecked(i) ==
    /\ file[i].status = "torn"
    /\ \A a \in Actors : task[a].step \in {"saving", "creating"} => task[a].pick # i

(* A decision that picked a pending request settles it, unless somebody    *)
(* died, or two answers were written over each other.                      *)
AnswerLands ==
    \A r \in Requests :
        (\E h \in Handlers : task[h].step = "picked" /\ task[h].pick = r)
            ~> file[r].status \in Final \/ Wrecked(r) \/ crashes > 0

(* What the reply says (agent_runtime_service.py:1254, the approval was    *)
(* accepted and "the action was performed"): an approved request's action  *)
(* worked.  The code breaks it: a tool that fails returns a result.        *)
ApprovedMeansDone ==
    \A i \in Ids : file[i].status = "approved" => file[i].req \in worked

----
(* The requests as ApprovalLedger sees them: a file that is truncated, and *)
(* that its creator is not about to fill, is never pending again.          *)
Unopened(r) ==
    \/ file[r].status = "missing"
    \/ \E h \in Handlers : task[h].step = "creating" /\ task[h].pick = r

ledgerPhase ==
    [r \in Requests |->
        IF Unopened(r) THEN "new"
        ELSE IF file[r].status # "pending" THEN "closed"
        ELSE IF file[r].owner # Nobody /\ r \notin operated THEN "private"
        ELSE "shared"]

ledgerAt(step) ==
    [r \in Requests |-> {a \in Actors : task[a].step = step /\ task[a].pick = r}]

Ledger == INSTANCE ApprovalLedger
          WITH phase <- ledgerPhase, picked <- ledgerAt("picked"),
               running <- ledgerAt("running"), saving <- ledgerAt("saving")

(* Requests are closed once and for all, and one that only its user may    *)
(* answer is answered by one thread at a time, although nothing is locked  *)
(* and nobody looks at the status again after the pick.                    *)
KeepsLedger == Ledger!LedgerSpec
=============================================================================
