---------------------------- MODULE ApprovalProofs ----------------------------
(***************************************************************************)
(* Proofs about ApprovalWorkflow, for every set of chats, users, threads   *)
(* and operators and all bounds: type correctness, the invariants          *)
(* OwnerOnly, HandlerRunsOnce, PendingNotRun and RefusedNotRun, and that   *)
(* the workflow implements ApprovalLedger (KeepsLedger).                   *)
(*                                                                         *)
(* What makes them inductive is where a record may be seen.  The record of *)
(* request r lives in file r, or in the file of an assistant's id and then *)
(* file r is never written; so whoever holds a record of file r holds one  *)
(* with the chat and the owner it was created with.  And a file that reads *)
(* "pending" was only ever filled by its creator, before anybody ran it.   *)
(* A request that has a user, and that no operator answers, is answered by *)
(* one thread at a time, the one that its chat's transport has: while that *)
(* thread has picked it, it stays pending, and a refusal finds it not run. *)
(***************************************************************************)
EXTENDS ApprovalWorkflow, FiniteSetTheorems, TLAPS

(* Actor a holds a record of file i, which it runs or is about to write *)
InHand(a, i) ==
    /\ task[a].step \in {"running", "saving", "creating"}
    /\ task[a].pick = i

Running(a, r) == task[a].step = "running" /\ task[a].rec.req = r

Full(i) == file[i].status \notin {"missing", "torn"}

(* The chat and the user that a record of file i, in the file or in hand,  *)
(* says have asked                                                         *)
Asking == (Chats \cup {NoId}) \X (Senders \cup {Nobody})

SeenFrom(i, o) ==
    \/ Full(i) /\ o = <<file[i].chat, file[i].owner>>
    \/ \E a \in Actors : InHand(a, i) /\ o = <<task[a].rec.chat, task[a].rec.owner>>

OriginInv ==
    \A i \in Requests, o, p \in Asking : SeenFrom(i, o) /\ SeenFrom(i, p) => o = p

(* Actor a answers the request of file i                                   *)
Answering == {"picked", "running", "saving"}
Answers(a, i) == task[a].step \in Answering /\ task[a].pick = i

AnswerInv ==
    \A h \in Handlers, i \in Requests, o \in Asking :
        Answers(h, i) /\ SeenFrom(i, o)
            => o[1] = task[h].chat /\ o[2] \in {Nobody, task[h].sender}

(* A handler answers for an event, and an operator what it began to answer *)
SourceInv ==
    /\ \A h \in Handlers :
           task[h].step \in Answering => <<task[h].chat, task[h].sender>> \in Origins(h)
    /\ \A o \in Operators : task[o].step \in Answering => task[o].pick \in operated

(* The records of file i are of request i; or, under an assistant's id, of *)
(* a request whose own file is never written                               *)
At(i, rec) == IF i \in Requests THEN rec.req = i ELSE file[rec.req].status = "missing"

HomeInv ==
    /\ \A i \in Ids : Full(i) => At(i, file[i])
    /\ \A a \in Actors :
           task[a].step \in {"running", "saving", "creating"} => At(task[a].pick, task[a].rec)
    /\ \A a \in Actors :
           task[a].step \in {"picked", "running", "saving", "creating"}
               => file[task[a].pick].status # "missing"

StepInv ==
    \A a \in Actors :
        /\ task[a].step = "creating" => task[a].rec.status = "pending"
        /\ task[a].step = "saving" => task[a].rec.status \in Final

FreshInv ==
    \A r \in Requests :
        r > made => file[r].status = "missing" /\ \A a \in Actors : runs[a][r] = 0

CreateInv ==
    \A a \in Actors :
        task[a].step = "creating" /\ task[a].pick \in Requests
            => /\ file[task[a].pick].status = "torn"
               /\ \A b \in Actors :
                      /\ runs[b][task[a].pick] = 0
                      /\ b # a => ~InHand(b, task[a].pick)

PendingInv ==
    \A r \in Requests, a \in Actors :
        file[r].status = "pending"
            => runs[a][r] <= excuse[r] + (IF Running(a, r) THEN 1 ELSE 0)

(* A request whose outcome is being stored is pending no more              *)
SavedInv ==
    \A a \in Actors :
        task[a].step = "saving" /\ task[a].pick \in Requests
            => file[task[a].pick].status # "pending"

PickInv ==
    \A h \in Handlers, r \in Requests :
        task[h].step = "picked" /\ task[h].pick = r => runs[h][r] <= excuse[r]

(* A user's request in which no operator takes part: a thread that picked  *)
(* it finds it pending, and nobody ran it that refused it, or is about to  *)
Private(r) == r \notin operated /\ \E o \in Asking : SeenFrom(r, o) /\ o[2] # Nobody

PickedInv ==
    \A h \in Handlers, r \in Requests :
        task[h].step = "picked" /\ task[h].pick = r /\ Private(r)
            => file[r].status = "pending"

Refused(r) ==
    \/ file[r].status = "cancel"
    \/ \E a \in Actors : /\ task[a].step = "saving" /\ task[a].pick = r
                         /\ task[a].rec.status = "cancel"

RefusedInv ==
    \A r \in Requests, h \in Handlers :
        Private(r) /\ Refused(r) => runs[h][r] <= excuse[r]

IInv ==
    /\ TypeOK
    /\ OriginInv
    /\ AnswerInv
    /\ HomeInv
    /\ StepInv
    /\ FreshInv
    /\ CreateInv
    /\ PendingInv
    /\ PickInv
    /\ HandlerRunsOnce
    /\ SourceInv
    /\ PickedInv
    /\ RefusedInv
    /\ SavedInv

----
(* The initial states, and types *)

LEMMA IdleType == Idle \in Task
BY ApprovalAssumption
DEF Idle, Task, Blank, ApprovalRequest, Decision, After, Ids, Final

LEMMA BlankType ==
    ASSUME NEW s \in {"missing", "torn"}
    PROVE  /\ Blank(s) \in ApprovalRequest
           /\ Blank(s).status = s
BY ApprovalAssumption DEF Blank, ApprovalRequest, After

LEMMA InitInv ==
    ASSUME Init
    PROVE  IInv
<1>1. /\ \A i \in Ids : file[i].status = "missing"
      /\ \A a \in Actors : task[a].step = "idle"
  BY DEF Init, Blank, Idle
<1>2. TypeOK
  <2>1. task \in [Actors -> Task]
    BY IdleType DEF Init
  <2>2. file \in [Ids -> ApprovalRequest]
    BY BlankType DEF Init
  <2>3. runs \in [Actors -> [Requests -> Nat]] /\ excuse \in [Requests -> Nat]
    BY DEF Init
  <2> QED
    BY <1>1, <2>1, <2>2, <2>3, ApprovalAssumption DEF Init, TypeOK
<1>3. OriginInv /\ AnswerInv
  BY <1>1 DEF OriginInv, AnswerInv, SeenFrom, Full, InHand, Ids
<1>4. HomeInv /\ StepInv /\ CreateInv /\ PickInv
  BY <1>1 DEF HomeInv, StepInv, CreateInv, PickInv, Full, Handlers, Actors
<1>5. SourceInv /\ PickedInv /\ RefusedInv /\ SavedInv
  BY <1>1 DEF SavedInv, SourceInv, PickedInv, RefusedInv, Refused, Answering, Handlers, Actors, Ids
<1>6. FreshInv /\ PendingInv /\ HandlerRunsOnce
  BY <1>1 DEF FreshInv, PendingInv, HandlerRunsOnce, Ids, Init, Requests
<1> QED
  BY <1>2, <1>3, <1>4, <1>6, <1>5 DEF IInv

(* A task at another step with another record *)
With(t, step, rec) == [t EXCEPT !.step = step, !.rec = rec]

LEMMA TaskWith ==
    ASSUME NEW t \in Task, NEW rec \in ApprovalRequest,
           NEW step \in {"running", "saving"}
    PROVE  /\ With(t, step, rec) \in Task
           /\ With(t, step, rec).step = step
           /\ With(t, step, rec).rec = rec
           /\ With(t, step, rec).pick = t.pick
           /\ With(t, step, rec).chat = t.chat
           /\ With(t, step, rec).sender = t.sender
BY DEF Task, With

(* What an actor's task and a file may become *)
LEMMA TaskUpdate ==
    ASSUME TypeOK, NEW a \in Actors, NEW new \in Task,
           task' = [task EXCEPT ![a] = new]
    PROVE  /\ task' \in [Actors -> Task]
           /\ task'[a] = new
           /\ \A b \in Actors : b # a => task'[b] = task[b]
BY DEF TypeOK

LEMMA FileUpdate ==
    ASSUME TypeOK, NEW i \in Ids, NEW new \in ApprovalRequest,
           file' = [file EXCEPT ![i] = new]
    PROVE  /\ file' \in [Ids -> ApprovalRequest]
           /\ file'[i] = new
           /\ \A j \in Ids : j # i => file'[j] = file[j]
BY DEF TypeOK

(* A new text of a file, or a torn one *)
LEMMA FillUpdate ==
    ASSUME TypeOK, NEW i \in Ids, NEW rec \in ApprovalRequest, Fill(i, rec)
    PROVE  /\ file' \in [Ids -> ApprovalRequest]
           /\ file'[i] = rec \/ file'[i] = Blank("torn")
           /\ \A j \in Ids : j # i => file'[j] = file[j]
<1>1. PICK new \in Filled(file[i], rec) : file' = [file EXCEPT ![i] = new]
  BY DEF Fill
<1>2. new \in {rec, Blank("torn")}
  BY <1>1 DEF Filled
<1> QED
  BY <1>1, <1>2, BlankType, FileUpdate

----
(* Requests that are private *)

(* It is answered by a thread of its user's transport                      *)
LEMMA AnswererListens ==
    ASSUME IInv, NEW r \in Requests \ operated, NEW o \in Asking, SeenFrom(r, o), o[2] # Nobody,
           NEW a \in Actors, Answers(a, r)
    PROVE  a \in Threads /\ o[1] \in ChatsOf[a]
<1>1. a \in Handlers
  BY DEF IInv, SourceInv, Answers, Actors
<1>2. o[1] = task[a].chat /\ o[2] \in {Nobody, task[a].sender}
  BY <1>1 DEF IInv, AnswerInv
<1>3. <<task[a].chat, task[a].sender>> \in Origins(a)
  BY <1>1 DEF IInv, SourceInv, Answers
<1>4. task[a].sender # Nobody
  BY <1>2
<1> QED
  BY <1>1, <1>2, <1>3, <1>4 DEF Origins, Handlers

(* ... and there is one such thread                                        *)
LEMMA OneAnswers ==
    ASSUME IInv, NEW r \in Requests, Private(r), NEW a \in Actors, Answers(a, r)
    PROVE  /\ a \in Handlers
           /\ \A b \in Actors : Answers(b, r) => b = a
<1>1. PICK o \in Asking : SeenFrom(r, o) /\ o[2] # Nobody
  BY DEF Private
<1>2. r \in Requests \ operated
  BY DEF Private
<1>3. \A b \in Actors : Answers(b, r) => b \in Threads /\ o[1] \in ChatsOf[b]
  BY <1>1, <1>2, AnswererListens
<1> QED
  BY <1>3, ApprovalAssumption DEF Handlers

(* ... and while it is being answered, only that thread can run it         *)
LEMMA OneRuns ==
    ASSUME IInv, NEW r \in Requests, file[r].status # "missing",
           NEW a \in Actors, Running(a, r)
    PROVE  Answers(a, r)
<1>1. At(task[a].pick, task[a].rec) /\ task[a].rec.req = r
  BY DEF IInv, HomeInv, Running
<1> QED
  BY <1>1 DEF At, Answers, Answering, Running

----
(* Steps that touch no record *)

(* The counters and sets that the invariant says no more of than their type *)
Bookkeeping ==
    /\ buttons \in [Chats -> SUBSET Requests]
    /\ events \in 0..MaxEvents
    /\ crashes \in 0..MaxCrashes
    /\ operated \subseteq Ids
    /\ worked \subseteq Requests

Busy == {"picked", "running", "saving", "creating"}

(* Actors that do not run an action go on to do something else *)
LEMMA QuietStep ==
    ASSUME IInv, Bookkeeping', task' \in [Actors -> Task],
           UNCHANGED <<file, made, runs, excuse, operated>>,
           \A b \in Actors : \/ task'[b] = task[b]
                             \/ task[b].step # "running" /\ task'[b].step \notin Busy
    PROVE  IInv'
<1>1. \A b \in Actors :
          /\ task'[b].step \in Busy => task'[b] = task[b]
          /\ \A i \in Ids : InHand(b, i)' => InHand(b, i) /\ task'[b] = task[b]
          /\ \A r \in Requests : Running(b, r)' <=> Running(b, r)
  BY DEF Busy, InHand, Running
<1>2. TypeOK'
  BY <1>1 DEF IInv, TypeOK, Bookkeeping, Busy
<1>3. \A i \in Requests, o \in Asking : SeenFrom(i, o)' => SeenFrom(i, o)
  BY <1>1 DEF SeenFrom, Full, Ids
<1>4. OriginInv'
  BY <1>3 DEF IInv, OriginInv
<1>5. AnswerInv'
  BY <1>1, <1>3 DEF IInv, AnswerInv, Answers, Answering, Busy, Handlers, Actors
<1>6. HomeInv' /\ StepInv' /\ SavedInv'
  BY <1>1 DEF IInv, HomeInv, StepInv, SavedInv, At, Full, Busy
<1>7. FreshInv' /\ HandlerRunsOnce'
  BY DEF IInv, FreshInv, HandlerRunsOnce
<1>8. CreateInv'
  BY <1>1 DEF IInv, CreateInv, Busy, Ids
<1>9. PendingInv' /\ PickInv'
  BY <1>1 DEF IInv, PendingInv, PickInv, Busy, Handlers, Actors
<1>10. SourceInv'
  BY <1>1 DEF IInv, SourceInv, Answering, Busy, Handlers, Actors
<1>11. \A r \in Requests : Private(r)' => Private(r)
  BY <1>3 DEF Private
<1>12. PickedInv'
  BY <1>1, <1>11 DEF IInv, PickedInv, Busy, Handlers, Actors
<1>13. RefusedInv'
  <2>1. \A r \in Requests : Refused(r)' => Refused(r)
    BY <1>1 DEF Refused, Busy
  <2> QED
    BY <2>1, <1>11 DEF IInv, RefusedInv
<1> QED
  BY <1>2, <1>4, <1>5, <1>6, <1>7, <1>8, <1>9, <1>10, <1>12, <1>13 DEF IInv

(* An idle actor picks a request: a handler, a pending one it may answer *)
LEMMA PickStep ==
    ASSUME IInv, NEW a \in Actors, NEW new \in Task, Begin(a, new),
           new.step = "picked", new.pick \in Ids,
           file[new.pick].status # "missing",
           a \in Handlers => /\ file[new.pick].status = "pending"
                             /\ file[new.pick].chat = new.chat
                             /\ file[new.pick].owner \in {Nobody, new.sender}
                             /\ <<new.chat, new.sender>> \in Origins(a)
    PROVE  IInv'
<1>1. /\ task[a].step = "idle"
      /\ UNCHANGED <<file, made, buttons, crashes, runs, excuse, worked>>
      /\ events' \in 0..MaxEvents
      /\ operated' \subseteq Ids
  BY ApprovalAssumption DEF Begin, Idle, IInv, TypeOK
<1>2. /\ task' \in [Actors -> Task]
      /\ task'[a] = new
      /\ \A b \in Actors : b # a => task'[b] = task[b]
  BY TaskUpdate DEF Begin, IInv
<1>3. \A b \in Actors :
          /\ \A i \in Ids : InHand(b, i)' <=> InHand(b, i)
          /\ \A r \in Requests : Running(b, r)' <=> Running(b, r)
          /\ task'[b].step \in {"running", "saving", "creating"} => task'[b] = task[b]
  BY <1>1, <1>2 DEF InHand, Running
<1>4. TypeOK'
  BY <1>1, <1>2 DEF IInv, TypeOK
<1>5. \A i \in Requests, o \in Asking : SeenFrom(i, o)' => SeenFrom(i, o)
  BY <1>1, <1>3 DEF SeenFrom, Full, Ids, InHand
<1>6. OriginInv'
  BY <1>5 DEF IInv, OriginInv
<1>7. AnswerInv'
  <2> SUFFICES ASSUME NEW h \in Handlers, NEW i \in Requests, NEW o \in Asking,
                      Answers(h, i)', SeenFrom(i, o)
               PROVE  o[1] = task'[h].chat /\ o[2] \in {Nobody, task'[h].sender}
    BY <1>5 DEF AnswerInv
  <2>1. CASE h # a
    BY <2>1, <1>2 DEF IInv, AnswerInv, Answers, Handlers, Actors
  <2>2. CASE h = a
    <3> DEFINE q == <<file[new.pick].chat, file[new.pick].owner>>
    <3>1. new.pick = i
      BY <2>2, <1>2 DEF Answers
    <3>2. q \in Asking
      BY <1>1 DEF IInv, TypeOK, ApprovalRequest, Asking
    <3>3. SeenFrom(new.pick, q)
      BY <2>2 DEF SeenFrom, Full
    <3>4. o = q
      BY <3>1, <3>2, <3>3, <2>2, <1>2 DEF IInv, OriginInv
    <3> QED
      BY <3>4, <2>2, <1>2
  <2> QED
    BY <2>1, <2>2
<1>8. HomeInv' /\ StepInv' /\ SavedInv'
  BY <1>1, <1>2, <1>3 DEF IInv, HomeInv, StepInv, SavedInv, At, Full
<1>9. FreshInv' /\ HandlerRunsOnce'
  BY <1>1 DEF IInv, FreshInv, HandlerRunsOnce
<1>10. CreateInv'
  BY <1>1, <1>2, <1>3 DEF IInv, CreateInv, Ids
<1>11. PendingInv'
  BY <1>1, <1>3 DEF IInv, PendingInv
<1>12. PickInv'
  <2>1. \A r \in Requests : file[r].status = "pending" => runs[a][r] <= excuse[r]
    BY <1>1 DEF IInv, PendingInv, Running, TypeOK
  <2> QED
    BY <1>1, <1>2, <2>1 DEF IInv, PickInv, Handlers, Actors
<1>13. SourceInv'
  <2>1. \A o \in Operators : o \in Actors /\ o \notin Handlers
    BY ApprovalAssumption DEF Actors
  <2>2. /\ operated \subseteq operated'
        /\ a \in Operators => new.pick \in operated'
    BY DEF Begin
  <2>3. \A h \in Handlers : h \in Actors /\ Origins(h)' = Origins(h)
    BY DEF Actors, Origins
  <2> QED
    BY <1>2, <2>1, <2>2, <2>3 DEF IInv, SourceInv
<1>14. \A r \in Requests : Private(r)' => Private(r)
  BY <1>5 DEF Private, Begin
<1>15. PickedInv'
  BY <1>1, <1>2, <1>14 DEF IInv, PickedInv, Handlers, Actors
<1>16. RefusedInv'
  <2>1. \A r \in Requests : Refused(r)' => Refused(r)
    BY <1>1, <1>3 DEF Refused
  <2> QED
    BY <1>1, <1>14, <2>1 DEF IInv, RefusedInv
<1> QED
  BY <1>4, <1>6, <1>7, <1>8, <1>9, <1>10, <1>11, <1>12, <1>13, <1>15, <1>16 DEF IInv

----
(* Steps that answer a request *)

(* The record picked is loaded and its action starts: for a handler and a  *)
(* record of file r, that is the first time (PickInv)                      *)
LEMMA ApproveStep ==
    ASSUME IInv, NEW a \in Actors, Approve(a)
    PROVE  IInv'
<1> DEFINE i == task[a].pick
           r == file[i].req
           new == With(task[a], "running", file[i])
<1>1. /\ task[a].step = "picked"
      /\ task[a].pick = i
      /\ file[i].req = r
      /\ i \in Ids
      /\ file[i] \in ApprovalRequest
      /\ Full(i)
      /\ r \in 1..made
      /\ r \in Requests
      /\ At(i, file[i])
  <2>1. task[a].step = "picked" /\ i \in Ids /\ Full(i)
    BY DEF Approve, IInv, TypeOK, HomeInv, Full
  <2>2. file[i] \in ApprovalRequest /\ r \in 1..made /\ At(i, file[i])
    BY <2>1 DEF IInv, TypeOK, HomeInv, Full
  <2>3. r \in Requests
    BY <2>2, ApprovalAssumption DEF IInv, TypeOK, Requests
  <2> QED
    BY <2>1, <2>2, <2>3
<1>2. UNCHANGED <<file, made, buttons, events, crashes, operated, excuse, worked>>
  BY DEF Approve
<1>3. /\ new \in Task
      /\ new.step = "running" /\ new.rec = file[i] /\ new.rec.req = r /\ new.pick = i
      /\ new.chat = task[a].chat /\ new.sender = task[a].sender
  <2>1. task[a] \in Task /\ file[i] \in ApprovalRequest /\ file[i].req = r
    BY <1>1 DEF IInv, TypeOK
  <2> QED
    BY <2>1, TaskWith
<1>4. /\ task' \in [Actors -> Task]
      /\ task'[a] = new
      /\ \A b \in Actors : b # a => task'[b] = task[b]
  <2>1. task' = [task EXCEPT ![a] = new]
    BY DEF Approve, With
  <2> QED
    BY <1>3, <2>1, TaskUpdate DEF IInv
<1>5. /\ runs' \in [Actors -> [Requests -> Nat]]
      /\ runs'[a][r] = runs[a][r] + 1
      /\ \A b \in Actors, s \in Requests : b # a \/ s # r => runs'[b][s] = runs[b][s]
  <2>1. runs \in [Actors -> [Requests -> Nat]] /\ r \in Requests
    BY <1>1 DEF IInv, TypeOK
  <2>2. runs' = [runs EXCEPT ![a][r] = @ + 1]
    BY DEF Approve
  <2> HIDE DEF r
  <2> QED
    BY <2>1, <2>2
<1> HIDE DEF i, r, new
<1>6. /\ task'[a].step = "running" /\ task'[a].rec.req = r
      /\ \A b \in Actors, s \in Requests : b # a => (Running(b, s)' <=> Running(b, s))
      /\ \A s \in Requests : ~Running(a, s)
  BY <1>1, <1>3, <1>4 DEF Running
<1>7. \A b \in Actors, j \in Ids : InHand(b, j)' => InHand(b, j) \/ (b = a /\ j = i)
  BY <1>3, <1>4 DEF InHand
<1>8. TypeOK'
  BY <1>1, <1>2, <1>3, <1>4, <1>5 DEF IInv, TypeOK
<1>9. \A j \in Requests, o \in Asking : SeenFrom(j, o)' => SeenFrom(j, o)
  BY <1>1, <1>2, <1>3, <1>4, <1>7 DEF SeenFrom, Full, Ids, InHand
<1>10. OriginInv'
  BY <1>9 DEF IInv, OriginInv
<1>11. AnswerInv'
  <2>1. \A h \in Handlers :
            /\ task'[h].step \in Answering
            => /\ task[h].step \in Answering
               /\ task'[h].pick = task[h].pick
               /\ task'[h].chat = task[h].chat
               /\ task'[h].sender = task[h].sender
    BY <1>1, <1>3, <1>4 DEF Handlers, Actors, Answering
  <2> QED
    BY <1>9, <2>1 DEF IInv, AnswerInv, Answers
<1>12. HomeInv' /\ StepInv' /\ SavedInv'
  BY <1>1, <1>2, <1>3, <1>4 DEF IInv, HomeInv, StepInv, SavedInv, At, Full
<1>13. FreshInv'
  <2>1. \A s \in Requests : s > made => s # r
    BY <1>1, ApprovalAssumption DEF IInv, TypeOK, Requests
  <2> QED
    BY <2>1, <1>2, <1>5 DEF IInv, FreshInv
<1>14. \A s \in Requests : file[s].status # "missing" /\ i # s => r # s
  BY <1>1 DEF At
<1>15. CreateInv'
  <2> SUFFICES ASSUME NEW b \in Actors, NEW k \in Requests,
                      task'[b].step = "creating", task'[b].pick = k
               PROVE  /\ file'[k].status = "torn"
                      /\ \A c \in Actors : runs'[c][k] = 0 /\ (c # b => ~InHand(c, k)')
    BY DEF CreateInv, InHand
  <2>1. b # a /\ task'[b] = task[b]
    BY <1>3, <1>4
  <2>2. /\ file[k].status = "torn"
        /\ \A c \in Actors : runs[c][k] = 0 /\ (c # b => ~InHand(c, k))
    BY <2>1 DEF IInv, CreateInv
  <2>3. k # i /\ k # r
    BY <1>1, <1>14, <2>2 DEF Full
  <2> QED
    BY <1>2, <1>5, <1>7, <2>1, <2>2, <2>3 DEF Ids
<1>16. PendingInv'
  <2> SUFFICES ASSUME NEW s \in Requests, NEW b \in Actors, file[s].status = "pending"
               PROVE  runs'[b][s] <= excuse[s] + (IF Running(b, s)' THEN 1 ELSE 0)
    BY <1>2 DEF PendingInv
  <2>1. runs[b][s] <= excuse[s] + (IF Running(b, s) THEN 1 ELSE 0)
    BY DEF IInv, PendingInv
  <2>2. CASE b # a
    BY <2>1, <2>2, <1>5, <1>6
  <2>3. CASE b = a /\ s = r
    <3>1. runs[a][r] <= excuse[r] /\ runs[a][r] \in Nat /\ excuse[r] \in Nat
      BY <2>1, <2>3, <1>1, <1>6 DEF IInv, TypeOK
    <3>2. Running(b, s)'
      BY <2>3, <1>6 DEF Running
    <3> QED
      BY <3>1, <3>2, <2>3, <1>5
  <2>4. CASE b = a /\ s # r
    <3>1. runs[a][s] <= excuse[s] /\ runs[a][s] \in Nat /\ excuse[s] \in Nat
      BY <2>1, <2>4, <1>6 DEF IInv, TypeOK
    <3> QED
      BY <3>1, <2>4, <1>5
  <2> QED
    BY <2>2, <2>3, <2>4
<1>17. PickInv'
  BY <1>2, <1>3, <1>4, <1>5 DEF IInv, PickInv, Handlers, Actors
<1>18. HandlerRunsOnce'
  <2> SUFFICES ASSUME NEW h \in Handlers, NEW s \in Requests, file[s].status # "missing"
               PROVE  runs'[h][s] <= 1 + excuse[s]
    BY <1>2 DEF HandlerRunsOnce
  <2>1. CASE h = a /\ s = r
    <3>1. i = s
      BY <2>1, <1>14
    <3>2. runs[a][s] <= excuse[s] /\ runs[a][s] \in Nat /\ excuse[s] \in Nat
      BY <2>1, <3>1, <1>1 DEF IInv, PickInv, TypeOK
    <3> QED
      BY <2>1, <3>2, <1>5
  <2>2. CASE ~(h = a /\ s = r)
    BY <2>2, <1>5 DEF IInv, HandlerRunsOnce, Handlers, Actors
  <2> QED
    BY <2>1, <2>2
<1>19. SourceInv'
  <2>1. Answers(a, i) /\ \A o \in Operators : o \in Actors
    BY <1>1 DEF Answers, Answering, Actors
  <2>2. \A b \in Actors :
            /\ task'[b].step \in Answering
            => /\ task[b].step \in Answering
               /\ task'[b].pick = task[b].pick
               /\ task'[b].chat = task[b].chat
               /\ task'[b].sender = task[b].sender
    BY <1>1, <1>3, <1>4 DEF Answering
  <2> QED
    BY <1>2, <2>1, <2>2 DEF IInv, SourceInv, Handlers, Actors
<1>20. \A s \in Requests : Private(s)' => Private(s)
  BY <1>2, <1>9 DEF Private
<1>21. PickedInv'
  BY <1>2, <1>3, <1>4, <1>20 DEF IInv, PickedInv, Handlers, Actors
<1>22. RefusedInv'
  <2> SUFFICES ASSUME NEW s \in Requests, NEW h \in Handlers, Private(s), Refused(s)'
               PROVE  runs'[h][s] <= excuse[s]
    BY <1>2, <1>20 DEF RefusedInv
  <2>1. Refused(s)
    BY <1>2, <1>3, <1>4 DEF Refused
  <2>2. file[s].status # "missing"
    BY <2>1 DEF Refused, IInv, HomeInv
  <2>3. s # r
    <3> SUFFICES ASSUME s = r
                 PROVE  FALSE
      OBVIOUS
    <3>1. i = s
      BY <1>14, <2>2
    <3>2. Answers(a, s)
      BY <1>1, <3>1 DEF Answers, Answering
    <3>3. a \in Handlers /\ \A b \in Actors : Answers(b, s) => b = a
      BY <3>2, OneAnswers
    <3>4. file[s].status = "pending"
      BY <1>1, <3>1, <3>3 DEF IInv, PickedInv
    <3> QED
      BY <1>1, <2>1, <3>3, <3>4 DEF Refused, Answers, Answering
  <2> QED
    BY <1>5, <2>1, <2>3 DEF IInv, RefusedInv, Handlers, Actors
<1> QED
  BY <1>8, <1>10, <1>11, <1>12, <1>13, <1>15, <1>16, <1>17, <1>18, <1>19, <1>21, <1>22
  DEF IInv

(* The outcome begins to be written: the file is torn, and reads neither   *)
(* "pending" nor anything else                                             *)
LEMMA RecordStep ==
    ASSUME IInv, NEW a \in Actors, NEW rec \in ApprovalRequest, NEW status \in Final,
           Record(a, rec, status), worked' \subseteq Requests,
           \/ /\ task[a].step = "picked"
              /\ Full(task[a].pick)
              /\ rec = file[task[a].pick]
           \/ /\ task[a].step = "running"
              /\ rec = task[a].rec
              /\ status # "cancel"
    PROVE  IInv'
<1> DEFINE i == task[a].pick
           out == [rec EXCEPT !.status = status]
           new == With(task[a], "saving", out)
<1>0. \/ task[a].step = "picked" /\ Full(i) /\ rec = file[i]
      \/ InHand(a, i) /\ rec = task[a].rec
  BY DEF InHand
<1>1. /\ i \in Ids
      /\ file[i].status # "missing"
      /\ rec.req \in 1..made
      /\ At(i, rec)
  BY DEF IInv, TypeOK, HomeInv, Full
<1>2. UNCHANGED <<made, buttons, events, crashes, runs, operated, excuse>>
  BY DEF Record
<1>3. /\ new \in Task
      /\ new.step = "saving" /\ new.pick = i
      /\ new.rec.status = status /\ new.rec.req = rec.req
      /\ new.rec.chat = rec.chat /\ new.rec.owner = rec.owner
      /\ new.chat = task[a].chat /\ new.sender = task[a].sender
  <2>1. /\ out \in ApprovalRequest
        /\ out.status = status /\ out.req = rec.req
        /\ out.chat = rec.chat /\ out.owner = rec.owner
    BY DEF ApprovalRequest
  <2>2. task[a] \in Task
    BY DEF IInv, TypeOK
  <2> HIDE DEF out
  <2> QED
    BY <2>1, <2>2, TaskWith
<1>4. /\ task' \in [Actors -> Task]
      /\ task'[a] = new
      /\ \A b \in Actors : b # a => task'[b] = task[b]
  <2>1. task' = [task EXCEPT ![a] = new]
    BY DEF Record, With
  <2> QED
    BY <1>3, <2>1, TaskUpdate DEF IInv
<1>5. /\ file' \in [Ids -> ApprovalRequest]
      /\ file'[i].status = "torn"
      /\ \A j \in Ids : j # i => file'[j] = file[j]
  BY <1>1, BlankType, FileUpdate DEF Record, IInv
<1>6. Answers(a, i)
  BY DEF Answers, Answering
<1> HIDE DEF i, new, out
<1>7. \A j \in Ids : file'[j].status = "missing" <=> file[j].status = "missing"
  BY <1>1, <1>5
<1>8. \A b \in Actors, j \in Ids : InHand(b, j)' => InHand(b, j) \/ (b = a /\ j = i)
  BY <1>3, <1>4 DEF InHand
<1>9. TypeOK'
  BY <1>1, <1>2, <1>3, <1>4, <1>5 DEF IInv, TypeOK
<1>10. \A j \in Requests, o \in Asking : SeenFrom(j, o)' => SeenFrom(j, o)
  <2> SUFFICES ASSUME NEW j \in Requests, NEW o \in Asking, SeenFrom(j, o)'
               PROVE  SeenFrom(j, o)
    OBVIOUS
  <2>1. j \in Ids
    BY DEF Ids
  <2>2. CASE Full(j)' /\ o = <<file'[j].chat, file'[j].owner>>
    BY <2>1, <2>2, <1>5 DEF SeenFrom, Full
  <2>3. ASSUME NEW b \in Actors, InHand(b, j)', o = <<task'[b].rec.chat, task'[b].rec.owner>>
        PROVE  SeenFrom(j, o)
    <3>1. CASE b # a
      BY <2>3, <3>1, <1>4 DEF SeenFrom, InHand
    <3>2. CASE b = a
      <4>1. j = i
        BY <2>3, <3>2, <1>3, <1>4 DEF InHand
      <4>2. o = <<rec.chat, rec.owner>>
        BY <2>3, <3>2, <1>3, <1>4
      <4> QED
        BY <4>1, <4>2, <1>0 DEF SeenFrom
    <3> QED
      BY <3>1, <3>2
  <2> QED
    BY <2>2, <2>3 DEF SeenFrom
<1>11. OriginInv'
  BY <1>10 DEF IInv, OriginInv
<1>12. AnswerInv'
  <2>1. \A h \in Handlers :
            task'[h].step \in Answering
            => /\ task[h].step \in Answering
               /\ task'[h].pick = task[h].pick
               /\ task'[h].chat = task[h].chat
               /\ task'[h].sender = task[h].sender
    BY <1>3, <1>4, <1>6 DEF Handlers, Actors, Answers
  <2> QED
    BY <1>10, <2>1 DEF IInv, AnswerInv, Answers
<1>13. HomeInv'
  <2>1. ASSUME NEW j \in Ids, NEW x \in ApprovalRequest, x.req \in 1..made, At(j, x)
        PROVE  At(j, x)'
    <3>1. x.req \in Ids
      BY <2>1, ApprovalAssumption DEF IInv, TypeOK, Ids, Requests
    <3> QED
      BY <2>1, <3>1, <1>7 DEF At
  <2>2. ASSUME NEW j \in Ids, Full(j)'
        PROVE  At(j, file[j])'
    <3>1. file'[j] = file[j] /\ file[j] \in ApprovalRequest /\ file[j].req \in 1..made
      BY <2>2, <1>5 DEF IInv, TypeOK, Full
    <3>2. At(j, file[j])
      BY <2>2, <3>1 DEF IInv, HomeInv, Full
    <3> QED
      BY <2>1, <3>1, <3>2 DEF At
  <2>3. ASSUME NEW b \in Actors, task'[b].step \in {"running", "saving", "creating"}
        PROVE  At(task[b].pick, task[b].rec)'
    <3>1. CASE b = a
      BY <3>1, <2>1, <1>1, <1>3, <1>4 DEF At
    <3>2. CASE b # a
      <4>1. /\ task'[b] = task[b]
            /\ task[b].pick \in Ids /\ task[b].rec \in ApprovalRequest
            /\ task[b].rec.req \in 1..made
        BY <3>2, <2>3, <1>4 DEF IInv, TypeOK, Task
      <4>2. At(task[b].pick, task[b].rec)
        BY <2>3, <4>1 DEF IInv, HomeInv
      <4> QED
        BY <2>1, <4>1, <4>2 DEF At
    <3> QED
      BY <3>1, <3>2
  <2>4. \A b \in Actors :
            task'[b].step \in {"picked", "running", "saving", "creating"}
                => file'[task'[b].pick].status # "missing"
    BY <1>1, <1>3, <1>4, <1>7 DEF IInv, HomeInv, TypeOK
  <2> QED
    BY <2>2, <2>3, <2>4 DEF HomeInv
<1>14. StepInv' /\ FreshInv' /\ HandlerRunsOnce'
  BY <1>2, <1>3, <1>4, <1>7 DEF IInv, StepInv, FreshInv, HandlerRunsOnce, Ids
<1>15. CreateInv'
  <2> SUFFICES ASSUME NEW b \in Actors, NEW k \in Requests,
                      task'[b].step = "creating", task'[b].pick = k
               PROVE  /\ file'[k].status = "torn"
                      /\ \A c \in Actors : runs'[c][k] = 0 /\ (c # b => ~InHand(c, k)')
    BY DEF CreateInv, InHand
  <2>1. b # a /\ task'[b] = task[b]
    BY <1>3, <1>4
  <2>2. /\ file[k].status = "torn"
        /\ \A c \in Actors : runs[c][k] = 0 /\ (c # b => ~InHand(c, k))
    BY <2>1 DEF IInv, CreateInv
  <2>3. k # i
    BY <1>0, <2>1, <2>2 DEF Full, InHand
  <2> QED
    BY <1>2, <1>5, <1>8, <2>1, <2>2, <2>3 DEF Ids
<1>16. PendingInv'
  <2>1. \A s \in Requests : file'[s].status = "pending" => file[s].status = "pending" /\ s # i
    BY <1>5 DEF Ids
  <2>2. \A s \in Requests : Running(a, s) /\ file[s].status # "missing" => s = i
    BY <1>1 DEF Running, IInv, HomeInv, At
  <2>3. \A b \in Actors, s \in Requests : b # a => (Running(b, s)' <=> Running(b, s))
    BY <1>4 DEF Running
  <2>4. \A s \in Requests : file'[s].status = "pending" => ~Running(a, s)
    BY <2>1, <2>2
  <2> SUFFICES ASSUME NEW s \in Requests, NEW b \in Actors, file'[s].status = "pending"
               PROVE  runs[b][s] <= excuse[s] + (IF Running(b, s)' THEN 1 ELSE 0)
    BY <1>2 DEF PendingInv
  <2>5. runs[b][s] <= excuse[s] + (IF Running(b, s) THEN 1 ELSE 0)
    BY <2>1 DEF IInv, PendingInv
  <2>6. runs[b][s] \in Nat /\ excuse[s] \in Nat
    BY DEF IInv, TypeOK
  <2>7. CASE b # a
    BY <2>3, <2>5, <2>7
  <2>8. CASE b = a
    BY <2>4, <2>5, <2>6, <2>8
  <2> QED
    BY <2>7, <2>8
<1>17. PickInv'
  BY <1>2, <1>3, <1>4 DEF IInv, PickInv, Handlers, Actors
<1>18. SourceInv'
  <2>1. \A b \in Actors :
            /\ task'[b].step \in Answering
            => /\ task[b].step \in Answering
               /\ task'[b].pick = task[b].pick
               /\ task'[b].chat = task[b].chat
               /\ task'[b].sender = task[b].sender
    BY <1>3, <1>4, <1>6 DEF Answers
  <2> QED
    BY <1>2, <2>1 DEF IInv, SourceInv, Handlers, Actors
<1>19. \A s \in Requests : Private(s)' => Private(s)
  BY <1>2, <1>10 DEF Private
<1>20. ASSUME NEW s \in Requests, Private(s), s = i
       PROVE  a \in Handlers /\ \A b \in Actors : Answers(b, s) => b = a
  BY <1>6, <1>20, OneAnswers
<1>21. PickedInv'
  <2> SUFFICES ASSUME NEW h \in Handlers, NEW s \in Requests, Private(s),
                      task'[h].step = "picked", task'[h].pick = s
               PROVE  file'[s].status = "pending"
    BY <1>19 DEF PickedInv
  <2>1. h \in Actors /\ s \in Ids /\ h # a /\ task'[h] = task[h]
    BY <1>3, <1>4 DEF Handlers, Actors, Ids
  <2>2. Answers(h, s) /\ file[s].status = "pending"
    BY <2>1 DEF Answers, Answering, IInv, PickedInv
  <2> QED
    BY <2>1, <2>2, <1>5, <1>20
<1>22. RefusedInv'
  <2> SUFFICES ASSUME NEW s \in Requests, NEW h \in Handlers, Private(s), Refused(s)'
               PROVE  runs[h][s] <= excuse[s]
    BY <1>2, <1>19 DEF RefusedInv
  <2>1. Refused(s) \/ (s = i /\ status = "cancel")
    BY <1>3, <1>4, <1>5 DEF Refused, Ids
  <2>2. ASSUME s = i, status = "cancel"
        PROVE  runs[h][s] <= excuse[s]
    <3>1. task[a].step = "picked" /\ task[a].pick = s
      BY <2>2 DEF i
    <3>2. a \in Handlers /\ \A b \in Actors : Answers(b, s) => b = a
      BY <2>2, <1>20
    <3>3. file[s].status = "pending"
      BY <3>1, <3>2 DEF IInv, PickedInv
    <3>4. ~Running(h, s)
      BY <3>1, <3>2, <3>3, OneRuns DEF Running, Handlers, Actors
    <3> QED
      BY <3>3, <3>4 DEF IInv, PendingInv, TypeOK, Handlers, Actors
  <2> QED
    BY <2>1, <2>2 DEF IInv, RefusedInv
<1>23. SavedInv'
  BY <1>3, <1>4, <1>5 DEF IInv, SavedInv, Ids
<1> QED
  BY <1>9, <1>11, <1>12, <1>13, <1>14, <1>15, <1>16, <1>17, <1>18, <1>21, <1>22, <1>23
  DEF IInv

(* A file is filled: with the outcome of an answer, or with a new request, *)
(* whose action nobody has run yet                                         *)
LEMMA FillStep ==
    ASSUME IInv, Bookkeeping', NEW a \in Actors, NEW new \in Task,
           task[a].step \in {"saving", "creating"},
           Fill(task[a].pick, task[a].rec),
           task' = [task EXCEPT ![a] = new],
           new.step \notin Busy,
           UNCHANGED <<made, runs, excuse, operated>>
    PROVE  IInv'
<1> DEFINE i == task[a].pick
           rec == task[a].rec
<1>1. /\ task[a].pick = i /\ task[a].rec = rec
      /\ i \in Ids
      /\ file[i].status # "missing"
      /\ rec \in ApprovalRequest
      /\ rec.req \in 1..made
      /\ At(i, rec)
      /\ rec.status # "missing"
      /\ InHand(a, i)
  BY DEF IInv, TypeOK, Task, HomeInv, StepInv, InHand, Final
<1>2. /\ task' \in [Actors -> Task]
      /\ task'[a] = new
      /\ \A b \in Actors : b # a => task'[b] = task[b]
  BY TaskUpdate DEF IInv
<1>3. /\ file' \in [Ids -> ApprovalRequest]
      /\ file'[i] = rec \/ file'[i].status = "torn"
      /\ \A j \in Ids : j # i => file'[j] = file[j]
  BY <1>1, FillUpdate, BlankType DEF IInv
<1> HIDE DEF i, rec
<1>4. \A j \in Ids : file'[j].status = "missing" <=> file[j].status = "missing"
  BY <1>1, <1>3
<1>5. \A b \in Actors :
          /\ task'[b].step \in Busy => b # a /\ task'[b] = task[b]
          /\ \A j \in Ids : InHand(b, j)' => InHand(b, j) /\ b # a
          /\ \A r \in Requests : Running(b, r)' <=> Running(b, r)
  BY <1>2 DEF Busy, InHand, Running
<1>6. TypeOK'
  BY <1>1, <1>2, <1>3, <1>5 DEF IInv, TypeOK, Bookkeeping, Busy
<1>7. \A j \in Requests, o \in Asking : SeenFrom(j, o)' => SeenFrom(j, o)
  <2> SUFFICES ASSUME NEW j \in Requests, NEW o \in Asking, SeenFrom(j, o)'
               PROVE  SeenFrom(j, o)
    OBVIOUS
  <2>1. j \in Ids
    BY DEF Ids
  <2>2. ASSUME Full(j)', o = <<file'[j].chat, file'[j].owner>>
        PROVE  SeenFrom(j, o)
    <3>1. CASE j # i
      BY <2>1, <2>2, <3>1, <1>3 DEF SeenFrom, Full
    <3>2. CASE j = i
      BY <2>2, <3>2, <1>1, <1>3 DEF SeenFrom, Full
    <3> QED
      BY <3>1, <3>2
  <2>3. ASSUME NEW b \in Actors, InHand(b, j)', o = <<task'[b].rec.chat, task'[b].rec.owner>>
        PROVE  SeenFrom(j, o)
    BY <2>1, <2>3, <1>2, <1>5 DEF SeenFrom
  <2> QED
    BY <2>2, <2>3 DEF SeenFrom
<1>8. OriginInv'
  BY <1>7 DEF IInv, OriginInv
<1>9. AnswerInv'
  BY <1>5, <1>7 DEF IInv, AnswerInv, Answers, Answering, Handlers, Actors, Busy
<1>10. HomeInv'
  <2>1. ASSUME NEW j \in Ids, NEW x \in ApprovalRequest, x.req \in 1..made, At(j, x)
        PROVE  At(j, x)'
    <3>1. x.req \in Ids
      BY <2>1, ApprovalAssumption DEF IInv, TypeOK, Ids, Requests
    <3> QED
      BY <2>1, <3>1, <1>4 DEF At
  <2>2. ASSUME NEW j \in Ids, Full(j)'
        PROVE  At(j, file[j])'
    <3>1. CASE j # i
      <4>1. file'[j] = file[j] /\ file[j] \in ApprovalRequest /\ file[j].req \in 1..made
        BY <2>2, <3>1, <1>3 DEF IInv, TypeOK, Full
      <4>2. At(j, file[j])
        BY <2>2, <4>1 DEF IInv, HomeInv, Full
      <4> QED
        BY <2>1, <4>1, <4>2 DEF At
    <3>2. CASE j = i
      <4>1. file'[j] = rec
        BY <2>2, <3>2, <1>3 DEF Full
      <4> QED
        BY <2>1, <3>2, <4>1, <1>1 DEF At
    <3> QED
      BY <3>1, <3>2
  <2>3. ASSUME NEW b \in Actors, task'[b].step \in {"running", "saving", "creating"}
        PROVE  At(task[b].pick, task[b].rec)'
    <3>1. /\ task'[b] = task[b]
          /\ task[b].pick \in Ids /\ task[b].rec \in ApprovalRequest
          /\ task[b].rec.req \in 1..made
      BY <2>3, <1>5 DEF IInv, TypeOK, Task, Busy
    <3>2. At(task[b].pick, task[b].rec)
      BY <2>3, <3>1 DEF IInv, HomeInv
    <3> QED
      BY <2>1, <3>1, <3>2 DEF At
  <2>4. \A b \in Actors :
            task'[b].step \in {"picked", "running", "saving", "creating"}
                => file'[task'[b].pick].status # "missing"
    BY <1>4, <1>5 DEF IInv, HomeInv, TypeOK, Busy
  <2> QED
    BY <2>2, <2>3, <2>4 DEF HomeInv
<1>11. StepInv' /\ FreshInv' /\ HandlerRunsOnce'
  BY <1>4, <1>5 DEF IInv, StepInv, FreshInv, HandlerRunsOnce, Ids, Busy
<1>12. CreateInv'
  <2> SUFFICES ASSUME NEW b \in Actors, NEW k \in Requests,
                      task'[b].step = "creating", task'[b].pick = k
               PROVE  /\ file'[k].status = "torn"
                      /\ \A c \in Actors : runs'[c][k] = 0 /\ (c # b => ~InHand(c, k)')
    BY DEF CreateInv, InHand
  <2>1. b # a /\ task'[b] = task[b]
    BY <1>5 DEF Busy
  <2>2. /\ file[k].status = "torn"
        /\ \A c \in Actors : runs[c][k] = 0 /\ (c # b => ~InHand(c, k))
    BY <2>1 DEF IInv, CreateInv
  <2>3. k # i
    BY <2>1, <2>2, <1>1
  <2> QED
    BY <1>3, <1>5, <2>1, <2>2, <2>3 DEF Ids
<1>13. PendingInv'
  <2> SUFFICES ASSUME NEW s \in Requests, NEW b \in Actors, file'[s].status = "pending"
               PROVE  runs[b][s] <= excuse[s] + (IF Running(b, s) THEN 1 ELSE 0)
    BY <1>5 DEF PendingInv
  <2>1. CASE s # i
    BY <2>1, <1>3 DEF IInv, PendingInv, Ids
  <2>2. CASE s = i
    <3>1. rec.status = "pending"
      BY <2>2, <1>3
    <3>2. task[a].step = "creating"
      BY <3>1, <1>1 DEF IInv, StepInv, Final
    <3>3. runs[b][s] = 0 /\ excuse[s] \in Nat
      BY <2>2, <3>2, <1>1 DEF IInv, CreateInv, TypeOK
    <3> QED
      BY <3>3
  <2> QED
    BY <2>1, <2>2
<1>14. PickInv'
  BY <1>5 DEF IInv, PickInv, Handlers, Actors, Busy
<1>15. SourceInv'
  BY <1>5 DEF IInv, SourceInv, Answering, Busy, Handlers, Actors
<1>16. \A s \in Requests : Private(s)' => Private(s)
  BY <1>7 DEF Private
<1>17. PickedInv'
  <2> SUFFICES ASSUME NEW h \in Handlers, NEW s \in Requests, Private(s),
                      task'[h].step = "picked", task'[h].pick = s
               PROVE  file'[s].status = "pending"
    BY <1>16 DEF PickedInv
  <2>1. h \in Actors /\ s \in Ids /\ h # a /\ task'[h] = task[h]
    BY <1>5 DEF Handlers, Actors, Ids, Busy
  <2>2. Answers(h, s) /\ file[s].status = "pending"
    BY <2>1 DEF Answers, Answering, IInv, PickedInv
  <2>3. s # i
    <3> SUFFICES ASSUME s = i
                 PROVE  FALSE
      OBVIOUS
    <3>1. task[a].step # "creating"
      BY <2>2, <1>1 DEF IInv, CreateInv
    <3>2. Answers(a, s)
      BY <3>1, <1>1 DEF Answers, Answering
    <3> QED
      BY <2>1, <2>2, <3>2, OneAnswers
  <2> QED
    BY <2>1, <2>2, <2>3, <1>3
<1>18. RefusedInv'
  <2>1. ASSUME NEW s \in Requests, Refused(s)'
        PROVE  Refused(s)
    <3>1. CASE s = i /\ file'[s].status = "cancel"
      <4>1. rec.status = "cancel"
        BY <3>1, <1>3
      <4>2. task[a].step = "saving"
        BY <4>1, <1>1 DEF IInv, StepInv
      <4> QED
        BY <3>1, <4>1, <4>2, <1>1 DEF Refused
    <3>2. CASE ~(s = i /\ file'[s].status = "cancel")
      BY <2>1, <3>2, <1>3, <1>5 DEF Refused, Ids, Busy
    <3> QED
      BY <3>1, <3>2
  <2> QED
    BY <1>16, <2>1 DEF IInv, RefusedInv
<1>19. SavedInv'
  <2> SUFFICES ASSUME NEW b \in Actors, NEW k \in Requests,
                      task'[b].step = "saving", task'[b].pick = k
               PROVE  file'[k].status # "pending"
    BY DEF SavedInv
  <2>1. k \in Ids /\ b # a /\ task'[b] = task[b] /\ InHand(b, k)
    BY <1>5 DEF Busy, Ids, InHand
  <2>2. file[k].status # "pending"
    BY <2>1 DEF IInv, SavedInv
  <2>3. CASE k = i
    <3>1. task[a].step # "creating"
      BY <2>1, <2>3, <1>1 DEF IInv, CreateInv
    <3>2. rec.status \in Final
      BY <3>1, <1>1 DEF IInv, StepInv
    <3> QED
      BY <2>3, <3>2, <1>3 DEF Final
  <2> QED
    BY <2>1, <2>2, <2>3, <1>3
<1> QED
  BY <1>6, <1>8, <1>9, <1>10, <1>11, <1>12, <1>13, <1>14, <1>15, <1>17, <1>18, <1>19
  DEF IInv

----
(* A turn asks for an approval, under a fresh id or under the assistant's  *)
LEMMA AskStep ==
    ASSUME IInv, NEW a \in Handlers, Ask(a)
    PROVE  IInv'
<1> DEFINE n == made + 1
<1>1. PICK i \in {n} \cup NamedIds, owner \in {task[a].sender} \cup Claims,
           after \in After, asked \in {task[a].asked, n} :
          /\ Write(a, i, owner, after, asked)
          /\ made' = n
  BY DEF Ask
<1>2. /\ n \in Requests /\ n \in Ids
      /\ i \in Ids
      /\ i \in NamedIds => i \notin Requests
      /\ i \notin NamedIds => i = n
      /\ made' = n /\ made \in Nat
      /\ \A r \in 1..made : r # i /\ r # n /\ r \in Requests
      /\ a \in Actors
      /\ task[a].step = "turn"
  BY <1>1, ApprovalAssumption DEF Write, IInv, TypeOK, Requests, Ids, Actors
<1>3. UNCHANGED <<buttons, events, crashes, runs, operated, excuse, worked>>
  BY <1>1 DEF Write, history
<1> DEFINE rec == [status |-> "pending", req |-> n, chat |-> task[a].chat,
                   owner |-> owner, after |-> after]
           new == [task[a] EXCEPT !.step = "creating", !.pick = i, !.asked = asked, !.rec = rec]
<1>4. /\ rec \in ApprovalRequest
      /\ rec.status = "pending" /\ rec.req = n
      /\ rec.chat = task[a].chat /\ rec.owner = owner
  BY <1>2, ApprovalAssumption DEF ApprovalRequest, IInv, TypeOK, Task, Requests
<1>5. /\ new \in Task
      /\ new.step = "creating" /\ new.pick = i /\ new.rec = rec
  <2>1. asked \in Requests \cup {NoId} /\ task[a] \in Task
    BY <1>2 DEF IInv, TypeOK, Task
  <2> HIDE DEF rec
  <2> QED
    BY <2>1, <1>2, <1>4 DEF Task
<1> HIDE DEF rec
<1>6. /\ task' \in [Actors -> Task]
      /\ task'[a] = new
      /\ \A b \in Actors : b # a => task'[b] = task[b]
  <2>1. task' = [task EXCEPT ![a] = new]
    BY <1>1 DEF Write, rec
  <2> HIDE DEF new
  <2> QED
    BY <2>1, <1>2, <1>5, TaskUpdate DEF IInv
<1>7. /\ file' \in [Ids -> ApprovalRequest]
      /\ file'[i].status = "torn"
      /\ \A j \in Ids : j # i => file'[j] = file[j]
  BY <1>1, <1>2, BlankType, FileUpdate DEF Write, IInv
<1>8. /\ file[n].status = "missing"
      /\ \A b \in Actors : runs[b][n] = 0
      /\ \A b \in Actors : task[b].step \in Busy => task[b].pick # n
      /\ \A b \in Actors : ~InHand(b, n)
  BY <1>2 DEF IInv, FreshInv, HomeInv, Busy, InHand
<1> HIDE DEF n, new
<1>9. /\ \A j \in Ids : file'[j].status = "missing" <=> file[j].status = "missing" /\ j # i
      /\ \A b \in Actors, j \in Ids : InHand(b, j)' <=> InHand(b, j) \/ (b = a /\ j = i)
      /\ \A b \in Actors, r \in Requests : Running(b, r)' <=> Running(b, r)
  BY <1>2, <1>5, <1>6, <1>7 DEF InHand, Running
<1>10. TypeOK'
  <2>1. /\ made' \in 0..MaxRequests
        /\ \A r \in 1..made : r \in 1..n
        /\ n \in 1..n
    BY <1>2, ApprovalAssumption DEF n, Requests
  <2> QED
    BY <2>1, <1>2, <1>3, <1>4, <1>5, <1>6, <1>7 DEF IInv, TypeOK
<1>11. ASSUME NEW j \in Requests, NEW o \in Asking, SeenFrom(j, o)'
       PROVE  \/ j # n /\ SeenFrom(j, o)
              \/ j = n /\ i = n /\ o = <<rec.chat, rec.owner>>
  <2>1. j \in Ids /\ (j # n => j # i)
    BY <1>2 DEF Ids
  <2>2. CASE Full(j)' /\ o = <<file'[j].chat, file'[j].owner>>
    <3>1. j # i /\ file'[j] = file[j]
      BY <2>1, <2>2, <1>7 DEF Full
    <3>2. j # n
      BY <3>1, <2>2, <1>8 DEF Full
    <3> QED
      BY <3>1, <3>2, <2>2 DEF SeenFrom, Full
  <2>3. ASSUME NEW b \in Actors, InHand(b, j)', o = <<task'[b].rec.chat, task'[b].rec.owner>>
        PROVE  \/ j # n /\ SeenFrom(j, o)
               \/ j = n /\ i = n /\ o = <<rec.chat, rec.owner>>
    <3>1. CASE b = a
      BY <3>1, <2>1, <2>3, <1>2, <1>5, <1>6 DEF InHand
    <3>2. CASE b # a
      <4>1. InHand(b, j) /\ task'[b] = task[b]
        BY <3>2, <2>1, <2>3, <1>6, <1>9
      <4> QED
        BY <4>1, <2>3, <1>8 DEF SeenFrom
    <3> QED
      BY <3>1, <3>2
  <2>4. \/ Full(j)' /\ o = <<file'[j].chat, file'[j].owner>>
        \/ \E b \in Actors : InHand(b, j)' /\ o = <<task'[b].rec.chat, task'[b].rec.owner>>
    BY <1>11 DEF SeenFrom
  <2> QED
    BY <2>2, <2>3, <2>4
<1>12. OriginInv'
  BY <1>11 DEF IInv, OriginInv
<1>13. AnswerInv'
  <2> SUFFICES ASSUME NEW h \in Handlers, NEW o \in Asking, NEW j \in Requests,
                      Answers(h, j)', SeenFrom(j, o)'
               PROVE  o[1] = task'[h].chat /\ o[2] \in {Nobody, task'[h].sender}
    BY DEF AnswerInv
  <2>1. h \in Actors /\ h # a /\ task'[h] = task[h]
    BY <1>5, <1>6 DEF Actors, Answers, Answering
  <2>2. j # n
    BY <2>1, <1>8 DEF Busy, Answers, Answering
  <2> QED
    BY <2>1, <2>2, <1>11 DEF IInv, AnswerInv, Answers
<1>14. HomeInv'
  <2>1. ASSUME NEW j \in Ids, NEW x \in ApprovalRequest, x.req \in 1..made, At(j, x)
        PROVE  At(j, x)'
    <3>1. x.req \in Ids /\ x.req # i
      BY <2>1, <1>2 DEF Ids
    <3> QED
      BY <2>1, <3>1, <1>9 DEF At
  <2>2. /\ i \in Requests => rec.req = i
        /\ i \notin Requests => file'[rec.req].status = "missing"
    BY <1>2, <1>4, <1>7, <1>8
  <2>3. ASSUME NEW j \in Ids, Full(j)'
        PROVE  At(j, file[j])'
    <3>1. file'[j] = file[j] /\ file[j] \in ApprovalRequest /\ file[j].req \in 1..made
      BY <2>3, <1>7 DEF IInv, TypeOK, Full
    <3>2. At(j, file[j])
      BY <2>3, <3>1 DEF IInv, HomeInv, Full
    <3> QED
      BY <2>1, <3>1, <3>2 DEF At
  <2>4. ASSUME NEW b \in Actors, task'[b].step \in {"running", "saving", "creating"}
        PROVE  At(task[b].pick, task[b].rec)'
    <3>1. CASE b = a
      BY <3>1, <2>2, <1>5, <1>6 DEF At
    <3>2. CASE b # a
      <4>1. /\ task'[b] = task[b]
            /\ task[b].pick \in Ids /\ task[b].rec \in ApprovalRequest
            /\ task[b].rec.req \in 1..made
        BY <3>2, <2>4, <1>6 DEF IInv, TypeOK, Task
      <4>2. At(task[b].pick, task[b].rec)
        BY <2>4, <4>1 DEF IInv, HomeInv
      <4> QED
        BY <2>1, <4>1, <4>2 DEF At
    <3> QED
      BY <3>1, <3>2
  <2>5. \A b \in Actors :
            task'[b].step \in {"picked", "running", "saving", "creating"}
                => file'[task'[b].pick].status # "missing"
    BY <1>2, <1>5, <1>6, <1>7, <1>9 DEF IInv, HomeInv, TypeOK
  <2> QED
    BY <2>3, <2>4, <2>5 DEF HomeInv
<1>15. StepInv'
  BY <1>4, <1>5, <1>6 DEF IInv, StepInv
<1>16. FreshInv'
  <2> SUFFICES ASSUME NEW r \in Requests, r > n
               PROVE  file'[r].status = "missing" /\ \A b \in Actors : runs[b][r] = 0
    BY <1>2, <1>3 DEF FreshInv
  <2>1. r > made /\ r # n
    BY <1>2 DEF n, Requests
  <2>2. r # i /\ r \in Ids
    BY <2>1, <1>2 DEF Ids
  <2> QED
    BY <2>1, <2>2, <1>9 DEF IInv, FreshInv
<1>17. CreateInv'
  <2> SUFFICES ASSUME NEW b \in Actors, NEW k \in Requests,
                      task'[b].step = "creating", task'[b].pick = k
               PROVE  /\ file'[k].status = "torn"
                      /\ \A c \in Actors : runs'[c][k] = 0 /\ (c # b => ~InHand(c, k)')
    BY DEF CreateInv, InHand
  <2>1. k \in Ids
    BY DEF Ids
  <2>2. CASE b = a
    <3>1. k = i /\ k = n
      BY <2>2, <1>2, <1>5, <1>6
    <3> QED
      BY <3>1, <2>1, <2>2, <1>3, <1>7, <1>8, <1>9
  <2>3. CASE b # a
    <3>1. /\ task'[b] = task[b]
          /\ file[k].status = "torn"
          /\ \A c \in Actors : runs[c][k] = 0 /\ (c # b => ~InHand(c, k))
      BY <2>3, <1>6 DEF IInv, CreateInv
    <3>2. k # i
      BY <3>1, <1>2, <1>8
    <3> QED
      BY <3>1, <3>2, <2>1, <1>3, <1>7, <1>9
  <2> QED
    BY <2>2, <2>3
<1>18. PendingInv'
  <2>1. \A s \in Requests : file'[s].status = "pending" => file[s].status = "pending"
    BY <1>7 DEF Ids
  <2> QED
    BY <2>1, <1>3, <1>9 DEF IInv, PendingInv
<1>19. PickInv'
  BY <1>3, <1>5, <1>6 DEF IInv, PickInv, Handlers, Actors
<1>20. HandlerRunsOnce'
  <2> SUFFICES ASSUME NEW h \in Handlers, NEW r \in Requests, file'[r].status # "missing"
               PROVE  runs[h][r] <= 1 + excuse[r]
    BY <1>3 DEF HandlerRunsOnce
  <2>1. CASE r = n
    BY <2>1, <1>8 DEF IInv, TypeOK, Actors
  <2>2. CASE r # n
    <3>1. r # i /\ r \in Ids
      BY <2>2, <1>2 DEF Ids
    <3> QED
      BY <3>1, <1>9 DEF IInv, HandlerRunsOnce
  <2> QED
    BY <2>1, <2>2
<1>21. \A b \in Actors : task'[b].step \in Answering => b # a /\ task'[b] = task[b]
  BY <1>5, <1>6 DEF Answering
<1>22. SourceInv'
  BY <1>3, <1>21 DEF IInv, SourceInv, Handlers, Actors
<1>23. ASSUME NEW s \in Requests, s # n, Private(s)'
       PROVE  Private(s)
  BY <1>3, <1>11, <1>23 DEF Private
<1>24. PickedInv'
  <2> SUFFICES ASSUME NEW h \in Handlers, NEW s \in Requests, Private(s)',
                      task'[h].step = "picked", task'[h].pick = s
               PROVE  file'[s].status = "pending"
    BY DEF PickedInv
  <2>1. h \in Actors /\ s \in Ids /\ task'[h] = task[h]
    BY <1>21 DEF Answering, Handlers, Actors, Ids
  <2>2. s # n /\ s # i
    BY <2>1, <1>2, <1>8 DEF Busy
  <2> QED
    BY <2>1, <2>2, <1>7, <1>23 DEF IInv, PickedInv
<1>25. RefusedInv'
  <2> SUFFICES ASSUME NEW s \in Requests, NEW h \in Handlers, Private(s)', Refused(s)'
               PROVE  runs[h][s] <= excuse[s]
    BY <1>3 DEF RefusedInv
  <2>1. Refused(s)
    BY <1>7, <1>21 DEF Refused, Ids, Answering
  <2>2. s # n
    BY <2>1, <1>8 DEF Refused, Busy
  <2> QED
    BY <2>1, <2>2, <1>23 DEF IInv, RefusedInv
<1>26. SavedInv'
  <2> SUFFICES ASSUME NEW b \in Actors, NEW k \in Requests,
                      task'[b].step = "saving", task'[b].pick = k
               PROVE  file'[k].status # "pending"
    BY DEF SavedInv
  <2>1. k \in Ids /\ task'[b] = task[b] /\ file[k].status # "pending"
    BY <1>21 DEF Answering, Ids, IInv, SavedInv
  <2> QED
    BY <2>1, <1>7
<1> QED
  BY <1>10, <1>12, <1>13, <1>14, <1>15, <1>16, <1>17, <1>18, <1>19, <1>20, <1>22, <1>24, <1>25,
     <1>26
  DEF IInv

(* Actors die: what they ran is excused *)
LEMMA DyingStep ==
    ASSUME IInv, NEW A \in SUBSET Actors, IsFiniteSet(A), Dying(A)
    PROVE  IInv'
<1> DEFINE Dead(r) == {a \in A : task[a].step = "running" /\ task[a].rec.req = r}
<1>1. /\ UNCHANGED <<file, made, buttons, events, runs, operated, worked>>
      /\ crashes' \in 0..MaxCrashes
      /\ task' = [a \in Actors |-> IF a \in A THEN Idle ELSE task[a]]
      /\ excuse' = [r \in Requests |-> excuse[r] + Cardinality(Dead(r))]
  BY ApprovalAssumption DEF Dying, IInv, TypeOK
<1>2. /\ task' \in [Actors -> Task]
      /\ \A b \in Actors : b \in A => task'[b] = Idle
      /\ \A b \in Actors : b \notin A => task'[b] = task[b]
  BY <1>1, IdleType DEF IInv, TypeOK
<1>3. \A r \in Requests : Cardinality(Dead(r)) \in Nat
  BY FS_Subset, FS_CardinalityType
<1>4. ASSUME NEW r \in Requests, NEW b \in A, Running(b, r)
      PROVE  Cardinality(Dead(r)) >= 1
  <2>1. b \in Dead(r)
    BY <1>4 DEF Running
  <2>2. IsFiniteSet(Dead(r)) /\ Dead(r) # {}
    BY <2>1, FS_Subset
  <2> QED
    BY <2>2, <1>3, FS_EmptySet
<1>5. /\ excuse' \in [Requests -> Nat]
      /\ \A r \in Requests : excuse'[r] >= excuse[r]
      /\ \A r \in Requests, b \in A : Running(b, r) => excuse'[r] >= excuse[r] + 1
  <2> HIDE DEF Dead
  <2> QED
    BY <1>1, <1>3, <1>4 DEF IInv, TypeOK
<1>6. \A b \in Actors :
          /\ task'[b].step \in Busy => b \notin A /\ task'[b] = task[b]
          /\ \A j \in Ids : InHand(b, j)' => InHand(b, j) /\ task'[b] = task[b]
          /\ \A r \in Requests : Running(b, r)' <=> Running(b, r) /\ b \notin A
  BY <1>2 DEF Idle, Busy, InHand, Running
<1>7. TypeOK'
  BY <1>1, <1>2, <1>5, <1>6 DEF IInv, TypeOK, Busy
<1>8. \A j \in Requests, o \in Asking : SeenFrom(j, o)' => SeenFrom(j, o)
  BY <1>1, <1>6 DEF SeenFrom, Full, Ids
<1>9. OriginInv'
  BY <1>8 DEF IInv, OriginInv
<1>10. AnswerInv'
  BY <1>6, <1>8 DEF IInv, AnswerInv, Answers, Answering, Busy, Handlers, Actors
<1>11. HomeInv' /\ StepInv' /\ SavedInv'
  BY <1>1, <1>6 DEF IInv, HomeInv, StepInv, SavedInv, At, Full, Busy
<1>12. FreshInv'
  BY <1>1 DEF IInv, FreshInv
<1>13. CreateInv'
  BY <1>1, <1>6 DEF IInv, CreateInv, Busy, Ids
<1>14. PendingInv'
  <2> SUFFICES ASSUME NEW r \in Requests, NEW b \in Actors, file[r].status = "pending"
               PROVE  runs[b][r] <= excuse'[r] + (IF Running(b, r)' THEN 1 ELSE 0)
    BY <1>1 DEF PendingInv
  <2>1. /\ runs[b][r] <= excuse[r] + (IF Running(b, r) THEN 1 ELSE 0)
        /\ runs[b][r] \in Nat /\ excuse[r] \in Nat /\ excuse'[r] \in Nat
    BY <1>5 DEF IInv, PendingInv, TypeOK
  <2>2. CASE ~Running(b, r)
    BY <2>1, <2>2, <1>5, <1>6
  <2>3. CASE Running(b, r) /\ b \in A
    BY <2>1, <2>3, <1>5, <1>6
  <2>4. CASE Running(b, r) /\ b \notin A
    <3>1. Running(b, r)'
      BY <2>4, <1>6
    <3> QED
      BY <2>1, <2>4, <3>1, <1>5
  <2> QED
    BY <2>2, <2>3, <2>4
<1>15. PickInv' /\ HandlerRunsOnce'
  <2>1. \A h \in Handlers, r \in Requests :
            /\ h \in Actors
            /\ runs[h][r] \in Nat /\ excuse[r] \in Nat /\ excuse'[r] \in Nat
            /\ excuse'[r] >= excuse[r]
    BY <1>5 DEF IInv, TypeOK, Actors
  <2>2. PickInv'
    <3> SUFFICES ASSUME NEW h \in Handlers, NEW r \in Requests,
                        task'[h].step = "picked", task'[h].pick = r
                 PROVE  runs[h][r] <= excuse'[r]
      BY <1>1 DEF PickInv
    <3>1. task'[h] = task[h]
      BY <2>1, <1>6 DEF Busy
    <3>2. runs[h][r] <= excuse[r]
      BY <3>1 DEF IInv, PickInv
    <3> QED
      BY <2>1, <3>2
  <2>3. HandlerRunsOnce'
    <3> SUFFICES ASSUME NEW h \in Handlers, NEW r \in Requests, file[r].status # "missing"
                 PROVE  runs[h][r] <= 1 + excuse'[r]
      BY <1>1 DEF HandlerRunsOnce
    <3>1. runs[h][r] <= 1 + excuse[r]
      BY DEF IInv, HandlerRunsOnce
    <3> QED
      BY <2>1, <3>1
  <2> QED
    BY <2>2, <2>3
<1>16. SourceInv'
  BY <1>1, <1>6 DEF IInv, SourceInv, Answering, Busy, Handlers, Actors
<1>17. \A r \in Requests : Private(r)' => Private(r)
  BY <1>1, <1>8 DEF Private
<1>18. PickedInv'
  BY <1>1, <1>6, <1>17 DEF IInv, PickedInv, Busy, Handlers, Actors
<1>19. RefusedInv'
  <2>1. \A r \in Requests : Refused(r)' => Refused(r)
    BY <1>1, <1>6 DEF Refused, Busy
  <2>2. \A r \in Requests, h \in Handlers : Private(r)' /\ Refused(r)' => runs[h][r] <= excuse[r]
    BY <1>17, <2>1 DEF IInv, RefusedInv
  <2>3. \A r \in Requests, h \in Handlers :
            /\ runs[h][r] \in Nat /\ excuse[r] \in Nat /\ excuse'[r] \in Nat
            /\ excuse'[r] >= excuse[r]
    BY <1>5 DEF IInv, TypeOK, Actors
  <2> QED
    BY <1>1, <2>2, <2>3 DEF RefusedInv
<1> QED
  BY <1>7, <1>9, <1>10, <1>11, <1>12, <1>13, <1>14, <1>15, <1>16, <1>18, <1>19 DEF IInv

----
(* The steps together *)

LEMMA BookkeepingHolds == IInv => Bookkeeping
BY DEF IInv, TypeOK, Bookkeeping

(* An idle actor begins something that is no answer to a request *)
LEMMA BeginStep ==
    ASSUME IInv, NEW h \in Handlers, NEW new \in Task, Begin(h, new), new.step \notin Busy
    PROVE  IInv'
<1>1. /\ h \in Actors /\ task[h].step = "idle"
      /\ UNCHANGED <<file, made, runs, excuse, operated>>
      /\ task' = [task EXCEPT ![h] = new]
  BY ApprovalAssumption DEF Begin, Idle, Actors
<1>2. Bookkeeping'
  BY ApprovalAssumption DEF Begin, IInv, TypeOK, Bookkeeping, Actors, Handlers
<1> QED
  BY <1>1, <1>2, TaskUpdate, QuietStep DEF IInv

(* An actor goes on with something that is no answer to a request *)
LEMMA GoOnStep ==
    ASSUME IInv, NEW a \in Actors, NEW new \in Task, new.step \notin Busy,
           task[a].step # "running", task' = [task EXCEPT ![a] = new],
           UNCHANGED <<file, made, events, crashes, history>>,
           buttons' \in [Chats -> SUBSET Requests]
    PROVE  IInv'
<1>1. Bookkeeping'
  BY DEF IInv, TypeOK, Bookkeeping, history
<1> QED
  BY <1>1, TaskUpdate, QuietStep DEF IInv, history

LEMMA EventType ==
    ASSUME NEW h \in Handlers, NEW o \in Origins(h), NEW d \in Decision \cup {"none"},
           NEW wants \in Ids \cup {NoId}
    PROVE  LET e == Event(o[1], o[2], d, wants) IN
           /\ e \in Task
           /\ e.chat = o[1] /\ e.sender = o[2] /\ e.step = "idle"
<1>1. o[1] \in Chats /\ o[2] \in Senders \cup {Nobody}
  BY ApprovalAssumption DEF Origins, Handlers
<1> QED
  BY <1>1, IdleType DEF Event, Idle, Task

LEMMA MessageStep ==
    ASSUME IInv, NEW h \in Handlers, Message(h)
    PROVE  IInv'
<1>1. PICK o \in Origins(h) :
          Begin(h, [Event(o[1], o[2], "none", NoId) EXCEPT !.step = "turn"])
  BY DEF Message
<1> DEFINE e == Event(o[1], o[2], "none", NoId)
<1>2. e \in Task
  BY EventType
<1> HIDE DEF e
<1>3. [e EXCEPT !.step = "turn"] \in Task /\ [e EXCEPT !.step = "turn"].step \notin Busy
  BY <1>2 DEF Task, Busy
<1> QED
  BY <1>1, <1>3, BeginStep DEF e

LEMMA DecideStep ==
    ASSUME IInv, NEW h \in Handlers, Decide(h)
    PROVE  IInv'
<1>0. PICK o \in Origins(h) :
          \E d \in Decision :
              \E wants \in {NoId} \cup (IF h = Waker THEN {} ELSE buttons[o[1]]) :
                  LET e == Event(o[1], o[2], d, wants)
                      pending == Pending(o[1], o[2])
                  IN \/ Begin(h, Idle)
                     \/ Begin(h, [Event(o[1], o[2], "none", NoId) EXCEPT !.step = "turn"])
                     \/ \E i \in Picks(pending, wants) :
                            Begin(h, [e EXCEPT !.step = "picked", !.pick = i,
                                               !.after = file[i].after])
  BY DEF Decide
<1>1. PICK d \in Decision, wants \in {NoId} \cup (IF h = Waker THEN {} ELSE buttons[o[1]]) :
          LET e == Event(o[1], o[2], d, wants)
              pending == Pending(o[1], o[2])
          IN \/ Begin(h, Idle)
             \/ Begin(h, [Event(o[1], o[2], "none", NoId) EXCEPT !.step = "turn"])
             \/ \E i \in Picks(pending, wants) :
                    Begin(h, [e EXCEPT !.step = "picked", !.pick = i,
                                       !.after = file[i].after])
  BY <1>0
<1> DEFINE e == Event(o[1], o[2], d, wants)
<1>2. wants \in Ids \cup {NoId}
  BY ApprovalAssumption DEF Origins, Handlers, Ids, IInv, TypeOK
<1>3. e \in Task /\ e.chat = o[1] /\ e.sender = o[2]
  BY <1>2, EventType
<1>4. CASE Begin(h, Idle)
  BY <1>4, IdleType, BeginStep DEF Idle, Busy
<1>5. CASE Begin(h, [Event(o[1], o[2], "none", NoId) EXCEPT !.step = "turn"])
  BY <1>5, MessageStep DEF Message
<1>6. ASSUME NEW i \in Picks(Pending(o[1], o[2]), wants),
             Begin(h, [e EXCEPT !.step = "picked", !.pick = i, !.after = file[i].after])
      PROVE  IInv'
  <2> HIDE DEF e
  <2>1. /\ i \in Ids
        /\ file[i].status = "pending"
        /\ file[i].chat = o[1]
        /\ file[i].owner \in {Nobody, o[2]}
        /\ <<o[1], o[2]>> \in Origins(h)
    BY <1>6 DEF Picks, Pending, RequesterMatches, Origins
  <2>2. file[i].after \in After
    BY <2>1 DEF IInv, TypeOK, ApprovalRequest
  <2> DEFINE new == [e EXCEPT !.step = "picked", !.pick = i, !.after = file[i].after]
  <2>3. /\ new \in Task
        /\ new.step = "picked" /\ new.pick = i
        /\ new.chat = o[1] /\ new.sender = o[2]
    <3> DEFINE after == file[i].after
    <3> HIDE DEF after
    <3>1. after \in After
      BY <2>2 DEF after
    <3>2. /\ [e EXCEPT !.step = "picked", !.pick = i, !.after = after] \in Task
          /\ [e EXCEPT !.step = "picked", !.pick = i, !.after = after].step = "picked"
          /\ [e EXCEPT !.step = "picked", !.pick = i, !.after = after].pick = i
          /\ [e EXCEPT !.step = "picked", !.pick = i, !.after = after].chat = o[1]
          /\ [e EXCEPT !.step = "picked", !.pick = i, !.after = after].sender = o[2]
      BY <3>1, <2>1, <1>3 DEF Task
    <3> QED
      BY <3>2 DEF after
  <2>4. Begin(h, new)
    BY <1>6
  <2> HIDE DEF new
  <2> QED
    BY <2>1, <2>3, <2>4, PickStep DEF Actors
<1> QED
  BY <1>1, <1>4, <1>5, <1>6

LEMMA RespondStep ==
    ASSUME IInv, NEW o \in Operators, Respond(o)
    PROVE  IInv'
<1>1. PICK i \in Ids, d \in Decision :
          /\ file[i].status # "missing"
          /\ Begin(o, [Event(NoId, Nobody, d, NoId) EXCEPT !.step = "picked", !.pick = i])
  BY DEF Respond
<1> DEFINE new == [Event(NoId, Nobody, d, NoId) EXCEPT !.step = "picked", !.pick = i]
<1>2. new \in Task /\ new.step = "picked" /\ new.pick = i
  BY IdleType DEF Event, Idle, Task
<1>3. o \in Actors /\ o \notin Handlers
  BY ApprovalAssumption DEF Actors
<1> HIDE DEF new
<1> QED
  BY <1>1, <1>2, <1>3, PickStep DEF new

LEMMA ResolvingStep ==
    ASSUME IInv, NEW a \in Actors, Resolving(a)
    PROVE  IInv'
<1>1. CASE Approve(a)
  BY <1>1, ApproveStep
<1>2. CASE Refuse(a)
  <2>1. /\ task[a].step = "picked" /\ task[a].decision = "cancel"
        /\ Full(task[a].pick)
        /\ file[task[a].pick] \in ApprovalRequest
    BY <1>2 DEF Refuse, Full, IInv, TypeOK, HomeInv
  <2>2. Record(a, file[task[a].pick], "cancel") /\ worked' \subseteq Requests
    BY <1>2, <2>1 DEF Refuse, IInv, TypeOK
  <2> QED
    BY <2>1, <2>2, RecordStep DEF Final
<1>3. CASE Execute(a)
  <2>1. /\ task[a].step = "running"
        /\ task[a].rec \in ApprovalRequest
        /\ task[a].rec.req \in Requests
    BY <1>3, ApprovalAssumption DEF Execute, IInv, TypeOK, Task, Requests
  <2>2. /\ \E status \in Final \ {"cancel"} : Record(a, task[a].rec, status)
        /\ worked' \subseteq Requests
    BY <1>3, <2>1 DEF Execute, Final, IInv, TypeOK
  <2> QED
    BY <2>1, <2>2, RecordStep
<1>4. CASE Save(a)
  <2>1. /\ task[a].step = "saving"
        /\ Fill(task[a].pick, task[a].rec)
        /\ task' = [task EXCEPT ![a] =
                       IF a \in Operators THEN Idle ELSE [@ EXCEPT !.step = "answered"]]
        /\ UNCHANGED <<made, buttons, events, crashes, history>>
    BY <1>4 DEF Save
  <2> DEFINE new == IF a \in Operators THEN Idle ELSE [task[a] EXCEPT !.step = "answered"]
  <2>2. task[a] \in Task
    BY DEF IInv, TypeOK
  <2>3. new \in Task /\ new.step \notin Busy
    <3>1. CASE a \in Operators
      BY <3>1, IdleType DEF Idle, Busy
    <3>2. CASE a \notin Operators
      BY <3>2, <2>2 DEF Task, Busy
    <3> QED
      BY <3>1, <3>2
  <2>4. Bookkeeping' /\ UNCHANGED <<made, runs, excuse, operated>>
    BY <2>1 DEF IInv, TypeOK, Bookkeeping, history
  <2>5. task' = [task EXCEPT ![a] = new]
    BY <2>1
  <2> HIDE DEF new
  <2> QED
    BY <2>1, <2>3, <2>4, <2>5, FillStep
<1> QED
  BY <1>1, <1>2, <1>3, <1>4 DEF Resolving

LEMMA RaiseStep ==
    ASSUME IInv, NEW a \in Actors, Raise(a)
    PROVE  IInv'
<1>1. /\ task' = [task EXCEPT ![a] = Idle] /\ task[a].step # "running"
      /\ UNCHANGED <<file, made, buttons, events, crashes, history>>
  BY DEF Raise
<1>2. Idle \in Task /\ Idle.step \notin Busy /\ buttons' \in [Chats -> SUBSET Requests]
  BY <1>1, IdleType DEF Idle, Busy, IInv, TypeOK
<1> QED
  BY <1>1, <1>2, GoOnStep

(* A task at a turn *)
LEMMA TurnType ==
    ASSUME NEW t \in Task
    PROVE  /\ [t EXCEPT !.step = "turn"] \in Task
           /\ [t EXCEPT !.step = "turn"].step \notin Busy
           /\ [t EXCEPT !.step = "turn", !.resuming = TRUE] \in Task
           /\ [t EXCEPT !.step = "turn", !.resuming = TRUE].step \notin Busy
<1>1. /\ [t EXCEPT !.step = "turn"] \in Task
      /\ [t EXCEPT !.step = "turn", !.resuming = TRUE] \in Task
  BY DEF Task
<1> QED
  BY <1>1 DEF Task, Busy

LEMMA ConversingStep ==
    ASSUME IInv, NEW h \in Handlers, Conversing(h)
    PROVE  IInv'
<1>1. h \in Actors /\ task[h] \in Task /\ buttons \in [Chats -> SUBSET Requests]
  BY DEF IInv, TypeOK, Actors
<1>2. CASE Resume(h)
  <2> DEFINE new == [task[h] EXCEPT !.step = "turn", !.resuming = TRUE]
  <2>1. new \in Task /\ new.step \notin Busy
    BY <1>1, TurnType
  <2> QED
    BY <1>1, <1>2, <2>1, GoOnStep DEF Resume
<1>3. CASE Reply(h)
  <2> DEFINE new == [task[h] EXCEPT !.step = "turn"]
  <2>1. new \in Task /\ new.step \notin Busy
    BY <1>1, TurnType
  <2>2. Idle \in Task /\ Idle.step \notin Busy
    BY IdleType DEF Idle, Busy
  <2>3. /\ task[h].step = "answered"
        /\ \/ task' = [task EXCEPT ![h] = Idle]
           \/ task' = [task EXCEPT ![h] = new]
        /\ UNCHANGED <<file, made, buttons, events, crashes, history>>
    BY <1>3 DEF Reply
  <2> HIDE DEF new
  <2> QED
    BY <1>1, <2>1, <2>2, <2>3, GoOnStep
<1>4. CASE Ask(h)
  BY <1>4, AskStep
<1>5. CASE Asked(h)
  <2> DEFINE new == [task[h] EXCEPT !.step = "turn", !.pick = NoId, !.rec = Blank("missing")]
  <2>1. new \in Task /\ new.step \notin Busy
    BY <1>1, BlankType DEF Task, Busy
  <2>2. /\ task[h].step = "creating"
        /\ Fill(task[h].pick, task[h].rec)
        /\ task' = [task EXCEPT ![h] = new]
        /\ Bookkeeping'
        /\ UNCHANGED <<made, runs, excuse, operated>>
    BY <1>5 DEF Asked, IInv, TypeOK, Bookkeeping, history
  <2> HIDE DEF new
  <2> QED
    BY <1>1, <2>1, <2>2, FillStep
<1>6. CASE EndTurn(h)
  <2> DEFINE new == IF task[h].resuming
                    THEN [task[h] EXCEPT !.step = "answered", !.resuming = FALSE,
                                         !.resumed = TRUE, !.asked = NoId]
                    ELSE Idle
  <2>1. new \in Task /\ new.step \notin Busy
    <3>1. Idle \in Task /\ Idle.step \notin Busy
      BY IdleType DEF Idle, Busy
    <3>2. [task[h] EXCEPT !.step = "answered", !.resuming = FALSE, !.resumed = TRUE,
                          !.asked = NoId] \in Task
      BY <1>1 DEF Task
    <3>3. [task[h] EXCEPT !.step = "answered", !.resuming = FALSE, !.resumed = TRUE,
                          !.asked = NoId].step \notin Busy
      BY <1>1 DEF Task, Busy
    <3> QED
      BY <3>1, <3>2, <3>3
  <2>2. /\ task[h].step = "turn"
        /\ task' = [task EXCEPT ![h] = new]
        /\ UNCHANGED <<file, made, events, crashes, history>>
    BY <1>6 DEF EndTurn
  <2>3. buttons' \in [Chats -> SUBSET Requests]
    BY <1>1, <1>6 DEF EndTurn, Task
  <2> HIDE DEF new
  <2> QED
    BY <1>1, <2>1, <2>2, <2>3, GoOnStep
<1> QED
  BY <1>2, <1>3, <1>4, <1>5, <1>6 DEF Conversing

LEMMA DeathStep ==
    ASSUME IInv, Crash \/ \E o \in Operators : Kill(o)
    PROVE  IInv'
<1>1. CASE Crash
  <2>1. Handlers \in SUBSET Actors /\ IsFiniteSet(Handlers)
    BY ApprovalAssumption, FS_AddElement DEF Handlers, Actors
  <2> QED
    BY <1>1, <2>1, DyingStep DEF Crash
<1>2. ASSUME NEW o \in Operators, Kill(o)
      PROVE  IInv'
  <2>1. {o} \in SUBSET Actors /\ IsFiniteSet({o})
    BY FS_Singleton DEF Actors
  <2> QED
    BY <1>2, <2>1, DyingStep DEF Kill
<1> QED
  BY <1>1, <1>2

LEMMA StutterStep ==
    ASSUME IInv, UNCHANGED vars
    PROVE  IInv'
<1>1. Bookkeeping'
  BY DEF IInv, TypeOK, Bookkeeping, vars, history
<1> QED
  BY <1>1, QuietStep DEF IInv, TypeOK, vars, history

LEMMA NextStep == IInv /\ [Next]_vars => IInv'
<1> SUFFICES ASSUME IInv, [Next]_vars
             PROVE  IInv'
  OBVIOUS
<1>1. ASSUME NEW h \in Handlers, Message(h) \/ Decide(h) \/ Conversing(h)
      PROVE  IInv'
  BY <1>1, MessageStep, DecideStep, ConversingStep
<1>2. ASSUME NEW o \in Operators, Respond(o)
      PROVE  IInv'
  BY <1>2, RespondStep
<1>3. ASSUME NEW a \in Actors, Resolving(a) \/ Raise(a)
      PROVE  IInv'
  BY <1>3, ResolvingStep, RaiseStep
<1>4. CASE Crash \/ \E o \in Operators : Kill(o)
  BY <1>4, DeathStep
<1>5. CASE UNCHANGED vars
  BY <1>5, StutterStep
<1> QED
  BY <1>1, <1>2, <1>3, <1>4, <1>5 DEF Next

----
(* Theorems *)

(* The inductive invariant holds in every reachable state. *)
THEOREM Invariance == Spec => []IInv
<1>1. Init => IInv
  BY InitInv
<1> QED
  BY <1>1, NextStep, PTL DEF Spec

(* The records of the request files and of the actors' tasks have their    *)
(* types, and a record that is run or written is one of a request made.    *)
THEOREM TypeCorrect == Spec => []TypeOK
<1>1. IInv => TypeOK
  BY DEF IInv
<1> QED
  BY <1>1, Invariance, PTL

(* resolve_approval runs the action of a request that the store named only *)
(* for an event of the chat and of the user that asked for it, whatever is *)
(* written over its file between the pick and the load.                    *)
THEOREM Ownership == Spec => []OwnerOnly
<1>1. IInv => OwnerOnly
  <2> SUFFICES ASSUME IInv, NEW h \in Handlers,
                      task[h].step = "running", task[h].pick \in Requests
               PROVE  /\ task[h].rec.chat = task[h].chat
                      /\ task[h].rec.owner \in {Nobody, task[h].sender}
    BY DEF OwnerOnly
  <2> DEFINE q == <<task[h].rec.chat, task[h].rec.owner>>
  <2>1. h \in Actors /\ task[h].rec \in ApprovalRequest
    BY DEF Actors, IInv, TypeOK, Task
  <2>2. q \in Asking
    BY <2>1 DEF ApprovalRequest, Asking
  <2>3. SeenFrom(task[h].pick, q)
    BY <2>1 DEF SeenFrom, InHand
  <2>4. q[1] = task[h].chat /\ q[2] \in {Nobody, task[h].sender}
    BY <2>2, <2>3 DEF IInv, AnswerInv, Answers, Answering
  <2> QED
    BY <2>4
<1> QED
  BY <1>1, Invariance, PTL

(* No thread runs the action of a request that the store named twice, but  *)
(* for one that died while it ran.                                         *)
THEOREM RunsAtMostOnce == Spec => []HandlerRunsOnce
<1>1. IInv => HandlerRunsOnce
  BY DEF IInv
<1> QED
  BY <1>1, Invariance, PTL

(* A request that still reads "pending" was not run by anybody who is not  *)
(* still at it.                                                            *)
THEOREM PendingMeansNotRun == Spec => []PendingNotRun
<1>1. IInv => PendingNotRun
  <2> SUFFICES ASSUME IInv, NEW r \in Requests, NEW a \in Actors,
                      file[r].status = "pending", runs[a][r] > excuse[r]
               PROVE  task[a].step = "running" /\ task[a].rec.req = r
    BY DEF PendingNotRun
  <2>1. /\ runs[a][r] <= excuse[r] + (IF Running(a, r) THEN 1 ELSE 0)
        /\ runs[a][r] \in Nat /\ excuse[r] \in Nat
    BY DEF IInv, PendingInv, TypeOK
  <2>2. Running(a, r)
    BY <2>1
  <2> QED
    BY <2>2 DEF Running
<1> QED
  BY <1>1, Invariance, PTL

(* A user's request that reads as refused was not run, unless an operator  *)
(* began to answer it: resolve_approval does not look at the status of the *)
(* record it loads, and yet one thread cannot refuse what another runs.    *)
THEOREM RefusedMeansNotRun == Spec => []RefusedNotRun
<1>1. IInv => RefusedNotRun
  <2> SUFFICES ASSUME IInv, NEW r \in Requests \ operated, NEW h \in Handlers,
                      file[r].status = "cancel", file[r].owner # Nobody
               PROVE  runs[h][r] <= excuse[r]
    BY DEF RefusedNotRun
  <2> DEFINE q == <<file[r].chat, file[r].owner>>
  <2>1. file[r] \in ApprovalRequest
    BY DEF IInv, TypeOK, Ids
  <2>2. q \in Asking
    BY <2>1 DEF ApprovalRequest, Asking
  <2>3. SeenFrom(r, q)
    BY DEF SeenFrom, Full
  <2>4. Private(r) /\ Refused(r)
    BY <2>2, <2>3 DEF Private, Refused
  <2> QED
    BY <2>4 DEF IInv, RefusedInv
<1> QED
  BY <1>1, Invariance, PTL

----
(* The workflow implements ApprovalLedger.  Nothing is needed for it but   *)
(* the invariant: a request is new while its creator holds it, and nobody  *)
(* else does; once filled it is pending until somebody begins to store an  *)
(* outcome, and never after.                                               *)

Sits(a, step, r) == task[a].step = step /\ task[a].pick = r

Alone(a) == \A b \in Actors : b # a => task'[b] = task[b]

(* What the ledger sees when one actor takes or leaves a place             *)
LEMMA PlaceTaken ==
    ASSUME NEW a \in Actors, NEW step, NEW r \in Requests, Alone(a),
           Sits(a, step, r)', \A s \in Requests : Sits(a, step, s)' => s = r,
           \A s \in Requests : Sits(a, step, s) => s = r
    PROVE  ledgerAt(step)' = [ledgerAt(step) EXCEPT ![r] = @ \cup {a}]
<1>1. \A s \in Requests :
          {b \in Actors : Sits(b, step, s)'} =
              IF s = r THEN {b \in Actors : Sits(b, step, s)} \cup {a}
              ELSE {b \in Actors : Sits(b, step, s)}
  <2> TAKE s \in Requests
  <2>1. \A b \in Actors : b # a => (Sits(b, step, s)' <=> Sits(b, step, s))
    BY DEF Alone, Sits
  <2> QED
    BY <2>1
<1> DEFINE f == ledgerAt(step)
           g == ledgerAt(step)'
<1>2. /\ f = [s \in Requests |-> {b \in Actors : Sits(b, step, s)}]
      /\ g = [s \in Requests |-> {b \in Actors : Sits(b, step, s)'}]
  BY DEF ledgerAt, Sits
<1> HIDE DEF f, g
<1>3. g = [s \in Requests |-> IF s = r THEN f[s] \cup {a} ELSE f[s]]
  BY <1>1, <1>2
<1>4. g = [f EXCEPT ![r] = @ \cup {a}]
  BY <1>2, <1>3
<1> QED
  BY <1>4 DEF f, g

LEMMA PlaceLeft ==
    ASSUME NEW a \in Actors, NEW step, NEW r \in Requests, Alone(a),
           \A s \in Requests : ~Sits(a, step, s)',
           \A s \in Requests : Sits(a, step, s) => s = r
    PROVE  ledgerAt(step)' = [ledgerAt(step) EXCEPT ![r] = @ \ {a}]
<1>1. \A s \in Requests :
          {b \in Actors : Sits(b, step, s)'} =
              IF s = r THEN {b \in Actors : Sits(b, step, s)} \ {a}
              ELSE {b \in Actors : Sits(b, step, s)}
  <2> TAKE s \in Requests
  <2>1. \A b \in Actors : b # a => (Sits(b, step, s)' <=> Sits(b, step, s))
    BY DEF Alone, Sits
  <2> QED
    BY <2>1
<1> DEFINE f == ledgerAt(step)
           g == ledgerAt(step)'
<1>2. /\ f = [s \in Requests |-> {b \in Actors : Sits(b, step, s)}]
      /\ g = [s \in Requests |-> {b \in Actors : Sits(b, step, s)'}]
  BY DEF ledgerAt, Sits
<1> HIDE DEF f, g
<1>3. g = [s \in Requests |-> IF s = r THEN f[s] \ {a} ELSE f[s]]
  BY <1>1, <1>2
<1>4. g = [f EXCEPT ![r] = @ \ {a}]
  BY <1>2, <1>3
<1> QED
  BY <1>4 DEF f, g

LEMMA PlacesKept ==
    ASSUME NEW step, \A b \in Actors, s \in Requests : Sits(b, step, s)' <=> Sits(b, step, s)
    PROVE  ledgerAt(step)' = ledgerAt(step)
<1>1. \A s \in Requests :
          {b \in Actors : Sits(b, step, s)'} = {b \in Actors : Sits(b, step, s)}
  OBVIOUS
<1> QED
  BY <1>1 DEF ledgerAt, Sits

Placed == ledgerAt("picked")' = ledgerAt("picked") /\ ledgerAt("running")' = ledgerAt("running")
              /\ ledgerAt("saving")' = ledgerAt("saving")

(* ... and when a request's file is left alone                             *)
Alike(r) ==
    /\ Unopened(r)' <=> Unopened(r)
    /\ file'[r] = file[r]
    /\ r \in operated' <=> r \in operated

LEMMA PhaseKept ==
    ASSUME \A r \in Requests : Alike(r)
    PROVE  ledgerPhase' = ledgerPhase
BY DEF ledgerPhase, Alike

(* Who answers no request and creates none does nothing in the ledger      *)
LEMMA QuietMaps ==
    ASSUME UNCHANGED <<file, operated>>,
           \A b \in Actors : \/ task'[b] = task[b]
                             \/ task[b].step \notin Busy /\ task'[b].step \notin Busy
    PROVE  ledgerPhase' = ledgerPhase /\ Placed
<1>1. \A b \in Actors, r \in Requests, step \in Busy : Sits(b, step, r)' <=> Sits(b, step, r)
  BY DEF Sits
<1>2. \A r \in Requests : Alike(r)
  BY <1>1 DEF Alike, Unopened, Sits, Busy, Handlers, Actors
<1>3. Placed
  BY <1>1, PlacesKept DEF Placed, Busy
<1> QED
  BY <1>2, <1>3, PhaseKept

(* The place of an actor that answers a request, and of one that does not *)
LEMMA AtPlace ==
    ASSUME NEW a \in Actors, NEW r \in Requests
    PROVE  /\ a \in ledgerAt("picked")[r] <=> Sits(a, "picked", r)
           /\ a \in ledgerAt("running")[r] <=> Sits(a, "running", r)
           /\ a \in ledgerAt("saving")[r] <=> Sits(a, "saving", r)
BY DEF ledgerAt, Sits

LEMMA IdleIsFree ==
    ASSUME NEW a \in Actors, task[a].step \notin Answering
    PROVE  Ledger!Free(a)
BY AtPlace DEF Ledger!Free, Ledger!At, Sits, Answering

(* A thread picks an open request, or an operator any request              *)
LEMMA PickMaps ==
    ASSUME IInv, NEW a \in Actors, NEW new \in Task, Begin(a, new),
           new.step = "picked", new.pick \in Ids,
           a \in Handlers => /\ file[new.pick].status = "pending"
                             /\ file[new.pick].chat = new.chat
                             /\ file[new.pick].owner \in {Nobody, new.sender}
                             /\ <<new.chat, new.sender>> \in Origins(a)
    PROVE  \/ ledgerPhase' = ledgerPhase /\ Placed
           \/ a \in Handlers /\ new.pick \in Requests /\ Ledger!Pick(a, new.pick)
           \/ a \in Operators /\ new.pick \in Requests /\ Ledger!Force(a, new.pick)
<1> DEFINE r == new.pick
<1>1. /\ task[a].step = "idle" /\ file' = file
      /\ operated' = IF a \in Operators THEN operated \cup {r} ELSE operated
  BY DEF Begin, Idle
<1>2. task'[a] = new /\ Alone(a)
  BY TaskUpdate DEF Begin, IInv, Alone
<1>3. \A b \in Actors, s \in Requests, step \in {"running", "saving", "creating"} :
          Sits(b, step, s)' <=> Sits(b, step, s)
  BY <1>1, <1>2 DEF Sits, Alone
<1>4. /\ ledgerAt("running")' = ledgerAt("running")
      /\ ledgerAt("saving")' = ledgerAt("saving")
  BY <1>3, PlacesKept
<1>5. \A s \in Requests : Unopened(s)' <=> Unopened(s)
  BY <1>1, <1>3 DEF Unopened, Sits, Handlers, Actors
<1>6. CASE r \notin Requests
  <2>1. \A b \in Actors, s \in Requests : Sits(b, "picked", s)' <=> Sits(b, "picked", s)
    BY <1>1, <1>2, <1>6 DEF Sits, Alone
  <2>2. \A s \in Requests : Alike(s)
    BY <1>1, <1>5, <1>6 DEF Alike
  <2> QED
    BY <1>4, <2>1, <2>2, PlacesKept, PhaseKept DEF Placed
<1>7. CASE r \in Requests
  <2>1. ledgerAt("picked")' = [ledgerAt("picked") EXCEPT ![r] = @ \cup {a}]
    <3>1. Sits(a, "picked", r)' /\ \A s \in Requests : Sits(a, "picked", s)' => s = r
      BY <1>2 DEF Sits
    <3>2. \A s \in Requests : ~Sits(a, "picked", s)
      BY <1>1 DEF Sits
    <3> HIDE DEF r
    <3> QED
      BY <1>2, <1>7, <3>1, <3>2, PlaceTaken
  <2>2. Ledger!Free(a)
    BY <1>1, IdleIsFree DEF Answering
  <2>3. CASE a \in Operators
    <3>1. ledgerPhase' = [ledgerPhase EXCEPT ![r] = IF @ = "private" THEN "shared" ELSE @]
      <4>1. \A s \in Requests : s # r => ledgerPhase'[s] = ledgerPhase[s]
        BY <1>1, <1>5, <2>3 DEF ledgerPhase
      <4>2. ledgerPhase'[r] = IF ledgerPhase[r] = "private" THEN "shared" ELSE ledgerPhase[r]
        BY <1>1, <1>5, <1>7, <2>3 DEF ledgerPhase
      <4> HIDE DEF r
      <4> QED
        BY <4>1, <4>2 DEF ledgerPhase
    <3> QED
      BY <1>4, <1>7, <2>1, <2>2, <2>3, <3>1 DEF Ledger!Force
  <2>4. CASE a \notin Operators
    <3>1. a \in Handlers /\ r \in Ids
      BY <2>4, <1>7 DEF Actors, Ids
    <3>2. \A s \in Requests : Alike(s)
      BY <1>1, <1>5, <2>4 DEF Alike
    <3>3. ledgerPhase' = ledgerPhase
      BY <3>2, PhaseKept
    <3>4. ~Unopened(r)
      <4>1. file[r].status = "pending"
        BY <3>1
      <4>2. \A h \in Handlers : ~Sits(h, "creating", r)
        BY <1>7, <4>1 DEF Sits, IInv, CreateInv, Actors
      <4> QED
        BY <4>1, <4>2 DEF Unopened, Sits
    <3>5. ASSUME file[r].owner # Nobody, r \notin operated
          PROVE  Ledger!At(r) = {}
      <4> DEFINE o == <<file[r].chat, file[r].owner>>
      <4>1. o \in Asking /\ SeenFrom(r, o)
        BY <3>1 DEF SeenFrom, Full, Asking, IInv, TypeOK, ApprovalRequest
      <4>2. a \in Threads /\ o[1] \in ChatsOf[a]
        BY <3>1, <3>5 DEF Origins, Handlers
      <4>3. ASSUME NEW b \in Actors, Answers(b, r)
            PROVE  FALSE
        <5>1. b \in Threads /\ o[1] \in ChatsOf[b]
          BY <1>7, <3>5, <4>1, <4>3, AnswererListens
        <5>2. b = a
          BY <4>2, <5>1, ApprovalAssumption
        <5> QED
          BY <5>2, <1>1, <4>3 DEF Answers, Answering
      <4> QED
        BY <1>7, <4>3 DEF Ledger!At, ledgerAt, Answers, Answering
    <3>6. ledgerPhase[r] = "shared" \/ (ledgerPhase[r] = "private" /\ Ledger!At(r) = {})
      BY <1>7, <3>1, <3>4, <3>5 DEF ledgerPhase
    <3> QED
      BY <1>4, <1>7, <2>1, <2>2, <3>1, <3>3, <3>6 DEF Ledger!Pick
  <2> QED
    BY <2>3, <2>4
<1> QED
  BY <1>6, <1>7

(* A file that an actor runs or is about to write is nobody's creation     *)
LEMMA HeldIsOpened ==
    ASSUME IInv, NEW r \in Requests, NEW a \in Actors,
           \/ Sits(a, "picked", r) /\ file[r].status # "torn"
           \/ Sits(a, "running", r)
           \/ Sits(a, "saving", r)
    PROVE  ~Unopened(r)
<1>1. file[r].status # "missing"
  BY DEF IInv, HomeInv, Sits
<1>2. ASSUME NEW h \in Handlers, Sits(h, "creating", r)
      PROVE  FALSE
  <2>1. h \in Actors /\ h # a
    BY <1>2 DEF Sits, Actors
  <2>2. file[r].status = "torn" /\ ~InHand(a, r)
    BY <2>1, <1>2 DEF IInv, CreateInv, Sits
  <2> QED
    BY <2>2 DEF InHand, Sits
<1> QED
  BY <1>1, <1>2 DEF Unopened, Sits

LEMMA ApproveMaps ==
    ASSUME IInv, NEW a \in Actors, Approve(a)
    PROVE  \/ ledgerPhase' = ledgerPhase /\ Placed
           \/ \E r \in Requests : Ledger!Start(a, r)
<1>0. PICK r : r = task[a].pick
  OBVIOUS
<1>1. /\ task[a].step = "picked" /\ file[r].status # "torn"
      /\ UNCHANGED <<file, operated>>
      /\ task' = [task EXCEPT ![a] = With(task[a], "running", file[r])]
  BY <1>0 DEF Approve, With
<1>2. task \in [Actors -> Task]
  BY DEF IInv, TypeOK
<1>3. task'[a].step = "running" /\ task'[a].pick = r /\ Alone(a)
  BY <1>0, <1>1, <1>2 DEF Alone, With, Task
<1>4. /\ \A b \in Actors, s \in Requests, step \in {"saving", "creating"} :
             Sits(b, step, s)' <=> Sits(b, step, s)
      /\ \A s : ~Sits(a, "picked", s)' /\ ~Sits(a, "running", s)
      /\ \A s : Sits(a, "picked", s) <=> s = r
      /\ \A s : Sits(a, "running", s)' <=> s = r
  <2>1. \A b \in Actors, s \in Requests, step \in {"saving", "creating"} :
            Sits(b, step, s)' <=> Sits(b, step, s)
    BY <1>1, <1>3 DEF Sits, Alone
  <2> QED
    BY <2>1, <1>0, <1>1, <1>3 DEF Sits
<1>5. ledgerPhase' = ledgerPhase
  <2>1. \A s \in Requests : Alike(s)
    BY <1>1, <1>4 DEF Alike, Unopened, Sits, Handlers, Actors
  <2> QED
    BY <2>1, PhaseKept
<1>6. ledgerAt("saving")' = ledgerAt("saving")
  BY <1>4, PlacesKept
<1>7. CASE r \in Requests
  <2>1. ledgerAt("picked")' = [ledgerAt("picked") EXCEPT ![r] = @ \ {a}]
    BY <1>3, <1>4, <1>7, PlaceLeft
  <2>2. ledgerAt("running")' = [ledgerAt("running") EXCEPT ![r] = @ \cup {a}]
    BY <1>3, <1>4, <1>7, PlaceTaken
  <2>3. a \in ledgerAt("picked")[r]
    BY <1>4, <1>7, AtPlace
  <2>4. ledgerPhase[r] # "new"
    BY <1>1, <1>4, <1>7, HeldIsOpened DEF ledgerPhase
  <2> QED
    BY <1>5, <1>6, <1>7, <2>1, <2>2, <2>3, <2>4 DEF Ledger!Start
<1>8. CASE r \notin Requests
  <2>1. \A b \in Actors, s \in Requests, step \in {"picked", "running"} :
            Sits(b, step, s)' <=> Sits(b, step, s)
    BY <1>3, <1>4, <1>8 DEF Sits, Alone
  <2> QED
    BY <1>5, <1>6, <2>1, PlacesKept DEF Placed
<1> QED
  BY <1>7, <1>8

(* Who begins to store an outcome closes the request                       *)
LEMMA RecordMaps ==
    ASSUME IInv, NEW a \in Actors, NEW rec, NEW status, Record(a, rec, status),
           \/ task[a].step = "picked" /\ file[task[a].pick].status # "torn"
           \/ task[a].step = "running"
    PROVE  \/ ledgerPhase' = ledgerPhase /\ Placed
           \/ \E r \in Requests : Ledger!Close(a, r)
<1>0. PICK r : r = task[a].pick
  OBVIOUS
<1>1. /\ operated' = operated
      /\ task' = [task EXCEPT ![a] = With(task[a], "saving", [rec EXCEPT !.status = status])]
      /\ file' = [file EXCEPT ![r] = Blank("torn")]
  BY <1>0 DEF Record, With
<1>2. task \in [Actors -> Task] /\ file \in [Ids -> ApprovalRequest] /\ r \in Ids
  BY <1>0 DEF IInv, TypeOK
<1>3. task'[a].step = "saving" /\ task'[a].pick = r /\ Alone(a)
  BY <1>0, <1>1, <1>2 DEF Alone, With, Task
<1>4. /\ \A b \in Actors, s \in Requests : Sits(b, "creating", s)' <=> Sits(b, "creating", s)
      /\ \A s : ~Sits(a, "picked", s)' /\ ~Sits(a, "running", s)' /\ ~Sits(a, "saving", s)
      /\ \A s : (Sits(a, "picked", s) \/ Sits(a, "running", s)) <=> s = r
      /\ \A s : Sits(a, "saving", s)' <=> s = r
  <2>1. \A b \in Actors, s \in Requests : Sits(b, "creating", s)' <=> Sits(b, "creating", s)
    BY <1>3 DEF Sits, Alone
  <2> QED
    BY <2>1, <1>0, <1>3 DEF Sits
<1>5. /\ \A s \in Requests : s # r => file'[s] = file[s]
      /\ file'[r].status = "torn"
  BY <1>1, <1>2 DEF Ids, Blank
<1>6. file[r].status # "torn" \/ task[a].step = "running"
  BY <1>0
<1>7. \A s \in Requests : s # r => ledgerPhase'[s] = ledgerPhase[s]
  BY <1>1, <1>4, <1>5 DEF ledgerPhase, Unopened, Sits, Handlers, Actors
<1>8. CASE r \in Requests
  <2>1. /\ ledgerAt("picked")' = [ledgerAt("picked") EXCEPT ![r] = @ \ {a}]
        /\ ledgerAt("running")' = [ledgerAt("running") EXCEPT ![r] = @ \ {a}]
    BY <1>3, <1>4, <1>8, PlaceLeft
  <2>2. ledgerAt("saving")' = [ledgerAt("saving") EXCEPT ![r] = @ \cup {a}]
    BY <1>3, <1>4, <1>8, PlaceTaken
  <2>3. a \in ledgerAt("picked")[r] \cup ledgerAt("running")[r]
    BY <1>4, <1>8, AtPlace
  <2>4. ~Unopened(r)
    BY <1>4, <1>6, <1>8, HeldIsOpened DEF Sits
  <2>5. ledgerPhase' = [ledgerPhase EXCEPT ![r] = "closed"]
    <3>1. ~Unopened(r)'
      BY <1>4, <1>5, <1>8, <2>4 DEF Unopened, Sits, Handlers, Actors
    <3>2. ledgerPhase'[r] = "closed"
      BY <1>5, <1>8, <3>1 DEF ledgerPhase
    <3>3. /\ ledgerPhase = [s \in Requests |-> ledgerPhase[s]]
          /\ ledgerPhase' = [s \in Requests |-> ledgerPhase'[s]]
      BY DEF ledgerPhase
    <3> QED
      BY <1>7, <1>8, <3>2, <3>3
  <2>6. ledgerPhase[r] # "new"
    BY <1>8, <2>4 DEF ledgerPhase
  <2> QED
    BY <1>8, <2>1, <2>2, <2>3, <2>5, <2>6 DEF Ledger!Close
<1>9. CASE r \notin Requests
  <2>1. \A b \in Actors, s \in Requests, step \in Answering :
            Sits(b, step, s)' <=> Sits(b, step, s)
    BY <1>3, <1>4, <1>9 DEF Sits, Alone, Answering
  <2>2. ledgerPhase' = ledgerPhase
    BY <1>7, <1>9 DEF ledgerPhase
  <2> QED
    BY <2>1, <2>2, PlacesKept DEF Placed, Answering
<1> QED
  BY <1>8, <1>9

(* ... and is done with it when its file is filled                         *)
LEMMA SaveMaps ==
    ASSUME IInv, NEW a \in Actors, Save(a)
    PROVE  \/ ledgerPhase' = ledgerPhase /\ Placed
           \/ \E r \in Requests : Ledger!End(a, r)
<1>0. PICK r : r = task[a].pick
  OBVIOUS
<1>1. /\ task[a].step = "saving" /\ r \in Ids
      /\ Fill(r, task[a].rec)
      /\ operated' = operated
      /\ task[a].rec \in ApprovalRequest
      /\ task[a].rec.status \in Final
  BY <1>0 DEF Save, history, IInv, TypeOK, Task, StepInv
<1>2. task'[a].step \notin Busy /\ Alone(a)
  BY DEF Save, IInv, TypeOK, Task, Idle, Busy, Alone
<1>3. /\ \A s \in Requests : s # r => file'[s] = file[s]
      /\ file'[r].status \notin {"pending", "missing"}
  BY <1>1, FillUpdate, BlankType DEF IInv, Final, Ids
<1>4. /\ \A b \in Actors, s \in Requests, step \in {"picked", "running", "creating"} :
             Sits(b, step, s)' <=> Sits(b, step, s)
      /\ \A s : ~Sits(a, "saving", s)'
      /\ \A s : Sits(a, "saving", s) <=> s = r
  <2>1. \A b \in Actors, s \in Requests, step \in {"picked", "running", "creating"} :
            Sits(b, step, s)' <=> Sits(b, step, s)
    BY <1>1, <1>2 DEF Sits, Alone, Busy
  <2> QED
    BY <2>1, <1>0, <1>1, <1>2 DEF Sits, Busy
<1>5. r \in Requests => file[r].status # "pending"
  BY <1>0, <1>1 DEF IInv, SavedInv
<1>6. /\ ledgerAt("picked")' = ledgerAt("picked")
      /\ ledgerAt("running")' = ledgerAt("running")
  BY <1>4, PlacesKept
<1>7. ledgerPhase' = ledgerPhase
  <2>1. \A s \in Requests : s # r => ledgerPhase'[s] = ledgerPhase[s]
    BY <1>1, <1>3, <1>4 DEF ledgerPhase, Unopened, Sits, Handlers, Actors
  <2>2. CASE r \in Requests
    <3>1. ~Unopened(r)
      BY <1>4, <2>2, HeldIsOpened
    <3>2. ~Unopened(r)'
      BY <1>3, <1>4, <2>2, <3>1 DEF Unopened, Sits, Handlers, Actors
    <3>3. ledgerPhase[r] = "closed" /\ ledgerPhase'[r] = "closed"
      BY <1>3, <1>5, <2>2, <3>1, <3>2 DEF ledgerPhase
    <3> QED
      BY <2>1, <3>3 DEF ledgerPhase
  <2>3. CASE r \notin Requests
    BY <2>1, <2>3 DEF ledgerPhase
  <2> QED
    BY <2>2, <2>3
<1>8. CASE r \in Requests
  <2>1. ledgerAt("saving")' = [ledgerAt("saving") EXCEPT ![r] = @ \ {a}]
    BY <1>2, <1>4, <1>8, PlaceLeft
  <2>2. a \in ledgerAt("saving")[r]
    BY <1>4, <1>8, AtPlace
  <2> QED
    BY <1>6, <1>7, <1>8, <2>1, <2>2 DEF Ledger!End
<1>9. CASE r \notin Requests
  <2>1. \A b \in Actors, s \in Requests : Sits(b, "saving", s)' <=> Sits(b, "saving", s)
    BY <1>2, <1>4, <1>9 DEF Sits, Alone
  <2> QED
    BY <1>6, <1>7, <2>1, PlacesKept DEF Placed
<1> QED
  BY <1>8, <1>9

(* Who finds the file torn gives up; who raises in a turn was not at it    *)
LEMMA RaiseMaps ==
    ASSUME IInv, NEW a \in Actors, Raise(a)
    PROVE  \/ ledgerPhase' = ledgerPhase /\ Placed
           \/ \E r \in Requests : Ledger!GiveUp(a, r)
<1>1. /\ UNCHANGED <<file, operated>>
      /\ task'[a].step \notin Busy /\ Alone(a)
  BY DEF Raise, history, IInv, TypeOK, Idle, Busy, Alone
<1>2. CASE task[a].step = "turn"
  BY <1>1, <1>2, QuietMaps DEF Busy, Alone
<1>3. CASE task[a].step = "picked" /\ file[task[a].pick].status = "torn"
  <2>0. PICK r : r = task[a].pick
    OBVIOUS
  <2>1. file[r].status = "torn"
    BY <1>3, <2>0
  <2>2. /\ \A b \in Actors, s \in Requests, step \in {"running", "saving", "creating"} :
               Sits(b, step, s)' <=> Sits(b, step, s)
        /\ \A s : ~Sits(a, "picked", s)'
        /\ \A s : Sits(a, "picked", s) <=> s = r
    <3>1. \A b \in Actors, s \in Requests, step \in {"running", "saving", "creating"} :
              Sits(b, step, s)' <=> Sits(b, step, s)
      BY <1>1, <1>3 DEF Sits, Alone, Busy
    <3> QED
      BY <3>1, <1>1, <1>3, <2>0 DEF Sits, Busy
  <2>3. /\ ledgerAt("running")' = ledgerAt("running")
        /\ ledgerAt("saving")' = ledgerAt("saving")
    BY <2>2, PlacesKept
  <2>4. ledgerPhase' = ledgerPhase
    <3>1. \A s \in Requests : Alike(s)
      BY <1>1, <2>2 DEF Alike, Unopened, Sits, Handlers, Actors
    <3> QED
      BY <3>1, PhaseKept
  <2>5. CASE r \in Requests
    <3>1. ledgerAt("picked")' = [ledgerAt("picked") EXCEPT ![r] = @ \ {a}]
      BY <1>1, <2>2, <2>5, PlaceLeft
    <3>2. a \in ledgerAt("picked")[r]
      BY <2>2, <2>5, AtPlace
    <3>3. ledgerPhase[r] \in {"new", "closed"}
      BY <2>1, <2>5 DEF ledgerPhase
    <3> QED
      BY <2>3, <2>4, <2>5, <3>1, <3>2, <3>3 DEF Ledger!GiveUp
  <2>6. CASE r \notin Requests
    <3>1. \A b \in Actors, s \in Requests : Sits(b, "picked", s)' <=> Sits(b, "picked", s)
      BY <1>1, <2>2, <2>6 DEF Sits, Alone
    <3> QED
      BY <2>3, <2>4, <3>1, PlacesKept DEF Placed
  <2> QED
    BY <2>5, <2>6
<1> QED
  BY <1>2, <1>3 DEF Raise

(* A request that is being created is new                                  *)
LEMMA AskMaps ==
    ASSUME IInv, NEW a \in Handlers, Ask(a)
    PROVE  ledgerPhase' = ledgerPhase /\ Placed
<1>1. PICK i \in {made + 1} \cup NamedIds :
          /\ made < MaxRequests /\ task[a].step = "turn"
          /\ file' = [file EXCEPT ![i] = Blank("torn")]
          /\ task'[a].step = "creating" /\ task'[a].pick = i
          /\ Alone(a) /\ operated' = operated
  <2>1. task \in [Actors -> Task] /\ a \in Actors
    BY DEF IInv, TypeOK, Actors
  <2>2. PICK i \in {made + 1} \cup NamedIds, owner \in {task[a].sender} \cup Claims,
             after \in After, asked \in {task[a].asked, made + 1} :
            Write(a, i, owner, after, asked)
    BY DEF Ask
  <2> DEFINE rec == [status |-> "pending", req |-> made + 1, chat |-> task[a].chat,
                     owner |-> owner, after |-> after]
             new == [task[a] EXCEPT !.step = "creating", !.pick = i, !.asked = asked, !.rec = rec]
  <2>3. new.step = "creating" /\ new.pick = i
    <3> HIDE DEF rec
    <3> QED
      BY <2>1 DEF Task
  <2>4. /\ task' = [task EXCEPT ![a] = new]
        /\ made < MaxRequests /\ task[a].step = "turn"
        /\ file' = [file EXCEPT ![i] = Blank("torn")] /\ operated' = operated
    BY <2>2 DEF Write, history
  <2> HIDE DEF new
  <2> QED
    BY <2>1, <2>3, <2>4 DEF Alone
<1>2. /\ a \in Actors /\ file \in [Ids -> ApprovalRequest] /\ i \in Ids
      /\ i \in Requests => file[i].status = "missing"
  BY <1>1, ApprovalAssumption DEF Actors, IInv, TypeOK, FreshInv, Ids, Requests
<1>3. \A b \in Actors, s \in Requests, step \in Answering : Sits(b, step, s)' <=> Sits(b, step, s)
  BY <1>1, <1>2 DEF Sits, Alone, Answering
<1>4. \A b \in Actors, s \in Requests :
          s # i => (Sits(b, "creating", s)' <=> Sits(b, "creating", s))
  BY <1>1, <1>2 DEF Sits, Alone
<1>5. \A s \in Requests : s # i => Alike(s)
  BY <1>1, <1>2, <1>4 DEF Alike, Unopened, Sits, Handlers, Actors, Ids
<1>6. i \in Requests => Unopened(i) /\ Unopened(i)'
  BY <1>1, <1>2 DEF Unopened
<1>7. ledgerPhase' = ledgerPhase
  BY <1>5, <1>6 DEF ledgerPhase, Alike
<1> QED
  BY <1>3, <1>7, PlacesKept DEF Placed, Answering

(* ... and is opened when its creator has filled the file                  *)
LEMMA AskedMaps ==
    ASSUME IInv, NEW a \in Handlers, Asked(a)
    PROVE  \/ ledgerPhase' = ledgerPhase /\ Placed
           \/ \E r \in Requests : Ledger!Open(r)
<1>0. PICK r : r = task[a].pick
  OBVIOUS
<1>1. /\ a \in Actors /\ task[a].step = "creating" /\ r \in Ids
      /\ Fill(r, task[a].rec) /\ operated' = operated
      /\ task[a].rec \in ApprovalRequest /\ task[a].rec.status = "pending"
      /\ file \in [Ids -> ApprovalRequest]
  BY <1>0 DEF Asked, history, Actors, IInv, TypeOK, Task, StepInv
<1>2. task'[a].step = "turn" /\ Alone(a)
  BY <1>1 DEF Asked, IInv, TypeOK, Task, Alone
<1>3. \A b \in Actors, s \in Requests, step \in Answering : Sits(b, step, s)' <=> Sits(b, step, s)
  BY <1>1, <1>2 DEF Sits, Alone, Answering
<1>4. Placed
  BY <1>3, PlacesKept DEF Placed, Answering
<1>5. /\ \A b \in Actors, s \in Requests :
             s # r => (Sits(b, "creating", s)' <=> Sits(b, "creating", s))
      /\ \A s : ~Sits(a, "creating", s)'
  BY <1>0, <1>1, <1>2 DEF Sits, Alone
<1>6. \A s \in Requests : s # r => file'[s] = file[s]
  BY <1>1, FillUpdate DEF IInv, Ids
<1>7. \A s \in Requests : s # r => ledgerPhase'[s] = ledgerPhase[s]
  <2>1. \A s \in Requests : s # r => Alike(s)
    BY <1>1, <1>5, <1>6 DEF Alike, Unopened, Sits, Handlers, Actors
  <2> QED
    BY <2>1 DEF ledgerPhase, Alike
<1>8. /\ ledgerPhase = [s \in Requests |-> ledgerPhase[s]]
      /\ ledgerPhase' = [s \in Requests |-> ledgerPhase'[s]]
  BY DEF ledgerPhase
<1>9. CASE r \notin Requests
  BY <1>4, <1>7, <1>8, <1>9
<1>10. CASE r \in Requests
  <2>1. /\ file[r].status = "torn"
        /\ \A b \in Actors : b # a => ~InHand(b, r)
    BY <1>0, <1>1, <1>10 DEF IInv, CreateInv
  <2>2. file'[r] = task[a].rec
    BY <1>1, <2>1 DEF Fill, Filled
  <2>3. ledgerPhase[r] = "new"
    BY <1>0, <1>1, <1>10 DEF ledgerPhase, Unopened
  <2>4. \A h \in Handlers : ~Sits(h, "creating", r)'
    BY <1>2, <1>5, <2>1 DEF Sits, InHand, Alone, Handlers, Actors
  <2>5. ~Unopened(r)'
    BY <1>1, <2>2, <2>4 DEF Unopened, Sits
  <2>6. ledgerPhase'[r] = IF task[a].rec.owner # Nobody /\ r \notin operated THEN "private"
                          ELSE "shared"
    BY <1>1, <1>10, <2>2, <2>5 DEF ledgerPhase
  <2>7. ASSUME task[a].rec.owner # Nobody, r \notin operated
        PROVE  Ledger!At(r) = {}
    <3> DEFINE o == <<task[a].rec.chat, task[a].rec.owner>>
    <3>1. o \in Asking /\ SeenFrom(r, o)
      BY <1>0, <1>1 DEF SeenFrom, InHand, Asking, ApprovalRequest
    <3>2. Private(r)
      BY <2>7, <3>1 DEF Private
    <3>3. ASSUME NEW b \in Actors, Answers(b, r)
          PROVE  FALSE
      <4>1. b \in Handlers
        BY <1>10, <3>2, <3>3, OneAnswers
      <4>2. task[b].step = "picked" /\ task[b].pick = r
        BY <1>1, <2>1, <3>3 DEF Answers, Answering, InHand
      <4> QED
        BY <1>10, <2>1, <3>2, <4>1, <4>2 DEF IInv, PickedInv
    <3> QED
      BY <1>10, <3>3 DEF Ledger!At, ledgerAt, Answers, Answering
  <2>8. \/ Ledger!At(r) = {} /\ ledgerPhase'[r] = "private"
        \/ ledgerPhase'[r] = "shared"
    BY <2>6, <2>7
  <2>9. \/ Ledger!At(r) = {} /\ ledgerPhase' = [ledgerPhase EXCEPT ![r] = "private"]
        \/ ledgerPhase' = [ledgerPhase EXCEPT ![r] = "shared"]
    BY <1>7, <1>8, <1>10, <2>8
  <2> QED
    BY <1>4, <1>10, <2>3, <2>9 DEF Ledger!Open, Placed
<1> QED
  BY <1>9, <1>10

(* Who dies is at no request; what it was creating will not be opened      *)
LEMMA DyingMaps ==
    ASSUME IInv, NEW A \in SUBSET Actors, Dying(A)
    PROVE  Ledger!Die(A)
<1>1. /\ UNCHANGED <<file, operated>>
      /\ \A b \in Actors : b \in A => task'[b].step = "idle"
      /\ \A b \in Actors : b \notin A => task'[b] = task[b]
  BY DEF Dying, Idle
<1>2. \A step \in Busy, b \in Actors, s \in Requests :
          Sits(b, step, s)' <=> Sits(b, step, s) /\ b \notin A
  BY <1>1 DEF Sits, Busy
<1>3. \A step \in Answering :
          ledgerAt(step)' = [r \in Requests |-> ledgerAt(step)[r] \ A]
  <2> TAKE step \in Answering
  <2>1. /\ ledgerAt(step) = [s \in Requests |-> {b \in Actors : Sits(b, step, s)}]
        /\ ledgerAt(step)' = [s \in Requests |-> {b \in Actors : Sits(b, step, s)'}]
    BY DEF ledgerAt, Sits
  <2>2. \A s \in Requests :
            {b \in Actors : Sits(b, step, s)'} = {b \in Actors : Sits(b, step, s)} \ A
    BY <1>2 DEF Answering, Busy
  <2> QED
    BY <2>1, <2>2
<1> DEFINE lost == {r \in Requests : Unopened(r) /\ ~Unopened(r)'}
<1>4. lost \in SUBSET {r \in Requests : ledgerPhase[r] = "new"}
  BY DEF ledgerPhase
<1>5. \A r \in Requests : ledgerPhase'[r] = IF r \in lost THEN "closed" ELSE ledgerPhase[r]
  <2> TAKE r \in Requests
  <2>1. CASE r \in lost
    <3>1. PICK h \in Handlers : task[h].step = "creating" /\ task[h].pick = r
      BY <1>1, <2>1 DEF Unopened
    <3>2. file[r].status = "torn"
      BY <3>1 DEF IInv, CreateInv, Actors
    <3> QED
      BY <1>1, <2>1, <3>2 DEF ledgerPhase
  <2>2. CASE r \notin lost
    <3>1. Unopened(r)' => Unopened(r)
      BY <1>1, <1>2 DEF Unopened, Sits, Busy, Handlers, Actors
    <3> QED
      BY <1>1, <2>2, <3>1 DEF ledgerPhase
  <2> QED
    BY <2>1, <2>2
<1>6. ledgerPhase' = [r \in Requests |-> IF r \in lost THEN "closed" ELSE ledgerPhase[r]]
  <2>1. ledgerPhase' = [r \in Requests |-> ledgerPhase'[r]]
    BY DEF ledgerPhase
  <2> HIDE DEF lost
  <2> QED
    BY <1>5, <2>1
<1> HIDE DEF lost
<1> QED
  BY <1>3, <1>4, <1>6 DEF Ledger!Die, Answering

(* An actor begins something that is no answer to a request                *)
LEMMA BeginMaps ==
    ASSUME IInv, NEW h \in Handlers, NEW new \in Task, Begin(h, new), new.step \notin Busy
    PROVE  ledgerPhase' = ledgerPhase /\ Placed
<1>1. /\ h \in Actors /\ task[h].step = "idle" /\ UNCHANGED <<file, operated>>
      /\ task' = [task EXCEPT ![h] = new]
  BY ApprovalAssumption DEF Begin, Idle, Actors
<1> QED
  BY <1>1, TaskUpdate, QuietMaps DEF IInv, Busy

LEMMA MessageMaps ==
    ASSUME IInv, NEW h \in Handlers, Message(h)
    PROVE  ledgerPhase' = ledgerPhase /\ Placed
<1>1. PICK o \in Origins(h) :
          Begin(h, [Event(o[1], o[2], "none", NoId) EXCEPT !.step = "turn"])
  BY DEF Message
<1> DEFINE e == Event(o[1], o[2], "none", NoId)
<1>2. e \in Task
  BY EventType
<1> HIDE DEF e
<1>3. [e EXCEPT !.step = "turn"] \in Task /\ [e EXCEPT !.step = "turn"].step \notin Busy
  BY <1>2 DEF Task, Busy
<1> QED
  BY <1>1, <1>3, BeginMaps DEF e

LEMMA DecideMaps ==
    ASSUME IInv, NEW h \in Handlers, Decide(h)
    PROVE  \/ ledgerPhase' = ledgerPhase /\ Placed
           \/ \E r \in Requests : Ledger!Pick(h, r)
<1>1. PICK o \in Origins(h), d \in Decision :
          \E wants \in {NoId} \cup (IF h = Waker THEN {} ELSE buttons[o[1]]) :
              \/ Begin(h, Idle)
              \/ Begin(h, [Event(o[1], o[2], "none", NoId) EXCEPT !.step = "turn"])
              \/ \E i \in Picks(Pending(o[1], o[2]), wants) :
                     Begin(h, [Event(o[1], o[2], d, wants) EXCEPT
                                   !.step = "picked", !.pick = i, !.after = file[i].after])
  BY DEF Decide
<1>2. PICK wants \in {NoId} \cup (IF h = Waker THEN {} ELSE buttons[o[1]]) :
          \/ Begin(h, Idle)
          \/ Begin(h, [Event(o[1], o[2], "none", NoId) EXCEPT !.step = "turn"])
          \/ \E i \in Picks(Pending(o[1], o[2]), wants) :
                 Begin(h, [Event(o[1], o[2], d, wants) EXCEPT
                               !.step = "picked", !.pick = i, !.after = file[i].after])
  BY <1>1
<1> DEFINE e == Event(o[1], o[2], d, wants)
<1>3. wants \in Ids \cup {NoId}
  BY ApprovalAssumption DEF Origins, Handlers, Ids, IInv, TypeOK
<1>4. e \in Task /\ e.chat = o[1] /\ e.sender = o[2]
  BY <1>3, EventType
<1>5. CASE Begin(h, Idle)
  BY <1>5, IdleType, BeginMaps DEF Idle, Busy
<1>6. CASE Begin(h, [Event(o[1], o[2], "none", NoId) EXCEPT !.step = "turn"])
  BY <1>6, MessageMaps DEF Message
<1>7. ASSUME NEW i \in Picks(Pending(o[1], o[2]), wants),
             Begin(h, [e EXCEPT !.step = "picked", !.pick = i, !.after = file[i].after])
      PROVE  \/ ledgerPhase' = ledgerPhase /\ Placed
             \/ \E r \in Requests : Ledger!Pick(h, r)
  <2> HIDE DEF e
  <2>1. /\ i \in Ids
        /\ file[i].status = "pending"
        /\ file[i].chat = o[1]
        /\ file[i].owner \in {Nobody, o[2]}
        /\ <<o[1], o[2]>> \in Origins(h)
    BY <1>7 DEF Picks, Pending, RequesterMatches, Origins
  <2>2. PICK after \in After : after = file[i].after
    BY <2>1 DEF IInv, TypeOK, ApprovalRequest
  <2> DEFINE new == [e EXCEPT !.step = "picked", !.pick = i, !.after = after]
  <2>3. /\ new \in Task
        /\ new.step = "picked" /\ new.pick = i
        /\ new.chat = o[1] /\ new.sender = o[2]
    BY <1>4, <2>1 DEF Task
  <2>4. Begin(h, new)
    BY <1>7, <2>2
  <2> HIDE DEF new
  <2>5. /\ file[new.pick].status = "pending"
        /\ file[new.pick].chat = new.chat
        /\ file[new.pick].owner \in {Nobody, new.sender}
        /\ <<new.chat, new.sender>> \in Origins(h)
        /\ new.pick \in Ids /\ h \in Actors
    BY <2>1, <2>3 DEF Actors
  <2> QED
    BY <2>3, <2>4, <2>5, PickMaps, ApprovalAssumption
<1> QED
  BY <1>2, <1>5, <1>6, <1>7

LEMMA RespondMaps ==
    ASSUME IInv, NEW o \in Operators, Respond(o)
    PROVE  \/ ledgerPhase' = ledgerPhase /\ Placed
           \/ \E r \in Requests : Ledger!Force(o, r)
<1>1. PICK i \in Ids, d \in Decision :
          Begin(o, [Event(NoId, Nobody, d, NoId) EXCEPT !.step = "picked", !.pick = i])
  BY DEF Respond
<1> DEFINE new == [Event(NoId, Nobody, d, NoId) EXCEPT !.step = "picked", !.pick = i]
<1>2. new \in Task /\ new.step = "picked" /\ new.pick = i
  BY IdleType DEF Event, Idle, Task
<1>3. o \in Actors /\ o \notin Handlers
  BY ApprovalAssumption DEF Actors
<1> HIDE DEF new
<1>4. Begin(o, new)
  BY <1>1 DEF new
<1> QED
  BY <1>2, <1>3, <1>4, PickMaps

LEMMA ResolvingMaps ==
    ASSUME IInv, NEW a \in Actors, Resolving(a)
    PROVE  \/ ledgerPhase' = ledgerPhase /\ Placed
           \/ \E r \in Requests : Ledger!Start(a, r) \/ Ledger!Close(a, r) \/ Ledger!End(a, r)
<1>1. CASE Approve(a)
  BY <1>1, ApproveMaps
<1>2. CASE Refuse(a)
  BY <1>2, RecordMaps DEF Refuse
<1>3. CASE Execute(a)
  BY <1>3, RecordMaps DEF Execute
<1>4. CASE Save(a)
  BY <1>4, SaveMaps
<1> QED
  BY <1>1, <1>2, <1>3, <1>4 DEF Resolving

LEMMA ConversingMaps ==
    ASSUME IInv, NEW h \in Handlers, Conversing(h)
    PROVE  \/ ledgerPhase' = ledgerPhase /\ Placed
           \/ \E r \in Requests : Ledger!Open(r)
<1>1. h \in Actors /\ task[h] \in Task /\ task \in [Actors -> Task]
  BY DEF IInv, TypeOK, Actors
<1>2. CASE Resume(h) \/ Reply(h) \/ EndTurn(h)
  <2>1. UNCHANGED <<file, operated>> /\ task[h].step \notin Busy
    BY <1>2 DEF Resume, Reply, EndTurn, history, Busy
  <2>2. PICK new : task' = [task EXCEPT ![h] = new] /\ new.step \notin Busy
    <3>1. CASE Resume(h)
      <4> DEFINE new == [task[h] EXCEPT !.step = "turn", !.resuming = TRUE]
      <4>1. new.step \notin Busy
        BY <1>1, TurnType
      <4> QED
        BY <3>1, <4>1 DEF Resume
    <3>2. CASE Reply(h)
      <4> DEFINE new == [task[h] EXCEPT !.step = "turn"]
      <4>1. new.step \notin Busy /\ Idle.step \notin Busy
        BY <1>1, TurnType DEF Idle, Busy
      <4>2. task' = [task EXCEPT ![h] = Idle] \/ task' = [task EXCEPT ![h] = new]
        BY <3>2 DEF Reply
      <4> HIDE DEF new
      <4> QED
        BY <4>1, <4>2
    <3>3. CASE EndTurn(h)
      <4> DEFINE end == [task[h] EXCEPT !.step = "answered", !.resuming = FALSE,
                                        !.resumed = TRUE, !.asked = NoId]
                 new == IF task[h].resuming THEN end ELSE Idle
      <4>1. end.step \notin Busy /\ Idle.step \notin Busy
        BY <1>1 DEF Task, Idle, Busy
      <4>2. task' = [task EXCEPT ![h] = new]
        BY <3>3 DEF EndTurn
      <4> HIDE DEF end
      <4>3. new.step \notin Busy
        BY <4>1
      <4> HIDE DEF new
      <4> QED
        BY <4>2, <4>3
    <3> QED
      BY <1>2, <3>1, <3>2, <3>3
  <2>3. task'[h] = new /\ \A b \in Actors : b # h => task'[b] = task[b]
    BY <1>1, <2>2
  <2> QED
    BY <2>1, <2>2, <2>3, QuietMaps
<1>3. CASE Ask(h)
  BY <1>3, AskMaps
<1>4. CASE Asked(h)
  BY <1>4, AskedMaps
<1> QED
  BY <1>2, <1>3, <1>4 DEF Conversing

(* Every step of the workflow is a step of the ledger, or none             *)
LEMMA StepMaps == IInv /\ [Next]_vars => [Ledger!LedgerNext]_(Ledger!ledgerVars)
<1> DEFINE Same == ledgerPhase' = ledgerPhase /\ Placed
<1> SUFFICES ASSUME IInv, [Next]_vars
             PROVE  Ledger!LedgerNext \/ Same
  BY DEF Ledger!ledgerVars, Placed
<1> USE DEF Ledger!LedgerNext
<1>1. ASSUME NEW h \in Handlers, Message(h) \/ Decide(h) \/ Conversing(h)
      PROVE  Ledger!LedgerNext \/ Same
  BY <1>1, MessageMaps, DecideMaps, ConversingMaps
<1>2. ASSUME NEW o \in Operators, Respond(o)
      PROVE  Ledger!LedgerNext \/ Same
  BY <1>2, RespondMaps
<1>3. ASSUME NEW o \in Operators, Kill(o)
      PROVE  Ledger!LedgerNext \/ Same
  <2>1. {o} \in SUBSET Actors
    BY DEF Actors
  <2> QED
    BY <1>3, <2>1, DyingMaps DEF Kill
<1>4. ASSUME NEW a \in Actors, Resolving(a) \/ Raise(a)
      PROVE  Ledger!LedgerNext \/ Same
  BY <1>4, ResolvingMaps, RaiseMaps DEF Actors
<1>5. CASE Crash
  <2>1. Handlers \in SUBSET Actors
    BY DEF Actors
  <2> QED
    BY <1>5, <2>1, DyingMaps DEF Crash
<1>6. CASE UNCHANGED vars
  BY <1>6, QuietMaps DEF vars, history
<1> QED
  BY <1>1, <1>2, <1>3, <1>4, <1>5, <1>6 DEF Next

(* The workflow implements the ledger: a request is closed once and for    *)
(* all, a thread answers only an open one, and a user's own request is     *)
(* never answered by two at a time, however the handlers, the operators'   *)
(* commands, the file writes and the deaths interleave.                    *)
THEOREM Refinement == Spec => KeepsLedger
<1>1. Init => Ledger!LedgerInit
  BY DEF Init, Ledger!LedgerInit, ledgerPhase, ledgerAt, Unopened, Blank, Idle, Ids
<1> QED
  BY <1>1, StepMaps, Invariance, PTL DEF Spec, KeepsLedger, Ledger!LedgerSpec
=============================================================================
