--------------------------- MODULE ProviderAuthProofs ---------------------------
(***************************************************************************)
(* Proofs about ProviderAuth, for every number of clients, sessions,       *)
(* tokens and faults, whether or not the service rotates refresh tokens.   *)
(*                                                                         *)
(* A token that a client is about to store is known to nobody else         *)
(* (TokenInv): so only the client that exchanged a token can have it       *)
(* withdrawn, and that client is about to store the next one.              *)
(***************************************************************************)
EXTENDS ProviderAuth, TLAPS

(* Where a client is, and what it holds there. *)
Sound(x) ==
    /\ x.at # "idle" => x.op # "none"
    /\ x.at \in {"session", "redeem"} => x.op = "complete"
    /\ x.op = "complete" => x.session \in Sessions
    /\ x.at = "exchange" => x.op = "use" /\ x.held \in Credential
    /\ x.at \in {"idle", "session", "load", "exchange", "begin", "redeem"} => x.new = NoFile
    /\ x.at \in {"truncate", "fill"} =>
           /\ x.new \in Credential
           /\ x.op \in {"use", "complete"}
           /\ x.op = "use" => x.held \in Credential

SessionInv ==
    /\ SessionHeld
    /\ \A c \in Clients :
           At(c, "unlink") /\ client[c].op = "complete" => client[c].session \in stored

LogoutInv ==
    out => ~Authenticated /\ \A c \in Clients : ~Refreshing(c)

(* A client that is about to store a credential. *)
Storing(c) == client[c].at \in {"truncate", "fill"}

(* Every token is one that was issued. *)
KnownInv ==
    /\ service.live \subseteq 1 .. service.issued
    /\ Authenticated => file.refresh <= service.issued
    /\ \A c \in Clients : /\ client[c].held.refresh <= service.issued
                          /\ client[c].new.refresh <= service.issued

(* With rotation, a token that is about to be stored is nowhere else. *)
FreshInv ==
    \A c \in Clients : Storing(c) =>
        /\ client[c].new.refresh \in service.live
        /\ Rotates => /\ Authenticated => file.refresh # client[c].new.refresh
                      /\ \A d \in Clients :
                             /\ Refreshing(d) => client[d].held.refresh # client[c].new.refresh
                             /\ Storing(d) /\ d # c =>
                                    client[d].new.refresh # client[c].new.refresh

(* Without rotation no token is ever withdrawn. *)
SteadyInv ==
    ~Rotates => /\ Authenticated => file.refresh \in service.live
                /\ \A c \in Clients : Refreshing(c) => client[c].held.refresh \in service.live

(* A client that lost the file it was writing does not find its old token  *)
(* in the new one.                                                         *)
GoneInv ==
    \A c \in Clients :
        At(c, "fill") /\ Refreshing(c) /\ client[c].gone /\ Rotates /\ Authenticated =>
            file.refresh # client[c].held.refresh

TokenInv == KnownInv /\ FreshInv /\ SteadyInv /\ GoneInv /\ StaysSignedIn

IInv ==
    /\ TypeOK
    /\ \A c \in Clients : Sound(client[c])
    /\ SessionInv
    /\ LogoutInv
    /\ TokenInv

----
(* The types of a client and of the service. *)
ClientType ==
    [op : Ops \cup {"none"},
     at : {"idle", "session", "load", "exchange", "begin", "redeem",
           "truncate", "fill", "unlink"},
     held : Credential \cup {NoFile}, new : Credential \cup {NoFile},
     session : Sessions \cup {NoSession}, tries : 0 .. MaxTries - 1, gone : BOOLEAN]

LEMMA IdleType == Idle \in ClientType /\ Sound(Idle) /\ 0 \in 0 .. MaxTries - 1
BY ProviderAuthConstants DEF Idle, ClientType, Sound

(* The clients after a step in which only c moves. *)
LEMMA OneMoves ==
    ASSUME IInv, NEW c \in Clients, NEW x \in ClientType, Sound(x),
           client' = [client EXCEPT ![c] = x]
    PROVE  /\ client' \in [Clients -> ClientType]
           /\ \A d \in Clients : Sound(client'[d])
           /\ client'[c] = x
           /\ \A d \in Clients : d # c => client'[d] = client[d]
BY DEF IInv, TypeOK, ClientType

(* A token that the service issues. *)
LEMMA IssueType ==
    ASSUME TypeOK, CanIssue, NEW withdrawn
    PROVE  /\ Issue(withdrawn) \in [issued : 0 .. MaxTokens, live : SUBSET Tokens, fresh : SUBSET Tokens]
           /\ Issued \in Tokens /\ Issued = service.issued + 1
           /\ Issue(withdrawn).issued = Issued
           /\ Issue(withdrawn).live = (service.live \ withdrawn) \cup {Issued}
BY ProviderAuthConstants DEF TypeOK, CanIssue, Issue, Issued, Tokens

(* Where a client goes in a step of its own, other than a logout's last. *)
LEMMA Moves ==
    ASSUME IInv, NEW c \in Clients, Begin(c) \/ Step(c) \/ Die(c), ~(Unlink(c))
    PROVE  /\ client' \in [Clients -> ClientType]
           /\ \A d \in Clients : Sound(client'[d])
           /\ \A d \in Clients : d # c => client'[d] = client[d]
<1> USE DEF IInv
<1>1. client[c] \in ClientType /\ Sound(client[c]) /\ client \in [Clients -> ClientType]
  BY DEF TypeOK, ClientType
<1>2. SUFFICES \E x \in ClientType : Sound(x) /\ client' = [client EXCEPT ![c] = x]
  BY OneMoves
<1>3. CASE Ends(c)
  BY <1>3, IdleType DEF Ends
<1>4. CASE UNCHANGED client
  BY <1>1, <1>4
<1>5. ASSUME NEW x \in ClientType, Sound(x), client' = [client EXCEPT ![c] = x]
      PROVE  \E y \in ClientType : Sound(y) /\ client' = [client EXCEPT ![c] = y]
  BY <1>5
<1>6. CASE Begin(c)
  <2>1. PICK op \in Ops, s \in Sessions \cup {NoSession} :
            /\ client' = [client EXCEPT ![c] =
                 [Idle EXCEPT !.op = op, !.session = s,
                              !.at = IF op = "complete" THEN "session" ELSE "load"]]
            /\ op = "complete" => s \in Sessions
    BY <1>6 DEF Begin, Start, Ops
  <2> DEFINE x == [Idle EXCEPT !.op = op, !.session = s,
                               !.at = IF op = "complete" THEN "session" ELSE "load"]
  <2>2. /\ x.op = op /\ x.session = s /\ x.held = NoFile /\ x.new = NoFile
        /\ x.at \in {"session", "load"} /\ (x.at = "session" => op = "complete")
    BY DEF Idle
  <2>3. x \in ClientType
    BY IdleType DEF Idle, ClientType, Ops
  <2>4. Sound(x)
    BY <2>1, <2>2 DEF Sound, Ops
  <2> QED
    BY <1>5, <2>1, <2>3, <2>4
<1>7. CASE ReadSession(c)
  <2>1. CASE Goes(c, "load")
    <3> DEFINE x == [client[c] EXCEPT !.at = "load", !.tries = 0]
    <3>1. client' = [client EXCEPT ![c] = x]
      BY <2>1 DEF Goes
    <3>2. x \in ClientType /\ Sound(x)
      BY <1>1, <1>7, IdleType DEF ReadSession, At, ClientType, Sound
    <3> QED
      BY <1>5, <3>1, <3>2
  <2> QED
    BY <1>3, <1>7, <2>1 DEF ReadSession
<1>8. CASE Load(c)
  <2>1. CASE Ends(c)
    BY <1>3, <2>1
  <2>2. CASE /\ Parses /\ After(client[c].op) # "idle"
             /\ client' = [client EXCEPT ![c].at = After(client[c].op), ![c].held = file]
    <3> DEFINE stage == After(client[c].op)  x == [client[c] EXCEPT !.at = stage, !.held = file]
    <3>1. client' = [client EXCEPT ![c] = x]
      BY <2>2
    <3>2. file \in Credential \cup {NoFile}
      BY <2>2 DEF Parses, TypeOK
    <3>3. client[c].op \in Ops /\ client[c].new = NoFile
      BY <1>1, <1>8 DEF Load, At, Sound, ClientType
    <3>4. \/ stage \in {"begin", "unlink"}
          \/ stage = "redeem" /\ client[c].op = "complete"
          \/ stage = "exchange" /\ client[c].op = "use" /\ file # NoFile
      BY <2>2, <3>3 DEF After, NeedsRefresh, Ops
    <3> HIDE DEF stage
    <3>5. x \in ClientType
      BY <1>1, <3>2, <3>4 DEF ClientType
    <3>6. Sound(x)
      BY <1>1, <3>2, <3>3, <3>4 DEF ClientType, Sound, Ops
    <3> QED
      BY <1>5, <3>1, <3>5, <3>6
  <2> QED
    BY <1>8, <2>1, <2>2 DEF Load
<1>9. ASSUME client[c].at \in {"exchange", "begin", "redeem"}, Retries(c)
      PROVE  \E y \in ClientType : Sound(y) /\ client' = [client EXCEPT ![c] = y]
  <2>1. CASE client[c].tries + 1 < MaxTries
    <3> DEFINE x == [client[c] EXCEPT !.tries = @ + 1]
    <3>1. client' = [client EXCEPT ![c] = x]
      BY <1>9, <2>1 DEF Retries
    <3>2. client[c].tries + 1 \in 0 .. MaxTries - 1
      BY <1>1, <2>1, ProviderAuthConstants DEF ClientType
    <3>3. x \in ClientType /\ Sound(x)
      BY <1>1, <3>2 DEF ClientType, Sound
    <3> QED
      BY <1>5, <3>1, <3>3
  <2> QED
    BY <1>3, <1>9, <2>1 DEF Retries
<1>10. CASE NoAnswer(c)
  BY <1>9, <1>10 DEF NoAnswer
<1>11. CASE Exchange(c)
  <2>1. CASE CanIssue /\ client' = [client EXCEPT ![c].at = "truncate", ![c].new = Refreshed(client[c].held)]
    <3> DEFINE x == [client[c] EXCEPT !.at = "truncate", !.new = Refreshed(client[c].held)]
    <3>1. client' = [client EXCEPT ![c] = x]
      BY <2>1
    <3>2. client[c].held \in Credential /\ client[c].op = "use"
      BY <1>1, <1>11 DEF Exchange, At, Sound
    <3>3. Refreshed(client[c].held) \in Credential
      BY <2>1, <3>2, IssueType DEF Refreshed, Credential
    <3>4. x \in ClientType /\ Sound(x)
      BY <1>1, <3>2, <3>3 DEF ClientType, Sound
    <3> QED
      BY <1>5, <3>1, <3>4
  <2> QED
    BY <1>3, <1>9, <1>11, <2>1 DEF Exchange, At
<1>12. CASE BeginSession(c)
  BY <1>3, <1>12 DEF BeginSession
<1>13. CASE Redeem(c)
  <2>1. CASE CanIssue /\ client' = [client EXCEPT ![c].at = "truncate",
                                     ![c].new = [access |-> Issued, refresh |-> Issued]]
    <3> DEFINE new == [access |-> Issued, refresh |-> Issued]
               x == [client[c] EXCEPT !.at = "truncate", !.new = new]
    <3>1. client' = [client EXCEPT ![c] = x]
      BY <2>1
    <3>2. client[c].op = "complete"
      BY <1>1, <1>13 DEF Redeem, At, Sound
    <3>3. new \in Credential
      BY <2>1, IssueType DEF Credential
    <3>4. x \in ClientType /\ Sound(x)
      BY <1>1, <3>2, <3>3 DEF ClientType, Sound
    <3> QED
      BY <1>5, <3>1, <3>4
  <2> QED
    BY <1>3, <1>9, <1>13, <2>1 DEF Redeem, StillPending, Spend, At
<1>14. ASSUME NEW stage \in {"fill", "unlink"}, Goes(c, stage), Storing(c)
       PROVE  \E y \in ClientType : Sound(y) /\ client' = [client EXCEPT ![c] = y]
  <2> DEFINE x == [client[c] EXCEPT !.at = stage, !.tries = 0]
  <2>1. client' = [client EXCEPT ![c] = x]
    BY <1>14 DEF Goes
  <2>2. x \in ClientType /\ Sound(x)
    BY <1>1, <1>14, IdleType DEF Storing, ClientType, Sound
  <2> QED
    BY <1>5, <2>1, <2>2
<1>15. CASE Truncate(c)
  BY <1>14, <1>15 DEF Truncate, At, Storing
<1>16. CASE Fill(c)
  BY <1>3, <1>14, <1>16 DEF Fill, At, Storing
<1>17. CASE EndLogin(c)
  BY <1>3, <1>17 DEF EndLogin
<1>18. CASE Die(c)
  BY <1>3, <1>18 DEF Die
<1> QED
  BY <1>6, <1>7, <1>8, <1>10, <1>11, <1>12, <1>13, <1>15, <1>16, <1>17, <1>18 DEF Step

(* A logout's last step: the clients that are writing lose the file. *)
LEMMA UnlinkMoves ==
    ASSUME IInv, NEW c \in Clients, Unlink(c)
    PROVE  /\ client' \in [Clients -> ClientType]
           /\ \A d \in Clients : Sound(client'[d])
           /\ client'[c] = Idle
           /\ \A d \in Clients : d # c =>
                  /\ client'[d].op = client[d].op /\ client'[d].at = client[d].at
                  /\ client'[d].held = client[d].held /\ client'[d].new = client[d].new
                  /\ client'[d].session = client[d].session
                  /\ client'[d].gone = (client[d].gone \/ client[d].at = "fill")
<1> USE DEF IInv
<1>1. client' = [d \in Clients |-> IF d = c THEN Idle
                       ELSE [client[d] EXCEPT !.gone = @ \/ client[d].at = "fill"]]
  BY DEF Unlink, Unlinked
<1>2. ASSUME NEW d \in Clients
      PROVE  LET x == [client[d] EXCEPT !.gone = @ \/ client[d].at = "fill"] IN
             x \in ClientType /\ Sound(x)
  <2>1. client[d] \in ClientType /\ Sound(client[d])
    BY DEF TypeOK, ClientType
  <2>2. (client[d].gone \/ client[d].at = "fill") \in BOOLEAN
    OBVIOUS
  <2> QED
    BY <2>1, <2>2 DEF ClientType, Sound
<1>3. ASSUME NEW d \in Clients, d # c
      PROVE  /\ client'[d].op = client[d].op /\ client'[d].at = client[d].at
             /\ client'[d].held = client[d].held /\ client'[d].new = client[d].new
             /\ client'[d].session = client[d].session
             /\ client'[d].gone = (client[d].gone \/ client[d].at = "fill")
  <2>1. client[d] \in ClientType
    BY DEF TypeOK, ClientType
  <2> QED
    BY <1>1, <1>3, <2>1 DEF ClientType
<1> QED
  BY <1>1, <1>2, <1>3, IdleType

(* Where the steps of a client lead. *)
LEMMA Leads ==
    ASSUME IInv, NEW c \in Clients, Begin(c) \/ Step(c) \/ Die(c), ~Unlink(c)
    PROVE  \/ Ends(c) /\ client'[c] = Idle
           \/ Begin(c) /\ client'[c].at \in {"session", "load"} /\ client'[c].new = NoFile
           \/ /\ client'[c].op = client[c].op /\ client'[c].session = client[c].session
              /\ \/ ReadSession(c) /\ client'[c].at = "load"
                 \/ Load(c) /\ Parses /\ client'[c].at = After(client[c].op) /\ client'[c].held = file
                 \/ /\ client'[c].at = client[c].at /\ client[c].at \in {"exchange", "begin", "redeem"}
                    /\ client'[c].held = client[c].held
                 \/ /\ Exchange(c) \/ Redeem(c)
                    /\ client'[c].at = "truncate" /\ client'[c].held = client[c].held
                 \/ /\ Truncate(c) /\ client'[c].at = "fill" /\ client'[c].held = client[c].held
                    /\ client'[c].new = client[c].new /\ client'[c].gone = client[c].gone
                 \/ Fill(c) /\ client[c].op = "complete" /\ client'[c].at = "unlink"
<1> USE DEF IInv
<1>1. client[c] \in ClientType /\ client \in [Clients -> ClientType]
  BY DEF TypeOK, ClientType
<1>2. Ends(c) => client'[c] = Idle
  BY <1>1 DEF Ends
<1>3. Begin(c) => client'[c].at \in {"session", "load"} /\ client'[c].new = NoFile
  <2>1. ASSUME NEW op, NEW x, Start(c, op, x)
        PROVE  client'[c].at \in {"session", "load"} /\ client'[c].new = NoFile
    <3>1. client'[c] = [Idle EXCEPT !.op = op, !.session = x,
                                    !.at = IF op = "complete" THEN "session" ELSE "load"]
      BY <1>1, <2>1 DEF Start
    <3> QED
      BY <3>1 DEF Idle
  <2> QED
    BY <2>1 DEF Begin
<1>4. \A stage : Goes(c, stage) => /\ client'[c].at = stage /\ client'[c].op = client[c].op
                                 /\ client'[c].session = client[c].session
                                 /\ client'[c].held = client[c].held
                                 /\ client'[c].new = client[c].new
                                 /\ client'[c].gone = client[c].gone
  BY <1>1 DEF Goes, ClientType
<1>5. Retries(c) => \/ Ends(c)
                    \/ /\ client'[c].at = client[c].at /\ client'[c].op = client[c].op
                       /\ client'[c].session = client[c].session
                       /\ client'[c].held = client[c].held
  BY <1>1 DEF Retries, ClientType
<1>6. Load(c) => \/ Ends(c)
                 \/ /\ Parses /\ client'[c].at = After(client[c].op) /\ client'[c].held = file
                    /\ client'[c].op = client[c].op /\ client'[c].session = client[c].session
  BY <1>1 DEF Load, ClientType
<1>7. Exchange(c) \/ Redeem(c) =>
          \/ Ends(c)
          \/ Retries(c) /\ client[c].at \in {"exchange", "redeem"}
          \/ /\ client'[c].at = "truncate" /\ client'[c].op = client[c].op
             /\ client'[c].session = client[c].session
             /\ client'[c].held = client[c].held
  BY <1>1 DEF Exchange, Redeem, StillPending, At, ClientType
<1>8. NoAnswer(c) => Retries(c) /\ client[c].at \in {"exchange", "begin", "redeem"}
  BY DEF NoAnswer
<1>9. ReadSession(c) => Ends(c) \/ Goes(c, "load")
  BY DEF ReadSession
<1>10. Fill(c) => Ends(c) \/ (Goes(c, "unlink") /\ client[c].op = "complete")
  BY DEF Fill
<1>11. BeginSession(c) \/ EndLogin(c) \/ Die(c) => Ends(c)
  BY DEF BeginSession, EndLogin, Die
<1>12. Truncate(c) => Goes(c, "fill")
  BY DEF Truncate
<1>13. CASE Begin(c)
  BY <1>3, <1>13
<1>14. CASE Exchange(c) \/ Redeem(c) \/ NoAnswer(c)
  BY <1>2, <1>5, <1>7, <1>8, <1>14
<1>15. CASE ReadSession(c) \/ Load(c)
  BY <1>2, <1>4, <1>6, <1>9, <1>15
<1>16. CASE Fill(c) \/ Truncate(c) \/ BeginSession(c) \/ EndLogin(c) \/ Die(c)
  BY <1>2, <1>4, <1>10, <1>11, <1>12, <1>16
<1> QED
  BY <1>13, <1>14, <1>15, <1>16 DEF Step

(* The actors' steps, one by one. *)
LEMMA StepSplit ==
    ASSUME [Next]_vars
    PROVE  \/ UNCHANGED vars
           \/ \E c \in Clients : Begin(c) \/ Step(c) \/ Die(c)
           \/ \E k \in Tokens : Expire(k)
           \/ \E s \in Sessions : Approve(s)
BY DEF Next

LEMMA SessionType ==
    ASSUME TypeOK, NEW s \in Sessions, NEW code \in {"pending", "granted", "spent"}
    PROVE  LET T == [Sessions -> [there : BOOLEAN,
                                  code : {"none", "pending", "granted", "spent"}]] IN
           /\ [session EXCEPT ![s].code = code] \in T
           /\ [session EXCEPT ![s].there = FALSE] \in T
           /\ [session EXCEPT ![s] = [there |-> TRUE, code |-> code]] \in T
           /\ [session EXCEPT ![s].there = FALSE][s].there = FALSE
           /\ [session EXCEPT ![s].there = FALSE][s].code = session[s].code
           /\ [session EXCEPT ![s].code = code][s].there = session[s].there
           /\ [session EXCEPT ![s].code = code][s].code = code
<1> DEFINE R == [there : BOOLEAN, code : {"none", "pending", "granted", "spent"}]
<1>1. session \in [Sessions -> R] /\ session[s] \in R
  BY DEF TypeOK
<1>2. [session EXCEPT ![s] = [there |-> TRUE, code |-> code]] \in [Sessions -> R]
  BY <1>1
<1>3. /\ [session EXCEPT ![s].code = code] \in [Sessions -> R]
      /\ [session EXCEPT ![s].code = code][s].there = session[s].there
      /\ [session EXCEPT ![s].code = code][s].code = code
  BY <1>1
<1>4. /\ [session EXCEPT ![s].there = FALSE] \in [Sessions -> R]
      /\ [session EXCEPT ![s].there = FALSE][s].there = FALSE
      /\ [session EXCEPT ![s].there = FALSE][s].code = session[s].code
  BY <1>1
<1> QED
  BY <1>2, <1>3, <1>4

LEMMA ClientStep ==
    ASSUME IInv, NEW c \in Clients, Begin(c) \/ Step(c) \/ Die(c)
    PROVE  client' \in [Clients -> ClientType] /\ \A d \in Clients : Sound(client'[d])
BY Moves, UnlinkMoves

LEMMA TypeStep ==
    ASSUME IInv, [Next]_vars
    PROVE  TypeOK' /\ \A d \in Clients : Sound(client[d])'
<1> USE DEF IInv
<1>1. CASE UNCHANGED vars
  BY <1>1 DEF vars, TypeOK, Sound
<1>2. ASSUME NEW k \in Tokens, Expire(k) PROVE TypeOK' /\ \A d \in Clients : Sound(client[d])'
  BY <1>2 DEF Expire, TypeOK
<1>3. ASSUME NEW s \in Sessions, Approve(s) PROVE TypeOK' /\ \A d \in Clients : Sound(client[d])'
  BY <1>3 DEF Approve, TypeOK
<1>4. ASSUME NEW c \in Clients, Begin(c) \/ Step(c) \/ Die(c)
      PROVE  TypeOK' /\ \A d \in Clients : Sound(client[d])'
  <2>1. client' \in [Clients -> ClientType] /\ \A d \in Clients : Sound(client'[d])
    BY <1>4, ClientStep
  <2>2. client[c] \in ClientType /\ Sound(client[c])
    BY DEF TypeOK, ClientType
  <2>3. file' \in Credential \cup {NoFile, Empty, Garbled}
    <3>1. CASE Fill(c)
      BY <2>2, <3>1 DEF Fill, At, Sound, TypeOK
    <3>2. CASE Truncate(c) \/ Unlink(c)
      BY <3>2 DEF Truncate, Unlink
    <3>3. CASE UNCHANGED file
      BY <3>3 DEF TypeOK
    <3> QED
      BY <1>4, <3>1, <3>2, <3>3 DEF Begin, Start, Step, ReadSession, Load, NoAnswer, Exchange,
         BeginSession, Redeem, EndLogin, Die
  <2>4. service' \in [issued : 0 .. MaxTokens, live : SUBSET Tokens, fresh : SUBSET Tokens]
    <3>1. UNCHANGED service \/ (CanIssue /\ \E withdrawn : service' = Issue(withdrawn))
      BY <1>4 DEF Begin, Start, Step, ReadSession, Load, NoAnswer, Exchange, BeginSession, Redeem,
         StillPending, Spend, Truncate, Fill, EndLogin, Unlink, Die
    <3> QED
      BY <3>1, IssueType DEF TypeOK
  <2>5. session' \in [Sessions -> [there : BOOLEAN,
                                   code : {"none", "pending", "granted", "spent"}]]
    <3>1. CASE BeginSession(c)
      <4>1. PICK s \in Sessions : session' = [session EXCEPT ![s] = [there |-> TRUE, code |-> "pending"]]
        BY <3>1 DEF BeginSession
      <4> QED
        BY <4>1, SessionType
    <3>2. CASE Redeem(c)
      <4>1. client[c].session \in Sessions
        BY <2>2, <3>2 DEF Redeem, At, Sound
      <4> QED
        <5>1. CASE UNCHANGED session
          BY <5>1 DEF TypeOK
        <5>2. CASE session' = [session EXCEPT ![client[c].session].code = "spent"]
          BY <4>1, <5>2, SessionType
        <5> QED
          BY <3>2, <5>1, <5>2 DEF Redeem, StillPending, Spend
    <3>3. CASE EndLogin(c)
      <4>1. client[c].session \in Sessions
        BY <2>2, <3>3 DEF EndLogin, At, Sound
      <4> QED
        BY <3>3, <4>1, SessionType DEF EndLogin
    <3>4. CASE UNCHANGED session
      BY <3>4 DEF TypeOK
    <3> QED
      BY <1>4, <3>1, <3>2, <3>3, <3>4 DEF Begin, Start, Step, ReadSession, Load, NoAnswer, Exchange,
         Truncate, Fill, Unlink, Die
  <2>6. used' \in [ops : 0 .. MaxOps, faults : 0 .. MaxFaults]
    <3>1. \/ UNCHANGED used
          \/ used.ops < MaxOps /\ used' = [used EXCEPT !.ops = @ + 1]
          \/ used.faults < MaxFaults /\ used' = [used EXCEPT !.faults = @ + 1]
      BY <1>4 DEF Begin, Start, Step, ReadSession, Load, NoAnswer, Exchange, BeginSession, Redeem,
         StillPending, Truncate, Fill, EndLogin, Unlink, Die
    <3> QED
      BY <3>1, ProviderAuthConstants DEF TypeOK
  <2>7. wasted' \in BOOLEAN /\ refused' \in BOOLEAN
    BY <1>4 DEF TypeOK, Begin, Start, Step, ReadSession, Load, NoAnswer, Exchange, BeginSession, Redeem,
       Truncate, Fill, EndLogin, Unlink, Die
  <2>8. out' \in BOOLEAN
    BY <1>4 DEF TypeOK, Begin, Start, Step, ReadSession, Load, NoAnswer, Exchange, BeginSession, Redeem,
       Truncate, Fill, EndLogin, Unlink, Overlapped, Die
  <2>9. stored' \subseteq Sessions
    <3>1. CASE Fill(c)
      BY <2>2, <3>1 DEF Fill, Sound, TypeOK
    <3>2. CASE UNCHANGED stored
      BY <3>2 DEF TypeOK
    <3> QED
      BY <1>4, <3>1, <3>2 DEF Begin, Start, Step, ReadSession, Load, NoAnswer, Exchange, BeginSession,
         Redeem, Truncate, EndLogin, Unlink, Die
  <2> QED
    BY <2>1, <2>3, <2>4, <2>5, <2>6, <2>7, <2>8, <2>9 DEF TypeOK, ClientType
<1> QED
  BY <1>1, <1>2, <1>3, <1>4, StepSplit

(* A session's file goes after its credential was stored. *)
LEMMA SessionStep ==
    ASSUME IInv, [Next]_vars PROVE SessionInv'
<1> USE DEF IInv
<1>1. CASE UNCHANGED vars
  BY <1>1 DEF vars, SessionInv, SessionHeld, At
<1>2. ASSUME NEW k \in Tokens, Expire(k) PROVE SessionInv'
  BY <1>2 DEF Expire, SessionInv, SessionHeld, At
<1>3. ASSUME NEW s \in Sessions, Approve(s) PROVE SessionInv'
  BY <1>3 DEF Approve, SessionInv, SessionHeld, At, TypeOK
<1>4. ASSUME NEW c \in Clients, Unlink(c) PROVE SessionInv'
  <2>1. \A d \in Clients : client'[d].at = "unlink" =>
            client[d].at = "unlink" /\ client'[d].op = client[d].op /\ client'[d].session = client[d].session
    BY <1>4, UnlinkMoves DEF Idle
  <2> QED
    BY <1>4, <2>1 DEF SessionInv, SessionHeld, Unlink, At
<1>5. ASSUME NEW c \in Clients, Begin(c) \/ Step(c) \/ Die(c), ~Unlink(c) PROVE SessionInv'
  <2>1. \A d \in Clients : d # c => client'[d] = client[d]
    BY <1>5, Moves
  <2>2. client[c] \in ClientType /\ Sound(client[c]) /\ client \in [Clients -> ClientType]
    BY DEF TypeOK, ClientType
  <2>3. stored \subseteq stored'
    BY <1>5 DEF Begin, Start, Step, ReadSession, Load, NoAnswer, Exchange, BeginSession, Redeem,
       Truncate, Fill, EndLogin, Die
  <2>4. At(c, "unlink")' /\ client'[c].op = "complete" => client'[c].session \in stored'
    <3>1. CASE Fill(c) /\ client[c].op = "complete"
      BY <2>2, <3>1 DEF Fill, Goes, ClientType
    <3>2. CASE ~(Fill(c) /\ client[c].op = "complete")
      BY <1>5, <3>2, Leads DEF At, After, Idle
    <3> QED
      BY <3>1, <3>2
  <2>5. SessionHeld'
    <3>1. CASE EndLogin(c)
      BY <2>3, <3>1 DEF EndLogin, SessionInv, SessionHeld, TypeOK, At
    <3>2. CASE ~EndLogin(c)
      <4>1. \A s \in Sessions :
                \/ session'[s].there
                \/ /\ session'[s].there = session[s].there
                   /\ session[s].code = "none" => session'[s].code = "none"
        <5>1. CASE BeginSession(c) \/ Redeem(c)
          <6>1. session \in [Sessions -> [there : BOOLEAN,
                                        code : {"none", "pending", "granted", "spent"}]]
            BY DEF TypeOK
          <6>2. CASE BeginSession(c)
            <7>1. PICK s \in Sessions : session' = [session EXCEPT ![s] = [there |-> TRUE, code |-> "pending"]]
              BY <6>2 DEF BeginSession
            <7>2. session'[s].there /\ \A x \in Sessions : x # s => session'[x] = session[x]
              BY <6>1, <7>1
            <7>3. \A x \in Sessions : x = s \/ session'[x] = session[x]
              BY <7>2
            <7> QED
              BY <7>2, <7>3
          <6>3. CASE Redeem(c) /\ ~UNCHANGED session
            <7>1. PICK s \in Sessions : session[s].code = "granted" /\ session' = [session EXCEPT ![s].code = "spent"]
              BY <2>2, <6>3 DEF Redeem, StillPending, Spend, Sound, At
            <7> QED
              BY <6>1, <7>1, SessionType
          <6> QED
            BY <5>1, <6>2, <6>3
        <5>2. CASE UNCHANGED session
          BY <5>2
        <5> QED
          BY <1>5, <3>2, <5>1, <5>2 DEF Begin, Start, Step, ReadSession, Load, NoAnswer, Exchange,
             Truncate, Fill, Die
      <4> QED
        BY <2>3, <4>1 DEF SessionInv, SessionHeld
    <3> QED
      BY <3>1, <3>2
  <2> QED
    BY <2>1, <2>3, <2>4, <2>5 DEF SessionInv, At
<1> QED
  BY <1>1, <1>2, <1>3, <1>4, <1>5, StepSplit

(* After a logout nobody is about to bring the account back. *)
LEMMA LogoutStep ==
    ASSUME IInv, [Next]_vars PROVE LogoutInv'
<1> USE DEF IInv
<1>1. CASE UNCHANGED vars \/ (\E k \in Tokens : Expire(k)) \/ (\E s \in Sessions : Approve(s))
  BY <1>1 DEF vars, Expire, Approve, LogoutInv, Authenticated, Refreshing
<1>2. ASSUME NEW c \in Clients, Unlink(c) PROVE LogoutInv'
  <2>1. \A d \in Clients : Refreshing(d)' => Refreshing(d)
    BY <1>2, UnlinkMoves DEF Refreshing, Idle
  <2>2. ~Authenticated'
    BY <1>2 DEF Unlink, Authenticated, NoFile, Credential, Tokens
  <2> QED
    BY <1>2, <2>1, <2>2 DEF Unlink, LogoutInv, Overlapped
<1>3. ASSUME NEW c \in Clients, Begin(c) \/ Step(c) \/ Die(c), ~Unlink(c), out' PROVE LogoutInv'
  <2>1. \A d \in Clients : d # c => client'[d] = client[d]
    BY <1>3, Moves
  <2>2. client[c] \in ClientType /\ Sound(client[c]) /\ client \in [Clients -> ClientType]
    BY DEF TypeOK, ClientType
  <2>3. out /\ ~(Fill(c) /\ client[c].op = "complete")
    BY <1>3 DEF Begin, Start, Step, ReadSession, Load, NoAnswer, Exchange, BeginSession, Redeem,
       Truncate, Fill, EndLogin, Die
  <2>4. ~Authenticated /\ ~Refreshing(c)
    BY <2>3 DEF LogoutInv
  <2>5. ~Fill(c)
    BY <2>2, <2>3, <2>4 DEF Fill, Sound, Refreshing, At
  <2>6. ~Authenticated'
    <3>1. file' = file \/ file' = Empty
      BY <1>3, <2>5 DEF Begin, Start, Step, ReadSession, Load, NoAnswer, Exchange, BeginSession, Redeem,
         Truncate, EndLogin, Die
    <3>2. Empty \notin Credential
      BY DEF Empty, Credential, Tokens
    <3> QED
      BY <2>4, <3>1, <3>2 DEF Authenticated
  <2>7. ~Refreshing(c)'
    <3>1. CASE Load(c)
      <4>1. Parses => file = NoFile
        BY <2>4 DEF Parses, TypeOK, Authenticated
      <4> QED
        BY <2>2, <3>1, <4>1 DEF Load, After, NeedsRefresh, Refreshing, Ends, Idle, ClientType
    <3>2. CASE ~Load(c)
      <4>1. client[c].at \in {"exchange", "truncate"} \/ Exchange(c) \/ Truncate(c) => client[c].op # "use"
        BY <2>4 DEF Refreshing, Exchange, Truncate, At
      <4>2. client[c].at \in {"begin", "redeem"} \/ Redeem(c) => client[c].at \in {"begin", "redeem"}
        BY DEF Redeem, At
      <4>3. Redeem(c) => client[c].op = "complete"
        BY <2>2 DEF Redeem, At, Sound
      <4> QED
        BY <1>3, <2>5, <3>2, <4>1, <4>2, <4>3, Leads DEF Refreshing, Idle
    <3> QED
      BY <3>1, <3>2
  <2> QED
    BY <2>1, <2>3, <2>6, <2>7 DEF LogoutInv, Refreshing
<1>4. CASE ~out'
  BY <1>4 DEF LogoutInv
<1> QED
  BY <1>1, <1>2, <1>3, <1>4, StepSplit

----
(* The tokens of a client's step. *)
OthersRest(c) == \A d \in Clients : d # c => client'[d] = client[d]

LEMMA ClientFacts ==
    ASSUME IInv
    PROVE  /\ client \in [Clients -> ClientType]
           /\ \A c \in Clients : client[c] \in ClientType /\ Sound(client[c])
           /\ service.issued \in Nat /\ service.live \subseteq Tokens
           /\ Authenticated => file.refresh \in Tokens
BY DEF IInv, TypeOK, ClientType, Authenticated, Credential

(* A step that leaves file and tokens alone, after which c stores nothing. *)
LEMMA PlainStep ==
    ASSUME IInv, NEW c \in Clients, OthersRest(c), file' = file,
           service'.live = service.live, service'.issued = service.issued,
           wasted => wasted', ~Storing(c)', client'[c] \in ClientType,
           client'[c].held.refresh <= service.issued, client'[c].new.refresh <= service.issued,
           Refreshing(c)' => \/ Refreshing(c) /\ client'[c].held = client[c].held
                             \/ Authenticated /\ client'[c].held = file,
           wasted' \/ ~Storing(c) \/ client[c].op # "use"
    PROVE  TokenInv'
<1> USE ClientFacts DEF OthersRest, IInv, TokenInv
<1>1. KnownInv'
  BY DEF KnownInv, Authenticated
<1>2. \A d \in Clients : Storing(d)' => d # c /\ Storing(d)
  BY DEF Storing
<1>3. FreshInv'
  <2> SUFFICES ASSUME NEW b \in Clients, Storing(b)'
               PROVE  /\ client'[b].new.refresh \in service'.live
                      /\ Rotates => /\ Authenticated' => file'.refresh # client'[b].new.refresh
                                    /\ \A d \in Clients :
                                           /\ Refreshing(d)' => client'[d].held.refresh # client'[b].new.refresh
                                           /\ Storing(d)' /\ d # b =>
                                                  client'[d].new.refresh # client'[b].new.refresh
    BY DEF FreshInv
  <2>1. b # c /\ Storing(b) /\ client'[b] = client[b]
    BY <1>2
  <2>2. \A d \in Clients : Refreshing(d)' /\ d # c => Refreshing(d)
    BY DEF Refreshing
  <2> QED
    BY <1>2, <2>1, <2>2 DEF FreshInv, Authenticated
<1>4. SteadyInv'
  BY DEF SteadyInv, Refreshing, Authenticated
<1>5. GoneInv'
  BY DEF GoneInv, Refreshing, Authenticated, At, Storing
<1>6. StaysSignedIn'
  <2>1. \A d \in Clients : Refreshing(d) /\ client[d].new # NoFile => Storing(d)
    BY DEF Refreshing, Storing, Sound
  <2> QED
    BY <2>1 DEF StaysSignedIn, Refreshing, Authenticated
<1> QED
  BY <1>1, <1>3, <1>4, <1>5, <1>6

(* A token is issued to a client, which holds it or loses it. *)
LEMMA IssueStep ==
    ASSUME IInv, NEW c \in Clients, OthersRest(c), file' = file, CanIssue,
           NEW withdrawn, service' = Issue(withdrawn),
           withdrawn = {} \/ (Refreshing(c) /\ withdrawn = Withdrawn(client[c].held)),
           ~Storing(c), wasted => wasted', client'[c] \in ClientType, Sound(client'[c]),
           client'[c].held.refresh <= service.issued,
           Refreshing(c)' => Refreshing(c) /\ client'[c].held = client[c].held,
           Storing(c)' => \/ client'[c].new.refresh = Issued
                          \/ /\ ~Rotates /\ Refreshing(c)
                             /\ client'[c].new.refresh = client[c].held.refresh,
           ~Storing(c)' => client'[c].new = NoFile, client'[c].at # "fill",
           withdrawn = {} \/ wasted' \/ (Refreshing(c)' /\ Storing(c)')
    PROVE  TokenInv'
<1> USE ClientFacts, IssueType DEF OthersRest, IInv, TokenInv
<1>1. /\ service'.issued = service.issued + 1
      /\ service'.live = (service.live \ withdrawn) \cup {Issued}
      /\ Issued = service.issued + 1 /\ Issued \in Nat
      /\ Authenticated' = Authenticated
      /\ withdrawn # {} => Rotates /\ Refreshing(c) /\ withdrawn = {client[c].held.refresh}
  BY DEF Authenticated, Tokens, Withdrawn
<1>2. client'[c].new.refresh <= service'.issued
  <2>1. \A n \in Nat : n <= service.issued => n <= service'.issued
    BY <1>1
  <2>2. client[c].held.refresh \in Nat /\ client[c].held.refresh <= service.issued
    BY DEF ClientType, Credential, NoFile, Tokens, KnownInv
  <2>3. CASE Storing(c)'
    BY <1>1, <2>1, <2>2, <2>3
  <2>4. CASE ~Storing(c)'
    <3>1. client'[c].new.refresh = 0
      BY <2>4 DEF NoFile
    <3> QED
      BY <1>1, <3>1
  <2> QED
    BY <2>3, <2>4
<1>3. KnownInv'
  <2>1. \A n \in Nat : n <= service.issued => n <= service'.issued
    BY <1>1
  <2>2. \A d \in Clients : /\ client[d].held.refresh \in Nat /\ client[d].new.refresh \in Nat
                          /\ client'[c].held.refresh \in Nat
    BY DEF ClientType, Credential, NoFile, Tokens
  <2>3. service'.live \subseteq 1 .. service'.issued
    BY <1>1 DEF KnownInv
  <2>4. Authenticated' => file'.refresh <= service'.issued
    BY <1>1, <2>1 DEF KnownInv, Tokens
  <2>5. \A d \in Clients : client'[d].held.refresh <= service'.issued /\ client'[d].new.refresh <= service'.issued
    BY <1>2, <2>1, <2>2 DEF KnownInv
  <2> QED
    BY <2>3, <2>4, <2>5 DEF KnownInv
<1>4. /\ \A d \in Clients : client[d].held.refresh # Issued /\ client[d].new.refresh # Issued
      /\ Authenticated => file.refresh # Issued
  <2>1. \A n \in Nat : n <= service.issued => n # Issued
    BY <1>1
  <2>2. \A d \in Clients : client[d].held.refresh \in Nat /\ client[d].new.refresh \in Nat
    BY DEF ClientType, Credential, NoFile, Tokens
  <2> QED
    BY <2>1, <2>2 DEF KnownInv, Tokens
<1>5. FreshInv'
  <2> SUFFICES ASSUME NEW b \in Clients, Storing(b)'
               PROVE  /\ client'[b].new.refresh \in service'.live
                      /\ Rotates => /\ Authenticated' => file'.refresh # client'[b].new.refresh
                                    /\ \A d \in Clients :
                                           /\ Refreshing(d)' => client'[d].held.refresh # client'[b].new.refresh
                                           /\ Storing(d)' /\ d # b =>
                                                  client'[d].new.refresh # client'[b].new.refresh
    BY DEF FreshInv
  <2>1. \A d \in Clients : Refreshing(d)' => Refreshing(d) /\ client'[d].held = client[d].held
    BY DEF Refreshing
  <2>2. CASE b = c
    <3>1. client'[b].new.refresh \in service'.live
      BY <1>1, <2>2 DEF SteadyInv
    <3>2. Rotates => client'[b].new.refresh = Issued
      BY <2>2
    <3>3. \A d \in Clients : d # b => client'[d] = client[d]
      BY <2>2
    <3> QED
      BY <1>1, <1>4, <2>1, <3>1, <3>2, <3>3
  <2>3. CASE b # c
    <3>1. client'[b] = client[b] /\ Storing(b)
      BY <2>3 DEF Storing
    <3>2. client[b].new.refresh \in service'.live
      BY <1>1, <3>1 DEF FreshInv
    <3>3. Rotates /\ Storing(c)' => client'[c].new.refresh # client[b].new.refresh
      BY <1>4
    <3>4. \A d \in Clients : Storing(d)' /\ d # c => Storing(d) /\ client'[d] = client[d]
      BY DEF Storing
    <3> QED
      BY <1>1, <2>1, <3>1, <3>2, <3>3, <3>4 DEF FreshInv
  <2> QED
    BY <2>2, <2>3
<1>6. SteadyInv'
  BY <1>1 DEF SteadyInv, Refreshing, Authenticated
<1>7. GoneInv'
  <2>1. \A d \in Clients : At(d, "fill")' => d # c /\ client'[d] = client[d]
    BY DEF At
  <2> QED
    BY <1>1, <2>1 DEF GoneInv, Refreshing, Authenticated, At
<1>8. StaysSignedIn'
  <2>1. \A d \in Clients : Refreshing(d) /\ client[d].new # NoFile => d # c /\ Refreshing(d)' /\ client'[d] = client[d]
    BY DEF Refreshing, Storing, Sound
  <2>2. Authenticated' /\ ~wasted' => Authenticated /\ ~wasted
    BY <1>1
  <2>3. CASE withdrawn = {} \/ wasted'
    BY <1>1, <2>1, <2>2, <2>3 DEF StaysSignedIn
  <2>4. CASE withdrawn # {} /\ ~wasted'
    <3>1. Refreshing(c)' /\ client'[c].new # NoFile /\ client'[c].held = client[c].held
      BY <2>4 DEF Sound, Storing, NoFile, Credential, Tokens
    <3> QED
      BY <1>1, <2>1, <2>2, <2>4, <3>1 DEF StaysSignedIn
  <2> QED
    BY <2>3, <2>4
<1> QED
  BY <1>3, <1>5, <1>6, <1>7, <1>8

LEMMA TruncateStep ==
    ASSUME IInv, NEW c \in Clients, Truncate(c)
    PROVE  TokenInv'
<1> USE ClientFacts DEF IInv, TokenInv
<1>1. /\ file' = Empty /\ UNCHANGED <<service, wasted>>
      /\ client' = [client EXCEPT ![c].at = "fill", ![c].tries = 0]
  BY DEF Truncate, Goes
<1>2. ~Authenticated'
  BY <1>1 DEF Authenticated, Empty, Credential, Tokens
<1>3. \A d \in Clients : /\ client'[d].op = client[d].op /\ client'[d].held = client[d].held
                        /\ client'[d].new = client[d].new
                        /\ client'[d].at = IF d = c THEN "fill" ELSE client[d].at
  BY <1>1 DEF ClientType
<1>4. client[c].at = "truncate"
  BY DEF Truncate, At
<1>5. \A d \in Clients : Storing(d)' <=> Storing(d)
  BY <1>3, <1>4 DEF Storing
<1>6. \A d \in Clients : Refreshing(d)' <=> Refreshing(d)
  BY <1>3, <1>4 DEF Refreshing
<1>7. KnownInv'
  BY <1>1, <1>2, <1>3 DEF KnownInv
<1>8. FreshInv'
  BY <1>1, <1>2, <1>3, <1>5, <1>6 DEF FreshInv
<1>9. SteadyInv'
  BY <1>1, <1>2, <1>3, <1>6 DEF SteadyInv
<1> QED
  BY <1>2, <1>7, <1>8, <1>9 DEF GoneInv, StaysSignedIn

LEMMA FillStep ==
    ASSUME IInv, NEW c \in Clients, Fill(c)
    PROVE  TokenInv'
<1> DEFINE new == client[c].new
<1> USE ClientFacts DEF IInv, TokenInv
<1>1. /\ \/ file' = file /\ client[c].gone
         \/ file' = new /\ ~client[c].gone
         \/ file' = Garbled
      /\ UNCHANGED <<service, wasted>> /\ client[c].at = "fill"
  BY DEF Fill, At
<1>2. OthersRest(c) /\ ~Storing(c)' /\ ~Refreshing(c)'
      /\ client'[c].held.refresh <= service.issued /\ client'[c].new.refresh <= service.issued
  <2>1. CASE client[c].op = "complete"
    <3>1. client' = [client EXCEPT ![c].at = "unlink", ![c].tries = 0]
      BY <2>1 DEF Fill, Goes
    <3> QED
      BY <2>1, <3>1 DEF OthersRest, Storing, Refreshing, ClientType, KnownInv
  <2>2. CASE client[c].op # "complete"
    <3>1. client' = [client EXCEPT ![c] = Idle]
      BY <2>2 DEF Fill, Ends
    <3>2. 0 <= service.issued
      OBVIOUS
    <3> QED
      BY <3>1, <3>2 DEF OthersRest, Storing, Refreshing, Idle, NoFile
  <2> QED
    BY <2>1, <2>2
<1>3. /\ Storing(c) /\ new \in Credential /\ new.refresh \in service.live
      /\ new.refresh <= service.issued
  BY <1>1 DEF Storing, Sound, FreshInv, KnownInv
<1>4. Authenticated' => \/ file' = file /\ Authenticated /\ client[c].gone
                       \/ file' = new
  BY <1>1 DEF Authenticated, Garbled, Credential, Tokens
<1>5. ASSUME NEW d \in Clients, Storing(d)'
      PROVE  d # c /\ Storing(d) /\ client'[d] = client[d]
  BY <1>2, <1>5 DEF OthersRest, Storing
<1>11. ASSUME NEW d \in Clients, Refreshing(d)'
       PROVE  d # c /\ Refreshing(d) /\ client'[d] = client[d]
  BY <1>2, <1>11 DEF OthersRest, Refreshing
<1>6. KnownInv'
  BY <1>1, <1>2, <1>3, <1>4 DEF KnownInv, OthersRest
<1>7. FreshInv'
  <2> SUFFICES ASSUME NEW b \in Clients, Storing(b)'
               PROVE  /\ client'[b].new.refresh \in service'.live
                      /\ Rotates => /\ Authenticated' => file'.refresh # client'[b].new.refresh
                                    /\ \A d \in Clients :
                                           /\ Refreshing(d)' => client'[d].held.refresh # client'[b].new.refresh
                                           /\ Storing(d)' /\ d # b =>
                                                  client'[d].new.refresh # client'[b].new.refresh
    BY DEF FreshInv
  <2>1. b # c /\ Storing(b) /\ client'[b] = client[b]
    BY <1>5
  <2>2. client[b].new.refresh \in service'.live
    BY <1>1, <2>1 DEF FreshInv
  <2>3. Rotates /\ Authenticated' => file'.refresh # client[b].new.refresh
    BY <1>3, <1>4, <2>1 DEF FreshInv
  <2>4. ASSUME Rotates, NEW d \in Clients
        PROVE  /\ Refreshing(d)' => client'[d].held.refresh # client[b].new.refresh
               /\ Storing(d)' /\ d # b => client'[d].new.refresh # client[b].new.refresh
    BY <1>5, <1>11, <2>1, <2>4 DEF FreshInv
  <2> QED
    BY <2>1, <2>2, <2>3, <2>4
<1>8. SteadyInv'
  <2>1. ~Rotates /\ Authenticated' => file'.refresh \in service'.live
    BY <1>1, <1>3, <1>4 DEF SteadyInv
  <2>2. ASSUME ~Rotates, NEW d \in Clients, Refreshing(d)'
        PROVE  client'[d].held.refresh \in service'.live
    BY <1>1, <1>11, <2>2 DEF SteadyInv
  <2> QED
    BY <2>1, <2>2 DEF SteadyInv
<1>9. GoneInv'
  <2> SUFFICES ASSUME NEW d \in Clients, At(d, "fill")', Refreshing(d)', client'[d].gone, Rotates, Authenticated'
               PROVE  file'.refresh # client'[d].held.refresh
    BY DEF GoneInv
  <2>1. d # c /\ client'[d] = client[d] /\ Refreshing(d)
    BY <1>11
  <2>4. At(d, "fill") /\ client[d].gone
    BY <2>1 DEF At
  <2>2. CASE file' = file /\ Authenticated
    BY <2>1, <2>2, <2>4 DEF GoneInv
  <2>3. CASE file' = new
    BY <1>3, <2>1, <2>3 DEF FreshInv
  <2> QED
    BY <1>4, <2>2, <2>3
<1>10. StaysSignedIn'
  <2> SUFFICES ASSUME Authenticated', ~wasted
               PROVE  \/ file'.refresh \in service.live
                      \/ \E d \in Clients : /\ Refreshing(d)' /\ client'[d].new # NoFile
                                            /\ client'[d].held.refresh = file'.refresh
    BY <1>1 DEF StaysSignedIn
  <2>1. CASE file' = new
    BY <1>3, <2>1
  <2>2. CASE file' = file /\ Authenticated /\ client[c].gone
    <3>1. CASE file.refresh \in service.live
      BY <2>2, <3>1
    <3>2. CASE file.refresh \notin service.live
      <4>1. PICK d \in Clients : /\ Refreshing(d) /\ client[d].new # NoFile
                                /\ client[d].held.refresh = file.refresh
        BY <2>2, <3>2 DEF StaysSignedIn
      <4>2. d # c
        BY <1>1, <2>2, <3>2, <4>1 DEF GoneInv, At, SteadyInv, ProviderAuthConstants
      <4> QED
        BY <1>2, <2>2, <4>1, <4>2 DEF OthersRest, Refreshing
    <3> QED
      BY <3>1, <3>2
  <2> QED
    BY <1>4, <2>1, <2>2
<1> QED
  BY <1>6, <1>7, <1>8, <1>9, <1>10

LEMMA UnlinkStep ==
    ASSUME IInv, NEW c \in Clients, Unlink(c)
    PROVE  TokenInv'
<1> USE ClientFacts DEF IInv, TokenInv
<1>1. file' = NoFile /\ UNCHANGED <<service, wasted>> /\ client[c].at = "unlink"
  BY DEF Unlink, At
<1>2. ~Authenticated'
  BY <1>1 DEF Authenticated, NoFile, Credential, Tokens
<1>3. \A d \in Clients \ {c} :
          /\ client'[d].op = client[d].op /\ client'[d].at = client[d].at
          /\ client'[d].held = client[d].held /\ client'[d].new = client[d].new
  BY UnlinkMoves
<1>4. client'[c] = Idle
  BY UnlinkMoves
<1>5. ~Storing(c)' /\ ~Refreshing(c)'
  BY <1>4 DEF Storing, Refreshing, Idle
<1>6. ASSUME NEW d \in Clients, Storing(d)' PROVE d # c /\ Storing(d)
  BY <1>3, <1>5, <1>6 DEF Storing
<1>10. ASSUME NEW d \in Clients, Refreshing(d)' PROVE d # c /\ Refreshing(d)
  BY <1>3, <1>5, <1>10 DEF Refreshing
<1>7. KnownInv'
  <2>1. 0 <= service.issued /\ Idle.held.refresh = 0 /\ Idle.new.refresh = 0
    BY DEF Idle, NoFile
  <2> QED
    BY <1>1, <1>2, <1>3, <1>4, <2>1 DEF KnownInv
<1>8. FreshInv'
  <2> SUFFICES ASSUME NEW b \in Clients, Storing(b)'
               PROVE  /\ client'[b].new.refresh \in service'.live
                      /\ Rotates => /\ Authenticated' => file'.refresh # client'[b].new.refresh
                                    /\ \A d \in Clients :
                                           /\ Refreshing(d)' => client'[d].held.refresh # client'[b].new.refresh
                                           /\ Storing(d)' /\ d # b =>
                                                  client'[d].new.refresh # client'[b].new.refresh
    BY DEF FreshInv
  <2>1. b # c /\ Storing(b) /\ client'[b].new = client[b].new
    BY <1>3, <1>6
  <2>2. client[b].new.refresh \in service'.live
    BY <1>1, <2>1 DEF FreshInv
  <2>3. ASSUME Rotates, NEW d \in Clients
        PROVE  /\ Refreshing(d)' => client'[d].held.refresh # client[b].new.refresh
               /\ Storing(d)' /\ d # b => client'[d].new.refresh # client[b].new.refresh
    BY <1>3, <1>6, <1>10, <2>1, <2>3 DEF FreshInv
  <2> QED
    BY <1>2, <2>1, <2>2, <2>3
<1>9. SteadyInv'
  <2>1. ASSUME ~Rotates, NEW d \in Clients, Refreshing(d)'
        PROVE  client'[d].held.refresh \in service'.live
    BY <1>1, <1>3, <1>10, <2>1 DEF SteadyInv
  <2> QED
    BY <1>2, <2>1 DEF SteadyInv
<1> QED
  BY <1>2, <1>7, <1>8, <1>9 DEF GoneInv, StaysSignedIn

(* The steps in which the service issues a token. *)
IssuesTo(c) == (Exchange(c) \/ Redeem(c)) /\ ~UNCHANGED service

LEMMA PlainCase ==
    ASSUME IInv, NEW c \in Clients, Begin(c) \/ Step(c) \/ Die(c),
           ~Unlink(c), ~Truncate(c), ~Fill(c), ~IssuesTo(c)
    PROVE  TokenInv'
<1>1. /\ OthersRest(c) /\ client'[c] \in ClientType /\ Sound(client'[c])
      /\ client[c] \in ClientType /\ Sound(client[c]) /\ client \in [Clients -> ClientType]
  BY Moves, ClientFacts DEF OthersRest
<1>2. UNCHANGED service
  BY DEF Begin, Start, Step, ReadSession, Load, NoAnswer, BeginSession, EndLogin, Die, IssuesTo
<1>3. file' = file
  BY DEF Begin, Start, Step, ReadSession, Load, NoAnswer, Exchange, BeginSession,
     Redeem, EndLogin, Die
<1>4. wasted \in BOOLEAN /\ (wasted => wasted')
  BY DEF Begin, Start, Step, ReadSession, Load, NoAnswer, Exchange, BeginSession,
     Redeem, EndLogin, Die, IInv, TypeOK
<1>5. /\ Idle.held = NoFile /\ Idle.new = NoFile /\ NoFile.refresh = 0 /\ Idle.at = "idle"
      /\ 0 <= service.issued /\ service.issued \in Nat
  BY DEF Idle, NoFile, IInv, TypeOK
<1>6. client[c].held.refresh <= service.issued /\ client[c].new.refresh <= service.issued
  BY DEF IInv, TokenInv, KnownInv
<1>7. Begin(c) \/ Die(c) \/ client[c].at \in {"session", "load", "exchange", "begin", "redeem", "unlink"}
  BY DEF Step, ReadSession, Load, NoAnswer, Exchange, BeginSession, Redeem, EndLogin, At
<1>8. wasted' \/ ~Storing(c) \/ client[c].op # "use"
  <2>1. CASE Die(c)
    <3>1. Storing(c) => client[c].new \in Credential
      BY <1>1 DEF Storing, Sound
    <3>2. NoFile \notin Credential
      BY DEF NoFile, Credential, Tokens
    <3> QED
      BY <2>1, <3>1, <3>2 DEF Die
  <2>2. CASE Begin(c)
    BY <2>2 DEF Begin, Start, At, Storing
  <2> QED
    BY <1>7, <2>1, <2>2 DEF Storing
<1>9. ASSUME ~Storing(c)', client'[c].held.refresh <= service.issued,
             client'[c].new.refresh <= service.issued,
             Refreshing(c)' => \/ Refreshing(c) /\ client'[c].held = client[c].held
                               \/ Authenticated /\ client'[c].held = file
      PROVE  TokenInv'
  <2>1. service'.live = service.live /\ service'.issued = service.issued
    BY <1>2
  <2> QED
    BY <1>1, <1>3, <1>4, <1>8, <1>9, <2>1, PlainStep
<1>10. CASE Begin(c)
  <2>1. PICK op, x : Start(c, op, x)
    BY <1>10 DEF Begin
  <2>3. client'[c] = [Idle EXCEPT !.op = op, !.session = x,
                                  !.at = IF op = "complete" THEN "session" ELSE "load"]
    BY <1>1, <2>1 DEF Start
  <2>2. /\ client'[c].at \in {"session", "load"}
        /\ client'[c].held = NoFile /\ client'[c].new = NoFile
    BY <2>3 DEF Idle
  <2> QED
    BY <1>5, <1>9, <2>2 DEF Storing, Refreshing
<1>11. CASE Ends(c)
  <2>1. client'[c] = Idle
    BY <1>1, <1>11 DEF Ends
  <2> QED
    BY <1>5, <1>9, <2>1 DEF Storing, Refreshing
<1>12. CASE Goes(c, "load")
  <2>1. /\ client'[c].at = "load"
        /\ client'[c].held = client[c].held /\ client'[c].new = client[c].new
    BY <1>1, <1>12 DEF Goes, ClientType
  <2> QED
    BY <1>6, <1>9, <2>1 DEF Storing, Refreshing
<1>13. CASE Load(c) /\ ~Ends(c)
  <2>1. /\ client'[c].at = After(client[c].op)
        /\ client'[c].held = file /\ client'[c].new = client[c].new
        /\ Parses
    BY <1>1, <1>13 DEF Load, ClientType
  <2>2. client[c].op \in Ops
    BY <1>1, <1>13 DEF Load, At, Sound, ClientType
  <2>3. client'[c].at \in {"begin", "redeem", "unlink", "exchange", "idle"}
    BY <2>1, <2>2 DEF After, Ops
  <2>4. Authenticated \/ file = NoFile
    BY <2>1 DEF Parses, Authenticated, IInv, TypeOK
  <2>5. file.refresh <= service.issued
    BY <1>5, <2>4 DEF IInv, TokenInv, KnownInv
  <2>6. file = NoFile => client'[c].at # "exchange"
    BY <2>1, <2>2 DEF After, NeedsRefresh, Ops
  <2> QED
    BY <1>6, <1>9, <2>1, <2>3, <2>4, <2>5, <2>6 DEF Storing, Refreshing
<1>14. CASE Retries(c) /\ ~Ends(c) /\ client[c].at \in {"exchange", "begin", "redeem"}
  <2>1. /\ client'[c].at = client[c].at /\ client'[c].op = client[c].op
        /\ client'[c].held = client[c].held /\ client'[c].new = client[c].new
    BY <1>1, <1>14 DEF Retries, ClientType
  <2> QED
    BY <1>6, <1>9, <1>14, <2>1 DEF Storing, Refreshing
<1>15. Exchange(c) \/ Redeem(c) => \/ Ends(c)
                                   \/ Retries(c) /\ client[c].at \in {"exchange", "redeem"}
  <2>1. CanIssue => \A w : Issue(w) # service
    BY <1>5, IssueType DEF IInv
  <2>2. Exchange(c) \/ Redeem(c) => client[c].at \in {"exchange", "redeem"}
    BY DEF Exchange, Redeem, At
  <2>3. Exchange(c) => Ends(c) \/ Retries(c)
    BY <1>2, <2>1 DEF Exchange
  <2>4. Redeem(c) => Ends(c) \/ Retries(c)
    BY <1>2, <2>1 DEF Redeem, StillPending, Spend
  <2> QED
    BY <2>2, <2>3, <2>4
<1> QED
  BY <1>10, <1>11, <1>12, <1>13, <1>14, <1>15 DEF Step, ReadSession, NoAnswer, BeginSession, EndLogin, Die

LEMMA IssueCase ==
    ASSUME IInv, NEW c \in Clients, IssuesTo(c)
    PROVE  TokenInv'
<1>1. /\ OthersRest(c) /\ client'[c] \in ClientType /\ Sound(client'[c])
      /\ client[c] \in ClientType /\ Sound(client[c]) /\ client \in [Clients -> ClientType]
  <2>1. ~Unlink(c)
    BY DEF IssuesTo, Exchange, Redeem, Unlink, At
  <2> QED
    BY <2>1, Moves, ClientFacts DEF OthersRest, IssuesTo, Step
<1>2. file' = file /\ wasted \in BOOLEAN /\ (wasted => wasted')
  BY DEF IssuesTo, Exchange, Redeem, IInv, TypeOK
<1>3. ~Storing(c) /\ client[c].at \in {"exchange", "redeem"} /\ client[c].new = NoFile
  BY <1>1 DEF IssuesTo, Exchange, Redeem, At, Storing, Sound
<1>4. /\ client[c].held.refresh <= service.issued
      /\ Idle.held = NoFile /\ Idle.new = NoFile /\ NoFile.refresh = 0 /\ Idle.at = "idle"
      /\ 0 <= service.issued
  BY DEF IInv, TokenInv, KnownInv, Idle, NoFile, TypeOK
<1>5. Retries(c) => \/ client'[c] = Idle
                    \/ /\ client'[c].at = client[c].at /\ client'[c].op = client[c].op
                       /\ client'[c].held = client[c].held /\ client'[c].new = client[c].new
  BY <1>1 DEF Retries, Ends, ClientType
<1>6. CASE Exchange(c)
  <2>1. /\ CanIssue /\ service' = Issue(Withdrawn(client[c].held))
        /\ \/ wasted' /\ Retries(c)
           \/ client' = [client EXCEPT ![c].at = "truncate", ![c].new = Refreshed(client[c].held)]
    BY <1>6 DEF IssuesTo, Exchange
  <2>2. Refreshing(c)
    BY <1>1, <1>6 DEF Exchange, At, Sound, Refreshing
  <2>3. CASE wasted' /\ Retries(c)
    BY <1>1, <1>2, <1>3, <1>4, <1>5, <2>1, <2>2, <2>3, IssueStep DEF Storing, Refreshing
  <2>4. CASE client' = [client EXCEPT ![c].at = "truncate", ![c].new = Refreshed(client[c].held)]
    <3>1. /\ client'[c].at = "truncate" /\ client'[c].op = client[c].op
          /\ client'[c].held = client[c].held /\ client'[c].new = Refreshed(client[c].held)
      BY <1>1, <2>4 DEF ClientType
    <3>2. /\ Rotates => client'[c].new.refresh = Issued
          /\ ~Rotates => client'[c].new.refresh = client[c].held.refresh
      BY <3>1 DEF Refreshed
    <3>3. Storing(c)' /\ Refreshing(c)'
      BY <2>2, <3>1 DEF Storing, Refreshing
    <3> QED
      BY <1>1, <1>2, <1>3, <1>4, <2>1, <2>2, <3>1, <3>2, <3>3, IssueStep
  <2> QED
    BY <2>1, <2>3, <2>4
<1>7. CASE Redeem(c)
  <2>1. /\ CanIssue /\ service' = Issue({})
        /\ \/ Retries(c)
           \/ client' = [client EXCEPT ![c].at = "truncate",
                            ![c].new = [access |-> Issued, refresh |-> Issued]]
    BY <1>7 DEF IssuesTo, Redeem, StillPending, Spend
  <2>2. client[c].at = "redeem" /\ client[c].op = "complete"
    BY <1>1, <1>7 DEF Redeem, At, Sound
  <2>3. CASE Retries(c)
    BY <1>1, <1>2, <1>3, <1>4, <1>5, <2>1, <2>2, <2>3, IssueStep DEF Storing, Refreshing
  <2>4. CASE client' = [client EXCEPT ![c].at = "truncate",
                            ![c].new = [access |-> Issued, refresh |-> Issued]]
    <3>1. /\ client'[c].at = "truncate" /\ client'[c].op = client[c].op
          /\ client'[c].held = client[c].held /\ client'[c].new.refresh = Issued
      BY <1>1, <2>4 DEF ClientType
    <3>2. ~Refreshing(c)' /\ Storing(c)'
      BY <2>2, <3>1 DEF Storing, Refreshing
    <3> QED
      BY <1>1, <1>2, <1>3, <1>4, <2>1, <3>1, <3>2, IssueStep
  <2> QED
    BY <2>1, <2>3, <2>4
<1> QED
  BY <1>6, <1>7 DEF IssuesTo

LEMMA TokenStep ==
    ASSUME IInv, [Next]_vars PROVE TokenInv'
<1> USE DEF IInv
<1>1. CASE UNCHANGED vars \/ (\E s \in Sessions : Approve(s))
  <2>1. UNCHANGED <<file, service, client, wasted>>
    BY <1>1 DEF vars, Approve
  <2> QED
    BY <2>1 DEF TokenInv, KnownInv, FreshInv, SteadyInv, GoneInv, StaysSignedIn, Authenticated,
       Storing, Refreshing, At
<1>2. ASSUME NEW k \in Tokens, Expire(k) PROVE TokenInv'
  <2>1. UNCHANGED <<file, client, wasted>> /\ service'.live = service.live /\ service'.issued = service.issued
    BY <1>2 DEF Expire, TypeOK
  <2> QED
    BY <2>1 DEF TokenInv, KnownInv, FreshInv, SteadyInv, GoneInv, StaysSignedIn, Authenticated,
       Storing, Refreshing, At
<1>3. ASSUME NEW c \in Clients, Begin(c) \/ Step(c) \/ Die(c), ~Unlink(c), ~Truncate(c), ~Fill(c)
      PROVE  TokenInv'
  BY <1>3, PlainCase, IssueCase DEF IssuesTo
<1> QED
  BY <1>1, <1>2, <1>3, StepSplit, TruncateStep, FillStep, UnlinkStep

LEMMA NextInv == IInv /\ [Next]_vars => IInv'
BY TypeStep, SessionStep, LogoutStep, TokenStep DEF IInv

LEMMA InitInv == Init => IInv
<1> SUFFICES ASSUME Init PROVE IInv
  OBVIOUS
<1>1. TypeOK
  <2>1. client \in [Clients -> ClientType]
    BY IdleType DEF Init
  <2>2. 1 \in Tokens /\ 1 \in 0 .. MaxTokens /\ 0 \in 0 .. MaxTokens
        /\ 0 \in 0 .. MaxOps /\ 0 \in 0 .. MaxFaults
    BY ProviderAuthConstants DEF Tokens
  <2>3. file \in Credential \cup {NoFile, Empty, Garbled}
    BY <2>2 DEF Init, Credential
  <2>4. service \in [issued : 0 .. MaxTokens, live : SUBSET Tokens, fresh : SUBSET Tokens]
    BY <2>2 DEF Init
  <2>5. session \in [Sessions -> [there : BOOLEAN,
                                 code : {"none", "pending", "granted", "spent"}]]
    BY DEF Init
  <2> QED
    BY <2>1, <2>2, <2>3, <2>4, <2>5 DEF Init, TypeOK, ClientType
<1>2. \A c \in Clients : client[c] = Idle
  BY DEF Init
<1>3. \A c \in Clients : ~Refreshing(c) /\ ~Storing(c) /\ ~At(c, "unlink") /\ Sound(client[c])
  BY <1>2, IdleType DEF Refreshing, Storing, At, Idle
<1>4. SessionInv /\ LogoutInv
  BY <1>3 DEF Init, SessionInv, SessionHeld, LogoutInv
<1>5. ~Authenticated \/ (file.refresh = 1 /\ service.issued = 1 /\ service.live = {1})
  BY DEF Init, Authenticated, NoFile, Credential, Tokens
<1>6. service.live \subseteq 1 .. service.issued /\ 0 <= service.issued
  BY DEF Init
<1>7. \A c \in Clients : client[c].held.refresh = 0 /\ client[c].new.refresh = 0
  BY <1>2 DEF Idle, NoFile
<1>8. TokenInv
  BY <1>3, <1>5, <1>6, <1>7 DEF TokenInv, KnownInv, FreshInv, SteadyInv, GoneInv, StaysSignedIn
<1> QED
  BY <1>1, <1>3, <1>4, <1>8 DEF IInv

----
(* IInv is an inductive invariant. *)
THEOREM AuthInvariant == Spec => []IInv
BY InitInv, NextInv, PTL DEF Spec

(* The state of the account, its sessions and its clients has its type     *)
(* (TypeOK).                                                               *)
THEOREM TypesKept == Spec => []TypeOK
BY AuthInvariant, PTL DEF IInv

(* An account that status shows can be used, or a client is about to       *)
(* store the tokens that can, as long as no answer and no client is lost   *)
(* (_refresh_credential_if_needed, _exchange_refresh_token).               *)
THEOREM AccountStaysSignedIn == Spec => []StaysSignedIn
<1>1. IInv => StaysSignedIn
  BY DEF IInv, TokenInv
<1> QED
  BY <1>1, AuthInvariant, PTL

(* After a logout that no refresh overlapped there is no account until a   *)
(* login is completed (ProviderService.logout).                            *)
THEOREM LogoutHolds == Spec => []LogoutSticks
<1>1. IInv => LogoutSticks
  BY DEF IInv, LogoutInv, LogoutSticks
<1> QED
  BY <1>1, AuthInvariant, PTL

(* A session's file is deleted only when its credential was written        *)
(* (complete_login).                                                       *)
THEOREM SessionIsHeld == Spec => []SessionHeld
<1>1. IInv => SessionHeld
  BY DEF IInv, SessionInv
<1> QED
  BY <1>1, AuthInvariant, PTL
=============================================================================
