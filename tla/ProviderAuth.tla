----------------------------- MODULE ProviderAuth -----------------------------
(* The account of one provider (ProviderService over FileCredentialStore    *)
(* and AuthSessionStore) in the modes that keep an access token and a       *)
(* refresh token (oauth_browser and device_code). The runtime's threads and *)
(* the command line use one credential file without a lock: a use of the    *)
(* provider refreshes the tokens when the access token has expired, a login *)
(* begins a session and completes it later, a logout deletes the file.      *)
(* The provider's service issues tokens, numbered in the order of issue,    *)
(* and redeems the code of a session once. With Rotates it withdraws a      *)
(* refresh token when it is exchanged for a new one.                        *)
EXTENDS Naturals, FiniteSets

CONSTANTS
    Clients,        \* threads and processes
    Sessions,       \* ids of login sessions
    NoSession,
    Rotates,        \* whether the service rotates refresh tokens
    MaxTries,       \* the attempts at a request, 5 in the code
    MaxTokens,      \* bound: tokens issued
    MaxOps,         \* bound: operations
    MaxFaults       \* bound: lost answers and deaths

ASSUME ProviderAuthConstants ==
    /\ NoSession \notin Sessions
    /\ Rotates \in BOOLEAN
    /\ {MaxTries, MaxTokens} \subseteq Nat \ {0}
    /\ {MaxOps, MaxFaults} \subseteq Nat

VARIABLES
    file,       \* credentials/<provider>.json
    session,    \* auth sessions: the file, and what the service knows
    service,    \* the service's tokens
    client,
    used,       \* what is used of the bounds
    out,        \* the last change of account was a logout nobody overlapped
    wasted,     \* an answer with a new token was lost
    stored,     \* the sessions whose credential was written
    refused     \* a login or logout ended because the file does not parse

vars == <<file, session, service, client, used, out, wasted, stored, refused>>

Tokens == 1 .. MaxTokens

(* A credential: the numbers of the access and of the refresh token.        *)
Credential == [access : Tokens, refresh : Tokens]

(* A file that a writer has truncated, and one that two writers mixed up.   *)
NoFile  == [access |-> 0, refresh |-> 0]
Empty   == [access |-> 0, refresh |-> 1]
Garbled == [access |-> 0, refresh |-> 2]

Parses == file \notin {Empty, Garbled}

Ops == {"use", "begin", "complete", "logout"}

Idle == [op |-> "none", at |-> "idle", held |-> NoFile, new |-> NoFile,
         session |-> NoSession, tries |-> 0, gone |-> FALSE]

TypeOK ==
    /\ file \in Credential \cup {NoFile, Empty, Garbled}
    /\ session \in [Sessions -> [there : BOOLEAN,
                                 code : {"none", "pending", "granted", "spent"}]]
    /\ service \in [issued : 0 .. MaxTokens, live : SUBSET Tokens, fresh : SUBSET Tokens]
    /\ client \in [Clients ->
          [op : Ops \cup {"none"},
           at : {"idle", "session", "load", "exchange", "begin", "redeem",
                 "truncate", "fill", "unlink"},
           held : Credential \cup {NoFile}, new : Credential \cup {NoFile},
           session : Sessions \cup {NoSession}, tries : 0 .. MaxTries - 1, gone : BOOLEAN]]
    /\ used \in [ops : 0 .. MaxOps, faults : 0 .. MaxFaults]
    /\ out \in BOOLEAN /\ wasted \in BOOLEAN /\ refused \in BOOLEAN
    /\ stored \subseteq Sessions

(* Nobody is signed in, or somebody is since an earlier time.               *)
Init ==
    /\ \/ /\ file = NoFile
          /\ service = [issued |-> 0, live |-> {}, fresh |-> {}]
       \/ /\ file = [access |-> 1, refresh |-> 1]
          /\ service = [issued |-> 1, live |-> {1}, fresh |-> {1}]
    /\ session = [s \in Sessions |-> [there |-> FALSE, code |-> "none"]]
    /\ client = [c \in Clients |-> Idle]
    /\ used = [ops |-> 0, faults |-> 0]
    /\ out = FALSE /\ wasted = FALSE /\ refused = FALSE
    /\ stored = {}

-----------------------------------------------------------------------------
(* The service.                                                             *)

Issued == service.issued + 1

CanIssue == service.issued < MaxTokens

Issue(withdrawn) ==
    [issued |-> Issued,
     live   |-> (service.live \ withdrawn) \cup {Issued},
     fresh  |-> service.fresh \cup {Issued}]

(* An access token expires; the user approves a session in the browser.     *)
Expire(k) ==
    /\ k \in service.fresh
    /\ service' = [service EXCEPT !.fresh = @ \ {k}]
    /\ UNCHANGED <<file, session, client, used, out, wasted, stored, refused>>

Approve(s) ==
    /\ session[s].code = "pending"
    /\ session' = [session EXCEPT ![s].code = "granted"]
    /\ UNCHANGED <<file, service, client, used, out, wasted, stored, refused>>

-----------------------------------------------------------------------------
(* Operations of the clients.                                               *)

At(c, stage) == client[c].at = stage

Goes(c, stage) == client' = [client EXCEPT ![c].at = stage, ![c].tries = 0]

Ends(c) == client' = [client EXCEPT ![c] = Idle]

Start(c, op, s) ==
    /\ At(c, "idle")
    /\ used.ops < MaxOps
    /\ used' = [used EXCEPT !.ops = @ + 1]
    /\ client' = [client EXCEPT ![c] =
          [Idle EXCEPT !.op = op, !.session = s,
                       !.at = IF op = "complete" THEN "session" ELSE "load"]]
    /\ UNCHANGED <<file, session, service, out, wasted, stored, refused>>

Begin(c) ==
    \/ \E op \in {"use", "begin", "logout"} : Start(c, op, NoSession)
    \/ \E s \in {t \in Sessions : session[t].code # "none"} : Start(c, "complete", s)

ReadSession(c) ==
    /\ At(c, "session")
    /\ IF session[client[c].session].there THEN Goes(c, "load") ELSE Ends(c)
    /\ UNCHANGED <<file, session, service, used, out, wasted, stored, refused>>

(* The token of the request: a fresh access token goes as it is, an expired *)
(* one is refreshed first; without a credential the call fails.             *)
NeedsRefresh(held) == held # NoFile /\ held.access \notin service.fresh

After(op) ==
    CASE op = "begin"    -> "begin"
      [] op = "complete" -> "redeem"
      [] op = "logout"   -> "unlink"
      [] op = "use"      -> IF NeedsRefresh(file) THEN "exchange" ELSE "idle"

AtRest == \A c \in Clients : ~At(c, "fill")

Load(c) ==
    /\ At(c, "load")
    /\ IF Parses /\ After(client[c].op) # "idle"
       THEN client' = [client EXCEPT ![c].at = After(client[c].op), ![c].held = file]
       ELSE Ends(c)
    /\ refused' = (refused \/ (~Parses /\ client[c].op # "use" /\ AtRest))
    /\ UNCHANGED <<file, session, service, used, out, wasted, stored>>

-----------------------------------------------------------------------------
(* A request that gets no answer is tried again, MaxTries times in all.     *)
Retries(c) ==
    IF client[c].tries + 1 < MaxTries
    THEN client' = [client EXCEPT ![c].tries = @ + 1]
    ELSE Ends(c)

NoAnswer(c) ==
    /\ client[c].at \in {"exchange", "begin", "redeem"}
    /\ Retries(c)
    /\ UNCHANGED <<file, session, service, used, out, wasted, stored, refused>>

(* A refresh that stores the token it sent.                                 *)
RefreshedUnrotated(held) == [access |-> Issued, refresh |-> held.refresh]

(* A response without a refresh token keeps the one that was sent.          *)
Refreshed(held) ==
    [access |-> Issued, refresh |-> IF Rotates THEN Issued ELSE held.refresh]

Withdrawn(held) == IF Rotates THEN {held.refresh} ELSE {}

Exchange(c) ==
    LET held == client[c].held IN
    /\ At(c, "exchange")
    /\ \/ /\ held.refresh \notin service.live
          /\ Ends(c)
          /\ UNCHANGED <<service, used, wasted>>
       \/ /\ held.refresh \in service.live
          /\ CanIssue
          /\ service' = Issue(Withdrawn(held))
          /\ client' = [client EXCEPT ![c].at = "truncate", ![c].new = Refreshed(held)]
          /\ UNCHANGED <<used, wasted>>
       \/ /\ held.refresh \in service.live
          /\ CanIssue
          /\ used.faults < MaxFaults
          /\ used' = [used EXCEPT !.faults = @ + 1]
          /\ service' = Issue(Withdrawn(held))
          /\ wasted' = TRUE
          /\ Retries(c)
    /\ UNCHANGED <<file, session, out, stored, refused>>

BeginSession(c) ==
    /\ At(c, "begin")
    /\ \E s \in Sessions :
          /\ session[s].code = "none"
          /\ session' = [session EXCEPT ![s] = [there |-> TRUE, code |-> "pending"]]
    /\ Ends(c)
    /\ UNCHANGED <<file, service, used, out, wasted, stored, refused>>

(* The approval is still pending: the session stays, to be tried again.     *)
StillPending(c) ==
    /\ session[client[c].session].code = "pending"
    /\ Ends(c)
    /\ UNCHANGED <<session, service, used>>

Spend(s) ==
    /\ session[s].code = "granted"
    /\ CanIssue
    /\ session' = [session EXCEPT ![s].code = "spent"]
    /\ service' = Issue({})

Redeem(c) ==
    LET s == client[c].session IN
    /\ At(c, "redeem")
    /\ \/ StillPending(c)
       \/ session[s].code = "spent" /\ Ends(c) /\ UNCHANGED <<session, service, used>>
       \/ /\ Spend(s)
          /\ client' = [client EXCEPT ![c].at = "truncate",
                           ![c].new = [access |-> Issued, refresh |-> Issued]]
          /\ UNCHANGED used
       \/ /\ used.faults < MaxFaults
          /\ used' = [used EXCEPT !.faults = @ + 1]
          /\ Spend(s)
          /\ Retries(c)
    /\ UNCHANGED <<file, out, wasted, stored, refused>>

-----------------------------------------------------------------------------
(* The credential is written: the file is opened and emptied (or created),  *)
(* then filled. A writer that another one overtook in between writes over   *)
(* the other's text; one whose file was deleted writes to the deleted file. *)
Truncate(c) ==
    /\ At(c, "truncate")
    /\ file' = Empty
    /\ Goes(c, "fill")
    /\ UNCHANGED <<session, service, used, out, wasted, stored, refused>>

Fill(c) ==
    LET new == client[c].new IN
    /\ At(c, "fill")
    /\ file' \in IF client[c].gone THEN {file}
                 ELSE IF file = Empty THEN {new}
                 ELSE {new, Garbled}
    /\ IF client[c].op = "complete"
       THEN /\ stored' = stored \cup {client[c].session}
            /\ out' = FALSE
            /\ Goes(c, "unlink")
       ELSE Ends(c) /\ UNCHANGED <<stored, out>>
    /\ UNCHANGED <<session, service, used, wasted, refused>>

EndLogin(c) ==
    /\ At(c, "unlink")
    /\ client[c].op = "complete"
    /\ session' = [session EXCEPT ![client[c].session].there = FALSE]
    /\ Ends(c)
    /\ UNCHANGED <<file, service, used, out, wasted, stored, refused>>

(* A client that will write a credential it got from an older one.          *)
Refreshing(c) ==
    client[c].op = "use" /\ client[c].at \in {"exchange", "truncate", "fill"}

Overlapped ==
    \E c \in Clients : Refreshing(c) \/ At(c, "fill")

(* The writers that have the file open lose it.                             *)
Unlinked(c) ==
    [d \in Clients |-> IF d = c THEN Idle
                       ELSE [client[d] EXCEPT !.gone = @ \/ client[d].at = "fill"]]

(* A logout that only deletes the credential it had loaded.                 *)
UnlinkLoaded(c) ==
    /\ At(c, "unlink")
    /\ client[c].op = "logout"
    /\ file' = IF file = client[c].held THEN NoFile ELSE file
    /\ client' = Unlinked(c)
    /\ out' = ~Overlapped
    /\ UNCHANGED <<session, service, used, wasted, stored, refused>>

Unlink(c) ==
    /\ At(c, "unlink")
    /\ client[c].op = "logout"
    /\ file' = NoFile
    /\ client' = Unlinked(c)
    /\ out' = ~Overlapped
    /\ UNCHANGED <<session, service, used, wasted, stored, refused>>

Step(c) ==
    \/ ReadSession(c) \/ Load(c) \/ NoAnswer(c) \/ Exchange(c) \/ BeginSession(c)
    \/ Redeem(c) \/ Truncate(c) \/ Fill(c) \/ EndLogin(c) \/ Unlink(c)

(* A client dies; the new token it holds is lost with it.                   *)
Die(c) ==
    /\ ~At(c, "idle")
    /\ used.faults < MaxFaults
    /\ used' = [used EXCEPT !.faults = @ + 1]
    /\ wasted' = (wasted \/ client[c].new # NoFile)
    /\ Ends(c)
    /\ UNCHANGED <<file, session, service, out, stored, refused>>

Next ==
    \/ \E c \in Clients : Begin(c) \/ Step(c) \/ Die(c)
    \/ \E k \in Tokens : Expire(k)
    \/ \E s \in Sessions : Approve(s)

Spec == Init /\ [][Next]_vars

-----------------------------------------------------------------------------
(* What `auth status` says of the file: an account is there.                *)
Authenticated == file \in Credential

(* An account that status shows can be used: its refresh token is one the   *)
(* service still accepts, or a client that has exchanged it is about to     *)
(* write the new one. This survives any number of clients that refresh at   *)
(* the same time, and fails only with an answer or a client that is lost    *)
(* (_refresh_credential_if_needed, _exchange_refresh_token).                *)
StaysSignedIn ==
    (Authenticated /\ ~wasted) =>
        \/ file.refresh \in service.live
        \/ \E c \in Clients : /\ Refreshing(c)
                             /\ client[c].new # NoFile
                             /\ client[c].held.refresh = file.refresh

(* After a logout that no refresh overlapped there is no account until a    *)
(* login is completed (ProviderService.logout).                             *)
LogoutSticks == out => ~Authenticated

(* A login can be completed as long as it was not: its session is only      *)
(* deleted once its credential has been written (complete_login).           *)
SessionHeld ==
    \A s \in Sessions :
        (session[s].code # "none" /\ ~session[s].there) => s \in stored

(* Logging in repairs an account: "Run nagient auth status and nagient auth *)
(* login to repair the profile." (preflight_service.py). A credential file  *)
(* that a death left empty makes every login and logout fail.               *)
LoginRepairs == ~refused
=============================================================================
