----------------------------- MODULE SessionMemory -----------------------------
(***************************************************************************)
(* SessionMemoryService over the messages of one session, in the SQLite    *)
(* file of the workspace.  A message's id is its place in the table, which *)
(* only grows.  Every statement commits by itself, and the flags of the    *)
(* messages in focus are set anew, from a list read before, each time the  *)
(* context of a prompt is built.  Any number of threads append and build.  *)
(***************************************************************************)
EXTENDS Naturals, Sequences

CONSTANTS
    Threads,      \* the threads that handle the session's events
    FocusLimit,   \* dynamic_focus_messages, or the hard limit when the focus is not dynamic
    MaxMessages   \* bound: rows of the session

ASSUME MemoryAssumption ==
    /\ FocusLimit \in Nat \ {0}
    /\ MaxMessages \in Nat

VARIABLES
    messages,   \* the rows of the session, oldest first
    inFocus,    \* the ids of the rows whose in_focus is 1
    build,      \* build[t]: where thread t is in build_prompt_context
    unsynced    \* history: the ids stored while a list of the focus was in use,
                \* and not in one since that no other overlapped

memoryVars == <<messages, inFocus, build, unsynced>>

Build == [step : {"no", "flag", "read", "built"}, focus : SUBSET Nat]

NoBuild == [step |-> "no", focus |-> {}]

LastIds(n) == {i \in 1..Len(messages) : i + n > Len(messages)}

(* Draft: "ORDER BY message_id ASC" *)
FocusIdsOldest == {i \in 1..Len(messages) : i <= FocusLimit}

FocusIds == LastIds(FocusLimit)

MemoryInit ==
    /\ messages = <<>>
    /\ inFocus = {}
    /\ build = [t \in Threads |-> NoBuild]
    /\ unsynced = {}

(* append_message *)
AppendMessage(m) ==
    /\ Len(messages) < MaxMessages
    /\ messages' = Append(messages, m)
    /\ inFocus' = inFocus \cup {Len(messages) + 1}
    /\ unsynced' = IF \E t \in Threads : build[t].step = "flag"
                   THEN unsynced \cup {Len(messages) + 1}
                   ELSE unsynced
    /\ UNCHANGED build

(* _sync_focus_flags: the SELECT *)
SelectFocus(t) ==
    /\ build[t].step = "no"
    /\ build' = [build EXCEPT ![t] = [step |-> "flag", focus |-> FocusIds]]
    /\ UNCHANGED <<messages, inFocus, unsynced>>

(* _sync_focus_flags: the UPDATEs, one transaction *)
SyncFocus(t) ==
    /\ build[t].step = "flag"
    /\ inFocus' = build[t].focus
    /\ build' = [build EXCEPT ![t].step = "read"]
    /\ unsynced' = IF \E d \in Threads \ {t} : build[d].step = "flag"
                   THEN unsynced
                   ELSE unsynced \ build[t].focus
    /\ UNCHANGED messages

(* _list_messages: all rows are read.  The prompt gets the last of them, up *)
(* to the hard limit, and a summary of the others once they are enough.     *)
ReadMessages(t) ==
    /\ build[t].step = "read"
    /\ build' = [build EXCEPT ![t].step = "built"]
    /\ UNCHANGED <<messages, inFocus, unsynced>>

----
MemoryTypeOK ==
    /\ inFocus \subseteq 1..Len(messages)
    /\ build \in [Threads -> Build]
    /\ unsynced \subseteq 1..Len(messages)

(* The latest messages of the session are flagged as being in focus, but    *)
(* for those stored while a thread held a list of the focus: the flags are  *)
(* replaced from that list, and the next list heals it (_sync_focus_flags). *)
FocusKept == LastIds(FocusLimit) \ unsynced \subseteq inFocus
=============================================================================
