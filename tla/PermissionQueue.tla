--------------------------- MODULE PermissionQueue ---------------------------
(***************************************************************************)
(* The permission overlay of the agent-management desktop app             *)
(* (src/examples/agent-management/src/lib.rs).  Claude Code permission   *)
(* requests arrive on a subscription and are queued per session; the UI  *)
(* takes the next one of a session with get_current_permission, which   *)
(* makes it the session's active request, and answers it with           *)
(* respond_permission, which forgets it and emits the decision.          *)
(* get_sessions and get_badge_counts only read.                          *)
(*                                                                         *)
(* `queues` and `active` are each behind a tokio Mutex; Tauri runs async  *)
(* commands concurrently on the runtime, so every .await on a lock is a  *)
(* point where other commands and the subscription task interleave.      *)
(* Each element of Procs is one in-flight command invocation slot.  The  *)
(* agents lock taken last by get_badge_counts is left out: nothing that  *)
(* holds it waits for queues or active.                                   *)
(***************************************************************************)
EXTENDS Naturals, Sequences, SequencesExt, NotifClient

CONSTANTS Procs,        \* concurrent command invocations
          Sessions,     \* Claude Code session ids
          MaxRequests,  \* bound: permission requests that arrive
          MaxResponses, \* bound: responses emitted
          NoOwner       \* model value: a free lock

ASSUME NoOwner \notin Procs /\ MaxRequests \in Nat /\ MaxResponses \in Nat

Requests == 1..MaxRequests
NoReq == 0
Locks == {"queues", "active"}
Holder == Procs \cup {NoOwner}

(* Where a command is suspended: on which lock it waits next, or in emit. *)
PcValues == {"idle", "get_sessions", "get_badge_counts",
             "get_current_permission", "respond_permission"}

VARIABLES queues,     \* session -> VecDeque<PermissionRequest>
          active,     \* session -> the request shown to the user, or NoReq
          owner,      \* lock -> the holder of that tokio Mutex
          pc,         \* proc -> the command it is inside ("idle" if none)
          arg,        \* proc -> the session_id argument of that command
          taken,      \* proc -> request respond_permission removed from active
          arrived,    \* history: session -> requests in arrival order
          shown,      \* history: session -> requests made active, in order
          removed,    \* history: requests respond_permission removed from active
          responses   \* history: responses the broker published [session, answers]

vars == <<queues, active, owner, pc, arg, taken, arrived, shown, removed, responses>>

Init ==
    /\ queues = [s \in Sessions |-> <<>>]
    /\ active = [s \in Sessions |-> NoReq]
    /\ owner = [l \in Locks |-> NoOwner]
    /\ pc = [p \in Procs |-> "idle"]
    /\ arg = [p \in Procs |-> CHOOSE s \in Sessions : TRUE]
    /\ taken = [p \in Procs |-> NoReq]
    /\ arrived = [s \in Sessions |-> <<>>]
    /\ shown = [s \in Sessions |-> <<>>]
    /\ removed = {}
    /\ responses = <<>>

Free(l) == owner[l] = NoOwner
Received == UNION {Range(arrived[s]) : s \in Sessions}
Responding == {p \in Procs : pc[p] = "respond_permission"}

-----------------------------------------------------------------------------
(* Faulty variant: the request keeps request.id = None instead of taking  *)
(* the event's id.                                                        *)
PermissionRequestArrives_NoId(s) ==
    /\ Free("queues")
    /\ Cardinality(Received) < MaxRequests
    /\ queues' = [queues EXCEPT ![s] = Append(@, NoReq)]
    /\ arrived' = [arrived EXCEPT ![s] = Append(@, NoReq)]
    /\ UNCHANGED <<active, owner, pc, arg, taken, shown, removed, responses>>

(* start_permission_subscription: a request event, its id defaulted to    *)
(* the event's id, is pushed to the back of its session's queue under the *)
(* queues lock (taken and released in one block, no other lock held).   *)
PermissionRequestArrives(s) ==
    /\ Free("queues")
    /\ Cardinality(Received) < MaxRequests
    /\ LET r == Cardinality(Received) + 1 IN
       /\ queues' = [queues EXCEPT ![s] = Append(@, r)]
       /\ arrived' = [arrived EXCEPT ![s] = Append(@, r)]
    /\ UNCHANGED <<active, owner, pc, arg, taken, shown, removed, responses>>

(* get_sessions and get_badge_counts lock queues, then active, read, and  *)
(* drop both guards on return (get_badge_counts also locks agents, which *)
(* no holder of queues or active ever waits for).                        *)
LockQueuesFirst(p, cmd) ==
    /\ pc[p] = "idle" /\ Free("queues")
    /\ owner' = [owner EXCEPT !["queues"] = p]
    /\ pc' = [pc EXCEPT ![p] = cmd]
    /\ UNCHANGED <<queues, active, arg, taken, arrived, shown, removed, responses>>

LockActiveSecondAndRead(p, cmd) ==
    /\ pc[p] = cmd /\ Free("active")
    /\ owner' = [owner EXCEPT !["queues"] = NoOwner]
    /\ pc' = [pc EXCEPT ![p] = "idle"]
    /\ UNCHANGED <<queues, active, arg, taken, arrived, shown, removed, responses>>

GetSessions(p) == LockQueuesFirst(p, "get_sessions")
GetSessionsRead(p) == LockActiveSecondAndRead(p, "get_sessions")
GetBadgeCounts(p) == LockQueuesFirst(p, "get_badge_counts")
GetBadgeCountsRead(p) == LockActiveSecondAndRead(p, "get_badge_counts")

(* Faulty variant: the active guard is dropped before the queues lock is  *)
(* taken, so the emptiness check is stale by the time the pop is stored. *)
GetCurrentPermission_Unheld(p, s) ==
    /\ pc[p] = "idle" /\ Free("active")
    /\ arg' = [arg EXCEPT ![p] = s]
    /\ IF active[s] # NoReq
       THEN UNCHANGED pc
       ELSE pc' = [pc EXCEPT ![p] = "get_current_permission"]
    /\ UNCHANGED <<owner, queues, active, taken, arrived, shown, removed, responses>>

(* get_current_permission(s), first half: lock active; if the session has *)
(* an active request it is returned and the guard dropped, otherwise the *)
(* command goes on to lock queues while still holding active.            *)
GetCurrentPermission(p, s) ==
    /\ pc[p] = "idle" /\ Free("active")
    /\ arg' = [arg EXCEPT ![p] = s]
    /\ IF active[s] # NoReq
       THEN UNCHANGED <<owner, pc>>
       ELSE /\ owner' = [owner EXCEPT !["active"] = p]
            /\ pc' = [pc EXCEPT ![p] = "get_current_permission"]
    /\ UNCHANGED <<queues, active, taken, arrived, shown, removed, responses>>

(* get_current_permission(s), second half: lock queues, pop the front of   *)
(* the session's queue into active, drop both guards.                    *)
GetCurrentPermissionPop(p) ==
    /\ pc[p] = "get_current_permission" /\ Free("queues")
    /\ LET s == arg[p] IN
       IF queues[s] # <<>>
       THEN /\ queues' = [queues EXCEPT ![s] = Tail(@)]
            /\ active' = [active EXCEPT ![s] = Head(queues[s])]
            /\ shown' = [shown EXCEPT ![s] = Append(@, Head(queues[s]))]
       ELSE UNCHANGED <<queues, active, shown>>
    /\ owner' = [l \in Locks |-> IF owner[l] = p THEN NoOwner ELSE owner[l]]
    /\ pc' = [pc EXCEPT ![p] = "idle"]
    /\ UNCHANGED <<arg, taken, arrived, removed, responses>>

(* respond_permission(s), first half: lock active, remove the session's   *)
(* entry (whatever it is, or nothing), drop the guard.  The UI passes the *)
(* session of a request it displayed, possibly already answered.         *)
RespondPermission(p, s) ==
    /\ pc[p] = "idle" /\ Free("active")
    /\ shown[s] # <<>>
    /\ Len(responses) + Cardinality(Responding) < MaxResponses
    /\ active' = [active EXCEPT ![s] = NoReq]
    /\ taken' = [taken EXCEPT ![p] = active[s]]
    /\ removed' = IF active[s] # NoReq THEN removed \cup {active[s]} ELSE removed
    /\ arg' = [arg EXCEPT ![p] = s]
    /\ pc' = [pc EXCEPT ![p] = "respond_permission"]
    /\ UNCHANGED <<queues, owner, arrived, shown, responses>>

(* respond_permission(s), second half: client.emit of the decision.  The  *)
(* hook gets it when the broker published it, whatever emit returned; the *)
(* command returns Ok or Err as emit did, with no state changed either   *)
(* way (the HTTP call has a timeout, so it always returns).              *)
RespondPermissionEmit(p, x) ==
    /\ pc[p] = "respond_permission"
    /\ responses' = IF Published(x)
                    THEN Append(responses, [session |-> arg[p], answers |-> taken[p]])
                    ELSE responses
    /\ pc' = [pc EXCEPT ![p] = "idle"]
    /\ taken' = [taken EXCEPT ![p] = NoReq]
    /\ UNCHANGED <<queues, active, owner, arg, arrived, shown, removed>>

-----------------------------------------------------------------------------
Next ==
    \/ \E s \in Sessions : PermissionRequestArrives(s)
    \/ \E p \in Procs :
          \/ GetSessions(p) \/ GetSessionsRead(p)
          \/ GetBadgeCounts(p) \/ GetBadgeCountsRead(p)
          \/ \E s \in Sessions : GetCurrentPermission(p, s) \/ RespondPermission(p, s)
          \/ GetCurrentPermissionPop(p)
          \/ \E x \in EmitExchanges : RespondPermissionEmit(p, x)

(* A command that was invoked runs to completion as far as its locks let  *)
(* it: tokio's Mutex hands the lock to waiters in FIFO order, so a waiter *)
(* that is repeatedly offered the lock gets it (strong fairness); emit   *)
(* always returns (weak fairness).  Invoking a command is up to the UI.  *)
Fairness ==
    \A p \in Procs :
        /\ SF_vars(GetSessionsRead(p))
        /\ SF_vars(GetBadgeCountsRead(p))
        /\ SF_vars(GetCurrentPermissionPop(p))
        /\ WF_vars(\E x \in EmitExchanges : RespondPermissionEmit(p, x))

Spec == Init /\ [][Next]_vars
FairSpec == Spec /\ Fairness

-----------------------------------------------------------------------------
(* Properties.                                                           *)

TypeOK ==
    /\ queues \in [Sessions -> Seq(Requests)]
    /\ active \in [Sessions -> Requests \cup {NoReq}]
    /\ owner \in [Locks -> Holder]
    /\ pc \in [Procs -> PcValues]
    /\ arg \in [Procs -> Sessions]
    /\ taken \in [Procs -> Requests \cup {NoReq}]
    /\ arrived \in [Sessions -> Seq(Requests)]
    /\ shown \in [Sessions -> Seq(Requests)]
    /\ removed \in SUBSET Requests
    /\ responses \in Seq([session : Sessions, answers : Requests \cup {NoReq}])

(* However the commands and the subscription interleave, no request is    *)
(* lost, duplicated or reordered: each session's arrivals are exactly the *)
(* requests already shown followed by its queue; every shown request is  *)
(* either the session's active one (the last shown, not yet removed) or  *)
(* was removed by respond_permission.                                    *)
RequestsAccountedInOrder ==
    \A s \in Sessions :
        /\ arrived[s] = shown[s] \o queues[s]
        /\ \A i \in 1..Len(shown[s]) : shown[s][i] = active[s] \/ shown[s][i] \in removed
        /\ active[s] # NoReq =>
              /\ active[s] = shown[s][Len(shown[s])]
              /\ active[s] \notin removed

(* Every command the UI invokes returns: get_sessions / get_badge_counts  *)
(* lock queues then active, get_current_permission locks active then     *)
(* queues, and neither may wait on the other for ever.                   *)
CommandsReturn == \A p \in Procs : (pc[p] # "idle") ~> (pc[p] = "idle")

(* The requests a session's responses answer, in emit order.             *)
AnswersFor(s) ==
    LET mine == SelectSeq(responses, LAMBDA r : r.session = s)
    IN  [i \in 1..Len(mine) |-> mine[i].answers]

(* Whenever no respond_permission is between its two halves, each        *)
(* session's emitted decisions answer exactly the requests of that       *)
(* session the user answered (removed from active), each once and in the *)
(* order they were shown: the decision carries only the session id, so   *)
(* order is all a hook has to match it to its request.  A failed         *)
(* client.emit after active.remove must lose none, a second call for the *)
(* same session (a double click) must add none, and two responses in     *)
(* flight must not reach the broker in the other order.                  *)
ResponsesMatchAnswered ==
    Responding = {} =>
        \A s \in Sessions :
            AnswersFor(s) = SelectSeq(shown[s], LAMBDA r : r \in removed)

=============================================================================
