----------------------------- MODULE ManagerCore -----------------------------
(***************************************************************************)
(* shared/manager/manager.go with the TaskStore it owns: the steps of      *)
(* Submit, one instance per request, and of the runEventLoop goroutine.    *)
(* Every store operation holds the store's mutex (or is one SQL            *)
(* statement), so a step here is one store operation or one call of the    *)
(* dispatcher or the bridge.  The dispatcher and the bridge belong to the  *)
(* pattern: its module conjoins their effect to the steps below.           *)
(***************************************************************************)
EXTENDS TaskModel

VARIABLES
    store,      \* TaskStore: task id -> the fields of its row
    req,        \* Submit: where the request of each task is
    loop        \* runEventLoop: where it is and the event it holds

mgrVars == <<store, req, loop>>

-----------------------------------------------------------------------------
DispatchError == {"ErrDispatchFull", "ErrNoWorkers", "other"}

(* Only the fields that change or that a property mentions.  dispatchedAt  *)
(* and completedAt say whether the timestamp is set.                       *)
Row ==
    [status : TaskStatus \cup {"absent"}, user : UserIDs, stages : 0..MaxStages,
     dispatchedAt : BOOLEAN, completedAt : BOOLEAN]

NoRow ==
    [status |-> "absent", user |-> NoUser, stages |-> 0,
     dispatchedAt |-> FALSE, completedAt |-> FALSE]

ReqState ==
    [pc : {"new", "dispatch", "stamp", "fail", "done"},
     err : DispatchError \cup {"none"}]

LoopPc == {"receive", "enrich", "persist", "publish", "exit"}

MgrTypeOK ==
    /\ store \in [Tasks -> Row]
    /\ req \in [Tasks -> ReqState]
    /\ loop \in [pc : LoopPc, ev : Event \cup {NoEvent}]
    /\ loop.pc \in {"enrich", "persist", "publish"} => loop.ev \in Event

MgrInit ==
    /\ store = [t \in Tasks |-> NoRow]
    /\ req = [t \in Tasks |-> [pc |-> "new", err |-> "none"]]
    /\ loop = [pc |-> "receive", ev |-> NoEvent]

-----------------------------------------------------------------------------
(* The store.                                                              *)

Exists(t) == store[t].status # "absent"

(* Create fails when the id is present: guard, not outcome, because ids    *)
(* are fresh.                                                              *)
Create(t, u, n) ==
    /\ ~Exists(t)
    /\ store' = [store EXCEPT ![t] =
            [status |-> "pending", user |-> u, stages |-> n,
             dispatchedAt |-> FALSE, completedAt |-> FALSE]]

(* Unconditional overwrite; not found is an error its callers ignore.      *)
SetStatus(t, s) ==
    store' = IF Exists(t)
             THEN [store EXCEPT ![t].status = s,
                                ![t].completedAt = @ \/ s \in Terminal]
             ELSE store

SetDispatchedAt(t) ==
    store' = IF Exists(t) THEN [store EXCEPT ![t].dispatchedAt = TRUE] ELSE store

-----------------------------------------------------------------------------
(* Submit: Create, Dispatch, then SetDispatchedAt or SetStatus(failed).    *)

(* POST /tasks up to store.Create.  A request with no name or a malformed  *)
(* body is answered 400 before this step and changes nothing.              *)
SubmitCreate(t, u, n) ==
    /\ req[t].pc = "new"
    /\ Create(t, u, SubmitStages(n))
    /\ req' = [req EXCEPT ![t].pc = "dispatch"]
    /\ UNCHANGED loop

(* dispatcher.Dispatch returned nil ...                                    *)
SubmitDispatched(t) ==
    /\ req[t].pc = "dispatch"
    /\ req' = [req EXCEPT ![t].pc = "stamp"]
    /\ UNCHANGED <<store, loop>>

(* ... or an error.                                                        *)
SubmitRefused(t, err) ==
    /\ req[t].pc = "dispatch"
    /\ req' = [req EXCEPT ![t] = [pc |-> "fail", err |-> err]]
    /\ UNCHANGED <<store, loop>>

(* Mutant of SubmitStamp: the row is written back whole, status included.  *)
SubmitStampRow(t) ==
    /\ req[t].pc = "stamp"
    /\ store' = [store EXCEPT ![t].dispatchedAt = TRUE, ![t].status = "pending"]
    /\ req' = [req EXCEPT ![t].pc = "done"]
    /\ UNCHANGED loop

SubmitStamp(t) ==
    /\ req[t].pc = "stamp"
    /\ SetDispatchedAt(t)
    /\ req' = [req EXCEPT ![t].pc = "done"]
    /\ UNCHANGED loop

SubmitFail(t) ==
    /\ req[t].pc = "fail"
    /\ SetStatus(t, "failed")
    /\ req' = [req EXCEPT ![t].pc = "done"]
    /\ UNCHANGED loop

(* Submit as one step, for the patterns in which nobody watches the row    *)
(* between its writes: the calls above in the same order, dispatched ...   *)
SubmitAccepted(t, u, n) ==
    /\ req[t].pc = "new"
    /\ ~Exists(t)
    /\ store' = [store EXCEPT ![t] =
            [status |-> "pending", user |-> u, stages |-> SubmitStages(n),
             dispatchedAt |-> TRUE, completedAt |-> FALSE]]
    /\ req' = [req EXCEPT ![t].pc = "done"]
    /\ UNCHANGED loop

(* ... or refused.                                                         *)
SubmitRejected(t, u, n, err) ==
    /\ req[t].pc = "new"
    /\ ~Exists(t)
    /\ store' = [store EXCEPT ![t] =
            [status |-> "failed", user |-> u, stages |-> SubmitStages(n),
             dispatchedAt |-> FALSE, completedAt |-> TRUE]]
    /\ req' = [req EXCEPT ![t] = [pc |-> "done", err |-> err]]
    /\ UNCHANGED loop

(* The answer of POST /tasks once the handler has returned; an HTMX        *)
(* request that succeeds is answered 200 with a card instead of 202.       *)
HTTPStatus(t) ==
    CASE req[t].err = "none"            -> 202
      [] req[t].err = "ErrDispatchFull" -> 429
      [] req[t].err = "ErrNoWorkers"    -> 503
      [] OTHER                          -> 500

(* The dispatcher has taken the task over from Submit.                     *)
Dispatched(t) ==
    req[t].pc = "stamp" \/ (req[t].pc = "done" /\ req[t].err = "none")

-----------------------------------------------------------------------------
(* runEventLoop: ReceiveEvent, Get, SetStatus, Publish, one event at a     *)
(* time.                                                                   *)

LoopReceive(ev) ==
    /\ loop.pc = "receive"
    /\ loop' = [pc |-> "enrich", ev |-> ev]
    /\ UNCHANGED <<store, req>>

Enriched(ev) ==
    IF Exists(ev.task) THEN [ev EXCEPT !.user = store[ev.task].user] ELSE ev

(* Mutant of LoopEnrich: the terminal status is published, not persisted.  *)
LoopEnrichForgetful ==
    /\ loop.pc = "enrich"
    /\ loop' = [pc |-> "publish", ev |-> Enriched(loop.ev)]
    /\ UNCHANGED <<store, req>>

(* Mutant of LoopEnrich: every task_status event is persisted.             *)
LoopEnrichPersistAll ==
    /\ loop.pc = "enrich"
    /\ loop' = [pc |-> IF loop.ev.type = "task_status" THEN "persist" ELSE "publish",
                ev |-> Enriched(loop.ev)]
    /\ UNCHANGED <<store, req>>

LoopEnrich ==
    /\ loop.pc = "enrich"
    /\ loop' = [pc |-> IF IsTerminal(loop.ev) THEN "persist" ELSE "publish",
                ev |-> Enriched(loop.ev)]
    /\ UNCHANGED <<store, req>>

LoopPersist ==
    /\ loop.pc = "persist"
    /\ SetStatus(loop.ev.task, loop.ev.status)
    /\ loop' = [loop EXCEPT !.pc = "publish"]
    /\ UNCHANGED req

(* events.Publish(loop.ev) is conjoined by the pattern.                    *)
LoopPublish ==
    /\ loop.pc = "publish"
    /\ loop' = [pc |-> "receive", ev |-> NoEvent]
    /\ UNCHANGED <<store, req>>

(* The store's part of one iteration for the patterns in which nobody      *)
(* watches the loop between two calls: they take it in one step.           *)
LoopIteration(ev) ==
    /\ IF IsTerminal(ev) THEN SetStatus(ev.task, ev.status) ELSE UNCHANGED store
    /\ UNCHANGED <<req, loop>>

(* ReceiveEvent returned ctx.Err().                                        *)
LoopExit ==
    /\ loop.pc = "receive"
    /\ loop' = [loop EXCEPT !.pc = "exit"]
    /\ UNCHANGED <<store, req>>
=============================================================================
