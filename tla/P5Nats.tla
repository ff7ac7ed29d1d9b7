------------------------------- MODULE P5Nats -------------------------------
(***************************************************************************)
(* Pattern 5 (patterns/p05): several managers over one Postgres store,     *)
(* tasks in a JetStream work queue, events over core NATS to one manager   *)
(* of the queue group.  The module composes the steps of Manager.Submit    *)
(* and of the executor with NATSDispatcher, NATSConsumer and, per manager, *)
(* runEventLoop and runDeadlineLoop, which sends overdue tasks again.      *)
(* Any process may crash or be told to stop and is started again.          *)
(***************************************************************************)
EXTENDS ManagerCore, ExecutorCore

CONSTANTS
    Managers,       \* the manager processes
    None,           \* no task, no manager
    StageCounts,    \* the stage counts a request may carry
    MaxFaults       \* bound on crashes, stops, failed calls and late steps

(* RunWorker calls exec.Run itself: a worker process is one run.           *)
Workers == Runs

ASSUME P5Assumption ==
    /\ None \notin Tasks \cup Managers
    /\ IsFiniteSet(Workers)
    /\ IsFiniteSet(Managers) /\ Managers # {}
    /\ StageCounts \subseteq Int
    /\ MaxFaults \in Nat

VARIABLES
    up,         \* [Managers]: the process is running
    owner,      \* the manager that handles the request of a task
    inbox,      \* [Managers]: the endings in NATSDispatcher.events or waiting for it
    stale,      \* the tasks whose dispatched_at is older than the deadline
    scan,       \* [Managers]: runDeadlineLoop and what its List left to send
    stream,     \* [Tasks]: messages of the TASKS stream that are not delivered
    cb,         \* [Workers]: the unacknowledged message of the callback
    tasksCh,    \* [Workers]: NATSConsumer.tasks, of capacity 1
    stopping,   \* [Workers]: SIGTERM has cancelled ctx
    faults      \* the faults so far

vars == <<store, req, loop, run, up, owner, inbox, stale, scan, stream, cb, tasksCh,
          stopping, faults>>
mVars == <<up, owner, inbox, scan>>
wVars == <<cb, tasksCh, stopping>>

NoScan == [pc |-> "tick", todo |-> {}, task |-> None]

(* Type invariant of managers, broker and workers.                         *)
TypeOK ==
    /\ MgrTypeOK /\ ExecTypeOK
    /\ up \in [Managers -> BOOLEAN]
    /\ owner \in [Tasks -> Managers \cup {None}]
    /\ inbox \in [Managers -> Seq(Event)]
    /\ stale \subseteq {t \in Tasks : store[t].dispatchedAt}
    /\ scan \in [Managers -> [pc : {"tick", "dispatch", "stamp"}, todo : SUBSET Tasks,
                              task : Tasks \cup {None}]]
    /\ stream \in [Tasks -> Nat]
    /\ cb \in [Workers -> Tasks \cup {None}]
    /\ tasksCh \in [Workers -> Tasks \cup {None}]
    /\ stopping \in [Workers -> BOOLEAN]
    /\ faults \in 0..MaxFaults

Init ==
    /\ MgrInit /\ ExecInit
    /\ up = [m \in Managers |-> TRUE]
    /\ owner = [t \in Tasks |-> None]
    /\ inbox = [m \in Managers |-> <<>>]
    /\ stale = {}
    /\ scan = [m \in Managers |-> NoScan]
    /\ stream = [t \in Tasks |-> 0]
    /\ cb = [w \in Workers |-> None] /\ tasksCh = [w \in Workers |-> None]
    /\ stopping = [w \in Workers |-> FALSE]
    /\ faults = 0

Fault == faults < MaxFaults /\ faults' = faults + 1

Publish(t) == stream' = [stream EXCEPT ![t] = @ + 1]

-----------------------------------------------------------------------------
(* The Postgres store where it differs from the memory store, or is read   *)
(* by the deadline loop.                                                   *)

(* One UPDATE: completed_at is written whatever the status is.             *)
PgSetStatus(t, s) ==
    store' = IF Exists(t)
             THEN [store EXCEPT ![t].status = s, ![t].completedAt = s \in Terminal]
             ELSE store

(* Mutant of PgList: tasks that wait to run are passed over.               *)
PgListRunning == {t \in Tasks : store[t].status = "running" /\ t \in stale}

(* Mutant of PgList: the age of the dispatch is not compared.              *)
PgListAll ==
    {t \in Tasks : Exists(t) /\ store[t].status \notin Terminal /\ store[t].dispatchedAt}

(* List, and what the loop keeps of it: not ended, dispatched, overdue.    *)
PgList == {t \in Tasks : Exists(t) /\ store[t].status \notin Terminal /\ t \in stale}

-----------------------------------------------------------------------------
(* Manager.Submit at manager m.                                            *)

SubmitAt(m, t) ==
    /\ up[m]
    /\ \E u \in UserIDs, n \in StageCounts : SubmitCreate(t, u, n)
    /\ owner' = [owner EXCEPT ![t] = m]
    /\ UNCHANGED <<run, up, inbox, scan, stale, stream, wVars, faults>>

(* js.Publish stored the message and said so, ...                          *)
Dispatch(t) ==
    /\ SubmitDispatched(t)
    /\ Publish(t)
    /\ UNCHANGED <<run, mVars, stale, wVars, faults>>

(* ... or failed, the message being stored or not.                         *)
DispatchFails(t) ==
    /\ Fault
    /\ SubmitRefused(t, "other")
    /\ Publish(t) \/ UNCHANGED stream
    /\ UNCHANGED <<run, mVars, stale, wVars>>

Answer(t) ==
    /\ SubmitStamp(t) \/ SubmitFail(t)
    /\ UNCHANGED <<run, mVars, stale, stream, wVars, faults>>

-----------------------------------------------------------------------------
(* Time passes.  A task that is on its way takes less than the deadline    *)
(* unless something is late; one that nobody has becomes overdue.          *)

(* The executions of t that are still to come or to be recorded.           *)
InInboxes(t) ==
    UNION {{<<m, i>> : i \in {j \in 1..Len(inbox[m]) : inbox[m][j].task = t}} : m \in Managers}

Copies(t) ==
    stream[t]
    + Cardinality({w \in Workers : cb[w] = t})
    + Cardinality({w \in Workers : tasksCh[w] = t})
    + Cardinality({w \in Workers : Busy(w) /\ run[w].task = t})
    + Cardinality(InInboxes(t))

(* Mutant of CanExpire: a row without a dispatch time is overdue as well.  *)
CanExpireNil(t) ==
    Exists(t) /\ store[t].status \notin Terminal /\ t \notin stale

(* DispatchedAt is set and not yet older than the deadline.                *)
CanExpire(t) ==
    store[t].dispatchedAt /\ store[t].status \notin Terminal /\ t \notin stale

Expire(t) ==
    /\ CanExpire(t)
    /\ Copies(t) = 0
    /\ stale' = stale \cup {t}
    /\ UNCHANGED <<mgrVars, run, mVars, stream, wVars, faults>>

ExpireEarly(t) ==
    /\ CanExpire(t)
    /\ Copies(t) > 0
    /\ Fault
    /\ stale' = stale \cup {t}
    /\ UNCHANGED <<mgrVars, run, mVars, stream, wVars>>

-----------------------------------------------------------------------------
(* runDeadlineLoop: one List per tick, then Dispatch and SetDispatchedAt   *)
(* for each task it kept.  A tick that keeps nothing changes nothing.      *)

DeadlineTick(m) ==
    /\ up[m]
    /\ scan[m].pc = "tick"
    /\ PgList # {}
    /\ scan' = [scan EXCEPT ![m] = [pc |-> "dispatch", todo |-> PgList, task |-> None]]
    /\ UNCHANGED <<mgrVars, run, up, owner, inbox, stale, stream, wVars, faults>>

(* The error of Dispatch is ignored.                                       *)
DeadlineDispatch(m) ==
    /\ scan[m].pc = "dispatch"
    /\ \E t \in scan[m].todo :
          /\ scan' = [scan EXCEPT ![m] = [pc |-> "stamp", todo |-> @.todo \ {t}, task |-> t]]
          /\ \/ Publish(t) /\ UNCHANGED faults
             \/ Fault /\ UNCHANGED stream
    /\ UNCHANGED <<mgrVars, run, up, owner, inbox, stale, wVars>>

Stamped(m) ==
    /\ stale' = stale \ {scan[m].task}
    /\ scan' = [scan EXCEPT ![m] =
                   IF @.todo = {} THEN NoScan ELSE [@ EXCEPT !.pc = "dispatch", !.task = None]]
    /\ UNCHANGED <<req, loop, run, up, owner, inbox, stream, wVars, faults>>

(* Mutant of DeadlineStamp: the row of the List is written back whole.     *)
DeadlineStampRow(m) ==
    /\ scan[m].pc = "stamp"
    /\ store' = [store EXCEPT ![scan[m].task].status = "pending"]
    /\ Stamped(m)

DeadlineStamp(m) ==
    /\ scan[m].pc = "stamp"
    /\ SetDispatchedAt(scan[m].task)
    /\ Stamped(m)

-----------------------------------------------------------------------------
(* The worker.                                                             *)

(* JetStream pushes a message to one worker of the durable queue.          *)
Deliver(w) ==
    /\ cb[w] = None
    /\ \E t \in Tasks :
          /\ stream[t] > 0
          /\ cb' = [cb EXCEPT ![w] = t]
          /\ stream' = [stream EXCEPT ![t] = @ - 1]
    /\ UNCHANGED <<mgrVars, run, mVars, stale, tasksCh, stopping, faults>>

(* The acknowledgement is overdue: the message is delivered again while    *)
(* the first callback still waits for room in its channel.                 *)
Redeliver(w, x) ==
    /\ cb[w] # None /\ cb[x] = None
    /\ tasksCh[w] # None
    /\ Fault
    /\ cb' = [cb EXCEPT ![x] = cb[w]]
    /\ UNCHANGED <<mgrVars, run, mVars, stale, stream, tasksCh, stopping>>

(* The callback puts the task into the channel, then acknowledges: before  *)
(* Receive has returned it.                                                *)
CallbackSend(w) ==
    /\ cb[w] # None
    /\ tasksCh[w] = None
    /\ tasksCh' = [tasksCh EXCEPT ![w] = cb[w]]
    /\ cb' = [cb EXCEPT ![w] = None]
    /\ UNCHANGED <<mgrVars, run, mVars, stale, stream, stopping, faults>>

(* Receive; RunWorker then calls exec.Run.                                 *)
Receive(w) ==
    /\ tasksCh[w] # None
    /\ RunStart(w, tasksCh[w], store[tasksCh[w]].stages)
    /\ tasksCh' = [tasksCh EXCEPT ![w] = None]
    /\ UNCHANGED <<mgrVars, mVars, stale, stream, cb, stopping, faults>>

(* Emit: core NATS gives the event to one manager that is up, or to none.  *)
(* In the callback of Start an ending waits for room, any other event may  *)
(* be dropped; runEventLoop republishes the others and leaves the store    *)
(* alone, so they are not kept here.                                       *)
Emit(w) ==
    /\ EmitDone(w)
    /\ IF \E m \in Managers : up[m] /\ IsTerminal(EmitEvent(w))
       THEN \E m \in Managers : up[m] /\ inbox' = [inbox EXCEPT ![m] = Append(@, EmitEvent(w))]
       ELSE UNCHANGED inbox
    /\ UNCHANGED <<mgrVars, up, owner, scan, stale, stream, wVars, faults>>

Stage(w) ==
    /\ StageSleep(w) \/ (stopping[w] /\ StageCancelled(w))
    /\ UNCHANGED <<mgrVars, mVars, stale, stream, wVars, faults>>

(* runEventLoop over ReceiveEvent, one iteration.                          *)
EventLoop(m) ==
    /\ up[m]
    /\ inbox[m] # <<>>
    /\ PgSetStatus(Head(inbox[m]).task, Head(inbox[m]).status)
    /\ inbox' = [inbox EXCEPT ![m] = Tail(@)]
    /\ UNCHANGED <<req, loop, run, up, owner, scan, stale, stream, wVars, faults>>

-----------------------------------------------------------------------------
(* Crashes, stops and restarts.                                            *)

(* What the process holds is gone, and the answers of its requests.        *)
ManagerCrash(m) ==
    /\ up[m]
    /\ Fault
    /\ up' = [up EXCEPT ![m] = FALSE]
    /\ inbox' = [inbox EXCEPT ![m] = <<>>]
    /\ scan' = [scan EXCEPT ![m] = NoScan]
    /\ req' = [t \in Tasks |-> IF owner[t] = m /\ req[t].pc # "done"
                               THEN [pc |-> "done", err |-> "other"] ELSE req[t]]
    /\ UNCHANGED <<store, loop, run, owner, stale, stream, wVars>>

ManagerRestart(m) ==
    /\ ~up[m]
    /\ up' = [up EXCEPT ![m] = TRUE]
    /\ UNCHANGED <<mgrVars, run, owner, inbox, scan, stale, stream, wVars, faults>>

(* The unacknowledged message returns to the stream, the acknowledged one  *)
(* in the channel does not.                                                *)
WorkerGone(w) ==
    /\ run' = [run EXCEPT ![w] = Idle]
    /\ tasksCh' = [tasksCh EXCEPT ![w] = None]
    /\ cb' = [cb EXCEPT ![w] = None]
    /\ IF cb[w] = None THEN UNCHANGED stream ELSE Publish(cb[w])
    /\ UNCHANGED <<mgrVars, mVars, stale>>

WorkerCrash(w) ==
    /\ Busy(w) \/ tasksCh[w] # None \/ cb[w] # None
    /\ Fault
    /\ WorkerGone(w)
    /\ UNCHANGED stopping

(* SIGTERM: Run ends its stage and reports "failed" before RunWorker       *)
(* returns.                                                                *)
WorkerStop(w) ==
    /\ ~stopping[w]
    /\ Fault
    /\ stopping' = [stopping EXCEPT ![w] = TRUE]
    /\ UNCHANGED <<mgrVars, run, mVars, stale, stream, cb, tasksCh>>

WorkerExit(w) ==
    /\ stopping[w] /\ ~Busy(w)
    /\ WorkerGone(w)
    /\ stopping' = [stopping EXCEPT ![w] = FALSE]
    /\ UNCHANGED faults

-----------------------------------------------------------------------------
(* What the processes do by themselves, restarts and the passing of time   *)
(* included.                                                               *)
System ==
    \/ \E t \in Tasks : Dispatch(t) \/ Answer(t) \/ Expire(t)
    \/ \E m \in Managers :
          DeadlineTick(m) \/ DeadlineDispatch(m) \/ DeadlineStamp(m) \/ EventLoop(m)
          \/ ManagerRestart(m)
    \/ \E w \in Workers :
          Deliver(w) \/ CallbackSend(w) \/ Receive(w) \/ Emit(w) \/ Stage(w) \/ WorkerExit(w)

Next ==
    \/ System
    \/ \E t \in Tasks : DispatchFails(t) \/ ExpireEarly(t)
    \/ \E m \in Managers : (\E t \in Tasks : SubmitAt(m, t)) \/ ManagerCrash(m)
    \/ \E w \in Workers : WorkerCrash(w) \/ WorkerStop(w) \/ \E x \in Workers : Redeliver(w, x)

Spec == Init /\ [][Next]_vars

(* Faults are bounded and a task expires only when nobody has it, so every *)
(* behaviour uses its steps up: it is enough that the system does not stop *)
(* while it can go on.                                                     *)
FairSpec == Spec /\ WF_vars(System)

-----------------------------------------------------------------------------
(***************************************************************************)
(* Properties.                                                             *)
(***************************************************************************)

Ended(t) == store[t].status \in Terminal

(* Without a fault a dispatched task is executed exactly once, whichever   *)
(* managers and workers touch it; and one fault costs at most one more     *)
(* execution per manager, although every manager runs a deadline loop over *)
(* the same rows.                                                          *)
CopiesBounded ==
    \A t \in Tasks :
        /\ Copies(t) <= 1 + Cardinality(Managers) * faults
        /\ faults = 0 /\ Dispatched(t) => Copies(t) + (IF Ended(t) THEN 1 ELSE 0) = 1

(* A recorded ending may be replaced by that of a second execution, but    *)
(* neither a late deadline loop nor a late event takes a task back to      *)
(* "pending".                                                              *)
StaysEnded == [][\A t \in Tasks : Ended(t) => Ended(t)']_vars

(* A task that was answered 202 ends, whatever crashes, stops, fails or is *)
(* lost on the way, as long as the faults end.                             *)
Recovered ==
    \A t \in Tasks : (req[t].pc = "done" /\ HTTPStatus(t) = 202) ~> Ended(t)
=============================================================================
