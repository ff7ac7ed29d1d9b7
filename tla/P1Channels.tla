----------------------------- MODULE P1Channels -----------------------------
(***************************************************************************)
(* Pattern 1 (patterns/p01): manager, worker pool, event bridge and SSE    *)
(* hub in one process, joined by Go channels.  The module composes         *)
(* ManagerCore, ExecutorCore and EventFanout and supplies the dispatcher   *)
(* and the consumer: ChannelDispatcher and ChannelConsumer.                *)
(* app.New passes deadline 0, so runDeadlineLoop returns at once and is    *)
(* no action here.                                                         *)
(***************************************************************************)
EXTENDS ManagerCore, ExecutorCore, EventFanout

CONSTANTS
    QueueSize,      \* capacity of the tasks channel (cfg.QueueSize)
    EventsCap,      \* capacity of the events channel (256)
    StageCounts,    \* the stage_count values a request may carry
    MayCancel       \* whether the caller of app.New ever cancels ctx

ASSUME P1Assumption ==
    /\ QueueSize \in Nat \ {0}
    /\ EventsCap \in Nat \ {0}
    /\ StageCounts \subseteq Int
    /\ MayCancel \in BOOLEAN

VARIABLES
    tasksCh,        \* chan models.Task: ids waiting for a worker
    eventsCh,       \* chan models.TaskEvent: events waiting for runEventLoop
    cancelled       \* ctx.Done() is closed

transVars == <<tasksCh, eventsCh, cancelled>>
vars == <<store, req, loop, run, bus, pump, sub, sseCh, lastSeen,
          tasksCh, eventsCh, cancelled>>

(* Type invariant of the whole process. *)
TypeOK ==
    /\ MgrTypeOK
    /\ ExecTypeOK
    /\ FanoutTypeOK
    /\ tasksCh \in Seq(Tasks) /\ Len(tasksCh) <= QueueSize
    /\ eventsCh \in Seq(Event) /\ Len(eventsCh) <= EventsCap
    /\ cancelled \in BOOLEAN

Init ==
    /\ MgrInit
    /\ ExecInit
    /\ FanoutInit
    /\ tasksCh = <<>>
    /\ eventsCh = <<>>
    /\ cancelled = FALSE

-----------------------------------------------------------------------------
(* POST /tasks: SubmitTask and Manager.Submit, one goroutine per request.  *)

Submit(t) ==
    /\ \E u \in UserIDs, n \in StageCounts : SubmitCreate(t, u, n)
    /\ UNCHANGED <<run, fanoutVars, transVars>>

(* Mutant of DispatchOk: one task more than the channel holds.             *)
DispatchOffByOne(t) ==
    /\ Len(tasksCh) <= QueueSize
    /\ SubmitDispatched(t)
    /\ tasksCh' = Append(tasksCh, t)
    /\ UNCHANGED <<run, fanoutVars, eventsCh, cancelled>>

(* ChannelDispatcher.Dispatch: a non-blocking send.                        *)
DispatchOk(t) ==
    /\ Len(tasksCh) < QueueSize
    /\ SubmitDispatched(t)
    /\ tasksCh' = Append(tasksCh, t)
    /\ UNCHANGED <<run, fanoutVars, eventsCh, cancelled>>

DispatchFull(t) ==
    /\ Len(tasksCh) >= QueueSize
    /\ SubmitRefused(t, "ErrDispatchFull")
    /\ UNCHANGED <<run, fanoutVars, transVars>>

RecordDispatched(t) ==
    /\ SubmitStamp(t)
    /\ UNCHANGED <<run, fanoutVars, transVars>>

RecordRejected(t) ==
    /\ SubmitFail(t)
    /\ UNCHANGED <<run, fanoutVars, transVars>>

-----------------------------------------------------------------------------
(* RunWorker: Receive, then exec.Run to its end, in each pool goroutine.   *)

(* Receive selects between ctx.Done and the channel; with both ready Go    *)
(* may still take the task.                                                *)
WorkerReceive(w) ==
    /\ tasksCh # <<>>
    /\ RunStart(w, Head(tasksCh), store[Head(tasksCh)].stages)
    /\ tasksCh' = Tail(tasksCh)
    /\ UNCHANGED <<mgrVars, fanoutVars, eventsCh, cancelled>>

WorkerExit(w) ==
    /\ cancelled
    /\ RunExit(w)
    /\ UNCHANGED <<mgrVars, fanoutVars, transVars>>

(* Mutant of Emit: terminal events are best effort too.                    *)
EmitLossy(w) ==
    /\ EmitDone(w)
    /\ eventsCh' = Offer(eventsCh, EmitEvent(w), EventsCap)
    /\ UNCHANGED <<mgrVars, fanoutVars, tasksCh, cancelled>>

(* Mutant of Emit: a terminal event overtakes what is buffered.            *)
EmitPriority(w) ==
    /\ EmitDone(w)
    /\ IsTerminal(EmitEvent(w)) => Len(eventsCh) < EventsCap
    /\ eventsCh' = IF IsTerminal(EmitEvent(w)) THEN <<EmitEvent(w)>> \o eventsCh
                   ELSE Offer(eventsCh, EmitEvent(w), EventsCap)
    /\ UNCHANGED <<mgrVars, fanoutVars, tasksCh, cancelled>>

(* ChannelConsumer.Emit ignores ctx: a terminal event waits for room, any  *)
(* other event is dropped when there is none.                              *)
Emit(w) ==
    /\ EmitDone(w)
    /\ IsTerminal(EmitEvent(w)) => Len(eventsCh) < EventsCap
    /\ eventsCh' = Offer(eventsCh, EmitEvent(w), EventsCap)
    /\ UNCHANGED <<mgrVars, fanoutVars, tasksCh, cancelled>>

Stage(w) ==
    /\ \/ StageSleep(w)
       \/ cancelled /\ StageCancelled(w)
    /\ UNCHANGED <<mgrVars, fanoutVars, transVars>>

-----------------------------------------------------------------------------
(* runEventLoop over ChannelDispatcher.ReceiveEvent and MemoryBridge.      *)

ReceiveEvent ==
    /\ eventsCh # <<>>
    /\ LoopReceive(Head(eventsCh))
    /\ eventsCh' = Tail(eventsCh)
    /\ UNCHANGED <<run, fanoutVars, tasksCh, cancelled>>

EventLoopExit ==
    /\ cancelled
    /\ LoopExit
    /\ UNCHANGED <<run, fanoutVars, transVars>>

Enrich == LoopEnrich /\ UNCHANGED <<run, fanoutVars, transVars>>

Persist == LoopPersist /\ UNCHANGED <<run, fanoutVars, transVars>>

Publish == LoopPublish /\ BridgePublish(loop.ev) /\ UNCHANGED <<run, transVars>>

-----------------------------------------------------------------------------
(* The environment and the fan-out.                                        *)

(* The caller's cancel function: the integration test defers it, the       *)
(* server passes context.Background() and never cancels.                   *)
Cancel ==
    /\ MayCancel
    /\ ~cancelled
    /\ cancelled' = TRUE
    /\ UNCHANGED <<mgrVars, run, fanoutVars, tasksCh, eventsCh>>

(* Mutant of Unsubscribe: the channel is never closed.                     *)
UnsubscribeNoClose ==
    /\ cancelled /\ BridgeDelete
    /\ UNCHANGED <<mgrVars, run, transVars>>

Unsubscribe ==
    /\ \/ cancelled /\ BridgeDelete
       \/ BridgeClose
    /\ UNCHANGED <<mgrVars, run, transVars>>

Pump ==
    /\ PumpReceive \/ HubPublish \/ PumpExit
    /\ UNCHANGED <<mgrVars, run, transVars>>

Client(c) ==
    /\ SSEConnect(c) \/ SSEWrite(c) \/ SSEDisconnect(c)
    /\ UNCHANGED <<mgrVars, run, transVars>>

-----------------------------------------------------------------------------
Handler(t) ==
    DispatchOk(t) \/ DispatchFull(t) \/ RecordDispatched(t) \/ RecordRejected(t)

Worker(w) == WorkerReceive(w) \/ Emit(w) \/ Stage(w) \/ WorkerExit(w)

EventLoop == ReceiveEvent \/ Enrich \/ Persist \/ Publish \/ EventLoopExit

Next ==
    \/ \E t \in Tasks : Submit(t) \/ Handler(t)
    \/ \E w \in Runs : Worker(w)
    \/ EventLoop
    \/ Cancel \/ Unsubscribe \/ Pump
    \/ \E c \in Clients : Client(c)

Spec == Init /\ [][Next]_vars

(* Every goroutine that can take a step takes one; clients and the caller  *)
(* promise nothing.  A sender blocked on the events channel is served in   *)
(* FIFO order by the Go runtime; with finitely many tasks weak fairness    *)
(* says as much.                                                           *)
Fairness ==
    /\ \A t \in Tasks : WF_vars(Handler(t))
    /\ \A w \in Runs : WF_vars(Worker(w))
    /\ WF_vars(EventLoop)
    /\ WF_vars(Unsubscribe)
    /\ WF_vars(Pump)

FairSpec == Spec /\ Fairness

-----------------------------------------------------------------------------
(***************************************************************************)
(* Properties.                                                             *)
(***************************************************************************)

Ended(t) == store[t].status \in Terminal

(* Everyone who answers for task t: the Submit goroutine until Dispatch    *)
(* has returned nil or the failure is recorded, a slot of the tasks        *)
(* channel, a worker, a terminal event on its way to the store, the store. *)
Holders(t) ==
    {<<"submit", x>> : x \in {y \in {t} : req[y].pc \in {"dispatch", "fail"}}}
    \cup {<<"queue", i>> : i \in {j \in 1..Len(tasksCh) : tasksCh[j] = t}}
    \cup {<<"worker", w>> : w \in {x \in Runs : Busy(x) /\ run[x].task = t}}
    \cup {<<"event", i>> : i \in {j \in 1..Len(eventsCh) :
                                    IsTerminal(eventsCh[j]) /\ eventsCh[j].task = t}}
    \cup {<<"loop", x>> : x \in {y \in {t} : /\ loop.pc \in {"enrich", "persist"}
                                             /\ IsTerminal(loop.ev)
                                             /\ loop.ev.task = y}}
    \cup {<<"store", x>> : x \in {y \in {t} : Ended(y)}}

(* No task is lost and none is doubled: from Create to the terminal row a  *)
(* task has exactly one holder, whatever the buffers drop and whenever ctx *)
(* is cancelled (Dispatch, Receive, Emit, runEventLoop).                   *)
Custody ==
    \A t \in Tasks : Exists(t) => \E p \in Holders(t) : Holders(t) = {p}

(* A terminal event says what the store says.                              *)
Agrees(ev) == IsTerminal(ev) => store[ev.task].status = ev.status

(* "This ensures state is consistent before SSE reaches the browser": a    *)
(* terminal event past runEventLoop agrees with what GET /tasks/:id says,  *)
(* when it is published, while it waits in a buffer, and ever after a page *)
(* has shown it.                                                           *)
ToldIsStored ==
    /\ loop.pc = "publish" => Agrees(loop.ev)
    /\ \A i \in 1..Len(bus.buf) : Agrees(bus.buf[i])
    /\ pump.pc = "publish" => Agrees(pump.ev)
    /\ \A c \in Clients : \A i \in 1..Len(sseCh[c]) : Agrees(sseCh[c][i])
    /\ \A c \in Clients, t \in Tasks :
          lastSeen[c][t] # NoEvent => Agrees(lastSeen[c][t])

(* An ending is written once: neither the failure write of Submit nor      *)
(* runEventLoop overwrites a terminal status.                              *)
EndedOnce ==
    [][\A t \in Tasks : Ended(t) => store'[t].status = store[t].status]_vars

(* "progress and status events are processed in the order they were        *)
(* emitted": what a page shows of a task only moves forward, across drops  *)
(* in three buffers and across reconnects of the page.                     *)
SeenInOrder ==
    [][\A c \in Clients, t \in Tasks :
          lastSeen'[c][t] # lastSeen[c][t] =>
             \/ lastSeen[c][t] = NoEvent
             \/ Rank(lastSeen[c][t], store[t].stages)
                   < Rank(lastSeen'[c][t], store[t].stages)]_vars

(* UserID is stamped by runEventLoop and routed by the hub: no page is     *)
(* shown an event of another user's task.                                  *)
OwnTasksOnly ==
    \A c \in Clients, t \in Tasks :
        lastSeen[c][t] # NoEvent => store[t].user = ClientUser[c]

(* A task answered 202 reaches a terminal status, unless ctx is cancelled. *)
AcceptedEnds ==
    \A t \in Tasks :
        (req[t].pc = "done" /\ HTTPStatus(t) = 202) ~> (Ended(t) \/ cancelled)

(* Cancelling ctx ends the event loop and, after the bridge has closed the *)
(* subscription and the pump has drained it, the pump.                     *)
ShutdownEndsLoops == cancelled ~> (loop.pc = "exit" /\ pump.pc = "exit")

(* The promise of TaskLifecycle, for the store and the pages.              *)
Lifecycle ==
    INSTANCE TaskLifecycle WITH
        status <- [t \in Tasks |-> store[t].status],
        owner <- [t \in Tasks |-> store[t].user],
        told <- [c \in Clients |-> [t \in Tasks |->
                    IF lastSeen[c][t] # NoEvent /\ IsTerminal(lastSeen[c][t])
                    THEN lastSeen[c][t].status ELSE "none"]]

ImplementsLifecycle == Lifecycle!Spec

-----------------------------------------------------------------------------
(***************************************************************************)
(* The inductive invariant behind Custody, EndedOnce and ToldIsStored.     *)
(* InFlight(t): handed over by Submit and not yet ended.                   *)
(***************************************************************************)

InFlight(t) == Dispatched(t) /\ store[t].status = "pending"

EndInChan(t) ==
    \E i \in 1..Len(eventsCh) : IsTerminal(eventsCh[i]) /\ eventsCh[i].task = t

EndInLoop(t) ==
    loop.pc \in {"enrich", "persist"} /\ IsTerminal(loop.ev) /\ loop.ev.task = t

Queued(t) == \E i \in 1..Len(tasksCh) : tasksCh[i] = t

Executing(t) == \E w \in Runs : Busy(w) /\ run[w].task = t

SubmitInv ==
    \A t \in Tasks :
        /\ req[t].pc = "new" <=> store[t].status = "absent"
        /\ req[t].pc \in {"dispatch", "fail"} => store[t].status = "pending"
        /\ req[t].pc \in {"new", "dispatch", "stamp"} => req[t].err = "none"
        /\ req[t].pc = "fail" => req[t].err # "none"
        /\ req[t].pc = "done" /\ req[t].err # "none" => store[t].status = "failed"
        /\ Exists(t) => store[t].stages \in 1..MaxStages
        /\ Exists(t) => store[t].status # "running"

(* A task is in flight exactly as long as it is in one of four places, and *)
(* it is in no two of them.                                                *)
OnePlace ==
    \A t \in Tasks :
        /\ InFlight(t) <=> Queued(t) \/ Executing(t) \/ EndInChan(t) \/ EndInLoop(t)
        /\ ~(Queued(t) /\ Executing(t))
        /\ ~((Queued(t) \/ Executing(t)) /\ (EndInChan(t) \/ EndInLoop(t)))
        /\ ~(EndInChan(t) /\ EndInLoop(t))

(* It is there once: one slot, one worker, one terminal event.             *)
NoDuplicates ==
    /\ \A i, j \in 1..Len(tasksCh) : tasksCh[i] = tasksCh[j] => i = j
    /\ \A w, x \in Runs : Busy(w) /\ Busy(x) /\ run[w].task = run[x].task => w = x
    /\ \A i, j \in 1..Len(eventsCh) :
          /\ IsTerminal(eventsCh[i])
          /\ IsTerminal(eventsCh[j])
          /\ eventsCh[i].task = eventsCh[j].task
          => i = j

(* Custody in the form in which every step of the handlers, the workers,   *)
(* the channels and runEventLoop preserves it.                             *)
CustodyInv ==
    /\ SubmitInv
    /\ OnePlace
    /\ NoDuplicates
    /\ loop.pc = "persist" => IsTerminal(loop.ev)
=============================================================================
