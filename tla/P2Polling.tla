------------------------------ MODULE P2Polling ------------------------------
(***************************************************************************)
(* Pattern 2 (patterns/p02): worker processes poll GET /work/next and post *)
(* events to POST /work/events.  The module composes ManagerCore and       *)
(* ExecutorCore with RESTDispatcher, RESTConsumer and the HTTP exchanges   *)
(* between them.  An exchange may fail: the request is not delivered, the  *)
(* answer does not arrive, or the client gives up after its timeout while  *)
(* the handler still works.  The deadline of the manager is zero, so       *)
(* nobody sends anything again.                                            *)
(***************************************************************************)
EXTENDS ManagerCore, ExecutorCore

CONSTANTS
    Workers,        \* the worker processes
    None,           \* no task, no worker
    QueueSize,      \* capacity of the tasks channel (WorkersQueueSize)
    EventsCap,      \* capacity of the events channel (256)
    StageCounts,    \* the stage_count values a request may carry
    MaxFaults       \* bound on failed exchanges and ended processes

(* RunWorker starts "go exec.Run" for every task, so a run is named after  *)
(* its task.                                                               *)
ASSUME P2Assumption ==
    /\ Runs = Tasks
    /\ None \notin Tasks \cup Workers
    /\ QueueSize \in Nat \ {0} /\ EventsCap \in Nat \ {0}
    /\ StageCounts \subseteq Int
    /\ MaxFaults \in Nat

VARIABLES
    tasksCh,        \* RESTDispatcher.tasks
    eventsCh,       \* RESTDispatcher.events
    answer,         \* the task in the 200 answer on its way to a worker
    host,           \* the process a task was received by
    posting,        \* the run waits for the answer to its POST
    late,           \* POSTs whose client has given up, still at the manager
    hit             \* history: tasks touched by a fault

transVars == <<tasksCh, eventsCh, answer, host, posting, late, hit>>
vars == <<store, req, loop, run, tasksCh, eventsCh, answer, host, posting, late, hit>>

(* Type invariant of the manager, the workers and the exchanges. *)
TypeOK ==
    /\ MgrTypeOK
    /\ ExecTypeOK
    /\ tasksCh \in Seq(Tasks) /\ Len(tasksCh) <= QueueSize
    /\ eventsCh \in Seq(Event) /\ Len(eventsCh) <= EventsCap
    /\ answer \in [Workers -> Tasks \cup {None}]
    /\ host \in [Tasks -> Workers \cup {None}]
    /\ posting \in [Tasks -> BOOLEAN]
    /\ late \subseteq Event
    /\ hit \subseteq Tasks /\ Cardinality(hit) <= MaxFaults

Init ==
    /\ MgrInit
    /\ ExecInit
    /\ tasksCh = <<>> /\ eventsCh = <<>>
    /\ answer = [w \in Workers |-> None]
    /\ host = [t \in Tasks |-> None]
    /\ posting = [t \in Tasks |-> FALSE]
    /\ late = {}
    /\ hit = {}

(* A fault of task t, within the bound.                                    *)
Fault(t) ==
    /\ hit' = hit \cup {t}
    /\ Cardinality(hit') <= MaxFaults

-----------------------------------------------------------------------------
(* POST /tasks on the manager: Manager.Submit over the non-blocking        *)
(* RESTDispatcher.Dispatch.                                                *)

(* Mutant of DispatchOk: one task more than the channel holds.             *)
DispatchOver(t) ==
    /\ Len(tasksCh) <= QueueSize
    /\ \E u \in UserIDs, n \in StageCounts : SubmitAccepted(t, u, n)
    /\ tasksCh' = Append(tasksCh, t)
    /\ UNCHANGED <<run, eventsCh, answer, host, posting, late, hit>>

DispatchOk(t) ==
    /\ Len(tasksCh) < QueueSize
    /\ \E u \in UserIDs, n \in StageCounts : SubmitAccepted(t, u, n)
    /\ tasksCh' = Append(tasksCh, t)
    /\ UNCHANGED <<run, eventsCh, answer, host, posting, late, hit>>

DispatchFull(t) ==
    /\ Len(tasksCh) >= QueueSize
    /\ \E u \in UserIDs, n \in StageCounts :
          SubmitRejected(t, u, n, "ErrDispatchFull")
    /\ UNCHANGED <<run, transVars>>

-----------------------------------------------------------------------------
(* GET /work/next.  A poll that finds nothing, or whose request fails,     *)
(* changes nothing; Receive sleeps and polls again.                        *)

(* Mutant of HandleNext: the task stays queued until the answer is sent.   *)
HandleNextPeek(w) ==
    /\ answer[w] = None
    /\ tasksCh # <<>>
    /\ answer' = [answer EXCEPT ![w] = Head(tasksCh)]
    /\ UNCHANGED <<mgrVars, run, tasksCh, eventsCh, host, posting, late, hit>>

(* The handler takes the task out before the answer has left.              *)
HandleNext(w) ==
    /\ answer[w] = None
    /\ tasksCh # <<>>
    /\ answer' = [answer EXCEPT ![w] = Head(tasksCh)]
    /\ tasksCh' = Tail(tasksCh)
    /\ UNCHANGED <<mgrVars, run, eventsCh, host, posting, late, hit>>

(* Receive decodes the answer, RunWorker starts the run and polls again.   *)
Receive(w) ==
    /\ answer[w] # None
    /\ LET t == answer[w] IN
          /\ RunStart(t, t, store[t].stages)
          /\ host' = [host EXCEPT ![t] = w]
    /\ answer' = [answer EXCEPT ![w] = None]
    /\ UNCHANGED <<mgrVars, tasksCh, eventsCh, posting, late, hit>>

(* The answer is lost, late or malformed: Receive sleeps and polls again.  *)
AnswerLost(w) ==
    /\ answer[w] # None
    /\ Fault(answer[w])
    /\ answer' = [answer EXCEPT ![w] = None]
    /\ UNCHANGED <<mgrVars, run, tasksCh, eventsCh, host, posting, late>>

-----------------------------------------------------------------------------
(* POST /work/events.                                                      *)

(* RESTConsumer.Emit sends the request and waits for the answer.           *)
EmitPost(t) ==
    /\ run[t].pc \in EmitPc
    /\ ~posting[t]
    /\ posting' = [posting EXCEPT ![t] = TRUE]
    /\ UNCHANGED <<mgrVars, run, tasksCh, eventsCh, answer, host, late, hit>>

(* The request is not delivered: Emit returns an error, Run goes on.       *)
EmitFailed(t) ==
    /\ posting[t]
    /\ Fault(t)
    /\ EmitDone(t)
    /\ posting' = [posting EXCEPT ![t] = FALSE]
    /\ UNCHANGED <<mgrVars, tasksCh, eventsCh, answer, host, late>>

(* The client gives up after five seconds; the request stays behind.       *)
EmitTimeout(t) ==
    /\ posting[t]
    /\ Fault(t)
    /\ EmitDone(t)
    /\ posting' = [posting EXCEPT ![t] = FALSE]
    /\ late' = late \cup {EmitEvent(t)}
    /\ UNCHANGED <<mgrVars, tasksCh, eventsCh, answer, host>>

(* Mutant of Forward: terminal events are dropped as well.                 *)
ForwardLossy(ev) ==
    eventsCh' = IF Len(eventsCh) < EventsCap THEN Append(eventsCh, ev) ELSE eventsCh

(* The send of HandleEvent: a terminal event waits for room, any other is  *)
(* dropped when there is none.                                             *)
Forward(ev) ==
    /\ IsTerminal(ev) => Len(eventsCh) < EventsCap
    /\ eventsCh' = IF Len(eventsCh) < EventsCap THEN Append(eventsCh, ev) ELSE eventsCh

(* HandleEvent of a waiting client, and its answer 204.                    *)
HandleEvent(t) ==
    /\ posting[t]
    /\ Forward(EmitEvent(t))
    /\ EmitDone(t)
    /\ posting' = [posting EXCEPT ![t] = FALSE]
    /\ UNCHANGED <<mgrVars, tasksCh, answer, host, late, hit>>

(* HandleEvent of a client that is gone: the event is forwarded ...        *)
HandleLate(ev) ==
    /\ Forward(ev)
    /\ late' = late \ {ev}
    /\ UNCHANGED <<mgrVars, run, tasksCh, answer, host, posting, hit>>

(* ... or c.Request().Context() ends the wait, or the request was never    *)
(* read.                                                                   *)
DropLate(ev) ==
    /\ late' = late \ {ev}
    /\ UNCHANGED <<mgrVars, run, tasksCh, eventsCh, answer, host, posting, hit>>

Stage(t) == StageSleep(t) /\ UNCHANGED <<mgrVars, transVars>>

-----------------------------------------------------------------------------
(* SIGTERM: a cancelled ctx fails every request at once, RunWorker returns *)
(* and the process ends with its runs; it is started again.                *)
AtWorker(w) ==
    {t \in Tasks : (Busy(t) /\ host[t] = w) \/ answer[w] = t}

WorkerExit(w) ==
    /\ AtWorker(w) # {}
    /\ hit' = hit \cup AtWorker(w)
    /\ Cardinality(hit') <= MaxFaults
    /\ run' = [t \in Tasks |-> IF host[t] = w /\ Busy(t) THEN Exited ELSE run[t]]
    /\ late' = late \cup {EmitEvent(t) : t \in {x \in AtWorker(w) : posting[x]}}
    /\ posting' = [t \in Tasks |-> posting[t] /\ t \notin AtWorker(w)]
    /\ answer' = [answer EXCEPT ![w] = None]
    /\ UNCHANGED <<mgrVars, tasksCh, eventsCh, host>>

(* runEventLoop over RESTDispatcher.ReceiveEvent: one iteration.           *)
EventLoop ==
    /\ eventsCh # <<>>
    /\ LoopIteration(Head(eventsCh))
    /\ eventsCh' = Tail(eventsCh)
    /\ UNCHANGED <<run, tasksCh, answer, host, posting, late, hit>>

-----------------------------------------------------------------------------
Submit(t) == DispatchOk(t) \/ DispatchFull(t)

Next ==
    \/ \E t \in Tasks : \/ Submit(t) \/ EmitPost(t) \/ HandleEvent(t) \/ Stage(t)
                        \/ EmitFailed(t) \/ EmitTimeout(t)
    \/ \E w \in Workers : HandleNext(w) \/ Receive(w) \/ AnswerLost(w) \/ WorkerExit(w)
    \/ \E ev \in late : HandleLate(ev) \/ DropLate(ev)
    \/ EventLoop

Spec == Init /\ [][Next]_vars

(* The steps the processes owe when nothing fails: workers poll for ever,  *)
(* handlers answer, runs and the event loop go on.                         *)
System ==
    \/ \E t \in Tasks : EmitPost(t) \/ HandleEvent(t) \/ Stage(t)
    \/ \E w \in Workers : HandleNext(w) \/ Receive(w)
    \/ \E ev \in late : HandleLate(ev) \/ DropLate(ev)
    \/ EventLoop

(* Tasks and events are used up, so it is enough that the system does not  *)
(* stop while one of these steps is possible.                              *)
FairSpec == Spec /\ WF_vars(System)

-----------------------------------------------------------------------------
(***************************************************************************)
(* Properties.                                                             *)
(***************************************************************************)

Ended(t) == store[t].status \in Terminal

IsEndOf(ev, t) == IsTerminal(ev) /\ ev.task = t

(* Everyone who answers for task t: the queue, an answer on its way, the   *)
(* run, a late POST of its ending, the events channel, the store.          *)
Holders(t) ==
    {<<"queue", i>> : i \in {j \in 1..Len(tasksCh) : tasksCh[j] = t}}
    \cup {<<"answer", w>> : w \in {x \in Workers : answer[x] = t}}
    \cup {<<"run", r>> : r \in {x \in Runs : Busy(x) /\ run[x].task = t}}
    \cup {<<"late", ev>> : ev \in {e \in late : IsEndOf(e, t)}}
    \cup {<<"event", i>> : i \in {j \in 1..Len(eventsCh) : IsEndOf(eventsCh[j], t)}}
    \cup {<<"store", x>> : x \in {y \in {t} : Ended(y)}}

(* HandleNext gives a task to one worker, and neither a late POST nor an   *)
(* ended process doubles it; a recorded task disappears only when one of   *)
(* its own exchanges failed or its worker process ended, never by what     *)
(* happens to another task and never because a channel is full.            *)
Custody ==
    \A t \in Tasks :
        /\ \A p, q \in Holders(t) : p = q
        /\ Exists(t) /\ Holders(t) = {} => t \in hit

(* A task answered 202 ends unless a fault touched it, whatever happens to *)
(* the other tasks.                                                        *)
AcceptedEnds ==
    \A t \in Tasks :
        (req[t].pc = "done" /\ HTTPStatus(t) = 202) ~> (Ended(t) \/ t \in hit)
=============================================================================
