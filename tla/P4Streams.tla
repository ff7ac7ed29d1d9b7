------------------------------ MODULE P4Streams ------------------------------
(***************************************************************************)
(* Pattern 4 (patterns/p04): a worker process opens a bidirectional gRPC   *)
(* stream, receives tasks on it and sends events back.  The module         *)
(* composes ManagerCore and ExecutorCore with Server (dispatchLoop, the    *)
(* Connect handler of every stream, the two ways to submit) and Consumer   *)
(* (Connect, receiveLoop, Emit).  A stream may break with what is on it;   *)
(* it never comes back, the worker dials a new one.                        *)
(***************************************************************************)
EXTENDS ManagerCore, ExecutorCore

CONSTANTS
    Workers,        \* the worker processes
    Conns,          \* the streams dialled in a behaviour: 1..MaxConns
    Loops,          \* receiveLoop goroutines of a process: 1..MaxLoops
    None,           \* no task, no worker, no stream
    PendingCap,     \* capacity of pendingTasks (100)
    AvailCap,       \* capacity of availableQueue (100)
    EventsCap,      \* capacity of workerEvents (100)
    StageCounts,    \* the stage counts a request may carry
    RPCTasks,       \* the tasks submitted through Server.Submit
    Fragile,        \* the streams that may break or see their worker stop
    Fleets,         \* the sets of worker processes that may be started
    MaxLoad         \* bound on tasks, processes and broken streams together

ASSUME P4Assumption ==
    /\ Runs = Tasks
    /\ Conns = 1..Cardinality(Conns)
    /\ Loops = 1..Cardinality(Loops)
    /\ None \notin Tasks \cup Workers \cup Conns
    /\ PendingCap \in Nat \ {0} /\ AvailCap \in Nat \ {0} /\ EventsCap \in Nat \ {0}
    /\ StageCounts \subseteq Int
    /\ RPCTasks \subseteq Tasks
    /\ Fragile \subseteq Conns /\ Fleets \subseteq SUBSET Workers \ {{}}
    /\ MaxLoad \in Nat

VARIABLES
    pendingTasks, availableQueue, workerStreams, workerEvents,
    disp,       \* dispatchLoop: where it is, task, worker id, stream
    handler,    \* [Conns]: the Connect handler of a stream and its worker id
    conn,       \* [Conns]: who dialled it, is it up, what is on it either way
    cons,       \* [Workers]: Consumer.stream and Consumer.connected
    rloop,      \* [Workers][0..MaxLoops]: receiveLoop goroutines; 0 is RunWorker
    host,       \* the worker a task was sent to
    via,        \* the stream a run is inside Send of
    dropped     \* history: tasks whose ending found workerEvents full

srvVars == <<pendingTasks, availableQueue, workerStreams, workerEvents, disp, handler>>
cliVars == <<cons, rloop, host, via>>
vars == <<store, req, loop, run, pendingTasks, availableQueue, workerStreams,
          workerEvents, disp, handler, conn, cons, rloop, host, via, dropped>>

(* Worker ids are "worker-1", "worker-2", ...: the number is kept.         *)
Ids == Conns
NoDisp == [pc |-> "idle", task |-> None, id |-> None, conn |-> None]
NoLoop == [pc |-> "none", conn |-> None]
LoopIds == Loops \cup {0}

(* Type invariant of server, streams and workers.                          *)
TypeOK ==
    /\ MgrTypeOK /\ ExecTypeOK
    /\ pendingTasks \in Seq(Tasks) /\ Len(pendingTasks) <= PendingCap
    /\ availableQueue \in Seq(Ids) /\ Len(availableQueue) <= AvailCap
    /\ workerStreams \in [Ids -> Conns \cup {None}]
    /\ workerEvents \in Seq(Event) /\ Len(workerEvents) <= EventsCap
    /\ disp \in [pc : {"idle", "wait", "send", "requeue", "drop"}, task : Tasks \cup {None},
                 id : Ids \cup {None}, conn : Conns \cup {None}]
    /\ handler \in [Conns -> [pc : {"none", "name", "register", "recv", "closed"},
                              id : Ids \cup {None}]]
    /\ conn \in [Conns -> [owner : Workers \cup {None}, link : {"free", "up", "down"},
                           tasks : Seq(Tasks), events : Seq(Event)]]
    /\ cons \in [Workers -> [stream : Conns \cup {None}, connected : BOOLEAN]]
    /\ rloop \in [Workers -> [LoopIds -> [pc : {"none", "top", "recv", "dial"},
                                          conn : Conns \cup {None}]]]
    /\ host \in [Tasks -> Workers \cup {None}]
    /\ via \in [Tasks -> Conns \cup {None}]
    /\ dropped \subseteq Tasks

(* A worker process as it starts: RunWorker is about to call Connect.      *)
NewConsumer == [stream |-> None, connected |-> FALSE]
NewLoops == [i \in LoopIds |-> IF i = 0 THEN [NoLoop EXCEPT !.pc = "dial"] ELSE NoLoop]

Init ==
    /\ MgrInit
    /\ ExecInit
    /\ pendingTasks = <<>> /\ availableQueue = <<>> /\ workerEvents = <<>>
    /\ workerStreams = [i \in Ids |-> None]
    /\ disp = NoDisp
    /\ handler = [k \in Conns |-> [pc |-> "none", id |-> None]]
    /\ conn = [k \in Conns |-> [owner |-> None, link |-> "free", tasks |-> <<>>, events |-> <<>>]]
    /\ cons = [w \in Workers |-> NewConsumer]
    /\ \E ws \in Fleets :
          rloop = [w \in Workers |-> IF w \in ws THEN NewLoops ELSE [i \in LoopIds |-> NoLoop]]
    /\ host = [t \in Tasks |-> None]
    /\ via = [t \in Tasks |-> None]
    /\ dropped = {}

(* A non-blocking send.                                                    *)
Offer(ch, x, cap) == IF Len(ch) < cap THEN Append(ch, x) ELSE ch

(* The bound on the size of a behaviour.                                   *)
Down == {k \in Conns : conn[k].link = "down"}
Started == {w \in Workers : \E i \in LoopIds : rloop[w][i].pc # "none"}
WithinLoad ==
    Cardinality({t \in Tasks : Exists(t)}) + Cardinality(Started) + Cardinality(Down) < MaxLoad

-----------------------------------------------------------------------------
(* Submission: POST /tasks of the manager runs Manager.Submit over         *)
(* GRPCDispatcher.Dispatch ...                                             *)

(* Mutant of HTTPSubmit: the channel takes one task too many.              *)
HTTPSubmitOver(t) ==
    /\ t \notin RPCTasks /\ WithinLoad
    /\ \E u \in UserIDs, n \in StageCounts : SubmitAccepted(t, u, n)
    /\ pendingTasks' = Append(pendingTasks, t)
    /\ UNCHANGED <<run, availableQueue, workerStreams, workerEvents, disp, handler,
                   conn, cliVars, dropped>>

HTTPSubmit(t) ==
    /\ t \notin RPCTasks /\ WithinLoad
    /\ \E u \in UserIDs, n \in StageCounts :
          IF Len(pendingTasks) < PendingCap
          THEN SubmitAccepted(t, u, n)
          ELSE SubmitRejected(t, u, n, "ErrDispatchFull")
    /\ pendingTasks' = Offer(pendingTasks, t, PendingCap)
    /\ UNCHANGED <<run, availableQueue, workerStreams, workerEvents, disp, handler,
                   conn, cliVars, dropped>>

(* ... while the API process calls Server.Submit, which goes past the      *)
(* manager: no dispatch time, and a refused task stays "pending".          *)
RPCSubmit(t) ==
    /\ t \in RPCTasks /\ WithinLoad
    /\ req[t].pc = "new"
    /\ \E u \in UserIDs, n \in StageCounts : Create(t, u, SubmitStages(n))
    /\ req' = [req EXCEPT ![t] =
                  [pc |-> "done",
                   err |-> IF Len(pendingTasks) < PendingCap THEN "none" ELSE "other"]]
    /\ pendingTasks' = Offer(pendingTasks, t, PendingCap)
    /\ UNCHANGED <<loop, run, availableQueue, workerStreams, workerEvents, disp, handler,
                   conn, cliVars, dropped>>

-----------------------------------------------------------------------------
(* dispatchLoop: take a task, then a worker id, look the stream up, send.  *)

DispatchTake ==
    /\ disp.pc = "idle"
    /\ pendingTasks # <<>>
    /\ disp' = [NoDisp EXCEPT !.pc = "wait", !.task = Head(pendingTasks)]
    /\ pendingTasks' = Tail(pendingTasks)
    /\ UNCHANGED <<mgrVars, run, availableQueue, workerStreams, workerEvents, handler,
                   conn, cliVars, dropped>>

(* Mutant of DispatchLookup: a task whose worker is gone is forgotten.     *)
DispatchLookupForgets ==
    /\ disp.pc = "wait"
    /\ availableQueue # <<>>
    /\ LET id == Head(availableQueue)
           k == workerStreams[id]
       IN  disp' = IF k = None THEN NoDisp ELSE [disp EXCEPT !.id = id, !.conn = k, !.pc = "send"]
    /\ availableQueue' = Tail(availableQueue)
    /\ UNCHANGED <<mgrVars, run, pendingTasks, workerStreams, workerEvents, handler,
                   conn, cliVars, dropped>>

DispatchLookup ==
    /\ disp.pc = "wait"
    /\ availableQueue # <<>>
    /\ LET id == Head(availableQueue)
           k == workerStreams[id]
       IN  disp' = [disp EXCEPT !.id = id, !.conn = k,
                                !.pc = IF k = None THEN "requeue" ELSE "send"]
    /\ availableQueue' = Tail(availableQueue)
    /\ UNCHANGED <<mgrVars, run, pendingTasks, workerStreams, workerEvents, handler,
                   conn, cliVars, dropped>>

(* stream.Send returned nil.  On a stream whose break nobody has noticed   *)
(* the message is lost.                                                    *)
DispatchSend ==
    /\ disp.pc = "send"
    /\ conn' = [conn EXCEPT ![disp.conn].tasks =
                   IF conn[disp.conn].link = "up" THEN Append(@, disp.task) ELSE @]
    /\ host' = [host EXCEPT ![disp.task] = conn[disp.conn].owner]
    /\ disp' = NoDisp
    /\ UNCHANGED <<mgrVars, run, pendingTasks, availableQueue, workerStreams, workerEvents,
                   handler, cons, rloop, via, dropped>>

(* stream.Send returned an error.                                          *)
DispatchSendError ==
    /\ disp.pc = "send"
    /\ conn[disp.conn].link = "down"
    /\ disp' = [disp EXCEPT !.pc = "drop"]
    /\ UNCHANGED <<mgrVars, run, pendingTasks, availableQueue, workerStreams, workerEvents,
                   handler, conn, cliVars, dropped>>

(* Mutant of DispatchRequeue: the send does not wait for room.             *)
DispatchRequeueOffer ==
    /\ disp.pc \in {"requeue", "drop"}
    /\ pendingTasks' = Offer(pendingTasks, disp.task, PendingCap)
    /\ workerStreams' = IF disp.pc = "drop"
                        THEN [workerStreams EXCEPT ![disp.id] = None] ELSE workerStreams
    /\ disp' = NoDisp
    /\ UNCHANGED <<mgrVars, run, availableQueue, workerEvents, handler, conn, cliVars, dropped>>

(* The task goes back into the channel only this goroutine reads: when the *)
(* channel is full, for ever.  After a failed Send the id is removed.      *)
DispatchRequeue ==
    /\ disp.pc \in {"requeue", "drop"}
    /\ Len(pendingTasks) < PendingCap
    /\ pendingTasks' = Append(pendingTasks, disp.task)
    /\ workerStreams' = IF disp.pc = "drop"
                        THEN [workerStreams EXCEPT ![disp.id] = None] ELSE workerStreams
    /\ disp' = NoDisp
    /\ UNCHANGED <<mgrVars, run, availableQueue, workerEvents, handler, conn, cliVars, dropped>>

-----------------------------------------------------------------------------
(* Server.Connect, one handler per stream.                                 *)

(* len(s.workerStreams) is read outside the mutex.                         *)
ConnectName(k) ==
    /\ handler[k].pc = "name"
    /\ handler' = [handler EXCEPT ![k] =
                      [pc |-> "register",
                       id |-> Cardinality({i \in Ids : workerStreams[i] # None}) + 1]]
    /\ UNCHANGED <<mgrVars, run, pendingTasks, availableQueue, workerStreams, workerEvents,
                   disp, conn, cliVars, dropped>>

(* The stream is registered under the mutex and the id announced: the      *)
(* channel of ids never fills, since a process has a place per stream.     *)
ConnectRegister(k) ==
    /\ handler[k].pc = "register"
    /\ Len(availableQueue) < AvailCap
    /\ handler' = [handler EXCEPT ![k].pc = "recv"]
    /\ workerStreams' = [workerStreams EXCEPT ![handler[k].id] = k]
    /\ availableQueue' = Append(availableQueue, handler[k].id)
    /\ UNCHANGED <<mgrVars, run, pendingTasks, workerEvents, disp, conn, cliVars, dropped>>

(* Mutant of ConnectEvent: a worker is available after every event.        *)
ConnectEventAnnounceAll(k) ==
    /\ handler[k].pc = "recv"
    /\ conn[k].events # <<>>
    /\ LET ev == Head(conn[k].events)
       IN  /\ workerEvents' = Offer(workerEvents, ev, EventsCap)
           /\ availableQueue' = Offer(availableQueue, handler[k].id, AvailCap)
           /\ dropped' = IF IsTerminal(ev) /\ Len(workerEvents) = EventsCap
                         THEN dropped \cup {ev.task} ELSE dropped
    /\ conn' = [conn EXCEPT ![k].events = Tail(@)]
    /\ UNCHANGED <<mgrVars, run, pendingTasks, workerStreams, disp, handler, cliVars>>

(* Mutant of ConnectEvent: a worker is never announced again.              *)
ConnectEventSilent(k) ==
    /\ handler[k].pc = "recv"
    /\ conn[k].events # <<>>
    /\ LET ev == Head(conn[k].events)
       IN  /\ workerEvents' = Offer(workerEvents, ev, EventsCap)
           /\ dropped' = IF IsTerminal(ev) /\ Len(workerEvents) = EventsCap
                         THEN dropped \cup {ev.task} ELSE dropped
    /\ conn' = [conn EXCEPT ![k].events = Tail(@)]
    /\ UNCHANGED <<mgrVars, run, pendingTasks, availableQueue, workerStreams, disp, handler,
                   cliVars>>

(* stream.Recv returned an event: it is dropped when workerEvents is full, *)
(* an ending like any other, and the worker is available after an ending.  *)
ConnectEvent(k) ==
    /\ handler[k].pc = "recv"
    /\ conn[k].events # <<>>
    /\ LET ev == Head(conn[k].events)
       IN  /\ workerEvents' = Offer(workerEvents, ev, EventsCap)
           /\ availableQueue' = IF IsTerminal(ev)
                                THEN Offer(availableQueue, handler[k].id, AvailCap)
                                ELSE availableQueue
           /\ dropped' = IF IsTerminal(ev) /\ Len(workerEvents) = EventsCap
                         THEN dropped \cup {ev.task} ELSE dropped
    /\ conn' = [conn EXCEPT ![k].events = Tail(@)]
    /\ UNCHANGED <<mgrVars, run, pendingTasks, workerStreams, disp, handler, cliVars>>

(* removeWorker(workerID): whatever stream is registered under that id.    *)
ConnectEnd(k) ==
    /\ handler[k].pc = "recv"
    /\ conn[k].link = "down"
    /\ handler' = [handler EXCEPT ![k].pc = "closed"]
    /\ workerStreams' = [workerStreams EXCEPT ![handler[k].id] = None]
    /\ UNCHANGED <<mgrVars, run, pendingTasks, availableQueue, workerEvents, disp, conn,
                   cliVars, dropped>>

(* runEventLoop over GRPCDispatcher.ReceiveEvent: one iteration.           *)
EventLoop ==
    /\ workerEvents # <<>>
    /\ LoopIteration(Head(workerEvents))
    /\ workerEvents' = Tail(workerEvents)
    /\ UNCHANGED <<run, pendingTasks, availableQueue, workerStreams, disp, handler, conn,
                   cliVars, dropped>>

-----------------------------------------------------------------------------
(* The worker's Consumer.                                                  *)

(* Mutant of Dial: a loop that has dialled returns and starts no other.     *)
DialOnce(w, i) ==
    /\ rloop[w][i].pc = "dial"
    /\ \E k \in Conns, j \in Loops :
          /\ conn[k].link = "free" /\ \A m \in Conns : m < k => conn[m].link # "free"
          /\ rloop[w][j].pc = "none" /\ \A m \in Loops : m < j => rloop[w][m].pc # "none"
          /\ conn' = [conn EXCEPT ![k].owner = w, ![k].link = "up"]
          /\ handler' = [handler EXCEPT ![k].pc = "name"]
          /\ cons' = [cons EXCEPT ![w] = [stream |-> k, connected |-> TRUE]]
          /\ rloop' = [rloop EXCEPT ![w] =
                [@ EXCEPT ![i] = NoLoop, ![j] = IF i = 0 THEN [pc |-> "recv", conn |-> k] ELSE @]]
    /\ UNCHANGED <<mgrVars, run, pendingTasks, availableQueue, workerStreams, workerEvents,
                   disp, host, via, dropped>>

(* Connect: a new stream, a new receiveLoop goroutine, and the caller,     *)
(* when it is a receiveLoop itself, goes on as well.  A failed attempt     *)
(* changes nothing and is made again after two seconds.                    *)
Dial(w, i) ==
    /\ rloop[w][i].pc = "dial"
    /\ \E k \in Conns, j \in Loops :
          /\ conn[k].link = "free" /\ \A m \in Conns : m < k => conn[m].link # "free"
          /\ rloop[w][j].pc = "none" /\ \A m \in Loops : m < j => rloop[w][m].pc # "none"
          /\ conn' = [conn EXCEPT ![k].owner = w, ![k].link = "up"]
          /\ handler' = [handler EXCEPT ![k].pc = "name"]
          /\ cons' = [cons EXCEPT ![w] = [stream |-> k, connected |-> TRUE]]
          /\ rloop' = [rloop EXCEPT ![w] =
                IF i = 0
                THEN [@ EXCEPT ![i] = NoLoop, ![j] = [pc |-> "recv", conn |-> k]]
                ELSE [@ EXCEPT ![i] = [NoLoop EXCEPT !.pc = "top"],
                               ![j] = [NoLoop EXCEPT !.pc = "top"]]]
    /\ UNCHANGED <<mgrVars, run, pendingTasks, availableQueue, workerStreams, workerEvents,
                   disp, host, via, dropped>>

(* receiveLoop reads c.stream under the mutex ...                          *)
LoopTop(w, i) ==
    /\ rloop[w][i].pc = "top"
    /\ rloop' = [rloop EXCEPT ![w][i] = [pc |-> "recv", conn |-> cons[w].stream]]
    /\ UNCHANGED <<mgrVars, run, srvVars, conn, cons, host, via, dropped>>

(* ... and waits in Recv on that stream.  The task queue has room (10), so *)
(* RunWorker starts the run.                                               *)
LoopTask(w, i) ==
    /\ rloop[w][i].pc = "recv"
    /\ conn[rloop[w][i].conn].tasks # <<>>
    /\ LET k == rloop[w][i].conn
           t == Head(conn[k].tasks)
       IN  /\ RunStart(t, t, store[t].stages)
           /\ conn' = [conn EXCEPT ![k].tasks = Tail(@)]
    /\ rloop' = [rloop EXCEPT ![w][i] = [NoLoop EXCEPT !.pc = "top"]]
    /\ UNCHANGED <<mgrVars, srvVars, cons, host, via, dropped>>

LoopError(w, i) ==
    /\ rloop[w][i].pc = "recv"
    /\ conn[rloop[w][i].conn].link = "down"
    /\ cons' = [cons EXCEPT ![w].connected = FALSE]
    /\ rloop' = [rloop EXCEPT ![w][i] = [NoLoop EXCEPT !.pc = "dial"]]
    /\ UNCHANGED <<mgrVars, run, srvVars, conn, host, via, dropped>>

(* Emit: stream and connected are read under the mutex ...                 *)
EmitPick(t) ==
    /\ run[t].pc \in EmitPc
    /\ via[t] = None
    /\ cons[host[t]].connected
    /\ via' = [via EXCEPT ![t] = cons[host[t]].stream]
    /\ UNCHANGED <<mgrVars, run, srvVars, conn, cons, rloop, host, dropped>>

(* ... errNotConnected ...                                                 *)
EmitNotConnected(t) ==
    /\ run[t].pc \in EmitPc
    /\ via[t] = None
    /\ ~cons[host[t]].connected
    /\ EmitDone(t)
    /\ UNCHANGED <<mgrVars, srvVars, conn, cliVars, dropped>>

(* ... and Send happens outside it: nil, the event possibly lost ...       *)
EmitSend(t) ==
    /\ via[t] # None
    /\ EmitDone(t)
    /\ conn' = [conn EXCEPT ![via[t]].events =
                   IF conn[via[t]].link = "up" THEN Append(@, EmitEvent(t)) ELSE @]
    /\ via' = [via EXCEPT ![t] = None]
    /\ UNCHANGED <<mgrVars, srvVars, cons, rloop, host, dropped>>

(* ... or an error, which also disconnects a stream dialled meanwhile.     *)
EmitError(t) ==
    /\ via[t] # None
    /\ conn[via[t]].link = "down"
    /\ EmitDone(t)
    /\ via' = [via EXCEPT ![t] = None]
    /\ cons' = [cons EXCEPT ![host[t]].connected = FALSE]
    /\ UNCHANGED <<mgrVars, srvVars, conn, rloop, host, dropped>>

Stage(t) == StageSleep(t) /\ UNCHANGED <<mgrVars, srvVars, conn, cliVars, dropped>>

-----------------------------------------------------------------------------
(* Faults.                                                                 *)

Broken(c) == [c EXCEPT !.link = "down", !.tasks = <<>>, !.events = <<>>]

(* A stream breaks with what is on it.                                     *)
Break(k) ==
    /\ k \in Fragile /\ WithinLoad
    /\ conn[k].link = "up"
    /\ conn' = [conn EXCEPT ![k] = Broken(@)]
    /\ UNCHANGED <<mgrVars, run, srvVars, cliVars, dropped>>

(* SIGTERM: the streams are closed, the runs end with the process and the  *)
(* process is started again.                                               *)
WorkerRestart(w) ==
    /\ WithinLoad
    /\ \E k \in Fragile : conn[k].owner = w /\ conn[k].link = "up"
    /\ conn' = [k \in Conns |-> IF conn[k].owner = w THEN Broken(conn[k]) ELSE conn[k]]
    /\ run' = [t \in Tasks |-> IF host[t] = w /\ Busy(t) THEN Exited ELSE run[t]]
    /\ via' = [t \in Tasks |-> IF host[t] = w THEN None ELSE via[t]]
    /\ cons' = [cons EXCEPT ![w] = NewConsumer]
    /\ rloop' = [rloop EXCEPT ![w] = NewLoops]
    /\ UNCHANGED <<mgrVars, srvVars, host, dropped>>

-----------------------------------------------------------------------------
Dispatch == DispatchTake \/ DispatchLookup \/ DispatchSend \/ DispatchSendError \/ DispatchRequeue
Handle(k) == ConnectName(k) \/ ConnectRegister(k) \/ ConnectEvent(k)
             \/ ConnectEnd(k)
Consume(w, i) == Dial(w, i) \/ LoopTop(w, i) \/ LoopTask(w, i) \/ LoopError(w, i)
Execute(t) == EmitPick(t) \/ EmitNotConnected(t) \/ EmitSend(t) \/ EmitError(t) \/ Stage(t)

(* What the goroutines do by themselves.                                   *)
System ==
    \/ Dispatch
    \/ EventLoop
    \/ \E k \in Conns : Handle(k)
    \/ \E w \in Workers, i \in LoopIds : Consume(w, i)
    \/ \E t \in Tasks : Execute(t)

Next ==
    \/ System
    \/ \E t \in Tasks : HTTPSubmit(t) \/ RPCSubmit(t)
    \/ \E k \in Conns : Break(k)
    \/ \E w \in Workers : WorkerRestart(w)

Spec == Init /\ [][Next]_vars

(* Every task, event, stream and id is used up by the steps that handle    *)
(* it, so it is enough that the goroutines do not all stop.                *)
FairSpec == Spec /\ WF_vars(System)

-----------------------------------------------------------------------------
(***************************************************************************)
(* Properties.                                                             *)
(***************************************************************************)

Ended(t) == store[t].status \in Terminal
Accepted(t) == req[t].pc = "done" /\ req[t].err = "none"
Positions(s, P(_)) == {i \in 1..Len(s) : P(s[i])}

(* Everyone who answers for task t.                                        *)
Holders(t) ==
    LET IsEnd(ev) == IsTerminal(ev) /\ ev.task = t
        Is(x) == x = t
    IN  {<<"pending", i>> : i \in Positions(pendingTasks, Is)}
        \cup {<<"dispatch", x>> : x \in {disp.task} \cap {t}}
        \cup (UNION {{<<"sent", k, i>> : i \in Positions(conn[k].tasks, Is)} : k \in Conns})
        \cup {<<"run", r>> : r \in {x \in Runs : Busy(x) /\ run[x].task = t}}
        \cup (UNION {{<<"told", k, i>> : i \in Positions(conn[k].events, IsEnd)} : k \in Conns})
        \cup {<<"event", i>> : i \in Positions(workerEvents, IsEnd)}
        \cup {<<"store", x>> : x \in {y \in {t} : Ended(y)}}

(* Re-queueing after an unknown id or a failed Send, reconnecting and the  *)
(* extra receive loops never double a task; and an accepted task           *)
(* disappears only when its own worker's stream broke or its ending met a  *)
(* full workerEvents, never by another worker's break, a reused worker id  *)
(* or a full pendingTasks.                                                 *)
Custody ==
    \A t \in Tasks :
        /\ \A p, q \in Holders(t) : p = q
        /\ Accepted(t) /\ Holders(t) = {} =>
              t \in dropped \/ \E k \in Down : conn[k].owner = host[t]

(* A worker's place: the ids queued, in the hands of dispatchLoop, and the *)
(* tasks of its stream that are not yet reported.                          *)
Places(k) ==
    LET IsMine(i) == i = handler[k].id
        Ending(ev) == IsTerminal(ev)
    IN  Cardinality(Positions(availableQueue, IsMine))
        + (IF disp.conn = k THEN 1 ELSE 0)
        + Len(conn[k].tasks)
        + Cardinality({t \in Tasks : Busy(t) /\ host[t] = conn[k].owner})
        + Cardinality(Positions(conn[k].events, Ending))

(* While no stream broke and no two handlers read the same number of       *)
(* workers, every stream that is served has exactly one place, so that two *)
(* runs never call Send on one stream at once.                             *)
OnePlacePerStream ==
    Down = {} /\ (\A j, k \in Conns : handler[j].id = handler[k].id => j = k \/ handler[k].id = None)
        => \A k \in Conns : handler[k].pc = "recv" => Places(k) = 1

(* A task on a stream that is up waits for somebody: some receive loop     *)
(* reads that stream or is about to.                                       *)
StreamHasReader ==
    \A k \in Conns :
        conn[k].link = "up" /\ conn[k].tasks # <<>> =>
            \E i \in Loops :
                LET l == rloop[conn[k].owner][i]
                IN  \/ l.pc = "recv" /\ l.conn = k
                    \/ l.pc = "top" /\ cons[conn[k].owner].stream = k

(* dispatchLoop waits for itself.                                          *)
SelfBlocked == disp.pc \in {"requeue", "drop"} /\ Len(pendingTasks) = PendingCap

(* A stream is served but no longer registered: another stream was given   *)
(* its id, or the handler of another stream removed it.                    *)
Displaced ==
    \E k \in Conns : /\ conn[k].link = "up"
                     /\ handler[k].pc = "recv"
                     /\ workerStreams[handler[k].id] # k

(* An accepted task ends, unless its ending met a full queue, its worker's *)
(* stream broke, dispatchLoop blocked itself or a reused id displaced a    *)
(* stream: nothing else stops a task, a reconnecting worker included.      *)
AcceptedEnds ==
    \A t \in Tasks :
        Accepted(t) ~> \/ Ended(t)
                       \/ t \in dropped
                       \/ \E k \in Down : conn[k].owner = host[t]
                       \/ SelfBlocked
                       \/ Displaced
=============================================================================
