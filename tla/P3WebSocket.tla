----------------------------- MODULE P3WebSocket -----------------------------
(***************************************************************************)
(* Pattern 3 (patterns/p03): one manager pushes tasks over WebSockets to   *)
(* worker processes.  The module composes ManagerCore and ExecutorCore     *)
(* with WebSocketDispatcher (manager end: Register, Dispatch, writePump,   *)
(* readPump) and WebSocketConsumer (worker end: reconnectLoop, runConn,    *)
(* runWritePump, Emit).  A member of Conns is one WebSocket connection,    *)
(* dialled at most once, so Conns bounds the number of dials.              *)
(*                                                                         *)
(* RunWorker starts "go exec.Run" for every task it receives; the run of   *)
(* a task is named by the task, so Runs is Tasks.  The manager's bridge    *)
(* (EventFanout) never blocks runEventLoop and is left out, and so is the  *)
(* "ready" message, which readPump ignores.                                *)
(***************************************************************************)
EXTENDS ManagerCore, ExecutorCore, SequencesExt

CONSTANTS
    Workers,        \* the worker processes
    Conns,          \* the connections they may dial
    None,           \* no connection, no worker
    StageCounts,    \* the stage_count values a request may carry
    SendCap,        \* capacity of workerConn.send (64)
    OutCap,         \* capacity of the worker's send channel (128)
    EventsCap,      \* capacity of the dispatcher's events channel (256)
    WireCap,        \* messages a connection holds in each direction
    Fragile,        \* the connections that may fail or see their worker stop
    MayStop         \* whether worker processes may be stopped and restarted

ASSUME P3Assumption ==
    /\ Runs = Tasks
    /\ None \notin Conns \cup Workers
    /\ IsFiniteSet(Conns)
    /\ SendCap \in Nat \ {0} /\ OutCap \in Nat \ {0}
    /\ EventsCap \in Nat \ {0} /\ WireCap \in Nat \ {0}
    /\ StageCounts \subseteq Int
    /\ Fragile \subseteq Conns /\ MayStop \in BOOLEAN

VARIABLES
    \* WebSocketDispatcher
    workers,        \* p.workers: the registered connections, in order
    nextIdx,        \* p.nextIdx
    busy,           \* workerConn.busy
    sendQ,          \* workerConn.send: tasks to be written
    sendClosed,     \* close(wc.send) was called
    reader,         \* readPump: where it is
    eventsCh,       \* p.events
    \* the network
    link,           \* "new", "up" or "down"
    down,           \* tasks on their way to the worker
    up,             \* events on their way to the manager
    \* WebSocketConsumer
    dialPc,         \* reconnectLoop: "dial", "attach" or "run"
    conn,           \* the connection reconnectLoop works on
    currentSend,    \* c.currentSend: the connection whose channel Emit uses
    outQ,           \* that channel, one per connection: events to be written
    tasksCh,        \* c.tasks (capacity 1)
    host,           \* the worker process that runs a task
    via,            \* a terminal Emit: the channel it has picked
    stopping        \* the worker's ctx is done, its process still runs

hubVars == <<workers, nextIdx, busy, sendQ, sendClosed, reader, eventsCh>>
netVars == <<link, down, up>>
workerVars == <<dialPc, conn, currentSend, outQ, tasksCh, host, via, stopping>>
vars == <<store, req, loop, run, hubVars, netVars, workerVars>>

(* Type invariant; the buffers stay within their capacities.               *)
TypeOK ==
    /\ MgrTypeOK /\ ExecTypeOK
    /\ workers \in Seq(Conns)
    /\ nextIdx = 0 \/ nextIdx \in 1..(Cardinality(Conns) - 1)
    /\ busy \in [Conns -> BOOLEAN] /\ sendClosed \in [Conns -> BOOLEAN]
    /\ reader \in [Conns -> {"none", "read", "release", "close", "gone"}]
    /\ eventsCh \in Seq(Event) /\ Len(eventsCh) <= EventsCap
    /\ link \in [Conns -> {"new", "up", "down"}]
    /\ sendQ \in [Conns -> Seq(Tasks)] /\ down \in [Conns -> Seq(Tasks)]
    /\ outQ \in [Conns -> Seq(Event)] /\ up \in [Conns -> Seq(Event)]
    /\ \A k \in Conns : /\ Len(sendQ[k]) <= SendCap /\ Len(down[k]) <= WireCap
                        /\ Len(outQ[k]) <= OutCap /\ Len(up[k]) <= WireCap
    /\ dialPc \in [Workers -> {"dial", "attach", "run"}]
    /\ conn \in [Workers -> Conns \cup {None}]
    /\ currentSend \in [Workers -> Conns \cup {None}]
    /\ tasksCh \in [Workers -> Seq(Tasks)]
    /\ \A w \in Workers : Len(tasksCh[w]) <= 1
    /\ host \in [Tasks -> Workers \cup {None}]
    /\ via \in [Tasks -> Conns \cup {None}]
    /\ stopping \in [Workers -> BOOLEAN]

Init ==
    /\ MgrInit /\ ExecInit
    /\ workers = <<>> /\ nextIdx = 0
    /\ busy = [k \in Conns |-> FALSE]
    /\ sendQ = [k \in Conns |-> <<>>]
    /\ sendClosed = [k \in Conns |-> FALSE]
    /\ reader = [k \in Conns |-> "none"]
    /\ eventsCh = <<>>
    /\ link = [k \in Conns |-> "new"]
    /\ down = [k \in Conns |-> <<>>]
    /\ up = [k \in Conns |-> <<>>]
    /\ dialPc = [w \in Workers |-> "dial"]
    /\ conn = [w \in Workers |-> None]
    /\ currentSend = [w \in Workers |-> None]
    /\ outQ = [k \in Conns |-> <<>>]
    /\ tasksCh = [w \in Workers |-> <<>>]
    /\ host = [t \in Tasks |-> None]
    /\ via = [t \in Tasks |-> None]
    /\ stopping = [w \in Workers |-> FALSE]

(* A non-blocking send: dropped when the buffer is full.                   *)
Offer(ch, x, cap) == IF Len(ch) < cap THEN Append(ch, x) ELSE ch

-----------------------------------------------------------------------------
(* POST /tasks, forwarded by the API process: Manager.Submit around        *)
(* WebSocketDispatcher.Dispatch, one step.  The interleavings inside       *)
(* Submit are P1Channels' concern.                                         *)

Accepted(t) == \E u \in UserIDs, n \in StageCounts : SubmitAccepted(t, u, n)

Refused(t) ==
    \E u \in UserIDs, n \in StageCounts : SubmitRejected(t, u, n, "ErrNoWorkers")

(* The scan of Dispatch: offset i from nextIdx ...                         *)
Offsets == 0..(Len(workers) - 1)
Idx(i) == (nextIdx + i) % Len(workers)
Slot(i) == workers[Idx(i) + 1]

(* ... stops at the first worker that is not busy.                         *)
FirstIdle(i) ==
    /\ ~busy[Slot(i)]
    /\ \A j \in 0..(i - 1) : busy[Slot(j)]

(* Mutant of DispatchOk: the worker is not marked busy.                    *)
DispatchUnmarked(t) ==
    /\ Accepted(t)
    /\ \E i \in Offsets :
          /\ FirstIdle(i)
          /\ Len(sendQ[Slot(i)]) < SendCap
          /\ sendQ' = [sendQ EXCEPT ![Slot(i)] = Append(@, t)]
          /\ nextIdx' = (Idx(i) + 1) % Len(workers)
    /\ UNCHANGED <<run, workers, busy, sendClosed, reader, eventsCh, netVars, workerVars>>

(* Dispatch, under p.mu: the task goes to that worker's send channel ...   *)
DispatchOk(t) ==
    /\ Accepted(t)
    /\ \E i \in Offsets :
          /\ FirstIdle(i)
          /\ Len(sendQ[Slot(i)]) < SendCap
          /\ sendQ' = [sendQ EXCEPT ![Slot(i)] = Append(@, t)]
          /\ busy' = [busy EXCEPT ![Slot(i)] = TRUE]
          /\ nextIdx' = (Idx(i) + 1) % Len(workers)
    /\ UNCHANGED <<run, workers, sendClosed, reader, eventsCh, netVars, workerVars>>

(* ... or ErrNoWorkers: nobody is connected, everybody is busy, or the     *)
(* channel of the first idle worker is full; nextIdx is then past it.      *)
DispatchNone(t) ==
    /\ Refused(t)
    /\ \A i \in Offsets : FirstIdle(i) => Len(sendQ[Slot(i)]) >= SendCap
    /\ nextIdx' = IF \E i \in Offsets : FirstIdle(i)
                  THEN (Idx(CHOOSE i \in Offsets : FirstIdle(i)) + 1) % Len(workers)
                  ELSE nextIdx
    /\ UNCHANGED <<run, workers, busy, sendQ, sendClosed, reader, eventsCh, netVars,
                   workerVars>>

-----------------------------------------------------------------------------
(* The manager's end of a connection.                                      *)

(* The /ws/register handler after the upgrade.  The worker may already use *)
(* the connection, and it may already have failed.                         *)
Register(k) ==
    /\ link[k] # "new"
    /\ reader[k] = "none"
    /\ workers' = Append(workers, k)
    /\ reader' = [reader EXCEPT ![k] = "read"]
    /\ UNCHANGED <<mgrVars, run, nextIdx, busy, sendQ, sendClosed, eventsCh,
                   netVars, workerVars>>

(* writePump.  On a failed connection a write either vanishes in a buffer  *)
(* of the operating system or ends the pump; then the task stays in the    *)
(* channel for ever.                                                       *)
ManagerWrite(k) ==
    /\ sendQ[k] # <<>>
    /\ link[k] = "up" => Len(down[k]) < WireCap
    /\ down' = [down EXCEPT ![k] = IF link[k] = "up" THEN Append(@, Head(sendQ[k])) ELSE @]
    /\ sendQ' = [sendQ EXCEPT ![k] = Tail(@)]
    /\ UNCHANGED <<mgrVars, run, workers, nextIdx, busy, sendClosed, reader,
                   eventsCh, link, up, workerVars>>

(* Mutant of ManagerRead: every task_status event releases the worker.     *)
ManagerReadEager(k) ==
    /\ reader[k] = "read"
    /\ up[k] # <<>>
    /\ IsTerminal(Head(up[k])) => Len(eventsCh) < EventsCap
    /\ eventsCh' = Offer(eventsCh, Head(up[k]), EventsCap)
    /\ up' = [up EXCEPT ![k] = Tail(@)]
    /\ reader' = [reader EXCEPT ![k] = IF Head(up[k]).type = "task_status" THEN "release" ELSE @]
    /\ UNCHANGED <<mgrVars, run, workers, nextIdx, busy, sendQ, sendClosed,
                   link, down, workerVars>>

(* readPump: a terminal event waits for room in p.events and is followed   *)
(* by the release of the worker; any other event is dropped at a full      *)
(* channel.                                                                *)
ManagerRead(k) ==
    /\ reader[k] = "read"
    /\ up[k] # <<>>
    /\ IsTerminal(Head(up[k])) => Len(eventsCh) < EventsCap
    /\ eventsCh' = Offer(eventsCh, Head(up[k]), EventsCap)
    /\ up' = [up EXCEPT ![k] = Tail(@)]
    /\ reader' = [reader EXCEPT ![k] = IF IsTerminal(Head(up[k])) THEN "release" ELSE @]
    /\ UNCHANGED <<mgrVars, run, workers, nextIdx, busy, sendQ, sendClosed,
                   link, down, workerVars>>

(* Mutant of Release: busy is not reset.                                   *)
ReleaseForgotten(k) ==
    /\ reader[k] = "release"
    /\ reader' = [reader EXCEPT ![k] = "read"]
    /\ UNCHANGED <<mgrVars, run, workers, nextIdx, busy, sendQ, sendClosed,
                   eventsCh, netVars, workerVars>>

Release(k) ==
    /\ reader[k] = "release"
    /\ busy' = [busy EXCEPT ![k] = FALSE]
    /\ reader' = [reader EXCEPT ![k] = "read"]
    /\ UNCHANGED <<mgrVars, run, workers, nextIdx, sendQ, sendClosed, eventsCh,
                   netVars, workerVars>>

(* Mutant of ReadError: the connection stays in p.workers.                 *)
ReadErrorKept(k) ==
    /\ reader[k] = "read"
    /\ link[k] = "down"
    /\ up[k] = <<>>
    /\ reader' = [reader EXCEPT ![k] = "close"]
    /\ UNCHANGED <<mgrVars, run, workers, nextIdx, busy, sendQ, sendClosed,
                   eventsCh, netVars, workerVars>>

(* ReadMessage fails once what has arrived is read: remove, under p.mu,    *)
(* then close(wc.send) without it.                                         *)
ReadError(k) ==
    /\ reader[k] = "read"
    /\ link[k] = "down"
    /\ up[k] = <<>>
    /\ workers' = RemoveFirst(workers, k)
    /\ reader' = [reader EXCEPT ![k] = "close"]
    /\ UNCHANGED <<mgrVars, run, nextIdx, busy, sendQ, sendClosed, eventsCh,
                   netVars, workerVars>>

CloseSend(k) ==
    /\ reader[k] = "close"
    /\ sendClosed' = [sendClosed EXCEPT ![k] = TRUE]
    /\ reader' = [reader EXCEPT ![k] = "gone"]
    /\ UNCHANGED <<mgrVars, run, workers, nextIdx, busy, sendQ, eventsCh,
                   netVars, workerVars>>

-----------------------------------------------------------------------------
(* The network.  A connection fails for both ends at once, but each end    *)
(* notices by itself, after it has read what still arrives.                *)

Cut(k) ==
    /\ link' = [link EXCEPT ![k] = "down"]
    /\ \E d \in Prefixes(down[k]) : down' = [down EXCEPT ![k] = d]
    /\ \E u \in Prefixes(up[k]) : up' = [up EXCEPT ![k] = u]

Break(k) ==
    /\ k \in Fragile
    /\ link[k] = "up"
    /\ Cut(k)
    /\ UNCHANGED <<mgrVars, run, hubVars, workerVars>>

-----------------------------------------------------------------------------
(* The worker's end: reconnectLoop and runConn.                            *)

Dial(w, k) ==
    /\ dialPc[w] = "dial"
    /\ ~stopping[w]
    /\ link[k] = "new"
    /\ link' = [link EXCEPT ![k] = "up"]
    /\ conn' = [conn EXCEPT ![w] = k]
    /\ dialPc' = [dialPc EXCEPT ![w] = "attach"]
    /\ UNCHANGED <<mgrVars, run, hubVars, down, up, currentSend, outQ, tasksCh,
                   host, via, stopping>>

Attach(w) ==
    /\ dialPc[w] = "attach"
    /\ currentSend' = [currentSend EXCEPT ![w] = conn[w]]
    /\ dialPc' = [dialPc EXCEPT ![w] = "run"]
    /\ UNCHANGED <<mgrVars, run, hubVars, netVars, conn, outQ, tasksCh, host, via,
                   stopping>>

(* runConn reads a task and waits for room in c.tasks.                     *)
WorkerRead(w) ==
    /\ dialPc[w] = "run"
    /\ down[conn[w]] # <<>>
    /\ Len(tasksCh[w]) < 1
    /\ tasksCh' = [tasksCh EXCEPT ![w] = Append(@, Head(down[conn[w]]))]
    /\ down' = [down EXCEPT ![conn[w]] = Tail(@)]
    /\ UNCHANGED <<mgrVars, run, hubVars, link, up, dialPc, conn, currentSend,
                   outQ, host, via, stopping>>

(* runConn returns on a read error, which closes neither send nor conn,    *)
(* and reconnectLoop sets currentSend to nil.                              *)
WorkerReadError(w) ==
    /\ dialPc[w] = "run"
    /\ link[conn[w]] = "down"
    /\ down[conn[w]] = <<>>
    /\ currentSend' = [currentSend EXCEPT ![w] = None]
    /\ conn' = [conn EXCEPT ![w] = None]
    /\ dialPc' = [dialPc EXCEPT ![w] = "dial"]
    /\ UNCHANGED <<mgrVars, run, hubVars, netVars, outQ, tasksCh, host, via, stopping>>

(* RunWorker: Receive, then "go exec.Run": it does not wait for the run.   *)
WorkerReceive(w) ==
    /\ tasksCh[w] # <<>>
    /\ LET t == Head(tasksCh[w]) IN
          /\ RunStart(t, t, store[t].stages)
          /\ host' = [host EXCEPT ![t] = w]
    /\ tasksCh' = [tasksCh EXCEPT ![w] = Tail(@)]
    /\ UNCHANGED <<mgrVars, hubVars, netVars, dialPc, conn, currentSend, outQ, via,
                   stopping>>

(* runWritePump; on a failed connection as for the manager.                *)
WorkerWrite(k) ==
    /\ outQ[k] # <<>>
    /\ link[k] = "up" => Len(up[k]) < WireCap
    /\ up' = [up EXCEPT ![k] = IF link[k] = "up" THEN Append(@, Head(outQ[k])) ELSE @]
    /\ outQ' = [outQ EXCEPT ![k] = Tail(@)]
    /\ UNCHANGED <<mgrVars, run, hubVars, link, down, dialPc, conn, currentSend,
                   tasksCh, host, via, stopping>>

-----------------------------------------------------------------------------
(* Emit, called by the run of task t in process host[t].                   *)

(* Progress and running events: dropped without a connection and at a full *)
(* channel.                                                                *)
EmitBestEffort(t) ==
    LET k == currentSend[host[t]] IN
    /\ EmitDone(t)
    /\ ~IsTerminal(EmitEvent(t))
    /\ outQ' = IF k = None THEN outQ
               ELSE [outQ EXCEPT ![k] = Offer(@, EmitEvent(t), OutCap)]
    /\ UNCHANGED <<mgrVars, hubVars, netVars, dialPc, conn, currentSend, tasksCh,
                   host, via, stopping>>

(* A terminal event without a connection: Emit returns nil.                *)
EmitDisconnected(t) ==
    /\ EmitDone(t)
    /\ IsTerminal(EmitEvent(t))
    /\ via[t] = None
    /\ currentSend[host[t]] = None
    /\ UNCHANGED <<mgrVars, hubVars, netVars, workerVars>>

(* Otherwise the channel is picked under c.mu, and the send waits for room *)
(* without it: meanwhile the connection may be gone.                       *)
EmitPick(t) ==
    /\ run[t].pc \in EmitPc
    /\ IsTerminal(EmitEvent(t))
    /\ via[t] = None
    /\ currentSend[host[t]] # None
    /\ via' = [via EXCEPT ![t] = currentSend[host[t]]]
    /\ UNCHANGED <<mgrVars, run, hubVars, netVars, dialPc, conn, currentSend, outQ,
                   tasksCh, host, stopping>>

(* Mutant of EmitTerminal: a terminal event is dropped at a full channel.  *)
EmitTerminalLossy(t) ==
    /\ via[t] # None
    /\ EmitDone(t)
    /\ outQ' = [outQ EXCEPT ![via[t]] = Offer(@, EmitEvent(t), OutCap)]
    /\ via' = [via EXCEPT ![t] = None]
    /\ UNCHANGED <<mgrVars, hubVars, netVars, dialPc, conn, currentSend, tasksCh,
                   host, stopping>>

(* Mutant of EmitTerminal: the send does not wait for room.                *)
EmitTerminalOver(t) ==
    /\ via[t] # None
    /\ EmitDone(t)
    /\ outQ' = [outQ EXCEPT ![via[t]] = Append(@, EmitEvent(t))]
    /\ via' = [via EXCEPT ![t] = None]
    /\ UNCHANGED <<mgrVars, hubVars, netVars, dialPc, conn, currentSend, tasksCh,
                   host, stopping>>

EmitTerminal(t) ==
    /\ via[t] # None
    /\ Len(outQ[via[t]]) < OutCap
    /\ EmitDone(t)
    /\ outQ' = [outQ EXCEPT ![via[t]] = Append(@, EmitEvent(t))]
    /\ via' = [via EXCEPT ![t] = None]
    /\ UNCHANGED <<mgrVars, hubVars, netVars, dialPc, conn, currentSend, tasksCh,
                   host, stopping>>

Stage(t) ==
    /\ \/ StageSleep(t)
       \/ host[t] # None /\ stopping[host[t]] /\ StageCancelled(t)
    /\ UNCHANGED <<mgrVars, hubVars, netVars, workerVars>>

-----------------------------------------------------------------------------
(* SIGTERM cancels ctx; the process ends as soon as RunWorker notices and  *)
(* takes its runs and buffers with it.  A send on the channel that runConn *)
(* closes meanwhile would panic, which ends the process too.  The process  *)
(* is started again.  Stopping a process that holds nothing and restarting *)
(* it changes nothing, and is left out.                                    *)

(* The tasks a worker process has received and not finished.               *)
AtWorker(w) ==
    ToSet(tasksCh[w]) \cup {t \in Tasks : Busy(t) /\ host[t] = w}

Stop(w) ==
    /\ MayStop
    /\ conn[w] \in Fragile \/ (conn[w] = None /\ AtWorker(w) # {})
    /\ ~stopping[w]
    /\ stopping' = [stopping EXCEPT ![w] = TRUE]
    /\ UNCHANGED <<mgrVars, run, hubVars, netVars, dialPc, conn, currentSend, outQ,
                   tasksCh, host, via>>

Exit(w) ==
    /\ stopping[w]
    /\ stopping' = [stopping EXCEPT ![w] = FALSE]
    /\ run' = [t \in Tasks |-> IF host[t] = w /\ Busy(t) THEN Exited ELSE run[t]]
    /\ via' = [t \in Tasks |-> IF host[t] = w THEN None ELSE via[t]]
    /\ IF conn[w] = None
       THEN UNCHANGED <<netVars, outQ>>
       ELSE Cut(conn[w]) /\ outQ' = [outQ EXCEPT ![conn[w]] = <<>>]
    /\ tasksCh' = [tasksCh EXCEPT ![w] = <<>>]
    /\ currentSend' = [currentSend EXCEPT ![w] = None]
    /\ conn' = [conn EXCEPT ![w] = None]
    /\ dialPc' = [dialPc EXCEPT ![w] = "dial"]
    /\ UNCHANGED <<mgrVars, hubVars, host>>

-----------------------------------------------------------------------------
(* runEventLoop over WebSocketDispatcher.ReceiveEvent: one iteration.  The *)
(* interleavings inside an iteration are P1Channels' concern.              *)
EventLoop ==
    /\ eventsCh # <<>>
    /\ LoopIteration(Head(eventsCh))
    /\ eventsCh' = Tail(eventsCh)
    /\ UNCHANGED <<run, workers, nextIdx, busy, sendQ, sendClosed, reader, netVars,
                   workerVars>>

-----------------------------------------------------------------------------
Submit(t) == DispatchOk(t) \/ DispatchNone(t)

ReadPump(k) == Register(k) \/ ManagerRead(k) \/ Release(k) \/ ReadError(k) \/ CloseSend(k)

ReconnectLoop(w) ==
    \/ \E k \in Conns : Dial(w, k)
    \/ Attach(w) \/ WorkerRead(w) \/ WorkerReadError(w)

Run(t) ==
    \/ EmitBestEffort(t) \/ EmitDisconnected(t) \/ EmitPick(t) \/ EmitTerminal(t)
    \/ Stage(t)

Next ==
    \/ \E t \in Tasks : Submit(t) \/ Run(t)
    \/ \E k \in Conns : ManagerWrite(k) \/ ReadPump(k) \/ WorkerWrite(k) \/ Break(k)
    \/ \E w \in Workers : ReconnectLoop(w) \/ WorkerReceive(w) \/ Stop(w) \/ Exit(w)
    \/ EventLoop

Spec == Init /\ [][Next]_vars

(* The steps the processes owe: not requests, failures and stops, nor a    *)
(* write to a failed connection.  A process told to stop ends.             *)
System ==
    \/ \E t \in Tasks : Run(t)
    \/ \E k \in Conns :
          \/ ReadPump(k)
          \/ link[k] = "up" /\ (ManagerWrite(k) \/ WorkerWrite(k))
    \/ \E w \in Workers : ReconnectLoop(w) \/ WorkerReceive(w) \/ Exit(w)
    \/ EventLoop

(* Every task, event and connection is used up, so nothing goes on for     *)
(* ever: it is enough that some goroutine that can take a step takes one.  *)
Fairness == WF_vars(System)

FairSpec == Spec /\ Fairness

-----------------------------------------------------------------------------
(***************************************************************************)
(* Properties.                                                             *)
(***************************************************************************)

Ended(t) == store[t].status \in Terminal

IsEndOf(ev, t) == IsTerminal(ev) /\ ev.task = t

(* Everyone who answers for task t: the channels, the wire, the run, the   *)
(* terminal event on its way back, the store.                              *)
Holders(t) ==
    (UNION {{<<"send", k, i>> : i \in {j \in 1..Len(sendQ[k]) : sendQ[k][j] = t}}
                  : k \in Conns})
    \cup (UNION {{<<"down", k, i>> : i \in {j \in 1..Len(down[k]) : down[k][j] = t}}
                  : k \in Conns})
    \cup (UNION {{<<"tasks", w, i>> : i \in {j \in 1..Len(tasksCh[w]) : tasksCh[w][j] = t}}
                  : w \in Workers})
    \cup {<<"run", r>> : r \in {x \in Runs : Busy(x) /\ run[x].task = t}}
    \cup (UNION {{<<"out", k, i>> : i \in {j \in 1..Len(outQ[k]) : IsEndOf(outQ[k][j], t)}}
                  : k \in Conns})
    \cup (UNION {{<<"up", k, i>> : i \in {j \in 1..Len(up[k]) : IsEndOf(up[k][j], t)}}
                  : k \in Conns})
    \cup {<<"event", i>> : i \in {j \in 1..Len(eventsCh) : IsEndOf(eventsCh[j], t)}}
    \cup {<<"store", x>> : x \in {y \in {t} : Ended(y)}}

(* No connection has failed and no process has been told to stop.          *)
Undisturbed ==
    /\ \A k \in Conns : link[k] # "down"
    /\ \A w \in Workers : ~stopping[w]

(* Whatever fails, a task is never doubled: it is not executed again after *)
(* a reconnect and its end is not reported twice.  As long as connections  *)
(* last, it is not lost either: from Create to the terminal row it has     *)
(* exactly one holder.                                                     *)
Custody ==
    \A t \in Tasks :
        /\ \A p, q \in Holders(t) : p = q
        /\ Exists(t) /\ Undisturbed => Holders(t) # {}

(* An ending is written once, whatever fails.                              *)
EndedOnce ==
    [][\A t \in Tasks : Ended(t) => store'[t].status = store[t].status]_vars

(* Dispatch sends to registered connections only: their channel must not   *)
(* be closed, or the manager panics while it holds p.mu.                   *)
NoSendOnClosed == \A k \in ToSet(workers) : ~sendClosed[k]

(* "busy flag limits one task per worker", as long as connections last.  A *)
(* worker that reconnects is registered as idle while it still runs a      *)
(* task.                                                                   *)
OneTaskPerWorker ==
    Undisturbed => \A w \in Workers : Cardinality(AtWorker(w)) <= 1

(* As long as connections last, busy = FALSE is the truth: nothing is on   *)
(* its way to a worker that Dispatch takes for idle, and the worker itself *)
(* has nothing to do.                                                      *)
IdleIsIdle ==
    Undisturbed => \A k \in ToSet(workers) : ~busy[k] =>
        /\ sendQ[k] = <<>> /\ down[k] = <<>>
        /\ \A w \in Workers : conn[w] = k => AtWorker(w) = {}

(* A worker that was given a task is offered to Dispatch again, or its     *)
(* connection is removed: no failure leaves it busy for ever.              *)
BusyReleased ==
    \A k \in Conns :
        (k \in ToSet(workers) /\ busy[k]) ~> (k \notin ToSet(workers) \/ ~busy[k])

(* A task answered 202 reaches a terminal status, unless a connection has  *)
(* failed.                                                                 *)
AcceptedEnds ==
    \A t \in Tasks :
        (req[t].pc = "done" /\ HTTPStatus(t) = 202)
            ~> (Ended(t) \/ \E k \in Conns : link[k] = "down")

=============================================================================
