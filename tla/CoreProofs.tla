----------------------------- MODULE CoreProofs -----------------------------
(***************************************************************************)
(* Facts about the manager, the executor and the data they share, for the  *)
(* theorems about the patterns that compose them.                          *)
(***************************************************************************)
EXTENDS ManagerCore, ExecutorCore, SequenceTheorems, FiniteSetTheorems, TLAPS

-----------------------------------------------------------------------------
(* The operators the models are built from.                                *)

(* The percentage Executor.Run reports lies in 0..100 for every stage of   *)
(* every task that NewTask can build.                                      *)
LEMMA ProgressRange ==
    ASSUME NEW n \in 1..MaxStages, NEW k \in 0..n
    PROVE  Progress(k, n) \in 0..100
<1>1. n = 1 \/ n = 2 \/ n = 3 \/ n = 4 \/ n = 5 \/ n = 6 \/ n = 7 \/ n = 8
    BY SMT DEF MaxStages
<1> QED BY <1>1, SMT DEF Progress, MaxStages

(* SubmitTask and NewTask leave every stage count in 1..8.                 *)
LEMMA StagesClamped ==
    ASSUME NEW n \in Int
    PROVE  SubmitStages(n) \in 1..MaxStages
BY SMT DEF SubmitStages, NewTaskStages, MaxStages

(* Whatever Executor.Run is about to emit is a well-formed event.          *)
LEMMA EmitEventType ==
    ASSUME ExecTypeOK, NEW r \in Runs, run[r].pc \in EmitPc
    PROVE  EmitEvent(r) \in Event
<1> DEFINE s == run[r]
<1>1. s \in RunState
    BY SMT DEF ExecTypeOK, Idle, Exited, EmitPc
<1>2. /\ s.task \in Tasks /\ s.stage \in 0..MaxStages /\ s.total \in 1..MaxStages
      /\ s.pc \in EmitPc
    BY <1>1 DEF RunState
<1>3. CASE s.pc = "start"
    <2>1. s.stage \in 0..s.total
        BY <1>2, <1>3, SMT DEF ExecTypeOK, MaxStages
    <2>2. Progress(s.stage, s.total) \in 0..100
        BY <1>2, <2>1, ProgressRange
    <2> QED BY <1>2, <1>3, <2>2, SMT DEF EmitEvent, ProgressEvent, Event, UserIDs
<1>4. CASE s.pc = "end"
    <2>1. s.stage + 1 \in 0..s.total
        BY <1>2, <1>4, SMT DEF ExecTypeOK, MaxStages
    <2>2. Progress(s.stage + 1, s.total) \in 0..100
        BY <1>2, <2>1, ProgressRange
    <2> QED BY <1>2, <1>4, <2>2, SMT DEF EmitEvent, ProgressEvent, Event, UserIDs
<1>5. CASE s.pc \in {"running", "completed", "failed"}
    <2>1. EmitEvent(r) = StatusEvent(s.task, s.pc)
        BY <1>5, Zenon DEF EmitEvent
    <2>2. s.pc \in TaskStatus
        BY <1>5 DEF TaskStatus
    <2> QED BY <1>2, <2>1, <2>2, SMT DEF StatusEvent, Event, UserIDs, MaxStages
<1> QED BY <1>2, <1>3, <1>4, <1>5 DEF EmitPc

(* Filling in the user keeps an event an event of the same task, type and  *)
(* status.                                                                 *)
LEMMA EnrichedType ==
    ASSUME MgrTypeOK, NEW ev \in Event
    PROVE  /\ Enriched(ev) \in Event
           /\ Enriched(ev).task = ev.task
           /\ Enriched(ev).status = ev.status
           /\ Enriched(ev).type = ev.type
<1>1. CASE ~Exists(ev.task)
    BY <1>1 DEF Enriched
<1>2. CASE Exists(ev.task)
    <2> DEFINE u == store[ev.task].user
    <2>1. ev.task \in Tasks
        BY DEF Event
    <2>2. u \in UserIDs
        BY <2>1 DEF MgrTypeOK, Row
    <2>3. Enriched(ev) = [ev EXCEPT !.user = u]
        BY <1>2 DEF Enriched
    <2> HIDE DEF u
    <2> QED BY <2>2, <2>3, SMT DEF Event
<1> QED BY <1>1, <1>2

LEMMA ReceiveElements ==
    ASSUME NEW S, NEW ch \in Seq(S), ch # <<>>
    PROVE  /\ 1 \in 1..Len(ch) /\ Head(ch) = ch[1] /\ Head(ch) \in S
           /\ \A i \in 1..Len(Tail(ch)) : i + 1 \in 1..Len(ch) /\ Tail(ch)[i] = ch[i + 1]
BY SMT

-----------------------------------------------------------------------------
(* The manager and the executor keep their types.                          *)

LEMMA MgrTypeInit == MgrInit => MgrTypeOK
<1> SUFFICES ASSUME MgrInit PROVE MgrTypeOK
    OBVIOUS
<1>1. NoRow \in Row
    BY SMT DEF NoRow, Row, UserIDs, MaxStages
<1>2. [pc |-> "new", err |-> "none"] \in ReqState
    BY DEF ReqState
<1> QED BY <1>1, <1>2 DEF MgrInit, MgrTypeOK, LoopPc

(* A store operation keeps every row a row.                                *)
LEMMA StoreType ==
    ASSUME MgrTypeOK, NEW t \in Tasks, NEW s \in TaskStatus,
           SetStatus(t, s) \/ SetDispatchedAt(t)
    PROVE  store' \in [Tasks -> Row]
<1>0. store \in [Tasks -> Row]
    BY DEF MgrTypeOK
<1>1. CASE SetDispatchedAt(t)
    <2> DEFINE row == [store[t] EXCEPT !.dispatchedAt = TRUE]
    <2>1. row \in Row
        BY <1>0 DEF Row
    <2>2. store' = [store EXCEPT ![t] = row] \/ store' = store
        BY <1>1 DEF SetDispatchedAt
    <2> QED BY <1>0, <2>1, <2>2
<1>2. CASE SetStatus(t, s)
    <2> DEFINE done == store[t].completedAt \/ s \in Terminal
               row == [[store[t] EXCEPT !.status = s] EXCEPT !.completedAt = done]
    <2>1. done \in BOOLEAN
        OBVIOUS
    <2>2. row \in Row
        <3> HIDE DEF done
        <3> QED BY <1>0, <2>1 DEF Row
    <2>3. store' = [store EXCEPT ![t] = row] \/ store' = store
        BY <1>2, <1>0 DEF SetStatus
    <2> QED BY <1>0, <2>2, <2>3
<1> QED BY <1>1, <1>2

LEMMA MgrTypeSubmit ==
    ASSUME MgrTypeOK, NEW t \in Tasks,
           \/ \E u \in UserIDs, n \in Int : SubmitCreate(t, u, n)
           \/ SubmitDispatched(t)
           \/ \E err \in DispatchError : SubmitRefused(t, err)
           \/ SubmitStamp(t)
           \/ SubmitFail(t)
    PROVE  MgrTypeOK'
<1> USE DEF MgrTypeOK
<1>1. CASE \E u \in UserIDs, n \in Int : SubmitCreate(t, u, n)
    <2> PICK u \in UserIDs, n \in Int : SubmitCreate(t, u, n)
        BY <1>1
    <2> DEFINE k == SubmitStages(n)
    <2>1. k \in 0..MaxStages
        BY StagesClamped, SMT DEF MaxStages
    <2>2. [status |-> "pending", user |-> u, stages |-> k,
           dispatchedAt |-> FALSE, completedAt |-> FALSE] \in Row
        BY <2>1 DEF Row, TaskStatus
    <2>3. store' \in [Tasks -> Row]
        BY <2>2 DEF SubmitCreate, Create
    <2>4. req' \in [Tasks -> ReqState]
        BY DEF SubmitCreate, ReqState
    <2> QED BY <2>3, <2>4 DEF SubmitCreate
<1>2. CASE SubmitDispatched(t)
    BY <1>2 DEF SubmitDispatched, ReqState
<1>3. CASE \E err \in DispatchError : SubmitRefused(t, err)
    BY <1>3 DEF SubmitRefused, ReqState
<1>4. CASE SubmitStamp(t)
    <2>1. store' \in [Tasks -> Row]
        BY <1>4, StoreType DEF SubmitStamp, TaskStatus
    <2> QED BY <1>4, <2>1 DEF SubmitStamp, ReqState
<1>5. CASE SubmitFail(t)
    <2>1. store' \in [Tasks -> Row]
        BY <1>5, StoreType DEF SubmitFail, TaskStatus
    <2> QED BY <1>5, <2>1 DEF SubmitFail, ReqState
<1> QED BY <1>1, <1>2, <1>3, <1>4, <1>5

(* The same for Submit taken as one step.                                  *)
LEMMA MgrTypeSubmitOnce ==
    ASSUME MgrTypeOK, NEW t \in Tasks, NEW u \in UserIDs, NEW n \in Int,
           \/ SubmitAccepted(t, u, n)
           \/ \E err \in DispatchError : SubmitRejected(t, u, n, err)
    PROVE  MgrTypeOK'
<1> DEFINE k == SubmitStages(n)
<1>1. k \in 0..MaxStages
    BY StagesClamped, SMT DEF MaxStages
<1> DEFINE row(s, d) == [status |-> s, user |-> u, stages |-> k,
                         dispatchedAt |-> d, completedAt |-> ~d]
<1>2. \A s \in TaskStatus, d \in BOOLEAN : row(s, d) \in Row
    BY <1>1 DEF Row
<1>3. "pending" \in TaskStatus /\ "failed" \in TaskStatus
    BY DEF TaskStatus
<1>4. store' = [store EXCEPT ![t] = row("pending", TRUE)]
      \/ store' = [store EXCEPT ![t] = row("failed", FALSE)]
    BY DEF SubmitAccepted, SubmitRejected
<1>5. row("pending", TRUE) \in Row /\ row("failed", FALSE) \in Row
    BY <1>2, <1>3
<1>6. store' \in [Tasks -> Row]
    <2> HIDE DEF row
    <2> QED BY <1>4, <1>5 DEF MgrTypeOK
<1>7. req' \in [Tasks -> ReqState] /\ loop' = loop
    BY DEF SubmitAccepted, SubmitRejected, MgrTypeOK, ReqState
<1> QED BY <1>6, <1>7 DEF MgrTypeOK

(* ... and for one iteration of the event loop.                            *)
LEMMA MgrTypeIteration ==
    ASSUME MgrTypeOK, NEW ev \in Event, LoopIteration(ev)
    PROVE  MgrTypeOK'
<1>1. IsTerminal(ev) => ev.task \in Tasks /\ ev.status \in TaskStatus
    BY DEF Event, IsTerminal, Terminal, TaskStatus
<1>2. store' \in [Tasks -> Row]
    BY <1>1, StoreType DEF LoopIteration, MgrTypeOK
<1> QED BY <1>2 DEF LoopIteration, MgrTypeOK

LEMMA MgrTypeLoop ==
    ASSUME MgrTypeOK,
           \/ \E ev \in Event : LoopReceive(ev)
           \/ LoopEnrich
           \/ LoopPersist /\ IsTerminal(loop.ev)
           \/ LoopPublish
           \/ LoopExit
    PROVE  MgrTypeOK'
<1> USE DEF MgrTypeOK
<1>1. CASE \E ev \in Event : LoopReceive(ev)
    BY <1>1 DEF LoopReceive, LoopPc
<1>2. CASE LoopEnrich
    <2>1. loop.ev \in Event
        BY <1>2 DEF LoopEnrich
    <2>2. Enriched(loop.ev) \in Event
        BY <2>1, EnrichedType
    <2> QED BY <1>2, <2>2 DEF LoopEnrich, LoopPc
<1>3. CASE LoopPersist /\ IsTerminal(loop.ev)
    <2>1. loop.ev \in Event
        BY <1>3 DEF LoopPersist
    <2>2. loop.ev.task \in Tasks /\ loop.ev.status \in TaskStatus
        BY <1>3, <2>1 DEF Event, IsTerminal, Terminal, TaskStatus
    <2>3. store' \in [Tasks -> Row]
        BY <1>3, <2>2, StoreType DEF LoopPersist
    <2> QED BY <1>3, <2>1, <2>3 DEF LoopPersist, LoopPc
<1>4. CASE LoopPublish
    BY <1>4 DEF LoopPublish, LoopPc
<1>5. CASE LoopExit
    BY <1>5 DEF LoopExit, LoopPc
<1> QED BY <1>1, <1>2, <1>3, <1>4, <1>5

LEMMA ExecTypeInit == ExecInit => ExecTypeOK
BY DEF ExecInit, ExecTypeOK, Idle

(* What a step of the run r leaves behind is the state of a run, and the   *)
(* task of a busy run is a task.                                           *)
LEMMA BusyTask ==
    ASSUME ExecTypeOK, NEW r \in Runs, Busy(r)
    PROVE  run[r] \in RunState /\ run[r].task \in Tasks
BY DEF ExecTypeOK, Busy, BusyPc, EmitPc, Idle, Exited, RunState

LEMMA ExecTypeStep ==
    ASSUME ExecTypeOK, NEW r \in Runs,
           \/ \E t \in Tasks, n \in 1..MaxStages : RunStart(r, t, n)
           \/ EmitDone(r)
           \/ StageSleep(r)
           \/ StageCancelled(r)
           \/ RunExit(r)
    PROVE  ExecTypeOK'
<1> DEFINE OK(s) == /\ s \in RunState \cup {Idle, Exited}
                    /\ s.pc \in {"start", "sleep", "end"} => s.stage < s.total
<1>0. \A x \in Runs : OK(run[x])
    BY DEF ExecTypeOK
<1>1. SUFFICES \E s : OK(s) /\ run' = [run EXCEPT ![r] = s]
    BY <1>0, <1>1 DEF ExecTypeOK
<1>2. CASE \E t \in Tasks, n \in 1..MaxStages : RunStart(r, t, n)
    <2> PICK t \in Tasks, n \in 1..MaxStages : RunStart(r, t, n)
        BY <1>2
    <2> DEFINE s == [pc |-> "running", task |-> t, stage |-> 0, total |-> n]
    <2>1. OK(s)
        BY SMT DEF RunState, BusyPc, EmitPc, MaxStages
    <2> QED BY <2>1 DEF RunStart
<1>3. CASE EmitDone(r)
    <2> DEFINE s == run[r]
    <2>1. s \in RunState /\ s.pc \in EmitPc
        BY <1>0, <1>3 DEF EmitDone, EmitPc, Idle, Exited
    <2>2. OK(s)
        BY <1>0
    <2>3. run' = [run EXCEPT ![r] = AfterEmit(s)]
        BY <1>3 DEF EmitDone
    <2> HIDE DEF s
    <2>4. OK(AfterEmit(s))
        <3>1. CASE s.pc = "running"
            BY <2>1, <2>2, <3>1, SMT DEF AfterEmit, RunState, BusyPc, EmitPc, MaxStages
        <3>2. CASE s.pc = "start"
            BY <2>1, <2>2, <3>2, SMT DEF AfterEmit, RunState, BusyPc, EmitPc, MaxStages
        <3>3. CASE s.pc = "end"
            <4> DEFINE p == IF s.stage + 1 < s.total THEN "start" ELSE "completed"
                       q == [[s EXCEPT !.stage = s.stage + 1] EXCEPT !.pc = p]
            <4>1. AfterEmit(s) = q
                BY <3>3 DEF AfterEmit
            <4>2. s.stage + 1 \in 0..MaxStages
                BY <2>1, <2>2, <3>3, SMT DEF RunState, MaxStages
            <4>3. p \in BusyPc /\ (p \in {"start", "sleep", "end"} => s.stage + 1 < s.total)
                BY DEF BusyPc, EmitPc
            <4>4. q \in RunState /\ q.pc = p /\ q.stage = s.stage + 1 /\ q.total = s.total
                <5> HIDE DEF p
                <5> QED BY <2>1, <4>2, <4>3 DEF RunState
            <4> QED BY <4>1, <4>3, <4>4
        <3>4. CASE s.pc \in {"completed", "failed"}
            <4>1. AfterEmit(s) = Idle
                BY <3>4, Zenon DEF AfterEmit
            <4> QED BY <4>1 DEF Idle
        <3> QED BY <2>1, <3>1, <3>2, <3>3, <3>4 DEF EmitPc
    <2> QED BY <2>3, <2>4
<1>4. CASE StageSleep(r) \/ StageCancelled(r)
    <2> DEFINE s(p) == [run[r] EXCEPT !.pc = p]
    <2>1. run[r] \in RunState
        BY <1>0, <1>4 DEF StageSleep, StageCancelled, Idle, Exited
    <2>2. run[r].pc = "sleep" /\ run[r].stage < run[r].total
        BY <1>0, <1>4 DEF StageSleep, StageCancelled
    <2>3. OK(s("end"))
        BY <2>1, <2>2 DEF RunState, BusyPc, EmitPc
    <2>4. OK(s("failed"))
        BY <2>1 DEF RunState, BusyPc, EmitPc
    <2>5. run' = [run EXCEPT ![r] = s("end")] \/ run' = [run EXCEPT ![r] = s("failed")]
        BY <1>4 DEF StageSleep, StageCancelled
    <2> QED BY <2>3, <2>4, <2>5
<1>5. CASE RunExit(r)
    <2>1. OK(Exited)
        BY DEF Exited
    <2> QED BY <1>5, <2>1 DEF RunExit
<1> QED BY <1>2, <1>3, <1>4, <1>5

(* A run is over once it has emitted an ending, and not before.            *)
LEMMA EmitOutcome ==
    ASSUME ExecTypeOK, NEW r \in Runs, EmitDone(r)
    PROVE  /\ Busy(r) /\ EmitEvent(r).task = run[r].task
           /\ IF IsTerminal(EmitEvent(r)) THEN ~Busy(r)'
              ELSE Busy(r)' /\ run'[r].task = run[r].task
           /\ \A x \in Runs : x # r => run'[x] = run[x]
<1> DEFINE s == run[r]
<1>1. s.pc \in EmitPc /\ s \in RunState /\ Busy(r)
    BY DEF EmitDone, ExecTypeOK, Idle, Exited, EmitPc, Busy, BusyPc
<1>2. run'[r] = AfterEmit(s) /\ \A x \in Runs : x # r => run'[x] = run[x]
    BY DEF EmitDone, ExecTypeOK
<1>3. CASE s.pc \in {"completed", "failed"}
    <2>1. AfterEmit(s) = Idle /\ EmitEvent(r) = StatusEvent(s.task, s.pc)
        BY <1>3, Zenon DEF AfterEmit, EmitEvent
    <2>2. IsTerminal(EmitEvent(r)) /\ EmitEvent(r).task = s.task
        BY <1>3, <2>1 DEF IsTerminal, StatusEvent, Terminal
    <2> QED BY <1>1, <1>2, <2>1, <2>2 DEF Busy, BusyPc, EmitPc, Idle
<1>4. CASE s.pc \in {"running", "start", "end"}
    <2>1. AfterEmit(s).pc \in BusyPc /\ AfterEmit(s).task = s.task
        <3>1. CASE s.pc = "running"
            BY <1>1, <3>1, SMT DEF AfterEmit, RunState, BusyPc, EmitPc
        <3>2. CASE s.pc = "start"
            BY <1>1, <3>2, SMT DEF AfterEmit, RunState, BusyPc, EmitPc
        <3>3. CASE s.pc = "end"
            <4> HIDE DEF s
            <4> DEFINE p == IF s.stage + 1 < s.total THEN "start" ELSE "completed"
                       q == [[s EXCEPT !.stage = s.stage + 1] EXCEPT !.pc = p]
            <4>1. AfterEmit(s) = q
                BY <3>3 DEF AfterEmit
            <4>2. p \in BusyPc
                BY DEF BusyPc, EmitPc
            <4>3. q.pc = p /\ q.task = s.task
                <5> HIDE DEF p
                <5> QED BY <1>1 DEF RunState
            <4> QED BY <4>1, <4>2, <4>3
        <3> QED BY <1>4, <3>1, <3>2, <3>3
    <2>2. ~IsTerminal(EmitEvent(r)) /\ EmitEvent(r).task = s.task
        <3>1. CASE s.pc = "start"
            BY <3>1 DEF EmitEvent, ProgressEvent, IsTerminal
        <3>2. CASE s.pc = "end"
            BY <3>2 DEF EmitEvent, ProgressEvent, IsTerminal
        <3>3. CASE s.pc = "running"
            BY <3>3 DEF EmitEvent, StatusEvent, IsTerminal, Terminal
        <3> QED BY <1>4, <3>1, <3>2, <3>3
    <2> QED BY <1>1, <1>2, <2>1, <2>2 DEF Busy
<1> QED BY <1>1, <1>3, <1>4 DEF EmitPc

-----------------------------------------------------------------------------
(* The rows of the store.                                                  *)

(* The row is there and carries what NewTask made of the stage count.      *)
Known(t) == Exists(t) /\ store[t].stages \in 1..MaxStages

(* What holds of a row goes on to hold: it stays known, stays dispatched   *)
(* and stays ended.  f is the store after the step.                        *)
RowKept(x, f) ==
    /\ Known(x) => f[x].status # "absent" /\ f[x].stages \in 1..MaxStages
    /\ Known(x) /\ store[x].dispatchedAt => f[x].dispatchedAt
    /\ store[x].status \in Terminal => f[x].status \in Terminal

LEMMA RowsOfCreate ==
    ASSUME store \in [Tasks -> Row], NEW t \in Tasks, NEW u \in UserIDs, NEW n \in Int,
           SubmitCreate(t, u, n)
    PROVE  /\ \A x \in Tasks : x # t => store'[x] = store[x]
           /\ ~store'[t].dispatchedAt /\ Known(t)'
           /\ ~Exists(t) /\ store'[t].status \notin Terminal
           /\ \A x \in Tasks : RowKept(x, store')
<1> DEFINE row == [status |-> "pending", user |-> u, stages |-> SubmitStages(n),
                   dispatchedAt |-> FALSE, completedAt |-> FALSE]
<1>1. store' = [store EXCEPT ![t] = row] /\ ~Exists(t)
    BY DEF SubmitCreate, Create
<1>2. row.stages \in 1..MaxStages /\ row.status = "pending" /\ ~row.dispatchedAt
    BY StagesClamped
<1> HIDE DEF row
<1>3. store'[t] = row /\ \A x \in Tasks : x # t => store'[x] = store[x]
    BY <1>1
<1> QED BY <1>1, <1>2, <1>3 DEF Known, Exists, RowKept, Terminal

(* Submit in one step, dispatched or refused.                              *)
LEMMA RowsOfSubmitOnce ==
    ASSUME store \in [Tasks -> Row], NEW t \in Tasks, NEW u \in UserIDs, NEW n \in Int,
           SubmitAccepted(t, u, n) \/ (\E err \in DispatchError : SubmitRejected(t, u, n, err))
    PROVE  /\ \A x \in Tasks : x # t => store'[x] = store[x]
           /\ ~Exists(t) /\ Known(t)'
           /\ \A x \in Tasks : RowKept(x, store')
<1> DEFINE row(s, d) == [status |-> s, user |-> u, stages |-> SubmitStages(n),
                         dispatchedAt |-> d, completedAt |-> ~d]
<1>1. /\ ~Exists(t)
      /\ \/ store' = [store EXCEPT ![t] = row("pending", TRUE)]
         \/ store' = [store EXCEPT ![t] = row("failed", FALSE)]
    BY DEF SubmitAccepted, SubmitRejected
<1>2. \A s, d : row(s, d).stages \in 1..MaxStages /\ row(s, d).status = s
    BY StagesClamped
<1> HIDE DEF row
<1>3. /\ \E s \in {"pending", "failed"} : \E d : store'[t] = row(s, d)
      /\ \A x \in Tasks : x # t => store'[x] = store[x]
    BY <1>1
<1>4. store'[t].stages \in 1..MaxStages /\ store'[t].status # "absent"
    BY <1>2, <1>3
<1>5. store[t].status = "absent"
    BY <1>1 DEF Exists
<1> QED BY <1>1, <1>3, <1>4, <1>5 DEF Known, Exists, RowKept, Terminal

LEMMA RowsOfStamp ==
    ASSUME store \in [Tasks -> Row], NEW t \in Tasks, SetDispatchedAt(t)
    PROVE  /\ \A x \in Tasks : x # t => store'[x] = store[x]
           /\ store'[t].status = store[t].status
           /\ Known(t) => Known(t)'
           /\ store'[t].dispatchedAt \in {store[t].dispatchedAt, TRUE}
           /\ \A x \in Tasks : RowKept(x, store')
<1> DEFINE row == [store[t] EXCEPT !.dispatchedAt = TRUE]
<1>1. store' = store \/ store' = [store EXCEPT ![t] = row]
    BY DEF SetDispatchedAt
<1>2. /\ row.status = store[t].status /\ row.stages = store[t].stages
      /\ row.dispatchedAt = TRUE
    BY DEF Row
<1> HIDE DEF row
<1>3. \A x \in Tasks : x # t => store'[x] = store[x]
    BY <1>1
<1>4. store'[t] = store[t] \/ store'[t] = row
    BY <1>1
<1> QED BY <1>2, <1>3, <1>4 DEF Known, Exists, RowKept

(* SetStatus with an ending; the stores differ in what they write to       *)
(* completedAt.                                                            *)
LEMMA RowsOfStatus ==
    ASSUME store \in [Tasks -> Row], NEW t \in Tasks, NEW s \in Terminal, NEW d \in BOOLEAN,
           store' = IF Exists(t)
                    THEN [store EXCEPT ![t].status = s, ![t].completedAt = d] ELSE store
    PROVE  /\ store' \in [Tasks -> Row]
           /\ \A x \in Tasks : x # t => store'[x] = store[x]
           /\ store'[t].dispatchedAt = store[t].dispatchedAt
           /\ Exists(t) => store'[t].status \in Terminal
           /\ \A x \in Tasks : RowKept(x, store')
<1> DEFINE row == [[store[t] EXCEPT !.status = s] EXCEPT !.completedAt = d]
<1>1. store' = IF Exists(t) THEN [store EXCEPT ![t] = row] ELSE store
    OBVIOUS
<1>2. /\ row \in Row /\ row.status = s /\ row.stages = store[t].stages
      /\ row.dispatchedAt = store[t].dispatchedAt
    BY DEF Row, Terminal, TaskStatus
<1>3. s # "absent"
    BY DEF Terminal
<1> HIDE DEF row
<1>4. CASE Exists(t)
    <2>1. store'[t] = row /\ \A x \in Tasks : x # t => store'[x] = store[x]
        BY <1>1, <1>4
    <2> QED BY <1>1, <1>2, <1>3, <1>4, <2>1 DEF Known, Exists, RowKept
<1>5. CASE ~Exists(t)
    BY <1>1, <1>5 DEF Known, Exists, RowKept
<1> QED BY <1>4, <1>5

(* One iteration of the event loop for ev writes the row of its task, and  *)
(* only when ev is terminal.                                               *)
LEMMA RowsOfIteration ==
    ASSUME store \in [Tasks -> Row], NEW ev \in Event, LoopIteration(ev)
    PROVE  /\ ev.task \in Tasks
           /\ \A x \in Tasks : x # ev.task => store'[x] = store[x]
           /\ ~IsTerminal(ev) => store' = store
           /\ IsTerminal(ev) /\ Exists(ev.task) => store'[ev.task].status \in Terminal
           /\ \A x \in Tasks : RowKept(x, store')
           /\ \A x \in Tasks : store'[x].status # "absent" => Exists(x)
<1>0. ev.task \in Tasks
    BY DEF Event
<1>1. CASE ~IsTerminal(ev)
    BY <1>0, <1>1 DEF LoopIteration, RowKept, Known, Exists
<1>2. CASE IsTerminal(ev)
    <2> DEFINE t == ev.task
               s == ev.status
               done == store[t].completedAt \/ s \in Terminal
    <2>1. s \in Terminal /\ done \in BOOLEAN
        BY <1>2 DEF IsTerminal
    <2>2. store' = IF Exists(t)
                   THEN [store EXCEPT ![t].status = s, ![t].completedAt = done] ELSE store
        BY <1>2 DEF LoopIteration, SetStatus
    <2> HIDE DEF done, s, t
    <2>3. t \in Tasks
        BY <1>0 DEF t
    <2>4. /\ \A x \in Tasks : x # t => store'[x] = store[x]
          /\ Exists(t) => store'[t].status \in Terminal
          /\ \A x \in Tasks : RowKept(x, store')
        BY <2>1, <2>2, <2>3, RowsOfStatus
    <2>5. \A x \in Tasks : store'[x].status # "absent" => Exists(x)
        BY <2>2, <2>4 DEF Exists
    <2> QED BY <1>0, <1>2, <2>4, <2>5 DEF t
<1> QED BY <1>1, <1>2

-----------------------------------------------------------------------------
(* Counting.                                                               *)

One(b) == IF b THEN 1 ELSE 0

(* Two sets that differ at most in x differ at most by one.                *)
LEMMA CountOne ==
    ASSUME NEW A, NEW B, NEW x, IsFiniteSet(A), A \ {x} = B \ {x}
    PROVE  /\ IsFiniteSet(B)
           /\ Cardinality(A) \in Nat /\ Cardinality(B) \in Nat
           /\ Cardinality(B) = Cardinality(A) + One(x \in B) - One(x \in A)
<1> DEFINE C == A \ {x}
<1>1. IsFiniteSet(C) /\ Cardinality(C) = IF x \in A THEN Cardinality(A) - 1 ELSE Cardinality(A)
    BY FS_RemoveElement
<1>2. Cardinality(A) \in Nat /\ Cardinality(C) \in Nat
    BY <1>1, FS_CardinalityType
<1>3. B = IF x \in B THEN C \cup {x} ELSE C
    OBVIOUS
<1>4. x \notin C
    OBVIOUS
<1> HIDE DEF C
<1>5. IsFiniteSet(C \cup {x}) /\ Cardinality(C \cup {x}) = Cardinality(C) + 1
    BY <1>1, <1>4, FS_AddElement
<1>6. IsFiniteSet(B) /\ Cardinality(B) = IF x \in B THEN Cardinality(C) + 1 ELSE Cardinality(C)
    BY <1>1, <1>3, <1>5
<1> QED BY <1>1, <1>2, <1>6 DEF One

(* The places of f, a family of sequences, that hold a member of S.        *)
Slots(f, D, S) ==
    UNION {{<<m, i>> : i \in {j \in 1..Len(f[m]) : f[m][j] \in S}} : m \in D}

LEMMA SlotMember ==
    ASSUME NEW f, NEW D, NEW S, NEW p
    PROVE  p \in Slots(f, D, S) <=>
              \E m \in D : \E i \in 1..Len(f[m]) : f[m][i] \in S /\ p = <<m, i>>
BY DEF Slots

(* g is f with e appended to the sequence at m, or without its first       *)
(* element, or empty there.                                                *)
AppendedAt(f, g, D, m, e) ==
    /\ Len(f[m]) \in Nat /\ Len(g[m]) = Len(f[m]) + 1 /\ g[m][Len(f[m]) + 1] = e
    /\ \A i \in 1..Len(f[m]) : g[m][i] = f[m][i]
    /\ \A x \in D : x # m => g[x] = f[x]

ReceivedAt(f, g, D, m) ==
    /\ Len(f[m]) \in Nat \ {0} /\ Len(g[m]) = Len(f[m]) - 1
    /\ \A i \in 1..Len(g[m]) : g[m][i] = f[m][i + 1]
    /\ \A x \in D : x # m => g[x] = f[x]

ClearedAt(f, g, D, m) ==
    /\ Len(g[m]) = 0
    /\ \A x \in D : x # m => g[x] = f[x]

LEMMA SeqSteps ==
    ASSUME NEW D, NEW m \in D, NEW E, NEW f \in [D -> Seq(E)], NEW g
    PROVE  /\ \A e \in E : g = [f EXCEPT ![m] = Append(@, e)] => AppendedAt(f, g, D, m, e)
           /\ f[m] # <<>> /\ g = [f EXCEPT ![m] = Tail(@)] => ReceivedAt(f, g, D, m)
           /\ g = [f EXCEPT ![m] = <<>>] => ClearedAt(f, g, D, m)
<1>1. f[m] \in Seq(E)
    OBVIOUS
<1>2. ASSUME NEW e \in E, g = [f EXCEPT ![m] = Append(@, e)] PROVE AppendedAt(f, g, D, m, e)
    <2>1. g[m] = Append(f[m], e) /\ \A x \in D : x # m => g[x] = f[x]
        BY <1>2
    <2>2. /\ Len(f[m]) \in Nat /\ Len(Append(f[m], e)) = Len(f[m]) + 1
          /\ Append(f[m], e)[Len(f[m]) + 1] = e
          /\ \A i \in 1..Len(f[m]) : Append(f[m], e)[i] = f[m][i]
        BY <1>1, SMT
    <2> QED BY <2>1, <2>2 DEF AppendedAt
<1>3. ASSUME f[m] # <<>>, g = [f EXCEPT ![m] = Tail(@)] PROVE ReceivedAt(f, g, D, m)
    <2>1. g[m] = Tail(f[m]) /\ \A x \in D : x # m => g[x] = f[x]
        BY <1>3
    <2>2. /\ Len(f[m]) \in Nat \ {0} /\ Len(Tail(f[m])) = Len(f[m]) - 1
          /\ \A i \in 1..Len(Tail(f[m])) : Tail(f[m])[i] = f[m][i + 1]
        BY <1>1, <1>3, SMT
    <2> QED BY <2>1, <2>2 DEF ReceivedAt
<1>4. ASSUME g = [f EXCEPT ![m] = <<>>] PROVE ClearedAt(f, g, D, m)
    <2>1. g[m] = <<>> /\ \A x \in D : x # m => g[x] = f[x]
        BY <1>4
    <2>2. Len(<<>>) = 0
        BY SMT
    <2> QED BY <2>1, <2>2 DEF ClearedAt
<1> QED BY <1>2, <1>3, <1>4

(* Appending to one of the sequences ...                                   *)
LEMMA SlotsAppend ==
    ASSUME NEW D, NEW S, NEW m \in D, NEW e, NEW f, NEW g,
           IsFiniteSet(Slots(f, D, S)), AppendedAt(f, g, D, m, e)
    PROVE  /\ IsFiniteSet(Slots(g, D, S))
           /\ Cardinality(Slots(g, D, S)) = Cardinality(Slots(f, D, S)) + One(e \in S)
<1>a. \A p : p \in Slots(f, D, S) <=>
                 \E x \in D : \E i \in 1..Len(f[x]) : f[x][i] \in S /\ p = <<x, i>>
    BY DEF Slots
<1>b. \A p : p \in Slots(g, D, S) <=>
                 \E x \in D : \E i \in 1..Len(g[x]) : g[x][i] \in S /\ p = <<x, i>>
    BY DEF Slots
<1> DEFINE n == Len(f[m]) + 1
           q == <<m, n>>
<1>2. /\ Len(g[m]) = n /\ g[m][n] = e /\ n \in Nat
      /\ \A i \in 1..Len(f[m]) : i # n /\ i \in 1..n /\ g[m][i] = f[m][i]
      /\ \A i \in 1..n : i = n \/ i \in 1..Len(f[m])
      /\ n \in 1..n
    BY SMT DEF AppendedAt
<1>3. \A x \in D : x # m => g[x] = f[x]
    BY DEF AppendedAt
<1> HIDE DEF n
<1>4. q \notin Slots(f, D, S) /\ (q \in Slots(g, D, S) <=> e \in S)
    <2>1. \A x, i : q = <<x, i>> => x = m /\ i = n
        OBVIOUS
    <2>2. q \notin Slots(f, D, S)
        BY <1>2, <1>a, <2>1
    <2>3. q \in Slots(g, D, S) <=> n \in 1..Len(g[m]) /\ g[m][n] \in S
        BY <1>b, <2>1
    <2> QED BY <1>2, <1>3, <2>2, <2>3
<1>5. Slots(f, D, S) \ {q} = Slots(g, D, S) \ {q}
    <2>1. ASSUME NEW p \in Slots(f, D, S) PROVE p \in Slots(g, D, S)
        <3> PICK x \in D : \E i \in 1..Len(f[x]) :
                  f[x][i] \in S /\ p = <<x, i>>
            BY <1>a, <1>b
        <3> PICK i \in 1..Len(f[x]) : f[x][i] \in S /\ p = <<x, i>>
            OBVIOUS
        <3>1. i \in 1..Len(g[x]) /\ g[x][i] = f[x][i]
            BY <1>2, <1>3
        <3> QED BY <3>1, <1>a, <1>b
    <2>2. ASSUME NEW p \in Slots(g, D, S), p # q PROVE p \in Slots(f, D, S)
        <3> PICK x \in D : \E i \in 1..Len(g[x]) :
                  g[x][i] \in S /\ p = <<x, i>>
            BY <1>a, <1>b
        <3> PICK i \in 1..Len(g[x]) : g[x][i] \in S /\ p = <<x, i>>
            OBVIOUS
        <3>1. i \in 1..Len(f[x]) /\ g[x][i] = f[x][i]
            BY <1>2, <1>3, <2>2
        <3> QED BY <3>1, <1>a, <1>b
    <2> QED BY <2>1, <2>2
<1> HIDE DEF q
<1>6. /\ IsFiniteSet(Slots(g, D, S)) /\ Cardinality(Slots(f, D, S)) \in Nat
      /\ Cardinality(Slots(g, D, S)) \in Nat
      /\ Cardinality(Slots(g, D, S)) = Cardinality(Slots(f, D, S)) + One(q \in Slots(g, D, S))
                                      - One(q \in Slots(f, D, S))
    BY <1>5, CountOne
<1> QED BY <1>4, <1>6 DEF One

(* ... taking the first element out, so that all others move up ...        *)
LEMMA SlotsTail ==
    ASSUME NEW D, NEW S, NEW m \in D, NEW f, NEW g,
           IsFiniteSet(Slots(f, D, S)), ReceivedAt(f, g, D, m)
    PROVE  /\ IsFiniteSet(Slots(g, D, S))
           /\ Cardinality(Slots(g, D, S)) = Cardinality(Slots(f, D, S)) - One(f[m][1] \in S)
<1>a. \A p : p \in Slots(f, D, S) <=>
                 \E x \in D : \E i \in 1..Len(f[x]) : f[x][i] \in S /\ p = <<x, i>>
    BY DEF Slots
<1>b. \A p : p \in Slots(g, D, S) <=>
                 \E x \in D : \E i \in 1..Len(g[x]) : g[x][i] \in S /\ p = <<x, i>>
    BY DEF Slots
<1> DEFINE q == <<m, 1>>
           A == Slots(f, D, S) \ {q}
           B == Slots(g, D, S)
           shift(p) == IF p[1] = m THEN <<m, p[2] - 1>> ELSE p
           h == [p \in A |-> shift(p)]
<1>1. /\ 1 \in 1..Len(f[m]) /\ Len(f[m]) \in Nat /\ Len(g[m]) \in Nat
      /\ \A i \in 1..Len(g[m]) : i + 1 \in 1..Len(f[m]) /\ g[m][i] = f[m][i + 1]
      /\ \A i \in 1..Len(f[m]) : i # 1 => i - 1 \in 1..Len(g[m]) /\ g[m][i - 1] = f[m][i]
    BY SMT DEF ReceivedAt
<1>2. \A x \in D : x # m => g[x] = f[x]
    BY DEF ReceivedAt
<1>3. ASSUME NEW p \in A PROVE shift(p) \in B
    <2> PICK x \in D : \E i \in 1..Len(f[x]) :
                  f[x][i] \in S /\ p = <<x, i>>
        BY <1>a, <1>b
    <2> PICK i \in 1..Len(f[x]) : f[x][i] \in S /\ p = <<x, i>>
        OBVIOUS
    <2>1. CASE x # m
        <3>1. shift(p) = <<x, i>>
            BY <2>1
        <3> QED BY <1>2, <2>1, <3>1, <1>a, <1>b
    <2>2. CASE x = m
        <3>1. shift(p) = <<m, i - 1>> /\ i # 1
            BY <2>2
        <3>2. i - 1 \in 1..Len(g[m]) /\ g[m][i - 1] = f[m][i]
            BY <1>1, <1>2, <2>2, <3>1
        <3> QED BY <2>2, <3>1, <3>2, <1>a, <1>b
    <2> QED BY <2>1, <2>2
<1>4. ASSUME NEW p \in A, NEW r \in A, shift(p) = shift(r) PROVE p = r
    <2> PICK x \in D : \E i \in 1..Len(f[x]) :
                  p = <<x, i>>
        BY <1>a, <1>b
    <2> PICK i \in 1..Len(f[x]) : p = <<x, i>>
        OBVIOUS
    <2> PICK y \in D : \E j \in 1..Len(f[y]) :
                  r = <<y, j>>
        BY <1>a, <1>b
    <2> PICK j \in 1..Len(f[y]) : r = <<y, j>>
        OBVIOUS
    <2>1. shift(p) = IF x = m THEN <<m, i - 1>> ELSE <<x, i>>
        OBVIOUS
    <2>2. shift(r) = IF y = m THEN <<m, j - 1>> ELSE <<y, j>>
        OBVIOUS
    <2> HIDE DEF shift
    <2> QED BY <1>4, <2>1, <2>2
<1>5. ASSUME NEW b \in B PROVE \E p \in A : shift(p) = b
    <2> PICK x \in D : \E i \in 1..Len(g[x]) :
                  g[x][i] \in S /\ b = <<x, i>>
        BY <1>a, <1>b
    <2> PICK i \in 1..Len(g[x]) : g[x][i] \in S /\ b = <<x, i>>
        OBVIOUS
    <2>1. CASE x # m
        <3>1. <<x, i>> \in A
            BY <1>2, <2>1, <1>a, <1>b
        <3> QED BY <2>1, <3>1
    <2>2. CASE x = m
        <3>1. i + 1 \in 1..Len(f[m]) /\ f[m][i + 1] \in S /\ i \in Nat \ {0}
            BY <1>1, <1>2, <2>2
        <3>2. <<m, i + 1>> \in Slots(f, D, S)
            BY <3>1, <1>a, <1>b
        <3>3. <<m, i + 1>> # <<m, 1>>
            BY <3>1
        <3>4. shift(<<m, i + 1>>) = b
            BY <2>2, <3>1
        <3> QED BY <3>2, <3>3, <3>4
    <2> QED BY <2>1, <2>2
<1>6. ExistsBijection(A, B)
    <2>1. h \in [A -> B]
        BY <1>3
    <2>2. \A p \in A : h[p] = shift(p)
        OBVIOUS
    <2> HIDE DEF h, A, B, shift
    <2>3. h \in Bijection(A, B)
        BY <1>4, <1>5, <2>1, <2>2 DEF Bijection, Injection, Surjection, IsInjective
    <2> QED BY <2>3 DEF ExistsBijection
<1>7. q \in Slots(f, D, S) <=> f[m][1] \in S
    BY <1>1, <1>a, <1>b
<1> HIDE DEF q
<1>8. IsFiniteSet(A) /\ Cardinality(A) = Cardinality(Slots(f, D, S)) - One(q \in Slots(f, D, S))
    <2>1. Cardinality(Slots(f, D, S)) \in Nat
        BY FS_CardinalityType
    <2>2. /\ IsFiniteSet(Slots(f, D, S) \ {q})
          /\ Cardinality(Slots(f, D, S) \ {q}) =
                IF q \in Slots(f, D, S) THEN Cardinality(Slots(f, D, S)) - 1
                                     ELSE Cardinality(Slots(f, D, S))
        BY FS_RemoveElement
    <2> QED BY <2>1, <2>2 DEF One
<1>9. IsFiniteSet(B) /\ Cardinality(B) = Cardinality(A)
    <2> HIDE DEF A, B
    <2> QED BY <1>6, <1>8, FS_Bijection
<1> QED BY <1>7, <1>8, <1>9 DEF One

(* ... and emptying it.                                                    *)
LEMMA SlotsEmpty ==
    ASSUME NEW D, NEW S, NEW m \in D, NEW f, NEW g,
           IsFiniteSet(Slots(f, D, S)), ClearedAt(f, g, D, m)
    PROVE  /\ IsFiniteSet(Slots(g, D, S))
           /\ Cardinality(Slots(g, D, S)) <= Cardinality(Slots(f, D, S))
<1>a. \A p : p \in Slots(f, D, S) <=>
                 \E x \in D : \E i \in 1..Len(f[x]) : f[x][i] \in S /\ p = <<x, i>>
    BY DEF Slots
<1>b. \A p : p \in Slots(g, D, S) <=>
                 \E x \in D : \E i \in 1..Len(g[x]) : g[x][i] \in S /\ p = <<x, i>>
    BY DEF Slots
<1>1. 1..Len(g[m]) = {}
    BY SMT DEF ClearedAt
<1>2. \A x \in D : x # m => g[x] = f[x]
    BY DEF ClearedAt
<1>3. Slots(g, D, S) \in SUBSET Slots(f, D, S)
    <2> SUFFICES ASSUME NEW p \in Slots(g, D, S) PROVE p \in Slots(f, D, S)
        OBVIOUS
    <2> PICK x \in D : \E i \in 1..Len(g[x]) : g[x][i] \in S /\ p = <<x, i>>
        BY <1>b
    <2>1. x # m
        BY <1>1, <1>2
    <2> QED BY <1>2, <1>a, <2>1
<1> QED BY <1>3, FS_Subset

-----------------------------------------------------------------------------
(* One channel: whether it holds a member of S, and not two.               *)

Holds(s, S) == \E i \in 1..Len(s) : s[i] \in S
HoldsOne(s, S) == \A i, j \in 1..Len(s) : s[i] \in S /\ s[j] \in S => i = j

(* r is s after a send of e, or after a receive.                           *)
SentTo(s, r, e) ==
    /\ Len(s) \in Nat /\ Len(r) = Len(s) + 1 /\ r[Len(s) + 1] = e
    /\ \A i \in 1..Len(s) : r[i] = s[i]

ReceivedFrom(s, r) ==
    /\ Len(s) \in Nat \ {0} /\ Len(r) = Len(s) - 1
    /\ \A i \in 1..Len(r) : r[i] = s[i + 1]

LEMMA ChannelSteps ==
    ASSUME NEW E, NEW s \in Seq(E), NEW r
    PROVE  /\ \A e \in E : r = Append(s, e) => r \in Seq(E) /\ SentTo(s, r, e)
           /\ s # <<>> /\ r = Tail(s) => r \in Seq(E) /\ ReceivedFrom(s, r)
           /\ s # <<>> => Head(s) = s[1] /\ s[1] \in E /\ 1 \in 1..Len(s)
           /\ \A i \in 1..Len(s) : s[i] \in E
<1>1. ASSUME NEW e \in E, r = Append(s, e) PROVE r \in Seq(E) /\ SentTo(s, r, e)
    BY <1>1, SMT DEF SentTo
<1>2. ASSUME s # <<>>, r = Tail(s) PROVE r \in Seq(E) /\ ReceivedFrom(s, r)
    BY <1>2, SMT DEF ReceivedFrom
<1>3. /\ s # <<>> => Head(s) = s[1] /\ s[1] \in E /\ 1 \in 1..Len(s)
      /\ \A i \in 1..Len(s) : s[i] \in E
    BY SMT
<1> QED BY <1>1, <1>2, <1>3

LEMMA HoldsSent ==
    ASSUME NEW s, NEW r, NEW e, NEW S, SentTo(s, r, e)
    PROVE  /\ Holds(r, S) <=> Holds(s, S) \/ e \in S
           /\ HoldsOne(s, S) /\ ~(e \in S /\ Holds(s, S)) => HoldsOne(r, S)
<1> DEFINE n == Len(s) + 1
<1>1. /\ Len(r) = n /\ r[n] = e /\ n \in 1..n
      /\ \A i \in 1..Len(s) : i \in 1..n /\ r[i] = s[i]
      /\ \A i \in 1..n : i = n \/ i \in 1..Len(s)
    BY SMT DEF SentTo
<1> HIDE DEF n
<1>2. Holds(r, S) <=> Holds(s, S) \/ e \in S
    BY <1>1 DEF Holds
<1>3. ASSUME HoldsOne(s, S), ~(e \in S /\ Holds(s, S)),
             NEW i \in 1..Len(r), NEW j \in 1..Len(r), r[i] \in S, r[j] \in S
      PROVE  i = j
    <2>1. CASE i = n
        BY <1>1, <1>3, <2>1 DEF Holds
    <2>2. CASE j = n
        BY <1>1, <1>3, <2>2 DEF Holds
    <2>3. CASE i # n /\ j # n
        BY <1>1, <1>3, <2>3 DEF HoldsOne
    <2> QED BY <2>1, <2>2, <2>3
<1> QED BY <1>2, <1>3 DEF HoldsOne

LEMMA HoldsReceived ==
    ASSUME NEW s, NEW r, NEW S, ReceivedFrom(s, r), HoldsOne(s, S)
    PROVE  /\ Holds(r, S) <=> Holds(s, S) /\ s[1] \notin S
           /\ s[1] \in S => Holds(s, S)
           /\ HoldsOne(r, S)
<1>1. /\ 1 \in 1..Len(s)
      /\ \A i \in 1..Len(r) : i + 1 \in 1..Len(s) /\ i + 1 # 1 /\ r[i] = s[i + 1]
      /\ \A i \in 1..Len(s) : i = 1 \/ (i - 1 \in 1..Len(r) /\ r[i - 1] = s[i])
      /\ \A i, j \in 1..Len(r) : i + 1 = j + 1 => i = j
    BY SMT DEF ReceivedFrom
<1>2. s[1] \in S => Holds(s, S)
    BY <1>1 DEF Holds
<1>3. ASSUME Holds(r, S) PROVE Holds(s, S) /\ s[1] \notin S
    <2> PICK i \in 1..Len(r) : r[i] \in S
        BY <1>3 DEF Holds
    <2>1. i + 1 \in 1..Len(s) /\ i + 1 # 1 /\ s[i + 1] \in S
        BY <1>1
    <2> QED BY <1>1, <2>1 DEF Holds, HoldsOne
<1>4. ASSUME Holds(s, S), s[1] \notin S PROVE Holds(r, S)
    <2> PICK i \in 1..Len(s) : s[i] \in S
        BY <1>4 DEF Holds
    <2>1. i - 1 \in 1..Len(r) /\ r[i - 1] \in S
        BY <1>1, <1>4
    <2> QED BY <2>1 DEF Holds
<1>5. HoldsOne(r, S)
    <2> SUFFICES ASSUME NEW i \in 1..Len(r), NEW j \in 1..Len(r), r[i] \in S, r[j] \in S
                 PROVE  i = j
        BY DEF HoldsOne
    <2>1. /\ i + 1 \in 1..Len(s) /\ s[i + 1] \in S
          /\ j + 1 \in 1..Len(s) /\ s[j + 1] \in S
        BY <1>1
    <2>2. i + 1 = j + 1
        BY <2>1 DEF HoldsOne
    <2> QED BY <1>1, <2>2
<1> QED BY <1>2, <1>3, <1>4, <1>5

LEMMA HoldsNothing ==
    ASSUME NEW S
    PROVE  ~Holds(<<>>, S) /\ HoldsOne(<<>>, S)
<1>1. Len(<<>>) = 0 /\ 1..0 = {}
    BY SMT
<1> QED BY <1>1 DEF Holds, HoldsOne
=============================================================================
