-------------------------- MODULE P1ChannelsProofs --------------------------
(***************************************************************************)
(* Theorems about pattern 1 for every number of tasks, users, workers,     *)
(* pages and stages and every capacity of the channels.                    *)
(***************************************************************************)
EXTENDS P1Channels, CoreProofs

-----------------------------------------------------------------------------
(* Facts about the operators the model is built from.                      *)

(* A non-blocking send keeps the elements' type, never exceeds the         *)
(* capacity and changes no element that is already buffered.               *)
LEMMA OfferType ==
    ASSUME NEW S, NEW ch \in Seq(S), NEW ev \in S, NEW cap \in Nat, Len(ch) <= cap
    PROVE  /\ Offer(ch, ev, cap) \in Seq(S)
           /\ Len(Offer(ch, ev, cap)) <= cap
BY SMT DEF Offer

-----------------------------------------------------------------------------
(* Type correctness, one lemma per component.                              *)

LEMMA FanoutTypeInit == FanoutInit => FanoutTypeOK
BY FanoutCapAssumption, SMT DEF FanoutInit, FanoutTypeOK, PumpPc

LEMMA FanoutTypeStep ==
    ASSUME FanoutTypeOK,
           \/ \E ev \in Event : BridgePublish(ev)
           \/ BridgeDelete
           \/ BridgeClose
           \/ PumpReceive
           \/ PumpExit
           \/ HubPublish
           \/ \E c \in Clients : SSEConnect(c) \/ SSEWrite(c) \/ SSEDisconnect(c)
    PROVE  FanoutTypeOK'
<1> USE FanoutCapAssumption DEF FanoutTypeOK
<1>1. CASE \E ev \in Event : BridgePublish(ev)
    <2> PICK ev \in Event : BridgePublish(ev)
        BY <1>1
    <2> DEFINE b == Offer(bus.buf, ev, BusCap)
    <2>1. b \in Seq(Event) /\ Len(b) <= BusCap
        BY OfferType
    <2>2. bus' = [bus EXCEPT !.buf = b] \/ bus' = bus
        BY DEF BridgePublish
    <2> HIDE DEF b
    <2> QED BY <2>1, <2>2 DEF BridgePublish
<1>2. CASE BridgeDelete
    BY <1>2 DEF BridgeDelete
<1>3. CASE BridgeClose
    BY <1>3 DEF BridgeClose
<1>4. CASE PumpReceive
    <2>1. /\ Head(bus.buf) \in Event
          /\ Tail(bus.buf) \in Seq(Event)
          /\ Len(Tail(bus.buf)) <= BusCap
        BY <1>4, HeadTailProperties, LenProperties, SMT DEF PumpReceive
    <2>2. bus' \in [buf : Seq(Event), live : BOOLEAN, closed : BOOLEAN]
          /\ bus'.buf = Tail(bus.buf)
        BY <1>4, <2>1 DEF PumpReceive
    <2>3. /\ pump' \in [pc : PumpPc, ev : Event \cup {NoEvent}]
          /\ pump'.ev \in Event
        BY <1>4, <2>1 DEF PumpReceive, PumpPc
    <2> QED BY <1>4, <2>1, <2>2, <2>3 DEF PumpReceive
<1>5. CASE PumpExit
    BY <1>5 DEF PumpExit, PumpPc
<1>6. CASE HubPublish
    <2>1. pump.ev \in Event
        BY <1>6 DEF HubPublish
    <2>2. \A c \in Clients : /\ Offer(sseCh[c], pump.ev, SubCap) \in Seq(Event)
                             /\ Len(Offer(sseCh[c], pump.ev, SubCap)) <= SubCap
        BY <2>1, OfferType
    <2>3. \A c \in Clients : sseCh'[c] \in Seq(Event) /\ Len(sseCh'[c]) <= SubCap
        BY <1>6, <2>2 DEF HubPublish
    <2>4. sseCh' \in [Clients -> Seq(Event)]
        BY <1>6, <2>3 DEF HubPublish
    <2>5. pump' \in [pc : PumpPc, ev : Event \cup {NoEvent}] /\ pump'.pc = "range"
        BY <1>6 DEF HubPublish, PumpPc
    <2> QED BY <1>6, <2>3, <2>4, <2>5 DEF HubPublish
<1>7. ASSUME NEW c \in Clients, SSEConnect(c)
      PROVE  FanoutTypeOK'
    BY <1>7 DEF SSEConnect
<1>8. ASSUME NEW c \in Clients, SSEWrite(c)
      PROVE  FanoutTypeOK'
    <2>1. /\ Head(sseCh[c]) \in Event
          /\ Tail(sseCh[c]) \in Seq(Event)
          /\ Len(Tail(sseCh[c])) <= SubCap
        BY <1>8, HeadTailProperties, LenProperties, SMT DEF SSEWrite
    <2>2. /\ sseCh' \in [Clients -> Seq(Event)]
          /\ \A d \in Clients : Len(sseCh'[d]) <= SubCap
        BY <1>8, <2>1 DEF SSEWrite
    <2>3. lastSeen' \in [Clients -> [Tasks -> Event \cup {NoEvent}]]
        BY <1>8, <2>1 DEF SSEWrite
    <2> QED BY <1>8, <2>2, <2>3 DEF SSEWrite
<1>9. ASSUME NEW c \in Clients, SSEDisconnect(c)
      PROVE  FanoutTypeOK'
    BY <1>9, SMT DEF SSEDisconnect
<1> QED BY <1>1, <1>2, <1>3, <1>4, <1>5, <1>6, <1>7, <1>8, <1>9

LEMMA TypeInit == Init => TypeOK
<1> SUFFICES ASSUME Init PROVE TypeOK
    OBVIOUS
<1>1. MgrTypeOK
    BY MgrTypeInit DEF Init
<1>2. ExecTypeOK
    BY ExecTypeInit DEF Init
<1>3. FanoutTypeOK
    BY FanoutTypeInit DEF Init
<1>4. /\ tasksCh \in Seq(Tasks) /\ Len(tasksCh) <= QueueSize
      /\ eventsCh \in Seq(Event) /\ Len(eventsCh) <= EventsCap
    BY P1Assumption, SMT DEF Init
<1>5. cancelled \in BOOLEAN
    BY DEF Init
<1> QED BY <1>1, <1>2, <1>3, <1>4, <1>5 DEF TypeOK

(* A worker takes over a task that Submit has recorded, so the number of   *)
(* stages it reads is that of a NewTask: this is where type correctness    *)
(* needs SubmitInv and OnePlace.                                           *)
LEMMA TypeStep == TypeOK /\ CustodyInv /\ [Next]_vars => TypeOK'
<1> SUFFICES ASSUME TypeOK, CustodyInv, [Next]_vars PROVE TypeOK'
    OBVIOUS
<1> USE P1Assumption
<1>a. /\ MgrTypeOK /\ ExecTypeOK /\ FanoutTypeOK
      /\ tasksCh \in Seq(Tasks) /\ Len(tasksCh) <= QueueSize
      /\ eventsCh \in Seq(Event) /\ Len(eventsCh) <= EventsCap
      /\ cancelled \in BOOLEAN
    BY DEF TypeOK
<1>1. ASSUME NEW t \in Tasks, Submit(t) PROVE TypeOK'
    <2>1. \E u \in UserIDs, n \in Int : SubmitCreate(t, u, n)
        BY <1>1 DEF Submit
    <2>2. MgrTypeOK'
        BY <1>a, <2>1, MgrTypeSubmit
    <2> QED BY <1>1, <1>a, <2>2 DEF Submit, TypeOK, ExecTypeOK, FanoutTypeOK, fanoutVars, transVars
<1>2. ASSUME NEW t \in Tasks, Handler(t) PROVE TypeOK'
    <2>0. \/ SubmitDispatched(t) \/ SubmitRefused(t, "ErrDispatchFull")
          \/ SubmitStamp(t) \/ SubmitFail(t)
        BY <1>2 DEF Handler, DispatchOk, DispatchFull, RecordDispatched, RecordRejected
    <2>1. MgrTypeOK'
        BY <1>a, <2>0, MgrTypeSubmit DEF DispatchError
    <2>2. /\ tasksCh' \in Seq(Tasks) /\ Len(tasksCh') <= QueueSize
          /\ eventsCh' = eventsCh /\ cancelled' = cancelled
          /\ run' = run /\ fanoutVars' = fanoutVars
        BY <1>2, <1>a, SMT
        DEF Handler, DispatchOk, DispatchFull, RecordDispatched, RecordRejected, transVars
    <2> QED BY <1>a, <2>1, <2>2 DEF TypeOK, ExecTypeOK, FanoutTypeOK, fanoutVars
<1>3. ASSUME NEW w \in Runs, WorkerReceive(w) PROVE TypeOK'
    <2> DEFINE t == Head(tasksCh)
    <2>1. t \in Tasks /\ t = tasksCh[1] /\ 1 \in 1..Len(tasksCh)
        BY <1>3, <1>a, SMT DEF WorkerReceive
    <2>2. tasksCh' \in Seq(Tasks) /\ Len(tasksCh') <= QueueSize
        BY <1>3, <1>a, SMT DEF WorkerReceive
    <2>3. store[t].stages \in 1..MaxStages
        BY <2>1 DEF CustodyInv, SubmitInv, OnePlace, Queued, InFlight, Exists
    <2>4. ExecTypeOK'
        BY <1>3, <1>a, <2>1, <2>3, ExecTypeStep DEF WorkerReceive
    <2> QED BY <1>3, <1>a, <2>2, <2>4
            DEF WorkerReceive, TypeOK, MgrTypeOK, FanoutTypeOK, mgrVars, fanoutVars
<1>4. ASSUME NEW w \in Runs, Emit(w) PROVE TypeOK'
    <2>1. EmitEvent(w) \in Event
        BY <1>4, <1>a, EmitEventType DEF Emit, EmitDone
    <2>2. eventsCh' \in Seq(Event) /\ Len(eventsCh') <= EventsCap
        BY <1>4, <1>a, <2>1, OfferType DEF Emit
    <2>3. ExecTypeOK'
        BY <1>4, <1>a, ExecTypeStep DEF Emit
    <2> QED BY <1>4, <1>a, <2>2, <2>3
            DEF Emit, TypeOK, MgrTypeOK, FanoutTypeOK, mgrVars, fanoutVars
<1>5. ASSUME NEW w \in Runs, Stage(w) \/ WorkerExit(w) PROVE TypeOK'
    <2>1. ExecTypeOK'
        BY <1>5, <1>a, ExecTypeStep DEF Stage, WorkerExit
    <2> QED BY <1>5, <1>a, <2>1
            DEF Stage, WorkerExit, TypeOK, MgrTypeOK, FanoutTypeOK, mgrVars, fanoutVars, transVars
<1>6. CASE ReceiveEvent
    <2>1. /\ Head(eventsCh) \in Event
          /\ eventsCh' \in Seq(Event) /\ Len(eventsCh') <= EventsCap
        BY <1>6, <1>a, HeadTailProperties, LenProperties, SMT DEF ReceiveEvent
    <2>2. MgrTypeOK'
        BY <1>6, <1>a, <2>1, MgrTypeLoop DEF ReceiveEvent
    <2> QED BY <1>6, <1>a, <2>1, <2>2
            DEF ReceiveEvent, TypeOK, ExecTypeOK, FanoutTypeOK, fanoutVars
<1>7. CASE Enrich \/ Persist \/ EventLoopExit
    <2>1. Persist => LoopPersist /\ IsTerminal(loop.ev)
        BY DEF Persist, LoopPersist, CustodyInv
    <2>2. MgrTypeOK'
        BY <1>7, <1>a, <2>1, MgrTypeLoop DEF Enrich, EventLoopExit
    <2> QED BY <1>7, <1>a, <2>2
            DEF Enrich, Persist, EventLoopExit, TypeOK, ExecTypeOK, FanoutTypeOK, fanoutVars, transVars
<1>8. CASE Publish
    <2>1. loop.ev \in Event
        BY <1>8, <1>a DEF Publish, LoopPublish, MgrTypeOK
    <2>2. MgrTypeOK'
        BY <1>8, <1>a, MgrTypeLoop DEF Publish
    <2>3. FanoutTypeOK'
        BY <1>8, <1>a, <2>1, FanoutTypeStep DEF Publish
    <2> QED BY <1>8, <1>a, <2>2, <2>3 DEF Publish, TypeOK, ExecTypeOK, transVars
<1>9. CASE Cancel
    BY <1>9, <1>a DEF Cancel, TypeOK, MgrTypeOK, ExecTypeOK, FanoutTypeOK, mgrVars, fanoutVars
<1>10. CASE Unsubscribe \/ Pump \/ \E c \in Clients : Client(c)
    <2>1. FanoutTypeOK'
        BY <1>10, <1>a, FanoutTypeStep DEF Unsubscribe, Pump, Client
    <2> QED BY <1>10, <1>a, <2>1
            DEF Unsubscribe, Pump, Client, TypeOK, MgrTypeOK, ExecTypeOK, mgrVars, transVars
<1>11. CASE UNCHANGED vars
    BY <1>11, <1>a DEF vars, TypeOK, MgrTypeOK, ExecTypeOK, FanoutTypeOK
<1> QED BY <1>1, <1>2, <1>3, <1>4, <1>5, <1>6, <1>7, <1>8, <1>9, <1>10, <1>11
        DEF Next, Worker, EventLoop

-----------------------------------------------------------------------------
(* The custody of a task, one lemma per action that moves one.  OnePlace   *)
(* speaks of each task through five predicates, so a lemma only has to say *)
(* how its action changes them.                                            *)

LEMMA CustodyInit == Init => CustodyInv
<1> SUFFICES ASSUME Init PROVE CustodyInv
    OBVIOUS
<1>1. /\ Len(tasksCh) = 0 /\ Len(eventsCh) = 0
      /\ \A t \in Tasks : /\ req[t].pc = "new" /\ req[t].err = "none"
                          /\ store[t].status = "absent"
      /\ \A w \in Runs : ~Busy(w)
      /\ loop.pc = "receive"
    BY SMT DEF Init, MgrInit, ExecInit, NoRow, Idle, Busy, BusyPc, EmitPc
<1>2. SubmitInv
    BY <1>1 DEF SubmitInv, Exists
<1>3. NoDuplicates
    BY <1>1, SMT DEF NoDuplicates
<1>4. \A t \in Tasks : /\ ~InFlight(t) /\ ~Queued(t) /\ ~Executing(t)
                       /\ ~EndInChan(t) /\ ~EndInLoop(t)
    BY <1>1, SMT DEF InFlight, Dispatched, Queued, Executing, EndInChan, EndInLoop
<1> QED BY <1>1, <1>2, <1>3, <1>4 DEF CustodyInv, OnePlace

(* Whoever holds something holds a task of the model.                      *)
LEMMA HeldTasks ==
    ASSUME TypeOK
    PROVE  /\ \A i \in 1..Len(tasksCh) : tasksCh[i] \in Tasks
           /\ \A i \in 1..Len(eventsCh) : eventsCh[i] \in Event
           /\ \A i \in 1..Len(eventsCh) : eventsCh[i].task \in Tasks
           /\ \A w \in Runs : Busy(w) => run[w] \in RunState /\ run[w].task \in Tasks
<1>1. /\ \A i \in 1..Len(tasksCh) : tasksCh[i] \in Tasks
      /\ \A i \in 1..Len(eventsCh) : eventsCh[i] \in Event
    BY ElementOfSeq DEF TypeOK
<1>2. \A ev \in Event : ev.task \in Tasks
    BY DEF Event
<1>3. ASSUME NEW w \in Runs, Busy(w)
      PROVE  run[w] \in RunState
    BY <1>3 DEF TypeOK, ExecTypeOK, Idle, Exited, Busy, BusyPc, EmitPc
<1>4. \A s \in RunState : s.task \in Tasks
    BY DEF RunState
<1> QED BY <1>1, <1>2, <1>3, <1>4

(* Steps that move no task: the five predicates and the three containers   *)
(* stay as they are.                                                       *)
LEMMA CustodyFrame ==
    ASSUME CustodyInv, SubmitInv',
           \A t \in Tasks : InFlight(t)' <=> InFlight(t),
           UNCHANGED <<tasksCh, eventsCh, run, loop>>
    PROVE  CustodyInv'
<1>1. \A t \in Tasks : /\ Queued(t)' <=> Queued(t)
                       /\ Executing(t)' <=> Executing(t)
                       /\ EndInChan(t)' <=> EndInChan(t)
                       /\ EndInLoop(t)' <=> EndInLoop(t)
    BY DEF Queued, Executing, EndInChan, EndInLoop, Busy
<1>2. OnePlace'
    BY <1>1 DEF CustodyInv, OnePlace
<1>3. NoDuplicates'
    BY DEF CustodyInv, NoDuplicates, Busy
<1> QED BY <1>2, <1>3 DEF CustodyInv

(* Submit, DispatchFull, RecordDispatched and RecordRejected: the handler  *)
(* moves on, no task enters or leaves flight.                              *)
LEMMA CustodySubmit ==
    ASSUME TypeOK, CustodyInv, NEW t \in Tasks,
           Submit(t) \/ DispatchFull(t) \/ RecordDispatched(t) \/ RecordRejected(t)
    PROVE  CustodyInv'
<1>0. /\ store \in [Tasks -> Row] /\ req \in [Tasks -> ReqState]
      /\ StageCounts \subseteq Int
    BY P1Assumption DEF TypeOK, MgrTypeOK
<1>1. UNCHANGED <<tasksCh, eventsCh, run, loop>>
    BY DEF Submit, DispatchFull, RecordDispatched, RecordRejected, transVars,
           SubmitCreate, SubmitRefused, SubmitStamp, SubmitFail
<1>2. CASE Submit(t)
    <2> PICK u \in UserIDs, n \in StageCounts : SubmitCreate(t, u, n)
        BY <1>2 DEF Submit
    <2> DEFINE k == SubmitStages(n)
    <2>1. k \in 1..MaxStages
        BY <1>0, StagesClamped
    <2>2. /\ req[t].pc = "new" /\ store[t].status = "absent"
          /\ req' = [req EXCEPT ![t].pc = "dispatch"]
          /\ store' = [store EXCEPT ![t] = [status |-> "pending", user |-> u, stages |-> k,
                                            dispatchedAt |-> FALSE, completedAt |-> FALSE]]
        BY DEF SubmitCreate, Create, Exists
    <2> HIDE DEF k
    <2>3. SubmitInv'
        BY <1>0, <2>1, <2>2 DEF CustodyInv, SubmitInv, Exists, Row, ReqState
    <2>4. \A x \in Tasks : InFlight(x)' <=> InFlight(x)
        BY <1>0, <2>2 DEF InFlight, Dispatched, Row, ReqState
    <2> QED BY <1>1, <2>3, <2>4, CustodyFrame
<1>3. CASE DispatchFull(t)
    <2>1. /\ req[t].pc = "dispatch" /\ store' = store
          /\ req' = [req EXCEPT ![t] = [pc |-> "fail", err |-> "ErrDispatchFull"]]
        BY <1>3 DEF DispatchFull, SubmitRefused
    <2>2. SubmitInv'
        BY <1>0, <2>1 DEF CustodyInv, SubmitInv, Exists, Row, ReqState
    <2>3. \A x \in Tasks : InFlight(x)' <=> InFlight(x)
        BY <1>0, <2>1 DEF InFlight, Dispatched, Row, ReqState
    <2> QED BY <1>1, <2>2, <2>3, CustodyFrame
<1>4. CASE RecordDispatched(t)
    <2>1. /\ req[t].pc = "stamp" /\ req' = [req EXCEPT ![t].pc = "done"]
          /\ store' = [store EXCEPT ![t].dispatchedAt = TRUE] \/ store' = store
        BY <1>4 DEF RecordDispatched, SubmitStamp, SetDispatchedAt
    <2>2. \A x \in Tasks : /\ store'[x].status = store[x].status
                           /\ store'[x].stages = store[x].stages
        BY <1>0, <2>1 DEF Row
    <2>3. SubmitInv'
        BY <1>0, <2>1, <2>2 DEF CustodyInv, SubmitInv, Exists, ReqState
    <2>4. \A x \in Tasks : InFlight(x)' <=> InFlight(x)
        BY <1>0, <2>1, <2>2 DEF InFlight, Dispatched, ReqState, CustodyInv, SubmitInv
    <2> QED BY <1>1, <2>3, <2>4, CustodyFrame
<1>5. CASE RecordRejected(t)
    <2>1. /\ req[t].pc = "fail" /\ req' = [req EXCEPT ![t].pc = "done"]
          /\ store[t].status = "pending" /\ req[t].err # "none"
        BY <1>5 DEF RecordRejected, SubmitFail, CustodyInv, SubmitInv
    <2>2. \A x \in Tasks : /\ store'[x].status = IF x = t THEN "failed" ELSE store[x].status
                           /\ store'[x].stages = store[x].stages
        BY <1>5, <1>0, <2>1 DEF RecordRejected, SubmitFail, SetStatus, Exists, Row
    <2>3. SubmitInv'
        BY <1>0, <2>1, <2>2 DEF CustodyInv, SubmitInv, Exists, ReqState
    <2>4. \A x \in Tasks : InFlight(x)' <=> InFlight(x)
        BY <1>0, <2>1, <2>2 DEF InFlight, Dispatched, ReqState
    <2> QED BY <1>1, <2>3, <2>4, CustodyFrame
<1> QED BY <1>2, <1>3, <1>4, <1>5

(* Dispatch succeeds: t enters flight, and it does so in the queue.        *)
LEMMA CustodyDispatch ==
    ASSUME TypeOK, CustodyInv, NEW t \in Tasks, DispatchOk(t)
    PROVE  CustodyInv'
<1>0. /\ store \in [Tasks -> Row] /\ req \in [Tasks -> ReqState]
      /\ tasksCh \in Seq(Tasks)
    BY DEF TypeOK, MgrTypeOK
<1>1. /\ req[t].pc = "dispatch" /\ req[t].err = "none" /\ store[t].status = "pending"
      /\ req' = [req EXCEPT ![t].pc = "stamp"] /\ store' = store
      /\ UNCHANGED <<eventsCh, run, loop>>
    BY DEF DispatchOk, SubmitDispatched, CustodyInv, SubmitInv
<1>2. /\ Len(tasksCh) \in Nat
      /\ Len(tasksCh') = Len(tasksCh) + 1
      /\ \A i \in 1..Len(tasksCh) : tasksCh'[i] = tasksCh[i]
      /\ tasksCh'[Len(tasksCh) + 1] = t
    BY <1>0, SMT DEF DispatchOk
<1>3. /\ InFlight(t)' /\ ~InFlight(t)
      /\ \A x \in Tasks \ {t} : InFlight(x)' <=> InFlight(x)
    BY <1>0, <1>1 DEF InFlight, Dispatched, ReqState
<1>4. \A x : Queued(x)' <=> Queued(x) \/ x = t
    BY <1>2, SMT DEF Queued
<1>5. SubmitInv'
    BY <1>0, <1>1 DEF CustodyInv, SubmitInv, Exists, ReqState
<1>6. OnePlace'
    <2>1. \A x \in Tasks : /\ Executing(x)' <=> Executing(x)
                           /\ EndInChan(x)' <=> EndInChan(x)
                           /\ EndInLoop(x)' <=> EndInLoop(x)
        BY <1>1 DEF Executing, EndInChan, EndInLoop, Busy
    <2> QED BY <1>3, <1>4, <2>1 DEF CustodyInv, OnePlace
<1>7. NoDuplicates'
    <2>1. ~Queued(t)
        BY <1>3 DEF CustodyInv, OnePlace
    <2>2. \A i, j \in 1..Len(tasksCh') : tasksCh'[i] = tasksCh'[j] => i = j
        BY <1>2, <2>1, SMT DEF Queued, CustodyInv, NoDuplicates
    <2> QED BY <1>1, <2>2 DEF CustodyInv, NoDuplicates, Busy
<1> QED BY <1>1, <1>5, <1>6, <1>7 DEF CustodyInv

(* A worker receives: the task moves from the head of the queue to it.     *)
LEMMA CustodyReceive ==
    ASSUME TypeOK, CustodyInv, NEW w \in Runs, WorkerReceive(w)
    PROVE  CustodyInv'
<1> DEFINE t == Head(tasksCh)
<1>0. tasksCh \in Seq(Tasks) /\ tasksCh # <<>> /\ run \in [Runs -> RunState \cup {Idle, Exited}]
    BY DEF TypeOK, ExecTypeOK, WorkerReceive
<1>1. /\ Len(tasksCh) \in Nat \ {0}
      /\ t = tasksCh[1] /\ t \in Tasks
      /\ Len(tasksCh') = Len(tasksCh) - 1
      /\ \A i \in 1..Len(tasksCh') : tasksCh'[i] = tasksCh[i + 1]
    BY <1>0, SMT DEF WorkerReceive
<1>2. /\ UNCHANGED <<store, req, loop, eventsCh>>
      /\ ~Busy(w) /\ Busy(w)' /\ run'[w].task = t
      /\ \A x \in Runs \ {w} : run'[x] = run[x]
    BY <1>0 DEF WorkerReceive, RunStart, Busy, BusyPc, EmitPc, mgrVars
<1> HIDE DEF t
<1>3. \A i \in 1..Len(tasksCh) : i # 1 => tasksCh[i] # t
    BY <1>1, SMT DEF CustodyInv, NoDuplicates
<1>4. Queued(t) /\ \A x : Queued(x)' <=> Queued(x) /\ x # t
    <2>1. \A i \in 2..Len(tasksCh) : i - 1 \in 1..Len(tasksCh') /\ tasksCh'[i - 1] = tasksCh[i]
        BY <1>1, SMT
    <2>2. Queued(t)
        BY <1>1, SMT DEF Queued
    <2>3. ASSUME NEW x, Queued(x)' PROVE Queued(x) /\ x # t
        <3>1. PICK i \in 1..Len(tasksCh') : tasksCh'[i] = x
            BY <2>3 DEF Queued
        <3>2. i + 1 \in 1..Len(tasksCh) /\ i + 1 # 1 /\ tasksCh[i + 1] = x
            BY <1>1, <3>1, SMT
        <3> QED BY <1>3, <3>2 DEF Queued
    <2>4. ASSUME NEW x, Queued(x), x # t PROVE Queued(x)'
        <3>1. PICK i \in 1..Len(tasksCh) : tasksCh[i] = x
            BY <2>4 DEF Queued
        <3>2. i \in 2..Len(tasksCh)
            BY <1>1, <2>4, <3>1, SMT
        <3> QED BY <2>1, <3>1, <3>2 DEF Queued
    <2> QED BY <2>2, <2>3, <2>4
<1>5. \A x \in Tasks : Executing(x)' <=> Executing(x) \/ x = t
    BY <1>2 DEF Executing, Busy
<1>6. \A x \in Tasks : /\ InFlight(x)' <=> InFlight(x)
                       /\ EndInChan(x)' <=> EndInChan(x)
                       /\ EndInLoop(x)' <=> EndInLoop(x)
    BY <1>2 DEF InFlight, Dispatched, EndInChan, EndInLoop
<1>7. SubmitInv'
    BY <1>2 DEF CustodyInv, SubmitInv, Exists
<1>8. OnePlace'
    BY <1>1, <1>4, <1>5, <1>6 DEF CustodyInv, OnePlace
<1>9. NoDuplicates'
    <2>1. ~Executing(t)
        BY <1>1, <1>4 DEF CustodyInv, OnePlace
    <2>2. \A y, x \in Runs : (Busy(y) /\ Busy(x) /\ run[y].task = run[x].task => y = x)'
        BY <1>2, <2>1 DEF Executing, Busy, CustodyInv, NoDuplicates
    <2>3. \A i, j \in 1..Len(tasksCh') : tasksCh'[i] = tasksCh'[j] => i = j
        BY <1>1, SMT DEF CustodyInv, NoDuplicates
    <2> QED BY <1>2, <2>2, <2>3 DEF CustodyInv, NoDuplicates
<1> QED BY <1>2, <1>7, <1>8, <1>9 DEF CustodyInv

(* Steps of a worker that keep its task: a stage, an event that is not     *)
(* terminal, the exit of an idle worker.                                   *)
LEMMA CustodyKeep ==
    ASSUME TypeOK, CustodyInv, UNCHANGED <<store, req, loop, tasksCh>>,
           \A x \in Runs : /\ Busy(x)' <=> Busy(x)
                           /\ Busy(x) => run'[x].task = run[x].task,
           \/ UNCHANGED eventsCh
           \/ \E ev \in Event : ~IsTerminal(ev) /\ eventsCh' = Offer(eventsCh, ev, EventsCap)
    PROVE  CustodyInv'
<1>1. \A x \in Tasks : /\ InFlight(x)' <=> InFlight(x)
                       /\ Queued(x)' <=> Queued(x)
                       /\ EndInLoop(x)' <=> EndInLoop(x)
    BY DEF InFlight, Dispatched, Queued, EndInLoop
<1>2. \A x \in Tasks : Executing(x)' <=> Executing(x)
    BY DEF Executing
<1>3. \/ eventsCh' = eventsCh
      \/ /\ Len(eventsCh) \in Nat /\ Len(eventsCh') = Len(eventsCh) + 1
         /\ \A i \in 1..Len(eventsCh) : eventsCh'[i] = eventsCh[i]
         /\ ~IsTerminal(eventsCh'[Len(eventsCh) + 1])
    BY SMT DEF TypeOK, Offer
<1>4. \A i \in 1..Len(eventsCh') : IsTerminal(eventsCh'[i]) =>
          i \in 1..Len(eventsCh) /\ eventsCh'[i] = eventsCh[i]
    BY <1>3, SMT
<1>5. \A i \in 1..Len(eventsCh) : i \in 1..Len(eventsCh') /\ eventsCh'[i] = eventsCh[i]
    BY <1>3, SMT
<1>6. \A x \in Tasks : EndInChan(x)' <=> EndInChan(x)
    BY <1>4, <1>5 DEF EndInChan
<1>7. SubmitInv'
    BY DEF CustodyInv, SubmitInv, Exists
<1>8. OnePlace'
    BY <1>1, <1>2, <1>6 DEF CustodyInv, OnePlace
<1>9. NoDuplicates'
    <2>1. \A y, x \in Runs : (Busy(y) /\ Busy(x) /\ run[y].task = run[x].task => y = x)'
        BY DEF CustodyInv, NoDuplicates
    <2>2. \A i, j \in 1..Len(eventsCh') :
              /\ IsTerminal(eventsCh'[i])
              /\ IsTerminal(eventsCh'[j])
              /\ eventsCh'[i].task = eventsCh'[j].task
              => i = j
        BY <1>4 DEF CustodyInv, NoDuplicates
    <2> QED BY <2>1, <2>2 DEF CustodyInv, NoDuplicates, IsTerminal
<1> QED BY <1>7, <1>8, <1>9 DEF CustodyInv, IsTerminal

(* The terminal Emit: the task moves from its worker to the end of the     *)
(* events channel, in one step because the send blocks.                    *)
LEMMA CustodyEmitTerminal ==
    ASSUME TypeOK, CustodyInv, NEW w \in Runs, Emit(w), IsTerminal(EmitEvent(w))
    PROVE  CustodyInv'
<1> DEFINE t == run[w].task
           ev == EmitEvent(w)
<1>0. eventsCh \in Seq(Event) /\ run \in [Runs -> RunState \cup {Idle, Exited}]
    BY DEF TypeOK, ExecTypeOK
<1>a. run[w].pc \in EmitPc /\ Busy(w)
    BY DEF Emit, EmitDone, Busy, BusyPc
<1>1. ev \in Event /\ t \in Tasks
    BY <1>a, EmitEventType, HeldTasks DEF TypeOK
<1>2. ev.task = t /\ run[w].pc \in {"completed", "failed"}
    <2>1. CASE run[w].pc = "start" \/ run[w].pc = "end"
        BY <2>1 DEF EmitEvent, ProgressEvent, IsTerminal
    <2>2. CASE run[w].pc \notin {"start", "end"}
        <3>1. ev = StatusEvent(t, run[w].pc)
            BY <2>2, Zenon DEF EmitEvent
        <3> QED BY <3>1, <1>a DEF StatusEvent, IsTerminal, Terminal
    <2> QED BY <2>1, <2>2
<1>3. /\ UNCHANGED <<store, req, loop, tasksCh>>
      /\ \A x \in Runs \ {w} : run'[x] = run[x]
      /\ ~Busy(w)'
    <2>1. AfterEmit(run[w]) = Idle
        BY <1>2, Zenon DEF AfterEmit
    <2> QED BY <1>0, <2>1 DEF Emit, EmitDone, mgrVars, Busy, BusyPc, EmitPc, Idle
<1>4. /\ Len(eventsCh) \in Nat
      /\ Len(eventsCh') = Len(eventsCh) + 1
      /\ \A i \in 1..Len(eventsCh) : eventsCh'[i] = eventsCh[i]
      /\ eventsCh'[Len(eventsCh) + 1] = ev
    <2>1. eventsCh' = Append(eventsCh, ev)
        BY DEF Emit, Offer
    <2> HIDE DEF ev
    <2> QED BY <1>0, <1>1, <2>1, SMT
<1> HIDE DEF t, ev
<1>5. Executing(t) /\ \A x \in Tasks : Executing(x)' <=> Executing(x) /\ x # t
    <2>1. \A y \in Runs : Busy(y) /\ run[y].task = t => y = w
        BY <1>a DEF CustodyInv, NoDuplicates, t
    <2>2. Executing(t)
        BY <1>a DEF Executing, t
    <2> QED BY <1>3, <2>1, <2>2 DEF Executing, Busy, t
<1>6. \A x : EndInChan(x)' <=> EndInChan(x) \/ x = t
    <2>1. IsTerminal(ev)
        BY DEF ev
    <2> QED BY <1>2, <1>4, <2>1, SMT DEF EndInChan
<1>7. \A x \in Tasks : /\ InFlight(x)' <=> InFlight(x)
                       /\ Queued(x)' <=> Queued(x)
                       /\ EndInLoop(x)' <=> EndInLoop(x)
    BY <1>3 DEF InFlight, Dispatched, Queued, EndInLoop
<1>8. SubmitInv'
    BY <1>3 DEF CustodyInv, SubmitInv, Exists
<1>9. OnePlace'
    BY <1>1, <1>5, <1>6, <1>7 DEF CustodyInv, OnePlace
<1>10. NoDuplicates'
    <2>1. ~EndInChan(t)
        BY <1>1, <1>5 DEF CustodyInv, OnePlace
    <2>2. \A y, x \in Runs : (Busy(y) /\ Busy(x) /\ run[y].task = run[x].task => y = x)'
        BY <1>3 DEF CustodyInv, NoDuplicates, Busy
    <2>3. \A i, j \in 1..Len(eventsCh') :
              /\ IsTerminal(eventsCh'[i])
              /\ IsTerminal(eventsCh'[j])
              /\ eventsCh'[i].task = eventsCh'[j].task
              => i = j
        BY <1>2, <1>4, <2>1, SMT DEF EndInChan, CustodyInv, NoDuplicates
    <2> QED BY <1>3, <2>2, <2>3 DEF CustodyInv, NoDuplicates, IsTerminal
<1> QED BY <1>3, <1>8, <1>9, <1>10 DEF CustodyInv, IsTerminal

(* Every step of a worker.                                                 *)
LEMMA CustodyWorker ==
    ASSUME TypeOK, CustodyInv, NEW w \in Runs, Worker(w)
    PROVE  CustodyInv'
<1>0. run \in [Runs -> RunState \cup {Idle, Exited}]
    BY DEF TypeOK, ExecTypeOK
<1>1. CASE WorkerReceive(w)
    BY <1>1, CustodyReceive
<1>2. CASE Emit(w) /\ IsTerminal(EmitEvent(w))
    BY <1>2, CustodyEmitTerminal
<1>3. CASE Emit(w) /\ ~IsTerminal(EmitEvent(w))
    <2>1. /\ run[w].pc \in EmitPc /\ run' = [run EXCEPT ![w] = AfterEmit(run[w])]
          /\ UNCHANGED <<store, req, loop, tasksCh>>
          /\ eventsCh' = Offer(eventsCh, EmitEvent(w), EventsCap)
        BY <1>3 DEF Emit, EmitDone, mgrVars
    <2>2. EmitEvent(w) \in Event
        BY <2>1, EmitEventType DEF TypeOK
    <2>3. run[w].pc \in {"running", "start", "end"}
        <3>1. CASE run[w].pc \in {"completed", "failed"}
            <4>1. EmitEvent(w) = StatusEvent(run[w].task, run[w].pc)
                BY <3>1, Zenon DEF EmitEvent
            <4> QED BY <1>3, <3>1, <4>1 DEF StatusEvent, IsTerminal, Terminal
        <3> QED BY <2>1, <3>1 DEF EmitPc
    <2>4. Busy(w) /\ run[w] \in RunState
        BY <2>1, HeldTasks DEF Busy, BusyPc
    <2>5. AfterEmit(run[w]).pc \in BusyPc /\ AfterEmit(run[w]).task = run[w].task
        BY <2>3, <2>4, SMT DEF AfterEmit, RunState, BusyPc, EmitPc
    <2>6. \A x \in Runs : (Busy(x)' <=> Busy(x)) /\ (Busy(x) => run'[x].task = run[x].task)
        BY <1>0, <2>1, <2>4, <2>5 DEF Busy
    <2> QED BY <1>3, <2>1, <2>2, <2>6, CustodyKeep
<1>4. CASE Stage(w) \/ WorkerExit(w)
    <2>1. UNCHANGED <<store, req, loop, tasksCh, eventsCh>>
        BY <1>4 DEF Stage, WorkerExit, mgrVars, transVars
    <2>2. \A x \in Runs : (Busy(x)' <=> Busy(x)) /\ (Busy(x) => run'[x].task = run[x].task)
        <3>1. CASE Stage(w)
            <4>1. run[w].pc = "sleep" /\ Busy(w) /\ run[w] \in RunState
                BY <3>1, HeldTasks DEF Stage, StageSleep, StageCancelled, Busy, BusyPc
            <4>2. \/ run' = [run EXCEPT ![w].pc = "end"]
                  \/ run' = [run EXCEPT ![w].pc = "failed"]
                BY <3>1 DEF Stage, StageSleep, StageCancelled
            <4> QED BY <1>0, <4>1, <4>2 DEF Busy, BusyPc, EmitPc, RunState
        <3>2. CASE WorkerExit(w)
            BY <1>0, <3>2 DEF WorkerExit, RunExit, Exited, Busy, BusyPc, EmitPc
        <3> QED BY <1>4, <3>1, <3>2
    <2> QED BY <2>1, <2>2, CustodyKeep
<1> QED BY <1>1, <1>2, <1>3, <1>4 DEF Worker

(* runEventLoop receives: a terminal event moves from the head of the      *)
(* events channel to the loop.                                             *)
LEMMA CustodyReceiveEvent ==
    ASSUME TypeOK, CustodyInv, ReceiveEvent
    PROVE  CustodyInv'
<1> DEFINE ev == Head(eventsCh)
<1>0. eventsCh \in Seq(Event) /\ eventsCh # <<>>
    BY DEF TypeOK, ReceiveEvent
<1>1. /\ Len(eventsCh) \in Nat \ {0}
      /\ ev = eventsCh[1] /\ ev \in Event
      /\ Len(eventsCh') = Len(eventsCh) - 1
      /\ \A i \in 1..Len(eventsCh') : eventsCh'[i] = eventsCh[i + 1]
    BY <1>0, SMT DEF ReceiveEvent
<1>2. /\ UNCHANGED <<store, req, run, tasksCh>>
      /\ loop.pc = "receive" /\ loop'.pc = "enrich" /\ loop'.ev = ev
    BY DEF ReceiveEvent, LoopReceive
<1> HIDE DEF ev
<1>3. \A x \in Tasks : /\ InFlight(x)' <=> InFlight(x)
                       /\ Queued(x)' <=> Queued(x)
                       /\ Executing(x)' <=> Executing(x)
    BY <1>2 DEF InFlight, Dispatched, Queued, Executing, Busy
<1>4. \A x \in Tasks : /\ ~EndInLoop(x)
                       /\ EndInLoop(x)' <=> IsTerminal(ev) /\ ev.task = x
    BY <1>2 DEF EndInLoop, IsTerminal
<1>5. \A i \in 2..Len(eventsCh) : i - 1 \in 1..Len(eventsCh') /\ eventsCh'[i - 1] = eventsCh[i]
    BY <1>1, SMT
<1>6. \A i \in 1..Len(eventsCh') : i + 1 \in 2..Len(eventsCh) /\ i + 1 \in 1..Len(eventsCh)
    BY <1>1, SMT
<1>7. \A i \in 2..Len(eventsCh) :
          IsTerminal(ev) /\ IsTerminal(eventsCh[i]) => eventsCh[i].task # ev.task
    BY <1>1, SMT DEF CustodyInv, NoDuplicates
<1>8. \A x \in Tasks : EndInChan(x) <=> EndInChan(x)' \/ EndInLoop(x)'
    <2>1. ASSUME NEW x \in Tasks, EndInChan(x)' PROVE EndInChan(x)
        <3>1. PICK i \in 1..Len(eventsCh') : IsTerminal(eventsCh'[i]) /\ eventsCh'[i].task = x
            BY <2>1 DEF EndInChan, IsTerminal
        <3>2. IsTerminal(eventsCh[i + 1]) /\ eventsCh[i + 1].task = x
            BY <1>1, <3>1
        <3> QED BY <1>6, <3>2 DEF EndInChan
    <2>2. ASSUME NEW x \in Tasks, EndInLoop(x)' PROVE EndInChan(x)
        <3>1. 1 \in 1..Len(eventsCh)
            BY <1>1, SMT
        <3> QED BY <1>1, <1>4, <2>2, <3>1 DEF EndInChan
    <2>3. ASSUME NEW x \in Tasks, EndInChan(x) PROVE EndInChan(x)' \/ EndInLoop(x)'
        <3>1. PICK i \in 1..Len(eventsCh) : IsTerminal(eventsCh[i]) /\ eventsCh[i].task = x
            BY <2>3 DEF EndInChan
        <3>2. CASE i = 1
            BY <1>1, <1>4, <3>1, <3>2
        <3>3. CASE i # 1
            <4>1. i \in 2..Len(eventsCh)
                BY <1>1, <3>1, <3>3, SMT
            <4> QED BY <1>5, <3>1, <4>1 DEF EndInChan, IsTerminal
        <3> QED BY <3>2, <3>3
    <2> QED BY <2>1, <2>2, <2>3
<1>9. \A x \in Tasks : ~(EndInChan(x)' /\ EndInLoop(x)')
    <2> SUFFICES ASSUME NEW x \in Tasks, EndInChan(x)', EndInLoop(x)' PROVE FALSE
        OBVIOUS
    <2>1. PICK i \in 1..Len(eventsCh') : IsTerminal(eventsCh'[i]) /\ eventsCh'[i].task = x
        BY DEF EndInChan, IsTerminal
    <2>2. IsTerminal(eventsCh[i + 1]) /\ eventsCh[i + 1].task = x
        BY <1>1, <2>1
    <2> QED BY <1>4, <1>6, <1>7, <2>2
<1>10. SubmitInv'
    BY <1>2 DEF CustodyInv, SubmitInv, Exists
<1>11. OnePlace'
    BY <1>3, <1>4, <1>8, <1>9 DEF CustodyInv, OnePlace
<1>12. NoDuplicates'
    <2>1. \A i, j \in 1..Len(eventsCh') :
              /\ IsTerminal(eventsCh'[i])
              /\ IsTerminal(eventsCh'[j])
              /\ eventsCh'[i].task = eventsCh'[j].task
              => i = j
        <3> SUFFICES ASSUME NEW i \in 1..Len(eventsCh'), NEW j \in 1..Len(eventsCh'),
                            IsTerminal(eventsCh[i + 1]), IsTerminal(eventsCh[j + 1]),
                            eventsCh[i + 1].task = eventsCh[j + 1].task
                     PROVE  i = j
            BY <1>1
        <3>1. i + 1 = j + 1
            BY <1>6 DEF CustodyInv, NoDuplicates
        <3> QED BY <3>1, SMT
    <2> QED BY <1>2, <2>1 DEF CustodyInv, NoDuplicates, IsTerminal, Busy
<1> QED BY <1>2, <1>10, <1>11, <1>12 DEF CustodyInv

(* runEventLoop persists: the ending reaches the store and t leaves        *)
(* flight.                                                                 *)
LEMMA CustodyPersist ==
    ASSUME TypeOK, CustodyInv, Persist
    PROVE  CustodyInv'
<1> DEFINE t == loop.ev.task
<1>0. store \in [Tasks -> Row] /\ loop \in [pc : LoopPc, ev : Event \cup {NoEvent}]
    BY DEF TypeOK, MgrTypeOK
<1>1. loop.pc = "persist" /\ IsTerminal(loop.ev) /\ loop.ev \in Event
    BY DEF Persist, LoopPersist, CustodyInv, TypeOK, MgrTypeOK
<1>2. t \in Tasks /\ loop.ev.status \in Terminal
    BY <1>1 DEF Event, IsTerminal
<1>3. EndInLoop(t) /\ \A x \in Tasks : EndInLoop(x) => x = t
    BY <1>1 DEF EndInLoop
<1>4. InFlight(t) /\ store[t].status = "pending"
    BY <1>2, <1>3 DEF CustodyInv, OnePlace, InFlight
<1>5. /\ UNCHANGED <<req, run, tasksCh, eventsCh>>
      /\ loop'.pc = "publish" /\ loop'.ev = loop.ev
    BY <1>0 DEF Persist, LoopPersist, transVars
<1>6. \A x \in Tasks :
          /\ store'[x].status = IF x = t THEN loop.ev.status ELSE store[x].status
          /\ store'[x].stages = store[x].stages
    BY <1>0, <1>2, <1>4 DEF Persist, LoopPersist, SetStatus, Exists, Row
<1>7. \A x \in Tasks : InFlight(x)' <=> InFlight(x) /\ x # t
    BY <1>2, <1>5, <1>6 DEF InFlight, Dispatched, Terminal
<1>8. \A x \in Tasks : ~EndInLoop(x)'
    BY <1>5 DEF EndInLoop
<1>9. \A x \in Tasks : /\ Queued(x)' <=> Queued(x)
                       /\ Executing(x)' <=> Executing(x)
                       /\ EndInChan(x)' <=> EndInChan(x)
    BY <1>5 DEF Queued, Executing, EndInChan, Busy
<1>10. SubmitInv'
    BY <1>2, <1>4, <1>5, <1>6 DEF CustodyInv, SubmitInv, Exists, InFlight, Dispatched, Terminal
<1>11. OnePlace'
    BY <1>2, <1>3, <1>7, <1>8, <1>9 DEF CustodyInv, OnePlace
<1>12. NoDuplicates'
    BY <1>5 DEF CustodyInv, NoDuplicates, Busy
<1> QED BY <1>5, <1>10, <1>11, <1>12 DEF CustodyInv

(* The other steps of runEventLoop move no task.                           *)
LEMMA CustodyLoop ==
    ASSUME TypeOK, CustodyInv, Enrich \/ Publish \/ EventLoopExit
    PROVE  CustodyInv'
<1>0. loop \in [pc : LoopPc, ev : Event \cup {NoEvent}]
    BY DEF TypeOK, MgrTypeOK
<1>1. UNCHANGED <<store, req, run, tasksCh, eventsCh>>
    BY DEF Enrich, Publish, EventLoopExit, LoopEnrich, LoopPublish, LoopExit, transVars
<1>2. (\A x \in Tasks : EndInLoop(x)' <=> EndInLoop(x)) /\ (loop.pc = "persist" => IsTerminal(loop.ev))'
    <2>1. CASE Enrich
        <3>1. loop.pc = "enrich" /\ loop.ev \in Event
            BY <2>1 DEF Enrich, LoopEnrich, TypeOK, MgrTypeOK
        <3>2. /\ loop'.pc = IF IsTerminal(loop.ev) THEN "persist" ELSE "publish"
              /\ loop'.ev = Enriched(loop.ev)
            BY <2>1 DEF Enrich, LoopEnrich
        <3>3. /\ loop'.ev.task = loop.ev.task
              /\ loop'.ev.status = loop.ev.status
              /\ loop'.ev.type = loop.ev.type
            BY <3>1, <3>2, EnrichedType DEF TypeOK
        <3> QED BY <3>1, <3>2, <3>3 DEF EndInLoop, IsTerminal
    <2>2. CASE Publish
        BY <2>2 DEF Publish, LoopPublish, EndInLoop
    <2>3. CASE EventLoopExit
        BY <1>0, <2>3 DEF EventLoopExit, LoopExit, EndInLoop
    <2> QED BY <2>1, <2>2, <2>3
<1>3. \A x \in Tasks : /\ InFlight(x)' <=> InFlight(x)
                       /\ Queued(x)' <=> Queued(x)
                       /\ Executing(x)' <=> Executing(x)
                       /\ EndInChan(x)' <=> EndInChan(x)
    BY <1>1 DEF InFlight, Dispatched, Queued, Executing, EndInChan, Busy
<1>4. SubmitInv'
    BY <1>1 DEF CustodyInv, SubmitInv, Exists
<1>5. OnePlace'
    BY <1>2, <1>3 DEF CustodyInv, OnePlace
<1>6. NoDuplicates'
    BY <1>1 DEF CustodyInv, NoDuplicates, Busy
<1> QED BY <1>2, <1>4, <1>5, <1>6 DEF CustodyInv

(* Every step of the system keeps the custody of every task.               *)
LEMMA CustodyStep == TypeOK /\ CustodyInv /\ [Next]_vars => CustodyInv'
<1> SUFFICES ASSUME TypeOK, CustodyInv, [Next]_vars PROVE CustodyInv'
    OBVIOUS
<1>1. ASSUME NEW t \in Tasks, Submit(t) \/ Handler(t) PROVE CustodyInv'
    BY <1>1, CustodySubmit, CustodyDispatch DEF Handler
<1>2. ASSUME NEW w \in Runs, Worker(w) PROVE CustodyInv'
    BY <1>2, CustodyWorker
<1>3. CASE EventLoop
    BY <1>3, CustodyReceiveEvent, CustodyPersist, CustodyLoop DEF EventLoop
<1>4. CASE Cancel \/ Unsubscribe \/ Pump \/ (\E c \in Clients : Client(c)) \/ UNCHANGED vars
    <2>1. UNCHANGED <<store, req, loop, run, tasksCh, eventsCh>>
        BY <1>4 DEF Cancel, Unsubscribe, Pump, Client, vars, mgrVars, transVars
    <2>2. SubmitInv'
        BY <2>1 DEF CustodyInv, SubmitInv, Exists
    <2>3. \A t \in Tasks : InFlight(t)' <=> InFlight(t)
        BY <2>1 DEF InFlight, Dispatched
    <2> QED BY <2>1, <2>2, <2>3, CustodyFrame
<1> QED BY <1>1, <1>2, <1>3, <1>4 DEF Next

-----------------------------------------------------------------------------
(* The theorems.                                                           *)

(* The inductive invariant holds in every reachable state.                 *)
THEOREM Inductive == Spec => [](TypeOK /\ CustodyInv)
<1>1. Init => TypeOK /\ CustodyInv
    BY TypeInit, CustodyInit
<1>2. TypeOK /\ CustodyInv /\ [Next]_vars => (TypeOK /\ CustodyInv)'
    BY TypeStep, CustodyStep
<1> QED BY <1>1, <1>2, PTL DEF Spec

(* The type invariant: every channel stays within its capacity and every   *)
(* goroutine's state within the steps of its code.                         *)
THEOREM TypeCorrect == Spec => []TypeOK
BY Inductive, PTL

(* The inductive invariant in the terms of the run: no recorded task is    *)
(* ever without a holder or has two.                                       *)
LEMMA CustodyFromInv == TypeOK /\ CustodyInv => Custody
<1> SUFFICES ASSUME TypeOK, CustodyInv, NEW t \in Tasks, Exists(t)
             PROVE  \E p \in Holders(t) : Holders(t) = {p}
    BY DEF Custody
<1> DEFINE A == {<<"submit", x>> : x \in {y \in {t} : req[y].pc \in {"dispatch", "fail"}}}
           B == {<<"queue", i>> : i \in {j \in 1..Len(tasksCh) : tasksCh[j] = t}}
           C == {<<"worker", w>> : w \in {x \in Runs : Busy(x) /\ run[x].task = t}}
           D == {<<"event", i>> : i \in {j \in 1..Len(eventsCh) :
                                    IsTerminal(eventsCh[j]) /\ eventsCh[j].task = t}}
           E == {<<"loop", x>> : x \in {y \in {t} : /\ loop.pc \in {"enrich", "persist"}
                                                    /\ IsTerminal(loop.ev)
                                                    /\ loop.ev.task = y}}
           F == {<<"store", x>> : x \in {y \in {t} : Ended(y)}}
<1>0. Holders(t) = A \cup B \cup C \cup D \cup E \cup F
    BY DEF Holders
<1>1. /\ req[t].pc \in {"dispatch", "fail"} => A = {<<"submit", t>>}
      /\ req[t].pc \notin {"dispatch", "fail"} => A = {}
    OBVIOUS
<1>2. (Queued(t) => \E p : B = {p}) /\ (~Queued(t) => B = {})
    <2>1. ASSUME Queued(t) PROVE \E p : B = {p}
        <3>1. PICK k \in 1..Len(tasksCh) : tasksCh[k] = t
            BY <2>1 DEF Queued
        <3>2. {x \in 1..Len(tasksCh) : tasksCh[x] = t} = {k}
            BY <3>1 DEF CustodyInv, NoDuplicates
        <3>3. B = {<<"queue", x>> : x \in {k}}
            BY <3>2
        <3> QED BY <3>3
    <2>2. ASSUME ~Queued(t) PROVE B = {}
        BY <2>2 DEF Queued
    <2> QED BY <2>1, <2>2
<1>3. (Executing(t) => \E p : C = {p}) /\ (~Executing(t) => C = {})
    <2>1. ASSUME Executing(t) PROVE \E p : C = {p}
        <3>1. PICK k \in Runs : Busy(k) /\ run[k].task = t
            BY <2>1 DEF Executing
        <3>2. {x \in Runs : Busy(x) /\ run[x].task = t} = {k}
            BY <3>1 DEF CustodyInv, NoDuplicates
        <3>3. C = {<<"worker", x>> : x \in {k}}
            BY <3>2
        <3> QED BY <3>3
    <2>2. ASSUME ~Executing(t) PROVE C = {}
        BY <2>2 DEF Executing
    <2> QED BY <2>1, <2>2
<1>4. (EndInChan(t) => \E p : D = {p}) /\ (~EndInChan(t) => D = {})
    <2>1. ASSUME EndInChan(t) PROVE \E p : D = {p}
        <3>1. PICK k \in 1..Len(eventsCh) : IsTerminal(eventsCh[k]) /\ eventsCh[k].task = t
            BY <2>1 DEF EndInChan
        <3>2. {x \in 1..Len(eventsCh) : IsTerminal(eventsCh[x]) /\ eventsCh[x].task = t} = {k}
            BY <3>1 DEF CustodyInv, NoDuplicates
        <3>3. D = {<<"event", x>> : x \in {k}}
            BY <3>2
        <3> QED BY <3>3
    <2>2. ASSUME ~EndInChan(t) PROVE D = {}
        BY <2>2 DEF EndInChan
    <2> QED BY <2>1, <2>2
<1>5. (EndInLoop(t) => E = {<<"loop", t>>}) /\ (~EndInLoop(t) => E = {})
    BY DEF EndInLoop
<1>6. (Ended(t) => F = {<<"store", t>>}) /\ (~Ended(t) => F = {})
    OBVIOUS
<1>7. /\ req[t].pc \in {"dispatch", "fail"} => ~InFlight(t) /\ ~Ended(t)
      /\ InFlight(t) => ~Ended(t)
      /\ req[t].pc \in {"dispatch", "fail"} \/ InFlight(t) \/ Ended(t)
    <2>1. req[t] \in ReqState /\ store[t] \in Row
        BY DEF TypeOK, MgrTypeOK
    <2>2. store[t].status \in {"pending", "completed", "failed"}
        BY <2>1 DEF CustodyInv, SubmitInv, Exists, Row, TaskStatus
    <2> QED BY <2>1, <2>2
            DEF CustodyInv, SubmitInv, InFlight, Dispatched, Ended, Terminal, ReqState, Exists
<1>8. /\ InFlight(t) <=> Queued(t) \/ Executing(t) \/ EndInChan(t) \/ EndInLoop(t)
      /\ ~(Queued(t) /\ Executing(t))
      /\ ~((Queued(t) \/ Executing(t)) /\ (EndInChan(t) \/ EndInLoop(t)))
      /\ ~(EndInChan(t) /\ EndInLoop(t))
    BY DEF CustodyInv, OnePlace
<1> HIDE DEF A, B, C, D, E, F
<1>9. \E p : A \cup B \cup C \cup D \cup E \cup F = {p}
    <2>1. CASE req[t].pc \in {"dispatch", "fail"}
        BY <2>1, <1>1, <1>2, <1>3, <1>4, <1>5, <1>6, <1>7, <1>8
    <2>2. CASE Ended(t)
        BY <2>2, <1>1, <1>2, <1>3, <1>4, <1>5, <1>6, <1>7, <1>8
    <2>3. CASE InFlight(t)
        <3>1. A = {} /\ F = {}
            BY <2>3, <1>1, <1>6, <1>7
        <3>2. CASE Queued(t)
            BY <3>1, <3>2, <1>2, <1>3, <1>4, <1>5, <1>8
        <3>3. CASE Executing(t)
            BY <3>1, <3>3, <1>2, <1>3, <1>4, <1>5, <1>8
        <3>4. CASE EndInChan(t)
            BY <3>1, <3>4, <1>2, <1>3, <1>4, <1>5, <1>8
        <3>5. CASE EndInLoop(t)
            BY <3>1, <3>5, <1>2, <1>3, <1>4, <1>5, <1>8
        <3> QED BY <2>3, <1>8, <3>2, <3>3, <3>4, <3>5
    <2> QED BY <1>7, <2>1, <2>2, <2>3
<1> QED BY <1>0, <1>9

(* No task is lost and none is doubled, for any number of tasks and        *)
(* workers, any buffer sizes and any moment of cancellation.               *)
THEOREM CustodyCorrect == Spec => []Custody
BY Inductive, CustodyFromInv, PTL

(* One step never changes a terminal status: the writers of the store hold *)
(* tasks that have not ended.                                              *)
LEMMA EndedOnceStep ==
    TypeOK /\ CustodyInv /\ [Next]_vars
        => \A t \in Tasks : Ended(t) => store'[t].status = store[t].status
<1> SUFFICES ASSUME TypeOK, CustodyInv, [Next]_vars, NEW t \in Tasks, Ended(t)
             PROVE  store'[t].status = store[t].status
    OBVIOUS
<1>0. store \in [Tasks -> Row] /\ req \in [Tasks -> ReqState]
    BY DEF TypeOK, MgrTypeOK
<1>1. ASSUME NEW x \in Tasks, Submit(x) PROVE store'[t].status = store[t].status
    <2>1. x # t
        BY <1>1 DEF Submit, SubmitCreate, Create, Exists, Ended, Terminal
    <2> QED BY <1>0, <1>1, <2>1 DEF Submit, SubmitCreate, Create
<1>2. ASSUME NEW x \in Tasks, RecordRejected(x) PROVE store'[t].status = store[t].status
    <2>1. x # t
        BY <1>2 DEF RecordRejected, SubmitFail, CustodyInv, SubmitInv, Ended, Terminal
    <2> QED BY <1>0, <1>2, <2>1 DEF RecordRejected, SubmitFail, SetStatus
<1>3. ASSUME NEW x \in Tasks, RecordDispatched(x) PROVE store'[t].status = store[t].status
    BY <1>0, <1>3 DEF RecordDispatched, SubmitStamp, SetDispatchedAt, Row
<1>4. CASE Persist
    <2>1. loop.pc = "persist" /\ IsTerminal(loop.ev) /\ loop.ev.task \in Tasks
        BY <1>4 DEF Persist, LoopPersist, CustodyInv, TypeOK, MgrTypeOK, Event
    <2>2. EndInLoop(loop.ev.task)
        BY <2>1 DEF EndInLoop
    <2>3. loop.ev.task # t
        BY <2>1, <2>2 DEF CustodyInv, OnePlace, InFlight, Ended, Terminal
    <2> QED BY <1>0, <1>4, <2>3 DEF Persist, LoopPersist, SetStatus
<1>5. CASE \/ \E x \in Tasks : DispatchOk(x) \/ DispatchFull(x)
           \/ \E w \in Runs : Worker(w)
           \/ ReceiveEvent \/ Enrich \/ Publish \/ EventLoopExit
           \/ Cancel \/ Unsubscribe \/ Pump \/ (\E c \in Clients : Client(c))
           \/ UNCHANGED vars
    <2>1. store' = store
        BY <1>5 DEF DispatchOk, DispatchFull, SubmitDispatched, SubmitRefused,
                    Worker, WorkerReceive, Emit, Stage, WorkerExit,
                    ReceiveEvent, Enrich, Publish, EventLoopExit,
                    LoopReceive, LoopEnrich, LoopPublish, LoopExit,
                    Cancel, Unsubscribe, Pump, Client, mgrVars, vars
    <2> QED BY <2>1
<1> QED BY <1>1, <1>2, <1>3, <1>4, <1>5 DEF Next, Handler, EventLoop

(* An ending is written once.                                              *)
THEOREM EndedOnceCorrect == Spec => EndedOnce
<1>1. TypeOK /\ CustodyInv /\ [Next]_vars
         => [\A t \in Tasks : Ended(t) => store'[t].status = store[t].status]_vars
    BY EndedOnceStep
<1> QED BY <1>1, Inductive, PTL DEF Spec, EndedOnce

(* What a channel holds after a non-blocking send and after a receive.     *)
LEMMA OfferElements ==
    ASSUME NEW S, NEW ch \in Seq(S), NEW ev \in S, NEW cap,
           NEW i \in 1..Len(Offer(ch, ev, cap))
    PROVE  \/ Offer(ch, ev, cap)[i] = ev
           \/ i \in 1..Len(ch) /\ Offer(ch, ev, cap)[i] = ch[i]
BY SMT DEF Offer

(* ToldIsStored along a step: a terminal event that agrees keeps agreeing, *)
(* because endings are written once; the buffers hand on what agrees; and  *)
(* the only step that lets a new terminal event out has just persisted it. *)
LEMMA ToldStep ==
    TypeOK /\ CustodyInv /\ ToldIsStored /\ [Next]_vars => ToldIsStored'
<1> SUFFICES ASSUME TypeOK, CustodyInv, ToldIsStored, [Next]_vars PROVE ToldIsStored'
    OBVIOUS
<1> DEFINE OK(ev) == IsTerminal(ev) => store'[ev.task].status = ev.status
<1>0. /\ bus \in [buf : Seq(Event), live : BOOLEAN, closed : BOOLEAN]
      /\ sseCh \in [Clients -> Seq(Event)]
      /\ lastSeen \in [Clients -> [Tasks -> Event \cup {NoEvent}]]
      /\ loop \in [pc : LoopPc, ev : Event \cup {NoEvent}]
      /\ pump \in [pc : PumpPc, ev : Event \cup {NoEvent}]
      /\ loop.pc \in {"enrich", "persist", "publish"} => loop.ev \in Event
      /\ pump.pc = "publish" => pump.ev \in Event
    BY DEF TypeOK, FanoutTypeOK, MgrTypeOK
<1>1. \A ev \in Event : Agrees(ev) => OK(ev)
    <2> SUFFICES ASSUME NEW ev \in Event, Agrees(ev), IsTerminal(ev)
                 PROVE  store'[ev.task].status = ev.status
        OBVIOUS
    <2>1. ev.task \in Tasks /\ Ended(ev.task)
        BY DEF Event, Agrees, IsTerminal, Ended
    <2> QED BY <2>1, EndedOnceStep DEF Agrees
<1>2. /\ \A i \in 1..Len(bus.buf) : bus.buf[i] \in Event /\ OK(bus.buf[i])
      /\ \A c \in Clients : \A i \in 1..Len(sseCh[c]) : sseCh[c][i] \in Event /\ OK(sseCh[c][i])
      /\ \A c \in Clients, t \in Tasks : lastSeen[c][t] # NoEvent => OK(lastSeen[c][t])
      /\ pump.pc = "publish" => OK(pump.ev)
      /\ loop.pc = "publish" => OK(loop.ev)
    <2>1. \A i \in 1..Len(bus.buf) : bus.buf[i] \in Event
        BY <1>0, ElementOfSeq
    <2>2. \A c \in Clients : \A i \in 1..Len(sseCh[c]) : sseCh[c][i] \in Event
        BY <1>0, ElementOfSeq
    <2>3. \A c \in Clients, t \in Tasks : lastSeen[c][t] # NoEvent => lastSeen[c][t] \in Event
        BY <1>0
    <2> QED BY <1>0, <1>1, <2>1, <2>2, <2>3 DEF ToldIsStored
<1>3. SUFFICES /\ loop'.pc = "publish" => OK(loop'.ev)
               /\ \A i \in 1..Len(bus'.buf) : OK(bus'.buf[i])
               /\ pump'.pc = "publish" => OK(pump'.ev)
               /\ \A c \in Clients : \A i \in 1..Len(sseCh'[c]) : OK(sseCh'[c][i])
               /\ \A c \in Clients, t \in Tasks : lastSeen'[c][t] # NoEvent => OK(lastSeen'[c][t])
    BY DEF ToldIsStored, Agrees, IsTerminal, NoEvent
<1> HIDE DEF OK
<1>4. CASE UNCHANGED fanoutVars /\ (loop'.pc = "publish" => OK(loop'.ev))
    BY <1>2, <1>4 DEF fanoutVars
<1>5. CASE Publish
    <2>1. loop.pc = "publish" /\ loop'.pc = "receive" /\ loop.ev \in Event /\ OK(loop.ev)
        BY <1>5, <1>0, <1>2 DEF Publish, LoopPublish
    <2>2. bus'.buf = bus.buf \/ bus'.buf = Offer(bus.buf, loop.ev, BusCap)
        BY <1>5, <1>0 DEF Publish, BridgePublish
    <2>3. \A i \in 1..Len(bus'.buf) : OK(bus'.buf[i])
        BY <1>0, <1>2, <2>1, <2>2, OfferElements
    <2> QED BY <1>2, <1>5, <2>1, <2>3 DEF Publish, BridgePublish
<1>6. CASE Unsubscribe
    BY <1>0, <1>2, <1>6 DEF Unsubscribe, BridgeDelete, BridgeClose, mgrVars
<1>7. CASE Pump
    <2>0. loop' = loop
        BY <1>7 DEF Pump, mgrVars
    <2>1. CASE PumpReceive
        <3>1. /\ bus.buf # <<>> /\ bus'.buf = Tail(bus.buf) /\ pump'.ev = Head(bus.buf)
              /\ UNCHANGED <<sub, sseCh, lastSeen>>
            BY <1>0, <2>1 DEF PumpReceive
        <3>2. OK(Head(bus.buf)) /\ \A i \in 1..Len(bus'.buf) : OK(bus'.buf[i])
            BY <1>0, <1>2, <3>1, ReceiveElements
        <3> QED BY <1>2, <2>0, <3>1, <3>2
    <2>2. CASE PumpExit
        BY <1>0, <1>2, <2>0, <2>2 DEF PumpExit
    <2>3. CASE HubPublish
        <3>1. /\ pump.pc = "publish" /\ pump'.pc = "range" /\ UNCHANGED <<bus, lastSeen>>
              /\ pump.ev \in Event /\ OK(pump.ev)
            BY <1>0, <1>2, <2>3 DEF HubPublish
        <3>2. \A c \in Clients : \/ sseCh'[c] = sseCh[c]
                                 \/ sseCh'[c] = Offer(sseCh[c], pump.ev, SubCap)
            BY <2>3 DEF HubPublish
        <3>3. ASSUME NEW c \in Clients, NEW i \in 1..Len(sseCh'[c]) PROVE OK(sseCh'[c][i])
            <4>1. sseCh[c] \in Seq(Event)
                BY <1>0
            <4> QED BY <1>2, <3>1, <3>2, <4>1, OfferElements
        <3> QED BY <1>2, <2>0, <3>1, <3>3
    <2> QED BY <1>7, <2>1, <2>2, <2>3 DEF Pump
<1>8. CASE \E c \in Clients : Client(c)
    <2> PICK c \in Clients : Client(c)
        BY <1>8
    <2>0. loop' = loop /\ UNCHANGED <<bus, pump>>
        BY DEF Client, SSEConnect, SSEWrite, SSEDisconnect, mgrVars
    <2>1. CASE SSEConnect(c)
        BY <1>2, <2>0, <2>1 DEF SSEConnect
    <2>2. CASE SSEWrite(c)
        <3>0. sseCh[c] \in Seq(Event) /\ sseCh[c] # <<>>
            BY <1>0, <2>2 DEF SSEWrite
        <3>1. OK(Head(sseCh[c])) /\ \A i \in 1..Len(Tail(sseCh[c])) : OK(Tail(sseCh[c])[i])
            BY <1>2, <3>0, ReceiveElements
        <3>2. \A d \in Clients : sseCh'[d] = IF d = c THEN Tail(sseCh[c]) ELSE sseCh[d]
            BY <1>0, <2>2 DEF SSEWrite
        <3>3. \A d \in Clients, t \in Tasks :
                  lastSeen'[d][t] = lastSeen[d][t] \/ lastSeen'[d][t] = Head(sseCh[c])
            BY <1>0, <2>2 DEF SSEWrite
        <3>4. \A d \in Clients : \A i \in 1..Len(sseCh'[d]) : OK(sseCh'[d][i])
            BY <1>2, <3>1, <3>2
        <3>5. \A d \in Clients, t \in Tasks : lastSeen'[d][t] # NoEvent => OK(lastSeen'[d][t])
            BY <1>2, <3>1, <3>3
        <3> QED BY <1>2, <2>0, <3>4, <3>5
    <2>3. CASE SSEDisconnect(c)
        <3>1. \A d \in Clients : sseCh'[d] = IF d = c THEN <<>> ELSE sseCh[d]
            BY <1>0, <2>3 DEF SSEDisconnect
        <3>2. Len(<<>>) = 0 /\ 1..0 = {}
            BY SMT
        <3>3. \A d \in Clients : \A i \in 1..Len(sseCh'[d]) : OK(sseCh'[d][i])
            BY <1>2, <3>1, <3>2
        <3> QED BY <1>2, <2>0, <2>3, <3>3 DEF SSEDisconnect
    <2> QED BY <2>1, <2>2, <2>3 DEF Client
<1>9. CASE Enrich
    <2>1. loop.ev \in Event /\ loop'.ev = Enriched(loop.ev)
          /\ (loop'.pc = "publish" => ~IsTerminal(loop.ev))
        BY <1>0, <1>9 DEF Enrich, LoopEnrich
    <2>2. loop'.pc = "publish" => ~IsTerminal(loop'.ev)
        BY <2>1, EnrichedType DEF IsTerminal, TypeOK
    <2> QED BY <1>4, <1>9, <2>2 DEF Enrich, OK
<1>10. CASE Persist
    <2>1. loop'.ev = loop.ev /\ loop.ev \in Event /\ loop.ev.task \in Tasks
        BY <1>0, <1>10 DEF Persist, LoopPersist, Event
    <2>2. EndInLoop(loop.ev.task)
        BY <1>10 DEF Persist, LoopPersist, EndInLoop, CustodyInv
    <2>3. store \in [Tasks -> Row] /\ Exists(loop.ev.task)
        BY <2>1, <2>2 DEF CustodyInv, OnePlace, InFlight, Exists, TypeOK, MgrTypeOK
    <2>4. store'[loop.ev.task].status = loop.ev.status
        BY <1>10, <2>1, <2>3 DEF Persist, LoopPersist, SetStatus, Row
    <2> QED BY <1>4, <1>10, <2>1, <2>4 DEF Persist, OK
<1>11. CASE \/ \E t \in Tasks : Submit(t) \/ Handler(t)
            \/ \E w \in Runs : Worker(w)
            \/ ReceiveEvent \/ EventLoopExit \/ Cancel \/ UNCHANGED vars
    <2>1. UNCHANGED fanoutVars
        BY <1>11 DEF Submit, Handler, DispatchOk, DispatchFull, RecordDispatched, RecordRejected,
                     Worker, WorkerReceive, Emit, Stage, WorkerExit,
                     ReceiveEvent, EventLoopExit, Cancel, vars, fanoutVars
    <2>2. loop' = loop \/ loop'.pc # "publish"
        BY <1>0, <1>11
        DEF Submit, SubmitCreate, Handler, DispatchOk, DispatchFull, RecordDispatched, RecordRejected,
            SubmitDispatched, SubmitRefused, SubmitStamp, SubmitFail,
            Worker, WorkerReceive, Emit, Stage, WorkerExit,
            ReceiveEvent, LoopReceive, EventLoopExit, LoopExit, Cancel, vars, mgrVars
    <2> QED BY <1>2, <1>4, <2>1, <2>2
<1> QED BY <1>5, <1>6, <1>7, <1>8, <1>9, <1>10, <1>11 DEF Next, EventLoop

(* No page and no buffer ever contradicts the store about an ending.       *)
THEOREM ToldIsStoredCorrect == Spec => []ToldIsStored
<1>1. Init => ToldIsStored
    <2> SUFFICES ASSUME Init PROVE ToldIsStored
        OBVIOUS
    <2>1. /\ loop.pc = "receive" /\ pump.pc = "range" /\ Len(bus.buf) = 0
          /\ \A c \in Clients : Len(sseCh[c]) = 0
          /\ \A c \in Clients, t \in Tasks : lastSeen[c][t] = NoEvent
        BY SMT DEF Init, MgrInit, FanoutInit
    <2>2. 1..0 = {}
        BY SMT
    <2> QED BY <2>1, <2>2 DEF ToldIsStored
<1>2. TypeOK /\ CustodyInv /\ ToldIsStored /\ [Next]_vars => ToldIsStored'
    BY ToldStep
<1> QED BY <1>1, <1>2, Inductive, PTL DEF Spec

-----------------------------------------------------------------------------
(***************************************************************************)
(* Who sees what, and in which order.                                      *)
(***************************************************************************)

(* An event of a recorded task that carries that task's user.              *)
Routed(ev) == Exists(ev.task) /\ ev.user = store[ev.task].user

(* Past the look-up of runEventLoop every event carries the user of its    *)
(* task, and what waits for a page is an event of that page's user.  No    *)
(* event is older than its row: otherwise the look-up would find nothing.  *)
RouteInv ==
    /\ \A i \in 1..Len(eventsCh) : Exists(eventsCh[i].task)
    /\ loop.pc = "enrich" => Exists(loop.ev.task)
    /\ loop.pc \in {"persist", "publish"} => Routed(loop.ev)
    /\ \A i \in 1..Len(bus.buf) : Routed(bus.buf[i])
    /\ pump.pc = "publish" => Routed(pump.ev)
    /\ \A c \in Clients : \A i \in 1..Len(sseCh[c]) :
          Routed(sseCh[c][i]) /\ sseCh[c][i].user = ClientUser[c]
    /\ \A c \in Clients, t \in Tasks : lastSeen[c][t] # NoEvent =>
          Exists(t) /\ store[t].user = ClientUser[c]

(* The ranks of the events of task t in a sequence, and of one event.      *)
RanksIn(s, t, n) == {Rank(s[i], n) : i \in {j \in 1..Len(s) : s[j].task = t}}
RankOf(ev, t, n) == IF ev.task = t THEN {Rank(ev, n)} ELSE {}

InOrder(s, t, n) ==
    \A i, j \in 1..Len(s) :
        i < j /\ s[i].task = t /\ s[j].task = t => Rank(s[i], n) < Rank(s[j], n)

(* The rank of what a run emits next.                                      *)
NextRank(s) ==
    CASE s.pc = "running"         -> 1
      [] s.pc = "start"           -> 2 * s.stage + 2
      [] s.pc \in {"sleep", "end"} -> 2 * s.stage + 3
      [] OTHER                    -> 2 * s.total + 2

(* The ranks of what is still to be emitted of task t are at least these.  *)
Future(t) ==
    {NextRank(run[w]) : w \in {x \in Runs : Busy(x) /\ run[x].task = t}}
    \cup (IF req[t].pc \in {"new", "dispatch"} \/ Queued(t) THEN {1} ELSE {})

(* The way of the events of task t to client c, from the page back to the  *)
(* run: what the page shows, the client's channel, the pump, the bridge's  *)
(* buffer, runEventLoop, the events channel, what is yet to be emitted.    *)
Seen(c, t) ==
    IF lastSeen[c][t] = NoEvent THEN {} ELSE {Rank(lastSeen[c][t], store[t].stages)}
Waiting(c, t) == RanksIn(sseCh[c], t, store[t].stages)
Pumped(t) == IF pump.pc = "publish" THEN RankOf(pump.ev, t, store[t].stages) ELSE {}
Bridged(t) == RanksIn(bus.buf, t, store[t].stages)
Looped(t) ==
    IF loop.pc \in {"enrich", "persist", "publish"}
    THEN RankOf(loop.ev, t, store[t].stages) ELSE {}
Emitted(t) == RanksIn(eventsCh, t, store[t].stages)

Line(c, t) ==
    <<Seen(c, t), Waiting(c, t), Pumped(t), Bridged(t), Looped(t), Emitted(t), Future(t)>>

(* Nearer the page is earlier, and the ending is the last.                 *)
InLine(R, top) ==
    /\ \A k \in 1..6 : R[k] \subseteq 1..top
    /\ R[7] \subseteq Int
    /\ \A k, l \in 1..7 : k < l => \A a \in R[k], b \in R[l] : a < b

(* A run knows the number of stages of its task; the events of a task keep *)
(* their order along the line and inside every channel.                    *)
RunsFit == \A w \in Runs : Busy(w) => run[w].total = store[run[w].task].stages

ChannelsInOrder ==
    \A c \in Clients, t \in Tasks :
        /\ InOrder(eventsCh, t, store[t].stages)
        /\ InOrder(bus.buf, t, store[t].stages)
        /\ InOrder(sseCh[c], t, store[t].stages)

InLines ==
    \A c \in Clients, t \in Tasks : InLine(Line(c, t), 2 * store[t].stages + 2)

OrderInv == RunsFit /\ ChannelsInOrder /\ InLines

(* A row is created by Submit; no later step changes its user or its       *)
(* number of stages, or removes it.                                        *)
LEMMA RowsSteady ==
    ASSUME TypeOK, CustodyInv, [Next]_vars, NEW t \in Tasks
    PROVE  \/ /\ Exists(t)' <=> Exists(t)
              /\ store'[t].user = store[t].user
              /\ store'[t].stages = store[t].stages
           \/ Submit(t) /\ ~Exists(t)
<1>0. store \in [Tasks -> Row]
    BY DEF TypeOK, MgrTypeOK
<1>1. ASSUME NEW x \in Tasks, Submit(x)
      PROVE  store'[t] = store[t] \/ (Submit(t) /\ ~Exists(t))
    BY <1>0, <1>1 DEF Submit, SubmitCreate, Create
<1>2. ASSUME NEW x \in Tasks, NEW s \in TaskStatus, SetStatus(x, s) \/ SetDispatchedAt(x)
      PROVE  /\ Exists(t)' <=> Exists(t)
             /\ store'[t].user = store[t].user
             /\ store'[t].stages = store[t].stages
    <2>1. CASE t = x
        BY <1>0, <1>2, <2>1 DEF SetStatus, SetDispatchedAt, Exists, Row, TaskStatus
    <2>2. CASE t # x
        BY <1>0, <1>2, <2>2 DEF SetStatus, SetDispatchedAt, Exists
    <2> QED BY <2>1, <2>2
<1>3. ASSUME NEW x \in Tasks, RecordDispatched(x) \/ RecordRejected(x)
      PROVE  /\ Exists(t)' <=> Exists(t)
             /\ store'[t].user = store[t].user
             /\ store'[t].stages = store[t].stages
    BY <1>2, <1>3 DEF RecordDispatched, RecordRejected, SubmitStamp, SubmitFail, TaskStatus
<1>4. CASE Persist
    <2>1. loop.ev \in Event /\ IsTerminal(loop.ev)
        BY <1>4 DEF Persist, LoopPersist, CustodyInv, TypeOK, MgrTypeOK
    <2>2. loop.ev.task \in Tasks /\ loop.ev.status \in TaskStatus
        BY <2>1 DEF Event, IsTerminal, Terminal, TaskStatus
    <2>3. SetStatus(loop.ev.task, loop.ev.status)
        BY <1>4 DEF Persist, LoopPersist
    <2> QED BY <1>2, <2>2, <2>3
<1>5. CASE \/ \E x \in Tasks : DispatchOk(x) \/ DispatchFull(x)
           \/ \E w \in Runs : Worker(w)
           \/ ReceiveEvent \/ Enrich \/ Publish \/ EventLoopExit
           \/ Cancel \/ Unsubscribe \/ Pump \/ (\E c \in Clients : Client(c))
           \/ UNCHANGED vars
    <2>1. store' = store
        BY <1>5 DEF DispatchOk, DispatchFull, SubmitDispatched, SubmitRefused,
                    Worker, WorkerReceive, Emit, Stage, WorkerExit,
                    ReceiveEvent, Enrich, Publish, EventLoopExit,
                    LoopReceive, LoopEnrich, LoopPublish, LoopExit,
                    Cancel, Unsubscribe, Pump, Client, mgrVars, vars
    <2> QED BY <2>1 DEF Exists
<1> QED BY <1>1, <1>3, <1>4, <1>5 DEF Next, Handler, EventLoop, Exists

(* The task of a run is recorded.                                          *)
LEMMA RunRecorded ==
    ASSUME TypeOK, CustodyInv, NEW w \in Runs, Busy(w)
    PROVE  run[w].task \in Tasks /\ Exists(run[w].task) /\ InFlight(run[w].task)
<1>1. run[w].task \in Tasks
    BY HeldTasks
<1>2. Executing(run[w].task)
    BY DEF Executing
<1> QED BY <1>1, <1>2 DEF CustodyInv, OnePlace, InFlight, Exists

(* The fan-out takes over nothing but what it is given.                    *)
LEMMA RouteStep ==
    TypeOK /\ CustodyInv /\ RouteInv /\ [Next]_vars => RouteInv'
<1> SUFFICES ASSUME TypeOK, CustodyInv, RouteInv, [Next]_vars PROVE RouteInv'
    OBVIOUS
<1> DEFINE Old(ev) == store'[ev.task].status # "absent"
           OK(ev) == Old(ev) /\ ev.user = store'[ev.task].user
           Own(c, ev) == OK(ev) /\ ev.user = ClientUser[c]
<1>0. /\ bus \in [buf : Seq(Event), live : BOOLEAN, closed : BOOLEAN]
      /\ sseCh \in [Clients -> Seq(Event)]
      /\ lastSeen \in [Clients -> [Tasks -> Event \cup {NoEvent}]]
      /\ loop \in [pc : LoopPc, ev : Event \cup {NoEvent}]
      /\ pump \in [pc : PumpPc, ev : Event \cup {NoEvent}]
      /\ loop.pc \in {"enrich", "persist", "publish"} => loop.ev \in Event
      /\ pump.pc = "publish" => pump.ev \in Event
      /\ eventsCh \in Seq(Event)
    BY DEF TypeOK, FanoutTypeOK, MgrTypeOK
<1>1. /\ \A t \in Tasks : Exists(t) => store'[t].status # "absent" /\ store'[t].user = store[t].user
      /\ \A ev \in Event : ev.task \in Tasks
    BY RowsSteady DEF Exists, Event
<1>2. /\ \A ev \in Event : Exists(ev.task) => Old(ev)
      /\ \A ev \in Event : Routed(ev) => OK(ev)
    BY <1>1 DEF Routed
<1>3. /\ \A i \in 1..Len(eventsCh) : eventsCh[i] \in Event /\ Old(eventsCh[i])
      /\ loop.pc = "enrich" => Old(loop.ev)
      /\ loop.pc \in {"persist", "publish"} => OK(loop.ev)
      /\ \A i \in 1..Len(bus.buf) : bus.buf[i] \in Event /\ OK(bus.buf[i])
      /\ pump.pc = "publish" => OK(pump.ev)
      /\ \A c \in Clients : \A i \in 1..Len(sseCh[c]) : sseCh[c][i] \in Event /\ Own(c, sseCh[c][i])
      /\ \A c \in Clients, t \in Tasks : lastSeen[c][t] # NoEvent =>
            store'[t].status # "absent" /\ store'[t].user = ClientUser[c]
    <2>1. /\ \A i \in 1..Len(eventsCh) : eventsCh[i] \in Event
          /\ \A i \in 1..Len(bus.buf) : bus.buf[i] \in Event
          /\ \A c \in Clients : \A i \in 1..Len(sseCh[c]) : sseCh[c][i] \in Event
        BY <1>0, ElementOfSeq
    <2> HIDE DEF Old, OK
    <2> QED BY <1>0, <1>1, <1>2, <2>1 DEF RouteInv
<1>4. SUFFICES /\ \A i \in 1..Len(eventsCh') : Old(eventsCh'[i])
               /\ loop'.pc = "enrich" => Old(loop'.ev)
               /\ loop'.pc \in {"persist", "publish"} => OK(loop'.ev)
               /\ \A i \in 1..Len(bus'.buf) : OK(bus'.buf[i])
               /\ pump'.pc = "publish" => OK(pump'.ev)
               /\ \A c \in Clients : \A i \in 1..Len(sseCh'[c]) : Own(c, sseCh'[c][i])
               /\ \A c \in Clients, t \in Tasks : lastSeen'[c][t] # NoEvent =>
                     store'[t].status # "absent" /\ store'[t].user = ClientUser[c]
    BY DEF RouteInv, Routed, Exists, NoEvent
<1> HIDE DEF Old, OK, Own
<1>5. CASE /\ UNCHANGED <<fanoutVars, eventsCh>>
           /\ loop'.pc = "enrich" => Old(loop'.ev)
           /\ loop'.pc \in {"persist", "publish"} => OK(loop'.ev)
    BY <1>3, <1>5 DEF fanoutVars
<1>6. CASE \E w \in Runs : Emit(w)
    <2>0. PICK w \in Runs : Emit(w)
        BY <1>6
    <2>1. /\ Busy(w) /\ EmitEvent(w).task = run[w].task /\ EmitEvent(w) \in Event
          /\ UNCHANGED <<fanoutVars, loop>>
        BY <2>0, EmitOutcome, EmitEventType DEF Emit, EmitDone, TypeOK, mgrVars
    <2>2. Old(EmitEvent(w))
        BY <1>2, <2>1, RunRecorded
    <2>3. eventsCh' = Offer(eventsCh, EmitEvent(w), EventsCap)
        BY <2>0 DEF Emit
    <2>4. \A i \in 1..Len(eventsCh') : Old(eventsCh'[i])
        BY <1>0, <1>3, <2>1, <2>2, <2>3, OfferElements
    <2> QED BY <1>3, <2>1, <2>4 DEF fanoutVars
<1>7. CASE ReceiveEvent
    <2>1. /\ eventsCh # <<>> /\ eventsCh' = Tail(eventsCh) /\ UNCHANGED fanoutVars
          /\ loop' = [pc |-> "enrich", ev |-> Head(eventsCh)]
        BY <1>7 DEF ReceiveEvent, LoopReceive
    <2>2. Old(Head(eventsCh)) /\ \A i \in 1..Len(eventsCh') : Old(eventsCh'[i])
        <3>1. /\ 1 \in 1..Len(eventsCh) /\ Head(eventsCh) = eventsCh[1]
              /\ \A i \in 1..Len(Tail(eventsCh)) :
                    i + 1 \in 1..Len(eventsCh) /\ Tail(eventsCh)[i] = eventsCh[i + 1]
            BY <1>0, <2>1, ReceiveElements
        <3>2. \A i \in 1..Len(eventsCh) : Old(eventsCh[i])
            BY <1>3
        <3> HIDE DEF Old
        <3> QED BY <2>1, <3>1, <3>2
    <2> QED BY <1>3, <2>1, <2>2 DEF fanoutVars
<1>8. CASE Enrich
    <2>1. /\ loop.pc = "enrich" /\ loop.ev \in Event /\ loop'.ev = Enriched(loop.ev)
          /\ loop'.pc \in {"persist", "publish"}
          /\ UNCHANGED <<fanoutVars, eventsCh>>
        BY <1>0, <1>8 DEF Enrich, LoopEnrich, transVars
    <2>2. Exists(loop.ev.task) /\ loop.ev.task \in Tasks
        BY <1>1, <2>1 DEF RouteInv
    <2>3. Enriched(loop.ev) \in Event /\ Routed(Enriched(loop.ev))
        BY <2>1, <2>2, EnrichedType DEF Enriched, Routed, TypeOK, Event
    <2>4. OK(loop'.ev)
        BY <1>2, <2>1, <2>3
    <2> QED BY <1>5, <2>1, <2>4
<1>9. CASE Publish
    <2>1. /\ loop.pc = "publish" /\ loop'.pc = "receive" /\ loop.ev \in Event /\ OK(loop.ev)
          /\ UNCHANGED <<pump, sub, sseCh, lastSeen, eventsCh>>
        BY <1>0, <1>3, <1>9 DEF Publish, LoopPublish, BridgePublish, transVars
    <2>2. bus'.buf = bus.buf \/ bus'.buf = Offer(bus.buf, loop.ev, BusCap)
        BY <1>9, <1>0 DEF Publish, BridgePublish
    <2>3. bus.buf \in Seq(Event) /\ \A i \in 1..Len(bus.buf) : OK(bus.buf[i])
        BY <1>0, <1>3
    <2>4. ASSUME NEW i \in 1..Len(bus'.buf) PROVE OK(bus'.buf[i])
        BY <2>1, <2>2, <2>3, OfferElements
    <2> QED BY <1>3, <2>1, <2>4
<1>10. CASE Unsubscribe
    <2>1. bus'.buf = bus.buf /\ UNCHANGED <<pump, sub, sseCh, lastSeen, loop, eventsCh>>
        BY <1>0, <1>10 DEF Unsubscribe, BridgeDelete, BridgeClose, mgrVars, transVars
    <2> QED BY <1>3, <2>1
<1>11. CASE Pump
    <2>0. loop' = loop /\ eventsCh' = eventsCh
        BY <1>11 DEF Pump, mgrVars, transVars
    <2>1. CASE PumpReceive
        <3>1. /\ bus.buf # <<>> /\ bus'.buf = Tail(bus.buf) /\ pump'.ev = Head(bus.buf)
              /\ UNCHANGED <<sub, sseCh, lastSeen>>
            BY <1>0, <2>1 DEF PumpReceive
        <3>2. OK(Head(bus.buf)) /\ \A i \in 1..Len(bus'.buf) : OK(bus'.buf[i])
            BY <1>0, <1>3, <3>1, ReceiveElements
        <3> QED BY <1>3, <2>0, <3>1, <3>2
    <2>2. CASE PumpExit
        BY <1>0, <1>3, <2>0, <2>2 DEF PumpExit
    <2>3. CASE HubPublish
        <3>1. /\ pump.pc = "publish" /\ pump'.pc = "range" /\ UNCHANGED <<bus, lastSeen>>
              /\ pump.ev \in Event /\ OK(pump.ev)
            BY <1>0, <1>3, <2>3 DEF HubPublish
        <3>2. \A c \in Clients : \/ sseCh'[c] = sseCh[c]
                                 \/ /\ sseCh'[c] = Offer(sseCh[c], pump.ev, SubCap)
                                    /\ pump.ev.user = ClientUser[c]
            BY <2>3 DEF HubPublish, HubSubscribers
        <3>3. ASSUME NEW c \in Clients, NEW i \in 1..Len(sseCh'[c]) PROVE Own(c, sseCh'[c][i])
            <4>1. sseCh[c] \in Seq(Event)
                BY <1>0
            <4>2. CASE sseCh'[c] = sseCh[c]
                BY <1>3, <4>2
            <4>3. CASE sseCh'[c] = Offer(sseCh[c], pump.ev, SubCap) /\ pump.ev.user = ClientUser[c]
                <5>1. Own(c, pump.ev)
                    BY <3>1, <4>3 DEF Own
                <5> QED BY <1>3, <3>1, <4>1, <4>3, <5>1, OfferElements
            <4> QED BY <3>2, <4>2, <4>3
        <3> QED BY <1>3, <2>0, <3>1, <3>3
    <2> QED BY <1>11, <2>1, <2>2, <2>3 DEF Pump
<1>12. CASE \E c \in Clients : Client(c)
    <2> PICK c \in Clients : Client(c)
        BY <1>12
    <2>0. loop' = loop /\ eventsCh' = eventsCh /\ UNCHANGED <<bus, pump>>
        BY DEF Client, SSEConnect, SSEWrite, SSEDisconnect, mgrVars, transVars
    <2>1. CASE SSEConnect(c)
        BY <1>3, <2>0, <2>1 DEF SSEConnect
    <2>2. CASE SSEWrite(c)
        <3>0. sseCh[c] \in Seq(Event) /\ sseCh[c] # <<>>
            BY <1>0, <2>2 DEF SSEWrite
        <3>1. /\ Head(sseCh[c]) \in Event /\ Own(c, Head(sseCh[c]))
              /\ \A i \in 1..Len(Tail(sseCh[c])) : Own(c, Tail(sseCh[c])[i])
            BY <1>3, <3>0, ReceiveElements
        <3>2. \A d \in Clients : sseCh'[d] = IF d = c THEN Tail(sseCh[c]) ELSE sseCh[d]
            BY <1>0, <2>2 DEF SSEWrite
        <3>3. \A d \in Clients, t \in Tasks :
                  lastSeen'[d][t] = lastSeen[d][t] \/ (d = c /\ t = Head(sseCh[c]).task)
            BY <1>0, <2>2 DEF SSEWrite
        <3>4. \A d \in Clients : \A i \in 1..Len(sseCh'[d]) : Own(d, sseCh'[d][i])
            BY <1>3, <3>1, <3>2
        <3>5. \A d \in Clients, t \in Tasks : lastSeen'[d][t] # NoEvent =>
                 store'[t].status # "absent" /\ store'[t].user = ClientUser[d]
            BY <1>3, <3>1, <3>3 DEF Own, OK, Old
        <3> QED BY <1>3, <2>0, <3>4, <3>5
    <2>3. CASE SSEDisconnect(c)
        <3>1. \A d \in Clients : sseCh'[d] = IF d = c THEN <<>> ELSE sseCh[d]
            BY <1>0, <2>3 DEF SSEDisconnect
        <3>2. Len(<<>>) = 0 /\ 1..0 = {}
            BY SMT
        <3>3. \A d \in Clients : \A i \in 1..Len(sseCh'[d]) : Own(d, sseCh'[d][i])
            BY <1>3, <3>1, <3>2
        <3>4. lastSeen' = lastSeen
            BY <2>3 DEF SSEDisconnect
        <3> QED BY <1>3, <2>0, <3>3, <3>4
    <2> QED BY <2>1, <2>2, <2>3 DEF Client
<1>13. CASE \/ \E t \in Tasks : Submit(t) \/ Handler(t)
            \/ \E w \in Runs : WorkerReceive(w) \/ Stage(w) \/ WorkerExit(w)
            \/ Persist \/ EventLoopExit \/ Cancel \/ UNCHANGED vars
    <2>1. UNCHANGED <<fanoutVars, eventsCh>>
        BY <1>13 DEF Submit, Handler, DispatchOk, DispatchFull, RecordDispatched, RecordRejected,
                     WorkerReceive, Stage, WorkerExit, Persist,
                     EventLoopExit, Cancel, vars, fanoutVars, transVars
    <2>2. \/ loop' = loop
          \/ loop.pc = "persist" /\ loop'.pc = "publish" /\ loop'.ev = loop.ev
          \/ loop'.pc = "exit"
        BY <1>0, <1>13
        DEF Submit, SubmitCreate, Handler, DispatchOk, DispatchFull, RecordDispatched, RecordRejected,
            SubmitDispatched, SubmitRefused, SubmitStamp, SubmitFail,
            WorkerReceive, Stage, WorkerExit, Persist, LoopPersist,
            EventLoopExit, LoopExit, Cancel, vars, mgrVars
    <2> QED BY <1>3, <1>5, <2>1, <2>2
<1> QED BY <1>6, <1>7, <1>8, <1>9, <1>10, <1>11, <1>12, <1>13 DEF Next, EventLoop, Worker

(* The ranks of a channel after a send and after a receive.                *)
LEMMA RanksSent ==
    ASSUME NEW s, NEW r, NEW e, NEW t, NEW n, SentTo(s, r, e)
    PROVE  /\ RanksIn(r, t, n) \subseteq RanksIn(s, t, n) \cup RankOf(e, t, n)
           /\ InOrder(s, t, n) /\ (\A a \in RanksIn(s, t, n), b \in RankOf(e, t, n) : a < b)
                 => InOrder(r, t, n)
<1> DEFINE m == Len(s)
<1>1. /\ m \in Nat /\ Len(r) = m + 1 /\ r[m + 1] = e
      /\ \A i \in 1..m : r[i] = s[i]
      /\ \A i \in 1..Len(r) : i \in 1..m \/ i = m + 1
    BY DEF SentTo
<1> HIDE DEF m
<1>2. \A i \in 1..m : s[i].task = t => Rank(s[i], n) \in RanksIn(s, t, n)
    BY DEF RanksIn, m
<1>3. e.task = t => RankOf(e, t, n) = {Rank(e, n)}
    BY DEF RankOf
<1>4. RanksIn(r, t, n) \subseteq RanksIn(s, t, n) \cup RankOf(e, t, n)
    <2> SUFFICES ASSUME NEW i \in 1..Len(r), r[i].task = t
                 PROVE  Rank(r[i], n) \in RanksIn(s, t, n) \cup RankOf(e, t, n)
        BY DEF RanksIn
    <2> QED BY <1>1, <1>2, <1>3
<1>5. ASSUME InOrder(s, t, n), \A a \in RanksIn(s, t, n), b \in RankOf(e, t, n) : a < b
      PROVE  InOrder(r, t, n)
    <2> SUFFICES ASSUME NEW i \in 1..Len(r), NEW j \in 1..Len(r),
                        i < j, r[i].task = t, r[j].task = t
                 PROVE  Rank(r[i], n) < Rank(r[j], n)
        BY DEF InOrder
    <2>1. i \in 1..m
        BY <1>1
    <2>2. CASE j \in 1..m
        BY <1>1, <1>5, <2>1, <2>2 DEF InOrder, m
    <2>3. CASE j = m + 1
        BY <1>1, <1>2, <1>3, <1>5, <2>1, <2>3
    <2> QED BY <1>1, <2>2, <2>3
<1> QED BY <1>4, <1>5

LEMMA RanksReceived ==
    ASSUME NEW s, NEW r, NEW t, NEW n, ReceivedFrom(s, r), InOrder(s, t, n)
    PROVE  /\ RanksIn(r, t, n) \subseteq RanksIn(s, t, n)
           /\ RankOf(s[1], t, n) \subseteq RanksIn(s, t, n)
           /\ \A a \in RankOf(s[1], t, n), b \in RanksIn(r, t, n) : a < b
           /\ InOrder(r, t, n)
<1>1. /\ 1 \in 1..Len(s)
      /\ \A i \in 1..Len(r) : i + 1 \in 1..Len(s) /\ 1 < i + 1 /\ r[i] = s[i + 1]
      /\ \A i, j \in 1..Len(r) : i < j => i + 1 < j + 1
    BY DEF ReceivedFrom
<1>2. RanksIn(r, t, n) \subseteq RanksIn(s, t, n)
    <2> SUFFICES ASSUME NEW i \in 1..Len(r), r[i].task = t
                 PROVE  Rank(r[i], n) \in RanksIn(s, t, n)
        BY DEF RanksIn
    <2> QED BY <1>1 DEF RanksIn
<1>3. RankOf(s[1], t, n) \subseteq RanksIn(s, t, n)
    BY <1>1 DEF RankOf, RanksIn
<1>4. ASSUME NEW i \in 1..Len(r), r[i].task = t, s[1].task = t
      PROVE  Rank(s[1], n) < Rank(r[i], n)
    BY <1>1, <1>4 DEF InOrder
<1>5. \A a \in RankOf(s[1], t, n), b \in RanksIn(r, t, n) : a < b
    BY <1>4 DEF RankOf, RanksIn
<1>6. InOrder(r, t, n)
    BY <1>1 DEF InOrder
<1> QED BY <1>2, <1>3, <1>5, <1>6

LEMMA RanksNone ==
    ASSUME NEW t, NEW n
    PROVE  RanksIn(<<>>, t, n) = {} /\ InOrder(<<>>, t, n)
<1>1. Len(<<>>) = 0 /\ 1..0 = {}
    BY SMT
<1> QED BY <1>1 DEF RanksIn, InOrder

LEMMA OfferSent ==
    ASSUME NEW S, NEW ch \in Seq(S), NEW ev \in S, NEW cap
    PROVE  Offer(ch, ev, cap) = ch \/ SentTo(ch, Offer(ch, ev, cap), ev)
<1>1. SentTo(ch, Append(ch, ev), ev)
    BY ChannelSteps
<1> QED BY <1>1 DEF Offer

(* The ranks X move one place nearer the page, where they come last, and   *)
(* what is yet to be emitted only moves on.  X may be empty.               *)
LEMMA LineMoves ==
    ASSUME NEW R, NEW Q, NEW top \in Nat, NEW m \in 1..6, NEW X,
           InLine(R, top), X \subseteq R[m + 1], X \subseteq 1..top,
           \A k \in 1..6 : k # m => Q[k] \subseteq R[k],
           Q[m] \subseteq R[m] \cup X,
           \A a \in X, b \in Q[m + 1] : a < b,
           \A b \in Q[7] : b \in Int /\ \E a \in R[7] : a <= b
    PROVE  InLine(Q, top)
<1>0. /\ \A k \in 1..6 : R[k] \subseteq 1..top
      /\ R[7] \subseteq Int
      /\ \A k, l \in 1..7 : k < l => \A a \in R[k], b \in R[l] : a < b
    BY DEF InLine
<1>1. \A k \in 1..6 : Q[k] \subseteq 1..top
    BY <1>0
<1>2. Q[7] \subseteq Int
    OBVIOUS
<1>3. ASSUME NEW k \in 1..7, NEW l \in 1..7, k < l, NEW a \in Q[k], NEW b \in Q[l]
      PROVE  a < b
    <2>1. a \in 1..top /\ k \in 1..6 /\ b \in Int
        BY <1>1, <1>2, <1>3
    <2>2. CASE l = 7
        <3>1. PICK d \in R[7] : d <= b
            BY <2>2
        <3>2. d \in Int
            BY <1>0
        <3>3. CASE a \in R[k]
            BY <1>0, <1>3, <2>1, <2>2, <3>1, <3>2, <3>3
        <3>4. CASE a \notin R[k]
            <4>1. k = m /\ a \in X
                BY <2>1, <3>4
            <4>2. CASE m = 6
                BY <2>2, <4>1, <4>2
            <4>3. CASE m # 6
                BY <1>0, <2>1, <2>2, <3>1, <3>2, <4>1, <4>3
            <4> QED BY <4>2, <4>3
        <3> QED BY <3>3, <3>4
    <2>3. CASE l \in 1..6 /\ b \in R[l]
        <3>1. CASE a \in R[k]
            BY <1>0, <1>3, <2>3, <3>1
        <3>2. CASE a \notin R[k]
            <4>1. k = m /\ a \in X
                BY <2>1, <3>2
            <4>2. CASE l = m + 1
                BY <4>1, <4>2
            <4>3. CASE l # m + 1
                BY <1>0, <1>3, <2>3, <4>1, <4>3
            <4> QED BY <4>2, <4>3
        <3> QED BY <3>1, <3>2
    <2>4. CASE l \in 1..6 /\ b \notin R[l]
        <3>1. l = m /\ b \in X /\ k # m
            BY <1>3, <2>4
        <3>2. a \in R[k]
            BY <2>1, <3>1
        <3> QED BY <1>0, <1>3, <3>1, <3>2
    <2> QED BY <2>2, <2>3, <2>4
<1> QED BY <1>1, <1>2, <1>3 DEF InLine

LEMMA LineAt ==
    ASSUME NEW c, NEW t
    PROVE  /\ Line(c, t)[1] = Seen(c, t)
           /\ Line(c, t)[2] = Waiting(c, t)
           /\ Line(c, t)[3] = Pumped(t)
           /\ Line(c, t)[4] = Bridged(t)
           /\ Line(c, t)[5] = Looped(t)
           /\ Line(c, t)[6] = Emitted(t)
           /\ Line(c, t)[7] = Future(t)
           /\ Line(c, t)'[1] = Seen(c, t)'
           /\ Line(c, t)'[2] = Waiting(c, t)'
           /\ Line(c, t)'[3] = Pumped(t)'
           /\ Line(c, t)'[4] = Bridged(t)'
           /\ Line(c, t)'[5] = Looped(t)'
           /\ Line(c, t)'[6] = Emitted(t)'
           /\ Line(c, t)'[7] = Future(t)'
BY DEF Line

(* The percentage tells the end of a stage from its start.                 *)
LEMMA ProgressGrows ==
    ASSUME NEW n \in 1..MaxStages, NEW i \in 0..(n - 1)
    PROVE  Progress(i + 1, n) # Progress(i, n)
<1>1. n = 1 \/ n = 2 \/ n = 3 \/ n = 4 \/ n = 5 \/ n = 6 \/ n = 7 \/ n = 8
    BY SMT DEF MaxStages
<1> QED BY <1>1, SMT DEF Progress, MaxStages

(* What a run emits has the rank NextRank says, and the next is higher.    *)
LEMMA NextRankType ==
    ASSUME ExecTypeOK, NEW w \in Runs, Busy(w)
    PROVE  NextRank(run[w]) \in 1..(2 * run[w].total + 2)
<1> DEFINE s == run[w]
<1>1. s \in RunState /\ s.pc \in BusyPc
    BY BusyTask DEF Busy
<1>2. s.stage \in 0..MaxStages /\ s.total \in 1..MaxStages
    BY <1>1 DEF RunState
<1>3. s.pc \in {"start", "sleep", "end"} => s.stage < s.total
    BY DEF ExecTypeOK
<1> HIDE DEF s
<1>4. NextRank(s) \in 1..(2 * s.total + 2)
    <2>1. CASE s.pc = "running"
        BY <1>2, <2>1 DEF NextRank, MaxStages
    <2>2. CASE s.pc = "start"
        BY <1>2, <1>3, <2>2 DEF NextRank, MaxStages
    <2>3. CASE s.pc \in {"sleep", "end"}
        BY <1>2, <1>3, <2>3 DEF NextRank, MaxStages
    <2>4. CASE s.pc \in {"completed", "failed"}
        BY <1>2, <2>4 DEF NextRank, MaxStages
    <2> QED BY <1>1, <2>1, <2>2, <2>3, <2>4 DEF BusyPc, EmitPc
<1> QED BY <1>4 DEF s

LEMMA EmitRank ==
    ASSUME ExecTypeOK, NEW w \in Runs, EmitDone(w)
    PROVE  /\ Rank(EmitEvent(w), run[w].total) = NextRank(run[w])
           /\ Busy(w)' => /\ NextRank(run'[w]) \in Int
                          /\ NextRank(run[w]) < NextRank(run'[w])
                          /\ run'[w].total = run[w].total
<1> DEFINE s == run[w]
           r == run'[w]
<1>0. s.pc \in EmitPc /\ r = AfterEmit(s) /\ Busy(w)
    BY DEF EmitDone, ExecTypeOK, Busy, BusyPc
<1>1. s \in RunState
    BY <1>0, BusyTask
<1>2. s.stage \in 0..MaxStages /\ s.total \in 1..MaxStages
    BY <1>1 DEF RunState
<1>3. s.pc \in {"start", "sleep", "end"} => s.stage < s.total
    BY DEF ExecTypeOK
<1>4. /\ Busy(w)' <=> r.pc \in BusyPc
      /\ EmitEvent(w) = CASE s.pc = "start"  -> ProgressEvent(s.task, s.stage, Progress(s.stage, s.total))
                          [] s.pc = "end"    -> ProgressEvent(s.task, s.stage, Progress(s.stage + 1, s.total))
                          [] OTHER           -> StatusEvent(s.task, s.pc)
    BY DEF Busy, EmitEvent
<1> DEFINE e == EmitEvent(w)
<1> HIDE DEF s, r, e
<1>5. SUFFICES /\ Rank(e, s.total) = NextRank(s)
               /\ r.pc \in BusyPc => /\ NextRank(r) \in Int
                                     /\ NextRank(s) < NextRank(r)
                                     /\ r.total = s.total
    BY <1>4 DEF s, r, e
<1>6. CASE s.pc = "running"
    <2>1. e = StatusEvent(s.task, s.pc)
        BY <1>4, <1>6 DEF e
    <2>2. Rank(e, s.total) = 1 /\ NextRank(s) = 1
        BY <2>1, <1>6 DEF Rank, StatusEvent, NextRank, Terminal
    <2>3. /\ r.pc \in {"start", "completed"} /\ r.stage = s.stage /\ r.total = s.total
        BY <1>0, <1>1, <1>6 DEF AfterEmit, RunState
    <2>4. NextRank(r) = 2 * s.stage + 2 \/ NextRank(r) = 2 * s.total + 2
        BY <2>3 DEF NextRank
    <2> QED BY <1>2, <2>2, <2>3, <2>4 DEF MaxStages
<1>7. CASE s.pc = "start"
    <2>1. e = ProgressEvent(s.task, s.stage, Progress(s.stage, s.total))
        BY <1>4, <1>7 DEF e
    <2>2. Rank(e, s.total) = 2 * s.stage + 2 /\ NextRank(s) = 2 * s.stage + 2
        BY <2>1, <1>7 DEF Rank, ProgressEvent, NextRank
    <2>3. r.pc = "sleep" /\ r.stage = s.stage /\ r.total = s.total
        BY <1>0, <1>1, <1>7 DEF AfterEmit, RunState
    <2>4. NextRank(r) = 2 * s.stage + 3
        BY <2>3 DEF NextRank
    <2> QED BY <1>2, <2>2, <2>3, <2>4 DEF MaxStages
<1>8. CASE s.pc = "end"
    <2> DEFINE p == Progress(s.stage + 1, s.total)
    <2>1. e = ProgressEvent(s.task, s.stage, p)
        BY <1>4, <1>8 DEF e
    <2>2. p # Progress(s.stage, s.total)
        BY <1>2, <1>3, <1>8, ProgressGrows DEF MaxStages
    <2> HIDE DEF p
    <2>3. Rank(e, s.total) = 2 * s.stage + 3 /\ NextRank(s) = 2 * s.stage + 3
        BY <2>1, <2>2, <1>8 DEF Rank, ProgressEvent, NextRank
    <2>4. /\ r.stage = s.stage + 1 /\ r.total = s.total
          /\ r.pc = IF s.stage + 1 < s.total THEN "start" ELSE "completed"
        BY <1>0, <1>1, <1>8 DEF AfterEmit, RunState
    <2>5. NextRank(r) = 2 * (s.stage + 1) + 2 \/ NextRank(r) = 2 * s.total + 2
        BY <2>4 DEF NextRank
    <2> QED BY <1>2, <1>3, <1>8, <2>3, <2>4, <2>5 DEF MaxStages
<1>9. CASE s.pc \in {"completed", "failed"}
    <2>1. e = StatusEvent(s.task, s.pc)
        BY <1>4, <1>9 DEF e
    <2>2. Rank(e, s.total) = 2 * s.total + 2 /\ NextRank(s) = 2 * s.total + 2
        BY <2>1, <1>9 DEF Rank, StatusEvent, NextRank, Terminal
    <2>3. r = Idle
        BY <1>0, <1>9 DEF AfterEmit
    <2>4. r.pc \notin BusyPc
        BY <2>3 DEF Idle, BusyPc, EmitPc
    <2> QED BY <2>2, <2>4
<1> QED BY <1>0, <1>6, <1>7, <1>8, <1>9 DEF EmitPc

-----------------------------------------------------------------------------
(* The order is kept, one lemma per kind of step.                          *)

LEMMA FutureInt ==
    ASSUME TypeOK, NEW t \in Tasks
    PROVE  Future(t) \subseteq Int
<1>1. \A w \in Runs : Busy(w) => NextRank(run[w]) \in Int
    <2> SUFFICES ASSUME NEW w \in Runs, Busy(w) PROVE NextRank(run[w]) \in Int
        OBVIOUS
    <2>1. ExecTypeOK /\ run[w].total \in Int
        BY BusyTask DEF TypeOK, RunState
    <2> QED BY <2>1, NextRankType
<1> QED BY <1>1 DEF Future

LEMMA FutureMember ==
    ASSUME NEW t, NEW b
    PROVE  /\ b \in Future(t) <=>
                 \/ \E w \in Runs : Busy(w) /\ run[w].task = t /\ b = NextRank(run[w])
                 \/ b = 1 /\ (req[t].pc \in {"new", "dispatch"} \/ Queued(t))
           /\ b \in Future(t)' <=>
                 \/ \E w \in Runs : Busy(w)' /\ run'[w].task = t /\ b = NextRank(run'[w])
                 \/ b = 1 /\ (req'[t].pc \in {"new", "dispatch"} \/ Queued(t)')
BY DEF Future

LEMMA RunsFitStep ==
    TypeOK /\ CustodyInv /\ RunsFit /\ [Next]_vars => RunsFit'
<1> SUFFICES ASSUME TypeOK, CustodyInv, RunsFit, [Next]_vars, NEW w \in Runs, Busy(w)'
             PROVE  run'[w].total = store'[run'[w].task].stages
    BY DEF RunsFit
<1>0. /\ ExecTypeOK /\ run \in [Runs -> RunState \cup {Idle, Exited}]
      /\ tasksCh \in Seq(Tasks)
    BY DEF TypeOK, ExecTypeOK
<1>1. \A t \in Tasks : Exists(t) => store'[t].stages = store[t].stages
    BY RowsSteady
<1>2. CASE /\ Busy(w) /\ run'[w].task = run[w].task /\ run'[w].total = run[w].total
    BY <1>1, <1>2, RunRecorded DEF RunsFit
<1>3. CASE run'[w] = run[w]
    BY <1>2, <1>3 DEF Busy
<1>4. ASSUME NEW x \in Runs, WorkerReceive(x)
      PROVE  run'[w].total = store'[run'[w].task].stages
    <2>1. CASE w # x
        BY <1>0, <1>3, <1>4, <2>1 DEF WorkerReceive, RunStart
    <2>2. CASE w = x
        <3>1. /\ run'[w].total = store[Head(tasksCh)].stages /\ run'[w].task = Head(tasksCh)
              /\ store' = store
            BY <1>0, <1>4, <2>2 DEF WorkerReceive, RunStart, mgrVars
        <3> QED BY <3>1
    <2> QED BY <2>1, <2>2
<1>5. ASSUME NEW x \in Runs, Emit(x)
      PROVE  run'[w].total = store'[run'[w].task].stages
    <2>0. EmitDone(x)
        BY <1>5 DEF Emit
    <2>1. CASE w # x
        BY <1>0, <1>3, <2>0, <2>1, EmitOutcome
    <2>2. CASE w = x
        <3>1. Busy(w) /\ run'[w].task = run[w].task
            BY <1>0, <2>0, <2>2, EmitOutcome
        <3>2. run'[w].total = run[w].total
            BY <1>0, <2>0, <2>2, EmitRank
        <3> QED BY <1>2, <3>1, <3>2
    <2> QED BY <2>1, <2>2
<1>6. ASSUME NEW x \in Runs, Stage(x) \/ WorkerExit(x)
      PROVE  run'[w].total = store'[run'[w].task].stages
    <2>1. CASE w # x
        BY <1>0, <1>3, <1>6, <2>1 DEF Stage, StageSleep, StageCancelled, WorkerExit, RunExit
    <2>2. CASE w = x /\ WorkerExit(x)
        BY <1>0, <2>2 DEF WorkerExit, RunExit, Exited, Busy, BusyPc, EmitPc
    <2>3. CASE w = x /\ Stage(x)
        <3>1. run[w].pc = "sleep" /\ Busy(w)
            BY <2>3 DEF Stage, StageSleep, StageCancelled, Busy, BusyPc
        <3>2. run[w] \in RunState
            BY <1>0, <3>1, BusyTask
        <3>3. run'[w].task = run[w].task /\ run'[w].total = run[w].total
            BY <1>0, <2>3, <3>2 DEF Stage, StageSleep, StageCancelled, RunState
        <3> QED BY <1>2, <3>1, <3>3
    <2> QED BY <1>6, <2>1, <2>2, <2>3
<1>7. CASE \/ \E t \in Tasks : Submit(t) \/ Handler(t)
           \/ EventLoop \/ Cancel \/ Unsubscribe \/ Pump
           \/ (\E c \in Clients : Client(c))
           \/ UNCHANGED vars
    <2>1. run' = run
        BY <1>7 DEF Submit, Handler, DispatchOk, DispatchFull, RecordDispatched, RecordRejected,
                    EventLoop, ReceiveEvent, Enrich, Persist, Publish, EventLoopExit,
                    Cancel, Unsubscribe, Pump, Client, vars
    <2> QED BY <1>3, <2>1
<1> QED BY <1>4, <1>5, <1>6, <1>7 DEF Next, Worker

(* What does not change keeps its ranks.                                   *)
LEMMA SamePlaces ==
    ASSUME NEW c, NEW t, store'[t].stages = store[t].stages
    PROVE  /\ lastSeen'[c][t] = lastSeen[c][t] => Seen(c, t)' = Seen(c, t)
           /\ sseCh'[c] = sseCh[c] => Waiting(c, t)' = Waiting(c, t)
           /\ pump' = pump => Pumped(t)' = Pumped(t)
           /\ bus'.buf = bus.buf => Bridged(t)' = Bridged(t)
           /\ loop' = loop => Looped(t)' = Looped(t)
           /\ eventsCh' = eventsCh => Emitted(t)' = Emitted(t)
<1>1. lastSeen'[c][t] = lastSeen[c][t] => Seen(c, t)' = Seen(c, t)
    BY DEF Seen
<1>2. sseCh'[c] = sseCh[c] => Waiting(c, t)' = Waiting(c, t)
    BY DEF Waiting
<1>3. pump' = pump => Pumped(t)' = Pumped(t)
    BY DEF Pumped
<1>4. bus'.buf = bus.buf => Bridged(t)' = Bridged(t)
    BY DEF Bridged
<1>5. loop' = loop => Looped(t)' = Looped(t)
    BY DEF Looped
<1>6. eventsCh' = eventsCh => Emitted(t)' = Emitted(t)
    BY DEF Emitted
<1> QED BY <1>1, <1>2, <1>3, <1>4, <1>5, <1>6

(* The line of task t to client c along a step that moves the ranks X from *)
(* place m + 1 to place m.                                                 *)
LEMMA LineStep ==
    ASSUME TypeOK, InLines, NEW c \in Clients, NEW t \in Tasks,
           store'[t].stages = store[t].stages,
           NEW m \in 1..6, NEW X,
           X \subseteq Line(c, t)[m + 1], X \subseteq 1..(2 * store[t].stages + 2),
           m # 1 => Seen(c, t)' \subseteq Seen(c, t),
           m # 2 => Waiting(c, t)' \subseteq Waiting(c, t),
           m # 3 => Pumped(t)' \subseteq Pumped(t),
           m # 4 => Bridged(t)' \subseteq Bridged(t),
           m # 5 => Looped(t)' \subseteq Looped(t),
           m # 6 => Emitted(t)' \subseteq Emitted(t),
           Line(c, t)'[m] \subseteq Line(c, t)[m] \cup X,
           \A a \in X, b \in Line(c, t)'[m + 1] : a < b,
           \A b \in Future(t)' : b \in Int /\ \E a \in Future(t) : a <= b
    PROVE  InLine(Line(c, t)', 2 * store'[t].stages + 2)
<1> DEFINE R == Line(c, t)
           Q == Line(c, t)'
           top == 2 * store[t].stages + 2
<1>1. InLine(R, top)
    BY DEF InLines
<1>2. top \in Nat
    <2>1. store[t].stages \in 0..MaxStages
        BY DEF TypeOK, MgrTypeOK, Row
    <2> QED BY <2>1 DEF MaxStages
<1>3. \A k \in 1..6 : k = 1 \/ k = 2 \/ k = 3 \/ k = 4 \/ k = 5 \/ k = 6
    BY SMT
<1>4. \A k \in 1..6 : k # m => Q[k] \subseteq R[k]
    BY <1>3, LineAt
<1>5. \A b \in Q[7] : b \in Int /\ \E a \in R[7] : a <= b
    BY LineAt
<1>6. X \subseteq R[m + 1] /\ Q[m] \subseteq R[m] \cup X /\ \A a \in X, b \in Q[m + 1] : a < b
    OBVIOUS
<1>7. X \subseteq 1..top
    OBVIOUS
<1>8. InLine(Line(c, t)', 2 * store'[t].stages + 2) <=> InLine(Q, top)
    OBVIOUS
<1> HIDE DEF R, Q, top
<1>9. InLine(Q, top)
    BY <1>1, <1>2, <1>4, <1>5, <1>6, <1>7, LineMoves
<1> QED BY <1>8, <1>9

(* No event of a task is older than the task's row.                        *)
LEMMA NothingYet ==
    ASSUME TypeOK, RouteInv, NEW t \in Tasks, ~Exists(t), NEW n
    PROVE  /\ RanksIn(eventsCh, t, n) = {} /\ InOrder(eventsCh, t, n)
           /\ RanksIn(bus.buf, t, n) = {} /\ InOrder(bus.buf, t, n)
           /\ loop.pc \in {"enrich", "persist", "publish"} => RankOf(loop.ev, t, n) = {}
           /\ pump.pc = "publish" => RankOf(pump.ev, t, n) = {}
           /\ \A c \in Clients : /\ RanksIn(sseCh[c], t, n) = {} /\ InOrder(sseCh[c], t, n)
                                 /\ lastSeen[c][t] = NoEvent
<1>1. /\ \A i \in 1..Len(eventsCh) : eventsCh[i].task # t
      /\ \A i \in 1..Len(bus.buf) : bus.buf[i].task # t
      /\ loop.pc \in {"enrich", "persist", "publish"} => loop.ev.task # t
      /\ pump.pc = "publish" => pump.ev.task # t
      /\ \A c \in Clients : \A i \in 1..Len(sseCh[c]) : sseCh[c][i].task # t
      /\ \A c \in Clients : lastSeen[c][t] = NoEvent
    BY DEF RouteInv, Routed
<1>2. RanksIn(eventsCh, t, n) = {} /\ InOrder(eventsCh, t, n)
    BY <1>1 DEF RanksIn, InOrder
<1>3. RanksIn(bus.buf, t, n) = {} /\ InOrder(bus.buf, t, n)
    BY <1>1 DEF RanksIn, InOrder
<1>4. \A c \in Clients : RanksIn(sseCh[c], t, n) = {} /\ InOrder(sseCh[c], t, n)
    BY <1>1 DEF RanksIn, InOrder
<1> QED BY <1>1, <1>2, <1>3, <1>4 DEF RankOf

(* A step that moves no event.                                             *)
LEMMA OrderQuiet ==
    ASSUME TypeOK, CustodyInv, RouteInv, OrderInv, [Next]_vars,
           UNCHANGED <<lastSeen, eventsCh>>, bus'.buf = bus.buf,
           \A c \in Clients : sseCh'[c] = sseCh[c] \/ sseCh'[c] = <<>>,
           pump' = pump \/ pump'.pc # "publish",
           \A t \in Tasks : Looped(t)' \subseteq Looped(t) \/ loop' = loop,
           \A t \in Tasks : \A b \in Future(t)' : b \in Int /\ \E a \in Future(t) : a <= b
    PROVE  OrderInv'
<1>1. ASSUME NEW t \in Tasks, store'[t].stages = store[t].stages
      PROVE  \A c \in Clients : /\ InLine(Line(c, t)', 2 * store'[t].stages + 2)
                              /\ InOrder(eventsCh', t, store'[t].stages)
                              /\ InOrder(bus'.buf, t, store'[t].stages)
                              /\ InOrder(sseCh'[c], t, store'[t].stages)
    <2>1. ASSUME NEW c \in Clients PROVE InLine(Line(c, t)', 2 * store'[t].stages + 2)
        <3>0. Waiting(c, t)' \subseteq Waiting(c, t)
            <4>1. CASE sseCh'[c] = sseCh[c]
                BY <1>1, <4>1, SamePlaces
            <4>2. CASE sseCh'[c] = <<>>
                BY <4>2, RanksNone DEF Waiting
            <4> QED BY <4>1, <4>2
        <3>1. /\ Seen(c, t)' = Seen(c, t) /\ Waiting(c, t)' \subseteq Waiting(c, t)
              /\ Bridged(t)' = Bridged(t) /\ Emitted(t)' = Emitted(t)
              /\ Looped(t)' \subseteq Looped(t)
            BY <1>1, <3>0, SamePlaces
        <3>2. Pumped(t)' \subseteq Pumped(t)
            <4>1. CASE pump' = pump
                BY <1>1, <4>1, SamePlaces
            <4>2. CASE pump'.pc # "publish"
                BY <4>2 DEF Pumped
            <4> QED BY <4>1, <4>2
        <3>3. 1 \in 1..6 /\ Line(c, t)'[1] = Seen(c, t)' /\ Line(c, t)[1] = Seen(c, t)
            BY LineAt, SMT
        <3> DEFINE X == {}
        <3>4. /\ X \subseteq Line(c, t)[1 + 1] /\ X \subseteq 1..(2 * store[t].stages + 2)
              /\ \A a \in X, b \in Line(c, t)'[1 + 1] : a < b
            OBVIOUS
        <3>5. Line(c, t)'[1] \subseteq Line(c, t)[1] \cup X
            BY <3>1, <3>3
        <3> HIDE DEF X
        <3>6. InLines
            BY DEF OrderInv
        <3> QED BY <1>1, <3>1, <3>2, <3>3, <3>4, <3>5, <3>6, LineStep
    <2>2. \A c \in Clients : /\ InOrder(eventsCh', t, store'[t].stages)
                             /\ InOrder(bus'.buf, t, store'[t].stages)
                             /\ InOrder(sseCh'[c], t, store'[t].stages)
        BY <1>1, RanksNone DEF OrderInv, ChannelsInOrder
    <2> QED BY <2>1, <2>2
<1>2. ASSUME NEW t \in Tasks, Submit(t), ~Exists(t)
      PROVE  \A c \in Clients : /\ InLine(Line(c, t)', 2 * store'[t].stages + 2)
                              /\ InOrder(eventsCh', t, store'[t].stages)
                              /\ InOrder(bus'.buf, t, store'[t].stages)
                              /\ InOrder(sseCh'[c], t, store'[t].stages)
    <2> DEFINE n == store'[t].stages
    <2>0. UNCHANGED <<loop, pump, bus, sseCh>>
        BY <1>2 DEF Submit, SubmitCreate, fanoutVars
    <2>1. /\ RanksIn(eventsCh, t, n) = {} /\ InOrder(eventsCh, t, n)
          /\ RanksIn(bus.buf, t, n) = {} /\ InOrder(bus.buf, t, n)
          /\ loop.pc \in {"enrich", "persist", "publish"} => RankOf(loop.ev, t, n) = {}
          /\ pump.pc = "publish" => RankOf(pump.ev, t, n) = {}
          /\ \A c \in Clients : /\ RanksIn(sseCh[c], t, n) = {} /\ InOrder(sseCh[c], t, n)
                                /\ lastSeen[c][t] = NoEvent
        BY <1>2, NothingYet
    <2>2. ASSUME NEW c \in Clients PROVE InLine(Line(c, t)', 2 * store'[t].stages + 2)
        <3>1. /\ Seen(c, t)' = {} /\ Waiting(c, t)' = {} /\ Pumped(t)' = {}
              /\ Bridged(t)' = {} /\ Looped(t)' = {} /\ Emitted(t)' = {}
            BY <2>0, <2>1 DEF Seen, Waiting, Pumped, Bridged, Looped, Emitted
        <3>2. \A k \in 1..6 : k = 1 \/ k = 2 \/ k = 3 \/ k = 4 \/ k = 5 \/ k = 6
            BY SMT
        <3> DEFINE Q == Line(c, t)'
                   top == 2 * store'[t].stages + 2
        <3>3. \A k \in 1..6 : Q[k] = {}
            BY <3>1, <3>2, LineAt
        <3>4. Q[7] \subseteq Int
            BY LineAt
        <3>5. \A k, l \in 1..7 : k < l => k \in 1..6
            BY SMT
        <3> HIDE DEF Q, top
        <3>6. InLine(Q, top)
            BY <3>3, <3>4, <3>5 DEF InLine
        <3> QED BY <3>6 DEF Q, top
    <2> QED BY <2>0, <2>1, <2>2
<1>3. RunsFit'
    BY RunsFitStep DEF OrderInv
<1>4. ASSUME NEW t \in Tasks
      PROVE  \A c \in Clients : /\ InLine(Line(c, t)', 2 * store'[t].stages + 2)
                              /\ InOrder(eventsCh', t, store'[t].stages)
                              /\ InOrder(bus'.buf, t, store'[t].stages)
                              /\ InOrder(sseCh'[c], t, store'[t].stages)
    BY <1>1, <1>2, RowsSteady
<1>5. ChannelsInOrder'
    BY <1>4 DEF ChannelsInOrder
<1>6. InLines'
    BY <1>4 DEF InLines
<1> QED BY <1>3, <1>5, <1>6 DEF OrderInv

LEMMA FutureSame ==
    ASSUME TypeOK, NEW t \in Tasks, UNCHANGED <<run, req, tasksCh>>
    PROVE  \A b \in Future(t)' : b \in Int /\ \E a \in Future(t) : a <= b
<1>1. Future(t)' = Future(t)
    BY DEF Future, Busy, Queued
<1>2. \A b \in Int : b <= b
    BY SMT
<1> QED BY <1>1, <1>2, FutureInt

(* The head of a sequence takes one place, the others keep theirs.         *)
LEMMA HeadMoves ==
    ASSUME NEW S, NEW s \in Seq(S), s # <<>>, NEW t, NEW n, InOrder(s, t, n)
    PROVE  /\ RankOf(Head(s), t, n) \subseteq RanksIn(s, t, n)
           /\ RanksIn(Tail(s), t, n) \subseteq RanksIn(s, t, n)
           /\ \A a \in RankOf(Head(s), t, n), b \in RanksIn(Tail(s), t, n) : a < b
           /\ InOrder(Tail(s), t, n)
<1>1. ReceivedFrom(s, Tail(s)) /\ Head(s) = s[1]
    BY ChannelSteps
<1> QED BY <1>1, RanksReceived

(* ReceiveEvent: the head of the events channel becomes the loop's event.  *)
LEMMA OrderReceive ==
    ASSUME TypeOK, CustodyInv, OrderInv, [Next]_vars, ReceiveEvent
    PROVE  OrderInv'
<1>0. /\ UNCHANGED <<store, req, run, tasksCh, fanoutVars>> /\ UNCHANGED <<lastSeen, sseCh, pump, bus>>
      /\ loop.pc = "receive" /\ eventsCh # <<>>
      /\ loop' = [pc |-> "enrich", ev |-> Head(eventsCh)] /\ eventsCh' = Tail(eventsCh)
      /\ eventsCh \in Seq(Event)
    BY DEF ReceiveEvent, LoopReceive, fanoutVars, TypeOK
<1>1. RunsFit' /\ InLines
    BY RunsFitStep DEF OrderInv
<1>2. ASSUME NEW c \in Clients, NEW t \in Tasks
      PROVE  /\ RankOf(Head(eventsCh), t, store[t].stages) \subseteq Emitted(t)
             /\ Emitted(t)' \subseteq Emitted(t)
             /\ \A a \in RankOf(Head(eventsCh), t, store[t].stages), b \in Emitted(t)' : a < b
             /\ InOrder(eventsCh', t, store'[t].stages)
             /\ Looped(t)' = RankOf(Head(eventsCh), t, store[t].stages)
    <2> DEFINE n == store[t].stages
    <2>1. InOrder(eventsCh, t, n)
        BY DEF OrderInv, ChannelsInOrder
    <2>2. /\ RankOf(Head(eventsCh), t, n) \subseteq RanksIn(eventsCh, t, n)
          /\ RanksIn(Tail(eventsCh), t, n) \subseteq RanksIn(eventsCh, t, n)
          /\ \A a \in RankOf(Head(eventsCh), t, n), b \in RanksIn(Tail(eventsCh), t, n) : a < b
          /\ InOrder(Tail(eventsCh), t, n)
        BY <1>0, <2>1, HeadMoves
    <2>3. Emitted(t) = RanksIn(eventsCh, t, n) /\ Emitted(t)' = RanksIn(Tail(eventsCh), t, n)
        BY <1>0 DEF Emitted
    <2>4. Looped(t)' = RankOf(Head(eventsCh), t, n)
        BY <1>0 DEF Looped
    <2> HIDE DEF n
    <2> QED BY <1>0, <2>2, <2>3, <2>4 DEF n
<1>3. ASSUME NEW c \in Clients, NEW t \in Tasks
      PROVE  InLine(Line(c, t)', 2 * store'[t].stages + 2)
    <2> DEFINE X == RankOf(Head(eventsCh), t, store[t].stages)
    <2>1. /\ X \subseteq Emitted(t) /\ Emitted(t)' \subseteq Emitted(t)
          /\ \A a \in X, b \in Emitted(t)' : a < b
          /\ Looped(t)' = X
        BY <1>2
    <2> HIDE DEF X
    <2>2. /\ Seen(c, t)' = Seen(c, t) /\ Waiting(c, t)' = Waiting(c, t)
          /\ Pumped(t)' = Pumped(t) /\ Bridged(t)' = Bridged(t)
        BY <1>0, SamePlaces
    <2>3. 5 \in 1..6 /\ 5 + 1 = 6 /\ 6 \in 1..6
        BY SMT
    <2>4. X \subseteq 1..(2 * store[t].stages + 2)
        BY <1>1, <2>1, <2>3, LineAt DEF InLines, InLine
    <2>5. \A b \in Future(t)' : b \in Int /\ \E a \in Future(t) : a <= b
        BY <1>0, FutureSame
    <2>6. /\ X \subseteq Line(c, t)[5 + 1] /\ Line(c, t)'[5] \subseteq Line(c, t)[5] \cup X
          /\ \A a \in X, b \in Line(c, t)'[5 + 1] : a < b
        BY <2>1, <2>3, LineAt
    <2>7. store'[t].stages = store[t].stages
        BY <1>0
    <2> QED BY <1>1, <2>1, <2>2, <2>3, <2>4, <2>5, <2>6, <2>7, LineStep
<1>4. ChannelsInOrder'
    BY <1>0, <1>2 DEF OrderInv, ChannelsInOrder
<1> QED BY <1>1, <1>3, <1>4 DEF OrderInv, InLines

(* Publish: the loop's event joins the bridge's buffer, or is dropped.     *)
LEMMA OrderPublish ==
    ASSUME TypeOK, CustodyInv, OrderInv, [Next]_vars, Publish
    PROVE  OrderInv'
<1>0. /\ UNCHANGED <<store, req, run, tasksCh, eventsCh, lastSeen, sseCh, pump>>
      /\ loop.pc = "publish" /\ loop'.pc = "receive"
      /\ bus'.buf = bus.buf \/ bus'.buf = Offer(bus.buf, loop.ev, BusCap)
      /\ bus.buf \in Seq(Event) /\ loop.ev \in Event
    BY DEF Publish, LoopPublish, BridgePublish, transVars, TypeOK, MgrTypeOK, FanoutTypeOK
<1>1. RunsFit' /\ InLines
    BY RunsFitStep DEF OrderInv
<1>2. bus'.buf = bus.buf \/ SentTo(bus.buf, bus'.buf, loop.ev)
    BY <1>0, OfferSent
<1>3. ASSUME NEW c \in Clients, NEW t \in Tasks
      PROVE  /\ Looped(t) = RankOf(loop.ev, t, store[t].stages) /\ Looped(t)' = {}
             /\ Bridged(t)' \subseteq Bridged(t) \cup Looped(t)
             /\ (\A a \in Bridged(t), b \in Looped(t) : a < b)
                   => InOrder(bus'.buf, t, store'[t].stages)
    <2> DEFINE n == store[t].stages
    <2>1. InOrder(bus.buf, t, n)
        BY DEF OrderInv, ChannelsInOrder
    <2>2. Looped(t) = RankOf(loop.ev, t, n) /\ Looped(t)' = {}
        BY <1>0 DEF Looped
    <2>3. Bridged(t) = RanksIn(bus.buf, t, n) /\ Bridged(t)' = RanksIn(bus'.buf, t, n)
        BY <1>0 DEF Bridged
    <2>4. CASE bus'.buf = bus.buf
        BY <1>0, <2>1, <2>2, <2>3, <2>4
    <2>5. CASE SentTo(bus.buf, bus'.buf, loop.ev)
        <3>1. /\ RanksIn(bus'.buf, t, n) \subseteq RanksIn(bus.buf, t, n) \cup RankOf(loop.ev, t, n)
              /\ (\A a \in RanksIn(bus.buf, t, n), b \in RankOf(loop.ev, t, n) : a < b)
                    => InOrder(bus'.buf, t, n)
            BY <2>1, <2>5, RanksSent
        <3> QED BY <1>0, <2>2, <2>3, <3>1
    <2> QED BY <1>2, <2>4, <2>5
<1>4. ASSUME NEW c \in Clients, NEW t \in Tasks
      PROVE  /\ InLine(Line(c, t)', 2 * store'[t].stages + 2)
             /\ \A a \in Bridged(t), b \in Looped(t) : a < b
    <2> DEFINE X == Looped(t)
    <2>1. Bridged(t)' \subseteq Bridged(t) \cup X /\ Looped(t)' = {}
        BY <1>3
    <2>2. /\ Seen(c, t)' = Seen(c, t) /\ Waiting(c, t)' = Waiting(c, t)
          /\ Pumped(t)' = Pumped(t) /\ Emitted(t)' = Emitted(t)
        BY <1>0, SamePlaces
    <2>3. 4 \in 1..6 /\ 4 + 1 = 5 /\ 5 \in 1..6 /\ 4 \in 1..7 /\ 5 \in 1..7 /\ 4 < 5
        BY SMT
    <2>4. /\ X \subseteq 1..(2 * store[t].stages + 2)
          /\ \A a \in Bridged(t), b \in Looped(t) : a < b
        BY <1>1, <2>3, LineAt DEF InLines, InLine
    <2>5. \A b \in Future(t)' : b \in Int /\ \E a \in Future(t) : a <= b
        BY <1>0, FutureSame
    <2>6. /\ X \subseteq Line(c, t)[4 + 1] /\ Line(c, t)'[4] \subseteq Line(c, t)[4] \cup X
          /\ \A a \in X, b \in Line(c, t)'[4 + 1] : a < b
        BY <2>1, <2>3, LineAt
    <2>7. store'[t].stages = store[t].stages
        BY <1>0
    <2> HIDE DEF X
    <2>8. InLine(Line(c, t)', 2 * store'[t].stages + 2)
        BY <1>1, <2>1, <2>2, <2>3, <2>4, <2>5, <2>6, <2>7, LineStep
    <2> QED BY <2>4, <2>8
<1>5. ChannelsInOrder'
    BY <1>0, <1>3, <1>4 DEF OrderInv, ChannelsInOrder
<1> QED BY <1>1, <1>4, <1>5 DEF OrderInv, InLines

(* The pump takes the head of the bridge's buffer.                         *)
LEMMA OrderPumpReceive ==
    ASSUME TypeOK, CustodyInv, OrderInv, [Next]_vars, UNCHANGED <<mgrVars, run, transVars>>,
           PumpReceive
    PROVE  OrderInv'
<1>0. /\ UNCHANGED <<store, req, run, tasksCh, eventsCh, loop, lastSeen, sseCh>>
      /\ pump.pc = "range" /\ bus.buf # <<>>
      /\ pump'.pc = "publish" /\ pump'.ev = Head(bus.buf) /\ bus'.buf = Tail(bus.buf)
      /\ bus.buf \in Seq(Event)
    BY DEF PumpReceive, mgrVars, transVars, TypeOK, FanoutTypeOK
<1>1. RunsFit' /\ InLines
    BY RunsFitStep DEF OrderInv
<1>2. ASSUME NEW c \in Clients, NEW t \in Tasks
      PROVE  /\ RankOf(Head(bus.buf), t, store[t].stages) \subseteq Bridged(t)
             /\ Bridged(t)' \subseteq Bridged(t)
             /\ \A a \in RankOf(Head(bus.buf), t, store[t].stages), b \in Bridged(t)' : a < b
             /\ InOrder(bus'.buf, t, store'[t].stages)
             /\ Pumped(t)' = RankOf(Head(bus.buf), t, store[t].stages)
    <2> DEFINE n == store[t].stages
    <2>1. InOrder(bus.buf, t, n)
        BY DEF OrderInv, ChannelsInOrder
    <2>2. /\ RankOf(Head(bus.buf), t, n) \subseteq RanksIn(bus.buf, t, n)
          /\ RanksIn(Tail(bus.buf), t, n) \subseteq RanksIn(bus.buf, t, n)
          /\ \A a \in RankOf(Head(bus.buf), t, n), b \in RanksIn(Tail(bus.buf), t, n) : a < b
          /\ InOrder(Tail(bus.buf), t, n)
        BY <1>0, <2>1, HeadMoves
    <2>3. Bridged(t) = RanksIn(bus.buf, t, n) /\ Bridged(t)' = RanksIn(Tail(bus.buf), t, n)
        BY <1>0 DEF Bridged
    <2>4. Pumped(t)' = RankOf(Head(bus.buf), t, n)
        BY <1>0 DEF Pumped
    <2> HIDE DEF n
    <2> QED BY <1>0, <2>2, <2>3, <2>4 DEF n
<1>3. ASSUME NEW c \in Clients, NEW t \in Tasks
      PROVE  InLine(Line(c, t)', 2 * store'[t].stages + 2)
    <2> DEFINE X == RankOf(Head(bus.buf), t, store[t].stages)
    <2>1. /\ X \subseteq Bridged(t) /\ Bridged(t)' \subseteq Bridged(t)
          /\ \A a \in X, b \in Bridged(t)' : a < b
          /\ Pumped(t)' = X
        BY <1>2
    <2> HIDE DEF X
    <2>2. /\ Seen(c, t)' = Seen(c, t) /\ Waiting(c, t)' = Waiting(c, t)
          /\ Looped(t)' = Looped(t) /\ Emitted(t)' = Emitted(t)
        BY <1>0, SamePlaces
    <2>3. 3 \in 1..6 /\ 3 + 1 = 4 /\ 4 \in 1..6
        BY SMT
    <2>4. X \subseteq 1..(2 * store[t].stages + 2)
        BY <1>1, <2>1, <2>3, LineAt DEF InLines, InLine
    <2>5. \A b \in Future(t)' : b \in Int /\ \E a \in Future(t) : a <= b
        BY <1>0, FutureSame
    <2>6. /\ X \subseteq Line(c, t)[3 + 1] /\ Line(c, t)'[3] \subseteq Line(c, t)[3] \cup X
          /\ \A a \in X, b \in Line(c, t)'[3 + 1] : a < b
        BY <2>1, <2>3, LineAt
    <2>7. store'[t].stages = store[t].stages
        BY <1>0
    <2> QED BY <1>1, <2>1, <2>2, <2>3, <2>4, <2>5, <2>6, <2>7, LineStep
<1>4. ChannelsInOrder'
    BY <1>0, <1>2 DEF OrderInv, ChannelsInOrder
<1> QED BY <1>1, <1>3, <1>4 DEF OrderInv, InLines

(* The hub offers the pump's event to the channels of one user.            *)
LEMMA OrderHubPublish ==
    ASSUME TypeOK, CustodyInv, OrderInv, [Next]_vars, UNCHANGED <<mgrVars, run, transVars>>,
           HubPublish
    PROVE  OrderInv'
<1>0. /\ UNCHANGED <<store, req, run, tasksCh, eventsCh, loop, lastSeen, bus>>
      /\ pump.pc = "publish" /\ pump'.pc = "range"
      /\ \A c \in Clients : \/ sseCh'[c] = sseCh[c]
                            \/ sseCh'[c] = Offer(sseCh[c], pump.ev, SubCap)
      /\ \A c \in Clients : sseCh[c] \in Seq(Event)
      /\ pump.ev \in Event
    BY DEF HubPublish, mgrVars, transVars, TypeOK, FanoutTypeOK
<1>1. RunsFit' /\ InLines
    BY RunsFitStep DEF OrderInv
<1>2. ASSUME NEW c \in Clients
      PROVE  sseCh'[c] = sseCh[c] \/ SentTo(sseCh[c], sseCh'[c], pump.ev)
    BY <1>0, OfferSent
<1>3. ASSUME NEW c \in Clients, NEW t \in Tasks
      PROVE  /\ Pumped(t)' = {}
             /\ Waiting(c, t)' \subseteq Waiting(c, t) \cup Pumped(t)
             /\ (\A a \in Waiting(c, t), b \in Pumped(t) : a < b)
                   => InOrder(sseCh'[c], t, store'[t].stages)
    <2> DEFINE n == store[t].stages
    <2>1. InOrder(sseCh[c], t, n)
        BY DEF OrderInv, ChannelsInOrder
    <2>2. Pumped(t) = RankOf(pump.ev, t, n) /\ Pumped(t)' = {}
        BY <1>0 DEF Pumped
    <2>3. Waiting(c, t) = RanksIn(sseCh[c], t, n) /\ Waiting(c, t)' = RanksIn(sseCh'[c], t, n)
        BY <1>0 DEF Waiting
    <2>4. CASE sseCh'[c] = sseCh[c]
        BY <1>0, <2>1, <2>2, <2>3, <2>4
    <2>5. CASE SentTo(sseCh[c], sseCh'[c], pump.ev)
        <3>1. /\ RanksIn(sseCh'[c], t, n) \subseteq RanksIn(sseCh[c], t, n) \cup RankOf(pump.ev, t, n)
              /\ (\A a \in RanksIn(sseCh[c], t, n), b \in RankOf(pump.ev, t, n) : a < b)
                    => InOrder(sseCh'[c], t, n)
            BY <2>1, <2>5, RanksSent
        <3> QED BY <1>0, <2>2, <2>3, <3>1
    <2> QED BY <1>2, <2>4, <2>5
<1>4. ASSUME NEW c \in Clients, NEW t \in Tasks
      PROVE  /\ InLine(Line(c, t)', 2 * store'[t].stages + 2)
             /\ \A a \in Waiting(c, t), b \in Pumped(t) : a < b
    <2> DEFINE X == Pumped(t)
    <2>1. Waiting(c, t)' \subseteq Waiting(c, t) \cup X /\ Pumped(t)' = {}
        BY <1>3
    <2>2. /\ Seen(c, t)' = Seen(c, t) /\ Bridged(t)' = Bridged(t)
          /\ Looped(t)' = Looped(t) /\ Emitted(t)' = Emitted(t)
        BY <1>0, SamePlaces
    <2>3. 2 \in 1..6 /\ 2 + 1 = 3 /\ 3 \in 1..6 /\ 2 \in 1..7 /\ 3 \in 1..7 /\ 2 < 3
        BY SMT
    <2>4. /\ X \subseteq 1..(2 * store[t].stages + 2)
          /\ \A a \in Waiting(c, t), b \in Pumped(t) : a < b
        BY <1>1, <2>3, LineAt DEF InLines, InLine
    <2>5. \A b \in Future(t)' : b \in Int /\ \E a \in Future(t) : a <= b
        BY <1>0, FutureSame
    <2>6. /\ X \subseteq Line(c, t)[2 + 1] /\ Line(c, t)'[2] \subseteq Line(c, t)[2] \cup X
          /\ \A a \in X, b \in Line(c, t)'[2 + 1] : a < b
        BY <2>1, <2>3, LineAt
    <2>7. store'[t].stages = store[t].stages
        BY <1>0
    <2> HIDE DEF X
    <2>8. InLine(Line(c, t)', 2 * store'[t].stages + 2)
        BY <1>1, <2>1, <2>2, <2>3, <2>4, <2>5, <2>6, <2>7, LineStep
    <2> QED BY <2>4, <2>8
<1>5. ChannelsInOrder'
    BY <1>0, <1>3, <1>4 DEF OrderInv, ChannelsInOrder
<1> QED BY <1>1, <1>4, <1>5 DEF OrderInv, InLines

(* SSEStream writes the head of its channel to the page.                   *)
LEMMA WriteEffect ==
    ASSUME TypeOK, NEW d \in Clients, SSEWrite(d)
    PROVE  /\ UNCHANGED <<bus, pump>>
           /\ sseCh[d] \in Seq(Event) /\ sseCh[d] # <<>>
           /\ Head(sseCh[d]) \in Event /\ Head(sseCh[d]).task \in Tasks
           /\ 1 \in 1..Len(sseCh[d]) /\ Head(sseCh[d]) = sseCh[d][1]
           /\ sseCh'[d] = Tail(sseCh[d])
           /\ \A c \in Clients : c # d => sseCh'[c] = sseCh[c] /\ lastSeen'[c] = lastSeen[c]
           /\ \A t \in Tasks : t # Head(sseCh[d]).task => lastSeen'[d][t] = lastSeen[d][t]
           /\ lastSeen'[d][Head(sseCh[d]).task] = Head(sseCh[d])
<1>0. /\ sseCh \in [Clients -> Seq(Event)]
      /\ lastSeen \in [Clients -> [Tasks -> Event \cup {NoEvent}]]
      /\ sseCh[d] # <<>>
      /\ lastSeen' = [lastSeen EXCEPT ![d][Head(sseCh[d]).task] = Head(sseCh[d])]
      /\ sseCh' = [sseCh EXCEPT ![d] = Tail(@)]
      /\ UNCHANGED <<bus, pump>>
    BY DEF TypeOK, FanoutTypeOK, SSEWrite
<1>1. PICK s \in Seq(Event) : s = sseCh[d]
    BY <1>0
<1>2. Head(s) \in Event /\ 1 \in 1..Len(s) /\ Head(s) = s[1]
    BY <1>0, <1>1, ReceiveElements
<1>3. PICK h \in Event : h = Head(s)
    BY <1>2
<1>4. h.task \in Tasks
    BY <1>3 DEF Event
<1>5. lastSeen' = [lastSeen EXCEPT ![d] = [lastSeen[d] EXCEPT ![h.task] = h]]
    BY <1>0, <1>1, <1>3
<1>6. lastSeen'[d] = [lastSeen[d] EXCEPT ![h.task] = h]
    BY <1>0, <1>5
<1>7. /\ \A t \in Tasks : t # h.task => lastSeen'[d][t] = lastSeen[d][t]
      /\ lastSeen'[d][h.task] = h
    BY <1>0, <1>4, <1>6
<1>8. \A c \in Clients : c # d => sseCh'[c] = sseCh[c] /\ lastSeen'[c] = lastSeen[c]
    BY <1>0, <1>5
<1>9. sseCh'[d] = Tail(sseCh[d])
    BY <1>0
<1> QED BY <1>0, <1>1, <1>2, <1>3, <1>4, <1>7, <1>8, <1>9

LEMMA OrderWrite ==
    ASSUME TypeOK, CustodyInv, OrderInv, [Next]_vars, UNCHANGED <<mgrVars, run, transVars>>,
           NEW d \in Clients, SSEWrite(d)
    PROVE  OrderInv'
<1>0. UNCHANGED <<store, req, run, tasksCh, eventsCh, loop, bus, pump>>
    BY DEF SSEWrite, mgrVars, transVars
<1>a. PICK h \in Event : h = Head(sseCh[d])
    BY WriteEffect
<1>b. /\ sseCh[d] \in Seq(Event) /\ sseCh[d] # <<>>
      /\ sseCh'[d] = Tail(sseCh[d])
      /\ \A c \in Clients : c # d => sseCh'[c] = sseCh[c] /\ lastSeen'[c] = lastSeen[c]
      /\ \A t \in Tasks : t # h.task => lastSeen'[d][t] = lastSeen[d][t]
      /\ lastSeen'[d][h.task] = h
    BY <1>a, WriteEffect
<1>1. RunsFit' /\ InLines
    BY RunsFitStep DEF OrderInv
<1>2. ASSUME NEW c \in Clients, NEW t \in Tasks
      PROVE  \E X : /\ X \subseteq Waiting(c, t)
                    /\ Waiting(c, t)' \subseteq Waiting(c, t)
                    /\ \A a \in X, b \in Waiting(c, t)' : a < b
                    /\ Seen(c, t)' \subseteq Seen(c, t) \cup X
                    /\ InOrder(sseCh'[c], t, store'[t].stages)
    <2> DEFINE n == store[t].stages
    <2>1. InOrder(sseCh[c], t, n)
        BY DEF OrderInv, ChannelsInOrder
    <2>2. Waiting(c, t) = RanksIn(sseCh[c], t, n) /\ Waiting(c, t)' = RanksIn(sseCh'[c], t, n)
        BY <1>0 DEF Waiting
    <2>3. CASE c # d
        <3>1. Waiting(c, t)' = Waiting(c, t) /\ Seen(c, t)' = Seen(c, t)
            BY <1>0, <1>b, <2>3, SamePlaces
        <3>2. InOrder(sseCh'[c], t, store'[t].stages)
            BY <1>0, <1>b, <2>1, <2>3
        <3> DEFINE X == {}
        <3>3. X \subseteq Waiting(c, t) /\ \A a \in X, b \in Waiting(c, t)' : a < b
            OBVIOUS
        <3> HIDE DEF X
        <3> QED BY <3>1, <3>2, <3>3
    <2>4. CASE c = d
        <3>1. /\ RankOf(h, t, n) \subseteq RanksIn(sseCh[d], t, n)
              /\ RanksIn(Tail(sseCh[d]), t, n) \subseteq RanksIn(sseCh[d], t, n)
              /\ \A a \in RankOf(h, t, n), b \in RanksIn(Tail(sseCh[d]), t, n) : a < b
              /\ InOrder(Tail(sseCh[d]), t, n)
            BY <1>a, <1>b, <2>1, <2>4, HeadMoves
        <3>2. Seen(c, t)' \subseteq Seen(c, t) \cup RankOf(h, t, n)
            <4>1. CASE t # h.task
                <5>1. lastSeen'[c][t] = lastSeen[c][t]
                    BY <1>b, <2>4, <4>1
                <5> QED BY <1>0, <5>1, SamePlaces
            <4>2. CASE t = h.task
                <5>1. lastSeen'[c][t] = h /\ store' = store
                    BY <1>0, <1>b, <2>4, <4>2
                <5> QED BY <4>2, <5>1 DEF Seen, RankOf
            <4> QED BY <4>1, <4>2
        <3>3. InOrder(sseCh'[c], t, store'[t].stages)
            BY <1>0, <1>b, <2>4, <3>1
        <3>4. Waiting(c, t)' = RanksIn(Tail(sseCh[d]), t, n) /\ Waiting(c, t) = RanksIn(sseCh[d], t, n)
            BY <1>b, <2>2, <2>4
        <3> HIDE DEF n
        <3> WITNESS RankOf(h, t, n)
        <3> QED BY <3>1, <3>2, <3>3, <3>4
    <2> QED BY <2>3, <2>4
<1>3. ASSUME NEW c \in Clients, NEW t \in Tasks
      PROVE  InLine(Line(c, t)', 2 * store'[t].stages + 2)
    <2>1. PICK X : /\ X \subseteq Waiting(c, t)
                   /\ Waiting(c, t)' \subseteq Waiting(c, t)
                   /\ \A a \in X, b \in Waiting(c, t)' : a < b
                   /\ Seen(c, t)' \subseteq Seen(c, t) \cup X
        BY <1>2
    <2>2. /\ Pumped(t)' = Pumped(t) /\ Bridged(t)' = Bridged(t)
          /\ Looped(t)' = Looped(t) /\ Emitted(t)' = Emitted(t)
        BY <1>0, SamePlaces
    <2>3. 1 \in 1..6 /\ 1 + 1 = 2 /\ 2 \in 1..6
        BY SMT
    <2>4. X \subseteq 1..(2 * store[t].stages + 2)
        BY <1>1, <2>1, <2>3, LineAt DEF InLines, InLine
    <2>5. \A b \in Future(t)' : b \in Int /\ \E a \in Future(t) : a <= b
        BY <1>0, FutureSame
    <2>6. /\ X \subseteq Line(c, t)[1 + 1] /\ Line(c, t)'[1] \subseteq Line(c, t)[1] \cup X
          /\ \A a \in X, b \in Line(c, t)'[1 + 1] : a < b
        BY <2>1, <2>3, LineAt
    <2>7. store'[t].stages = store[t].stages
        BY <1>0
    <2> QED BY <1>1, <2>1, <2>2, <2>3, <2>4, <2>5, <2>6, <2>7, LineStep
<1>4. ChannelsInOrder'
    BY <1>0, <1>2 DEF OrderInv, ChannelsInOrder
<1> QED BY <1>1, <1>3, <1>4 DEF OrderInv, InLines

(* Run passes its next event to Emit.                                      *)
LEMMA FutureOfEmit ==
    ASSUME TypeOK, CustodyInv, OrderInv, NEW w \in Runs, Emit(w), NEW t \in Tasks
    PROVE  /\ RankOf(EmitEvent(w), t, store[t].stages) \subseteq Future(t)
           /\ RankOf(EmitEvent(w), t, store[t].stages) \subseteq 1..(2 * store[t].stages + 2)
           /\ \A a \in RankOf(EmitEvent(w), t, store[t].stages), b \in Future(t)' : a < b
           /\ \A b \in Future(t)' : b \in Int /\ \E a \in Future(t) : a <= b
<1>0. /\ ExecTypeOK /\ EmitDone(w) /\ UNCHANGED <<store, req, tasksCh>>
    BY DEF TypeOK, Emit, mgrVars
<1>1. /\ Busy(w) /\ EmitEvent(w).task = run[w].task
      /\ Busy(w)' => run'[w].task = run[w].task
      /\ \A x \in Runs : x # w => run'[x] = run[x]
    BY <1>0, EmitOutcome
<1>2. \A x \in Runs : x # w => (Busy(x)' <=> Busy(x))
    BY <1>1 DEF Busy
<1>3. Queued(t)' <=> Queued(t)
    BY <1>0 DEF Queued
<1>4. \A b \in Int : b <= b
    BY SMT
<1>5. CASE run[w].task # t
    <2>1. RankOf(EmitEvent(w), t, store[t].stages) = {}
        BY <1>1, <1>5 DEF RankOf
    <2>2. \A b \in Future(t)' : b \in Future(t)
        <3> SUFFICES ASSUME NEW b \in Future(t)' PROVE b \in Future(t)
            OBVIOUS
        <3>1. \/ \E x \in Runs : Busy(x)' /\ run'[x].task = t /\ b = NextRank(run'[x])
              \/ b = 1 /\ (req'[t].pc \in {"new", "dispatch"} \/ Queued(t)')
            BY FutureMember
        <3>2. \/ \E x \in Runs : Busy(x) /\ run[x].task = t /\ b = NextRank(run[x])
              \/ b = 1 /\ (req[t].pc \in {"new", "dispatch"} \/ Queued(t))
            BY <1>0, <1>1, <1>2, <1>3, <1>5, <3>1
        <3> QED BY <3>2, FutureMember
    <2> QED BY <1>4, <2>1, <2>2, FutureInt
<1>6. CASE run[w].task = t
    <2> DEFINE k == NextRank(run[w])
    <2>1. /\ InFlight(t) /\ Executing(t)
          /\ ~Queued(t) /\ ~(req[t].pc \in {"new", "dispatch"})
        <3>1. InFlight(t) /\ Executing(t)
            BY <1>1, <1>6, RunRecorded DEF Executing
        <3> QED BY <3>1 DEF CustodyInv, OnePlace, InFlight, Dispatched
    <2>2. run[w].total = store[t].stages
        BY <1>1, <1>6 DEF OrderInv, RunsFit
    <2>3. RankOf(EmitEvent(w), t, store[t].stages) = {k}
        BY <1>0, <1>1, <1>6, <2>2, EmitRank DEF RankOf
    <2>4. k \in 1..(2 * store[t].stages + 2)
        BY <1>0, <1>1, <2>2, NextRankType
    <2>5. k \in Future(t)
        BY <1>1, <1>6, FutureMember
    <2>6. ASSUME NEW b \in Future(t)' PROVE b \in Int /\ k < b
        <3>1. \/ \E x \in Runs : Busy(x)' /\ run'[x].task = t /\ b = NextRank(run'[x])
              \/ b = 1 /\ (req'[t].pc \in {"new", "dispatch"} \/ Queued(t)')
            BY FutureMember
        <3>2. PICK x \in Runs : Busy(x)' /\ run'[x].task = t /\ b = NextRank(run'[x])
            BY <1>0, <1>3, <2>1, <3>1
        <3>3. x = w
            <4>1. CASE x # w
                BY <1>1, <1>2, <1>6, <3>2, <4>1 DEF CustodyInv, NoDuplicates
            <4> QED BY <4>1
        <3> QED BY <1>0, <3>2, <3>3, EmitRank
    <2>7. k \in Int
        BY <2>5, FutureInt
    <2> HIDE DEF k
    <2>8. \A b \in Future(t)' : k <= b
        BY <2>6, <2>7
    <2> QED BY <2>3, <2>4, <2>5, <2>6, <2>8
<1> QED BY <1>5, <1>6

LEMMA OrderEmit ==
    ASSUME TypeOK, CustodyInv, OrderInv, [Next]_vars, NEW w \in Runs, Emit(w)
    PROVE  OrderInv'
<1>0. /\ UNCHANGED <<store, req, tasksCh, loop, lastSeen, sseCh, bus, pump>>
      /\ eventsCh' = Offer(eventsCh, EmitEvent(w), EventsCap)
      /\ eventsCh \in Seq(Event) /\ ExecTypeOK /\ run[w].pc \in EmitPc
    BY DEF Emit, EmitDone, mgrVars, fanoutVars, TypeOK
<1>1. RunsFit' /\ InLines
    BY RunsFitStep DEF OrderInv
<1>2. PICK e \in Event : e = EmitEvent(w)
    BY <1>0, EmitEventType
<1>3. eventsCh' = eventsCh \/ SentTo(eventsCh, eventsCh', e)
    BY <1>0, <1>2, OfferSent
<1>4. ASSUME NEW c \in Clients, NEW t \in Tasks
      PROVE  /\ Emitted(t)' \subseteq Emitted(t) \cup RankOf(e, t, store[t].stages)
             /\ (\A a \in Emitted(t), b \in RankOf(e, t, store[t].stages) : a < b)
                   => InOrder(eventsCh', t, store'[t].stages)
    <2> DEFINE n == store[t].stages
    <2>1. InOrder(eventsCh, t, n)
        BY DEF OrderInv, ChannelsInOrder
    <2>3. Emitted(t) = RanksIn(eventsCh, t, n) /\ Emitted(t)' = RanksIn(eventsCh', t, n)
        BY <1>0 DEF Emitted
    <2>4. CASE eventsCh' = eventsCh
        BY <1>0, <2>1, <2>3, <2>4
    <2>5. CASE SentTo(eventsCh, eventsCh', e)
        <3>1. /\ RanksIn(eventsCh', t, n) \subseteq RanksIn(eventsCh, t, n) \cup RankOf(e, t, n)
              /\ (\A a \in RanksIn(eventsCh, t, n), b \in RankOf(e, t, n) : a < b)
                    => InOrder(eventsCh', t, n)
            BY <2>1, <2>5, RanksSent
        <3> QED BY <1>0, <2>3, <3>1
    <2> QED BY <1>3, <2>4, <2>5
<1>5. ASSUME NEW c \in Clients, NEW t \in Tasks
      PROVE  /\ InLine(Line(c, t)', 2 * store'[t].stages + 2)
             /\ \A a \in Emitted(t), b \in RankOf(e, t, store[t].stages) : a < b
    <2> DEFINE X == RankOf(e, t, store[t].stages)
    <2>0. /\ X \subseteq Future(t) /\ X \subseteq 1..(2 * store[t].stages + 2)
          /\ \A a \in X, b \in Future(t)' : a < b
          /\ \A b \in Future(t)' : b \in Int /\ \E a \in Future(t) : a <= b
        BY <1>2, FutureOfEmit
    <2>1. Emitted(t)' \subseteq Emitted(t) \cup X
        BY <1>4
    <2> HIDE DEF X
    <2>2. /\ Seen(c, t)' = Seen(c, t) /\ Waiting(c, t)' = Waiting(c, t)
          /\ Pumped(t)' = Pumped(t) /\ Bridged(t)' = Bridged(t) /\ Looped(t)' = Looped(t)
        BY <1>0, SamePlaces
    <2>3. 6 \in 1..6 /\ 6 + 1 = 7 /\ 6 \in 1..7 /\ 7 \in 1..7 /\ 6 < 7
        BY SMT
    <2>4. \A a \in Emitted(t), b \in X : a < b
        BY <1>1, <2>0, <2>3, LineAt DEF InLines, InLine
    <2>6. /\ X \subseteq Line(c, t)[6 + 1] /\ Line(c, t)'[6] \subseteq Line(c, t)[6] \cup X
          /\ \A a \in X, b \in Line(c, t)'[6 + 1] : a < b
        BY <2>0, <2>1, <2>3, LineAt
    <2>7. store'[t].stages = store[t].stages
        BY <1>0
    <2>8. InLine(Line(c, t)', 2 * store'[t].stages + 2)
        BY <1>1, <2>0, <2>1, <2>2, <2>3, <2>6, <2>7, LineStep
    <2> QED BY <2>4, <2>8 DEF X
<1>6. ChannelsInOrder'
    BY <1>0, <1>4, <1>5 DEF OrderInv, ChannelsInOrder
<1> QED BY <1>1, <1>5, <1>6 DEF OrderInv, InLines

(* What is yet to be emitted only moves on, where no event is emitted.     *)
LEMMA FutureSubmit ==
    ASSUME TypeOK, NEW x \in Tasks, Submit(x) \/ Handler(x), NEW t \in Tasks
    PROVE  \A b \in Future(t)' : b \in Int /\ \E a \in Future(t) : a <= b
<1>0. run' = run /\ req \in [Tasks -> ReqState] /\ tasksCh \in Seq(Tasks)
    BY DEF Submit, Handler, DispatchOk, DispatchFull, RecordDispatched, RecordRejected,
           TypeOK, MgrTypeOK
<1>1. req'[t].pc \in {"new", "dispatch"} => req[t].pc \in {"new", "dispatch"}
    BY <1>0 DEF Submit, SubmitCreate, Handler, DispatchOk, DispatchFull, RecordDispatched,
                RecordRejected, SubmitDispatched, SubmitRefused, SubmitStamp, SubmitFail, ReqState
<1>2. Queued(t)' => Queued(t) \/ req[t].pc \in {"new", "dispatch"}
    <2>1. CASE tasksCh' = tasksCh
        BY <2>1 DEF Queued
    <2>2. CASE DispatchOk(x)
        <3>1. tasksCh' = Append(tasksCh, x) /\ req[x].pc = "dispatch"
            BY <2>2 DEF DispatchOk, SubmitDispatched
        <3>2. \A i \in 1..Len(tasksCh') : \/ i \in 1..Len(tasksCh) /\ tasksCh'[i] = tasksCh[i]
                                          \/ tasksCh'[i] = x
            BY <1>0, <3>1
        <3> QED BY <3>1, <3>2 DEF Queued
    <2> QED BY <2>1, <2>2 DEF Submit, Handler, DispatchFull, RecordDispatched, RecordRejected,
                              transVars
<1>3. ASSUME NEW b \in Future(t)' PROVE b \in Future(t)
    <2>1. \/ \E w \in Runs : Busy(w)' /\ run'[w].task = t /\ b = NextRank(run'[w])
          \/ b = 1 /\ (req'[t].pc \in {"new", "dispatch"} \/ Queued(t)')
        BY FutureMember
    <2>2. \/ \E w \in Runs : Busy(w) /\ run[w].task = t /\ b = NextRank(run[w])
          \/ b = 1 /\ (req[t].pc \in {"new", "dispatch"} \/ Queued(t))
        BY <1>0, <1>1, <1>2, <2>1 DEF Busy
    <2> QED BY <2>2, FutureMember
<1>4. \A b \in Int : b <= b
    BY SMT
<1> QED BY <1>3, <1>4, FutureInt

LEMMA FutureWorker ==
    ASSUME TypeOK, NEW w \in Runs, WorkerReceive(w) \/ Stage(w) \/ WorkerExit(w), NEW t \in Tasks
    PROVE  \A b \in Future(t)' : b \in Int /\ \E a \in Future(t) : a <= b
<1>0. /\ run \in [Runs -> RunState \cup {Idle, Exited}] /\ tasksCh \in Seq(Tasks)
      /\ req' = req /\ ExecTypeOK
    BY DEF WorkerReceive, Stage, WorkerExit, mgrVars, TypeOK, ExecTypeOK
<1>1. \A x \in Runs : x # w => run'[x] = run[x] /\ (Busy(x)' <=> Busy(x))
    BY <1>0 DEF WorkerReceive, RunStart, Stage, StageSleep, StageCancelled, WorkerExit, RunExit, Busy
<1>2. Queued(t)' => Queued(t)
    <2>1. CASE tasksCh' = tasksCh
        BY <2>1 DEF Queued
    <2>2. CASE WorkerReceive(w)
        <3>1. tasksCh' = Tail(tasksCh) /\ tasksCh # <<>>
            BY <2>2 DEF WorkerReceive
        <3>2. \A i \in 1..Len(Tail(tasksCh)) : i + 1 \in 1..Len(tasksCh) /\ Tail(tasksCh)[i] = tasksCh[i + 1]
            BY <1>0, <3>1, ReceiveElements
        <3> QED BY <3>1, <3>2 DEF Queued
    <2> QED BY <2>1, <2>2 DEF Stage, WorkerExit, transVars
<1>3. ASSUME Busy(w)', run'[w].task = t
      PROVE  NextRank(run'[w]) \in Int /\ \E a \in Future(t) : a <= NextRank(run'[w])
    <2>1. CASE WorkerReceive(w)
        <3>1. /\ run'[w].pc = "running" /\ run'[w].task = Head(tasksCh) /\ tasksCh # <<>>
            BY <1>0, <2>1 DEF WorkerReceive, RunStart
        <3>2. Queued(t)
            BY <1>0, <1>3, <3>1, ReceiveElements DEF Queued
        <3>3. 1 \in Future(t) /\ NextRank(run'[w]) = 1
            BY <3>1, <3>2, FutureMember DEF NextRank
        <3> QED BY <3>3
    <2>2. CASE Stage(w)
        <3> DEFINE s == run[w]
                   r == run'[w]
        <3>1. s.pc = "sleep" /\ Busy(w)
            BY <2>2 DEF Stage, StageSleep, StageCancelled, Busy, BusyPc
        <3>2. s \in RunState /\ s.stage < s.total
            BY <1>0, <3>1, BusyTask DEF ExecTypeOK
        <3>3. /\ r.task = s.task /\ r.stage = s.stage /\ r.total = s.total
              /\ r.pc \in {"end", "failed"}
            BY <1>0, <2>2, <3>2 DEF Stage, StageSleep, StageCancelled, RunState
        <3>4. s.stage \in 0..MaxStages /\ s.total \in 1..MaxStages
            BY <3>2 DEF RunState
        <3>5. NextRank(s) \in Future(t)
            BY <1>3, <3>1, <3>3, FutureMember
        <3> HIDE DEF s, r
        <3>6. NextRank(s) = 2 * s.stage + 3
            BY <3>1 DEF NextRank
        <3>7. NextRank(r) = 2 * s.stage + 3 \/ NextRank(r) = 2 * s.total + 2
            BY <3>3 DEF NextRank
        <3>8. NextRank(r) \in Int /\ NextRank(s) <= NextRank(r)
            BY <3>2, <3>4, <3>6, <3>7 DEF MaxStages
        <3> QED BY <3>5, <3>8 DEF r
    <2>3. CASE WorkerExit(w)
        BY <1>0, <1>3, <2>3 DEF WorkerExit, RunExit, Exited, Busy, BusyPc, EmitPc
    <2> QED BY <2>1, <2>2, <2>3
<1>4. ASSUME NEW b \in Future(t)' PROVE b \in Int /\ \E a \in Future(t) : a <= b
    <2>1. \/ \E x \in Runs : Busy(x)' /\ run'[x].task = t /\ b = NextRank(run'[x])
          \/ b = 1 /\ (req'[t].pc \in {"new", "dispatch"} \/ Queued(t)')
        BY FutureMember
    <2>2. \/ Busy(w)' /\ run'[w].task = t /\ b = NextRank(run'[w])
          \/ \E x \in Runs : Busy(x) /\ run[x].task = t /\ b = NextRank(run[x])
          \/ b = 1 /\ (req[t].pc \in {"new", "dispatch"} \/ Queued(t))
        BY <1>0, <1>1, <1>2, <2>1
    <2>3. CASE b \in Future(t)
        <3>1. b \in Int
            BY <2>3, FutureInt
        <3>2. b <= b
            BY <3>1
        <3> QED BY <2>3, <3>1, <3>2
    <2> QED BY <1>3, <2>2, <2>3, FutureMember
<1> QED BY <1>4

(* Looking up the user changes neither the task nor the rank of an event.  *)
LEMMA EnrichedRank ==
    ASSUME NEW ev \in Event, NEW n
    PROVE  Enriched(ev).task = ev.task /\ Rank(Enriched(ev), n) = Rank(ev, n)
<1>1. CASE ~Exists(ev.task)
    BY <1>1 DEF Enriched
<1>2. CASE Exists(ev.task)
    <2>1. Enriched(ev) = [ev EXCEPT !.user = store[ev.task].user]
        BY <1>2 DEF Enriched
    <2>2. /\ Enriched(ev).task = ev.task /\ Enriched(ev).type = ev.type
          /\ Enriched(ev).stage = ev.stage /\ Enriched(ev).progress = ev.progress
          /\ Enriched(ev).status = ev.status
        BY <2>1 DEF Event
    <2> QED BY <2>2 DEF Rank
<1> QED BY <1>1, <1>2

(* The event the loop holds keeps its place until it is published.         *)
LEMMA LoopedStep ==
    ASSUME TypeOK, CustodyInv, [Next]_vars, Enrich \/ Persist \/ EventLoopExit, NEW t \in Tasks
    PROVE  Looped(t)' \subseteq Looped(t) \/ loop' = loop
<1>0. /\ loop \in [pc : LoopPc, ev : Event \cup {NoEvent}]
      /\ loop.pc \in {"enrich", "persist", "publish"} => loop.ev \in Event
    BY DEF TypeOK, MgrTypeOK
<1>1. CASE EventLoopExit
    <2>1. loop'.pc = "exit"
        BY <1>0, <1>1 DEF EventLoopExit, LoopExit
    <2> QED BY <2>1 DEF Looped
<1>2. CASE Enrich
    <2>1. /\ loop.pc = "enrich" /\ loop'.ev = Enriched(loop.ev) /\ store' = store
          /\ loop.ev \in Event
        BY <1>0, <1>2 DEF Enrich, LoopEnrich
    <2>2. /\ Enriched(loop.ev).task = loop.ev.task
          /\ Rank(Enriched(loop.ev), store[t].stages) = Rank(loop.ev, store[t].stages)
        BY <2>1, EnrichedRank
    <2>3. Looped(t) = RankOf(loop.ev, t, store[t].stages)
        BY <2>1 DEF Looped
    <2>4. Looped(t)' \subseteq RankOf(Enriched(loop.ev), t, store[t].stages)
        BY <2>1 DEF Looped
    <2> QED BY <2>2, <2>3, <2>4 DEF RankOf
<1>3. CASE Persist
    <2>1. /\ loop.pc = "persist" /\ loop'.pc = "publish" /\ loop'.ev = loop.ev
        BY <1>0, <1>3 DEF Persist, LoopPersist
    <2>2. CASE store'[t].stages = store[t].stages
        BY <2>1, <2>2 DEF Looped
    <2>3. CASE Submit(t)
        BY <2>3 DEF Submit, SubmitCreate
    <2> QED BY <2>2, <2>3, RowsSteady
<1> QED BY <1>1, <1>2, <1>3

LEMMA OrderStep ==
    TypeOK /\ CustodyInv /\ RouteInv /\ OrderInv /\ [Next]_vars => OrderInv'
<1> SUFFICES ASSUME TypeOK, CustodyInv, RouteInv, OrderInv, [Next]_vars PROVE OrderInv'
    OBVIOUS
<1>0. /\ bus \in [buf : Seq(Event), live : BOOLEAN, closed : BOOLEAN]
      /\ sseCh \in [Clients -> Seq(Event)]
      /\ pump \in [pc : PumpPc, ev : Event \cup {NoEvent}]
    BY DEF TypeOK, FanoutTypeOK
<1>1. ASSUME NEW t \in Tasks, Submit(t) \/ Handler(t) PROVE OrderInv'
    <2>1. UNCHANGED <<lastSeen, sseCh, eventsCh, bus, pump, loop>>
        BY <1>1 DEF Submit, SubmitCreate, Handler, DispatchOk, DispatchFull, RecordDispatched,
                    RecordRejected, SubmitDispatched, SubmitRefused, SubmitStamp, SubmitFail,
                    fanoutVars, transVars
    <2>2. \A x \in Tasks : \A b \in Future(x)' : b \in Int /\ \E a \in Future(x) : a <= b
        BY <1>1, FutureSubmit
    <2> QED BY <2>1, <2>2, OrderQuiet
<1>2. ASSUME NEW w \in Runs, WorkerReceive(w) \/ Stage(w) \/ WorkerExit(w) PROVE OrderInv'
    <2>1. UNCHANGED <<lastSeen, sseCh, eventsCh, bus, pump, loop>>
        BY <1>2 DEF WorkerReceive, Stage, WorkerExit, mgrVars, fanoutVars, transVars
    <2>2. \A x \in Tasks : \A b \in Future(x)' : b \in Int /\ \E a \in Future(x) : a <= b
        BY <1>2, FutureWorker
    <2> QED BY <2>1, <2>2, OrderQuiet
<1>3. CASE Enrich \/ Persist \/ EventLoopExit
    <2>1. UNCHANGED <<lastSeen, sseCh, eventsCh, bus, pump, run, req, tasksCh>>
        BY <1>3 DEF Enrich, Persist, EventLoopExit, LoopEnrich, LoopPersist, LoopExit,
                    fanoutVars, transVars
    <2>2. \A x \in Tasks : \A b \in Future(x)' : b \in Int /\ \E a \in Future(x) : a <= b
        BY <2>1, FutureSame
    <2>3. \A x \in Tasks : Looped(x)' \subseteq Looped(x) \/ loop' = loop
        BY <1>3, LoopedStep
    <2> QED BY <2>1, <2>2, <2>3, OrderQuiet
<1>4. CASE Cancel \/ Unsubscribe \/ UNCHANGED vars
    <2>1. /\ UNCHANGED <<lastSeen, sseCh, eventsCh, pump, run, req, tasksCh, loop>>
          /\ bus'.buf = bus.buf
        BY <1>0, <1>4 DEF Cancel, Unsubscribe, BridgeDelete, BridgeClose,
                          mgrVars, fanoutVars, transVars, vars
    <2>2. \A x \in Tasks : \A b \in Future(x)' : b \in Int /\ \E a \in Future(x) : a <= b
        BY <2>1, FutureSame
    <2> QED BY <2>1, <2>2, OrderQuiet
<1>5. CASE Pump
    <2>1. UNCHANGED <<mgrVars, run, transVars>>
        BY <1>5 DEF Pump
    <2>2. CASE PumpExit
        <3>1. /\ UNCHANGED <<lastSeen, sseCh, eventsCh, bus, run, req, tasksCh, loop>>
              /\ pump'.pc # "publish"
            BY <1>0, <2>1, <2>2 DEF PumpExit, mgrVars, transVars
        <3>2. \A x \in Tasks : \A b \in Future(x)' : b \in Int /\ \E a \in Future(x) : a <= b
            BY <3>1, FutureSame
        <3> QED BY <3>1, <3>2, OrderQuiet
    <2> QED BY <1>5, <2>1, <2>2, OrderPumpReceive, OrderHubPublish DEF Pump
<1>6. ASSUME NEW c \in Clients, Client(c) PROVE OrderInv'
    <2>1. UNCHANGED <<mgrVars, run, transVars>>
        BY <1>6 DEF Client
    <2>2. CASE SSEConnect(c) \/ SSEDisconnect(c)
        <3>1. UNCHANGED <<lastSeen, eventsCh, bus, run, req, tasksCh, loop, pump>>
            BY <2>1, <2>2 DEF SSEConnect, SSEDisconnect, mgrVars, transVars
        <3>2. \A d \in Clients : sseCh'[d] = sseCh[d] \/ sseCh'[d] = <<>>
            BY <1>0, <2>2 DEF SSEConnect, SSEDisconnect
        <3>3. \A x \in Tasks : \A b \in Future(x)' : b \in Int /\ \E a \in Future(x) : a <= b
            BY <3>1, FutureSame
        <3> QED BY <3>1, <3>2, <3>3, OrderQuiet
    <2> QED BY <1>6, <2>1, <2>2, OrderWrite DEF Client
<1> QED BY <1>1, <1>2, <1>3, <1>4, <1>5, <1>6, OrderEmit, OrderReceive, OrderPublish
        DEF Next, Worker, EventLoop

LEMMA RouteOrderInit == Init => RouteInv /\ OrderInv
<1> SUFFICES ASSUME Init PROVE RouteInv /\ OrderInv
    OBVIOUS
<1>0. /\ eventsCh = <<>> /\ loop.pc = "receive" /\ bus.buf = <<>> /\ pump.pc = "range"
      /\ \A c \in Clients : sseCh[c] = <<>>
      /\ \A c \in Clients, t \in Tasks : lastSeen[c][t] = NoEvent
      /\ \A w \in Runs : ~Busy(w)
    BY DEF Init, MgrInit, FanoutInit, ExecInit, Idle, Busy, BusyPc, EmitPc
<1>1. Len(<<>>) = 0 /\ 1..0 = {}
    BY SMT
<1>2. RouteInv
    BY <1>0, <1>1 DEF RouteInv
<1>3. RunsFit /\ ChannelsInOrder
    BY <1>0, RanksNone DEF RunsFit, ChannelsInOrder
<1>4. ASSUME NEW c \in Clients, NEW t \in Tasks
      PROVE  InLine(Line(c, t), 2 * store[t].stages + 2)
    <2>1. /\ Seen(c, t) = {} /\ Waiting(c, t) = {} /\ Pumped(t) = {}
          /\ Bridged(t) = {} /\ Looped(t) = {} /\ Emitted(t) = {}
        BY <1>0, RanksNone DEF Seen, Waiting, Pumped, Bridged, Looped, Emitted
    <2>2. /\ \A k \in 1..6 : k = 1 \/ k = 2 \/ k = 3 \/ k = 4 \/ k = 5 \/ k = 6
          /\ \A k, l \in 1..7 : k < l => k \in 1..6
        BY SMT
    <2> DEFINE Q == Line(c, t)
               top == 2 * store[t].stages + 2
    <2>3. \A k \in 1..6 : Q[k] = {}
        BY <2>1, <2>2, LineAt
    <2>4. Q[7] \subseteq Int
        BY TypeInit, FutureInt, LineAt
    <2> HIDE DEF Q, top
    <2>5. InLine(Q, top)
        BY <2>2, <2>3, <2>4 DEF InLine
    <2> QED BY <2>5 DEF Q, top
<1> QED BY <1>2, <1>3, <1>4 DEF OrderInv, InLines

(* The two invariants hold in every reachable state.                       *)
THEOREM InductiveOrder == Spec => [](TypeOK /\ CustodyInv /\ RouteInv /\ OrderInv)
<1>1. Init => RouteInv /\ OrderInv
    BY RouteOrderInit
<1>2. TypeOK /\ CustodyInv /\ RouteInv /\ OrderInv /\ [Next]_vars => RouteInv' /\ OrderInv'
    BY RouteStep, OrderStep
<1> QED BY <1>1, <1>2, Inductive, PTL DEF Spec

(* No page is ever shown an event of another user's task.                  *)
THEOREM OwnTasksOnlyCorrect == Spec => []OwnTasksOnly
<1>1. RouteInv => OwnTasksOnly
    BY DEF RouteInv, OwnTasksOnly
<1> QED BY <1>1, InductiveOrder, PTL

-----------------------------------------------------------------------------
(* An event that reaches a page follows, in the order of emission, what    *)
(* the page shows of the task; after an ending there is nothing to show.   *)
LEMMA WriteForward ==
    ASSUME TypeOK, OrderInv, NEW d \in Clients, SSEWrite(d),
           NEW h \in Event, h = Head(sseCh[d]), lastSeen[d][h.task] # NoEvent
    PROVE  /\ Rank(lastSeen[d][h.task], store[h.task].stages) < Rank(h, store[h.task].stages)
           /\ ~IsTerminal(lastSeen[d][h.task])
<1>0. /\ h.task \in Tasks /\ 1 \in 1..Len(sseCh[d]) /\ h = sseCh[d][1]
    BY WriteEffect
<1>1. PICK t \in Tasks : t = h.task
    BY <1>0
<1> DEFINE n == store[t].stages
           e == lastSeen[d][t]
<1>2. InLine(Line(d, t), 2 * n + 2)
    BY DEF OrderInv, InLines
<1>3. 1 \in 1..6 /\ 2 \in 1..6 /\ 1 \in 1..7 /\ 2 \in 1..7 /\ 1 < 2
    BY SMT
<1>4. Seen(d, t) = {Rank(e, n)}
    BY <1>1 DEF Seen
<1>5. Rank(h, n) \in Waiting(d, t)
    BY <1>0, <1>1 DEF Waiting, RanksIn
<1>6. /\ Rank(e, n) < Rank(h, n)
      /\ Rank(e, n) \in 1..(2 * n + 2) /\ Rank(h, n) \in 1..(2 * n + 2)
    BY <1>2, <1>3, <1>4, <1>5, LineAt DEF InLine
<1>7. n \in Nat
    <2>1. n \in 0..MaxStages
        BY DEF TypeOK, MgrTypeOK, Row
    <2> QED BY <2>1 DEF MaxStages
<1>8. IsTerminal(e) => Rank(e, n) = 2 * n + 2
    BY DEF IsTerminal, Rank
<1> HIDE DEF n, e
<1>9. ~IsTerminal(e)
    BY <1>6, <1>7, <1>8
<1> QED BY <1>1, <1>6, <1>9 DEF n, e

(* Only SSEStream changes what a page shows.                               *)
LEMMA ShownBy ==
    ASSUME [Next]_vars
    PROVE  UNCHANGED lastSeen \/ \E d \in Clients : SSEWrite(d) /\ UNCHANGED store
BY DEF Next, Submit, Handler, DispatchOk, DispatchFull, RecordDispatched, RecordRejected,
       Worker, WorkerReceive, Emit, Stage, WorkerExit,
       EventLoop, ReceiveEvent, Enrich, Persist, Publish, BridgePublish, EventLoopExit,
       Cancel, Unsubscribe, BridgeDelete, BridgeClose, Pump, PumpReceive, HubPublish, PumpExit,
       Client, SSEConnect, SSEDisconnect, mgrVars, fanoutVars, vars

(* What a page shows of a task only moves forward.                         *)
THEOREM SeenInOrderCorrect == Spec => SeenInOrder
<1> DEFINE Forward ==
        \A c \in Clients, t \in Tasks :
          lastSeen'[c][t] # lastSeen[c][t] =>
             \/ lastSeen[c][t] = NoEvent
             \/ Rank(lastSeen[c][t], store[t].stages)
                   < Rank(lastSeen'[c][t], store[t].stages)
<1>1. ASSUME TypeOK, OrderInv, [Next]_vars PROVE Forward
    <2> SUFFICES ASSUME NEW c \in Clients, NEW t \in Tasks,
                        lastSeen'[c][t] # lastSeen[c][t], lastSeen[c][t] # NoEvent
                 PROVE  Rank(lastSeen[c][t], store[t].stages)
                           < Rank(lastSeen'[c][t], store[t].stages)
        OBVIOUS
    <2>1. PICK d \in Clients : SSEWrite(d)
        BY <1>1, ShownBy
    <2>2. PICK h \in Event : h = Head(sseCh[d])
        BY <1>1, <2>1, WriteEffect
    <2>3. c = d /\ t = h.task /\ lastSeen'[c][t] = h
        BY <1>1, <2>1, <2>2, WriteEffect
    <2> QED BY <1>1, <2>1, <2>2, <2>3, WriteForward
<1>2. TypeOK /\ OrderInv /\ [Next]_vars => [Forward]_vars
    BY <1>1
<1> QED BY <1>2, InductiveOrder, PTL DEF Spec, SeenInOrder

-----------------------------------------------------------------------------
(***************************************************************************)
(* The refinement of TaskLifecycle, with its three variables by name.      *)
(***************************************************************************)

StatusMap == [t \in Tasks |-> store[t].status]
OwnerMap == [t \in Tasks |-> store[t].user]
ToldMap ==
    [c \in Clients |-> [t \in Tasks |->
        IF lastSeen[c][t] # NoEvent /\ IsTerminal(lastSeen[c][t])
        THEN lastSeen[c][t].status ELSE "none"]]

LEMMA LifecycleSteps ==
    ASSUME NEW t \in Tasks
    PROVE  /\ /\ StatusMap[t] = "absent"
              /\ StatusMap' = [StatusMap EXCEPT ![t] = "pending"]
              /\ \E u \in UserIDs : OwnerMap' = [OwnerMap EXCEPT ![t] = u]
              /\ UNCHANGED ToldMap
              => Lifecycle!Next
           /\ \A s \in Terminal :
                 /\ StatusMap[t] = "pending"
                 /\ StatusMap' = [StatusMap EXCEPT ![t] = s]
                 /\ UNCHANGED <<OwnerMap, ToldMap>>
                 => Lifecycle!Next
           /\ \A c \in Clients :
                 /\ StatusMap[t] \in Terminal
                 /\ OwnerMap[t] = ClientUser[c]
                 /\ ToldMap[c][t] = "none"
                 /\ ToldMap' = [ToldMap EXCEPT ![c][t] = StatusMap[t]]
                 /\ UNCHANGED <<StatusMap, OwnerMap>>
                 => Lifecycle!Next
BY DEF StatusMap, OwnerMap, ToldMap, Terminal, Lifecycle!Next, Lifecycle!Record, Lifecycle!End,
       Lifecycle!Tell, Lifecycle!Endings

LEMMA LifecycleStutter ==
    UNCHANGED <<StatusMap, OwnerMap, ToldMap>> => UNCHANGED Lifecycle!vars
BY DEF StatusMap, OwnerMap, ToldMap, Lifecycle!vars

(* A status written over "pending" is an ending of the task.               *)
LEMMA EndRefines ==
    ASSUME TypeOK, NEW t \in Tasks, NEW s \in Terminal, store[t].status = "pending",
           SetStatus(t, s), UNCHANGED lastSeen
    PROVE  Lifecycle!Next
<1>0. store \in [Tasks -> Row]
    BY DEF TypeOK, MgrTypeOK
<1>1. /\ store'[t].status = s /\ store'[t].user = store[t].user
      /\ \A x \in Tasks : x # t => store'[x] = store[x]
    BY <1>0 DEF SetStatus, Exists, Row
<1>2. StatusMap' = [StatusMap EXCEPT ![t] = s]
    BY <1>1 DEF StatusMap
<1>3. OwnerMap' = OwnerMap
    BY <1>1 DEF OwnerMap
<1>4. ToldMap' = ToldMap /\ StatusMap[t] = "pending"
    BY DEF ToldMap, StatusMap
<1> QED BY <1>2, <1>3, <1>4, LifecycleSteps

(* SSEStream writes an ending that is stored, of the page's own task, and  *)
(* the first one; or an event that is no ending, and then none was shown.  *)
LEMMA WriteRefines ==
    ASSUME TypeOK, RouteInv, OrderInv, ToldIsStored, NEW d \in Clients, SSEWrite(d),
           UNCHANGED store
    PROVE  Lifecycle!Next \/ UNCHANGED Lifecycle!vars
<1>1. PICK h \in Event : h = Head(sseCh[d])
    BY WriteEffect
<1>2. PICK t \in Tasks : t = h.task
    BY <1>1, WriteEffect
<1>3. /\ \A c \in Clients : c # d => lastSeen'[c] = lastSeen[c]
      /\ \A x \in Tasks : x # t => lastSeen'[d][x] = lastSeen[d][x]
      /\ lastSeen'[d][t] = h
      /\ 1 \in 1..Len(sseCh[d]) /\ h = sseCh[d][1]
    BY <1>1, <1>2, WriteEffect
<1>4. ToldMap[d][t] = "none"
    <2>1. lastSeen[d][t] = NoEvent \/ ~IsTerminal(lastSeen[d][t])
        BY <1>1, <1>2, WriteForward
    <2> QED BY <2>1 DEF ToldMap
<1>5. h # NoEvent
    BY DEF Event, NoEvent
<1>6. StatusMap' = StatusMap /\ OwnerMap' = OwnerMap
    BY DEF StatusMap, OwnerMap
<1>7. \A c \in Clients : c # d => ToldMap'[c] = ToldMap[c]
    BY <1>3 DEF ToldMap
<1>8. \A x \in Tasks : x # t => ToldMap'[d][x] = ToldMap[d][x]
    BY <1>3 DEF ToldMap
<1>9. ToldMap'[d][t] = IF IsTerminal(h) THEN h.status ELSE "none"
    BY <1>3, <1>5 DEF ToldMap
<1>10. /\ ToldMap = [c \in Clients |-> ToldMap[c]]
       /\ ToldMap' = [c \in Clients |-> ToldMap'[c]]
       /\ ToldMap[d] = [x \in Tasks |-> ToldMap[d][x]]
       /\ ToldMap'[d] = [x \in Tasks |-> ToldMap'[d][x]]
    BY DEF ToldMap
<1>11. CASE IsTerminal(h)
    <2>1. store[t].status = h.status /\ h.status \in Terminal
        BY <1>2, <1>3, <1>11 DEF ToldIsStored, Agrees, IsTerminal
    <2>2. store[t].user = ClientUser[d]
        BY <1>2, <1>3 DEF RouteInv, Routed
    <2>3. StatusMap[t] \in Terminal /\ OwnerMap[t] = ClientUser[d] /\ StatusMap[t] = h.status
        BY <2>1, <2>2 DEF StatusMap, OwnerMap
    <2>4. ToldMap'[d] = [ToldMap[d] EXCEPT ![t] = StatusMap[t]]
        BY <1>8, <1>9, <1>10, <1>11, <2>3
    <2>5. ToldMap' = [ToldMap EXCEPT ![d] = [ToldMap[d] EXCEPT ![t] = StatusMap[t]]]
        BY <1>7, <1>10, <2>4
    <2>6. ToldMap' = [ToldMap EXCEPT ![d][t] = StatusMap[t]]
        BY <2>5
    <2> QED BY <1>4, <1>6, <2>3, <2>6, LifecycleSteps
<1>12. CASE ~IsTerminal(h)
    <2>1. ToldMap'[d] = ToldMap[d]
        BY <1>4, <1>8, <1>9, <1>10, <1>12
    <2>2. ToldMap' = ToldMap
        BY <1>7, <1>10, <2>1
    <2> QED BY <1>6, <2>2, LifecycleStutter
<1> QED BY <1>11, <1>12

LEMMA LifecycleStep ==
    ASSUME TypeOK, CustodyInv, RouteInv, OrderInv, ToldIsStored, [Next]_vars
    PROVE  Lifecycle!Next \/ UNCHANGED Lifecycle!vars
<1>0. store \in [Tasks -> Row]
    BY DEF TypeOK, MgrTypeOK
<1>1. ASSUME NEW t \in Tasks, Submit(t) PROVE Lifecycle!Next
    <2>1. PICK u \in UserIDs, n \in StageCounts : SubmitCreate(t, u, n)
        BY <1>1 DEF Submit
    <2>2. /\ store[t].status = "absent" /\ store'[t].status = "pending" /\ store'[t].user = u
          /\ \A x \in Tasks : x # t => store'[x] = store[x]
        BY <1>0, <2>1 DEF SubmitCreate, Create, Exists
    <2>3. StatusMap[t] = "absent" /\ StatusMap' = [StatusMap EXCEPT ![t] = "pending"]
        BY <2>2 DEF StatusMap
    <2>4. OwnerMap' = [OwnerMap EXCEPT ![t] = u]
        BY <2>2 DEF OwnerMap
    <2>5. ToldMap' = ToldMap
        BY <1>1 DEF Submit, fanoutVars, ToldMap
    <2> QED BY <2>3, <2>4, <2>5, LifecycleSteps
<1>2. ASSUME NEW t \in Tasks, RecordDispatched(t) PROVE UNCHANGED Lifecycle!vars
    <2>1. \A x \in Tasks : store'[x].status = store[x].status /\ store'[x].user = store[x].user
        BY <1>0, <1>2 DEF RecordDispatched, SubmitStamp, SetDispatchedAt, Row
    <2>2. StatusMap' = StatusMap /\ OwnerMap' = OwnerMap
        BY <2>1 DEF StatusMap, OwnerMap
    <2>3. ToldMap' = ToldMap
        BY <1>2 DEF RecordDispatched, fanoutVars, ToldMap
    <2> QED BY <2>2, <2>3, LifecycleStutter
<1>3. ASSUME NEW t \in Tasks, RecordRejected(t) PROVE Lifecycle!Next
    <2>1. SetStatus(t, "failed") /\ req[t].pc = "fail" /\ UNCHANGED lastSeen
        BY <1>3 DEF RecordRejected, SubmitFail, fanoutVars
    <2>2. store[t].status = "pending" /\ "failed" \in Terminal
        BY <2>1 DEF CustodyInv, SubmitInv, Terminal
    <2> QED BY <2>1, <2>2, EndRefines
<1>4. CASE Persist
    <2>1. /\ loop.pc = "persist" /\ IsTerminal(loop.ev) /\ loop.ev \in Event
          /\ SetStatus(loop.ev.task, loop.ev.status) /\ UNCHANGED lastSeen
        BY <1>4 DEF Persist, LoopPersist, CustodyInv, TypeOK, MgrTypeOK, fanoutVars
    <2>2. PICK t \in Tasks : t = loop.ev.task
        BY <2>1 DEF Event
    <2>3. PICK s \in Terminal : s = loop.ev.status
        BY <2>1 DEF IsTerminal
    <2>4. EndInLoop(t)
        BY <2>1, <2>2 DEF EndInLoop
    <2>5. store[t].status = "pending"
        BY <2>4 DEF CustodyInv, OnePlace, InFlight
    <2> QED BY <2>1, <2>2, <2>3, <2>5, EndRefines
<1>5. ASSUME NEW c \in Clients, Client(c) PROVE Lifecycle!Next \/ UNCHANGED Lifecycle!vars
    <2>1. UNCHANGED store
        BY <1>5 DEF Client, mgrVars
    <2>2. CASE SSEConnect(c) \/ SSEDisconnect(c)
        <3>1. UNCHANGED <<StatusMap, OwnerMap, ToldMap>>
            BY <2>1, <2>2 DEF SSEConnect, SSEDisconnect, StatusMap, OwnerMap, ToldMap
        <3> QED BY <3>1, LifecycleStutter
    <2> QED BY <1>5, <2>1, <2>2, WriteRefines DEF Client
<1>6. CASE \/ \E t \in Tasks : DispatchOk(t) \/ DispatchFull(t)
           \/ \E w \in Runs : Worker(w)
           \/ ReceiveEvent \/ Enrich \/ Publish \/ EventLoopExit
           \/ Cancel \/ Unsubscribe \/ Pump \/ UNCHANGED vars
    <2>1. UNCHANGED <<store, lastSeen>>
        BY <1>6 DEF DispatchOk, DispatchFull, SubmitDispatched, SubmitRefused,
                    Worker, WorkerReceive, Emit, Stage, WorkerExit,
                    ReceiveEvent, Enrich, Publish, EventLoopExit, BridgePublish,
                    LoopReceive, LoopEnrich, LoopPublish, LoopExit,
                    Cancel, Unsubscribe, BridgeDelete, BridgeClose,
                    Pump, PumpReceive, HubPublish, PumpExit, mgrVars, fanoutVars, vars
    <2>2. UNCHANGED <<StatusMap, OwnerMap, ToldMap>>
        BY <2>1 DEF StatusMap, OwnerMap, ToldMap
    <2> QED BY <2>2, LifecycleStutter
<1> QED BY <1>1, <1>2, <1>3, <1>4, <1>5, <1>6 DEF Next, Handler, EventLoop

(* The store and the pages of pattern 1 keep the promise of TaskLifecycle: *)
(* a task is recorded once, ends at most once, and its own user's pages    *)
(* are told, once, the ending the store already holds.                     *)
THEOREM ImplementsLifecycleCorrect == Spec => ImplementsLifecycle
<1>1. Init => Lifecycle!Init
    <2> SUFFICES ASSUME Init PROVE Lifecycle!Init
        OBVIOUS
    <2>1. /\ \A t \in Tasks : store[t].status = "absent" /\ store[t].user \in UserIDs
          /\ \A c \in Clients, t \in Tasks : lastSeen[c][t] = NoEvent
        BY DEF Init, MgrInit, FanoutInit, NoRow, UserIDs
    <2> QED BY <2>1 DEF Lifecycle!Init
<1>2. /\ TypeOK /\ CustodyInv /\ RouteInv /\ OrderInv /\ ToldIsStored
      /\ [Next]_vars
      => [Lifecycle!Next]_(Lifecycle!vars)
    BY LifecycleStep
<1> QED BY <1>1, <1>2, InductiveOrder, ToldIsStoredCorrect, PTL
        DEF Spec, ImplementsLifecycle, Lifecycle!Spec
=============================================================================
