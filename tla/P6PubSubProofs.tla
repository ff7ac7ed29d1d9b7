--------------------------- MODULE P6PubSubProofs ---------------------------
(***************************************************************************)
(* Theorems about patterns 6 and 7 for every number of tasks, managers,    *)
(* workers, API servers and faults, and for each of the three brokers.     *)
(***************************************************************************)
EXTENDS P6PubSub, CoreProofs

-----------------------------------------------------------------------------
(* What type correctness rests on: a task message is of a row that NewTask *)
(* built, so that Receive finds its stages.                                *)
RowsBuilt == \A t \in Tasks : Exists(t) => Known(t)

TasksKnown == \A t \in Tasks : queue["workers"][TaskMsg(t)] > 0 => Known(t)

TypeInv == TypeOK /\ RowsBuilt /\ TasksKnown

-----------------------------------------------------------------------------
(* What ToldIsStored rests on.                                             *)

Ended(t) == store[t].status \in Terminal

(* No event without a row: SetStatus of an ending always finds one.        *)
EventsKnown ==
    /\ \A w \in Workers : Busy(w) => Known(run[w].task)
    /\ \A msg \in Msg : queue["manager-events"][msg] > 0 => Known(msg.task)
    /\ \A l \in Loops : rl[l].pc = "push" => Ending(rl[l].ev) /\ Known(rl[l].ev.task)
    /\ \A m \in Managers : \A i \in 1..Len(internal[m]) : Known(internal[m][i].task)

(* What is published, waits for an API or was given to a hub has ended in  *)
(* the store.                                                              *)
PublishedEnded ==
    /\ \A m \in Managers : evLoop[m] # NoMsg => Ended(evLoop[m].task)
    /\ \A a \in Apis : \A msg \in Msg : queue[a][msg] > 0 => Ending(msg) /\ Ended(msg.task)
    /\ \A a \in Apis : \A t \in Tasks : told[a][t] > 0 => Ended(t)

StoredInv == EventsKnown /\ PublishedEnded

-----------------------------------------------------------------------------
(* What Fanout rests on.                                                   *)

(* The topic of the managers' events reaches a.                            *)
Hears(a) == known[a] = OpenAPIResources(a).needs

(* How far the broker has come with the subscription when NewAPI is at a   *)
(* call.  An SQS queue outlives the process, so it may be further.         *)
Opened ==
    \A a \in Apis :
        /\ scheme = "awssqs" =>
              /\ known[a] \subseteq {"queue", "policy", "subscription"}
              /\ api[a] # "queue" => "queue" \in known[a]
              /\ api[a] \notin {"queue", "policy"} => "policy" \in known[a]
              /\ api[a] \notin {"queue", "policy", "subscription"} => "subscription" \in known[a]
        /\ scheme # "awssqs" =>
              /\ api[a] \in {"open", "serving", "deaf"}
              /\ api[a] # "open" => known[a] = {"group"}

EndingsOf(t) == {msg \in Msg : Ending(msg) /\ msg.task = t}

(* The endings of t in a subscription, and those a manager has taken from  *)
(* the workers' topic and not yet published.                               *)
Waiting(g, t) == queue[g][[task |-> t, body |-> "completed"]]
                 + queue[g][[task |-> t, body |-> "failed"]]

Pushing(t) == {l \in Loops : rl[l].ev \in EndingsOf(t)}
Publishing(t) == {m \in Managers : evLoop[m] \in EndingsOf(t)}
Buffered(t) == Slots(internal, Managers, EndingsOf(t))

InManagers(t) == Cardinality(Pushing(t)) + Cardinality(Buffered(t)) + Cardinality(Publishing(t))

ManagersFinite == \A t \in Tasks : IsFiniteSet(Buffered(t))

NothingMissed == \A a \in Apis, t \in Tasks : owed[a][t] <= told[a][t] + Waiting(a, t)

(* Every ending an API has got left a place behind, at the workers' topic  *)
(* or in a manager.                                                        *)
NothingTwice ==
    \A a \in Apis, t \in Tasks :
        told[a][t] + Waiting(a, t) + InManagers(t) + Waiting("manager-events", t) <= sent[t]

Balanced == ManagersFinite /\ NothingMissed /\ NothingTwice

FanoutInv == Opened /\ Balanced

-----------------------------------------------------------------------------
(* The broker.                                                             *)

QueueType == queue \in [Groups -> [Msg -> Nat]]

(* A step that adds msg to the subscriptions G, and one that takes it out  *)
(* of g.                                                                   *)
Added(G, msg) ==
    \A h \in Groups, x \in Msg : queue'[h][x] = queue[h][x] + One(h \in G /\ x = msg)
Removed(g, msg) ==
    \A h \in Groups, x \in Msg : queue'[h][x] = queue[h][x] - One(h = g /\ x = msg)

LEMMA SendType ==
    ASSUME QueueType, NEW topic, NEW msg \in Msg, Send(topic, msg)
    PROVE  QueueType' /\ Added({g \in Groups : Reads(g, topic)}, msg)
<1> DEFINE q(g) == [queue[g] EXCEPT ![msg] = @ + 1]
<1>1. queue' = [g \in Groups |-> IF Reads(g, topic) THEN q(g) ELSE queue[g]]
    BY DEF Send
<1>2. \A g \in Groups : q(g) \in [Msg -> Nat] /\ \A x \in Msg : q(g)[x] = queue[g][x] + One(x = msg)
    BY DEF QueueType, One
<1> HIDE DEF q
<1>3. \A g \in Groups : \A x \in Msg : queue[g][x] \in Nat
    BY DEF QueueType
<1>4. QueueType'
    BY <1>1, <1>2 DEF QueueType
<1>5. ASSUME NEW h \in Groups, NEW x \in Msg
      PROVE  queue'[h][x] = queue[h][x] + One(h \in {g \in Groups : Reads(g, topic)} /\ x = msg)
    BY <1>1, <1>2, <1>3 DEF One
<1> QED BY <1>4, <1>5 DEF Added

(* Who reads the topics: the tasks go to the workers alone, the workers'   *)
(* events to the managers alone, the managers' events to every API whose   *)
(* subscription is complete.  This is what the URLs are for.               *)
LEMMA Readers ==
    ASSUME scheme \in Schemes
    PROVE  /\ \A g \in Groups : Reads(g, OpenManagerResources.tasks) <=> g = "workers"
           /\ \A g \in Groups : Reads(g, OpenWorkerResources.events) <=> g = "manager-events"
           /\ \A g \in Groups : Reads(g, OpenManagerResources.api) <=> g \in Apis /\ Hears(g)
<1>0. scheme \in {"nats", "kafka", "awssqs"} /\ "workers" \notin Apis /\ "manager-events" \notin Apis
    BY P6Assumption
<1>1. \A a \in Apis : OpenAPIResources(a).group = a
    BY <1>0 DEF OpenAPIResources
<1>2. CASE scheme = "nats"
    <2>1. /\ OpenManagerResources.tasks = "tasks.new" /\ OpenWorkerResources.tasks = "tasks.new"
          /\ OpenManagerResources.events = "events.workers"
          /\ OpenWorkerResources.events = "events.workers"
          /\ OpenManagerResources.api = "events.api"
          /\ \A a \in Apis : OpenAPIResources(a).topic = "events.api"
        BY <1>2 DEF OpenManagerResources, OpenWorkerResources, OpenAPIResources
    <2> QED BY <1>0, <1>1, <2>1 DEF Reads, Hears, Groups
<1>3. CASE scheme = "kafka"
    <2>1. /\ OpenManagerResources.tasks = "tasks" /\ OpenWorkerResources.tasks = "tasks"
          /\ OpenManagerResources.events = "worker_events"
          /\ OpenWorkerResources.events = "worker_events"
          /\ OpenManagerResources.api = "api_events"
          /\ \A a \in Apis : OpenAPIResources(a).topic = "api_events"
        BY <1>3 DEF OpenManagerResources, OpenWorkerResources, OpenAPIResources
    <2> QED BY <1>0, <1>1, <2>1 DEF Reads, Hears, Groups
<1>4. CASE scheme = "awssqs"
    <2>1. /\ OpenManagerResources.tasks = "worker-tasks"
          /\ OpenWorkerResources.tasks = "worker-tasks"
          /\ OpenManagerResources.events = "manager-events"
          /\ OpenWorkerResources.events = "manager-events"
          /\ OpenManagerResources.api = "api-events"
          /\ \A a \in Apis : OpenAPIResources(a).topic = "api-events"
        BY <1>4 DEF OpenManagerResources, OpenWorkerResources, OpenAPIResources
    <2> QED BY <1>0, <1>1, <2>1 DEF Reads, Hears, Groups
<1> QED BY <1>0, <1>2, <1>3, <1>4

HearingApis == {a \in Apis : Hears(a)}

LEMMA SendEffect ==
    ASSUME scheme \in Schemes, QueueType, NEW msg \in Msg
    PROVE  /\ Send(OpenManagerResources.tasks, msg) => QueueType' /\ Added({"workers"}, msg)
           /\ Send(OpenWorkerResources.events, msg) => QueueType' /\ Added({"manager-events"}, msg)
           /\ Send(OpenManagerResources.api, msg) => QueueType' /\ Added(HearingApis, msg)
<1>1. /\ {g \in Groups : Reads(g, OpenManagerResources.tasks)} = {"workers"}
      /\ {g \in Groups : Reads(g, OpenWorkerResources.events)} = {"manager-events"}
      /\ {g \in Groups : Reads(g, OpenManagerResources.api)} = HearingApis
    BY Readers DEF Groups, HearingApis
<1>2. ASSUME Send(OpenManagerResources.tasks, msg) PROVE QueueType' /\ Added({"workers"}, msg)
    BY <1>1, <1>2, SendType
<1>3. ASSUME Send(OpenWorkerResources.events, msg)
      PROVE  QueueType' /\ Added({"manager-events"}, msg)
    BY <1>1, <1>3, SendType
<1>4. ASSUME Send(OpenManagerResources.api, msg) PROVE QueueType' /\ Added(HearingApis, msg)
    BY <1>1, <1>4, SendType
<1> QED BY <1>2, <1>3, <1>4

LEMMA AckEffect ==
    ASSUME QueueType, NEW g \in Groups, NEW msg \in Msg, Ack(g, msg)
    PROVE  QueueType' /\ queue[g][msg] > 0 /\ Removed(g, msg)
<1> DEFINE q == [queue[g] EXCEPT ![msg] = @ - 1]
<1>1. queue' = [queue EXCEPT ![g] = q] /\ queue[g][msg] > 0
    BY DEF Ack
<1>2. q \in [Msg -> Nat] /\ \A x \in Msg : q[x] = queue[g][x] - One(x = msg)
    BY <1>1 DEF QueueType, One
<1> HIDE DEF q
<1>3. \A h \in Groups : \A x \in Msg : queue[h][x] \in Nat
    BY DEF QueueType
<1>4. QueueType'
    BY <1>1, <1>2 DEF QueueType
<1>5. ASSUME NEW h \in Groups, NEW x \in Msg
      PROVE  queue'[h][x] = queue[h][x] - One(h = g /\ x = msg)
    BY <1>1, <1>2, <1>3 DEF One, QueueType
<1> QED BY <1>1, <1>4, <1>5 DEF Removed

LEMMA TaskMsgs ==
    \A t \in Tasks : /\ TaskMsg(t) \in Msg /\ TaskMsg(t).task = t /\ ~Ending(TaskMsg(t))
                     /\ \A u \in Tasks : TaskMsg(u) = TaskMsg(t) => u = t
BY DEF TaskMsg, Msg, Ending, Terminal

-----------------------------------------------------------------------------
(* Type correctness.                                                       *)

LEMMA TypeInvInit == Init => TypeInv
<1> SUFFICES ASSUME Init PROVE TypeInv
    OBVIOUS
<1>1. MgrTypeOK /\ ExecTypeOK
    BY MgrTypeInit, ExecTypeInit DEF Init
<1>2. internal \in [Managers -> Seq(Msg)] /\ \A m \in Managers : Len(internal[m]) <= EventsCap
    <2>1. Len(<<>>) = 0 /\ <<>> \in Seq(Msg)
        BY SMT
    <2> QED BY <2>1, P6Assumption DEF Init
<1>3. queue \in [Groups -> [Msg -> Nat]]
    BY DEF Init, Empty
<1>4. rl \in [Loops -> [pc : {"receive", "gone"}, ev : {NoMsg}] \cup [pc : {"push"}, ev : Msg]]
    BY DEF Init, NewLoop
<1>5. TypeOK
    BY <1>1, <1>2, <1>3, <1>4, P6Assumption, SMT DEF Init, TypeOK, FirstCall
<1>6. RowsBuilt
    BY DEF Init, MgrInit, NoRow, RowsBuilt, Exists
<1>7. TasksKnown
    BY TaskMsgs, SMT DEF Init, TasksKnown, Empty, Groups
<1> QED BY <1>5, <1>6, <1>7 DEF TypeInv

(* What a step does to the rows and to the tasks in the workers' queue.    *)
LEMMA TasksKnownKept ==
    ASSUME TypeInv, \A x \in Tasks : RowKept(x, store'),
           \A t \in Tasks : queue'["workers"][TaskMsg(t)] <= queue["workers"][TaskMsg(t)]
                            \/ Known(t)',
           QueueType'
    PROVE  TasksKnown'
<1>1. \A x \in Tasks : Known(x) => Known(x)'
    BY DEF RowKept, Known, Exists
<1>2. \A t \in Tasks : /\ queue["workers"][TaskMsg(t)] \in Nat
                       /\ queue'["workers"][TaskMsg(t)] \in Nat
    BY TaskMsgs DEF TypeInv, TypeOK, QueueType, Groups
<1>3. ASSUME NEW t \in Tasks, queue'["workers"][TaskMsg(t)] > 0 PROVE Known(t)'
    <2>1. CASE Known(t)'
        BY <2>1
    <2>2. CASE queue'["workers"][TaskMsg(t)] <= queue["workers"][TaskMsg(t)]
        <3>1. queue["workers"][TaskMsg(t)] > 0
            BY <1>2, <1>3, <2>2
        <3> QED BY <1>1, <3>1 DEF TypeInv, TasksKnown
    <2> QED BY <2>1, <2>2
<1>4. \A t \in Tasks : TaskMsg(t)' = TaskMsg(t)
    BY DEF TaskMsg
<1> QED BY <1>3, <1>4 DEF TasksKnown

(* Submit and the deadline loop.                                           *)
LEMMA TypeInvSubmit ==
    ASSUME TypeInv, NEW t \in Tasks, Submit(t) \/ SubmitFails(t) \/ Redispatch(t)
    PROVE  TypeInv'
<1>0. QueueType /\ scheme \in Schemes /\ store \in [Tasks -> Row] /\ TaskMsg(t) \in Msg
    BY TaskMsgs DEF TypeInv, TypeOK, QueueType, MgrTypeOK
<1>1. /\ MgrTypeOK' /\ RowsBuilt' /\ Known(t)'
      /\ \A x \in Tasks : RowKept(x, store')
    <2>1. CASE Submit(t) \/ SubmitFails(t)
        <3>0. "other" \in DispatchError /\ StageCounts \subseteq Int
            BY P6Assumption DEF DispatchError
        <3>1. PICK u \in UserIDs, n \in Int :
                  SubmitAccepted(t, u, n) \/ \E err \in DispatchError : SubmitRejected(t, u, n, err)
            BY <2>1, <3>0 DEF Submit, SubmitFails
        <3>2. MgrTypeOK'
            BY <3>1, MgrTypeSubmitOnce DEF TypeInv, TypeOK
        <3>3. /\ \A x \in Tasks : x # t => store'[x] = store[x]
              /\ Known(t)' /\ \A x \in Tasks : RowKept(x, store')
            BY <1>0, <3>1, RowsOfSubmitOnce
        <3>4. RowsBuilt'
            BY <3>3 DEF TypeInv, RowsBuilt, Known, Exists
        <3> QED BY <3>2, <3>3, <3>4
    <2>2. CASE Redispatch(t)
        <3>1. UNCHANGED mgrVars /\ Exists(t)
            BY <2>2 DEF Redispatch, List, Exists, TaskStatus, Terminal
        <3> QED BY <3>1 DEF mgrVars, TypeInv, TypeOK, MgrTypeOK, RowsBuilt, Known, Exists, RowKept
    <2> QED BY <2>1, <2>2
<1>2. QueueType' /\ (Added({"workers"}, TaskMsg(t)) \/ queue' = queue)
    BY <1>0, SendEffect DEF Submit, SubmitFails, Redispatch, QueueType
<1>3. TasksKnown'
    <2>1. \A x \in Tasks : x # t => queue'["workers"][TaskMsg(x)] = queue["workers"][TaskMsg(x)]
        <3>1. ASSUME NEW x \in Tasks, x # t, Added({"workers"}, TaskMsg(t))
              PROVE  queue'["workers"][TaskMsg(x)] = queue["workers"][TaskMsg(x)]
            <4>1. /\ TaskMsg(x) # TaskMsg(t) /\ TaskMsg(x) \in Msg
                  /\ queue["workers"][TaskMsg(x)] \in Nat
                BY <3>1, <1>0, TaskMsgs DEF QueueType, Groups
            <4> QED BY <3>1, <4>1 DEF Added, One, Groups
        <3> QED BY <1>2, <3>1
    <2>2. \A x \in Tasks : queue["workers"][TaskMsg(x)] \in Nat
        BY <1>0, TaskMsgs DEF QueueType, Groups
    <2>3. \A x \in Tasks : queue'["workers"][TaskMsg(x)] <= queue["workers"][TaskMsg(x)] \/ Known(x)'
        BY <1>1, <2>1, <2>2
    <2> QED BY <1>1, <1>2, <2>3, TasksKnownKept
<1>4. faults' \in 0..MaxFaults
    BY P6Assumption DEF Submit, SubmitFails, Redispatch, Fault, TypeInv, TypeOK
<1>5. /\ UNCHANGED <<run, scheme, known, managerVars, api, stopping, history>>
    BY DEF Submit, SubmitFails, Redispatch
<1>6. TypeOK'
    BY <1>1, <1>2, <1>4, <1>5
       DEF TypeInv, TypeOK, QueueType, managerVars, history, ExecTypeOK
<1> QED BY <1>1, <1>3, <1>6 DEF TypeInv

(* The steps that leave the rows alone and add no task.                    *)
LEMMA TypeInvRest ==
    ASSUME TypeInv, UNCHANGED mgrVars, QueueType', TypeOK',
           \A t \in Tasks : queue'["workers"][TaskMsg(t)] <= queue["workers"][TaskMsg(t)]
    PROVE  TypeInv'
<1>1. \A x \in Tasks : RowKept(x, store')
    BY DEF mgrVars, RowKept, Known, Exists
<1>2. TasksKnown'
    BY <1>1, TasksKnownKept
<1> QED BY <1>2 DEF TypeInv, RowsBuilt, Known, Exists, mgrVars

LEMMA TaskCounts ==
    ASSUME QueueType
    PROVE  /\ \A t \in Tasks : queue["workers"][TaskMsg(t)] \in Nat
           /\ \A g \in Groups, msg \in Msg :
                  Removed(g, msg) => \A t \in Tasks : queue'["workers"][TaskMsg(t)] <= queue["workers"][TaskMsg(t)]
           /\ \A G, msg : "workers" \notin G /\ Added(G, msg) =>
                  \A t \in Tasks : queue'["workers"][TaskMsg(t)] <= queue["workers"][TaskMsg(t)]
<1>1. \A t \in Tasks : queue["workers"][TaskMsg(t)] \in Nat /\ TaskMsg(t) \in Msg
    BY TaskMsgs DEF QueueType, Groups
<1>2. \A b : One(b) \in 0..1
    BY DEF One
<1>3. "workers" \in Groups
    BY DEF Groups
<1>4. ASSUME NEW g \in Groups, NEW msg \in Msg, Removed(g, msg), NEW t \in Tasks
      PROVE  queue'["workers"][TaskMsg(t)] <= queue["workers"][TaskMsg(t)]
    BY <1>1, <1>2, <1>3, <1>4 DEF Removed
<1>5. ASSUME NEW G, NEW msg, "workers" \notin G, Added(G, msg), NEW t \in Tasks
      PROVE  queue'["workers"][TaskMsg(t)] <= queue["workers"][TaskMsg(t)]
    BY <1>1, <1>3, <1>5 DEF Added, One
<1> QED BY <1>1, <1>4, <1>5

(* The worker.                                                             *)
LEMMA TypeInvWorker ==
    ASSUME TypeInv, NEW w \in Workers,
           \/ Receive(w) \/ Emit(w) \/ Stage(w) \/ WorkerExit(w)
           \/ EmitFails(w) \/ WorkerStop(w) \/ WorkerCrash(w)
    PROVE  TypeInv'
<1>0. QueueType /\ scheme \in Schemes /\ w \in Runs /\ ExecTypeOK
    BY DEF TypeInv, TypeOK, QueueType, Workers
<1>1. /\ UNCHANGED <<mgrVars, scheme, known, managerVars, api, owed, told>>
    BY DEF Receive, Emit, Stage, WorkerExit, EmitFails, WorkerStop, WorkerCrash, history, brokerVars
<1>2. faults' \in 0..MaxFaults
    BY P6Assumption DEF Receive, Emit, Stage, WorkerExit, EmitFails, WorkerStop, WorkerCrash,
                        Fault, TypeInv, TypeOK
<1>3. stopping' \in [Workers -> BOOLEAN]
    BY DEF Receive, Emit, Stage, WorkerExit, EmitFails, WorkerStop, WorkerCrash, TypeInv, TypeOK
<1>4. SUFFICES /\ ExecTypeOK' /\ QueueType' /\ sent' \in [Tasks -> Nat]
               /\ \A t \in Tasks : queue'["workers"][TaskMsg(t)] <= queue["workers"][TaskMsg(t)]
    <2>1. TypeOK'
        BY <1>1, <1>2, <1>3, <1>4
           DEF TypeInv, TypeOK, QueueType, managerVars, mgrVars, MgrTypeOK
    <2> QED BY <1>1, <1>4, <2>1, TypeInvRest
<1>5. CASE Receive(w)
    <2>1. PICK t \in Tasks : Ack("workers", TaskMsg(t)) /\ RunStart(w, t, store[t].stages)
        BY <1>5 DEF Receive
    <2>2. TaskMsg(t) \in Msg /\ "workers" \in Groups
        BY TaskMsgs DEF Groups
    <2>3. QueueType' /\ queue["workers"][TaskMsg(t)] > 0 /\ Removed("workers", TaskMsg(t))
        BY <1>0, <2>1, <2>2, AckEffect
    <2>4. store[t].stages \in 1..MaxStages
        BY <2>3 DEF TypeInv, TasksKnown, Known
    <2>5. ExecTypeOK'
        BY <1>0, <2>1, <2>4, ExecTypeStep
    <2>6. sent' = sent
        BY <1>5 DEF Receive, history
    <2> QED BY <1>0, <2>2, <2>3, <2>5, <2>6, TaskCounts DEF TypeInv, TypeOK
<1>6. CASE Emit(w)
    <2>1. ExecTypeOK' /\ Busy(w)
        BY <1>0, <1>6, ExecTypeStep, EmitOutcome DEF Emit
    <2>2. run[w].task \in Tasks
        BY <1>0, <2>1, BusyTask
    <2>3. CASE queue' = queue /\ sent' = sent
        BY <1>0, <2>1, <2>3, TaskCounts DEF QueueType, TypeInv, TypeOK
    <2>4. CASE /\ run[w].pc \notin {"start", "end"}
               /\ Send(OpenWorkerResources.events, EmitMsg(w))
               /\ sent' = IF Ending(EmitMsg(w)) THEN [sent EXCEPT ![run[w].task] = @ + 1] ELSE sent
        <3>1. EmitMsg(w) \in Msg
            BY <1>6, <2>2, <2>4 DEF Emit, EmitDone, EmitPc, EmitMsg, Msg, Terminal
        <3>2. QueueType' /\ Added({"manager-events"}, EmitMsg(w))
            BY <1>0, <2>4, <3>1, SendEffect
        <3>3. sent' \in [Tasks -> Nat]
            BY <2>4, <2>2 DEF TypeInv, TypeOK
        <3>4. "workers" \notin {"manager-events"}
            OBVIOUS
        <3> QED BY <1>0, <2>1, <3>2, <3>3, <3>4, TaskCounts
    <2> QED BY <1>6, <2>3, <2>4 DEF Emit
<1>7. CASE Stage(w) \/ WorkerExit(w) \/ EmitFails(w) \/ WorkerStop(w) \/ WorkerCrash(w)
    <2>1. ExecTypeOK'
        <3>1. CASE Stage(w) \/ WorkerExit(w) \/ EmitFails(w)
            BY <1>0, <3>1, ExecTypeStep DEF Stage, WorkerExit, EmitFails
        <3>2. CASE WorkerStop(w)
            BY <1>0, <3>2 DEF WorkerStop, ExecTypeOK
        <3>3. CASE WorkerCrash(w)
            BY <1>0, <3>3 DEF WorkerCrash, ExecTypeOK, Idle
        <3> QED BY <1>7, <3>1, <3>2, <3>3
    <2>2. queue' = queue /\ sent' = sent
        BY <1>7 DEF Stage, WorkerExit, EmitFails, WorkerStop, WorkerCrash, brokerVars, history
    <2>3. \A t \in Tasks : queue["workers"][TaskMsg(t)] \in Nat
        BY <1>0, TaskCounts
    <2> QED BY <1>0, <2>1, <2>2, <2>3 DEF QueueType, TypeInv, TypeOK
<1> QED BY <1>5, <1>6, <1>7

LEMMA LoopParts ==
    /\ \A l \in Loops : l[1] \in Managers
    /\ \A m \in Managers : <<m, 1>> \in Loops /\ <<m, 2>> \in Loops
BY DEF Loops

(* What Append and Tail do to internalEvents.                              *)
LEMMA ChannelType ==
    ASSUME internal \in [Managers -> Seq(Msg)], \A m \in Managers : Len(internal[m]) <= EventsCap,
           NEW m \in Managers,
           \/ \E e \in Msg : /\ Len(internal[m]) < EventsCap
                             /\ internal' = [internal EXCEPT ![m] = Append(@, e)]
           \/ internal[m] # <<>> /\ internal' = [internal EXCEPT ![m] = Tail(@)]
           \/ internal' = [internal EXCEPT ![m] = <<>>]
    PROVE  internal' \in [Managers -> Seq(Msg)] /\ \A x \in Managers : Len(internal'[x]) <= EventsCap
<1>0. EventsCap \in Nat \ {0}
    BY P6Assumption
<1>1. SUFFICES \E s \in Seq(Msg) : Len(s) <= EventsCap /\ internal' = [internal EXCEPT ![m] = s]
    BY <1>1
<1>2. internal[m] \in Seq(Msg) /\ Len(internal[m]) <= EventsCap /\ Len(internal[m]) \in Nat
    BY SMT
<1>3. ASSUME NEW e \in Msg, Len(internal[m]) < EventsCap
      PROVE  Append(internal[m], e) \in Seq(Msg) /\ Len(Append(internal[m], e)) <= EventsCap
    BY <1>0, <1>2, <1>3, SMT
<1>4. internal[m] # <<>> => Tail(internal[m]) \in Seq(Msg) /\ Len(Tail(internal[m])) <= EventsCap
    BY <1>0, <1>2, SMT
<1>5. <<>> \in Seq(Msg) /\ Len(<<>>) <= EventsCap
    BY <1>0, SMT
<1> QED BY <1>3, <1>4, <1>5

RlState == [pc : {"receive", "gone"}, ev : {NoMsg}] \cup [pc : {"push"}, ev : Msg]

(* The manager.                                                            *)
LEMMA TypeInvReceive ==
    ASSUME TypeInv, NEW l \in Loops, ReceiveLoop(l) \/ Push(l) \/ ReceiveLoopEnds(l)
    PROVE  TypeInv'
<1>0. /\ QueueType /\ rl \in [Loops -> RlState] /\ l[1] \in Managers
      /\ internal \in [Managers -> Seq(Msg)] /\ \A m \in Managers : Len(internal[m]) <= EventsCap
    BY LoopParts DEF TypeInv, TypeOK, QueueType, RlState
<1>1. UNCHANGED <<mgrVars, run, scheme, known, evLoop, api, stopping, history>>
    BY DEF ReceiveLoop, Push, ReceiveLoopEnds, brokerVars
<1>2. faults' \in 0..MaxFaults
    BY P6Assumption DEF ReceiveLoop, Push, ReceiveLoopEnds, Fault, TypeInv, TypeOK
<1>3. SUFFICES /\ QueueType' /\ rl' \in [Loops -> RlState]
               /\ internal' \in [Managers -> Seq(Msg)]
               /\ \A m \in Managers : Len(internal'[m]) <= EventsCap
               /\ \A t \in Tasks : queue'["workers"][TaskMsg(t)] <= queue["workers"][TaskMsg(t)]
    <2>1. TypeOK'
        BY <1>1, <1>2, <1>3
           DEF TypeInv, TypeOK, QueueType, RlState, history, mgrVars, MgrTypeOK, ExecTypeOK
    <2> QED BY <1>1, <1>3, <2>1, TypeInvRest
<1>4. NewLoop \in RlState
    BY DEF NewLoop, RlState
<1>5. CASE ReceiveLoop(l)
    <2>1. PICK msg \in Msg :
              /\ Ack("manager-events", msg)
              /\ IF Ending(msg)
                 THEN /\ rl' = [rl EXCEPT ![l] = [pc |-> "push", ev |-> msg]]
                      /\ UNCHANGED internal
                 ELSE /\ internal' = IF Len(internal[l[1]]) < EventsCap
                                     THEN [internal EXCEPT ![l[1]] = Append(@, msg)] ELSE internal
                      /\ UNCHANGED rl
        BY <1>5 DEF ReceiveLoop
    <2>2. "manager-events" \in Groups
        BY DEF Groups
    <2>3. QueueType' /\ Removed("manager-events", msg)
        BY <1>0, <2>1, <2>2, AckEffect
    <2>4. rl' \in [Loops -> RlState]
        BY <1>0, <2>1 DEF RlState
    <2>5. internal' = internal \/ /\ Len(internal[l[1]]) < EventsCap
                                  /\ internal' = [internal EXCEPT ![l[1]] = Append(@, msg)]
        BY <2>1
    <2>6. /\ internal' \in [Managers -> Seq(Msg)]
          /\ \A m \in Managers : Len(internal'[m]) <= EventsCap
        BY <1>0, <2>5, ChannelType
    <2> QED BY <1>0, <2>2, <2>3, <2>4, <2>6, TaskCounts
<1>6. CASE Push(l)
    <2>1. rl[l].ev \in Msg
        BY <1>0, <1>6 DEF Push, RlState
    <2>2. /\ internal' \in [Managers -> Seq(Msg)]
          /\ \A m \in Managers : Len(internal'[m]) <= EventsCap
        BY <1>0, <1>6, <2>1, ChannelType DEF Push
    <2>3. rl' \in [Loops -> RlState] /\ queue' = queue
        BY <1>0, <1>4, <1>6 DEF Push, brokerVars
    <2> QED BY <1>0, <2>2, <2>3, TaskCounts DEF QueueType
<1>7. CASE ReceiveLoopEnds(l)
    <2>1. [rl[l] EXCEPT !.pc = "gone"] \in RlState
        BY <1>0, <1>7 DEF ReceiveLoopEnds, RlState
    <2>2. rl' \in [Loops -> RlState] /\ queue' = queue /\ internal' = internal
        BY <1>0, <1>7, <2>1 DEF ReceiveLoopEnds, brokerVars
    <2> QED BY <1>0, <2>2, TaskCounts DEF QueueType
<1> QED BY <1>5, <1>6, <1>7

(* What an ending in internalEvents does to the rows.                      *)
LEMMA PersistRows ==
    ASSUME TypeInv, NEW m \in Managers, EventPersist(m)
    PROVE  /\ store' \in [Tasks -> Row]
           /\ \A x \in Tasks : RowKept(x, store')
           /\ RowsBuilt'
           /\ internal[m] # <<>> /\ internal' = [internal EXCEPT ![m] = Tail(@)]
           /\ internal[m][1] \in Msg /\ 1 \in 1..Len(internal[m])
           /\ IF Ending(internal[m][1])
              THEN /\ evLoop' = [evLoop EXCEPT ![m] = internal[m][1]]
                   /\ Exists(internal[m][1].task) => store'[internal[m][1].task].status \in Terminal
              ELSE evLoop' = evLoop
<1> DEFINE e == Head(internal[m])
<1>0. store \in [Tasks -> Row] /\ internal[m] \in Seq(Msg) /\ internal[m] # <<>>
    BY DEF TypeInv, TypeOK, MgrTypeOK, EventPersist
<1>1. e = internal[m][1] /\ e \in Msg /\ 1 \in 1..Len(internal[m])
    BY <1>0, ReceiveElements
<1>2. IF Ending(e) THEN PgSetStatus(e.task, e.body) /\ evLoop' = [evLoop EXCEPT ![m] = e]
      ELSE store' = store /\ evLoop' = evLoop
    BY DEF EventPersist
<1>3. internal' = [internal EXCEPT ![m] = Tail(@)]
    BY DEF EventPersist
<1> HIDE DEF e
<1>4. CASE Ending(e)
    <2> DEFINE done == e.body \in Terminal
    <2>1. e.task \in Tasks /\ e.body \in Terminal /\ done \in BOOLEAN
        BY <1>1, <1>4 DEF Msg, Ending
    <2>2. store' = IF Exists(e.task)
                   THEN [store EXCEPT ![e.task].status = e.body, ![e.task].completedAt = done]
                   ELSE store
        BY <1>2, <1>4 DEF PgSetStatus
    <2> HIDE DEF done
    <2>3. /\ store' \in [Tasks -> Row]
          /\ \A x \in Tasks : x # e.task => store'[x] = store[x]
          /\ Exists(e.task) => store'[e.task].status \in Terminal
          /\ \A x \in Tasks : RowKept(x, store')
        BY <1>0, <2>1, <2>2, RowsOfStatus
    <2>4. RowsBuilt'
        <3>1. \A x \in Tasks : store'[x].status # "absent" => Exists(x)
            BY <2>2, <2>3 DEF Exists
        <3> QED BY <2>3, <3>1 DEF TypeInv, RowsBuilt, RowKept, Known, Exists
    <2> QED BY <1>0, <1>1, <1>2, <1>3, <1>4, <2>3, <2>4
<1>5. CASE ~Ending(e)
    <2>1. store' = store
        BY <1>2, <1>5
    <2>2. RowsBuilt' /\ \A x \in Tasks : RowKept(x, store')
        BY <2>1 DEF TypeInv, RowsBuilt, RowKept, Known, Exists
    <2> QED BY <1>0, <1>1, <1>2, <1>3, <1>5, <2>1, <2>2
<1> QED BY <1>4, <1>5

LEMMA TypeInvManager ==
    ASSUME TypeInv, NEW m \in Managers, EventPersist(m) \/ EventPublish(m) \/ NewManager(m)
    PROVE  TypeInv'
<1>0. /\ QueueType /\ rl \in [Loops -> RlState] /\ scheme \in Schemes
      /\ internal \in [Managers -> Seq(Msg)] /\ \A x \in Managers : Len(internal[x]) <= EventsCap
      /\ evLoop \in [Managers -> {msg \in Msg : Ending(msg)} \cup {NoMsg}]
    BY LoopParts DEF TypeInv, TypeOK, QueueType, RlState
<1>1. UNCHANGED <<run, scheme, known, api, stopping, sent, told>>
    BY DEF EventPersist, EventPublish, NewManager, brokerVars, history
<1>2. faults' \in 0..MaxFaults
    BY P6Assumption DEF EventPersist, EventPublish, NewManager, Fault, TypeInv, TypeOK
<1>3. CASE EventPersist(m)
    <2>1. /\ store' \in [Tasks -> Row]
          /\ \A x \in Tasks : RowKept(x, store')
          /\ RowsBuilt'
          /\ internal[m] # <<>> /\ internal' = [internal EXCEPT ![m] = Tail(@)]
          /\ internal[m][1] \in Msg
          /\ IF Ending(internal[m][1])
             THEN evLoop' = [evLoop EXCEPT ![m] = internal[m][1]] ELSE evLoop' = evLoop
        BY <1>3, PersistRows
    <2>2. /\ internal' \in [Managers -> Seq(Msg)]
          /\ \A x \in Managers : Len(internal'[x]) <= EventsCap
        BY <1>0, <2>1, ChannelType
    <2>3. UNCHANGED <<req, loop, queue, rl, owed>>
        BY <1>3 DEF EventPersist, brokerVars, history
    <2>4. evLoop' \in [Managers -> {msg \in Msg : Ending(msg)} \cup {NoMsg}]
        BY <1>0, <2>1
    <2>5. TypeOK'
        BY <1>1, <1>2, <2>1, <2>2, <2>3, <2>4 DEF TypeInv, TypeOK, MgrTypeOK, ExecTypeOK
    <2>6. QueueType' /\ \A t \in Tasks : queue["workers"][TaskMsg(t)] \in Nat
        BY <1>0, <2>3, TaskCounts DEF QueueType
    <2>7. TasksKnown'
        BY <2>1, <2>3, <2>6, TasksKnownKept
    <2> QED BY <2>1, <2>5, <2>7 DEF TypeInv
<1>4. CASE EventPublish(m)
    <2>1. evLoop[m] \in Msg /\ evLoop[m].task \in Tasks
        BY <1>0, <1>4 DEF EventPublish, Msg
    <2>2. QueueType' /\ (Added(HearingApis, evLoop[m]) \/ queue' = queue)
        BY <1>0, <1>4, <2>1, SendEffect DEF EventPublish, QueueType
    <2>3. "workers" \notin HearingApis
        BY P6Assumption DEF HearingApis
    <2>4. \A t \in Tasks : queue'["workers"][TaskMsg(t)] <= queue["workers"][TaskMsg(t)]
        BY <1>0, <2>2, <2>3, TaskCounts
    <2>5. owed' \in [Apis -> [Tasks -> Nat]]
        <3> DEFINE o(a) == [owed[a] EXCEPT ![evLoop[m].task] = @ + 1]
        <3>1. \A a \in Apis : owed[a] \in [Tasks -> Nat] /\ o(a) \in [Tasks -> Nat]
            BY <2>1 DEF TypeInv, TypeOK
        <3>2. \/ owed' = owed
              \/ owed' = [a \in Apis |-> IF api[a] \in {"serving", "deaf"} THEN o(a) ELSE owed[a]]
            BY <1>4 DEF EventPublish
        <3> HIDE DEF o
        <3> QED BY <3>1, <3>2 DEF TypeInv, TypeOK
    <2>6. evLoop' \in [Managers -> {msg \in Msg : Ending(msg)} \cup {NoMsg}]
        BY <1>0, <1>4 DEF EventPublish
    <2>7. UNCHANGED <<mgrVars, rl, internal>>
        BY <1>4 DEF EventPublish
    <2>8. TypeOK'
        BY <1>1, <1>2, <2>2, <2>5, <2>6, <2>7
           DEF TypeInv, TypeOK, QueueType, mgrVars, MgrTypeOK, ExecTypeOK
    <2> QED BY <2>2, <2>4, <2>7, <2>8, TypeInvRest
<1>5. CASE NewManager(m)
    <2>1. /\ internal' \in [Managers -> Seq(Msg)]
          /\ \A x \in Managers : Len(internal'[x]) <= EventsCap
        BY <1>0, <1>5, ChannelType DEF NewManager
    <2>2. rl' \in [Loops -> RlState]
        BY <1>0, <1>5 DEF NewManager, NewLoop, RlState
    <2>3. evLoop' \in [Managers -> {msg \in Msg : Ending(msg)} \cup {NoMsg}]
        BY <1>0, <1>5 DEF NewManager
    <2>4. UNCHANGED <<mgrVars, queue, owed>>
        BY <1>5 DEF NewManager, brokerVars, history
    <2>5. TypeOK'
        BY <1>1, <1>2, <2>1, <2>2, <2>3, <2>4
           DEF TypeInv, TypeOK, RlState, mgrVars, MgrTypeOK, ExecTypeOK
    <2>6. QueueType' /\ \A t \in Tasks : queue'["workers"][TaskMsg(t)] <= queue["workers"][TaskMsg(t)]
        BY <1>0, <2>4, TaskCounts DEF QueueType
    <2> QED BY <2>4, <2>5, <2>6, TypeInvRest
<1> QED BY <1>3, <1>4, <1>5

(* The API process.                                                        *)
LEMMA TypeInvApi ==
    ASSUME TypeInv, NEW a \in Apis,
           OpenAWSQueue(a) \/ NewAPI(a) \/ ApiReceive(a) \/ ApiDeaf(a) \/ ApiCrash(a)
    PROVE  TypeInv'
<1>0. /\ QueueType /\ a \in Groups /\ a # "workers"
      /\ known \in [Apis -> SUBSET {"group", "queue", "policy", "subscription"}]
      /\ api \in [Apis -> {"queue", "policy", "subscription", "open", "serving", "deaf"}]
      /\ owed \in [Apis -> [Tasks -> Nat]] /\ told \in [Apis -> [Tasks -> Nat]]
      /\ \A t \in Tasks : queue["workers"][TaskMsg(t)] \in Nat
    BY P6Assumption, TaskCounts DEF TypeInv, TypeOK, QueueType, Groups
<1>1. UNCHANGED <<mgrVars, run, scheme, managerVars, stopping, sent>>
    BY DEF OpenAWSQueue, NewAPI, ApiReceive, ApiDeaf, ApiCrash, brokerVars, history
<1>2. faults' \in 0..MaxFaults
    BY P6Assumption DEF OpenAWSQueue, NewAPI, ApiReceive, ApiDeaf, ApiCrash, Fault, TypeInv, TypeOK
<1>3. api' \in [Apis -> {"queue", "policy", "subscription", "open", "serving", "deaf"}]
    <2>1. api[a] \in DOMAIN Then =>
              Then[api[a]] \in {"queue", "policy", "subscription", "open", "serving", "deaf"}
        BY DEF Then
    <2> QED BY <1>0, <2>1 DEF OpenAWSQueue, NewAPI, ApiReceive, ApiDeaf, ApiCrash, FirstCall
<1>4. known' \in [Apis -> SUBSET {"group", "queue", "policy", "subscription"}]
    <2>1. api[a] \in DOMAIN Then => api[a] \in {"queue", "policy", "subscription"}
        BY DEF Then
    <2> QED BY <1>0, <2>1 DEF OpenAWSQueue, NewAPI, ApiReceive, ApiDeaf, ApiCrash, brokerVars
<1>5. SUFFICES /\ QueueType' /\ owed' \in [Apis -> [Tasks -> Nat]]
               /\ told' \in [Apis -> [Tasks -> Nat]]
               /\ \A t \in Tasks : queue'["workers"][TaskMsg(t)] <= queue["workers"][TaskMsg(t)]
    <2>1. TypeOK'
        BY <1>1, <1>2, <1>3, <1>4, <1>5
           DEF TypeInv, TypeOK, QueueType, managerVars, mgrVars, MgrTypeOK, ExecTypeOK
    <2> QED BY <1>1, <1>5, <2>1, TypeInvRest
<1>6. CASE OpenAWSQueue(a) \/ NewAPI(a) \/ ApiDeaf(a)
    <2>1. UNCHANGED <<queue, owed, told>>
        BY <1>6 DEF OpenAWSQueue, NewAPI, ApiDeaf, brokerVars, history
    <2> QED BY <1>0, <2>1 DEF QueueType
<1>7. CASE ApiReceive(a)
    <2>1. OpenAPIResources(a).group = a
        BY P6Assumption DEF OpenAPIResources, TypeInv, TypeOK
    <2>2. PICK msg \in Msg : Ack(a, msg) /\ told' = [told EXCEPT ![a][msg.task] = @ + 1]
        BY <1>7, <2>1 DEF ApiReceive
    <2>3. QueueType' /\ Removed(a, msg)
        BY <1>0, <2>2, AckEffect
    <2>4. told' \in [Apis -> [Tasks -> Nat]]
        <3>1. msg.task \in Tasks
            BY DEF Msg
        <3>2. [told[a] EXCEPT ![msg.task] = @ + 1] \in [Tasks -> Nat]
            BY <1>0, <3>1
        <3> QED BY <1>0, <2>2, <3>2
    <2>5. owed' = owed
        BY <1>7 DEF ApiReceive
    <2> QED BY <1>0, <2>3, <2>4, <2>5, TaskCounts
<1>8. CASE ApiCrash(a)
    <2>1. \/ UNCHANGED <<queue, owed>>
          \/ queue' = [queue EXCEPT ![a] = Empty] /\ owed' = [owed EXCEPT ![a] = told[a]]
        BY <1>8 DEF ApiCrash
    <2>2. Empty \in [Msg -> Nat]
        BY DEF Empty
    <2>3. QueueType' /\ owed' \in [Apis -> [Tasks -> Nat]] /\ told' = told
        <3>1. told' = told
            BY <1>8 DEF ApiCrash
        <3>2. told[a] \in [Tasks -> Nat] /\ a \in Groups
            BY <1>0 DEF Groups
        <3>3. QueueType'
            BY <1>0, <2>1, <2>2, <3>2 DEF QueueType
        <3>4. owed' \in [Apis -> [Tasks -> Nat]]
            BY <1>0, <2>1, <3>2
        <3> QED BY <3>1, <3>3, <3>4
    <2>4. queue'["workers"] = queue["workers"]
        BY <1>0, <2>1 DEF QueueType, Groups
    <2> QED BY <1>0, <2>3, <2>4
<1> QED BY <1>6, <1>7, <1>8

LEMMA TypeInvNext == TypeInv /\ [Next]_vars => TypeInv'
<1> SUFFICES ASSUME TypeInv, [Next]_vars PROVE TypeInv'
    OBVIOUS
<1>1. CASE UNCHANGED vars
    BY <1>1 DEF vars, brokerVars, managerVars, history, TypeInv, TypeOK, MgrTypeOK, ExecTypeOK,
                RowsBuilt, TasksKnown, Known, Exists, TaskMsg
<1>2. CASE \E t \in Tasks : Submit(t) \/ SubmitFails(t) \/ Redispatch(t)
    BY <1>2, TypeInvSubmit
<1>3. CASE \E w \in Workers : \/ Receive(w) \/ Emit(w) \/ Stage(w) \/ WorkerExit(w)
                              \/ EmitFails(w) \/ WorkerStop(w) \/ WorkerCrash(w)
    BY <1>3, TypeInvWorker
<1>4. CASE \E l \in Loops : ReceiveLoop(l) \/ Push(l) \/ ReceiveLoopEnds(l)
    BY <1>4, TypeInvReceive
<1>5. CASE \E m \in Managers : EventPersist(m) \/ EventPublish(m) \/ NewManager(m)
    BY <1>5, TypeInvManager
<1>6. CASE \E a \in Apis : OpenAWSQueue(a) \/ NewAPI(a) \/ ApiReceive(a) \/ ApiDeaf(a) \/ ApiCrash(a)
    BY <1>6, TypeInvApi
<1> QED BY <1>1, <1>2, <1>3, <1>4, <1>5, <1>6 DEF Next, System

(* Type correctness of pattern 6: whatever is lost, repeated or restarted, *)
(* a worker never takes a task without a row (its stages come from it) and *)
(* internalEvents never holds more than its capacity.                      *)
THEOREM TypeCorrect == Spec => []TypeOK
<1>1. Spec => []TypeInv
    BY TypeInvInit, TypeInvNext, PTL DEF Spec
<1>2. TypeInv => TypeOK
    BY DEF TypeInv
<1> QED BY <1>1, <1>2, PTL

-----------------------------------------------------------------------------
(* Whoever is told an ending finds it in the store.                        *)

LEMMA StoredInvInit == Init => StoredInv
<1> SUFFICES ASSUME Init PROVE StoredInv
    OBVIOUS
<1>1. "manager-events" \in Groups /\ Apis \subseteq Groups
    BY DEF Groups
<1>2. Len(<<>>) = 0 /\ 1..0 = {}
    BY SMT
<1>3. EventsKnown
    BY <1>1, <1>2 DEF Init, EventsKnown, ExecInit, Workers, Busy, BusyPc, EmitPc, Idle, Empty, NewLoop
<1>4. PublishedEnded
    BY <1>1 DEF Init, PublishedEnded, Empty
<1> QED BY <1>3, <1>4 DEF StoredInv

(* It is enough to look at what a step puts into a place: what was there   *)
(* stays known, and stays ended, because rows do.                          *)
LEMMA StoredStep ==
    ASSUME TypeInv, TypeInv', StoredInv,
           \A x \in Tasks : RowKept(x, store'),
           \A w \in Workers : Busy(w)' => \/ Busy(w) /\ run'[w].task = run[w].task
                                          \/ Known(run[w].task)',
           \A msg \in Msg : queue'["manager-events"][msg] > 0 =>
               queue["manager-events"][msg] > 0 \/ Known(msg.task)',
           \A l \in Loops : rl'[l].pc = "push" =>
               rl'[l] = rl[l] \/ (Ending(rl[l].ev)' /\ Known(rl[l].ev.task)'),
           \A m \in Managers : \A i \in 1..Len(internal'[m]) :
               \/ \E j \in 1..Len(internal[m]) : internal'[m][i] = internal[m][j]
               \/ Known(internal[m][i].task)',
           \A m \in Managers : evLoop'[m] # NoMsg =>
               evLoop'[m] = evLoop[m] \/ Ended(evLoop[m].task)',
           \A a \in Apis : \A msg \in Msg : queue'[a][msg] > 0 =>
               queue[a][msg] > 0 \/ (Ending(msg) /\ Ended(msg.task)'),
           \A a \in Apis : \A t \in Tasks : told'[a][t] > 0 => told[a][t] > 0 \/ Ended(t)'
    PROVE  StoredInv'
<1>1. /\ \A x \in Tasks : Known(x) => Known(x)'
      /\ \A x \in Tasks : Ended(x) => Ended(x)'
    BY DEF RowKept, Known, Exists, Ended
<1>2. \A msg \in Msg : msg.task \in Tasks
    BY DEF Msg
<1>3. \A w \in Workers : Busy(w)' => Known(run[w].task)'
    <2> SUFFICES ASSUME NEW w \in Workers, Busy(w)' PROVE Known(run[w].task)'
        OBVIOUS
    <2>1. CASE Busy(w) /\ run'[w].task = run[w].task
        <3>1. run[w].task \in Tasks /\ Known(run[w].task)
            BY <2>1, BusyTask DEF TypeInv, TypeOK, Workers, StoredInv, EventsKnown
        <3> QED BY <1>1, <2>1, <3>1 DEF Known, Exists
    <2> QED BY <2>1
<1>4. \A msg \in Msg : queue'["manager-events"][msg] > 0 => Known(msg.task)'
    BY <1>1, <1>2 DEF StoredInv, EventsKnown
<1>5. \A l \in Loops : rl'[l].pc = "push" => Ending(rl[l].ev)' /\ Known(rl[l].ev.task)'
    <2> SUFFICES ASSUME NEW l \in Loops, rl'[l].pc = "push", rl'[l] = rl[l]
                 PROVE  Ending(rl[l].ev)' /\ Known(rl[l].ev.task)'
        OBVIOUS
    <2>1. Ending(rl[l].ev) /\ Known(rl[l].ev.task) /\ rl[l].ev \in Msg
        BY DEF StoredInv, EventsKnown, TypeInv, TypeOK
    <2> QED BY <1>1, <1>2, <2>1 DEF Known, Exists, Ending
<1>6. \A m \in Managers : \A i \in 1..Len(internal'[m]) : Known(internal[m][i].task)'
    <2> SUFFICES ASSUME NEW m \in Managers, NEW i \in 1..Len(internal'[m]),
                        NEW j \in 1..Len(internal[m]), internal'[m][i] = internal[m][j]
                 PROVE  Known(internal[m][i].task)'
        OBVIOUS
    <2>1. internal[m] \in Seq(Msg)
        BY DEF TypeInv, TypeOK
    <2>2. internal[m][j] \in Msg
        BY <2>1, SMT
    <2>3. Known(internal[m][j].task)
        BY DEF StoredInv, EventsKnown
    <2> QED BY <1>1, <1>2, <2>2, <2>3 DEF Known, Exists
<1>7. \A m \in Managers : evLoop'[m] # NoMsg => Ended(evLoop[m].task)'
    <2> SUFFICES ASSUME NEW m \in Managers, evLoop'[m] # NoMsg, evLoop'[m] = evLoop[m]
                 PROVE  Ended(evLoop[m].task)'
        OBVIOUS
    <2>1. evLoop[m] \in Msg /\ Ended(evLoop[m].task)
        BY DEF TypeInv, TypeOK, StoredInv, PublishedEnded
    <2> QED BY <1>1, <1>2, <2>1 DEF Ended
<1>8. \A a \in Apis : \A msg \in Msg : queue'[a][msg] > 0 => Ending(msg) /\ Ended(msg.task)'
    BY <1>1, <1>2 DEF StoredInv, PublishedEnded
<1>9. \A a \in Apis : \A t \in Tasks : told'[a][t] > 0 => Ended(t)'
    BY <1>1 DEF StoredInv, PublishedEnded
<1>10. EventsKnown'
    BY <1>3, <1>4, <1>5, <1>6 DEF EventsKnown
<1>11. PublishedEnded'
    BY <1>7, <1>8, <1>9 DEF PublishedEnded, Ending
<1> QED BY <1>10, <1>11 DEF StoredInv

(* Messages in a subscription after a step.                                *)
LEMMA QueueContents ==
    ASSUME QueueType, NEW h \in Groups, NEW x \in Msg
    PROVE  /\ \A g, msg : Removed(g, msg) /\ queue'[h][x] > 0 => queue[h][x] > 0
           /\ \A G, msg : Added(G, msg) /\ queue'[h][x] > 0 => queue[h][x] > 0 \/ (h \in G /\ x = msg)
<1>1. queue[h][x] \in Nat
    BY DEF QueueType
<1> QED BY <1>1 DEF Removed, Added, One

LEMMA RowsUnchanged ==
    ASSUME UNCHANGED store
    PROVE  \A x \in Tasks : RowKept(x, store')
BY DEF RowKept, Known, Exists

LEMMA StoredInvSubmit ==
    ASSUME TypeInv, TypeInv', StoredInv, NEW t \in Tasks,
           Submit(t) \/ SubmitFails(t) \/ Redispatch(t)
    PROVE  StoredInv'
<1>0. /\ QueueType /\ scheme \in Schemes /\ store \in [Tasks -> Row] /\ TaskMsg(t) \in Msg
      /\ "manager-events" \in Groups /\ "manager-events" # "workers"
      /\ \A a \in Apis : a \in Groups /\ a # "workers"
    BY TaskMsgs, P6Assumption DEF TypeInv, TypeOK, QueueType, MgrTypeOK, Groups
<1>1. \A x \in Tasks : RowKept(x, store')
    <2>1. CASE Submit(t) \/ SubmitFails(t)
        <3>0. "other" \in DispatchError /\ StageCounts \subseteq Int
            BY P6Assumption DEF DispatchError
        <3>1. PICK u \in UserIDs, n \in Int :
                  SubmitAccepted(t, u, n) \/ \E err \in DispatchError : SubmitRejected(t, u, n, err)
            BY <2>1, <3>0 DEF Submit, SubmitFails
        <3> QED BY <1>0, <3>1, RowsOfSubmitOnce
    <2>2. CASE Redispatch(t)
        BY <2>2, RowsUnchanged DEF Redispatch, mgrVars
    <2> QED BY <2>1, <2>2
<1>2. Added({"workers"}, TaskMsg(t)) \/ queue' = queue
    BY <1>0, SendEffect DEF Submit, SubmitFails, Redispatch
<1>3. /\ \A msg \in Msg : queue'["manager-events"][msg] > 0 => queue["manager-events"][msg] > 0
      /\ \A a \in Apis : \A msg \in Msg : queue'[a][msg] > 0 => queue[a][msg] > 0
    BY <1>0, <1>2, QueueContents
<1>4. UNCHANGED <<run, rl, internal, evLoop, told>>
    BY DEF Submit, SubmitFails, Redispatch, managerVars, history
<1>5. \A w \in Workers : Busy(w)' => Busy(w) /\ run'[w].task = run[w].task
    BY <1>4 DEF Busy
<1> QED BY <1>1, <1>3, <1>4, <1>5, StoredStep

LEMMA StoredInvWorker ==
    ASSUME TypeInv, TypeInv', StoredInv, NEW w \in Workers,
           \/ Receive(w) \/ Emit(w) \/ Stage(w) \/ WorkerExit(w)
           \/ EmitFails(w) \/ WorkerStop(w) \/ WorkerCrash(w)
    PROVE  StoredInv'
<1>0. /\ QueueType /\ scheme \in Schemes /\ w \in Runs /\ ExecTypeOK /\ Workers = Runs
      /\ "manager-events" \in Groups /\ "workers" \in Groups
      /\ \A a \in Apis : a \in Groups /\ a # "manager-events"
    BY P6Assumption DEF TypeInv, TypeOK, QueueType, Workers, Groups
<1>1. UNCHANGED <<store, rl, internal, evLoop, told>>
    BY DEF Receive, Emit, Stage, WorkerExit, EmitFails, WorkerStop, WorkerCrash, history,
           mgrVars, managerVars
<1>2. \A x \in Tasks : RowKept(x, store')
    BY <1>1, RowsUnchanged
<1>3. SUFFICES /\ \A x \in Workers : Busy(x)' => \/ Busy(x) /\ run'[x].task = run[x].task
                                                 \/ Known(run[x].task)'
               /\ \A msg \in Msg : queue'["manager-events"][msg] > 0 =>
                      queue["manager-events"][msg] > 0 \/ Known(msg.task)'
               /\ \A a \in Apis : \A msg \in Msg : queue'[a][msg] > 0 => queue[a][msg] > 0
    BY <1>1, <1>2, <1>3, StoredStep
<1>4. ASSUME \A x \in Workers : x # w => run'[x] = run[x],
             Busy(w)' => (Busy(w) /\ run'[w].task = run[w].task) \/ Known(run[w].task)'
      PROVE  \A x \in Workers : Busy(x)' => \/ Busy(x) /\ run'[x].task = run[x].task
                                            \/ Known(run[x].task)'
    BY <1>4 DEF Busy
<1>5. CASE Receive(w)
    <2>1. PICK t \in Tasks : Ack("workers", TaskMsg(t)) /\ RunStart(w, t, store[t].stages)
        BY <1>5 DEF Receive
    <2>2. queue["workers"][TaskMsg(t)] > 0 /\ Removed("workers", TaskMsg(t))
        BY <1>0, <2>1, AckEffect, TaskMsgs
    <2>3. Known(t)
        BY <2>2 DEF TypeInv, TasksKnown
    <2>4. run'[w].task = t /\ \A x \in Workers : x # w => run'[x] = run[x]
        BY <1>0, <2>1 DEF RunStart, ExecTypeOK
    <2>5. Known(run[w].task)'
        BY <1>1, <2>3, <2>4 DEF Known, Exists
    <2> QED BY <1>0, <1>4, <2>2, <2>4, <2>5, QueueContents
<1>6. CASE Emit(w) \/ EmitFails(w)
    <2>1. EmitDone(w)
        BY <1>6 DEF Emit, EmitFails
    <2>2. /\ Busy(w) /\ \A x \in Workers : x # w => run'[x] = run[x]
          /\ Busy(w)' => run'[w].task = run[w].task
        BY <1>0, <2>1, EmitOutcome
    <2>3. run[w].task \in Tasks /\ Known(run[w].task)
        BY <1>0, <2>2, BusyTask DEF StoredInv, EventsKnown
    <2>4. \/ queue' = queue
          \/ EmitMsg(w) \in Msg /\ Added({"manager-events"}, EmitMsg(w))
        <3>1. CASE queue' = queue
            BY <3>1
        <3>2. CASE run[w].pc \notin {"start", "end"} /\ Send(OpenWorkerResources.events, EmitMsg(w))
            <4>1. EmitMsg(w) \in Msg
                BY <2>1, <2>3, <3>2 DEF EmitDone, EmitPc, EmitMsg, Msg, Terminal
            <4> QED BY <1>0, <3>2, <4>1, SendEffect
        <3> QED BY <1>6, <3>1, <3>2 DEF Emit, EmitFails, brokerVars
    <2>5. EmitMsg(w).task = run[w].task
        BY DEF EmitMsg
    <2>6. \A msg \in Msg : queue'["manager-events"][msg] > 0 =>
                      queue["manager-events"][msg] > 0 \/ Known(msg.task)'
        <3> SUFFICES ASSUME NEW msg \in Msg, queue'["manager-events"][msg] > 0,
                            ~(queue["manager-events"][msg] > 0)
                     PROVE  Known(msg.task)'
            OBVIOUS
        <3>1. msg = EmitMsg(w)
            BY <1>0, <2>4, QueueContents
        <3> QED BY <1>1, <2>3, <2>5, <3>1 DEF Known, Exists
    <2>7. \A a \in Apis : \A msg \in Msg : queue'[a][msg] > 0 => queue[a][msg] > 0
        BY <1>0, <2>4, QueueContents
    <2> QED BY <1>4, <2>2, <2>6, <2>7
<1>7. CASE Stage(w) \/ WorkerExit(w) \/ WorkerStop(w) \/ WorkerCrash(w)
    <2>1. queue' = queue
        BY <1>7 DEF Stage, WorkerExit, WorkerStop, WorkerCrash, brokerVars
    <2>2. \A x \in Workers : x # w => run'[x] = run[x]
        BY <1>0, <1>7 DEF Stage, StageSleep, StageCancelled, WorkerExit, RunExit, WorkerStop, WorkerCrash,
                    ExecTypeOK
    <2>3. Busy(w)' => Busy(w) /\ run'[w].task = run[w].task
        <3>1. CASE Stage(w)
            <4>1. run[w] \in RunState /\ run[w].pc = "sleep"
                BY <1>0, <3>1 DEF Stage, StageSleep, StageCancelled, ExecTypeOK, Idle, Exited
            <4>2. run'[w] = [run[w] EXCEPT !.pc = "end"] \/ run'[w] = [run[w] EXCEPT !.pc = "failed"]
                BY <1>0, <3>1 DEF Stage, StageSleep, StageCancelled, ExecTypeOK
            <4> QED BY <4>1, <4>2 DEF RunState, Busy, BusyPc
        <3>2. CASE WorkerExit(w) \/ WorkerCrash(w)
            BY <1>0, <3>2 DEF WorkerExit, RunExit, WorkerCrash, Busy, BusyPc, EmitPc, Idle, Exited,
                        ExecTypeOK
        <3>3. CASE WorkerStop(w)
            BY <3>3 DEF WorkerStop, Busy
        <3> QED BY <1>7, <3>1, <3>2, <3>3
    <2> QED BY <1>4, <2>1, <2>2, <2>3
<1> QED BY <1>5, <1>6, <1>7

(* internalEvents after a step, element by element.                        *)
LEMMA ChannelContents ==
    ASSUME internal \in [Managers -> Seq(Msg)], NEW m \in Managers
    PROVE  /\ \A e \in Msg : internal' = [internal EXCEPT ![m] = Append(@, e)] =>
                AppendedAt(internal, internal', Managers, m, e)
           /\ internal[m] # <<>> /\ internal' = [internal EXCEPT ![m] = Tail(@)] =>
                ReceivedAt(internal, internal', Managers, m)
           /\ internal' = [internal EXCEPT ![m] = <<>>] =>
                ClearedAt(internal, internal', Managers, m)
BY SeqSteps

(* What a channel holds after a step it held before, or it was appended.   *)
LEMMA AppendedOrigin ==
    ASSUME NEW f, NEW g, NEW D, NEW m \in D, NEW e, AppendedAt(f, g, D, m, e),
           NEW x \in D, NEW i \in 1..Len(g[x])
    PROVE  (\E j \in 1..Len(f[x]) : g[x][i] = f[x][j]) \/ g[x][i] = e
<1>1. CASE x = m
    <2>1. i \in 1..Len(f[m]) \/ i = Len(f[m]) + 1
        BY <1>1 DEF AppendedAt
    <2> QED BY <1>1, <2>1 DEF AppendedAt
<1>2. CASE x # m
    BY <1>2 DEF AppendedAt
<1> QED BY <1>1, <1>2

LEMMA ReceivedOrigin ==
    ASSUME NEW f, NEW g, NEW D, NEW m \in D, ReceivedAt(f, g, D, m) \/ ClearedAt(f, g, D, m),
           NEW x \in D, NEW i \in 1..Len(g[x])
    PROVE  \E j \in 1..Len(f[x]) : g[x][i] = f[x][j]
<1>1. CASE ReceivedAt(f, g, D, m)
    <2>1. CASE x = m
        <3>1. i + 1 \in 1..Len(f[m]) /\ g[m][i] = f[m][i + 1]
            BY <1>1, <2>1 DEF ReceivedAt
        <3> QED BY <2>1, <3>1
    <2>2. CASE x # m
        BY <1>1, <2>2 DEF ReceivedAt
    <2> QED BY <2>1, <2>2
<1>2. CASE ClearedAt(f, g, D, m)
    <2>1. x # m
        <3>1. 1..0 = {}
            BY SMT
        <3> QED BY <1>2, <3>1 DEF ClearedAt
    <2> QED BY <1>2, <2>1 DEF ClearedAt
<1> QED BY <1>1, <1>2

LEMMA StoredInvReceive ==
    ASSUME TypeInv, TypeInv', StoredInv, NEW l \in Loops,
           ReceiveLoop(l) \/ Push(l) \/ ReceiveLoopEnds(l)
    PROVE  StoredInv'
<1>0. /\ QueueType /\ rl \in [Loops -> RlState] /\ l[1] \in Managers
      /\ internal \in [Managers -> Seq(Msg)]
      /\ "manager-events" \in Groups /\ \A a \in Apis : a \in Groups
    BY LoopParts DEF TypeInv, TypeOK, QueueType, RlState, Groups
<1>00. l[1] \in Managers
    BY LoopParts
<1>1. UNCHANGED <<store, run, evLoop, told>>
    BY DEF ReceiveLoop, Push, ReceiveLoopEnds, mgrVars, history
<1>2. \A x \in Tasks : RowKept(x, store')
    BY <1>1, RowsUnchanged
<1>3. \A w \in Workers : Busy(w)' => Busy(w) /\ run'[w].task = run[w].task
    BY <1>1 DEF Busy
<1>4. SUFFICES /\ \A h \in Groups : \A x \in Msg : queue'[h][x] > 0 => queue[h][x] > 0
               /\ \A x \in Loops : rl'[x].pc = "push" =>
                      rl'[x] = rl[x] \/ (Ending(rl[x].ev)' /\ Known(rl[x].ev.task)')
               /\ \A m \in Managers : \A i \in 1..Len(internal'[m]) :
                      \/ \E j \in 1..Len(internal[m]) : internal'[m][i] = internal[m][j]
                      \/ Known(internal[m][i].task)'
    BY <1>0, <1>1, <1>2, <1>3, <1>4, StoredStep
<1>5. CASE ReceiveLoop(l)
    <2>1. PICK msg \in Msg :
              /\ Ack("manager-events", msg)
              /\ IF Ending(msg)
                 THEN /\ rl' = [rl EXCEPT ![l] = [pc |-> "push", ev |-> msg]]
                      /\ UNCHANGED internal
                 ELSE /\ internal' = IF Len(internal[l[1]]) < EventsCap
                                     THEN [internal EXCEPT ![l[1]] = Append(@, msg)] ELSE internal
                      /\ UNCHANGED rl
        BY <1>5 DEF ReceiveLoop
    <2>2. Removed("manager-events", msg) /\ queue["manager-events"][msg] > 0
        BY <1>0, <2>1, AckEffect
    <2>3. Known(msg.task)
        BY <2>2 DEF StoredInv, EventsKnown
    <2>4. \A x \in Loops : rl'[x].pc = "push" =>
              rl'[x] = rl[x] \/ (Ending(rl[x].ev)' /\ Known(rl[x].ev.task)')
        <3>1. CASE rl' = rl
            BY <3>1
        <3>2. CASE Ending(msg) /\ rl' = [rl EXCEPT ![l] = [pc |-> "push", ev |-> msg]]
            <4>1. rl'[l].ev = msg /\ \A x \in Loops : x # l => rl'[x] = rl[x]
                BY <1>0, <3>2
            <4>2. Ending(rl[l].ev)' /\ Known(rl[l].ev.task)'
                BY <1>1, <2>3, <3>2, <4>1 DEF Known, Exists, Ending
            <4> QED BY <4>1, <4>2
        <3> QED BY <2>1, <3>1, <3>2
    <2>5. internal' = internal \/ AppendedAt(internal, internal', Managers, l[1], msg)
        BY <1>0, <2>1, ChannelContents
    <2>6. \A m \in Managers : \A i \in 1..Len(internal'[m]) :
                      \/ \E j \in 1..Len(internal[m]) : internal'[m][i] = internal[m][j]
                      \/ Known(internal[m][i].task)'
        <3> SUFFICES ASSUME NEW m \in Managers, NEW i \in 1..Len(internal'[m]),
                            ~\E j \in 1..Len(internal[m]) : internal'[m][i] = internal[m][j]
                     PROVE  Known(internal[m][i].task)'
            OBVIOUS
        <3>1. \/ \E j \in 1..Len(internal[m]) : internal'[m][i] = internal[m][j]
              \/ internal'[m][i] = msg
            <4>1. CASE internal' = internal
                BY <4>1
            <4>2. CASE AppendedAt(internal, internal', Managers, l[1], msg)
                BY <1>00, <4>2, AppendedOrigin, SMTT(40)
            <4> QED BY <2>5, <4>1, <4>2
        <3>2. internal'[m][i] = msg
            BY <3>1
        <3> QED BY <1>1, <2>3, <3>2 DEF Known, Exists
    <2> QED BY <1>0, <2>2, <2>4, <2>6, QueueContents
<1>6. CASE Push(l)
    <2>1. rl[l].ev \in Msg /\ Known(rl[l].ev.task)
        BY <1>0, <1>6 DEF Push, RlState, StoredInv, EventsKnown
    <2>2. AppendedAt(internal, internal', Managers, l[1], rl[l].ev)
        BY <1>0, <1>6, <2>1, ChannelContents DEF Push
    <2>3. \A m \in Managers : \A i \in 1..Len(internal'[m]) :
                      \/ \E j \in 1..Len(internal[m]) : internal'[m][i] = internal[m][j]
                      \/ Known(internal[m][i].task)'
        <3> SUFFICES ASSUME NEW m \in Managers, NEW i \in 1..Len(internal'[m]),
                            ~\E j \in 1..Len(internal[m]) : internal'[m][i] = internal[m][j]
                     PROVE  Known(internal[m][i].task)'
            OBVIOUS
        <3>1. \/ \E j \in 1..Len(internal[m]) : internal'[m][i] = internal[m][j]
              \/ internal'[m][i] = rl[l].ev
            BY <1>00, <2>2, AppendedOrigin, SMTT(40)
        <3>2. internal'[m][i] = rl[l].ev
            BY <3>1
        <3> QED BY <1>1, <2>1, <3>2 DEF Known, Exists
    <2>4. \A x \in Loops : rl'[x].pc = "push" => rl'[x] = rl[x]
        BY <1>0, <1>6 DEF Push, NewLoop
    <2>5. queue' = queue
        BY <1>6 DEF Push, brokerVars
    <2> QED BY <2>3, <2>4, <2>5
<1>7. CASE ReceiveLoopEnds(l)
    <2>1. queue' = queue /\ internal' = internal
        BY <1>7 DEF ReceiveLoopEnds, brokerVars
    <2>2. \A x \in Loops : rl'[x].pc = "push" => rl'[x] = rl[x]
        <3>1. [rl[l] EXCEPT !.pc = "gone"].pc = "gone"
            BY <1>0, <1>7 DEF ReceiveLoopEnds, RlState
        <3> QED BY <1>0, <1>7, <3>1 DEF ReceiveLoopEnds
    <2> QED BY <2>1, <2>2
<1> QED BY <1>5, <1>6, <1>7

LEMMA StoredInvManager ==
    ASSUME TypeInv, TypeInv', StoredInv, NEW m \in Managers,
           EventPersist(m) \/ EventPublish(m) \/ NewManager(m)
    PROVE  StoredInv'
<1>0. /\ QueueType /\ rl \in [Loops -> RlState] /\ scheme \in Schemes
      /\ internal \in [Managers -> Seq(Msg)]
      /\ evLoop \in [Managers -> {msg \in Msg : Ending(msg)} \cup {NoMsg}]
      /\ "manager-events" \in Groups /\ "manager-events" \notin HearingApis
      /\ \A a \in Apis : a \in Groups
    BY P6Assumption DEF TypeInv, TypeOK, QueueType, RlState, Groups, HearingApis
<1>1. UNCHANGED <<run, told>>
    BY DEF EventPersist, EventPublish, NewManager, history
<1>2. \A w \in Workers : Busy(w)' => Busy(w) /\ run'[w].task = run[w].task
    BY <1>1 DEF Busy
<1>3. CASE EventPersist(m)
    <2> DEFINE e == internal[m][1]
    <2>1. /\ \A x \in Tasks : RowKept(x, store')
          /\ internal[m] # <<>> /\ internal' = [internal EXCEPT ![m] = Tail(@)]
          /\ e \in Msg /\ 1 \in 1..Len(internal[m])
          /\ IF Ending(e)
             THEN /\ evLoop' = [evLoop EXCEPT ![m] = e]
                  /\ Exists(e.task) => store'[e.task].status \in Terminal
             ELSE evLoop' = evLoop
        BY <1>3, PersistRows
    <2>2. Exists(e.task)
        BY <2>1 DEF StoredInv, EventsKnown, Known
    <2> HIDE DEF e
    <2>3. ReceivedAt(internal, internal', Managers, m)
        BY <1>0, <2>1, ChannelContents
    <2>4. \A x \in Managers : \A i \in 1..Len(internal'[x]) :
              \E j \in 1..Len(internal[x]) : internal'[x][i] = internal[x][j]
        BY <2>3, ReceivedOrigin, SMTT(40)
    <2>5. \A x \in Managers : evLoop'[x] # NoMsg =>
               evLoop'[x] = evLoop[x] \/ Ended(evLoop[x].task)'
        BY <1>0, <2>1, <2>2 DEF Ended
    <2>6. UNCHANGED <<queue, rl>>
        BY <1>3 DEF EventPersist, brokerVars
    <2> QED BY <1>1, <1>2, <2>1, <2>4, <2>5, <2>6, StoredStep
<1>4. CASE EventPublish(m)
    <2>0. UNCHANGED <<store, rl, internal>>
        BY <1>4 DEF EventPublish, mgrVars
    <2>1. evLoop[m] \in Msg /\ Ending(evLoop[m]) /\ Ended(evLoop[m].task)
        BY <1>0, <1>4 DEF EventPublish, StoredInv, PublishedEnded
    <2>2. Added(HearingApis, evLoop[m]) \/ queue' = queue
        BY <1>0, <1>4, <2>1, SendEffect DEF EventPublish
    <2>3. \A msg \in Msg : queue'["manager-events"][msg] > 0 => queue["manager-events"][msg] > 0
        BY <1>0, <2>2, QueueContents
    <2>4. \A a \in Apis : \A msg \in Msg : queue'[a][msg] > 0 =>
              queue[a][msg] > 0 \/ (Ending(msg) /\ Ended(msg.task)')
        <3> SUFFICES ASSUME NEW a \in Apis, NEW msg \in Msg, queue'[a][msg] > 0,
                            ~(queue[a][msg] > 0)
                     PROVE  Ending(msg) /\ Ended(msg.task)'
            OBVIOUS
        <3>1. msg = evLoop[m]
            BY <1>0, <2>2, QueueContents
        <3> QED BY <2>0, <2>1, <3>1 DEF Ended
    <2>5. \A x \in Managers : evLoop'[x] # NoMsg => evLoop'[x] = evLoop[x]
        BY <1>0, <1>4 DEF EventPublish
    <2>6. \A x \in Tasks : RowKept(x, store')
        BY <2>0, RowsUnchanged
    <2> QED BY <1>1, <1>2, <2>0, <2>3, <2>4, <2>5, <2>6, StoredStep
<1>5. CASE NewManager(m)
    <2>0. UNCHANGED <<store, queue>>
        BY <1>5 DEF NewManager, mgrVars, brokerVars
    <2>1. ClearedAt(internal, internal', Managers, m)
        BY <1>0, <1>5, ChannelContents DEF NewManager
    <2>2. \A x \in Managers : \A i \in 1..Len(internal'[x]) :
              \E j \in 1..Len(internal[x]) : internal'[x][i] = internal[x][j]
        BY <2>1, ReceivedOrigin, SMTT(40)
    <2>3. \A x \in Managers : evLoop'[x] # NoMsg => evLoop'[x] = evLoop[x]
        BY <1>0, <1>5 DEF NewManager
    <2>4. \A x \in Loops : rl'[x].pc = "push" => rl'[x] = rl[x]
        BY <1>0, <1>5 DEF NewManager, NewLoop
    <2>5. \A x \in Tasks : RowKept(x, store')
        BY <2>0, RowsUnchanged
    <2> QED BY <1>1, <1>2, <2>0, <2>2, <2>3, <2>4, <2>5, StoredStep
<1> QED BY <1>3, <1>4, <1>5

LEMMA StoredInvApi ==
    ASSUME TypeInv, TypeInv', StoredInv, NEW a \in Apis,
           OpenAWSQueue(a) \/ NewAPI(a) \/ ApiReceive(a) \/ ApiDeaf(a) \/ ApiCrash(a)
    PROVE  StoredInv'
<1>0. /\ QueueType /\ a \in Groups /\ a # "manager-events" /\ \A b \in Apis : b \in Groups
      /\ told \in [Apis -> [Tasks -> Nat]] /\ "manager-events" \in Groups
    BY P6Assumption DEF TypeInv, TypeOK, QueueType, Groups
<1>1. UNCHANGED <<store, run, rl, internal, evLoop>>
    BY DEF OpenAWSQueue, NewAPI, ApiReceive, ApiDeaf, ApiCrash, mgrVars, managerVars
<1>2. \A w \in Workers : Busy(w)' => Busy(w) /\ run'[w].task = run[w].task
    BY <1>1 DEF Busy
<1>3. \A x \in Tasks : RowKept(x, store')
    BY <1>1, RowsUnchanged
<1>4. SUFFICES /\ \A h \in Groups : \A x \in Msg : queue'[h][x] > 0 => queue[h][x] > 0
               /\ \A b \in Apis : \A t \in Tasks : told'[b][t] > 0 => told[b][t] > 0 \/ Ended(t)'
    BY <1>0, <1>1, <1>2, <1>3, <1>4, StoredStep
<1>5. CASE OpenAWSQueue(a) \/ NewAPI(a) \/ ApiDeaf(a)
    BY <1>5 DEF OpenAWSQueue, NewAPI, ApiDeaf, brokerVars, history
<1>6. CASE ApiReceive(a)
    <2>1. OpenAPIResources(a).group = a
        BY P6Assumption DEF OpenAPIResources, TypeInv, TypeOK
    <2>2. PICK msg \in Msg : Ack(a, msg) /\ told' = [told EXCEPT ![a][msg.task] = @ + 1]
        BY <1>6, <2>1 DEF ApiReceive
    <2>3. Removed(a, msg) /\ queue[a][msg] > 0
        BY <1>0, <2>2, AckEffect
    <2>4. Ended(msg.task) /\ msg.task \in Tasks
        BY <2>3 DEF StoredInv, PublishedEnded, Msg
    <2>5. \A b \in Apis : \A t \in Tasks : told'[b][t] = told[b][t] \/ (b = a /\ t = msg.task)
        BY <1>0, <2>2, <2>4
    <2>6. \A b \in Apis : \A t \in Tasks : told'[b][t] > 0 => told[b][t] > 0 \/ Ended(t)'
        BY <1>1, <2>4, <2>5 DEF Ended
    <2> QED BY <1>0, <2>3, <2>6, QueueContents
<1>7. CASE ApiCrash(a)
    <2>1. queue' = queue \/ queue' = [queue EXCEPT ![a] = Empty]
        BY <1>7 DEF ApiCrash
    <2>2. \A x \in Msg : Empty[x] = 0
        BY DEF Empty
    <2>3. \A h \in Groups : \A x \in Msg : queue'[h][x] > 0 => queue[h][x] > 0
        <3>1. \A h \in Groups : queue'[h] = queue[h] \/ queue'[h] = Empty
            BY <1>0, <2>1 DEF QueueType
        <3> QED BY <2>2, <3>1
    <2>4. told' = told
        BY <1>7 DEF ApiCrash
    <2> QED BY <2>3, <2>4
<1> QED BY <1>5, <1>6, <1>7

LEMMA StoredInvNext == TypeInv /\ StoredInv /\ [Next]_vars => StoredInv'
<1> SUFFICES ASSUME TypeInv, StoredInv, [Next]_vars PROVE StoredInv'
    OBVIOUS
<1>0. TypeInv'
    BY TypeInvNext
<1>1. CASE UNCHANGED vars
    BY <1>1 DEF vars, brokerVars, managerVars, history, StoredInv, EventsKnown, PublishedEnded,
                Known, Exists, Busy, Ended, Ending
<1>2. CASE \E t \in Tasks : Submit(t) \/ SubmitFails(t) \/ Redispatch(t)
    BY <1>0, <1>2, StoredInvSubmit
<1>3. CASE \E w \in Workers : \/ Receive(w) \/ Emit(w) \/ Stage(w) \/ WorkerExit(w)
                              \/ EmitFails(w) \/ WorkerStop(w) \/ WorkerCrash(w)
    BY <1>0, <1>3, StoredInvWorker
<1>4. CASE \E l \in Loops : ReceiveLoop(l) \/ Push(l) \/ ReceiveLoopEnds(l)
    BY <1>0, <1>4, StoredInvReceive
<1>5. CASE \E m \in Managers : EventPersist(m) \/ EventPublish(m) \/ NewManager(m)
    BY <1>0, <1>5, StoredInvManager
<1>6. CASE \E a \in Apis : OpenAWSQueue(a) \/ NewAPI(a) \/ ApiReceive(a) \/ ApiDeaf(a) \/ ApiCrash(a)
    BY <1>0, <1>6, StoredInvApi
<1> QED BY <1>1, <1>2, <1>3, <1>4, <1>5, <1>6 DEF Next, System

(* When an API server gives an ending to its hub, the row has ended: the   *)
(* event loop persists before it publishes, and the row is there because   *)
(* no event is older than the row of its task.  Repeated, reordered and    *)
(* lost messages and restarts of any process do not change that.           *)
THEOREM ToldIsStoredCorrect == Spec => []ToldIsStored
<1>1. Init => TypeInv /\ StoredInv
    BY TypeInvInit, StoredInvInit
<1>2. TypeInv /\ StoredInv /\ [Next]_vars => (TypeInv /\ StoredInv)'
    BY TypeInvNext, StoredInvNext
<1>3. TypeInv /\ StoredInv => ToldIsStored
    BY DEF StoredInv, PublishedEnded, Ended, ToldIsStored
<1> QED BY <1>1, <1>2, <1>3, PTL DEF Spec

-----------------------------------------------------------------------------
(* Every API gets its copy, and one only.                                  *)

LEMMA EndingMembers ==
    ASSUME NEW t \in Tasks
    PROVE  /\ NoMsg \notin EndingsOf(t)
           /\ \A msg \in Msg : msg \in EndingsOf(t) <=> Ending(msg) /\ msg.task = t
           /\ \A msg \in Msg : ~Ending(msg) => msg \notin EndingsOf(t)
<1>1. ~Ending(NoMsg)
    BY DEF NoMsg, Ending, Terminal
<1> QED BY <1>1 DEF EndingsOf

(* Each of the two endings is one message, and a message is not both.      *)
LEMMA EndingsPair ==
    ASSUME NEW t \in Tasks
    PROVE  /\ [task |-> t, body |-> "completed"] \in Msg
           /\ [task |-> t, body |-> "failed"] \in Msg
           /\ \A msg \in Msg :
                 One(msg \in EndingsOf(t)) = One([task |-> t, body |-> "completed"] = msg)
                                             + One([task |-> t, body |-> "failed"] = msg)
<1> DEFINE c == [task |-> t, body |-> "completed"]
           f == [task |-> t, body |-> "failed"]
<1>1. c \in Msg /\ f \in Msg /\ c # f
    BY DEF Msg, Terminal
<1>2. \A msg \in Msg : msg \in EndingsOf(t) <=> c = msg \/ f = msg
    BY DEF Msg, EndingsOf, Ending, Terminal
<1> HIDE DEF c, f
<1>3. \A msg \in Msg : One(msg \in EndingsOf(t)) = One(c = msg) + One(f = msg)
    BY <1>1, <1>2 DEF One
<1> QED BY <1>1, <1>3 DEF c, f

(* How the endings of a task in a subscription change with its messages.   *)
LEMMA WaitingEffect ==
    ASSUME QueueType, NEW t \in Tasks, NEW h \in Groups
    PROVE  /\ Waiting(h, t) \in Nat
           /\ \A G, msg : msg \in Msg /\ Added(G, msg) =>
                 Waiting(h, t)' = Waiting(h, t) + One(h \in G /\ msg \in EndingsOf(t))
           /\ \A g, msg : msg \in Msg /\ Removed(g, msg) =>
                 Waiting(h, t)' = Waiting(h, t) - One(h = g /\ msg \in EndingsOf(t))
           /\ queue' = queue => Waiting(h, t)' = Waiting(h, t)
<1> DEFINE c == [task |-> t, body |-> "completed"]
           f == [task |-> t, body |-> "failed"]
<1>1. /\ c \in Msg /\ f \in Msg
      /\ \A msg \in Msg : One(msg \in EndingsOf(t)) = One(c = msg) + One(f = msg)
    BY EndingsPair
<1>2. Waiting(h, t) = queue[h][c] + queue[h][f] /\ Waiting(h, t)' = queue'[h][c] + queue'[h][f]
    BY DEF Waiting
<1> HIDE DEF c, f
<1>3. queue[h][c] \in Nat /\ queue[h][f] \in Nat
    BY <1>1 DEF QueueType
<1>4. ASSUME NEW G, NEW msg \in Msg, Added(G, msg)
      PROVE  Waiting(h, t)' = Waiting(h, t) + One(h \in G /\ msg \in EndingsOf(t))
    <2>1. /\ queue'[h][c] = queue[h][c] + One(h \in G /\ c = msg)
          /\ queue'[h][f] = queue[h][f] + One(h \in G /\ f = msg)
        BY <1>1, <1>4 DEF Added
    <2>2. One(msg \in EndingsOf(t)) = One(c = msg) + One(f = msg)
        BY <1>1
    <2>3. One(h \in G /\ msg \in EndingsOf(t)) = One(h \in G /\ c = msg) + One(h \in G /\ f = msg)
        BY <2>2 DEF One
    <2>4. /\ One(h \in G /\ c = msg) \in 0..1 /\ One(h \in G /\ f = msg) \in 0..1
        BY DEF One
    <2> QED BY <1>2, <1>3, <2>1, <2>3, <2>4
<1>5. ASSUME NEW g, NEW msg \in Msg, Removed(g, msg)
      PROVE  Waiting(h, t)' = Waiting(h, t) - One(h = g /\ msg \in EndingsOf(t))
    <2>1. /\ queue'[h][c] = queue[h][c] - One(h = g /\ c = msg)
          /\ queue'[h][f] = queue[h][f] - One(h = g /\ f = msg)
        BY <1>1, <1>5 DEF Removed
    <2>2. One(msg \in EndingsOf(t)) = One(c = msg) + One(f = msg)
        BY <1>1
    <2>3. One(h = g /\ msg \in EndingsOf(t)) = One(h = g /\ c = msg) + One(h = g /\ f = msg)
        BY <2>2 DEF One
    <2>4. /\ One(h = g /\ c = msg) \in 0..1 /\ One(h = g /\ f = msg) \in 0..1
        BY DEF One
    <2> QED BY <1>2, <1>3, <2>1, <2>3, <2>4
<1> QED BY <1>2, <1>3, <1>4, <1>5

LEMMA FiniteLoops == IsFiniteSet(Loops)
<1>1. IsFiniteSet(Managers)
    BY P6Assumption
<1>2. IsFiniteSet({1, 2})
    <2>1. IsFiniteSet({1})
        BY FS_Singleton
    <2>2. IsFiniteSet({1} \cup {2})
        BY <2>1, FS_AddElement
    <2>3. {1} \cup {2} = {1, 2}
        OBVIOUS
    <2> QED BY <2>2, <2>3
<1> QED BY <1>1, <1>2, FS_Product DEF Loops

LEMMA FiniteManagers ==
    ASSUME NEW t \in Tasks
    PROVE  /\ IsFiniteSet(Pushing(t)) /\ Cardinality(Pushing(t)) \in Nat
           /\ IsFiniteSet(Publishing(t)) /\ Cardinality(Publishing(t)) \in Nat
           /\ IsFiniteSet(Pushing(t)') /\ Cardinality(Pushing(t)') \in Nat
           /\ IsFiniteSet(Publishing(t)') /\ Cardinality(Publishing(t)') \in Nat
           /\ IsFiniteSet(Buffered(t)) => Cardinality(Buffered(t)) \in Nat
<1>1. /\ Pushing(t) \subseteq Loops /\ Pushing(t)' \subseteq Loops
      /\ Publishing(t) \subseteq Managers /\ Publishing(t)' \subseteq Managers
    BY DEF Pushing, Publishing
<1>2. IsFiniteSet(Managers) /\ IsFiniteSet(Loops)
    BY P6Assumption, FiniteLoops
<1>3. /\ IsFiniteSet(Pushing(t)) /\ IsFiniteSet(Publishing(t))
      /\ IsFiniteSet(Pushing(t)') /\ IsFiniteSet(Publishing(t)')
    BY <1>1, <1>2, FS_Subset
<1> QED BY <1>3, FS_CardinalityType

LEMMA FanoutInvInit == Init => FanoutInv
<1> SUFFICES ASSUME Init PROVE FanoutInv
    OBVIOUS
<1>1. Opened
    BY P6Assumption DEF Init, Opened, FirstCall
<1>2. \A t \in Tasks : Pushing(t) = {} /\ Publishing(t) = {}
    BY EndingMembers DEF Init, Pushing, Publishing, NewLoop
<1>3. \A t \in Tasks : Buffered(t) = {}
    <2>1. Len(<<>>) = 0 /\ 1..0 = {}
        BY SMT
    <2> QED BY <2>1 DEF Init, Buffered, Slots
<1>4. IsFiniteSet({}) /\ Cardinality({}) = 0
    BY FS_EmptySet
<1>5. \A g \in Groups : \A t \in Tasks : Waiting(g, t) = 0
    <2>1. \A g \in Groups : \A x \in Msg : queue[g][x] = 0
        BY DEF Init, Empty
    <2> SUFFICES ASSUME NEW g \in Groups, NEW t \in Tasks PROVE Waiting(g, t) = 0
        OBVIOUS
    <2> DEFINE c == [task |-> t, body |-> "completed"]
               f == [task |-> t, body |-> "failed"]
    <2>2. c \in Msg /\ f \in Msg /\ Waiting(g, t) = queue[g][c] + queue[g][f]
        BY EndingsPair DEF Waiting
    <2> HIDE DEF c, f
    <2> QED BY <2>1, <2>2
<1>6. \A t \in Tasks : InManagers(t) = 0
    BY <1>2, <1>3, <1>4 DEF InManagers
<1>7. "manager-events" \in Groups /\ Apis \subseteq Groups
    BY DEF Groups
<1>8. ManagersFinite
    BY <1>3, <1>4 DEF ManagersFinite
<1>9. NothingMissed /\ NothingTwice
    BY <1>5, <1>6, <1>7 DEF Init, NothingMissed, NothingTwice
<1> QED BY <1>1, <1>8, <1>9 DEF FanoutInv, Balanced

(* The opening of a subscription: a crash restarts it from its first call, *)
(* and no call undoes what an earlier one did.                             *)
LEMMA OpenedNext == TypeInv /\ Opened /\ [Next]_vars => Opened'
<1> SUFFICES ASSUME TypeInv, Opened, [Next]_vars PROVE Opened'
    OBVIOUS
<1>0. /\ scheme \in {"nats", "kafka", "awssqs"}
      /\ known \in [Apis -> SUBSET {"group", "queue", "policy", "subscription"}]
      /\ api \in [Apis -> {"queue", "policy", "subscription", "open", "serving", "deaf"}]
    BY P6Assumption DEF TypeInv, TypeOK
<1>1. CASE UNCHANGED <<scheme, known, api>>
    BY <1>1 DEF Opened
<1>2. ASSUME NEW a \in Apis, OpenAWSQueue(a) PROVE Opened'
    <2>1. /\ api[a] \in {"queue", "policy", "subscription"} /\ scheme' = scheme
          /\ api'[a] = IF api[a] = "queue" THEN "policy"
                       ELSE IF api[a] = "policy" THEN "subscription" ELSE "open"
          /\ known'[a] = known[a] \cup {api[a]}
          /\ \A b \in Apis : b # a => api'[b] = api[b] /\ known'[b] = known[b]
        BY <1>0, <1>2 DEF OpenAWSQueue, Then
    <2> QED BY <1>0, <2>1 DEF Opened
<1>3. ASSUME NEW a \in Apis, NewAPI(a) PROVE Opened'
    <2>1. /\ api[a] = "open" /\ api'[a] = "serving" /\ scheme' = scheme
          /\ known'[a] = IF scheme = "awssqs" THEN known[a] ELSE {"group"}
          /\ \A b \in Apis : b # a => api'[b] = api[b] /\ known'[b] = known[b]
        BY <1>0, <1>3 DEF NewAPI
    <2> QED BY <1>0, <2>1 DEF Opened
<1>4. ASSUME NEW a \in Apis, ApiDeaf(a) PROVE Opened'
    BY <1>0, <1>4 DEF ApiDeaf, Opened, brokerVars
<1>5. ASSUME NEW a \in Apis, ApiCrash(a) PROVE Opened'
    <2>1. /\ api'[a] = FirstCall /\ scheme' = scheme
          /\ known'[a] = known[a] \/ (scheme = "nats" /\ known'[a] = {})
          /\ \A b \in Apis : b # a => api'[b] = api[b] /\ known'[b] = known[b]
        BY <1>0, <1>5 DEF ApiCrash
    <2> QED BY <1>0, <2>1 DEF Opened, FirstCall
<1>6. CASE \E a \in Apis : ApiReceive(a)
    BY <1>1, <1>6 DEF ApiReceive
<1>7. CASE \E t \in Tasks : Submit(t) \/ SubmitFails(t) \/ Redispatch(t)
    BY <1>1, <1>7 DEF Submit, SubmitFails, Redispatch
<1>8. CASE \E w \in Workers : \/ Receive(w) \/ Emit(w) \/ Stage(w) \/ WorkerExit(w)
                              \/ EmitFails(w) \/ WorkerStop(w) \/ WorkerCrash(w)
    BY <1>1, <1>8 DEF Receive, Emit, Stage, WorkerExit, EmitFails, WorkerStop, WorkerCrash, brokerVars
<1>9. CASE \E l \in Loops : ReceiveLoop(l) \/ Push(l) \/ ReceiveLoopEnds(l)
    BY <1>1, <1>9 DEF ReceiveLoop, Push, ReceiveLoopEnds, brokerVars
<1>10. CASE \E m \in Managers : EventPersist(m) \/ EventPublish(m) \/ NewManager(m)
    BY <1>1, <1>10 DEF EventPersist, EventPublish, NewManager, brokerVars
<1>11. CASE UNCHANGED vars
    BY <1>1, <1>11 DEF vars, brokerVars
<1> QED BY <1>2, <1>3, <1>4, <1>5, <1>6, <1>7, <1>8, <1>9, <1>10, <1>11 DEF Next, System

(* An API that serves hears what is published: under each scheme its       *)
(* subscription is complete when NewAPI returns.                           *)
LEMMA ServingHears ==
    ASSUME TypeInv, Opened, NEW a \in Apis, api[a] \in {"serving", "deaf"}
    PROVE  Hears(a)
<1>0. scheme \in {"nats", "kafka", "awssqs"}
    BY P6Assumption DEF TypeInv, TypeOK
<1>1. CASE scheme = "awssqs"
    <2>1. OpenAPIResources(a).needs = {"queue", "policy", "subscription"}
        BY <1>1 DEF OpenAPIResources
    <2>2. known[a] = {"queue", "policy", "subscription"}
        BY <1>1 DEF Opened
    <2> QED BY <2>1, <2>2 DEF Hears
<1>2. CASE scheme # "awssqs"
    <2>1. OpenAPIResources(a).needs = {"group"}
        BY <1>0, <1>2 DEF OpenAPIResources
    <2>2. known[a] = {"group"}
        BY <1>2 DEF Opened
    <2> QED BY <2>1, <2>2 DEF Hears
<1> QED BY <1>1, <1>2

(* The two other places in a manager, when one of their members changes.   *)
LEMMA PushingStep ==
    ASSUME NEW t \in Tasks, NEW l \in Loops, \A x \in Loops : x # l => rl'[x].ev = rl[x].ev
    PROVE  Cardinality(Pushing(t)') = Cardinality(Pushing(t)) + One(rl'[l].ev \in EndingsOf(t))
                                      - One(rl[l].ev \in EndingsOf(t))
<1>1. Pushing(t) \ {l} = Pushing(t)' \ {l}
    BY DEF Pushing
<1>2. /\ l \in Pushing(t) <=> rl[l].ev \in EndingsOf(t)
      /\ l \in Pushing(t)' <=> rl'[l].ev \in EndingsOf(t)
    BY DEF Pushing
<1>3. IsFiniteSet(Pushing(t))
    BY FiniteManagers
<1>4. Cardinality(Pushing(t)') = Cardinality(Pushing(t)) + One(l \in Pushing(t)') - One(l \in Pushing(t))
    BY <1>1, <1>3, CountOne
<1> QED BY <1>2, <1>4 DEF One

LEMMA PublishingStep ==
    ASSUME NEW t \in Tasks, NEW m \in Managers, \A x \in Managers : x # m => evLoop'[x] = evLoop[x]
    PROVE  Cardinality(Publishing(t)') = Cardinality(Publishing(t)) + One(evLoop'[m] \in EndingsOf(t))
                                         - One(evLoop[m] \in EndingsOf(t))
<1>1. Publishing(t) \ {m} = Publishing(t)' \ {m}
    BY DEF Publishing
<1>2. /\ m \in Publishing(t) <=> evLoop[m] \in EndingsOf(t)
      /\ m \in Publishing(t)' <=> evLoop'[m] \in EndingsOf(t)
    BY DEF Publishing
<1>3. IsFiniteSet(Publishing(t))
    BY FiniteManagers
<1>4. Cardinality(Publishing(t)') = Cardinality(Publishing(t)) + One(m \in Publishing(t)')
                                    - One(m \in Publishing(t))
    BY <1>1, <1>3, CountOne
<1> QED BY <1>2, <1>4 DEF One

LEMMA BufferedStep ==
    ASSUME NEW t \in Tasks, IsFiniteSet(Buffered(t)), NEW m \in Managers
    PROVE  /\ \A e : AppendedAt(internal, internal', Managers, m, e) =>
                 /\ IsFiniteSet(Buffered(t)')
                 /\ Cardinality(Buffered(t)') = Cardinality(Buffered(t)) + One(e \in EndingsOf(t))
           /\ ReceivedAt(internal, internal', Managers, m) =>
                 /\ IsFiniteSet(Buffered(t)')
                 /\ Cardinality(Buffered(t)') = Cardinality(Buffered(t)) - One(internal[m][1] \in EndingsOf(t))
           /\ ClearedAt(internal, internal', Managers, m) =>
                 /\ IsFiniteSet(Buffered(t)')
                 /\ Cardinality(Buffered(t)') <= Cardinality(Buffered(t))
<1> DEFINE S == EndingsOf(t)
<1>1. Buffered(t) = Slots(internal, Managers, S) /\ Buffered(t)' = Slots(internal', Managers, S)
    BY DEF Buffered
<1>2. IsFiniteSet(Slots(internal, Managers, S))
    BY <1>1
<1> HIDE DEF S
<1>3. ASSUME NEW e, AppendedAt(internal, internal', Managers, m, e)
      PROVE  /\ IsFiniteSet(Slots(internal', Managers, S))
             /\ Cardinality(Slots(internal', Managers, S)) =
                    Cardinality(Slots(internal, Managers, S)) + One(e \in S)
    BY <1>2, <1>3, SlotsAppend
<1>4. ASSUME ReceivedAt(internal, internal', Managers, m)
      PROVE  /\ IsFiniteSet(Slots(internal', Managers, S))
             /\ Cardinality(Slots(internal', Managers, S)) =
                    Cardinality(Slots(internal, Managers, S)) - One(internal[m][1] \in S)
    BY <1>2, <1>4, SlotsTail
<1>5. ASSUME ClearedAt(internal, internal', Managers, m)
      PROVE  /\ IsFiniteSet(Slots(internal', Managers, S))
             /\ Cardinality(Slots(internal', Managers, S)) <= Cardinality(Slots(internal, Managers, S))
    BY <1>2, <1>5, SlotsEmpty
<1> QED BY <1>1, <1>3, <1>4, <1>5 DEF S

(* The numbers the counts are made of.                                     *)
LEMMA CountTypes ==
    ASSUME TypeInv, ManagersFinite, NEW a \in Apis, NEW t \in Tasks
    PROVE  /\ told[a][t] \in Nat /\ owed[a][t] \in Nat /\ sent[t] \in Nat
           /\ Waiting(a, t) \in Nat /\ Waiting("manager-events", t) \in Nat
           /\ Cardinality(Pushing(t)) \in Nat /\ Cardinality(Buffered(t)) \in Nat
           /\ Cardinality(Publishing(t)) \in Nat
<1>1. QueueType /\ a \in Groups /\ "manager-events" \in Groups
    BY DEF TypeInv, TypeOK, QueueType, Groups
<1>2. Waiting(a, t) \in Nat /\ Waiting("manager-events", t) \in Nat
    BY <1>1, WaitingEffect
<1>3. told[a][t] \in Nat /\ owed[a][t] \in Nat /\ sent[t] \in Nat
    BY DEF TypeInv, TypeOK
<1> QED BY <1>2, <1>3, FiniteManagers DEF ManagersFinite

(* It is enough to follow one API and one task.                            *)
LEMMA BalancedStep ==
    ASSUME TypeInv, Balanced,
           \A t \in Tasks : IsFiniteSet(Buffered(t)'),
           \A a \in Apis, t \in Tasks :
               owed[a][t] <= told[a][t] + Waiting(a, t) =>
                   owed'[a][t] <= told'[a][t] + Waiting(a, t)',
           \A a \in Apis, t \in Tasks :
               told[a][t] + Waiting(a, t) + InManagers(t) + Waiting("manager-events", t) <= sent[t] =>
                   told'[a][t] + Waiting(a, t)' + InManagers(t)' + Waiting("manager-events", t)' <= sent'[t]
    PROVE  Balanced'
<1>1. ManagersFinite'
    BY DEF ManagersFinite
<1>2. NothingMissed'
    BY DEF Balanced, NothingMissed
<1>3. NothingTwice'
    BY DEF Balanced, NothingTwice
<1> QED BY <1>1, <1>2, <1>3 DEF Balanced

LEMMA BalancedSubmit ==
    ASSUME TypeInv, Balanced, NEW x \in Tasks, Submit(x) \/ SubmitFails(x) \/ Redispatch(x)
    PROVE  Balanced'
<1>0. /\ QueueType /\ scheme \in Schemes /\ TaskMsg(x) \in Msg /\ ~Ending(TaskMsg(x))
      /\ "manager-events" \in Groups /\ \A a \in Apis : a \in Groups
    BY TaskMsgs DEF TypeInv, TypeOK, QueueType, Groups
<1>1. Added({"workers"}, TaskMsg(x)) \/ queue' = queue
    BY <1>0, SendEffect DEF Submit, SubmitFails, Redispatch
<1>2. \A t \in Tasks : \A g \in Groups : Waiting(g, t)' = Waiting(g, t)
    <2> SUFFICES ASSUME NEW t \in Tasks, NEW g \in Groups PROVE Waiting(g, t)' = Waiting(g, t)
        OBVIOUS
    <2>1. TaskMsg(x) \notin EndingsOf(t) /\ Waiting(g, t) \in Nat
        BY <1>0, EndingMembers, WaitingEffect
    <2>2. One(g \in {"workers"} /\ TaskMsg(x) \in EndingsOf(t)) = 0
        BY <2>1 DEF One
    <2> QED BY <1>0, <1>1, <2>1, <2>2, WaitingEffect
<1>3. UNCHANGED <<rl, internal, evLoop, sent, owed, told>>
    BY DEF Submit, SubmitFails, Redispatch, managerVars, history
<1>4. \A t \in Tasks : InManagers(t)' = InManagers(t) /\ IsFiniteSet(Buffered(t)')
    BY <1>3 DEF InManagers, Pushing, Buffered, Publishing, Slots, Balanced, ManagersFinite
<1> QED BY <1>0, <1>2, <1>3, <1>4, BalancedStep

LEMMA BalancedWorker ==
    ASSUME TypeInv, Balanced, NEW w \in Workers,
           \/ Receive(w) \/ Emit(w) \/ Stage(w) \/ WorkerExit(w)
           \/ EmitFails(w) \/ WorkerStop(w) \/ WorkerCrash(w)
    PROVE  Balanced'
<1>0. /\ QueueType /\ scheme \in Schemes /\ w \in Runs /\ ExecTypeOK /\ sent \in [Tasks -> Nat]
      /\ "manager-events" \in Groups /\ "workers" \in Groups
      /\ \A a \in Apis : a \in Groups /\ a # "manager-events"
    BY P6Assumption DEF TypeInv, TypeOK, QueueType, Workers, Groups
<1>1. UNCHANGED <<rl, internal, evLoop, owed, told>>
    BY DEF Receive, Emit, Stage, WorkerExit, EmitFails, WorkerStop, WorkerCrash, history, managerVars
<1>2. \A t \in Tasks : InManagers(t)' = InManagers(t) /\ IsFiniteSet(Buffered(t)')
    BY <1>1 DEF InManagers, Pushing, Buffered, Publishing, Slots, Balanced, ManagersFinite
<1>3. SUFFICES \A t \in Tasks :
                   /\ \A a \in Apis : Waiting(a, t)' = Waiting(a, t)
                   /\ \E d \in 0..1 :
                         /\ Waiting("manager-events", t)' = Waiting("manager-events", t) + d
                         /\ sent'[t] = sent[t] + d
    <2>1. ASSUME NEW a \in Apis, NEW t \in Tasks,
                 told[a][t] + Waiting(a, t) + InManagers(t) + Waiting("manager-events", t) <= sent[t]
          PROVE  told'[a][t] + Waiting(a, t)' + InManagers(t)' + Waiting("manager-events", t)' <= sent'[t]
        <3>1. /\ told[a][t] \in Nat /\ sent[t] \in Nat
              /\ Waiting(a, t) \in Nat /\ Waiting("manager-events", t) \in Nat
              /\ InManagers(t) \in Nat
            BY CountTypes DEF InManagers, Balanced
        <3>2. InManagers(t)' = InManagers(t) /\ told'[a][t] = told[a][t] /\ Waiting(a, t)' = Waiting(a, t)
            BY <1>1, <1>2, <1>3
        <3>3. PICK d \in 0..1 : /\ Waiting("manager-events", t)' = Waiting("manager-events", t) + d
                                /\ sent'[t] = sent[t] + d
            BY <1>3
        <3> QED BY <2>1, <3>1, <3>2, <3>3
    <2> QED BY <1>1, <1>2, <1>3, <2>1, BalancedStep
<1> SUFFICES ASSUME NEW t \in Tasks
             PROVE  /\ \A a \in Apis : Waiting(a, t)' = Waiting(a, t)
                    /\ \E d \in 0..1 :
                          /\ Waiting("manager-events", t)' = Waiting("manager-events", t) + d
                          /\ sent'[t] = sent[t] + d
    OBVIOUS
<1>4. \A g \in Groups : Waiting(g, t) \in Nat
    BY <1>0, WaitingEffect
<1>5. CASE Receive(w)
    <2>1. PICK x \in Tasks : Ack("workers", TaskMsg(x)) /\ RunStart(w, x, store[x].stages)
        BY <1>5 DEF Receive
    <2>2. TaskMsg(x) \in Msg /\ TaskMsg(x) \notin EndingsOf(t)
        BY TaskMsgs, EndingMembers
    <2>3. Removed("workers", TaskMsg(x))
        BY <1>0, <2>1, <2>2, AckEffect
    <2>4. \A g \in Groups : Waiting(g, t)' = Waiting(g, t)
        <3>1. \A g : One(g = "workers" /\ TaskMsg(x) \in EndingsOf(t)) = 0
            BY <2>2 DEF One
        <3> QED BY <1>0, <1>4, <2>2, <2>3, <3>1, WaitingEffect
    <2>5. sent' = sent
        BY <1>5 DEF Receive, history
    <2> QED BY <1>0, <1>4, <2>4, <2>5
<1>6. CASE queue' = queue /\ sent' = sent
    BY <1>0, <1>4, <1>6, WaitingEffect
<1>7. CASE /\ EmitDone(w)
           /\ run[w].pc \notin {"start", "end"}
           /\ Send(OpenWorkerResources.events, EmitMsg(w))
           /\ sent' = IF Ending(EmitMsg(w)) THEN [sent EXCEPT ![run[w].task] = @ + 1] ELSE sent
    <2> DEFINE e == EmitMsg(w)
               d == One(e \in EndingsOf(t))
    <2>1. run[w].task \in Tasks
        BY <1>0, <1>7, BusyTask, EmitOutcome
    <2>2. e \in Msg /\ e.task = run[w].task
        BY <1>7, <2>1 DEF EmitDone, EmitPc, EmitMsg, Msg, Terminal
    <2>3. Added({"manager-events"}, e)
        BY <1>0, <1>7, <2>2, SendEffect
    <2>4. sent'[t] = sent[t] + d
        <3>1. sent'[t] = IF Ending(e) /\ run[w].task = t THEN sent[t] + 1 ELSE sent[t]
            BY <1>0, <1>7, <2>1
        <3> QED BY <1>0, <2>2, <3>1, EndingMembers DEF One
    <2>5. \A g \in Groups : Waiting(g, t)' = Waiting(g, t) + One(g \in {"manager-events"} /\ e \in EndingsOf(t))
        BY <1>0, <2>2, <2>3, WaitingEffect
    <2>6. Waiting("manager-events", t)' = Waiting("manager-events", t) + d
        BY <1>0, <2>5 DEF One
    <2>7. \A a \in Apis : Waiting(a, t)' = Waiting(a, t)
        BY <1>0, <1>4, <2>5 DEF One
    <2>8. d \in 0..1
        BY DEF One
    <2> QED BY <2>4, <2>6, <2>7, <2>8
<1> QED BY <1>5, <1>6, <1>7 DEF Emit, Stage, WorkerExit, EmitFails, WorkerStop, WorkerCrash,
                                 brokerVars, history

LEMMA BalancedReceive ==
    ASSUME TypeInv, StoredInv, Balanced, NEW l \in Loops,
           ReceiveLoop(l) \/ Push(l) \/ ReceiveLoopEnds(l)
    PROVE  Balanced'
<1>0. /\ QueueType /\ rl \in [Loops -> RlState] /\ l[1] \in Managers
      /\ internal \in [Managers -> Seq(Msg)]
      /\ "manager-events" \in Groups /\ \A a \in Apis : a \in Groups /\ a # "manager-events"
    BY LoopParts, P6Assumption DEF TypeInv, TypeOK, QueueType, RlState, Groups
<1>1. UNCHANGED <<evLoop, sent, owed, told>>
    BY DEF ReceiveLoop, Push, ReceiveLoopEnds, history
<1>2. SUFFICES ASSUME NEW t \in Tasks
               PROVE  /\ IsFiniteSet(Buffered(t)')
                      /\ \A a \in Apis : Waiting(a, t)' = Waiting(a, t)
                      /\ Cardinality(Pushing(t)') + Cardinality(Buffered(t)')
                            + Waiting("manager-events", t)' =
                         Cardinality(Pushing(t)) + Cardinality(Buffered(t))
                            + Waiting("manager-events", t)
                      /\ Cardinality(Buffered(t)') \in Nat /\ Waiting("manager-events", t)' \in Nat
    <2>1. ASSUME NEW a \in Apis, NEW t \in Tasks,
                 told[a][t] + Waiting(a, t) + InManagers(t) + Waiting("manager-events", t) <= sent[t]
          PROVE  told'[a][t] + Waiting(a, t)' + InManagers(t)' + Waiting("manager-events", t)' <= sent'[t]
        <3>1. /\ told[a][t] \in Nat /\ sent[t] \in Nat
              /\ Waiting(a, t) \in Nat /\ Waiting("manager-events", t) \in Nat
              /\ Cardinality(Pushing(t)) \in Nat /\ Cardinality(Buffered(t)) \in Nat
              /\ Cardinality(Publishing(t)) \in Nat /\ Cardinality(Pushing(t)') \in Nat
            BY CountTypes, FiniteManagers DEF Balanced
        <3>2. Cardinality(Publishing(t)') = Cardinality(Publishing(t))
            BY <1>1 DEF Publishing
        <3>3. /\ Waiting(a, t)' = Waiting(a, t)
              /\ Cardinality(Pushing(t)') + Cardinality(Buffered(t)') + Waiting("manager-events", t)' =
                 Cardinality(Pushing(t)) + Cardinality(Buffered(t)) + Waiting("manager-events", t)
              /\ Cardinality(Buffered(t)') \in Nat /\ Waiting("manager-events", t)' \in Nat
            BY <1>2
        <3>4. told'[a][t] = told[a][t] /\ sent'[t] = sent[t]
            BY <1>1
        <3>5. /\ InManagers(t) = Cardinality(Pushing(t)) + Cardinality(Buffered(t)) + Cardinality(Publishing(t))
              /\ InManagers(t)' = Cardinality(Pushing(t)') + Cardinality(Buffered(t)') + Cardinality(Publishing(t)')
            BY DEF InManagers
        <3> QED BY <2>1, <3>1, <3>2, <3>3, <3>4, <3>5
    <2> QED BY <1>1, <1>2, <2>1, BalancedStep
<1>3. /\ IsFiniteSet(Buffered(t)) /\ Cardinality(Buffered(t)) \in Nat
      /\ Cardinality(Pushing(t)) \in Nat /\ \A g \in Groups : Waiting(g, t) \in Nat
    BY <1>0, WaitingEffect, FiniteManagers DEF Balanced, ManagersFinite
<1>4. CASE ReceiveLoop(l)
    <2>1. PICK msg \in Msg :
              /\ Ack("manager-events", msg)
              /\ IF Ending(msg)
                 THEN /\ rl' = [rl EXCEPT ![l] = [pc |-> "push", ev |-> msg]]
                      /\ UNCHANGED internal
                 ELSE /\ internal' = IF Len(internal[l[1]]) < EventsCap
                                     THEN [internal EXCEPT ![l[1]] = Append(@, msg)] ELSE internal
                      /\ UNCHANGED rl
        BY <1>4 DEF ReceiveLoop
    <2> DEFINE d == One(msg \in EndingsOf(t))
    <2>2. Removed("manager-events", msg) /\ QueueType' /\ queue["manager-events"][msg] > 0
        BY <1>0, <2>1, AckEffect
    <2>3. \A g \in Groups : Waiting(g, t)' = Waiting(g, t) - One(g = "manager-events" /\ msg \in EndingsOf(t))
        BY <1>0, <2>2, WaitingEffect
    <2>4. /\ Waiting("manager-events", t)' = Waiting("manager-events", t) - d
          /\ \A a \in Apis : Waiting(a, t)' = Waiting(a, t)
        BY <1>0, <1>3, <2>3 DEF One
    <2>5. Waiting("manager-events", t)' \in Nat
        <3>1. CASE msg \in EndingsOf(t)
            <4> DEFINE c == [task |-> t, body |-> "completed"]
                       f == [task |-> t, body |-> "failed"]
            <4>1. c \in Msg /\ f \in Msg
                BY EndingsPair
            <4>2. Waiting("manager-events", t)' = queue'["manager-events"][c] + queue'["manager-events"][f]
                BY DEF Waiting
            <4> HIDE DEF c, f
            <4>3. queue'["manager-events"][c] \in Nat /\ queue'["manager-events"][f] \in Nat
                BY <1>0, <2>2, <4>1 DEF QueueType, Groups
            <4> QED BY <4>2, <4>3
        <3>2. CASE msg \notin EndingsOf(t)
            BY <1>0, <1>3, <2>4, <3>2 DEF One
        <3> QED BY <3>1, <3>2
    <2>6. /\ IsFiniteSet(Buffered(t)')
          /\ Cardinality(Buffered(t)') = Cardinality(Buffered(t))
        <3>1. CASE internal' = internal
            BY <1>3, <3>1 DEF Buffered, Slots
        <3>2. CASE ~Ending(msg) /\ internal' = [internal EXCEPT ![l[1]] = Append(@, msg)]
            <4>1. AppendedAt(internal, internal', Managers, l[1], msg)
                BY <1>0, <3>2, ChannelContents
            <4>2. One(msg \in EndingsOf(t)) = 0
                BY <3>2, EndingMembers DEF One
            <4> QED BY <1>0, <1>3, <4>1, <4>2, BufferedStep
        <3> QED BY <2>1, <3>1, <3>2
    <2>7. Cardinality(Pushing(t)') = Cardinality(Pushing(t)) + d
        <3>1. CASE Ending(msg)
            <4>1. rl'[l].ev = msg /\ \A x \in Loops : x # l => rl'[x].ev = rl[x].ev
                BY <1>0, <2>1, <3>1
            <4>2. rl[l].ev = NoMsg
                BY <1>0, <1>4 DEF ReceiveLoop, RlState
            <4>3. One(rl[l].ev \in EndingsOf(t)) = 0 /\ d \in 0..1
                BY <4>2, EndingMembers DEF One
            <4>4. Cardinality(Pushing(t)') = Cardinality(Pushing(t)) + One(rl'[l].ev \in EndingsOf(t))
                                             - One(rl[l].ev \in EndingsOf(t))
                BY <4>1, PushingStep
            <4> QED BY <1>3, <4>1, <4>3, <4>4
        <3>2. CASE ~Ending(msg)
            <4>1. Pushing(t)' = Pushing(t)
                BY <2>1, <3>2 DEF Pushing
            <4>2. d = 0
                BY <3>2, EndingMembers DEF One
            <4> QED BY <1>3, <4>1, <4>2
        <3> QED BY <3>1, <3>2
    <2>8. d \in 0..1
        BY DEF One
    <2> HIDE DEF d
    <2> QED BY <1>0, <1>3, <2>4, <2>5, <2>6, <2>7, <2>8
<1>5. CASE Push(l)
    <2> DEFINE d == One(rl[l].ev \in EndingsOf(t))
    <2>1. rl[l].ev \in Msg
        BY <1>0, <1>5 DEF Push, RlState
    <2>2. AppendedAt(internal, internal', Managers, l[1], rl[l].ev)
        BY <1>0, <1>5, <2>1, ChannelContents DEF Push
    <2>3. IsFiniteSet(Buffered(t)') /\ Cardinality(Buffered(t)') = Cardinality(Buffered(t)) + d
        BY <1>0, <1>3, <2>2, BufferedStep
    <2>4. rl'[l].ev = NoMsg /\ \A x \in Loops : x # l => rl'[x].ev = rl[x].ev
        BY <1>0, <1>5 DEF Push, NewLoop
    <2>5. One(rl'[l].ev \in EndingsOf(t)) = 0 /\ d \in 0..1
        BY <2>4, EndingMembers DEF One
    <2>6. Cardinality(Pushing(t)') = Cardinality(Pushing(t)) + One(rl'[l].ev \in EndingsOf(t)) - d
        BY <2>4, PushingStep
    <2>7. \A g \in Groups : Waiting(g, t)' = Waiting(g, t)
        BY <1>0, <1>5, WaitingEffect DEF Push, brokerVars
    <2> HIDE DEF d
    <2>8. /\ Waiting("manager-events", t)' = Waiting("manager-events", t)
          /\ Waiting("manager-events", t) \in Nat
          /\ \A a \in Apis : Waiting(a, t)' = Waiting(a, t)
        BY <1>0, <1>3, <2>7
    <2>9. /\ Cardinality(Pushing(t)') + Cardinality(Buffered(t)') =
             Cardinality(Pushing(t)) + Cardinality(Buffered(t))
          /\ Cardinality(Buffered(t)') \in Nat
        BY <1>3, <2>3, <2>5, <2>6
    <2> QED BY <2>3, <2>8, <2>9
<1>6. CASE ReceiveLoopEnds(l)
    <2>1. \A x \in Loops : rl'[x].ev = rl[x].ev
        <3>1. [rl[l] EXCEPT !.pc = "gone"].ev = rl[l].ev
            BY <1>0, <1>6 DEF ReceiveLoopEnds, RlState
        <3> QED BY <1>0, <1>6, <3>1 DEF ReceiveLoopEnds
    <2>2. Pushing(t)' = Pushing(t)
        BY <2>1 DEF Pushing
    <2>3. internal' = internal /\ queue' = queue
        BY <1>6 DEF ReceiveLoopEnds, brokerVars
    <2>4. Buffered(t)' = Buffered(t)
        BY <2>3 DEF Buffered, Slots
    <2>5. \A g \in Groups : Waiting(g, t)' = Waiting(g, t)
        BY <1>0, <2>3, WaitingEffect
    <2> QED BY <1>0, <1>3, <2>2, <2>4, <2>5
<1> QED BY <1>4, <1>5, <1>6

LEMMA BalancedManager ==
    ASSUME TypeInv, StoredInv, Opened, Balanced, NEW m \in Managers,
           EventPersist(m) \/ EventPublish(m) \/ NewManager(m)
    PROVE  Balanced'
<1>0. /\ QueueType /\ rl \in [Loops -> RlState] /\ scheme \in Schemes
      /\ internal \in [Managers -> Seq(Msg)]
      /\ evLoop \in [Managers -> {msg \in Msg : Ending(msg)} \cup {NoMsg}]
      /\ "manager-events" \in Groups /\ "manager-events" \notin HearingApis
      /\ \A a \in Apis : a \in Groups
      /\ owed \in [Apis -> [Tasks -> Nat]]
    BY P6Assumption DEF TypeInv, TypeOK, QueueType, RlState, Groups, HearingApis
<1>1. UNCHANGED <<sent, told>>
    BY DEF EventPersist, EventPublish, NewManager, history
<1>2. \A t \in Tasks : /\ IsFiniteSet(Buffered(t)) /\ Cardinality(Buffered(t)) \in Nat
                       /\ Cardinality(Pushing(t)) \in Nat /\ Cardinality(Publishing(t)) \in Nat
                       /\ Cardinality(Pushing(t)') \in Nat /\ Cardinality(Publishing(t)') \in Nat
                       /\ \A g \in Groups : Waiting(g, t) \in Nat
    BY <1>0, WaitingEffect, FiniteManagers DEF Balanced, ManagersFinite
<1>3. \A t \in Tasks :
          /\ InManagers(t) = Cardinality(Pushing(t)) + Cardinality(Buffered(t)) + Cardinality(Publishing(t))
          /\ InManagers(t)' = Cardinality(Pushing(t)') + Cardinality(Buffered(t)') + Cardinality(Publishing(t)')
    BY DEF InManagers
<1>4. CASE EventPersist(m)
    <2> DEFINE e == internal[m][1]
    <2>1. /\ internal[m] # <<>> /\ internal' = [internal EXCEPT ![m] = Tail(@)]
          /\ e \in Msg
          /\ IF Ending(e) THEN evLoop' = [evLoop EXCEPT ![m] = e] ELSE evLoop' = evLoop
        BY <1>4, PersistRows
    <2>2. ReceivedAt(internal, internal', Managers, m)
        BY <1>0, <2>1, ChannelContents
    <2>3. UNCHANGED <<queue, rl, owed>> /\ evLoop[m] = NoMsg
        BY <1>4 DEF EventPersist, brokerVars, history
    <2>4. ASSUME NEW t \in Tasks PROVE IsFiniteSet(Buffered(t)') /\ InManagers(t)' = InManagers(t)
        <3> DEFINE d == One(e \in EndingsOf(t))
        <3>1. IsFiniteSet(Buffered(t)') /\ Cardinality(Buffered(t)') = Cardinality(Buffered(t)) - d
            BY <1>2, <2>2, BufferedStep
        <3>2. Pushing(t)' = Pushing(t)
            BY <2>3 DEF Pushing
        <3>3. Cardinality(Publishing(t)') = Cardinality(Publishing(t)) + d
            <4>1. CASE Ending(e)
                <5>1. evLoop'[m] = e /\ \A x \in Managers : x # m => evLoop'[x] = evLoop[x]
                    BY <1>0, <2>1, <4>1
                <5>2. One(evLoop[m] \in EndingsOf(t)) = 0 /\ d \in 0..1
                    BY <2>3, EndingMembers DEF One
                <5>3. Cardinality(Publishing(t)') = Cardinality(Publishing(t))
                          + One(evLoop'[m] \in EndingsOf(t)) - One(evLoop[m] \in EndingsOf(t))
                    BY <5>1, PublishingStep
                <5> HIDE DEF e
                <5> QED BY <1>2, <5>1, <5>2, <5>3
            <4>2. CASE ~Ending(e)
                <5>1. Publishing(t)' = Publishing(t)
                    BY <2>1, <4>2 DEF Publishing
                <5>2. d = 0
                    BY <2>1, <4>2, EndingMembers DEF One
                <5> QED BY <1>2, <5>1, <5>2
            <4> QED BY <4>1, <4>2
        <3>4. d \in 0..1
            BY DEF One
        <3> HIDE DEF d, e
        <3> QED BY <1>2, <1>3, <3>1, <3>2, <3>3, <3>4
    <2>5. \A t \in Tasks : \A g \in Groups : Waiting(g, t)' = Waiting(g, t)
        BY <2>3 DEF Waiting
    <2> QED BY <1>0, <1>1, <2>3, <2>4, <2>5, BalancedStep
<1>5. CASE EventPublish(m)
    <2> DEFINE e == evLoop[m]
               d(t) == One(e \in EndingsOf(t))
               up(a) == One(a \in HearingApis)
    <2>1. e \in Msg /\ Ending(e) /\ e.task \in Tasks
        BY <1>0, <1>5 DEF EventPublish, Msg
    <2>2. UNCHANGED <<rl, internal>> /\ evLoop' = [evLoop EXCEPT ![m] = NoMsg]
        BY <1>5 DEF EventPublish
    <2>3. ASSUME NEW t \in Tasks
          PROVE  /\ IsFiniteSet(Buffered(t)') /\ d(t) \in 0..1
                 /\ InManagers(t)' = InManagers(t) - d(t) /\ InManagers(t) \in Nat
        <3>1. evLoop'[m] = NoMsg /\ \A x \in Managers : x # m => evLoop'[x] = evLoop[x]
            BY <1>0, <2>2
        <3>2. One(evLoop'[m] \in EndingsOf(t)) = 0 /\ d(t) \in 0..1
            BY <3>1, EndingMembers DEF One
        <3>3. Cardinality(Publishing(t)') = Cardinality(Publishing(t))
                  + One(evLoop'[m] \in EndingsOf(t)) - d(t)
            BY <3>1, PublishingStep
        <3>4. Pushing(t)' = Pushing(t) /\ Buffered(t)' = Buffered(t)
            BY <2>2 DEF Pushing, Buffered, Slots
        <3> HIDE DEF d
        <3> QED BY <1>2, <1>3, <3>2, <3>3, <3>4
    <2>4. CASE queue' = queue /\ owed' = owed
        <3>1. \A t \in Tasks : \A g \in Groups : Waiting(g, t)' = Waiting(g, t)
            BY <2>4 DEF Waiting
        <3>2. ASSUME NEW a \in Apis, NEW t \in Tasks,
                     told[a][t] + Waiting(a, t) + InManagers(t) + Waiting("manager-events", t) <= sent[t]
              PROVE  told'[a][t] + Waiting(a, t)' + InManagers(t)' + Waiting("manager-events", t)' <= sent'[t]
            <4>1. told[a][t] \in Nat /\ sent[t] \in Nat /\ told'[a][t] = told[a][t] /\ sent'[t] = sent[t]
                BY <1>1, CountTypes DEF Balanced
            <4>2. Waiting(a, t)' = Waiting(a, t) /\ Waiting("manager-events", t)' = Waiting("manager-events", t)
                BY <1>0, <3>1
            <4>3. Waiting(a, t) \in Nat /\ Waiting("manager-events", t) \in Nat
                BY <1>0, <1>2
            <4> HIDE DEF d
            <4> QED BY <2>3, <3>2, <4>1, <4>2, <4>3
        <3> QED BY <1>0, <1>1, <2>3, <2>4, <3>1, <3>2, BalancedStep
    <2>5. CASE /\ Send(OpenManagerResources.api, evLoop[m])
               /\ owed' = [a \in Apis |-> IF api[a] \in {"serving", "deaf"}
                                          THEN [owed[a] EXCEPT ![evLoop[m].task] = @ + 1] ELSE owed[a]]
        <3>1. Added(HearingApis, e)
            BY <1>0, <2>1, <2>5, SendEffect
        <3>2. \A t \in Tasks : \A g \in Groups :
                  Waiting(g, t)' = Waiting(g, t) + One(g \in HearingApis /\ e \in EndingsOf(t))
            BY <1>0, <2>1, <3>1, WaitingEffect
        <3>3. ASSUME NEW a \in Apis, NEW t \in Tasks
              PROVE  owed'[a][t] = owed[a][t] + One(api[a] \in {"serving", "deaf"} /\ e \in EndingsOf(t))
            <4>1. owed[a] \in [Tasks -> Nat]
                BY <1>0
            <4>2. owed'[a] = IF api[a] \in {"serving", "deaf"}
                             THEN [owed[a] EXCEPT ![e.task] = @ + 1] ELSE owed[a]
                BY <2>5
            <4>3. e \in EndingsOf(t) <=> e.task = t
                BY <2>1, EndingMembers
            <4> HIDE DEF e
            <4> QED BY <2>1, <4>1, <4>2, <4>3 DEF One
        <3>4. ASSUME NEW a \in Apis, NEW t \in Tasks
              PROVE  One(api[a] \in {"serving", "deaf"} /\ e \in EndingsOf(t)) <=
                     One(a \in HearingApis /\ e \in EndingsOf(t))
            <4>1. api[a] \in {"serving", "deaf"} => a \in HearingApis
                BY ServingHears DEF HearingApis
            <4> QED BY <4>1 DEF One
        <3>5. ASSUME NEW a \in Apis, NEW t \in Tasks, owed[a][t] <= told[a][t] + Waiting(a, t)
              PROVE  owed'[a][t] <= told'[a][t] + Waiting(a, t)'
            <4>1. told[a][t] \in Nat /\ owed[a][t] \in Nat /\ told'[a][t] = told[a][t] /\ Waiting(a, t) \in Nat
                BY <1>1, CountTypes DEF Balanced
            <4>2. Waiting(a, t)' = Waiting(a, t) + One(a \in HearingApis /\ e \in EndingsOf(t))
                BY <1>0, <3>2
            <4>3. \A b : One(b) \in 0..1
                BY DEF One
            <4> QED BY <3>3, <3>4, <3>5, <4>1, <4>2, <4>3
        <3>6. ASSUME NEW a \in Apis, NEW t \in Tasks,
                     told[a][t] + Waiting(a, t) + InManagers(t) + Waiting("manager-events", t) <= sent[t]
              PROVE  told'[a][t] + Waiting(a, t)' + InManagers(t)' + Waiting("manager-events", t)' <= sent'[t]
            <4>1. told[a][t] \in Nat /\ sent[t] \in Nat /\ told'[a][t] = told[a][t] /\ sent'[t] = sent[t]
                BY <1>1, CountTypes DEF Balanced
            <4>2. /\ Waiting(a, t)' = Waiting(a, t) + One(a \in HearingApis /\ e \in EndingsOf(t))
                  /\ One(a \in HearingApis /\ e \in EndingsOf(t)) <= d(t)
                  /\ One(a \in HearingApis /\ e \in EndingsOf(t)) \in 0..1
                BY <1>0, <3>2 DEF One
            <4>3. /\ Waiting("manager-events", t)' = Waiting("manager-events", t)
                BY <1>0, <1>2, <3>2 DEF One
            <4>4. Waiting(a, t) \in Nat /\ Waiting("manager-events", t) \in Nat
                BY <1>0, <1>2
            <4>5. d(t) \in 0..1 /\ InManagers(t)' = InManagers(t) - d(t) /\ InManagers(t) \in Nat
                BY <2>3
            <4> HIDE DEF d
            <4> QED BY <3>6, <4>1, <4>2, <4>3, <4>4, <4>5
        <3> QED BY <2>3, <3>5, <3>6, BalancedStep
    <2> QED BY <1>5, <2>4, <2>5 DEF EventPublish
<1>6. CASE NewManager(m)
    <2>1. ClearedAt(internal, internal', Managers, m)
        BY <1>0, <1>6, ChannelContents DEF NewManager
    <2>2. UNCHANGED <<queue, owed>>
        BY <1>6 DEF NewManager, brokerVars, history
    <2>3. \A t \in Tasks : \A g \in Groups : Waiting(g, t)' = Waiting(g, t)
        BY <2>2 DEF Waiting
    <2>4. ASSUME NEW t \in Tasks
          PROVE  /\ IsFiniteSet(Buffered(t)')
                 /\ InManagers(t)' <= InManagers(t) /\ InManagers(t) \in Nat /\ InManagers(t)' \in Nat
        <3>1. /\ IsFiniteSet(Buffered(t)') /\ Cardinality(Buffered(t)') <= Cardinality(Buffered(t))
              /\ Cardinality(Buffered(t)') \in Nat
            BY <1>2, <2>1, BufferedStep, FS_CardinalityType
        <3>2. Pushing(t)' \subseteq Pushing(t) /\ Publishing(t)' \subseteq Publishing(t)
            BY <1>0, <1>6, EndingMembers DEF NewManager, NewLoop, Pushing, Publishing
        <3>3. /\ Cardinality(Pushing(t)') <= Cardinality(Pushing(t))
              /\ Cardinality(Publishing(t)') <= Cardinality(Publishing(t))
            BY <3>2, FiniteManagers, FS_Subset
        <3> QED BY <1>2, <1>3, <3>1, <3>3
    <2>5. ASSUME NEW a \in Apis, NEW t \in Tasks,
                 told[a][t] + Waiting(a, t) + InManagers(t) + Waiting("manager-events", t) <= sent[t]
          PROVE  told'[a][t] + Waiting(a, t)' + InManagers(t)' + Waiting("manager-events", t)' <= sent'[t]
        <3>1. told[a][t] \in Nat /\ sent[t] \in Nat /\ told'[a][t] = told[a][t] /\ sent'[t] = sent[t]
            BY <1>1, CountTypes DEF Balanced
        <3>2. Waiting(a, t)' = Waiting(a, t) /\ Waiting("manager-events", t)' = Waiting("manager-events", t)
            BY <1>0, <2>3
        <3>3. Waiting(a, t) \in Nat /\ Waiting("manager-events", t) \in Nat
            BY <1>0, <1>2
        <3> QED BY <2>4, <2>5, <3>1, <3>2, <3>3
    <2> QED BY <1>0, <1>1, <2>2, <2>3, <2>4, <2>5, BalancedStep
<1> QED BY <1>4, <1>5, <1>6

LEMMA BalancedApi ==
    ASSUME TypeInv, StoredInv, Balanced, NEW a \in Apis,
           OpenAWSQueue(a) \/ NewAPI(a) \/ ApiReceive(a) \/ ApiDeaf(a) \/ ApiCrash(a)
    PROVE  Balanced'
<1>0. /\ QueueType /\ a \in Groups /\ a # "manager-events" /\ \A b \in Apis : b \in Groups
      /\ told \in [Apis -> [Tasks -> Nat]] /\ owed \in [Apis -> [Tasks -> Nat]]
      /\ "manager-events" \in Groups
    BY P6Assumption DEF TypeInv, TypeOK, QueueType, Groups
<1>1. UNCHANGED <<rl, internal, evLoop, sent>>
    BY DEF OpenAWSQueue, NewAPI, ApiReceive, ApiDeaf, ApiCrash, managerVars, history
<1>2. \A t \in Tasks : InManagers(t)' = InManagers(t) /\ IsFiniteSet(Buffered(t)')
    BY <1>1 DEF InManagers, Pushing, Buffered, Publishing, Slots, Balanced, ManagersFinite
<1>3. \A t \in Tasks : \A g \in Groups : Waiting(g, t) \in Nat
    BY <1>0, WaitingEffect
<1>4. CASE OpenAWSQueue(a) \/ NewAPI(a) \/ ApiDeaf(a)
    <2>1. UNCHANGED <<queue, owed, told>>
        BY <1>4 DEF OpenAWSQueue, NewAPI, ApiDeaf, brokerVars, history
    <2>2. \A t \in Tasks : \A g \in Groups : Waiting(g, t)' = Waiting(g, t)
        BY <2>1 DEF Waiting
    <2> QED BY <1>0, <1>1, <1>2, <2>1, <2>2, BalancedStep
<1>5. CASE ApiReceive(a)
    <2>1. OpenAPIResources(a).group = a
        BY P6Assumption DEF OpenAPIResources, TypeInv, TypeOK
    <2>2. PICK msg \in Msg : Ack(a, msg) /\ told' = [told EXCEPT ![a][msg.task] = @ + 1]
        BY <1>5, <2>1 DEF ApiReceive
    <2>3. Removed(a, msg) /\ queue[a][msg] > 0
        BY <1>0, <2>2, AckEffect
    <2>4. Ending(msg) /\ msg.task \in Tasks
        BY <2>3 DEF StoredInv, PublishedEnded, Msg
    <2>5. \A t \in Tasks : \A g \in Groups :
              Waiting(g, t)' = Waiting(g, t) - One(g = a /\ msg \in EndingsOf(t))
        BY <1>0, <2>3, WaitingEffect
    <2>6. ASSUME NEW b \in Apis, NEW t \in Tasks
          PROVE  told'[b][t] = told[b][t] + One(b = a /\ msg \in EndingsOf(t))
        <3>1. told'[b][t] = IF b = a /\ msg.task = t THEN told[b][t] + 1 ELSE told[b][t]
            BY <1>0, <2>2, <2>4
        <3>2. msg \in EndingsOf(t) <=> msg.task = t
            BY <2>4, EndingMembers
        <3>3. told[b][t] \in Nat
            BY <1>0
        <3> QED BY <3>1, <3>2, <3>3 DEF One
    <2>7. ASSUME NEW b \in Apis, NEW t \in Tasks
          PROVE  told'[b][t] + Waiting(b, t)' = told[b][t] + Waiting(b, t)
        <3>1. /\ told[b][t] \in Nat /\ Waiting(b, t) \in Nat
              /\ One(b = a /\ msg \in EndingsOf(t)) \in 0..1
            BY <1>0, <1>3 DEF One
        <3>2. Waiting(b, t)' = Waiting(b, t) - One(b = a /\ msg \in EndingsOf(t))
            BY <1>0, <2>5
        <3> QED BY <2>6, <3>1, <3>2
    <2>8. \A t \in Tasks : Waiting("manager-events", t)' = Waiting("manager-events", t)
        BY <1>0, <1>3, <2>5 DEF One
    <2>9. owed' = owed
        BY <1>5 DEF ApiReceive
    <2> QED BY <1>1, <1>2, <2>7, <2>8, <2>9, BalancedStep
<1>6. CASE ApiCrash(a)
    <2>1. told' = told
        BY <1>6 DEF ApiCrash
    <2>2. \/ queue' = queue /\ owed' = owed
          \/ queue' = [queue EXCEPT ![a] = Empty] /\ owed' = [owed EXCEPT ![a] = told[a]]
        BY <1>6 DEF ApiCrash
    <2>3. CASE queue' = queue /\ owed' = owed
        <3>1. \A t \in Tasks : \A g \in Groups : Waiting(g, t)' = Waiting(g, t)
            BY <2>3 DEF Waiting
        <3> QED BY <1>0, <1>1, <1>2, <2>1, <2>3, <3>1, BalancedStep
    <2>4. CASE queue' = [queue EXCEPT ![a] = Empty] /\ owed' = [owed EXCEPT ![a] = told[a]]
        <3>1. queue'[a] = Empty /\ \A g \in Groups : g # a => queue'[g] = queue[g]
            BY <1>0, <2>4 DEF QueueType
        <3>2. ASSUME NEW t \in Tasks PROVE Waiting(a, t)' = 0
            <4> DEFINE c == [task |-> t, body |-> "completed"]
                       f == [task |-> t, body |-> "failed"]
            <4>1. c \in Msg /\ f \in Msg
                BY EndingsPair
            <4>2. Waiting(a, t)' = queue'[a][c] + queue'[a][f]
                BY DEF Waiting
            <4> HIDE DEF c, f
            <4>3. queue'[a][c] = 0 /\ queue'[a][f] = 0
                BY <3>1, <4>1 DEF Empty
            <4> QED BY <4>2, <4>3
        <3>3. \A t \in Tasks : \A g \in Groups : g # a => Waiting(g, t)' = Waiting(g, t)
            BY <3>1 DEF Waiting
        <3>4. ASSUME NEW b \in Apis, NEW t \in Tasks, owed[b][t] <= told[b][t] + Waiting(b, t)
              PROVE  owed'[b][t] <= told'[b][t] + Waiting(b, t)'
            <4>1. told[b][t] \in Nat
                BY <1>0
            <4>2. CASE b = a
                BY <1>0, <2>1, <2>4, <3>2, <4>1, <4>2
            <4>3. CASE b # a
                <5>1. owed'[b] = owed[b] /\ Waiting(b, t)' = Waiting(b, t)
                    BY <1>0, <2>4, <3>3, <4>3
                <5> QED BY <2>1, <3>4, <5>1
            <4> QED BY <4>2, <4>3
        <3>5. ASSUME NEW b \in Apis, NEW t \in Tasks,
                     told[b][t] + Waiting(b, t) + InManagers(t) + Waiting("manager-events", t) <= sent[t]
              PROVE  told'[b][t] + Waiting(b, t)' + InManagers(t)' + Waiting("manager-events", t)' <= sent'[t]
            <4>1. /\ told[b][t] \in Nat /\ sent[t] \in Nat /\ Waiting(b, t) \in Nat
                  /\ Waiting("manager-events", t) \in Nat /\ InManagers(t) \in Nat
                BY CountTypes DEF Balanced, InManagers
            <4>2. Waiting("manager-events", t)' = Waiting("manager-events", t)
                BY <1>0, <3>3
            <4>3. Waiting(b, t)' = 0 \/ Waiting(b, t)' = Waiting(b, t)
                BY <1>0, <3>2, <3>3
            <4>4. told'[b][t] = told[b][t] /\ sent'[t] = sent[t] /\ InManagers(t)' = InManagers(t)
                BY <1>1, <1>2, <2>1
            <4> QED BY <3>5, <4>1, <4>2, <4>3, <4>4
        <3> QED BY <1>2, <3>4, <3>5, BalancedStep
    <2> QED BY <2>2, <2>3, <2>4
<1> QED BY <1>4, <1>5, <1>6

LEMMA BalancedNext ==
    TypeInv /\ StoredInv /\ Opened /\ Balanced /\ [Next]_vars => Balanced'
<1> SUFFICES ASSUME TypeInv, StoredInv, Opened, Balanced, [Next]_vars PROVE Balanced'
    OBVIOUS
<1>1. CASE UNCHANGED vars
    <2>1. UNCHANGED <<queue, rl, internal, evLoop, told, owed, sent>>
        BY <1>1 DEF vars, brokerVars, managerVars, history
    <2>2. ASSUME NEW t \in Tasks
          PROVE  /\ Pushing(t)' = Pushing(t) /\ Publishing(t)' = Publishing(t)
                 /\ Buffered(t)' = Buffered(t)
                 /\ \A g : Waiting(g, t)' = Waiting(g, t)
        <3>1. Pushing(t)' = Pushing(t) /\ Publishing(t)' = Publishing(t)
            BY <2>1 DEF Pushing, Publishing
        <3>2. Buffered(t)' = Buffered(t)
            BY <2>1 DEF Buffered
        <3>3. \A g : Waiting(g, t)' = Waiting(g, t)
            BY <2>1 DEF Waiting
        <3> QED BY <3>1, <3>2, <3>3
    <2>3. \A t \in Tasks : InManagers(t)' = InManagers(t)
        BY <2>2 DEF InManagers
    <2>4. \A t \in Tasks : IsFiniteSet(Buffered(t)')
        BY <2>2 DEF Balanced, ManagersFinite
    <2>5. /\ \A a \in Apis, t \in Tasks :
                owed[a][t] <= told[a][t] + Waiting(a, t) =>
                    owed'[a][t] <= told'[a][t] + Waiting(a, t)'
          /\ \A a \in Apis, t \in Tasks :
                told[a][t] + Waiting(a, t) + InManagers(t) + Waiting("manager-events", t) <= sent[t] =>
                    told'[a][t] + Waiting(a, t)' + InManagers(t)' + Waiting("manager-events", t)' <= sent'[t]
        BY <2>1, <2>2, <2>3
    <2> QED BY <2>4, <2>5, BalancedStep
<1>2. CASE \E t \in Tasks : Submit(t) \/ SubmitFails(t) \/ Redispatch(t)
    BY <1>2, BalancedSubmit
<1>3. CASE \E w \in Workers : \/ Receive(w) \/ Emit(w) \/ Stage(w) \/ WorkerExit(w)
                              \/ EmitFails(w) \/ WorkerStop(w) \/ WorkerCrash(w)
    BY <1>3, BalancedWorker
<1>4. CASE \E l \in Loops : ReceiveLoop(l) \/ Push(l) \/ ReceiveLoopEnds(l)
    BY <1>4, BalancedReceive
<1>5. CASE \E m \in Managers : EventPersist(m) \/ EventPublish(m) \/ NewManager(m)
    BY <1>5, BalancedManager
<1>6. CASE \E a \in Apis : OpenAWSQueue(a) \/ NewAPI(a) \/ ApiReceive(a) \/ ApiDeaf(a) \/ ApiCrash(a)
    BY <1>6, BalancedApi
<1> QED BY <1>1, <1>2, <1>3, <1>4, <1>5, <1>6 DEF Next, System

(* Under every scheme each API that serves when an ending is published     *)
(* gets it, and no API gets more endings of a task than workers sent: an   *)
(* API serves only once every call that its subscription needs has been    *)
(* made (Opened), and an ending is at any time at one place on its way     *)
(* from the workers' topic through a manager to the APIs (NothingTwice).   *)
THEOREM FanoutCorrect == Spec => []Fanout
<1> DEFINE Inv == TypeInv /\ StoredInv /\ Opened /\ Balanced
<1>1. Init => Inv
    BY TypeInvInit, StoredInvInit, FanoutInvInit DEF FanoutInv
<1>2. Inv /\ [Next]_vars => Inv'
    BY TypeInvNext, StoredInvNext, OpenedNext, BalancedNext
<1>3. Inv => Fanout
    <2> SUFFICES ASSUME Inv, NEW a \in Apis, NEW t \in Tasks
                 PROVE  LET got == told[a][t] + queue[a][[task |-> t, body |-> "completed"]]
                                              + queue[a][[task |-> t, body |-> "failed"]]
                        IN  owed[a][t] <= got /\ got <= sent[t]
        BY DEF Fanout
    <2> DEFINE c == [task |-> t, body |-> "completed"]
               f == [task |-> t, body |-> "failed"]
    <2>1. c \in Msg /\ f \in Msg /\ Waiting(a, t) = queue[a][c] + queue[a][f]
        BY EndingsPair DEF Waiting
    <2> HIDE DEF c, f
    <2>2. queue[a][c] \in Nat /\ queue[a][f] \in Nat
        BY <2>1 DEF TypeInv, TypeOK, Groups
    <2>3. /\ told[a][t] \in Nat /\ sent[t] \in Nat
          /\ Waiting("manager-events", t) \in Nat /\ InManagers(t) \in Nat
        BY CountTypes DEF Balanced, InManagers
    <2>4. /\ owed[a][t] <= told[a][t] + Waiting(a, t)
          /\ told[a][t] + Waiting(a, t) + InManagers(t) + Waiting("manager-events", t) <= sent[t]
        BY DEF Balanced, NothingMissed, NothingTwice
    <2>5. /\ owed[a][t] <= told[a][t] + queue[a][c] + queue[a][f]
          /\ told[a][t] + queue[a][c] + queue[a][f] <= sent[t]
        BY <2>1, <2>2, <2>3, <2>4
    <2> QED BY <2>5 DEF c, f
<1> QED BY <1>1, <1>2, <1>3, PTL DEF Spec
=============================================================================
