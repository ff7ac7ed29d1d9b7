------------------------------ MODULE P6PubSub ------------------------------
(***************************************************************************)
(* Pattern 6 (patterns/p06): managers, workers and API servers that meet   *)
(* only at topics of a broker (NATS, Kafka or SNS/SQS) and in Postgres.    *)
(* The module takes the topics and subscriptions from the URLs each        *)
(* process opens, so a wrong URL is a wrong model, and composes the broker *)
(* with PubSubDispatcher, PubSubConsumer, PubSubEventBridge, the steps of  *)
(* Executor.Run and the receive loop of the API.                           *)
(* gocloud promises no order: a subscription is a bag of messages.         *)
(* A progress event takes the way of the "running" one and is left out.    *)
(***************************************************************************)
EXTENDS ManagerCore, ExecutorCore

CONSTANTS
    Managers,       \* the manager processes
    Apis,           \* the API processes, by host name
    Schemes,        \* the broker schemes that may be configured
    StageCounts,    \* the stage counts a request may carry
    EventsCap,      \* capacity of internalEvents (256 in the code)
    MaxFaults       \* bound on errors, crashes, stops and late steps

(* RunWorker calls exec.Run itself: a worker process is one run.           *)
Workers == Runs

(* NewManager starts the dispatcher and so does Manager.Start: a manager   *)
(* has two receiveLoops over one subscription and one channel.             *)
Loops == Managers \X {1, 2}

ASSUME P6Assumption ==
    /\ IsFiniteSet(Managers)
    /\ Schemes \subseteq {"nats", "kafka", "awssqs"}
    /\ StageCounts \subseteq Int
    /\ EventsCap \in Nat \ {0}
    /\ MaxFaults \in Nat
    /\ {"workers", "manager-events"} \cap Apis = {}

VARIABLES
    scheme,         \* the scheme of BROKER_URL
    queue,          \* the unacknowledged messages of each subscription
    known,          \* [Apis]: what the broker keeps of the API's subscription
    rl,             \* [Loops]: receiveLoop and the event it holds
    internal,       \* [Managers]: PubSubDispatcher.internalEvents
    evLoop,         \* [Managers]: runEventLoop and the event it will publish
    api,            \* [Apis]: NewAPI, then its receive loop
    stopping,       \* [Workers]: SIGTERM has cancelled ctx
    faults,         \* the faults so far
    sent,           \* [Tasks]: the endings the worker events topic accepted
    owed,           \* [Apis][Tasks]: the endings published while the API served
    told            \* [Apis][Tasks]: the endings the API gave to its hub

brokerVars == <<scheme, queue, known>>
managerVars == <<rl, internal, evLoop>>
history == <<sent, owed, told>>
vars == <<store, req, loop, run, brokerVars, managerVars, api, stopping, faults, history>>

(* A message of any topic: a task, or a status event.                      *)
Msg == [task : Tasks, body : {"task", "running"} \cup Terminal]
NoMsg == [body |-> "none"]
Ending(msg) == msg.body \in Terminal

-----------------------------------------------------------------------------
(* The URLs.  A topic is named by the part of the URL the broker sees.     *)

(* Mutant of OpenManagerResources: events come back on their own topic.    *)
OpenManagerResourcesFeedback ==
    CASE scheme = "nats"   -> [tasks |-> "tasks.new", events |-> "events.workers",
                               api |-> "events.workers"]
      [] scheme = "kafka"  -> [tasks |-> "tasks", events |-> "worker_events", api |-> "worker_events"]
      [] scheme = "awssqs" -> [tasks |-> "worker-tasks", events |-> "manager-events",
                               api |-> "manager-events"]

OpenManagerResources ==
    CASE scheme = "nats"   -> [tasks |-> "tasks.new", events |-> "events.workers",
                               api |-> "events.api"]
      [] scheme = "kafka"  -> [tasks |-> "tasks", events |-> "worker_events", api |-> "api_events"]
      [] scheme = "awssqs" -> [tasks |-> "worker-tasks", events |-> "manager-events",
                               api |-> "api-events"]

OpenWorkerResources ==
    CASE scheme = "nats"   -> [tasks |-> "tasks.new", events |-> "events.workers"]
      [] scheme = "kafka"  -> [tasks |-> "tasks", events |-> "worker_events"]
      [] scheme = "awssqs" -> [tasks |-> "worker-tasks", events |-> "manager-events"]

(* An ephemeral consumer, a consumer group named after the host, or an SQS *)
(* queue named after it; and what the broker must hold before a message of *)
(* the topic reaches it.                                                   *)
OpenAPIResources(a) ==
    CASE scheme = "nats"   -> [group |-> a, topic |-> "events.api", needs |-> {"group"}]
      [] scheme = "kafka"  -> [group |-> a, topic |-> "api_events", needs |-> {"group"}]
      [] scheme = "awssqs" -> [group |-> a, topic |-> "api-events",
                               needs |-> {"queue", "policy", "subscription"}]

-----------------------------------------------------------------------------
(* The broker.  Readers of one group share its messages.                   *)

Groups == {"workers", "manager-events"} \cup Apis
Empty == [msg \in Msg |-> 0]

Reads(g, topic) ==
    \/ g = "workers" /\ topic = OpenWorkerResources.tasks
    \/ g = "manager-events" /\ topic = OpenManagerResources.events
    \/ \E a \in Apis : LET r == OpenAPIResources(a)
                       IN  r.group = g /\ r.topic = topic /\ known[a] = r.needs

Send(topic, msg) ==
    queue' = [g \in Groups |-> IF Reads(g, topic) THEN [queue[g] EXCEPT ![msg] = @ + 1] ELSE queue[g]]

Ack(g, msg) ==
    /\ queue[g][msg] > 0
    /\ queue' = [queue EXCEPT ![g][msg] = @ - 1]

(* Type invariant of broker, managers, workers and APIs.                   *)
TypeOK ==
    /\ MgrTypeOK /\ ExecTypeOK
    /\ scheme \in Schemes
    /\ queue \in [Groups -> [Msg -> Nat]]
    /\ known \in [Apis -> SUBSET {"group", "queue", "policy", "subscription"}]
    /\ rl \in [Loops -> [pc : {"receive", "gone"}, ev : {NoMsg}] \cup [pc : {"push"}, ev : Msg]]
    /\ internal \in [Managers -> Seq(Msg)]
    /\ \A m \in Managers : Len(internal[m]) <= EventsCap
    /\ evLoop \in [Managers -> {msg \in Msg : Ending(msg)} \cup {NoMsg}]
    /\ api \in [Apis -> {"queue", "policy", "subscription", "open", "serving", "deaf"}]
    /\ stopping \in [Workers -> BOOLEAN]
    /\ faults \in 0..MaxFaults
    /\ sent \in [Tasks -> Nat]
    /\ owed \in [Apis -> [Tasks -> Nat]] /\ told \in [Apis -> [Tasks -> Nat]]

(* openAWSAPISubscription begins with the queue.                           *)
FirstCall == IF scheme = "awssqs" THEN "queue" ELSE "open"

NewLoop == [pc |-> "receive", ev |-> NoMsg]

Init ==
    /\ MgrInit /\ ExecInit
    /\ scheme \in Schemes
    /\ queue = [g \in Groups |-> Empty]
    /\ known = [a \in Apis |-> {}]
    /\ rl = [l \in Loops |-> NewLoop]
    /\ internal = [m \in Managers |-> <<>>]
    /\ evLoop = [m \in Managers |-> NoMsg]
    /\ api = [a \in Apis |-> FirstCall]
    /\ stopping = [w \in Workers |-> FALSE]
    /\ faults = 0
    /\ sent = [t \in Tasks |-> 0]
    /\ owed = [a \in Apis |-> [t \in Tasks |-> 0]]
    /\ told = owed

Fault == faults < MaxFaults /\ faults' = faults + 1

-----------------------------------------------------------------------------
(* Manager.Submit over Dispatch.                                           *)

TaskMsg(t) == [task |-> t, body |-> "task"]

Submit(t) ==
    /\ \E u \in UserIDs, n \in StageCounts : SubmitAccepted(t, u, n)
    /\ Send(OpenManagerResources.tasks, TaskMsg(t))
    /\ UNCHANGED <<run, scheme, known, managerVars, api, stopping, faults, history>>

(* Send failed: the broker has the message or not.                         *)
SubmitFails(t) ==
    /\ Fault
    /\ \E u \in UserIDs, n \in StageCounts : SubmitRejected(t, u, n, "other")
    /\ Send(OpenManagerResources.tasks, TaskMsg(t)) \/ UNCHANGED queue
    /\ UNCHANGED <<run, scheme, known, managerVars, api, stopping, history>>

(* Mutant of List: tasks that wait to run are passed over.                 *)
ListRunning == {t \in Tasks : store[t].status = "running" /\ store[t].dispatchedAt}

(* runDeadlineLoop keeps of List what has not ended and is overdue, sends  *)
(* it and stamps it.  A task that is on its way ends before the deadline   *)
(* unless something is late; one that nobody has becomes overdue.          *)
List == {t \in Tasks : store[t].status \in TaskStatus \ Terminal /\ store[t].dispatchedAt}

Held(t) ==
    \/ queue["workers"][TaskMsg(t)] > 0
    \/ \E w \in Workers : Busy(w) /\ run[w].task = t
    \/ \E s \in Terminal :
          LET msg == [task |-> t, body |-> s]
          IN  \/ queue["manager-events"][msg] > 0
              \/ \E l \in Loops : rl[l].ev = msg
              \/ \E m \in Managers, i \in 1..EventsCap :
                    i <= Len(internal[m]) /\ internal[m][i] = msg

Redispatch(t) ==
    /\ t \in List
    /\ IF Held(t) THEN Fault ELSE UNCHANGED faults
    /\ Send(OpenManagerResources.tasks, TaskMsg(t))
    /\ UNCHANGED <<mgrVars, run, scheme, known, managerVars, api, stopping, history>>

-----------------------------------------------------------------------------
(* The worker.                                                             *)

(* Receive acknowledges at once; RunWorker then calls exec.Run.            *)
Receive(w) ==
    /\ ~stopping[w]
    /\ \E t \in Tasks : Ack("workers", TaskMsg(t)) /\ RunStart(w, t, store[t].stages)
    /\ UNCHANGED <<mgrVars, scheme, known, managerVars, api, stopping, faults, history>>

EmitMsg(w) == [task |-> run[w].task, body |-> run[w].pc]

(* Emit sends with the ctx of the run: once ctx is cancelled Send returns  *)
(* at once and the event may or may not leave the process.                 *)
Emit(w) ==
    /\ EmitDone(w)
    /\ \/ /\ run[w].pc \notin {"start", "end"}
          /\ Send(OpenWorkerResources.events, EmitMsg(w))
          /\ sent' = IF Ending(EmitMsg(w)) THEN [sent EXCEPT ![run[w].task] = @ + 1] ELSE sent
       \/ /\ run[w].pc \in {"start", "end"} \/ stopping[w]
          /\ UNCHANGED <<queue, sent>>
    /\ UNCHANGED <<mgrVars, scheme, known, managerVars, api, stopping, faults, owed, told>>

Stage(w) ==
    /\ StageSleep(w) \/ (stopping[w] /\ StageCancelled(w))
    /\ UNCHANGED <<mgrVars, brokerVars, managerVars, api, stopping, faults, history>>

(* Send failed for another reason: Run goes on without the event.          *)
EmitFails(w) ==
    /\ Fault
    /\ EmitDone(w)
    /\ UNCHANGED <<mgrVars, brokerVars, managerVars, api, stopping, history>>

(* SIGTERM, or an error of Receive, ends RunWorker and with exit code 0    *)
(* the process: "restart: on-failure" does not bring it back.              *)
WorkerStop(w) ==
    /\ ~stopping[w] /\ run[w].pc # "exit"
    /\ Fault
    /\ stopping' = [stopping EXCEPT ![w] = TRUE]
    /\ UNCHANGED <<mgrVars, run, brokerVars, managerVars, api, history>>

WorkerExit(w) ==
    /\ stopping[w]
    /\ RunExit(w)
    /\ UNCHANGED <<mgrVars, brokerVars, managerVars, api, stopping, faults, history>>

(* A crash is restarted; the acknowledged task is gone.                    *)
WorkerCrash(w) ==
    /\ Busy(w)
    /\ Fault
    /\ run' = [run EXCEPT ![w] = Idle]
    /\ UNCHANGED <<mgrVars, brokerVars, managerVars, api, stopping, history>>

-----------------------------------------------------------------------------
(* The manager.                                                            *)

(* receiveLoop: acknowledge, then pass the event on; an ending waits for   *)
(* room in internalEvents, any other event is dropped when it is full.     *)
ReceiveLoop(l) ==
    /\ rl[l].pc = "receive"
    /\ \E msg \in Msg :
          /\ Ack("manager-events", msg)
          /\ IF Ending(msg)
             THEN /\ rl' = [rl EXCEPT ![l] = [pc |-> "push", ev |-> msg]]
                  /\ UNCHANGED internal
             ELSE /\ internal' = IF Len(internal[l[1]]) < EventsCap
                                 THEN [internal EXCEPT ![l[1]] = Append(@, msg)] ELSE internal
                  /\ UNCHANGED rl
    /\ UNCHANGED <<mgrVars, run, scheme, known, evLoop, api, stopping, faults, history>>

(* Mutant of Push: the channel has no bound.                               *)
PushOver(l) ==
    /\ rl[l].pc = "push"
    /\ internal' = [internal EXCEPT ![l[1]] = Append(@, rl[l].ev)]
    /\ rl' = [rl EXCEPT ![l] = NewLoop]
    /\ UNCHANGED <<mgrVars, run, brokerVars, evLoop, api, stopping, faults, history>>

Push(l) ==
    /\ rl[l].pc = "push"
    /\ Len(internal[l[1]]) < EventsCap
    /\ internal' = [internal EXCEPT ![l[1]] = Append(@, rl[l].ev)]
    /\ rl' = [rl EXCEPT ![l] = NewLoop]
    /\ UNCHANGED <<mgrVars, run, brokerVars, evLoop, api, stopping, faults, history>>

(* An error of eventsSub.Receive ends the loop for good.                   *)
ReceiveLoopEnds(l) ==
    /\ rl[l].pc = "receive"
    /\ Fault
    /\ rl' = [rl EXCEPT ![l].pc = "gone"]
    /\ UNCHANGED <<mgrVars, run, brokerVars, internal, evLoop, api, stopping, history>>

PgSetStatus(t, s) ==
    store' = IF Exists(t)
             THEN [store EXCEPT ![t].status = s, ![t].completedAt = s \in Terminal]
             ELSE store

(* Mutant of EventPersist: the ending is published first.                  *)
EventPersistLate(m) ==
    /\ evLoop[m] = NoMsg
    /\ internal[m] # <<>>
    /\ evLoop' = IF Ending(Head(internal[m]))
                 THEN [evLoop EXCEPT ![m] = Head(internal[m])] ELSE evLoop
    /\ internal' = [internal EXCEPT ![m] = Tail(@)]
    /\ UNCHANGED <<mgrVars, run, brokerVars, rl, api, stopping, faults, history>>

(* runEventLoop: ReceiveEvent and SetStatus ...                            *)
EventPersist(m) ==
    /\ evLoop[m] = NoMsg
    /\ internal[m] # <<>>
    /\ LET msg == Head(internal[m])
       IN  IF Ending(msg)
           THEN PgSetStatus(msg.task, msg.body) /\ evLoop' = [evLoop EXCEPT ![m] = msg]
           ELSE UNCHANGED <<store, evLoop>>
    /\ internal' = [internal EXCEPT ![m] = Tail(@)]
    /\ UNCHANGED <<req, loop, run, brokerVars, rl, api, stopping, faults, history>>

(* ... then PubSubEventBridge.Publish, whose error is only logged.  The    *)
(* event loop goes straight on after an event that is no ending: what an   *)
(* API does with it is not followed.                                       *)
EventPublish(m) ==
    /\ evLoop[m] # NoMsg
    /\ evLoop' = [evLoop EXCEPT ![m] = NoMsg]
    /\ \/ /\ Send(OpenManagerResources.api, evLoop[m])
          /\ owed' = [a \in Apis |-> IF api[a] \in {"serving", "deaf"}
                                     THEN [owed[a] EXCEPT ![evLoop[m].task] = @ + 1] ELSE owed[a]]
          /\ UNCHANGED faults
       \/ Fault /\ UNCHANGED <<queue, owed>>
    /\ UNCHANGED <<mgrVars, run, scheme, known, rl, internal, api, stopping, sent, told>>

(* The process is started again: NewManager.  What it held is gone, the    *)
(* acknowledged events too.                                                *)
NewManager(m) ==
    /\ Fault
    /\ rl' = [l \in Loops |-> IF l[1] = m THEN NewLoop ELSE rl[l]]
    /\ internal' = [internal EXCEPT ![m] = <<>>]
    /\ evLoop' = [evLoop EXCEPT ![m] = NoMsg]
    /\ UNCHANGED <<mgrVars, run, brokerVars, api, stopping, history>>

-----------------------------------------------------------------------------
(* The API process.                                                        *)

Then == [queue |-> "policy", policy |-> "subscription", subscription |-> "open"]

(* openAWSAPISubscription: create the queue, allow SNS to send to it,      *)
(* subscribe it.  Each call is idempotent, and what it did survives the    *)
(* process.                                                                *)
OpenAWSQueue(a) ==
    /\ api[a] \in DOMAIN Then
    /\ known' = [known EXCEPT ![a] = @ \cup {api[a]}]
    /\ api' = [api EXCEPT ![a] = Then[api[a]]]
    /\ UNCHANGED <<mgrVars, run, scheme, queue, managerVars, stopping, faults, history>>

(* OpenSubscription; NewAPI starts the receive loop.                       *)
NewAPI(a) ==
    /\ api[a] = "open"
    /\ known' = IF scheme = "awssqs" THEN known ELSE [known EXCEPT ![a] = {"group"}]
    /\ api' = [api EXCEPT ![a] = "serving"]
    /\ UNCHANGED <<mgrVars, run, scheme, queue, managerVars, stopping, faults, history>>

ApiReceive(a) ==
    /\ api[a] = "serving"
    /\ \E msg \in Msg :
          /\ Ack(OpenAPIResources(a).group, msg)
          /\ told' = [told EXCEPT ![a][msg.task] = @ + 1]
    /\ UNCHANGED <<mgrVars, run, scheme, known, managerVars, api, stopping, faults, sent, owed>>

(* An error of Receive ends the goroutine; the API serves on without it.   *)
ApiDeaf(a) ==
    /\ api[a] = "serving"
    /\ Fault
    /\ api' = [api EXCEPT ![a] = "deaf"]
    /\ UNCHANGED <<mgrVars, run, brokerVars, managerVars, stopping, history>>

(* The process ends, at any point of NewAPI or later, and is started       *)
(* again.  NATS forgets an ephemeral consumer, the others keep their queue.*)
ApiCrash(a) ==
    /\ Fault
    /\ api' = [api EXCEPT ![a] = FirstCall]
    /\ IF scheme = "nats"
       THEN /\ known' = [known EXCEPT ![a] = {}]
            /\ queue' = [queue EXCEPT ![a] = Empty]
            /\ owed' = [owed EXCEPT ![a] = told[a]]
       ELSE UNCHANGED <<known, queue, owed>>
    /\ UNCHANGED <<mgrVars, run, scheme, managerVars, stopping, sent, told>>

-----------------------------------------------------------------------------
System ==
    \/ \E t \in Tasks : ~Held(t) /\ Redispatch(t)
    \/ \E w \in Workers : Receive(w) \/ Emit(w) \/ Stage(w) \/ WorkerExit(w)
    \/ \E l \in Loops : ReceiveLoop(l) \/ Push(l)
    \/ \E m \in Managers : EventPersist(m) \/ EventPublish(m)
    \/ \E a \in Apis : OpenAWSQueue(a) \/ NewAPI(a) \/ ApiReceive(a)

Next ==
    \/ System
    \/ \E t \in Tasks : Submit(t) \/ SubmitFails(t) \/ Redispatch(t)
    \/ \E w \in Workers : EmitFails(w) \/ WorkerStop(w) \/ WorkerCrash(w)
    \/ \E l \in Loops : ReceiveLoopEnds(l)
    \/ \E m \in Managers : NewManager(m)
    \/ \E a \in Apis : ApiDeaf(a) \/ ApiCrash(a)

Spec == Init /\ [][Next]_vars

(* Faults are bounded, so every behaviour uses its steps up: it is enough  *)
(* that the system does not stop while it can go on.                       *)
FairSpec == Spec /\ WF_vars(System)

-----------------------------------------------------------------------------
(***************************************************************************)
(* Properties.                                                             *)
(***************************************************************************)

(* Every API server that serves when an ending is published gets it, under *)
(* every scheme, however the opening of its subscription was interrupted   *)
(* before; and no API gets more endings than workers sent: no two share a  *)
(* subscription that should be their own, and nothing the managers publish *)
(* comes back to them.                                                     *)
Fanout ==
    \A a \in Apis, t \in Tasks :
        LET got == told[a][t] + queue[a][[task |-> t, body |-> "completed"]]
                              + queue[a][[task |-> t, body |-> "failed"]]
        IN  owed[a][t] <= got /\ got <= sent[t]

(* When a browser is told that a task ended, the row says so too: whoever  *)
(* reloads the page sees the ending he was told.                           *)
ToldIsStored ==
    \A a \in Apis, t \in Tasks : told[a][t] > 0 => store[t].status \in Terminal

(* A task that was answered 202 ends although workers acknowledge before   *)
(* they execute and managers before they record, unless every receive loop *)
(* or every worker has ended for good.                                     *)
Recovered ==
    \A t \in Tasks : (req[t].pc = "done" /\ HTTPStatus(t) = 202) ~>
        \/ store[t].status \in Terminal
        \/ \A l \in Loops : rl[l].pc = "gone"
        \/ \A w \in Workers : run[w].pc = "exit"
=============================================================================
