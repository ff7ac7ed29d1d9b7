-------------------------- MODULE EventRelayProofs --------------------------
(***************************************************************************)
(* Theorems about the relay and the page for every number of tasks and     *)
(* every capacity of the three buffers.                                    *)
(***************************************************************************)
EXTENDS EventRelay, CoreProofs

-----------------------------------------------------------------------------
(* The buffers.                                                            *)

LEMMA OfferType ==
    ASSUME NEW S, NEW ch \in Seq(S), NEW ev \in S, NEW cap \in Nat, Len(ch) <= cap
    PROVE  /\ Offer(ch, ev, cap) \in Seq(S)
           /\ Len(Offer(ch, ev, cap)) <= cap
           /\ \A i \in 1..Len(Offer(ch, ev, cap)) :
                 \/ Offer(ch, ev, cap)[i] = ev
                 \/ i \in 1..Len(ch) /\ Offer(ch, ev, cap)[i] = ch[i]
BY SMT DEF Offer

LEMMA TailType ==
    ASSUME NEW S, NEW ch \in Seq(S), NEW cap \in Nat, Len(ch) <= cap, ch # <<>>
    PROVE  Tail(ch) \in Seq(S) /\ Len(Tail(ch)) <= cap /\ Head(ch) \in S
BY SMT

(* Only tasks are counted as missed.                                       *)
LEMMA EndsType ==
    ASSUME NEW evs \in Seq(Event)
    PROVE  Ends(evs) \subseteq Tasks
<1>1. \A i \in 1..Len(evs) : evs[i] \in Event
    BY ElementOfSeq
<1> QED BY <1>1 DEF Ends, Event

LEMMA DroppedType ==
    ASSUME NEW ch, NEW ev \in Event, NEW cap
    PROVE  Dropped(ch, ev, cap) \subseteq Tasks /\ Ends(<<ev>>) \subseteq Tasks
<1>1. <<ev>> \in Seq(Event)
    BY SMT
<1> QED BY <1>1, EndsType DEF Dropped

LEMMA StatusEventType ==
    ASSUME NEW t \in Tasks, NEW s \in TaskStatus
    PROVE  /\ StatusEvent(t, s) \in Event
           /\ StatusEvent(t, s).task = t /\ StatusEvent(t, s).status = s
           /\ StatusEvent(t, s).type = "task_status"
BY SMT DEF StatusEvent, Event, UserIDs, MaxStages

-----------------------------------------------------------------------------
(* CardTruth with what it rests on.                                        *)

(* A status event whose ending, if it is one, the store has had.           *)
Agrees(ev) ==
    /\ ev.type = "task_status"
    /\ ev.status \in Terminal => ev.status \in recorded[ev.task]

Persisting(t) == {m \in Managers : loops[m].pc = "persist" /\ loops[m].ev.task = t}

Refusing(t) == req[t].pc \in {"dispatch", "fail"}

(* What has a row; an ending is written and recorded together, and before  *)
(* it is published.                                                        *)
ManagerInv ==
    /\ \A t \in Tasks : due[t] > 0 \/ going[t] > 0 \/ recorded[t] # {} \/ t \in repeated => Exists(t)
    /\ \A t \in Tasks : Refusing(t) \/ store[t].dispatchedAt => Exists(t)
    /\ \A t \in Tasks : store[t].status \in Terminal => store[t].status \in recorded[t]
    /\ \A m \in Managers : loops[m].pc = "persist" =>
          IsTerminal(loops[m].ev) /\ Exists(loops[m].ev.task)
    /\ \A m \in Managers : loops[m].pc = "publish" => Agrees(loops[m].ev)

(* A task that is not repeated is recorded once: by its one execution or   *)
(* by the refusal of its submission.                                       *)
OnceInv == \A t \in Tasks : t \notin repeated =>
    /\ due[t] + going[t] <= 1
    /\ due[t] + going[t] = 1 => Persisting(t) = {} /\ recorded[t] = {}
    /\ \A m, n \in Persisting(t) : m = n
    /\ Persisting(t) # {} => recorded[t] = {}
    /\ Refusing(t) => due[t] + going[t] = 0 /\ Persisting(t) = {} /\ recorded[t] = {}
    /\ \A s \in recorded[t] : store[t].status = s

(* A card or a query is about a row that exists.                           *)
PageInv == \A t \in Tasks : post[t] = "sent" \/ fetch[t] # "none" => Exists(t)

(* Whatever is on its way to a card has been recorded.                     *)
RelayInv ==
    /\ \A i \in 1..Len(feed) : Agrees(feed[i])
    /\ \A i \in 1..Len(out) : Agrees(out[i])
    /\ \A i \in 1..Len(sseCh) : Agrees(sseCh[i])
    /\ \A t \in Tasks : fetch[t] \in Terminal => fetch[t] \in recorded[t]
    /\ \A t \in Tasks : card[t] \in Terminal => card[t] \in recorded[t]

-----------------------------------------------------------------------------
(* The manager.                                                            *)

(* The steps that change what the managers hold; the others leave it.      *)
ManagerStep ==
    \/ \E t \in Tasks :
          Submit(t) \/ SubmitUnanswered(t) \/ CreateOnly(t) \/ DispatchRefused(t)
          \/ RefusalStored(t) \/ SentAgain(t)
    \/ \E m \in Managers :
          (\E t \in Tasks : WorkerEvent(m, t)) \/ Persist(m) \/ PublishEvent(m) \/ ManagerCrash(m)

LEMMA ManagerFrame ==
    ASSUME [Next]_vars
    PROVE  ManagerStep \/ UNCHANGED managerVars
BY DEF Next, System, vars, ManagerStep, BridgeStream, StreamEvents, ServerSubscribe, ClientSubscribe,
       NATSSubscribe, StreamWithReconnect, ClientReturns, NATSBreak, Connected, Broken, Taken,
       Offered, Pump, PageConnect, PageBreak, HandleTaskStatus, InsertCard, GetTask, GetTaskFails,
       SyncFails, SyncCardState, Index

LoopType ==
    /\ loops \in [Managers -> [pc : {"receive", "persist", "publish"}, ev : Event \cup {NoEvent}]]
    /\ \A m \in Managers : loops[m].pc # "receive" => loops[m].ev \in Event

MgrPart ==
    /\ MgrTypeOK
    /\ due \in [Tasks -> Nat] /\ going \in [Tasks -> Nat]
    /\ LoopType
    /\ repeated \subseteq Tasks
    /\ recorded \in [Tasks -> SUBSET Terminal]

(* What a receive puts into a loop: an ending to persist, or another       *)
(* status event to publish.                                                *)
LEMMA ReceivedType ==
    ASSUME NEW t \in Tasks, NEW s \in TaskStatus
    PROVE  /\ Received(StatusEvent(t, s)).ev = StatusEvent(t, s)
           /\ Received(StatusEvent(t, s)).pc = IF s \in Terminal THEN "persist" ELSE "publish"
           /\ Received(StatusEvent(t, s)) \in
                 [pc : {"receive", "persist", "publish"}, ev : Event \cup {NoEvent}]
<1>1. /\ StatusEvent(t, s) \in Event /\ StatusEvent(t, s).type = "task_status"
      /\ StatusEvent(t, s).status = s
    BY StatusEventType
<1>2. IsTerminal(StatusEvent(t, s)) <=> s \in Terminal
    BY <1>1 DEF IsTerminal
<1> QED BY <1>1, <1>2 DEF Received

(* A step of WorkerEvent, taken apart.                                     *)
LEMMA WorkerEventStep ==
    ASSUME NEW m \in Managers, NEW t \in Tasks, WorkerEvent(m, t)
    PROVE  \E s \in TaskStatus :
              /\ loops' = [loops EXCEPT ![m] = Received(StatusEvent(t, s))]
              /\ loops[m].pc = "receive"
              /\ UNCHANGED <<store, req, loop, repeated, recorded>>
              /\ \/ /\ s \notin Terminal /\ due[t] > 0
                    /\ due' = [due EXCEPT ![t] = @ - 1] /\ going' = [going EXCEPT ![t] = @ + 1]
                 \/ /\ s \in Terminal /\ going[t] > 0
                    /\ due' = due /\ going' = [going EXCEPT ![t] = @ - 1]
<1>1. "running" \in TaskStatus /\ "running" \notin Terminal /\ Terminal \subseteq TaskStatus
    BY DEF TaskStatus, Terminal
<1> QED BY <1>1, Zenon DEF WorkerEvent, mgrVars

LEMMA MgrPartStep == MgrPart /\ ManagerInv /\ [Next]_vars => MgrPart'
<1> SUFFICES ASSUME MgrPart, ManagerInv, [Next]_vars PROVE MgrPart'
    OBVIOUS
<1>0. /\ MgrTypeOK /\ due \in [Tasks -> Nat] /\ going \in [Tasks -> Nat] /\ LoopType
      /\ repeated \subseteq Tasks /\ recorded \in [Tasks -> SUBSET Terminal]
      /\ NoUser \in UserIDs /\ 1 \in Int /\ "failed" \in Terminal
    BY DEF MgrPart, UserIDs, Terminal
<1>1. CASE UNCHANGED managerVars
    BY <1>1, <1>0 DEF managerVars, mgrVars, execVars, MgrPart, MgrTypeOK, LoopType
<1>2. ASSUME NEW t \in Tasks, Submit(t) \/ SubmitUnanswered(t) PROVE MgrPart'
    <2>1. SubmitAccepted(t, NoUser, 1) /\ due' = [due EXCEPT ![t] = 1]
          /\ UNCHANGED <<going, repeated, loops, recorded>>
        BY <1>2 DEF Submit, SubmitUnanswered
    <2>2. MgrTypeOK'
        BY <1>0, <2>1, MgrTypeSubmitOnce
    <2>3. due' \in [Tasks -> Nat]
        BY <1>0, <2>1
    <2> QED BY <1>0, <2>1, <2>2, <2>3 DEF MgrPart, LoopType
<1>3. ASSUME NEW t \in Tasks, CreateOnly(t) \/ DispatchRefused(t) \/ RefusalStored(t) PROVE MgrPart'
    <2>1. SubmitCreate(t, NoUser, 1) \/ SubmitRefused(t, "other") \/ SubmitFail(t)
        BY <1>3 DEF CreateOnly, DispatchRefused, RefusalStored
    <2>2. MgrTypeOK'
        BY <1>0, <2>1, MgrTypeSubmit DEF DispatchError
    <2>3. /\ UNCHANGED <<going, loops>>
          /\ due' = due \/ due' = [due EXCEPT ![t] = 1]
          /\ repeated' = repeated \/ repeated' = repeated \cup {t}
          /\ recorded' = recorded \/ recorded' = [recorded EXCEPT ![t] = @ \cup {"failed"}]
        BY <1>3 DEF CreateOnly, DispatchRefused, RefusalStored, execVars
    <2>4. due' \in [Tasks -> Nat]
        BY <1>0, <2>3
    <2>5. recorded' \in [Tasks -> SUBSET Terminal]
        BY <1>0, <2>3
    <2> QED BY <1>0, <2>2, <2>3, <2>4, <2>5 DEF MgrPart, LoopType
<1>4. ASSUME NEW t \in Tasks, SentAgain(t) PROVE MgrPart'
    <2>1. /\ UNCHANGED <<store, req, loop, loops, recorded>>
          /\ due' \in [Tasks -> Nat] /\ repeated' \subseteq Tasks
        BY <1>0, <1>4 DEF SentAgain, mgrVars
    <2>2. going' \in [Tasks -> Nat]
        BY <1>0, <1>4, SMT DEF SentAgain
    <2> QED BY <1>0, <2>1, <2>2 DEF MgrPart, LoopType, MgrTypeOK
<1>5. ASSUME NEW m \in Managers, NEW t \in Tasks, WorkerEvent(m, t) PROVE MgrPart'
    <2> PICK s \in TaskStatus :
              /\ loops' = [loops EXCEPT ![m] = Received(StatusEvent(t, s))]
              /\ UNCHANGED <<store, req, loop, repeated, recorded>>
              /\ \/ /\ due[t] > 0
                    /\ due' = [due EXCEPT ![t] = @ - 1] /\ going' = [going EXCEPT ![t] = @ + 1]
                 \/ /\ going[t] > 0
                    /\ due' = due /\ going' = [going EXCEPT ![t] = @ - 1]
        BY <1>5, WorkerEventStep
    <2>1. due' \in [Tasks -> Nat] /\ going' \in [Tasks -> Nat]
        BY <1>0, SMT
    <2> DEFINE r == Received(StatusEvent(t, s))
    <2>2. /\ r \in [pc : {"receive", "persist", "publish"}, ev : Event \cup {NoEvent}]
          /\ r.ev \in Event
        BY ReceivedType, StatusEventType
    <2> HIDE DEF r
    <2>3. LoopType'
        BY <1>0, <2>2 DEF LoopType, r
    <2> QED BY <1>0, <2>1, <2>3 DEF MgrPart, MgrTypeOK
<1>6. ASSUME NEW m \in Managers, Persist(m) PROVE MgrPart'
    <2> DEFINE ev == loops[m].ev
    <2>1. /\ loops[m].pc = "persist" /\ SetStatus(ev.task, ev.status)
          /\ recorded' = [recorded EXCEPT ![ev.task] = @ \cup {ev.status}]
          /\ loops' = [loops EXCEPT ![m].pc = "publish"]
          /\ UNCHANGED <<req, loop, due, going, repeated>>
        BY <1>6 DEF Persist, execVars
    <2>2. ev \in Event /\ ev.task \in Tasks /\ ev.status \in Terminal /\ ev.status \in TaskStatus
        BY <1>0, <2>1 DEF LoopType, ManagerInv, IsTerminal, Event, Terminal, TaskStatus
    <2> HIDE DEF ev
    <2>3. store' \in [Tasks -> Row]
        BY <1>0, <2>1, <2>2, StoreType
    <2>4. recorded' \in [Tasks -> SUBSET Terminal]
        BY <1>0, <2>1, <2>2
    <2>5. LoopType'
        BY <1>0, <2>1 DEF LoopType
    <2> QED BY <1>0, <2>1, <2>3, <2>4, <2>5 DEF MgrPart, MgrTypeOK
<1>7. ASSUME NEW m \in Managers, PublishEvent(m) \/ ManagerCrash(m) PROVE MgrPart'
    <2>1. /\ loops' = [loops EXCEPT ![m] = [pc |-> "receive", ev |-> NoEvent]]
          /\ UNCHANGED <<store, req, loop, due, going, repeated, recorded>>
        BY <1>7 DEF PublishEvent, ManagerCrash, mgrVars, execVars
    <2>2. LoopType'
        BY <1>0, <2>1 DEF LoopType
    <2> QED BY <1>0, <2>1, <2>2 DEF MgrPart, MgrTypeOK
<1> QED BY <1>1, <1>2, <1>3, <1>4, <1>5, <1>6, <1>7, ManagerFrame DEF ManagerStep

(* What a step does to the rows: none disappears, what is recorded stays   *)
(* recorded and a repeated task repeated.                                  *)
LEMMA StoreStep ==
    ASSUME MgrPart, ManagerInv, [Next]_vars
    PROVE  \A t \in Tasks :
              /\ Exists(t) => Exists(t)'
              /\ recorded[t] \subseteq recorded'[t]
              /\ t \in repeated => t \in repeated'
<1>0. store \in [Tasks -> Row] /\ recorded \in [Tasks -> SUBSET Terminal] /\ LoopType
      /\ "absent" \notin Terminal
    BY DEF MgrPart, MgrTypeOK, Terminal
<1>1. CASE UNCHANGED managerVars
    BY <1>1 DEF managerVars, mgrVars, execVars, Exists
<1>2. ASSUME NEW x \in Tasks,
             \/ Submit(x) \/ SubmitUnanswered(x) \/ CreateOnly(x)
             \/ DispatchRefused(x) \/ RefusalStored(x) \/ SentAgain(x)
      PROVE  \A t \in Tasks : /\ Exists(t) => Exists(t)'
                              /\ recorded[t] \subseteq recorded'[t]
                              /\ t \in repeated => t \in repeated'
    <2>1. /\ recorded' = recorded \/ recorded' = [recorded EXCEPT ![x] = @ \cup {"failed"}]
          /\ repeated' = repeated \/ repeated' = repeated \cup {x}
        BY <1>2 DEF Submit, SubmitUnanswered, CreateOnly, DispatchRefused, RefusalStored, SentAgain,
           execVars
    <2>2. \/ store' = store
          \/ SubmitAccepted(x, NoUser, 1) \/ SubmitCreate(x, NoUser, 1) \/ SubmitFail(x)
        BY <1>2 DEF Submit, SubmitUnanswered, CreateOnly, DispatchRefused, RefusalStored, SentAgain,
           SubmitRefused, mgrVars
    <2>3. \A t \in Tasks : Exists(t) => Exists(t)'
        <3>1. \A t \in Tasks : store'[t] = store[t] \/ (t = x /\ store'[x].status \in {"pending", "failed"})
            BY <1>0, <2>2 DEF SubmitAccepted, SubmitCreate, Create, SubmitFail, SetStatus, Row
        <3> QED BY <3>1 DEF Exists
    <2> QED BY <1>0, <2>1, <2>3
<1>3. ASSUME NEW m \in Managers, Persist(m)
      PROVE  \A t \in Tasks : /\ Exists(t) => Exists(t)'
                              /\ recorded[t] \subseteq recorded'[t]
                              /\ t \in repeated => t \in repeated'
    <2> DEFINE ev == loops[m].ev
    <2>1. /\ loops[m].pc = "persist" /\ SetStatus(ev.task, ev.status) /\ repeated' = repeated
          /\ recorded' = [recorded EXCEPT ![ev.task] = @ \cup {ev.status}]
        BY <1>3 DEF Persist, execVars
    <2>2. ev.task \in Tasks /\ ev.status # "absent"
        BY <1>0, <2>1 DEF LoopType, ManagerInv, IsTerminal, Event
    <2> HIDE DEF ev
    <2>3. \A t \in Tasks : store'[t].status = store[t].status \/ store'[t].status = ev.status
        BY <1>0, <2>1, <2>2 DEF SetStatus, Row
    <2> QED BY <1>0, <2>1, <2>2, <2>3 DEF Exists
<1>4. ASSUME NEW m \in Managers,
             (\E t \in Tasks : WorkerEvent(m, t)) \/ PublishEvent(m) \/ ManagerCrash(m)
      PROVE  UNCHANGED <<store, recorded, repeated>>
    BY <1>4 DEF WorkerEvent, PublishEvent, ManagerCrash, mgrVars, execVars
<1> QED BY <1>1, <1>2, <1>3, <1>4, ManagerFrame DEF ManagerStep, Exists

(* What has been told stays recorded.                                      *)
AgreesNext(ev) ==
    /\ ev.type = "task_status"
    /\ ev.status \in Terminal => ev.status \in recorded'[ev.task]

LEMMA AgreesKept ==
    ASSUME MgrPart, ManagerInv, [Next]_vars, NEW ev \in Event, Agrees(ev)
    PROVE  AgreesNext(ev)
<1>1. ev.task \in Tasks
    BY DEF Event
<1> QED BY <1>1, StoreStep DEF Agrees, AgreesNext

LEMMA ManagerInvStep == MgrPart /\ ManagerInv /\ [Next]_vars => ManagerInv'
<1> SUFFICES ASSUME MgrPart, ManagerInv, [Next]_vars PROVE ManagerInv'
    OBVIOUS
<1>0. /\ store \in [Tasks -> Row] /\ req \in [Tasks -> ReqState]
      /\ due \in [Tasks -> Nat] /\ going \in [Tasks -> Nat] /\ LoopType
      /\ recorded \in [Tasks -> SUBSET Terminal]
    BY DEF MgrPart, MgrTypeOK
<1>t. "absent" \notin Terminal /\ "pending" \notin Terminal /\ "failed" \in Terminal
    BY DEF Terminal
<1>k. \A t \in Tasks : /\ Exists(t) => Exists(t)'
                       /\ recorded[t] \subseteq recorded'[t]
    BY StoreStep
<1>l. \A m \in Managers :
         /\ loops[m].pc # "receive" => loops[m].ev \in Event /\ loops[m].ev.task \in Tasks
         /\ loops[m].pc = "publish" => AgreesNext(loops[m].ev)
    BY <1>0, AgreesKept DEF LoopType, ManagerInv, Event
(* The two conjuncts about the loops, for those the step leaves alone. *)
<1> DEFINE LoopOK(m) == /\ loops'[m].pc = "persist" =>
                              /\ IsTerminal(loops'[m].ev)
                              /\ store'[loops'[m].ev.task].status # "absent"
                        /\ loops'[m].pc = "publish" => AgreesNext(loops'[m].ev)
<1>s. \A m \in Managers : loops'[m] = loops[m] => LoopOK(m)
    <2> SUFFICES ASSUME NEW m \in Managers, loops'[m] = loops[m] PROVE LoopOK(m)
        OBVIOUS
    <2>1. loops[m].pc = "persist" =>
             IsTerminal(loops[m].ev) /\ Exists(loops[m].ev.task) /\ loops[m].ev.task \in Tasks
        BY <1>l DEF ManagerInv
    <2> QED BY <1>k, <1>l, <2>1 DEF Exists
<1>1. \A m \in Managers : LoopOK(m)
    <2> SUFFICES ASSUME NEW m \in Managers PROVE LoopOK(m)
        OBVIOUS
    <2>1. CASE \E t \in Tasks : WorkerEvent(m, t)
        <3> PICK t \in Tasks, s \in TaskStatus :
                /\ loops' = [loops EXCEPT ![m] = Received(StatusEvent(t, s))]
                /\ due[t] > 0 \/ going[t] > 0
            BY <2>1, WorkerEventStep
        <3>1. loops'[m] = Received(StatusEvent(t, s))
            BY <1>0 DEF LoopType
        <3>2. /\ loops'[m].ev.task = t /\ loops'[m].ev.status = s
              /\ loops'[m].ev.type = "task_status"
              /\ loops'[m].pc = IF s \in Terminal THEN "persist" ELSE "publish"
            BY <3>1, ReceivedType, StatusEventType
        <3>3. Exists(t)'
            BY <1>k DEF ManagerInv
        <3> QED BY <3>2, <3>3 DEF AgreesNext, IsTerminal, Exists
    <2>2. CASE Persist(m)
        <3> DEFINE ev == loops[m].ev
        <3>1. /\ loops'[m].pc = "publish" /\ loops'[m].ev = ev
              /\ recorded' = [recorded EXCEPT ![ev.task] = @ \cup {ev.status}]
              /\ ev.task \in Tasks /\ IsTerminal(ev)
            BY <1>0, <1>l, <2>2 DEF Persist, LoopType, ManagerInv
        <3> HIDE DEF ev
        <3>2. AgreesNext(ev)
            BY <1>0, <3>1 DEF AgreesNext, IsTerminal
        <3> QED BY <3>1, <3>2
    <2>3. CASE PublishEvent(m) \/ ManagerCrash(m)
        <3>1. loops'[m].pc = "receive"
            BY <1>0, <2>3 DEF PublishEvent, ManagerCrash, LoopType
        <3> QED BY <3>1
    <2>4. CASE /\ ~(\E t \in Tasks : WorkerEvent(m, t)) /\ ~Persist(m)
               /\ ~PublishEvent(m) /\ ~ManagerCrash(m)
        <3>1. loops'[m] = loops[m]
            <4>1. CASE UNCHANGED managerVars
                BY <4>1 DEF managerVars
            <4>2. CASE \E t \in Tasks : \/ Submit(t) \/ SubmitUnanswered(t) \/ CreateOnly(t)
                                        \/ DispatchRefused(t) \/ RefusalStored(t) \/ SentAgain(t)
                BY <4>2 DEF Submit, SubmitUnanswered, CreateOnly, DispatchRefused, RefusalStored,
                   SentAgain
            <4>3. ASSUME NEW n \in Managers, n # m,
                         \/ \E t \in Tasks : WorkerEvent(n, t)
                         \/ Persist(n) \/ PublishEvent(n) \/ ManagerCrash(n)
                  PROVE  loops'[m] = loops[m]
                <5>1. \/ \E r : loops' = [loops EXCEPT ![n] = r]
                      \/ loops' = [loops EXCEPT ![n].pc = "publish"]
                    BY <4>3, WorkerEventStep DEF Persist, PublishEvent, ManagerCrash
                <5> QED BY <1>0, <4>3, <5>1 DEF LoopType
            <4> QED BY <2>4, <4>1, <4>2, <4>3, ManagerFrame DEF ManagerStep
        <3> QED BY <1>s, <3>1
    <2> QED BY <2>1, <2>2, <2>3, <2>4
<1> HIDE DEF LoopOK
(* The rows. *)
<1> DEFINE RowOK(t) ==
              /\ due'[t] > 0 \/ going'[t] > 0 \/ recorded'[t] # {} \/ t \in repeated' => Exists(t)'
              /\ Refusing(t)' => Exists(t)'
              /\ store'[t].dispatchedAt => Exists(t)'
              /\ store'[t].status \in Terminal => store'[t].status \in recorded'[t]
<1>2. \A t \in Tasks : RowOK(t)
    <2>1. CASE UNCHANGED managerVars
        BY <2>1 DEF managerVars, mgrVars, execVars, ManagerInv, Exists, Refusing
    <2>2. ASSUME NEW x \in Tasks, Submit(x) \/ SubmitUnanswered(x) \/ CreateOnly(x)
          PROVE  \A t \in Tasks : RowOK(t)
        <3>1. SubmitAccepted(x, NoUser, 1) \/ SubmitCreate(x, NoUser, 1)
            BY <2>2 DEF Submit, SubmitUnanswered, CreateOnly
        <3>2. /\ store'[x].status = "pending"
              /\ \A t \in Tasks : t # x => store'[t] = store[t] /\ req'[t] = req[t]
            BY <1>0, <3>1 DEF SubmitAccepted, SubmitCreate, Create
        <3>3. /\ UNCHANGED <<going, repeated, recorded>>
              /\ \A t \in Tasks : t # x => due'[t] = due[t]
            BY <1>0, <2>2 DEF Submit, SubmitUnanswered, CreateOnly, execVars
        <3> QED BY <1>t, <3>2, <3>3 DEF ManagerInv, Exists, Refusing
    <2>3. ASSUME NEW x \in Tasks, DispatchRefused(x) PROVE \A t \in Tasks : RowOK(t)
        <3>1. /\ UNCHANGED <<store, going, recorded>> /\ Exists(x)
              /\ \A t \in Tasks : t # x => /\ due'[t] = due[t] /\ req'[t] = req[t]
                                           /\ t \in repeated' => t \in repeated
            BY <1>0, <2>3 DEF DispatchRefused, SubmitRefused, ManagerInv, Refusing
        <3> QED BY <3>1 DEF ManagerInv, Exists, Refusing
    <2>4. ASSUME NEW x \in Tasks, RefusalStored(x) PROVE \A t \in Tasks : RowOK(t)
        <3>1. /\ SetStatus(x, "failed") /\ Exists(x) /\ UNCHANGED <<due, going, repeated>>
              /\ recorded' = [recorded EXCEPT ![x] = @ \cup {"failed"}]
              /\ \A t \in Tasks : t # x => req'[t] = req[t]
            BY <1>0, <2>4 DEF RefusalStored, SubmitFail, ManagerInv, Refusing, execVars
        <3>2. /\ store'[x].status = "failed"
              /\ \A t \in Tasks : t # x => store'[t] = store[t]
            BY <1>0, <3>1 DEF SetStatus, Row
        <3>3. "failed" \in recorded'[x] /\ \A t \in Tasks : t # x => recorded'[t] = recorded[t]
            BY <1>0, <3>1
        <3> QED BY <3>1, <3>2, <3>3 DEF ManagerInv, Exists, Refusing
    <2>5. ASSUME NEW x \in Tasks, SentAgain(x) PROVE \A t \in Tasks : RowOK(t)
        <3>1. /\ UNCHANGED <<store, req, recorded>>
              /\ \A t \in Tasks : t # x => /\ due'[t] = due[t] /\ going'[t] = going[t]
                                           /\ t \in repeated' => t \in repeated
            BY <1>0, <2>5 DEF SentAgain, mgrVars
        <3>2. Exists(x)
            BY <2>5 DEF SentAgain, ManagerInv
        <3> QED BY <3>1, <3>2 DEF ManagerInv, Exists, Refusing
    <2>6. ASSUME NEW m \in Managers, NEW x \in Tasks, WorkerEvent(m, x)
          PROVE  \A t \in Tasks : RowOK(t)
        <3>1. /\ UNCHANGED <<store, req, recorded, repeated>> /\ Exists(x)
              /\ \A t \in Tasks : t # x => due'[t] = due[t] /\ going'[t] = going[t]
            BY <1>0, <2>6 DEF WorkerEvent, mgrVars, ManagerInv
        <3> QED BY <3>1 DEF ManagerInv, Exists, Refusing
    <2>7. ASSUME NEW m \in Managers, Persist(m) PROVE \A t \in Tasks : RowOK(t)
        <3> DEFINE ev == loops[m].ev
        <3>1. /\ SetStatus(ev.task, ev.status) /\ UNCHANGED <<req, due, going, repeated>>
              /\ recorded' = [recorded EXCEPT ![ev.task] = @ \cup {ev.status}]
              /\ ev.task \in Tasks /\ Exists(ev.task) /\ ev.status \in Terminal
            BY <1>0, <1>l, <2>7 DEF Persist, execVars, ManagerInv, IsTerminal
        <3> HIDE DEF ev
        <3>2. /\ store'[ev.task].status = ev.status
              /\ \A t \in Tasks : t # ev.task => store'[t] = store[t]
            BY <1>0, <3>1 DEF SetStatus, Row
        <3>3. /\ ev.status \in recorded'[ev.task]
              /\ \A t \in Tasks : t # ev.task => recorded'[t] = recorded[t]
            BY <1>0, <3>1
        <3> QED BY <1>t, <3>1, <3>2, <3>3 DEF ManagerInv, Exists, Refusing
    <2>8. ASSUME NEW m \in Managers, PublishEvent(m) \/ ManagerCrash(m)
          PROVE  \A t \in Tasks : RowOK(t)
        <3>1. UNCHANGED <<store, req, recorded, due, going, repeated>>
            BY <2>8 DEF PublishEvent, ManagerCrash, mgrVars, execVars
        <3> QED BY <3>1 DEF ManagerInv, Exists, Refusing
    <2> QED BY <2>1, <2>2, <2>3, <2>4, <2>5, <2>6, <2>7, <2>8, ManagerFrame DEF ManagerStep
<1>3. \A m \in Managers :
         /\ loops'[m].pc = "persist" =>
               IsTerminal(loops'[m].ev) /\ store'[loops'[m].ev.task].status # "absent"
         /\ loops'[m].pc = "publish" => AgreesNext(loops'[m].ev)
    BY <1>1 DEF LoopOK
<1> QED BY <1>2, <1>3 DEF ManagerInv, AgreesNext, Agrees, IsTerminal, Exists

(* What a step does to the loops that are about to write an ending of t.   *)
LEMMA PersistingStep ==
    ASSUME LoopType, NEW m \in Managers
    PROVE  /\ \A x \in Tasks, s \in TaskStatus :
                 /\ loops[m].pc = "receive"
                 /\ loops' = [loops EXCEPT ![m] = Received(StatusEvent(x, s))]
                 => \A t \in Tasks : Persisting(t)' =
                        IF t = x /\ s \in Terminal THEN Persisting(t) \cup {m} ELSE Persisting(t)
           /\ Persist(m) \/ PublishEvent(m) \/ ManagerCrash(m) =>
                 \A t \in Tasks : Persisting(t)' = Persisting(t) \ {m}
<1>1. ASSUME NEW x \in Tasks, NEW s \in TaskStatus, loops[m].pc = "receive",
             loops' = [loops EXCEPT ![m] = Received(StatusEvent(x, s))], NEW t \in Tasks
      PROVE  Persisting(t)' =
                 IF t = x /\ s \in Terminal THEN Persisting(t) \cup {m} ELSE Persisting(t)
    <2>1. /\ loops'[m] = Received(StatusEvent(x, s))
          /\ \A n \in Managers : n # m => loops'[n] = loops[n]
        BY <1>1 DEF LoopType
    <2>2. /\ loops'[m].ev.task = x
          /\ loops'[m].pc = IF s \in Terminal THEN "persist" ELSE "publish"
        BY <2>1, ReceivedType, StatusEventType
    <2>3. m \notin Persisting(t)
        BY <1>1 DEF Persisting
    <2>4. \A n \in Managers : n # m => (n \in Persisting(t)' <=> n \in Persisting(t))
        BY <2>1 DEF Persisting
    <2>5. m \in Persisting(t)' <=> (t = x /\ s \in Terminal)
        BY <2>2 DEF Persisting
    <2> QED BY <2>3, <2>4, <2>5 DEF Persisting
<1>2. ASSUME Persist(m) \/ PublishEvent(m) \/ ManagerCrash(m), NEW t \in Tasks
      PROVE  Persisting(t)' = Persisting(t) \ {m}
    <2>1. /\ loops'[m].pc # "persist"
          /\ \A n \in Managers : n # m => loops'[n] = loops[n]
        BY <1>2 DEF LoopType, Persist, PublishEvent, ManagerCrash
    <2> QED BY <2>1 DEF Persisting
<1> QED BY <1>1, <1>2

LEMMA OnceInvStep == MgrPart /\ ManagerInv /\ OnceInv /\ [Next]_vars => OnceInv'
<1> SUFFICES ASSUME MgrPart, ManagerInv, OnceInv, [Next]_vars PROVE OnceInv'
    OBVIOUS
<1>0. /\ store \in [Tasks -> Row] /\ req \in [Tasks -> ReqState]
      /\ due \in [Tasks -> Nat] /\ going \in [Tasks -> Nat] /\ LoopType
      /\ recorded \in [Tasks -> SUBSET Terminal]
    BY DEF MgrPart, MgrTypeOK
<1> DEFINE OK(t) == t \notin repeated' =>
              /\ due'[t] + going'[t] <= 1
              /\ due'[t] + going'[t] = 1 => Persisting(t)' = {} /\ recorded'[t] = {}
              /\ \A m, n \in Persisting(t)' : m = n
              /\ Persisting(t)' # {} => recorded'[t] = {}
              /\ Refusing(t)' =>
                    due'[t] + going'[t] = 0 /\ Persisting(t)' = {} /\ recorded'[t] = {}
              /\ \A s \in recorded'[t] : store'[t].status = s
(* A task the step leaves alone. *)
<1>s. ASSUME NEW t \in Tasks, t \notin repeated' => t \notin repeated,
             due'[t] = due[t], going'[t] = going[t], recorded'[t] = recorded[t],
             Persisting(t)' \subseteq Persisting(t), Refusing(t)' => Refusing(t),
             store'[t].status = store[t].status
      PROVE  OK(t)
    BY <1>s DEF OnceInv
<1>1. ASSUME UNCHANGED managerVars, NEW t \in Tasks PROVE OK(t)
    <2>1. Persisting(t)' = Persisting(t) /\ (Refusing(t)' <=> Refusing(t))
        BY <1>1 DEF managerVars, mgrVars, Persisting, Refusing
    <2> QED BY <1>s, <1>1, <2>1 DEF managerVars, mgrVars, execVars
<1>2. ASSUME NEW x \in Tasks,
             \/ Submit(x) \/ SubmitUnanswered(x) \/ CreateOnly(x)
             \/ DispatchRefused(x) \/ RefusalStored(x) \/ SentAgain(x),
             NEW t \in Tasks
      PROVE  OK(t)
    <2>1. \A y \in Tasks : Persisting(y)' = Persisting(y)
        <3>1. UNCHANGED loops
            BY <1>2 DEF Submit, SubmitUnanswered, CreateOnly, DispatchRefused, RefusalStored, SentAgain
        <3> QED BY <3>1 DEF Persisting
    <2>2. CASE t # x
        <3>1. /\ due'[t] = due[t] /\ going'[t] = going[t] /\ recorded'[t] = recorded[t]
              /\ req'[t] = req[t] /\ store'[t] = store[t]
              /\ t \notin repeated' => t \notin repeated
            BY <1>0, <1>2, <2>2 DEF Submit, SubmitUnanswered, CreateOnly, DispatchRefused, RefusalStored,
               SentAgain, SubmitAccepted, SubmitCreate, Create, SubmitRefused, SubmitFail, SetStatus,
               mgrVars, execVars
        <3>2. Refusing(t)' => Refusing(t)
            BY <3>1 DEF Refusing
        <3> HIDE DEF OK
        <3> QED BY <1>s, <2>1, <3>1, <3>2
    <2>3. CASE Submit(x) \/ SubmitUnanswered(x) \/ CreateOnly(x)
        <3>1. /\ ~Exists(x) /\ UNCHANGED <<going, recorded, repeated>>
              /\ (due' = [due EXCEPT ![x] = 1] /\ req'[x].pc = "done") \/ due' = due
            BY <1>0, <2>3 DEF Submit, SubmitUnanswered, CreateOnly, SubmitAccepted, SubmitCreate, Create,
               execVars, ReqState
        <3>2. due[x] = 0 /\ going[x] = 0 /\ recorded[x] = {} /\ Persisting(x) = {}
            BY <1>0, <3>1, SMT DEF ManagerInv, Persisting
        <3>3. due'[x] \in {0, 1} /\ (due'[x] = 1 => ~Refusing(x)')
            BY <1>0, <3>1, <3>2 DEF Refusing
        <3>4. OK(x)
            BY <2>1, <3>1, <3>2, <3>3, SMT
        <3> HIDE DEF OK
        <3> QED BY <2>2, <3>4
    <2>4. CASE DispatchRefused(x)
        <3>1. /\ Refusing(x) /\ UNCHANGED <<store, going, recorded>>
              /\ x \notin repeated' => due' = due /\ x \notin repeated
            BY <2>4 DEF DispatchRefused, SubmitRefused, Refusing
        <3>2. OK(x)
            BY <2>1, <3>1 DEF OnceInv
        <3> HIDE DEF OK
        <3> QED BY <2>2, <3>2
    <2>5. CASE RefusalStored(x)
        <3>1. /\ Refusing(x) /\ UNCHANGED <<due, going, repeated>> /\ Exists(x)
              /\ recorded' = [recorded EXCEPT ![x] = @ \cup {"failed"}]
              /\ req'[x].pc = "done" /\ SetStatus(x, "failed")
            BY <1>0, <2>5 DEF RefusalStored, SubmitFail, Refusing, ManagerInv, execVars, ReqState
        <3>2. store'[x].status = "failed" /\ ~Refusing(x)'
            BY <1>0, <3>1 DEF SetStatus, Row, Refusing
        <3>3. recorded'[x] = recorded[x] \cup {"failed"}
            BY <1>0, <3>1
        <3>4. x \notin repeated => due[x] + going[x] = 0 /\ Persisting(x) = {} /\ recorded[x] = {}
            BY <3>1 DEF OnceInv
        <3>5. OK(x)
            <4>1. x \notin repeated' => /\ due'[x] + going'[x] = 0 /\ Persisting(x)' = {}
                                        /\ recorded'[x] = {"failed"}
                BY <2>1, <3>1, <3>3, <3>4
            <4> QED BY <3>2, <4>1
        <3> HIDE DEF OK
        <3> QED BY <2>2, <3>5
    <2>6. CASE SentAgain(x)
        <3>1. x \in repeated'
            BY <2>6 DEF SentAgain
        <3> HIDE DEF OK
        <3>2. OK(x)
            BY <3>1 DEF OK
        <3> QED BY <2>2, <3>2
    <2> QED BY <1>2, <2>3, <2>4, <2>5, <2>6
<1>3. ASSUME NEW m \in Managers, NEW x \in Tasks, WorkerEvent(m, x), NEW t \in Tasks
      PROVE  OK(t)
    <2> PICK s \in TaskStatus :
              /\ loops' = [loops EXCEPT ![m] = Received(StatusEvent(x, s))]
              /\ loops[m].pc = "receive"
              /\ UNCHANGED <<store, req, loop, repeated, recorded>>
              /\ \/ /\ s \notin Terminal /\ due[x] > 0
                    /\ due' = [due EXCEPT ![x] = @ - 1] /\ going' = [going EXCEPT ![x] = @ + 1]
                 \/ /\ s \in Terminal /\ going[x] > 0
                    /\ due' = due /\ going' = [going EXCEPT ![x] = @ - 1]
        BY <1>3, WorkerEventStep
    <2>1. Persisting(t)' =
              IF t = x /\ s \in Terminal THEN Persisting(t) \cup {m} ELSE Persisting(t)
        BY <1>0, PersistingStep
    <2>2. Refusing(t)' <=> Refusing(t)
        BY DEF Refusing
    <2>3. CASE t # x
        <3>1. due'[t] = due[t] /\ going'[t] = going[t] /\ Persisting(t)' = Persisting(t)
            BY <1>0, <2>1, <2>3
        <3> QED BY <1>s, <2>2, <3>1
    <2>4. CASE t = x /\ t \notin repeated
        <3>0. /\ due[x] \in Nat /\ going[x] \in Nat /\ due[x] + going[x] <= 1
              /\ Refusing(x) => due[x] + going[x] = 0
            BY <1>0, <2>4 DEF OnceInv
        <3>1. due[x] + going[x] = 1
            BY <3>0, SMT
        <3>2. Persisting(x) = {} /\ recorded[x] = {} /\ ~Refusing(x)
            BY <2>4, <3>1, <3>0 DEF OnceInv
        <3>3. /\ s \notin Terminal => due'[x] + going'[x] = 1
              /\ s \in Terminal => due'[x] + going'[x] = 0
            BY <1>0, <3>0, <3>1, SMT
        <3> QED BY <2>1, <2>2, <2>4, <3>2, <3>3
    <2>5. CASE t \in repeated
        BY <2>5
    <2> QED BY <2>3, <2>4, <2>5
<1>4. ASSUME NEW m \in Managers, Persist(m), NEW t \in Tasks PROVE OK(t)
    <2> DEFINE ev == loops[m].ev
    <2>1. /\ loops[m].pc = "persist" /\ UNCHANGED <<req, due, going, repeated>>
          /\ SetStatus(ev.task, ev.status)
          /\ recorded' = [recorded EXCEPT ![ev.task] = @ \cup {ev.status}]
        BY <1>4 DEF Persist, execVars
    <2>2. ev.task \in Tasks /\ Exists(ev.task) /\ m \in Persisting(ev.task)
        BY <1>0, <2>1 DEF LoopType, Event, ManagerInv, Persisting
    <2>3. Persisting(t)' = Persisting(t) \ {m} /\ (Refusing(t)' <=> Refusing(t))
        BY <1>0, <1>4, <2>1, PersistingStep DEF Refusing
    <2> HIDE DEF ev
    <2>4. CASE t # ev.task
        <3>1. store'[t] = store[t] /\ recorded'[t] = recorded[t]
            BY <1>0, <2>1, <2>2, <2>4 DEF SetStatus
        <3> QED BY <1>s, <2>1, <2>3, <3>1
    <2>5. CASE t = ev.task /\ t \notin repeated
        <3>1. store'[t].status = ev.status
            BY <1>0, <2>1, <2>2, <2>5 DEF SetStatus, Row
        <3>2. /\ \A n \in Persisting(t) : n = m
              /\ recorded[t] = {} /\ due[t] + going[t] <= 1 /\ due[t] + going[t] # 1 /\ ~Refusing(t)
            BY <2>2, <2>5 DEF OnceInv
        <3>3. recorded'[t] = {ev.status} /\ Persisting(t)' = {}
            BY <1>0, <2>1, <2>3, <2>5, <3>2
        <3> QED BY <2>1, <2>3, <3>1, <3>2, <3>3
    <2>6. CASE t \in repeated
        BY <2>1, <2>6
    <2> QED BY <2>4, <2>5, <2>6
<1>5. ASSUME NEW m \in Managers, PublishEvent(m) \/ ManagerCrash(m), NEW t \in Tasks PROVE OK(t)
    <2>1. UNCHANGED <<store, req, recorded, due, going, repeated>>
        BY <1>5 DEF PublishEvent, ManagerCrash, mgrVars, execVars
    <2>2. Persisting(t)' \subseteq Persisting(t) /\ (Refusing(t)' <=> Refusing(t))
        BY <1>0, <1>5, <2>1, PersistingStep DEF Refusing
    <2> QED BY <1>s, <2>1, <2>2
<1> HIDE DEF OK
<1>6. \A t \in Tasks : OK(t)
    BY <1>1, <1>2, <1>3, <1>4, <1>5, ManagerFrame DEF ManagerStep
<1> QED BY <1>6 DEF OnceInv, OK

LEMMA PageStep == TypeOK /\ ManagerInv /\ PageInv /\ [Next]_vars => PageInv'
<1> SUFFICES ASSUME TypeOK, ManagerInv, PageInv, [Next]_vars,
                    NEW t \in Tasks, post'[t] = "sent" \/ fetch'[t] # "none"
             PROVE  Exists(t)'
    BY DEF PageInv
<1>0. \A x \in Tasks : Exists(x) => Exists(x)'
    BY StoreStep DEF TypeOK, MgrPart, LoopType
<1>1. CASE post[t] = "sent" \/ fetch[t] # "none"
    BY <1>0, <1>1 DEF PageInv
<1>2. CASE ~(post[t] = "sent" \/ fetch[t] # "none")
    <2>0. /\ post \in [Tasks -> {"none", "sent", "shown"}]
          /\ fetch \in [Tasks -> Shown \cup {"none", "asked"}]
          /\ ~UNCHANGED <<post, fetch>>
        BY <1>2 DEF TypeOK
    <2>1. \/ \E x \in Tasks : \/ Submit(x) \/ InsertCard(x) \/ GetTask(x)
                              \/ GetTaskFails(x) \/ SyncFails(x) \/ SyncCardState(x)
          \/ Index
        BY <2>0 DEF Next, System, vars, pageVars, BridgeStream, StreamEvents, ServerSubscribe,
           ClientSubscribe, NATSSubscribe, StreamWithReconnect, ClientReturns, NATSBreak, Connected,
           Broken, Taken, Offered, Pump, PageConnect, PageBreak, HandleTaskStatus, SubmitUnanswered,
           CreateOnly, DispatchRefused, RefusalStored, SentAgain, WorkerEvent, Persist, PublishEvent,
           ManagerCrash
    <2>2. ~Index
        BY <1>2 DEF Index
    <2>3. ASSUME NEW x \in Tasks,
                 \/ InsertCard(x) \/ GetTask(x) \/ GetTaskFails(x) \/ SyncFails(x)
                 \/ SyncCardState(x)
          PROVE  FALSE
        BY <1>2, <2>0, <2>3 DEF InsertCard, GetTask, GetTaskFails, SyncFails, SyncCardState, Shown,
           TaskStatus
    <2>4. ASSUME NEW x \in Tasks, Submit(x), x # t PROVE FALSE
        BY <1>2, <2>0, <2>4 DEF Submit
    <2>5. Submit(t)
        BY <2>1, <2>2, <2>3, <2>4
    <2> QED BY <2>5 DEF Submit, SubmitAccepted, Exists, TypeOK, MgrTypeOK
<1> QED BY <1>1, <1>2

-----------------------------------------------------------------------------
(* The types.                                                              *)

LEMMA TypeInit == Init => TypeOK
<1> SUFFICES ASSUME Init PROVE TypeOK
    OBVIOUS
<1>1. MgrTypeOK
    BY MgrTypeInit DEF Init
<1>2. /\ feed \in Seq(Event) /\ Len(feed) <= FeedCap
      /\ out \in Seq(Event) /\ Len(out) <= OutCap
      /\ sseCh \in Seq(Event) /\ Len(sseCh) <= SubCap
      /\ faults \in 0..MaxFaults
    BY RelayAssumption, SMT DEF Init
<1> QED BY <1>1, <1>2 DEF Init, TypeOK

LEMMA TypeStep == TypeOK /\ ManagerInv /\ PageInv /\ [Next]_vars => TypeOK'
<1> SUFFICES ASSUME TypeOK, ManagerInv, PageInv, [Next]_vars PROVE TypeOK'
    OBVIOUS
<1> DEFINE Relay == /\ kind \in Kinds
                    /\ link \in {"down", "up", "dead"}
                    /\ feed \in Seq(Event) /\ Len(feed) <= FeedCap
                    /\ out \in Seq(Event) /\ Len(out) <= OutCap
                    /\ page \in BOOLEAN
                    /\ sseCh \in Seq(Event) /\ Len(sseCh) <= SubCap
                    /\ missed \subseteq Tasks
           Page == /\ post \in [Tasks -> {"none", "sent", "shown"}]
                   /\ card \in [Tasks -> Shown \cup {"none"}]
                   /\ fetch \in [Tasks -> Shown \cup {"none", "asked"}]
                   /\ overwritten \subseteq Tasks
                   /\ skipped \subseteq Tasks /\ unanswered \subseteq Tasks
           Count == faults \in 0..MaxFaults
<1>0. MgrPart /\ Relay /\ Page /\ Count
    BY DEF TypeOK, MgrPart, LoopType
<1>m. MgrPart'
    BY <1>0, MgrPartStep
<1>q. Relay' /\ Page' /\ Count' => TypeOK'
    BY <1>m DEF TypeOK, MgrPart, LoopType
<1>c. FeedCap \in Nat /\ OutCap \in Nat /\ SubCap \in Nat /\ MaxFaults \in Nat
    BY RelayAssumption
<1>f. Fault \/ faults' = faults => Count'
    BY <1>0, <1>c, SMT DEF Fault
<1>e. <<>> \in Seq(Event) /\ Len(<<>>) <= FeedCap /\ Len(<<>>) <= OutCap /\ Len(<<>>) <= SubCap
    BY <1>c, SMT
<1>l. \A m \in Managers : loops[m].pc # "receive" => loops[m].ev \in Event
    BY <1>0 DEF MgrPart, LoopType
<1>r. UNCHANGED <<relayVars, page, sseCh, missed>> => Relay'
    BY <1>0 DEF relayVars
<1>p. UNCHANGED <<post, card, fetch, behindVars>> => Page'
    BY <1>0 DEF behindVars
<1> HIDE DEF Relay, Page, Count
<1>1. ASSUME NEW t \in Tasks,
             \/ Submit(t) \/ SubmitUnanswered(t) \/ CreateOnly(t)
             \/ DispatchRefused(t) \/ RefusalStored(t) \/ SentAgain(t)
      PROVE  TypeOK'
    <2>1. /\ UNCHANGED <<relayVars, page, sseCh, missed, card, fetch, behindVars>>
          /\ Fault \/ faults' = faults
          /\ post' = post \/ post' = [post EXCEPT ![t] = "sent"]
        BY <1>1 DEF Submit, SubmitUnanswered, CreateOnly, DispatchRefused, RefusalStored, SentAgain,
           pageVars
    <2>2. Page'
        BY <1>0, <2>1 DEF Page, behindVars
    <2> QED BY <1>q, <1>f, <1>r, <2>1, <2>2
<1>2. ASSUME NEW m \in Managers, (\E t \in Tasks : WorkerEvent(m, t)) \/ Persist(m) PROVE TypeOK'
    <2>1. UNCHANGED <<relayVars, pageVars, missed, faults>>
        BY <1>2 DEF WorkerEvent, Persist
    <2> QED BY <1>q, <1>f, <1>r, <1>p, <2>1 DEF pageVars
<1>3. ASSUME NEW m \in Managers, PublishEvent(m) \/ ManagerCrash(m) PROVE TypeOK'
    <2> DEFINE ev == loops[m].ev
    <2>1. ev \in Event
        BY <1>3, <1>l DEF PublishEvent, ManagerCrash
    <2>2. /\ UNCHANGED <<kind, link, out, pageVars>>
          /\ Fault \/ faults' = faults
          /\ feed' = feed \/ feed' = Offer(feed, ev, FeedCap)
          /\ missed' \in {missed \cup Dropped(feed, ev, FeedCap), missed \cup Ends(<<ev>>)}
        BY <1>3 DEF PublishEvent, ManagerCrash, relayVars
    <2> HIDE DEF ev
    <2>3. feed' \in Seq(Event) /\ Len(feed') <= FeedCap
        BY <1>0, <1>c, <2>1, <2>2, OfferType DEF Relay
    <2>4. missed' \subseteq Tasks
        BY <1>0, <2>1, <2>2, DroppedType DEF Relay
    <2>5. Relay'
        BY <1>0, <2>2, <2>3, <2>4 DEF Relay, pageVars
    <2> QED BY <1>q, <1>f, <1>p, <2>2, <2>5 DEF pageVars
<1>4. CASE Connected
    <2>1. UNCHANGED <<kind, feed, out, pageVars, missed, faults>> /\ link' = "up"
        BY <1>4 DEF Connected
    <2>2. Relay'
        BY <1>0, <2>1 DEF Relay, pageVars
    <2> QED BY <1>q, <1>f, <1>p, <2>1, <2>2 DEF pageVars
<1>5. ASSUME NEW x \in {"down", "dead"}, Broken(x) PROVE TypeOK'
    <2>1. /\ UNCHANGED <<kind, out, pageVars>> /\ link' = x /\ feed' = <<>> /\ Fault
          /\ missed' = missed \cup Ends(feed)
        BY <1>5 DEF Broken
    <2>2. Relay'
        BY <1>0, <1>e, <2>1, EndsType DEF Relay, pageVars
    <2> QED BY <1>q, <1>f, <1>p, <2>1, <2>2 DEF pageVars
<1>6. CASE Taken \/ Offered
    <2>1. /\ feed # <<>> /\ feed' = Tail(feed) /\ out' = Offer(out, Head(feed), OutCap)
          /\ UNCHANGED <<kind, link, pageVars, faults>>
          /\ missed' \in {missed, missed \cup Dropped(out, Head(feed), OutCap)}
        BY <1>6 DEF Taken, Offered, Offer
    <2>2. Head(feed) \in Event /\ feed' \in Seq(Event) /\ Len(feed') <= FeedCap
        BY <1>0, <1>c, <2>1, TailType DEF Relay
    <2>3. out' \in Seq(Event) /\ Len(out') <= OutCap
        BY <1>0, <1>c, <2>1, <2>2, OfferType DEF Relay
    <2>4. missed' \subseteq Tasks
        BY <1>0, <2>1, <2>2, DroppedType DEF Relay
    <2>5. Relay'
        BY <1>0, <2>1, <2>2, <2>3, <2>4 DEF Relay, pageVars
    <2> QED BY <1>q, <1>f, <1>p, <2>1, <2>5 DEF pageVars
<1>7. CASE Pump
    <2>1. /\ out # <<>> /\ out' = Tail(out)
          /\ sseCh' = sseCh \/ sseCh' = Offer(sseCh, Head(out), SubCap)
          /\ UNCHANGED <<kind, link, feed, page, post, card, fetch, behindVars, faults>>
          /\ missed' \in {missed \cup Dropped(sseCh, Head(out), SubCap), missed \cup Ends(<<Head(out)>>)}
        BY <1>7 DEF Pump
    <2>2. Head(out) \in Event /\ out' \in Seq(Event) /\ Len(out') <= OutCap
        BY <1>0, <1>c, <2>1, TailType DEF Relay
    <2>3. sseCh' \in Seq(Event) /\ Len(sseCh') <= SubCap
        BY <1>0, <1>c, <2>1, <2>2, OfferType DEF Relay
    <2>4. missed' \subseteq Tasks
        BY <1>0, <2>1, <2>2, DroppedType DEF Relay
    <2>5. Relay'
        BY <1>0, <2>1, <2>2, <2>3, <2>4 DEF Relay
    <2> QED BY <1>q, <1>f, <1>p, <2>1, <2>5
<1>8. CASE PageConnect \/ PageBreak
    <2>1. /\ UNCHANGED <<relayVars, post, card, fetch, behindVars>> /\ page' \in BOOLEAN
          /\ sseCh' \in {sseCh, <<>>} /\ missed' \in {missed, missed \cup Ends(sseCh)}
          /\ Fault \/ faults' = faults
        BY <1>8 DEF PageConnect, PageBreak
    <2>2. Relay'
        BY <1>0, <1>e, <2>1, EndsType DEF Relay, relayVars
    <2> QED BY <1>q, <1>f, <1>p, <2>1, <2>2
<1>9. CASE HandleTaskStatus
    <2> DEFINE ev == Head(sseCh)
    <2>1. /\ sseCh # <<>> /\ sseCh' = Tail(sseCh)
          /\ UNCHANGED <<relayVars, page, post, fetch, unanswered, missed, faults>>
          /\ \/ skipped' = skipped \cup Ends(<<ev>>) /\ UNCHANGED <<card, overwritten>>
             \/ SetCard(ev.task, ev.status) /\ UNCHANGED skipped
        BY <1>9 DEF HandleTaskStatus
    <2>2. ev \in Event /\ sseCh' \in Seq(Event) /\ Len(sseCh') <= SubCap
        BY <1>0, <1>c, <2>1, TailType DEF Relay
    <2> HIDE DEF ev
    <2>3. ev.task \in Tasks /\ ev.status \in Shown \cup {"none"} /\ Ends(<<ev>>) \subseteq Tasks
        BY <2>2, DroppedType DEF Event, Shown
    <2>4. Page'
        BY <1>0, <2>1, <2>3 DEF Page, SetCard
    <2>5. Relay'
        BY <1>0, <2>1, <2>2 DEF Relay, relayVars
    <2> QED BY <1>q, <1>f, <2>1, <2>4, <2>5
<1>10. ASSUME NEW t \in Tasks,
              InsertCard(t) \/ GetTask(t) \/ GetTaskFails(t) \/ SyncFails(t) \/ SyncCardState(t)
       PROVE  TypeOK'
    <2>1. UNCHANGED <<relayVars, page, sseCh, missed>> /\ (Fault \/ faults' = faults)
        BY <1>10 DEF InsertCard, GetTask, GetTaskFails, SyncFails, SyncCardState
    <2>2. GetTask(t) => store[t].status \in Shown
        BY <1>0 DEF PageInv, GetTask, Exists, MgrPart, MgrTypeOK, Row, Shown
    <2>3. Page'
        BY <1>0, <1>10, <2>2
           DEF Page, InsertCard, GetTask, GetTaskFails, SyncFails, SyncCardState, SetCard, behindVars,
               Shown, TaskStatus
    <2> QED BY <1>q, <1>f, <1>r, <2>1, <2>3
<1>11. CASE Index
    <2>1. \A t \in Tasks : Exists(t) => store[t].status \in Shown
        BY <1>0 DEF MgrPart, MgrTypeOK, Row, Exists, Shown
    <2>2. Page'
        BY <1>11, <2>1 DEF Index, Page
    <2>3. Relay'
        BY <1>0, <1>11, <1>e DEF Index, Relay, relayVars
    <2> QED BY <1>q, <1>f, <1>11, <2>2, <2>3 DEF Index
<1>12. CASE UNCHANGED vars
    BY <1>q, <1>f, <1>r, <1>p, <1>12 DEF vars, pageVars
<1> QED BY <1>1, <1>2, <1>3, <1>4, <1>5, <1>6, <1>7, <1>8, <1>9, <1>10, <1>11, <1>12
        DEF Next, System, BridgeStream, StreamEvents, ServerSubscribe, ClientSubscribe,
            NATSSubscribe, StreamWithReconnect, ClientReturns, NATSBreak

-----------------------------------------------------------------------------
(* The relay and the page.                                                 *)

LEMMA RelayStep == TypeOK /\ ManagerInv /\ RelayInv /\ [Next]_vars => RelayInv'
<1> SUFFICES ASSUME TypeOK, ManagerInv, RelayInv, [Next]_vars PROVE RelayInv'
    OBVIOUS
<1> DEFINE AllOK(ch) == \A i \in 1..Len(ch) : AgreesNext(ch[i])
           Told(t, s) == s \in Terminal => s \in recorded'[t]
<1>0. /\ feed \in Seq(Event) /\ out \in Seq(Event) /\ sseCh \in Seq(Event)
      /\ Len(feed) <= FeedCap /\ Len(out) <= OutCap /\ Len(sseCh) <= SubCap
      /\ FeedCap \in Nat /\ OutCap \in Nat /\ SubCap \in Nat
      /\ MgrPart
      /\ card \in [Tasks -> Shown \cup {"none"}] /\ fetch \in [Tasks -> Shown \cup {"none", "asked"}]
    BY RelayAssumption DEF TypeOK, MgrPart, LoopType
<1>1. AllOK(feed) /\ AllOK(out) /\ AllOK(sseCh)
    <2>1. /\ \A i \in 1..Len(feed) : feed[i] \in Event /\ Agrees(feed[i])
          /\ \A i \in 1..Len(out) : out[i] \in Event /\ Agrees(out[i])
          /\ \A i \in 1..Len(sseCh) : sseCh[i] \in Event /\ Agrees(sseCh[i])
        BY <1>0, ElementOfSeq DEF RelayInv
    <2> QED BY <1>0, <2>1, AgreesKept
<1>2. \A t \in Tasks : Told(t, card[t]) /\ Told(t, fetch[t])
    BY <1>0, StoreStep DEF RelayInv
<1> DEFINE Good == /\ AllOK(feed') /\ AllOK(out') /\ AllOK(sseCh')
                   /\ \A t \in Tasks : Told(t, card'[t]) /\ Told(t, fetch'[t])
<1>3. SUFFICES Good
    BY DEF RelayInv, Agrees, AgreesNext
<1>e. AllOK(<<>>)
    <2>1. Len(<<>>) = 0 /\ 1..0 = {}
        BY SMT
    <2> QED BY <2>1
<1>o. ASSUME NEW ch \in Seq(Event), NEW ev \in Event, NEW cap \in Nat, Len(ch) <= cap, AllOK(ch),
             AgreesNext(ev)
      PROVE  AllOK(Offer(ch, ev, cap))
    <2>1. \A i \in 1..Len(Offer(ch, ev, cap)) :
             \/ Offer(ch, ev, cap)[i] = ev
             \/ i \in 1..Len(ch) /\ Offer(ch, ev, cap)[i] = ch[i]
        BY <1>o, OfferType
    <2>2. ASSUME NEW i \in 1..Len(Offer(ch, ev, cap)) PROVE AgreesNext(Offer(ch, ev, cap)[i])
        BY <1>o, <2>1, <2>2
    <2> QED BY <2>2
<1>r. ASSUME NEW ch \in Seq(Event), ch # <<>>, AllOK(ch)
      PROVE  AllOK(Tail(ch)) /\ AgreesNext(Head(ch)) /\ Head(ch) \in Event
    BY <1>r, ReceiveElements
<1> HIDE DEF AllOK, Told
<1>4. ASSUME \/ \E t \in Tasks : \/ Submit(t) \/ SubmitUnanswered(t) \/ CreateOnly(t)
                                 \/ DispatchRefused(t) \/ RefusalStored(t) \/ SentAgain(t)
             \/ \E m \in Managers : \/ \E t \in Tasks : WorkerEvent(m, t)
                                    \/ Persist(m) \/ ManagerCrash(m)
             \/ Connected \/ UNCHANGED vars
      PROVE  Good
    <2>1. UNCHANGED <<feed, out, sseCh, card, fetch>>
        BY <1>4 DEF Submit, SubmitUnanswered, CreateOnly, DispatchRefused, RefusalStored, SentAgain,
           WorkerEvent, Persist, ManagerCrash, Connected, vars, relayVars, pageVars
    <2> QED BY <1>1, <1>2, <2>1
<1>5. ASSUME NEW m \in Managers, PublishEvent(m) PROVE Good
    <2> DEFINE ev == loops[m].ev
    <2>1. /\ loops[m].pc = "publish" /\ UNCHANGED <<out, sseCh, card, fetch>>
          /\ feed' = feed \/ feed' = Offer(feed, ev, FeedCap)
        BY <1>5 DEF PublishEvent, pageVars
    <2>2. ev \in Event /\ Agrees(ev)
        BY <1>0, <2>1 DEF MgrPart, LoopType, ManagerInv
    <2> HIDE DEF ev
    <2>3. AgreesNext(ev)
        BY <1>0, <2>2, AgreesKept
    <2>4. AllOK(feed')
        BY <1>0, <1>1, <1>o, <2>1, <2>2, <2>3
    <2> QED BY <1>1, <1>2, <2>1, <2>4
<1>6. ASSUME NEW x \in {"down", "dead"}, Broken(x) PROVE Good
    BY <1>1, <1>2, <1>6, <1>e DEF Broken, pageVars
<1>7. CASE Taken \/ Offered
    <2>1. /\ feed # <<>> /\ feed' = Tail(feed) /\ UNCHANGED <<sseCh, card, fetch>>
          /\ out' = Offer(out, Head(feed), OutCap)
        BY <1>7 DEF Taken, Offered, pageVars, Offer
    <2>2. AllOK(feed') /\ AgreesNext(Head(feed)) /\ Head(feed) \in Event
        BY <1>0, <1>1, <1>r, <2>1
    <2>3. AllOK(out')
        BY <1>0, <1>1, <1>o, <2>1, <2>2
    <2> QED BY <1>1, <1>2, <2>1, <2>2, <2>3
<1>8. CASE Pump
    <2>1. /\ out # <<>> /\ out' = Tail(out) /\ UNCHANGED <<feed, card, fetch>>
          /\ sseCh' = sseCh \/ sseCh' = Offer(sseCh, Head(out), SubCap)
        BY <1>8 DEF Pump
    <2>2. AllOK(out') /\ AgreesNext(Head(out)) /\ Head(out) \in Event
        BY <1>0, <1>1, <1>r, <2>1
    <2>3. AllOK(sseCh')
        BY <1>0, <1>1, <1>o, <2>1, <2>2
    <2> QED BY <1>1, <1>2, <2>1, <2>2, <2>3
<1>9. CASE PageConnect \/ PageBreak
    BY <1>1, <1>2, <1>9, <1>e DEF PageConnect, PageBreak, relayVars
<1>10. CASE HandleTaskStatus
    <2> DEFINE ev == Head(sseCh)
    <2>1. /\ sseCh # <<>> /\ sseCh' = Tail(sseCh) /\ UNCHANGED <<feed, out, fetch>>
          /\ card' = card \/ card' = [card EXCEPT ![ev.task] = ev.status]
        BY <1>10 DEF HandleTaskStatus, SetCard, relayVars
    <2>2. AllOK(sseCh') /\ AgreesNext(ev) /\ ev \in Event
        BY <1>0, <1>1, <1>r, <2>1
    <2> HIDE DEF ev
    <2>3. Told(ev.task, ev.status)
        BY <2>2 DEF AgreesNext, Told
    <2>4. \A t \in Tasks : Told(t, card'[t])
        BY <1>0, <1>2, <2>1, <2>3
    <2> QED BY <1>1, <1>2, <2>1, <2>2, <2>4
<1>11. ASSUME NEW x \in Tasks,
              InsertCard(x) \/ GetTask(x) \/ GetTaskFails(x) \/ SyncFails(x) \/ SyncCardState(x)
       PROVE  Good
    <2>1. UNCHANGED <<feed, out, sseCh>>
        BY <1>11 DEF InsertCard, GetTask, GetTaskFails, SyncFails, SyncCardState, relayVars
    <2>2. GetTask(x) => Told(x, store[x].status)
        BY <1>0, StoreStep DEF GetTask, managerVars, ManagerInv, Told
    <2>3. \A t \in Tasks :
             /\ card'[t] \in {card[t], "pending", fetch[t]}
             /\ \/ fetch'[t] \in {fetch[t], "asked", "undefined", "none"}
                \/ GetTask(x) /\ t = x /\ fetch'[t] = store[t].status
        BY <1>0, <1>11 DEF InsertCard, GetTask, GetTaskFails, SyncFails, SyncCardState, SetCard
    <2>4. \A t \in Tasks : /\ Told(t, "pending") /\ Told(t, "asked") /\ Told(t, "undefined")
                           /\ Told(t, "none")
        BY DEF Told, Terminal
    <2>5. \A t \in Tasks : Told(t, card'[t]) /\ Told(t, fetch'[t])
        BY <1>2, <2>2, <2>3, <2>4
    <2> QED BY <1>1, <2>1, <2>5
<1>12. CASE Index
    <2>1. UNCHANGED <<feed, out>> /\ sseCh' = <<>>
        BY <1>12 DEF Index, relayVars
    <2>2. \A t \in Tasks : card'[t] \in {"none", store[t].status} /\ fetch'[t] = "none"
        BY <1>12 DEF Index
    <2>3. \A t \in Tasks : Told(t, store[t].status) /\ Told(t, "none")
        BY <1>0, StoreStep DEF ManagerInv, Told, Terminal
    <2>4. \A t \in Tasks : Told(t, card'[t]) /\ Told(t, fetch'[t])
        BY <2>2, <2>3
    <2> QED BY <1>1, <1>e, <2>1, <2>4
<1> QED BY <1>4, <1>5, <1>6, <1>7, <1>8, <1>9, <1>10, <1>11, <1>12
        DEF Next, System, BridgeStream, StreamEvents, ServerSubscribe, ClientSubscribe,
            NATSSubscribe, StreamWithReconnect, ClientReturns, NATSBreak

-----------------------------------------------------------------------------

LEMMA InvInit == Init => ManagerInv /\ OnceInv /\ PageInv /\ RelayInv
<1> SUFFICES ASSUME Init PROVE ManagerInv /\ OnceInv /\ PageInv /\ RelayInv
    OBVIOUS
<1>1. /\ \A t \in Tasks : /\ store[t].status = "absent" /\ ~store[t].dispatchedAt
                          /\ req[t].pc = "new" /\ due[t] = 0 /\ going[t] = 0 /\ recorded[t] = {}
                          /\ fetch[t] = "none" /\ card[t] = "none" /\ post[t] = "none"
      /\ \A m \in Managers : loops[m].pc = "receive"
      /\ repeated = {}
    BY DEF Init, MgrInit, NoRow
<1>2. Len(feed) = 0 /\ Len(out) = 0 /\ Len(sseCh) = 0 /\ 1..0 = {}
    BY SMT DEF Init
<1>3. \A t \in Tasks : Persisting(t) = {} /\ ~Refusing(t)
    BY <1>1 DEF Persisting, Refusing
<1>4. ManagerInv /\ PageInv
    BY <1>1, <1>3 DEF ManagerInv, PageInv, Terminal
<1>5. OnceInv
    BY <1>1, <1>3, SMT DEF OnceInv
<1>6. RelayInv
    BY <1>1, <1>2 DEF RelayInv, Terminal
<1> QED BY <1>4, <1>5, <1>6

(* Managers, relay and page keep their types.                              *)
THEOREM TypeCorrect == Spec => []TypeOK
<1>1. TypeOK => MgrPart
    BY DEF TypeOK, MgrPart, LoopType
<1> QED BY <1>1, InvInit, TypeInit, TypeStep, ManagerInvStep, PageStep, PTL DEF Spec

(* A card shows no ending the store has not had, and none but the one it   *)
(* has of a task that is not repeated, whatever breaks between the         *)
(* managers and the page and however many managers there are.              *)
THEOREM CardTruthCorrect == Spec => []CardTruth
<1>1. TypeOK => MgrPart
    BY DEF TypeOK, MgrPart, LoopType
<1>2. OnceInv /\ RelayInv => CardTruth
    BY DEF OnceInv, RelayInv, CardTruth
<1> QED BY <1>1, <1>2, InvInit, TypeCorrect, ManagerInvStep, OnceInvStep, RelayStep, PTL DEF Spec
=============================================================================
