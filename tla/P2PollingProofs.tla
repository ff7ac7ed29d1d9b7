-------------------------- MODULE P2PollingProofs --------------------------
(***************************************************************************)
(* Theorems about pattern 2 for every number of tasks, workers and faults  *)
(* and every capacity of the channels.                                     *)
(***************************************************************************)
EXTENDS P2Polling, CoreProofs

-----------------------------------------------------------------------------
(* The places of Holders, as predicates.                                   *)

EndsOf(t) == {e \in Event : IsEndOf(e, t)}

Queued(t) == Holds(tasksCh, {t})
Answered(t) == \E w \in Workers : answer[w] = t
LateEnd(t) == late \cap EndsOf(t) # {}
EndInChan(t) == Holds(eventsCh, EndsOf(t))

(* Task t is not at two places ...                                         *)
OnePlace(t) ==
    /\ Queued(t) => ~Answered(t) /\ ~Busy(t) /\ ~LateEnd(t) /\ ~EndInChan(t) /\ ~Ended(t)
    /\ Answered(t) => ~Busy(t) /\ ~LateEnd(t) /\ ~EndInChan(t) /\ ~Ended(t)
    /\ Busy(t) => ~LateEnd(t) /\ ~EndInChan(t) /\ ~Ended(t)
    /\ LateEnd(t) => ~EndInChan(t) /\ ~Ended(t)
    /\ EndInChan(t) => ~Ended(t)

(* ... nor twice at one.                                                   *)
NoDuplicates ==
    \A t \in Tasks :
        /\ HoldsOne(tasksCh, {t})
        /\ \A v, w \in Workers : answer[v] = t /\ answer[w] = t => v = w
        /\ \A d, e \in late : IsEndOf(d, t) /\ IsEndOf(e, t) => d = e
        /\ HoldsOne(eventsCh, EndsOf(t))

Somewhere(t) ==
    Queued(t) \/ Answered(t) \/ Busy(t) \/ LateEnd(t) \/ EndInChan(t) \/ Ended(t)

(* A task that is somewhere has a row, and one that has a row and is       *)
(* nowhere was hit by a fault.                                             *)
Accounted(t) ==
    /\ Somewhere(t) => Known(t)
    /\ Exists(t) => Known(t) /\ (Somewhere(t) \/ t \in hit)

Placed == \A t \in Tasks : OnePlace(t) /\ Accounted(t)

(* A run executes the task it is named after and waits for the answer to a *)
(* POST only where it emits; a request outlives its client only by a       *)
(* fault, so that dropping it loses no other task.                         *)
OwnRun ==
    /\ \A t \in Tasks : /\ Busy(t) => run[t].task = t
                        /\ posting[t] => run[t].pc \in EmitPc
    /\ \A e \in late : e.task \in hit

CustodyInv == Placed /\ NoDuplicates /\ OwnRun

(* The step leaves task t where it is.                                     *)
Stays(t) ==
    /\ Queued(t)' <=> Queued(t)
    /\ Answered(t)' <=> Answered(t)
    /\ Busy(t)' <=> Busy(t)
    /\ LateEnd(t)' <=> LateEnd(t)
    /\ EndInChan(t)' <=> EndInChan(t)
    /\ Ended(t)' <=> Ended(t)
    /\ Exists(t)' => Exists(t)
    /\ Known(t) => Known(t)'

LEMMA PlacedStep ==
    ASSUME Placed, hit \subseteq hit',
           \A t \in Tasks : Stays(t) \/ (OnePlace(t)' /\ Accounted(t)')
    PROVE  Placed'
<1>1. ASSUME NEW t \in Tasks, Stays(t) PROVE OnePlace(t)' /\ Accounted(t)'
    <2>1. OnePlace(t)'
        BY <1>1 DEF Placed, Stays, OnePlace
    <2>2. Accounted(t)'
        BY <1>1 DEF Placed, Stays, Accounted, Somewhere
    <2> QED BY <2>1, <2>2
<1> QED BY <1>1 DEF Placed

(* What the type invariant says, unpacked.                                 *)
LEMMA Types ==
    ASSUME TypeOK
    PROVE  /\ MgrTypeOK /\ ExecTypeOK
           /\ store \in [Tasks -> Row] /\ run \in [Tasks -> RunState \cup {Idle, Exited}]
           /\ tasksCh \in Seq(Tasks) /\ Len(tasksCh) <= QueueSize
           /\ eventsCh \in Seq(Event) /\ Len(eventsCh) <= EventsCap
           /\ answer \in [Workers -> Tasks \cup {None}]
           /\ host \in [Tasks -> Workers \cup {None}]
           /\ posting \in [Tasks -> BOOLEAN]
           /\ late \subseteq Event
           /\ hit \subseteq Tasks /\ Cardinality(hit) <= MaxFaults
           /\ QueueSize \in Nat /\ EventsCap \in Nat /\ StageCounts \subseteq Int
           /\ Runs = Tasks /\ None \notin Tasks
BY P2Assumption DEF TypeOK, MgrTypeOK, ExecTypeOK

(* A row is as good as it was, and ended when it was.                      *)
LEMMA SameRow ==
    ASSUME NEW t \in Tasks, store'[t] = store[t]
    PROVE  /\ Ended(t)' <=> Ended(t)
           /\ Exists(t)' <=> Exists(t)
           /\ Known(t)' <=> Known(t)
BY DEF Ended, Exists, Known

-----------------------------------------------------------------------------
(* What the operators do with the places.                                  *)

(* HandleEvent's send: an ending is in the channel afterwards, and nothing *)
(* else changes there.                                                     *)
LEMMA ForwardMoves ==
    ASSUME TypeOK, NEW ev \in Event, Forward(ev)
    PROVE  /\ eventsCh' \in Seq(Event) /\ Len(eventsCh') <= EventsCap
           /\ \A t \in Tasks :
                 /\ EndInChan(t)' <=> EndInChan(t) \/ IsEndOf(ev, t)
                 /\ HoldsOne(eventsCh, EndsOf(t)) /\ ~(IsEndOf(ev, t) /\ EndInChan(t))
                       => HoldsOne(eventsCh', EndsOf(t))
<1>0. eventsCh \in Seq(Event) /\ Len(eventsCh) <= EventsCap /\ EventsCap \in Nat
    BY Types
<1>1. CASE Len(eventsCh) < EventsCap
    <2>1. eventsCh' = Append(eventsCh, ev)
        BY <1>1 DEF Forward
    <2>2. eventsCh' \in Seq(Event) /\ SentTo(eventsCh, eventsCh', ev)
        BY <1>0, <2>1, ChannelSteps
    <2>3. Len(eventsCh') <= EventsCap
        BY <1>0, <1>1, <2>1, SMT
    <2>4. ASSUME NEW t \in Tasks
          PROVE  /\ EndInChan(t)' <=> EndInChan(t) \/ IsEndOf(ev, t)
                 /\ HoldsOne(eventsCh, EndsOf(t)) /\ ~(IsEndOf(ev, t) /\ EndInChan(t))
                       => HoldsOne(eventsCh', EndsOf(t))
        <3>1. ev \in EndsOf(t) <=> IsEndOf(ev, t)
            BY DEF EndsOf
        <3>2. /\ Holds(eventsCh', EndsOf(t)) <=> Holds(eventsCh, EndsOf(t)) \/ ev \in EndsOf(t)
              /\ HoldsOne(eventsCh, EndsOf(t)) /\ ~(ev \in EndsOf(t) /\ Holds(eventsCh, EndsOf(t)))
                    => HoldsOne(eventsCh', EndsOf(t))
            BY <2>2, HoldsSent
        <3> QED BY <3>1, <3>2 DEF EndInChan, EndsOf
    <2> QED BY <2>2, <2>3, <2>4
<1>2. CASE ~(Len(eventsCh) < EventsCap)
    <2>1. eventsCh' = eventsCh /\ ~IsTerminal(ev)
        BY <1>2 DEF Forward
    <2> QED BY <1>0, <2>1 DEF EndInChan, IsEndOf, EndsOf
<1> QED BY <1>1, <1>2

(* A run whose Emit returns: it goes on unless the event was its ending.   *)
LEMMA EmitMoves ==
    ASSUME TypeOK, CustodyInv, NEW t \in Tasks, EmitDone(t)
    PROVE  /\ EmitEvent(t) \in Event /\ EmitEvent(t).task = t
           /\ Busy(t)
           /\ IF IsTerminal(EmitEvent(t)) THEN ~Busy(t)' ELSE Busy(t)' /\ run'[t].task = t
           /\ \A x \in Tasks : x # t => run'[x] = run[x] /\ ~IsEndOf(EmitEvent(t), x)
           /\ IsEndOf(EmitEvent(t), t) <=> IsTerminal(EmitEvent(t))
<1>0. ExecTypeOK /\ t \in Runs /\ Runs = Tasks
    BY Types
<1>1. /\ Busy(t) /\ EmitEvent(t).task = run[t].task
      /\ IF IsTerminal(EmitEvent(t)) THEN ~Busy(t)' ELSE Busy(t)' /\ run'[t].task = run[t].task
      /\ \A x \in Tasks : x # t => run'[x] = run[x]
    BY <1>0, EmitOutcome
<1>2. run[t].task = t
    BY <1>1 DEF CustodyInv, OwnRun
<1>3. EmitEvent(t) \in Event
    BY <1>0, EmitEventType DEF EmitDone
<1> QED BY <1>1, <1>2, <1>3 DEF IsEndOf

(* A POST that stays behind.                                               *)
LEMMA LateMoves ==
    ASSUME NEW D, D \subseteq Event, late' = late \cup D, NEW t \in Tasks
    PROVE  LateEnd(t)' <=> LateEnd(t) \/ \E e \in D : IsEndOf(e, t)
BY DEF LateEnd, EndsOf, IsEndOf

-----------------------------------------------------------------------------
(* The initial state.                                                      *)

LEMMA InitHolds == Init => TypeOK /\ CustodyInv
<1> SUFFICES ASSUME Init PROVE TypeOK /\ CustodyInv
    OBVIOUS
<1>1. MgrTypeOK /\ ExecTypeOK
    BY MgrTypeInit, ExecTypeInit DEF Init
<1>2. Cardinality({}) = 0
    BY FS_EmptySet
<1>3. TypeOK
    <2>1. /\ tasksCh \in Seq(Tasks) /\ Len(tasksCh) <= QueueSize
          /\ eventsCh \in Seq(Event) /\ Len(eventsCh) <= EventsCap
        BY P2Assumption, SMT DEF Init
    <2>2. hit \subseteq Tasks /\ Cardinality(hit) <= MaxFaults
        BY <1>2, P2Assumption, SMT DEF Init
    <2> QED BY <1>1, <2>1, <2>2 DEF Init, TypeOK
<1>4. \A t \in Tasks : ~Exists(t) /\ ~Ended(t) /\ ~Busy(t) /\ ~posting[t] /\ t \in Runs
    BY P2Assumption
    DEF Init, MgrInit, ExecInit, NoRow, Exists, Ended, Terminal, Idle, Busy, BusyPc, EmitPc
<1>5. ASSUME NEW t \in Tasks
      PROVE  /\ ~Queued(t) /\ ~Answered(t) /\ ~LateEnd(t) /\ ~EndInChan(t)
             /\ HoldsOne(tasksCh, {t}) /\ HoldsOne(eventsCh, EndsOf(t))
    <2>1. ~Queued(t) /\ ~EndInChan(t) /\ HoldsOne(tasksCh, {t}) /\ HoldsOne(eventsCh, EndsOf(t))
        BY HoldsNothing DEF Init, Queued, EndInChan
    <2>2. ~Answered(t) /\ ~LateEnd(t)
        BY P2Assumption DEF Init, Answered, LateEnd
    <2> QED BY <2>1, <2>2
<1>6. Placed
    BY <1>4, <1>5 DEF Placed, OnePlace, Accounted, Somewhere
<1>7. NoDuplicates
    BY <1>5, P2Assumption DEF NoDuplicates, Init
<1>8. OwnRun
    BY <1>4 DEF OwnRun, Init
<1> QED BY <1>3, <1>6, <1>7, <1>8 DEF CustodyInv

-----------------------------------------------------------------------------
(* One lemma per action that moves a task.                                 *)

(* A submission: the task is fresh, so it is nowhere before the step.      *)
LEMMA Fresh ==
    ASSUME CustodyInv, NEW t \in Tasks, ~Exists(t)
    PROVE  /\ ~Queued(t) /\ ~Answered(t) /\ ~Busy(t)
           /\ ~LateEnd(t) /\ ~EndInChan(t) /\ ~Ended(t)
BY DEF CustodyInv, Placed, Accounted, Somewhere, Known

LEMMA CustodySubmit ==
    ASSUME TypeOK, CustodyInv, NEW t \in Tasks, Submit(t)
    PROVE  TypeOK' /\ CustodyInv'
<1>0. /\ MgrTypeOK /\ ExecTypeOK /\ store \in [Tasks -> Row] /\ tasksCh \in Seq(Tasks)
      /\ Len(tasksCh) <= QueueSize /\ QueueSize \in Nat /\ StageCounts \subseteq Int
    BY Types
<1>a. UNCHANGED <<run, eventsCh, answer, host, posting, late, hit>>
    BY DEF Submit, DispatchOk, DispatchFull, transVars
<1>b. PICK u \in UserIDs, n \in StageCounts :
          \/ SubmitAccepted(t, u, n)
          \/ \E err \in DispatchError : SubmitRejected(t, u, n, err)
    BY DEF Submit, DispatchOk, DispatchFull, DispatchError
<1>c. n \in Int
    BY <1>0
<1>1. /\ \A x \in Tasks : x # t => store'[x] = store[x]
      /\ ~Exists(t) /\ Known(t)'
    BY <1>0, <1>b, <1>c, RowsOfSubmitOnce
<1>2. MgrTypeOK'
    BY <1>0, <1>b, <1>c, MgrTypeSubmitOnce
<1>3. /\ ~Queued(t) /\ ~Answered(t) /\ ~Busy(t) /\ ~LateEnd(t) /\ ~EndInChan(t)
    BY <1>1, Fresh
<1>4. \A x \in Tasks : /\ Answered(x)' <=> Answered(x)
                       /\ Busy(x)' <=> Busy(x)
                       /\ LateEnd(x)' <=> LateEnd(x)
                       /\ EndInChan(x)' <=> EndInChan(x)
                       /\ Exists(x)' => Exists(x) \/ x = t
    BY <1>a, <1>1 DEF Answered, Busy, LateEnd, EndInChan, EndsOf, IsEndOf, Exists
<1>5. OwnRun'
    BY <1>a DEF CustodyInv, OwnRun, Busy
<1>6. CASE DispatchOk(t)
    <2>1. tasksCh' = Append(tasksCh, t) /\ Len(tasksCh) < QueueSize
        BY <1>6 DEF DispatchOk
    <2>2. tasksCh' \in Seq(Tasks) /\ SentTo(tasksCh, tasksCh', t)
        BY <1>0, <2>1, ChannelSteps
    <2>3. Len(tasksCh') <= QueueSize
        BY <1>0, <2>1, SMT
    <2>4. ASSUME NEW x \in Tasks
          PROVE  /\ Queued(x)' <=> Queued(x) \/ x = t
                 /\ HoldsOne(tasksCh', {x})
        <3>1. HoldsOne(tasksCh, {x})
            BY DEF CustodyInv, NoDuplicates
        <3>2. /\ Holds(tasksCh', {x}) <=> Holds(tasksCh, {x}) \/ t \in {x}
              /\ ~(t \in {x} /\ Holds(tasksCh, {x})) => HoldsOne(tasksCh', {x})
            BY <2>2, <3>1, HoldsSent
        <3> QED BY <1>3, <3>2 DEF Queued
    <2>5. ~Ended(t)'
        <3>1. PICK v \in UserIDs, k \in StageCounts : SubmitAccepted(t, v, k)
            BY <1>6 DEF DispatchOk
        <3> QED BY <1>0, <3>1 DEF SubmitAccepted, Ended, Terminal
    <2>6. OnePlace(t)' /\ Accounted(t)'
        <3>1. OnePlace(t)'
            BY <1>3, <1>4, <2>4, <2>5 DEF OnePlace
        <3>2. Accounted(t)'
            BY <1>1, <2>4 DEF Accounted, Somewhere
        <3> QED BY <3>1, <3>2
    <2>7. ASSUME NEW x \in Tasks, x # t PROVE Stays(x)
        BY <2>7, <1>1, <1>4, <2>4, SameRow DEF Stays
    <2>8. Placed'
        BY <1>a, <2>6, <2>7, PlacedStep DEF CustodyInv
    <2>9. NoDuplicates'
        BY <1>a, <2>4 DEF CustodyInv, NoDuplicates, EndsOf, IsEndOf
    <2>10. TypeOK'
        BY <1>a, <1>2, <2>2, <2>3 DEF TypeOK, ExecTypeOK
    <2> QED BY <1>5, <2>8, <2>9, <2>10 DEF CustodyInv
<1>7. CASE DispatchFull(t)
    <2>1. tasksCh' = tasksCh
        BY <1>7 DEF DispatchFull, transVars
    <2>2. \A x \in Tasks : Queued(x)' <=> Queued(x)
        BY <2>1 DEF Queued
    <2>3. Ended(t)'
        <3>1. PICK v \in UserIDs, k \in StageCounts : SubmitRejected(t, v, k, "ErrDispatchFull")
            BY <1>7 DEF DispatchFull
        <3> QED BY <1>0, <3>1 DEF SubmitRejected, Ended, Terminal
    <2>4. OnePlace(t)' /\ Accounted(t)'
        <3>1. OnePlace(t)'
            BY <1>3, <1>4, <2>2 DEF OnePlace
        <3>2. Accounted(t)'
            BY <1>1, <2>3 DEF Accounted, Somewhere
        <3> QED BY <3>1, <3>2
    <2>5. ASSUME NEW x \in Tasks, x # t PROVE Stays(x)
        BY <2>5, <1>1, <1>4, <2>2, SameRow DEF Stays
    <2>6. Placed'
        BY <1>a, <2>4, <2>5, PlacedStep DEF CustodyInv
    <2>7. NoDuplicates'
        BY <1>a, <2>1 DEF CustodyInv, NoDuplicates, EndsOf, IsEndOf
    <2>8. TypeOK'
        BY <1>a, <1>2, <2>1 DEF TypeOK, ExecTypeOK
    <2> QED BY <1>5, <2>6, <2>7, <2>8 DEF CustodyInv
<1> QED BY <1>6, <1>7 DEF Submit

(* GET /work/next: the head of the queue becomes the answer.               *)
LEMMA CustodyNext ==
    ASSUME TypeOK, CustodyInv, NEW w \in Workers, HandleNext(w)
    PROVE  TypeOK' /\ CustodyInv'
<1>0. /\ tasksCh \in Seq(Tasks) /\ Len(tasksCh) <= QueueSize /\ QueueSize \in Nat
      /\ answer \in [Workers -> Tasks \cup {None}] /\ None \notin Tasks
    BY Types
<1>a. /\ UNCHANGED <<mgrVars, run, eventsCh, host, posting, late, hit>>
      /\ tasksCh # <<>> /\ tasksCh' = Tail(tasksCh)
      /\ answer[w] = None /\ answer' = [answer EXCEPT ![w] = Head(tasksCh)]
    BY DEF HandleNext
<1>b. PICK t \in Tasks : t = Head(tasksCh)
    BY <1>0, <1>a, ChannelSteps
<1>1. /\ tasksCh' \in Seq(Tasks) /\ ReceivedFrom(tasksCh, tasksCh')
      /\ t = tasksCh[1] /\ answer' = [answer EXCEPT ![w] = t]
    BY <1>0, <1>a, <1>b, ChannelSteps
<1>2. Len(tasksCh') <= QueueSize
    BY <1>0, <1>1 DEF ReceivedFrom
<1>3. ASSUME NEW x \in Tasks
      PROVE  /\ Queued(x)' <=> Queued(x) /\ x # t
             /\ x = t => Queued(x)
             /\ HoldsOne(tasksCh', {x})
    <2>1. HoldsOne(tasksCh, {x})
        BY DEF CustodyInv, NoDuplicates
    <2>2. /\ Holds(tasksCh', {x}) <=> Holds(tasksCh, {x}) /\ tasksCh[1] \notin {x}
          /\ tasksCh[1] \in {x} => Holds(tasksCh, {x})
          /\ HoldsOne(tasksCh', {x})
        BY <1>1, <2>1, HoldsReceived
    <2> QED BY <1>1, <2>2 DEF Queued
<1>4. \A x \in Tasks : Answered(x)' <=> Answered(x) \/ x = t
    BY <1>0, <1>a, <1>1 DEF Answered
<1>5. \A x \in Tasks : /\ Busy(x)' <=> Busy(x)
                       /\ LateEnd(x)' <=> LateEnd(x)
                       /\ EndInChan(x)' <=> EndInChan(x)
                       /\ Ended(x)' <=> Ended(x)
                       /\ Exists(x)' <=> Exists(x)
                       /\ Known(x)' <=> Known(x)
    BY <1>a DEF Busy, LateEnd, EndInChan, EndsOf, IsEndOf, Ended, Exists, Known, mgrVars
<1>6. OnePlace(t)' /\ Accounted(t)'
    <2>1. OnePlace(t) /\ Accounted(t) /\ Queued(t)
        BY <1>1, <1>3 DEF CustodyInv, Placed
    <2>2. OnePlace(t)'
        BY <1>1, <2>1, <1>3, <1>4, <1>5 DEF OnePlace
    <2>3. Accounted(t)'
        BY <1>1, <2>1, <1>3, <1>4, <1>5 DEF Accounted, Somewhere
    <2> QED BY <2>2, <2>3
<1>7. ASSUME NEW x \in Tasks, x # t PROVE Stays(x)
    BY <1>7, <1>3, <1>4, <1>5 DEF Stays
<1>8. Placed'
    BY <1>a, <1>6, <1>7, PlacedStep DEF CustodyInv
<1>9. NoDuplicates'
    <2>1. ~Answered(t)
        BY <1>1, <1>3 DEF CustodyInv, Placed, OnePlace
    <2>2. \A x \in Tasks, v, y \in Workers : answer'[v] = x /\ answer'[y] = x => v = y
        BY <1>0, <1>1, <2>1 DEF CustodyInv, NoDuplicates, Answered
    <2> QED BY <1>a, <1>3, <2>2 DEF CustodyInv, NoDuplicates, EndsOf, IsEndOf
<1>10. OwnRun'
    BY <1>a DEF CustodyInv, OwnRun, Busy
<1>11. TypeOK'
    BY <1>0, <1>a, <1>1, <1>2 DEF TypeOK, MgrTypeOK, ExecTypeOK, mgrVars
<1> QED BY <1>8, <1>9, <1>10, <1>11 DEF CustodyInv

(* The answer leaves: to a run of its task, or lost.                       *)
LEMMA AnswerMoves ==
    ASSUME TypeOK, CustodyInv, NEW w \in Workers, NEW t \in Tasks, answer[w] = t,
           answer' = [answer EXCEPT ![w] = None]
    PROVE  /\ Answered(t) /\ ~Answered(t)'
           /\ \A x \in Tasks : x # t => (Answered(x)' <=> Answered(x))
           /\ \A x \in Tasks, u, v \in Workers : answer'[u] = x /\ answer'[v] = x => u = v
           /\ answer' \in [Workers -> Tasks \cup {None}]
<1>0. answer \in [Workers -> Tasks \cup {None}] /\ None \notin Tasks
    BY Types
<1>1. \A x \in Tasks, u, v \in Workers : answer[u] = x /\ answer[v] = x => u = v
    BY DEF CustodyInv, NoDuplicates
<1> QED BY <1>0, <1>1 DEF Answered

LEMMA CustodyReceive ==
    ASSUME TypeOK, CustodyInv, NEW w \in Workers, Receive(w)
    PROVE  TypeOK' /\ CustodyInv'
<1>b. PICK t \in Tasks : answer[w] = t
    BY Types DEF Receive, AnswerLost
<1>a. /\ UNCHANGED <<mgrVars, tasksCh, eventsCh, posting, late, hit>>
      /\ answer' = [answer EXCEPT ![w] = None]
      /\ RunStart(t, t, store[t].stages) /\ host' = [host EXCEPT ![t] = w]
    BY <1>b DEF Receive
<1>1. /\ Answered(t) /\ ~Answered(t)'
      /\ \A x \in Tasks : x # t => (Answered(x)' <=> Answered(x))
      /\ \A x \in Tasks, u, v \in Workers : answer'[u] = x /\ answer'[v] = x => u = v
      /\ answer' \in [Workers -> Tasks \cup {None}]
    BY <1>a, <1>b, AnswerMoves
<1>0. /\ ExecTypeOK /\ run \in [Tasks -> RunState \cup {Idle, Exited}]
      /\ host \in [Tasks -> Workers \cup {None}] /\ Runs = Tasks
    BY Types
<1>2. OnePlace(t) /\ Accounted(t) /\ Known(t)
    BY <1>1 DEF CustodyInv, Placed, Accounted, Somewhere
<1>3. ExecTypeOK'
    BY <1>0, <1>a, <1>1, <1>2, ExecTypeStep DEF Known
<1>4. /\ run'[t].pc = "running" /\ run'[t].task = t
      /\ \A x \in Tasks : x # t => run'[x] = run[x]
      /\ run[t].pc = "idle"
    BY <1>0, <1>a, <1>1 DEF RunStart
<1>5. /\ Busy(t)' /\ \A x \in Tasks : x # t => (Busy(x)' <=> Busy(x))
    BY <1>4 DEF Busy, BusyPc, EmitPc
<1>6. \A x \in Tasks : /\ Queued(x)' <=> Queued(x)
                       /\ LateEnd(x)' <=> LateEnd(x)
                       /\ EndInChan(x)' <=> EndInChan(x)
                       /\ Ended(x)' <=> Ended(x)
                       /\ Exists(x)' <=> Exists(x)
                       /\ Known(x)' <=> Known(x)
    BY <1>a DEF Queued, LateEnd, EndInChan, EndsOf, IsEndOf, Ended, Exists, Known, mgrVars
<1>7. OnePlace(t)' /\ Accounted(t)'
    <2>1. OnePlace(t)'
        BY <1>1, <1>2, <1>5, <1>6 DEF OnePlace
    <2>2. Accounted(t)'
        BY <1>1, <1>2, <1>5, <1>6 DEF Accounted, Somewhere, Known
    <2> QED BY <2>1, <2>2
<1>8. ASSUME NEW x \in Tasks, x # t PROVE Stays(x)
    BY <1>8, <1>1, <1>5, <1>6 DEF Stays
<1>9. Placed'
    BY <1>a, <1>7, <1>8, PlacedStep DEF CustodyInv
<1>10. NoDuplicates'
    BY <1>a, <1>1 DEF CustodyInv, NoDuplicates, EndsOf, IsEndOf
<1>11. OwnRun'
    <2>1. \A x \in Tasks : /\ Busy(x)' => run'[x].task = x
                           /\ posting'[x] => run'[x].pc \in EmitPc
        BY <1>a, <1>4, <1>5 DEF CustodyInv, OwnRun, EmitPc
    <2> QED BY <1>a, <2>1 DEF CustodyInv, OwnRun
<1>12. TypeOK'
    <2>1. host' \in [Tasks -> Workers \cup {None}]
        BY <1>0, <1>a, <1>1
    <2> QED BY <1>a, <1>1, <1>3, <2>1 DEF TypeOK, MgrTypeOK, mgrVars
<1> QED BY <1>9, <1>10, <1>11, <1>12 DEF CustodyInv

LEMMA CustodyAnswerLost ==
    ASSUME TypeOK, CustodyInv, NEW w \in Workers, AnswerLost(w)
    PROVE  TypeOK' /\ CustodyInv'
<1>b. PICK t \in Tasks : answer[w] = t
    BY Types DEF Receive, AnswerLost
<1>a. /\ UNCHANGED <<mgrVars, run, tasksCh, eventsCh, host, posting, late>>
      /\ answer' = [answer EXCEPT ![w] = None]
      /\ hit' = hit \cup {t} /\ Cardinality(hit') <= MaxFaults
    BY <1>b DEF AnswerLost, Fault
<1>1. /\ Answered(t) /\ ~Answered(t)'
      /\ \A x \in Tasks : x # t => (Answered(x)' <=> Answered(x))
      /\ \A x \in Tasks, u, v \in Workers : answer'[u] = x /\ answer'[v] = x => u = v
      /\ answer' \in [Workers -> Tasks \cup {None}]
    BY <1>a, <1>b, AnswerMoves
<1>2. OnePlace(t) /\ Accounted(t) /\ Known(t)
    BY <1>1 DEF CustodyInv, Placed, Accounted, Somewhere
<1>3. \A x \in Tasks : /\ Queued(x)' <=> Queued(x)
                       /\ Busy(x)' <=> Busy(x)
                       /\ LateEnd(x)' <=> LateEnd(x)
                       /\ EndInChan(x)' <=> EndInChan(x)
                       /\ Ended(x)' <=> Ended(x)
                       /\ Exists(x)' <=> Exists(x)
                       /\ Known(x)' <=> Known(x)
    BY <1>a DEF Queued, Busy, LateEnd, EndInChan, EndsOf, IsEndOf, Ended, Exists, Known, mgrVars
<1>4. OnePlace(t)' /\ Accounted(t)'
    <2>1. OnePlace(t)'
        BY <1>1, <1>2, <1>3 DEF OnePlace
    <2>2. Accounted(t)'
        BY <1>a, <1>1, <1>2, <1>3 DEF Accounted, Somewhere
    <2> QED BY <2>1, <2>2
<1>5. ASSUME NEW x \in Tasks, x # t PROVE Stays(x)
    BY <1>5, <1>1, <1>3 DEF Stays
<1>6. Placed'
    BY <1>a, <1>4, <1>5, PlacedStep DEF CustodyInv
<1>7. NoDuplicates'
    BY <1>a, <1>1 DEF CustodyInv, NoDuplicates, EndsOf, IsEndOf
<1>8. OwnRun'
    BY <1>a DEF CustodyInv, OwnRun, Busy
<1>9. TypeOK'
    BY <1>a, <1>1 DEF TypeOK, MgrTypeOK, ExecTypeOK, mgrVars
<1> QED BY <1>6, <1>7, <1>8, <1>9 DEF CustodyInv

(* POST /work/events of a waiting client: it fails, is left behind, or is  *)
(* handled.  The three differ in where the event goes.                     *)
LEMMA CustodyEmit ==
    ASSUME TypeOK, CustodyInv, NEW t \in Tasks,
           EmitFailed(t) \/ EmitTimeout(t) \/ HandleEvent(t)
    PROVE  TypeOK' /\ CustodyInv'
<1>0. /\ ExecTypeOK /\ Runs = Tasks /\ late \subseteq Event
      /\ posting \in [Tasks -> BOOLEAN]
      /\ eventsCh \in Seq(Event) /\ Len(eventsCh) <= EventsCap
      /\ hit \subseteq Tasks /\ Cardinality(hit) <= MaxFaults
    BY Types
<1>a. /\ UNCHANGED <<mgrVars, tasksCh, answer, host>>
      /\ posting[t] /\ EmitDone(t) /\ posting' = [posting EXCEPT ![t] = FALSE]
    BY DEF EmitFailed, EmitTimeout, HandleEvent
<1>b. PICK e \in Event : e = EmitEvent(t)
    BY <1>a, EmitMoves
<1>1. /\ e.task = t /\ Busy(t)
      /\ IF IsTerminal(e) THEN ~Busy(t)' ELSE Busy(t)' /\ run'[t].task = t
      /\ \A x \in Tasks : x # t => run'[x] = run[x] /\ ~IsEndOf(e, x)
      /\ IsEndOf(e, t) <=> IsTerminal(e)
    BY <1>a, <1>b, EmitMoves
<1>2. /\ OnePlace(t) /\ Accounted(t) /\ Known(t)
      /\ ~Queued(t) /\ ~Answered(t) /\ ~LateEnd(t) /\ ~EndInChan(t) /\ ~Ended(t)
    BY <1>1 DEF CustodyInv, Placed, Accounted, Somewhere, OnePlace
<1>3. \A x \in Tasks : /\ Queued(x)' <=> Queued(x)
                       /\ Answered(x)' <=> Answered(x)
                       /\ Ended(x)' <=> Ended(x)
                       /\ Exists(x)' <=> Exists(x)
                       /\ Known(x)' <=> Known(x)
                       /\ x # t => (Busy(x)' <=> Busy(x))
    BY <1>a, <1>1 DEF Queued, Answered, Ended, Exists, Known, Busy, mgrVars
<1>4. ExecTypeOK' /\ posting' \in [Tasks -> BOOLEAN]
    BY <1>0, <1>a, ExecTypeStep
<1>5. /\ hit \subseteq hit' /\ hit' \subseteq Tasks /\ Cardinality(hit') <= MaxFaults
      /\ t \in hit' \/ HandleEvent(t)
    BY <1>0 DEF EmitFailed, EmitTimeout, HandleEvent, Fault
<1>6. \A x \in Tasks : /\ Busy(x)' => run'[x].task = x
                       /\ posting'[x] => run'[x].pc \in EmitPc
    BY <1>0, <1>a, <1>1, <1>3 DEF CustodyInv, OwnRun
<1>7. CASE EmitFailed(t)
    <2>1. late' = late /\ eventsCh' = eventsCh /\ t \in hit'
        BY <1>7 DEF EmitFailed, Fault
    <2>2. \A x \in Tasks : (LateEnd(x)' <=> LateEnd(x)) /\ (EndInChan(x)' <=> EndInChan(x))
        BY <2>1 DEF LateEnd, EndInChan, EndsOf, IsEndOf
    <2>3. OnePlace(t)' /\ Accounted(t)'
        <3>1. OnePlace(t)'
            BY <1>2, <1>3, <2>2 DEF OnePlace
        <3>2. Accounted(t)'
            BY <1>2, <1>3, <2>1 DEF Accounted
        <3> QED BY <3>1, <3>2
    <2>4. ASSUME NEW x \in Tasks, x # t PROVE Stays(x)
        BY <2>4, <1>3, <2>2 DEF Stays
    <2>5. Placed'
        BY <1>5, <2>3, <2>4, PlacedStep DEF CustodyInv
    <2>6. NoDuplicates'
        BY <1>a, <2>1 DEF CustodyInv, NoDuplicates, EndsOf, IsEndOf
    <2>7. OwnRun'
        BY <1>5, <1>6, <2>1 DEF CustodyInv, OwnRun
    <2>8. TypeOK'
        BY <1>0, <1>a, <1>4, <1>5, <2>1 DEF TypeOK, MgrTypeOK, mgrVars
    <2> QED BY <2>5, <2>6, <2>7, <2>8 DEF CustodyInv
<1>8. CASE EmitTimeout(t)
    <2>1. late' = late \cup {e} /\ eventsCh' = eventsCh /\ t \in hit'
        BY <1>8, <1>b DEF EmitTimeout, Fault
    <2>2. \A x \in Tasks : LateEnd(x)' <=> LateEnd(x) \/ IsEndOf(e, x)
        BY <1>b, <2>1 DEF LateEnd, EndsOf, IsEndOf
    <2>3. \A x \in Tasks : EndInChan(x)' <=> EndInChan(x)
        BY <2>1 DEF EndInChan, EndsOf, IsEndOf
    <2>4. OnePlace(t)' /\ Accounted(t)'
        <3>1. OnePlace(t)'
            BY <1>1, <1>2, <1>3, <2>2, <2>3 DEF OnePlace
        <3>2. Accounted(t)'
            BY <1>2, <1>3, <2>1 DEF Accounted
        <3> QED BY <3>1, <3>2
    <2>5. ASSUME NEW x \in Tasks, x # t PROVE Stays(x)
        BY <2>5, <1>1, <1>3, <2>2, <2>3 DEF Stays
    <2>6. Placed'
        BY <1>5, <2>4, <2>5, PlacedStep DEF CustodyInv
    <2>7. NoDuplicates'
        <3>1. ASSUME NEW x \in Tasks, NEW c \in late', NEW d \in late', IsEndOf(c, x), IsEndOf(d, x)
              PROVE  c = d
            <4>1. CASE x # t
                BY <3>1, <4>1, <1>1, <2>1 DEF CustodyInv, NoDuplicates
            <4>2. CASE x = t
                <5>1. c \notin late /\ d \notin late
                    BY <3>1, <4>2, <1>0, <1>2 DEF LateEnd, EndsOf
                <5> QED BY <3>1, <5>1, <2>1
            <4> QED BY <4>1, <4>2
        <3> QED BY <1>a, <2>1, <3>1 DEF CustodyInv, NoDuplicates, EndsOf, IsEndOf
    <2>8. OwnRun'
        BY <1>1, <1>5, <1>6, <2>1 DEF CustodyInv, OwnRun
    <2>9. TypeOK'
        BY <1>0, <1>a, <1>4, <1>5, <2>1 DEF TypeOK, MgrTypeOK, mgrVars
    <2> QED BY <2>6, <2>7, <2>8, <2>9 DEF CustodyInv
<1>9. CASE HandleEvent(t)
    <2>1. late' = late /\ hit' = hit /\ Forward(e)
        BY <1>9, <1>b DEF HandleEvent
    <2>2. /\ eventsCh' \in Seq(Event) /\ Len(eventsCh') <= EventsCap
          /\ \A x \in Tasks :
                 /\ EndInChan(x)' <=> EndInChan(x) \/ IsEndOf(e, x)
                 /\ HoldsOne(eventsCh, EndsOf(x)) /\ ~(IsEndOf(e, x) /\ EndInChan(x))
                       => HoldsOne(eventsCh', EndsOf(x))
        BY <2>1, ForwardMoves
    <2>3. \A x \in Tasks : LateEnd(x)' <=> LateEnd(x)
        BY <2>1 DEF LateEnd, EndsOf, IsEndOf
    <2>4. OnePlace(t)' /\ Accounted(t)'
        <3>1. OnePlace(t)'
            BY <1>1, <1>2, <1>3, <2>2, <2>3 DEF OnePlace
        <3>2. Accounted(t)'
            BY <1>1, <1>2, <1>3, <2>2 DEF Accounted, Somewhere
        <3> QED BY <3>1, <3>2
    <2>5. ASSUME NEW x \in Tasks, x # t PROVE Stays(x)
        BY <2>5, <1>1, <1>3, <2>2, <2>3 DEF Stays
    <2>6. Placed'
        BY <1>5, <2>4, <2>5, PlacedStep DEF CustodyInv
    <2>7. NoDuplicates'
        <3>1. \A x \in Tasks : HoldsOne(eventsCh', EndsOf(x))
            BY <1>1, <1>2, <2>2 DEF CustodyInv, NoDuplicates
        <3> QED BY <1>a, <2>1, <3>1 DEF CustodyInv, NoDuplicates, EndsOf, IsEndOf
    <2>8. OwnRun'
        BY <1>6, <2>1 DEF CustodyInv, OwnRun
    <2>9. TypeOK'
        BY <1>0, <1>a, <1>4, <2>1, <2>2 DEF TypeOK, MgrTypeOK, mgrVars
    <2> QED BY <2>6, <2>7, <2>8, <2>9 DEF CustodyInv
<1> QED BY <1>7, <1>8, <1>9

(* A request whose client is gone is forwarded or dropped.                 *)
LEMMA CustodyLate ==
    ASSUME TypeOK, CustodyInv, NEW ev \in late, HandleLate(ev) \/ DropLate(ev)
    PROVE  TypeOK' /\ CustodyInv'
<1>0. /\ late \subseteq Event /\ ev \in Event /\ ev.task \in Tasks
      /\ eventsCh \in Seq(Event) /\ Len(eventsCh) <= EventsCap
    BY Types DEF Event
<1>a. /\ UNCHANGED <<mgrVars, run, tasksCh, answer, host, posting, hit>>
      /\ late' = late \ {ev}
    BY DEF HandleLate, DropLate
<1>1. ASSUME NEW x \in Tasks
      PROVE  /\ LateEnd(x)' <=> LateEnd(x) /\ ~IsEndOf(ev, x)
             /\ IsEndOf(ev, x) => LateEnd(x) /\ x \in hit
    <2>1. IsEndOf(ev, x) => \A d \in late : IsEndOf(d, x) => d = ev
        BY DEF CustodyInv, NoDuplicates
    <2>2. IsEndOf(ev, x) => x \in hit
        BY DEF CustodyInv, OwnRun, IsEndOf
    <2>3. IsEndOf(ev, x) => LateEnd(x)
        BY <1>0 DEF LateEnd, EndsOf
    <2>4. CASE IsEndOf(ev, x)
        <3>1. ~LateEnd(x)'
            BY <2>1, <2>4, <1>a DEF LateEnd, EndsOf, IsEndOf
        <3> QED BY <3>1, <2>2, <2>3, <2>4
    <2>5. CASE ~IsEndOf(ev, x)
        BY <2>5, <1>a DEF LateEnd, EndsOf, IsEndOf
    <2> QED BY <2>4, <2>5
<1>2. \A x \in Tasks : /\ Queued(x)' <=> Queued(x)
                       /\ Answered(x)' <=> Answered(x)
                       /\ Busy(x)' <=> Busy(x)
                       /\ Ended(x)' <=> Ended(x)
                       /\ Exists(x)' <=> Exists(x)
                       /\ Known(x)' <=> Known(x)
    BY <1>a DEF Queued, Answered, Busy, Ended, Exists, Known, mgrVars
<1>3. /\ eventsCh' \in Seq(Event) /\ Len(eventsCh') <= EventsCap
      /\ \A x \in Tasks :
             /\ ~IsEndOf(ev, x) => (EndInChan(x)' <=> EndInChan(x))
             /\ HoldsOne(eventsCh', EndsOf(x))
    <2>1. \A x \in Tasks : /\ HoldsOne(eventsCh, EndsOf(x))
                           /\ IsEndOf(ev, x) => ~EndInChan(x)
        BY <1>1 DEF CustodyInv, Placed, OnePlace, NoDuplicates
    <2>2. CASE HandleLate(ev)
        <3>1. Forward(ev)
            BY <2>2 DEF HandleLate
        <3> QED BY <1>0, <2>1, <3>1, ForwardMoves
    <2>3. CASE DropLate(ev)
        <3>1. eventsCh' = eventsCh
            BY <2>3 DEF DropLate
        <3> QED BY <1>0, <2>1, <3>1 DEF EndInChan, EndsOf, IsEndOf
    <2> QED BY <2>2, <2>3
<1>4. ASSUME NEW x \in Tasks PROVE Stays(x) \/ (OnePlace(x)' /\ Accounted(x)')
    <2>1. CASE IsEndOf(ev, x)
        <3>1. OnePlace(x) /\ Accounted(x) /\ LateEnd(x) /\ ~LateEnd(x)' /\ x \in hit
            BY <2>1, <1>1 DEF CustodyInv, Placed
        <3>2. OnePlace(x)'
            BY <3>1, <1>2 DEF OnePlace
        <3>3. Accounted(x)'
            BY <3>1, <1>a, <1>2 DEF Accounted, Somewhere
        <3> QED BY <3>2, <3>3
    <2>2. CASE ~IsEndOf(ev, x)
        BY <2>2, <1>1, <1>2, <1>3 DEF Stays
    <2> QED BY <2>1, <2>2
<1>5. Placed'
    BY <1>a, <1>4, PlacedStep DEF CustodyInv
<1>6. NoDuplicates'
    BY <1>a, <1>3 DEF CustodyInv, NoDuplicates, EndsOf, IsEndOf
<1>7. OwnRun'
    BY <1>a DEF CustodyInv, OwnRun, Busy
<1>8. TypeOK'
    BY <1>0, <1>a, <1>3 DEF TypeOK, MgrTypeOK, ExecTypeOK, mgrVars
<1> QED BY <1>5, <1>6, <1>7, <1>8 DEF CustodyInv

(* The steps of a run between two exchanges.                               *)
LEMMA CustodyRun ==
    ASSUME TypeOK, CustodyInv, NEW t \in Tasks, EmitPost(t) \/ Stage(t)
    PROVE  TypeOK' /\ CustodyInv'
<1>0. /\ ExecTypeOK /\ run \in [Tasks -> RunState \cup {Idle, Exited}] /\ Runs = Tasks
      /\ posting \in [Tasks -> BOOLEAN]
    BY Types
<1>a. UNCHANGED <<mgrVars, tasksCh, eventsCh, answer, host, late, hit>>
    BY DEF EmitPost, Stage, transVars
<1>1. /\ \A x \in Tasks : /\ Busy(x)' <=> Busy(x)
                          /\ Busy(x)' => run'[x].task = x
                          /\ posting'[x] => run'[x].pc \in EmitPc
      /\ ExecTypeOK' /\ posting' \in [Tasks -> BOOLEAN]
    <2>1. CASE EmitPost(t)
        <3>1. /\ run' = run /\ run[t].pc \in EmitPc
              /\ posting' = [posting EXCEPT ![t] = TRUE]
            BY <2>1 DEF EmitPost
        <3> QED BY <1>0, <3>1 DEF CustodyInv, OwnRun, Busy, ExecTypeOK
    <2>2. CASE Stage(t)
        <3>1. /\ run[t].pc = "sleep" /\ run' = [run EXCEPT ![t].pc = "end"]
              /\ posting' = posting
            BY <2>2 DEF Stage, StageSleep, transVars
        <3>2. ExecTypeOK'
            BY <1>0, <2>2, ExecTypeStep DEF Stage
        <3>3. Busy(t) /\ run[t] \in RunState
            BY <1>0, <3>1, BusyTask DEF Busy, BusyPc
        <3>4. /\ run'[t].pc = "end" /\ run'[t].task = run[t].task
              /\ \A x \in Tasks : x # t => run'[x] = run[x]
            BY <1>0, <3>1, <3>3 DEF RunState
        <3>5. Busy(t)' /\ ~posting[t]
            BY <3>1, <3>4 DEF Busy, BusyPc, EmitPc, CustodyInv, OwnRun
        <3>6. \A x \in Tasks : x # t => (Busy(x)' <=> Busy(x))
            BY <3>4 DEF Busy
        <3> QED BY <1>0, <3>1, <3>2, <3>3, <3>4, <3>5, <3>6 DEF CustodyInv, OwnRun
    <2> QED BY <2>1, <2>2
<1>2. \A x \in Tasks : Stays(x)
    BY <1>a, <1>1 DEF Stays, Queued, Answered, LateEnd, EndInChan, EndsOf, IsEndOf,
                      Ended, Exists, Known, mgrVars
<1>3. Placed'
    BY <1>a, <1>2, PlacedStep DEF CustodyInv
<1>4. NoDuplicates'
    BY <1>a DEF CustodyInv, NoDuplicates, EndsOf, IsEndOf
<1>5. OwnRun'
    BY <1>a, <1>1 DEF CustodyInv, OwnRun
<1>6. TypeOK'
    BY <1>a, <1>1 DEF TypeOK, MgrTypeOK, mgrVars
<1> QED BY <1>3, <1>4, <1>5, <1>6 DEF CustodyInv

(* A worker process ends: its runs and the answer on its way to it are     *)
(* gone, and every task that was there is hit.  A POST stays behind.       *)
LEMMA CustodyExit ==
    ASSUME TypeOK, CustodyInv, NEW w \in Workers, WorkerExit(w)
    PROVE  TypeOK' /\ CustodyInv'
<1>0. /\ ExecTypeOK /\ run \in [Tasks -> RunState \cup {Idle, Exited}] /\ Runs = Tasks
      /\ answer \in [Workers -> Tasks \cup {None}] /\ None \notin Tasks
      /\ posting \in [Tasks -> BOOLEAN] /\ late \subseteq Event /\ hit \subseteq Tasks
    BY Types
<1> DEFINE gone == {x \in AtWorker(w) : posting[x]}
           sent == {EmitEvent(x) : x \in gone}
<1>a. /\ UNCHANGED <<mgrVars, tasksCh, eventsCh, host>>
      /\ hit' = hit \cup AtWorker(w) /\ Cardinality(hit') <= MaxFaults
      /\ run' = [t \in Tasks |-> IF host[t] = w /\ Busy(t) THEN Exited ELSE run[t]]
      /\ late' = late \cup sent
      /\ posting' = [t \in Tasks |-> posting[t] /\ t \notin AtWorker(w)]
      /\ answer' = [answer EXCEPT ![w] = None]
    BY DEF WorkerExit
<1>b. \A x \in Tasks : x \in AtWorker(w) <=> (Busy(x) /\ host[x] = w) \/ answer[w] = x
    BY DEF AtWorker
<1>c. AtWorker(w) \subseteq Tasks
    BY DEF AtWorker
<1>1. ASSUME NEW x \in gone
      PROVE  /\ x \in Tasks /\ Busy(x) /\ host[x] = w
             /\ EmitEvent(x) \in Event /\ EmitEvent(x).task = x
    <2>1. x \in Tasks /\ x \in AtWorker(w) /\ posting[x]
        BY <1>c
    <2>2. run[x].pc \in EmitPc /\ Busy(x) /\ run[x].task = x
        BY <2>1 DEF CustodyInv, OwnRun, Busy, BusyPc
    <2>3. ~Answered(x)
        BY <2>1, <2>2 DEF CustodyInv, Placed, OnePlace
    <2>4. host[x] = w
        BY <1>b, <2>1, <2>3 DEF Answered
    <2>5. EmitEvent(x) \in Event
        BY <1>0, <2>1, <2>2, EmitEventType
    <2>6. EmitEvent(x).task = run[x].task
        BY DEF EmitEvent, ProgressEvent, StatusEvent
    <2> QED BY <2>1, <2>2, <2>4, <2>5, <2>6
<1>2. /\ sent \subseteq Event
      /\ \A x \in Tasks, e \in sent :
             IsEndOf(e, x) => e = EmitEvent(x) /\ Busy(x) /\ host[x] = w
      /\ \A e \in sent : e.task \in AtWorker(w)
    <2>1. ASSUME NEW e \in sent
          PROVE  /\ e \in Event /\ e.task \in AtWorker(w)
                 /\ \A x \in Tasks : IsEndOf(e, x) => e = EmitEvent(x) /\ Busy(x) /\ host[x] = w
        <3>1. PICK y \in gone : e = EmitEvent(y)
            OBVIOUS
        <3>2. /\ y \in Tasks /\ Busy(y) /\ host[y] = w
              /\ EmitEvent(y) \in Event /\ EmitEvent(y).task = y
            BY <1>1
        <3>3. y \in AtWorker(w)
            OBVIOUS
        <3> HIDE DEF gone, sent
        <3> QED BY <3>1, <3>2, <3>3 DEF IsEndOf
    <2> HIDE DEF gone, sent
    <2> QED BY <2>1
<1> HIDE DEF gone, sent
<1>3. ASSUME NEW x \in Tasks
      PROVE  LateEnd(x)' <=> LateEnd(x) \/ \E e \in sent : IsEndOf(e, x)
    BY <1>a, <1>2, LateMoves
<1>4. \A x \in Tasks : Busy(x)' <=> Busy(x) /\ host[x] # w
    <2>1. "exit" \notin BusyPc
        BY DEF BusyPc, EmitPc
    <2> QED BY <1>a, <2>1 DEF Busy, Exited
<1>5. \A x \in Tasks : Answered(x)' <=> Answered(x) /\ answer[w] # x
    <2>1. \A x \in Tasks, u, v \in Workers : answer[u] = x /\ answer[v] = x => u = v
        BY DEF CustodyInv, NoDuplicates
    <2> QED BY <1>0, <1>a, <2>1 DEF Answered
<1>6. \A x \in Tasks : /\ Queued(x)' <=> Queued(x)
                       /\ EndInChan(x)' <=> EndInChan(x)
                       /\ Ended(x)' <=> Ended(x)
                       /\ Exists(x)' <=> Exists(x)
                       /\ Known(x)' <=> Known(x)
    BY <1>a DEF Queued, EndInChan, EndsOf, IsEndOf, Ended, Exists, Known, mgrVars
<1>7. ASSUME NEW x \in Tasks PROVE Stays(x) \/ (OnePlace(x)' /\ Accounted(x)')
    <2>0. OnePlace(x) /\ Accounted(x)
        BY DEF CustodyInv, Placed
    <2>1. CASE x \in AtWorker(w)
        <3>1. answer[w] = x => Answered(x)
            BY DEF Answered
        <3>2. Known(x) /\ x \in hit'
            BY <2>0, <2>1, <3>1, <1>a, <1>b DEF Accounted, Somewhere
        <3>3. /\ ~Busy(x)' /\ ~Answered(x)'
              /\ ~Queued(x)' /\ ~EndInChan(x)' /\ ~Ended(x)'
            BY <2>0, <2>1, <3>1, <1>b, <1>4, <1>5, <1>6 DEF OnePlace
        <3>4. OnePlace(x)'
            BY <3>3 DEF OnePlace
        <3>5. Accounted(x)'
            BY <3>2, <1>6 DEF Accounted
        <3> QED BY <3>4, <3>5
    <2>2. CASE x \notin AtWorker(w)
        <3>1. ~(Busy(x) /\ host[x] = w) /\ answer[w] # x
            BY <2>2, <1>b
        <3>2. ~\E e \in sent : IsEndOf(e, x)
            BY <3>1, <1>2
        <3> QED BY <3>1, <3>2, <1>3, <1>4, <1>5, <1>6 DEF Stays
    <2> QED BY <2>1, <2>2
<1>8. Placed'
    BY <1>a, <1>7, PlacedStep DEF CustodyInv
<1>9. NoDuplicates'
    <2>1. ASSUME NEW x \in Tasks, NEW c \in late', NEW d \in late', IsEndOf(c, x), IsEndOf(d, x)
          PROVE  c = d
        <3>1. CASE Busy(x)
            <4>1. ~LateEnd(x)
                BY <3>1 DEF CustodyInv, Placed, OnePlace
            <4>2. c \notin late /\ d \notin late
                BY <2>1, <4>1, <1>0 DEF LateEnd, EndsOf
            <4> QED BY <2>1, <4>2, <1>a, <1>2
        <3>2. CASE ~Busy(x)
            <4>1. c \in late /\ d \in late
                BY <2>1, <3>2, <1>a, <1>2
            <4> QED BY <2>1, <4>1 DEF CustodyInv, NoDuplicates
        <3> QED BY <3>1, <3>2
    <2>2. \A x \in Tasks, u, v \in Workers : answer'[u] = x /\ answer'[v] = x => u = v
        BY <1>0, <1>a DEF CustodyInv, NoDuplicates
    <2> QED BY <1>a, <2>1, <2>2 DEF CustodyInv, NoDuplicates, EndsOf, IsEndOf
<1>10. OwnRun'
    <2>1. ASSUME NEW x \in Tasks, Busy(x)' PROVE run'[x].task = x
        <3>1. Busy(x) /\ run'[x] = run[x]
            BY <2>1, <1>4, <1>a
        <3> QED BY <3>1 DEF CustodyInv, OwnRun
    <2>2. ASSUME NEW x \in Tasks, posting'[x] PROVE run'[x].pc \in EmitPc
        <3>1. posting[x] /\ x \notin AtWorker(w)
            BY <2>2, <1>a
        <3>2. run'[x] = run[x]
            BY <3>1, <1>a, <1>b
        <3> QED BY <3>1, <3>2 DEF CustodyInv, OwnRun
    <2>3. \A e \in late' : e.task \in hit'
        BY <1>a, <1>2 DEF CustodyInv, OwnRun
    <2> QED BY <2>1, <2>2, <2>3 DEF OwnRun
<1>11. TypeOK'
    <2>1. run' \in [Tasks -> RunState \cup {Idle, Exited}]
        BY <1>0, <1>a
    <2>2. \A x \in Tasks : run'[x].pc \in {"start", "sleep", "end"}
                              => run'[x].stage < run'[x].total
        <3>1. \A x \in Tasks : run'[x] = Exited \/ run'[x] = run[x]
            BY <1>a
        <3>2. Exited.pc = "exit"
            BY DEF Exited
        <3> QED BY <1>0, <3>1, <3>2 DEF ExecTypeOK
    <2>3. ExecTypeOK'
        BY <1>0, <2>1, <2>2 DEF ExecTypeOK
    <2>4. posting' \in [Tasks -> BOOLEAN]
        BY <1>0, <1>a, Zenon
    <2>5. late' \subseteq Event /\ hit' \subseteq Tasks
        BY <1>0, <1>a, <1>c, <1>2
    <2>6. answer' \in [Workers -> Tasks \cup {None}]
        BY <1>0, <1>a
    <2> QED BY <1>a, <2>3, <2>4, <2>5, <2>6 DEF TypeOK, MgrTypeOK, mgrVars
<1> QED BY <1>8, <1>9, <1>10, <1>11 DEF CustodyInv

(* The event loop: an ending goes from the channel to the store.           *)
LEMMA CustodyLoop ==
    ASSUME TypeOK, CustodyInv, EventLoop
    PROVE  TypeOK' /\ CustodyInv'
<1>0. /\ MgrTypeOK /\ store \in [Tasks -> Row]
      /\ eventsCh \in Seq(Event) /\ Len(eventsCh) <= EventsCap /\ EventsCap \in Nat
    BY Types
<1>a. /\ UNCHANGED <<run, tasksCh, answer, host, posting, late, hit>>
      /\ eventsCh # <<>> /\ eventsCh' = Tail(eventsCh)
      /\ LoopIteration(Head(eventsCh))
    BY DEF EventLoop
<1>b. PICK e \in Event : e = Head(eventsCh)
    BY <1>0, <1>a, ChannelSteps
<1>1. /\ eventsCh' \in Seq(Event) /\ ReceivedFrom(eventsCh, eventsCh')
      /\ e = eventsCh[1] /\ LoopIteration(e)
    BY <1>0, <1>a, <1>b, ChannelSteps
<1>2. Len(eventsCh') <= EventsCap
    BY <1>0, <1>1 DEF ReceivedFrom
<1>3. /\ e.task \in Tasks
      /\ \A x \in Tasks : x # e.task => store'[x] = store[x]
      /\ ~IsTerminal(e) => store' = store
      /\ IsTerminal(e) /\ Exists(e.task) => store'[e.task].status \in Terminal
      /\ \A x \in Tasks : RowKept(x, store')
    BY <1>0, <1>1, RowsOfIteration
<1>4. MgrTypeOK'
    BY <1>0, <1>1, MgrTypeIteration
<1>5. ASSUME NEW x \in Tasks
      PROVE  /\ EndInChan(x)' <=> EndInChan(x) /\ ~IsEndOf(e, x)
             /\ IsEndOf(e, x) => EndInChan(x)
             /\ HoldsOne(eventsCh', EndsOf(x))
    <2>1. HoldsOne(eventsCh, EndsOf(x)) /\ (e \in EndsOf(x) <=> IsEndOf(e, x))
        BY DEF CustodyInv, NoDuplicates, EndsOf
    <2>2. /\ Holds(eventsCh', EndsOf(x)) <=> Holds(eventsCh, EndsOf(x)) /\ eventsCh[1] \notin EndsOf(x)
          /\ eventsCh[1] \in EndsOf(x) => Holds(eventsCh, EndsOf(x))
          /\ HoldsOne(eventsCh', EndsOf(x))
        BY <1>1, <2>1, HoldsReceived
    <2> QED BY <1>1, <2>1, <2>2 DEF EndInChan, EndsOf, IsEndOf
<1>6. \A x \in Tasks : /\ Queued(x)' <=> Queued(x)
                       /\ Answered(x)' <=> Answered(x)
                       /\ Busy(x)' <=> Busy(x)
                       /\ LateEnd(x)' <=> LateEnd(x)
    BY <1>a DEF Queued, Answered, Busy, LateEnd, EndsOf, IsEndOf
<1>7. ASSUME NEW x \in Tasks PROVE Stays(x) \/ (OnePlace(x)' /\ Accounted(x)')
    <2>1. CASE IsEndOf(e, x)
        <3>1. OnePlace(x) /\ Accounted(x) /\ EndInChan(x) /\ ~EndInChan(x)'
            BY <2>1, <1>5 DEF CustodyInv, Placed
        <3>2. x = e.task /\ IsTerminal(e) /\ Known(x)
            BY <2>1, <3>1 DEF IsEndOf, Accounted, Somewhere
        <3>3. Ended(x)' /\ Known(x)'
            BY <3>2, <1>3 DEF Ended, Known, Exists, RowKept
        <3>4. OnePlace(x)'
            BY <3>1, <1>6 DEF OnePlace
        <3>5. Accounted(x)'
            BY <3>3 DEF Accounted, Somewhere
        <3> QED BY <3>4, <3>5
    <2>2. CASE ~IsEndOf(e, x)
        <3>1. store'[x] = store[x]
            BY <2>2, <1>3 DEF IsEndOf
        <3> QED BY <2>2, <3>1, <1>5, <1>6, SameRow DEF Stays
    <2> QED BY <2>1, <2>2
<1>8. Placed'
    BY <1>a, <1>7, PlacedStep DEF CustodyInv
<1>9. NoDuplicates'
    BY <1>a, <1>5 DEF CustodyInv, NoDuplicates, EndsOf, IsEndOf
<1>10. OwnRun'
    BY <1>a DEF CustodyInv, OwnRun, Busy
<1>11. TypeOK'
    BY <1>a, <1>1, <1>2, <1>4 DEF TypeOK, ExecTypeOK
<1> QED BY <1>8, <1>9, <1>10, <1>11 DEF CustodyInv

-----------------------------------------------------------------------------
(* The theorems.                                                           *)

LEMMA StepHolds == TypeOK /\ CustodyInv /\ [Next]_vars => (TypeOK /\ CustodyInv)'
<1> SUFFICES ASSUME TypeOK, CustodyInv, [Next]_vars PROVE TypeOK' /\ CustodyInv'
    OBVIOUS
<1>1. ASSUME UNCHANGED vars PROVE TypeOK' /\ CustodyInv'
    <2>1. TypeOK'
        BY <1>1 DEF vars, TypeOK, MgrTypeOK, ExecTypeOK
    <2>2. \A x \in Tasks : Stays(x)
        BY <1>1 DEF vars, Stays, Queued, Answered, Busy, LateEnd, EndInChan, EndsOf, IsEndOf,
                    Ended, Exists, Known
    <2>3. Placed'
        BY <1>1, <2>2, PlacedStep DEF vars, CustodyInv
    <2>4. NoDuplicates' /\ OwnRun'
        BY <1>1 DEF vars, CustodyInv, NoDuplicates, OwnRun, EndsOf, IsEndOf, Busy
    <2> QED BY <2>1, <2>3, <2>4 DEF CustodyInv
<1>2. ASSUME NEW t \in Tasks,
             \/ Submit(t) \/ EmitPost(t) \/ HandleEvent(t) \/ Stage(t)
             \/ EmitFailed(t) \/ EmitTimeout(t)
      PROVE  TypeOK' /\ CustodyInv'
    BY <1>2, CustodySubmit, CustodyEmit, CustodyRun
<1>3. ASSUME NEW w \in Workers, HandleNext(w) \/ Receive(w) \/ AnswerLost(w) \/ WorkerExit(w)
      PROVE  TypeOK' /\ CustodyInv'
    BY <1>3, CustodyNext, CustodyReceive, CustodyAnswerLost, CustodyExit
<1>4. ASSUME NEW ev \in late, HandleLate(ev) \/ DropLate(ev)
      PROVE  TypeOK' /\ CustodyInv'
    BY <1>4, CustodyLate
<1>5. CASE EventLoop
    BY <1>5, CustodyLoop
<1> QED BY <1>1, <1>2, <1>3, <1>4, <1>5 DEF Next

(* The inductive invariant holds in every reachable state.                 *)
LEMMA Inductive == Spec => [](TypeOK /\ CustodyInv)
BY InitHolds, StepHolds, PTL DEF Spec

(* The type invariant: the tasks and the events channel never exceed their *)
(* capacities, a worker decodes only tasks of the queue, and what a client *)
(* leaves behind is an event.                                              *)
THEOREM TypeCorrect == Spec => []TypeOK
BY Inductive, PTL

(* The predicates count what Holders lists.                                *)
LEMMA CustodyFromInv == TypeOK /\ CustodyInv => Custody
<1> SUFFICES ASSUME TypeOK, CustodyInv, NEW t \in Tasks
             PROVE  /\ \A p, q \in Holders(t) : p = q
                    /\ Exists(t) /\ Holders(t) = {} => t \in hit
    BY DEF Custody
<1>0. /\ Runs = Tasks /\ late \subseteq Event /\ eventsCh \in Seq(Event)
      /\ \A i \in 1..Len(eventsCh) : eventsCh[i] \in Event
    BY Types, ChannelSteps
<1> DEFINE A == {<<"queue", i>> : i \in {j \in 1..Len(tasksCh) : tasksCh[j] = t}}
           B == {<<"answer", w>> : w \in {x \in Workers : answer[x] = t}}
           C == {<<"run", r>> : r \in {x \in Runs : Busy(x) /\ run[x].task = t}}
           D == {<<"late", ev>> : ev \in {e \in late : IsEndOf(e, t)}}
           E == {<<"event", i>> : i \in {j \in 1..Len(eventsCh) : IsEndOf(eventsCh[j], t)}}
           F == {<<"store", x>> : x \in {y \in {t} : Ended(y)}}
<1>h. Holders(t) = A \cup B \cup C \cup D \cup E \cup F
    BY DEF Holders
<1>1. (Queued(t) <=> A # {}) /\ \A p, q \in A : p = q
    <2>1. \A i, j \in 1..Len(tasksCh) : tasksCh[i] = t /\ tasksCh[j] = t => i = j
        BY DEF CustodyInv, NoDuplicates, HoldsOne
    <2> QED BY <2>1 DEF Queued, Holds
<1>2. (Answered(t) <=> B # {}) /\ \A p, q \in B : p = q
    <2>1. \A v, w \in Workers : answer[v] = t /\ answer[w] = t => v = w
        BY DEF CustodyInv, NoDuplicates
    <2> QED BY <2>1 DEF Answered
<1>3. (Busy(t) <=> C # {}) /\ \A p, q \in C : p = q
    <2>1. \A x \in Runs : Busy(x) /\ run[x].task = t <=> x = t /\ Busy(t)
        BY <1>0 DEF CustodyInv, OwnRun
    <2> QED BY <1>0, <2>1
<1>4. (LateEnd(t) <=> D # {}) /\ \A p, q \in D : p = q
    <2>1. \A d, e \in late : IsEndOf(d, t) /\ IsEndOf(e, t) => d = e
        BY DEF CustodyInv, NoDuplicates
    <2>2. LateEnd(t) <=> \E e \in late : IsEndOf(e, t)
        BY <1>0 DEF LateEnd, EndsOf
    <2> QED BY <2>1, <2>2
<1>5. (EndInChan(t) <=> E # {}) /\ \A p, q \in E : p = q
    <2>1. \A i, j \in 1..Len(eventsCh) :
             IsEndOf(eventsCh[i], t) /\ IsEndOf(eventsCh[j], t) => i = j
        BY <1>0 DEF CustodyInv, NoDuplicates, HoldsOne, EndsOf
    <2>2. EndInChan(t) <=> \E i \in 1..Len(eventsCh) : IsEndOf(eventsCh[i], t)
        BY <1>0 DEF EndInChan, Holds, EndsOf
    <2> QED BY <2>1, <2>2
<1>6. (Ended(t) <=> F # {}) /\ \A p, q \in F : p = q
    OBVIOUS
<1> HIDE DEF A, B, C, D, E, F
<1>7. OnePlace(t) /\ Accounted(t)
    BY DEF CustodyInv, Placed
<1>8. \A p, q \in Holders(t) : p = q
    BY <1>h, <1>1, <1>2, <1>3, <1>4, <1>5, <1>6, <1>7 DEF OnePlace
<1>9. Exists(t) /\ Holders(t) = {} => t \in hit
    BY <1>h, <1>1, <1>2, <1>3, <1>4, <1>5, <1>6, <1>7 DEF Accounted, Somewhere
<1> QED BY <1>8, <1>9

(* HandleNext gives a task to one worker, no late POST and no ended        *)
(* process doubles it, and a recorded task disappears only when a fault    *)
(* touched that very task: for every number of tasks, workers and faults   *)
(* and every size of the channels.                                         *)
THEOREM CustodyCorrect == Spec => []Custody
BY Inductive, CustodyFromInv, PTL
=============================================================================
