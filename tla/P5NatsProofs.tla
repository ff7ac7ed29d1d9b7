---------------------------- MODULE P5NatsProofs ----------------------------
(***************************************************************************)
(* Theorems about pattern 5 for every number of tasks, managers, workers   *)
(* and faults.                                                             *)
(***************************************************************************)
EXTENDS P5Nats, CoreProofs

-----------------------------------------------------------------------------
(* What type correctness rests on.                                         *)

(* Nobody holds a task without a row, so that Receive finds its stages.    *)
HeldTasksKnown ==
    /\ \A t \in Tasks : req[t].pc # "new" \/ owner[t] # None => Known(t)
    /\ \A t \in Tasks : stream[t] > 0 \/ store[t].dispatchedAt => Known(t)
    /\ \A w \in Workers : cb[w] # None => Known(cb[w])
    /\ \A w \in Workers : tasksCh[w] # None => Known(tasksCh[w])
    /\ \A m \in Managers : \A t \in scan[m].todo : store[t].dispatchedAt
    /\ \A m \in Managers : scan[m].pc = "stamp" =>
          scan[m].task \in Tasks /\ store[scan[m].task].dispatchedAt

(* Managers are sent nothing but endings.                                  *)
InboxEndings == \A m \in Managers : \A i \in 1..Len(inbox[m]) : IsTerminal(inbox[m][i])

TypeInv == TypeOK /\ HeldTasksKnown /\ InboxEndings

-----------------------------------------------------------------------------
(* What CopiesBounded rests on.                                            *)

(* The managers that may still send t again: the row is overdue, or their  *)
(* List kept it.  One that has just sent t clears the overdue mark next.   *)
Senders(t) ==
    {m \in Managers : \/ t \in scan[m].todo
                      \/ t \in stale /\ ~(scan[m].pc = "stamp" /\ scan[m].task = t)}

(* A request that has not been dispatched has left nothing behind, and the *)
(* request of a row with a dispatch time has been answered.                *)
RequestsInOrder ==
    \A t \in Tasks :
        /\ req[t].pc \in {"new", "dispatch"} => Copies(t) = 0 /\ ~Ended(t)
        /\ req[t].pc \in {"new", "dispatch", "stamp"} => req[t].err = "none"
        /\ store[t].dispatchedAt => req[t].pc = "done"

(* As long as nothing has failed, nothing is overdue and nobody is down.   *)
Undisturbed ==
    faults = 0 =>
        /\ stale = {}
        /\ \A m \in Managers : up[m] /\ scan[m].pc = "tick"
        /\ \A w \in Workers : ~stopping[w]
        /\ \A t \in Tasks : req[t].pc # "fail" /\ req[t].err = "none"

(* What is on its way and what may still be sent.                          *)
Budget ==
    \A t \in Tasks : Copies(t) + Cardinality(Senders(t)) <= 1 + Cardinality(Managers) * faults

InboxesFinite == \A t \in Tasks : IsFiniteSet(InInboxes(t))

(* The second half of CopiesBounded.                                       *)
ExactlyOnce ==
    \A t \in Tasks : faults = 0 /\ Dispatched(t) => Copies(t) + One(Ended(t)) = 1

CopiesInv ==
    /\ RequestsInOrder
    /\ Undisturbed
    /\ Budget
    /\ ExactlyOnce
    /\ InboxesFinite

(* SetStatus of either store, with an ending.                              *)
LEMMA RowsOfEnding ==
    ASSUME store \in [Tasks -> Row], NEW t \in Tasks, NEW s \in Terminal,
           SetStatus(t, s) \/ PgSetStatus(t, s)
    PROVE  /\ store' \in [Tasks -> Row]
           /\ \A x \in Tasks : x # t => store'[x] = store[x]
           /\ store'[t].dispatchedAt = store[t].dispatchedAt
           /\ Exists(t) => store'[t].status \in Terminal
           /\ \A x \in Tasks : RowKept(x, store')
<1> DEFINE done == store[t].completedAt \/ s \in Terminal
           ends == s \in Terminal
<1>1. done \in BOOLEAN /\ ends \in BOOLEAN
    OBVIOUS
<1>2. SetStatus(t, s) => store' = IF Exists(t)
                                  THEN [store EXCEPT ![t].status = s, ![t].completedAt = done]
                                  ELSE store
    BY DEF SetStatus
<1>3. PgSetStatus(t, s) => store' = IF Exists(t)
                                    THEN [store EXCEPT ![t].status = s, ![t].completedAt = ends]
                                    ELSE store
    BY DEF PgSetStatus
<1> HIDE DEF done, ends
<1> QED BY <1>1, <1>2, <1>3, RowsOfStatus

-----------------------------------------------------------------------------
(* Type correctness.                                                       *)

LEMMA TypeInvInit == Init => TypeInv
<1> SUFFICES ASSUME Init PROVE TypeInv
    OBVIOUS
<1>1. MgrTypeOK /\ ExecTypeOK
    BY MgrTypeInit, ExecTypeInit DEF Init
<1>2. inbox \in [Managers -> Seq(Event)]
    BY DEF Init
<1>3. TypeOK
    BY <1>1, <1>2, P5Assumption DEF Init, TypeOK, NoScan
<1>4. HeldTasksKnown
    BY SMT DEF Init, HeldTasksKnown, NoScan, MgrInit, NoRow
<1>5. InboxEndings
    <2>1. Len(<<>>) = 0 /\ 1..0 = {}
        BY SMT
    <2> QED BY <2>1 DEF Init, InboxEndings
<1> QED BY <1>3, <1>4, <1>5 DEF TypeInv

(* The steps of Submit.                                                    *)
LEMMA TypeInvSubmit ==
    ASSUME TypeInv, NEW t \in Tasks,
           (\E m \in Managers : SubmitAt(m, t)) \/ Dispatch(t) \/ DispatchFails(t) \/ Answer(t)
    PROVE  TypeInv'
<1>0. store \in [Tasks -> Row] /\ req \in [Tasks -> ReqState] /\ stream \in [Tasks -> Nat]
    BY DEF TypeInv, TypeOK, MgrTypeOK
<1>1. CASE \E m \in Managers : SubmitAt(m, t)
    <2> PICK m \in Managers : SubmitAt(m, t)
        BY <1>1
    <2>1. PICK u \in UserIDs, n \in Int : SubmitCreate(t, u, n)
        BY P5Assumption DEF SubmitAt
    <2>2. MgrTypeOK'
        BY <2>1, MgrTypeSubmit DEF TypeInv, TypeOK
    <2>3. /\ \A x \in Tasks : x # t => store'[x] = store[x]
          /\ ~store'[t].dispatchedAt /\ Known(t)' /\ ~Exists(t)
          /\ \A x \in Tasks : RowKept(x, store')
        BY <1>0, <2>1, RowsOfCreate
    <2>4. \A x \in Tasks : Known(x) => Known(x)'
        BY <2>3 DEF RowKept, Known, Exists
    <2>5. /\ \A x \in Tasks : store[x].dispatchedAt => store'[x].dispatchedAt
          /\ \A x \in Tasks : store'[x].dispatchedAt => store[x].dispatchedAt
        BY <2>3 DEF TypeInv, HeldTasksKnown, RowKept, Known
    <2>6. TypeOK'
        BY <2>2, <2>5 DEF TypeInv, TypeOK, SubmitAt, wVars, ExecTypeOK
    <2>7. HeldTasksKnown'
        <3>1. \A x \in Tasks : x # t => req'[x] = req[x]
            BY <2>1, <1>0 DEF SubmitCreate
        <3>2. \A x \in Tasks : req'[x].pc # "new" \/ owner'[x] # None => Known(x)'
            BY <3>1, <2>3, <2>4 DEF TypeInv, TypeOK, HeldTasksKnown, SubmitAt
        <3>3. \A x \in Tasks : stream'[x] > 0 \/ store'[x].dispatchedAt => Known(x)'
            BY <2>4, <2>5 DEF TypeInv, HeldTasksKnown, SubmitAt
        <3>4. /\ \A w \in Workers : cb'[w] # None => Known(cb[w])'
              /\ \A w \in Workers : tasksCh'[w] # None => Known(tasksCh[w])'
            BY <2>4 DEF TypeInv, TypeOK, HeldTasksKnown, SubmitAt, wVars
        <3> QED BY <2>5, <3>2, <3>3, <3>4 DEF TypeInv, TypeOK, HeldTasksKnown, SubmitAt
    <2> QED BY <2>6, <2>7 DEF TypeInv, InboxEndings, SubmitAt
<1>2. CASE Dispatch(t) \/ DispatchFails(t)
    <2>1. "other" \in DispatchError
        BY DEF DispatchError
    <2>2. MgrTypeOK'
        BY <1>2, <2>1, MgrTypeSubmit DEF TypeInv, TypeOK, Dispatch, DispatchFails
    <2>3. stream' = [stream EXCEPT ![t] = @ + 1] \/ stream' = stream
        BY <1>2 DEF Dispatch, DispatchFails, Publish
    <2>4. /\ req[t].pc = "dispatch" /\ \A x \in Tasks : x # t => req'[x] = req[x]
          /\ store' = store
        BY <1>2, <1>0 DEF Dispatch, DispatchFails, SubmitDispatched, SubmitRefused
    <2>5. \A x \in Tasks : Known(x) <=> Known(x)'
        BY <2>4 DEF Known, Exists
    <2>6. faults' \in 0..MaxFaults
        BY <1>2, P5Assumption, SMT DEF TypeInv, TypeOK, Dispatch, DispatchFails, Fault
    <2>7. TypeOK'
        <3>1. stream' \in [Tasks -> Nat]
            BY <1>0, <2>3
        <3> QED BY <1>2, <2>2, <2>4, <2>6, <3>1
                DEF TypeInv, TypeOK, Dispatch, DispatchFails, mVars, wVars, ExecTypeOK
    <2>8. Known(t)
        BY <2>4 DEF TypeInv, HeldTasksKnown
    <2>9. HeldTasksKnown'
        <3>1. \A x \in Tasks : req'[x].pc # "new" \/ owner'[x] # None => Known(x)'
            BY <1>2, <2>4, <2>5, <2>8
               DEF TypeInv, HeldTasksKnown, Dispatch, DispatchFails, mVars
        <3>2. \A x \in Tasks : x # t => stream'[x] = stream[x]
            BY <2>3, <1>0
        <3>3. \A x \in Tasks : stream'[x] > 0 \/ store'[x].dispatchedAt => Known(x)'
            BY <2>4, <2>5, <2>8, <3>2 DEF TypeInv, HeldTasksKnown
        <3>4. /\ \A w \in Workers : cb'[w] # None => Known(cb[w])'
              /\ \A w \in Workers : tasksCh'[w] # None => Known(tasksCh[w])'
            BY <1>2, <2>5 DEF TypeInv, TypeOK, HeldTasksKnown, Dispatch, DispatchFails, wVars
        <3> QED BY <1>2, <2>4, <3>1, <3>3, <3>4
                DEF TypeInv, TypeOK, HeldTasksKnown, Dispatch, DispatchFails, mVars
    <2> QED BY <1>2, <2>7, <2>9 DEF TypeInv, InboxEndings, Dispatch, DispatchFails, mVars
<1>3. CASE Answer(t)
    <2>1. MgrTypeOK'
        BY <1>3, MgrTypeSubmit DEF TypeInv, TypeOK, Answer
    <2>2. /\ Known(t)
          /\ \A x \in Tasks : x # t => req'[x] = req[x]
        BY <1>3, <1>0 DEF Answer, SubmitStamp, SubmitFail, TypeInv, HeldTasksKnown
    <2>3. /\ \A x \in Tasks : x # t => store'[x] = store[x]
          /\ \A x \in Tasks : RowKept(x, store')
        <3>1. CASE SubmitStamp(t)
            BY <1>0, <3>1, RowsOfStamp DEF SubmitStamp
        <3>2. CASE SubmitFail(t)
            BY <1>0, <3>2, RowsOfEnding DEF SubmitFail, Terminal
        <3> QED BY <1>3, <3>1, <3>2 DEF Answer
    <2>4. \A x \in Tasks : Known(x) => Known(x)'
        BY <2>3 DEF RowKept, Known, Exists
    <2>5. \A x \in Tasks : store[x].dispatchedAt => store'[x].dispatchedAt
        BY <2>3 DEF TypeInv, HeldTasksKnown, RowKept
    <2>6. TypeOK'
        BY <1>3, <2>1, <2>5 DEF TypeInv, TypeOK, Answer, mVars, wVars, ExecTypeOK
    <2>7. HeldTasksKnown'
        <3>1. \A x \in Tasks : req'[x].pc # "new" \/ owner'[x] # None => Known(x)'
            BY <1>3, <2>2, <2>4 DEF TypeInv, HeldTasksKnown, Answer, mVars
        <3>3. \A x \in Tasks : stream'[x] > 0 \/ store'[x].dispatchedAt => Known(x)'
            BY <1>3, <2>2, <2>3, <2>4 DEF TypeInv, HeldTasksKnown, Answer
        <3>4. /\ \A w \in Workers : cb'[w] # None => Known(cb[w])'
              /\ \A w \in Workers : tasksCh'[w] # None => Known(tasksCh[w])'
            BY <1>3, <2>4 DEF TypeInv, TypeOK, HeldTasksKnown, Answer, wVars
        <3> QED BY <1>3, <2>5, <3>1, <3>3, <3>4
                DEF TypeInv, TypeOK, HeldTasksKnown, Answer, mVars
    <2> QED BY <1>3, <2>6, <2>7 DEF TypeInv, InboxEndings, Answer, mVars
<1> QED BY <1>1, <1>2, <1>3

(* The deadline loop, the event loop and the manager processes.            *)
LEMMA TypeInvManager ==
    ASSUME TypeInv, NEW m \in Managers,
           \/ \E t \in Tasks : Expire(t) \/ ExpireEarly(t)
           \/ DeadlineTick(m) \/ DeadlineDispatch(m) \/ DeadlineStamp(m)
           \/ EventLoop(m) \/ ManagerCrash(m) \/ ManagerRestart(m)
    PROVE  TypeInv'
<1>0. /\ store \in [Tasks -> Row] /\ req \in [Tasks -> ReqState] /\ stream \in [Tasks -> Nat]
      /\ inbox \in [Managers -> Seq(Event)] /\ up \in [Managers -> BOOLEAN]
    BY DEF TypeInv, TypeOK, MgrTypeOK
<1>01. scan \in [Managers -> [pc : {"tick", "dispatch", "stamp"}, todo : SUBSET Tasks,
                              task : Tasks \cup {None}]]
    BY DEF TypeInv, TypeOK
<1>1. CASE \E t \in Tasks : Expire(t) \/ ExpireEarly(t)
    <2> PICK t \in Tasks : Expire(t) \/ ExpireEarly(t)
        BY <1>1
    <2>1. store[t].dispatchedAt /\ stale' = stale \cup {t} /\ store' = store
        BY DEF Expire, ExpireEarly, CanExpire, mgrVars
    <2>2. faults' \in 0..MaxFaults
        BY P5Assumption, SMT DEF TypeInv, TypeOK, Expire, ExpireEarly, Fault
    <2>3. stale' \subseteq {x \in Tasks : store'[x].dispatchedAt}
        BY <2>1 DEF TypeInv, TypeOK
    <2>4. TypeOK'
        BY <2>1, <2>2, <2>3 DEF TypeInv, TypeOK, Expire, ExpireEarly, mgrVars, mVars, wVars,
                                MgrTypeOK, ExecTypeOK
    <2> QED BY <2>4 DEF TypeInv, HeldTasksKnown, InboxEndings, Expire, ExpireEarly,
                        mgrVars, mVars, wVars, Known, Exists
<1>2. CASE DeadlineTick(m)
    <2>1. PgList \subseteq Tasks /\ \A t \in PgList : store[t].dispatchedAt
        BY DEF TypeInv, TypeOK, PgList
    <2> DEFINE s == [pc |-> "dispatch", todo |-> PgList, task |-> None]
    <2>2. scan' = [scan EXCEPT ![m] = s]
        BY <1>2 DEF DeadlineTick
    <2>3. s.pc = "dispatch" /\ s.todo = PgList
        OBVIOUS
    <2>4. s \in [pc : {"tick", "dispatch", "stamp"}, todo : SUBSET Tasks,
                 task : Tasks \cup {None}]
        BY <2>1
    <2> HIDE DEF s
    <2>5. TypeOK'
        BY <1>2, <1>01, <2>2, <2>4 DEF TypeInv, TypeOK, DeadlineTick, mgrVars, wVars,
                                MgrTypeOK, ExecTypeOK
    <2>6. HeldTasksKnown'
        <3>1. scan'[m] = s /\ \A x \in Managers : x # m => scan'[x] = scan[x]
            BY <1>01, <2>2
        <3>2. /\ store' = store /\ req' = req /\ stream' = stream /\ cb' = cb
              /\ tasksCh' = tasksCh /\ owner' = owner
            BY <1>2 DEF DeadlineTick, mgrVars, wVars
        <3>3. \A x \in Managers : \A t \in scan'[x].todo : store[t].dispatchedAt
            BY <2>1, <2>3, <3>1 DEF TypeInv, HeldTasksKnown
        <3>4. \A x \in Managers : scan'[x].pc = "stamp" =>
                 scan'[x].task \in Tasks /\ store[scan'[x].task].dispatchedAt
            BY <2>3, <3>1 DEF TypeInv, HeldTasksKnown
        <3> QED BY <3>2, <3>3, <3>4 DEF TypeInv, HeldTasksKnown, Known, Exists
    <2> QED BY <1>2, <2>5, <2>6 DEF TypeInv, InboxEndings, DeadlineTick
<1>3. CASE DeadlineDispatch(m)
    <2>1. PICK t \in scan[m].todo :
              /\ scan' = [scan EXCEPT ![m] = [pc |-> "stamp", todo |-> @.todo \ {t}, task |-> t]]
              /\ \/ Publish(t) /\ UNCHANGED faults
                 \/ Fault /\ UNCHANGED stream
        BY <1>3 DEF DeadlineDispatch
    <2>2. t \in Tasks /\ store[t].dispatchedAt /\ Known(t)
        BY <1>01 DEF TypeInv, HeldTasksKnown
    <2> DEFINE s == [pc |-> "stamp", todo |-> scan[m].todo \ {t}, task |-> t]
    <2>3. scan' = [scan EXCEPT ![m] = s]
        BY <2>1
    <2>4. s.pc = "stamp" /\ s.todo \subseteq scan[m].todo /\ s.task = t
        OBVIOUS
    <2>5. s \in [pc : {"tick", "dispatch", "stamp"}, todo : SUBSET Tasks,
                 task : Tasks \cup {None}]
        BY <1>01, <2>2
    <2> HIDE DEF s
    <2>6. stream' \in [Tasks -> Nat] /\ \A x \in Tasks : x # t => stream'[x] = stream[x]
        BY <1>0, <2>1, <2>2 DEF Publish
    <2>7. faults' \in 0..MaxFaults
        BY <2>1, P5Assumption, SMT DEF TypeInv, TypeOK, Fault
    <2>8. TypeOK'
        BY <1>3, <1>01, <2>3, <2>5, <2>6, <2>7
           DEF TypeInv, TypeOK, DeadlineDispatch, mgrVars, wVars, MgrTypeOK, ExecTypeOK
    <2>9. HeldTasksKnown'
        <3>1. scan'[m] = s /\ \A x \in Managers : x # m => scan'[x] = scan[x]
            BY <1>01, <2>3
        <3>2. /\ store' = store /\ req' = req /\ cb' = cb /\ tasksCh' = tasksCh
              /\ owner' = owner
            BY <1>3 DEF DeadlineDispatch, mgrVars, wVars
        <3>3. \A x \in Managers : \A y \in scan'[x].todo : store[y].dispatchedAt
            BY <2>4, <3>1 DEF TypeInv, HeldTasksKnown
        <3>4. \A x \in Managers : scan'[x].pc = "stamp" =>
                 scan'[x].task \in Tasks /\ store[scan'[x].task].dispatchedAt
            BY <2>2, <2>4, <3>1 DEF TypeInv, HeldTasksKnown
        <3>5. \A x \in Tasks : stream'[x] > 0 \/ store[x].dispatchedAt => Known(x)
            BY <2>2, <2>6 DEF TypeInv, HeldTasksKnown
        <3> QED BY <3>2, <3>3, <3>4, <3>5 DEF TypeInv, HeldTasksKnown, Known, Exists
    <2> QED BY <1>3, <2>8, <2>9 DEF TypeInv, InboxEndings, DeadlineDispatch
<1>4. CASE DeadlineStamp(m)
    <2> DEFINE t == scan[m].task
               s == IF scan[m].todo = {} THEN NoScan
                    ELSE [[scan[m] EXCEPT !.pc = "dispatch"] EXCEPT !.task = None]
    <2>1. t \in Tasks /\ store[t].dispatchedAt
        BY <1>4 DEF DeadlineStamp, TypeInv, HeldTasksKnown
    <2>2. scan' = [scan EXCEPT ![m] = s]
        BY <1>4, <1>01 DEF DeadlineStamp, Stamped
    <2>3. s.pc # "stamp" /\ s.todo \subseteq scan[m].todo
        BY <1>01 DEF NoScan
    <2>4. s \in [pc : {"tick", "dispatch", "stamp"}, todo : SUBSET Tasks,
                 task : Tasks \cup {None}]
        BY <1>01 DEF NoScan
    <2> HIDE DEF s
    <2>5. "running" \in TaskStatus /\ store' \in [Tasks -> Row]
        BY <1>4, <2>1, StoreType DEF DeadlineStamp, TypeInv, TypeOK, TaskStatus
    <2>6. /\ \A x \in Tasks : x # t => store'[x] = store[x]
          /\ \A x \in Tasks : RowKept(x, store')
        BY <1>0, <1>4, <2>1, RowsOfStamp DEF DeadlineStamp
    <2>7. \A x \in Tasks : Known(x) => Known(x)'
        BY <2>6 DEF RowKept, Known, Exists
    <2>8. \A x \in Tasks : store[x].dispatchedAt => store'[x].dispatchedAt
        BY <2>6 DEF TypeInv, HeldTasksKnown, RowKept
    <2>9. TypeOK'
        <3>1. stale' \subseteq {x \in Tasks : store'[x].dispatchedAt}
            BY <1>4, <2>8 DEF TypeInv, TypeOK, DeadlineStamp, Stamped
        <3> QED BY <1>4, <1>01, <2>2, <2>4, <2>5, <3>1
                DEF TypeInv, TypeOK, DeadlineStamp, Stamped, wVars, MgrTypeOK, ExecTypeOK
    <2>10. HeldTasksKnown'
        <3>1. scan'[m] = s /\ \A x \in Managers : x # m => scan'[x] = scan[x]
            BY <1>01, <2>2
        <3>2. /\ req' = req /\ stream' = stream /\ cb' = cb /\ tasksCh' = tasksCh
              /\ owner' = owner
            BY <1>4 DEF DeadlineStamp, Stamped, wVars
        <3>3. \A x \in Managers : \A y \in scan'[x].todo : store'[y].dispatchedAt
            BY <1>01, <2>3, <2>8, <3>1 DEF TypeInv, HeldTasksKnown
        <3>4. \A x \in Managers : scan'[x].pc = "stamp" =>
                 scan'[x].task \in Tasks /\ store'[scan'[x].task].dispatchedAt
            BY <2>3, <2>8, <3>1 DEF TypeInv, HeldTasksKnown
        <3>5. \A x \in Tasks : stream'[x] > 0 \/ store'[x].dispatchedAt => Known(x)'
            BY <2>1, <2>6, <2>7, <3>2 DEF TypeInv, HeldTasksKnown
        <3>6. /\ \A w \in Workers : cb'[w] # None => Known(cb[w])'
              /\ \A w \in Workers : tasksCh'[w] # None => Known(tasksCh[w])'
            BY <2>7, <3>2 DEF TypeInv, TypeOK, HeldTasksKnown
        <3>7. \A x \in Tasks : req'[x].pc # "new" \/ owner'[x] # None => Known(x)'
            BY <2>7, <3>2 DEF TypeInv, HeldTasksKnown
        <3> QED BY <3>3, <3>4, <3>5, <3>6, <3>7 DEF HeldTasksKnown
    <2> QED BY <1>4, <2>9, <2>10 DEF TypeInv, InboxEndings, DeadlineStamp, Stamped
<1>5. CASE EventLoop(m)
    <2> DEFINE e == Head(inbox[m])
    <2>1. inbox[m] \in Seq(Event) /\ inbox[m] # <<>>
        BY <1>0, <1>5 DEF EventLoop
    <2>2. /\ e \in Event /\ IsTerminal(e)
          /\ Tail(inbox[m]) \in Seq(Event)
          /\ \A i \in 1..Len(Tail(inbox[m])) : IsTerminal(Tail(inbox[m])[i])
        <3>1. \A i \in 1..Len(inbox[m]) : IsTerminal(inbox[m][i])
            BY DEF TypeInv, InboxEndings
        <3>2. /\ 1 \in 1..Len(inbox[m]) /\ e = inbox[m][1] /\ e \in Event
              /\ \A i \in 1..Len(Tail(inbox[m])) :
                    i + 1 \in 1..Len(inbox[m]) /\ Tail(inbox[m])[i] = inbox[m][i + 1]
            BY <2>1, ReceiveElements
        <3>3. IsTerminal(e)
            BY <3>1, <3>2
        <3>4. \A i \in 1..Len(Tail(inbox[m])) : IsTerminal(Tail(inbox[m])[i])
            BY <3>1, <3>2
        <3>5. Tail(inbox[m]) \in Seq(Event)
            BY <2>1, SMT
        <3> QED BY <3>2, <3>3, <3>4, <3>5
    <2>3. e.task \in Tasks /\ e.status \in Terminal
        BY <2>2 DEF Event, IsTerminal
    <2>4. PgSetStatus(e.task, e.status)
        BY <1>5 DEF EventLoop
    <2> HIDE DEF e
    <2>5. /\ store' \in [Tasks -> Row]
          /\ \A x \in Tasks : x # e.task => store'[x] = store[x]
          /\ store'[e.task].dispatchedAt = store[e.task].dispatchedAt
          /\ \A x \in Tasks : RowKept(x, store')
        BY <1>0, <2>3, <2>4, RowsOfEnding
    <2>6. \A x \in Tasks : Known(x) => Known(x)'
        BY <2>5 DEF RowKept, Known, Exists
    <2>7. \A x \in Tasks : store[x].dispatchedAt <=> store'[x].dispatchedAt
        BY <2>5
    <2>8. inbox' = [inbox EXCEPT ![m] = Tail(inbox[m])]
        BY <1>5 DEF EventLoop
    <2>9. inbox' \in [Managers -> Seq(Event)]
        BY <1>0, <2>2, <2>8
    <2>10. TypeOK'
        BY <1>5, <2>5, <2>7, <2>9
           DEF TypeInv, TypeOK, EventLoop, wVars, MgrTypeOK, ExecTypeOK
    <2>11. HeldTasksKnown'
        <3>1. /\ req' = req /\ stream' = stream /\ cb' = cb /\ tasksCh' = tasksCh
              /\ scan' = scan /\ owner' = owner
            BY <1>5 DEF EventLoop, wVars
        <3>2. \A x \in Managers : \A y \in scan'[x].todo : store'[y].dispatchedAt
            BY <1>01, <2>7, <3>1 DEF TypeInv, HeldTasksKnown
        <3>3. \A x \in Managers : scan'[x].pc = "stamp" =>
                 scan'[x].task \in Tasks /\ store'[scan'[x].task].dispatchedAt
            BY <2>7, <3>1 DEF TypeInv, HeldTasksKnown
        <3>4. \A x \in Tasks : stream'[x] > 0 \/ store'[x].dispatchedAt => Known(x)'
            BY <2>6, <2>7, <3>1 DEF TypeInv, HeldTasksKnown
        <3>5. /\ \A w \in Workers : cb'[w] # None => Known(cb[w])'
              /\ \A w \in Workers : tasksCh'[w] # None => Known(tasksCh[w])'
            BY <2>6, <3>1 DEF TypeInv, TypeOK, HeldTasksKnown
        <3>6. \A x \in Tasks : req'[x].pc # "new" \/ owner'[x] # None => Known(x)'
            BY <2>6, <3>1 DEF TypeInv, HeldTasksKnown
        <3> QED BY <3>2, <3>3, <3>4, <3>5, <3>6 DEF HeldTasksKnown
    <2>12. InboxEndings'
        BY <1>0, <2>2, <2>8 DEF TypeInv, InboxEndings
    <2> QED BY <2>10, <2>11, <2>12 DEF TypeInv
<1>6. CASE ManagerCrash(m)
    <2>1. scan' = [scan EXCEPT ![m] = NoScan] /\ inbox' = [inbox EXCEPT ![m] = <<>>]
        BY <1>6 DEF ManagerCrash
    <2>2. NoScan.pc = "tick" /\ NoScan.todo = {}
        BY DEF NoScan
    <2>3. NoScan \in [pc : {"tick", "dispatch", "stamp"}, todo : SUBSET Tasks,
                      task : Tasks \cup {None}]
        BY DEF NoScan
    <2>4. req' \in [Tasks -> ReqState]
        <3> DEFINE gone == [pc |-> "done", err |-> "other"]
        <3>1. gone \in ReqState /\ gone.pc = "done"
            BY DEF ReqState, DispatchError
        <3>2. req' = [x \in Tasks |-> IF owner[x] = m /\ req[x].pc # "done"
                                      THEN gone ELSE req[x]]
            BY <1>6 DEF ManagerCrash
        <3> HIDE DEF gone
        <3> QED BY <1>0, <3>1, <3>2
    <2>5. faults' \in 0..MaxFaults
        BY <1>6, P5Assumption, SMT DEF TypeInv, TypeOK, ManagerCrash, Fault
    <2>6. inbox' \in [Managers -> Seq(Event)]
        BY <1>0, <2>1
    <2>7. TypeOK'
        BY <1>6, <1>01, <2>1, <2>3, <2>4, <2>5, <2>6
           DEF TypeInv, TypeOK, ManagerCrash, wVars, MgrTypeOK, ExecTypeOK
    <2>8. InboxEndings'
        <3>1. Len(<<>>) = 0 /\ 1..0 = {}
            BY SMT
        <3> QED BY <1>0, <2>1, <3>1 DEF TypeInv, InboxEndings
    <2>9. HeldTasksKnown'
        <3>1. store' = store /\ stream' = stream /\ cb' = cb /\ tasksCh' = tasksCh
            BY <1>6 DEF ManagerCrash, wVars
        <3>2. \A x \in Managers : scan'[x] = NoScan \/ scan'[x] = scan[x]
            BY <1>01, <2>1
        <3>3. \A x \in Tasks : req'[x].pc # "new" \/ owner'[x] # None => Known(x)'
            BY <1>6, <1>0, P5Assumption
               DEF ManagerCrash, TypeInv, HeldTasksKnown, Known, Exists
        <3> QED BY <2>2, <3>1, <3>2, <3>3 DEF TypeInv, HeldTasksKnown, Known, Exists
    <2> QED BY <2>7, <2>8, <2>9 DEF TypeInv
<1>7. CASE ManagerRestart(m)
    <2>1. TypeOK'
        BY <1>7 DEF TypeInv, TypeOK, ManagerRestart, mgrVars, wVars, MgrTypeOK, ExecTypeOK
    <2> QED BY <1>7, <2>1 DEF TypeInv, HeldTasksKnown, InboxEndings, ManagerRestart,
                              mgrVars, wVars, Known, Exists
<1> QED BY <1>1, <1>2, <1>3, <1>4, <1>5, <1>6, <1>7

(* The workers and the broker.                                             *)
LEMMA TypeInvWorker ==
    ASSUME TypeInv, NEW w \in Workers,
           \/ Deliver(w) \/ CallbackSend(w) \/ Receive(w) \/ Emit(w) \/ Stage(w)
           \/ WorkerExit(w) \/ WorkerCrash(w) \/ WorkerStop(w)
           \/ \E x \in Workers : Redeliver(w, x)
    PROVE  TypeInv'
<1>0. /\ stream \in [Tasks -> Nat] /\ inbox \in [Managers -> Seq(Event)]
      /\ cb \in [Workers -> Tasks \cup {None}] /\ tasksCh \in [Workers -> Tasks \cup {None}]
      /\ MgrTypeOK /\ ExecTypeOK /\ stopping \in [Workers -> BOOLEAN]
      /\ faults \in 0..MaxFaults
    BY DEF TypeInv, TypeOK
<1>1. /\ store' = store /\ req' = req /\ loop' = loop /\ up' = up /\ owner' = owner
      /\ stale' = stale /\ scan' = scan
    BY DEF Deliver, CallbackSend, Receive, Emit, Stage, WorkerExit, WorkerCrash, WorkerStop,
           Redeliver, WorkerGone, mgrVars, mVars
<1>2. faults' \in 0..MaxFaults
    BY P5Assumption, SMT DEF TypeInv, TypeOK, Fault, Deliver, CallbackSend, Receive, Emit,
           Stage, WorkerExit, WorkerCrash, WorkerStop, Redeliver
<1>3. \A x \in Tasks : Known(x) <=> Known(x)'
    BY <1>1 DEF Known, Exists
<1> DEFINE Places ==
               /\ stream' \in [Tasks -> Nat]
               /\ cb' \in [Workers -> Tasks \cup {None}]
               /\ tasksCh' \in [Workers -> Tasks \cup {None}]
               /\ \A t \in Tasks : stream'[t] > 0 => Known(t)
               /\ \A x \in Workers : cb'[x] # None => Known(cb'[x])
               /\ \A x \in Workers : tasksCh'[x] # None => Known(tasksCh'[x])
<1>4. /\ \A t \in Tasks : stream[t] > 0 => Known(t)
      /\ \A x \in Workers : cb[x] # None => Known(cb[x])
      /\ \A x \in Workers : tasksCh[x] # None => Known(tasksCh[x])
    BY DEF TypeInv, HeldTasksKnown
<1>5. Places
    <2>1. CASE Deliver(w)
        <3> PICK t \in Tasks : /\ stream[t] > 0
                               /\ cb' = [cb EXCEPT ![w] = t]
                               /\ stream' = [stream EXCEPT ![t] = @ - 1]
            BY <2>1 DEF Deliver
        <3>1. stream[t] - 1 \in Nat
            BY <1>0
        <3> QED BY <1>0, <1>4, <2>1, <3>1 DEF Deliver
    <2>2. CASE CallbackSend(w)
        BY <1>0, <1>4, <2>2 DEF CallbackSend, mVars
    <2>3. CASE Receive(w) \/ Emit(w) \/ Stage(w) \/ WorkerStop(w)
        <3>1. /\ stream' = stream /\ cb' = cb
              /\ tasksCh' = tasksCh \/ tasksCh' = [tasksCh EXCEPT ![w] = None]
            BY <2>3 DEF Receive, Emit, Stage, WorkerStop, wVars
        <3> QED BY <1>0, <1>4, <3>1
    <2>4. CASE WorkerGone(w)
        <3>1. /\ tasksCh' = [tasksCh EXCEPT ![w] = None] /\ cb' = [cb EXCEPT ![w] = None]
              /\ cb[w] = None => stream' = stream
              /\ cb[w] # None => stream' = [stream EXCEPT ![cb[w]] = @ + 1]
            BY <2>4 DEF WorkerGone, Publish
        <3>2. CASE cb[w] = None
            BY <1>0, <1>4, <3>1, <3>2
        <3>3. CASE cb[w] # None
            <4>1. cb[w] \in Tasks /\ Known(cb[w]) /\ stream[cb[w]] + 1 \in Nat
                BY <1>0, <1>4, <3>3
            <4>2. /\ stream' \in [Tasks -> Nat]
                  /\ \A t \in Tasks : t # cb[w] => stream'[t] = stream[t]
                BY <1>0, <3>1, <3>3, <4>1
            <4>3. \A t \in Tasks : stream'[t] > 0 => Known(t)
                BY <1>4, <4>1, <4>2
            <4> QED BY <1>0, <1>4, <3>1, <4>2, <4>3
        <3> QED BY <3>2, <3>3
    <2>5. CASE \E x \in Workers : Redeliver(w, x)
        BY <1>0, <1>4, <2>5 DEF Redeliver
    <2> QED BY <2>1, <2>2, <2>3, <2>4, <2>5 DEF WorkerExit, WorkerCrash
<1>6. ExecTypeOK'
    <2>1. CASE Receive(w)
        <3>1. tasksCh[w] \in Tasks /\ store[tasksCh[w]].stages \in 1..MaxStages
            BY <1>0, <1>4, <2>1 DEF Receive, Known
        <3> QED BY <1>0, <2>1, <3>1, ExecTypeStep DEF Receive, Workers
    <2>2. CASE Emit(w)
        BY <1>0, <2>2, ExecTypeStep DEF Emit, Workers
    <2>3. CASE Stage(w)
        BY <1>0, <2>3, ExecTypeStep DEF Stage, Workers
    <2>4. CASE WorkerGone(w)
        <3>1. run' = [run EXCEPT ![w] = Idle] /\ run \in [Runs -> RunState \cup {Idle, Exited}]
            BY <1>0, <2>4 DEF WorkerGone, ExecTypeOK
        <3>2. Idle.pc = "idle"
            BY DEF Idle
        <3> QED BY <1>0, <3>1, <3>2 DEF ExecTypeOK, Workers
    <2>5. CASE run' = run
        BY <1>0, <2>5 DEF ExecTypeOK
    <2> QED BY <2>1, <2>2, <2>3, <2>4, <2>5
            DEF Deliver, CallbackSend, WorkerExit, WorkerCrash, WorkerStop, Redeliver
<1>7. inbox' \in [Managers -> Seq(Event)] /\ InboxEndings'
    <2>1. CASE inbox' = inbox
        BY <1>0, <2>1 DEF TypeInv, InboxEndings
    <2>2. CASE Emit(w) /\ inbox' # inbox
        <3> DEFINE e == EmitEvent(w)
        <3>1. e \in Event
            BY <1>0, <2>2, EmitEventType DEF Emit, EmitDone, Workers
        <3>2. IsTerminal(e) /\ \E m \in Managers : inbox' = [inbox EXCEPT ![m] = Append(@, e)]
            BY <2>2 DEF Emit
        <3> HIDE DEF e
        <3> PICK m \in Managers : inbox' = [inbox EXCEPT ![m] = Append(@, e)]
            BY <3>2
        <3>3. inbox[m] \in Seq(Event)
            BY <1>0
        <3>4. /\ Append(inbox[m], e) \in Seq(Event)
              /\ \A i \in 1..Len(Append(inbox[m], e)) :
                    \/ i \in 1..Len(inbox[m]) /\ Append(inbox[m], e)[i] = inbox[m][i]
                    \/ Append(inbox[m], e)[i] = e
            BY <3>1, <3>3, SMT
        <3>5. \A i \in 1..Len(Append(inbox[m], e)) : IsTerminal(Append(inbox[m], e)[i])
            BY <3>2, <3>4 DEF TypeInv, InboxEndings
        <3> QED BY <1>0, <3>4, <3>5 DEF TypeInv, InboxEndings
    <2> QED BY <2>1, <2>2
            DEF Deliver, CallbackSend, Receive, Stage, WorkerExit, WorkerCrash, WorkerStop,
                Redeliver, WorkerGone, mVars
<1>8. stopping' \in [Workers -> BOOLEAN]
    BY <1>0 DEF Deliver, CallbackSend, Receive, Emit, Stage, WorkerExit, WorkerCrash,
                WorkerStop, Redeliver, wVars
<1>9. TypeOK'
    BY <1>1, <1>2, <1>5, <1>6, <1>7, <1>8 DEF TypeInv, TypeOK, MgrTypeOK
<1>10. HeldTasksKnown'
    BY <1>0, <1>1, <1>3, <1>5 DEF TypeInv, HeldTasksKnown
<1> QED BY <1>7, <1>9, <1>10 DEF TypeInv

LEMMA TypeInvStep == TypeInv /\ [Next]_vars => TypeInv'
<1> SUFFICES ASSUME TypeInv, [Next]_vars PROVE TypeInv'
    OBVIOUS
<1>1. ASSUME NEW t \in Tasks, Dispatch(t) \/ Answer(t) \/ DispatchFails(t)
                              \/ \E m \in Managers : SubmitAt(m, t)
      PROVE  TypeInv'
    BY <1>1, TypeInvSubmit
<1>2. ASSUME NEW t \in Tasks, Expire(t) \/ ExpireEarly(t)
      PROVE  TypeInv'
    <2> PICK m : m \in Managers
        BY P5Assumption
    <2> QED BY <1>2, TypeInvManager
<1>3. ASSUME NEW m \in Managers,
             DeadlineTick(m) \/ DeadlineDispatch(m) \/ DeadlineStamp(m) \/ EventLoop(m)
             \/ ManagerRestart(m) \/ ManagerCrash(m)
      PROVE  TypeInv'
    BY <1>3, TypeInvManager
<1>4. ASSUME NEW w \in Workers,
             \/ Deliver(w) \/ CallbackSend(w) \/ Receive(w) \/ Emit(w) \/ Stage(w)
             \/ WorkerExit(w) \/ WorkerCrash(w) \/ WorkerStop(w)
             \/ \E x \in Workers : Redeliver(w, x)
      PROVE  TypeInv'
    BY <1>4, TypeInvWorker
<1>5. CASE UNCHANGED vars
    <2>1. TypeOK'
        BY <1>5 DEF TypeInv, TypeOK, vars, MgrTypeOK, ExecTypeOK
    <2> QED BY <1>5, <2>1 DEF TypeInv, vars, HeldTasksKnown, InboxEndings, Known, Exists
<1> QED BY <1>1, <1>2, <1>3, <1>4, <1>5 DEF Next, System

(* Managers, broker and workers keep their types: in particular the store  *)
(* knows the stages of every task that NATSConsumer.Receive hands to       *)
(* exec.Run, and whatever runDeadlineLoop sends again has a row.           *)
THEOREM TypeCorrect == Spec => []TypeOK
<1>1. TypeInv => TypeOK
    BY DEF TypeInv
<1> QED BY TypeInvInit, TypeInvStep, <1>1, PTL DEF Spec

(* No step of any manager takes an ended task back: Postgres SetStatus     *)
(* overwrites without looking, but an event that reaches runEventLoop's    *)
(* SetStatus is an ending, and SetDispatchedAt of a late deadline loop     *)
(* leaves the status alone.                                                *)
THEOREM StaysEndedCorrect == Spec => StaysEnded
<1>1. TypeInv /\ [Next]_vars => [\A t \in Tasks : Ended(t) => Ended(t)']_vars
    <2> SUFFICES ASSUME TypeInv, Next PROVE \A x \in Tasks : Ended(x) => Ended(x)'
        OBVIOUS
    <2>0. store \in [Tasks -> Row] /\ inbox \in [Managers -> Seq(Event)]
        BY DEF TypeInv, TypeOK, MgrTypeOK
    <2>1. CASE \A x \in Tasks : RowKept(x, store')
        BY <2>1 DEF RowKept, Ended
    <2>2. CASE store' = store
        BY <2>2 DEF Ended
    <2>3. ASSUME NEW t \in Tasks, NEW m \in Managers, SubmitAt(m, t)
          PROVE  \A x \in Tasks : RowKept(x, store')
        <3> PICK u \in UserIDs, n \in Int : SubmitCreate(t, u, n)
            BY <2>3, P5Assumption DEF SubmitAt
        <3> QED BY <2>0, RowsOfCreate
    <2>4. ASSUME NEW t \in Tasks, Answer(t)
          PROVE  \A x \in Tasks : RowKept(x, store')
        <3>1. "failed" \in Terminal
            BY DEF Terminal
        <3> QED BY <2>0, <2>4, <3>1, RowsOfStamp, RowsOfEnding DEF Answer, SubmitStamp, SubmitFail
    <2>5. ASSUME NEW m \in Managers, DeadlineStamp(m)
          PROVE  \A x \in Tasks : RowKept(x, store')
        BY <2>0, <2>5, RowsOfStamp DEF DeadlineStamp, TypeInv, HeldTasksKnown
    <2>6. ASSUME NEW m \in Managers, EventLoop(m)
          PROVE  \A x \in Tasks : RowKept(x, store')
        <3>1. inbox[m] \in Seq(Event) /\ inbox[m] # <<>>
            BY <2>0, <2>6 DEF EventLoop
        <3>2. Head(inbox[m]) \in Event /\ IsTerminal(Head(inbox[m]))
            BY <3>1, ReceiveElements DEF TypeInv, InboxEndings
        <3>3. Head(inbox[m]).task \in Tasks /\ Head(inbox[m]).status \in Terminal
            BY <3>2 DEF Event, IsTerminal
        <3> QED BY <2>0, <2>6, <3>3, RowsOfEnding DEF EventLoop
    <2>7. ASSUME NEW t \in Tasks, Dispatch(t) \/ DispatchFails(t) \/ Expire(t) \/ ExpireEarly(t)
          PROVE  store' = store
        BY <2>7 DEF Dispatch, DispatchFails, Expire, ExpireEarly, SubmitDispatched,
                    SubmitRefused, mgrVars
    <2>8. ASSUME NEW m \in Managers,
                 DeadlineTick(m) \/ DeadlineDispatch(m) \/ ManagerRestart(m) \/ ManagerCrash(m)
          PROVE  store' = store
        BY <2>8 DEF DeadlineTick, DeadlineDispatch, ManagerRestart, ManagerCrash, mgrVars
    <2>9. ASSUME NEW w \in Workers,
                 \/ Deliver(w) \/ CallbackSend(w) \/ Receive(w) \/ Emit(w) \/ Stage(w)
                 \/ WorkerExit(w) \/ WorkerCrash(w) \/ WorkerStop(w)
                 \/ \E x \in Workers : Redeliver(w, x)
          PROVE  store' = store
        BY <2>9 DEF Deliver, CallbackSend, Receive, Emit, Stage, WorkerExit, WorkerCrash,
                    WorkerStop, Redeliver, WorkerGone, mgrVars
    <2> QED BY <2>1, <2>2, <2>3, <2>4, <2>5, <2>6, <2>7, <2>8, <2>9 DEF Next, System
<1> QED BY TypeInvInit, TypeInvStep, <1>1, PTL DEF Spec, StaysEnded

-----------------------------------------------------------------------------
(* Counting copies.                                                        *)

AtCallback(t) == {w \in Workers : cb[w] = t}
InChannel(t) == {w \in Workers : tasksCh[w] = t}
Executing(t) == {w \in Workers : Busy(w) /\ run[w].task = t}

LEMMA CopiesSum ==
    ASSUME TypeInv, NEW t \in Tasks, IsFiniteSet(InInboxes(t))
    PROVE  /\ IsFiniteSet(AtCallback(t)) /\ Cardinality(AtCallback(t)) \in Nat
           /\ IsFiniteSet(InChannel(t)) /\ Cardinality(InChannel(t)) \in Nat
           /\ IsFiniteSet(Executing(t)) /\ Cardinality(Executing(t)) \in Nat
           /\ Cardinality(InInboxes(t)) \in Nat
           /\ stream[t] \in Nat
           /\ Copies(t) = stream[t] + Cardinality(AtCallback(t)) + Cardinality(InChannel(t))
                          + Cardinality(Executing(t)) + Cardinality(InInboxes(t))
           /\ Copies(t) \in Nat
<1>1. AtCallback(t) \in SUBSET Workers /\ InChannel(t) \in SUBSET Workers
      /\ Executing(t) \in SUBSET Workers
    BY DEF AtCallback, InChannel, Executing
<1>2. IsFiniteSet(AtCallback(t)) /\ IsFiniteSet(InChannel(t)) /\ IsFiniteSet(Executing(t))
    BY <1>1, FS_Subset, P5Assumption
<1>3. /\ Cardinality(AtCallback(t)) \in Nat /\ Cardinality(InChannel(t)) \in Nat
      /\ Cardinality(Executing(t)) \in Nat /\ Cardinality(InInboxes(t)) \in Nat
    BY <1>2, FS_CardinalityType
<1>4. stream[t] \in Nat
    BY DEF TypeInv, TypeOK
<1>5. Copies(t) = stream[t] + Cardinality(AtCallback(t)) + Cardinality(InChannel(t))
                  + Cardinality(Executing(t)) + Cardinality(InInboxes(t))
    BY DEF Copies, AtCallback, InChannel, Executing
<1> QED BY <1>2, <1>3, <1>4, <1>5

LEMMA CopiesNext ==
    ASSUME TypeInv', NEW t \in Tasks, IsFiniteSet(InInboxes(t)')
    PROVE  Copies(t)' \in Nat
<1>1. AtCallback(t)' \in SUBSET Workers /\ InChannel(t)' \in SUBSET Workers
      /\ Executing(t)' \in SUBSET Workers
    BY DEF AtCallback, InChannel, Executing
<1>2. /\ Cardinality(AtCallback(t)') \in Nat /\ Cardinality(InChannel(t)') \in Nat
      /\ Cardinality(Executing(t)') \in Nat /\ Cardinality(InInboxes(t)') \in Nat
    BY <1>1, FS_Subset, FS_CardinalityType, P5Assumption
<1>3. stream'[t] \in Nat
    BY DEF TypeInv, TypeOK
<1> QED BY <1>2, <1>3 DEF Copies, AtCallback, InChannel, Executing

(* A step that touches at most one worker.                                 *)
LEMMA CopiesStep ==
    ASSUME TypeInv, TypeInv', NEW t \in Tasks, NEW w \in Workers,
           IsFiniteSet(InInboxes(t)), IsFiniteSet(InInboxes(t)'),
           \A x \in Workers : x # w => /\ cb'[x] = cb[x] /\ tasksCh'[x] = tasksCh[x]
                                       /\ run'[x] = run[x]
    PROVE  Copies(t)' = Copies(t) + (stream'[t] - stream[t])
               + (One(cb'[w] = t) - One(cb[w] = t))
               + (One(tasksCh'[w] = t) - One(tasksCh[w] = t))
               + (One(Busy(w)' /\ run'[w].task = t) - One(Busy(w) /\ run[w].task = t))
               + (Cardinality(InInboxes(t)') - Cardinality(InInboxes(t)))
<1>1. /\ AtCallback(t) \ {w} = AtCallback(t)' \ {w}
      /\ w \in AtCallback(t) <=> cb[w] = t
      /\ w \in AtCallback(t)' <=> cb'[w] = t
    BY DEF AtCallback
<1>2. /\ InChannel(t) \ {w} = InChannel(t)' \ {w}
      /\ w \in InChannel(t) <=> tasksCh[w] = t
      /\ w \in InChannel(t)' <=> tasksCh'[w] = t
    BY DEF InChannel
<1>3. /\ Executing(t) \ {w} = Executing(t)' \ {w}
      /\ w \in Executing(t) <=> Busy(w) /\ run[w].task = t
      /\ w \in Executing(t)' <=> Busy(w)' /\ run'[w].task = t
    BY DEF Executing, Busy
<1>4. /\ IsFiniteSet(AtCallback(t)) /\ IsFiniteSet(InChannel(t)) /\ IsFiniteSet(Executing(t))
      /\ stream[t] \in Nat /\ Cardinality(InInboxes(t)) \in Nat
      /\ Copies(t) = stream[t] + Cardinality(AtCallback(t)) + Cardinality(InChannel(t))
                     + Cardinality(Executing(t)) + Cardinality(InInboxes(t))
    BY CopiesSum
<1>5. /\ stream'[t] \in Nat /\ Cardinality(InInboxes(t)') \in Nat
      /\ Copies(t)' = stream'[t] + Cardinality(AtCallback(t)') + Cardinality(InChannel(t)')
                      + Cardinality(Executing(t)') + Cardinality(InInboxes(t)')
    <2>1. /\ stream'[t] \in Nat
          /\ Copies(t)' = stream'[t] + Cardinality(AtCallback(t)') + Cardinality(InChannel(t)')
                      + Cardinality(Executing(t)') + Cardinality(InInboxes(t)')
        BY DEF Copies, AtCallback, InChannel, Executing, TypeInv, TypeOK
    <2> QED BY <2>1, FS_CardinalityType
<1>6. /\ Cardinality(AtCallback(t)) \in Nat /\ Cardinality(AtCallback(t)') \in Nat
      /\ Cardinality(AtCallback(t)') = Cardinality(AtCallback(t)) + One(w \in AtCallback(t)')
                                       - One(w \in AtCallback(t))
    BY <1>1, <1>4, CountOne
<1>7. /\ Cardinality(InChannel(t)) \in Nat /\ Cardinality(InChannel(t)') \in Nat
      /\ Cardinality(InChannel(t)') = Cardinality(InChannel(t)) + One(w \in InChannel(t)')
                                      - One(w \in InChannel(t))
    BY <1>2, <1>4, CountOne
<1>8. /\ Cardinality(Executing(t)) \in Nat /\ Cardinality(Executing(t)') \in Nat
      /\ Cardinality(Executing(t)') = Cardinality(Executing(t)) + One(w \in Executing(t)')
                                      - One(w \in Executing(t))
    BY <1>3, <1>4, CountOne
<1>9. \A b : One(b) \in 0..1
    BY DEF One
<1>10. /\ One(w \in AtCallback(t)) = One(cb[w] = t)
       /\ One(w \in AtCallback(t)') = One(cb'[w] = t)
       /\ One(w \in InChannel(t)) = One(tasksCh[w] = t)
       /\ One(w \in InChannel(t)') = One(tasksCh'[w] = t)
       /\ One(w \in Executing(t)) = One(Busy(w) /\ run[w].task = t)
       /\ One(w \in Executing(t)') = One(Busy(w)' /\ run'[w].task = t)
    BY <1>1, <1>2, <1>3 DEF One
<1> QED BY <1>4, <1>5, <1>6, <1>7, <1>8, <1>9, <1>10, SMT

(* A step of a manager.                                                    *)
LEMMA CopiesStill ==
    ASSUME TypeInv, TypeInv', NEW t \in Tasks,
           IsFiniteSet(InInboxes(t)), IsFiniteSet(InInboxes(t)'), UNCHANGED <<cb, tasksCh, run>>
    PROVE  Copies(t)' = Copies(t) + (stream'[t] - stream[t])
               + (Cardinality(InInboxes(t)') - Cardinality(InInboxes(t)))
<1>1. /\ Cardinality(AtCallback(t)) \in Nat /\ Cardinality(InChannel(t)) \in Nat
      /\ Cardinality(Executing(t)) \in Nat /\ Cardinality(InInboxes(t)) \in Nat
      /\ stream[t] \in Nat
      /\ Copies(t) = stream[t] + Cardinality(AtCallback(t)) + Cardinality(InChannel(t))
                     + Cardinality(Executing(t)) + Cardinality(InInboxes(t))
    BY CopiesSum
<1>2. /\ stream'[t] \in Nat
      /\ Copies(t)' = stream'[t] + Cardinality(AtCallback(t)') + Cardinality(InChannel(t)')
                      + Cardinality(Executing(t)') + Cardinality(InInboxes(t)')
    BY DEF Copies, AtCallback, InChannel, Executing, TypeInv, TypeOK
<1>3. /\ AtCallback(t)' = AtCallback(t) /\ InChannel(t)' = InChannel(t)
      /\ Executing(t)' = Executing(t)
    BY DEF AtCallback, InChannel, Executing, Busy
<1>4. Cardinality(InInboxes(t)') \in Nat
    BY FS_CardinalityType
<1> QED BY <1>1, <1>2, <1>3, <1>4

OfTask(t) == {e \in Event : e.task = t}

LEMMA InboxSlots ==
    ASSUME NEW t \in Tasks
    PROVE  /\ inbox \in [Managers -> Seq(Event)]
                 => InInboxes(t) = Slots(inbox, Managers, OfTask(t))
           /\ inbox' \in [Managers -> Seq(Event)]
                 => InInboxes(t)' = Slots(inbox', Managers, OfTask(t))
<1>1. ASSUME NEW f \in [Managers -> Seq(Event)], NEW m \in Managers, NEW j \in 1..Len(f[m])
      PROVE  f[m][j].task = t <=> f[m][j] \in OfTask(t)
    <2>1. f[m][j] \in Event
        BY ElementOfSeq
    <2> QED BY <2>1 DEF OfTask
<1>2. inbox \in [Managers -> Seq(Event)] =>
         \A m \in Managers : {j \in 1..Len(inbox[m]) : inbox[m][j].task = t}
                             = {j \in 1..Len(inbox[m]) : inbox[m][j] \in OfTask(t)}
    BY <1>1
<1>3. inbox' \in [Managers -> Seq(Event)] =>
         \A m \in Managers : {j \in 1..Len(inbox'[m]) : inbox'[m][j].task = t}
                             = {j \in 1..Len(inbox'[m]) : inbox'[m][j] \in OfTask(t)}
    BY <1>1
<1> QED BY <1>2, <1>3 DEF InInboxes, Slots

(* The callback of Start appends an ending to one inbox ...                *)
LEMMA InboxAppend ==
    ASSUME NEW t \in Tasks, NEW m \in Managers, NEW e \in Event,
           inbox \in [Managers -> Seq(Event)], IsFiniteSet(InInboxes(t)),
           inbox' = [inbox EXCEPT ![m] = Append(@, e)]
    PROVE  /\ IsFiniteSet(InInboxes(t)')
           /\ Cardinality(InInboxes(t)') = Cardinality(InInboxes(t)) + One(e.task = t)
<1>1. inbox' \in [Managers -> Seq(Event)]
    BY AppendProperties
<1>2. One(e.task = t) = One(e \in OfTask(t))
    BY DEF One, OfTask
<1>9. /\ InInboxes(t) = Slots(inbox, Managers, OfTask(t))
      /\ InInboxes(t)' = Slots(inbox', Managers, OfTask(t))
    BY <1>1, InboxSlots
<1>10. IsFiniteSet(Slots(inbox, Managers, OfTask(t)))
    BY <1>9
<1>11. AppendedAt(inbox, inbox', Managers, m, e)
    BY SeqSteps
<1>12. /\ IsFiniteSet(Slots(inbox', Managers, OfTask(t)))
       /\ Cardinality(Slots(inbox', Managers, OfTask(t))) =
             Cardinality(Slots(inbox, Managers, OfTask(t))) + One(e \in OfTask(t))
    BY <1>10, <1>11, SlotsAppend
<1> QED BY <1>2, <1>9, <1>12

(* ... the event loop takes the first one out and all others move up ...   *)
LEMMA InboxTail ==
    ASSUME NEW t \in Tasks, NEW m \in Managers,
           inbox \in [Managers -> Seq(Event)], IsFiniteSet(InInboxes(t)), inbox[m] # <<>>,
           inbox' = [inbox EXCEPT ![m] = Tail(@)]
    PROVE  /\ IsFiniteSet(InInboxes(t)')
           /\ Cardinality(InInboxes(t)') = Cardinality(InInboxes(t))
                                           - One(Head(inbox[m]).task = t)
<1>1. inbox[m] \in Seq(Event) /\ Tail(inbox[m]) \in Seq(Event)
      /\ Head(inbox[m]) \in Event /\ Head(inbox[m]) = inbox[m][1]
    BY SMT
<1>2. inbox' \in [Managers -> Seq(Event)]
    BY <1>1
<1>3. One(Head(inbox[m]).task = t) = One(inbox[m][1] \in OfTask(t))
    BY <1>1 DEF One, OfTask
<1>9. /\ InInboxes(t) = Slots(inbox, Managers, OfTask(t))
      /\ InInboxes(t)' = Slots(inbox', Managers, OfTask(t))
    BY <1>2, InboxSlots
<1>10. IsFiniteSet(Slots(inbox, Managers, OfTask(t)))
    BY <1>9
<1>11. ReceivedAt(inbox, inbox', Managers, m)
    BY SeqSteps
<1>12. /\ IsFiniteSet(Slots(inbox', Managers, OfTask(t)))
       /\ Cardinality(Slots(inbox', Managers, OfTask(t))) =
             Cardinality(Slots(inbox, Managers, OfTask(t))) - One(inbox[m][1] \in OfTask(t))
    BY <1>10, <1>11, SlotsTail
<1> QED BY <1>3, <1>9, <1>12

(* ... and a crash loses what one manager holds.                           *)
LEMMA InboxCrash ==
    ASSUME NEW t \in Tasks, NEW m \in Managers,
           inbox \in [Managers -> Seq(Event)], IsFiniteSet(InInboxes(t)),
           inbox' = [inbox EXCEPT ![m] = <<>>]
    PROVE  /\ IsFiniteSet(InInboxes(t)')
           /\ Cardinality(InInboxes(t)') <= Cardinality(InInboxes(t))
<1>1. inbox' \in [Managers -> Seq(Event)]
    OBVIOUS
<1>9. /\ InInboxes(t) = Slots(inbox, Managers, OfTask(t))
      /\ InInboxes(t)' = Slots(inbox', Managers, OfTask(t))
    BY <1>1, InboxSlots
<1>10. IsFiniteSet(Slots(inbox, Managers, OfTask(t)))
    BY <1>9
<1>11. ClearedAt(inbox, inbox', Managers, m)
    BY SeqSteps
<1>12. /\ IsFiniteSet(Slots(inbox', Managers, OfTask(t)))
       /\ Cardinality(Slots(inbox', Managers, OfTask(t)))
             <= Cardinality(Slots(inbox, Managers, OfTask(t)))
    BY <1>10, <1>11, SlotsEmpty
<1> QED BY <1>9, <1>12

-----------------------------------------------------------------------------
(* CopiesBounded.                                                          *)

(* What a step without a fault does to the copies of t: a worker hands     *)
(* them on, and loses none as long as nothing has failed.                  *)
LEMMA WorkerMoves ==
    ASSUME TypeInv, TypeInv', InboxesFinite, Undisturbed, NEW w \in Workers, NEW t \in Tasks,
           \/ Deliver(w) \/ CallbackSend(w) \/ Receive(w) \/ Emit(w) \/ Stage(w) \/ WorkerExit(w)
    PROVE  /\ IsFiniteSet(InInboxes(t)')
           /\ Copies(t)' <= Copies(t)
           /\ faults = 0 => Copies(t)' = Copies(t)
<1> DEFINE Hands ==
               (stream'[t] - stream[t])
               + (One(cb'[w] = t) - One(cb[w] = t))
               + (One(tasksCh'[w] = t) - One(tasksCh[w] = t))
               + (One(Busy(w)' /\ run'[w].task = t) - One(Busy(w) /\ run[w].task = t))
           Others ==
               \A x \in Workers : x # w => /\ cb'[x] = cb[x] /\ tasksCh'[x] = tasksCh[x]
                                           /\ run'[x] = run[x]
<1>0. /\ stream \in [Tasks -> Nat] /\ inbox \in [Managers -> Seq(Event)]
      /\ cb \in [Workers -> Tasks \cup {None}] /\ tasksCh \in [Workers -> Tasks \cup {None}]
      /\ run \in [Workers -> RunState \cup {Idle, Exited}] /\ ExecTypeOK
      /\ stream' \in [Tasks -> Nat]
    BY DEF TypeInv, TypeOK, ExecTypeOK, Workers
<1>1. IsFiniteSet(InInboxes(t)) /\ Copies(t) \in Nat /\ Cardinality(InInboxes(t)) \in Nat
    BY CopiesSum DEF InboxesFinite
<1>2. t # None
    BY P5Assumption
<1>3. ASSUME inbox' = inbox, Others, Hands <= 0, Hands \in Int, faults = 0 => Hands = 0
      PROVE  /\ IsFiniteSet(InInboxes(t)')
             /\ Copies(t)' <= Copies(t)
             /\ faults = 0 => Copies(t)' = Copies(t)
    <2>1. InInboxes(t)' = InInboxes(t)
        BY <1>3 DEF InInboxes
    <2>2. Copies(t)' = Copies(t) + Hands
                       + (Cardinality(InInboxes(t)') - Cardinality(InInboxes(t)))
        <3>1. \A b : One(b) \in Int
            BY DEF One
        <3>2. stream[t] \in Int /\ stream'[t] \in Int
            BY <1>0
        <3> QED BY <1>1, <1>3, <2>1, <3>1, <3>2, CopiesStep
    <2> HIDE DEF Hands
    <2> QED BY <1>1, <1>3, <2>1, <2>2
<1>4. CASE Deliver(w)
    <2> PICK y \in Tasks : /\ stream[y] > 0
                           /\ cb' = [cb EXCEPT ![w] = y]
                           /\ stream' = [stream EXCEPT ![y] = @ - 1]
        BY <1>4 DEF Deliver
    <2>1. /\ cb[w] = None /\ tasksCh' = tasksCh /\ run' = run /\ inbox' = inbox
        BY <1>4 DEF Deliver, mVars
    <2>2. /\ cb'[w] = y /\ stream'[t] = IF y = t THEN stream[t] - 1 ELSE stream[t]
          /\ Busy(w)' <=> Busy(w)
        BY <1>0, <2>1 DEF Busy
    <2>3. Hands = 0
        BY <1>0, <1>2, <2>1, <2>2 DEF One
    <2> HIDE DEF Hands
    <2> QED BY <1>0, <1>3, <2>1, <2>3
<1>5. CASE CallbackSend(w)
    <2>1. /\ cb[w] # None /\ tasksCh[w] = None /\ run' = run /\ inbox' = inbox
          /\ stream' = stream
          /\ tasksCh' = [tasksCh EXCEPT ![w] = cb[w]] /\ cb' = [cb EXCEPT ![w] = None]
        BY <1>5 DEF CallbackSend, mVars
    <2>2. tasksCh'[w] = cb[w] /\ cb'[w] = None /\ (Busy(w)' <=> Busy(w))
        BY <1>0, <2>1 DEF Busy
    <2>3. Hands = 0
        BY <1>0, <1>2, <2>1, <2>2 DEF One
    <2> HIDE DEF Hands
    <2> QED BY <1>0, <1>3, <2>1, <2>3
<1>6. CASE Receive(w)
    <2> DEFINE s == [pc |-> "running", task |-> tasksCh[w], stage |-> 0,
                     total |-> store[tasksCh[w]].stages]
    <2>1. /\ cb' = cb /\ inbox' = inbox /\ stream' = stream
          /\ tasksCh' = [tasksCh EXCEPT ![w] = None]
          /\ run[w].pc = "idle" /\ run' = [run EXCEPT ![w] = s]
        BY <1>6 DEF Receive, RunStart, mVars
    <2>2. s.pc = "running" /\ s.task = tasksCh[w]
        OBVIOUS
    <2> HIDE DEF s
    <2>3. /\ tasksCh'[w] = None /\ run'[w] = s
          /\ Busy(w)' /\ run'[w].task = tasksCh[w] /\ ~Busy(w)
        BY <1>0, <2>1, <2>2 DEF Busy, BusyPc, EmitPc
    <2>4. Hands = 0
        BY <1>0, <1>2, <2>1, <2>3 DEF One
    <2> HIDE DEF Hands
    <2> QED BY <1>0, <1>3, <2>1, <2>4
<1>7. CASE Stage(w)
    <2>1. /\ cb' = cb /\ inbox' = inbox /\ stream' = stream /\ tasksCh' = tasksCh
          /\ run[w].pc = "sleep"
          /\ run' = [run EXCEPT ![w].pc = "end"] \/ run' = [run EXCEPT ![w].pc = "failed"]
        BY <1>7 DEF Stage, StageSleep, StageCancelled, mVars, wVars
    <2>2. run[w] \in RunState
        BY <1>0, <2>1 DEF Idle, Exited
    <2>3. Busy(w)' /\ Busy(w) /\ run'[w].task = run[w].task
        BY <1>0, <2>1, <2>2 DEF Busy, BusyPc, EmitPc, RunState
    <2>4. Hands = 0
        BY <1>0, <2>1, <2>3 DEF One
    <2> HIDE DEF Hands
    <2> QED BY <1>0, <1>3, <2>1, <2>4
<1>8. CASE WorkerExit(w)
    <2>1. /\ inbox' = inbox /\ faults # 0
          /\ run' = [run EXCEPT ![w] = Idle]
          /\ tasksCh' = [tasksCh EXCEPT ![w] = None]
          /\ cb' = [cb EXCEPT ![w] = None]
          /\ cb[w] = None => stream' = stream
          /\ cb[w] # None => stream' = [stream EXCEPT ![cb[w]] = @ + 1]
        BY <1>8 DEF WorkerExit, WorkerGone, Publish, mVars, Undisturbed
    <2>2. /\ cb'[w] = None /\ tasksCh'[w] = None /\ run'[w] = Idle /\ ~Busy(w)'
          /\ stream'[t] = stream[t] + One(cb[w] = t)
        BY <1>0, <1>2, <2>1 DEF Busy, BusyPc, EmitPc, Idle, One
    <2>3. Hands <= 0 /\ Hands \in Int
        <3>1. /\ One(cb'[w] = t) = 0 /\ One(tasksCh'[w] = t) = 0
              /\ One(Busy(w)' /\ run'[w].task = t) = 0
            BY <1>2, <2>2 DEF One
        <3>2. \A b : One(b) \in 0..1
            BY DEF One
        <3>3. stream[t] \in Int
            BY <1>0
        <3> QED BY <2>2, <3>1, <3>2, <3>3
    <2> HIDE DEF Hands
    <2> QED BY <1>0, <1>3, <2>1, <2>3
<1>9. CASE Emit(w)
    <2> DEFINE e == EmitEvent(w)
    <2>1. /\ cb' = cb /\ stream' = stream /\ tasksCh' = tasksCh /\ up' = up
        BY <1>9 DEF Emit, wVars
    <2>2. /\ Busy(w) /\ e.task = run[w].task
          /\ IF IsTerminal(e) THEN ~Busy(w)' ELSE Busy(w)' /\ run'[w].task = run[w].task
          /\ \A x \in Workers : x # w => run'[x] = run[x]
        BY <1>0, <1>9, EmitOutcome DEF Emit, Workers
    <2>3. e \in Event
        BY <1>0, <1>9, EmitEventType DEF Emit, EmitDone, Workers
    <2>4. CASE inbox' = inbox
        <3>1. Hands <= 0 /\ Hands \in Int
            BY <1>0, <2>1, <2>2 DEF One
        <3>2. ASSUME faults = 0 PROVE ~IsTerminal(e)
            <4>1. \E m \in Managers : up[m]
                BY <3>2, P5Assumption DEF Undisturbed
            <4>2. SUFFICES ASSUME IsTerminal(e) PROVE FALSE
                OBVIOUS
            <4>3. PICK m \in Managers : up[m] /\ inbox' = [inbox EXCEPT ![m] = Append(@, e)]
                BY <1>9, <4>1, <4>2 DEF Emit
            <4>4. inbox[m] \in Seq(Event) /\ Append(inbox[m], e) = inbox[m]
                BY <1>0, <2>4, <4>3
            <4> HIDE DEF e
            <4> QED BY <2>3, <4>4, SMT
        <3>3. ~IsTerminal(e) => Hands = 0
            BY <1>0, <2>1, <2>2 DEF One
        <3> HIDE DEF Hands
        <3> QED BY <1>3, <2>1, <2>2, <2>4, <3>1, <3>2, <3>3
    <2>5. CASE inbox' # inbox
        <3>1. IsTerminal(e) /\ \E m \in Managers : inbox' = [inbox EXCEPT ![m] = Append(@, e)]
            BY <1>9, <2>5 DEF Emit
        <3> HIDE DEF e
        <3>2. /\ IsFiniteSet(InInboxes(t)')
              /\ Cardinality(InInboxes(t)') = Cardinality(InInboxes(t)) + One(e.task = t)
            <4>1. PICK m \in Managers : inbox' = [inbox EXCEPT ![m] = Append(@, e)]
                BY <3>1
            <4>2. inbox \in [Managers -> Seq(Event)] /\ IsFiniteSet(InInboxes(t))
                BY <1>0, <1>1
            <4> QED BY <2>3, <4>1, <4>2, InboxAppend
        <3>3. Copies(t)' = Copies(t) + (stream'[t] - stream[t])
               + (One(cb'[w] = t) - One(cb[w] = t))
               + (One(tasksCh'[w] = t) - One(tasksCh[w] = t))
               + (One(Busy(w)' /\ run'[w].task = t) - One(Busy(w) /\ run[w].task = t))
               + (Cardinality(InInboxes(t)') - Cardinality(InInboxes(t)))
            BY <1>1, <2>1, <2>2, <3>2, CopiesStep
        <3>4. Copies(t)' = Copies(t)
            BY <1>0, <1>1, <2>1, <2>2, <3>1, <3>2, <3>3 DEF One
        <3> QED BY <1>1, <3>2, <3>4
    <2> QED BY <2>4, <2>5
<1> QED BY <1>4, <1>5, <1>6, <1>7, <1>8, <1>9

(* A fault at a worker makes at most one more copy, of a task that it has. *)
LEMMA WorkerFaults ==
    ASSUME TypeInv, TypeInv', InboxesFinite, NEW w \in Workers, NEW t \in Tasks,
           WorkerCrash(w) \/ WorkerStop(w) \/ \E x \in Workers : Redeliver(w, x)
    PROVE  /\ IsFiniteSet(InInboxes(t)')
           /\ Copies(t)' <= Copies(t) + 1
           /\ Copies(t) = 0 => Copies(t)' = 0
<1>0. /\ stream \in [Tasks -> Nat] /\ run \in [Workers -> RunState \cup {Idle, Exited}]
      /\ cb \in [Workers -> Tasks \cup {None}] /\ tasksCh \in [Workers -> Tasks \cup {None}]
    BY DEF TypeInv, TypeOK, ExecTypeOK, Workers
<1>1. IsFiniteSet(InInboxes(t)) /\ Copies(t) \in Nat /\ Cardinality(InInboxes(t)) \in Nat
    BY CopiesSum DEF InboxesFinite
<1>2. InInboxes(t)' = InInboxes(t)
    BY DEF WorkerCrash, WorkerGone, WorkerStop, Redeliver, mVars, InInboxes
<1>3. Copies(t)' \in Nat
    BY <1>1, <1>2, CopiesNext
<1>4. \A b : One(b) \in 0..1
    BY DEF One
<1>5. stream[t] \in Nat /\ t # None
    BY <1>0, P5Assumption
<1>6. CASE WorkerCrash(w)
    <2>1. /\ run' = [run EXCEPT ![w] = Idle]
          /\ tasksCh' = [tasksCh EXCEPT ![w] = None]
          /\ cb' = [cb EXCEPT ![w] = None]
          /\ cb[w] = None => stream' = stream
          /\ cb[w] # None => stream' = [stream EXCEPT ![cb[w]] = @ + 1]
        BY <1>6 DEF WorkerCrash, WorkerGone, Publish
    <2>2. /\ cb'[w] = None /\ tasksCh'[w] = None /\ run'[w] = Idle /\ ~Busy(w)'
          /\ stream'[t] = stream[t] + One(cb[w] = t)
        BY <1>0, <1>5, <2>1 DEF Busy, BusyPc, EmitPc, Idle, One
    <2>3. Copies(t)' = Copies(t) + (stream'[t] - stream[t])
               + (One(cb'[w] = t) - One(cb[w] = t))
               + (One(tasksCh'[w] = t) - One(tasksCh[w] = t))
               + (One(Busy(w)' /\ run'[w].task = t) - One(Busy(w) /\ run[w].task = t))
               + (Cardinality(InInboxes(t)') - Cardinality(InInboxes(t)))
        BY <1>0, <1>1, <1>2, <2>1, CopiesStep
    <2>4. /\ One(cb'[w] = t) = 0 /\ One(tasksCh'[w] = t) = 0
          /\ One(Busy(w)' /\ run'[w].task = t) = 0
        BY <1>5, <2>2 DEF One
    <2>5. Copies(t)' <= Copies(t)
        BY <1>1, <1>2, <1>4, <1>5, <2>2, <2>3, <2>4
    <2> QED BY <1>1, <1>2, <1>3, <2>5
<1>7. CASE WorkerStop(w)
    <2>1. stream' = stream /\ UNCHANGED <<cb, tasksCh, run>>
        BY <1>7 DEF WorkerStop
    <2>2. Copies(t)' = Copies(t) + (stream'[t] - stream[t])
               + (Cardinality(InInboxes(t)') - Cardinality(InInboxes(t)))
        BY <1>1, <1>2, <2>1, CopiesStill
    <2> QED BY <1>1, <1>2, <1>5, <2>1, <2>2
<1>8. CASE \E x \in Workers : Redeliver(w, x)
    <2> PICK x \in Workers : Redeliver(w, x)
        BY <1>8
    <2>1. /\ stream' = stream /\ tasksCh' = tasksCh /\ run' = run
          /\ cb[x] = None /\ cb[w] # None /\ cb' = [cb EXCEPT ![x] = cb[w]]
        BY DEF Redeliver
    <2>2. cb'[x] = cb[w] /\ (Busy(x)' <=> Busy(x))
        BY <1>0, <2>1 DEF Busy
    <2>3. Copies(t)' = Copies(t) + (stream'[t] - stream[t])
               + (One(cb'[x] = t) - One(cb[x] = t))
               + (One(tasksCh'[x] = t) - One(tasksCh[x] = t))
               + (One(Busy(x)' /\ run'[x].task = t) - One(Busy(x) /\ run[x].task = t))
               + (Cardinality(InInboxes(t)') - Cardinality(InInboxes(t)))
        BY <1>0, <1>1, <1>2, <2>1, CopiesStep
    <2>4. Copies(t)' = Copies(t) + One(cb[w] = t)
        BY <1>0, <1>1, <1>2, <1>4, <1>5, <2>1, <2>2, <2>3 DEF One
    <2>5. cb[w] = t => Copies(t) > 0
        <3>1. ASSUME cb[w] = t PROVE AtCallback(t) # {}
            BY <3>1 DEF AtCallback
        <3>2. ASSUME cb[w] = t PROVE Cardinality(AtCallback(t)) # 0
            BY <1>1, <3>1, <3>2, CopiesSum, FS_EmptySet
        <3> QED BY <1>1, <3>2, CopiesSum
    <2>6. One(cb[w] = t) = 1 => cb[w] = t
        BY DEF One
    <2> QED BY <1>1, <1>2, <1>4, <2>4, <2>5, <2>6
<1> QED BY <1>6, <1>7, <1>8

(* The bound of Budget.                                                    *)
Limit == 1 + Cardinality(Managers) * faults

LEMMA LimitFacts ==
    ASSUME TypeInv
    PROVE  /\ Cardinality(Managers) \in Nat /\ Cardinality(Managers) >= 1
           /\ faults \in Nat /\ Limit \in Nat /\ Limit >= 1
           /\ faults' = faults => Limit' = Limit
           /\ faults' = faults + 1 => Limit' = Limit + Cardinality(Managers)
           /\ faults # 0 => Limit >= 1 + Cardinality(Managers)
<1> DEFINE M == Cardinality(Managers)
<1>1. M \in Nat /\ M # 0
    BY P5Assumption, FS_CardinalityType, FS_EmptySet
<1>2. faults \in Nat
    BY P5Assumption DEF TypeInv, TypeOK
<1>3. \A m, f \in Nat : /\ m * f \in Nat /\ m * (f + 1) = m * f + m
                        /\ f # 0 => m * f >= m
    <2>1. \A m, f \in Nat : m * f \in Nat /\ m * (f + 1) = m * f + m
        BY SMT
    <2>2. ASSUME NEW m \in Nat, NEW f \in Nat, f # 0 PROVE m * f >= m
        <3>1. f - 1 \in Nat /\ (f - 1) + 1 = f
            BY <2>2
        <3>2. m * f = m * (f - 1) + m /\ m * (f - 1) \in Nat
            BY <2>1, <3>1
        <3> QED BY <3>2
    <2> QED BY <2>1, <2>2
<1> HIDE DEF M
<1>4. Limit = 1 + M * faults /\ Limit' = 1 + M * faults'
    BY DEF Limit, M
<1>5. M * faults \in Nat /\ (faults # 0 => M * faults >= M)
      /\ (faults' = faults + 1 => M * faults' = M * faults + M)
    BY <1>1, <1>2, <1>3
<1> QED BY <1>1, <1>2, <1>4, <1>5 DEF M

LEMMA SendersCount ==
    ASSUME NEW t \in Tasks
    PROVE  /\ IsFiniteSet(Senders(t)) /\ Cardinality(Senders(t)) \in Nat
           /\ Cardinality(Senders(t)) <= Cardinality(Managers)
<1>1. Senders(t) \in SUBSET Managers
    BY DEF Senders
<1> QED BY <1>1, FS_Subset, FS_CardinalityType, P5Assumption

LEMMA CopiesInvWorker ==
    ASSUME TypeInv, TypeInv', CopiesInv, NEW w \in Workers,
           \/ Deliver(w) \/ CallbackSend(w) \/ Receive(w) \/ Emit(w) \/ Stage(w)
           \/ WorkerExit(w) \/ WorkerCrash(w) \/ WorkerStop(w)
           \/ \E x \in Workers : Redeliver(w, x)
    PROVE  CopiesInv'
<1> DEFINE Faulty == WorkerCrash(w) \/ WorkerStop(w) \/ \E x \in Workers : Redeliver(w, x)
<1>1. /\ store' = store /\ req' = req /\ up' = up
      /\ stale' = stale /\ scan' = scan
    BY DEF Deliver, CallbackSend, Receive, Emit, Stage, WorkerExit, WorkerCrash, WorkerStop,
           Redeliver, WorkerGone, mgrVars, mVars
<1>2. \A t \in Tasks :
          /\ IsFiniteSet(InInboxes(t)')
          /\ IF Faulty THEN Copies(t)' <= Copies(t) + 1 ELSE Copies(t)' <= Copies(t)
          /\ Copies(t) = 0 => Copies(t)' = 0
          /\ ~Faulty /\ faults = 0 => Copies(t)' = Copies(t)
          /\ Copies(t) \in Nat /\ Copies(t)' \in Nat
    <2> TAKE t \in Tasks
    <2>1. Copies(t) \in Nat
        BY CopiesSum DEF CopiesInv, InboxesFinite
    <2>2. IsFiniteSet(InInboxes(t)') => Copies(t)' \in Nat
        BY CopiesNext
    <2>3. CASE Faulty
        BY <2>1, <2>2, <2>3, WorkerFaults DEF CopiesInv
    <2>4. CASE ~Faulty
        <3>1. /\ IsFiniteSet(InInboxes(t)') /\ Copies(t)' <= Copies(t)
              /\ faults = 0 => Copies(t)' = Copies(t)
            BY <2>4, WorkerMoves DEF CopiesInv
        <3> QED BY <2>1, <2>2, <2>4, <3>1
    <2> QED BY <2>3, <2>4
<1>3. IF Faulty THEN faults' = faults + 1 ELSE faults' = faults
    <2>1. CASE Faulty
        BY <2>1 DEF WorkerCrash, WorkerStop, Redeliver, Fault
    <2>2. CASE ~Faulty
        BY <2>2 DEF Deliver, CallbackSend, Receive, Emit, Stage, WorkerExit
    <2> QED BY <2>1, <2>2
<1>4. faults \in Nat
    BY LimitFacts
<1>5. faults' = 0 => ~Faulty /\ faults = 0
    <2> HIDE DEF Faulty
    <2> QED BY <1>3, <1>4
<1>6. RequestsInOrder'
    BY <1>1, <1>2 DEF CopiesInv, RequestsInOrder, Ended
<1>7. Undisturbed'
    <2>1. ~Faulty => \A x \in Workers : stopping'[x] => stopping[x]
        BY DEF Deliver, CallbackSend, Receive, Emit, Stage, WorkerExit, wVars, TypeInv, TypeOK
    <2> HIDE DEF Faulty
    <2> QED BY <1>1, <1>5, <2>1 DEF CopiesInv, Undisturbed
<1>8. Budget'
    <2> SUFFICES ASSUME NEW t \in Tasks
                 PROVE  Copies(t)' + Cardinality(Senders(t)') <= Limit'
        BY DEF Budget, Limit
    <2>1. Senders(t)' = Senders(t) /\ Cardinality(Senders(t)) \in Nat
        BY <1>1, SendersCount DEF Senders
    <2>2. Copies(t) + Cardinality(Senders(t)) <= Limit
        BY DEF CopiesInv, Budget, Limit
    <2>3. /\ Limit \in Nat /\ Cardinality(Managers) \in Nat /\ Cardinality(Managers) >= 1
          /\ faults' = faults => Limit' = Limit
          /\ faults' = faults + 1 => Limit' = Limit + Cardinality(Managers)
        BY LimitFacts
    <2> HIDE DEF Faulty
    <2> QED BY <1>2, <1>3, <2>1, <2>2, <2>3
<1>9. ExactlyOnce'
    <2>1. \A t \in Tasks : (Dispatched(t)' <=> Dispatched(t)) /\ One(Ended(t))' = One(Ended(t))
        BY <1>1 DEF Dispatched, Ended, One
    <2> HIDE DEF Faulty
    <2> QED BY <1>2, <1>5, <2>1 DEF CopiesInv, ExactlyOnce
<1> QED BY <1>2, <1>6, <1>7, <1>8, <1>9 DEF CopiesInv, InboxesFinite

LEMMA CopiesSame ==
    ASSUME NEW t \in Tasks, UNCHANGED <<stream, inbox, cb, tasksCh, run>>
    PROVE  Copies(t)' = Copies(t) /\ InInboxes(t)' = InInboxes(t)
BY DEF Copies, InInboxes, Busy

LEMMA CopiesInvSubmit ==
    ASSUME TypeInv, TypeInv', CopiesInv, NEW t \in Tasks,
           (\E m \in Managers : SubmitAt(m, t)) \/ Dispatch(t) \/ DispatchFails(t) \/ Answer(t)
    PROVE  CopiesInv'
<1>0. /\ store \in [Tasks -> Row] /\ req \in [Tasks -> ReqState] /\ stream \in [Tasks -> Nat]
    BY DEF TypeInv, TypeOK, MgrTypeOK
<1>1. /\ stale' = stale /\ scan' = scan /\ up' = up /\ stopping' = stopping
      /\ inbox' = inbox /\ cb' = cb /\ tasksCh' = tasksCh /\ run' = run
      /\ \A x \in Tasks : x # t => req'[x] = req[x]
    BY <1>0 DEF SubmitAt, Dispatch, DispatchFails, Answer, mVars, wVars, SubmitCreate,
                SubmitDispatched, SubmitRefused, SubmitStamp, SubmitFail
<1>2. \A x \in Tasks : /\ InInboxes(x)' = InInboxes(x) /\ IsFiniteSet(InInboxes(x))
                       /\ Copies(x) \in Nat /\ stream[x] \in Nat
                       /\ Cardinality(InInboxes(x)) \in Nat
    <2> TAKE x \in Tasks
    <2>1. InInboxes(x)' = InInboxes(x)
        BY <1>1 DEF InInboxes
    <2>2. IsFiniteSet(InInboxes(x))
        BY DEF CopiesInv, InboxesFinite
    <2> QED BY <2>1, <2>2, CopiesSum
<1>3. \A x \in Tasks : Copies(x)' = Copies(x) + (stream'[x] - stream[x])
    <2> TAKE x \in Tasks
    <2>1. Copies(x)' = Copies(x) + (stream'[x] - stream[x])
               + (Cardinality(InInboxes(x)') - Cardinality(InInboxes(x)))
        BY <1>1, <1>2, CopiesStill
    <2>2. stream'[x] \in Nat
        BY DEF TypeInv, TypeOK
    <2> QED BY <1>2, <2>1, <2>2
<1>4. \A x \in Tasks : Senders(x)' = Senders(x) /\ Cardinality(Senders(x)) \in Nat
    BY <1>1, SendersCount DEF Senders
<1>5. InboxesFinite'
    BY <1>2 DEF InboxesFinite
<1>6. /\ Limit \in Nat /\ Limit >= 1 /\ faults \in Nat /\ Cardinality(Managers) \in Nat
      /\ faults' = faults => Limit' = Limit
      /\ faults' = faults + 1 => Limit' = Limit + Cardinality(Managers)
    BY LimitFacts
<1>7. \A x \in Tasks : Copies(x) + Cardinality(Senders(x)) <= Limit
    BY DEF CopiesInv, Budget, Limit
<1>8. CASE \E m \in Managers : SubmitAt(m, t)
    <2> PICK m \in Managers : SubmitAt(m, t)
        BY <1>8
    <2>1. PICK u \in UserIDs, n \in Int : SubmitCreate(t, u, n)
        BY P5Assumption DEF SubmitAt
    <2>2. /\ \A x \in Tasks : x # t => store'[x] = store[x]
          /\ ~store'[t].dispatchedAt /\ store'[t].status \notin Terminal
        BY <1>0, <2>1, RowsOfCreate
    <2>3. /\ req[t].pc = "new" /\ req'[t].pc = "dispatch" /\ req'[t].err = req[t].err
        BY <1>0, <2>1 DEF SubmitCreate, ReqState
    <2>4. faults' = faults /\ stream' = stream
        BY DEF SubmitAt
    <2>5. \A x \in Tasks : Copies(x)' = Copies(x)
        BY <1>2, <1>3, <2>4
    <2>6. RequestsInOrder'
        BY <1>1, <2>2, <2>3, <2>5 DEF CopiesInv, RequestsInOrder, Ended
    <2>7. Undisturbed'
        BY <1>1, <2>3, <2>4 DEF CopiesInv, Undisturbed
    <2>8. Budget'
        BY <1>4, <1>6, <1>7, <2>4, <2>5 DEF Budget, Limit
    <2>9. ExactlyOnce'
        <3>1. ~Dispatched(t)'
            BY <2>3 DEF Dispatched
        <3>2. \A x \in Tasks : x # t => /\ Dispatched(x)' <=> Dispatched(x)
                                        /\ One(Ended(x))' = One(Ended(x))
            BY <1>1, <2>2 DEF Dispatched, Ended, One
        <3> QED BY <2>4, <2>5, <3>1, <3>2 DEF CopiesInv, ExactlyOnce
    <2> QED BY <1>5, <2>6, <2>7, <2>8, <2>9 DEF CopiesInv
<1>9. CASE Dispatch(t) \/ DispatchFails(t)
    <2>1. /\ store' = store /\ req[t].pc = "dispatch" /\ req'[t].pc \in {"stamp", "fail"}
          /\ Dispatch(t) => req'[t].pc = "stamp" /\ req'[t].err = req[t].err
          /\ DispatchFails(t) => req'[t].pc = "fail"
        BY <1>0, <1>9 DEF Dispatch, DispatchFails, SubmitDispatched, SubmitRefused, ReqState
    <2>2. /\ stream' = [stream EXCEPT ![t] = @ + 1] \/ stream' = stream
          /\ Dispatch(t) => stream' = [stream EXCEPT ![t] = @ + 1] /\ faults' = faults
          /\ DispatchFails(t) => faults' = faults + 1
        BY <1>9 DEF Dispatch, DispatchFails, Publish, Fault
    <2>3. /\ \A x \in Tasks : x # t => stream'[x] = stream[x]
          /\ stream'[t] = stream[t] \/ stream'[t] = stream[t] + 1
          /\ Dispatch(t) => stream'[t] = stream[t] + 1
        BY <1>0, <2>2
    <2>4. /\ \A x \in Tasks : x # t => Copies(x)' = Copies(x)
          /\ Copies(t)' \in 0..1
          /\ Dispatch(t) => Copies(t)' = 1
        <3>1. Copies(t) = 0
            BY <2>1 DEF CopiesInv, RequestsInOrder
        <3> QED BY <1>2, <1>3, <2>3, <3>1
    <2>5. Senders(t) = {}
        <3>1. ~store[t].dispatchedAt
            BY <2>1 DEF CopiesInv, RequestsInOrder
        <3> QED BY <3>1 DEF Senders, TypeInv, TypeOK, HeldTasksKnown
    <2>6. Cardinality(Senders(t)) = 0
        BY <2>5, FS_EmptySet
    <2>7. RequestsInOrder'
        <3>1. /\ \A x \in Tasks : Ended(x)' <=> Ended(x)
              /\ ~store[t].dispatchedAt /\ req[t].err = "none"
            BY <2>1 DEF CopiesInv, RequestsInOrder, Ended
        <3>2. req'[t].pc \in {"new", "dispatch", "stamp"} => req'[t].err = "none"
            BY <1>9, <2>1, <3>1
        <3> QED BY <1>1, <2>1, <2>4, <3>1, <3>2 DEF CopiesInv, RequestsInOrder
    <2>8. faults' = 0 => Dispatch(t) /\ faults = 0
        BY <1>6, <1>9, <2>2
    <2>9. Undisturbed'
        BY <1>1, <2>1, <2>8 DEF CopiesInv, Undisturbed
    <2>10. Budget'
        <3> SUFFICES ASSUME NEW x \in Tasks
                     PROVE  Copies(x)' + Cardinality(Senders(x)') <= Limit'
            BY DEF Budget, Limit
        <3>1. Limit' >= Limit /\ Limit' \in Nat
            BY <1>6, <1>9, <2>2
        <3>2. CASE x = t
            BY <1>4, <1>6, <2>4, <2>6, <3>1, <3>2
        <3>3. CASE x # t
            BY <1>2, <1>4, <1>6, <1>7, <2>4, <3>1, <3>3
        <3> QED BY <3>2, <3>3
    <2>11. ExactlyOnce'
        <3>1. \A x \in Tasks : x # t => /\ Dispatched(x)' <=> Dispatched(x)
                                        /\ One(Ended(x))' = One(Ended(x))
            BY <1>1, <2>1 DEF Dispatched, Ended, One
        <3>2. One(Ended(t))' = 0
            BY <2>1 DEF CopiesInv, RequestsInOrder, Ended, One
        <3> QED BY <2>4, <2>8, <3>1, <3>2 DEF CopiesInv, ExactlyOnce
    <2> QED BY <1>5, <2>7, <2>9, <2>10, <2>11 DEF CopiesInv
<1>10. CASE Answer(t)
    <2>1. /\ req[t].pc \in {"stamp", "fail"} /\ req'[t].pc = "done" /\ req'[t].err = req[t].err
        BY <1>0, <1>10 DEF Answer, SubmitStamp, SubmitFail, ReqState
    <2>2. faults' = faults /\ stream' = stream
        BY <1>10 DEF Answer
    <2>3. \A x \in Tasks : Copies(x)' = Copies(x)
        BY <1>2, <1>3, <2>2
    <2>4. /\ \A x \in Tasks : x # t => store'[x] = store[x]
          /\ req[t].pc = "stamp" => store'[t].status = store[t].status
        <3>1. CASE SubmitStamp(t)
            BY <1>0, <3>1, RowsOfStamp DEF SubmitStamp
        <3>2. CASE SubmitFail(t)
            BY <1>0, <3>2, RowsOfEnding DEF SubmitFail, Terminal
        <3> QED BY <1>10, <3>1, <3>2 DEF Answer
    <2>5. RequestsInOrder'
        BY <1>1, <2>1, <2>3, <2>4 DEF CopiesInv, RequestsInOrder, Ended
    <2>6. Undisturbed'
        BY <1>1, <2>1, <2>2 DEF CopiesInv, Undisturbed
    <2>7. Budget'
        BY <1>4, <1>6, <1>7, <2>2, <2>3 DEF Budget, Limit
    <2>8. ExactlyOnce'
        <3>1. \A x \in Tasks : faults = 0 => /\ Dispatched(x)' <=> Dispatched(x)
                                             /\ One(Ended(x))' = One(Ended(x))
            BY <1>1, <2>1, <2>4 DEF Dispatched, Ended, One, CopiesInv, RequestsInOrder, Undisturbed
        <3> QED BY <2>2, <2>3, <3>1 DEF CopiesInv, ExactlyOnce
    <2> QED BY <1>5, <2>5, <2>6, <2>7, <2>8 DEF CopiesInv
<1> QED BY <1>8, <1>9, <1>10

(* Only manager m moves in its scan, and the overdue mark of t stays.      *)
LEMMA SendersStep ==
    ASSUME NEW t \in Tasks, NEW m \in Managers, t \in stale <=> t \in stale',
           \A x \in Managers : x # m => scan'[x] = scan[x]
    PROVE  Cardinality(Senders(t)') = Cardinality(Senders(t)) + One(m \in Senders(t)')
                                      - One(m \in Senders(t))
<1>1. Senders(t) \ {m} = Senders(t)' \ {m}
    BY DEF Senders
<1> QED BY <1>1, CountOne, SendersCount

LEMMA SendersNext ==
    ASSUME NEW t \in Tasks
    PROVE  /\ Cardinality(Senders(t)') \in Nat
           /\ Cardinality(Senders(t)') <= Cardinality(Managers)
<1>1. Senders(t)' \in SUBSET Managers
    BY DEF Senders
<1> QED BY <1>1, FS_Subset, FS_CardinalityType, P5Assumption

(* Time and the deadline loop.                                             *)
LEMMA CopiesInvDeadline ==
    ASSUME TypeInv, TypeInv', CopiesInv, NEW m \in Managers,
           \/ \E t \in Tasks : Expire(t) \/ ExpireEarly(t)
           \/ DeadlineTick(m) \/ DeadlineDispatch(m) \/ DeadlineStamp(m)
    PROVE  CopiesInv'
<1>0. /\ store \in [Tasks -> Row] /\ stream \in [Tasks -> Nat]
      /\ scan \in [Managers -> [pc : {"tick", "dispatch", "stamp"}, todo : SUBSET Tasks,
                                task : Tasks \cup {None}]]
    BY DEF TypeInv, TypeOK, MgrTypeOK
<1>1. /\ req' = req /\ up' = up /\ stopping' = stopping
      /\ inbox' = inbox /\ cb' = cb /\ tasksCh' = tasksCh /\ run' = run
    BY DEF Expire, ExpireEarly, DeadlineTick, DeadlineDispatch, DeadlineStamp, Stamped,
           mgrVars, mVars, wVars
<1>2. \A x \in Tasks : /\ InInboxes(x)' = InInboxes(x) /\ IsFiniteSet(InInboxes(x))
                       /\ Copies(x) \in Nat /\ stream[x] \in Nat
                       /\ Cardinality(InInboxes(x)) \in Nat
    <2> TAKE x \in Tasks
    <2>1. InInboxes(x)' = InInboxes(x)
        BY <1>1 DEF InInboxes
    <2>2. IsFiniteSet(InInboxes(x))
        BY DEF CopiesInv, InboxesFinite
    <2> QED BY <2>1, <2>2, CopiesSum
<1>3. \A x \in Tasks : stream' = stream => Copies(x)' = Copies(x)
    BY <1>1, CopiesSame
<1>4. InboxesFinite'
    BY <1>2 DEF InboxesFinite
<1>5. /\ Limit \in Nat /\ Limit >= 1 /\ faults \in Nat
      /\ Cardinality(Managers) \in Nat /\ Cardinality(Managers) >= 1
      /\ faults' = faults => Limit' = Limit
      /\ faults' = faults + 1 => Limit' = Limit + Cardinality(Managers)
      /\ faults # 0 => Limit >= 1 + Cardinality(Managers)
    BY LimitFacts
<1>6. \A x \in Tasks : /\ Copies(x) + Cardinality(Senders(x)) <= Limit
                       /\ Cardinality(Senders(x)) \in Nat
                       /\ Cardinality(Senders(x)') \in Nat
                       /\ Cardinality(Senders(x)') <= Cardinality(Managers)
    BY SendersCount, SendersNext DEF CopiesInv, Budget, Limit
<1>7. ASSUME NEW t \in Tasks, Expire(t) \/ ExpireEarly(t)
      PROVE  CopiesInv'
    <2>1. /\ store' = store /\ scan' = scan /\ stale' = stale \cup {t} /\ stream' = stream
          /\ CanExpire(t)
          /\ Expire(t) => Copies(t) = 0 /\ faults' = faults
          /\ ~Expire(t) => faults' = faults + 1
        BY <1>7 DEF Expire, ExpireEarly, mgrVars, mVars, Fault
    <2>2. \A x \in Tasks : Copies(x)' = Copies(x)
        BY <1>3, <2>1
    <2>3. ASSUME Expire(t) PROVE faults # 0
        <3>1. req[t].pc = "done" /\ ~Ended(t)
            BY <2>1 DEF CanExpire, Ended, CopiesInv, RequestsInOrder
        <3>2. SUFFICES ASSUME faults = 0 PROVE FALSE
            OBVIOUS
        <3>3. Dispatched(t)
            BY <3>1, <3>2 DEF CopiesInv, Undisturbed, Dispatched
        <3>4. Copies(t) + One(Ended(t)) = 1
            BY <3>2, <3>3 DEF CopiesInv, ExactlyOnce
        <3> QED BY <2>1, <2>3, <3>1, <3>4 DEF One
    <2>4. faults' # 0
        BY <1>5, <2>1, <2>3
    <2>5. RequestsInOrder'
        BY <1>1, <2>1, <2>2 DEF CopiesInv, RequestsInOrder, Ended
    <2>6. Budget'
        <3> SUFFICES ASSUME NEW x \in Tasks
                     PROVE  Copies(x)' + Cardinality(Senders(x)') <= Limit'
            BY DEF Budget, Limit
        <3>1. CASE x # t
            <4>1. Senders(x)' = Senders(x)
                BY <2>1, <3>1 DEF Senders
            <4>2. Limit' >= Limit /\ Limit' \in Nat
                BY <1>5, <2>1
            <4> QED BY <1>2, <1>5, <1>6, <2>2, <4>1, <4>2
        <3>2. CASE x = t
            <4>1. CASE Expire(t)
                BY <1>2, <1>5, <1>6, <2>1, <2>2, <2>3, <3>2, <4>1
            <4>2. CASE ~Expire(t)
                BY <1>2, <1>5, <1>6, <2>1, <2>2, <3>2, <4>2
            <4> QED BY <4>1, <4>2
        <3> QED BY <3>1, <3>2
    <2> QED BY <1>4, <2>4, <2>5, <2>6 DEF CopiesInv, Undisturbed, ExactlyOnce
<1>8. CASE DeadlineTick(m)
    <2>1. /\ store' = store /\ stale' = stale /\ stream' = stream /\ faults' = faults
          /\ PgList # {} /\ scan[m].pc = "tick"
          /\ scan' = [scan EXCEPT ![m] = [pc |-> "dispatch", todo |-> PgList, task |-> None]]
        BY <1>8 DEF DeadlineTick, mgrVars
    <2>2. \A x \in Tasks : Copies(x)' = Copies(x)
        BY <1>3, <2>1
    <2>3. faults # 0
        BY <2>1 DEF PgList, CopiesInv, Undisturbed
    <2>4. RequestsInOrder'
        BY <1>1, <2>1, <2>2 DEF CopiesInv, RequestsInOrder, Ended
    <2>5. Budget'
        <3> SUFFICES ASSUME NEW x \in Tasks
                     PROVE  Copies(x)' + Cardinality(Senders(x)') <= Limit'
            BY DEF Budget, Limit
        <3>1. /\ scan'[m].pc = "dispatch" /\ scan'[m].todo = PgList
              /\ \A y \in Managers : y # m => scan'[y] = scan[y]
            BY <1>0, <2>1
        <3>2. m \in Senders(x)' => m \in Senders(x)
            BY <2>1, <3>1 DEF Senders, PgList
        <3>3. Cardinality(Senders(x)') = Cardinality(Senders(x)) + One(m \in Senders(x)')
                                         - One(m \in Senders(x))
            BY <2>1, <3>1, SendersStep
        <3> QED BY <1>2, <1>5, <1>6, <2>1, <2>2, <3>2, <3>3 DEF One
    <2> QED BY <1>4, <2>1, <2>3, <2>4, <2>5 DEF CopiesInv, Undisturbed, ExactlyOnce
<1>9. CASE DeadlineDispatch(m)
    <2>1. PICK t \in scan[m].todo :
              /\ scan' = [scan EXCEPT ![m] = [pc |-> "stamp", todo |-> @.todo \ {t}, task |-> t]]
              /\ \/ Publish(t) /\ UNCHANGED faults
                 \/ Fault /\ UNCHANGED stream
        BY <1>9 DEF DeadlineDispatch
    <2>2. t \in Tasks /\ store[t].dispatchedAt
        BY <1>0 DEF TypeInv, HeldTasksKnown
    <2>3. /\ scan'[m].pc = "stamp" /\ scan'[m].todo = scan[m].todo \ {t} /\ scan'[m].task = t
          /\ \A y \in Managers : y # m => scan'[y] = scan[y]
        BY <1>0, <2>1
    <2>4. store' = store /\ stale' = stale /\ scan[m].pc = "dispatch"
        BY <1>9 DEF DeadlineDispatch, mgrVars
    <2>5. \/ /\ stream'[t] = stream[t] + 1 /\ faults' = faults
             /\ \A x \in Tasks : x # t => stream'[x] = stream[x]
          \/ stream' = stream /\ faults' = faults + 1
        BY <1>0, <2>1, <2>2 DEF Publish, Fault
    <2>6. \A x \in Tasks : Copies(x)' = Copies(x) + (stream'[x] - stream[x])
        <3> TAKE x \in Tasks
        <3>1. Copies(x)' = Copies(x) + (stream'[x] - stream[x])
               + (Cardinality(InInboxes(x)') - Cardinality(InInboxes(x)))
            BY <1>1, <1>2, CopiesStill
        <3>2. stream'[x] \in Nat
            BY DEF TypeInv, TypeOK
        <3> QED BY <1>2, <3>1, <3>2
    <2>7. faults # 0 /\ faults' # 0
        <3>1. faults # 0
            BY <2>4 DEF CopiesInv, Undisturbed
        <3> QED BY <1>5, <2>5, <3>1
    <2>8. RequestsInOrder'
        <3>1. req[t].pc = "done"
            BY <2>2 DEF CopiesInv, RequestsInOrder
        <3>2. \A x \in Tasks : x # t => Copies(x)' = Copies(x)
            BY <1>2, <2>5, <2>6
        <3> QED BY <1>1, <2>4, <3>1, <3>2 DEF CopiesInv, RequestsInOrder, Ended
    <2>9. Budget'
        <3> SUFFICES ASSUME NEW x \in Tasks
                     PROVE  Copies(x)' + Cardinality(Senders(x)') <= Limit'
            BY DEF Budget, Limit
        <3>1. Cardinality(Senders(x)') = Cardinality(Senders(x)) + One(m \in Senders(x)')
                                         - One(m \in Senders(x))
            BY <2>3, <2>4, SendersStep
        <3>2. CASE x = t
            <4>1. m \in Senders(x) /\ m \notin Senders(x)'
                BY <2>3, <2>4, <3>2 DEF Senders
            <4>2. Cardinality(Senders(x)') = Cardinality(Senders(x)) - 1
                BY <1>6, <3>1, <4>1 DEF One
            <4>3. CASE stream'[t] = stream[t] + 1 /\ faults' = faults
                BY <1>2, <1>5, <1>6, <2>6, <3>2, <4>2, <4>3
            <4>4. CASE stream' = stream /\ faults' = faults + 1
                BY <1>2, <1>3, <1>5, <1>6, <3>2, <4>2, <4>4
            <4> QED BY <2>5, <4>3, <4>4
        <3>3. CASE x # t
            <4>1. m \in Senders(x) <=> m \in Senders(x)'
                BY <2>3, <2>4, <3>3 DEF Senders
            <4>2. Cardinality(Senders(x)') = Cardinality(Senders(x))
                BY <1>6, <3>1, <4>1 DEF One
            <4>3. Copies(x)' = Copies(x)
                BY <1>2, <2>5, <2>6, <3>3
            <4> QED BY <1>2, <1>5, <1>6, <2>5, <4>2, <4>3
        <3> QED BY <3>2, <3>3
    <2> QED BY <1>4, <2>7, <2>8, <2>9 DEF CopiesInv, Undisturbed, ExactlyOnce
<1>10. CASE DeadlineStamp(m)
    <2> DEFINE t == scan[m].task
               s == IF scan[m].todo = {} THEN NoScan
                    ELSE [[scan[m] EXCEPT !.pc = "dispatch"] EXCEPT !.task = None]
    <2>1. t \in Tasks /\ store[t].dispatchedAt /\ scan[m].pc = "stamp" /\ SetDispatchedAt(t)
        BY <1>10 DEF DeadlineStamp, TypeInv, HeldTasksKnown
    <2>2. /\ stale' = stale \ {t} /\ stream' = stream /\ faults' = faults
          /\ scan' = [scan EXCEPT ![m] = s]
        BY <1>0, <1>10 DEF DeadlineStamp, Stamped
    <2>3. s.pc # "stamp" /\ s.todo = scan[m].todo
        BY <1>0 DEF NoScan
    <2> HIDE DEF s
    <2>4. /\ scan'[m].pc # "stamp" /\ scan'[m].todo = scan[m].todo
          /\ \A y \in Managers : y # m => scan'[y] = scan[y]
        BY <1>0, <2>2, <2>3
    <2>5. /\ \A x \in Tasks : store'[x].status = store[x].status
          /\ \A x \in Tasks : store'[x].dispatchedAt => store[x].dispatchedAt
        <3>1. /\ \A x \in Tasks : x # t => store'[x] = store[x]
              /\ store'[t].status = store[t].status
            BY <1>0, <2>1, RowsOfStamp
        <3> QED BY <2>1, <3>1
    <2>6. \A x \in Tasks : Copies(x)' = Copies(x)
        BY <1>3, <2>2
    <2>7. faults # 0
        BY <2>1 DEF CopiesInv, Undisturbed
    <2>8. RequestsInOrder'
        BY <1>1, <2>5, <2>6 DEF CopiesInv, RequestsInOrder, Ended
    <2>9. Budget'
        <3> SUFFICES ASSUME NEW x \in Tasks
                     PROVE  Copies(x)' + Cardinality(Senders(x)') <= Limit'
            BY DEF Budget, Limit
        <3>1. Senders(x)' \in SUBSET Senders(x)
            <4> SUFFICES ASSUME NEW y \in Senders(x)' PROVE y \in Senders(x)
                OBVIOUS
            <4>1. CASE y = m
                BY <2>1, <2>2, <2>4, <4>1 DEF Senders
            <4>2. CASE y # m
                BY <2>2, <2>4, <4>2 DEF Senders
            <4> QED BY <4>1, <4>2
        <3>2. Cardinality(Senders(x)') <= Cardinality(Senders(x))
            BY <3>1, SendersCount, FS_Subset
        <3> QED BY <1>2, <1>5, <1>6, <2>2, <2>6, <3>2
    <2> QED BY <1>4, <2>2, <2>7, <2>8, <2>9 DEF CopiesInv, Undisturbed, ExactlyOnce
<1> QED BY <1>7, <1>8, <1>9, <1>10

(* The event loop and the manager processes.                               *)
LEMMA CopiesInvManager ==
    ASSUME TypeInv, TypeInv', CopiesInv, NEW m \in Managers,
           EventLoop(m) \/ ManagerCrash(m) \/ ManagerRestart(m)
    PROVE  CopiesInv'
<1>0. /\ store \in [Tasks -> Row] /\ req \in [Tasks -> ReqState]
      /\ inbox \in [Managers -> Seq(Event)]
      /\ scan \in [Managers -> [pc : {"tick", "dispatch", "stamp"}, todo : SUBSET Tasks,
                                task : Tasks \cup {None}]]
    BY DEF TypeInv, TypeOK, MgrTypeOK
<1>1. /\ stale' = stale /\ stopping' = stopping /\ stream' = stream
      /\ UNCHANGED <<cb, tasksCh, run>>
    BY DEF EventLoop, ManagerCrash, ManagerRestart, mgrVars, wVars
<1>2. \A x \in Tasks : /\ IsFiniteSet(InInboxes(x)) /\ Cardinality(InInboxes(x)) \in Nat
                       /\ Copies(x) \in Nat /\ stream[x] \in Nat
    <2> TAKE x \in Tasks
    <2>1. IsFiniteSet(InInboxes(x))
        BY DEF CopiesInv, InboxesFinite
    <2> QED BY <2>1, CopiesSum
<1>3. ASSUME NEW x \in Tasks, IsFiniteSet(InInboxes(x)')
      PROVE  /\ Copies(x)' = Copies(x) + (Cardinality(InInboxes(x)') - Cardinality(InInboxes(x)))
             /\ Cardinality(InInboxes(x)') \in Nat /\ Copies(x)' \in Nat
    <2>1. Copies(x)' = Copies(x) + (stream'[x] - stream[x])
               + (Cardinality(InInboxes(x)') - Cardinality(InInboxes(x)))
        BY <1>1, <1>2, <1>3, CopiesStill
    <2>2. Cardinality(InInboxes(x)') \in Nat
        BY <1>3, FS_CardinalityType
    <2>3. Copies(x)' = Copies(x) + (Cardinality(InInboxes(x)') - Cardinality(InInboxes(x)))
        BY <1>1, <1>2, <2>1, <2>2
    <2> QED BY <1>3, <2>2, <2>3, CopiesNext
<1>4. /\ Limit \in Nat /\ Limit >= 1 /\ faults \in Nat
      /\ Cardinality(Managers) \in Nat /\ Cardinality(Managers) >= 1
      /\ faults' = faults => Limit' = Limit
      /\ faults' = faults + 1 => Limit' = Limit + Cardinality(Managers)
    BY LimitFacts
<1>5. \A x \in Tasks : /\ Copies(x) + Cardinality(Senders(x)) <= Limit
                       /\ Cardinality(Senders(x)) \in Nat
                       /\ Cardinality(Senders(x)') \in Nat
    BY SendersCount, SendersNext DEF CopiesInv, Budget, Limit
<1>6. CASE EventLoop(m)
    <2> DEFINE e == Head(inbox[m])
    <2>1. inbox[m] \in Seq(Event) /\ inbox[m] # <<>>
        BY <1>0, <1>6 DEF EventLoop
    <2>2. e \in Event /\ IsTerminal(e)
        BY <2>1, ReceiveElements DEF TypeInv, InboxEndings
    <2>3. e.task \in Tasks /\ e.status \in Terminal
        BY <2>2 DEF Event, IsTerminal
    <2>4. /\ PgSetStatus(e.task, e.status) /\ inbox' = [inbox EXCEPT ![m] = Tail(@)]
          /\ req' = req /\ up' = up /\ scan' = scan /\ faults' = faults
        BY <1>6 DEF EventLoop
    <2>5. \A x \in Tasks :
              /\ IsFiniteSet(InInboxes(x)')
              /\ Cardinality(InInboxes(x)') = Cardinality(InInboxes(x)) - One(e.task = x)
        BY <1>0, <1>2, <2>1, <2>4, InboxTail
    <2> HIDE DEF e
    <2>6. /\ \A x \in Tasks : x # e.task => store'[x] = store[x]
          /\ store'[e.task].dispatchedAt = store[e.task].dispatchedAt
          /\ Exists(e.task) => store'[e.task].status \in Terminal
        BY <1>0, <2>3, <2>4, RowsOfEnding
    <2>7. \A x \in Tasks : /\ Copies(x)' = Copies(x) - One(e.task = x) /\ Copies(x)' \in Nat
        BY <1>2, <1>3, <2>5 DEF One
    <2>8. Copies(e.task) > 0
        BY <1>2, <2>3, <2>7 DEF One
    <2>9. \A x \in Tasks : x # e.task => Copies(x)' = Copies(x)
        BY <1>2, <2>7 DEF One
    <2>10. RequestsInOrder'
        BY <2>3, <2>4, <2>6, <2>8, <2>9 DEF CopiesInv, RequestsInOrder, Ended
    <2>11. Undisturbed'
        BY <1>1, <2>4 DEF CopiesInv, Undisturbed
    <2>12. Budget'
        <3>1. \A x \in Tasks : Senders(x)' = Senders(x)
            BY <1>1, <2>4 DEF Senders
        <3> QED BY <1>2, <1>4, <1>5, <2>4, <2>7, <3>1 DEF Budget, Limit, One
    <2>13. ExactlyOnce'
        <3> SUFFICES ASSUME NEW x \in Tasks, faults = 0, Dispatched(x)
                     PROVE  Copies(x)' + One(Ended(x))' = 1
            BY <2>4 DEF ExactlyOnce, Dispatched
        <3>1. Copies(x) + One(Ended(x)) = 1
            BY DEF CopiesInv, ExactlyOnce
        <3>2. CASE x # e.task
            BY <2>6, <2>9, <3>1, <3>2 DEF One, Ended
        <3>3. CASE x = e.task
            <4>1. Exists(x)
                BY DEF Dispatched, TypeInv, HeldTasksKnown, Known
            <4>2. Ended(x)'
                BY <2>6, <3>3, <4>1 DEF Ended
            <4> QED BY <1>2, <2>7, <2>8, <3>1, <3>3, <4>2 DEF One
        <3> QED BY <3>2, <3>3
    <2> QED BY <2>5, <2>10, <2>11, <2>12, <2>13 DEF CopiesInv, InboxesFinite
<1>7. CASE ManagerCrash(m)
    <2>1. /\ faults' = faults + 1 /\ store' = store
          /\ inbox' = [inbox EXCEPT ![m] = <<>>] /\ scan' = [scan EXCEPT ![m] = NoScan]
        BY <1>7 DEF ManagerCrash, Fault
    <2>2. \A x \in Tasks : req'[x] = req[x] \/ req'[x].pc = "done"
        BY <1>0, <1>7 DEF ManagerCrash
    <2>3. \A x \in Tasks : req[x].pc = "done" => req'[x] = req[x]
        BY <1>0, <1>7 DEF ManagerCrash
    <2>4. \A x \in Tasks : /\ IsFiniteSet(InInboxes(x)')
                           /\ Cardinality(InInboxes(x)') <= Cardinality(InInboxes(x))
        BY <1>0, <1>2, <2>1, InboxCrash
    <2>5. \A x \in Tasks : Copies(x)' <= Copies(x) /\ Copies(x)' \in Nat
        BY <1>2, <1>3, <2>4
    <2>6. RequestsInOrder'
        <3>1. \A x \in Tasks : Copies(x) = 0 => Copies(x)' = 0
            BY <1>2, <2>5
        <3> QED BY <2>1, <2>2, <2>3, <3>1 DEF CopiesInv, RequestsInOrder, Ended
    <2>7. faults' # 0
        BY <1>4, <2>1
    <2>8. Budget'
        <3> SUFFICES ASSUME NEW x \in Tasks
                     PROVE  Copies(x)' + Cardinality(Senders(x)') <= Limit'
            BY DEF Budget, Limit
        <3>1. \A y \in Managers : y # m => scan'[y] = scan[y]
            BY <1>0, <2>1
        <3>2. Cardinality(Senders(x)') = Cardinality(Senders(x)) + One(m \in Senders(x)')
                                         - One(m \in Senders(x))
            BY <1>1, <3>1, SendersStep
        <3>3. Cardinality(Senders(x)') <= Cardinality(Senders(x)) + 1
            BY <1>5, <3>2 DEF One
        <3> QED BY <1>2, <1>4, <1>5, <2>1, <2>5, <3>3
    <2> QED BY <2>4, <2>6, <2>7, <2>8
            DEF CopiesInv, InboxesFinite, Undisturbed, ExactlyOnce
<1>8. CASE ManagerRestart(m)
    <2>1. /\ store' = store /\ req' = req /\ inbox' = inbox /\ scan' = scan
          /\ faults' = faults /\ up' = [up EXCEPT ![m] = TRUE]
        BY <1>8 DEF ManagerRestart, mgrVars
    <2>2. \A x \in Tasks : Copies(x)' = Copies(x) /\ InInboxes(x)' = InInboxes(x)
        BY <1>1, <2>1, CopiesSame
    <2>3. \A x \in Tasks : Senders(x)' = Senders(x)
        BY <1>1, <2>1 DEF Senders
    <2>4. Undisturbed'
        BY <1>1, <2>1 DEF CopiesInv, Undisturbed, TypeInv, TypeOK
    <2>5. RequestsInOrder' /\ ExactlyOnce'
        BY <2>1, <2>2 DEF CopiesInv, RequestsInOrder, ExactlyOnce, Ended, Dispatched, One
    <2> QED BY <2>1, <2>2, <2>3, <2>4, <2>5 DEF CopiesInv, InboxesFinite, Budget
<1> QED BY <1>6, <1>7, <1>8

LEMMA CopiesInvInit == Init => CopiesInv
<1> SUFFICES ASSUME Init PROVE CopiesInv
    OBVIOUS
<1>0. TypeInv
    BY TypeInvInit
<1>1. Len(<<>>) = 0 /\ 1..0 = {}
    BY SMT
<1>2. ASSUME NEW t \in Tasks PROVE Copies(t) = 0 /\ IsFiniteSet(InInboxes(t))
    <2>1. InInboxes(t) = {}
        BY <1>1 DEF Init, InInboxes
    <2>2. AtCallback(t) = {} /\ InChannel(t) = {} /\ Executing(t) = {} /\ stream[t] = 0
        BY P5Assumption DEF Init, ExecInit, AtCallback, InChannel, Executing, Busy, BusyPc,
                            EmitPc, Idle, Workers
    <2>3. Cardinality({}) = 0 /\ IsFiniteSet({})
        BY FS_EmptySet
    <2>4. Copies(t) = stream[t] + Cardinality(AtCallback(t)) + Cardinality(InChannel(t))
                      + Cardinality(Executing(t)) + Cardinality(InInboxes(t))
        BY DEF Copies, AtCallback, InChannel, Executing
    <2> QED BY <2>1, <2>2, <2>3, <2>4
<1>3. \A t \in Tasks : /\ req[t].pc = "new" /\ req[t].err = "none" /\ ~store[t].dispatchedAt
                       /\ ~Ended(t) /\ ~Dispatched(t)
    BY DEF Init, MgrInit, NoRow, Ended, Terminal, Dispatched
<1>4. \A t \in Tasks : Senders(t) = {}
    BY DEF Init, Senders, NoScan
<1>5. Budget
    <2>1. Cardinality({}) = 0
        BY FS_EmptySet
    <2>2. Limit \in Nat /\ Limit >= 1
        BY <1>0, LimitFacts
    <2> QED BY <1>2, <1>4, <2>1, <2>2 DEF Budget, Limit
<1>6. Undisturbed
    BY <1>3 DEF Undisturbed, Init, NoScan
<1> QED BY <1>2, <1>3, <1>5, <1>6 DEF CopiesInv, RequestsInOrder, ExactlyOnce, InboxesFinite

LEMMA CopiesInvStep == TypeInv /\ CopiesInv /\ [Next]_vars => CopiesInv'
<1> SUFFICES ASSUME TypeInv, CopiesInv, [Next]_vars PROVE CopiesInv'
    OBVIOUS
<1>0. TypeInv'
    BY TypeInvStep
<1>1. ASSUME NEW t \in Tasks, Dispatch(t) \/ Answer(t) \/ DispatchFails(t)
                              \/ \E m \in Managers : SubmitAt(m, t)
      PROVE  CopiesInv'
    BY <1>0, <1>1, CopiesInvSubmit
<1>2. ASSUME NEW t \in Tasks, Expire(t) \/ ExpireEarly(t)
      PROVE  CopiesInv'
    <2> PICK m : m \in Managers
        BY P5Assumption
    <2> QED BY <1>0, <1>2, CopiesInvDeadline
<1>3. ASSUME NEW m \in Managers,
             DeadlineTick(m) \/ DeadlineDispatch(m) \/ DeadlineStamp(m)
      PROVE  CopiesInv'
    BY <1>0, <1>3, CopiesInvDeadline
<1>4. ASSUME NEW m \in Managers, EventLoop(m) \/ ManagerRestart(m) \/ ManagerCrash(m)
      PROVE  CopiesInv'
    BY <1>0, <1>4, CopiesInvManager
<1>5. ASSUME NEW w \in Workers,
             \/ Deliver(w) \/ CallbackSend(w) \/ Receive(w) \/ Emit(w) \/ Stage(w)
             \/ WorkerExit(w) \/ WorkerCrash(w) \/ WorkerStop(w)
             \/ \E x \in Workers : Redeliver(w, x)
      PROVE  CopiesInv'
    BY <1>0, <1>5, CopiesInvWorker
<1>6. CASE UNCHANGED vars
    <2>1. \A x \in Tasks : Copies(x)' = Copies(x) /\ InInboxes(x)' = InInboxes(x)
        BY <1>6, CopiesSame DEF vars
    <2>2. \A x \in Tasks : Senders(x)' = Senders(x)
        BY <1>6 DEF Senders, vars
    <2> QED BY <1>6, <2>1, <2>2 DEF CopiesInv, RequestsInOrder, Undisturbed, Budget, ExactlyOnce,
                                    InboxesFinite, Ended, Dispatched, One, vars
<1> QED BY <1>1, <1>2, <1>3, <1>4, <1>5, <1>6 DEF Next, System

(* However many managers run runDeadlineLoop over the same rows: without a *)
(* fault a dispatched task is executed exactly once, and every crash, stop,*)
(* failed publish or late step costs at most one execution per manager.    *)
THEOREM CopiesBoundedCorrect == Spec => []CopiesBounded
<1>1. TypeInv /\ CopiesInv => CopiesBounded
    <2> SUFFICES ASSUME TypeInv, CopiesInv, NEW t \in Tasks
                 PROVE  /\ Copies(t) <= 1 + Cardinality(Managers) * faults
                        /\ faults = 0 /\ Dispatched(t)
                              => Copies(t) + (IF Ended(t) THEN 1 ELSE 0) = 1
        BY DEF CopiesBounded
    <2>1. Copies(t) + Cardinality(Senders(t)) <= Limit
        BY DEF CopiesInv, Budget, Limit
    <2>2. Copies(t) \in Nat /\ Cardinality(Senders(t)) \in Nat /\ Limit \in Nat
        BY CopiesSum, SendersCount, LimitFacts DEF CopiesInv, InboxesFinite
    <2>3. Copies(t) <= Limit
        BY <2>1, <2>2
    <2> QED BY <2>3 DEF Limit, CopiesInv, ExactlyOnce, One
<1> QED BY TypeInvInit, TypeInvStep, CopiesInvInit, CopiesInvStep, <1>1, PTL DEF Spec
=============================================================================
