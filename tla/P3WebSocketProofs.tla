------------------------- MODULE P3WebSocketProofs -------------------------
(***************************************************************************)
(* Theorems about pattern 3 for every number of tasks, workers and         *)
(* connections, every capacity of the buffers and every choice of the      *)
(* connections that fail and of the processes that are stopped.            *)
(***************************************************************************)
EXTENDS P3WebSocket, CoreProofs

-----------------------------------------------------------------------------
(* A family of channels, one per member of D: whether one of them holds a  *)
(* member of S, and that all of them together do not hold two.             *)

HoldsAt(f, m, S) == Holds(f[m], S)
HoldsAny(f, D, S) == \E m \in D : HoldsAt(f, m, S)

HoldsOnce(f, D, S) ==
    /\ \A m \in D : HoldsOne(f[m], S)
    /\ \A m, n \in D : HoldsAt(f, m, S) /\ HoldsAt(f, n, S) => m = n

-----------------------------------------------------------------------------
(* The dispatcher.                                                         *)

Registered(k) == Holds(workers, {k})

(* A connection is in p.workers, once, exactly while readPump reads, and   *)
(* its channel is closed after that only; before Register it has no        *)
(* channel.                                                                *)
HubOf(k) ==
    /\ Registered(k) <=> reader[k] \in {"read", "release"}
    /\ HoldsOne(workers, {k})
    /\ sendClosed[k] => reader[k] = "gone"
    /\ reader[k] = "none" => sendQ[k] = <<>>
    /\ link[k] = "new" => reader[k] = "none" /\ outQ[k] = <<>>

HubInv == \A k \in Conns : HubOf(k)

-----------------------------------------------------------------------------
(* The workers.                                                            *)

(* reconnectLoop has a connection from the dial on, its own, and Emit sees *)
(* it while runConn runs.                                                  *)
DialOf(w) ==
    /\ conn[w] = None <=> dialPc[w] = "dial"
    /\ conn[w] # None => link[conn[w]] # "new"
    /\ currentSend[w] = IF dialPc[w] = "run" THEN conn[w] ELSE None

OwnConn == \A v, w \in Workers : conn[v] = conn[w] /\ conn[v] # None => v = w

(* A run executes the task it is named after in a worker process, and an   *)
(* Emit that waits for room is an Emit of a run.                           *)
RunOf(t) ==
    /\ Busy(t) => run[t].task = t /\ host[t] \in Workers
    /\ via[t] # None => Busy(t) /\ link[via[t]] # "new"

WorkerInv ==
    /\ \A w \in Workers : DialOf(w)
    /\ OwnConn
    /\ \A t \in Tasks : RunOf(t)

(* No connection has failed.                                               *)
Lasting == \A k \in Conns : link[k] # "down"

(* Then a worker that holds a task is connected, and one told to stop has  *)
(* a connection to take down with it.                                      *)
Attended ==
    /\ \A w \in Workers : tasksCh[w] # <<>> => dialPc[w] = "run"
    /\ \A t \in Tasks : Busy(t) => dialPc[host[t]] = "run"
    /\ \A w \in Workers : stopping[w] => conn[w] # None

-----------------------------------------------------------------------------
(* The places of Holders, as predicates.                                   *)

EndsOf(t) == {e \in Event : IsEndOf(e, t)}

Sent(t) == HoldsAny(sendQ, Conns, {t})
OnWire(t) == HoldsAny(down, Conns, {t})
Received(t) == HoldsAny(tasksCh, Workers, {t})
EndOut(t) == HoldsAny(outQ, Conns, EndsOf(t))
EndUp(t) == HoldsAny(up, Conns, EndsOf(t))
EndInChan(t) == Holds(eventsCh, EndsOf(t))

(* Task t is not at two places ...                                         *)
OnePlace(t) ==
    /\ Sent(t) => /\ ~OnWire(t) /\ ~Received(t) /\ ~Busy(t)
                  /\ ~EndOut(t) /\ ~EndUp(t) /\ ~EndInChan(t) /\ ~Ended(t)
    /\ OnWire(t) => /\ ~Received(t) /\ ~Busy(t)
                    /\ ~EndOut(t) /\ ~EndUp(t) /\ ~EndInChan(t) /\ ~Ended(t)
    /\ Received(t) => /\ ~Busy(t)
                      /\ ~EndOut(t) /\ ~EndUp(t) /\ ~EndInChan(t) /\ ~Ended(t)
    /\ Busy(t) => ~EndOut(t) /\ ~EndUp(t) /\ ~EndInChan(t) /\ ~Ended(t)
    /\ EndOut(t) => ~EndUp(t) /\ ~EndInChan(t) /\ ~Ended(t)
    /\ EndUp(t) => ~EndInChan(t) /\ ~Ended(t)
    /\ EndInChan(t) => ~Ended(t)

(* ... nor twice at one.                                                   *)
SentOnce(t) == HoldsOnce(sendQ, Conns, {t})
WireOnce(t) == HoldsOnce(down, Conns, {t})
ReceivedOnce(t) == HoldsOnce(tasksCh, Workers, {t})
OutOnce(t) == HoldsOnce(outQ, Conns, EndsOf(t))
UpOnce(t) == HoldsOnce(up, Conns, EndsOf(t))
ChanOnce(t) == HoldsOne(eventsCh, EndsOf(t))

Single(t) ==
    /\ SentOnce(t) /\ WireOnce(t) /\ ReceivedOnce(t)
    /\ OutOnce(t) /\ UpOnce(t) /\ ChanOnce(t)

Somewhere(t) ==
    \/ Sent(t) \/ OnWire(t) \/ Received(t) \/ Busy(t)
    \/ EndOut(t) \/ EndUp(t) \/ EndInChan(t) \/ Ended(t)

(* A task that is somewhere has a row, and one that has a row is somewhere *)
(* unless a connection has failed.                                         *)
Accounted(t) ==
    /\ Somewhere(t) => Known(t)
    /\ Exists(t) => Known(t) /\ (Lasting => Somewhere(t))

PlaceInv == \A t \in Tasks : OnePlace(t) /\ Single(t) /\ Accounted(t)

CustodyInv == HubInv /\ WorkerInv /\ (Lasting => Attended) /\ PlaceInv

-----------------------------------------------------------------------------
(* What is under way on connection k, and what busy says of it.            *)

UnderWay(t, k) ==
    \/ HoldsAt(sendQ, k, {t}) \/ HoldsAt(down, k, {t})
    \/ \E w \in Workers : conn[w] = k /\ (HoldsAt(tasksCh, w, {t}) \/ (Busy(t) /\ host[t] = w))
    \/ HoldsAt(outQ, k, EndsOf(t)) \/ HoldsAt(up, k, EndsOf(t))

ServiceOf(k) ==
    /\ \A t \in Tasks : UnderWay(t, k) => busy[k] /\ reader[k] = "read"
    /\ \A t, u \in Tasks : UnderWay(t, k) /\ UnderWay(u, k) => t = u
    /\ reader[k] = "release" => busy[k]

ServiceInv ==
    Lasting => /\ \A k \in Conns : ServiceOf(k)
               /\ \A t \in Tasks : via[t] # None => via[t] = conn[host[t]]

-----------------------------------------------------------------------------
(* Sends, receives and losses in a family of channels.                     *)

(* r is what is left of s when its end is lost.                            *)
Cropped(s, r) ==
    /\ Len(r) \in Nat /\ Len(s) \in Nat /\ Len(r) <= Len(s)
    /\ \A i \in 1..Len(r) : r[i] = s[i]

LEMMA HoldsCropped ==
    ASSUME NEW s, NEW r, NEW S, Cropped(s, r)
    PROVE  /\ Holds(r, S) => Holds(s, S)
           /\ HoldsOne(s, S) => HoldsOne(r, S)
<1>1. \A i \in 1..Len(r) : i \in 1..Len(s) /\ r[i] = s[i]
    BY SMT DEF Cropped
<1> QED BY <1>1 DEF Holds, HoldsOne

(* What lasts of a sequence when a connection fails, and when its process  *)
(* ends.                                                                   *)
LEMMA CropSteps ==
    ASSUME NEW E, NEW s \in Seq(E)
    PROVE  /\ \A r \in Prefixes(s) : r \in Seq(E) /\ Cropped(s, r)
           /\ <<>> \in Seq(E) /\ Cropped(s, <<>>)
<1>1. ASSUME NEW l \in 0..Len(s) PROVE SubSeq(s, 1, l) \in Seq(E) /\ Cropped(s, SubSeq(s, 1, l))
    BY SMT DEF Cropped
<1>2. <<>> \in Seq(E) /\ Cropped(s, <<>>)
    BY SMT DEF Cropped
<1> QED BY <1>1, <1>2 DEF Prefixes

(* r is s after a receive of e.                                            *)
TakenFrom(s, r, e) == ReceivedFrom(s, r) /\ s[1] = e

LEMMA HoldsTaken ==
    ASSUME NEW s, NEW r, NEW e, NEW S, TakenFrom(s, r, e), HoldsOne(s, S)
    PROVE  /\ Holds(r, S) <=> Holds(s, S) /\ e \notin S
           /\ e \in S => Holds(s, S)
           /\ HoldsOne(r, S)
BY HoldsReceived DEF TakenFrom

(* g is f after a send of e on the channel of m, or after a receive.       *)
SentAt(f, g, D, m, e) == SentTo(f[m], g[m], e) /\ \A x \in D : x # m => g[x] = f[x]
TakenAt(f, g, D, m, e) == TakenFrom(f[m], g[m], e) /\ \A x \in D : x # m => g[x] = f[x]

LEMMA FamilySent ==
    ASSUME NEW D, NEW m \in D, NEW S, NEW e, NEW f, NEW g, SentAt(f, g, D, m, e)
    PROVE  /\ HoldsAny(g, D, S) <=> HoldsAny(f, D, S) \/ e \in S
           /\ HoldsAt(g, m, S) <=> HoldsAt(f, m, S) \/ e \in S
           /\ HoldsOnce(f, D, S) /\ ~(e \in S /\ HoldsAny(f, D, S)) => HoldsOnce(g, D, S)
<1>1. /\ HoldsAt(g, m, S) <=> HoldsAt(f, m, S) \/ e \in S
      /\ HoldsOne(f[m], S) /\ ~(e \in S /\ HoldsAt(f, m, S)) => HoldsOne(g[m], S)
    BY HoldsSent DEF SentAt, HoldsAt
<1>2. \A x \in D : x # m => /\ HoldsAt(g, x, S) <=> HoldsAt(f, x, S)
                            /\ HoldsOne(g[x], S) <=> HoldsOne(f[x], S)
    BY DEF SentAt, HoldsAt
<1>3. HoldsAny(g, D, S) <=> HoldsAny(f, D, S) \/ e \in S
    BY <1>1, <1>2 DEF HoldsAny
<1>4. ASSUME HoldsOnce(f, D, S), ~(e \in S /\ HoldsAny(f, D, S)) PROVE HoldsOnce(g, D, S)
    <2>1. \A x \in D : HoldsOne(g[x], S)
        BY <1>1, <1>2, <1>4 DEF HoldsOnce, HoldsAny
    <2>2. \A x, y \in D : HoldsAt(g, x, S) /\ HoldsAt(g, y, S) => x = y
        BY <1>1, <1>2, <1>4 DEF HoldsOnce, HoldsAny
    <2> QED BY <2>1, <2>2 DEF HoldsOnce
<1> QED BY <1>1, <1>2, <1>3, <1>4

LEMMA FamilyTaken ==
    ASSUME NEW D, NEW m \in D, NEW S, NEW e, NEW f, NEW g, TakenAt(f, g, D, m, e)
    PROVE  HoldsOnce(f, D, S) =>
              /\ HoldsAny(g, D, S) <=> HoldsAny(f, D, S) /\ e \notin S
              /\ e \in S => HoldsAny(f, D, S) /\ HoldsAt(f, m, S)
              /\ HoldsAt(g, m, S) <=> HoldsAt(f, m, S) /\ e \notin S
              /\ HoldsOnce(g, D, S)
<1> SUFFICES ASSUME HoldsOnce(f, D, S)
             PROVE  /\ HoldsAny(g, D, S) <=> HoldsAny(f, D, S) /\ e \notin S
                    /\ e \in S => HoldsAny(f, D, S) /\ HoldsAt(f, m, S)
                    /\ HoldsAt(g, m, S) <=> HoldsAt(f, m, S) /\ e \notin S
                    /\ HoldsOnce(g, D, S)
    OBVIOUS
<1>0. HoldsOne(f[m], S)
    BY DEF HoldsOnce
<1>1. /\ HoldsAt(g, m, S) <=> HoldsAt(f, m, S) /\ e \notin S
      /\ e \in S => HoldsAt(f, m, S)
      /\ HoldsOne(g[m], S)
    BY <1>0, HoldsTaken DEF TakenAt, HoldsAt
<1>2. \A x \in D : x # m => /\ HoldsAt(g, x, S) <=> HoldsAt(f, x, S)
                            /\ HoldsOne(g[x], S) <=> HoldsOne(f[x], S)
    BY DEF TakenAt, HoldsAt
<1>3. HoldsAny(g, D, S) <=> HoldsAny(f, D, S) /\ e \notin S
    BY <1>1, <1>2 DEF HoldsAny, HoldsOnce
<1>4. HoldsOnce(g, D, S)
    <2>1. \A x \in D : HoldsOne(g[x], S)
        BY <1>1, <1>2 DEF HoldsOnce
    <2>2. \A x, y \in D : HoldsAt(g, x, S) /\ HoldsAt(g, y, S) => x = y
        BY <1>1, <1>2 DEF HoldsOnce
    <2> QED BY <2>1, <2>2 DEF HoldsOnce
<1> QED BY <1>1, <1>3, <1>4 DEF HoldsAny

LEMMA FamilyCropped ==
    ASSUME NEW D, NEW S, NEW f, NEW g, \A x \in D : g[x] = f[x] \/ Cropped(f[x], g[x])
    PROVE  /\ HoldsAny(g, D, S) => HoldsAny(f, D, S)
           /\ HoldsOnce(f, D, S) => HoldsOnce(g, D, S)
<1>1. ASSUME NEW x \in D
      PROVE  /\ HoldsAt(g, x, S) => HoldsAt(f, x, S)
             /\ HoldsOne(f[x], S) => HoldsOne(g[x], S)
    <2>1. CASE g[x] = f[x]
        BY <2>1 DEF HoldsAt
    <2>2. CASE Cropped(f[x], g[x])
        BY <2>2, HoldsCropped DEF HoldsAt
    <2> QED BY <2>1, <2>2
<1>2. HoldsAny(g, D, S) => HoldsAny(f, D, S)
    BY <1>1 DEF HoldsAny
<1>3. HoldsOnce(f, D, S) => HoldsOnce(g, D, S)
    BY <1>1 DEF HoldsOnce
<1> QED BY <1>2, <1>3

-----------------------------------------------------------------------------
(* p.workers and the scan of Dispatch.                                     *)

(* What the type invariant says, unpacked.                                 *)
LEMMA Types ==
    ASSUME TypeOK
    PROVE  /\ MgrTypeOK /\ ExecTypeOK
           /\ store \in [Tasks -> Row] /\ run \in [Tasks -> RunState \cup {Idle, Exited}]
           /\ workers \in Seq(Conns) /\ nextIdx \in Nat
           /\ busy \in [Conns -> BOOLEAN] /\ sendClosed \in [Conns -> BOOLEAN]
           /\ reader \in [Conns -> {"none", "read", "release", "close", "gone"}]
           /\ eventsCh \in Seq(Event) /\ Len(eventsCh) <= EventsCap
           /\ link \in [Conns -> {"new", "up", "down"}]
           /\ sendQ \in [Conns -> Seq(Tasks)] /\ down \in [Conns -> Seq(Tasks)]
           /\ outQ \in [Conns -> Seq(Event)] /\ up \in [Conns -> Seq(Event)]
           /\ \A k \in Conns : /\ Len(sendQ[k]) <= SendCap /\ Len(down[k]) <= WireCap
                               /\ Len(outQ[k]) <= OutCap /\ Len(up[k]) <= WireCap
           /\ dialPc \in [Workers -> {"dial", "attach", "run"}]
           /\ conn \in [Workers -> Conns \cup {None}]
           /\ currentSend \in [Workers -> Conns \cup {None}]
           /\ tasksCh \in [Workers -> Seq(Tasks)]
           /\ \A w \in Workers : Len(tasksCh[w]) <= 1
           /\ host \in [Tasks -> Workers \cup {None}]
           /\ via \in [Tasks -> Conns \cup {None}]
           /\ stopping \in [Workers -> BOOLEAN]
<1>1. nextIdx \in Nat
    BY SMT DEF TypeOK
<1>2. MgrTypeOK /\ store \in [Tasks -> Row]
    BY DEF TypeOK, MgrTypeOK
<1>3. ExecTypeOK /\ run \in [Tasks -> RunState \cup {Idle, Exited}]
    BY P3Assumption DEF TypeOK, ExecTypeOK
<1> QED BY <1>1, <1>2, <1>3 DEF TypeOK

LEMMA Bounds ==
    /\ SendCap \in Nat \ {0} /\ OutCap \in Nat \ {0}
    /\ EventsCap \in Nat \ {0} /\ WireCap \in Nat \ {0}
    /\ StageCounts \subseteq Int /\ Runs = Tasks
    /\ None \notin Conns /\ None \notin Workers /\ IsFiniteSet(Conns)
BY P3Assumption

(* remove takes the one entry of k out and leaves the others as they are.  *)
LEMMA Removed ==
    ASSUME workers \in Seq(Conns), NEW k \in Conns, HoldsOne(workers, {k}), Registered(k),
           NEW r, r = RemoveFirst(workers, k)
    PROVE  /\ r \in Seq(Conns)
           /\ \A x \in Conns : Holds(r, {x}) <=> Holds(workers, {x}) /\ x # k
           /\ \A x \in Conns : HoldsOne(workers, {x}) => HoldsOne(r, {x})
<1> DEFINE N == Len(workers)
<1>1. PICK n \in 1..N : workers[n] = k
    BY DEF Registered, Holds
<1>2. \A i \in 1..N : workers[i] = k => i = n
    BY <1>1 DEF HoldsOne
<1>3. SelectInSeq(workers, LAMBDA v : v = k) = n
    <2>1. {i \in 1..N : workers[i] = k} = {n}
        BY <1>1, <1>2
    <2>2. Min({n}) = n
        BY SMT DEF Min
    <2> QED BY <2>1, <2>2 DEF SelectInSeq
<1>4. r = SubSeq(workers, 1, n - 1) \o SubSeq(workers, n + 1, N)
    BY <1>1, <1>3 DEF RemoveFirst, RemoveAt
<1>5. /\ N \in Nat /\ n \in Nat /\ r \in Seq(Conns) /\ Len(r) = N - 1
      /\ \A i \in 1..Len(r) : r[i] = IF i < n THEN workers[i] ELSE workers[i + 1]
    <2>1. N \in Nat /\ n \in Nat /\ 1 <= n /\ n <= N
        BY SMT
    <2>2. /\ SubSeq(workers, 1, n - 1) \in Seq(Conns) /\ Len(SubSeq(workers, 1, n - 1)) = n - 1
          /\ \A i \in 1..(n - 1) : SubSeq(workers, 1, n - 1)[i] = workers[i]
        BY <2>1, SMT
    <2>3. /\ SubSeq(workers, n + 1, N) \in Seq(Conns) /\ Len(SubSeq(workers, n + 1, N)) = N - n
          /\ \A i \in 1..(N - n) : SubSeq(workers, n + 1, N)[i] = workers[n + i]
        BY <2>1, SMT
    <2> DEFINE a == SubSeq(workers, 1, n - 1)
               b == SubSeq(workers, n + 1, N)
    <2>4. /\ r \in Seq(Conns) /\ Len(r) = Len(a) + Len(b)
          /\ \A i \in 1..Len(r) : r[i] = IF i <= Len(a) THEN a[i] ELSE b[i - Len(a)]
        <3>1. a \in Seq(Conns) /\ b \in Seq(Conns) /\ r = a \o b
            BY <1>4, <2>2, <2>3
        <3> HIDE DEF a, b
        <3> QED BY <3>1, ConcatProperties
    <2> HIDE DEF a, b, N
    <2>5. Len(r) = N - 1
        BY <2>1, <2>2, <2>3, <2>4, SMT DEF a, b
    <2>6. ASSUME NEW i \in 1..Len(r)
          PROVE  r[i] = IF i < n THEN workers[i] ELSE workers[i + 1]
        <3>1. CASE i < n
            <4>1. i \in 1..(n - 1) /\ i <= Len(a)
                BY <2>1, <2>2, <3>1, SMT DEF a
            <4> QED BY <2>2, <2>4, <3>1, <4>1 DEF a
        <3>2. CASE ~(i < n)
            <4>1. /\ i - Len(a) = i - (n - 1) /\ i - (n - 1) \in 1..(N - n) /\ ~(i <= Len(a))
                  /\ n + (i - (n - 1)) = i + 1
                BY <2>1, <2>2, <2>5, <3>2, SMT DEF a
            <4>2. r[i] = b[i - (n - 1)]
                BY <2>4, <4>1
            <4> QED BY <2>3, <3>2, <4>1, <4>2 DEF b
        <3> QED BY <3>1, <3>2
    <2> QED BY <2>1, <2>4, <2>5, <2>6
<1>6. /\ \A i \in 1..Len(r) : \E j \in 1..N : j # n /\ r[i] = workers[j]
      /\ \A j \in 1..N : j # n => \E i \in 1..Len(r) : r[i] = workers[j]
    <2>1. ASSUME NEW i \in 1..Len(r) PROVE \E j \in 1..N : j # n /\ r[i] = workers[j]
        <3> HIDE DEF N
        <3>1. CASE i < n
            <4>1. i \in 1..N /\ i # n /\ r[i] = workers[i]
                BY <1>5, <3>1, SMT
            <4> QED BY <4>1
        <3>2. CASE ~(i < n)
            <4>1. i + 1 \in 1..N /\ i + 1 # n /\ r[i] = workers[i + 1]
                BY <1>5, <3>2, SMT
            <4> QED BY <4>1
        <3> QED BY <3>1, <3>2
    <2>2. ASSUME NEW j \in 1..N, j # n PROVE \E i \in 1..Len(r) : r[i] = workers[j]
        <3> HIDE DEF N
        <3>1. CASE j < n
            <4>1. j \in 1..Len(r) /\ r[j] = workers[j]
                BY <1>5, <2>2, <3>1, SMT
            <4> QED BY <4>1
        <3>2. CASE ~(j < n)
            <4>1. j - 1 \in 1..Len(r) /\ r[j - 1] = workers[j]
                BY <1>5, <2>2, <3>2, SMT
            <4> QED BY <4>1
        <3> QED BY <3>1, <3>2
    <2> QED BY <2>1, <2>2
<1>7. ASSUME NEW x \in Conns PROVE Holds(r, {x}) <=> Holds(workers, {x}) /\ x # k
    <2> HIDE DEF N
    <2>1. ASSUME NEW i \in 1..Len(r), r[i] = x PROVE Holds(workers, {x}) /\ x # k
        BY <1>2, <1>6, <2>1 DEF Holds, N
    <2>2. ASSUME NEW j \in 1..N, workers[j] = x, x # k PROVE Holds(r, {x})
        <3>1. j # n
            BY <1>1, <2>2
        <3> QED BY <1>6, <2>2, <3>1 DEF Holds
    <2> QED BY <2>1, <2>2 DEF Holds, N
<1>8. ASSUME NEW x \in Conns, HoldsOne(workers, {x}) PROVE HoldsOne(r, {x})
    <2> SUFFICES ASSUME NEW i \in 1..Len(r), NEW j \in 1..Len(r), r[i] = x, r[j] = x
                 PROVE  i = j
        BY DEF HoldsOne
    <2> DEFINE p(a) == IF a < n THEN a ELSE a + 1
    <2>1. \A a \in 1..Len(r) : p(a) \in 1..N /\ workers[p(a)] = r[a]
        <3> HIDE DEF N
        <3> QED BY <1>5, SMT
    <2>2. p(i) = p(j)
        <3> HIDE DEF p
        <3> QED BY <1>8, <2>1 DEF HoldsOne
    <2> QED BY <1>5, <2>2, SMT
<1> QED BY <1>5, <1>7, <1>8

(* No connection is registered twice, so p.workers is no longer than the   *)
(* number of connections ever dialled.                                     *)
LEMMA HubLength ==
    ASSUME workers \in Seq(Conns), HubInv
    PROVE  Len(workers) \in Nat /\ Len(workers) <= Cardinality(Conns) /\ Cardinality(Conns) \in Nat
<1> DEFINE N == Len(workers)
           D == 1..N
<1>1. N \in Nat /\ IsFiniteSet(Conns)
    BY P3Assumption, SMT
<1>2. Cardinality(Conns) \in Nat
    BY <1>1, FS_CardinalityType
<1>3. workers \in [D -> Conns]
    BY SMT
<1>4. \A i, j \in D : workers[i] = workers[j] => i = j
    BY <1>3 DEF HubInv, HubOf, HoldsOne
<1>5. workers \in Injection(D, Conns)
    <2> HIDE DEF D
    <2> QED BY <1>3, <1>4 DEF Injection, IsInjective
<1>6. Cardinality(D) <= Cardinality(Conns)
    <2> HIDE DEF D
    <2> QED BY <1>1, <1>5, FS_Injection
<1>7. Cardinality(D) = N
    <2> HIDE DEF N
    <2>1. Cardinality(1..N) = IF 1 > N THEN 0 ELSE N - 1 + 1
        BY <1>1, FS_Interval
    <2> QED BY <1>1, <2>1, SMT
<1> QED BY <1>1, <1>2, <1>6, <1>7

(* The scan looks at registered connections, and what it leaves in nextIdx *)
(* is an index of p.workers.                                               *)
LEMMA Scan ==
    ASSUME TypeOK, HubInv, NEW i \in Offsets
    PROVE  /\ Slot(i) \in Conns /\ Registered(Slot(i))
           /\ LET n == (Idx(i) + 1) % Len(workers)
              IN  n = 0 \/ n \in 1..(Cardinality(Conns) - 1)
<1>0. workers \in Seq(Conns) /\ nextIdx \in Nat
    BY Types
<1>1. Len(workers) \in Nat /\ Len(workers) <= Cardinality(Conns) /\ Cardinality(Conns) \in Nat
    BY <1>0, HubLength
<1>2. i \in Nat /\ Len(workers) > 0
    BY <1>1, SMT DEF Offsets
<1> DEFINE N == Len(workers)
           j == Idx(i)
<1>3. j \in 0..(N - 1)
    BY <1>0, <1>1, <1>2, SMT DEF Idx
<1>4. (j + 1) % N \in 0..(N - 1)
    <2> HIDE DEF j, N
    <2>1. N \in Nat /\ N > 0
        BY <1>1, <1>2 DEF N
    <2> QED BY <1>3, <2>1, SMT
<1>5. j + 1 \in 1..Len(workers)
    BY <1>1, <1>3, SMT
<1>6. workers[j + 1] \in Conns
    BY <1>0, <1>5
<1>7. (j + 1) % N = 0 \/ (j + 1) % N \in 1..(Cardinality(Conns) - 1)
    <2> DEFINE q == (j + 1) % N
    <2>1. q \in 0..(N - 1)
        BY <1>4
    <2> HIDE DEF q
    <2>2. q = 0 \/ q \in 1..(Cardinality(Conns) - 1)
        BY <1>1, <2>1, SMT
    <2> QED BY <2>2 DEF q
<1> QED BY <1>5, <1>6, <1>7 DEF Slot, Registered, Holds

-----------------------------------------------------------------------------
(* A send, a receive and a loss on the channel of m, as the actions write  *)
(* them, and what they do with the family.                                 *)

Family(f, D, E, cap) == f \in [D -> Seq(E)] /\ \A x \in D : Len(f[x]) <= cap

PutOn(f, g, m, e, cap) == Len(f[m]) < cap /\ g = [f EXCEPT ![m] = Append(@, e)]
TakeOn(f, g, m, e) == f[m] # <<>> /\ e = Head(f[m]) /\ g = [f EXCEPT ![m] = Tail(@)]
CropOn(f, g, m) == \E r \in Prefixes(f[m]) \cup {<<>>} : g = [f EXCEPT ![m] = r]

IsPut(f, g, D, m, e) ==
    /\ \A x \in D : x # m => g[x] = f[x]
    /\ \A S : /\ HoldsAny(g, D, S) <=> HoldsAny(f, D, S) \/ e \in S
              /\ HoldsAt(g, m, S) <=> HoldsAt(f, m, S) \/ e \in S
              /\ HoldsOnce(f, D, S) /\ ~(e \in S /\ HoldsAny(f, D, S)) => HoldsOnce(g, D, S)

IsTake(f, g, D, m, e) ==
    /\ f[m] # <<>>
    /\ \A x \in D : x # m => g[x] = f[x]
    /\ \A S : HoldsOnce(f, D, S) =>
          /\ HoldsAny(g, D, S) <=> HoldsAny(f, D, S) /\ e \notin S
          /\ e \in S => HoldsAny(f, D, S) /\ HoldsAt(f, m, S)
          /\ HoldsAt(g, m, S) <=> HoldsAt(f, m, S) /\ e \notin S
          /\ HoldsOnce(g, D, S)

IsCrop(f, g, D, m) ==
    /\ \A x \in D : x # m => g[x] = f[x]
    /\ f[m] = <<>> => g[m] = <<>>
    /\ \A S : /\ HoldsAny(g, D, S) => HoldsAny(f, D, S)
              /\ HoldsOnce(f, D, S) => HoldsOnce(g, D, S)

LEMMA Put ==
    ASSUME NEW D, NEW E, NEW cap \in Nat, NEW f, Family(f, D, E, cap), NEW m \in D, NEW e \in E,
           NEW g, PutOn(f, g, m, e, cap)
    PROVE  Family(g, D, E, cap) /\ IsPut(f, g, D, m, e)
<1>1. /\ f[m] \in Seq(E) /\ g[m] = Append(f[m], e) /\ \A x \in D : x # m => g[x] = f[x]
      /\ Len(f[m]) < cap
    BY DEF Family, PutOn
<1>2. g[m] \in Seq(E) /\ SentTo(f[m], g[m], e)
    BY <1>1, ChannelSteps
<1>3. g \in [D -> Seq(E)]
    BY <1>2 DEF Family, PutOn
<1>4. SentAt(f, g, D, m, e)
    BY <1>1, <1>2 DEF SentAt
<1>5. \A S : /\ HoldsAny(g, D, S) <=> HoldsAny(f, D, S) \/ e \in S
             /\ HoldsAt(g, m, S) <=> HoldsAt(f, m, S) \/ e \in S
             /\ HoldsOnce(f, D, S) /\ ~(e \in S /\ HoldsAny(f, D, S)) => HoldsOnce(g, D, S)
    BY <1>4, FamilySent
<1>6. Len(g[m]) <= cap
    BY <1>1, <1>2 DEF SentTo
<1>7. \A x \in D : Len(g[x]) <= cap
    BY <1>1, <1>6 DEF Family
<1> QED BY <1>1, <1>3, <1>5, <1>7 DEF IsPut, Family

LEMMA Take ==
    ASSUME NEW D, NEW E, NEW cap \in Nat, NEW f, Family(f, D, E, cap), NEW m \in D, NEW e,
           NEW g, TakeOn(f, g, m, e)
    PROVE  e \in E /\ Family(g, D, E, cap) /\ IsTake(f, g, D, m, e)
<1>1. /\ f[m] \in Seq(E) /\ g[m] = Tail(f[m]) /\ \A x \in D : x # m => g[x] = f[x]
      /\ f[m] # <<>> /\ e = Head(f[m]) /\ Len(f[m]) <= cap
    BY DEF Family, TakeOn
<1>2. ASSUME NEW s \in Seq(E), s # <<>>
      PROVE  /\ Tail(s) \in Seq(E) /\ TakenFrom(s, Tail(s), Head(s)) /\ Head(s) \in E
             /\ Len(Tail(s)) = Len(s) - 1 /\ Len(s) \in Nat
    BY <1>2, ChannelSteps DEF TakenFrom, ReceivedFrom
<1>3. /\ g[m] \in Seq(E) /\ TakenFrom(f[m], g[m], e) /\ e \in E
      /\ Len(g[m]) = Len(f[m]) - 1 /\ Len(f[m]) \in Nat
    BY <1>1, <1>2
<1>4. g \in [D -> Seq(E)]
    BY <1>3 DEF Family, TakeOn
<1>5. TakenAt(f, g, D, m, e)
    BY <1>1, <1>3 DEF TakenAt
<1>6. \A S : HoldsOnce(f, D, S) =>
                 /\ HoldsAny(g, D, S) <=> HoldsAny(f, D, S) /\ e \notin S
                 /\ e \in S => HoldsAny(f, D, S) /\ HoldsAt(f, m, S)
                 /\ HoldsAt(g, m, S) <=> HoldsAt(f, m, S) /\ e \notin S
                 /\ HoldsOnce(g, D, S)
    BY <1>5, FamilyTaken
<1>7. Len(g[m]) <= cap
    BY <1>1, <1>3
<1>8. \A x \in D : Len(g[x]) <= cap
    BY <1>1, <1>7 DEF Family
<1> QED BY <1>1, <1>3, <1>4, <1>6, <1>8 DEF IsTake, Family

LEMMA Crop ==
    ASSUME NEW D, NEW E, NEW cap \in Nat, NEW f, Family(f, D, E, cap), NEW m \in D,
           NEW g, CropOn(f, g, m)
    PROVE  Family(g, D, E, cap) /\ IsCrop(f, g, D, m)
<1>0. PICK r \in Prefixes(f[m]) \cup {<<>>} : g = [f EXCEPT ![m] = r]
    BY DEF CropOn
<1>1. f[m] \in Seq(E) /\ Len(f[m]) <= cap
    BY DEF Family
<1>2. r \in Seq(E) /\ Cropped(f[m], r)
    BY <1>0, <1>1, CropSteps
<1>3. g \in [D -> Seq(E)] /\ g[m] = r /\ \A x \in D : x # m => g[x] = f[x]
    BY <1>0, <1>2 DEF Family
<1>4. \A x \in D : g[x] = f[x] \/ Cropped(f[x], g[x])
    BY <1>2, <1>3
<1>5. \A S : /\ HoldsAny(g, D, S) => HoldsAny(f, D, S)
             /\ HoldsOnce(f, D, S) => HoldsOnce(g, D, S)
    BY <1>4, FamilyCropped
<1>6. Len(g[m]) <= cap
    BY <1>1, <1>2, <1>3 DEF Cropped
<1>7. \A x \in D : Len(g[x]) <= cap
    BY <1>3, <1>6 DEF Family
<1>8. f[m] = <<>> => g[m] = <<>>
    <2>1. ASSUME f[m] = <<>> PROVE Len(r) = 0
        BY <1>2, <2>1 DEF Cropped
    <2> QED BY <1>2, <1>3, <2>1, EmptySeq
<1> QED BY <1>3, <1>5, <1>7, <1>8 DEF IsCrop, Family

(* The families of pattern 3.                                              *)
LEMMA Families ==
    ASSUME TypeOK
    PROVE  /\ Family(sendQ, Conns, Tasks, SendCap) /\ Family(down, Conns, Tasks, WireCap)
           /\ Family(tasksCh, Workers, Tasks, 1)
           /\ Family(outQ, Conns, Event, OutCap) /\ Family(up, Conns, Event, WireCap)
           /\ SendCap \in Nat /\ OutCap \in Nat /\ EventsCap \in Nat /\ WireCap \in Nat
BY Types, Bounds DEF Family

-----------------------------------------------------------------------------
(* Frames: what a step keeps when it leaves the variables alone.           *)

LEMMA Unmoved ==
    ASSUME NEW t \in Tasks
    PROVE  /\ UNCHANGED sendQ => (Sent(t)' <=> Sent(t)) /\ (SentOnce(t)' <=> SentOnce(t))
           /\ UNCHANGED down => (OnWire(t)' <=> OnWire(t)) /\ (WireOnce(t)' <=> WireOnce(t))
           /\ UNCHANGED tasksCh => /\ Received(t)' <=> Received(t)
                                   /\ ReceivedOnce(t)' <=> ReceivedOnce(t)
           /\ UNCHANGED run => (Busy(t)' <=> Busy(t))
           /\ UNCHANGED outQ => (EndOut(t)' <=> EndOut(t)) /\ (OutOnce(t)' <=> OutOnce(t))
           /\ UNCHANGED up => (EndUp(t)' <=> EndUp(t)) /\ (UpOnce(t)' <=> UpOnce(t))
           /\ UNCHANGED eventsCh => (EndInChan(t)' <=> EndInChan(t)) /\ (ChanOnce(t)' <=> ChanOnce(t))
<1>1. EndsOf(t)' = EndsOf(t)
    BY DEF EndsOf, IsEndOf
<1>2. UNCHANGED sendQ => (Sent(t)' <=> Sent(t)) /\ (SentOnce(t)' <=> SentOnce(t))
    BY DEF Sent, SentOnce
<1>3. UNCHANGED down => (OnWire(t)' <=> OnWire(t)) /\ (WireOnce(t)' <=> WireOnce(t))
    BY DEF OnWire, WireOnce
<1>4. UNCHANGED tasksCh => (Received(t)' <=> Received(t)) /\ (ReceivedOnce(t)' <=> ReceivedOnce(t))
    BY DEF Received, ReceivedOnce
<1>5. UNCHANGED run => (Busy(t)' <=> Busy(t))
    BY DEF Busy
<1>6. UNCHANGED outQ => (EndOut(t)' <=> EndOut(t)) /\ (OutOnce(t)' <=> OutOnce(t))
    BY <1>1 DEF EndOut, OutOnce
<1>7. UNCHANGED up => (EndUp(t)' <=> EndUp(t)) /\ (UpOnce(t)' <=> UpOnce(t))
    BY <1>1 DEF EndUp, UpOnce
<1>8. UNCHANGED eventsCh => (EndInChan(t)' <=> EndInChan(t)) /\ (ChanOnce(t)' <=> ChanOnce(t))
    BY <1>1 DEF EndInChan, ChanOnce
<1> QED BY <1>2, <1>3, <1>4, <1>5, <1>6, <1>7, <1>8

(* A row is as good as it was, and ended when it was.                      *)
LEMMA SameRow ==
    ASSUME NEW t \in Tasks, store'[t] = store[t]
    PROVE  /\ Ended(t)' <=> Ended(t)
           /\ Exists(t)' <=> Exists(t)
           /\ Known(t)' <=> Known(t)
BY DEF Ended, Exists, Known

(* The step leaves task t where it is ...                                  *)
Stays(t) ==
    /\ Sent(t)' <=> Sent(t)
    /\ OnWire(t)' <=> OnWire(t)
    /\ Received(t)' <=> Received(t)
    /\ Busy(t)' <=> Busy(t)
    /\ EndOut(t)' <=> EndOut(t)
    /\ EndUp(t)' <=> EndUp(t)
    /\ EndInChan(t)' <=> EndInChan(t)
    /\ Ended(t)' <=> Ended(t)
    /\ Exists(t)' => Exists(t)
    /\ Known(t) => Known(t)'

(* ... or leaves it there or loses it.                                     *)
StaysOrLost(t) ==
    /\ Sent(t)' => Sent(t)
    /\ OnWire(t)' => OnWire(t)
    /\ Received(t)' => Received(t)
    /\ Busy(t)' => Busy(t)
    /\ EndOut(t)' => EndOut(t)
    /\ EndUp(t)' => EndUp(t)
    /\ EndInChan(t)' => EndInChan(t)
    /\ Ended(t)' => Ended(t)
    /\ Exists(t)' => Exists(t)
    /\ Known(t) => Known(t)'

LEMMA PlaceStep ==
    ASSUME PlaceInv, Lasting' => Lasting, \A t \in Tasks : Single(t)',
           \A t \in Tasks : \/ Stays(t)
                            \/ StaysOrLost(t) /\ ~Lasting'
                            \/ OnePlace(t)' /\ Accounted(t)'
    PROVE  PlaceInv'
<1>1. ASSUME NEW t \in Tasks, Stays(t) PROVE OnePlace(t)' /\ Accounted(t)'
    <2>1. OnePlace(t)'
        BY <1>1 DEF PlaceInv, Stays, OnePlace
    <2>2. Accounted(t)'
        BY <1>1 DEF PlaceInv, Stays, Accounted, Somewhere
    <2> QED BY <2>1, <2>2
<1>2. ASSUME NEW t \in Tasks, StaysOrLost(t), ~Lasting' PROVE OnePlace(t)' /\ Accounted(t)'
    <2>1. OnePlace(t)'
        BY <1>2 DEF PlaceInv, StaysOrLost, OnePlace
    <2>2. Accounted(t)'
        BY <1>2 DEF PlaceInv, StaysOrLost, Accounted, Somewhere
    <2> QED BY <2>1, <2>2
<1> QED BY <1>1, <1>2 DEF PlaceInv

LEMMA HubFrame ==
    ASSUME HubInv, UNCHANGED <<workers, reader, sendClosed, sendQ, link, outQ>>
    PROVE  HubInv'
<1>1. ASSUME NEW k \in Conns PROVE HubOf(k)'
    BY DEF HubInv, HubOf, Registered
<1> QED BY <1>1 DEF HubInv

LEMMA WorkerFrame ==
    ASSUME WorkerInv, UNCHANGED <<dialPc, conn, currentSend, run, host, via, link>>
    PROVE  WorkerInv'
<1>1. ASSUME NEW w \in Workers PROVE DialOf(w)'
    BY DEF WorkerInv, DialOf
<1>2. ASSUME NEW t \in Tasks PROVE RunOf(t)'
    BY DEF WorkerInv, RunOf, Busy
<1> QED BY <1>1, <1>2 DEF WorkerInv, OwnConn

LEMMA AttendedFrame ==
    ASSUME Lasting => Attended, UNCHANGED <<dialPc, conn, run, host, link, tasksCh, stopping>>
    PROVE  Lasting' => Attended'
BY DEF Lasting, Attended, Busy

-----------------------------------------------------------------------------
(* The initial state.                                                      *)

LEMMA InitHolds == Init => TypeOK /\ CustodyInv
<1> SUFFICES ASSUME Init PROVE TypeOK /\ CustodyInv
    OBVIOUS
<1>1. MgrTypeOK /\ ExecTypeOK
    BY MgrTypeInit, ExecTypeInit DEF Init
<1>2. TypeOK
    <2>1. \A S : <<>> \in Seq(S)
        OBVIOUS
    <2>2. /\ workers \in Seq(Conns)
          /\ eventsCh \in Seq(Event) /\ Len(eventsCh) <= EventsCap
        BY Bounds, SMT DEF Init
    <2>3. /\ sendQ \in [Conns -> Seq(Tasks)] /\ down \in [Conns -> Seq(Tasks)]
          /\ outQ \in [Conns -> Seq(Event)] /\ up \in [Conns -> Seq(Event)]
          /\ tasksCh \in [Workers -> Seq(Tasks)]
        BY <2>1 DEF Init
    <2>4. Len(<<>>) = 0
        BY SMT
    <2>5. /\ \A k \in Conns : sendQ[k] = <<>> /\ down[k] = <<>> /\ outQ[k] = <<>> /\ up[k] = <<>>
          /\ \A w \in Workers : tasksCh[w] = <<>>
        BY DEF Init
    <2>6. 0 <= SendCap /\ 0 <= WireCap /\ 0 <= OutCap /\ 0 <= 1
        BY Bounds
    <2>7. /\ \A k \in Conns : /\ Len(sendQ[k]) <= SendCap /\ Len(down[k]) <= WireCap
                              /\ Len(outQ[k]) <= OutCap /\ Len(up[k]) <= WireCap
          /\ \A w \in Workers : Len(tasksCh[w]) <= 1
        BY <2>4, <2>5, <2>6
    <2> QED BY <1>1, <2>2, <2>3, <2>7 DEF Init, TypeOK
<1>3. \A t \in Tasks : ~Exists(t) /\ ~Ended(t) /\ ~Busy(t)
    BY Bounds
    DEF Init, MgrInit, ExecInit, NoRow, Exists, Ended, Terminal, Idle, Busy, BusyPc, EmitPc
<1>4. ASSUME NEW D, NEW f, f = [m \in D |-> <<>>], NEW S
      PROVE  ~HoldsAny(f, D, S) /\ HoldsOnce(f, D, S)
    <2>1. \A m \in D : f[m] = <<>>
        BY <1>4
    <2>2. \A m \in D : ~HoldsAt(f, m, S) /\ HoldsOne(f[m], S)
        BY <2>1, HoldsNothing DEF HoldsAt
    <2> QED BY <2>2 DEF HoldsAny, HoldsOnce
<1>5. ASSUME NEW t \in Tasks
      PROVE  /\ ~Sent(t) /\ ~OnWire(t) /\ ~Received(t) /\ ~EndOut(t) /\ ~EndUp(t) /\ ~EndInChan(t)
             /\ Single(t)
    <2>1. ~Sent(t) /\ SentOnce(t)
        BY <1>4 DEF Init, Sent, SentOnce
    <2>2. ~OnWire(t) /\ WireOnce(t)
        BY <1>4 DEF Init, OnWire, WireOnce
    <2>3. ~Received(t) /\ ReceivedOnce(t)
        BY <1>4 DEF Init, Received, ReceivedOnce
    <2>4. ~EndOut(t) /\ OutOnce(t)
        BY <1>4 DEF Init, EndOut, OutOnce
    <2>5. ~EndUp(t) /\ UpOnce(t)
        BY <1>4 DEF Init, EndUp, UpOnce
    <2>6. ~EndInChan(t) /\ ChanOnce(t)
        BY HoldsNothing DEF Init, EndInChan, ChanOnce
    <2> QED BY <2>1, <2>2, <2>3, <2>4, <2>5, <2>6 DEF Single
<1>6. PlaceInv
    BY <1>3, <1>5 DEF PlaceInv, OnePlace, Accounted, Somewhere
<1>7. HubInv
    <2>1. ASSUME NEW k \in Conns PROVE HubOf(k)
        <3>1. ~Registered(k) /\ HoldsOne(workers, {k})
            BY HoldsNothing DEF Init, Registered
        <3> QED BY <3>1 DEF Init, HubOf
    <2> QED BY <2>1 DEF HubInv
<1>8. WorkerInv
    <2>1. ASSUME NEW w \in Workers PROVE DialOf(w)
        BY DEF Init, DialOf
    <2>2. ASSUME NEW t \in Tasks PROVE RunOf(t)
        BY <1>3 DEF Init, RunOf
    <2> QED BY <2>1, <2>2 DEF WorkerInv, OwnConn, Init
<1>9. Attended
    BY <1>3 DEF Attended, Init
<1> QED BY <1>2, <1>6, <1>7, <1>8, <1>9 DEF CustodyInv

-----------------------------------------------------------------------------
(* What the executor's steps and Offer do with the places.                 *)

(* A run whose Emit returns: it goes on unless the event was its ending.   *)
LEMMA EmitMoves ==
    ASSUME TypeOK, WorkerInv, NEW t \in Tasks, EmitDone(t)
    PROVE  /\ EmitEvent(t) \in Event /\ EmitEvent(t).task = t
           /\ Busy(t) /\ host[t] \in Workers
           /\ IF IsTerminal(EmitEvent(t)) THEN ~Busy(t)' ELSE Busy(t)' /\ run'[t].task = t
           /\ \A x \in Tasks : x # t => run'[x] = run[x] /\ ~IsEndOf(EmitEvent(t), x)
           /\ \A x \in Tasks : x # t => (Busy(x)' <=> Busy(x))
           /\ IsEndOf(EmitEvent(t), t) <=> IsTerminal(EmitEvent(t))
           /\ ExecTypeOK'
<1>0. ExecTypeOK /\ t \in Runs /\ Runs = Tasks
    BY Types, Bounds
<1>1. /\ Busy(t) /\ EmitEvent(t).task = run[t].task
      /\ IF IsTerminal(EmitEvent(t)) THEN ~Busy(t)' ELSE Busy(t)' /\ run'[t].task = run[t].task
      /\ \A x \in Tasks : x # t => run'[x] = run[x]
    BY <1>0, EmitOutcome
<1>2. run[t].task = t /\ host[t] \in Workers
    BY <1>1 DEF WorkerInv, RunOf
<1>3. EmitEvent(t) \in Event
    BY <1>0, EmitEventType DEF EmitDone
<1>4. ExecTypeOK'
    BY <1>0, ExecTypeStep
<1>5. \A x \in Tasks : x # t => (Busy(x)' <=> Busy(x))
    BY <1>1 DEF Busy
<1> QED BY <1>1, <1>2, <1>3, <1>4, <1>5 DEF IsEndOf

(* A stage ends: the run stays a run of its task.                          *)
LEMMA StageMoves ==
    ASSUME TypeOK, WorkerInv, NEW t \in Tasks, Stage(t)
    PROVE  /\ ExecTypeOK'
           /\ \A x \in Tasks : (Busy(x)' <=> Busy(x)) /\ run'[x].task = run[x].task
<1>0. ExecTypeOK /\ t \in Runs /\ Runs = Tasks /\ run \in [Tasks -> RunState \cup {Idle, Exited}]
    BY Types, Bounds
<1>1. StageSleep(t) \/ StageCancelled(t)
    BY DEF Stage
<1>2. ExecTypeOK'
    BY <1>0, <1>1, ExecTypeStep
<1>3. /\ run[t].pc = "sleep"
      /\ run' = [run EXCEPT ![t].pc = "end"] \/ run' = [run EXCEPT ![t].pc = "failed"]
    BY <1>1 DEF StageSleep, StageCancelled
<1>4. run[t] \in RunState
    BY <1>0, <1>3 DEF Idle, Exited
<1>5. /\ \A x \in Tasks : x # t => run'[x] = run[x]
      /\ run'[t].pc \in {"end", "failed"} /\ run'[t].task = run[t].task
    BY <1>0, <1>3, <1>4 DEF RunState
<1> QED BY <1>2, <1>3, <1>5 DEF Busy, BusyPc, EmitPc

(* A send that is dropped at a full channel.                               *)
LEMMA Offered ==
    ASSUME NEW E, NEW s \in Seq(E), NEW e \in E, NEW cap \in Nat, Len(s) <= cap,
           NEW r, r = Offer(s, e, cap)
    PROVE  /\ r \in Seq(E) /\ Len(r) <= cap
           /\ \A S : /\ e \notin S \/ Len(s) < cap => (Holds(r, S) <=> Holds(s, S) \/ e \in S)
                     /\ HoldsOne(s, S) /\ ~(e \in S /\ Holds(s, S)) => HoldsOne(r, S)
<1>1. CASE Len(s) < cap
    <2>1. r = Append(s, e)
        BY <1>1 DEF Offer
    <2>2. r \in Seq(E) /\ SentTo(s, r, e)
        BY <2>1, ChannelSteps
    <2>3. Len(r) <= cap
        BY <1>1, <2>2, SMT DEF SentTo
    <2>4. ASSUME NEW S PROVE /\ Holds(r, S) <=> Holds(s, S) \/ e \in S
                             /\ HoldsOne(s, S) /\ ~(e \in S /\ Holds(s, S)) => HoldsOne(r, S)
        BY <2>2, HoldsSent
    <2> QED BY <2>2, <2>3, <2>4
<1>2. CASE ~(Len(s) < cap)
    <2>1. r = s
        BY <1>2 DEF Offer
    <2> QED BY <1>2, <2>1
<1> QED BY <1>1, <1>2

LEMMA CoreFrame ==
    /\ MgrTypeOK /\ UNCHANGED mgrVars => MgrTypeOK'
    /\ ExecTypeOK /\ UNCHANGED run => ExecTypeOK'
BY DEF MgrTypeOK, ExecTypeOK, mgrVars

LEMMA RowFrame ==
    ASSUME UNCHANGED mgrVars, NEW t \in Tasks
    PROVE  /\ Ended(t)' <=> Ended(t)
           /\ Exists(t)' <=> Exists(t)
           /\ Known(t)' <=> Known(t)
BY DEF Ended, Exists, Known, mgrVars

-----------------------------------------------------------------------------
(* Submit.                                                                 *)

(* The task of a submission is fresh, so it is nowhere before the step.    *)
LEMMA Fresh ==
    ASSUME PlaceInv, NEW t \in Tasks, ~Exists(t)
    PROVE  /\ ~Sent(t) /\ ~OnWire(t) /\ ~Received(t) /\ ~Busy(t)
           /\ ~EndOut(t) /\ ~EndUp(t) /\ ~EndInChan(t) /\ ~Ended(t)
BY DEF PlaceInv, Accounted, Somewhere, Known

LEMMA CustodyDispatchOk ==
    ASSUME TypeOK, CustodyInv, NEW t \in Tasks, DispatchOk(t)
    PROVE  TypeOK' /\ CustodyInv'
<1>0. /\ MgrTypeOK /\ ExecTypeOK /\ store \in [Tasks -> Row]
      /\ busy \in [Conns -> BOOLEAN] /\ StageCounts \subseteq Int
    BY Types, Bounds
<1>i. HubInv /\ WorkerInv /\ PlaceInv /\ (Lasting => Attended)
    BY DEF CustodyInv
<1>a. /\ UNCHANGED <<run, workers, sendClosed, reader, eventsCh, link, down, up, dialPc, conn,
                     currentSend, outQ, tasksCh, host, via, stopping>>
      /\ Accepted(t)
    BY DEF DispatchOk, netVars, workerVars
<1>b. PICK u \in UserIDs, n \in StageCounts : SubmitAccepted(t, u, n)
    BY <1>a DEF Accepted
<1>c. PICK i \in Offsets :
          /\ Len(sendQ[Slot(i)]) < SendCap
          /\ sendQ' = [sendQ EXCEPT ![Slot(i)] = Append(@, t)]
          /\ busy' = [busy EXCEPT ![Slot(i)] = TRUE]
          /\ nextIdx' = (Idx(i) + 1) % Len(workers)
    BY DEF DispatchOk
<1>d. PICK k \in Conns : k = Slot(i) /\ Registered(k)
    BY <1>i, Scan
<1>e. nextIdx' = 0 \/ nextIdx' \in 1..(Cardinality(Conns) - 1)
    BY <1>c, <1>i, Scan
<1>1. /\ \A x \in Tasks : x # t => store'[x] = store[x]
      /\ ~Exists(t) /\ Known(t)'
    BY <1>0, <1>b, RowsOfSubmitOnce
<1>2. MgrTypeOK'
    BY <1>0, <1>b, MgrTypeSubmitOnce
<1>3. ~Ended(t)'
    BY <1>0, <1>b DEF SubmitAccepted, Ended, Terminal
<1>4. /\ ~Sent(t) /\ ~OnWire(t) /\ ~Received(t) /\ ~Busy(t)
      /\ ~EndOut(t) /\ ~EndUp(t) /\ ~EndInChan(t)
    BY <1>1, <1>i, Fresh
<1>5. Family(sendQ', Conns, Tasks, SendCap) /\ IsPut(sendQ, sendQ', Conns, k, t)
    <2>1. PutOn(sendQ, sendQ', k, t, SendCap)
        BY <1>c, <1>d DEF PutOn
    <2> QED BY <2>1, Families, Put
<1>6. ASSUME NEW x \in Tasks PROVE (Sent(x)' <=> Sent(x) \/ x = t) /\ SentOnce(x)'
    <2>1. SentOnce(x)
        BY <1>i DEF PlaceInv, Single
    <2> QED BY <1>4, <1>5, <2>1 DEF Sent, SentOnce, IsPut
<1>7. \A x \in Tasks : /\ OnWire(x)' <=> OnWire(x)
                       /\ Received(x)' <=> Received(x)
                       /\ Busy(x)' <=> Busy(x)
                       /\ EndOut(x)' <=> EndOut(x)
                       /\ EndUp(x)' <=> EndUp(x)
                       /\ EndInChan(x)' <=> EndInChan(x)
    BY <1>a, Unmoved
<1>8. \A x \in Tasks : Single(x)'
    BY <1>a, <1>i, <1>6, Unmoved DEF PlaceInv, Single
<1>9. OnePlace(t)' /\ Accounted(t)'
    BY <1>1, <1>3, <1>4, <1>6, <1>7 DEF OnePlace, Accounted, Somewhere, Known
<1>10. ASSUME NEW x \in Tasks, x # t PROVE Stays(x)
    BY <1>10, <1>1, <1>6, <1>7, SameRow DEF Stays
<1>11. PlaceInv'
    <2>1. Lasting' => Lasting
        BY <1>a DEF Lasting
    <2> QED BY <2>1, <1>i, <1>8, <1>9, <1>10, PlaceStep
<1>12. HubInv'
    <2>1. reader[k] # "none"
        BY <1>d, <1>i DEF HubInv, HubOf
    <2>2. ASSUME NEW x \in Conns PROVE HubOf(x)'
        BY <1>a, <1>i, <1>5, <2>1 DEF HubInv, HubOf, Registered, IsPut
    <2> QED BY <2>2 DEF HubInv
<1>13. WorkerInv' /\ (Lasting' => Attended')
    BY <1>a, <1>i, WorkerFrame, AttendedFrame
<1>14. TypeOK'
    <2>1. busy' \in [Conns -> BOOLEAN] /\ ExecTypeOK'
        BY <1>0, <1>a, <1>c, CoreFrame
    <2> QED BY <1>a, <1>e, <1>2, <1>5, <2>1 DEF TypeOK, Family
<1> QED BY <1>11, <1>12, <1>13, <1>14 DEF CustodyInv

LEMMA CustodyDispatchNone ==
    ASSUME TypeOK, CustodyInv, NEW t \in Tasks, DispatchNone(t)
    PROVE  TypeOK' /\ CustodyInv'
<1>0. /\ MgrTypeOK /\ ExecTypeOK /\ store \in [Tasks -> Row] /\ StageCounts \subseteq Int
    BY Types, Bounds
<1>i. HubInv /\ WorkerInv /\ PlaceInv /\ (Lasting => Attended)
    BY DEF CustodyInv
<1>a. /\ UNCHANGED <<run, workers, busy, sendQ, sendClosed, reader, eventsCh, link, down, up,
                     dialPc, conn, currentSend, outQ, tasksCh, host, via, stopping>>
      /\ Refused(t)
    BY DEF DispatchNone, netVars, workerVars
<1>b. PICK u \in UserIDs, n \in StageCounts : SubmitRejected(t, u, n, "ErrNoWorkers")
    BY <1>a DEF Refused
<1>c. "ErrNoWorkers" \in DispatchError /\ n \in Int
    BY <1>0 DEF DispatchError
<1>e. nextIdx' = 0 \/ nextIdx' \in 1..(Cardinality(Conns) - 1)
    <2>1. CASE \E i \in Offsets : FirstIdle(i)
        <3>1. PICK i \in Offsets : i = CHOOSE j \in Offsets : FirstIdle(j)
            BY <2>1
        <3>2. nextIdx' = (Idx(i) + 1) % Len(workers)
            BY <2>1, <3>1 DEF DispatchNone
        <3> QED BY <1>i, <3>2, Scan
    <2>2. CASE ~\E i \in Offsets : FirstIdle(i)
        BY <2>2 DEF DispatchNone, TypeOK
    <2> QED BY <2>1, <2>2
<1>1. /\ \A x \in Tasks : x # t => store'[x] = store[x]
      /\ ~Exists(t) /\ Known(t)'
    BY <1>0, <1>b, <1>c, RowsOfSubmitOnce
<1>2. MgrTypeOK'
    BY <1>0, <1>b, <1>c, MgrTypeSubmitOnce
<1>3. Ended(t)'
    BY <1>0, <1>b DEF SubmitRejected, Ended, Terminal
<1>4. /\ ~Sent(t) /\ ~OnWire(t) /\ ~Received(t) /\ ~Busy(t)
      /\ ~EndOut(t) /\ ~EndUp(t) /\ ~EndInChan(t)
    BY <1>1, <1>i, Fresh
<1>5. \A x \in Tasks : /\ Sent(x)' <=> Sent(x)
                       /\ OnWire(x)' <=> OnWire(x)
                       /\ Received(x)' <=> Received(x)
                       /\ Busy(x)' <=> Busy(x)
                       /\ EndOut(x)' <=> EndOut(x)
                       /\ EndUp(x)' <=> EndUp(x)
                       /\ EndInChan(x)' <=> EndInChan(x)
    BY <1>a, Unmoved
<1>6. \A x \in Tasks : Single(x)'
    BY <1>a, <1>i, Unmoved DEF PlaceInv, Single
<1>7. OnePlace(t)' /\ Accounted(t)'
    BY <1>1, <1>3, <1>4, <1>5 DEF OnePlace, Accounted, Somewhere, Known
<1>8. ASSUME NEW x \in Tasks, x # t PROVE Stays(x)
    BY <1>8, <1>1, <1>5, SameRow DEF Stays
<1>9. PlaceInv'
    <2>1. Lasting' => Lasting
        BY <1>a DEF Lasting
    <2> QED BY <2>1, <1>i, <1>6, <1>7, <1>8, PlaceStep
<1>10. HubInv' /\ WorkerInv' /\ (Lasting' => Attended')
    BY <1>a, <1>i, HubFrame, WorkerFrame, AttendedFrame
<1>11. TypeOK'
    <2>1. ExecTypeOK'
        BY <1>0, <1>a, CoreFrame
    <2> QED BY <1>a, <1>e, <1>2, <2>1 DEF TypeOK
<1> QED BY <1>9, <1>10, <1>11 DEF CustodyInv

-----------------------------------------------------------------------------
(* The manager's end of a connection.                                      *)

(* Register, Release, ReadError and CloseSend touch p.workers, busy and    *)
(* readPump only: no task moves.                                           *)
LEMMA NothingMoves ==
    ASSUME PlaceInv, UNCHANGED <<mgrVars, sendQ, down, tasksCh, run, outQ, up, eventsCh>>,
           Lasting' => Lasting
    PROVE  PlaceInv'
<1>1. \A x \in Tasks : Single(x)'
    BY Unmoved DEF PlaceInv, Single
<1>2. \A x \in Tasks : Stays(x)
    BY Unmoved, RowFrame DEF Stays
<1> QED BY <1>1, <1>2, PlaceStep

LEMMA CustodyHub ==
    ASSUME TypeOK, CustodyInv, NEW k \in Conns,
           Register(k) \/ Release(k) \/ ReadError(k) \/ CloseSend(k)
    PROVE  TypeOK' /\ CustodyInv'
<1>0. /\ MgrTypeOK /\ ExecTypeOK /\ workers \in Seq(Conns)
      /\ busy \in [Conns -> BOOLEAN] /\ sendClosed \in [Conns -> BOOLEAN]
      /\ reader \in [Conns -> {"none", "read", "release", "close", "gone"}]
    BY Types
<1>i. HubInv /\ WorkerInv /\ PlaceInv /\ (Lasting => Attended)
    BY DEF CustodyInv
<1>a. UNCHANGED <<mgrVars, run, nextIdx, sendQ, eventsCh, link, down, up, dialPc, conn,
                  currentSend, outQ, tasksCh, host, via, stopping>>
    BY DEF Register, Release, ReadError, CloseSend, netVars, workerVars
<1>1. PlaceInv'
    <2>1. Lasting' => Lasting
        BY <1>a DEF Lasting
    <2> QED BY <1>a, <1>i, <2>1, NothingMoves
<1>2. WorkerInv' /\ (Lasting' => Attended')
    BY <1>a, <1>i, WorkerFrame, AttendedFrame
<1>3. workers' \in Seq(Conns) /\ HubInv'
    <2>h. \A x \in Conns : HubOf(x)
        BY <1>i DEF HubInv
    <2>1. CASE Register(k)
        <3>1. /\ link[k] # "new" /\ reader[k] = "none" /\ UNCHANGED sendClosed
              /\ workers' = Append(workers, k) /\ reader' = [reader EXCEPT ![k] = "read"]
            BY <2>1 DEF Register
        <3>2. workers' \in Seq(Conns) /\ SentTo(workers, workers', k)
            BY <1>0, <3>1, ChannelSteps
        <3>3. ~Registered(k)
            BY <2>h, <3>1 DEF HubOf
        <3>4. ASSUME NEW x \in Conns
              PROVE  (Registered(x)' <=> Registered(x) \/ x = k) /\ HoldsOne(workers', {x})
            <4>1. HoldsOne(workers, {x})
                BY <2>h DEF HubOf
            <4>2. /\ Holds(workers', {x}) <=> Holds(workers, {x}) \/ k \in {x}
                  /\ HoldsOne(workers, {x}) /\ ~(k \in {x} /\ Holds(workers, {x}))
                        => HoldsOne(workers', {x})
                BY <3>2, HoldsSent
            <4> QED BY <3>3, <4>1, <4>2 DEF Registered
        <3>5. ASSUME NEW x \in Conns PROVE HubOf(x)'
            <4>1. HubOf(x) /\ HubOf(k)
                BY <2>h
            <4> QED BY <1>0, <1>a, <3>1, <3>4, <4>1 DEF HubOf
        <3> QED BY <3>2, <3>5 DEF HubInv
    <2>2. CASE Release(k) \/ CloseSend(k)
        <3>1. /\ UNCHANGED workers
              /\ \/ reader[k] = "release" /\ reader' = [reader EXCEPT ![k] = "read"]
                    /\ UNCHANGED sendClosed
                 \/ reader[k] = "close" /\ reader' = [reader EXCEPT ![k] = "gone"]
                    /\ sendClosed' = [sendClosed EXCEPT ![k] = TRUE]
            BY <2>2 DEF Release, CloseSend
        <3>2. ASSUME NEW x \in Conns PROVE HubOf(x)'
            <4>1. HubOf(x)
                BY <2>h
            <4> QED BY <1>0, <1>a, <3>1, <4>1 DEF HubOf, Registered
        <3> QED BY <1>0, <3>1, <3>2 DEF HubInv
    <2>3. CASE ReadError(k)
        <3>1. /\ reader[k] = "read" /\ reader' = [reader EXCEPT ![k] = "close"]
              /\ workers' = RemoveFirst(workers, k) /\ UNCHANGED sendClosed
            BY <2>3 DEF ReadError
        <3>2. Registered(k) /\ HoldsOne(workers, {k})
            BY <2>h, <3>1 DEF HubOf
        <3>3. /\ workers' \in Seq(Conns)
              /\ \A x \in Conns : Holds(workers', {x}) <=> Holds(workers, {x}) /\ x # k
              /\ \A x \in Conns : HoldsOne(workers, {x}) => HoldsOne(workers', {x})
            BY <1>0, <3>1, <3>2, Removed
        <3>4. ASSUME NEW x \in Conns PROVE HubOf(x)'
            <4>1. HubOf(x)
                BY <2>h
            <4> QED BY <1>0, <1>a, <3>1, <3>3, <4>1 DEF HubOf, Registered
        <3> QED BY <3>3, <3>4 DEF HubInv
    <2> QED BY <2>1, <2>2, <2>3
<1>4. /\ busy' \in [Conns -> BOOLEAN] /\ sendClosed' \in [Conns -> BOOLEAN]
      /\ reader' \in [Conns -> {"none", "read", "release", "close", "gone"}]
    BY <1>0 DEF Register, Release, ReadError, CloseSend
<1>5. TypeOK'
    <2>1. MgrTypeOK' /\ ExecTypeOK'
        BY <1>0, <1>a, CoreFrame
    <2> QED BY <1>a, <1>3, <1>4, <2>1 DEF TypeOK
<1> QED BY <1>1, <1>2, <1>3, <1>5 DEF CustodyInv

(* writePump: the task goes on the wire, or is lost with the connection.   *)
LEMMA CustodyManagerWrite ==
    ASSUME TypeOK, CustodyInv, NEW k \in Conns, ManagerWrite(k)
    PROVE  TypeOK' /\ CustodyInv'
<1>0. /\ MgrTypeOK /\ ExecTypeOK /\ link \in [Conns -> {"new", "up", "down"}]
      /\ down \in [Conns -> Seq(Tasks)]
    BY Types
<1>i. HubInv /\ WorkerInv /\ PlaceInv /\ (Lasting => Attended)
    BY DEF CustodyInv
<1>a. /\ UNCHANGED <<mgrVars, run, workers, nextIdx, busy, sendClosed, reader, eventsCh, link, up,
                     dialPc, conn, currentSend, outQ, tasksCh, host, via, stopping>>
      /\ sendQ[k] # <<>> /\ sendQ' = [sendQ EXCEPT ![k] = Tail(@)]
      /\ link[k] = "up" => Len(down[k]) < WireCap
      /\ down' = [down EXCEPT ![k] = IF link[k] = "up" THEN Append(@, Head(sendQ[k])) ELSE @]
    BY DEF ManagerWrite, workerVars
<1>b. PICK t : TakeOn(sendQ, sendQ', k, t) /\ t = Head(sendQ[k])
    BY <1>a DEF TakeOn
<1>1. t \in Tasks /\ Family(sendQ', Conns, Tasks, SendCap) /\ IsTake(sendQ, sendQ', Conns, k, t)
    BY <1>b, Families, Take
<1>2. ASSUME NEW x \in Tasks
      PROVE  (Sent(x)' <=> Sent(x) /\ x # t) /\ (x = t => Sent(x)) /\ SentOnce(x)'
    <2>1. SentOnce(x)
        BY <1>i DEF PlaceInv, Single
    <2> QED BY <1>1, <2>1 DEF Sent, SentOnce, IsTake
<1>3. \A x \in Tasks : /\ Received(x)' <=> Received(x)
                       /\ Busy(x)' <=> Busy(x)
                       /\ EndOut(x)' <=> EndOut(x)
                       /\ EndUp(x)' <=> EndUp(x)
                       /\ EndInChan(x)' <=> EndInChan(x)
                       /\ Ended(x)' <=> Ended(x)
                       /\ Exists(x)' <=> Exists(x)
                       /\ Known(x)' <=> Known(x)
    BY <1>a, Unmoved, RowFrame
<1>4. OnePlace(t) /\ Accounted(t) /\ Sent(t)
    BY <1>i, <1>1, <1>2 DEF PlaceInv
<1>5. Lasting' => Lasting
    BY <1>a DEF Lasting
<1>6. Family(down', Conns, Tasks, WireCap) /\ PlaceInv'
    <2>1. CASE link[k] = "up"
        <3>1. Family(down', Conns, Tasks, WireCap) /\ IsPut(down, down', Conns, k, t)
            <4>1. PutOn(down, down', k, t, WireCap)
                BY <1>a, <1>b, <2>1 DEF PutOn
            <4> QED BY <1>1, <4>1, Families, Put
        <3>2. ~OnWire(t)
            BY <1>4 DEF OnePlace
        <3>3. ASSUME NEW x \in Tasks PROVE (OnWire(x)' <=> OnWire(x) \/ x = t) /\ WireOnce(x)'
            <4>1. WireOnce(x)
                BY <1>i DEF PlaceInv, Single
            <4> QED BY <3>1, <3>2, <4>1 DEF OnWire, WireOnce, IsPut
        <3>5. \A x \in Tasks : Single(x)'
            BY <1>a, <1>i, <1>2, <3>3, Unmoved DEF PlaceInv, Single
        <3>6. OnePlace(t)' /\ Accounted(t)'
            BY <1>1, <1>2, <1>3, <1>4, <1>5, <3>3 DEF OnePlace, Accounted, Somewhere
        <3>7. ASSUME NEW x \in Tasks, x # t PROVE Stays(x)
            BY <3>7, <1>2, <1>3, <3>3 DEF Stays
        <3> QED BY <1>i, <1>5, <3>1, <3>5, <3>6, <3>7, PlaceStep
    <2>2. CASE link[k] # "up"
        <3>1. down' = down
            BY <1>0, <1>a, <2>2
        <3>2. ~Lasting'
            BY <1>0, <1>a, <1>i, <2>2 DEF Lasting, HubInv, HubOf
        <3>3. \A x \in Tasks : (OnWire(x)' <=> OnWire(x)) /\ Single(x)'
            BY <1>a, <1>i, <1>2, <3>1, Unmoved DEF PlaceInv, Single
        <3>4. \A x \in Tasks : StaysOrLost(x)
            BY <1>2, <1>3, <3>3 DEF StaysOrLost
        <3>5. PlaceInv'
            BY <1>i, <1>5, <3>2, <3>3, <3>4, PlaceStep
        <3> QED BY <3>1, <3>5, Families
    <2> QED BY <2>1, <2>2
<1>7. HubInv'
    <2>1. ASSUME NEW x \in Conns PROVE HubOf(x)'
        <3>1. HubOf(x)
            BY <1>i DEF HubInv
        <3> QED BY <1>a, <1>1, <3>1 DEF HubOf, Registered, IsTake
    <2> QED BY <2>1 DEF HubInv
<1>8. WorkerInv' /\ (Lasting' => Attended')
    BY <1>a, <1>i, WorkerFrame, AttendedFrame
<1>9. TypeOK'
    <2>1. MgrTypeOK' /\ ExecTypeOK'
        BY <1>0, <1>a, CoreFrame
    <2> QED BY <1>a, <1>1, <1>6, <2>1 DEF TypeOK, Family
<1> QED BY <1>6, <1>7, <1>8, <1>9 DEF CustodyInv

(* The endings of a task do not depend on the state.                       *)
LEMMA EndsFixed ==
    ASSUME NEW x \in Tasks
    PROVE  /\ EndsOf(x)' = EndsOf(x)
           /\ \A e \in Event : e \in EndsOf(x) <=> IsEndOf(e, x)
BY DEF EndsOf, IsEndOf

(* readPump: an event goes to p.events, a terminal one into the room it    *)
(* has waited for.                                                         *)
LEMMA CustodyManagerRead ==
    ASSUME TypeOK, CustodyInv, NEW k \in Conns, ManagerRead(k)
    PROVE  TypeOK' /\ CustodyInv'
<1>0. /\ MgrTypeOK /\ ExecTypeOK /\ eventsCh \in Seq(Event) /\ Len(eventsCh) <= EventsCap
      /\ EventsCap \in Nat /\ reader \in [Conns -> {"none", "read", "release", "close", "gone"}]
    BY Types, Bounds
<1>i. HubInv /\ WorkerInv /\ PlaceInv /\ (Lasting => Attended)
    BY DEF CustodyInv
<1>a. /\ UNCHANGED <<mgrVars, run, workers, nextIdx, busy, sendQ, sendClosed, link, down,
                     dialPc, conn, currentSend, outQ, tasksCh, host, via, stopping>>
      /\ reader[k] = "read"
      /\ \E r \in {"read", "release"} : reader' = [reader EXCEPT ![k] = r]
    BY DEF ManagerRead, workerVars
<1>b. PICK e : /\ TakeOn(up, up', k, e)
               /\ IsTerminal(e) => Len(eventsCh) < EventsCap
               /\ eventsCh' = Offer(eventsCh, e, EventsCap)
    BY DEF ManagerRead, TakeOn
<1>1. e \in Event /\ Family(up', Conns, Event, WireCap) /\ IsTake(up, up', Conns, k, e)
    BY <1>b, Families, Take
<1>2. ASSUME NEW x \in Tasks
      PROVE  /\ EndUp(x)' <=> EndUp(x) /\ ~IsEndOf(e, x)
             /\ IsEndOf(e, x) => EndUp(x)
             /\ UpOnce(x)'
    <2>1. UpOnce(x)
        BY <1>i DEF PlaceInv, Single
    <2> QED BY <1>1, <2>1, EndsFixed DEF EndUp, UpOnce, IsTake
<1>3. /\ eventsCh' \in Seq(Event) /\ Len(eventsCh') <= EventsCap
      /\ \A S : /\ e \notin S \/ Len(eventsCh) < EventsCap
                      => (Holds(eventsCh', S) <=> Holds(eventsCh, S) \/ e \in S)
                /\ HoldsOne(eventsCh, S) /\ ~(e \in S /\ Holds(eventsCh, S))
                      => HoldsOne(eventsCh', S)
    BY <1>0, <1>1, <1>b, Offered
<1>4. ASSUME NEW x \in Tasks
      PROVE  (EndInChan(x)' <=> EndInChan(x) \/ IsEndOf(e, x)) /\ ChanOnce(x)'
    <2>1. ChanOnce(x) /\ (IsEndOf(e, x) => ~EndInChan(x))
        BY <1>i, <1>2 DEF PlaceInv, Single, OnePlace
    <2>2. IsEndOf(e, x) => Len(eventsCh) < EventsCap
        BY <1>b DEF IsEndOf
    <2> QED BY <1>1, <1>3, <2>1, <2>2, EndsFixed DEF EndInChan, ChanOnce
<1>5. \A x \in Tasks : /\ Sent(x)' <=> Sent(x)
                       /\ OnWire(x)' <=> OnWire(x)
                       /\ Received(x)' <=> Received(x)
                       /\ Busy(x)' <=> Busy(x)
                       /\ EndOut(x)' <=> EndOut(x)
                       /\ Ended(x)' <=> Ended(x)
                       /\ Exists(x)' <=> Exists(x)
                       /\ Known(x)' <=> Known(x)
    BY <1>a, Unmoved, RowFrame
<1>6. Lasting' => Lasting
    BY <1>a DEF Lasting
<1>7. PlaceInv'
    <2>1. \A x \in Tasks : Single(x)'
        BY <1>a, <1>i, <1>2, <1>4, Unmoved DEF PlaceInv, Single
    <2>2. ASSUME NEW x \in Tasks, IsEndOf(e, x) PROVE OnePlace(x)' /\ Accounted(x)'
        <3>1. OnePlace(x) /\ Accounted(x) /\ EndUp(x)
            BY <1>i, <1>2, <2>2 DEF PlaceInv
        <3> QED BY <1>2, <1>4, <1>5, <1>6, <2>2, <3>1 DEF OnePlace, Accounted, Somewhere
    <2>3. ASSUME NEW x \in Tasks, ~IsEndOf(e, x) PROVE Stays(x)
        BY <2>3, <1>2, <1>4, <1>5 DEF Stays
    <2> QED BY <1>i, <1>6, <2>1, <2>2, <2>3, PlaceStep
<1>8. HubInv'
    <2>1. ASSUME NEW x \in Conns PROVE HubOf(x)'
        <3>1. HubOf(x)
            BY <1>i DEF HubInv
        <3> QED BY <1>0, <1>a, <3>1 DEF HubOf, Registered
    <2> QED BY <2>1 DEF HubInv
<1>9. WorkerInv' /\ (Lasting' => Attended')
    BY <1>a, <1>i, WorkerFrame, AttendedFrame
<1>10. TypeOK'
    <2>1. MgrTypeOK' /\ ExecTypeOK'
        BY <1>0, <1>a, CoreFrame
    <2>2. reader' \in [Conns -> {"none", "read", "release", "close", "gone"}]
        BY <1>0, <1>a
    <2> QED BY <1>a, <1>1, <1>3, <2>1, <2>2 DEF TypeOK, Family
<1> QED BY <1>7, <1>8, <1>9, <1>10 DEF CustodyInv

(* runWritePump: as writePump, for an event.                               *)
LEMMA CustodyWorkerWrite ==
    ASSUME TypeOK, CustodyInv, NEW k \in Conns, WorkerWrite(k)
    PROVE  TypeOK' /\ CustodyInv'
<1>0. /\ MgrTypeOK /\ ExecTypeOK /\ link \in [Conns -> {"new", "up", "down"}]
      /\ up \in [Conns -> Seq(Event)]
    BY Types
<1>i. HubInv /\ WorkerInv /\ PlaceInv /\ (Lasting => Attended)
    BY DEF CustodyInv
<1>a. /\ UNCHANGED <<mgrVars, run, workers, nextIdx, busy, sendQ, sendClosed, reader, eventsCh,
                     link, down, dialPc, conn, currentSend, tasksCh, host, via, stopping>>
      /\ outQ[k] # <<>> /\ outQ' = [outQ EXCEPT ![k] = Tail(@)]
      /\ link[k] = "up" => Len(up[k]) < WireCap
      /\ up' = [up EXCEPT ![k] = IF link[k] = "up" THEN Append(@, Head(outQ[k])) ELSE @]
    BY DEF WorkerWrite, hubVars
<1>b. PICK e : TakeOn(outQ, outQ', k, e) /\ e = Head(outQ[k])
    BY <1>a DEF TakeOn
<1>1. e \in Event /\ Family(outQ', Conns, Event, OutCap) /\ IsTake(outQ, outQ', Conns, k, e)
    BY <1>b, Families, Take
<1>2. ASSUME NEW x \in Tasks
      PROVE  /\ EndOut(x)' <=> EndOut(x) /\ ~IsEndOf(e, x)
             /\ IsEndOf(e, x) => EndOut(x)
             /\ OutOnce(x)'
    <2>1. OutOnce(x)
        BY <1>i DEF PlaceInv, Single
    <2> QED BY <1>1, <2>1, EndsFixed DEF EndOut, OutOnce, IsTake
<1>3. \A x \in Tasks : /\ Sent(x)' <=> Sent(x)
                       /\ OnWire(x)' <=> OnWire(x)
                       /\ Received(x)' <=> Received(x)
                       /\ Busy(x)' <=> Busy(x)
                       /\ EndInChan(x)' <=> EndInChan(x)
                       /\ Ended(x)' <=> Ended(x)
                       /\ Exists(x)' <=> Exists(x)
                       /\ Known(x)' <=> Known(x)
    BY <1>a, Unmoved, RowFrame
<1>5. Lasting' => Lasting
    BY <1>a DEF Lasting
<1>6. Family(up', Conns, Event, WireCap) /\ PlaceInv'
    <2>1. CASE link[k] = "up"
        <3>1. Family(up', Conns, Event, WireCap) /\ IsPut(up, up', Conns, k, e)
            <4>1. PutOn(up, up', k, e, WireCap)
                BY <1>a, <1>b, <2>1 DEF PutOn
            <4> QED BY <1>1, <4>1, Families, Put
        <3>3. ASSUME NEW x \in Tasks PROVE (EndUp(x)' <=> EndUp(x) \/ IsEndOf(e, x)) /\ UpOnce(x)'
            <4>1. UpOnce(x) /\ (IsEndOf(e, x) => ~EndUp(x))
                BY <1>i, <1>2 DEF PlaceInv, Single, OnePlace
            <4> QED BY <1>1, <3>1, <4>1, EndsFixed DEF EndUp, UpOnce, IsPut
        <3>5. \A x \in Tasks : Single(x)'
            BY <1>a, <1>i, <1>2, <3>3, Unmoved DEF PlaceInv, Single
        <3>6. ASSUME NEW x \in Tasks, IsEndOf(e, x) PROVE OnePlace(x)' /\ Accounted(x)'
            <4>1. OnePlace(x) /\ Accounted(x) /\ EndOut(x)
                BY <1>i, <1>2, <3>6 DEF PlaceInv
            <4> QED BY <1>2, <1>3, <1>5, <3>3, <3>6, <4>1 DEF OnePlace, Accounted, Somewhere
        <3>7. ASSUME NEW x \in Tasks, ~IsEndOf(e, x) PROVE Stays(x)
            BY <3>7, <1>2, <1>3, <3>3 DEF Stays
        <3> QED BY <1>i, <1>5, <3>1, <3>5, <3>6, <3>7, PlaceStep
    <2>2. CASE link[k] # "up"
        <3>1. up' = up
            BY <1>0, <1>a, <2>2
        <3>2. ~Lasting'
            BY <1>0, <1>a, <1>i, <2>2 DEF Lasting, HubInv, HubOf
        <3>3. \A x \in Tasks : (EndUp(x)' <=> EndUp(x)) /\ Single(x)'
            BY <1>a, <1>i, <1>2, <3>1, Unmoved DEF PlaceInv, Single
        <3>4. \A x \in Tasks : StaysOrLost(x)
            BY <1>2, <1>3, <3>3 DEF StaysOrLost
        <3>5. PlaceInv'
            BY <1>i, <1>5, <3>2, <3>3, <3>4, PlaceStep
        <3> QED BY <3>1, <3>5, Families
    <2> QED BY <2>1, <2>2
<1>7. HubInv'
    <2>1. ASSUME NEW x \in Conns PROVE HubOf(x)'
        <3>1. HubOf(x)
            BY <1>i DEF HubInv
        <3> QED BY <1>a, <1>1, <3>1 DEF HubOf, Registered, IsTake
    <2> QED BY <2>1 DEF HubInv
<1>8. WorkerInv' /\ (Lasting' => Attended')
    BY <1>a, <1>i, WorkerFrame, AttendedFrame
<1>9. TypeOK'
    <2>1. MgrTypeOK' /\ ExecTypeOK'
        BY <1>0, <1>a, CoreFrame
    <2> QED BY <1>a, <1>1, <1>6, <2>1 DEF TypeOK, Family
<1> QED BY <1>6, <1>7, <1>8, <1>9 DEF CustodyInv

-----------------------------------------------------------------------------
(* The network.                                                            *)

LEMMA CutMoves ==
    ASSUME TypeOK, NEW k \in Conns, Cut(k)
    PROVE  /\ link' \in [Conns -> {"new", "up", "down"}]
           /\ \A x \in Conns : link'[x] = "new" => link[x] = "new"
           /\ ~Lasting'
           /\ Family(down', Conns, Tasks, WireCap) /\ IsCrop(down, down', Conns, k)
           /\ Family(up', Conns, Event, WireCap) /\ IsCrop(up, up', Conns, k)
<1>0. link \in [Conns -> {"new", "up", "down"}]
    BY Types
<1>1. link' = [link EXCEPT ![k] = "down"] /\ CropOn(down, down', k) /\ CropOn(up, up', k)
    BY DEF Cut, CropOn
<1>2. Family(down', Conns, Tasks, WireCap) /\ IsCrop(down, down', Conns, k)
    BY <1>1, Families, Crop
<1>3. Family(up', Conns, Event, WireCap) /\ IsCrop(up, up', Conns, k)
    BY <1>1, Families, Crop
<1>4. link'[k] = "down"
    BY <1>0, <1>1
<1>5. /\ link' \in [Conns -> {"new", "up", "down"}]
      /\ \A x \in Conns : link'[x] = "new" => link[x] = "new"
    BY <1>0, <1>1
<1> QED BY <1>2, <1>3, <1>4, <1>5 DEF Lasting

LEMMA CropPlaces ==
    ASSUME PlaceInv, NEW k \in Conns, IsCrop(down, down', Conns, k), IsCrop(up, up', Conns, k),
           NEW x \in Tasks
    PROVE  /\ OnWire(x)' => OnWire(x)
           /\ EndUp(x)' => EndUp(x)
           /\ WireOnce(x)' /\ UpOnce(x)'
<1>1. WireOnce(x) /\ UpOnce(x)
    BY DEF PlaceInv, Single
<1> QED BY <1>1, EndsFixed DEF OnWire, WireOnce, EndUp, UpOnce, IsCrop

LEMMA CustodyBreak ==
    ASSUME TypeOK, CustodyInv, NEW k \in Conns, Break(k)
    PROVE  TypeOK' /\ CustodyInv'
<1>0. MgrTypeOK /\ ExecTypeOK /\ via \in [Tasks -> Conns \cup {None}] /\ conn \in [Workers -> Conns \cup {None}]
    BY Types
<1>i. HubInv /\ WorkerInv /\ PlaceInv /\ (Lasting => Attended)
    BY DEF CustodyInv
<1>a. /\ UNCHANGED <<mgrVars, run, workers, nextIdx, busy, sendQ, sendClosed, reader, eventsCh,
                     dialPc, conn, currentSend, outQ, tasksCh, host, via, stopping>>
      /\ Cut(k)
    BY DEF Break, hubVars, workerVars
<1>1. /\ link' \in [Conns -> {"new", "up", "down"}]
      /\ \A x \in Conns : link'[x] = "new" => link[x] = "new"
      /\ ~Lasting'
      /\ Family(down', Conns, Tasks, WireCap) /\ IsCrop(down, down', Conns, k)
      /\ Family(up', Conns, Event, WireCap) /\ IsCrop(up, up', Conns, k)
    BY <1>a, CutMoves
<1>2. \A x \in Tasks : Single(x)' /\ (OnWire(x)' => OnWire(x)) /\ (EndUp(x)' => EndUp(x))
    BY <1>a, <1>i, <1>1, CropPlaces, Unmoved DEF PlaceInv, Single
<1>3. \A x \in Tasks : StaysOrLost(x)
    BY <1>a, <1>2, Unmoved, RowFrame DEF StaysOrLost
<1>4. PlaceInv'
    BY <1>i, <1>1, <1>2, <1>3, PlaceStep
<1>5. HubInv'
    <2>1. ASSUME NEW x \in Conns PROVE HubOf(x)'
        <3>1. HubOf(x)
            BY <1>i DEF HubInv
        <3> QED BY <1>a, <1>1, <3>1 DEF HubOf, Registered
    <2> QED BY <2>1 DEF HubInv
<1>6. WorkerInv'
    <2>1. ASSUME NEW w \in Workers PROVE DialOf(w)'
        <3>1. DialOf(w) /\ conn[w] \in Conns \cup {None}
            BY <1>0, <1>i DEF WorkerInv
        <3> QED BY <1>a, <1>1, <3>1 DEF DialOf
    <2>2. ASSUME NEW t \in Tasks PROVE RunOf(t)'
        <3>1. RunOf(t) /\ via[t] \in Conns \cup {None}
            BY <1>0, <1>i DEF WorkerInv
        <3> QED BY <1>a, <1>1, <3>1 DEF RunOf, Busy
    <2> QED BY <1>a, <1>i, <2>1, <2>2 DEF WorkerInv, OwnConn
<1>7. TypeOK'
    <2>1. MgrTypeOK' /\ ExecTypeOK'
        BY <1>0, <1>a, CoreFrame
    <2> QED BY <1>a, <1>1, <2>1 DEF TypeOK, Family
<1> QED BY <1>1, <1>4, <1>5, <1>6, <1>7 DEF CustodyInv

-----------------------------------------------------------------------------
(* The worker's end: reconnectLoop and runConn.                            *)

(* A connection is dialled by one worker.                                  *)
LEMMA CustodyDial ==
    ASSUME TypeOK, CustodyInv, NEW w \in Workers, NEW k \in Conns, Dial(w, k)
    PROVE  TypeOK' /\ CustodyInv'
<1>0. /\ MgrTypeOK /\ ExecTypeOK /\ link \in [Conns -> {"new", "up", "down"}]
      /\ dialPc \in [Workers -> {"dial", "attach", "run"}]
      /\ conn \in [Workers -> Conns \cup {None}] /\ via \in [Tasks -> Conns \cup {None}]
      /\ host \in [Tasks -> Workers \cup {None}] /\ None \notin Conns
    BY Types, Bounds
<1>i. HubInv /\ WorkerInv /\ PlaceInv /\ (Lasting => Attended)
    BY DEF CustodyInv
<1>a. /\ UNCHANGED <<mgrVars, run, workers, nextIdx, busy, sendQ, sendClosed, reader, eventsCh,
                     down, up, currentSend, outQ, tasksCh, host, via, stopping>>
      /\ dialPc[w] = "dial" /\ link[k] = "new"
    BY DEF Dial, hubVars
<1>b. /\ link' = [link EXCEPT ![k] = "up"]
      /\ conn' = [conn EXCEPT ![w] = k]
      /\ dialPc' = [dialPc EXCEPT ![w] = "attach"]
    BY DEF Dial
<1>1. /\ link' \in [Conns -> {"new", "up", "down"}] /\ conn' \in [Workers -> Conns \cup {None}]
      /\ dialPc' \in [Workers -> {"dial", "attach", "run"}]
    BY <1>0, <1>b
<1>2. /\ \A x \in Conns : link'[x] = IF x = k THEN "up" ELSE link[x]
      /\ \A x \in Workers : /\ conn'[x] = IF x = w THEN k ELSE conn[x]
                            /\ dialPc'[x] = IF x = w THEN "attach" ELSE dialPc[x]
    BY <1>0, <1>b
<1>3. Lasting' => Lasting
    BY <1>a, <1>2 DEF Lasting
<1>4. PlaceInv'
    BY <1>a, <1>i, <1>3, NothingMoves
<1>5. HubInv'
    <2>1. ASSUME NEW x \in Conns PROVE HubOf(x)'
        <3>1. HubOf(x)
            BY <1>i DEF HubInv
        <3> QED BY <1>a, <1>2, <3>1 DEF HubOf, Registered
    <2> QED BY <2>1 DEF HubInv
<1>6. WorkerInv'
    <2>0. \A x \in Workers : DialOf(x) /\ conn[x] \in Conns \cup {None}
        BY <1>0, <1>i DEF WorkerInv
    <2>1. ASSUME NEW x \in Workers PROVE DialOf(x)'
        <3>1. DialOf(x) /\ conn[x] \in Conns \cup {None}
            BY <2>0
        <3> QED BY <1>0, <1>a, <1>2, <3>1 DEF DialOf
    <2>2. ASSUME NEW t \in Tasks PROVE RunOf(t)'
        <3>1. RunOf(t) /\ via[t] \in Conns \cup {None}
            BY <1>0, <1>i DEF WorkerInv
        <3> QED BY <1>a, <1>2, <3>1 DEF RunOf, Busy
    <2>3. OwnConn'
        <3>1. \A x \in Workers : conn[x] # k
            BY <1>0, <1>a, <2>0 DEF DialOf
        <3> QED BY <1>i, <1>2, <3>1 DEF WorkerInv, OwnConn
    <2> QED BY <2>1, <2>2, <2>3 DEF WorkerInv
<1>7. Lasting' => Attended'
    <2> SUFFICES ASSUME Lasting' PROVE Attended'
        OBVIOUS
    <2>1. Attended
        BY <1>3, <1>i
    <2>2. tasksCh[w] = <<>> /\ \A t \in Tasks : Busy(t) => host[t] \in Workers /\ host[t] # w
        BY <1>a, <1>i, <2>1 DEF Attended, WorkerInv, RunOf
    <2>3. \A t \in Tasks : Busy(t)' <=> Busy(t)
        BY <1>a DEF Busy
    <2> QED BY <1>0, <1>a, <1>2, <2>1, <2>2, <2>3 DEF Attended
<1>8. TypeOK'
    <2>1. MgrTypeOK' /\ ExecTypeOK'
        BY <1>0, <1>a, CoreFrame
    <2> QED BY <1>a, <1>1, <2>1 DEF TypeOK
<1> QED BY <1>4, <1>5, <1>6, <1>7, <1>8 DEF CustodyInv

LEMMA CustodyAttach ==
    ASSUME TypeOK, CustodyInv, NEW w \in Workers, Attach(w)
    PROVE  TypeOK' /\ CustodyInv'
<1>0. /\ MgrTypeOK /\ ExecTypeOK
      /\ dialPc \in [Workers -> {"dial", "attach", "run"}]
      /\ conn \in [Workers -> Conns \cup {None}] /\ currentSend \in [Workers -> Conns \cup {None}]
    BY Types
<1>i. HubInv /\ WorkerInv /\ PlaceInv /\ (Lasting => Attended)
    BY DEF CustodyInv
<1>a. /\ UNCHANGED <<mgrVars, run, workers, nextIdx, busy, sendQ, sendClosed, reader, eventsCh,
                     link, down, up, conn, outQ, tasksCh, host, via, stopping>>
      /\ dialPc[w] = "attach"
      /\ currentSend' = [currentSend EXCEPT ![w] = conn[w]]
      /\ dialPc' = [dialPc EXCEPT ![w] = "run"]
    BY DEF Attach, hubVars, netVars
<1>1. /\ dialPc' \in [Workers -> {"dial", "attach", "run"}]
      /\ currentSend' \in [Workers -> Conns \cup {None}]
      /\ \A x \in Workers : /\ currentSend'[x] = IF x = w THEN conn[w] ELSE currentSend[x]
                            /\ dialPc'[x] = IF x = w THEN "run" ELSE dialPc[x]
    BY <1>0, <1>a
<1>3. Lasting' => Lasting
    BY <1>a DEF Lasting
<1>4. PlaceInv' /\ HubInv'
    BY <1>a, <1>i, <1>3, NothingMoves, HubFrame
<1>6. WorkerInv'
    <2>1. ASSUME NEW x \in Workers PROVE DialOf(x)'
        <3>1. DialOf(x)
            BY <1>i DEF WorkerInv
        <3> QED BY <1>a, <1>1, <3>1 DEF DialOf
    <2>2. ASSUME NEW t \in Tasks PROVE RunOf(t)'
        BY <1>a, <1>i DEF WorkerInv, RunOf, Busy
    <2> QED BY <1>a, <1>i, <2>1, <2>2 DEF WorkerInv, OwnConn
<1>7. Lasting' => Attended'
    <2> SUFFICES ASSUME Lasting' PROVE Attended'
        OBVIOUS
    <2>1. Attended
        BY <1>3, <1>i
    <2>2. \A t \in Tasks : (Busy(t)' <=> Busy(t)) /\ (Busy(t) => host[t] \in Workers)
        BY <1>a, <1>i DEF Busy, WorkerInv, RunOf
    <2> QED BY <1>a, <1>1, <2>1, <2>2 DEF Attended
<1>8. TypeOK'
    <2>1. MgrTypeOK' /\ ExecTypeOK'
        BY <1>0, <1>a, CoreFrame
    <2> QED BY <1>a, <1>1, <2>1 DEF TypeOK
<1> QED BY <1>4, <1>6, <1>7, <1>8 DEF CustodyInv

(* runConn: a task goes from the wire into c.tasks.                        *)
LEMMA CustodyWorkerRead ==
    ASSUME TypeOK, CustodyInv, NEW w \in Workers, WorkerRead(w)
    PROVE  TypeOK' /\ CustodyInv'
<1>0. MgrTypeOK /\ ExecTypeOK /\ conn \in [Workers -> Conns \cup {None}]
    BY Types
<1>i. HubInv /\ WorkerInv /\ PlaceInv /\ (Lasting => Attended)
    BY DEF CustodyInv
<1>a. /\ UNCHANGED <<mgrVars, run, workers, nextIdx, busy, sendQ, sendClosed, reader, eventsCh,
                     link, up, dialPc, conn, currentSend, outQ, host, via, stopping>>
      /\ dialPc[w] = "run"
    BY DEF WorkerRead, hubVars
<1>b. PICK k \in Conns : k = conn[w]
    BY <1>0, <1>a, <1>i DEF WorkerInv, DialOf
<1>c. PICK t : TakeOn(down, down', k, t) /\ PutOn(tasksCh, tasksCh', w, t, 1)
    BY <1>b DEF WorkerRead, TakeOn, PutOn
<1>1. t \in Tasks /\ Family(down', Conns, Tasks, WireCap) /\ IsTake(down, down', Conns, k, t)
    BY <1>c, Families, Take
<1>2. Family(tasksCh', Workers, Tasks, 1) /\ IsPut(tasksCh, tasksCh', Workers, w, t)
    <2>1. 1 \in Nat
        OBVIOUS
    <2> QED BY <1>c, <1>1, <2>1, Families, Put
<1>3. ASSUME NEW x \in Tasks
      PROVE  (OnWire(x)' <=> OnWire(x) /\ x # t) /\ (x = t => OnWire(x)) /\ WireOnce(x)'
    <2>1. WireOnce(x)
        BY <1>i DEF PlaceInv, Single
    <2> QED BY <1>1, <2>1 DEF OnWire, WireOnce, IsTake
<1>4. OnePlace(t) /\ Accounted(t) /\ OnWire(t)
    BY <1>i, <1>1, <1>3 DEF PlaceInv
<1>5. ASSUME NEW x \in Tasks PROVE (Received(x)' <=> Received(x) \/ x = t) /\ ReceivedOnce(x)'
    <2>1. ReceivedOnce(x) /\ ~Received(t)
        BY <1>i, <1>4 DEF PlaceInv, Single, OnePlace
    <2> QED BY <1>2, <2>1 DEF Received, ReceivedOnce, IsPut
<1>6. \A x \in Tasks : /\ Sent(x)' <=> Sent(x)
                       /\ Busy(x)' <=> Busy(x)
                       /\ EndOut(x)' <=> EndOut(x)
                       /\ EndUp(x)' <=> EndUp(x)
                       /\ EndInChan(x)' <=> EndInChan(x)
                       /\ Ended(x)' <=> Ended(x)
                       /\ Exists(x)' <=> Exists(x)
                       /\ Known(x)' <=> Known(x)
    BY <1>a, Unmoved, RowFrame
<1>7. Lasting' => Lasting
    BY <1>a DEF Lasting
<1>8. PlaceInv'
    <2>1. \A x \in Tasks : Single(x)'
        BY <1>a, <1>i, <1>3, <1>5, Unmoved DEF PlaceInv, Single
    <2>2. OnePlace(t)' /\ Accounted(t)'
        BY <1>1, <1>3, <1>4, <1>5, <1>6, <1>7 DEF OnePlace, Accounted, Somewhere
    <2>3. ASSUME NEW x \in Tasks, x # t PROVE Stays(x)
        BY <2>3, <1>3, <1>5, <1>6 DEF Stays
    <2> QED BY <1>i, <1>7, <2>1, <2>2, <2>3, PlaceStep
<1>9. HubInv' /\ WorkerInv'
    BY <1>a, <1>i, HubFrame, WorkerFrame
<1>10. Lasting' => Attended'
    BY <1>a, <1>i, <1>2, <1>6, <1>7 DEF Attended, IsPut
<1>11. TypeOK'
    <2>1. MgrTypeOK' /\ ExecTypeOK'
        BY <1>0, <1>a, CoreFrame
    <2> QED BY <1>a, <1>1, <1>2, <2>1 DEF TypeOK, Family
<1> QED BY <1>8, <1>9, <1>10, <1>11 DEF CustodyInv

(* runConn gives up after a failure: the worker is without a connection.   *)
LEMMA CustodyWorkerReadError ==
    ASSUME TypeOK, CustodyInv, NEW w \in Workers, WorkerReadError(w)
    PROVE  TypeOK' /\ CustodyInv'
<1>0. /\ MgrTypeOK /\ ExecTypeOK
      /\ dialPc \in [Workers -> {"dial", "attach", "run"}]
      /\ conn \in [Workers -> Conns \cup {None}] /\ currentSend \in [Workers -> Conns \cup {None}]
    BY Types
<1>i. HubInv /\ WorkerInv /\ PlaceInv /\ (Lasting => Attended)
    BY DEF CustodyInv
<1>a. /\ UNCHANGED <<mgrVars, run, workers, nextIdx, busy, sendQ, sendClosed, reader, eventsCh,
                     link, down, up, outQ, tasksCh, host, via, stopping>>
      /\ dialPc[w] = "run" /\ link[conn[w]] = "down"
      /\ currentSend' = [currentSend EXCEPT ![w] = None]
      /\ conn' = [conn EXCEPT ![w] = None]
      /\ dialPc' = [dialPc EXCEPT ![w] = "dial"]
    BY DEF WorkerReadError, hubVars, netVars
<1>1. /\ dialPc' \in [Workers -> {"dial", "attach", "run"}]
      /\ currentSend' \in [Workers -> Conns \cup {None}]
      /\ conn' \in [Workers -> Conns \cup {None}]
      /\ \A x \in Workers : /\ currentSend'[x] = IF x = w THEN None ELSE currentSend[x]
                            /\ conn'[x] = IF x = w THEN None ELSE conn[x]
                            /\ dialPc'[x] = IF x = w THEN "dial" ELSE dialPc[x]
    BY <1>0, <1>a
<1>2. ~Lasting /\ ~Lasting'
    <2>1. conn[w] \in Conns
        BY <1>0, <1>a, <1>i DEF WorkerInv, DialOf
    <2> QED BY <1>a, <2>1 DEF Lasting
<1>4. PlaceInv' /\ HubInv'
    BY <1>a, <1>i, <1>2, NothingMoves, HubFrame
<1>6. WorkerInv'
    <2>1. ASSUME NEW x \in Workers PROVE DialOf(x)'
        <3>1. DialOf(x)
            BY <1>i DEF WorkerInv
        <3> QED BY <1>a, <1>1, <3>1 DEF DialOf
    <2>2. ASSUME NEW t \in Tasks PROVE RunOf(t)'
        BY <1>a, <1>i DEF WorkerInv, RunOf, Busy
    <2>3. OwnConn'
        BY <1>1, <1>i DEF WorkerInv, OwnConn
    <2> QED BY <2>1, <2>2, <2>3 DEF WorkerInv
<1>8. TypeOK'
    <2>1. MgrTypeOK' /\ ExecTypeOK'
        BY <1>0, <1>a, CoreFrame
    <2> QED BY <1>a, <1>1, <2>1 DEF TypeOK
<1> QED BY <1>2, <1>4, <1>6, <1>8 DEF CustodyInv

(* RunWorker: a task leaves c.tasks for a run of its own.                  *)
LEMMA CustodyWorkerReceive ==
    ASSUME TypeOK, CustodyInv, NEW w \in Workers, WorkerReceive(w)
    PROVE  TypeOK' /\ CustodyInv'
<1>0. /\ MgrTypeOK /\ ExecTypeOK /\ store \in [Tasks -> Row] /\ Runs = Tasks
      /\ run \in [Tasks -> RunState \cup {Idle, Exited}]
      /\ host \in [Tasks -> Workers \cup {None}]
    BY Types, Bounds
<1>i. HubInv /\ WorkerInv /\ PlaceInv /\ (Lasting => Attended)
    BY DEF CustodyInv
<1>a. UNCHANGED <<mgrVars, workers, nextIdx, busy, sendQ, sendClosed, reader, eventsCh,
                  link, down, up, dialPc, conn, currentSend, outQ, via, stopping>>
    BY DEF WorkerReceive, hubVars, netVars
<1>b. PICK t : /\ TakeOn(tasksCh, tasksCh', w, t)
               /\ RunStart(t, t, store[t].stages)
               /\ host' = [host EXCEPT ![t] = w]
    BY DEF WorkerReceive, TakeOn
<1>1. t \in Tasks /\ Family(tasksCh', Workers, Tasks, 1) /\ IsTake(tasksCh, tasksCh', Workers, w, t)
    <2>1. 1 \in Nat
        OBVIOUS
    <2> QED BY <1>b, <2>1, Families, Take
<1>2. ASSUME NEW x \in Tasks
      PROVE  (Received(x)' <=> Received(x) /\ x # t) /\ (x = t => Received(x)) /\ ReceivedOnce(x)'
    <2>1. ReceivedOnce(x)
        BY <1>i DEF PlaceInv, Single
    <2> QED BY <1>1, <2>1 DEF Received, ReceivedOnce, IsTake
<1>3. OnePlace(t) /\ Accounted(t) /\ Received(t)
    BY <1>i, <1>1, <1>2 DEF PlaceInv
<1>4. Known(t) /\ store[t].stages \in 1..MaxStages
    BY <1>0, <1>1, <1>3 DEF Accounted, Somewhere, Known, Row, Exists
<1>5. ExecTypeOK'
    BY <1>0, <1>1, <1>4, <1>b, ExecTypeStep
<1>6. /\ \A x \in Tasks : x # t => run'[x] = run[x] /\ host'[x] = host[x]
      /\ run'[t].pc = "running" /\ run'[t].task = t /\ host'[t] = w /\ run[t].pc = "idle"
      /\ host' \in [Tasks -> Workers \cup {None}]
    BY <1>0, <1>1, <1>b DEF RunStart
<1>7. \A x \in Tasks : (Busy(x)' <=> Busy(x) \/ x = t) /\ ~Busy(t)
    BY <1>6 DEF Busy, BusyPc, EmitPc
<1>8. \A x \in Tasks : /\ Sent(x)' <=> Sent(x)
                       /\ OnWire(x)' <=> OnWire(x)
                       /\ EndOut(x)' <=> EndOut(x)
                       /\ EndUp(x)' <=> EndUp(x)
                       /\ EndInChan(x)' <=> EndInChan(x)
                       /\ Ended(x)' <=> Ended(x)
                       /\ Exists(x)' <=> Exists(x)
                       /\ Known(x)' <=> Known(x)
    BY <1>a, Unmoved, RowFrame
<1>9. Lasting' => Lasting
    BY <1>a DEF Lasting
<1>10. PlaceInv'
    <2>1. \A x \in Tasks : Single(x)'
        BY <1>a, <1>i, <1>2, Unmoved DEF PlaceInv, Single
    <2>2. OnePlace(t)' /\ Accounted(t)'
        BY <1>1, <1>2, <1>3, <1>7, <1>8, <1>9 DEF OnePlace, Accounted, Somewhere
    <2>3. ASSUME NEW x \in Tasks, x # t PROVE Stays(x)
        BY <2>3, <1>2, <1>7, <1>8 DEF Stays
    <2> QED BY <1>i, <1>9, <2>1, <2>2, <2>3, PlaceStep
<1>11. HubInv'
    BY <1>a, <1>i, HubFrame
<1>12. WorkerInv'
    <2>1. ASSUME NEW x \in Workers PROVE DialOf(x)'
        BY <1>a, <1>i DEF WorkerInv, DialOf
    <2>2. ASSUME NEW x \in Tasks PROVE RunOf(x)'
        <3>1. RunOf(x)
            BY <1>i DEF WorkerInv
        <3> QED BY <1>a, <1>6, <1>7, <3>1 DEF RunOf
    <2> QED BY <1>a, <1>i, <2>1, <2>2 DEF WorkerInv, OwnConn
<1>13. Lasting' => Attended'
    BY <1>a, <1>i, <1>1, <1>6, <1>7, <1>9 DEF Attended, IsTake
<1>14. TypeOK'
    <2>1. MgrTypeOK'
        BY <1>0, <1>a, CoreFrame
    <2> QED BY <1>a, <1>1, <1>5, <1>6, <2>1 DEF TypeOK, Family
<1> QED BY <1>10, <1>11, <1>12, <1>13, <1>14 DEF CustodyInv

-----------------------------------------------------------------------------
(* Emit.                                                                   *)

(* The channel Emit finds under c.mu is that of the worker's connection,   *)
(* and while connections last there is one.                                *)
LEMMA Current ==
    ASSUME TypeOK, CustodyInv, NEW w \in Workers
    PROVE  /\ currentSend[w] \in Conns \cup {None}
           /\ currentSend[w] # None => /\ currentSend[w] \in Conns /\ currentSend[w] = conn[w]
                                       /\ link[currentSend[w]] # "new"
           /\ Lasting /\ dialPc[w] = "run" => currentSend[w] # None
<1>1. currentSend \in [Workers -> Conns \cup {None}]
    BY Types
<1>2. DialOf(w)
    BY DEF CustodyInv, WorkerInv
<1> QED BY <1>1, <1>2 DEF DialOf

LEMMA CustodyEmitBestEffort ==
    ASSUME TypeOK, CustodyInv, NEW t \in Tasks, EmitBestEffort(t)
    PROVE  TypeOK' /\ CustodyInv'
<1>0. /\ MgrTypeOK /\ outQ \in [Conns -> Seq(Event)]
    BY Types
<1>i. HubInv /\ WorkerInv /\ PlaceInv /\ (Lasting => Attended)
    BY DEF CustodyInv
<1>a. UNCHANGED <<mgrVars, workers, nextIdx, busy, sendQ, sendClosed, reader, eventsCh,
                  link, down, up, dialPc, conn, currentSend, tasksCh, host, via, stopping>>
    BY DEF EmitBestEffort, hubVars, netVars
<1>b. EmitDone(t) /\ ~IsTerminal(EmitEvent(t))
    BY DEF EmitBestEffort
<1>1. /\ EmitEvent(t) \in Event /\ Busy(t) /\ host[t] \in Workers
      /\ Busy(t)' /\ run'[t].task = t
      /\ \A x \in Tasks : x # t => run'[x] = run[x]
      /\ \A x \in Tasks : x # t => (Busy(x)' <=> Busy(x))
      /\ ExecTypeOK'
    BY <1>b, <1>i, EmitMoves
<1>c. PICK e \in Event : e = EmitEvent(t)
    BY <1>1
<1>d. PICK k : k = currentSend[host[t]]
    OBVIOUS
<1>2. k \in Conns \cup {None} /\ (k # None => k \in Conns /\ link[k] # "new")
    BY <1>1, <1>d, Current
<1>e. outQ' = IF k = None THEN outQ ELSE [outQ EXCEPT ![k] = Offer(@, e, OutCap)]
    BY <1>c, <1>d DEF EmitBestEffort
<1>3. UNCHANGED outQ \/ (k \in Conns /\ PutOn(outQ, outQ', k, e, OutCap))
    BY <1>0, <1>2, <1>e DEF Offer, PutOn
<1>4. ASSUME NEW x \in Tasks PROVE ~IsEndOf(e, x) /\ e \notin EndsOf(x)
    BY <1>b, <1>c, EndsFixed DEF IsEndOf
<1>5. /\ Family(outQ', Conns, Event, OutCap)
      /\ \A x \in Tasks : (EndOut(x)' <=> EndOut(x)) /\ OutOnce(x)'
      /\ \A x \in Conns : link[x] = "new" => outQ'[x] = outQ[x]
    <2>0. \A x \in Tasks : OutOnce(x)
        BY <1>i DEF PlaceInv, Single
    <2>1. CASE UNCHANGED outQ
        BY <2>0, <2>1, Families, Unmoved
    <2>2. CASE k \in Conns /\ PutOn(outQ, outQ', k, e, OutCap)
        <3>1. Family(outQ', Conns, Event, OutCap) /\ IsPut(outQ, outQ', Conns, k, e)
            BY <2>2, Families, Put
        <3>2. \A x \in Tasks : (EndOut(x)' <=> EndOut(x)) /\ OutOnce(x)'
            BY <1>4, <2>0, <3>1, EndsFixed DEF EndOut, OutOnce, IsPut
        <3>3. k # None
            BY <2>2, Bounds
        <3> QED BY <1>2, <3>1, <3>2, <3>3 DEF IsPut
    <2> QED BY <1>3, <2>1, <2>2
<1>6. Lasting' => Lasting
    BY <1>a DEF Lasting
<1>7. PlaceInv'
    <2>1. \A x \in Tasks : Single(x)'
        BY <1>a, <1>i, <1>5, Unmoved DEF PlaceInv, Single
    <2>2. ASSUME NEW x \in Tasks PROVE Stays(x)
        BY <1>a, <1>1, <1>5, Unmoved, RowFrame DEF Stays
    <2> QED BY <1>i, <1>6, <2>1, <2>2, PlaceStep
<1>8. HubInv'
    <2>1. ASSUME NEW x \in Conns PROVE HubOf(x)'
        <3>1. HubOf(x)
            BY <1>i DEF HubInv
        <3> QED BY <1>a, <1>5, <3>1 DEF HubOf, Registered
    <2> QED BY <2>1 DEF HubInv
<1>9. WorkerInv'
    <2>1. ASSUME NEW x \in Workers PROVE DialOf(x)'
        BY <1>a, <1>i DEF WorkerInv, DialOf
    <2>2. ASSUME NEW x \in Tasks PROVE RunOf(x)'
        <3>1. RunOf(x)
            BY <1>i DEF WorkerInv
        <3> QED BY <1>a, <1>1, <3>1 DEF RunOf
    <2> QED BY <1>a, <1>i, <2>1, <2>2 DEF WorkerInv, OwnConn
<1>10. Lasting' => Attended'
    BY <1>a, <1>i, <1>1, <1>6 DEF Attended
<1>11. TypeOK'
    <2>1. MgrTypeOK'
        BY <1>0, <1>a, CoreFrame
    <2> QED BY <1>a, <1>1, <1>5, <2>1 DEF TypeOK, Family
<1> QED BY <1>7, <1>8, <1>9, <1>10, <1>11 DEF CustodyInv

(* A terminal event without a connection is lost, and a connection has     *)
(* failed by then.                                                         *)
LEMMA CustodyEmitDisconnected ==
    ASSUME TypeOK, CustodyInv, NEW t \in Tasks, EmitDisconnected(t)
    PROVE  TypeOK' /\ CustodyInv'
<1>0. MgrTypeOK
    BY Types
<1>i. HubInv /\ WorkerInv /\ PlaceInv /\ (Lasting => Attended)
    BY DEF CustodyInv
<1>a. UNCHANGED <<mgrVars, workers, nextIdx, busy, sendQ, sendClosed, reader, eventsCh, link,
                  down, up, dialPc, conn, currentSend, outQ, tasksCh, host, via, stopping>>
    BY DEF EmitDisconnected, hubVars, netVars, workerVars
<1>b. EmitDone(t) /\ IsTerminal(EmitEvent(t)) /\ via[t] = None /\ currentSend[host[t]] = None
    BY DEF EmitDisconnected
<1>1. /\ Busy(t) /\ host[t] \in Workers /\ ~Busy(t)'
      /\ \A x \in Tasks : x # t => run'[x] = run[x]
      /\ \A x \in Tasks : x # t => (Busy(x)' <=> Busy(x))
      /\ ExecTypeOK'
    BY <1>b, <1>i, EmitMoves
<1>2. ~Lasting /\ ~Lasting'
    <2>1. ~Lasting
        BY <1>b, <1>i, <1>1, Current DEF Attended
    <2> QED BY <1>a, <2>1 DEF Lasting
<1>3. PlaceInv'
    <2>1. \A x \in Tasks : Single(x)'
        BY <1>a, <1>i, Unmoved DEF PlaceInv, Single
    <2>2. ASSUME NEW x \in Tasks PROVE StaysOrLost(x)
        BY <1>a, <1>1, Unmoved, RowFrame DEF StaysOrLost
    <2> QED BY <1>i, <1>2, <2>1, <2>2, PlaceStep
<1>4. HubInv'
    BY <1>a, <1>i, HubFrame
<1>5. WorkerInv'
    <2>1. ASSUME NEW x \in Workers PROVE DialOf(x)'
        BY <1>a, <1>i DEF WorkerInv, DialOf
    <2>2. ASSUME NEW x \in Tasks PROVE RunOf(x)'
        <3>1. RunOf(x)
            BY <1>i DEF WorkerInv
        <3> QED BY <1>a, <1>b, <1>1, <3>1 DEF RunOf
    <2> QED BY <1>a, <1>i, <2>1, <2>2 DEF WorkerInv, OwnConn
<1>6. TypeOK'
    <2>1. MgrTypeOK'
        BY <1>0, <1>a, CoreFrame
    <2> QED BY <1>a, <1>1, <2>1 DEF TypeOK
<1> QED BY <1>2, <1>3, <1>4, <1>5, <1>6 DEF CustodyInv

LEMMA CustodyEmitPick ==
    ASSUME TypeOK, CustodyInv, NEW t \in Tasks, EmitPick(t)
    PROVE  TypeOK' /\ CustodyInv'
<1>0. MgrTypeOK /\ ExecTypeOK /\ via \in [Tasks -> Conns \cup {None}]
    BY Types
<1>i. HubInv /\ WorkerInv /\ PlaceInv /\ (Lasting => Attended)
    BY DEF CustodyInv
<1>a. /\ UNCHANGED <<mgrVars, run, workers, nextIdx, busy, sendQ, sendClosed, reader, eventsCh,
                     link, down, up, dialPc, conn, currentSend, outQ, tasksCh, host, stopping>>
      /\ run[t].pc \in EmitPc /\ currentSend[host[t]] # None
      /\ via' = [via EXCEPT ![t] = currentSend[host[t]]]
    BY DEF EmitPick, hubVars, netVars
<1>1. Busy(t)
    BY <1>a DEF Busy, BusyPc
<1>2. host[t] \in Workers
    BY <1>i, <1>1 DEF WorkerInv, RunOf
<1>b. PICK k \in Conns : k = currentSend[host[t]] /\ link[k] # "new"
    BY <1>a, <1>2, Current
<1>3. /\ via' \in [Tasks -> Conns \cup {None}] /\ via'[t] = k
      /\ \A x \in Tasks : x # t => via'[x] = via[x]
    BY <1>0, <1>a, <1>b
<1>4. Lasting' => Lasting
    BY <1>a DEF Lasting
<1>5. PlaceInv' /\ HubInv' /\ (Lasting' => Attended')
    BY <1>a, <1>i, <1>4, NothingMoves, HubFrame, AttendedFrame
<1>6. WorkerInv'
    <2>1. ASSUME NEW x \in Workers PROVE DialOf(x)'
        BY <1>a, <1>i DEF WorkerInv, DialOf
    <2>2. ASSUME NEW x \in Tasks PROVE RunOf(x)'
        <3>1. RunOf(x)
            BY <1>i DEF WorkerInv
        <3> QED BY <1>a, <1>b, <1>1, <1>3, <3>1 DEF RunOf, Busy
    <2> QED BY <1>a, <1>i, <2>1, <2>2 DEF WorkerInv, OwnConn
<1>7. TypeOK'
    <2>1. MgrTypeOK' /\ ExecTypeOK'
        BY <1>0, <1>a, CoreFrame
    <2> QED BY <1>a, <1>3, <2>1 DEF TypeOK
<1> QED BY <1>5, <1>6, <1>7 DEF CustodyInv

(* The end of a run goes into the channel that was picked.                 *)
LEMMA CustodyEmitTerminal ==
    ASSUME TypeOK, CustodyInv, NEW t \in Tasks, EmitTerminal(t)
    PROVE  TypeOK' /\ CustodyInv'
<1>0. MgrTypeOK /\ via \in [Tasks -> Conns \cup {None}]
    BY Types
<1>i. HubInv /\ WorkerInv /\ PlaceInv /\ (Lasting => Attended)
    BY DEF CustodyInv
<1>a. /\ UNCHANGED <<mgrVars, workers, nextIdx, busy, sendQ, sendClosed, reader, eventsCh,
                     link, down, up, dialPc, conn, currentSend, tasksCh, host, stopping>>
      /\ EmitDone(t) /\ via[t] # None /\ via' = [via EXCEPT ![t] = None]
    BY DEF EmitTerminal, hubVars, netVars
<1>1. /\ EmitEvent(t) \in Event /\ Busy(t) /\ host[t] \in Workers
      /\ IF IsTerminal(EmitEvent(t)) THEN ~Busy(t)' ELSE Busy(t)' /\ run'[t].task = t
      /\ \A x \in Tasks : x # t => run'[x] = run[x] /\ ~IsEndOf(EmitEvent(t), x)
      /\ \A x \in Tasks : x # t => (Busy(x)' <=> Busy(x))
      /\ IsEndOf(EmitEvent(t), t) <=> IsTerminal(EmitEvent(t))
      /\ ExecTypeOK'
    BY <1>a, <1>i, EmitMoves
<1>b. PICK e \in Event : e = EmitEvent(t)
    BY <1>1
<1>c. PICK k \in Conns : k = via[t] /\ link[k] # "new"
    BY <1>0, <1>a, <1>i DEF WorkerInv, RunOf
<1>2. Family(outQ', Conns, Event, OutCap) /\ IsPut(outQ, outQ', Conns, k, e)
    <2>1. PutOn(outQ, outQ', k, e, OutCap)
        BY <1>b, <1>c DEF EmitTerminal, PutOn
    <2> QED BY <2>1, Families, Put
<1>3. /\ via' \in [Tasks -> Conns \cup {None}] /\ via'[t] = None
      /\ \A x \in Tasks : x # t => via'[x] = via[x]
    BY <1>0, <1>a
<1>4. ASSUME NEW x \in Tasks PROVE (EndOut(x)' <=> EndOut(x) \/ IsEndOf(e, x)) /\ OutOnce(x)'
    <2>1. OutOnce(x) /\ (IsEndOf(e, x) => ~EndOut(x))
        BY <1>b, <1>i, <1>1 DEF PlaceInv, Single, OnePlace
    <2> QED BY <1>2, <2>1, EndsFixed DEF EndOut, OutOnce, IsPut
<1>5. Lasting' => Lasting
    BY <1>a DEF Lasting
<1>6. \A x \in Tasks : /\ Sent(x)' <=> Sent(x)
                       /\ OnWire(x)' <=> OnWire(x)
                       /\ Received(x)' <=> Received(x)
                       /\ EndUp(x)' <=> EndUp(x)
                       /\ EndInChan(x)' <=> EndInChan(x)
                       /\ Ended(x)' <=> Ended(x)
                       /\ Exists(x)' <=> Exists(x)
                       /\ Known(x)' <=> Known(x)
    BY <1>a, Unmoved, RowFrame
<1>7. PlaceInv'
    <2>1. \A x \in Tasks : Single(x)'
        BY <1>a, <1>i, <1>4, Unmoved DEF PlaceInv, Single
    <2>2. ASSUME IsTerminal(e) PROVE OnePlace(t)' /\ Accounted(t)'
        <3>1. OnePlace(t) /\ Accounted(t)
            BY <1>i DEF PlaceInv
        <3> QED BY <1>b, <1>1, <1>4, <1>5, <1>6, <2>2, <3>1 DEF OnePlace, Accounted, Somewhere
    <2>3. ASSUME NEW x \in Tasks, x # t \/ ~IsTerminal(e) PROVE Stays(x)
        BY <2>3, <1>b, <1>1, <1>4, <1>6 DEF Stays
    <2> QED BY <1>i, <1>5, <2>1, <2>2, <2>3, PlaceStep
<1>8. HubInv'
    <2>1. ASSUME NEW x \in Conns PROVE HubOf(x)'
        <3>1. HubOf(x)
            BY <1>i DEF HubInv
        <3> QED BY <1>a, <1>c, <1>2, <3>1 DEF HubOf, Registered, IsPut
    <2> QED BY <2>1 DEF HubInv
<1>9. WorkerInv'
    <2>1. ASSUME NEW x \in Workers PROVE DialOf(x)'
        BY <1>a, <1>i DEF WorkerInv, DialOf
    <2>2. ASSUME NEW x \in Tasks PROVE RunOf(x)'
        <3>1. RunOf(x)
            BY <1>i DEF WorkerInv
        <3> QED BY <1>a, <1>1, <1>3, <3>1 DEF RunOf
    <2> QED BY <1>a, <1>i, <2>1, <2>2 DEF WorkerInv, OwnConn
<1>10. Lasting' => Attended'
    BY <1>a, <1>i, <1>1, <1>5 DEF Attended
<1>11. TypeOK'
    <2>1. MgrTypeOK'
        BY <1>0, <1>a, CoreFrame
    <2> QED BY <1>a, <1>1, <1>2, <1>3, <2>1 DEF TypeOK, Family
<1> QED BY <1>7, <1>8, <1>9, <1>10, <1>11 DEF CustodyInv

LEMMA CustodyStage ==
    ASSUME TypeOK, CustodyInv, NEW t \in Tasks, Stage(t)
    PROVE  TypeOK' /\ CustodyInv'
<1>0. MgrTypeOK
    BY Types
<1>i. HubInv /\ WorkerInv /\ PlaceInv /\ (Lasting => Attended)
    BY DEF CustodyInv
<1>a. UNCHANGED <<mgrVars, workers, nextIdx, busy, sendQ, sendClosed, reader, eventsCh, link,
                  down, up, dialPc, conn, currentSend, outQ, tasksCh, host, via, stopping>>
    BY DEF Stage, hubVars, netVars, workerVars
<1>1. ExecTypeOK' /\ \A x \in Tasks : (Busy(x)' <=> Busy(x)) /\ run'[x].task = run[x].task
    BY <1>i, StageMoves
<1>2. Lasting' => Lasting
    BY <1>a DEF Lasting
<1>3. PlaceInv'
    <2>1. \A x \in Tasks : Single(x)'
        BY <1>a, <1>i, Unmoved DEF PlaceInv, Single
    <2>2. ASSUME NEW x \in Tasks PROVE Stays(x)
        BY <1>a, <1>1, Unmoved, RowFrame DEF Stays
    <2> QED BY <1>i, <1>2, <2>1, <2>2, PlaceStep
<1>4. HubInv'
    BY <1>a, <1>i, HubFrame
<1>5. WorkerInv'
    <2>1. ASSUME NEW x \in Workers PROVE DialOf(x)'
        BY <1>a, <1>i DEF WorkerInv, DialOf
    <2>2. ASSUME NEW x \in Tasks PROVE RunOf(x)'
        <3>1. RunOf(x)
            BY <1>i DEF WorkerInv
        <3> QED BY <1>a, <1>1, <3>1 DEF RunOf
    <2> QED BY <1>a, <1>i, <2>1, <2>2 DEF WorkerInv, OwnConn
<1>6. Lasting' => Attended'
    BY <1>a, <1>i, <1>1, <1>2 DEF Attended
<1>7. TypeOK'
    <2>1. MgrTypeOK'
        BY <1>0, <1>a, CoreFrame
    <2> QED BY <1>a, <1>1, <2>1 DEF TypeOK
<1> QED BY <1>3, <1>4, <1>5, <1>6, <1>7 DEF CustodyInv

-----------------------------------------------------------------------------
(* A process told to stop, and its end.                                    *)

LEMMA CustodyStop ==
    ASSUME TypeOK, CustodyInv, NEW w \in Workers, Stop(w)
    PROVE  TypeOK' /\ CustodyInv'
<1>0. MgrTypeOK /\ ExecTypeOK /\ stopping \in [Workers -> BOOLEAN]
    BY Types
<1>i. HubInv /\ WorkerInv /\ PlaceInv /\ (Lasting => Attended)
    BY DEF CustodyInv
<1>a. /\ UNCHANGED <<mgrVars, run, workers, nextIdx, busy, sendQ, sendClosed, reader, eventsCh,
                     link, down, up, dialPc, conn, currentSend, outQ, tasksCh, host, via>>
      /\ stopping' = [stopping EXCEPT ![w] = TRUE]
      /\ conn[w] \in Fragile \/ (conn[w] = None /\ AtWorker(w) # {})
    BY DEF Stop, hubVars, netVars
<1>1. /\ stopping' \in [Workers -> BOOLEAN]
      /\ \A x \in Workers : x # w => stopping'[x] = stopping[x]
    BY <1>0, <1>a
<1>2. Lasting' => Lasting
    BY <1>a DEF Lasting
<1>3. PlaceInv' /\ HubInv' /\ WorkerInv'
    BY <1>a, <1>i, <1>2, NothingMoves, HubFrame, WorkerFrame
<1>4. Lasting' => Attended'
    <2> SUFFICES ASSUME Lasting' PROVE Attended'
        OBVIOUS
    <2>1. Attended
        BY <1>2, <1>i
    <2>2. conn[w] # None
        <3>1. CASE conn[w] \in Fragile
            BY <3>1, P3Assumption
        <3>2. CASE AtWorker(w) # {}
            <4>1. ToSet(<<>>) = {}
                BY DEF ToSet
            <4>2. tasksCh[w] # <<>> \/ \E t \in Tasks : Busy(t) /\ host[t] = w
                BY <3>2, <4>1 DEF AtWorker
            <4>3. dialPc[w] = "run"
                BY <2>1, <4>2 DEF Attended
            <4> QED BY <1>i, <4>3 DEF WorkerInv, DialOf
        <3> QED BY <1>a, <3>1, <3>2
    <2>3. \A x \in Tasks : Busy(x)' <=> Busy(x)
        BY <1>a DEF Busy
    <2> QED BY <1>a, <1>1, <2>1, <2>2, <2>3 DEF Attended
<1>5. TypeOK'
    <2>1. MgrTypeOK' /\ ExecTypeOK'
        BY <1>0, <1>a, CoreFrame
    <2> QED BY <1>a, <1>1, <2>1 DEF TypeOK
<1> QED BY <1>3, <1>4, <1>5 DEF CustodyInv

LEMMA CustodyExit ==
    ASSUME TypeOK, CustodyInv, NEW w \in Workers, Exit(w)
    PROVE  TypeOK' /\ CustodyInv'
<1>0. /\ MgrTypeOK /\ ExecTypeOK /\ Runs = Tasks
      /\ run \in [Tasks -> RunState \cup {Idle, Exited}]
      /\ link \in [Conns -> {"new", "up", "down"}]
      /\ dialPc \in [Workers -> {"dial", "attach", "run"}]
      /\ conn \in [Workers -> Conns \cup {None}] /\ currentSend \in [Workers -> Conns \cup {None}]
      /\ via \in [Tasks -> Conns \cup {None}] /\ stopping \in [Workers -> BOOLEAN]
    BY Types, Bounds
<1>i. HubInv /\ WorkerInv /\ PlaceInv /\ (Lasting => Attended)
    BY DEF CustodyInv
<1>a. /\ UNCHANGED <<mgrVars, workers, nextIdx, busy, sendQ, sendClosed, reader, eventsCh, host>>
      /\ stopping[w] /\ stopping' = [stopping EXCEPT ![w] = FALSE]
      /\ currentSend' = [currentSend EXCEPT ![w] = None]
      /\ conn' = [conn EXCEPT ![w] = None]
      /\ dialPc' = [dialPc EXCEPT ![w] = "dial"]
    BY DEF Exit, hubVars
<1>b. /\ run' = [t \in Tasks |-> IF host[t] = w /\ Busy(t) THEN Exited ELSE run[t]]
      /\ via' = [t \in Tasks |-> IF host[t] = w THEN None ELSE via[t]]
    BY DEF Exit
<1>1. /\ dialPc' \in [Workers -> {"dial", "attach", "run"}]
      /\ currentSend' \in [Workers -> Conns \cup {None}]
      /\ conn' \in [Workers -> Conns \cup {None}] /\ stopping' \in [Workers -> BOOLEAN]
      /\ \A x \in Workers : /\ currentSend'[x] = IF x = w THEN None ELSE currentSend[x]
                            /\ conn'[x] = IF x = w THEN None ELSE conn[x]
                            /\ dialPc'[x] = IF x = w THEN "dial" ELSE dialPc[x]
    BY <1>0, <1>a
<1>2. /\ via' \in [Tasks -> Conns \cup {None}]
      /\ \A x \in Tasks : via'[x] # None => via'[x] = via[x] /\ host[x] # w
    BY <1>0, <1>b
<1>3. \A x \in Tasks : \/ run'[x] = run[x] /\ ~(host[x] = w /\ Busy(x))
                       \/ run'[x] = Exited /\ host[x] = w
    BY <1>b
<1>4. ExecTypeOK'
    <2>1. run' \in [Runs -> RunState \cup {Idle, Exited}]
        BY <1>0, <1>b
    <2>2. ASSUME NEW x \in Runs, run'[x].pc \in {"start", "sleep", "end"}
          PROVE  run'[x].stage < run'[x].total
        <3>1. run'[x] = run[x]
            BY <1>0, <1>3, <2>2 DEF Exited
        <3> QED BY <1>0, <2>2, <3>1 DEF ExecTypeOK
    <2> QED BY <2>1, <2>2 DEF ExecTypeOK
<1>5. \A x \in Tasks : Busy(x)' => Busy(x) /\ run'[x] = run[x]
    BY <1>3 DEF Busy, BusyPc, EmitPc, Exited
<1>6. Family(tasksCh', Workers, Tasks, 1) /\ IsCrop(tasksCh, tasksCh', Workers, w)
    <2>1. CropOn(tasksCh, tasksCh', w)
        BY DEF Exit, CropOn
    <2>2. 1 \in Nat
        OBVIOUS
    <2> QED BY <2>1, <2>2, Families, Crop
<1>7. \A x \in Tasks : (Received(x)' => Received(x)) /\ ReceivedOnce(x)'
    <2>1. \A x \in Tasks : ReceivedOnce(x)
        BY <1>i DEF PlaceInv, Single
    <2> QED BY <1>6, <2>1 DEF Received, ReceivedOnce, IsCrop
<1>8. /\ link' \in [Conns -> {"new", "up", "down"}]
      /\ \A x \in Conns : link'[x] = "new" => link[x] = "new"
      /\ ~Lasting'
      /\ Family(down', Conns, Tasks, WireCap) /\ Family(up', Conns, Event, WireCap)
      /\ Family(outQ', Conns, Event, OutCap)
      /\ \A x \in Tasks : (OnWire(x)' => OnWire(x)) /\ WireOnce(x)'
      /\ \A x \in Tasks : (EndUp(x)' => EndUp(x)) /\ UpOnce(x)'
      /\ \A x \in Tasks : (EndOut(x)' => EndOut(x)) /\ OutOnce(x)'
      /\ \A x \in Conns : outQ[x] = <<>> => outQ'[x] = <<>>
    <2>0. \A x \in Tasks : WireOnce(x) /\ UpOnce(x) /\ OutOnce(x)
        BY <1>i DEF PlaceInv, Single
    <2>1. CASE conn[w] = None
        <3>1. UNCHANGED <<link, down, up, outQ>>
            BY <2>1 DEF Exit, netVars
        <3>2. ~Lasting
            BY <1>a, <1>i, <2>1 DEF Attended
        <3>3. ~Lasting'
            BY <3>1, <3>2 DEF Lasting
        <3>4. /\ Family(down', Conns, Tasks, WireCap) /\ Family(up', Conns, Event, WireCap)
              /\ Family(outQ', Conns, Event, OutCap)
            BY <3>1, Families
        <3>5. ASSUME NEW x \in Tasks
              PROVE  /\ OnWire(x)' => OnWire(x)
                     /\ EndUp(x)' => EndUp(x)
                     /\ EndOut(x)' => EndOut(x)
                     /\ WireOnce(x)' /\ UpOnce(x)' /\ OutOnce(x)'
            BY <2>0, <3>1, Unmoved
        <3> QED BY <1>0, <3>1, <3>3, <3>4, <3>5
    <2>2. CASE conn[w] # None
        <3>0. PICK k \in Conns : k = conn[w]
            BY <1>0, <2>2
        <3>1. Cut(k) /\ outQ' = [outQ EXCEPT ![k] = <<>>]
            BY <2>2, <3>0 DEF Exit
        <3>2. /\ link' \in [Conns -> {"new", "up", "down"}]
              /\ \A x \in Conns : link'[x] = "new" => link[x] = "new"
              /\ ~Lasting'
              /\ Family(down', Conns, Tasks, WireCap) /\ IsCrop(down, down', Conns, k)
              /\ Family(up', Conns, Event, WireCap) /\ IsCrop(up, up', Conns, k)
            BY <3>1, CutMoves
        <3>3. Family(outQ', Conns, Event, OutCap) /\ IsCrop(outQ, outQ', Conns, k)
            <4>1. CropOn(outQ, outQ', k)
                BY <3>1 DEF CropOn
            <4> QED BY <4>1, Families, Crop
        <3>4. ASSUME NEW x \in Tasks
              PROVE  /\ OnWire(x)' => OnWire(x)
                     /\ EndUp(x)' => EndUp(x)
                     /\ EndOut(x)' => EndOut(x)
                     /\ WireOnce(x)' /\ UpOnce(x)' /\ OutOnce(x)'
            <4>1. (OnWire(x)' => OnWire(x)) /\ (EndUp(x)' => EndUp(x)) /\ WireOnce(x)' /\ UpOnce(x)'
                BY <1>i, <3>2, CropPlaces
            <4>2. (EndOut(x)' => EndOut(x)) /\ OutOnce(x)'
                BY <2>0, <3>3, EndsFixed DEF EndOut, OutOnce, IsCrop
            <4> QED BY <4>1, <4>2
        <3>5. \A x \in Conns : outQ[x] = <<>> => outQ'[x] = <<>>
            BY <3>3 DEF IsCrop
        <3> QED BY <3>2, <3>3, <3>4, <3>5
    <2> QED BY <2>1, <2>2
<1>9. PlaceInv'
    <2>1. \A x \in Tasks : Single(x)'
        BY <1>a, <1>i, <1>7, <1>8, Unmoved DEF PlaceInv, Single
    <2>2. ASSUME NEW x \in Tasks PROVE StaysOrLost(x)
        BY <1>a, <1>5, <1>7, <1>8, Unmoved, RowFrame DEF StaysOrLost
    <2> QED BY <1>i, <1>8, <2>1, <2>2, PlaceStep
<1>10. HubInv'
    <2>1. ASSUME NEW x \in Conns PROVE HubOf(x)'
        <3>1. HubOf(x)
            BY <1>i DEF HubInv
        <3> QED BY <1>a, <1>8, <3>1 DEF HubOf, Registered
    <2> QED BY <2>1 DEF HubInv
<1>11. WorkerInv'
    <2>1. ASSUME NEW x \in Workers PROVE DialOf(x)'
        <3>1. DialOf(x) /\ conn[x] \in Conns \cup {None}
            BY <1>0, <1>i DEF WorkerInv
        <3> QED BY <1>1, <1>8, <3>1 DEF DialOf
    <2>2. ASSUME NEW x \in Tasks PROVE RunOf(x)'
        <3>1. RunOf(x) /\ via[x] \in Conns \cup {None}
            BY <1>0, <1>i DEF WorkerInv
        <3>2. Busy(x)' => run'[x].task = x /\ host'[x] \in Workers
            BY <1>a, <1>5, <3>1 DEF RunOf
        <3>3. ASSUME via'[x] # None PROVE Busy(x)' /\ link'[via'[x]] # "new"
            <4>1. via'[x] = via[x] /\ run'[x] = run[x] /\ Busy(x) /\ link[via[x]] # "new"
                BY <1>2, <1>3, <3>1, <3>3 DEF RunOf
            <4> QED BY <1>8, <3>1, <3>3, <4>1 DEF Busy
        <3> QED BY <3>2, <3>3 DEF RunOf
    <2>3. OwnConn'
        BY <1>1, <1>i DEF WorkerInv, OwnConn
    <2> QED BY <2>1, <2>2, <2>3 DEF WorkerInv
<1>12. TypeOK'
    <2>1. MgrTypeOK'
        BY <1>0, <1>a, CoreFrame
    <2> QED BY <1>a, <1>1, <1>2, <1>4, <1>6, <1>8, <2>1 DEF TypeOK, Family
<1> QED BY <1>8, <1>9, <1>10, <1>11, <1>12 DEF CustodyInv

-----------------------------------------------------------------------------
(* runEventLoop: an ending goes from p.events to the store.                *)

(* What the iteration does with the rows, and that no ended row is written *)
(* again.                                                                  *)
LEMMA LoopMoves ==
    ASSUME TypeOK, CustodyInv, EventLoop
    PROVE  \E e \in Event :
              /\ eventsCh' \in Seq(Event) /\ Len(eventsCh') <= EventsCap
              /\ MgrTypeOK'
              /\ \A x \in Tasks : /\ EndInChan(x)' <=> EndInChan(x) /\ ~IsEndOf(e, x)
                                  /\ IsEndOf(e, x) => EndInChan(x)
                                  /\ ChanOnce(x)'
              /\ \A x \in Tasks : ~IsEndOf(e, x) => store'[x] = store[x]
              /\ \A x \in Tasks : IsEndOf(e, x) /\ Known(x) => Ended(x)' /\ Known(x)'
<1>0. /\ MgrTypeOK /\ store \in [Tasks -> Row]
      /\ eventsCh \in Seq(Event) /\ Len(eventsCh) <= EventsCap /\ EventsCap \in Nat
    BY Types, Bounds
<1>a. /\ eventsCh # <<>> /\ eventsCh' = Tail(eventsCh)
      /\ LoopIteration(Head(eventsCh))
    BY DEF EventLoop
<1>b. PICK e \in Event : e = Head(eventsCh)
    BY <1>0, <1>a, ChannelSteps
<1>1. /\ eventsCh' \in Seq(Event) /\ ReceivedFrom(eventsCh, eventsCh')
      /\ e = eventsCh[1] /\ LoopIteration(e)
    BY <1>0, <1>a, <1>b, ChannelSteps
<1>2. Len(eventsCh') <= EventsCap
    BY <1>0, <1>1 DEF ReceivedFrom
<1>3. /\ e.task \in Tasks
      /\ \A x \in Tasks : x # e.task => store'[x] = store[x]
      /\ ~IsTerminal(e) => store' = store
      /\ IsTerminal(e) /\ Exists(e.task) => store'[e.task].status \in Terminal
      /\ \A x \in Tasks : RowKept(x, store')
    BY <1>0, <1>1, RowsOfIteration
<1>4. MgrTypeOK'
    BY <1>0, <1>1, MgrTypeIteration
<1>5. ASSUME NEW x \in Tasks
      PROVE  /\ EndInChan(x)' <=> EndInChan(x) /\ ~IsEndOf(e, x)
             /\ IsEndOf(e, x) => EndInChan(x)
             /\ ChanOnce(x)'
    <2>1. HoldsOne(eventsCh, EndsOf(x))
        BY DEF CustodyInv, PlaceInv, Single, ChanOnce
    <2>2. TakenFrom(eventsCh, eventsCh', e)
        BY <1>1 DEF TakenFrom
    <2>3. /\ Holds(eventsCh', EndsOf(x)) <=> Holds(eventsCh, EndsOf(x)) /\ e \notin EndsOf(x)
          /\ e \in EndsOf(x) => Holds(eventsCh, EndsOf(x))
          /\ HoldsOne(eventsCh', EndsOf(x))
        BY <2>1, <2>2, HoldsTaken
    <2> QED BY <2>3, EndsFixed DEF EndInChan, ChanOnce
<1>6. \A x \in Tasks : ~IsEndOf(e, x) => store'[x] = store[x]
    BY <1>3 DEF IsEndOf
<1>7. ASSUME NEW x \in Tasks, IsEndOf(e, x), Known(x) PROVE Ended(x)' /\ Known(x)'
    BY <1>3, <1>7 DEF IsEndOf, Ended, Known, Exists, RowKept
<1> QED BY <1>1, <1>2, <1>4, <1>5, <1>6, <1>7

LEMMA CustodyEventLoop ==
    ASSUME TypeOK, CustodyInv, EventLoop
    PROVE  TypeOK' /\ CustodyInv'
<1>0. ExecTypeOK
    BY Types
<1>i. HubInv /\ WorkerInv /\ PlaceInv /\ (Lasting => Attended)
    BY DEF CustodyInv
<1>a. UNCHANGED <<run, workers, nextIdx, busy, sendQ, sendClosed, reader, link, down, up, dialPc,
                  conn, currentSend, outQ, tasksCh, host, via, stopping>>
    BY DEF EventLoop, netVars, workerVars
<1>b. PICK e \in Event :
              /\ eventsCh' \in Seq(Event) /\ Len(eventsCh') <= EventsCap
              /\ MgrTypeOK'
              /\ \A x \in Tasks : /\ EndInChan(x)' <=> EndInChan(x) /\ ~IsEndOf(e, x)
                                  /\ IsEndOf(e, x) => EndInChan(x)
                                  /\ ChanOnce(x)'
              /\ \A x \in Tasks : ~IsEndOf(e, x) => store'[x] = store[x]
              /\ \A x \in Tasks : IsEndOf(e, x) /\ Known(x) => Ended(x)' /\ Known(x)'
    BY LoopMoves
<1>1. \A x \in Tasks : /\ Sent(x)' <=> Sent(x)
                       /\ OnWire(x)' <=> OnWire(x)
                       /\ Received(x)' <=> Received(x)
                       /\ Busy(x)' <=> Busy(x)
                       /\ EndOut(x)' <=> EndOut(x)
                       /\ EndUp(x)' <=> EndUp(x)
    BY <1>a, Unmoved
<1>2. Lasting' => Lasting
    BY <1>a DEF Lasting
<1>3. PlaceInv'
    <2>1. \A x \in Tasks : Single(x)'
        BY <1>a, <1>b, <1>i, Unmoved DEF PlaceInv, Single
    <2>2. ASSUME NEW x \in Tasks, IsEndOf(e, x) PROVE OnePlace(x)' /\ Accounted(x)'
        <3>1. OnePlace(x) /\ Accounted(x) /\ EndInChan(x) /\ ~EndInChan(x)'
            BY <1>b, <1>i, <2>2 DEF PlaceInv
        <3>2. Ended(x)' /\ Known(x)'
            BY <1>b, <2>2, <3>1 DEF Accounted, Somewhere
        <3>3. OnePlace(x)'
            BY <1>1, <3>1 DEF OnePlace
        <3>4. Accounted(x)'
            BY <3>2 DEF Accounted, Somewhere
        <3> QED BY <3>3, <3>4
    <2>3. ASSUME NEW x \in Tasks, ~IsEndOf(e, x) PROVE Stays(x)
        <3>1. store'[x] = store[x]
            BY <1>b, <2>3
        <3> QED BY <2>3, <3>1, <1>b, <1>1, SameRow DEF Stays
    <2> QED BY <1>i, <1>2, <2>1, <2>2, <2>3, PlaceStep
<1>4. HubInv' /\ WorkerInv' /\ (Lasting' => Attended')
    BY <1>a, <1>i, HubFrame, WorkerFrame, AttendedFrame
<1>5. TypeOK'
    <2>1. ExecTypeOK'
        BY <1>0, <1>a, CoreFrame
    <2> QED BY <1>a, <1>b, <2>1 DEF TypeOK
<1> QED BY <1>3, <1>4, <1>5 DEF CustodyInv

-----------------------------------------------------------------------------
(* The theorems.                                                           *)

LEMMA StepHolds == TypeOK /\ CustodyInv /\ [Next]_vars => (TypeOK /\ CustodyInv)'
<1> SUFFICES ASSUME TypeOK, CustodyInv, [Next]_vars PROVE TypeOK' /\ CustodyInv'
    OBVIOUS
<1>1. ASSUME UNCHANGED vars PROVE TypeOK' /\ CustodyInv'
    <2>0. HubInv /\ WorkerInv /\ PlaceInv /\ (Lasting => Attended) /\ MgrTypeOK /\ ExecTypeOK
        BY Types DEF CustodyInv
    <2>a. UNCHANGED <<mgrVars, run, workers, nextIdx, busy, sendQ, sendClosed, reader, eventsCh,
                      link, down, up, dialPc, conn, currentSend, outQ, tasksCh, host, via, stopping>>
        BY <1>1 DEF vars, hubVars, netVars, workerVars, mgrVars
    <2>1. Lasting' => Lasting
        BY <2>a DEF Lasting
    <2>2. PlaceInv' /\ HubInv' /\ WorkerInv' /\ (Lasting' => Attended')
        BY <2>0, <2>a, <2>1, NothingMoves, HubFrame, WorkerFrame, AttendedFrame
    <2>3. MgrTypeOK' /\ ExecTypeOK'
        BY <2>0, <2>a, CoreFrame
    <2>4. TypeOK'
        BY <2>a, <2>3 DEF TypeOK
    <2> QED BY <2>2, <2>4 DEF CustodyInv
<1>2. ASSUME NEW t \in Tasks, Submit(t) \/ Run(t) PROVE TypeOK' /\ CustodyInv'
    BY <1>2, CustodyDispatchOk, CustodyDispatchNone, CustodyEmitBestEffort, CustodyEmitDisconnected,
       CustodyEmitPick, CustodyEmitTerminal, CustodyStage
    DEF Submit, Run
<1>3. ASSUME NEW k \in Conns, ManagerWrite(k) \/ ReadPump(k) \/ WorkerWrite(k) \/ Break(k)
      PROVE  TypeOK' /\ CustodyInv'
    BY <1>3, CustodyManagerWrite, CustodyHub, CustodyManagerRead, CustodyWorkerWrite, CustodyBreak
    DEF ReadPump
<1>4. ASSUME NEW w \in Workers, ReconnectLoop(w) \/ WorkerReceive(w) \/ Stop(w) \/ Exit(w)
      PROVE  TypeOK' /\ CustodyInv'
    BY <1>4, CustodyDial, CustodyAttach, CustodyWorkerRead, CustodyWorkerReadError,
       CustodyWorkerReceive, CustodyStop, CustodyExit
    DEF ReconnectLoop
<1>5. CASE EventLoop
    BY <1>5, CustodyEventLoop
<1> QED BY <1>1, <1>2, <1>3, <1>4, <1>5 DEF Next

(* The inductive invariant holds in every reachable state.                 *)
LEMMA Inductive == Spec => [](TypeOK /\ CustodyInv)
BY InitHolds, StepHolds, PTL DEF Spec

(* The type invariant: the dispatcher's and the workers' channels and the  *)
(* wire never exceed their capacities, and nextIdx stays an index of a     *)
(* list that is never longer than the connections dialled.                 *)
THEOREM TypeCorrect == Spec => []TypeOK
BY Inductive, PTL

(* Dispatch never sends on a closed channel: a connection is out of        *)
(* p.workers before close(wc.send), however often it fails and whenever    *)
(* readPump notices.                                                       *)
THEOREM NoSendOnClosedCorrect == Spec => []NoSendOnClosed
<1>1. TypeOK /\ CustodyInv => NoSendOnClosed
    <2> SUFFICES ASSUME TypeOK, CustodyInv, NEW k \in ToSet(workers) PROVE ~sendClosed[k]
        BY DEF NoSendOnClosed
    <2>0. workers \in Seq(Conns)
        BY Types
    <2>1. PICK i \in 1..Len(workers) : workers[i] = k
        BY <2>0 DEF ToSet
    <2>2. k \in Conns /\ Registered(k)
        BY <2>0, <2>1 DEF Registered, Holds
    <2> QED BY <2>2 DEF CustodyInv, HubInv, HubOf
<1> QED BY <1>1, Inductive, PTL

(* An ending is written once: the loop writes the end of a task that has   *)
(* none, because an end in p.events excludes one in the store.             *)
THEOREM EndedOnceCorrect == Spec => EndedOnce
<1>1. TypeOK /\ CustodyInv /\ [Next]_vars
         => [\A t \in Tasks : Ended(t) => store'[t].status = store[t].status]_vars
    <2> SUFFICES ASSUME TypeOK, CustodyInv, Next, NEW t \in Tasks, Ended(t)
                 PROVE  store'[t].status = store[t].status
        OBVIOUS
    <2>1. CASE EventLoop
        <3>1. PICK e \in Event :
                 /\ \A x \in Tasks : IsEndOf(e, x) => EndInChan(x)
                 /\ \A x \in Tasks : ~IsEndOf(e, x) => store'[x] = store[x]
            BY <2>1, LoopMoves
        <3>2. ~IsEndOf(e, t)
            BY <3>1 DEF CustodyInv, PlaceInv, OnePlace
        <3> QED BY <3>1, <3>2
    <2>2. ASSUME NEW x \in Tasks, Submit(x) PROVE store'[t].status = store[t].status
        <3>0. store \in [Tasks -> Row] /\ StageCounts \subseteq Int /\ MgrTypeOK
            BY Types, Bounds
        <3>1. Exists(t)
            BY DEF Ended, Exists, Terminal
        <3>2. \E u \in UserIDs, n \in StageCounts :
                 SubmitAccepted(x, u, n) \/ SubmitRejected(x, u, n, "ErrNoWorkers")
            BY <2>2 DEF Submit, DispatchOk, DispatchNone, Accepted, Refused
        <3>3. "ErrNoWorkers" \in DispatchError
            BY DEF DispatchError
        <3>4. ~Exists(x) /\ \A y \in Tasks : y # x => store'[y] = store[y]
            BY <3>0, <3>2, <3>3, RowsOfSubmitOnce
        <3> QED BY <3>1, <3>4
    <2>3. ASSUME UNCHANGED mgrVars PROVE store'[t].status = store[t].status
        BY <2>3 DEF mgrVars
    <2>4. ASSUME NEW x \in Tasks, Run(x) PROVE UNCHANGED mgrVars
        BY <2>4 DEF Run, EmitBestEffort, EmitDisconnected, EmitPick, EmitTerminal, Stage
    <2>5. ASSUME NEW k \in Conns, ManagerWrite(k) \/ ReadPump(k) \/ WorkerWrite(k) \/ Break(k)
          PROVE  UNCHANGED mgrVars
        BY <2>5 DEF ManagerWrite, ReadPump, WorkerWrite, Break, Register, ManagerRead, Release,
                    ReadError, CloseSend
    <2>6. ASSUME NEW w \in Workers, ReconnectLoop(w) \/ WorkerReceive(w) \/ Stop(w) \/ Exit(w)
          PROVE  UNCHANGED mgrVars
        BY <2>6 DEF ReconnectLoop, Dial, Attach, WorkerRead, WorkerReadError, WorkerReceive, Stop,
                    Exit
    <2> QED BY <2>1, <2>2, <2>3, <2>4, <2>5, <2>6 DEF Next
<1> QED BY <1>1, Inductive, PTL DEF Spec, EndedOnce

(* The holders of task t in a family of channels, and the holders of its   *)
(* end in a family of channels of events.                                  *)
TaskSlots(tag, f, D, t) ==
    UNION {{<<tag, k, i>> : i \in {j \in 1..Len(f[k]) : f[k][j] = t}} : k \in D}
EndSlots(tag, f, D, t) ==
    UNION {{<<tag, k, i>> : i \in {j \in 1..Len(f[k]) : IsEndOf(f[k][j], t)}} : k \in D}

(* There is one exactly when a channel holds it, and not two.              *)
LEMMA TaskHolders ==
    ASSUME NEW f, NEW D, NEW t, NEW tag, HoldsOnce(f, D, {t})
    PROVE  /\ HoldsAny(f, D, {t}) <=> TaskSlots(tag, f, D, t) # {}
           /\ \A p, q \in TaskSlots(tag, f, D, t) : p = q
<1> DEFINE H == TaskSlots(tag, f, D, t)
<1>1. \A p : p \in H <=> \E k \in D : \E i \in 1..Len(f[k]) : f[k][i] = t /\ p = <<tag, k, i>>
    BY DEF TaskSlots
<1>2. HoldsAny(f, D, {t}) <=> \E k \in D : \E i \in 1..Len(f[k]) : f[k][i] = t
    BY DEF HoldsAny, HoldsAt, Holds
<1> HIDE DEF H
<1>3. ASSUME NEW p \in H, NEW q \in H PROVE p = q
    <2>a. PICK k \in D : \E i \in 1..Len(f[k]) : f[k][i] = t /\ p = <<tag, k, i>>
        BY <1>1
    <2>1. PICK i \in 1..Len(f[k]) : f[k][i] = t /\ p = <<tag, k, i>>
        BY <2>a
    <2>b. PICK m \in D : \E n \in 1..Len(f[m]) : f[m][n] = t /\ q = <<tag, m, n>>
        BY <1>1
    <2>2. PICK n \in 1..Len(f[m]) : f[m][n] = t /\ q = <<tag, m, n>>
        BY <2>b
    <2>3. k = m
        BY <2>1, <2>2 DEF HoldsOnce, HoldsAt, Holds
    <2>4. i = n
        BY <2>1, <2>2, <2>3 DEF HoldsOnce, HoldsOne
    <2> QED BY <2>1, <2>2, <2>3, <2>4
<1>4. HoldsAny(f, D, {t}) <=> H # {}
    BY <1>1, <1>2
<1> QED BY <1>3, <1>4 DEF H

LEMMA EndHolders ==
    ASSUME NEW f, NEW D, NEW t \in Tasks, NEW tag, NEW cap, Family(f, D, Event, cap),
           HoldsOnce(f, D, EndsOf(t))
    PROVE  /\ HoldsAny(f, D, EndsOf(t)) <=> EndSlots(tag, f, D, t) # {}
           /\ \A p, q \in EndSlots(tag, f, D, t) : p = q
<1> DEFINE H == EndSlots(tag, f, D, t)
<1>0. \A k \in D : \A i \in 1..Len(f[k]) : IsEndOf(f[k][i], t) <=> f[k][i] \in EndsOf(t)
    <2>1. ASSUME NEW k \in D, NEW i \in 1..Len(f[k]) PROVE f[k][i] \in Event
        <3>1. f[k] \in Seq(Event)
            BY DEF Family
        <3> QED BY <3>1, ChannelSteps
    <2> QED BY <2>1, EndsFixed
<1>1. \A p : p \in H <=> \E k \in D : \E i \in 1..Len(f[k]) : IsEndOf(f[k][i], t) /\ p = <<tag, k, i>>
    BY DEF EndSlots
<1>2. HoldsAny(f, D, EndsOf(t)) <=> \E k \in D : \E i \in 1..Len(f[k]) : IsEndOf(f[k][i], t)
    BY <1>0 DEF HoldsAny, HoldsAt, Holds
<1> HIDE DEF H
<1>3. ASSUME NEW p \in H, NEW q \in H PROVE p = q
    <2>a. PICK k \in D : \E i \in 1..Len(f[k]) : IsEndOf(f[k][i], t) /\ p = <<tag, k, i>>
        BY <1>1
    <2>1. PICK i \in 1..Len(f[k]) : IsEndOf(f[k][i], t) /\ p = <<tag, k, i>>
        BY <2>a
    <2>b. PICK m \in D : \E n \in 1..Len(f[m]) : IsEndOf(f[m][n], t) /\ q = <<tag, m, n>>
        BY <1>1
    <2>2. PICK n \in 1..Len(f[m]) : IsEndOf(f[m][n], t) /\ q = <<tag, m, n>>
        BY <2>b
    <2>3. f[k][i] \in EndsOf(t) /\ f[m][n] \in EndsOf(t)
        BY <1>0, <2>1, <2>2
    <2>4. k = m
        BY <2>3 DEF HoldsOnce, HoldsAt, Holds
    <2>5. i = n
        BY <2>3, <2>4 DEF HoldsOnce, HoldsOne
    <2> QED BY <2>1, <2>2, <2>4, <2>5
<1>4. HoldsAny(f, D, EndsOf(t)) <=> H # {}
    BY <1>1, <1>2
<1> QED BY <1>3, <1>4 DEF H

(* The predicates count what Holders lists.                                *)
LEMMA CustodyFromInv == TypeOK /\ CustodyInv => Custody
<1> SUFFICES ASSUME TypeOK, CustodyInv, NEW t \in Tasks
             PROVE  /\ \A p, q \in Holders(t) : p = q
                    /\ Exists(t) /\ Undisturbed => Holders(t) # {}
    BY DEF Custody
<1>0. Runs = Tasks /\ eventsCh \in Seq(Event)
    BY Types, Bounds
<1>i. Single(t) /\ OnePlace(t) /\ Accounted(t)
    BY DEF CustodyInv, PlaceInv
<1> DEFINE A == TaskSlots("send", sendQ, Conns, t)
           B == TaskSlots("down", down, Conns, t)
           C == TaskSlots("tasks", tasksCh, Workers, t)
           R == {<<"run", r>> : r \in {x \in Runs : Busy(x) /\ run[x].task = t}}
           O == EndSlots("out", outQ, Conns, t)
           U == EndSlots("up", up, Conns, t)
           E == {<<"event", i>> : i \in {j \in 1..Len(eventsCh) : IsEndOf(eventsCh[j], t)}}
           F == {<<"store", x>> : x \in {y \in {t} : Ended(y)}}
<1>h. Holders(t) = A \cup B \cup C \cup R \cup O \cup U \cup E \cup F
    BY Zenon DEF Holders, TaskSlots, EndSlots
<1>1. (Sent(t) <=> A # {}) /\ \A p, q \in A : p = q
    BY <1>i, TaskHolders DEF Single, SentOnce, Sent
<1>2. (OnWire(t) <=> B # {}) /\ \A p, q \in B : p = q
    BY <1>i, TaskHolders DEF Single, WireOnce, OnWire
<1>3. (Received(t) <=> C # {}) /\ \A p, q \in C : p = q
    BY <1>i, TaskHolders DEF Single, ReceivedOnce, Received
<1>4. (Busy(t) <=> R # {}) /\ \A p, q \in R : p = q
    <2>1. \A x \in Runs : Busy(x) /\ run[x].task = t <=> x = t /\ Busy(t)
        BY <1>0 DEF CustodyInv, WorkerInv, RunOf
    <2> QED BY <1>0, <2>1
<1>5. (EndOut(t) <=> O # {}) /\ \A p, q \in O : p = q
    BY <1>i, Families, EndHolders DEF Single, OutOnce, EndOut
<1>6. (EndUp(t) <=> U # {}) /\ \A p, q \in U : p = q
    BY <1>i, Families, EndHolders DEF Single, UpOnce, EndUp
<1>7. (EndInChan(t) <=> E # {}) /\ \A p, q \in E : p = q
    <2>0. \A i \in 1..Len(eventsCh) : eventsCh[i] \in Event
        BY <1>0, ChannelSteps
    <2>1. \A i, j \in 1..Len(eventsCh) :
             IsEndOf(eventsCh[i], t) /\ IsEndOf(eventsCh[j], t) => i = j
        BY <1>i, <2>0 DEF Single, ChanOnce, HoldsOne, EndsOf
    <2>2. EndInChan(t) <=> \E i \in 1..Len(eventsCh) : IsEndOf(eventsCh[i], t)
        BY <2>0 DEF EndInChan, Holds, EndsOf
    <2> QED BY <2>1, <2>2
<1>8. (Ended(t) <=> F # {}) /\ \A p, q \in F : p = q
    OBVIOUS
<1> HIDE DEF A, B, C, R, O, U, E, F
<1>9. \A p, q \in Holders(t) : p = q
    <2>1. (Sent(t) => Holders(t) = A) /\ (OnWire(t) => Holders(t) = B)
        BY <1>h, <1>i, <1>1, <1>2, <1>3, <1>4, <1>5, <1>6, <1>7, <1>8 DEF OnePlace
    <2>2. (Received(t) => Holders(t) = C) /\ (Busy(t) => Holders(t) = R)
        BY <1>h, <1>i, <1>1, <1>2, <1>3, <1>4, <1>5, <1>6, <1>7, <1>8 DEF OnePlace
    <2>3. (EndOut(t) => Holders(t) = O) /\ (EndUp(t) => Holders(t) = U)
        BY <1>h, <1>i, <1>1, <1>2, <1>3, <1>4, <1>5, <1>6, <1>7, <1>8 DEF OnePlace
    <2>4. (EndInChan(t) => Holders(t) = E) /\ (Ended(t) => Holders(t) = F)
        BY <1>h, <1>i, <1>1, <1>2, <1>3, <1>4, <1>5, <1>6, <1>7, <1>8 DEF OnePlace
    <2>5. ~Somewhere(t) => Holders(t) = {}
        BY <1>h, <1>1, <1>2, <1>3, <1>4, <1>5, <1>6, <1>7, <1>8 DEF Somewhere
    <2> QED BY <1>1, <1>2, <1>3, <1>4, <1>5, <1>6, <1>7, <1>8, <2>1, <2>2, <2>3, <2>4, <2>5 DEF Somewhere
<1>10. Exists(t) /\ Undisturbed => Holders(t) # {}
    <2>1. Exists(t) /\ Undisturbed => Somewhere(t)
        BY <1>i DEF Undisturbed, Lasting, Accounted
    <2> QED BY <1>h, <2>1, <1>1, <1>2, <1>3, <1>4, <1>5, <1>6, <1>7, <1>8 DEF Somewhere
<1> QED BY <1>9, <1>10

(* No failure of a connection, no end of a process and no reconnect        *)
(* doubles a task or its end, and as long as connections last a recorded   *)
(* task has exactly one holder from Create to its terminal row.            *)
THEOREM CustodyCorrect == Spec => []Custody
BY Inductive, CustodyFromInv, PTL

-----------------------------------------------------------------------------
(* busy, as long as connections last.                                      *)

LEMMA UnderWaySomewhere ==
    ASSUME NEW t \in Tasks, NEW k \in Conns, UnderWay(t, k)
    PROVE  Sent(t) \/ OnWire(t) \/ Received(t) \/ Busy(t) \/ EndOut(t) \/ EndUp(t)
BY DEF UnderWay, Sent, OnWire, Received, EndOut, EndUp, HoldsAny

LEMMA ServiceInit == Init => ServiceInv
<1> SUFFICES ASSUME Init PROVE ServiceInv
    OBVIOUS
<1>1. PlaceInv
    BY InitHolds DEF CustodyInv
<1>2. \A t \in Tasks : ~Exists(t)
    BY DEF Init, MgrInit, NoRow, Exists
<1>3. \A t \in Tasks, k \in Conns : ~UnderWay(t, k)
    BY <1>1, <1>2, Fresh, UnderWaySomewhere
<1>4. \A k \in Conns : ServiceOf(k)
    BY <1>3 DEF ServiceOf, Init
<1> QED BY <1>4 DEF ServiceInv, Init

(* Nothing new is under way on a connection whose flag or readPump does    *)
(* not change, or nothing is under way on it at all.                       *)
Serves(k) ==
    \/ /\ busy'[k] = busy[k] /\ reader'[k] = reader[k]
       /\ \A t \in Tasks : UnderWay(t, k)' => UnderWay(t, k)
    \/ /\ \A t \in Tasks : ~UnderWay(t, k)'
       /\ reader'[k] = "release" => busy'[k]

LEMMA ServiceStep ==
    ASSUME ServiceInv, Lasting, \A k \in Conns : Serves(k),
           \A t \in Tasks : via'[t] # None => via'[t] = conn'[host'[t]]
    PROVE  ServiceInv'
<1>1. ASSUME NEW k \in Conns PROVE ServiceOf(k)'
    <2>1. ServiceOf(k) /\ Serves(k)
        BY DEF ServiceInv
    <2> QED BY <2>1 DEF ServiceOf, Serves
<1> QED BY <1>1 DEF ServiceInv

(* What UnderWay depends on.                                               *)
LEMMA UnderWayFrame ==
    ASSUME NEW t \in Tasks, NEW k \in Conns,
           HoldsAt(sendQ', k, {t}) => UnderWay(t, k),
           HoldsAt(down', k, {t}) => UnderWay(t, k),
           \A w \in Workers : conn'[w] = k /\ HoldsAt(tasksCh', w, {t}) => UnderWay(t, k),
           \A w \in Workers : conn'[w] = k /\ Busy(t)' /\ host'[t] = w => UnderWay(t, k),
           HoldsAt(outQ', k, EndsOf(t)) => UnderWay(t, k),
           HoldsAt(up', k, EndsOf(t)) => UnderWay(t, k)
    PROVE  UnderWay(t, k)' => UnderWay(t, k)
<1>1. EndsOf(t)' = EndsOf(t)
    BY EndsFixed
<1> SUFFICES ASSUME UnderWay(t, k)' PROVE UnderWay(t, k)
    OBVIOUS
<1>2. \/ HoldsAt(sendQ', k, {t}) \/ HoldsAt(down', k, {t})
      \/ \E w \in Workers : conn'[w] = k /\ (HoldsAt(tasksCh', w, {t}) \/ (Busy(t)' /\ host'[t] = w))
      \/ HoldsAt(outQ', k, EndsOf(t)) \/ HoldsAt(up', k, EndsOf(t))
    BY <1>1 DEF UnderWay
<1> QED BY <1>2

(* The channels that a step leaves alone add nothing.                      *)
LEMMA UnderWayKept ==
    ASSUME NEW t \in Tasks, NEW k \in Conns
    PROVE  /\ UNCHANGED sendQ => (HoldsAt(sendQ', k, {t}) => UnderWay(t, k))
           /\ UNCHANGED down => (HoldsAt(down', k, {t}) => UnderWay(t, k))
           /\ UNCHANGED <<tasksCh, conn>>
                => \A w \in Workers : conn'[w] = k /\ HoldsAt(tasksCh', w, {t}) => UnderWay(t, k)
           /\ UNCHANGED <<host, conn>> /\ (Busy(t)' => Busy(t))
                => \A w \in Workers : conn'[w] = k /\ Busy(t)' /\ host'[t] = w => UnderWay(t, k)
           /\ UNCHANGED outQ => (HoldsAt(outQ', k, EndsOf(t)) => UnderWay(t, k))
           /\ UNCHANGED up => (HoldsAt(up', k, EndsOf(t)) => UnderWay(t, k))
BY DEF UnderWay

LEMMA ServiceQuiet ==
    ASSUME ServiceInv, Lasting,
           UNCHANGED <<sendQ, down, tasksCh, conn, host, outQ, up, busy, reader>>,
           \A t \in Tasks : Busy(t)' => Busy(t),
           \A t \in Tasks : via'[t] # None => via'[t] = conn'[host'[t]]
    PROVE  ServiceInv'
<1>1. \A t \in Tasks, k \in Conns : UnderWay(t, k)' => UnderWay(t, k)
    BY UnderWayFrame, UnderWayKept
<1>2. \A k \in Conns : Serves(k)
    BY <1>1 DEF Serves
<1> QED BY <1>2, ServiceStep

(* Dispatch gives the task to a connection on which nothing is under way.  *)
LEMMA ServiceDispatch ==
    ASSUME TypeOK, CustodyInv, ServiceInv, NEW t \in Tasks, Submit(t), Lasting'
    PROVE  ServiceInv'
<1>a. UNCHANGED <<run, workers, reader, link, down, up, conn, outQ, tasksCh, host, via>>
    BY DEF Submit, DispatchOk, DispatchNone, netVars, workerVars
<1>0. Lasting /\ \A x \in Tasks : Busy(x)' <=> Busy(x)
    BY <1>a DEF Lasting, Busy
<1>v. \A x \in Tasks : via'[x] # None => via'[x] = conn'[host'[x]]
    BY <1>0, <1>a DEF ServiceInv
<1>1. CASE DispatchNone(t)
    <2>1. UNCHANGED <<sendQ, busy>>
        BY <1>1 DEF DispatchNone
    <2> QED BY <1>a, <1>0, <1>v, <2>1, ServiceQuiet
<1>2. CASE DispatchOk(t)
    <2>b. busy \in [Conns -> BOOLEAN]
        BY Types
    <2>c. PICK i \in Offsets :
              /\ FirstIdle(i) /\ Len(sendQ[Slot(i)]) < SendCap
              /\ sendQ' = [sendQ EXCEPT ![Slot(i)] = Append(@, t)]
              /\ busy' = [busy EXCEPT ![Slot(i)] = TRUE]
        BY <1>2 DEF DispatchOk
    <2>d. PICK k \in Conns : k = Slot(i) /\ Registered(k)
        BY Scan DEF CustodyInv
    <2>1. ~busy[k] /\ busy'[k] /\ \A y \in Conns : y # k => busy'[y] = busy[y]
        BY <2>b, <2>c, <2>d DEF FirstIdle
    <2>2. ServiceOf(k)
        BY <1>0 DEF ServiceInv
    <2>3. reader[k] = "read" /\ \A x \in Tasks : ~UnderWay(x, k)
        <3>1. reader[k] \in {"read", "release"}
            BY <2>d DEF CustodyInv, HubInv, HubOf
        <3> QED BY <2>1, <2>2, <3>1 DEF ServiceOf
    <2>4. IsPut(sendQ, sendQ', Conns, k, t)
        <3>1. PutOn(sendQ, sendQ', k, t, SendCap)
            BY <2>c, <2>d DEF PutOn
        <3> QED BY <3>1, Families, Put
    <2>5. ASSUME NEW y \in Conns, y # k PROVE ServiceOf(y)'
        <3>1. ASSUME NEW x \in Tasks PROVE UnderWay(x, y)' => UnderWay(x, y)
            <4>1. HoldsAt(sendQ', y, {x}) => UnderWay(x, y)
                BY <2>4, <2>5 DEF IsPut, HoldsAt, UnderWay
            <4> QED BY <1>0, <1>a, <4>1, UnderWayFrame, UnderWayKept
        <3>2. ServiceOf(y)
            BY <1>0 DEF ServiceInv
        <3> QED BY <1>a, <2>1, <2>5, <3>1, <3>2 DEF ServiceOf
    <2>6. ServiceOf(k)'
        <3>1. ASSUME NEW x \in Tasks, UnderWay(x, k)', x # t PROVE FALSE
            <4>1. HoldsAt(sendQ', k, {x}) => UnderWay(x, k)
                BY <2>4, <3>1 DEF IsPut, UnderWay
            <4> QED BY <1>0, <1>a, <2>3, <3>1, <4>1, UnderWayFrame, UnderWayKept
        <3> QED BY <1>a, <2>1, <2>3, <3>1 DEF ServiceOf
    <2> QED BY <1>v, <2>5, <2>6 DEF ServiceInv
<1> QED BY <1>1, <1>2 DEF Submit

(* The two write pumps: what is under way moves on, on its connection.     *)
LEMMA ServiceWrites ==
    ASSUME TypeOK, CustodyInv, ServiceInv, NEW k \in Conns, ManagerWrite(k) \/ WorkerWrite(k),
           Lasting'
    PROVE  ServiceInv'
<1>0. link \in [Conns -> {"new", "up", "down"}] /\ down \in [Conns -> Seq(Tasks)]
      /\ up \in [Conns -> Seq(Event)]
    BY Types
<1>a. UNCHANGED <<run, busy, reader, link, conn, tasksCh, host, via>>
    BY DEF ManagerWrite, WorkerWrite, hubVars, workerVars
<1>1. Lasting /\ \A x \in Tasks : Busy(x)' <=> Busy(x)
    BY <1>a DEF Lasting, Busy
<1>v. \A x \in Tasks : via'[x] # None => via'[x] = conn'[host'[x]]
    BY <1>1, <1>a DEF ServiceInv
<1>h. HubOf(k) /\ \A x \in Tasks : SentOnce(x) /\ OutOnce(x)
    BY DEF CustodyInv, HubInv, PlaceInv, Single
<1>2. ASSUME ManagerWrite(k), NEW x \in Tasks, NEW y \in Conns PROVE UnderWay(x, y)' => UnderWay(x, y)
    <2>a. /\ UNCHANGED <<outQ, up>> /\ sendQ[k] # <<>> /\ sendQ' = [sendQ EXCEPT ![k] = Tail(@)]
          /\ link[k] = "up" => Len(down[k]) < WireCap
          /\ down' = [down EXCEPT ![k] = IF link[k] = "up" THEN Append(@, Head(sendQ[k])) ELSE @]
        BY <1>2 DEF ManagerWrite, workerVars
    <2>b. PICK t : TakeOn(sendQ, sendQ', k, t) /\ t = Head(sendQ[k])
        BY <2>a DEF TakeOn
    <2>1. t \in Tasks /\ IsTake(sendQ, sendQ', Conns, k, t)
        BY <2>b, Families, Take
    <2>u. link[k] = "up"
        BY <1>0, <1>1, <1>h, <2>a DEF Lasting, HubOf
    <2>2. IsPut(down, down', Conns, k, t)
        <3>1. PutOn(down, down', k, t, WireCap)
            BY <2>a, <2>b, <2>u DEF PutOn
        <3> QED BY <2>1, <3>1, Families, Put
    <2>3. HoldsAt(sendQ', y, {x}) => HoldsAt(sendQ, y, {x})
        <3>1. HoldsOnce(sendQ, Conns, {x})
            BY <1>h DEF SentOnce
        <3>2. CASE y = k
            BY <2>1, <3>1, <3>2 DEF IsTake
        <3>3. CASE y # k
            BY <2>1, <3>3 DEF IsTake, HoldsAt
        <3> QED BY <3>2, <3>3
    <2>4. HoldsAt(down', y, {x}) => HoldsAt(down, y, {x}) \/ HoldsAt(sendQ, y, {x})
        <3>1. HoldsOnce(sendQ, Conns, {x})
            BY <1>h DEF SentOnce
        <3>2. CASE y = k
            <4>1. HoldsAt(down', k, {x}) => HoldsAt(down, k, {x}) \/ t = x
                BY <2>2 DEF IsPut
            <4>2. t = x => HoldsAt(sendQ, k, {x})
                BY <2>1, <3>1 DEF IsTake
            <4> QED BY <3>2, <4>1, <4>2
        <3>3. CASE y # k
            BY <2>2, <3>3 DEF IsPut, HoldsAt
        <3> QED BY <3>2, <3>3
    <2>5. /\ HoldsAt(sendQ', y, {x}) => UnderWay(x, y)
          /\ HoldsAt(down', y, {x}) => UnderWay(x, y)
        BY <2>3, <2>4 DEF UnderWay
    <2> QED BY <1>1, <1>a, <2>a, <2>5, UnderWayFrame, UnderWayKept
<1>3. ASSUME WorkerWrite(k), NEW x \in Tasks, NEW y \in Conns PROVE UnderWay(x, y)' => UnderWay(x, y)
    <2>a. /\ UNCHANGED <<sendQ, down>> /\ outQ[k] # <<>> /\ outQ' = [outQ EXCEPT ![k] = Tail(@)]
          /\ link[k] = "up" => Len(up[k]) < WireCap
          /\ up' = [up EXCEPT ![k] = IF link[k] = "up" THEN Append(@, Head(outQ[k])) ELSE @]
        BY <1>3 DEF WorkerWrite, hubVars
    <2>b. PICK e : TakeOn(outQ, outQ', k, e) /\ e = Head(outQ[k])
        BY <2>a DEF TakeOn
    <2>1. e \in Event /\ IsTake(outQ, outQ', Conns, k, e)
        BY <2>b, Families, Take
    <2>u. link[k] = "up"
        BY <1>0, <1>1, <1>h, <2>a DEF Lasting, HubOf
    <2>2. IsPut(up, up', Conns, k, e)
        <3>1. PutOn(up, up', k, e, WireCap)
            BY <2>a, <2>b, <2>u DEF PutOn
        <3> QED BY <2>1, <3>1, Families, Put
    <2>3. HoldsAt(outQ', y, EndsOf(x)) => HoldsAt(outQ, y, EndsOf(x))
        <3>1. HoldsOnce(outQ, Conns, EndsOf(x))
            BY <1>h DEF OutOnce
        <3>2. CASE y = k
            BY <2>1, <3>1, <3>2 DEF IsTake
        <3>3. CASE y # k
            BY <2>1, <3>3 DEF IsTake, HoldsAt
        <3> QED BY <3>2, <3>3
    <2>4. HoldsAt(up', y, EndsOf(x)) => HoldsAt(up, y, EndsOf(x)) \/ HoldsAt(outQ, y, EndsOf(x))
        <3>1. HoldsOnce(outQ, Conns, EndsOf(x))
            BY <1>h DEF OutOnce
        <3>2. CASE y = k
            <4>1. HoldsAt(up', k, EndsOf(x)) => HoldsAt(up, k, EndsOf(x)) \/ e \in EndsOf(x)
                BY <2>2 DEF IsPut
            <4>2. e \in EndsOf(x) => HoldsAt(outQ, k, EndsOf(x))
                BY <2>1, <3>1 DEF IsTake
            <4> QED BY <3>2, <4>1, <4>2
        <3>3. CASE y # k
            BY <2>2, <3>3 DEF IsPut, HoldsAt
        <3> QED BY <3>2, <3>3
    <2>5. /\ HoldsAt(outQ', y, EndsOf(x)) => UnderWay(x, y)
          /\ HoldsAt(up', y, EndsOf(x)) => UnderWay(x, y)
        BY <2>3, <2>4 DEF UnderWay
    <2> QED BY <1>1, <1>a, <2>a, <2>5, UnderWayFrame, UnderWayKept
<1>4. \A y \in Conns : Serves(y)
    BY <1>2, <1>3, <1>a DEF Serves
<1> QED BY <1>1, <1>v, <1>4, ServiceStep

(* readPump: the end that releases the worker was the last thing under way *)
(* on its connection.                                                      *)
LEMMA ServiceManagerRead ==
    ASSUME TypeOK, CustodyInv, ServiceInv, NEW k \in Conns, ManagerRead(k), Lasting'
    PROVE  ServiceInv'
<1>0. reader \in [Conns -> {"none", "read", "release", "close", "gone"}]
    BY Types
<1>a. /\ UNCHANGED <<run, busy, sendQ, link, down, conn, outQ, tasksCh, host, via>>
      /\ reader[k] = "read"
      /\ reader' = [reader EXCEPT ![k] = IF IsTerminal(Head(up[k])) THEN "release" ELSE @]
    BY DEF ManagerRead, workerVars
<1>1. Lasting /\ \A x \in Tasks : Busy(x)' <=> Busy(x)
    BY <1>a DEF Lasting, Busy
<1>v. \A x \in Tasks : via'[x] # None => via'[x] = conn'[host'[x]]
    BY <1>1, <1>a DEF ServiceInv
<1>h. \A x \in Tasks : UpOnce(x) /\ OnePlace(x)
    BY DEF CustodyInv, PlaceInv, Single
<1>b. PICK e : TakeOn(up, up', k, e) /\ e = Head(up[k])
    BY DEF ManagerRead, TakeOn
<1>2. e \in Event /\ IsTake(up, up', Conns, k, e)
    BY <1>b, Families, Take
<1>3. ASSUME NEW x \in Tasks, NEW y \in Conns
      PROVE  /\ HoldsAt(up', y, EndsOf(x)) => HoldsAt(up, y, EndsOf(x))
             /\ e \in EndsOf(x) => HoldsAt(up, k, EndsOf(x)) /\ ~HoldsAt(up', k, EndsOf(x)) /\ EndUp(x)
    <2>1. HoldsOnce(up, Conns, EndsOf(x))
        BY <1>h DEF UpOnce
    <2>2. e \in EndsOf(x) => HoldsAt(up, k, EndsOf(x)) /\ ~HoldsAt(up', k, EndsOf(x)) /\ EndUp(x)
        BY <1>2, <2>1 DEF IsTake, EndUp
    <2>3. CASE y = k
        BY <1>2, <2>1, <2>2, <2>3 DEF IsTake
    <2>4. CASE y # k
        BY <1>2, <2>2, <2>4 DEF IsTake, HoldsAt
    <2> QED BY <2>2, <2>3, <2>4
<1>4. ASSUME NEW x \in Tasks, NEW y \in Conns PROVE UnderWay(x, y)' => UnderWay(x, y)
    <2>1. HoldsAt(up', y, EndsOf(x)) => UnderWay(x, y)
        BY <1>3 DEF UnderWay
    <2> QED BY <1>1, <1>a, <2>1, UnderWayFrame, UnderWayKept
<1>5. ASSUME NEW y \in Conns PROVE Serves(y)
    <2>1. CASE y # k \/ ~IsTerminal(e)
        <3>1. reader'[y] = reader[y]
            BY <1>0, <1>a, <1>b, <2>1
        <3> QED BY <1>a, <1>4, <3>1 DEF Serves
    <2>2. CASE y = k /\ IsTerminal(e)
        <3>1. PICK t \in Tasks : e \in EndsOf(t)
            BY <1>2, <2>2 DEF EndsOf, IsEndOf, Event
        <3>2. UnderWay(t, k) /\ EndUp(t)
            BY <1>3, <3>1 DEF UnderWay
        <3>3. busy[k] /\ \A u \in Tasks : UnderWay(u, k) => u = t
            BY <1>1, <3>2 DEF ServiceInv, ServiceOf
        <3>4. ~Sent(t)' /\ ~OnWire(t)' /\ ~Received(t)' /\ ~Busy(t)' /\ ~EndOut(t)'
            BY <1>a, <1>h, <3>2, Unmoved DEF OnePlace
        <3>5. ~UnderWay(t, k)'
            <4>1. ~HoldsAt(up', k, EndsOf(t)) /\ EndsOf(t)' = EndsOf(t)
                BY <1>3, <3>1, EndsFixed
            <4>2. /\ ~HoldsAt(sendQ', k, {t}) /\ ~HoldsAt(down', k, {t})
                  /\ \A w \in Workers : ~HoldsAt(tasksCh', w, {t})
                  /\ ~HoldsAt(outQ', k, EndsOf(t)')
                BY <3>4 DEF Sent, OnWire, Received, EndOut, HoldsAny
            <4> QED BY <3>4, <4>1, <4>2 DEF UnderWay
        <3>6. \A u \in Tasks : ~UnderWay(u, k)'
            BY <1>4, <3>3, <3>5
        <3> QED BY <1>a, <2>2, <3>3, <3>6 DEF Serves
    <2> QED BY <2>1, <2>2
<1> QED BY <1>1, <1>v, <1>5, ServiceStep

(* Register, Release, ReadError and CloseSend: nothing is under way on a   *)
(* connection that is not being read.                                      *)
LEMMA ServiceHub ==
    ASSUME TypeOK, CustodyInv, ServiceInv, NEW k \in Conns,
           Register(k) \/ Release(k) \/ ReadError(k) \/ CloseSend(k), Lasting'
    PROVE  ServiceInv'
<1>0. /\ reader \in [Conns -> {"none", "read", "release", "close", "gone"}]
      /\ busy \in [Conns -> BOOLEAN]
    BY Types
<1>a. UNCHANGED <<run, sendQ, link, down, up, conn, outQ, tasksCh, host, via>>
    BY DEF Register, Release, ReadError, CloseSend, netVars, workerVars
<1>1. Lasting /\ \A x \in Tasks : Busy(x)' <=> Busy(x)
    BY <1>a DEF Lasting, Busy
<1>v. \A x \in Tasks : via'[x] # None => via'[x] = conn'[host'[x]]
    BY <1>1, <1>a DEF ServiceInv
<1>2. /\ reader[k] # "read" /\ reader'[k] # "release"
      /\ \A y \in Conns : y # k => busy'[y] = busy[y] /\ reader'[y] = reader[y]
    BY <1>0, <1>1 DEF Register, Release, ReadError, CloseSend, Lasting
<1>3. \A x \in Tasks, y \in Conns : UnderWay(x, y)' => UnderWay(x, y)
    BY <1>1, <1>a, UnderWayFrame, UnderWayKept
<1>4. ASSUME NEW y \in Conns PROVE Serves(y)
    <2>1. CASE y # k
        BY <1>2, <1>3, <2>1 DEF Serves
    <2>2. CASE y = k
        <3>1. \A x \in Tasks : ~UnderWay(x, k)
            BY <1>1, <1>2 DEF ServiceInv, ServiceOf
        <3> QED BY <1>2, <1>3, <2>2, <3>1 DEF Serves
    <2> QED BY <2>1, <2>2
<1> QED BY <1>1, <1>v, <1>4, ServiceStep

(* The worker's end: a dial brings no task with it, a task goes from the   *)
(* wire to the channel and from there to a run of the same process.        *)
LEMMA ServiceWorker ==
    ASSUME TypeOK, CustodyInv, ServiceInv, NEW w \in Workers,
           ReconnectLoop(w) \/ WorkerReceive(w) \/ Stop(w) \/ Exit(w), Lasting'
    PROVE  ServiceInv'
<1>0. /\ conn \in [Workers -> Conns \cup {None}] /\ run \in [Tasks -> RunState \cup {Idle, Exited}]
      /\ host \in [Tasks -> Workers \cup {None}] /\ None \notin Conns
    BY Types, Bounds
<1>i. /\ \A x \in Workers : DialOf(x)
      /\ \A x \in Tasks : RunOf(x) /\ WireOnce(x) /\ ReceivedOnce(x)
      /\ Lasting => Attended
    BY DEF CustodyInv, WorkerInv, PlaceInv, Single
<1>1. CASE \E k \in Conns : Dial(w, k)
    <2>1. PICK k \in Conns : Dial(w, k)
        BY <1>1
    <2>a. /\ UNCHANGED <<run, sendQ, down, up, outQ, tasksCh, host, via, busy, reader>>
          /\ dialPc[w] = "dial" /\ link' = [link EXCEPT ![k] = "up"]
          /\ conn' = [conn EXCEPT ![w] = k] /\ link[k] = "new"
        BY <2>1 DEF Dial, hubVars
    <2>2. Lasting /\ \A x \in Workers : x # w => conn'[x] = conn[x]
        <3>1. \A x \in Conns : x # k => link'[x] = link[x]
            BY <2>a, Types
        <3>2. \A x \in Conns : link[x] # "down"
            BY <2>a, <3>1 DEF Lasting
        <3> QED BY <1>0, <2>a, <3>2 DEF Lasting
    <2>3. tasksCh[w] = <<>> /\ \A x \in Tasks : Busy(x) => host[x] \in Workers /\ host[x] # w
        BY <1>i, <2>2, <2>a DEF Attended, RunOf
    <2>4. \A x \in Tasks : Busy(x)' <=> Busy(x)
        BY <2>a DEF Busy
    <2>5. ASSUME NEW x \in Tasks, NEW y \in Conns PROVE UnderWay(x, y)' => UnderWay(x, y)
        <3>1. \A v \in Workers : conn'[v] = y /\ HoldsAt(tasksCh', v, {x}) => UnderWay(x, y)
            <4>1. ~HoldsAt(tasksCh', w, {x})
                BY <2>a, <2>3, HoldsNothing DEF HoldsAt
            <4> QED BY <2>a, <2>2, <4>1 DEF UnderWay
        <3>2. \A v \in Workers : conn'[v] = y /\ Busy(x)' /\ host'[x] = v => UnderWay(x, y)
            BY <2>a, <2>2, <2>3, <2>4 DEF UnderWay
        <3> QED BY <2>a, <3>1, <3>2, UnderWayFrame, UnderWayKept
    <2>6. \A x \in Tasks : via'[x] # None => via'[x] = conn'[host'[x]]
        BY <1>i, <2>a, <2>2, <2>3 DEF ServiceInv, RunOf
    <2>7. \A y \in Conns : Serves(y)
        BY <2>a, <2>5 DEF Serves
    <2> QED BY <2>2, <2>6, <2>7, ServiceStep
<1>2. CASE Attach(w) \/ Stop(w)
    <2>a. UNCHANGED <<run, sendQ, down, up, conn, outQ, tasksCh, host, via, busy, reader, link>>
        BY <1>2 DEF Attach, Stop, hubVars, netVars
    <2>1. Lasting /\ \A x \in Tasks : Busy(x)' <=> Busy(x)
        BY <2>a DEF Lasting, Busy
    <2>2. \A x \in Tasks : via'[x] # None => via'[x] = conn'[host'[x]]
        BY <2>a, <2>1 DEF ServiceInv
    <2> QED BY <2>a, <2>1, <2>2, ServiceQuiet
<1>3. CASE WorkerRead(w)
    <2>a. /\ UNCHANGED <<run, sendQ, up, conn, outQ, host, via, busy, reader, link>>
          /\ dialPc[w] = "run"
        BY <1>3 DEF WorkerRead, hubVars
    <2>b. PICK k \in Conns : k = conn[w]
        BY <1>0, <1>i, <2>a DEF DialOf
    <2>c. PICK t : TakeOn(down, down', k, t) /\ PutOn(tasksCh, tasksCh', w, t, 1)
        BY <1>3, <2>b DEF WorkerRead, TakeOn, PutOn
    <2>1. t \in Tasks /\ IsTake(down, down', Conns, k, t)
        BY <2>c, Families, Take
    <2>2. IsPut(tasksCh, tasksCh', Workers, w, t)
        <3>1. 1 \in Nat
            OBVIOUS
        <3> QED BY <2>c, <2>1, <3>1, Families, Put
    <2>3. Lasting /\ \A x \in Tasks : Busy(x)' <=> Busy(x)
        BY <2>a DEF Lasting, Busy
    <2>4. ASSUME NEW x \in Tasks, NEW y \in Conns PROVE UnderWay(x, y)' => UnderWay(x, y)
        <3>0. HoldsOnce(down, Conns, {x})
            BY <1>i DEF WireOnce
        <3>1. HoldsAt(down', y, {x}) => HoldsAt(down, y, {x})
            <4>1. CASE y = k
                BY <2>1, <3>0, <4>1 DEF IsTake
            <4>2. CASE y # k
                BY <2>1, <4>2 DEF IsTake, HoldsAt
            <4> QED BY <4>1, <4>2
        <3>2. x = t => HoldsAt(down, k, {x})
            BY <2>1, <3>0 DEF IsTake
        <3>3. ASSUME NEW v \in Workers, conn'[v] = y, HoldsAt(tasksCh', v, {x}) PROVE UnderWay(x, y)
            <4>1. CASE v = w
                <5>1. HoldsAt(tasksCh, w, {x}) \/ x = t
                    BY <2>2, <3>3, <4>1 DEF IsPut
                <5>2. conn[w] = y /\ y = k
                    BY <2>a, <2>b, <3>3, <4>1
                <5> QED BY <3>2, <5>1, <5>2 DEF UnderWay
            <4>2. CASE v # w
                <5>1. HoldsAt(tasksCh, v, {x}) /\ conn[v] = y
                    BY <2>2, <2>a, <3>3, <4>2 DEF IsPut, HoldsAt
                <5> QED BY <5>1 DEF UnderWay
            <4> QED BY <4>1, <4>2
        <3>4. HoldsAt(down', y, {x}) => UnderWay(x, y)
            BY <3>1 DEF UnderWay
        <3> QED BY <2>3, <2>a, <3>3, <3>4, UnderWayFrame, UnderWayKept
    <2>5. \A x \in Tasks : via'[x] # None => via'[x] = conn'[host'[x]]
        BY <2>a, <2>3 DEF ServiceInv
    <2>6. \A y \in Conns : Serves(y)
        BY <2>a, <2>4 DEF Serves
    <2> QED BY <2>3, <2>5, <2>6, ServiceStep
<1>4. CASE WorkerReadError(w)
    <2>1. conn[w] \in Conns /\ link[conn[w]] = "down" /\ UNCHANGED link
        BY <1>0, <1>4, <1>i DEF WorkerReadError, netVars, DialOf
    <2> QED BY <2>1 DEF Lasting
<1>5. CASE WorkerReceive(w)
    <2>a. UNCHANGED <<sendQ, down, up, conn, outQ, via, busy, reader, link>>
        BY <1>5 DEF WorkerReceive, hubVars, netVars
    <2>b. PICK t : /\ TakeOn(tasksCh, tasksCh', w, t)
                   /\ RunStart(t, t, store[t].stages)
                   /\ host' = [host EXCEPT ![t] = w]
        BY <1>5 DEF WorkerReceive, TakeOn
    <2>1. t \in Tasks /\ IsTake(tasksCh, tasksCh', Workers, w, t)
        <3>1. 1 \in Nat
            OBVIOUS
        <3> QED BY <2>b, <3>1, Families, Take
    <2>2. /\ \A x \in Tasks : x # t => run'[x] = run[x] /\ host'[x] = host[x]
          /\ host'[t] = w /\ run[t].pc = "idle"
        BY <1>0, <2>1, <2>b DEF RunStart
    <2>3. Lasting /\ \A x \in Tasks : x # t => (Busy(x)' <=> Busy(x))
        BY <2>a, <2>2 DEF Lasting, Busy
    <2>4. ASSUME NEW x \in Tasks, NEW y \in Conns PROVE UnderWay(x, y)' => UnderWay(x, y)
        <3>0. HoldsOnce(tasksCh, Workers, {x})
            BY <1>i DEF ReceivedOnce
        <3>1. ASSUME NEW v \in Workers PROVE HoldsAt(tasksCh', v, {x}) => HoldsAt(tasksCh, v, {x})
            <4>1. CASE v = w
                BY <2>1, <3>0, <4>1 DEF IsTake
            <4>2. CASE v # w
                BY <2>1, <4>2 DEF IsTake, HoldsAt
            <4> QED BY <4>1, <4>2
        <3>2. x = t => HoldsAt(tasksCh, w, {x})
            BY <2>1, <3>0 DEF IsTake
        <3>3. \A v \in Workers : conn'[v] = y /\ HoldsAt(tasksCh', v, {x}) => UnderWay(x, y)
            BY <2>a, <3>1 DEF UnderWay
        <3>4. \A v \in Workers : conn'[v] = y /\ Busy(x)' /\ host'[x] = v => UnderWay(x, y)
            BY <2>a, <2>2, <2>3, <3>2 DEF UnderWay
        <3> QED BY <2>a, <3>3, <3>4, UnderWayFrame, UnderWayKept
    <2>5. ASSUME NEW x \in Tasks, via'[x] # None PROVE via'[x] = conn'[host'[x]]
        <3>1. via[x] # None /\ Busy(x)
            BY <1>i, <2>a, <2>5 DEF RunOf
        <3>2. x # t
            BY <2>2, <3>1 DEF Busy, BusyPc, EmitPc
        <3> QED BY <2>2, <2>3, <2>a, <3>1, <3>2 DEF ServiceInv
    <2>6. \A y \in Conns : Serves(y)
        BY <2>a, <2>4 DEF Serves
    <2> QED BY <2>3, <2>5, <2>6, ServiceStep
<1>6. CASE Exit(w)
    <2>1. CASE conn[w] = None
        <3>1. ~Lasting /\ UNCHANGED link
            BY <1>6, <1>i, <2>1 DEF Exit, netVars, Attended
        <3> QED BY <3>1 DEF Lasting
    <2>2. CASE conn[w] # None
        <3>1. PICK k \in Conns : k = conn[w]
            BY <1>0, <2>2
        <3>2. Cut(k)
            BY <1>6, <2>2, <3>1 DEF Exit
        <3> QED BY <3>2, CutMoves
    <2> QED BY <2>1, <2>2
<1> QED BY <1>1, <1>2, <1>3, <1>4, <1>5, <1>6 DEF ReconnectLoop

(* Emit: the end of a run enters the channel of the connection on which    *)
(* the run itself was under way.                                           *)
LEMMA ServiceRun ==
    ASSUME TypeOK, CustodyInv, ServiceInv, NEW t \in Tasks, Run(t), Lasting'
    PROVE  ServiceInv'
<1>a. UNCHANGED <<sendQ, link, down, up, conn, currentSend, tasksCh, host, busy, reader>>
    BY DEF Run, EmitBestEffort, EmitDisconnected, EmitPick, EmitTerminal, Stage, hubVars, netVars,
           workerVars
<1>0. Lasting /\ outQ \in [Conns -> Seq(Event)] /\ via \in [Tasks -> Conns \cup {None}]
    BY <1>a, Types DEF Lasting
<1>i. WorkerInv /\ RunOf(t) /\ None \notin Conns
    BY Bounds DEF CustodyInv, WorkerInv
<1>v. \A x \in Tasks : via[x] # None => via[x] = conn'[host'[x]]
    BY <1>0, <1>a DEF ServiceInv
<1>1. CASE EmitBestEffort(t)
    <2>b. EmitDone(t) /\ ~IsTerminal(EmitEvent(t)) /\ UNCHANGED via
        BY <1>1 DEF EmitBestEffort
    <2>1. EmitEvent(t) \in Event /\ \A x \in Tasks : Busy(x)' => Busy(x)
        BY <1>i, <2>b, EmitMoves
    <2>c. PICK e \in Event : e = EmitEvent(t)
        BY <2>1
    <2>d. PICK k : k = currentSend[host[t]]
        OBVIOUS
    <2>2. k \in Conns \cup {None}
        BY <1>i, <2>b, <2>d, EmitMoves, Current
    <2>e. outQ' = IF k = None THEN outQ ELSE [outQ EXCEPT ![k] = Offer(@, e, OutCap)]
        BY <1>1, <2>c, <2>d DEF EmitBestEffort
    <2>3. UNCHANGED outQ \/ (k \in Conns /\ PutOn(outQ, outQ', k, e, OutCap))
        BY <1>0, <2>2, <2>e DEF Offer, PutOn
    <2>4. ASSUME NEW x \in Tasks, NEW y \in Conns PROVE UnderWay(x, y)' => UnderWay(x, y)
        <3>1. HoldsAt(outQ', y, EndsOf(x)) => HoldsAt(outQ, y, EndsOf(x))
            <4>1. CASE UNCHANGED outQ
                BY <4>1
            <4>2. CASE k \in Conns /\ PutOn(outQ, outQ', k, e, OutCap)
                <5>1. IsPut(outQ, outQ', Conns, k, e)
                    BY <4>2, Families, Put
                <5>2. e \notin EndsOf(x)
                    BY <2>b, <2>c, EndsFixed DEF IsEndOf
                <5>3. CASE y = k
                    BY <5>1, <5>2, <5>3 DEF IsPut
                <5>4. CASE y # k
                    BY <5>1, <5>4 DEF IsPut, HoldsAt
                <5> QED BY <5>3, <5>4
            <4> QED BY <2>3, <4>1, <4>2
        <3>2. HoldsAt(outQ', y, EndsOf(x)) => UnderWay(x, y)
            BY <3>1 DEF UnderWay
        <3> QED BY <1>a, <2>1, <3>2, UnderWayFrame, UnderWayKept
    <2>5. \A y \in Conns : Serves(y)
        BY <1>a, <2>4 DEF Serves
    <2> QED BY <1>0, <1>v, <2>b, <2>5, ServiceStep
<1>2. CASE EmitDisconnected(t)
    <2>1. EmitDone(t) /\ UNCHANGED <<outQ, via>>
        BY <1>2 DEF EmitDisconnected, workerVars
    <2>2. \A x \in Tasks : Busy(x)' => Busy(x)
        BY <1>i, <2>1, EmitMoves
    <2> QED BY <1>0, <1>a, <1>v, <2>1, <2>2, ServiceQuiet
<1>3. CASE EmitPick(t)
    <2>1. /\ UNCHANGED <<run, outQ>> /\ run[t].pc \in EmitPc /\ currentSend[host[t]] # None
          /\ via' = [via EXCEPT ![t] = currentSend[host[t]]]
        BY <1>3 DEF EmitPick
    <2>2. host[t] \in Workers
        BY <1>i, <2>1 DEF RunOf, Busy, BusyPc
    <2>3. currentSend[host[t]] = conn[host[t]]
        BY <2>1, <2>2, Current
    <2>4. \A x \in Tasks : via'[x] # None => via'[x] = conn'[host'[x]]
        BY <1>0, <1>a, <1>v, <2>1, <2>3
    <2>5. \A x \in Tasks : Busy(x)' => Busy(x)
        BY <2>1 DEF Busy
    <2> QED BY <1>0, <1>a, <2>1, <2>4, <2>5, ServiceQuiet
<1>4. CASE EmitTerminal(t)
    <2>1. EmitDone(t) /\ via[t] # None /\ via' = [via EXCEPT ![t] = None]
        BY <1>4 DEF EmitTerminal
    <2>2. /\ EmitEvent(t) \in Event /\ Busy(t) /\ host[t] \in Workers
          /\ \A x \in Tasks : Busy(x)' => Busy(x)
          /\ \A x \in Tasks : x # t => ~IsEndOf(EmitEvent(t), x)
        BY <1>i, <2>1, EmitMoves
    <2>b. PICK e \in Event : e = EmitEvent(t)
        BY <2>2
    <2>c. PICK k \in Conns : k = via[t]
        BY <1>0, <2>1
    <2>3. IsPut(outQ, outQ', Conns, k, e)
        <3>1. PutOn(outQ, outQ', k, e, OutCap)
            BY <1>4, <2>b, <2>c DEF EmitTerminal, PutOn
        <3> QED BY <3>1, Families, Put
    <2>4. UnderWay(t, k)
        <3>1. conn[host[t]] = k
            BY <1>0, <2>1, <2>c DEF ServiceInv
        <3> QED BY <2>2, <3>1 DEF UnderWay
    <2>5. ASSUME NEW x \in Tasks, NEW y \in Conns PROVE UnderWay(x, y)' => UnderWay(x, y)
        <3>1. HoldsAt(outQ', y, EndsOf(x)) => HoldsAt(outQ, y, EndsOf(x)) \/ (y = k /\ x = t)
            <4>1. CASE y = k
                <5>1. HoldsAt(outQ', k, EndsOf(x)) => HoldsAt(outQ, k, EndsOf(x)) \/ e \in EndsOf(x)
                    BY <2>3 DEF IsPut
                <5>2. e \in EndsOf(x) => x = t
                    BY <2>2, <2>b, EndsFixed
                <5> QED BY <4>1, <5>1, <5>2
            <4>2. CASE y # k
                BY <2>3, <4>2 DEF IsPut, HoldsAt
            <4> QED BY <4>1, <4>2
        <3>2. HoldsAt(outQ', y, EndsOf(x)) => UnderWay(x, y)
            BY <2>4, <3>1 DEF UnderWay
        <3> QED BY <1>a, <2>2, <3>2, UnderWayFrame, UnderWayKept
    <2>6. \A y \in Conns : Serves(y)
        BY <1>a, <2>5 DEF Serves
    <2>7. \A x \in Tasks : via'[x] # None => via'[x] = conn'[host'[x]]
        BY <1>0, <1>v, <2>1
    <2> QED BY <1>0, <2>6, <2>7, ServiceStep
<1>5. CASE Stage(t)
    <2>1. UNCHANGED <<outQ, via>>
        BY <1>5 DEF Stage, workerVars
    <2>2. \A x \in Tasks : Busy(x)' => Busy(x)
        BY <1>5, <1>i, StageMoves
    <2> QED BY <1>0, <1>a, <1>v, <2>1, <2>2, ServiceQuiet
<1> QED BY <1>1, <1>2, <1>3, <1>4, <1>5 DEF Run

LEMMA ServiceHolds ==
    TypeOK /\ CustodyInv /\ ServiceInv /\ [Next]_vars => ServiceInv'
<1> SUFFICES ASSUME TypeOK, CustodyInv, ServiceInv, [Next]_vars, Lasting' PROVE ServiceInv'
    BY DEF ServiceInv
<1>1. CASE EventLoop \/ UNCHANGED vars
    <2>1. UNCHANGED <<run, sendQ, down, tasksCh, conn, host, via, outQ, up, busy, reader, link>>
        BY <1>1 DEF EventLoop, vars, hubVars, netVars, workerVars
    <2>2. Lasting /\ \A t \in Tasks : Busy(t)' => Busy(t)
        BY <2>1 DEF Lasting, Busy
    <2>3. \A t \in Tasks : via'[t] # None => via'[t] = conn'[host'[t]]
        BY <2>1, <2>2 DEF ServiceInv
    <2> QED BY <2>1, <2>2, <2>3, ServiceQuiet
<1>2. ASSUME NEW t \in Tasks, Submit(t) \/ Run(t) PROVE ServiceInv'
    BY <1>2, ServiceDispatch, ServiceRun
<1>3. ASSUME NEW k \in Conns, ManagerWrite(k) \/ ReadPump(k) \/ WorkerWrite(k) \/ Break(k)
      PROVE  ServiceInv'
    <2>1. ~Break(k)
        BY CutMoves DEF Break
    <2> QED BY <1>3, <2>1, ServiceWrites, ServiceManagerRead, ServiceHub DEF ReadPump
<1>4. ASSUME NEW w \in Workers, ReconnectLoop(w) \/ WorkerReceive(w) \/ Stop(w) \/ Exit(w)
      PROVE  ServiceInv'
    BY <1>4, ServiceWorker
<1> QED BY <1>1, <1>2, <1>3, <1>4 DEF Next

LEMMA InductiveService == Spec => []ServiceInv
<1>1. TypeOK /\ CustodyInv /\ ServiceInv /\ [Next]_vars => ServiceInv'
    BY ServiceHolds
<1> QED BY <1>1, ServiceInit, Inductive, PTL DEF Spec

(* A task at a worker is under way on the worker's connection.             *)
LEMMA AtWorkerUnderWay ==
    ASSUME TypeOK, CustodyInv, NEW w \in Workers, NEW t \in AtWorker(w)
    PROVE  /\ t \in Tasks
           /\ \A k \in Conns : conn[w] = k => UnderWay(t, k)
           /\ Lasting => conn[w] \in Conns
<1>0. tasksCh[w] \in Seq(Tasks) /\ conn[w] \in Conns \cup {None}
    BY Types
<1>1. CASE t \in ToSet(tasksCh[w])
    <2>1. PICK i \in 1..Len(tasksCh[w]) : tasksCh[w][i] = t
        BY <1>0, <1>1 DEF ToSet
    <2>2. t \in Tasks /\ HoldsAt(tasksCh, w, {t}) /\ tasksCh[w] # <<>>
        <3>1. t \in Tasks /\ Holds(tasksCh[w], {t})
            BY <1>0, <2>1 DEF Holds
        <3> QED BY <3>1, HoldsNothing DEF HoldsAt
    <2>3. Lasting => conn[w] \in Conns
        BY <1>0, <2>2 DEF CustodyInv, Attended, WorkerInv, DialOf
    <2> QED BY <2>2, <2>3 DEF UnderWay
<1>2. CASE t \in Tasks /\ Busy(t) /\ host[t] = w
    <2>1. Lasting => conn[w] \in Conns
        BY <1>0, <1>2 DEF CustodyInv, Attended, WorkerInv, DialOf
    <2> QED BY <1>2, <2>1 DEF UnderWay
<1> QED BY <1>1, <1>2 DEF AtWorker

(* "busy flag limits one task per worker": the flag is set from Dispatch   *)
(* to the end readPump reads, and all that time the worker has at most     *)
(* that one task, as long as connections last.                             *)
THEOREM OneTaskPerWorkerCorrect == Spec => []OneTaskPerWorker
<1>1. TypeOK /\ CustodyInv /\ ServiceInv => OneTaskPerWorker
    <2> SUFFICES ASSUME TypeOK, CustodyInv, ServiceInv, Undisturbed, NEW w \in Workers
                 PROVE  Cardinality(AtWorker(w)) <= 1
        BY DEF OneTaskPerWorker
    <2>1. Lasting
        BY DEF Undisturbed, Lasting
    <2>2. ASSUME NEW t \in AtWorker(w), NEW u \in AtWorker(w) PROVE t = u
        <3>1. PICK k \in Conns : k = conn[w]
            BY <2>1, AtWorkerUnderWay
        <3>2. t \in Tasks /\ u \in Tasks /\ UnderWay(t, k) /\ UnderWay(u, k)
            BY <3>1, AtWorkerUnderWay
        <3> QED BY <2>1, <3>2 DEF ServiceInv, ServiceOf
    <2>3. AtWorker(w) = {} \/ \E t : AtWorker(w) = {t}
        BY <2>2
    <2>4. Cardinality(AtWorker(w)) = 0 \/ Cardinality(AtWorker(w)) = 1
        BY <2>3, FS_EmptySet, FS_Singleton
    <2> QED BY <2>4
<1> QED BY <1>1, Inductive, InductiveService, PTL

(* A worker that Dispatch takes for idle is idle: as long as connections   *)
(* last nothing is on its way to it, nothing waits in its process and      *)
(* nothing runs there.                                                     *)
THEOREM IdleIsIdleCorrect == Spec => []IdleIsIdle
<1>1. TypeOK /\ CustodyInv /\ ServiceInv => IdleIsIdle
    <2> SUFFICES ASSUME TypeOK, CustodyInv, ServiceInv, Undisturbed, NEW k \in ToSet(workers),
                        ~busy[k]
                 PROVE  /\ sendQ[k] = <<>> /\ down[k] = <<>>
                        /\ \A w \in Workers : conn[w] = k => AtWorker(w) = {}
        BY DEF IdleIsIdle
    <2>0. workers \in Seq(Conns)
        BY Types
    <2>1. k \in Conns
        BY <2>0 DEF ToSet
    <2>2. \A t \in Tasks : ~UnderWay(t, k)
        BY <2>1 DEF ServiceInv, ServiceOf, Undisturbed, Lasting
    <2>3. sendQ[k] \in Seq(Tasks) /\ down[k] \in Seq(Tasks)
        BY <2>1, Types
    <2>4. ASSUME NEW s \in Seq(Tasks), s # <<>> PROVE \E t \in Tasks : Holds(s, {t})
        <3>1. s[1] \in Tasks /\ 1 \in 1..Len(s)
            BY <2>4, ChannelSteps
        <3> QED BY <3>1 DEF Holds
    <2>5. sendQ[k] = <<>> /\ down[k] = <<>>
        BY <2>2, <2>3, <2>4 DEF UnderWay, HoldsAt
    <2>6. \A w \in Workers : conn[w] = k => AtWorker(w) = {}
        BY <2>1, <2>2, AtWorkerUnderWay
    <2> QED BY <2>5, <2>6
<1> QED BY <1>1, Inductive, InductiveService, PTL
=============================================================================
