----------------------------- MODULE P7Bootstrap -----------------------------
(***************************************************************************)
(* Pattern 7 (patterns/p07): what it adds to the pub/sub of Pattern 6.  A  *)
(* worker learns the broker from GET /worker/bootstrap of some manager,    *)
(* retries, then asks again before its token expires; every manager keeps  *)
(* its own RevocationList in memory.                                       *)
(* Time is counted in ticks of 500 ms, the unit of the backoff.  Timers    *)
(* fire and a handler runs within a tick; a request, its answer and the    *)
(* opening of the broker take as long as they take, a request until its    *)
(* client gives it up.  The machines agree on the time.                    *)
(***************************************************************************)
EXTENDS Integers, FiniteSets

CONSTANTS
    Devices,        \* the worker processes, by the common name of their certificate
    Managers,       \* the manager processes
    RevokedCNs,     \* the devices every manager is configured to refuse
    TokenTTLs,      \* the TokenTTL that may be configured, in ticks
    DefaultTTL,     \* 15 minutes in the code
    RequestTimeout, \* http.Client.Timeout: 10 seconds in the code
    MaxTime,        \* bound on the clock
    MaxFaults       \* bound on crashes, stops and failed requests

Second == 2
Attempts == 5

(* The longest pause between two attempts of a worker whose token has      *)
(* expired; the wait for a renewal is then a second.                       *)
MaxPause == Attempts - 1

ASSUME P7Assumption ==
    /\ RevokedCNs \subseteq Devices
    /\ TokenTTLs \subseteq Int
    /\ DefaultTTL \in Nat \ {0} /\ RequestTimeout \in Nat \ {0}
    /\ MaxTime \in Nat /\ MaxFaults \in Nat

VARIABLES
    now,        \* the time
    ttl,        \* Tokener.ttl of every manager
    up,         \* [Managers]: the process is running
    revoked,    \* [Managers]: RevocationList.revoked
    worker,     \* [Devices]: RunWorker: "boot", "open", "serving" or "exit"
    call,       \* [Devices]: doBootstrapWithRetry, or the timer of its next call
    current,    \* [Devices]: ExpiresAt of the last response, 0 for none
    faults,     \* the faults so far
    disturbed,  \* [Devices]: when an attempt last failed, or a token came to be used late
    revokedAt   \* [Devices]: when the last manager came to list the device

vars == <<now, ttl, up, revoked, worker, call, current, faults, disturbed, revokedAt>>
managerVars == <<ttl, up, revoked, revokedAt>>

(* at is when the timer fires or when the request was sent, exp ExpiresAt  *)
(* of an answer on its way.                                                *)
CallState ==
    [pc : {"none", "wait", "try", "checked", "refused", "issued"},
     attempt : 0..(Attempts - 1), at : Nat, exp : Nat]

NoCall == [pc |-> "none", attempt |-> 0, at |-> 0, exp |-> 0]

(* Type invariant of managers, workers and clock.                          *)
TypeOK ==
    /\ now \in 0..MaxTime
    /\ ttl \in Nat \ {0}
    /\ up \in [Managers -> BOOLEAN]
    /\ revoked \in [Managers -> SUBSET Devices]
    /\ worker \in [Devices -> {"boot", "open", "serving", "exit"}]
    /\ call \in [Devices -> CallState]
    /\ current \in [Devices -> Nat]
    /\ faults \in 0..MaxFaults
    /\ disturbed \in [Devices -> 0..MaxTime] /\ revokedAt \in [Devices -> 0..MaxTime]

-----------------------------------------------------------------------------
(* Tokens.                                                                 *)

(* Validate at some time compares whole seconds.                           *)
ValidAt(exp, time) == time \div Second <= exp \div Second

(* 80% of the remaining lifetime, at least a second.                       *)
RenewIn(exp) ==
    LET wait == (8 * (exp - now)) \div 10
    IN  IF wait < Second THEN Second ELSE wait

(* A token comes to be used with less than a second left: its answer or    *)
(* the broker took that long.                                              *)
Late(exp) == exp - now < Second

NoteLate(d, exp) ==
    disturbed' = IF Late(exp) THEN [disturbed EXCEPT ![d] = now] ELSE disturbed

-----------------------------------------------------------------------------
(* The attempts of doBootstrapWithRetry.                                   *)

Ask(n) == [pc |-> "try", attempt |-> n, at |-> now, exp |-> 0]

Wait(n, pause) == [pc |-> "wait", attempt |-> n, at |-> now + pause, exp |-> 0]

Asking(d) == call[d].pc \in {"try", "checked", "refused", "issued"}

TimeIsUp(d) == Asking(d) /\ now - call[d].at >= RequestTimeout

(* NewManager: a TokenTTL that is not positive means the default, and the  *)
(* list starts from the configuration.                                     *)
TokenTTL(configured) == IF configured <= 0 THEN DefaultTTL ELSE configured

Init ==
    /\ now = 0
    /\ \E configured \in TokenTTLs : ttl = TokenTTL(configured)
    /\ up = [m \in Managers |-> TRUE]
    /\ revoked = [m \in Managers |-> RevokedCNs]
    /\ worker = [d \in Devices |-> "boot"]
    /\ call = [d \in Devices |-> Ask(0)]
    /\ current = [d \in Devices |-> 0]
    /\ faults = 0
    /\ disturbed = [d \in Devices |-> 0] /\ revokedAt = [d \in Devices |-> 0]

Fault == faults < MaxFaults /\ faults' = faults + 1

(* Mutant of AttemptFailed: renewal ends when the retries run out.         *)
AttemptFailedLast(d) ==
    LET n == call[d].attempt + 1
    IN  /\ disturbed' = [disturbed EXCEPT ![d] = now]
        /\ call' = [call EXCEPT ![d] = IF n < Attempts THEN Wait(n, n) ELSE NoCall]
        /\ worker' = IF n = Attempts /\ worker[d] = "boot"
                     THEN [worker EXCEPT ![d] = "exit"] ELSE worker

(* Mutant of AttemptFailed: one attempt too many.                          *)
AttemptFailedMore(d) ==
    /\ disturbed' = [disturbed EXCEPT ![d] = now]
    /\ call' = [call EXCEPT ![d] = Wait(call[d].attempt + 1, call[d].attempt + 1)]
    /\ UNCHANGED worker

(* An attempt failed: the next one after attempt * 500 ms.  The fifth      *)
(* failure ends a worker that has not started, and makes a running one     *)
(* keep its response and wait for the next renewal.                        *)
AttemptFailed(d) ==
    LET n == call[d].attempt + 1
    IN  /\ disturbed' = [disturbed EXCEPT ![d] = now]
        /\ IF n < Attempts
           THEN call' = [call EXCEPT ![d] = Wait(n, n)] /\ UNCHANGED worker
           ELSE IF worker[d] = "boot"
           THEN /\ worker' = [worker EXCEPT ![d] = "exit"]
                /\ call' = [call EXCEPT ![d] = NoCall]
           ELSE /\ call' = [call EXCEPT ![d] = Wait(0, RenewIn(current[d]))]
                /\ UNCHANGED worker

(* The timer of a backoff or of a renewal fires.                           *)
Timer(d) ==
    /\ call[d].pc = "wait" /\ call[d].at <= now
    /\ call' = [call EXCEPT ![d] = Ask(call[d].attempt)]
    /\ UNCHANGED <<now, managerVars, worker, current, faults, disturbed>>

-----------------------------------------------------------------------------
(* bootstrapHandler at manager m.  TLS has verified the certificate.       *)

(* Mutant of HandlerCheck: the list is not consulted.                      *)
HandlerCheckNone(m, d) ==
    /\ up[m] /\ call[d].pc = "try"
    /\ call' = [call EXCEPT ![d].pc = "checked"]
    /\ UNCHANGED <<now, managerVars, worker, current, faults, disturbed>>

(* IsRevoked: 403, ...                                                     *)
HandlerCheck(m, d) ==
    /\ up[m] /\ call[d].pc = "try"
    /\ call' = [call EXCEPT ![d].pc = IF d \in revoked[m] THEN "refused" ELSE "checked"]
    /\ UNCHANGED <<now, managerVars, worker, current, faults, disturbed>>

(* ... or Issue and 200.                                                   *)
HandlerIssue(d) ==
    /\ call[d].pc = "checked"
    /\ call' = [call EXCEPT ![d].pc = "issued", ![d].exp = now + ttl]
    /\ UNCHANGED <<now, managerVars, worker, current, faults, disturbed>>

-----------------------------------------------------------------------------
(* doBootstrapOnce.                                                        *)

(* The response arrives.  RunWorker opens the broker with the first one;   *)
(* after a renewal it waits for the next, and only logs a new broker URL.  *)
Answered(d) ==
    /\ call[d].pc = "issued"
    /\ current' = [current EXCEPT ![d] = call[d].exp]
    /\ IF worker[d] = "boot"
       THEN /\ worker' = [worker EXCEPT ![d] = "open"]
            /\ call' = [call EXCEPT ![d] = NoCall]
            /\ UNCHANGED disturbed
       ELSE /\ call' = [call EXCEPT ![d] = Wait(0, RenewIn(call[d].exp))]
            /\ NoteLate(d, call[d].exp)
            /\ UNCHANGED worker
    /\ UNCHANGED <<now, managerVars, faults>>

(* Any other status is a failure.                                          *)
Refused(d) ==
    /\ call[d].pc = "refused"
    /\ AttemptFailed(d)
    /\ UNCHANGED <<now, managerVars, current, faults>>

(* client.Do fails or the body is cut off: no manager answers, or the      *)
(* connection breaks.                                                      *)
RequestLost(d) ==
    /\ Asking(d)
    /\ IF \A m \in Managers : up[m] THEN Fault ELSE UNCHANGED faults
    /\ AttemptFailed(d)
    /\ UNCHANGED <<now, managerVars, current>>

(* The client gives the request up, wherever it or its answer is.          *)
TimesOut(d) ==
    /\ TimeIsUp(d)
    /\ AttemptFailed(d)
    /\ UNCHANGED <<now, managerVars, current, faults>>

-----------------------------------------------------------------------------
(* RunWorker after the handshake.                                          *)

(* OpenWorkerResources and Connect have returned: the renewal goroutine    *)
(* and the task loop start.                                                *)
Open(d) ==
    /\ worker[d] = "open"
    /\ worker' = [worker EXCEPT ![d] = "serving"]
    /\ call' = [call EXCEPT ![d] = Wait(0, RenewIn(current[d]))]
    /\ NoteLate(d, current[d])
    /\ UNCHANGED <<now, managerVars, current, faults>>

(* The broker cannot be opened, Receive fails or SIGTERM: RunWorker        *)
(* returns and the process ends.                                           *)
Stop(d) ==
    /\ worker[d] # "exit"
    /\ Fault
    /\ worker' = [worker EXCEPT ![d] = "exit"]
    /\ call' = [call EXCEPT ![d] = NoCall]
    /\ UNCHANGED <<now, managerVars, current, disturbed>>

(* A process that ended is started again, without a token.                 *)
Restart(d) ==
    /\ worker[d] = "exit"
    /\ worker' = [worker EXCEPT ![d] = "boot"]
    /\ call' = [call EXCEPT ![d] = Ask(0)]
    /\ current' = [current EXCEPT ![d] = 0]
    /\ UNCHANGED <<now, managerVars, faults, disturbed>>

-----------------------------------------------------------------------------
(* The managers.                                                           *)

RevokedEverywhere(d) == \A m \in Managers : d \in revoked[m]

Revoke(m, d) ==
    /\ up[m] /\ d \notin revoked[m]
    /\ revoked' = [revoked EXCEPT ![m] = @ \cup {d}]
    /\ revokedAt' = [revokedAt EXCEPT ![d] = now]
    /\ UNCHANGED <<now, ttl, up, worker, call, current, faults, disturbed>>

ManagerStop(m) ==
    /\ up[m]
    /\ Fault
    /\ up' = [up EXCEPT ![m] = FALSE]
    /\ UNCHANGED <<now, ttl, revoked, revokedAt, worker, call, current, disturbed>>

(* NewManager, NewRevocationList: what Revoke added before is forgotten.   *)
ManagerStart(m) ==
    /\ ~up[m]
    /\ up' = [up EXCEPT ![m] = TRUE]
    /\ revoked' = [revoked EXCEPT ![m] = RevokedCNs]
    /\ UNCHANGED <<now, ttl, revokedAt, worker, call, current, faults, disturbed>>

-----------------------------------------------------------------------------
(* What does not wait for the clock: a handler that runs, a timer that     *)
(* fires, a request whose time is up.                                      *)
Pending(d) ==
    \/ call[d].pc = "checked"
    \/ call[d].pc = "wait" /\ call[d].at <= now
    \/ TimeIsUp(d)

Tick ==
    /\ now < MaxTime
    /\ \A d \in Devices : ~Pending(d)
    /\ now' = now + 1
    /\ UNCHANGED <<managerVars, worker, call, current, faults, disturbed>>

Next ==
    \/ \E d \in Devices :
          \/ Timer(d) \/ HandlerIssue(d) \/ Answered(d) \/ Refused(d) \/ RequestLost(d) \/ TimesOut(d)
          \/ Open(d) \/ Stop(d) \/ Restart(d)
          \/ \E m \in Managers : HandlerCheck(m, d) \/ Revoke(m, d)
    \/ \E m \in Managers : ManagerStop(m) \/ ManagerStart(m)
    \/ Tick

Spec == Init /\ [][Next]_vars

-----------------------------------------------------------------------------
(***************************************************************************)
(* Properties.                                                             *)
(***************************************************************************)

(* Up to now, or up to when the request that is under way was sent.        *)
Since(d) == IF Asking(d) THEN call[d].at ELSE now

(* A serving worker never waits with an expired token: it asks for the     *)
(* next one while its own is valid, except within the longest pause after  *)
(* an attempt of its own failed or after it came to use a token with less  *)
(* than a second left, because an answer or the broker took too long.  It  *)
(* gives a request up in time, so a token whose renewal hangs has expired  *)
(* for no longer than a request may take, and then it asks again, however  *)
(* often requests were lost or refused before.                             *)
RenewedInTime ==
    \A d \in Devices : worker[d] = "serving" =>
        /\ ValidAt(current[d], Since(d)) \/ Since(d) - disturbed[d] <= MaxPause
        /\ Asking(d) => now - call[d].at <= RequestTimeout

(* "Revocation takes effect within one TTL window": a device every manager *)
(* lists holds no token that is valid longer than one TTL after the last   *)
(* of them came to list it, a request that raced Revoke and an answer that *)
(* comes later included.                                                   *)
RevokedWindow ==
    \A d \in Devices : RevokedEverywhere(d) => current[d] <= revokedAt[d] + ttl

=============================================================================
