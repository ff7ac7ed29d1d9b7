-------------------------- MODULE P7BootstrapProofs --------------------------
(***************************************************************************)
(* Theorems about the bootstrap of Pattern 7 for every number of devices   *)
(* and managers, every revocation list, TTL and length of the run.         *)
(***************************************************************************)
EXTENDS P7Bootstrap, TLAPS

-----------------------------------------------------------------------------
(* Tokens and timers.                                                      *)

(* A renewal is at least a second ahead, and comes before the expiry when  *)
(* the token still lasts a second.                                         *)
LEMMA RenewInRange ==
    ASSUME now \in Nat, NEW exp \in Nat
    PROVE  /\ RenewIn(exp) \in Nat /\ RenewIn(exp) >= Second
           /\ exp - now >= Second => now + RenewIn(exp) <= exp
           /\ exp - now < Second => RenewIn(exp) = Second
<1> DEFINE rest == exp - now
           wait == (8 * rest) \div 10
<1>1. rest \in Int
    OBVIOUS
<1>2. wait \in Int /\ (rest >= 0 => wait <= rest) /\ (rest < 2 => wait < 2)
    BY <1>1, SMT
<1>3. RenewIn(exp) = IF wait < Second THEN Second ELSE wait
    BY DEF RenewIn
<1> HIDE DEF wait
<1> QED BY <1>2, <1>3, SMT DEF Second

(* Expiry compares whole seconds, so a later expiry is no worse.           *)
LEMMA ValidUpTo ==
    ASSUME NEW time \in Nat, NEW exp \in Nat, time <= exp
    PROVE  ValidAt(exp, time)
BY SMT DEF ValidAt, Second

LEMMA TypeInit == Init => TypeOK
<1> SUFFICES ASSUME Init PROVE TypeOK
    OBVIOUS
<1>1. ttl \in Nat \ {0}
    <2> PICK configured \in TokenTTLs : ttl = TokenTTL(configured)
        BY DEF Init
    <2> QED BY P7Assumption, SMT DEF TokenTTL
<1>2. now = 0 /\ Ask(0) \in CallState
    BY SMT DEF Init, Ask, CallState, Attempts
<1>3. faults \in 0..MaxFaults /\ now \in 0..MaxTime /\ 0 \in 0..MaxTime
    BY P7Assumption, SMT DEF Init
<1> QED BY <1>1, <1>2, <1>3, P7Assumption DEF Init, TypeOK

LEMMA WaitType ==
    ASSUME now \in Nat, NEW n \in 0..(Attempts - 1), NEW pause \in Nat
    PROVE  Wait(n, pause) \in CallState
BY SMT DEF Wait, CallState

LEMMA AskType ==
    ASSUME now \in Nat, NEW n \in 0..(Attempts - 1)
    PROVE  NoCall \in CallState /\ Ask(n) \in CallState /\ Ask(0) \in CallState
BY SMT DEF NoCall, Ask, CallState, Attempts

LEMMA NoteLateType ==
    ASSUME TypeOK, NEW d \in Devices, NEW exp, NoteLate(d, exp)
    PROVE  disturbed' \in [Devices -> 0..MaxTime]
BY DEF NoteLate, TypeOK

(* What an attempt that failed leaves behind.                              *)
LEMMA AttemptFailedType ==
    ASSUME TypeOK, NEW d \in Devices, AttemptFailed(d)
    PROVE  /\ call' \in [Devices -> CallState]
           /\ worker' \in [Devices -> {"boot", "open", "serving", "exit"}]
           /\ disturbed' \in [Devices -> 0..MaxTime]
<1> DEFINE n == call[d].attempt + 1
<1>1. n \in Nat /\ now \in Nat /\ current[d] \in Nat /\ call \in [Devices -> CallState]
      /\ worker \in [Devices -> {"boot", "open", "serving", "exit"}]
    BY P7Assumption, SMT DEF TypeOK, CallState, Attempts
<1>2. disturbed' \in [Devices -> 0..MaxTime]
    BY DEF AttemptFailed, TypeOK
<1>3. CASE n < Attempts
    <2>1. Wait(n, n) \in CallState
        BY <1>1, <1>3, WaitType, SMT DEF Attempts
    <2> QED BY <1>1, <1>2, <1>3, <2>1 DEF AttemptFailed
<1>4. CASE ~(n < Attempts) /\ worker[d] = "boot"
    BY <1>1, <1>2, <1>4, AskType DEF AttemptFailed, CallState
<1>5. CASE ~(n < Attempts) /\ worker[d] # "boot"
    <2>1. 0 \in 0..(Attempts - 1)
        BY SMT DEF Attempts
    <2>2. Wait(0, RenewIn(current[d])) \in CallState
        BY <1>1, <2>1, WaitType, RenewInRange
    <2> QED BY <1>1, <1>2, <1>5, <2>2 DEF AttemptFailed
<1> QED BY <1>3, <1>4, <1>5

LEMMA TypeStep == TypeOK /\ [Next]_vars => TypeOK'
<1> SUFFICES ASSUME TypeOK, [Next]_vars PROVE TypeOK'
    OBVIOUS
<1>0. /\ now \in Nat /\ now \in 0..MaxTime /\ ttl \in Nat \ {0}
      /\ call \in [Devices -> CallState] /\ current \in [Devices -> Nat]
      /\ 0 \in 0..(Attempts - 1)
    BY P7Assumption, SMT DEF TypeOK, CallState, Attempts
<1>f. Fault => faults' \in 0..MaxFaults
    BY P7Assumption, SMT DEF Fault, TypeOK
<1>1. ASSUME NEW d \in Devices, Timer(d) PROVE TypeOK'
    <2>1. Ask(call[d].attempt) \in CallState
        BY <1>0, AskType DEF CallState
    <2>2. call' \in [Devices -> CallState]
        BY <1>0, <1>1, <2>1 DEF Timer
    <2> QED BY <1>1, <2>2 DEF Timer, TypeOK, managerVars, CallState
<1>2. ASSUME NEW d \in Devices, HandlerIssue(d) PROVE TypeOK'
    <2>1. now + ttl \in Nat
        BY <1>0, SMT
    <2>2. call' \in [Devices -> CallState]
        BY <1>0, <1>2, <2>1 DEF HandlerIssue, CallState
    <2> QED BY <1>2, <2>2 DEF HandlerIssue, TypeOK, managerVars
<1>a. ASSUME NEW d \in Devices, Answered(d) PROVE TypeOK'
    <2>0. call[d].exp \in Nat
        BY <1>0 DEF CallState
    <2>1. Wait(0, RenewIn(call[d].exp)) \in CallState
        BY <1>0, <2>0, WaitType, RenewInRange
    <2>2. call' \in [Devices -> CallState] /\ current' \in [Devices -> Nat]
        BY <1>0, <1>a, <2>0, <2>1, AskType DEF Answered
    <2>3. disturbed' \in [Devices -> 0..MaxTime]
        BY <1>a, NoteLateType DEF Answered, TypeOK
    <2>4. worker' \in [Devices -> {"boot", "open", "serving", "exit"}]
        BY <1>a DEF Answered, TypeOK
    <2> QED BY <1>a, <2>2, <2>3, <2>4 DEF Answered, TypeOK, managerVars
<1>3. ASSUME NEW d \in Devices, RequestLost(d) \/ TimesOut(d) \/ Refused(d) PROVE TypeOK'
    <2>1. AttemptFailed(d) /\ faults' \in 0..MaxFaults
        BY <1>3, <1>f DEF RequestLost, TimesOut, Refused, TypeOK
    <2> QED BY <1>3, <2>1, AttemptFailedType DEF RequestLost, TimesOut, Refused, TypeOK, managerVars
<1>4. ASSUME NEW d \in Devices, Open(d) PROVE TypeOK'
    <2>1. Wait(0, RenewIn(current[d])) \in CallState
        BY <1>0, WaitType, RenewInRange
    <2>2. call' \in [Devices -> CallState]
        BY <1>0, <1>4, <2>1 DEF Open
    <2>3. disturbed' \in [Devices -> 0..MaxTime]
        BY <1>4, NoteLateType DEF Open
    <2> QED BY <1>4, <2>2, <2>3 DEF Open, TypeOK, managerVars
<1>5. ASSUME NEW d \in Devices, Stop(d) PROVE TypeOK'
    <2>1. call' \in [Devices -> CallState]
        BY <1>0, <1>5, AskType DEF Stop
    <2> QED BY <1>5, <1>f, <2>1 DEF Stop, TypeOK, managerVars, CallState
<1>6. ASSUME NEW d \in Devices, Restart(d) PROVE TypeOK'
    <2>1. call' \in [Devices -> CallState] /\ current' \in [Devices -> Nat]
        BY <1>0, <1>6, AskType DEF Restart
    <2> QED BY <1>6, <1>f, <2>1 DEF Restart, TypeOK, managerVars, CallState
<1>7. ASSUME NEW d \in Devices, NEW m \in Managers, HandlerCheck(m, d) PROVE TypeOK'
    <2>1. call' \in [Devices -> CallState]
        BY <1>0, <1>7 DEF HandlerCheck, CallState
    <2> QED BY <1>7, <2>1 DEF HandlerCheck, TypeOK, managerVars
<1>8. ASSUME NEW d \in Devices, NEW m \in Managers, Revoke(m, d) PROVE TypeOK'
    <2>1. revoked' \in [Managers -> SUBSET Devices] /\ revokedAt' \in [Devices -> 0..MaxTime]
        BY <1>0, <1>8 DEF Revoke, TypeOK
    <2> QED BY <1>8, <2>1 DEF Revoke, TypeOK
<1>9. ASSUME NEW m \in Managers, ManagerStop(m) PROVE TypeOK'
    BY <1>9, <1>f DEF ManagerStop, TypeOK
<1>10. ASSUME NEW m \in Managers, ManagerStart(m) PROVE TypeOK'
    BY <1>0, <1>10, P7Assumption DEF ManagerStart, TypeOK
<1>11. CASE Tick
    <2>1. now' \in 0..MaxTime
        BY <1>0, <1>11, P7Assumption, SMT DEF Tick
    <2> QED BY <1>11, <2>1 DEF Tick, TypeOK, managerVars
<1>12. CASE UNCHANGED vars
    BY <1>12 DEF vars, TypeOK
<1> QED BY <1>1, <1>2, <1>a, <1>3, <1>4, <1>5, <1>6, <1>7, <1>8, <1>9, <1>10, <1>11, <1>12 DEF Next

(* Managers, workers and clock keep their types.                           *)
THEOREM TypeCorrect == Spec => []TypeOK
BY TypeInit, TypeStep, PTL DEF Spec

-----------------------------------------------------------------------------
(* Revocation.                                                             *)

(* RevokedWindow with what it rests on: no token outlives now + ttl, a     *)
(* restarted manager lists what it is configured to, and for a request     *)
(* that was checked before the last Revoke the token is issued in the tick *)
(* of that Revoke, whenever the answer arrives.                            *)
RevokeInv ==
    /\ \A d \in Devices : current[d] <= now + ttl
    /\ \A m \in Managers : RevokedCNs \subseteq revoked[m]
    /\ \A d \in Devices :
          call[d].pc = "checked" /\ RevokedEverywhere(d) => revokedAt[d] = now
    /\ \A d \in Devices : call[d].pc = "issued" =>
          /\ call[d].exp <= now + ttl
          /\ RevokedEverywhere(d) => call[d].exp <= revokedAt[d] + ttl
    /\ RevokedWindow

(* What AttemptFailed does to the call of the device and to the others.    *)
LEMMA AttemptFailedEffect ==
    ASSUME TypeOK, NEW d \in Devices, AttemptFailed(d)
    PROVE  /\ \A e \in Devices : e # d => /\ call'[e] = call[e] /\ worker'[e] = worker[e]
                                          /\ disturbed'[e] = disturbed[e]
           /\ disturbed'[d] = now
           /\ call'[d].pc \in {"none", "wait"}
           /\ worker'[d] = worker[d] \/ worker'[d] = "exit"
           /\ call'[d].pc = "none" => worker'[d] = "exit"
           /\ call'[d].pc = "wait" =>
                 \/ now <= call'[d].at /\ call'[d].at <= now + MaxPause
                 \/ now <= call'[d].at /\ call'[d].at <= current[d]
<1> DEFINE n == call[d].attempt + 1
<1>1. n \in 1..Attempts /\ now \in Nat /\ current[d] \in Nat /\ call \in [Devices -> CallState]
      /\ worker \in [Devices -> {"boot", "open", "serving", "exit"}]
      /\ disturbed \in [Devices -> 0..MaxTime]
    BY P7Assumption, SMT DEF TypeOK, CallState, Attempts
<1>2. disturbed' = [disturbed EXCEPT ![d] = now]
    BY DEF AttemptFailed
<1>3. CASE n < Attempts
    <2>1. call' = [call EXCEPT ![d] = Wait(n, n)] /\ worker' = worker
        BY <1>3 DEF AttemptFailed
    <2>2. Wait(n, n).pc = "wait" /\ Wait(n, n).at = now + n
        BY DEF Wait
    <2>3. now <= now + n /\ now + n <= now + MaxPause
        BY <1>1, <1>3, SMT DEF MaxPause, Attempts
    <2> QED BY <1>1, <1>2, <2>1, <2>2, <2>3
<1>4. CASE ~(n < Attempts) /\ worker[d] = "boot"
    BY <1>1, <1>2, <1>4 DEF AttemptFailed, NoCall
<1>5. CASE ~(n < Attempts) /\ worker[d] # "boot"
    <2> DEFINE w == RenewIn(current[d])
    <2>1. call' = [call EXCEPT ![d] = Wait(0, w)] /\ worker' = worker
        BY <1>5 DEF AttemptFailed
    <2>2. Wait(0, w).pc = "wait" /\ Wait(0, w).at = now + w
        BY DEF Wait
    <2>3. now <= now + w /\ (now + w <= now + MaxPause \/ now + w <= current[d])
        <3>1. /\ w \in Nat
              /\ current[d] - now >= Second => now + w <= current[d]
              /\ current[d] - now < Second => w = Second
            BY <1>1, RenewInRange
        <3> HIDE DEF w
        <3> QED BY <1>1, <3>1, SMT DEF MaxPause, Attempts, Second
    <2> QED BY <1>1, <1>2, <2>1, <2>2, <2>3
<1> QED BY <1>3, <1>4, <1>5

LEMMA RevokeStep == TypeOK /\ RevokeInv /\ [Next]_vars => RevokeInv'
<1> SUFFICES ASSUME TypeOK, RevokeInv, [Next]_vars PROVE RevokeInv'
    OBVIOUS
<1>0. /\ now \in Nat /\ ttl \in Nat
      /\ call \in [Devices -> CallState] /\ current \in [Devices -> Nat]
      /\ revoked \in [Managers -> SUBSET Devices] /\ revokedAt \in [Devices -> Nat]
    BY P7Assumption, SMT DEF TypeOK, CallState
<1> USE DEF RevokeInv, RevokedWindow, RevokedEverywhere
<1>1. ASSUME NEW d \in Devices, Timer(d) PROVE RevokeInv'
    <2>1. /\ \A e \in Devices : e # d => call'[e] = call[e]
          /\ call'[d].pc = "try" /\ UNCHANGED <<now, ttl, revoked, revokedAt, current>>
        BY <1>0, <1>1 DEF Timer, Ask, managerVars
    <2> QED BY <2>1
<1>2. ASSUME NEW d \in Devices, HandlerIssue(d) PROVE RevokeInv'
    <2>1. /\ \A e \in Devices : e # d => call'[e] = call[e]
          /\ call'[d].pc = "issued" /\ call'[d].exp = now + ttl /\ call[d].pc = "checked"
          /\ UNCHANGED <<now, ttl, revoked, revokedAt, current>>
        BY <1>0, <1>2 DEF HandlerIssue, CallState, managerVars
    <2> QED BY <1>0, <2>1
<1>a. ASSUME NEW d \in Devices, Answered(d) PROVE RevokeInv'
    <2>1. /\ \A e \in Devices : e # d => call'[e] = call[e] /\ current'[e] = current[e]
          /\ call'[d].pc \in {"none", "wait"} /\ current'[d] = call[d].exp /\ call[d].pc = "issued"
          /\ UNCHANGED <<now, ttl, revoked, revokedAt>>
        BY <1>0, <1>a DEF Answered, NoCall, Wait, managerVars
    <2> QED BY <2>1
<1>3. ASSUME NEW d \in Devices, RequestLost(d) \/ TimesOut(d) \/ Refused(d) PROVE RevokeInv'
    <2>1. AttemptFailed(d) /\ UNCHANGED <<now, ttl, revoked, revokedAt, current>>
        BY <1>3 DEF RequestLost, TimesOut, Refused, managerVars
    <2>2. /\ \A e \in Devices : e # d => call'[e] = call[e]
          /\ call'[d].pc \in {"none", "wait"}
        BY <2>1, AttemptFailedEffect
    <2> QED BY <2>1, <2>2
<1>4. ASSUME NEW d \in Devices, Open(d) \/ Stop(d) PROVE RevokeInv'
    <2>1. /\ \A e \in Devices : e # d => call'[e] = call[e]
          /\ call'[d].pc \in {"none", "wait"}
          /\ UNCHANGED <<now, ttl, revoked, revokedAt, current>>
        BY <1>0, <1>4 DEF Open, Stop, NoCall, Wait, managerVars
    <2> QED BY <2>1
<1>5. ASSUME NEW d \in Devices, Restart(d) PROVE RevokeInv'
    <2>1. /\ \A e \in Devices : e # d => call'[e] = call[e]
          /\ call'[d].pc = "try"
        BY <1>0, <1>5 DEF Restart, Ask
    <2>2. \A e \in Devices : current'[e] \in Nat /\ current'[e] <= current[e]
        BY <1>0, <1>5, SMT DEF Restart
    <2>3. UNCHANGED <<now, ttl, revoked, revokedAt>>
        BY <1>5 DEF Restart, managerVars
    <2> HIDE <1>5
    <2> QED BY <1>0, <2>1, <2>2, <2>3, SMT
<1>6. ASSUME NEW d \in Devices, NEW m \in Managers, HandlerCheck(m, d) PROVE RevokeInv'
    <2>1. UNCHANGED <<now, ttl, revoked, revokedAt, current>>
        BY <1>6 DEF HandlerCheck, managerVars
    <2>2. /\ \A e \in Devices : e # d => call'[e] = call[e]
          /\ call'[d].pc = "refused" \/ (call'[d].pc = "checked" /\ ~RevokedEverywhere(d))
        BY <1>0, <1>6 DEF HandlerCheck, CallState
    <2> QED BY <2>1, <2>2
<1>7. ASSUME NEW d \in Devices, NEW m \in Managers, Revoke(m, d) PROVE RevokeInv'
    <2>1. /\ \A e \in Devices : revokedAt'[e] = IF e = d THEN now ELSE revokedAt[e]
          /\ \A e \in Devices, k \in Managers : e # d => (e \in revoked'[k] <=> e \in revoked[k])
          /\ \A k \in Managers : revoked[k] \subseteq revoked'[k]
          /\ UNCHANGED <<now, ttl, call, current>>
        BY <1>0, <1>7 DEF Revoke
    <2> QED BY <1>0, <2>1
<1>8. ASSUME NEW m \in Managers, ManagerStop(m) PROVE RevokeInv'
    BY <1>8 DEF ManagerStop
<1>9. ASSUME NEW m \in Managers, ManagerStart(m) PROVE RevokeInv'
    <2>1. /\ \A k \in Managers : revoked'[k] = IF k = m THEN RevokedCNs ELSE revoked[k]
          /\ UNCHANGED <<now, ttl, call, current, revokedAt>>
        BY <1>0, <1>9 DEF ManagerStart
    <2>2. \A d \in Devices : RevokedEverywhere(d)' => RevokedEverywhere(d)
        BY <2>1
    <2> QED BY <2>1, <2>2
<1>10. CASE Tick
    <2>1. /\ now' = now + 1 /\ UNCHANGED <<ttl, revoked, revokedAt, call, current>>
          /\ \A d \in Devices : call[d].pc # "checked"
        BY <1>10 DEF Tick, Pending, managerVars
    <2>2. \A d \in Devices :
              /\ current'[d] <= now' + ttl'
              /\ call'[d].pc = "issued" => call'[d].exp <= now' + ttl'
        <3>1. \A d \in Devices : call[d].exp \in Nat /\ current[d] \in Nat
            BY <1>0 DEF CallState
        <3> QED BY <1>0, <2>1, <3>1, SMT
    <2> QED BY <2>1, <2>2
<1>11. CASE UNCHANGED vars
    BY <1>11 DEF vars
<1> QED BY <1>1, <1>2, <1>a, <1>3, <1>4, <1>5, <1>6, <1>7, <1>8, <1>9, <1>10, <1>11 DEF Next

(* Revocation takes effect within one TTL, whichever requests are in       *)
(* flight and whichever managers restart.                                  *)
THEOREM RevokedWindowCorrect == Spec => []RevokedWindow
<1>1. Init => RevokeInv
    <2> SUFFICES ASSUME Init PROVE RevokeInv
        OBVIOUS
    <2>1. ttl \in Nat /\ now = 0 /\ \A d \in Devices : current[d] = 0 /\ revokedAt[d] = 0
        BY TypeInit DEF Init, TypeOK
    <2>2. \A d \in Devices : current[d] <= now + ttl /\ current[d] <= revokedAt[d] + ttl
        BY <2>1, SMT
    <2> QED BY <2>2 DEF Init, RevokeInv, RevokedWindow, Ask
<1>2. RevokeInv => RevokedWindow
    BY DEF RevokeInv
<1> QED BY <1>1, <1>2, RevokeStep, TypeCorrect, PTL DEF Spec

-----------------------------------------------------------------------------
(* Renewal.                                                                *)

(* What a worker promises: its timer is set, and its request was sent, for *)
(* no moment after both its expiry and the longest pause since it was      *)
(* disturbed; a request is given up when its time is up.                   *)
RenewOf(d) ==
    /\ disturbed[d] <= now
    /\ worker[d] = "open" => call[d].pc = "none"
    /\ worker[d] = "serving" =>
          /\ call[d].pc # "none"
          /\ call[d].at <= current[d] \/ call[d].at <= disturbed[d] + MaxPause
          /\ call[d].pc = "wait" => now <= call[d].at
          /\ Asking(d) => call[d].at <= now /\ now - call[d].at <= RequestTimeout

RenewInv == \A d \in Devices : RenewOf(d)

(* Steps that leave the clock alone are about one device.                  *)
LEMMA RenewOthers ==
    ASSUME RenewInv, NEW d \in Devices, RenewOf(d)', UNCHANGED now,
           \A e \in Devices : e # d => /\ call'[e] = call[e] /\ worker'[e] = worker[e]
                                        /\ current'[e] = current[e] /\ disturbed'[e] = disturbed[e]
    PROVE  RenewInv'
<1>1. ASSUME NEW e \in Devices, e # d PROVE RenewOf(e)'
    <2>1. RenewOf(e)
        BY DEF RenewInv
    <2> QED BY <1>1, <2>1 DEF RenewOf, Asking
<1> QED BY <1>1 DEF RenewInv

LEMMA RenewFailed ==
    ASSUME TypeOK, RenewInv, NEW d \in Devices, AttemptFailed(d), Asking(d),
           UNCHANGED <<now, current>>
    PROVE  RenewInv'
<1>1. now \in Nat /\ current[d] \in Nat
    BY P7Assumption, SMT DEF TypeOK
<1>2. worker[d] # "open"
    BY DEF RenewInv, RenewOf, Asking
<1>3. worker'[d] = "serving" =>
          /\ call'[d].pc = "wait" /\ now <= call'[d].at
          /\ call'[d].at <= current[d] \/ call'[d].at <= disturbed'[d] + MaxPause
    BY <1>1, AttemptFailedEffect
<1>4. worker'[d] # "open"
    BY <1>2, AttemptFailedEffect
<1>5. disturbed'[d] <= now'
    BY <1>1, AttemptFailedEffect
<1>6. RenewOf(d)'
    BY <1>3, <1>4, <1>5 DEF RenewOf, Asking
<1> QED BY <1>6, AttemptFailedEffect, RenewOthers

(* A worker that comes to use a token waits for its renewal: until then    *)
(* the token is valid, or the worker was disturbed just now.               *)
LEMMA RenewWait ==
    ASSUME TypeOK, NEW d \in Devices, NEW exp \in Nat, NoteLate(d, exp), RenewOf(d)
    PROVE  /\ now <= now + RenewIn(exp)
           /\ now + RenewIn(exp) <= exp \/ now + RenewIn(exp) <= disturbed'[d] + MaxPause
           /\ disturbed'[d] <= now
           /\ \A e \in Devices : e # d => disturbed'[e] = disturbed[e]
<1>0. now \in Nat /\ disturbed \in [Devices -> 0..MaxTime]
    BY P7Assumption, SMT DEF TypeOK
<1>1. /\ RenewIn(exp) \in Nat
      /\ exp - now >= Second => now + RenewIn(exp) <= exp
      /\ exp - now < Second => RenewIn(exp) = Second
    BY <1>0, RenewInRange
<1>2. CASE Late(exp)
    <2>1. disturbed'[d] = now /\ RenewIn(exp) = Second
        BY <1>0, <1>1, <1>2 DEF NoteLate, Late
    <2>2. now + Second <= now + MaxPause
        BY <1>0, SMT DEF Second, MaxPause, Attempts
    <2> QED BY <1>0, <1>1, <1>2, <2>1, <2>2 DEF NoteLate
<1>3. CASE ~Late(exp)
    <2>1. exp - now >= Second
        BY <1>0, <1>3, SMT DEF Late, Second
    <2> QED BY <1>0, <1>1, <1>3, <2>1 DEF NoteLate, RenewOf
<1> QED BY <1>2, <1>3

LEMMA RenewStep == TypeOK /\ RenewInv /\ [Next]_vars => RenewInv'
<1> SUFFICES ASSUME TypeOK, RenewInv, [Next]_vars PROVE RenewInv'
    OBVIOUS
<1>0. /\ now \in Nat /\ ttl \in Nat
      /\ call \in [Devices -> CallState] /\ current \in [Devices -> Nat]
      /\ disturbed \in [Devices -> Nat]
      /\ worker \in [Devices -> {"boot", "open", "serving", "exit"}]
    BY P7Assumption, SMT DEF TypeOK
<1>1. ASSUME NEW d \in Devices, Timer(d) PROVE RenewInv'
    <2>1. /\ \A e \in Devices : e # d => call'[e] = call[e]
          /\ call'[d].pc = "try" /\ call'[d].at = now
          /\ call[d].pc = "wait" /\ call[d].at <= now /\ call[d].at \in Nat
          /\ UNCHANGED <<now, current, worker, disturbed>>
        BY <1>0, <1>1 DEF Timer, Ask, CallState, managerVars
    <2>2. RenewOf(d)
        BY DEF RenewInv
    <2>3. worker[d] = "serving" => call[d].at = now
        BY <1>0, <2>1, <2>2 DEF RenewOf
    <2>4. now <= now /\ now - now <= RequestTimeout
        BY <1>0, P7Assumption, SMT
    <2>5. RenewOf(d)'
        BY <2>1, <2>2, <2>3, <2>4 DEF RenewOf, Asking
    <2> QED BY <2>1, <2>5, RenewOthers
<1>2. ASSUME NEW d \in Devices, HandlerIssue(d) \/ \E m \in Managers : HandlerCheck(m, d)
      PROVE  RenewInv'
    <2>1. /\ \A e \in Devices : e # d => call'[e] = call[e]
          /\ Asking(d) /\ Asking(d)' /\ call[d].pc \notin {"none", "wait"}
          /\ call'[d].pc \notin {"none", "wait"} /\ call'[d].at = call[d].at
          /\ UNCHANGED <<now, current, worker, disturbed>>
        BY <1>0, <1>2 DEF HandlerIssue, HandlerCheck, Asking, CallState, managerVars
    <2>2. RenewOf(d)'
        BY <2>1 DEF RenewInv, RenewOf
    <2> QED BY <2>1, <2>2, RenewOthers
<1>3. ASSUME NEW d \in Devices, RequestLost(d) \/ TimesOut(d) \/ Refused(d) PROVE RenewInv'
    <2>1. AttemptFailed(d) /\ Asking(d) /\ UNCHANGED <<now, current>>
        BY <1>3 DEF RequestLost, TimesOut, Refused, TimeIsUp, Asking, managerVars
    <2> QED BY <2>1, RenewFailed
<1>4. ASSUME NEW d \in Devices, Answered(d) PROVE RenewInv'
    <2>1. /\ \A e \in Devices : e # d => /\ call'[e] = call[e] /\ worker'[e] = worker[e]
                                         /\ current'[e] = current[e]
          /\ current'[d] = call[d].exp /\ call[d].exp \in Nat /\ call[d].pc = "issued"
          /\ UNCHANGED now
        BY <1>0, <1>4 DEF Answered, CallState, managerVars
    <2>2. RenewOf(d)
        BY DEF RenewInv
    <2>3. CASE worker[d] = "boot"
        <3>1. UNCHANGED disturbed /\ worker'[d] = "open" /\ call'[d].pc = "none"
            BY <1>0, <1>4, <2>3 DEF Answered, NoCall
        <3>2. RenewOf(d)'
            BY <2>1, <2>2, <3>1 DEF RenewOf, Asking
        <3> QED BY <2>1, <3>1, <3>2, RenewOthers
    <2>4. CASE worker[d] # "boot"
        <3>1. /\ NoteLate(d, call[d].exp) /\ worker'[d] = worker[d] /\ call'[d].pc = "wait"
              /\ call'[d].at = now + RenewIn(call[d].exp)
            BY <1>0, <1>4, <2>4 DEF Answered, Wait
        <3>2. worker[d] # "open"
            BY <2>1, <2>2 DEF RenewOf
        <3>3. /\ now <= call'[d].at
              /\ call'[d].at <= current'[d] \/ call'[d].at <= disturbed'[d] + MaxPause
              /\ disturbed'[d] <= now
              /\ \A e \in Devices : e # d => disturbed'[e] = disturbed[e]
            BY <2>1, <2>2, <3>1, RenewWait
        <3>4. RenewOf(d)'
            BY <2>1, <3>1, <3>2, <3>3 DEF RenewOf, Asking
        <3> QED BY <2>1, <3>3, <3>4, RenewOthers
    <2> QED BY <2>3, <2>4
<1>5. ASSUME NEW d \in Devices, Open(d) PROVE RenewInv'
    <2>1. /\ \A e \in Devices : e # d => call'[e] = call[e] /\ worker'[e] = worker[e]
          /\ worker'[d] = "serving" /\ call'[d].pc = "wait"
          /\ call'[d].at = now + RenewIn(current[d])
          /\ NoteLate(d, current[d]) /\ current[d] \in Nat /\ UNCHANGED <<now, current>>
        BY <1>0, <1>5 DEF Open, Wait, managerVars
    <2>2. RenewOf(d)
        BY DEF RenewInv
    <2>3. /\ now <= call'[d].at
          /\ call'[d].at <= current'[d] \/ call'[d].at <= disturbed'[d] + MaxPause
          /\ disturbed'[d] <= now
          /\ \A e \in Devices : e # d => disturbed'[e] = disturbed[e]
        BY <2>1, <2>2, RenewWait
    <2>4. RenewOf(d)'
        BY <2>1, <2>3 DEF RenewOf, Asking
    <2> QED BY <2>1, <2>3, <2>4, RenewOthers
<1>6. ASSUME NEW d \in Devices, Stop(d) \/ Restart(d) PROVE RenewInv'
    <2>1. /\ \A e \in Devices : e # d => /\ call'[e] = call[e] /\ worker'[e] = worker[e]
                                         /\ current'[e] = current[e]
          /\ worker'[d] \in {"boot", "exit"} /\ UNCHANGED <<now, disturbed>>
        BY <1>0, <1>6 DEF Stop, Restart, managerVars
    <2>2. RenewOf(d)'
        BY <2>1 DEF RenewInv, RenewOf
    <2> QED BY <2>1, <2>2, RenewOthers
<1>7. ASSUME NEW m \in Managers,
             \/ ManagerStop(m) \/ ManagerStart(m)
             \/ \E d \in Devices : Revoke(m, d)
      PROVE  RenewInv'
    BY <1>7 DEF ManagerStop, ManagerStart, Revoke, RenewInv, RenewOf, Asking
<1>8. CASE Tick
    <2>1. /\ now' = now + 1 /\ UNCHANGED <<current, worker, call, disturbed>>
          /\ \A d \in Devices : /\ call[d].pc = "wait" => ~(call[d].at <= now)
                                /\ Asking(d) => ~(now - call[d].at >= RequestTimeout)
        BY <1>8 DEF Tick, Pending, TimeIsUp, managerVars
    <2>2. ASSUME NEW d \in Devices PROVE RenewOf(d)'
        <3>1. call[d].at \in Nat /\ disturbed[d] \in Nat /\ RenewOf(d)
            BY <1>0 DEF CallState, RenewInv
        <3>2. Asking(d)' <=> Asking(d)
            BY <2>1 DEF Asking
        <3>3. disturbed'[d] <= now'
            BY <1>0, <2>1, <3>1 DEF RenewOf
        <3>4. call[d].pc = "wait" => now' <= call'[d].at
            BY <1>0, <2>1, <3>1
        <3>5. ASSUME Asking(d), call[d].at <= now
              PROVE  call'[d].at <= now' /\ now' - call'[d].at <= RequestTimeout
            BY <1>0, <2>1, <3>1, <3>5, P7Assumption
        <3> QED BY <2>1, <3>1, <3>2, <3>3, <3>4, <3>5 DEF RenewOf
    <2> QED BY <2>2 DEF RenewInv
<1>9. CASE UNCHANGED vars
    BY <1>9 DEF vars, RenewInv, RenewOf, Asking
<1> QED BY <1>1, <1>2, <1>3, <1>4, <1>5, <1>6, <1>7, <1>8, <1>9 DEF Next

(* For every TTL and every timeout a serving worker asks for its next      *)
(* token while its own is valid, unless an attempt of its own failed, or   *)
(* it came to use a token late, within the last pause; and no request      *)
(* keeps it from asking again for longer than the timeout.                 *)
THEOREM RenewedInTimeCorrect == Spec => []RenewedInTime
<1>1. Init => RenewInv
    <2> SUFFICES ASSUME Init PROVE RenewInv
        OBVIOUS
    <2>1. \A d \in Devices : disturbed[d] <= now
        BY SMT DEF Init
    <2> QED BY <2>1 DEF Init, RenewInv, RenewOf
<1>2. TypeOK /\ RenewInv => RenewedInTime
    <2> SUFFICES ASSUME TypeOK, RenewInv, NEW d \in Devices, worker[d] = "serving"
                 PROVE  /\ ValidAt(current[d], Since(d)) \/ Since(d) - disturbed[d] <= MaxPause
                        /\ Asking(d) => now - call[d].at <= RequestTimeout
        BY DEF RenewedInTime
    <2>1. /\ now \in Nat /\ disturbed[d] \in Nat /\ current[d] \in Nat /\ call[d].at \in Nat
          /\ call[d].pc \in {"none", "wait", "try", "checked", "refused", "issued"}
        BY P7Assumption, SMT DEF TypeOK, CallState
    <2>2. RenewOf(d)
        BY DEF RenewInv
    <2>3. Since(d) \in Nat /\ Since(d) <= call[d].at
        BY <2>1, <2>2 DEF Since, Asking, RenewOf
    <2>4. Since(d) <= current[d] \/ Since(d) <= disturbed[d] + MaxPause
        BY <2>1, <2>2, <2>3, SMT DEF RenewOf, MaxPause, Attempts
    <2>5. Since(d) <= disturbed[d] + MaxPause => Since(d) - disturbed[d] <= MaxPause
        BY <2>1, <2>3, SMT DEF MaxPause, Attempts
    <2> QED BY <2>1, <2>2, <2>3, <2>4, <2>5, ValidUpTo DEF RenewOf
<1> QED BY <1>1, <1>2, RenewStep, TypeCorrect, PTL DEF Spec
=============================================================================
