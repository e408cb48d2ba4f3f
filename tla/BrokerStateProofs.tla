-------------------------- MODULE BrokerStateProofs --------------------------
(***************************************************************************)
(* What the broker keeps: the session limits, for any number of calls and  *)
(* tokens, any limits and any delay between the clock and the mutex; the   *)
(* login limiter, for any number of logins, keys and slots; the            *)
(* memberships of what runs, for any number of requests, accounts and      *)
(* operations and any course of the accounts' memberships; the job         *)
(* history, for any retention bound, any number of jobs, restarts and      *)
(* reboots, whichever of its answers bbolt's statistics give; and the      *)
(* advice to reboot that is made of such a history.                        *)
(***************************************************************************)
EXTENDS SessionStore, LoginLimiter, BrokerRequests, JobStore, RebootAdvice,
        FiniteSetTheorems, WellFoundedInduction, TLAPS

------------------------------------------------------------------------------
(* Sessions                                                                *)

(* The first session is yet to be created.                                 *)
LEMMA SessionInitInv == Init => SessionInv
  BY SessionAssumption
  DEF Init, SessionInv, TypeOK, CallsCurrent, CreatesUnknown, EndedWereIssued, UsesPast,
      StoredTimes, LoggedOutStaysOut, NoCall, Ops

(* A tick leaves room for the call that has been delayed longest.          *)
LEMMA SessionTickInv == SessionInv /\ Tick => SessionInv'
<1> SUFFICES ASSUME SessionInv, Tick PROVE SessionInv'
  OBVIOUS
<1> USE SessionAssumption DEF SessionInv
<1>1. TypeOK'
  BY DEF TypeOK, Tick
<1>2. CallsCurrent'
  BY DEF TypeOK, Tick, CallsCurrent
<1>3. CreatesUnknown' /\ EndedWereIssued' /\ LoggedOutStaysOut' /\ StoredTimes'
  BY DEF Tick, CreatesUnknown, EndedWereIssued, LoggedOutStaysOut, StoredTimes
<1>4. UsesPast'
  BY DEF TypeOK, Tick, UsesPast
<1> QED
  BY <1>1, <1>2, <1>3, <1>4

LEMMA CreateReadsClockInv ==
  ASSUME NEW c \in Calls, NEW t \in Tokens, SessionInv, CreateReadsClock(c, t)
  PROVE  SessionInv'
<1> USE SessionAssumption DEF SessionInv
<1>1. TypeOK'
  BY DEF TypeOK, CreateReadsClock, Ops
<1>2. CallsCurrent'
  BY DEF TypeOK, CreateReadsClock, CallsCurrent
<1>3. CreatesUnknown'
  <2>1. t \notin DOMAIN sessions /\ t \notin ended
    BY DEF TypeOK, CreateReadsClock, EndedWereIssued
  <2>2. \A d \in Calls : call[d].op = "create" => call[d].token # t
    BY DEF CreateReadsClock, CallsCurrent
  <2> QED
    BY <2>1, <2>2 DEF TypeOK, CreateReadsClock, CreatesUnknown
<1>4. EndedWereIssued' /\ UsesPast' /\ StoredTimes' /\ LoggedOutStaysOut'
  BY DEF CreateReadsClock, EndedWereIssued, UsesPast, StoredTimes, LoggedOutStaysOut
<1> QED
  BY <1>1, <1>2, <1>3, <1>4

LEMMA GetReadsClockInv ==
  ASSUME NEW c \in Calls, NEW t \in Tokens, SessionInv, GetReadsClock(c, t)
  PROVE  SessionInv'
<1> USE SessionAssumption DEF SessionInv
<1>1. TypeOK'
  BY DEF TypeOK, GetReadsClock, Ops
<1>2. CallsCurrent'
  BY DEF TypeOK, GetReadsClock, CallsCurrent
<1>3. CreatesUnknown'
  BY DEF TypeOK, GetReadsClock, CreatesUnknown
<1>4. EndedWereIssued' /\ UsesPast' /\ StoredTimes' /\ LoggedOutStaysOut'
  BY DEF GetReadsClock, EndedWereIssued, UsesPast, StoredTimes, LoggedOutStaysOut
<1> QED
  BY <1>1, <1>2, <1>3, <1>4

(* Returning from a call leaves the others as they were.                   *)
LEMMA ReturnFacts ==
  ASSUME NEW c \in Calls, TypeOK, Return(c)
  PROVE  /\ call'[c].op = "none"
         /\ \A d \in Calls : d # c => call'[d] = call[d]
         /\ call' \in [Calls -> [op : Ops, token : Tokens \cup {NoToken}, now : 0..clock]]
  BY SessionAssumption DEF TypeOK, Return, NoCall, Ops

LEMMA CreateStoresInv ==
  ASSUME NEW c \in Calls, SessionInv, CreateStores(c)
  PROVE  SessionInv'
<1> USE SessionAssumption DEF SessionInv
<1> DEFINE t == call[c].token
           now == call[c].now
<1>0. /\ call'[c].op = "none"
      /\ \A d \in Calls : d # c => call'[d] = call[d]
      /\ call' \in [Calls -> [op : Ops, token : Tokens \cup {NoToken}, now : 0..clock]]
  BY ReturnFacts DEF CreateStores
<1>1. t \in issued /\ t \in Tokens /\ now \in Nat /\ now <= clock /\ t \notin DOMAIN sessions /\ t \notin ended
  BY DEF TypeOK, CallsCurrent, CreatesUnknown, CreateStores
<1>2. /\ DOMAIN sessions' \subseteq DOMAIN sessions \cup {t}
      /\ \A u \in DOMAIN sessions' : u # t => sessions'[u] = sessions[u]
      /\ sessions'[t] = [abs |-> now + AbsoluteTTL, last |-> now]
  BY DEF CreateStores
<1>3. /\ created' = [created EXCEPT ![t] = now] /\ used' = [used EXCEPT ![t] = now]
      /\ clock' = clock /\ issued' = issued /\ ended' = ended
  BY DEF CreateStores
<1>4. TypeOK'
  BY <1>0, <1>1, <1>2, <1>3 DEF TypeOK
<1>5. CallsCurrent'
  BY <1>0, <1>3 DEF CallsCurrent
<1>6. CreatesUnknown'
  <2> SUFFICES ASSUME NEW d \in Calls, call'[d].op = "create"
               PROVE  /\ call'[d].token \notin DOMAIN sessions'
                      /\ call'[d].token \notin ended'
                      /\ \A e \in Calls : call'[e].op = "create" /\ call'[e].token = call'[d].token => e = d
    BY DEF CreatesUnknown
  <2>1. d # c /\ call'[d] = call[d]
    BY <1>0
  <2>2. call[d].token # t
    BY <2>1 DEF CreatesUnknown, CreateStores
  <2> QED
    BY <2>1, <2>2, <1>0, <1>2, <1>3 DEF CreatesUnknown
<1>7. EndedWereIssued' /\ LoggedOutStaysOut'
  BY <1>1, <1>2, <1>3 DEF EndedWereIssued, LoggedOutStaysOut
<1>8. UsesPast'
  BY <1>1, <1>3 DEF UsesPast, TypeOK
<1>9. StoredTimes'
  <2> SUFFICES ASSUME NEW u \in DOMAIN sessions'
               PROVE  /\ sessions'[u].abs = created'[u] + AbsoluteTTL
                      /\ sessions'[u].last <= used'[u]
                      /\ used'[u] - sessions'[u].last <= MaxDelay
    BY DEF StoredTimes
  <2>1. CASE u = t
    BY <2>1, <1>1, <1>2, <1>3 DEF TypeOK
  <2>2. CASE u # t
    BY <2>2, <1>1, <1>2, <1>3 DEF TypeOK, StoredTimes
  <2> QED
    BY <2>1, <2>2
<1> QED
  BY <1>4, <1>5, <1>6, <1>7, <1>8, <1>9

LEMMA GetAcceptsInv ==
  ASSUME NEW c \in Calls, SessionInv, GetAccepts(c)
  PROVE  SessionInv'
<1> USE SessionAssumption DEF SessionInv
<1> DEFINE t == call[c].token
           now == call[c].now
<1>0. /\ call'[c].op = "none"
      /\ \A d \in Calls : d # c => call'[d] = call[d]
      /\ call' \in [Calls -> [op : Ops, token : Tokens \cup {NoToken}, now : 0..clock]]
  BY ReturnFacts DEF GetAccepts
<1>1. t \in DOMAIN sessions /\ t \in Tokens /\ now \in Nat /\ now <= clock /\ clock - now <= MaxDelay
  BY DEF TypeOK, CallsCurrent, GetAccepts
<1>2. /\ DOMAIN sessions' = DOMAIN sessions
      /\ \A u \in DOMAIN sessions : u # t => sessions'[u] = sessions[u]
      /\ sessions'[t] = [sessions[t] EXCEPT !.last = now]
  BY <1>1 DEF GetAccepts, With
<1>3. /\ used' = [used EXCEPT ![t] = IF @ < now THEN now ELSE @]
      /\ clock' = clock /\ issued' = issued /\ ended' = ended /\ created' = created
  BY DEF GetAccepts
<1>4. TypeOK'
  BY <1>0, <1>1, <1>2, <1>3, SMTT(30), Zenon, SMTT(60) DEF TypeOK
<1>5. CallsCurrent' /\ CreatesUnknown' /\ EndedWereIssued' /\ LoggedOutStaysOut'
  BY <1>0, <1>2, <1>3 DEF CallsCurrent, CreatesUnknown, EndedWereIssued, LoggedOutStaysOut
<1>6. UsesPast'
  BY <1>1, <1>3 DEF UsesPast, TypeOK
<1>7. StoredTimes'
  <2> SUFFICES ASSUME NEW u \in DOMAIN sessions
               PROVE  /\ sessions'[u].abs = created[u] + AbsoluteTTL
                      /\ sessions'[u].last <= used'[u]
                      /\ used'[u] - sessions'[u].last <= MaxDelay
    BY <1>2, <1>3 DEF StoredTimes
  <2>1. CASE u = t
    <3>1. used[t] \in Nat /\ used[t] <= clock /\ clock \in Nat
      BY <1>1 DEF TypeOK, UsesPast
    <3>2. sessions'[t].last = now /\ sessions'[t].abs = sessions[t].abs
      BY <1>1, <1>2 DEF TypeOK
    <3>3. used'[t] = IF used[t] < now THEN now ELSE used[t]
      BY <1>1, <1>3 DEF TypeOK
    <3> QED
      BY <2>1, <3>1, <3>2, <3>3, <1>1 DEF StoredTimes
  <2>2. CASE u # t
    BY <2>2, <1>1, <1>2, <1>3 DEF TypeOK, StoredTimes
  <2> QED
    BY <2>1, <2>2
<1> QED
  BY <1>4, <1>5, <1>6, <1>7

LEMMA GetRejectsInv ==
  ASSUME NEW c \in Calls, SessionInv, GetRejects(c)
  PROVE  SessionInv'
<1> USE SessionAssumption DEF SessionInv
<1>0. /\ call'[c].op = "none"
      /\ \A d \in Calls : d # c => call'[d] = call[d]
      /\ call' \in [Calls -> [op : Ops, token : Tokens \cup {NoToken}, now : 0..clock]]
  BY ReturnFacts DEF GetRejects
<1>1. /\ DOMAIN sessions' \subseteq DOMAIN sessions
      /\ \A u \in DOMAIN sessions' : sessions'[u] = sessions[u]
  BY DEF GetRejects, Without
<1>2. UNCHANGED <<clock, issued, created, used, ended>>
  BY DEF GetRejects
<1>3. TypeOK'
  BY <1>0, <1>1, <1>2 DEF TypeOK
<1>4. CallsCurrent' /\ CreatesUnknown' /\ EndedWereIssued' /\ LoggedOutStaysOut' /\ UsesPast'
  BY <1>0, <1>1, <1>2 DEF CallsCurrent, CreatesUnknown, EndedWereIssued, LoggedOutStaysOut, UsesPast
<1>5. StoredTimes'
  BY <1>1, <1>2 DEF StoredTimes
<1> QED
  BY <1>3, <1>4, <1>5

LEMMA DeleteInv ==
  ASSUME NEW t \in Tokens, SessionInv, Delete(t)
  PROVE  SessionInv'
<1> USE SessionAssumption DEF SessionInv
<1>1. /\ DOMAIN sessions' = DOMAIN sessions \ {t}
      /\ \A u \in DOMAIN sessions' : sessions'[u] = sessions[u]
  BY DEF Delete, Without
<1>2. UNCHANGED <<clock, call, issued, created, used>> /\ ended' = ended \cup {t} /\ t \in issued
  BY DEF Delete
<1>3. TypeOK'
  BY <1>1, <1>2 DEF TypeOK
<1>4. CreatesUnknown'
  BY <1>1, <1>2 DEF CreatesUnknown, Delete
<1>5. CallsCurrent' /\ EndedWereIssued' /\ LoggedOutStaysOut' /\ UsesPast' /\ StoredTimes'
  BY <1>1, <1>2 DEF CallsCurrent, EndedWereIssued, LoggedOutStaysOut, UsesPast, StoredTimes
<1> QED
  BY <1>3, <1>4, <1>5

LEMMA SessionNextInv == SessionInv /\ [Next]_sessionVars => SessionInv'
<1> SUFFICES ASSUME SessionInv, [Next]_sessionVars PROVE SessionInv'
  OBVIOUS
<1>1. CASE UNCHANGED sessionVars
  BY <1>1 DEF sessionVars, SessionInv, TypeOK, CallsCurrent, CreatesUnknown, EndedWereIssued,
              UsesPast, StoredTimes, LoggedOutStaysOut
<1>2. CASE Tick
  BY <1>2, SessionTickInv
<1>3. ASSUME NEW c \in Calls, NEW t \in Tokens, CreateReadsClock(c, t) \/ GetReadsClock(c, t)
      PROVE  SessionInv'
  BY <1>3, CreateReadsClockInv, GetReadsClockInv
<1>4. ASSUME NEW c \in Calls, CreateStores(c) \/ GetAccepts(c) \/ GetRejects(c)
      PROVE  SessionInv'
  BY <1>4, CreateStoresInv, GetAcceptsInv, GetRejectsInv
<1>5. ASSUME NEW t \in Tokens, Delete(t) PROVE SessionInv'
  BY <1>5, DeleteInv
<1> QED
  BY <1>1, <1>2, <1>3, <1>4, <1>5 DEF Next

(* The inductive invariant holds throughout.                               *)
THEOREM SessionsInvariant == Spec => []SessionInv
  BY SessionInitInv, SessionNextInv, PTL DEF Spec

(* The stored times of every session agree with what happened to it, up to *)
(* the delay of a racing call, whatever order Create, Get and Delete take  *)
(* the mutex in.                                                           *)
THEOREM TimesAreRight == Spec => []StoredTimes
<1>1. SessionInv => StoredTimes
  BY DEF SessionInv
<1> QED
  BY <1>1, SessionsInvariant, PTL

(* A logged-out session never comes back.                                  *)
THEOREM LogoutIsFinal == Spec => []LoggedOutStaysOut
<1>1. SessionInv => LoggedOutStaysOut
  BY DEF SessionInv
<1> QED
  BY <1>1, SessionsInvariant, PTL

(* Get accepts a session only within both limits.                          *)
THEOREM LimitsAreKept == Spec => AcceptedWithinLimits
<1>1. ASSUME SessionInv
      PROVE  \A c \in Calls : GetAccepts(c) =>
               /\ call[c].now < created[call[c].token] + AbsoluteTTL
               /\ call[c].now - used[call[c].token] < IdleTTL
  <2> TAKE c \in Calls
  <2> HAVE GetAccepts(c)
  <2> DEFINE t == call[c].token
             now == call[c].now
  <2>1. t \in DOMAIN sessions /\ ~(now >= sessions[t].abs) /\ ~(now - sessions[t].last >= IdleTTL)
    BY DEF GetAccepts, Expired
  <2>2. t \in Tokens /\ now \in Nat /\ sessions[t].abs \in Nat /\ sessions[t].last \in Nat /\ used[t] \in Nat /\ created[t] \in Nat
    BY <1>1, <2>1 DEF SessionInv, TypeOK
  <2>3. sessions[t].abs = created[t] + AbsoluteTTL /\ sessions[t].last <= used[t]
    BY <1>1, <2>1 DEF SessionInv, StoredTimes
  <2> QED
    BY <2>1, <2>2, <2>3, SessionAssumption
<1>2. SessionInv /\ [Next]_sessionVars
        => [\A c \in Calls : GetAccepts(c) =>
              /\ call[c].now < created[call[c].token] + AbsoluteTTL
              /\ call[c].now - used[call[c].token] < IdleTTL]_sessionVars
  BY <1>1
<1> QED
  BY <1>2, SessionsInvariant, PTL DEF Spec, AcceptedWithinLimits

(* Somebody else's login or a late request removes a session only if it is *)
(* over by its own times; MaxDelay is all that a race can take from it.    *)
THEOREM ActiveSessionsLast == Spec => ActiveSessionSurvives
<1> DEFINE Late(t) == clock >= created[t] + AbsoluteTTL \/ clock - used[t] >= IdleTTL - MaxDelay
<1>1. ASSUME SessionInv, NEW t \in DOMAIN sessions, NEW now \in Nat, now <= clock,
             Expired(sessions[t], now)
      PROVE  Late(t)
  <2>1. /\ t \in Tokens /\ clock \in Nat /\ used[t] \in Nat /\ created[t] \in Nat
        /\ sessions[t].abs \in Nat /\ sessions[t].last \in Nat
    BY <1>1 DEF SessionInv, TypeOK
  <2>2. sessions[t].abs = created[t] + AbsoluteTTL /\ used[t] - sessions[t].last <= MaxDelay
    BY <1>1 DEF SessionInv, StoredTimes
  <2> QED
    BY <1>1, <2>1, <2>2, SessionAssumption DEF Expired
<1>2. ASSUME SessionInv, Next, NEW t \in DOMAIN sessions, t \notin DOMAIN sessions'
      PROVE  t \in ended' \/ Late(t)
  <2>1. CASE sessions' = sessions
    BY <1>2, <2>1
  <2>2. ASSUME NEW c \in Calls, CreateStores(c) \/ GetRejects(c)
        PROVE  Late(t)
    <3>1. call[c].now \in Nat /\ call[c].now <= clock
      BY <1>2, SMTT(30), Zenon, SMTT(60) DEF SessionInv, TypeOK
    <3>2. Expired(sessions[t], call[c].now)
      BY <1>2, <2>2 DEF CreateStores, GetRejects, Without
    <3> QED
      BY <1>1, <1>2, <3>1, <3>2
  <2>3. ASSUME NEW c \in Calls, GetAccepts(c) PROVE FALSE
    BY <1>2, <2>3 DEF GetAccepts, With
  <2>4. ASSUME NEW u \in Tokens, Delete(u) PROVE t \in ended'
    BY <1>2, <2>4 DEF Delete, Without
  <2>5. CASE Tick \/ \E c \in Calls, u \in Tokens : CreateReadsClock(c, u) \/ GetReadsClock(c, u)
    BY <2>1, <2>5 DEF Tick, CreateReadsClock, GetReadsClock
  <2> QED
    BY <1>2, <2>2, <2>3, <2>4, <2>5 DEF Next
<1>3. SessionInv /\ [Next]_sessionVars
        => [\A t \in DOMAIN sessions \ DOMAIN sessions' :
              \/ t \in ended'
              \/ clock >= created[t] + AbsoluteTTL
              \/ clock - used[t] >= IdleTTL - MaxDelay]_sessionVars
  BY <1>2
<1> QED
  BY <1>3, SessionsInvariant, PTL DEF Spec, ActiveSessionSurvives

(* Sessions end by their limits, neither later nor sooner, whatever calls  *)
(* are delayed between the clock and the mutex.                            *)
THEOREM SessionsEndOnTime == Spec => SessionsKeepTime
  BY LimitsAreKept, ActiveSessionsLast, PTL DEF SessionsKeepTime

------------------------------------------------------------------------------
(* The login limiter.  What is tracked is what has failed since it was last*)
(* forgotten, and a request that is being checked has a key.               *)
LimiterIInv ==
  /\ LimiterInv
  /\ IsFiniteSet(DOMAIN attempts)
  /\ \A k \in DOMAIN attempts : streak[k] > 0
  /\ \A q \in Logins : place[q] # "idle" => key[q] \in Keys

(* attemptLimiter.failure: the key that failed is in the table with its    *)
(* count and its delay, the others are as they were or forgotten, and the  *)
(* table is within its bound.                                              *)
LEMMA LimiterFailure ==
  ASSUME LimiterIInv, NEW k \in Keys, failure(k), time' = time
  PROVE  /\ DOMAIN attempts' \subseteq Keys
         /\ \A x \in DOMAIN attempts' :
              attempts'[x] \in [failures : Nat \ {0}, next : Int, updated : 0..time]
         /\ streak' \in [Keys -> Nat] /\ lastFail' \in [Keys -> Nat]
         /\ TrackerBounded' /\ BackoffAccumulates'
         /\ IsFiniteSet(DOMAIN attempts)' /\ \A x \in DOMAIN attempts' : streak'[x] > 0
<1> USE LimiterAssumption
<1> DEFINE n == Failures(k) + 1
           bar == time + 2 ^ Smaller(n - 1, MaxShift)
           stale == {x \in DOMAIN attempts : attempts[x].updated < time - StaleAfter}
           rest == DOMAIN attempts \ stale
           oldest == {x \in rest : \A y \in rest : attempts[x].updated <= attempts[y].updated}
<1>1. LimiterTypeOK /\ TrackerBounded /\ BackoffAccumulates /\ IsFiniteSet(DOMAIN attempts)
      /\ \A x \in DOMAIN attempts : streak[x] > 0
  BY Zenon DEF LimiterIInv, LimiterInv
<1>2. PICK gone \in Victims(k) :
        /\ attempts' = [x \in (DOMAIN attempts \ gone) \cup {k} |->
                          IF x = k THEN [failures |-> n, next |-> bar, updated |-> time]
                          ELSE attempts[x]]
        /\ streak' = [x \in Keys |-> IF x = k THEN streak[k] + 1
                                     ELSE IF x \in gone THEN 0 ELSE streak[x]]
        /\ lastFail' = [lastFail EXCEPT ![k] = time]
  BY Zenon DEF failure
<1>3. /\ streak \in [Keys -> Nat] /\ lastFail \in [Keys -> Nat] /\ time \in Nat
      /\ DOMAIN attempts \subseteq Keys
      /\ \A x \in DOMAIN attempts :
           attempts[x] \in [failures : Nat \ {0}, next : Int, updated : 0..time]
  BY Zenon, <1>1 DEF LimiterTypeOK
<1>4. n \in Nat \ {0} /\ n = streak[k] + 1
  <2>1. CASE k \in DOMAIN attempts
    BY <1>1, <1>3, <2>1 DEF Failures, BackoffAccumulates
  <2>2. CASE k \notin DOMAIN attempts
    BY <1>1, <1>3, <2>2 DEF Failures, BackoffAccumulates
  <2> QED BY Zenon, <2>1, <2>2
<1>5. bar \in Int
  <2>1. Smaller(n - 1, MaxShift) \in Nat
    BY <1>4 DEF Smaller
  <2> QED BY <1>3, <2>1
<1> HIDE DEF n, bar
<1>6. DOMAIN attempts' = (DOMAIN attempts \ gone) \cup {k}
  BY Zenon, <1>2
<1>7. /\ \A x \in DOMAIN attempts' \ {k} : attempts'[x] = attempts[x] /\ x \in DOMAIN attempts
      /\ attempts'[k] = [failures |-> n, next |-> bar, updated |-> time]
  BY Zenon, <1>2
<1>8. \A x \in DOMAIN attempts' :
        attempts'[x] \in [failures : Nat \ {0}, next : Int, updated : 0..time]
  <2>1. [failures |-> n, next |-> bar, updated |-> time]
          \in [failures : Nat \ {0}, next : Int, updated : 0..time]
    BY <1>3, <1>4, <1>5, SMTT(30), Zenon, SMTT(60)
  <2> QED BY Zenon, <1>3, <1>7, <2>1
<1>9. /\ streak' \in [Keys -> Nat] /\ lastFail' \in [Keys -> Nat]
      /\ streak'[k] = n
      /\ \A x \in Keys \ {k} : streak'[x] = IF x \in gone THEN 0 ELSE streak[x]
      /\ lastFail'[k] = time /\ \A x \in Keys \ {k} : lastFail'[x] = lastFail[x]
  BY <1>2, <1>3, <1>4
<1>10. \A x \in DOMAIN attempts' : streak'[x] > 0
  <2>1. streak'[k] > 0
    BY <1>4, <1>9
  <2> QED BY Zenon, <1>1, <1>3, <1>6, <1>9, <2>1
<1>11. BackoffAccumulates'
  <2> SUFFICES ASSUME NEW x \in Keys, streak'[x] > 0
               PROVE  /\ x \in DOMAIN attempts'
                      /\ attempts'[x].failures = streak'[x]
                      /\ attempts'[x].next = lastFail'[x] + 2 ^ Smaller(streak'[x] - 1, MaxShift)
    BY Zenon DEF BackoffAccumulates
  <2>1. CASE x = k
    <3>1. attempts'[k].failures = n /\ attempts'[k].next = bar /\ k \in DOMAIN attempts'
      BY <1>6, <1>7
    <3>2. streak'[k] = n /\ lastFail'[k] = time
      BY Zenon, <1>9
    <3>3. bar = lastFail'[k] + 2 ^ Smaller(streak'[k] - 1, MaxShift)
      BY Zenon, <3>2 DEF bar
    <3> QED BY Zenon, <2>1, <3>1, <3>2, <3>3
  <2>2. CASE x # k
    <3>1. x \notin gone /\ streak'[x] = streak[x]
      BY <1>9, <2>2
    <3>2. x \in DOMAIN attempts /\ attempts[x].failures = streak[x]
          /\ attempts[x].next = lastFail[x] + 2 ^ Smaller(streak[x] - 1, MaxShift)
      BY Zenon, <1>1, <3>1 DEF BackoffAccumulates
    <3> QED BY Zenon, <1>6, <1>7, <1>9, <2>2, <3>1, <3>2
  <2> QED BY Zenon, <2>1, <2>2
<1>12. TrackerBounded' /\ IsFiniteSet(DOMAIN attempts)'
  <2>1. IsFiniteSet(DOMAIN attempts) /\ Cardinality(DOMAIN attempts) \in Nat
        /\ Cardinality(DOMAIN attempts) <= MaxTrackedAttempts
    BY Zenon, <1>1, FS_CardinalityType DEF TrackerBounded
  <2>2. \A T : IsFiniteSet(T) =>
          /\ IsFiniteSet(T \cup {k}) /\ Cardinality(T) \in Nat
          /\ Cardinality(T \cup {k}) = Cardinality(T) \/ Cardinality(T \cup {k}) = Cardinality(T) + 1
    BY Zenon, FS_CardinalityType, FS_AddElement
  <2>3. CASE k \in DOMAIN attempts
    <3>1. gone = {}
      BY Zenon, <1>2, <2>3 DEF Victims
    <3>2. DOMAIN attempts' = DOMAIN attempts
      BY Zenon, <1>6, <2>3, <3>1
    <3> QED BY Zenon, <2>1, <3>2 DEF TrackerBounded
  <2>4. CASE k \notin DOMAIN attempts /\ Cardinality(DOMAIN attempts) < MaxTrackedAttempts
    <3>1. gone = {}
      BY Zenon, <1>2, <2>4 DEF Victims
    <3>2. DOMAIN attempts' = DOMAIN attempts \cup {k}
      BY Zenon, <1>6, <3>1
    <3>3. /\ IsFiniteSet(DOMAIN attempts \cup {k})
          /\ \/ Cardinality(DOMAIN attempts \cup {k}) = Cardinality(DOMAIN attempts)
             \/ Cardinality(DOMAIN attempts \cup {k}) = Cardinality(DOMAIN attempts) + 1
      BY Zenon, <2>1, <2>2
    <3>4. Cardinality(DOMAIN attempts \cup {k}) <= MaxTrackedAttempts
      BY <2>1, <2>4, <3>3
    <3> QED BY Zenon, <3>2, <3>3, <3>4 DEF TrackerBounded
  <2>5. CASE k \notin DOMAIN attempts /\ ~(Cardinality(DOMAIN attempts) < MaxTrackedAttempts)
    <3>0. IsFiniteSet(rest) /\ Cardinality(rest) \in Nat
          /\ Cardinality(rest) <= Cardinality(DOMAIN attempts)
      <4>1. rest \subseteq DOMAIN attempts
        BY Zenon
      <4> HIDE DEF rest
      <4> QED BY Zenon, <2>1, <4>1, FS_Subset, FS_CardinalityType
    <3>1. CASE Cardinality(rest) < MaxTrackedAttempts
      <4>1. gone = stale
        BY Zenon, <1>2, <2>5, <3>1 DEF Victims
      <4>2. DOMAIN attempts' = rest \cup {k}
        BY Zenon, <1>6, <4>1
      <4> HIDE DEF rest
      <4>3. /\ IsFiniteSet(rest \cup {k})
            /\ Cardinality(rest \cup {k}) = Cardinality(rest) \/ Cardinality(rest \cup {k}) = Cardinality(rest) + 1
        BY Zenon, <2>2, <3>0
      <4>4. Cardinality(rest \cup {k}) <= MaxTrackedAttempts
        BY <3>0, <3>1, <4>3
      <4> QED BY Zenon, <4>2, <4>3, <4>4 DEF TrackerBounded
    <3>2. CASE ~(Cardinality(rest) < MaxTrackedAttempts)
      <4>1. PICK old \in oldest : gone = stale \cup {old}
        BY Zenon, <1>2, <2>5, <3>2 DEF Victims
      <4>2. DOMAIN attempts' = (rest \ {old}) \cup {k} /\ old \in rest
        BY Zenon, <1>6, <4>1
      <4> HIDE DEF rest, oldest, stale
      <4>3. IsFiniteSet(rest \ {old}) /\ Cardinality(rest \ {old}) = Cardinality(rest) - 1
        BY Zenon, <3>0, <4>2, FS_RemoveElement
      <4>4. /\ IsFiniteSet((rest \ {old}) \cup {k})
            /\ \/ Cardinality((rest \ {old}) \cup {k}) = Cardinality(rest \ {old})
               \/ Cardinality((rest \ {old}) \cup {k}) = Cardinality(rest \ {old}) + 1
        BY Zenon, <2>2, <4>3
      <4>5. Cardinality((rest \ {old}) \cup {k}) <= MaxTrackedAttempts
        BY <2>1, <3>0, <4>3, <4>4
      <4> QED BY Zenon, <4>2, <4>4, <4>5 DEF TrackerBounded
    <3> QED BY Zenon, <3>1, <3>2
  <2> QED BY Zenon, <2>3, <2>4, <2>5
<1>13. DOMAIN attempts' \subseteq Keys
  BY Zenon, <1>3, <1>6
<1> QED
  BY Zenon, <1>8, <1>9, <1>10, <1>11, <1>12, <1>13

(* A request that takes a slot or frees one changes the count by one.      *)
LEMMA SlotCount ==
  ASSUME LimiterIInv, NEW q \in Logins, NEW next \in Places, place' = [place EXCEPT ![q] = next],
         slots' = slots + (IF next \in HasSlot THEN 1 ELSE 0) - (IF place[q] \in HasSlot THEN 1 ELSE 0)
  PROVE  SlotsBelongToLogins' /\ slots' \in Nat
<1> DEFINE S == {p \in Logins : place[p] \in HasSlot}
           T == {p \in Logins : place'[p] \in HasSlot}
<1>1. IsFiniteSet(S) /\ slots = Cardinality(S) /\ place \in [Logins -> Places] /\ slots \in Nat
  <2>1. S \subseteq Logins
    BY Zenon
  <2>2. slots = Cardinality(S) /\ place \in [Logins -> Places]
    BY Zenon DEF LimiterIInv, LimiterInv, LimiterTypeOK, SlotsBelongToLogins
  <2>3. IsFiniteSet(Logins)
    BY Zenon, LimiterAssumption
  <2> HIDE DEF S
  <2> QED BY Zenon, <2>1, <2>2, <2>3, FS_Subset, FS_CardinalityType
<1>2. \A p \in Logins : place'[p] = IF p = q THEN next ELSE place[p]
  BY Zenon, <1>1
<1>3. T = IF next \in HasSlot THEN S \cup {q} ELSE S \ {q}
  BY Zenon, <1>2
<1>4. q \in S <=> place[q] \in HasSlot
  BY Zenon
<1>5. SlotsBelongToLogins' <=> slots' = Cardinality(T)
  BY Zenon DEF SlotsBelongToLogins
<1> HIDE DEF S, T
<1>6. /\ Cardinality(S \cup {q}) = IF q \in S THEN Cardinality(S) ELSE Cardinality(S) + 1
      /\ Cardinality(S \ {q}) = IF q \in S THEN Cardinality(S) - 1 ELSE Cardinality(S)
      /\ Cardinality(S \cup {q}) \in Nat /\ Cardinality(S \ {q}) \in Nat
  BY Zenon, <1>1, FS_AddElement, FS_RemoveElement, FS_CardinalityType
<1>7. slots' = Cardinality(T) /\ slots' \in Nat
  BY <1>1, <1>3, <1>4, <1>6
<1> QED
  BY Zenon, <1>5, <1>7

(* A step that leaves the table alone.                                     *)
LEMMA TableStays ==
  ASSUME LimiterIInv, time' = time, attempts' = attempts, streak' = streak, lastFail' = lastFail,
         NEW q \in Logins, NEW next \in Places, place' = [place EXCEPT ![q] = next],
         NEW k \in Keys \cup {NoKey}, key' = [key EXCEPT ![q] = k], next # "idle" => k \in Keys,
         slots' = slots + (IF next \in HasSlot THEN 1 ELSE 0) - (IF place[q] \in HasSlot THEN 1 ELSE 0),
         slots' <= Slots
  PROVE  LimiterIInv'
<1>1. SlotsBelongToLogins' /\ slots' \in 0..Slots
  <2>1. SlotsBelongToLogins' /\ slots' \in Nat
    BY Zenon, SlotCount
  <2> QED BY <2>1, LimiterAssumption
<1>2. LimiterTypeOK /\ TrackerBounded /\ BackoffAccumulates /\ IsFiniteSet(DOMAIN attempts)
      /\ (\A x \in DOMAIN attempts : streak[x] > 0)
      /\ \A p \in Logins : place[p] # "idle" => key[p] \in Keys
  BY Zenon DEF LimiterIInv, LimiterInv
<1>3. LimiterTypeOK'
  BY Zenon, <1>1, <1>2 DEF LimiterTypeOK
<1>4. TrackerBounded' /\ BackoffAccumulates' /\ IsFiniteSet(DOMAIN attempts)'
      /\ \A x \in DOMAIN attempts' : streak'[x] > 0
  BY Zenon, <1>2 DEF TrackerBounded, BackoffAccumulates
<1>5. \A p \in Logins : place'[p] # "idle" => key'[p] \in Keys
  BY Zenon, <1>2 DEF LimiterTypeOK
<1> QED
  BY Zenon, <1>1, <1>3, <1>4, <1>5 DEF LimiterIInv, LimiterInv

(* Every step of the login handler and of time preserves it.               *)
LEMMA LimiterNextIInv == LimiterIInv /\ [LimiterNext]_limiterVars => LimiterIInv'
<1> SUFFICES ASSUME LimiterIInv, [LimiterNext]_limiterVars PROVE LimiterIInv'
  BY Zenon
<1> USE LimiterAssumption
<1>0. /\ LimiterTypeOK /\ TrackerBounded /\ BackoffAccumulates /\ SlotsBelongToLogins
      /\ IsFiniteSet(DOMAIN attempts)
      /\ (\A x \in DOMAIN attempts : streak[x] > 0)
      /\ \A p \in Logins : place[p] # "idle" => key[p] \in Keys
  BY Zenon DEF LimiterIInv, LimiterInv
<1>t. /\ time \in Nat /\ place \in [Logins -> Places] /\ key \in [Logins -> Keys \cup {NoKey}]
      /\ slots \in 0..Slots /\ streak \in [Keys -> Nat]
      /\ Slots \in Nat
  BY Zenon, <1>0 DEF LimiterTypeOK
<1>s. \A next \in Places :
        (next \in HasSlot <=> next \notin {"idle", "checked"})
  BY Zenon DEF HasSlot, Places
<1>1. CASE UNCHANGED limiterVars
  BY Zenon, <1>0, <1>1 DEF limiterVars, LimiterIInv, LimiterInv, LimiterTypeOK, TrackerBounded,
       BackoffAccumulates, SlotsBelongToLogins
<1>2. CASE LimiterTick
  <2>1. time' \in Nat /\ time <= time' /\ 0..time \subseteq 0..time'
    BY <1>t, <1>2 DEF LimiterTick
  <2>2. \A x \in DOMAIN attempts :
          attempts[x] \in [failures : Nat \ {0}, next : Int, updated : 0..time']
    BY Zenon, <1>0, <2>1 DEF LimiterTypeOK
  <2>3. /\ attempts' = attempts /\ slots' = slots /\ place' = place /\ key' = key /\ streak' = streak
        /\ lastFail' = lastFail
    BY Zenon, <1>2 DEF LimiterTick
  <2> QED BY Zenon, <1>0, <2>1, <2>2, <2>3 DEF LimiterIInv, LimiterInv, LimiterTypeOK, TrackerBounded,
                BackoffAccumulates, SlotsBelongToLogins
<1>3. ASSUME NEW q \in Logins, NEW k \in Keys, Malformed(q, k) PROVE LimiterIInv'
  <2>1. /\ failure(k) /\ time' = time /\ slots' = slots /\ place' = place /\ key' = key
    BY Zenon, <1>3 DEF Malformed
  <2>2. /\ DOMAIN attempts' \subseteq Keys
        /\ \A x \in DOMAIN attempts' :
             attempts'[x] \in [failures : Nat \ {0}, next : Int, updated : 0..time]
        /\ streak' \in [Keys -> Nat] /\ lastFail' \in [Keys -> Nat]
        /\ TrackerBounded' /\ BackoffAccumulates'
        /\ IsFiniteSet(DOMAIN attempts)' /\ \A x \in DOMAIN attempts' : streak'[x] > 0
    BY Zenon, <2>1, LimiterFailure
  <2> QED BY Zenon, <1>0, <2>1, <2>2 DEF LimiterIInv, LimiterInv, LimiterTypeOK, SlotsBelongToLogins
<1>4. ASSUME NEW q \in Logins, CountFailure(q) PROVE LimiterIInv'
  <2>1. /\ place[q] = "failed" /\ key[q] \in Keys /\ failure(key[q]) /\ time' = time /\ slots' = slots
        /\ place' = [place EXCEPT ![q] = "leaving"] /\ key' = key
    BY Zenon, <1>0, <1>4 DEF CountFailure, Goto
  <2>2. PICK k : k = key[q] /\ failure(k)
    BY Zenon, <2>1 DEF failure, Victims, Failures
  <2>3. k \in Keys
    BY Zenon, <2>1, <2>2
  <2>4. /\ DOMAIN attempts' \subseteq Keys
        /\ \A x \in DOMAIN attempts' :
             attempts'[x] \in [failures : Nat \ {0}, next : Int, updated : 0..time]
        /\ streak' \in [Keys -> Nat] /\ lastFail' \in [Keys -> Nat]
        /\ TrackerBounded' /\ BackoffAccumulates'
        /\ IsFiniteSet(DOMAIN attempts)' /\ \A x \in DOMAIN attempts' : streak'[x] > 0
    BY Zenon, <2>1, <2>2, <2>3, LimiterFailure
  <2>5. "leaving" \in Places /\ "leaving" \in HasSlot /\ place[q] \in HasSlot
    BY Zenon, <2>1 DEF Places, HasSlot
  <2>6. SlotsBelongToLogins'
    <3>1. slots' = slots + (IF "leaving" \in HasSlot THEN 1 ELSE 0) - (IF place[q] \in HasSlot THEN 1 ELSE 0)
      BY <1>t, <2>1, <2>5
    <3> QED BY Zenon, <2>1, <2>5, <3>1, SlotCount
  <2>7. /\ place' \in [Logins -> Places]
        /\ \A p \in Logins : place'[p] # "idle" => key'[p] \in Keys
    BY Zenon, <1>0, <1>t, <2>1, <2>5
  <2> QED BY Zenon, <1>0, <2>1, <2>4, <2>6, <2>7 DEF LimiterIInv, LimiterInv, LimiterTypeOK
<1>5. ASSUME NEW q \in Logins, success(q) PROVE LimiterIInv'
  <2>1. /\ place[q] = "accepted" /\ key[q] \in Keys /\ time' = time /\ slots' = slots
        /\ place' = [place EXCEPT ![q] = "leaving"] /\ key' = key /\ lastFail' = lastFail
        /\ attempts' = [x \in DOMAIN attempts \ {key[q]} |-> attempts[x]]
        /\ streak' = [streak EXCEPT ![key[q]] = 0]
    BY Zenon, <1>0, <1>5 DEF success, Goto
  <2>2. "leaving" \in Places /\ "leaving" \in HasSlot /\ place[q] \in HasSlot
    BY Zenon, <2>1 DEF Places, HasSlot
  <2>3. SlotsBelongToLogins'
    <3>1. slots' = slots + (IF "leaving" \in HasSlot THEN 1 ELSE 0) - (IF place[q] \in HasSlot THEN 1 ELSE 0)
      BY <1>t, <2>1, <2>2
    <3> QED BY Zenon, <2>1, <2>2, <3>1, SlotCount
  <2>4. /\ place' \in [Logins -> Places]
        /\ \A p \in Logins : place'[p] # "idle" => key'[p] \in Keys
    BY Zenon, <1>0, <1>t, <2>1, <2>2
  <2>5. /\ DOMAIN attempts' = DOMAIN attempts \ {key[q]}
        /\ \A x \in DOMAIN attempts' : attempts'[x] = attempts[x]
        /\ streak' \in [Keys -> Nat] /\ streak'[key[q]] = 0
        /\ \A x \in Keys \ {key[q]} : streak'[x] = streak[x]
    BY <1>t, <2>1
  <2>6. IsFiniteSet(DOMAIN attempts') /\ Cardinality(DOMAIN attempts') <= MaxTrackedAttempts
    <3>1. /\ IsFiniteSet(DOMAIN attempts') /\ Cardinality(DOMAIN attempts') <= Cardinality(DOMAIN attempts)
          /\ Cardinality(DOMAIN attempts) \in Nat /\ Cardinality(DOMAIN attempts') \in Nat
      BY Zenon, <1>0, <2>5, FS_Subset, FS_CardinalityType
    <3> QED BY <1>0, <3>1 DEF TrackerBounded
  <2>7. BackoffAccumulates'
    <3> SUFFICES ASSUME NEW x \in Keys, streak'[x] > 0
                 PROVE  /\ x \in DOMAIN attempts'
                        /\ attempts'[x].failures = streak'[x]
                        /\ attempts'[x].next = lastFail'[x] + 2 ^ Smaller(streak'[x] - 1, MaxShift)
      BY Zenon DEF BackoffAccumulates
    <3>1. x # key[q]
      BY <2>5
    <3> QED BY ZenonT(30), <1>0, <2>1, <2>5, <3>1 DEF BackoffAccumulates
  <2>8. /\ DOMAIN attempts' \subseteq Keys
        /\ \A x \in DOMAIN attempts' : streak'[x] > 0
    BY Zenon, <1>0, <2>5 DEF LimiterTypeOK
  <2> QED BY Zenon, <1>0, <2>1, <2>3, <2>4, <2>5, <2>6, <2>7, <2>8
          DEF LimiterIInv, LimiterInv, LimiterTypeOK, TrackerBounded
<1>6. ASSUME NEW q \in Logins, NEW k \in Keys, DelayPassed(q, k) PROVE LimiterIInv'
  <2>1. /\ place[q] = "idle" /\ place' = [place EXCEPT ![q] = "checked"] /\ key' = [key EXCEPT ![q] = k]
        /\ time' = time /\ attempts' = attempts /\ streak' = streak /\ lastFail' = lastFail /\ slots' = slots
    BY Zenon, <1>6 DEF DelayPassed, Goto
  <2>2. "checked" \in Places /\ "checked" \notin HasSlot /\ place[q] \notin HasSlot
    BY Zenon, <2>1 DEF Places, HasSlot
  <2>3. /\ slots' = slots + (IF "checked" \in HasSlot THEN 1 ELSE 0) - (IF place[q] \in HasSlot THEN 1 ELSE 0)
        /\ slots' <= Slots
    BY <1>t, <2>1, <2>2
  <2> QED BY Zenon, <2>1, <2>2, <2>3, TableStays
<1>7. ASSUME NEW q \in Logins, TakeSlot(q) PROVE LimiterIInv'
  <2>1. /\ place[q] = "checked" /\ place' = [place EXCEPT ![q] = "slot"] /\ key' = [key EXCEPT ![q] = key[q]]
        /\ key[q] \in Keys /\ slots < Slots
        /\ time' = time /\ attempts' = attempts /\ streak' = streak /\ lastFail' = lastFail /\ slots' = slots + 1
    BY Zenon, <1>0, <1>t, <1>7 DEF TakeSlot, Goto
  <2>2. "slot" \in Places /\ "slot" \in HasSlot /\ place[q] \notin HasSlot
    BY Zenon, <2>1 DEF Places, HasSlot
  <2>3. /\ slots' = slots + (IF "slot" \in HasSlot THEN 1 ELSE 0) - (IF place[q] \in HasSlot THEN 1 ELSE 0)
        /\ slots' <= Slots
    BY <1>t, <2>1, <2>2
  <2> QED BY Zenon, <2>1, <2>2, <2>3, TableStays
<1>8. ASSUME NEW q \in Logins, NoSlot(q) \/ Leave(q) PROVE LimiterIInv'
  <2>1. /\ place[q] \in {"checked", "leaving"} /\ place' = [place EXCEPT ![q] = "idle"]
        /\ key' = [key EXCEPT ![q] = NoKey]
        /\ time' = time /\ attempts' = attempts /\ streak' = streak /\ lastFail' = lastFail
        /\ place[q] = "checked" => slots' = slots
        /\ place[q] = "leaving" => slots' = slots - 1
    BY Zenon, <1>8 DEF NoSlot, Leave, Goto
  <2>2. "idle" \in Places /\ "idle" \notin HasSlot /\ (place[q] \in HasSlot <=> place[q] = "leaving")
    BY Zenon, <2>1 DEF Places, HasSlot
  <2>3. /\ slots' = slots + (IF "idle" \in HasSlot THEN 1 ELSE 0) - (IF place[q] \in HasSlot THEN 1 ELSE 0)
        /\ slots' <= Slots
    BY <1>t, <2>1, <2>2
  <2>4. NoKey \in Keys \cup {NoKey}
    BY Zenon
  <2> QED BY Zenon, <2>1, <2>2, <2>3, <2>4, TableStays
<1>9. ASSUME NEW q \in Logins, Rejected(q) \/ Accepted(q) \/ CreateFailed(q) PROVE LimiterIInv'
  <2>1. PICK next \in {"failed", "accepted", "leaving"} :
        /\ place[q] \in {"slot", "accepted"} /\ place' = [place EXCEPT ![q] = next]
        /\ key' = [key EXCEPT ![q] = key[q]] /\ key[q] \in Keys /\ slots' = slots
        /\ time' = time /\ attempts' = attempts /\ streak' = streak /\ lastFail' = lastFail
    BY Zenon, <1>0, <1>t, <1>9 DEF Rejected, Accepted, CreateFailed, Goto
  <2>2. next \in Places /\ next \in HasSlot /\ place[q] \in HasSlot
    BY Zenon, <2>1 DEF Places, HasSlot
  <2>3. /\ slots' = slots + (IF next \in HasSlot THEN 1 ELSE 0) - (IF place[q] \in HasSlot THEN 1 ELSE 0)
        /\ slots' <= Slots
    BY <1>t, <2>1, <2>2
  <2> QED BY Zenon, <2>1, <2>2, <2>3, TableStays
<1> QED
  BY Zenon, <1>1, <1>2, <1>3, <1>4, <1>5, <1>6, <1>7, <1>8, <1>9 DEF LimiterNext

(* The limiter starts empty, with every slot free.                         *)
LEMMA LimiterInitIInv == LimiterInit => LimiterIInv
<1> SUFFICES ASSUME LimiterInit PROVE LimiterIInv
  BY Zenon
<1>1. DOMAIN attempts = {} /\ \A q \in Logins : place[q] = "idle"
  BY Zenon DEF LimiterInit
<1>2. {q \in Logins : place[q] \in HasSlot} = {}
  BY Zenon, <1>1 DEF HasSlot
<1>3. IsFiniteSet(DOMAIN attempts) /\ Cardinality(DOMAIN attempts) = 0
      /\ Cardinality({q \in Logins : place[q] \in HasSlot}) = 0
  BY Zenon, <1>1, <1>2, FS_EmptySet
<1>4. LimiterTypeOK
  BY <1>1, LimiterAssumption DEF LimiterInit, LimiterTypeOK, Places
<1>5. TrackerBounded /\ SlotsBelongToLogins
  BY <1>3, LimiterAssumption DEF LimiterInit, TrackerBounded, SlotsBelongToLogins
<1>6. BackoffAccumulates
  BY DEF LimiterInit, BackoffAccumulates
<1> QED
  BY Zenon, <1>1, <1>3, <1>4, <1>5, <1>6 DEF LimiterIInv, LimiterInv

(* The bounds are kept and no slot leaks, and a key's failures are all     *)
(* remembered until a success or an eviction, which takes stale keys and   *)
(* otherwise the one that failed least recently: for any number of         *)
(* concurrent logins, any table size and any number of slots.              *)
THEOREM LimiterKeepsItsRules == LimiterSpec => LimiterRules
<1> DEFINE Evicts ==
      \A x \in DOMAIN attempts \ DOMAIN attempts' :
        \/ \E q \in Logins : place[q] = "accepted" /\ key[q] = x
        \/ attempts[x].updated < time - StaleAfter
        \/ /\ Cardinality(DOMAIN attempts) >= MaxTrackedAttempts
           /\ \A y \in DOMAIN attempts : attempts[x].updated <= attempts[y].updated
<1>1. ASSUME LimiterIInv, [LimiterNext]_limiterVars PROVE Evicts
  <2>0. LimiterTypeOK /\ IsFiniteSet(DOMAIN attempts) /\ TrackerBounded
    BY Zenon, <1>1 DEF LimiterIInv, LimiterInv
  <2>1. ASSUME NEW k \in Keys, failure(k) PROVE Evicts
    <3> DEFINE stale == {x \in DOMAIN attempts : attempts[x].updated < time - StaleAfter}
               rest == DOMAIN attempts \ stale
               oldest == {x \in rest : \A y \in rest : attempts[x].updated <= attempts[y].updated}
    <3>1. PICK gone \in Victims(k) : DOMAIN attempts' = (DOMAIN attempts \ gone) \cup {k}
      BY Zenon, <2>1 DEF failure
    <3>2. CASE gone = {} \/ gone = stale
      BY Zenon, <3>1, <3>2
    <3>3. ASSUME NEW old \in oldest, gone = stale \cup {old},
                 ~(Cardinality(DOMAIN attempts) < MaxTrackedAttempts),
                 ~(Cardinality(rest) < MaxTrackedAttempts)
          PROVE  Evicts
      <4>1. SUFFICES ASSUME NEW x \in DOMAIN attempts \ DOMAIN attempts',
                            ~(attempts[x].updated < time - StaleAfter)
                     PROVE  /\ Cardinality(DOMAIN attempts) >= MaxTrackedAttempts
                            /\ \A y \in DOMAIN attempts : attempts[x].updated <= attempts[y].updated
        BY Zenon
      <4>2. x = old
        BY Zenon, <3>1, <3>3, <4>1
      <4>3. Cardinality(DOMAIN attempts) >= MaxTrackedAttempts
        <5>1. Cardinality(DOMAIN attempts) \in Nat
          BY Zenon, <2>0, FS_CardinalityType
        <5> QED BY <3>3, <5>1, LimiterAssumption
      <4>4. rest = DOMAIN attempts
        <5>1. /\ Cardinality(DOMAIN attempts) \in Nat /\ Cardinality(rest) \in Nat
              /\ Cardinality(rest) <= Cardinality(DOMAIN attempts)
              /\ Cardinality(DOMAIN attempts) = Cardinality(rest) => DOMAIN attempts = rest
          <6>1. rest \in SUBSET DOMAIN attempts
            BY Zenon
          <6> HIDE DEF rest
          <6> QED BY Zenon, <2>0, <6>1, FS_Subset, FS_CardinalityType
        <5> HIDE DEF rest
        <5> QED BY <2>0, <3>3, <5>1, LimiterAssumption DEF TrackerBounded
      <4>5. \A y \in DOMAIN attempts : attempts[x].updated <= attempts[y].updated
        BY Zenon, <3>3, <4>2, <4>4
      <4> QED BY Zenon, <4>3, <4>5
    <3> QED
      BY Zenon, <3>1, <3>2, <3>3 DEF Victims
  <2>2. ASSUME NEW q \in Logins, CountFailure(q) PROVE Evicts
    <3>1. key[q] \in Keys /\ failure(key[q])
      BY Zenon, <1>1, <2>2 DEF LimiterIInv, CountFailure
    <3>2. PICK k : k = key[q] /\ failure(k)
      BY Zenon, <3>1 DEF failure, Victims, Failures
    <3> QED BY Zenon, <2>1, <3>1, <3>2
  <2>3. ASSUME NEW q \in Logins, success(q) PROVE Evicts
    BY Zenon, <2>3 DEF success
  <2>4. CASE attempts' = attempts
    BY Zenon, <2>4
  <2> HIDE DEF Evicts
  <2> QED
    BY Zenon, <1>1, <2>1, <2>2, <2>3, <2>4
    DEF LimiterNext, limiterVars, LimiterTick, Malformed, DelayPassed, TakeSlot, NoSlot, Rejected,
        Accepted, CreateFailed, Leave
<1>2. LimiterIInv /\ [LimiterNext]_limiterVars => [Evicts]_limiterVars
  BY Zenon, <1>1
<1>3. LimiterIInv => LimiterInv
  BY Zenon DEF LimiterIInv
<1> QED
  BY <1>2, <1>3, LimiterInitIInv, LimiterNextIInv, PTL
  DEF LimiterSpec, LimiterRules, EvictsLeastRecentlyFailed

------------------------------------------------------------------------------
(* Requests                                                                *)

(* What authorize and the registry have established by the time a request  *)
(* is at a place.  held has the present groups, if they let the account    *)
(* log in, because an account's changes are noted while its request is     *)
(* under way.                                                              *)
Established(r) ==
  /\ at[r] # "idle" /\ MayLogIn(account[r]) => groups[account[r]] \in held[r]
  /\ at[r] \in {"dispatch", "lock", "run"} =>
       \E g \in held[r] : "login" \in g /\ (admin[r] => "admin" \in g)
  /\ at[r] \in {"lock", "run"} => (op[r].admin => admin[r])
  /\ at[r] = "lock" => op[r].locks

RequestTypes ==
  /\ DOMAIN groups \subseteq Accounts
  /\ groups \in [DOMAIN groups -> SUBSET Groups]
  /\ loggedIn \subseteq Accounts
  /\ at \in [Requests -> {"idle", "session", "account", "groups", "dispatch", "lock", "run"}]
  /\ account \in [Requests -> Accounts]
  /\ op \in [Requests -> Operations]
  /\ admin \in [Requests -> BOOLEAN]
  /\ held \in [Requests -> SUBSET SUBSET Groups]

LockOwner ==
  owner \in [{Resource} -> {r \in Requests : at[r] = "run" /\ op[r].locks} \cup {NoOwner}]

RequestIInv == RequestTypes /\ LockOwner /\ \A r \in Requests : Established(r)

(* At first no request is under way.                                       *)
LEMMA RequestInitInv == RequestInit => RequestIInv
  BY DEF RequestInit, RequestIInv, RequestTypes, LockOwner, Established, Groups, Lock!Init, MayLogIn

(* A membership that authorize read is in held from then on; no step but   *)
(* the request's own takes it back.                                        *)
LEMMA RequestNextInv ==
  ASSUME RequestIInv, [RequestNext]_requestVars
  PROVE  RequestIInv'
<1> USE DEF RequestIInv, RequestTypes, Groups, LockOwner, Established, MayLogIn
<1>1. ASSUME NEW a \in Accounts, NEW g \in SUBSET Groups, ChangeGroups(a, g) PROVE RequestIInv'
  BY <1>1, SMTT(30) DEF ChangeGroups, Note, LettingIn
<1>2. ASSUME NEW a \in Accounts, RemoveAccount(a) PROVE RequestIInv'
  BY <1>2 DEF RemoveAccount
<1>3. ASSUME NEW a \in Accounts, login(a) PROVE RequestIInv'
  BY <1>3 DEF login
<1>4. ASSUME NEW a \in Accounts, EndSession(a) PROVE RequestIInv'
  BY <1>4, SMTT(30) DEF EndSession
<1>5. ASSUME NEW r \in Requests, NEW a \in Accounts, NEW o \in Operations, Arrive(r, a, o) PROVE RequestIInv'
  BY <1>5 DEF Arrive, MembershipsNow, LettingIn, MoveTo
<1>6. ASSUME NEW r \in Requests, SessionFound(r) PROVE RequestIInv'
  BY <1>6 DEF SessionFound, MoveTo
<1>7. ASSUME NEW r \in Requests, SessionMissing(r) PROVE RequestIInv'
  BY <1>7 DEF SessionMissing, Refuse, MoveTo
<1>8. ASSUME NEW r \in Requests, AccountFound(r) PROVE RequestIInv'
  BY <1>8 DEF AccountFound, MoveTo
<1>9. ASSUME NEW r \in Requests, AccountMissing(r) PROVE RequestIInv'
  BY <1>9 DEF AccountMissing, Refuse, MoveTo
<1>10. ASSUME NEW r \in Requests, GroupsRead(r) PROVE RequestIInv'
  <2>1. RequestTypes' /\ LockOwner'
    BY <1>10 DEF GroupsRead, MoveTo
  <2>2. \A s \in Requests : Established(s)'
    BY Zenon, <1>10 DEF GroupsRead, MoveTo
  <2> QED
    BY <2>1, <2>2
<1>11. ASSUME NEW r \in Requests, GroupsRefused(r) PROVE RequestIInv'
  BY <1>11 DEF GroupsRefused, Refuse, MoveTo
<1>12. ASSUME NEW r \in Requests, Dispatch(r) PROVE RequestIInv'
  BY <1>12 DEF Dispatch, MoveTo
<1>13. ASSUME NEW r \in Requests, DispatchRefused(r) PROVE RequestIInv'
  BY <1>13 DEF DispatchRefused, Refuse, MoveTo
<1>14. ASSUME NEW r \in Requests, LockTaken(r) PROVE RequestIInv'
  BY <1>14 DEF LockTaken, MoveTo, Lock!Take
<1>15. ASSUME NEW r \in Requests, LockRefused(r) PROVE RequestIInv'
  BY <1>15 DEF LockRefused, Refuse, MoveTo
<1>16. ASSUME NEW r \in Requests, HandlerReturns(r) PROVE RequestIInv'
  BY <1>16 DEF HandlerReturns, MoveTo, Lock!Give
<1>17. CASE UNCHANGED requestVars
  BY <1>17 DEF requestVars
<1> QED
  BY Zenon, <1>1, <1>2, <1>3, <1>4, <1>5, <1>6, <1>7, <1>8, <1>9, <1>10, <1>11, <1>12, <1>13,
     <1>14, <1>15, <1>16, <1>17
  DEF RequestNext, RequestStep

(* Whatever handler runs, its account was in the login group and, where    *)
(* the operation asks for it, in the admin group, at one moment since the  *)
(* request arrived; and the lock's owner is an action that runs.           *)
THEOREM OnlyTheAllowedRun == RequestSpec => []RequestInv
<1>1. RequestIInv => RequestInv
  BY DEF RequestIInv, RequestInv, RequestTypeOK, RequestTypes, LockOwner, Established, MembershipWasHeld
<1> QED
  BY <1>1, RequestInitInv, RequestNextInv, PTL DEF RequestSpec

------------------------------------------------------------------------------
(* The job history                                                         *)

(* A set of numbers that is not empty has a least element.                 *)
LEMMA LeastNumber ==
  ASSUME NEW S \in SUBSET Nat, S # {}
  PROVE  \E m \in S : \A k \in S : m <= k
<1>1. PICK m \in S : \A k \in S : ~(<<k, m>> \in OpToRel(<, Nat))
  BY NatLessThanWellFounded, WFMin, Zenon
<1>2. \A k \in S : ~(k < m)
  BY <1>1, Zenon DEF OpToRel
<1> QED
  BY <1>2

(* The parts of a bucket with numbers as keys are finite.                  *)
LEMMA BucketFinite ==
  ASSUME NEW n \in Nat, NEW S \in SUBSET (1..n)
  PROVE  IsFiniteSet(S) /\ Cardinality(S) \in Nat
<1>1. IsFiniteSet(1..n)
  BY FS_Interval
<1>2. IsFiniteSet(S)
  BY <1>1, FS_Subset, Zenon
<1> QED
  BY <1>2, FS_CardinalityType

(* What a transaction leaves of the bucket it has made.                    *)
Trimmed(before, after) ==
  /\ DOMAIN after \subseteq DOMAIN before
  /\ \A i \in DOMAIN after : after[i] = before[i]
  /\ \A i \in DOMAIN before : before[i].status \in Active => i \in DOMAIN after
  /\ Cardinality(DOMAIN after) > MaxRecords + 1 => Inactive(after) = {}

(* trimOldest takes only inactive jobs, and if it leaves one it has taken  *)
(* as many as the count it was given was too large.                        *)
LEMMA TrimOldestTrims ==
  ASSUME MaxRecords \in Nat, NEW n \in Nat, NEW js, DOMAIN js \subseteq 1..n,
         NEW count \in Nat, count >= Cardinality(DOMAIN js) - 1
  PROVE  Trimmed(js, trimOldest(js, count))
<1> DEFINE Older(i) == {j \in Inactive(js) : j < i}
           gone == {i \in Inactive(js) : Cardinality(Older(i)) < count - MaxRecords}
           left == Inactive(js) \ gone
           kept == trimOldest(js, count)
<1>1. kept = [i \in DOMAIN js \ gone |-> js[i]]
  BY DEF trimOldest
<1>2. gone \subseteq DOMAIN js /\ left \subseteq DOMAIN js /\ DOMAIN js \subseteq 1..n
  BY DEF Inactive
<1>3. \A i \in gone : js[i].status \notin Active
  BY DEF Inactive
<1>4. Inactive(kept) = left
  BY <1>1 DEF Inactive
<1>5. ASSUME left # {}
      PROVE  Cardinality(DOMAIN kept) <= MaxRecords + 1
  <2>1. PICK m \in left : \A k \in left : m <= k
    <3>1. left \in SUBSET Nat
      BY <1>2
    <3> HIDE DEF left
    <3> QED
      BY <1>5, <3>1, LeastNumber
  <2>2. Older(m) \subseteq gone
    <3> SUFFICES ASSUME NEW j \in Inactive(js), j < m, j \notin gone PROVE FALSE
      OBVIOUS
    <3>1. m <= j
      BY <2>1
    <3>2. m \in Nat /\ j \in Nat
      BY <1>2 DEF Inactive
    <3> QED
      BY <3>1, <3>2
  <2>3. ~(Cardinality(Older(m)) < count - MaxRecords)
    BY <2>1
  <2> HIDE DEF Older
  <2>4. gone \subseteq 1..n /\ Older(m) \subseteq 1..n
    BY <1>2, <2>2
  <2> HIDE DEF gone
  <2>5. /\ Cardinality(gone) \in Nat /\ Cardinality(Older(m)) \in Nat
        /\ Cardinality(DOMAIN js) \in Nat /\ IsFiniteSet(gone) /\ IsFiniteSet(DOMAIN js)
    BY <1>2, <2>4, BucketFinite, Zenon
  <2>6. Cardinality(Older(m)) <= Cardinality(gone)
    BY <2>2, <2>5, FS_Subset
  <2>7. Cardinality(DOMAIN js \ gone) = Cardinality(DOMAIN js) - Cardinality(gone)
    BY <1>2, <2>5, FS_Difference, DOMAIN js \cap gone = gone, Zenon
  <2> QED
    BY <1>1, <2>3, <2>5, <2>6, <2>7
<1>6. Cardinality(DOMAIN kept) \in Nat
  BY <1>1, <1>2, BucketFinite, Zenon
<1> HIDE DEF gone
<1> QED
  BY <1>1, <1>2, <1>3, <1>4, <1>5, <1>6 DEF Trimmed

(* Whether or not the statistics count a job that the transaction has put. *)
LEMMA CommitTrims ==
  ASSUME MaxRecords \in Nat, NEW n \in Nat, NEW after, DOMAIN after \subseteq 1..n,
         NEW x, DOMAIN jobs \subseteq DOMAIN after, DOMAIN after \subseteq DOMAIN jobs \cup {x},
         Commit(after)
  PROVE  Trimmed(after, jobs')
<1>1. PICK count \in KeyN(jobs, after) : jobs' = trimOldest(after, count)
  BY DEF Commit
<1>2. IsFiniteSet(DOMAIN jobs) /\ IsFiniteSet(DOMAIN after) /\ Cardinality(DOMAIN jobs) \in Nat
  <2>1. DOMAIN jobs \subseteq 1..n
    OBVIOUS
  <2> QED
    BY <2>1, BucketFinite, Zenon
<1>3. Cardinality(DOMAIN after) \in Nat
  BY BucketFinite, Zenon
<1>4. /\ Cardinality(DOMAIN after) <= Cardinality(DOMAIN jobs \cup {x})
      /\ Cardinality(DOMAIN jobs \cup {x}) <= Cardinality(DOMAIN jobs) + 1
  <2>1. /\ IsFiniteSet(DOMAIN jobs \cup {x})
        /\ Cardinality(DOMAIN jobs \cup {x}) =
             IF x \in DOMAIN jobs THEN Cardinality(DOMAIN jobs) ELSE Cardinality(DOMAIN jobs) + 1
    BY <1>2, FS_AddElement, SMTT(30), Zenon, SMTT(60)
  <2> QED
    BY <1>2, <2>1, FS_Subset, SMTT(30), Zenon, SMTT(60)
<1>5. Cardinality(DOMAIN jobs \cup {x}) \in Nat
  BY <1>2, FS_AddElement, FS_CardinalityType
<1>6. count \in Nat /\ count >= Cardinality(DOMAIN after) - 1
  BY <1>1, <1>2, <1>3, <1>4, <1>5 DEF KeyN
<1> QED
  BY <1>1, <1>6, TrimOldestTrims

(* A process that is not running has no job to complete.                   *)
JobIInv == JobInv /\ (~open => live = {})

(* The bucket is empty.                                                    *)
LEMMA JobInitInv ==
  ASSUME JobsAssumption, JobInit
  PROVE  JobIInv
<1>1. DOMAIN jobs = {}
  BY DEF JobInit
<1>2. Inactive(jobs) = {}
  BY <1>1, SMTT(30), Zenon, SMTT(60) DEF Inactive
<1> QED
  BY <1>1, <1>2, Zenon
  DEF JobInit, JobIInv, JobInv, JobTypeOK, LiveJobKept, InterruptedMarkedUnknown, RetentionBound,
      RebootNotInvented, RebootRequiredSince

(* A transaction keeps what is said of the bucket it has made: a job that  *)
(* it takes is inactive, and one that it leaves is as it was made.         *)
LEMMA CommitInv ==
  ASSUME JobsAssumption, JobIInv, NEW after, Trimmed(after, jobs'),
         sequence' \in Nat, open' \in BOOLEAN, wallClock' = wallClock, installed' \in BOOLEAN,
         live' \subseteq 1..sequence', stuck' \subseteq 1..sequence',
         ~open' => live' = {},
         DOMAIN after \subseteq 1..sequence',
         \A i \in DOMAIN after :
            after[i] \in [status : Active \cup Final, reboot : BOOLEAN, finished : 0..wallClock],
         \A i \in live' : i \in DOMAIN after /\ after[i].status \in Active,
         \A i \in DOMAIN after : after[i].status \in Active => i \in live' \cup stuck',
         \A i \in DOMAIN after :
            after[i].status = "succeeded" /\ after[i].reboot /\ after[i].finished > wallClock - 1
              => installed'
  PROVE  JobIInv'
<1>1. JobTypeOK'
  BY SMTT(30), Zenon, SMTT(60) DEF JobIInv, JobInv, JobTypeOK, Trimmed
<1>2. LiveJobKept' /\ InterruptedMarkedUnknown' /\ RetentionBound'
  BY SMTT(30), Zenon, SMTT(60) DEF LiveJobKept, InterruptedMarkedUnknown, RetentionBound, Trimmed
<1>3. RebootNotInvented'
  BY DEF RebootNotInvented, RebootRequiredSince, Trimmed
<1> QED
  BY <1>1, <1>2, <1>3, SMTT(30), Zenon, SMTT(60) DEF JobIInv, JobInv

(* Enqueue: the new job is active, so it stays.                            *)
LEMMA JobEnqueueInv ==
  ASSUME JobsAssumption, JobIInv, Enqueue
  PROVE  JobIInv'
<1> DEFINE after == [i \in DOMAIN jobs \cup {sequence + 1} |->
                        IF i = sequence + 1 THEN Queued ELSE jobs[i]]
<1>1. /\ sequence \in Nat /\ DOMAIN jobs \subseteq 1..sequence /\ Commit(after)
      /\ sequence' = sequence + 1 /\ live' = live \cup {sequence + 1}
      /\ UNCHANGED <<open, stuck, wallClock, installed>> /\ open
  BY DEF JobIInv, JobInv, JobTypeOK, Enqueue
<1>2. /\ DOMAIN after = DOMAIN jobs \cup {sequence + 1} /\ DOMAIN after \subseteq 1..sequence'
      /\ 1..sequence \subseteq 1..sequence' /\ sequence + 1 \notin DOMAIN jobs
      /\ sequence + 1 \in 1..sequence'
  BY <1>1, SMTT(30), Zenon, SMTT(60)
<1>3. Trimmed(after, jobs')
  BY <1>1, <1>2, CommitTrims, SMTT(30), Zenon, SMTT(60) DEF JobsAssumption
<1>4. /\ \A i \in DOMAIN jobs : after[i] = jobs[i]
      /\ after[sequence + 1] = Queued
  BY <1>2, SMTT(30)
<1>5. Queued \in [status : Active \cup Final, reboot : BOOLEAN, finished : 0..wallClock]
      /\ Queued.status = "queued"
  BY DEF JobIInv, JobInv, JobTypeOK, Queued, Active
<1> HIDE DEF after
<1>6. \A i \in DOMAIN after :
        after[i] \in [status : Active \cup Final, reboot : BOOLEAN, finished : 0..wallClock]
  BY <1>2, <1>4, <1>5, Zenon DEF JobIInv, JobInv, JobTypeOK
<1>7. Queued.status \in Active
  BY <1>5, Zenon DEF Active
<1>8. \A i \in live' : i \in DOMAIN after /\ after[i].status \in Active
  BY <1>1, <1>2, <1>4, <1>7, Zenon DEF JobIInv, JobInv, LiveJobKept
<1>9. \A i \in DOMAIN after : after[i].status \in Active => i \in live' \cup stuck'
  BY <1>1, <1>2, <1>4, Zenon DEF JobIInv, JobInv, InterruptedMarkedUnknown
<1>10. \A i \in DOMAIN after :
         after[i].status = "succeeded" /\ after[i].reboot /\ after[i].finished > wallClock - 1 => installed'
  BY <1>1, <1>2, <1>4, <1>5, Zenon DEF JobIInv, JobInv, RebootNotInvented, RebootRequiredSince
<1>11. /\ sequence' \in Nat /\ open' \in BOOLEAN /\ installed' \in BOOLEAN /\ wallClock' = wallClock
       /\ live' \subseteq 1..sequence' /\ stuck' \subseteq 1..sequence'
       /\ (~open' => live' = {})
  BY <1>1, <1>2 DEF JobIInv, JobInv, JobTypeOK
<1> QED
  BY <1>2, <1>3, <1>6, <1>8, <1>9, <1>10, <1>11, CommitInv, ZenonT(30)

(* The transaction of Start, Complete or Open puts no new key.             *)
LEMMA PutTrims ==
  ASSUME JobsAssumption, JobIInv, NEW after, DOMAIN after = DOMAIN jobs, Commit(after)
  PROVE  Trimmed(after, jobs')
  BY Zenon, CommitTrims DEF JobsAssumption, JobIInv, JobInv, JobTypeOK

(* Start keeps the job active.                                             *)
LEMMA JobStartInv ==
  ASSUME JobsAssumption, JobIInv, NEW id, Start(id)
  PROVE  JobIInv'
<1> DEFINE after == [jobs EXCEPT ![id].status = "running"]
<1>1. DOMAIN after = DOMAIN jobs /\ Commit(after)
  BY DEF Start
<1>2. Trimmed(after, jobs')
  BY <1>1, PutTrims
<1>3. /\ id \in live /\ id \in DOMAIN jobs
      /\ jobs[id] \in [status : Active \cup Final, reboot : BOOLEAN, finished : 0..wallClock]
      /\ UNCHANGED <<sequence, open, live, stuck, wallClock, installed>>
  BY DEF Start, JobIInv, JobInv, JobTypeOK
<1>4. /\ after[id] \in [status : Active \cup Final, reboot : BOOLEAN, finished : 0..wallClock]
      /\ after[id].status = "running"
      /\ \A i \in DOMAIN jobs \ {id} : after[i] = jobs[i]
  BY <1>3 DEF Active
<1> HIDE DEF after
<1>5. \A i \in DOMAIN after :
        after[i] \in [status : Active \cup Final, reboot : BOOLEAN, finished : 0..wallClock]
  BY <1>1, <1>4, Zenon DEF JobIInv, JobInv, JobTypeOK
<1>6. after[id].status \in Active /\ after[id].status # "succeeded"
  BY <1>4 DEF Active
<1>7. \A i \in live' : i \in DOMAIN after /\ after[i].status \in Active
  BY <1>1, <1>3, <1>4, <1>6, Zenon DEF JobIInv, JobInv, LiveJobKept
<1>8. \A i \in DOMAIN after : after[i].status \in Active => i \in live' \cup stuck'
  BY <1>1, <1>3, <1>4, Zenon DEF Start, JobIInv, JobInv, InterruptedMarkedUnknown
<1>9. \A i \in DOMAIN after :
        after[i].status = "succeeded" /\ after[i].reboot /\ after[i].finished > wallClock - 1 => installed'
  BY <1>1, <1>3, <1>4, <1>6, Zenon DEF JobIInv, JobInv, RebootNotInvented, RebootRequiredSince
<1>10. /\ sequence' \in Nat /\ open' \in BOOLEAN /\ installed' \in BOOLEAN /\ wallClock' = wallClock
       /\ live' \subseteq 1..sequence' /\ stuck' \subseteq 1..sequence'
       /\ (~open' => live' = {}) /\ DOMAIN after \subseteq 1..sequence'
  BY <1>1, <1>3, ZenonT(30) DEF JobIInv, JobInv, JobTypeOK
<1> QED
  BY <1>2, <1>5, <1>7, <1>8, <1>9, <1>10, CommitInv, Zenon

(* Complete takes the job from those under way and notes the reboot it     *)
(* asks for.                                                               *)
LEMMA JobCompleteInv ==
  ASSUME JobsAssumption, JobIInv, NEW id, NEW status \in {"succeeded", "failed"}, NEW reboot \in BOOLEAN,
         Complete(id, status, reboot)
  PROVE  JobIInv'
<1> DEFINE after == [jobs EXCEPT ![id] = finishJob(status, reboot)]
<1>1. DOMAIN after = DOMAIN jobs /\ Commit(after)
  BY DEF Complete
<1>2. Trimmed(after, jobs')
  BY <1>1, PutTrims
<1>3. /\ id \in live /\ id \in DOMAIN jobs /\ live' = live \ {id} /\ wallClock \in Nat
      /\ installed' = (installed \/ (status = "succeeded" /\ reboot))
      /\ UNCHANGED <<sequence, open, stuck, wallClock>>
  BY DEF Complete, JobIInv, JobInv, JobTypeOK
<1>4. /\ after[id] \in [status : Active \cup Final, reboot : BOOLEAN, finished : 0..wallClock]
      /\ after[id].status = status /\ after[id].reboot = reboot
      /\ \A i \in DOMAIN jobs \ {id} : after[i] = jobs[i]
  BY <1>3, SMTT(30), Zenon, SMTT(60) DEF Final, finishJob
<1> HIDE DEF after
<1>5. \A i \in DOMAIN after :
        after[i] \in [status : Active \cup Final, reboot : BOOLEAN, finished : 0..wallClock]
  BY <1>1, <1>4, SMTT(30) DEF JobIInv, JobInv, JobTypeOK
<1>6. /\ \A i \in live' : i \in DOMAIN after /\ after[i].status \in Active
      /\ \A i \in DOMAIN after : after[i].status \in Active => i \in live' \cup stuck'
  BY <1>1, <1>3, <1>4 DEF JobIInv, JobInv, LiveJobKept, InterruptedMarkedUnknown, Active, Complete
<1>7. \A i \in DOMAIN after :
        after[i].status = "succeeded" /\ after[i].reboot /\ after[i].finished > wallClock - 1 => installed'
  BY <1>1, <1>3, <1>4, Zenon DEF JobIInv, JobInv, RebootNotInvented, RebootRequiredSince
<1>8. /\ sequence' \in Nat /\ open' \in BOOLEAN /\ installed' \in BOOLEAN
      /\ live' \subseteq 1..sequence' /\ stuck' \subseteq 1..sequence'
      /\ (~open' => live' = {}) /\ DOMAIN after \subseteq 1..sequence'
  BY <1>1, <1>3, Zenon DEF JobIInv, JobInv, JobTypeOK
<1>9. wallClock' = wallClock
  BY <1>3
<1>10. \A i \in live' : i \in DOMAIN after /\ after[i].status \in Active
  BY <1>6, Zenon
<1>11. \A i \in DOMAIN after : after[i].status \in Active => i \in live' \cup stuck'
  BY <1>6, Zenon
<1> QED
  BY <1>2, <1>5, <1>7, <1>8, <1>9, <1>10, <1>11, CommitInv, Zenon

(* Open leaves no job of an earlier process active, and none asks for a    *)
(* reboot that did not.                                                    *)
LEMMA JobOpenInv ==
  ASSUME JobsAssumption, JobIInv, Open
  PROVE  JobIInv'
<1> DEFINE after == [i \in DOMAIN jobs |-> IF jobs[i].status \in Active
                                          THEN finishJob("unknown", FALSE) ELSE jobs[i]]
<1>1. DOMAIN after = DOMAIN jobs /\ Commit(after)
  BY DEF Open
<1>2. Trimmed(after, jobs')
  BY <1>1, PutTrims
<1>3. live = {} /\ open' = TRUE /\ wallClock \in Nat /\ UNCHANGED <<sequence, live, stuck, wallClock, installed>>
  BY DEF Open, JobIInv, JobInv, JobTypeOK
<1>4. /\ finishJob("unknown", FALSE)
           \in [status : Active \cup Final, reboot : BOOLEAN, finished : 0..wallClock]
      /\ finishJob("unknown", FALSE).status = "unknown"
  BY <1>3 DEF Final, finishJob
<1>5. \A i \in DOMAIN jobs :
        /\ after[i] \in [status : Active \cup Final, reboot : BOOLEAN, finished : 0..wallClock]
        /\ after[i].status \notin Active
        /\ after[i].status = "succeeded" => after[i] = jobs[i]
  BY <1>4, Zenon DEF JobIInv, JobInv, JobTypeOK, Active
<1> HIDE DEF after
<1> QED
  BY Zenon, <1>1, <1>2, <1>3, <1>5, CommitInv
  DEF JobIInv, JobInv, JobTypeOK, RebootNotInvented, RebootRequiredSince

(* Every transaction, and every way to stop, keeps IInv.                   *)
LEMMA JobNextInv ==
  ASSUME JobsAssumption, JobIInv, [JobNext]_jobVars
  PROVE  JobIInv'
<1>1. ASSUME NEW id \in live, GiveUp(id) PROVE JobIInv'
  BY <1>1 DEF JobIInv, JobInv, JobTypeOK, LiveJobKept, InterruptedMarkedUnknown, RetentionBound,
              RebootNotInvented, RebootRequiredSince, GiveUp
<1>2. CASE Stop
  BY <1>2, Zenon DEF JobIInv, JobInv, JobTypeOK, LiveJobKept, InterruptedMarkedUnknown, RetentionBound,
              RebootNotInvented, RebootRequiredSince, Stop
<1>3. CASE HostReboot
  <2>1. wallClock \in Nat /\ wallClock' = wallClock + 1 /\ 0..wallClock \subseteq 0..wallClock'
    BY <1>3, SMTT(30) DEF JobIInv, JobInv, JobTypeOK, HostReboot
  <2>2. \A i \in DOMAIN jobs' :
          jobs'[i] \in [status : Active \cup Final, reboot : BOOLEAN, finished : 0..wallClock']
    BY <1>3, <2>1, SMTT(30) DEF JobIInv, JobInv, JobTypeOK, HostReboot
  <2>3. DOMAIN jobs' \subseteq 1..sequence' /\ sequence' \in Nat /\ wallClock' \in Nat
    BY <1>3, <2>1 DEF JobIInv, JobInv, JobTypeOK, HostReboot
  <2>4. live' = {} /\ stuck' = {} /\ open' = FALSE /\ installed' = FALSE
    BY <1>3 DEF HostReboot
  <2>5. JobTypeOK'
    BY <2>2, <2>3, <2>4, Zenon DEF JobTypeOK
  <2>6. RebootNotInvented'
    BY <1>3, SMTT(30), Zenon, SMTT(60) DEF JobIInv, JobInv, JobTypeOK, RebootNotInvented, RebootRequiredSince, HostReboot
  <2> QED
    BY <1>3, <2>5, <2>6, SMTT(30), Zenon, SMTT(60)
    DEF JobIInv, JobInv, LiveJobKept, InterruptedMarkedUnknown, RetentionBound, HostReboot
<1>4. CASE UNCHANGED jobVars
  BY <1>4 DEF JobIInv, JobInv, JobTypeOK, LiveJobKept, InterruptedMarkedUnknown, RetentionBound,
              RebootNotInvented, RebootRequiredSince, jobVars
<1> QED
  BY <1>1, <1>2, <1>3, <1>4, JobEnqueueInv, JobStartInv, JobCompleteInv, JobOpenInv, ZenonT(30) DEF JobNext

(* Every job of the process is in the store in a state from which it can   *)
(* go on, no other job is active, only active jobs go beyond the retention *)
(* bound, and no finished job asks for a reboot that was already made.     *)
THEOREM JobInvariant == JobSpec => []JobInv
<1>1. JobInit => JobIInv
  BY JobsAssumption, JobInitInv
<1>2. JobIInv /\ [JobNext]_jobVars => JobIInv'
  BY JobsAssumption, JobNextInv
<1>3. JobIInv => JobInv
  BY DEF JobIInv
<1> QED
  BY <1>1, <1>2, <1>3, PTL DEF JobSpec

(* A job moves from queued to running to its result, or from either to     *)
(* unknown at a restart; a result is never changed.                        *)
THEOREM StatusMoves == JobSpec => StatusMovesForward
<1> USE JobsAssumption
<1> DEFINE Forward ==
      \A i \in DOMAIN jobs \cap DOMAIN jobs' :
        \/ jobs'[i] = jobs[i]
        \/ jobs[i].status = "queued" /\ jobs'[i].status = "running"
        \/ jobs[i].status = "running" /\ jobs'[i].status \in {"succeeded", "failed"} /\ open
        \/ jobs[i].status \in Active /\ jobs'[i].status = "unknown" /\ ~open
<1>1. ASSUME JobIInv, [JobNext]_jobVars PROVE Forward
  <2>1. CASE Enqueue
    <3> DEFINE after == [i \in DOMAIN jobs \cup {sequence + 1} |->
                            IF i = sequence + 1 THEN Queued ELSE jobs[i]]
    <3>1. DOMAIN jobs \subseteq 1..sequence /\ sequence \in Nat /\ Commit(after)
      BY <1>1, <2>1 DEF JobIInv, JobInv, JobTypeOK, Enqueue
    <3>2. \A i \in DOMAIN jobs : i # sequence + 1
      BY <3>1
    <3>3. \E count : jobs' = trimOldest(after, count)
      BY <3>1 DEF Commit
    <3> QED
      BY <3>2, <3>3, SMTT(30) DEF trimOldest
  <2>2. ASSUME NEW id \in live, Start(id) PROVE Forward
    BY <1>1, <2>2, PutTrims, SMTT(30) DEF Start, Trimmed, JobIInv, JobInv, JobTypeOK
  <2>3. ASSUME NEW id \in live, NEW status \in {"succeeded", "failed"}, NEW reboot,
               Complete(id, status, reboot)
        PROVE  Forward
    BY <1>1, <2>3, PutTrims, SMTT(30) DEF Complete, Trimmed, finishJob
  <2>4. CASE Open
    <3> DEFINE after == [i \in DOMAIN jobs |-> IF jobs[i].status \in Active
                                               THEN finishJob("unknown", FALSE) ELSE jobs[i]]
    <3>1. ~open /\ Commit(after)
      BY <2>4, Zenon DEF Open
    <3>2. DOMAIN after = DOMAIN jobs
      BY Zenon
    <3>3. \A i \in DOMAIN jobs : \/ after[i] = jobs[i]
                                 \/ jobs[i].status \in Active /\ after[i].status = "unknown"
      BY Zenon DEF finishJob
    <3> HIDE DEF after
    <3>4. Trimmed(after, jobs')
      BY <1>1, <3>1, <3>2, PutTrims, Zenon
    <3>5. \A i \in DOMAIN jobs \cap DOMAIN jobs' : jobs'[i] = after[i]
      BY <3>2, <3>4, Zenon DEF Trimmed
    <3> QED
      BY <3>1, <3>3, <3>5, Zenon
  <2>5. CASE jobs' = jobs
    BY <2>5, Zenon
  <2> QED
    BY <1>1, <2>1, <2>2, <2>3, <2>4, <2>5, ZenonT(30) DEF JobNext, GiveUp, Stop, HostReboot, jobVars
<1>2. JobIInv /\ [JobNext]_jobVars => [Forward]_jobVars
  BY <1>1
<1>3. JobInit => JobIInv
  BY JobInitInv
<1>4. JobIInv /\ [JobNext]_jobVars => JobIInv'
  BY JobNextInv
<1> QED
  BY <1>2, <1>3, <1>4, PTL DEF JobSpec, StatusMovesForward

(* The rules of the job history, together.                                 *)
THEOREM JobsFollowTheRules == JobSpec => JobRules
  BY JobInvariant, StatusMoves, PTL DEF JobRules

------------------------------------------------------------------------------
(* The advice to reboot                                                    *)

QuestionTypes ==
  asked \in [pc : {"idle", "jobs", "marker", "image", "uptime", "clock", "history", "answered"},
             reasons : SUBSET {"marker", "staged", "job"}, since : Int, imageFailed : BOOLEAN]

AdviceTypes ==
  /\ last \in Nat /\ DOMAIN history \subseteq 1..last /\ due \subseteq 1..last
  /\ today \in Nat /\ up \in Nat
  /\ \A i \in DOMAIN history : history[i].finished \in Nat
  /\ marker \in BOOLEAN /\ staged \in BOOLEAN /\ setBack \in BOOLEAN /\ setForward \in BOOLEAN
  /\ QuestionTypes

(* A job of the history that asks for a reboot.                            *)
Counts(job) == job.status = "succeeded" /\ job.reboot

(* The jobs of this boot are those that finished after it, as far as the   *)
(* clock was not set.                                                      *)
HistoryIsDated ==
  /\ \A i \in due \cap DOMAIN history :
       Counts(history[i]) /\ (setForward \/ history[i].finished > today - up)
  /\ ~setBack => \A i \in DOMAIN history :
       /\ history[i].finished <= today
       /\ Counts(history[i]) /\ i \notin due => history[i].finished <= today - up

(* The boot time that was read tells the jobs of this boot from others.    *)
SinceIsBoot ==
  /\ ~setBack => \A i \in DOMAIN history :
       Counts(history[i]) /\ i \notin due => history[i].finished <= asked.since
  /\ \/ setForward
     \/ today - up < asked.since
     \/ \A i \in due \cap DOMAIN history : history[i].finished > asked.since

(* What a call has read held when it was read, and what still stands was   *)
(* found if it was looked for.                                             *)
QuestionStands ==
  /\ asked.pc = "idle" => asked = NoQuestion
  /\ asked.pc # "idle" => Holding \subseteq seen /\ stood \subseteq Holding
  /\ \A x \in asked.reasons : x # "job" => x \in seen
  /\ "job" \in asked.reasons => asked.pc = "answered" /\ (setBack \/ "job" \in seen)
  /\ asked.pc \notin {"idle", "jobs", "marker"} /\ "marker" \in stood => "marker" \in asked.reasons
  /\ asked.pc \in {"uptime", "clock", "history", "answered"} /\ "staged" \in stood
       => "staged" \in asked.reasons \/ asked.imageFailed
  /\ asked.pc = "clock" => asked.since <= up
  /\ asked.pc = "history" => SinceIsBoot
  /\ asked.pc = "answered" /\ "job" \in stood
       => "job" \in asked.reasons \/ setForward \/ today - up < asked.since

AdviceIInv == AdviceTypes /\ HistoryIsDated /\ QuestionStands

(* What holds at a moment of a call has been seen, and what stands held.   *)
LEMMA Remembering ==
  ASSUME Remember, asked.pc # "idle", asked'.pc # "idle"
  PROVE  /\ Holding' \subseteq seen' /\ stood' \subseteq Holding'
         /\ seen \subseteq seen' /\ stood' \subseteq stood
BY Zenon DEF Remember

(* Holding, reason by reason.                                              *)
LEMMA HoldingIs ==
  /\ "marker" \in Holding <=> marker
  /\ "staged" \in Holding <=> staged
  /\ "job" \in Holding <=> due \cap DOMAIN history # {}
BY DEF Holding

(* A transaction leaves some of the jobs of the bucket it has made.        *)
LEMMA Committing ==
  ASSUME NEW after, J!Commit(after)
  PROVE  DOMAIN history' \subseteq DOMAIN after /\ \A i \in DOMAIN history' : history'[i] = after[i]
BY DEF J!Commit, J!trimOldest

(* What a step of the broker's jobs may do to their history.               *)
HistoryMoves ==
  /\ last' \in Nat /\ due \subseteq due' /\ due' \subseteq 1..last' /\ DOMAIN history' \subseteq 1..last'
  /\ \A i \in DOMAIN history' :
       \/ i \in DOMAIN history /\ history'[i] = history[i] /\ (i \in due' => i \in due)
       \/ /\ ~Counts(history'[i]) /\ i \notin due'
          /\ history'[i].finished \in Nat /\ (~setBack => history'[i].finished <= today)
       \/ Counts(history'[i]) /\ i \in due' /\ history'[i].finished = today /\ up > 0
  /\ today' = today /\ up' = up /\ marker' = marker /\ staged' = staged
  /\ setBack' = setBack /\ setForward' = setForward

(* Enqueue: the new job has a number that no job has had.                  *)
LEMMA QueueMoves ==
  ASSUME AdviceIInv, QueueJob
  PROVE  HistoryMoves
<1>1. /\ last \in Nat /\ DOMAIN history \subseteq 1..last /\ due \subseteq 1..last /\ today \in Nat
  BY DEF AdviceIInv, AdviceTypes
<1> DEFINE after == [i \in DOMAIN history \cup {last + 1} |-> IF i = last + 1 THEN J!Queued ELSE history[i]]
<1>2. /\ due' = due /\ last' = last + 1 /\ J!Commit(after) /\ today' = today
      /\ up' = up /\ marker' = marker /\ staged' = staged /\ setBack' = setBack /\ setForward' = setForward
  BY SMTT(30), Zenon, SMTT(60) DEF QueueJob, J!Enqueue
<1>3. DOMAIN history' \subseteq DOMAIN after /\ \A i \in DOMAIN history' : history'[i] = after[i]
  BY <1>2, Committing
<1>4. /\ DOMAIN after = DOMAIN history \cup {last + 1}
      /\ \A i \in DOMAIN history : after[i] = history[i]
      /\ after[last + 1] = J!Queued
  BY <1>1
<1> HIDE DEF after
<1>5. ~Counts(J!Queued) /\ J!Queued.finished = 0
  BY DEF Counts, J!Queued
<1>6. last' \in Nat /\ due' \subseteq 1..last' /\ DOMAIN history' \subseteq 1..last'
  BY <1>1, <1>2, <1>3, <1>4, SMTT(30), Zenon, SMTT(60)
<1>7. ASSUME NEW i \in DOMAIN history'
      PROVE  \/ i \in DOMAIN history /\ history'[i] = history[i] /\ (i \in due' => i \in due)
             \/ /\ ~Counts(history'[i]) /\ i \notin due'
                /\ history'[i].finished \in Nat /\ (~setBack => history'[i].finished <= today)
  <2>1. CASE i \in DOMAIN history
    BY <1>2, <1>3, <1>4, <2>1, Zenon
  <2>2. CASE i = last + 1
    <3>1. history'[i] = J!Queued
      BY <1>3, <1>4, <2>2, Zenon
    <3>2. i \notin due'
      BY <1>1, <1>2, <2>2
    <3>3. 0 \in Nat /\ 0 <= today
      BY <1>1
    <3> QED
      BY <1>5, <3>1, <3>2, <3>3, Zenon
  <2> QED
    BY <1>3, <1>4, <2>1, <2>2
<1> QED
  BY <1>2, <1>6, <1>7, Zenon DEF HistoryMoves

(* A transaction that changes one job that is not a result.                *)
LEMMA PutMoves ==
  ASSUME AdviceIInv, NEW id \in DOMAIN history, history[id].status \in {"queued", "running"},
         NEW job, J!Commit([history EXCEPT ![id] = job]), last' = last, today' = today,
         up' = up, marker' = marker, staged' = staged, setBack' = setBack, setForward' = setForward,
         \/ due' = due /\ ~Counts(job) /\ job.finished \in Nat /\ (~setBack => job.finished <= today)
         \/ due' = due \cup {id} /\ Counts(job) /\ job.finished = today /\ up > 0
  PROVE  HistoryMoves
<1>1. /\ last \in Nat /\ DOMAIN history \subseteq 1..last /\ due \subseteq 1..last
      /\ \A i \in due \cap DOMAIN history : Counts(history[i])
  BY DEF AdviceIInv, AdviceTypes, HistoryIsDated
<1>2. id \notin due
  BY <1>1 DEF Counts
<1> DEFINE after == [history EXCEPT ![id] = job]
<1>3. DOMAIN after = DOMAIN history /\ after[id] = job /\ \A i \in DOMAIN history \ {id} : after[i] = history[i]
  OBVIOUS
<1>4. DOMAIN history' \subseteq DOMAIN after /\ \A i \in DOMAIN history' : history'[i] = after[i]
  BY Committing
<1> HIDE DEF after
<1>5. last' \in Nat /\ due \subseteq due' /\ due' \subseteq 1..last' /\ DOMAIN history' \subseteq 1..last'
  BY <1>1, <1>3, <1>4, SMTT(30), Zenon, SMTT(60)
<1>6. ASSUME NEW i \in DOMAIN history'
      PROVE  \/ i \in DOMAIN history /\ history'[i] = history[i] /\ (i \in due' => i \in due)
             \/ /\ ~Counts(history'[i]) /\ i \notin due'
                /\ history'[i].finished \in Nat /\ (~setBack => history'[i].finished <= today)
             \/ Counts(history'[i]) /\ i \in due' /\ history'[i].finished = today /\ up > 0
  <2>1. CASE i = id
    <3>1. history'[i] = job
      BY <1>3, <1>4, <2>1, Zenon
    <3> QED
      BY <1>2, <2>1, <3>1, Zenon
  <2>2. CASE i # id
    <3>1. i \in DOMAIN history /\ history'[i] = history[i]
      BY <1>3, <1>4, <2>2, Zenon
    <3>2. i \in due' => i \in due
      BY <2>2, Zenon
    <3> QED
      BY <3>1, <3>2, Zenon
  <2> QED
    BY <2>1, <2>2
<1> QED
  BY <1>5, <1>6, Zenon DEF HistoryMoves

(* Start: the job has yet to be given a result.                            *)
LEMMA StartMoves ==
  ASSUME AdviceIInv, NEW id \in running, StartJob(id)
  PROVE  HistoryMoves
<1> DEFINE job == [history[id] EXCEPT !.status = "running"]
<1>1. /\ id \in DOMAIN history /\ history[id].status = "queued" /\ J!Commit([history EXCEPT ![id].status = "running"])
      /\ due' = due /\ last' = last /\ today' = today /\ up' = up /\ marker' = marker /\ staged' = staged
      /\ setBack' = setBack /\ setForward' = setForward
  BY DEF StartJob, J!Start
<1>2. [history EXCEPT ![id].status = "running"] = [history EXCEPT ![id] = job]
  OBVIOUS
<1>3. /\ history[id].finished \in Nat /\ (~setBack => history[id].finished <= today)
  BY <1>1 DEF AdviceIInv, AdviceTypes, HistoryIsDated
<1>4. job.finished = history[id].finished /\ job.status # "succeeded"
  OBVIOUS
<1>5. ~Counts(job)
  BY <1>4 DEF Counts
<1> QED
  BY <1>1, <1>2, <1>3, <1>4, <1>5, PutMoves, ZenonT(30)

(* Complete: a success asks for a reboot, and is dated after the boot.     *)
LEMMA CompleteMoves ==
  ASSUME AdviceIInv, NEW id \in running, NEW status \in {"succeeded", "failed"}, CompleteJob(id, status)
  PROVE  HistoryMoves
<1> DEFINE job == [status |-> status, reboot |-> status = "succeeded", finished |-> today]
<1>1. /\ id \in DOMAIN history /\ history[id].status = "running" /\ J!Commit([history EXCEPT ![id] = job])
      /\ due' = IF status = "succeeded" THEN due \cup {id} ELSE due
      /\ up > 0 /\ last' = last /\ today' = today /\ up' = up /\ marker' = marker /\ staged' = staged
      /\ setBack' = setBack /\ setForward' = setForward
  BY SMTT(30) DEF CompleteJob, J!Complete, J!finishJob
<1>2. today \in Nat /\ today <= today
  BY SMTT(30) DEF AdviceIInv, AdviceTypes
<1>3. job.finished = today /\ (Counts(job) <=> status = "succeeded")
  BY Zenon DEF Counts
<1>4. history[id].status \in {"queued", "running"}
  BY <1>1
<1> HIDE DEF job
<1>5. \/ due' = due /\ ~Counts(job) /\ job.finished \in Nat /\ (~setBack => job.finished <= today)
      \/ due' = due \cup {id} /\ Counts(job) /\ job.finished = today /\ up > 0
  BY <1>1, <1>2, <1>3, Zenon
<1> QED
  BY <1>1, <1>4, <1>5, PutMoves, Zenon

(* Open: a job that was interrupted becomes unknown.                       *)
LEMMA OpenMoves ==
  ASSUME AdviceIInv, BrokerStarts
  PROVE  HistoryMoves
<1> DEFINE unknown == J!finishJob("unknown", FALSE)
           after == [i \in DOMAIN history |-> IF history[i].status \in J!Active THEN unknown ELSE history[i]]
<1>1. /\ J!Commit(after) /\ due' = due /\ last' = last /\ today' = today /\ up' = up
      /\ marker' = marker /\ staged' = staged /\ setBack' = setBack /\ setForward' = setForward
  BY DEF BrokerStarts, J!Open
<1>2. /\ last \in Nat /\ DOMAIN history \subseteq 1..last /\ due \subseteq 1..last /\ today \in Nat
      /\ \A i \in due \cap DOMAIN history : Counts(history[i])
  BY SMTT(30) DEF AdviceIInv, AdviceTypes, HistoryIsDated
<1>3. DOMAIN history' \subseteq DOMAIN after /\ \A i \in DOMAIN history' : history'[i] = after[i]
  BY <1>1, Committing, Zenon
<1>4. ~Counts(unknown) /\ unknown.finished = today
  BY DEF Counts, J!finishJob
<1> HIDE DEF unknown
<1>5. DOMAIN after = DOMAIN history /\ \A i \in DOMAIN history :
        after[i] = history[i] \/ (after[i] = unknown /\ i \notin due)
  BY <1>2, SMTT(30), Zenon, SMTT(60) DEF Counts, J!Active
<1> HIDE DEF after
<1>6. last' \in Nat /\ due' \subseteq 1..last' /\ DOMAIN history' \subseteq 1..last'
  BY <1>1, <1>2, <1>3, <1>5
<1>7. ASSUME NEW i \in DOMAIN history'
      PROVE  \/ i \in DOMAIN history /\ history'[i] = history[i] /\ (i \in due' => i \in due)
             \/ /\ ~Counts(history'[i]) /\ i \notin due'
                /\ history'[i].finished \in Nat /\ (~setBack => history'[i].finished <= today)
  <2>1. today \in Nat /\ today <= today
    BY <1>2
  <2>2. i \in DOMAIN history /\ (history'[i] = history[i] \/ (history'[i] = unknown /\ i \notin due))
    BY <1>3, <1>5, <1>7, Zenon
  <2>3. CASE history'[i] = unknown /\ i \notin due
    BY <1>1, <1>4, <2>1, <2>3, Zenon
  <2> QED
    BY <1>1, <2>2, <2>3, Zenon
<1> QED
  BY <1>1, <1>6, <1>7, Zenon DEF HistoryMoves

(* A step of the jobs leaves the history dated, and a call that goes on    *)
(* knows of the new job that it is of this boot.                           *)
LEMMA HistoryMovesKeeps ==
  ASSUME AdviceIInv, HistoryMoves, Remember, asked' = asked \/ asked' = NoQuestion
  PROVE  AdviceIInv'
<1>1. /\ last \in Nat /\ due \subseteq 1..last /\ today \in Nat /\ up \in Nat /\ QuestionTypes
      /\ \A i \in DOMAIN history : history[i].finished \in Nat
      /\ marker \in BOOLEAN /\ staged \in BOOLEAN /\ setBack \in BOOLEAN /\ setForward \in BOOLEAN
  BY Zenon DEF AdviceIInv, AdviceTypes
<1>2. /\ last' \in Nat /\ due \subseteq due' /\ due' \subseteq 1..last' /\ DOMAIN history' \subseteq 1..last'
      /\ today' = today /\ up' = up /\ marker' = marker /\ staged' = staged
      /\ setBack' = setBack /\ setForward' = setForward
  BY Zenon DEF HistoryMoves
<1>3. \A i \in DOMAIN history' :
        \/ i \in DOMAIN history /\ history'[i] = history[i] /\ (i \in due' => i \in due)
        \/ /\ ~Counts(history'[i]) /\ i \notin due'
           /\ history'[i].finished \in Nat /\ (~setBack => history'[i].finished <= today)
        \/ Counts(history'[i]) /\ i \in due' /\ history'[i].finished = today /\ up > 0
  BY Zenon DEF HistoryMoves
<1>4. QuestionTypes' /\ (asked' = NoQuestion => asked'.pc = "idle")
  <2>1. NoQuestion \in [pc : {"idle", "jobs", "marker", "image", "uptime", "clock", "history", "answered"},
             reasons : SUBSET {"marker", "staged", "job"}, since : Int, imageFailed : BOOLEAN]
    BY DEF NoQuestion
  <2>2. NoQuestion.pc = "idle"
    BY DEF NoQuestion
  <2> QED
    BY <1>1, <2>1, <2>2, Zenon DEF QuestionTypes
<1>5. AdviceTypes'
  <2>1. \A i \in DOMAIN history' : history'[i].finished \in Nat
    BY <1>1, <1>3, Zenon
  <2> QED
    BY <1>1, <1>2, <1>4, <2>1, Zenon DEF AdviceTypes
<1>6. HistoryIsDated'
  <2>1. ASSUME NEW i \in due' \cap DOMAIN history'
        PROVE  Counts(history'[i]) /\ (setForward' \/ history'[i].finished > today' - up')
    <3>1. CASE i \in due \cap DOMAIN history /\ history'[i] = history[i]
      BY <1>2, <3>1, Zenon DEF AdviceIInv, HistoryIsDated
    <3>2. CASE Counts(history'[i]) /\ history'[i].finished = today /\ up > 0
      BY <1>1, <1>2, <3>2
    <3> QED
      BY <1>3, <2>1, <3>1, <3>2, Zenon
  <2>2. ASSUME ~setBack', NEW i \in DOMAIN history'
        PROVE  /\ history'[i].finished <= today'
               /\ Counts(history'[i]) /\ i \notin due' => history'[i].finished <= today' - up'
    <3>1. CASE i \in DOMAIN history /\ history'[i] = history[i]
      BY <1>2, <2>2, <3>1, Zenon DEF AdviceIInv, HistoryIsDated
    <3>2. CASE ~Counts(history'[i]) /\ history'[i].finished <= today
      BY <1>2, <3>2, Zenon
    <3>3. CASE i \in due' /\ history'[i].finished = today
      BY <1>1, <1>2, <3>3
    <3> QED
      BY <1>2, <1>3, <2>2, <3>1, <3>2, <3>3, Zenon
  <2> QED
    BY <2>1, <2>2, Zenon DEF HistoryIsDated, Counts
<1>7. CASE asked' = NoQuestion
  <2>1. NoQuestion.pc = "idle" /\ NoQuestion.reasons = {}
    BY DEF NoQuestion
  <2> QED
    BY <1>5, <1>6, <1>7, <2>1, Zenon DEF AdviceIInv, QuestionStands
<1>8. CASE asked' = asked /\ asked.pc = "idle"
  <2>1. asked = NoQuestion
    BY <1>8, Zenon DEF AdviceIInv, QuestionStands
  <2> QED
    BY <1>7, <1>8, <2>1, Zenon
<1>9. CASE asked' = asked /\ asked.pc # "idle"
  <2>1. /\ Holding' \subseteq seen' /\ stood' \subseteq Holding'
        /\ seen \subseteq seen' /\ stood' \subseteq stood
    BY <1>9, Remembering, Zenon
  <2>2. asked.pc = "history" => SinceIsBoot'
    <3> SUFFICES ASSUME asked.pc = "history"
                 PROVE  SinceIsBoot'
      BY Zenon
    <3>1. SinceIsBoot /\ asked.since \in Int
      BY <1>1 DEF AdviceIInv, QuestionStands, QuestionTypes
    <3>2. ASSUME ~setBack', NEW i \in DOMAIN history', Counts(history'[i]), i \notin due'
          PROVE  history'[i].finished <= asked'.since
      BY <1>2, <1>3, <1>9, <3>1, <3>2, Zenon DEF SinceIsBoot
    <3>3. ASSUME ~setForward', ~(today' - up' < asked'.since), NEW i \in due' \cap DOMAIN history'
          PROVE  history'[i].finished > asked'.since
      <4>1. ~setForward /\ ~(today - up < asked.since) /\ asked'.since = asked.since
        BY <1>2, <1>9, <3>3, Zenon
      <4>2. CASE i \in due \cap DOMAIN history /\ history'[i] = history[i]
        BY <3>1, <4>1, <4>2, ZenonT(30) DEF SinceIsBoot
      <4>3. CASE history'[i].finished = today /\ up > 0
        BY <1>1, <3>1, <4>1, <4>3
      <4> QED
        BY <1>3, <3>3, <4>2, <4>3, Zenon
    <3> QED
      BY <3>2, <3>3, Zenon DEF SinceIsBoot, Counts
  <2>3. QuestionStands'
    BY <1>2, <1>9, <2>1, <2>2, Zenon DEF AdviceIInv, QuestionStands
  <2> QED
    BY <1>5, <1>6, <2>3, Zenon DEF AdviceIInv
<1> QED
  BY <1>7, <1>8, <1>9, Zenon

(* A step of the host that is no step of a job.                            *)
LEMMA ClockKeeps ==
  ASSUME AdviceIInv, TimePasses \/ (\E t \in 1..AdviceTime : SetClock(t)), Remember
  PROVE  AdviceIInv'
<1>1. /\ last \in Nat /\ DOMAIN history \subseteq 1..last /\ due \subseteq 1..last
      /\ today \in Nat /\ up \in Nat /\ QuestionTypes
      /\ \A i \in DOMAIN history : history[i].finished \in Nat
      /\ marker \in BOOLEAN /\ staged \in BOOLEAN /\ setBack \in BOOLEAN /\ setForward \in BOOLEAN
  BY Zenon DEF AdviceIInv, AdviceTypes
<1>2. /\ history' = history /\ last' = last /\ due' = due /\ marker' = marker /\ staged' = staged /\ asked' = asked
  BY Zenon DEF TimePasses, SetClock, StoreStays
<1>3. /\ today' \in Nat /\ up' \in Nat /\ setBack' \in BOOLEAN /\ setForward' \in BOOLEAN
      /\ (setBack => setBack') /\ (setForward => setForward')
      /\ ~setBack' => today <= today' /\ today - up <= today' - up'
      /\ ~setForward' => today' - up' <= today - up
  <2>1. CASE TimePasses
    BY <1>1, <2>1 DEF TimePasses
  <2>2. ASSUME NEW t \in 1..AdviceTime, SetClock(t)
        PROVE  /\ today' \in Nat /\ up' \in Nat /\ setBack' \in BOOLEAN /\ setForward' \in BOOLEAN
               /\ (setBack => setBack') /\ (setForward => setForward')
               /\ ~setBack' => today <= today' /\ today - up <= today' - up'
               /\ ~setForward' => today' - up' <= today - up
    <3>1. /\ today' = t /\ up' = up /\ t \in Nat
          /\ setBack' = (setBack \/ t < today) /\ setForward' = (setForward \/ t > today)
      BY <2>2 DEF SetClock
    <3>2. /\ setBack' \in BOOLEAN /\ setForward' \in BOOLEAN
          /\ (setBack => setBack') /\ (setForward => setForward')
          /\ (t < today => setBack') /\ (t > today => setForward')
      BY <3>1, Zenon
    <3>3. /\ ~(t < today) => today <= t /\ today - up <= t - up
          /\ ~(t > today) => t - up <= today - up
      BY <1>1, <3>1
    <3> QED
      BY <1>1, <3>1, <3>2, <3>3, Zenon
  <2> QED
    BY <2>1, <2>2, SMTT(30), Zenon, SMTT(60)
<1>4. AdviceTypes'
  BY <1>1, <1>2, <1>3, Zenon DEF AdviceTypes, QuestionTypes
<1>5. HistoryIsDated'
  <2>1. ASSUME NEW i \in due \cap DOMAIN history
        PROVE  Counts(history[i]) /\ (setForward' \/ history[i].finished > today' - up')
    <3>1. Counts(history[i]) /\ (setForward \/ history[i].finished > today - up) /\ history[i].finished \in Nat
      BY <1>1, Zenon DEF AdviceIInv, HistoryIsDated
    <3>2. today \in Nat /\ up \in Nat /\ today' \in Nat /\ up' \in Nat /\ history[i].finished \in Nat
      BY <1>1, <1>3, <3>1, Zenon
    <3>3. history[i].finished > today - up /\ today' - up' <= today - up => history[i].finished > today' - up'
      <4>1. \A f, a, b \in Int : f > a /\ b <= a => f > b
        OBVIOUS
      <4>2. history[i].finished \in Int /\ today - up \in Int /\ today' - up' \in Int
        BY <3>2
      <4> QED
        BY <4>1, <4>2, Zenon
    <3> QED
      BY <1>3, <3>1, <3>3, Zenon
  <2>2. ASSUME ~setBack', NEW i \in DOMAIN history
        PROVE  /\ history[i].finished <= today'
               /\ Counts(history[i]) /\ i \notin due => history[i].finished <= today' - up'
    <3>1. ~setBack
      BY <1>3, <2>2, Zenon
    <3>2. /\ history[i].finished <= today /\ history[i].finished \in Nat
          /\ Counts(history[i]) /\ i \notin due => history[i].finished <= today - up
      BY <1>1, <3>1, Zenon DEF AdviceIInv, HistoryIsDated
    <3>3. today <= today' /\ today - up <= today' - up'
      BY <1>3, <2>2, Zenon
    <3>4. today \in Nat /\ up \in Nat /\ today' \in Nat /\ up' \in Nat
      BY <1>1, <1>3, Zenon
    <3>5. /\ history[i].finished \in Int /\ today \in Int /\ today' \in Int
          /\ today - up \in Int /\ today' - up' \in Int
      BY <3>2, <3>4
    <3>6. \A f, a, b \in Int : f <= a /\ a <= b => f <= b
      OBVIOUS
    <3> QED
      BY <3>2, <3>3, <3>5, <3>6, Zenon
  <2> QED
    BY <1>2, <2>1, <2>2, Zenon DEF HistoryIsDated, Counts
<1>6. CASE asked.pc = "idle"
  <2>1. asked = NoQuestion /\ asked'.reasons = {} /\ asked'.pc = "idle"
    BY <1>2, <1>6 DEF AdviceIInv, QuestionStands, NoQuestion
  <2> QED
    BY <1>2, <1>4, <1>5, <2>1, ZenonT(30) DEF AdviceIInv, QuestionStands
<1>7. CASE asked.pc # "idle"
  <2>1. /\ Holding' \subseteq seen' /\ stood' \subseteq Holding'
        /\ seen \subseteq seen' /\ stood' \subseteq stood
    BY <1>2, <1>7, Remembering, Zenon
  <2>2. asked.since \in Int
    BY <1>1 DEF QuestionTypes
  <2>3. setForward \/ today - up < asked.since => setForward' \/ today' - up' < asked.since
    <3>1. today \in Nat /\ up \in Nat /\ today' \in Nat /\ up' \in Nat
      BY <1>1, <1>3, Zenon
    <3>2. today - up \in Int /\ today' - up' \in Int
      BY <3>1
    <3>3. \A f, a, b \in Int : a < f /\ b <= a => b < f
      OBVIOUS
    <3> QED
      BY <1>3, <2>2, <3>2, <3>3, Zenon
  <2>4. asked.pc = "history" => SinceIsBoot'
    <3> SUFFICES ASSUME asked.pc = "history"
                 PROVE  SinceIsBoot'
      BY Zenon
    <3>1. SinceIsBoot
      BY DEF AdviceIInv, QuestionStands
    <3> QED
      BY <1>2, <1>3, <2>3, <3>1, Zenon DEF SinceIsBoot, Counts
  <2>5. asked.pc = "clock" => asked.since <= up'
    <3>1. asked.pc = "clock" => asked.since <= up
      BY Zenon DEF AdviceIInv, QuestionStands
    <3>2. up \in Nat /\ (up' = up \/ up' = up + 1)
      BY <1>1, SMTT(30) DEF TimePasses, SetClock
    <3> QED
      BY <2>2, <3>1, <3>2
  <2>6. QuestionStands'
    BY <1>2, <1>3, <1>7, <2>1, <2>3, <2>4, <2>5, Zenon DEF AdviceIInv, QuestionStands
  <2> QED
    BY <1>4, <1>5, <2>6, Zenon DEF AdviceIInv
<1> QED
  BY <1>6, <1>7

(* A reboot ends the call, and every job of the history is of an earlier   *)
(* boot.                                                                   *)
LEMMA RebootKeeps ==
  ASSUME AdviceIInv, Reboot, Remember
  PROVE  AdviceIInv'
<1>1. /\ due' = {} /\ history' = history /\ last' = last /\ today' = today + 1 /\ up' = 0
      /\ marker' = FALSE /\ staged' = FALSE /\ setForward' = FALSE /\ setBack' = setBack
      /\ asked' = NoQuestion
  BY DEF Reboot, J!HostReboot
<1>2. AdviceTypes'
  <2>1. last' \in Nat /\ DOMAIN history' \subseteq 1..last' /\ due' \subseteq 1..last'
    BY <1>1, SMTT(30), Zenon, SMTT(60) DEF AdviceIInv, AdviceTypes
  <2>2. today' \in Nat /\ up' \in Nat
    BY <1>1 DEF AdviceIInv, AdviceTypes
  <2>3. \A i \in DOMAIN history' : history'[i].finished \in Nat
    BY <1>1, Zenon DEF AdviceIInv, AdviceTypes
  <2>4. marker' \in BOOLEAN /\ staged' \in BOOLEAN /\ setBack' \in BOOLEAN /\ setForward' \in BOOLEAN
    BY <1>1, ZenonT(30) DEF AdviceIInv, AdviceTypes
  <2>5. QuestionTypes'
    BY <1>1 DEF QuestionTypes, NoQuestion
  <2> QED
    BY <2>1, <2>2, <2>3, <2>4, <2>5, ZenonT(30) DEF AdviceTypes
<1>3. HistoryIsDated'
  <2>1. ASSUME ~setBack, NEW i \in DOMAIN history
        PROVE  history[i].finished <= today' /\ history[i].finished <= today' - up'
    <3>1. history[i].finished <= today /\ history[i].finished \in Nat /\ today \in Nat
      BY <2>1, Zenon DEF AdviceIInv, AdviceTypes, HistoryIsDated
    <3> QED
      BY <1>1, <3>1
  <2> QED
    BY <1>1, <2>1, Zenon DEF HistoryIsDated
<1>4. QuestionStands'
  <2>1. NoQuestion.pc = "idle" /\ NoQuestion.reasons = {}
    BY DEF NoQuestion
  <2> QED
    BY <1>1, <2>1, Zenon DEF QuestionStands
<1> QED
  BY <1>2, <1>3, <1>4, Zenon DEF AdviceIInv

(* The marker appears, or an image is staged or unstaged.                  *)
LEMMA MarkKeeps ==
  ASSUME AdviceIInv, Mark, Remember
  PROVE  AdviceIInv'
<1>1. /\ history' = history /\ last' = last /\ due' = due /\ today' = today /\ up' = up
      /\ setBack' = setBack /\ setForward' = setForward /\ asked' = asked
  BY Zenon DEF Mark, StoreStays
<1>2. marker' \in BOOLEAN /\ staged' \in BOOLEAN
  BY Zenon DEF Mark, AdviceIInv, AdviceTypes
<1>3. AdviceTypes' /\ HistoryIsDated'
  BY <1>1, <1>2, Zenon DEF AdviceIInv, AdviceTypes, QuestionTypes, HistoryIsDated, Counts
<1>4. QuestionStands'
  <2>1. CASE asked.pc = "idle"
    <3>1. asked = NoQuestion /\ asked'.reasons = {} /\ asked'.pc = "idle"
      BY <1>1, <2>1 DEF AdviceIInv, QuestionStands, NoQuestion
    <3> QED
      BY <1>1, <3>1, ZenonT(30) DEF QuestionStands
  <2>2. CASE asked.pc # "idle"
    <3>1. /\ Holding' \subseteq seen' /\ stood' \subseteq Holding'
          /\ seen \subseteq seen' /\ stood' \subseteq stood
      BY <1>1, <2>2, Remembering, Zenon
    <3>2. SinceIsBoot => SinceIsBoot'
      BY <1>1, Zenon DEF SinceIsBoot, Counts
    <3> QED
      BY <1>1, <2>2, <3>1, <3>2, Zenon DEF AdviceIInv, QuestionStands
  <2> QED
    BY <2>1, <2>2
<1> QED
  BY <1>3, <1>4, Zenon DEF AdviceIInv

(* A step of State.                                                        *)
LEMMA StateKeeps ==
  ASSUME AdviceIInv, StateStep, Remember
  PROVE  AdviceIInv'
<1>1. /\ history' = history /\ last' = last /\ due' = due /\ today' = today /\ up' = up
      /\ marker' = marker /\ staged' = staged /\ setBack' = setBack /\ setForward' = setForward
  BY Zenon DEF StateStep, Ask, ListJobs, StatMarker, ReadImage, ImageFails, ReadUptime, ReadClock,
               AskHistory, AnswerUsed, StoreStays, HostStays
<1>2. /\ today \in Nat /\ up \in Nat /\ QuestionTypes /\ HistoryIsDated /\ QuestionStands
  BY Zenon DEF AdviceIInv, AdviceTypes
<1>3. SinceIsBoot /\ asked'.since = asked.since => SinceIsBoot'
  BY <1>1, Zenon DEF SinceIsBoot, Counts
<1>4. HistoryIsDated'
  BY <1>1, <1>2, Zenon DEF HistoryIsDated, Counts
<1>5. Holding' = Holding
  BY <1>1, Zenon DEF Holding
<1>6. SUFFICES QuestionTypes' /\ QuestionStands'
  BY <1>1, <1>4, ZenonT(30) DEF AdviceIInv, AdviceTypes
<1>7. CASE Ask
  <2>1. asked = NoQuestion /\ asked' = [NoQuestion EXCEPT !.pc = "jobs"]
    BY <1>2, <1>7, Zenon DEF Ask, ReadsOn, QuestionStands, NoQuestion
  <2>2. asked.pc = "idle" /\ asked'.pc = "jobs" /\ asked'.reasons = {} /\ QuestionTypes'
    <3>1. asked' = [pc |-> "jobs", reasons |-> {}, since |-> 0, imageFailed |-> FALSE]
      BY <2>1, Zenon DEF NoQuestion
    <3>2. QuestionTypes'
      BY <3>1 DEF QuestionTypes
    <3>3. asked.pc = "idle"
      BY <2>1, SMTT(30), Zenon, SMTT(60) DEF NoQuestion
    <3> QED
      BY <3>1, <3>2, <3>3
  <2>3. stood' = Holding' /\ seen' = Holding'
    BY <2>2 DEF Remember
  <2> QED
    BY <2>2, <2>3 DEF QuestionStands
<1>8. CASE AnswerUsed
  <2>1. asked' = NoQuestion /\ asked'.pc = "idle" /\ asked'.reasons = {} /\ QuestionTypes'
    <3>1. asked' = NoQuestion
      BY <1>8, Zenon DEF AnswerUsed
    <3>2. asked' = [pc |-> "idle", reasons |-> {}, since |-> 0, imageFailed |-> FALSE]
      BY <3>1, Zenon DEF NoQuestion
    <3>3. QuestionTypes'
      BY <3>2 DEF QuestionTypes
    <3>4. asked'.pc = "idle" /\ asked'.reasons = {}
      BY <3>2
    <3> QED
      BY <3>1, <3>3, <3>4, Zenon
  <2> QED
    BY <2>1, ZenonT(30) DEF QuestionStands
<1>9. ASSUME asked.pc # "idle", asked'.pc # "idle"
      PROVE  /\ Holding \subseteq seen' /\ stood' \subseteq Holding
             /\ seen \subseteq seen' /\ stood' \subseteq stood
             /\ \A x \in asked.reasons : x # "job" => x \in seen'
             /\ "marker" \in Holding <=> marker
             /\ "staged" \in Holding <=> staged
             /\ "job" \in Holding <=> due \cap DOMAIN history # {}
  <2>1. \A x \in asked.reasons : x # "job" => x \in seen
    BY <1>2, Zenon DEF QuestionStands
  <2> QED
    BY <1>5, <1>9, <2>1, Remembering, HoldingIs, Zenon
<1>10. CASE ListJobs
  <2>1. asked.pc = "jobs" /\ asked' = [asked EXCEPT !.pc = "marker", !.reasons = @ \cup {}]
    BY <1>10, Zenon DEF ListJobs, ReadsOn
  <2>2. asked'.pc = "marker" /\ asked'.reasons = asked.reasons /\ QuestionTypes'
    BY <1>2, <2>1, Zenon DEF QuestionTypes
  <2> QED
    BY <1>2, <1>5, <1>9, <2>1, <2>2 DEF QuestionStands
<1>11. CASE StatMarker
  <2>1. asked.pc = "marker"
        /\ asked' = [asked EXCEPT !.pc = "image", !.reasons = @ \cup IF marker THEN {"marker"} ELSE {}]
    BY <1>11, Zenon DEF StatMarker, ReadsOn
  <2>2. /\ asked'.pc = "image" /\ QuestionTypes'
        /\ asked'.reasons = asked.reasons \cup IF marker THEN {"marker"} ELSE {}
    BY <1>2, <2>1, Zenon DEF QuestionTypes
  <2> QED
    BY <1>2, <1>5, <1>9, <2>1, <2>2 DEF QuestionStands
<1>12. CASE ReadImage
  <2>1. asked.pc = "image"
        /\ asked' = [asked EXCEPT !.pc = "uptime", !.reasons = @ \cup IF staged THEN {"staged"} ELSE {}]
    BY <1>12, Zenon DEF ReadImage, ReadsOn
  <2>2. /\ asked'.pc = "uptime" /\ QuestionTypes'
        /\ asked'.reasons = asked.reasons \cup IF staged THEN {"staged"} ELSE {}
    BY <1>2, <2>1, Zenon DEF QuestionTypes
  <2> QED
    BY <1>2, <1>5, <1>9, <2>1, <2>2 DEF QuestionStands
<1>13. CASE ImageFails
  <2>1. asked.pc = "image" /\ asked' = [asked EXCEPT !.pc = "uptime", !.imageFailed = TRUE]
    BY <1>13, Zenon DEF ImageFails
  <2>2. asked'.pc = "uptime" /\ asked'.reasons = asked.reasons /\ asked'.imageFailed /\ QuestionTypes'
    BY <1>2, <2>1, Zenon DEF QuestionTypes
  <2> QED
    BY <1>2, <1>5, <1>9, <2>1, <2>2 DEF QuestionStands
<1>14. CASE ReadUptime
  <2>1. asked.pc = "uptime" /\ asked' = [asked EXCEPT !.pc = "clock", !.since = up]
    BY <1>14, Zenon DEF ReadUptime
  <2>2. /\ asked'.pc = "clock" /\ asked'.reasons = asked.reasons /\ asked'.imageFailed = asked.imageFailed
        /\ asked'.since = up
    BY <1>2, <2>1 DEF QuestionTypes
  <2>3. QuestionTypes' /\ asked'.since <= up'
    <3>1. up \in Int /\ up <= up
      BY <1>2
    <3> QED
      BY <1>1, <1>2, <2>1, <2>2, <3>1, Zenon DEF QuestionTypes
  <2> QED
    BY <1>2, <1>5, <1>9, <2>1, <2>2, <2>3 DEF QuestionStands
<1>16. CASE ReadClock
  <2> DEFINE boot == today - asked.since
  <2>1. asked.pc = "clock" /\ asked' = [asked EXCEPT !.pc = "history", !.since = boot]
    BY <1>16, Zenon DEF ReadClock, bootedAt
  <2>2. asked.since \in Int /\ asked.since <= up
    BY <1>2, <2>1 DEF QuestionTypes, QuestionStands
  <2>3. boot \in Int /\ today - up \in Int /\ (today - up = boot \/ today - up < boot)
    BY <1>2, <2>2
  <2>4. \A f \in Nat : f <= today - up => f <= boot
    BY <1>2, <2>2
  <2> HIDE DEF boot
  <2>5. /\ asked'.pc = "history" /\ asked'.reasons = asked.reasons /\ asked'.imageFailed = asked.imageFailed
        /\ asked'.since = boot
    BY <1>2, <2>1 DEF QuestionTypes
  <2>6. QuestionTypes'
    BY <1>2, <2>1, <2>3, Zenon DEF QuestionTypes
  <2>7. ~setBack' => \A i \in DOMAIN history' :
          Counts(history'[i]) /\ i \notin due' => history'[i].finished <= boot
    BY <1>1, <1>2, <2>4, Zenon DEF AdviceIInv, AdviceTypes, HistoryIsDated
  <2>8. \/ setForward'
        \/ today' - up' < boot
        \/ \A i \in due' \cap DOMAIN history' : history'[i].finished > boot
    BY <1>1, <1>2, <2>3, Zenon DEF HistoryIsDated
  <2>9. SinceIsBoot'
    BY <2>5, <2>7, <2>8, Zenon DEF SinceIsBoot, Counts
  <2> QED
    BY <1>2, <1>5, <1>9, <2>1, <2>5, <2>6, <2>9 DEF QuestionStands
<1>15. CASE AskHistory
  <2>1. /\ asked.pc = "history"
        /\ asked' = [asked EXCEPT !.pc = "answered",
             !.reasons = @ \cup IF J!RebootRequiredSince(asked.since) THEN {"job"} ELSE {}]
    BY <1>15, Zenon DEF AskHistory, ReadsOn
  <2>2. /\ asked'.pc = "answered" /\ QuestionTypes'
        /\ asked'.reasons = asked.reasons \cup IF J!RebootRequiredSince(asked.since) THEN {"job"} ELSE {}
        /\ asked'.imageFailed = asked.imageFailed /\ asked'.since = asked.since
    BY <1>2, <2>1, Zenon DEF QuestionTypes
  <2>3. SinceIsBoot /\ "job" \notin asked.reasons
    BY <1>2, <2>1 DEF QuestionStands
  <2>4. J!RebootRequiredSince(asked.since) <=>
          \E i \in DOMAIN history : Counts(history[i]) /\ history[i].finished > asked.since
    BY DEF J!RebootRequiredSince, Counts
  <2>5. J!RebootRequiredSince(asked.since) => setBack \/ due \cap DOMAIN history # {}
    <3> SUFFICES ASSUME ~setBack, NEW i \in DOMAIN history, Counts(history[i]), history[i].finished > asked.since
                 PROVE  i \in due
      BY <2>4
    <3>1. i \notin due => history[i].finished <= asked.since
      BY <2>3, Zenon DEF SinceIsBoot
    <3>2. history[i].finished \in Nat /\ asked.since \in Int
      BY <1>2 DEF AdviceIInv, AdviceTypes, QuestionTypes
    <3> QED
      BY <3>1, <3>2, SMTT(30), Zenon, SMTT(60)
  <2>6. due \cap DOMAIN history # {} =>
          J!RebootRequiredSince(asked.since) \/ setForward \/ today - up < asked.since
    <3> SUFFICES ASSUME NEW i \in due \cap DOMAIN history, ~setForward, ~(today - up < asked.since)
                 PROVE  J!RebootRequiredSince(asked.since)
      BY Zenon
    <3>1. history[i].finished > asked.since
      BY <2>3, Zenon DEF SinceIsBoot
    <3>2. Counts(history[i])
      BY <1>2, Zenon DEF HistoryIsDated
    <3> QED
      BY <2>4, <3>1, <3>2, Zenon
  <2>7. /\ \A x \in asked'.reasons : x # "job" => x \in seen'
        /\ "job" \in asked'.reasons => setBack' \/ "job" \in seen'
        /\ "job" \in stood' => "job" \in asked'.reasons \/ setForward' \/ today' - up' < asked'.since
    BY <1>1, <1>9, <2>1, <2>2, <2>3, <2>5, <2>6, Zenon
  <2> QED
    BY <1>2, <1>5, <1>9, <2>1, <2>2, <2>7 DEF QuestionStands
<1> QED
  BY <1>7, <1>8, <1>10, <1>11, <1>12, <1>13, <1>14, <1>15, <1>16, Zenon DEF StateStep

(* Every step keeps the invariant.                                         *)
LEMMA AdviceNextInv == AdviceIInv /\ [AdviceNext]_adviceVars => AdviceIInv'
<1> SUFFICES ASSUME AdviceIInv, [AdviceNext]_adviceVars
             PROVE  AdviceIInv'
  OBVIOUS
<1>1. CASE AdviceNext
  <2>1. Remember /\ (HostStep \/ StateStep)
    BY <1>1 DEF AdviceNext
  <2>2. CASE QueueJob
    BY <2>1, <2>2, QueueMoves, HistoryMovesKeeps DEF QueueJob
  <2>3. CASE BrokerStarts
    BY <2>1, <2>3, OpenMoves, HistoryMovesKeeps DEF BrokerStarts
  <2>4. CASE BrokerStops
    <3>1. HistoryMoves /\ asked' = NoQuestion
      BY <2>4 DEF BrokerStops, J!Stop, HistoryMoves, AdviceIInv, AdviceTypes
    <3> QED
      BY <2>1, <3>1, HistoryMovesKeeps, SMTT(30), Zenon, SMTT(60)
  <2>5. ASSUME NEW id \in running, StartJob(id)
        PROVE  AdviceIInv'
    BY <2>1, <2>5, StartMoves, HistoryMovesKeeps, SMTT(30), Zenon, SMTT(60) DEF StartJob
  <2>6. ASSUME NEW id \in running, NEW status \in {"succeeded", "failed"}, CompleteJob(id, status)
        PROVE  AdviceIInv'
    BY <2>1, <2>6, CompleteMoves, HistoryMovesKeeps DEF CompleteJob
  <2> QED
    BY <2>1, <2>2, <2>3, <2>4, <2>5, <2>6, ClockKeeps, RebootKeeps, MarkKeeps, StateKeeps, Zenon DEF HostStep
<1>2. CASE UNCHANGED adviceVars
  BY <1>2, ZenonT(30) DEF adviceVars, AdviceIInv, AdviceTypes, QuestionTypes, HistoryIsDated, QuestionStands,
    SinceIsBoot, Holding, Counts
<1> QED
  BY <1>1, <1>2

(* The host has just booted and its history is empty.                      *)
LEMMA AdviceInitInv == AdviceInit => AdviceIInv
<1> SUFFICES ASSUME AdviceInit
             PROVE  AdviceIInv
  OBVIOUS
<1>1. /\ due = {} /\ DOMAIN history = {} /\ last = 0 /\ today = 1 /\ up = 1
      /\ marker = FALSE /\ staged = FALSE /\ setBack = FALSE /\ setForward = FALSE /\ asked = NoQuestion
  BY DEF AdviceInit, J!JobInit
<1>2. last \in Nat /\ today \in Nat /\ up \in Nat /\ due \subseteq 1..last /\ DOMAIN history \subseteq 1..last
  BY <1>1
<1>3. marker \in BOOLEAN /\ staged \in BOOLEAN /\ setBack \in BOOLEAN /\ setForward \in BOOLEAN
  BY <1>1, ZenonT(30)
<1>4. asked.pc = "idle" /\ asked.reasons = {} /\ QuestionTypes
  BY <1>1 DEF NoQuestion, QuestionTypes
<1> QED
  BY <1>1, <1>2, <1>3, <1>4, Zenon DEF AdviceIInv, AdviceTypes, HistoryIsDated, QuestionStands

(* The reboot reasons that maintenance.State gives are those that held,    *)
(* however the updates, jobs, restarts and settings of the clock fall      *)
(* between its reads, whatever the retention bound.                        *)
THEOREM AdviceHolds == AdviceSpec => []AdviceIsSound
<1>1. AdviceIInv => AdviceIsSound
  <2> SUFFICES ASSUME AdviceIInv, asked.pc = "answered"
               PROVE  AdviceIsSound
    BY Zenon DEF AdviceIsSound
  <2>1. QuestionStands /\ asked.reasons \subseteq {"marker", "staged", "job"}
    BY SMTT(30), Zenon, SMTT(60) DEF AdviceIInv, AdviceTypes, QuestionTypes
  <2>2. stood \subseteq {"marker", "staged", "job"}
    BY <2>1 DEF QuestionStands, Holding
  <2> QED
    BY <2>1, <2>2 DEF QuestionStands, AdviceIsSound
<1> QED
  BY <1>1, AdviceInitInv, AdviceNextInv, PTL DEF AdviceSpec
==============================================================================
