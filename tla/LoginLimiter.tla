---------------------------- MODULE LoginLimiter ----------------------------
(***************************************************************************)
(* The broker's login handler and its attempt limiter                      *)
(* (internal/broker/server.go): the back-off is looked up in one critical  *)
(* section and a failure is counted in another, with the password check in *)
(* between; a pool of slots bounds how many checks run at once.            *)
(***************************************************************************)
EXTENDS Integers, FiniteSets

CONSTANTS Logins,   \* concurrent ones
          Keys,     \* username and address
          NoKey,
          MaxTrackedAttempts,
          Slots,
          StaleAfter, \* ten minutes
          MaxShift,   \* the back-off doubles this often
          LimiterTime, MaxFailures

ASSUME LimiterAssumption ==
  /\ MaxTrackedAttempts \in Nat \ {0} /\ Slots \in Nat \ {0}
  /\ StaleAfter \in Nat \ {0} /\ MaxShift \in Nat
  /\ NoKey \notin Keys /\ IsFiniteSet(Logins)

VARIABLES time,
          attempts, \* the limiter's map: [failures, next, updated] by key
          slots,    \* tokens in the loginSlots channel
          place, key,  \* each request's place and key
          streak,   \* history: failures since the last success or removal
          lastFail  \* history: time of the latest failure

limiterVars == <<time, attempts, slots, place, key, streak, lastFail>>

Places == {"idle", "checked", "slot", "failed", "accepted", "leaving"}

(* Places in which the deferred release of the slot is still to run.       *)
HasSlot == {"slot", "failed", "accepted", "leaving"}

LimiterTypeOK ==
  /\ time \in Nat
  /\ DOMAIN attempts \subseteq Keys
  /\ \A k \in DOMAIN attempts : attempts[k] \in [failures : Nat \ {0}, next : Int, updated : 0..time]
  /\ slots \in 0..Slots
  /\ place \in [Logins -> Places]
  /\ key \in [Logins -> Keys \cup {NoKey}]
  /\ streak \in [Keys -> Nat] /\ lastFail \in [Keys -> Nat]

LimiterInit ==
  /\ time = 0
  /\ attempts = [k \in {} |-> [failures |-> 0, next |-> 0, updated |-> 0]]
  /\ slots = 0
  /\ place = [q \in Logins |-> "idle"]
  /\ key = [q \in Logins |-> NoKey]
  /\ streak = [k \in Keys |-> 0]
  /\ lastFail = [k \in Keys |-> 0]

LimiterTick ==
  /\ time < LimiterTime
  /\ time' = time + 1
  /\ UNCHANGED <<attempts, slots, place, key, streak, lastFail>>

Goto(q, next) == place' = [place EXCEPT ![q] = next]

Smaller(a, b) == IF a < b THEN a ELSE b

(* Mutant: any tracked key may go.                                         *)
VictimsAny(k) ==
  IF k \in DOMAIN attempts \/ Cardinality(DOMAIN attempts) < MaxTrackedAttempts THEN {{}}
  ELSE {{x} : x \in DOMAIN attempts}

(* The keys that failure may remove to make room: all stale ones and, if   *)
(* the table is still full, one of those that failed least recently.       *)
Victims(k) ==
  LET stale == {x \in DOMAIN attempts : attempts[x].updated < time - StaleAfter}
      rest == DOMAIN attempts \ stale
      oldest == {x \in rest : \A y \in rest : attempts[x].updated <= attempts[y].updated}
  IN  IF k \in DOMAIN attempts \/ Cardinality(DOMAIN attempts) < MaxTrackedAttempts THEN {{}}
      ELSE IF Cardinality(rest) < MaxTrackedAttempts THEN {stale}
      ELSE {stale \cup {x} : x \in oldest}

Failures(k) == IF k \in DOMAIN attempts THEN attempts[k].failures ELSE 0

(* attemptLimiter.failure                                                  *)
failure(k) ==
  \E gone \in Victims(k) :
    LET n == Failures(k) + 1
    IN  /\ n <= MaxFailures
        /\ attempts' =
             [x \in (DOMAIN attempts \ gone) \cup {k} |->
                IF x = k
                THEN [failures |-> n, next |-> time + 2 ^ Smaller(n - 1, MaxShift), updated |-> time]
                ELSE attempts[x]]
        /\ streak' = [x \in Keys |-> IF x = k THEN streak[k] + 1
                                     ELSE IF x \in gone THEN 0 ELSE streak[x]]
        /\ lastFail' = [lastFail EXCEPT ![k] = time]

(* login with an empty or oversized field: it counts without a check.      *)
Malformed(q, k) ==
  /\ place[q] = "idle"
  /\ failure(k)
  /\ UNCHANGED <<time, slots, place, key>>

(* attemptLimiter.delay is zero: go on.  Otherwise nothing changes.        *)
DelayPassed(q, k) ==
  /\ place[q] = "idle"
  /\ k \in DOMAIN attempts => attempts[k].next <= time
  /\ key' = [key EXCEPT ![q] = k]
  /\ Goto(q, "checked")
  /\ UNCHANGED <<time, attempts, slots, streak, lastFail>>

TakeSlot(q) ==
  /\ place[q] = "checked" /\ slots < Slots
  /\ slots' = slots + 1
  /\ Goto(q, "slot")
  /\ UNCHANGED <<time, attempts, key, streak, lastFail>>

NoSlot(q) ==
  /\ place[q] = "checked" /\ slots = Slots
  /\ Goto(q, "idle")
  /\ key' = [key EXCEPT ![q] = NoKey]
  /\ UNCHANGED <<time, attempts, slots, streak, lastFail>>

(* Authenticate and Resolve, external: PAM and NSS answer what they like.  *)
Rejected(q) ==
  /\ place[q] = "slot"
  /\ Goto(q, "failed")
  /\ UNCHANGED <<time, attempts, slots, key, streak, lastFail>>

Accepted(q) ==
  /\ place[q] = "slot"
  /\ Goto(q, "accepted")
  /\ UNCHANGED <<time, attempts, slots, key, streak, lastFail>>

(* loginFailed, then its sleep, with the slot still taken.                 *)
CountFailure(q) ==
  /\ place[q] = "failed"
  /\ failure(key[q])
  /\ Goto(q, "leaving")
  /\ UNCHANGED <<time, slots, key>>

(* sessions.Create worked: attemptLimiter.success.                         *)
success(q) ==
  /\ place[q] = "accepted"
  /\ attempts' = [x \in DOMAIN attempts \ {key[q]} |-> attempts[x]]
  /\ streak' = [streak EXCEPT ![key[q]] = 0]
  /\ Goto(q, "leaving")
  /\ UNCHANGED <<time, slots, key, lastFail>>

(* sessions.Create failed: the limiter is told nothing.                    *)
CreateFailed(q) ==
  /\ place[q] = "accepted"
  /\ Goto(q, "leaving")
  /\ UNCHANGED <<time, attempts, slots, key, streak, lastFail>>

(* The handler returns and its deferred function frees the slot.           *)
Leave(q) ==
  /\ place[q] = "leaving"
  /\ slots' = slots - 1
  /\ Goto(q, "idle")
  /\ key' = [key EXCEPT ![q] = NoKey]
  /\ UNCHANGED <<time, attempts, streak, lastFail>>

LimiterNext ==
  \/ LimiterTick
  \/ \E q \in Logins :
       \/ \E k \in Keys : Malformed(q, k) \/ DelayPassed(q, k)
       \/ TakeSlot(q) \/ NoSlot(q)
       \/ Rejected(q) \/ Accepted(q)
       \/ CountFailure(q) \/ success(q) \/ CreateFailed(q)
       \/ Leave(q)

LimiterSpec == LimiterInit /\ [][LimiterNext]_limiterVars

------------------------------------------------------------------------------
(* "The backoff tracker is bounded" (docs/authentication.md:34).           *)
TrackerBounded == Cardinality(DOMAIN attempts) <= MaxTrackedAttempts

(* "saturation evicts the least recently failed key" (same place): a key   *)
(* that failed recently is forgotten only by a success, or when the table  *)
(* is full of keys that all failed at least as recently.                   *)
EvictsLeastRecentlyFailed ==
  [][\A x \in DOMAIN attempts \ DOMAIN attempts' :
       \/ \E q \in Logins : place[q] = "accepted" /\ key[q] = x
       \/ attempts[x].updated < time - StaleAfter
       \/ /\ Cardinality(DOMAIN attempts) >= MaxTrackedAttempts
          /\ \A y \in DOMAIN attempts : attempts[x].updated <= attempts[y].updated]_limiterVars

(* "so each new key still accumulates backoff": while a key's failures are *)
(* remembered none is lost to a concurrent login, and the next try is      *)
(* barred for the doubled time since the latest of them.                   *)
BackoffAccumulates ==
  \A k \in Keys :
    streak[k] > 0 =>
      /\ k \in DOMAIN attempts
      /\ attempts[k].failures = streak[k]
      /\ attempts[k].next = lastFail[k] + 2 ^ Smaller(streak[k] - 1, MaxShift)

(* The slots that are taken are those of requests being checked: none      *)
(* leaks, so eight failed logins do not close the door.                    *)
SlotsBelongToLogins ==
  slots = Cardinality({q \in Logins : place[q] \in HasSlot})

(* The limits on memory and on concurrent checks are kept and leak         *)
(* nothing, and no failure that is remembered loses its weight to a        *)
(* concurrent login.                                                       *)
LimiterInv == LimiterTypeOK /\ TrackerBounded /\ SlotsBelongToLogins /\ BackoffAccumulates

(* LimiterInv at every step, and EvictsLeastRecentlyFailed of every step:  *)
(* bounds kept, slots returned, failures remembered in full and for as     *)
(* long as possible.                                                       *)
LimiterRules == []LimiterInv /\ EvictsLeastRecentlyFailed
==============================================================================
