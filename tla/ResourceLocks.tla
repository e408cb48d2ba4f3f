---------------------------- MODULE ResourceLocks ----------------------------
(***************************************************************************)
(* The broker's keyed lock table (internal/broker/serialize.go).           *)
(*                                                                         *)
(* A resource that is locked or waited for has an entry on the heap, with  *)
(* a one-slot channel "ready" that holds a token when nobody holds the     *)
(* lock, and a count "refs" of the callers that use the entry.  The map    *)
(* "locks" leads from a resource to its entry; both the map and refs are   *)
(* guarded by one mutex, so each critical section is one action.  Between  *)
(* two critical sections anything may happen: a caller that waits, that is *)
(* cancelled, or that has put its token back still has its reference.      *)
(***************************************************************************)
EXTENDS Naturals, FiniteSets

CONSTANTS Callers,   \* goroutines that lock resources
          Resources, \* lock keys
          Entries,   \* heap cells for resourceLock values
          NoEntry, NoResource

ASSUME LocksAssumption ==
  /\ IsFiniteSet(Callers)
  /\ NoEntry \notin Entries
  /\ NoResource \notin Resources

VARIABLES locks,    \* the map: a resource's entry, or NoEntry
          ready,    \* tokens in an entry's channel
          refs,     \* an entry's reference count
          phase,    \* where a caller stands in its call
          resource, \* the resource a caller locks
          entry     \* the entry a caller's closure captured

lockVars == <<locks, ready, refs, phase, resource, entry>>

(* "refused": tryLock returned false.  "waiting": in lock's select.        *)
(* "cancelled" and "returned": about to call releaseReference, after       *)
(* ctx.Done() and after putting the token back.                            *)
Phases == {"idle", "refused", "waiting", "held", "cancelled", "returned"}

Referencing == {"waiting", "held", "cancelled", "returned"}

Users == [e \in Entries |-> {p \in Callers : phase[p] \in Referencing /\ entry[p] = e}]

(* An address a new resourceLock can get: no pointer to it is left.        *)
FreshEntry(e) ==
  /\ \A r \in Resources : locks[r] # e
  /\ \A p \in Callers : entry[p] # e

TypeOK ==
  /\ locks \in [Resources -> Entries \cup {NoEntry}]
  /\ ready \in [Entries -> 0..1]
  /\ refs \in [Entries -> Nat]
  /\ phase \in [Callers -> Phases]
  /\ resource \in [Callers -> Resources \cup {NoResource}]
  /\ entry \in [Callers -> Entries \cup {NoEntry}]
  /\ \A p \in Callers :
       /\ entry[p] # NoEntry <=> phase[p] \in Referencing
       /\ resource[p] # NoResource <=> phase[p] # "idle"

Init ==
  /\ locks = [r \in Resources |-> NoEntry]
  /\ ready = [e \in Entries |-> 0]
  /\ refs = [e \in Entries |-> 0]
  /\ phase = [p \in Callers |-> "idle"]
  /\ resource = [p \in Callers |-> NoResource]
  /\ entry = [p \in Callers |-> NoEntry]

------------------------------------------------------------------------------
(* The caller's closure now refers to entry e of resource r.               *)
Enter(p, r, e, next) ==
  /\ phase' = [phase EXCEPT ![p] = next]
  /\ resource' = [resource EXCEPT ![p] = r]
  /\ entry' = [entry EXCEPT ![p] = e]

(* Put a new entry for r into the map.                                     *)
Install(r, e, tokens) ==
  /\ locks' = [locks EXCEPT ![r] = e]
  /\ ready' = [ready EXCEPT ![e] = tokens]
  /\ refs' = [refs EXCEPT ![e] = 1]

(* Mutant: tryLock installs its entry without looking at the map.          *)
TryLockOverwrites(p, r) ==
  /\ phase[p] = "idle"
  /\ \E e \in Entries : FreshEntry(e) /\ Install(r, e, 0) /\ Enter(p, r, e, "held")

(* tryLock on a resource without an entry: the new entry has an empty      *)
(* channel, so its creator already holds the lock.                         *)
TryLock(p, r) ==
  /\ phase[p] = "idle"
  /\ locks[r] = NoEntry
  /\ \E e \in Entries :
       /\ FreshEntry(e)
       /\ Install(r, e, 0)
       /\ Enter(p, r, e, "held")

TryLockRefused(p, r) ==
  /\ phase[p] = "idle"
  /\ locks[r] # NoEntry
  /\ Enter(p, r, NoEntry, "refused")
  /\ UNCHANGED <<locks, ready, refs>>

(* The refused caller goes on with its own business.                       *)
Forget(p) ==
  /\ phase[p] = "refused"
  /\ Enter(p, NoResource, NoEntry, "idle")
  /\ UNCHANGED <<locks, ready, refs>>

(* lock's critical section: find or create the entry and count this caller.*)
JoinEntry(p, r) ==
  /\ phase[p] = "idle"
  /\ locks[r] # NoEntry
  /\ refs' = [refs EXCEPT ![locks[r]] = @ + 1]
  /\ Enter(p, r, locks[r], "waiting")
  /\ UNCHANGED <<locks, ready>>

CreateEntry(p, r) ==
  /\ phase[p] = "idle"
  /\ locks[r] = NoEntry
  /\ \E e \in Entries :
       /\ FreshEntry(e)
       /\ Install(r, e, 1)
       /\ Enter(p, r, e, "waiting")

Lock(p, r) == JoinEntry(p, r) \/ CreateEntry(p, r)

(* Mutant: a cancelled waiter returns without releaseReference.            *)
CancelKeepsReference(p) ==
  /\ phase[p] = "waiting"
  /\ Enter(p, NoResource, NoEntry, "idle")
  /\ UNCHANGED <<locks, ready, refs>>

(* The two arms of lock's select; when both are ready Go picks either.     *)
Acquire(p) ==
  /\ phase[p] = "waiting"
  /\ ready[entry[p]] = 1
  /\ ready' = [ready EXCEPT ![entry[p]] = 0]
  /\ phase' = [phase EXCEPT ![p] = "held"]
  /\ UNCHANGED <<locks, refs, resource, entry>>

CancelWait(p) ==
  /\ phase[p] = "waiting"
  /\ phase' = [phase EXCEPT ![p] = "cancelled"]
  /\ UNCHANGED <<locks, ready, refs, resource, entry>>

(* Mutant: unlock only releases its reference.                             *)
UnlockWithoutToken(p) ==
  /\ phase[p] = "held"
  /\ phase' = [phase EXCEPT ![p] = "returned"]
  /\ UNCHANGED <<locks, ready, refs, resource, entry>>

(* The unlock closure, first half: the send blocks while the slot is full. *)
ReturnToken(p) ==
  /\ phase[p] = "held"
  /\ ready[entry[p]] = 0
  /\ ready' = [ready EXCEPT ![entry[p]] = 1]
  /\ phase' = [phase EXCEPT ![p] = "returned"]
  /\ UNCHANGED <<locks, refs, resource, entry>>

(* The last user deletes the map's key without looking at what it leads to.*)
ReleaseReference(p) ==
  /\ phase[p] \in {"cancelled", "returned"}
  /\ refs' = [refs EXCEPT ![entry[p]] = @ - 1]
  /\ locks' = [locks EXCEPT ![resource[p]] = IF refs[entry[p]] = 1 THEN NoEntry ELSE @]
  /\ Enter(p, NoResource, NoEntry, "idle")
  /\ UNCHANGED ready

Next ==
  \E p \in Callers :
    \/ \E r \in Resources : TryLock(p, r) \/ TryLockRefused(p, r) \/ Lock(p, r)
    \/ Forget(p)
    \/ Acquire(p)
    \/ CancelWait(p)
    \/ ReturnToken(p)
    \/ ReleaseReference(p)

Spec == Init /\ [][Next]_lockVars

(* A goroutine that can run runs.  A holder comes to its unlock (handlers  *)
(* return) and a waiter that is passed over again and again is served at   *)
(* last, since blocked receivers of a Go channel form a queue; a cancelled *)
(* request is not owed.                                                    *)
Fairness ==
  \A p \in Callers :
    /\ SF_lockVars(Acquire(p))
    /\ WF_lockVars(ReturnToken(p))
    /\ WF_lockVars(ReleaseReference(p))

FairSpec == Spec /\ Fairness

------------------------------------------------------------------------------
(* Two callers never hold the same resource: tryLock and lock, creating    *)
(* and joining entries in any order, keep one token per resource.          *)
MutualExclusion ==
  \A p, q \in Callers :
    phase[p] = "held" /\ phase[q] = "held" /\ resource[p] = resource[q] => p = q

(* While a caller has a reference, the map leads to the entry that caller  *)
(* captured: no releaseReference deletes an entry that is in use, so no    *)
(* second entry for the resource can appear beside it.                     *)
EntryIsRegistered ==
  \A p \in Callers : phase[p] \in Referencing => locks[resource[p]] = entry[p]

(* The unlock closure's send never blocks: a holder's channel is empty.    *)
UnlockNeverBlocks ==
  \A p \in Callers : phase[p] = "held" => ready[entry[p]] = 0

(* An entry in the map is one some caller still uses; the table does not   *)
(* grow with the resources ever locked.                                    *)
NoLeakedEntry ==
  \A r \in Resources :
    locks[r] # NoEntry =>
      \E p \in Callers : phase[p] \in Referencing /\ resource[p] = r

(* Different resources have different entries, and an entry's count is the *)
(* number of callers that have yet to call releaseReference on it.         *)
RefsCountUsers ==
  \A r \in Resources :
    locks[r] # NoEntry =>
      /\ refs[locks[r]] = Cardinality(Users[locks[r]])
      /\ \A s \in Resources : locks[s] = locks[r] => s = r

(* tryLock refuses only because of a caller that is busy with the resource:*)
(* holding it, waiting for it, or on its way out.                          *)
NoSpuriousRefusal ==
  [][\A p \in Callers :
       phase[p] = "idle" /\ phase'[p] = "refused" =>
         \E q \in Callers \ {p} :
           phase[q] \in Referencing /\ resource[q] = resource'[p]]_lockVars

(* A caller in lock's select does not wait for ever.                       *)
WaiterServed ==
  \A p \in Callers : phase[p] = "waiting" ~> phase[p] # "waiting"

(* The conjunction that every step preserves: MutualExclusion rests on the *)
(* token discipline, which rests on one entry per resource, which rests on *)
(* the counts.                                                             *)
LockInvariant ==
  /\ TypeOK
  /\ EntryIsRegistered
  /\ RefsCountUsers
  /\ NoLeakedEntry
  /\ UnlockNeverBlocks
  /\ MutualExclusion

(* The owner of a resource is the caller between acquiring the token and   *)
(* putting it back.                                                        *)
owner ==
  [r \in Resources |->
     IF \E p \in Callers : phase[p] = "held" /\ resource[p] = r
     THEN CHOOSE p \in Callers : phase[p] = "held" /\ resource[p] = r
     ELSE NoResource]

Abstract == INSTANCE ExclusiveLock WITH NoOwner <- NoResource

(* Seen through owner, every step takes a free resource, gives back an     *)
(* owned one, or changes nothing.                                          *)
ImplementsExclusiveLock == Abstract!Spec
==============================================================================
