------------------------- MODULE ResourceLocksProofs -------------------------
(***************************************************************************)
(* LockInvariant is inductive, for any finite set of callers and any set   *)
(* of resources; mutual exclusion, the absence of leaked entries and the   *)
(* implementation of ExclusiveLock follow.                                 *)
(***************************************************************************)
EXTENDS ResourceLocks, FiniteSetTheorems, TLAPS

(* The callers that use an entry are finitely many, so refs is a number.   *)
LEMMA UsersFinite ==
  ASSUME NEW e \in Entries
  PROVE  IsFiniteSet(Users[e]) /\ Cardinality(Users[e]) \in Nat
  BY LocksAssumption, FS_Subset, FS_CardinalityType DEF Users

(* The empty table of newResourceLocks satisfies the invariant.            *)
LEMMA InitLockInvariant == Init => LockInvariant
  BY LocksAssumption DEF Init, LockInvariant, TypeOK, EntryIsRegistered, RefsCountUsers,
     NoLeakedEntry, UnlockNeverBlocks, MutualExclusion, Phases, Referencing

(* A caller that starts to use an entry nobody uses is its only user.      *)
LEMMA InstallKeepsInvariant ==
  ASSUME LockInvariant, NEW p \in Callers, NEW r \in Resources, NEW e \in Entries,
         NEW next \in {"waiting", "held"}, NEW tokens \in {0, 1},
         tokens = 0 <=> next = "held",
         phase[p] = "idle", locks[r] = NoEntry, FreshEntry(e),
         Install(r, e, tokens), Enter(p, r, e, next)
  PROVE  LockInvariant'
  <1> USE LocksAssumption
  <1>1. /\ Users'[e] = {p}
        /\ \A f \in Entries \ {e} : Users'[f] = Users[f]
    BY DEF LockInvariant, TypeOK, Users, FreshEntry, Enter, Referencing, Phases
  <1>2. TypeOK'
    BY DEF LockInvariant, TypeOK, Enter, Install, Phases, Referencing
  <1>3. EntryIsRegistered'
    BY DEF LockInvariant, TypeOK, EntryIsRegistered, Enter, Install, Referencing
  <1>4. RefsCountUsers'
    <2>1. Cardinality(Users'[e]) = 1
      BY <1>1, FS_Singleton, Zenon
    <2>2. /\ refs' = [refs EXCEPT ![e] = 1] /\ refs \in [Entries -> Nat]
          /\ locks' = [locks EXCEPT ![r] = e] /\ locks \in [Resources -> Entries \cup {NoEntry}]
          /\ \A s \in Resources : locks[s] # e
      BY DEF LockInvariant, TypeOK, Install, FreshEntry
    <2>3. ASSUME NEW s \in Resources, s # r, locks[s] # NoEntry
          PROVE  /\ locks[s] \in Entries \ {e} /\ refs[locks[s]] = Cardinality(Users[locks[s]])
                 /\ \A q \in Resources : locks[q] = locks[s] => q = s
      BY <2>2, <2>3 DEF LockInvariant, RefsCountUsers
    <2>4. ASSUME NEW s \in Resources, locks'[s] # NoEntry
          PROVE  /\ refs'[locks'[s]] = Cardinality(Users'[locks'[s]])
                 /\ \A q \in Resources : locks'[q] = locks'[s] => q = s
      BY <1>1, <2>1, <2>2, <2>3, <2>4, Zenon
    <2> QED
      BY <2>4 DEF RefsCountUsers
  <1>5. NoLeakedEntry'
    BY DEF LockInvariant, TypeOK, NoLeakedEntry, Enter, Install, Referencing
  <1>6. UnlockNeverBlocks'
    BY DEF LockInvariant, TypeOK, UnlockNeverBlocks, Enter, Install, FreshEntry, Phases
  <1>7. MutualExclusion'
    BY DEF LockInvariant, TypeOK, MutualExclusion, EntryIsRegistered, Enter, Referencing
  <1> QED BY <1>2, <1>3, <1>4, <1>5, <1>6, <1>7 DEF LockInvariant

(* Joining an existing entry adds one user and one reference.              *)
LEMMA JoinEntryKeepsInvariant ==
  ASSUME LockInvariant, NEW p \in Callers, NEW r \in Resources, JoinEntry(p, r)
  PROVE  LockInvariant'
  <1> USE LocksAssumption
  <1> DEFINE e == locks[r]
  <1>0. e \in Entries /\ p \notin Users[e] /\ locks' = locks /\ ready' = ready
    BY DEF LockInvariant, TypeOK, JoinEntry, Users, Referencing
  <1>1. /\ Users'[e] = Users[e] \cup {p}
        /\ \A f \in Entries \ {e} : Users'[f] = Users[f]
    BY <1>0 DEF LockInvariant, TypeOK, Users, JoinEntry, Enter, Referencing, Phases
  <1>2. TypeOK'
    BY <1>0 DEF LockInvariant, TypeOK, JoinEntry, Enter, Phases, Referencing
  <1>3. EntryIsRegistered'
    BY <1>0 DEF LockInvariant, TypeOK, EntryIsRegistered, JoinEntry, Enter, Referencing
  <1>4. RefsCountUsers'
    <2>1. Cardinality(Users'[e]) = Cardinality(Users[e]) + 1
      BY <1>0, <1>1, UsersFinite, FS_AddElement, Zenon
    <2>2. refs'[e] = refs[e] + 1 /\ \A f \in Entries \ {e} : refs'[f] = refs[f]
      BY <1>0 DEF LockInvariant, TypeOK, JoinEntry
    <2>3. refs[e] = Cardinality(Users[e])
      BY <1>0 DEF LockInvariant, TypeOK, RefsCountUsers
    <2>4. ASSUME NEW s \in Resources, locks[s] # NoEntry
          PROVE  refs'[locks[s]] = Cardinality(Users'[locks[s]])
      <3>1. locks[s] \in Entries /\ refs[locks[s]] = Cardinality(Users[locks[s]])
        BY <2>4 DEF LockInvariant, TypeOK, RefsCountUsers
      <3>2. CASE locks[s] = e
        BY <3>2, <2>1, <2>2, <2>3
      <3>3. CASE locks[s] # e
        BY <3>1, <3>3, <1>1, <2>2
      <3> QED BY <3>2, <3>3
    <2> QED
      BY <1>0, <2>4 DEF LockInvariant, TypeOK, RefsCountUsers
  <1>5. NoLeakedEntry'
    BY <1>0 DEF LockInvariant, TypeOK, NoLeakedEntry, JoinEntry, Enter, Referencing
  <1>6. UnlockNeverBlocks'
    BY <1>0 DEF LockInvariant, TypeOK, UnlockNeverBlocks, JoinEntry, Enter, Phases
  <1>7. MutualExclusion'
    BY DEF LockInvariant, TypeOK, MutualExclusion, JoinEntry, Enter
  <1> QED BY <1>2, <1>3, <1>4, <1>5, <1>6, <1>7 DEF LockInvariant

(* Steps that only move a caller between phases in which it has the same   *)
(* reference: nothing but the token and that caller's phase changes.       *)
LEMMA PhaseStepKeepsInvariant ==
  ASSUME LockInvariant, NEW p \in Callers,
         Acquire(p) \/ CancelWait(p) \/ ReturnToken(p)
  PROVE  LockInvariant'
  <1> USE LocksAssumption DEF Acquire, CancelWait, ReturnToken
  <1>0. /\ phase[p] \in Referencing /\ phase'[p] \in Referencing
        /\ UNCHANGED <<locks, refs, resource, entry>>
    BY DEF LockInvariant, TypeOK, Referencing
  <1>1. Users' = Users
    BY <1>0 DEF LockInvariant, TypeOK, Users
  <1>2. TypeOK'
    BY <1>0 DEF LockInvariant, TypeOK, Phases, Referencing
  <1>3. EntryIsRegistered' /\ RefsCountUsers' /\ NoLeakedEntry'
    BY <1>0, <1>1 DEF LockInvariant, TypeOK, EntryIsRegistered, RefsCountUsers, NoLeakedEntry
  <1>4. UnlockNeverBlocks' /\ MutualExclusion'
    BY <1>0 DEF LockInvariant, TypeOK, UnlockNeverBlocks, MutualExclusion, EntryIsRegistered,
       RefsCountUsers, Referencing
  <1> QED BY <1>2, <1>3, <1>4 DEF LockInvariant

(* A refused tryLock leaves the table alone and has no reference.          *)
LEMMA RefusalKeepsInvariant ==
  ASSUME LockInvariant, NEW p \in Callers,
         Forget(p) \/ \E r \in Resources : TryLockRefused(p, r)
  PROVE  LockInvariant'
  <1> USE LocksAssumption DEF Forget, TryLockRefused, Enter
  <1>0. /\ phase[p] \notin Referencing /\ phase'[p] \notin Referencing
        /\ entry' = entry /\ UNCHANGED <<locks, ready, refs>>
        /\ \A q \in Callers \ {p} : phase'[q] = phase[q] /\ resource'[q] = resource[q]
    BY DEF LockInvariant, TypeOK, Referencing
  <1>1. Users' = Users
    BY <1>0 DEF LockInvariant, TypeOK, Users
  <1>2. TypeOK'
    BY <1>0 DEF LockInvariant, TypeOK, Phases, Referencing
  <1>3. EntryIsRegistered' /\ RefsCountUsers' /\ NoLeakedEntry'
    BY <1>0, <1>1 DEF LockInvariant, TypeOK, EntryIsRegistered, RefsCountUsers, NoLeakedEntry
  <1>4. UnlockNeverBlocks' /\ MutualExclusion'
    BY <1>0 DEF LockInvariant, TypeOK, UnlockNeverBlocks, MutualExclusion, Referencing
  <1> QED BY <1>2, <1>3, <1>4 DEF LockInvariant

(* releaseReference takes one user and one reference away, and deletes the *)
(* key exactly when no user is left.                                       *)
LEMMA ReleaseKeepsInvariant ==
  ASSUME LockInvariant, NEW p \in Callers, ReleaseReference(p)
  PROVE  LockInvariant'
  <1> USE LocksAssumption
  <1> DEFINE e == entry[p]
             r == resource[p]
  <1>0. /\ e \in Entries /\ r \in Resources /\ locks[r] = e /\ p \in Users[e]
        /\ ready' = ready
    BY DEF LockInvariant, TypeOK, EntryIsRegistered, ReleaseReference, Users, Referencing
  <1>1. /\ Users'[e] = Users[e] \ {p}
        /\ \A f \in Entries \ {e} : Users'[f] = Users[f]
    BY <1>0 DEF LockInvariant, TypeOK, Users, ReleaseReference, Enter, Referencing, Phases
  <1>2. /\ refs[e] = Cardinality(Users[e]) /\ refs[e] \in Nat
        /\ Cardinality(Users'[e]) = refs[e] - 1
        /\ refs[e] = 1 <=> Users'[e] = {}
        /\ refs[e] >= 1
    <2>1. /\ refs[e] = Cardinality(Users[e]) /\ refs[e] \in Nat
          /\ Cardinality(Users'[e]) = refs[e] - 1
          /\ IsFiniteSet(Users'[e])
      <3>1. refs[e] = Cardinality(Users[e]) /\ refs[e] \in Nat
        BY <1>0 DEF LockInvariant, TypeOK, RefsCountUsers
      <3>2. IsFiniteSet(Users[e])
        BY <1>0, UsersFinite
      <3>3. IsFiniteSet(Users[e] \ {p}) /\ Cardinality(Users[e] \ {p}) = Cardinality(Users[e]) - 1
        BY <1>0, <3>2, FS_RemoveElement, SMTT(30)
      <3> QED BY <1>1, <3>1, <3>3
    <2>2. refs[e] # 0
      BY <1>0, <2>1, UsersFinite, FS_EmptySet
    <2> QED BY <2>1, <2>2, FS_EmptySet
  <1>3. TypeOK'
    BY <1>0, <1>2 DEF LockInvariant, TypeOK, ReleaseReference, Enter, Phases, Referencing
  <1>4. EntryIsRegistered'
    <2> SUFFICES ASSUME NEW q \in Callers, phase'[q] \in Referencing
                 PROVE  locks'[resource'[q]] = entry'[q]
      BY DEF EntryIsRegistered
    <2>1. /\ q # p /\ phase[q] \in Referencing /\ resource'[q] = resource[q]
          /\ entry'[q] = entry[q] /\ locks[resource[q]] = entry[q]
          /\ resource[q] \in Resources /\ entry[q] \in Entries
      BY DEF LockInvariant, TypeOK, EntryIsRegistered, ReleaseReference, Enter, Referencing
    <2>2. CASE resource[q] = r
      <3>1. q \in Users'[e]
        BY <1>0, <1>1, <2>1, <2>2 DEF LockInvariant, TypeOK, Users
      <3> QED BY <1>0, <1>2, <2>1, <2>2, <3>1 DEF LockInvariant, TypeOK, ReleaseReference
    <2>3. CASE resource[q] # r
      BY <1>0, <2>1, <2>3 DEF LockInvariant, TypeOK, ReleaseReference
    <2> QED BY <2>2, <2>3
  <1>5. RefsCountUsers'
    <2> SUFFICES ASSUME NEW s \in Resources, locks'[s] # NoEntry
                 PROVE  /\ refs'[locks'[s]] = Cardinality(Users'[locks'[s]])
                        /\ \A t \in Resources : locks'[t] = locks'[s] => t = s
      BY DEF RefsCountUsers
    <2>1. /\ locks'[s] = locks[s] /\ locks[s] \in Entries
          /\ \A t \in Resources : locks'[t] = locks[t] \/ locks'[t] = NoEntry
      BY <1>0 DEF LockInvariant, TypeOK, ReleaseReference
    <2>2. refs'[locks'[s]] = Cardinality(Users'[locks'[s]])
      BY <1>0, <1>1, <1>2, <2>1, Zenon DEF LockInvariant, TypeOK, RefsCountUsers, ReleaseReference
    <2>3. \A t \in Resources : locks'[t] = locks'[s] => t = s
      BY <2>1 DEF LockInvariant, TypeOK, RefsCountUsers
    <2> QED BY <2>2, <2>3
  <1>6. NoLeakedEntry'
    <2> SUFFICES ASSUME NEW s \in Resources, locks'[s] # NoEntry
                 PROVE  \E q \in Callers : phase'[q] \in Referencing /\ resource'[q] = s
      BY DEF NoLeakedEntry
    <2>1. CASE s = r
      <3>1. PICK q \in Users'[e] : TRUE
        BY <1>0, <1>2, <2>1 DEF LockInvariant, TypeOK, ReleaseReference
      <3>2. q \in Callers /\ q # p /\ phase'[q] \in Referencing /\ entry[q] = e
            /\ phase[q] \in Referencing /\ resource'[q] = resource[q]
        BY <1>0, <3>1 DEF LockInvariant, TypeOK, Users, ReleaseReference, Enter, Referencing
      <3>3. resource[q] = r
        BY <1>0, <3>2 DEF LockInvariant, TypeOK, EntryIsRegistered, RefsCountUsers, Referencing
      <3> QED BY <2>1, <3>2, <3>3
    <2>2. CASE s # r
      BY <1>0, <2>2 DEF LockInvariant, TypeOK, NoLeakedEntry, ReleaseReference, Enter, Referencing
    <2> QED BY <2>1, <2>2
  <1>7. UnlockNeverBlocks' /\ MutualExclusion'
    BY <1>0 DEF LockInvariant, TypeOK, UnlockNeverBlocks, MutualExclusion, ReleaseReference, Enter
  <1> QED BY <1>3, <1>4, <1>5, <1>6, <1>7 DEF LockInvariant

(* LockInvariant is preserved by every step of the table's callers.        *)
LEMMA NextLockInvariant == LockInvariant /\ [Next]_lockVars => LockInvariant'
  <1> SUFFICES ASSUME LockInvariant, [Next]_lockVars PROVE LockInvariant'
    OBVIOUS
  <1>1. ASSUME NEW p \in Callers, NEW r \in Resources, TryLock(p, r)
        PROVE  LockInvariant'
    <2>1. PICK e \in Entries : FreshEntry(e) /\ Install(r, e, 0) /\ Enter(p, r, e, "held")
      BY <1>1 DEF TryLock
    <2> QED BY <1>1, <2>1, InstallKeepsInvariant DEF TryLock
  <1>2. ASSUME NEW p \in Callers, NEW r \in Resources, CreateEntry(p, r)
        PROVE  LockInvariant'
    <2>1. PICK e \in Entries : FreshEntry(e) /\ Install(r, e, 1) /\ Enter(p, r, e, "waiting")
      BY <1>2 DEF CreateEntry
    <2> QED BY <1>2, <2>1, InstallKeepsInvariant DEF CreateEntry
  <1>3. CASE UNCHANGED lockVars
    <2>1. Users' = Users
      BY <1>3 DEF lockVars, Users
    <2> QED
      BY <1>3, <2>1 DEF lockVars, LockInvariant, TypeOK, EntryIsRegistered, RefsCountUsers,
         NoLeakedEntry, UnlockNeverBlocks, MutualExclusion
  <1>4. ASSUME NEW p \in Callers, NEW r \in Resources, JoinEntry(p, r)
        PROVE  LockInvariant'
    BY <1>4, JoinEntryKeepsInvariant
  <1>5. ASSUME NEW p \in Callers, Acquire(p) \/ CancelWait(p) \/ ReturnToken(p)
        PROVE  LockInvariant'
    BY <1>5, PhaseStepKeepsInvariant
  <1>6. ASSUME NEW p \in Callers, Forget(p) \/ \E r \in Resources : TryLockRefused(p, r)
        PROVE  LockInvariant'
    BY <1>6, RefusalKeepsInvariant
  <1>7. ASSUME NEW p \in Callers, ReleaseReference(p)
        PROVE  LockInvariant'
    BY <1>7, ReleaseKeepsInvariant
  <1> QED
    BY <1>1, <1>2, <1>3, <1>4, <1>5, <1>6, <1>7 DEF Next, Lock

(* The lock table's invariant holds for any number of callers, resources   *)
(* and entries: one entry per resource in use, its count right, one token. *)
THEOREM LockTableCorrect == Spec => []LockInvariant
  BY InitLockInvariant, NextLockInvariant, PTL DEF Spec

(* Two requests or jobs never hold the lock on one resource.               *)
THEOREM LocksExclude == Spec => []MutualExclusion
  <1>1. LockInvariant => MutualExclusion
    BY DEF LockInvariant
  <1> QED BY <1>1, LockTableCorrect, PTL

(* An entry left in the map always belongs to a caller on its way.         *)
THEOREM NoEntryLeaks == Spec => []NoLeakedEntry
  <1>1. LockInvariant => NoLeakedEntry
    BY DEF LockInvariant
  <1> QED BY <1>1, LockTableCorrect, PTL

(* tryLock's "already has a maintenance job" is never said of a resource   *)
(* that no other caller uses.                                              *)
THEOREM RefusalsAreJustified == Spec => NoSpuriousRefusal
  <1> DEFINE Justified ==
        \A p \in Callers :
          phase[p] = "idle" /\ phase'[p] = "refused" =>
            \E q \in Callers \ {p} :
              phase[q] \in Referencing /\ resource[q] = resource'[p]
  <1>1. LockInvariant /\ [Next]_lockVars => [Justified]_lockVars
    <2> SUFFICES ASSUME LockInvariant, Next, NEW p \in Callers,
                        phase[p] = "idle", phase'[p] = "refused"
                 PROVE  \E q \in Callers \ {p} :
                          phase[q] \in Referencing /\ resource[q] = resource'[p]
      OBVIOUS
    <2>1. PICK r \in Resources : TryLockRefused(p, r)
      BY DEF Next, Lock, TryLock, TryLockRefused, JoinEntry, CreateEntry, Forget, Acquire,
         CancelWait, ReturnToken, ReleaseReference, Enter, LockInvariant, TypeOK
    <2>2. resource'[p] = r /\ locks[r] # NoEntry
      BY <2>1 DEF TryLockRefused, Enter, LockInvariant, TypeOK
    <2> QED BY <2>2 DEF LockInvariant, NoLeakedEntry, Referencing
  <1> QED BY <1>1, LockTableCorrect, PTL DEF Spec, NoSpuriousRefusal

(* Who owns a resource, as the invariant lets one say it without CHOOSE.   *)
Holds(p, r) == phase[p] = "held" /\ resource[p] = r

OwnerIsHolder ==
  /\ owner \in [Resources -> Callers \cup {NoResource}]
  /\ \A r \in Resources, p \in Callers : Holds(p, r) => owner[r] = p
  /\ \A r \in Resources : (\A p \in Callers : ~Holds(p, r)) => owner[r] = NoResource

(* The mapping picks the holder, which MutualExclusion makes unique.       *)
LEMMA OwnerLemma == LockInvariant => OwnerIsHolder
  <1> SUFFICES ASSUME LockInvariant PROVE OwnerIsHolder
    OBVIOUS
  <1>1. ASSUME NEW r \in Resources, NEW p \in Callers, Holds(p, r)
        PROVE  owner[r] = p
    BY <1>1 DEF owner, Holds, LockInvariant, MutualExclusion
  <1>2. ASSUME NEW r \in Resources, \A p \in Callers : ~Holds(p, r)
        PROVE  owner[r] = NoResource
    BY <1>2 DEF owner, Holds
  <1>3. owner \in [Resources -> Callers \cup {NoResource}]
    BY DEF owner
  <1> QED BY <1>1, <1>2, <1>3 DEF OwnerIsHolder

(* The lock table implements ExclusiveLock: a free resource is taken by    *)
(* one caller and given back by that caller, and nothing else is visible.  *)
THEOREM LocksImplementExclusiveLock == Spec => ImplementsExclusiveLock
  <1>1. Init => Abstract!Init
    BY DEF Init, Abstract!Init, owner
  <1>2. LockInvariant /\ LockInvariant' /\ OwnerIsHolder /\ OwnerIsHolder' /\ [Next]_lockVars
          => [Abstract!Next]_owner
    <2> SUFFICES ASSUME LockInvariant, LockInvariant', OwnerIsHolder, OwnerIsHolder',
                        [Next]_lockVars
                 PROVE  [Abstract!Next]_owner
      OBVIOUS
    <2>1. ASSUME \A q \in Callers : /\ phase'[q] = "held" <=> phase[q] = "held"
                                    /\ phase[q] = "held" => resource'[q] = resource[q]
          PROVE  owner' = owner
      BY <2>1, Zenon DEF owner
    <2>2. ASSUME NEW p \in Callers, NEW r \in Resources, ~Holds(p, r), Holds(p, r)',
                 \A q \in Callers \ {p} : phase'[q] = phase[q] /\ resource'[q] = resource[q],
                 phase[p] # "held"
          PROVE  Abstract!Take(p, r)
      <3>1. \A q \in Callers : ~Holds(q, r)
        BY <2>2 DEF Holds, LockInvariant, MutualExclusion
      <3>2. owner[r] = NoResource /\ owner'[r] = p
        BY <2>2, <3>1 DEF OwnerIsHolder
      <3>3. ASSUME NEW s \in Resources \ {r} PROVE owner'[s] = owner[s]
        BY <2>2, <3>3 DEF OwnerIsHolder, Holds
      <3> QED BY <3>2, <3>3 DEF Abstract!Take, OwnerIsHolder
    <2>3. ASSUME NEW p \in Callers, NEW r \in Resources, Holds(p, r), phase'[p] # "held",
                 \A q \in Callers \ {p} : phase'[q] = phase[q] /\ resource'[q] = resource[q]
          PROVE  Abstract!Give(p, r)
      <3>1. \A q \in Callers : ~Holds(q, r)'
        BY <2>3 DEF Holds, LockInvariant, MutualExclusion
      <3>2. owner[r] = p /\ owner'[r] = NoResource
        BY <2>3, <3>1 DEF OwnerIsHolder
      <3>3. ASSUME NEW s \in Resources \ {r} PROVE owner'[s] = owner[s]
        BY <2>3, <3>3 DEF OwnerIsHolder, Holds
      <3> QED BY <3>2, <3>3 DEF Abstract!Give, OwnerIsHolder
    <2> USE DEF LockInvariant, TypeOK
    <2>4. ASSUME NEW p \in Callers, NEW r \in Resources, TryLock(p, r)
          PROVE  Abstract!Take(p, r)
      BY <2>2, <2>4 DEF TryLock, Enter, Holds
    <2>5. ASSUME NEW p \in Callers, Acquire(p)
          PROVE  \E r \in Resources : Abstract!Take(p, r)
      BY <2>2, <2>5 DEF Acquire, Holds
    <2>6. ASSUME NEW p \in Callers, ReturnToken(p)
          PROVE  \E r \in Resources : Abstract!Give(p, r)
      BY <2>3, <2>6 DEF ReturnToken, Holds
    <2>7. ASSUME NEW p \in Callers, NEW r \in Resources, TryLockRefused(p, r) \/ Lock(p, r)
          PROVE  owner' = owner
      BY <2>1, <2>7 DEF TryLockRefused, Lock, JoinEntry, CreateEntry, Enter
    <2>8. ASSUME NEW p \in Callers, Forget(p) \/ CancelWait(p) \/ ReleaseReference(p)
          PROVE  owner' = owner
      BY <2>1, <2>8 DEF Forget, CancelWait, ReleaseReference, Enter
    <2>9. ASSUME UNCHANGED lockVars PROVE owner' = owner
      BY <2>9 DEF lockVars, owner
    <2> QED
      BY <2>4, <2>5, <2>6, <2>7, <2>8, <2>9 DEF Next, Abstract!Next
  <1> QED
    BY <1>1, <1>2, LockTableCorrect, OwnerLemma, PTL DEF Spec, ImplementsExclusiveLock, Abstract!Spec
==============================================================================
