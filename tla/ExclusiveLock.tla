---------------------------- MODULE ExclusiveLock ----------------------------
(***************************************************************************)
(* What the broker's resource locks promise to their callers: at any time   *)
(* a resource has at most one owner, a free resource can be taken, and only *)
(* its owner gives it back.  ResourceLocks implements this module.          *)
(***************************************************************************)
CONSTANTS Callers,   \* requests and background jobs that lock resources
          Resources, \* lock keys
          NoOwner

VARIABLE owner       \* owner[r]: the caller that owns r, or NoOwner

Init == owner = [r \in Resources |-> NoOwner]

Take(p, r) ==
  /\ owner[r] = NoOwner
  /\ owner' = [owner EXCEPT ![r] = p]

Give(p, r) ==
  /\ owner[r] = p
  /\ owner' = [owner EXCEPT ![r] = NoOwner]

Next == \E p \in Callers, r \in Resources : Take(p, r) \/ Give(p, r)

Spec == Init /\ [][Next]_owner

==============================================================================
