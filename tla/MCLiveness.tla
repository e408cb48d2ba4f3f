----------------------------- MODULE MCLiveness ------------------------------
(***************************************************************************)
(* What must happen in the end, on small instances: the lock table, the    *)
(* registry on it, requests through authorize, the start of the broker,    *)
(* the storage inventory and the removal of a remote mount.  They share no *)
(* variable, so a behaviour moves one of them (`which`) and leaves the     *)
(* others as they begin: their states add up instead of multiplying.       *)
(*                                                                         *)
(* Each property is claimed of its component under that component's        *)
(* fairness, which is its hypothesis.                                      *)
(***************************************************************************)
EXTENDS ResourceLocks

CONSTANTS q1, q2, r1, e1, e2, d1, d2, t1, a1, res, nobody, foreign, meanwhile, alike

VARIABLES which,
          held, tokens, counts, at, wants, has, audit, auditSeq, jobs, jobSeq, auditOf,
          broker, stops, goroutine, task, effect,
          groups, sessions, pc, account, op, admin, memberships, holder,
          boot, probed, stage, caps, dial, conn, canceled, client, sock, adv, advBy, req, answer,
          now, call, work, cache,
          disk, manifest, made, enabled, armed, mounted, job, working, used, faults,
          unnoted, cut, undone, deleted

R == INSTANCE ActionRegistry WITH
       locks <- held, ready <- tokens, refs <- counts, phase <- at, resource <- wants, entry <- has,
       pc <- goroutine, Requests <- {q1, q2}, Resources <- {r1}, Entries <- {e1, e2},
       Definitions <- [mode : {"foreground", "background"}, lock : {r1}],
       AuditLimit <- 1, JobLimit <- 1, MaxID <- 1, MaxStops <- 1, StoreFaults <- FALSE

Q == INSTANCE BrokerRequests WITH
       held <- memberships, owner <- holder, at <- pc, loggedIn <- sessions,
       Requests <- {q1, q2}, Accounts <- {a1}, Resource <- res, NoOwner <- nobody,
       Operations <- {[admin |-> TRUE, locks |-> TRUE]}

G == INSTANCE Gating WITH Dev <- FALSE, Probeable <- <<{"systemd", "podman"}, {"systemd"}>>

S == INSTANCE StorageCollection WITH
       Calls <- {"c1"}, Cores <- {"block", "mount"}, Optional <- {"smart"}, Cached <- {"smart"},
       TTL <- 2, CollectTimeout <- 1, OverallTimeout <- 2, MaxTime <- 3

M == INSTANCE RemoteMounts WITH
       work <- working, Definitions <- {d1, d2}, Targets <- {t1}, Target <- [d \in {d1, d2} |-> t1],
       WithCredentials <- {d1}, Workers <- {"w1"}, Nobody <- nobody, Foreign <- foreign,
       Meanwhile <- meanwhile, Alike <- alike, MaxFaults <- 1

registryVars == <<held, tokens, counts, at, wants, has, audit, auditSeq, jobs, jobSeq, auditOf,
                  broker, stops, goroutine, task, effect>>
requestVars == <<groups, sessions, pc, account, op, admin, memberships, holder>>
gatingVars == <<boot, probed, stage, caps, dial, conn, canceled, client, sock, adv, advBy, req, answer>>
collectionVars == <<now, call, work, cache>>
mountVars == <<disk, manifest, made, enabled, armed, mounted, job, working, used, faults,
               unnoted, cut, undone, deleted>>

MCInit ==
  /\ which \in {"locks", "registry", "requests", "start", "inventory", "mounts"}
  /\ Init /\ R!Init /\ Q!RequestInit /\ G!GatingInit /\ S!CollectionInit /\ M!Init
  /\ which = "start" \/ sock = "absent"
  /\ which = "mounts" \/ \A f \in DOMAIN disk : disk[f] = nobody

MCNext ==
  /\ UNCHANGED which
  /\ \/ /\ which = "locks" /\ Next
        /\ UNCHANGED <<registryVars, requestVars, gatingVars, collectionVars, mountVars>>
     \/ /\ which = "registry" /\ R!Next
        /\ UNCHANGED <<lockVars, requestVars, gatingVars, collectionVars, mountVars>>
     \/ /\ which = "requests" /\ Q!RequestNext
        /\ UNCHANGED <<lockVars, registryVars, gatingVars, collectionVars, mountVars>>
     \/ /\ which = "start" /\ G!GatingNext
        /\ UNCHANGED <<lockVars, registryVars, requestVars, collectionVars, mountVars>>
     \/ /\ which = "inventory" /\ S!CollectionNext
        /\ UNCHANGED <<lockVars, registryVars, requestVars, gatingVars, mountVars>>
     \/ /\ which = "mounts" /\ M!Next
        /\ UNCHANGED <<lockVars, registryVars, requestVars, gatingVars, collectionVars>>

MCSpec ==
  MCInit /\ [][MCNext]_<<which, lockVars, registryVars, requestVars, gatingVars, collectionVars, mountVars>>

------------------------------------------------------------------------------
(* NoSpuriousRefusal and, under fairness, WaiterServed of ResourceLocks: a *)
(* resource is refused only while it is busy, and nobody waits for ever.   *)
LocksServe == NoSpuriousRefusal /\ (which = "locks" /\ Fairness => WaiterServed)

(* RegistrySettles of ActionRegistry, under its fairness: jobs come to a   *)
(* final status and requests end.                                          *)
RegistrySettles ==
  /\ which = "registry"
  /\ \A q \in {q1, q2} : WF_registryVars(R!Advance(q)) /\ SF_registryVars(R!LockAcquired(q))
  /\ WF_registryVars(R!ShutDown) /\ WF_registryVars(R!Restart)
  => R!RegistrySettles

(* RevocationTakesHold of BrokerRequests, under its fairness.              *)
RevocationTakesHold ==
  /\ which = "requests"
  /\ \A q \in {q1, q2} : WF_requestVars(Q!RequestStep(q)) /\ SF_requestVars(Q!LockTaken(q))
  => Q!RevocationTakesHold

(* StartEnds of Gating, under its fairness: the broker serves or fails,    *)
(* and a connection that came too late is closed.                          *)
StartEnds == which = "start" /\ G!StartFairness => G!StartEnds

(* StateEnds of StorageCollection, under its fairness: the inventory is    *)
(* answered though a tool hangs.                                           *)
StateEnds == which = "inventory" /\ S!CollectionFairness => S!StateEnds

(* AttentionIsResolved of RemoteMounts, under its fairness.                *)
AttentionIsResolved ==
  /\ which = "mounts"
  /\ WF_mountVars(M!WorkerStep("w1")) /\ WF_mountVars(M!JobDone(t1))
  /\ \A d \in {d1, d2} : SF_mountVars(manifest[d] = "attention" /\ M!Operate("w1", "delete", d))
  => M!AttentionIsResolved
==============================================================================
