--------------------------- MODULE ActionRegistry ---------------------------
(***************************************************************************)
(* How a privileged action runs (internal/broker/actions.go) in the life   *)
(* of the broker process (cmd/pilothoused/main.go): Execute locks the      *)
(* action's resource, records its intent, and either runs the handler or   *)
(* queues a job that runBackground runs after the request has returned;    *)
(* the result goes to the job store and to the audit store.  The process   *)
(* may crash, or be told to stop while requests and jobs are in flight;    *)
(* the two stores survive it, everything else does not.                    *)
(*                                                                         *)
(* The lock table is ResourceLocks, the stores are AuditStore and JobStore.*)
(***************************************************************************)
EXTENDS Integers, FiniteSets

CONSTANTS Requests,    \* concurrent calls of Execute
          Resources,   \* lock keys
          Entries, NoEntry, NoResource,
          Definitions, \* registered actions: [mode, lock]
          AuditLimit, JobLimit,
          MaxID,       \* bound on attempts
          MaxStops,    \* bound on signals and crashes
          StoreFaults  \* database writes may fail

Modes == {"foreground", "nonblocking", "background"}

ASSUME RegistryAssumption ==
  /\ IsFiniteSet(Requests)
  /\ NoEntry \notin Entries /\ NoResource \notin Resources
  /\ Definitions \subseteq [mode : Modes, lock : Resources]
  /\ AuditLimit \in Nat \ {0} /\ JobLimit \in Nat \ {0}
  /\ MaxID \in Nat /\ MaxStops \in Nat /\ StoreFaults \in BOOLEAN

VARIABLES locks, ready, refs, phase, resource, entry, \* ResourceLocks
          audit, auditSeq,   \* the audit bucket
          jobs, jobSeq,      \* the job bucket
          auditOf,           \* a job's audit_id
          broker,            \* the process's stage
          stops,
          pc,                \* where a request's goroutine is
          task,              \* what it knows: definition, IDs, outcome
          effect             \* what the handler of an attempt really did

storeVars == <<audit, auditSeq, jobs, jobSeq, auditOf>>
vars == <<locks, ready, refs, phase, resource, entry, audit, auditSeq, jobs, jobSeq, auditOf,
          broker, stops, pc, task, effect>>

L == INSTANCE ResourceLocks WITH Callers <- Requests

(* "draining": Serve has returned and Shutdown has cancelled the context of*)
(* the jobs.  "jobsClosed", "closed": the deferred Close calls, in order.  *)
(* "starting": the audit store is open and the job store is not.           *)
Alive == broker \in {"serving", "draining", "jobsClosed", "closed"}
JobsOpen == broker \in {"serving", "draining"}
AuditOpen == broker \in {"starting", "serving", "draining", "jobsClosed"}

(* From its intent to the attempt to record its result, a request owes its *)
(* audit record a completion.                                              *)
Recorded == {"enqueue", "handler", "start", "run", "jobComplete", "unlockEarly", "complete"}

(* The audit store's view of the registry.                                 *)
owed == {task[q].audit : q \in {q \in Requests : AuditOpen /\ pc[q] \in Recorded}}

A == INSTANCE AuditStore WITH
       MaxRecords <- AuditLimit, records <- audit, sequence <- auditSeq, open <- AuditOpen,
       abandoned <- {i \in DOMAIN audit : AuditOpen /\ audit[i] = "started" /\ i \notin owed}

J == INSTANCE JobStore WITH
       MaxRecords <- JobLimit, MaxBoot <- 1, sequence <- jobSeq, open <- JobsOpen,
       live <- {}, stuck <- {}, wallClock <- 1, installed <- FALSE

NoTask == [lock |-> NoResource, mode |-> "none", audit |-> 0, job |-> 0, outcome |-> "none"]

Init ==
  /\ L!Init
  /\ audit = [i \in {} |-> "started"] /\ auditSeq = 0
  /\ jobs = [i \in {} |-> J!Queued] /\ jobSeq = 0
  /\ auditOf = [i \in 1..MaxID |-> 0]
  /\ broker = "serving"
  /\ stops = 0
  /\ pc = [q \in Requests |-> "idle"]
  /\ task = [q \in Requests |-> NoTask]
  /\ effect = [i \in 1..MaxID |-> "none"]

------------------------------------------------------------------------------
LocksStay == UNCHANGED <<locks, ready, refs, phase, resource, entry>>

Goto(q, next) == pc' = [pc EXCEPT ![q] = next]

(* Execute up to the lock, for an authorized and well-formed request.      *)
ExecuteLock(q, d) ==
  /\ JobsOpen
  /\ pc[q] = "idle"
  /\ task' = [task EXCEPT ![q] = [NoTask EXCEPT !.lock = d.lock, !.mode = d.mode]]
  /\ \/ d.mode = "foreground" /\ L!Lock(q, d.lock) /\ Goto(q, "lock")
     \/ d.mode # "foreground" /\ L!TryLock(q, d.lock) /\ Goto(q, "begin")
     \/ d.mode # "foreground" /\ L!TryLockRefused(q, d.lock) /\ Goto(q, "refused")
  /\ UNCHANGED <<storeVars, broker, stops, effect>>

(* "resource already has a maintenance job"                                *)
Refused(q) ==
  /\ Alive /\ pc[q] = "refused"
  /\ L!Forget(q)
  /\ Goto(q, "idle")
  /\ task' = [task EXCEPT ![q] = NoTask]
  /\ UNCHANGED <<storeVars, broker, stops, effect>>

LockAcquired(q) ==
  /\ Alive /\ pc[q] = "lock"
  /\ L!Acquire(q)
  /\ Goto(q, "begin")
  /\ UNCHANGED <<storeVars, broker, stops, task, effect>>

(* The request's context ends while it waits.                              *)
LockCancelled(q) ==
  /\ Alive /\ pc[q] = "lock"
  /\ L!CancelWait(q)
  /\ Goto(q, "unlock")
  /\ UNCHANGED <<storeVars, broker, stops, task, effect>>

(* audit.Begin                                                             *)
RecordIntent(q) ==
  /\ pc[q] = "begin" /\ AuditOpen
  /\ auditSeq < MaxID
  /\ auditSeq' = auditSeq + 1
  /\ audit' = A!Put(audit, auditSeq + 1, "started")
  /\ task' = [task EXCEPT ![q].audit = auditSeq + 1]
  /\ IF task[q].mode = "background"
     THEN Goto(q, "enqueue") /\ UNCHANGED effect
     ELSE Goto(q, "handler") /\ effect' = [effect EXCEPT ![auditSeq + 1] = "running"]
  /\ LocksStay /\ UNCHANGED <<jobs, jobSeq, auditOf, broker, stops>>

(* Begin fails: the request was cancelled, or the store cannot be written. *)
IntentFails(q) ==
  /\ Alive /\ pc[q] = "begin"
  /\ Goto(q, "unlock")
  /\ LocksStay /\ UNCHANGED <<storeVars, broker, stops, task, effect>>

(* Mutant: Execute defers its unlock before it looks at the mode.          *)
EnqueueUnlocks(q) ==
  /\ pc[q] = "enqueue" /\ JobsOpen
  /\ jobSeq' = jobSeq + 1
  /\ J!Commit([i \in DOMAIN jobs \cup {jobSeq + 1} |->
                 IF i = jobSeq + 1 THEN J!Queued ELSE jobs[i]])
  /\ auditOf' = [auditOf EXCEPT ![jobSeq + 1] = task[q].audit]
  /\ task' = [task EXCEPT ![q].job = jobSeq + 1]
  /\ L!ReturnToken(q)
  /\ Goto(q, "start")
  /\ UNCHANGED <<audit, auditSeq, broker, stops, effect>>

(* jobs.Enqueue, and the goroutine that runs the job.  The request is over.*)
EnqueueJob(q) ==
  /\ pc[q] = "enqueue" /\ JobsOpen
  /\ jobSeq' = jobSeq + 1
  /\ J!Commit([i \in DOMAIN jobs \cup {jobSeq + 1} |->
                 IF i = jobSeq + 1 THEN J!Queued ELSE jobs[i]])
  /\ auditOf' = [auditOf EXCEPT ![jobSeq + 1] = task[q].audit]
  /\ task' = [task EXCEPT ![q].job = jobSeq + 1]
  /\ Goto(q, "start")
  /\ LocksStay /\ UNCHANGED <<audit, auditSeq, broker, stops, effect>>

(* Enqueue fails: unlock first, then complete the record as failed.        *)
EnqueueFails(q) ==
  /\ Alive /\ pc[q] = "enqueue"
  /\ task' = [task EXCEPT ![q].outcome = "failed"]
  /\ Goto(q, "unlockEarly")
  /\ LocksStay /\ UNCHANGED <<storeVars, broker, stops, effect>>

(* The handler of a foreground action returns.                             *)
HandlerReturns(q) ==
  /\ Alive /\ pc[q] = "handler"
  /\ \E result \in {"succeeded", "failed"} :
       /\ task' = [task EXCEPT ![q].outcome = result]
       /\ effect' = [effect EXCEPT ![task[q].audit] = result]
  /\ Goto(q, "complete")
  /\ LocksStay /\ UNCHANGED <<storeVars, broker, stops>>

(* It panics: net/http recovers, the deferred unlock has run, and the      *)
(* record is left as it is.                                                *)
HandlerPanics(q) ==
  /\ Alive /\ pc[q] = "handler"
  /\ Goto(q, "unlock")
  /\ LocksStay /\ UNCHANGED <<storeVars, broker, stops, task, effect>>

(* Mutant: runBackground forgets that the job's result was not recorded.   *)
JobResultLost(q) ==
  /\ Alive /\ pc[q] = "jobComplete"
  /\ StoreFaults \/ ~JobsOpen
  /\ Goto(q, "complete")
  /\ LocksStay /\ UNCHANGED <<storeVars, broker, stops, task, effect>>

(* Mutant: Start's error is recorded and the handler is called anyway.     *)
StartErrorIgnored(q) ==
  /\ Alive /\ pc[q] = "start"
  /\ StoreFaults \/ broker # "serving"
  /\ AuditOpen
  /\ audit' = A!Put(audit, task[q].audit, "unknown")
  /\ Goto(q, "run")
  /\ LocksStay /\ UNCHANGED <<auditSeq, jobs, jobSeq, auditOf, broker, stops, task, effect>>

(* jobs.Start; it fails once Shutdown has cancelled the jobs' context.     *)
JobStart(q) ==
  /\ pc[q] = "start" /\ broker = "serving"
  /\ task[q].job \in DOMAIN jobs /\ jobs[task[q].job].status = "queued"
  /\ J!Commit([jobs EXCEPT ![task[q].job].status = "running"])
  /\ effect' = [effect EXCEPT ![task[q].audit] = "running"]
  /\ Goto(q, "run")
  /\ LocksStay /\ UNCHANGED <<audit, auditSeq, jobSeq, auditOf, broker, stops, task>>

(* "job_start_failed": the job stays queued and the handler does not run.  *)
JobStartFails(q) ==
  /\ Alive /\ pc[q] = "start"
  /\ StoreFaults \/ broker # "serving"
  /\ task' = [task EXCEPT ![q].outcome = "unknown"]
  /\ Goto(q, "complete")
  /\ LocksStay /\ UNCHANGED <<storeVars, broker, stops, effect>>

JobHandlerReturns(q) ==
  /\ Alive /\ pc[q] = "run"
  /\ \E result \in {"succeeded", "failed"} :
       /\ task' = [task EXCEPT ![q].outcome = result]
       /\ effect' = [effect EXCEPT ![task[q].audit] = result]
  /\ Goto(q, "jobComplete")
  /\ LocksStay /\ UNCHANGED <<storeVars, broker, stops>>

(* jobs.Complete                                                           *)
JobComplete(q) ==
  /\ pc[q] = "jobComplete" /\ JobsOpen
  /\ task[q].job \in DOMAIN jobs /\ jobs[task[q].job].status = "running"
  /\ J!Commit([jobs EXCEPT ![task[q].job] = J!finishJob(task[q].outcome, FALSE)])
  /\ Goto(q, "complete")
  /\ LocksStay /\ UNCHANGED <<audit, auditSeq, jobSeq, auditOf, broker, stops, task, effect>>

(* "job_completion_failed": the audit record will say unknown.             *)
JobCompleteFails(q) ==
  /\ Alive /\ pc[q] = "jobComplete"
  /\ StoreFaults \/ ~JobsOpen
  /\ task' = [task EXCEPT ![q].outcome = "unknown"]
  /\ Goto(q, "complete")
  /\ LocksStay /\ UNCHANGED <<storeVars, broker, stops, effect>>

(* After the completion: the deferred unlock, unless it has already run.   *)
AfterComplete(q) ==
  IF phase[q] = "held"
  THEN Goto(q, "unlock") /\ UNCHANGED task
  ELSE Goto(q, "idle") /\ task' = [task EXCEPT ![q] = NoTask]

(* audit.Complete, under a context the request's end does not cancel.      *)
RecordCompletion(q) ==
  /\ pc[q] = "complete" /\ AuditOpen
  /\ task[q].audit \in DOMAIN audit
  /\ audit' = A!Put(audit, task[q].audit, task[q].outcome)
  /\ AfterComplete(q)
  /\ LocksStay /\ UNCHANGED <<auditSeq, jobs, jobSeq, auditOf, broker, stops, effect>>

(* "action result is uncertain"                                            *)
CompletionFails(q) ==
  /\ Alive /\ pc[q] = "complete"
  /\ StoreFaults \/ ~AuditOpen
  /\ AfterComplete(q)
  /\ LocksStay /\ UNCHANGED <<storeVars, broker, stops, effect>>

(* The two halves of an unlock; a cancelled waiter has only the second.    *)
UnlockToken(q) ==
  /\ Alive /\ pc[q] \in {"unlock", "unlockEarly"}
  /\ L!ReturnToken(q)
  /\ UNCHANGED <<storeVars, broker, stops, pc, task, effect>>

UnlockReference(q) ==
  /\ Alive /\ pc[q] \in {"unlock", "unlockEarly"}
  /\ L!ReleaseReference(q)
  /\ Goto(q, IF pc[q] = "unlock" THEN "idle" ELSE "complete")
  /\ task' = IF pc[q] = "unlock" THEN [task EXCEPT ![q] = NoTask] ELSE task
  /\ UNCHANGED <<storeVars, broker, stops, effect>>

------------------------------------------------------------------------------
(* A signal: Serve returns at once, whatever its handlers are doing, and   *)
(* Shutdown cancels the jobs' context.                                     *)
Signal ==
  /\ broker = "serving" /\ stops < MaxStops
  /\ broker' = "draining"
  /\ stops' = stops + 1
  /\ LocksStay /\ UNCHANGED <<storeVars, pc, task, effect>>

(* The wait group is at zero: runBackground has returned for every job.    *)
JobsDrained ==
  /\ broker = "draining"
  /\ \A q \in Requests : task[q].job = 0
  /\ broker' = "jobsClosed"
  /\ LocksStay /\ UNCHANGED <<storeVars, stops, pc, task, effect>>

(* Or the 30 seconds are over while some job is still at work.             *)
WaitTimesOut ==
  /\ broker = "draining"
  /\ \E q \in Requests : task[q].job # 0
  /\ broker' = "jobsClosed"
  /\ LocksStay /\ UNCHANGED <<storeVars, stops, pc, task, effect>>

CloseAudit ==
  /\ broker = "jobsClosed"
  /\ broker' = "closed"
  /\ LocksStay /\ UNCHANGED <<storeVars, stops, pc, task, effect>>

(* The process is gone, and with it what was only in memory.               *)
Gone ==
  /\ pc' = [q \in Requests |-> "idle"]
  /\ task' = [q \in Requests |-> NoTask]
  /\ locks' = [r \in Resources |-> NoEntry]
  /\ ready' = [e \in Entries |-> 0]
  /\ refs' = [e \in Entries |-> 0]
  /\ phase' = [q \in Requests |-> "idle"]
  /\ resource' = [q \in Requests |-> NoResource]
  /\ entry' = [q \in Requests |-> NoEntry]
  /\ UNCHANGED <<storeVars, effect>>

(* run returns nil and the process exits with status 0.                    *)
Exit == broker = "closed" /\ broker' = "stopped" /\ Gone /\ UNCHANGED stops

(* A crash at any point: a kill, a power loss, a panic in a job's handler, *)
(* a store that does not open.                                             *)
Crash ==
  /\ broker \notin {"down", "stopped"} /\ stops < MaxStops
  /\ broker' = "down"
  /\ Gone
  /\ stops' = stops + 1

OpenAudit ==
  /\ broker \in {"down", "stopped"}
  /\ broker' = "starting"
  /\ audit' = A!Recover(audit)
  /\ LocksStay /\ UNCHANGED <<auditSeq, jobs, jobSeq, auditOf, stops, pc, task, effect>>

(* Mutant: the job store opens without recovering what was interrupted.    *)
OpenJobsAsTheyAre ==
  /\ broker = "starting"
  /\ broker' = "serving"
  /\ LocksStay /\ UNCHANGED <<storeVars, stops, pc, task, effect>>

OpenJobs ==
  /\ broker = "starting"
  /\ broker' = "serving"
  /\ J!Commit([i \in DOMAIN jobs |-> IF jobs[i].status \in J!Active
                                     THEN J!finishJob("unknown", FALSE) ELSE jobs[i]])
  /\ LocksStay /\ UNCHANGED <<audit, auditSeq, jobSeq, auditOf, stops, pc, task, effect>>

(* What a goroutine does next when nothing holds it up.                    *)
Advance(q) ==
  \/ Refused(q)
  \/ RecordIntent(q) \/ IntentFails(q)
  \/ EnqueueJob(q) \/ EnqueueFails(q)
  \/ HandlerReturns(q)
  \/ JobStart(q) \/ JobStartFails(q)
  \/ JobHandlerReturns(q)
  \/ JobComplete(q) \/ JobCompleteFails(q)
  \/ RecordCompletion(q) \/ CompletionFails(q)
  \/ UnlockToken(q) \/ UnlockReference(q)

ShutDown == JobsDrained \/ WaitTimesOut \/ CloseAudit \/ Exit

Starting == OpenAudit \/ OpenJobs

(* The service manager starts the broker again after a failure, but not    *)
(* after a clean stop (Restart=on-failure in pilothoused.service).         *)
Restart == broker # "stopped" /\ Starting

Next ==
  \/ \E q \in Requests :
       \/ \E d \in Definitions : ExecuteLock(q, d)
       \/ LockAcquired(q) \/ LockCancelled(q)
       \/ HandlerPanics(q)
       \/ Advance(q)
  \/ Signal \/ Crash
  \/ ShutDown
  \/ Starting

Spec == Init /\ [][Next]_vars

(* Goroutines that can run do, handlers return (they work under timeouts), *)
(* blocked receivers of a channel are served in turn, and the service      *)
(* manager restarts a broker that failed.  Nothing says that a signal, a   *)
(* crash or a cancellation must happen, that a request must arrive, or     *)
(* that a broker which was stopped is ever started again.                  *)
Fairness ==
  /\ \A q \in Requests : WF_vars(Advance(q)) /\ SF_vars(LockAcquired(q))
  /\ WF_vars(ShutDown)
  /\ WF_vars(Restart)

FairSpec == Spec /\ Fairness

------------------------------------------------------------------------------
TypeOK ==
  /\ broker \in {"serving", "draining", "jobsClosed", "closed", "stopped", "down", "starting"}
  /\ pc \in [Requests -> {"idle", "lock", "refused", "begin", "unlock"} \cup Recorded]
  /\ \A q \in Requests :
       /\ task[q].audit \in 0..auditSeq /\ task[q].job \in 0..jobSeq
       /\ pc[q] \in Recorded => task[q].audit # 0
       /\ pc[q] = "complete" => task[q].outcome \in A!Final
  /\ DOMAIN audit \subseteq 1..auditSeq /\ DOMAIN jobs \subseteq 1..jobSeq
  /\ jobSeq <= auditSeq

Mutating(q) == pc[q] \in {"handler", "run"}

(* A handler runs only while it alone has its lock resource, in whatever   *)
(* way the other actions on it are scheduled (foreground, non-blocking,    *)
(* background) and however the broker is being stopped.                    *)
HandlersExclude ==
  \A p, q \in Requests :
    Mutating(p) /\ Mutating(q) /\ task[p].lock = task[q].lock => p = q

(* "The intent record is committed before the mutation begins, so an       *)
(* unavailable audit store prevents the action"                            *)
(* (docs/authentication.md:63): no handler runs without a durable record   *)
(* that says "started", which retention has not taken and no other         *)
(* completion has closed.                                                  *)
IntentPrecedesMutation ==
  \A q \in Requests :
    Mutating(q) => task[q].audit \in DOMAIN audit /\ audit[task[q].audit] = "started"

(* "The canonical resource lock and original audit record remain active    *)
(* until the detached job finishes" (docs/authentication.md:65).           *)
JobKeepsLockAndRecord ==
  \A q \in Requests :
    pc[q] \in {"start", "run", "jobComplete"} =>
      /\ phase[q] = "held" /\ resource[q] = task[q].lock
      /\ audit[task[q].audit] = "started"

(* A job that is not finished is in the store, in the status that the next *)
(* transition expects, however many newer jobs retention has to fit in.    *)
JobIsWhereItStands ==
  \A q \in Requests :
    /\ pc[q] = "start" =>
         task[q].job \in DOMAIN jobs /\ jobs[task[q].job].status = "queued"
    /\ pc[q] \in {"run", "jobComplete"} =>
         task[q].job \in DOMAIN jobs /\ jobs[task[q].job].status = "running"

(* The two histories never claim what did not happen, across crashes,      *)
(* failed writes and retention: "succeeded" is said only of a handler that *)
(* returned without error, "failed" only of one that returned an error or  *)
(* was never called.                                                       *)
HistoriesClaimNothing ==
  /\ \A i \in DOMAIN audit :
       /\ audit[i] = "succeeded" => effect[i] = "succeeded"
       /\ audit[i] = "failed" => effect[i] \in {"failed", "none"}
  /\ \A j \in DOMAIN jobs :
       jobs[j].status \in {"succeeded", "failed"} => effect[auditOf[j]] = jobs[j].status

(* The job store and the audit store, which share no transaction, never    *)
(* contradict each other: a definite audit outcome is that of the job.     *)
StoresAgree ==
  \A j \in DOMAIN jobs :
    LET i == auditOf[j] IN
      i \in DOMAIN audit /\ audit[i] \in {"succeeded", "failed"}
        => jobs[j].status = audit[i]

(* Both: what the two histories say is true, and the same.                 *)
HistoriesAreTruthful == HistoriesClaimNothing /\ StoresAgree

(* An idle broker has no lock entries, whatever paths its requests took.   *)
LocksDrain ==
  (\A q \in Requests : pc[q] = "idle") => \A r \in Resources : locks[r] = NoEntry

(* What a request or job that is under way can rely on, and what is left   *)
(* when there is none.                                                     *)
RegistryInv ==
  TypeOK /\ HandlersExclude /\ JobKeepsLockAndRecord /\ JobIsWhereItStands /\ LocksDrain

(* The registry uses the audit store as it is meant to be used: a record   *)
(* is completed at most once and by the action that began it, and is       *)
(* otherwise left for the next start to mark unknown.                      *)
AuditDiscipline == A!Spec

(* A job that the broker accepted comes to a final status ("broker         *)
(* restarts mark interrupted jobs unknown", docs/authentication.md:65),    *)
(* unless its history is full and retention has taken it, or the broker    *)
(* was stopped while the job ran and is never started again.               *)
JobsSettle ==
  \A j \in 1..MaxID :
    \/ <>[](broker = "stopped")
    \/ j \in DOMAIN jobs ~> (j \in DOMAIN jobs => jobs[j].status \in J!Final)

(* Every request ends: nobody waits for ever on a lock another request     *)
(* left behind.                                                            *)
RequestsEnd ==
  \A q \in Requests : pc[q] # "idle" ~> pc[q] = "idle"

(* Both: whatever the registry took on, it brings to an end.               *)
RegistrySettles == JobsSettle /\ RequestsEnd
==============================================================================
