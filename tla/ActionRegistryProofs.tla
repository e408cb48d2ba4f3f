------------------------ MODULE ActionRegistryProofs ------------------------
(***************************************************************************)
(* Proofs about the action registry, for any number of requests, resources *)
(* and definitions, any retention limits and any number of stops: its      *)
(* invariants, that what the two histories say is true, and that it uses   *)
(* the audit store as AuditStore says.  The lock table brings its own      *)
(* theorems.                                                               *)
(***************************************************************************)
EXTENDS ActionRegistry, TLAPS

------------------------------------------------------------------------------
(* The inductive invariant.                                                *)
Tasks == [lock : Resources \cup {NoResource}, mode : Modes \cup {"none"}, audit : Nat,
          job : Nat, outcome : {"none"} \cup A!Final]

JobRecords == [status : J!Active \cup J!Final, reboot : BOOLEAN, finished : Nat]

Places == {"idle", "lock", "refused", "begin", "unlock"} \cup Recorded

Results == {"none", "running", "succeeded", "failed"}

Types ==
  /\ broker \in {"serving", "draining", "jobsClosed", "closed", "stopped", "down", "starting"}
  /\ pc \in [Requests -> Places]
  /\ task \in [Requests -> Tasks]
  /\ auditSeq \in Nat /\ jobSeq \in Nat /\ jobSeq <= auditSeq /\ auditSeq <= MaxID
  /\ DOMAIN audit \subseteq 1..auditSeq
  /\ DOMAIN jobs \subseteq 1..jobSeq
  /\ \A j \in DOMAIN jobs : jobs[j] \in JobRecords
  /\ auditOf \in [1..MaxID -> Nat]
  /\ effect \in [1..MaxID -> Results]

(* Where a request's goroutine is, and where it stands in the lock table.  *)
Control(q) ==
  /\ pc[q] # "idle" => Alive
  /\ pc[q] = "idle" => phase[q] = "idle" /\ task[q] = NoTask
  /\ pc[q] = "lock" => phase[q] = "waiting"
  /\ pc[q] = "refused" => phase[q] = "refused"
  /\ pc[q] \in {"begin", "enqueue", "handler", "start", "run", "jobComplete"} => phase[q] = "held"
  /\ pc[q] = "unlock" => phase[q] \in {"held", "cancelled", "returned"}
  /\ pc[q] = "unlockEarly" => phase[q] \in {"held", "returned"}
  /\ pc[q] = "complete" => phase[q] \in {"held", "idle"}
  /\ phase[q] # "idle" => resource[q] = task[q].lock

(* What it has been given so far: an audit ID, a job ID, an outcome.       *)
Known(q) ==
  /\ task[q].audit <= auditSeq /\ task[q].job <= jobSeq
  /\ pc[q] \in {"lock", "refused", "begin", "enqueue", "handler", "unlockEarly"} => task[q].job = 0
  /\ pc[q] \in {"start", "run", "jobComplete"} => task[q].job # 0
  /\ pc[q] \in Recorded => task[q].audit # 0
  /\ pc[q] \in {"unlockEarly", "complete"} => task[q].outcome # "none"

(* Its job is the one whose audit_id is its record; without a job, no job  *)
(* has it.                                                                 *)
Linked(q) ==
  pc[q] \in Recorded =>
    /\ task[q].job # 0 => auditOf[task[q].job] = task[q].audit
    /\ task[q].job = 0 => \A j \in 1..jobSeq : auditOf[j] # task[q].audit

(* Its record is kept, and says "started".                                 *)
RecordOpen(q) ==
  pc[q] \in Recorded => task[q].audit \in DOMAIN audit /\ audit[task[q].audit] = "started"

JobStands(q) ==
  /\ pc[q] = "start" => task[q].job \in DOMAIN jobs /\ jobs[task[q].job].status = "queued"
  /\ pc[q] \in {"run", "jobComplete"} =>
       task[q].job \in DOMAIN jobs /\ jobs[task[q].job].status = "running"
  /\ pc[q] = "complete" /\ task[q].job \in DOMAIN jobs /\ task[q].outcome # "unknown" =>
       jobs[task[q].job].status = task[q].outcome

(* What it is about to say of the handler is what the handler did.         *)
OutcomeTrue(q) ==
  /\ pc[q] \in {"enqueue", "start"} => effect[task[q].audit] = "none"
  /\ pc[q] = "jobComplete" =>
       task[q].outcome \in {"succeeded", "failed"} /\ effect[task[q].audit] = task[q].outcome
  /\ pc[q] \in {"unlockEarly", "complete"} =>
       /\ task[q].outcome = "succeeded" => effect[task[q].audit] = "succeeded"
       /\ task[q].outcome = "failed" => effect[task[q].audit] \in {"failed", "none"}

(* No two requests have the same record, and no two jobs.                  *)
Distinct ==
  \A p, q \in Requests :
    pc[p] \in Recorded /\ pc[q] \in Recorded /\ task[p].audit = task[q].audit => p = q

AuditsOfJobs ==
  /\ \A j \in 1..jobSeq : auditOf[j] \in 1..auditSeq
  /\ \A j, k \in 1..jobSeq : auditOf[j] = auditOf[k] => j = k

(* Handlers run only for attempts that have begun.                         *)
NothingYet == \A i \in 1..MaxID : i > auditSeq => effect[i] = "none"

Standing(q) ==
  Control(q) /\ Known(q) /\ Linked(q) /\ RecordOpen(q) /\ JobStands(q) /\ OutcomeTrue(q)

IInv ==
  /\ Types
  /\ L!LockInvariant
  /\ \A q \in Requests : Standing(q)
  /\ Distinct /\ AuditsOfJobs /\ NothingYet
  /\ HistoriesAreTruthful

(* A step that writes neither store.                                       *)
StoresStay ==
  /\ audit' = audit /\ auditSeq' = auditSeq
  /\ jobs' = jobs /\ jobSeq' = jobSeq /\ auditOf' = auditOf

------------------------------------------------------------------------------
(* A transaction of the audit store changes one record and forgets only    *)
(* finished ones.                                                          *)
LEMMA PutKeeps ==
  ASSUME NEW recs, NEW id, NEW outcome, NEW new, new = A!Put(recs, id, outcome)
  PROVE  /\ DOMAIN new \subseteq DOMAIN recs \cup {id}
         /\ \A i \in DOMAIN new : new[i] = IF i = id THEN outcome ELSE recs[i]
         /\ \A i \in DOMAIN recs : i # id /\ recs[i] = "started" => i \in DOMAIN new
         /\ outcome = "started" => id \in DOMAIN new
<1> DEFINE put == [i \in DOMAIN recs \cup {id} |-> IF i = id THEN outcome ELSE recs[i]]
<1>1. PICK gone : new = [i \in DOMAIN put \ gone |-> put[i]] /\ gone \subseteq A!Finished(put)
  <2> DEFINE excess == A!Cardinality(DOMAIN put) - AuditLimit
             out == {i \in A!Finished(put) :
                       A!Cardinality({j \in A!Finished(put) : j < i}) < excess}
  <2>1. new = [i \in DOMAIN put \ out |-> put[i]]
    BY Zenon DEF A!Put, A!trimOldest
  <2>2. out \subseteq A!Finished(put)
    BY Zenon
  <2> QED BY Zenon, <2>1, <2>2
<1> QED
  BY Zenon, <1>1 DEF A!Finished

(* Opening the audit store marks what was interrupted.                     *)
LEMMA RecoverKeeps ==
  ASSUME NEW recs, NEW new, new = A!Recover(recs)
  PROVE  /\ DOMAIN new \subseteq DOMAIN recs
         /\ \A i \in DOMAIN new : new[i] = IF recs[i] = "started" THEN "unknown" ELSE recs[i]
<1> DEFINE put == [i \in DOMAIN recs |-> IF recs[i] = "started" THEN "unknown" ELSE recs[i]]
           excess == A!Cardinality(DOMAIN put) - AuditLimit
           out == {i \in A!Finished(put) :
                     A!Cardinality({j \in A!Finished(put) : j < i}) < excess}
<1>1. new = [i \in DOMAIN put \ out |-> put[i]]
  BY Zenon DEF A!Recover, A!trimOldest
<1> HIDE DEF out
<1> QED BY Zenon, <1>1

(* A transaction of the job store forgets only inactive jobs.              *)
LEMMA CommitKeeps ==
  ASSUME NEW after, J!Commit(after)
  PROVE  /\ DOMAIN jobs' \subseteq DOMAIN after
         /\ \A j \in DOMAIN jobs' : jobs'[j] = after[j]
         /\ \A j \in DOMAIN after : after[j].status \in J!Active => j \in DOMAIN jobs'
<1>1. PICK count : jobs' = J!trimOldest(after, count)
  BY Zenon DEF J!Commit
<1> DEFINE out == {i \in J!Inactive(after) :
                     J!Cardinality({j \in J!Inactive(after) : j < i}) < count - JobLimit}
<1>2. jobs' = [j \in DOMAIN after \ out |-> after[j]]
  BY Zenon, <1>1 DEF J!trimOldest
<1>3. out \subseteq J!Inactive(after)
  BY Zenon
<1> HIDE DEF out
<1> QED BY Zenon, <1>2, <1>3 DEF J!Inactive

(* A broker that starts has an empty lock table.                           *)
LEMMA LocksInit == L!Init => L!LockInvariant
  BY RegistryAssumption
  DEF L!Init, L!LockInvariant, L!TypeOK, L!EntryIsRegistered, L!RefsCountUsers, L!NoLeakedEntry,
      L!UnlockNeverBlocks, L!MutualExclusion, L!Phases, L!Referencing

(* The registry before its first request.                                  *)
LEMMA InitIInv == Init => IInv
<1> SUFFICES ASSUME Init PROVE IInv
  BY Zenon
<1> USE RegistryAssumption
<1>1. Types
  BY DEF Init, Types, Tasks, NoTask, Places, Results
<1>2. L!LockInvariant
  BY Zenon, LocksInit DEF Init
<1>3. ASSUME NEW q \in Requests PROVE Standing(q)
  BY DEF Init, Standing, Control, Known, Linked, RecordOpen, JobStands, OutcomeTrue, Recorded,
         L!Init, NoTask
<1>4. Distinct /\ AuditsOfJobs /\ NothingYet
  BY DEF Init, Distinct, AuditsOfJobs, NothingYet, Recorded
<1>5. HistoriesAreTruthful
  BY Zenon DEF Init, HistoriesAreTruthful, HistoriesClaimNothing, StoresAgree
<1> QED
  BY Zenon, <1>1, <1>2, <1>3, <1>4, <1>5 DEF IInv

(* The process ends: only the stores are left.                             *)
LEMMA GoneStep ==
  ASSUME IInv, Gone, broker' \in {"stopped", "down"}
  PROVE  IInv'
<1> USE RegistryAssumption
<1>1. Types'
  BY Zenon DEF IInv, Gone, storeVars, Types, Tasks, NoTask, Places
<1>2. L!LockInvariant'
  <2>1. L!Init'
    BY DEF Gone, L!Init
  <2> QED BY <2>1, LocksInit, PTL
<1>3. ASSUME NEW q \in Requests PROVE Standing(q)'
  BY DEF IInv, Types, Gone, storeVars, Standing, Control, Known, Linked, RecordOpen, JobStands, OutcomeTrue, Recorded, NoTask
<1>4. Distinct' /\ AuditsOfJobs' /\ NothingYet'
  BY Zenon DEF IInv, Gone, storeVars, Distinct, AuditsOfJobs, NothingYet, Recorded
<1>5. HistoriesAreTruthful'
  BY Zenon DEF IInv, Gone, storeVars, HistoriesAreTruthful, HistoriesClaimNothing, StoresAgree
<1> QED
  BY Zenon, <1>1, <1>2, <1>3, <1>4, <1>5 DEF IInv

(* The process is told to stop, and closes its stores.                     *)
LEMMA StageStep ==
  ASSUME IInv, L!LockInvariant', Signal \/ JobsDrained \/ WaitTimesOut \/ CloseAudit
  PROVE  IInv'
<1> USE RegistryAssumption
<1>1. /\ Alive' /\ broker' \in {"draining", "jobsClosed", "closed"}
      /\ StoresStay /\ pc' = pc /\ task' = task /\ effect' = effect /\ LocksStay
  BY Zenon DEF Signal, JobsDrained, WaitTimesOut, CloseAudit, Alive, StoresStay, storeVars
<1>2. Types'
  BY Zenon, <1>1 DEF IInv, Types, StoresStay
<1>4. ASSUME NEW q \in Requests PROVE Standing(q)'
  BY <1>1 DEF IInv, LocksStay, StoresStay, Standing, Control, Known, Linked, RecordOpen, JobStands,
              OutcomeTrue
<1>5. Distinct' /\ AuditsOfJobs' /\ NothingYet' /\ HistoriesAreTruthful'
  BY Zenon, <1>1 DEF IInv, StoresStay, Distinct, AuditsOfJobs, NothingYet, HistoriesAreTruthful,
              HistoriesClaimNothing, StoresAgree
<1> QED
  BY Zenon, <1>2, <1>4, <1>5 DEF IInv

(* A request whose own state and records a step leaves alone stands as it  *)
(* stood.                                                                  *)
LEMMA OthersStand ==
  ASSUME NEW p \in Requests, Standing(p), broker' = broker,
         pc'[p] = pc[p], task'[p] = task[p], phase'[p] = phase[p], resource'[p] = resource[p],
         StoresStay, effect' = effect
  PROVE  Standing(p)'
<1>1. Control(p)' /\ Known(p)'
  BY Zenon DEF Standing, Control, Known, StoresStay, Alive
<1>2. Linked(p)' /\ RecordOpen(p)'
  BY Zenon DEF Standing, Linked, RecordOpen, StoresStay
<1>3. JobStands(p)' /\ OutcomeTrue(p)'
  BY Zenon DEF Standing, JobStands, OutcomeTrue, StoresStay
<1> QED
  BY Zenon, <1>1, <1>2, <1>3 DEF Standing

(* A step of one request that leaves the stores alone.                     *)
LEMMA LocalStep ==
  ASSUME IInv, NEW q \in Requests, NEW next \in Places, NEW knows \in Tasks,
         StoresStay, broker' = broker, effect' = effect,
         pc' = [pc EXCEPT ![q] = next],
         task' = [task EXCEPT ![q] = knows],
         L!LockInvariant',
         \A p \in Requests \ {q} : phase'[p] = phase[p] /\ resource'[p] = resource[p],
         next \in Recorded =>
           pc[q] \in Recorded /\ knows.audit = task[q].audit /\ knows.job = task[q].job,
         pc'[q] = next /\ task'[q] = knows =>
           Control(q)' /\ Known(q)' /\ JobStands(q)' /\ OutcomeTrue(q)'
  PROVE  IInv'
<1> USE RegistryAssumption
<1>1. Types'
  BY Zenon DEF IInv, Types, StoresStay
<1>a. pc'[q] = next /\ task'[q] = knows
  BY Zenon DEF IInv, Types
<1>b. ASSUME NEW p \in Requests, p # q
      PROVE  pc'[p] = pc[p] /\ task'[p] = task[p] /\ phase'[p] = phase[p] /\ resource'[p] = resource[p]
  BY Zenon, <1>b DEF IInv, Types
<1>3. ASSUME NEW p \in Requests PROVE Standing(p)'
  <2>0. Standing(p)
    BY Zenon DEF IInv
  <2>1. CASE p = q
    <3>1. Linked(q)' /\ RecordOpen(q)'
      BY Zenon, <1>a, <2>0, <2>1 DEF Standing, Linked, RecordOpen, StoresStay
    <3> QED BY Zenon, <1>a, <2>1, <3>1 DEF Standing
  <2>2. CASE p # q
    BY Zenon, <1>b, <2>0, <2>2, OthersStand
  <2> QED BY Zenon, <2>1, <2>2
<1>4. Distinct'
  <2> SUFFICES ASSUME NEW r \in Requests, NEW p \in Requests, pc'[r] \in Recorded, pc'[p] \in Recorded,
                      task'[r].audit = task'[p].audit
               PROVE  r = p
    BY Zenon DEF Distinct
  <2>1. ASSUME NEW x \in {r, p} PROVE pc[x] \in Recorded /\ task[x].audit = task'[x].audit
    BY ZenonT(30), <1>a, <1>b, <2>1
  <2> QED BY Zenon, <2>1 DEF IInv, Distinct
<1>5. AuditsOfJobs' /\ NothingYet' /\ HistoriesAreTruthful'
  BY ZenonT(30) DEF IInv, StoresStay, AuditsOfJobs, NothingYet, HistoriesAreTruthful,
         HistoriesClaimNothing, StoresAgree
<1> QED
  BY Zenon, <1>1, <1>3, <1>4, <1>5 DEF IInv

(* Execute up to its lock, and the wait for it.                            *)
LEMMA LockingStep ==
  ASSUME IInv, L!LockInvariant', NEW q \in Requests,
         \/ \E d \in Definitions : ExecuteLock(q, d)
         \/ Refused(q) \/ LockAcquired(q) \/ LockCancelled(q)
  PROVE  IInv'
<1> USE RegistryAssumption
<1>a. Standing(q) /\ task[q] \in Tasks /\ NoTask \in Tasks /\ task = [task EXCEPT ![q] = task[q]]
  BY Zenon DEF IInv, Types, NoTask, Tasks
<1>b. phase \in [Requests -> L!Phases] /\ resource \in [Requests -> Resources \cup {NoResource}]
  BY Zenon DEF IInv, L!LockInvariant, L!TypeOK
<1>c. /\ {"idle", "lock", "refused", "begin", "unlock"} \subseteq Places
      /\ {"idle", "lock", "refused", "begin", "unlock"} \cap Recorded = {}
  BY Zenon DEF Places, Recorded
<1>d. StoresStay /\ broker' = broker /\ effect' = effect
  BY Zenon DEF ExecuteLock, Refused, LockAcquired, LockCancelled, StoresStay, storeVars
<1>e. auditSeq \in Nat /\ jobSeq \in Nat /\ 0 \notin DOMAIN jobs
  BY DEF IInv, Types
<1>1. ASSUME NEW d \in Definitions, ExecuteLock(q, d)
      PROVE  IInv'
  <2> DEFINE knows == [NoTask EXCEPT !.lock = d.lock, !.mode = d.mode]
  <2>1. /\ task' = [task EXCEPT ![q] = knows] /\ Alive
        /\ \/ L!Lock(q, d.lock) /\ pc' = [pc EXCEPT ![q] = "lock"]
           \/ L!TryLock(q, d.lock) /\ pc' = [pc EXCEPT ![q] = "begin"]
           \/ L!TryLockRefused(q, d.lock) /\ pc' = [pc EXCEPT ![q] = "refused"]
    BY Zenon, <1>1 DEF ExecuteLock, Goto, JobsOpen, Alive
  <2>2. /\ knows \in Tasks /\ knows.lock = d.lock /\ knows.audit = 0 /\ knows.job = 0
    BY Zenon DEF Modes, NoTask, Tasks
  <2> HIDE DEF knows
  <2>3. ASSUME NEW next \in {"lock", "begin", "refused"}, NEW ph,
               pc' = [pc EXCEPT ![q] = next], phase' = [phase EXCEPT ![q] = ph],
               resource' = [resource EXCEPT ![q] = d.lock],
               next = "lock" => ph = "waiting",
               next = "begin" => ph = "held",
               next = "refused" => ph = "refused"
        PROVE  IInv'
    <3>1. phase'[q] = ph /\ resource'[q] = d.lock
      BY Zenon, <1>b, <2>3
    <3>2. pc'[q] = next /\ task'[q] = knows => Control(q)'
      BY Zenon, <1>d, <2>1, <2>2, <2>3, <3>1 DEF Control, Alive
    <3>3. pc'[q] = next /\ task'[q] = knows => Known(q)' /\ JobStands(q)' /\ OutcomeTrue(q)'
      BY <1>c, <1>d, <1>e, <2>2, <2>3 DEF Known, JobStands, OutcomeTrue, StoresStay
    <3> QED
      BY Zenon, <1>b, <1>c, <1>d, <2>1, <2>2, <2>3, <3>2, <3>3, LocalStep
  <2>4. CASE L!Lock(q, d.lock) /\ pc' = [pc EXCEPT ![q] = "lock"]
    <3>1. phase' = [phase EXCEPT ![q] = "waiting"] /\ resource' = [resource EXCEPT ![q] = d.lock]
      BY Zenon, <2>4 DEF L!Lock, L!JoinEntry, L!CreateEntry, L!Enter
    <3> QED BY Zenon, <2>3, <2>4, <3>1
  <2>5. CASE L!TryLock(q, d.lock) /\ pc' = [pc EXCEPT ![q] = "begin"]
    <3>1. phase' = [phase EXCEPT ![q] = "held"] /\ resource' = [resource EXCEPT ![q] = d.lock]
      BY Zenon, <2>5 DEF L!TryLock, L!Enter
    <3> QED BY Zenon, <2>3, <2>5, <3>1
  <2>6. CASE L!TryLockRefused(q, d.lock) /\ pc' = [pc EXCEPT ![q] = "refused"]
    <3>1. phase' = [phase EXCEPT ![q] = "refused"] /\ resource' = [resource EXCEPT ![q] = d.lock]
      BY Zenon, <2>6 DEF L!TryLockRefused, L!Enter
    <3> QED BY Zenon, <2>3, <2>6, <3>1
  <2> QED BY Zenon, <2>1, <2>4, <2>5, <2>6
<1>2. CASE Refused(q)
  <2>1. /\ pc' = [pc EXCEPT ![q] = "idle"] /\ task' = [task EXCEPT ![q] = NoTask]
        /\ phase' = [phase EXCEPT ![q] = "idle"]
        /\ resource' = [resource EXCEPT ![q] = NoResource]
    BY Zenon, <1>2 DEF Refused, Goto, L!Forget, L!Enter
  <2>2. phase'[q] = "idle"
    BY Zenon, <1>b, <2>1
  <2>3. pc'[q] = "idle" /\ task'[q] = NoTask =>
          Control(q)' /\ Known(q)' /\ JobStands(q)' /\ OutcomeTrue(q)'
    BY <1>c, <1>d, <1>e, <2>2 DEF Control, Known, JobStands, OutcomeTrue, StoresStay, NoTask
  <2> QED
    BY Zenon, <1>a, <1>b, <1>c, <1>d, <2>1, <2>3, LocalStep
<1>3. ASSUME NEW next \in {"begin", "unlock"}, NEW ph,
             next = "begin" => ph = "held",
             next = "unlock" => ph = "cancelled",
             pc[q] = "lock", Alive, task' = task, resource' = resource,
             pc' = [pc EXCEPT ![q] = next], phase' = [phase EXCEPT ![q] = ph]
      PROVE  IInv'
  <2>1. phase'[q] = ph
    BY Zenon, <1>b, <1>3
  <2>2. phase[q] = "waiting" /\ resource[q] = task[q].lock
    BY Zenon, <1>a, <1>3 DEF Standing, Control
  <2>3. pc'[q] = next => Control(q)'
    BY Zenon, <1>d, <1>3, <2>1, <2>2 DEF Control, Alive
  <2>4. pc'[q] = next => Known(q)' /\ JobStands(q)' /\ OutcomeTrue(q)'
    BY Zenon, <1>a, <1>c, <1>d, <1>3 DEF Standing, Known, JobStands, OutcomeTrue, StoresStay
  <2> QED
    BY Zenon, <1>a, <1>b, <1>c, <1>d, <1>3, <2>3, <2>4, LocalStep
<1>4. CASE LockAcquired(q)
  BY Zenon, <1>4, <1>3 DEF LockAcquired, Goto, L!Acquire
<1>5. CASE LockCancelled(q)
  BY Zenon, <1>5, <1>3 DEF LockCancelled, Goto, L!CancelWait
<1> QED
  BY Zenon, <1>1, <1>2, <1>4, <1>5

(* A request learns that something failed; neither store is written.       *)
LEMMA FailureStep ==
  ASSUME IInv, L!LockInvariant', NEW q \in Requests,
         \/ IntentFails(q) \/ EnqueueFails(q) \/ HandlerPanics(q)
         \/ JobStartFails(q) \/ JobCompleteFails(q)
  PROVE  IInv'
<1> USE RegistryAssumption
<1>a. Standing(q) /\ task[q] \in Tasks /\ task = [task EXCEPT ![q] = task[q]]
  BY Zenon DEF IInv, Types
<1>b. /\ StoresStay /\ broker' = broker /\ effect' = effect /\ Alive
      /\ phase' = phase /\ resource' = resource
  BY Zenon DEF IntentFails, EnqueueFails, HandlerPanics, JobStartFails, JobCompleteFails, LocksStay,
         StoresStay, storeVars
<1>1. ASSUME NEW next \in Places, NEW knows \in Tasks,
             pc' = [pc EXCEPT ![q] = next], task' = [task EXCEPT ![q] = knows],
             next \in Recorded =>
               pc[q] \in Recorded /\ knows.audit = task[q].audit /\ knows.job = task[q].job,
             pc'[q] = next /\ task'[q] = knows =>
               Control(q)' /\ Known(q)' /\ JobStands(q)' /\ OutcomeTrue(q)'
      PROVE  IInv'
  BY Zenon, <1>1, <1>b, LocalStep
<1>2. CASE IntentFails(q) \/ HandlerPanics(q)
  <2>1. /\ pc[q] \in {"begin", "handler"} /\ pc' = [pc EXCEPT ![q] = "unlock"] /\ task' = task
    BY Zenon, <1>2 DEF IntentFails, HandlerPanics, Goto
  <2>2. "unlock" \in Places /\ "unlock" \notin Recorded
    BY Zenon DEF Places, Recorded
  <2>3. pc'[q] = "unlock" => Control(q)'
    BY Zenon, <1>a, <1>b, <2>1 DEF Standing, Control, Alive
  <2>4. pc'[q] = "unlock" => Known(q)' /\ JobStands(q)' /\ OutcomeTrue(q)'
    BY Zenon, <1>a, <1>b, <2>1, <2>2 DEF Standing, Known, JobStands, OutcomeTrue, StoresStay
  <2> QED BY Zenon, <1>1, <1>a, <2>1, <2>2, <2>3, <2>4
<1>3. CASE EnqueueFails(q)
  <2> DEFINE knows == [task[q] EXCEPT !.outcome = "failed"]
  <2>1. /\ pc[q] = "enqueue" /\ pc' = [pc EXCEPT ![q] = "unlockEarly"]
        /\ task' = [task EXCEPT ![q] = knows]
    BY Zenon, <1>3 DEF EnqueueFails, Goto
  <2>2. {"enqueue", "unlockEarly"} \subseteq Places /\ {"enqueue", "unlockEarly"} \subseteq Recorded
    BY Zenon DEF Places, Recorded
  <2>3. /\ knows \in Tasks /\ knows.audit = task[q].audit /\ knows.job = task[q].job
        /\ knows.lock = task[q].lock /\ knows.outcome = "failed"
    BY Zenon, <1>a DEF Tasks, A!Final
  <2> HIDE DEF knows
  <2>4. pc'[q] = "unlockEarly" /\ task'[q] = knows => Control(q)' /\ Known(q)'
    BY Zenon, <1>a, <1>b, <2>1, <2>2, <2>3 DEF Standing, Control, Known, StoresStay, Alive
  <2>5. pc'[q] = "unlockEarly" /\ task'[q] = knows => JobStands(q)' /\ OutcomeTrue(q)'
    BY Zenon, <1>a, <1>b, <2>1, <2>2, <2>3 DEF Standing, JobStands, OutcomeTrue, StoresStay
  <2> QED BY Zenon, <1>1, <2>1, <2>2, <2>3, <2>4, <2>5
<1>4. CASE JobStartFails(q) \/ JobCompleteFails(q)
  <2> DEFINE knows == [task[q] EXCEPT !.outcome = "unknown"]
  <2>1. /\ pc[q] \in {"start", "jobComplete"} /\ pc' = [pc EXCEPT ![q] = "complete"]
        /\ task' = [task EXCEPT ![q] = knows]
    BY Zenon, <1>4 DEF JobStartFails, JobCompleteFails, Goto
  <2>2. "complete" \in Places /\ {"start", "jobComplete", "complete"} \subseteq Recorded
    BY Zenon DEF Places, Recorded
  <2>3. /\ knows \in Tasks /\ knows.audit = task[q].audit /\ knows.job = task[q].job
        /\ knows.lock = task[q].lock /\ knows.outcome = "unknown"
    BY Zenon, <1>a DEF Tasks, A!Final
  <2> HIDE DEF knows
  <2>4. pc'[q] = "complete" /\ task'[q] = knows => Control(q)' /\ Known(q)'
    BY Zenon, <1>a, <1>b, <2>1, <2>2, <2>3 DEF Standing, Control, Known, StoresStay, Alive
  <2>5. pc'[q] = "complete" /\ task'[q] = knows => JobStands(q)' /\ OutcomeTrue(q)'
    BY Zenon, <1>a, <1>b, <2>1, <2>2, <2>3 DEF Standing, JobStands, OutcomeTrue, StoresStay
  <2> QED BY Zenon, <1>1, <2>1, <2>2, <2>3, <2>4, <2>5
<1> QED
  BY Zenon, <1>2, <1>3, <1>4

(* A request leaves its record and gives its lock back, in two halves.     *)
LEMMA LeavingStep ==
  ASSUME IInv, L!LockInvariant', NEW q \in Requests,
         CompletionFails(q) \/ UnlockToken(q) \/ UnlockReference(q)
  PROVE  IInv'
<1> USE RegistryAssumption
<1>a. Standing(q) /\ task[q] \in Tasks /\ NoTask \in Tasks /\ task = [task EXCEPT ![q] = task[q]]
      /\ pc = [pc EXCEPT ![q] = pc[q]] /\ pc[q] \in Places
  BY Zenon DEF IInv, Types, NoTask, Tasks
<1>b. StoresStay /\ broker' = broker /\ effect' = effect /\ Alive
  BY Zenon DEF CompletionFails, UnlockToken, UnlockReference, StoresStay, storeVars
<1>c. /\ {"idle", "unlock", "complete"} \subseteq Places
      /\ {"complete", "unlockEarly"} \subseteq Recorded /\ {"idle", "unlock"} \cap Recorded = {}
  BY Zenon DEF Places, Recorded
<1>d. phase \in [Requests -> L!Phases] /\ resource \in [Requests -> Resources \cup {NoResource}]
  BY Zenon DEF IInv, L!LockInvariant, L!TypeOK
<1>e. auditSeq \in Nat /\ jobSeq \in Nat /\ 0 \notin DOMAIN jobs
  BY DEF IInv, Types
<1>f. ASSUME phase'[q] = "idle", pc' = [pc EXCEPT ![q] = "idle"], task' = [task EXCEPT ![q] = NoTask],
             \A p \in Requests \ {q} : phase'[p] = phase[p] /\ resource'[p] = resource[p]
      PROVE  IInv'
  <2>1. pc'[q] = "idle" /\ task'[q] = NoTask =>
          Control(q)' /\ Known(q)' /\ JobStands(q)' /\ OutcomeTrue(q)'
    BY <1>b, <1>c, <1>e, <1>f DEF Control, Known, JobStands, OutcomeTrue, NoTask, StoresStay
  <2> QED BY Zenon, <1>a, <1>b, <1>c, <1>f, <2>1, LocalStep
<1>1. CASE CompletionFails(q) /\ phase[q] = "held"
  <2>1. /\ pc[q] = "complete" /\ pc' = [pc EXCEPT ![q] = "unlock"] /\ task' = task
        /\ phase' = phase /\ resource' = resource
    BY Zenon, <1>1 DEF CompletionFails, AfterComplete, Goto, LocksStay
  <2>2. pc'[q] = "unlock" => Control(q)' /\ Known(q)' /\ JobStands(q)' /\ OutcomeTrue(q)'
    BY Zenon, <1>1, <1>a, <1>b, <1>c, <2>1
    DEF Standing, Control, Known, JobStands, OutcomeTrue, StoresStay, Alive
  <2> QED BY Zenon, <1>a, <1>b, <1>c, <2>1, <2>2, LocalStep
<1>2. CASE CompletionFails(q) /\ phase[q] # "held"
  <2>1. /\ pc[q] = "complete" /\ pc' = [pc EXCEPT ![q] = "idle"]
        /\ task' = [task EXCEPT ![q] = NoTask]
        /\ phase' = phase /\ resource' = resource
    BY Zenon, <1>2 DEF CompletionFails, AfterComplete, Goto, LocksStay
  <2>2. phase'[q] = "idle"
    BY Zenon, <1>2, <1>a, <2>1 DEF Standing, Control
  <2> QED BY Zenon, <1>f, <2>1, <2>2
<1>3. CASE UnlockToken(q)
  <2>1. /\ pc[q] \in {"unlock", "unlockEarly"} /\ pc' = pc /\ task' = task /\ resource' = resource
        /\ phase' = [phase EXCEPT ![q] = "returned"]
    BY Zenon, <1>3 DEF UnlockToken, L!ReturnToken
  <2>2. phase[q] # "idle" /\ phase'[q] = "returned"
    BY Zenon, <1>a, <1>d, <2>1 DEF Standing, Control
  <2>3. Control(q)'
    BY Zenon, <1>a, <1>b, <2>1, <2>2 DEF Standing, Control, Alive
  <2>4. Known(q)' /\ JobStands(q)' /\ OutcomeTrue(q)'
    BY Zenon, <1>a, <1>b, <2>1 DEF Standing, Known, JobStands, OutcomeTrue, StoresStay
  <2> QED BY ZenonT(30), <1>a, <1>b, <1>d, <2>1, <2>3, <2>4, LocalStep
<1>4. CASE UnlockReference(q) /\ pc[q] = "unlock"
  <2>1. /\ pc' = [pc EXCEPT ![q] = "idle"] /\ task' = [task EXCEPT ![q] = NoTask]
        /\ phase' = [phase EXCEPT ![q] = "idle"] /\ resource' = [resource EXCEPT ![q] = NoResource]
    BY Zenon, <1>4 DEF UnlockReference, L!ReleaseReference, L!Enter, Goto
  <2> QED BY Zenon, <1>d, <1>f, <2>1
<1>5. CASE UnlockReference(q) /\ pc[q] = "unlockEarly"
  <2>1. /\ pc' = [pc EXCEPT ![q] = "complete"] /\ task' = task
        /\ phase' = [phase EXCEPT ![q] = "idle"] /\ resource' = [resource EXCEPT ![q] = NoResource]
    BY Zenon, <1>5 DEF UnlockReference, L!ReleaseReference, L!Enter, Goto
  <2>2. phase'[q] = "idle"
    BY Zenon, <1>d, <2>1
  <2>3. pc'[q] = "complete" => Control(q)' /\ Known(q)'
    BY Zenon, <1>5, <1>a, <1>b, <1>c, <2>1, <2>2 DEF Standing, Control, Known, StoresStay, Alive
  <2>4. pc'[q] = "complete" => JobStands(q)' /\ OutcomeTrue(q)'
    BY Zenon, <1>5, <1>a, <1>b, <1>e, <2>1 DEF Standing, Known, JobStands, OutcomeTrue, StoresStay
  <2> QED BY Zenon, <1>5, <1>a, <1>b, <1>c, <1>d, <2>1, <2>3, <2>4, LocalStep
<1> QED
  <2>1. UnlockReference(q) => pc[q] \in {"unlock", "unlockEarly"}
    BY Zenon DEF UnlockReference
  <2> QED BY Zenon, <1>1, <1>2, <1>3, <1>4, <1>5, <2>1

(* A request that does not move stands as it stood, whatever another one   *)
(* does to the stores, if its record, its job and its effect are kept.     *)
LEMMA OthersKeptStand ==
  ASSUME NEW p \in Requests, Standing(p), task[p] \in Tasks,
         broker' = broker,
         pc'[p] = pc[p], task'[p] = task[p], phase'[p] = phase[p], resource'[p] = resource[p],
         auditSeq \in Nat, auditSeq' \in Nat, auditSeq <= auditSeq',
         jobSeq \in Nat, jobSeq' \in Nat, jobSeq <= jobSeq',
         0 \notin DOMAIN jobs',
         pc[p] \in Recorded =>
           /\ task[p].audit \in DOMAIN audit' /\ audit'[task[p].audit] = "started"
           /\ effect'[task[p].audit] = effect[task[p].audit]
           /\ task[p].job = 0 => \A j \in 1..jobSeq' : auditOf'[j] # task[p].audit
           /\ task[p].job # 0 =>
                /\ auditOf'[task[p].job] = auditOf[task[p].job]
                /\ task[p].job \in DOMAIN jobs' =>
                     /\ task[p].job \in DOMAIN jobs
                     /\ jobs'[task[p].job].status = jobs[task[p].job].status
                /\ task[p].job \in DOMAIN jobs /\ jobs[task[p].job].status \in J!Active =>
                     task[p].job \in DOMAIN jobs'
  PROVE  Standing(p)'
<1>1. Control(p)'
  BY Zenon DEF Standing, Control, Alive
<1>2. Known(p)'
  BY DEF Standing, Known, Tasks
<1>3. Linked(p)' /\ RecordOpen(p)'
  BY Zenon DEF Standing, Linked, RecordOpen
<1>4. JobStands(p)'
  BY Zenon DEF Standing, Known, JobStands, J!Active, Recorded
<1>5. OutcomeTrue(p)'
  BY Zenon DEF Standing, OutcomeTrue, Recorded
<1> QED
  BY Zenon, <1>1, <1>2, <1>3, <1>4, <1>5 DEF Standing

(* audit.Begin.                                                            *)
LEMMA IntentStep ==
  ASSUME IInv, L!LockInvariant', NEW q \in Requests, RecordIntent(q)
  PROVE  IInv'
<1> USE RegistryAssumption
<1> DEFINE new == auditSeq + 1
           knows == [task[q] EXCEPT !.audit = new]
<1>a. Types /\ Standing(q) /\ task[q] \in Tasks /\ pc[q] = "begin"
  BY Zenon DEF IInv, Types, RecordIntent
<1>b. /\ auditSeq \in Nat /\ jobSeq \in Nat /\ jobSeq <= auditSeq /\ auditSeq < MaxID
      /\ auditSeq' = new /\ new \in 1..MaxID
      /\ jobs' = jobs /\ jobSeq' = jobSeq /\ auditOf' = auditOf /\ broker' = broker
      /\ phase' = phase /\ resource' = resource
  BY <1>a DEF Types, RecordIntent, LocksStay
<1>c. /\ DOMAIN audit' \subseteq DOMAIN audit \cup {new} /\ new \in DOMAIN audit'
      /\ \A i \in DOMAIN audit' : audit'[i] = IF i = new THEN "started" ELSE audit[i]
      /\ \A i \in DOMAIN audit : i # new /\ audit[i] = "started" => i \in DOMAIN audit'
  BY PutKeeps DEF RecordIntent
<1>d. PICK next \in {"enqueue", "handler"} :
        /\ pc' = [pc EXCEPT ![q] = next]
        /\ next = "enqueue" => effect' = effect
        /\ effect' \in {effect, [effect EXCEPT ![new] = "running"]}
  BY Zenon DEF RecordIntent, Goto
<1>e. /\ knows \in Tasks /\ knows.audit = new /\ knows.job = task[q].job /\ knows.lock = task[q].lock
      /\ task' = [task EXCEPT ![q] = knows]
  BY <1>a, <1>b DEF Tasks, RecordIntent
<1> HIDE DEF knows, new
<1>f. /\ pc'[q] = next /\ task'[q] = knows /\ next \in Recorded /\ next \in Places
      /\ \A p \in Requests \ {q} : pc'[p] = pc[p] /\ task'[p] = task[p]
  BY Zenon, <1>a, <1>d, <1>e DEF Types, Recorded, Places
<1>g. /\ effect' \in [1..MaxID -> Results]
      /\ \A i \in 1..MaxID : i # new => effect'[i] = effect[i]
  BY Zenon, <1>a, <1>d DEF Types, Results
<1>h. effect[new] = "none" /\ 0 \notin DOMAIN jobs /\ new \notin DOMAIN audit
  BY <1>a, <1>b DEF IInv, NothingYet, Types, new
<1>1. Types'
  <2>1. DOMAIN audit' \subseteq 1..new
    BY <1>a, <1>b, <1>c, SMTT(30) DEF Types, new
  <2> QED BY <1>a, <1>b, <1>d, <1>e, <1>f, <1>g, <2>1 DEF Types, new
<1>2. ASSUME NEW p \in Requests, p # q PROVE Standing(p)'
  <2>1. Standing(p) /\ task[p] \in Tasks
    BY Zenon, <1>a DEF IInv, Types
  <2>2. pc[p] \in Recorded => task[p].audit \in 1..auditSeq /\ task[p].audit # new
    BY <1>b, <2>1 DEF Standing, Known, Tasks, new
  <2>3. pc[p] \in Recorded => task[p].audit \in DOMAIN audit' /\ audit'[task[p].audit] = "started"
    BY Zenon, <1>c, <2>1, <2>2 DEF Standing, RecordOpen
  <2>4. pc[p] \in Recorded => effect'[task[p].audit] = effect[task[p].audit]
    BY <1>b, <1>g, <2>2
  <2>5. pc[p] \in Recorded /\ task[p].job = 0 => \A j \in 1..jobSeq' : auditOf'[j] # task[p].audit
    BY Zenon, <1>b, <2>1 DEF Standing, Linked
  <2>6. auditSeq' \in Nat /\ auditSeq <= auditSeq'
    BY <1>b DEF new
  <2> QED BY <1>2, <1>b, <1>f, <1>h, <2>1, <2>3, <2>4, <2>5, <2>6, OthersKeptStand, SMTT(30)
<1>3. Standing(q)'
  <2>1. Control(q)'
    BY Zenon, <1>a, <1>b, <1>d, <1>e, <1>f DEF Standing, Control, Alive
  <2>2. Known(q)'
    BY <1>a, <1>b, <1>d, <1>e, <1>f DEF Standing, Known, new
  <2>3. task[q].job = 0
    BY Zenon, <1>a DEF Standing, Known
  <2>4. Linked(q)'
    BY <1>b, <1>e, <1>f, <2>3 DEF Linked, IInv, AuditsOfJobs, new
  <2>5. RecordOpen(q)'
    BY Zenon, <1>c, <1>e, <1>f DEF RecordOpen
  <2>6. JobStands(q)' /\ OutcomeTrue(q)'
    BY Zenon, <1>b, <1>d, <1>e, <1>f, <1>h DEF JobStands, OutcomeTrue
  <2> QED BY Zenon, <2>1, <2>2, <2>4, <2>5, <2>6 DEF Standing
<1>4. Distinct'
  <2> SUFFICES ASSUME NEW r \in Requests, NEW p \in Requests, r # p,
                      pc'[r] \in Recorded, pc'[p] \in Recorded
               PROVE  task'[r].audit # task'[p].audit
    BY Zenon DEF Distinct
  <2>1. ASSUME NEW x \in Requests, x # q, pc[x] \in Recorded PROVE task[x].audit # new
    BY <1>a, <1>b, <2>1 DEF IInv, Types, Tasks, Standing, Known, new
  <2> QED BY Zenon, <1>e, <1>f, <2>1 DEF IInv, Distinct
<1>5. AuditsOfJobs' /\ NothingYet'
  BY <1>b, <1>g DEF IInv, AuditsOfJobs, NothingYet, new
<1>6. HistoriesAreTruthful'
  <2>1. \A i \in DOMAIN audit' : i = new \/ (i \in DOMAIN audit /\ i \in 1..MaxID)
    BY <1>a, <1>b, <1>c DEF Types
  <2>2. \A j \in DOMAIN jobs : auditOf[j] \in 1..auditSeq /\ auditOf[j] \in 1..MaxID /\ auditOf[j] # new
    BY <1>a, <1>b DEF IInv, Types, AuditsOfJobs, new
  <2>3. HistoriesClaimNothing'
    BY Zenon, <1>b, <1>c, <1>g, <2>1, <2>2 DEF IInv, HistoriesAreTruthful, HistoriesClaimNothing
  <2>4. StoresAgree'
    BY Zenon, <1>b, <1>c, <2>1, <2>2 DEF IInv, HistoriesAreTruthful, StoresAgree
  <2> QED BY Zenon, <2>3, <2>4 DEF HistoriesAreTruthful
<1> QED
  BY Zenon, <1>1, <1>2, <1>3, <1>4, <1>5, <1>6 DEF IInv

(* audit.Complete.                                                         *)
LEMMA CompletionStep ==
  ASSUME IInv, L!LockInvariant', NEW q \in Requests, RecordCompletion(q)
  PROVE  IInv'
<1> USE RegistryAssumption
<1> DEFINE a == task[q].audit
<1>a. Types /\ Standing(q) /\ task[q] \in Tasks /\ pc[q] = "complete" /\ pc[q] \in Recorded
      /\ NoTask \in Tasks
  BY Zenon DEF IInv, Types, RecordCompletion, Recorded, NoTask, Tasks
<1>b. /\ auditSeq' = auditSeq /\ jobs' = jobs /\ jobSeq' = jobSeq /\ auditOf' = auditOf
      /\ broker' = broker /\ effect' = effect /\ phase' = phase /\ resource' = resource
      /\ a \in DOMAIN audit /\ audit' = A!Put(audit, a, task[q].outcome)
  BY Zenon DEF RecordCompletion, LocksStay
<1>c. /\ DOMAIN audit' \subseteq DOMAIN audit
      /\ \A i \in DOMAIN audit' : audit'[i] = IF i = a THEN task[q].outcome ELSE audit[i]
      /\ \A i \in DOMAIN audit : i # a /\ audit[i] = "started" => i \in DOMAIN audit'
  <2> HIDE DEF a
  <2> QED BY <1>b, PutKeeps
<1>d. PICK next \in {"unlock", "idle"}, knows \in Tasks :
        /\ pc' = [pc EXCEPT ![q] = next] /\ task' = [task EXCEPT ![q] = knows]
        /\ next = "unlock" => phase[q] = "held" /\ knows = task[q]
        /\ next = "idle" => phase[q] # "held" /\ knows = NoTask
  <2>1. CASE phase[q] = "held"
    <3>1. pc' = [pc EXCEPT ![q] = "unlock"] /\ task' = task
      BY Zenon, <2>1 DEF RecordCompletion, AfterComplete, Goto
    <3>2. task = [task EXCEPT ![q] = task[q]]
      BY Zenon, <1>a DEF Types
    <3> QED BY Zenon, <1>a, <2>1, <3>1, <3>2
  <2>2. CASE phase[q] # "held"
    <3>1. pc' = [pc EXCEPT ![q] = "idle"] /\ task' = [task EXCEPT ![q] = NoTask]
      BY Zenon, <2>2 DEF RecordCompletion, AfterComplete, Goto
    <3> QED BY Zenon, <1>a, <2>2, <3>1
  <2> QED BY Zenon, <2>1, <2>2
<1>e. /\ pc'[q] = next /\ task'[q] = knows /\ next \notin Recorded /\ next \in Places
      /\ \A p \in Requests \ {q} : pc'[p] = pc[p] /\ task'[p] = task[p]
  BY Zenon, <1>a, <1>d DEF Types, Recorded, Places
<1>f. auditSeq \in Nat /\ jobSeq \in Nat /\ 0 \notin DOMAIN jobs
  BY <1>a DEF Types
<1> HIDE DEF a
<1>1. Types'
  <2>1. DOMAIN audit' \subseteq 1..auditSeq
    BY Zenon, <1>a, <1>c DEF Types
  <2> QED BY Zenon, <1>a, <1>b, <1>d, <1>e, <2>1 DEF Types
<1>2. ASSUME NEW p \in Requests, p # q PROVE Standing(p)'
  <2>1. Standing(p) /\ task[p] \in Tasks
    BY Zenon, <1>a DEF IInv, Types
  <2>2. pc[p] \in Recorded => task[p].audit # a
    BY Zenon, <1>2, <1>a DEF IInv, Distinct, a
  <2>3. pc[p] \in Recorded => task[p].audit \in DOMAIN audit' /\ audit'[task[p].audit] = "started"
    BY Zenon, <1>c, <2>1, <2>2 DEF Standing, RecordOpen
  <2>4. pc[p] \in Recorded /\ task[p].job = 0 => \A k \in 1..jobSeq' : auditOf'[k] # task[p].audit
    BY Zenon, <1>b, <2>1 DEF Standing, Linked
  <2> QED BY <1>2, <1>b, <1>e, <1>f, <2>1, <2>3, <2>4, OthersKeptStand
<1>3. Standing(q)'
  <2>1. CASE next = "unlock"
    <3>1. Control(q)'
      BY Zenon, <1>a, <1>b, <1>d, <1>e, <2>1 DEF Standing, Control, Alive
    <3>2. Known(q)' /\ Linked(q)' /\ RecordOpen(q)' /\ JobStands(q)' /\ OutcomeTrue(q)'
      BY Zenon, <1>a, <1>b, <1>d, <1>e, <2>1
      DEF Standing, Known, Linked, RecordOpen, JobStands, OutcomeTrue
    <3> QED BY Zenon, <3>1, <3>2 DEF Standing
  <2>2. CASE next = "idle"
    <3>1. Control(q)'
      BY Zenon, <1>a, <1>b, <1>d, <1>e, <2>2 DEF Standing, Control
    <3>2. Known(q)' /\ Linked(q)' /\ RecordOpen(q)' /\ JobStands(q)' /\ OutcomeTrue(q)'
      BY <1>b, <1>d, <1>e, <1>f, <2>2
      DEF Known, Linked, RecordOpen, JobStands, OutcomeTrue, NoTask
    <3> QED BY Zenon, <3>1, <3>2 DEF Standing
  <2> QED BY Zenon, <2>1, <2>2
<1>4. Distinct'
  <2>1. ASSUME NEW x \in Requests, pc'[x] \in Recorded
        PROVE  pc[x] \in Recorded /\ task'[x] = task[x]
    BY Zenon, <1>e, <2>1
  <2> QED BY Zenon, <2>1 DEF IInv, Distinct
<1>5. AuditsOfJobs' /\ NothingYet'
  BY Zenon, <1>b DEF IInv, AuditsOfJobs, NothingYet
<1>6. HistoriesAreTruthful'
  <2>1. OutcomeTrue(q) /\ JobStands(q) /\ Linked(q) /\ AuditsOfJobs
    BY Zenon, <1>a DEF IInv, Standing
  <2>2. HistoriesClaimNothing'
    BY Zenon, <1>a, <1>b, <1>c, <2>1 DEF IInv, HistoriesAreTruthful, HistoriesClaimNothing, OutcomeTrue, a
  <2>3. ASSUME NEW j \in DOMAIN jobs, auditOf[j] = a, task[q].outcome \in {"succeeded", "failed"}
        PROVE  jobs[j].status = task[q].outcome
    <3>1. j \in 1..jobSeq
      BY Zenon, <1>a DEF Types
    <3>2. task[q].job # 0
      BY Zenon, <1>a, <2>1, <2>3, <3>1 DEF Linked, a
    <3>3. task[q].job \in 1..jobSeq
      BY <1>a, <1>f, <3>2 DEF Standing, Known, Tasks
    <3>4. task[q].job = j
      BY Zenon, <1>a, <2>1, <2>3, <3>1, <3>2, <3>3 DEF Linked, AuditsOfJobs, a
    <3> QED BY Zenon, <1>a, <2>1, <2>3, <3>4 DEF JobStands
  <2>4. StoresAgree'
    BY Zenon, <1>b, <1>c, <2>3 DEF IInv, HistoriesAreTruthful, StoresAgree
  <2> QED BY Zenon, <2>2, <2>4 DEF HistoriesAreTruthful
<1> QED
  BY Zenon, <1>1, <1>2, <1>3, <1>4, <1>5, <1>6 DEF IInv

(* A process that starts finds no request, and recovers the two stores.    *)
LEMMA OpeningStep ==
  ASSUME IInv, L!LockInvariant', OpenAudit \/ OpenJobs
  PROVE  IInv'
<1> USE RegistryAssumption
<1>a. Types /\ ~Alive
  BY Zenon DEF IInv, OpenAudit, OpenJobs, Alive
<1>b. /\ auditSeq' = auditSeq /\ jobSeq' = jobSeq /\ auditOf' = auditOf /\ pc' = pc
      /\ task' = task /\ effect' = effect /\ phase' = phase /\ resource' = resource
      /\ broker' \in {"starting", "serving"}
  BY Zenon DEF OpenAudit, OpenJobs, LocksStay
<1>c. /\ DOMAIN audit' \subseteq DOMAIN audit
      /\ \A i \in DOMAIN audit' : audit'[i] \in {"succeeded", "failed"} => audit'[i] = audit[i]
  <2>1. CASE OpenAudit
    BY ZenonT(30), <2>1, RecoverKeeps DEF OpenAudit
  <2>2. CASE OpenJobs
    BY Zenon, <2>2 DEF OpenJobs
  <2> QED BY Zenon, <2>1, <2>2
<1>d. /\ DOMAIN jobs' \subseteq DOMAIN jobs
      /\ \A j \in DOMAIN jobs' : jobs'[j] = jobs[j] \/ (jobs[j].status \in J!Active
                                                       /\ jobs'[j] = J!finishJob("unknown", FALSE))
  <2>1. CASE OpenAudit
    BY Zenon, <2>1 DEF OpenAudit
  <2>2. CASE OpenJobs
    <3> DEFINE after == [i \in DOMAIN jobs |-> IF jobs[i].status \in J!Active
                                               THEN J!finishJob("unknown", FALSE) ELSE jobs[i]]
    <3>1. J!Commit(after)
      BY Zenon, <2>2 DEF OpenJobs
    <3> HIDE DEF after
    <3>2. DOMAIN jobs' \subseteq DOMAIN after /\ \A j \in DOMAIN jobs' : jobs'[j] = after[j]
      BY Zenon, <3>1, CommitKeeps
    <3> QED BY Zenon, <3>2 DEF after
  <2> QED BY Zenon, <2>1, <2>2
<1>e. J!finishJob("unknown", FALSE) \in JobRecords /\ J!finishJob("unknown", FALSE).status = "unknown"
  BY Zenon DEF J!finishJob, JobRecords, J!Final
<1>1. Types'
  <2>1. DOMAIN audit' \subseteq 1..auditSeq
    BY Zenon, <1>a, <1>c DEF Types
  <2>2. DOMAIN jobs' \subseteq 1..jobSeq /\ \A j \in DOMAIN jobs' : jobs'[j] \in JobRecords
    BY Zenon, <1>a, <1>d, <1>e DEF Types
  <2> QED BY Zenon, <1>a, <1>b, <2>1, <2>2 DEF Types
<1>2. ASSUME NEW p \in Requests PROVE Standing(p)' /\ pc[p] \notin Recorded
  <2>1. Standing(p) /\ pc[p] = "idle" /\ pc[p] \notin Recorded
    BY Zenon, <1>a DEF IInv, Standing, Control, Recorded
  <2>2. Control(p)' /\ Known(p)'
    BY Zenon, <1>b, <2>1 DEF Standing, Control, Known
  <2>3. Linked(p)' /\ RecordOpen(p)' /\ JobStands(p)' /\ OutcomeTrue(p)'
    BY Zenon, <1>b, <2>1 DEF Linked, RecordOpen, JobStands, OutcomeTrue
  <2> QED BY Zenon, <2>1, <2>2, <2>3 DEF Standing
<1>3. Distinct' /\ AuditsOfJobs' /\ NothingYet'
  BY Zenon, <1>b, <1>2 DEF IInv, Distinct, AuditsOfJobs, NothingYet
<1>4. HistoriesAreTruthful'
  <2>1. HistoriesClaimNothing'
    BY Zenon, <1>b, <1>c, <1>d, <1>e DEF IInv, HistoriesAreTruthful, HistoriesClaimNothing
  <2>2. StoresAgree'
    BY ZenonT(30), <1>b, <1>c, <1>d DEF IInv, HistoriesAreTruthful, StoresAgree, J!Active
  <2> QED BY Zenon, <2>1, <2>2 DEF HistoriesAreTruthful
<1> QED
  BY Zenon, <1>1, <1>2, <1>3, <1>4 DEF IInv

(* jobs.Enqueue.                                                           *)
LEMMA EnqueueStep ==
  ASSUME IInv, L!LockInvariant', NEW q \in Requests, EnqueueJob(q), jobSeq + 1 <= auditSeq
  PROVE  IInv'
<1> USE RegistryAssumption
<1> DEFINE new == jobSeq + 1
           knows == [task[q] EXCEPT !.job = new]
           after == [i \in DOMAIN jobs \cup {new} |-> IF i = new THEN J!Queued ELSE jobs[i]]
<1>a. Types /\ Standing(q) /\ task[q] \in Tasks /\ pc[q] = "enqueue" /\ pc[q] \in Recorded
      /\ task[q].job = 0
  BY Zenon DEF IInv, Types, EnqueueJob, Recorded, Standing, Known
<1>b. /\ auditSeq \in Nat /\ jobSeq \in Nat /\ auditSeq <= MaxID
      /\ jobSeq' = new /\ auditOf' = [auditOf EXCEPT ![new] = task[q].audit]
      /\ audit' = audit /\ auditSeq' = auditSeq /\ broker' = broker /\ effect' = effect
      /\ phase' = phase /\ resource' = resource
      /\ pc' = [pc EXCEPT ![q] = "start"] /\ task' = [task EXCEPT ![q] = knows]
      /\ J!Commit(after)
  BY Zenon, <1>a DEF Types, EnqueueJob, LocksStay, Goto
<1>c. new <= auditSeq /\ new \in 1..MaxID /\ new \notin DOMAIN jobs /\ 0 \notin DOMAIN jobs
      /\ new \notin 1..jobSeq /\ task[q].audit \in 1..auditSeq /\ new # 0
  BY <1>a, <1>b DEF Types, Standing, Known, Tasks
<1>d. /\ knows \in Tasks /\ knows.audit = task[q].audit /\ knows.job = new
      /\ knows.lock = task[q].lock
  BY <1>a, <1>b DEF Tasks
<1>e. /\ DOMAIN jobs' \subseteq DOMAIN jobs \cup {new} /\ new \in DOMAIN jobs'
      /\ \A j \in DOMAIN jobs' : jobs'[j] = IF j = new THEN J!Queued ELSE jobs[j]
      /\ \A j \in DOMAIN jobs : jobs[j].status \in J!Active => j \in DOMAIN jobs'
  <2> HIDE DEF after, new
  <2>1. /\ DOMAIN jobs' \subseteq DOMAIN after
        /\ \A j \in DOMAIN jobs' : jobs'[j] = after[j]
        /\ \A j \in DOMAIN after : after[j].status \in J!Active => j \in DOMAIN jobs'
    BY Zenon, <1>b, CommitKeeps
  <2>2. J!Queued.status \in J!Active
    BY Zenon DEF J!Queued, J!Active
  <2> QED BY Zenon, <1>c, <2>1, <2>2 DEF after
<1> HIDE DEF knows, new, after
<1>f. /\ pc'[q] = "start" /\ task'[q] = knows /\ "start" \in Recorded /\ "start" \in Places
      /\ \A p \in Requests \ {q} : pc'[p] = pc[p] /\ task'[p] = task[p]
  BY Zenon, <1>a, <1>b DEF Types, Recorded, Places
<1>g. /\ auditOf' \in [1..MaxID -> Nat] /\ auditOf'[new] = task[q].audit
      /\ \A j \in 1..jobSeq : auditOf'[j] = auditOf[j]
  BY <1>a, <1>b, <1>c DEF Types
<1>h. J!Queued \in JobRecords /\ J!Queued.status = "queued"
  BY Zenon DEF J!Queued, JobRecords, J!Active
<1>i. 1..jobSeq' = 1..jobSeq \cup {new} /\ jobSeq <= jobSeq' /\ jobSeq' \in Nat
  BY <1>b DEF new
<1>1. Types'
  <2>1. DOMAIN jobs' \subseteq 1..new /\ \A j \in DOMAIN jobs' : jobs'[j] \in JobRecords
    <3>1. 1..new = 1..jobSeq \cup {new}
      BY <1>b DEF new
    <3> QED BY Zenon, <1>a, <1>e, <1>h, <3>1 DEF Types
  <2>2. /\ jobSeq' = new /\ new \in Nat /\ jobSeq' <= auditSeq' /\ auditSeq' = auditSeq
    BY Zenon, <1>a, <1>b, <1>c, <1>i DEF new
  <2>3. pc' \in [Requests -> Places] /\ task' \in [Requests -> Tasks]
    BY Zenon, <1>a, <1>b, <1>d, <1>f DEF Types
  <2> QED BY Zenon, <1>a, <1>b, <1>g, <2>1, <2>2, <2>3 DEF Types
<1>2. ASSUME NEW p \in Requests, p # q PROVE Standing(p)'
  <2>1. Standing(p) /\ task[p] \in Tasks
    BY Zenon, <1>a DEF IInv, Types
  <2>2. pc[p] \in Recorded => task[p].audit # task[q].audit
    BY Zenon, <1>2, <1>a DEF IInv, Distinct
  <2>3. pc[p] \in Recorded => task[p].audit \in DOMAIN audit' /\ audit'[task[p].audit] = "started"
    BY Zenon, <1>b, <2>1 DEF Standing, RecordOpen
  <2>4. pc[p] \in Recorded /\ task[p].job = 0 => \A j \in 1..jobSeq' : auditOf'[j] # task[p].audit
    BY Zenon, <1>g, <1>i, <2>1, <2>2 DEF Standing, Linked
  <2>5. task[p].job # 0 => task[p].job \in 1..jobSeq
    BY <1>b, <2>1 DEF Standing, Known, Tasks
  <2>6. task[p].job # 0 =>
          /\ auditOf'[task[p].job] = auditOf[task[p].job]
          /\ task[p].job \in DOMAIN jobs' =>
               /\ task[p].job \in DOMAIN jobs
               /\ jobs'[task[p].job].status = jobs[task[p].job].status
          /\ task[p].job \in DOMAIN jobs /\ jobs[task[p].job].status \in J!Active =>
               task[p].job \in DOMAIN jobs'
    BY Zenon, <1>c, <1>e, <1>g, <2>5
  <2>7. 0 \notin DOMAIN jobs'
    BY Zenon, <1>c, <1>e
  <2> QED BY <1>2, <1>b, <1>f, <1>i, <2>1, <2>3, <2>4, <2>6, <2>7, OthersKeptStand, SMTT(30)
<1>3. Standing(q)'
  <2>1. Control(q)'
    BY Zenon, <1>a, <1>b, <1>d, <1>f DEF Standing, Control, Alive
  <2>2. Known(q)'
    BY <1>a, <1>b, <1>c, <1>d, <1>f DEF Standing, Known, new
  <2>3. Linked(q)' /\ RecordOpen(q)'
    BY Zenon, <1>a, <1>b, <1>c, <1>d, <1>f, <1>g DEF Standing, Linked, RecordOpen
  <2>4. JobStands(q)' /\ OutcomeTrue(q)'
    BY Zenon, <1>a, <1>b, <1>d, <1>e, <1>f, <1>h DEF Standing, JobStands, OutcomeTrue
  <2> QED BY Zenon, <2>1, <2>2, <2>3, <2>4 DEF Standing
<1>4. Distinct'
  <2> SUFFICES ASSUME NEW r \in Requests, NEW p \in Requests, pc'[r] \in Recorded, pc'[p] \in Recorded,
                      task'[r].audit = task'[p].audit
               PROVE  r = p
    BY Zenon DEF Distinct
  <2>1. ASSUME NEW x \in {r, p} PROVE pc[x] \in Recorded /\ task[x].audit = task'[x].audit
    BY Zenon, <1>a, <1>d, <1>f, <2>1
  <2> QED BY Zenon, <2>1 DEF IInv, Distinct
<1>5. AuditsOfJobs' /\ NothingYet'
  <2>1. \A j \in 1..jobSeq : auditOf[j] # task[q].audit
    BY Zenon, <1>a DEF Standing, Linked
  <2>2. AuditsOfJobs
    BY Zenon DEF IInv
  <2>3. \A j \in 1..jobSeq' : auditOf'[j] \in 1..auditSeq'
    BY Zenon, <1>b, <1>c, <1>g, <1>i, <2>2 DEF AuditsOfJobs
  <2>4. ASSUME NEW j \in 1..jobSeq', NEW k \in 1..jobSeq', auditOf'[j] = auditOf'[k] PROVE j = k
    <3>1. CASE j = new /\ k # new
      BY Zenon, <1>g, <1>i, <2>1, <2>4, <3>1
    <3>2. CASE j # new /\ k = new
      BY Zenon, <1>g, <1>i, <2>1, <2>4, <3>2
    <3>3. CASE j # new /\ k # new
      BY Zenon, <1>g, <1>i, <2>2, <2>4, <3>3 DEF AuditsOfJobs
    <3> QED BY Zenon, <3>1, <3>2, <3>3
  <2>5. NothingYet'
    BY Zenon, <1>b DEF IInv, NothingYet
  <2> QED BY Zenon, <2>3, <2>4, <2>5 DEF AuditsOfJobs
<1>6. HistoriesAreTruthful'
  <2>1. \A j \in DOMAIN jobs' : j = new \/ (j \in DOMAIN jobs /\ auditOf'[j] = auditOf[j])
    BY Zenon, <1>a, <1>e, <1>g DEF Types
  <2>2. audit[task[q].audit] = "started"
    BY Zenon, <1>a DEF Standing, RecordOpen
  <2>3. HistoriesClaimNothing'
    BY Zenon, <1>b, <1>e, <1>h, <2>1 DEF IInv, HistoriesAreTruthful, HistoriesClaimNothing
  <2>4. StoresAgree'
    BY Zenon, <1>b, <1>e, <1>g, <2>1, <2>2 DEF IInv, HistoriesAreTruthful, StoresAgree
  <2> QED BY Zenon, <2>3, <2>4 DEF HistoriesAreTruthful
<1> QED
  BY Zenon, <1>1, <1>2, <1>3, <1>4, <1>5, <1>6 DEF IInv

(* A handler returns.                                                      *)
LEMMA ResultStep ==
  ASSUME IInv, L!LockInvariant', NEW q \in Requests, HandlerReturns(q) \/ JobHandlerReturns(q)
  PROVE  IInv'
<1> USE RegistryAssumption
<1>a. Types /\ Standing(q) /\ task[q] \in Tasks
  BY Zenon DEF IInv, Types
<1>b. PICK result \in {"succeeded", "failed"} :
        /\ task' = [task EXCEPT ![q].outcome = result]
        /\ effect' = [effect EXCEPT ![task[q].audit] = result]
  BY Zenon DEF HandlerReturns, JobHandlerReturns
<1>c. PICK next \in {"complete", "jobComplete"} :
        /\ pc' = [pc EXCEPT ![q] = next]
        /\ pc[q] = IF next = "complete" THEN "handler" ELSE "run"
  BY Zenon DEF HandlerReturns, JobHandlerReturns, Goto
<1>d. StoresStay /\ broker' = broker /\ phase' = phase /\ resource' = resource
  BY Zenon DEF HandlerReturns, JobHandlerReturns, StoresStay, storeVars, LocksStay
<1> DEFINE knows == [task[q] EXCEPT !.outcome = result]
<1>e. /\ knows \in Tasks /\ knows.audit = task[q].audit /\ knows.job = task[q].job
      /\ knows.lock = task[q].lock /\ knows.outcome = result
      /\ task' = [task EXCEPT ![q] = knows]
  BY Zenon, <1>a, <1>b DEF Tasks, A!Final
<1> HIDE DEF knows
<1>f. /\ pc'[q] = next /\ task'[q] = knows /\ next \in Recorded /\ next \in Places /\ pc[q] \in Recorded
      /\ \A p \in Requests \ {q} : pc'[p] = pc[p] /\ task'[p] = task[p]
  BY Zenon, <1>a, <1>c, <1>e DEF Types, Recorded, Places
<1>g. task[q].audit \in 1..auditSeq /\ task[q].audit \in 1..MaxID
  BY <1>a, <1>f DEF Standing, Known, Tasks, Types
<1>h. /\ effect' \in [1..MaxID -> Results] /\ effect'[task[q].audit] = result
      /\ \A i \in 1..MaxID : i # task[q].audit => effect'[i] = effect[i]
  BY Zenon, <1>a, <1>b, <1>g DEF Types, Results
<1>1. Types'
  BY ZenonT(30), <1>a, <1>c, <1>d, <1>e, <1>f, <1>h DEF Types, StoresStay
<1>2. ASSUME NEW p \in Requests, p # q PROVE Standing(p)'
  <2>1. Standing(p) /\ task[p] \in Tasks
    BY Zenon, <1>a DEF IInv, Types
  <2>2. pc[p] \in Recorded => task[p].audit # task[q].audit
    BY Zenon, <1>2, <1>f DEF IInv, Distinct
  <2>3. pc[p] \in Recorded => task[p].audit \in DOMAIN audit' /\ audit'[task[p].audit] = "started"
    BY Zenon, <1>d, <2>1 DEF Standing, RecordOpen, StoresStay
  <2>4. pc[p] \in Recorded /\ task[p].job = 0 => \A j \in 1..jobSeq' : auditOf'[j] # task[p].audit
    BY Zenon, <1>d, <2>1 DEF Standing, Linked, StoresStay
  <2>5. pc[p] \in Recorded => effect'[task[p].audit] = effect[task[p].audit]
    <3>1. pc[p] \in Recorded => task[p].audit \in 1..MaxID
      BY <1>a, <2>1 DEF Types, Standing, Known, Tasks
    <3> QED BY Zenon, <1>h, <2>2, <3>1
  <2>6. auditSeq \in Nat /\ jobSeq \in Nat /\ 0 \notin DOMAIN jobs
    BY <1>a DEF Types
  <2> QED BY <1>2, <1>d, <1>f, <2>1, <2>3, <2>4, <2>5, <2>6, OthersKeptStand, SMTT(30) DEF StoresStay
<1>3. Standing(q)'
  <2>1. Control(q)'
    BY Zenon, <1>a, <1>c, <1>d, <1>e, <1>f DEF Standing, Control, Alive
  <2>2. Known(q)'
    BY Zenon, <1>a, <1>c, <1>d, <1>e, <1>f DEF Standing, Known, StoresStay
  <2>3. Linked(q)' /\ RecordOpen(q)'
    BY Zenon, <1>a, <1>d, <1>e, <1>f DEF Standing, Linked, RecordOpen, StoresStay
  <2>4. pc[q] = "handler" => task[q].job \notin DOMAIN jobs
    BY <1>a DEF Standing, Known, Types
  <2>5. JobStands(q)' /\ OutcomeTrue(q)'
    BY Zenon, <1>a, <1>c, <1>d, <1>e, <1>f, <1>h, <2>4 DEF Standing, JobStands, OutcomeTrue, StoresStay
  <2> QED BY Zenon, <2>1, <2>2, <2>3, <2>5 DEF Standing
<1>4. Distinct'
  <2> SUFFICES ASSUME NEW r \in Requests, NEW p \in Requests, pc'[r] \in Recorded, pc'[p] \in Recorded,
                      task'[r].audit = task'[p].audit
               PROVE  r = p
    BY Zenon DEF Distinct
  <2>1. ASSUME NEW x \in {r, p} PROVE pc[x] \in Recorded /\ task[x].audit = task'[x].audit
    BY Zenon, <1>e, <1>f, <2>1
  <2> QED BY Zenon, <2>1 DEF IInv, Distinct
<1>5. AuditsOfJobs' /\ NothingYet'
  <2>1. AuditsOfJobs'
    BY Zenon, <1>d DEF IInv, AuditsOfJobs, StoresStay
  <2>2. auditSeq \in Nat
    BY Zenon, <1>a DEF Types
  <2>3. ASSUME NEW i \in 1..MaxID, i > auditSeq PROVE effect'[i] = "none"
    <3>1. i # task[q].audit
      BY <1>g, <2>2, <2>3
    <3> QED BY Zenon, <1>h, <2>3, <3>1 DEF IInv, NothingYet
  <2> QED BY Zenon, <1>d, <2>1, <2>3 DEF NothingYet, StoresStay
<1>6. HistoriesAreTruthful'
  <2>0. /\ \A i \in DOMAIN audit : i \in 1..MaxID
        /\ \A k \in DOMAIN jobs : auditOf[k] \in 1..MaxID
    BY <1>a DEF IInv, Types, AuditsOfJobs
  <2>1. audit[task[q].audit] = "started"
    BY Zenon, <1>a, <1>f DEF Standing, RecordOpen
  <2>2. ASSUME NEW j \in DOMAIN jobs, auditOf[j] = task[q].audit
        PROVE  jobs[j].status = "running"
    <3>1. j \in 1..jobSeq /\ Linked(q) /\ Known(q) /\ JobStands(q) /\ AuditsOfJobs
      BY Zenon, <1>a DEF Types, IInv, Standing
    <3>2. task[q].job # 0 /\ pc[q] = "run"
      BY Zenon, <1>c, <1>f, <2>2, <3>1 DEF Linked, Known
    <3>3. task[q].job = j
      BY <1>a, <1>f, <2>2, <3>1, <3>2 DEF Linked, Known, AuditsOfJobs, Types, Tasks
    <3> QED BY Zenon, <3>1, <3>2, <3>3 DEF JobStands
  <2>3. HistoriesClaimNothing'
    BY Zenon, <1>d, <1>h, <2>0, <2>1, <2>2 DEF IInv, HistoriesAreTruthful, HistoriesClaimNothing, StoresStay
  <2>4. StoresAgree'
    BY Zenon, <1>d DEF IInv, HistoriesAreTruthful, StoresAgree, StoresStay
  <2> QED BY Zenon, <2>3, <2>4 DEF HistoriesAreTruthful
<1> QED
  BY Zenon, <1>1, <1>2, <1>3, <1>4, <1>5, <1>6 DEF IInv

(* jobs.Start and jobs.Complete: a request changes the record of its job.  *)
LEMMA JobStep ==
  ASSUME IInv, L!LockInvariant', NEW q \in Requests, JobStart(q) \/ JobComplete(q)
  PROVE  IInv'
<1> USE RegistryAssumption
<1> DEFINE a == task[q].audit
           j == task[q].job
<1>a. Types /\ Standing(q) /\ task[q] \in Tasks
  BY Zenon DEF IInv, Types
<1>b. PICK rec \in JobRecords, next \in {"run", "complete"} :
        /\ J!Commit([jobs EXCEPT ![j] = rec])
        /\ pc' = [pc EXCEPT ![q] = next]
        /\ next = "run" =>
             pc[q] = "start" /\ rec.status = "running" /\ effect' = [effect EXCEPT ![a] = "running"]
        /\ next = "complete" =>
             pc[q] = "jobComplete" /\ rec.status = task[q].outcome /\ effect' = effect
  <2>1. CASE JobStart(q)
    <3> DEFINE rec == [jobs[j] EXCEPT !.status = "running"]
    <3>1. /\ pc[q] = "start" /\ J!Commit([jobs EXCEPT ![j] = rec]) /\ pc' = [pc EXCEPT ![q] = "run"]
          /\ effect' = [effect EXCEPT ![a] = "running"] /\ j \in DOMAIN jobs
      BY Zenon, <2>1 DEF JobStart, Goto
    <3>2. rec \in JobRecords /\ rec.status = "running"
      BY Zenon, <1>a, <3>1 DEF Types, JobRecords, J!Active
    <3> HIDE DEF rec, j, a
    <3> QED BY Zenon, <3>1, <3>2
  <2>2. CASE JobComplete(q)
    <3> DEFINE rec == J!finishJob(task[q].outcome, FALSE)
    <3>1. /\ pc[q] = "jobComplete" /\ J!Commit([jobs EXCEPT ![j] = rec])
          /\ pc' = [pc EXCEPT ![q] = "complete"] /\ effect' = effect
      BY Zenon, <2>2 DEF JobComplete, Goto
    <3>2. task[q].outcome \in {"succeeded", "failed"}
      BY Zenon, <1>a, <3>1 DEF Standing, OutcomeTrue
    <3>3. rec \in JobRecords /\ rec.status = task[q].outcome
      BY Zenon, <3>2 DEF JobRecords, J!finishJob, J!Final
    <3> HIDE DEF rec, j, a
    <3> QED BY Zenon, <3>1, <3>3
  <2> QED BY Zenon, <2>1, <2>2
<1>c. /\ audit' = audit /\ auditSeq' = auditSeq /\ jobSeq' = jobSeq /\ auditOf' = auditOf
      /\ broker' = broker /\ task' = task /\ phase' = phase /\ resource' = resource
      /\ j \in DOMAIN jobs /\ jobs[j].status \in J!Active
  BY Zenon DEF JobStart, JobComplete, LocksStay, J!Active
<1>d. /\ pc'[q] = next /\ next \in Recorded /\ next \in Places /\ pc[q] \in Recorded
      /\ pc[q] \in {"start", "jobComplete"}
      /\ \A p \in Requests \ {q} : pc'[p] = pc[p]
  BY Zenon, <1>a, <1>b DEF Types, Recorded, Places
<1>e. /\ auditSeq \in Nat /\ jobSeq \in Nat /\ auditSeq <= MaxID
      /\ j \in 1..jobSeq /\ a \in 1..auditSeq /\ a \in 1..MaxID /\ auditOf[j] = a /\ 0 \notin DOMAIN jobs
  BY <1>a, <1>d DEF Types, Standing, Known, Linked, Tasks
<1>f. /\ effect' \in [1..MaxID -> Results]
      /\ \A i \in 1..MaxID : i # a => effect'[i] = effect[i]
  <2>1. CASE next = "run"
    BY Zenon, <1>a, <1>b, <1>e, <2>1 DEF Types, Results
  <2>2. CASE next = "complete"
    BY Zenon, <1>a, <1>b, <2>2 DEF Types
  <2> QED BY Zenon, <2>1, <2>2
<1>g. /\ DOMAIN jobs' \subseteq DOMAIN jobs
      /\ \A k \in DOMAIN jobs' : jobs'[k] = IF k = j THEN rec ELSE jobs[k]
      /\ \A k \in DOMAIN jobs : k # j /\ jobs[k].status \in J!Active => k \in DOMAIN jobs'
      /\ rec.status \in J!Active => j \in DOMAIN jobs'
  <2> DEFINE after == [jobs EXCEPT ![j] = rec]
  <2>1. DOMAIN after = DOMAIN jobs /\ \A k \in DOMAIN jobs : after[k] = IF k = j THEN rec ELSE jobs[k]
    BY Zenon, <1>c
  <2> HIDE DEF after, j
  <2>2. /\ DOMAIN jobs' \subseteq DOMAIN after
        /\ \A k \in DOMAIN jobs' : jobs'[k] = after[k]
        /\ \A k \in DOMAIN after : after[k].status \in J!Active => k \in DOMAIN jobs'
    BY Zenon, <1>b, CommitKeeps DEF after
  <2> QED BY Zenon, <1>c, <2>1, <2>2
<1>h. \A k \in DOMAIN jobs : k # j => auditOf[k] # a
  BY Zenon, <1>a, <1>e DEF Types, IInv, AuditsOfJobs
<1>i. audit[a] = "started"
  BY Zenon, <1>a, <1>d DEF Standing, RecordOpen
<1> HIDE DEF a, j
<1>1. Types'
  <2>1. DOMAIN jobs' \subseteq 1..jobSeq /\ \A k \in DOMAIN jobs' : jobs'[k] \in JobRecords
    BY Zenon, <1>a, <1>b, <1>g DEF Types
  <2> QED BY Zenon, <1>a, <1>b, <1>c, <1>d, <1>f, <2>1 DEF Types
<1>2. ASSUME NEW p \in Requests, p # q PROVE Standing(p)'
  <2>1. Standing(p) /\ task[p] \in Tasks
    BY Zenon, <1>a DEF IInv, Types
  <2>2. pc[p] \in Recorded => task[p].audit # a
    BY Zenon, <1>2, <1>d DEF IInv, Distinct, a
  <2>3. pc[p] \in Recorded /\ task[p].job # 0 => task[p].job # j
    BY Zenon, <1>e, <2>1, <2>2 DEF Standing, Linked
  <2>4. pc[p] \in Recorded => task[p].audit \in DOMAIN audit' /\ audit'[task[p].audit] = "started"
    BY Zenon, <1>c, <2>1 DEF Standing, RecordOpen
  <2>5. pc[p] \in Recorded /\ task[p].job = 0 => \A k \in 1..jobSeq' : auditOf'[k] # task[p].audit
    BY Zenon, <1>c, <2>1 DEF Standing, Linked
  <2>6. pc[p] \in Recorded => effect'[task[p].audit] = effect[task[p].audit]
    <3>1. pc[p] \in Recorded => task[p].audit \in 1..MaxID
      BY <1>a, <2>1 DEF Types, Standing, Known, Tasks
    <3> QED BY Zenon, <1>f, <2>2, <3>1
  <2>7. pc[p] \in Recorded /\ task[p].job # 0 =>
          /\ task[p].job \in DOMAIN jobs' =>
               /\ task[p].job \in DOMAIN jobs
               /\ jobs'[task[p].job].status = jobs[task[p].job].status
          /\ task[p].job \in DOMAIN jobs /\ jobs[task[p].job].status \in J!Active =>
               task[p].job \in DOMAIN jobs'
    BY Zenon, <1>g, <2>3
  <2>8. 0 \notin DOMAIN jobs'
    BY Zenon, <1>e, <1>g
  <2> QED BY <1>2, <1>c, <1>d, <1>e, <2>1, <2>4, <2>5, <2>6, <2>7, <2>8, OthersKeptStand, SMTT(30), Zenon, SMTT(60)
<1>3. Standing(q)'
  <2>1. Control(q)'
    BY Zenon, <1>a, <1>b, <1>c, <1>d DEF Standing, Control, Alive
  <2>2. pc[q] = "jobComplete" => task[q].outcome \in {"succeeded", "failed"}
                                 /\ effect[a] = task[q].outcome
    BY Zenon, <1>a DEF Standing, OutcomeTrue, a
  <2>3. Known(q)'
    BY Zenon, <1>a, <1>b, <1>c, <1>d, <2>2 DEF Standing, Known
  <2>4. Linked(q)' /\ RecordOpen(q)'
    BY Zenon, <1>a, <1>c, <1>d DEF Standing, Linked, RecordOpen
  <2>5. JobStands(q)'
    BY Zenon, <1>b, <1>c, <1>d, <1>g DEF JobStands, J!Active, j
  <2>6. OutcomeTrue(q)'
    BY Zenon, <1>b, <1>c, <1>d, <2>2 DEF OutcomeTrue, a
  <2> QED BY Zenon, <2>1, <2>3, <2>4, <2>5, <2>6 DEF Standing
<1>4. Distinct'
  <2>1. ASSUME NEW x \in Requests, pc'[x] \in Recorded PROVE pc[x] \in Recorded
    BY Zenon, <1>d, <2>1
  <2> QED BY Zenon, <1>c, <2>1 DEF IInv, Distinct
<1>5. AuditsOfJobs'
  BY Zenon, <1>c DEF IInv, AuditsOfJobs
<1>6. NothingYet'
  <2>1. ASSUME NEW i \in 1..MaxID, i > auditSeq PROVE effect'[i] = "none"
    <3>1. i # a
      BY <1>e, <2>1
    <3> QED BY Zenon, <1>f, <2>1, <3>1 DEF IInv, NothingYet
  <2> QED BY Zenon, <1>c, <2>1 DEF NothingYet
<1>7. HistoriesAreTruthful'
  <2>0. /\ \A i \in DOMAIN audit : i \in 1..MaxID
        /\ \A k \in DOMAIN jobs : auditOf[k] \in 1..MaxID
    BY <1>a DEF IInv, Types, AuditsOfJobs
  <2>1. rec.status \in {"succeeded", "failed"} => effect'[a] = rec.status
    <3>1. OutcomeTrue(q)
      BY Zenon, <1>a DEF Standing
    <3> QED BY Zenon, <1>b, <3>1 DEF OutcomeTrue, a
  <2>2. HistoriesClaimNothing'
    BY <1>c, <1>e, <1>f, <1>g, <1>h, <1>i, <2>0, <2>1, SMTT(30)
    DEF IInv, HistoriesAreTruthful, HistoriesClaimNothing
  <2>3. StoresAgree'
    BY Zenon, <1>c, <1>e, <1>g, <1>i DEF IInv, HistoriesAreTruthful, StoresAgree
  <2> QED BY Zenon, <2>2, <2>3 DEF HistoriesAreTruthful
<1> QED
  BY Zenon, <1>1, <1>2, <1>3, <1>4, <1>5, <1>6, <1>7 DEF IInv

------------------------------------------------------------------------------
(* The registry as a user of the audit store.                              *)
GaveUp == {i \in DOMAIN audit : AuditOpen /\ audit[i] = "started" /\ i \notin owed}

(* The records that are owed a completion are those of the requests        *)
(* between their intent and their result.                                  *)
LEMMA OwedIs ==
  /\ \A i : i \in owed <=> AuditOpen /\ \E q \in Requests : pc[q] \in Recorded /\ task[q].audit = i
  /\ \A i : i \in owed' <=> AuditOpen' /\ \E q \in Requests : pc'[q] \in Recorded /\ task'[q].audit = i
  BY Zenon DEF owed, Recorded

(* A step that leaves the records and the owed ones alone is not seen.     *)
LEMMA SameView ==
  ASSUME audit' = audit, auditSeq' = auditSeq, AuditOpen' <=> AuditOpen, owed' = owed
  PROVE  UNCHANGED A!auditVars
<1>1. AuditOpen' = AuditOpen
  BY SMT DEF AuditOpen
<1>2. GaveUp' = GaveUp
  BY Zenon, <1>1 DEF GaveUp
<1> QED
  BY Zenon, <1>1, <1>2 DEF A!auditVars, GaveUp

(* Nor is one in which no request comes to owe or ceases to owe a record.  *)
LEMMA QuietStep ==
  ASSUME audit' = audit, auditSeq' = auditSeq, AuditOpen' <=> AuditOpen,
         \A p \in Requests : /\ pc'[p] \in Recorded <=> pc[p] \in Recorded
                             /\ pc[p] \in Recorded => task'[p].audit = task[p].audit
  PROVE  UNCHANGED A!auditVars
<1>1. \A i : i \in owed' <=> i \in owed
  BY Zenon, OwedIs
<1>2. owed' = owed
  BY Zenon, <1>1
<1> QED
  BY Zenon, <1>2, SameView

(* A request that leaves without a result gives its record up.             *)
LEMMA AbandonStep ==
  ASSUME IInv, NEW q \in Requests, pc[q] \in Recorded, pc'[q] \notin Recorded,
         \A p \in Requests \ {q} : pc'[p] = pc[p] /\ task'[p] = task[p],
         audit' = audit, auditSeq' = auditSeq, broker' = broker
  PROVE  [A!Next]_A!auditVars
<1>1. Distinct /\ RecordOpen(q) /\ (AuditOpen' <=> AuditOpen)
  BY Zenon DEF IInv, Standing, AuditOpen
<1>2. CASE ~AuditOpen
  <2>1. owed' = owed
    BY Zenon, <1>1, <1>2, OwedIs
  <2> QED BY Zenon, <1>1, <2>1, SameView
<1>3. CASE AuditOpen
  <2>0. PICK id : id = task[q].audit
    BY Zenon
  <2>1. id \in owed
    BY Zenon, <1>3, <2>0, OwedIs
  <2>2. \A i : i \in owed' <=> i \in owed \ {id}
    <3>1. ASSUME NEW i, i \in owed' PROVE i \in owed /\ i # id
      <4>1. PICK p \in Requests : pc'[p] \in Recorded /\ task'[p].audit = i
        BY Zenon, <3>1, OwedIs
      <4>2. p # q /\ pc[p] \in Recorded /\ task[p].audit = i
        BY Zenon, <4>1
      <4> QED BY Zenon, <1>1, <1>3, <2>0, <4>2, OwedIs DEF Distinct
    <3>2. ASSUME NEW i, i \in owed, i # id PROVE i \in owed'
      BY ZenonT(30), <1>1, <1>3, <2>0, <3>2, OwedIs
    <3> QED BY Zenon, <3>1, <3>2
  <2>3. owed' = owed \ {id}
    BY Zenon, <2>2
  <2>4. GaveUp' = GaveUp \cup {id}
    BY Zenon, <1>1, <1>3, <2>0, <2>1, <2>3 DEF GaveUp, RecordOpen
  <2>5. A!Abandon(id)
    <3>1. AuditOpen' = AuditOpen
      BY Zenon DEF AuditOpen
    <3> QED BY Zenon, <1>3, <2>1, <2>3, <2>4, <3>1 DEF A!Abandon, GaveUp
  <2> QED BY Zenon, <2>1, <2>5 DEF A!Next
<1> QED
  BY Zenon, <1>2, <1>3

(* audit.Begin is the store's Begin.                                       *)
LEMMA BeginStep ==
  ASSUME IInv, NEW q \in Requests, RecordIntent(q)
  PROVE  A!Begin
<1> DEFINE new == auditSeq + 1
<1>1. /\ Types /\ task[q] \in Tasks /\ pc[q] = "begin" /\ pc[q] \notin Recorded
      /\ audit' = A!Put(audit, new, "started") /\ task' = [task EXCEPT ![q].audit = new]
      /\ broker' = broker /\ AuditOpen /\ auditSeq < MaxID /\ auditSeq' = new
  BY Zenon DEF IInv, Types, RecordIntent, Recorded
<1>2. new \notin DOMAIN audit
  BY <1>1 DEF Types
<1>3. /\ pc'[q] \in Recorded
      /\ \A p \in Requests \ {q} : pc'[p] = pc[p]
  BY Zenon, <1>1 DEF Types, RecordIntent, Goto, Recorded
<1>4. /\ task'[q].audit = new
      /\ \A p \in Requests \ {q} : task'[p] = task[p]
  BY <1>1 DEF Types, Tasks
<1> HIDE DEF new
<1>5. AuditOpen' = AuditOpen /\ (AuditOpen' <=> AuditOpen)
  BY SMT, <1>1 DEF AuditOpen
<1>6. owed' = owed \cup {new}
  <2>1. ASSUME NEW i, i \in owed' PROVE i \in owed \cup {new}
    <3>1. PICK p \in Requests : pc'[p] \in Recorded /\ task'[p].audit = i
      BY Zenon, <2>1, OwedIs
    <3>2. CASE p = q
      BY Zenon, <1>4, <3>1, <3>2
    <3>3. CASE p # q
      BY Zenon, <1>1, <1>3, <1>4, <3>1, <3>3, OwedIs
    <3> QED BY Zenon, <3>2, <3>3
  <2>2. ASSUME NEW i, i \in owed PROVE i \in owed'
    <3>1. PICK p \in Requests : pc[p] \in Recorded /\ task[p].audit = i
      BY Zenon, <2>2, OwedIs
    <3>2. p # q
      BY Zenon, <1>1, <3>1
    <3> QED BY Zenon, <1>1, <1>3, <1>4, <1>5, <3>1, <3>2, OwedIs
  <2>3. new \in owed'
    BY Zenon, <1>1, <1>3, <1>4, <1>5, OwedIs
  <2> QED BY Zenon, <2>1, <2>2, <2>3
<1>7. GaveUp' = GaveUp
  <2>1. /\ DOMAIN audit' \subseteq DOMAIN audit \cup {new}
        /\ \A i \in DOMAIN audit' : audit'[i] = IF i = new THEN "started" ELSE audit[i]
        /\ \A i \in DOMAIN audit : i # new /\ audit[i] = "started" => i \in DOMAIN audit'
    <3>1. audit' = A!Put(audit, new, "started")
      BY Zenon, <1>1
    <3> QED BY <3>1, PutKeeps
  <2>2. ASSUME NEW i, i \in GaveUp' PROVE i \in GaveUp
    <3>1. i \in DOMAIN audit' /\ audit'[i] = "started" /\ i \notin owed'
      BY Zenon, <2>2 DEF GaveUp
    <3>2. i \notin owed /\ i # new
      BY Zenon, <1>6, <3>1
    <3>3. i \in DOMAIN audit /\ audit[i] = "started"
      BY Zenon, <2>1, <3>1, <3>2
    <3> QED BY Zenon, <1>1, <3>2, <3>3 DEF GaveUp
  <2>3. ASSUME NEW i, i \in GaveUp PROVE i \in GaveUp'
    BY Zenon, <1>1, <1>2, <1>5, <1>6, <2>1, <2>3 DEF GaveUp
  <2> QED BY Zenon, <2>2, <2>3
<1> QED
  BY Zenon, <1>1, <1>5, <1>6, <1>7 DEF A!Begin, GaveUp, new

(* audit.Complete is the store's Complete of a record that is owed one,    *)
(* and of no other request's.                                              *)
LEMMA CompleteStep ==
  ASSUME IInv, NEW q \in Requests, RecordCompletion(q)
  PROVE  A!Next
<1>0. PICK id, outcome : id = task[q].audit /\ outcome = task[q].outcome
  BY Zenon
<1>1. /\ Types /\ Distinct /\ task[q] \in Tasks /\ RecordOpen(q) /\ Known(q)
      /\ pc[q] = "complete" /\ pc[q] \in Recorded
      /\ audit' = A!Put(audit, id, outcome) /\ auditSeq' = auditSeq
      /\ broker' = broker /\ AuditOpen /\ id \in DOMAIN audit
  BY Zenon, <1>0 DEF IInv, Types, Standing, RecordCompletion, Recorded
<1>2. outcome \in A!Final
  BY Zenon, <1>0, <1>1 DEF Tasks, Known
<1>3. outcome # "started"
  BY Zenon, <1>2 DEF A!Final
<1>4. /\ pc'[q] \notin Recorded
      /\ \A p \in Requests \ {q} : pc'[p] = pc[p] /\ task'[p] = task[p]
  <2>1. CASE phase[q] = "held"
    BY Zenon, <1>1, <2>1 DEF Types, RecordCompletion, AfterComplete, Goto, Recorded
  <2>2. CASE phase[q] # "held"
    BY Zenon, <1>1, <2>2 DEF Types, RecordCompletion, AfterComplete, Goto, Recorded
  <2> QED BY Zenon, <2>1, <2>2
<1>5. AuditOpen' = AuditOpen /\ (AuditOpen' <=> AuditOpen)
  BY SMT, <1>1 DEF AuditOpen
<1>6. id \in owed
  BY Zenon, <1>0, <1>1, OwedIs
<1>7. owed' = owed \ {id}
  <2>1. ASSUME NEW i, i \in owed' PROVE i \in owed /\ i # id
    <3>1. PICK p \in Requests : pc'[p] \in Recorded /\ task'[p].audit = i
      BY Zenon, <2>1, OwedIs
    <3>2. p # q /\ pc[p] \in Recorded /\ task[p].audit = i
      BY Zenon, <1>4, <3>1
    <3> QED BY Zenon, <1>0, <1>1, <3>2, OwedIs DEF Distinct
  <2>2. ASSUME NEW i, i \in owed, i # id PROVE i \in owed'
    BY ZenonT(30), <1>0, <1>1, <1>4, <1>5, <2>2, OwedIs
  <2> QED BY Zenon, <2>1, <2>2
<1>8. GaveUp' = GaveUp
  <2>1. /\ DOMAIN audit' \subseteq DOMAIN audit \cup {id}
        /\ \A i \in DOMAIN audit' : audit'[i] = IF i = id THEN outcome ELSE audit[i]
        /\ \A i \in DOMAIN audit : i # id /\ audit[i] = "started" => i \in DOMAIN audit'
    <3>1. audit' = A!Put(audit, id, outcome)
      BY Zenon, <1>1
    <3> QED BY <3>1, PutKeeps
  <2>2. ASSUME NEW i, i \in GaveUp' PROVE i \in GaveUp
    <3>1. i \in DOMAIN audit' /\ audit'[i] = "started" /\ i \notin owed'
      BY Zenon, <2>2 DEF GaveUp
    <3>2. i \in DOMAIN audit /\ audit[i] = "started" /\ i # id
      BY Zenon, <1>1, <1>3, <2>1, <3>1
    <3> QED BY Zenon, <1>1, <1>7, <3>1, <3>2 DEF GaveUp
  <2>3. ASSUME NEW i, i \in GaveUp PROVE i \in GaveUp'
    BY Zenon, <1>1, <1>5, <1>6, <1>7, <2>1, <2>3 DEF GaveUp
  <2> QED BY Zenon, <2>2, <2>3
<1>9. A!Complete(id, outcome)
  BY Zenon, <1>1, <1>5, <1>6, <1>7, <1>8 DEF A!Complete, GaveUp
<1> QED
  BY Zenon, <1>2, <1>6, <1>9 DEF A!Next

(* The steps of a request that begin no record and end none.               *)
LEMMA UnseenStep ==
  ASSUME IInv, NEW q \in Requests,
         \/ \E d \in Definitions : ExecuteLock(q, d)
         \/ Refused(q) \/ LockAcquired(q) \/ LockCancelled(q) \/ IntentFails(q)
         \/ EnqueueJob(q) \/ EnqueueFails(q) \/ HandlerReturns(q)
         \/ JobStart(q) \/ JobStartFails(q) \/ JobHandlerReturns(q)
         \/ JobComplete(q) \/ JobCompleteFails(q)
         \/ UnlockToken(q) \/ UnlockReference(q)
  PROVE  UNCHANGED A!auditVars
<1>1. Types /\ task[q] \in Tasks
  BY Zenon DEF IInv, Types
<1>2. audit' = audit /\ auditSeq' = auditSeq /\ broker' = broker
  BY Zenon DEF ExecuteLock, Refused, LockAcquired, LockCancelled, IntentFails, EnqueueJob,
               EnqueueFails, HandlerReturns, JobStart, JobStartFails, JobHandlerReturns,
               JobComplete, JobCompleteFails, UnlockToken, UnlockReference, storeVars
<1>3. PICK next \in Places : pc' = [pc EXCEPT ![q] = next] /\ (next \in Recorded <=> pc[q] \in Recorded)
  <2>1. CASE \/ \E d \in Definitions : ExecuteLock(q, d)
             \/ Refused(q) \/ LockAcquired(q) \/ LockCancelled(q) \/ IntentFails(q)
    BY Zenon, <2>1 DEF ExecuteLock, Refused, LockAcquired, LockCancelled, IntentFails, Goto, Places, Recorded
  <2>2. CASE \/ EnqueueJob(q) \/ EnqueueFails(q) \/ HandlerReturns(q)
             \/ JobStart(q) \/ JobStartFails(q) \/ JobHandlerReturns(q)
             \/ JobComplete(q) \/ JobCompleteFails(q)
    BY Zenon, <2>2 DEF EnqueueJob, EnqueueFails, HandlerReturns, JobStart, JobStartFails,
         JobHandlerReturns, JobComplete, JobCompleteFails, Goto, Places, Recorded
  <2>3. CASE UnlockToken(q)
    <3>1. pc' = pc /\ pc[q] \in Places /\ pc = [pc EXCEPT ![q] = pc[q]]
      BY Zenon, <1>1, <2>3 DEF UnlockToken, Types
    <3> QED BY Zenon, <3>1
  <2>4. CASE UnlockReference(q)
    <3>1. CASE pc[q] = "unlock"
      BY Zenon, <2>4, <3>1 DEF UnlockReference, Goto, Places, Recorded
    <3>2. CASE pc[q] = "unlockEarly"
      BY Zenon, <2>4, <3>2 DEF UnlockReference, Goto, Places, Recorded
    <3> QED BY Zenon, <2>4, <3>1, <3>2 DEF UnlockReference
  <2> QED BY Zenon, <2>1, <2>2, <2>3, <2>4
<1>4. /\ \A p \in Requests \ {q} : task'[p] = task[p]
      /\ pc[q] \in Recorded => task'[q].audit = task[q].audit
  <2>1. CASE \/ \E d \in Definitions : ExecuteLock(q, d)
             \/ Refused(q)
    BY Zenon, <1>1, <2>1 DEF ExecuteLock, Refused, Types, Recorded
  <2>2. CASE \/ LockAcquired(q) \/ LockCancelled(q) \/ IntentFails(q)
             \/ JobStart(q) \/ JobComplete(q) \/ UnlockToken(q)
    BY Zenon, <2>2 DEF LockAcquired, LockCancelled, IntentFails, JobStart, JobComplete, UnlockToken
  <2>3. CASE EnqueueJob(q)
    BY <1>1, <2>3 DEF EnqueueJob, Types, Tasks
  <2>4. CASE EnqueueFails(q) \/ JobStartFails(q) \/ JobCompleteFails(q)
    BY <1>1, <2>4 DEF EnqueueFails, JobStartFails, JobCompleteFails, Types, Tasks
  <2>5. CASE HandlerReturns(q) \/ JobHandlerReturns(q)
    BY <1>1, <2>5 DEF HandlerReturns, JobHandlerReturns, Types, Tasks
  <2>6. CASE UnlockReference(q)
    <3>1. CASE pc[q] = "unlock"
      BY Zenon, <1>1, <2>6, <3>1 DEF UnlockReference, Types, Recorded
    <3>2. CASE pc[q] # "unlock"
      BY Zenon, <2>6, <3>2 DEF UnlockReference
    <3> QED BY Zenon, <3>1, <3>2
  <2> QED BY Zenon, <2>1, <2>2, <2>3, <2>4, <2>5, <2>6
<1>5. \A p \in Requests : pc'[p] = IF p = q THEN next ELSE pc[p]
  BY Zenon, <1>1, <1>3 DEF Types
<1>6. AuditOpen' <=> AuditOpen
  BY Zenon, <1>2 DEF AuditOpen
<1>7. \A p \in Requests : /\ pc'[p] \in Recorded <=> pc[p] \in Recorded
                          /\ pc[p] \in Recorded => task'[p].audit = task[p].audit
  BY Zenon, <1>3, <1>4, <1>5
<1> QED
  BY Zenon, <1>2, <1>6, <1>7, QuietStep

(* The end of the process, and its start.                                  *)
LEMMA ProcessStep ==
  ASSUME IInv, Signal \/ ShutDown \/ Crash \/ Starting
  PROVE  [A!Next]_A!auditVars
<1>0. Types
  BY Zenon DEF IInv
<1>1. CASE Signal \/ JobsDrained \/ WaitTimesOut \/ OpenJobs
  <2>1. AuditOpen' <=> AuditOpen
    BY Zenon, <1>1 DEF Signal, JobsDrained, WaitTimesOut, OpenJobs, AuditOpen
  <2>2. audit' = audit /\ auditSeq' = auditSeq /\ pc' = pc /\ task' = task
    BY Zenon, <1>1 DEF Signal, JobsDrained, WaitTimesOut, OpenJobs, storeVars
  <2> QED BY Zenon, <2>1, <2>2, QuietStep
<1>2. CASE CloseAudit \/ Exit \/ Crash
  <2>1. audit' = audit /\ auditSeq' = auditSeq /\ ~AuditOpen'
    BY Zenon, <1>2 DEF CloseAudit, Exit, Crash, Gone, storeVars, AuditOpen
  <2>2. owed' = {} /\ GaveUp' = {}
    BY Zenon, <2>1, OwedIs DEF GaveUp
  <2>3. CASE AuditOpen
    <3>1. AuditOpen' = FALSE
      BY SMT, <2>1 DEF AuditOpen
    <3>2. A!Stop
      BY Zenon, <2>1, <2>2, <2>3, <3>1 DEF A!Stop, GaveUp
    <3> QED BY Zenon, <3>2 DEF A!Next
  <2>4. CASE ~AuditOpen
    <3>1. owed = {}
      BY Zenon, <2>4, OwedIs
    <3> QED BY Zenon, <2>1, <2>2, <2>4, <3>1, SameView
  <2> QED BY Zenon, <2>3, <2>4
<1>3. CASE OpenAudit
  <2>1. /\ ~AuditOpen /\ AuditOpen' /\ ~Alive /\ audit' = A!Recover(audit)
        /\ auditSeq' = auditSeq /\ pc' = pc
    BY Zenon, <1>3 DEF OpenAudit, AuditOpen, Alive
  <2>2. \A p \in Requests : pc[p] \notin Recorded
    BY Zenon, <2>1 DEF IInv, Standing, Control, Recorded
  <2>3. owed' = {} /\ owed = {}
    BY Zenon, <2>1, <2>2, OwedIs
  <2>4. \A i \in DOMAIN audit' : audit'[i] # "started"
    <3>1. audit' = A!Recover(audit)
      BY Zenon, <2>1
    <3>2. \A i \in DOMAIN audit' : audit'[i] = IF audit[i] = "started" THEN "unknown" ELSE audit[i]
      BY <3>1, RecoverKeeps
    <3> QED BY Zenon, <3>2
  <2>5. GaveUp' = {} /\ GaveUp = {}
    BY Zenon, <2>1, <2>4 DEF GaveUp
  <2>6. AuditOpen' = TRUE
    BY SMT, <2>1 DEF AuditOpen
  <2>7. A!Open
    BY Zenon, <2>1, <2>3, <2>5, <2>6 DEF A!Open, GaveUp
  <2> QED BY Zenon, <2>7 DEF A!Next
<1> QED
  BY Zenon, <1>1, <1>2, <1>3 DEF ShutDown, Starting

(* Every step of the registry is a step of the store, or is not seen.      *)
LEMMA NextIsAuditNext ==
  ASSUME IInv, [Next]_vars
  PROVE  [A!Next]_A!auditVars
<1>1. ASSUME NEW q \in Requests, HandlerPanics(q) \/ CompletionFails(q)
      PROVE  [A!Next]_A!auditVars
  <2>1. Types
    BY Zenon DEF IInv
  <2>2. /\ pc[q] \in Recorded /\ pc'[q] \notin Recorded
        /\ \A p \in Requests \ {q} : pc'[p] = pc[p] /\ task'[p] = task[p]
    <3>1. CASE HandlerPanics(q)
      BY Zenon, <2>1, <3>1 DEF HandlerPanics, Goto, Types, Recorded
    <3>2. CASE CompletionFails(q) /\ phase[q] = "held"
      BY Zenon, <2>1, <3>2 DEF CompletionFails, AfterComplete, Goto, Types, Recorded
    <3>3. CASE CompletionFails(q) /\ phase[q] # "held"
      BY Zenon, <2>1, <3>3 DEF CompletionFails, AfterComplete, Goto, Types, Recorded
    <3> QED BY Zenon, <1>1, <3>1, <3>2, <3>3
  <2>3. audit' = audit /\ auditSeq' = auditSeq /\ broker' = broker
    BY Zenon, <1>1 DEF HandlerPanics, CompletionFails, storeVars
  <2> QED BY Zenon, <2>2, <2>3, AbandonStep
<1>2. ASSUME NEW q \in Requests, RecordIntent(q) PROVE A!Next
  BY Zenon, <1>2, BeginStep DEF A!Next
<1>3. CASE UNCHANGED vars
  <2>1. audit' = audit /\ auditSeq' = auditSeq /\ broker' = broker /\ pc' = pc /\ task' = task
    BY Zenon, <1>3 DEF vars
  <2>2. AuditOpen' <=> AuditOpen
    BY Zenon, <2>1 DEF AuditOpen
  <2> QED BY Zenon, <2>1, <2>2, QuietStep
<1>4. CASE Signal \/ ShutDown \/ Crash \/ Starting
  BY Zenon, <1>4, ProcessStep
<1>5. ASSUME NEW q \in Requests,
             \/ \E d \in Definitions : ExecuteLock(q, d)
             \/ LockAcquired(q) \/ LockCancelled(q)
             \/ HandlerPanics(q)
             \/ Advance(q)
      PROVE  [A!Next]_A!auditVars
  BY Zenon, <1>1, <1>2, <1>5, CompleteStep, UnseenStep DEF Advance
<1> QED
  BY Zenon, <1>3, <1>4, <1>5 DEF Next

------------------------------------------------------------------------------
(* The lock table and the arithmetic of IDs, from the library and from the *)
(* theorems of ResourceLocks.                                              *)
LP == INSTANCE ResourceLocksProofs WITH Callers <- Requests

(* What a step of the lock table keeps is what the registry can rely on.   *)
LEMMA LocksStep ==
  ASSUME L!LockInvariant, [L!Next]_<<locks, ready, refs, phase, resource, entry>>
  PROVE  L!LockInvariant'
<1>1. LP!LocksAssumption
  BY Zenon, RegistryAssumption DEF LP!LocksAssumption, LP!IsFiniteSet, IsFiniteSet
<1>2. LP!LockInvariant /\ [LP!Next]_LP!lockVars => LP!LockInvariant'
  BY Zenon, <1>1, LP!NextLockInvariant
<1> QED
  BY Zenon, <1>2
  DEF L!LockInvariant, L!TypeOK, L!EntryIsRegistered, L!RefsCountUsers, L!NoLeakedEntry,
      L!UnlockNeverBlocks, L!MutualExclusion, L!Users, L!Phases, L!Referencing, L!Next,
      L!TryLock, L!TryLockRefused, L!Lock, L!JoinEntry, L!CreateEntry, L!Forget, L!Acquire,
      L!CancelWait, L!ReturnToken, L!ReleaseReference, L!Enter, L!Install, L!FreshEntry,
      LP!LockInvariant, LP!TypeOK, LP!EntryIsRegistered, LP!RefsCountUsers, LP!NoLeakedEntry,
      LP!UnlockNeverBlocks, LP!MutualExclusion, LP!Users, LP!Phases, LP!Referencing, LP!Next,
      LP!TryLock, LP!TryLockRefused, LP!Lock, LP!JoinEntry, LP!CreateEntry, LP!Forget, LP!Acquire,
      LP!CancelWait, LP!ReturnToken, LP!ReleaseReference, LP!Enter, LP!Install, LP!FreshEntry, LP!lockVars, L!Cardinality, LP!Cardinality, L!IsFiniteSet, LP!IsFiniteSet

(* The job that is about to be queued gets an ID that is not above those   *)
(* of the audit records: it has a record that no other job has.            *)
LEMMA RoomForJob ==
  ASSUME IInv, NEW q \in Requests, pc[q] \in Recorded, task[q].job = 0
  PROVE  jobSeq + 1 <= auditSeq
<1> DEFINE f == [j \in 1..jobSeq + 1 |-> IF j = jobSeq + 1 THEN task[q].audit ELSE auditOf[j]]
<1>1. Types /\ AuditsOfJobs /\ Known(q) /\ Linked(q)
  BY Zenon DEF IInv, Standing
<1>2. jobSeq \in Nat /\ auditSeq \in Nat /\ task[q].audit \in 1..auditSeq
  BY <1>1 DEF Types, Tasks, Known
<1>3. \A j \in 1..jobSeq : auditOf[j] \in 1..auditSeq /\ auditOf[j] # task[q].audit
  BY Zenon, <1>1 DEF AuditsOfJobs, Linked
<1>4. \A j, k \in 1..jobSeq : auditOf[j] = auditOf[k] => j = k
  BY Zenon, <1>1 DEF AuditsOfJobs
<1>5. \A j \in 1..jobSeq + 1 : j = jobSeq + 1 \/ j \in 1..jobSeq
  BY <1>2
<1>6. f \in [1..jobSeq + 1 -> 1..auditSeq]
  BY Zenon, <1>2, <1>3, <1>5
<1>7. \A j, k \in 1..jobSeq + 1 : f[j] = f[k] => j = k
  BY Zenon, <1>3, <1>4, <1>5
<1>8. f \in LP!Injection(1..jobSeq + 1, 1..auditSeq)
  BY Zenon, <1>6, <1>7 DEF LP!Injection, LP!IsInjective
<1>9. LP!IsFiniteSet(1..auditSeq) /\ LP!Cardinality(1..auditSeq) = auditSeq
      /\ LP!Cardinality(1..jobSeq + 1) = jobSeq + 1
  <2>1. LP!LocksAssumption
    BY Zenon, RegistryAssumption DEF LP!LocksAssumption, LP!IsFiniteSet, IsFiniteSet
  <2>2. \A b \in Int : /\ LP!IsFiniteSet(1..b)
                       /\ LP!Cardinality(1..b) = IF 1 > b THEN 0 ELSE b - 1 + 1
    <3>1. 1 \in Int
      OBVIOUS
    <3> QED BY Zenon, <2>1, <3>1, LP!FS_Interval
  <2> QED BY <1>2, <2>2
<1> HIDE DEF f
<1>10. LP!Cardinality(1..jobSeq + 1) <= LP!Cardinality(1..auditSeq)
  <2>1. LP!LocksAssumption
    BY Zenon, RegistryAssumption DEF LP!LocksAssumption, LP!IsFiniteSet, IsFiniteSet
  <2> QED BY Zenon, <1>8, <1>9, <2>1, LP!FS_Injection
<1> QED
  BY Zenon, <1>9, <1>10


(* Every step keeps the invariant.                                         *)
LEMMA NextIInv == IInv /\ [Next]_vars => IInv'
<1> SUFFICES ASSUME IInv, [Next]_vars PROVE IInv'
  BY Zenon
<1> DEFINE lockVars == <<locks, ready, refs, phase, resource, entry>>
<1>a. L!LockInvariant
  BY Zenon DEF IInv
<1>b. ASSUME [L!Next]_lockVars PROVE L!LockInvariant'
  BY Zenon, <1>a, <1>b, LocksStep
<1>1. ASSUME NEW q \in Requests,
             \/ \E d \in Definitions : ExecuteLock(q, d)
             \/ Refused(q) \/ LockAcquired(q) \/ LockCancelled(q)
      PROVE  IInv'
  <2>1. \A d \in Definitions : d.lock \in Resources
    BY Zenon, RegistryAssumption
  <2>2. L!Next
    BY Zenon, <1>1, <2>1 DEF ExecuteLock, Refused, LockAcquired, LockCancelled, L!Next
  <2> QED BY Zenon, <1>1, <1>b, <2>2, LockingStep
<1>2. ASSUME NEW q \in Requests,
             \/ IntentFails(q) \/ EnqueueFails(q) \/ HandlerPanics(q)
             \/ JobStartFails(q) \/ JobCompleteFails(q)
      PROVE  IInv'
  <2>1. UNCHANGED lockVars
    BY Zenon, <1>2 DEF IntentFails, EnqueueFails, HandlerPanics, JobStartFails, JobCompleteFails, LocksStay
  <2> QED BY Zenon, <1>2, <1>b, <2>1, FailureStep
<1>3. ASSUME NEW q \in Requests, CompletionFails(q) \/ UnlockToken(q) \/ UnlockReference(q)
      PROVE  IInv'
  <2>1. [L!Next]_lockVars
    BY Zenon, <1>3 DEF CompletionFails, UnlockToken, UnlockReference, LocksStay, L!Next
  <2> QED BY Zenon, <1>3, <1>b, <2>1, LeavingStep
<1>4. ASSUME NEW q \in Requests, RecordIntent(q) PROVE IInv'
  BY Zenon, <1>4, <1>b, IntentStep DEF RecordIntent, LocksStay
<1>5. ASSUME NEW q \in Requests, EnqueueJob(q) PROVE IInv'
  <2>1. pc[q] \in Recorded /\ task[q].job = 0
    BY Zenon, <1>5 DEF IInv, EnqueueJob, Standing, Known, Recorded
  <2> QED BY Zenon, <1>5, <1>b, <2>1, RoomForJob, EnqueueStep DEF EnqueueJob, LocksStay
<1>6. ASSUME NEW q \in Requests, HandlerReturns(q) \/ JobHandlerReturns(q) PROVE IInv'
  BY Zenon, <1>6, <1>b, ResultStep DEF HandlerReturns, JobHandlerReturns, LocksStay
<1>7. ASSUME NEW q \in Requests, JobStart(q) \/ JobComplete(q) PROVE IInv'
  BY Zenon, <1>7, <1>b, JobStep DEF JobStart, JobComplete, LocksStay
<1>8. ASSUME NEW q \in Requests, RecordCompletion(q) PROVE IInv'
  BY Zenon, <1>8, <1>b, CompletionStep DEF RecordCompletion, LocksStay
<1>9. CASE Signal \/ JobsDrained \/ WaitTimesOut \/ CloseAudit
  BY Zenon, <1>9, <1>b, StageStep DEF Signal, JobsDrained, WaitTimesOut, CloseAudit, LocksStay
<1>10. CASE Exit \/ Crash
  BY Zenon, <1>10, GoneStep DEF Exit, Crash
<1>11. CASE OpenAudit \/ OpenJobs
  BY Zenon, <1>11, <1>b, OpeningStep DEF OpenAudit, OpenJobs, LocksStay
<1>12. CASE UNCHANGED vars
  <2>1. /\ StoresStay /\ broker' = broker /\ effect' = effect /\ pc' = pc /\ task' = task
        /\ phase' = phase /\ resource' = resource
    BY Zenon, <1>12 DEF vars, StoresStay
  <2>2. Types' /\ Distinct' /\ AuditsOfJobs' /\ NothingYet' /\ HistoriesAreTruthful'
    BY <2>1 DEF IInv, StoresStay, Types, Alive, Distinct, AuditsOfJobs, NothingYet,
                HistoriesAreTruthful, HistoriesClaimNothing, StoresAgree
  <2>3. \A p \in Requests : Standing(p)'
    BY Zenon, <2>1, OthersStand DEF IInv
  <2>4. UNCHANGED lockVars
    BY Zenon, <1>12 DEF vars
  <2> QED BY Zenon, <1>b, <2>2, <2>3, <2>4 DEF IInv
<1> QED
  BY Zenon, <1>1, <1>2, <1>3, <1>4, <1>5, <1>6, <1>7, <1>8, <1>9, <1>10, <1>11, <1>12
  DEF Next, Advance, ShutDown, Starting

------------------------------------------------------------------------------
(* What can be relied on in every state.                                   *)
THEOREM RegistryInduction == Spec => []IInv
  BY InitIInv, NextIInv, PTL DEF Spec

(* Handlers on one resource exclude each other, a job keeps its lock, its  *)
(* record and its place in the store until its result is recorded, and an  *)
(* idle broker has no lock entries: for any number of requests, resources, *)
(* stops and restarts, and with any retention limits.                      *)
THEOREM RegistryIsSafe == Spec => []RegistryInv
<1>1. ASSUME IInv PROVE RegistryInv
  <2>1. Types /\ L!MutualExclusion /\ L!NoLeakedEntry /\ \A q \in Requests : Standing(q)
    BY Zenon, <1>1 DEF IInv, L!LockInvariant
  <2>2. TypeOK
    <3>1. ASSUME NEW q \in Requests
          PROVE  /\ task[q].audit \in 0..auditSeq /\ task[q].job \in 0..jobSeq
                 /\ pc[q] \in Recorded => task[q].audit # 0
                 /\ pc[q] = "complete" => task[q].outcome \in A!Final
      <4>1. Known(q) /\ task[q] \in Tasks /\ auditSeq \in Nat /\ jobSeq \in Nat
        BY Zenon, <2>1 DEF Standing, Types
      <4>2. task[q].audit \in 0..auditSeq /\ task[q].job \in 0..jobSeq
        BY <4>1 DEF Known, Tasks
      <4> QED BY Zenon, <4>1, <4>2 DEF Known, Tasks
    <3> QED BY Zenon, <2>1, <3>1 DEF TypeOK, Types, Places
  <2>3. HandlersExclude
    BY Zenon, <2>1 DEF HandlersExclude, Mutating, Standing, Control, L!MutualExclusion
  <2>4. JobKeepsLockAndRecord
    BY Zenon, <2>1 DEF JobKeepsLockAndRecord, Standing, Control, RecordOpen, Recorded
  <2>5. JobIsWhereItStands
    BY Zenon, <2>1 DEF JobIsWhereItStands, Standing, JobStands
  <2>6. LocksDrain
    BY Zenon, <2>1 DEF LocksDrain, Standing, Control, L!NoLeakedEntry, L!Referencing
  <2> QED BY Zenon, <2>2, <2>3, <2>4, <2>5, <2>6 DEF RegistryInv
<1> QED
  BY <1>1, RegistryInduction, PTL

(* While a handler runs, its intent is durable, still there and unanswered.*)
THEOREM IntentComesFirst == Spec => []IntentPrecedesMutation
<1>1. IInv => IntentPrecedesMutation
  BY Zenon DEF IInv, IntentPrecedesMutation, Mutating, Standing, RecordOpen, Recorded
<1> QED
  BY <1>1, RegistryInduction, PTL

(* What the audit history and the job history say happened did happen, and *)
(* they do not contradict each other.                                      *)
THEOREM HistoriesTellTheTruth == Spec => []HistoriesAreTruthful
<1>1. IInv => HistoriesAreTruthful
  BY Zenon DEF IInv
<1> QED
  BY <1>1, RegistryInduction, PTL

(* The registry implements the discipline under which AuditStore is        *)
(* specified and proved correct: Begin, then at most one Complete by the   *)
(* request that began, with a stop and a recovery anywhere in between.     *)
THEOREM RegistryUsesAuditStore == Spec => AuditDiscipline
<1>1. Init => A!Init
  <2> SUFFICES ASSUME Init PROVE A!Init
    BY Zenon
  <2>1. AuditOpen = TRUE
    BY SMT DEF Init, AuditOpen
  <2>2. \A q \in Requests : pc[q] \notin Recorded
    BY Zenon DEF Init, Recorded
  <2>3. owed = {}
    BY Zenon, <2>2, OwedIs
  <2>4. GaveUp = {}
    BY Zenon DEF GaveUp, Init
  <2> QED BY Zenon, <2>1, <2>3, <2>4 DEF A!Init, Init, GaveUp
<1>2. IInv /\ [Next]_vars => [A!Next]_A!auditVars
  BY Zenon, NextIsAuditNext
<1> QED
  BY <1>1, <1>2, RegistryInduction, PTL DEF Spec, A!Spec, AuditDiscipline

------------------------------------------------------------------------------
(* So what is proved of the audit store holds of it in the broker.         *)
AP == INSTANCE AuditStoreProofs WITH
        MaxRecords <- AuditLimit, records <- audit, sequence <- auditSeq, open <- AuditOpen,
        abandoned <- {i \in DOMAIN audit : AuditOpen /\ audit[i] = "started" /\ i \notin owed}

(* The two instances of the specification are one.                         *)
LEMMA AuditSpecIsShared == A!Spec => AP!Spec
<1>1. A!Init => AP!Init
  BY Zenon DEF A!Init, AP!Init
<1>2. [A!Next]_A!auditVars => [AP!Next]_AP!auditVars
  BY Zenon DEF A!Next, A!Begin, A!Complete, A!Abandon, A!Stop, A!Open, A!auditVars, A!Put, A!Recover,
       A!trimOldest, A!Finished, A!Final, A!Cardinality, A!IsFiniteSet,
       AP!Next, AP!Begin, AP!Complete, AP!Abandon, AP!Stop, AP!Open, AP!auditVars, AP!Put, AP!Recover,
       AP!trimOldest, AP!Finished, AP!Final, AP!Cardinality, AP!IsFiniteSet
<1> QED
  BY <1>1, <1>2, PTL DEF A!Spec, AP!Spec

(* In the running broker the history stays within its bound but for what   *)
(* is running, a running action's record is kept, and what an earlier      *)
(* process left unfinished is marked unknown.                              *)
THEOREM BrokerKeepsAuditInv == Spec => []A!AuditInv
<1>1. AP!Spec => []AP!AuditInv
  BY RegistryAssumption, AP!AuditInvariant, SMTT(30), Zenon, SMTT(60)
<1>2. AP!AuditInv => A!AuditInv
  BY Zenon DEF A!AuditInv, A!TypeOK, A!RunningRecordKept, A!InterruptedMarkedUnknown, A!RetentionBound,
       A!Outcomes, A!Final, A!Finished, A!Cardinality, A!IsFiniteSet,
       AP!AuditInv, AP!TypeOK, AP!RunningRecordKept, AP!InterruptedMarkedUnknown, AP!RetentionBound,
       AP!Outcomes, AP!Final, AP!Finished, AP!Cardinality, AP!IsFiniteSet
<1> QED
  BY <1>1, <1>2, AuditSpecIsShared, RegistryUsesAuditStore, PTL DEF AuditDiscipline

(* Nor does the broker ever rewrite a final outcome: not a second          *)
(* completion, not a later process that recovers the store.                *)
THEOREM BrokerKeepsOutcomes == Spec => A!FinalOutcomeStays
<1> DEFINE Stay == \A i \in A!Finished(audit) \cap DOMAIN audit' : audit'[i] = audit[i]
           PStay == \A i \in AP!Finished(audit) \cap DOMAIN audit' : audit'[i] = audit[i]
<1>1. AP!Spec => [][PStay]_AP!auditVars
  BY RegistryAssumption, AP!OutcomesStay, SMTT(30), Zenon, SMTT(60) DEF AP!FinalOutcomeStays
<1>2. [PStay]_AP!auditVars => [Stay]_A!auditVars
  BY Zenon DEF A!Finished, AP!Finished, A!auditVars, AP!auditVars
<1> QED
  BY <1>1, <1>2, AuditSpecIsShared, RegistryUsesAuditStore, PTL DEF AuditDiscipline, A!FinalOutcomeStays
==============================================================================
