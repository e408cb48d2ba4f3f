------------------------------ MODULE JobStore ------------------------------
(***************************************************************************)
(* The durable job history (internal/jobs/jobs.go): a bbolt bucket from    *)
(* job IDs to jobs.  Every operation is one transaction with a trailing    *)
(* trimOldest, so it is one action.  A job is its status, its              *)
(* reboot-required flag and the time at which it finished.                 *)
(***************************************************************************)
EXTENDS Integers, FiniteSets

CONSTANTS MaxRecords, \* retention bound given to Open
          MaxID,      \* bound on the IDs handed out
          MaxBoot     \* bound on host reboots

ASSUME JobsAssumption == MaxRecords \in Nat \ {0} /\ MaxID \in Nat /\ MaxBoot \in Nat

VARIABLES jobs,      \* the bucket
          sequence,  \* the bucket's sequence number
          open,      \* the process has the database open
          live,      \* jobs of this process that it has yet to complete
          stuck,     \* jobs of this process whose Start or Complete failed
          wallClock,     \* the host's time, which here moves only at a reboot
          installed  \* a job of this boot succeeded and asked for a reboot

jobVars == <<jobs, sequence, open, live, stuck, wallClock, installed>>

Active == {"queued", "running"}
Final == {"succeeded", "failed", "unknown"}

Queued == [status |-> "queued", reboot |-> FALSE, finished |-> 0]

Inactive(js) == {i \in DOMAIN js : js[i].status \notin Active}

(* trimOldest: remove the oldest inactive job until the count that the     *)
(* bucket's statistics gave is back at MaxRecords or none is left.         *)
trimOldest(js, count) ==
  LET gone == {i \in Inactive(js) :
                 Cardinality({j \in Inactive(js) : j < i}) < count - MaxRecords}
  IN  [i \in DOMAIN js \ gone |-> js[i]]

(* External: bucket.Stats().KeyN inside a transaction.  It walks the pages *)
(* of the bucket; whether a key put by the same transaction is already on  *)
(* a page is bbolt's affair.                                               *)
KeyN(before, after) == {Cardinality(DOMAIN before), Cardinality(DOMAIN after)}

(* A transaction that puts the given bucket in place of the present one.   *)
Commit(after) ==
  \E count \in KeyN(jobs, after) : jobs' = trimOldest(after, count)

finishJob(status, reboot) == [status |-> status, reboot |-> reboot, finished |-> wallClock]

------------------------------------------------------------------------------
JobTypeOK ==
  /\ DOMAIN jobs \subseteq 1..sequence
  /\ \A i \in DOMAIN jobs :
       jobs[i] \in [status : Active \cup Final, reboot : BOOLEAN, finished : 0..wallClock]
  /\ sequence \in Nat
  /\ open \in BOOLEAN
  /\ live \subseteq 1..sequence /\ stuck \subseteq 1..sequence
  /\ wallClock \in Nat
  /\ installed \in BOOLEAN

JobInit ==
  /\ jobs = [i \in {} |-> Queued]
  /\ sequence = 0
  /\ open = TRUE
  /\ live = {} /\ stuck = {}
  /\ wallClock = 1
  /\ installed = FALSE

(* Enqueue: the job gets the bucket's next sequence number.                *)
Enqueue ==
  /\ open
  /\ sequence < MaxID
  /\ sequence' = sequence + 1
  /\ Commit([i \in DOMAIN jobs \cup {sequence + 1} |->
               IF i = sequence + 1 THEN Queued ELSE jobs[i]])
  /\ live' = live \cup {sequence + 1}
  /\ UNCHANGED <<open, stuck, wallClock, installed>>

(* Start; ErrNotFound and ErrInvalidTransition change nothing.             *)
Start(id) ==
  /\ open
  /\ id \in live
  /\ id \in DOMAIN jobs
  /\ jobs[id].status = "queued"
  /\ Commit([jobs EXCEPT ![id].status = "running"])
  /\ UNCHANGED <<sequence, open, live, stuck, wallClock, installed>>

(* Mutant: a job may be completed from any status.                         *)
CompleteUnstarted(id, status, reboot) ==
  /\ open
  /\ id \in live
  /\ id \in DOMAIN jobs
  /\ Commit([jobs EXCEPT ![id] = finishJob(status, reboot)])
  /\ live' = live \ {id}
  /\ installed' = (installed \/ (status = "succeeded" /\ reboot))
  /\ UNCHANGED <<sequence, open, stuck, wallClock>>

(* Complete with what runBackground passes: only a success may ask for a   *)
(* reboot.                                                                 *)
Complete(id, status, reboot) ==
  /\ open
  /\ id \in live
  /\ id \in DOMAIN jobs
  /\ jobs[id].status = "running"
  /\ Commit([jobs EXCEPT ![id] = finishJob(status, reboot)])
  /\ live' = live \ {id}
  /\ installed' = (installed \/ (status = "succeeded" /\ reboot))
  /\ UNCHANGED <<sequence, open, stuck, wallClock>>

(* Start or Complete fails and runBackground returns.                      *)
GiveUp(id) ==
  /\ open
  /\ id \in live
  /\ live' = live \ {id}
  /\ stuck' = stuck \cup {id}
  /\ UNCHANGED <<jobs, sequence, open, wallClock, installed>>

Stop ==
  /\ open
  /\ open' = FALSE
  /\ live' = {} /\ stuck' = {}
  /\ UNCHANGED <<jobs, sequence, wallClock, installed>>

(* The host goes down, and the broker with it.                             *)
HostReboot ==
  /\ wallClock < MaxBoot
  /\ wallClock' = wallClock + 1
  /\ open' = FALSE
  /\ live' = {} /\ stuck' = {}
  /\ installed' = FALSE
  /\ UNCHANGED <<jobs, sequence>>

(* Open: active jobs of an earlier process become "unknown".               *)
Open ==
  /\ ~open
  /\ open' = TRUE
  /\ Commit([i \in DOMAIN jobs |-> IF jobs[i].status \in Active
                                   THEN finishJob("unknown", FALSE) ELSE jobs[i]])
  /\ UNCHANGED <<sequence, live, stuck, wallClock, installed>>

JobNext ==
  \/ Enqueue
  \/ \E id \in live : Start(id) \/ GiveUp(id)
  \/ \E id \in live, reboot \in BOOLEAN : Complete(id, "succeeded", reboot)
  \/ \E id \in live : Complete(id, "failed", FALSE)
  \/ Stop
  \/ HostReboot
  \/ Open

JobSpec == JobInit /\ [][JobNext]_jobVars

(* RebootRequiredSince(boot time): a kept job that succeeded since then.   *)
RebootRequiredSince(since) ==
  \E i \in DOMAIN jobs :
    jobs[i].status = "succeeded" /\ jobs[i].reboot /\ jobs[i].finished > since

------------------------------------------------------------------------------
(* Retention never takes a job that is still to be started or completed,   *)
(* however many jobs there are (TestRetentionCanExceedBoundForActiveJobs). *)
LiveJobKept ==
  \A id \in live : id \in DOMAIN jobs /\ jobs[id].status \in Active

(* A job is active only if this process queued it.                         *)
InterruptedMarkedUnknown ==
  open => \A i \in DOMAIN jobs : jobs[i].status \in Active => i \in live \cup stuck

(* Beyond one job more than the bound (Enqueue may count before its own    *)
(* job is on a page) only active jobs are kept.                            *)
RetentionBound ==
  Cardinality(DOMAIN jobs) > MaxRecords + 1 => Inactive(jobs) = {}

(* A job moves from queued to running to its result, or from either to     *)
(* unknown at a restart; a result is never changed.                        *)
StatusMovesForward ==
  [][\A i \in DOMAIN jobs \cap DOMAIN jobs' :
       \/ jobs'[i] = jobs[i]
       \/ jobs[i].status = "queued" /\ jobs'[i].status = "running"
       \/ jobs[i].status = "running" /\ jobs'[i].status \in {"succeeded", "failed"} /\ open
       \/ jobs[i].status \in Active /\ jobs'[i].status = "unknown" /\ ~open]_jobVars

(* The maintenance page asks for a reboot only when a job of this boot     *)
(* really succeeded and asked for it, across any restarts of the broker.   *)
RebootNotInvented == RebootRequiredSince(wallClock - 1) => installed

(* Every job of the process is in the store in a state from which it can   *)
(* go on, no other job is active, only active jobs go beyond the retention *)
(* bound, and no finished job asks for a reboot that was already made.     *)
JobInv ==
  JobTypeOK /\ LiveJobKept /\ InterruptedMarkedUnknown /\ RetentionBound /\ RebootNotInvented

(* JobInv at every step, and StatusMovesForward of every step: every job   *)
(* of the process can go on, no other is active, retention bounds the      *)
(* rest, no result changes and no reboot is asked for twice.               *)
JobRules == []JobInv /\ StatusMovesForward
==============================================================================
