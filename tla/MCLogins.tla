------------------------------ MODULE MCLogins -------------------------------
(***************************************************************************)
(* What the broker remembers, on small instances: its sessions, its login  *)
(* limiter, the requests that it authorizes, its job history, and the      *)
(* advice to reboot that is made of such a history.  They share no         *)
(* variable, so a behaviour moves one of them (`which`) and leaves the     *)
(* others as they begin: their states add up instead of multiplying.       *)
(***************************************************************************)
EXTENDS SessionStore, LoginLimiter, BrokerRequests, JobStore, RebootAdvice

VARIABLE which

AllOperations == [admin : BOOLEAN, locks : BOOLEAN]

MCInit ==
  /\ which \in {"sessions", "limiter", "requests", "jobs", "advice"}
  /\ Init /\ LimiterInit /\ RequestInit /\ JobInit /\ AdviceInit
  /\ which = "requests" \/ \A q \in Requests : op[q].admin /\ op[q].locks

MCNext ==
  /\ UNCHANGED which
  /\ \/ /\ which = "sessions" /\ Next
        /\ UNCHANGED <<limiterVars, requestVars, jobVars, adviceVars>>
     \/ /\ which = "limiter" /\ LimiterNext
        /\ UNCHANGED <<sessionVars, requestVars, jobVars, adviceVars>>
     \/ /\ which = "requests" /\ RequestNext
        /\ UNCHANGED <<sessionVars, limiterVars, jobVars, adviceVars>>
     \/ /\ which = "jobs" /\ JobNext
        /\ UNCHANGED <<sessionVars, limiterVars, requestVars, adviceVars>>
     \/ /\ which = "advice" /\ AdviceNext
        /\ UNCHANGED <<sessionVars, limiterVars, requestVars, jobVars>>

MCSpec == MCInit /\ [][MCNext]_<<which, sessionVars, limiterVars, requestVars, jobVars, adviceVars>>
==============================================================================
