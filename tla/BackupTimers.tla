----------------------------- MODULE BackupTimers ------------------------------
(***************************************************************************)
(* The health of a backup: timerState reads the timer's state, its schedule   *)
(* and the result of its service one after the other, and judges from the     *)
(* three.  systemd goes on meanwhile: it notes the time of a trigger and sets *)
(* the result of a service back to "success" when it starts one.             *)
(***************************************************************************)
EXTENDS Naturals

CONSTANTS MaxAge,  \* of the last run
          MaxTime  \* bound on the clock

VARIABLES clock,
          timer,   \* active, enabled, last: time of the last trigger or 0
          service, \* running and result
          runs,    \* what became of the run of each trigger
          reader,  \* pc, what it read, and retriggered: a run began after the schedule was read
          health   \* the answer: its level, and what had become of the last run

backupVars == <<clock, timer, service, runs, reader, health>>

BackupAssumption == MaxAge \in Nat \ {0} /\ MaxTime \in Nat

Results == {"success", "failed"}

Unread == [pc |-> "idle", active |-> FALSE, enabled |-> FALSE, last |-> 0,
           next |-> 0, result |-> "", retriggered |-> FALSE, outcome |-> "none"]

NoHealth == [level |-> "none", retriggered |-> FALSE, outcome |-> "none"]

Init ==
    /\ clock = 1
    /\ timer = [active |-> TRUE, enabled |-> TRUE, last |-> 0]
    /\ service = [running |-> FALSE, result |-> "success"]
    /\ runs = [t \in 1..MaxTime |-> "none"]
    /\ reader = Unread
    /\ health = NoHealth

-----------------------------------------------------------------------------
(* systemd and its administrator.                                           *)

Tick ==
    /\ clock < MaxTime /\ clock' = clock + 1
    /\ UNCHANGED <<timer, service, runs, reader, health>>

Trigger ==
    /\ timer.active /\ ~service.running /\ timer.last < clock
    /\ timer' = [timer EXCEPT !.last = clock]
    /\ service' = [running |-> TRUE, result |-> "success"]
    /\ runs' = [runs EXCEPT ![clock] = "running"]
    /\ reader' = [reader EXCEPT !.retriggered = @ \/ reader.pc = "result"]
    /\ UNCHANGED <<clock, health>>

RunEnds ==
    /\ service.running
    /\ \E r \in Results : /\ service' = [running |-> FALSE, result |-> r]
                          /\ runs' = [runs EXCEPT ![timer.last] = r]
    /\ UNCHANGED <<clock, timer, reader, health>>

Administer ==
    /\ \E active, enabled \in BOOLEAN :
         timer' = [timer EXCEPT !.active = active, !.enabled = enabled]
    /\ UNCHANGED <<clock, service, runs, reader, health>>

-----------------------------------------------------------------------------
(* timerState                                                               *)

Answer(level) ==
    /\ health' = [level |-> level, retriggered |-> reader.retriggered, outcome |-> reader.outcome]
    /\ reader' = Unread

\* Any of the first two reads that fails, or lacks a property, ends in "unknown".
Unavailable ==
    /\ reader.pc \in {"unit", "schedule"}
    /\ Answer("unknown")
    /\ UNCHANGED <<clock, timer, service, runs>>

State ==
    /\ reader.pc = "idle"
    /\ reader' = [Unread EXCEPT !.pc = "unit"]
    /\ health' = NoHealth
    /\ UNCHANGED <<clock, timer, service, runs>>

ReadUnit ==
    /\ reader.pc = "unit"
    /\ reader' = [reader EXCEPT !.pc = "schedule", !.active = timer.active,
                                !.enabled = timer.enabled]
    /\ UNCHANGED <<clock, timer, service, runs, health>>

\* A timer that is not active has no next run; an active one may have none.
ReadSchedule ==
    /\ reader.pc = "schedule"
    /\ \E next \in {0, 1} :
         /\ next = 1 => timer.active
         /\ reader' = [reader EXCEPT !.last = timer.last, !.next = next,
                         !.pc = IF timer.last = 0 THEN "judge" ELSE "result"]
    /\ UNCHANGED <<clock, timer, service, runs, health>>

\* "" is a result that is unavailable.
ReadResult ==
    /\ reader.pc = "result"
    /\ \E r \in {"", service.result} :
         reader' = [reader EXCEPT !.pc = "judge", !.result = r,
                                     !.outcome = runs[reader.last]]
    /\ UNCHANGED <<clock, timer, service, runs, health>>

Judge ==
    IF ~reader.active THEN "critical"
    ELSE IF ~reader.enabled THEN "critical"
    ELSE IF reader.last = 0 THEN "warning"
    ELSE IF reader.result \notin {"", "success"} THEN "critical"
    ELSE IF clock - reader.last > MaxAge THEN "warning"
    ELSE IF reader.result = "" THEN "unknown"
    ELSE IF reader.next = 0 THEN "warning"
    ELSE "healthy"

timerState ==
    /\ reader.pc = "judge"
    /\ Answer(Judge)
    /\ UNCHANGED <<clock, timer, service, runs>>

Next ==
    \/ Tick \/ Trigger \/ RunEnds \/ Administer
    \/ State \/ Unavailable \/ ReadUnit \/ ReadSchedule \/ ReadResult \/ timerState

Spec == Init /\ [][Next]_backupVars

-----------------------------------------------------------------------------
(* Properties                                                               *)

\* A backup is not reported healthy if its last run has failed, unless another
\* run began between the reading of the schedule and that of the result.
FailureIsReported ==
    health.level = "healthy" /\ ~health.retriggered => health.outcome # "failed"

==============================================================================
