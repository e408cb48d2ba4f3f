----------------------------- MODULE AuditStore -----------------------------
(***************************************************************************)
(* The durable audit history (internal/audit/audit.go): a bbolt bucket     *)
(* from record IDs to records.  Every operation is one database            *)
(* transaction, so it is one action, its trailing trimOldest included.     *)
(* A record is abstracted to its outcome; its ID orders it in the bucket.  *)
(***************************************************************************)
EXTENDS Integers, FiniteSets

CONSTANTS MaxRecords, \* retention bound given to Open
          MaxID       \* bound on the IDs handed out

VARIABLES records,   \* the bucket
          sequence,  \* the bucket's sequence number
          open,      \* the process has the database open
          owed,      \* records begun by this process that it will complete
          abandoned  \* records begun by this process that it gave up on

auditVars == <<records, sequence, open, owed, abandoned>>

Final == {"succeeded", "failed", "unknown"}
Outcomes == {"started"} \cup Final

Finished(recs) == {i \in DOMAIN recs : recs[i] # "started"}

(* Mutant: retention forgets to spare the records of running actions.      *)
TrimRunning(recs) ==
  LET excess == Cardinality(DOMAIN recs) - MaxRecords
      gone == {i \in DOMAIN recs : Cardinality({j \in DOMAIN recs : j < i}) < excess}
  IN  [i \in DOMAIN recs \ gone |-> recs[i]]

(* trimOldest: while there are more than MaxRecords records, remove the    *)
(* oldest one that is not "started"; stop when there is none.              *)
trimOldest(recs) ==
  LET excess == Cardinality(DOMAIN recs) - MaxRecords
      gone == {i \in Finished(recs) : Cardinality({j \in Finished(recs) : j < i}) < excess}
  IN  [i \in DOMAIN recs \ gone |-> recs[i]]

(* Put a record and trim, in one transaction.                              *)
Put(recs, id, outcome) ==
  trimOldest([i \in DOMAIN recs \cup {id} |-> IF i = id THEN outcome ELSE recs[i]])

(* Open: records a previous process left "started" become "unknown".       *)
Recover(recs) ==
  trimOldest([i \in DOMAIN recs |-> IF recs[i] = "started" THEN "unknown" ELSE recs[i]])

------------------------------------------------------------------------------
TypeOK ==
  /\ DOMAIN records \subseteq 1..sequence
  /\ \A i \in DOMAIN records : records[i] \in Outcomes
  /\ sequence \in Nat
  /\ open \in BOOLEAN
  /\ owed \subseteq 1..sequence /\ abandoned \subseteq 1..sequence
  /\ owed \cap abandoned = {}
  /\ ~open => owed = {} /\ abandoned = {}

Init ==
  /\ records = [i \in {} |-> "started"]
  /\ sequence = 0
  /\ open = TRUE
  /\ owed = {}
  /\ abandoned = {}

(* Begin, when its transaction commits; one that fails changes nothing.    *)
Begin ==
  /\ open
  /\ sequence < MaxID
  /\ sequence' = sequence + 1
  /\ records' = Put(records, sequence + 1, "started")
  /\ owed' = owed \cup {sequence + 1}
  /\ UNCHANGED <<open, abandoned>>

(* Complete by the action that began the record.  A missing record is      *)
(* ErrNotFound; the record's present outcome is not looked at.             *)
Complete(id, outcome) ==
  /\ open
  /\ id \in owed
  /\ id \in DOMAIN records
  /\ records' = Put(records, id, outcome)
  /\ owed' = owed \ {id}
  /\ UNCHANGED <<sequence, open, abandoned>>

(* The completion fails (a full disk, an expired context), or the handler  *)
(* panics and Complete is never called.                                    *)
Abandon(id) ==
  /\ open
  /\ id \in owed
  /\ owed' = owed \ {id}
  /\ abandoned' = abandoned \cup {id}
  /\ UNCHANGED <<records, sequence, open>>

(* The process closes the store or dies; what it had begun is interrupted. *)
Stop ==
  /\ open
  /\ open' = FALSE
  /\ owed' = {}
  /\ abandoned' = {}
  /\ UNCHANGED <<records, sequence>>

Open ==
  /\ ~open
  /\ open' = TRUE
  /\ records' = Recover(records)
  /\ UNCHANGED <<sequence, owed, abandoned>>

Next ==
  \/ Begin
  \/ \E id \in owed, outcome \in Final : Complete(id, outcome)
  \/ \E id \in owed : Abandon(id)
  \/ Stop
  \/ Open

Spec == Init /\ [][Next]_auditVars

------------------------------------------------------------------------------
(* Retention never takes the record of an action that is still running, so *)
(* its Complete finds it ("started" records are skipped by trimOldest).    *)
RunningRecordKept ==
  \A id \in owed : id \in DOMAIN records /\ records[id] = "started"

(* The history exceeds its bound only by records that cannot be removed.   *)
RetentionBound ==
  Cardinality(DOMAIN records) > MaxRecords => Finished(records) = {}

(* A record is "started" only for an action of this process: what earlier  *)
(* processes left behind is "unknown".                                     *)
InterruptedMarkedUnknown ==
  open => \A i \in DOMAIN records : records[i] = "started" => i \in owed \cup abandoned

(* What every transaction of the store preserves.                          *)
AuditInv == TypeOK /\ RunningRecordKept /\ InterruptedMarkedUnknown /\ RetentionBound

(* Retention removes history from its old end: a finished record that      *)
(* goes is older than every finished record that stays.                    *)
OldestGoFirst ==
  [][\A i \in DOMAIN records \ DOMAIN records', j \in Finished(records') : i < j]_auditVars

(* A final outcome stays as it is for as long as the record is kept.       *)
FinalOutcomeStays ==
  [][\A i \in Finished(records) \cap DOMAIN records' : records'[i] = records[i]]_auditVars
==============================================================================
