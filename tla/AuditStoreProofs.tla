-------------------------- MODULE AuditStoreProofs --------------------------
(***************************************************************************)
(* What the audit store promises, for any retention bound and any number   *)
(* of records: it is what ActionRegistry, whose steps are steps of         *)
(* AuditStore, relies on.                                                  *)
(***************************************************************************)
EXTENDS AuditStore, FiniteSetTheorems, WellFoundedInduction, TLAPS

(* A bucket whose keys are sequence numbers.                               *)
IsBucket(recs) == \E n \in Nat : DOMAIN recs \subseteq 1..n

(* How many finished records are older than i.                             *)
Older(recs, i) == {j \in Finished(recs) : j < i}

LEMMA BucketFinite ==
  ASSUME NEW recs, IsBucket(recs)
  PROVE  /\ DOMAIN recs \subseteq Nat
         /\ IsFiniteSet(DOMAIN recs) /\ Cardinality(DOMAIN recs) \in Nat
         /\ \A S \in SUBSET DOMAIN recs : IsFiniteSet(S) /\ Cardinality(S) \in Nat
<1>1. PICK n \in Nat : DOMAIN recs \subseteq 1..n
  BY DEF IsBucket
<1>2. IsFiniteSet(1..n)
  BY FS_Interval
<1>3. IsFiniteSet(DOMAIN recs)
  BY <1>1, <1>2, FS_Subset
<1>4. \A S \in SUBSET DOMAIN recs : IsFiniteSet(S)
  BY <1>3, FS_Subset
<1> QED
  BY <1>1, <1>3, <1>4, FS_CardinalityType

(* trimOldest changes no record, takes only finished ones, and takes those *)
(* that are older than every finished one it leaves.                       *)
LEMMA TrimTakesOldFinished ==
  ASSUME NEW recs, IsBucket(recs), MaxRecords \in Nat
  PROVE  /\ DOMAIN trimOldest(recs) \subseteq DOMAIN recs
         /\ \A i \in DOMAIN trimOldest(recs) : trimOldest(recs)[i] = recs[i]
         /\ \A i \in DOMAIN recs : recs[i] = "started" => i \in DOMAIN trimOldest(recs)
         /\ \A i \in DOMAIN recs \ DOMAIN trimOldest(recs), j \in Finished(trimOldest(recs)) : i < j
<1> DEFINE excess == Cardinality(DOMAIN recs) - MaxRecords
           gone == {i \in Finished(recs) : Cardinality(Older(recs, i)) < excess}
<1>1. trimOldest(recs) = [i \in DOMAIN recs \ gone |-> recs[i]]
  BY DEF trimOldest, Older
<1>2. gone \subseteq DOMAIN recs /\ \A i \in gone : recs[i] # "started"
  BY DEF Finished
<1>3. ASSUME NEW i \in gone, NEW j \in Finished(recs), j \notin gone
      PROVE  i < j
  <2>1. i \in Nat /\ j \in Nat
    BY <1>2, BucketFinite DEF Finished
  <2>2. SUFFICES ASSUME j <= i PROVE FALSE
    BY <2>1
  <2>3. Older(recs, j) \subseteq Older(recs, i)
    BY <2>1, <2>2, BucketFinite DEF Older, Finished
  <2>4. Older(recs, i) \subseteq DOMAIN recs
    BY DEF Older, Finished
  <2>5. Cardinality(Older(recs, j)) <= Cardinality(Older(recs, i))
    BY <2>3, <2>4, BucketFinite, FS_Subset
  <2>6. /\ Cardinality(Older(recs, j)) \in Nat /\ Cardinality(Older(recs, i)) \in Nat
        /\ excess \in Int
    BY <2>3, <2>4, BucketFinite
  <2>7. Cardinality(Older(recs, i)) < excess /\ ~(Cardinality(Older(recs, j)) < excess)
    BY <1>3
  <2> HIDE DEF excess
  <2> QED
    BY <2>5, <2>6, <2>7
<1>4. Finished(trimOldest(recs)) = Finished(recs) \ gone
  BY <1>1, <1>2 DEF Finished
<1> QED
  BY <1>1, <1>2, <1>3, <1>4

(* A finite set of numbers that is not empty has a least element: the one  *)
(* with the least set of elements below it.                                *)
LEMMA LeastElement ==
  ASSUME NEW S \in SUBSET Nat, IsFiniteSet(S), S # {}
  PROVE  \E m \in S : \A k \in S : m <= k
<1> DEFINE Below(i) == {j \in S : j < i}
           cuts == {Below(i) : i \in S}
<1>1. cuts \subseteq FiniteSubsetsOf(S) /\ cuts # {}
  <2>1. \A i \in S : Below(i) \in SUBSET S
    OBVIOUS
  <2>2. FiniteSubsetsOf(S) = SUBSET S
    BY FS_FiniteSubsetsOfFinite
  <2> HIDE DEF Below
  <2>3. cuts \subseteq SUBSET S /\ cuts # {}
    BY <2>1, Zenon
  <2> QED
    BY <2>2, <2>3
<1>2. IsWellFoundedOn(StrictSubsetOrdering(S), FiniteSubsetsOf(S))
  BY FS_StrictSubsetOrderingWellFounded
<1> HIDE DEF cuts
<1>3. PICK least \in cuts : \A other \in cuts : ~(<<other, least>> \in StrictSubsetOrdering(S))
  BY <1>1, <1>2, WFMin
<1>4. PICK m \in S : least = Below(m)
  BY Zenon DEF cuts
<1>5. ASSUME NEW k \in S, k < m
      PROVE  FALSE
  <2>1. Below(k) \subseteq Below(m)
    <3> SUFFICES ASSUME NEW j \in S, j < k PROVE j < m
      BY Zenon
    <3> QED
      BY <1>5
  <2>2. k \in Below(m) /\ k \notin Below(k)
    BY <1>5
  <2>3. Below(k) \in SUBSET S /\ Below(m) \in SUBSET S /\ Below(k) \in cuts
    BY DEF cuts
  <2> HIDE DEF Below
  <2>4. <<Below(k), Below(m)>> \in StrictSubsetOrdering(S)
    BY <2>1, <2>2, <2>3 DEF StrictSubsetOrdering
  <2> QED
    BY <1>3, <1>4, <2>3, <2>4
<1> QED
  BY <1>5

(* If a finished record is left, trimOldest has taken as many as were too  *)
(* many.                                                                   *)
LEMMA TrimReachesBound ==
  ASSUME NEW recs, IsBucket(recs), MaxRecords \in Nat, Finished(trimOldest(recs)) # {}
  PROVE  Cardinality(DOMAIN trimOldest(recs)) <= MaxRecords
<1> DEFINE excess == Cardinality(DOMAIN recs) - MaxRecords
           gone == {i \in Finished(recs) : Cardinality(Older(recs, i)) < excess}
           left == Finished(recs) \ gone
<1>1. DOMAIN trimOldest(recs) = DOMAIN recs \ gone /\ Finished(trimOldest(recs)) = left
  BY DEF trimOldest, Older, Finished
<1>2. gone \subseteq DOMAIN recs /\ left \subseteq DOMAIN recs
  BY DEF Finished
<1>3. PICK m \in left : \A k \in left : m <= k
  <2>1. left \subseteq Nat /\ IsFiniteSet(left) /\ left # {}
    BY <1>1, <1>2, BucketFinite
  <2> HIDE DEF left
  <2> QED
    BY <2>1, LeastElement
<1>4. Older(recs, m) \subseteq gone
  BY <1>2, <1>3, BucketFinite DEF Older, Finished
<1>5. Cardinality(Older(recs, m)) <= Cardinality(gone)
  BY <1>2, <1>4, BucketFinite, FS_Subset
<1>6. ~(Cardinality(Older(recs, m)) < excess)
  BY <1>3
<1>7. Cardinality(DOMAIN recs \ gone) = Cardinality(DOMAIN recs) - Cardinality(gone)
  BY <1>2, BucketFinite, FS_Difference, DOMAIN recs \cap gone = gone, Zenon
<1>8. /\ Cardinality(Older(recs, m)) \in Nat /\ Cardinality(gone) \in Nat
      /\ Cardinality(DOMAIN recs) \in Nat
  BY <1>2, <1>4, BucketFinite
<1>9. Cardinality(gone) >= Cardinality(DOMAIN recs) - MaxRecords
  BY <1>5, <1>6, <1>8
<1> HIDE DEF gone
<1> QED
  BY <1>1, <1>7, <1>8, <1>9

(* What trimOldest makes of a bucket, in one fact.                         *)
Trimmed(before, after) ==
  /\ DOMAIN after \subseteq DOMAIN before
  /\ \A i \in DOMAIN after : after[i] = before[i]
  /\ \A i \in DOMAIN before : before[i] = "started" => i \in DOMAIN after
  /\ \A i \in DOMAIN before \ DOMAIN after, j \in Finished(after) : i < j
  /\ Cardinality(DOMAIN after) > MaxRecords => Finished(after) = {}

LEMMA TrimOldestTrims ==
  ASSUME NEW recs, IsBucket(recs), MaxRecords \in Nat
  PROVE  Trimmed(recs, trimOldest(recs))
<1>1. IsBucket(trimOldest(recs))
  BY TrimTakesOldFinished DEF IsBucket
<1>2. Cardinality(DOMAIN trimOldest(recs)) \in Nat
  BY <1>1, BucketFinite
<1> QED
  BY <1>2, TrimTakesOldFinished, TrimReachesBound DEF Trimmed

(* The bucket with one record put, before it is trimmed.                   *)
Overwrite(recs, id, outcome) ==
  [i \in DOMAIN recs \cup {id} |-> IF i = id THEN outcome ELSE recs[i]]

LEMMA PutTrims ==
  ASSUME MaxRecords \in Nat, TypeOK, NEW id \in 1..sequence + 1, NEW outcome
  PROVE  Trimmed(Overwrite(records, id, outcome), Put(records, id, outcome))
<1>1. DOMAIN Overwrite(records, id, outcome) \subseteq 1..sequence + 1 /\ sequence + 1 \in Nat
  BY DEF TypeOK, Overwrite
<1>2. IsBucket(Overwrite(records, id, outcome))
  BY <1>1 DEF IsBucket
<1> QED
  BY <1>2, TrimOldestTrims DEF Put, Overwrite

(* The bucket with the outcome of interrupted records set.                 *)
MarkUnknown(recs) ==
  [i \in DOMAIN recs |-> IF recs[i] = "started" THEN "unknown" ELSE recs[i]]

LEMMA RecoverTrims ==
  ASSUME MaxRecords \in Nat, TypeOK
  PROVE  Trimmed(MarkUnknown(records), Recover(records))
<1>1. IsBucket(MarkUnknown(records))
  BY DEF IsBucket, MarkUnknown, TypeOK
<1> QED
  BY <1>1, TrimOldestTrims DEF Recover, MarkUnknown

(* Begin adds a record that retention spares.                              *)
LEMMA BeginInv ==
  ASSUME MaxRecords \in Nat, AuditInv, Begin
  PROVE  AuditInv'
<1> DEFINE before == Overwrite(records, sequence + 1, "started")
<1>1. TypeOK /\ sequence + 1 \in 1..sequence + 1 /\ Trimmed(before, records')
  BY PutTrims DEF AuditInv, Begin, TypeOK
<1>2. TypeOK'
  <2>1. DOMAIN before \subseteq 1..sequence + 1 /\ \A i \in DOMAIN before : before[i] \in Outcomes
    BY <1>1 DEF TypeOK, Overwrite, Outcomes
  <2>2. DOMAIN records' \subseteq 1..sequence' /\ \A i \in DOMAIN records' : records'[i] \in Outcomes
    BY <1>1, <2>1 DEF Begin, Trimmed
  <2>3. /\ sequence' \in Nat /\ 1..sequence \subseteq 1..sequence'
        /\ sequence + 1 \in 1..sequence' /\ sequence + 1 \notin 1..sequence
    BY <1>1 DEF Begin, TypeOK
  <2> QED
    BY <1>1, <2>2, <2>3 DEF Begin, TypeOK
<1>3. RunningRecordKept'
  <2> SUFFICES ASSUME NEW i \in owed' PROVE i \in DOMAIN records' /\ records'[i] = "started"
    BY DEF RunningRecordKept
  <2>1. i \in DOMAIN before /\ before[i] = "started"
    BY <1>1 DEF AuditInv, Begin, TypeOK, RunningRecordKept, Overwrite
  <2> QED
    BY <1>1, <2>1 DEF Trimmed
<1>4. InterruptedMarkedUnknown'
  BY <1>1, Zenon DEF AuditInv, Begin, InterruptedMarkedUnknown, Trimmed, Overwrite
<1>5. RetentionBound'
  BY <1>1 DEF RetentionBound, Trimmed
<1> QED
  BY <1>2, <1>3, <1>4, <1>5 DEF AuditInv

(* Complete settles the caller's record; the others that run are spared.   *)
LEMMA CompleteInv ==
  ASSUME MaxRecords \in Nat, AuditInv, NEW id \in owed, NEW outcome \in Final, Complete(id, outcome)
  PROVE  AuditInv'
<1> DEFINE before == Overwrite(records, id, outcome)
<1>1. TypeOK /\ id \in 1..sequence + 1 /\ Trimmed(before, records')
  BY PutTrims DEF AuditInv, Complete, TypeOK
<1>2. TypeOK'
  BY <1>1, Zenon DEF AuditInv, Complete, TypeOK, Trimmed, Overwrite, Outcomes
<1>3. RunningRecordKept'
  BY <1>1, Zenon DEF AuditInv, Complete, RunningRecordKept, Trimmed, Overwrite
<1>4. InterruptedMarkedUnknown'
  BY <1>1, Zenon DEF AuditInv, Complete, InterruptedMarkedUnknown, Trimmed, Overwrite, Final
<1>5. RetentionBound'
  BY <1>1 DEF RetentionBound, Trimmed
<1> QED
  BY <1>2, <1>3, <1>4, <1>5 DEF AuditInv

(* Open leaves no record of an earlier process started.                    *)
LEMMA OpenInv ==
  ASSUME MaxRecords \in Nat, AuditInv, Open
  PROVE  AuditInv'
<1>1. TypeOK /\ Trimmed(MarkUnknown(records), records')
  BY RecoverTrims DEF AuditInv, Open
<1>2. TypeOK'
  BY <1>1, Zenon DEF AuditInv, Open, TypeOK, Trimmed, MarkUnknown, Outcomes, Final
<1>3. RunningRecordKept' /\ InterruptedMarkedUnknown'
  BY <1>1, Zenon DEF TypeOK, Open, RunningRecordKept, InterruptedMarkedUnknown, Trimmed, MarkUnknown
<1>4. RetentionBound'
  BY <1>1 DEF RetentionBound, Trimmed
<1> QED
  BY <1>2, <1>3, <1>4 DEF AuditInv

(* Every transaction, and the end of the process, preserves the invariant. *)
LEMMA NextInv ==
  ASSUME MaxRecords \in Nat, AuditInv, [Next]_auditVars
  PROVE  AuditInv'
<1>1. CASE Begin
  BY <1>1, BeginInv
<1>2. ASSUME NEW id \in owed, NEW outcome \in Final, Complete(id, outcome)
      PROVE  AuditInv'
  BY <1>2, CompleteInv
<1>3. ASSUME NEW id \in owed, Abandon(id)
      PROVE  AuditInv'
  BY <1>3 DEF AuditInv, TypeOK, RunningRecordKept, InterruptedMarkedUnknown, RetentionBound, Abandon
<1>4. CASE Stop
  BY <1>4, Zenon DEF AuditInv, TypeOK, RunningRecordKept, InterruptedMarkedUnknown, RetentionBound, Stop
<1>5. CASE Open
  BY <1>5, OpenInv
<1>6. CASE UNCHANGED auditVars
  BY <1>6 DEF AuditInv, TypeOK, RunningRecordKept, InterruptedMarkedUnknown, RetentionBound, auditVars
<1> QED
  BY <1>1, <1>2, <1>3, <1>4, <1>5, <1>6 DEF Next

LEMMA InitInv ==
  ASSUME MaxRecords \in Nat, Init
  PROVE  AuditInv
<1>1. DOMAIN records = {}
  BY DEF Init
<1>2. Finished(records) = {}
  BY <1>1 DEF Finished
<1> QED
  BY <1>1, <1>2
  DEF Init, AuditInv, TypeOK, RunningRecordKept, InterruptedMarkedUnknown, RetentionBound

(* The record of an action under way is there and says "started", nothing  *)
(* says so that an earlier process left, and only records that must be     *)
(* kept exceed the bound.                                                  *)
THEOREM AuditInvariant ==
  ASSUME MaxRecords \in Nat
  PROVE  Spec => []AuditInv
<1>1. Init => AuditInv
  BY InitInv
<1>2. AuditInv /\ [Next]_auditVars => AuditInv'
  BY NextInv
<1> QED
  BY <1>1, <1>2, PTL DEF Spec

(* trimOldest walks the bucket from its old end.                           *)
THEOREM OldestRecordsGoFirst ==
  ASSUME MaxRecords \in Nat
  PROVE  Spec => OldestGoFirst
<1> DEFINE OldGo == \A i \in DOMAIN records \ DOMAIN records', j \in Finished(records') : i < j
<1>1. ASSUME AuditInv, [Next]_auditVars
      PROVE  OldGo
  <2>1. CASE Begin
    <3>1. Trimmed(Overwrite(records, sequence + 1, "started"), records') /\ TypeOK
      BY <1>1, <2>1, PutTrims DEF AuditInv, TypeOK, Begin
    <3> QED
      BY <3>1 DEF TypeOK, Trimmed, Overwrite
  <2>2. ASSUME NEW id \in owed, NEW outcome \in Final, Complete(id, outcome)
        PROVE  OldGo
    <3>1. Trimmed(Overwrite(records, id, outcome), records')
      BY <1>1, <2>2, PutTrims DEF AuditInv, TypeOK, Complete
    <3> QED
      BY <3>1 DEF Trimmed, Overwrite
  <2>3. CASE Open
    BY <1>1, <2>3, RecoverTrims DEF AuditInv, Open, Trimmed, MarkUnknown
  <2>4. CASE records' = records
    BY <2>4
  <2> QED
    BY <1>1, <2>1, <2>2, <2>3, <2>4 DEF Next, Abandon, Stop, auditVars
<1>2. AuditInv /\ [Next]_auditVars => [OldGo]_auditVars
  BY <1>1
<1> QED
  BY <1>2, AuditInvariant, PTL DEF Spec, OldestGoFirst

(* Complete overwrites whatever it finds, and finds a started record.      *)
THEOREM OutcomesStay ==
  ASSUME MaxRecords \in Nat
  PROVE  Spec => FinalOutcomeStays
<1> DEFINE Stay == \A i \in Finished(records) \cap DOMAIN records' : records'[i] = records[i]
<1>1. ASSUME AuditInv, [Next]_auditVars
      PROVE  Stay
  <2>1. CASE Begin
    <3>1. Trimmed(Overwrite(records, sequence + 1, "started"), records') /\ TypeOK
      BY <1>1, <2>1, PutTrims DEF AuditInv, TypeOK, Begin
    <3>2. sequence + 1 \notin DOMAIN records
      BY <3>1 DEF TypeOK
    <3> QED
      BY <3>1, <3>2, Zenon DEF Finished, Trimmed, Overwrite
  <2>2. ASSUME NEW id \in owed, NEW outcome \in Final, Complete(id, outcome)
        PROVE  Stay
    <3>1. Trimmed(Overwrite(records, id, outcome), records')
      BY <1>1, <2>2, PutTrims DEF AuditInv, TypeOK, Complete
    <3>2. id \notin Finished(records)
      BY <1>1, <2>2 DEF AuditInv, RunningRecordKept, Finished
    <3> QED
      BY <3>1, <3>2, Zenon DEF Trimmed, Overwrite, Finished
  <2>3. CASE Open
    BY <1>1, <2>3, RecoverTrims, Zenon DEF AuditInv, Open, Trimmed, MarkUnknown, Finished
  <2>4. CASE records' = records
    BY <2>4
  <2> QED
    BY <1>1, <2>1, <2>2, <2>3, <2>4 DEF Next, Abandon, Stop, auditVars
<1>2. AuditInv /\ [Next]_auditVars => [Stay]_auditVars
  BY <1>1
<1> QED
  BY <1>2, AuditInvariant, PTL DEF Spec, FinalOutcomeStays
==============================================================================
