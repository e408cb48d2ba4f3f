------------------------- MODULE RemoteMountsProofs --------------------------
(***************************************************************************)
(* Proofs about the managed remote mounts, for any number of definitions,  *)
(* targets and workers: what a manifest says is there is there and belongs *)
(* to it alone, what an administrator put there survives but for what a    *)
(* rollback removes unverified and what looks managed, a failed create     *)
(* leaves nothing unrecorded, and a deleted definition is gone.            *)
(* RemoteMountsSteps has the inductive invariant, the lemmas on who a step *)
(* can disturb, and all but the beginnings and successful steps of         *)
(* operations.                                                             *)
(***************************************************************************)
EXTENDS RemoteMountsSteps

(* An operation begins on a definition that no other is at work on.        *)
LEMMA Beginning ==
  ASSUME IInv, NEW w \in Workers, NEW d \in Definitions,
         NEW op \in {"create", "mount", "unmount", "delete"}, Begin(w, op, d),
         used' = used \cup {d}, op = "create" => d \notin used /\ \A v \in Workers : ~Creating(v),
         op # "create" => d \in used
  PROVE  IInv'
<1>1. /\ work[w] = Idle /\ ~Locked(d)
      /\ UNCHANGED history /\ UNCHANGED files /\ disk' = disk /\ manifest' = manifest /\ made' = made
      /\ enabled' = enabled /\ armed' = armed /\ mounted' = mounted /\ job' = job /\ faults' = faults
      /\ unnoted' = unnoted /\ cut' = cut /\ undone' = undone /\ deleted' = deleted
  BY Zenon DEF Begin, systemd, history, files
<1>2. PICK k : k = [Idle EXCEPT !.op = op, !.def = d]
  OBVIOUS
<1>3. /\ k \in WorkRecords /\ k.op = op /\ k.def = d /\ k.at = 1 /\ ~k.waits /\ ~k.late /\ k.undo = <<>>
      /\ k.seen = {} /\ k.active = {} /\ ~k.new /\ ~k.bad
  <2>1. /\ Idle \in WorkRecords /\ Idle.at = 1 /\ ~Idle.waits /\ ~Idle.late /\ Idle.undo = <<>>
        /\ Idle.seen = {} /\ Idle.active = {} /\ ~Idle.new /\ ~Idle.bad
    BY DEF Idle, WorkRecords
  <2>2. PICK r \in WorkRecords : r = Idle
    BY <2>1
  <2>3. k = [r EXCEPT !.op = op, !.def = d]
    BY <1>2, <2>2
  <2> QED
    BY <2>1, <2>2, <2>3, Zenon DEF WorkRecords
<1>4. work' = [work EXCEPT ![w] = k]
  <2>1. work' = [work EXCEPT ![w].op = op, ![w].def = d]
    BY Zenon DEF Begin
  <2>2. work \in [Workers -> WorkRecords]
    BY TypesAre, Zenon DEF IInv
  <2> QED
    BY <1>1, <1>2, <2>1, <2>2, Zenon
<1>5. d \in used' /\ used \subseteq used' /\ used' \subseteq Definitions /\ d # Nobody
  BY MountsAssumption DEF IInv, Types, TypeOK
<1>6. HostTypes'
  <2>1. HostTypes /\ deleted' \subseteq used'
    BY <1>1, <1>5, TypesAre DEF IInv, HostTypes
  <2> QED
    BY <1>1, <1>5, <2>1, Zenon DEF HostTypes
<1>7. Len(Steps(op, d)) \in Nat
  BY StepsOf, CreateShape, DeleteShape
<1>8. SoundRecord(k)'
  BY <1>3, <1>5, <1>7 DEF SoundRecord, Steps
<1>9. Types' /\ work'[w] = k /\ \A v \in Workers \ {w} : work'[v] = work[v]
  BY <1>4, <1>5, <1>6, <1>8, TypesStep, Zenon DEF IInv
<1>10. /\ work'[w].op = op /\ work'[w].def = d /\ work'[w].at = 1 /\ ~work'[w].waits /\ work'[w].undo = <<>>
       /\ ~work'[w].new /\ ~work'[w].bad /\ work[w].op = "idle" /\ work[w].def = Nobody /\ ~Creating(w)
  BY <1>1, <1>3, <1>9 DEF Idle, Creating
<1>11. \A v \in Workers : work[v].def # d
  BY <1>1 DEF Locked
<1>12. Locks'
  <2> SUFFICES ASSUME NEW u \in Workers, NEW v \in Workers, u # v
               PROVE  /\ work'[u].def = work'[v].def => work'[u].def = Nobody
                      /\ ~(Creating(u)' /\ Creating(v)')
    BY Zenon DEF Locks
  <2>1. \A x \in Workers \ {w} : Creating(x)' <=> Creating(x)
    BY <1>9, SameWorker, Zenon
  <2>2. Creating(w)' => op = "create"
    BY <1>10 DEF Creating
  <2>3. CASE u # w /\ v # w
    BY <1>9, <2>1, <2>3, Zenon DEF IInv, Locks
  <2>4. CASE u = w
    BY <1>9, <1>10, <1>11, <2>1, <2>2, <2>4, Zenon
  <2>5. CASE v = w
    BY <1>9, <1>10, <1>11, <2>1, <2>2, <2>5, Zenon
  <2> QED
    BY <2>3, <2>4, <2>5
<1>13. OneDefinitionPerTarget'
  BY <1>1, Zenon DEF IInv, OneDefinitionPerTarget
<1>14. Kept(d) /\ OwnFiles(d) \subseteq Files /\ DirectoryOf(d) \in OwnFiles(d)
  BY TheFiles, Zenon DEF IInv
<1>15. Stands(w)'
  <2>1. CASE op = "create"
    <3>1. manifest[d] = "none" /\ d \notin made /\ \A f \in OwnFiles(d) : disk[f] # d
      BY <1>14, <2>1, Zenon DEF Kept
    <3>2. Creating(w)' /\ Rank(w)' = 1
      BY <1>10, <2>1 DEF Creating, Rank, CreateRank
    <3>3. Undos(w)' = {}
      BY <1>10 DEF Undos
    <3>4. CreateStands(w)'
      <4>1. ~(Rank(w)' > 2) /\ disk'[DirectoryOf(d)] # d /\ manifest'[d] = "none" /\ d \notin made'
        BY <1>1, <1>14, <3>1, <3>2
      <4>2. InOrder(work'[w].undo)
        BY <1>10 DEF InOrder
      <4> QED
        BY <1>10, <3>3, <4>1, <4>2, CreateLift
    <3>5. ForwardStands(w)'
      <4>1. /\ ~(Rank(w)' = 2) /\ Rank(w)' <= 7 /\ ~(Rank(w)' > 7) /\ manifest'[d] = "none"
        BY <1>1, <3>1, <3>2
      <4>2. \A s \in FileSteps : ~(CreatePlace[s] < Rank(w)')
        BY <3>2, CreatePlaces DEF FileSteps
      <4>3. \A f \in OwnFiles(d) : disk'[f] # d
        BY <1>1, <3>1, Zenon
      <4> QED
        BY <1>10, <4>1, <4>2, <4>3, ForwardLift, Zenon
    <3> QED
      BY <1>10, <2>1, <3>2, <3>4, <3>5 DEF Stands
  <2>2. CASE op = "delete"
    <3>1. ~Creating(w)' /\ Rank(w)' = 1
      BY <1>10, <2>2 DEF Creating, Rank, DeleteRank
    <3>2. DeleteStands(w)'
      BY <1>10, <3>1 DEF DeleteStands
    <3> QED
      BY <1>10, <2>2, <3>1, <3>2 DEF Stands
  <2>3. CASE op \in {"mount", "unmount"}
    <3>1. ~Creating(w)'
      BY <1>10, <2>3 DEF Creating
    <3> QED
      BY <1>10, <2>3, <3>1 DEF Stands
  <2> QED
    BY <2>1, <2>2, <2>3, Zenon
<1>16. ASSUME NEW v \in Workers \ {w}
       PROVE  Stands(v)'
  <2>1. work'[v] = work[v]
    BY <1>9, Zenon
  <2>2. CASE work[v].op = "idle"
    BY <2>1, <2>2, AtRest, Zenon DEF IInv, Stands, Creating
  <2>3. CASE work[v].op # "idle"
    <3>1. PICK e : e = work[v].def
      OBVIOUS
    <3>2. Stands(v)
      BY Zenon DEF IInv
    <3>3. work[v].op = "delete" =>
            /\ Rank(v) \in 3..12 => Target[e] \notin armed' /\ job'[Target[e]] # "start"
            /\ Rank(v) \in 4..12 => Target[e] \notin mounted'
            /\ Rank(v) \in 5..12 => Target[e] \notin enabled'
      BY <1>1, <3>1, <3>2, Zenon DEF Stands, DeleteStands
    <3>4. work'[v].waits => Holds(v) /\ Step(v) \in JobSteps /\ job'[Target[e]] = Step(v)
      BY <1>1, <2>1, <3>1, <3>2, Zenon DEF Stands
    <3>5. SameCourse(work'[v], work[v]) /\ \A f \in OwnFiles(e) : disk'[f] = disk[f]
      BY <1>1, <2>1, Zenon DEF SameCourse
    <3> QED
      BY <1>1, <2>3, <3>1, <3>3, <3>4, <3>5, StayingPut, Zenon
  <2> QED
    BY <2>2, <2>3
<1>17. ASSUME NEW e \in Definitions
       PROVE  Kept(e)'
  <2>1. Kept(e) /\ e # Nobody /\ deleted \subseteq used
    BY MountsAssumption, Zenon DEF IInv, Types
  <2>2. ASSUME Gone(e)
        PROVE  Gone(e)'
    <3>1. manifest'[e] = "none" /\ \A f \in OwnFiles(e) : disk'[f] # e
      BY <1>1, <2>2, Zenon DEF Gone
    <3> QED
      BY <1>1, <1>5, <2>2, <3>1, GoneLift, Zenon
  <2>3. \A v \in Workers \ {w} : Rank(v)' = Rank(v) /\ (Creating(v)' <=> Creating(v)) /\ work'[v] = work[v]
    BY <1>9, SameWorker, Zenon
  <2>4. /\ e \in made' => manifest'[e] # "none" /\ disk'[DirectoryOf(e)] \in {Nobody, e}
        /\ manifest'[e] # "none" /\ disk'[DirectoryOf(e)] = e => e \in made'
        /\ e \notin used' => manifest'[e] = "none" /\ \A f \in OwnFiles(e) : disk'[f] # e
        /\ e \notin unnoted' \cup undone' /\ manifest'[e] = "active" => \A f \in OwnFiles(e) : disk'[f] # Nobody
        /\ e \in deleted' => Gone(e)'
    BY <1>1, <1>5, <2>1, <2>2, Zenon DEF Kept
  <2>5. e \notin unnoted' \cup cut' /\ manifest'[e] = "none"
          => \/ \E v \in Workers : work'[v].def = e /\ Creating(v)'
             \/ \A f \in OwnFiles(e) : disk'[f] # e
    BY <1>1, <1>10, <2>1, <2>3, Zenon DEF Kept
  <2>6. /\ e \in deleted' /\ work'[w].def = e => ~Creating(w)' /\ work'[w].at = 1
        /\ ~(work'[w].op = "delete" /\ Rank(w)' = 13)
    <3>1. d \in deleted => op # "create"
      BY <2>1, Zenon
    <3>2. op # "create" => ~Creating(w)'
      BY <1>10 DEF Creating
    <3>3. op = "delete" => Rank(w)' = 1
      BY <1>10 DEF Rank, DeleteRank
    <3> QED
      BY <1>1, <1>10, <3>1, <3>2, <3>3
  <2>7. \A v \in Workers :
          /\ e \in deleted' /\ work'[v].def = e => ~Creating(v)' /\ work'[v].at = 1
          /\ work'[v].def = e /\ work'[v].op = "delete" /\ Rank(v)' = 13 => Gone(e)'
    BY <1>1, <2>1, <2>2, <2>3, <2>6, Zenon DEF Kept
  <2> QED
    BY <2>4, <2>5, <2>7, Zenon DEF Kept, DirectoryOf, OwnFiles, UnitFiles, Credentials, FileOf
<1> QED
  BY <1>9, <1>12, <1>13, <1>15, <1>16, <1>17, Zenon DEF IInv

(* The disk after a step of create or delete that is about a file.         *)
DiskAfter(w, d, s) ==
  IF work[w].op = "create"
  THEN IF disk[FileOf(s, d)] = Nobody THEN [disk EXCEPT ![FileOf(s, d)] = d] ELSE disk
  ELSE IF s = "directory" /\ d \notin made THEN disk
  ELSE [disk EXCEPT ![FileOf(s, d)] = Nobody]

(* What a step does, kind by kind.                                         *)
LEMMA DoIs ==
  ASSUME NEW w \in Workers, Do(w), NEW d, d = work[w].def, NEW s, s = Step(w)
  PROVE  /\ armed' = armed /\ mounted' = mounted /\ job' = job
         /\ s \in FileSteps =>
              /\ disk' = DiskAfter(w, d, s)
              /\ manifest' = manifest /\ made' = made /\ enabled' = enabled
         /\ s = "attention" =>
              /\ manifest' = [manifest EXCEPT ![d] = "attention"]
              /\ made' = made /\ disk' = disk /\ enabled' = enabled
         /\ s = "manifest" =>
              /\ manifest' = [manifest EXCEPT ![d] = IF work[w].op = "create" THEN "active" ELSE "none"]
              /\ made' = IF work[w].op = "create" /\ work[w].new THEN made \cup {d} ELSE made \ {d}
              /\ disk' = disk /\ enabled' = enabled
         /\ s = "enable" => enabled' = enabled \cup {Target[d]}
         /\ s = "disable" => enabled' = enabled \ {Target[d]}
         /\ s \in {"enable", "disable"} => disk' = disk /\ manifest' = manifest /\ made' = made
         /\ s \in {"list", "verify", "load", "reload"} =>
              disk' = disk /\ manifest' = manifest /\ made' = made /\ enabled' = enabled
<1>1. armed' = armed /\ mounted' = mounted /\ job' = job
  BY Zenon DEF Do
<1>2. CASE DoFile(w)
  <2>1. /\ s \in FileSteps
        /\ disk' = IF work[w].op = "create" THEN Placed(s, d)
                   ELSE IF s = "directory" /\ d \notin made THEN disk ELSE Cleared(s, d)
        /\ manifest' = manifest /\ made' = made /\ enabled' = enabled
    BY <1>2, Zenon DEF DoFile
  <2> QED
    BY <1>1, <2>1 DEF FileSteps, Placed, Cleared, DiskAfter
<1>3. CASE DoManifest(w)
  <2>1. /\ s \in {"manifest", "attention"} /\ disk' = disk /\ enabled' = enabled
        /\ manifest' = [manifest EXCEPT ![d] = IF s = "attention" THEN "attention"
                                               ELSE IF work[w].op = "create" THEN "active" ELSE "none"]
        /\ made' = IF s = "attention" THEN made
                   ELSE IF work[w].op = "create" /\ work[w].new THEN made \cup {d} ELSE made \ {d}
    BY <1>3 DEF DoManifest
  <2>2. CASE s = "attention"
    BY <1>1, <2>1, <2>2 DEF FileSteps
  <2>3. CASE s = "manifest"
    BY <1>1, <2>1, <2>3 DEF FileSteps
  <2> QED
    BY <2>1, <2>2, <2>3
<1>4. CASE DoEnable(w)
  BY <1>1, <1>4 DEF DoEnable, files, FileSteps
<1>5. CASE DoNothing(w)
  BY <1>1, <1>5 DEF DoNothing, files, FileSteps
<1> QED
  BY <1>2, <1>3, <1>4, <1>5, Zenon DEF Do

(* The types of what a step does.                                          *)
LEMMA DoTypes ==
  ASSUME IInv, NEW w \in Workers, work[w].op # "idle", Do(w),
         used' = used, deleted' = deleted, Fault \/ UNCHANGED faults
  PROVE  HostTypes'
<1>1. PICK d, s : d = work[w].def /\ s = Step(w)
  BY Zenon
<1>2. HostTypes /\ d \in Definitions /\ Target[d] \in Targets
  BY <1>1, TypesAre, OwnBefore, MountsAssumption DEF IInv
<1>3. faults' \in 0..MaxFaults
  BY FaultCounts, Zenon
<1>4. armed' = armed /\ mounted' = mounted /\ job' = job
  BY <1>1, DoIs, Zenon
<1>5. CASE s \in FileSteps
  <2>1. /\ disk' = DiskAfter(w, d, s)
        /\ manifest' = manifest /\ made' = made /\ enabled' = enabled
    BY <1>1, <1>5, DoIs, Zenon
  <2>2. disk' \in [Files -> Definitions \cup {Nobody, Foreign, Meanwhile, Alike}]
    BY <1>2, <2>1, Zenon DEF HostTypes, DiskAfter
  <2> QED
    BY <1>2, <1>3, <1>4, <2>1, <2>2, Zenon DEF HostTypes
<1>6. CASE s \in {"attention", "manifest"}
  <2>1. /\ \E m \in {"none", "active", "attention"} : manifest' = [manifest EXCEPT ![d] = m]
        /\ made' \in {made, made \cup {d}, made \ {d}} /\ disk' = disk /\ enabled' = enabled
    BY <1>1, <1>6, DoIs
  <2>2. manifest' \in [Definitions -> {"none", "active", "attention"}] /\ made' \subseteq Definitions
    BY <1>2, <2>1 DEF HostTypes
  <2> QED
    BY <1>2, <1>3, <1>4, <2>1, <2>2, Zenon DEF HostTypes
<1>7. CASE s \in {"enable", "disable"}
  <2>1. /\ enabled' \in {enabled \cup {Target[d]}, enabled \ {Target[d]}}
        /\ disk' = disk /\ manifest' = manifest /\ made' = made
    BY <1>1, <1>7, DoIs
  <2>2. enabled' \subseteq Targets
    BY <1>2, <2>1 DEF HostTypes
  <2> QED
    BY <1>2, <1>3, <1>4, <2>1, <2>2, Zenon DEF HostTypes
<1>8. CASE s \in {"list", "verify", "load", "reload"}
  <2>1. disk' = disk /\ manifest' = manifest /\ made' = made /\ enabled' = enabled
    BY <1>1, <1>8, DoIs, Zenon
  <2> QED
    BY <1>2, <1>3, <1>4, <2>1, Zenon DEF HostTypes
<1>9. s \in FileSteps \cup {"attention", "manifest", "enable", "disable", "list", "verify", "load", "reload"}
  BY <1>1, Zenon DEF Do, DoFile, DoManifest, DoEnable, DoNothing
<1> QED
  BY <1>5, <1>6, <1>7, <1>8, <1>9, Zenon

(* The record after a step that succeeded.                                 *)
LEMMA SucceedingRecord ==
  ASSUME IInv, NEW w \in Workers, StepSucceeds(w), NEW d, d = work[w].def
  PROVE  /\ work[w].op \in {"create", "mount", "unmount", "delete"} /\ work[w].op # "idle"
         /\ work[w].at <= Len(Steps(work[w].op, work[w].def)) /\ Step(w) \notin JobSteps
         /\ Passes(w) /\ Do(w)
         /\ used' = used /\ unnoted' = unnoted /\ cut' = cut /\ undone' = undone /\ deleted' = deleted
         /\ Moved(w, d)
         /\ work'[w].undo = Noted(w) /\ work'[w].seen = Listing(w).seen
         /\ work'[w].new = (work[w].new \/ (Step(w) = "directory" /\ Noted(w) # work[w].undo))
<1>1. /\ work[w].op \in {"create", "mount", "unmount", "delete"} /\ work[w].op # "idle"
      /\ work[w].at <= Len(Steps(work[w].op, work[w].def)) /\ Step(w) \notin JobSteps
      /\ Passes(w) /\ Do(w)
      /\ used' = used /\ unnoted' = unnoted /\ cut' = cut /\ undone' = undone /\ deleted' = deleted
      /\ faults' = faults
  BY DEF StepSucceeds, AtStep, history
<1>2. HostTypes'
  BY <1>1, DoTypes, Zenon
<1>3. SoundRecord(work[w]) /\ work \in [Workers -> WorkRecords] /\ HostTypes
  BY TypesAre, Zenon DEF IInv
<1>4. PICK k : k = [work[w] EXCEPT !.at = @ + 1, !.undo = Noted(w),
                !.seen = Listing(w).seen, !.active = Listing(w).active,
                !.busy = Listing(w).busy,
                !.new = @ \/ (Step(w) = "directory" /\ Noted(w) # work[w].undo)]
  OBVIOUS
<1>5. work' = [work EXCEPT ![w] = k]
  <2>1. work' = [work EXCEPT ![w].at = @ + 1, ![w].undo = Noted(w),
                ![w].seen = Listing(w).seen, ![w].active = Listing(w).active,
                ![w].busy = Listing(w).busy,
                ![w].new = @ \/ (Step(w) = "directory" /\ Noted(w) # work[w].undo)]
    BY DEF StepSucceeds
  <2> QED
    BY <1>3, <1>4, <2>1, Zenon
<1>6. Noted(w) \in Seq(UndoSteps) /\ (Noted(w) # <<>> => work[w].op = "create")
  <2>1. work[w].undo \in Seq(UndoSteps) /\ (work[w].undo # <<>> => work[w].op = "create")
    BY <1>1, <1>3 DEF WorkRecords, SoundRecord
  <2>2. ASSUME work[w].op = "create", Step(w) \notin {"list", "verify"}
        PROVE  Step(w) \in UndoSteps
    <3>1. Where(w) /\ Creating(w)
      BY <1>1, <2>2, OwnBefore DEF Creating
    <3>2. Step(w) \in DOMAIN CreatePlace
      BY <1>1, <3>1, Zenon DEF Where
    <3> QED
      BY <2>2, <3>2, CreatePlaces DEF UndoSteps
  <2> QED
    BY <2>1, <2>2 DEF Noted
<1>7. /\ Listing(w).active \subseteq Listing(w).seen /\ Listing(w).seen \subseteq used
      /\ Listing(w).active \subseteq Definitions /\ Listing(w).seen \subseteq Definitions
      /\ Listing(w).busy \subseteq Targets
  <2>1. \A e \in Definitions : manifest[e] # "none" => e \in used
    BY Zenon DEF IInv, Kept
  <2>2. /\ work[w].active \subseteq work[w].seen /\ work[w].seen \subseteq used
        /\ work[w].seen \subseteq Definitions /\ work[w].busy \subseteq Targets
    BY <1>1, <1>3 DEF WorkRecords, SoundRecord
  <2>3. CASE Step(w) # "list"
    BY <2>2, <2>3, SMTT(30) DEF Listing
  <2>4. CASE Step(w) = "list"
    BY <1>3, <2>1, <2>4 DEF Listing, HostTypes
  <2> QED
    BY <2>3, <2>4
<1>8. /\ k \in WorkRecords /\ k.op = work[w].op /\ k.def = work[w].def /\ k.at = work[w].at + 1
      /\ k.waits = work[w].waits /\ k.bad = work[w].bad /\ k.undo = Noted(w)
      /\ k.seen = Listing(w).seen /\ k.active = Listing(w).active
      /\ k.new = (work[w].new \/ (Step(w) = "directory" /\ Noted(w) # work[w].undo))
  <2>1. PICK r \in WorkRecords : r = work[w]
    BY <1>3, SMTT(30)
  <2>2. PICK u \in Seq(UndoSteps), S \in SUBSET Definitions, A \in SUBSET Definitions,
             B \in SUBSET Targets, n \in BOOLEAN :
          /\ u = Noted(w) /\ S = Listing(w).seen /\ A = Listing(w).active /\ B = Listing(w).busy
          /\ n = (work[w].new \/ (Step(w) = "directory" /\ Noted(w) # work[w].undo))
    BY <1>6, <1>7, Zenon
  <2>3. k = [r EXCEPT !.at = r.at + 1, !.undo = u, !.seen = S, !.active = A, !.busy = B, !.new = n]
        /\ r.at + 1 \in Nat
    BY <1>4, <2>1, <2>2 DEF WorkRecords
  <2>4. k \in WorkRecords
    BY <2>3, Zenon DEF WorkRecords
  <2>5. /\ k.op = r.op /\ k.def = r.def /\ k.at = r.at + 1 /\ k.waits = r.waits /\ k.bad = r.bad
        /\ k.undo = u /\ k.seen = S /\ k.active = A /\ k.new = n
    BY <2>3 DEF WorkRecords
  <2> QED
    BY <2>1, <2>2, <2>4, <2>5, Zenon
<1>9. ~work[w].waits
  BY DEF StepSucceeds, AtStep
<1>10. Advanced(w, k)
  BY <1>6, <1>7, <1>8, <1>9, Zenon DEF Advanced
<1>11. Moved(w, d) /\ work'[w] = k
  BY <1>1, <1>2, <1>5, <1>10, Advancing, Zenon
<1> QED
  BY <1>1, <1>8, <1>11, Zenon

(* A create takes its locks.                                               *)
LEMMA CreateKeeps ==
  ASSUME IInv, NEW w \in Workers, NEW d \in Definitions, Create(w, d)
  PROVE  IInv'
<1>1. PICK op \in {"create", "mount", "unmount", "delete"} : op = "create"
  OBVIOUS
<1>2. Begin(w, op, d) /\ used' = used \cup {d} /\ d \notin used /\ \A v \in Workers : ~Creating(v)
  BY <1>1, Zenon DEF Create
<1> QED
  BY <1>1, <1>2, Beginning, Zenon

(* So does an operation on a definition that was once asked for.           *)
LEMMA OperateKeeps ==
  ASSUME IInv, NEW w \in Workers, NEW d \in Definitions, NEW op \in {"mount", "unmount", "delete"},
         Operate(w, op, d)
  PROVE  IInv'
<1>1. op \in {"create", "mount", "unmount", "delete"} /\ op # "create"
  OBVIOUS
<1>2. Begin(w, op, d) /\ used' = used /\ d \in used
  BY Zenon DEF Operate
<1>3. used' = used \cup {d}
  BY <1>2
<1> QED
  BY <1>1, <1>2, <1>3, Beginning, Zenon

(* The invariant holds at first.                                           *)
LEMMA InitKeeps ==
  ASSUME Init
  PROVE  IInv
<1>1. /\ manifest = [d \in Definitions |-> "none"] /\ made = {} /\ enabled = {} /\ armed = {}
      /\ mounted = {} /\ job = [t \in Targets |-> "none"] /\ work = [w \in Workers |-> Idle]
      /\ used = {} /\ faults = 0 /\ deleted = {}
  BY Zenon DEF Init
<1>2. /\ disk \in [Files -> Definitions \cup {Nobody, Foreign, Meanwhile, Alike}]
      /\ \A f \in Files : disk[f] \in {Nobody, Foreign}
  BY DEF Init
<1>3. \A w \in Workers : work[w] = Idle
  BY <1>1
<1>4. Idle \in WorkRecords /\ Idle.op = "idle" /\ Idle.def = Nobody /\ ~Idle.waits
  BY DEF Idle, WorkRecords
<1>5. Types
  <2>1. work \in [Workers -> WorkRecords]
    BY <1>1, <1>4
  <2>2. TypeOK
    <3>1. faults \in 0..MaxFaults
      BY <1>1, MountsAssumption
    <3> QED
      BY <1>1, <1>2, <1>3, <3>1 DEF TypeOK, JobSteps
  <2> QED
    BY <1>1, <1>3, <2>1, <2>2 DEF Types
<1>6. \A w \in Workers : ~Creating(w) /\ Stands(w)
  BY <1>3, <1>4 DEF Creating, Stands
<1>7. Locks
  BY <1>3, <1>4, <1>6, Zenon DEF Locks
<1>8. OneDefinitionPerTarget
  BY <1>1 DEF OneDefinitionPerTarget
<1>9. ASSUME NEW d \in Definitions
      PROVE  Kept(d)
  <2>1. manifest[d] = "none" /\ d \notin made /\ d \notin deleted /\ d # Nobody /\ d # Foreign
    BY <1>1, MountsAssumption
  <2>2. \A f \in OwnFiles(d) : disk[f] # d
    BY <1>2, <2>1, TheFiles
  <2>3. \A w \in Workers : work[w].op # "delete"
    BY <1>3, <1>4
  <2> QED
    BY <2>1, <2>2, <2>3 DEF Kept
<1> QED
  BY <1>5, <1>6, <1>7, <1>8, <1>9, Zenon DEF IInv

(* What the checks of a step established.                                  *)
LEMMA PassesIs ==
  ASSUME NEW w \in Workers, Passes(w), NEW d, d = work[w].def, NEW s, s = Step(w)
  PROVE  /\ s \in {"credentials", "mount", "automount"} => disk[FileOf(s, d)] \in {Nobody, d, Alike}
         /\ s \in {"credentials", "mount", "automount"} /\ work[w].op = "create" => disk[FileOf(s, d)] \in {Nobody, d}
         /\ s = "load" => manifest[d] = "active"
         /\ s = "attention" => manifest[d] # "none"
<1>1. CASE s \in {"credentials", "mount", "automount"}
  BY <1>1 DEF Passes, Writable, Removable
<1>2. CASE s = "load"
  BY <1>2 DEF Passes, Owned
<1>3. CASE s = "attention"
  BY <1>3 DEF Passes, Deletable
<1> QED
  BY <1>1, <1>2, <1>3

(* Where a step of create or delete is that touches the host, and that the *)
(* worker holds its target by then.                                        *)
LEMMA AtFileHolds ==
  ASSUME IInv, NEW w \in Workers, work[w].op \in {"create", "delete"},
         work[w].at <= Len(Steps(work[w].op, work[w].def)),
         NEW d, d = work[w].def, NEW s, s = Step(w)
  PROVE  /\ s = "credentials" => d \in WithCredentials
         /\ work[w].op = "create" =>
              /\ Creating(w) /\ s \in DOMAIN CreatePlace /\ Rank(w) = CreatePlace[s]
              /\ s \in FileSteps \cup {"manifest", "enable"} => Holds(w) /\ Rank(w) > 2
         /\ work[w].op = "delete" =>
              /\ ~Creating(w) /\ s \in DOMAIN DeletePlace /\ Rank(w) = DeletePlace[s]
              /\ s # "attention" => manifest[d] = "attention" /\ Holds(w)
<1>1. work[w].op # "idle" /\ Where(w) /\ Stands(w)
  BY OwnBefore
<1>2. CASE work[w].op = "create"
  <2>1. /\ Creating(w) /\ s \in DOMAIN CreatePlace /\ Rank(w) = CreatePlace[s]
        /\ s = "credentials" => d \in WithCredentials
    BY <1>1, <1>2 DEF Where, Creating
  <2>2. s \in FileSteps \cup {"manifest", "enable"} => Rank(w) > 2
    BY <2>1, CreatePlaces DEF FileSteps
  <2> QED
    BY <1>2, <2>1, <2>2 DEF Holds
<1>3. CASE work[w].op = "delete"
  <2>1. /\ ~Creating(w) /\ s \in DOMAIN DeletePlace /\ Rank(w) = DeletePlace[s]
        /\ s = "credentials" => d \in WithCredentials
    BY <1>1, <1>3 DEF Where, Creating
  <2>2. s # "attention" => Rank(w) \in 2..12
    BY <2>1, DeletePlaces
  <2>3. DeleteStands(w)
    BY <1>1, <1>3 DEF Stands
  <2>4. s # "attention" => manifest[d] = "attention" /\ Holds(w)
    BY <1>3, <2>2, <2>3 DEF DeleteStands, Holds
  <2> QED
    BY <1>3, <2>1, <2>4
<1> QED
  BY <1>2, <1>3

(* A step about a file F: create finds or puts one there, delete leaves    *)
(* none of the definition's, and no other file is touched.                 *)
FileTouched(w, d, F) ==
  /\ Holds(w) /\ F \in OwnFiles(d) /\ F \in Files
  /\ \A f \in Files : f # F => disk'[f] = disk[f]
  /\ disk'[F] = disk[F] \/ Passed(F, d)
  /\ work[w].op = "create" =>
       /\ disk'[F] # Nobody
       /\ disk[F] = Nobody => disk'[F] = d
       /\ disk[F] # Nobody => disk'[F] = disk[F]
       /\ F # DirectoryOf(d) => disk'[F] = d
  /\ work[w].op = "delete" => disk'[F] # d /\ (disk'[F] = disk[F] \/ disk[F] \in {d, Alike})
  /\ manifest' = manifest /\ made' = made /\ enabled' = enabled
  /\ armed' = armed /\ mounted' = mounted /\ job' = job

(* What a step about a file does.                                          *)
LEMMA TouchingFile ==
  ASSUME IInv, NEW w \in Workers, work[w].op \in {"create", "delete"},
         work[w].at <= Len(Steps(work[w].op, work[w].def)), Passes(w), Do(w),
         NEW d, d = work[w].def, NEW s \in FileSteps, s = Step(w), NEW F, F = FileOf(s, d)
  PROVE  FileTouched(w, d, F)
<1>1. /\ disk' = DiskAfter(w, d, s) /\ manifest' = manifest /\ made' = made /\ enabled' = enabled
      /\ armed' = armed /\ mounted' = mounted /\ job' = job
  BY DoIs, Zenon
<1>2. work[w].op # "idle"
  OBVIOUS
<1>3. /\ d \in Definitions /\ d # Nobody /\ HostTypes
      /\ d \in made => disk[DirectoryOf(d)] \in {Nobody, d}
      /\ manifest[d] # "none" /\ disk[DirectoryOf(d)] = d => d \in made
  BY <1>2, OwnBefore, TypesAre, Zenon DEF IInv
<1>4. /\ s = "credentials" => d \in WithCredentials
      /\ Holds(w)
      /\ work[w].op = "delete" => manifest[d] = "attention"
  <2>1. s \in FileSteps \cup {"manifest", "enable"} /\ s # "attention"
    BY DEF FileSteps
  <2> QED
    BY <2>1, AtFileHolds, Zenon
<1>5. F \in OwnFiles(d) /\ F \in Files
  BY <1>3, <1>4, TheFiles, Zenon
<1>6. /\ s \in {"credentials", "mount", "automount"} => disk[F] \in {Nobody, d, Alike}
      /\ s \in {"credentials", "mount", "automount"} /\ work[w].op = "create" => disk[F] \in {Nobody, d}
  BY PassesIs, Zenon
<1>7. s = "directory" \/ s \in {"credentials", "mount", "automount"}
  BY DEF FileSteps
<1>8. s = "directory" => F = DirectoryOf(d)
  BY DEF DirectoryOf
<1>9. CASE work[w].op = "create"
  <2>1. disk' = IF disk[F] = Nobody THEN [disk EXCEPT ![F] = d] ELSE disk
    BY <1>1, <1>9 DEF DiskAfter
  <2>2. /\ \A f \in Files : f # F => disk'[f] = disk[f]
        /\ disk[F] = Nobody => disk'[F] = d
        /\ disk[F] # Nobody => disk'[F] = disk[F]
    BY <1>3, <1>5, <2>1 DEF HostTypes
  <2>3. /\ disk'[F] = disk[F] \/ Passed(F, d)
        /\ disk'[F] # Nobody
        /\ F # DirectoryOf(d) => disk'[F] = d
    BY <1>3, <1>6, <1>7, <1>8, <1>9, <2>2 DEF Passed
  <2>4. work[w].op # "delete"
    BY <1>9
  <2> QED
    BY <1>1, <1>4, <1>5, <2>2, <2>3, <2>4, Zenon DEF FileTouched
<1>10. CASE work[w].op = "delete"
  <2>1. disk' = IF s = "directory" /\ d \notin made THEN disk ELSE [disk EXCEPT ![F] = Nobody]
    BY <1>1, <1>10 DEF DiskAfter
  <2>2. /\ \A f \in Files : f # F => disk'[f] = disk[f]
        /\ s = "directory" /\ d \notin made => disk'[F] = disk[F]
        /\ ~(s = "directory" /\ d \notin made) => disk'[F] = Nobody
    BY <1>3, <1>5, <2>1 DEF HostTypes
  <2>3. s = "directory" /\ d \notin made => disk[F] # d
    BY <1>3, <1>4, <1>8, <1>10
  <2>4. ~(s = "directory" /\ d \notin made) => disk[F] \in {Nobody, d, Alike}
    BY <1>3, <1>6, <1>7, <1>8, SMTT(30), Zenon, SMTT(60)
  <2>5. /\ disk'[F] = disk[F] \/ Passed(F, d)
        /\ disk'[F] # d /\ (disk'[F] = disk[F] \/ disk[F] \in {d, Alike})
    BY <1>3, <2>2, <2>3, <2>4, SMTT(30), Zenon, SMTT(60) DEF Passed, Left
  <2>6. work[w].op # "create"
    BY <1>10
  <2> QED
    BY <1>1, <1>4, <1>5, <2>2, <2>5, <2>6, Zenon DEF FileTouched
<1> QED
  BY <1>9, <1>10

(* What a step can reach: the manifest of its own definition and, once the *)
(* target is held, its own files and units.                                *)
Reaches(w, d) ==
  /\ \A e \in Definitions \ {d} : manifest'[e] = manifest[e] /\ (e \in made' <=> e \in made)
  /\ manifest[d] = "none" /\ manifest'[d] # "none" => Creating(w) /\ Rank(w) > 2
  /\ \A f \in Files : disk'[f] = disk[f] \/ (Holds(w) /\ f \in OwnFiles(d) /\ Passed(f, d))
  /\ \A t \in Targets : (t \in enabled' <=> t \in enabled) \/ (Holds(w) /\ t = Target[d])

(* Every step keeps within its reach.                                      *)
LEMMA DoReaches ==
  ASSUME IInv, NEW w \in Workers, work[w].op \in {"create", "mount", "unmount", "delete"},
         work[w].at <= Len(Steps(work[w].op, work[w].def)), Passes(w), Do(w),
         NEW d, d = work[w].def
  PROVE  Reaches(w, d)
<1>1. PICK s : s = Step(w)
  OBVIOUS
<1>2. /\ work[w].op # "idle" /\ d \in Definitions /\ HostTypes /\ Where(w)
  BY OwnBefore, TypesAre DEF IInv
<1>3. CASE s \in {"list", "verify", "load", "reload"}
  <2>1. disk' = disk /\ manifest' = manifest /\ made' = made /\ enabled' = enabled
    BY <1>1, <1>3, DoIs, Zenon
  <2> QED
    BY <2>1, Zenon DEF Reaches
<1>4. ASSUME s \notin {"list", "verify", "load", "reload"}
      PROVE  work[w].op \in {"create", "delete"}
  <2>1. s \in FileSteps \cup {"manifest", "attention", "enable", "disable"}
    BY <1>1, <1>4, Zenon DEF Do, DoFile, DoManifest, DoEnable, DoNothing
  <2>2. work[w].op \in {"mount", "unmount"} => s \in {"load", "start", "stopAutomount", "stopMount"}
    <3>1. ASSUME work[w].op = "mount"
          PROVE  s \in {"load", "start"}
      <4>1. /\ work[w].at \in 1..3 /\ Len(Steps(work[w].op, work[w].def)) = 2
            /\ work[w].at = 1 => s = "load"
            /\ work[w].at = 2 => s = "start"
        BY <1>1, <1>2, <3>1, Zenon DEF Where
      <4> QED
        BY <4>1
    <3>2. ASSUME work[w].op = "unmount"
          PROVE  s \in {"load", "stopAutomount", "stopMount"}
      <4>1. /\ work[w].at \in 1..4 /\ Len(Steps(work[w].op, work[w].def)) = 3
            /\ work[w].at = 1 => s = "load"
            /\ work[w].at = 2 => s = "stopAutomount"
            /\ work[w].at = 3 => s = "stopMount"
        BY <1>1, <1>2, <3>2, Zenon DEF Where
      <4> QED
        BY <4>1
    <3> QED
      BY <3>1, <3>2
  <2> QED
    BY <1>4, <2>1, <2>2 DEF FileSteps
<1>5. CASE s \in FileSteps
  <2>1. PICK F : F = FileOf(s, d)
    OBVIOUS
  <2>2. work[w].op \in {"create", "delete"}
    BY <1>4, <1>5 DEF FileSteps
  <2>3. FileTouched(w, d, F)
    BY <1>1, <1>5, <2>1, <2>2, TouchingFile, Zenon
  <2> QED
    BY <2>3, Zenon DEF FileTouched, Reaches
<1>6. CASE s \in {"attention", "manifest"}
  <2>1. \E m : manifest' = [manifest EXCEPT ![d] = m]
    BY <1>1, <1>6, DoIs, Zenon
  <2>2. made' \in {made, made \cup {d}, made \ {d}} /\ disk' = disk /\ enabled' = enabled
    BY <1>1, <1>6, DoIs
  <2>3. \A e \in Definitions \ {d} : manifest'[e] = manifest[e] /\ (e \in made' <=> e \in made)
    BY <1>2, <2>1, <2>2 DEF HostTypes
  <2>4. manifest[d] = "none" /\ manifest'[d] # "none" => Creating(w) /\ Rank(w) > 2
    <3>1. CASE s = "attention"
      BY <1>1, <3>1, PassesIs, Zenon
    <3>2. CASE s = "manifest" /\ work[w].op = "create"
      BY <1>1, <3>2, AtFileHolds, Zenon
    <3>3. CASE s = "manifest" /\ work[w].op = "delete"
      <4>1. manifest' = [manifest EXCEPT ![d] = "none"]
        BY <1>1, <3>3, DoIs, ZenonT(30)
      <4> QED
        BY <1>2, <4>1, SMTT(30) DEF HostTypes
    <3> QED
      BY <1>4, <1>6, <3>1, <3>2, <3>3
  <2> QED
    BY <2>2, <2>3, <2>4, Zenon DEF Reaches
<1>7. CASE s \in {"enable", "disable"}
  <2>1. /\ enabled' \in {enabled \cup {Target[d]}, enabled \ {Target[d]}}
        /\ disk' = disk /\ manifest' = manifest /\ made' = made
    BY <1>1, <1>7, DoIs
  <2>2. Holds(w)
    <3>1. s = "disable" => work[w].op # "create"
      BY <1>1, <1>4, AtFileHolds, CreatePlaces, Zenon
    <3>2. work[w].op \in {"create", "delete"}
      BY <1>4, <1>7
    <3> QED
      BY <1>1, <1>7, <3>1, <3>2, AtFileHolds
  <2>3. \A t \in Targets : t # Target[d] => (t \in enabled' <=> t \in enabled)
    BY <2>1
  <2> QED
    BY <2>1, <2>2, <2>3, Zenon DEF Reaches
<1>8. s \in FileSteps \cup {"attention", "manifest", "enable", "disable", "list", "verify", "load", "reload"}
  BY <1>1, Zenon DEF Do, DoFile, DoManifest, DoEnable, DoNothing
<1> QED
  BY <1>3, <1>5, <1>6, <1>7, <1>8, Zenon

(* A step that succeeds or is half done disturbs no other definition.      *)
LEMMA DoTouches ==
  ASSUME IInv, NEW w \in Workers, work[w].op \in {"create", "mount", "unmount", "delete"},
         work[w].at <= Len(Steps(work[w].op, work[w].def)), Passes(w), Do(w),
         NEW d, d = work[w].def, \A v \in Workers \ {w} : work'[v] = work[v],
         work'[w].def = d, Creating(w)' => Creating(w),
         used' = used, cut' = cut, unnoted \subseteq unnoted', undone' = undone, deleted' = deleted
  PROVE  Touches(w)
<1>1. armed' = armed /\ mounted' = mounted /\ job' = job
  BY DoIs, Zenon
<1>2. Reaches(w, d)
  BY DoReaches, Zenon
<1>3. \A t \in Targets : SameUnits(t) \/ (Holds(w) /\ t = Target[d])
  BY <1>1, <1>2, Zenon DEF SameUnits, Reaches
<1> QED
  BY <1>2, <1>3, Zenon DEF Touches, Reaches

(* Mount and unmount load their definition.                                *)
LEMMA LoadKeeps ==
  ASSUME IInv, NEW w \in Workers, work[w].op \in {"mount", "unmount"}, StepSucceeds(w)
  PROVE  IInv'
<1>1. PICK d, s : d = work[w].def /\ s = Step(w)
  BY Zenon
<1>2. /\ work[w].op \in {"create", "mount", "unmount", "delete"} /\ work[w].op # "idle"
      /\ work[w].at <= Len(Steps(work[w].op, work[w].def)) /\ s \notin JobSteps /\ Passes(w) /\ Do(w)
      /\ used' = used /\ unnoted' = unnoted /\ cut' = cut /\ undone' = undone /\ deleted' = deleted
      /\ Moved(w, d)
  BY <1>1, SucceedingRecord, Zenon
<1>3. d \in Definitions /\ Where(w) /\ (d \in deleted => Gone(d))
  BY <1>1, <1>2, OwnBefore, Zenon
<1>4. s = "load"
  <2>1. CASE work[w].op = "mount"
    <3>1. /\ work[w].at \in 1..3 /\ Len(Steps(work[w].op, work[w].def)) = 2
          /\ work[w].at = 1 => s = "load"
          /\ work[w].at = 2 => s = "start"
      BY <1>1, <1>3, <2>1, Zenon DEF Where
    <3> QED
      BY <1>2, <3>1 DEF JobSteps
  <2>2. CASE work[w].op = "unmount"
    <3>1. /\ work[w].at \in 1..4 /\ Len(Steps(work[w].op, work[w].def)) = 3
          /\ work[w].at = 1 => s = "load"
          /\ work[w].at = 2 => s = "stopAutomount"
          /\ work[w].at = 3 => s = "stopMount"
      BY <1>1, <1>3, <2>2, Zenon DEF Where
    <3> QED
      BY <1>2, <3>1 DEF JobSteps
  <2> QED
    BY <2>1, <2>2
<1>5. manifest[d] = "active" /\ UNCHANGED files /\ manifest' = manifest
  <2>1. manifest[d] = "active"
    <3>1. s = "load" => manifest[d] = "active"
      BY <1>1, <1>2, PassesIs, Zenon
    <3> QED
      BY <1>4, <3>1
  <2>2. disk' = disk /\ manifest' = manifest /\ made' = made
    BY <1>1, <1>2, <1>4, DoIs, Zenon
  <2> QED
    BY <2>1, <2>2, Zenon DEF files
<1>6. /\ Types' /\ work'[w].def = d /\ work'[w].op = work[w].op /\ ~work'[w].waits
      /\ (Creating(w)' <=> Creating(w)) /\ \A v \in Workers \ {w} : work'[v] = work[v]
  BY <1>2, Zenon DEF Moved
<1>7. Touches(w)
  BY <1>1, <1>2, <1>6, DoTouches, Zenon
<1>8. Stands(w)' /\ ~Creating(w)
  <2>1. ~Creating(w) /\ ~Creating(w)' /\ work'[w].op \notin {"create", "rollback", "delete"}
    BY <1>6, SMTT(30), Zenon, SMTT(60) DEF Creating
  <2> QED
    BY <1>5, <1>6, <2>1, Zenon DEF Stands
<1>9. d \notin deleted /\ work'[w].op # "delete" /\ UNCHANGED <<files, history>>
  BY <1>2, <1>3, <1>5, <1>6, SMTT(30), Zenon, SMTT(60) DEF Gone, history
<1> QED
  BY <1>1, <1>2, <1>6, <1>7, <1>8, <1>9, FilesStay, Zenon

(* A step of delete other than a job: what it makes of its definition.     *)
DeleteMoved(w, d, s) ==
  /\ s \in DOMAIN DeletePlace \ JobSteps /\ Rank(w) = DeletePlace[s] /\ manifest[d] # "none"
  /\ \A f \in Files : disk'[f] = disk[f] \/ disk'[f] = Nobody
  /\ s \in FileSteps => disk'[FileOf(s, d)] # d
  /\ manifest'[d] = IF s = "attention" THEN "attention" ELSE IF s = "manifest" THEN "none" ELSE manifest[d]
  /\ d \in made' <=> d \in made /\ s # "manifest"
  /\ Target[d] \in enabled' => Target[d] \in enabled /\ s # "disable"
  /\ armed' = armed /\ mounted' = mounted /\ job' = job

(* Every step of delete is one of these.                                   *)
LEMMA MovingDelete ==
  ASSUME IInv, NEW w \in Workers, work[w].op = "delete",
         work[w].at <= Len(Steps(work[w].op, work[w].def)), Step(w) \notin JobSteps,
         Passes(w), Do(w), NEW d, d = work[w].def, NEW s, s = Step(w)
  PROVE  DeleteMoved(w, d, s)
<1>1. work[w].op # "idle" /\ work[w].op \in {"create", "delete"} /\ work[w].op # "create"
  OBVIOUS
<1>2. d \in Definitions /\ d # Nobody /\ HostTypes
  BY <1>1, OwnBefore, TypesAre, Zenon DEF IInv
<1>3. /\ s \in DOMAIN DeletePlace \ JobSteps /\ Rank(w) = DeletePlace[s]
      /\ s # "attention" => manifest[d] = "attention"
  BY <1>1, AtFileHolds, Zenon
<1>4. manifest[d] # "none"
  BY <1>3, PassesIs
<1>5. armed' = armed /\ mounted' = mounted /\ job' = job
  BY DoIs, Zenon
<1>6. CASE s \in FileSteps
  <2>1. PICK F : F = FileOf(s, d)
    OBVIOUS
  <2>2. FileTouched(w, d, F)
    BY <1>1, <1>6, <2>1, TouchingFile, Zenon
  <2>3. \A f \in Files : disk'[f] = disk[f] \/ disk'[f] = Nobody
    BY <1>1, <1>2, <2>2, Zenon DEF FileTouched, Passed
  <2>4. s # "attention" /\ s # "manifest" /\ s # "disable"
    BY <1>6 DEF FileSteps
  <2>5. manifest' = manifest /\ made' = made /\ enabled' = enabled /\ disk'[F] # d
    BY <2>2, Zenon DEF FileTouched
  <2> QED
    BY <1>3, <1>4, <1>5, <2>1, <2>3, <2>4, <2>5, SMTT(30), Zenon, SMTT(60) DEF DeleteMoved
<1>7. CASE s \in {"attention", "manifest"}
  <2>1. /\ manifest' = [manifest EXCEPT ![d] = IF s = "attention" THEN "attention" ELSE "none"]
        /\ made' = IF s = "attention" THEN made ELSE made \ {d}
        /\ disk' = disk /\ enabled' = enabled
    BY <1>1, <1>7, DoIs, SMTT(30)
  <2>2. manifest'[d] = IF s = "attention" THEN "attention" ELSE IF s = "manifest" THEN "none" ELSE manifest[d]
    BY <1>2, <1>7, <2>1 DEF HostTypes
  <2>3. s \notin FileSteps /\ s # "disable"
    BY <1>7, SMTT(30) DEF FileSteps
  <2> QED
    BY <1>3, <1>4, <1>5, <1>7, <2>1, <2>2, <2>3, SMTT(30), Zenon, SMTT(60) DEF DeleteMoved
<1>8. CASE s = "disable"
  <2>1. enabled' = enabled \ {Target[d]} /\ disk' = disk /\ manifest' = manifest /\ made' = made
    BY <1>8, DoIs, Zenon
  <2> QED
    BY <1>3, <1>4, <1>5, <1>8, <2>1, SMTT(30) DEF DeleteMoved, FileSteps
<1>9. CASE s \in {"reload", "list", "verify"}
  <2>1. disk' = disk /\ manifest' = manifest /\ made' = made /\ enabled' = enabled
    BY <1>9, DoIs
  <2> QED
    BY <1>3, <1>4, <1>5, <1>9, <2>1 DEF DeleteMoved, FileSteps
<1> QED
  BY <1>3, <1>6, <1>7, <1>8, <1>9, DeletePlaces, SMTT(30) DEF JobSteps, FileSteps

(* The steps of a delete.                                                  *)
LEMMA DeleteStepKeeps ==
  ASSUME IInv, NEW w \in Workers, work[w].op = "delete", StepSucceeds(w)
  PROVE  IInv'
<1>1. PICK d, s : d = work[w].def /\ s = Step(w)
  BY Zenon
<1>2. /\ work[w].op \in {"create", "mount", "unmount", "delete"} /\ work[w].op # "idle"
      /\ work[w].at <= Len(Steps(work[w].op, work[w].def)) /\ Step(w) \notin JobSteps /\ Passes(w) /\ Do(w)
      /\ used' = used /\ unnoted' = unnoted /\ cut' = cut /\ undone' = undone /\ deleted' = deleted
      /\ Moved(w, d)
  BY <1>1, SucceedingRecord, Zenon
<1>3. DeleteMoved(w, d, s)
  BY <1>1, <1>2, MovingDelete, ZenonT(30)
<1>4. /\ d \in Definitions /\ d # Nobody /\ d \in used /\ DeleteStands(w) /\ HostTypes
      /\ d \in made => disk[DirectoryOf(d)] \in {Nobody, d}
      /\ manifest[d] # "none" /\ disk[DirectoryOf(d)] = d => d \in made
      /\ d \notin deleted
  BY <1>1, <1>2, <1>3, OwnBefore, TypesAre, Zenon DEF IInv, Stands, Gone, DeleteMoved
<1>5. /\ Types' /\ work'[w].def = d /\ work'[w].op = work[w].op /\ ~work'[w].waits
      /\ (Creating(w)' <=> Creating(w)) /\ \A v \in Workers \ {w} : work'[v] = work[v]
      /\ Rank(w)' = IF Rank(w) = 6 /\ d \notin WithCredentials THEN 8 ELSE Rank(w) + 1
  BY <1>2, Zenon DEF Moved
<1>6. Touches(w)
  BY <1>1, <1>2, <1>5, DoTouches, Zenon
<1>7. /\ Rank(w) \in 1..12 /\ Rank(w) \notin {2, 3}
      /\ Rank(w) = 1 <=> s = "attention"
      /\ Rank(w) = 4 <=> s = "disable"
      /\ Rank(w) = 5 <=> s = "mount"
      /\ Rank(w) = 6 <=> s = "automount"
      /\ Rank(w) = 7 <=> s = "credentials"
      /\ Rank(w) = 11 <=> s = "directory"
      /\ Rank(w) = 12 <=> s = "manifest"
  BY <1>3, DeletePlaces DEF DeleteMoved, JobSteps
<1>8. /\ FileOf("mount", d) \in Files /\ FileOf("automount", d) \in Files /\ DirectoryOf(d) \in Files
      /\ d \in WithCredentials => FileOf("credentials", d) \in Files
      /\ DirectoryOf(d) = FileOf("directory", d)
  BY <1>4, TheFiles, Zenon DEF DirectoryOf
<1>9. /\ Rank(w) = 5 => disk'[FileOf("mount", d)] # d
      /\ Rank(w) = 6 => disk'[FileOf("automount", d)] # d
      /\ Rank(w) = 7 => disk'[FileOf("credentials", d)] # d
      /\ Rank(w) = 11 => disk'[DirectoryOf(d)] # d
      /\ \A f \in Files : disk[f] # d => disk'[f] # d
  BY <1>3, <1>4, <1>7, <1>8 DEF DeleteMoved, FileSteps
<1>10. /\ Rank(w)' > 5 => disk'[FileOf("mount", d)] # d
       /\ Rank(w)' > 6 => disk'[FileOf("automount", d)] # d
       /\ Rank(w)' > 7 /\ d \in WithCredentials => disk'[FileOf("credentials", d)] # d
       /\ Rank(w)' > 11 => disk'[DirectoryOf(d)] # d
  <2>1. /\ Rank(w) > 5 => disk[FileOf("mount", d)] # d
        /\ Rank(w) > 6 => disk[FileOf("automount", d)] # d
        /\ Rank(w) > 7 /\ d \in WithCredentials => disk[FileOf("credentials", d)] # d
        /\ Rank(w) > 11 => disk[DirectoryOf(d)] # d
    BY <1>1, <1>4, Zenon DEF DeleteStands
  <2>2. /\ Rank(w)' > 5 => Rank(w) > 5 \/ Rank(w) = 5
        /\ Rank(w)' > 6 => Rank(w) > 6 \/ Rank(w) = 6
        /\ Rank(w)' > 7 /\ d \in WithCredentials => Rank(w) > 7 \/ Rank(w) = 7
        /\ Rank(w)' > 11 => Rank(w) > 11 \/ Rank(w) = 11
    BY <1>5, <1>7
  <2> QED
    BY <1>8, <1>9, <2>1, <2>2, Zenon
<1>11. /\ Rank(w)' \in 3..13 => Target[d] \notin armed' /\ job'[Target[d]] # "start"
       /\ Rank(w)' \in 4..13 => Target[d] \notin mounted'
       /\ Rank(w)' \in 5..13 => Target[d] \notin enabled'
  <2>1. /\ Rank(w) \in 3..12 => Target[d] \notin armed /\ job[Target[d]] # "start"
        /\ Rank(w) \in 4..12 => Target[d] \notin mounted
        /\ Rank(w) \in 5..12 => Target[d] \notin enabled
    BY <1>1, <1>4, Zenon DEF DeleteStands
  <2>2. /\ armed' = armed /\ mounted' = mounted /\ job' = job
        /\ Target[d] \in enabled' => Target[d] \in enabled /\ s # "disable"
    BY <1>3, Zenon DEF DeleteMoved
  <2>3. /\ Rank(w)' \in 3..13 => Rank(w) \in 3..12
        /\ Rank(w)' \in 4..13 => Rank(w) \in 4..12
        /\ Rank(w)' \in 5..13 => Rank(w) \in 5..12 \/ s = "disable"
    BY <1>5, <1>7
  <2> QED
    BY <2>1, <2>2, <2>3, Zenon
<1>12. /\ Rank(w)' \in 2..12 => manifest'[d] = "attention"
       /\ Rank(w)' = 13 => manifest'[d] = "none"
  <2>1. Rank(w) \in 2..12 => manifest[d] = "attention"
    BY <1>1, <1>4, Zenon DEF DeleteStands
  <2>2. manifest'[d] = IF s = "attention" THEN "attention" ELSE IF s = "manifest" THEN "none" ELSE manifest[d]
    BY <1>3, Zenon DEF DeleteMoved
  <2>3. /\ Rank(w)' \in 2..12 => s = "attention" \/ (Rank(w) \in 2..12 /\ s # "manifest")
        /\ Rank(w)' = 13 => s = "manifest" /\ s # "attention"
    BY <1>5, <1>7
  <2> QED
    BY <2>1, <2>2, <2>3, Zenon
<1>13. Rank(w)' \in 2..13
  BY <1>5, <1>7
<1>14. DeleteStands(w)'
  <2>1. /\ Rank(w)' \in 3..12 => Target[d] \notin armed' /\ job'[Target[d]] # "start"
        /\ Rank(w)' \in 4..12 => Target[d] \notin mounted'
        /\ Rank(w)' \in 5..12 => Target[d] \notin enabled'
    BY <1>11
  <2>2. work'[w].def = d
    BY <1>5, Zenon
  <2> QED
    BY <1>10, <1>12, <2>1, <2>2, DeleteLift, ZenonT(30)
<1>15. Stands(w)' /\ ~Creating(w)
  <2>1. ~Creating(w) /\ ~Creating(w)' /\ work'[w].op \notin {"create", "rollback", "mount", "unmount"}
    BY <1>5 DEF Creating
  <2> QED
    BY <1>5, <1>14, <2>1, Zenon DEF Stands
<1>16. ASSUME manifest'[d] = "none"
       PROVE  \A f \in OwnFiles(d) : disk'[f] # d
  <2>1. Rank(w)' = 13
    BY <1>12, <1>13, <1>16
  <2>2. \A x \in FileSteps : (x = "credentials" => d \in WithCredentials) => disk'[FileOf(x, d)] # d
    BY <1>8, <1>10, <2>1 DEF FileSteps
  <2>3. ASSUME NEW f \in OwnFiles(d)
        PROVE  disk'[f] # d
    <3>1. PICK x \in FileSteps : f = FileOf(x, d) /\ (x = "credentials" => d \in WithCredentials)
      BY <1>4, TheFiles, Zenon
    <3> QED
      BY <2>2, <3>1
  <2> QED
    BY <2>3
<1>17. Rank(w)' = 13 => Gone(d)'
  <2>1. ASSUME Rank(w)' = 13
        PROVE  Gone(d)'
    <3>1. manifest'[d] = "none" /\ d \in used' /\ \A f \in OwnFiles(d) : disk'[f] # d
      BY <1>2, <1>4, <1>12, <1>16, <2>1, Zenon
    <3>2. Target[d] \notin enabled' \cup armed' \cup mounted' /\ job'[Target[d]] # "start"
      BY <1>11, <2>1
    <3> QED
      BY <3>1, <3>2, Zenon DEF Gone, Quiet, OwnFiles, UnitFiles, Credentials, FileOf
  <2> QED
    BY <2>1
<1>18. Kept(d)'
  <2>1. d \in made' => manifest'[d] # "none" /\ disk'[DirectoryOf(d)] \in {Nobody, d}
    BY <1>3, <1>4, <1>7, <1>8, SMTT(30), Zenon, SMTT(60) DEF DeleteMoved
  <2>2. manifest'[d] # "none" /\ disk'[DirectoryOf(d)] = d => d \in made'
    BY <1>3, <1>4, <1>8 DEF DeleteMoved
  <2>3. manifest'[d] # "active"
    BY <1>12, <1>13
  <2>4. d \notin deleted'
    BY <1>2, <1>4, Zenon
  <2> QED
    BY <1>1, <1>2, <1>6, <1>16, <1>17, <2>1, <2>2, <2>3, <2>4, OwnKept, Zenon
<1> QED
  BY <1>1, <1>2, <1>5, <1>6, <1>15, <1>18, OwnConcern, Zenon

(* The steps in a list of them.                                            *)
Elements(s) == {s[i] : i \in 1..Len(s)}

(* One more step is noted, after all that were noted before.               *)
LEMMA Noting ==
  ASSUME NEW u \in Seq(UndoSteps), NEW s \in UndoSteps, InOrder(u),
         \A i \in 1..Len(u) : CreatePlace[u[i]] < CreatePlace[s],
         NEW v, v = Append(u, s)
  PROVE  /\ InOrder(v) /\ v # u
         /\ Elements(v) = Elements(u) \cup {s}
<1>1. /\ v \in Seq(UndoSteps) /\ Len(v) = Len(u) + 1 /\ Len(u) \in Nat /\ v[Len(u) + 1] = s
      /\ \A i \in 1..Len(u) : v[i] = u[i]
  OBVIOUS
<1>2. v # u
  BY <1>1
<1>3. \A i \in 1..Len(u) : CreatePlace[u[i]] < CreatePlace[s]
  OBVIOUS
<1>4. InOrder(v)
  <2> SUFFICES ASSUME NEW i \in 1..Len(v), NEW j \in 1..Len(v), i < j
               PROVE  CreatePlace[v[i]] < CreatePlace[v[j]]
    BY Zenon DEF InOrder
  <2>1. CASE j = Len(u) + 1
    <3>1. i \in 1..Len(u)
      BY <1>1, <2>1
    <3> QED
      BY <1>1, <1>3, <2>1, <3>1
  <2>2. CASE j # Len(u) + 1
    <3>1. i \in 1..Len(u) /\ j \in 1..Len(u)
      BY <1>1, <2>2
    <3> QED
      BY <1>1, <3>1 DEF InOrder
  <2> QED
    BY <2>1, <2>2
<1>5. Elements(v) = Elements(u) \cup {s}
  <2>1. 1..Len(v) = (1..Len(u)) \cup {Len(u) + 1}
    BY <1>1
  <2> QED
    BY <1>1, <2>1 DEF Elements
<1> QED
  BY <1>2, <1>4, <1>5

(* What create notes of a step: the step, unless it has no effect to undo. *)
NotedWell(w, d, s) ==
  /\ InOrder(work'[w].undo)
  /\ Undos(w) \subseteq Undos(w)' /\ Undos(w)' \subseteq Undos(w) \cup {s}
  /\ s \in Undos(w)' =>
       s \notin {"list", "verify"} /\ (s = "directory" => disk[DirectoryOf(d)] = Nobody)
  /\ s \notin {"list", "verify"} /\ (s = "directory" => disk[DirectoryOf(d)] = Nobody)
       => s \in Undos(w)'
  /\ work'[w].new <=> work[w].new \/ (s = "directory" /\ disk[DirectoryOf(d)] = Nobody)

(* Every step that create takes is noted so.                               *)
LEMMA NotingStep ==
  ASSUME IInv, NEW w \in Workers, work[w].op = "create",
         work[w].at <= Len(Steps(work[w].op, work[w].def)),
         NEW d, d = work[w].def, NEW s, s = Step(w), work'[w].undo = Noted(w),
         work'[w].new = (work[w].new \/ (Step(w) = "directory" /\ Noted(w) # work[w].undo))
  PROVE  NotedWell(w, d, s)
<1>1. PICK u \in Seq(UndoSteps) : u = work[w].undo
  BY TypesAre, SMTT(30) DEF IInv, WorkRecords
<1>2. /\ work[w].op \in {"create", "delete"} /\ work[w].op # "idle"
      /\ Creating(w) /\ s \in DOMAIN CreatePlace /\ Rank(w) = CreatePlace[s]
  BY AtFileHolds, SMTT(30)
<1>3. CreateStands(w)
  BY <1>2, OwnBefore, Zenon DEF Stands
<1>4. InOrder(u) /\ \A x \in Undos(w) : CreatePlace[x] < CreatePlace[s]
  BY <1>1, <1>2, <1>3, Zenon DEF CreateStands
<1>5. Undos(w) = Elements(u)
  BY <1>1, Zenon DEF Undos, Elements
<1>6. s \notin Undos(w)
  <2>1. CreatePlace[s] \in Nat
    BY <1>2, CreatePlaces
  <2> QED
    BY <1>4, <2>1
<1>7. Noted(w) = IF s \in {"list", "verify"} \/ (s = "directory" /\ disk[DirectoryOf(d)] # Nobody)
                 THEN u ELSE Append(u, s)
  BY <1>1, SMTT(30) DEF Noted, DirectoryOf
<1>8. CASE s \in {"list", "verify"} \/ (s = "directory" /\ disk[DirectoryOf(d)] # Nobody)
  <2>1. work'[w].undo = u /\ Noted(w) = u
    BY <1>7, <1>8
  <2>2. Undos(w)' = Undos(w)
    BY <1>1, <2>1, Zenon DEF Undos
  <2> QED
    BY <1>1, <1>4, <1>6, <1>8, <2>1, <2>2, Zenon DEF NotedWell
<1>9. CASE ~(s \in {"list", "verify"} \/ (s = "directory" /\ disk[DirectoryOf(d)] # Nobody))
  <2>1. PICK v : v = Append(u, s)
    BY Zenon
  <2>2. work'[w].undo = v /\ Noted(w) = v
    BY <1>7, <1>9, <2>1
  <2>3. s \in UndoSteps
    BY <1>2, <1>9, CreatePlaces DEF UndoSteps
  <2>4. InOrder(v) /\ v # u /\ Elements(v) = Undos(w) \cup {s}
    <3>1. \A i \in 1..Len(u) : CreatePlace[u[i]] < CreatePlace[s]
      BY <1>4, <1>5 DEF Elements
    <3>2. InOrder(v) /\ v # u /\ Elements(v) = Elements(u) \cup {s}
      BY <1>4, <2>1, <2>3, <3>1, Noting, Zenon
    <3> QED
      BY <1>5, <3>2, Zenon
  <2>5. Undos(w)' = Undos(w) \cup {s}
    <3>1. Undos(w)' = Elements(v)
      BY <2>2, Zenon DEF Undos, Elements
    <3> QED
      BY <2>4, <3>1
  <2> QED
    BY <1>1, <1>9, <2>2, <2>4, <2>5, Zenon DEF NotedWell
<1> QED
  BY <1>8, <1>9

(* What a step of create makes of its definition.                          *)
CreateMoved(w, d, s) ==
  /\ s \in DOMAIN CreatePlace \ JobSteps /\ Rank(w) = CreatePlace[s]
  /\ s = "credentials" => d \in WithCredentials
  /\ \A f \in Files : \/ disk'[f] = disk[f]
                      \/ s \in FileSteps /\ f = FileOf(s, d) /\ disk[f] = Nobody /\ disk'[f] = d
  /\ s \in FileSteps =>
       /\ disk'[FileOf(s, d)] # Nobody
       /\ disk[FileOf(s, d)] = Nobody \/ s # "directory" => disk'[FileOf(s, d)] = d
  /\ manifest'[d] = IF s = "manifest" THEN "active" ELSE manifest[d]
  /\ d \in made' <=> IF s = "manifest" THEN work[w].new ELSE d \in made
  /\ \A e \in Definitions \ {d} : manifest'[e] = manifest[e]

(* Every step of create is one of these.                                   *)
LEMMA MovingCreate ==
  ASSUME IInv, NEW w \in Workers, work[w].op = "create",
         work[w].at <= Len(Steps(work[w].op, work[w].def)), Step(w) \notin JobSteps,
         Passes(w), Do(w), NEW d, d = work[w].def, NEW s, s = Step(w)
  PROVE  CreateMoved(w, d, s)
<1>1. work[w].op # "idle" /\ work[w].op \in {"create", "delete"}
  OBVIOUS
<1>2. d \in Definitions /\ d # Nobody /\ HostTypes
  BY <1>1, OwnBefore, TypesAre, Zenon DEF IInv
<1>3. /\ s \in DOMAIN CreatePlace \ JobSteps /\ Rank(w) = CreatePlace[s]
      /\ s = "credentials" => d \in WithCredentials
  BY <1>1, AtFileHolds, Zenon
<1>4. CASE s \in FileSteps
  <2>1. PICK F : F = FileOf(s, d)
    OBVIOUS
  <2>2. FileTouched(w, d, F)
    BY <1>1, <1>4, <2>1, TouchingFile, Zenon
  <2>3. /\ F \in Files /\ \A f \in Files : f # F => disk'[f] = disk[f]
        /\ disk'[F] # Nobody
        /\ disk[F] = Nobody => disk'[F] = d
        /\ disk[F] # Nobody => disk'[F] = disk[F]
        /\ F # DirectoryOf(d) => disk'[F] = d
        /\ manifest' = manifest /\ made' = made
    BY <2>2, Zenon DEF FileTouched
  <2>4. s # "manifest" /\ (s # "directory" => F # DirectoryOf(d))
    BY <1>4, <2>1 DEF FileSteps, DirectoryOf, FileOf
  <2>5. \A f \in Files : \/ disk'[f] = disk[f]
                         \/ s \in FileSteps /\ f = FileOf(s, d) /\ disk[f] = Nobody /\ disk'[f] = d
    BY <1>4, <2>1, <2>3, Zenon
  <2>6. /\ disk'[FileOf(s, d)] # Nobody
        /\ disk[FileOf(s, d)] = Nobody \/ s # "directory" => disk'[FileOf(s, d)] = d
    BY <2>1, <2>3, <2>4, Zenon
  <2> QED
    BY <1>3, <2>3, <2>4, <2>5, <2>6, ZenonT(30) DEF CreateMoved
<1>5. CASE s = "manifest"
  <2>1. /\ manifest' = [manifest EXCEPT ![d] = "active"]
        /\ made' = IF work[w].new THEN made \cup {d} ELSE made \ {d}
        /\ disk' = disk
    BY <1>1, <1>5, DoIs, Zenon
  <2>2. manifest'[d] = "active" /\ \A e \in Definitions \ {d} : manifest'[e] = manifest[e]
    BY <1>2, <2>1 DEF HostTypes
  <2>3. (d \in made' <=> work[w].new) /\ s \notin FileSteps
    BY <1>5, <2>1 DEF FileSteps
  <2> QED
    BY <1>3, <1>5, <2>1, <2>2, <2>3, ZenonT(30) DEF CreateMoved
<1>6. CASE s \in {"enable", "reload", "list", "verify"}
  <2>1. disk' = disk /\ manifest' = manifest /\ made' = made
    BY <1>6, DoIs
  <2>2. s \notin FileSteps /\ s # "manifest"
    BY <1>6 DEF FileSteps
  <2> QED
    BY <1>3, <2>1, <2>2, Zenon DEF CreateMoved
<1> QED
  BY <1>3, <1>4, <1>5, <1>6, CreatePlaces, SMTT(30), Zenon, SMTT(60) DEF JobSteps, FileSteps

(* A file of the definition stays its own, and only the file of the step   *)
(* is new.                                                                 *)
FilesGrow(d, s) ==
  /\ \A x \in FileSteps : (x = "credentials" => d \in WithCredentials) =>
       /\ disk[FileOf(x, d)] \in Left(d) => disk'[FileOf(x, d)] \in Left(d)
       /\ disk[FileOf(x, d)] # Nobody => disk'[FileOf(x, d)] # Nobody
       /\ disk'[FileOf(x, d)] = disk[FileOf(x, d)]
            \/ (x = s /\ disk[FileOf(x, d)] = Nobody /\ disk'[FileOf(x, d)] = d)
  /\ \/ disk'[DirectoryOf(d)] = disk[DirectoryOf(d)]
     \/ s = "directory" /\ disk[DirectoryOf(d)] = Nobody /\ disk'[DirectoryOf(d)] = d

(* The files of a definition that a create is at work on.                  *)
LEMMA CreateFiles ==
  ASSUME NEW w \in Workers, NEW d \in Definitions, d # Nobody, NEW s, CreateMoved(w, d, s)
  PROVE  FilesGrow(d, s)
<1>1. ASSUME NEW x \in FileSteps, x = "credentials" => d \in WithCredentials
      PROVE  disk'[FileOf(x, d)] = disk[FileOf(x, d)]
               \/ (x = s /\ disk[FileOf(x, d)] = Nobody /\ disk'[FileOf(x, d)] = d)
  <2>1. FileOf(x, d) \in Files
    BY <1>1, TheFiles, Zenon
  <2>2. FileOf(x, d) = FileOf(s, d) => x = s
    BY DifferentFiles, Zenon
  <2> QED
    BY <2>1, <2>2, Zenon DEF CreateMoved
<1>2. \A x \in FileSteps : (x = "credentials" => d \in WithCredentials) =>
              /\ disk[FileOf(x, d)] \in Left(d) => disk'[FileOf(x, d)] \in Left(d)
              /\ disk[FileOf(x, d)] # Nobody => disk'[FileOf(x, d)] # Nobody
  <2>1. d \in Left(d)
    BY DEF Left
  <2> QED
    BY <1>1, <2>1, Zenon
<1>3. \/ disk'[DirectoryOf(d)] = disk[DirectoryOf(d)]
      \/ s = "directory" /\ disk[DirectoryOf(d)] = Nobody /\ disk'[DirectoryOf(d)] = d
  <2>1. "directory" \in FileSteps /\ "directory" # "credentials"
    BY DEF FileSteps
  <2> QED
    BY <1>1, <2>1, Zenon DEF DirectoryOf
<1> QED
  BY <1>1, <1>2, <1>3, Zenon DEF FilesGrow

(* A step of create, once noted, leaves its worker in order.               *)
LEMMA CreateGoesOn ==
  ASSUME IInv, NEW w \in Workers, work[w].op = "create", StepSucceeds(w),
         NEW d, d = work[w].def, NEW s, s = Step(w)
  PROVE  /\ Touches(w) /\ Types' /\ Creating(w) /\ Creating(w)' /\ work'[w].op = "create"
         /\ work'[w].def = d /\ ~work'[w].waits
         /\ CreateStands(w)' /\ ForwardStands(w)'
<1>1. /\ work[w].op \in {"create", "mount", "unmount", "delete"} /\ work[w].op # "idle"
      /\ work[w].at <= Len(Steps(work[w].op, work[w].def)) /\ Step(w) \notin JobSteps /\ Passes(w) /\ Do(w)
      /\ used' = used /\ unnoted' = unnoted /\ cut' = cut /\ undone' = undone /\ deleted' = deleted
      /\ Moved(w, d)
      /\ work'[w].undo = Noted(w) /\ work'[w].seen = Listing(w).seen
      /\ work'[w].new = (work[w].new \/ (Step(w) = "directory" /\ Noted(w) # work[w].undo))
  BY SucceedingRecord, Zenon
<1>2. CreateMoved(w, d, s)
  BY <1>1, MovingCreate, Zenon
<1>3. NotedWell(w, d, s)
  BY <1>1, NotingStep, ZenonT(30)
<1>4. /\ d \in Definitions /\ d # Nobody /\ Stands(w) /\ Creating(w)
  BY <1>1, OwnBefore DEF Creating
<1>5. /\ Types' /\ work'[w].def = d /\ work'[w].op = work[w].op /\ ~work'[w].waits
      /\ (Creating(w)' <=> Creating(w)) /\ \A v \in Workers \ {w} : work'[v] = work[v]
      /\ Rank(w)' = IF Rank(w) = 3 /\ d \notin WithCredentials THEN 5 ELSE Rank(w) + 1
      /\ work'[w].bad = work[w].bad
  BY <1>1, <1>4, Zenon DEF Moved
<1>6. Touches(w)
  BY <1>1, <1>5, DoTouches, Zenon
<1>7. CreateStands(w) /\ ForwardStands(w)
  BY <1>4, Zenon DEF Stands
<1>8. /\ s \in DOMAIN CreatePlace \ JobSteps /\ Rank(w) = CreatePlace[s]
      /\ s = "credentials" => d \in WithCredentials
      /\ manifest'[d] = IF s = "manifest" THEN "active" ELSE manifest[d]
      /\ d \in made' <=> IF s = "manifest" THEN work[w].new ELSE d \in made
      /\ \A e \in Definitions \ {d} : manifest'[e] = manifest[e]
  BY <1>2, ZenonT(30) DEF CreateMoved
<1>9. /\ Rank(w) \in 1..9 /\ Rank(w) < Rank(w)' /\ Rank(w)' \in 2..10
      /\ Rank(w) = 1 <=> s = "list"
      /\ Rank(w) = 2 <=> s = "verify"
      /\ Rank(w) = 3 <=> s = "directory"
      /\ Rank(w) = 7 <=> s = "manifest"
      /\ Rank(w)' = 2 <=> s = "list"
      /\ Rank(w)' = 3 <=> s = "verify"
      /\ Rank(w)' > 3 <=> Rank(w) > 2
      /\ Rank(w)' <= 7 <=> Rank(w) < 7
  BY <1>5, <1>8, CreatePlaces DEF JobSteps
<1>10. /\ InOrder(work'[w].undo)
       /\ Undos(w) \subseteq Undos(w)' /\ Undos(w)' \subseteq Undos(w) \cup {s}
       /\ s \in Undos(w)' =>
            s \notin {"list", "verify"} /\ (s = "directory" => disk[DirectoryOf(d)] = Nobody)
       /\ s \notin {"list", "verify"} /\ (s = "directory" => disk[DirectoryOf(d)] = Nobody)
            => s \in Undos(w)'
       /\ work'[w].new <=> work[w].new \/ (s = "directory" /\ disk[DirectoryOf(d)] = Nobody)
  BY <1>3, Zenon DEF NotedWell
<1>11. /\ \A x \in FileSteps : (x = "credentials" => d \in WithCredentials) =>
            /\ disk[FileOf(x, d)] \in Left(d) => disk'[FileOf(x, d)] \in Left(d)
            /\ disk[FileOf(x, d)] # Nobody => disk'[FileOf(x, d)] # Nobody
            /\ disk'[FileOf(x, d)] = disk[FileOf(x, d)]
                 \/ (x = s /\ disk[FileOf(x, d)] = Nobody /\ disk'[FileOf(x, d)] = d)
       /\ \/ disk'[DirectoryOf(d)] = disk[DirectoryOf(d)]
          \/ s = "directory" /\ disk[DirectoryOf(d)] = Nobody /\ disk'[DirectoryOf(d)] = d
  <2>1. FilesGrow(d, s)
    BY <1>2, <1>4, CreateFiles, Zenon
  <2> QED
    BY <2>1, Zenon DEF FilesGrow
<1>12. Rank(w)' > 2 => \A e \in Definitions \ {d} : Target[e] = Target[d] => manifest'[e] = "none"
  <2>1. CASE s = "list"
    BY <1>9, <2>1
  <2>2. CASE s = "verify"
    <3>1. \A e \in work[w].seen : e # d => Target[e] # Target[d]
      <4>1. Passes(w)
        BY <1>1
      <4>2. ~Conflict(w, d)
        BY <2>2, <4>1, SMTT(30), Zenon, SMTT(60) DEF Passes
      <4> QED
        BY <4>2, Zenon DEF Conflict
    <3>2. \A e \in Definitions : manifest[e] # "none" => e \in work[w].seen
      BY <1>7, <1>9, <2>2, SMTT(30), Zenon, SMTT(60) DEF ForwardStands
    <3> QED
      BY <1>8, <3>1, <3>2, Zenon
  <2>3. CASE s \notin {"list", "verify"}
    <3>1. Rank(w) > 2
      BY <1>9, <2>3
    <3>2. Alone(d)
      BY <1>7, <3>1, ZenonT(30) DEF CreateStands
    <3> QED
      BY <1>8, <3>2, Zenon DEF Alone
  <2> QED
    BY <2>1, <2>2, <2>3, SMTT(30), Zenon, SMTT(60)
<1>13. /\ \A x \in Undos(w) :
            /\ CreatePlace[x] < Rank(w) /\ (x = "credentials" => d \in WithCredentials)
            /\ x \in FileSteps => disk[FileOf(x, d)] \in Left(d)
       /\ "directory" \in Undos(w) => work[w].new
       /\ work[w].new => disk[DirectoryOf(d)] \in {Nobody, d} /\ Rank(w) > 3
       /\ ~work[w].new => disk[DirectoryOf(d)] # d
       /\ d \in made <=> work[w].new /\ manifest[d] # "none"
       /\ manifest[d] # "attention"
  BY <1>7 DEF CreateStands
<1>14. /\ manifest[d] = IF Rank(w) <= 7 THEN "none" ELSE "active"
       /\ Rank(w) > 7 => "manifest" \in Undos(w)
       /\ \A x \in FileSteps :
            CreatePlace[x] < Rank(w) /\ (x = "credentials" => d \in WithCredentials)
              => disk[FileOf(x, d)] # Nobody
       /\ \A f \in OwnFiles(d) : disk[f] = d => \E x \in Undos(w) : f = FileOf(x, d)
       /\ ~work[w].bad
  BY <1>7, ZenonT(30) DEF ForwardStands
<1>15. \A x \in Undos(w)' :
         /\ CreatePlace[x] < Rank(w)' /\ (x = "credentials" => d \in WithCredentials)
         /\ x \in FileSteps => disk'[FileOf(x, d)] \in Left(d)
  <2>1. ASSUME NEW x \in Undos(w)
        PROVE  /\ CreatePlace[x] < Rank(w)' /\ (x = "credentials" => d \in WithCredentials)
               /\ x \in FileSteps => disk'[FileOf(x, d)] \in Left(d)
    <3>1. CreatePlace[x] < Rank(w) /\ CreatePlace[x] \in Nat
      <4>1. x \in UndoSteps
        BY UndosAreSteps, Zenon
      <4> QED
        BY <1>13, <4>1, CreatePlaces DEF UndoSteps
    <3>2. CreatePlace[x] < Rank(w)'
      BY <1>9, <3>1
    <3> QED
      BY <1>11, <1>13, <3>2, Zenon
  <2>2. s \in FileSteps =>
          (disk[FileOf(s, d)] = Nobody \/ s # "directory" => disk'[FileOf(s, d)] = d)
    BY <1>2, ZenonT(30) DEF CreateMoved
  <2>3. s \in Undos(w)' =>
          /\ CreatePlace[s] < Rank(w)' /\ (s = "credentials" => d \in WithCredentials)
          /\ s \in FileSteps => disk'[FileOf(s, d)] \in Left(d)
    <3>1. d \in Left(d)
      BY DEF Left
    <3> QED
      BY <1>8, <1>9, <1>10, <2>2, <3>1, ZenonT(30) DEF DirectoryOf
  <2> QED
    BY <1>10, <2>1, <2>3
<1>16. "directory" \in Undos(w)' => work'[w].new
  BY <1>10, <1>13, Zenon
<1>17. work'[w].new => disk'[DirectoryOf(d)] \in {Nobody, d} /\ Rank(w)' > 3
  <2>1. work'[w].new => disk'[DirectoryOf(d)] \in {Nobody, d}
    BY <1>10, <1>11, <1>13, Zenon
  <2>2. work'[w].new => (work[w].new /\ Rank(w) > 3) \/ s = "directory"
    BY <1>10, <1>13, Zenon
  <2>3. (work[w].new /\ Rank(w) > 3) \/ s = "directory" => Rank(w)' > 3
    BY <1>9, SMTT(30), Zenon, SMTT(60)
  <2> QED
    BY <2>1, <2>2, <2>3, Zenon
<1>18. ~(~work'[w].new /\ disk'[DirectoryOf(d)] = d)
  BY <1>10, <1>11, <1>13, SMTT(30), Zenon, SMTT(60)
<1>19. ~work'[w].bad
  BY <1>5, <1>14, SMTT(30), Zenon, SMTT(60)
<1>20. d \in made' <=> work'[w].new /\ manifest'[d] # "none"
  <2>1. d \in made <=> work[w].new /\ manifest[d] # "none"
    BY <1>13, Zenon
  <2>2. /\ manifest'[d] = IF s = "manifest" THEN "active" ELSE manifest[d]
        /\ d \in made' <=> IF s = "manifest" THEN work[w].new ELSE d \in made
    BY <1>8, Zenon
  <2>3. work'[w].new <=> work[w].new \/ (s = "directory" /\ disk[DirectoryOf(d)] = Nobody)
    BY <1>10, Zenon
  <2>4. manifest[d] = IF Rank(w) <= 7 THEN "none" ELSE "active"
    BY <1>14, Zenon
  <2>5. CASE s = "directory"
    <3>1. manifest[d] = "none"
      BY <1>9, <2>4, <2>5, SMTT(30), Zenon, SMTT(60)
    <3> QED
      BY <2>1, <2>2, <2>5, <3>1, SMTT(30), Zenon, SMTT(60)
  <2>6. CASE s # "directory"
    BY <2>1, <2>2, <2>3, <2>6, SMTT(30), Zenon, SMTT(60)
  <2> QED
    BY <2>5, <2>6
<1>21. manifest'[d] # "attention"
  BY <1>8, <1>13
<1>22. CreateStands(w)'
  BY <1>5, <1>10, <1>12, <1>15, <1>16, <1>17, <1>18, <1>19, <1>20, <1>21, CreateLift, Zenon
<1>23. Rank(w)' = 2 => \A e \in Definitions : manifest'[e] # "none" => e \in work'[w].seen
  <2>1. ASSUME s = "list"
        PROVE  work'[w].seen = {e \in Definitions : manifest[e] # "none"} /\ manifest' = manifest
    BY <1>1, <2>1, DoIs, Zenon DEF Listing
  <2> QED
    BY <1>9, <2>1
<1>24. manifest'[d] = IF Rank(w)' <= 7 THEN "none" ELSE "active"
  <2>1. /\ manifest'[d] = IF s = "manifest" THEN "active" ELSE manifest[d]
        /\ manifest[d] = IF Rank(w) <= 7 THEN "none" ELSE "active"
    BY <1>8, <1>14, Zenon
  <2>2. Rank(w) = 7 <=> s = "manifest"
    BY <1>9
  <2>3. Rank(w)' <= 7 <=> Rank(w) < 7
    BY <1>9
  <2>4. Rank(w) \in 1..9
    BY <1>9, SMTT(30), Zenon, SMTT(60)
  <2> QED
    BY <2>1, <2>2, <2>3, <2>4, SMTT(30), Zenon, SMTT(60)
<1>25. Rank(w)' > 7 => "manifest" \in Undos(w)'
  <2>1. s = "manifest" => "manifest" \in Undos(w)'
    BY <1>10, SMTT(30), Zenon, SMTT(60)
  <2> QED
    BY <1>9, <1>10, <1>14, <2>1, SMTT(30), Zenon, SMTT(60)
<1>26. \A x \in FileSteps :
         CreatePlace[x] < Rank(w)' /\ (x = "credentials" => d \in WithCredentials)
           => disk'[FileOf(x, d)] # Nobody
  <2> SUFFICES ASSUME NEW x \in FileSteps, CreatePlace[x] < Rank(w)', x = "credentials" => d \in WithCredentials
               PROVE  disk'[FileOf(x, d)] # Nobody
    BY Zenon
  <2>1. CASE CreatePlace[x] < Rank(w)
    BY <1>11, <1>14, <2>1, Zenon
  <2>2. CASE ~(CreatePlace[x] < Rank(w))
    <3>1. x = s
      <4>1. /\ CreatePlace[x] \in 3..6 /\ (CreatePlace[x] = 4 <=> x = "credentials")
            /\ \A y \in DOMAIN CreatePlace : CreatePlace[y] = CreatePlace[x] => y = x
        BY CreatePlaces DEF FileSteps
      <4>2. /\ Rank(w) = CreatePlace[s] /\ s \in DOMAIN CreatePlace
            /\ Rank(w)' = IF Rank(w) = 3 /\ d \notin WithCredentials THEN 5 ELSE Rank(w) + 1
        BY <1>5, <1>8, Zenon
      <4>3. Rank(w) \in 1..9
        BY <1>9, Zenon
      <4>4. CreatePlace[x] = Rank(w)
        BY <2>2, <4>1, <4>2, <4>3, SMTT(30), Zenon, SMTT(60)
      <4> QED
        BY <4>1, <4>2, <4>4, ZenonT(30)
    <3> QED
      BY <1>2, <3>1, Zenon DEF CreateMoved
  <2> QED
    BY <2>1, <2>2
<1>27. \A f \in OwnFiles(d) : disk'[f] = d => \E x \in Undos(w)' : f = FileOf(x, d)
  <2> SUFFICES ASSUME NEW f \in OwnFiles(d), disk'[f] = d
               PROVE  \E x \in Undos(w)' : f = FileOf(x, d)
    BY Zenon
  <2>1. CASE disk[f] = d
    <3>1. PICK x \in Undos(w) : f = FileOf(x, d)
      BY <1>14, <2>1, Zenon
    <3> QED
      BY <1>10, <3>1
  <2>2. CASE disk[f] # d
    <3>1. f \in Files
      BY <1>4, TheFiles
    <3>2. s \in FileSteps /\ f = FileOf(s, d) /\ disk[f] = Nobody
      BY <1>2, <2>2, <3>1, ZenonT(30) DEF CreateMoved
    <3>3. s \in Undos(w)'
      BY <1>10, <3>2 DEF FileSteps, DirectoryOf
    <3> QED
      BY <3>2, <3>3, SMTT(30), Zenon, SMTT(60)
  <2> QED
    BY <2>1, <2>2
<1>28. ForwardStands(w)'
  BY <1>5, <1>19, <1>23, <1>24, <1>25, <1>26, <1>27, ForwardLift, Zenon
<1> QED
  BY <1>4, <1>5, <1>6, <1>22, <1>28, Zenon

(* The steps of a create.                                                  *)
LEMMA CreateStepKeeps ==
  ASSUME IInv, NEW w \in Workers, work[w].op = "create", StepSucceeds(w)
  PROVE  IInv'
<1>1. PICK d, s : d = work[w].def /\ s = Step(w)
  BY Zenon
<1>2. /\ Touches(w) /\ Types' /\ Creating(w) /\ Creating(w)' /\ work'[w].op = "create"
      /\ work'[w].def = d /\ ~work'[w].waits /\ CreateStands(w)' /\ ForwardStands(w)'
  BY <1>1, CreateGoesOn, Zenon
<1>3. work[w].op # "idle" /\ deleted' = deleted
  BY <1>1, SucceedingRecord, Zenon
<1>4. d \in Definitions /\ d \notin deleted'
  BY <1>1, <1>2, <1>3, OwnBefore, Zenon
<1>5. Stands(w)'
  <2>1. work'[w].op \notin {"rollback", "mount", "unmount", "delete"}
    BY <1>2, SMTT(30)
  <2> QED
    BY <1>2, <2>1, ZenonT(30) DEF Stands
<1>6. /\ work'[w].new => disk'[DirectoryOf(d)] \in {Nobody, d}
      /\ ~work'[w].new => disk'[DirectoryOf(d)] # d
      /\ d \in made' <=> work'[w].new /\ manifest'[d] # "none"
  <2>1. /\ work'[w].new => disk'[DirectoryOf(d)] \in {Nobody, d}
        /\ ~work'[w].new /\ disk'[DirectoryOf(d)] = d => work'[w].op = "rollback"
        /\ d \in made' <=> work'[w].new /\ manifest'[d] # "none"
    BY <1>2, Zenon DEF CreateStands, DirectoryOf, FileOf
  <2> QED
    BY <1>2, <2>1
<1>7. manifest'[d] = "active" => \A f \in OwnFiles(d) : disk'[f] # Nobody
  <2> SUFFICES ASSUME manifest'[d] = "active", NEW f \in OwnFiles(d)
               PROVE  disk'[f] # Nobody
    BY Zenon
  <2>1. /\ manifest'[d] = IF Rank(w)' <= 7 THEN "none" ELSE "active"
        /\ \A x \in FileSteps :
             CreatePlace[x] < Rank(w)' /\ (x = "credentials" => d \in WithCredentials)
               => disk'[FileOf(x, d)] # Nobody
    BY <1>2, Zenon DEF ForwardStands, FileOf
  <2>2. PICK x \in FileSteps : f = FileOf(x, d) /\ (x = "credentials" => d \in WithCredentials)
    BY <1>4, TheFiles, Zenon
  <2>3. ~(Rank(w)' <= 7) /\ Rank(w)' \in Int
    <3>1. Rank(w)' = CreateRank(d, work'[w].at) /\ work'[w].at \in Int
      <4>1. work'[w].at \in Int
        BY <1>2 DEF Types, WorkRecords
      <4> QED
        BY <1>2, <4>1, ZenonT(30) DEF Rank, CreateRank
    <3> QED
      BY <2>1, <3>1 DEF CreateRank
  <2>4. CreatePlace[x] < Rank(w)'
    BY <2>3, CreatePlaces DEF FileSteps
  <2> QED
    BY <2>1, <2>2, <2>4
<1>8. Kept(d)'
  <2>1. work'[w].op # "delete"
    BY <1>2
  <2> QED
    BY <1>1, <1>2, <1>3, <1>4, <1>6, <1>7, <2>1, OwnKept, Zenon
<1> QED
  BY <1>1, <1>2, <1>3, <1>5, <1>8, OwnConcern, Zenon

(* A step that takes effect but fails is not noted: rollback cannot know.  *)
LEMMA StepHalfDoneKeeps ==
  ASSUME IInv, NEW w \in Workers, StepHalfDone(w)
  PROVE  IInv'
<1>1. PICK d, s : d = work[w].def /\ s = Step(w)
  BY Zenon
<1>2. /\ work[w].op = "create" /\ work[w].op # "idle" /\ ~work[w].waits
      /\ work[w].op \in {"create", "mount", "unmount", "delete"}
      /\ work[w].at <= Len(Steps(work[w].op, work[w].def))
      /\ s \in FileSteps \cup {"manifest"} /\ Passes(w) /\ Do(w) /\ Fault
      /\ used' = used /\ cut' = cut /\ undone' = undone /\ deleted' = deleted
      /\ unnoted' = unnoted \cup {d}
  BY <1>1, SMTT(30), Zenon, SMTT(60) DEF StepHalfDone, AtStep
<1>3. HostTypes' /\ Step(w) \notin JobSteps
  <2>1. HostTypes'
    BY <1>2, DoTypes, Zenon
  <2> QED
    BY <1>1, <1>2, <2>1 DEF FileSteps, JobSteps
<1>4. /\ d \in Definitions /\ d # Nobody /\ Stands(w) /\ d \notin deleted /\ HostTypes
      /\ work \in [Workers -> WorkRecords]
  <2>1. d \in Definitions /\ d # Nobody /\ Stands(w) /\ (d \in deleted => ~Creating(w))
    BY <1>1, <1>2, OwnBefore, Zenon
  <2> QED
    BY <1>2, <2>1, TypesAre, SMTT(30), Zenon, SMTT(60) DEF IInv, Creating
<1>5. PICK k : k = [work[w] EXCEPT !.op = "rollback", !.waits = FALSE]
  OBVIOUS
<1>6. work' = [work EXCEPT ![w] = k]
  <2>1. work' = [work EXCEPT ![w].op = "rollback", ![w].waits = FALSE]
    BY <1>2 DEF StepHalfDone, GiveUp
  <2> QED
    BY <1>4, <1>5, <2>1, Zenon
<1>7. /\ k \in WorkRecords /\ k.op = "rollback" /\ k.def = d /\ k.at = work[w].at /\ ~k.waits
      /\ k.undo = work[w].undo /\ k.seen = work[w].seen /\ k.active = work[w].active
      /\ k.new = work[w].new /\ k.bad = work[w].bad
  BY <1>1, <1>4, <1>5, ZenonT(30) DEF WorkRecords
<1>8. /\ Types' /\ Creating(w) /\ Creating(w)' /\ work'[w].def = d /\ work'[w].op = "rollback"
      /\ Rank(w)' = Rank(w) /\ Undos(w)' = Undos(w) /\ work'[w] = k
      /\ \A v \in Workers \ {w} : work'[v] = work[v]
  BY <1>1, <1>2, <1>3, <1>6, <1>7, TurningBack, Zenon
<1>9. /\ work'[w].undo = work[w].undo /\ work'[w].new = work[w].new /\ work'[w].bad = work[w].bad
      /\ ~work'[w].waits
  BY <1>7, <1>8, Zenon
<1>10. Touches(w)
  <2>1. unnoted \subseteq unnoted'
    BY <1>2
  <2> QED
    BY <1>1, <1>2, <1>8, <2>1, DoTouches, Zenon
<1>11. CreateMoved(w, d, s)
  BY <1>1, <1>2, <1>3, MovingCreate, Zenon
<1>12. /\ s \in DOMAIN CreatePlace \ JobSteps /\ Rank(w) = CreatePlace[s]
       /\ manifest'[d] = IF s = "manifest" THEN "active" ELSE manifest[d]
       /\ d \in made' <=> IF s = "manifest" THEN work[w].new ELSE d \in made
       /\ \A e \in Definitions \ {d} : manifest'[e] = manifest[e]
  BY <1>11, Zenon DEF CreateMoved
<1>13. /\ Rank(w) \in 3..7 /\ (Rank(w) = 3 <=> s = "directory")
  BY <1>2, <1>12, CreatePlaces DEF FileSteps
<1>14. /\ \A x \in FileSteps : (x = "credentials" => d \in WithCredentials) =>
            (disk[FileOf(x, d)] \in Left(d) => disk'[FileOf(x, d)] \in Left(d))
       /\ \/ disk'[DirectoryOf(d)] = disk[DirectoryOf(d)]
          \/ s = "directory" /\ disk[DirectoryOf(d)] = Nobody /\ disk'[DirectoryOf(d)] = d
  <2>1. FilesGrow(d, s)
    BY <1>4, <1>11, CreateFiles, ZenonT(30)
  <2> QED
    BY <2>1, Zenon DEF FilesGrow
<1>15. /\ Alone(d) /\ InOrder(work[w].undo)
       /\ \A x \in Undos(w) :
            /\ CreatePlace[x] < Rank(w) /\ (x = "credentials" => d \in WithCredentials)
            /\ x \in FileSteps => disk[FileOf(x, d)] \in Left(d)
       /\ "directory" \in Undos(w) => work[w].new
       /\ work[w].new => disk[DirectoryOf(d)] \in {Nobody, d} /\ Rank(w) > 3
       /\ ~work[w].new => disk[DirectoryOf(d)] # d
       /\ work[w].bad => Rank(w) > 3
       /\ d \in made <=> work[w].new /\ manifest[d] # "none"
       /\ manifest[d] = "none"
  <2>1. CreateStands(w) /\ ForwardStands(w)
    BY <1>2, <1>4, <1>8, Zenon DEF Stands
  <2>2. Rank(w) > 2 /\ Rank(w) <= 7
    BY <1>13
  <2> QED
    BY <1>1, <1>2, <2>1, <2>2, Zenon DEF CreateStands, ForwardStands
<1>16. /\ work'[w].new => disk'[DirectoryOf(d)] \in {Nobody, d} /\ Rank(w)' > 3
       /\ ~work'[w].new /\ disk'[DirectoryOf(d)] = d => work'[w].op = "rollback" /\ Rank(w)' = 3
  BY <1>8, <1>9, <1>13, <1>14, <1>15, ZenonT(30)
<1>17. d \in made' <=> work'[w].new /\ manifest'[d] # "none"
  BY <1>9, <1>12, <1>15
<1>18. CreateStands(w)'
  <2>1. \A e \in Definitions \ {d} : Target[e] = Target[d] => manifest'[e] = "none"
    BY <1>12, <1>15, Zenon DEF Alone
  <2>2. \A x \in Undos(w)' :
          /\ CreatePlace[x] < Rank(w)' /\ (x = "credentials" => d \in WithCredentials)
          /\ x \in FileSteps => disk'[FileOf(x, d)] \in Left(d)
    BY <1>8, <1>14, <1>15, Zenon
  <2>3. /\ InOrder(work'[w].undo) /\ ("directory" \in Undos(w)' => work'[w].new)
        /\ work'[w].bad => Rank(w)' > 3
    BY <1>8, <1>9, <1>15, ZenonT(30)
  <2>4. manifest'[d] # "attention"
    BY <1>12, <1>15
  <2> QED
    BY <1>8, <1>16, <1>17, <2>1, <2>2, <2>3, <2>4, CreateLift, ZenonT(30)
<1>19. RollbackStands(w)'
  BY <1>2, <1>8, Zenon DEF RollbackStands
<1>20. Stands(w)'
  <2>1. work'[w].op \notin {"create", "mount", "unmount", "delete"}
    BY <1>8
  <2> QED
    BY <1>9, <1>18, <1>19, <2>1, Zenon DEF Stands
<1>21. Kept(d)'
  <2>1. d \in made' => manifest'[d] # "none" /\ disk'[DirectoryOf(d)] \in {Nobody, d}
    BY <1>16, <1>17
  <2>2. manifest'[d] # "none" /\ disk'[DirectoryOf(d)] = d => d \in made'
    <3>1. CASE work[w].new
      BY <1>9, <1>17, <3>1, SMTT(30), Zenon, SMTT(60)
    <3>2. CASE ~work[w].new
      BY <1>12, <1>14, <1>15, <3>2
    <3> QED
      BY <3>1, <3>2
  <2>3. d \in unnoted' /\ d \notin deleted' /\ work'[w].op # "delete"
    BY <1>2, <1>4, <1>8, Zenon
  <2> QED
    BY <1>1, <1>2, <1>8, <1>10, <2>1, <2>2, <2>3, OwnKept, Zenon
<1> QED
  BY <1>1, <1>2, <1>8, <1>10, <1>20, <1>21, OwnConcern, Zenon

(* A step of a worker that succeeds.                                       *)
LEMMA StepSucceedsKeeps ==
  ASSUME IInv, NEW w \in Workers, StepSucceeds(w)
  PROVE  IInv'
<1>1. work[w].op \in {"create", "mount", "unmount", "delete"}
  BY DEF StepSucceeds, AtStep
<1>2. \/ work[w].op = "create" \/ work[w].op = "delete" \/ work[w].op \in {"mount", "unmount"}
  BY <1>1
<1> QED
  BY <1>2, CreateStepKeeps, DeleteStepKeeps, LoadKeeps, Zenon

(* The invariant is kept by every step.                                    *)
LEMMA NextKeeps ==
  ASSUME IInv, [Next]_mountVars
  PROVE  IInv'
<1>1. CASE UNCHANGED mountVars
  <2>1. /\ UNCHANGED <<files, history>> /\ disk' = disk /\ manifest' = manifest /\ made' = made
        /\ enabled' = enabled /\ armed' = armed /\ mounted' = mounted /\ job' = job
        /\ work' = work /\ used' = used /\ faults' = faults /\ deleted' = deleted
    BY <1>1 DEF mountVars, files, systemd, history
  <2>2. HostTypes /\ HostTypes'
    BY <2>1, TypesAre DEF IInv, HostTypes
  <2> QED
    BY <2>1, <2>2, UnitsOnly
<1>2. CASE \E w \in Workers : WorkerStep(w) \/ Expire(w)
  <2>1. PICK w \in Workers : WorkerStep(w) \/ Expire(w)
    BY <1>2
  <2>2. CASE StepSucceeds(w) \/ StepFails(w) \/ StepHalfDone(w) \/ Finish(w) \/ QueueJob(w)
    BY <2>2, StepSucceedsKeeps, StepFailsKeeps, StepHalfDoneKeeps, FinishKeeps, QueueJobKeeps, Zenon
  <2>3. CASE Undo(w) \/ UndoFails(w) \/ RollbackEnds(w) \/ RecordFails(w) \/ Expire(w)
    BY <2>3, UndoKeeps, UndoFailsKeeps, RollbackEndsKeeps, RecordFailsKeeps, ExpireKeeps, Zenon
  <2> QED
    BY <2>1, <2>2, <2>3, Zenon DEF WorkerStep
<1>3. CASE \E w \in Workers, d \in Definitions :
             \/ Create(w, d)
             \/ \E op \in {"mount", "unmount", "delete"} : Operate(w, op, d)
  BY <1>3, CreateKeeps, OperateKeeps, Zenon
<1>4. CASE \E t \in Targets : JobDone(t) \/ JobFails(t) \/ Access(t)
  BY <1>4, JobDoneKeeps, JobFailsKeeps, AccessKeeps, Zenon
<1>5. CASE Crash
  BY <1>5, CrashKeeps, Zenon
<1>6. CASE \E d \in Definitions, f \in Files : Edit(d, f)
  BY <1>6, EditKeeps, Zenon
<1> QED
  BY <1>1, <1>2, <1>3, <1>4, <1>5, <1>6, Zenon DEF Next

(* The inductive invariant holds throughout.                               *)
THEOREM MountsStayInOrder == Spec => []IInv
<1>1. Init => IInv
  BY InitKeeps
<1>2. IInv /\ [Next]_mountVars => IInv'
  BY NextKeeps
<1> QED
  BY <1>1, <1>2, PTL DEF Spec

(* No two definitions are recorded for one target, and a definition that   *)
(* calls itself active has all its files, whatever fails, crashes or       *)
(* interleaves.                                                            *)
THEOREM WhatAManifestSaysIsThere == Spec => []MountInv
<1>1. IInv => MountInv
  <2> SUFFICES ASSUME IInv
               PROVE  MountInv
    OBVIOUS
  <2>1. TypeOK /\ OneDefinitionPerTarget
    BY DEF IInv, Types
  <2>2. ActiveIsWhole
    BY Zenon DEF IInv, Kept, ActiveIsWhole
  <2> QED
    BY <2>1, <2>2 DEF MountInv
<1> QED
  BY <1>1, MountsStayInOrder, PTL

(* A definition without a manifest that nobody works on has left no file   *)
(* behind, unless its create was cut off or failed unknown to rollback.    *)
THEOREM FailedCreatesLeaveNothing == Spec => []NothingLeftBehind
<1>1. IInv => NothingLeftBehind
  <2> SUFFICES ASSUME IInv, NEW d \in Definitions \ (unnoted \cup cut), manifest[d] = "none", ~Locked(d)
               PROVE  \A f \in OwnFiles(d) : disk[f] # d
    BY Zenon DEF NothingLeftBehind
  <2>1. d \in Definitions /\ d \notin unnoted \cup cut /\ Kept(d)
    BY DEF IInv
  <2>2. \A w \in Workers : work[w].def # d
    BY Zenon DEF Locked
  <2> QED
    BY <2>1, <2>2, Zenon DEF Kept
<1> QED
  BY <1>1, MountsStayInOrder, PTL

(* After a delete that reported success no file of the definition is left, *)
(* and its target is neither enabled nor armed nor mounted until another   *)
(* definition asks for it.                                                 *)
THEOREM DeletedStaysGone == Spec => []DeletedIsGone
<1>1. IInv => DeletedIsGone
  <2> SUFFICES ASSUME IInv, NEW d \in deleted
               PROVE  /\ \A f \in OwnFiles(d) : disk[f] # d
                      /\ (\A e \in used \ {d} : Target[e] # Target[d])
                           => Target[d] \notin enabled \cup armed \cup mounted
    BY Zenon DEF DeletedIsGone
  <2>1. d \in Definitions
    BY TypesAre DEF IInv, HostTypes
  <2>2. Gone(d)
    BY <2>1, Zenon DEF IInv, Kept
  <2> QED
    BY <2>2, Zenon DEF Gone, Solo, Quiet
<1> QED
  BY <1>1, MountsStayInOrder, PTL

(* Whatever interleaves, fails or crashes, no step removes or replaces a   *)
(* directory of the administrator's or a file they put in place while no   *)
(* operation was at work on it.  One they put over what a create had       *)
(* written meanwhile goes only with the rollback of that create, and one   *)
(* with the looks of credentials only with that or its definition's delete.*)
THEOREM AdministratorsFilesSurvive == Spec => ForeignSurvives
<1> DEFINE Taken(op, f) == \E w \in Workers : work[w].op = op /\ f \in OwnFiles(work[w].def)
           Spared(f) ==
             /\ disk[f] = Foreign => disk'[f] \in {Foreign, Meanwhile, Alike}
             /\ disk[f] \in {Meanwhile, Alike} => disk'[f] \notin Definitions
             /\ disk[f] = Meanwhile /\ disk'[f] = Nobody => Taken("rollback", f)
             /\ disk[f] = Alike /\ disk'[f] = Nobody => Taken("rollback", f) \/ Taken("delete", f)
<1>1. ASSUME IInv, [Next]_mountVars, NEW f \in Files
      PROVE  Spared(f)
  <2>0. /\ Foreign \notin Definitions /\ Meanwhile \notin Definitions /\ Alike \notin Definitions
        /\ Nobody # Foreign /\ Nobody # Meanwhile /\ Nobody # Alike
        /\ Foreign # Meanwhile /\ Foreign # Alike /\ Meanwhile # Alike
    BY MountsAssumption
  <2>1. disk'[f] = disk[f] => Spared(f)
    BY <2>0, Zenon
  <2>2. ASSUME NEW w \in Workers, StepSucceeds(w) \/ StepHalfDone(w)
        PROVE  Spared(f)
    <3>1. /\ work[w].op \in {"create", "mount", "unmount", "delete"} /\ work[w].op # "idle"
          /\ work[w].at <= Len(Steps(work[w].op, work[w].def)) /\ Passes(w) /\ Do(w)
      BY <2>2 DEF StepSucceeds, StepHalfDone, AtStep
    <3>2. PICK d, s : d = work[w].def /\ s = Step(w)
      BY Zenon
    <3>3. CASE work[w].op \in {"create", "delete"} /\ s \in FileSteps
      <4>1. PICK F : F = FileOf(s, d)
        OBVIOUS
      <4>2. FileTouched(w, d, F)
        BY <1>1, <3>1, <3>2, <3>3, <4>1, TouchingFile, Zenon
      <4>3. CASE f # F
        BY <2>1, <4>2, <4>3, Zenon DEF FileTouched
      <4>4. CASE f = F /\ work[w].op = "create"
        BY <2>0, <2>1, <4>2, <4>4, Zenon DEF FileTouched
      <4>5. CASE f = F /\ work[w].op = "delete"
        <5>1. d \in Definitions
          BY <1>1, <3>1, <3>2, OwnBefore, Zenon
        <5>2. \/ disk'[f] = disk[f]
              \/ disk[f] \in {d, Alike} /\ disk'[f] = Nobody
          BY <4>2, <4>5, <5>1, MountsAssumption, Zenon DEF FileTouched, Passed
        <5>3. Taken("delete", f)
          BY <3>2, <4>2, <4>5, Zenon DEF FileTouched
        <5>4. d # Foreign /\ d # Meanwhile /\ d # Alike /\ Nobody \notin Definitions
          BY <5>1, MountsAssumption, Zenon
        <5> QED
          BY <2>0, <2>1, <5>2, <5>3, <5>4, Zenon
      <4> QED
        BY <3>3, <4>3, <4>4, <4>5
    <3>4. CASE work[w].op \notin {"create", "delete"} \/ s \notin FileSteps
      <4>1. s \notin FileSteps
        <5>1. Where(w)
          BY <1>1, <3>1, OwnBefore, Zenon
        <5>2. ASSUME work[w].op = "mount"
              PROVE  s \in {"load", "start"}
          <6>1. /\ work[w].at \in 1..3 /\ work[w].at <= 2
                /\ (work[w].at = 1 => Step(w) = "load") /\ (work[w].at = 2 => Step(w) = "start")
            BY <3>1, <5>1, <5>2, Zenon DEF Where
          <6>2. work[w].at = 1 \/ work[w].at = 2
            BY <6>1
          <6> QED
            BY <3>2, <6>1, <6>2, Zenon
        <5>3. ASSUME work[w].op = "unmount"
              PROVE  s \in {"load", "stopAutomount", "stopMount"}
          <6>1. /\ work[w].at \in 1..4 /\ work[w].at <= 3
                /\ (work[w].at = 1 => Step(w) = "load") /\ (work[w].at = 2 => Step(w) = "stopAutomount")
                /\ (work[w].at = 3 => Step(w) = "stopMount")
            BY <3>1, <5>1, <5>3, Zenon DEF Where
          <6>2. work[w].at = 1 \/ work[w].at = 2 \/ work[w].at = 3
            BY <6>1
          <6> QED
            BY <3>2, <6>1, <6>2, Zenon
        <5> QED
          BY <3>1, <3>4, <5>2, <5>3 DEF FileSteps
      <4>2. disk' = disk
        BY <3>1, <3>2, <4>1, Zenon DEF Do, DoFile, DoManifest, DoEnable, DoNothing, files
      <4> QED
        BY <2>1, <4>2
    <3> QED
      BY <3>3, <3>4
  <2>3. ASSUME NEW w \in Workers, Undo(w)
        PROVE  Spared(f)
    <3>1. PICK d, s : d = work[w].def /\ s = NextUndo(w)
      BY Zenon
    <3>2. RollingBack(w) /\ disk' = IF s \in FileSteps THEN Cleared(s, d) ELSE disk
      BY <2>3, <3>1, Zenon DEF Undo
    <3>3. /\ Creating(w) /\ work[w].op = "rollback" /\ work[w].op # "idle" /\ work[w].undo # <<>>
          /\ work[w].undo \in Seq(UndoSteps)
      BY <1>1, <3>2, TypesAre, SMTT(30), Zenon, SMTT(60) DEF IInv, RollingBack, Creating, WorkRecords
    <3>4. s \in Undos(w)
      BY <3>1, <3>3 DEF NextUndo, Undos
    <3>5. d \in Definitions /\ Stands(w) /\ HostTypes
      BY <1>1, <3>1, <3>3, OwnBefore, TypesAre, Zenon DEF IInv
    <3>6. s \in FileSteps => disk[FileOf(s, d)] \in Left(d) /\ FileOf(s, d) \in OwnFiles(d)
      BY <3>1, <3>3, <3>4, <3>5, TheFiles, Zenon DEF Stands, CreateStands
    <3>7. d # Foreign /\ d # Meanwhile /\ d # Alike /\ Nobody \notin Definitions
      BY <3>5, MountsAssumption
    <3>8. \/ disk'[f] = disk[f]
          \/ s \in FileSteps /\ f = FileOf(s, d) /\ disk'[f] = Nobody
      BY <1>1, <3>2, <3>5, SMTT(30), Zenon, SMTT(60) DEF Cleared, HostTypes
    <3>9. CASE s \in FileSteps /\ f = FileOf(s, d) /\ disk'[f] = Nobody
      <4>1. disk[f] # Foreign /\ Taken("rollback", f)
        BY <2>0, <3>1, <3>3, <3>6, <3>7, <3>9, Zenon DEF Left
      <4>2. disk'[f] = Nobody /\ Nobody \notin Definitions
        BY <3>7, <3>9
      <4> HIDE DEF Taken
      <4> QED
        BY <4>1, <4>2
    <3> QED
      BY <2>1, <3>8, <3>9
  <2>4. ASSUME NEW d \in Definitions, NEW g \in Files, Edit(d, g)
        PROVE  Spared(f)
    <3>1. PICK put : put \in {Foreign, Meanwhile, Alike} /\ disk' = [disk EXCEPT ![g] = put]
      BY <2>4, Zenon DEF Edit
    <3>2. disk'[f] \in {disk[f], Foreign, Meanwhile, Alike}
      BY <1>1, <3>1, TypesAre DEF IInv, HostTypes
    <3> QED
      BY <2>0, <3>2, Zenon
  <2>5. disk' = disk => Spared(f)
    BY <2>1
  <2>6. CASE UNCHANGED mountVars
    BY <2>5, <2>6 DEF mountVars, files
  <2>7. ASSUME NEW w \in Workers, WorkerStep(w) \/ Expire(w)
        PROVE  Spared(f)
    BY <2>2, <2>3, <2>5, <2>7, Zenon DEF WorkerStep, Expire, StepFails, Finish, QueueJob, UndoFails,
                                     RollbackEnds, RecordFails, files
  <2>8. ASSUME NEW w \in Workers, NEW d \in Definitions,
               Create(w, d) \/ \E op \in {"mount", "unmount", "delete"} : Operate(w, op, d)
        PROVE  Spared(f)
    BY <2>5, <2>8, Zenon DEF Create, Operate, Begin, files
  <2>9. ASSUME NEW t \in Targets, JobDone(t) \/ JobFails(t) \/ Access(t)
        PROVE  Spared(f)
    BY <2>5, <2>9, Zenon DEF JobDone, JobFails, Access, files
  <2>10. CASE Crash
    BY <2>5, <2>10, Zenon DEF Crash, files
  <2> QED
    BY <1>1, <2>4, <2>6, <2>7, <2>8, <2>9, <2>10, Zenon DEF Next
<1>2. IInv /\ [Next]_mountVars => [\A f \in Files : Spared(f)]_mountVars
  BY <1>1, Zenon
<1> QED
  BY <1>2, MountsStayInOrder, PTL DEF Spec, ForeignSurvives
==============================================================================
