-------------------------- MODULE RemoteMountsSteps --------------------------
(***************************************************************************)
(* The inductive invariant of the managed remote mounts, and that what     *)
(* happens to an operation keeps it: steps that fail, undo or change only  *)
(* units, jobs that end, crashes, and edits by others.  RemoteMountsProofs *)
(* adds how an operation begins and goes on, and the theorems.             *)
(*                                                                         *)
(* A worker that has passed its checks holds its target: no other          *)
(* definition of that target has a manifest.  So what one worker does to   *)
(* files, manifests and units disturbs neither another worker nor another  *)
(* definition, and each step is looked at for its own definition only.     *)
(***************************************************************************)
EXTENDS RemoteMounts, TLAPS

(* The places of the steps of create and of delete, credentials counted    *)
(* whether or not the definition has any.                                  *)
CreatePlace ==
  [s \in {"list", "verify", "directory", "credentials", "mount", "automount", "manifest",
          "reload", "enable", "start"} |->
     CASE s = "list" -> 1 [] s = "verify" -> 2 [] s = "directory" -> 3
       [] s = "credentials" -> 4 [] s = "mount" -> 5 [] s = "automount" -> 6
       [] s = "manifest" -> 7 [] s = "reload" -> 8 [] s = "enable" -> 9 [] s = "start" -> 10]

DeletePlace ==
  [s \in {"attention", "stopAutomount", "stopMount", "disable", "mount", "automount",
          "credentials", "reload", "list", "verify", "directory", "manifest"} |->
     CASE s = "attention" -> 1 [] s = "stopAutomount" -> 2 [] s = "stopMount" -> 3
       [] s = "disable" -> 4 [] s = "mount" -> 5 [] s = "automount" -> 6
       [] s = "credentials" -> 7 [] s = "reload" -> 8 [] s = "list" -> 9
       [] s = "verify" -> 10 [] s = "directory" -> 11 [] s = "manifest" -> 12]

CreateRank(d, i) == IF d \in WithCredentials \/ i <= 3 THEN i ELSE i + 1
DeleteRank(d, i) == IF d \in WithCredentials \/ i <= 6 THEN i ELSE i + 1

Rank(w) == IF work[w].op = "delete" THEN DeleteRank(work[w].def, work[w].at)
           ELSE IF Creating(w) THEN CreateRank(work[w].def, work[w].at)
           ELSE work[w].at

(* The steps that create notes.                                            *)
UndoSteps == {"directory", "credentials", "mount", "automount", "manifest", "reload", "enable", "start"}

Undos(w) == {work[w].undo[i] : i \in 1..Len(work[w].undo)}

InOrder(s) == \A i, j \in 1..Len(s) : i < j => CreatePlace[s[i]] < CreatePlace[s[j]]

DirectoryOf(d) == FileOf("directory", d)

Alone(d) == \A e \in Definitions \ {d} : Target[e] = Target[d] => manifest[e] = "none"

(* The worker has passed the checks after which it changes the host.       *)
Holds(w) ==
  \/ Creating(w) /\ Rank(w) > 2
  \/ work[w].op \in {"mount", "unmount", "delete"} /\ Rank(w) > 1 /\ manifest[work[w].def] # "none"

------------------------------------------------------------------------------
WorkRecords ==
  [op : {"idle", "create", "rollback", "mount", "unmount", "delete"},
   def : Definitions \cup {Nobody}, at : Nat, waits : BOOLEAN, late : BOOLEAN,
   undo : Seq(UndoSteps), seen : SUBSET Definitions, active : SUBSET Definitions,
   busy : SUBSET Targets, new : BOOLEAN, bad : BOOLEAN]

Types ==
  /\ TypeOK
  /\ work \in [Workers -> WorkRecords]
  /\ \A w \in Workers : work[w].op = "idle" => work[w] = Idle
  /\ deleted \subseteq used

(* lockDefinition and createMu.                                            *)
Locks ==
  \A v, w \in Workers :
    v # w => /\ work[v].def = work[w].def => work[v].def = Nobody
             /\ ~(Creating(v) /\ Creating(w))

(* What a file that a create of d has written may be by now.               *)
Left(d) == {d, Meanwhile, Alike}

(* A create or its rollback: what is noted is on the disk, in the order of *)
(* the steps, and the manifest says whether this create made the target.   *)
CreateStands(w) ==
  LET d == work[w].def
  IN  /\ Rank(w) > 2 => Alone(d)
      /\ InOrder(work[w].undo)
      /\ \A s \in Undos(w) :
           /\ CreatePlace[s] < Rank(w) /\ (s = "credentials" => d \in WithCredentials)
           /\ s \in FileSteps => disk[FileOf(s, d)] \in Left(d)
      /\ "directory" \in Undos(w) => work[w].new
      /\ work[w].new => disk[DirectoryOf(d)] \in {Nobody, d} /\ Rank(w) > 3
      /\ ~work[w].new /\ disk[DirectoryOf(d)] = d => work[w].op = "rollback" /\ Rank(w) = 3
      /\ work[w].bad => Rank(w) > 3
      /\ d \in made <=> work[w].new /\ manifest[d] # "none"
      /\ manifest[d] # "attention"

(* A create that has not failed: the steps before this one are done, and   *)
(* all of them are noted.                                                  *)
ForwardStands(w) ==
  LET d == work[w].def
  IN  /\ Rank(w) = 2 => \A e \in Definitions : manifest[e] # "none" => e \in work[w].seen
      /\ manifest[d] = IF Rank(w) <= 7 THEN "none" ELSE "active"
      /\ Rank(w) > 7 => "manifest" \in Undos(w)
      /\ \A s \in FileSteps :
           CreatePlace[s] < Rank(w) /\ (s = "credentials" => d \in WithCredentials)
             => disk[FileOf(s, d)] # Nobody
      /\ \A f \in OwnFiles(d) : disk[f] = d => \E s \in Undos(w) : f = FileOf(s, d)
      /\ ~work[w].bad

(* A rollback: what is left is noted or recorded, and the manifest goes    *)
(* before the files it speaks of.                                          *)
RollbackStands(w) ==
  LET d == work[w].def
  IN  /\ d \notin unnoted /\ ~work[w].bad
           => \A f \in OwnFiles(d) : disk[f] = d => \E s \in Undos(w) : f = FileOf(s, d)
      /\ d \notin unnoted \cup undone /\ manifest[d] = "active" => "manifest" \in Undos(w)

(* A delete: the steps before this one are done and stay done.             *)
DeleteStands(w) ==
  LET d == work[w].def
  IN  /\ Rank(w) \in 2..12 => manifest[d] = "attention"
      /\ Rank(w) = 13 => manifest[d] = "none"
      /\ Rank(w) > 5 => disk[FileOf("mount", d)] # d
      /\ Rank(w) > 6 => disk[FileOf("automount", d)] # d
      /\ Rank(w) > 7 /\ d \in WithCredentials => disk[FileOf("credentials", d)] # d
      /\ Rank(w) > 11 => disk[DirectoryOf(d)] # d
      /\ Rank(w) \in 3..12 => Target[d] \notin armed /\ job[Target[d]] # "start"
      /\ Rank(w) \in 4..12 => Target[d] \notin mounted
      /\ Rank(w) \in 5..12 => Target[d] \notin enabled

Stands(w) ==
  /\ Creating(w) => CreateStands(w)
  /\ work[w].op = "create" => ForwardStands(w)
  /\ work[w].op = "rollback" => RollbackStands(w)
  /\ work[w].op \in {"mount", "unmount"} /\ work[w].at > 1 => manifest[work[w].def] # "none"
  /\ work[w].op = "delete" => DeleteStands(w)
  /\ work[w].waits => Holds(w) /\ Step(w) \in JobSteps /\ job[Target[work[w].def]] = Step(w)

(* No other definition that was ever asked for has the target.             *)
Solo(d) == \A e \in used \ {d} : Target[e] # Target[d]

Quiet(t) == t \notin enabled \cup armed \cup mounted /\ job[t] # "start"

(* A deleted definition is gone, and no operation on it gets further than  *)
(* its first step; so is one whose delete has only to return.              *)
Gone(d) ==
  /\ d \in used /\ manifest[d] = "none"
  /\ \A f \in OwnFiles(d) : disk[f] # d
  /\ Solo(d) => Quiet(Target[d])

(* What is recorded of a definition, whoever works on it.                  *)
Kept(d) ==
  /\ d \in made => manifest[d] # "none" /\ disk[DirectoryOf(d)] \in {Nobody, d}
  /\ manifest[d] # "none" /\ disk[DirectoryOf(d)] = d => d \in made
  /\ d \notin used => manifest[d] = "none" /\ \A f \in OwnFiles(d) : disk[f] # d
  /\ d \notin unnoted \cup cut /\ manifest[d] = "none"
       => \/ \E w \in Workers : work[w].def = d /\ Creating(w)
          \/ \A f \in OwnFiles(d) : disk[f] # d
  /\ d \notin unnoted \cup undone /\ manifest[d] = "active" => \A f \in OwnFiles(d) : disk[f] # Nobody
  /\ d \in deleted => Gone(d)
  /\ \A w \in Workers :
       /\ d \in deleted /\ work[w].def = d => ~Creating(w) /\ work[w].at = 1
       /\ work[w].def = d /\ work[w].op = "delete" /\ Rank(w) = 13 => Gone(d)

(* The inductive invariant.                                                *)
IInv ==
  /\ Types /\ Locks /\ OneDefinitionPerTarget
  /\ \A w \in Workers : Stands(w)
  /\ \A d \in Definitions : Kept(d)

------------------------------------------------------------------------------
(* The places of the steps of create.                                      *)
LEMMA CreatePlaces ==
  /\ DOMAIN CreatePlace = {"list", "verify", "directory", "credentials", "mount", "automount",
                           "manifest", "reload", "enable", "start"}
  /\ CreatePlace["list"] = 1 /\ CreatePlace["verify"] = 2 /\ CreatePlace["directory"] = 3
  /\ CreatePlace["credentials"] = 4 /\ CreatePlace["mount"] = 5 /\ CreatePlace["automount"] = 6
  /\ CreatePlace["manifest"] = 7 /\ CreatePlace["reload"] = 8 /\ CreatePlace["enable"] = 9
  /\ CreatePlace["start"] = 10
  BY DEF CreatePlace

(* The steps of create, place by place.                                    *)
LEMMA CreateShape ==
  ASSUME NEW d \in Definitions
  PROVE  /\ Len(CreateSteps(d)) = IF d \in WithCredentials THEN 10 ELSE 9
         /\ \A i \in 1..Len(CreateSteps(d)) :
              /\ CreateSteps(d)[i] \in DOMAIN CreatePlace
              /\ CreatePlace[CreateSteps(d)[i]] = CreateRank(d, i)
              /\ CreateSteps(d)[i] = "credentials" => d \in WithCredentials
<1>1. CASE d \in WithCredentials
  <2>1. CreateSteps(d) = <<"list", "verify", "directory", "credentials", "mount", "automount",
                           "manifest", "reload", "enable", "start">>
    BY <1>1, Zenon DEF CreateSteps
  <2>2. Len(CreateSteps(d)) = 10
    BY <2>1
  <2>3. ASSUME NEW i \in 1..10
        PROVE  /\ CreateSteps(d)[i] \in DOMAIN CreatePlace
               /\ CreatePlace[CreateSteps(d)[i]] = i
    <3>1. i = 1 \/ i = 2 \/ i = 3 \/ i = 4 \/ i = 5 \/ i = 6 \/ i = 7 \/ i = 8 \/ i = 9 \/ i = 10
      OBVIOUS
    <3> QED
      BY <2>1, <3>1, CreatePlaces
  <2> QED
    BY <1>1, <2>2, <2>3 DEF CreateRank
<1>2. CASE d \notin WithCredentials
  <2>1. CreateSteps(d) = <<"list", "verify", "directory", "mount", "automount",
                           "manifest", "reload", "enable", "start">>
    BY <1>2, Zenon DEF CreateSteps
  <2>2. Len(CreateSteps(d)) = 9
    BY <2>1
  <2>3. ASSUME NEW i \in 1..9
        PROVE  /\ CreateSteps(d)[i] \in DOMAIN CreatePlace \ {"credentials"}
               /\ CreatePlace[CreateSteps(d)[i]] = IF i <= 3 THEN i ELSE i + 1
    <3>1. i = 1 \/ i = 2 \/ i = 3 \/ i = 4 \/ i = 5 \/ i = 6 \/ i = 7 \/ i = 8 \/ i = 9
      OBVIOUS
    <3> QED
      BY <2>1, <3>1, CreatePlaces
  <2> QED
    BY <1>2, <2>2, <2>3 DEF CreateRank
<1> QED
  BY <1>1, <1>2

(* The places of the steps of delete.                                      *)
LEMMA DeletePlaces ==
  /\ DOMAIN DeletePlace = {"attention", "stopAutomount", "stopMount", "disable", "mount", "automount",
                           "credentials", "reload", "list", "verify", "directory", "manifest"}
  /\ DeletePlace["attention"] = 1 /\ DeletePlace["stopAutomount"] = 2 /\ DeletePlace["stopMount"] = 3
  /\ DeletePlace["disable"] = 4 /\ DeletePlace["mount"] = 5 /\ DeletePlace["automount"] = 6
  /\ DeletePlace["credentials"] = 7 /\ DeletePlace["reload"] = 8 /\ DeletePlace["list"] = 9
  /\ DeletePlace["verify"] = 10 /\ DeletePlace["directory"] = 11 /\ DeletePlace["manifest"] = 12
  BY DEF DeletePlace

(* The steps of delete, place by place.                                    *)
LEMMA DeleteShape ==
  ASSUME NEW d \in Definitions
  PROVE  /\ Len(DeleteSteps(d)) = IF d \in WithCredentials THEN 12 ELSE 11
         /\ \A i \in 1..Len(DeleteSteps(d)) :
              /\ DeleteSteps(d)[i] \in DOMAIN DeletePlace
              /\ DeletePlace[DeleteSteps(d)[i]] = DeleteRank(d, i)
              /\ DeleteSteps(d)[i] = "credentials" => d \in WithCredentials
<1>1. CASE d \in WithCredentials
  <2>1. DeleteSteps(d) = <<"attention", "stopAutomount", "stopMount", "disable", "mount", "automount",
                           "credentials", "reload", "list", "verify", "directory", "manifest">>
    BY <1>1, Zenon DEF DeleteSteps
  <2>2. Len(DeleteSteps(d)) = 12
    BY <2>1
  <2>3. ASSUME NEW i \in 1..12
        PROVE  /\ DeleteSteps(d)[i] \in DOMAIN DeletePlace
               /\ DeletePlace[DeleteSteps(d)[i]] = i
    <3>1. \/ i = 1 \/ i = 2 \/ i = 3 \/ i = 4 \/ i = 5 \/ i = 6 \/ i = 7 \/ i = 8 \/ i = 9 \/ i = 10
          \/ i = 11 \/ i = 12
      OBVIOUS
    <3> QED
      BY <2>1, <3>1, DeletePlaces
  <2> QED
    BY <1>1, <2>2, <2>3 DEF DeleteRank
<1>2. CASE d \notin WithCredentials
  <2>1. DeleteSteps(d) = <<"attention", "stopAutomount", "stopMount", "disable", "mount", "automount",
                           "reload", "list", "verify", "directory", "manifest">>
    BY <1>2, Zenon DEF DeleteSteps
  <2>2. Len(DeleteSteps(d)) = 11
    BY <2>1
  <2>3. ASSUME NEW i \in 1..11
        PROVE  /\ DeleteSteps(d)[i] \in DOMAIN DeletePlace \ {"credentials"}
               /\ DeletePlace[DeleteSteps(d)[i]] = IF i <= 6 THEN i ELSE i + 1
    <3>1. \/ i = 1 \/ i = 2 \/ i = 3 \/ i = 4 \/ i = 5 \/ i = 6 \/ i = 7 \/ i = 8 \/ i = 9 \/ i = 10
          \/ i = 11
      OBVIOUS
    <3> QED
      BY <2>1, <3>1, DeletePlaces
  <2> QED
    BY <1>2, <2>2, <2>3 DEF DeleteRank
<1> QED
  BY <1>1, <1>2

(* The steps of each operation.                                            *)
LEMMA StepsOf ==
  ASSUME NEW d
  PROVE  /\ Steps("create", d) = CreateSteps(d) /\ Steps("rollback", d) = CreateSteps(d)
         /\ Steps("delete", d) = DeleteSteps(d)
         /\ Steps("mount", d) = <<"load", "start">>
         /\ Steps("unmount", d) = <<"load", "stopAutomount", "stopMount">>
  BY DEF Steps

(* Where a worker is, and the step that it takes there.                    *)
Where(w) ==
  /\ Creating(w) =>
       /\ Rank(w) \in 1..11
       /\ work[w].at <= Len(Steps(work[w].op, work[w].def)) =>
            /\ Step(w) \in DOMAIN CreatePlace /\ CreatePlace[Step(w)] = Rank(w)
            /\ Step(w) = "credentials" => work[w].def \in WithCredentials
       /\ work[w].at > Len(Steps(work[w].op, work[w].def)) <=> Rank(w) = 11
       /\ CreateRank(work[w].def, work[w].at + 1) =
            IF Rank(w) = 3 /\ work[w].def \notin WithCredentials THEN 5 ELSE Rank(w) + 1
  /\ work[w].op = "delete" =>
       /\ Rank(w) \in 1..13
       /\ work[w].at <= Len(Steps(work[w].op, work[w].def)) =>
            /\ Step(w) \in DOMAIN DeletePlace /\ DeletePlace[Step(w)] = Rank(w)
            /\ Step(w) = "credentials" => work[w].def \in WithCredentials
       /\ work[w].at > Len(Steps(work[w].op, work[w].def)) <=> Rank(w) = 13
       /\ DeleteRank(work[w].def, work[w].at + 1) =
            IF Rank(w) = 6 /\ work[w].def \notin WithCredentials THEN 8 ELSE Rank(w) + 1
  /\ work[w].op = "mount" =>
       /\ work[w].at \in 1..3 /\ Len(Steps(work[w].op, work[w].def)) = 2
       /\ work[w].at = 1 => Step(w) = "load"
       /\ work[w].at = 2 => Step(w) = "start"
  /\ work[w].op = "unmount" =>
       /\ work[w].at \in 1..4 /\ Len(Steps(work[w].op, work[w].def)) = 3
       /\ work[w].at = 1 => Step(w) = "load"
       /\ work[w].at = 2 => Step(w) = "stopAutomount"
       /\ work[w].at = 3 => Step(w) = "stopMount"

(* Every worker is at a step of its operation or past the last.            *)
LEMMA EveryoneIsSomewhere ==
  ASSUME NEW w \in Workers, work[w].def \in Definitions,
         work[w].at \in 1..(Len(Steps(work[w].op, work[w].def)) + 1)
  PROVE  Where(w)
<1> DEFINE d == work[w].def
           i == work[w].at
<1>1. ASSUME Creating(w)
      PROVE  /\ Rank(w) = CreateRank(d, i) /\ Steps(work[w].op, d) = CreateSteps(d)
             /\ Step(w) = CreateSteps(d)[i]
  BY <1>1, StepsOf, Zenon DEF Creating, Rank, Step
<1>2. ASSUME work[w].op = "delete"
      PROVE  /\ Rank(w) = DeleteRank(d, i) /\ Steps(work[w].op, d) = DeleteSteps(d)
             /\ Step(w) = DeleteSteps(d)[i]
  BY <1>2, StepsOf, Zenon DEF Creating, Rank, Step
<1> HIDE DEF d, i
<1>3. ASSUME Creating(w)
      PROVE  /\ CreateRank(d, i) \in 1..11
             /\ i <= Len(CreateSteps(d)) =>
                  /\ Step(w) \in DOMAIN CreatePlace /\ CreatePlace[Step(w)] = CreateRank(d, i)
                  /\ Step(w) = "credentials" => d \in WithCredentials
             /\ i > Len(CreateSteps(d)) <=> CreateRank(d, i) = 11
             /\ CreateRank(d, i + 1) =
                  IF CreateRank(d, i) = 3 /\ d \notin WithCredentials THEN 5 ELSE CreateRank(d, i) + 1
  <2>1. d \in Definitions /\ i \in 1..(Len(CreateSteps(d)) + 1)
    BY <1>1, <1>3 DEF d, i
  <2>2. Len(CreateSteps(d)) = IF d \in WithCredentials THEN 10 ELSE 9
    BY <2>1, CreateShape
  <2>3. i <= Len(CreateSteps(d)) =>
          /\ Step(w) \in DOMAIN CreatePlace /\ CreatePlace[Step(w)] = CreateRank(d, i)
          /\ Step(w) = "credentials" => d \in WithCredentials
    BY <1>1, <1>3, <2>1, CreateShape
  <2>4. CASE d \in WithCredentials
    BY <2>1, <2>2, <2>3, <2>4 DEF CreateRank
  <2>5. CASE d \notin WithCredentials
    BY <2>1, <2>2, <2>3, <2>5 DEF CreateRank
  <2> QED
    BY <2>4, <2>5
<1>4. ASSUME work[w].op = "delete"
      PROVE  /\ DeleteRank(d, i) \in 1..13
             /\ i <= Len(DeleteSteps(d)) =>
                  /\ Step(w) \in DOMAIN DeletePlace /\ DeletePlace[Step(w)] = DeleteRank(d, i)
                  /\ Step(w) = "credentials" => d \in WithCredentials
             /\ i > Len(DeleteSteps(d)) <=> DeleteRank(d, i) = 13
             /\ DeleteRank(d, i + 1) =
                  IF DeleteRank(d, i) = 6 /\ d \notin WithCredentials THEN 8 ELSE DeleteRank(d, i) + 1
  <2>1. d \in Definitions /\ i \in 1..(Len(DeleteSteps(d)) + 1)
    BY <1>2, <1>4 DEF d, i
  <2>2. Len(DeleteSteps(d)) = IF d \in WithCredentials THEN 12 ELSE 11
    BY <2>1, DeleteShape
  <2>3. i <= Len(DeleteSteps(d)) =>
          /\ Step(w) \in DOMAIN DeletePlace /\ DeletePlace[Step(w)] = DeleteRank(d, i)
          /\ Step(w) = "credentials" => d \in WithCredentials
    BY <1>2, <1>4, <2>1, DeleteShape
  <2>4. CASE d \in WithCredentials
    BY <2>1, <2>2, <2>3, <2>4, SMTT(30) DEF DeleteRank
  <2>5. CASE d \notin WithCredentials
    BY <2>1, <2>2, <2>3, <2>5 DEF DeleteRank
  <2> QED
    BY <2>4, <2>5
<1>5. ASSUME work[w].op = "mount"
      PROVE  /\ work[w].at \in 1..3 /\ Len(Steps(work[w].op, work[w].def)) = 2
             /\ work[w].at = 1 => Step(w) = "load"
             /\ work[w].at = 2 => Step(w) = "start"
  <2>1. Steps(work[w].op, work[w].def) = <<"load", "start">>
    BY <1>5, StepsOf, Zenon
  <2> QED
    BY <2>1 DEF Step
<1>6. ASSUME work[w].op = "unmount"
      PROVE  /\ work[w].at \in 1..4 /\ Len(Steps(work[w].op, work[w].def)) = 3
             /\ work[w].at = 1 => Step(w) = "load"
             /\ work[w].at = 2 => Step(w) = "stopAutomount"
             /\ work[w].at = 3 => Step(w) = "stopMount"
  <2>1. Steps(work[w].op, work[w].def) = <<"load", "stopAutomount", "stopMount">>
    BY <1>6, StepsOf, Zenon
  <2> QED
    BY <2>1 DEF Step
<1> QED
  BY <1>1, <1>2, <1>3, <1>4, <1>5, <1>6, Zenon DEF Where, d, i

------------------------------------------------------------------------------
(* A worker with an operation has a definition and is at one of its steps. *)
LEMMA AtWork ==
  ASSUME Types, NEW w \in Workers, work[w].op # "idle"
  PROVE  /\ work[w].def \in used /\ work[w].def \in Definitions
         /\ work[w].op \in {"create", "rollback", "mount", "unmount", "delete"}
         /\ work[w].at \in 1..(Len(Steps(work[w].op, work[w].def)) + 1)
         /\ work[w].undo # <<>> => work[w].op \in {"create", "rollback"}
         /\ work[w].waits => /\ work[w].op # "rollback" /\ ~work[w].late
                             /\ work[w].at <= Len(Steps(work[w].op, work[w].def))
         /\ Where(w)
<1>1. work[w] # Idle
  BY DEF Idle
<1>2. /\ work[w].op \in {"create", "rollback", "mount", "unmount", "delete"}
      /\ work[w].def \in used /\ used \subseteq Definitions
      /\ work[w].at \in 1..(Len(Steps(work[w].op, work[w].def)) + 1)
      /\ work[w].undo # <<>> => work[w].op \in {"create", "rollback"}
      /\ work[w].waits => /\ work[w].op # "rollback" /\ ~work[w].late
                          /\ work[w].at <= Len(Steps(work[w].op, work[w].def))
  BY <1>1, Zenon DEF Types, TypeOK
<1> QED
  BY <1>2, EveryoneIsSomewhere, Zenon

(* A worker without one is idle in every respect.                          *)
LEMMA AtRest ==
  ASSUME Types, NEW w \in Workers, work[w].op = "idle"
  PROVE  work[w] = Idle /\ work[w].def = Nobody /\ ~Creating(w) /\ ~work[w].waits /\ ~Holds(w)
<1>1. work[w] = Idle
  BY DEF Types
<1> QED
  BY <1>1 DEF Idle, Creating, Holds

(* The files of a definition.                                              *)
LEMMA TheFiles ==
  ASSUME NEW d \in Definitions
  PROVE  /\ OwnFiles(d) \subseteq Files
         /\ DirectoryOf(d) \in OwnFiles(d) /\ DirectoryOf(d) = <<"directory", Target[d]>>
         /\ FileOf("mount", d) \in OwnFiles(d) /\ FileOf("automount", d) \in OwnFiles(d)
         /\ d \in WithCredentials => FileOf("credentials", d) \in OwnFiles(d)
         /\ \A s \in FileSteps : (s = "credentials" => d \in WithCredentials) => FileOf(s, d) \in OwnFiles(d)
         /\ \A f \in OwnFiles(d) : \E s \in FileSteps : f = FileOf(s, d) /\ (s = "credentials" => d \in WithCredentials)
  BY DEF OwnFiles, Files, UnitFiles, Credentials, DirectoryOf, FileOf, FileSteps

(* Two definitions share a file only if they share the target.             *)
LEMMA SharedFile ==
  ASSUME NEW d \in Definitions, NEW e \in Definitions, d # e, NEW f, f \in OwnFiles(d), f \in OwnFiles(e)
  PROVE  Target[d] = Target[e]
  BY DEF OwnFiles, UnitFiles, Credentials, FileOf

(* Whoever holds a target is alone with it.                                *)
LEMMA HolderAlone ==
  ASSUME IInv, NEW w \in Workers, Holds(w)
  PROVE  work[w].def \in Definitions /\ work[w].op # "idle" /\ Alone(work[w].def)
<1>1. work[w].op # "idle"
  BY AtRest DEF IInv
<1>2. work[w].def \in Definitions
  BY <1>1, AtWork DEF IInv
<1>3. CASE Creating(w) /\ Rank(w) > 2
  BY <1>1, <1>2, <1>3, Zenon DEF IInv, Stands, CreateStands
<1>4. CASE manifest[work[w].def] # "none"
  BY <1>1, <1>2, <1>4, Zenon DEF IInv, OneDefinitionPerTarget, Alone
<1> QED
  BY <1>3, <1>4, Zenon DEF Holds

(* No two workers hold one target.                                         *)
LEMMA OneHolder ==
  ASSUME IInv, NEW v \in Workers, NEW w \in Workers, v # w, Holds(v), Holds(w)
  PROVE  Target[work[v].def] # Target[work[w].def]
<1>1. /\ work[v].def \in Definitions /\ Alone(work[v].def)
      /\ work[w].def \in Definitions /\ Alone(work[w].def)
  BY HolderAlone, Zenon
<1>2. work[v].def # work[w].def
  <2>1. work[v].def # Nobody
    BY <1>1, MountsAssumption, Zenon
  <2> QED
    BY <2>1, Zenon DEF IInv, Locks
<1>3. CASE Creating(v)
  <2>1. ~Creating(w)
    BY <1>3, Zenon DEF IInv, Locks
  <2>2. manifest[work[w].def] # "none"
    BY <2>1, Zenon DEF Holds
  <2> QED
    BY <1>1, <1>2, <2>2, Zenon DEF Alone
<1>4. CASE ~Creating(v)
  <2>1. manifest[work[v].def] # "none"
    BY <1>4, Zenon DEF Holds
  <2> QED
    BY <1>1, <1>2, <2>1, Zenon DEF Alone
<1> QED
  BY <1>3, <1>4

------------------------------------------------------------------------------
(* What a step of a worker leaves alone: other workers, other definitions' *)
(* manifests, and, unless the worker holds its target, every file and      *)
(* unit.  A file passes from nobody to the worker's definition, and to     *)
(* nobody from that or from what an administrator put in its place.        *)
SameUnits(t) ==
  /\ t \in enabled' <=> t \in enabled
  /\ t \in armed' <=> t \in armed
  /\ t \in mounted' <=> t \in mounted
  /\ job'[t] = job[t]

Passed(f, d) == (disk[f] = Nobody /\ disk'[f] = d) \/ (disk[f] \in Left(d) /\ disk'[f] = Nobody)

Touches(w) ==
  LET d == work[w].def
  IN  /\ \A v \in Workers \ {w} : work'[v] = work[v]
      /\ work'[w].def \in {d, Nobody} /\ (Creating(w)' => Creating(w))
      /\ \A e \in Definitions \ {d} : manifest'[e] = manifest[e] /\ (e \in made' <=> e \in made)
      /\ manifest[d] = "none" /\ manifest'[d] # "none" => Creating(w) /\ Rank(w) > 2
      /\ \A f \in Files : disk'[f] = disk[f] \/ (Holds(w) /\ f \in OwnFiles(d) /\ Passed(f, d))
      /\ \A t \in Targets : SameUnits(t) \/ (Holds(w) /\ t = Target[d])
      /\ used' = used /\ cut' = cut
      /\ unnoted \subseteq unnoted' /\ undone \subseteq undone'
      /\ deleted \subseteq deleted' /\ deleted' \subseteq deleted \cup {d}

(* A worker whose record is as it was.                                     *)
LEMMA SameWorker ==
  ASSUME NEW v \in Workers, work'[v] = work[v]
  PROVE  /\ Rank(v)' = Rank(v) /\ Undos(v)' = Undos(v) /\ Step(v)' = Step(v)
         /\ Creating(v)' <=> Creating(v)
<1>1. Creating(v)' <=> Creating(v)
  BY Zenon DEF Creating
<1>2. Rank(v)' = Rank(v)
  BY <1>1, Zenon DEF Rank
<1>3. Undos(v)' = Undos(v)
  BY DEF Undos
<1>4. Step(v)' = Step(v)
  BY Zenon DEF Step
<1> QED
  BY <1>1, <1>2, <1>3, <1>4

(* What is to be shown of a create after a step.                           *)
LEMMA CreateLift ==
  ASSUME NEW w, NEW d, work'[w].def = d,
         Rank(w)' > 2 => \A e \in Definitions \ {d} : Target[e] = Target[d] => manifest'[e] = "none",
         InOrder(work'[w].undo),
         \A s \in Undos(w)' :
           /\ CreatePlace[s] < Rank(w)' /\ (s = "credentials" => d \in WithCredentials)
           /\ s \in FileSteps => disk'[FileOf(s, d)] \in Left(d),
         "directory" \in Undos(w)' => work'[w].new,
         work'[w].new => disk'[DirectoryOf(d)] \in {Nobody, d} /\ Rank(w)' > 3,
         ~work'[w].new /\ disk'[DirectoryOf(d)] = d => work'[w].op = "rollback" /\ Rank(w)' = 3,
         work'[w].bad => Rank(w)' > 3,
         d \in made' <=> work'[w].new /\ manifest'[d] # "none",
         manifest'[d] # "attention"
  PROVE  CreateStands(w)'
<1>1. Rank(w)' > 2 => Alone(work[w].def)'
  BY Zenon DEF Alone
<1> QED
  BY <1>1, Zenon DEF CreateStands, DirectoryOf, FileOf

(* Of a create that has not failed.                                        *)
LEMMA ForwardLift ==
  ASSUME NEW w, NEW d, work'[w].def = d,
         Rank(w)' = 2 => \A e \in Definitions : manifest'[e] # "none" => e \in work'[w].seen,
         manifest'[d] = IF Rank(w)' <= 7 THEN "none" ELSE "active",
         Rank(w)' > 7 => "manifest" \in Undos(w)',
         \A s \in FileSteps :
           CreatePlace[s] < Rank(w)' /\ (s = "credentials" => d \in WithCredentials)
             => disk'[FileOf(s, d)] # Nobody,
         \A f \in OwnFiles(d) : disk'[f] = d => \E s \in Undos(w)' : f = FileOf(s, d),
         ~work'[w].bad
  PROVE  ForwardStands(w)'
  BY Zenon DEF ForwardStands, FileOf, OwnFiles, UnitFiles, Credentials

(* Of a rollback.                                                          *)
LEMMA RollbackLift ==
  ASSUME NEW w, NEW d, work'[w].def = d,
         d \notin unnoted' /\ ~work'[w].bad
           => \A f \in OwnFiles(d) : disk'[f] = d => \E s \in Undos(w)' : f = FileOf(s, d),
         d \notin unnoted' \cup undone' /\ manifest'[d] = "active" => "manifest" \in Undos(w)'
  PROVE  RollbackStands(w)'
  BY Zenon DEF RollbackStands, FileOf, OwnFiles, UnitFiles, Credentials

(* Of a delete.                                                            *)
LEMMA DeleteLift ==
  ASSUME NEW w, NEW d, work'[w].def = d,
         Rank(w)' \in 2..12 => manifest'[d] = "attention",
         Rank(w)' = 13 => manifest'[d] = "none",
         Rank(w)' > 5 => disk'[FileOf("mount", d)] # d,
         Rank(w)' > 6 => disk'[FileOf("automount", d)] # d,
         Rank(w)' > 7 /\ d \in WithCredentials => disk'[FileOf("credentials", d)] # d,
         Rank(w)' > 11 => disk'[DirectoryOf(d)] # d,
         Rank(w)' \in 3..12 => Target[d] \notin armed' /\ job'[Target[d]] # "start",
         Rank(w)' \in 4..12 => Target[d] \notin mounted',
         Rank(w)' \in 5..12 => Target[d] \notin enabled'
  PROVE  DeleteStands(w)'
  BY Zenon DEF DeleteStands, FileOf, DirectoryOf

(* What a bystander sees of a worker's step.                               *)
LEMMA Seen ==
  ASSUME IInv, NEW w \in Workers, work[w].op # "idle", Touches(w),
         NEW d \in Definitions, d # work[w].def
  PROVE  /\ manifest'[d] = manifest[d] /\ (d \in made' <=> d \in made)
         /\ \A f \in Files : disk'[f] = d <=> disk[f] = d
         /\ (Alone(d) /\ ~Creating(w)) => Alone(d)'
         /\ manifest[d] # "none" => /\ \A f \in OwnFiles(d) : disk'[f] = disk[f]
                                    /\ SameUnits(Target[d])
<1>1. work[w].def \in Definitions /\ work[w].def # Nobody
  BY AtWork, MountsAssumption, Zenon DEF IInv
<1>2. manifest'[d] = manifest[d] /\ (d \in made' <=> d \in made)
  BY Zenon DEF Touches
<1>3. ASSUME NEW f \in Files
      PROVE  disk'[f] = d <=> disk[f] = d
  <2>1. d # Nobody /\ d # Meanwhile /\ d # Alike
    BY MountsAssumption, Zenon
  <2> QED
    BY <2>1, Zenon DEF Touches, Passed, Left
<1>4. ASSUME Alone(d), ~Creating(w)
      PROVE  Alone(d)'
  <2>1. ASSUME NEW e \in Definitions \ {d}, Target[e] = Target[d]
        PROVE  manifest'[e] = "none"
    <3>1. manifest[e] = "none"
      BY <1>4, <2>1, Zenon DEF Alone
    <3>2. CASE e = work[w].def
      BY <1>4, <3>1, <3>2, Zenon DEF Touches
    <3>3. CASE e # work[w].def
      BY <3>1, <3>3, Zenon DEF Touches
    <3> QED
      BY <3>2, <3>3
  <2> QED
    BY <2>1, Zenon DEF Alone
<1>5. ASSUME manifest[d] # "none"
      PROVE  /\ \A f \in OwnFiles(d) : disk'[f] = disk[f]
             /\ SameUnits(Target[d])
  <2>1. Holds(w) => Target[work[w].def] # Target[d]
    BY <1>1, <1>5, HolderAlone, Zenon DEF Alone
  <2>2. ASSUME NEW f \in OwnFiles(d)
        PROVE  disk'[f] = disk[f]
    <3>1. f \in Files
      BY TheFiles, Zenon
    <3>2. Holds(w) => f \notin OwnFiles(work[w].def)
      BY <1>1, <2>1, SharedFile, Zenon
    <3> QED
      BY <3>1, <3>2, Zenon DEF Touches
  <2>3. Target[d] \in Targets
    BY MountsAssumption
  <2> QED
    BY <2>1, <2>2, <2>3, Zenon DEF Touches
<1> QED
  BY <1>2, <1>3, <1>4, <1>5, Zenon

(* Neither do the files and units of a target that another worker holds    *)
(* change.                                                                 *)
LEMMA HeldIsSafe ==
  ASSUME IInv, NEW w \in Workers, work[w].op # "idle", Touches(w),
         NEW v \in Workers, v # w, Holds(v)
  PROVE  /\ \A f \in OwnFiles(work[v].def) : disk'[f] = disk[f]
         /\ SameUnits(Target[work[v].def])
<1>1. work[v].def \in Definitions /\ work[w].def \in Definitions /\ work[v].def # work[w].def
  <2>1. work[v].def \in Definitions /\ work[w].def \in Definitions
    BY HolderAlone, AtWork, Zenon DEF IInv
  <2> QED
    BY <2>1, MountsAssumption, Zenon DEF IInv, Locks
<1>2. Holds(w) => Target[work[v].def] # Target[work[w].def]
  BY OneHolder, Zenon
<1>3. ASSUME NEW f \in OwnFiles(work[v].def)
      PROVE  disk'[f] = disk[f]
  <2>1. f \in Files
    BY <1>1, TheFiles, Zenon
  <2>2. Holds(w) => f \notin OwnFiles(work[w].def)
    BY <1>1, <1>2, SharedFile, Zenon
  <2> QED
    BY <2>1, <2>2, Zenon DEF Touches
<1>4. SameUnits(Target[work[v].def])
  <2>1. Target[work[v].def] \in Targets
    BY <1>1, MountsAssumption
  <2> QED
    BY <1>2, <2>1, Zenon DEF Touches
<1> QED
  BY <1>3, <1>4

(* A step of one worker leaves what stands for another.                    *)
LEMMA Bystander ==
  ASSUME IInv, NEW w \in Workers, work[w].op # "idle", Touches(w),
         NEW v \in Workers, v # w
  PROVE  Stands(v)'
<1> DEFINE d == work[v].def
<1>1. work'[v] = work[v]
  BY Zenon DEF Touches
<1>2. /\ Rank(v)' = Rank(v) /\ Undos(v)' = Undos(v) /\ Step(v)' = Step(v)
      /\ Creating(v)' <=> Creating(v)
  BY <1>1, SameWorker
<1>3. CASE work[v].op = "idle"
  BY <1>1, <1>2, <1>3, AtRest, Zenon DEF IInv, Stands, Creating
<1>4. CASE work[v].op # "idle"
  <2>1. /\ d \in Definitions /\ work[w].def \in Definitions /\ d # work[w].def /\ d # Nobody
        /\ Stands(v) /\ Where(v)
    <3>1. d \in Definitions /\ work[w].def \in Definitions /\ Where(v)
      BY <1>4, AtWork, Zenon DEF IInv
    <3>2. d # Nobody
      BY <3>1, MountsAssumption, Zenon
    <3> QED
      BY <3>1, <3>2, Zenon DEF IInv, Locks
  <2>2. /\ manifest'[d] = manifest[d] /\ (d \in made' <=> d \in made)
        /\ \A f \in Files : disk'[f] = d <=> disk[f] = d
        /\ (Alone(d) /\ ~Creating(w)) => Alone(d)'
        /\ manifest[d] # "none" => SameUnits(Target[d])
    <3>1. PICK c \in Definitions : c = d
      BY <2>1
    <3>2. /\ manifest'[c] = manifest[c] /\ (c \in made' <=> c \in made)
          /\ \A f \in Files : disk'[f] = c <=> disk[f] = c
          /\ (Alone(c) /\ ~Creating(w)) => Alone(c)'
          /\ manifest[c] # "none" => SameUnits(Target[c])
      BY <2>1, <3>1, Seen, Zenon
    <3>3. Alone(c)' => Alone(d)'
      BY <1>1, <3>1, Zenon DEF Alone
    <3> QED
      BY <3>1, <3>2, <3>3, Zenon
  <2>3. Holds(v) => (\A f \in OwnFiles(d) : disk'[f] = disk[f]) /\ SameUnits(Target[d])
    BY HeldIsSafe, Zenon
  <2>4. /\ OwnFiles(d) \subseteq Files /\ DirectoryOf(d) \in OwnFiles(d)
        /\ FileOf("mount", d) \in OwnFiles(d) /\ FileOf("automount", d) \in OwnFiles(d)
        /\ d \in WithCredentials => FileOf("credentials", d) \in OwnFiles(d)
        /\ \A s \in FileSteps : (s = "credentials" => d \in WithCredentials) => FileOf(s, d) \in OwnFiles(d)
    BY <2>1, TheFiles, Zenon
  <2>5. unnoted \subseteq unnoted' /\ undone \subseteq undone'
    BY Zenon DEF Touches
  <2> DEFINE r == Rank(v)
  <2>6. ASSUME Creating(v)
        PROVE  CreateStands(v)'
    <3>1. ~Creating(w)
      BY <2>6, Zenon DEF IInv, Locks
    <3>2. r > 2 => Holds(v)
      BY <2>6, Zenon DEF Holds
    <3>3. CreateStands(v)
      BY <2>1, <2>6, Zenon DEF Stands
    <3>4. r > 2 => Alone(d)'
      BY <2>2, <3>1, <3>3, Zenon DEF CreateStands
    <3>5. \A s \in Undos(v) :
            /\ CreatePlace[s] < r /\ (s = "credentials" => d \in WithCredentials)
            /\ s \in FileSteps => disk'[FileOf(s, d)] \in Left(d)
      <4>1. ASSUME NEW s \in FileSteps, CreatePlace[s] < r
            PROVE  Holds(v)
        <5>1. r \in Int
          BY <2>1, <2>6 DEF Where
        <5>2. r > 2
          BY <4>1, <5>1, CreatePlaces DEF FileSteps
        <5> QED
          BY <3>2, <5>2
      <4> QED
        BY <2>3, <2>4, <3>3, <4>1, Zenon DEF CreateStands
    <3>6. /\ "directory" \in Undos(v) => work[v].new
          /\ ~work[v].new /\ disk'[DirectoryOf(d)] = d => work[v].op = "rollback" /\ r = 3
          /\ work[v].bad => r > 3
          /\ d \in made' <=> work[v].new /\ manifest'[d] # "none"
          /\ manifest'[d] # "attention"
          /\ InOrder(work[v].undo)
      BY <2>2, <2>4, <3>3, Zenon DEF CreateStands
    <3>7. work[v].new => disk'[DirectoryOf(d)] \in {Nobody, d} /\ r > 3
      <4>1. r \in Int
        BY <2>1, <2>6 DEF Where
      <4>2. r > 3 => Holds(v)
        BY <4>1, <3>2
      <4> QED
        BY <2>3, <2>4, <3>3, <4>2, Zenon DEF CreateStands
    <3> QED
      BY <1>1, <1>2, <3>4, <3>5, <3>6, <3>7, Zenon DEF CreateStands, DirectoryOf, FileOf
  <2>7. ASSUME work[v].op = "create"
        PROVE  ForwardStands(v)'
    <3>1. Creating(v) /\ ~Creating(w) /\ r \in Int
      <4>1. Creating(v)
        BY <2>7, Zenon DEF Creating
      <4> QED
        BY <2>1, <4>1 DEF IInv, Locks, Where
    <3>2. ForwardStands(v)
      BY <2>1, <2>7, Zenon DEF Stands
    <3>3. r = 2 => \A e \in Definitions : manifest'[e] # "none" => e \in work[v].seen
      <4>1. \A e \in Definitions : manifest'[e] # "none" => manifest[e] # "none"
        BY <3>1, Zenon DEF Touches
      <4> QED
        BY <3>2, <4>1, Zenon DEF ForwardStands
    <3>4. \A s \in FileSteps :
            CreatePlace[s] < r /\ (s = "credentials" => d \in WithCredentials)
              => disk'[FileOf(s, d)] # Nobody
      <4>1. ASSUME NEW s \in FileSteps, CreatePlace[s] < r
            PROVE  Holds(v)
        BY <3>1, <4>1, CreatePlaces DEF FileSteps, Holds
      <4> QED
        BY <2>3, <2>4, <3>2, <4>1, Zenon DEF ForwardStands
    <3>5. \A f \in OwnFiles(d) : disk'[f] = d => \E s \in Undos(v) : f = FileOf(s, d)
      BY <2>2, <2>4, <3>2, Zenon DEF ForwardStands
    <3>6. /\ manifest'[d] = IF r <= 7 THEN "none" ELSE "active"
          /\ r > 7 => "manifest" \in Undos(v)
          /\ ~work[v].bad
      BY <2>2, <3>2, Zenon DEF ForwardStands
    <3> QED
      BY <1>1, <1>2, <3>3, <3>4, <3>5, <3>6, Zenon
      DEF ForwardStands, FileOf, OwnFiles, UnitFiles, Credentials
  <2>8. ASSUME work[v].op = "rollback"
        PROVE  RollbackStands(v)'
    <3>1. RollbackStands(v)
      BY <2>1, <2>8, Zenon DEF Stands
    <3>2. d \notin unnoted' /\ ~work[v].bad
            => \A f \in OwnFiles(d) : disk'[f] = d => \E s \in Undos(v) : f = FileOf(s, d)
      BY <2>2, <2>4, <2>5, <3>1, Zenon DEF RollbackStands
    <3>3. d \notin (unnoted' \cup undone') /\ manifest'[d] = "active" => "manifest" \in Undos(v)
      BY <2>2, <2>5, <3>1, Zenon DEF RollbackStands
    <3> QED
      BY <1>1, <1>2, <3>2, <3>3, Zenon DEF RollbackStands, FileOf, OwnFiles, UnitFiles, Credentials
  <2>9. ASSUME work[v].op = "delete"
        PROVE  DeleteStands(v)'
    <3>1. DeleteStands(v) /\ r \in Int
      BY <2>1, <2>9 DEF Stands, Where
    <3>2. r \in 2..12 => SameUnits(Target[d])
      BY <2>2, <3>1, Zenon DEF DeleteStands
    <3>3. r \in 3..12 => r \in 2..12
      BY <3>1
    <3>4. r \in 4..12 => r \in 2..12
      BY <3>1
    <3>5. r \in 5..12 => r \in 2..12
      BY <3>1
    <3>6. /\ r \in 3..12 => Target[d] \notin armed' /\ job'[Target[d]] # "start"
          /\ r \in 4..12 => Target[d] \notin mounted'
          /\ r \in 5..12 => Target[d] \notin enabled'
      BY <3>1, <3>2, <3>3, <3>4, <3>5, Zenon DEF DeleteStands, SameUnits
    <3>7. /\ r \in 2..12 => manifest'[d] = "attention"
          /\ r = 13 => manifest'[d] = "none"
          /\ r > 5 => disk'[FileOf("mount", d)] # d
          /\ r > 6 => disk'[FileOf("automount", d)] # d
          /\ r > 7 /\ d \in WithCredentials => disk'[FileOf("credentials", d)] # d
          /\ r > 11 => disk'[DirectoryOf(d)] # d
      BY <2>2, <2>4, <3>1, Zenon DEF DeleteStands
    <3> QED
      BY <1>1, <1>2, <3>6, <3>7, Zenon DEF DeleteStands, FileOf, DirectoryOf
  <2>10. work[v].op \in {"mount", "unmount"} /\ work[v].at > 1 => manifest'[d] # "none"
    BY <2>1, <2>2, Zenon DEF Stands
  <2>11. ASSUME work[v].waits
         PROVE  Holds(v)' /\ Step(v) \in JobSteps /\ job'[Target[d]] = Step(v)
    <3>1. Holds(v) /\ Step(v) \in JobSteps /\ job[Target[d]] = Step(v)
      BY <2>1, <2>11, Zenon DEF Stands
    <3>2. Holds(v)'
      BY <1>1, <1>2, <2>2, <3>1, Zenon DEF Holds
    <3> QED
      BY <2>3, <3>1, <3>2, Zenon DEF SameUnits
  <2> QED
    BY <1>1, <1>2, <2>6, <2>7, <2>8, <2>9, <2>10, <2>11, Zenon DEF Stands
<1> QED
  BY <1>3, <1>4

(* A step of a worker leaves what is recorded of other definitions.        *)
LEMMA OthersKept ==
  ASSUME IInv, NEW w \in Workers, work[w].op # "idle", Touches(w),
         NEW e \in Definitions, e # work[w].def
  PROVE  Kept(e)'
<1>1. /\ Kept(e) /\ e # Nobody
      /\ work[w].def \in Definitions /\ work[w].def \in used
  BY AtWork, MountsAssumption, Zenon DEF IInv
<1>2. /\ manifest'[e] = manifest[e] /\ (e \in made' <=> e \in made)
      /\ \A f \in Files : disk'[f] = e <=> disk[f] = e
      /\ manifest[e] # "none" => \A f \in OwnFiles(e) : disk'[f] = disk[f]
  BY Seen, ZenonT(30)
<1>3. OwnFiles(e) \subseteq Files /\ DirectoryOf(e) \in OwnFiles(e)
  BY TheFiles, Zenon
<1>4. /\ used' = used /\ cut' = cut /\ unnoted \subseteq unnoted' /\ undone \subseteq undone'
      /\ e \in deleted' => e \in deleted
  BY Zenon DEF Touches
<1>5. ASSUME NEW v \in Workers
      PROVE  /\ work'[v].def = e => v # w /\ work'[v] = work[v]
             /\ work[v].def = e => v # w /\ work'[v] = work[v]
  BY <1>1, Zenon DEF Touches
<1>6. /\ e \in made' => manifest'[e] # "none" /\ disk'[DirectoryOf(e)] \in {Nobody, e}
      /\ manifest'[e] # "none" /\ disk'[DirectoryOf(e)] = e => e \in made'
      /\ e \notin used' => manifest'[e] = "none" /\ \A f \in OwnFiles(e) : disk'[f] # e
      /\ e \notin unnoted' \cup undone' /\ manifest'[e] = "active" => \A f \in OwnFiles(e) : disk'[f] # Nobody
  BY <1>1, <1>2, <1>3, <1>4, Zenon DEF Kept
<1>7. ASSUME e \notin unnoted' \cup cut', manifest'[e] = "none",
             NEW f \in OwnFiles(e), disk'[f] = e
      PROVE  \E v \in Workers : work'[v].def = e /\ Creating(v)'
  <2>1. PICK v \in Workers : work[v].def = e /\ Creating(v)
    BY <1>1, <1>2, <1>3, <1>4, <1>7, Zenon DEF Kept
  <2> QED
    BY <1>5, <2>1, SameWorker, Zenon
<1>8. ASSUME Gone(e)
      PROVE  Gone(e)'
  <2>1. e \in used' /\ manifest'[e] = "none" /\ \A f \in OwnFiles(e) : disk'[f] # e
    BY <1>2, <1>3, <1>4, <1>8, Zenon DEF Gone
  <2>2. ASSUME Solo(e)'
        PROVE  Quiet(Target[e])'
    <3>1. Solo(e) /\ Target[work[w].def] # Target[e]
      BY <1>1, <1>4, <2>2, Zenon DEF Solo
    <3>2. SameUnits(Target[e])
      BY <3>1, MountsAssumption, Zenon DEF Touches
    <3> QED
      BY <1>8, <3>1, <3>2, Zenon DEF Gone, Quiet, SameUnits
  <2> QED
    BY <2>1, <2>2, Zenon DEF Gone, OwnFiles, UnitFiles, Credentials, FileOf
<1>9. ASSUME NEW v \in Workers
      PROVE  /\ e \in deleted' /\ work'[v].def = e => ~Creating(v)' /\ work'[v].at = 1
             /\ work'[v].def = e /\ work'[v].op = "delete" /\ Rank(v)' = 13 => Gone(e)'
  BY <1>1, <1>4, <1>5, <1>8, SameWorker, Zenon DEF Kept
<1>10. e \in deleted' => Gone(e)'
  BY <1>1, <1>4, <1>8, Zenon DEF Kept
<1> QED
  BY <1>6, <1>7, <1>9, <1>10, Zenon DEF Kept, DirectoryOf, OwnFiles, UnitFiles, Credentials, FileOf

(* So a step of a worker keeps the invariant if it keeps what is said of   *)
(* the worker and of its definition.                                       *)
LEMMA OwnConcern ==
  ASSUME IInv, NEW w \in Workers, work[w].op # "idle", Touches(w), Types', Stands(w)',
         NEW d, d = work[w].def, Kept(d)'
  PROVE  IInv'
<1>1. d \in Definitions /\ d # Nobody
  BY AtWork, MountsAssumption, Zenon DEF IInv
<1>2. \A v \in Workers : Stands(v)'
  BY Bystander, Zenon
<1>3. \A e \in Definitions : Kept(e)'
  BY OthersKept, Zenon
<1>4. Locks'
  <2> SUFFICES ASSUME NEW u \in Workers, NEW v \in Workers, u # v
               PROVE  /\ work'[u].def = work'[v].def => work'[u].def = Nobody
                      /\ ~(Creating(u)' /\ Creating(v)')
    BY Zenon DEF Locks
  <2>1. /\ work'[u].def = work[u].def \/ work'[u].def = Nobody
        /\ work'[v].def = work[v].def \/ work'[v].def = Nobody
        /\ Creating(u)' => Creating(u)
        /\ Creating(v)' => Creating(v)
    BY SameWorker, Zenon DEF Touches
  <2> QED
    BY <2>1, Zenon DEF IInv, Locks
<1>5. OneDefinitionPerTarget'
  <2> SUFFICES ASSUME NEW a \in Definitions, NEW b \in Definitions,
                      manifest'[a] # "none", manifest'[b] # "none", Target[a] = Target[b], a # b
               PROVE  FALSE
    BY Zenon DEF OneDefinitionPerTarget
  <2>1. CASE manifest[d] # "none" \/ (a # d /\ b # d)
    <3>1. manifest[a] # "none" /\ manifest[b] # "none"
      BY <2>1, Zenon DEF Touches
    <3> QED
      BY <3>1, Zenon DEF IInv, OneDefinitionPerTarget
  <2>2. CASE manifest[d] = "none" /\ (a = d \/ b = d)
    <3>1. Creating(w) /\ Rank(w) > 2
      BY <2>2, Zenon DEF Touches
    <3>2. Alone(d)
      BY <3>1, HolderAlone, Zenon DEF Holds
    <3>3. /\ a # d => manifest'[a] = manifest[a]
          /\ b # d => manifest'[b] = manifest[b]
      BY Zenon DEF Touches
    <3>4. CASE a = d
      BY <3>2, <3>3, <3>4, Zenon DEF Alone
    <3>5. CASE b = d
      <4>1. Target[a] = Target[d] /\ a \in Definitions \ {d} /\ manifest'[a] = manifest[a]
        BY <3>3, <3>5, Zenon
      <4> QED
        BY <3>2, <4>1, Zenon DEF Alone
    <3> QED
      BY <2>2, <3>4, <3>5, Zenon
  <2> QED
    BY <2>1, <2>2, Zenon
<1> QED
  BY <1>2, <1>3, <1>4, <1>5, Zenon DEF IInv

(* What the type invariant says of a worker's record.                      *)
SoundRecord(k) ==
  /\ k \in WorkRecords
  /\ k.op = "idle" => k = Idle
  /\ k.op # "idle" =>
       /\ k.def \in used /\ k.at \in 1..(Len(Steps(k.op, k.def)) + 1)
       /\ k.active \subseteq k.seen /\ k.seen \subseteq used
       /\ k.undo # <<>> => k.op \in {"create", "rollback"}
       /\ k.waits => k.op # "rollback" /\ k.at <= Len(Steps(k.op, k.def)) /\ ~k.late

HostTypes ==
  /\ disk \in [Files -> Definitions \cup {Nobody, Foreign, Meanwhile, Alike}]
  /\ manifest \in [Definitions -> {"none", "active", "attention"}]
  /\ made \subseteq Definitions
  /\ enabled \subseteq Targets /\ armed \subseteq Targets /\ mounted \subseteq Targets
  /\ job \in [Targets -> {"none"} \cup JobSteps]
  /\ used \subseteq Definitions /\ deleted \subseteq used
  /\ faults \in 0..MaxFaults

(* The type invariant, record by record.                                   *)
LEMMA TypesAre ==
  ASSUME Types
  PROVE  /\ HostTypes /\ work \in [Workers -> WorkRecords]
         /\ \A w \in Workers : SoundRecord(work[w])
<1>1. HostTypes /\ work \in [Workers -> WorkRecords]
  BY Zenon DEF Types, TypeOK, HostTypes
<1>2. ASSUME NEW w \in Workers
      PROVE  SoundRecord(work[w])
  <2>1. work[w] \in WorkRecords /\ (work[w].op = "idle" => work[w] = Idle)
    BY Zenon DEF Types
  <2>2. work[w] = Idle => work[w].op = "idle"
    BY DEF Idle
  <2> QED
    BY <2>1, <2>2, Zenon DEF Types, TypeOK, SoundRecord
<1> QED
  BY <1>1, <1>2

(* A step that changes one record.                                         *)
LEMMA TypesStep ==
  ASSUME Types, HostTypes', NEW w \in Workers, NEW k, work' = [work EXCEPT ![w] = k],
         used \subseteq used', SoundRecord(k)'
  PROVE  Types' /\ work'[w] = k /\ \A v \in Workers \ {w} : work'[v] = work[v]
<1>1. work \in [Workers -> WorkRecords] /\ \A v \in Workers : SoundRecord(work[v])
  BY TypesAre, Zenon
<1>2. work'[w] = k /\ \A v \in Workers \ {w} : work'[v] = work[v]
  BY <1>1
<1>3. work' \in [Workers -> WorkRecords]
  BY <1>1 DEF SoundRecord
<1>4. ASSUME NEW v \in Workers \ {w}
      PROVE  SoundRecord(work[v])'
  BY <1>1, <1>2, Zenon DEF SoundRecord
<1>5. SoundRecord(work[w])'
  BY <1>2, Zenon DEF SoundRecord
<1>6. \A v \in Workers : SoundRecord(work[v])'
  BY <1>4, <1>5, Zenon
<1>7. ASSUME NEW v \in Workers
      PROVE  \/ work'[v] = Idle
             \/ /\ work'[v].op \in {"create", "rollback", "mount", "unmount", "delete"}
                /\ work'[v].def \in used' /\ work'[v].at \in 1..(Len(Steps(work'[v].op, work'[v].def)) + 1)
                /\ work'[v].active \subseteq work'[v].seen /\ work'[v].seen \subseteq used'
                /\ work'[v].undo # <<>> => work'[v].op \in {"create", "rollback"}
                /\ work'[v].waits => /\ work'[v].op # "rollback"
                                     /\ work'[v].at <= Len(Steps(work'[v].op, work'[v].def)) /\ ~work'[v].late
  <2>1. work'[v].op \in {"idle", "create", "rollback", "mount", "unmount", "delete"}
    BY <1>3 DEF WorkRecords
  <2> QED
    BY <1>6, <2>1, Zenon DEF SoundRecord
<1>8. TypeOK'
  BY <1>7, Zenon DEF TypeOK, HostTypes, Steps
<1>9. deleted' \subseteq used' /\ \A v \in Workers : work'[v].op = "idle" => work'[v] = Idle
  BY <1>6, Zenon DEF HostTypes, SoundRecord
<1> QED
  BY <1>2, <1>3, <1>8, <1>9, Zenon DEF Types

(* What is recorded of the worker's own definition: nobody else is at work *)
(* on it.                                                                  *)
LEMMA OwnKept ==
  ASSUME IInv, NEW w \in Workers, work[w].op # "idle", Touches(w), NEW d, d = work[w].def,
         d \in made' => manifest'[d] # "none" /\ disk'[DirectoryOf(d)] \in {Nobody, d},
         manifest'[d] # "none" /\ disk'[DirectoryOf(d)] = d => d \in made',
         d \notin unnoted' \cup cut' /\ manifest'[d] = "none"
           => (work'[w].def = d /\ Creating(w)') \/ \A f \in OwnFiles(d) : disk'[f] # d,
         d \notin unnoted' \cup undone' /\ manifest'[d] = "active" => \A f \in OwnFiles(d) : disk'[f] # Nobody,
         d \in deleted' => Gone(d)',
         d \in deleted' /\ work'[w].def = d => ~Creating(w)' /\ work'[w].at = 1,
         work'[w].def = d /\ work'[w].op = "delete" /\ Rank(w)' = 13 => Gone(d)'
  PROVE  Kept(d)'
<1>1. d \in used /\ d # Nobody /\ used' = used
  BY AtWork, MountsAssumption, Zenon DEF IInv, Touches
<1>2. ASSUME NEW v \in Workers \ {w}
      PROVE  work'[v].def # d
  <2>1. work[v].def # d
    BY <1>1, Zenon DEF IInv, Locks
  <2>2. work'[v] = work[v]
    BY Zenon DEF Touches
  <2> QED
    BY <2>1, <2>2
<1>3. ASSUME NEW v \in Workers
      PROVE  /\ d \in deleted' /\ work'[v].def = d => ~Creating(v)' /\ work'[v].at = 1
             /\ work'[v].def = d /\ work'[v].op = "delete" /\ Rank(v)' = 13 => Gone(d)'
  BY <1>2, Zenon
<1> QED
  BY <1>1, <1>3, Zenon DEF Kept, DirectoryOf, OwnFiles, UnitFiles, Credentials, FileOf

(* Before the step.                                                        *)
LEMMA OwnBefore ==
  ASSUME IInv, NEW w \in Workers, work[w].op # "idle", NEW d, d = work[w].def
  PROVE  /\ d \in Definitions /\ d \in used /\ d # Nobody /\ Where(w) /\ Stands(w) /\ Kept(d)
         /\ d \in made => manifest[d] # "none" /\ disk[DirectoryOf(d)] \in {Nobody, d}
         /\ manifest[d] # "none" /\ disk[DirectoryOf(d)] = d => d \in made
         /\ d \notin unnoted \cup cut /\ manifest[d] = "none"
              => Creating(w) \/ \A f \in OwnFiles(d) : disk[f] # d
         /\ d \notin unnoted \cup undone /\ manifest[d] = "active" => \A f \in OwnFiles(d) : disk[f] # Nobody
         /\ d \in deleted => Gone(d) /\ ~Creating(w) /\ work[w].at = 1
         /\ work[w].op = "delete" /\ Rank(w) = 13 => Gone(d)
<1>1. d \in Definitions /\ d \in used /\ d # Nobody /\ Where(w) /\ Stands(w) /\ Kept(d)
  BY AtWork, MountsAssumption, Zenon DEF IInv
<1>2. \A v \in Workers \ {w} : work[v].def # d
  BY <1>1, Zenon DEF IInv, Locks
<1>3. d \notin unnoted \cup cut /\ manifest[d] = "none"
        => Creating(w) \/ \A f \in OwnFiles(d) : disk[f] # d
  BY <1>1, <1>2, Zenon DEF Kept
<1> QED
  BY <1>1, <1>3, Zenon DEF Kept

(* A worker that returns.                                                  *)
LEMMA Returning ==
  ASSUME IInv, NEW w \in Workers, HostTypes', used' = used, Return(w)
  PROVE  /\ Types' /\ work'[w] = Idle /\ Stands(w)' /\ ~Creating(w)' /\ work'[w].def = Nobody
         /\ work'[w].op = "idle" /\ \A v \in Workers \ {w} : work'[v] = work[v]
<1>1. SoundRecord(Idle)'
  BY MountsAssumption DEF SoundRecord, Idle, WorkRecords
<1>2. work' = [work EXCEPT ![w] = Idle]
  BY DEF Return
<1>3. Types' /\ work'[w] = Idle /\ \A v \in Workers \ {w} : work'[v] = work[v]
  BY <1>1, <1>2, TypesStep, Zenon DEF IInv
<1>4. Idle.op = "idle" /\ Idle.def = Nobody /\ ~Idle.waits
  BY DEF Idle
<1>5. ~Creating(w)'
  BY <1>3, <1>4 DEF Creating
<1>6. Stands(w)'
  BY <1>3, <1>4, <1>5 DEF Stands
<1> QED
  BY <1>3, <1>4, <1>5, <1>6

(* A step that leaves the host alone.                                      *)
LEMMA HostStays ==
  ASSUME NEW w \in Workers, UNCHANGED <<files, systemd, used, cut>>,
         \A v \in Workers \ {w} : work'[v] = work[v],
         work'[w].def \in {work[w].def, Nobody}, Creating(w)' => Creating(w),
         unnoted \subseteq unnoted', undone \subseteq undone',
         deleted \subseteq deleted', deleted' \subseteq deleted \cup {work[w].def}
  PROVE  Touches(w)
<1>1. disk' = disk /\ manifest' = manifest /\ made' = made /\ used' = used /\ cut' = cut
      /\ enabled' = enabled /\ armed' = armed /\ mounted' = mounted /\ job' = job
  BY Zenon DEF files, systemd
<1> QED
  BY <1>1, Zenon DEF Touches, SameUnits

(* The types of what a step leaves alone.                                  *)
LEMMA HostTypesStay ==
  ASSUME IInv, UNCHANGED <<files, systemd, used>>, deleted' \subseteq used', faults' \in 0..MaxFaults
  PROVE  HostTypes'
  BY TypesAre, Zenon DEF IInv, HostTypes, files, systemd

(* A fault is counted.                                                     *)
LEMMA FaultCounts ==
  ASSUME IInv, Fault \/ UNCHANGED faults
  PROVE  faults' \in 0..MaxFaults
<1>1. faults \in 0..MaxFaults /\ MaxFaults \in Nat
  BY TypesAre, MountsAssumption DEF IInv, HostTypes
<1> QED
  BY <1>1 DEF Fault

(* An operation that succeeds: its create has left an active manifest, its *)
(* delete nothing.                                                         *)
LEMMA FinishKeeps ==
  ASSUME IInv, NEW w \in Workers, Finish(w)
  PROVE  IInv'
<1>1. PICK d : d = work[w].def
  OBVIOUS
<1>2. /\ work[w].op \in {"create", "mount", "unmount", "delete"} /\ work[w].op # "idle"
      /\ work[w].at > Len(Steps(work[w].op, d))
      /\ Return(w) /\ UNCHANGED <<files, systemd, used, faults, unnoted, cut, undone>>
      /\ deleted' = IF work[w].op = "delete" THEN deleted \cup {d} ELSE deleted
  BY <1>1 DEF Finish
<1>3. /\ d \in Definitions /\ d \in used /\ Where(w) /\ Stands(w)
      /\ d \in made => manifest[d] # "none" /\ disk[DirectoryOf(d)] \in {Nobody, d}
      /\ manifest[d] # "none" /\ disk[DirectoryOf(d)] = d => d \in made
      /\ d \notin unnoted \cup cut /\ manifest[d] = "none"
           => Creating(w) \/ \A f \in OwnFiles(d) : disk[f] # d
      /\ d \notin unnoted \cup undone /\ manifest[d] = "active" => \A f \in OwnFiles(d) : disk[f] # Nobody
      /\ d \in deleted => Gone(d)
      /\ work[w].op = "delete" /\ Rank(w) = 13 => Gone(d)
  BY <1>1, <1>2, OwnBefore, Zenon
<1>4. deleted \subseteq used
  BY DEF IInv, Types
<1>5. HostTypes'
  <2>1. deleted' \subseteq used' /\ deleted \subseteq deleted' /\ deleted' \subseteq deleted \cup {d}
    BY <1>2, <1>3, <1>4
  <2> QED
    BY <1>2, <2>1, HostTypesStay, FaultCounts
<1>6. /\ Types' /\ Stands(w)' /\ ~Creating(w)' /\ work'[w].def = Nobody /\ work'[w].op = "idle"
      /\ \A v \in Workers \ {w} : work'[v] = work[v]
  BY <1>2, <1>5, Returning
<1>7. Touches(w)
  <2>1. deleted \subseteq deleted' /\ deleted' \subseteq deleted \cup {d}
    BY <1>2
  <2>2. UNCHANGED <<files, systemd, used, cut>> /\ unnoted \subseteq unnoted' /\ undone \subseteq undone'
    BY <1>2, Zenon
  <2> QED
    BY <1>1, <1>6, <2>1, <2>2, HostStays, Zenon
<1>8. disk' = disk /\ manifest' = manifest /\ made' = made /\ unnoted' = unnoted /\ cut' = cut /\ undone' = undone
  BY <1>2, Zenon DEF files
<1>9. Creating(w) => manifest[d] # "none"
  <2>1. ASSUME Creating(w)
        PROVE  work[w].op = "create" /\ Rank(w) = 11
    BY <1>1, <1>2, <1>3, <2>1 DEF Where, Creating
  <2> QED
    BY <1>1, <1>3, <2>1, SMTT(30), Zenon, SMTT(60) DEF Stands, ForwardStands
<1>10. d \in deleted' => Gone(d)
  <2>1. work[w].op = "delete" => Rank(w) = 13
    BY <1>1, <1>2, <1>3, Zenon DEF Where
  <2> QED
    BY <1>2, <1>3, <2>1, Zenon
<1>11. Gone(d) => Gone(d)'
  BY <1>2, <1>8, Zenon DEF Gone, Solo, Quiet, systemd, OwnFiles, UnitFiles, Credentials, FileOf
<1>12. d # Nobody
  BY <1>3, MountsAssumption
<1>13. Kept(d)'
  BY <1>1, <1>2, <1>3, <1>6, <1>7, <1>8, <1>9, <1>10, <1>11, <1>12, OwnKept, Zenon
<1> QED
  BY <1>1, <1>2, <1>6, <1>7, <1>13, OwnConcern, Zenon

(* A definition that is gone stays so if the worker does not hold it.      *)
LEMMA GoneStays ==
  ASSUME IInv, NEW w \in Workers, work[w].op # "idle", Touches(w), NEW d, d = work[w].def,
         UNCHANGED files, Gone(d), ~Creating(w)
  PROVE  Gone(d)'
<1>1. d \in Definitions /\ Target[d] \in Targets
  BY OwnBefore, MountsAssumption
<1>2. ~Holds(w)
  BY Zenon DEF Holds, Gone
<1>3. SameUnits(Target[d]) /\ used' = used
  BY <1>1, <1>2, Zenon DEF Touches
<1> QED
  BY <1>3, Zenon DEF Gone, Solo, Quiet, SameUnits, files, OwnFiles, UnitFiles, Credentials, FileOf

(* A step that changes no file and no record of what happened.             *)
LEMMA FilesStay ==
  ASSUME IInv, NEW w \in Workers, work[w].op # "idle", Touches(w), Types', Stands(w)',
         NEW d, d = work[w].def, UNCHANGED <<files, history>>,
         Creating(w) => Creating(w)' /\ work'[w].def = d,
         d \in deleted /\ work'[w].def = d => work'[w].at = 1,
         work'[w].def = d /\ work'[w].op = "delete" /\ Rank(w)' = 13
           => work[w].op = "delete" /\ Rank(w) = 13
  PROVE  IInv'
<1>1. /\ d \in Definitions /\ d # Nobody
      /\ d \in made => manifest[d] # "none" /\ disk[DirectoryOf(d)] \in {Nobody, d}
      /\ manifest[d] # "none" /\ disk[DirectoryOf(d)] = d => d \in made
      /\ d \notin unnoted \cup cut /\ manifest[d] = "none"
           => Creating(w) \/ \A f \in OwnFiles(d) : disk[f] # d
      /\ d \notin unnoted \cup undone /\ manifest[d] = "active" => \A f \in OwnFiles(d) : disk[f] # Nobody
      /\ d \in deleted => Gone(d) /\ ~Creating(w)
      /\ work[w].op = "delete" /\ Rank(w) = 13 => Gone(d)
  BY OwnBefore, Zenon
<1>2. /\ disk' = disk /\ manifest' = manifest /\ made' = made /\ UNCHANGED files
      /\ unnoted' = unnoted /\ cut' = cut /\ undone' = undone /\ deleted' = deleted
  BY Zenon DEF files, history
<1>3. /\ d \in deleted' => Gone(d)'
      /\ work[w].op = "delete" /\ Rank(w) = 13 => Gone(d)'
  <2>1. work[w].op = "delete" => ~Creating(w)
    BY DEF Creating
  <2> QED
    BY <1>1, <1>2, <2>1, GoneStays, Zenon
<1>4. d \in deleted => ~Creating(w)'
  BY <1>1, Zenon DEF Touches
<1>5. Kept(d)'
  BY <1>1, <1>2, <1>3, <1>4, OwnKept, Zenon
<1> QED
  BY <1>5, OwnConcern, Zenon

(* A create that fails starts to roll back; what it noted is what there is *)
(* to undo.                                                                *)
LEMMA TurningBack ==
  ASSUME IInv, NEW w \in Workers, work[w].op = "create", HostTypes', used' = used,
         NEW d, d = work[w].def, NEW k \in WorkRecords, work' = [work EXCEPT ![w] = k],
         k.op = "rollback", k.def = d, k.at = work[w].at, ~k.waits, k.undo = work[w].undo,
         k.seen = work[w].seen, k.active = work[w].active, k.new = work[w].new, k.bad = work[w].bad
  PROVE  /\ Types' /\ Creating(w) /\ Creating(w)' /\ work'[w].def = d /\ work'[w].op = "rollback"
         /\ Rank(w)' = Rank(w) /\ Undos(w)' = Undos(w) /\ work'[w] = k
         /\ \A v \in Workers \ {w} : work'[v] = work[v]
<1>1. /\ d \in used /\ work[w].at \in 1..(Len(Steps("create", d)) + 1)
      /\ work[w].active \subseteq work[w].seen /\ work[w].seen \subseteq used
  BY TypesAre, Zenon DEF IInv, SoundRecord
<1>2. SoundRecord(k)'
  <2>1. Steps("create", d) = Steps("rollback", d)
    BY StepsOf, Zenon
  <2> QED
    BY <1>1, <2>1 DEF SoundRecord, Steps
<1>3. Types' /\ work'[w] = k /\ \A v \in Workers \ {w} : work'[v] = work[v]
  BY <1>2, TypesStep, Zenon DEF IInv
<1>4. Creating(w) /\ Creating(w)'
  BY <1>3 DEF Creating
<1>5. Rank(w)' = Rank(w)
  <2>1. Rank(w) = CreateRank(d, work[w].at)
    BY <1>4 DEF Rank
  <2>2. Rank(w)' = CreateRank(d, k.at)
    BY <1>3, <1>4 DEF Rank, CreateRank
  <2> QED
    BY <2>1, <2>2
<1>6. Undos(w)' = Undos(w)
  BY <1>3 DEF Undos
<1> QED
  BY <1>3, <1>4, <1>5, <1>6

(* Then everything that was said of the create is said of the rollback.    *)
LEMMA BackStands ==
  ASSUME IInv, NEW w \in Workers, work[w].op = "create", NEW d, d = work[w].def,
         UNCHANGED files, unnoted' = unnoted, undone' = undone,
         work'[w].op = "rollback", work'[w].def = d, ~work'[w].waits,
         work'[w].undo = work[w].undo, work'[w].new = work[w].new, work'[w].bad = work[w].bad,
         Creating(w), Creating(w)', Rank(w)' = Rank(w), Undos(w)' = Undos(w)
  PROVE  Stands(w)'
<1>1. /\ d \in Definitions /\ CreateStands(w) /\ ForwardStands(w)
      /\ disk' = disk /\ manifest' = manifest /\ made' = made
  BY OwnBefore, Zenon DEF Stands, files
<1>2. Rank(w) \in 1..11
  BY OwnBefore DEF Where
<1>3. disk[DirectoryOf(d)] = d => work[w].new
  <2>1. ASSUME NEW s, DirectoryOf(d) = FileOf(s, d)
        PROVE  s = "directory"
    BY <2>1 DEF DirectoryOf, FileOf
  <2>2. DirectoryOf(d) \in OwnFiles(d)
    BY <1>1, TheFiles, Zenon
  <2> QED
    BY <1>1, <2>1, <2>2, Zenon DEF ForwardStands, CreateStands
<1>4. Alone(d)' <=> Alone(d)
  BY <1>1, Zenon DEF Alone
<1>5. CreateStands(w)'
  <2>1. Rank(w) > 2 => Alone(d)'
    BY <1>1, <1>4, Zenon DEF CreateStands
  <2>2. Alone(d)' => Alone(work[w].def)'
    BY Zenon DEF Alone
  <2> QED
    BY <1>1, <1>3, <2>1, <2>2, Zenon DEF CreateStands, DirectoryOf, FileOf
<1>6. RollbackStands(w)'
  <2>1. manifest[d] = "active" => "manifest" \in Undos(w)
    <3>1. manifest[d] = "active" => ~(Rank(w) <= 7)
      BY <1>1 DEF ForwardStands
    <3> QED
      BY <1>1, <1>2, <3>1 DEF ForwardStands
  <2>2. \A f \in OwnFiles(d) : disk[f] = d => \E s \in Undos(w) : f = FileOf(s, d)
    BY <1>1, Zenon DEF ForwardStands
  <2>3. \A f \in OwnFiles(d) : disk'[f] = d => \E s \in Undos(w)' : f = FileOf(s, d)
    BY <1>1, <2>2, Zenon
  <2>4. /\ d \notin unnoted' /\ ~work'[w].bad
             => \A f \in OwnFiles(d) : disk'[f] = d => \E s \in Undos(w)' : f = FileOf(s, d)
        /\ d \notin unnoted' \cup undone' /\ manifest'[d] = "active" => "manifest" \in Undos(w)'
    BY <1>1, <2>1, <2>3, Zenon
  <2> QED
    BY <2>4, Zenon DEF RollbackStands, FileOf, OwnFiles, UnitFiles, Credentials
<1> QED
  BY <1>5, <1>6, Zenon DEF Stands

(* An operation gives up, and at most a job of its target has ended.       *)
LEMMA GivingUp ==
  ASSUME IInv, NEW w \in Workers, work[w].op \in {"create", "mount", "unmount", "delete"},
         GiveUp(w), HostTypes', UNCHANGED <<files, history>>, used' = used,
         \A t \in Targets : SameUnits(t) \/ (Holds(w) /\ t = Target[work[w].def])
  PROVE  IInv'
<1>1. PICK d : d = work[w].def
  OBVIOUS
<1>2. /\ work[w].op # "idle"
      /\ UNCHANGED files /\ disk' = disk /\ manifest' = manifest /\ made' = made
      /\ unnoted' = unnoted /\ undone' = undone /\ cut' = cut /\ deleted' = deleted
  BY Zenon DEF files, history
<1>3. CASE work[w].op # "create"
  <2>1. Return(w)
    BY <1>3, Zenon DEF GiveUp
  <2>2. /\ Types' /\ Stands(w)' /\ ~Creating(w)' /\ work'[w].def = Nobody /\ work'[w].op = "idle"
        /\ \A v \in Workers \ {w} : work'[v] = work[v]
    BY <2>1, Returning, Zenon
  <2>3. Touches(w)
    BY <1>2, <2>2, Zenon DEF Touches
  <2>4. ~Creating(w)
    BY <1>3 DEF Creating
  <2>5. d # Nobody
    BY <1>1, <1>2, OwnBefore, Zenon
  <2> QED
    BY <1>1, <1>2, <2>2, <2>3, <2>4, <2>5, FilesStay, Zenon
<1>4. CASE work[w].op = "create"
  <2>1. PICK k : k = [work[w] EXCEPT !.op = "rollback", !.waits = FALSE]
    OBVIOUS
  <2>2. work[w] \in WorkRecords
    BY DEF IInv, Types
  <2>3. /\ k \in WorkRecords
        /\ k.op = "rollback" /\ k.def = d /\ k.at = work[w].at /\ ~k.waits /\ k.undo = work[w].undo
        /\ k.seen = work[w].seen /\ k.active = work[w].active /\ k.new = work[w].new /\ k.bad = work[w].bad
    BY <1>1, <2>1, <2>2, Zenon DEF WorkRecords
  <2>4. work' = [work EXCEPT ![w] = k]
    BY <1>4, <2>1, Zenon DEF GiveUp
  <2>5. /\ Types' /\ Creating(w) /\ Creating(w)' /\ work'[w].def = d /\ work'[w].op = "rollback"
        /\ Rank(w)' = Rank(w) /\ Undos(w)' = Undos(w) /\ work'[w] = k
        /\ \A v \in Workers \ {w} : work'[v] = work[v]
    BY <1>1, <1>4, <2>3, <2>4, TurningBack, ZenonT(30)
  <2>6. Stands(w)'
    BY <1>1, <1>2, <1>4, <2>3, <2>5, BackStands, Zenon
  <2>7. Touches(w)
    BY <1>1, <1>2, <2>5, Zenon DEF Touches
  <2>8. d \notin deleted
    BY <1>1, <1>2, <2>5, OwnBefore, Zenon
  <2> QED
    BY <1>1, <1>2, <2>5, <2>6, <2>7, <2>8, FilesStay, Zenon
<1> QED
  BY <1>3, <1>4

(* A step fails.                                                           *)
LEMMA StepFailsKeeps ==
  ASSUME IInv, NEW w \in Workers, StepFails(w)
  PROVE  IInv'
<1>1. /\ work[w].op \in {"create", "mount", "unmount", "delete"}
      /\ GiveUp(w) /\ UNCHANGED <<files, systemd, used, history>>
      /\ Fault \/ UNCHANGED faults
  BY DEF StepFails, AtStep
<1>2. HostTypes'
  <2>1. deleted' \subseteq used'
    BY <1>1 DEF IInv, Types, history
  <2> QED
    BY <1>1, <2>1, HostTypesStay, FaultCounts, Zenon
<1>3. \A t \in Targets : SameUnits(t)
  BY <1>1, Zenon DEF SameUnits, systemd
<1> QED
  BY <1>1, <1>2, <1>3, GivingUp, Zenon

(* Once the mount unit was written, create was past its checks.            *)
LEMMA UnitsCameLater ==
  ASSUME IInv, NEW w \in Workers, Creating(w), UnitsWritten(w)
  PROVE  Rank(w) > 3
<1>1. PICK d : d = work[w].def
  OBVIOUS
<1>2. work[w].op # "idle" /\ Steps(work[w].op, d) = CreateSteps(d) /\ Rank(w) = CreateRank(d, work[w].at)
  BY <1>1, StepsOf, Zenon DEF Creating, Rank
<1>3. d \in Definitions /\ work[w].at \in 1..(Len(CreateSteps(d)) + 1)
  BY <1>1, <1>2, AtWork, Zenon DEF IInv
<1>4. PICK i \in 1..(work[w].at - 1) : CreateSteps(d)[i] = "mount"
  BY <1>1 DEF UnitsWritten
<1>5. Len(CreateSteps(d)) \in Nat
  BY <1>3, CreateShape
<1>6. i \in 1..Len(CreateSteps(d)) /\ i < work[w].at
  BY <1>3, <1>4, <1>5
<1>7. CreateRank(d, i) = 5
  BY <1>3, <1>4, <1>6, CreateShape, CreatePlaces
<1> QED
  BY <1>2, <1>3, <1>5, <1>6, <1>7 DEF CreateRank

(* The end of a rollback: a definition of which something is left has a    *)
(* record.                                                                 *)
LEMMA RollbackEndsKeeps ==
  ASSUME IInv, NEW w \in Workers, RollbackEnds(w)
  PROVE  IInv'
<1>1. PICK d : d = work[w].def
  OBVIOUS
<1>2. PICK reloadFails \in BOOLEAN :
        /\ reloadFails => UnitsWritten(w)
        /\ IF reloadFails /\ ~work[w].late THEN Fault ELSE UNCHANGED faults
        /\ IF work[w].bad \/ reloadFails
           THEN /\ manifest' = [manifest EXCEPT ![d] = "attention"]
                /\ made' = IF work[w].new THEN made \cup {d} ELSE made
           ELSE UNCHANGED <<manifest, made>>
  BY <1>1, Zenon DEF RollbackEnds
<1>3. /\ work[w].op = "rollback" /\ work[w].op # "idle" /\ work[w].undo = <<>> /\ Return(w)
      /\ UNCHANGED <<disk, systemd, used, history>> /\ (Fault \/ UNCHANGED faults)
  BY <1>2 DEF RollbackEnds
<1>4. Creating(w)
  BY <1>3 DEF Creating
<1>5. /\ d \in Definitions /\ d \in used /\ d # Nobody /\ Stands(w)
      /\ d \in made => manifest[d] # "none" /\ disk[DirectoryOf(d)] \in {Nobody, d}
      /\ manifest[d] # "none" /\ disk[DirectoryOf(d)] = d => d \in made
      /\ d \notin unnoted \cup undone /\ manifest[d] = "active" => \A f \in OwnFiles(d) : disk[f] # Nobody
      /\ d \notin deleted
  BY <1>1, <1>3, <1>4, OwnBefore, Zenon
<1>6. CreateStands(w) /\ RollbackStands(w)
  BY <1>3, <1>4, <1>5, Zenon DEF Stands
<1>7. Undos(w) = {}
  BY <1>3 DEF Undos
<1>8. /\ disk' = disk /\ used' = used /\ unnoted' = unnoted /\ cut' = cut /\ undone' = undone /\ deleted' = deleted
      /\ enabled' = enabled /\ armed' = armed /\ mounted' = mounted /\ job' = job
  BY <1>3, Zenon DEF systemd, history
<1>9. work[w].bad \/ reloadFails => Rank(w) > 3
  BY <1>1, <1>2, <1>4, <1>6, UnitsCameLater, Zenon DEF CreateStands
<1>10. Rank(w) \in Int
  BY <1>3, <1>4, AtWork DEF IInv, Where
<1>11. HostTypes
  BY TypesAre, Zenon DEF IInv
<1>12. /\ \A e \in Definitions \ {d} : manifest'[e] = manifest[e] /\ (e \in made' <=> e \in made)
       /\ manifest' \in [Definitions -> {"none", "active", "attention"}] /\ made' \subseteq Definitions
       /\ manifest'[d] = IF work[w].bad \/ reloadFails THEN "attention" ELSE manifest[d]
       /\ d \in made' <=> ((work[w].bad \/ reloadFails) /\ work[w].new) \/ d \in made
  BY <1>2, <1>5, <1>11 DEF HostTypes
<1>13. HostTypes'
  <2>1. faults' \in 0..MaxFaults
    BY <1>3, FaultCounts, Zenon
  <2> QED
    BY <1>8, <1>11, <1>12, <2>1, Zenon DEF HostTypes
<1>14. /\ Types' /\ Stands(w)' /\ ~Creating(w)' /\ work'[w].def = Nobody /\ work'[w].op = "idle"
       /\ \A v \in Workers \ {w} : work'[v] = work[v]
  BY <1>3, <1>8, <1>13, Returning, Zenon
<1>15. Touches(w)
  <2>1. manifest[d] = "none" /\ manifest'[d] # "none" => Rank(w) > 2
    BY <1>9, <1>10, <1>12
  <2>2. \A t \in Targets : SameUnits(t)
    BY <1>8, Zenon DEF SameUnits
  <2> QED
    BY <1>1, <1>4, <1>8, <1>12, <1>14, <2>1, <2>2, Zenon DEF Touches
<1>16. d \in made' => manifest'[d] # "none" /\ disk'[DirectoryOf(d)] \in {Nobody, d}
  BY <1>1, <1>5, <1>6, <1>8, <1>12 DEF CreateStands
<1>17. manifest'[d] # "none" /\ disk'[DirectoryOf(d)] = d => d \in made'
  <2>1. CASE work[w].bad \/ reloadFails
    <3>1. disk[DirectoryOf(d)] = d => work[w].new
      BY <1>1, <1>6, <1>9, <1>10, <2>1, SMTT(30), Zenon, SMTT(60) DEF CreateStands
    <3> QED
      BY <1>8, <1>12, <2>1, <3>1
  <2>2. CASE ~(work[w].bad \/ reloadFails)
    BY <1>5, <1>8, <1>12, <2>2
  <2> QED
    BY <2>1, <2>2, SMTT(30), Zenon, SMTT(60)
<1>18. d \notin unnoted' \cup cut' /\ manifest'[d] = "none" => \A f \in OwnFiles(d) : disk'[f] # d
  <2>1. manifest'[d] = "none" => ~work[w].bad
    BY <1>12
  <2> QED
    BY <1>1, <1>6, <1>7, <1>8, <2>1, Zenon DEF RollbackStands
<1>19. d \notin unnoted' \cup undone' /\ manifest'[d] = "active" => \A f \in OwnFiles(d) : disk'[f] # Nobody
  <2>1. manifest'[d] = "active" => manifest[d] = "active"
    BY <1>12
  <2> QED
    BY <1>5, <1>8, <2>1, Zenon
<1>20. Kept(d)'
  BY <1>1, <1>3, <1>5, <1>8, <1>14, <1>15, <1>16, <1>17, <1>18, <1>19, OwnKept, Zenon
<1> QED
  BY <1>1, <1>3, <1>14, <1>15, <1>20, OwnConcern, Zenon

(* A rollback whose record is lost.                                        *)
LEMMA RecordFailsKeeps ==
  ASSUME IInv, NEW w \in Workers, RecordFails(w)
  PROVE  IInv'
<1>1. PICK d : d = work[w].def
  OBVIOUS
<1>2. /\ work[w].op = "rollback" /\ work[w].op # "idle" /\ Return(w) /\ Fault
      /\ unnoted' = unnoted \cup {d} /\ UNCHANGED <<files, systemd, used, cut, undone, deleted>>
  BY <1>1 DEF RecordFails
<1>3. Creating(w)
  BY <1>2 DEF Creating
<1>4. /\ d \in Definitions /\ d \in used /\ d # Nobody
      /\ d \in made => manifest[d] # "none" /\ disk[DirectoryOf(d)] \in {Nobody, d}
      /\ manifest[d] # "none" /\ disk[DirectoryOf(d)] = d => d \in made
      /\ d \notin deleted
  BY <1>1, <1>2, <1>3, OwnBefore, Zenon
<1>5. /\ UNCHANGED <<files, systemd, used, cut>> /\ UNCHANGED <<files, systemd, used>>
      /\ used' = used /\ disk' = disk /\ manifest' = manifest /\ made' = made
      /\ unnoted \subseteq unnoted' /\ undone \subseteq undone'
      /\ deleted' = deleted /\ deleted \subseteq deleted' /\ deleted' \subseteq deleted \cup {work[w].def}
  BY <1>2, Zenon DEF files
<1>6. HostTypes'
  <2>1. deleted' \subseteq used'
    BY <1>5 DEF IInv, Types
  <2> QED
    BY <1>2, <1>5, <2>1, HostTypesStay, FaultCounts, Zenon
<1>7. /\ Types' /\ Stands(w)' /\ ~Creating(w)' /\ work'[w].def = Nobody /\ work'[w].op = "idle"
      /\ \A v \in Workers \ {w} : work'[v] = work[v]
  BY <1>2, <1>5, <1>6, Returning, Zenon
<1>8. Touches(w)
  BY <1>5, <1>7, HostStays, Zenon
<1>9. d \in unnoted'
  BY <1>2
<1>10. Kept(d)'
  BY <1>1, <1>2, <1>4, <1>5, <1>7, <1>8, <1>9, OwnKept, Zenon
<1> QED
  BY <1>1, <1>2, <1>7, <1>8, <1>10, OwnConcern, Zenon

(* The last of a sequence, and the rest.                                   *)
Last(s) == s[Len(s)]
Front(s) == SubSeq(s, 1, Len(s) - 1)

(* The last of the noted steps is the furthest.                            *)
LEMMA LastNoted ==
  ASSUME NEW s \in Seq(UndoSteps), s # <<>>, InOrder(s)
  PROVE  /\ Front(s) \in Seq(UndoSteps) /\ InOrder(Front(s)) /\ Last(s) \in UndoSteps
         /\ {Front(s)[i] : i \in 1..Len(Front(s))} = {s[i] : i \in 1..Len(s)} \ {Last(s)}
         /\ Last(s) \in {s[i] : i \in 1..Len(s)}
         /\ \A i \in 1..Len(Front(s)) : CreatePlace[Front(s)[i]] < CreatePlace[Last(s)]
<1>1. PICK n \in Nat : n = Len(s) - 1
  BY DEF Front
<1>2. Len(s) = n + 1 /\ \A i \in 1..(n + 1) : s[i] \in UndoSteps
  BY <1>1
<1>3. /\ Front(s) \in Seq(UndoSteps) /\ Len(Front(s)) = n
      /\ \A i \in 1..n : Front(s)[i] = s[i]
  BY <1>1, <1>2 DEF Front
<1>4. Last(s) = s[n + 1] /\ n + 1 \in 1..(n + 1)
  BY <1>2 DEF Last
<1>5. \A i, j \in 1..(n + 1) : i < j => CreatePlace[s[i]] < CreatePlace[s[j]]
  BY <1>2 DEF InOrder
<1>6. \A x \in UndoSteps : CreatePlace[x] \in Int
  BY CreatePlaces DEF UndoSteps
<1>7. \A i \in 1..n : i \in 1..(n + 1) /\ i < n + 1
  OBVIOUS
<1>8. \A i \in 1..n : CreatePlace[s[i]] < CreatePlace[s[n + 1]]
  BY <1>4, <1>5, <1>7
<1>9. \A i \in 1..n : s[i] # s[n + 1]
  BY <1>2, <1>4, <1>6, <1>7, <1>8
<1>10. \A i \in 1..(n + 1) : i \in 1..n \/ i = n + 1
  OBVIOUS
<1>11. InOrder(Front(s))
  BY <1>3, <1>5, <1>7 DEF InOrder
<1>12. {Front(s)[i] : i \in 1..n} = {s[i] : i \in 1..(n + 1)} \ {s[n + 1]}
  BY <1>3, <1>7, <1>9, <1>10, Zenon
<1> QED
  BY <1>2, <1>3, <1>4, <1>8, <1>11, <1>12

(* The record of a rollback that has dealt with its next undo.             *)
OneLess(w, d, k) ==
  /\ k \in WorkRecords
  /\ k.op = "rollback" /\ k.def = d /\ k.at = work[w].at /\ k.waits = work[w].waits
  /\ k.undo = OtherUndos(w) /\ k.seen = work[w].seen /\ k.active = work[w].active
  /\ k.new = work[w].new

(* What can be said of the rollback then.                                  *)
Unwound(w, d) ==
  /\ Types' /\ Creating(w) /\ Creating(w)' /\ Rank(w)' = Rank(w)
  /\ Rank(w) \in 4..11 /\ Holds(w) /\ Alone(d)
  /\ work'[w].def = d /\ work'[w].op = "rollback" /\ ~work'[w].waits /\ work'[w].new = work[w].new
  /\ Undos(w)' = Undos(w) \ {NextUndo(w)} /\ NextUndo(w) \in Undos(w) /\ InOrder(work'[w].undo)
  /\ \A s \in Undos(w)' : CreatePlace[s] < CreatePlace[NextUndo(w)]
  /\ \A v \in Workers \ {w} : work'[v] = work[v]

(* A rollback that has dealt with its next undo.                           *)
LEMMA Unwinding ==
  ASSUME IInv, NEW w \in Workers, RollingBack(w), HostTypes', used' = used,
         NEW d, d = work[w].def, NEW k, work' = [work EXCEPT ![w] = k], OneLess(w, d, k)
  PROVE  Unwound(w, d) /\ work'[w] = k
<1> USE DEF OneLess
<1>1. work[w].op = "rollback" /\ work[w].op # "idle" /\ work[w].undo # <<>>
  BY DEF RollingBack
<1>2. /\ d \in used /\ work[w].at \in 1..(Len(Steps("rollback", d)) + 1) /\ ~work[w].waits
      /\ work[w].active \subseteq work[w].seen /\ work[w].seen \subseteq used
      /\ work[w].undo \in Seq(UndoSteps)
  <2>1. SoundRecord(work[w])
    BY TypesAre, Zenon DEF IInv
  <2> QED
    BY <1>1, <2>1 DEF SoundRecord, WorkRecords
<1>3. SoundRecord(k)'
  BY <1>2 DEF SoundRecord, Steps
<1>4. Types' /\ work'[w] = k /\ \A v \in Workers \ {w} : work'[v] = work[v]
  BY <1>3, TypesStep, Zenon DEF IInv
<1>5. Creating(w) /\ Creating(w)'
  BY <1>1, <1>4 DEF Creating
<1>6. Rank(w)' = Rank(w)
  <2>1. Rank(w) = CreateRank(d, work[w].at)
    BY <1>5 DEF Rank, Creating
  <2>2. Rank(w)' = CreateRank(d, k.at)
    BY <1>4, <1>5 DEF Rank, CreateRank, Creating
  <2> QED
    BY <2>1, <2>2
<1>7. CreateStands(w) /\ Where(w)
  BY <1>1, <1>5, OwnBefore, Zenon DEF Stands
<1>8. PICK s \in Seq(UndoSteps) : s = work[w].undo
  BY <1>2, SMTT(30), Zenon, SMTT(60)
<1>9. s # <<>> /\ InOrder(s) /\ NextUndo(w) = Last(s) /\ k.undo = Front(s)
  BY <1>1, <1>7, <1>8 DEF CreateStands, NextUndo, OtherUndos, Last, Front
<1>10. /\ InOrder(Front(s)) /\ Last(s) \in UndoSteps
       /\ {Front(s)[i] : i \in 1..Len(Front(s))} = {s[i] : i \in 1..Len(s)} \ {Last(s)}
       /\ Last(s) \in {s[i] : i \in 1..Len(s)}
       /\ \A i \in 1..Len(Front(s)) : CreatePlace[Front(s)[i]] < CreatePlace[Last(s)]
  BY <1>9, LastNoted, Zenon
<1>11. Undos(w) = {s[i] : i \in 1..Len(s)} /\ Undos(w)' = {Front(s)[i] : i \in 1..Len(Front(s))}
  BY <1>4, <1>8, <1>9 DEF Undos
<1>12. /\ Undos(w)' = Undos(w) \ {Last(s)} /\ Last(s) \in Undos(w)
       /\ \A x \in Undos(w)' : CreatePlace[x] < CreatePlace[Last(s)]
  BY <1>10, <1>11, Zenon
<1>13. Rank(w) \in 4..11
  <2>1. CreatePlace[Last(s)] < Rank(w)
    BY <1>7, <1>12, ZenonT(30) DEF CreateStands
  <2>2. CreatePlace[Last(s)] \in 3..10
    BY <1>10, CreatePlaces DEF UndoSteps
  <2>3. Rank(w) \in 1..11
    BY <1>5, <1>7 DEF Where
  <2> QED
    BY <2>1, <2>2, <2>3
<1>14. Holds(w)
  <2>1. Rank(w) > 2
    BY <1>13
  <2> QED
    BY <1>5, <2>1, Zenon DEF Holds
<1>15. Alone(d)
  BY <1>14, HolderAlone, Zenon
<1> QED
  BY <1>2, <1>4, <1>5, <1>6, <1>9, <1>10, <1>12, <1>13, <1>14, <1>15, Zenon DEF Unwound

(* An undo fails: the definition will be recorded.                         *)
LEMMA UndoFailsKeeps ==
  ASSUME IInv, NEW w \in Workers, UndoFails(w)
  PROVE  IInv'
<1>1. PICK d : d = work[w].def
  OBVIOUS
<1>2. /\ RollingBack(w) /\ work[w].op = "rollback" /\ work[w].op # "idle"
      /\ Fault \/ UNCHANGED faults
      /\ undone' = undone \cup {d} /\ UNCHANGED <<files, systemd, used, unnoted, cut, deleted>>
  BY <1>1 DEF UndoFails, RollingBack
<1>3. PICK k : k = [work[w] EXCEPT !.undo = OtherUndos(w), !.bad = TRUE]
  OBVIOUS
<1>4. work[w] \in WorkRecords
  BY SMTT(30) DEF IInv, Types
<1>5. InOrder(work[w].undo) /\ work[w].undo # <<>> /\ work[w].undo \in Seq(UndoSteps) /\ CreateStands(w)
  <2>1. CreateStands(w)
    BY <1>1, <1>2, OwnBefore, Zenon DEF Stands, Creating
  <2> QED
    BY <1>2, <1>4, <2>1, Zenon DEF RollingBack, WorkRecords, CreateStands
<1>6. OtherUndos(w) \in Seq(UndoSteps)
  BY <1>5, LastNoted, Zenon DEF OtherUndos, Front
<1>7. OneLess(w, d, k) /\ k.bad
  BY <1>1, <1>2, <1>3, <1>4, <1>6, Zenon DEF WorkRecords, OneLess
<1>8. work' = [work EXCEPT ![w] = k]
  BY <1>3, Zenon DEF UndoFails
<1>9. /\ disk' = disk /\ manifest' = manifest /\ made' = made /\ used' = used /\ UNCHANGED <<files, systemd, used, cut>>
      /\ UNCHANGED <<files, systemd, used>>
      /\ unnoted' = unnoted /\ deleted' = deleted /\ cut' = cut
      /\ unnoted \subseteq unnoted' /\ undone \subseteq undone' /\ d \in undone'
      /\ deleted \subseteq deleted' /\ deleted' \subseteq deleted \cup {work[w].def}
  BY <1>2, Zenon DEF files
<1>10. HostTypes'
  <2>1. deleted' \subseteq used'
    BY <1>9 DEF IInv, Types
  <2> QED
    BY <1>2, <1>9, <2>1, HostTypesStay, FaultCounts, Zenon
<1>11. Unwound(w, d) /\ work'[w] = k
  BY <1>1, <1>2, <1>7, <1>8, <1>9, <1>10, Unwinding, ZenonT(30)
<1>12. work'[w].bad /\ work'[w].def = d /\ work'[w].op = "rollback" /\ work'[w].op # "delete"
  BY <1>7, <1>11 DEF Unwound
<1>13. Touches(w)
  BY <1>1, <1>9, <1>11, <1>12, HostStays, Zenon DEF Unwound
<1>14. CreateStands(w)'
  <2>1. Rank(w) > 3
    BY <1>11 DEF Unwound
  <2>2. Alone(work[w].def)'
    BY <1>9, <1>11, <1>12, Zenon DEF Alone, Unwound
  <2>3. \A s \in Undos(w)' : s \in Undos(w)
    BY <1>11, Zenon DEF Unwound
  <2> QED
    BY <1>1, <1>5, <1>9, <1>11, <1>12, <2>1, <2>2, <2>3, ZenonT(30) DEF CreateStands, DirectoryOf, FileOf, Unwound
<1>15. RollbackStands(w)'
  BY <1>9, <1>12, Zenon DEF RollbackStands
<1>16. Stands(w)'
  BY <1>11, <1>12, <1>14, <1>15, Zenon DEF Stands, Unwound
<1>17. /\ d \notin deleted
       /\ d \in made => manifest[d] # "none" /\ disk[DirectoryOf(d)] \in {Nobody, d}
       /\ manifest[d] # "none" /\ disk[DirectoryOf(d)] = d => d \in made
  BY <1>1, <1>2, <1>11, OwnBefore, Zenon DEF Unwound
<1>18. Kept(d)'
  BY <1>1, <1>2, <1>9, <1>11, <1>13, <1>17, <1>12, OwnKept, Zenon DEF Unwound
<1> QED
  BY <1>1, <1>2, <1>11, <1>13, <1>16, <1>18, OwnConcern, Zenon DEF Unwound

(* Different steps of a definition have different files.                   *)
LEMMA DifferentFiles ==
  ASSUME NEW d, NEW s, NEW x, FileOf(s, d) = FileOf(x, d)
  PROVE  s = x
  BY DEF FileOf

(* An undo succeeds: it takes away a file that is the definition's, or the *)
(* manifest before any file.                                               *)
LEMMA UndoKeeps ==
  ASSUME IInv, NEW w \in Workers, Undo(w)
  PROVE  IInv'
<1>1. PICK d, step : d = work[w].def /\ step = NextUndo(w)
  BY Zenon
<1>2. /\ RollingBack(w) /\ work[w].op = "rollback" /\ work[w].op # "idle"
      /\ disk' = IF step \in FileSteps THEN [disk EXCEPT ![FileOf(step, d)] = Nobody] ELSE disk
      /\ manifest' = IF step = "manifest" THEN [manifest EXCEPT ![d] = "none"] ELSE manifest
      /\ made' = IF step = "manifest" THEN made \ {d} ELSE made
      /\ enabled' = IF step = "enable" THEN enabled \ {Target[d]} ELSE enabled
      /\ armed' = armed /\ mounted' = mounted /\ job' = job /\ used' = used /\ faults' = faults
      /\ unnoted' = unnoted /\ cut' = cut /\ undone' = undone /\ deleted' = deleted
  BY <1>1 DEF Undo, RollingBack, Cleared, history
<1>3. PICK k : k = [work[w] EXCEPT !.undo = OtherUndos(w)]
  BY Zenon
<1>4. work[w] \in WorkRecords /\ HostTypes
  BY TypesAre DEF IInv, Types
<1>5. /\ d \in Definitions /\ d # Nobody /\ Creating(w) /\ CreateStands(w) /\ RollbackStands(w) /\ Where(w)
      /\ d \notin deleted
      /\ d \in made => manifest[d] # "none" /\ disk[DirectoryOf(d)] \in {Nobody, d}
      /\ manifest[d] # "none" /\ disk[DirectoryOf(d)] = d => d \in made
      /\ d \notin unnoted \cup undone /\ manifest[d] = "active" => \A f \in OwnFiles(d) : disk[f] # Nobody
  <2>1. Creating(w)
    BY <1>2 DEF Creating
  <2> QED
    BY <1>1, <1>2, <2>1, OwnBefore, Zenon DEF Stands
<1>6. OtherUndos(w) \in Seq(UndoSteps)
  <2>1. InOrder(work[w].undo) /\ work[w].undo # <<>> /\ work[w].undo \in Seq(UndoSteps)
    BY <1>2, <1>4, <1>5, Zenon DEF RollingBack, WorkRecords, CreateStands
  <2> QED
    BY <2>1, LastNoted, Zenon DEF OtherUndos, Front
<1>7. OneLess(w, d, k) /\ k.bad = work[w].bad
  BY <1>1, <1>2, <1>3, <1>4, <1>6 DEF WorkRecords, OneLess
<1>8. work' = [work EXCEPT ![w] = k]
  BY <1>3, SMTT(30) DEF Undo
<1>9. /\ manifest'[d] = IF step = "manifest" THEN "none" ELSE manifest[d]
      /\ \A e \in Definitions \ {d} : manifest'[e] = manifest[e] /\ (e \in made' <=> e \in made)
      /\ d \in made' <=> d \in made /\ step # "manifest"
      /\ manifest' \in [Definitions -> {"none", "active", "attention"}] /\ made' \subseteq Definitions
      /\ enabled' \subseteq enabled
  BY <1>2, <1>4, <1>5, Zenon DEF HostTypes
<1>10. /\ \A f \in Files : disk'[f] = IF step \in FileSteps /\ f = FileOf(step, d) THEN Nobody ELSE disk[f]
       /\ disk' \in [Files -> Definitions \cup {Nobody, Foreign, Meanwhile, Alike}]
  BY <1>2, <1>4, ZenonT(30) DEF HostTypes
<1>11. HostTypes'
  BY <1>2, <1>4, <1>9, <1>10 DEF HostTypes
<1>12. Unwound(w, d) /\ work'[w] = k
  BY <1>1, <1>2, <1>7, <1>8, <1>11, Unwinding, Zenon
<1>13. /\ work'[w].def = d /\ work'[w].op = "rollback" /\ work'[w].op # "delete"
       /\ work'[w].bad = work[w].bad
  BY <1>7, <1>12 DEF Unwound
<1>14. /\ step \in Undos(w) /\ (step = "credentials" => d \in WithCredentials)
       /\ step \in FileSteps => disk[FileOf(step, d)] \in Left(d) /\ FileOf(step, d) \in OwnFiles(d)
       /\ \A s \in Undos(w)' : s \in Undos(w) /\ s # step
       /\ \A s \in Undos(w) : s # step => s \in Undos(w)'
  <2>1. step \in Undos(w) /\ Undos(w)' = Undos(w) \ {step}
    BY <1>1, <1>12, Zenon DEF Unwound
  <2> QED
    BY <1>1, <1>5, <2>1, TheFiles, Zenon DEF CreateStands
<1>15. OwnFiles(d) \subseteq Files /\ DirectoryOf(d) \in OwnFiles(d) /\ DirectoryOf(d) = FileOf("directory", d)
  BY <1>5, TheFiles, Zenon DEF DirectoryOf
<1>16. Touches(w)
  <2>1. \A f \in Files : disk'[f] = disk[f] \/ (Holds(w) /\ f \in OwnFiles(d) /\ Passed(f, d))
    BY <1>10, <1>12, <1>14, Zenon DEF Passed, Unwound
  <2>2. \A t \in Targets : SameUnits(t) \/ (Holds(w) /\ t = Target[d])
    <3>1. \A t \in Targets : t # Target[d] => (t \in enabled' <=> t \in enabled)
      BY <1>2, Zenon
    <3> QED
      BY <1>2, <1>12, <3>1, ZenonT(30) DEF SameUnits, Unwound
  <2>3. manifest[d] = "none" => manifest'[d] = "none"
    BY <1>9
  <2> QED
    BY <1>1, <1>2, <1>9, <1>12, <2>1, <2>2, <2>3, Zenon DEF Touches, Unwound
<1>17. CreateStands(w)'
  <2>1. Alone(work[w].def)'
    BY <1>9, <1>12, <1>13, Zenon DEF Alone, Unwound
  <2>2. ASSUME NEW s \in Undos(w)'
        PROVE  /\ CreatePlace[s] < Rank(w) /\ (s = "credentials" => d \in WithCredentials)
               /\ s \in FileSteps => disk'[FileOf(s, d)] \in Left(d)
    <3>1. s \in Undos(w) /\ s # step
      BY <1>14, <2>2, Zenon
    <3>2. /\ CreatePlace[s] < Rank(w) /\ (s = "credentials" => d \in WithCredentials)
          /\ s \in FileSteps => disk[FileOf(s, d)] \in Left(d)
      BY <1>1, <1>5, <3>1, Zenon DEF CreateStands
    <3>3. s \in FileSteps => FileOf(s, d) \in Files
      BY <1>5, <1>15, <3>2, TheFiles, Zenon
    <3>4. FileOf(s, d) # FileOf(step, d)
      BY <3>1, DifferentFiles, ZenonT(30)
    <3> QED
      BY <1>10, <3>2, <3>3, <3>4, Zenon
  <2>3. /\ "directory" \in Undos(w)' => work[w].new
        /\ work[w].bad => Rank(w) > 3
        /\ manifest'[d] # "attention"
        /\ d \in made' <=> work[w].new /\ manifest'[d] # "none"
    BY <1>1, <1>5, <1>9, <1>14, Zenon DEF CreateStands
  <2>4. disk'[DirectoryOf(d)] \in {disk[DirectoryOf(d)], Nobody}
    BY <1>10, <1>15, Zenon
  <2>5. /\ work[w].new => disk'[DirectoryOf(d)] \in {Nobody, d} /\ Rank(w) > 3
        /\ ~work[w].new /\ disk'[DirectoryOf(d)] = d => work[w].op = "rollback" /\ Rank(w) = 3
    BY <1>1, <1>5, <2>4, Zenon DEF CreateStands
  <2> QED
    BY <1>2, <1>12, <1>13, <2>1, <2>2, <2>3, <2>5, Zenon DEF CreateStands, DirectoryOf, FileOf, Unwound
<1>18. d \notin unnoted \cup undone /\ manifest[d] = "active" => step \notin FileSteps
  <2>1. ASSUME d \notin unnoted \cup undone, manifest[d] = "active", step \in FileSteps
        PROVE  FALSE
    <3>1. "manifest" \in Undos(w)
      BY <1>1, <1>5, <2>1, Zenon DEF RollbackStands
    <3>2. step # "manifest" /\ CreatePlace[step] < 7
      BY <2>1, CreatePlaces DEF FileSteps
    <3>3. "manifest" \in Undos(w)'
      BY <1>14, <3>1, <3>2, Zenon
    <3>4. CreatePlace["manifest"] < CreatePlace[step]
      BY <1>1, <1>12, <3>3, Zenon DEF Unwound
    <3>5. CreatePlace[step] \in Int
      BY <2>1, CreatePlaces DEF FileSteps
    <3> QED
      BY <3>2, <3>4, <3>5, CreatePlaces
  <2> QED
    BY <2>1
<1>19. RollbackStands(w)'
  <2>1. ASSUME d \notin unnoted', ~work'[w].bad, NEW f \in OwnFiles(d), disk'[f] = d
        PROVE  \E s \in Undos(w)' : f = FileOf(s, d)
    <3>1. disk[f] = d /\ ~(step \in FileSteps /\ f = FileOf(step, d))
      BY <1>5, <1>10, <1>15, <2>1, Zenon
    <3>2. PICK s \in Undos(w) : f = FileOf(s, d)
      BY <1>1, <1>2, <1>5, <1>13, <2>1, <3>1, Zenon DEF RollbackStands
    <3>3. s # step
      <4>1. \E x \in FileSteps : f = FileOf(x, d)
        BY <1>5, <2>1, TheFiles, Zenon
      <4> QED
        BY <3>1, <3>2, <4>1, DifferentFiles, Zenon
    <3> QED
      BY <1>14, <3>2, <3>3, Zenon
  <2>2. ASSUME d \notin unnoted' \cup undone', manifest'[d] = "active"
        PROVE  "manifest" \in Undos(w)'
    <3>1. step # "manifest" /\ manifest[d] = "active"
      BY <1>9, <2>2
    <3> QED
      BY <1>1, <1>2, <1>5, <1>14, <2>2, <3>1, Zenon DEF RollbackStands
  <2> QED
    BY <1>13, <2>1, <2>2, Zenon DEF RollbackStands, OwnFiles, UnitFiles, Credentials, FileOf
<1>20. Stands(w)'
  BY <1>12, <1>13, <1>17, <1>19, Zenon DEF Stands, Unwound
<1>21. d \notin unnoted' \cup undone' /\ manifest'[d] = "active" => \A f \in OwnFiles(d) : disk'[f] # Nobody
  <2>1. manifest'[d] = "active" => manifest[d] = "active"
    BY <1>9
  <2> QED
    BY <1>2, <1>5, <1>10, <1>15, <1>18, <2>1, Zenon
<1>22. /\ d \in made' => manifest'[d] # "none" /\ disk'[DirectoryOf(d)] \in {Nobody, d}
       /\ manifest'[d] # "none" /\ disk'[DirectoryOf(d)] = d => d \in made'
  <2>1. disk'[DirectoryOf(d)] \in {disk[DirectoryOf(d)], Nobody}
    BY <1>10, <1>15, Zenon
  <2> QED
    BY <1>5, <1>9, <2>1
<1>23. Kept(d)'
  BY <1>1, <1>2, <1>5, <1>12, <1>13, <1>16, <1>21, <1>22, OwnKept, ZenonT(30) DEF Unwound
<1> QED
  BY <1>1, <1>2, <1>12, <1>16, <1>20, <1>23, OwnConcern, Zenon DEF Unwound

(* A record that differs only in whether it waits or is late.              *)
SameCourse(k, j) ==
  /\ k.op = j.op /\ k.def = j.def /\ k.at = j.at /\ k.undo = j.undo
  /\ k.seen = j.seen /\ k.active = j.active /\ k.new = j.new /\ k.bad = j.bad

(* A worker that stays where it is, though an administrator may put a file *)
(* in place of one of its own.                                             *)
LEMMA StayingAnyhow ==
  ASSUME IInv, NEW w \in Workers, work[w].op # "idle", SameCourse(work'[w], work[w]),
         NEW d, d = work[w].def, manifest' = manifest, made' = made, UNCHANGED history,
         disk'[DirectoryOf(d)] = disk[DirectoryOf(d)],
         \A f \in OwnFiles(d) : /\ disk'[f] = d => disk[f] = d
                                /\ disk'[f] = Nobody => disk[f] = Nobody
                                /\ disk[f] \in Left(d) => disk'[f] \in Left(d),
         work[w].op = "delete" =>
           /\ Rank(w) \in 3..12 => Target[d] \notin armed' /\ job'[Target[d]] # "start"
           /\ Rank(w) \in 4..12 => Target[d] \notin mounted'
           /\ Rank(w) \in 5..12 => Target[d] \notin enabled',
         work'[w].waits => Holds(w) /\ Step(w) \in JobSteps /\ job'[Target[d]] = Step(w)
  PROVE  /\ Stands(w)' /\ Rank(w)' = Rank(w) /\ Undos(w)' = Undos(w)
         /\ Creating(w)' <=> Creating(w)
<1>1. /\ work'[w].op = work[w].op /\ work'[w].def = d /\ work'[w].at = work[w].at
      /\ work'[w].undo = work[w].undo /\ work'[w].seen = work[w].seen
      /\ work'[w].new = work[w].new /\ work'[w].bad = work[w].bad
  BY Zenon DEF SameCourse
<1>2. Creating(w)' <=> Creating(w)
  BY <1>1, Zenon DEF Creating
<1>3. Rank(w)' = Rank(w)
  BY <1>1, <1>2, Zenon DEF Rank
<1>4. Undos(w)' = Undos(w)
  BY <1>1 DEF Undos
<1>5. Step(w)' = Step(w)
  BY <1>1, Zenon DEF Step
<1>6. /\ d \in Definitions /\ Stands(w)
      /\ unnoted' = unnoted /\ undone' = undone
      /\ DirectoryOf(d) \in OwnFiles(d)
      /\ FileOf("mount", d) \in OwnFiles(d) /\ FileOf("automount", d) \in OwnFiles(d)
      /\ d \in WithCredentials => FileOf("credentials", d) \in OwnFiles(d)
      /\ \A s \in FileSteps : (s = "credentials" => d \in WithCredentials) => FileOf(s, d) \in OwnFiles(d)
  BY OwnBefore, TheFiles, Zenon DEF history
<1>7. Holds(w) => Holds(w)'
  BY <1>1, <1>2, <1>3, <1>6, Zenon DEF Holds
<1>8. ASSUME Creating(w)
      PROVE  CreateStands(w)'
  <2>1. CreateStands(w)
    BY <1>6, <1>8, Zenon DEF Stands
  <2>2. disk'[DirectoryOf(d)] = disk[DirectoryOf(d)]
    OBVIOUS
  <2>3. \A s \in Undos(w)' :
          /\ CreatePlace[s] < Rank(w)' /\ (s = "credentials" => d \in WithCredentials)
          /\ s \in FileSteps => disk'[FileOf(s, d)] \in Left(d)
    BY <1>3, <1>4, <1>6, <2>1, ZenonT(30) DEF CreateStands
  <2>4. Rank(w)' > 2 => \A e \in Definitions \ {d} : Target[e] = Target[d] => manifest'[e] = "none"
    BY <1>3, <2>1, Zenon DEF CreateStands, Alone
  <2>5. /\ InOrder(work'[w].undo)
        /\ "directory" \in Undos(w)' => work'[w].new
        /\ work'[w].new => disk'[DirectoryOf(d)] \in {Nobody, d} /\ Rank(w)' > 3
        /\ ~work'[w].new /\ disk'[DirectoryOf(d)] = d => work'[w].op = "rollback" /\ Rank(w)' = 3
        /\ work'[w].bad => Rank(w)' > 3
        /\ d \in made' <=> work'[w].new /\ manifest'[d] # "none"
        /\ manifest'[d] # "attention"
    BY <1>1, <1>3, <1>4, <2>1, <2>2, Zenon DEF CreateStands
  <2> QED
    BY <1>1, <2>3, <2>4, <2>5, CreateLift, Zenon
<1>9. ASSUME work[w].op = "create"
      PROVE  ForwardStands(w)'
  <2>1. ForwardStands(w)
    BY <1>6, <1>9, Zenon DEF Stands
  <2>2. /\ Rank(w)' = 2 => \A e \in Definitions : manifest'[e] # "none" => e \in work'[w].seen
        /\ manifest'[d] = IF Rank(w)' <= 7 THEN "none" ELSE "active"
        /\ Rank(w)' > 7 => "manifest" \in Undos(w)'
        /\ ~work'[w].bad
        /\ \A s \in FileSteps :
             CreatePlace[s] < Rank(w)' /\ (s = "credentials" => d \in WithCredentials)
               => disk'[FileOf(s, d)] # Nobody
    BY <1>1, <1>3, <1>4, <1>6, <2>1, Zenon DEF ForwardStands
  <2>3. \A f \in OwnFiles(d) : disk'[f] = d => \E s \in Undos(w)' : f = FileOf(s, d)
    <3>1. \A f \in OwnFiles(d) : disk[f] = d => \E s \in Undos(w) : f = FileOf(s, d)
      BY <2>1, Zenon DEF ForwardStands
    <3> QED
      BY <1>4, <3>1, Zenon
  <2> QED
    BY <1>1, <2>2, <2>3, ForwardLift, Zenon
<1>10. ASSUME work[w].op = "rollback"
       PROVE  RollbackStands(w)'
  <2>1. RollbackStands(w)
    BY <1>6, <1>10, Zenon DEF Stands
  <2>2. /\ d \notin unnoted' /\ ~work'[w].bad
             => \A f \in OwnFiles(d) : disk'[f] = d => \E s \in Undos(w)' : f = FileOf(s, d)
        /\ d \notin unnoted' \cup undone' /\ manifest'[d] = "active" => "manifest" \in Undos(w)'
    BY <1>1, <1>4, <1>6, <2>1, ZenonT(30) DEF RollbackStands
  <2> QED
    BY <1>1, <2>2, RollbackLift, Zenon
<1>11. ASSUME work[w].op = "delete"
       PROVE  DeleteStands(w)'
  <2>1. DeleteStands(w)
    BY <1>6, <1>11, Zenon DEF Stands
  <2>2. /\ Rank(w)' \in 2..12 => manifest'[d] = "attention"
        /\ Rank(w)' = 13 => manifest'[d] = "none"
        /\ Rank(w)' > 5 => disk'[FileOf("mount", d)] # d
        /\ Rank(w)' > 6 => disk'[FileOf("automount", d)] # d
        /\ Rank(w)' > 7 /\ d \in WithCredentials => disk'[FileOf("credentials", d)] # d
        /\ Rank(w)' > 11 => disk'[DirectoryOf(d)] # d
    BY <1>3, <1>6, <2>1, Zenon DEF DeleteStands
  <2>3. /\ Rank(w)' \in 3..12 => Target[d] \notin armed' /\ job'[Target[d]] # "start"
        /\ Rank(w)' \in 4..12 => Target[d] \notin mounted'
        /\ Rank(w)' \in 5..12 => Target[d] \notin enabled'
    BY <1>3, <1>11, Zenon
  <2> QED
    BY <1>1, <2>2, <2>3, DeleteLift, Zenon
<1>12. work[w].op \in {"mount", "unmount"} /\ work[w].at > 1 => manifest'[d] # "none"
  BY <1>6, Zenon DEF Stands
<1>13. Stands(w)'
  BY <1>1, <1>2, <1>5, <1>7, <1>8, <1>9, <1>10, <1>11, <1>12, Zenon DEF Stands
<1> QED
  BY <1>2, <1>3, <1>4, <1>13

(* A worker that stays where it is, while its files do.                    *)
LEMMA StayingPut ==
  ASSUME IInv, NEW w \in Workers, work[w].op # "idle", SameCourse(work'[w], work[w]),
         NEW d, d = work[w].def, manifest' = manifest, made' = made, UNCHANGED history,
         \A f \in OwnFiles(d) : disk'[f] = disk[f],
         work[w].op = "delete" =>
           /\ Rank(w) \in 3..12 => Target[d] \notin armed' /\ job'[Target[d]] # "start"
           /\ Rank(w) \in 4..12 => Target[d] \notin mounted'
           /\ Rank(w) \in 5..12 => Target[d] \notin enabled',
         work'[w].waits => Holds(w) /\ Step(w) \in JobSteps /\ job'[Target[d]] = Step(w)
  PROVE  /\ Stands(w)' /\ Rank(w)' = Rank(w) /\ Undos(w)' = Undos(w)
         /\ Creating(w)' <=> Creating(w)
<1>1. disk'[DirectoryOf(d)] = disk[DirectoryOf(d)]
  BY OwnBefore, TheFiles, Zenon
<1> QED
  BY <1>1, StayingAnyhow, Zenon

(* Whoever is at a job's step holds its target.                            *)
LEMMA AtJobHolds ==
  ASSUME IInv, NEW w \in Workers, work[w].op \in {"create", "mount", "unmount", "delete"},
         work[w].at <= Len(Steps(work[w].op, work[w].def)), Step(w) \in JobSteps
  PROVE  /\ Holds(w) /\ work[w].at > 1
         /\ work[w].op = "delete" => Rank(w) = DeletePlace[Step(w)] /\ Step(w) \in {"stopAutomount", "stopMount"}
         /\ work[w].op = "create" => Rank(w) = 10 /\ Step(w) = "start"
<1>1. Where(w) /\ Stands(w) /\ work[w].op # "idle"
  BY OwnBefore, Zenon
<1>2. CASE work[w].op = "create"
  <2>1. Creating(w)
    BY <1>2 DEF Creating
  <2>2. Step(w) \in DOMAIN CreatePlace /\ CreatePlace[Step(w)] = Rank(w)
    BY <1>1, <2>1, Zenon DEF Where
  <2>3. Step(w) = "start"
    BY <2>2, CreatePlaces DEF JobSteps
  <2>4. Rank(w) = 10 /\ Rank(w) > 2
    BY <2>2, <2>3, CreatePlaces
  <2>5. work[w].at > 1
    <3>1. Rank(w) = CreateRank(work[w].def, work[w].at)
      BY <1>2, <2>1, Zenon DEF Rank
    <3>2. work[w].at \in Nat
      BY <1>1, AtWork DEF IInv, Types, WorkRecords
    <3> QED
      BY <2>4, <3>1, <3>2 DEF CreateRank
  <2> QED
    BY <1>2, <2>1, <2>3, <2>4, <2>5, Zenon DEF Holds
<1>3. CASE work[w].op = "delete"
  <2>1. Step(w) \in DOMAIN DeletePlace /\ DeletePlace[Step(w)] = Rank(w)
    BY <1>1, <1>3, Zenon DEF Where
  <2>2. Step(w) \in {"stopAutomount", "stopMount"}
    BY <2>1, DeletePlaces DEF JobSteps
  <2>3. Rank(w) \in {2, 3}
    BY <2>1, <2>2, DeletePlaces, SMTT(30), Zenon, SMTT(60)
  <2>4. manifest[work[w].def] # "none" /\ Rank(w) > 1
    BY <1>1, <1>3, <2>3, SMTT(30) DEF Stands, DeleteStands
  <2>5. work[w].at > 1
    <3>1. Rank(w) = DeleteRank(work[w].def, work[w].at)
      BY <1>3, Zenon DEF Rank
    <3>2. work[w].at \in Nat
      BY <1>1, AtWork DEF IInv, Types, WorkRecords
    <3> QED
      BY <2>4, <3>1, <3>2 DEF DeleteRank
  <2> QED
    BY <1>3, <2>1, <2>2, <2>4, <2>5, Zenon DEF Holds
<1>4. CASE work[w].op \in {"mount", "unmount"}
  <2>1. work[w].at > 1
    BY <1>1, <1>4 DEF Where, JobSteps
  <2>2. ~Creating(w) /\ work[w].op # "delete"
    BY <1>4 DEF Creating
  <2>3. Rank(w) > 1
    BY <2>1, <2>2 DEF Rank
  <2>4. manifest[work[w].def] # "none"
    BY <1>1, <1>4, <2>1, Zenon DEF Stands
  <2> QED
    BY <1>4, <2>1, <2>2, <2>3, <2>4, SMTT(30), Zenon, SMTT(60) DEF Holds
<1> QED
  BY <1>2, <1>3, <1>4, Zenon

(* A job is queued for the units of a target that its worker holds.        *)
LEMMA QueueJobKeeps ==
  ASSUME IInv, NEW w \in Workers, QueueJob(w)
  PROVE  IInv'
<1>1. PICK d : d = work[w].def
  OBVIOUS
<1>2. /\ work[w].op \in {"create", "mount", "unmount", "delete"} /\ work[w].op # "idle"
      /\ work[w].at <= Len(Steps(work[w].op, work[w].def)) /\ Step(w) \in JobSteps
      /\ Passes(w)
      /\ job' = [job EXCEPT ![Target[d]] = Step(w)]
      /\ UNCHANGED <<files, enabled, armed, mounted, used, faults, history>>
  BY <1>1 DEF QueueJob, AtStep
<1>3. /\ enabled' = enabled /\ armed' = armed /\ mounted' = mounted /\ used' = used /\ faults' = faults
      /\ UNCHANGED <<files, history>> /\ deleted' = deleted /\ disk' = disk /\ manifest' = manifest /\ made' = made
      /\ unnoted' = unnoted /\ cut' = cut /\ undone' = undone
  BY <1>2, Zenon DEF files, history
<1>4. /\ d \in Definitions /\ d # Nobody /\ Target[d] \in Targets /\ Stands(w)
      /\ d \in deleted => work[w].at = 1
  BY <1>1, <1>2, OwnBefore, MountsAssumption
<1>5. /\ Holds(w) /\ work[w].at > 1
      /\ work[w].op = "delete" => Rank(w) = DeletePlace[Step(w)] /\ Step(w) \in {"stopAutomount", "stopMount"}
  BY <1>2, AtJobHolds, Zenon
<1>6. HostTypes /\ work[w] \in WorkRecords /\ SoundRecord(work[w])
  BY TypesAre, ZenonT(30) DEF IInv, SoundRecord
<1>7. /\ job'[Target[d]] = Step(w) /\ \A t \in Targets : t # Target[d] => job'[t] = job[t]
      /\ job' \in [Targets -> {"none"} \cup JobSteps]
  BY <1>2, <1>4, <1>6 DEF HostTypes
<1>8. HostTypes'
  BY <1>3, <1>6, <1>7, Zenon DEF HostTypes
<1>9. PICK k : k = [work[w] EXCEPT !.waits = TRUE]
  BY Zenon
<1>10. k \in WorkRecords /\ k.waits /\ SameCourse(k, work[w]) /\ k.late = work[w].late
  BY <1>6, <1>9, Zenon DEF WorkRecords, SameCourse
<1>11. work' = [work EXCEPT ![w] = k]
  BY <1>9 DEF QueueJob
<1>12. ~work[w].late
  BY <1>2, ZenonT(30) DEF Passes, ContextSteps
<1>13. SoundRecord(k)'
  BY <1>2, <1>3, <1>6, <1>10, <1>12 DEF SoundRecord, SameCourse, Steps
<1>14. Types' /\ work'[w] = k /\ \A v \in Workers \ {w} : work'[v] = work[v]
  BY <1>3, <1>8, <1>11, <1>13, TypesStep, Zenon DEF IInv
<1>15. work[w].op = "delete" =>
         /\ Rank(w) \in 3..12 => Target[d] \notin armed' /\ job'[Target[d]] # "start"
         /\ Rank(w) \in 4..12 => Target[d] \notin mounted'
         /\ Rank(w) \in 5..12 => Target[d] \notin enabled'
  BY <1>1, <1>3, <1>4, <1>5, <1>7, Zenon DEF Stands, DeleteStands
<1>16. /\ Stands(w)' /\ Rank(w)' = Rank(w)
       /\ Creating(w)' <=> Creating(w)
       /\ work'[w].def = d /\ work'[w].op = work[w].op
  <2>1. SameCourse(work'[w], work[w])
    BY <1>10, <1>14, Zenon
  <2>2. /\ Stands(w)' /\ Rank(w)' = Rank(w)
        /\ Creating(w)' <=> Creating(w)
    BY <1>1, <1>2, <1>3, <1>5, <1>7, <1>15, <2>1, StayingPut, ZenonT(30) DEF files, history
  <2> QED
    BY <1>1, <2>1, <2>2, Zenon DEF SameCourse
<1>17. Touches(w)
  <2>1. \A t \in Targets : SameUnits(t) \/ (Holds(w) /\ t = Target[d])
    BY <1>3, <1>5, <1>7, Zenon DEF SameUnits
  <2> QED
    BY <1>1, <1>3, <1>14, <1>16, <2>1, Zenon DEF Touches
<1>18. d \notin deleted
  BY <1>4, <1>5
<1> QED
  BY <1>1, <1>2, <1>3, <1>14, <1>16, <1>17, <1>18, FilesStay, Zenon

(* The context expires: a wait ends, and an enable under way may have been *)
(* carried out.                                                            *)
LEMMA ExpireKeeps ==
  ASSUME IInv, NEW w \in Workers, Expire(w)
  PROVE  IInv'
<1>1. PICK d, k : /\ d = work[w].def
                  /\ k = IF ~work[w].waits THEN [work[w] EXCEPT !.late = TRUE]
                         ELSE IF work[w].op = "create"
                         THEN [work[w] EXCEPT !.late = TRUE, !.op = "rollback", !.waits = FALSE]
                         ELSE Idle
  BY Zenon
<1>2. /\ work[w] # Idle /\ Fault
      /\ \/ enabled' = enabled
         \/ AtStep(w, {"create"}) /\ Step(w) = "enable" /\ enabled' = enabled \cup {Target[d]}
      /\ work' = [work EXCEPT ![w] = k]
      /\ UNCHANGED <<files, armed, mounted, job, used, history>>
  BY <1>1, Zenon DEF Expire
<1>3. /\ armed' = armed /\ mounted' = mounted /\ job' = job /\ used' = used
      /\ UNCHANGED <<files, history>> /\ UNCHANGED files /\ deleted' = deleted
      /\ disk' = disk /\ manifest' = manifest /\ made' = made
      /\ unnoted' = unnoted /\ cut' = cut /\ undone' = undone
  BY <1>2, Zenon DEF files, history
<1>4. HostTypes /\ work[w] \in WorkRecords /\ SoundRecord(work[w])
  BY TypesAre, Zenon DEF IInv, SoundRecord
<1>5. work[w].op # "idle"
  BY <1>2, <1>4, Zenon DEF SoundRecord
<1>6. /\ d \in Definitions /\ d # Nobody /\ Target[d] \in Targets /\ Stands(w) /\ Where(w)
      /\ d \in deleted => ~Creating(w) /\ work[w].at = 1
  BY <1>1, <1>5, OwnBefore, MountsAssumption
<1>7. HostTypes'
  <2>1. faults' \in 0..MaxFaults
    BY <1>2, FaultCounts, Zenon
  <2>2. enabled' \subseteq Targets
    BY <1>2, <1>4, <1>6 DEF HostTypes
  <2> QED
    BY <1>3, <1>4, <2>1, <2>2, Zenon DEF HostTypes
<1>8. CASE ~work[w].waits
  <2>1. k = [work[w] EXCEPT !.late = TRUE]
    BY <1>1, <1>8, Zenon
  <2>2. k \in WorkRecords /\ ~k.waits /\ SameCourse(k, work[w])
    BY <1>4, <1>8, <2>1, Zenon DEF WorkRecords, SameCourse
  <2>3. SoundRecord(k)'
    BY <1>3, <1>4, <1>5, <2>2, Zenon DEF SoundRecord, SameCourse, Steps
  <2>4. Types' /\ work'[w] = k /\ \A v \in Workers \ {w} : work'[v] = work[v]
    BY <1>2, <1>3, <1>7, <2>3, TypesStep, Zenon DEF IInv
  <2>5. enabled' = enabled \/ (Holds(w) /\ work[w].op = "create" /\ enabled' = enabled \cup {Target[d]})
    <3>1. ASSUME AtStep(w, {"create"}), Step(w) = "enable"
          PROVE  Holds(w) /\ work[w].op = "create"
      <4>1. /\ work[w].op = "create" /\ Creating(w)
            /\ work[w].at <= Len(Steps(work[w].op, work[w].def))
        BY <3>1 DEF AtStep, Creating
      <4>2. Rank(w) = CreatePlace["enable"]
        BY <1>6, <3>1, <4>1, Zenon DEF Where
      <4>3. Rank(w) > 2
        BY <4>2, CreatePlaces
      <4> QED
        BY <4>1, <4>3, Zenon DEF Holds
    <3> QED
      BY <1>2, <3>1, Zenon
  <2>6. work[w].op = "delete" =>
          /\ Rank(w) \in 3..12 => Target[d] \notin armed' /\ job'[Target[d]] # "start"
          /\ Rank(w) \in 4..12 => Target[d] \notin mounted'
          /\ Rank(w) \in 5..12 => Target[d] \notin enabled'
    <3>1. work[w].op = "delete" => enabled' = enabled
      BY <2>5
    <3> QED
      BY <1>1, <1>3, <1>6, <3>1, Zenon DEF Stands, DeleteStands
  <2>7. SameCourse(work'[w], work[w]) /\ ~work'[w].waits
    BY <2>2, <2>4, Zenon
  <2>8. /\ Stands(w)' /\ Rank(w)' = Rank(w)
        /\ Creating(w)' <=> Creating(w)
    BY <1>1, <1>3, <1>5, <2>6, <2>7, StayingPut, Zenon DEF files, history
  <2>9. work'[w].def = d /\ work'[w].op = work[w].op /\ work'[w].at = work[w].at
    BY <1>1, <2>7, Zenon DEF SameCourse
  <2>10. Touches(w)
    <3>1. \A t \in Targets : SameUnits(t) \/ (Holds(w) /\ t = Target[d])
      BY <1>3, <2>5, Zenon DEF SameUnits
    <3> QED
      BY <1>1, <1>3, <2>4, <2>8, <2>9, <3>1, Zenon DEF Touches
  <2> QED
    BY <1>1, <1>3, <1>5, <1>6, <2>4, <2>8, <2>9, <2>10, FilesStay, Zenon
<1>9. ASSUME work[w].waits
      PROVE  enabled' = enabled /\ UNCHANGED <<files, systemd, used, cut>>
  BY <1>2, <1>3, <1>9, Zenon DEF AtStep, systemd, files
<1>10. CASE work[w].waits /\ work[w].op = "create"
  <2>1. k = [work[w] EXCEPT !.late = TRUE, !.op = "rollback", !.waits = FALSE]
    BY <1>1, <1>10, Zenon
  <2>2. /\ k \in WorkRecords
        /\ k.op = "rollback" /\ k.def = d /\ k.at = work[w].at /\ ~k.waits /\ k.undo = work[w].undo
        /\ k.seen = work[w].seen /\ k.active = work[w].active /\ k.new = work[w].new /\ k.bad = work[w].bad
    BY <1>1, <1>4, <2>1, Zenon DEF WorkRecords
  <2>3. /\ Types' /\ Creating(w) /\ Creating(w)' /\ work'[w].def = d /\ work'[w].op = "rollback"
        /\ Rank(w)' = Rank(w) /\ Undos(w)' = Undos(w) /\ work'[w] = k
        /\ \A v \in Workers \ {w} : work'[v] = work[v]
    <3>1. d = work[w].def /\ work' = [work EXCEPT ![w] = k] /\ used' = used
      BY <1>1, <1>2, <1>3, Zenon
    <3> QED
      BY <1>7, <1>10, <2>2, <3>1, TurningBack, Zenon
  <2>4. Stands(w)'
    <3>1. /\ ~work'[w].waits /\ work'[w].undo = work[w].undo /\ work'[w].new = work[w].new
          /\ work'[w].bad = work[w].bad
      BY <2>2, <2>3, Zenon
    <3> QED
      BY <1>1, <1>3, <1>10, <2>3, <3>1, BackStands, Zenon
  <2>5. Touches(w)
    BY <1>1, <1>3, <1>9, <1>10, <2>3, HostStays, Zenon
  <2> QED
    BY <1>1, <1>3, <1>5, <1>6, <2>3, <2>4, <2>5, FilesStay, Zenon
<1>11. CASE work[w].waits /\ work[w].op # "create"
  <2>1. Return(w)
    BY <1>1, <1>2, <1>11, Zenon DEF Return
  <2>2. /\ Types' /\ Stands(w)' /\ ~Creating(w)' /\ work'[w].def = Nobody /\ work'[w].op = "idle"
        /\ \A v \in Workers \ {w} : work'[v] = work[v]
    BY <1>3, <1>7, <2>1, Returning, Zenon
  <2>3. ~Creating(w)
    BY <1>4, <1>11 DEF Creating, SoundRecord
  <2>4. Touches(w)
    BY <1>1, <1>3, <1>9, <1>11, <2>2, HostStays, Zenon
  <2> QED
    BY <1>1, <1>3, <1>5, <1>6, <2>2, <2>3, <2>4, FilesStay, Zenon
<1> QED
  BY <1>8, <1>10, <1>11

(* systemd and the users of a mount: they arm a target only for a job that *)
(* asks for it and mount it only when it is armed.                         *)
LEMMA UnitsOnly ==
  ASSUME IInv, HostTypes', UNCHANGED <<files, work, used, history>>, enabled' = enabled,
         \A t \in Targets :
           /\ t \in armed' => t \in armed \/ job[t] = "start"
           /\ t \in mounted' => t \in mounted \/ t \in armed
           /\ job'[t] = "start" => job[t] = "start",
         \A w \in Workers : work[w].waits => job'[Target[work[w].def]] = job[Target[work[w].def]]
  PROVE  IInv'
<1>1. /\ disk' = disk /\ manifest' = manifest /\ made' = made /\ used' = used /\ work' = work
      /\ unnoted' = unnoted /\ cut' = cut /\ undone' = undone /\ deleted' = deleted
      /\ UNCHANGED <<files, history>>
  BY Zenon DEF files, history
<1>2. Types'
  <2>1. \A w \in Workers :
          \/ work'[w] = Idle
          \/ /\ work'[w].op \in {"create", "rollback", "mount", "unmount", "delete"}
             /\ work'[w].def \in used' /\ work'[w].at \in 1..(Len(Steps(work'[w].op, work'[w].def)) + 1)
             /\ work'[w].active \subseteq work'[w].seen /\ work'[w].seen \subseteq used'
             /\ work'[w].undo # <<>> => work'[w].op \in {"create", "rollback"}
             /\ work'[w].waits => /\ work'[w].op # "rollback"
                                  /\ work'[w].at <= Len(Steps(work'[w].op, work'[w].def)) /\ ~work'[w].late
    BY <1>1, Zenon DEF IInv, Types, TypeOK
  <2>2. TypeOK'
    BY <2>1, Zenon DEF TypeOK, HostTypes, Steps
  <2> QED
    BY <1>1, <2>2, Zenon DEF IInv, Types
<1>3. Locks' /\ OneDefinitionPerTarget'
  <2>1. Locks'
    BY <1>1, Zenon DEF IInv, Locks, Creating
  <2>2. OneDefinitionPerTarget'
    BY <1>1, Zenon DEF IInv, OneDefinitionPerTarget
  <2> QED
    BY <2>1, <2>2
<1>4. ASSUME NEW w \in Workers
      PROVE  Stands(w)'
  <2>1. CASE work[w].op = "idle"
    BY <1>1, <2>1, AtRest, Zenon DEF IInv, Stands, Creating
  <2>2. CASE work[w].op # "idle"
    <3>1. PICK d : d = work[w].def
      BY SMTT(30), Zenon, SMTT(60)
    <3>2. d \in Definitions /\ Target[d] \in Targets /\ Stands(w) /\ Where(w)
      BY <2>2, <3>1, OwnBefore, MountsAssumption
    <3>3. ASSUME work[w].op = "delete"
          PROVE  /\ Rank(w) \in 3..12 => Target[d] \notin armed' /\ job'[Target[d]] # "start"
                 /\ Rank(w) \in 4..12 => Target[d] \notin mounted'
                 /\ Rank(w) \in 5..12 => Target[d] \notin enabled'
      <4>1. DeleteStands(w)
        BY <3>2, <3>3, ZenonT(30) DEF Stands
      <4>2. Rank(w) \in 4..12 => Rank(w) \in 3..12
        BY <3>2, <3>3 DEF Where
      <4> QED
        BY <3>1, <3>2, <4>1, <4>2, Zenon DEF DeleteStands
    <3>4. work'[w].waits => Holds(w) /\ Step(w) \in JobSteps /\ job'[Target[d]] = Step(w)
      BY <1>1, <3>1, <3>2, Zenon DEF Stands
    <3>5. SameCourse(work'[w], work[w])
      BY <1>1, Zenon DEF SameCourse
    <3> QED
      BY <1>1, <2>2, <3>1, <3>3, <3>4, <3>5, StayingPut, Zenon DEF files, history
  <2> QED
    BY <2>1, <2>2
<1>5. ASSUME NEW e \in Definitions
      PROVE  Kept(e)'
  <2>1. Kept(e) /\ Target[e] \in Targets
    BY MountsAssumption DEF IInv
  <2>2. Gone(e) => Gone(e)'
    <3>1. Quiet(Target[e]) => Quiet(Target[e])'
      BY <2>1, Zenon DEF Quiet
    <3>2. Solo(e)' => Solo(e)
      BY <1>1, Zenon DEF Solo
    <3> QED
      BY <1>1, <3>1, <3>2, Zenon DEF Gone, OwnFiles, UnitFiles, Credentials, FileOf
  <2>3. \A v \in Workers : Rank(v)' = Rank(v) /\ (Creating(v)' <=> Creating(v))
    BY <1>1, SameWorker, Zenon
  <2>4. /\ e \in made' => manifest'[e] # "none" /\ disk'[DirectoryOf(e)] \in {Nobody, e}
        /\ manifest'[e] # "none" /\ disk'[DirectoryOf(e)] = e => e \in made'
        /\ e \notin used' => manifest'[e] = "none" /\ \A f \in OwnFiles(e) : disk'[f] # e
        /\ e \notin unnoted' \cup undone' /\ manifest'[e] = "active" => \A f \in OwnFiles(e) : disk'[f] # Nobody
        /\ e \notin unnoted' \cup cut' /\ manifest'[e] = "none"
             => \/ \E w \in Workers : work'[w].def = e /\ Creating(w)'
                \/ \A f \in OwnFiles(e) : disk'[f] # e
        /\ e \in deleted' => Gone(e)'
    BY <1>1, <2>1, <2>2, <2>3, Zenon DEF Kept
  <2>5. \A w \in Workers :
          /\ e \in deleted' /\ work'[w].def = e => ~Creating(w)' /\ work'[w].at = 1
          /\ work'[w].def = e /\ work'[w].op = "delete" /\ Rank(w)' = 13 => Gone(e)'
    BY <1>1, <2>1, <2>2, <2>3, Zenon DEF Kept
  <2> QED
    BY <2>4, <2>5, ZenonT(30) DEF Kept, DirectoryOf, OwnFiles, UnitFiles, Credentials, FileOf
<1> QED
  BY <1>2, <1>3, <1>4, <1>5, Zenon DEF IInv

(* Somebody looks into an armed target.                                    *)
LEMMA AccessKeeps ==
  ASSUME IInv, NEW t \in Targets, Access(t)
  PROVE  IInv'
<1>1. /\ t \in armed /\ mounted' = mounted \cup {t} /\ enabled' = enabled /\ armed' = armed /\ job' = job
      /\ UNCHANGED <<files, work, used, history>> /\ disk' = disk /\ manifest' = manifest /\ made' = made
      /\ used' = used /\ deleted' = deleted /\ faults' = faults
  BY Zenon DEF Access, files, history
<1>2. HostTypes'
  <2>1. HostTypes
    BY TypesAre, Zenon DEF IInv
  <2> QED
    BY <1>1, <2>1 DEF HostTypes
<1> QED
  BY <1>1, <1>2, UnitsOnly, Zenon

(* The record of a worker whose step has succeeded.                        *)
Advanced(w, k) ==
  /\ k \in WorkRecords
  /\ k.op = work[w].op /\ k.def = work[w].def /\ k.at = work[w].at + 1 /\ ~k.waits /\ k.bad = work[w].bad
  /\ k.undo # <<>> => k.op = "create"
  /\ k.active \subseteq k.seen /\ k.seen \subseteq used

(* What can be said of the worker then.                                    *)
Moved(w, d) ==
  /\ Types' /\ (Creating(w)' <=> Creating(w)) /\ \A v \in Workers \ {w} : work'[v] = work[v]
  /\ work'[w].def = d /\ work'[w].op = work[w].op /\ work'[w].at = work[w].at + 1
  /\ ~work'[w].waits /\ work'[w].bad = work[w].bad
  /\ Creating(w) => Rank(w)' = IF Rank(w) = 3 /\ d \notin WithCredentials THEN 5 ELSE Rank(w) + 1
  /\ work[w].op = "delete" =>
       Rank(w)' = IF Rank(w) = 6 /\ d \notin WithCredentials THEN 8 ELSE Rank(w) + 1
  /\ work'[w].at # 1

(* A step succeeds.                                                        *)
LEMMA Advancing ==
  ASSUME IInv, NEW w \in Workers, work[w].op \in {"create", "mount", "unmount", "delete"},
         work[w].at <= Len(Steps(work[w].op, work[w].def)), HostTypes', used' = used,
         NEW d, d = work[w].def, NEW k, work' = [work EXCEPT ![w] = k], Advanced(w, k)
  PROVE  Moved(w, d) /\ work'[w] = k
<1>1. /\ d \in used /\ work[w].at \in 1..(Len(Steps(work[w].op, d)) + 1) /\ Where(w)
      /\ work[w].op # "idle"
  BY AtWork, Zenon DEF IInv
<1>2. Len(Steps(work[w].op, d)) \in Nat
  <2>1. CASE work[w].op = "create"
    BY <1>1, <2>1, StepsOf, CreateShape, AtWork, SMTT(30), Zenon, SMTT(60) DEF IInv
  <2>2. CASE work[w].op = "delete"
    BY <1>1, <2>2, StepsOf, DeleteShape, AtWork, SMTT(30), Zenon, SMTT(60) DEF IInv
  <2>3. CASE work[w].op \in {"mount", "unmount"}
    BY <1>1, <2>3 DEF Where
  <2> QED
    BY <2>1, <2>2, <2>3, SMTT(30), Zenon, SMTT(60)
<1>3. work[w].at + 1 \in 1..(Len(Steps(work[w].op, d)) + 1) /\ work[w].at + 1 # 1
  BY <1>1, <1>2, SMTT(30), Zenon, SMTT(60)
<1>4. SoundRecord(k)'
  BY <1>1, <1>3 DEF SoundRecord, Advanced, Steps
<1>5. Types' /\ work'[w] = k /\ \A v \in Workers \ {w} : work'[v] = work[v]
  BY <1>4, TypesStep, Zenon DEF IInv
<1>6. /\ work'[w].def = d /\ work'[w].op = work[w].op /\ work'[w].at = work[w].at + 1
      /\ ~work'[w].waits /\ work'[w].bad = work[w].bad
  BY <1>5, Zenon DEF Advanced
<1>7. Creating(w)' <=> Creating(w)
  BY <1>6, Zenon DEF Creating
<1>8. Creating(w) => Rank(w)' = IF Rank(w) = 3 /\ d \notin WithCredentials THEN 5 ELSE Rank(w) + 1
  <2>1. ASSUME Creating(w)
        PROVE  Rank(w)' = CreateRank(d, work[w].at + 1)
    <3>1. work[w].op # "delete"
      BY <2>1 DEF Creating
    <3> QED
      BY <1>6, <1>7, <2>1, <3>1 DEF Rank, CreateRank
  <2> QED
    BY <1>1, <2>1, Zenon DEF Where
<1>9. work[w].op = "delete" =>
        Rank(w)' = IF Rank(w) = 6 /\ d \notin WithCredentials THEN 8 ELSE Rank(w) + 1
  <2>1. ASSUME work[w].op = "delete"
        PROVE  Rank(w)' = DeleteRank(d, work[w].at + 1)
    BY <1>6, <2>1 DEF Rank, DeleteRank
  <2> QED
    BY <1>1, <2>1, Zenon DEF Where
<1> QED
  BY <1>3, <1>5, <1>6, <1>7, <1>8, <1>9, Zenon DEF Moved

(* Only steps that can be undone are noted.                                *)
LEMMA UndosAreSteps ==
  ASSUME IInv, NEW w \in Workers
  PROVE  Undos(w) \subseteq UndoSteps
<1>1. work[w].undo \in Seq(UndoSteps)
  BY DEF IInv, Types, WorkRecords
<1> QED
  BY <1>1 DEF Undos

(* A job ends: whoever waits for it goes on.                               *)
LEMMA WaiterAdvances ==
  ASSUME IInv, NEW t \in Targets, JobDone(t), NEW w \in Waiting(t), HostTypes'
  PROVE  IInv'
<1>1. PICK d : d = work[w].def
  OBVIOUS
<1>2. w \in Workers /\ work[w].waits /\ t = Target[d]
  BY <1>1 DEF Waiting
<1>3. work[w].op # "idle"
  BY <1>2, AtRest, ZenonT(30) DEF IInv
<1>4. /\ d \in Definitions /\ d # Nobody /\ Stands(w) /\ Where(w)
      /\ d \in deleted => work[w].at = 1
      /\ work[w].op \in {"create", "mount", "unmount", "delete"}
      /\ work[w].at <= Len(Steps(work[w].op, work[w].def))
  BY <1>1, <1>2, <1>3, OwnBefore, AtWork, Zenon DEF IInv
<1>5. Holds(w) /\ Step(w) \in JobSteps /\ job[t] = Step(w)
  BY <1>1, <1>2, <1>4, Zenon DEF Stands
<1>6. /\ work[w].at > 1
      /\ work[w].op = "delete" => Rank(w) = DeletePlace[Step(w)] /\ Step(w) \in {"stopAutomount", "stopMount"}
      /\ work[w].op = "create" => Rank(w) = 10
  BY <1>2, <1>4, <1>5, AtJobHolds, Zenon
<1>7. ASSUME NEW v \in Waiting(t)
      PROVE  v = w
  <2>1. v \in Workers /\ work[v].waits /\ Target[work[v].def] = t
    BY DEF Waiting
  <2>2. Holds(v)
    BY <2>1, Zenon DEF IInv, Stands
  <2> QED
    BY <1>1, <1>2, <1>5, <2>1, <2>2, OneHolder, ZenonT(30)
<1>8. PICK k : k = [work[w] EXCEPT !.at = @ + 1, !.waits = FALSE]
  OBVIOUS
<1>9. work \in [Workers -> WorkRecords] /\ SoundRecord(work[w])
  BY <1>2, TypesAre, Zenon DEF IInv
<1>10. work' = [work EXCEPT ![w] = k]
  <2>1. work' = [v \in Workers |-> IF v \in Waiting(t)
                   THEN [work[v] EXCEPT !.at = @ + 1, !.waits = FALSE] ELSE work[v]]
    BY Zenon DEF JobDone
  <2>2. Waiting(t) = {w}
    BY <1>7
  <2>3. work' = [v \in Workers |-> IF v = w THEN k ELSE work[v]]
    BY <1>8, <2>1, <2>2, Zenon
  <2> QED
    BY <1>2, <1>9, <2>3, Zenon
<1>11. Advanced(w, k) /\ k.undo = work[w].undo /\ k.new = work[w].new /\ k.seen = work[w].seen
  <2>1. work[w].undo # <<>> => work[w].op = "create"
    BY <1>3, <1>4, <1>9 DEF SoundRecord
  <2>2. work[w] \in WorkRecords /\ work[w].active \subseteq work[w].seen /\ work[w].seen \subseteq used
    BY <1>2, <1>3, <1>9, Zenon DEF SoundRecord
  <2>3. /\ k \in WorkRecords /\ k.op = work[w].op /\ k.def = work[w].def /\ k.at = work[w].at + 1
        /\ ~k.waits /\ k.bad = work[w].bad /\ k.undo = work[w].undo /\ k.new = work[w].new
        /\ k.seen = work[w].seen /\ k.active = work[w].active
    <3>1. PICK r \in WorkRecords : r = work[w]
      BY <2>2
    <3>2. k = [r EXCEPT !.at = r.at + 1, !.waits = FALSE] /\ r.at + 1 \in Nat
      BY <1>8, <3>1 DEF WorkRecords
    <3>3. k \in WorkRecords
      BY <3>2, Zenon DEF WorkRecords
    <3> QED
      BY <3>1, <3>2, <3>3, SMTT(30) DEF WorkRecords
  <2> QED
    BY <2>1, <2>2, <2>3, ZenonT(30) DEF Advanced
<1>12. /\ UNCHANGED <<files, history>> /\ enabled' = enabled /\ used' = used
       /\ job' = [job EXCEPT ![t] = "none"]
       /\ armed' = CASE job[t] = "start" -> armed \cup {t}
                     [] job[t] = "stopAutomount" -> armed \ {t}
                     [] OTHER -> armed
       /\ mounted' = IF job[t] = "stopMount" THEN mounted \ {t} ELSE mounted
       /\ disk' = disk /\ manifest' = manifest /\ made' = made /\ cut' = cut
       /\ unnoted' = unnoted /\ undone' = undone /\ deleted' = deleted
  BY Zenon DEF JobDone, files, history
<1>13. Moved(w, d) /\ work'[w] = k
  BY <1>1, <1>2, <1>4, <1>10, <1>11, <1>12, Advancing, Zenon
<1>14. /\ work'[w].undo = work[w].undo /\ work'[w].new = work[w].new /\ work'[w].seen = work[w].seen
       /\ Undos(w)' = Undos(w)
  BY <1>11, <1>13 DEF Undos
<1>15. HostTypes
  BY TypesAre, Zenon DEF IInv
<1>16. Touches(w)
  <2>1. \A x \in Targets : x # t => SameUnits(x)
    BY <1>12, <1>15 DEF SameUnits, HostTypes
  <2> QED
    BY <1>1, <1>2, <1>5, <1>12, <1>13, <2>1, Zenon DEF Touches, Moved
<1>17. ASSUME Creating(w)
       PROVE  CreateStands(w)' /\ ForwardStands(w)' /\ work[w].op = "create"
  <2>1. work[w].op = "create" /\ CreateStands(w) /\ ForwardStands(w)
    BY <1>4, <1>17, SMTT(30), Zenon, SMTT(60) DEF Creating, Stands
  <2>2. Rank(w) = 10 /\ Rank(w)' = 11
    BY <1>6, <1>13, <1>17, <2>1 DEF Moved
  <2>3. \A s \in Undos(w) : CreatePlace[s] < 11
    <3>1. \A s \in UndoSteps : CreatePlace[s] < 11
      BY CreatePlaces DEF UndoSteps
    <3> QED
      BY <1>2, <3>1, UndosAreSteps, Zenon
  <2>4. Alone(d) => Alone(work[w].def)'
    BY <1>12, <1>13, Zenon DEF Alone, Moved
  <2>5. CreateStands(w)'
    <3>1. Alone(d) /\ ~(~work[w].new /\ disk[DirectoryOf(d)] = d)
      <4>1. 10 > 2 /\ 10 # 3
        OBVIOUS
      <4> QED
        BY <1>1, <2>1, <2>2, <4>1, Zenon DEF CreateStands
    <3>2. 11 > 2 /\ 11 > 3
      OBVIOUS
    <3> QED
      BY <1>1, <1>12, <1>13, <1>14, <2>1, <2>2, <2>3, <2>4, <3>1, <3>2, ZenonT(30)
      DEF CreateStands, Moved, DirectoryOf, FileOf
  <2>6. ForwardStands(w)'
    <3>1. /\ manifest[d] = "active" /\ "manifest" \in Undos(w) /\ ~work[w].bad
          /\ \A s \in FileSteps : (s = "credentials" => d \in WithCredentials) => disk[FileOf(s, d)] # Nobody
          /\ \A f \in OwnFiles(d) : disk[f] = d => \E s \in Undos(w) : f = FileOf(s, d)
      <4>1. \A s \in FileSteps : CreatePlace[s] < 10
        BY CreatePlaces DEF FileSteps
      <4> QED
        BY <1>1, <2>1, <2>2, <4>1 DEF ForwardStands
    <3>2. /\ ~(Rank(w)' = 2) /\ ~(Rank(w)' <= 7)
          /\ manifest'[d] = "active" /\ "manifest" \in Undos(w)' /\ ~work'[w].bad
      BY <1>12, <1>13, <1>14, <2>2, <3>1 DEF Moved
    <3>3. /\ \A s \in FileSteps : (s = "credentials" => d \in WithCredentials) => disk'[FileOf(s, d)] # Nobody
          /\ \A f \in OwnFiles(d) : disk'[f] = d => \E s \in Undos(w)' : f = FileOf(s, d)
      BY <1>12, <1>14, <3>1, Zenon
    <3> QED
      BY <1>13, <3>2, <3>3, Zenon
      DEF ForwardStands, Moved, FileOf, OwnFiles, UnitFiles, Credentials
  <2> QED
    BY <2>1, <2>5, <2>6, SMTT(30), Zenon, SMTT(60)
<1>18. ASSUME work[w].op = "delete"
       PROVE  DeleteStands(w)' /\ Rank(w)' # 13
  <2>1. DeleteStands(w)
    BY <1>4, <1>18, Zenon DEF Stands
  <2>2. job[t] = Step(w) /\ t \in Targets /\ job' \in [Targets -> {"none"} \cup JobSteps] /\ job'[t] = "none"
    BY <1>5, <1>12, <1>15 DEF HostTypes
  <2>3. CASE Step(w) = "stopAutomount"
    <3>1. Rank(w) = 2 /\ Rank(w)' = 3
      BY <1>6, <1>13, <1>18, <2>3, DeletePlaces DEF Moved
    <3>2. manifest[d] = "attention" /\ t \notin armed'
      BY <1>1, <1>12, <2>1, <2>2, <2>3, <3>1, SMTT(30) DEF DeleteStands
    <3> QED
      BY <1>2, <1>12, <1>13, <2>2, <3>1, <3>2, SMTT(30), Zenon, SMTT(60) DEF DeleteStands, Moved
  <2>4. CASE Step(w) = "stopMount"
    <3>1. Rank(w) = 3 /\ Rank(w)' = 4
      BY <1>6, <1>13, <1>18, <2>4, DeletePlaces, SMTT(30) DEF Moved
    <3>2. manifest[d] = "attention" /\ t \notin armed' /\ t \notin mounted'
      BY <1>1, <1>2, <1>12, <2>1, <2>2, <2>4, <3>1, SMTT(30) DEF DeleteStands
    <3> QED
      BY <1>2, <1>12, <1>13, <2>2, <3>1, <3>2, SMTT(30), Zenon, SMTT(60) DEF DeleteStands, Moved
  <2> QED
    BY <1>6, <1>18, <2>3, <2>4
<1>19. work[w].op \in {"mount", "unmount"} => manifest'[d] # "none"
  BY <1>1, <1>4, <1>6, <1>12, Zenon DEF Stands
<1>20. Stands(w)'
  <2>1. work'[w].op # "rollback" /\ ~work'[w].waits
    BY <1>4, <1>13 DEF Moved
  <2>2. /\ Creating(w)' => CreateStands(w)'
        /\ work'[w].op = "create" => ForwardStands(w)'
    BY <1>13, <1>17, Zenon DEF Moved, Creating
  <2>3. work'[w].op = "delete" => DeleteStands(w)'
    BY <1>13, <1>18, Zenon DEF Moved
  <2>4. work'[w].op \in {"mount", "unmount"} => manifest'[work'[w].def] # "none"
    BY <1>13, <1>19, Zenon DEF Moved
  <2> QED
    BY <2>1, <2>2, <2>3, <2>4, Zenon DEF Stands
<1>21. d \notin deleted
  BY <1>4, <1>6
<1> QED
  BY <1>1, <1>2, <1>3, <1>12, <1>13, <1>16, <1>18, <1>20, <1>21, FilesStay, Zenon DEF Moved

(* A job is done.                                                          *)
LEMMA JobDoneKeeps ==
  ASSUME IInv, NEW t \in Targets, JobDone(t)
  PROVE  IInv'
<1>1. HostTypes /\ work \in [Workers -> WorkRecords]
  BY TypesAre, Zenon DEF IInv
<1>2. /\ UNCHANGED <<files, used, history>> /\ enabled' = enabled /\ used' = used /\ faults' = faults
      /\ job' = [job EXCEPT ![t] = "none"]
      /\ armed' = CASE job[t] = "start" -> armed \cup {t}
                    [] job[t] = "stopAutomount" -> armed \ {t}
                    [] OTHER -> armed
      /\ mounted' = IF job[t] = "stopMount" THEN mounted \ {t} ELSE mounted
      /\ disk' = disk /\ manifest' = manifest /\ made' = made /\ deleted' = deleted
  BY Zenon DEF JobDone, files, history
<1>3. HostTypes'
  BY <1>1, <1>2 DEF HostTypes
<1>4. CASE Waiting(t) = {}
  <2>1. work' = work
    BY <1>1, <1>4 DEF JobDone
  <2>2. \A x \in Targets : /\ x \in armed' => x \in armed \/ job[x] = "start"
                           /\ x \in mounted' => x \in mounted \/ x \in armed
                           /\ job'[x] = "start" => job[x] = "start"
                           /\ x # t => job'[x] = job[x]
    BY <1>1, <1>2 DEF HostTypes
  <2>3. ASSUME NEW w \in Workers, work[w].waits
        PROVE  job'[Target[work[w].def]] = job[Target[work[w].def]]
    <3>1. work[w].op # "idle"
      BY <2>3, AtRest, Zenon DEF IInv
    <3>2. Target[work[w].def] \in Targets
      BY <3>1, OwnBefore, MountsAssumption
    <3>3. Target[work[w].def] # t
      BY <1>4, <2>3 DEF Waiting
    <3> QED
      BY <2>2, <3>2, <3>3, Zenon
  <2>4. UNCHANGED <<files, work, used, history>>
    BY <1>2, <2>1, Zenon
  <2> QED
    BY <1>2, <1>3, <2>2, <2>3, <2>4, UnitsOnly, Zenon
<1>5. CASE Waiting(t) # {}
  <2>1. PICK w : w \in Waiting(t)
    BY <1>5
  <2> QED
    BY <1>3, <2>1, WaiterAdvances, Zenon
<1> QED
  BY <1>4, <1>5

(* A job fails, and whoever waits for it gives up.                         *)
LEMMA JobFailsKeeps ==
  ASSUME IInv, NEW t \in Targets, JobFails(t)
  PROVE  IInv'
<1>1. HostTypes
  BY TypesAre, Zenon DEF IInv
<1>2. /\ UNCHANGED <<files, used, history>> /\ UNCHANGED <<files, history>> /\ enabled' = enabled /\ used' = used
      /\ Fault /\ job' = [job EXCEPT ![t] = "none"] /\ armed' = armed /\ mounted' = mounted
      /\ disk' = disk /\ manifest' = manifest /\ made' = made /\ deleted' = deleted
      /\ IF Waiting(t) = {} THEN work' = work ELSE \E w \in Waiting(t) : GiveUp(w)
  BY Zenon DEF JobFails, files, history
<1>3. /\ job' \in [Targets -> {"none"} \cup JobSteps] /\ job'[t] = "none"
      /\ \A x \in Targets : x # t => job'[x] = job[x]
  BY <1>1, <1>2 DEF HostTypes
<1>4. HostTypes'
  <2>1. faults' \in 0..MaxFaults
    BY <1>2, FaultCounts, Zenon
  <2> QED
    BY <1>1, <1>2, <1>3, <2>1, Zenon DEF HostTypes
<1>5. CASE Waiting(t) = {}
  <2>1. \A x \in Targets : /\ x \in armed' => x \in armed \/ job[x] = "start"
                           /\ x \in mounted' => x \in mounted \/ x \in armed
                           /\ job'[x] = "start" => job[x] = "start"
    BY <1>2, <1>3
  <2>2. ASSUME NEW w \in Workers, work[w].waits
        PROVE  job'[Target[work[w].def]] = job[Target[work[w].def]]
    <3>1. work[w].op # "idle"
      BY <2>2, AtRest, Zenon DEF IInv
    <3>2. Target[work[w].def] \in Targets
      BY <3>1, OwnBefore, MountsAssumption
    <3>3. Target[work[w].def] # t
      BY <1>5, <2>2 DEF Waiting
    <3> QED
      BY <1>3, <3>2, <3>3, Zenon
  <2>3. UNCHANGED <<files, work, used, history>>
    BY <1>2, <1>5, Zenon
  <2> QED
    BY <1>2, <1>4, <2>1, <2>2, <2>3, UnitsOnly, Zenon
<1>6. CASE Waiting(t) # {}
  <2>1. PICK w \in Waiting(t) : GiveUp(w)
    BY <1>2, <1>6, Zenon
  <2>2. w \in Workers /\ work[w].waits /\ Target[work[w].def] = t
    BY DEF Waiting
  <2>3. Holds(w) /\ work[w].op # "idle"
    BY <2>2, AtRest, Zenon DEF IInv, Stands
  <2>4. work[w].op \in {"create", "mount", "unmount", "delete"}
    BY <2>2, <2>3, AtWork DEF IInv
  <2>5. \A x \in Targets : SameUnits(x) \/ (Holds(w) /\ x = Target[work[w].def])
    BY <1>2, <1>3, <2>2, <2>3, Zenon DEF SameUnits
  <2> QED
    BY <1>2, <1>4, <2>1, <2>2, <2>4, <2>5, GivingUp, Zenon
<1> QED
  BY <1>5, <1>6

(* A definition that is gone stays gone while no file of its own appears   *)
(* and its units stay as they are.                                         *)
LEMMA GoneLift ==
  ASSUME NEW e, Gone(e), manifest'[e] = "none", used \subseteq used',
         \A f \in OwnFiles(e) : disk'[f] # e,
         enabled' = enabled, armed' = armed, mounted' = mounted, job' = job
  PROVE  Gone(e)'
<1>1. Solo(e)' => Solo(e)
  BY Zenon DEF Solo
<1>2. Quiet(Target[e])' <=> Quiet(Target[e])
  BY Zenon DEF Quiet
<1> QED
  BY <1>1, <1>2, Zenon DEF Gone, OwnFiles, UnitFiles, Credentials, FileOf

(* The broker crashes.                                                     *)
LEMMA CrashKeeps ==
  ASSUME IInv, Crash
  PROVE  IInv'
<1>1. /\ Fault /\ work' = [w \in Workers |-> Idle]
      /\ cut' = cut \cup {work[w].def : w \in {v \in Workers : Creating(v)}}
      /\ UNCHANGED <<files, systemd, used>>
      /\ disk' = disk /\ manifest' = manifest /\ made' = made /\ used' = used
      /\ enabled' = enabled /\ armed' = armed /\ mounted' = mounted /\ job' = job
      /\ unnoted' = unnoted /\ undone' = undone /\ deleted' = deleted
  BY Zenon DEF Crash, files, systemd
<1>2. HostTypes'
  <2>1. deleted' \subseteq used'
    BY <1>1, SMTT(30), Zenon, SMTT(60) DEF IInv, Types
  <2> QED
    BY <1>1, <2>1, HostTypesStay, FaultCounts, Zenon
<1>3. Idle \in WorkRecords /\ Idle.op = "idle" /\ Idle.def = Nobody /\ ~Idle.waits
  BY DEF Idle, WorkRecords
<1>4. \A w \in Workers : /\ work'[w] = Idle /\ work'[w].op = "idle" /\ work'[w].def = Nobody /\ ~work'[w].waits
                         /\ ~Creating(w)'
  BY <1>1, <1>3 DEF Creating
<1>5. Types'
  <2>1. work' \in [Workers -> WorkRecords]
    BY <1>1, <1>3
  <2>2. TypeOK'
    BY <1>2, <1>4, Zenon DEF TypeOK, HostTypes
  <2> QED
    BY <1>2, <1>4, <2>1, <2>2, Zenon DEF Types, HostTypes
<1>6. Locks'
  BY <1>4, Zenon DEF Locks
<1>7. OneDefinitionPerTarget'
  BY <1>1, Zenon DEF IInv, OneDefinitionPerTarget
<1>8. ASSUME NEW w \in Workers
      PROVE  Stands(w)'
  BY <1>4 DEF Stands
<1>9. ASSUME NEW e \in Definitions
      PROVE  Kept(e)'
  <2>1. Kept(e) /\ e # Nobody
    BY MountsAssumption, Zenon DEF IInv
  <2>2. e \in deleted' => Gone(e)'
    <3>1. ASSUME Gone(e)
          PROVE  Gone(e)'
      <4>1. manifest'[e] = "none" /\ \A f \in OwnFiles(e) : disk'[f] # e
        BY <1>1, <3>1, Zenon DEF Gone
      <4> QED
        BY <1>1, <3>1, <4>1, GoneLift, Zenon
    <3> QED
      BY <1>1, <2>1, <3>1, Zenon DEF Kept
  <2>3. e \notin unnoted' \cup cut' /\ manifest'[e] = "none" => \A f \in OwnFiles(e) : disk'[f] # e
    <3>1. e \notin cut' => e \notin cut /\ ~\E w \in Workers : work[w].def = e /\ Creating(w)
      BY <1>1, Zenon
    <3> QED
      BY <1>1, <2>1, <3>1, Zenon DEF Kept
  <2>4. /\ e \in made' => manifest'[e] # "none" /\ disk'[DirectoryOf(e)] \in {Nobody, e}
        /\ manifest'[e] # "none" /\ disk'[DirectoryOf(e)] = e => e \in made'
        /\ e \notin used' => manifest'[e] = "none" /\ \A f \in OwnFiles(e) : disk'[f] # e
        /\ e \notin unnoted' \cup undone' /\ manifest'[e] = "active" => \A f \in OwnFiles(e) : disk'[f] # Nobody
    BY <1>1, <2>1, Zenon DEF Kept
  <2>5. \A w \in Workers : work'[w].def # e
    BY <1>4, <2>1, Zenon
  <2> QED
    BY <2>2, <2>3, <2>4, <2>5, Zenon DEF Kept, DirectoryOf, OwnFiles, UnitFiles, Credentials, FileOf
<1> QED
  BY <1>5, <1>6, <1>7, <1>8, <1>9, Zenon DEF IInv

(* The types when no record changes.                                       *)
LEMMA WorkStays ==
  ASSUME IInv, HostTypes', work' = work, used' = used
  PROVE  Types'
<1>1. \A w \in Workers :
        \/ work'[w] = Idle
        \/ /\ work'[w].op \in {"create", "rollback", "mount", "unmount", "delete"}
           /\ work'[w].def \in used' /\ work'[w].at \in 1..(Len(Steps(work'[w].op, work'[w].def)) + 1)
           /\ work'[w].active \subseteq work'[w].seen /\ work'[w].seen \subseteq used'
           /\ work'[w].undo # <<>> => work'[w].op \in {"create", "rollback"}
           /\ work'[w].waits => /\ work'[w].op # "rollback"
                                /\ work'[w].at <= Len(Steps(work'[w].op, work'[w].def)) /\ ~work'[w].late
  BY Zenon DEF IInv, Types, TypeOK
<1>2. TypeOK'
  BY <1>1, Zenon DEF TypeOK, HostTypes, Steps
<1> QED
  BY <1>2, Zenon DEF IInv, Types, HostTypes

(* An administrator puts a file of their own in place of a managed one.    *)
LEMMA EditKeeps ==
  ASSUME IInv, NEW d \in Definitions, NEW f \in Files, Edit(d, f)
  PROVE  IInv'
<1> DEFINE open == \E e \in Definitions : f \in OwnFiles(e) /\ Locked(e)
<1>0. PICK put : /\ put \in {Foreign, Meanwhile, Alike} /\ disk' = [disk EXCEPT ![f] = put]
                 /\ open => put # Foreign
  BY MountsAssumption, Zenon DEF Edit
<1>1. /\ f \in UnitFiles(d) \cup Credentials(d) /\ Fault
      /\ manifest' = manifest /\ made' = made /\ work' = work /\ used' = used
      /\ enabled' = enabled /\ armed' = armed /\ mounted' = mounted /\ job' = job
      /\ UNCHANGED history /\ unnoted' = unnoted /\ cut' = cut /\ undone' = undone /\ deleted' = deleted
  BY Zenon DEF Edit, systemd, history
<1>2. HostTypes
  BY TypesAre, Zenon DEF IInv
<1>3. /\ \A g \in Files : disk'[g] = IF g = f THEN put ELSE disk[g]
      /\ disk' \in [Files -> Definitions \cup {Nobody, Foreign, Meanwhile, Alike}]
  BY <1>0, <1>2 DEF HostTypes
<1>4. HostTypes'
  <2>1. faults' \in 0..MaxFaults
    BY <1>1, FaultCounts, Zenon
  <2> QED
    BY <1>1, <1>2, <1>3, <2>1, Zenon DEF HostTypes
<1>5. Types'
  BY <1>1, <1>4, WorkStays, Zenon
<1>6. Locks'
  BY <1>1, Zenon DEF IInv, Locks, Creating
<1>7. OneDefinitionPerTarget'
  BY <1>1, ZenonT(30) DEF IInv, OneDefinitionPerTarget
<1>8. \A e \in Definitions : f # DirectoryOf(e)
  BY <1>1 DEF DirectoryOf, FileOf, UnitFiles, Credentials
<1>9. ASSUME NEW w \in Workers
      PROVE  Stands(w)'
  <2>1. CASE work[w].op = "idle"
    BY <1>1, <2>1, AtRest, Zenon DEF IInv, Stands, Creating
  <2>2. CASE work[w].op # "idle"
    <3>1. PICK e : e = work[w].def
      OBVIOUS
    <3>2. /\ e \in Definitions /\ Stands(w) /\ OwnFiles(e) \subseteq Files /\ Locked(e)
          /\ DirectoryOf(e) \in OwnFiles(e)
      BY <2>2, <3>1, OwnBefore, TheFiles, Zenon DEF Locked
    <3>3. /\ disk'[DirectoryOf(e)] = disk[DirectoryOf(e)]
          /\ \A g \in OwnFiles(e) : /\ disk'[g] = e => disk[g] = e
                                    /\ disk'[g] = Nobody => disk[g] = Nobody
                                    /\ disk[g] \in Left(e) => disk'[g] \in Left(e)
      <4>1. disk'[DirectoryOf(e)] = disk[DirectoryOf(e)]
        BY <1>3, <1>8, <3>2, Zenon
      <4>2. put # e /\ put # Nobody
        BY <1>0, <3>2, MountsAssumption, Zenon
      <4>3. ASSUME NEW g \in OwnFiles(e), g = f
            PROVE  put \in Left(e)
        BY <1>0, <3>2, <4>3, Zenon DEF Left
      <4> QED
        BY <1>3, <3>2, <4>1, <4>2, <4>3, Zenon
    <3>4. work[w].op = "delete" =>
            /\ Rank(w) \in 3..12 => Target[e] \notin armed' /\ job'[Target[e]] # "start"
            /\ Rank(w) \in 4..12 => Target[e] \notin mounted'
            /\ Rank(w) \in 5..12 => Target[e] \notin enabled'
      BY <1>1, <3>1, <3>2, Zenon DEF Stands, DeleteStands
    <3>5. work'[w].waits => Holds(w) /\ Step(w) \in JobSteps /\ job'[Target[e]] = Step(w)
      BY <1>1, <3>1, <3>2, Zenon DEF Stands
    <3>6. SameCourse(work'[w], work[w])
      BY <1>1, Zenon DEF SameCourse
    <3> QED
      BY <1>1, <2>2, <3>1, <3>3, <3>4, <3>5, <3>6, StayingAnyhow, Zenon
  <2> QED
    BY <2>1, <2>2
<1>10. ASSUME NEW e \in Definitions
       PROVE  Kept(e)'
  <2>1. /\ Kept(e) /\ e # put /\ Nobody # put
        /\ OwnFiles(e) \subseteq Files /\ DirectoryOf(e) \in OwnFiles(e)
    BY <1>0, MountsAssumption, TheFiles, Zenon DEF IInv
  <2>2. \A g \in Files : (disk'[g] = e => disk[g] = e) /\ (disk'[g] = Nobody => disk[g] = Nobody)
    BY <1>3, <2>1, Zenon
  <2>3. disk'[DirectoryOf(e)] = disk[DirectoryOf(e)]
    BY <1>3, <1>8, <2>1, Zenon
  <2>4. ASSUME Gone(e)
        PROVE  Gone(e)'
    <3>1. manifest'[e] = "none" /\ \A g \in OwnFiles(e) : disk'[g] # e
      BY <1>1, <2>1, <2>2, <2>4, Zenon DEF Gone
    <3> QED
      BY <1>1, <2>4, <3>1, GoneLift, Zenon
  <2>5. \A v \in Workers : Rank(v)' = Rank(v) /\ (Creating(v)' <=> Creating(v))
    BY <1>1, SameWorker, Zenon
  <2>6. /\ e \in made' => manifest'[e] # "none" /\ disk'[DirectoryOf(e)] \in {Nobody, e}
        /\ manifest'[e] # "none" /\ disk'[DirectoryOf(e)] = e => e \in made'
        /\ e \notin used' => manifest'[e] = "none" /\ \A g \in OwnFiles(e) : disk'[g] # e
        /\ e \notin unnoted' \cup undone' /\ manifest'[e] = "active" => \A g \in OwnFiles(e) : disk'[g] # Nobody
        /\ e \in deleted' => Gone(e)'
    BY <1>1, <2>1, <2>2, <2>3, <2>4, Zenon DEF Kept
  <2>7. e \notin unnoted' \cup cut' /\ manifest'[e] = "none"
          => \/ \E w \in Workers : work'[w].def = e /\ Creating(w)'
             \/ \A g \in OwnFiles(e) : disk'[g] # e
    BY <1>1, <2>1, <2>2, <2>5, Zenon DEF Kept
  <2>8. \A w \in Workers :
          /\ e \in deleted' /\ work'[w].def = e => ~Creating(w)' /\ work'[w].at = 1
          /\ work'[w].def = e /\ work'[w].op = "delete" /\ Rank(w)' = 13 => Gone(e)'
    BY <1>1, <2>1, <2>4, <2>5, Zenon DEF Kept
  <2> QED
    BY <2>6, <2>7, <2>8, Zenon DEF Kept, DirectoryOf, OwnFiles, UnitFiles, Credentials, FileOf
<1> QED
  BY <1>5, <1>6, <1>7, <1>9, <1>10, Zenon DEF IInv
==============================================================================
