---------------------------- MODULE RemoteMounts ----------------------------
(***************************************************************************)
(* Managed remote mounts: the create, mount, unmount and delete operations *)
(* of internal/modules/storage/remote_manager.go over the files of         *)
(* manifest.go and units.go, the target directories of paths.go and the    *)
(* systemd jobs of cmd/pilothoused/main.go.  Every step can fail, ctx can  *)
(* expire, the broker can crash between any two steps, and an              *)
(* administrator can replace a file by hand.                               *)
(*                                                                         *)
(* A definition is a manifest, a target directory, two unit files named    *)
(* after the target and, for some, a credentials file.  An operation is a  *)
(* sequence of named steps; a failed create undoes what it noted.          *)
(***************************************************************************)
EXTENDS Integers, Sequences, FiniteSets

CONSTANTS Definitions,     \* ids, each asked for by one create
          Targets, Target, \* Target[d]: where definition d mounts
          WithCredentials, \* definitions that have a credentials file
          Workers,         \* concurrent operations
          Nobody,
          Foreign,         \* the administrator's, put there while no operation was at work,
          Meanwhile,       \* during one,
          Alike,           \* or a credentials file with the mode and owner of a managed one
          MaxFaults        \* bound on failures, crashes and edits by hand

ASSUME MountsAssumption ==
  /\ Target \in [Definitions -> Targets]
  /\ WithCredentials \subseteq Definitions
  /\ MaxFaults \in Nat
  /\ Nobody \notin Definitions /\ Foreign \notin Definitions
  /\ Meanwhile \notin Definitions /\ Alike \notin Definitions
  /\ Nobody # Foreign /\ Nobody # Meanwhile /\ Nobody # Alike
  /\ Foreign # Meanwhile /\ Foreign # Alike /\ Meanwhile # Alike

VARIABLES disk,     \* disk[f]: the definition a file or directory belongs to
          manifest, \* "none", "active" or "attention" (needs-attention)
          made,     \* manifests that say their create made the target
          enabled,  \* targets whose automount unit is enabled,
          armed,    \* running,
          mounted,  \* and targets with the share mounted
          job,      \* job[t]: the systemd job pending for the units of t
          work,     \* what each worker is doing
          used,     \* definitions that have been asked for
          faults,
          unnoted,  \* history: definitions with a failure that rollback cannot know
          cut,      \* history: definitions whose create a crash cut off
          undone,   \* history: definitions one of whose undos failed
          deleted   \* history: definitions whose delete succeeded

systemd == <<enabled, armed, mounted, job>>
files == <<disk, manifest, made>>
history == <<unnoted, cut, undone, deleted>>
mountVars == <<files, systemd, work, used, faults, history>>

FileSteps == {"directory", "credentials", "mount", "automount"}
JobSteps == {"start", "stopAutomount", "stopMount"}

(* The steps that are given ctx and fail once it has expired.              *)
ContextSteps == JobSteps \cup {"list", "directory", "reload", "enable", "disable"}

FileOf(step, d) == <<step, IF step = "credentials" THEN d ELSE Target[d]>>
UnitFiles(d) == {FileOf("mount", d), FileOf("automount", d)}
Credentials(d) == IF d \in WithCredentials THEN {FileOf("credentials", d)} ELSE {}
OwnFiles(d) == UnitFiles(d) \cup Credentials(d) \cup {FileOf("directory", d)}
Files == UNION {OwnFiles(d) : d \in Definitions}

CreateSteps(d) ==
  IF d \in WithCredentials
  THEN <<"list", "verify", "directory", "credentials", "mount", "automount", "manifest",
         "reload", "enable", "start">>
  ELSE <<"list", "verify", "directory", "mount", "automount", "manifest",
         "reload", "enable", "start">>

(* Mutant: the share is stopped while the automount is still armed.        *)
MountStoppedFirst(d) ==
  <<"attention", "stopMount", "stopAutomount", "disable", "mount", "automount">>
    \o (IF d \in WithCredentials THEN <<"credentials">> ELSE <<>>)
    \o <<"reload", "list", "verify", "directory", "manifest">>

DeleteSteps(d) ==
  IF d \in WithCredentials
  THEN <<"attention", "stopAutomount", "stopMount", "disable", "mount", "automount", "credentials",
         "reload", "list", "verify", "directory", "manifest">>
  ELSE <<"attention", "stopAutomount", "stopMount", "disable", "mount", "automount",
         "reload", "list", "verify", "directory", "manifest">>

Steps(op, d) ==
  CASE op \in {"create", "rollback"} -> CreateSteps(d)
    [] op = "delete" -> DeleteSteps(d)
    [] op = "mount" -> <<"load", "start">>
    [] op = "unmount" -> <<"load", "stopAutomount", "stopMount">>

Idle == [op |-> "idle", def |-> Nobody, at |-> 1, waits |-> FALSE, late |-> FALSE,
         undo |-> <<>>, seen |-> {}, active |-> {}, busy |-> {}, new |-> FALSE, bad |-> FALSE]

TypeOK ==
  /\ disk \in [Files -> Definitions \cup {Nobody, Foreign, Meanwhile, Alike}]
  /\ manifest \in [Definitions -> {"none", "active", "attention"}]
  /\ made \subseteq Definitions
  /\ enabled \subseteq Targets /\ armed \subseteq Targets /\ mounted \subseteq Targets
  /\ job \in [Targets -> {"none"} \cup JobSteps]
  /\ \A w \in Workers :
       LET k == work[w]
       IN  \/ k = Idle
           \/ /\ k.op \in {"create", "rollback", "mount", "unmount", "delete"}
              /\ k.def \in used /\ k.at \in 1..(Len(Steps(k.op, k.def)) + 1)
              /\ k.active \subseteq k.seen /\ k.seen \subseteq used
              /\ k.undo # <<>> => k.op \in {"create", "rollback"}
              /\ k.waits => k.op # "rollback" /\ k.at <= Len(Steps(k.op, k.def)) /\ ~k.late
  /\ used \subseteq Definitions
  /\ faults \in 0..MaxFaults

(* Some targets exist already, as the administrator's directories.         *)
Init ==
  /\ \E there \in SUBSET Targets :
       disk = [f \in Files |-> IF f[1] = "directory" /\ f[2] \in there THEN Foreign ELSE Nobody]
  /\ manifest = [d \in Definitions |-> "none"] /\ made = {}
  /\ enabled = {} /\ armed = {} /\ mounted = {} /\ job = [t \in Targets |-> "none"]
  /\ work = [w \in Workers |-> Idle]
  /\ used = {} /\ faults = 0
  /\ unnoted = {} /\ cut = {} /\ undone = {} /\ deleted = {}

------------------------------------------------------------------------------
(* Operations: createMu is held for a whole create, and lockDefinition     *)
(* for any operation on a definition.                                      *)
Creating(w) == work[w].op \in {"create", "rollback"}
Locked(d) == \E w \in Workers : work[w].def = d

Begin(w, op, d) ==
  /\ work[w] = Idle /\ ~Locked(d)
  /\ work' = [work EXCEPT ![w].op = op, ![w].def = d]
  /\ UNCHANGED <<files, systemd, faults, history>>

Create(w, d) ==
  /\ d \notin used /\ \A v \in Workers : ~Creating(v)
  /\ Begin(w, "create", d)
  /\ used' = used \cup {d}

Operate(w, op, d) ==
  /\ d \in used
  /\ Begin(w, op, d)
  /\ UNCHANGED used

Step(w) == Steps(work[w].op, work[w].def)[work[w].at]
AtStep(w, ops) ==
  /\ work[w].op \in ops /\ ~work[w].waits
  /\ work[w].at <= Len(Steps(work[w].op, work[w].def))

Return(w) == work' = [work EXCEPT ![w] = Idle]
Fault == faults < MaxFaults /\ faults' = faults + 1

(* Create rolls back; the other operations return, and delete has already  *)
(* recorded that the definition needs attention.                           *)
GiveUp(w) ==
  IF work[w].op = "create"
  THEN work' = [work EXCEPT ![w].op = "rollback", ![w].waits = FALSE]
  ELSE Return(w)

------------------------------------------------------------------------------
(* What the code checks before a step, so that without a fault the step    *)
(* succeeds exactly when this holds.                                       *)

(* VerifyOwnedArtifacts, of a manifest that was read as active: of the     *)
(* credentials only mode and owner are compared.                           *)
Owned(d) ==
  /\ manifest[d] = "active"
  /\ \A f \in UnitFiles(d) : disk[f] = d
  /\ \A f \in Credentials(d) : disk[f] \in {d, Alike}

(* Mutant: a definition that needs attention cannot be deleted.            *)
DeletableOnce(d) == manifest[d] = "active"

(* Delete only needs the manifest.                                         *)
Deletable(d) == manifest[d] # "none"

(* Mutant: a definition that needs attention reserves nothing.             *)
ActiveReserve(w, d) ==
  \/ Target[d] \in work[w].busy
  \/ \E e \in work[w].active : e # d /\ Target[e] = Target[d]

(* hasConflict, on the inventory this operation listed.                    *)
Conflict(w, d) ==
  \/ Target[d] \in work[w].busy
  \/ \E e \in work[w].seen : e # d /\ Target[e] = Target[d]

(* writeArtifact accepts a missing file and one with the same contents.    *)
Writable(f, d) == disk[f] \in {Nobody, d}

(* Mutant: delete removes whatever it finds.                               *)
RemovableAlways(f, d) == TRUE

(* removeVerifiedArtifact accepts a missing file, a unit file with the     *)
(* rendered contents and credentials with the mode and owner.              *)
Removable(f, d) == disk[f] \in {Nobody, d, Alike}

(* systemd (external) has no unit any more whose file is gone and which    *)
(* is not running, and answers NoSuchUnit once it has noticed.             *)
MayBeRefused(w) ==
  LET t == Target[work[w].def]
  IN  \/ Step(w) = "stopAutomount" /\ disk[<<"automount", t>>] = Nobody /\ t \notin armed
      \/ Step(w) = "stopMount" /\ disk[<<"mount", t>>] = Nobody /\ t \notin mounted
      \/ Step(w) = "disable" /\ disk[<<"automount", t>>] = Nobody

Passes(w) ==
  LET d == work[w].def
      creating == work[w].op = "create"
  IN  /\ Step(w) \in ContextSteps => ~work[w].late
      /\ CASE Step(w) = "verify" ->
                /\ \A e \in work[w].active : (creating \/ e # d) => Owned(e)
                /\ creating => ~Conflict(w, d)
           [] Step(w) = "directory" -> (~creating /\ d \in made) => ~Conflict(w, d)
           [] Step(w) \in {"credentials", "mount", "automount"} ->
                IF creating THEN Writable(FileOf(Step(w), d), d)
                ELSE Removable(FileOf(Step(w), d), d)
           [] Step(w) = "load" -> Owned(d)
           [] Step(w) = "attention" -> Deletable(d)
           [] OTHER -> TRUE

------------------------------------------------------------------------------
(* What a step does.                                                       *)
Placed(step, d) ==
  LET f == FileOf(step, d)
  IN  IF disk[f] = Nobody THEN [disk EXCEPT ![f] = d] ELSE disk

Cleared(step, d) == [disk EXCEPT ![FileOf(step, d)] = Nobody]

DoFile(w) ==
  LET d == work[w].def
  IN  /\ Step(w) \in FileSteps
      /\ disk' = IF work[w].op = "create" THEN Placed(Step(w), d)
                 ELSE IF Step(w) = "directory" /\ d \notin made THEN disk
                 ELSE Cleared(Step(w), d)
      /\ UNCHANGED <<manifest, made, enabled>>

DoManifest(w) ==
  LET d == work[w].def
  IN  /\ Step(w) \in {"manifest", "attention"}
      /\ manifest' = [manifest EXCEPT ![d] = IF Step(w) = "attention" THEN "attention"
                                             ELSE IF work[w].op = "create" THEN "active"
                                             ELSE "none"]
      /\ made' = IF Step(w) = "attention" THEN made
                 ELSE IF work[w].op = "create" /\ work[w].new THEN made \cup {d}
                 ELSE made \ {d}
      /\ UNCHANGED <<disk, enabled>>

DoEnable(w) ==
  /\ Step(w) \in {"enable", "disable"}
  /\ enabled' = IF Step(w) = "enable" THEN enabled \cup {Target[work[w].def]}
                ELSE enabled \ {Target[work[w].def]}
  /\ UNCHANGED files

DoNothing(w) ==
  /\ Step(w) \in {"list", "verify", "load", "reload"}
  /\ UNCHANGED <<files, enabled>>

Do(w) ==
  /\ DoFile(w) \/ DoManifest(w) \/ DoEnable(w) \/ DoNothing(w)
  /\ UNCHANGED <<armed, mounted, job>>

(* The undo that create notes once a step has succeeded; it removes a      *)
(* target only when this create made it.                                   *)
Noted(w) ==
  IF work[w].op # "create" \/ Step(w) \in {"list", "verify"} THEN work[w].undo
  ELSE IF Step(w) = "directory" /\ disk[FileOf("directory", work[w].def)] # Nobody THEN work[w].undo
  ELSE Append(work[w].undo, Step(w))

Listing(w) ==
  IF Step(w) # "list" THEN [seen |-> work[w].seen, active |-> work[w].active, busy |-> work[w].busy]
  ELSE [seen |-> {d \in Definitions : manifest[d] # "none"},
        active |-> {d \in Definitions : manifest[d] = "active"},
        busy |-> armed \cup mounted]

StepSucceeds(w) ==
  /\ AtStep(w, {"create", "mount", "unmount", "delete"}) /\ Step(w) \notin JobSteps
  /\ Passes(w)
  /\ Do(w)
  /\ work' = [work EXCEPT ![w].at = @ + 1, ![w].undo = Noted(w),
                ![w].seen = Listing(w).seen, ![w].active = Listing(w).active,
                ![w].busy = Listing(w).busy,
                ![w].new = @ \/ (Step(w) = "directory" /\ Noted(w) # work[w].undo)]
  /\ UNCHANGED <<used, faults, history>>

StepFails(w) ==
  /\ AtStep(w, {"create", "mount", "unmount", "delete"})
  /\ IF Passes(w) /\ ~MayBeRefused(w) THEN Fault ELSE UNCHANGED faults
  /\ GiveUp(w)
  /\ UNCHANGED <<files, systemd, used, history>>

(* A step of create fails after it has taken effect, and so without its    *)
(* undo: the directory's sync after writeArtifact's rename, or the check   *)
(* of a target that was just made.                                         *)
StepHalfDone(w) ==
  /\ AtStep(w, {"create"}) /\ Step(w) \in FileSteps \cup {"manifest"}
  /\ Passes(w)
  /\ Do(w)
  /\ Fault
  /\ GiveUp(w)
  /\ unnoted' = unnoted \cup {work[w].def}
  /\ UNCHANGED <<used, cut, undone, deleted>>

Finish(w) ==
  /\ work[w].op \in {"create", "mount", "unmount", "delete"}
  /\ work[w].at > Len(Steps(work[w].op, work[w].def))
  /\ Return(w)
  /\ deleted' = IF work[w].op = "delete" THEN deleted \cup {work[w].def} ELSE deleted
  /\ UNCHANGED <<files, systemd, used, faults, unnoted, cut, undone>>

------------------------------------------------------------------------------
(* waitForStorageUnitJob: the job is queued in mode "replace", and the     *)
(* operation waits for its result or for the end of ctx.                   *)
QueueJob(w) ==
  /\ AtStep(w, {"create", "mount", "unmount", "delete"}) /\ Step(w) \in JobSteps
  /\ Passes(w)
  /\ job' = [job EXCEPT ![Target[work[w].def]] = Step(w)]
  /\ work' = [work EXCEPT ![w].waits = TRUE]
  /\ UNCHANGED <<files, enabled, armed, mounted, used, faults, history>>

Waiting(t) == {w \in Workers : work[w].waits /\ Target[work[w].def] = t}

(* systemd: a job ends as "done", with its effect, whoever still waits.    *)
JobDone(t) ==
  /\ job[t] # "none"
  /\ job' = [job EXCEPT ![t] = "none"]
  /\ armed' = CASE job[t] = "start" -> armed \cup {t}
                [] job[t] = "stopAutomount" -> armed \ {t}
                [] OTHER -> armed
  /\ mounted' = IF job[t] = "stopMount" THEN mounted \ {t} ELSE mounted
  /\ work' = [w \in Workers |-> IF w \in Waiting(t)
                THEN [work[w] EXCEPT !.at = @ + 1, !.waits = FALSE] ELSE work[w]]
  /\ UNCHANGED <<files, enabled, used, faults, history>>

JobFails(t) ==
  /\ job[t] # "none"
  /\ Fault
  /\ job' = [job EXCEPT ![t] = "none"]
  /\ IF Waiting(t) = {} THEN UNCHANGED work ELSE \E w \in Waiting(t) : GiveUp(w)
  /\ UNCHANGED <<files, enabled, armed, mounted, used, history>>

(* ctx expires after storageActionTimeout.  A wait ends and its job stays; *)
(* an enable under way may have been carried out.                          *)
Expire(w) ==
  LET k == work[w]
      enabling == AtStep(w, {"create"}) /\ Step(w) = "enable"
  IN  /\ k # Idle /\ ~k.late
      /\ Fault
      /\ enabled' \in {enabled} \cup IF enabling THEN {enabled \cup {Target[k.def]}} ELSE {}
      /\ work' = [work EXCEPT ![w] =
                    IF ~k.waits THEN [k EXCEPT !.late = TRUE]
                    ELSE IF k.op = "create"
                    THEN [k EXCEPT !.late = TRUE, !.op = "rollback", !.waits = FALSE]
                    ELSE Idle]
      /\ UNCHANGED <<files, armed, mounted, job, used, history>>

------------------------------------------------------------------------------
(* Rollback of a create, in the reverse order of its steps.                *)

NextUndo(w) == work[w].undo[Len(work[w].undo)]
RollingBack(w) == work[w].op = "rollback" /\ work[w].undo # <<>>
OtherUndos(w) == SubSeq(work[w].undo, 1, Len(work[w].undo) - 1)

(* removing the target checks it against the inventory listed at first.    *)
UndoPasses(w) == NextUndo(w) \in ContextSteps => ~work[w].late

Undo(w) ==
  LET d == work[w].def
      step == NextUndo(w)
  IN  /\ RollingBack(w) /\ UndoPasses(w)
      /\ disk' = IF step \in FileSteps THEN Cleared(step, d) ELSE disk
      /\ manifest' = IF step = "manifest" THEN [manifest EXCEPT ![d] = "none"] ELSE manifest
      /\ made' = IF step = "manifest" THEN made \ {d} ELSE made
      /\ enabled' = IF step = "enable" THEN enabled \ {Target[d]} ELSE enabled
      /\ work' = [work EXCEPT ![w].undo = OtherUndos(w)]
      /\ UNCHANGED <<armed, mounted, job, used, faults, history>>

(* Mutant: rollback stops at the first undo that fails, without a record.  *)
UndoForgotten(w) ==
  /\ RollingBack(w)
  /\ IF UndoPasses(w) THEN Fault ELSE UNCHANGED faults
  /\ work' = [work EXCEPT ![w].undo = <<>>]
  /\ undone' = undone \cup {work[w].def}
  /\ UNCHANGED <<files, systemd, used, unnoted, cut, deleted>>

UndoFails(w) ==
  /\ RollingBack(w)
  /\ IF UndoPasses(w) THEN Fault ELSE UNCHANGED faults
  /\ work' = [work EXCEPT ![w].undo = OtherUndos(w), ![w].bad = TRUE]
  /\ undone' = undone \cup {work[w].def}
  /\ UNCHANGED <<files, systemd, used, unnoted, cut, deleted>>

UnitsWritten(w) == \E i \in 1..(work[w].at - 1) : CreateSteps(work[w].def)[i] = "mount"

(* A last reload when the mount unit had been written, and the record that *)
(* the definition needs attention when any undo or that reload failed.     *)
RollbackEnds(w) ==
  LET d == work[w].def
  IN  /\ work[w].op = "rollback" /\ work[w].undo = <<>>
      /\ \E reloadFails \in BOOLEAN :
           /\ reloadFails => UnitsWritten(w)
           /\ UnitsWritten(w) /\ work[w].late => reloadFails
           /\ IF reloadFails /\ ~work[w].late THEN Fault ELSE UNCHANGED faults
           /\ IF work[w].bad \/ reloadFails
              THEN /\ manifest' = [manifest EXCEPT ![d] = "attention"]
                   /\ made' = IF work[w].new THEN made \cup {d} ELSE made
              ELSE UNCHANGED <<manifest, made>>
      /\ Return(w)
      /\ UNCHANGED <<disk, systemd, used, history>>

(* The error of that last record is dropped.                               *)
RecordFails(w) ==
  /\ work[w].op = "rollback" /\ work[w].undo = <<>> /\ work[w].bad
  /\ Fault
  /\ Return(w)
  /\ unnoted' = unnoted \cup {work[w].def}
  /\ UNCHANGED <<files, systemd, used, cut, undone, deleted>>

------------------------------------------------------------------------------
(* The surroundings.                                                       *)

(* The broker crashes: locks and operations are gone, files and jobs stay. *)
Crash ==
  /\ \E w \in Workers : work[w] # Idle
  /\ Fault
  /\ cut' = cut \cup {work[w].def : w \in {v \in Workers : Creating(v)}}
  /\ work' = [w \in Workers |-> Idle]
  /\ UNCHANGED <<files, systemd, used, unnoted, undone, deleted>>

(* An administrator puts a file of their own in place of a managed one, at *)
(* any time.                                                               *)
Edit(d, f) ==
  /\ f \in UnitFiles(d) \cup Credentials(d)
  /\ Fault
  /\ \E put \in {IF \E e \in Definitions : f \in OwnFiles(e) /\ Locked(e) THEN Meanwhile ELSE Foreign}
               \cup IF f \in Credentials(d) THEN {Alike} ELSE {} :
       disk' = [disk EXCEPT ![f] = put]
  /\ UNCHANGED <<manifest, made, systemd, work, used, history>>

(* Somebody looks into the target: an armed automount mounts the share.    *)
Access(t) ==
  /\ t \in armed \ mounted
  /\ mounted' = mounted \cup {t}
  /\ UNCHANGED <<files, enabled, armed, job, work, used, faults, history>>

WorkerStep(w) ==
  \/ StepSucceeds(w) \/ StepFails(w) \/ StepHalfDone(w) \/ Finish(w) \/ QueueJob(w)
  \/ Undo(w) \/ UndoFails(w) \/ RollbackEnds(w) \/ RecordFails(w)

Next ==
  \/ \E w \in Workers : WorkerStep(w) \/ Expire(w)
  \/ \E w \in Workers, d \in Definitions :
       \/ Create(w, d)
       \/ \E op \in {"mount", "unmount", "delete"} : Operate(w, op, d)
  \/ \E t \in Targets : JobDone(t) \/ JobFails(t) \/ Access(t)
  \/ Crash
  \/ \E d \in Definitions, f \in Files : Edit(d, f)

Spec == Init /\ [][Next]_mountVars

(* Operations and systemd make progress, and the administrator keeps       *)
(* asking for the removal of a definition that needs attention.            *)
Fairness ==
  /\ \A w \in Workers : WF_mountVars(WorkerStep(w))
  /\ \A t \in Targets : WF_mountVars(JobDone(t))
  /\ \A d \in Definitions :
       SF_mountVars(\E w \in Workers : manifest[d] = "attention" /\ Operate(w, "delete", d))

------------------------------------------------------------------------------
(* A definition that calls itself active has its unit files, credentials   *)
(* and target, whatever step the broker crashed at: create writes the      *)
(* manifest after them, and both delete and rollback withdraw it before    *)
(* (unless an undo failed, or failed unknown to rollback).                 *)
ActiveIsWhole ==
  \A d \in Definitions \ (unnoted \cup undone) :
    manifest[d] = "active" => \A f \in OwnFiles(d) : disk[f] # Nobody

(* No two definitions are recorded for the same target, though creates     *)
(* and deletes interleave and crash: a definition that needs attention     *)
(* still reserves its target (inventory).                                  *)
OneDefinitionPerTarget ==
  \A d, e \in Definitions :
    manifest[d] # "none" /\ manifest[e] # "none" /\ Target[d] = Target[e] => d = e

(* What a manifest says is there is there, and belongs to it alone.        *)
MountInv == TypeOK /\ OneDefinitionPerTarget /\ ActiveIsWhole

(* No directory an administrator made, and no file they put in place while *)
(* no operation was at work on it, is ever removed or replaced: create     *)
(* leaves what it finds, and delete and rollback remove only their own.    *)
(* The two limits of the code: a rollback removes unverified what its      *)
(* create had written (os.Remove), and so a file put over that meanwhile;  *)
(* and a credentials file that looks managed goes with its definition.     *)
ForeignSurvives ==
  [][\A f \in Files :
       LET Taken(op) == \E w \in Workers : work[w].op = op /\ f \in OwnFiles(work[w].def)
       IN  /\ disk[f] = Foreign => disk'[f] \in {Foreign, Meanwhile, Alike}
           /\ disk[f] \in {Meanwhile, Alike} => disk'[f] \notin Definitions
           /\ disk[f] = Meanwhile /\ disk'[f] = Nobody => Taken("rollback")
           /\ disk[f] = Alike /\ disk'[f] = Nobody => Taken("rollback") \/ Taken("delete")]_mountVars

(* When no operation is at work on a definition that has no manifest, none *)
(* of its files is left: a failed create has undone all its steps or kept  *)
(* a manifest (unless a crash cut it off or rollback could not know).      *)
NothingLeftBehind ==
  \A d \in Definitions \ (unnoted \cup cut) :
    manifest[d] = "none" /\ ~Locked(d) => \A f \in OwnFiles(d) : disk[f] # d

(* A delete that reported success left no file, and the target is neither  *)
(* enabled nor armed nor mounted until another definition takes it.        *)
DeletedIsGone ==
  \A d \in deleted :
    /\ \A f \in OwnFiles(d) : disk[f] # d
    /\ (\A e \in used \ {d} : Target[e] # Target[d]) => Target[d] \notin enabled \cup armed \cup mounted

(* A definition that needs attention is finally deleted if its deletion is *)
(* retried, unless a file that is not Pilothouse's or a definition whose   *)
(* files are not its own stands in the way, or an attempt ended with a     *)
(* unit file gone: every later one begins by stopping that unit, which     *)
(* systemd may no longer know.                                             *)
AttentionIsResolved ==
  \A d \in Definitions :
    manifest[d] = "attention"
      ~> \/ manifest[d] = "none"
         \/ \E f \in Files : disk[f] \in {Foreign, Meanwhile} /\ f[1] # "directory"
         \/ \E e \in Definitions : manifest[e] = "active" /\ ~Owned(e)
         \/ ~Locked(d) /\ \E f \in UnitFiles(d) : disk[f] = Nobody

(* cmd/pilothoused/main.go: "lifecycle operations never remove units or    *)
(* targets while the job is still running".                                *)
UnitsOutliveJobs ==
  [][\A d \in Definitions : \A f \in UnitFiles(d) :
       disk[f] # Nobody /\ disk'[f] = Nobody => job[Target[d]] = "none"]_mountVars
==============================================================================
