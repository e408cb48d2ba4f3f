------------------------------- MODULE MCHost --------------------------------
(***************************************************************************)
(* What the modules of the broker do to the host and say about it, on      *)
(* small instances: extensions (their actions, and the cached reader of    *)
(* their state), objects of the engines, the host image, automatic         *)
(* updates, log tails and backups.  They share no variable, so a behaviour *)
(* moves one of them (`which`) and leaves the others as they begin: their  *)
(* states add up instead of multiplying.                                   *)
(***************************************************************************)
EXTENDS HostObjects, Extensions, Naturals, Sequences

CONSTANTS Deployments, Container, SoftRebootable, Decorations, NoDeployment,
          Values, MaxFileLines,
          MaxLines, MaxBytes, Stream, Lengths, MaxRead,
          MaxAge, MaxDays

VARIABLES which,
          imagers, tools, slots, moved, imaging, bootc, report,
          updaters, client, file, dropIns, clean, updating, pair, status,
          format, tailing, raw, discard, tail, frame, passed, framed, cut, length,
          today, timer, service, runs, checking, health

I == INSTANCE HostImage WITH have <- imagers, pc <- imaging
U == INSTANCE AutoUpdate WITH have <- updaters, pc <- updating, MaxLines <- MaxFileLines
T == INSTANCE LogTails WITH pc <- tailing, open <- length
B == INSTANCE BackupTimers WITH clock <- today, reader <- checking, MaxTime <- MaxDays

imageVars == <<imagers, tools, slots, moved, imaging, bootc, report>>
updateVars == <<updaters, client, file, dropIns, clean, updating, pair, status>>
tailVars == <<format, tailing, raw, discard, tail, frame, passed, framed, cut, length>>
backupVars == <<today, timer, service, runs, checking, health>>

ASSUME MCHostAssumption ==
  /\ I!HostImageAssumption /\ U!AutoUpdateAssumption /\ T!LogTailsAssumption /\ B!BackupAssumption

TwoDirectories == <<{"a"}, {"a"}>>

Prefixes == {<<>>, <<"ostree">>, <<"ostree", "docker">>, <<"ostree", "remote", "docker">>,
             <<"ostree", "remote">>}

MCInit ==
  /\ which \in {"actions", "reader", "objects", "image", "update", "tail", "backup"}
  /\ ExtensionsInit /\ (which \in {"actions", "reader"} \/ have \cup enabled \cup merged = {})
  /\ Init /\ (which = "objects" \/ (engine = "podman" /\ ~object.protected))
  /\ IF which = "image" THEN I!Init
     ELSE /\ imagers = {} /\ tools = {} /\ slots = {} /\ moved = FALSE /\ imaging = "idle"
          /\ bootc = {} /\ report = {}
  /\ IF which = "update" THEN U!Init
     ELSE /\ updaters = {} /\ client = FALSE /\ file = {} /\ dropIns = {} /\ clean = {}
          /\ updating = "idle" /\ pair = {} /\ status = {}
  /\ T!Init /\ (which = "tail" \/ format = "incus")
  /\ B!Init

MCNext ==
  /\ UNCHANGED which
  /\ \/ /\ \/ which = "actions" /\ ActionNext
           \/ /\ which = "reader" /\ UNCHANGED installed
              /\ ReaderNext \/ \E n \in ExtensionNames : OthersChange(n)
        /\ UNCHANGED <<hostObjectsVars, imageVars, updateVars, tailVars, backupVars>>
     \/ /\ which = "objects" /\ Next
        /\ UNCHANGED <<extensionsVars, imageVars, updateVars, tailVars, backupVars>>
     \/ /\ which = "image" /\ I!Next
        /\ UNCHANGED <<extensionsVars, hostObjectsVars, updateVars, tailVars, backupVars>>
     \/ /\ which = "update" /\ U!Next
        /\ UNCHANGED <<extensionsVars, hostObjectsVars, imageVars, tailVars, backupVars>>
     \/ /\ which = "tail" /\ T!Next
        /\ UNCHANGED <<extensionsVars, hostObjectsVars, imageVars, updateVars, backupVars>>
     \/ /\ which = "backup" /\ B!Next
        /\ UNCHANGED <<extensionsVars, hostObjectsVars, imageVars, updateVars, tailVars>>

vars == <<which, extensionsVars, hostObjectsVars, imageVars, updateVars, tailVars, backupVars>>

MCSpec == MCInit /\ [][MCNext]_vars

------------------------------------------------------------------------------
(* TailIsExact of LogTails.                                                *)
TailIsExact == which = "tail" => T!TailIsExact

(* DetailBelongs of HostImage, PolicyIsEvidenced of AutoUpdate and         *)
(* FailureIsReported of BackupTimers: a report that reads several sources, *)
(* one after the other, claims nothing that no source said.                *)
ReportsAreTrue ==
  /\ which = "image" => I!DetailBelongs
  /\ which = "update" => U!PolicyIsEvidenced
  /\ which = "backup" => B!FailureIsReported

(* NoForeignDetail of HostImage.                                           *)
NoForeignDetail == which = "image" => I!NoForeignDetail
==============================================================================
