----------------------------- MODULE FileUpload -----------------------------
(***************************************************************************)
(* An upload from the browser to the published file: the web process's     *)
(* handler copies the file part into a pipe that is the body of a request  *)
(* to the broker (internal/modules/files/handler.go); the broker's stream  *)
(* registry (internal/broker/streams.go) locks the destination, records    *)
(* the intent and runs Upload (internal/modules/files/manager_linux.go),   *)
(* which fills an anonymous file and links it to its name.                 *)
(*                                                                         *)
(* All uploads have the same destination.  A body is a number of units.    *)
(* The destination's lock is the abstract lock that ResourceLocks          *)
(* implements; the audit record is reduced to its outcome.                 *)
(***************************************************************************)
EXTENDS Integers, FiniteSets

CONSTANTS Uploads,
          Destination, NoOwner,
          Bodies,   \* what browsers may send, upload by upload
          Limit,    \* MaxTransferBytes, the same in all three places
          MaxLosses \* bound on broker crashes and power losses

(* A form has a file part of some size, and ends with it or ("bad") goes   *)
(* on behind it or breaks off.                                             *)
Forms == [size : Nat, ending : {"proper", "bad"}]

ASSUME UploadAssumption ==
  /\ Limit \in Nat /\ MaxLosses \in Nat /\ NoOwner \notin Uploads
  /\ \A body \in Bodies : DOMAIN body = Uploads /\ \A u \in Uploads : body[u] \in Forms

VARIABLES web,    \* the web handler's place
          part,   \* the file part: what it is and how much is still to come
          wire,   \* units on their way from io.Copy to the broker
          mark,   \* how the request's body ends: "open", "eof", "broken"
          gone,   \* the request's context is cancelled
          broker, \* the broker handler's place
          temp,   \* units written to the anonymous file
          result, \* what the broker's handler will answer
          reply,  \* what StreamAction returned in the web process
          told,   \* what the browser was told
          audit,  \* outcome of the upload's record
          owner,  \* the destination's lock
          file,   \* the published file, or nothing
          linked, \* history: uploads that linkat has published
          losses

uploadVars == <<web, part, wire, mark, gone, broker, temp, result, reply, told,
                audit, owner, file, linked, losses>>

webVars == <<web, part, told>>
brokerVars == <<broker, temp, result, audit, owner, file, linked>>

Lock == INSTANCE ExclusiveLock WITH Callers <- Uploads, Resources <- {Destination}

NoFile == [from |-> NoOwner, size |-> 0, synced |-> FALSE, durable |-> FALSE]

TypeOK ==
  /\ web \in [Uploads -> {"idle", "copying", "waiting", "failing", "done"}]
  /\ part \in [Uploads -> [body : Forms, left : Nat]]
  /\ wire \in [Uploads -> 0..1]
  /\ mark \in [Uploads -> {"open", "eof", "broken"}]
  /\ gone \in [Uploads -> BOOLEAN]
  /\ broker \in [Uploads -> {"idle", "lock", "begin", "read", "copied", "link",
                             "syncdir", "complete", "unlock", "answer"}]
  /\ temp \in [Uploads -> 0..Limit]
  /\ result \in [Uploads -> {"none", "ok", "conflict", "error"}]
  /\ reply \in [Uploads -> {"none", "ok", "conflict", "error"}]
  /\ told \in [Uploads -> {"nothing", "uploaded", "exists", "failed", "invalid"}]
  /\ audit \in [Uploads -> {"none", "started", "succeeded", "failed", "unknown"}]
  /\ owner \in [{Destination} -> Uploads \cup {NoOwner}]
  /\ file \in [from : Uploads \cup {NoOwner}, size : 0..Limit, synced : BOOLEAN, durable : BOOLEAN]
  /\ linked \subseteq Uploads

Init ==
  /\ web = [u \in Uploads |-> "idle"]
  /\ \E body \in Bodies :
       part = [u \in Uploads |-> [body |-> body[u], left |-> body[u].size]]
  /\ wire = [u \in Uploads |-> 0]
  /\ mark = [u \in Uploads |-> "open"]
  /\ gone = [u \in Uploads |-> FALSE]
  /\ broker = [u \in Uploads |-> "idle"]
  /\ temp = [u \in Uploads |-> 0]
  /\ result = [u \in Uploads |-> "none"]
  /\ reply = [u \in Uploads |-> "none"]
  /\ told = [u \in Uploads |-> "nothing"]
  /\ audit = [u \in Uploads |-> "none"]
  /\ Lock!Init
  /\ file = NoFile
  /\ linked = {}
  /\ losses = 0

------------------------------------------------------------------------------
(* handleUpload: headers, token and file name are in order, the goroutine  *)
(* that calls StreamAction is started and the broker has the request.      *)
handleUpload(u) ==
  /\ web[u] = "idle"
  /\ web' = [web EXCEPT ![u] = "copying"]
  /\ broker' = [broker EXCEPT ![u] = "lock"]
  /\ UNCHANGED <<part, wire, mark, gone, temp, result, reply, told, audit, owner, file, linked, losses>>

Copied(u) == part[u].body.size - part[u].left

(* io.Copy moves a unit from the part, limited to Limit + 1, to the pipe.  *)
CopyUnit(u) ==
  /\ web[u] = "copying" /\ reply[u] = "none"
  /\ part[u].left > 0 /\ Copied(u) <= Limit
  /\ wire[u] = 0
  /\ wire' = [wire EXCEPT ![u] = 1]
  /\ part' = [part EXCEPT ![u].left = @ - 1]
  /\ UNCHANGED <<web, mark, gone, brokerVars, reply, told, losses>>

(* io.Copy is through.  The pipe is closed with EOF only if the part had   *)
(* at most Limit units and the form ends behind it; otherwise the request  *)
(* is broken off.                                                          *)
CopyEnds(u) ==
  /\ web[u] = "copying"
  /\ part[u].left = 0 \/ Copied(u) = Limit + 1
  /\ LET good == Copied(u) <= Limit /\ part[u].body.ending = "proper"
     IN  /\ web' = [web EXCEPT ![u] = IF good THEN "waiting" ELSE "failing"]
         /\ mark' = [mark EXCEPT ![u] = IF good THEN "eof" ELSE "broken"]
  /\ UNCHANGED <<part, wire, gone, brokerVars, reply, told, losses>>

(* StreamAction has returned and closed the pipe's other end.              *)
CopyFails(u) ==
  /\ web[u] = "copying" /\ reply[u] # "none"
  /\ web' = [web EXCEPT ![u] = "failing"]
  /\ mark' = [mark EXCEPT ![u] = "broken"]
  /\ UNCHANGED <<part, wire, gone, brokerVars, reply, told, losses>>

(* The browser leaves, or the fifteen minutes are over.                    *)
Cancel(u) ==
  /\ web[u] \in {"copying", "waiting", "failing"} /\ ~gone[u]
  /\ gone' = [gone EXCEPT ![u] = TRUE]
  /\ UNCHANGED <<webVars, wire, mark, brokerVars, reply, losses>>

(* Mutant: StreamAction returns and leaves the request's body open.        *)
GiveUpLeavesBody(u) ==
  /\ gone[u] /\ reply[u] = "none"
  /\ web[u] \in {"copying", "waiting", "failing"}
  /\ reply' = [reply EXCEPT ![u] = "error"]
  /\ UNCHANGED <<webVars, wire, mark, gone, brokerVars, losses>>

(* StreamAction returns early because its context is cancelled.            *)
GiveUp(u) ==
  /\ gone[u] /\ reply[u] = "none"
  /\ web[u] \in {"copying", "waiting", "failing"}
  /\ reply' = [reply EXCEPT ![u] = "error"]
  /\ mark' = [mark EXCEPT ![u] = IF @ = "open" THEN "broken" ELSE @]
  /\ UNCHANGED <<webVars, wire, gone, brokerVars, losses>>

Verdict(u) ==
  CASE reply[u] = "conflict" -> "exists"
    [] reply[u] = "error" -> "failed"
    [] reply[u] = "ok" -> IF web[u] = "waiting" THEN "uploaded" ELSE "invalid"

(* The handler waits for the goroutine and answers the browser.            *)
Answer(u) ==
  /\ web[u] \in {"waiting", "failing"} /\ reply[u] # "none"
  /\ told' = [told EXCEPT ![u] = Verdict(u)]
  /\ web' = [web EXCEPT ![u] = "done"]
  /\ UNCHANGED <<part, wire, mark, gone, brokerVars, reply, losses>>

------------------------------------------------------------------------------
Goto(u, next) == broker' = [broker EXCEPT ![u] = next]

(* StreamActionRegistry.Execute: wait for the destination's lock.          *)
LockTaken(u) ==
  /\ broker[u] = "lock"
  /\ Lock!Take(u, Destination)
  /\ Goto(u, "begin")
  /\ UNCHANGED <<webVars, wire, mark, gone, temp, result, reply, audit, file, linked, losses>>

LockAbandoned(u) ==
  /\ broker[u] = "lock" /\ gone[u]
  /\ result' = [result EXCEPT ![u] = "error"]
  /\ Goto(u, "answer")
  /\ UNCHANGED <<webVars, wire, mark, gone, temp, reply, audit, owner, file, linked, losses>>

Begin(u) ==
  /\ broker[u] = "begin"
  /\ audit' = [audit EXCEPT ![u] = "started"]
  /\ Goto(u, "read")
  /\ UNCHANGED <<webVars, wire, mark, gone, temp, result, reply, owner, file, linked, losses>>

BeginFails(u) ==
  /\ broker[u] = "begin"
  /\ result' = [result EXCEPT ![u] = "error"]
  /\ Goto(u, "unlock")
  /\ UNCHANGED <<webVars, wire, mark, gone, temp, reply, audit, owner, file, linked, losses>>

(* A unit passes streamLimitReader and copyUpload.                         *)
ReadUnit(u) ==
  /\ broker[u] = "read" /\ wire[u] = 1 /\ temp[u] < Limit
  /\ wire' = [wire EXCEPT ![u] = 0]
  /\ temp' = [temp EXCEPT ![u] = @ + 1]
  /\ UNCHANGED <<webVars, mark, gone, broker, result, reply, audit, owner, file, linked, losses>>

Fail(u, what) ==
  /\ result' = [result EXCEPT ![u] = what]
  /\ Goto(u, "complete")
  /\ UNCHANGED <<webVars, mark, gone, temp, reply, audit, owner, file, linked, losses>>

(* The limit is used up and there is more.                                 *)
ReadTooLarge(u) ==
  /\ broker[u] = "read" /\ wire[u] = 1 /\ temp[u] = Limit
  /\ wire' = [wire EXCEPT ![u] = 0]
  /\ Fail(u, "error")

(* Mutant: any end of the body is taken for EOF.                           *)
ReadAnyEnd(u) ==
  /\ broker[u] = "read" /\ wire[u] = 0 /\ mark[u] # "open"
  /\ Goto(u, "copied")
  /\ UNCHANGED <<webVars, wire, mark, gone, temp, result, reply, audit, owner, file, linked, losses>>

ReadEOF(u) ==
  /\ broker[u] = "read" /\ wire[u] = 0 /\ mark[u] = "eof"
  /\ Goto(u, "copied")
  /\ UNCHANGED <<webVars, wire, mark, gone, temp, result, reply, audit, owner, file, linked, losses>>

(* The body broke off: copyUpload's Read fails.                            *)
ReadBroken(u) ==
  /\ broker[u] = "read" /\ mark[u] = "broken"
  /\ Fail(u, "error")
  /\ UNCHANGED wire

(* The broker notices that the context has ended, a path is refused, *)
(* or a write, chown, chmod, sync or linkat fails: the anonymous file is   *)
(* closed and gone.                                                        *)
UploadFails(u) ==
  /\ broker[u] \in {"read", "copied", "link"}
  /\ Fail(u, "error")
  /\ UNCHANGED wire

(* Ownership, mode and contents are on disk.                               *)
Prepared(u) ==
  /\ broker[u] = "copied"
  /\ Goto(u, "link")
  /\ UNCHANGED <<webVars, wire, mark, gone, temp, result, reply, audit, owner, file, linked, losses>>

(* Mutant: a file of that name is replaced.                                *)
LinkReplaces(u) ==
  /\ broker[u] = "link"
  /\ file' = [from |-> u, size |-> temp[u], synced |-> TRUE, durable |-> FALSE]
  /\ linked' = linked \cup {u}
  /\ Goto(u, "syncdir")
  /\ UNCHANGED <<webVars, wire, mark, gone, temp, result, reply, audit, owner, losses>>

(* linkat publishes the file unless the name is taken.                     *)
Link(u) ==
  /\ broker[u] = "link" /\ file = NoFile
  /\ file' = [from |-> u, size |-> temp[u], synced |-> TRUE, durable |-> FALSE]
  /\ linked' = linked \cup {u}
  /\ Goto(u, "syncdir")
  /\ UNCHANGED <<webVars, wire, mark, gone, temp, result, reply, audit, owner, losses>>

LinkConflicts(u) ==
  /\ broker[u] = "link" /\ file # NoFile
  /\ Fail(u, "conflict")
  /\ UNCHANGED wire

SyncDirectory(u) ==
  /\ broker[u] = "syncdir"
  /\ file' = [file EXCEPT !.durable = TRUE]
  /\ result' = [result EXCEPT ![u] = "ok"]
  /\ Goto(u, "complete")
  /\ UNCHANGED <<webVars, wire, mark, gone, temp, reply, audit, owner, linked, losses>>

(* The directory cannot be synced: an error for a file that is there.      *)
SyncDirectoryFails(u) ==
  /\ broker[u] = "syncdir"
  /\ Fail(u, "error")
  /\ UNCHANGED wire

(* Mutant: Execute returns the handler's error and drops Complete's.       *)
CompleteErrorDropped(u) ==
  /\ broker[u] = "complete"
  /\ Goto(u, "unlock")
  /\ UNCHANGED <<webVars, wire, mark, gone, temp, result, reply, audit, owner, file, linked, losses>>

Complete(u) ==
  /\ broker[u] = "complete"
  /\ audit' = [audit EXCEPT ![u] = IF result[u] = "ok" THEN "succeeded" ELSE "failed"]
  /\ Goto(u, "unlock")
  /\ UNCHANGED <<webVars, wire, mark, gone, temp, result, reply, owner, file, linked, losses>>

(* "stream action result is uncertain"                                     *)
CompleteFails(u) ==
  /\ broker[u] = "complete"
  /\ result' = [result EXCEPT ![u] = "error"]
  /\ Goto(u, "unlock")
  /\ UNCHANGED <<webVars, wire, mark, gone, temp, reply, audit, owner, file, linked, losses>>

Unlock(u) ==
  /\ broker[u] = "unlock"
  /\ Lock!Give(u, Destination)
  /\ Goto(u, "answer")
  /\ UNCHANGED <<webVars, wire, mark, gone, temp, result, reply, audit, file, linked, losses>>

(* The response reaches StreamAction if that is still waiting for it.      *)
Respond(u) ==
  /\ broker[u] = "answer"
  /\ reply' = [reply EXCEPT ![u] = IF @ = "none" THEN result[u] ELSE @]
  /\ Goto(u, "idle")
  /\ temp' = [temp EXCEPT ![u] = 0]
  /\ UNCHANGED <<webVars, wire, mark, gone, result, audit, owner, file, linked, losses>>

------------------------------------------------------------------------------
Interrupted == [u \in Uploads |-> IF audit[u] = "started" THEN "unknown" ELSE audit[u]]

(* The broker dies and starts again: connections break, anonymous files    *)
(* are gone, and the audit store marks what was interrupted.               *)
BrokerCrash ==
  /\ losses < MaxLosses
  /\ losses' = losses + 1
  /\ reply' = [u \in Uploads |-> IF broker[u] # "idle" /\ reply[u] = "none" THEN "error" ELSE reply[u]]
  /\ broker' = [u \in Uploads |-> "idle"]
  /\ audit' = Interrupted
  /\ owner' = [d \in {Destination} |-> NoOwner]
  /\ temp' = [u \in Uploads |-> 0]
  /\ UNCHANGED <<webVars, wire, mark, gone, result, file, linked>>

AfterPowerLoss ==
  {f \in {file, NoFile} : file.durable => f = file}
    \cup {[file EXCEPT !.size = n] : n \in IF file.synced THEN {} ELSE 0..file.size}

(* The host loses power: the name survives if the directory was synced,    *)
(* and perhaps if not; contents that were not synced may be cut short.     *)
PowerLoss ==
  /\ losses < MaxLosses
  /\ losses' = losses + 1
  /\ file' \in AfterPowerLoss
  /\ web' = [u \in Uploads |-> IF web[u] = "idle" THEN "idle" ELSE "done"]
  /\ broker' = [u \in Uploads |-> "idle"]
  /\ audit' = Interrupted
  /\ owner' = [d \in {Destination} |-> NoOwner]
  /\ temp' = [u \in Uploads |-> 0]
  /\ UNCHANGED <<part, told, wire, mark, gone, result, reply, linked>>

(* Nothing is in flight and every upload has been made.                    *)
Finished ==
  /\ \A u \in Uploads : web[u] = "done" /\ broker[u] = "idle"
  /\ UNCHANGED uploadVars

WebStep(u) == CopyUnit(u) \/ CopyEnds(u) \/ CopyFails(u) \/ GiveUp(u) \/ Answer(u)

BrokerStep(u) ==
  \/ LockTaken(u)
  \/ Begin(u) \/ BeginFails(u)
  \/ ReadUnit(u) \/ ReadTooLarge(u) \/ ReadEOF(u) \/ ReadBroken(u)
  \/ Prepared(u)
  \/ Link(u) \/ LinkConflicts(u)
  \/ SyncDirectory(u) \/ SyncDirectoryFails(u)
  \/ Complete(u) \/ CompleteFails(u)
  \/ Unlock(u) \/ Respond(u)

Next ==
  \/ \E u \in Uploads :
       \/ handleUpload(u)
       \/ Cancel(u)
       \/ WebStep(u)
       \/ BrokerStep(u)
       \/ LockAbandoned(u) \/ UploadFails(u)
  \/ BrokerCrash
  \/ PowerLoss
  \/ Finished

Spec == Init /\ [][Next]_uploadVars

(* The broker's handler runs on; the web process's context ends after      *)
(* fifteen minutes at the latest and ends StreamAction.  Nothing is        *)
(* assumed of the browser: io.Copy may wait for it for ever.  Nor need the *)
(* broker notice that the caller of a waiting upload has gone.             *)
Fairness ==
  \A u \in Uploads : /\ WF_uploadVars(BrokerStep(u))
                     /\ WF_uploadVars(Cancel(u))
                     /\ WF_uploadVars(GiveUp(u))

FairSpec == Spec /\ Fairness

------------------------------------------------------------------------------
(* What stands under the destination's name is the whole body of an upload *)
(* whose form ended properly within the limit: never a part of one, nor    *)
(* what preceded a broken connection, also after a crash or power loss.    *)
NeverPartial ==
  file # NoFile =>
    /\ file.from \in Uploads
    /\ part[file.from].body.ending = "proper"
    /\ part[file.from].body.size = file.size
    /\ file.size <= Limit

(* A browser that reads "Uploaded" has its file under the name, durably,   *)
(* and the trail says the upload succeeded; one that reads "already        *)
(* exists" or "invalid upload" has published nothing.  "failed" leaves     *)
(* that open.                                                              *)
AnswersAreReal ==
  \A u \in Uploads :
    /\ told[u] = "uploaded" => file.from = u /\ file.durable /\ audit[u] = "succeeded"
    /\ told[u] \in {"exists", "invalid"} => u \notin linked

(* The trail knows of every file that was ever published, and what it      *)
(* calls a success is durably in place.                                    *)
TrailCoversFiles ==
  \A u \in Uploads :
    /\ u \in linked => audit[u] # "none"
    /\ audit[u] = "succeeded" => file.from = u /\ file.durable

(* Browser, trail and disk agree on what became of an upload.              *)
UploadInv == TypeOK /\ TrailCoversFiles /\ AnswersAreReal

(* No upload changes or removes what is published; only a power loss can   *)
(* take away a name, and only one whose directory was not yet synced.      *)
NoOverwrite ==
  [][file # NoFile =>
       \/ file'.from = file.from /\ file'.size = file.size
       \/ file' = NoFile /\ losses' # losses /\ ~file.durable]_uploadVars

(* A browser that stops sending, or a web process that has given up, does  *)
(* not keep the destination locked: every upload the broker has begun      *)
(* comes to an end.                                                        *)
BrokerLetsGo ==
  \A u \in Uploads : broker[u] = "lock" ~> broker[u] = "idle"
==============================================================================
