------------------------------ MODULE WebProofs ------------------------------
(***************************************************************************)
(* The web process and what it has from the broker.                        *)
(*                                                                         *)
(* FileUpload: what an upload may leave under its name, whom it may tell   *)
(* what, and what the trail knows of it, for any number of uploads, any    *)
(* limit, any bodies and any number of crashes.                            *)
(*                                                                         *)
(* Gating: the broker's start, for any number of starts and any hosts.     *)
(* CapabilityCache: the set that is shown, for any number of browsers and  *)
(* restarts.  WebStart: the certificate that is served, for any addresses  *)
(* and lifetimes and any number of mishaps.                                *)
(***************************************************************************)
EXTENDS FileUpload, Gating, CapabilityCache, WebStart, TLAPS

(* The places of the broker's handler before linkat.                       *)
Unpublished == {"lock", "begin", "read", "copied", "link"}

(* Units are not lost between io.Copy and the anonymous file, and EOF means*)
(* that a proper form has been read to its end.                            *)
Flow(u) ==
  /\ part[u].left <= part[u].body.size
  /\ broker[u] \in Unpublished => Copied(u) = wire[u] + temp[u]
  /\ web[u] = "idle" => /\ Copied(u) = 0 /\ wire[u] = 0 /\ temp[u] = 0
                        /\ broker[u] = "idle" /\ mark[u] = "open"
  /\ mark[u] = "eof" => /\ web[u] \in {"waiting", "done"}
                        /\ part[u].left = 0 /\ part[u].body.ending = "proper"
                        /\ part[u].body.size <= Limit
  /\ web[u] = "failing" => mark[u] = "broken"
  /\ broker[u] \in {"copied", "link"} => mark[u] = "eof" /\ wire[u] = 0

(* The published file is whole and its contents are on disk.               *)
FileIsWhole ==
  file # NoFile => /\ file.from \in Uploads /\ file.synced
                   /\ part[file.from].body.ending = "proper"
                   /\ part[file.from].body.size = file.size

Published(u) == file.from = u /\ file.durable

(* What the handler, the trail and the browser hold about an upload.       *)
Trail(u) ==
  /\ web[u] = "idle" => reply[u] = "none" /\ audit[u] = "none" /\ u \notin linked
  /\ broker[u] \in Unpublished => u \notin linked
  /\ broker[u] \in {"lock", "begin"} => audit[u] = "none"
  /\ broker[u] \in {"read", "copied", "link", "syncdir", "complete"} => audit[u] = "started"
  /\ broker[u] = "syncdir" => file.from = u /\ mark[u] = "eof"
  /\ broker[u] \in {"complete", "unlock", "answer"} =>
       /\ result[u] = "ok" => Published(u) /\ mark[u] = "eof"
       /\ result[u] = "conflict" => u \notin linked
  /\ broker[u] \in {"unlock", "answer"} /\ result[u] = "ok" => audit[u] = "succeeded"
  /\ reply[u] = "ok" => broker[u] = "idle" /\ mark[u] = "eof" /\ audit[u] = "succeeded"
  /\ reply[u] = "conflict" => broker[u] = "idle" /\ u \notin linked
  /\ audit[u] = "succeeded" => Published(u)
  /\ u \in linked => audit[u] # "none"
  /\ told[u] = "uploaded" => reply[u] = "ok"
  /\ told[u] = "exists" => reply[u] = "conflict"
  /\ told[u] # "invalid"

IInv == TypeOK /\ FileIsWhole /\ \A u \in Uploads : Flow(u) /\ Trail(u)

(* What the assumption on the constants gives.                             *)
LEMMA Limits == Limit \in Nat /\ NoOwner \notin Uploads
  BY UploadAssumption

(* Nothing is uploaded yet.                                                *)
LEMMA InitInv == Init => IInv
  BY UploadAssumption
  DEF Init, IInv, TypeOK, Forms, FileIsWhole, NoFile, Flow, Trail, Copied, Published,
      Unpublished, Lock!Init

(* Contents are synced before they get a name, so a power loss takes the   *)
(* whole file or nothing, and nothing if the directory was synced.         *)
LEMMA LossIsWhole ==
  ASSUME TypeOK, FileIsWhole, PowerLoss
  PROVE  file' = file \/ (file' = NoFile /\ ~file.durable)
<1>1. CASE file.synced
  <2>1. file' \in {f \in {file, NoFile} : file.durable => f = file}
    BY <1>1 DEF PowerLoss, AfterPowerLoss
  <2> QED
    BY <2>1 DEF TypeOK
<1>2. CASE ~file.synced
  <2>1. file = NoFile
    BY <1>2 DEF FileIsWhole
  <2>2. [file EXCEPT !.size = 0] = file
    <3>1. file.size = 0
      BY <2>1 DEF NoFile
    <3>2. file \in [from : Uploads \cup {NoOwner}, size : 0..Limit,
                    synced : BOOLEAN, durable : BOOLEAN]
      BY DEF TypeOK
    <3> QED
      BY <3>1, <3>2
  <2>3. PICK f \in {file} \cup {[file EXCEPT !.size = n] : n \in 0..0} : file' = f
    BY <2>1 DEF PowerLoss, AfterPowerLoss, NoFile
  <2>4. \A n \in 0..0 : n = 0
    OBVIOUS
  <2> QED
    BY <2>2, <2>3, <2>4
<1> QED
  BY <1>1, <1>2

(* Every step keeps the types.                                             *)
LEMMA TypeStep ==
  ASSUME IInv, [Next]_uploadVars
  PROVE  TypeOK'
<1> USE Limits DEF IInv, TypeOK, FileIsWhole, NoFile, webVars, brokerVars
<1>1. ASSUME NEW u \in Uploads, handleUpload(u) PROVE TypeOK'
  BY <1>1 DEF handleUpload
<1>2. ASSUME NEW u \in Uploads, Cancel(u) PROVE TypeOK'
  BY <1>2 DEF Cancel
<1>3. ASSUME NEW u \in Uploads, CopyUnit(u) PROVE TypeOK'
  <2>1. part' = [part EXCEPT ![u].left = @ - 1] /\ part[u].left - 1 \in Nat
    BY <1>3 DEF CopyUnit
  <2>2. part' \in [Uploads -> [body : Forms, left : Nat]]
    BY <2>1
  <2> QED
    BY <1>3, <2>2 DEF CopyUnit
<1>4. ASSUME NEW u \in Uploads, CopyEnds(u) PROVE TypeOK'
  BY <1>4 DEF CopyEnds, Copied
<1>5. ASSUME NEW u \in Uploads, CopyFails(u) PROVE TypeOK'
  BY <1>5 DEF CopyFails
<1>6. ASSUME NEW u \in Uploads, GiveUp(u) PROVE TypeOK'
  BY <1>6 DEF GiveUp
<1>7. ASSUME NEW u \in Uploads, Answer(u) PROVE TypeOK'
  BY <1>7 DEF Answer, Verdict
<1>8. ASSUME NEW u \in Uploads, LockTaken(u) PROVE TypeOK'
  BY <1>8 DEF LockTaken, Goto, Lock!Take
<1>9. ASSUME NEW u \in Uploads, LockAbandoned(u) PROVE TypeOK'
  BY <1>9 DEF LockAbandoned, Goto
<1>10. ASSUME NEW u \in Uploads, Begin(u) PROVE TypeOK'
  BY <1>10 DEF Begin, Goto
<1>11. ASSUME NEW u \in Uploads, BeginFails(u) PROVE TypeOK'
  BY <1>11 DEF BeginFails, Goto
<1>12. ASSUME NEW u \in Uploads, ReadUnit(u) PROVE TypeOK'
  BY <1>12 DEF ReadUnit, Goto
<1>13. ASSUME NEW u \in Uploads, ReadTooLarge(u) PROVE TypeOK'
  BY <1>13 DEF ReadTooLarge, Fail, Goto
<1>14. ASSUME NEW u \in Uploads, ReadEOF(u) PROVE TypeOK'
  BY <1>14 DEF ReadEOF, Goto
<1>15. ASSUME NEW u \in Uploads, ReadBroken(u) PROVE TypeOK'
  BY <1>15 DEF ReadBroken, Fail, Goto
<1>16. ASSUME NEW u \in Uploads, UploadFails(u) PROVE TypeOK'
  BY <1>16 DEF UploadFails, Fail, Goto
<1>17. ASSUME NEW u \in Uploads, Prepared(u) PROVE TypeOK'
  BY <1>17 DEF Prepared, Goto
<1>18. ASSUME NEW u \in Uploads, Link(u) PROVE TypeOK'
  BY <1>18 DEF Link, Goto
<1>19. ASSUME NEW u \in Uploads, LinkConflicts(u) PROVE TypeOK'
  BY <1>19 DEF LinkConflicts, Fail, Goto
<1>20. ASSUME NEW u \in Uploads, SyncDirectory(u) PROVE TypeOK'
  BY <1>20, Zenon DEF SyncDirectory, Goto
<1>21. ASSUME NEW u \in Uploads, SyncDirectoryFails(u) PROVE TypeOK'
  BY <1>21 DEF SyncDirectoryFails, Fail, Goto
<1>22. ASSUME NEW u \in Uploads, Complete(u) PROVE TypeOK'
  BY <1>22 DEF Complete, Goto
<1>23. ASSUME NEW u \in Uploads, CompleteFails(u) PROVE TypeOK'
  BY <1>23 DEF CompleteFails, Goto
<1>24. ASSUME NEW u \in Uploads, Unlock(u) PROVE TypeOK'
  BY <1>24 DEF Unlock, Goto, Lock!Give
<1>25. ASSUME NEW u \in Uploads, Respond(u) PROVE TypeOK'
  BY <1>25 DEF Respond, Goto
<1>26. CASE BrokerCrash
  BY <1>26 DEF BrokerCrash, Interrupted
<1>27. CASE PowerLoss
  <2>1. file' = file \/ file' = NoFile
    BY <1>27, LossIsWhole
  <2>2. NoFile \in [from : Uploads \cup {NoOwner}, size : 0..Limit,
                    synced : BOOLEAN, durable : BOOLEAN]
    OBVIOUS
  <2>3. file' \in [from : Uploads \cup {NoOwner}, size : 0..Limit,
                   synced : BOOLEAN, durable : BOOLEAN]
    BY <2>1, <2>2, Zenon
  <2> QED
    BY <1>27, <2>3 DEF PowerLoss, Interrupted
<1>28. CASE UNCHANGED uploadVars
  BY <1>28 DEF uploadVars
<1> QED
  BY <1>1, <1>2, <1>3, <1>4, <1>5, <1>6, <1>7, <1>8, <1>9, <1>10, <1>11, <1>12, <1>13,
     <1>14, <1>15, <1>16, <1>17, <1>18, <1>19, <1>20, <1>21, <1>22, <1>23, <1>24,
     <1>25, <1>26, <1>27, <1>28, ZenonT(30)
  DEF Next, WebStep, BrokerStep, Finished

(* Every step keeps the account of the units under way.                    *)
LEMMA FlowStep ==
  ASSUME IInv, [Next]_uploadVars
  PROVE  (\A v \in Uploads : Flow(v))'
<1> USE Limits DEF IInv, TypeOK, Flow, Copied, Unpublished, Forms,
                   webVars, brokerVars
<1>1. ASSUME NEW u \in Uploads, handleUpload(u) PROVE (\A v \in Uploads : Flow(v))'
  BY <1>1 DEF handleUpload
<1>2. ASSUME NEW u \in Uploads, Cancel(u) PROVE (\A v \in Uploads : Flow(v))'
  BY <1>2 DEF Cancel
<1>3. ASSUME NEW u \in Uploads, CopyUnit(u) PROVE (\A v \in Uploads : Flow(v))'
  BY <1>3, SMTT(30), Zenon, SMTT(60) DEF CopyUnit, Forms
<1>4. ASSUME NEW u \in Uploads, CopyEnds(u) PROVE (\A v \in Uploads : Flow(v))'
  BY <1>4 DEF CopyEnds, Copied
<1>5. ASSUME NEW u \in Uploads, CopyFails(u) PROVE (\A v \in Uploads : Flow(v))'
  BY <1>5 DEF CopyFails
<1>6. ASSUME NEW u \in Uploads, GiveUp(u) PROVE (\A v \in Uploads : Flow(v))'
  BY <1>6 DEF GiveUp
<1>7. ASSUME NEW u \in Uploads, Answer(u) PROVE (\A v \in Uploads : Flow(v))'
  BY <1>7 DEF Answer, Verdict
<1>8. ASSUME NEW u \in Uploads, LockTaken(u) PROVE (\A v \in Uploads : Flow(v))'
  BY <1>8 DEF LockTaken, Goto, Lock!Take
<1>9. ASSUME NEW u \in Uploads, LockAbandoned(u) PROVE (\A v \in Uploads : Flow(v))'
  BY <1>9 DEF LockAbandoned, Goto
<1>10. ASSUME NEW u \in Uploads, Begin(u) PROVE (\A v \in Uploads : Flow(v))'
  BY <1>10 DEF Begin, Goto
<1>11. ASSUME NEW u \in Uploads, BeginFails(u) PROVE (\A v \in Uploads : Flow(v))'
  BY <1>11 DEF BeginFails, Goto
<1>12. ASSUME NEW u \in Uploads, ReadUnit(u) PROVE (\A v \in Uploads : Flow(v))'
  BY <1>12 DEF ReadUnit, Goto
<1>13. ASSUME NEW u \in Uploads, ReadTooLarge(u) PROVE (\A v \in Uploads : Flow(v))'
  BY <1>13 DEF ReadTooLarge, Fail, Goto
<1>14. ASSUME NEW u \in Uploads, ReadEOF(u) PROVE (\A v \in Uploads : Flow(v))'
  BY <1>14 DEF ReadEOF, Goto
<1>15. ASSUME NEW u \in Uploads, ReadBroken(u) PROVE (\A v \in Uploads : Flow(v))'
  BY <1>15 DEF ReadBroken, Fail, Goto
<1>16. ASSUME NEW u \in Uploads, UploadFails(u) PROVE (\A v \in Uploads : Flow(v))'
  BY <1>16 DEF UploadFails, Fail, Goto
<1>17. ASSUME NEW u \in Uploads, Prepared(u) PROVE (\A v \in Uploads : Flow(v))'
  BY <1>17 DEF Prepared, Goto
<1>18. ASSUME NEW u \in Uploads, Link(u) PROVE (\A v \in Uploads : Flow(v))'
  BY <1>18 DEF Link, Goto
<1>19. ASSUME NEW u \in Uploads, LinkConflicts(u) PROVE (\A v \in Uploads : Flow(v))'
  BY <1>19 DEF LinkConflicts, Fail, Goto
<1>20. ASSUME NEW u \in Uploads, SyncDirectory(u) PROVE (\A v \in Uploads : Flow(v))'
  BY <1>20 DEF SyncDirectory, Goto
<1>21. ASSUME NEW u \in Uploads, SyncDirectoryFails(u) PROVE (\A v \in Uploads : Flow(v))'
  BY <1>21 DEF SyncDirectoryFails, Fail, Goto
<1>22. ASSUME NEW u \in Uploads, Complete(u) PROVE (\A v \in Uploads : Flow(v))'
  BY <1>22 DEF Complete, Goto
<1>23. ASSUME NEW u \in Uploads, CompleteFails(u) PROVE (\A v \in Uploads : Flow(v))'
  BY <1>23 DEF CompleteFails, Goto
<1>24. ASSUME NEW u \in Uploads, Unlock(u) PROVE (\A v \in Uploads : Flow(v))'
  BY <1>24 DEF Unlock, Goto, Lock!Give
<1>25. ASSUME NEW u \in Uploads, Respond(u) PROVE (\A v \in Uploads : Flow(v))'
  BY <1>25 DEF Respond, Goto
<1>26. CASE BrokerCrash
  BY <1>26 DEF BrokerCrash, Interrupted
<1>27. CASE PowerLoss
  BY <1>27, LossIsWhole DEF PowerLoss, Interrupted
<1>28. CASE UNCHANGED uploadVars
  BY <1>28, SMTT(30), Zenon, SMTT(60) DEF uploadVars
<1> QED
  BY <1>1, <1>2, <1>3, <1>4, <1>5, <1>6, <1>7, <1>8, <1>9, <1>10, <1>11, <1>12, <1>13,
     <1>14, <1>15, <1>16, <1>17, <1>18, <1>19, <1>20, <1>21, <1>22, <1>23, <1>24,
     <1>25, <1>26, <1>27, <1>28, ZenonT(30)
  DEF Next, WebStep, BrokerStep, Finished

(* A step of another upload's web side leaves an upload's trail alone.     *)
LEMMA TrailKept ==
  ASSUME NEW u, Trail(u), web'[u] = web[u], reply'[u] = reply[u], mark'[u] = mark[u],
         UNCHANGED <<told, broker, result, audit, file, linked>>
  PROVE  Trail(u)'
  BY SMTT(30), Zenon, SMTT(60) DEF Trail, Published

(* So does the broken end of a request that had not ended before.          *)
LEMMA TrailBroken ==
  ASSUME NEW u, Trail(u), web'[u] # "idle", reply'[u] = reply[u], mark[u] # "eof",
         UNCHANGED <<told, broker, result, audit, file, linked>>
  PROVE  Trail(u)'
  BY DEF Trail, Published

(* And so does an error that is returned while there is no answer yet.     *)
LEMMA TrailRefused ==
  ASSUME NEW u, Trail(u), web'[u] # "idle", reply[u] = "none", reply'[u] = "error",
         mark[u] = "eof" => mark'[u] = "eof",
         UNCHANGED <<told, broker, result, audit, file, linked>>
  PROVE  Trail(u)'
  BY SMTT(30) DEF Trail, Published

(* Every step keeps handler, trail, browser and disk in agreement.         *)
LEMMA TrailStep ==
  ASSUME IInv, [Next]_uploadVars
  PROVE  (\A v \in Uploads : Trail(v))'
<1> USE Limits DEF IInv, TypeOK, Flow, Trail, FileIsWhole, Published, Unpublished, NoFile,
                   webVars, brokerVars
<1>1. ASSUME NEW u \in Uploads, handleUpload(u) PROVE (\A v \in Uploads : Trail(v))'
  BY <1>1, SMTT(30) DEF handleUpload
<1>2. ASSUME NEW u \in Uploads, Cancel(u) PROVE (\A v \in Uploads : Trail(v))'
  BY <1>2 DEF Cancel
<1>3. ASSUME NEW u \in Uploads, CopyUnit(u) PROVE (\A v \in Uploads : Trail(v))'
  BY <1>3, SMTT(30), Zenon, SMTT(60) DEF CopyUnit, Forms
<1>4. ASSUME NEW u \in Uploads, CopyEnds(u) PROVE (\A v \in Uploads : Trail(v))'
  BY <1>4, SMTT(30), Zenon, SMTT(60) DEF CopyEnds, Copied
<1>5. ASSUME NEW u \in Uploads, CopyFails(u) PROVE (\A v \in Uploads : Trail(v))'
  <2> HIDE Limits DEF Trail, FileIsWhole, Published
  <2>1. mark[u] # "eof"
    BY <1>5, SMTT(30), Zenon, SMTT(60) DEF CopyFails
  <2>2. /\ web'[u] # "idle" /\ reply'[u] = reply[u]
        /\ \A v \in Uploads \ {u} : web'[v] = web[v] /\ reply'[v] = reply[v] /\ mark'[v] = mark[v]
        /\ UNCHANGED <<told, broker, result, audit, file, linked>>
    BY <1>5 DEF CopyFails
  <2> HIDE DEF IInv, TypeOK, Flow
  <2>3. \A v \in Uploads : Trail(v)
    BY DEF IInv
  <2> QED
    BY <2>1, <2>2, <2>3, TrailKept, TrailBroken
<1>6. ASSUME NEW u \in Uploads, GiveUp(u) PROVE (\A v \in Uploads : Trail(v))'
  <2>1. /\ web'[u] # "idle" /\ reply[u] = "none" /\ reply'[u] = "error"
        /\ mark[u] = "eof" => mark'[u] = "eof"
        /\ \A v \in Uploads \ {u} : web'[v] = web[v] /\ reply'[v] = reply[v] /\ mark'[v] = mark[v]
        /\ UNCHANGED <<told, broker, result, audit, file, linked>>
    BY <1>6 DEF GiveUp
  <2> HIDE Limits DEF IInv, TypeOK, Flow, Trail, FileIsWhole, Published
  <2>2. \A v \in Uploads : Trail(v)
    BY DEF IInv
  <2> QED
    BY <2>1, <2>2, TrailKept, TrailRefused, SMTT(30), Zenon, SMTT(60)
<1>7. ASSUME NEW u \in Uploads, Answer(u) PROVE (\A v \in Uploads : Trail(v))'
  BY <1>7, SMTT(30), Zenon, SMTT(60) DEF Answer, Verdict
<1>8. ASSUME NEW u \in Uploads, LockTaken(u) PROVE (\A v \in Uploads : Trail(v))'
  BY <1>8, SMTT(30), Zenon, SMTT(60) DEF LockTaken, Goto, Lock!Take
<1>9. ASSUME NEW u \in Uploads, LockAbandoned(u) PROVE (\A v \in Uploads : Trail(v))'
  BY <1>9, SMTT(30), Zenon, SMTT(60) DEF LockAbandoned, Goto
<1>10. ASSUME NEW u \in Uploads, Begin(u) PROVE (\A v \in Uploads : Trail(v))'
  BY <1>10, SMTT(30), Zenon, SMTT(60) DEF Begin, Goto
<1>11. ASSUME NEW u \in Uploads, BeginFails(u) PROVE (\A v \in Uploads : Trail(v))'
  BY <1>11, SMTT(30), Zenon, SMTT(60) DEF BeginFails, Goto
<1>12. ASSUME NEW u \in Uploads, ReadUnit(u) PROVE (\A v \in Uploads : Trail(v))'
  BY <1>12, SMTT(30), Zenon, SMTT(60) DEF ReadUnit, Goto
<1>13. ASSUME NEW u \in Uploads, ReadTooLarge(u) PROVE (\A v \in Uploads : Trail(v))'
  BY <1>13, SMTT(30), Zenon, SMTT(60) DEF ReadTooLarge, Fail, Goto
<1>14. ASSUME NEW u \in Uploads, ReadEOF(u) PROVE (\A v \in Uploads : Trail(v))'
  BY <1>14, SMTT(30), Zenon, SMTT(60) DEF ReadEOF, Goto
<1>15. ASSUME NEW u \in Uploads, ReadBroken(u) PROVE (\A v \in Uploads : Trail(v))'
  BY <1>15, SMTT(30), Zenon, SMTT(60) DEF ReadBroken, Fail, Goto
<1>16. ASSUME NEW u \in Uploads, UploadFails(u) PROVE (\A v \in Uploads : Trail(v))'
  BY <1>16, SMTT(30), Zenon, SMTT(60) DEF UploadFails, Fail, Goto
<1>17. ASSUME NEW u \in Uploads, Prepared(u) PROVE (\A v \in Uploads : Trail(v))'
  BY <1>17, SMTT(30), Zenon, SMTT(60) DEF Prepared, Goto
<1>18. ASSUME NEW u \in Uploads, Link(u) PROVE (\A v \in Uploads : Trail(v))'
  BY <1>18, SMTT(30), Zenon, SMTT(60) DEF Link, Goto
<1>19. ASSUME NEW u \in Uploads, LinkConflicts(u) PROVE (\A v \in Uploads : Trail(v))'
  BY <1>19 DEF LinkConflicts, Fail, Goto
<1>20. ASSUME NEW u \in Uploads, SyncDirectory(u) PROVE (\A v \in Uploads : Trail(v))'
  BY <1>20, SMTT(30), Zenon, SMTT(60) DEF SyncDirectory, Goto
<1>21. ASSUME NEW u \in Uploads, SyncDirectoryFails(u) PROVE (\A v \in Uploads : Trail(v))'
  BY <1>21, SMTT(30), Zenon, SMTT(60) DEF SyncDirectoryFails, Fail, Goto
<1>22. ASSUME NEW u \in Uploads, Complete(u) PROVE (\A v \in Uploads : Trail(v))'
  BY <1>22, SMTT(30), Zenon, SMTT(60) DEF Complete, Goto
<1>23. ASSUME NEW u \in Uploads, CompleteFails(u) PROVE (\A v \in Uploads : Trail(v))'
  BY <1>23, SMTT(30), Zenon, SMTT(60) DEF CompleteFails, Goto
<1>24. ASSUME NEW u \in Uploads, Unlock(u) PROVE (\A v \in Uploads : Trail(v))'
  BY <1>24, SMTT(30), Zenon, SMTT(60) DEF Unlock, Goto, Lock!Give
<1>25. ASSUME NEW u \in Uploads, Respond(u) PROVE (\A v \in Uploads : Trail(v))'
  BY <1>25, SMTT(30) DEF Respond, Goto
<1>26. CASE BrokerCrash
  BY <1>26, SMTT(30), Zenon, SMTT(60) DEF BrokerCrash, Interrupted
<1>27. CASE PowerLoss
  BY <1>27, LossIsWhole, SMTT(30), Zenon, SMTT(60) DEF PowerLoss, Interrupted
<1>28. CASE UNCHANGED uploadVars
  BY <1>28, SMTT(30) DEF uploadVars
<1> QED
  BY <1>1, <1>2, <1>3, <1>4, <1>5, <1>6, <1>7, <1>8, <1>9, <1>10, <1>11, <1>12, <1>13,
     <1>14, <1>15, <1>16, <1>17, <1>18, <1>19, <1>20, <1>21, <1>22, <1>23, <1>24,
     <1>25, <1>26, <1>27, <1>28, ZenonT(30)
  DEF Next, WebStep, BrokerStep, Finished

(* linkat publishes what EOF has completed; nothing else changes the file. *)
LEMMA FileStep ==
  ASSUME IInv, [Next]_uploadVars
  PROVE  FileIsWhole'
<1> USE Limits DEF IInv, TypeOK, FileIsWhole, NoFile, Flow, Copied, Unpublished, Forms,
                   webVars, brokerVars
<1>1. ASSUME NEW u \in Uploads, handleUpload(u) PROVE FileIsWhole'
  BY <1>1, SMTT(30) DEF handleUpload
<1>2. ASSUME NEW u \in Uploads, Cancel(u) PROVE FileIsWhole'
  BY <1>2 DEF Cancel
<1>3. ASSUME NEW u \in Uploads, CopyUnit(u) PROVE FileIsWhole'
  BY <1>3, SMTT(30), Zenon, SMTT(60) DEF CopyUnit, Forms
<1>4. ASSUME NEW u \in Uploads, CopyEnds(u) PROVE FileIsWhole'
  BY <1>4, SMTT(30) DEF CopyEnds, Copied
<1>5. ASSUME NEW u \in Uploads, CopyFails(u) PROVE FileIsWhole'
  BY <1>5, SMTT(30), Zenon, SMTT(60) DEF CopyFails
<1>6. ASSUME NEW u \in Uploads, GiveUp(u) PROVE FileIsWhole'
  BY <1>6 DEF GiveUp
<1>7. ASSUME NEW u \in Uploads, Answer(u) PROVE FileIsWhole'
  BY <1>7, SMTT(30) DEF Answer, Verdict
<1>8. ASSUME NEW u \in Uploads, LockTaken(u) PROVE FileIsWhole'
  BY <1>8, SMTT(30), Zenon, SMTT(60) DEF LockTaken, Goto, Lock!Take
<1>9. ASSUME NEW u \in Uploads, LockAbandoned(u) PROVE FileIsWhole'
  BY <1>9, SMTT(30) DEF LockAbandoned, Goto
<1>10. ASSUME NEW u \in Uploads, Begin(u) PROVE FileIsWhole'
  BY <1>10, SMTT(30) DEF Begin, Goto
<1>11. ASSUME NEW u \in Uploads, BeginFails(u) PROVE FileIsWhole'
  BY <1>11, SMTT(30) DEF BeginFails, Goto
<1>12. ASSUME NEW u \in Uploads, ReadUnit(u) PROVE FileIsWhole'
  BY <1>12, SMTT(30), Zenon, SMTT(60) DEF ReadUnit, Goto
<1>13. ASSUME NEW u \in Uploads, ReadTooLarge(u) PROVE FileIsWhole'
  BY <1>13, SMTT(30) DEF ReadTooLarge, Fail, Goto
<1>14. ASSUME NEW u \in Uploads, ReadEOF(u) PROVE FileIsWhole'
  BY <1>14, SMTT(30), Zenon, SMTT(60) DEF ReadEOF, Goto
<1>15. ASSUME NEW u \in Uploads, ReadBroken(u) PROVE FileIsWhole'
  BY <1>15, SMTT(30), Zenon, SMTT(60) DEF ReadBroken, Fail, Goto
<1>16. ASSUME NEW u \in Uploads, UploadFails(u) PROVE FileIsWhole'
  BY <1>16, SMTT(30), Zenon, SMTT(60) DEF UploadFails, Fail, Goto
<1>17. ASSUME NEW u \in Uploads, Prepared(u) PROVE FileIsWhole'
  BY <1>17, SMTT(30), Zenon, SMTT(60) DEF Prepared, Goto
<1>18. ASSUME NEW u \in Uploads, Link(u) PROVE FileIsWhole'
  BY <1>18, SMTT(30), Zenon, SMTT(60) DEF Link, Goto
<1>19. ASSUME NEW u \in Uploads, LinkConflicts(u) PROVE FileIsWhole'
  BY <1>19, SMTT(30), Zenon, SMTT(60) DEF LinkConflicts, Fail, Goto
<1>20. ASSUME NEW u \in Uploads, SyncDirectory(u) PROVE FileIsWhole'
  <2>1. file.from = u /\ file # NoFile
    BY <1>20 DEF SyncDirectory, Trail
  <2>2. /\ file'.from = u /\ file'.synced = file.synced /\ file'.size = file.size
        /\ part' = part
    BY <1>20, <2>1, SMTT(30), Zenon, SMTT(60) DEF SyncDirectory
  <2> QED
    BY <2>1, <2>2
<1>21. ASSUME NEW u \in Uploads, SyncDirectoryFails(u) PROVE FileIsWhole'
  BY <1>21, SMTT(30), Zenon, SMTT(60) DEF SyncDirectoryFails, Fail, Goto
<1>22. ASSUME NEW u \in Uploads, Complete(u) PROVE FileIsWhole'
  BY <1>22, SMTT(30), Zenon, SMTT(60) DEF Complete, Goto
<1>23. ASSUME NEW u \in Uploads, CompleteFails(u) PROVE FileIsWhole'
  BY <1>23, SMTT(30), Zenon, SMTT(60) DEF CompleteFails, Goto
<1>24. ASSUME NEW u \in Uploads, Unlock(u) PROVE FileIsWhole'
  BY <1>24, SMTT(30), Zenon, SMTT(60) DEF Unlock, Goto, Lock!Give
<1>25. ASSUME NEW u \in Uploads, Respond(u) PROVE FileIsWhole'
  BY <1>25, SMTT(30), Zenon, SMTT(60) DEF Respond, Goto
<1>26. CASE BrokerCrash
  BY <1>26, SMTT(30), Zenon, SMTT(60) DEF BrokerCrash, Interrupted
<1>27. CASE PowerLoss
  BY <1>27, LossIsWhole, SMTT(30), Zenon, SMTT(60) DEF PowerLoss, Interrupted
<1>28. CASE UNCHANGED uploadVars
  BY <1>28 DEF uploadVars
<1> QED
  BY <1>1, <1>2, <1>3, <1>4, <1>5, <1>6, <1>7, <1>8, <1>9, <1>10, <1>11, <1>12, <1>13,
     <1>14, <1>15, <1>16, <1>17, <1>18, <1>19, <1>20, <1>21, <1>22, <1>23, <1>24,
     <1>25, <1>26, <1>27, <1>28, Zenon
  DEF Next, WebStep, BrokerStep, Finished

(* Every step of an upload, of a crash or of a power loss keeps IInv.      *)
LEMMA NextInv == IInv /\ [Next]_uploadVars => IInv'
  BY TypeStep, FlowStep, TrailStep, FileStep DEF IInv

(* IInv holds throughout.                                                  *)
LEMMA Invariance == Spec => []IInv
  BY InitInv, NextInv, PTL DEF Spec

(* What a browser is told, what the trail says and what is on disk agree   *)
(* about every upload, through crashes and power losses.                   *)
THEOREM UploadsAgree == Spec => []UploadInv
<1>1. IInv => UploadInv
  BY DEF IInv, UploadInv, Trail, Published, TrailCoversFiles, AnswersAreReal
<1> QED
  BY <1>1, Invariance, PTL

(* The name never stands for a part of a body, or for one whose form broke *)
(* off.                                                                    *)
THEOREM FilesAreWhole == Spec => []NeverPartial
<1>1. IInv => NeverPartial
  BY DEF IInv, NeverPartial, FileIsWhole, TypeOK
<1> QED
  BY <1>1, Invariance, PTL

(* No step of any upload changes or removes a published file; a power loss *)
(* takes only a name whose directory was not synced.                       *)
THEOREM PublishedStays == Spec => NoOverwrite
<1> DEFINE Kept == file # NoFile =>
                     \/ file'.from = file.from /\ file'.size = file.size
                     \/ file' = NoFile /\ losses' # losses /\ ~file.durable
<1>1. ASSUME IInv, [Next]_uploadVars, file # NoFile
      PROVE  Kept
  <2>1. CASE PowerLoss
    BY <1>1, <2>1, Limits, LossIsWhole DEF IInv, TypeOK, PowerLoss
  <2>2. ASSUME NEW u \in Uploads, SyncDirectory(u)
        PROVE  Kept
    BY <1>1, <2>2 DEF IInv, TypeOK, SyncDirectory
  <2>3. CASE file' = file
    BY <2>3
  <2> QED
    BY <1>1, <2>1, <2>2, <2>3, ZenonT(30)
    DEF Next, WebStep, BrokerStep, Finished, uploadVars, brokerVars, BrokerCrash,
        handleUpload, Cancel, CopyUnit, CopyEnds, CopyFails, GiveUp, Answer, LockTaken,
        LockAbandoned, Begin, BeginFails, ReadUnit, ReadTooLarge, ReadEOF, ReadBroken,
        UploadFails, Fail, Prepared, Link, LinkConflicts, SyncDirectoryFails, Complete,
        CompleteFails, Unlock, Respond
<1>2. IInv /\ [Next]_uploadVars => [Kept]_uploadVars
  BY <1>1
<1> QED
  BY <1>2, Invariance, PTL DEF Spec, NoOverwrite

------------------------------------------------------------------------------
(* Gating: the start of the broker.                                        *)

(* Before run waits for systemd there is no goroutine that connects, and a *)
(* probe is under way only while one is left.                              *)
StartIInv ==
  /\ StartInv
  /\ stage \in {"probe", "connect", "down"} => dial = "none"
  /\ stage = "probe" => probed < 10

(* The end of the process leaves neither goroutine nor connection.         *)
LEMMA DownKeeps ==
  ASSUME StartIInv, NEW left \in {"absent", "stale", "foreign"}, Down(left)
  PROVE  StartIInv'
BY Zenon DEF StartIInv, StartInv, GatingTypeOK, NoStrayConnection, NoAbandonedDial, SocketIsOurs, Down

(* Every step of the start and of the pages keeps it.                      *)
LEMMA GatingKeeps ==
  ASSUME GatingAssumption, StartIInv, [GatingNext]_gatingVars
  PROVE  StartIInv'
<1> USE DEF StartIInv, StartInv, GatingTypeOK, NoStrayConnection, NoAbandonedDial, SocketIsOurs
<1>1. CASE Probe
  <2>1. probed' = probed + 1 /\ stage = "probe" /\ probed' \in 1..10
    BY <1>1 DEF Probe
  <2> QED
    BY <1>1, <2>1 DEF Probe, pageVars
<1>2. CASE SkipConnect \/ StartDial \/ Dialed
  BY <1>2 DEF SkipConnect, StartDial, Dialed, startVars, pageVars
<1>3. CASE HandOver \/ TimeoutConnect \/ CloseLate
  BY <1>3, ZenonT(30) DEF HandOver, TimeoutConnect, CloseLate, pageVars
<1>4. CASE listenUnix
  BY <1>4 DEF listenUnix, pageVars
<1>5. CASE ListenFails
  BY <1>5, DownKeeps DEF ListenFails
<1>6. CASE Stop
  BY <1>6, DownKeeps DEF Stop
<1>7. CASE Crash
  <2>1. (IF sock = "ours" THEN "stale" ELSE sock) \in {"absent", "stale", "foreign"}
    OBVIOUS
  <2> QED
    BY <1>7, <2>1, DownKeeps DEF Crash
<1>8. CASE Restart
  BY <1>8, GatingAssumption, SMTT(30), Zenon, SMTT(60) DEF Restart, pageVars, GatingAssumption
<1>9. CASE Fetch \/ Make \/ Leave
  BY <1>9, SMTT(30) DEF Fetch, Make, Leave, startVars
<1>10. ASSUME NEW route \in Routes, NEW admin \in BOOLEAN, Enter(route, admin)
       PROVE  StartIInv'
  BY <1>10, SMTT(30) DEF Enter, startVars
<1>11. CASE UNCHANGED gatingVars
  BY <1>11 DEF gatingVars
<1> QED
  BY <1>1, <1>2, <1>3, <1>4, <1>5, <1>6, <1>7, <1>8, <1>9, <1>10, <1>11, Zenon DEF GatingNext

(* A connection to systemd that was made is in somebody's hands, a         *)
(* goroutine nobody waits for was told so, and the socket is there exactly *)
(* while the broker serves, for any number of starts and any hosts.        *)
THEOREM StartsStayInOrder == GatingSpec => []StartInv
<1>1. GatingInit => StartIInv
  <2>1. 1 \in DOMAIN Probeable
    BY GatingAssumption DEF GatingAssumption
  <2>2. GatingInit => GatingTypeOK
    <3>1. GatingInit => {canceled, client} \subseteq BOOLEAN
      BY Zenon DEF GatingInit
    <3> QED
      BY <2>1, <3>1 DEF GatingInit, GatingTypeOK
  <2>3. GatingInit => NoStrayConnection /\ NoAbandonedDial /\ SocketIsOurs
    BY DEF GatingInit, NoStrayConnection, NoAbandonedDial, SocketIsOurs
  <2> QED
    BY <2>2, <2>3 DEF GatingInit, StartIInv, StartInv
<1>2. StartIInv /\ [GatingNext]_gatingVars => StartIInv'
  BY GatingAssumption, GatingKeeps, Zenon
<1>3. StartIInv => StartInv
  BY DEF StartIInv
<1> QED
  BY <1>1, <1>2, <1>3, PTL DEF GatingSpec

------------------------------------------------------------------------------
(* CapabilityCache: what a session of the running broker may rely on.      *)

(* Some browser has, or is about to have, a session of this broker.        *)
InTouch(b) == cookie[b] = gen \/ (pc[b] \in {"check", "serve"} /\ token[b] = gen)

CacheIInv ==
  /\ CacheTypeOK
  /\ ~reachable => gen <= MaxRestarts
  /\ ~(overtaken \/ refused \/ emptied) =>
       \A b \in Browsers : InTouch(b) => cached = gen \/ down
  /\ \A b \in Browsers : pc[b] \notin {"idle", "noteIdle"} => token[b] # 0

(* The broker goes away and comes back with no session, and the web        *)
(* process starts anew.                                                    *)
LEMMA ProcessesKeepCache ==
  ASSUME RestartsAssumption, CacheIInv, BrokerStops \/ BrokerReturns \/ WebRestart
  PROVE  CacheIInv'
<1>1. CASE BrokerStops
  BY <1>1, Zenon DEF BrokerStops, CacheIInv, CacheTypeOK, InTouch
<1>2. CASE BrokerReturns
  <2>1. gen \in Nat /\ gen' = gen + 1 /\ 0..gen \subseteq 0..gen' /\ gen' \notin 0..gen
    BY <1>2, RestartsAssumption DEF BrokerReturns, CacheIInv, CacheTypeOK, RestartsAssumption
  <2>2. CacheTypeOK'
    <3>1. /\ reachable' \in BOOLEAN /\ down' \in BOOLEAN /\ {overtaken', refused', emptied'} \subseteq BOOLEAN
          /\ ended' \in [Browsers -> BOOLEAN]
      BY <1>2, Zenon DEF BrokerReturns, CacheIInv, CacheTypeOK
    <3>2. gen' \in 1..MaxRestarts + 1
      BY <1>2, <2>1, RestartsAssumption DEF BrokerReturns, CacheIInv, CacheTypeOK, RestartsAssumption
    <3>3. /\ cached' \in 0..gen' /\ cookie' \in [Browsers -> 0..gen']
          /\ token' \in [Browsers -> 0..gen'] /\ got' \in [Browsers -> 0..gen'] /\ pc' = pc
      <4>1. /\ cached \in 0..gen /\ cookie \in [Browsers -> 0..gen]
            /\ token \in [Browsers -> 0..gen] /\ got \in [Browsers -> 0..gen]
            /\ UNCHANGED <<cached, cookie, token, got, pc>>
        BY <1>2, Zenon DEF BrokerReturns, CacheIInv, CacheTypeOK
      <4> QED
        BY <2>1, <4>1
    <3> QED
      BY <3>1, <3>2, <3>3, Zenon DEF CacheIInv, CacheTypeOK
  <2>3. \A b \in Browsers : ~InTouch(b)'
    BY <1>2, <2>1, SMTT(30) DEF BrokerReturns, CacheIInv, CacheTypeOK, InTouch
  <2> QED
    BY <1>2, <2>2, <2>3, Zenon DEF BrokerReturns, CacheIInv
<1>3. CASE WebRestart
  <2>1. reachable' \in BOOLEAN /\ down' \in BOOLEAN /\ {overtaken', refused', emptied'} \subseteq BOOLEAN
        /\ emptied'
    BY <1>3, Zenon DEF WebRestart, CacheIInv, CacheTypeOK
  <2> QED
    BY <1>3, <2>1 DEF WebRestart, CacheIInv, CacheTypeOK
<1> QED
  BY <1>1, <1>2, <1>3

(* A request of a browser.                                                 *)
LEMMA RequestsKeepCache ==
  ASSUME RestartsAssumption, CacheIInv, NEW b \in Browsers,
         \/ Login(b) \/ SessionAccepted(b) \/ SessionRefused(b) \/ SessionUnavailable(b)
         \/ staleAfterOutage(b) \/ Fetched(b) \/ FetchRefused(b) \/ FetchUnavailable(b)
         \/ set(b) \/ noteResult(b) \/ Serve(b) \/ CallUnavailable(b)
         \/ Logout(b) \/ SessionEnds(b)
  PROVE  CacheIInv'
<1> USE DEF CacheIInv, CacheTypeOK, InTouch, GoesTo
<1>1. gen \in Nat \ {0} /\ gen \in 0..gen
  BY RestartsAssumption, SMTT(30), Zenon, SMTT(60) DEF RestartsAssumption
<1>2. CASE Login(b) \/ SessionAccepted(b)
  BY <1>1, <1>2, SMTT(30), Zenon, SMTT(60) DEF Login, SessionAccepted
<1>3. CASE SessionRefused(b) \/ SessionUnavailable(b)
  <2>1. ended' \in [Browsers -> BOOLEAN]
    BY <1>3, Zenon DEF SessionRefused, SessionUnavailable
  <2> QED
    BY <1>1, <1>3, <2>1, SMTT(30) DEF SessionRefused, SessionUnavailable
<1>4. CASE staleAfterOutage(b)
  BY <1>4, ZenonT(30) DEF staleAfterOutage
<1>5. CASE Fetched(b) \/ FetchUnavailable(b) \/ CallUnavailable(b)
  BY <1>1, <1>5, SMTT(30) DEF Fetched, FetchUnavailable, CallUnavailable
<1>6. CASE FetchRefused(b)
  <2>1. refused' \in BOOLEAN /\ (token[b] = gen => refused')
    BY <1>6, Zenon DEF FetchRefused, Accepts
  <2> QED
    BY <1>6, <2>1, Zenon DEF FetchRefused
<1>7. CASE set(b)
  <2>1. /\ overtaken' \in BOOLEAN /\ down' \in BOOLEAN /\ emptied' \in BOOLEAN
        /\ got[b] < gen => overtaken'
    BY <1>7, Zenon DEF set
  <2>2. got[b] \in 0..gen /\ (got[b] = gen \/ got[b] < gen)
    BY <1>1
  <2> QED
    BY <1>1, <1>7, <2>1, <2>2 DEF set
<1>8. CASE noteResult(b)
  BY <1>8, ZenonT(30) DEF noteResult
<1>9. CASE Serve(b)
  BY <1>9, Zenon DEF Serve
<1>10. CASE Logout(b) \/ SessionEnds(b)
  <2>1. ended' \in [Browsers -> BOOLEAN]
    BY <1>10, Zenon DEF Logout, SessionEnds
  <2> QED
    BY <1>1, <1>10, <2>1, SMTT(30) DEF Logout, SessionEnds
<1> QED
  BY <1>2, <1>3, <1>4, <1>5, <1>6, <1>7, <1>8, <1>9, <1>10, Zenon

(* Every step keeps it.                                                    *)
LEMMA CacheKeeps ==
  ASSUME CacheIInv, [CacheNext]_cacheVars
  PROVE  CacheIInv'
<1>1. CASE UNCHANGED cacheVars
  BY <1>1, Zenon DEF cacheVars, CacheIInv, CacheTypeOK, InTouch
<1> QED
  BY <1>1, RestartsAssumption, ProcessesKeepCache, RequestsKeepCache, Zenon DEF CacheNext

(* Only a logout, or a running broker that does not know the session,      *)
(* clears a cookie.                                                        *)
LEMMA CookiesStay ==
  ASSUME CacheIInv, CacheNext, NEW b \in Browsers, cookie[b] # 0, cookie'[b] = 0
  PROVE  Logout(b) \/ (reachable /\ (cookie[b] # gen \/ ended[b]))
<1>1. CASE BrokerStops \/ BrokerReturns \/ WebRestart
  BY <1>1 DEF BrokerStops, BrokerReturns, WebRestart
<1>2. ASSUME NEW c \in Browsers,
             \/ Login(c) \/ SessionAccepted(c) \/ SessionUnavailable(c)
             \/ staleAfterOutage(c) \/ Fetched(c) \/ FetchRefused(c) \/ FetchUnavailable(c)
             \/ set(c) \/ noteResult(c) \/ CallUnavailable(c) \/ SessionEnds(c)
      PROVE  FALSE
  BY <1>2, Zenon DEF Login, SessionAccepted, SessionUnavailable, staleAfterOutage, Fetched, FetchRefused,
     FetchUnavailable, set, noteResult, CallUnavailable, SessionEnds
<1>3. ASSUME NEW c \in Browsers, SessionRefused(c)
      PROVE  reachable /\ (cookie[b] # gen \/ ended[b])
  BY <1>3 DEF SessionRefused, CacheIInv, CacheTypeOK
<1>4. ASSUME NEW c \in Browsers, Serve(c)
      PROVE  FALSE
  BY <1>4 DEF Serve, CacheIInv, CacheTypeOK
<1>5. ASSUME NEW c \in Browsers, Logout(c)
      PROVE  Logout(b)
  <2>1. c = b
    BY <1>5 DEF Logout, CacheIInv, CacheTypeOK
  <2> QED
    BY <1>5, <2>1
<1> QED
  BY <1>1, <1>2, <1>3, <1>4, <1>5, Zenon DEF CacheNext

(* Except where a set was stored after a restart, a fetch was refused or   *)
(* the web process has no set yet, a page for a session of the running     *)
(* broker is made from that broker's set or the cache is marked; and no    *)
(* outage logs anyone out.  For any number of browsers and restarts.       *)
THEOREM StaleSetsAreMarked == CacheSpec => CacheRules
<1>1. CacheInit => CacheIInv
  <2>1. CacheInit => /\ reachable \in BOOLEAN /\ down \in BOOLEAN
                     /\ {overtaken, refused, emptied} \subseteq BOOLEAN
    BY Zenon DEF CacheInit
  <2> QED
    BY <2>1, RestartsAssumption DEF CacheInit, CacheIInv, CacheTypeOK, InTouch, RestartsAssumption
<1>2. CacheIInv /\ [CacheNext]_cacheVars => CacheIInv'
  BY CacheKeeps, Zenon
<1>3. CacheIInv => CacheTypeOK /\ StaleIsMarked
  BY Zenon DEF CacheIInv, StaleIsMarked, InTouch
<1>4. CacheIInv /\ [CacheNext]_cacheVars
        => [\A b \in Browsers :
              cookie[b] # 0 /\ cookie'[b] = 0 =>
                \/ Logout(b)
                \/ reachable /\ (cookie[b] # gen \/ ended[b])]_cacheVars
  BY CookiesStay, Zenon
<1> QED
  BY <1>1, <1>2, <1>3, <1>4, PTL DEF CacheSpec, CacheRules, OutageKeepsCookie

------------------------------------------------------------------------------
(* WebStart: the certificate that is served, and how it is kept.           *)

Certs == [serial : Nat, sans : SUBSET (Hosts \cup {"localhost"}), until : Nat]

Confs == [host : Hosts, mode : {"http", "provided", "selfSigned"}, insecure : BOOLEAN]

WebTypes ==
  /\ now \in 0..MaxTime /\ addresses \subseteq Addresses
  /\ phase \in {"off", "writeKey", "writeCert", "listen", "serve"}
  /\ conf \in Confs
  /\ serials \in Nat
  /\ cert \in Certs /\ next \in Certs /\ onDisk.cert \in Certs
  /\ cert.serial \in 0..serials /\ next.serial \in 0..serials /\ onDisk.cert.serial \in 0..serials
  /\ key \in 0..serials /\ onDisk.key \in 0..serials
  /\ served.cert \in Certs /\ served.at \in Nat

(* A certificate that may be served at an address from now on.             *)
GoodFor(c, host) == c.serial # 0 /\ concreteHost(host) \subseteq c.sans /\ now + Window <= c.until

(* The pair being written is good for the address, and so is the one that  *)
(* is about to be loaded; the one loaded last was when it was loaded.      *)
WebIInv ==
  /\ WebTypes
  /\ phase \in {"writeKey", "writeCert"} => conf.mode = "selfSigned" /\ GoodFor(next, conf.host)
  /\ phase = "writeCert" => key = next.serial
  /\ phase = "listen" /\ conf.mode = "selfSigned" => GoodFor(cert, conf.host) /\ cert.serial = key
  /\ conf.mode = "http" => conf.host = "loopback" \/ conf.insecure
  /\ served.cert.serial # 0 =>
       /\ served.cert.serial = served.key
       /\ concreteHost(served.host) \subseteq served.cert.sans
       /\ served.at + Window <= served.cert.until
  /\ phase = "serve" /\ conf.mode = "selfSigned" =>
       served.cert.serial # 0 /\ served.host = conf.host

(* The numbers of the invariant.                                           *)
LEMMA WebNumbers ==
  ASSUME WebTypes
  PROVE  /\ serials \in Nat /\ 0 \in 0..serials
         /\ now \in Nat /\ served.cert.until \in Nat /\ Window \in Nat
<1>1. serials \in Nat /\ now \in 0..MaxTime /\ served.cert \in Certs
  BY Zenon DEF WebTypes
<1>2. MaxTime \in Nat /\ Window \in Nat
  BY WebStartAssumption, Zenon DEF WebStartAssumption
<1>3. \A c \in Certs : c.until \in Nat
  BY DEF Certs
<1>4. \A n, t \in Nat : 0 \in 0..n /\ \A m \in 0..t : m \in Nat
  OBVIOUS
<1> QED
  BY <1>1, <1>2, <1>3, <1>4, Zenon

(* The nothing there is at first.                                          *)
LEMMA Nothings ==
  /\ noCert \in Certs /\ noCert.serial = 0
  /\ noConf \in Confs /\ noConf.mode = "http" /\ noConf.host = "loopback"
<1>1. noCert \in Certs /\ noCert.serial = 0
  BY DEF noCert, Certs
<1>2. noConf \in Confs /\ noConf.mode = "http" /\ noConf.host = "loopback"
  BY Zenon DEF noConf, Confs, Hosts
<1> QED
  BY <1>1, <1>2

(* What generate makes.                                                    *)
LEMMA Generated ==
  ASSUME WebStartAssumption, WebTypes, NEW host \in Hosts
  PROVE  /\ generate(host) \in Certs /\ generate(host).serial = serials + 1
         /\ GoodFor(generate(host), host)
<1>1. sanHosts(host) \in SUBSET (Hosts \cup {"localhost"}) /\ concreteHost(host) \subseteq sanHosts(host)
  BY SMTT(30) DEF sanHosts, concreteHost, Hosts, WebTypes
<1> DEFINE S == sanHosts(host)
<1>2. now \in Nat /\ serials \in Nat /\ now + Lifetime \in Nat /\ now + Window <= now + Lifetime
      /\ serials + 1 # 0
  BY WebStartAssumption DEF WebTypes, WebStartAssumption
<1>3. generate(host) = [serial |-> serials + 1, sans |-> S, until |-> now + Lifetime]
  BY DEF generate
<1> HIDE DEF S
<1>4. S \in SUBSET (Hosts \cup {"localhost"}) /\ concreteHost(host) \subseteq S
  BY <1>1 DEF S
<1> QED
  BY <1>2, <1>3, <1>4, SMTT(30), Zenon, SMTT(60) DEF Certs, GoodFor

(* Start with certain options: what it resolves to.                        *)
LEMMA Resolved ==
  ASSUME NEW passed \in BOOLEAN, NEW flag \in Hosts, NEW env \in Hosts \cup {"unset"},
         NEW given \in BOOLEAN, NEW insecure \in BOOLEAN,
         NEW addr, addr = resolveString(passed, IF passed THEN flag ELSE "loopback", env),
         NEW mode, mode = decideServeMode(isLoopbackListen(addr), given, insecure)
  PROVE  /\ addr \in Hosts /\ mode \in {"http", "provided", "selfSigned"}
         /\ mode = "http" => addr = "loopback" \/ insecure
BY DEF resolveString, decideServeMode, isLoopbackListen, Hosts

(* A start that goes on: with a certificate only if one is usable.         *)
GoesOn(addr, mode, insecure) ==
  /\ addr \in Hosts /\ mode \in {"http", "provided", "selfSigned"} /\ insecure \in BOOLEAN
  /\ mode = "http" => addr = "loopback" \/ insecure
  /\ conf' = [host |-> addr, mode |-> mode, insecure |-> insecure]
  /\ \/ /\ mode # "selfSigned" \/ usable(addr)
        /\ phase' = "listen" /\ UNCHANGED <<next, serials>>
     \/ /\ mode = "selfSigned" /\ ~usable(addr)
        /\ phase' = "writeKey" /\ next' = generate(addr) /\ serials' = serials + 1

(* Start does that or, with half a pair of options, nothing.               *)
LEMMA StartIs ==
  ASSUME Start
  PROVE  \/ UNCHANGED <<phase, conf, next, serials>>
         \/ \E addr, mode, insecure : GoesOn(addr, mode, insecure)
<1>1. PICK passed \in BOOLEAN, certGiven \in BOOLEAN, keyGiven \in BOOLEAN, insecure \in BOOLEAN,
           flag \in Hosts, env \in Hosts \cup {"unset"} :
             LET addr == resolveString(passed, IF passed THEN flag ELSE "loopback", env)
                 mode == decideServeMode(isLoopbackListen(addr), certGiven, insecure)
             IN IF certGiven # keyGiven
                THEN UNCHANGED <<phase, conf, next>>
                ELSE /\ conf' = [host |-> addr, mode |-> mode, insecure |-> insecure]
                     /\ IF mode # "selfSigned" \/ usable(addr)
                        THEN phase' = "listen" /\ UNCHANGED next
                        ELSE /\ serials < MaxSerial
                             /\ phase' = "writeKey" /\ next' = generate(addr)
  BY Zenon DEF Start
<1> DEFINE addr == resolveString(passed, IF passed THEN flag ELSE "loopback", env)
           mode == decideServeMode(isLoopbackListen(addr), certGiven, insecure)
<1>2. /\ phase = "off"
      /\ serials' = IF phase' = "writeKey" THEN serials + 1 ELSE serials
  BY Zenon DEF Start
<1>3. CASE certGiven # keyGiven
  BY <1>1, <1>2, <1>3, Zenon
<1>4. CASE ~(certGiven # keyGiven)
  <2>1. /\ conf' = [host |-> addr, mode |-> mode, insecure |-> insecure]
        /\ IF mode # "selfSigned" \/ usable(addr)
           THEN phase' = "listen" /\ UNCHANGED next
           ELSE phase' = "writeKey" /\ next' = generate(addr)
    BY <1>1, <1>4, Zenon
  <2>2. /\ addr \in Hosts /\ mode \in {"http", "provided", "selfSigned"}
        /\ mode = "http" => addr = "loopback" \/ insecure
    BY Resolved
  <2> HIDE DEF addr, mode
  <2>3. GoesOn(addr, mode, insecure)
    BY <1>2, <2>1, <2>2, Zenon DEF GoesOn
  <2> QED
    BY <2>3, Zenon
<1> QED
  BY <1>3, <1>4, Zenon

(* Start keeps the invariant.                                              *)
LEMMA StartKeeps ==
  ASSUME WebStartAssumption, WebIInv, Start
  PROVE  WebIInv'
<1>1. /\ phase = "off" /\ UNCHANGED <<now, addresses, cert, key, onDisk, served>>
      /\ WebTypes
  BY Zenon DEF Start, WebIInv
<1>2. CASE UNCHANGED <<phase, conf, next, serials>>
  BY <1>1, <1>2, Zenon DEF WebIInv, WebTypes, GoodFor
<1>3. ASSUME NEW addr, NEW mode, NEW insecure, GoesOn(addr, mode, insecure)
      PROVE  WebIInv'
  <2>1. /\ conf' \in Confs /\ conf'.host = addr /\ conf'.mode = mode /\ conf'.insecure = insecure
        /\ addr \in Hosts /\ (mode = "http" => addr = "loopback" \/ insecure)
    BY <1>3, ZenonT(30) DEF GoesOn, Confs
  <2>2. CASE /\ mode # "selfSigned" \/ usable(addr)
             /\ phase' = "listen" /\ UNCHANGED <<next, serials>>
    <3>1. WebTypes'
      BY <1>1, <2>1, <2>2, ZenonT(30) DEF WebTypes
    <3>2. mode = "selfSigned" => GoodFor(cert, addr) /\ cert.serial = key
      BY <2>2 DEF usable, GoodFor
    <3>3. mode = "selfSigned" => GoodFor(cert, addr)' /\ cert'.serial = key'
      BY <1>1, <3>2, ZenonT(30) DEF GoodFor
    <3> QED
      BY <1>1, <2>1, <2>2, <3>1, <3>3 DEF WebIInv, GoodFor
  <2>3. CASE /\ mode = "selfSigned" /\ phase' = "writeKey"
             /\ next' = generate(addr) /\ serials' = serials + 1
    <3>1. /\ next' \in Certs /\ next'.serial = serials + 1 /\ GoodFor(next', addr)
      BY <1>1, <2>1, <2>3, Generated, ZenonT(30)
    <3>2. /\ serials \in Nat /\ serials' \in Nat /\ next'.serial \in 0..serials'
          /\ 0..serials \subseteq 0..serials'
      <4>1. \A n \in Nat : n + 1 \in Nat /\ n + 1 \in 0..(n + 1) /\ 0..n \subseteq 0..(n + 1)
        OBVIOUS
      <4>2. serials \in Nat
        BY <1>1, WebNumbers, Zenon
      <4> QED
        BY <2>3, <3>1, <4>1, <4>2, Zenon
    <3>3. WebTypes'
      BY <1>1, <2>1, <2>3, <3>1, <3>2, Zenon DEF WebTypes
    <3>4. GoodFor(next, conf.host)'
      BY <1>1, <2>1, <3>1, Zenon DEF GoodFor
    <3> QED
      BY <1>1, <2>1, <2>3, <3>3, <3>4, Zenon DEF WebIInv
  <2> QED
    BY <1>3, <2>2, <2>3, Zenon DEF GoesOn
<1> QED
  BY <1>2, <1>3, StartIs, Zenon

(* The end of the process.                                                 *)
LEMMA EndedKeeps ==
  ASSUME WebIInv, Ended, UNCHANGED <<now, addresses, served, serials>>,
         cert' \in Certs /\ onDisk'.cert \in Certs,
         {cert'.serial, onDisk'.cert.serial, key', onDisk'.key} \subseteq 0..serials
  PROVE  WebIInv'
<1>1. WebTypes /\ serials \in Nat /\ 0 \in 0..serials
  BY WebNumbers, Zenon DEF WebIInv
<1>2. WebTypes'
  BY <1>1, Nothings, Zenon DEF WebTypes, Ended
<1>3. conf'.mode = "http" /\ conf'.host = "loopback" /\ phase' = "off"
  BY Nothings, Zenon DEF Ended
<1> QED
  BY <1>2, <1>3, Zenon DEF WebIInv

(* The two renames.                                                        *)
LEMMA WritesKeep ==
  ASSUME WebIInv, WriteKey \/ WriteCert
  PROVE  WebIInv'
<1>1. WebTypes
  BY DEF WebIInv
<1>2. CASE WriteKey
  <2>1. WebTypes'
    BY <1>1, <1>2, ZenonT(30) DEF WriteKey, WebTypes
  <2> QED
    BY <1>2, <2>1, Zenon DEF WriteKey, WebIInv, GoodFor
<1>3. CASE WriteCert
  <2>1. /\ conf.mode = "selfSigned" /\ GoodFor(next, conf.host) /\ key = next.serial
        /\ phase' = "listen" /\ UNCHANGED <<conf, key, now, served>> /\ cert' = next
    BY <1>3, Zenon DEF WriteCert, WebIInv
  <2>2. WebTypes'
    <3>1. serials \in Nat /\ 0 \in 0..serials
      BY <1>1, WebNumbers, Zenon
    <3> QED
      BY <1>1, <1>3, <3>1, Nothings, ZenonT(30) DEF WriteCert, WebTypes
  <2>3. GoodFor(cert, conf.host)' /\ cert'.serial = key'
    BY <2>1, Zenon DEF GoodFor
  <2> QED
    BY <2>1, <2>2, <2>3 DEF WebIInv
<1> QED
  BY <1>2, <1>3, SMTT(30), Zenon, SMTT(60)

(* The listener loads what was checked or written.                         *)
LEMMA ListenKeeps ==
  ASSUME WebIInv, Listen
  PROVE  WebIInv'
<1>1. /\ WebTypes /\ phase = "listen" /\ UNCHANGED <<now, addresses, cert, key, onDisk, serials>>
  BY ZenonT(30) DEF WebIInv, Listen
<1>2. CASE conf.mode = "selfSigned"
  <2>1. GoodFor(cert, conf.host) /\ cert.serial = key
    BY <1>1, <1>2, Zenon DEF WebIInv
  <2>2. /\ phase' = "serve" /\ UNCHANGED <<conf, next>>
        /\ served' = [cert |-> cert, key |-> key, at |-> now, host |-> conf.host]
    BY <1>2, <2>1, Zenon DEF Listen, GoodFor
  <2>3. /\ served'.cert = cert /\ served'.key = key /\ served'.at = now /\ served'.host = conf.host
    BY <2>2
  <2>4. WebTypes'
    <3>1. now \in Nat
      BY <1>1, WebNumbers, Zenon
    <3> QED
      BY <1>1, <2>2, <2>3, <3>1, Zenon DEF WebTypes
  <2> QED
    BY <1>1, <2>1, <2>2, <2>3, <2>4, Zenon DEF WebIInv, GoodFor
<1>3. CASE conf.mode # "selfSigned"
  <2>1. phase' = "serve" /\ UNCHANGED <<conf, next, served>>
    BY <1>3, Zenon DEF Listen
  <2>2. WebTypes'
    BY <1>1, <2>1, Zenon DEF WebTypes
  <2> QED
    BY <1>1, <1>3, <2>1, <2>2, Zenon DEF WebIInv
<1> QED
  BY <1>2, <1>3

(* The process ends, the power is lost, files are damaged.                 *)
LEMMA MishapsKeep ==
  ASSUME WebIInv, WriteFails \/ End \/ LosePower \/ Spoil
  PROVE  WebIInv'
<1>1. WebTypes
  BY ZenonT(30) DEF WebIInv
<1>2. CASE WriteFails \/ End
  BY <1>1, <1>2, EndedKeeps, Zenon DEF WriteFails, End, WebTypes
<1>3. CASE LosePower
  <2>1. /\ cert' \in {cert, onDisk.cert} /\ key' \in {key, onDisk.key} /\ Ended
        /\ UNCHANGED <<now, addresses, served, serials>>
        /\ onDisk'.cert = cert' /\ onDisk'.key = key'
    BY <1>3 DEF LosePower
  <2>2. /\ cert' \in Certs /\ onDisk'.cert \in Certs
        /\ {cert'.serial, onDisk'.cert.serial, key', onDisk'.key} \subseteq 0..serials
    BY <1>1, <2>1, ZenonT(30) DEF WebTypes
  <2> QED
    BY <2>1, <2>2, EndedKeeps, ZenonT(30)
<1>4. CASE Spoil
  <2>1. /\ phase \in {"off", "serve"} /\ phase' = phase
        /\ cert' \in {cert, noCert} /\ key' \in {key, 0}
        /\ UNCHANGED <<now, addresses, conf, next, served, serials>>
        /\ onDisk'.cert = cert' /\ onDisk'.key = key'
    BY <1>4, SMTT(30) DEF Spoil
  <2>2. serials \in Nat /\ 0 \in 0..serials
    BY <1>1, WebNumbers, Zenon
  <2>3. WebTypes'
    BY <1>1, <2>1, <2>2, Nothings, Zenon DEF WebTypes
  <2> QED
    BY <2>1, <2>3, SMTT(30), Zenon, SMTT(60) DEF WebIInv
<1> QED
  BY <1>2, <1>3, <1>4

(* The rest of the host.                                                   *)
LEMMA HostKeepsWeb ==
  ASSUME WebStartAssumption, WebIInv, Sync \/ Renumber \/ Tick
  PROVE  WebIInv'
<1>1. WebTypes
  BY DEF WebIInv
<1>2. CASE Sync
  <2>1. /\ UNCHANGED <<now, addresses, phase, conf, cert, key, next, served, serials>>
        /\ onDisk'.cert = cert /\ onDisk'.key = key
    BY <1>2 DEF Sync
  <2>2. WebTypes'
    BY <1>1, <2>1, ZenonT(30) DEF WebTypes
  <2> QED
    BY <2>1, <2>2, Zenon DEF WebIInv, GoodFor
<1>3. CASE Renumber
  <2>1. addresses' \subseteq Addresses
    BY <1>3 DEF Renumber
  <2>2. WebTypes'
    BY <1>1, <1>3, <2>1, ZenonT(30) DEF Renumber, WebTypes
  <2> QED
    BY <1>3, <2>2, Zenon DEF Renumber, WebIInv
<1>4. CASE Tick
  <2>1. now' \in 0..MaxTime
    <3>1. now \in 0..MaxTime /\ now < MaxTime /\ now' = now + 1 /\ MaxTime \in Nat
      BY <1>1, <1>4, WebStartAssumption, Zenon DEF Tick, WebTypes, WebStartAssumption
    <3> QED
      BY <3>1
  <2>2. WebTypes'
    BY <1>1, <1>4, <2>1, Zenon DEF Tick, WebTypes
  <2> QED
    BY <1>4, <2>2, ZenonT(30) DEF Tick, WebIInv
<1> QED
  BY <1>2, <1>3, <1>4, SMTT(30), Zenon, SMTT(60)

(* Every step keeps it.                                                    *)
LEMMA WebKeeps ==
  ASSUME WebIInv, [WebNext]_webStartVars
  PROVE  WebIInv'
<1>1. CASE UNCHANGED webStartVars
  BY <1>1, Zenon DEF webStartVars, WebIInv, WebTypes, GoodFor
<1> QED
  BY <1>1, WebStartAssumption, StartKeeps, WritesKeep, ListenKeeps, MishapsKeep, HostKeepsWeb, Zenon
  DEF WebNext

(* A new pair is generated only when the one that was served is no longer  *)
(* there or no longer usable at the address.                               *)
LEMMA KeptWhileUsable ==
  ASSUME WebIInv, WebNext, phase = "off", phase' = "writeKey"
  PROVE  \/ served.cert.serial = 0
         \/ served.host # conf'.host \/ cert # served.cert \/ key # served.key
         \/ now + Window > served.cert.until
<1>1. Start
  BY Zenon DEF WebNext, WriteKey, WriteCert, WriteFails, Listen, End, Sync, LosePower, Spoil, Renumber,
     Tick, Ended
<1>2. PICK addr, mode, insecure : GoesOn(addr, mode, insecure)
  BY <1>1, StartIs, Zenon
<1>3. conf'.host = addr /\ ~usable(addr)
  BY <1>2, Zenon DEF GoesOn
<1>4. now \in Nat /\ served.cert.until \in Nat /\ Window \in Nat
  BY WebNumbers, Zenon DEF WebIInv
<1>5. served.cert.serial # 0 =>
        /\ served.cert.serial = served.key
        /\ concreteHost(served.host) \subseteq served.cert.sans
  BY Zenon DEF WebIInv
<1>6. SUFFICES ASSUME served.cert.serial # 0, served.host = conf'.host, cert = served.cert, key = served.key,
                      now + Window <= served.cert.until
               PROVE  FALSE
  BY <1>4
<1> QED
  BY <1>3, <1>5, <1>6, Zenon DEF usable

(* Whatever happens to files, power, addresses and time: what is served is *)
(* a pair of one generation that is good for the address, the listener     *)
(* never meets half a pair, plain HTTP beyond loopback is a choice, and a  *)
(* pair that can still be served is not replaced.                          *)
THEOREM ServedPairsAreGood == WebSpec => WebRules
<1>1. WebInit => WebIInv
  <2>1. WebInit => WebTypes
    BY WebStartAssumption, Nothings, SMTT(30) DEF WebInit, WebTypes, WebStartAssumption
  <2>2. WebInit => /\ conf.mode = "http" /\ conf.host = "loopback" /\ phase = "off"
                   /\ served.cert.serial = 0
    BY Nothings DEF WebInit
  <2> QED
    BY <2>1, <2>2, SMTT(30), Zenon, SMTT(60) DEF WebIInv
<1>2. WebIInv /\ [WebNext]_webStartVars => WebIInv'
  BY WebKeeps, Zenon
<1>3. WebIInv => WebTypeOK /\ ServedPairIsGood /\ PairIsLoadable /\ PlainOnlyByChoice
  <2>1. WebIInv => WebTypeOK
    BY Zenon DEF WebIInv, WebTypes, WebTypeOK, Confs
  <2>2. WebIInv => ServedPairIsGood
    BY Zenon DEF WebIInv, ServedPairIsGood
  <2>3. WebIInv => PairIsLoadable /\ PlainOnlyByChoice
    BY Zenon DEF WebIInv, PairIsLoadable, PlainOnlyByChoice, GoodFor, isLoopbackListen
  <2> QED
    BY <2>1, <2>2, <2>3
<1>4. WebIInv /\ [WebNext]_webStartVars
        => [phase = "off" /\ phase' = "writeKey" =>
              \/ served.cert.serial = 0
              \/ served.host # conf'.host \/ cert # served.cert \/ key # served.key
              \/ now + Window > served.cert.until]_webStartVars
  BY KeptWhileUsable, Zenon
<1> QED
  BY <1>1, <1>2, <1>3, <1>4, PTL DEF WebSpec, WebRules, CertificateIsKept
==============================================================================
