----------------------------- MODULE HostProofs ------------------------------
(***************************************************************************)
(* Three components that look at a host others change meanwhile.             *)
(*                                                                         *)
(* HostObjects: the checks of the managers, what they answer and how their *)
(* orders follow each other, for any number of calls on an object that     *)
(* others change as well.                                                  *)
(*                                                                         *)
(* StorageCollection: what a storage snapshot reports and how old it may   *)
(* be, for any number of calls, adapters and enrichers and any timeouts.   *)
(*                                                                         *)
(* Extensions: what is done to system extensions and what is said of them, *)
(* for any names, directories and time to live of the cache.               *)
(***************************************************************************)
EXTENDS HostObjects, StorageCollection, Extensions, FiniteSetTheorems, TLAPS

(* The places at which a call holds its lock.                              *)
Busy == {"look", "images", "act", "wait", "cancel"}

(* Every action of every engine.                                           *)
Ops == registerIncus \cup registerSnapshotActions \cup registerServices

CallRecords ==
  [pc : Busy \cup {"idle", "done"}, op : Ops \cup {"none"}, used : BOOLEAN, disturbed : BOOLEAN,
   answer : {"none", "ok", "refused", "error", "ended"}, uncancelled : BOOLEAN]

ObjectTypes ==
  /\ engine \in Engines
  /\ object \in Objects /\ (object.protected => engine = "services")
  /\ owner \in [Keys -> Requests \cup {NoOwner}]
  /\ req \in [Requests -> CallRecords]
  /\ engineWork \in [Requests -> {"none", "running", "done", "failed", "cancelled"}]

(* What a manager that sees the object as it is lets pass.                 *)
Fits(e, op, o) ==
  IF e = "services" THEN o.exists /\ (o.protected => op \notin {"stop", "disable"})
  ELSE CASE op = "create" -> ~o.exists
         [] op = "snapshot" -> o.exists /\ ~o.snap
         [] op = "deleteSnapshot" -> o.exists /\ o.snap
         [] op = "restore" -> o.exists /\ ~o.running /\ o.snap
         [] op \in {"remove", "start"} -> o.exists /\ ~o.running
         [] op = "removeImage" -> o.image /\ ~o.exists
         [] OTHER -> o.exists /\ o.running

(* The order is with the engine.                                           *)
Underway(r) == req[r].pc \in {"wait", "cancel"} /\ engineWork[r] = "running"

(* How far a call is and what its lock and its order are.                  *)
Place(r) ==
  /\ req[r].pc # "idle" /\ engine = "services" => req[r].op \in registerServices
  /\ req[r].pc \in Busy => owner[key(req[r].op)] = r
  /\ req[r].pc \in {"idle", "look", "images", "act"} => engineWork[r] = "none"
  /\ req[r].pc = "wait" => engineWork[r] # "none"
  /\ req[r].pc = "cancel" => req[r].op = "create"
  /\ engineWork[r] = "running" /\ object.protected => req[r].op \notin {"stop", "disable"}
  /\ req[r].pc = "act" /\ object.protected => req[r].op \notin {"stop", "disable"}

(* What a call has seen is still so, if nothing beyond its lock intervened.*)
Seen(r) ==
  ~req[r].disturbed =>
    /\ req[r].pc = "images" => req[r].op = "removeImage" /\ req[r].used = object.exists
    /\ req[r].pc = "act" \/ Underway(r) => Fits(engine, req[r].op, object)

ObjectIInv == ObjectTypes /\ (\A r \in Requests : Place(r) /\ Seen(r)) /\ AnswersAreTrue

(* An operation is serialized on the object that it is about.              *)
LEMMA EntityIsKey == \A o : Entity(o) = key(o) /\ key(o) \in Keys
  BY SMTT(30) DEF Entity, key, Keys

(* A manager lets an operation pass exactly if it fits the state it was    *)
(* shown, for each engine.                                                 *)
LEMMA AllowedFits ==
  ASSUME ObjectTypes, NEW op, engine = "services" => op \in registerServices
  PROVE  Allows(op, object, object.exists) <=> Fits(engine, op, object)
<1> USE DEF Allows, Fits, registerSnapshotActions
<1>1. CASE engine = "services"
  BY <1>1 DEF registerServices, validateUnit, resolveUnit
<1>2. CASE engine = "podman"
  BY <1>2 DEF podmanAllows, CreateInstance, snapshotAllows
<1>3. CASE engine = "docker"
  BY <1>3 DEF dockerAllows, CreateInstance, snapshotAllows
<1>4. CASE engine = "incus"
  BY <1>4 DEF incusAllows, CreateInstance, snapshotAllows
<1> QED
  BY <1>1, <1>2, <1>3, <1>4 DEF ObjectTypes, Engines

(* An engine does what a manager that saw the object as it is lets pass.   *)
LEMMA FittingIsCarried ==
  ASSUME ObjectTypes, NEW op \in Ops \cup {"none"}, engine = "services" => op \in registerServices,
         Fits(engine, op, object)
  PROVE  Carries(op, object)
  BY DEF ObjectTypes, Engines, Fits, Carries, registerServices, forced

(* No request stops or disables a protected unit.                          *)
LEMMA ProtectedIsSpared ==
  ASSUME ObjectTypes, NEW op \in registerServices, NEW used, Allows(op, object, used), object.protected
  PROVE  op \notin {"stop", "disable"}
  BY DEF ObjectTypes, Allows, validateUnit, registerServices, registerSnapshotActions

(* What an engine registers is known, and units have the actions of units. *)
LEMMA ActionsAreOps ==
  ASSUME ObjectTypes
  PROVE  Actions \subseteq Ops /\ (engine = "services" => Actions = registerServices)
  BY DEF ObjectTypes, Engines, Actions, Ops, registerPodman, registerDocker, registerIncus

(* An effect leaves an object, protected as before.                        *)
LEMMA EffectIsObject ==
  ASSUME NEW o \in Objects, NEW a
  PROVE  Effect(a, o) \in Objects /\ Effect(a, o).protected = o.protected
  BY Zenon DEF Objects, Effect

(* No call has begun.                                                      *)
LEMMA ObjectInitInv == Init => ObjectIInv
<1> SUFFICES ASSUME Init PROVE ObjectIInv
  OBVIOUS
<1>1. object \in Objects /\ (object.protected => engine = "services")
  BY DEF Init, Objects, Sound
<1>2. req \in [Requests -> CallRecords]
  BY DEF Init, CallRecords
<1>3. ObjectTypes
  BY <1>1, <1>2 DEF Init, ObjectTypes, Lock!Init
<1>4. \A r \in Requests : req[r].pc = "idle" /\ engineWork[r] = "none"
  BY DEF Init
<1> QED
  BY <1>3, <1>4 DEF ObjectIInv, Place, Seen, Underway, AnswersAreTrue, Busy

(* What a disturbance changes.                                             *)
LEMMA Disturbed ==
  ASSUME ObjectTypes, NEW S, Disturb(S)
  PROVE  /\ req' \in [Requests -> CallRecords]
         /\ \A q \in Requests :
              /\ req'[q].pc = req[q].pc /\ req'[q].op = req[q].op
              /\ req'[q].used = req[q].used /\ req'[q].answer = req[q].answer
              /\ req'[q].uncancelled = req[q].uncancelled
              /\ ~req'[q].disturbed => ~req[q].disturbed /\ q \notin S
<1>1. ASSUME NEW c \in CallRecords, NEW d \in BOOLEAN, NEW e, e = [c EXCEPT !.disturbed = d]
      PROVE  /\ e \in CallRecords /\ e.disturbed = d
             /\ e.pc = c.pc /\ e.op = c.op /\ e.used = c.used /\ e.answer = c.answer
             /\ e.uncancelled = c.uncancelled
  BY <1>1 DEF CallRecords
<1>2. ASSUME NEW q \in Requests
      PROVE  \E d \in BOOLEAN : /\ req'[q] = [req[q] EXCEPT !.disturbed = d]
                                /\ d = FALSE => ~req[q].disturbed /\ q \notin S
  <2>1. req'[q] = [req[q] EXCEPT !.disturbed = (req[q].disturbed \/ q \in S)]
    BY DEF Disturb
  <2> QED
    BY <2>1, Zenon
<1>3. \A q \in Requests : req[q] \in CallRecords
  BY DEF ObjectTypes
<1>4. ASSUME NEW q \in Requests
      PROVE  /\ req'[q] \in CallRecords
             /\ req'[q].pc = req[q].pc /\ req'[q].op = req[q].op
             /\ req'[q].used = req[q].used /\ req'[q].answer = req[q].answer
             /\ req'[q].uncancelled = req[q].uncancelled
             /\ ~req'[q].disturbed => ~req[q].disturbed /\ q \notin S
  <2>1. PICK d \in BOOLEAN : /\ req'[q] = [req[q] EXCEPT !.disturbed = d]
                             /\ d = FALSE => ~req[q].disturbed /\ q \notin S
    BY <1>2, Zenon
  <2>2. /\ req'[q] \in CallRecords /\ req'[q].disturbed = d
        /\ req'[q].pc = req[q].pc /\ req'[q].op = req[q].op
        /\ req'[q].used = req[q].used /\ req'[q].answer = req[q].answer
        /\ req'[q].uncancelled = req[q].uncancelled
    BY <1>1, <1>3, <2>1
  <2> QED
    BY <2>1, <2>2
<1> QED
  BY <1>4 DEF Disturb

(* What an answer changes.                                                 *)
LEMMA Answered ==
  ASSUME ObjectTypes, NEW r \in Requests, NEW b \in BOOLEAN,
         NEW a \in {"ok", "refused", "error", "ended"}, Answer(r, a, b)
  PROVE  /\ req' \in [Requests -> CallRecords] /\ owner' \in [Keys -> Requests \cup {NoOwner}]
         /\ \A q \in Requests \ {r} : req'[q] = req[q]
         /\ req'[r].pc = "done" /\ req'[r].op = req[r].op
         /\ req'[r].answer = a /\ req'[r].uncancelled = b
         /\ \A k \in Keys : owner[k] # r => owner'[k] = owner[k]
<1>1. req[r] \in CallRecords /\ key(req[r].op) \in Keys
  BY EntityIsKey DEF ObjectTypes
<1> DEFINE over == [req[r] EXCEPT !.pc = "done", !.answer = a, !.uncancelled = b,
                                   !.used = FALSE, !.disturbed = TRUE]
<1>2. req' = [req EXCEPT ![r] = over]
  BY DEF Answer
<1>3. over \in CallRecords
  BY <1>1, Zenon DEF CallRecords
<1>4. over.pc = "done" /\ over.op = req[r].op /\ over.answer = a /\ over.uncancelled = b
  BY <1>1 DEF CallRecords
<1> HIDE DEF over
<1>5. /\ owner' \in [Keys -> Requests \cup {NoOwner}]
      /\ \A k \in Keys : owner[k] # r => owner'[k] = owner[k]
  BY <1>1 DEF ObjectTypes, Answer, Lock!Give
<1> QED
  BY <1>2, <1>3, <1>4, <1>5, SMTT(30) DEF ObjectTypes

(* An answer that is true of the work keeps the invariant.                 *)
LEMMA AnswerInv ==
  ASSUME HostObjectsAssumption, ObjectIInv, NEW r \in Requests, req[r].pc \in Busy, NEW b \in BOOLEAN,
         NEW a \in {"ok", "refused", "error", "ended"}, Answer(r, a, b),
         UNCHANGED <<engine, object>>,
         engineWork' \in [Requests -> {"none", "running", "done", "failed", "cancelled"}],
         \A q \in Requests \ {r} : engineWork'[q] = engineWork[q],
         engineWork'[r] = "running" => engineWork[r] = "running",
         a = "ok" => engineWork'[r] = "done" \/ engine = "services",
         a = "refused" => engineWork'[r] = "none",
         a = "error" => engineWork'[r] \in {"none", "failed"},
         engineWork'[r] = "running" =>
           engine = "services" \/ (a = "ended" /\ (req[r].op = "create" => b))
  PROVE  ObjectIInv'
<1> USE Answered DEF ObjectIInv
<1>1. ObjectTypes'
  BY DEF ObjectTypes
<1>2. ASSUME NEW q \in Requests PROVE Place(q)'
  BY <1>2, EntityIsKey, SMTT(30) DEF ObjectTypes, Place, Busy
<1>3. ASSUME NEW q \in Requests PROVE Seen(q)'
  BY <1>3 DEF ObjectTypes, Seen, Underway
<1>4. AnswersAreTrue'
  BY DEF ObjectTypes, AnswersAreTrue
<1> QED
  BY <1>1, <1>2, <1>3, <1>4

(* A call that goes on under its lock.                                     *)
LEMMA AdvanceInv ==
  ASSUME HostObjectsAssumption, ObjectIInv, NEW r \in Requests, NEW c \in CallRecords,
         req' = [req EXCEPT ![r] = c], c.op = req[r].op,
         req[r].pc \in Busy, c.pc \in {"images", "act", "cancel"},
         c.pc \in {"images", "act"} => engineWork[r] = "none",
         c.pc = "images" => c.op = "removeImage" /\ (~c.disturbed => c.used = object.exists),
         c.pc = "cancel" => c.op = "create" /\ req[r].pc = "wait" /\ c.disturbed = req[r].disturbed,
         c.pc = "act" /\ object.protected => c.op \notin {"stop", "disable"},
         c.pc = "act" /\ ~c.disturbed => Fits(engine, c.op, object),
         UNCHANGED <<engine, object, owner, engineWork>>
  PROVE  ObjectIInv'
<1> USE DEF ObjectIInv
<1>0. req'[r] = c /\ \A q \in Requests \ {r} : req'[q] = req[q]
  BY DEF ObjectTypes
<1>1. ObjectTypes'
  BY DEF ObjectTypes
<1>2. ASSUME NEW q \in Requests PROVE Place(q)'
  BY <1>0, <1>2, EntityIsKey, SMTT(30) DEF ObjectTypes, Place, Busy
<1>3. ASSUME NEW q \in Requests PROVE Seen(q)'
  BY <1>0, <1>3 DEF ObjectTypes, Seen, Underway
<1>4. AnswersAreTrue'
  BY <1>0 DEF ObjectTypes, AnswersAreTrue
<1> QED
  BY <1>1, <1>2, <1>3, <1>4

(* The manager decides on what it has seen.                                *)
LEMMA DecideInv ==
  ASSUME HostObjectsAssumption, ObjectIInv, NEW r \in Requests, NEW used \in BOOLEAN,
         req[r].pc \in {"look", "images"},
         ~req[r].disturbed => used = object.exists,
         Decide(r, used), UNCHANGED <<engine, object, engineWork>>
  PROVE  ObjectIInv'
<1>1. /\ req[r] \in CallRecords /\ req[r].pc \in Busy /\ engineWork[r] = "none"
      /\ engine = "services" => req[r].op \in registerServices
      /\ object.protected => engine = "services"
  BY DEF ObjectIInv, ObjectTypes, Place, Busy
<1>2. CASE Allows(req[r].op, object, used)
  <2> DEFINE c == [req[r] EXCEPT !.pc = "act"]
  <2>1. c \in CallRecords /\ c.op = req[r].op /\ c.pc = "act" /\ c.disturbed = req[r].disturbed
    BY <1>1 DEF CallRecords, Busy
  <2>2. req' = [req EXCEPT ![r] = c] /\ UNCHANGED owner
    BY <1>2 DEF Decide
  <2>3. ~req[r].disturbed => Fits(engine, req[r].op, object)
    BY <1>1, <1>2, AllowedFits DEF ObjectIInv
  <2>4. object.protected => req[r].op \notin {"stop", "disable"}
    BY <1>1, <1>2, ProtectedIsSpared DEF ObjectIInv
  <2> HIDE DEF c
  <2> QED
    BY <1>1, <2>1, <2>2, <2>3, <2>4, AdvanceInv, Zenon
<1>3. CASE ~Allows(req[r].op, object, used)
  <2>1. Answer(r, "refused", FALSE)
    BY <1>3, Zenon DEF Decide
  <2> QED
    BY <1>1, <2>1, AnswerInv, Zenon DEF ObjectIInv, ObjectTypes
<1> QED
  BY <1>2, <1>3

(* A change of the object by work on another entity, by work whose call is *)
(* over or by another user of the engine disturbs whoever relies on it; by *)
(* work on the same entity under its lock it cannot meet another call.     *)
LEMMA CarryInv ==
  ASSUME HostObjectsAssumption, ObjectIInv, NEW r \in Requests, Carry(r)
  PROVE  ObjectIInv'
<1> DEFINE S == {q \in Requests \ {r} : \/ req[r].pc = "done"
                                        \/ Entity(req[q].op) # Entity(req[r].op)}
<1>1. /\ engineWork[r] = "running" /\ engineWork' = [engineWork EXCEPT ![r] = "done"]
      /\ object' = Effect(req[r].op, object)
      /\ Disturb(S) /\ engine' = engine /\ owner' = owner
  BY DEF Carry
<1>2. ObjectTypes
  BY DEF ObjectIInv
<1>3. /\ req' \in [Requests -> CallRecords]
      /\ \A q \in Requests :
           /\ req'[q].pc = req[q].pc /\ req'[q].op = req[q].op
           /\ req'[q].used = req[q].used /\ req'[q].answer = req[q].answer
           /\ req'[q].uncancelled = req[q].uncancelled
           /\ ~req'[q].disturbed => ~req[q].disturbed /\ q \notin S
  BY <1>1, <1>2, Disturbed
<1>4. object' \in Objects /\ object'.protected = object.protected
  BY <1>1, <1>2, EffectIsObject DEF ObjectTypes
<1>5. engineWork'[r] = "done" /\ \A q \in Requests \ {r} : engineWork'[q] = engineWork[q]
  BY <1>1, <1>2 DEF ObjectTypes
<1>6. ObjectTypes'
  BY <1>1, <1>2, <1>3, <1>4, SMTT(30), Zenon, SMTT(60) DEF ObjectTypes
<1>7. ASSUME NEW q \in Requests PROVE Place(q)'
  BY <1>1, <1>3, <1>4, <1>5, <1>7 DEF ObjectIInv, Place, Busy
<1>8. ASSUME NEW q \in Requests PROVE Seen(q)'
  <2>1. CASE q = r
    BY <1>1, <1>3, <1>5, <2>1 DEF ObjectIInv, ObjectTypes, Place, Seen, Underway
  <2>2. CASE q # r /\ req[q].pc \in {"images", "act", "wait", "cancel"}
    <3>1. SUFFICES ASSUME q \notin S PROVE FALSE
      BY <1>3, <2>2 DEF Seen, Underway
    <3>2. req[r].pc \in Busy /\ key(req[q].op) = key(req[r].op)
      BY <1>1, <2>2, <3>1, EntityIsKey DEF ObjectIInv, ObjectTypes, Place, Busy, CallRecords
    <3> QED
      BY <2>2, <3>2 DEF ObjectIInv, Place, Busy
  <2>3. CASE req[q].pc \notin {"images", "act", "wait", "cancel"}
    BY <1>3, <2>3 DEF Seen, Underway
  <2> QED
    BY <2>1, <2>2, <2>3
<1>9. AnswersAreTrue'
  BY <1>1, <1>3, <1>5 DEF ObjectIInv, AnswersAreTrue
<1> QED
  BY <1>6, <1>7, <1>8, <1>9 DEF ObjectIInv

(* Others change the object: a check made before no longer speaks of it.   *)
LEMMA OutsideInv ==
  ASSUME HostObjectsAssumption, ObjectIInv, Outside
  PROVE  ObjectIInv'
<1>1. /\ object' \in Objects /\ (object'.protected => engine = "services")
      /\ object'.protected = object.protected
      /\ UNCHANGED <<engine, owner, engineWork>> /\ Disturb(Requests)
  BY DEF Outside, Sound
<1>2. ObjectTypes
  BY DEF ObjectIInv
<1>3. /\ req' \in [Requests -> CallRecords]
      /\ \A q \in Requests :
           /\ req'[q].pc = req[q].pc /\ req'[q].op = req[q].op
           /\ req'[q].used = req[q].used /\ req'[q].answer = req[q].answer
           /\ req'[q].uncancelled = req[q].uncancelled
           /\ ~req'[q].disturbed => q \notin Requests
  BY <1>1, <1>2, Disturbed
<1>4. ObjectTypes'
  BY <1>1, <1>2, <1>3, SMTT(30), Zenon, SMTT(60) DEF ObjectTypes
<1>5. ASSUME NEW q \in Requests PROVE Place(q)' /\ Seen(q)'
  BY <1>1, <1>3, <1>5, SMTT(30) DEF ObjectIInv, Place, Seen
<1>6. AnswersAreTrue'
  BY <1>1, <1>3 DEF ObjectIInv, AnswersAreTrue
<1> QED
  BY <1>4, <1>5, <1>6 DEF ObjectIInv

(* Every other step of a call.                                             *)
LEMMA StepInv ==
  ASSUME HostObjectsAssumption, ObjectIInv, NEW r \in Requests, Step(r)
  PROVE  ObjectIInv'
<1>1. ASSUME NEW op \in Actions, Begin(r, op) PROVE ObjectIInv'
  <2>1. ObjectTypes'
    BY <1>1, EntityIsKey, ActionsAreOps, SMTT(30) DEF ObjectIInv, ObjectTypes, Begin, Lock!Take, CallRecords, Busy
  <2>2. ASSUME NEW q \in Requests PROVE Place(q)'
    BY <1>1, <2>2, EntityIsKey, ActionsAreOps, SMTT(30)
    DEF ObjectIInv, ObjectTypes, Place, Busy, Begin, Lock!Take, HostObjectsAssumption
  <2>3. ASSUME NEW q \in Requests PROVE Seen(q)'
    BY <1>1, <2>3 DEF ObjectIInv, ObjectTypes, Seen, Underway, Begin
  <2>4. AnswersAreTrue'
    BY <1>1 DEF ObjectIInv, ObjectTypes, AnswersAreTrue, Begin
  <2> QED
    BY <2>1, <2>2, <2>3, <2>4 DEF ObjectIInv
<1>2. CASE container(r)
  <2>1. CASE req[r].op = "removeImage" /\ engine # "podman"
    <3> DEFINE c == [req[r] EXCEPT !.pc = "images", !.used = object.exists]
    <3>1. req[r] \in CallRecords /\ object.exists \in BOOLEAN /\ engineWork[r] = "none" /\ req[r].pc \in Busy
      BY <1>2 DEF ObjectIInv, ObjectTypes, Place, Objects, container, Busy
    <3>2. c \in CallRecords /\ c.op = req[r].op /\ c.pc = "images" /\ c.used = object.exists
      BY <3>1, Zenon DEF CallRecords, Busy
    <3>3. req' = [req EXCEPT ![r] = c] /\ UNCHANGED <<engine, object, owner, engineWork>>
      BY <1>2, <2>1 DEF container
    <3> HIDE DEF c
    <3> QED
      BY <2>1, <3>1, <3>2, <3>3, AdvanceInv, Zenon
  <2>2. CASE ~(req[r].op = "removeImage" /\ engine # "podman")
    BY <1>2, <2>2, DecideInv, SMTT(30) DEF container, ObjectIInv, ObjectTypes, Objects
  <2> QED
    BY <2>1, <2>2
<1>3. CASE images(r)
  BY <1>3, DecideInv DEF images, ObjectIInv, ObjectTypes, CallRecords, Seen
<1>4. CASE LookFails(r)
  BY <1>4, AnswerInv, Zenon DEF LookFails, ObjectIInv, ObjectTypes, Place, Busy
<1>5. CASE Submit(r)
  <2>1. ObjectTypes'
    BY <1>5, SMTT(30) DEF ObjectIInv, ObjectTypes, Submit, CallRecords, Busy
  <2>2. ASSUME NEW q \in Requests PROVE Place(q)'
    BY <1>5, <2>2 DEF ObjectIInv, ObjectTypes, Place, Busy, Submit, Replaced
  <2>3. ASSUME NEW q \in Requests PROVE Seen(q)'
    BY <1>5, <2>3 DEF ObjectIInv, ObjectTypes, Seen, Underway, Submit, Replaced
  <2>4. AnswersAreTrue'
    BY <1>5 DEF ObjectIInv, ObjectTypes, AnswersAreTrue, Submit, Replaced
  <2> QED
    BY <2>1, <2>2, <2>3, <2>4 DEF ObjectIInv
<1>6. CASE SubmitFails(r)
  BY <1>6, AnswerInv, ZenonT(60) DEF SubmitFails, ObjectIInv, ObjectTypes, Place, Busy
<1>7. CASE Carry(r)
  BY <1>7, CarryInv, SMTT(30)
<1>8. CASE WorkFails(r)
  BY <1>8, SMTT(60) DEF WorkFails, ObjectIInv, ObjectTypes, Place, Seen, Underway, AnswersAreTrue
<1>9. CASE Reply(r)
  BY <1>9, AnswerInv, Zenon DEF Reply, ObjectIInv, ObjectTypes, Busy
<1>10. CASE WaitEnds(r)
  <2>1. CASE req[r].op = "create"
    <3> DEFINE c == [req[r] EXCEPT !.pc = "cancel"]
    <3>1. req[r] \in CallRecords /\ req[r].pc \in Busy /\ req[r].pc = "wait"
      BY <1>10 DEF ObjectIInv, ObjectTypes, WaitEnds, Busy
    <3>2. c \in CallRecords /\ c.op = req[r].op /\ c.pc = "cancel" /\ c.disturbed = req[r].disturbed
      BY <3>1 DEF CallRecords, Busy
    <3>3. req' = [req EXCEPT ![r] = c] /\ UNCHANGED <<engine, object, owner, engineWork>>
      BY <1>10, <2>1 DEF WaitEnds
    <3> HIDE DEF c
    <3> QED
      BY <2>1, <3>1, <3>2, <3>3, AdvanceInv, Zenon
  <2>2. CASE req[r].op # "create"
    BY <1>10, <2>2, AnswerInv, Zenon DEF WaitEnds, ObjectIInv, ObjectTypes, Busy
  <2> QED
    BY <2>1, <2>2
<1>11. CASE waitRemote(r)
  BY <1>11, AnswerInv, Zenon DEF waitRemote, ObjectIInv, ObjectTypes, Busy
<1> QED
  BY <1>1, <1>2, <1>3, <1>4, <1>5, <1>6, <1>7, <1>8, <1>9, <1>10, <1>11 DEF Step

(* Every step of a call, or of others, keeps ObjectIInv.                   *)
LEMMA ObjectNextInv ==
  ASSUME HostObjectsAssumption, ObjectIInv, [Next]_hostObjectsVars
  PROVE  ObjectIInv'
<1>1. CASE UNCHANGED hostObjectsVars
  BY <1>1 DEF hostObjectsVars, ObjectIInv, ObjectTypes, Place, Seen, Underway, AnswersAreTrue
<1> QED
  BY <1>1, OutsideInv, StepInv, SMTT(30) DEF Next

(* It holds throughout.                                                   *)
LEMMA ObjectInvariance == Spec => []ObjectIInv
<1>1. Init => ObjectIInv
  BY ObjectInitInv
<1>2. ObjectIInv /\ [Next]_hostObjectsVars => ObjectIInv'
  BY HostObjectsAssumption, ObjectNextInv
<1> QED
  BY <1>1, <1>2, PTL DEF Spec

(* What a manager checked still holds when the engine gets to it, unless   *)
(* something intervened that the action's lock cannot keep away.           *)
THEOREM ChecksStillHold == Spec => []ChecksHold
<1>1. ObjectIInv => ChecksHold
  <2> SUFFICES ASSUME ObjectIInv, NEW r \in Requests, ~req[r].disturbed,
                      req[r].pc = "act" \/ Underway(r)
               PROVE  Allows(req[r].op, object, object.exists) /\ Carries(req[r].op, object)
    BY DEF ChecksHold, Underway
  <2>1. req[r].op \in Ops \cup {"none"} /\ (engine = "services" => req[r].op \in registerServices)
    BY DEF ObjectIInv, ObjectTypes, CallRecords, Place, Underway
  <2>2. Fits(engine, req[r].op, object)
    BY DEF ObjectIInv, Seen
  <2> QED
    BY <2>1, <2>2, AllowedFits, FittingIsCarried, SMTT(30) DEF ObjectIInv
<1> QED
  BY <1>1, ObjectInvariance, PTL

(* What a call reports is what happened.                                   *)
THEOREM AnswersStayTrue == Spec => []AnswersAreTrue
  BY ObjectInvariance, PTL DEF ObjectIInv

(* The two together: managers, engines and answers agree.                  *)
THEOREM ObjectsStayAgreed == Spec => []ObjectsAgree
  BY ChecksStillHold, AnswersStayTrue, PTL DEF ObjectsAgree

(* The lock and the answers keep the orders for one resource apart, unless *)
(* a call gave up waiting.                                                 *)
THEOREM OrdersStaySerial == Spec => []OrdersAreSerial
<1>1. ASSUME ObjectIInv, NEW r \in Requests, NEW q \in Requests, r # q, engine # "services",
             engineWork[r] = "running", engineWork[q] = "running",
             Entity(req[r].op) = Entity(req[q].op)
      PROVE  \E left \in {r, q} :
               /\ req[left].pc = "done" /\ req[left].answer = "ended"
               /\ req[left].op = "create" => req[left].uncancelled
  <2>1. \A c \in {r, q} : req[c].pc = "done" \/ owner[key(req[c].op)] = c
    BY <1>1 DEF ObjectIInv, ObjectTypes, CallRecords, Place, Busy
  <2>2. PICK left \in {r, q} : req[left].pc = "done"
    BY <1>1, <2>1, EntityIsKey
  <2>3. /\ req[left].answer = "ended"
        /\ req[left].op = "create" => req[left].uncancelled
    BY <1>1, <2>2 DEF ObjectIInv, AnswersAreTrue
  <2> QED
    BY <2>2, <2>3
<1>2. ObjectIInv => OrdersAreSerial
  BY <1>1 DEF OrdersAreSerial
<1> QED
  BY <1>2, ObjectInvariance, PTL

-----------------------------------------------------------------------------
(* StorageCollection.                                                      *)

Entries == [at : Nat, seen : Nat, found : BOOLEAN]

Outcomes == [name : Names \cup {""}, err : {"", "timeout", "error"}, seen : Nat, marked : BOOLEAN]

Works == [at : {"none", "load", "run", "hung", "sent", "over"}, began : Nat, old : Entries,
          result : Outcomes]

StateRecords == [pc : {"idle", "core", "enrich", "done", "failed"}, began : Nat, ended : BOOLEAN,
                collected : Seq(Outcomes)]

CollectionTypes ==
  /\ now \in Nat
  /\ call \in [Calls -> StateRecords]
  /\ work \in [Calls -> [Names -> Works]]
  /\ cache \in Entries

NamesOf(results) == {results[i].name : i \in DOMAIN results}

(* A result as a call that began at b may report it.                       *)
SoundOutcome(o, b) ==
  /\ o.err = "" => o.seen + TTL + CollectTimeout > b
  /\ o.marked => o.err # ""

Distinct(results) == \A i, j \in DOMAIN results : results[i].name = results[j].name => i = j

(* The core adapters have answered, all of them with a result.             *)
CoreIsGood(results) ==
  /\ Cores \subseteq NamesOf(results)
  /\ \A i \in DOMAIN results : results[i].name \in Cores => results[i].err = ""

(* A call as it may be at time t.                                          *)
CallOK(k, t) ==
  /\ k.began <= t
  /\ Distinct(k.collected)
  /\ \A i \in DOMAIN k.collected : SoundOutcome(k.collected[i], k.began)
  /\ k.pc \in {"enrich", "done"} => CoreIsGood(k.collected)
  /\ k.pc = "done" => NamesOf(k.collected) = Names

(* A goroutine for backend n of a call that began at b, at time t.         *)
WorkOK(w, n, b, t) ==
  /\ w.at = "run" => b <= w.began /\ w.began <= t
  /\ w.at = "sent" => w.result.name = n /\ SoundOutcome(w.result, b)

(* An entry was stored within one collection of the look at the disk.      *)
EntryOK(e, t) ==
  e.found => e.seen <= e.at /\ e.at <= t /\ e.at < e.seen + CollectTimeout

CollectionIInv ==
  /\ CollectionTypes
  /\ EntryOK(cache, now)
  /\ \A c \in Calls : CallOK(call[c], now)
  /\ \A c \in Calls, n \in Names : WorkOK(work[c][n], n, call[c].began, now)

(* The first n numbers are n.                                              *)
LEMMA Interval ==
  ASSUME NEW n \in Nat
  PROVE  IsFiniteSet(1..n) /\ Cardinality(1..n) = n
<1>1. 1 \in Int /\ n \in Int
  OBVIOUS
<1>2. IsFiniteSet(1..n) /\ Cardinality(1..n) = IF 1 > n THEN 0 ELSE n - 1 + 1
  BY <1>1, FS_Interval, Zenon
<1> QED
  BY <1>2

(* The listing of a finite set has every element once.                     *)
LEMMA Listed ==
  ASSUME NEW S, IsFiniteSet(S), NEW f, f = ListingOf(S)
  PROVE  /\ f \in Seq(S) /\ {f[i] : i \in DOMAIN f} = S
         /\ \A i, j \in DOMAIN f : f[i] = f[j] => i = j
<1> DEFINE n == Cardinality(S)
<1>1. n \in Nat /\ ExistsBijection(1..n, S)
  BY FS_CardinalityType
<1>2. f \in Bijection(1..n, S)
  BY <1>1, Zenon DEF ExistsBijection, ListingOf
<1>3. f \in [1..n -> S] /\ IsInjective(f) /\ f \in Surjection(1..n, S)
  BY <1>2, Zenon DEF Bijection, Injection
<1>4. {f[i] : i \in DOMAIN f} = S
  BY <1>3 DEF Surjection
<1>5. f \in Seq(S)
  BY <1>1, <1>3
<1> QED
  BY <1>3, <1>4, <1>5 DEF IsInjective

(* Results with distinct names are as many as their names.                 *)
LEMMA Counted ==
  ASSUME NEW results \in Seq(Outcomes), Distinct(results)
  PROVE  Len(results) = Cardinality(NamesOf(results))
<1> DEFINE n == Len(results)
           f == [i \in 1..n |-> results[i].name]
<1>1. n \in Nat /\ DOMAIN results = 1..n
  OBVIOUS
<1>2. f \in Bijection(1..n, NamesOf(results))
  BY <1>1 DEF NamesOf, Distinct, Bijection, Injection, Surjection, IsInjective
<1>3. IsFiniteSet(1..n) /\ Cardinality(1..n) = n
  BY <1>1, Interval
<1> QED
  BY <1>2, <1>3, FS_Bijection DEF ExistsBijection

(* What holds of results with more of them behind.                         *)
Joins(results, more, both) ==
  /\ both \in Seq(Outcomes) /\ Distinct(both)
  /\ CoreIsGood(results) => CoreIsGood(both)
  /\ \A i \in DOMAIN both : \/ \E j \in DOMAIN results : both[i] = results[j]
                            \/ \E j \in DOMAIN more : both[i] = more[j]

(* Results of backends that had not answered are added.                    *)
LEMMA Added ==
  ASSUME NEW results \in Seq(Outcomes), NEW more \in Seq(Outcomes), NEW both,
         both = results \o more, Distinct(results), Distinct(more),
         NamesOf(results) \cap NamesOf(more) = {}
  PROVE  Joins(results, more, both)
<1> DEFINE m == Len(results)
           n == Len(more)
<1>1. /\ m \in Nat /\ n \in Nat /\ DOMAIN results = 1..m /\ DOMAIN more = 1..n
      /\ both \in Seq(Outcomes) /\ DOMAIN both = 1..(m + n)
      /\ \A i \in 1..m : both[i] = results[i]
      /\ \A i \in 1..n : both[m + i] = more[i]
  OBVIOUS
<1>2. \A i \in 1..(m + n) : i \in 1..m \/ (i - m \in 1..n /\ i = m + (i - m))
  BY <1>1
<1>3. \A i \in DOMAIN both :
        (i \in 1..m /\ both[i] = results[i]) \/ (i - m \in 1..n /\ both[i] = more[i - m])
  BY <1>1, <1>2
<1>4. Distinct(both)
  <2>1. SUFFICES ASSUME NEW i \in DOMAIN both, NEW j \in DOMAIN both, both[i].name = both[j].name
                 PROVE  i = j
    BY DEF Distinct
  <2>2. CASE i \in 1..m /\ j \in 1..m
    BY <1>1, <2>1, <2>2, SMTT(30) DEF Distinct
  <2>3. CASE i - m \in 1..n /\ j - m \in 1..n /\ both[i] = more[i - m] /\ both[j] = more[j - m]
    <3>1. i - m = j - m
      BY <1>1, <2>1, <2>3 DEF Distinct
    <3> QED
      BY <1>1, <3>1
  <2>4. CASE i \in 1..m /\ both[i] = results[i] /\ j - m \in 1..n /\ both[j] = more[j - m]
    <3>1. both[i].name \in NamesOf(results) /\ both[j].name \in NamesOf(more)
      BY <1>1, <2>4 DEF NamesOf
    <3> QED
      BY <2>1, <3>1
  <2>5. CASE j \in 1..m /\ both[j] = results[j] /\ i - m \in 1..n /\ both[i] = more[i - m]
    <3>1. both[j].name \in NamesOf(results) /\ both[i].name \in NamesOf(more)
      BY <1>1, <2>5 DEF NamesOf
    <3> QED
      BY <2>1, <3>1
  <2> QED
    BY <1>3, <2>2, <2>3, <2>4, <2>5
<1>5. NamesOf(both) = NamesOf(results) \cup NamesOf(more)
  <2>1. NamesOf(both) \subseteq NamesOf(results) \cup NamesOf(more)
    BY <1>1, <1>3 DEF NamesOf
  <2>2. NamesOf(results) \subseteq NamesOf(both)
    BY <1>1 DEF NamesOf
  <2>3. ASSUME NEW j \in 1..n PROVE more[j].name \in NamesOf(both)
    <3>1. m + j \in DOMAIN both
      BY <1>1
    <3> QED
      BY <1>1, <3>1, Zenon DEF NamesOf
  <2>4. NamesOf(more) \subseteq NamesOf(both)
    <3>1. ASSUME NEW x \in NamesOf(more) PROVE x \in NamesOf(both)
      <4>1. PICK j \in DOMAIN more : x = more[j].name
        BY DEF NamesOf
      <4> QED
        BY <1>1, <2>3, <4>1
    <3> QED
      BY <3>1
  <2> QED
    BY <2>1, <2>2, <2>4
<1>6. CoreIsGood(results) => CoreIsGood(both)
  <2> SUFFICES ASSUME CoreIsGood(results) PROVE CoreIsGood(both)
    OBVIOUS
  <2>1. ASSUME NEW i \in DOMAIN both, both[i].name \in Cores PROVE both[i].err = ""
    <3>1. CASE i \in 1..m /\ both[i] = results[i]
      BY <1>1, <2>1, <3>1, Zenon DEF CoreIsGood
    <3>2. CASE i - m \in 1..n /\ both[i] = more[i - m]
      <4>1. both[i].name \in NamesOf(more)
        BY <1>1, <3>2 DEF NamesOf
      <4> QED
        BY <2>1, <4>1, Zenon DEF CoreIsGood
    <3> QED
      BY <1>3, <3>1, <3>2, Zenon
  <2> QED
    BY <1>5, <2>1, Zenon DEF CoreIsGood
<1> QED
  BY <1>1, <1>3, <1>4, <1>6 DEF Joins

(* No call has begun, and the cache is empty.                              *)
LEMMA CollectionInitInv ==
  ASSUME CollectionAssumption, CollectionInit
  PROVE  CollectionIInv
<1>1. NoCall \in StateRecords /\ NoWork \in Works /\ Nothing \in Entries
  BY DEF NoCall, StateRecords, NoWork, Works, Nothing, Entries, TimedOut, Outcome, Outcomes
<1>2. CollectionTypes
  BY <1>1 DEF CollectionInit, CollectionTypes
<1>3. \A c \in Calls : /\ call[c].pc = "idle" /\ call[c].began = 0 /\ call[c].collected = <<>>
                       /\ \A n \in Names : work[c][n].at = "none"
  BY Zenon DEF CollectionInit, NoCall, NoWork
<1>4. \A c \in Calls : CallOK(call[c], now)
  BY <1>3 DEF CollectionInit, CallOK, Distinct
<1>5. \A c \in Calls, n \in Names : WorkOK(work[c][n], n, call[c].began, now)
  BY <1>3 DEF WorkOK
<1> QED
  BY <1>2, <1>4, <1>5, SMTT(30) DEF CollectionInit, CollectionIInv, EntryOK, Nothing

(* One goroutine goes on, and may store its result.                        *)
LEMMA WorkStep ==
  ASSUME CollectionIInv, NEW c \in Calls, NEW n \in Names, NEW w \in Works,
         work' = [work EXCEPT ![c][n] = w], WorkOK(w, n, call[c].began, now),
         cache' \in Entries, EntryOK(cache', now), UNCHANGED <<now, call>>
  PROVE  CollectionIInv'
<1>1. /\ work'[c][n] = w
      /\ \A d \in Calls, m \in Names : d # c \/ m # n => work'[d][m] = work[d][m]
  BY DEF CollectionIInv, CollectionTypes
<1>2. work' \in [Calls -> [Names -> Works]]
  BY DEF CollectionIInv, CollectionTypes
<1>3. \A d \in Calls, m \in Names : WorkOK(work'[d][m], m, call[d].began, now)
  BY <1>1 DEF CollectionIInv
<1> QED
  BY <1>2, <1>3 DEF CollectionIInv, CollectionTypes

(* One call goes on, and may start or drop goroutines.                     *)
LEMMA CallStep ==
  ASSUME CollectionIInv, NEW c \in Calls, NEW k \in StateRecords, NEW ws \in [Names -> Works],
         call' = [call EXCEPT ![c] = k], work' = [work EXCEPT ![c] = ws],
         CallOK(k, now), \A n \in Names : WorkOK(ws[n], n, k.began, now),
         UNCHANGED <<now, cache>>
  PROVE  CollectionIInv'
<1>1. /\ call'[c] = k /\ work'[c] = ws
      /\ \A d \in Calls \ {c} : call'[d] = call[d] /\ work'[d] = work[d]
  BY DEF CollectionIInv, CollectionTypes
<1>2. call' \in [Calls -> StateRecords] /\ work' \in [Calls -> [Names -> Works]]
  BY DEF CollectionIInv, CollectionTypes
<1>3. \A d \in Calls : CallOK(call'[d], now)
  BY <1>1 DEF CollectionIInv
<1>4. \A d \in Calls, n \in Names : WorkOK(work'[d][n], n, call'[d].began, now)
  BY <1>1 DEF CollectionIInv
<1> QED
  BY <1>2, <1>3, <1>4 DEF CollectionIInv, CollectionTypes

(* Time passes only while every collection that is not hung is within its  *)
(* timeouts.                                                               *)
LEMMA TickInv ==
  ASSUME CollectionIInv, Tick
  PROVE  CollectionIInv'
<1>1. now \in Nat /\ now' = now + 1 /\ UNCHANGED <<call, work, cache>>
  BY DEF Tick, CollectionIInv, CollectionTypes
<1>2. EntryOK(cache, now')
  BY <1>1 DEF CollectionIInv, CollectionTypes, Entries, EntryOK
<1>3. \A c \in Calls : CallOK(call[c], now')
  BY <1>1, SMTT(30) DEF CollectionIInv, CollectionTypes, StateRecords, CallOK
<1>4. ASSUME NEW c \in Calls, NEW n \in Names
      PROVE  WorkOK(work[c][n], n, call[c].began, now')
  <2>1. work[c][n].began \in Nat /\ WorkOK(work[c][n], n, call[c].began, now)
    BY DEF CollectionIInv, CollectionTypes, Works
  <2> QED
    BY <1>1, <2>1 DEF WorkOK
<1> QED
  BY <1>1, <1>2, <1>3, <1>4, SMTT(30) DEF CollectionIInv, CollectionTypes

(* A fresh entry is as old as its lifetime and one collection; an old one  *)
(* is kept for the mark.                                                   *)
LEMMA LoadInv ==
  ASSUME CollectionAssumption, CollectionIInv, NEW c \in Calls, NEW n \in Names, Load(c, n)
  PROVE  CollectionIInv'
<1> DEFINE w == work[c][n]
           e == IF n \in Cached THEN cache ELSE Nothing
           served == [w EXCEPT !.at = "sent", !.result = Outcome(n, "", cache.seen, FALSE)]
           started == [w EXCEPT !.at = "run", !.began = now, !.old = e]
<1>1. /\ w \in Works /\ cache \in Entries /\ now \in Nat /\ call[c].began \in Nat
      /\ call[c].began <= now /\ EntryOK(cache, now) /\ UNCHANGED <<now, call, cache>>
  BY DEF CollectionIInv, CollectionTypes, StateRecords, CallOK, Load
<1>2. CASE n \in Cached /\ fresh
  <2>1. work' = [work EXCEPT ![c][n] = served]
    BY <1>2, SMTT(30) DEF Load
  <2>2. Outcome(n, "", cache.seen, FALSE) \in Outcomes
    BY <1>1, Zenon DEF Outcome, Outcomes, Entries
  <2>3. cache.seen + TTL + CollectTimeout > call[c].began
    BY <1>1, <1>2 DEF CollectionAssumption, fresh, EntryOK, Entries
  <2>4. served \in Works /\ WorkOK(served, n, call[c].began, now)
    BY <1>1, <2>2, <2>3, Zenon DEF Works, WorkOK, SoundOutcome, Outcome
  <2> HIDE DEF served
  <2> QED
    BY <1>1, <2>1, <2>4, WorkStep, Zenon
<1>3. CASE ~(n \in Cached /\ fresh)
  <2>1. work' = [work EXCEPT ![c][n] = started]
    BY <1>3, Zenon DEF Load
  <2>2. e \in Entries
    BY <1>1 DEF Nothing, Entries
  <2> HIDE DEF e
  <2>3. started \in Works /\ started.at = "run" /\ started.began = now
    BY <1>1, <2>2, Zenon DEF Works
  <2> HIDE DEF started
  <2>4. WorkOK(started, n, call[c].began, now)
    BY <1>1, <2>3 DEF WorkOK
  <2> QED
    BY <1>1, <2>1, <2>3, <2>4, WorkStep, Zenon
<1> QED
  BY <1>2, <1>3

(* A collection that returned in time is stored with the time at which it  *)
(* began.                                                                  *)
LEMMA CollectedInv ==
  ASSUME CollectionAssumption, CollectionIInv, NEW c \in Calls, NEW n \in Names, Collected(c, n)
  PROVE  CollectionIInv'
<1> DEFINE w == work[c][n]
           o == Outcome(n, "", w.began, FALSE)
           v == [w EXCEPT !.at = "sent", !.result = o]
<1>1. /\ w \in Works /\ w.at = "run" /\ now \in Nat /\ call[c].began \in Nat
      /\ call[c].began <= w.began /\ w.began <= now /\ now < w.began + CollectTimeout
      /\ UNCHANGED <<now, call>>
  <2>1. /\ w \in Works /\ w.at = "run" /\ ~Expired(w) /\ UNCHANGED <<now, call>>
        /\ WorkOK(w, n, call[c].began, now)
    BY Zenon DEF CollectionIInv, CollectionTypes, Collected
  <2>2. now \in Nat /\ call[c].began \in Nat /\ w.began \in Nat
    BY <2>1 DEF CollectionIInv, CollectionTypes, StateRecords, Works
  <2> HIDE DEF w
  <2> QED
    BY <2>1, <2>2 DEF WorkOK, Expired, CollectionAssumption
<1>2. work' = [work EXCEPT ![c][n] = v]
  BY Zenon DEF Collected, CollectionIInv, CollectionTypes
<1>3. o \in Outcomes /\ o.name = n /\ SoundOutcome(o, call[c].began)
  <2>1. w.began \in Nat
    BY <1>1 DEF Works
  <2>2. \A b, x, t \in Nat :
          b <= x /\ x <= t /\ t < x + CollectTimeout => x + TTL + CollectTimeout > b
    BY DEF CollectionAssumption
  <2>3. w.began + TTL + CollectTimeout > call[c].began
    BY <1>1, <2>1, <2>2
  <2> QED
    BY <2>1, <2>3, Zenon DEF Outcome, Outcomes, SoundOutcome
<1> HIDE DEF o
<1>4. v \in Works /\ v.at = "sent" /\ v.result = o
  BY <1>1, <1>3, Zenon DEF Works
<1> HIDE DEF v
<1>5. WorkOK(v, n, call[c].began, now)
  BY <1>3, <1>4 DEF WorkOK
<1>6. cache' \in Entries /\ EntryOK(cache', now)
  <2>1. CASE n \in Cached
    <3>1. cache' = [at |-> now, seen |-> w.began, found |-> TRUE]
      BY <2>1, Zenon DEF Collected, Store
    <3> QED
      BY <1>1, <3>1 DEF Works, Entries, EntryOK
  <2>2. CASE n \notin Cached
    BY <2>2, Zenon DEF Collected, CollectionIInv, CollectionTypes
  <2> QED
    BY <2>1, <2>2
<1> QED
  BY <1>1, <1>2, <1>4, <1>5, <1>6, WorkStep, Zenon

(* A failure sends the old entry, marked, or nothing; the cache stays.     *)
LEMMA CollectFailsInv ==
  ASSUME CollectionAssumption, CollectionIInv, NEW c \in Calls, NEW n \in Names, CollectFails(c, n)
  PROVE  CollectionIInv'
<1> DEFINE w == work[c][n]
           o == failedOutcome(n, w)
           v == [w EXCEPT !.at = "sent", !.result = o]
<1>1. w \in Works /\ cache \in Entries /\ EntryOK(cache, now) /\ UNCHANGED <<now, call, cache>>
  BY DEF CollectionIInv, CollectionTypes, CollectFails
<1>2. work' = [work EXCEPT ![c][n] = v]
  BY Zenon DEF CollectFails, CollectionIInv, CollectionTypes
<1>3. o \in Outcomes /\ o.name = n /\ o.err # ""
  BY <1>1, Zenon DEF failedOutcome, Outcome, Outcomes, Works, Entries
<1> HIDE DEF o
<1>4. v \in Works /\ v.at = "sent" /\ v.result = o
  BY <1>1, <1>3, Zenon DEF Works
<1> HIDE DEF v
<1>5. WorkOK(v, n, call[c].began, now)
  BY <1>3, <1>4, Zenon DEF WorkOK, SoundOutcome
<1> QED
  BY <1>1, <1>2, <1>4, <1>5, WorkStep, Zenon

(* A hung process changes nothing that is reported.                        *)
LEMMA HangInv ==
  ASSUME CollectionIInv, NEW c \in Calls, NEW n \in Names, Hang(c, n)
  PROVE  CollectionIInv'
<1> DEFINE v == [work[c][n] EXCEPT !.at = "hung"]
<1>1. /\ work[c][n] \in Works /\ cache \in Entries /\ EntryOK(cache, now)
      /\ UNCHANGED <<now, call, cache>>
  BY DEF CollectionIInv, CollectionTypes, Hang
<1>2. work' = [work EXCEPT ![c][n] = v]
  BY DEF Hang, CollectionIInv, CollectionTypes
<1>3. v \in Works /\ v.at = "hung"
  BY <1>1 DEF Works
<1> HIDE DEF v
<1>4. WorkOK(v, n, call[c].began, now)
  BY <1>3, SMTT(30) DEF WorkOK
<1> QED
  BY <1>1, <1>2, <1>3, <1>4, WorkStep, Zenon

(* NoWork is a goroutine that has nothing to report.                       *)
LEMMA Idle ==
  /\ NoCall \in StateRecords /\ NoCall.pc = "idle" /\ NoCall.began = 0 /\ NoCall.collected = <<>>
  /\ NoWork \in Works /\ NoWork.at = "none"
  BY DEF NoCall, StateRecords, NoWork, Works, Nothing, Entries, TimedOut, Outcome, Outcomes

(* A call begins with its core adapters.                                   *)
LEMMA BeginInv ==
  ASSUME CollectionIInv, NEW c \in Calls, StateBegins(c)
  PROVE  CollectionIInv'
<1> DEFINE k == [NoCall EXCEPT !.pc = "core", !.began = now]
           run == [NoWork EXCEPT !.at = "run", !.began = now]
           ws == [n \in Names |-> IF n \in Cores THEN run ELSE NoWork]
<1>1. now \in Nat /\ UNCHANGED <<now, cache>>
  BY DEF CollectionIInv, CollectionTypes, StateBegins
<1>2. call' = [call EXCEPT ![c] = k] /\ work' = [work EXCEPT ![c] = ws]
  BY DEF StateBegins
<1>3. k \in StateRecords /\ k.pc = "core" /\ k.began = now /\ k.collected = <<>>
  BY <1>1, Idle, Zenon DEF StateRecords
<1>4. run \in Works /\ run.at = "run" /\ run.began = now
  BY <1>1, Idle, Zenon DEF Works
<1> HIDE DEF k, run
<1>5. CallOK(k, now)
  BY <1>1, <1>3, SMTT(30) DEF CallOK, Distinct
<1>6. ws \in [Names -> Works] /\ \A n \in Names : WorkOK(ws[n], n, k.began, now)
  BY <1>1, <1>3, <1>4, Idle DEF WorkOK
<1> HIDE DEF ws
<1> QED
  BY <1>1, <1>2, <1>3, <1>5, <1>6, CallStep, Zenon

(* A call that is over is forgotten.                                       *)
LEMMA AgainInv ==
  ASSUME CollectionIInv, NEW c \in Calls, Again(c)
  PROVE  CollectionIInv'
<1> DEFINE ws == [n \in Names |-> NoWork]
<1>1. now \in Nat /\ UNCHANGED <<now, cache>>
  BY DEF CollectionIInv, CollectionTypes, Again
<1>2. call' = [call EXCEPT ![c] = NoCall] /\ work' = [work EXCEPT ![c] = ws]
  BY DEF Again
<1>3. CallOK(NoCall, now)
  BY <1>1, Idle, SMTT(30) DEF CallOK, Distinct
<1>4. ws \in [Names -> Works] /\ \A n \in Names : WorkOK(ws[n], n, NoCall.began, now)
  BY Idle DEF WorkOK
<1> HIDE DEF ws
<1> QED
  BY <1>1, <1>2, <1>3, <1>4, Idle, CallStep, Zenon

(* A result is received once, under a name not received before.            *)
LEMMA ReceiveInv ==
  ASSUME CollectionAssumption, CollectionIInv, NEW c \in Calls, NEW n \in Names, Receive(c, n)
  PROVE  CollectionIInv'
<1> DEFINE o == work[c][n].result
           old == call[c].collected
           both == Append(old, o)
           k == [call[c] EXCEPT !.collected = both]
           over == [NoWork EXCEPT !.at = "over"]
           ws == [work[c] EXCEPT ![n] = over]
<1>1. /\ call[c] \in StateRecords /\ CallOK(call[c], now) /\ call[c].pc \in {"core", "enrich"}
      /\ work[c] \in [Names -> Works] /\ work[c][n].at = "sent"
      /\ n \notin NamesOf(old) /\ UNCHANGED <<now, cache>>
  BY SMTT(30) DEF CollectionIInv, CollectionTypes, Receive, Received, NamesOf
<1>2. o \in Outcomes /\ o.name = n /\ SoundOutcome(o, call[c].began) /\ old \in Seq(Outcomes)
  BY <1>1 DEF CollectionIInv, WorkOK, Works, StateRecords
<1>3. call' = [call EXCEPT ![c] = k] /\ work' = [work EXCEPT ![c] = ws]
  BY DEF Receive, CollectionIInv, CollectionTypes
<1> HIDE DEF o, old
<1>4. /\ <<o>> \in Seq(Outcomes) /\ DOMAIN <<o>> = {1} /\ <<o>>[1] = o
      /\ both = old \o <<o>>
  BY <1>2, SMTT(30)
<1> HIDE DEF both
<1>5. NamesOf(<<o>>) = {n} /\ Distinct(<<o>>)
  BY <1>2, <1>4, SMTT(30), Zenon, SMTT(60) DEF NamesOf, Distinct
<1>6. Distinct(old) /\ \A i \in DOMAIN old : SoundOutcome(old[i], call[c].began)
  BY <1>1 DEF CallOK, old
<1>7. Joins(old, <<o>>, both)
  <2>1. NamesOf(old) \cap NamesOf(<<o>>) = {}
    BY <1>1, <1>5
  <2> QED
    BY <1>2, <1>4, <1>5, <1>6, <2>1, Added, Zenon
<1>8. \A i \in DOMAIN both : SoundOutcome(both[i], call[c].began)
  BY <1>2, <1>4, <1>6, <1>7 DEF Joins
<1>9. /\ k \in StateRecords /\ k.began = call[c].began /\ k.pc = call[c].pc
      /\ k.collected = both
  BY <1>1, <1>7, SMTT(30) DEF StateRecords, Joins
<1> HIDE DEF k
<1>10. CallOK(k, now)
  BY <1>1, <1>7, <1>8, <1>9, Zenon DEF CallOK, Joins, old
<1>11. over \in Works /\ over.at = "over"
  BY Idle, SMTT(30) DEF Works
<1> HIDE DEF over
<1>12. ws \in [Names -> Works] /\ \A m \in Names : WorkOK(ws[m], m, k.began, now)
  BY <1>1, <1>9, <1>11, Zenon DEF CollectionIInv, WorkOK
<1> HIDE DEF ws
<1> QED
  BY <1>1, <1>3, <1>9, <1>10, <1>12, CallStep, Zenon

(* At the deadline each missing name is reported once, as timed out.       *)
LEMMA ExpireInv ==
  ASSUME CollectionAssumption, CollectionIInv, NEW c \in Calls, Expire(c)
  PROVE  CollectionIInv'
<1> DEFINE late == ListingOf(missing(c))
           more == [i \in DOMAIN late |-> TimedOut(late[i])]
           old == call[c].collected
           both == old \o more
           k == [call[c] EXCEPT !.collected = both]
<1>1. /\ call[c] \in StateRecords /\ CallOK(call[c], now) /\ call[c].pc \in {"core", "enrich"}
      /\ work[c] \in [Names -> Works] /\ UNCHANGED <<now, cache>>
  BY DEF CollectionIInv, CollectionTypes, Expire
<1>2. call' = [call EXCEPT ![c] = k] /\ work' = [work EXCEPT ![c] = work[c]]
  BY DEF Expire, CollectionIInv, CollectionTypes
<1>3. missing(c) \subseteq Names /\ missing(c) \cap NamesOf(old) = {} /\ IsFiniteSet(missing(c))
  <2>1. missing(c) \subseteq Names /\ missing(c) \cap NamesOf(old) = {}
    BY DEF missing, Expected, Names, Received, NamesOf
  <2> QED
    BY <2>1, FS_Subset DEF CollectionAssumption
<1>4. /\ late \in Seq(missing(c)) /\ {late[i] : i \in DOMAIN late} = missing(c)
      /\ \A i, j \in DOMAIN late : late[i] = late[j] => i = j
  BY <1>3, Listed, Zenon
<1> HIDE DEF late
<1>5. ASSUME NEW m \in Names
      PROVE  /\ TimedOut(m) \in Outcomes /\ TimedOut(m).name = m
             /\ SoundOutcome(TimedOut(m), call[c].began)
  BY Zenon DEF TimedOut, Outcome, Outcomes, SoundOutcome
<1>6. /\ more \in Seq(Outcomes) /\ DOMAIN more = DOMAIN late
      /\ \A i \in DOMAIN more : more[i] = TimedOut(late[i]) /\ late[i] \in missing(c)
  BY <1>3, <1>4, <1>5, SMTT(30)
<1> HIDE DEF more
<1>7. NamesOf(more) \subseteq missing(c) /\ Distinct(more)
  <2>1. \A i \in DOMAIN more : more[i].name = late[i] /\ late[i] \in missing(c)
    BY <1>3, <1>5, <1>6, Zenon
  <2> QED
    BY <1>4, <1>6, <2>1, Zenon DEF NamesOf, Distinct
<1>8. old \in Seq(Outcomes) /\ Distinct(old) /\ \A i \in DOMAIN old : SoundOutcome(old[i], call[c].began)
  BY <1>1, SMTT(30) DEF StateRecords, CallOK
<1>9. \A i \in DOMAIN more : SoundOutcome(more[i], call[c].began)
  BY <1>3, <1>5, <1>6, SMTT(30), Zenon, SMTT(60)
<1>10. (call[c].pc = "enrich" => CoreIsGood(old)) /\ NamesOf(old) \cap NamesOf(more) = {}
  BY <1>1, <1>3, <1>7 DEF CallOK
<1>0. both = old \o more
  OBVIOUS
<1> HIDE DEF old, both
<1>11. Joins(old, more, both)
  BY <1>0, <1>6, <1>7, <1>8, <1>10, Added, Zenon
<1>12. \A i \in DOMAIN both : SoundOutcome(both[i], call[c].began)
  BY <1>8, <1>9, <1>11 DEF Joins
<1>13. /\ k \in StateRecords /\ k.began = call[c].began /\ k.pc = call[c].pc
       /\ k.collected = both
  BY <1>1, <1>11, SMTT(30) DEF StateRecords, Joins
<1> HIDE DEF k
<1>14. CallOK(k, now)
  BY <1>1, <1>10, <1>11, <1>12, <1>13, Zenon DEF CallOK, Joins
<1>15. \A m \in Names : WorkOK(work[c][m], m, k.began, now)
  BY <1>13, Zenon DEF CollectionIInv
<1> QED
  BY <1>1, <1>2, <1>13, <1>14, <1>15, CallStep, Zenon

(* The enrichers start only after a core without errors.                   *)
LEMMA EnrichInv ==
  ASSUME CollectionIInv, NEW c \in Calls, StartEnrichers(c)
  PROVE  CollectionIInv'
<1>1. /\ call[c] \in StateRecords /\ CallOK(call[c], now) /\ call[c].pc = "core"
      /\ NamesOf(call[c].collected) = Cores
      /\ work[c] \in [Names -> Works] /\ UNCHANGED <<now, cache>>
  BY Zenon DEF CollectionIInv, CollectionTypes, StartEnrichers, Received, NamesOf
<1>2. CASE \E i \in DOMAIN call[c].collected : call[c].collected[i].err # ""
  <2> DEFINE k == [call[c] EXCEPT !.pc = "failed", !.ended = TRUE]
  <2>1. call' = [call EXCEPT ![c] = k] /\ work' = [work EXCEPT ![c] = work[c]]
    BY <1>2, Zenon DEF StartEnrichers, CollectionIInv, CollectionTypes
  <2>2. /\ k \in StateRecords /\ k.began = call[c].began /\ k.pc = "failed"
        /\ k.collected = call[c].collected
    BY <1>1, ZenonT(30) DEF StateRecords
  <2> HIDE DEF k
  <2>3. CallOK(k, now) /\ \A m \in Names : WorkOK(work[c][m], m, k.began, now)
    BY <1>1, <2>2, Zenon DEF CallOK, CollectionIInv
  <2> QED
    BY <1>1, <2>1, <2>2, <2>3, CallStep, Zenon
<1>3. CASE ~\E i \in DOMAIN call[c].collected : call[c].collected[i].err # ""
  <2> DEFINE k == [call[c] EXCEPT !.pc = "enrich"]
             load == [NoWork EXCEPT !.at = "load"]
             ws == [n \in Names |-> IF n \in Optional THEN load ELSE work[c][n]]
  <2>1. call' = [call EXCEPT ![c] = k] /\ work' = [work EXCEPT ![c] = ws]
    BY <1>3, Zenon DEF StartEnrichers, CollectionIInv, CollectionTypes
  <2>2. /\ k \in StateRecords /\ k.began = call[c].began /\ k.pc = "enrich"
        /\ k.collected = call[c].collected
    BY <1>1 DEF StateRecords
  <2>3. load \in Works /\ load.at = "load"
    BY Idle, SMTT(30) DEF Works
  <2> HIDE DEF k, load
  <2>4. CallOK(k, now)
    BY <1>1, <1>3, <2>2, ZenonT(30) DEF CallOK, CoreIsGood
  <2>5. ws \in [Names -> Works] /\ \A m \in Names : WorkOK(ws[m], m, k.began, now)
    BY <1>1, <2>2, <2>3, Zenon DEF CollectionIInv, WorkOK
  <2> HIDE DEF ws
  <2> QED
    BY <1>1, <2>1, <2>2, <2>4, <2>5, CallStep, Zenon
<1> QED
  BY <1>2, <1>3, Zenon

(* Return and Leave end the call's context.                                *)
LEMMA EndInv ==
  ASSUME CollectionIInv, NEW c \in Calls, Return(c) \/ Leave(c)
  PROVE  CollectionIInv'
<1>1. PICK pc \in {"core", "enrich", "done"} :
        /\ call' = [call EXCEPT ![c] = [call[c] EXCEPT !.pc = pc, !.ended = TRUE]]
        /\ pc = "done" => call[c].pc = "enrich" /\ NamesOf(call[c].collected) = Names
        /\ pc # "done" => call[c].pc = pc
  <2>1. CASE Return(c)
    BY <2>1, Zenon DEF Return, Received, NamesOf, CollectionIInv, CollectionTypes
  <2>2. CASE Leave(c)
    <3>1. call[c] \in StateRecords /\ call[c].pc \in {"core", "enrich"}
      BY <2>2 DEF Leave, CollectionIInv, CollectionTypes
    <3>2. [call[c] EXCEPT !.pc = call[c].pc, !.ended = TRUE] = [call[c] EXCEPT !.ended = TRUE]
      BY <3>1, Zenon DEF StateRecords
    <3> QED
      BY <2>2, <3>1, <3>2, Zenon DEF Leave, CollectionIInv, CollectionTypes
  <2> QED
    BY <2>1, <2>2
<1> DEFINE k == [call[c] EXCEPT !.pc = pc, !.ended = TRUE]
<1>2. /\ call[c] \in StateRecords /\ CallOK(call[c], now) /\ work[c] \in [Names -> Works]
      /\ UNCHANGED <<now, cache>> /\ work' = [work EXCEPT ![c] = work[c]]
  BY DEF CollectionIInv, CollectionTypes, Return, Leave
<1>3. /\ k \in StateRecords /\ k.began = call[c].began /\ k.pc = pc
      /\ k.collected = call[c].collected
  BY <1>2, Zenon DEF StateRecords
<1> HIDE DEF k
<1>4. CallOK(k, now) /\ \A m \in Names : WorkOK(work[c][m], m, k.began, now)
  BY <1>1, <1>2, <1>3, SMTT(30) DEF CallOK, CollectionIInv
<1> QED
  BY <1>1, <1>2, <1>3, <1>4, CallStep, Zenon DEF k

(* Every step keeps it.                                                   *)
LEMMA CollectionNextInv ==
  ASSUME CollectionAssumption, CollectionIInv, [CollectionNext]_collectionVars
  PROVE  CollectionIInv'
<1>1. CASE UNCHANGED collectionVars
  BY <1>1 DEF collectionVars, CollectionIInv, CollectionTypes
<1> QED
  BY <1>1, TickInv, BeginInv, ExpireInv, EnrichInv, EndInv, AgainInv, LoadInv, CollectedInv,
     CollectFailsInv, HangInv, ReceiveInv, SMTT(30), Zenon, SMTT(60)
  DEF CollectionNext

(* It holds throughout.                                                   *)
LEMMA CollectionInvariance == CollectionSpec => []CollectionIInv
<1>1. CollectionInit => CollectionIInv
  BY CollectionAssumption, CollectionInitInv
<1>2. CollectionIInv /\ [CollectionNext]_collectionVars => CollectionIInv'
  BY CollectionAssumption, CollectionNextInv, SMTT(30)
<1> QED
  BY <1>1, <1>2, PTL DEF CollectionSpec

(* Health that is shown without the stale mark was read from the disk less *)
(* than the cache's lifetime and one collection before the request.        *)
THEOREM HealthStaysFresh == CollectionSpec => []HealthIsFreshOrMarked
<1>1. CollectionIInv => HealthIsFreshOrMarked
  BY Zenon DEF CollectionIInv, HealthIsFreshOrMarked, CallOK, SoundOutcome
<1> QED
  BY <1>1, CollectionInvariance, PTL

(* A snapshot reports every backend exactly once, has a result of every    *)
(* core adapter, and marks only failed refreshes.                          *)
THEOREM SnapshotsAreComplete == CollectionSpec => []AnswersAreComplete
<1>1. ASSUME CollectionIInv, NEW c \in Calls
      PROVE  Len(call[c].collected) = Cardinality(Received(c))
  <2>1. call[c].collected \in Seq(Outcomes) /\ Distinct(call[c].collected)
    BY <1>1, SMTT(30) DEF CollectionIInv, CollectionTypes, StateRecords, CallOK
  <2> QED
    BY <2>1, Counted DEF Received, NamesOf
<1>2. CollectionIInv => AnswersAreComplete
  BY <1>1, Zenon DEF CollectionIInv, AnswersAreComplete, CallOK, CoreIsGood, SoundOutcome, Received, NamesOf
<1> QED
  BY <1>2, CollectionInvariance, PTL

------------------------------------------------------------------------------
(* Extensions                                                              *)

NoName == {""}

OrderRecords ==
  [pc : {"idle", "look", "act"},
   op : [kind : {"none", "enable", "disable", "refresh", "update"},
         name : ExtensionNames \cup NoName, dir : Nat],
   force : BOOLEAN, disturbed : BOOLEAN]

(* A request at work has the lock of the extensions, so there is one of    *)
(* them at most, and what it was told of merged extensions stands.         *)
OrdersInv ==
  /\ order \in [ExtensionRequests -> OrderRecords]
  /\ DOMAIN locked = LockKeys
  /\ \A r \in ExtensionRequests : order[r].pc # "idle" => locked["sysext/global"] = r
  /\ ForceMatchesMerged

(* The order of one request changes.                                       *)
LEMMA OrderPut ==
  ASSUME OrdersInv, NEW r \in ExtensionRequests, NEW o \in OrderRecords,
         order' = [order EXCEPT ![r] = o], locked' = locked, locked["sysext/global"] = r,
         merged' = merged,
         o.pc = "act" /\ o.op.kind = "disable" /\ ~o.disturbed => (o.force <=> o.op.name \in merged)
  PROVE  OrdersInv'
<1>1. /\ order \in [ExtensionRequests -> OrderRecords] /\ DOMAIN locked = LockKeys
      /\ \A q \in ExtensionRequests : order[q].pc # "idle" => locked["sysext/global"] = q
      /\ ForceMatchesMerged
  BY Zenon DEF OrdersInv
<1>2. /\ order' \in [ExtensionRequests -> OrderRecords] /\ order'[r] = o
      /\ \A q \in ExtensionRequests : q # r => order'[q] = order[q]
  BY <1>1
<1>3. ForceMatchesMerged'
  BY <1>1, <1>2, Zenon DEF ForceMatchesMerged
<1> QED
  BY <1>1, <1>2, <1>3, Zenon DEF OrdersInv

(* When the request at work ends, there is none.                           *)
LEMMA OrderEnds ==
  ASSUME OrdersInv, NEW r \in ExtensionRequests, order[r].pc # "idle", End(r)
  PROVE  OrdersInv'
<1>1. /\ order \in [ExtensionRequests -> OrderRecords] /\ DOMAIN locked = LockKeys
      /\ \A q \in ExtensionRequests : order[q].pc # "idle" => locked["sysext/global"] = q
  BY Zenon DEF OrdersInv
<1>2. order' = [order EXCEPT ![r] = NoOrder] /\ locked' = [locked EXCEPT !["sysext/global"] = Unlocked]
  BY SMTT(30) DEF End, Global!Give, lockKey
<1>3. NoOrder \in OrderRecords /\ NoOrder.pc = "idle"
  <2>1. NoOrder.op \in [kind : {"none", "enable", "disable", "refresh", "update"},
                        name : ExtensionNames \cup NoName, dir : Nat]
    <3>1. NoOrder.op.kind = "none" /\ NoOrder.op.dir \in Nat
      BY Zenon DEF NoOrder
    <3>2. NoOrder.op.name \in NoName /\ NoOrder.op = [kind |-> NoOrder.op.kind, name |-> NoOrder.op.name, dir |-> NoOrder.op.dir]
      BY Zenon DEF NoOrder, NoName
    <3> QED
      BY <3>1, <3>2
  <2> QED
    BY <2>1, Zenon DEF NoOrder, OrderRecords
<1>4. /\ order' \in [ExtensionRequests -> OrderRecords] /\ DOMAIN locked' = LockKeys
      /\ \A q \in ExtensionRequests : order'[q].pc = "idle"
  BY <1>1, <1>2, <1>3, SMTT(30)
<1> QED
  BY <1>4, Zenon DEF OrdersInv, ForceMatchesMerged

(* A request begins when no other is at work.                              *)
LEMMA OrderStarts ==
  ASSUME OrdersInv, NEW r \in ExtensionRequests, NEW op \in Orders, OrderBegins(r, op)
  PROVE  OrdersInv'
<1> DEFINE pc == IF op.name \in ExtensionNames THEN "look" ELSE "act"
           o == [NoOrder EXCEPT !.op = op, !.pc = pc]
<1>1. /\ order \in [ExtensionRequests -> OrderRecords] /\ DOMAIN locked = LockKeys
      /\ \A q \in ExtensionRequests : order[q].pc # "idle" => locked["sysext/global"] = q
  BY Zenon DEF OrdersInv
<1>2. /\ locked["sysext/global"] = Unlocked /\ locked' = [locked EXCEPT !["sysext/global"] = r]
      /\ order' = [order EXCEPT ![r] = o] /\ merged' = merged
  BY DEF OrderBegins, Global!Take, lockKey, hostVars
<1>3. op.kind = "disable" => op.name \in ExtensionNames
  BY Zenon DEF Orders
<1>4. o \in OrderRecords /\ o.pc = pc /\ o.op = op
  <2>1. op \in [kind : {"none", "enable", "disable", "refresh", "update"},
                name : ExtensionNames \cup NoName, dir : Nat]
    <3>1. CASE op \in [kind : {"enable", "disable"}, name : ExtensionNames, dir : {0}]
      BY <3>1
    <3>2. CASE op \in [kind : {"refresh"}, name : NoName, dir : {0}]
      BY <3>2
    <3>3. CASE op \in [kind : {"update"}, name : NoName, dir : {1}]
      BY <3>3
    <3> QED
      BY <3>1, <3>2, <3>3, Zenon DEF Orders, NoName
  <2>2. pc \in {"look", "act"}
    OBVIOUS
  <2> HIDE DEF pc
  <2>3. /\ NoOrder.force = FALSE /\ NoOrder.disturbed = FALSE
        /\ NoOrder \in [pc : {"idle"}, op : {NoOrder.op}, force : {FALSE}, disturbed : {FALSE}]
    BY DEF NoOrder
  <2>4. o.pc = pc /\ o.op = op
    BY <2>3
  <2>5. o \in OrderRecords
    BY <2>1, <2>2, <2>3, Zenon DEF OrderRecords
  <2> QED
    BY <2>4, <2>5
<1>5. \A q \in ExtensionRequests : order[q].pc = "idle"
  BY <1>1, <1>2, ExtensionsAssumption DEF ExtensionsAssumption
<1>6. ~(o.pc = "act" /\ o.op.kind = "disable")
  BY <1>3, <1>4, SMTT(30)
<1> HIDE DEF o
<1>7. /\ order' \in [ExtensionRequests -> OrderRecords] /\ DOMAIN locked' = LockKeys
      /\ order'[r] = o /\ locked'["sysext/global"] = r
      /\ \A q \in ExtensionRequests : q # r => order'[q] = order[q]
  BY <1>1, <1>2, <1>4, SMTT(30) DEF LockKeys
<1> QED
  BY <1>5, <1>6, <1>7, Zenon DEF OrdersInv, ForceMatchesMerged

(* Every step of the actions and of others keeps the orders.               *)
LEMMA OrdersKept ==
  ASSUME OrdersInv, ActionNext
  PROVE  OrdersInv'
<1>1. ASSUME NEW r \in ExtensionRequests, NEW op \in Orders, OrderBegins(r, op)
      PROVE  OrdersInv'
  BY <1>1, OrderStarts
<1>2. ASSUME NEW r \in ExtensionRequests, ListFails(r) \/ ActFails(r) \/ Disable(r) \/ Enable(r) \/ Refresh(r)
      PROVE  OrdersInv'
  <2>1. order[r].pc # "idle" /\ End(r)
    BY <1>2 DEF ListFails, ActFails, Disable, Enable, Refresh
  <2> QED
    BY <2>1, OrderEnds, SMTT(30), Zenon, SMTT(60)
<1>3. ASSUME NEW r \in ExtensionRequests, Look(r)
      PROVE  OrdersInv'
  <2> DEFINE force == order[r].op.kind = "disable" /\ order[r].op.name \in merged
             o == [order[r] EXCEPT !.pc = "act", !.force = force]
  <2>1. /\ order[r].pc = "look" /\ locked' = locked /\ merged' = merged
        /\ order' = [order EXCEPT ![r].pc = "act", ![r].force = force]
    BY <1>3 DEF Look, hostVars
  <2>2. /\ order[r] \in OrderRecords /\ order \in [ExtensionRequests -> OrderRecords]
        /\ locked["sysext/global"] = r
    <3>1. order \in [ExtensionRequests -> OrderRecords] /\ locked["sysext/global"] = r
      BY <2>1 DEF OrdersInv
    <3> QED
      BY <3>1
  <2>3. force \in BOOLEAN
    BY Zenon
  <2> HIDE DEF force
  <2>4. order' = [order EXCEPT ![r] = o]
    BY <2>1, <2>2, Zenon
  <2>5. o \in OrderRecords /\ o.op = order[r].op /\ o.force = force
    BY <2>2, <2>3, Zenon DEF OrderRecords
  <2>6. o.op.kind = "disable" => (o.force <=> o.op.name \in merged)
    BY <2>5, Zenon DEF force
  <2> HIDE DEF o
  <2> QED
    BY <2>1, <2>2, <2>4, <2>5, <2>6, OrderPut, Zenon
<1>4. ASSUME NEW r \in ExtensionRequests, Update(r)
      PROVE  OrdersInv'
  <2>1. /\ order[r].pc = "act" /\ order[r].op.kind = "update" /\ merged' = merged
        /\ End(r) \/ (order' = [order EXCEPT ![r].op.dir = order[r].op.dir + 1] /\ locked' = locked)
    BY <1>4 DEF Update, Host
  <2>2. CASE End(r)
    BY <2>1, <2>2, OrderEnds, SMTT(30)
  <2>3. CASE order' = [order EXCEPT ![r].op.dir = order[r].op.dir + 1] /\ locked' = locked
    <3> DEFINE dir == order[r].op.dir + 1
               o == [order[r] EXCEPT !.op.dir = dir]
    <3>1. order \in [ExtensionRequests -> OrderRecords] /\ locked["sysext/global"] = r
      BY <2>1 DEF OrdersInv
    <3>2. /\ order[r] \in OrderRecords /\ order[r].op.dir \in Nat
      BY <3>1 DEF OrderRecords
    <3>3. order' = [order EXCEPT ![r] = o]
      BY <2>3, <3>1, SMTT(30)
    <3>4. dir \in Nat
      BY <3>2
    <3> HIDE DEF dir
    <3>5. o \in OrderRecords /\ o.op.kind = "update"
      BY <2>1, <3>2, <3>4 DEF OrderRecords
    <3> HIDE DEF o
    <3> QED
      BY <2>1, <2>3, <3>1, <3>3, <3>5, OrderPut, Zenon
  <2> QED
    BY <2>1, <2>2, <2>3
<1>5. ASSUME NEW n \in ExtensionNames, OthersChange(n)
      PROVE  OrdersInv'
  <2>1. /\ order' = [r \in ExtensionRequests |-> [order[r] EXCEPT !.disturbed = order[r].pc = "act"]]
        /\ locked' = locked
    BY <1>5, Zenon DEF OthersChange
  <2>2. /\ order \in [ExtensionRequests -> OrderRecords] /\ DOMAIN locked = LockKeys
        /\ \A q \in ExtensionRequests : order[q].pc # "idle" => locked["sysext/global"] = q
    BY Zenon DEF OrdersInv
  <2>3. ASSUME NEW r \in ExtensionRequests
        PROVE  /\ order'[r] \in OrderRecords /\ order'[r].pc = order[r].pc
               /\ order'[r].pc = "act" => order'[r].disturbed
    <3> DEFINE act == order[r].pc = "act"
    <3>1. order'[r] = [order[r] EXCEPT !.disturbed = act] /\ order[r] \in OrderRecords
      BY <2>1, <2>2
    <3>2. act \in BOOLEAN
      BY Zenon
    <3> HIDE DEF act
    <3>3. order'[r] \in OrderRecords /\ order'[r].pc = order[r].pc /\ order'[r].disturbed = act
      BY <3>1, <3>2 DEF OrderRecords
    <3> QED
      BY <3>3, Zenon DEF act
  <2>4. order' \in [ExtensionRequests -> OrderRecords]
    BY <2>1, <2>3
  <2> QED
    BY <2>1, <2>2, <2>3, <2>4, Zenon DEF OrdersInv, ForceMatchesMerged
<1> QED
  BY <1>1, <1>2, <1>3, <1>4, <1>5, Zenon DEF ActionNext

AgeTypes ==
  /\ changeAge \in [ExtensionNames -> 0..Window] /\ failAge \in 0..Window /\ cacheAge \in 0..Window
  /\ reader.delay \in 0..MaxDelay

(* The extensions that are due for a reboot.                               *)
DueOnHost == (Managed \cap merged) \ enabled

Both(state) == state.updex = "ok" /\ state.sysext = "ok"

(* The reasons taken from a state are right but for names that changed at  *)
(* most so long ago, and it lacks a source that the host has only if one   *)
(* failed at most so long ago.                                             *)
RightWithin(state, age, due, changed, failed, tools) ==
  /\ Both(state) => \A n \in ExtensionNames :
       (n \in mergedButDisabledReasons(state) <=> n \in due) \/ changed[n] <= age
  /\ tools = {"updex", "sysext"} => Both(state) \/ failed <= age

Right(state, age) == RightWithin(state, age, DueOnHost, changeAge, failAge, have)

(* What a reader has of updex is right but for names that changed since it *)
(* began.                                                                  *)
ReadingStands ==
  /\ reader.pc \in {"features", "check"} => "updex" \in have /\ reader.updex = "absent"
  /\ reader.updex = "ok" => "updex" \in have
  /\ reader.pc \in {"check", "list", "status"} /\ reader.updex # "failed" /\ "updex" \in have =>
       \A n \in ExtensionNames : (n \in reader.enabled <=> n \in enabled) \/ changeAge[n] <= reader.delay
  /\ reader.pc \in {"list", "status"} =>
       reader.updex = "ok" \/ "updex" \notin have \/ failAge <= reader.delay
  /\ reader.pc = "status" => "sysext" \in have

(* So is what the cache has, and what is answered.                         *)
CacheStands ==
  /\ kept.full => Right(kept, cacheAge + MaxDelay)
  /\ reader.pc = "answered" => Right(reader.answer, Window - 1)

ReaderInv == AgeTypes /\ ReadingStands /\ CacheStands

(* A state stays right while ages grow no faster than its own.             *)
LEMMA StaysRight ==
  ASSUME NEW state, NEW age, NEW due, NEW changed, NEW failed, NEW tools,
         NEW age2, NEW due2, NEW changed2, NEW failed2,
         RightWithin(state, age, due, changed, failed, tools),
         \A n \in ExtensionNames :
           \/ changed2[n] <= age2
           \/ (n \in due2 <=> n \in due) /\ ~(changed[n] <= age),
         failed <= age => failed2 <= age2
  PROVE  RightWithin(state, age2, due2, changed2, failed2, tools)
BY Zenon DEF RightWithin

(* What the reasons of a collected state are.                              *)
LEMMA StateReasons ==
  ASSUME NEW updex, NEW en, NEW sysext, NEW ins, NEW mer, NEW state,
         state = State(updex, en, sysext, ins, mer)
  PROVE  /\ state.full /\ (Both(state) <=> updex = "ok" /\ sysext = "ok")
         /\ Both(state) => mergedButDisabledReasons(state) = (Managed \cap mer) \ en
<1> DEFINE fromUpdex == IF updex = "ok" THEN Managed ELSE {}
           fromSysext == IF sysext = "ok" THEN ins \cup mer ELSE {}
           ext == [n \in fromUpdex \cup fromSysext |->
                     [managed |-> n \in fromUpdex, enabled |-> n \in fromUpdex \cap en,
                      installed |-> n \in fromSysext \cap ins, merged |-> n \in fromSysext \cap mer]]
<1>1. state = [full |-> TRUE, updex |-> updex, sysext |-> sysext, extensions |-> ext]
  BY Zenon DEF State
<1> HIDE DEF ext
<1>2. state.full /\ state.updex = updex /\ state.sysext = sysext /\ state.extensions = ext
  BY <1>1, SMTT(30)
<1>3. ASSUME updex = "ok", sysext = "ok"
      PROVE  mergedButDisabledReasons(state) = (Managed \cap mer) \ en
  <2>1. mergedButDisabledReasons(state) =
          {n \in DOMAIN ext : ext[n].managed /\ ext[n].merged /\ ~ext[n].enabled}
    BY <1>2, <1>3, SMTT(30) DEF mergedButDisabledReasons
  <2>2. DOMAIN ext = Managed \cup (ins \cup mer)
    BY <1>3, SMTT(30) DEF ext
  <2>3. ASSUME NEW n \in DOMAIN ext
        PROVE  /\ ext[n].managed <=> n \in Managed
               /\ ext[n].merged <=> n \in mer
               /\ ext[n].enabled <=> n \in Managed \cap en
    BY <1>3, <2>3, Zenon DEF ext
  <2> QED
    BY <2>1, <2>2, <2>3
<1> QED
  BY <1>2, <1>3 DEF Both

(* A step of the host: a name whose state changes is as of now.            *)
LEMMA HostKeepsReader ==
  ASSUME ReaderInv, NEW en, NEW ins, NEW mer, Host(en, ins, mer), have' = have, UNCHANGED readerVars
  PROVE  ReaderInv'
<1>1. /\ changeAge \in [ExtensionNames -> 0..Window] /\ failAge \in 0..Window /\ cacheAge \in 0..Window
      /\ reader.delay \in 0..MaxDelay /\ Window \in Nat /\ MaxDelay \in Nat /\ Window - 1 \in Nat
  BY ExtensionsAssumption DEF ReaderInv, AgeTypes, ExtensionsAssumption, Window
<1>2. /\ kept' = kept /\ reader' = reader /\ cacheAge' = cacheAge /\ failAge' = failAge
      /\ enabled' = en /\ merged' = mer
      /\ changeAge' = [n \in ExtensionNames |->
           IF (n \in en) = (n \in enabled) /\ (n \in mer) = (n \in merged) THEN changeAge[n] ELSE 0]
  BY Zenon DEF Host, readerVars
<1>3. changeAge' \in [ExtensionNames -> 0..Window]
  BY <1>1, <1>2
<1>4. ASSUME NEW n \in ExtensionNames
      PROVE  \/ changeAge'[n] = 0
             \/ /\ changeAge'[n] = changeAge[n]
                /\ (n \in enabled' <=> n \in enabled) /\ (n \in DueOnHost' <=> n \in DueOnHost)
  <2>1. \/ changeAge'[n] = 0
        \/ changeAge'[n] = changeAge[n] /\ (n \in enabled' <=> n \in enabled) /\ (n \in merged' <=> n \in merged)
    BY <1>2
  <2> QED
    BY <2>1, Zenon DEF DueOnHost, Managed
<1>5. ASSUME NEW state, NEW age \in Nat, Right(state, age)
      PROVE  RightWithin(state, age, DueOnHost', changeAge', failAge', have')
  <2>1. 0 <= age
    OBVIOUS
  <2>2. RightWithin(state, age, DueOnHost, changeAge, failAge, have)
    BY <1>5, Zenon DEF Right
  <2>3. \A n \in ExtensionNames :
           \/ changeAge'[n] <= age
           \/ (n \in DueOnHost' <=> n \in DueOnHost) /\ ~(changeAge[n] <= age)
    BY <1>4, <2>1, Zenon
  <2>4. RightWithin(state, age, DueOnHost', changeAge', failAge, have)
    BY <2>2, <2>3, StaysRight, Zenon
  <2> QED
    BY <1>2, <2>4, Zenon
<1>6. CacheStands'
  <2>1. cacheAge + MaxDelay \in Nat
    BY <1>1
  <2> QED
    BY <1>1, <1>2, <1>5, <2>1, Zenon DEF ReaderInv, CacheStands, Right
<1>7. ReadingStands'
  <2>1. 0 <= reader.delay
    BY <1>1
  <2> QED
    BY <1>2, <1>4, <2>1, Zenon DEF ReaderInv, ReadingStands
<1> QED
  BY <1>1, <1>2, <1>3, <1>6, <1>7, Zenon DEF ReaderInv, AgeTypes

(* Time passes: a reader's delay grows with the ages, and ages that have   *)
(* stopped counting are within the cache's.                                *)
LEMMA TimeKeepsReader ==
  ASSUME ReaderInv, TimeGoes
  PROVE  ReaderInv'
<1>1. /\ changeAge \in [ExtensionNames -> 0..Window] /\ failAge \in 0..Window /\ cacheAge \in 0..Window
      /\ reader.delay \in 0..MaxDelay /\ Window \in Nat /\ MaxDelay \in Nat
  BY ExtensionsAssumption DEF ReaderInv, AgeTypes, ExtensionsAssumption, Window
<1>2. /\ reader.pc # "answered" /\ (reader.pc # "idle" => reader.delay < MaxDelay)
      /\ reader' = IF reader.pc = "idle" THEN reader ELSE [reader EXCEPT !.delay = reader.delay + 1]
      /\ cacheAge' = Older(cacheAge) /\ failAge' = Older(failAge)
      /\ changeAge' = [n \in ExtensionNames |-> Older(changeAge[n])]
      /\ have' = have /\ enabled' = enabled /\ merged' = merged /\ kept' = kept
  BY DEF TimeGoes
<1>3. ASSUME NEW a \in 0..Window
      PROVE  /\ Older(a) \in 0..Window /\ Older(a) <= a + 1
             /\ a <= cacheAge + MaxDelay => Older(a) <= Older(cacheAge) + MaxDelay
  BY <1>1 DEF Older
<1>4. \A n \in ExtensionNames : changeAge[n] \in 0..Window /\ changeAge'[n] = Older(changeAge[n])
  BY <1>1, <1>2
<1>5. DueOnHost' = DueOnHost
  BY <1>2, Zenon DEF DueOnHost, Managed
<1>6. changeAge' \in [ExtensionNames -> 0..Window] /\ failAge' \in 0..Window /\ cacheAge' \in 0..Window
  BY <1>1, <1>2, <1>3
<1>7. kept.full => RightWithin(kept, cacheAge' + MaxDelay, DueOnHost', changeAge', failAge', have')
  <2> SUFFICES ASSUME kept.full
               PROVE  RightWithin(kept, cacheAge' + MaxDelay, DueOnHost', changeAge', failAge', have')
    BY Zenon
  <2>1. RightWithin(kept, cacheAge + MaxDelay, DueOnHost, changeAge, failAge, have)
    BY Zenon DEF ReaderInv, CacheStands, Right
  <2>2. \A n \in ExtensionNames :
           \/ changeAge'[n] <= cacheAge' + MaxDelay
           \/ (n \in DueOnHost' <=> n \in DueOnHost) /\ ~(changeAge[n] <= cacheAge + MaxDelay)
    BY <1>2, <1>3, <1>4, <1>5, Zenon
  <2>3. failAge <= cacheAge + MaxDelay => failAge' <= cacheAge' + MaxDelay
    BY <1>1, <1>2, <1>3, Zenon
  <2>4. RightWithin(kept, cacheAge' + MaxDelay, DueOnHost', changeAge', failAge', have)
    BY <2>1, <2>2, <2>3, StaysRight, Zenon
  <2> QED
    BY <1>2, <2>4, Zenon
<1>8. CASE reader.pc = "idle"
  <2>1. reader' = reader
    BY <1>2, <1>8, Zenon
  <2>2. reader.pc \notin {"features", "check", "list", "status", "answered"}
    BY <1>8
  <2>3. ReadingStands'
    BY <1>2, <2>1, <2>2 DEF ReaderInv, ReadingStands
  <2>4. CacheStands'
    BY <1>2, <1>7, <2>1, <2>2, Zenon DEF CacheStands, Right
  <2> QED
    BY <1>1, <1>6, <2>1, <2>3, <2>4, Zenon DEF ReaderInv, AgeTypes
<1>9. CASE reader.pc # "idle"
  <2>1. reader' = [reader EXCEPT !.delay = reader.delay + 1]
    BY <1>2, <1>9, Zenon
  <2>2. /\ reader'.pc = reader.pc /\ reader'.updex = reader.updex /\ reader'.enabled = reader.enabled
        /\ reader'.delay = reader.delay + 1
    BY <1>1, <1>2, <1>9, <2>1 DEF ReaderInv
  <2>3. reader'.delay \in 0..MaxDelay
    BY <1>1, <1>2, <1>9, <2>2
  <2>4. \A a \in 0..Window : a <= reader.delay => Older(a) <= reader'.delay
    BY <1>1, <1>3, <2>2
  <2>5. ReadingStands'
    BY <1>1, <1>2, <1>4, <2>2, <2>4, Zenon DEF ReaderInv, ReadingStands
  <2>6. CacheStands'
    BY <1>2, <1>7, <2>2, Zenon DEF CacheStands, Right
  <2> QED
    BY <1>6, <2>3, <2>5, <2>6, Zenon DEF ReaderInv, AgeTypes
<1> QED
  BY <1>8, <1>9

(* The end of a collection: what is stored is right but for names that     *)
(* changed, and failures, since the collection began.                      *)
LEMMA CollectedIsRight ==
  ASSUME ReaderInv, reader.pc \in {"list", "status"}, NEW sysext, NEW mer,
         sysext = "ok" => mer = merged,
         sysext = "ok" \/ "sysext" \notin have \/ failAge' = 0,
         failAge' = failAge \/ failAge' = 0,
         Finish(sysext, mer), UNCHANGED readerKeeps
  PROVE  ReaderInv'
<1> DEFINE state == State(reader.updex, reader.enabled, sysext, reader.installed, mer)
<1>1. /\ changeAge \in [ExtensionNames -> 0..Window] /\ failAge \in 0..Window /\ cacheAge \in 0..Window
      /\ reader.delay \in 0..MaxDelay /\ Window \in Nat /\ MaxDelay \in Nat /\ MaxDelay <= Window - 1
      /\ Window - 1 \in Nat
  BY ExtensionsAssumption DEF ReaderInv, AgeTypes, ExtensionsAssumption, Window
<1>2. /\ kept' = state /\ cacheAge' = 0 /\ reader' = [Unread EXCEPT !.pc = "answered", !.answer = state]
      /\ have' = have /\ enabled' = enabled /\ merged' = merged /\ changeAge' = changeAge
  BY Zenon DEF Finish, Answers, readerKeeps, hostVars
<1>3. state = State(reader.updex, reader.enabled, sysext, reader.installed, mer)
  BY Zenon
<1> HIDE DEF state
<1>4. /\ state.full /\ (Both(state) <=> reader.updex = "ok" /\ sysext = "ok")
      /\ Both(state) => mergedButDisabledReasons(state) = (Managed \cap mer) \ reader.enabled
  BY <1>3, StateReasons
<1>5. /\ reader'.pc = "answered" /\ reader'.answer = state /\ reader'.delay = 0 /\ reader'.updex = "absent"
  BY <1>2 DEF Unread
<1>6. ASSUME Both(state), NEW n \in ExtensionNames
      PROVE  (n \in mergedButDisabledReasons(state) <=> n \in DueOnHost) \/ changeAge[n] <= reader.delay
  <2>1. (n \in reader.enabled <=> n \in enabled) \/ changeAge[n] <= reader.delay
    BY <1>4, <1>6 DEF ReaderInv, ReadingStands
  <2> QED
    BY <1>4, <1>6, <2>1, Zenon DEF DueOnHost
<1>7. have = {"updex", "sysext"} => Both(state) \/ failAge' = 0 \/ failAge <= reader.delay
  <2>1. reader.updex = "ok" \/ "updex" \notin have \/ failAge <= reader.delay
    BY DEF ReaderInv, ReadingStands
  <2> QED
    BY <1>4, <2>1
<1>8. ASSUME NEW age \in Nat, MaxDelay <= age
      PROVE  RightWithin(state, age, DueOnHost', changeAge', failAge', have')
  <2>1. DueOnHost' = DueOnHost
    BY <1>2, Zenon DEF DueOnHost, Managed
  <2>2. \A a \in Nat : a <= reader.delay => a <= age
    BY <1>1, <1>8
  <2>3. \A n \in ExtensionNames : changeAge[n] \in Nat
    BY <1>1
  <2>4. failAge \in Nat /\ 0 <= age
    BY <1>1
  <2>5. Both(state) => \A n \in ExtensionNames :
          (n \in mergedButDisabledReasons(state) <=> n \in DueOnHost) \/ changeAge[n] <= age
    BY <1>6, <2>2, <2>3, Zenon
  <2>6. have = {"updex", "sysext"} => Both(state) \/ failAge' <= age
    BY <1>7, <2>2, <2>4, Zenon
  <2> QED
    BY <1>2, <2>1, <2>5, <2>6, Zenon DEF RightWithin
<1>9. CacheStands'
  <2>1. cacheAge' + MaxDelay = MaxDelay /\ MaxDelay <= MaxDelay
    BY <1>1, <1>2, SMTT(30)
  <2> QED
    BY <1>1, <1>2, <1>5, <1>8, <2>1, Zenon DEF CacheStands, Right
<1>10. ReadingStands'
  BY <1>5 DEF ReadingStands
<1>11. AgeTypes'
  BY <1>1, <1>2, <1>5 DEF AgeTypes
<1> QED
  BY <1>9, <1>10, <1>11, Zenon DEF ReaderInv

(* The steps of the reader.                                                *)
LEMMA ReaderKept ==
  ASSUME ReaderInv, ReaderNext
  PROVE  ReaderInv'
<1>1. /\ changeAge \in [ExtensionNames -> 0..Window] /\ failAge \in 0..Window /\ cacheAge \in 0..Window
      /\ reader.delay \in 0..MaxDelay /\ Window = CacheTTL + MaxDelay /\ MaxDelay \in Nat /\ CacheTTL \in Nat
      /\ AgeTypes /\ ReadingStands /\ CacheStands
  BY ExtensionsAssumption DEF ReaderInv, AgeTypes, ExtensionsAssumption, Window
<1>2. ASSUME UNCHANGED readerKeeps
      PROVE  have' = have /\ enabled' = enabled /\ merged' = merged /\ changeAge' = changeAge /\ DueOnHost' = DueOnHost
  BY <1>2, Zenon DEF readerKeeps, hostVars, DueOnHost, Managed
<1>3. CASE CacheHit
  <2>1. /\ kept.full /\ cacheAge < CacheTTL /\ kept' = kept /\ cacheAge' = cacheAge /\ failAge' = failAge
        /\ reader' = [Unread EXCEPT !.pc = "answered", !.answer = kept] /\ UNCHANGED readerKeeps
    BY <1>3, Zenon DEF CacheHit, Answers
  <2>2. reader'.pc = "answered" /\ reader'.answer = kept /\ reader'.delay = 0 /\ reader'.updex = "absent"
    BY <2>1 DEF Unread
  <2>3. \A a \in Nat : a <= cacheAge + MaxDelay => a <= Window - 1
    BY <1>1, <2>1
  <2>4. (\A n \in ExtensionNames : changeAge[n] \in Nat) /\ failAge \in Nat
    BY <1>1
  <2>5. RightWithin(kept, cacheAge + MaxDelay, DueOnHost, changeAge, failAge, have)
    BY <1>1, <2>1, Zenon DEF CacheStands, Right
  <2>6. RightWithin(kept, Window - 1, DueOnHost, changeAge, failAge, have)
    BY <2>3, <2>4, <2>5, Zenon DEF RightWithin
  <2>7. CacheStands'
    BY <1>2, <2>1, <2>2, <2>5, <2>6, Zenon DEF CacheStands, Right
  <2>8. ReadingStands'
    BY <2>2 DEF ReadingStands
  <2>9. AgeTypes'
    BY <1>1, <1>2, <2>1, <2>2 DEF AgeTypes
  <2> QED
    BY <2>7, <2>8, <2>9, Zenon DEF ReaderInv
<1>4. ASSUME UNCHANGED readerKeeps, kept' = kept, cacheAge' = cacheAge, failAge' = failAge \/ failAge' = 0,
             reader'.pc # "answered", reader'.delay \in 0..MaxDelay, ReadingStands'
      PROVE  ReaderInv'
  <2>1. kept.full => RightWithin(kept, cacheAge + MaxDelay, DueOnHost, changeAge, failAge', have)
    <3>1. 0 <= cacheAge + MaxDelay
      BY <1>1
    <3> QED
      BY <1>1, <1>4, <3>1, Zenon DEF CacheStands, Right, RightWithin
  <2>2. CacheStands'
    BY <1>2, <1>4, <2>1, Zenon DEF CacheStands, Right
  <2>3. failAge' \in 0..Window
    BY <1>1, <1>4
  <2> QED
    BY <1>1, <1>2, <1>4, <2>2, <2>3, Zenon DEF ReaderInv, AgeTypes
<1>5. CASE Collect
  <2>1. /\ kept' = kept /\ cacheAge' = cacheAge /\ failAge' = failAge /\ UNCHANGED readerKeeps
        /\ reader' = [Unread EXCEPT !.pc = IF "updex" \in have THEN "features" ELSE "list"]
    BY <1>5, Zenon DEF Collect
  <2>2. /\ reader'.pc = IF "updex" \in have THEN "features" ELSE "list"
        /\ reader'.delay = 0 /\ reader'.updex = "absent"
    BY <2>1 DEF Unread
  <2>3. ReadingStands' /\ reader'.pc # "answered" /\ reader'.delay \in 0..MaxDelay
    BY <1>1, <1>2, <2>1, <2>2 DEF ReadingStands
  <2> QED
    BY <1>4, <2>1, <2>3, Zenon
<1>6. CASE Features
  <2>1. /\ reader.pc = "features" /\ kept' = kept /\ cacheAge' = cacheAge /\ failAge' = failAge
        /\ reader' = [reader EXCEPT !.pc = "check", !.enabled = enabled] /\ UNCHANGED readerKeeps
    BY <1>6, Zenon DEF Features
  <2>2. reader'.pc = "check" /\ reader'.enabled = enabled /\ reader'.delay = reader.delay /\ reader'.updex = reader.updex
    BY <2>1
  <2>3. ReadingStands'
    BY <1>1, <1>2, <2>1, <2>2 DEF ReadingStands
  <2> QED
    BY <1>1, <1>4, <2>1, <2>2, <2>3
<1>7. CASE Check
  <2>1. /\ reader.pc = "check" /\ kept' = kept /\ cacheAge' = cacheAge /\ failAge' = failAge
        /\ reader' = [reader EXCEPT !.pc = "list", !.updex = "ok"] /\ UNCHANGED readerKeeps
    BY <1>7, Zenon DEF Check
  <2>2. reader'.pc = "list" /\ reader'.enabled = reader.enabled /\ reader'.delay = reader.delay /\ reader'.updex = "ok"
    BY <2>1
  <2>3. ReadingStands'
    BY <1>1, <1>2, <2>1, <2>2 DEF ReadingStands
  <2> QED
    BY <1>1, <1>4, <2>1, <2>2, <2>3
<1>8. CASE UpdexFails
  <2>1. /\ reader.pc \in {"features", "check"} /\ kept' = kept /\ cacheAge' = cacheAge /\ failAge' = 0
        /\ reader' = [reader EXCEPT !.pc = "list", !.updex = "failed", !.enabled = {}] /\ UNCHANGED readerKeeps
    BY <1>8, Zenon DEF UpdexFails
  <2>2. reader'.pc = "list" /\ reader'.delay = reader.delay /\ reader'.updex = "failed"
    BY <2>1
  <2>3. ReadingStands'
    BY <1>1, <2>1, <2>2 DEF ReadingStands
  <2> QED
    BY <1>1, <1>4, <2>1, <2>2, <2>3
<1>9. CASE List
  <2>1. /\ reader.pc = "list" /\ "sysext" \in have /\ kept' = kept /\ cacheAge' = cacheAge /\ failAge' = failAge
        /\ reader' = [reader EXCEPT !.pc = "status", !.installed = installed] /\ UNCHANGED readerKeeps
    BY <1>9, Zenon DEF List
  <2>2. reader'.pc = "status" /\ reader'.enabled = reader.enabled /\ reader'.delay = reader.delay /\ reader'.updex = reader.updex
    BY <2>1
  <2>3. ReadingStands'
    BY <1>1, <1>2, <2>1, <2>2 DEF ReadingStands
  <2> QED
    BY <1>1, <1>4, <2>1, <2>2, <2>3
<1>10. CASE Returned
  <2>1. /\ kept' = kept /\ cacheAge' = cacheAge /\ failAge' = failAge /\ reader' = Unread /\ UNCHANGED readerKeeps
    BY <1>10, Zenon DEF Returned
  <2>2. reader'.pc = "idle" /\ reader'.delay = 0 /\ reader'.updex = "absent"
    BY <2>1, SMTT(30) DEF Unread
  <2>3. ReadingStands' /\ reader'.delay \in 0..MaxDelay /\ reader'.pc # "answered"
    BY <1>1, <2>2 DEF ReadingStands
  <2> QED
    BY <1>4, <2>1, <2>3, Zenon
<1>11. CASE SysextAbsent
  BY <1>11, CollectedIsRight DEF SysextAbsent
<1>12. CASE Status
  BY <1>12, CollectedIsRight DEF Status
<1>13. CASE SysextFails
  BY <1>13, CollectedIsRight DEF SysextFails
<1> QED
  BY <1>3, <1>5, <1>6, <1>7, <1>8, <1>9, <1>10, <1>11, <1>12, <1>13, TimeKeepsReader, Zenon DEF ReaderNext

(* The steps of the actions: those that change the host set the age of     *)
(* what they change to zero, the others leave the reader and the host.     *)
LEMMA ActionsKeepReader ==
  ASSUME ReaderInv, ActionNext
  PROVE  ReaderInv'
<1>1. ASSUME have' = have, UNCHANGED readerVars, UNCHANGED hostVars
      PROVE  ReaderInv'
  <2>1. /\ have' = have /\ enabled' = enabled /\ merged' = merged /\ changeAge' = changeAge
        /\ kept' = kept /\ reader' = reader /\ cacheAge' = cacheAge /\ failAge' = failAge
    BY <1>1, Zenon DEF readerVars, hostVars
  <2>2. DueOnHost' = DueOnHost
    BY <2>1, Zenon DEF DueOnHost, Managed
  <2> QED
    BY <2>1, <2>2, Zenon DEF ReaderInv, AgeTypes, ReadingStands, CacheStands, Right
<1>2. ASSUME NEW r \in ExtensionRequests,
             (\E op \in Orders : OrderBegins(r, op)) \/ ListFails(r) \/ Look(r) \/ ActFails(r)
      PROVE  ReaderInv'
  <2>1. have' = have /\ UNCHANGED readerVars /\ UNCHANGED hostVars
    BY <1>2, Zenon DEF OrderBegins, ListFails, Look, ActFails
  <2> QED
    BY <1>1, <2>1, Zenon
<1>3. ASSUME NEW r \in ExtensionRequests, Disable(r) \/ Enable(r) \/ Refresh(r) \/ Update(r)
      PROVE  ReaderInv'
  <2>1. \E en, ins, mer : Host(en, ins, mer) /\ have' = have /\ UNCHANGED readerVars
    BY <1>3, Zenon DEF Disable, Enable, Refresh, Update
  <2> QED
    BY <2>1, HostKeepsReader, Zenon
<1>4. ASSUME NEW n \in ExtensionNames, OthersChange(n)
      PROVE  ReaderInv'
  <2>1. \E en, ins, mer : Host(en, ins, mer) /\ have' = have /\ UNCHANGED readerVars
    BY <1>4, Zenon DEF OthersChange
  <2> QED
    BY <2>1, HostKeepsReader, Zenon
<1> QED
  BY <1>2, <1>3, <1>4, Zenon DEF ActionNext

(* What is answered agrees with the host about what has not changed within *)
(* the window.                                                             *)
LEMMA AnswersFollowHost ==
  ASSUME ReaderInv
  PROVE  ReasonsFollowHost
<1> SUFFICES ASSUME reader.pc = "answered"
             PROVE  LET Steady == {n \in ExtensionNames : changeAge[n] = Window}
                        Due == (Managed \cap merged) \ enabled
                        reasons == mergedButDisabledReasons(reader.answer)
                    IN  /\ reasons \cap Steady \subseteq Due
                        /\ failAge = Window /\ have = {"updex", "sysext"} => Due \cap Steady \subseteq reasons
  BY Zenon DEF ReasonsFollowHost
<1>1. RightWithin(reader.answer, Window - 1, DueOnHost, changeAge, failAge, have)
  BY Zenon DEF ReaderInv, CacheStands, Right
<1>2. \A a : a = Window => ~(a <= Window - 1)
  BY ExtensionsAssumption DEF ExtensionsAssumption, Window
<1>3. ~Both(reader.answer) => mergedButDisabledReasons(reader.answer) = {}
  BY Zenon DEF Both, mergedButDisabledReasons
<1> QED
  BY <1>1, <1>2, <1>3, Zenon DEF RightWithin, DueOnHost

(* What is done to extensions, and what is said about them, agrees with    *)
(* the host, for any names, directories and time to live of the cache.     *)
(* The actions: whoever is past its lookup holds "sysext/global", so what  *)
(* the lookup said of the merged set stands until updex runs.  The reasons:*)
(* a collection is wrong only about names that changed, and lacks only     *)
(* sources that failed, since it began, and the cache only since the one   *)
(* it holds began, which is less than Window ago while it is served.       *)
THEOREM ExtensionsFollowHost == ExtensionsSpec => []ExtensionsAgree
<1>1. ExtensionsInit => OrdersInv /\ ReaderInv
  <2> SUFFICES ASSUME ExtensionsInit PROVE OrdersInv /\ ReaderInv
    BY Zenon
  <2>1. OrdersInv
    <3>1. NoOrder \in OrderRecords /\ NoOrder.pc = "idle"
      BY DEF NoOrder, OrderRecords, NoName
    <3>2. order = [r \in ExtensionRequests |-> NoOrder] /\ locked = [k \in LockKeys |-> Unlocked]
      BY Zenon DEF ExtensionsInit, Global!Init
    <3> HIDE DEF NoOrder
    <3> QED
      BY <3>1, <3>2, SMTT(30) DEF OrdersInv, ForceMatchesMerged
  <2>2. /\ reader.pc = "idle" /\ reader.delay = 0 /\ reader.updex = "absent" /\ ~kept.full
    BY DEF ExtensionsInit, Unread, Nobody
  <2>3. AgeTypes
    BY <2>2, ExtensionsAssumption, SMTT(30) DEF ExtensionsInit, AgeTypes, ExtensionsAssumption, Window
  <2>4. ReadingStands /\ CacheStands
    BY <2>2 DEF ReadingStands, CacheStands
  <2> QED
    BY <2>1, <2>3, <2>4, Zenon DEF ReaderInv
<1>2. OrdersInv /\ ReaderInv /\ [ExtensionsNext]_extensionsVars => OrdersInv' /\ ReaderInv'
  <2> SUFFICES ASSUME OrdersInv, ReaderInv, [ExtensionsNext]_extensionsVars
               PROVE  OrdersInv' /\ ReaderInv'
    BY Zenon
  <2>1. CASE ActionNext
    BY <2>1, OrdersKept, ActionsKeepReader, Zenon
  <2>2. CASE ReaderNext
    <3>1. order' = order /\ locked' = locked /\ merged' = merged
      BY <2>2, Zenon DEF ReaderNext, CacheHit, Collect, Features, Check, UpdexFails, SysextAbsent,
           List, Status, SysextFails, Returned, TimeGoes, readerKeeps, hostVars
    <3>2. OrdersInv'
      BY <3>1, Zenon DEF OrdersInv, ForceMatchesMerged
    <3> QED
      BY <2>2, <3>2, ReaderKept, Zenon
  <2>3. CASE UNCHANGED extensionsVars
    <3>1. /\ order' = order /\ locked' = locked /\ enabled' = enabled /\ merged' = merged /\ have' = have
          /\ changeAge' = changeAge /\ kept' = kept /\ reader' = reader /\ cacheAge' = cacheAge /\ failAge' = failAge
      BY <2>3, Zenon DEF extensionsVars
    <3>2. OrdersInv'
      BY <3>1, Zenon DEF OrdersInv, ForceMatchesMerged
    <3>3. DueOnHost' = DueOnHost
      BY <3>1, Zenon DEF DueOnHost, Managed
    <3> QED
      BY <3>1, <3>2, <3>3, Zenon DEF ReaderInv, AgeTypes, ReadingStands, CacheStands, Right
  <2> QED
    BY <2>1, <2>2, <2>3, Zenon DEF ExtensionsNext
<1>3. OrdersInv /\ ReaderInv => ExtensionsAgree
  BY AnswersFollowHost, Zenon DEF OrdersInv, ExtensionsAgree
<1> QED
  BY <1>1, <1>2, <1>3, PTL DEF ExtensionsSpec
==============================================================================
