------------------------------ MODULE HostObjects ------------------------------
(***************************************************************************)
(* The managers of Incus instances, Podman and Docker containers and        *)
(* systemd units.  An action of theirs looks the object up, refuses what    *)
(* does not fit its state, and passes the rest to an engine that others     *)
(* use as well and that may finish the work long after the wait for it has  *)
(* ended.  One object, its snapshot and its image stand for all: no action  *)
(* touches two objects.                                                     *)
(***************************************************************************)
EXTENDS FiniteSets

CONSTANTS Requests, \* calls of Execute
          NoOwner   \* the owner of a free lock

VARIABLES engine, \* the engine that has the object; it never changes
          object, \* the object as the engine has it
          owner,  \* who holds a resource of the registry's lock table
          req,    \* the calls
          engineWork \* what the engine makes of each call's order

hostObjectsVars == <<engine, object, owner, req, engineWork>>

Keys == {"object", "snapshot", "image"}

Lock == INSTANCE ExclusiveLock WITH Callers <- Requests, Resources <- Keys

ASSUME HostObjectsAssumption == IsFiniteSet(Requests) /\ NoOwner \notin Requests

Engines == {"incus", "podman", "docker", "services"}

\* exists, running, a snapshot of it, its image, and whether it is one of the
\* units that may not be stopped
Objects == [exists : BOOLEAN, running : BOOLEAN, snap : BOOLEAN,
            image : BOOLEAN, protected : BOOLEAN]

\* What an engine can have: nothing runs that does not exist, only Incus keeps
\* snapshots, Podman and Docker keep the image of a container.
Sound(o) ==
    /\ o.running \/ o.snap => o.exists
    /\ o.snap => engine = "incus"
    /\ o.protected => engine = "services"
    /\ engine = "services" => ~o.image
    /\ o.exists /\ engine \in {"podman", "docker"} => o.image

Init ==
    /\ engine \in Engines
    /\ \E protected \in BOOLEAN :
          /\ object = [exists |-> TRUE, running |-> FALSE, snap |-> FALSE,
                       image |-> engine # "services", protected |-> protected]
          /\ Sound(object)
    /\ Lock!Init
    /\ req = [r \in Requests |->
                [pc |-> "idle", op |-> "none", used |-> FALSE,
                 disturbed |-> FALSE, answer |-> "none", uncancelled |-> FALSE]]
    /\ engineWork = [r \in Requests |-> "none"]

-----------------------------------------------------------------------------
(* The tables of actions, with the resources that serialise them.           *)

ContainerActions == {"remove", "removeImage", "restart", "start", "stop"}

registerPodman == ContainerActions

registerDocker == ContainerActions

\* "stop" stands for the forced stop as well: its check is the same.
registerIncus == ContainerActions \cup {"create"}

registerSnapshotActions == {"snapshot", "restore", "deleteSnapshot"}

registerServices == {"disable", "enable", "resetFailed", "restart", "start", "stop"}

Actions ==
    CASE engine = "podman" -> registerPodman
      [] engine = "docker" -> registerDocker
      [] engine = "incus" -> registerIncus \cup registerSnapshotActions
      [] OTHER -> registerServices

\* What an action changes, whatever lock it takes.
Entity(op) ==
    CASE op = "removeImage" -> "image"
      [] op \in registerSnapshotActions -> "snapshot"
      [] OTHER -> "object"

\* Mutant: every action has a resource of its own, as its audit name would be.
keyOfAction(op) ==
    CASE op \in {"remove", "stop", "create", "removeImage"} -> "image"
      [] op \in registerSnapshotActions -> "snapshot"
      [] OTHER -> "object"

key(op) ==
    CASE op = "removeImage" -> "image"
      [] op \in registerSnapshotActions -> "snapshot"
      [] OTHER -> "object"

-----------------------------------------------------------------------------
(* What the managers require of what they saw: v is the object as it was     *)
(* read, used whether something uses the image.                             *)

podmanAllows(op, v, used) ==
    CASE op = "remove" -> v.exists /\ ~v.running
      [] op = "removeImage" -> v.image /\ ~used
      [] op = "start" -> v.exists /\ ~v.running
      [] OTHER -> v.exists /\ v.running

dockerAllows(op, v, used) ==
    CASE op = "remove" -> v.exists /\ ~v.running
      [] op = "removeImage" -> ~used /\ v.image
      [] op = "start" -> v.exists /\ ~v.running
      [] OTHER -> v.exists /\ v.running

incusAllows(op, v, used) ==
    CASE op = "remove" -> v.exists /\ ~v.running
      [] op = "removeImage" -> ~used /\ v.image
      [] op = "start" -> v.exists /\ ~v.running
      [] OTHER -> v.exists /\ v.running

CreateInstance(v) == ~v.exists

snapshotAllows(op, v) ==
    CASE op = "snapshot" -> v.exists /\ ~v.snap
      [] op = "deleteSnapshot" -> v.exists /\ v.snap
      [] OTHER -> v.exists /\ ~v.running /\ v.snap

validateUnit(op, v) == v.protected => op \notin {"stop", "disable"}

resolveUnit(v) == v.exists

Allows(op, v, used) ==
    IF op = "create" THEN CreateInstance(v)
    ELSE IF op \in registerSnapshotActions THEN snapshotAllows(op, v)
    ELSE CASE engine = "podman" -> podmanAllows(op, v, used)
           [] engine = "docker" -> dockerAllows(op, v, used)
           [] engine = "incus" -> incusAllows(op, v, used)
           [] OTHER -> validateUnit(op, v) /\ resolveUnit(v)

-----------------------------------------------------------------------------
(* The engines: they refuse what is impossible, and what would need force.  *)

\* The options the managers pass ask for no force.
forced(op) == FALSE

\* Pilothouse lets no image go that an instance was made from, and rolls no
\* running instance back; Incus would.
Carries(op, o) ==
    CASE op = "create" -> ~o.exists
      [] op = "remove" -> o.exists /\ (forced(op) \/ ~o.running)
      [] op = "removeImage" -> o.image /\ (forced(op) \/ engine = "incus" \/ ~o.exists)
      [] op = "snapshot" -> o.exists /\ ~o.snap
      [] op = "deleteSnapshot" -> o.snap
      [] op = "restore" -> o.snap
      [] OTHER -> o.exists

Effect(op, o) ==
    CASE op = "create" -> [o EXCEPT !.exists = TRUE, !.image = TRUE]
      [] op = "remove" -> [o EXCEPT !.exists = FALSE, !.running = FALSE, !.snap = FALSE]
      [] op = "removeImage" -> [o EXCEPT !.image = FALSE]
      [] op = "snapshot" -> [o EXCEPT !.snap = TRUE]
      [] op = "deleteSnapshot" -> [o EXCEPT !.snap = FALSE]
      [] op \in {"start", "restart"} -> [o EXCEPT !.running = TRUE]
      [] op = "stop" -> [o EXCEPT !.running = FALSE]
      [] OTHER -> o

\* The calls that are told of a change neither they nor the lock can prevent.
Disturb(others) ==
    req' = [r \in Requests |-> [req[r] EXCEPT !.disturbed = @ \/ r \in others]]

-----------------------------------------------------------------------------
(* A call of Execute.                                                       *)

\* The registry's lock comes first; a call that has to wait is not there yet.
Begin(r, op) ==
    /\ req[r].pc \in {"idle", "done"}
    /\ engineWork[r] # "running"
    /\ op \in Actions
    /\ Lock!Take(r, key(op))
    /\ req' = [req EXCEPT ![r] = [pc |-> "look", op |-> op, used |-> FALSE,
                                  disturbed |-> FALSE, answer |-> "none",
                                  uncancelled |-> FALSE]]
    /\ engineWork' = [engineWork EXCEPT ![r] = "none"]
    /\ UNCHANGED <<engine, object>>

\* The handler returns and the registry unlocks; what happens from now on is not
\* the call's concern.
Answer(r, answer, uncancelled) ==
    /\ req' = [req EXCEPT ![r] = [@ EXCEPT !.pc = "done", !.answer = answer,
                                           !.uncancelled = uncancelled,
                                           !.used = FALSE, !.disturbed = TRUE]]
    /\ Lock!Give(r, key(req[r].op))

Decide(r, used) ==
    IF Allows(req[r].op, object, used)
    THEN req' = [req EXCEPT ![r].pc = "act"] /\ UNCHANGED owner
    ELSE Answer(r, "refused", FALSE)

\* containers and images are read in one call by Podman, in two by the others.
container(r) ==
    /\ req[r].pc = "look"
    /\ IF req[r].op = "removeImage" /\ engine # "podman"
       THEN /\ req' = [req EXCEPT ![r] = [@ EXCEPT !.pc = "images",
                                                   !.used = object.exists]]
            /\ UNCHANGED owner
       ELSE Decide(r, object.exists)
    /\ UNCHANGED <<engine, object, engineWork>>

images(r) ==
    /\ req[r].pc = "images"
    /\ Decide(r, req[r].used)
    /\ UNCHANGED <<engine, object, engineWork>>

\* A list that cannot be read, or a container that is gone before its inspection.
LookFails(r) ==
    /\ req[r].pc \in {"look", "images"}
    /\ Answer(r, "error", FALSE)
    /\ UNCHANGED <<engine, object, engineWork>>

\* systemd replaces the unit's queued job by a new one.
Replaced(r) ==
    {w \in Requests : /\ engine = "services" /\ engineWork[w] = "running"
                      /\ {req[r].op, req[w].op} \subseteq {"start", "stop", "restart"}}

Submit(r) ==
    /\ req[r].pc = "act"
    /\ req' = [req EXCEPT ![r].pc = "wait"]
    /\ engineWork' = [w \in Requests |-> IF w = r THEN "running"
                                         ELSE IF w \in Replaced(r) THEN "cancelled"
                                         ELSE engineWork[w]]
    /\ UNCHANGED <<engine, object, owner>>

\* No connection; for a creation also an image server that has no such image.
SubmitFails(r) ==
    /\ req[r].pc = "act"
    /\ Answer(r, "error", FALSE)
    /\ UNCHANGED <<engine, object, engineWork>>

Carry(r) ==
    /\ engineWork[r] = "running"
    /\ Carries(req[r].op, object)
    /\ object' = Effect(req[r].op, object)
    /\ engineWork' = [engineWork EXCEPT ![r] = "done"]
    /\ Disturb({q \in Requests \ {r} : \/ req[r].pc = "done"
                                       \/ Entity(req[q].op) # Entity(req[r].op)})
    /\ UNCHANGED <<engine, owner>>

WorkFails(r) ==
    /\ engineWork[r] = "running"
    /\ engineWork' = [engineWork EXCEPT ![r] = "failed"]
    /\ UNCHANGED <<engine, object, owner, req>>

\* Mutant: the operation is not waited for.
ReplyAtOnce(r) ==
    /\ req[r].pc = "wait"
    /\ Answer(r, "ok", FALSE)
    /\ UNCHANGED <<engine, object, engineWork>>

\* systemd answers when the job is queued, the others when the work is over.
Reply(r) ==
    /\ req[r].pc = "wait"
    /\ \/ engine = "services" /\ Answer(r, "ok", FALSE)
       \/ engineWork[r] = "done" /\ Answer(r, "ok", FALSE)
       \/ engineWork[r] = "failed" /\ Answer(r, "error", FALSE)
    /\ UNCHANGED <<engine, object, engineWork>>

\* The context or the client's time-out ends the wait; the work goes on.
WaitEnds(r) ==
    /\ req[r].pc = "wait"
    /\ IF req[r].op = "create"
       THEN req' = [req EXCEPT ![r].pc = "cancel"] /\ UNCHANGED owner
       ELSE Answer(r, "ended", FALSE)
    /\ UNCHANGED <<engine, object, engineWork>>

\* waitRemote cancels the operation, and drops the error of that.
waitRemote(r) ==
    /\ req[r].pc = "cancel"
    /\ \/ /\ engineWork[r] = "running"
          /\ engineWork' = [engineWork EXCEPT ![r] = "cancelled"]
          /\ Answer(r, "ended", FALSE)
       \/ UNCHANGED engineWork /\ Answer(r, "ended", TRUE)
    /\ UNCHANGED <<engine, object>>

\* Anybody else who uses the engine.
Outside ==
    /\ \E o \in Objects : /\ Sound(o) /\ o # object /\ object' = o
                          /\ o.protected = object.protected
    /\ Disturb(Requests)
    /\ UNCHANGED <<engine, owner, engineWork>>

Step(r) ==
    \/ \E op \in Actions : Begin(r, op)
    \/ container(r) \/ images(r) \/ LookFails(r)
    \/ Submit(r) \/ SubmitFails(r) \/ Carry(r) \/ WorkFails(r)
    \/ Reply(r) \/ WaitEnds(r) \/ waitRemote(r)

Next == Outside \/ \E r \in Requests : Step(r)

Spec == Init /\ [][Next]_hostObjectsVars

-----------------------------------------------------------------------------
(* Properties                                                               *)

\* What a manager checked still holds when the engine gets to it, unless
\* something changed the object that the action's lock cannot keep away: another
\* user of the engine, work left over from a call whose wait ended, or, for
\* Incus, an action on the instance beside one on its snapshot.
ChecksHold ==
    \A r \in Requests :
        /\ req[r].pc = "act" \/ (req[r].pc \in {"wait", "cancel"} /\ engineWork[r] = "running")
        /\ ~req[r].disturbed
        => /\ Allows(req[r].op, object, object.exists)
           /\ Carries(req[r].op, object)

\* What a call reports is what happened: "ok" means done (for a unit: queued), a
\* refusal that the engine was not asked, an error that nothing was done; and
\* work that outlives its call is one whose wait ended, a creation only
\* if its cancellation failed.
AnswersAreTrue ==
    \A r \in Requests :
        req[r].pc = "done" =>
            /\ req[r].answer = "ok" => engineWork[r] = "done" \/ engine = "services"
            /\ req[r].answer = "refused" => engineWork[r] = "none"
            /\ req[r].answer = "error" => engineWork[r] \in {"none", "failed"}
            /\ engineWork[r] = "running" =>
                 \/ engine = "services"
                 \/ /\ req[r].answer = "ended"
                    /\ req[r].op = "create" => req[r].uncancelled

\* Two orders for one resource are with the engine at the same time only if the
\* first was left over: its call gave up waiting, told so, and a creation was
\* cancelled in vain.  (Orders for units are not waited for.)  So a call that was
\* answered by the engine is never overtaken by the one that follows it.
OrdersAreSerial ==
    \A r, q \in Requests :
        /\ engine # "services" /\ r # q
        /\ engineWork[r] = "running" /\ engineWork[q] = "running"
        /\ Entity(req[r].op) = Entity(req[q].op)
        => \E left \in {r, q} :
              /\ req[left].pc = "done" /\ req[left].answer = "ended"
              /\ req[left].op = "create" => req[left].uncancelled

\* A manager's check holds when the engine acts on it, and what the call reports
\* is what happened: ChecksHold and AnswersAreTrue.
ObjectsAgree == ChecksHold /\ AnswersAreTrue

==============================================================================
