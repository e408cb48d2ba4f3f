------------------------------- MODULE HostImage -------------------------------
(***************************************************************************)
(* The host image report: bootc says which deployments there are, then      *)
(* rpm-ostree is asked for detail of the same deployments, which is joined   *)
(* to them by role or by identity.  The host may stage, unstage or boot       *)
(* deployments between the two commands.                                    *)
(*                                                                          *)
(* A deployment stands for its digest, and for its version and checksum,     *)
(* which differ from those of any other.  An image reference is a sequence    *)
(* of prefixes before a name.                                               *)
(***************************************************************************)
EXTENDS Sequences, SequencesExt

CONSTANTS Deployments,    \* that the host may have
          Container,      \* those that came from a container image
          SoftRebootable, \* those that a soft reboot could start
          Decorations,    \* the prefixes that rpm-ostree writes before a name
          NoDeployment

VARIABLES have,    \* the tools that were probed at the start
          tools,   \* what their versions report: "soft" of bootc, "digest" of rpm-ostree
          slots,   \* the host: booted, staged and rollback, and one more, pinned
          moved,   \* the host changed between the two commands of the last report
          pc,
          bootc,   \* what bootc said
          report   \* the answer of Status

hostImageVars == <<have, tools, slots, moved, pc, bootc, report>>

HostImageAssumption ==
    /\ Container \subseteq Deployments /\ SoftRebootable \subseteq Deployments
    /\ NoDeployment \notin Deployments
    /\ \A d \in Decorations : d \in Seq({"ostree", "remote", "docker"})

Slots == {"booted", "staged", "rollback"}

Some == Deployments \cup {NoDeployment}

None == [of |-> NoDeployment, digest |-> NoDeployment, image |-> <<>>,
         detail |-> NoDeployment]

NoReport == [available |-> FALSE, rpmOStree |-> FALSE, soft |-> "unknown",
             slot |-> [s \in Slots |-> None]]

\* All container deployments have been built under one name.
Name == "image"

-----------------------------------------------------------------------------
(* The two documents.                                                       *)

deployment(d) ==
    IF d \in Container
    THEN [of |-> d, digest |-> d, image |-> <<Name>>, detail |-> NoDeployment]
    ELSE [None EXCEPT !.of = d]

softRebootCapable ==
    LET next == IF slots.staged # NoDeployment THEN slots.staged ELSE slots.booted
    IN  IF "soft" \notin tools THEN "unknown"
        ELSE IF next \in SoftRebootable THEN "yes" ELSE "no"

ParseBootcStatus ==
    [available |-> TRUE, rpmOStree |-> FALSE, soft |-> softRebootCapable,
     slot |-> [s \in Slots |-> deployment(slots[s])]]

\* rpm-ostree lists the deployments in boot order and flags two of them.
ParseRPMOStreeStatus(decoration) ==
    LET listed == SelectSeq(<<"staged", "booted", "rollback", "pinned">>,
                            LAMBDA s : slots[s] # NoDeployment)
    IN  [i \in DOMAIN listed |->
           LET d == slots[listed[i]] IN
           [booted |-> listed[i] = "booted", staged |-> listed[i] = "staged",
            detail |-> d,
            digest |-> IF d \in Container /\ "digest" \in tools THEN d ELSE NoDeployment,
            image |-> IF d \in Container THEN Append(decoration, Name) ELSE <<>>]]

-----------------------------------------------------------------------------
(* Joining them.                                                            *)

\* One leading ostree transport goes, and all that comes before "docker://".
normalizeImageRef(reference) ==
    LET rest == IF reference # <<>> /\ Head(reference) = "ostree"
                THEN Tail(reference) ELSE reference
    IN  IF Contains(rest, "docker")
        THEN SubSeq(rest, SelectInSeq(rest, LAMBDA t : t = "docker") + 1, Len(rest))
        ELSE rest

compareIdentity(deploy, entry) ==
    LET verdict(same) == IF same THEN "match" ELSE "conflict"
    IN  IF deploy.digest # NoDeployment /\ entry.digest # NoDeployment
        THEN verdict(deploy.digest = entry.digest)
        ELSE IF deploy.image # <<>> /\ entry.image # <<>>
        THEN verdict(normalizeImageRef(deploy.image) = normalizeImageRef(entry.image))
        ELSE "unknown"

\* Mutant: the role is believed.
supplementByRole(deploy, entry) == [deploy EXCEPT !.detail = entry.detail]

supplementDeployment(deploy, entry) ==
    IF compareIdentity(deploy, entry) = "conflict" THEN deploy
    ELSE [deploy EXCEPT !.detail = entry.detail]

\* The first entry that fits and was not taken before, or 0.
take(fitting, claimed) ==
    IF fitting \subseteq claimed THEN 0 ELSE Min(fitting \ claimed)

MergeHostImage(status, entries) ==
    LET Supplement(s, i) ==
          IF status.slot[s].of = NoDeployment \/ i = 0 THEN status.slot[s]
          ELSE supplementDeployment(status.slot[s], entries[i])
        Taken(s, claimed, fitting) ==
          IF status.slot[s].of = NoDeployment THEN 0 ELSE take(fitting, claimed)
        booted == Taken("booted", {}, {i \in DOMAIN entries : entries[i].booted})
        staged == Taken("staged", {booted}, {i \in DOMAIN entries : entries[i].staged})
        rollback ==
          Taken("rollback", {booted, staged},
                {i \in DOMAIN entries :
                   /\ ~entries[i].booted /\ ~entries[i].staged
                   /\ compareIdentity(status.slot["rollback"], entries[i]) = "match"})
    IN  [status EXCEPT !.slot = [s \in Slots |->
           Supplement(s, CASE s = "booted" -> booted
                           [] s = "staged" -> staged
                           [] s = "rollback" -> rollback)]]

-----------------------------------------------------------------------------
Init ==
    /\ have \in SUBSET {"bootc", "rpm-ostree"}
    /\ tools \in SUBSET {"soft", "digest"}
    /\ slots \in [booted : Deployments, staged : {NoDeployment},
                  rollback : Some, pinned : Some]
    /\ \A s, t \in DOMAIN slots : slots[s] = slots[t] => s = t \/ slots[s] = NoDeployment
    /\ moved = FALSE /\ pc = "idle"
    /\ bootc = NoReport /\ report = NoReport

Fresh == Deployments \ {slots[s] : s \in DOMAIN slots}

Stage ==
    /\ \E d \in Fresh \cup {NoDeployment} : slots' = [slots EXCEPT !.staged = d]
    /\ moved' = (moved \/ pc = "supplement")
    /\ UNCHANGED <<have, tools, pc, bootc, report>>

\* Reports do not outlive a boot: one that is under way is abandoned.
Reboot ==
    /\ pc = "idle"
    /\ slots.staged # NoDeployment
    /\ slots' = [slots EXCEPT !.booted = slots.staged, !.rollback = slots.booted,
                              !.staged = NoDeployment]
    /\ report' = NoReport
    /\ UNCHANGED <<have, tools, moved, pc, bootc>>

\* bootc status, or its absence, or a failure of it.
bootcStatus ==
    /\ pc = "idle"
    /\ \/ "bootc" \in have /\ bootc' = ParseBootcStatus
       \/ bootc' = NoReport
    /\ pc' = "supplement" /\ moved' = FALSE
    /\ UNCHANGED <<have, tools, slots, report>>

\* rpm-ostree status, and the end of Status.
rpmOStreeStatus ==
    /\ pc = "supplement"
    /\ \/ /\ "rpm-ostree" \in have
          /\ \E decoration \in Decorations :
               report' = [MergeHostImage(bootc, ParseRPMOStreeStatus(decoration))
                            EXCEPT !.rpmOStree = TRUE]
       \/ report' = MergeHostImage(bootc, <<>>)
    /\ pc' = "idle"
    /\ UNCHANGED <<have, tools, slots, moved, bootc>>

Next == Stage \/ Reboot \/ bootcStatus \/ rpmOStreeStatus

Spec == Init /\ [][Next]_hostImageVars

-----------------------------------------------------------------------------
(* Properties                                                               *)

\* rpm-ostree adds no deployment and takes none away, and what it adds to a slot
\* is detail of the deployment that bootc reported there, whatever happened
\* between the two commands, if both name the deployment's digest.  Where nothing
\* happened, booted and staged have the detail whenever their names agree.
DetailBelongs ==
    LET known == "digest" \in tools IN
    pc = "idle" /\ report # NoReport =>
        /\ report.soft = bootc.soft
        /\ \A s \in Slots :
             LET r == report.slot[s] IN
             /\ r = [bootc.slot[s] EXCEPT !.detail = r.detail]
             /\ {r.of, r.detail} \subseteq Container /\ known => r.detail = r.of
             /\ s # "rollback" /\ r.detail # NoDeployment /\ ~moved => r.detail = r.of
             /\ s # "rollback" /\ ~moved /\ known /\ report.rpmOStree => r.detail = r.of

\* Detail of one deployment is never shown for another, as the comment on
\* normalizeImageRef demands.
NoForeignDetail ==
    \A s \in Slots : report.slot[s].detail \in {NoDeployment, report.slot[s].of}

==============================================================================
