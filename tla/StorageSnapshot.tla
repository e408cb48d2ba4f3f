--------------------------- MODULE StorageSnapshot ---------------------------
(***************************************************************************)
(* From the backends' results to the snapshot of one State call            *)
(* (src/internal/modules/storage/normalize.go and manager.go): the core    *)
(* results are merged and checked, the inventory made from them is given   *)
(* to the enrichers, whose results are applied one after the other, each   *)
(* to a copy that replaces the aggregate only if it is still consistent.   *)
(* Every list is bounded, and the whole is halved until it fits.           *)
(*                                                                         *)
(* host is what the tools print, together with the enrichers that fail     *)
(* (down), those whose complete result comes with the deadline already     *)
(* passed (late), and the state of the health cache (cache: none, fresh,   *)
(* expired), whose entry is of the machine as it was (earlier).  Sizes     *)
(* are counted in records instead of bytes.                                *)
(***************************************************************************)
EXTENDS StorageBackends

CONSTANTS Hosts, MaxDepth, MaxSnapshot

VARIABLES
    host,       \* what the tools of this machine print
    step,       \* "core", the number of the next enricher, "finish", "done", "failed"
    agg,        \* aggregate
    inv,        \* the inventory of the enrichers
    given,      \* the results so far, by backend; a refused one is empty
    statuses,   \* availability, by backend
    snap        \* the snapshot

snapshotVars == <<host, step, agg, inv, given, statuses, snap>>

Enrichers == <<"smart", "mdraid", "lvm", "device-mapper", "multipath", "zfs", "btrfs">>

Backends == {"block", "mount"} \cup Range(Enrichers)

StaleMark == <<"Health data", "Stale">>

IDs(resources) == {resources[i].id : i \in DOMAIN resources}

First(s, n) == SubSeq(s, 1, Min({n, Len(s)}))

-----------------------------------------------------------------------------
(* aggregate.apply *)

newAggregate ==
    [resources |-> <<>>, relations |-> <<>>, mounts |-> <<>>, findings |-> <<>>,
     dropped |-> {}, truncated |-> {}, conflict |-> FALSE]

mergeDetails(core, enriched) ==
    LET stale   == Contains(enriched, StaleMark)
        Fresh(d) == d # StaleMark
        merged  == First(core \o SelectSeq(enriched, Fresh),
                         IF stale THEN MaxDetails - 1 ELSE MaxDetails)
    IN  IF Len(core) >= MaxDetails THEN First(core, MaxDetails)
        ELSE IF stale THEN Append(merged, StaleMark) ELSE merged

\* Mutant: the last backend to speak decides on the health.
mergeResourceLast(old, new) ==
    [old EXCEPT !.details = mergeDetails(@, new.details), !.health = new.health]

mergeResource(old, new) ==
    [old EXCEPT !.details = mergeDetails(@, new.details),
                !.health  = higherHealth(@, new.health),
                !.state   = IF new.state = "" THEN @ ELSE new.state]

applyResource(a, backend, r, enrich) ==
    LET at == {i \in DOMAIN a.resources : a.resources[i].id = r.id}
    IN  IF at # {} THEN IF enrich THEN [a EXCEPT !.resources[Min(at)] = mergeResource(@, r)]
                        ELSE [a EXCEPT !.conflict = TRUE]
        ELSE IF Len(a.resources) = MaxResources
             THEN [a EXCEPT !.dropped = @ \cup {r.id}, !.truncated = @ \cup {backend}]
        ELSE [a EXCEPT !.resources = Append(@, [r EXCEPT !.details = First(@, MaxDetails)]),
                       !.truncated = IF Len(r.details) > MaxDetails THEN @ \cup {backend} ELSE @]

applyRelation(a, backend, rel) ==
    IF {rel[1], rel[3]} \cap a.dropped # {} \/ Contains(a.relations, rel) THEN a
    ELSE IF Len(a.relations) = MaxRelations THEN [a EXCEPT !.truncated = @ \cup {backend}]
    ELSE [a EXCEPT !.relations = Append(@, rel)]

\* Mutant: mounts beyond the limit are left out without a word.
applyMountSilently(a, backend, mount, enrich) ==
    IF \E i \in DOMAIN a.mounts : enrich /\ a.mounts[i].id = mount.id
    THEN [a EXCEPT !.mounts = [i \in DOMAIN @ |-> IF @[i].id = mount.id THEN mount ELSE @[i]]]
    ELSE [a EXCEPT !.mounts = First(Append(@, mount), MaxMounts)]

applyMount(a, backend, mount, enrich) ==
    LET m  == IF mount.resource \in a.dropped THEN [mount EXCEPT !.resource = NoID] ELSE mount
        at == {i \in DOMAIN a.mounts : enrich /\ a.mounts[i].id = m.id}
    IN  IF at # {} THEN [a EXCEPT !.mounts[Min(at)] = m]
        ELSE IF Len(a.mounts) = MaxMounts THEN [a EXCEPT !.truncated = @ \cup {backend}]
        ELSE [a EXCEPT !.mounts = Append(@, m)]

applyFinding(a, backend, f) ==
    IF Len(a.findings) = MaxFindings THEN [a EXCEPT !.truncated = @ \cup {backend}]
    ELSE [a EXCEPT !.findings = Append(@, f)]

apply(a, backend, result, enrich) ==
    LET Res(x, r) == applyResource(x, backend, r, enrich)
        Rel(x, r) == applyRelation(x, backend, r)
        Mnt(x, m) == applyMount(x, backend, m, enrich)
        Fnd(x, f) == applyFinding(x, backend, f)
    IN  FoldLeft(Fnd, FoldLeft(Mnt, FoldLeft(Rel, FoldLeft(Res, a, result.resources),
                                             result.relations), result.mounts), result.findings)

\* The nodes from which n edges can be walked; a cycle can be walked for ever.
WalkableFrom(ids, relations, n) ==
    LET Back(nodes, k) == {r[1] : r \in {r \in relations : r[3] \in nodes}}
    IN  FoldLeft(Back, ids, [k \in 1..n |-> k])

validateGraph(resources, relations) ==
    WalkableFrom(IDs(resources) \cup {r[3] : r \in Range(relations)}, Range(relations),
                 MaxDepth + 1) = {}

validate(a) ==
    /\ \A f \in Range(a.findings) : f.id = NoID \/ f.id \in IDs(a.resources)
    /\ \A r \in Range(a.relations) : {r[1], r[3]} \subseteq IDs(a.resources)
    /\ validateGraph(a.resources, a.relations)

-----------------------------------------------------------------------------
(* The rest of normalize *)

isExpectedImmutableMount(m) == m.fs = "erofs"

mountHealth(m) ==
    IF m.pct >= 90 THEN "critical" ELSE IF m.pct >= 80 THEN "warning" ELSE m.health

flagMount(m) ==
    IF isExpectedImmutableMount(m) THEN m
    ELSE [m EXCEPT !.health = IF m.readOnly /\ ~m.managed
                              THEN higherHealth(mountHealth(m), "warning") ELSE mountHealth(m)]

mountFindings(m) ==
    LET About(severity) == [id |-> m.resource, severity |-> severity, target |-> m.target]
    IN  IF isExpectedImmutableMount(m) THEN <<>>
        ELSE (IF m.pct >= 80 THEN <<About(mountHealth(m))>> ELSE <<>>)
             \o (IF m.readOnly /\ ~m.managed THEN <<About("warning")>> ELSE <<>>)

sortFindings(findings) ==
    LET Worse(f, g) == healthRank(f.severity) > healthRank(g.severity)
    IN  SortSeq(findings, Worse)

\* Mutant: relations and mounts are cleaned, the findings of removed resources stay.
sanitizeSnapshotRelations(s, removed) ==
    LET Stays(r) == {r[1], r[3]} \cap removed = {}
    IN  [s EXCEPT !.relations = SelectSeq(@, Stays)]

sanitizeSnapshotReferences(s, removed) ==
    LET Stays(r)  == {r[1], r[3]} \cap removed = {}
        Kept(f)   == f.id \notin removed
    IN  [s EXCEPT !.relations = SelectSeq(@, Stays),
                  !.mounts    = [i \in DOMAIN @ |-> IF @[i].resource \in removed
                                                    THEN [@[i] EXCEPT !.resource = NoID] ELSE @[i]],
                  !.findings  = SelectSeq(@, Kept)]

Size(s) == Len(s.resources) + Len(s.relations) + Len(s.mounts) + Len(s.findings)

Half(seq) == First(seq, Len(seq) \div 2)

halveSnapshot(s) ==
    LET t == [s EXCEPT !.truncated = TRUE, !.cut = TRUE]
        kept == Half(s.resources)
    IN  IF s.resources # <<>>
        THEN sanitizeSnapshotReferences([t EXCEPT !.resources = kept],
                                        IDs(s.resources) \ IDs(kept))
        ELSE IF s.findings # <<>> THEN [t EXCEPT !.findings = Half(@)]
        ELSE [t EXCEPT !.mounts = Half(@)]

RECURSIVE enforceSnapshotLimit(_)
enforceSnapshotLimit(s) ==
    IF Size(s) <= MaxSnapshot THEN s ELSE enforceSnapshotLimit(halveSnapshot(s))

Worst(healths) ==
    LET Up(h, g) == higherHealth(h, g) IN FoldLeft(Up, "healthy", SetToSeq(healths))

Healths(seq) == {seq[i].health : i \in DOMAIN seq}

recalculateSummary(s) ==
    LET Sick(r)   == healthRank(r.health) >= healthRank("warning")
        Counts(i) == /\ s.mounts[i].fs # "overlay" /\ s.mounts[i].resource # NoID
                     /\ \A j \in 1..(i - 1) : \/ s.mounts[j].fs = "overlay"
                                              \/ s.mounts[j].resource # s.mounts[i].resource
    IN  [highest   |-> Worst(Healths(s.resources) \cup Healths(s.mounts)
                             \cup {s.findings[i].severity : i \in DOMAIN s.findings}),
         unhealthy |-> Len(SelectSeq(s.resources, Sick)),
         usable    |-> MapThenSumSet(LAMBDA i : s.mounts[i].total,
                                     {i \in DOMAIN s.mounts : Counts(i)})]

\* normalize after the results are applied.  Findings of mounts beyond the
\* limit are left out; the flag has been computed by then.
normalize(a) ==
    LET mounts   == [i \in DOMAIN a.mounts |-> flagMount(a.mounts[i])]
        findings == First(a.findings \o ConcatOf(LAMBDA i, m : mountFindings(m), a.mounts), MaxFindings)
        s == enforceSnapshotLimit(
                [resources |-> a.resources, relations |-> a.relations, mounts |-> mounts,
                 findings |-> sortFindings(findings), truncated |-> a.truncated # {}, cut |-> FALSE])
    IN  s @@ [summary |-> recalculateSummary(s)]

-----------------------------------------------------------------------------
(* State: the core results, then the enrichers in their fixed order. *)

markStale(result) ==
    [result EXCEPT !.resources =
        [i \in DOMAIN @ |-> [@[i] EXCEPT !.details = Append(First(@, MaxDetails - 1), StaleMark)]]]

CoreResults(machine) ==
    [block |-> parseLSBLK(machine.lsblk), mount |-> parseFindmnt(machine.findmnt)]

CoreAggregate(results) ==
    apply(apply(newAggregate, "block", results.block, FALSE), "mount", results.mount, FALSE)

InventoryOf(a, links) ==
    LET core == normalize(a) IN inventoryFromSnapshot(core.resources, core.mounts, links)

\* What the enricher of this name returns for the host.
Collect(name) ==
    CASE name = "smart"   -> smartResult(inv, host.smart)
      [] name = "mdraid"  -> mdraidResult(inv, host.mdraid)
      [] name = "lvm"     -> lvmResult(inv, host.pvs, host.vgs, host.lvs)
      [] name = "device-mapper" -> deviceMapperResult(inv, host.dm)
      [] name = "multipath" -> multipathResult(inv, host.maps, host.paths)
      [] name = "zfs"     -> zfsResult(inv, host.pools, host.states, host.datasets)
      [] name = "btrfs"   -> btrfsCollect(inv, host.btrfs)

\* The cached result was collected for the inventory of an earlier call.
CachedResult ==
    LET old == host.earlier
    IN  smartResult(InventoryOf(CoreAggregate(CoreResults(old)), old.links), old.smart)

\* collectEnricher: the cached backend's entry is served while it is fresh, and,
\* marked, when a refresh fails; a partial or late result of that backend is
\* dropped.  The others' results are applied whether or not they come with an
\* error.
collectEnricher(name, found) ==
    LET err == found.err \/ name \in host.late
    IN  IF name # "smart" THEN [found EXCEPT !.err = err]
        ELSE IF host.cache = "fresh" THEN CachedResult
        ELSE IF ~err THEN found
        ELSE IF host.cache = "expired" THEN [markStale(CachedResult) EXCEPT !.err = TRUE]
        ELSE Failed

Core ==
    /\ step = "core"
    /\ LET results == CoreResults(host)
           a       == CoreAggregate(results)
       IN  IF results.block.err \/ results.mount.err \/ a.conflict \/ ~validate(a)
           THEN /\ step' = "failed"
                /\ UNCHANGED <<agg, inv, given>>
           ELSE /\ step' = "enrich"
                /\ agg' = a
                /\ inv' = InventoryOf(a, host.links)
                /\ given' = results
    /\ UNCHANGED <<host, statuses, snap>>

NextEnricher(done) == Enrichers[Cardinality(done) - 1]

\* The candidate replaces the aggregate if it is consistent.
Take(name, result, candidate) ==
    LET accepted == validate(candidate)
    IN  /\ agg' = IF accepted THEN candidate ELSE agg
        /\ given' = given @@ (name :> IF accepted THEN result
                                      ELSE [Failed EXCEPT !.err = result.err])
        /\ statuses' = [statuses EXCEPT ![name] =
                           IF result.err \/ ~accepted THEN "unavailable" ELSE "available"]

Enrich ==
    /\ step = "enrich"
    /\ DOMAIN given # Backends
    /\ LET name   == NextEnricher(DOMAIN given)
           result == collectEnricher(name, IF name \in host.down THEN Failed ELSE Collect(name))
       IN  Take(name, result, apply(agg, name, result, TRUE))
    /\ UNCHANGED <<host, step, inv, snap>>

Finish ==
    /\ step = "enrich"
    /\ DOMAIN given = Backends
    /\ LET s == normalize(agg)
       IN  /\ snap' = s
           /\ statuses' = [b \in Backends |->
                              IF ~given[b].err /\ (b \in agg.truncated \/ s.cut) THEN "truncated"
                              ELSE statuses[b]]
    /\ step' = "done"
    /\ UNCHANGED <<host, agg, inv, given>>

NoSnapshot ==
    [resources |-> <<>>, relations |-> <<>>, mounts |-> <<>>, findings |-> <<>>, truncated |-> FALSE,
     cut |-> FALSE, summary |-> [highest |-> "healthy", unhealthy |-> 0, usable |-> 0]]

SnapshotInit ==
    /\ host \in Hosts
    /\ step = "core"
    /\ agg = newAggregate
    /\ inv = inventoryFromSnapshot(<<>>, <<>>, {})
    /\ given = << >>
    /\ statuses = [b \in Backends |-> "available"]
    /\ snap = NoSnapshot

SnapshotNext == Core \/ Enrich \/ Finish

-----------------------------------------------------------------------------
(* Properties *)

Done == step = "done"

\* What a snapshot refers to is in it, whatever was refused, dropped at a limit
\* or halved away: the endpoints of relations, the resources of the backends'
\* findings; the relations form a graph of bounded depth, without cycles; and
\* no list exceeds its limit (aggregate.validate, enforceSnapshotLimit).
SnapshotIsClosed ==
    Done =>
        /\ \A r \in Range(snap.relations) : {r[1], r[3]} \subseteq IDs(snap.resources)
        /\ \A f \in Range(snap.findings) :
              f.id \in IDs(snap.resources) \/ f.id = NoID \/ f.target # ""
        /\ validateGraph(snap.resources, snap.relations)
        /\ Size(snap) <= MaxSnapshot /\ Len(snap.resources) <= MaxResources
        /\ \A i \in DOMAIN snap.resources : Len(snap.resources[i].details) <= MaxDetails

\* However many backends speak of a resource, and in whatever order they are
\* merged, the snapshot shows it no healthier than the worst of them did, the
\* summary no healthier than any part, and health that comes from an expired
\* cache entry carries the mark, unless the snapshot says it was cut.
NoHealthIsHidden ==
    Done /\ ~snap.truncated =>
        /\ \A b \in Backends : \A r \in Range(given[b].resources) :
              \E s \in Range(snap.resources) :
                 /\ s.id = r.id
                 /\ healthRank(s.health) >= healthRank(r.health)
                 /\ healthRank(snap.summary.highest) >= healthRank(r.health)
                 /\ Contains(r.details, StaleMark) => Contains(s.details, StaleMark)
        /\ \A f \in Range(snap.findings) :
              healthRank(snap.summary.highest) >= healthRank(f.severity)

\* What a backend whose result was applied reported and the snapshot lacks is
\* announced: the snapshot is marked truncated, and then not every backend is
\* shown as available.  (Which one was cut cannot be told: a result that is
\* applied although it came with an error may be the one that hits the limit,
\* and State puts the error in the place of the mark.)  Findings that normalize
\* derives from mounts are not covered: beyond MaxFindings they are dropped
\* after the mark was computed.
LossIsMarked ==
    Done =>
        /\ (\E b \in Backends :
               \/ \E r \in Range(given[b].resources) : r.id \notin IDs(snap.resources)
               \/ \E m \in Range(given[b].mounts) : m.id \notin IDs(snap.mounts)
               \/ \E r \in Range(given[b].relations) : ~Contains(snap.relations, r)
               \/ \E f \in Range(given[b].findings) : ~Contains(snap.findings, f))
           => snap.truncated
        /\ snap.truncated => \E b \in Backends : statuses[b] # "available"

\* "a read-only mount that Pilothouse does not manage is a warning"
\* (docs/specs/storage.md), for every mount that findmnt reported as read-only.
\* It does not hold: zfsResult builds the mount of a dataset without the flag,
\* and apply puts it in the place of the one from findmnt.
MountHealthRule ==
    Done /\ ~snap.truncated =>
        \A m \in Range(given["mount"].mounts) :
            m.readOnly /\ ~isExpectedImmutableMount(m) =>
                \E s \in Range(snap.mounts) :
                    s.id = m.id /\ healthRank(s.health) >= healthRank("warning")
=============================================================================
