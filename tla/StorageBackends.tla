--------------------------- MODULE StorageBackends ---------------------------
(***************************************************************************)
(* What the storage backends report (src/internal/modules/storage):        *)
(* lsblk and findmnt (core.go), and the enrichers SMART, MD RAID, LVM,     *)
(* device-mapper, multipath, ZFS and Btrfs.  A backend is a function from  *)
(* what its tools print, abstracted to the fields that decide health,      *)
(* identity and relations, to a result: resources, relations, mounts and   *)
(* findings, or an error.  Results are sequences in the order of           *)
(* collection; the sorts by the hash in an ID are left out.  A tool that   *)
(* fails or prints what does not parse is Failed, chosen where backends    *)
(* are used.                                                               *)
(***************************************************************************)
EXTENDS Naturals, Sequences, FiniteSets, SequencesExt, FiniteSetsExt

CONSTANTS MaxResources, MaxRelations, MaxMounts, MaxFindings, MaxDetails

Ranks == [healthy |-> 0, unknown |-> 1, warning |-> 2, critical |-> 3]

healthRank(h) == IF h \in DOMAIN Ranks THEN Ranks[h] ELSE 0

higherHealth(current, candidate) ==
    IF healthRank(candidate) > healthRank(current) THEN candidate ELSE current

stableID(kind, identity) == <<kind, identity>>

NoID == <<"", "">>

Unknown == 999      \* a capacity that findmnt prints as "-", "" or null

Resource(id, kind, path, health, state, details) ==
    [id |-> id, kind |-> kind, path |-> path, health |-> health, state |-> state,
     details |-> details]

Finding(id, severity) == [id |-> id, severity |-> severity, target |-> ""]

AdapterResult(resources, relations, mounts, findings) ==
    [resources |-> resources, relations |-> relations, mounts |-> mounts,
     findings |-> findings, truncated |-> FALSE, err |-> FALSE]

Failed == [AdapterResult(<<>>, <<>>, <<>>, <<>>) EXCEPT !.err = TRUE]

ConcatOf(Op(_, _), s) == FlattenSeq([i \in 1..Len(s) |-> Op(i, s[i])])

(***************************************************************************)
(* Core: lsblk.  The tree is the sequence of its nodes in the order of the *)
(* walk; a device with two parents occurs twice and is one resource.  The  *)
(* UUID of a file system goes to the resource of the file system, which    *)
(* has no path; the device has the path.                                   *)
(***************************************************************************)
blockKind(type) == IF type = "part" THEN "partition" ELSE type

blockState(dev) == IF dev.ro THEN "read-only" ELSE "available"

BlockID(devs, num) ==
    LET i == CHOOSE j \in DOMAIN devs : devs[j].num = num
    IN  stableID(blockKind(devs[i].type), num)

validateBlockDevice(dev) == dev.sound

filesystemDetails(dev) == IF dev.uuid = "" THEN <<>> ELSE <<<<"UUID", dev.uuid>>>>

parseLSBLK(devs) ==
    LET Twice(i)  == \E j \in 1..(i - 1) : devs[j].num = devs[i].num
        Device(i, dev) ==
            LET block == Resource(BlockID(devs, dev.num), blockKind(dev.type), dev.path,
                                  "healthy", blockState(dev), <<<<"Model", dev.num>>>>)
                fs    == Resource(stableID("filesystem", dev.num), "filesystem", "",
                                  "healthy", "available", filesystemDetails(dev))
            IN  IF Twice(i) THEN <<>>
                ELSE IF dev.fstype = "" THEN <<block>> ELSE <<block, fs>>
        Edges(i, dev) ==
            (IF dev.under = "" THEN <<>>
             ELSE <<<<BlockID(devs, dev.under), "contains", BlockID(devs, dev.num)>>>>)
            \o (IF dev.fstype = "" THEN <<>>
                ELSE <<<<BlockID(devs, dev.num), "contains", stableID("filesystem", dev.num)>>>>)
        count == Len(devs) + Cardinality({i \in DOMAIN devs : devs[i].fstype # ""})
    IN  IF \/ \E i \in DOMAIN devs : ~validateBlockDevice(devs[i])
           \/ count > MaxResources
        THEN Failed
        ELSE AdapterResult(ConcatOf(Device, devs), ConcatOf(Edges, devs), <<>>, <<>>)

(***************************************************************************)
(* Core: findmnt.  The used bytes stand for the available bytes as well,   *)
(* which are checked in the same way.                                      *)
(***************************************************************************)
mountCapacityFails(fs) ==
    IF fs.pct = Unknown
    THEN \E v \in {fs.size, fs.used} : v \notin {Unknown, 0}
    ELSE Unknown \in {fs.size, fs.used} \/ fs.pct > 100

mountCapacity(fs) ==
    IF fs.pct = Unknown THEN [total |-> 0, used |-> 0, pct |-> 0]
    ELSE [total |-> fs.size, used |-> fs.used, pct |-> fs.pct]

mountFromFilesystem(fs) ==
    LET id == IF fs.num = "" THEN NoID ELSE stableID("filesystem", fs.num)
    IN  [id |-> IF id = NoID THEN stableID("mount", <<fs.fstype, fs.source, fs.target>>)
                ELSE stableID("mount", <<fs.target>>),
         target |-> fs.target, source |-> fs.source, device |-> fs.device, fs |-> fs.fstype,
         resource |-> id, readOnly |-> "ro" \in fs.options, managed |-> FALSE,
         state |-> "mounted", health |-> "healthy"] @@ mountCapacity(fs)

parseFindmnt(filesystems) ==
    IF \/ Len(filesystems) > MaxMounts
       \/ \E i \in DOMAIN filesystems : mountCapacityFails(filesystems[i])
    THEN Failed
    ELSE AdapterResult(<<>>, <<>>,
                       [i \in DOMAIN filesystems |-> mountFromFilesystem(filesystems[i])], <<>>)

(***************************************************************************)
(* The inventory that the enrichers are given.                             *)
(***************************************************************************)
hasSymlinkComponent(path, links) == path \in links

inventoryFromSnapshot(resources, mounts, links) ==
    LET IsDevice(r) == /\ r.kind \in {"disk", "partition", "raid", "mapping"}
                       /\ r.path # ""
                       /\ ~hasSymlinkComponent(r.path, links)
        devices == SelectSeq(resources, IsDevice)
    IN  [resources |-> resources, mounts |-> mounts,
         devicePaths |-> [i \in DOMAIN devices |-> devices[i].path]]

ByPath(inv, path) == {i \in DOMAIN inv.resources : inv.resources[i].path = path}

AtPath(inv, path) == inv.resources[CHOOSE i \in ByPath(inv, path) :
                                      \A j \in ByPath(inv, path) : j <= i]

(***************************************************************************)
(* SMART.  docs maps a device path to what smartctl printed for it.        *)
(***************************************************************************)
smartDevicePaths(inv) ==
    LET IsDisk(path) == \E i \in ByPath(inv, path) : inv.resources[i].kind = "disk"
    IN  IF inv.resources = <<>> THEN inv.devicePaths
        ELSE SelectSeq(inv.devicePaths, IsDisk)

smartResourceID(inv, path) ==
    LET disks == {i \in ByPath(inv, path) : inv.resources[i].kind = "disk"}
    IN  IF disks = {} THEN stableID("disk", path) ELSE inv.resources[Min(disks)].id

parseSMART(doc) ==
    LET status == CASE doc.status = "none"   -> "unknown"
                    [] doc.status = "passed" -> "healthy"
                    [] doc.status = "failed" -> "critical"
        Worse(h, bad) == IF bad THEN higherHealth(h, "warning") ELSE h
    IN  IF doc.nvme
        THEN IF doc.errors # 0 THEN "critical"
             ELSE Worse(status, doc.temp >= 70 \/ doc.worn >= 80)
        ELSE Worse(status, doc.temp >= 70 \/ doc.errors # 0)

\* A disk whose output does not parse makes the whole collection an error that
\* still carries the others.
smartResult(inv, docs) ==
    LET paths == smartDevicePaths(inv)
        Readable(path) == docs[path].name = path
        Disk(path) == Resource(smartResourceID(inv, path), "disk", path,
                               parseSMART(docs[path]), "", <<<<"Temperature", "">>>>)
        read == SelectSeq(paths, Readable)
    IN  [AdapterResult([i \in DOMAIN read |-> Disk(read[i])], <<>>, <<>>, <<>>)
            EXCEPT !.err = Len(read) # Len(paths)]

(***************************************************************************)
(* MD RAID: the arrays of /proc/mdstat with mdadm's detail of each.        *)
(***************************************************************************)
raidID(inv, path, name) ==
    IF ByPath(inv, path) # {} /\ AtPath(inv, path).kind \in {"raid", "mapping"}
    THEN AtPath(inv, path).id
    ELSE stableID("raid", name)

raidExpected(array) == IF array.expected = 0 THEN array.devices ELSE array.expected

raidDegraded(array) ==
    array.state # "inactive" /\ raidExpected(array) > 0 /\ array.active < raidExpected(array)

raidHealth(array) ==
    IF raidDegraded(array) THEN "critical"
    ELSE CASE array.state = "inactive"       -> "unknown"
           [] array.state = "auto-read-only" -> "warning"
           [] OTHER                          -> "healthy"

mdraidResult(inv, arrays) ==
    LET ID(array) == raidID(inv, array.path, array.name)
        Raid(i, array) == <<Resource(ID(array), "raid", array.path, raidHealth(array),
                                     IF raidDegraded(array) THEN "degraded" ELSE array.state,
                                     <<<<"RAID members", "">>>>)>>
        Members(i, array) ==
            LET In(member) == ByPath(inv, member) # {}
                known      == SelectSeq(array.members, In)
            IN  [k \in DOMAIN known |-> <<AtPath(inv, known[k]).id, "member-of", ID(array)>>]
        Degraded(i, array) ==
            IF raidDegraded(array) THEN <<Finding(ID(array), "critical")>> ELSE <<>>
    IN  IF \E i \in DOMAIN arrays : arrays[i].level \notin {"", arrays[i].detailLevel}
        THEN Failed
        ELSE AdapterResult(ConcatOf(Raid, arrays), ConcatOf(Members, arrays), <<>>,
                           ConcatOf(Degraded, arrays))

(***************************************************************************)
(* LVM: the reports of pvs, vgs and lvs, which are taken one after the     *)
(* other and need not agree with each other.                               *)
(***************************************************************************)
UUIDsDiffer(rows) == \A i, j \in DOMAIN rows : rows[i].uuid = rows[j].uuid => i = j

parseLVMReport(rows) == UUIDsDiffer(rows) /\ Len(rows) <= MaxResources

lvmResult(inv, pvs, vgs, lvs) ==
    LET Known(vg)    == \E i \in DOMAIN vgs : vgs[i].uuid = vg
        Listed(pv)   == pv.vg = "" \/ Known(pv.vg)
        InGroup(lv)  == Known(lv.vg)
        volumes      == SelectSeq(pvs, Listed)
        Missing(vg)  == \E i \in DOMAIN volumes : volumes[i].vg = vg.uuid /\ volumes[i].missing
        Broken(vg)   == Missing(vg) \/ vg.partial
        PV(i, pv) == <<Resource(stableID("lvm-pv", pv.uuid), "physical-volume", pv.name,
                                "healthy", "available", <<>>)>>
        VG(i, vg) == <<Resource(stableID("lvm-vg", vg.uuid), "volume-group", "",
                                IF Broken(vg) THEN "critical" ELSE "healthy", "available",
                                <<<<"Free", "">>>>)>>
        LV(i, lv) == <<Resource(stableID("lvm-lv", lv.uuid), "logical-volume", lv.path,
                                IF lv.active THEN "healthy" ELSE "unknown",
                                IF lv.active THEN "available" ELSE "inactive", <<>>)>>
        MemberOf(i, pv) == IF ByPath(inv, pv.name) # {} /\ pv.vg # ""
                           THEN <<<<AtPath(inv, pv.name).id, "member-of", stableID("lvm-vg", pv.vg)>>>>
                           ELSE <<>>
        Holds(i, lv) == <<<<stableID("lvm-vg", lv.vg), "contains", stableID("lvm-lv", lv.uuid)>>>>
        Lacks(i, vg) == IF Broken(vg) THEN <<Finding(stableID("lvm-vg", vg.uuid), "critical")>>
                        ELSE <<>>
        logical == SelectSeq(lvs, InGroup)
    IN  IF \/ ~(parseLVMReport(pvs) /\ parseLVMReport(vgs) /\ parseLVMReport(lvs))
           \/ Len(pvs) + Len(vgs) + Len(lvs) > MaxResources
        THEN Failed
        ELSE AdapterResult(ConcatOf(PV, volumes) \o ConcatOf(VG, vgs) \o ConcatOf(LV, logical),
                           ConcatOf(MemberOf, volumes) \o ConcatOf(Holds, logical),
                           <<>>, ConcatOf(Lacks, vgs))

(***************************************************************************)
(* device-mapper: dmsetup's list.  A mapping is matched to a core resource *)
(* by its path under /dev/mapper, else by a MAJ:MIN detail.                *)
(***************************************************************************)
Mapped(inv, path) == {i \in ByPath(inv, path) : path # ""}

ByNumber(inv, num) ==
    {i \in DOMAIN inv.resources : <<"MAJ:MIN", num>> \in Range(inv.resources[i].details)}

DMResource(inv, info) ==
    LET base == IF Mapped(inv, info.path) # {} THEN AtPath(inv, info.path)
                ELSE IF ByNumber(inv, info.num) # {}
                     THEN inv.resources[Max(ByNumber(inv, info.num))]
                ELSE Resource(stableID("mapping", info.num), "mapping", info.path, "healthy", "", <<>>)
    IN  [base EXCEPT !.path    = info.path,
                     !.state   = IF info.open THEN "active" ELSE "inactive",
                     !.health  = IF info.open THEN "healthy" ELSE "unknown",
                     !.details = IF info.crypt THEN Append(@, <<"Encrypted mapping", "">>) ELSE @]

deviceMapperResult(inv, infos) ==
    LET Add(acc, info) ==
            LET res  == DMResource(inv, info)
                encr == IF info.crypt
                        THEN <<Resource(stableID("encryption", info.num), "encryption", "",
                                        res.health, res.state, <<>>)>>
                        ELSE <<>>
                full == Len(acc.resources) + Len(encr) >= MaxResources
            IN  [acc EXCEPT !.resources = @ \o encr \o (IF full THEN <<>> ELSE <<res>>),
                            !.relations = IF info.crypt
                                          THEN Append(@, <<encr[1].id, "maps-to", res.id>>) ELSE @]
    IN  FoldLeft(Add, AdapterResult(<<>>, <<>>, <<>>, <<>>), infos)

(***************************************************************************)
(* multipath: multipathd's maps and paths.                                 *)
(***************************************************************************)
pathClass(p) ==
    IF p.dm = "active" /\ p.checker = "ready" THEN "healthy"
    ELSE IF p.dm = "failed" \/ p.checker \in {"faulty", "down"} THEN "failed" ELSE "unknown"

multipathHealth(mapping, paths) ==
    LET Of(p)   == p.map = mapping.name
        own     == SelectSeq(paths, Of)
        classes == {pathClass(own[i]) : i \in DOMAIN own}
    IN  IF "failed" \in classes THEN "critical"
        ELSE IF "unknown" \in classes THEN "unknown"
        ELSE IF Len(own) # mapping.declared THEN "warning" ELSE "healthy"

multipathResult(inv, maps, paths) ==
    LET Present(m) == Mapped(inv, m.path) # {}
        present    == SelectSeq(maps, Present)
        Map(i, m) == <<[AtPath(inv, m.path) EXCEPT
                            !.health  = higherHealth(@, multipathHealth(m, paths)),
                            !.details = Append(@, <<"Multipath paths", "">>)]>>
        Sick(i, m) == IF multipathHealth(m, paths) \in {"warning", "critical"}
                      THEN <<Finding(AtPath(inv, m.path).id, multipathHealth(m, paths))>>
                      ELSE <<>>
    IN  AdapterResult(ConcatOf(Map, present), <<>>, <<>>, ConcatOf(Sick, present))

(***************************************************************************)
(* ZFS: pools, their states, datasets.  states maps a pool named by        *)
(* "zpool status" to its state.  A mounted dataset becomes a mount with    *)
(* the capacity of its pool and no health, options or read-only flag.      *)
(***************************************************************************)
poolState(pool, states) ==
    IF pool.name \in DOMAIN states THEN states[pool.name] ELSE pool.health

poolHealth(state) ==
    CASE state = "ONLINE" -> "healthy"
      [] state \in {"DEGRADED", "FAULTED", "UNAVAIL", "SUSPENDED", "REMOVED", "OFFLINE"} -> "critical"
      [] OTHER -> "warning"

parseZFSPools(pools) ==
    \A i, j \in DOMAIN pools : /\ pools[i].name = pools[j].name => i = j
                               /\ pools[i].size > 0 /\ pools[i].alloc <= pools[i].size

zfsUsedPercent(alloc, size) == IF size = 0 THEN 0 ELSE Min({100, (alloc * 100) \div size})

zfsMount(inv, ds, pool) ==
    LET core == {i \in DOMAIN inv.mounts : /\ inv.mounts[i].target = ds.mountpoint
                                           /\ inv.mounts[i].source = ds.name
                                           /\ inv.mounts[i].fs = "zfs"}
    IN  [id |-> IF core = {} THEN stableID("zfs-mount", <<ds.mountpoint>>)
                ELSE inv.mounts[Min(core)].id,
         target |-> ds.mountpoint, source |-> ds.name, device |-> ds.name, fs |-> "zfs",
         resource |-> stableID("zfs-pool", pool.name), readOnly |-> FALSE, managed |-> FALSE,
         state |-> "mounted", health |-> "", total |-> pool.size, used |-> pool.alloc,
         pct |-> zfsUsedPercent(pool.alloc, pool.size)]

zfsResult(inv, pools, states, datasets) ==
    LET Names     == {pools[i].name : i \in DOMAIN pools}
        Health(p) == poolHealth(poolState(p, states))
        PoolOf(ds) == pools[CHOOSE i \in DOMAIN pools : pools[i].name = ds.pool]
        ID(p)     == stableID("zfs-pool", p)
        Pool(i, p) == <<Resource(ID(p.name), "zfs-pool", "", Health(p), poolState(p, states),
                                 <<<<"Capacity", "">>>>)>>
        Data(i, ds) == <<Resource(stableID("zfs-dataset", ds.name), ds.kind, "", "healthy",
                                  "available", <<>>)>>
        Holds(i, ds) == <<<<ID(ds.pool), "contains", stableID("zfs-dataset", ds.name)>>>>
        Mounted(i, ds) == IF ds.kind = "zfs-filesystem" /\ ds.mountpoint # ""
                          THEN <<zfsMount(inv, ds, PoolOf(ds))>> ELSE <<>>
        Sick(i, p) == IF Health(p) = "critical" THEN <<Finding(ID(p.name), "critical")>> ELSE <<>>
    IN  IF \/ ~parseZFSPools(pools)
           \/ ~(DOMAIN states \subseteq Names)
           \/ \E i \in DOMAIN datasets : datasets[i].pool \notin Names
        THEN Failed
        ELSE AdapterResult(ConcatOf(Pool, pools) \o ConcatOf(Data, datasets),
                           ConcatOf(Holds, datasets), ConcatOf(Mounted, datasets),
                           ConcatOf(Sick, pools))

(***************************************************************************)
(* Btrfs: for each file system found among the mounts, what "usage",       *)
(* "stats" and "subvolume list" print at its mount point.  device is the   *)
(* source of a mount without the subvolume (btrfsSourceDevice).            *)
(***************************************************************************)
UUIDSource == [s \in {"UUID=u1"} |-> "u1"]

btrfsMountUUID(inv, mount) ==
    LET named == {d \in UNION {Range(inv.resources[i].details) : i \in ByPath(inv, mount.device)} :
                     d[1] = "UUID" /\ d[2] # ""}
    IN  IF mount.source \in DOMAIN UUIDSource THEN UUIDSource[mount.source]
        ELSE IF named = {} THEN "" ELSE (CHOOSE d \in named : TRUE)[2]

parseBtrfsUsage(use, expected) ==
    use.uuid \in {"", expected} /\ use.size > 0 /\ use.devices # <<>>

btrfsHealth(use) ==
    IF use.missing > 0 THEN "critical"
    ELSE IF \E d \in DOMAIN use.errors : use.errors[d] > 0 THEN "warning" ELSE "healthy"

btrfsResult(inv, use, uuid) ==
    LET id     == stableID("btrfs-filesystem", uuid)
        health == btrfsHealth(use)
        Errors(d) == IF d \in DOMAIN use.errors THEN use.errors[d] ELSE 0
        Dev(i, d) == <<Resource(stableID("btrfs-device", <<uuid, d>>), "btrfs-device", d, health,
                                "available", <<<<"Btrfs device errors", "">>>>)>>
        Sub(i, v) == <<Resource(stableID("btrfs-subvolume", <<uuid, v>>), "btrfs-subvolume", "",
                                "healthy", "available", <<>>)>>
        Member(i, d) == <<<<stableID("btrfs-device", <<uuid, d>>), "member-of", id>>>>
        Holds(i, v)  == <<<<id, "contains", stableID("btrfs-subvolume", <<uuid, v>>)>>>>
        Faulty(i, d) == IF Errors(d) > 0 THEN <<Finding(id, "warning")>> ELSE <<>>
        Own(m)       == m.fs = "btrfs" /\ m.state = "mounted" /\ btrfsMountUUID(inv, m) = uuid
        own          == SelectSeq(inv.mounts, Own)
    IN  AdapterResult(
            <<Resource(id, "btrfs-filesystem", "", health, "mounted", <<>>)>>
                \o ConcatOf(Dev, use.devices) \o ConcatOf(Sub, use.subvolumes),
            ConcatOf(Member, use.devices) \o ConcatOf(Holds, use.subvolumes),
            [i \in DOMAIN own |-> [own[i] EXCEPT !.resource = id]],
            (IF use.missing > 0 THEN <<Finding(id, "critical")>> ELSE <<>>)
                \o ConcatOf(Faulty, use.devices))

btrfsCollect(inv, usage) ==
    LET UUID(i)   == btrfsMountUUID(inv, inv.mounts[i])
        Wanted(i) == /\ inv.mounts[i].fs = "btrfs" /\ inv.mounts[i].state = "mounted"
                     /\ UUID(i) # ""
        firsts    == {i \in DOMAIN inv.mounts :
                         Wanted(i) /\ \A j \in 1..(i - 1) : ~(Wanted(j) /\ UUID(j) = UUID(i))}
        Use(i)    == usage[inv.mounts[i].target]
        Add(acc, i) ==
            LET r == btrfsResult(inv, Use(i), UUID(i))
            IN  [acc EXCEPT !.resources = @ \o r.resources, !.relations = @ \o r.relations,
                            !.mounts = @ \o r.mounts, !.findings = @ \o r.findings]
    IN  IF \E i \in firsts : \/ ~parseBtrfsUsage(Use(i), UUID(i))
                             \/ /\ inv.mounts[i].source \notin DOMAIN UUIDSource
                                /\ ~Contains(Use(i).devices, inv.mounts[i].device)
        THEN Failed
        ELSE FoldLeft(Add, AdapterResult(<<>>, <<>>, <<>>, <<>>), SetToSeq(firsts))
=============================================================================
