------------------------------ MODULE MCStorage ------------------------------
(* Two components side by side; which picks the one that runs: small machines   *)
(* for StorageSnapshot, and for StorageCollection two State calls that share    *)
(* the health cache.                                                            *)
EXTENDS StorageSnapshot, StorageCollection

CONSTANT RaceTime   \* bound on the clock where processes hang and browsers leave

VARIABLE which

Symmetry == Permutations(Calls)

Dev(num, type, path, fstype, uuid, under) ==
    [num |-> num, type |-> type, path |-> path, fstype |-> fstype, uuid |-> uuid, under |-> under,
     ro |-> FALSE, sound |-> TRUE]

Sda  == Dev("8:0", "disk", "/dev/sda", "", "", "")
Sda1 == Dev("8:1", "part", "/dev/sda1", "btrfs", "u1", "8:0")
Sdb  == Dev("8:16", "disk", "/dev/sdb", "", "", "")
Dm0(under)  == Dev("253:0", "mpath", "/dev/mapper/m", "", "", under)
Md0(under)  == Dev("9:0", "raid1", "/dev/md0", "", "", under)

Mnt(target, source, device, fstype, num, pct, options) ==
    [target |-> target, source |-> source, device |-> device, fstype |-> fstype, num |-> num,
     size |-> 2, used |-> 1, pct |-> pct, options |-> options]

Root == Mnt("/", "/dev/sda1", "/dev/sda1", "btrfs", "8:1", 50, {"rw"})

Doc(path, status) ==
    [name |-> path, status |-> status, temp |-> 40, nvme |-> FALSE, errors |-> 0, worn |-> 0]

Docs == [path \in {"/dev/sda", "/dev/sdb"} |-> Doc(path, "passed")]

Use(devices) == [uuid |-> "u1", size |-> 4, devices |-> devices, missing |-> 0,
                 errors |-> [d \in {"/dev/sda1"} |-> 0], subvolumes |-> <<>>]

Base == [lsblk |-> <<Sda, Sda1>>, findmnt |-> <<Root>>, links |-> {}, smart |-> Docs, cache |-> "none",
         earlier |-> [lsblk |-> <<Sda, Sda1>>, findmnt |-> <<Root>>, links |-> {}, smart |-> Docs],
         down |-> {}, late |-> {}, mdraid |-> <<>>, pvs |-> <<>>, vgs |-> <<>>, lvs |-> <<>>,
         dm |-> <<>>, maps |-> <<>>, paths |-> <<>>, pools |-> <<>>, states |-> << >>,
         datasets |-> <<>>, btrfs |-> [t \in {"/", "/data", "/home"} |-> Use(<<"/dev/sda1">>)]]

\* Every form of the core's output.
CoreHosts ==
    {[Base EXCEPT !.lsblk = l, !.findmnt = m] :
        l \in {<<>>, <<Sda>>, <<Sda, Sda1>>, <<[Sda EXCEPT !.sound = FALSE]>>,
               <<Sda, Md0("8:0"), Sdb, Md0("8:16")>>,
               <<[Sda EXCEPT !.ro = TRUE], Sda1, Sdb, Dm0("8:0"), Md0("253:0")>>},
        m \in {<<>>, <<Root, Root, Root, Root>>}
              \cup {<<[Root EXCEPT !.pct = p, !.options = o, !.fstype = f, !.used = u]>> :
                       p \in {50, 79, 80, 90, 101, Unknown}, o \in {{"rw"}, {"ro"}},
                       f \in {"ext4", "erofs"}, u \in {0, 1, Unknown}}
              \cup {<<Root, Mnt("/data", s, "s", f, n, 95, o)>> :
                       s \in {"/dev/sda1", "UUID=u1"}, f \in {"btrfs", "overlay"},
                       n \in {"", "8:1"}, o \in {{"rw"}, {"ro"}}}}

\* Three backends speak of one resource: SMART, device-mapper and multipath.
SmartDocs == [name : {"/dev/sda", ""}, status : {"none", "passed", "failed"}, temp : {69, 70},
              nvme : BOOLEAN, errors : {0, 1}, worn : {79, 80}]

SharedHosts ==
    {[Base EXCEPT !.smart["/dev/sda"] = d, !.links = l] : d \in SmartDocs, l \in {{}, {"/dev/sda"}}}
    \cup
    {[Base EXCEPT !.lsblk = <<[Sda EXCEPT !.path = "/dev/mapper/m"], Dm0("8:0")>>,
                  !.smart = [d \in {"/dev/mapper/m"} |-> Doc(d, st)],
                  !.earlier.lsblk = <<[Sda EXCEPT !.path = "/dev/mapper/m"]>>,
                  !.earlier.smart = [d \in {"/dev/mapper/m"} |-> Doc(d, "failed")],
                  !.cache = c0, !.down = down, !.maps = <<[name |-> "m", path |-> "/dev/mapper/m", declared |-> 1]>>,
                  !.paths = <<[map |-> "m", dm |-> a, checker |-> c]>>,
                  !.dm = <<[path |-> p, num |-> "253:0", open |-> o, crypt |-> k]>>] :
        st \in {"passed", "failed"}, c0 \in {"none", "fresh", "expired"}, down \in {{}, {"smart"}, {"device-mapper"}},
        a \in {"active", "failed"}, c \in {"ready", "down", "ghost"},
        p \in {"/dev/mapper/m", "/dev/mapper/n"}, o \in BOOLEAN, k \in BOOLEAN}

RaidHosts ==
    {[Base EXCEPT !.lsblk = l, !.mdraid = <<[name |-> "md0", path |-> "/dev/md0", level |-> lv,
                      detailLevel |-> "raid1", expected |-> e, devices |-> 2, active |-> a,
                      state |-> s, members |-> ms]>>] :
        l \in {<<Sda, Md0("8:0")>>, <<Sda, Md0("8:0"), Sdb, Md0("8:16")>>, <<Sda, [Md0("8:0") EXCEPT !.type = "raid"]>>},
        lv \in {"", "raid1", "raid5"}, e \in {0, 2}, a \in 0..2,
        s \in {"active", "inactive", "auto-read-only"},
        ms \in {<<"/dev/sda">>, <<"/dev/sda", "/dev/sdb">>, <<"/dev/md0">>}}

Row(uuid, vg, path, flag) == [uuid |-> uuid, vg |-> vg, name |-> path, path |-> path,
                              missing |-> flag, active |-> flag]

LVMHosts ==
    {[Base EXCEPT !.lsblk = l, !.pvs = pv, !.vgs = vg, !.lvs = lv] :
        l \in {<<Sda>>, <<Sda, Sda1>>},
        pv \in {<<>>} \cup {<<Row("p1", g, "/dev/sda", m)>> : g \in {"", "g1", "g2"}, m \in BOOLEAN}
               \cup {<<Row("p1", "g1", "/dev/sda", FALSE), Row(u, "g1", "/dev/sdc", TRUE)>> : u \in {"p1", "p2"}},
        vg \in {<<>>} \cup {<<[uuid |-> "g1", partial |-> p]>> : p \in BOOLEAN}
               \cup {<<[uuid |-> "g1", partial |-> FALSE], [uuid |-> "g2", partial |-> TRUE]>>},
        lv \in {<<>>} \cup {<<Row("l1", g, "/dev/g1/l1", a)>> : g \in {"g1", "g3"}, a \in BOOLEAN}
               \cup {<<Row("l1", "g1", "/dev/g1/l1", TRUE), Row("l2", "g1", "/dev/g1/l2", FALSE)>>}}

\* A cached entry that still has a disk that is gone; results that come late; both
\* with as many resources as fit, or one more.
AgedHosts ==
    {[Base EXCEPT !.earlier.lsblk = <<Sda, Sda1, Sdb>>, !.earlier.smart["/dev/sdb"] = Doc("/dev/sdb", st),
                  !.cache = c, !.down = d, !.late = l,
                  !.pvs = <<Row("p1", "g1", "/dev/sda", FALSE), Row("p2", "g1", "/dev/sdc", TRUE)>>,
                  !.vgs = <<[uuid |-> "g1", partial |-> FALSE]>>,
                  !.lvs = lv, !.btrfs = [t \in {"/"} |-> u]] :
        st \in {"passed", "failed"}, c \in {"none", "fresh", "expired"}, d \in {{}, {"smart"}, {"lvm"}},
        l \in SUBSET {"smart", "lvm", "btrfs"},
        lv \in {<<>>, <<Row("l1", "g1", "/dev/g1/l1", TRUE)>>,
                <<Row("l1", "g1", "/dev/g1/l1", TRUE), Row("l2", "g1", "/dev/g1/l2", FALSE)>>},
        u \in {Use(<<"/dev/sda1">>), [Use(<<"/dev/sda1">>) EXCEPT !.subvolumes = <<"256", "257">>]}}

Zpool(name, health, alloc) == [name |-> name, health |-> health, size |-> 10, alloc |-> alloc]

ZFSHosts ==
    {[Base EXCEPT !.lsblk = <<Sda>>, !.findmnt = m, !.pools = p, !.states = st, !.datasets = d] :
        m \in {<<>>, <<Root>>, <<Mnt("/tank", "tank", "tank", "zfs", "", 20, {"ro"})>>,
               <<Mnt("/tank", "tank", "tank", "zfs", "", 20, {"rw"}), Root>>,
               <<Mnt("/srv", "y", "y", "ext4", "", 20, {"rw"}), Root, Mnt("/home", "x", "x", "ext4", "", 99, {"ro"})>>},
        p \in {<<>>, <<Zpool("tank", "ONLINE", 5), Zpool("tank", "ONLINE", 5)>>}
              \cup {<<Zpool("tank", h, a)>> : h \in {"ONLINE", "DEGRADED", "STRANGE"}, a \in {5, 9}}
              \cup {<<Zpool("tank", "ONLINE", a)>> : a \in {8, 11}},
        st \in {<< >>, [q \in {"tank"} |-> "FAULTED"], [q \in {"other"} |-> "ONLINE"]},
        d \in {<<>>} \cup {<<[name |-> "tank", pool |-> "tank", kind |-> k, mountpoint |-> t]>> :
                              k \in {"zfs-filesystem", "zfs-volume"}, t \in {"", "/tank"}}}

BtrfsHosts ==
    {[Base EXCEPT !.findmnt = m, !.btrfs = [t \in {"/", "/data", "/home"} |-> u]] :
        m \in {<<Root>>, <<Mnt("/data", "UUID=u1", "UUID=u1", "btrfs", "0:40", 90, {"ro"})>>,
               <<Mnt("/data", "UUID=u1", "UUID=u1", "btrfs", "0:40", 50, {"rw"}),
                 Mnt("/home", "UUID=u1", "UUID=u1", "btrfs", "0:40", 50, {"ro"})>>},
        u \in [uuid : {"", "u1", "u2"}, size : {0, 4}, devices : {<<>>, <<"/dev/sda1">>, <<"/dev/sda1", "/dev/sdb">>},
               missing : {0, 1}, errors : [{"/dev/sda1", "/dev/sdb"} -> {0, 3}], subvolumes : {<<>>, <<"256", "257">>}]}

AllHosts == CoreHosts \cup SharedHosts \cup RaidHosts \cup LVMHosts \cup ZFSHosts \cup BtrfsHosts
            \cup AgedHosts

NoSnapshotYet ==
    host = << >> /\ step = "none" /\ agg = << >> /\ inv = << >> /\ given = << >> /\ statuses = << >>
    /\ snap = << >>

Init ==
    /\ CollectionInit
    /\ \/ which = "snapshot" /\ SnapshotInit
       \/ which \in {"races", "ageing"} /\ NoSnapshotYet

\* Nobody left early, and no process hangs.
Calm ==
    \A c \in Calls : /\ call[c].ended => call[c].pc \in {"done", "failed"}
                     /\ \A n \in Names : work[c][n].at # "hung"

Next ==
    /\ UNCHANGED which
    /\ \/ which = "snapshot" /\ SnapshotNext /\ UNCHANGED collectionVars
       \/ which = "races" /\ CollectionNext /\ now' <= RaceTime /\ UNCHANGED snapshotVars
       \/ which = "ageing" /\ CollectionNext /\ Calm' /\ UNCHANGED snapshotVars
=============================================================================
