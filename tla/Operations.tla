----------------------------- MODULE Operations ------------------------------
(***************************************************************************)
(* What the broker finds out about its host when it starts, and the        *)
(* queries and actions it registers for what it found: internal/capability *)
(* and the register functions of cmd/pilothoused.                          *)
(*                                                                         *)
(* An operation is a record.  `params` are the parameter names its         *)
(* definition lists, `resource` the parts of the string that a caller has  *)
(* to repeat when `confirm` holds: a prefix and parameter names.           *)
(***************************************************************************)
EXTENDS Sequences

HasAll(caps, ids) == ids \subseteq caps

HasAny(caps, ids) == ids \cap caps # {}

------------------------------------------------------------------------------
(* The probes.  Every error, and every timeout, is an absent capability.   *)

autoupdatePairs ==
  [id \in {"autoupdate-rpm-ostree", "autoupdate-bootc"} |->
     IF id = "autoupdate-bootc"
     THEN {"bootc-fetch-apply-updates.timer", "bootc-fetch-apply-updates.service"}
     ELSE {"rpm-ostreed-automatic.timer", "rpm-ostreed-automatic.service"}]

(* The unit files are those of a list, or of none when listing fails.      *)
probeAutoupdatePairs(files) ==
  {id \in DOMAIN autoupdatePairs : autoupdatePairs[id] \subseteq files}

probeSystemd(marker, connects, files) ==
  IF marker /\ connects THEN {"systemd"} \cup probeAutoupdatePairs(files) ELSE {}

ProbeJournald(opens) == IF opens THEN {"journald"} ELSE {}

(* A command that exits 0 ...                                              *)
probeExecSuccess(id, configured, ran) == IF configured /\ ran THEN {id} ELSE {}

(* ... and prints JSON (for k3s, JSON with a version).                     *)
probeExecJSON(id, configured, ran, valid) ==
  IF configured /\ ran /\ valid THEN {id} ELSE {}

ProbeUpdex(configured, ran) == probeExecSuccess("updex", configured, ran)

ProbeSysext(ran) == probeExecSuccess("sysext", TRUE, ran)

ProbeBootc(ran, valid) == probeExecJSON("bootc", TRUE, ran, valid)

ProbeRPMOStree(ran, valid) == probeExecJSON("rpm-ostree", TRUE, ran, valid)

ProbeK3s(configured, ran, valid) == probeExecJSON("k3s", configured, ran, valid)

(* An engine is asked only where the operator names its endpoint.          *)
ProbePodman(configured, answers) == IF configured /\ answers THEN {"podman"} ELSE {}

ProbeDocker(configured, answers) == IF configured /\ answers THEN {"docker"} ELSE {}

ProbeIncus(configured, answers) == IF configured /\ answers THEN {"incus"} ELSE {}

------------------------------------------------------------------------------
Query(id, admin) ==
  [id |-> id, admin |-> admin, params |-> {}, confirm |-> FALSE, resource |-> <<>>]

Action(id, params, confirm, resource) ==
  [id |-> id, admin |-> TRUE, params |-> params, confirm |-> confirm, resource |-> resource]

(* Registrations are triples: id, prefix of the resource, confirmation.    *)
registerNamedActions(parameter, registrations) ==
  {Action(r[1], {parameter}, r[3], <<r[2], parameter>>) : r \in registrations}

(* Mutant: the resource does not name the project.                         *)
registerUnqualifiedActions(registrations) ==
  {Action(r[1], {"project", r[4]}, r[3], <<r[2], r[4]>>) : r \in registrations}

(* The fourth part is the parameter beside the project.                    *)
registerProjectActions(registrations) ==
  {Action(r[1], {"project", r[4]}, r[3], <<r[2], "project", r[4]>>) : r \in registrations}

registerSnapshotActions(registrations) ==
  {Action(r[1], {"project", "instance", "snapshot"}, r[2],
          <<"incus/snapshot", "project", "instance", "snapshot">>) : r \in registrations}

------------------------------------------------------------------------------
registerCapabilities == {Query("capabilities.list", FALSE)}

registerFiles ==
  {Query("files.list", TRUE),
   [Query("files.download", TRUE) EXCEPT !.params = {"root", "path"}],
   Action("files.upload", {"root", "directory", "name"}, FALSE,
          <<"files", "root", "directory", "name">>)}

registerActivity == {Query("activity.list", TRUE)}

registerJobs == {Query("jobs.list", TRUE)}

registerStorage == {Query("storage.state", FALSE)}

storageMountResource == <<"storage/mount", "id">>

registerStorageActions(caps, manager) ==
  LET mount == {"target", "version", "read_only"}
      smb == mount \cup {"server", "share"}
      login == {"username", "password"}
      owner == {"uid", "gid"}
      Create(id, params) == Action(id, params, FALSE, storageMountResource)
      Change(id, confirm) == Action(id, {"id"}, confirm, storageMountResource)
  IN IF manager /\ HasAll(caps, {"systemd"})
     THEN {Create("storage.create-nfs", mount \cup {"host", "export"}),
           Create("storage.create-smb-guest", smb),
           Create("storage.create-smb-credentials", smb \cup login),
           Create("storage.create-smb-guest-owned", smb \cup owner),
           Create("storage.create-smb-credentials-owned", smb \cup login \cup owner),
           Change("storage.mount", FALSE),
           Change("storage.unmount", TRUE),
           Change("storage.delete", TRUE)}
     ELSE {}

registerBackups(caps, manager) ==
  IF manager /\ HasAll(caps, {"systemd"}) THEN {Query("backups.state", FALSE)} ELSE {}

registerLogs(caps, manager) ==
  IF manager /\ HasAll(caps, {"systemd", "journald"}) THEN {Query("logs.list", TRUE)} ELSE {}

registerServices(caps, manager) ==
  (IF manager /\ HasAll(caps, {"systemd"})
   THEN {Query("services.state", FALSE)} \cup
        registerNamedActions("unit",
          {<<id, "services/unit", TRUE>> : id \in {"services.stop", "services.disable"}} \cup
          {<<id, "services/unit", FALSE>> :
             id \in {"services.start", "services.restart", "services.enable",
                     "services.reset_failed"}})
   ELSE {}) \cup
  (IF manager /\ HasAll(caps, {"systemd", "journald"})
   THEN {Query("services.journal", FALSE)}
   ELSE {})

registerSysextActions(caps) ==
  (IF HasAll(caps, {"updex", "sysext"})
   THEN registerNamedActions("name", {<<"sysext.disable", "sysext/feature", TRUE>>,
                                      <<"sysext.enable", "sysext/feature", FALSE>>})
   ELSE {}) \cup
  {Action(a[1], {}, TRUE, <<"sysext/global">>) :
     a \in {b \in {<<"sysext.refresh", "sysext">>, <<"sysext.update", "updex">>} : b[2] \in caps}}

registerExtensions(caps) ==
  IF HasAny(caps, {"updex", "sysext"}) THEN {Query("sysext.state", FALSE)} ELSE {}

registerHostImage(caps) ==
  IF HasAny(caps, {"bootc", "rpm-ostree"})
  THEN {Query("maintenance.host_image_status", FALSE)}
  ELSE {}

registerAutoUpdate(caps) ==
  IF HasAny(caps, {"bootc", "rpm-ostree"})
  THEN {Query("maintenance.autoupdate_status", FALSE)}
  ELSE {}

registerMaintenance(caps) ==
  IF HasAll(caps, {"systemd"})
  THEN {Query("maintenance.state", FALSE),
        Action("maintenance.reboot", {}, TRUE, <<"maintenance/reboot">>)}
  ELSE {}

registerPodman(caps) ==
  IF "podman" \notin caps THEN {} ELSE
  {Query("podman.logs", FALSE), Query("podman.state", FALSE)} \cup
  registerNamedActions("id",
    {<<"podman.remove", "podman/container", TRUE>>,
     <<"podman.remove_image", "podman/image", TRUE>>,
     <<"podman.restart", "podman/container", FALSE>>,
     <<"podman.start", "podman/container", FALSE>>,
     <<"podman.stop", "podman/container", TRUE>>})

(* The client of the endpoint that the probe used exists whenever the      *)
(* probe found Docker.                                                     *)
registerDocker(caps) ==
  IF "docker" \notin caps THEN {} ELSE
  {Query("docker.logs", FALSE), Query("docker.state", FALSE)} \cup
  registerNamedActions("id",
    {<<"docker.remove", "docker/container", TRUE>>,
     <<"docker.remove_image", "docker/image", TRUE>>,
     <<"docker.restart", "docker/container", FALSE>>,
     <<"docker.start", "docker/container", FALSE>>,
     <<"docker.stop", "docker/container", TRUE>>})

registerIncus(caps) ==
  IF "incus" \notin caps THEN {} ELSE
  {Query(id, FALSE) : id \in {"incus.state", "incus.instance", "incus.logs",
                              "incus.network", "incus.profile"}} \cup
  registerProjectActions(
    {<<"incus.remove_image", "incus/image", TRUE, "fingerprint">>} \cup
    {<<id, "incus/instance", TRUE, "name">> :
       id \in {"incus.remove", "incus.stop", "incus.stop_force"}} \cup
    {<<id, "incus/instance", FALSE, "name">> : id \in {"incus.start", "incus.restart"}}) \cup
  {Action("incus.create", {"project", "name", "image", "type", "profile"}, FALSE,
          <<"incus/instance", "project", "name">>)} \cup
  registerSnapshotActions({<<"incus.snapshot_create", FALSE>>,
                           <<"incus.snapshot_delete", TRUE>>,
                           <<"incus.snapshot_restore", TRUE>>})

registerK3s(caps) == IF "k3s" \in caps THEN {Query("k3s.state", FALSE)} ELSE {}

(* The registrations of run, given whether the managers that need the      *)
(* systemd connection were built.                                          *)
Registered(caps, managers) ==
  registerCapabilities \cup registerFiles \cup registerActivity \cup registerJobs \cup
  registerStorage \cup
  registerStorageActions(caps, managers) \cup registerBackups(caps, managers) \cup
  registerServices(caps, managers) \cup registerLogs(caps, managers) \cup
  registerSysextActions(caps) \cup registerExtensions(caps) \cup
  registerHostImage(caps) \cup registerAutoUpdate(caps) \cup registerMaintenance(caps) \cup
  registerPodman(caps) \cup registerDocker(caps) \cup registerIncus(caps) \cup
  registerK3s(caps)
==============================================================================
