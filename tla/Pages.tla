-------------------------------- MODULE Pages --------------------------------
(***************************************************************************)
(* The web process: which modules and routes a capability set opens, and   *)
(* the broker calls each route makes.  internal/platform, the module.go    *)
(* and handler.go files of internal/modules, cmd/pilothouse.               *)
(*                                                                         *)
(* A route has the capabilities of its Gate (`all`) or GateAny (`any`),    *)
(* `admin` when it turns other users away itself, and its calls.  A call   *)
(* has the names of the parameters it sends and the resource its           *)
(* confirmation page asks for; `given` holds the capabilities, one of      *)
(* which the handler wants to see before it makes the call.                *)
(***************************************************************************)
EXTENDS Operations, Naturals, FiniteSets, Functions

Call(id, params, confirmed, given) ==
  [id |-> id, params |-> params, confirmed |-> confirmed, given |-> given]

Ask(id) == Call(id, {}, <<>>, {})

Do(id, params) == Call(id, params, <<>>, {})

Confirmed(id, params, resource) == Call(id, params, resource, {})

Route(path, all, calls) ==
  [path |-> path, all |-> all, any |-> {}, admin |-> FALSE, calls |-> calls]

AdminRoute(path, all, calls) == [Route(path, all, calls) EXCEPT !.admin = TRUE]

AnyRoute(path, any, calls) == [Route(path, {}, calls) EXCEPT !.any = any]

------------------------------------------------------------------------------
(* The modules: manifests, and the capabilities their gates name.          *)

Module(order, all, any) == [order |-> order, all |-> all, any |-> any]

Manifest ==
  [fleet |-> Module(1, {}, {}),
   attention |-> Module(5, {}, {}),
   system |-> Module(10, {}, {}),
   sysext |-> Module(20, {}, {"updex", "sysext"}),
   storage |-> Module(25, {}, {}),
   podman |-> Module(30, {"podman"}, {}),
   maintenance |-> Module(34, {}, {"systemd", "bootc", "rpm-ostree"}),
   services |-> Module(35, {"systemd"}, {}),
   backups |-> Module(36, {"systemd"}, {}),
   logs |-> Module(37, {"systemd", "journald"}, {}),
   files |-> Module(38, {}, {}),
   docker |-> Module(40, {"docker"}, {}),
   k3s |-> Module(45, {"k3s"}, {}),
   incus |-> Module(50, {"incus"}, {}),
   activity |-> Module(90, {}, {})]

Available(m, caps) == HasAll(caps, Manifest[m].all)

AvailableAny(m, caps) == Manifest[m].any = {} \/ HasAny(caps, Manifest[m].any)

moduleAvailable(m, caps) == Available(m, caps) /\ AvailableAny(m, caps)

(* newRegistry: the modules in the order of their manifests; the preview   *)
(* module only with --dev.                                                 *)
newRegistry(dev) ==
  LET modules == IF dev THEN DOMAIN Manifest ELSE DOMAIN Manifest \ {"fleet"}
      Before(m) == {n \in modules : Manifest[n].order < Manifest[m].order}
  IN [i \in 1..Cardinality(modules) |->
        CHOOSE m \in modules : Cardinality(Before(m)) = i - 1]

availableManifests(dev, caps) ==
  SelectSeq(newRegistry(dev), LAMBDA m : moduleAvailable(m, caps))

------------------------------------------------------------------------------
activityRoutes == {AdminRoute("activity", {}, {Ask("activity.list"), Ask("jobs.list")})}

systemRoutes == {Route("system", {}, {})}

fleetRoutes == {Route("fleet", {}, {})}

filesRoutes ==
  {AdminRoute("files", {}, {Ask("files.list")}),
   AdminRoute("files/download", {}, {Do("files.download", {"root", "path"})}),
   AdminRoute("files/upload", {}, {Do("files.upload", {"root", "directory", "name"})})}

servicesRoutes ==
  LET unit == <<"services/unit", "unit">>
  IN {Route("services", {"systemd"}, {Ask("services.state")}),
      Route("services/logs", {"systemd", "journald"}, {Ask("services.journal")}),
      Route("services/action", {"systemd"},
        {Do(id, {"unit"}) : id \in {"services.start", "services.restart", "services.enable",
                                    "services.reset_failed"}} \cup
        {Confirmed(id, {"unit"}, unit) : id \in {"services.stop", "services.disable"}})}

logsRoutes == {AdminRoute("logs", {"systemd", "journald"}, {Ask("logs.list")})}

backupsRoutes == {Route("backups", {"systemd"}, {Ask("backups.state")})}

k3sRoutes == {Route("k3s", {"k3s"}, {Ask("k3s.state")})}

(* Podman and Docker have the same routes.                                 *)
engineRoutes(e, container, image) ==
  {Route(e.page, {e.page}, {Ask(e.state)}),
   Route(e.page \o "/logs", {e.page}, {Ask(e.logs)}),
   Route(e.page \o "/action", {e.page},
     {Do(e.start, {"id"}), Do(e.restart, {"id"}),
      Confirmed(e.stop, {"id"}, <<container, "id">>),
      Confirmed(e.remove, {"id"}, <<container, "id">>)}),
   Route(e.page \o "/image", {e.page}, {Confirmed(e.removeImage, {"id"}, <<image, "id">>)})}

podmanRoutes ==
  engineRoutes([page |-> "podman", state |-> "podman.state", logs |-> "podman.logs",
                start |-> "podman.start", restart |-> "podman.restart",
                stop |-> "podman.stop", remove |-> "podman.remove",
                removeImage |-> "podman.remove_image"],
               "podman/container", "podman/image")

dockerRoutes ==
  engineRoutes([page |-> "docker", state |-> "docker.state", logs |-> "docker.logs",
                start |-> "docker.start", restart |-> "docker.restart",
                stop |-> "docker.stop", remove |-> "docker.remove",
                removeImage |-> "docker.remove_image"],
               "docker/container", "docker/image")

(* The pages of Incus, and its forms.                                      *)
incusPages ==
  {Route(r[1], {"incus"}, {Ask(r[2])}) :
     r \in {<<"incus", "incus.state">>, <<"incus/instance", "incus.instance">>,
            <<"incus/logs", "incus.logs">>, <<"incus/network", "incus.network">>,
            <<"incus/profile", "incus.profile">>}}

incusForms ==
  LET instance == <<"incus/instance", "project", "name">>
      snapshot == <<"incus/snapshot", "project", "instance", "snapshot">>
      names == {"project", "instance", "snapshot"}
  IN {Route("incus/action", {"incus"},
        {Do(id, {"project", "name"}) : id \in {"incus.start", "incus.restart"}} \cup
        {Confirmed(id, {"project", "name"}, instance) :
           id \in {"incus.remove", "incus.stop", "incus.stop_force"}}),
      Route("incus/create", {"incus"},
        {Do("incus.create", {"project", "name", "image", "type", "profile"})}),
      Route("incus/snapshot", {"incus"}, {Do("incus.snapshot_create", names)}),
      Route("incus/snapshot/action", {"incus"},
        {Confirmed(id, names, snapshot) :
           id \in {"incus.snapshot_delete", "incus.snapshot_restore"}}),
      Route("incus/image", {"incus"},
        {Confirmed("incus.remove_image", {"project", "fingerprint"},
                   <<"incus/image", "project", "fingerprint">>)})}

sysextRoutes ==
  LET either == {"updex", "sysext"}
  IN {AnyRoute("sysext", either, {Ask("sysext.state")}),
      Route("sysext/feature", either,
        {Confirmed("sysext.disable", {"name"}, <<"sysext/feature", "name">>),
         Do("sysext.enable", {"name"})}),
      AnyRoute("sysext/action", either,
        {Call("sysext.refresh", {}, <<"sysext/global">>, {"sysext"}),
         Call("sysext.update", {}, <<"sysext/global">>, {"updex"})})}

(* The maintenance page asks for what the set it reads promises.           *)
queryState == Call("maintenance.state", {}, <<>>, {"systemd"})

queryHostImage ==
  Call("maintenance.host_image_status", {}, <<>>, {"bootc", "rpm-ostree"})

queryAutoUpdate ==
  Call("maintenance.autoupdate_status", {}, <<>>, {"bootc", "rpm-ostree"})

collectPage == {queryState, queryHostImage, queryAutoUpdate}

maintenanceRoutes ==
  {AnyRoute("maintenance", {"systemd", "bootc", "rpm-ostree"}, collectPage),
   Route("maintenance/reboot", {"systemd"},
     {Confirmed("maintenance.reboot", {}, <<"maintenance/reboot">>)})}

(* remoteCreateAction: the form's protocol and owner decide the action.    *)
remoteCreateActions ==
  LET mount == {"target", "version", "read_only"}
      smb == mount \cup {"server", "share"}
      login == {"username", "password"}
      owner == {"uid", "gid"}
  IN {Do("storage.create-nfs", mount \cup {"host", "export"}),
      Do("storage.create-smb-guest", smb),
      Do("storage.create-smb-guest-owned", smb \cup owner),
      Do("storage.create-smb-credentials", smb \cup login),
      Do("storage.create-smb-credentials-owned", smb \cup login \cup owner)}

remoteLifecycleActions ==
  {Do("storage.mount", {"id"})} \cup
  {Confirmed(id, {"id"}, <<"storage/mount", "id">>) :
     id \in {"storage.unmount", "storage.delete"}}

storageRoutes ==
  {Route("storage", {}, {Ask("storage.state")}),
   AdminRoute("storage/new", {"systemd"}, {}),
   AdminRoute("storage/create", {"systemd"}, remoteCreateActions),
   AdminRoute("storage/action", {"systemd"}, remoteLifecycleActions)}

------------------------------------------------------------------------------
(* The attention page asks the providers whose gate the set satisfies ...  *)
Providers == {"system", "services", "maintenance", "backups", "storage"}

healthCalls ==
  [system |-> {}, services |-> {Ask("services.state")}, maintenance |-> {queryState},
   backups |-> {Ask("backups.state")}, storage |-> {Ask("storage.state")}]

findings(caps) == UNION {healthCalls[p] : p \in {q \in Providers : moduleAvailable(q, caps)}}

(* ... and the dashboard every module whose gate it satisfies.             *)
dashboardCalls ==
  [podman |-> {Ask("podman.state")}, docker |-> {Ask("docker.state")},
   incus |-> {Ask("incus.state")}, k3s |-> {Ask("k3s.state")},
   services |-> {Ask("services.state")}, backups |-> {Ask("backups.state")},
   sysext |-> {Ask("sysext.state")}, storage |-> {Ask("storage.state")},
   maintenance |-> {queryState}]

dashboard(caps) ==
  findings(caps) \cup
  UNION {dashboardCalls[m] : m \in {n \in DOMAIN dashboardCalls : moduleAvailable(n, caps)}}

Routes ==
  {Route("", {}, {}), Route("attention", {}, {})} \cup
  activityRoutes \cup systemRoutes \cup fleetRoutes \cup filesRoutes \cup servicesRoutes \cup
  logsRoutes \cup backupsRoutes \cup k3sRoutes \cup podmanRoutes \cup dockerRoutes \cup
  incusPages \cup incusForms \cup sysextRoutes \cup maintenanceRoutes \cup storageRoutes

Gate(route, caps) ==
  HasAll(caps, route.all) /\ (route.any = {} \/ HasAny(caps, route.any))

(* The calls a handler makes.  The dashboard and the attention page choose *)
(* the modules by the set they loaded first; what a handler wants to see   *)
(* before a call it reads again.                                           *)
Calls(route, loaded, caps) ==
  {c \in CASE route.path = "" -> dashboard(loaded)
           [] route.path = "attention" -> findings(loaded)
           [] OTHER -> route.calls :
     c.given = {} \/ HasAny(caps, c.given)}
==============================================================================
