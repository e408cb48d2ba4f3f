------------------------------ MODULE MCGating -------------------------------
(***************************************************************************)
(* Start and gating on small instances: the start of the broker with the   *)
(* pages of the web process, the web process's cache of the set, and the   *)
(* start of the web process.  The three share no variable, so a behaviour  *)
(* moves one of them (`which`) and leaves the others as they begin: their  *)
(* states add up instead of multiplying.                                   *)
(***************************************************************************)
EXTENDS Gating, CapabilityCache, WebStart

VARIABLE which

(* The capabilities that interact in a gate are on one host: systemd and   *)
(* what is used with it on the first, the others on the second.            *)
MCProbeable ==
  <<{"systemd", "journald", "bootc", "rpm-ostree", "autoupdate-bootc"},
    {"updex", "sysext", "podman", "docker", "incus", "k3s"}>>

MCInit ==
  /\ which \in {"gating", "cache", "web"}
  /\ GatingInit /\ CacheInit /\ WebInit
  /\ which = "gating" \/ sock = "absent"

MCNext ==
  /\ UNCHANGED which
  /\ \/ which = "gating" /\ GatingNext /\ UNCHANGED <<cacheVars, webStartVars>>
     \/ which = "cache" /\ CacheNext /\ UNCHANGED <<gatingVars, webStartVars>>
     \/ which = "web" /\ WebNext /\ UNCHANGED <<gatingVars, cacheVars>>

MCSpec == MCInit /\ [][MCNext]_<<which, gatingVars, cacheVars, webStartVars>>
==============================================================================
