-------------------------- MODULE MCActionRegistry --------------------------
(* Instances of ActionRegistry for TLC.                                     *)
EXTENDS ActionRegistry, TLC

CONSTANTS q1, q2, r1, r2, e1, e2

(* An action that waits and a job on one resource, and beside them one that *)
(* does not wait on another.                                                *)
OneOfEach ==
  [mode : {"foreground", "background"}, lock : {r1}] \cup [mode : {"nonblocking"}, lock : {r2}]

Symmetry == Permutations({q1, q2}) \cup Permutations({e1, e2})
==============================================================================
