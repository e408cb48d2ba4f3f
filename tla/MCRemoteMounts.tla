--------------------------- MODULE MCRemoteMounts ---------------------------
(* Two definitions for one target.                                          *)
EXTENDS RemoteMounts, TLC

CONSTANTS d1, d2, t1

SameTarget == d1 :> t1 @@ d2 :> t1

Symmetry == Permutations(Workers)
==============================================================================
