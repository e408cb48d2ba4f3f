---------------------------- MODULE MCFileUpload ----------------------------
(* An upload of the whole limit against an empty one, and two that must not *)
(* be published: one unit too large, and not ending as it should.           *)
EXTENDS FileUpload

CONSTANTS u1, u2

B(n, end) == [size |-> n, ending |-> end]

BothGoodOrBothBad ==
  {[u \in {u1, u2} |-> IF u = u1 THEN B(Limit, "proper") ELSE B(0, "proper")],
   [u \in {u1, u2} |-> IF u = u1 THEN B(Limit + 1, "proper") ELSE B(0, "bad")]}
==============================================================================
