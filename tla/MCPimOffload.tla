----------------------------- MODULE MCPimOffload -----------------------------
(* Three pages of two bytes, in four frames of which three can follow each      *)
(* other: data sets that share a page, touch, overlap, or leave a page between. *)
EXTENDS PimOffload

ThreePages == 1 .. 3
FourFrames == {2, 4, 6, 10}
SomeRanges ==
  {[v_addr |-> a, size |-> n] : <<a, n>> \in {<<2, 6>>, <<3, 1>>, <<4, 2>>, <<6, 1>>}}
=============================================================================
