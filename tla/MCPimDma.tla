------------------------------- MODULE MCPimDma -------------------------------
(* Four pages of four bytes, lines of two bytes; the frames of the last two     *)
(* pages are together, so that they are one slice.                              *)
EXTENDS PimDma, TLC

ThreeSlices == {(0 :> 20) @@ (1 :> 12) @@ (2 :> 4) @@ (3 :> 8)}

LastSlice == {12, 16}
TwoSlices == {[start |-> 7, bytes |-> 3], [start |-> 10, bytes |-> 4]}
=============================================================================
