------------------------------ MODULE MCLazyList ------------------------------
(* Instances of LazyList for TLC.                                           *)
EXTENDS LazyList, TLC

CONSTANTS t1, t2

\* Two threads that update; a reader among them is one of their calls.
TwoEach == t1 :> 2 @@ t2 :> 2
=============================================================================
