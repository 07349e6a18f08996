----------------------------- MODULE MCLFSkipList -----------------------------
(* Instances of LFSkipList for TLC.                                         *)
EXTENDS LFSkipList, TLC

CONSTANTS t1, t2

\* Two threads, one of which makes two calls.
TwoAndOne == t1 :> 2 @@ t2 :> 1
=============================================================================
