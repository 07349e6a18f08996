---------------------------- MODULE MCFCLinkedList ----------------------------
(* Instances of FCLinkedList for TLC.                                       *)
EXTENDS FCLinkedList, TLC

CONSTANTS t1, t2

\* Requests on neighbouring keys, so that a pass over the list meets nodes that it
\* has just linked or freed.
TwoKeys == {<<"add", 1>>, <<"remove", 1>>, <<"add", 2>>, <<"contains", 2>>}

\* One thread is away long enough to lose its slot to the other's combining round,
\* and posts again meanwhile.
TwoOne == t1 :> 2 @@ t2 :> 1
=============================================================================
