----------------------------- MODULE SortedList -----------------------------
(***************************************************************************)
(* The sequential sorted list of the host programs as operators on the     *)
(* sequence of its data: the walk of its three operations, and what they   *)
(* do where it stops.  CoarseLinkedList.h does the same under one lock; it *)
(* does not compare the key with the head's data, which the LinkedList.h   *)
(* of the checkers does.                                                   *)
(***************************************************************************)
EXTENDS Integers, SequencesExt

HeadData == 0    \* node1->data = 0

\* Where "while (curr != tail)" stops: at the first data that is not less than x.
Stop(list, x) ==
  CHOOSE i \in 1 .. Len(list) + 1 :
    /\ \A j \in 1 .. i - 1 : list[j] < x
    /\ i <= Len(list) => list[i] >= x

Holds(list, x) == Stop(list, x) <= Len(list) /\ list[Stop(list, x)] = x

\* The result and the new list of an operation of CoarseLinkedList.
CoarseResult(op, list, x) == IF op = "add" THEN ~ Holds(list, x) ELSE Holds(list, x)

CoarseList(op, list, x) ==
  IF op = "add" /\ ~ Holds(list, x) THEN InsertAt(list, Stop(list, x), x)
  ELSE IF op = "remove" /\ Holds(list, x) THEN RemoveAt(list, Stop(list, x))
  ELSE list

\* The same of LinkedList.
ListResult(op, list, x) ==
  IF x = HeadData /\ op # "contains" THEN FALSE ELSE CoarseResult(op, list, x)

ListAfter(op, list, x) ==
  IF x = HeadData THEN list ELSE CoarseList(op, list, x)
=============================================================================
