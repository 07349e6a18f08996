------------------------------ MODULE AtomicSet ------------------------------
(***************************************************************************)
(* What every list of the repository promises its callers: a set of keys   *)
(* with add, remove and contains, each of which takes effect in one step   *)
(* between its call and its return.  An add of a new key fails only when   *)
(* the set already holds Capacity keys.                                    *)
(***************************************************************************)
EXTENDS Integers, FiniteSets

CONSTANTS
  Threads,    \* the callers
  Keys,       \* the keys they use
  Capacity    \* how many keys the set has room for

VARIABLES
  set,        \* the keys in the set
  req         \* per thread: <<>>, <<op, key>> (called) or <<op, key, result>>

vars == <<set, req>>

Ops == {"add", "remove", "contains"}

Init ==
  /\ set = {}
  /\ req = [t \in Threads |-> <<>>]

Call(t, op, k) ==
  /\ req[t] = <<>>
  /\ req' = [req EXCEPT ![t] = <<op, k>>]
  /\ UNCHANGED set

Answer(t, op, k, res) ==
  /\ req[t] = <<op, k>>
  /\ req' = [req EXCEPT ![t] = <<op, k, res>>]

Add(t, k) ==
  \/ /\ k \notin set /\ Cardinality(set) < Capacity
     /\ set' = set \cup {k}
     /\ Answer(t, "add", k, TRUE)
  \/ /\ k \in set \/ Cardinality(set) >= Capacity
     /\ UNCHANGED set
     /\ Answer(t, "add", k, FALSE)

Remove(t, k) ==
  /\ set' = set \ {k}
  /\ Answer(t, "remove", k, k \in set)

Contains(t, k) ==
  /\ UNCHANGED set
  /\ Answer(t, "contains", k, k \in set)

Return(t) ==
  /\ \E op \in Ops, k \in Keys, res \in BOOLEAN : req[t] = <<op, k, res>>
  /\ req' = [req EXCEPT ![t] = <<>>]
  /\ UNCHANGED set

Next ==
  \E t \in Threads :
    \/ \E op \in Ops, k \in Keys : Call(t, op, k)
    \/ \E k \in Keys : Add(t, k) \/ Remove(t, k) \/ Contains(t, k)
    \/ Return(t)

Spec == Init /\ [][Next]_vars
=============================================================================
