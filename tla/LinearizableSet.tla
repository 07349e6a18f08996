--------------------------- MODULE LinearizableSet ---------------------------
(***************************************************************************)
(* A linearizable set of keys, for implementations whose unsuccessful      *)
(* calls have no fixed point at which they take effect.  Only a successful *)
(* add or remove changes the set, in one step of its own.  A call that     *)
(* changes nothing may give any answer that was right at some time between *)
(* its invocation and that answer.                                         *)
(***************************************************************************)
CONSTANTS
  Threads,    \* the callers
  Keys        \* the keys they use

VARIABLES
  set,        \* the keys in the set
  req,        \* per thread: <<>>, <<op, key>> (called) or <<op, key, result>>
  seen        \* per thread: whether its key was in the set, since it called

vars == <<set, req, seen>>

Ops == {"add", "remove", "contain"}

Init ==
  /\ set \in SUBSET Keys
  /\ req = [t \in Threads |-> <<>>]
  /\ seen = [t \in Threads |-> {}]

Call(t, op, k) ==
  /\ req[t] = <<>>
  /\ req' = [req EXCEPT ![t] = <<op, k>>]
  /\ seen' = [seen EXCEPT ![t] = {k \in set}]
  /\ UNCHANGED set

Answer(t, op, k, res) ==
  /\ req[t] = <<op, k>>
  /\ req' = [req EXCEPT ![t] = <<op, k, res>>]

\* The set changes; every call that is going on sees it.
Becomes(s) ==
  /\ set' = s
  /\ seen' = [t \in Threads |->
                IF req[t] = <<>> THEN {} ELSE seen[t] \cup {req[t][2] \in s}]

Add(t, k) ==
  \/ k \notin set /\ Becomes(set \cup {k}) /\ Answer(t, "add", k, TRUE)
  \/ TRUE \in seen[t] /\ Answer(t, "add", k, FALSE) /\ UNCHANGED <<set, seen>>

Remove(t, k) ==
  \/ k \in set /\ Becomes(set \ {k}) /\ Answer(t, "remove", k, TRUE)
  \/ FALSE \in seen[t] /\ Answer(t, "remove", k, FALSE) /\ UNCHANGED <<set, seen>>

Contain(t, k) ==
  \E res \in seen[t] : Answer(t, "contain", k, res) /\ UNCHANGED <<set, seen>>

Return(t) ==
  /\ \E op \in Ops, k \in Keys, res \in BOOLEAN : req[t] = <<op, k, res>>
  /\ req' = [req EXCEPT ![t] = <<>>]
  /\ seen' = [seen EXCEPT ![t] = {}]
  /\ UNCHANGED set

Next ==
  \E t \in Threads :
    \/ \E op \in Ops, k \in Keys : Call(t, op, k)
    \/ \E k \in Keys : Add(t, k) \/ Remove(t, k) \/ Contain(t, k)
    \/ Return(t)

Spec == Init /\ [][Next]_vars
=============================================================================
