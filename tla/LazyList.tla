------------------------------- MODULE LazyList -------------------------------
(***************************************************************************)
(* The parallel operations of test/MyFCLinkedList.h: parallelAdd and       *)
(* parallelDelete search without locks, lock the two nodes they found,     *)
(* validate them and start over if the list has changed; parallelContain   *)
(* takes no lock at all.  A node is marked before it is unlinked and is    *)
(* never freed.                                                            *)
(*                                                                         *)
(* Every read of a field that another thread may be writing is a step of   *)
(* its own.  The two reads and the comparison of the validation are one    *)
(* step: the locks that are held keep the three fields as they are.        *)
(* Stores take effect in program order (the barriers between them are      *)
(* commented out in the source; the machine it was written for keeps       *)
(* stores in order).                                                       *)
(***************************************************************************)
EXTENDS Integers, FiniteSets

CONSTANTS
  Threads,
  Keys,              \* the values of inValue
  INT_MIN, INT_MAX,  \* the keys of the sentinels
  MaxNodes,          \* bound: nodes that getNewNode can make
  MaxOps,            \* bound: the calls of each thread
  NULL

ASSUME BoundsAssumption == INT_MIN \in Int /\ INT_MAX \in Int /\ INT_MIN < INT_MAX
ASSUME KeysAssumption == Keys \subseteq INT_MIN + 1 .. INT_MAX - 1
ASSUME NodesAssumption == MaxNodes \in Nat /\ MaxNodes >= 2
ASSUME NullAssumption == NULL \notin Threads \cup BOOLEAN

HEAD  == 1
TAIL  == 2
Nodes == 1 .. MaxNodes
Ops   == {"add", "remove", "contains"}

VARIABLES
  top,       \* nodes made so far
  key, next, marked, lock,   \* _key, _next, _marked, _lock (its holder) of a node
  pc, op, inValue, prev, curr,   \* of a thread
  ret,       \* return_val; NULL after a failed validation
  calls,     \* calls made so far
  unlinked,  \* history: the nodes that have been taken out
  stale,     \* history: those that had been when the thread's call began
  absent,    \* history: inValue was not in the list at some time of the call
  present    \* history: inValue was in the list at some time of the call

heap    == <<top, key, next, marked, unlinked>>
request == <<op, inValue, calls, stale>>
history == <<absent, present>>
vars == <<heap, lock, pc, request, prev, curr, ret, history>>

\* The keys in the list: those of the nodes that are not marked.
Members == {key[n] : n \in {m \in 3 .. top : ~ marked[m]}}

\* What a step shows to the calls that are going on.
Observe ==
  /\ absent' = [t \in Threads |->
                  absent[t] \/ (pc[t] # "idle" /\ inValue[t] \notin Members')]
  /\ present' = [t \in Threads |->
                   present[t] \/ (pc[t] # "idle" /\ inValue[t] \in Members')]

Goto(t, l) == pc' = [pc EXCEPT ![t] = l]

Init ==
  /\ top = 2
  /\ key = [n \in Nodes |-> IF n = HEAD THEN INT_MIN ELSE INT_MAX]
  /\ next = [n \in Nodes |-> IF n = HEAD THEN TAIL ELSE 0]
  /\ marked = [n \in Nodes |-> FALSE]
  /\ lock = [n \in Nodes |-> NULL]
  /\ unlinked = {}
  /\ pc = [t \in Threads |-> "idle"]
  /\ op = [t \in Threads |-> "add"] /\ inValue = [t \in Threads |-> INT_MIN]
  /\ prev = [t \in Threads |-> HEAD] /\ curr = [t \in Threads |-> HEAD]
  /\ ret = [t \in Threads |-> NULL]
  /\ calls = [t \in Threads |-> 0]
  /\ stale = [t \in Threads |-> {}]
  /\ absent = [t \in Threads |-> FALSE] /\ present = [t \in Threads |-> FALSE]

\* The benchmark loop calls one of the three operations.
Call(t, o, k) ==
  /\ pc[t] = "idle" /\ calls[t] < MaxOps[t]
  /\ op' = [op EXCEPT ![t] = o]
  /\ inValue' = [inValue EXCEPT ![t] = k]
  /\ calls' = [calls EXCEPT ![t] = @ + 1]
  /\ stale' = [stale EXCEPT ![t] = unlinked]
  /\ absent' = [absent EXCEPT ![t] = k \notin Members]
  /\ present' = [present EXCEPT ![t] = k \in Members]
  /\ Goto(t, "begin")
  /\ UNCHANGED <<heap, lock, prev, curr, ret>>

\* prev_node = _head; curr_node = _head->_next (parallelContain: _head).
Begin(t) ==
  /\ pc[t] = "begin"
  /\ prev' = [prev EXCEPT ![t] = HEAD]
  /\ curr' = [curr EXCEPT ![t] = IF op[t] = "contains" THEN HEAD ELSE next[HEAD]]
  /\ Goto(t, "walk")
  /\ UNCHANGED <<heap, lock, request, ret, history>>

\* while (curr_node->_key < inValue) { prev_node = curr_node; curr_node = ... }
Walk(t) ==
  /\ pc[t] = "walk" /\ key[curr[t]] < inValue[t]
  /\ prev' = [prev EXCEPT ![t] = curr[t]]
  /\ curr' = [curr EXCEPT ![t] = next[curr[t]]]
  /\ UNCHANGED <<heap, lock, pc, request, ret, history>>

Found(t) == pc[t] = "walk" /\ key[curr[t]] >= inValue[t]

\* Mutant: the mark is not looked at.
MutLook(t) ==
  /\ Found(t) /\ op[t] = "contains"
  /\ ret' = [ret EXCEPT ![t] = key[curr[t]] = inValue[t]]
  /\ Goto(t, "return")
  /\ UNCHANGED <<heap, lock, request, prev, curr, history>>

\* parallelContain: curr_node->_key == inValue && !curr_node->_marked.
Look(t) ==
  /\ Found(t) /\ op[t] = "contains"
  /\ ret' = [ret EXCEPT ![t] = key[curr[t]] = inValue[t] /\ ~ marked[curr[t]]]
  /\ Goto(t, "return")
  /\ UNCHANGED <<heap, lock, request, prev, curr, history>>

\* prev_node->_lock.lock().
LockPrev(t) ==
  /\ Found(t) /\ op[t] # "contains"
  /\ lock[prev[t]] = NULL
  /\ lock' = [lock EXCEPT ![prev[t]] = t]
  /\ Goto(t, "lock")
  /\ UNCHANGED <<heap, request, prev, curr, ret, history>>

\* Mutant: the lock is taken for granted.
MutLockCurr(t) ==
  /\ pc[t] = "lock"
  /\ lock' = [lock EXCEPT ![curr[t]] = t]
  /\ Goto(t, "validate")
  /\ UNCHANGED <<heap, request, prev, curr, ret, history>>

\* curr_node->_lock.lock().
LockCurr(t) ==
  /\ pc[t] = "lock"
  /\ lock[curr[t]] = NULL
  /\ lock' = [lock EXCEPT ![curr[t]] = t]
  /\ Goto(t, "validate")
  /\ UNCHANGED <<heap, request, prev, curr, ret, history>>

\* Mutants: the validation forgets that the nodes must be neighbours; it forgets
\* that the first one must still be in the list.
MutValidNext(t) == ~ marked[prev[t]] /\ ~ marked[curr[t]]
MutValidPrev(t) == ~ marked[curr[t]] /\ next[prev[t]] = curr[t]

\* !prev_node->_marked && !curr_node->_marked && prev_node->_next == curr_node.
Valid(t) == ~ marked[prev[t]] /\ ~ marked[curr[t]] /\ next[prev[t]] = curr[t]

\* The validation fails: unlock and start over.
Retry(t) ==
  /\ pc[t] = "validate" /\ ~ Valid(t)
  /\ ret' = [ret EXCEPT ![t] = NULL]
  /\ Goto(t, "unlockCurr")
  /\ UNCHANGED <<heap, lock, request, prev, curr, history>>

\* parallelAdd finds the key, or parallelDelete does not.
NoChange(t) ==
  /\ pc[t] = "validate" /\ Valid(t)
  /\ (op[t] = "add") <=> (key[curr[t]] = inValue[t])
  /\ ret' = [ret EXCEPT ![t] = FALSE]
  /\ Goto(t, "unlockCurr")
  /\ UNCHANGED <<heap, lock, request, prev, curr, history>>

\* parallelAdd: the new node is made, pointed to curr_node and linked.
Link(t) ==
  LET new == top + 1 IN
  /\ pc[t] = "validate" /\ Valid(t)
  /\ op[t] = "add" /\ key[curr[t]] # inValue[t] /\ new \in Nodes
  /\ top' = new
  /\ key' = [key EXCEPT ![new] = inValue[t]]
  /\ next' = [next EXCEPT ![new] = curr[t], ![prev[t]] = new]
  /\ ret' = [ret EXCEPT ![t] = TRUE]
  /\ Goto(t, "unlockCurr")
  /\ UNCHANGED <<marked, unlinked, lock, request, prev, curr>>
  /\ Observe

\* parallelDelete: curr_node->_marked = true.
Mark(t) ==
  /\ pc[t] = "validate" /\ Valid(t)
  /\ op[t] = "remove" /\ key[curr[t]] = inValue[t]
  /\ marked' = [marked EXCEPT ![curr[t]] = TRUE]
  /\ ret' = [ret EXCEPT ![t] = TRUE]
  /\ Goto(t, "unlink")
  /\ UNCHANGED <<top, key, next, unlinked, lock, request, prev, curr>>
  /\ Observe

\* parallelDelete: prev_node->_next = curr_node->_next.
Unlink(t) ==
  /\ pc[t] = "unlink"
  /\ next' = [next EXCEPT ![prev[t]] = next[curr[t]]]
  /\ unlinked' = unlinked \cup {curr[t]}
  /\ Goto(t, "unlockCurr")
  /\ UNCHANGED <<top, key, marked, lock, request, prev, curr, ret, history>>

\* curr_node->_lock.unlock().
UnlockCurr(t) ==
  /\ pc[t] = "unlockCurr"
  /\ lock' = [lock EXCEPT ![curr[t]] = NULL]
  /\ Goto(t, "unlockPrev")
  /\ UNCHANGED <<heap, request, prev, curr, ret, history>>

\* Mutant: a failed validation is repeated with the same nodes.
MutUnlockPrev(t) ==
  /\ pc[t] = "unlockPrev"
  /\ lock' = [lock EXCEPT ![prev[t]] = NULL]
  /\ Goto(t, IF ret[t] = NULL THEN "walk" ELSE "return")
  /\ UNCHANGED <<heap, request, prev, curr, ret, history>>

\* prev_node->_lock.unlock(), then return or search again.
UnlockPrev(t) ==
  /\ pc[t] = "unlockPrev"
  /\ lock' = [lock EXCEPT ![prev[t]] = NULL]
  /\ Goto(t, IF ret[t] = NULL THEN "begin" ELSE "return")
  /\ UNCHANGED <<heap, request, prev, curr, ret, history>>

\* The result is returned; the locals of the call go out of scope.
Return(t) ==
  /\ pc[t] = "return"
  /\ Goto(t, "idle")
  /\ op' = [op EXCEPT ![t] = "add"] /\ inValue' = [inValue EXCEPT ![t] = INT_MIN]
  /\ prev' = [prev EXCEPT ![t] = HEAD] /\ curr' = [curr EXCEPT ![t] = HEAD]
  /\ ret' = [ret EXCEPT ![t] = NULL]
  /\ stale' = [stale EXCEPT ![t] = {}]
  /\ absent' = [absent EXCEPT ![t] = FALSE] /\ present' = [present EXCEPT ![t] = FALSE]
  /\ UNCHANGED <<heap, lock, calls>>

Step(t) ==
  \/ Begin(t) \/ Walk(t) \/ Look(t) \/ LockPrev(t) \/ LockCurr(t) \/ Retry(t)
  \/ NoChange(t) \/ Link(t) \/ Mark(t) \/ Unlink(t) \/ UnlockCurr(t) \/ UnlockPrev(t)
  \/ Return(t)

\* All threads have left the benchmark loop.
AllDone == \A t \in Threads : pc[t] = "idle" /\ calls[t] = MaxOps[t]

Next ==
  \/ \E t \in Threads : (\E o \in Ops, k \in Keys : Call(t, o, k)) \/ Step(t)
  \/ AllDone /\ UNCHANGED vars

\* The scheduler runs every thread; a TASLock favours nobody.
Fairness == \A t \in Threads : WF_vars(Step(t))

SafeSpec == Init /\ [][Next]_vars
Spec     == SafeSpec /\ Fairness

-----------------------------------------------------------------------------
(* Properties.                                                             *)

TypeOK ==
  /\ top \in 2 .. MaxNodes
  /\ key \in [Nodes -> INT_MIN .. INT_MAX] /\ next \in [Nodes -> 0 .. top]
  /\ marked \in [Nodes -> BOOLEAN] /\ lock \in [Nodes -> Threads \cup {NULL}]
  /\ unlinked \subseteq 3 .. top
  /\ pc \in [Threads -> {"idle", "begin", "walk", "lock", "validate", "unlink",
                         "unlockCurr", "unlockPrev", "return"}]
  /\ op \in [Threads -> Ops] /\ inValue \in [Threads -> Keys \cup {INT_MIN}]
  /\ prev \in [Threads -> 1 .. top] /\ curr \in [Threads -> 1 .. top]
  /\ ret \in [Threads -> BOOLEAN \cup {NULL}]
  /\ stale \in [Threads -> SUBSET unlinked]
  /\ absent \in [Threads -> BOOLEAN] /\ present \in [Threads -> BOOLEAN]

\* The nodes that have not been taken out; a marked one may still be among them.
Linked == 1 .. top \ unlinked

\* The list stays sorted and complete under concurrent updates: _next leads to a
\* larger key, also from nodes that were taken out; from a linked node it leads to
\* the next linked node, and no two linked nodes have the same key.
ListShape ==
  /\ \A n \in 1 .. top \ {TAIL} : next[n] \in 2 .. top /\ key[n] < key[next[n]]
  /\ \A n \in Linked \ {TAIL} :
       /\ next[n] \in Linked
       /\ \A m \in Linked : key[m] <= key[n] \/ key[m] >= key[next[n]]
  /\ \A m, n \in Linked : key[m] = key[n] => m = n

\* The locks of a thread's two nodes; while it unlinks the second one, the first
\* still leads to it.
HoldsLocks(t) ==
  /\ pc[t] \in {"validate", "unlink", "unlockCurr"} => lock[curr[t]] = t
  /\ pc[t] \in {"lock", "validate", "unlink", "unlockCurr", "unlockPrev"} =>
       lock[prev[t]] = t
  /\ pc[t] = "unlink" => /\ next[prev[t]] = curr[t] /\ ~ marked[prev[t]]
                         /\ marked[curr[t]] /\ curr[t] \notin unlinked

\* A thread past its validation works on two neighbours of the list, holding the
\* locks of both.
LocksProtect == \A t \in Threads : HoldsLocks(t)

\* parallelContain, without locks and over nodes that are being unlinked: the
\* answer was right at some time between the call and the return.
ContainsLinearizable ==
  \A t \in Threads : pc[t] = "return" /\ op[t] = "contains" =>
    IF ret[t] THEN present[t] ELSE absent[t]

\* AtomicSet's view of the updates: an add takes effect when the node is linked, a
\* delete when it is marked, a failed one when the validation succeeds.
AbstractReq(t) ==
  IF op[t] = "contains" \/ pc[t] = "idle" THEN <<>>
  ELSE IF /\ pc[t] \in {"unlink", "unlockCurr", "unlockPrev", "return"}
          /\ ret[t] # NULL
       THEN <<op[t], inValue[t], ret[t]>>
       ELSE <<op[t], inValue[t]>>

KeySet == INSTANCE AtomicSet WITH
  Threads <- Threads, Keys <- Keys, Capacity <- MaxNodes,
  set <- Members,
  req <- [t \in Threads |-> AbstractReq(t)]

\* parallelAdd and parallelDelete are the operations of an atomic set.
ImplementsSet == KeySet!Spec

\* Every call returns: locks are taken in the order of the keys, so threads never
\* wait for each other in a circle, and a retry needs another thread's success.
EveryCallReturns == \A t \in Threads : (pc[t] # "idle") ~> (pc[t] = "idle")
=============================================================================
