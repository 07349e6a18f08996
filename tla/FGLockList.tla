----------------------------- MODULE FGLockList -----------------------------
(***************************************************************************)
(* host/gen_multi/FGLockLinkedList.h: a sorted list with a mutex in every  *)
(* node.  A walk locks the next node before it lets go of the last one;    *)
(* remove unlinks a node, unlocks it, destroys its mutex and deletes it,   *)
(* and the allocator may hand the memory to the next add.                  *)
(*                                                                         *)
(* A field is read only under the lock of its node, so what happens from   *)
(* one lock operation to the next is one step.                             *)
(***************************************************************************)
EXTENDS Integers, FiniteSets

CONSTANTS
  Threads,
  Keys,
  UINT32_MAX,   \* the data of the tail
  MaxNodes,     \* bound: the memory, in nodes
  MaxOps,       \* bound: the calls of all threads
  TailLock,     \* what the memory of the tail's mutex, which the constructor
                \* does not initialise, can be found to hold
  NULL, GARBAGE

ASSUME KeysAssumption == Keys \subseteq 0 .. UINT32_MAX - 1 /\ IsFiniteSet(Keys)
ASSUME MemoryAssumption == MaxNodes \in Nat /\ MaxNodes >= 2
ASSUME MutexAssumption ==
  /\ TailLock \subseteq {NULL, GARBAGE} /\ TailLock # {}
  /\ NULL # GARBAGE /\ {NULL, GARBAGE} \cap Threads = {}

HEAD  == 1
TAIL  == 2
Nodes == 1 .. MaxNodes
Ops   == {"add", "remove", "contains"}

VARIABLES
  used,               \* the nodes that are allocated
  data, next,
  node_lock,          \* the holder of a node's mutex
  pc, op, x, pred, curr, ret,    \* per thread
  calls               \* calls made so far

heap == <<used, data, next>>
request == <<op, x, calls>>
vars == <<heap, node_lock, pc, request, pred, curr, ret>>

Goto(t, l) == pc' = [pc EXCEPT ![t] = l]
Unlock(n) == node_lock' = [node_lock EXCEPT ![n] = NULL]

Init ==
  /\ used = {HEAD, TAIL}
  /\ data = [n \in Nodes |-> IF n = TAIL THEN UINT32_MAX ELSE 0]
  /\ next = [n \in Nodes |-> IF n = HEAD THEN TAIL ELSE NULL]
  /\ \E l \in TailLock : node_lock = [n \in Nodes |-> IF n = TAIL THEN l ELSE NULL]
  /\ pc = [t \in Threads |-> "idle"]
  /\ op = [t \in Threads |-> "add"] /\ x = [t \in Threads |-> 0]
  /\ pred = [t \in Threads |-> HEAD] /\ curr = [t \in Threads |-> HEAD]
  /\ ret = [t \in Threads |-> NULL] /\ calls = 0

Call(t, o, k) ==
  /\ pc[t] = "idle" /\ calls < MaxOps
  /\ op' = [op EXCEPT ![t] = o] /\ x' = [x EXCEPT ![t] = k]
  /\ calls' = calls + 1
  /\ pred' = [pred EXCEPT ![t] = HEAD]
  /\ Goto(t, "head")
  /\ UNCHANGED <<heap, node_lock, curr, ret>>

\* pthread_mutex_lock of the head's mutex.
LockHead(t) ==
  /\ pc[t] = "head" /\ node_lock[HEAD] = NULL
  /\ node_lock' = [node_lock EXCEPT ![HEAD] = t]
  /\ Goto(t, "next")
  /\ UNCHANGED <<heap, request, pred, curr, ret>>

\* Mutant: remove does not wait for the node it may take out.
MutLockNext(t) ==
  /\ pc[t] = "next" /\ (op[t] = "remove" \/ node_lock[next[pred[t]]] = NULL)
  /\ curr' = [curr EXCEPT ![t] = next[pred[t]]]
  /\ node_lock' = [node_lock EXCEPT ![curr'[t]] = t]
  /\ Goto(t, IF op[t] = "contains" THEN "release" ELSE "look")
  /\ UNCHANGED <<heap, request, pred, ret>>

\* curr = pred->next; pthread_mutex_lock(&curr->node_lock).
LockNext(t) ==
  /\ pc[t] = "next" /\ node_lock[next[pred[t]]] = NULL
  /\ curr' = [curr EXCEPT ![t] = next[pred[t]]]
  /\ node_lock' = [node_lock EXCEPT ![curr'[t]] = t]
  /\ Goto(t, IF op[t] = "contains" THEN "release" ELSE "look")
  /\ UNCHANGED <<heap, request, pred, ret>>

\* The walk leaves pred: contains before it looks at curr, the others after it.
Release(t) ==
  /\ pc[t] = "release"
  /\ Unlock(pred[t])
  /\ pred' = [pred EXCEPT ![t] = curr[t]]
  /\ Goto(t, IF op[t] = "contains" THEN "look" ELSE "next")
  /\ UNCHANGED <<heap, request, curr, ret>>

\* Mutant: contains lets go of the node before it has locked the next one.
MutGoOn(t) ==
  /\ pc[t] = "look" /\ curr[t] # TAIL /\ data[curr[t]] < x[t]
  /\ IF op[t] = "contains" THEN Unlock(curr[t]) ELSE UNCHANGED node_lock
  /\ Goto(t, IF op[t] = "contains" THEN "next" ELSE "release")
  /\ UNCHANGED <<heap, request, pred, curr, ret>>

\* The key is further on.
GoOn(t) ==
  /\ pc[t] = "look" /\ curr[t] # TAIL /\ data[curr[t]] < x[t]
  /\ Goto(t, IF op[t] = "contains" THEN "next" ELSE "release")
  /\ UNCHANGED <<heap, node_lock, request, pred, curr, ret>>

Found(t) == curr[t] # TAIL /\ data[curr[t]] = x[t]
Past(t)  == curr[t] = TAIL \/ x[t] < data[curr[t]]

Answer(t, r) == ret' = [ret EXCEPT ![t] = r]

\* A call that changes nothing: contains, an add of a key that is there, a remove
\* of one that is not.
NoChange(t) ==
  /\ pc[t] = "look"
  /\ CASE op[t] = "add"    -> Found(t)
       [] op[t] = "remove" -> Past(t)
       [] OTHER            -> Found(t) \/ Past(t)
  /\ Answer(t, op[t] = "contains" /\ Found(t))
  /\ Goto(t, IF op[t] = "contains" THEN "unlock_curr" ELSE "unlock_pred")
  /\ UNCHANGED <<heap, node_lock, request, pred, curr>>

\* add: new Node, pthread_mutex_init, pred->next = node1.
Link(t, n) ==
  /\ pc[t] = "look" /\ op[t] = "add" /\ Past(t)
  /\ n \notin used /\ used' = used \cup {n}
  /\ data' = [data EXCEPT ![n] = x[t]]
  /\ next' = [next EXCEPT ![n] = curr[t], ![pred[t]] = n]
  /\ Unlock(n)
  /\ Answer(t, TRUE)
  /\ Goto(t, "unlock_pred")
  /\ UNCHANGED <<request, pred, curr>>

\* remove: pred->next = curr->next.
Unlink(t) ==
  /\ pc[t] = "look" /\ op[t] = "remove" /\ Found(t)
  /\ next' = [next EXCEPT ![pred[t]] = next[curr[t]]]
  /\ Answer(t, TRUE)
  /\ Goto(t, "unlock_curr")
  /\ UNCHANGED <<used, data, node_lock, request, pred, curr>>

\* Mutant: an add that fails returns with the node before the key locked.
MutUnlockPred(t) ==
  /\ pc[t] = "unlock_pred"
  /\ IF op[t] = "add" /\ ~ ret[t] THEN UNCHANGED node_lock ELSE Unlock(pred[t])
  /\ Goto(t, IF op[t] = "remove" /\ ret[t] THEN "return" ELSE "unlock_curr")
  /\ UNCHANGED <<heap, request, pred, curr, ret>>

\* pthread_mutex_unlock(&pred->node_lock): the last step of a successful remove.
UnlockPred(t) ==
  /\ pc[t] = "unlock_pred"
  /\ Unlock(pred[t])
  /\ Goto(t, IF op[t] = "remove" /\ ret[t] THEN "return" ELSE "unlock_curr")
  /\ UNCHANGED <<heap, request, pred, curr, ret>>

\* pthread_mutex_unlock(&curr->node_lock).
UnlockCurr(t) ==
  /\ pc[t] = "unlock_curr"
  /\ Unlock(curr[t])
  /\ Goto(t, IF op[t] = "remove" /\ ret[t] THEN "delete" ELSE "return")
  /\ UNCHANGED <<heap, request, pred, curr, ret>>

\* pthread_mutex_destroy, delete curr.
Delete(t) ==
  /\ pc[t] = "delete"
  /\ used' = used \ {curr[t]}
  /\ Goto(t, "unlock_pred")
  /\ UNCHANGED <<data, next, node_lock, request, pred, curr, ret>>

\* The locals go with the call.
Return(t) ==
  /\ pc[t] = "return"
  /\ Answer(t, NULL)
  /\ op' = [op EXCEPT ![t] = "add"] /\ x' = [x EXCEPT ![t] = 0]
  /\ pred' = [pred EXCEPT ![t] = HEAD] /\ curr' = [curr EXCEPT ![t] = HEAD]
  /\ Goto(t, "idle")
  /\ UNCHANGED <<heap, node_lock, calls>>

Step(t) ==
  \/ LockHead(t) \/ LockNext(t) \/ Release(t) \/ GoOn(t) \/ NoChange(t)
  \/ (\E n \in Nodes : Link(t, n)) \/ Unlink(t)
  \/ UnlockPred(t) \/ UnlockCurr(t) \/ Delete(t) \/ Return(t)

AllDone == calls = MaxOps /\ \A t \in Threads : pc[t] = "idle"

Next ==
  \/ \E t \in Threads : (\E o \in Ops, k \in Keys : Call(t, o, k)) \/ Step(t)
  \/ AllDone /\ UNCHANGED vars

SafeSpec == Init /\ [][Next]_vars

\* A thread that can go on goes on; a mutex that stays free is given to a thread
\* that waits for it.
Spec == SafeSpec /\ \A t \in Threads : WF_vars(Step(t))

-----------------------------------------------------------------------------
TypeOK ==
  /\ used \subseteq Nodes
  /\ data \in [Nodes -> Keys \cup {0, UINT32_MAX}] /\ next \in [Nodes -> Nodes \cup {NULL}]
  /\ node_lock \in [Nodes -> Threads \cup {NULL, GARBAGE}]
  /\ pc \in [Threads -> {"idle", "head", "next", "release", "look", "unlock_pred",
                         "unlock_curr", "delete", "return"}]
  /\ op \in [Threads -> Ops] /\ x \in [Threads -> Keys \cup {0}]
  /\ pred \in [Threads -> Nodes] /\ curr \in [Threads -> Nodes]
  /\ ret \in [Threads -> BOOLEAN \cup {NULL}] /\ calls \in 0 .. MaxOps

\* The nodes of the list.
Linked ==
  LET reach[i \in 0 .. MaxNodes] == IF i = 0 THEN {HEAD}
        ELSE reach[i - 1] \cup {next[n] : n \in reach[i - 1] \ {TAIL}}
  IN  reach[MaxNodes]

\* The node whose next field or whose mutex t touches in its next step.
Touched(t) ==
  CASE pc[t] = "next"                          -> {pred[t], next[pred[t]]}
    [] pc[t] = "look" /\ op[t] = "contains"    -> {curr[t]}
    [] pc[t] \in {"release", "look"}           -> {pred[t], curr[t]}
    [] pc[t] = "unlock_pred"                   -> {pred[t]}
    [] pc[t] \in {"unlock_curr", "delete"}     -> {curr[t]}
    [] OTHER                                   -> {}

\* remove deletes a node right after it has unlocked it: no other thread stands on
\* the node, waits for its mutex, or is about to; the list leads to no deleted node
\* and no field it reads is garbage.
NoUseAfterDelete ==
  /\ TypeOK /\ Linked \subseteq used
  /\ \A t \in Threads :
       /\ Touched(t) \subseteq used
       /\ pc[t] = "delete" => \A u \in Threads \ {t} : curr[t] \notin Touched(u)

\* Every operation takes effect in one step between its call and its return, the
\* contains included, which holds one lock when it answers.
KeySet == INSTANCE AtomicSet WITH
            Capacity <- Cardinality(Keys),
            set <- {data[n] : n \in Linked \ {HEAD, TAIL}},
            req <- [t \in Threads |->
                      CASE pc[t] = "idle"  -> <<>>
                        [] ret[t] = NULL   -> <<op[t], x[t]>>
                        [] OTHER           -> <<op[t], x[t], ret[t]>>]
ImplementsSet == KeySet!Spec

\* Every call returns ("Returns true ..., otherwise returns false"): the locks are
\* taken in the order of the list, so no circle of threads waits.
EveryCallReturns == \A t \in Threads : (pc[t] # "idle") ~> (pc[t] = "idle")
=============================================================================
