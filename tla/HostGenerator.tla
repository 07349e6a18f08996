---------------------------- MODULE HostGenerator ----------------------------
(***************************************************************************)
(* host/gen_multi/host_generator_pthread.cpp: main fills the list, then    *)
(* threads run random operations on the CoarseLinkedList they share and    *)
(* write each one with its result into a file of their own.  op_count and  *)
(* size are shared counters, atomic in every access but not from one       *)
(* access to the next.                                                     *)
(***************************************************************************)
EXTENDS SortedList, FiniteSets

CONSTANTS
  NUM_THREADS,
  Keys,          \* of the threads: left_bound .. right_bound
  InitKeys,      \* of main: rand()%range + left_bound; the default range is one more
  initial_size, max_size, contain_percent, total_ops,
  MaxTries,      \* bound: additions that main tries
  NULL

ASSUME KeysAssumption == Keys \subseteq InitKeys /\ InitKeys \subseteq Nat /\ IsFiniteSet(InitKeys)
ASSUME InputAssumption ==
  /\ initial_size \in Nat /\ max_size \in Nat /\ total_ops \in Nat
  /\ contain_percent \in 0 .. 100
  /\ initial_size <= max_size /\ initial_size <= Cardinality(InitKeys)
ASSUME ThreadsAssumption == NUM_THREADS \in Nat \ {0}
ASSUME NullAssumption == NULL \notin 0 .. NUM_THREADS - 1

Threads == 0 .. NUM_THREADS - 1

Ops == {"add", "remove", "contains"}

\* The branch that rand_temp \in 1 .. 100 selects.
Case(r) ==
  CASE r <= contain_percent -> "contains"
    [] r > contain_percent + (100 - contain_percent) \div 2 -> "remove"
    [] OTHER -> "add"
Cases == {Case(r) : r \in 1 .. 100}

VARIABLES
  list,            \* the data of the nodes
  list_lock,       \* the holder of head->list_lock
  op_count, size,
  init_txt,        \* the lines of init.txt
  op_txt,          \* per thread: the lines of its file
  pc, op, key, ret, at,   \* per thread; at is where its walk stopped
  exited                  \* exit(-1): a thread could not be created

shared == <<list, list_lock, op_count, size>>
vars == <<shared, init_txt, op_txt, pc, op, key, ret, at, exited>>

Line(o, k, r) == [op |-> o, key |-> k, res |-> r]
Goto(t, l) == pc' = [pc EXCEPT ![t] = l]

Init ==
  /\ list = <<>> /\ list_lock = NULL
  /\ op_count = 0 /\ size = 0
  /\ init_txt = <<>> /\ op_txt = [t \in Threads |-> <<>>]
  /\ pc = [t \in Threads |-> "none"]
  /\ op = [t \in Threads |-> "add"] /\ key = [t \in Threads |-> 0]
  /\ ret = [t \in Threads |-> FALSE] /\ at = [t \in Threads |-> 1]
  /\ exited = FALSE

\* main: while (size < initial_size).
Populate(k) ==
  /\ size < initial_size /\ \A t \in Threads : pc[t] = "none"
  /\ Len(init_txt) < MaxTries - (initial_size - size) \/ CoarseResult("add", list, k)
  /\ list' = CoarseList("add", list, k)
  /\ size' = IF CoarseResult("add", list, k) THEN size + 1 ELSE size
  /\ init_txt' = Append(init_txt, Line("add", k, CoarseResult("add", list, k)))
  /\ UNCHANGED <<list_lock, op_count, op_txt, pc, op, key, ret, at, exited>>

\* main: pthread_create, in the order of the ids, once the list is filled.  When it
\* fails, exit(-1) ends the threads created so far, wherever they are.
NextThread(t) ==
  /\ \A u \in Threads : IF u < t THEN pc[u] # "none" ELSE pc[u] = "none"
  /\ t = 0 => size >= initial_size
Create(t) ==
  /\ NextThread(t) /\ Goto(t, "loop")
  /\ UNCHANGED <<shared, init_txt, op_txt, op, key, ret, at, exited>>
CreateFails(t) ==
  /\ NextThread(t) /\ exited' = TRUE
  /\ UNCHANGED <<shared, init_txt, op_txt, pc, op, key, ret, at>>

\* Mutant: one operation too many.
MutLoop(t) ==
  /\ pc[t] = "loop"
  /\ Goto(t, IF op_count <= total_ops THEN "count" ELSE "exit")
  /\ UNCHANGED <<shared, init_txt, op_txt, op, key, ret, at, exited>>

\* while (op_count < mydata->ttop); pthread_exit.
Loop(t) ==
  /\ pc[t] = "loop"
  /\ Goto(t, IF op_count < total_ops THEN "count" ELSE "exit")
  /\ UNCHANGED <<shared, init_txt, op_txt, op, key, ret, at, exited>>

\* op_count++, the key and the kind of the operation; an addition looks at size
\* first.
Count(t, o, k) ==
  /\ pc[t] = "count"
  /\ op_count' = op_count + 1
  /\ op' = [op EXCEPT ![t] = o] /\ key' = [key EXCEPT ![t] = k]
  /\ Goto(t, IF o = "add" THEN "size" ELSE "lock")
  /\ UNCHANGED <<list, list_lock, size, init_txt, op_txt, ret, at, exited>>

\* Mutant: an addition is never turned into a removal.
MutCheckSize(t) ==
  /\ pc[t] = "size"
  /\ Goto(t, "lock")
  /\ UNCHANGED <<shared, init_txt, op_txt, key, op, ret, at, exited>>

\* if (size < mydata->maxsz) add, otherwise remove.
CheckSize(t) ==
  /\ pc[t] = "size"
  /\ op' = [op EXCEPT ![t] = IF size < max_size THEN "add" ELSE "remove"]
  /\ Goto(t, "lock")
  /\ UNCHANGED <<shared, init_txt, op_txt, key, ret, at, exited>>

\* Mutant: the lock is not waited for.
MutLock(t) ==
  /\ pc[t] = "lock"
  /\ list_lock' = t
  /\ Goto(t, "walk")
  /\ UNCHANGED <<list, op_count, size, init_txt, op_txt, op, key, ret, at, exited>>

\* pthread_mutex_lock(&head->list_lock).
Lock(t) ==
  /\ pc[t] = "lock" /\ list_lock = NULL
  /\ list_lock' = t
  /\ Goto(t, "walk")
  /\ UNCHANGED <<list, op_count, size, init_txt, op_txt, op, key, ret, at, exited>>

\* The walk of contains, add or remove to the place of the key.
Walk(t) ==
  /\ pc[t] = "walk"
  /\ at' = [at EXCEPT ![t] = Stop(list, key[t])]
  /\ ret' = [ret EXCEPT ![t] = CoarseResult(op[t], list, key[t])]
  /\ Goto(t, "change")
  /\ UNCHANGED <<shared, init_txt, op_txt, op, key, exited>>

\* What the operation does there, and pthread_mutex_unlock.
Change(t) ==
  /\ pc[t] = "change"
  /\ list' = CASE op[t] = "add" /\ ret[t]    -> InsertAt(list, at[t], key[t])
               [] op[t] = "remove" /\ ret[t] -> RemoveAt(list, at[t])
               [] OTHER                      -> list
  /\ list_lock' = NULL
  /\ Goto(t, "write")
  /\ UNCHANGED <<op_count, size, init_txt, op_txt, op, key, ret, at, exited>>

\* op_txt << ...; size++ or size-- after a success.
Write(t) ==
  /\ pc[t] = "write"
  /\ op_txt' = [op_txt EXCEPT ![t] = Append(@, Line(op[t], key[t], ret[t]))]
  /\ size' = CASE op[t] = "add" /\ ret[t] -> size + 1
               [] op[t] = "remove" /\ ret[t] -> size - 1
               [] OTHER -> size
  /\ Goto(t, "loop")
  /\ UNCHANGED <<list, list_lock, op_count, init_txt, op, key, ret, at, exited>>

Step(t) ==
  \/ Loop(t) \/ (\E o \in Cases, k \in Keys : Count(t, o, k)) \/ CheckSize(t)
  \/ Lock(t) \/ Walk(t) \/ Change(t) \/ Write(t)

AllExited == \A t \in Threads : pc[t] = "exit"

Main ==
  \/ \E k \in InitKeys : Populate(k)
  \/ \E t \in Threads : Create(t) \/ CreateFails(t)

Generate == ~ exited /\ (Main \/ \E t \in Threads : Step(t))

Next == Generate \/ ((AllExited \/ exited) /\ UNCHANGED vars)

Spec == Init /\ [][Next]_vars

-----------------------------------------------------------------------------
TypeOK ==
  /\ list \in Seq(InitKeys) /\ list_lock \in Threads \cup {NULL}
  /\ op_count \in Nat /\ size \in Int
  /\ pc \in [Threads -> {"none", "loop", "count", "size", "lock", "walk", "change", "write", "exit"}]
  /\ op \in [Threads -> Ops] /\ key \in [Threads -> Keys \cup {0}]
  /\ ret \in [Threads -> BOOLEAN]
  /\ op_txt \in [Threads -> Seq([op : Ops, key : Keys, res : BOOLEAN])]
  /\ at \in [Threads -> Nat \ {0}]

\* The threads that have changed the list and not yet size.
Uncounted(o) == {t \in Threads : pc[t] = "write" /\ op[t] = o /\ ret[t]}

\* size is the length of the list once the additions and the removals are
\* counted that threads have made and not yet written down; the list has no
\* duplicate and is in order whatever the threads do.
SizeCounts ==
  /\ size + Cardinality(Uncounted("add"))
       = Len(list) + Cardinality(Uncounted("remove"))
  /\ \A i, j \in DOMAIN list : i < j => list[i] < list[j]

\* The test of size, the addition and the counting are three steps, so the list can
\* outgrow max_size, but by no more than one key for each other thread, and size
\* never loses track of it.
OvershootBounded == TypeOK /\ SizeCounts /\ Len(list) <= max_size + NUM_THREADS - 1

\* Threads test op_count and count it up in two steps; every operation counted
\* is in a file or under way, and there are at most NUM_THREADS - 1 too many.
Logged == [t \in Threads |-> Len(op_txt[t])]
EveryOperationLogged ==
  /\ op_count = FoldFunction(+, 0, Logged)
                + Cardinality({t \in Threads : pc[t] \in {"size", "lock", "walk", "change", "write"}})
  /\ op_count <= total_ops + NUM_THREADS - 1
  /\ AllExited => op_count >= total_ops

\* The operations of the threads are atomic: the files are those of a run in which
\* each operation and its line are one step, taken while the lock is held.
Run == INSTANCE LogRun WITH
         op_txt <- [t \in Threads |->
                      IF pc[t] = "write"
                      THEN Append(op_txt[t], Line(op[t], key[t], ret[t]))
                      ELSE op_txt[t]]
RunsAtomically == Run!Spec

=============================================================================
