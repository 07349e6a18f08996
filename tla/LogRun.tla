------------------------------- MODULE LogRun -------------------------------
(***************************************************************************)
(* What a run of a generator promises: main fills the list, then the       *)
(* operations of the threads happen one after the other, each in one step, *)
(* and each appends one line with its result to the file of its thread.    *)
(* HostGenerator implements it; ConsistTest checks the files of such a run.*)
(***************************************************************************)
EXTENDS SortedList, FiniteSets

CONSTANTS
  NUM_THREADS,
  Keys,          \* of the threads: left_bound .. right_bound
  InitKeys,      \* of main, which may draw right_bound + 1 too
  initial_size, total_ops,
  MaxTries       \* bound: additions that main tries

ASSUME KeysAssumption == Keys \subseteq InitKeys /\ InitKeys \subseteq Nat /\ IsFiniteSet(InitKeys)
ASSUME ThreadsAssumption == NUM_THREADS \in Nat \ {0}
ASSUME InputAssumption ==
  /\ initial_size \in Nat /\ total_ops \in Nat
  /\ initial_size <= Cardinality(InitKeys)

Threads == 0 .. NUM_THREADS - 1
Ops == {"add", "remove", "contains"}

VARIABLES list, init_txt, op_txt
vars == <<list, init_txt, op_txt>>

Line(o, k, r) == [op |-> o, key |-> k, res |-> r]

Added == Cardinality({i \in DOMAIN init_txt : init_txt[i].res})
Lines == FoldFunction(+, 0, [t \in Threads |-> Len(op_txt[t])])

Init == list = <<>> /\ init_txt = <<>> /\ op_txt = [t \in Threads |-> <<>>]

Populate(k) ==
  /\ Added < initial_size /\ Len(init_txt) < MaxTries
  /\ list' = CoarseList("add", list, k)
  /\ init_txt' = Append(init_txt, Line("add", k, CoarseResult("add", list, k)))
  /\ UNCHANGED op_txt

Operate(t, o, k) ==
  /\ Added = initial_size /\ Lines < total_ops + NUM_THREADS - 1
  /\ list' = CoarseList(o, list, k)
  /\ op_txt' = [op_txt EXCEPT ![t] = Append(@, Line(o, k, CoarseResult(o, list, k)))]
  /\ UNCHANGED init_txt

\* The threads stop after total_ops operations, give or take the race for the last.
Complete == Added = initial_size /\ Lines >= total_ops

Next ==
  \/ \E k \in InitKeys : Populate(k)
  \/ \E t \in Threads, o \in Ops, k \in Keys : Operate(t, o, k)

Spec == Init /\ [][Next]_vars
=============================================================================
