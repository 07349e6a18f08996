----------------------------- MODULE ConsistTest -----------------------------
(***************************************************************************)
(* host/test_consistency/consist_test.cpp run on the files of a generator  *)
(* run.  It replays init.txt, then the file of thread 0 line by line; when *)
(* a result differs from that of its own list it looks in the files of the *)
(* other threads for the operation that explains it, applies what precedes *)
(* that operation in its file, and goes on.  Files are indexed from 1 here *)
(* (from 0 in the code): curr_loc and pred_loc are the next line.          *)
(***************************************************************************)
EXTENDS LogRun

VARIABLES
  int_list,            \* the checker's LinkedList
  state,               \* "init", "replay" (1), "search" (2), "apply" (3), or the verdict
  curr_t, curr_loc, pred_loc,
  srch_com, srch_num,
  dont,                \* dont_add and dont_rmv: the operation state 3 leaves out
  order                \* ghost: the order it has found for the lines, with their threads

checker == <<int_list, state, curr_t, curr_loc, pred_loc, srch_com, srch_num, dont, order>>
allVars == <<vars, checker>>

CInit ==
  /\ Init
  /\ int_list = <<>> /\ state = "init" /\ curr_t = 0
  /\ curr_loc = [t \in Threads |-> 1] /\ pred_loc = [t \in Threads |-> 1]
  /\ srch_com = "add" /\ srch_num = 0 /\ dont = "none" /\ order = <<>>

\* The list after the lines of a file, applied by the checker's LinkedList.
Replay(l, lines) == FoldLeft(LAMBDA x, line : ListAfter(line.op, x, line.key), l, lines)

\* The lines of a file that changed the generator's list, and lines with their thread.
Successful(lines) == SelectSeq(lines, LAMBDA line : line.res /\ line.op # "contains")
Of(t, lines) == [i \in DOMAIN lines |-> [thread |-> t, line |-> lines[i]]]

\* The lines of init.txt: the first result that is not the list's own ends the
\* program.
ReplayInit ==
  /\ Complete /\ state = "init"
  /\ int_list' = Replay(<<>>, init_txt)
  /\ state' = IF \A i \in DOMAIN init_txt :
                    ListResult("add", Replay(<<>>, SubSeq(init_txt, 1, i - 1)), init_txt[i].key)
                      = init_txt[i].res
              THEN "replay" ELSE "failed"
  /\ UNCHANGED <<vars, curr_t, curr_loc, pred_loc, srch_com, srch_num, dont, order>>

\* What explains a result that is not the list's own: the key was there although
\* the list has it not, or the other way round.
Explains(line) == IF (line.op = "add") # line.res THEN "add" ELSE "remove"

\* Mutant: the operation that state 1 could not do is made up for in state 3.
MutCompare ==
  /\ state = "replay" /\ curr_loc[0] <= Len(op_txt[0])
  /\ LET line == op_txt[0][curr_loc[0]]
         same == ListResult(line.op, int_list, line.key) = line.res
     IN  /\ int_list' = ListAfter(line.op, int_list, line.key)
         /\ state' = IF same THEN "replay" ELSE "search"
         /\ srch_com' = IF same THEN srch_com ELSE Explains(line)
         /\ srch_num' = IF same THEN srch_num ELSE line.key
         /\ order' = IF same THEN order \o Of(0, <<line>>) ELSE order
         /\ dont' = dont
  /\ curr_t' = 0
  /\ curr_loc' = [curr_loc EXCEPT ![0] = @ + 1]
  /\ UNCHANGED <<vars, pred_loc>>

\* State 1: the next line of thread 0.
Compare ==
  /\ state = "replay" /\ curr_loc[0] <= Len(op_txt[0])
  /\ LET line == op_txt[0][curr_loc[0]]
         same == ListResult(line.op, int_list, line.key) = line.res
     IN  /\ int_list' = ListAfter(line.op, int_list, line.key)
         /\ state' = IF same THEN "replay" ELSE "search"
         /\ srch_com' = IF same THEN srch_com ELSE Explains(line)
         /\ srch_num' = IF same THEN srch_num ELSE line.key
         /\ order' = IF same THEN order \o Of(0, <<line>>) ELSE order
         /\ dont' = IF ~ same /\ line.res /\ line.op # "contains"
                    THEN Explains(line) ELSE dont
  /\ curr_t' = 0
  /\ curr_loc' = [curr_loc EXCEPT ![0] = @ + 1]
  /\ UNCHANGED <<vars, pred_loc>>

\* State 1 at the end of the file of thread 0.
Pass ==
  /\ state = "replay" /\ curr_loc[0] > Len(op_txt[0])
  /\ state' = "passed" /\ curr_t' = 0
  /\ UNCHANGED <<vars, int_list, curr_loc, pred_loc, srch_com, srch_num, dont, order>>

\* The lines of t not yet applied that are the operation searched for.
Matches(t) ==
  {i \in pred_loc[t] .. Len(op_txt[t]) : op_txt[t][i] = Line(srch_com, srch_num, TRUE)}

\* State 2: the first such line of the first thread that has one; the search
\* leaves curr_loc at the end of the files without.
Search ==
  /\ state = "search"
  /\ LET found == {t \in Threads \ {0} : Matches(t) # {}}
         first == IF found = {} THEN NUM_THREADS ELSE Min(found)
     IN  /\ curr_t' = first
         /\ state' = IF found = {} THEN "failed" ELSE "apply"
         /\ curr_loc' = [t \in Threads |->
              CASE t = 0 \/ t > first -> curr_loc[t]
                [] t = first          -> Min(Matches(t))
                [] OTHER              -> Max({Len(op_txt[t]) + 1, pred_loc[t]})]
  /\ UNCHANGED <<vars, int_list, pred_loc, srch_com, srch_num, dont, order>>

\* Mutant: state 3 does not go back to state 1.
MutApply ==
  /\ state = "apply"
  /\ LET before == Successful(SubSeq(op_txt[curr_t], pred_loc[curr_t], curr_loc[curr_t] - 1))
         after  == Replay(int_list, before)
     IN  int_list' = IF dont = srch_com THEN after ELSE ListAfter(srch_com, after, srch_num)
  /\ pred_loc' = [pred_loc EXCEPT ![curr_t] = curr_loc[curr_t] + 1]
  /\ dont' = "none" /\ state' = state
  /\ UNCHANGED <<vars, curr_t, curr_loc, srch_com, srch_num, order>>

\* State 3: the successful lines before the one found, and that one.
Apply ==
  /\ state = "apply"
  /\ LET before == Successful(SubSeq(op_txt[curr_t], pred_loc[curr_t], curr_loc[curr_t] - 1))
         after  == Replay(int_list, before)
     IN  /\ int_list' = IF dont = srch_com THEN after ELSE ListAfter(srch_com, after, srch_num)
         /\ order' = order \o Of(curr_t, Append(before, Line(srch_com, srch_num, TRUE)))
                           \o Of(0, <<op_txt[0][curr_loc[0] - 1]>>)
  /\ pred_loc' = [pred_loc EXCEPT ![curr_t] = curr_loc[curr_t] + 1]
  /\ dont' = "none" /\ state' = "replay"
  /\ UNCHANGED <<vars, curr_t, curr_loc, srch_com, srch_num>>

Check == ReplayInit \/ Compare \/ Pass \/ Search \/ Apply

Done == state \in {"passed", "failed"}

CNext ==
  \/ state = "init" /\ Next /\ UNCHANGED checker
  \/ Check
  \/ Done /\ UNCHANGED allVars

CSafeSpec == CInit /\ [][CNext]_allVars
CSpec == CSafeSpec /\ WF_allVars(CNext)

-----------------------------------------------------------------------------
\* State 1 has int_list.add and int_list.remove go ahead before it knows the result in
\* the file, and state 3 makes up for that.  The list that it then goes on with is the
\* one that an order of the lines leaves, in which every line of thread 0 so far has
\* its result, and the lines of each other thread that changed the list come as in
\* its file, up to pred_loc: a verdict "Test passed." has such an order.
Explained ==
  LET lines(n) == [i \in 1 .. n |-> order[i].line]
      listAt(n) == Replay(Replay(<<>>, init_txt), lines(n))
      ofThread(t) == SelectSeq(order, LAMBDA x : x.thread = t)
  IN state \in {"replay", "passed"} =>
       /\ int_list = listAt(Len(order))
       /\ ofThread(0) = Of(0, SubSeq(op_txt[0], 1, curr_loc[0] - 1))
       /\ \A t \in Threads \ {0} :
            ofThread(t) = Of(t, Successful(SubSeq(op_txt[t], 1, pred_loc[t] - 1)))
       /\ \A i \in DOMAIN order : order[i].thread = 0 =>
            ListResult(order[i].line.op, listAt(i - 1), order[i].line.key) = order[i].line.res

\* "is not found in other threads. Test failed.": the checker is to tell a list that is
\* not correct, so that it is not to say this of a run whose operations are atomic.  It
\* does not hold: the operation found need not be the one that explains the result.
CorrectRunPasses == state # "failed"

\* while(true) comes to a verdict.
CheckerEnds == (state = "replay") ~> Done
=============================================================================
