------------------------------ MODULE LFSkipList ------------------------------
(***************************************************************************)
(* The lock-free skip list of test/MyLFSkipList.h: add, remove and contain *)
(* with compareAndSet on links that carry a mark.  A node is in the set    *)
(* from the moment its lowest link is in place until that link is marked;  *)
(* the higher levels are short cuts.  find and findAndClean unlink the     *)
(* marked nodes they meet; no node is freed while threads run.             *)
(*                                                                         *)
(* Every access to a link is a step of its own.  attemptMark reads the     *)
(* mark before its compareAndSet; a mark is never taken back, so the two   *)
(* do what the compareAndSet alone does, and they are one step.  A new     *)
(* node is private until it is linked: drawing its level and preparing its *)
(* links are part of the step that links it.  The topmost level, which     *)
(* randomLevel gives to no node, always leads from head to tail and is     *)
(* left out.  The counter found_count, which nothing but a message of the  *)
(* destructor reads, is left out too.                                      *)
(***************************************************************************)
EXTENDS Integers, FiniteSets, FiniteSetsExt

CONSTANTS
  Threads,
  Keys,              \* the values of inValue
  INT_MIN, INT_MAX,  \* the keys of the sentinels
  max_level,         \* _max_level
  MaxNodes,          \* bound: the nodes that can be made
  MaxOps             \* bound: the calls of each thread

\* Key 0 is left out: remove and contain return it for "not found".
NULL_VALUE == 0

ASSUME KeysAssumption == Keys \subseteq (INT_MIN + 1 .. INT_MAX - 1) \ {NULL_VALUE}
ASSUME LevelAssumption == max_level \in Nat /\ max_level >= 2

HEAD   == 1
TAIL   == 2
NIL    == 0
Nodes  == 1 .. MaxNodes
Levels == 0 .. max_level - 2
Ops    == {"add", "remove", "contain"}

VARIABLES
  top,       \* nodes made so far
  key, topLevel, next, marked,   \* of a node; the last two for every level
  th,        \* the locals of every thread
  calls,     \* calls made so far
  seen       \* history: whether the key was in the set, since the call began

heap == <<top, key, topLevel, next, marked>>
vars == <<heap, th, calls, seen>>

\* The keys in the set.
Members == {key[n] : n \in {m \in 3 .. top : ~ marked[m][0]}}

\* A thread between two calls.  phase tells what the search is for: "find" at the
\* start of a call, "splice" when add looks for new neighbours, "clean" in
\* findAndClean.  up is the level add splices or remove marks.
Idle == [pc |-> "idle", op |-> "none", inValue |-> NULL_VALUE, phase |-> "find",
         iLevel |-> 0, up |-> 0, pPred |-> NIL, pPredFirst |-> NIL, pCurr |-> NIL,
         pSucc |-> NIL, preds |-> [l \in Levels |-> NIL], succs |-> [l \in Levels |-> NIL],
         node |-> NIL, ret |-> NULL_VALUE]

\* The search starts, or starts over (find_retry), at the head.
FromHead(r, phase) ==
  [r EXCEPT !.pc = "level", !.phase = phase, !.iLevel = max_level - 2,
            !.pPred = HEAD, !.pPredFirst = HEAD, !.pCurr = NIL, !.pSucc = NIL]

Returns(r, v) ==
  [Idle EXCEPT !.pc = "return", !.op = r.op, !.inValue = r.inValue, !.ret = v]

\* The list the constructor has filled: the keys whose height is not 0, in order.
Filled(height) ==
  LET In       == {k \in Keys : height[k] > 0}
      Node(k)  == 2 + Cardinality({j \in In : j <= k})
      After(k, l) == {j \in In : j > k /\ height[j] > l}
      Link(k, l) == IF After(k, l) = {} THEN TAIL ELSE Node(Min(After(k, l)))
      KeyOf(n) == IF n = HEAD THEN INT_MIN
                  ELSE IF n = TAIL \/ n > 2 + Cardinality(In) THEN INT_MAX
                  ELSE CHOOSE k \in In : Node(k) = n
  IN  /\ top = 2 + Cardinality(In)
      /\ key = [n \in Nodes |-> KeyOf(n)]
      /\ topLevel = [n \in Nodes |-> IF n \in {HEAD, TAIL} THEN max_level
                                     ELSE IF n > top THEN 0 ELSE height[key[n]]]
      /\ next = [n \in Nodes |-> [l \in Levels |->
                   IF n # TAIL /\ l < topLevel[n] THEN Link(key[n], l) ELSE NIL]]

Init ==
  /\ \E height \in [Keys -> 0 .. max_level - 1] : Filled(height)
  /\ marked = [n \in Nodes |-> [l \in Levels |-> FALSE]]
  /\ th = [t \in Threads |-> Idle]
  /\ calls = [t \in Threads |-> 0]
  /\ seen = [t \in Threads |-> {}]

\* A step that changes no link.
Local(t, r) ==
  /\ th' = [th EXCEPT ![t] = r]
  /\ UNCHANGED <<heap, calls, seen>>

\* The benchmark loop calls one of the three operations.
Call(t, o, k) ==
  /\ th[t].pc = "idle" /\ calls[t] < MaxOps[t]
  /\ th' = [th EXCEPT ![t] = FromHead([Idle EXCEPT !.op = o, !.inValue = k], "find")]
  /\ calls' = [calls EXCEPT ![t] = @ + 1]
  /\ seen' = [seen EXCEPT ![t] = {k \in Members}]
  /\ UNCHANGED heap

\* The calls that are going on see a change of the set.
Observe ==
  seen' = [t \in Threads |->
             IF th[t].pc = "idle" THEN {} ELSE seen[t] \cup {th[t].inValue \in Members'}]

-----------------------------------------------------------------------------
(* find, findAndClean and the search of contain.                           *)

\* pCurr = pPred->_next[iLevel].getReference().
Level(t) ==
  LET r == th[t] IN
  /\ r.pc = "level"
  /\ Local(t, [r EXCEPT !.pc = "curr", !.pCurr = next[r.pPred][r.iLevel]])

\* pSucc = pCurr->_next[iLevel].get(&marked) finds a mark: unlink pCurr, or pass it.
Marked(t) ==
  LET r == th[t] IN
  /\ r.pc = "curr" /\ marked[r.pCurr][r.iLevel]
  /\ Local(t, IF r.op = "contain" THEN [r EXCEPT !.pc = "skip"]
              ELSE [r EXCEPT !.pc = "snip", !.pSucc = next[r.pCurr][r.iLevel]])

\* contain: pCurr = pCurr->_next[iLevel].getReference().
Skip(t) ==
  LET r == th[t] IN
  /\ r.pc = "skip"
  /\ Local(t, [r EXCEPT !.pc = "curr", !.pCurr = next[r.pCurr][r.iLevel]])

\* Mutant: the mark is not part of what is compared.
MutCAS(n, l, e) == next[n][l] = e

\* compareAndSet(e, _, false, _) on a link succeeds.
CAS(n, l, e) == next[n][l] = e /\ ~ marked[n][l]

\* Mutant: after a failure the same compare-and-set is tried again, without a new
\* search.
MutSnip(t) ==
  LET r == th[t] IN
  /\ r.pc = "snip"
  /\ IF CAS(r.pPred, r.iLevel, r.pCurr)
     THEN /\ next' = [next EXCEPT ![r.pPred][r.iLevel] = r.pSucc]
          /\ th' = [th EXCEPT ![t] = [r EXCEPT !.pc = "level", !.pCurr = NIL, !.pSucc = NIL]]
     ELSE UNCHANGED <<next, th>>
  /\ UNCHANGED <<top, key, topLevel, marked, calls, seen>>

\* pCurr is unlinked from pPred; if pPred has changed, find_retry.
Snip(t) ==
  LET r == th[t] IN
  /\ r.pc = "snip"
  /\ IF CAS(r.pPred, r.iLevel, r.pCurr)
     THEN /\ next' = [next EXCEPT ![r.pPred][r.iLevel] = r.pSucc]
          /\ th' = [th EXCEPT ![t] = [r EXCEPT !.pc = "level", !.pCurr = NIL, !.pSucc = NIL]]
     ELSE th' = [th EXCEPT ![t] = FromHead(r, r.phase)] /\ UNCHANGED next
  /\ UNCHANGED <<top, key, topLevel, marked, calls, seen>>

\* pCurr is not marked and the search goes on behind it; findAndClean also passes
\* the nodes with the key itself.
Passes(r) ==
  \/ key[r.pCurr] < r.inValue
  \/ r.phase = "clean" /\ key[r.pCurr] = r.inValue

Forward(t) ==
  LET r == th[t] IN
  /\ r.pc = "curr" /\ ~ marked[r.pCurr][r.iLevel] /\ Passes(r)
  /\ Local(t, [r EXCEPT !.pPred = r.pCurr, !.pCurr = next[r.pCurr][r.iLevel],
                        !.pPredFirst = IF r.phase = "clean" /\ key[r.pCurr] < r.inValue
                                       THEN r.pCurr ELSE @])

\* The search of a level ends; find keeps the neighbours.
LevelEnds(t) ==
  LET r == th[t] IN r.pc = "curr" /\ ~ marked[r.pCurr][r.iLevel] /\ ~ Passes(r)

Neighbours(r) ==
  IF r.op # "add" THEN r
  ELSE [r EXCEPT !.preds[r.iLevel] = r.pPred, !.succs[r.iLevel] = r.pCurr]

Down(t) ==
  LET r == th[t] IN
  /\ LevelEnds(t) /\ r.iLevel > 0
  /\ Local(t, [Neighbours(r) EXCEPT
                 !.pc = "level", !.iLevel = @ - 1, !.pCurr = NIL,
                 !.pPred = IF r.phase = "clean" THEN r.pPredFirst ELSE @])

Bottom(t) == LevelEnds(t) /\ th[t].iLevel = 0

Found(t) == key[th[t].pCurr] = th[t].inValue

\* contain answers; findAndClean is done and remove returns.
EndContain(t) ==
  /\ Bottom(t) /\ th[t].op = "contain"
  /\ Local(t, Returns(th[t], IF Found(t) THEN key[th[t].pCurr] ELSE NULL_VALUE))

EndClean(t) ==
  /\ Bottom(t) /\ th[t].phase = "clean"
  /\ Local(t, Returns(th[t], th[t].ret))

-----------------------------------------------------------------------------
(* add                                                                     *)

\* The key is there: return false.
AddFound(t) ==
  /\ Bottom(t) /\ th[t].op = "add" /\ th[t].phase = "find" /\ Found(t)
  /\ Local(t, Returns(th[t], NULL_VALUE))

\* find has set preds and succs: link or splice.
AddPlaced(t) ==
  LET r == Neighbours(th[t]) IN
  /\ Bottom(t) /\ r.op = "add"
  /\ r.phase = "find" => ~ Found(t)
  /\ Local(t, [r EXCEPT !.pc = IF r.phase = "find" THEN "link" ELSE "splice",
                        !.pPred = NIL, !.pPredFirst = NIL, !.pCurr = NIL])

\* The linearization point of add: the node, with the links of all its levels
\* prepared, is put between preds[0] and succs[0].
Link(t) ==
  LET r == th[t]  new == top + 1 IN
  /\ r.pc = "link" /\ CAS(r.preds[0], 0, r.succs[0]) /\ new \in Nodes
  /\ \E h \in 1 .. max_level - 1 :
       /\ topLevel' = [topLevel EXCEPT ![new] = h]
       /\ next' = [next EXCEPT ![r.preds[0]][0] = new,
                               ![new] = [l \in Levels |-> IF l < h THEN r.succs[l] ELSE NIL]]
       /\ th' = [th EXCEPT ![t] =
                   IF h = 1 THEN Returns(r, 1)
                   ELSE [r EXCEPT !.pc = "splice", !.phase = "splice", !.up = 1,
                                  !.node = new, !.ret = 1]]
  /\ top' = new
  /\ key' = [key EXCEPT ![new] = r.inValue]
  /\ UNCHANGED <<marked, calls>>
  /\ Observe

\* preds[0] has changed: retry from start.
LinkFails(t) ==
  LET r == th[t] IN
  /\ r.pc = "link" /\ ~ CAS(r.preds[0], 0, r.succs[0])
  /\ Local(t, FromHead(r, "find"))

\* The node is spliced in on the next level; its own link is left as it was
\* prepared.
Splice(t) ==
  LET r == th[t] IN
  /\ r.pc = "splice" /\ CAS(r.preds[r.up], r.up, r.succs[r.up])
  /\ next' = [next EXCEPT ![r.preds[r.up]][r.up] = r.node]
  /\ th' = [th EXCEPT ![t] = IF r.up + 1 < topLevel[r.node] THEN [r EXCEPT !.up = @ + 1]
                             ELSE Returns(r, r.ret)]
  /\ UNCHANGED <<top, key, topLevel, marked, calls, seen>>

\* find new preds and succs.
SpliceFails(t) ==
  LET r == th[t] IN
  /\ r.pc = "splice" /\ ~ CAS(r.preds[r.up], r.up, r.succs[r.up])
  /\ Local(t, FromHead(r, "splice"))

-----------------------------------------------------------------------------
(* remove                                                                  *)

RemoveNotFound(t) ==
  /\ Bottom(t) /\ th[t].op = "remove" /\ th[t].phase = "find" /\ ~ Found(t)
  /\ Local(t, Returns(th[t], NULL_VALUE))

\* The next level to mark, or the lowest link.
MarkFrom(r, l) ==
  [r EXCEPT !.pc = IF l > 0 THEN "mark" ELSE "lowest", !.up = l, !.pSucc = NIL]

\* Mutant: only the lowest link is marked.
MutRemoveFound(t) ==
  LET r == th[t] IN
  /\ Bottom(t) /\ r.op = "remove" /\ r.phase = "find" /\ Found(t)
  /\ Local(t, [MarkFrom(r, 0) EXCEPT
                 !.node = r.pCurr, !.pPred = NIL, !.pPredFirst = NIL, !.pCurr = NIL])

\* pNodeToRemove = succs[0].
RemoveFound(t) ==
  LET r == th[t] IN
  /\ Bottom(t) /\ r.op = "remove" /\ r.phase = "find" /\ Found(t)
  /\ Local(t, [MarkFrom(r, topLevel[r.pCurr] - 1) EXCEPT
                 !.node = r.pCurr, !.pPred = NIL, !.pPredFirst = NIL, !.pCurr = NIL])

\* pSucc = pNodeToRemove->_next[iLevel].get(&marked), and the loop test.
ReadLevel(t) ==
  LET r == th[t] IN
  /\ r.pc = "mark"
  /\ Local(t, IF marked[r.node][r.up] THEN MarkFrom(r, r.up - 1)
              ELSE [r EXCEPT !.pc = "attempt", !.pSucc = next[r.node][r.up]])

\* attemptMark(pSucc, true); the link is read again in any case.
AttemptMark(t) ==
  LET r == th[t] IN
  /\ r.pc = "attempt"
  /\ marked' = [marked EXCEPT ![r.node][r.up] = @ \/ CAS(r.node, r.up, r.pSucc)]
  /\ th' = [th EXCEPT ![t] = MarkFrom(r, r.up)]
  /\ UNCHANGED <<top, key, topLevel, next, calls, seen>>

\* pSucc = pNodeToRemove->_next[0].get(&marked).
ReadLowest(t) ==
  LET r == th[t] IN
  /\ r.pc = "lowest"
  /\ Local(t, [r EXCEPT !.pc = "take", !.pSucc = next[r.node][0]])

\* The linearization point of remove: the lowest link is marked.
Take(t) ==
  LET r == th[t] IN
  /\ r.pc = "take" /\ CAS(r.node, 0, r.pSucc)
  /\ marked' = [marked EXCEPT ![r.node][0] = TRUE]
  /\ th' = [th EXCEPT ![t] = FromHead([r EXCEPT !.node = NIL, !.ret = key[r.node]], "clean")]
  /\ UNCHANGED <<top, key, topLevel, next, calls>>
  /\ Observe

\* Mutant: iMarkedIt is not looked at.
MutTakeFails(t) ==
  LET r == th[t] IN
  /\ r.pc = "take" /\ ~ CAS(r.node, 0, r.pSucc)
  /\ Local(t, FromHead([r EXCEPT !.node = NIL, !.ret = key[r.node]], "clean"))

\* The link has changed or is marked.
TakeFails(t) ==
  LET r == th[t] IN
  /\ r.pc = "take" /\ ~ CAS(r.node, 0, r.pSucc)
  /\ Local(t, [r EXCEPT !.pc = "look"])

\* Another thread has marked it: repeat the big loop; else only pSucc has changed.
Look(t) ==
  LET r == th[t] IN
  /\ r.pc = "look"
  /\ Local(t, IF marked[r.node][0] THEN FromHead([r EXCEPT !.node = NIL], "find")
              ELSE [r EXCEPT !.pc = "take", !.pSucc = next[r.node][0]])

Return(t) ==
  /\ th[t].pc = "return"
  /\ th' = [th EXCEPT ![t] = Idle]
  /\ seen' = [seen EXCEPT ![t] = {}]
  /\ UNCHANGED <<heap, calls>>

-----------------------------------------------------------------------------
Step(t) ==
  \/ Level(t) \/ Marked(t) \/ Skip(t) \/ Snip(t) \/ Forward(t) \/ Down(t)
  \/ EndContain(t) \/ EndClean(t)
  \/ AddFound(t) \/ AddPlaced(t) \/ Link(t) \/ LinkFails(t) \/ Splice(t) \/ SpliceFails(t)
  \/ RemoveNotFound(t) \/ RemoveFound(t) \/ ReadLevel(t) \/ AttemptMark(t)
  \/ ReadLowest(t) \/ Take(t) \/ TakeFails(t) \/ Look(t)
  \/ Return(t)

\* All threads have left the benchmark loop.
AllDone == \A t \in Threads : th[t].pc = "idle" /\ calls[t] = MaxOps[t]

Next ==
  \/ \E t \in Threads : (\E o \in Ops, k \in Keys : Call(t, o, k)) \/ Step(t)
  \/ AllDone /\ UNCHANGED vars

\* The scheduler runs every thread.
Spec == Init /\ [][Next]_vars /\ \A t \in Threads : WF_vars(Step(t))

-----------------------------------------------------------------------------
(* Properties.                                                             *)

\* The nodes on the lowest level, from the head.
Lowest ==
  LET reached[i \in 0 .. top] ==
        IF i = 0 THEN {HEAD}
        ELSE reached[i - 1] \cup {next[n][0] : n \in reached[i - 1] \ {TAIL}}
  IN  reached[top]

\* m may follow n on level l: it has that level and a larger key, or, above the
\* lowest level, it is an older node of the same key that has left the set.
MayFollow(n, m, l) ==
  /\ m \in 2 .. top /\ l < topLevel[m]
  /\ \/ key[n] < key[m]
     \/ l > 0 /\ key[n] = key[m] /\ m < n /\ marked[m][0]

\* Whatever add, remove and find do to each other on the different levels, also
\* when a node is spliced in after its removal or with links prepared long before:
\* no walk, from a linked or an unlinked node, meets a null pointer or a cycle; a
\* node that has left the set is marked on all its levels; and the nodes of the set
\* are those on the lowest level that are not marked.
LevelShape ==
  /\ \A n \in 1 .. top \ {TAIL}, l \in Levels :
       l < topLevel[n] => MayFollow(n, next[n][l], l)
  /\ \A n \in 3 .. top, l \in Levels : marked[n][0] /\ l < topLevel[n] => marked[n][l]
  /\ {n \in 3 .. top : ~ marked[n][0]} \subseteq Lowest

\* Marks are final: a marked link is never changed and never loses its mark, which
\* contain and the merged steps of attemptMark rely on.
MarkedIsFinal ==
  [][\A n \in 3 .. top, l \in Levels : marked[n][l] =>
       marked'[n][l] /\ next'[n][l] = next[n][l]]_vars

\* LinearizableSet's view: add takes effect when the node is linked, remove when
\* its lowest link is marked.
AbstractReq(t) ==
  LET r == th[t] IN
  IF r.pc = "idle" THEN <<>>
  ELSE IF r.pc = "return" \/ r.phase \in {"splice", "clean"}
       THEN <<r.op, r.inValue, r.ret # NULL_VALUE>>
       ELSE <<r.op, r.inValue>>

KeySet == INSTANCE LinearizableSet WITH
  Threads <- Threads, Keys <- Keys, set <- Members,
  req <- [t \in Threads |-> AbstractReq(t)], seen <- seen

\* add, remove and contain are the operations of a linearizable set: each change
\* happens once, in one step, and every answer was right at some time of the call.
ImplementsSet == KeySet!Spec

\* Every call returns: a compareAndSet that fails has met another one's success.
EveryCallReturns == \A t \in Threads : (th[t].pc # "idle") ~> (th[t].pc = "idle")
=============================================================================
