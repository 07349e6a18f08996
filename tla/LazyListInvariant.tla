------------------------- MODULE LazyListInvariant --------------------------
(***************************************************************************)
(* The inductive invariant of LazyList, for any number of threads, keys and*)
(* calls, and the proof that it holds initially and that the steps that do *)
(* not change the list keep it.                                            *)
(***************************************************************************)
EXTENDS LazyList, TLAPS

Active == {"walk", "lock", "validate", "unlink", "unlockCurr", "unlockPrev"}
Locking == {"lock", "validate", "unlink", "unlockCurr", "unlockPrev"}

\* The keys and marks of the nodes.
NodeFacts ==
  /\ key[HEAD] = INT_MIN /\ key[TAIL] = INT_MAX
  /\ \A n \in 3 .. top : key[n] \in Keys
  /\ ~ marked[HEAD] /\ ~ marked[TAIL]
  /\ \A n \in Nodes : n > top => ~ marked[n]
  /\ \A n \in unlinked : marked[n]

\* What a thread knows at each place of its call.
CallFacts ==
  \A t \in Threads :
    /\ pc[t] # "idle" => inValue[t] \in Keys
    /\ pc[t] \in Active => key[prev[t]] < inValue[t]
    /\ pc[t] \in Locking => key[curr[t]] >= inValue[t] /\ op[t] # "contains"
    /\ pc[t] = "unlink" => ret[t] = TRUE /\ op[t] = "remove"
    /\ pc[t] = "return" => ret[t] # NULL

\* A marked node that is still linked is being unlinked by the thread that marked
\* it.
MarkedFacts ==
  \A n \in 1 .. top : marked[n] /\ n \notin unlinked =>
    \E t \in Threads : pc[t] = "unlink" /\ curr[t] = n

\* The histories say what the list holds now.
HistoryFacts ==
  \A t \in Threads : pc[t] # "idle" =>
    /\ inValue[t] \in Members => present[t]
    /\ inValue[t] \notin Members => absent[t]

\* From a node that was linked at some time of the call, the way to a key that was
\* there all the time leads over such nodes to an unmarked node.
PathFacts ==
  \A t \in Threads : pc[t] # "idle" /\ ~ absent[t] =>
    \A n \in 1 .. top \ stale[t] : key[n] < inValue[t] =>
      /\ next[n] \notin stale[t]
      /\ key[next[n]] <= inValue[t]
      /\ key[next[n]] = inValue[t] => ~ marked[next[n]]

\* Where parallelContain stands on that way.
ReaderFacts ==
  \A t \in Threads : pc[t] = "walk" /\ op[t] = "contains" /\ ~ absent[t] =>
    /\ curr[t] \notin stale[t]
    /\ key[curr[t]] <= inValue[t]
    /\ key[curr[t]] = inValue[t] => ~ marked[curr[t]]

IInv ==
  /\ TypeOK /\ ListShape /\ LocksProtect /\ ContainsLinearizable
  /\ NodeFacts /\ CallFacts /\ MarkedFacts /\ HistoryFacts /\ PathFacts /\ ReaderFacts

-----------------------------------------------------------------------------
(* Facts used throughout.                                                  *)

\* A key is in the list when an unmarked node has it.
LEMMA MembersDef ==
  ASSUME NEW k
  PROVE  k \in Members <=> \E n \in 3 .. top : ~ marked[n] /\ key[n] = k
BY DEF Members

\* The types of what a thread works on.
LEMMA Types ==
  ASSUME IInv, NEW t \in Threads
  PROVE  /\ top \in Int /\ top >= 2 /\ top <= MaxNodes
         /\ prev[t] \in 1 .. top /\ curr[t] \in 1 .. top
         /\ prev[t] \in Nodes /\ curr[t] \in Nodes
         /\ inValue[t] \in Int
         /\ INT_MIN \in Int /\ INT_MAX \in Int /\ MaxNodes \in Int
         /\ \A n \in 1 .. top : n \in Nodes /\ n \in Int
         /\ \A n \in Nodes : key[n] \in Int /\ marked[n] \in BOOLEAN /\ next[n] \in Int
<1>1. TypeOK
  BY DEF IInv
<1>2. inValue[t] \in Keys \cup {INT_MIN}
  BY <1>1 DEF TypeOK
<1>3. top \in 2 .. MaxNodes /\ prev[t] \in 1 .. top /\ curr[t] \in 1 .. top
  BY <1>1 DEF TypeOK
<1>4. \A n \in Nodes : key[n] \in INT_MIN .. INT_MAX /\ marked[n] \in BOOLEAN /\ next[n] \in 0 .. top
  BY <1>1 DEF TypeOK
<1>5. inValue[t] \in Int
  <2>1. \A k \in Keys : k \in Int
    BY KeysAssumption, BoundsAssumption
  <2> QED
    BY <1>2, <2>1, BoundsAssumption
<1>6. \A n \in Nodes : key[n] \in Int /\ marked[n] \in BOOLEAN /\ next[n] \in Int
  BY <1>4, BoundsAssumption
<1>7. /\ top \in Int /\ top >= 2 /\ top <= MaxNodes
      /\ prev[t] \in Nodes /\ curr[t] \in Nodes
      /\ \A n \in 1 .. top : n \in Nodes /\ n \in Int
  BY <1>3, NodesAssumption DEF Nodes
<1> QED
  BY <1>3, <1>5, <1>6, <1>7, BoundsAssumption, NodesAssumption

\* The sentinels are linked and no key of a call is theirs.
LEMMA Sentinels ==
  ASSUME IInv
  PROVE  /\ HEAD \in Linked /\ TAIL \in Linked /\ HEAD # TAIL
         /\ HEAD \in 1 .. top /\ TAIL \in 1 .. top
         /\ \A k \in Keys : k \in Int /\ INT_MIN < k /\ k < INT_MAX
         /\ \A n \in 1 .. top : key[n] \in Keys => n \in 3 .. top
         /\ \A n \in 1 .. top : ~ marked[n] => n \in Linked
<1>1. TypeOK /\ NodeFacts
  BY DEF IInv
<1>2. \A k \in Keys : k \in Int /\ INT_MIN < k /\ k < INT_MAX
  BY BoundsAssumption, KeysAssumption
<1>3. top \in Int /\ top >= 2 /\ unlinked \subseteq 3 .. top
  BY <1>1, NodesAssumption DEF TypeOK
<1>4. HEAD \in Linked /\ TAIL \in Linked /\ HEAD # TAIL /\ HEAD \in 1 .. top /\ TAIL \in 1 .. top
  BY <1>3 DEF Linked, HEAD, TAIL
<1>5. INT_MIN \notin Keys /\ INT_MAX \notin Keys
  BY <1>2, BoundsAssumption
<1>6. \A n \in 1 .. top : key[n] \in Keys => n \in 3 .. top
  BY <1>1, <1>3, <1>5 DEF NodeFacts, HEAD, TAIL
<1>7. \A n \in 1 .. top : ~ marked[n] => n \in Linked
  BY <1>1 DEF NodeFacts, Linked
<1> QED
  BY <1>2, <1>4, <1>6, <1>7

\* A step that leaves the nodes and the histories alone.
Quiet ==
  /\ UNCHANGED <<heap, request, history>>
  /\ \A t \in Threads : /\ pc'[t] = "idle" <=> pc[t] = "idle"
                        /\ pc[t] = "unlink" => pc'[t] = "unlink" /\ curr'[t] = curr[t]

LEMMA QuietKeeps ==
  ASSUME IInv, Quiet
  PROVE  (ListShape /\ NodeFacts /\ MarkedFacts /\ HistoryFacts /\ PathFacts)'
<1> USE DEF Quiet, heap, request, history
<1>1. ListShape' /\ NodeFacts'
  BY DEF IInv, ListShape, NodeFacts, Linked
<1>2. MarkedFacts'
  BY DEF IInv, MarkedFacts
<1>3. Members' = Members
  BY DEF Members
<1>4. HistoryFacts'
  BY <1>3 DEF IInv, HistoryFacts
<1>5. PathFacts'
  BY DEF IInv, PathFacts
<1> QED
  BY <1>1, <1>2, <1>4, <1>5

-----------------------------------------------------------------------------
(* The initial states.                                                     *)

LEMMA IInvInit == Init => IInv
<1> SUFFICES ASSUME Init PROVE IInv
  OBVIOUS
<1>1. Members = {}
  BY DEF Init, Members
<1>2. TypeOK
  BY BoundsAssumption, NodesAssumption DEF Init, TypeOK, Nodes, Ops, HEAD, TAIL
<1>3. ListShape
  BY BoundsAssumption, NodesAssumption DEF Init, ListShape, Linked, Nodes, HEAD, TAIL
<1>4. LocksProtect /\ ContainsLinearizable
  BY DEF Init, LocksProtect, HoldsLocks, ContainsLinearizable
<1>5. NodeFacts
  BY NodesAssumption DEF Init, NodeFacts, Nodes, HEAD, TAIL
<1>6. CallFacts /\ HistoryFacts /\ PathFacts /\ ReaderFacts
  BY DEF Init, CallFacts, HistoryFacts, PathFacts, ReaderFacts, Active, Locking
<1>7. MarkedFacts
  BY NodesAssumption DEF Init, MarkedFacts, Nodes
<1> QED
  BY <1>2, <1>3, <1>4, <1>5, <1>6, <1>7 DEF IInv

-----------------------------------------------------------------------------
(* The steps that leave the nodes alone.                                   *)

\* The search starts at the head.
LEMMA BeginKeeps ==
  ASSUME IInv, NEW t \in Threads, Begin(t)
  PROVE  IInv'
<1> USE DEF Begin, Goto
<1> USE DEF heap, request, history
<1>1. Quiet
  BY DEF IInv, TypeOK, Quiet
<1>2. TypeOK'
  BY Types, Sentinels DEF IInv, TypeOK, ListShape
<1>3. LocksProtect'
  BY DEF IInv, TypeOK, LocksProtect, HoldsLocks
<1>4. ContainsLinearizable'
  BY DEF IInv, TypeOK, ContainsLinearizable
<1>5. CallFacts'
  BY Types, Sentinels DEF IInv, TypeOK, CallFacts, NodeFacts, Active, Locking
<1>6. ReaderFacts'
  <2>1. inValue[t] \in Keys /\ op'[t] = op[t]
    BY DEF IInv, CallFacts
  <2>2. HEAD \notin stale[t]
    BY Sentinels DEF IInv, TypeOK, Linked
  <2>3. key[HEAD] < inValue[t] /\ key[HEAD] \in Int /\ inValue[t] \in Int
    BY <2>1, Sentinels, BoundsAssumption DEF IInv, NodeFacts
  <2>4. op[t] = "contains" => curr'[t] = HEAD
    BY DEF IInv, TypeOK
  <2> QED
    BY <2>2, <2>3, <2>4 DEF IInv, TypeOK, ReaderFacts
<1> QED
  BY <1>1, <1>2, <1>3, <1>4, <1>5, <1>6, QuietKeeps DEF IInv

\* The search follows _next.
LEMMA WalkKeeps ==
  ASSUME IInv, NEW t \in Threads, Walk(t)
  PROVE  IInv'
<1> USE DEF Walk, Goto
<1> USE DEF heap, request, history
<1>1. Quiet
  BY DEF IInv, TypeOK, Quiet
<1>2. TypeOK'
  <2>1. inValue[t] \in Keys
    BY DEF IInv, CallFacts
  <2>2. curr[t] # TAIL
    BY <2>1, Sentinels, Types, BoundsAssumption DEF IInv, NodeFacts
  <2>3. next[curr[t]] \in 2 .. top
    BY <2>2, Types DEF IInv, ListShape
  <2>4. next[curr[t]] \in 1 .. top
    BY <2>3, Types
  <2> QED
    BY <2>4 DEF IInv, TypeOK
<1>3. LocksProtect'
  BY DEF IInv, TypeOK, LocksProtect, HoldsLocks
<1>4. ContainsLinearizable'
  BY DEF IInv, TypeOK, ContainsLinearizable
<1>5. CallFacts'
  BY Types, Sentinels DEF IInv, TypeOK, CallFacts, NodeFacts, Active, Locking
<1>6. ReaderFacts'
  <2>1. ~ absent[t] /\ op[t] = "contains" => curr[t] \in 1 .. top \ stale[t]
    BY Types DEF IInv, ReaderFacts
  <2>2. ~ absent[t] /\ op[t] = "contains" =>
          /\ next[curr[t]] \notin stale[t]
          /\ key[next[curr[t]]] <= inValue[t]
          /\ key[next[curr[t]]] = inValue[t] => ~ marked[next[curr[t]]]
    BY <2>1 DEF IInv, PathFacts
  <2>3. curr'[t] = next[curr[t]]
    BY DEF IInv, TypeOK
  <2> QED
    BY <2>2, <2>3 DEF IInv, TypeOK, ReaderFacts
<1> QED
  BY <1>1, <1>2, <1>3, <1>4, <1>5, <1>6, QuietKeeps DEF IInv

\* parallelContain answers: the place it has reached shows what the list held.
LEMMA LookKeeps ==
  ASSUME IInv, NEW t \in Threads, Look(t)
  PROVE  IInv'
<1> USE DEF Look, Goto, Found
<1> USE DEF heap, request, history
<1>1. Quiet
  BY DEF IInv, TypeOK, Quiet
<1>2. TypeOK'
  BY Types, Sentinels DEF IInv, TypeOK, ListShape
<1>3. LocksProtect'
  BY DEF IInv, TypeOK, LocksProtect, HoldsLocks
<1>4. ContainsLinearizable'
  <2>1. inValue[t] \in Keys
    BY DEF IInv, CallFacts
  <2>2. ASSUME key[curr[t]] = inValue[t], ~ marked[curr[t]]
        PROVE  present[t]
    <3>1. curr[t] \in 3 .. top
      BY <2>1, <2>2, Types, Sentinels
    <3>2. inValue[t] \in Members
      BY <2>2, <3>1, MembersDef
    <3> QED
      BY <3>2 DEF IInv, HistoryFacts
  <2>3. ASSUME ~ (key[curr[t]] = inValue[t] /\ ~ marked[curr[t]])
        PROVE  absent[t]
    BY <2>3, Types DEF IInv, ReaderFacts
  <2>4. ret'[t] = (key[curr[t]] = inValue[t] /\ ~ marked[curr[t]])
    BY DEF IInv, TypeOK
  <2>5. IF ret'[t] THEN present[t] ELSE absent[t]
    BY <2>2, <2>3, <2>4
  <2>6. \A u \in Threads : u # t => pc'[u] = pc[u] /\ ret'[u] = ret[u]
    BY DEF IInv, TypeOK
  <2> QED
    BY <2>5, <2>6 DEF IInv, ContainsLinearizable
<1>5. CallFacts'
  <2>1. ret'[t] # NULL
    BY NullAssumption DEF IInv, TypeOK
  <2> QED
    BY <2>1 DEF IInv, TypeOK, CallFacts, Active, Locking
<1>6. ReaderFacts'
  BY DEF IInv, TypeOK, ReaderFacts
<1> QED
  BY <1>1, <1>2, <1>3, <1>4, <1>5, <1>6, QuietKeeps DEF IInv

\* The first lock is taken only when it is free.
LEMMA LockPrevKeeps ==
  ASSUME IInv, NEW t \in Threads, LockPrev(t)
  PROVE  IInv'
<1> USE DEF LockPrev, Goto, Found
<1> USE DEF heap, request, history
<1>1. Quiet
  BY DEF IInv, TypeOK, Quiet
<1>2. TypeOK'
  BY Types, Sentinels DEF IInv, TypeOK, ListShape
<1>3. LocksProtect'
  <2>1. lock[prev[t]] \notin Threads
    BY NullAssumption
  <2>2. \A n \in Nodes : lock[n] \in Threads => lock'[n] = lock[n]
    BY <2>1 DEF IInv, TypeOK
  <2>3. lock'[prev[t]] = t
    BY Types DEF IInv, TypeOK
  <2>4. \A u \in Threads : u # t => pc'[u] = pc[u]
    BY DEF IInv, TypeOK
  <2>5. pc'[t] = "lock"
    BY DEF IInv, TypeOK
  <2>6. \A u \in Threads : prev[u] \in Nodes /\ curr[u] \in Nodes
    BY Types
  <2>7. LocksProtect /\ UNCHANGED <<next, marked, unlinked, prev, curr>>
    BY DEF IInv
  <2> HIDE DEF LockPrev, Goto, heap, request, history, Found
  <2>8. pc[t] = "walk"
    BY DEF LockPrev, Found
  <2>9. HoldsLocks(t)'
    BY <2>3, <2>5, <2>7, <2>8 DEF LocksProtect, HoldsLocks
  <2>10. ASSUME NEW u \in Threads, u # t
        PROVE  HoldsLocks(u)'
    BY <2>2, <2>4, <2>6, <2>7, <2>10 DEF LocksProtect, HoldsLocks
  <2> QED
    BY <2>9, <2>10 DEF LocksProtect, HoldsLocks
<1>4. ContainsLinearizable'
  BY DEF IInv, TypeOK, ContainsLinearizable
<1>5. CallFacts'
  BY Types, Sentinels DEF IInv, TypeOK, CallFacts, NodeFacts, Active, Locking
<1>6. ReaderFacts'
  BY DEF IInv, TypeOK, ReaderFacts
<1> QED
  BY <1>1, <1>2, <1>3, <1>4, <1>5, <1>6, QuietKeeps DEF IInv

\* The second lock is taken only when it is free.
LEMMA LockCurrKeeps ==
  ASSUME IInv, NEW t \in Threads, LockCurr(t)
  PROVE  IInv'
<1> USE DEF LockCurr, Goto
<1> USE DEF heap, request, history
<1>1. Quiet
  BY DEF IInv, TypeOK, Quiet
<1>2. TypeOK'
  BY Types, Sentinels DEF IInv, TypeOK, ListShape
<1>3. LocksProtect'
  <2>1. lock[curr[t]] \notin Threads
    BY NullAssumption
  <2>2. \A n \in Nodes : lock[n] \in Threads => lock'[n] = lock[n]
    BY <2>1 DEF IInv, TypeOK
  <2>3. lock'[curr[t]] = t
    BY Types DEF IInv, TypeOK
  <2>4. \A u \in Threads : u # t => pc'[u] = pc[u]
    BY DEF IInv, TypeOK
  <2>5. pc'[t] = "validate"
    BY DEF IInv, TypeOK
  <2>6. \A u \in Threads : prev[u] \in Nodes /\ curr[u] \in Nodes
    BY Types
  <2>7. LocksProtect /\ UNCHANGED <<next, marked, unlinked, prev, curr>>
    BY DEF IInv
  <2> HIDE DEF LockCurr, Goto, heap, request, history
  <2>8. pc[t] = "lock"
    BY DEF LockCurr
  <2>9. HoldsLocks(t)'
    BY <2>2, <2>3, <2>5, <2>6, <2>7, <2>8 DEF LocksProtect, HoldsLocks
  <2>10. ASSUME NEW u \in Threads, u # t
        PROVE  HoldsLocks(u)'
    BY <2>2, <2>4, <2>6, <2>7, <2>10 DEF LocksProtect, HoldsLocks
  <2> QED
    BY <2>9, <2>10 DEF LocksProtect, HoldsLocks
<1>4. ContainsLinearizable'
  BY DEF IInv, TypeOK, ContainsLinearizable
<1>5. CallFacts'
  BY Types, Sentinels DEF IInv, TypeOK, CallFacts, NodeFacts, Active, Locking
<1>6. ReaderFacts'
  BY DEF IInv, TypeOK, ReaderFacts
<1> QED
  BY <1>1, <1>2, <1>3, <1>4, <1>5, <1>6, QuietKeeps DEF IInv

\* A failed validation changes no node.
LEMMA RetryKeeps ==
  ASSUME IInv, NEW t \in Threads, Retry(t)
  PROVE  IInv'
<1> USE DEF Retry, Goto
<1> USE DEF heap, request, history
<1>1. Quiet
  BY DEF IInv, TypeOK, Quiet
<1>2. TypeOK'
  BY Types, Sentinels DEF IInv, TypeOK, ListShape
<1>3. LocksProtect'
  BY DEF IInv, TypeOK, LocksProtect, HoldsLocks
<1>4. ContainsLinearizable'
  BY DEF IInv, TypeOK, ContainsLinearizable
<1>5. CallFacts'
  BY Types, Sentinels DEF IInv, TypeOK, CallFacts, NodeFacts, Active, Locking
<1>6. ReaderFacts'
  BY DEF IInv, TypeOK, ReaderFacts
<1> QED
  BY <1>1, <1>2, <1>3, <1>4, <1>5, <1>6, QuietKeeps DEF IInv

\* A successful validation may find nothing to do.
LEMMA NoChangeKeeps ==
  ASSUME IInv, NEW t \in Threads, NoChange(t)
  PROVE  IInv'
<1> USE DEF NoChange, Goto
<1> USE DEF heap, request, history
<1>1. Quiet
  BY DEF IInv, TypeOK, Quiet
<1>2. TypeOK'
  BY Types, Sentinels DEF IInv, TypeOK, ListShape
<1>3. LocksProtect'
  BY DEF IInv, TypeOK, LocksProtect, HoldsLocks
<1>4. ContainsLinearizable'
  BY DEF IInv, TypeOK, ContainsLinearizable
<1>5. CallFacts'
  BY Types, Sentinels DEF IInv, TypeOK, CallFacts, NodeFacts, Active, Locking
<1>6. ReaderFacts'
  BY DEF IInv, TypeOK, ReaderFacts
<1> QED
  BY <1>1, <1>2, <1>3, <1>4, <1>5, <1>6, QuietKeeps DEF IInv

\* The second node is released; the first one, which has a smaller key, stays locked.
LEMMA UnlockCurrKeeps ==
  ASSUME IInv, NEW t \in Threads, UnlockCurr(t)
  PROVE  IInv'
<1> USE DEF UnlockCurr, Goto
<1> USE DEF heap, request, history
<1>1. Quiet
  BY DEF IInv, TypeOK, Quiet
<1>2. TypeOK'
  BY Types, Sentinels DEF IInv, TypeOK, ListShape
<1>3. LocksProtect'
  <2>1. key[prev[t]] < inValue[t] /\ key[curr[t]] >= inValue[t]
    BY DEF IInv, CallFacts, Active, Locking
  <2>2. prev[t] # curr[t]
    BY <2>1, Types
  <2>3. lock[curr[t]] = t /\ lock[prev[t]] = t
    BY DEF IInv, LocksProtect, HoldsLocks
  <2>4. \A n \in Nodes : n # curr[t] => lock'[n] = lock[n]
    BY DEF IInv, TypeOK
  <2>5. \A u \in Threads : u # t => pc'[u] = pc[u]
    BY DEF IInv, TypeOK
  <2>6. pc'[t] = "unlockPrev"
    BY DEF IInv, TypeOK
  <2>7. \A u \in Threads : prev[u] \in Nodes /\ curr[u] \in Nodes
    BY Types
  <2>8. LocksProtect /\ UNCHANGED <<next, marked, unlinked, prev, curr>>
    BY DEF IInv
  <2> HIDE DEF UnlockCurr, Goto, heap, request, history
  <2>9. pc[t] = "unlockCurr"
    BY DEF UnlockCurr
  <2>10. HoldsLocks(t)'
    BY <2>2, <2>3, <2>4, <2>6, <2>7, <2>8, <2>9 DEF LocksProtect, HoldsLocks
  <2>11. ASSUME NEW u \in Threads, u # t
        PROVE  HoldsLocks(u)'
    BY <2>3, <2>4, <2>5, <2>7, <2>8, <2>11 DEF LocksProtect, HoldsLocks
  <2> QED
    BY <2>10, <2>11 DEF LocksProtect, HoldsLocks
<1>4. ContainsLinearizable'
  BY DEF IInv, TypeOK, ContainsLinearizable
<1>5. CallFacts'
  BY Types, Sentinels DEF IInv, TypeOK, CallFacts, NodeFacts, Active, Locking
<1>6. ReaderFacts'
  BY DEF IInv, TypeOK, ReaderFacts
<1> QED
  BY <1>1, <1>2, <1>3, <1>4, <1>5, <1>6, QuietKeeps DEF IInv

\* The first node is released.
LEMMA UnlockPrevKeeps ==
  ASSUME IInv, NEW t \in Threads, UnlockPrev(t)
  PROVE  IInv'
<1> USE DEF UnlockPrev, Goto
<1> USE DEF heap, request, history
<1>1. Quiet
  BY DEF IInv, TypeOK, Quiet
<1>2. TypeOK'
  BY Types, Sentinels DEF IInv, TypeOK, ListShape
<1>3. LocksProtect'
  <2>1. lock[prev[t]] = t
    BY DEF IInv, LocksProtect, HoldsLocks
  <2>2. \A n \in Nodes : n # prev[t] => lock'[n] = lock[n]
    BY DEF IInv, TypeOK
  <2>3. \A u \in Threads : u # t => pc'[u] = pc[u]
    BY DEF IInv, TypeOK
  <2>4. pc'[t] \in {"begin", "return"}
    BY DEF IInv, TypeOK
  <2>5. \A u \in Threads : prev[u] \in Nodes /\ curr[u] \in Nodes
    BY Types
  <2>6. LocksProtect /\ UNCHANGED <<next, marked, unlinked, prev, curr>>
    BY DEF IInv
  <2> HIDE DEF UnlockPrev, Goto, heap, request, history
  <2>7. pc[t] = "unlockPrev"
    BY DEF UnlockPrev
  <2>8. HoldsLocks(t)'
    BY <2>4, <2>6, <2>7 DEF LocksProtect, HoldsLocks
  <2>9. ASSUME NEW u \in Threads, u # t
        PROVE  HoldsLocks(u)'
    BY <2>1, <2>2, <2>3, <2>5, <2>6, <2>9 DEF LocksProtect, HoldsLocks
  <2> QED
    BY <2>8, <2>9 DEF LocksProtect, HoldsLocks
<1>4. ContainsLinearizable'
  <2>1. op[t] # "contains"
    BY DEF IInv, CallFacts, Locking
  <2>2. \A u \in Threads : u # t => pc'[u] = pc[u]
    BY DEF IInv, TypeOK
  <2> QED
    BY <2>1, <2>2 DEF IInv, ContainsLinearizable
<1>5. CallFacts'
  BY Types, Sentinels DEF IInv, TypeOK, CallFacts, NodeFacts, Active, Locking
<1>6. ReaderFacts'
  BY DEF IInv, TypeOK, ReaderFacts
<1> QED
  BY <1>1, <1>2, <1>3, <1>4, <1>5, <1>6, QuietKeeps DEF IInv

-----------------------------------------------------------------------------
(* The beginning and the end of a call.                                    *)

\* A linked node before a key of the list leads over linked nodes to its node.
LEMMA LinkedPath ==
  ASSUME IInv, NEW k \in Members, NEW n \in Linked, key[n] < k
  PROVE  /\ n # TAIL /\ next[n] \in Linked
         /\ key[next[n]] <= k
         /\ key[next[n]] = k => ~ marked[next[n]]
<1>1. TypeOK /\ NodeFacts /\ ListShape
  BY DEF IInv
<1>2. PICK m \in 3 .. top : ~ marked[m] /\ key[m] = k
  BY MembersDef
<1>3. m \in 1 .. top
  BY <1>1 DEF TypeOK
<1>4. m \in Linked
  BY <1>2, <1>3, Sentinels
<1>5. k \in Keys /\ k \in Int /\ k < INT_MAX
  BY <1>1, <1>2, Sentinels DEF NodeFacts
<1>6. n \in Nodes /\ m \in Nodes /\ key[n] \in Int
  BY <1>1, <1>3, BoundsAssumption, NodesAssumption DEF TypeOK, Linked, Nodes
<1>7. n # TAIL
  BY <1>1, <1>5, <1>6, BoundsAssumption DEF NodeFacts
<1>8. next[n] \in Linked /\ (key[m] <= key[n] \/ key[m] >= key[next[n]])
  BY <1>1, <1>4, <1>7 DEF ListShape
<1>9. next[n] \in Nodes
  BY <1>1, <1>8, NodesAssumption DEF TypeOK, Linked, Nodes
<1>10. key[next[n]] \in Int
  BY <1>1, <1>9, BoundsAssumption DEF TypeOK
<1>11. key[next[n]] <= k
  BY <1>2, <1>5, <1>6, <1>8, <1>10
<1>12. key[next[n]] = k => next[n] = m
  BY <1>1, <1>2, <1>4, <1>8 DEF ListShape
<1> QED
  BY <1>2, <1>7, <1>8, <1>11, <1>12

\* A call begins with the list as it is: every linked node leads to the key.
LEMMA CallKeeps ==
  ASSUME IInv, NEW t \in Threads, NEW o \in Ops, NEW k \in Keys, Call(t, o, k)
  PROVE  IInv'
<1>0. UNCHANGED heap /\ LocksProtect
  BY DEF Call, IInv
<1> USE DEF Call, Goto
<1> USE DEF heap
<1>1. Members' = Members
  BY DEF Members
<1>2. TypeOK'
  BY DEF IInv, TypeOK
<1>3. ListShape' /\ NodeFacts'
  <2>1. ListShape /\ NodeFacts /\ UNCHANGED <<top, key, next, marked, unlinked>>
    BY <1>0 DEF IInv
  <2> HIDE DEF Call, Goto, heap
  <2>2. ListShape'
    BY <2>1 DEF ListShape, Linked
  <2>3. NodeFacts'
    BY <2>1 DEF NodeFacts
  <2> QED
    BY <2>2, <2>3
<1>4. LocksProtect'
  BY DEF IInv, TypeOK, LocksProtect, HoldsLocks
<1>5. ContainsLinearizable'
  BY DEF IInv, TypeOK, ContainsLinearizable
<1>6. CallFacts'
  BY DEF IInv, TypeOK, CallFacts, Active, Locking
<1>7. MarkedFacts'
  BY DEF IInv, TypeOK, MarkedFacts
<1>8. HistoryFacts'
  BY <1>1 DEF IInv, TypeOK, HistoryFacts
<1>9. PathFacts'
  <2>1. /\ \A u \in Threads : u # t => /\ pc'[u] = pc[u] /\ absent'[u] = absent[u]
                                       /\ stale'[u] = stale[u] /\ inValue'[u] = inValue[u]
        /\ stale'[t] = unlinked /\ inValue'[t] = k
        /\ absent'[t] = (k \notin Members)
    BY DEF IInv, TypeOK
  <2>2. ASSUME ~ absent'[t], NEW n \in 1 .. top \ unlinked, key[n] < k
        PROVE  /\ next[n] \notin unlinked
               /\ key[next[n]] <= k
               /\ key[next[n]] = k => ~ marked[next[n]]
    <3>1. k \in Members /\ n \in Linked
      BY <2>1, <2>2 DEF Linked
    <3>2. next[n] \in Linked /\ key[next[n]] <= k /\ (key[next[n]] = k => ~ marked[next[n]])
      BY <2>2, <3>1, LinkedPath
    <3> QED
      BY <3>2 DEF Linked
  <2>3. pc'[t] # "idle" /\ UNCHANGED <<top, key, next, marked>>
    BY DEF IInv, TypeOK
  <2> HIDE DEF Call, Goto
  <2> QED
    <3>1. ASSUME NEW u \in Threads, pc'[u] # "idle", ~ absent'[u],
                 NEW n \in 1 .. top \ stale'[u], key[n] < inValue'[u]
          PROVE  /\ next[n] \notin stale'[u]
                 /\ key[next[n]] <= inValue'[u]
                 /\ key[next[n]] = inValue'[u] => ~ marked[next[n]]
      <4>1. CASE u = t
        BY <2>1, <2>2, <3>1, <4>1
      <4>2. CASE u # t
        <5>1. /\ pc[u] # "idle" /\ ~ absent[u] /\ n \in 1 .. top \ stale[u] /\ key[n] < inValue[u]
              /\ stale'[u] = stale[u] /\ inValue'[u] = inValue[u]
          BY <2>1, <3>1, <4>2
        <5>2. PathFacts
          BY DEF IInv
        <5> QED
          BY <5>1, <5>2, Zenon DEF PathFacts
      <4> QED
        BY <4>1, <4>2
    <3> QED
      BY <2>3, <3>1 DEF PathFacts
<1>10. ReaderFacts'
  BY DEF IInv, TypeOK, ReaderFacts
<1> QED
  BY <1>2, <1>3, <1>4, <1>5, <1>6, <1>7, <1>8, <1>9, <1>10 DEF IInv

\* A call ends and its histories are forgotten.
LEMMA ReturnKeeps ==
  ASSUME IInv, NEW t \in Threads, Return(t)
  PROVE  IInv'
<1> USE DEF Return, Goto
<1> USE DEF heap
<1>1. Members' = Members
  BY DEF Members
<1>2. TypeOK'
  BY Sentinels DEF IInv, TypeOK, Ops
<1>3. ListShape' /\ NodeFacts'
  <2>1. ListShape /\ NodeFacts /\ UNCHANGED <<top, key, next, marked, unlinked>>
    BY DEF IInv
  <2> HIDE DEF Return, Goto, heap
  <2>2. ListShape'
    BY <2>1 DEF ListShape, Linked
  <2>3. NodeFacts'
    BY <2>1 DEF NodeFacts
  <2> QED
    BY <2>2, <2>3
<1>4. LocksProtect'
  <2>1. /\ pc'[t] = "idle"
        /\ \A u \in Threads : u # t => pc'[u] = pc[u] /\ prev'[u] = prev[u] /\ curr'[u] = curr[u]
        /\ LocksProtect /\ UNCHANGED <<next, marked, unlinked, lock>>
    BY DEF IInv, TypeOK
  <2> HIDE DEF Return, Goto, heap
  <2> QED
    BY <2>1 DEF LocksProtect, HoldsLocks
<1>5. ContainsLinearizable'
  BY DEF IInv, TypeOK, ContainsLinearizable
<1>6. CallFacts'
  BY DEF IInv, TypeOK, CallFacts, Active, Locking
<1>7. MarkedFacts'
  BY DEF IInv, TypeOK, MarkedFacts
<1>8. HistoryFacts'
  BY <1>1 DEF IInv, TypeOK, HistoryFacts
<1>9. PathFacts'
  BY DEF IInv, TypeOK, PathFacts
<1>10. ReaderFacts'
  BY DEF IInv, TypeOK, ReaderFacts
<1> QED
  BY <1>2, <1>3, <1>4, <1>5, <1>6, <1>7, <1>8, <1>9, <1>10 DEF IInv
=============================================================================
