--------------------------- MODULE LazyListProofs ---------------------------
(***************************************************************************)
(* The steps that change the list keep the inductive invariant of          *)
(* LazyListInvariant, and what follows: the theorems about LazyList.       *)
(***************************************************************************)
EXTENDS LazyListInvariant, TLAPS

-----------------------------------------------------------------------------
(* The steps that change the list.                                         *)

\* A thread whose validation succeeds holds two linked neighbours around its key.
LEMMA Neighbours ==
  ASSUME IInv, NEW t \in Threads, pc[t] = "validate", Valid(t)
  PROVE  /\ prev[t] \in Linked /\ curr[t] \in Linked
         /\ prev[t] # TAIL /\ next[prev[t]] = curr[t] /\ prev[t] # curr[t]
         /\ ~ marked[prev[t]] /\ ~ marked[curr[t]]
         /\ key[prev[t]] < inValue[t] /\ inValue[t] <= key[curr[t]]
         /\ lock[prev[t]] = t /\ lock[curr[t]] = t
         /\ inValue[t] \in Keys /\ op[t] # "contains"
<1>1. key[prev[t]] < inValue[t] /\ key[curr[t]] >= inValue[t] /\ inValue[t] \in Keys /\ op[t] # "contains"
  BY DEF IInv, CallFacts, Active, Locking
<1>2. prev[t] # curr[t]
  BY <1>1, Types
<1>3. ~ marked[prev[t]] /\ ~ marked[curr[t]] /\ next[prev[t]] = curr[t]
  BY DEF Valid
<1>4. prev[t] \in Linked /\ curr[t] \in Linked
  BY <1>3, Types, Sentinels
<1>5. prev[t] # TAIL
  BY <1>1, Types, Sentinels, BoundsAssumption DEF IInv, NodeFacts
<1>6. lock[prev[t]] = t /\ lock[curr[t]] = t
  BY DEF IInv, LocksProtect, HoldsLocks
<1>7. inValue[t] <= key[curr[t]]
  BY <1>1, Types
<1> QED
  BY <1>1, <1>2, <1>3, <1>4, <1>5, <1>6, <1>7

\* What Observe records.
LEMMA ObserveFacts ==
  ASSUME IInv, Observe, NEW u \in Threads
  PROVE  /\ absent'[u] \in BOOLEAN /\ present'[u] \in BOOLEAN
         /\ absent[u] => absent'[u]
         /\ present[u] => present'[u]
         /\ pc[u] # "idle" /\ inValue[u] \in Members' => present'[u]
         /\ pc[u] # "idle" /\ inValue[u] \notin Members' => absent'[u]
BY DEF Observe

\* Marking takes the key out of the list; a reader that still finds an unmarked node
\* with its key is looking for another one.
LEMMA MarkKeeps ==
  ASSUME IInv, NEW t \in Threads, Mark(t)
  PROVE  IInv'
<1> USE DEF request
<1> DEFINE c == curr[t]
<1>1. /\ pc[t] = "validate" /\ Valid(t) /\ Observe
      /\ op[t] = "remove" /\ key[c] = inValue[t]
      /\ marked' = [marked EXCEPT ![c] = TRUE]
      /\ ret' = [ret EXCEPT ![t] = TRUE]
      /\ pc' = [pc EXCEPT ![t] = "unlink"]
      /\ UNCHANGED <<top, key, next, unlinked, lock, op, inValue, calls, stale, prev, curr>>
  BY DEF Mark, Goto
<1>2. c \in Nodes /\ c \in 3 .. top /\ c \in Linked
  BY <1>1, Types, Neighbours, Sentinels
<1>3. \A u \in Threads : u # t => pc'[u] = pc[u] /\ ret'[u] = ret[u]
  BY <1>1 DEF IInv, TypeOK
<1>4. pc'[t] = "unlink" /\ ret'[t] = TRUE
  BY <1>1 DEF IInv, TypeOK
<1>5. marked'[c] /\ \A n \in Nodes : n # c => marked'[n] = marked[n]
  BY <1>1, <1>2 DEF IInv, TypeOK
<1>6. TypeOK'
  BY <1>1, <1>2 DEF IInv, TypeOK, Observe
<1>7. ListShape'
  BY <1>1 DEF IInv, ListShape, Linked
<1>8. NodeFacts'
  <2>1. HEAD \in Nodes /\ TAIL \in Nodes /\ HEAD # c /\ TAIL # c /\ c <= top
    BY <1>2, NodesAssumption DEF HEAD, TAIL, Nodes
  <2>2. unlinked \subseteq Nodes
    BY <1>6, <1>1, NodesAssumption DEF TypeOK, Nodes
  <2>3. \A n \in Nodes : n > top => n # c
    BY <1>2 DEF IInv, TypeOK, Nodes
  <2>4. \A n \in unlinked : marked'[n]
    BY <1>5, <2>2 DEF IInv, NodeFacts
  <2> QED
    BY <1>1, <1>5, <2>1, <2>3, <2>4 DEF IInv, NodeFacts
<1>9. LocksProtect'
  <2>1. \A u \in Threads : pc[u] = "unlink" => prev[u] # c
    BY <1>1, Neighbours DEF IInv, LocksProtect, HoldsLocks
  <2>2. \A u \in Threads : prev[u] \in Nodes /\ curr[u] \in Nodes
    BY Types
  <2>3. ASSUME NEW u \in Threads, u # t, pc[u] = "unlink"
        PROVE  ~ marked'[prev[u]] /\ marked'[curr[u]]
    BY <1>5, <2>1, <2>2, <2>3 DEF IInv, LocksProtect, HoldsLocks
  <2>4. ~ marked'[prev[t]] /\ marked'[c] /\ next[prev[t]] = c /\ c \notin unlinked
    BY <1>1, <1>5, <2>2, Neighbours DEF Linked
  <2>5. lock[prev[t]] = t /\ lock[c] = t
    BY <1>1, Neighbours
  <2> QED
    BY <1>1, <1>3, <1>4, <2>3, <2>4, <2>5 DEF IInv, LocksProtect, HoldsLocks
<1>10. ContainsLinearizable'
  <2>1. ASSUME NEW u \in Threads, u # t, pc[u] = "return", op[u] = "contains"
        PROVE  IF ret[u] THEN present'[u] ELSE absent'[u]
    BY <1>1, <2>1, ObserveFacts DEF IInv, ContainsLinearizable
  <2> QED
    BY <1>1, <1>3, <1>4, <2>1 DEF ContainsLinearizable
<1>11. CallFacts'
  <2>1. inValue[t] \in Keys /\ key[prev[t]] < inValue[t] /\ key[c] >= inValue[t]
    BY <1>1 DEF IInv, CallFacts, Active, Locking
  <2>2. CallFacts /\ op[t] = "remove" /\ UNCHANGED <<key, op, inValue, prev, curr>>
    BY <1>1 DEF IInv
  <2> QED
    BY <1>3, <1>4, <2>1, <2>2, SMTT(30) DEF CallFacts, Active, Locking
<1>12. MarkedFacts'
  <2>1. \A n \in 1 .. top : n \in Nodes
    BY Types
  <2>2. ASSUME NEW n \in 1 .. top, marked'[n], n \notin unlinked
        PROVE  \E u \in Threads : pc'[u] = "unlink" /\ curr[u] = n
    <3>1. CASE n = c
      BY <1>4, <3>1
    <3>2. CASE n # c
      BY <1>1, <1>3, <1>5, <2>1, <2>2, <3>2 DEF IInv, MarkedFacts
    <3> QED
      BY <3>1, <3>2
  <2> QED
    BY <1>1, <2>2 DEF MarkedFacts
<1>13. HistoryFacts'
  BY <1>1, <1>3, <1>4, ObserveFacts DEF HistoryFacts
<1>14. ASSUME NEW u \in Threads, pc[u] # "idle", ~ absent'[u]
       PROVE  key[c] # inValue[u]
  <2>1. inValue[u] \in Members'
    BY <1>1, <1>14, ObserveFacts
  <2>2. PICK m \in 3 .. top : ~ marked'[m] /\ key[m] = inValue[u]
    BY <1>1, <2>1 DEF Members
  <2>3. m \in 1 .. top /\ m \in Nodes
    BY Types
  <2>4. m # c /\ ~ marked[m] /\ m \in Linked
    BY <1>5, <2>2, <2>3, Sentinels
  <2> QED
    BY <1>2, <2>2, <2>4 DEF IInv, ListShape
<1>15. \A u \in Threads : pc'[u] # "idle" /\ ~ absent'[u] => pc[u] # "idle" /\ ~ absent[u]
  BY <1>1, <1>3, ObserveFacts
<1>16. PathFacts'
  <2>1. ASSUME NEW u \in Threads, pc'[u] # "idle", ~ absent'[u],
               NEW n \in 1 .. top \ stale[u], key[n] < inValue[u]
        PROVE  /\ next[n] \notin stale[u]
               /\ key[next[n]] <= inValue[u]
               /\ key[next[n]] = inValue[u] => ~ marked'[next[n]]
    <3>1. pc[u] # "idle" /\ ~ absent[u] /\ key[c] # inValue[u]
      BY <1>14, <1>15, <2>1
    <3>2. /\ next[n] \notin stale[u] /\ key[next[n]] <= inValue[u]
          /\ key[next[n]] = inValue[u] => ~ marked[next[n]]
      BY <2>1, <3>1 DEF IInv, PathFacts
    <3>3. n # TAIL
      <4>1. inValue[u] \in Keys
        BY <3>1 DEF IInv, CallFacts
      <4> QED
        BY <2>1, <4>1, Sentinels, Types, BoundsAssumption DEF IInv, NodeFacts
    <3>4. next[n] \in Nodes
      BY <3>3, Types DEF IInv, ListShape
    <3> QED
      BY <1>5, <3>1, <3>2, <3>4
  <2> QED
    BY <1>1, <2>1 DEF PathFacts
<1>17. ReaderFacts'
  <2>1. ASSUME NEW u \in Threads, pc'[u] = "walk", op[u] = "contains", ~ absent'[u]
        PROVE  /\ curr[u] \notin stale[u]
               /\ key[curr[u]] <= inValue[u]
               /\ key[curr[u]] = inValue[u] => ~ marked'[curr[u]]
    <3>1. u # t /\ pc[u] = "walk" /\ ~ absent[u] /\ key[c] # inValue[u]
      BY <1>3, <1>4, <1>14, <1>15, <2>1
    <3>2. curr[u] \in Nodes
      BY Types
    <3> QED
      BY <1>5, <2>1, <3>1, <3>2 DEF IInv, ReaderFacts
  <2> QED
    BY <1>1, <2>1 DEF ReaderFacts
<1> QED
  BY <1>6, <1>7, <1>8, <1>9, <1>10, <1>11, <1>12, <1>13, <1>16, <1>17 DEF IInv

\* Unlinking a marked node joins its two neighbours; the way of a reader that would
\* have come over it is not longer than before.
LEMMA UnlinkKeeps ==
  ASSUME IInv, NEW t \in Threads, Unlink(t)
  PROVE  IInv'
<1> USE DEF request, history
<1> DEFINE p == prev[t]
           c == curr[t]
           x == next[c]
<1>1. /\ pc[t] = "unlink"
      /\ next' = [next EXCEPT ![p] = x]
      /\ unlinked' = unlinked \cup {c}
      /\ pc' = [pc EXCEPT ![t] = "unlockCurr"]
      /\ UNCHANGED <<top, key, marked, lock, op, inValue, calls, stale, prev, curr, ret, absent, present>>
  BY DEF Unlink, Goto
<1>2. /\ next[p] = c /\ ~ marked[p] /\ marked[c] /\ c \notin unlinked
      /\ lock[p] = t /\ lock[c] = t
  BY <1>1 DEF IInv, LocksProtect, HoldsLocks
<1>3. p \in Nodes /\ c \in Nodes /\ p \in 1 .. top /\ c \in 1 .. top
  BY Types
<1>4. c # TAIL /\ c # HEAD /\ p # c
  BY <1>2 DEF IInv, NodeFacts
<1>5. p \in Linked /\ c \in Linked
  BY <1>2, <1>3, Sentinels DEF Linked
<1>6. p # TAIL
  <2>1. key[p] < inValue[t] /\ inValue[t] \in Keys
    BY <1>1 DEF IInv, CallFacts, Active
  <2> QED
    BY <2>1, <1>3, Types, Sentinels, BoundsAssumption DEF IInv, NodeFacts
<1>7. x \in Linked /\ x \in 2 .. top /\ x \in Nodes /\ key[p] < key[c] /\ key[c] < key[x]
  <2>1. x \in Linked
    BY <1>4, <1>5 DEF IInv, ListShape
  <2>2. x \in 2 .. top /\ key[c] < key[x]
    BY <1>3, <1>4 DEF IInv, ListShape
  <2>3. key[p] < key[c]
    BY <1>2, <1>3, <1>6 DEF IInv, ListShape
  <2> QED
    BY <2>1, <2>2, <2>3, Types
<1>8. x # c /\ x # p
  BY <1>3, <1>7, Types
<1>9. next'[p] = x /\ \A n \in Nodes : n # p => next'[n] = next[n]
  BY <1>1, <1>3 DEF IInv, TypeOK
<1>10. Linked' = Linked \ {c}
  BY <1>1 DEF Linked
<1>11. pc'[t] = "unlockCurr" /\ \A u \in Threads : u # t => pc'[u] = pc[u]
  BY <1>1 DEF IInv, TypeOK
<1>12. TypeOK'
  <2>1. c \in 3 .. top
    BY <1>3, <1>4, Types DEF HEAD, TAIL
  <2>2. x \in 0 .. top
    BY <1>7
  <2> QED
    BY <1>1, <2>1, <2>2 DEF IInv, TypeOK
<1>13. ListShape'
  <2>1. ASSUME NEW n \in 1 .. top \ {TAIL}
        PROVE  next'[n] \in 2 .. top /\ key[n] < key[next'[n]]
    <3>1. CASE n = p
      BY <1>3, <1>7, <1>9, <3>1, Types
    <3>2. CASE n # p
      BY <1>9, <3>2, Types DEF IInv, ListShape
    <3> QED
      BY <3>1, <3>2
  <2>2. ASSUME NEW n \in Linked \ {TAIL}, n # c, n # p
        PROVE  next[n] # c
    <3>1. SUFFICES ASSUME next[n] = c PROVE FALSE
      OBVIOUS
    <3>2. key[p] <= key[n] \/ key[p] >= key[c]
      BY <1>5, <3>1 DEF IInv, ListShape
    <3>3. key[n] <= key[p] \/ key[n] >= key[c]
      BY <1>2, <1>5, <1>6 DEF IInv, ListShape
    <3>4. n \in 1 .. top /\ n \in Nodes
      BY Types DEF Linked
    <3>5. key[n] < key[c]
      BY <3>1, <3>4 DEF IInv, ListShape
    <3>6. key[n] = key[p]
      BY <1>3, <1>7, <3>2, <3>3, <3>4, <3>5, Types
    <3> QED
      BY <1>5, <2>2, <3>6 DEF IInv, ListShape
  <2>3. ASSUME NEW n \in Linked \ {TAIL}, n # c
        PROVE  next'[n] \in Linked \ {c}
    <3>1. n \in Nodes
      BY Types DEF Linked
    <3>2. CASE n = p
      BY <1>7, <1>8, <1>9, <3>2
    <3>3. CASE n # p
      BY <1>9, <2>2, <2>3, <3>1, <3>3 DEF IInv, ListShape
    <3> QED
      BY <3>2, <3>3
  <2>4. ASSUME NEW n \in Linked \ {TAIL}, n # c, NEW m \in Linked, m # c
        PROVE  key[m] <= key[n] \/ key[m] >= key[next'[n]]
    <3>1. n \in Nodes /\ m \in Nodes
      BY Types DEF Linked
    <3>2. CASE n = p
      <4>1. key[m] <= key[p] \/ key[m] >= key[c]
        BY <1>2, <1>5, <1>6 DEF IInv, ListShape
      <4>2. key[m] <= key[c] \/ key[m] >= key[x]
        BY <1>4, <1>5 DEF IInv, ListShape
      <4>3. key[m] # key[c]
        BY <1>5, <2>4 DEF IInv, ListShape
      <4> QED
        BY <1>3, <1>7, <1>9, <3>1, <3>2, <4>1, <4>2, <4>3, Types
    <3>3. CASE n # p
      BY <1>9, <3>1, <3>3 DEF IInv, ListShape
    <3> QED
      BY <3>2, <3>3
  <2>5. \A m, n \in Linked : key[m] = key[n] => m = n
    BY DEF IInv, ListShape
  <2> HIDE DEF p, c, x
  <2> QED
    BY <1>1, <1>10, <2>1, <2>3, <2>4, <2>5 DEF ListShape
<1>14. NodeFacts'
  BY <1>1, <1>2 DEF IInv, NodeFacts
<1>15. LocksProtect'
  <2>1. ASSUME NEW u \in Threads, u # t, pc[u] = "unlink"
        PROVE  next'[prev[u]] = curr[u] /\ curr[u] \notin unlinked'
    <3>1. lock[prev[u]] = u /\ lock[curr[u]] = u /\ next[prev[u]] = curr[u] /\ curr[u] \notin unlinked
      BY <2>1 DEF IInv, LocksProtect, HoldsLocks
    <3>2. prev[u] # p /\ curr[u] # c
      BY <1>2, <2>1, <3>1
    <3>3. prev[u] \in Nodes
      BY Types
    <3> QED
      BY <1>1, <1>9, <3>1, <3>2, <3>3
  <2> HIDE DEF p, c, x
  <2>2. \A u \in Threads : pc[u] = "unlink" => ~ marked[prev[u]] /\ marked[curr[u]]
    BY DEF IInv, LocksProtect, HoldsLocks
  <2>3. \A u \in Threads : pc'[u] = "unlink" => u # t /\ pc[u] = "unlink"
    BY <1>11
  <2>4. \A u \in Threads :
          /\ pc'[u] \in {"validate", "unlink", "unlockCurr"} => lock[curr[u]] = u
          /\ pc'[u] \in {"lock", "validate", "unlink", "unlockCurr", "unlockPrev"} => lock[prev[u]] = u
    BY <1>2, <1>11 DEF IInv, LocksProtect, HoldsLocks, p, c
  <2> QED
    BY <1>1, <2>1, <2>2, <2>3, <2>4 DEF LocksProtect, HoldsLocks
<1>16. ContainsLinearizable'
  BY <1>1, <1>11 DEF IInv, ContainsLinearizable
<1>17. CallFacts'
  BY <1>1, <1>11 DEF IInv, CallFacts, Active, Locking
<1>18. MarkedFacts'
  BY <1>1, <1>11 DEF IInv, MarkedFacts
<1>19. HistoryFacts'
  <2>1. Members' = Members
    BY <1>1 DEF Members
  <2> QED
    BY <1>1, <1>11, <2>1 DEF IInv, HistoryFacts
<1>20. PathFacts'
  <2>1. ASSUME NEW u \in Threads, pc[u] # "idle", ~ absent[u],
               NEW n \in 1 .. top \ stale[u], key[n] < inValue[u]
        PROVE  /\ next'[n] \notin stale[u]
               /\ key[next'[n]] <= inValue[u]
               /\ key[next'[n]] = inValue[u] => ~ marked[next'[n]]
    <3>1. \A k \in 1 .. top \ stale[u] : key[k] < inValue[u] =>
            /\ next[k] \notin stale[u]
            /\ key[next[k]] <= inValue[u]
            /\ key[next[k]] = inValue[u] => ~ marked[next[k]]
      BY <2>1 DEF IInv, PathFacts
    <3>2. CASE n # p
      BY <1>9, <2>1, <3>1, <3>2, Types
    <3>3. CASE n = p
      <4>1. c \notin stale[u] /\ key[c] <= inValue[u] /\ key[c] # inValue[u]
        BY <1>2, <2>1, <3>1, <3>3
      <4>2. c \in 1 .. top \ stale[u] /\ key[c] < inValue[u]
        BY <1>3, <4>1, Types
      <4> QED
        BY <1>9, <3>1, <3>3, <4>2
    <3> QED
      BY <3>2, <3>3
  <2> HIDE DEF p, c, x
  <2>2. \A u \in Threads : pc'[u] # "idle" => pc[u] # "idle"
    BY <1>1, <1>11
  <2> QED
    BY <1>1, <2>1, <2>2 DEF PathFacts
<1>21. ReaderFacts'
  BY <1>1, <1>11 DEF IInv, ReaderFacts
<1> QED
  BY <1>12, <1>13, <1>14, <1>15, <1>16, <1>17, <1>18, <1>19, <1>20, <1>21 DEF IInv

\* A new node goes between two linked neighbours, on the way of every reader whose
\* key lies behind it.
LEMMA LinkKeeps ==
  ASSUME IInv, NEW t \in Threads, Link(t)
  PROVE  IInv'
<1> USE DEF request
<1> DEFINE p == prev[t]
           c == curr[t]
           v == inValue[t]
           new == top + 1
<1>1. /\ pc[t] = "validate" /\ Valid(t) /\ Observe
      /\ op[t] = "add" /\ key[c] # v /\ new \in Nodes
      /\ top' = new
      /\ key' = [key EXCEPT ![new] = v]
      /\ next' = [next EXCEPT ![new] = c, ![p] = new]
      /\ ret' = [ret EXCEPT ![t] = TRUE]
      /\ pc' = [pc EXCEPT ![t] = "unlockCurr"]
      /\ UNCHANGED <<marked, unlinked, lock, op, inValue, calls, stale, prev, curr>>
  BY DEF Link, Goto
<1>2. /\ p \in Linked /\ c \in Linked /\ p # TAIL /\ next[p] = c
      /\ ~ marked[p] /\ ~ marked[c] /\ lock[p] = t /\ lock[c] = t /\ v \in Keys
  BY <1>1, Neighbours
<1>3. /\ top \in Int /\ top >= 2 /\ p \in 1 .. top /\ c \in 1 .. top /\ v \in Int
      /\ p \in Nodes /\ c \in Nodes
      /\ \A n \in 1 .. top : n \in Nodes /\ n # new
      /\ \A n \in Nodes : key[n] \in Int
  BY Types
<1>4. key[p] < v /\ v < key[c]
  <2>1. key[p] < v /\ v <= key[c]
    BY <1>1, Neighbours
  <2> QED
    BY <1>1, <1>3, <2>1
<1>5. /\ key'[new] = v /\ \A n \in 1 .. top : key'[n] = key[n]
      /\ next'[new] = c /\ next'[p] = new /\ \A n \in 1 .. top : n # p => next'[n] = next[n]
  <2>1. key \in [Nodes -> INT_MIN .. INT_MAX] /\ next \in [Nodes -> 0 .. top]
    BY DEF IInv, TypeOK
  <2> HIDE DEF p, c, v, new
  <2> QED
    BY <1>1, <1>3, <2>1
<1>6. 1 .. top' = 1 .. top \cup {new} /\ 3 .. top' = 3 .. top \cup {new}
  <2>1. top' = top + 1 /\ top \in Int /\ top >= 2
    BY <1>1, <1>3
  <2> QED
    BY <2>1
<1>7. unlinked \subseteq 3 .. top /\ new \notin unlinked
  BY <1>3 DEF IInv, TypeOK
<1>8. Linked' = Linked \cup {new}
  BY <1>1, <1>6, <1>7 DEF Linked
<1>9. pc'[t] = "unlockCurr" /\ ret'[t] = TRUE /\ \A u \in Threads : u # t => pc'[u] = pc[u] /\ ret'[u] = ret[u]
  BY <1>1 DEF IInv, TypeOK
<1>10. \A m \in Linked : key[m] <= key[p] \/ key[m] >= key[c]
  BY <1>2 DEF IInv, ListShape
<1>11. \A m \in Linked : m \in 1 .. top /\ m \in Nodes /\ m # new /\ key[m] # v
  BY <1>3, <1>4, <1>10 DEF Linked
<1>12. TypeOK'
  <2>1. v \in INT_MIN .. INT_MAX
    <3>1. v \in Keys
      BY <1>2
    <3> HIDE DEF v
    <3> QED
      BY <3>1, KeysAssumption, BoundsAssumption
  <2>2. key' \in [Nodes -> INT_MIN .. INT_MAX]
    BY <1>1, <2>1 DEF IInv, TypeOK
  <2>3. new \in 2 .. MaxNodes /\ c \in 0 .. new /\ 0 .. top \subseteq 0 .. new /\ new \in 0 .. new
    BY <1>1, <1>3, NodesAssumption DEF Nodes
  <2>4. next' \in [Nodes -> 0 .. new]
    BY <1>1, <2>3 DEF IInv, TypeOK
  <2>5. unlinked' \subseteq 3 .. top'
    BY <1>1, <1>6, <1>7
  <2>6. prev' \in [Threads -> 1 .. top'] /\ curr' \in [Threads -> 1 .. top']
    BY <1>1, <1>6 DEF IInv, TypeOK
  <2>7. absent' \in [Threads -> BOOLEAN] /\ present' \in [Threads -> BOOLEAN]
    BY <1>1 DEF Observe
  <2> QED
    BY <1>1, <2>2, <2>3, <2>4, <2>5, <2>6, <2>7 DEF IInv, TypeOK
<1>13. ListShape'
  <2>1. ASSUME NEW n \in 1 .. top', n # TAIL
        PROVE  next'[n] \in 2 .. top' /\ key'[n] < key'[next'[n]]
    <3>1. CASE n = new
      <4>1. c \in 2 .. top'
        BY <1>1, <1>2, <1>3 DEF IInv, ListShape
      <4> QED
        BY <1>3, <1>4, <1>5, <3>1, <4>1
    <3>2. CASE n = p
      <4>1. next'[n] = new /\ key'[n] = key[p] /\ key'[new] = v /\ new \in 2 .. top'
        BY <1>1, <1>3, <1>5, <3>2
      <4> HIDE DEF p, c, v, new
      <4> QED
        BY <1>4, <4>1
    <3>3. CASE n \in 1 .. top /\ n # p
      <4>1. next[n] \in 2 .. top /\ key[n] < key[next[n]]
        BY <2>1, <3>3 DEF IInv, ListShape
      <4>2. next[n] \in 1 .. top /\ next[n] \in 2 .. top'
        BY <1>1, <1>3, <4>1
      <4> QED
        BY <1>5, <3>3, <4>1, <4>2
    <3> QED
      BY <1>6, <2>1, <3>1, <3>2, <3>3
  <2>2. ASSUME NEW n \in Linked', n # TAIL
        PROVE  next'[n] \in Linked'
    <3>1. CASE n = new
      BY <1>2, <1>5, <1>8, <3>1
    <3>2. CASE n = p
      BY <1>5, <1>8, <3>2
    <3>3. CASE n \in Linked /\ n # p
      BY <1>5, <1>8, <1>11, <2>2, <3>3 DEF IInv, ListShape
    <3> QED
      BY <1>8, <2>2, <3>1, <3>2, <3>3
  <2>3. ASSUME NEW n \in Linked, n # TAIL, n # p
        PROVE  /\ \A m \in Linked : key[m] <= key[n] \/ key[m] >= key[next[n]]
               /\ v <= key[n] \/ v >= key[next[n]]
               /\ next[n] \in Linked
    <3>1. next[n] \in Linked /\ \A m \in Linked : key[m] <= key[n] \/ key[m] >= key[next[n]]
      BY <2>3 DEF IInv, ListShape
    <3>2. key[p] <= key[n] \/ key[p] >= key[next[n]]
      BY <1>2, <3>1
    <3>3. key[p] # key[n]
      BY <1>2, <2>3 DEF IInv, ListShape
    <3>4. key[n] <= key[p] \/ key[n] >= key[c]
      BY <1>10
    <3> QED
      BY <1>3, <1>4, <1>11, <3>1, <3>2, <3>3, <3>4
  <2>4. ASSUME NEW n \in Linked', n # TAIL, NEW m \in Linked'
        PROVE  key'[m] <= key'[n] \/ key'[m] >= key'[next'[n]]
    <3>1. CASE n = new
      <4>1. CASE m = new
        BY <1>3, <1>5, <3>1, <4>1
      <4>2. CASE m \in Linked
        BY <1>3, <1>4, <1>5, <1>10, <1>11, <3>1, <4>2
      <4> QED
        BY <1>8, <4>1, <4>2
    <3>2. CASE n = p
      <4>1. CASE m = new
        BY <1>3, <1>5, <3>2, <4>1
      <4>2. CASE m \in Linked
        <5>1. key[m] \in Int /\ key[p] \in Int /\ key[c] \in Int /\ v \in Int
          BY <1>3, <1>11, <4>2
        <5>2. key[m] <= key[p] \/ key[m] >= v
          BY <1>4, <1>10, <4>2, <5>1
        <5>3. key'[m] = key[m] /\ key'[n] = key[p] /\ key'[next'[n]] = v
          BY <1>3, <1>5, <1>11, <3>2, <4>2
        <5> QED
          BY <5>2, <5>3
      <4> QED
        BY <1>8, <4>1, <4>2
    <3>3. CASE n \in Linked /\ n # p
      <4>1. next'[n] = next[n] /\ key'[n] = key[n] /\ key'[next[n]] = key[next[n]]
        BY <1>5, <1>11, <2>3, <2>4, <3>3
      <4>2. CASE m = new
        BY <1>5, <2>3, <2>4, <3>3, <4>1, <4>2
      <4>3. CASE m \in Linked
        BY <1>5, <1>11, <2>3, <2>4, <3>3, <4>1, <4>3
      <4> QED
        BY <1>8, <4>2, <4>3
    <3> QED
      BY <1>8, <3>1, <3>2, <3>3
  <2>5. ASSUME NEW m \in Linked', NEW n \in Linked', key'[m] = key'[n]
        PROVE  m = n
    <3>1. \A k \in Linked : key'[k] = key[k]
      BY <1>5, <1>11
    <3>2. CASE m \in Linked /\ n \in Linked
      BY <2>5, <3>1, <3>2 DEF IInv, ListShape
    <3> QED
      BY <1>5, <1>8, <1>11, <2>5, <3>1, <3>2
  <2> HIDE DEF p, c, v, new
  <2> QED
    BY <2>1, <2>2, <2>4, <2>5 DEF ListShape
<1>14. HEAD \in 1 .. top /\ TAIL \in 1 .. top
  BY Sentinels
<1>15. NodeFacts'
  <2>1. \A n \in 3 .. top' : key'[n] \in Keys
    <3>1. \A n \in 3 .. top : n \in 1 .. top /\ key[n] \in Keys
      BY <1>3 DEF IInv, NodeFacts
    <3> HIDE DEF p, c, v, new
    <3> QED
      BY <1>2, <1>5, <1>6, <3>1
  <2>2. \A n \in Nodes : n > top' => n > top
    BY <1>1, <1>3 DEF Nodes
  <2> HIDE DEF p, c, v, new
  <2>3. key'[HEAD] = INT_MIN /\ key'[TAIL] = INT_MAX
    BY <1>5, <1>14 DEF IInv, NodeFacts
  <2> QED
    BY <1>1, <2>1, <2>2, <2>3 DEF IInv, NodeFacts
<1>16. LocksProtect'
  <2>1. ASSUME NEW u \in Threads, pc'[u] = "unlink"
        PROVE  u # t /\ pc[u] = "unlink" /\ next'[prev[u]] = next[prev[u]]
    <3>1. u # t /\ pc[u] = "unlink"
      BY <1>9, <2>1
    <3>2. lock[prev[u]] = u /\ prev[u] \in 1 .. top
      BY <3>1, Types DEF IInv, LocksProtect, HoldsLocks
    <3>3. prev[u] # p
      BY <1>2, <3>1, <3>2
    <3> QED
      BY <1>5, <3>1, <3>2, <3>3
  <2>2. \A u \in Threads :
          /\ pc'[u] \in {"validate", "unlink", "unlockCurr"} => lock[curr[u]] = u
          /\ pc'[u] \in {"lock", "validate", "unlink", "unlockCurr", "unlockPrev"} => lock[prev[u]] = u
    BY <1>2, <1>9 DEF IInv, LocksProtect, HoldsLocks
  <2> HIDE DEF p, c, v, new
  <2> QED
    BY <1>1, <2>1, <2>2 DEF IInv, LocksProtect, HoldsLocks
<1>17. ContainsLinearizable'
  <2>1. ASSUME NEW u \in Threads, pc[u] = "return", op[u] = "contains"
        PROVE  IF ret[u] THEN present'[u] ELSE absent'[u]
    BY <1>1, <2>1, ObserveFacts DEF IInv, ContainsLinearizable
  <2> HIDE DEF p, c, v, new
  <2> QED
    BY <1>1, <1>9, <2>1 DEF ContainsLinearizable
<1>18. CallFacts'
  <2>1. \A u \in Threads : key'[prev[u]] = key[prev[u]] /\ key'[curr[u]] = key[curr[u]]
    BY <1>5, Types
  <2>2. v \in Keys /\ key[p] < v /\ key[c] >= v
    <3>1. key[c] \in Int /\ v \in Int
      BY <1>3
    <3> HIDE DEF p, c, v, new
    <3> QED
      BY <1>2, <1>4, <3>1
  <2>3. ASSUME NEW u \in Threads, u # t
        PROVE  /\ pc'[u] # "idle" => inValue[u] \in Keys
               /\ pc'[u] \in Active => key'[prev[u]] < inValue[u]
               /\ pc'[u] \in Locking => key'[curr[u]] >= inValue[u] /\ op[u] # "contains"
               /\ pc'[u] = "unlink" => ret'[u] = TRUE /\ op[u] = "remove"
               /\ pc'[u] = "return" => ret'[u] # NULL
    BY <1>9, <2>1, <2>3 DEF IInv, CallFacts
  <2>4. /\ inValue[t] \in Keys
        /\ key'[prev[t]] < inValue[t]
        /\ key'[curr[t]] >= inValue[t] /\ op[t] # "contains"
        /\ pc'[t] # "unlink" /\ pc'[t] # "return"
    BY <1>1, <1>9, <2>1, <2>2
  <2>5. UNCHANGED <<inValue, op, prev, curr>>
    BY <1>1
  <2> HIDE DEF p, c, v, new
  <2> QED
    BY <2>3, <2>4, <2>5, Zenon DEF CallFacts
<1>19. MarkedFacts'
  <2>1. ~ marked[new]
    BY <1>1, <1>3 DEF IInv, NodeFacts
  <2> HIDE DEF p, c, v, new
  <2> QED
    BY <1>1, <1>6, <1>9, <2>1 DEF IInv, MarkedFacts
<1>20. HistoryFacts'
  <2> HIDE DEF p, c, v, new
  <2> QED
    BY <1>1, <1>9, ObserveFacts DEF HistoryFacts
<1>21. PathFacts'
  <2>1. ASSUME NEW u \in Threads, pc'[u] # "idle", ~ absent'[u],
               NEW n \in 1 .. top' \ stale[u], key'[n] < inValue[u]
        PROVE  /\ next'[n] \notin stale[u]
               /\ key'[next'[n]] <= inValue[u]
               /\ key'[next'[n]] = inValue[u] => ~ marked[next'[n]]
    <3>1. pc[u] # "idle" /\ ~ absent[u]
      BY <1>1, <1>9, <2>1, ObserveFacts
    <3>2. inValue[u] \in Members
      BY <3>1 DEF IInv, HistoryFacts
    <3>3. inValue[u] \in Keys /\ inValue[u] \in Int
      BY <3>1, Types DEF IInv, CallFacts
    <3>4. stale[u] \subseteq unlinked
      BY DEF IInv, TypeOK
    <3>5. \A k \in Linked : key[k] < inValue[u] => key[next[k]] <= inValue[u]
      BY <3>2, LinkedPath
    <3>6. key[p] < inValue[u] => key[c] <= inValue[u] /\ (key[c] = inValue[u] => ~ marked[c])
      BY <1>2, <3>5
    <3>7. CASE n = new
      <4>1. key[p] < inValue[u]
        BY <1>3, <1>4, <1>5, <2>1, <3>3, <3>7
      <4> QED
        BY <1>2, <1>5, <1>3, <3>4, <3>6, <3>7, <4>1 DEF Linked
    <3>8. CASE n = p
      <4>1. key[c] <= inValue[u]
        BY <1>3, <1>5, <2>1, <3>6, <3>8
      <4>2. v < inValue[u]
        BY <1>3, <1>4, <3>3, <4>1
      <4> QED
        BY <1>5, <1>7, <3>4, <3>8, <4>2, <1>3, <3>3
    <3>9. CASE n \in 1 .. top /\ n # p
      <4>1. key[n] < inValue[u] /\ next'[n] = next[n]
        BY <1>5, <2>1, <3>9
      <4>2. n # TAIL
        BY <3>3, <3>9, <4>1, <1>3, Sentinels, BoundsAssumption DEF IInv, NodeFacts
      <4>3. next[n] \in 1 .. top
        BY <1>3, <3>9, <4>2 DEF IInv, ListShape
      <4>4. key'[next[n]] = key[next[n]]
        BY <1>5, <4>3
      <4> QED
        BY <2>1, <3>1, <3>9, <4>1, <4>4 DEF IInv, PathFacts
    <3> QED
      BY <1>6, <2>1, <3>7, <3>8, <3>9
  <2> HIDE DEF p, c, v, new
  <2> QED
    BY <1>1, <2>1 DEF PathFacts
<1>22. ReaderFacts'
  <2>1. \A u \in Threads : key'[curr[u]] = key[curr[u]]
    BY <1>5, Types
  <2>2. \A u \in Threads : absent[u] => absent'[u]
    BY <1>1, ObserveFacts
  <2> HIDE DEF p, c, v, new
  <2> QED
    BY <1>1, <1>9, <2>1, <2>2, SMTT(30) DEF IInv, ReaderFacts
<1> QED
  BY <1>12, <1>13, <1>15, <1>16, <1>17, <1>18, <1>19, <1>20, <1>21, <1>22 DEF IInv

-----------------------------------------------------------------------------
(* The theorems.                                                           *)

\* Every step keeps the inductive invariant.
LEMMA IInvStep == IInv /\ [Next]_vars => IInv'
<1> SUFFICES ASSUME IInv, [Next]_vars PROVE IInv'
  OBVIOUS
<1>1. CASE UNCHANGED vars
  <2>1. Members' = Members /\ Linked' = Linked
    BY <1>1 DEF vars, heap, Members, Linked
  <2>2. TypeOK'
    BY <1>1 DEF vars, heap, request, history, IInv, TypeOK
  <2>3. ListShape' /\ NodeFacts'
    BY <1>1, <2>1 DEF vars, heap, IInv, ListShape, NodeFacts
  <2>4. LocksProtect' /\ ContainsLinearizable'
    BY <1>1 DEF vars, heap, request, history, IInv, LocksProtect, HoldsLocks, ContainsLinearizable
  <2>5. (CallFacts /\ MarkedFacts /\ HistoryFacts /\ PathFacts /\ ReaderFacts)'
    BY <1>1, <2>1 DEF vars, heap, request, history, IInv, CallFacts, MarkedFacts, HistoryFacts,
                      PathFacts, ReaderFacts
  <2> QED
    BY <2>2, <2>3, <2>4, <2>5 DEF IInv
<1>2. ASSUME NEW t \in Threads, Step(t)
      PROVE  IInv'
  BY <1>2, BeginKeeps, WalkKeeps, LookKeeps, LockPrevKeeps, LockCurrKeeps, RetryKeeps,
     NoChangeKeeps, LinkKeeps, MarkKeeps, UnlinkKeeps, UnlockCurrKeeps, UnlockPrevKeeps,
     ReturnKeeps DEF Step
<1> QED
  BY <1>1, <1>2, CallKeeps DEF Next

LEMMA InvariantIInv == SafeSpec => []IInv
  BY IInvInit, IInvStep, PTL DEF SafeSpec

\* TypeOK holds in every reachable state: prev_node and curr_node are always nodes
\* that have been made.
THEOREM TypeCorrect == SafeSpec => []TypeOK
<1>1. IInv => TypeOK
  BY DEF IInv
<1> QED
  BY <1>1, InvariantIInv, PTL

\* ListShape holds in every reachable state: however parallelAdd and parallelDelete
\* interleave, the linked nodes form one sorted list without duplicates.
THEOREM ShapeHolds == SafeSpec => []ListShape
<1>1. IInv => ListShape
  BY DEF IInv
<1> QED
  BY <1>1, InvariantIInv, PTL

\* LocksProtect holds in every reachable state: a thread past its validation holds
\* both locks, and a node that is being unlinked still follows its predecessor.
THEOREM LocksHold == SafeSpec => []LocksProtect
<1>1. IInv => LocksProtect
  BY DEF IInv
<1> QED
  BY <1>1, InvariantIInv, PTL

\* ContainsLinearizable holds in every reachable state: parallelContain, which takes
\* no lock, never gives an answer that was wrong during the whole call.
THEOREM ContainsCorrect == SafeSpec => []ContainsLinearizable
<1>1. IInv => ContainsLinearizable
  BY DEF IInv
<1> QED
  BY <1>1, InvariantIInv, PTL
=============================================================================
