------------------------- MODULE LazyListRefinement -------------------------
(***************************************************************************)
(* parallelAdd and parallelDelete implement the abstract set: the proof that*)
(* LazyList refines AtomicSet.                                             *)
(***************************************************************************)
EXTENDS LazyListProofs, FiniteSetTheorems, TLAPS

-----------------------------------------------------------------------------
(* The updates implement the abstract set.                                 *)

\* The set never has more keys than nodes have been made.
LEMMA MembersSize ==
  ASSUME IInv
  PROVE  Cardinality(Members) \in Nat /\ Cardinality(Members) <= top
<1> DEFINE U == {m \in 3 .. top : ~ marked[m]}
           f == [m \in U |-> key[m]]
<1>1. top \in Int /\ top >= 2
  BY NodesAssumption DEF IInv, TypeOK
<1>2. IsFiniteSet(1 .. top) /\ Cardinality(1 .. top) = top
  BY <1>1, FS_Interval
<1>3. U \in SUBSET (1 .. top)
  BY <1>1
<1>4. IsFiniteSet(U) /\ Cardinality(U) <= top /\ Cardinality(U) \in Nat
  <2> HIDE DEF U
  <2> QED
    BY <1>2, <1>3, FS_Subset, FS_CardinalityType
<1>5. f \in [U -> Members] /\ \A k \in Members : \E m \in U : f[m] = k
  BY DEF Members
<1> HIDE DEF U, f
<1>6. f \in Surjection(U, Members)
  BY <1>5 DEF Surjection
<1>7. IsFiniteSet(Members) /\ Cardinality(Members) <= Cardinality(U)
  BY <1>4, <1>6, FS_Surjection
<1>8. Cardinality(Members) \in Nat
  BY <1>7, FS_CardinalityType
<1> QED
  BY <1>1, <1>4, <1>7, <1>8

\* A step that neither changes the members nor what a thread has been told.
LEMMA Stutters ==
  ASSUME Members' = Members, \A u \in Threads : AbstractReq(u)' = AbstractReq(u)
  PROVE  UNCHANGED KeySet!vars
BY DEF KeySet!vars, Members

\* What a validated update answers.
LEMMA Answers ==
  ASSUME IInv, NEW t \in Threads, pc[t] = "validate", op[t] # "contains",
         pc'[t] \in {"unlink", "unlockCurr"}, ret'[t] # NULL,
         \A u \in Threads : u # t => pc'[u] = pc[u] /\ ret'[u] = ret[u],
         op' = op, inValue' = inValue,
         NEW o, NEW k, NEW res, o = op[t], k = inValue[t], res = ret'[t]
  PROVE  KeySet!Answer(t, o, k, res)
BY DEF KeySet!Answer, AbstractReq

\* The key of a validated update is in the list exactly when the second node has it.
LEMMA ValidatedKey ==
  ASSUME IInv, NEW t \in Threads, pc[t] = "validate", Valid(t)
  PROVE  inValue[t] \in Members <=> key[curr[t]] = inValue[t]
<1>1. /\ prev[t] \in Linked /\ curr[t] \in Linked /\ prev[t] # TAIL /\ next[prev[t]] = curr[t]
      /\ ~ marked[curr[t]] /\ key[prev[t]] < inValue[t] /\ inValue[t] <= key[curr[t]]
      /\ inValue[t] \in Keys
  BY Neighbours
<1>2. ASSUME key[curr[t]] = inValue[t]
      PROVE  inValue[t] \in Members
  <2>1. curr[t] \in 3 .. top
    BY <1>1, <1>2, Types, Sentinels
  <2> QED
    BY <1>1, <1>2, <2>1, MembersDef
<1>3. ASSUME inValue[t] \in Members
      PROVE  key[curr[t]] = inValue[t]
  <2>1. key[next[prev[t]]] <= inValue[t]
    BY <1>1, <1>3, LinkedPath
  <2> QED
    BY <1>1, <2>1, Types
<1> QED
  BY <1>2, <1>3

\* Each step is a step of the abstract set or leaves its state unchanged.
LEMMA StepRefines ==
  ASSUME IInv, IInv', [Next]_vars
  PROVE  [KeySet!Next]_(KeySet!vars)
<1>1. CASE UNCHANGED vars
  BY <1>1, Stutters DEF vars, heap, request, history, Members, AbstractReq
<1>2. ASSUME NEW t \in Threads, NEW o \in Ops, NEW k \in Keys, Call(t, o, k)
      PROVE  [KeySet!Next]_(KeySet!vars)
  <2>1. Members' = Members
    BY <1>2 DEF Call, heap, Members
  <2>2. /\ pc[t] = "idle" /\ pc'[t] = "begin" /\ op'[t] = o /\ inValue'[t] = k
        /\ ret' = ret
        /\ \A u \in Threads : u # t => pc'[u] = pc[u] /\ op'[u] = op[u] /\ inValue'[u] = inValue[u]
    BY <1>2 DEF Call, Goto, IInv, TypeOK
  <2>3. CASE o = "contains"
    <3>1. \A u \in Threads : AbstractReq(u)' = AbstractReq(u)
      BY <2>2, <2>3 DEF AbstractReq
    <3> QED
      BY <2>1, <3>1, Stutters
  <2>4. CASE o # "contains"
    <3>1. KeySet!Call(t, o, k)
      BY <2>1, <2>2, <2>4 DEF KeySet!Call, AbstractReq, Members
    <3> QED
      BY <3>1 DEF KeySet!Next, Ops, KeySet!Ops
  <2> QED
    BY <2>3, <2>4
<1>3. ASSUME NEW t \in Threads,
             Begin(t) \/ Walk(t) \/ Look(t) \/ LockPrev(t) \/ LockCurr(t) \/ Retry(t)
             \/ UnlockCurr(t) \/ UnlockPrev(t) \/ Unlink(t)
      PROVE  UNCHANGED KeySet!vars
  <2>1. Members' = Members /\ op' = op /\ inValue' = inValue
    BY <1>3 DEF Begin, Walk, Look, LockPrev, LockCurr, Retry, UnlockCurr, UnlockPrev, Unlink,
                heap, request, Members
  <2>2. \A u \in Threads : u # t => pc'[u] = pc[u] /\ ret'[u] = ret[u]
    BY <1>3 DEF Begin, Walk, Look, LockPrev, LockCurr, Retry, UnlockCurr, UnlockPrev, Unlink,
                Goto, IInv, TypeOK
  <2>3. AbstractReq(t)' = AbstractReq(t)
    <3>1. CASE Begin(t) \/ Walk(t) \/ LockPrev(t) \/ LockCurr(t)
      BY <2>1, <3>1 DEF Begin, Walk, LockPrev, LockCurr, Found, Goto, IInv, TypeOK, AbstractReq
    <3>2. CASE Look(t)
      BY <2>1, <3>2 DEF Look, Found, AbstractReq
    <3>3. CASE Retry(t)
      BY <2>1, <3>3 DEF Retry, Goto, IInv, TypeOK, AbstractReq
    <3>4. CASE UnlockCurr(t) \/ UnlockPrev(t)
      BY <2>1, <3>4 DEF UnlockCurr, UnlockPrev, Goto, IInv, TypeOK, AbstractReq
    <3>5. CASE Unlink(t)
      BY <2>1, <3>5 DEF Unlink, Goto, IInv, TypeOK, AbstractReq
    <3> QED
      BY <1>3, <3>1, <3>2, <3>3, <3>4, <3>5
  <2>4. \A u \in Threads : AbstractReq(u)' = AbstractReq(u)
    BY <2>1, <2>2, <2>3 DEF AbstractReq
  <2> QED
    BY <2>1, <2>4, Stutters
<1>4. ASSUME NEW t \in Threads, Return(t)
      PROVE  [KeySet!Next]_(KeySet!vars)
  <2>1. Members' = Members
    BY <1>4 DEF Return, heap, Members
  <2>2. /\ pc[t] = "return" /\ pc'[t] = "idle"
        /\ \A u \in Threads : u # t => pc'[u] = pc[u] /\ op'[u] = op[u]
                                       /\ inValue'[u] = inValue[u] /\ ret'[u] = ret[u]
    BY <1>4 DEF Return, Goto, IInv, TypeOK
  <2>3. CASE op[t] = "contains"
    <3>1. \A u \in Threads : AbstractReq(u)' = AbstractReq(u)
      BY <2>2, <2>3 DEF AbstractReq
    <3> QED
      BY <2>1, <3>1, Stutters
  <2>4. CASE op[t] # "contains"
    <3>1. op[t] \in KeySet!Ops /\ inValue[t] \in Keys /\ ret[t] \in BOOLEAN /\ ret[t] # NULL
      BY <2>2 DEF IInv, TypeOK, CallFacts, Ops, KeySet!Ops
    <3>2. AbstractReq(t) = <<op[t], inValue[t], ret[t]>>
      BY <2>2, <2>4, <3>1 DEF AbstractReq
    <3>3. PICK o \in KeySet!Ops, k \in Keys, res \in BOOLEAN : AbstractReq(t) = <<o, k, res>>
      BY <3>1, <3>2, Zenon
    <3>4. KeySet!Return(t)
      BY <2>1, <2>2, <3>3 DEF KeySet!Return, AbstractReq, Members
    <3> QED
      BY <3>4 DEF KeySet!Next
  <2> QED
    BY <2>3, <2>4
<1>5. ASSUME NEW t \in Threads, NoChange(t) \/ Link(t) \/ Mark(t)
      PROVE  KeySet!Next
  <2>1. /\ pc[t] = "validate" /\ Valid(t) /\ op' = op /\ inValue' = inValue
        /\ pc'[t] \in {"unlink", "unlockCurr"}
        /\ \A u \in Threads : u # t => pc'[u] = pc[u] /\ ret'[u] = ret[u]
    BY <1>5 DEF NoChange, Link, Mark, request, Goto, IInv, TypeOK
  <2>2. op[t] # "contains" /\ op[t] \in Ops
    BY <2>1, Neighbours DEF IInv, TypeOK
  <2>3. PICK k \in Keys : k = inValue[t]
    BY <2>1, Neighbours
  <2>4. k \in Members <=> key[curr[t]] = k
    BY <2>1, <2>3, ValidatedKey
  <2>5. KeySet!Cardinality(Members) = Cardinality(Members)
    BY DEF KeySet!Cardinality, Cardinality
  <2>6. TRUE # NULL /\ FALSE # NULL
    BY NullAssumption
  <2>7. ASSUME ret'[t] = TRUE
        PROVE  KeySet!Answer(t, op[t], k, TRUE)
    BY <2>1, <2>2, <2>3, <2>6, <2>7, Answers
  <2>8. ASSUME ret'[t] = FALSE
        PROVE  KeySet!Answer(t, op[t], k, FALSE)
    BY <2>1, <2>2, <2>3, <2>6, <2>8, Answers
  <2>9. CASE NoChange(t)
    <3>1. Members' = Members /\ ret'[t] = FALSE
      BY <2>9 DEF NoChange, heap, Members, IInv, TypeOK
    <3>2. CASE op[t] = "add"
      <4>1. k \in Members
        BY <2>3, <2>4, <2>9, <3>2 DEF NoChange
      <4>2. KeySet!Answer(t, "add", k, FALSE)
        BY <2>8, <3>1, <3>2
      <4>3. KeySet!Add(t, k)
        BY <3>1, <4>1, <4>2, Zenon DEF KeySet!Add, Members
      <4> QED
        BY <4>3 DEF KeySet!Next
    <3>3. CASE op[t] = "remove"
      <4>1. k \notin Members
        BY <2>3, <2>4, <2>9, <3>3 DEF NoChange
      <4>2. Members' = Members \ {k} /\ (k \in Members) = FALSE
        BY <3>1, <4>1
      <4>3. KeySet!Answer(t, "remove", k, FALSE)
        BY <2>8, <3>1, <3>3
      <4>4. KeySet!Answer(t, "remove", k, k \in Members)
        BY <4>2, <4>3
      <4>5. KeySet!Remove(t, k)
        BY <4>2, <4>4, Zenon DEF KeySet!Remove, Members
      <4> QED
        BY <4>5 DEF KeySet!Next
    <3> QED
      BY <2>2, <3>2, <3>3 DEF Ops
  <2>10. CASE Link(t)
    <3>1. k \notin Members /\ op[t] = "add" /\ ret'[t] = TRUE
      BY <2>3, <2>4, <2>10 DEF Link, IInv, TypeOK
    <3>2. Cardinality(Members) < MaxNodes
      <4>1. top + 1 <= MaxNodes /\ top \in Int /\ MaxNodes \in Int
        BY <2>10, NodesAssumption DEF Link, Nodes, IInv, TypeOK
      <4> QED
        BY <4>1, MembersSize
    <3>3. Members' = Members \cup {k}
      <4>1. top \in Int /\ top >= 2 /\ top + 1 \in Nodes /\ top' = top + 1 /\ marked' = marked
        BY <2>10, NodesAssumption DEF Link, IInv, TypeOK
      <4>2. key'[top + 1] = k /\ \A n \in 3 .. top : key'[n] = key[n]
        BY <2>3, <2>10, <4>1 DEF Link, IInv, TypeOK
      <4>3. ~ marked[top + 1]
        BY <4>1 DEF IInv, NodeFacts
      <4>4. 3 .. top' = 3 .. top \cup {top + 1}
        BY <4>1
      <4> QED
        BY <4>1, <4>2, <4>3, <4>4 DEF Members
    <3>4. KeySet!Answer(t, "add", k, TRUE)
      BY <2>7, <3>1
    <3>5. KeySet!Add(t, k)
      <4>1. KeySet!Cardinality(Members) < MaxNodes
        BY <2>5, <3>2
      <4> QED
        BY <3>1, <3>3, <3>4, <4>1, Zenon DEF KeySet!Add, Members
    <3> QED
      BY <3>5 DEF KeySet!Next
  <2>11. CASE Mark(t)
    <3>1. op[t] = "remove" /\ ret'[t] = TRUE /\ key[curr[t]] = k
      BY <2>3, <2>11 DEF Mark, IInv, TypeOK
    <3>2. (k \in Members) = TRUE
      BY <2>4, <3>1
    <3>3. Members' = Members \ {k}
      <4>1. top' = top /\ key' = key /\ marked' = [marked EXCEPT ![curr[t]] = TRUE]
        BY <2>11 DEF Mark
      <4>2. curr[t] \in Linked /\ curr[t] \in Nodes
        BY <2>1, Neighbours, Types
      <4>3. marked'[curr[t]] /\ \A n \in Nodes : n # curr[t] => marked'[n] = marked[n]
        BY <4>1, <4>2 DEF IInv, TypeOK
      <4>4. \A n \in 3 .. top : n \in 1 .. top /\ n \in Nodes
        BY Types
      <4>5. \A n \in 3 .. top : ~ marked[n] /\ key[n] = k => n = curr[t]
        BY <3>1, <4>2, <4>4, Sentinels DEF IInv, ListShape
      <4>6. \A n \in 3 .. top : ~ marked'[n] <=> ~ marked[n] /\ key[n] # k
        BY <3>1, <4>3, <4>4, <4>5
      <4> QED
        BY <4>1, <4>6 DEF Members
    <3>4. KeySet!Answer(t, "remove", k, TRUE)
      BY <2>7, <3>1
    <3>5. KeySet!Answer(t, "remove", k, k \in Members)
      BY <3>2, <3>4
    <3>6. KeySet!Remove(t, k)
      BY <3>3, <3>5, Zenon DEF KeySet!Remove, Members
    <3> QED
      BY <3>6 DEF KeySet!Next
  <2> QED
    BY <1>5, <2>9, <2>10, <2>11
<1>6. ASSUME NEW t \in Threads, Step(t)
      PROVE  [KeySet!Next]_(KeySet!vars)
  BY <1>3, <1>4, <1>5, <1>6 DEF Step
<1> QED
  BY <1>1, <1>2, <1>6 DEF Next

\* ImplementsSet holds: parallelAdd and parallelDelete, with their searches without
\* locks and their retries, are operations of an atomic set.
THEOREM UpdatesImplementSet == SafeSpec => ImplementsSet
<1>1. Init => KeySet!Init
  BY DEF Init, KeySet!Init, AbstractReq, Members
<1>2. IInv /\ IInv' /\ [Next]_vars => [KeySet!Next]_(KeySet!vars)
  BY StepRefines
<1> QED
  BY <1>1, <1>2, InvariantIInv, PTL DEF SafeSpec, ImplementsSet, KeySet!Spec
=============================================================================
