------------------------- MODULE PimListKernelProofs -------------------------
(***************************************************************************)
(* The list kernel keeps its list and its memory in order and implements   *)
(* an atomic set, for every number of blocks and every set of keys that    *)
(* excludes the key 0 of the head sentinel.                                *)
(*                                                                         *)
(* ListShape is not inductive: that a block linked between pred and curr   *)
(* keeps the list sorted rests on what the search knows of pred and curr,  *)
(* and that a popped block was not in the list on BlocksConserved.  IInv   *)
(* adds both, and the keys of the sentinels.                               *)
(***************************************************************************)
EXTENDS PimListKernel, FiniteSetTheorems, SequenceTheorems, TLAPS

Sentinels ==
  phase # "boot" => /\ word0[HEAD] = 0 /\ word0[TAIL] = UINT32_MAX
                    /\ \A n \in linked : word0[n] \in Keys

\* What is known of the local pointers during a search.
SearchPosition ==
  phase = "search" =>
    /\ key \in Keys
    /\ \/ op = "contains" /\ curr = HEAD
       \/ /\ pred \in linked \cup {HEAD}
          /\ curr = word1[pred]
          /\ word0[pred] < key

Boot == phase = "boot" => linked = {} /\ freeBlocks = <<>>

IInv ==
  /\ TypeOK /\ ListShape /\ BlocksConserved
  /\ Sentinels /\ SearchPosition /\ Boot
  /\ phase = "return" => key \in Keys

-----------------------------------------------------------------------------
LEMMA InitIInv == Init => IInv
<1> USE NumBlocksAssumption, MaxAssumption
<1> SUFFICES ASSUME Init PROVE IInv
  OBVIOUS
<1>1. TypeOK
  BY DEF Init, TypeOK, Nodes, Ops, TAIL
<1> QED
  BY <1>1 DEF Init, IInv, ListShape, BlocksConserved, Sentinels, SearchPosition, Boot

\* list_init builds an empty list and a free stack of all the blocks.
LEMMA ListInitIInv ==
  ASSUME IInv, ListInit
  PROVE  IInv'
<1> USE NumBlocksAssumption, MaxAssumption
<1>0. /\ Blocks \subseteq Nodes /\ HEAD \in Nodes /\ TAIL \in Nodes
      /\ HEAD \notin Blocks /\ TAIL \notin Blocks /\ HEAD # TAIL
  BY DEF Blocks, Nodes, HEAD, TAIL
<1>1. TypeOK'
  <2>1. freeBlocks' \in Seq(Blocks)
    <3>1. freeBlocks' \in [1 .. NumBlocks -> Blocks]
      BY DEF ListInit, Blocks
    <3> QED
      BY <3>1, SeqDef
  <2>2. word0' \in [Nodes -> Nat]
    <3>1. \A n \in Blocks : n - 1 \in Nat
      BY DEF Blocks
    <3> QED
      BY <3>1 DEF ListInit
  <2>3. word1' \in [Nodes -> 0 .. TAIL]
    <3>1. TAIL \in 0 .. TAIL /\ 0 \in 0 .. TAIL
      BY DEF TAIL
    <3> QED
      BY <3>1, <1>0, Zenon DEF IInv, TypeOK, ListInit
  <2> QED
    BY <2>1, <2>2, <2>3 DEF IInv, TypeOK, ListInit, request
<1>2. word0'[HEAD] = 0 /\ word0'[TAIL] = UINT32_MAX /\ word1'[HEAD] = TAIL /\ linked' = {}
  BY <1>0 DEF IInv, Boot, TypeOK, ListInit
<1>3. ListShape' /\ Sentinels'
  BY <1>2 DEF ListShape, Sentinels
<1>4. BlocksConserved'
  <2>1. Len(freeBlocks') = NumBlocks /\ \A i \in 1 .. NumBlocks : freeBlocks'[i] = i
    BY DEF ListInit
  <2>2. \A i \in 1 .. NumBlocks : word0'[i] = i - 1
    BY <1>0 DEF ListInit, Blocks
  <2>3. freeBlocks' = <<>> <=> NumBlocks = 0
    BY <2>1, <1>1 DEF TypeOK
  <2> DEFINE L == Len(freeBlocks')
  <2>4. L = NumBlocks /\ freeHead' = NumBlocks /\ linked' = {}
    BY <2>1, <1>2 DEF ListInit
  <2> HIDE DEF L
  <2>5. freeHead' = IF freeBlocks' = <<>> THEN 0 ELSE freeBlocks'[L]
    BY <2>1, <2>3, <2>4
  <2>6. \A i \in 1 .. L : word0'[freeBlocks'[i]] = IF i = 1 THEN 0 ELSE freeBlocks'[i - 1]
    <3> SUFFICES ASSUME NEW i \in 1 .. NumBlocks
                 PROVE  word0'[freeBlocks'[i]] = IF i = 1 THEN 0 ELSE freeBlocks'[i - 1]
      BY <2>4
    <3>1. freeBlocks'[i] = i /\ word0'[i] = i - 1
      BY <2>1, <2>2
    <3>2. i # 1 => freeBlocks'[i - 1] = i - 1
      BY <2>1
    <3> QED
      BY <3>1, <3>2
  <2>7. \A i, j \in 1 .. L : freeBlocks'[i] = freeBlocks'[j] => i = j
    BY <2>1, <2>4
  <2>8. \A b \in Blocks :
          (b \in linked') <=> ~ \E i \in 1 .. L : freeBlocks'[i] = b
    BY <2>1, <2>4 DEF Blocks
  <2> QED
    BY <2>5, <2>6, <2>7, <2>8 DEF BlocksConserved, L
<1> QED
  BY <1>1, <1>3, <1>4 DEF IInv, ListInit, SearchPosition, Boot

\* The facts about addresses and keys that the list operations use.
LEMMA Geometry ==
  ASSUME IInv, phase # "boot", 0 \notin Keys
  PROVE  /\ linked \subseteq Nodes /\ HEAD \in Nodes /\ TAIL \in Nodes
         /\ HEAD \notin linked /\ TAIL \notin linked /\ HEAD # TAIL
         /\ \A n \in Nodes : word0[n] \in Nat
         /\ \A n \in linked : word0[n] > 0 /\ word0[n] < UINT32_MAX
<1>1. linked \subseteq Blocks /\ \A n \in Nodes : word0[n] \in Nat
  BY DEF IInv, TypeOK
<1>2. \A n \in linked : word0[n] > 0 /\ word0[n] < UINT32_MAX
  <2>1. \A n \in linked : word0[n] \in Keys
    BY DEF IInv, Sentinels
  <2>2. \A k \in Keys : k > 0 /\ k < UINT32_MAX
    BY KeysAssumption, MaxAssumption
  <2> QED
    BY <2>1, <2>2
<1>3. /\ Blocks \subseteq Nodes /\ HEAD \in Nodes /\ TAIL \in Nodes
      /\ HEAD \notin Blocks /\ TAIL \notin Blocks /\ HEAD # TAIL
  BY NumBlocksAssumption DEF Blocks, Nodes, HEAD, TAIL
<1> QED
  BY <1>1, <1>2, <1>3

\* Where a search that is over stands: between two neighbours of the list.
LEMMA FoundPosition ==
  ASSUME IInv, Found, 0 \notin Keys
  PROVE  /\ key \in Keys /\ key > 0 /\ key < UINT32_MAX
         /\ curr \in linked \cup {TAIL}
         /\ pred \in linked \cup {HEAD} /\ curr = word1[pred]
         /\ word0[pred] < key /\ word0[curr] >= key
         /\ (\E n \in linked : word0[n] = key) <=> word0[curr] = key
         /\ word0[curr] = key => curr \in linked
<1> USE KeysAssumption, MaxAssumption
<1>0. phase # "boot" /\ phase = "search" /\ word0[curr] >= key
  BY DEF Found
<1>1. key \in Keys /\ key > 0 /\ key < UINT32_MAX
  <2>1. key \in Keys
    BY <1>0 DEF IInv, SearchPosition
  <2>2. key \in 0 .. UINT32_MAX - 1 /\ key # 0
    BY <2>1
  <2> QED
    BY <2>1, <2>2
<1>2. curr # HEAD
  BY <1>0, <1>1 DEF IInv, Sentinels
<1>3. pred \in linked \cup {HEAD} /\ curr = word1[pred] /\ word0[pred] < key
  BY <1>0, <1>2 DEF IInv, SearchPosition
<1>4. curr \in linked \cup {TAIL}
  BY <1>0, <1>3 DEF IInv, ListShape
<1>5. ASSUME NEW n \in linked, word0[n] = key PROVE word0[curr] = key
  <2>1. word0[n] <= word0[pred] \/ word0[n] >= word0[curr]
    BY <1>0, <1>3 DEF IInv, ListShape
  <2>2. word0[pred] \in Nat /\ word0[curr] \in Nat /\ key \in Nat
    BY <1>0, <1>1, <1>3, <1>4, Geometry
  <2> QED
    BY <1>0, <1>3, <1>5, <2>1, <2>2
<1>6. word0[curr] = key => curr \in linked
  BY <1>0, <1>1, <1>4 DEF IInv, Sentinels
<1> QED
  BY <1>0, <1>1, <1>3, <1>4, <1>5, <1>6

\* Starting a search and moving it on.
LEMMA StartIInv ==
  ASSUME IInv, 0 \notin Keys, NEW o \in Ops, NEW k \in Keys, Start(o, k)
  PROVE  IInv'
<1> USE KeysAssumption, MaxAssumption, NumBlocksAssumption
<1>0. phase # "boot"
  BY DEF Start
<1>1. TypeOK'
  <2>1. HEAD \in 0 .. TAIL /\ HEAD \in Nodes
    BY DEF HEAD, TAIL, Nodes
  <2> QED
    BY <2>1 DEF IInv, TypeOK, Start, memory
<1>2. SearchPosition'
  BY <1>0 DEF IInv, Sentinels, Start, SearchPosition, memory
<1> QED
  BY <1>0, <1>1, <1>2
  DEF IInv, Start, ListShape, BlocksConserved, Sentinels, Boot, memory

LEMMA AdvanceIInv ==
  ASSUME IInv, 0 \notin Keys, Advance
  PROVE  IInv'
<1> USE KeysAssumption, MaxAssumption, NumBlocksAssumption
<1>0. phase # "boot" /\ phase = "search"
  BY DEF Advance
<1>1. curr \in linked \cup {HEAD, TAIL}
  BY <1>0 DEF IInv, SearchPosition, ListShape
<1>2. curr # TAIL
  <2>1. key \in 0 .. UINT32_MAX - 1
    BY <1>0, Zenon DEF IInv, SearchPosition
  <2> QED
    BY <1>0, <2>1 DEF IInv, Sentinels, Advance
<1>3. TypeOK'
  <2>1. curr \in Nodes
    BY <1>0, <1>1, Geometry
  <2> QED
    BY <2>1 DEF IInv, TypeOK, Advance, memory, request
<1>4. SearchPosition'
  BY <1>0, <1>1, <1>2 DEF IInv, SearchPosition, Advance, memory, request
<1> QED
  BY <1>0, <1>3, <1>4
  DEF IInv, Advance, ListShape, BlocksConserved, Sentinels, Boot, memory, request

\* The operations that only report.
LEMMA ReportIInv ==
  ASSUME IInv, 0 \notin Keys, AddFails \/ RemoveFails \/ ContainsReturns
  PROVE  IInv'
<1>0. /\ Found /\ phase' = "return" /\ result' \in {0, 1}
      /\ UNCHANGED <<memory, request, pred, curr>>
  BY DEF AddFails, RemoveFails, ContainsReturns, Finish
<1>1. phase # "boot" /\ key \in Keys
  BY <1>0, FoundPosition DEF Found
<1> QED
  BY <1>0, <1>1
  DEF IInv, TypeOK, SearchPosition, ListShape, BlocksConserved, Sentinels, Boot, memory, request

LEMMA ReturnIInv ==
  ASSUME IInv, Return
  PROVE  IInv'
  BY DEF Return, IInv, TypeOK, SearchPosition, ListShape, BlocksConserved, Sentinels,
         Boot, memory, request

\* Popping the last element of a sequence.
LEMMA Pop ==
  ASSUME NEW S, NEW s \in Seq(S), s # <<>>
  PROVE  /\ Len(s) \in Nat /\ Len(s) > 0
         /\ SubSeq(s, 1, Len(s) - 1) \in Seq(S)
         /\ Len(SubSeq(s, 1, Len(s) - 1)) = Len(s) - 1
         /\ \A i \in 1 .. Len(s) - 1 : SubSeq(s, 1, Len(s) - 1)[i] = s[i]
<1>1. Len(s) \in Nat /\ Len(s) > 0
  BY EmptySeq
<1>2. SubSeq(s, 1, Len(s) - 1) \in Seq(S)
  BY <1>1
<1>3. Len(SubSeq(s, 1, Len(s) - 1)) = Len(s) - 1
  <2>1. CASE Len(s) = 1
    BY <2>1, SubSeqEmpty, EmptySeq
  <2>2. CASE Len(s) > 1
    BY <1>1, <2>2
  <2>3. Len(s) = 1 \/ Len(s) > 1
    <3> DEFINE n == Len(s)
    <3>1. n \in Nat /\ n > 0
      BY <1>1
    <3> HIDE DEF n
    <3>2. n = 1 \/ n > 1
      BY <3>1
    <3> QED
      BY <3>2 DEF n
  <2> QED
    BY <2>1, <2>2, <2>3, Zenon
<1>4. \A i \in 1 .. Len(s) - 1 : SubSeq(s, 1, Len(s) - 1)[i] = s[i]
  BY <1>1
<1> QED
  BY <1>1, <1>2, <1>3, <1>4

\* list_add pops a block that is not in the list and links it between pred and
\* curr.
LEMMA AddLinksIInv ==
  ASSUME IInv, 0 \notin Keys, AddLinks
  PROVE  IInv'
<1> USE KeysAssumption, MaxAssumption, NumBlocksAssumption
<1> DEFINE new == freeHead
           L   == Len(freeBlocks)
<1>0. /\ Found /\ phase # "boot" /\ phase' = "return" /\ key' = key /\ op' = op
      /\ pred' = pred /\ curr' = curr /\ result' = 1
      /\ word0[curr] # key /\ new # 0
  BY SMTT(30) DEF AddLinks, Found, Finish, request
<1>1. /\ L \in Nat /\ L > 0 /\ new = freeBlocks[L] /\ new \in Blocks /\ new \notin linked
      /\ word0[new] = IF L = 1 THEN 0 ELSE freeBlocks[L - 1]
      /\ \A i \in 1 .. L : freeBlocks[i] \in Blocks
  <2>1. L \in Nat /\ (\A i \in 1 .. L : freeBlocks[i] \in Blocks)
        /\ freeBlocks # <<>>
    BY <1>0 DEF IInv, TypeOK, BlocksConserved
  <2>2. L > 0
    <3>1. freeBlocks \in Seq(Blocks)
      BY DEF IInv, TypeOK
    <3> QED
      BY <2>1, <3>1, EmptySeq
  <2>3. L \in 1 .. L /\ new = freeBlocks[L]
    BY <2>1, <2>2, <1>0 DEF IInv, BlocksConserved
  <2> QED
    BY <2>1, <2>2, <2>3, <1>0, Zenon DEF IInv, BlocksConserved
<1>2. /\ linked \subseteq Nodes /\ HEAD \in Nodes /\ TAIL \in Nodes
      /\ HEAD \notin linked /\ TAIL \notin linked /\ HEAD # TAIL
      /\ \A n \in Nodes : word0[n] \in Nat
      /\ \A n \in linked : word0[n] > 0 /\ word0[n] < UINT32_MAX
  BY <1>0, Geometry
<1>3. new \in Nodes /\ new # HEAD /\ new # TAIL
  BY <1>1 DEF Blocks, Nodes, HEAD, TAIL
<1>4. /\ key \in Keys /\ key \in Nat /\ key > 0 /\ key < UINT32_MAX
      /\ curr \in linked \cup {TAIL} /\ pred \in linked \cup {HEAD}
      /\ curr = word1[pred] /\ word0[pred] < key /\ word0[curr] > key
      /\ \A n \in linked : word0[n] # key
  <2>1. key \in Nat
    BY DEF IInv, TypeOK
  <2> QED
    BY <1>0, <1>2, <2>1, FoundPosition
<1>5. /\ word0' \in [Nodes -> Nat] /\ word1' \in [Nodes -> 0 .. TAIL]
      /\ word0'[new] = key /\ word1'[new] = curr /\ word1'[pred] = new
      /\ \A n \in Nodes : n # new => word0'[n] = word0[n]
      /\ \A n \in Nodes : n # new /\ n # pred => word1'[n] = word1[n]
  <2>1. pred \in Nodes /\ pred # new /\ curr \in 0 .. TAIL /\ new \in 0 .. TAIL
    <3>1. pred \in Nodes /\ pred # new
      BY <1>1, <1>2, <1>3, <1>4
    <3>2. curr \in 0 .. TAIL
      BY DEF IInv, TypeOK
    <3>3. new \in 0 .. TAIL
      BY <1>3 DEF Nodes, TAIL
    <3> QED
      BY <3>1, <3>2, <3>3
  <2> QED
    BY <1>3, <1>4, <2>1 DEF AddLinks, IInv, TypeOK
<1>6. linked' = linked \cup {new}
  BY DEF AddLinks
<1>7. ListShape' /\ Sentinels'
  <2>1. \A m, n \in linked' : word0'[m] = word0'[n] => m = n
    BY <1>0, <1>2, <1>4, <1>5, <1>6 DEF IInv, ListShape
  <2>2. ASSUME NEW n \in linked' \cup {HEAD}
        PROVE  /\ word1'[n] \in linked' \cup {TAIL}
               /\ word0'[n] < word0'[word1'[n]]
               /\ \A m \in linked' : word0'[m] <= word0'[n] \/ word0'[m] >= word0'[word1'[n]]
    <3>0. /\ word0'[pred] = word0[pred] /\ word0'[curr] = word0[curr]
          /\ word0[pred] \in Nat /\ word0[curr] \in Nat
          /\ \A m \in linked : word0'[m] = word0[m] /\ word0[m] \in Nat
          /\ \A m \in linked : word0[m] <= word0[pred] \/ word0[m] >= word0[curr]
      BY <1>0, <1>1, <1>2, <1>3, <1>4, <1>5 DEF IInv, ListShape
    <3>1. CASE n = new
      BY <3>0, <3>1, <1>4, <1>5, <1>6
    <3>2. CASE n = pred
      BY <3>0, <3>2, <1>1, <1>3, <1>4, <1>5, <1>6
    <3>3. CASE n # new /\ n # pred
      <4>1. /\ n \in linked \cup {HEAD} /\ n \in Nodes
            /\ word1'[n] = word1[n] /\ word0'[n] = word0[n] /\ word0[n] \in Nat
        BY <3>3, <1>2, <1>5, <1>6, SMTT(30)
      <4>2. /\ word1[n] \in linked \cup {TAIL} /\ word0[n] < word0[word1[n]]
            /\ \A m \in linked : word0[m] <= word0[n] \/ word0[m] >= word0[word1[n]]
        BY <4>1, <1>0 DEF IInv, ListShape
      <4>3. word0'[word1[n]] = word0[word1[n]] /\ word0[word1[n]] \in Nat
        BY <4>2, <1>1, <1>2, <1>3, <1>5
      <4>4. key <= word0[n] \/ key >= word0[word1[n]]
        <5>1. CASE pred \in linked
          <6>1. word0[pred] <= word0[n] \/ word0[pred] >= word0[word1[n]]
            BY <4>2, <5>1
          <6>2. CASE word0[pred] >= word0[word1[n]]
            BY <6>2, <4>3, <1>4, <3>0
          <6>3. CASE word0[pred] <= word0[n]
            <7>1. n \in linked /\ word0[n] # word0[pred]
              BY <6>3, <5>1, <4>1, <3>3, <1>0, <1>2, SMTT(30) DEF IInv, ListShape, Sentinels
            <7>2. word0[n] >= word0[curr]
              BY <7>1, <6>3, <3>0, <4>1
            <7> QED
              BY <7>2, <1>4, <3>0, <4>1
          <6> QED
            BY <6>1, <6>2, <6>3
        <5>2. CASE pred = HEAD
          <6>1. n \in linked /\ word0[n] > 0 /\ word0[pred] = 0
            BY <5>2, <4>1, <3>3, <1>0, <1>2 DEF IInv, Sentinels
          <6>2. word0[n] >= word0[curr]
            BY <6>1, <3>0, <4>1
          <6> QED
            BY <6>2, <1>4, <3>0, <4>1
        <5> QED
          BY <5>1, <5>2, <1>4
      <4> QED
        BY <4>1, <4>2, <4>3, <4>4, <3>0, <1>5, <1>6, SMTT(30)
    <3> QED
      BY <3>1, <3>2, <3>3
  <2>3. Sentinels'
    BY <1>0, <1>2, <1>3, <1>4, <1>5, <1>6 DEF IInv, Sentinels
  <2> QED
    BY <2>1, <2>2, <2>3 DEF ListShape
<1>8. BlocksConserved' /\ freeBlocks' \in Seq(Blocks) /\ freeHead' \in 0 .. NumBlocks
  <2> DEFINE fb == freeBlocks'
  <2>1. fb \in Seq(Blocks) /\ Len(fb) = L - 1 /\ \A i \in 1 .. L - 1 : fb[i] = freeBlocks[i]
    <3>1. freeBlocks \in Seq(Blocks) /\ freeBlocks # <<>>
      BY <1>0, <1>1 DEF IInv, TypeOK, BlocksConserved
    <3> QED
      BY <3>1, Pop DEF AddLinks
  <2>2. freeHead' = word0[new]
    BY DEF AddLinks
  <2>3. fb = <<>> <=> L = 1
    BY <2>1, <1>1, EmptySeq
  <2>4. /\ \A i \in 1 .. L : word0[freeBlocks[i]] = IF i = 1 THEN 0 ELSE freeBlocks[i - 1]
        /\ \A i, j \in 1 .. L : freeBlocks[i] = freeBlocks[j] => i = j
        /\ \A b \in Blocks : (b \in linked) <=> ~ \E i \in 1 .. L : freeBlocks[i] = b
    BY <1>0 DEF IInv, BlocksConserved
  <2> HIDE DEF L, fb, new
  <2>5. L \in Nat /\ L > 0 /\ L - 1 \in Nat
    BY <1>1
  <2>6. \A i \in 1 .. L - 1 : freeBlocks[i] \in Blocks /\ freeBlocks[i] # new
    BY <2>4, <2>5, <1>1
  <2>7. \A i \in 1 .. L - 1 : word0'[freeBlocks[i]] = word0[freeBlocks[i]]
    <3>1. Blocks \subseteq Nodes
      BY DEF Blocks, Nodes
    <3> QED
      BY <2>6, <1>5, <3>1
  <2>8. freeHead' = IF fb = <<>> THEN 0 ELSE fb[L - 1]
    BY <2>1, <2>2, <2>3, <2>5, <1>1
  <2>9. \A i \in 1 .. L - 1 : word0'[fb[i]] = IF i = 1 THEN 0 ELSE fb[i - 1]
    BY <2>1, <2>4, <2>5, <2>7
  <2>10. \A i, j \in 1 .. L - 1 : fb[i] = fb[j] => i = j
    BY <2>1, <2>4, <2>5
  <2>11. ASSUME NEW b \in Blocks
         PROVE  (b \in linked') <=> ~ \E i \in 1 .. L - 1 : fb[i] = b
    <3>1. (\E i \in 1 .. L : freeBlocks[i] = b)
            <=> (b = new \/ \E i \in 1 .. L - 1 : freeBlocks[i] = b)
      BY <1>1, <2>5
    <3> QED
      BY <3>1, <2>1, <2>4, <2>6, <1>6
  <2>12. freeHead' \in 0 .. NumBlocks
    <3>1. \A b \in Blocks : b \in 0 .. NumBlocks
      BY DEF Blocks
    <3>2. L # 1 => freeBlocks[L - 1] \in Blocks
      BY <2>5, <2>6
    <3> QED
      BY <3>1, <3>2, <2>2, <1>1
  <2> QED
    BY <2>1, <2>8, <2>9, <2>10, <2>11, <2>12 DEF BlocksConserved, fb
<1> QED
  BY <1>0, <1>1, <1>4, <1>5, <1>6, <1>7, <1>8, Zenon DEF IInv, TypeOK, SearchPosition, Boot

\* list_remove takes curr out of the list and pushes it on the free stack.
LEMMA RemoveUnlinksIInv ==
  ASSUME IInv, 0 \notin Keys, RemoveUnlinks
  PROVE  IInv'
<1> USE KeysAssumption, MaxAssumption, NumBlocksAssumption
<1> DEFINE succ == word1[curr]
<1>0. /\ Found /\ phase # "boot" /\ phase' = "return" /\ key' = key /\ op' = op
      /\ pred' = pred /\ curr' = curr /\ result' = 1 /\ word0[curr] = key
  BY SMTT(30) DEF RemoveUnlinks, Found, Finish, request
<1>1. /\ linked \subseteq Nodes /\ HEAD \in Nodes /\ TAIL \in Nodes
      /\ HEAD \notin linked /\ TAIL \notin linked /\ HEAD # TAIL
      /\ \A n \in Nodes : word0[n] \in Nat
      /\ \A n \in linked : word0[n] > 0 /\ word0[n] < UINT32_MAX
  BY <1>0, Geometry
<1>2. /\ key \in Keys /\ key \in Nat /\ curr \in linked /\ curr \in Blocks
      /\ pred \in linked \cup {HEAD} /\ pred # curr
      /\ curr = word1[pred] /\ word0[pred] < key
  <2>1. key \in Nat /\ word0[TAIL] = UINT32_MAX /\ linked \subseteq Blocks
    BY <1>0 DEF IInv, TypeOK, Sentinels
  <2>2. /\ key \in Keys /\ key < UINT32_MAX /\ curr \in linked \cup {TAIL}
        /\ pred \in linked \cup {HEAD} /\ curr = word1[pred] /\ word0[pred] < key
    BY <1>0, FoundPosition
  <2> QED
    BY <1>0, <1>1, <2>1, <2>2
<1>3. /\ succ \in linked \cup {TAIL} /\ succ # curr /\ word0[curr] < word0[succ]
      /\ word0[succ] \in Nat /\ word0[pred] \in Nat
      /\ \A m \in linked : word0[m] <= word0[curr] \/ word0[m] >= word0[succ]
      /\ \A m \in linked : word0[m] <= word0[pred] \/ word0[m] >= word0[curr]
  BY <1>0, <1>1, <1>2 DEF IInv, ListShape
<1>4. /\ word0' \in [Nodes -> Nat] /\ word1' \in [Nodes -> 0 .. TAIL]
      /\ word0'[curr] = freeHead /\ word1'[pred] = succ
      /\ \A n \in Nodes : n # curr => word0'[n] = word0[n]
      /\ \A n \in Nodes : n # pred => word1'[n] = word1[n]
  <2>1. pred \in Nodes /\ curr \in Nodes /\ succ \in 0 .. TAIL /\ freeHead \in Nat
    BY <1>1, <1>2 DEF IInv, TypeOK
  <2> QED
    BY <2>1 DEF RemoveUnlinks, IInv, TypeOK
<1>5. linked' = linked \ {curr} /\ freeHead' = curr
  BY DEF RemoveUnlinks
<1>6. ListShape' /\ Sentinels'
  <2>1. \A m, n \in linked' : word0'[m] = word0'[n] => m = n
    BY <1>0, <1>1, <1>4, <1>5 DEF IInv, ListShape
  <2>2. ASSUME NEW n \in linked' \cup {HEAD}
        PROVE  /\ word1'[n] \in linked' \cup {TAIL}
               /\ word0'[n] < word0'[word1'[n]]
               /\ \A m \in linked' : word0'[m] <= word0'[n] \/ word0'[m] >= word0'[word1'[n]]
    <3>0. /\ \A m \in linked' : word0'[m] = word0[m] /\ word0[m] \in Nat /\ m \in linked
          /\ word0'[succ] = word0[succ] /\ n # curr /\ n \in linked \cup {HEAD}
          /\ n \in Nodes /\ word0'[n] = word0[n] /\ word0[n] \in Nat
      BY <1>1, <1>2, <1>3, <1>4, <1>5, SMTT(30)
    <3>1. CASE n = pred
      <4>1. \A m \in linked' : word0[m] # word0[curr]
        BY <3>0, <1>0, <1>2, <1>5, SMTT(30) DEF IInv, ListShape
      <4>2. \A m \in linked' : word0[m] <= word0[pred] \/ word0[m] >= word0[succ]
        BY <4>1, <3>0, <1>0, <1>2, <1>3, SMTT(30)
      <4> QED
        BY <3>0, <3>1, <4>2, <1>0, <1>2, <1>3, <1>4, <1>5, SMTT(30)
    <3>2. CASE n # pred
      <4>1. /\ word1'[n] = word1[n]
            /\ word1[n] \in linked \cup {TAIL} /\ word0[n] < word0[word1[n]]
            /\ \A m \in linked : word0[m] <= word0[n] \/ word0[m] >= word0[word1[n]]
        BY <3>0, <3>2, <1>0, <1>4 DEF IInv, ListShape
      <4>2. word1[n] # curr
        <5> SUFFICES ASSUME word1[n] = curr PROVE FALSE
          OBVIOUS
        <5>1. CASE pred \in linked
          <6>1. word0[pred] <= word0[n]
            BY <5>1, <4>1, <1>0, <1>2, <1>3
          <6>2. n \in linked
            BY <5>1, <6>1, <3>0, <1>0, <1>1, SMTT(30) DEF IInv, Sentinels
          <6>3. word0[n] <= word0[pred]
            BY <6>2, <3>0, <4>1, <1>0, <1>2, <1>3, SMTT(30)
          <6> QED
            BY <5>1, <6>1, <6>2, <6>3, <3>0, <3>2, <1>0, <1>3, SMTT(30) DEF IInv, ListShape
        <5>2. CASE pred = HEAD
          <6>1. n \in linked /\ word0[n] > 0 /\ word0[pred] = 0
            BY <5>2, <3>0, <3>2, <1>0, <1>1, SMTT(30) DEF IInv, Sentinels
          <6> QED
            BY <6>1, <3>0, <4>1, <1>0, <1>2, <1>3, SMTT(30)
        <5> QED
          BY <5>1, <5>2, <1>2
      <4>3. word0'[word1[n]] = word0[word1[n]]
        BY <4>1, <4>2, <1>1, <1>4
      <4> QED
        BY <3>0, <4>1, <4>2, <4>3, <1>5, SMTT(30)
    <3> QED
      BY <3>1, <3>2
  <2>3. Sentinels'
    BY <1>0, <1>1, <1>2, <1>4, <1>5 DEF IInv, Sentinels
  <2> QED
    BY <2>1, <2>2, <2>3 DEF ListShape
<1>7. BlocksConserved' /\ freeBlocks' \in Seq(Blocks)
  <2> DEFINE fb == freeBlocks'
             L == Len(freeBlocks)
  <2>1. /\ fb \in Seq(Blocks) /\ Len(fb) = L + 1 /\ fb[L + 1] = curr /\ fb # <<>>
        /\ \A i \in 1 .. L : fb[i] = freeBlocks[i]
    BY <1>2 DEF RemoveUnlinks, IInv, TypeOK
  <2>2. /\ L \in Nat /\ \A i \in 1 .. L : freeBlocks[i] \in Blocks
        /\ freeHead = IF L = 0 THEN 0 ELSE freeBlocks[L]
    BY <1>0, EmptySeq DEF IInv, TypeOK, BlocksConserved
  <2>3. /\ \A i \in 1 .. L : word0[freeBlocks[i]] = IF i = 1 THEN 0 ELSE freeBlocks[i - 1]
        /\ \A i, j \in 1 .. L : freeBlocks[i] = freeBlocks[j] => i = j
        /\ \A b \in Blocks : (b \in linked) <=> ~ \E i \in 1 .. L : freeBlocks[i] = b
    BY <1>0 DEF IInv, BlocksConserved
  <2> HIDE DEF L, fb
  <2>4. \A i \in 1 .. L : freeBlocks[i] # curr
    BY <2>3, <1>2
  <2>5. \A i \in 1 .. L : word0'[freeBlocks[i]] = word0[freeBlocks[i]]
    <3>1. Blocks \subseteq Nodes
      BY DEF Blocks, Nodes
    <3> QED
      BY <3>1, <2>2, <2>4, <1>4
  <2>6. \A i \in 1 .. L + 1 : i \in 1 .. L \/ i = L + 1
    BY <2>2
  <2>7. \A i \in 1 .. L + 1 : word0'[fb[i]] = IF i = 1 THEN 0 ELSE fb[i - 1]
    <3>1. \A i \in 1 .. L : word0'[fb[i]] = IF i = 1 THEN 0 ELSE fb[i - 1]
      BY <2>1, <2>2, <2>3, <2>5
    <3>2. ASSUME NEW i \in 1 .. L + 1
          PROVE  word0'[fb[i]] = IF i = 1 THEN 0 ELSE fb[i - 1]
      <4>1. CASE i \in 1 .. L
        BY <4>1, <3>1, Zenon
      <4>2. CASE i = L + 1
        <5>1. fb[i] = curr /\ word0'[fb[i]] = freeHead
          BY <4>2, <2>1, <1>4
        <5>2. CASE L = 0
          <6>1. i = 1 /\ freeHead = 0
            BY <4>2, <5>2, <2>2
          <6> QED
            BY <5>1, <6>1
        <5>3. CASE L # 0
          <6>1. i # 1 /\ i - 1 = L /\ L \in 1 .. L
            BY <4>2, <5>3, <2>2
          <6>2. fb[i - 1] = freeHead
            BY <5>3, <6>1, <2>1, <2>2
          <6> QED
            BY <5>1, <6>1, <6>2
        <5> QED
          BY <5>2, <5>3
      <4> QED
        BY <4>1, <4>2, <2>6
    <3> QED
      BY <3>2
  <2>8. \A i, j \in 1 .. L + 1 : fb[i] = fb[j] => i = j
    BY <2>1, <2>3, <2>4, <2>6
  <2>9. ASSUME NEW b \in Blocks
        PROVE  (b \in linked') <=> ~ \E i \in 1 .. L + 1 : fb[i] = b
    <3>1. (\E i \in 1 .. L + 1 : fb[i] = b) <=> (b = curr \/ \E i \in 1 .. L : freeBlocks[i] = b)
      BY <2>1, <2>2, <2>6
    <3> QED
      BY <3>1, <2>3, <1>5
  <2> QED
    BY <2>1, <2>7, <2>8, <2>9, <1>5, SMTT(30) DEF BlocksConserved, fb
<1>8. curr \in 0 .. NumBlocks
  BY <1>2 DEF Blocks
<1> QED
  BY <1>0, <1>2, <1>4, <1>5, <1>6, <1>7, <1>8, Zenon DEF IInv, TypeOK, SearchPosition, Boot

LEMMA StepIInv ==
  ASSUME 0 \notin Keys
  PROVE  IInv /\ [Next]_vars => IInv'
<1> SUFFICES ASSUME IInv, [Next]_vars PROVE IInv'
  OBVIOUS
<1>1. CASE UNCHANGED vars
  BY <1>1 DEF IInv, TypeOK, SearchPosition, ListShape, BlocksConserved, Sentinels, Boot,
              vars, memory, request
<1>2. CASE ListInit
  BY <1>2, ListInitIInv
<1>3. CASE \E o \in Ops, k \in Keys : Start(o, k)
  BY <1>3, StartIInv
<1>4. CASE Kernel
  BY <1>4, AdvanceIInv, ReportIInv, AddLinksIInv, RemoveUnlinksIInv DEF Kernel
<1>5. CASE Return
  BY <1>5, ReturnIInv
<1> QED
  BY <1>1, <1>2, <1>3, <1>4, <1>5 DEF Next

THEOREM InvariantIInv ==
  ASSUME 0 \notin Keys
  PROVE  SafeSpec => []IInv
<1>1. Init => IInv
  BY InitIInv
<1>2. IInv /\ [Next]_vars => IInv'
  BY StepIInv
<1> QED
  BY <1>1, <1>2, PTL DEF SafeSpec

\* Words, pointers and histories keep their types: no operation follows or stores
\* a pointer outside the blocks and the sentinels.
THEOREM TypeCorrect ==
  ASSUME 0 \notin Keys
  PROVE  SafeSpec => []TypeOK
<1>1. IInv => TypeOK
  BY DEF IInv
<1> QED
  BY <1>1, InvariantIInv, PTL

\* The list stays sorted, without duplicates and without a lost node.
THEOREM ShapeHolds ==
  ASSUME 0 \notin Keys
  PROVE  SafeSpec => []ListShape
<1>1. IInv => ListShape
  BY DEF IInv
<1> QED
  BY <1>1, InvariantIInv, PTL

\* Every block is either in the list or on the free stack, whatever the sequence
\* of operations.
THEOREM MemoryConserved ==
  ASSUME 0 \notin Keys
  PROVE  SafeSpec => []BlocksConserved
<1>1. IInv => BlocksConserved
  BY DEF IInv
<1> QED
  BY <1>1, InvariantIInv, PTL

-----------------------------------------------------------------------------
(* The kernel implements AtomicSet.                                        *)

AbsSet == {word0[n] : n \in linked}

\* The set has as many keys as the list has blocks; it is full when all the blocks
\* are in the list.
LEMMA SetSize ==
  ASSUME IInv, phase # "boot"
  PROVE  /\ Cardinality(AbsSet) \in Nat
         /\ Cardinality(AbsSet) <= NumBlocks
         /\ Cardinality(AbsSet) = NumBlocks <=> linked = Blocks
<1>1. IsFiniteSet(Blocks) /\ Cardinality(Blocks) = NumBlocks
  BY NumBlocksAssumption, FS_Interval DEF Blocks
<1>2. linked \in SUBSET Blocks
  BY DEF IInv, TypeOK
<1>3. /\ IsFiniteSet(linked) /\ Cardinality(linked) \in Nat
      /\ Cardinality(linked) <= NumBlocks
      /\ Cardinality(linked) = NumBlocks <=> linked = Blocks
  BY <1>1, <1>2, FS_Subset, FS_CardinalityType
<1>4. ExistsBijection(linked, AbsSet)
  <2> DEFINE f == [n \in linked |-> word0[n]]
  <2>1. f \in [linked -> AbsSet]
    BY DEF AbsSet
  <2>2. \A m, n \in linked : f[m] = f[n] => m = n
    BY DEF IInv, ListShape
  <2>3. \A v \in AbsSet : \E n \in linked : f[n] = v
    BY DEF AbsSet
  <2> HIDE DEF f
  <2>4. f \in Bijection(linked, AbsSet)
    BY <2>1, <2>2, <2>3 DEF Bijection, Injection, Surjection, IsInjective
  <2> QED
    BY <2>4 DEF ExistsBijection
<1>5. Cardinality(AbsSet) = Cardinality(linked)
  BY <1>3, <1>4, FS_Bijection
<1> QED
  BY <1>3, <1>5

LEMMA InitRefines == Init => KeySet!Init
  BY DEF Init, KeySet!Init, AbstractReq

\* Each step is a step of the abstract set or leaves its state unchanged.
LEMMA StepRefines ==
  ASSUME 0 \notin Keys, IInv, IInv', [Next]_vars
  PROVE  [KeySet!Next]_(KeySet!vars)
<1> DEFINE r == [t \in {"host"} |-> AbstractReq]
<1>0. KeySet!vars = <<AbsSet, r>>
  BY DEF KeySet!vars, AbsSet
<1>1. CASE UNCHANGED vars
  BY <1>1 DEF vars, memory, request, KeySet!vars, AbstractReq
<1>2. CASE ListInit
  BY <1>2 DEF ListInit, IInv, Boot, KeySet!vars, AbstractReq
<1>3. ASSUME NEW o \in Ops, NEW k \in Keys, Start(o, k)
      PROVE  KeySet!Call("host", o, k)
  BY <1>3 DEF Start, memory, KeySet!Call, AbstractReq
<1>4. CASE Advance
  BY <1>4 DEF Advance, memory, request, KeySet!vars, AbstractReq
<1>5. CASE Return
  <2>1. \E oo \in KeySet!Ops, k \in Keys, res \in BOOLEAN : r["host"] = <<oo, k, res>>
    <3>1. r["host"] = <<op, key, result = 1>> /\ op \in KeySet!Ops /\ key \in Keys
      BY <1>5 DEF Return, IInv, TypeOK, AbstractReq, KeySet!Ops, Ops
    <3> QED
      BY <3>1, Zenon
  <2> QED
    <3>1. KeySet!Return("host")
      BY <1>5, <2>1 DEF Return, memory, request, KeySet!Return, AbstractReq
    <3> QED
      BY <3>1 DEF KeySet!Next
<1>6. CASE Found /\ Kernel
  <2>0. /\ phase = "search" /\ phase # "boot" /\ key \in Keys
        /\ word0[curr] = key <=> key \in AbsSet
        /\ word0[curr] = key => curr \in linked
        /\ curr \in Nodes
    BY <1>6, FoundPosition, Geometry DEF Found, AbsSet
  <2>1. phase' = "return" /\ op' = op /\ key' = key /\ ~ Advance
    <3>1. ~ Advance
      <4>1. word0[curr] \in Nat /\ key \in Nat
        BY <2>0 DEF IInv, TypeOK
      <4> QED
        BY <4>1, <1>6 DEF Found, Advance
    <3> QED
      BY <1>6, <3>1
      DEF Kernel, AddFails, AddLinks, RemoveFails, RemoveUnlinks, ContainsReturns,
          Finish, request
  <2>a. PICK k \in Keys : k = key
    BY <2>0
  <2>b. ASSUME NEW o \in Ops, o = op, NEW res \in BOOLEAN, res = (result' = 1)
        PROVE  KeySet!Answer("host", o, k, res)
    BY <2>0, <2>1, <2>a, <2>b DEF AbstractReq, KeySet!Answer
  <2>c. KeySet!Cardinality(AbsSet) = Cardinality(AbsSet)
    BY DEF KeySet!Cardinality, Cardinality
  <2>2. CASE AddFails
    <3>1. key \in AbsSet \/ Cardinality(AbsSet) >= NumBlocks
      <4>1. CASE freeHead = 0
        <5>1. freeBlocks = <<>>
          <6>1. freeBlocks # <<>> => freeHead \in Blocks
            <7>1. freeBlocks \in Seq(Blocks)
              BY DEF IInv, TypeOK
            <7>2. freeBlocks # <<>> => freeHead = freeBlocks[Len(freeBlocks)]
              BY <2>0, Zenon DEF IInv, BlocksConserved
            <7> QED
              BY <7>1, <7>2, EmptySeq
          <6> QED
            BY <4>1, <6>1 DEF Blocks
        <5>2. linked = Blocks
          <6>1. 1 .. Len(freeBlocks) = {}
            BY <5>1
          <6>2. linked \subseteq Blocks
            BY DEF IInv, TypeOK
          <6> QED
            BY <6>1, <6>2, <2>0, Zenon DEF IInv, BlocksConserved
        <5> QED
          BY <5>2, <2>0, SetSize, NumBlocksAssumption
      <4> QED
        BY <2>0, <2>2, <4>1 DEF AddFails
    <3>2. AbsSet' = AbsSet /\ result' = 0 /\ op = "add"
      BY <2>2 DEF AddFails, Finish, memory, AbsSet
    <3>3. KeySet!Answer("host", "add", k, FALSE)
      <4>1. FALSE = (result' = 1)
        BY <3>2
      <4> QED
        BY <2>b, <3>2, <4>1, Zenon DEF Ops
    <3>4. KeySet!Add("host", k)
      <4>1. k \in AbsSet \/ KeySet!Cardinality(AbsSet) >= NumBlocks
        BY <3>1, <2>a, <2>c
      <4> QED
        BY <3>2, <3>3, <4>1, Zenon DEF KeySet!Add, AbsSet
    <3> QED
      BY <2>0, <3>4 DEF KeySet!Next
  <2>3. CASE AddLinks
    <3>1. freeHead \in Blocks /\ freeHead \notin linked
      <4>1. freeBlocks \in Seq(Blocks) /\ freeBlocks # <<>>
        BY <2>0, <2>3 DEF AddLinks, IInv, TypeOK, BlocksConserved
      <4>2. freeHead = freeBlocks[Len(freeBlocks)]
        BY <2>0, <4>1, Zenon DEF IInv, BlocksConserved
      <4>3. Len(freeBlocks) \in 1 .. Len(freeBlocks) /\ freeBlocks[Len(freeBlocks)] \in Blocks
        BY <4>1, EmptySeq
      <4>4. \A b \in Blocks :
              (b \in linked) <=> ~ \E i \in 1 .. Len(freeBlocks) : freeBlocks[i] = b
        BY <2>0, Zenon DEF IInv, BlocksConserved
      <4> QED
        BY <4>2, <4>3, <4>4, Zenon
    <3>2. key \notin AbsSet /\ Cardinality(AbsSet) < NumBlocks
      BY <2>0, <2>3, <3>1, SetSize, NumBlocksAssumption DEF AddLinks
    <3>3. AbsSet' = AbsSet \cup {key}
      <4>1. linked \subseteq Nodes /\ Blocks \subseteq Nodes
        <5>1. Blocks \subseteq Nodes
          BY NumBlocksAssumption DEF Blocks, Nodes
        <5> QED
          BY <5>1 DEF IInv, TypeOK
      <4>2. /\ word0'[freeHead] = key
            /\ \A n \in linked : word0'[n] = word0[n]
            /\ linked' = linked \cup {freeHead}
        BY <2>3, <3>1, <4>1 DEF AddLinks, IInv, TypeOK
      <4> QED
        BY <4>2 DEF AbsSet
    <3>4. result' = 1 /\ op = "add"
      BY <2>3 DEF AddLinks, Finish
    <3>5. KeySet!Answer("host", "add", k, TRUE)
      BY <2>a, <2>b, <3>4, Zenon DEF Ops
    <3>6. KeySet!Add("host", k)
      <4>1. /\ k \notin AbsSet
            /\ KeySet!Cardinality(AbsSet) < NumBlocks
            /\ AbsSet' = AbsSet \cup {k}
        BY <3>2, <3>3, <2>a, <2>c
      <4> QED
        BY <3>5, <4>1, Zenon DEF KeySet!Add, AbsSet
    <3> QED
      BY <2>0, <3>6 DEF KeySet!Next
  <2>4. CASE RemoveFails
    <3>1. AbsSet' = AbsSet /\ result' = 0 /\ op = "remove" /\ key \notin AbsSet
      BY <2>0, <2>4 DEF RemoveFails, Finish, memory, AbsSet
    <3>2. KeySet!Answer("host", "remove", k, FALSE)
      <4>1. FALSE = (result' = 1)
        BY <3>1
      <4> QED
        BY <2>b, <3>1, <4>1, Zenon DEF Ops
    <3>3. AbsSet' = AbsSet \ {key} /\ (key \in AbsSet) = FALSE
      BY <3>1
    <3>4. KeySet!Remove("host", k)
      BY <3>2, <3>3, <2>a, Zenon DEF KeySet!Remove, KeySet!Answer, AbsSet
    <3> QED
      BY <2>0, <3>4 DEF KeySet!Next
  <2>5. CASE RemoveUnlinks
    <3>1. AbsSet' = AbsSet \ {key}
      <4>1. /\ linked' = linked \ {curr} /\ word0[curr] = key
            /\ \A n \in linked' : word0'[n] = word0[n]
        BY <2>5 DEF RemoveUnlinks, IInv, TypeOK
      <4>2. curr \in linked /\ \A n \in linked : word0[n] = key <=> n = curr
        BY <2>0, <4>1 DEF IInv, ListShape
      <4> QED
        BY <4>1, <4>2 DEF AbsSet
    <3>2. result' = 1 /\ op = "remove" /\ key \in AbsSet
      BY <2>0, <2>5 DEF RemoveUnlinks, Finish
    <3>3. KeySet!Answer("host", "remove", k, TRUE)
      BY <2>a, <2>b, <3>2, Zenon DEF Ops
    <3>4. KeySet!Remove("host", k)
      <4>1. (key \in AbsSet) = TRUE
        BY <3>2
      <4> QED
        BY <3>1, <3>3, <4>1, <2>a, Zenon DEF KeySet!Remove, KeySet!Answer, AbsSet
    <3> QED
      BY <2>0, <3>4 DEF KeySet!Next
  <2>6. CASE ContainsReturns
    <3>1. AbsSet' = AbsSet /\ op = "contains" /\ (result' = 1 <=> key \in AbsSet)
      BY <2>0, <2>6 DEF ContainsReturns, Finish, memory, AbsSet
    <3>2. PICK res \in BOOLEAN : res = (k \in AbsSet)
      <4>1. TRUE = (k \in AbsSet) \/ FALSE = (k \in AbsSet)
        OBVIOUS
      <4> QED
        BY <4>1, Zenon
    <3>3. res = (result' = 1)
      BY <2>a, <3>1, <3>2
    <3>4. KeySet!Answer("host", "contains", k, res)
      BY <2>b, <3>1, <3>3, Zenon DEF Ops
    <3>5. KeySet!Contains("host", k)
      BY <3>1, <3>2, <3>4, Zenon DEF KeySet!Contains, KeySet!Answer, AbsSet
    <3> QED
      BY <3>5 DEF KeySet!Next
  <2> QED
    BY <1>6, <2>1, <2>2, <2>3, <2>4, <2>5, <2>6 DEF Kernel
<1>7. Kernel => Advance \/ Found
  BY DEF Kernel, AddFails, AddLinks, RemoveFails, RemoveUnlinks, ContainsReturns
<1> QED
  BY <1>1, <1>2, <1>3, <1>4, <1>5, <1>6, <1>7 DEF Next, KeySet!Next, Ops, KeySet!Ops

\* list_add, list_remove and list_contains behave like the operations of an atomic
\* set of at most NumBlocks keys.
THEOREM KernelImplementsSet ==
  ASSUME 0 \notin Keys
  PROVE  SafeSpec => ImplementsSet
<1>1. Init => KeySet!Init
  BY InitRefines
<1>2. IInv /\ IInv' /\ [Next]_vars => [KeySet!Next]_(KeySet!vars)
  BY StepRefines
<1> QED
  BY <1>1, <1>2, InvariantIInv, PTL DEF SafeSpec, ImplementsSet, KeySet!Spec
=============================================================================
