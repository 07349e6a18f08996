---------------------------- MODULE PimListKernel ----------------------------
(***************************************************************************)
(* The sorted linked list that the PIM processor runs as an offloaded      *)
(* kernel (SW/PIM/kernels/linked_list.c).  The nodes are blocks of the     *)
(* vector register file; free blocks form a stack whose links lie in the   *)
(* first word of the block, the word that holds the key while the block is *)
(* in the list.  The host starts one operation at a time (execute_kernel   *)
(* with command and key in SREG[0] and SREG[1], the result in SREG[2]).    *)
(*                                                                         *)
(* Addresses are numbers as in the code: 0 is the null pointer, the blocks *)
(* are 1..NumBlocks, HEAD and TAIL are the sentinels in SREG[4..7].        *)
(***************************************************************************)
EXTENDS Integers, Sequences, FiniteSets

CONSTANTS
  NumBlocks,   \* NUM_MEM_BLOCKS
  Keys,        \* the keys the host sends
  UINT32_MAX   \* the key of the tail sentinel

ASSUME NumBlocksAssumption == NumBlocks \in Nat
ASSUME MaxAssumption == UINT32_MAX \in Nat \ {0}
ASSUME KeysAssumption == Keys \subseteq 0 .. UINT32_MAX - 1

VARIABLES
  word0,       \* first word of every node: key, or link of a free block
  word1,       \* second word: next
  freeHead,    \* FREE_BLOCKS_HEAD
  phase,       \* "boot", "idle", "search" or "return"
  op, key,     \* SREG[0], SREG[1]: the operation and its key
  result,      \* SREG[2]
  pred, curr,  \* the local pointers
  linked,      \* history: the blocks that are in the list
  freeBlocks   \* history: the free blocks, the top of the stack last

memory == <<word0, word1, freeHead, linked, freeBlocks>>
request == <<op, key>>
vars == <<memory, phase, request, result, pred, curr>>

Blocks == 1 .. NumBlocks
HEAD   == NumBlocks + 1
TAIL   == NumBlocks + 2
Nodes  == 1 .. NumBlocks + 2
Ops    == {"add", "remove", "contains"}

\* The registers are zero after the firmware's initialize_registers.
Init ==
  /\ word0 = [n \in Nodes |-> 0]
  /\ word1 = [n \in Nodes |-> 0]
  /\ freeHead = 0
  /\ phase = "boot"
  /\ op = "add" /\ key = 0
  /\ result = 0
  /\ pred = 0 /\ curr = 0
  /\ linked = {}
  /\ freeBlocks = <<>>

\* Command 0, list_init: the loop pushes the blocks on the free stack in
\* address order; the list is HEAD -> TAIL.  The application sends it once,
\* before any other command.
ListInit ==
  /\ phase = "boot"
  /\ word0' = [n \in Nodes |-> IF n \in Blocks THEN n - 1
                               ELSE IF n = HEAD THEN 0 ELSE UINT32_MAX]
  /\ word1' = [word1 EXCEPT ![HEAD] = TAIL, ![TAIL] = 0]
  /\ freeHead' = NumBlocks
  /\ freeBlocks' = [i \in 1 .. NumBlocks |-> i]
  /\ phase' = "idle"
  /\ UNCHANGED <<request, result, pred, curr, linked>>

\* execute_kernel reads command and key and enters list_add, list_remove or
\* list_contains; the last one starts at the sentinel itself.
Start(o, k) ==
  /\ phase = "idle"
  /\ op' = o /\ key' = k
  /\ pred' = HEAD
  /\ curr' = IF o = "contains" THEN HEAD ELSE word1[HEAD]
  /\ phase' = "search"
  /\ UNCHANGED <<memory, result>>

\* while (curr->key < key) { pred = curr; curr = curr->next; }
Advance ==
  /\ phase = "search" /\ word0[curr] < key
  /\ pred' = curr
  /\ curr' = word1[curr]
  /\ UNCHANGED <<memory, phase, request, result>>

Found == phase = "search" /\ word0[curr] >= key

Finish(res) ==
  /\ result' = res
  /\ phase' = "return"
  /\ UNCHANGED <<request, pred, curr>>

\* list_add: the key is there already, or alloc_memory_block has nothing.
AddFails ==
  /\ Found /\ op = "add"
  /\ word0[curr] = key \/ freeHead = 0
  /\ Finish(0)
  /\ UNCHANGED memory

\* Mutants: the test for an existing key is missing; the new node points to itself.
MutAddTwice ==
  LET new == freeHead IN
  /\ Found /\ op = "add" /\ freeHead # 0
  /\ freeHead' = word0[new]
  /\ word0' = [word0 EXCEPT ![new] = key]
  /\ word1' = [word1 EXCEPT ![new] = curr, ![pred] = new]
  /\ linked' = linked \cup {new}
  /\ freeBlocks' = SubSeq(freeBlocks, 1, Len(freeBlocks) - 1)
  /\ Finish(1)

MutAddLoop ==
  LET new == freeHead IN
  /\ Found /\ op = "add"
  /\ word0[curr] # key /\ freeHead # 0
  /\ freeHead' = word0[new]
  /\ word0' = [word0 EXCEPT ![new] = key]
  /\ word1' = [word1 EXCEPT ![pred] = new, ![new] = new]
  /\ linked' = linked \cup {new}
  /\ freeBlocks' = SubSeq(freeBlocks, 1, Len(freeBlocks) - 1)
  /\ Finish(1)

\* list_add: alloc_memory_block pops a block, which is linked after pred.
AddLinks ==
  LET new == freeHead IN
  /\ Found /\ op = "add"
  /\ word0[curr] # key /\ freeHead # 0
  /\ freeHead' = word0[new]
  /\ word0' = [word0 EXCEPT ![new] = key]
  /\ word1' = [word1 EXCEPT ![new] = curr, ![pred] = new]
  /\ linked' = linked \cup {new}
  /\ freeBlocks' = SubSeq(freeBlocks, 1, Len(freeBlocks) - 1)
  /\ Finish(1)

\* list_remove: no such key.
RemoveFails ==
  /\ Found /\ op = "remove"
  /\ word0[curr] # key
  /\ Finish(0)
  /\ UNCHANGED memory

\* list_remove: unlink the node; free_memory_block pushes it, its key is
\* overwritten by the link.
RemoveUnlinks ==
  /\ Found /\ op = "remove"
  /\ word0[curr] = key
  /\ word1' = [word1 EXCEPT ![pred] = word1[curr]]
  /\ word0' = [word0 EXCEPT ![curr] = freeHead]
  /\ freeHead' = curr
  /\ linked' = linked \ {curr}
  /\ freeBlocks' = Append(freeBlocks, curr)
  /\ Finish(1)

\* Mutant: any node before the tail will do.
MutContains ==
  /\ Found /\ op = "contains"
  /\ Finish(IF curr # TAIL THEN 1 ELSE 0)
  /\ UNCHANGED memory

\* list_contains.
ContainsReturns ==
  /\ Found /\ op = "contains"
  /\ Finish(IF word0[curr] = key THEN 1 ELSE 0)
  /\ UNCHANGED memory

\* The host has read SREG[2]; the kernel may be started again.
Return ==
  /\ phase = "return"
  /\ phase' = "idle"
  /\ UNCHANGED <<memory, request, result, pred, curr>>

Kernel ==
  \/ Advance \/ AddFails \/ AddLinks \/ RemoveFails \/ RemoveUnlinks
  \/ ContainsReturns

Next ==
  \/ ListInit
  \/ \E o \in Ops, k \in Keys : Start(o, k)
  \/ Kernel
  \/ Return

\* The kernel is a sequential program: it keeps running until it returns.
Fairness == WF_vars(Kernel)

SafeSpec == Init /\ [][Next]_vars
Spec     == SafeSpec /\ Fairness

-----------------------------------------------------------------------------
(* Properties.                                                             *)

TypeOK ==
  /\ word0 \in [Nodes -> Nat] /\ word1 \in [Nodes -> 0 .. TAIL]
  /\ freeHead \in 0 .. NumBlocks
  /\ phase \in {"boot", "idle", "search", "return"}
  /\ op \in Ops /\ key \in Nat
  /\ result \in {0, 1}
  /\ pred \in 0 .. TAIL /\ curr \in 0 .. TAIL
  /\ linked \subseteq Blocks
  /\ freeBlocks \in Seq(Blocks)

\* The list is sorted and complete: from HEAD and from every node in the list,
\* next leads to a node of the list or to TAIL with a larger key, no node of the
\* list has a key in between, and no two have the same key.
ListShape ==
  phase # "boot" =>
    /\ \A n \in linked \cup {HEAD} :
         /\ word1[n] \in linked \cup {TAIL}
         /\ word0[n] < word0[word1[n]]
         /\ \A m \in linked : word0[m] <= word0[n] \/ word0[m] >= word0[word1[n]]
    /\ \A m, n \in linked : word0[m] = word0[n] => m = n

\* The free blocks form a stack, linked through the word that held the key, with
\* FREE_BLOCKS_HEAD on top; a block is free or in the list and never both, so
\* that neither add nor remove loses or doubly uses memory.
BlocksConserved ==
  phase # "boot" =>
    /\ freeHead = IF freeBlocks = <<>> THEN 0 ELSE freeBlocks[Len(freeBlocks)]
    /\ \A i \in 1 .. Len(freeBlocks) :
         word0[freeBlocks[i]] = IF i = 1 THEN 0 ELSE freeBlocks[i - 1]
    /\ \A i, j \in 1 .. Len(freeBlocks) : freeBlocks[i] = freeBlocks[j] => i = j
    /\ \A b \in Blocks :
         (b \in linked) <=> ~ \E i \in 1 .. Len(freeBlocks) : freeBlocks[i] = b

\* The state of the call as AtomicSet sees it: the operation takes effect when
\* the search is over.
AbstractReq ==
  CASE phase \in {"boot", "idle"} -> <<>>
    [] phase = "search" -> <<op, key>>
    [] phase = "return" -> <<op, key, result = 1>>

KeySet == INSTANCE AtomicSet WITH
  Threads <- {"host"}, Keys <- Keys, Capacity <- NumBlocks,
  set <- {word0[n] : n \in linked},
  req <- [t \in {"host"} |-> AbstractReq]

\* list_add, list_remove and list_contains are the operations of an atomic set
\* that holds at most NumBlocks keys: every result is the one the set gives, and
\* an add fails for lack of memory only when all the blocks hold keys.
ImplementsSet == KeySet!Spec

\* Every search ends: the sentinel's key stops it.
SearchEnds == (phase = "search") ~> (phase = "return")
=============================================================================
