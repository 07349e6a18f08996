------------------------------ MODULE SliceTable ------------------------------
(***************************************************************************)
(* The slice table: the page table that the PIM driver                     *)
(* (SW/HOST/driver/pim.c) builds in main memory for an offloaded task and  *)
(* from which the TLB of PIM (GEM5/gem5/src/mem/ethz_tlb.cc) takes its     *)
(* rules.  It has one entry per pinned page; a run of pages with           *)
(* contiguous frames is one slice, whose range is in the entry of each of  *)
(* its pages.  Addresses and sizes are in bytes.                           *)
(***************************************************************************)
EXTENDS Integers

CONSTANT PAGE_SIZE

ASSUME PageSizeAssumption == PAGE_SIZE \in Nat \ {0}

VARIABLES
  slicetable,    \* PIM_SLICETABLE: the entries, 0 .. PIM_SLICECOUNT - 1
  slicevstart    \* PIM_SLICEVSTART: the virtual address of the first page

Slice == [vaddr : Nat, paddr : Nat, size : Nat]

PageOf(a) == a \div PAGE_SIZE

\* AddrRange::contains, and the address that a rule gives.
Covers(e, a) == e.vaddr <= a /\ a < e.vaddr + e.size
MutTranslate(e, a) == (a % PAGE_SIZE) + e.paddr
Translate(e, a) == a - e.vaddr + e.paddr

\* The entry that a refill for address a reads.
EntryIndex(a) == (a - slicevstart) \div PAGE_SIZE
EntryFor(a) == slicetable[EntryIndex(a)]

\* Pages i and j of a task lie in one slice: the frames from i to j follow each
\* other.  phys[k] is the physical address of page k.
Contiguous(phys, i, j) == phys[j] - phys[i] = PAGE_SIZE * (j - i)
SameSlice(phys, i, j) ==
  \A k \in DOMAIN phys : i <= k /\ k <= j => Contiguous(phys, i, k)

\* The table the driver promises: every page is in the entry of its maximal run
\* of contiguous frames.
TableOf(vstart, phys) ==
  [k \in DOMAIN phys |->
    LET run == {i \in DOMAIN phys : SameSlice(phys, i, k) /\ SameSlice(phys, k, i)}
        first == CHOOSE i \in run : \A j \in run : i <= j
        last == CHOOSE i \in run : \A j \in run : i >= j
    IN [vaddr |-> vstart + PAGE_SIZE * first, paddr |-> phys[first],
        size |-> PAGE_SIZE * (last - first + 1)]]
=============================================================================
