------------------------------- MODULE PimTask -------------------------------
(***************************************************************************)
(* How a task's data becomes a slice table.  The application registers     *)
(* data sets (PIMTask::addData), PIMAPI::offload_task computes the pages   *)
(* they occupy (PIMTask::updatePages), and the driver pins these pages and *)
(* merges contiguous ones into slices (pim_create_slice_table).  This is   *)
(* the build with DEBUG_API, the default, whose checks end the program     *)
(* (phases "rejected" and "scattered"), and with PIM_MERGE_SLICES.  The    *)
(* checks change nothing else: a task that passes them goes the same way   *)
(* in a build without.                                                     *)
(***************************************************************************)
EXTENDS SliceTable, Sequences

CONSTANTS
  Ranges,         \* data sets an application may add: [v_addr, size]
  MaxData,        \* bound on the data sets of a task
  VirtualPages,   \* the pages reserved for PIM in the application
  Frames          \* physical addresses of pages

ASSUME TaskAssumption ==
  /\ MaxData \in Nat
  /\ VirtualPages \subseteq Nat \ {0}
  /\ Ranges \subseteq [v_addr : Nat \ {0}, size : Nat \ {0}]
  /\ \A r \in Ranges :
       PageOf(r.v_addr) .. PageOf(r.v_addr + r.size - 1) \subseteq VirtualPages
  /\ \A f \in Frames : f \in Nat /\ f % PAGE_SIZE = 0

VARIABLES
  phase,          \* of the offload
  data,           \* PIMTask::data, in ascending order of v_addr
  it,             \* the data set updatePages looks at
  page,           \* its current range of pages
  vpages,         \* the ranges it has finished
  pagetable,      \* the operating system's, for the pinned pages: page -> frame
  count,          \* pages.count
  physical_addr,  \* pages.physical_addr and the word behind the array
  next            \* i of pim_create_slice_table

taskVars == <<phase, data, it, page, vpages, pagetable, count, physical_addr, next,
              slicetable, slicevstart>>

End(d) == d.v_addr + d.size - 1
StartPage(d) == PageOf(d.v_addr)
EndPage(d) == PageOf(End(d))

NoPage == [v_pn_start |-> 0, v_pn_end |-> 0]

TaskInit ==
  /\ phase = "adding" /\ data = <<>>
  /\ it = 1 /\ page = NoPage /\ vpages = <<>>
  /\ pagetable = <<>>
  /\ count = 0 /\ physical_addr = <<>> /\ next = 0
  /\ slicetable = <<>> /\ slicevstart = 0

\* The set r is inserted in front of the first one with a larger address.
AddData(r) ==
  /\ phase = "adding" /\ Len(data) < MaxData
  /\ \E k \in 1 .. Len(data) + 1 :
       /\ \A j \in 1 .. k - 1 : data[j].v_addr <= r.v_addr
       /\ k <= Len(data) => data[k].v_addr > r.v_addr
       /\ data' = [j \in 1 .. Len(data) + 1 |->
                    IF j < k THEN data[j] ELSE IF j = k THEN r ELSE data[j - 1]]
  /\ UNCHANGED <<phase, it, page, vpages, pagetable, count, physical_addr, next,
                 slicetable, slicevstart>>

OffloadTask ==
  /\ phase = "adding" /\ data # <<>>
  /\ phase' = "updating"
  /\ UNCHANGED <<data, it, page, vpages, pagetable, count, physical_addr, next,
                 slicetable, slicevstart>>

\* The range of pages under way reaches the page before the one d starts on.
MutAdjacent(d) == it > 1 /\ page.v_pn_end >= StartPage(d) - 2
Adjacent(d) == it > 1 /\ page.v_pn_end >= StartPage(d) - 1

\* One turn of the loop of updatePages; the check of DEBUG_API (exit) rejects data
\* sets that overlap.
UpdatePages ==
  /\ phase = "updating" /\ it <= Len(data)
  /\ LET d == data[it] IN
       /\ IF Adjacent(d)
          THEN page' = [page EXCEPT !.v_pn_end = EndPage(d)] /\ UNCHANGED vpages
          ELSE /\ page' = [v_pn_start |-> StartPage(d), v_pn_end |-> EndPage(d)]
               /\ vpages' = IF it > 1 THEN Append(vpages, page) ELSE vpages
       /\ phase' = IF it > 1 /\ End(data[it - 1]) > d.v_addr THEN "rejected" ELSE phase
  /\ it' = it + 1
  /\ UNCHANGED <<data, pagetable, count, physical_addr, next, slicetable, slicevstart>>

\* The end of updatePages and the call of the driver: offload_task takes exactly
\* one range (ASSERT_DBG, for DEBUG_API), whose pages get pinned, each in the frame
\* it happens to be in; the pinning succeeds.  Behind the array of their addresses
\* is whatever the allocator left there.
PinPages ==
  /\ phase = "updating" /\ it > Len(data)
  /\ vpages' = Append(vpages, page)
  /\ IF Len(vpages') = 1
     THEN /\ phase' = "merging"
          /\ count' = page.v_pn_end - page.v_pn_start + 1
          /\ slicevstart' = PAGE_SIZE * page.v_pn_start
          /\ pagetable' \in [page.v_pn_start .. page.v_pn_end -> Frames]
          /\ \A p, q \in DOMAIN pagetable' : p # q => pagetable'[p] # pagetable'[q]
          /\ \E word \in Frames :
               physical_addr' = [k \in 0 .. count' |->
                 IF k < count' THEN pagetable'[page.v_pn_start + k] ELSE word]
     ELSE phase' = "scattered" /\ UNCHANGED <<count, slicevstart, pagetable, physical_addr>>
  /\ UNCHANGED <<data, it, page, next, slicetable>>

\* Where the search for contiguous pages stops: it starts unless i is the last
\* page, and it can pass the end of the array by the word behind it.
MutStops(c) ==
  IF next < count - 2
  THEN next + c <= count => ~Contiguous(physical_addr, next, next + c)
  ELSE c = 1
Stops(c) ==
  IF next < count - 1
  THEN next + c <= count => ~Contiguous(physical_addr, next, next + c)
  ELSE c = 1

\* One turn of the loop of pim_create_slice_table: c pages from i on make a slice.
\* When the word behind the array continues the frames, the code writes the entry
\* behind the table too, which no address of the task's pages has for its own.
MergeSlice ==
  /\ phase = "merging" /\ next < count
  /\ \E c \in 1 .. count + 1 - next :
       /\ \A k \in 1 .. c - 1 : Contiguous(physical_addr, next, next + k)
       /\ Stops(c)
       /\ slicetable' = [k \in 0 .. count - 1 |->
            IF k \in next .. next + c - 1
            THEN [vaddr |-> slicevstart + PAGE_SIZE * next,
                  paddr |-> physical_addr[next], size |-> PAGE_SIZE * c]
            ELSE IF k < next THEN slicetable[k]
            ELSE [vaddr |-> 0, paddr |-> 0, size |-> 0]]
       /\ next' = next + c
  /\ UNCHANGED <<phase, data, it, page, vpages, pagetable, count, physical_addr, slicevstart>>

\* The driver gives the table to PIM and flushes the caches, which puts it and
\* the data in main memory.
SendTable ==
  /\ phase = "merging" /\ next >= count
  /\ phase' = "offloaded"
  /\ UNCHANGED <<data, it, page, vpages, pagetable, count, physical_addr, next,
                 slicetable, slicevstart>>

TaskNext ==
  \/ \E r \in Ranges : AddData(r)
  \/ OffloadTask \/ UpdatePages \/ PinPages \/ MergeSlice \/ SendTable

\* The addresses of the task's data, and where the operating system has put them.
DataAddresses ==
  UNION {data[k].v_addr .. End(data[k]) : k \in 1 .. Len(data)}
HostAddress(a) == pagetable[PageOf(a)] + (a % PAGE_SIZE)
=============================================================================
