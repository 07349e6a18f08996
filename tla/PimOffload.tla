------------------------------ MODULE PimOffload ------------------------------
(***************************************************************************)
(* From the application's data to PIM's accesses: the task and the driver  *)
(* of PimTask build the slice table, and the TLB of PimTlb takes its rules *)
(* from it when a kernel accesses the data of the task.                    *)
(***************************************************************************)
EXTENDS PimTask, PimTlb

VARIABLE recent    \* history: the address whose rule was used or fetched last

vars == <<taskVars, tlbVars, recent>>

Init == TaskInit /\ TlbInit /\ recent = 0

\* The kernel runs once the driver has returned; it accesses the task's data, at
\* the addresses in PIM's scalar registers.
KernelAccess == phase = "offloaded" /\ \E a \in DataAddresses : Access(a)
KernelRefill ==
  /\ phase = "offloaded"
  /\ \E a \in DataAddresses :
       IdealRefill(a) /\ recent' = IF Hits(tlb, a) = {} THEN a ELSE recent

Hardware ==
  \/ \E refused \in BOOLEAN : BusRetry(refused)
  \/ RefillResponse \/ Answer \/ (phase = "offloaded" /\ BusTraffic)

\* A step of the kernel or of the hardware below it, with the history kept.
OnPim(A) ==
  /\ A
  /\ recent' = IF cpu'.remapped THEN cpu'.addr ELSE recent
  /\ UNCHANGED taskVars

Next ==
  \/ TaskNext /\ UNCHANGED <<tlbVars, recent>>
  \/ KernelRefill /\ UNCHANGED taskVars
  \/ OnPim(KernelAccess \/ Hardware)

Fairness ==
  /\ WF_vars(OnPim(RefillResponse))
  /\ WF_vars(OnPim(Answer))
  /\ WF_vars(OnPim(\E refused \in BOOLEAN : BusRetry(refused)))
  /\ SF_vars(OnPim(BusRetry(FALSE)))

SafeSpec == Init /\ [][Next]_vars
Spec == SafeSpec /\ Fairness

\* The state of the offload, the TLB and the access are of their types, ranks are
\* a permutation, and the TLB has no more rules than places.
TypeOK ==
  /\ phase \in {"adding", "updating", "merging", "offloaded", "rejected", "scattered"}
  /\ data \in Seq(Ranges) /\ it \in 1 .. Len(data) + 1
  /\ next \in 0 .. count + 1
  /\ DOMAIN tlb.rules = DOMAIN tlb.lastUsed
  /\ Len(tlb.rules) <= TLB_SIZE - 1
  /\ {tlb.lastUsed[k] : k \in DOMAIN tlb.rules} = DOMAIN tlb.rules
  /\ cpu.st \in {"idle", "stalled", "refused", "sent"}

\* updatePages: the ranges are exactly the pages of the data sets, in order, with
\* a page between two of them that no data set occupies.
PagesExact ==
  phase \in {"merging", "offloaded", "scattered"} =>
    /\ \A p \in VirtualPages :
         (\E k \in 1 .. Len(vpages) : p \in vpages[k].v_pn_start .. vpages[k].v_pn_end)
           <=> (\E k \in 1 .. Len(data) : p \in StartPage(data[k]) .. EndPage(data[k]))
    /\ \A k \in 2 .. Len(vpages) : vpages[k].v_pn_start > vpages[k - 1].v_pn_end + 1

\* pim_create_slice_table: the table is the one with maximal slices, but for a
\* last slice that the word behind the array has made one page longer.
TableIsMaximal ==
  phase = "offloaded" =>
    LET ref == TableOf(slicevstart, [k \in 0 .. count - 1 |-> physical_addr[k]]) IN
    \A k \in 0 .. count - 1 :
      \/ slicetable[k] = ref[k]
      \/ /\ next = count + 1
         /\ slicetable[k] = [ref[k] EXCEPT !.size = @ + PAGE_SIZE]
         /\ ref[k] = ref[count - 1]

\* An access of the kernel reaches the byte that the operating system keeps at
\* that address of the application, whatever was merged, refilled, evicted and
\* retried on the way.
ReachesPinnedByte ==
  cpu.remapped => cpu.paddr = HostAddress(cpu.addr)

\* The processor never waits for a refill that is not under way, and no refill is
\* under way that nobody waits for (pending_refills).
StalledOnRefill ==
  LET wanted == IF cpu.st = "stalled" THEN {EntryIndex(cpu.addr)} ELSE {}
  IN refills = [pending |-> wanted, reads |-> wanted]

\* No slice has two rules: remap and slice_vend look at the first only.
OneRulePerSlice ==
  \A j, k \in DOMAIN tlb.rules : tlb.rules[j] = tlb.rules[k] => j = k

\* updateTLB: the rule used last survives the next replacement.
MostRecentKept ==
  [][Len(tlb.rules) >= 2 /\ Hits(tlb, recent) # {} => Hits(tlb', recent) # {}]_vars

\* Every access of the kernel is answered: a miss, a refused refill and a refused
\* access are all tried again.
AccessAnswered == (cpu.st # "idle") ~> (cpu.st = "idle")
=============================================================================
