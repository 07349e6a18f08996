-------------------------------- MODULE PimDma --------------------------------
(***************************************************************************)
(* The DMA engine of PIM (ethz_DMA) with the firmware that drives it.  A   *)
(* kernel asks for transfers between main memory and its vector registers  *)
(* (DMA_REQUEST), goes on computing, and sleeps until they are done        *)
(* (DMA_WAIT).  The engine takes one request after the other, slice by     *)
(* slice, through the TLB of PimTlb, and counts the answers of the memory, *)
(* which come in any order.                                                *)
(*                                                                         *)
(* The processor and the engine have clocks of their own, and the one of   *)
(* the processor is configurable: any number of accesses of the processor  *)
(* falls between two ticks of the engine, and the other way round.  The    *)
(* kernel is any program: it may ask for a busy resource, for bytes under  *)
(* way already, or for more while a request is served.  A panic or failing *)
(* assertion of the engine ends the simulation.                            *)
(***************************************************************************)
EXTENDS PimTlb, FiniteSets

CONSTANTS
  Layouts,        \* physical addresses of the task's pages: functions on 0 .. n - 1
  Resources,      \* DMA_RES0, ...
  Transfers,      \* what a kernel transfers: [start, bytes]
  Loads,          \* addresses it loads from by itself
  LINE_SIZE       \* cacheLineSize: a packet to the memory stays within a line

ASSUME DmaAssumption ==
  /\ LINE_SIZE \in Nat \ {0}
  /\ Transfers \subseteq [start : Nat \ {0}, bytes : Nat \ {0}]

VARIABLES
  phys,                   \* where the operating system has put the pages
  requests,               \* the vector of DMARequests, newest first
  current_index, current_state, next_state_scheduled,
  dma_resources,          \* the busy ones: PIM_DMA_STATUS
  packets,                \* sent to the memory and not answered
  intr,                   \* an interrupt is pending at the processor
  pc, waiting,            \* of the firmware; the resources it waits for
  crowded                 \* ghost: a request came before those before it were sent

dmaVars == <<phys, requests, current_index, current_state, next_state_scheduled,
             dma_resources, packets>>
cpuVars == <<intr, pc, waiting>>
vars == <<slicetable, slicevstart, tlbVars, dmaVars, cpuVars, crowded>>

Init ==
  /\ phys \in Layouts
  /\ slicevstart = PAGE_SIZE /\ slicetable = TableOf(PAGE_SIZE, phys)
  /\ TlbInit
  /\ requests = <<>> /\ current_index = 0 /\ current_state = "idle"
  /\ next_state_scheduled = FALSE /\ dma_resources = {} /\ packets = {}
  /\ intr = FALSE /\ pc = "run" /\ waiting = {} /\ crowded = FALSE

\* panic, or an assertion that fails: the simulation ends here.
Panic ==
  /\ pc' = "panic"
  /\ UNCHANGED <<slicetable, slicevstart, tlbVars, dmaVars, intr, waiting, crowded>>

\* The bytes of request i that are still to be sent.
Serving(i) == i = current_index /\ current_state # "idle"
Unsent(i) ==
  IF ~requests[i].issued \/ Serving(i)
  THEN requests[i].mem_vend - requests[i].mem_vstart + 1 ELSE 0

-----------------------------------------------------------------------------
\* The processor

\* postInterrupt wakes a suspended processor; the interrupt stays pending.
PostInterrupt ==
  /\ intr' = TRUE
  /\ pc' = CASE pc = "asleep" -> "cli" [] pc = "parked" -> "disturbed" [] OTHER -> pc

\* DMA_STATE_IDLE: the first request that is not issued is next.
NextRequest(reqs) ==
  LET open == {i \in DOMAIN reqs : ~reqs[i].issued} IN
  IF open = {} THEN current_index' = 0 /\ current_state' = "idle"
  ELSE /\ \E i \in open : IsFirst(i, open) /\ current_index' = i
       /\ current_state' = "refill"

\* "DMA resource is already busy!"
Busy(res) == res \in dma_resources

\* DMA_REQUEST: the COMMAND register calls initiate_read or initiate_write.  The
\* fields asked and moved are ghosts: the transfer, and the bytes moved for it.
Request(res, t) ==
  /\ pc = "run" /\ cpu.st = "idle"
  /\ IF Busy(res) THEN Panic
     ELSE
       /\ dma_resources' = dma_resources \cup {res}
       /\ requests' = <<[res |-> res, vreg |-> 0, mem_vstart |-> t.start,
                         mem_vend |-> t.start + t.bytes - 1, ranges |-> <<>>,
                         left |-> t.bytes, issued |-> FALSE,
                         asked |-> t, moved |-> {}]>> \o requests
       /\ IF next_state_scheduled THEN UNCHANGED <<current_index, current_state>>
          ELSE NextRequest(requests')
       /\ next_state_scheduled' = TRUE
       /\ crowded' = (crowded \/ \E i \in DOMAIN requests : Unsent(i) # 0)
       /\ UNCHANGED <<slicetable, slicevstart, tlbVars, phys, packets, cpuVars>>

\* The kernel loads from the task's data itself, also while transfers are under way.
Load(a) ==
  /\ pc = "run" /\ Access(a)
  /\ UNCHANGED <<slicetable, slicevstart, dmaVars, cpuVars, crowded>>

LoadRefilled ==
  /\ pc # "panic" /\ RefillResponse
  /\ UNCHANGED <<slicetable, slicevstart, dmaVars, cpuVars, crowded>>
LoadAnswered ==
  /\ pc # "panic" /\ Answer
  /\ UNCHANGED <<slicetable, slicevstart, dmaVars, cpuVars, crowded>>

\* DMA_WAIT(R): while (PIM_DMA_STATUS & R) { wfi; PIM_DMA_CLI = 0xFF; }
Wait(R) ==
  /\ pc = "run" /\ cpu.st = "idle"
  /\ pc' = "status" /\ waiting' = R
  /\ UNCHANGED <<slicetable, slicevstart, tlbVars, dmaVars, intr, crowded>>

ReadStatus ==
  /\ pc = "status"
  /\ IF dma_resources \cap waiting # {} THEN pc' = "wfi" /\ UNCHANGED waiting
     ELSE pc' = "run" /\ waiting' = {}
  /\ UNCHANGED <<slicetable, slicevstart, tlbVars, dmaVars, intr, crowded>>

\* wfi does not suspend the processor when an interrupt is pending.
Wfi ==
  /\ pc = "wfi" /\ pc' = IF intr THEN "cli" ELSE "asleep"
  /\ UNCHANGED <<slicetable, slicevstart, tlbVars, dmaVars, intr, waiting, crowded>>

ClearInterrupt ==
  /\ pc = "cli" /\ pc' = "status" /\ intr' = FALSE
  /\ UNCHANGED <<slicetable, slicevstart, tlbVars, dmaVars, waiting, crowded>>

\* The kernel returns, perhaps without having waited for its last transfer.
KernelReturns ==
  /\ pc = "run" /\ cpu.st = "idle" /\ pc' = "looping"
  /\ UNCHANGED <<slicetable, slicevstart, tlbVars, dmaVars, intr, waiting, crowded>>

\* command_done waits for the host's NOP, which outlasts what the engine can still
\* finish; the main loop then clears the interrupt and executes wfi.
Outlasted ==
  /\ packets = {} /\ current_state = "idle" /\ \A i \in DOMAIN requests : requests[i].issued
  /\ requests = <<>> => ~next_state_scheduled
MutMainLoopClears ==
  /\ pc = "looping" /\ Outlasted
  /\ pc' = IF intr THEN "disturbed" ELSE "parked"
  /\ UNCHANGED <<slicetable, slicevstart, tlbVars, dmaVars, intr, waiting, crowded>>
MainLoopClears ==
  /\ pc = "looping" /\ Outlasted
  /\ pc' = "parked" /\ intr' = FALSE
  /\ UNCHANGED <<slicetable, slicevstart, tlbVars, dmaVars, waiting, crowded>>

\* The host's interrupt is posted and cleared at once.
NextCommand ==
  /\ pc = "parked" /\ pc' = "run"
  /\ UNCHANGED <<slicetable, slicevstart, tlbVars, dmaVars, intr, waiting, crowded>>

-----------------------------------------------------------------------------
\* The engine: nextState, once per tick while it is scheduled

Tick == next_state_scheduled /\ pc # "panic"

\* Nothing left: the engine stops, and posts an interrupt in any case.
MutStop ==
  /\ Tick /\ requests = <<>>
  /\ current_state' = "idle" /\ current_index' = 0 /\ crowded' = FALSE
  /\ UNCHANGED <<slicetable, slicevstart, tlbVars, phys, requests, next_state_scheduled,
                 dma_resources, packets, cpuVars>>
Stop ==
  /\ Tick /\ requests = <<>>
  /\ current_state' = "idle" /\ current_index' = 0 /\ next_state_scheduled' = FALSE
  /\ PostInterrupt /\ crowded' = FALSE
  /\ UNCHANGED <<slicetable, slicevstart, tlbVars, phys, requests, dma_resources, packets,
                 waiting>>

\* DMA_STATE_IDLE.  With all requests issued the engine polls.
Idle ==
  /\ Tick /\ requests # <<>> /\ current_state = "idle"
  /\ NextRequest(requests)
  /\ UNCHANGED <<slicetable, slicevstart, tlbVars, phys, requests, next_state_scheduled,
                 dma_resources, packets, cpuVars, crowded>>

\* requests[current_index].  Requests have been put in front and erased since the
\* index was taken: it may designate another one.  Beyond the end of the vector it
\* reads what an erase has left there, one of the requests, or something that stops
\* the simulator.
Designated == IF current_index \in DOMAIN requests THEN {current_index} ELSE DOMAIN requests
BeyondEnd ==
  /\ Tick /\ current_state # "idle" /\ requests # <<>>
  /\ current_index \notin DOMAIN requests /\ Panic

\* DMA_STATE_TLBREFILL: the rule for the next byte is taken from the slice table,
\* unless the processor's own miss is fetching that entry (refillTLB_functional
\* panics: "this situation is not very bad, but we avoid it for now").
TlbWith(a) == IF Hits(tlb, a) # {} THEN tlb ELSE updateTLB(tlb, EntryFor(a))
TlbRefill ==
  /\ Tick /\ current_state = "refill"
  /\ \E i \in Designated :
       LET a == requests[i].mem_vstart
           more == a < requests[i].mem_vend
       IN IF more /\ Hits(tlb, a) = {} /\ EntryIndex(a) \in refills.pending THEN Panic
          ELSE /\ requests' = [requests EXCEPT ![i].issued = TRUE]
               /\ current_state' = IF more THEN "transfer" ELSE "idle"
               /\ tlb' = IF more THEN TlbWith(a) ELSE tlb
               /\ UNCHANGED <<slicetable, slicevstart, ideal, refills, cpu, busy, phys,
                              current_index, next_state_scheduled, dma_resources, packets,
                              cpuVars, crowded>>

\* nextSubRequest: what follows byte vend of a request, if anything does.
MutHasNext(req, vend) == vend + 2 < req.mem_vend
HasNext(req, vend) == vend + 1 < req.mem_vend

\* The last byte that one transfer takes: of the slice, or of the request.
MutTransferEnd(req, rule) == req.mem_vend
TransferEnd(req, rule) ==
  LET slice_vend == rule.vaddr + rule.size - 1
  IN IF slice_vend < req.mem_vend THEN slice_vend ELSE req.mem_vend

\* dmaAction splits a transfer at the lines of the memory: one packet for the part
\* that lies in each line, with its place in the vector.
Packets(req, range) ==
  {LET addr == IF line * LINE_SIZE < range.pstart THEN range.pstart ELSE line * LINE_SIZE
       next == (line + 1) * LINE_SIZE
   IN [res |-> req.res, addr |-> addr, vreg |-> req.vreg + addr - range.pstart,
       size |-> (IF next <= range.pend THEN next ELSE range.pend + 1) - addr] :
     line \in range.pstart \div LINE_SIZE .. range.pend \div LINE_SIZE}

\* DMA_STATE_TRANSFER: the part of the request that lies in the slice is sent.  The
\* rule is looked up again; slice_vend panics when it has gone.
Transfer ==
  /\ Tick /\ current_state = "transfer"
  /\ \E i \in Designated :
       LET req == requests[i] IN
       \/ Hits(tlb, req.mem_vstart) = {} /\ Panic
       \/ \E k \in 1 .. Len(tlb.rules) :
            LET rule == tlb.rules[k]
                vend == TransferEnd(req, rule)
                range == [pstart |-> Translate(rule, req.mem_vstart),
                          pend |-> Translate(rule, vend)]
                diff == IF HasNext(req, vend) THEN vend + 1 - req.mem_vstart ELSE 0
            IN /\ IsFirst(k, Hits(tlb, req.mem_vstart))
               /\ packets' = packets \cup Packets(req, range)
               /\ requests' = [requests EXCEPT ![i] =
                    [req EXCEPT !.ranges = Append(@, range),
                                !.mem_vstart = @ + diff, !.vreg = @ + diff]]
               /\ current_state' = IF HasNext(req, vend) THEN "refill" ELSE "idle"
               /\ UNCHANGED <<slicetable, slicevstart, tlbVars, phys, current_index,
                              next_state_scheduled, dma_resources, cpuVars, crowded>>

\* handle_packet: the answer to packet p is counted for the request with the range
\* that holds it; with two such ranges, or none, the simulation ends.  With its last
\* byte the request goes, its resource is free, and the processor is interrupted if
\* it is suspended at that moment.
Holds(range, p) == range.pstart <= p.addr /\ p.addr <= range.pend
Owners(p) ==
  UNION {{i} \X {j \in DOMAIN requests[i].ranges : Holds(requests[i].ranges[j], p)} :
           i \in DOMAIN requests}
Remaining(req, p) == req.left - p.size
MutFreed(res) == {}
Freed(res) == dma_resources \ {res}
Erased(reqs, i) == Without(reqs, i)
BytesOf(p) == {<<p.vreg + k, p.addr + k>> : k \in 0 .. p.size - 1}
Counted(i, p) ==
  [k \in DOMAIN requests |->
     [requests[k] EXCEPT !.left = IF k = i THEN Remaining(requests[i], p) ELSE @,
                         !.moved = IF requests[k].res = p.res THEN @ \cup BytesOf(p) ELSE @]]
HandlePacket(p) ==
  /\ pc # "panic"
  /\ IF Cardinality(Owners(p)) # 1 THEN Panic
     ELSE \E o \in Owners(p) :
       LET i == o[1]
           left == Remaining(requests[i], p)
       IN IF left < 0 THEN Panic
          ELSE /\ IF left > 0
                  THEN requests' = Counted(i, p) /\ UNCHANGED <<dma_resources, intr, pc>>
                  ELSE /\ requests' = Erased(Counted(i, p), i)
                       /\ dma_resources' = Freed(requests[i].res)
                       /\ IF pc \in {"asleep", "parked"} THEN PostInterrupt
                          ELSE UNCHANGED <<intr, pc>>
               /\ packets' = packets \ {p}
               /\ UNCHANGED <<slicetable, slicevstart, tlbVars, phys, current_index,
                              current_state, next_state_scheduled, waiting, crowded>>

-----------------------------------------------------------------------------
Engine == Stop \/ Idle \/ TlbRefill \/ Transfer \/ BeyondEnd
Firmware == ReadStatus \/ Wfi \/ ClearInterrupt
Memory == LoadRefilled \/ LoadAnswered \/ \E p \in packets : HandlePacket(p)

Next ==
  \/ \E res \in Resources, t \in Transfers : Request(res, t)
  \/ \E a \in Loads : Load(a)
  \/ \E R \in SUBSET Resources : R # {} /\ Wait(R)
  \/ KernelReturns \/ MainLoopClears \/ NextCommand
  \/ Engine \/ Firmware \/ Memory
  \/ pc = "panic" /\ UNCHANGED vars

\* The simulator goes on with the events it has.
Spec == Init /\ [][Next]_vars /\ WF_vars(Engine \/ Firmware \/ Memory)

-----------------------------------------------------------------------------
\* The engine's registers, its requests and the firmware's state have their types.
TypeOK ==
  /\ Len(requests) <= Cardinality(Resources)
  /\ current_index \in 0 .. Cardinality(Resources)
  /\ current_state \in {"idle", "refill", "transfer"}
  /\ dma_resources \subseteq Resources
  /\ pc \in {"run", "status", "wfi", "asleep", "cli", "looping", "parked", "disturbed", "panic"}

\* The bytes a transfer is to move, each from its place in the vector to the frame in
\* which the operating system keeps it, or back.
HostByte(a) == phys[PageOf(a) - 1] + (a % PAGE_SIZE)
Meant(t) == {<<k, HostByte(t.start + k)>> : k \in 0 .. t.bytes - 1}
UnderWay(i) == UNION {BytesOf(p) : p \in {q \in packets : q.res = requests[i].res}}

\* Request i lacks more than the engine will still send for it.
Lost(i) == requests[i].left > Unsent(i) + Cardinality(UnderWay(i))

\* nextState, slice_vend, nextSubRequest, dmaAction: whatever the kernel asks for and
\* loads while requests are served, every packet moves bytes of the transfer it was
\* sent for, at their places, over all slices and replacements of rules; and a
\* request lacks the bytes that have not been moved, never fewer.
RightBytes ==
  /\ TypeOK
  /\ \A p \in packets : \E i \in DOMAIN requests :
       requests[i].res = p.res /\ BytesOf(p) \subseteq Meant(requests[i].asked)
  /\ \A i \in DOMAIN requests :
       requests[i].left = requests[i].asked.bytes - Cardinality(requests[i].moved)

\* initiate_read, initiate_write, handle_packet: when PIM_DMA_STATUS shows a resource
\* as free again, on which DMA_WAIT returns, all bytes of its transfer have been moved
\* and no others, however the requests have overlapped.
DoneWhenFree ==
  [][\A r \in dma_resources \ dma_resources' : \A i \in DOMAIN requests :
       requests[i].res = r =>
         requests[i].moved \cup UNION {BytesOf(p) : p \in packets \ packets'}
           = Meant(requests[i].asked)]_vars

\* nextState, current_index: unless a request comes before those before it have been
\* sent, the engine loses none: what a request lacks is under way or still to be
\* sent.
NothingLost == crowded \/ \A i \in DOMAIN requests : ~Lost(i)

\* The closing interrupt of the engine never wakes the firmware's main loop, which
\* would take it for a command of the host.
ParkedUndisturbed == pc # "disturbed"

\* DMA_WAIT returns, although a completion is announced only to a processor that is
\* already suspended, unless the simulation ends or the engine has lost the rest of
\* a request.
WaitReturns ==
  (pc = "status") ~> (pc \in {"run", "panic"} \/ \E i \in DOMAIN requests : Lost(i))
=============================================================================
