--------------------------- MODULE PimOffloadProofs ---------------------------
(***************************************************************************)
(* An access of a kernel reaches the pinned byte, for every page size,     *)
(* every size of the TLB, all data sets and all placements of the pages.   *)
(*                                                                         *)
(* ReachesPinnedByte is not inductive.  IInv adds to what PimTaskProofs    *)
(* says of the slice table that the rules of the TLB translate right       *)
(* (GoodTlb), that the rule used last has the highest rank (Recent), and   *)
(* that an access is for data of the task (GoodAccess).                    *)
(***************************************************************************)
EXTENDS PimOffload, PimTaskProofs, PimTlbProofs

GoodTlb(t) ==
  /\ Ranked(t) /\ Fits(t) /\ Distinct(t)
  /\ \A k \in 1 .. Len(t.rules) : Right(t.rules[k])

\* The rule for x, if there is one, was used last.
Recent(t, x) ==
  Hits(t, x) # {} => \E k \in Hits(t, x) : t.lastUsed[k] = Len(t.rules)

KeptIn(t, u, x) == Len(t.rules) >= 2 /\ Hits(t, x) # {} => Hits(u, x) # {}

NoRefills == [pending |-> {}, reads |-> {}]
Packet == [st : {"idle", "stalled", "refused", "sent"}, addr : Nat, paddr : Int,
           remapped : BOOLEAN]

GoodAccess ==
  /\ cpu \in Packet
  /\ cpu.st = "idle" => cpu = NoAccess
  /\ cpu.st # "idle" => phase = "offloaded" /\ cpu.addr \in DataAddresses
  /\ cpu.st = "stalled" => ~cpu.remapped /\ Hits(tlb, cpu.addr) = {}
  /\ cpu.remapped => recent = cpu.addr

TlbInv ==
  /\ ideal \in BOOLEAN /\ busy \in BOOLEAN
  /\ phase # "offloaded" => tlb.rules = <<>>
  /\ GoodTlb(tlb) /\ Recent(tlb, recent)
  /\ GoodAccess /\ ReachesPinnedByte /\ StalledOnRefill

IInv == TaskInv /\ TlbInv

-----------------------------------------------------------------------------
\* The TLB.

\* updateTLB with the rule for an address that missed.
LEMMA RefillStep ==
  ASSUME NEW t, GoodTlb(t), NEW rule \in Slice, Right(rule),
         NEW a \in Nat, Covers(rule, a), Hits(t, a) = {}
  PROVE  LET u == updateTLB(t, rule) IN
         /\ GoodTlb(u) /\ Hits(u, a) # {} /\ Recent(u, a)
         /\ \A x : Recent(t, x) => KeptIn(t, u, x)
<1> DEFINE u == updateTLB(t, rule)
           n == Len(t.rules)
           l == Len(u.rules)
<1>1. /\ Ranked(u) /\ Fits(u) /\ l \in Nat \ {0} /\ u.rules[l] = rule /\ u.lastUsed[l] = l
      /\ \A k \in 1 .. l - 1 : \E j \in 1 .. n : u.rules[k] = t.rules[j]
      /\ Distinct(t) /\ (\A j \in 1 .. n : t.rules[j] # rule) => Distinct(u)
      /\ \A j \in 1 .. n : t.lastUsed[j] # 1 => \E k \in 1 .. l : u.rules[k] = t.rules[j]
  BY UpdateProperties DEF GoodTlb
<1>2. \A j \in 1 .. n : t.rules[j] # rule
  BY DEF Hits
<1>3. Distinct(u)
  BY <1>1, <1>2 DEF GoodTlb
<1> HIDE DEF u
<1>4. \A k \in 1 .. l : Right(u.rules[k])
  <2> TAKE k \in 1 .. l
  <2>1. CASE k = l
    BY <1>1, <2>1
  <2>2. CASE k # l
    <3>1. k \in 1 .. l - 1
      BY <1>1, <2>2
    <3>2. PICK j \in 1 .. n : u.rules[k] = t.rules[j]
      BY <1>1, <3>1
    <3> QED
      BY <3>2 DEF GoodTlb
  <2> QED
    BY <2>1, <2>2
<1>5. l \in Hits(u, a)
  BY <1>1 DEF Hits
<1>6. ASSUME NEW x, Recent(t, x), n >= 2, Hits(t, x) # {}
      PROVE  Hits(u, x) # {}
  <2>1. PICK j \in Hits(t, x) : t.lastUsed[j] = n
    BY <1>6 DEF Recent
  <2>2. j \in 1 .. n /\ Covers(t.rules[j], x) /\ t.lastUsed[j] # 1
    BY <1>6, <2>1 DEF Hits
  <2>3. PICK k \in 1 .. l : u.rules[k] = t.rules[j]
    BY <1>1, <2>2
  <2> QED
    BY <2>2, <2>3 DEF Hits
<1> QED
  BY <1>1, <1>3, <1>4, <1>5, <1>6 DEF GoodTlb, Recent, KeptIn, u

\* remap with the first rule for an address.
LEMMA TouchStep ==
  ASSUME NEW t, GoodTlb(t), NEW a \in Nat, NEW k \in Hits(t, a)
  PROVE  LET u == Touch(t, k) IN
         GoodTlb(u) /\ u.rules = t.rules /\ Recent(u, a)
<1> DEFINE u == Touch(t, k)
<1>1. k \in 1 .. Len(t.rules) /\ Covers(t.rules[k], a)
  BY DEF Hits
<1>2. Ranked(u) /\ u.rules = t.rules /\ u.lastUsed[k] = Len(t.rules)
  BY <1>1, TouchProperties DEF GoodTlb
<1> HIDE DEF u
<1>3. k \in Hits(u, a)
  BY <1>1, <1>2 DEF Hits
<1>4. Fits(u) /\ Distinct(u) /\ \A j \in 1 .. Len(u.rules) : Right(u.rules[j])
  BY <1>2 DEF GoodTlb, Fits, Distinct
<1> QED
  BY <1>2, <1>3, <1>4 DEF GoodTlb, Recent, u

\* What a step of the TLB makes of a packet.
Outcome(pkt) ==
  /\ cpu' \in Packet /\ cpu'.st \in {"stalled", "refused", "sent"} /\ cpu'.addr = pkt.addr
  /\ cpu'.st = "stalled" =>
       /\ ~cpu'.remapped /\ Hits(tlb', pkt.addr) = {}
       /\ refills' = [pending |-> {EntryIndex(pkt.addr)}, reads |-> {EntryIndex(pkt.addr)}]
  /\ cpu'.st # "stalled" => refills' = NoRefills
  /\ cpu'.remapped => cpu'.paddr = HostAddress(pkt.addr)

\* What the port does with a translated packet is an outcome of the access.
LEMMA ForwardStep ==
  ASSUME NEW t, GoodTlb(t), NEW pkt \in Packet, NEW refused \in BOOLEAN,
         PageOf(pkt.addr) \in page.v_pn_start .. page.v_pn_end,
         Forward(t, pkt, refused), refills' = NoRefills
  PROVE  /\ GoodTlb(tlb') /\ tlb'.rules = t.rules /\ Recent(tlb', pkt.addr)
         /\ Outcome(pkt) /\ cpu'.remapped
<1>1. PICK k \in 1 .. Len(t.rules) :
        /\ IsFirst(k, Hits(t, pkt.addr))
        /\ tlb' = Touch(t, k)
        /\ cpu' = [pkt EXCEPT !.st = IF refused THEN "refused" ELSE "sent",
                              !.paddr = Translate(t.rules[k], pkt.addr), !.remapped = TRUE]
  BY DEF Forward
<1>2. pkt.addr \in Nat /\ k \in Hits(t, pkt.addr) /\ Covers(t.rules[k], pkt.addr)
  BY <1>1 DEF IsFirst, Packet, Hits
<1>3. GoodTlb(tlb') /\ tlb'.rules = t.rules /\ Recent(tlb', pkt.addr)
  BY <1>1, <1>2, TouchStep
<1>4. Translate(t.rules[k], pkt.addr) = HostAddress(pkt.addr)
  BY <1>2 DEF GoodTlb, Right
<1>5. Translate(t.rules[k], pkt.addr) \in Int
  <2>1. t.rules[k] \in Slice
    BY ElementOfSeq DEF GoodTlb, Ranked
  <2> QED
    BY <1>2, <2>1 DEF Slice, Translate
<1>6. /\ cpu'.st \in {"refused", "sent"} /\ cpu'.addr = pkt.addr /\ cpu'.remapped
      /\ cpu'.paddr = Translate(t.rules[k], pkt.addr) /\ cpu' \in Packet
  BY <1>1, <1>5 DEF Packet
<1> QED
  BY <1>3, <1>4, <1>6 DEF Outcome

\* recvTimingReq without a refill under way.
LEMMA RecvStep ==
  ASSUME TaskInv, phase = "offloaded", NEW t, GoodTlb(t), NEW refused \in BOOLEAN,
         NEW pkt \in Packet, pkt.addr \in DataAddresses,
         pkt.remapped => pkt.paddr = HostAddress(pkt.addr) /\ recent = pkt.addr,
         \/ Hits(t, pkt.addr) # {} /\ ~pkt.remapped
         \/ Recent(t, recent),
         RecvTimingReq(t, NoRefills, pkt, refused),
         recent' = IF cpu'.remapped THEN cpu'.addr ELSE recent
  PROVE  /\ GoodTlb(tlb') /\ Recent(tlb', recent') /\ Outcome(pkt)
         /\ cpu'.remapped => recent' = pkt.addr
         /\ Hits(t, pkt.addr) # {} \/ pkt.remapped => tlb'.rules = t.rules
         /\ Recent(t, recent) => KeptIn(t, tlb', recent)
<1> DEFINE a == pkt.addr
<1>1. /\ a \in Nat /\ PageOf(a) \in page.v_pn_start .. page.v_pn_end
      /\ EntryFor(a) \in Slice /\ Right(EntryFor(a)) /\ Covers(EntryFor(a), a)
  BY DataPinned
<1>2. CASE pkt.remapped
  <2>1. /\ cpu' = [pkt EXCEPT !.st = IF refused THEN "refused" ELSE "sent"]
        /\ tlb' = t /\ refills' = NoRefills
    BY <1>2 DEF RecvTimingReq
  <2>2. /\ cpu' \in Packet /\ cpu'.st \in {"refused", "sent"} /\ cpu'.addr = a
        /\ cpu'.paddr = pkt.paddr /\ cpu'.remapped
    BY <1>2, <2>1 DEF Packet
  <2>3. recent' = a /\ recent = a
    BY <1>2, <2>2
  <2>4. Outcome(pkt)
    BY <1>2, <2>1, <2>2 DEF Outcome
  <2> QED
    BY <1>2, <2>1, <2>3, <2>4 DEF KeptIn
<1>3. CASE ~pkt.remapped /\ Hits(t, a) # {}
  <2>1. Forward(t, pkt, refused) /\ refills' = NoRefills
    BY <1>3 DEF RecvTimingReq
  <2>2. /\ GoodTlb(tlb') /\ tlb'.rules = t.rules /\ Recent(tlb', a)
        /\ Outcome(pkt) /\ cpu'.remapped
    BY <1>1, <2>1, ForwardStep
  <2>3. recent' = a
    BY <2>2 DEF Outcome
  <2> QED
    BY <2>2, <2>3 DEF KeptIn, Hits
<1>4. CASE ~pkt.remapped /\ Hits(t, a) = {} /\ ideal
  <2> DEFINE u == updateTLB(t, EntryFor(a))
  <2>1. Forward(u, pkt, refused) /\ refills' = NoRefills
    BY <1>4 DEF RecvTimingReq
  <2>2. GoodTlb(u) /\ (Recent(t, recent) => KeptIn(t, u, recent))
    BY <1>1, <1>4, RefillStep
  <2> HIDE DEF u
  <2>3. /\ GoodTlb(tlb') /\ tlb'.rules = u.rules /\ Recent(tlb', a)
        /\ Outcome(pkt) /\ cpu'.remapped
    BY <1>1, <2>1, <2>2, ForwardStep
  <2>4. recent' = a
    BY <2>3 DEF Outcome
  <2> QED
    BY <1>4, <2>2, <2>3, <2>4 DEF KeptIn, Hits
<1>5. CASE ~pkt.remapped /\ Hits(t, a) = {} /\ ~ideal
  <2>1. /\ tlb' = t
        /\ RefillTiming(NoRefills, EntryIndex(a), refused)
        /\ cpu' = [pkt EXCEPT !.st = IF refused THEN "refused" ELSE "stalled"]
    BY <1>5 DEF RecvTimingReq, NoRefills
  <2>2. /\ cpu' \in Packet /\ cpu'.addr = a /\ ~cpu'.remapped
        /\ cpu'.st = IF refused THEN "refused" ELSE "stalled"
    BY <1>5, <2>1 DEF Packet
  <2>3. Outcome(pkt)
    BY <1>5, <2>1, <2>2 DEF Outcome, RefillTiming, NoRefills
  <2>4. recent' = recent
    BY <2>2
  <2> QED
    BY <1>5, <2>1, <2>2, <2>3, <2>4 DEF KeptIn
<1> QED
  BY <1>2, <1>3, <1>4, <1>5

-----------------------------------------------------------------------------
\* The composition.

\* Before the offload the TLB is empty and nothing is pending.
LEMMA InitIInv == Init => IInv
<1> SUFFICES ASSUME Init PROVE IInv
  OBVIOUS
<1>1. TaskInv
  BY InitTaskInv DEF Init
<1>2. Len(tlb.rules) = 0 /\ tlb = [rules |-> <<>>, lastUsed |-> <<>>]
  BY DEF Init, TlbInit
<1>3. tlb \in [rules : Seq(Slice), lastUsed : Seq(Nat)] /\ Len(tlb.lastUsed) = 0
  BY <1>2
<1>4. GoodTlb(tlb)
  BY <1>2, <1>3, TlbSizeAssumption DEF GoodTlb, Ranked, Fits, Distinct
<1>5. Hits(tlb, recent) = {}
  BY <1>2 DEF Hits
<1>6. cpu = NoAccess /\ refills = NoRefills /\ ideal \in BOOLEAN /\ busy \in BOOLEAN
  BY DEF Init, TlbInit, NoRefills
<1>7. GoodAccess /\ ReachesPinnedByte /\ StalledOnRefill
  BY <1>6 DEF GoodAccess, NoAccess, Packet, ReachesPinnedByte, StalledOnRefill, NoRefills
<1> QED
  BY <1>1, <1>2, <1>4, <1>5, <1>6, <1>7 DEF IInv, TlbInv, Recent

\* A step of the task or of the driver happens before PIM has the task.
LEMMA TaskStepInv ==
  ASSUME IInv, TaskNext, UNCHANGED <<tlbVars, recent>>
  PROVE  IInv' /\ KeptIn(tlb, tlb', recent)
<1>1. TaskInv'
  BY TaskNextInv DEF IInv
<1>2. phase # "offloaded"
  BY DEF TaskNext, AddData, OffloadTask, UpdatePages, PinPages, MergeSlice, SendTable
<1>3. /\ tlb' = tlb /\ cpu' = cpu /\ refills' = refills /\ recent' = recent
      /\ ideal' = ideal /\ busy' = busy
  BY DEF tlbVars
<1>4. tlb.rules = <<>> /\ Len(tlb.rules) = 0 /\ cpu = NoAccess
  BY <1>2 DEF IInv, TlbInv, GoodAccess
<1>5. refills = NoRefills
  BY <1>4 DEF IInv, TlbInv, StalledOnRefill, NoAccess, NoRefills
<1>6. GoodTlb(tlb)' /\ Recent(tlb, recent)'
  BY <1>3, <1>4 DEF IInv, TlbInv, GoodTlb, Recent, Hits
<1>7. GoodAccess'
  BY <1>3, <1>4 DEF IInv, TlbInv, GoodAccess, NoAccess
<1>8. ReachesPinnedByte' /\ StalledOnRefill'
  BY <1>3, <1>4, <1>5 DEF ReachesPinnedByte, StalledOnRefill, NoAccess, NoRefills
<1> QED
  BY <1>1, <1>3, <1>4, <1>6, <1>7, <1>8 DEF IInv, TlbInv, KeptIn

\* After recvTimingReq.
LEMMA OutcomeInv ==
  ASSUME IInv, phase = "offloaded", UNCHANGED taskVars, ideal' = ideal, busy' \in BOOLEAN,
         NEW pkt, pkt.addr \in DataAddresses, Outcome(pkt),
         GoodTlb(tlb'), Recent(tlb', recent'), cpu'.remapped => recent' = pkt.addr
  PROVE  IInv'
<1>1. TaskInv' /\ phase' = "offloaded"
  BY TaskUnchangedInv DEF IInv, taskVars
<1>2. GoodTlb(tlb)'
  BY DEF GoodTlb, Right, HostAddress, taskVars
<1>3. Recent(tlb, recent)'
  BY DEF Recent
<1>4. DataAddresses' = DataAddresses
  BY DEF DataAddresses, End, taskVars
<1>5. GoodAccess'
  BY <1>1, <1>4 DEF Outcome, GoodAccess
<1>6. ReachesPinnedByte'
  BY DEF Outcome, ReachesPinnedByte, HostAddress, taskVars
<1>7. StalledOnRefill'
  BY DEF Outcome, StalledOnRefill, EntryIndex, NoRefills, taskVars
<1> QED
  BY <1>1, <1>2, <1>3, <1>5, <1>6, <1>7 DEF IInv, TlbInv

\* recvTimingReq keeps the invariant for every access of the kernel.
LEMMA AccessInv ==
  ASSUME IInv, OnPim(KernelAccess)
  PROVE  IInv' /\ KeptIn(tlb, tlb', recent)
<1>1. PICK a \in DataAddresses : Access(a)
  BY DEF OnPim, KernelAccess
<1> DEFINE pkt == [cpu EXCEPT !.addr = a]
<1>2. /\ phase = "offloaded" /\ UNCHANGED taskVars /\ ideal' = ideal /\ busy' = busy
      /\ recent' = IF cpu'.remapped THEN cpu'.addr ELSE recent
      /\ cpu.st = "idle" /\ RecvTimingReq(tlb, refills, pkt, busy)
  BY <1>1 DEF OnPim, KernelAccess, Access
<1>3. cpu = NoAccess /\ refills = NoRefills
  BY <1>2 DEF IInv, TlbInv, GoodAccess, StalledOnRefill, NoRefills
<1>4. a \in Nat
  BY <1>2, DataPinned DEF IInv
<1>5. pkt \in Packet /\ pkt.addr = a /\ ~pkt.remapped
  <2>1. cpu \in Packet
    BY DEF IInv, TlbInv, GoodAccess
  <2>2. ~cpu.remapped
    BY <1>3 DEF NoAccess
  <2> QED
    BY <1>4, <2>1, <2>2 DEF Packet
<1> HIDE DEF pkt
<1>6. /\ TaskInv /\ GoodTlb(tlb) /\ Recent(tlb, recent) /\ busy \in BOOLEAN
  BY DEF IInv, TlbInv
<1>7. /\ GoodTlb(tlb') /\ Recent(tlb', recent') /\ Outcome(pkt)
      /\ cpu'.remapped => recent' = pkt.addr
      /\ KeptIn(tlb, tlb', recent)
  BY <1>2, <1>3, <1>5, <1>6, RecvStep
<1> QED
  BY <1>2, <1>5, <1>6, <1>7, OutcomeInv

\* A packet the bus refused is translated again when it is retried.
LEMMA BusRetryInv ==
  ASSUME IInv, NEW refused \in BOOLEAN, OnPim(BusRetry(refused))
  PROVE  IInv' /\ KeptIn(tlb, tlb', recent)
<1>1. /\ UNCHANGED taskVars /\ ideal' = ideal /\ busy' = refused
      /\ recent' = IF cpu'.remapped THEN cpu'.addr ELSE recent
      /\ cpu.st = "refused" /\ RecvTimingReq(tlb, refills, cpu, refused)
  BY DEF OnPim, BusRetry
<1>2. /\ TaskInv /\ GoodTlb(tlb) /\ Recent(tlb, recent)
      /\ phase = "offloaded" /\ cpu.addr \in DataAddresses /\ cpu \in Packet
      /\ cpu.remapped => cpu.paddr = HostAddress(cpu.addr) /\ recent = cpu.addr
  BY <1>1 DEF IInv, TlbInv, GoodAccess, ReachesPinnedByte
<1>3. refills = NoRefills
  BY <1>1 DEF IInv, TlbInv, StalledOnRefill, NoRefills
<1>4. /\ GoodTlb(tlb') /\ Recent(tlb', recent') /\ Outcome(cpu)
      /\ cpu'.remapped => recent' = cpu.addr
      /\ KeptIn(tlb, tlb', recent)
  BY <1>1, <1>2, <1>3, RecvStep
<1> QED
  BY <1>1, <1>2, <1>4, OutcomeInv

\* recvTimingResp adds the rule asked for and releases the processor.
LEMMA RefillResponseInv ==
  ASSUME IInv, OnPim(RefillResponse)
  PROVE  IInv' /\ KeptIn(tlb, tlb', recent)
<1>1. PICK e \in refills.reads :
        RecvTimingReq(updateTLB(tlb, slicetable[e]), RemovePending(e), cpu, busy)
  BY DEF OnPim, RefillResponse
<1>2. /\ UNCHANGED taskVars /\ ideal' = ideal /\ busy' = busy
      /\ recent' = IF cpu'.remapped THEN cpu'.addr ELSE recent
  BY DEF OnPim, RefillResponse
<1>3. /\ cpu.st = "stalled" /\ e = EntryIndex(cpu.addr) /\ RemovePending(e) = NoRefills
  BY DEF IInv, TlbInv, StalledOnRefill, RemovePending, NoRefills
<1>4. /\ TaskInv /\ GoodTlb(tlb) /\ Recent(tlb, recent) /\ busy \in BOOLEAN
      /\ phase = "offloaded" /\ cpu.addr \in DataAddresses /\ cpu \in Packet
      /\ ~cpu.remapped /\ Hits(tlb, cpu.addr) = {}
  BY <1>3 DEF IInv, TlbInv, GoodAccess
<1> DEFINE u == updateTLB(tlb, EntryFor(cpu.addr))
<1>5. RecvTimingReq(u, NoRefills, cpu, busy)
  BY <1>1, <1>3 DEF EntryFor
<1>6. GoodTlb(u) /\ Hits(u, cpu.addr) # {} /\ KeptIn(tlb, u, recent)
  BY <1>4, DataPinned, RefillStep
<1> HIDE DEF u
<1>7. /\ GoodTlb(tlb') /\ Recent(tlb', recent') /\ Outcome(cpu)
      /\ cpu'.remapped => recent' = cpu.addr
      /\ tlb'.rules = u.rules
  BY <1>2, <1>4, <1>5, <1>6, RecvStep
<1>8. KeptIn(tlb, tlb', recent)
  BY <1>6, <1>7 DEF KeptIn, Hits
<1> QED
  BY <1>2, <1>4, <1>7, <1>8, OutcomeInv

\* The processor has its answer.
LEMMA AnswerInv ==
  ASSUME IInv, OnPim(Answer)
  PROVE  IInv' /\ KeptIn(tlb, tlb', recent)
<1>1. /\ UNCHANGED taskVars /\ ideal' = ideal /\ busy' = busy /\ tlb' = tlb
      /\ refills' = refills /\ cpu.st = "sent" /\ cpu' = NoAccess /\ recent' = recent
  BY DEF OnPim, Answer, NoAccess
<1>2. TaskInv' /\ phase' = phase
  BY <1>1, TaskUnchangedInv DEF IInv, taskVars
<1>3. GoodTlb(tlb)' /\ Recent(tlb, recent)'
  BY <1>1 DEF IInv, TlbInv, GoodTlb, Right, HostAddress, Recent, taskVars
<1>4. GoodAccess' /\ ReachesPinnedByte'
  BY <1>1 DEF GoodAccess, ReachesPinnedByte, NoAccess, Packet
<1>5. StalledOnRefill'
  BY <1>1 DEF IInv, TlbInv, StalledOnRefill, NoAccess
<1> QED
  BY <1>1, <1>2, <1>3, <1>4, <1>5 DEF IInv, TlbInv, KeptIn

\* Other traffic on the bus only changes whether it accepts a packet.
LEMMA BusTrafficInv ==
  ASSUME IInv, OnPim(phase = "offloaded" /\ BusTraffic)
  PROVE  IInv' /\ KeptIn(tlb, tlb', recent)
<1>1. /\ UNCHANGED taskVars /\ ideal' = ideal /\ busy' \in BOOLEAN /\ tlb' = tlb
      /\ refills' = refills /\ cpu' = cpu
      /\ recent' = IF cpu'.remapped THEN cpu'.addr ELSE recent
  BY DEF OnPim, BusTraffic, IInv, TlbInv
<1>2. recent' = recent
  BY <1>1 DEF IInv, TlbInv, GoodAccess
<1>3. TaskInv' /\ phase' = phase
  BY <1>1, TaskUnchangedInv DEF IInv, taskVars
<1>4. GoodTlb(tlb)' /\ Recent(tlb, recent)'
  BY <1>1, <1>2 DEF IInv, TlbInv, GoodTlb, Right, HostAddress, Recent, taskVars
<1>5. GoodAccess' /\ ReachesPinnedByte' /\ StalledOnRefill'
  BY <1>1, <1>2 DEF IInv, TlbInv, GoodAccess, ReachesPinnedByte, HostAddress,
                    DataAddresses, End, StalledOnRefill, EntryIndex, taskVars
<1> QED
  BY <1>1, <1>3, <1>4, <1>5 DEF IInv, TlbInv, KeptIn

\* A write to PIM_DTLB_IDEAL_REFILL adds at most the one rule that was missing.
LEMMA KernelRefillInv ==
  ASSUME IInv, KernelRefill, UNCHANGED taskVars
  PROVE  IInv' /\ KeptIn(tlb, tlb', recent)
<1>1. PICK a \in DataAddresses :
        IdealRefill(a) /\ recent' = IF Hits(tlb, a) = {} THEN a ELSE recent
  BY DEF KernelRefill
<1>2. /\ phase = "offloaded" /\ ideal' = ideal /\ busy' = busy /\ refills' = refills
      /\ cpu' = cpu /\ cpu.st = "idle"
      /\ tlb' = IF Hits(tlb, a) = {} THEN updateTLB(tlb, EntryFor(a)) ELSE tlb
  BY <1>1 DEF KernelRefill, IdealRefill
<1>3. GoodTlb(tlb') /\ Recent(tlb', recent') /\ KeptIn(tlb, tlb', recent)
  <2>1. GoodTlb(tlb) /\ Recent(tlb, recent) /\ TaskInv
    BY DEF IInv, TlbInv
  <2>2. CASE Hits(tlb, a) = {}
    BY <1>1, <1>2, <2>1, <2>2, DataPinned, RefillStep
  <2>3. CASE Hits(tlb, a) # {}
    BY <1>1, <1>2, <2>1, <2>3 DEF KeptIn
  <2> QED
    BY <2>2, <2>3
<1>4. TaskInv' /\ phase' = phase
  BY TaskUnchangedInv DEF IInv, taskVars
<1>5. GoodTlb(tlb)' /\ Recent(tlb, recent)'
  BY <1>3 DEF GoodTlb, Right, HostAddress, Recent, taskVars
<1>6. cpu' = NoAccess
  BY <1>2 DEF IInv, TlbInv, GoodAccess
<1>7. GoodAccess' /\ ReachesPinnedByte'
  BY <1>6 DEF GoodAccess, ReachesPinnedByte, NoAccess, Packet
<1>8. StalledOnRefill'
  BY <1>2, <1>6 DEF IInv, TlbInv, StalledOnRefill, NoAccess
<1> QED
  BY <1>2, <1>3, <1>4, <1>5, <1>7, <1>8 DEF IInv, TlbInv

\* Every step of the host, the driver and the TLB keeps the invariant.
LEMMA NextIInv ==
  ASSUME IInv, [Next]_vars
  PROVE  IInv' /\ KeptIn(tlb, tlb', recent)
<1>1. CASE TaskNext /\ UNCHANGED <<tlbVars, recent>>
  BY <1>1, TaskStepInv
<1>2. CASE KernelRefill /\ UNCHANGED taskVars
  BY <1>2, KernelRefillInv
<1>3. CASE OnPim(KernelAccess \/ Hardware)
  <2>1. \/ OnPim(KernelAccess)
        \/ \E refused \in BOOLEAN : OnPim(BusRetry(refused))
        \/ OnPim(RefillResponse) \/ OnPim(Answer)
        \/ OnPim(phase = "offloaded" /\ BusTraffic)
    BY <1>3 DEF OnPim, Hardware
  <2> QED
    BY <2>1, AccessInv, BusRetryInv, RefillResponseInv, AnswerInv, BusTrafficInv
<1>4. CASE UNCHANGED vars
  <2>1. UNCHANGED taskVars /\ tlb' = tlb /\ cpu' = cpu /\ refills' = refills
        /\ recent' = recent /\ ideal' = ideal /\ busy' = busy
    BY <1>4 DEF vars, tlbVars
  <2>2. TaskInv' /\ phase' = phase
    BY <2>1, TaskUnchangedInv DEF IInv, taskVars
  <2>3. GoodTlb(tlb)' /\ Recent(tlb, recent)'
    BY <2>1 DEF IInv, TlbInv, GoodTlb, Right, HostAddress, Recent, taskVars
  <2>4. GoodAccess' /\ ReachesPinnedByte' /\ StalledOnRefill'
    BY <2>1 DEF IInv, TlbInv, GoodAccess, ReachesPinnedByte, HostAddress,
                DataAddresses, End, StalledOnRefill, EntryIndex, taskVars
  <2> QED
    BY <2>1, <2>2, <2>3, <2>4 DEF IInv, TlbInv, KeptIn
<1> QED
  BY <1>1, <1>2, <1>3, <1>4 DEF Next

\* The invariant gives the types and one rule for each slice.
LEMMA IInvImplies == IInv => TypeOK /\ OneRulePerSlice
<1> SUFFICES ASSUME IInv PROVE TypeOK /\ OneRulePerSlice
  OBVIOUS
<1> DEFINE n == Len(tlb.rules)
<1>1. /\ tlb.rules \in Seq(Slice) /\ tlb.lastUsed \in Seq(Nat)
      /\ Len(tlb.lastUsed) = n /\ n <= TLB_SIZE - 1
      /\ \A k \in 1 .. n : tlb.lastUsed[k] \in 1 .. n
      /\ \A r \in 1 .. n : \E k \in 1 .. n : tlb.lastUsed[k] = r
      /\ \A j, k \in 1 .. n : tlb.rules[j] = tlb.rules[k] => j = k
  BY DEF IInv, TlbInv, GoodTlb, Ranked, Fits, Distinct
<1>2. DOMAIN tlb.rules = 1 .. n /\ DOMAIN tlb.lastUsed = 1 .. n
  BY <1>1, LenProperties
<1> HIDE DEF n
<1>3. {tlb.lastUsed[k] : k \in 1 .. n} = 1 .. n
  <2>1. \A k \in 1 .. n : tlb.lastUsed[k] \in 1 .. n
    BY <1>1
  <2>2. \A r \in 1 .. n : r \in {tlb.lastUsed[k] : k \in 1 .. n}
    BY <1>1
  <2> QED
    BY <2>1, <2>2
<1>4. cpu.st \in {"idle", "stalled", "refused", "sent"}
  BY DEF IInv, TlbInv, GoodAccess, Packet
<1>5. TypeOK
  BY <1>1, <1>2, <1>3, <1>4 DEF TypeOK, IInv, TaskInv, n
<1> QED
  BY <1>1, <1>2, <1>5 DEF OneRulePerSlice

-----------------------------------------------------------------------------
\* The invariant holds in every reachable state of the offload.
LEMMA InvariantHolds == SafeSpec => []IInv
<1>1. IInv /\ [Next]_vars => IInv'
  BY NextIInv
<1> QED
  BY InitIInv, <1>1, PTL DEF SafeSpec

\* The state of task, driver, table and TLB keeps its types: ranks stay a
\* permutation, and updateTLB never exceeds the size of the TLB.
THEOREM Typing == SafeSpec => []TypeOK
  BY InvariantHolds, IInvImplies, PTL

\* Whatever was merged, refilled, evicted and retried, an access that the TLB
\* (recvTimingReq) has sent goes to the byte that the operating system keeps there.
THEOREM PinnedBytesReached == SafeSpec => []ReachesPinnedByte
<1>1. IInv => ReachesPinnedByte
  BY DEF IInv, TlbInv
<1> QED
  BY InvariantHolds, <1>1, PTL

\* A stalled processor has exactly one refill under way, the one it waits for
\* (pending_refills).
THEOREM RefillsMatchStalls == SafeSpec => []StalledOnRefill
<1>1. IInv => StalledOnRefill
  BY DEF IInv, TlbInv
<1> QED
  BY InvariantHolds, <1>1, PTL

\* refillTLB_timing, updateTLB and the PIM_DTLB_IDEAL_REFILL register never give
\* one slice two rules.
THEOREM RulesDistinct == SafeSpec => []OneRulePerSlice
  BY InvariantHolds, IInvImplies, PTL

\* The rule used or fetched last survives the next replacement by updateTLB.
THEOREM RecentRuleKept == SafeSpec => MostRecentKept
<1>1. IInv /\ [Next]_vars =>
        [Len(tlb.rules) >= 2 /\ Hits(tlb, recent) # {} => Hits(tlb', recent) # {}]_vars
  BY NextIInv DEF KeptIn
<1> QED
  BY InvariantHolds, <1>1, PTL DEF SafeSpec, MostRecentKept

\* updatePages: the ranges given to the driver are exactly the pages of the data
\* sets, each a maximal range.
THEOREM ExactPages == SafeSpec => []PagesExact
<1>1. Init => PagesInv
  BY DEF Init, TaskInit, PagesInv
<1>2. IInv /\ PagesInv /\ [Next]_vars => PagesInv'
  <2> SUFFICES ASSUME IInv, PagesInv, [Next]_vars PROVE PagesInv'
    OBVIOUS
  <2>1. CASE TaskNext
    BY <2>1, TaskNextExact DEF IInv
  <2>2. CASE UNCHANGED taskVars
    BY <2>2, TaskUnchangedExact
  <2> QED
    BY <2>1, <2>2 DEF Next, OnPim, vars
<1>3. PagesInv => PagesExact
  BY TaskAssumption DEF PagesInv, PagesExact, Exact, Holds, Needed, Gaps
<1> QED
  BY InvariantHolds, <1>1, <1>2, <1>3, PTL DEF SafeSpec
=============================================================================
