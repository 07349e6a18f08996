-------------------------------- MODULE PimTlb --------------------------------
(***************************************************************************)
(* The data TLB of the simulated PIM processor (ethz_TLB).  It sits        *)
(* between the processor, which has one access at a time, and a crossbar   *)
(* that may refuse a request and asks for it again later.  A miss takes    *)
(* the rule from the slice table, either at once (ideal, the default       *)
(* PIM_DTLB_DO_IDEAL_REFILL) or by a read of its own, and the least        *)
(* recently used rule gives way.  The static first rule (PIM's own memory) *)
(* is never replaced and is left out of tlb.rules.                         *)
(***************************************************************************)
EXTENDS SliceTable, Sequences

CONSTANT TLB_SIZE     \* number of rules, the static one included

ASSUME TlbSizeAssumption == TLB_SIZE \in Nat /\ TLB_SIZE >= 2

VARIABLES
  ideal,      \* IDEAL_REFILL
  tlb,        \* rules, and lastUsed: the rank of each rule by its last use
  refills,    \* pending_refills and the reads in flight: indexes of entries
  cpu,        \* the access: state st, address, and what it is remapped to
  busy        \* the crossbar refuses requests

tlbVars == <<ideal, tlb, refills, cpu, busy>>

NoAccess == [st |-> "idle", addr |-> 0, paddr |-> 0, remapped |-> FALSE]

TlbInit ==
  /\ ideal \in BOOLEAN
  /\ tlb = [rules |-> <<>>, lastUsed |-> <<>>]
  /\ refills = [pending |-> {}, reads |-> {}] /\ busy = FALSE
  /\ cpu = NoAccess

\* The rules that contain a; remap and remap_check take the first of them.
Hits(t, a) == {k \in 1 .. Len(t.rules) : Covers(t.rules[k], a)}
IsFirst(k, S) == k \in S /\ \A j \in S : k <= j

\* remap: rule k is now the one used last.
MutTouch(t, k) == t
Touch(t, k) ==
  [t EXCEPT !.lastUsed = [j \in 1 .. Len(t.rules) |->
     IF j = k THEN Len(t.rules)
     ELSE IF t.lastUsed[j] > t.lastUsed[k] THEN t.lastUsed[j] - 1 ELSE t.lastUsed[j]]]

\* updateTLB: a full TLB loses the rule that was used longest ago.
Without(s, k) == [j \in 1 .. Len(s) - 1 |-> IF j < k THEN s[j] ELSE s[j + 1]]
Evicted(t) ==
  LET min_index == CHOOSE k \in 1 .. Len(t.rules) : t.lastUsed[k] = 1
      left == Without(t.lastUsed, min_index)
  IN [rules |-> Without(t.rules, min_index),
      lastUsed |-> [j \in 1 .. Len(left) |-> left[j] - 1]]
updateTLB(t, rule) ==
  LET room == IF Len(t.rules) + 1 >= TLB_SIZE THEN Evicted(t) ELSE t
  IN [rules |-> Append(room.rules, rule),
      lastUsed |-> Append(room.lastUsed, Len(room.rules) + 1)]

\* The packet with the address of the first rule goes to the crossbar.
Forward(t, pkt, refused) ==
  \E k \in 1 .. Len(t.rules) :
    /\ IsFirst(k, Hits(t, pkt.addr))
    /\ tlb' = Touch(t, k)
    /\ cpu' = [pkt EXCEPT !.st = IF refused THEN "refused" ELSE "sent",
                          !.paddr = Translate(t.rules[k], pkt.addr), !.remapped = TRUE]

\* refillTLB_timing: a refill that cannot be sent is taken back.
MutRefillTiming(f, e, refused) ==
  refills' = [pending |-> f.pending \cup {e},
              reads |-> IF refused THEN f.reads ELSE f.reads \cup {e}]
RefillTiming(f, e, refused) ==
  refills' = IF refused THEN f
             ELSE [pending |-> f.pending \cup {e}, reads |-> f.reads \cup {e}]

\* recvTimingReq, with the TLB and the refills that the step has come to before
\* it, and a crossbar that accepts or refuses.  An access stalled on a miss waits
\* for the answer to the refill, or for the crossbar that refused the refill.
RecvTimingReq(t, f, pkt, refused) ==
  IF pkt.remapped
  THEN /\ cpu' = [pkt EXCEPT !.st = IF refused THEN "refused" ELSE "sent"]
       /\ tlb' = t /\ refills' = f
  ELSE IF Hits(t, pkt.addr) # {}
  THEN Forward(t, pkt, refused) /\ refills' = f
  ELSE IF ideal
  THEN Forward(updateTLB(t, EntryFor(pkt.addr)), pkt, refused) /\ refills' = f
  ELSE /\ tlb' = t
       /\ IF EntryIndex(pkt.addr) \in f.pending
          THEN refills' = f /\ cpu' = [pkt EXCEPT !.st = "stalled"]
          ELSE /\ RefillTiming(f, EntryIndex(pkt.addr), refused)
               /\ cpu' = [pkt EXCEPT !.st = IF refused THEN "refused" ELSE "stalled"]

\* The processor loads or stores at address a.
Access(a) ==
  /\ cpu.st = "idle"
  /\ RecvTimingReq(tlb, refills, [cpu EXCEPT !.addr = a], busy)
  /\ UNCHANGED <<ideal, busy>>

\* The crossbar asks for the refused request again (recvRetryMaster hands the
\* retry to the processor, which sends its access once more).
BusRetry(refused) ==
  /\ cpu.st = "refused"
  /\ RecvTimingReq(tlb, refills, cpu, refused)
  /\ busy' = refused /\ UNCHANGED ideal

\* recvTimingResp for a refill: remove_pending_refill, the rule is taken over and
\* the processor retries.
MutRemovePending(e) == [refills EXCEPT !.reads = @ \ {e}]
RemovePending(e) == [pending |-> refills.pending \ {e}, reads |-> refills.reads \ {e}]
RefillResponse ==
  \E e \in refills.reads :
    /\ e \in refills.pending
    /\ RecvTimingReq(updateTLB(tlb, slicetable[e]), RemovePending(e), cpu, busy)
    /\ UNCHANGED <<ideal, busy>>

\* recvTimingResp for the access itself.  When the processor refuses the answer, the
\* packet is put back as it was, a stuttering step, and the answer comes again.
Answer ==
  /\ cpu.st = "sent"
  /\ cpu' = NoAccess
  /\ UNCHANGED <<ideal, tlb, refills, busy>>

\* A write to PIM_DTLB_IDEAL_REFILL: the program fetches the rule for a beforehand.
IdealRefill(a) ==
  /\ cpu.st = "idle"
  /\ tlb' = IF Hits(tlb, a) = {} THEN updateTLB(tlb, EntryFor(a)) ELSE tlb
  /\ UNCHANGED <<ideal, refills, cpu, busy>>

\* Other traffic takes and leaves the crossbar.
BusTraffic ==
  /\ cpu.st # "refused"
  /\ busy' = ~busy /\ UNCHANGED <<ideal, tlb, refills, cpu>>
=============================================================================
