----------------------------- MODULE FCLinkedList -----------------------------
(***************************************************************************)
(* The flat-combining sorted list, test/MyFCLinkedList.h with the slot     *)
(* list of data_structures/ITest.h.  A thread publishes its request in its *)
(* slot and then either becomes the combiner (it takes _fc_lock and serves *)
(* every valid slot of the slot list) or waits until some combiner has     *)
(* answered.  The combiner also drops slots that have been idle for long;  *)
(* their owners put them back.                                             *)
(*                                                                         *)
(* A program calls singleFCOP, whose flat_combining serves a slot when it  *)
(* meets it, or combinedFCOP, whose flat_combining_combined collects the   *)
(* requests, sorts them by key and serves them in one pass over the list.  *)
(*                                                                         *)
(* Accesses to state that two threads may change are steps of their own,   *)
(* unless the other thread cannot come between them: a slot that is not in *)
(* the slot list belongs to its owner, _timestamp and the nodes to the     *)
(* holder of _fc_lock.  A list holds at most one node per key, so a node   *)
(* is named by its key.                                                    *)
(***************************************************************************)
EXTENDS Integers, Sequences, FiniteSets

CONSTANTS
  Threads,
  Requests,          \* the requests <<op, key>> that threads make
  INT_MIN, INT_MAX,  \* the keys of the sentinels
  STAMP_THRESHOLD,   \* _STAMP_THRESHOLD
  MaxOps,            \* bound: the calls of each thread
  NULL

Ops  == {"add", "remove", "contains"}
Keys == {r[2] : r \in Requests}

ASSUME RequestsAssumption ==
  \A r \in Requests : r[1] \in Ops /\ r[2] \in INT_MIN + 1 .. INT_MAX - 1
ASSUME NullAssumption == NULL \notin Threads \cup BOOLEAN

Nodes == Keys \cup {INT_MIN, INT_MAX}

VARIABLES
  combined,  \* which of the two the program calls
  slot,      \* the SlotInfo of every thread
  tail,      \* _tail_slot
  timestamp, \* _timestamp
  fcLock,    \* _fc_lock
  next,      \* _next of the nodes, NULL for one that is not allocated
  pc,        \* where a thread is
  after,     \* where it goes on after enq_slot
  currTail,  \* curr_tail of enq_slot
  comb,      \* the locals of the combiner
  calls,     \* calls made so far
  answered   \* history: the thread's request has been executed

shared == <<combined, slot, tail, timestamp, fcLock, next>>
locals == <<pc, after, currTail, comb, calls, answered>>
vars   == <<shared, locals>>

\* The locals of flat_combining and flat_combining_combined.
NoComb == [stamp |-> 0, curr |-> NULL, prev |-> NULL, requests |-> <<>>,
           prevNode |-> INT_MIN, currNode |-> INT_MIN]

\* The list is empty but for its sentinels; SlotInfo() leaves the slot unlinked
\* and _return_val uninitialised.
Init ==
  /\ combined \in BOOLEAN
  /\ slot = [t \in Threads |-> [op |-> NULL, key |-> NULL, valid |-> FALSE,
               linked |-> FALSE, stamp |-> 0, next |-> NULL, ret |-> NULL]]
  /\ tail = NULL /\ timestamp = 0 /\ fcLock = FALSE
  /\ next = [n \in Nodes |-> IF n = INT_MIN THEN INT_MAX ELSE NULL]
  /\ pc = [t \in Threads |-> "idle"]
  /\ after = [t \in Threads |-> "lock"]
  /\ currTail = [t \in Threads |-> NULL]
  /\ comb = NoComb
  /\ calls = [t \in Threads |-> 0]
  /\ answered = [t \in Threads |-> FALSE]

Goto(t, l) == pc' = [pc EXCEPT ![t] = l]

-----------------------------------------------------------------------------
(* The caller: singleFCOP and combinedFCOP.                                *)

\* The call: _op and _req_ans are written.
Call(t, r) ==
  /\ pc[t] = "idle" /\ calls[t] < MaxOps[t]
  /\ slot' = [slot EXCEPT ![t].op = r[1], ![t].key = r[2]]
  /\ calls' = [calls EXCEPT ![t] = @ + 1]
  /\ Goto(t, "post")
  /\ UNCHANGED <<combined, tail, timestamp, fcLock, next, after, currTail, comb, answered>>

\* _is_request_valid = true.
Post(t) ==
  /\ pc[t] = "post"
  /\ slot' = [slot EXCEPT ![t].valid = TRUE]
  /\ Goto(t, "check")
  /\ UNCHANGED <<combined, tail, timestamp, fcLock, next, after, currTail, comb, calls, answered>>

\* Mutant: the slot is enqueued whether it is linked or not.
MutCheck(t) ==
  /\ pc[t] = "check"
  /\ Goto(t, IF slot[t].valid THEN "mark" ELSE after[t])
  /\ UNCHANGED <<shared, after, currTail, comb, calls, answered>>

\* if (!_is_slot_linked && _is_request_valid) enq_slot: at the call, when the lock
\* is taken and while waiting.
Check(t) ==
  /\ pc[t] = "check"
  /\ Goto(t, IF ~ slot[t].linked /\ slot[t].valid THEN "mark" ELSE after[t])
  /\ UNCHANGED <<shared, after, currTail, comb, calls, answered>>

\* enq_slot: _is_slot_linked = true; _time_stamp = _timestamp.
EnqMark(t) ==
  /\ pc[t] = "mark"
  /\ slot' = [slot EXCEPT ![t].linked = TRUE, ![t].stamp = timestamp]
  /\ Goto(t, "enq")
  /\ UNCHANGED <<combined, tail, timestamp, fcLock, next, after, currTail, comb, calls, answered>>

\* enq_slot: curr_tail = _tail_slot.get(); p_slot->_next = curr_tail.
EnqRead(t) ==
  /\ pc[t] = "enq"
  /\ currTail' = [currTail EXCEPT ![t] = tail]
  /\ slot' = [slot EXCEPT ![t].next = tail]
  /\ Goto(t, "cas")
  /\ UNCHANGED <<combined, tail, timestamp, fcLock, next, after, comb, calls, answered>>

\* enq_slot: _tail_slot.compareAndSet(curr_tail, p_slot), again if it fails.
EnqCas(t) ==
  /\ pc[t] = "cas"
  /\ IF tail = currTail[t]
     THEN tail' = t /\ Goto(t, after[t])
     ELSE Goto(t, "enq") /\ UNCHANGED tail
  /\ currTail' = [currTail EXCEPT ![t] = NULL]
  /\ UNCHANGED <<combined, slot, timestamp, fcLock, next, after, comb, calls, answered>>

\* lock_fc.
TryLock(t) ==
  /\ pc[t] = "lock"
  /\ IF fcLock
     THEN Goto(t, "spin") /\ UNCHANGED <<fcLock, after>>
     ELSE /\ fcLock' = TRUE
          /\ after' = [after EXCEPT ![t] = "start"]
          /\ Goto(t, "check")
  /\ UNCHANGED <<combined, slot, tail, timestamp, next, currTail, comb, calls, answered>>

\* while (_is_request_valid && 0 != _fc_lock) { ... check the slot ... }
Spin(t) ==
  /\ pc[t] = "spin"
  /\ IF slot[t].valid /\ fcLock
     THEN Goto(t, "check") /\ after' = [after EXCEPT ![t] = "spin"]
     ELSE Goto(t, "test") /\ after' = [after EXCEPT ![t] = "lock"]
  /\ UNCHANGED <<shared, currTail, comb, calls, answered>>

\* Mutant: the caller returns as soon as the lock is free.
MutTest(t) ==
  /\ pc[t] = "test"
  /\ Goto(t, "return")
  /\ UNCHANGED <<shared, after, currTail, comb, calls, answered>>

\* if (!_is_request_valid) return, else try for the lock again.
Test(t) ==
  /\ pc[t] = "test"
  /\ Goto(t, IF slot[t].valid THEN "lock" ELSE "return")
  /\ UNCHANGED <<shared, after, currTail, comb, calls, answered>>

\* return my_slot->_return_val.
Return(t) ==
  /\ pc[t] = "return"
  /\ Goto(t, "idle")
  /\ answered' = [answered EXCEPT ![t] = FALSE]
  /\ after' = [after EXCEPT ![t] = "lock"]
  /\ UNCHANGED <<shared, currTail, comb, calls>>

-----------------------------------------------------------------------------
(* The combiner, which holds _fc_lock.                                     *)

\* _timestamp++.
Start(t) ==
  /\ pc[t] = "start"
  /\ timestamp' = timestamp + 1
  /\ comb' = [NoComb EXCEPT !.stamp = timestamp + 1]
  /\ Goto(t, "tail")
  /\ UNCHANGED <<combined, slot, tail, fcLock, next, after, currTail, calls, answered>>

\* curr_slot = prev_slot = _tail_slot.get().
ReadTail(t) ==
  /\ pc[t] = "tail"
  /\ comb' = [comb EXCEPT !.curr = tail, !.prev = tail]
  /\ Goto(t, "scan")
  /\ UNCHANGED <<shared, after, currTail, calls, answered>>

\* prev_slot = curr_slot; curr_slot = curr_slot->_next.
NextSlot(c) == [c EXCEPT !.prev = c.curr, !.curr = slot[c.curr].next]

\* The slot has a valid request: serve it now, or collect it and go on.
ScanValid(t) ==
  /\ pc[t] = "scan" /\ comb.curr # NULL /\ slot[comb.curr].valid
  /\ IF combined
     THEN /\ comb' = NextSlot([comb EXCEPT !.requests = Append(@, comb.curr)])
          /\ UNCHANGED pc
     ELSE /\ comb' = [comb EXCEPT !.requests = <<comb.curr>>,
                        !.prevNode = INT_MIN, !.currNode = INT_MIN]
          /\ Goto(t, "serve")
  /\ UNCHANGED <<shared, after, currTail, calls, answered>>

\* The slot has none: is it to be dropped?  The tail never is.
ScanIdle(t) ==
  /\ pc[t] = "scan" /\ comb.curr # NULL /\ ~ slot[comb.curr].valid
  /\ IF comb.curr # comb.prev /\ comb.stamp - slot[comb.curr].stamp > STAMP_THRESHOLD
     THEN Goto(t, "unlink") /\ UNCHANGED comb
     ELSE comb' = NextSlot(comb) /\ UNCHANGED pc
  /\ UNCHANGED <<shared, after, currTail, calls, answered>>

\* prev_slot->_next = curr_slot->_next.
Unlink(t) ==
  /\ pc[t] = "unlink"
  /\ slot' = [slot EXCEPT ![comb.prev].next = slot[comb.curr].next]
  /\ Goto(t, "flag")
  /\ UNCHANGED <<combined, tail, timestamp, fcLock, next, after, currTail, comb, calls, answered>>

\* Mutant: the owner is not told.
MutFlag(t) ==
  /\ pc[t] = "flag"
  /\ comb' = [comb EXCEPT !.curr = slot[comb.prev].next]
  /\ Goto(t, "scan")
  /\ UNCHANGED <<shared, after, currTail, calls, answered>>

\* curr_slot->_is_slot_linked = false; curr_slot = prev_slot->_next.
Flag(t) ==
  /\ pc[t] = "flag"
  /\ slot' = [slot EXCEPT ![comb.curr].linked = FALSE]
  /\ comb' = [comb EXCEPT !.curr = slot[comb.prev].next]
  /\ Goto(t, "scan")
  /\ UNCHANGED <<combined, tail, timestamp, fcLock, next, after, currTail, calls, answered>>

\* std::sort orders the requests by key; requests for one key come in any order.
SortedOrders(q) ==
  LET D == 1 .. Len(q) IN
  {[i \in D |-> q[p[i]]] : p \in
     {f \in [D -> D] : /\ \A i, j \in D : f[i] = f[j] => i = j
                       /\ \A i, j \in D : i < j => slot[q[f[i]]].key <= slot[q[f[j]]].key}}

\* The end of the slot list: sort what was collected, or be done.
ScanEnd(t) ==
  /\ pc[t] = "scan" /\ comb.curr = NULL
  /\ \E q \in SortedOrders(comb.requests) :
       comb' = [comb EXCEPT !.requests = q]
  /\ Goto(t, IF combined THEN "serve" ELSE "unlock")
  /\ UNCHANGED <<shared, after, currTail, calls, answered>>

\* while (curr_node->_key < inValue) { prev_node = curr_node; curr_node = ... }
Search(k) ==
  LET walk[p \in Nodes, c \in Nodes] ==
        IF c < k THEN walk[c, next[c]] ELSE <<p, c>>
  IN  walk[comb.prevNode, comb.currNode]

\* One request is executed on the list: _return_val and _time_stamp are written.
Serve(t) ==
  /\ pc[t] = "serve" /\ comb.requests # <<>>
  /\ LET s == Head(comb.requests)
         k == slot[s].key
         p == Search(k)[1]
         c == Search(k)[2]
         Done(r, nx, node) ==
           /\ slot' = [slot EXCEPT ![s].ret = r, ![s].stamp = comb.stamp]
           /\ next' = nx
           /\ comb' = [comb EXCEPT !.prevNode = p, !.currNode = node]
           /\ answered' = [answered EXCEPT ![s] = TRUE]
     IN  \/ slot[s].op # "remove" /\ c = k /\ Done(slot[s].op = "contains", next, c)
         \/ slot[s].op = "add" /\ c # k
              /\ Done(TRUE, [next EXCEPT ![p] = k, ![k] = c], k)
         \/ slot[s].op # "add" /\ c # k /\ Done(FALSE, next, c)
         \/ slot[s].op = "remove" /\ c = k
              /\ Done(TRUE, [next EXCEPT ![p] = next[c], ![c] = NULL], next[c])
  /\ Goto(t, "answer")
  /\ UNCHANGED <<combined, tail, timestamp, fcLock, after, currTail, calls>>

\* _is_request_valid = false: the owner may go on.
Answer(t) ==
  /\ pc[t] = "answer"
  /\ slot' = [slot EXCEPT ![Head(comb.requests)].valid = FALSE]
  /\ IF combined
     THEN comb' = [comb EXCEPT !.requests = Tail(@)] /\ Goto(t, "serve")
     ELSE comb' = NextSlot([comb EXCEPT !.requests = <<>>]) /\ Goto(t, "scan")
  /\ UNCHANGED <<combined, tail, timestamp, fcLock, next, after, currTail, calls, answered>>

\* flat_combining_combined: all requests are served.
ServeEnd(t) ==
  /\ pc[t] = "serve" /\ comb.requests = <<>>
  /\ Goto(t, "unlock")
  /\ UNCHANGED <<shared, after, currTail, comb, calls, answered>>

\* Mutant: the lock is kept.
MutUnlock(t) ==
  /\ pc[t] = "unlock"
  /\ comb' = NoComb
  /\ Goto(t, "return")
  /\ UNCHANGED <<shared, after, currTail, calls, answered>>

\* _fc_lock.set(0).
Unlock(t) ==
  /\ pc[t] = "unlock"
  /\ fcLock' = FALSE
  /\ comb' = NoComb
  /\ Goto(t, "return")
  /\ UNCHANGED <<combined, slot, tail, timestamp, next, after, currTail, calls, answered>>

-----------------------------------------------------------------------------

Step(t) ==
  \/ Post(t) \/ Check(t) \/ EnqMark(t) \/ EnqRead(t) \/ EnqCas(t) \/ TryLock(t) \/ Spin(t)
  \/ Test(t) \/ Return(t)
  \/ Start(t) \/ ReadTail(t) \/ ScanValid(t) \/ ScanIdle(t) \/ Unlink(t) \/ Flag(t)
  \/ ScanEnd(t) \/ Serve(t) \/ Answer(t) \/ ServeEnd(t) \/ Unlock(t)

\* All threads have left the benchmark loop.  What run() does after it, once a random
\* sleep is over (delete local_slot), is left out.
AllDone == \A t \in Threads : pc[t] = "idle" /\ calls[t] = MaxOps[t]

Next ==
  \/ \E t \in Threads : (\E r \in Requests : Call(t, r)) \/ Step(t)
  \/ AllDone /\ UNCHANGED vars

\* The scheduler runs every thread; lock_fc and the compare-and-set may still fail
\* any number of times.
Fairness == \A t \in Threads : WF_vars(Step(t))

SafeSpec == Init /\ [][Next]_vars
Spec     == SafeSpec /\ Fairness

-----------------------------------------------------------------------------
(* Properties.                                                             *)

TypeOK ==
  /\ slot \in [Threads -> [op : Ops \cup {NULL}, key : Keys \cup {NULL},
                 valid : BOOLEAN, linked : BOOLEAN, stamp : 0 .. timestamp,
                 next : Threads \cup {NULL}, ret : BOOLEAN \cup {NULL}]]
  /\ tail \in Threads \cup {NULL} /\ timestamp \in Nat /\ fcLock \in BOOLEAN
  /\ next \in [Nodes -> Nodes \cup {NULL}]
  /\ comb.curr \in Threads \cup {NULL} /\ comb.prev \in Threads \cup {NULL}
  /\ comb.prevNode \in Nodes /\ comb.currNode \in Nodes

Combining ==
  {t \in Threads : pc[t] \in {"start", "tail", "scan", "unlink", "flag", "serve",
                              "answer", "unlock"}}

\* The slots met by following _next from s, in at most one round.
SlotsFrom(s) ==
  LET hop[i \in 0 .. Cardinality(Threads)] ==
        IF i = 0 THEN s
        ELSE IF hop[i - 1] = NULL THEN NULL ELSE slot[hop[i - 1]].next
  IN  [i \in 0 .. Cardinality(Threads) |-> hop[i]]

Enqueued == {SlotsFrom(tail)[i] : i \in 0 .. Cardinality(Threads)} \ {NULL}

\* The slot list is a list: it ends, so that a combiner's scan ends, however
\* enqueues race with the removal of idle slots; slots, nodes and cursors keep
\* their types.
SlotListEnds == TypeOK /\ SlotsFrom(tail)[Cardinality(Threads)] = NULL

\* A slot is in the slot list exactly when its _is_slot_linked says so, but for a
\* slot between the two writes of its removal and for one that its owner is
\* putting in.
LinkedMeansEnqueued ==
  \A t \in Threads :
    \/ t \in Enqueued <=> slot[t].linked
    \/ pc[t] \in {"mark", "enq", "cas"}
    \/ \E u \in Combining : pc[u] = "flag" /\ comb.curr = t

\* AtomicSet's view: a request is answered when it is executed on the list.
KeySet == INSTANCE AtomicSet WITH
  Threads <- Threads, Keys <- Keys, Capacity <- Cardinality(Keys),
  set <- {k \in Keys : next[k] # NULL},
  req <- [t \in Threads |->
            IF pc[t] = "idle" THEN <<>>
            ELSE IF answered[t] THEN <<slot[t].op, slot[t].key, slot[t].ret>>
            ELSE <<slot[t].op, slot[t].key>>]

\* Every request is executed exactly once, between its call and its return, and
\* the caller gets the answer of that execution.
ImplementsSet == KeySet!Spec

\* Every call returns: a request that is posted is never overlooked, also when the
\* combiner drops its slot at the same time.
EveryCallReturns == \A t \in Threads : (pc[t] # "idle") ~> (pc[t] = "idle")
=============================================================================
