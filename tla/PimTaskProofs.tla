---------------------------- MODULE PimTaskProofs ----------------------------
(***************************************************************************)
(* What the slice table of an offloaded task is worth, for every page      *)
(* size, all data sets and all placements of the pages: the entry of an    *)
(* address of the task covers it and gives it its place (DataPinned).      *)
(*                                                                         *)
(* TaskInv follows the address through the parts: the pages of the data    *)
(* sets are in the range under way (Collected), the pinned pages are the   *)
(* task's (Pinned), and every entry written so far covers its page and     *)
(* translates it right (GoodEntry), also when the merge has run over the   *)
(* end of the array.                                                       *)
(***************************************************************************)
EXTENDS PimTask, SequenceTheorems, TLAPS

\* A rule gives every address of a pinned page its place.
Right(e) ==
  \A a \in Nat :
    Covers(e, a) /\ PageOf(a) \in page.v_pn_start .. page.v_pn_end =>
      Translate(e, a) = HostAddress(a)

GoodEntry(k) ==
  /\ slicetable[k] \in Slice /\ Right(slicetable[k])
  /\ \A a \in Nat : PageOf(a) = page.v_pn_start + k => Covers(slicetable[k], a)

PageRange == [v_pn_start : Nat, v_pn_end : Nat]

InRange(d) == page.v_pn_start <= StartPage(d) /\ EndPage(d) <= page.v_pn_end

Collected ==
  /\ it > 1 => /\ page.v_pn_start <= StartPage(data[it - 1])
               /\ page.v_pn_end = EndPage(data[it - 1])
  /\ vpages = <<>> => \A k \in 1 .. it - 1 : InRange(data[k])

Pinned ==
  /\ page.v_pn_start <= page.v_pn_end
  /\ count = page.v_pn_end - page.v_pn_start + 1
  /\ slicevstart = PAGE_SIZE * page.v_pn_start
  /\ pagetable \in [page.v_pn_start .. page.v_pn_end -> Frames]
  /\ physical_addr \in [0 .. count -> Frames]
  /\ \A k \in 0 .. count - 1 : physical_addr[k] = pagetable[page.v_pn_start + k]
  /\ \A k \in 1 .. Len(data) : InRange(data[k])

TaskInv ==
  /\ phase \in {"adding", "updating", "merging", "offloaded", "rejected", "scattered"}
  /\ data \in Seq(Ranges) /\ it \in 1 .. Len(data) + 1
  /\ page \in PageRange /\ vpages \in Seq(PageRange)
  /\ count \in Nat /\ next \in 0 .. count + 1
  /\ phase = "adding" => it = 1 /\ vpages = <<>>
  /\ phase \in {"adding", "updating"} => next = 0
  /\ phase = "updating" => data # <<>> /\ Collected
  /\ phase \in {"merging", "offloaded"} =>
       Pinned /\ \A k \in 0 .. count - 1 : k < next => GoodEntry(k)
  /\ phase = "offloaded" => next >= count

-----------------------------------------------------------------------------
\* Arithmetic of pages.

\* An address is its page and its offset in the page.
LEMMA PageAndOffset ==
  ASSUME NEW a \in Nat
  PROVE  /\ PageOf(a) \in Nat /\ a % PAGE_SIZE \in Nat /\ a % PAGE_SIZE < PAGE_SIZE
         /\ a = PAGE_SIZE * PageOf(a) + (a % PAGE_SIZE)
  BY PageSizeAssumption DEF PageOf

\* Multiples of the page size are ordered as their factors.
LEMMA TimesMonotone ==
  ASSUME NEW x \in Int, NEW y \in Int, x <= y
  PROVE  PAGE_SIZE * x <= PAGE_SIZE * y
  BY PageSizeAssumption

\* The page of an address is the q between whose bounds it lies.
LEMMA PageBounds ==
  ASSUME NEW a \in Nat
  PROVE  /\ PAGE_SIZE * PageOf(a) <= a
         /\ a < PAGE_SIZE * PageOf(a) + PAGE_SIZE
         /\ \A q \in Int : PAGE_SIZE * q <= a => q <= PageOf(a)
         /\ \A q \in Int : a < PAGE_SIZE * q => PageOf(a) < q
<1> DEFINE p == PageOf(a)
           m == PAGE_SIZE * p
<1>1. p \in Nat /\ PAGE_SIZE \in Nat /\ m \in Int /\ m <= a /\ a < m + PAGE_SIZE
  <2>1. a % PAGE_SIZE \in Nat /\ a % PAGE_SIZE < PAGE_SIZE /\ a = m + (a % PAGE_SIZE) /\ p \in Nat
    BY PageAndOffset
  <2>2. PAGE_SIZE \in Nat /\ m \in Int
    BY <2>1, PageSizeAssumption
  <2> DEFINE o == a % PAGE_SIZE
  <2>3. o \in Nat /\ o < PAGE_SIZE /\ a = m + o
    BY <2>1
  <2> HIDE DEF m, p, o
  <2> QED
    BY <2>1, <2>2, <2>3
<1>2. ASSUME NEW q \in Int, PAGE_SIZE * q <= a PROVE q <= p
  <2>1. SUFFICES ASSUME p + 1 <= q PROVE FALSE
    BY <1>1
  <2>2. PAGE_SIZE * (p + 1) <= PAGE_SIZE * q
    BY <1>1, <2>1, TimesMonotone
  <2>3. PAGE_SIZE * (p + 1) = m + PAGE_SIZE /\ PAGE_SIZE * q \in Int
    BY <1>1
  <2> HIDE DEF m, p
  <2> QED
    BY <1>1, <1>2, <2>2, <2>3
<1>3. ASSUME NEW q \in Int, a < PAGE_SIZE * q PROVE p < q
  <2>1. SUFFICES ASSUME q <= p PROVE FALSE
    BY <1>1
  <2>2. PAGE_SIZE * q <= m
    BY <1>1, <2>1, TimesMonotone
  <2>3. PAGE_SIZE * q \in Int
    BY <1>1
  <2> HIDE DEF m, p
  <2> QED
    BY <1>1, <1>3, <2>2, <2>3
<1> QED
  BY <1>1, <1>2, <1>3

\* A higher address is in no lower page (OS_PAGE_SHIFT of the driver).
LEMMA PageMonotone ==
  ASSUME NEW a \in Nat, NEW b \in Nat, a <= b
  PROVE  PageOf(a) <= PageOf(b)
<1>1. PAGE_SIZE * PageOf(a) \in Int /\ PageOf(a) \in Int
  BY PageAndOffset, PageSizeAssumption
<1>2. PAGE_SIZE * PageOf(a) <= a
  BY PageBounds
<1>3. PAGE_SIZE * PageOf(a) <= b
  BY <1>1, <1>2
<1> QED
  BY <1>1, <1>3, PageBounds

\* The pages of a data set.
LEMMA RangePages ==
  ASSUME NEW d \in Ranges
  PROVE  /\ d.v_addr \in Nat \ {0} /\ d.size \in Nat \ {0} /\ End(d) \in Nat
         /\ d.v_addr <= End(d)
         /\ StartPage(d) \in Nat /\ EndPage(d) \in Nat /\ StartPage(d) <= EndPage(d)
<1>1. d.v_addr \in Nat \ {0} /\ d.size \in Nat \ {0} /\ End(d) \in Nat /\ d.v_addr <= End(d)
  BY TaskAssumption DEF End
<1> QED
  BY <1>1, PageAndOffset, PageMonotone DEF StartPage, EndPage

-----------------------------------------------------------------------------
\* The task and the driver.

\* A new PIMTask has no data and no pages.
LEMMA InitTaskInv == TaskInit => TaskInv
<1> SUFFICES ASSUME TaskInit PROVE TaskInv
  OBVIOUS
<1>1. data \in Seq(Ranges) /\ Len(data) = 0 /\ vpages \in Seq(PageRange)
  BY EmptySeq DEF TaskInit
<1> QED
  BY <1>1 DEF TaskInit, TaskInv, NoPage, PageRange

\* addData keeps the ranges of the task well formed and in order.
LEMMA AddDataInv ==
  ASSUME TaskInv, NEW r \in Ranges, AddData(r)
  PROVE  TaskInv'
<1>1. PICK k \in 1 .. Len(data) + 1 :
        data' = [j \in 1 .. Len(data) + 1 |->
                  IF j < k THEN data[j] ELSE IF j = k THEN r ELSE data[j - 1]]
  BY DEF AddData
<1>2. Len(data) \in Nat /\ \A j \in 1 .. Len(data) : data[j] \in Ranges
  BY LenProperties, ElementOfSeq DEF TaskInv
<1>3. ASSUME NEW j \in 1 .. Len(data) + 1
      PROVE  data'[j] \in Ranges
  <2>1. CASE j < k
    BY <1>1, <1>2, <2>1
  <2>2. CASE j = k
    BY <1>1, <2>2
  <2>3. CASE j > k
    <3>1. j - 1 \in 1 .. Len(data)
      BY <1>2, <2>3
    <3> QED
      BY <1>1, <1>2, <2>3, <3>1
  <2> QED
    BY <2>1, <2>2, <2>3, <1>2
<1>4. data' \in Seq(Ranges) /\ Len(data') = Len(data) + 1
  <2>1. data' \in [1 .. Len(data) + 1 -> Ranges]
    BY <1>1, <1>3
  <2>2. data' \in Seq(Ranges)
    BY <1>2, <2>1, SeqDef
  <2> QED
    BY <1>2, <2>1, <2>2, LenProperties
<1> QED
  BY <1>2, <1>4 DEF TaskInv, AddData

\* offload_task starts updatePages with no page collected.
LEMMA OffloadTaskInv ==
  ASSUME TaskInv, OffloadTask
  PROVE  TaskInv'
<1>1. Collected'
  BY DEF TaskInv, OffloadTask, Collected
<1> QED
  BY <1>1 DEF TaskInv, OffloadTask

\* An iteration of updatePages collects the pages of one more range.
LEMMA UpdatePagesInv ==
  ASSUME TaskInv, UpdatePages
  PROVE  TaskInv'
<1> DEFINE d == data[it]
           c == data[it - 1]
<1>1. /\ Len(data) \in Nat /\ it \in 1 .. Len(data) /\ phase = "updating"
      /\ data \in Seq(Ranges) /\ data # <<>>
      /\ page \in PageRange /\ vpages \in Seq(PageRange) /\ Collected
      /\ it' = it + 1 /\ data' = data /\ count' = count /\ next' = next
      /\ count \in Nat /\ next = 0
  BY LenProperties DEF TaskInv, UpdatePages
<1>2. d \in Ranges
  BY <1>1, ElementOfSeq
<1>3. /\ StartPage(d) \in Nat /\ EndPage(d) \in Nat /\ StartPage(d) <= EndPage(d)
  BY <1>2, RangePages
<1>4. \/ /\ Adjacent(d) /\ page' = [page EXCEPT !.v_pn_end = EndPage(d)] /\ vpages' = vpages
      \/ /\ ~Adjacent(d) /\ page' = [v_pn_start |-> StartPage(d), v_pn_end |-> EndPage(d)]
         /\ vpages' = IF it > 1 THEN Append(vpages, page) ELSE vpages
  BY DEF UpdatePages
<1>5. page' \in PageRange /\ vpages' \in Seq(PageRange) /\ page'.v_pn_end = EndPage(d)
  <2>1. page' \in PageRange /\ page'.v_pn_end = EndPage(d)
    BY <1>1, <1>3, <1>4 DEF PageRange
  <2>2. Append(vpages, page) \in Seq(PageRange)
    BY <1>1, AppendProperties
  <2>3. vpages' = vpages \/ vpages' = Append(vpages, page)
    BY <1>4
  <2> QED
    BY <1>1, <2>1, <2>2, <2>3
<1>6. phase' \in {"updating", "rejected"}
      /\ (phase' = "updating" /\ it > 1 => ~(End(c) > d.v_addr))
  BY <1>1 DEF UpdatePages
<1>7. ASSUME phase' = "updating" PROVE Collected'
  <2>1. it' - 1 = it /\ data' = data
    BY <1>1
  <2>2. page'.v_pn_start <= StartPage(d)
    <3>1. CASE Adjacent(d)
      <4>1. it > 1 /\ it - 1 \in 1 .. Len(data)
        BY <1>1, <3>1 DEF Adjacent
      <4>2. page'.v_pn_start = page.v_pn_start /\ page.v_pn_start <= StartPage(c)
        BY <1>1, <1>4, <3>1, <4>1 DEF PageRange, Collected
      <4>3. StartPage(c) <= StartPage(d)
        <5>1. c \in Ranges
          BY <1>1, <4>1, ElementOfSeq
        <5>2. c.v_addr <= d.v_addr
          <6>1. /\ c.v_addr \in Nat /\ End(c) \in Nat /\ c.v_addr <= End(c)
                /\ d.v_addr \in Nat
            BY <1>2, <5>1, RangePages
          <6>2. ~(End(c) > d.v_addr)
            BY <1>6, <1>7, <4>1
          <6> HIDE DEF c, d
          <6> QED
            BY <6>1, <6>2
        <5> QED
          BY <1>2, <5>1, <5>2, RangePages, PageMonotone DEF StartPage
      <4>4. c \in Ranges /\ StartPage(c) \in Nat /\ page.v_pn_start \in Nat
        BY <1>1, <4>1, ElementOfSeq, RangePages DEF PageRange
      <4> QED
        BY <1>3, <4>2, <4>3, <4>4
    <3>2. CASE ~Adjacent(d)
      BY <1>3, <1>4, <3>2
    <3> QED
      BY <3>1, <3>2
  <2>3. ASSUME vpages' = <<>>, NEW k \in 1 .. it
        PROVE  InRange(data[k])'
    <3>1. CASE k = it
      BY <1>3, <1>5, <2>1, <2>2, <3>1 DEF InRange, StartPage, EndPage, End
    <3>2. CASE k # it
      <4>1. it > 1 /\ k \in 1 .. it - 1 /\ k \in 1 .. Len(data) /\ it - 1 \in 1 .. Len(data)
        BY <1>1, <3>2
      <4>2. Adjacent(d) /\ vpages = <<>>
        <5>1. Append(vpages, page) # <<>>
          BY <1>1, AppendProperties
        <5> QED
          BY <1>4, <2>3, <4>1, <5>1
      <4>3. InRange(data[k])
        BY <1>1, <4>1, <4>2 DEF Collected
      <4>4. page'.v_pn_start = page.v_pn_start
        BY <1>1, <1>4, <4>2 DEF PageRange
      <4>5. c \in Ranges /\ data[k] \in Ranges
        BY <1>1, <4>1, ElementOfSeq
      <4>6. page.v_pn_end = EndPage(c)
        BY <1>1, <4>1 DEF Collected
      <4>7. EndPage(c) <= EndPage(d)
        <5>1. End(c) <= End(d)
          <6>1. /\ End(c) \in Nat /\ End(d) \in Nat
                /\ d.v_addr \in Nat /\ d.v_addr <= End(d)
            BY <1>2, <4>5, RangePages
          <6>2. ~(End(c) > d.v_addr)
            BY <1>6, <1>7, <4>1
          <6> HIDE DEF c, d
          <6> QED
            BY <6>1, <6>2
        <5> QED
          BY <1>2, <4>5, <5>1, RangePages, PageMonotone DEF EndPage
      <4>8. EndPage(data[k]) <= EndPage(d)
        BY <1>2, <4>3, <4>5, <4>6, <4>7, RangePages DEF InRange
      <4> QED
        BY <1>1, <1>5, <4>3, <4>4, <4>8 DEF InRange, StartPage, EndPage, End
    <3> QED
      BY <3>1, <3>2
  <2> QED
    BY <1>5, <2>1, <2>2, <2>3 DEF Collected, StartPage, EndPage, End
<1> QED
  BY <1>1, <1>5, <1>6, <1>7 DEF TaskInv

\* pim_get_user_pages gives every page of the range a frame of its own.
LEMMA PinPagesInv ==
  ASSUME TaskInv, PinPages
  PROVE  TaskInv'
<1>1. /\ Len(data) \in Nat \ {0} /\ it = Len(data) + 1 /\ phase = "updating"
      /\ data \in Seq(Ranges)
      /\ page \in PageRange /\ vpages \in Seq(PageRange) /\ Collected
      /\ it' = it /\ data' = data /\ page' = page /\ next' = next
      /\ count \in Nat /\ next = 0
      /\ page.v_pn_start \in Nat /\ page.v_pn_end \in Nat
      /\ vpages' = Append(vpages, page)
  BY LenProperties, EmptySeq DEF TaskInv, PinPages, PageRange
<1>2. vpages' \in Seq(PageRange) /\ Len(vpages') = Len(vpages) + 1 /\ Len(vpages) \in Nat
  BY <1>1, AppendProperties, LenProperties
<1>3. CASE Len(vpages') = 1
  <2>1. vpages = <<>>
    BY <1>1, <1>2, <1>3, EmptySeq
  <2>2. \A k \in 1 .. Len(data) : InRange(data[k])
    BY <1>1, <2>1 DEF Collected
  <2>3. page.v_pn_start <= page.v_pn_end
    <3>1. 1 \in 1 .. Len(data) /\ data[1] \in Ranges
      BY <1>1, ElementOfSeq
    <3> QED
      BY <1>1, <2>2, <3>1, RangePages DEF InRange
  <2>4. /\ phase' = "merging"
        /\ count' = page.v_pn_end - page.v_pn_start + 1
        /\ slicevstart' = PAGE_SIZE * page.v_pn_start
        /\ pagetable' \in [page.v_pn_start .. page.v_pn_end -> Frames]
        /\ \E word \in Frames :
             physical_addr' = [k \in 0 .. count' |->
               IF k < count' THEN pagetable'[page.v_pn_start + k] ELSE word]
    BY <1>3 DEF PinPages
  <2>5. PICK word \in Frames :
          physical_addr' = [k \in 0 .. count' |->
            IF k < count' THEN pagetable'[page.v_pn_start + k] ELSE word]
    BY <2>4
  <2> DEFINE n == count'
             s == page.v_pn_start
             t == page.v_pn_end
  <2>a. n = t - s + 1 /\ s \in Nat /\ t \in Nat /\ s <= t
    BY <1>1, <2>3, <2>4
  <2> HIDE DEF n, s, t
  <2>6. n \in Nat
    BY <2>a
  <2>7. \A k \in 0 .. n - 1 : s + k \in s .. t /\ k < n /\ k \in 0 .. n
    BY <2>a
  <2>b. \A k \in 0 .. n : k < n => k \in 0 .. n - 1
    BY <2>6
  <2> USE DEF n, s, t
  <2>8. \A k \in 0 .. count' - 1 : physical_addr'[k] = pagetable'[page.v_pn_start + k]
    BY <2>5, <2>7
  <2>9. physical_addr' \in [0 .. count' -> Frames]
    <3>2. \A k \in 0 .. count' : k < count' => pagetable'[page.v_pn_start + k] \in Frames
      BY <2>4, <2>7, <2>b
    <3> QED
      BY <2>5, <3>2
  <2>10. Pinned'
    BY <1>1, <2>2, <2>3, <2>4, <2>8, <2>9 DEF Pinned, InRange, StartPage, EndPage, End
  <2> QED
    BY <1>1, <1>2, <2>4, <2>6, <2>10 DEF TaskInv
<1>4. CASE Len(vpages') # 1
  <2>1. phase' = "scattered" /\ count' = count
    BY <1>4 DEF PinPages
  <2> QED
    BY <1>1, <1>2, <2>1 DEF TaskInv
<1> QED
  BY <1>3, <1>4

\* An iteration of pim_create_slice_table writes right entries only.
LEMMA MergeSliceInv ==
  ASSUME TaskInv, MergeSlice
  PROVE  TaskInv'
<1> DEFINE s == page.v_pn_start
<1>1. /\ phase = "merging" /\ next \in Nat /\ next < count /\ count \in Nat /\ Pinned
      /\ s \in Nat /\ page.v_pn_end \in Nat /\ PAGE_SIZE \in Nat \ {0}
      /\ page' = page /\ count' = count /\ slicevstart' = slicevstart
      /\ pagetable' = pagetable /\ physical_addr' = physical_addr /\ data' = data
  BY PageSizeAssumption DEF TaskInv, MergeSlice, PageRange
<1>2. PICK c \in 1 .. count + 1 - next :
        /\ \A k \in 1 .. c - 1 : Contiguous(physical_addr, next, next + k)
        /\ slicetable' = [k \in 0 .. count - 1 |->
             IF k \in next .. next + c - 1
             THEN [vaddr |-> slicevstart + PAGE_SIZE * next,
                   paddr |-> physical_addr[next], size |-> PAGE_SIZE * c]
             ELSE IF k < next THEN slicetable[k]
             ELSE [vaddr |-> 0, paddr |-> 0, size |-> 0]]
        /\ next' = next + c
  BY DEF MergeSlice
<1> DEFINE e == [vaddr |-> slicevstart + PAGE_SIZE * next,
                 paddr |-> physical_addr[next], size |-> PAGE_SIZE * c]
<1>3. /\ PAGE_SIZE * (s + next) \in Nat /\ PAGE_SIZE * c \in Nat
      /\ PAGE_SIZE * (s + next + c) \in Nat
      /\ PAGE_SIZE * (s + next + c) = PAGE_SIZE * (s + next) + PAGE_SIZE * c
      /\ slicevstart + PAGE_SIZE * next = PAGE_SIZE * (s + next)
  <2>1. slicevstart = PAGE_SIZE * s /\ c \in Nat
    BY <1>1 DEF Pinned
  <2> HIDE DEF s
  <2>2. PAGE_SIZE * (s + next) = PAGE_SIZE * s + PAGE_SIZE * next
    BY <1>1
  <2>3. PAGE_SIZE * (s + next + c) = PAGE_SIZE * (s + next) + PAGE_SIZE * c
    BY <1>1, <2>1
  <2>4. PAGE_SIZE * (s + next) \in Nat /\ PAGE_SIZE * c \in Nat
        /\ PAGE_SIZE * (s + next + c) \in Nat
    BY <1>1, <2>1
  <2> QED
    BY <2>1, <2>2, <2>3, <2>4
<1>4. physical_addr[next] \in Nat
  <2>1. next \in 0 .. count
    BY <1>1
  <2> QED
    BY <1>1, <2>1, TaskAssumption DEF Pinned
<1>5. /\ e \in Slice
      /\ e.vaddr = PAGE_SIZE * (s + next)
      /\ e.vaddr + e.size = PAGE_SIZE * (s + next + c)
      /\ e.paddr = physical_addr[next]
  BY <1>3, <1>4 DEF Slice
<1>6. \A k \in 0 .. count - 1 :
        slicetable'[k] = IF k \in next .. next + c - 1 THEN e
                         ELSE IF k < next THEN slicetable[k]
                         ELSE [vaddr |-> 0, paddr |-> 0, size |-> 0]
  BY <1>2
<1> HIDE DEF e
<1>7. ASSUME NEW k \in next .. next + c - 1, NEW a \in Nat, PageOf(a) = s + k
      PROVE  Covers(e, a)
  <2> DEFINE l == PAGE_SIZE * (s + next)
             m == PAGE_SIZE * (s + k)
             n == PAGE_SIZE * (s + k + 1)
             h == PAGE_SIZE * (s + next + c)
  <2>1. l <= m /\ n <= h
    BY <1>1, TimesMonotone
  <2>2. n = m + PAGE_SIZE /\ m \in Int /\ l \in Int /\ h \in Int /\ n \in Int
    BY <1>1
  <2>3. m <= a /\ a < m + PAGE_SIZE
    BY <1>7, PageBounds
  <2> HIDE DEF l, m, n, h
  <2>4. l <= a /\ a < h
    BY <1>1, <2>1, <2>2, <2>3
  <2> QED
    BY <1>5, <2>4 DEF Covers, l, h
<1>8. Right(e)
  <2>1. SUFFICES ASSUME NEW a \in Nat, Covers(e, a), PageOf(a) \in s .. page.v_pn_end
                 PROVE  Translate(e, a) = HostAddress(a)
    BY DEF Right
  <2> DEFINE j == PageOf(a) - s
             o == a % PAGE_SIZE
             l == PAGE_SIZE * (s + next)
             f == PAGE_SIZE * (j - next)
  <2>2. PageOf(a) \in Nat /\ o \in Nat /\ a = PAGE_SIZE * PageOf(a) + o
    BY PageAndOffset
  <2>3. s + next <= PageOf(a) /\ PageOf(a) < s + next + c
    <3>1. PAGE_SIZE * (s + next) <= a /\ a < PAGE_SIZE * (s + next + c)
      BY <1>5, <2>1 DEF Covers
    <3>2. s + next \in Int /\ s + next + c \in Int
      BY <1>1
    <3> QED
      BY <3>1, <3>2, PageBounds
  <2>4. /\ j \in 0 .. count - 1 /\ j \in 0 .. count /\ next <= j /\ j < next + c
        /\ PageOf(a) = s + j /\ j - next \in Int
    <3>1. count = page.v_pn_end - s + 1
      BY <1>1 DEF Pinned
    <3> HIDE DEF s
    <3>2. PageOf(a) <= page.v_pn_end /\ s <= PageOf(a)
      BY <1>1, <2>1, <2>2
    <3> QED
      BY <1>1, <2>2, <2>3, <3>1, <3>2
  <2>5. physical_addr[j] = physical_addr[next] + f
    <3>1. CASE j = next
      BY <1>1, <1>4, <3>1
    <3>2. CASE j # next
      <4>1. j - next \in 1 .. c - 1 /\ next + (j - next) = j
        BY <1>1, <2>4, <3>2
      <4>2. Contiguous(physical_addr, next, j)
        BY <1>2, <4>1
      <4>3. physical_addr[j] \in Nat
        BY <1>1, <2>4, TaskAssumption DEF Pinned
      <4>4. f \in Int
        BY <1>1, <2>4
      <4> HIDE DEF j, f
      <4>5. physical_addr[j] - physical_addr[next] = f
        BY <4>2 DEF Contiguous, f
      <4> QED
        BY <1>4, <4>3, <4>4, <4>5
    <3> QED
      BY <3>1, <3>2
  <2>6. HostAddress(a) = physical_addr[j] + o
    BY <1>1, <2>4 DEF Pinned, HostAddress
  <2>7. Translate(e, a) = a - l + physical_addr[next]
    BY <1>5 DEF Translate
  <2>8. PAGE_SIZE * PageOf(a) = l + f /\ l \in Int /\ f \in Int
    <3>1. PAGE_SIZE * (s + j) = PAGE_SIZE * (s + next) + PAGE_SIZE * (j - next)
      BY <1>1, <2>4
    <3> QED
      BY <1>1, <2>4, <3>1
  <2>9. a = l + f + o
    BY <2>2, <2>8
  <2> HIDE DEF j, o, l, f
  <2> QED
    BY <1>4, <2>2, <2>5, <2>6, <2>7, <2>8, <2>9
<1>9. ASSUME NEW k \in 0 .. count - 1, k < next + c
      PROVE  GoodEntry(k)'
  <2>1. CASE k \in next .. next + c - 1
    <3>1. slicetable'[k] = e
      BY <1>6, <2>1
    <3>2. Right(slicetable[k])'
      BY <1>1, <1>8, <3>1 DEF Right, HostAddress
    <3>3. \A a \in Nat : PageOf(a) = s + k => Covers(e, a)
      BY <1>7, <2>1
    <3> QED
      BY <1>1, <1>5, <3>1, <3>2, <3>3 DEF GoodEntry
  <2>2. CASE k < next
    <3>1. slicetable'[k] = slicetable[k]
      BY <1>1, <1>6, <2>2
    <3>2. GoodEntry(k)
      BY <1>1, <2>2 DEF TaskInv
    <3>3. Right(slicetable[k])'
      BY <1>1, <3>1, <3>2 DEF GoodEntry, Right, HostAddress
    <3> QED
      BY <1>1, <3>1, <3>2, <3>3 DEF GoodEntry
  <2> QED
    BY <1>1, <1>9, <2>1, <2>2
<1>10. Pinned'
  BY <1>1 DEF Pinned, InRange, StartPage, EndPage, End
<1>11. next' \in 0 .. count' + 1 /\ phase' = "merging"
  BY <1>1, <1>2 DEF MergeSlice
<1> QED
  BY <1>1, <1>2, <1>9, <1>10, <1>11 DEF TaskInv, MergeSlice

\* The registers written last hold the table and its first address.
LEMMA SendTableInv ==
  ASSUME TaskInv, SendTable
  PROVE  TaskInv'
<1>1. Pinned'
  BY DEF TaskInv, SendTable, Pinned, InRange, StartPage, EndPage, End
<1>2. \A k \in 0 .. count - 1 : k < next => GoodEntry(k)'
  BY DEF TaskInv, SendTable, GoodEntry, Right, HostAddress
<1> QED
  BY <1>1, <1>2 DEF TaskInv, SendTable

\* What the slice table holds for an address of the task.
LEMMA DataPinned ==
  ASSUME TaskInv, phase = "offloaded", NEW a \in DataAddresses
  PROVE  /\ a \in Nat /\ PageOf(a) \in page.v_pn_start .. page.v_pn_end
         /\ EntryFor(a) \in Slice /\ Right(EntryFor(a)) /\ Covers(EntryFor(a), a)
<1> DEFINE s == page.v_pn_start
<1>1. /\ Pinned /\ \A k \in 0 .. count - 1 : GoodEntry(k)
      /\ s \in Nat /\ page.v_pn_end \in Nat /\ data \in Seq(Ranges)
      /\ PAGE_SIZE \in Nat \ {0}
  BY PageSizeAssumption DEF TaskInv, PageRange
<1>2. PICK k \in 1 .. Len(data) : a \in data[k].v_addr .. End(data[k])
  BY DEF DataAddresses
<1>3. data[k] \in Ranges /\ InRange(data[k])
  BY <1>1, ElementOfSeq DEF Pinned
<1>4. a \in Nat /\ data[k].v_addr <= a /\ a <= End(data[k])
  BY <1>2, <1>3, RangePages
<1>5. StartPage(data[k]) <= PageOf(a) /\ PageOf(a) <= EndPage(data[k])
  BY <1>3, <1>4, RangePages, PageMonotone DEF StartPage, EndPage
<1>6. PageOf(a) \in s .. page.v_pn_end
  <2>1. /\ StartPage(data[k]) \in Nat /\ EndPage(data[k]) \in Nat /\ PageOf(a) \in Nat
        /\ s <= StartPage(data[k]) /\ EndPage(data[k]) <= page.v_pn_end
    BY <1>3, <1>4, RangePages, PageAndOffset DEF InRange
  <2> HIDE DEF s
  <2> QED
    BY <1>1, <1>5, <2>1
<1> DEFINE j == PageOf(a) - s
           b == a - slicevstart
<1>7. j \in Nat /\ j \in 0 .. count - 1 /\ PageOf(a) = s + j
  <2>1. count = page.v_pn_end - s + 1
    BY <1>1 DEF Pinned
  <2>2. PageOf(a) \in Nat /\ s \in Nat /\ page.v_pn_end \in Nat
    BY <1>1, <1>4, PageAndOffset
  <2> HIDE DEF s
  <2> QED
    BY <1>6, <2>1, <2>2
<1>8. EntryIndex(a) = j
  <2> DEFINE m == PAGE_SIZE * j
             l == PAGE_SIZE * s
             n == PAGE_SIZE * PageOf(a)
  <2>1. n = l + m /\ m \in Nat /\ l \in Nat
    <3> HIDE DEF s, j
    <3> QED
      BY <1>1, <1>7
  <2>2. n <= a /\ a < n + PAGE_SIZE
    BY <1>4, PageBounds
  <2>3. slicevstart = l
    BY <1>1 DEF Pinned
  <2>4. PAGE_SIZE * (j + 1) = m + PAGE_SIZE
    <3> HIDE DEF j
    <3> QED
      BY <1>1, <1>7
  <2> HIDE DEF m, l, n
  <2>5. b \in Nat /\ m <= b /\ b < m + PAGE_SIZE
    BY <1>1, <1>4, <2>1, <2>2, <2>3
  <2>6. j <= PageOf(b) /\ PageOf(b) < j + 1 /\ PageOf(b) \in Nat
    <3> HIDE DEF j, b
    <3>1. PAGE_SIZE * j <= b /\ b < PAGE_SIZE * (j + 1)
      BY <2>4, <2>5 DEF m
    <3>2. j \in Int /\ j + 1 \in Int
      BY <1>7
    <3> QED
      BY <2>5, <3>1, <3>2, PageBounds, PageAndOffset
  <2>7. PageOf(b) = j
    BY <1>7, <2>6
  <2> QED
    BY <2>7 DEF EntryIndex, PageOf
<1> QED
  BY <1>1, <1>4, <1>6, <1>7, <1>8 DEF EntryFor, GoodEntry

\* One step of the task or the driver.
LEMMA TaskNextInv ==
  ASSUME TaskInv, TaskNext
  PROVE  TaskInv'
  BY AddDataInv, OffloadTaskInv, UpdatePagesInv, PinPagesInv, MergeSliceInv, SendTableInv
     DEF TaskNext

\* The invariant is about the variables of the task only.
LEMMA TaskUnchangedInv ==
  ASSUME TaskInv, UNCHANGED taskVars
  PROVE  TaskInv'
<1> USE DEF taskVars
<1>1. phase = "updating" => Collected'
  BY DEF TaskInv, Collected, InRange, StartPage, EndPage, End
<1>2. phase \in {"merging", "offloaded"} => Pinned'
  BY DEF TaskInv, Pinned, InRange, StartPage, EndPage, End
<1>3. phase \in {"merging", "offloaded"} =>
        \A k \in 0 .. count - 1 : k < next => GoodEntry(k)'
  BY DEF TaskInv, GoodEntry, Right, HostAddress
<1> QED
  BY <1>1, <1>2, <1>3 DEF TaskInv

-----------------------------------------------------------------------------
\* updatePages computes exactly the pages of the data sets.

\* The ranges v hold exactly the pages of the first n data sets, with gaps between.
Holds(v, p) == \E k \in 1 .. Len(v) : p \in v[k].v_pn_start .. v[k].v_pn_end
Needed(n, p) == \E k \in 1 .. n : p \in StartPage(data[k]) .. EndPage(data[k])
Gaps(v) == \A k \in 2 .. Len(v) : v[k].v_pn_start > v[k - 1].v_pn_end + 1
Exact(v, n) == (\A p \in Nat : Holds(v, p) <=> Needed(n, p)) /\ Gaps(v)

PagesInv ==
  /\ phase = "updating" => IF it = 1 THEN vpages = <<>>
                           ELSE Exact(Append(vpages, page), it - 1)
  /\ phase \in {"merging", "offloaded", "scattered"} => Exact(vpages, Len(data))

\* An iteration of updatePages keeps the collected pages exact.
LEMMA UpdatePagesExact ==
  ASSUME TaskInv, PagesInv, UpdatePages
  PROVE  PagesInv'
<1> DEFINE d == data[it]
           c == data[it - 1]
           s == page.v_pn_start
           e == page.v_pn_end
           n == Len(vpages)
           v == Append(vpages, page)
           w == Append(vpages', page')
<1>1. /\ Len(data) \in Nat /\ it \in 1 .. Len(data) /\ it \in Nat /\ phase = "updating"
      /\ data \in Seq(Ranges) /\ page \in PageRange /\ vpages \in Seq(PageRange)
      /\ Collected /\ it' = it + 1 /\ data' = data /\ n \in Nat
      /\ s \in Nat /\ e \in Nat
  BY LenProperties DEF TaskInv, UpdatePages, PageRange
<1>2. phase' \in {"updating", "rejected"} /\ it' # 1 /\ it' - 1 = it
      /\ (phase' = "updating" /\ it > 1 => ~(End(c) > d.v_addr))
  BY <1>1 DEF UpdatePages
<1>3. SUFFICES ASSUME phase' = "updating" PROVE Exact(w, it)
  <2>1. Exact(w, it) => Exact(Append(vpages, page), it - 1)'
    BY <1>1, <1>2 DEF Exact, Holds, Needed, Gaps, StartPage, EndPage, End
  <2> QED
    BY <1>2, <2>1 DEF PagesInv
<1>4. /\ d \in Ranges /\ StartPage(d) \in Nat /\ EndPage(d) \in Nat /\ StartPage(d) <= EndPage(d)
  BY <1>1, ElementOfSeq, RangePages
<1>5. \A p \in Nat : Needed(it, p) <=>
        (it > 1 /\ Needed(it - 1, p)) \/ p \in StartPage(d) .. EndPage(d)
  <2>1. \A k \in 1 .. it : k = it \/ (it > 1 /\ k \in 1 .. it - 1)
    BY <1>1
  <2>2. \A k \in 1 .. it - 1 : k \in 1 .. it
    BY <1>1
  <2>3. it \in 1 .. it
    BY <1>1
  <2> QED
    BY <2>1, <2>2, <2>3 DEF Needed
<1>6. /\ v \in Seq(PageRange) /\ Len(v) = n + 1 /\ v[n + 1] = page
      /\ \A k \in 1 .. n : v[k] = vpages[k]
  BY <1>1, AppendProperties
<1>7. page' \in PageRange /\ page'.v_pn_end = EndPage(d)
  <2>1. \/ page' = [page EXCEPT !.v_pn_end = EndPage(d)]
        \/ page' = [v_pn_start |-> StartPage(d), v_pn_end |-> EndPage(d)]
    BY DEF UpdatePages
  <2> HIDE DEF d
  <2> QED
    BY <1>1, <1>4, <2>1 DEF PageRange
<1>8. CASE it = 1
  <2>1. vpages' = <<>> /\ page'.v_pn_start = StartPage(d) /\ w = <<page'>>
    <3>1. vpages = <<>>
      BY <1>1, <1>8 DEF PagesInv
    <3>2. ~Adjacent(d)
      BY <1>8 DEF Adjacent
    <3>3. vpages' = <<>> /\ page'.v_pn_start = StartPage(d)
      BY <1>8, <3>1, <3>2 DEF UpdatePages
    <3> QED
      BY <3>3
  <2>2. Len(w) = 1 /\ w[1] = page'
    BY <2>1
  <2> HIDE DEF w
  <2>3. \A p : Holds(w, p) <=> p \in StartPage(d) .. EndPage(d)
    BY <1>7, <2>1, <2>2 DEF Holds
  <2>4. Gaps(w)
    BY <2>2 DEF Gaps
  <2> QED
    BY <1>5, <1>8, <2>3, <2>4 DEF Exact
<1>9. CASE it > 1 /\ Adjacent(d)
  <2>1. vpages' = vpages /\ page'.v_pn_start = s
    BY <1>1, <1>9 DEF UpdatePages, PageRange
  <2>2. /\ Len(w) = n + 1 /\ w[n + 1] = page' /\ \A k \in 1 .. n : w[k] = vpages[k]
    BY <1>1, <1>7, <2>1, AppendProperties
  <2>3. /\ it - 1 \in 1 .. Len(data) /\ c \in Ranges
        /\ s <= StartPage(c) /\ e = EndPage(c)
    BY <1>1, <1>9, ElementOfSeq DEF Collected
  <2>4. /\ StartPage(c) \in Nat /\ StartPage(c) <= EndPage(c)
        /\ StartPage(c) <= StartPage(d) /\ EndPage(c) <= EndPage(d)
    <3>1. /\ c.v_addr \in Nat /\ End(c) \in Nat /\ c.v_addr <= End(c)
          /\ d.v_addr \in Nat /\ End(d) \in Nat /\ d.v_addr <= End(d)
          /\ StartPage(c) \in Nat /\ StartPage(c) <= EndPage(c)
      BY <1>4, <2>3, RangePages
    <3>2. ~(End(c) > d.v_addr)
      BY <1>2, <1>3, <1>9
    <3> HIDE DEF c, d
    <3>3. c.v_addr <= d.v_addr /\ End(c) <= End(d)
      BY <3>1, <3>2
    <3> QED
      BY <3>1, <3>3, PageMonotone DEF StartPage, EndPage
  <2>5. e >= StartPage(d) - 1
    BY <1>9 DEF Adjacent
  <2> HIDE DEF w, v, d, c, s, e, n
  <2>6. \A p \in Nat : p \in s .. EndPage(d) <=> p \in s .. e \/ p \in StartPage(d) .. EndPage(d)
    BY <1>1, <1>4, <2>3, <2>4, <2>5
  <2>7. \A k \in 1 .. n + 1 : k = n + 1 \/ k \in 1 .. n
    BY <1>1
  <2>8. n + 1 \in 1 .. n + 1 /\ \A k \in 1 .. n : k \in 1 .. n + 1
    BY <1>1
  <2>9. \A p : Holds(v, p) <=>
          (\E k \in 1 .. n : p \in vpages[k].v_pn_start .. vpages[k].v_pn_end) \/ p \in s .. e
    BY <1>6, <2>7, <2>8 DEF Holds, s, e
  <2>10. \A p : Holds(w, p) <=>
          (\E k \in 1 .. n : p \in vpages[k].v_pn_start .. vpages[k].v_pn_end)
            \/ p \in s .. EndPage(d)
    BY <1>7, <2>1, <2>2, <2>7, <2>8 DEF Holds
  <2>11. Exact(v, it - 1)
    BY <1>1, <1>9 DEF PagesInv, v
  <2>12. Gaps(w)
    <3>1. \A k \in 2 .. n + 1 :
            /\ w[k].v_pn_start = v[k].v_pn_start /\ w[k - 1].v_pn_end = v[k - 1].v_pn_end
      <4> TAKE k \in 2 .. n + 1
      <4>1. k - 1 \in 1 .. n /\ (k = n + 1 \/ k \in 1 .. n)
        BY <1>1
      <4> QED
        BY <1>6, <2>1, <2>2, <4>1 DEF s
    <3> QED
      BY <1>6, <2>2, <2>11, <3>1 DEF Exact, Gaps
  <2>13. \A p \in Nat : Holds(w, p) <=> Needed(it, p)
    BY <1>5, <1>9, <2>6, <2>9, <2>10, <2>11 DEF Exact, d
  <2> QED
    BY <2>12, <2>13 DEF Exact
<1>10. CASE it > 1 /\ ~Adjacent(d)
  <2>1. vpages' = v /\ page'.v_pn_start = StartPage(d)
    BY <1>1, <1>10 DEF UpdatePages
  <2>2. /\ Len(w) = n + 2 /\ w[n + 2] = page' /\ \A k \in 1 .. n + 1 : w[k] = v[k]
    BY <1>1, <1>6, <1>7, <2>1, AppendProperties
  <2>3. StartPage(d) > e + 1
    BY <1>1, <1>4, <1>10 DEF Adjacent
  <2>4. Exact(v, it - 1)
    BY <1>1, <1>10 DEF PagesInv
  <2> HIDE DEF w, v, d, s, e, n
  <2>5. \A k \in 1 .. n + 2 : k = n + 2 \/ k \in 1 .. n + 1
    BY <1>1
  <2>6. n + 2 \in 1 .. n + 2 /\ \A k \in 1 .. n + 1 : k \in 1 .. n + 2
    BY <1>1
  <2>7. \A p : Holds(w, p) <=> Holds(v, p) \/ p \in StartPage(d) .. EndPage(d)
    BY <1>6, <1>7, <2>1, <2>2, <2>5, <2>6 DEF Holds
  <2>8. Gaps(w)
    <3>1. SUFFICES ASSUME NEW k \in 2 .. n + 2
                   PROVE  w[k].v_pn_start > w[k - 1].v_pn_end + 1
      BY <2>2 DEF Gaps
    <3>2. CASE k = n + 2
      <4>1. k - 1 = n + 1 /\ n + 1 \in 1 .. n + 1
        BY <1>1, <3>2
      <4>2. w[k - 1] = v[n + 1]
        BY <2>2, <4>1
      <4>3. v[n + 1] = page /\ w[k] = page'
        BY <1>6, <2>2, <3>2
      <4> QED
        BY <2>1, <2>3, <4>2, <4>3 DEF e
    <3>3. CASE k # n + 2
      <4>1. k \in 2 .. n + 1 /\ k \in 1 .. n + 1 /\ k - 1 \in 1 .. n + 1
        BY <1>1, <3>3
      <4> QED
        BY <1>6, <2>2, <2>4, <4>1 DEF Exact, Gaps
    <3> QED
      BY <3>2, <3>3
  <2>9. \A p \in Nat : Holds(w, p) <=> Needed(it, p)
    BY <1>5, <1>10, <2>4, <2>7 DEF Exact, d
  <2> QED
    BY <2>8, <2>9 DEF Exact
<1> QED
  BY <1>1, <1>8, <1>9, <1>10

\* No other step of the task changes the pages updatePages collected.
LEMMA TaskNextExact ==
  ASSUME TaskInv, PagesInv, TaskNext
  PROVE  PagesInv'
<1>1. CASE \E r \in Ranges : AddData(r)
  BY <1>1 DEF AddData, PagesInv
<1>2. CASE OffloadTask
  BY <1>2 DEF OffloadTask, PagesInv, TaskInv
<1>3. CASE UpdatePages
  BY <1>3, UpdatePagesExact
<1>4. CASE PinPages
  <2>1. it = Len(data) + 1 /\ it # 1 /\ it - 1 = Len(data) /\ phase = "updating"
        /\ vpages' = Append(vpages, page) /\ data' = data
    BY <1>4, LenProperties, EmptySeq DEF PinPages, TaskInv
  <2>2. Exact(Append(vpages, page), Len(data))
    BY <2>1 DEF PagesInv
  <2>3. Exact(vpages, Len(data))'
    BY <2>1, <2>2 DEF Exact, Holds, Needed, Gaps, StartPage, EndPage, End
  <2>4. phase' # "updating"
    BY <1>4 DEF PinPages
  <2> QED
    BY <2>3, <2>4 DEF PagesInv
<1>5. CASE MergeSlice \/ SendTable
  <2>1. /\ phase = "merging" /\ phase' \in {"merging", "offloaded"}
        /\ vpages' = vpages /\ data' = data
    BY <1>5 DEF MergeSlice, SendTable
  <2> QED
    BY <2>1 DEF PagesInv, Exact, Holds, Needed, Gaps, StartPage, EndPage, End
<1> QED
  BY <1>1, <1>2, <1>3, <1>4, <1>5 DEF TaskNext

\* The steps of the hardware leave the collected pages alone.
LEMMA TaskUnchangedExact ==
  ASSUME PagesInv, UNCHANGED taskVars
  PROVE  PagesInv'
  BY DEF PagesInv, taskVars, Exact, Holds, Needed, Gaps, StartPage, EndPage, End
=============================================================================
