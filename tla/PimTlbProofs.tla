----------------------------- MODULE PimTlbProofs -----------------------------
(***************************************************************************)
(* What the operations of the TLB do to its rules and to the ranks that    *)
(* stand for the ticks of their last use: for every size of the TLB, the   *)
(* ranks stay a permutation, so that updateTLB always finds the rule to    *)
(* replace, and it replaces the one of lowest rank.                        *)
(***************************************************************************)
EXTENDS PimTlb, SequenceTheorems, TLAPS

\* The ranks of t are a permutation of the indexes of its rules.
Ranked(t) ==
  /\ t \in [rules : Seq(Slice), lastUsed : Seq(Nat)]
  /\ Len(t.lastUsed) = Len(t.rules)
  /\ \A k \in 1 .. Len(t.rules) : t.lastUsed[k] \in 1 .. Len(t.rules)
  /\ \A j, k \in 1 .. Len(t.rules) : t.lastUsed[j] = t.lastUsed[k] => j = k
  /\ \A r \in 1 .. Len(t.rules) : \E k \in 1 .. Len(t.rules) : t.lastUsed[k] = r

\* No slice has two rules in t.
Distinct(t) ==
  \A j, k \in 1 .. Len(t.rules) : t.rules[j] = t.rules[k] => j = k

Fits(t) == Len(t.rules) <= TLB_SIZE - 1

\* A function on 1 .. n is a sequence of length n.
LEMMA FunctionSeq ==
  ASSUME NEW S, NEW n \in Nat, NEW s \in [1 .. n -> S]
  PROVE  s \in Seq(S) /\ Len(s) = n /\ DOMAIN s = 1 .. n
<1>1. s \in Seq(S)
  BY SeqDef
<1> QED
  BY <1>1, LenProperties

\* Without takes element k out and closes the gap.
LEMMA WithoutProperties ==
  ASSUME NEW S, NEW s \in Seq(S), NEW k \in 1 .. Len(s)
  PROVE  /\ Without(s, k) \in Seq(S)
         /\ Len(Without(s, k)) = Len(s) - 1
         /\ \A j \in 1 .. Len(s) - 1 :
              Without(s, k)[j] = IF j < k THEN s[j] ELSE s[j + 1]
<1>1. Len(s) - 1 \in Nat
  BY LenProperties
<1>2. Without(s, k) \in [1 .. Len(s) - 1 -> S]
  BY <1>1, LenProperties, ElementOfSeq DEF Without
<1> QED
  BY <1>1, <1>2, FunctionSeq DEF Without

\* Evicted takes out the rule of rank 1 and lowers the other ranks.
LEMMA EvictedProperties ==
  ASSUME NEW t, Ranked(t), Len(t.rules) > 0
  PROVE  /\ Ranked(Evicted(t))
         /\ Len(Evicted(t).rules) = Len(t.rules) - 1
         /\ \E m \in 1 .. Len(t.rules) :
              /\ t.lastUsed[m] = 1
              /\ \A j \in 1 .. Len(t.rules) - 1 :
                   /\ Evicted(t).rules[j] = IF j < m THEN t.rules[j] ELSE t.rules[j + 1]
                   /\ Evicted(t).lastUsed[j] =
                        IF j < m THEN t.lastUsed[j] - 1 ELSE t.lastUsed[j + 1] - 1
<1> DEFINE n == Len(t.rules)
           lu == t.lastUsed
           m == CHOOSE k \in 1 .. n : lu[k] = 1
           left == Without(lu, m)
           low == [j \in 1 .. Len(left) |-> left[j] - 1]
<1>0. t.rules \in Seq(Slice) /\ lu \in Seq(Nat) /\ Len(lu) = n
  BY DEF Ranked
<1>1. n \in Nat \ {0} /\ n - 1 \in Nat
  BY <1>0, LenProperties
<1>a. /\ \A k \in 1 .. n : lu[k] \in 1 .. n
      /\ \A j, k \in 1 .. n : lu[j] = lu[k] => j = k
      /\ \A r \in 1 .. n : \E k \in 1 .. n : lu[k] = r
  BY DEF Ranked
<1>7. Evicted(t) = [rules |-> Without(t.rules, m), lastUsed |-> low]
  BY DEF Evicted
<1> HIDE DEF n, lu, m
<1>2. m \in 1 .. n /\ lu[m] = 1
  <2>1. \E k \in 1 .. n : lu[k] = 1
    <3>1. 1 \in 1 .. n
      BY <1>1
    <3> QED
      BY <3>1, <1>a
  <2> QED
    BY <2>1, Zenon DEF m
<1>3. /\ Without(t.rules, m) \in Seq(Slice)
      /\ Len(Without(t.rules, m)) = n - 1
      /\ \A j \in 1 .. n - 1 :
           Without(t.rules, m)[j] = IF j < m THEN t.rules[j] ELSE t.rules[j + 1]
  <2>1. m \in 1 .. Len(t.rules)
    BY <1>2 DEF n
  <2> QED
    BY <1>0, <2>1, WithoutProperties, Zenon DEF n
<1>4. /\ left \in Seq(Nat) /\ Len(left) = n - 1
      /\ \A j \in 1 .. n - 1 : left[j] = IF j < m THEN lu[j] ELSE lu[j + 1]
  BY <1>0, <1>2, WithoutProperties
<1> HIDE DEF left
<1>5. \A j \in 1 .. n - 1 : low[j] = IF j < m THEN lu[j] - 1 ELSE lu[j + 1] - 1
  BY <1>1, <1>2, <1>4
<1>6. low \in [1 .. n - 1 -> 1 .. n - 1]
  <2>1. ASSUME NEW j \in 1 .. n - 1 PROVE left[j] - 1 \in 1 .. n - 1
    <3>1. CASE j < m
      <4>1. j \in 1 .. n /\ j # m
        BY <3>1, <1>1, <1>2
      <4>2. lu[j] \in 1 .. n /\ lu[j] # lu[m] /\ left[j] = lu[j]
        BY <3>1, <4>1, <1>2, <1>4, <1>a
      <4> QED
        BY <4>2, <1>1, <1>2
    <3>2. CASE ~(j < m)
      <4>1. j + 1 \in 1 .. n /\ j + 1 # m
        BY <3>2, <1>1, <1>2
      <4>2. lu[j + 1] \in 1 .. n /\ lu[j + 1] # lu[m] /\ left[j] = lu[j + 1]
        BY <3>2, <4>1, <1>2, <1>4, <1>a
      <4> QED
        BY <4>2, <1>1, <1>2
    <3> QED
      BY <3>1, <3>2
  <2> QED
    BY <2>1, <1>4
<1> HIDE DEF low
<1>b. low \in Seq(Nat) /\ Len(low) = n - 1
  <2>1. low \in [1 .. n - 1 -> Nat]
    BY <1>1, <1>6
  <2> QED
    BY <1>1, <2>1, FunctionSeq
<1>8. ASSUME NEW i \in 1 .. n - 1, NEW j \in 1 .. n - 1, low[i] = low[j]
      PROVE  i = j
  <2> DEFINE p == IF i < m THEN i ELSE i + 1
             q == IF j < m THEN j ELSE j + 1
  <2>1. p \in 1 .. n /\ q \in 1 .. n /\ low[i] = lu[p] - 1 /\ low[j] = lu[q] - 1
    BY <1>1, <1>2, <1>5
  <2>2. lu[p] = lu[q]
    <3> HIDE DEF p, q
    <3>1. lu[p] \in 1 .. n /\ lu[q] \in 1 .. n
      BY <2>1, <1>a
    <3> QED
      BY <2>1, <3>1, <1>1, <1>8
  <2>3. p = q
    BY <2>1, <2>2, <1>a
  <2> QED
    BY <2>3, <1>1, <1>2
<1>9. ASSUME NEW r \in 1 .. n - 1
      PROVE  \E k \in 1 .. n - 1 : low[k] = r
  <2>1. PICK k \in 1 .. n : lu[k] = r + 1
    <3>1. r + 1 \in 1 .. n
      BY <1>1
    <3> QED
      BY <3>1, <1>a
  <2>2. k # m
    BY <2>1, <1>2
  <2>3. CASE k < m
    BY <2>1, <2>3, <1>1, <1>2, <1>5
  <2>4. CASE k > m
    <3>1. k - 1 \in 1 .. n - 1 /\ ~(k - 1 < m) /\ (k - 1) + 1 = k
      BY <2>4, <1>1, <1>2
    <3> QED
      BY <2>1, <3>1, <1>5
  <2> QED
    BY <2>2, <2>3, <2>4, <1>2
<1>10. Ranked(Evicted(t))
  <2> DEFINE u == Evicted(t)
  <2>1. u \in [rules : Seq(Slice), lastUsed : Seq(Nat)]
    BY <1>3, <1>7, <1>b
  <2>2. u.lastUsed = low /\ Len(u.lastUsed) = n - 1 /\ Len(u.rules) = n - 1
    BY <1>3, <1>7, <1>b
  <2> HIDE DEF u
  <2>3. Ranked(u)
    BY <2>1, <2>2, <1>6, <1>8, <1>9 DEF Ranked
  <2> QED
    BY <2>3 DEF u
<1>11. \A j \in 1 .. n - 1 :
        /\ Evicted(t).rules[j] = IF j < m THEN t.rules[j] ELSE t.rules[j + 1]
        /\ Evicted(t).lastUsed[j] = IF j < m THEN lu[j] - 1 ELSE lu[j + 1] - 1
  BY <1>3, <1>5, <1>7
<1>12. Len(Evicted(t).rules) = n - 1
  BY <1>3, <1>7
<1> QED
  BY <1>2, <1>10, <1>11, <1>12, Zenon DEF n, lu

WithRule(t, rule) ==
  [rules |-> Append(t.rules, rule), lastUsed |-> Append(t.lastUsed, Len(t.rules) + 1)]

\* A rule appended gets the highest rank; the others keep their places.
LEMMA WithRuleProperties ==
  ASSUME NEW t, Ranked(t), NEW rule \in Slice
  PROVE  LET w == WithRule(t, rule) IN
         /\ Ranked(w)
         /\ Len(w.rules) = Len(t.rules) + 1
         /\ \A k \in 1 .. Len(t.rules) : w.rules[k] = t.rules[k]
         /\ w.rules[Len(t.rules) + 1] = rule
         /\ w.lastUsed[Len(t.rules) + 1] = Len(t.rules) + 1
<1> DEFINE w == WithRule(t, rule)
           n == Len(t.rules)
           lu == t.lastUsed
           lw == w.lastUsed
<1>1. t.rules \in Seq(Slice) /\ lu \in Seq(Nat) /\ Len(lu) = n /\ n \in Nat
  BY LenProperties DEF Ranked
<1>2. /\ \A k \in 1 .. n : lu[k] \in 1 .. n
      /\ \A j, k \in 1 .. n : lu[j] = lu[k] => j = k
      /\ \A r \in 1 .. n : \E k \in 1 .. n : lu[k] = r
  BY DEF Ranked
<1>3. /\ w.rules = Append(t.rules, rule) /\ lw = Append(lu, n + 1)
      /\ w \in [rules : Seq(Slice), lastUsed : Seq(Nat)]
  BY <1>1 DEF WithRule
<1> HIDE DEF w
<1>4. /\ Len(w.rules) = n + 1
      /\ \A k \in 1 .. n : w.rules[k] = t.rules[k]
      /\ w.rules[n + 1] = rule
  BY <1>1, <1>3
<1> HIDE DEF n, lu, lw
<1>5. /\ Len(lw) = n + 1 /\ lw[n + 1] = n + 1
      /\ \A k \in 1 .. n : lw[k] = lu[k]
  BY <1>1, <1>3
<1>6. \A k \in 1 .. n + 1 : k = n + 1 \/ k \in 1 .. n
  BY <1>1
<1>7. \A k \in 1 .. n + 1 : lw[k] \in 1 .. n + 1
  <2>1. \A r \in 1 .. n : r \in 1 .. n + 1
    BY <1>1
  <2>2. n + 1 \in 1 .. n + 1
    BY <1>1
  <2> QED
    BY <1>2, <1>5, <1>6, <2>1, <2>2, Zenon
<1>8. \A j, k \in 1 .. n + 1 : lw[j] = lw[k] => j = k
  <2>1. \A k \in 1 .. n : lw[k] # n + 1 /\ n + 1 # lw[k]
    BY <1>1, <1>2, <1>5
  <2> QED
    BY <1>2, <1>5, <1>6, <2>1, Zenon
<1>9. \A r \in 1 .. n + 1 : \E k \in 1 .. n + 1 : lw[k] = r
  <2>1. \A k \in 1 .. n : k \in 1 .. n + 1
    BY <1>1
  <2>2. n + 1 \in 1 .. n + 1
    BY <1>1
  <2> QED
    BY <1>2, <1>5, <1>6, <2>1, <2>2, Zenon
<1>10. Ranked(w)
  <2>1. lw = w.lastUsed
    BY DEF lw
  <2>2. Len(w.rules) = n + 1
    BY <1>4
  <2>3. /\ Len(w.lastUsed) = Len(w.rules)
        /\ \A k \in 1 .. Len(w.rules) : w.lastUsed[k] \in 1 .. Len(w.rules)
    BY <1>5, <1>7, <2>1, <2>2, Zenon
  <2>4. \A j, k \in 1 .. Len(w.rules) : w.lastUsed[j] = w.lastUsed[k] => j = k
    BY <1>8, <2>1, <2>2, Zenon
  <2>5. \A r \in 1 .. Len(w.rules) : \E k \in 1 .. Len(w.rules) : w.lastUsed[k] = r
    BY <1>9, <2>1, <2>2, Zenon
  <2> QED
    BY <1>3, <2>3, <2>4, <2>5, Zenon DEF Ranked
<1>11. w.lastUsed[n + 1] = n + 1
  BY <1>5 DEF lw
<1> QED
  BY <1>4, <1>10, <1>11, Zenon DEF n, w

\* updateTLB puts the new rule last, keeps the other rules but for one when the
\* TLB is full, and that one is not the one used last.
LEMMA UpdateProperties ==
  ASSUME NEW t, Ranked(t), Fits(t), NEW rule \in Slice
  PROVE  LET u == updateTLB(t, rule) IN
         /\ Ranked(u) /\ Fits(u)
         /\ Len(u.rules) \in Nat \ {0}
         /\ u.rules[Len(u.rules)] = rule
         /\ u.lastUsed[Len(u.rules)] = Len(u.rules)
         /\ \A k \in 1 .. Len(u.rules) - 1 :
              \E j \in 1 .. Len(t.rules) : u.rules[k] = t.rules[j]
         /\ Distinct(t) /\ (\A j \in 1 .. Len(t.rules) : t.rules[j] # rule) => Distinct(u)
         /\ \A j \in 1 .. Len(t.rules) :
              t.lastUsed[j] # 1 => \E k \in 1 .. Len(u.rules) : u.rules[k] = t.rules[j]
<1> DEFINE u == updateTLB(t, rule)
           n == Len(t.rules)
           room == IF n + 1 >= TLB_SIZE THEN Evicted(t) ELSE t
           l == Len(room.rules)
<1>1. n \in Nat /\ TLB_SIZE \in Nat /\ TLB_SIZE >= 2 /\ n <= TLB_SIZE - 1
  BY LenProperties, TlbSizeAssumption DEF Ranked, Fits
<1>2. u = WithRule(room, rule)
  BY DEF updateTLB, WithRule
<1> HIDE DEF u
<1>3. /\ Ranked(room) /\ l \in Nat /\ l + 1 <= TLB_SIZE - 1
      /\ \A k \in 1 .. l : \E j \in 1 .. n : room.rules[k] = t.rules[j]
      /\ Distinct(t) => Distinct(room)
      /\ \A j \in 1 .. n : t.lastUsed[j] # 1 => \E k \in 1 .. l : room.rules[k] = t.rules[j]
  <2>1. CASE n + 1 >= TLB_SIZE
    <3>1. room = Evicted(t) /\ n > 0
      BY <1>1, <2>1
    <3> HIDE DEF room
    <3>2. PICK m \in 1 .. n :
            /\ t.lastUsed[m] = 1
            /\ \A j \in 1 .. n - 1 :
                 room.rules[j] = IF j < m THEN t.rules[j] ELSE t.rules[j + 1]
      BY <3>1, EvictedProperties
    <3>3. Ranked(room) /\ l = n - 1
      BY <3>1, EvictedProperties
    <3> HIDE DEF n, l
    <3>4. \A k \in 1 .. l : \E j \in 1 .. n : room.rules[k] = t.rules[j]
      <4>1. \A k \in 1 .. l : k \in 1 .. n /\ k + 1 \in 1 .. n
        BY <1>1, <3>3
      <4> QED
        BY <3>2, <3>3, <4>1
    <3>5. Distinct(t) => Distinct(room)
      <4>1. SUFFICES ASSUME \A j, k \in 1 .. n : t.rules[j] = t.rules[k] => j = k,
                            NEW i \in 1 .. n - 1, NEW j \in 1 .. n - 1,
                            room.rules[i] = room.rules[j]
                     PROVE  i = j
        BY <3>3 DEF Distinct, n, l
      <4> DEFINE p == IF i < m THEN i ELSE i + 1
                 q == IF j < m THEN j ELSE j + 1
      <4>2. p \in 1 .. n /\ q \in 1 .. n /\ room.rules[i] = t.rules[p] /\ room.rules[j] = t.rules[q]
        BY <1>1, <3>2
      <4>3. p = q
        BY <4>1, <4>2
      <4> QED
        BY <4>3, <1>1
    <3>6. ASSUME NEW j \in 1 .. n, t.lastUsed[j] # 1
          PROVE  \E k \in 1 .. l : room.rules[k] = t.rules[j]
      <4>1. j # m
        BY <3>2, <3>6
      <4>2. CASE j < m
        <5>1. j \in 1 .. n - 1
          BY <4>2, <1>1
        <5> QED
          BY <3>2, <3>3, <4>2, <5>1
      <4>3. CASE j > m
        <5>1. j - 1 \in 1 .. n - 1 /\ ~(j - 1 < m) /\ (j - 1) + 1 = j
          BY <4>3, <1>1
        <5> QED
          BY <3>2, <3>3, <5>1
      <4> QED
        BY <4>1, <4>2, <4>3
    <3> QED
      BY <1>1, <3>3, <3>4, <3>5, <3>6
  <2>2. CASE ~(n + 1 >= TLB_SIZE)
    <3>1. room = t
      BY <2>2
    <3> HIDE DEF room
    <3> QED
      BY <1>1, <2>2, <3>1
  <2> QED
    BY <2>1, <2>2
<1> HIDE DEF room
<1>4. /\ Ranked(u) /\ Len(u.rules) = l + 1
      /\ \A k \in 1 .. l : u.rules[k] = room.rules[k]
      /\ u.rules[l + 1] = rule /\ u.lastUsed[l + 1] = l + 1
  <2> HIDE DEF n
  <2>1. Ranked(room)
    BY <1>3
  <2> QED
    BY <1>2, <2>1, WithRuleProperties, Zenon
<1> HIDE DEF n, l
<1>5. \A k \in 1 .. l + 1 : k = l + 1 \/ k \in 1 .. l
  BY <1>3
<1>6. /\ Fits(u) /\ Len(u.rules) \in Nat \ {0}
      /\ Len(u.rules) - 1 = l
  BY <1>3, <1>4 DEF Fits
<1>7. \A k \in 1 .. l : \E j \in 1 .. n : u.rules[k] = t.rules[j]
  <2> TAKE k \in 1 .. l
  <2>1. PICK j \in 1 .. n : room.rules[k] = t.rules[j]
    BY <1>3
  <2> QED
    BY <1>4, <2>1
<1>8. Distinct(t) /\ (\A j \in 1 .. n : t.rules[j] # rule) => Distinct(u)
  <2>1. SUFFICES ASSUME \A j, k \in 1 .. l : room.rules[j] = room.rules[k] => j = k,
                        \A j \in 1 .. n : t.rules[j] # rule
                 PROVE  \A j, k \in 1 .. l + 1 : u.rules[j] = u.rules[k] => j = k
    BY <1>3, <1>4 DEF Distinct, l
  <2>2. \A k \in 1 .. l : u.rules[k] # rule /\ rule # u.rules[k]
    BY <1>7, <2>1
  <2> QED
    BY <1>4, <1>5, <2>1, <2>2, Zenon
<1>9. \A j \in 1 .. n : t.lastUsed[j] # 1 => \E k \in 1 .. l + 1 : u.rules[k] = t.rules[j]
  <2>1. \A k \in 1 .. l : k \in 1 .. l + 1
    BY <1>3
  <2> QED
    BY <1>3, <1>4, <2>1
<1> QED
  BY <1>4, <1>6, <1>7, <1>8, <1>9 DEF n, u

\* Touch leaves the rules alone and gives rule k the highest rank.
LEMMA TouchProperties ==
  ASSUME NEW t, Ranked(t), NEW k \in 1 .. Len(t.rules)
  PROVE  /\ Ranked(Touch(t, k)) /\ Touch(t, k).rules = t.rules
         /\ Touch(t, k).lastUsed[k] = Len(t.rules)
<1> DEFINE n == Len(t.rules)
           lu == t.lastUsed
           lw == [j \in 1 .. n |->
                    IF j = k THEN n ELSE IF lu[j] > lu[k] THEN lu[j] - 1 ELSE lu[j]]
<1>1. t.rules \in Seq(Slice) /\ lu \in Seq(Nat) /\ n \in Nat
  BY LenProperties DEF Ranked
<1>2. \A j \in 1 .. n : lu[j] \in 1 .. n
  BY DEF Ranked
<1>a. \A i, j \in 1 .. n : lu[i] = lu[j] => i = j
  BY DEF Ranked
<1>b. \A r \in 1 .. n : \E j \in 1 .. n : lu[j] = r
  BY DEF Ranked
<1>3. Touch(t, k) = [rules |-> t.rules, lastUsed |-> lw]
  <2>1. t \in [rules : Seq(Slice), lastUsed : Seq(Nat)]
    BY DEF Ranked
  <2>2. Touch(t, k) = [t EXCEPT !.lastUsed = lw]
    BY DEF Touch
  <2> HIDE DEF lw
  <2> QED
    BY <2>1, <2>2
<1> HIDE DEF n, lu
<1>k. k \in 1 .. n /\ lu[k] \in 1 .. n
  BY <1>2 DEF n
<1>4. lw \in [1 .. n -> 1 .. n]
  BY <1>1, <1>2, <1>k
<1>5. lw \in Seq(Nat) /\ Len(lw) = n
  <2>1. lw \in [1 .. n -> Nat]
    BY <1>1, <1>4
  <2> QED
    BY <1>1, <2>1, FunctionSeq
<1>6. ASSUME NEW i \in 1 .. n, NEW j \in 1 .. n, lw[i] = lw[j]
      PROVE  i = j
  <2>1. lu[i] \in 1 .. n /\ lu[j] \in 1 .. n /\ (lu[i] = lu[j] => i = j)
        /\ (lu[i] = lu[k] => i = k) /\ (lu[j] = lu[k] => j = k)
    BY <1>2, <1>a, <1>k
  <2>2. /\ lw[i] = IF i = k THEN n ELSE IF lu[i] > lu[k] THEN lu[i] - 1 ELSE lu[i]
        /\ lw[j] = IF j = k THEN n ELSE IF lu[j] > lu[k] THEN lu[j] - 1 ELSE lu[j]
    OBVIOUS
  <2> HIDE DEF lw
  <2>3. CASE i = k
    BY <2>1, <2>2, <2>3, <1>1, <1>6, <1>k
  <2>4. CASE j = k
    BY <2>1, <2>2, <2>4, <1>1, <1>6, <1>k
  <2>5. CASE i # k /\ j # k
    <3> DEFINE a == lu[i]
               b == lu[j]
               c == lu[k]
    <3>1. a \in 1 .. n /\ b \in 1 .. n /\ c \in 1 .. n /\ a # c /\ b # c
      BY <2>1, <2>5, <1>k
    <3>2. (IF a > c THEN a - 1 ELSE a) = (IF b > c THEN b - 1 ELSE b)
      BY <2>2, <2>5, <1>6
    <3> HIDE DEF a, b, c
    <3>3. a = b
      BY <3>1, <3>2, <1>1
    <3> QED
      BY <3>3, <2>1 DEF a, b
  <2> QED
    BY <2>3, <2>4, <2>5
<1>7. ASSUME NEW r \in 1 .. n
      PROVE  \E j \in 1 .. n : lw[j] = r
  <2>1. CASE r = n
    BY <2>1, <1>k
  <2>2. CASE r < n /\ r < lu[k]
    <3>1. PICK j \in 1 .. n : lu[j] = r
      BY <1>b
    <3> QED
      BY <2>2, <3>1, <1>1, <1>k
  <2>3. CASE r < n /\ r >= lu[k]
    <3>1. r + 1 \in 1 .. n
      BY <2>3, <1>1
    <3>2. PICK j \in 1 .. n : lu[j] = r + 1
      BY <3>1, <1>b
    <3>3. j # k /\ lu[j] > lu[k] /\ lu[j] - 1 = r
      BY <2>3, <3>2, <1>1, <1>k
    <3> QED
      BY <3>3
  <2> QED
    BY <2>1, <2>2, <2>3, <1>1, <1>k
<1>8. lw[k] = n
  BY <1>k
<1> HIDE DEF lw
<1>9. Ranked(Touch(t, k))
  <2> DEFINE u == Touch(t, k)
  <2>1. u \in [rules : Seq(Slice), lastUsed : Seq(Nat)] /\ u.lastUsed = lw /\ Len(u.rules) = n
    BY <1>1, <1>3, <1>5 DEF n
  <2> HIDE DEF u
  <2>2. Ranked(u)
    BY <2>1, <1>4, <1>5, <1>6, <1>7 DEF Ranked
  <2> QED
    BY <2>2 DEF u
<1> QED
  BY <1>3, <1>8, <1>9 DEF n
=============================================================================
