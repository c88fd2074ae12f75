------------------------- MODULE CircuitBreakerProofs -------------------------
(***************************************************************************)
(* The breaker opens neither late nor early, for any number of calls and   *)
(* attempts, any threshold and any durations.                              *)
(***************************************************************************)
EXTENDS CircuitBreaker, Integers, FiniteSetTheorems, SequenceTheorems, TLAPS

AgeRange == 0..(Window + 1)
Ages == Seq(AgeRange)

(* The oldest failure comes first.                                         *)
OldestFirst(s) == \A i, j \in 1..Len(s) : i <= j => s[j] <= s[i]

(* w is the end of s, and what precedes it in s is outside the window.     *)
Covers(w, s) ==
  /\ Len(w) <= Len(s)
  /\ \A i \in 1..Len(w) : w[i] = s[Len(s) - Len(w) + i]
  /\ \A i \in 1..Len(s) - Len(w) : s[i] > Window

(* While the breaker is closed its window holds every failure since the    *)
(* last success that is recent: what it has pruned was too old.            *)
Tally == circuit = "closed" => Covers(failures, streak)

Counted ==
  \A c \in Calls :
    /\ call[c] = "backoff" => attempt[c] < MaxAttempts
    /\ call[c] = "attempting" => attempt[c] \in 1..MaxAttempts

BreakerInv == TypeOK /\ OldestFirst(failures) /\ Tally /\ Counted

USE ThresholdAssumption, DurationsAssumption, MaxAttemptsAssumption

-----------------------------------------------------------------------------
(* The failures in the window are the last ones.                           *)
LEMMA FreshAreLast ==
  ASSUME NEW s \in Ages, OldestFirst(s)
  PROVE  /\ Recent(s) \in 0..Len(s)
         /\ \A i \in 1..Len(s) : s[i] <= Window <=> i > Len(s) - Recent(s)
<1> DEFINE fresh == {i \in 1..Len(s) : s[i] <= Window}
           m == Cardinality(fresh)
<1>1. Len(s) \in Nat /\ DOMAIN s = 1..Len(s)
  BY LenProperties DEF Ages
<1>2. Recent(s) = m
  BY <1>1 DEF Recent
<1>3. IsFiniteSet(1..Len(s)) /\ Cardinality(1..Len(s)) = Len(s)
  <2>1. 1 \in Int /\ Len(s) \in Int
    BY <1>1
  <2>2. /\ IsFiniteSet(1..Len(s))
        /\ Cardinality(1..Len(s)) = IF 1 > Len(s) THEN 0 ELSE Len(s) - 1 + 1
    BY <2>1, FS_Interval
  <2> QED BY <1>1, <2>2
<1>4. IsFiniteSet(fresh) /\ m <= Len(s) /\ m \in Nat
  BY <1>1, <1>3, FS_Subset, FS_CardinalityType
<1>5. ASSUME NEW i \in fresh PROVE i > Len(s) - m
  <2>1. i..Len(s) \subseteq fresh
    <3> SUFFICES ASSUME NEW j \in i..Len(s) PROVE j \in fresh
      OBVIOUS
    <3>1. i \in 1..Len(s) /\ j \in 1..Len(s) /\ i <= j /\ s[i] <= Window
      BY <1>1
    <3>2. s[i] \in AgeRange /\ s[j] \in AgeRange
      BY <3>1, ElementOfSeq DEF Ages
    <3>3. s[j] <= s[i]
      BY <3>1 DEF OldestFirst
    <3> QED BY <3>1, <3>2, <3>3 DEF AgeRange
  <2>2. i \in 1..Len(s)
    OBVIOUS
  <2>3. Cardinality(i..Len(s)) = Len(s) - i + 1
    BY <1>1, <2>2, FS_Interval
  <2>4. Cardinality(i..Len(s)) <= m
    BY <1>4, <2>1, FS_Subset
  <2> HIDE DEF m, fresh
  <2> QED BY <1>1, <1>4, <2>2, <2>3, <2>4
<1>6. fresh = (Len(s) - m + 1)..Len(s)
  <2> DEFINE end == (Len(s) - m + 1)..Len(s)
  <2>1. ASSUME NEW i \in fresh PROVE i \in end
    <3>1. i \in 1..Len(s) /\ i > Len(s) - m
      BY <1>5
    <3> HIDE DEF m, fresh
    <3> QED BY <1>1, <1>4, <3>1
  <2>2. IsFiniteSet(end) /\ Cardinality(end) = m
    <3> HIDE DEF m
    <3> QED BY <1>1, <1>4, FS_Interval
  <2> HIDE DEF end
  <2>3. fresh \subseteq end
    BY <2>1
  <2>4. fresh = end
    BY <2>2, <2>3, FS_Subset
  <2> QED BY <2>4 DEF end
<1> HIDE DEF m
<1>7. \A i \in 1..Len(s) : s[i] <= Window <=> i > Len(s) - m
  <2> SUFFICES ASSUME NEW i \in 1..Len(s) PROVE i \in fresh <=> i > Len(s) - m
    OBVIOUS
  <2> HIDE DEF fresh
  <2> QED BY <1>1, <1>4, <1>6
<1> QED BY <1>1, <1>2, <1>4, <1>7

(* Pruning keeps exactly the failures in the window.                       *)
LEMMA PrunedIsEnd ==
  ASSUME NEW s \in Ages, OldestFirst(s)
  PROVE  /\ Pruned(s) \in Ages /\ Len(Pruned(s)) = Recent(s) /\ Recent(s) \in 0..Len(s)
         /\ \A i \in 1..Recent(s) : /\ Len(s) - Recent(s) + i \in 1..Len(s)
                                    /\ Pruned(s)[i] = s[Len(s) - Recent(s) + i]
                                    /\ Pruned(s)[i] <= Window
         /\ \A i \in 1..Len(s) - Recent(s) : i \in 1..Len(s) /\ s[i] > Window
<1> DEFINE m == Recent(s)
           p == SubSeq(s, Len(s) - m + 1, Len(s))
<1>1. Len(s) \in Nat /\ m \in 0..Len(s)
  BY LenProperties, FreshAreLast DEF Ages
<1>2. \A i \in 1..Len(s) : s[i] <= Window <=> i > Len(s) - m
  BY FreshAreLast
<1>3. \A i \in 1..Len(s) : s[i] \in AgeRange
  BY ElementOfSeq DEF Ages
<1>4. Pruned(s) = p
  BY DEF Pruned, Recent
<1> HIDE DEF m
<1>5. /\ p \in Ages
      /\ Len(p) = IF Len(s) - m + 1 <= Len(s) THEN Len(s) - (Len(s) - m + 1) + 1 ELSE 0
      /\ \A i \in 1..Len(s) - (Len(s) - m + 1) + 1 : p[i] = s[Len(s) - m + 1 + i - 1]
  <2>1. Len(s) - m + 1 \in Int /\ Len(s) \in Int
    BY <1>1
  <2>2. \A i \in (Len(s) - m + 1)..Len(s) : s[i] \in AgeRange
    BY <1>1, <1>3
  <2> QED BY <2>1, <2>2, SubSeqProperties DEF Ages
<1> HIDE DEF p
<1>6. Len(p) = m
  BY <1>1, <1>5
<1>7. ASSUME NEW i \in 1..m
      PROVE  Len(s) - m + i \in 1..Len(s) /\ p[i] = s[Len(s) - m + i] /\ p[i] <= Window
  <2>1. /\ Len(s) - m + i \in 1..Len(s) /\ i \in 1..Len(s) - (Len(s) - m + 1) + 1
        /\ Len(s) - m + 1 + i - 1 = Len(s) - m + i /\ Len(s) - m + i > Len(s) - m
    BY <1>1
  <2> QED BY <1>2, <1>5, <2>1
<1>8. ASSUME NEW i \in 1..Len(s) - m PROVE i \in 1..Len(s) /\ s[i] > Window
  <2>1. i \in 1..Len(s) /\ ~(i > Len(s) - m)
    BY <1>1
  <2> QED BY <1>2, <1>3, <2>1 DEF AgeRange
<1> QED BY <1>1, <1>4, <1>5, <1>6, <1>7, <1>8 DEF m

LEMMA Remembered ==
  ASSUME NEW s \in Ages, Len(s) <= Threshold
  PROVE  LET r == Remember(s) IN
         /\ r \in Ages
         /\ Len(r) = IF Len(s) < Threshold THEN Len(s) + 1 ELSE Threshold
         /\ r[Len(r)] = 0
         /\ \A i \in 1..Len(r) - 1 : r[i] = s[Len(s) - Len(r) + 1 + i]
<1>1. Len(s) \in Nat /\ 0 \in AgeRange
  BY LenProperties DEF Ages, AgeRange
<1>2. CASE Len(s) < Threshold
  <2> DEFINE r == Append(s, 0)
  <2>1. r \in Ages /\ Len(r) = Len(s) + 1 /\ r[Len(s) + 1] = 0
        /\ \A i \in 1..Len(s) : r[i] = s[i]
    BY <1>1, AppendProperties DEF Ages
  <2>2. Remember(s) = r
    BY <1>2 DEF Remember
  <2> HIDE DEF r
  <2>3. \A i \in 1..Len(r) - 1 : i \in 1..Len(s) /\ Len(s) - Len(r) + 1 + i = i
    BY <1>1, <2>1
  <2> QED BY <1>1, <1>2, <2>1, <2>2, <2>3
<1>3. CASE Len(s) = Threshold
  <2> DEFINE t == Tail(s)
             r == Append(t, 0)
  <2>1. s # <<>>
    BY <1>3, EmptySeq
  <2>2. t \in Ages /\ Len(t) = Len(s) - 1 /\ \A i \in 1..Len(t) : t[i] = s[i + 1]
    BY <2>1, HeadTailProperties DEF Ages
  <2>3. Remember(s) = r
    BY <1>3 DEF Remember
  <2> HIDE DEF t
  <2>4. Len(t) \in Nat
    BY <2>2, LenProperties DEF Ages
  <2>5. r \in Ages /\ Len(r) = Len(t) + 1 /\ r[Len(t) + 1] = 0
        /\ \A i \in 1..Len(t) : r[i] = t[i]
    BY <1>1, <2>2, AppendProperties DEF Ages
  <2> HIDE DEF r
  <2>6. Len(r) = Threshold /\ Len(r) = Len(s)
    BY <1>1, <1>3, <2>2, <2>4, <2>5
  <2>7. \A i \in 1..Len(r) - 1 : i \in 1..Len(t) /\ Len(s) - Len(r) + 1 + i = i + 1
    BY <1>1, <2>2, <2>4, <2>5
  <2> QED BY <1>3, <2>2, <2>3, <2>5, <2>6, <2>7
<1> QED BY <1>1, <1>2, <1>3

(* Time keeps the order of the failures and what the window covers.        *)
LEMMA OlderAges ==
  ASSUME NEW s \in Ages
  PROVE  /\ AllOlder(s) \in Ages /\ Len(AllOlder(s)) = Len(s)
         /\ \A i \in 1..Len(s) : AllOlder(s)[i] = Older(s[i]) /\ s[i] \in AgeRange
<1>1. DOMAIN s = 1..Len(s) /\ Len(s) \in Nat
  BY LenProperties DEF Ages
<1>2. \A i \in 1..Len(s) : s[i] \in AgeRange
  BY ElementOfSeq DEF Ages
<1>3. \A a \in AgeRange : Older(a) \in AgeRange
  BY DEF Older, AgeRange
<1>4. AllOlder(s) = [i \in 1..Len(s) |-> Older(s[i])]
  BY <1>1 DEF AllOlder
<1>5. AllOlder(s) \in [1..Len(s) -> AgeRange]
  BY <1>2, <1>3, <1>4
<1>6. AllOlder(s) \in Ages
  BY <1>1, <1>5, IsASeq DEF Ages
<1>7. Len(AllOlder(s)) = Len(s)
  BY <1>1, <1>5, <1>6, LenProperties DEF Ages
<1> QED BY <1>2, <1>4, <1>6, <1>7

LEMMA OlderKeepsOrder ==
  ASSUME NEW s \in Ages, OldestFirst(s)
  PROVE  OldestFirst(AllOlder(s))
<1>1. ASSUME NEW a \in AgeRange, NEW b \in AgeRange, a <= b
      PROVE  Older(a) <= Older(b)
  BY <1>1 DEF Older, AgeRange
<1> SUFFICES ASSUME NEW i \in 1..Len(s), NEW j \in 1..Len(s), i <= j
             PROVE  Older(s[j]) <= Older(s[i])
  BY OlderAges DEF OldestFirst
<1>2. s[i] \in AgeRange /\ s[j] \in AgeRange
  BY OlderAges
<1>3. s[j] <= s[i]
  BY DEF OldestFirst
<1> QED BY <1>1, <1>2, <1>3

LEMMA OlderKeepsCovers ==
  ASSUME NEW w \in Ages, NEW s \in Ages, Covers(w, s)
  PROVE  Covers(AllOlder(w), AllOlder(s))
<1>1. Len(w) \in Nat /\ Len(s) \in Nat
  BY LenProperties DEF Ages
<1>2. Len(AllOlder(w)) = Len(w) /\ Len(AllOlder(s)) = Len(s) /\ Len(w) <= Len(s)
  BY OlderAges DEF Covers
<1>3. ASSUME NEW i \in 1..Len(w)
      PROVE  AllOlder(w)[i] = AllOlder(s)[Len(s) - Len(w) + i]
  <2>1. Len(s) - Len(w) + i \in 1..Len(s)
    BY <1>1, <1>2
  <2>2. w[i] = s[Len(s) - Len(w) + i]
    BY DEF Covers
  <2> QED BY <2>1, <2>2, OlderAges
<1>4. ASSUME NEW i \in 1..Len(s) - Len(w)
      PROVE  AllOlder(s)[i] > Window
  <2>1. i \in 1..Len(s)
    BY <1>1, <1>2
  <2>2. s[i] > Window
    BY DEF Covers
  <2>3. AllOlder(s)[i] = s[i]
    BY <2>1, <2>2, OlderAges DEF Older
  <2> QED BY <2>2, <2>3
<1> QED BY <1>2, <1>3, <1>4 DEF Covers

-----------------------------------------------------------------------------
(* The window a failure leaves: what was recent, and the failure itself.   *)
LEMMA WindowAfterFailure ==
  ASSUME NEW s \in Ages, OldestFirst(s)
  PROVE  LET w == Append(Pruned(s), 0) IN
         /\ w \in Ages /\ Len(w) = Recent(s) + 1 /\ Recent(s) \in 0..Len(s)
         /\ w[Len(w)] = 0
         /\ \A i \in 1..Len(w) : w[i] <= Window
         /\ \A i \in 1..Len(w) - 1 :
              Len(s) - Len(w) + 1 + i \in 1..Len(s) /\ w[i] = s[Len(s) - Len(w) + 1 + i]
<1> DEFINE p == Pruned(s)
           m == Recent(s)
           w == Append(p, 0)
<1>1. Len(s) \in Nat /\ 0 \in AgeRange
  BY LenProperties DEF Ages, AgeRange
<1>2. /\ p \in Ages /\ Len(p) = m /\ m \in 0..Len(s)
      /\ \A i \in 1..m : /\ Len(s) - m + i \in 1..Len(s)
                         /\ p[i] = s[Len(s) - m + i] /\ p[i] <= Window
  BY PrunedIsEnd
<1> HIDE DEF p, m
<1>3. /\ w \in Ages /\ Len(w) = m + 1 /\ w[m + 1] = 0
      /\ \A i \in 1..m : w[i] = p[i]
  BY <1>1, <1>2, AppendProperties DEF Ages
<1> HIDE DEF w
<1>4. ASSUME NEW i \in 1..Len(w) PROVE w[i] <= Window
  <2>1. i \in 1..m \/ i = m + 1
    BY <1>1, <1>2, <1>3
  <2> QED BY <1>2, <1>3, <2>1
<1>5. ASSUME NEW i \in 1..Len(w) - 1
      PROVE  Len(s) - Len(w) + 1 + i \in 1..Len(s) /\ w[i] = s[Len(s) - Len(w) + 1 + i]
  <2>1. i \in 1..m /\ Len(s) - Len(w) + 1 + i = Len(s) - m + i
    BY <1>1, <1>2, <1>3
  <2> QED BY <1>2, <1>3, <2>1
<1> QED BY <1>2, <1>3, <1>4, <1>5 DEF w, p, m

LEMMA FailureKeepsOrder ==
  ASSUME NEW s \in Ages, OldestFirst(s)
  PROVE  OldestFirst(Append(Pruned(s), 0))
<1> DEFINE w == Append(Pruned(s), 0)
<1>1. /\ w \in Ages /\ Len(w) = Recent(s) + 1 /\ Recent(s) \in 0..Len(s)
      /\ w[Len(w)] = 0
      /\ \A i \in 1..Len(w) - 1 :
           Len(s) - Len(w) + 1 + i \in 1..Len(s) /\ w[i] = s[Len(s) - Len(w) + 1 + i]
  BY WindowAfterFailure
<1> HIDE DEF w
<1>2. Len(s) \in Nat /\ Len(w) \in Nat
  BY <1>1, LenProperties DEF Ages
<1>3. ASSUME NEW i \in 1..Len(w), NEW j \in 1..Len(w), i <= j
      PROVE  w[j] <= w[i]
  <2>1. CASE j = Len(w)
    <3>1. w[i] \in AgeRange
      BY <1>1, ElementOfSeq DEF Ages
    <3> QED BY <1>1, <2>1, <3>1 DEF AgeRange
  <2>2. CASE j # Len(w)
    <3>1. i \in 1..Len(w) - 1 /\ j \in 1..Len(w) - 1
      BY <1>2, <1>3, <2>2
    <3> DEFINE a == Len(s) - Len(w) + 1 + i
               b == Len(s) - Len(w) + 1 + j
    <3>2. a \in 1..Len(s) /\ b \in 1..Len(s) /\ w[i] = s[a] /\ w[j] = s[b]
      BY <1>1, <3>1
    <3>3. a <= b
      BY <1>2, <1>3
    <3> QED BY <3>2, <3>3 DEF OldestFirst
  <2> QED BY <2>1, <2>2
<1> QED BY <1>3 DEF OldestFirst, w

LEMMA FailureKeepsCovers ==
  ASSUME NEW s \in Ages, OldestFirst(s), Len(s) < Threshold,
         NEW t \in Ages, Len(t) <= Threshold, Covers(s, t)
  PROVE  Covers(Append(Pruned(s), 0), Remember(t))
<1> DEFINE w == Append(Pruned(s), 0)
           r == Remember(t)
           m == Recent(s)
<1>1. /\ w \in Ages /\ Len(w) = m + 1 /\ m \in 0..Len(s)
      /\ w[Len(w)] = 0
      /\ \A i \in 1..Len(w) - 1 :
           Len(s) - Len(w) + 1 + i \in 1..Len(s) /\ w[i] = s[Len(s) - Len(w) + 1 + i]
  BY WindowAfterFailure
<1>2. \A i \in 1..Len(s) - m : i \in 1..Len(s) /\ s[i] > Window
  BY PrunedIsEnd
<1>3. /\ r \in Ages
      /\ Len(r) = IF Len(t) < Threshold THEN Len(t) + 1 ELSE Threshold
      /\ r[Len(r)] = 0
      /\ \A i \in 1..Len(r) - 1 : r[i] = t[Len(t) - Len(r) + 1 + i]
  BY Remembered
<1> HIDE DEF w, r, m
<1>4. Len(s) \in Nat /\ Len(t) \in Nat /\ Len(s) <= Len(t)
  BY LenProperties DEF Ages, Covers
<1>5. Len(w) <= Len(r) /\ Len(r) \in Nat /\ Len(w) \in Nat /\ m \in Nat
  BY <1>1, <1>3, <1>4
<1>6. ASSUME NEW i \in 1..Len(w) PROVE w[i] = r[Len(r) - Len(w) + i]
  <2>1. CASE i = Len(w)
    <3>1. Len(r) - Len(w) + i = Len(r)
      BY <1>5, <2>1
    <3>2. w[i] = 0
      BY <1>1, <2>1
    <3> QED BY <1>3, <3>1, <3>2
  <2>2. CASE i # Len(w)
    <3>1. /\ i \in 1..Len(w) - 1 /\ Len(r) - Len(w) + i \in 1..Len(r) - 1
          /\ Len(t) - Len(r) + 1 + (Len(r) - Len(w) + i) = Len(t) - Len(w) + 1 + i
      BY <1>5, <1>4, <2>2
    <3> DEFINE j == Len(s) - Len(w) + 1 + i
    <3>2. j \in 1..Len(s) /\ w[i] = s[j]
      BY <1>1, <3>1
    <3>3. Len(t) - Len(s) + j = Len(t) - Len(w) + 1 + i
      BY <1>4, <1>5
    <3>4. s[j] = t[Len(t) - Len(s) + j]
      BY <3>2 DEF Covers
    <3> QED BY <1>3, <3>1, <3>2, <3>3, <3>4
  <2> QED BY <2>1, <2>2
<1>7. ASSUME NEW i \in 1..Len(r) - Len(w) PROVE r[i] > Window
  <2> DEFINE k == Len(t) - Len(r) + 1 + i
  <2>1. i \in 1..Len(r) - 1 /\ k \in 1..Len(t) - m
    BY <1>1, <1>3, <1>4, <1>5
  <2>2. r[i] = t[k]
    BY <1>3, <2>1
  <2> HIDE DEF k
  <2>3. CASE k \in 1..Len(t) - Len(s)
    BY <2>2, <2>3 DEF Covers
  <2>4. CASE k \notin 1..Len(t) - Len(s)
    <3> DEFINE j == k - Len(t) + Len(s)
    <3>1. j \in 1..Len(s) - m /\ Len(t) - Len(s) + j = k
      BY <1>4, <1>5, <2>1, <2>4
    <3> HIDE DEF j
    <3>2. j \in 1..Len(s) /\ s[j] > Window
      BY <1>2, <3>1
    <3>3. s[j] = t[k]
      BY <3>1, <3>2 DEF Covers
    <3> QED BY <2>2, <3>2, <3>3
  <2> QED BY <2>3, <2>4
<1> QED BY <1>5, <1>6, <1>7 DEF Covers, w, r

(* What a covering window says of the failures in the window.              *)
LEMMA CoveredRecent ==
  ASSUME NEW w \in Ages, NEW s \in Ages, Covers(w, s)
  PROVE  /\ Recent(s) <= Len(w)
         /\ (\A i \in 1..Len(w) : w[i] <= Window) /\ Len(w) = Len(s) => Recent(s) = Len(s)
<1>1. Len(w) \in Nat /\ Len(s) \in Nat /\ Len(w) <= Len(s) /\ DOMAIN s = 1..Len(s)
  BY LenProperties DEF Ages, Covers
<1> DEFINE fresh == {i \in 1..Len(s) : s[i] <= Window}
           end == (Len(s) - Len(w) + 1)..Len(s)
<1>2. Recent(s) = Cardinality(fresh)
  BY <1>1 DEF Recent
<1>3. ASSUME NEW i \in fresh PROVE i \in end
  <2>1. i \in 1..Len(s) /\ s[i] <= Window /\ s[i] \in AgeRange
    BY ElementOfSeq DEF Ages
  <2>2. ~(i \in 1..Len(s) - Len(w))
    <3> SUFFICES ASSUME i \in 1..Len(s) - Len(w) PROVE FALSE
      OBVIOUS
    <3>1. s[i] > Window
      BY DEF Covers
    <3> QED BY <2>1, <3>1 DEF AgeRange
  <2> HIDE DEF fresh
  <2> QED BY <1>1, <2>1, <2>2
<1>4. IsFiniteSet(end) /\ Cardinality(end) = Len(w)
  <2>1. Len(s) - Len(w) + 1 \in Int /\ Len(s) \in Int
    BY <1>1
  <2>2. /\ IsFiniteSet(end)
        /\ Cardinality(end) = IF Len(s) - Len(w) + 1 > Len(s) THEN 0
                              ELSE Len(s) - (Len(s) - Len(w) + 1) + 1
    BY <2>1, FS_Interval
  <2> QED BY <1>1, <2>2
<1>5. Recent(s) <= Len(w)
  <2>1. fresh \subseteq end
    BY <1>3
  <2> HIDE DEF fresh, end
  <2> QED BY <1>2, <1>4, <2>1, FS_Subset
<1>6. ASSUME \A i \in 1..Len(w) : w[i] <= Window, Len(w) = Len(s)
      PROVE  Recent(s) = Len(s)
  <2>1. ASSUME NEW i \in end PROVE i \in fresh
    <3>1. i \in 1..Len(w) /\ Len(s) - Len(w) + i = i /\ i \in 1..Len(s)
      BY <1>1, <1>6
    <3>2. w[i] = s[i]
      BY <3>1 DEF Covers
    <3> QED BY <1>6, <3>1, <3>2
  <2>2. fresh = end
    BY <1>3, <2>1
  <2> QED BY <1>2, <1>4, <1>6, <2>2
<1> QED BY <1>5, <1>6

-----------------------------------------------------------------------------
LEMMA BreakerInitial == Init => BreakerInv
<1> SUFFICES ASSUME Init PROVE BreakerInv
  OBVIOUS
<1>1. <<>> \in Ages /\ Len(<<>>) = 0
  BY EmptySeq DEF Ages
<1>2. TypeOK
  BY <1>1 DEF TypeOK, Init, Ages, AgeRange
<1>3. OldestFirst(failures) /\ Covers(failures, streak)
  BY <1>1 DEF Init, OldestFirst, Covers
<1>4. Counted
  BY DEF Counted, Init
<1> QED BY <1>2, <1>3, <1>4 DEF BreakerInv, Tally

LEMMA TickSafe ==
  ASSUME BreakerInv, Tick
  PROVE  BreakerInv'
<1>1. failures \in Ages /\ streak \in Ages /\ outage \in Ages
  BY DEF BreakerInv, TypeOK, Ages, AgeRange
<1>2. /\ failures' \in Ages /\ Len(failures') = Len(failures)
      /\ streak' \in Ages /\ Len(streak') = Len(streak)
      /\ outage' \in Ages /\ Len(outage') = Len(outage)
  BY <1>1, OlderAges DEF Tick
<1>3. OldestFirst(failures')
  BY <1>1, OlderKeepsOrder DEF BreakerInv, Tick
<1>4. Tally'
  BY <1>1, OlderKeepsCovers DEF BreakerInv, Tally, Tick
<1>5. openFor' \in 0..OpenDuration
  BY DEF BreakerInv, TypeOK, Tick
<1>6. TypeOK'
  BY <1>2, <1>5 DEF BreakerInv, TypeOK, Tick, Ages, AgeRange
<1>7. Counted'
  BY DEF BreakerInv, Counted, Tick
<1> QED BY <1>3, <1>4, <1>6, <1>7 DEF BreakerInv

(* Steps that keep or settle the circuit and leave the windows alone.      *)
LEMMA WindowsKept ==
  ASSUME BreakerInv, circuit' \in {circuit, Settled},
         UNCHANGED <<failures, streak>>
  PROVE  OldestFirst(failures') /\ Tally'
<1>1. circuit' = "closed" => circuit = "closed"
  BY DEF Settled
<1> QED BY <1>1 DEF BreakerInv, Tally

(* A success and reset() empty both windows.                               *)
LEMMA WindowsEmptied ==
  ASSUME failures' = <<>>, streak' = <<>>, outage' = <<>>
  PROVE  /\ OldestFirst(failures') /\ Tally'
         /\ failures' \in Ages /\ Len(failures') = 0
         /\ streak' \in Ages /\ Len(streak') = 0
         /\ outage' \in Ages /\ Len(outage') = 0
BY EmptySeq DEF Ages, OldestFirst, Tally, Covers

LEMMA RememberedTyped ==
  ASSUME NEW s \in Ages, Len(s) <= Threshold
  PROVE  Remember(s) \in Ages /\ Len(Remember(s)) <= Threshold
<1>1. Len(s) \in Nat
  BY LenProperties DEF Ages
<1> QED BY <1>1, Remembered

LEMMA CallEnds ==
  ASSUME BreakerInv, NEW c \in Calls, Ends(c)
  PROVE  /\ call' \in [Calls -> {"idle", "attempting", "backoff"}]
         /\ attempt' \in [Calls -> 0..MaxAttempts]
         /\ trial' \subseteq {d \in Calls : call'[d] # "idle"}
         /\ Counted'
<1>1. /\ call \in [Calls -> {"idle", "attempting", "backoff"}]
      /\ attempt \in [Calls -> 0..MaxAttempts]
      /\ trial \subseteq {d \in Calls : call[d] # "idle"}
  BY DEF BreakerInv, TypeOK
<1>2. 0 \in 0..MaxAttempts
  OBVIOUS
<1>3. call' \in [Calls -> {"idle", "attempting", "backoff"}]
  BY <1>1 DEF Ends
<1>4. attempt' \in [Calls -> 0..MaxAttempts]
  BY <1>1, <1>2 DEF Ends
<1>5. trial' \subseteq {d \in Calls : call'[d] # "idle"}
  BY <1>1 DEF Ends
<1>6. Counted'
  <2> SUFFICES ASSUME NEW d \in Calls
               PROVE  /\ call'[d] = "backoff" => attempt'[d] < MaxAttempts
                      /\ call'[d] = "attempting" => attempt'[d] \in 1..MaxAttempts
    BY DEF Counted
  <2>1. CASE d = c
    BY <1>1, <2>1 DEF Ends
  <2>2. CASE d # c
    <3>1. call'[d] = call[d] /\ attempt'[d] = attempt[d]
      BY <1>1, <2>2 DEF Ends
    <3> QED BY <3>1 DEF BreakerInv, Counted
  <2> QED BY <2>1, <2>2
<1> QED BY <1>3, <1>4, <1>5, <1>6

(* onFailure keeps the window sorted and complete, and opens no earlier    *)
(* than at the threshold.                                                  *)
LEMMA FailureSafe ==
  ASSUME BreakerInv, OnFailure, streak' = Remember(streak)
  PROVE  /\ circuit' \in {"closed", "open", "half-open"}
         /\ failures' \in Ages /\ Len(failures') < Threshold
         /\ openFor' \in 0..OpenDuration
         /\ OldestFirst(failures') /\ Tally'
         /\ circuit = "closed" /\ circuit' = "open" => Recent(streak') >= Threshold
<1> DEFINE w == Append(Pruned(failures), 0)
<1>1. /\ failures \in Ages /\ streak \in Ages
      /\ Len(failures) < Threshold /\ Len(streak) <= Threshold
      /\ circuit \in {"closed", "open", "half-open"}
      /\ openFor \in 0..OpenDuration /\ 0 \in 0..OpenDuration
      /\ OldestFirst(failures)
  BY DEF BreakerInv, TypeOK, Ages, AgeRange
<1>2. /\ w \in Ages /\ Len(w) = Recent(failures) + 1
      /\ Recent(failures) \in 0..Len(failures)
      /\ \A i \in 1..Len(w) : w[i] <= Window
  BY <1>1, WindowAfterFailure
<1>3. OldestFirst(w)
  BY <1>1, FailureKeepsOrder
<1>4. circuit = "closed" => Covers(w, streak')
  BY <1>1, FailureKeepsCovers DEF BreakerInv, Tally
<1>5. streak' \in Ages /\ Len(streak') <= Threshold
  BY <1>1, RememberedTyped
<1>6. <<>> \in Ages /\ Len(<<>>) = 0 /\ OldestFirst(<<>>)
  BY EmptySeq DEF Ages, OldestFirst
<1>7. \/ circuit = "half-open" /\ circuit' = "open" /\ openFor' = 0 /\ failures' = failures
      \/ /\ circuit # "half-open" /\ Len(w) >= Threshold
         /\ circuit' = "open" /\ openFor' = 0 /\ failures' = <<>>
      \/ /\ circuit # "half-open" /\ ~(Len(w) >= Threshold)
         /\ failures' = w /\ circuit' = circuit /\ openFor' = openFor
  BY DEF OnFailure
<1> HIDE DEF w
<1>8. Len(w) \in Nat /\ Len(failures) \in Nat /\ Len(streak') \in Nat
  BY <1>1, <1>2, <1>5, LenProperties DEF Ages
<1>9. CASE circuit = "half-open" /\ circuit' = "open" /\ openFor' = 0 /\ failures' = failures
  BY <1>1, <1>9 DEF Tally
<1>10. CASE /\ circuit # "half-open" /\ Len(w) >= Threshold
            /\ circuit' = "open" /\ openFor' = 0 /\ failures' = <<>>
  <2>1. ASSUME circuit = "closed" PROVE Recent(streak') >= Threshold
    <3>1. Covers(w, streak')
      BY <1>4, <2>1
    <3>2. Len(w) = Threshold /\ Len(streak') = Threshold
      BY <1>5, <1>8, <1>10, <3>1 DEF Covers
    <3>3. Recent(streak') = Len(streak')
      BY <1>2, <1>5, <3>1, <3>2, CoveredRecent
    <3> QED BY <3>2, <3>3
  <2> QED BY <1>1, <1>6, <1>10, <2>1 DEF Tally
<1>11. CASE /\ circuit # "half-open" /\ ~(Len(w) >= Threshold)
            /\ failures' = w /\ circuit' = circuit /\ openFor' = openFor
  <2>1. Len(failures') < Threshold
    BY <1>8, <1>11
  <2> QED BY <1>1, <1>2, <1>3, <1>4, <1>11, <2>1 DEF Tally
<1> QED BY <1>7, <1>9, <1>10, <1>11

LEMMA BreakerStep == BreakerInv /\ [Next]_vars => BreakerInv'
<1> SUFFICES ASSUME BreakerInv, [Next]_vars PROVE BreakerInv'
  OBVIOUS
<1> USE DEF BreakerInv
<1>0. /\ circuit \in {"closed", "open", "half-open"}
      /\ Settled \in {"closed", "open", "half-open"}
      /\ call \in [Calls -> {"idle", "attempting", "backoff"}]
      /\ attempt \in [Calls -> 0..MaxAttempts]
      /\ trial \subseteq {c \in Calls : call[c] # "idle"}
      /\ outage \in Ages /\ Len(outage) <= Threshold
      /\ streak \in Ages /\ Len(streak) <= Threshold
  BY DEF TypeOK, Settled, Ages, AgeRange
<1>1. CASE Tick
  BY <1>1, TickSafe
<1>2. CASE GetState
  <2>1. OldestFirst(failures') /\ Tally'
    BY <1>2, WindowsKept DEF GetState
  <2>2. TypeOK'
    BY <1>0, <1>2 DEF GetState, TypeOK
  <2>3. Counted'
    BY <1>2 DEF GetState, Counted
  <2> QED BY <2>1, <2>2, <2>3
<1>3. CASE Reset
  <2>1. /\ OldestFirst(failures') /\ Tally'
        /\ failures' \in Ages /\ Len(failures') = 0
        /\ streak' \in Ages /\ Len(streak') = 0
        /\ outage' \in Ages /\ Len(outage') = 0
    BY <1>3, WindowsEmptied DEF Reset
  <2>2. TypeOK'
    BY <1>3, <2>1 DEF Reset, TypeOK, Ages, AgeRange
  <2>3. Counted'
    BY <1>3 DEF Reset, Counted
  <2> QED BY <2>1, <2>2, <2>3
<1>4. ASSUME NEW c \in Calls, Execute(c) PROVE BreakerInv'
  <2>1. OldestFirst(failures') /\ Tally'
    BY <1>4, WindowsKept DEF Execute
  <2>2. /\ circuit' = Settled /\ UNCHANGED <<failures, openFor, streak, outage>>
        /\ \/ UNCHANGED <<call, attempt, trial>>
           \/ /\ call' = [call EXCEPT ![c] = "attempting"]
              /\ attempt' = [attempt EXCEPT ![c] = 1]
              /\ trial' = trial \/ trial' = trial \cup {c}
    BY <1>4 DEF Execute
  <2>3. 1 \in 0..MaxAttempts /\ 1 \in 1..MaxAttempts
    OBVIOUS
  <2>4. /\ call' \in [Calls -> {"idle", "attempting", "backoff"}]
        /\ attempt' \in [Calls -> 0..MaxAttempts]
        /\ trial' \subseteq {d \in Calls : call'[d] # "idle"}
    BY <1>0, <2>2, <2>3
  <2>5. TypeOK'
    BY <1>0, <2>2, <2>4 DEF TypeOK
  <2>6. Counted'
    BY <1>0, <2>2, <2>3 DEF Counted
  <2> QED BY <2>1, <2>5, <2>6
<1>5. ASSUME NEW c \in Calls, Succeed(c) PROVE BreakerInv'
  <2>1. /\ OldestFirst(failures') /\ Tally'
        /\ failures' \in Ages /\ Len(failures') = 0
        /\ streak' \in Ages /\ Len(streak') = 0
        /\ outage' \in Ages /\ Len(outage') = 0
    BY <1>5, WindowsEmptied DEF Succeed, OnSuccess
  <2>2. /\ call' \in [Calls -> {"idle", "attempting", "backoff"}]
        /\ attempt' \in [Calls -> 0..MaxAttempts]
        /\ trial' \subseteq {d \in Calls : call'[d] # "idle"}
        /\ Counted'
    BY <1>5, CallEnds DEF Succeed
  <2>3. circuit' \in {"closed", "open", "half-open"} /\ openFor' = openFor
    BY <1>0, <1>5 DEF Succeed, OnSuccess
  <2>4. TypeOK'
    BY <2>1, <2>2, <2>3 DEF TypeOK, Ages, AgeRange
  <2> QED BY <2>1, <2>2, <2>4
<1>6. ASSUME NEW c \in Calls, Refused(c) PROVE BreakerInv'
  <2>1. OldestFirst(failures') /\ Tally'
    BY <1>6, WindowsKept DEF Refused, breaker
  <2>2. /\ call' \in [Calls -> {"idle", "attempting", "backoff"}]
        /\ attempt' \in [Calls -> 0..MaxAttempts]
        /\ trial' \subseteq {d \in Calls : call'[d] # "idle"}
        /\ Counted'
    BY <1>6, CallEnds DEF Refused
  <2>3. TypeOK'
    BY <1>6, <2>2 DEF Refused, breaker, TypeOK
  <2> QED BY <2>1, <2>2, <2>3
<1>7. ASSUME NEW c \in Calls, Fail(c) PROVE BreakerInv'
  <2>1. /\ circuit' \in {"closed", "open", "half-open"}
        /\ failures' \in Ages /\ Len(failures') < Threshold
        /\ openFor' \in 0..OpenDuration
        /\ OldestFirst(failures') /\ Tally'
    BY <1>7, FailureSafe DEF Fail
  <2>2. /\ call' \in [Calls -> {"idle", "attempting", "backoff"}]
        /\ attempt' \in [Calls -> 0..MaxAttempts]
        /\ trial' \subseteq {d \in Calls : call'[d] # "idle"}
        /\ Counted'
    BY <1>7, CallEnds DEF Fail
  <2>3. /\ streak' \in Ages /\ Len(streak') <= Threshold
        /\ outage' \in Ages /\ Len(outage') <= Threshold
    BY <1>0, <1>7, RememberedTyped DEF Fail
  <2>4. TypeOK'
    BY <2>1, <2>2, <2>3 DEF TypeOK, Ages, AgeRange
  <2> QED BY <2>1, <2>2, <2>4
<1>8. ASSUME NEW c \in Calls, BackOff(c) PROVE BreakerInv'
  <2>1. OldestFirst(failures') /\ Tally'
    BY <1>8, WindowsKept DEF BackOff, breaker
  <2>2. TypeOK'
    BY <1>0, <1>8 DEF BackOff, breaker, TypeOK
  <2>3. Counted'
    BY <1>0, <1>8 DEF BackOff, Counted
  <2> QED BY <2>1, <2>2, <2>3
<1>9. ASSUME NEW c \in Calls, Retry(c) PROVE BreakerInv'
  <2>1. OldestFirst(failures') /\ Tally'
    BY <1>9, WindowsKept DEF Retry, breaker
  <2>2. attempt[c] + 1 \in 1..MaxAttempts /\ attempt[c] + 1 \in 0..MaxAttempts
    BY <1>0, <1>9 DEF Retry, Counted
  <2>3. /\ attempt' = [attempt EXCEPT ![c] = attempt[c] + 1]
        /\ call' = [call EXCEPT ![c] = "attempting"]
        /\ UNCHANGED <<circuit, failures, openFor, trial, streak, outage>>
    BY <1>9 DEF Retry, breaker
  <2>4. /\ attempt' \in [Calls -> 0..MaxAttempts]
        /\ call' \in [Calls -> {"idle", "attempting", "backoff"}]
        /\ trial' \subseteq {d \in Calls : call'[d] # "idle"}
    BY <1>0, <2>2, <2>3
  <2>5. TypeOK'
    BY <2>3, <2>4 DEF TypeOK
  <2>6. Counted'
    BY <1>0, <2>2, <2>3 DEF Counted
  <2> QED BY <2>1, <2>5, <2>6
<1>10. ASSUME NEW c \in Calls, DeadlineExceeded(c) PROVE BreakerInv'
  <2>1. OldestFirst(failures') /\ Tally'
    BY <1>10, WindowsKept DEF DeadlineExceeded, breaker
  <2>2. /\ call' \in [Calls -> {"idle", "attempting", "backoff"}]
        /\ attempt' \in [Calls -> 0..MaxAttempts]
        /\ trial' \subseteq {d \in Calls : call'[d] # "idle"}
        /\ Counted'
    BY <1>10, CallEnds DEF DeadlineExceeded
  <2>3. outage' \in Ages /\ Len(outage') <= Threshold
    BY <1>0, <1>10, RememberedTyped DEF DeadlineExceeded
  <2>4. TypeOK'
    BY <1>10, <2>2, <2>3 DEF DeadlineExceeded, breaker, TypeOK, Ages, AgeRange
  <2> QED BY <2>1, <2>2, <2>4
<1>11. CASE UNCHANGED vars
  <2>1. OldestFirst(failures') /\ Tally'
    BY <1>11, WindowsKept DEF vars, breaker
  <2>2. TypeOK' /\ Counted'
    BY <1>11 DEF vars, breaker, TypeOK, Counted
  <2> QED BY <2>1, <2>2
<1> QED BY <1>1, <1>2, <1>3, <1>4, <1>5, <1>6, <1>7, <1>8, <1>9, <1>10, <1>11 DEF Next

-----------------------------------------------------------------------------
(* Sorted and complete windows are invariant under every interleaving of   *)
(* calls, time, metrics reads and resets.                                  *)
THEOREM BreakerInvariance == Spec => []BreakerInv
<1>1. Init => BreakerInv
  BY BreakerInitial
<1>2. BreakerInv /\ [Next]_vars => BreakerInv'
  BY BreakerStep
<1> QED BY <1>1, <1>2, PTL DEF Spec

(* Ages, attempts and windows stay within their bounds (circuit-breaker.ts,*)
(* retry.ts).                                                              *)
THEOREM BreakerTypeCorrect == Spec => []TypeOK
<1>1. BreakerInv => TypeOK
  BY DEF BreakerInv
<1> QED BY <1>1, BreakerInvariance, PTL

(* The breaker is never late: closed means fewer than failureThreshold     *)
(* recent failures since the last success (circuit-breaker.ts onFailure).  *)
THEOREM NeverLate == Spec => []ClosedMeansBelowThreshold
<1>1. ASSUME BreakerInv PROVE ClosedMeansBelowThreshold
  <2> SUFFICES ASSUME circuit = "closed" PROVE Recent(streak) < Threshold
    BY DEF ClosedMeansBelowThreshold
  <2>1. failures \in Ages /\ streak \in Ages /\ Len(failures) < Threshold
        /\ Covers(failures, streak)
    BY <1>1 DEF BreakerInv, TypeOK, Tally, Ages, AgeRange
  <2>2. Recent(streak) <= Len(failures) /\ Recent(streak) \in Nat /\ Len(failures) \in Nat
    <3>1. Recent(streak) <= Len(failures) /\ Len(failures) \in Nat
      BY <2>1, CoveredRecent, LenProperties DEF Ages
    <3>2. Recent(streak) \in Nat
      <4>1. DOMAIN streak = 1..Len(streak) /\ Len(streak) \in Nat
        BY <2>1, LenProperties DEF Ages
      <4>2. 1 \in Int /\ Len(streak) \in Int
        BY <4>1
      <4>3. IsFiniteSet(1..Len(streak))
        BY <4>2, FS_Interval
      <4>4. {i \in DOMAIN streak : streak[i] <= Window} \in SUBSET (1..Len(streak))
        BY <4>1
      <4> QED BY <4>3, <4>4, FS_Subset, FS_CardinalityType DEF Recent
    <3> QED BY <3>1, <3>2
  <2> QED BY <2>1, <2>2
<1> QED BY <1>1, BreakerInvariance, PTL

(* The breaker is never early: it leaves closed for open only on           *)
(* failureThreshold recent failures in a row (circuit-breaker.ts onFailure)*)
THEOREM NeverEarly == Spec => OpensOnStreakOnly
<1>1. ASSUME BreakerInv, [Next]_vars
      PROVE  [circuit = "closed" /\ circuit' = "open" => Recent(streak') >= Threshold]_vars
  <2>1. CASE \E c \in Calls : Fail(c)
    BY <1>1, <2>1, FailureSafe DEF Fail
  <2>2. CASE ~(\E c \in Calls : Fail(c))
    <3>1. circuit = "closed" => circuit' = "closed" \/ circuit' = Settled
      BY <1>1, <2>2 DEF Next, Tick, GetState, Reset, Execute, Succeed, OnSuccess, Refused,
         BackOff, Retry, DeadlineExceeded, vars, breaker
    <3>2. circuit = "closed" => circuit' = "closed"
      BY <3>1 DEF Settled
    <3> QED BY <3>2
  <2> QED BY <2>1, <2>2
<1> QED BY <1>1, BreakerInvariance, PTL DEF Spec, OpensOnStreakOnly

=============================================================================
