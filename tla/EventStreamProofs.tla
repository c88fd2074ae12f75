-------------------------- MODULE EventStreamProofs --------------------------
(***************************************************************************)
(* What a connection carries, for any size of the ring buffer, any number  *)
(* of envelopes, broken connections and restarts.                          *)
(***************************************************************************)
EXTENDS EventStream, Integers, FiniteSetTheorems, SequenceTheorems, TLAPS

(* A run of ids that ends with the last one published.                     *)
UpToDate(s, last) == \A i \in 1..Len(s) : s[i] = last - Len(s) + i

(* What the ring holds has arrived, or is on its way.                      *)
Covered(s, rest, last) ==
  \A i \in 1..Len(s) : s[i] <= lastEventId \/ s[i] > last - rest

(* The ring holds the latest envelopes without a gap, and so does the      *)
(* connection: what it carries is all that is to come.                     *)
StreamInv ==
  /\ StreamTypeOK
  /\ UpToDate(buffer, Len(log)) /\ UpToDate(wire, Len(log))
  /\ link # "up" => wire = <<>>
  /\ lastEventId <= Len(log) - Len(wire)
  /\ link = "up" => Covered(buffer, Len(wire), Len(log))

USE BufferSizeAssumption, StreamBoundsAssumption

-----------------------------------------------------------------------------
(* t is s without its first k elements; t is s and one more.               *)
Without(s, k, t) ==
  /\ Len(t) = IF k <= Len(s) THEN Len(s) - k ELSE 0
  /\ \A i \in 1..Len(t) : k + i \in 1..Len(s) /\ t[i] = s[k + i]

With(s, element, t) ==
  /\ Len(t) = Len(s) + 1 /\ t[Len(s) + 1] = element
  /\ \A i \in 1..Len(s) : t[i] = s[i]

LEMMA RunDrops ==
  ASSUME NEW last \in Nat, NEW s, NEW k \in Nat, NEW t, Len(s) \in Nat,
         UpToDate(s, last), Without(s, k, t)
  PROVE  UpToDate(t, last)
<1>1. ASSUME NEW i \in 1..Len(t) PROVE t[i] = last - Len(t) + i
  <2>1. k + i \in 1..Len(s) /\ t[i] = s[k + i]
    BY DEF Without
  <2>2. Len(t) = Len(s) - k
    BY <2>1 DEF Without
  <2>3. s[k + i] = last - Len(s) + (k + i)
    BY <2>1 DEF UpToDate
  <2> QED BY <2>1, <2>2, <2>3
<1> QED BY <1>1 DEF UpToDate

LEMMA RunGains ==
  ASSUME NEW last \in Nat, NEW s, NEW t, Len(s) \in Nat,
         UpToDate(s, last), With(s, last + 1, t)
  PROVE  /\ UpToDate(t, last + 1)
         /\ \A i \in 1..Len(t) : t[i] = last + 1 \/ (i \in 1..Len(s) /\ t[i] = s[i])
<1>1. \A i \in 1..Len(t) : i \in 1..Len(s) \/ i = Len(s) + 1
  BY DEF With
<1>2. \A i \in 1..Len(s) : s[i] = last - Len(s) + i
  BY DEF UpToDate
<1> QED BY <1>1, <1>2 DEF UpToDate, With

(* A run that does not hold an id up to its last one starts after it; one  *)
(* that does holds it in its place.                                        *)
LEMMA RunMisses ==
  ASSUME NEW last \in Nat, NEW m \in 0..last, NEW s, NEW since \in 0..last,
         \A i \in 1..m : s[i] = last - m + i
  PROVE  /\ (\A i \in 1..m : s[i] # since)
              => since <= last - m /\ \A i \in 1..m : s[i] > last - m
         /\ \A i \in 1..m : s[i] = since
              => /\ since <= last - (m - i)
                 /\ \A j \in 1..m : s[j] <= since \/ s[j] > last - (m - i)
<1>1. ASSUME \A i \in 1..m : s[i] # since, since > last - m PROVE FALSE
  <2>1. since - (last - m) \in 1..m
    BY <1>1
  <2>2. s[since - (last - m)] = last - m + (since - (last - m))
    BY <2>1
  <2>3. last - m + (since - (last - m)) = since
    OBVIOUS
  <2> QED BY <1>1, <2>1, <2>2, <2>3
<1>2. \A i \in 1..m : s[i] > last - m
  OBVIOUS
<1>3. ASSUME NEW i \in 1..m, s[i] = since
      PROVE  /\ since <= last - (m - i)
             /\ \A j \in 1..m : s[j] <= since \/ s[j] > last - (m - i)
  <2>1. since = last - (m - i)
    BY <1>3
  <2>2. \A j \in 1..m : s[j] \in Int
    OBVIOUS
  <2> QED BY <2>1, <2>2
<1>4. last - m \in Int
  OBVIOUS
<1> QED BY <1>1, <1>2, <1>3, <1>4

-----------------------------------------------------------------------------
LEMMA SubSeqIsSuffix ==
  ASSUME NEW s, NEW k \in Nat, NEW t, Len(s) \in Nat,
         Len(t) = IF k + 1 <= Len(s) THEN Len(s) - (k + 1) + 1 ELSE 0,
         \A i \in 1..Len(s) - (k + 1) + 1 : t[i] = s[k + 1 + i - 1]
  PROVE  Without(s, k, t)
<1>1. Len(t) = IF k <= Len(s) THEN Len(s) - k ELSE 0
  OBVIOUS
<1>2. ASSUME NEW i \in 1..Len(t)
      PROVE  k + i \in 1..Len(s) /\ t[i] = s[k + i]
  <2>1. i \in 1..Len(s) - (k + 1) + 1 /\ k + i \in 1..Len(s) /\ k + 1 + i - 1 = k + i
    BY <1>1
  <2> QED BY <2>1
<1> QED BY <1>1, <1>2 DEF Without

LEMMA Suffix ==
  ASSUME NEW last \in Nat, NEW s \in Seq(1..last), UpToDate(s, last), NEW k \in Nat
  PROVE  /\ SubSeq(s, k + 1, Len(s)) \in Seq(1..last)
         /\ UpToDate(SubSeq(s, k + 1, Len(s)), last)
         /\ Without(s, k, SubSeq(s, k + 1, Len(s)))
<1> DEFINE t == SubSeq(s, k + 1, Len(s))
<1>1. Len(s) \in Nat /\ DOMAIN s = 1..Len(s)
  BY LenProperties
<1>2. \A i \in k + 1..Len(s) : s[i] \in 1..last
  BY <1>1, ElementOfSeq
<1>3. /\ t \in Seq(1..last)
      /\ Len(t) = IF k + 1 <= Len(s) THEN Len(s) - (k + 1) + 1 ELSE 0
      /\ \A i \in 1..Len(s) - (k + 1) + 1 : t[i] = s[k + 1 + i - 1]
  BY <1>1, <1>2, SubSeqProperties
<1> HIDE DEF t
<1>4. Without(s, k, t)
  BY <1>1, <1>3, SubSeqIsSuffix
<1>5. UpToDate(t, last)
  BY <1>1, <1>4, RunDrops
<1> QED BY <1>3, <1>4, <1>5 DEF t

LEMMA Grown ==
  ASSUME NEW last \in Nat, NEW s \in Seq(1..last), UpToDate(s, last)
  PROVE  /\ Append(s, last + 1) \in Seq(1..last + 1)
         /\ UpToDate(Append(s, last + 1), last + 1)
         /\ With(s, last + 1, Append(s, last + 1))
<1> DEFINE t == Append(s, last + 1)
<1>1. Len(s) \in Nat /\ s \in [1..Len(s) -> 1..last]
  BY LenProperties
<1>2. s \in Seq(1..last + 1)
  <2>1. 1..last \subseteq 1..last + 1
    OBVIOUS
  <2> QED BY <1>1, <2>1
<1>3. t \in Seq(1..last + 1) /\ With(s, last + 1, t)
  <2>1. last + 1 \in 1..last + 1
    OBVIOUS
  <2> QED BY <1>2, <2>1, AppendProperties DEF With
<1> HIDE DEF t
<1>4. UpToDate(t, last + 1)
  BY <1>1, <1>3, RunGains
<1> QED BY <1>3, <1>4 DEF t

(* A run is not longer than there are ids.                                 *)
LEMMA RunFits ==
  ASSUME NEW last \in Nat, NEW s \in Seq(1..last), UpToDate(s, last)
  PROVE  Len(s) \in 0..last
<1>1. Len(s) \in Nat
  BY LenProperties
<1>2. CASE Len(s) = 0
  BY <1>2
<1>3. CASE Len(s) # 0
  <2>1. 1 \in 1..Len(s)
    BY <1>1, <1>3
  <2>2. s[1] \in 1..last
    BY <2>1, ElementOfSeq
  <2>3. s[1] = last - Len(s) + 1
    BY <2>1 DEF UpToDate
  <2> QED BY <1>1, <2>2, <2>3
<1> QED BY <1>2, <1>3

-----------------------------------------------------------------------------
LEMMA DropsSome ==
  ASSUME StreamInv
  PROVE  \E k \in Nat : Unexpired(buffer) = SubSeq(buffer, k + 1, Len(buffer))
<1> DEFINE old == {i \in DOMAIN buffer : buffer[i] <= expired}
<1>1. IsFiniteSet(DOMAIN buffer)
  BY FS_Interval, LenProperties DEF StreamInv, StreamTypeOK
<1>2. IsFiniteSet(old)
  BY <1>1, FS_Subset
<1>3. Cardinality(old) \in Nat
  BY <1>2, FS_CardinalityType
<1> QED BY <1>3 DEF Unexpired

(* A replay is what follows the Last-Event-ID, or everything the ring has. *)
LEMMA Replayed ==
  ASSUME NEW last \in Nat, NEW s \in Seq(1..last), UpToDate(s, last),
         NEW since \in 0..last
  PROVE  /\ Replay(s, since) \in Seq(1..last) /\ UpToDate(Replay(s, since), last)
         /\ since <= last - Len(Replay(s, since))
         /\ \A i \in 1..Len(s) : s[i] <= since \/ s[i] > last - Len(Replay(s, since))
<1> DEFINE at == {i \in DOMAIN s : s[i] = since}
           idx == IF at = {} THEN 0 ELSE CHOOSE i \in at : TRUE
           t == SubSeq(s, idx + 1, Len(s))
<1>1. Len(s) \in 0..last /\ Len(s) \in Nat /\ DOMAIN s = 1..Len(s)
  BY LenProperties, RunFits
<1>2. at # {} => idx \in at
  OBVIOUS
<1>3. idx \in 0..Len(s)
  BY <1>1, <1>2
<1>4. Replay(s, since) = t
  BY DEF Replay
<1> HIDE DEF idx
<1>5. t \in Seq(1..last) /\ UpToDate(t, last) /\ Without(s, idx, t)
  <2>1. idx \in Nat
    BY <1>1, <1>3
  <2> QED BY <2>1, Suffix
<1> HIDE DEF t
<1>6. Len(t) = Len(s) - idx
  BY <1>1, <1>3, <1>5 DEF Without
<1>7. \A i \in 1..Len(s) : s[i] = last - Len(s) + i
  BY DEF UpToDate
<1>8. CASE at = {}
  <2>1. idx = 0 /\ \A i \in 1..Len(s) : s[i] # since
    BY <1>1, <1>8 DEF idx
  <2>2. Len(t) = Len(s)
    BY <1>1, <1>6, <2>1
  <2> QED BY <1>1, <1>4, <1>5, <1>7, <2>1, <2>2, RunMisses
<1>9. CASE at # {}
  <2>1. idx \in 1..Len(s) /\ s[idx] = since
    BY <1>1, <1>2, <1>9
  <2> HIDE DEF idx, at
  <2> QED BY <1>1, <1>4, <1>5, <1>6, <1>7, <2>1, RunMisses
<1> QED BY <1>8, <1>9

-----------------------------------------------------------------------------
LEMMA StreamStarts == Init => StreamInv
BY DEF Init, TransportInit, StreamInv, StreamTypeOK, UpToDate

(* What the type and the runs say of the lengths.                          *)
LEMMA Lengths ==
  ASSUME StreamInv
  PROVE  /\ Len(log) \in Nat /\ Len(buffer) \in 0..Len(log) /\ Len(wire) \in 0..Len(log)
         /\ DOMAIN buffer = 1..Len(buffer) /\ DOMAIN wire = 1..Len(wire)
         /\ buffer \in Seq(1..Len(log)) /\ wire \in Seq(1..Len(log))
         /\ lastEventId \in 0..Len(log)
BY LenProperties, RunFits DEF StreamInv, StreamTypeOK

LEMMA ConnectKeeps ==
  ASSUME StreamInv, Connect
  PROVE  StreamInv'
<1>1. PICK k \in Nat : buffer' = SubSeq(buffer, k + 1, Len(buffer))
  BY DropsSome DEF Connect
<1>2. /\ Len(log) \in Nat /\ Len(buffer) \in Nat /\ buffer \in Seq(1..Len(log))
      /\ UpToDate(buffer, Len(log)) /\ lastEventId \in 0..Len(log)
  BY Lengths DEF StreamInv
<1>3. buffer' \in Seq(1..Len(log)) /\ UpToDate(buffer', Len(log)) /\ Without(buffer, k, buffer')
  BY <1>1, <1>2, Suffix
<1>4. Len(buffer') <= Len(buffer)
  BY <1>2, <1>3 DEF Without
<1>5. wire' = Replay(buffer', lastEventId) /\ link' = "up"
      /\ UNCHANGED <<sse, lastEventId, log, expired, cuts>>
  BY DEF Connect
<1>6. /\ wire' \in Seq(1..Len(log)) /\ UpToDate(wire', Len(log))
      /\ lastEventId <= Len(log) - Len(wire')
      /\ \A i \in 1..Len(buffer') :
           buffer'[i] <= lastEventId \/ buffer'[i] > Len(log) - Len(wire')
  BY <1>2, <1>3, <1>5, Replayed
<1>7. Len(buffer') \in Nat
  BY <1>3, LenProperties
<1>8. StreamTypeOK'
  BY <1>2, <1>3, <1>4, <1>5, <1>6, <1>7 DEF StreamInv, StreamTypeOK
<1> QED BY <1>3, <1>5, <1>6, <1>8 DEF StreamInv, UpToDate, Covered

(* The ring: the oldest entry makes room for the new one.                  *)
LEMMA Pushed ==
  ASSUME NEW last \in Nat, NEW s \in Seq(1..last), UpToDate(s, last), Len(s) <= BufferSize
  PROVE  /\ Push(s, last + 1) \in Seq(1..last + 1) /\ UpToDate(Push(s, last + 1), last + 1)
         /\ Len(Push(s, last + 1)) <= BufferSize
         /\ \A i \in 1..Len(Push(s, last + 1)) :
              \/ Push(s, last + 1)[i] = last + 1
              \/ \E j \in 1..Len(s) : Push(s, last + 1)[i] = s[j]
<1> DEFINE rest == IF Len(s) = BufferSize THEN Tail(s) ELSE s
           t == Append(rest, last + 1)
<1>1. Len(s) \in Nat
  BY LenProperties
<1>2. /\ rest \in Seq(1..last) /\ UpToDate(rest, last) /\ Len(rest) < BufferSize
      /\ \A i \in 1..Len(rest) : \E j \in 1..Len(s) : rest[i] = s[j]
  <2>1. CASE Len(s) = BufferSize
    <3>1. s # <<>>
      BY <2>1, EmptySeq
    <3>2. Tail(s) = SubSeq(s, 1 + 1, Len(s))
      BY <1>1, <3>1, TailIsSubSeq
    <3>3. Tail(s) \in Seq(1..last) /\ UpToDate(Tail(s), last) /\ Without(s, 1, Tail(s))
      BY <3>2, Suffix
    <3>4. \A i \in 1..Len(Tail(s)) : \E j \in 1..Len(s) : Tail(s)[i] = s[j]
      BY <3>3 DEF Without
    <3>5. Len(Tail(s)) < BufferSize
      BY <1>1, <2>1, <3>3 DEF Without
    <3> QED BY <2>1, <3>3, <3>4, <3>5
  <2>2. CASE Len(s) # BufferSize
    BY <1>1, <2>2
  <2> QED BY <2>1, <2>2
<1>3. Push(s, last + 1) = t
  BY DEF Push
<1> HIDE DEF rest
<1>4. t \in Seq(1..last + 1) /\ UpToDate(t, last + 1) /\ With(rest, last + 1, t)
  BY <1>2, Grown
<1>5. Len(rest) \in Nat
  BY <1>2, LenProperties
<1> HIDE DEF t
<1>6. \A i \in 1..Len(t) : t[i] = last + 1 \/ (i \in 1..Len(rest) /\ t[i] = rest[i])
  BY <1>2, <1>4, <1>5, RunGains
<1>7. Len(t) <= BufferSize
  BY <1>2, <1>4, <1>5 DEF With
<1> QED BY <1>2, <1>3, <1>4, <1>6, <1>7

LEMMA PublishKeeps ==
  ASSUME StreamInv, NEW kind \in Kinds, Publish(kind)
  PROVE  StreamInv'
<1> DEFINE last == Len(log)
<1>1. /\ last \in Nat /\ Len(wire) \in 0..last /\ Len(buffer) \in 0..last
      /\ buffer \in Seq(1..last) /\ UpToDate(buffer, last) /\ Len(buffer) <= BufferSize
      /\ wire \in Seq(1..last) /\ UpToDate(wire, last)
      /\ lastEventId \in 0..last /\ lastEventId <= last - Len(wire)
  BY Lengths DEF StreamInv, StreamTypeOK
<1>2. log' \in Seq(Kinds) /\ Len(log') = last + 1 /\ Len(log') <= MaxPublished
  <2>1. log \in Seq(Kinds) /\ log' = Append(log, kind) /\ last < MaxPublished
    BY DEF Publish, StreamInv, StreamTypeOK
  <2>2. log' \in Seq(Kinds) /\ Len(log') = last + 1
    BY <2>1, AppendProperties
  <2> QED BY <1>1, <2>1, <2>2
<1>3. /\ buffer' = Push(buffer, last + 1) /\ UNCHANGED <<sse, link, lastEventId, expired, cuts>>
      /\ wire' = IF link = "up" THEN Append(wire, last + 1) ELSE wire
  BY DEF Publish
<1>4. /\ sse \in {"off", "open", "closed"} /\ link \in {"down", "up", "dead"}
      /\ expired \in 0..last /\ cuts \in 0..MaxCuts
      /\ link # "up" => wire = <<>>
      /\ link = "up" => Covered(buffer, Len(wire), last)
  BY DEF StreamInv, StreamTypeOK
<1> HIDE DEF last
<1>5. /\ buffer' \in Seq(1..last + 1) /\ UpToDate(buffer', last + 1)
      /\ Len(buffer') <= BufferSize
      /\ \A i \in 1..Len(buffer') :
           buffer'[i] = last + 1 \/ \E j \in 1..Len(buffer) : buffer'[i] = buffer[j]
  BY <1>1, <1>3, Pushed
<1>6. CASE link = "up"
  <2>1. wire' \in Seq(1..last + 1) /\ UpToDate(wire', last + 1) /\ Len(wire') = Len(wire) + 1
    BY <1>1, <1>3, <1>6, Grown DEF With
  <2>2. Covered(buffer, Len(wire), last)
    BY <1>4, <1>6
  <2>3. last + 1 - Len(wire') = last - Len(wire) /\ last + 1 > last - Len(wire)
    BY <1>1, <2>1
  <2>4. \A i \in 1..Len(buffer') :
          buffer'[i] <= lastEventId \/ buffer'[i] > last + 1 - Len(wire')
    BY <1>5, <2>2, <2>3 DEF Covered
  <2>5. lastEventId' <= Len(log') - Len(wire')
    BY <1>1, <1>2, <1>3, <2>3
  <2>6. StreamTypeOK'
    BY <1>1, <1>2, <1>3, <1>4, <1>5, <2>1 DEF StreamTypeOK
  <2>7. Len(log') = last + 1 /\ link' = link /\ lastEventId' = lastEventId
    BY <1>2, <1>3
  <2>8. Covered(buffer, Len(wire), Len(log))'
    <3> DEFINE bound == last + 1 - Len(wire')
    <3>1. last \in Nat /\ Len(wire') \in Nat /\ Len(log') = last + 1
      BY <1>1, <2>1, <2>7, LenProperties
    <3>2. bound = Len(log') - Len(wire')
      BY <3>1
    <3>3. \A i \in 1..Len(buffer') : buffer'[i] <= lastEventId' \/ buffer'[i] > bound
      BY <2>4, <2>7
    <3> HIDE DEF bound
    <3> QED BY <3>2, <3>3, Zenon DEF Covered
  <2>9. UpToDate(buffer', Len(log')) /\ UpToDate(wire', Len(log'))
    BY <1>5, <2>1, <2>7
  <2> QED BY <1>6, <2>5, <2>6, <2>7, <2>8, <2>9 DEF StreamInv
<1>7. CASE link # "up"
  <2>1. wire' = <<>> /\ Len(wire') = 0 /\ UpToDate(wire', last + 1)
    BY <1>3, <1>4, <1>7 DEF UpToDate
  <2>2. wire' \in Seq(1..last + 1)
    BY <2>1, EmptySeq
  <2>3. lastEventId' \in 0..last + 1
    BY <1>1, <1>3
  <2>4. StreamTypeOK'
    BY <1>1, <1>2, <1>3, <1>4, <1>5, <2>2, <2>3 DEF StreamTypeOK
  <2>5. lastEventId' <= Len(log') - Len(wire')
    BY <1>1, <1>2, <1>3, <2>1
  <2> QED BY <1>2, <1>3, <1>5, <1>7, <2>1, <2>4, <2>5 DEF StreamInv
<1> QED BY <1>6, <1>7

LEMMA DeliverKeeps ==
  ASSUME StreamInv, Deliver
  PROVE  StreamInv'
<1> DEFINE last == Len(log)
<1>1. /\ wire # <<>> /\ wire' = Tail(wire) /\ lastEventId' = Head(wire) /\ link = "up"
      /\ UNCHANGED <<sse, link, log, buffer, expired, cuts>>
  BY DEF Deliver
<1>2. /\ last \in Nat /\ wire \in Seq(1..last) /\ Len(wire) \in 0..last
      /\ buffer \in Seq(1..last) /\ UpToDate(wire, last) /\ UpToDate(buffer, last)
      /\ Covered(buffer, Len(wire), last) /\ lastEventId <= last - Len(wire)
      /\ lastEventId \in 0..last
  BY <1>1, Lengths DEF StreamInv
<1>3. Len(wire) # 0
  BY <1>1, <1>2, EmptySeq
<1>4. Tail(wire) = SubSeq(wire, 1 + 1, Len(wire))
  BY <1>1, <1>2, TailIsSubSeq
<1>5. wire' \in Seq(1..last) /\ UpToDate(wire', last) /\ Without(wire, 1, wire')
  BY <1>1, <1>2, <1>4, Suffix
<1>6. Len(wire') = Len(wire) - 1
  BY <1>2, <1>3, <1>5 DEF Without
<1>7. lastEventId' = last - Len(wire')
  <2>1. Head(wire) = wire[1]
    BY <1>2
  <2>2. wire[1] = last - Len(wire) + 1
    BY <1>2, <1>3 DEF UpToDate
  <2> QED BY <1>1, <1>2, <1>6, <2>1, <2>2
<1>8. lastEventId' \in 0..last /\ lastEventId < lastEventId'
  BY <1>2, <1>3, <1>6, <1>7
<1>9. \A i \in 1..Len(buffer) : buffer[i] <= lastEventId' \/ buffer[i] > last - Len(wire')
  <2>1. \A i \in 1..Len(buffer) : buffer[i] \in Int
    BY <1>2, ElementOfSeq
  <2> QED BY <1>2, <1>7, <1>8, <2>1
<1>10. last' = last
  BY <1>1
<1>11. StreamTypeOK'
  BY <1>1, <1>5, <1>8 DEF StreamInv, StreamTypeOK
<1>12. lastEventId' <= last - Len(wire')
  BY <1>7, <1>8
<1> QED BY <1>1, <1>2, <1>5, <1>9, <1>10, <1>11, <1>12 DEF StreamInv, UpToDate, Covered

LEMMA OthersKeep ==
  ASSUME StreamInv, Start \/ Stop \/ Expire \/ Cut \/ Restart \/ GiveUp
  PROVE  StreamInv'
<1>1. /\ <<>> \in Seq(1..Len(log)) /\ Len(<<>>) = 0
      /\ lastEventId \in 0..Len(log) /\ Len(log) \in Nat
  BY EmptySeq, Lengths
<1>2. CASE Start
  BY <1>2 DEF Start, transport, StreamInv, StreamTypeOK, UpToDate, Covered
<1>3. CASE Stop
  BY <1>1, <1>3 DEF Stop, StreamInv, StreamTypeOK, UpToDate, Covered
<1>4. CASE Expire
  <2>1. expired' \in 0..Len(log)
    BY <1>4 DEF Expire, StreamInv, StreamTypeOK
  <2> QED BY <1>4, <2>1 DEF Expire, StreamInv, StreamTypeOK, UpToDate, Covered
<1>5. CASE Cut
  <2>1. cuts' \in 0..MaxCuts
    BY <1>5 DEF Cut, StreamInv, StreamTypeOK
  <2> QED BY <1>1, <1>5, <2>1 DEF Cut, StreamInv, StreamTypeOK, UpToDate, Covered
<1>6. CASE Restart
  <2>1. cuts' \in 0..MaxCuts
    BY <1>6 DEF Restart, StreamInv, StreamTypeOK
  <2> QED BY <1>1, <1>6, <2>1 DEF Restart, StreamInv, StreamTypeOK, UpToDate, Covered
<1>7. CASE GiveUp
  BY <1>7 DEF GiveUp, StreamInv, StreamTypeOK, UpToDate, Covered
<1> QED BY <1>2, <1>3, <1>4, <1>5, <1>6, <1>7

-----------------------------------------------------------------------------
(* The inductive invariant: ring and connection are runs that end with the *)
(* last envelope published.                                                *)
THEOREM StreamInvariance == Spec => []StreamInv
<1>1. StreamInv /\ [Next]_streamVars => StreamInv'
  <2> SUFFICES ASSUME StreamInv, [Next]_streamVars PROVE StreamInv'
    OBVIOUS
  <2>1. CASE UNCHANGED streamVars
    BY <2>1 DEF streamVars, transport, StreamInv, StreamTypeOK, UpToDate, Covered
  <2> QED BY <2>1, PublishKeeps, ConnectKeeps, DeliverKeeps, OthersKeep DEF Next
<1> QED BY <1>1, StreamStarts, PTL DEF Spec

(* Ids, queues and counters keep their types.                              *)
THEOREM StreamTypeCorrect == Spec => []StreamTypeOK
<1>1. StreamInv => StreamTypeOK
  BY DEF StreamInv
<1> QED BY <1>1, StreamInvariance, PTL

(* Every envelope is delivered at most once and in order, whatever the     *)
(* Last-Event-ID and whatever the ring has forgotten (event-bus.ts replay, *)
(* events.ts).                                                             *)
THEOREM DeliveredInOrder == Spec => []InOrderOnce
<1>1. StreamInv => InOrderOnce
  <2> SUFFICES ASSUME StreamInv PROVE InOrderOnce
    OBVIOUS
  <2>1. /\ Len(log) \in Nat /\ Len(wire) \in 0..Len(log) /\ DOMAIN wire = 1..Len(wire)
        /\ lastEventId \in 0..Len(log) /\ lastEventId <= Len(log) - Len(wire)
    BY Lengths DEF StreamInv
  <2>2. \A i \in DOMAIN wire : wire[i] = Len(log) - Len(wire) + i
    BY <2>1 DEF StreamInv, UpToDate
  <2> QED BY <2>1, <2>2 DEF InOrderOnce, Increasing
<1> QED BY <1>1, StreamInvariance, PTL

(* Replaying and subscribing leaves no gap (events.ts).                    *)
THEOREM NoGap == Spec => []Recoverable
<1>1. StreamInv => Recoverable
  <2> SUFFICES ASSUME StreamInv, link = "up", NEW id \in Range(buffer), ~(id <= lastEventId)
               PROVE  id \in Range(wire)
    BY DEF Recoverable
  <2>1. /\ Len(log) \in Nat /\ Len(wire) \in 0..Len(log) /\ DOMAIN wire = 1..Len(wire)
        /\ Len(buffer) \in 0..Len(log) /\ DOMAIN buffer = 1..Len(buffer)
    BY Lengths
  <2>2. PICK i \in 1..Len(buffer) : buffer[i] = id
    BY <2>1 DEF Range
  <2>3. id > Len(log) - Len(wire) /\ id \in 1..Len(log)
    BY <2>2, Lengths, ElementOfSeq DEF StreamInv, Covered
  <2> DEFINE j == id - (Len(log) - Len(wire))
  <2>4. j \in 1..Len(wire) /\ Len(log) - Len(wire) + j = id
    BY <2>1, <2>3
  <2> HIDE DEF j
  <2>5. wire[j] = id
    BY <2>4 DEF StreamInv, UpToDate
  <2> QED BY <2>1, <2>4, <2>5 DEF Range
<1> QED BY <1>1, StreamInvariance, PTL

(* The page passes over an envelope only when the server could not replay  *)
(* it any more, to this reconnect or to a later one ("replays any missed   *)
(* events", webhook-listener.ts).                                          *)
SkipsTheLost ==
  \A id \in (lastEventId + 1)..(lastEventId' - 1) : id \notin Range(buffer)

(* So it is with every step, as what a connection carries begins where the *)
(* ring began when it was made, or where the page was (event-bus.ts replay,*)
(* events.ts).                                                             *)
THEOREM OnlyTheLostSkipped == Spec => [][SkipsTheLost]_streamVars
<1>1. StreamInv /\ [Next]_streamVars => [SkipsTheLost]_streamVars
  <2> SUFFICES ASSUME StreamInv, Next PROVE SkipsTheLost
    OBVIOUS
  <2>1. CASE lastEventId' = lastEventId
    <3>1. lastEventId \in Nat
      BY DEF StreamInv, StreamTypeOK
    <3>2. (lastEventId + 1)..(lastEventId' - 1) = {}
      BY <2>1, <3>1
    <3> QED BY <3>2 DEF SkipsTheLost
  <2>2. CASE Deliver
    <3>1. /\ Len(log) \in Nat /\ Len(wire) \in 0..Len(log)
          /\ Len(buffer) \in 0..Len(log) /\ DOMAIN buffer = 1..Len(buffer)
          /\ lastEventId \in Nat
      BY Lengths DEF StreamInv, StreamTypeOK
    <3>2. Len(wire) \in Nat \ {0} /\ wire[1] = lastEventId'
      BY <2>2, <3>1 DEF Deliver, StreamInv, StreamTypeOK
    <3>3. lastEventId' = Len(log) - Len(wire) + 1
      BY <3>2 DEF StreamInv, UpToDate
    <3>4. \A i \in 1..Len(buffer) :
            buffer[i] <= lastEventId \/ buffer[i] > Len(log) - Len(wire)
      BY <2>2 DEF Deliver, StreamInv, Covered
    <3>5. SUFFICES ASSUME NEW id \in (lastEventId + 1)..(lastEventId' - 1),
                          id \in Range(buffer)
                   PROVE  FALSE
      BY DEF SkipsTheLost
    <3>6. PICK i \in 1..Len(buffer) : buffer[i] = id
      BY <3>1, <3>5 DEF Range
    <3>7. id <= lastEventId \/ id > Len(log) - Len(wire)
      BY <3>4, <3>6
    <3> QED BY <3>1, <3>2, <3>3, <3>7
  <2> QED BY <2>1, <2>2 DEF Next, Start, Stop, Publish, Expire, Connect, Cut, Restart,
                            GiveUp, transport
<1> QED BY <1>1, StreamInvariance, PTL DEF Spec

=============================================================================
