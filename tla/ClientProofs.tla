---------------------------- MODULE ClientProofs ----------------------------
(***************************************************************************)
(* The limiter keeps its rate, and no strike is counted twice, for every   *)
(* burst, refill, number of keys, and number of requests lost or late.     *)
(***************************************************************************)
EXTENDS Client, FiniteSetTheorems, SequenceTheorems, TLAPS

-----------------------------------------------------------------------------
(* The order of the table                                                  *)

LEMMA LimiterTypes ==
  /\ Capacity \in Nat \ {0} /\ RefillMs \in Nat \ {0} /\ MaxKeys \in Nat \ {0}
  /\ NsPerMs \in Nat \ {0} /\ FullMs \in Nat /\ FullNs \in Nat /\ Mine \in Key
<1>1. Capacity \in Nat \ {0} /\ RefillMs \in Nat \ {0} /\ MaxKeys \in Nat \ {0} /\ NsPerMs \in Nat \ {0}
  BY LimiterAssumption
<1>2. FullMs \in Nat
  BY <1>1, SMT DEF FullMs
<1>3. FullNs \in Nat
  BY <1>1, <1>2, SMT DEF FullNs
<1>4. QED
  BY <1>1, <1>2, <1>3, LimiterAssumption

Distinct(order) ==
  \A i, j \in 1..Len(order) : i < j => order[i] # order[j]

\* Every entry of the one is an entry of the other, in the same order.
Within(part, order) ==
  /\ \A i \in 1..Len(part) : \E a \in 1..Len(order) : part[i] = order[a]
  /\ \A i, j \in 1..Len(part) : i < j =>
       \E a, b \in 1..Len(order) : a < b /\ part[i] = order[a] /\ part[j] = order[b]

LEMMA PartDistinct ==
  ASSUME NEW order \in Seq(Key), Distinct(order), NEW part \in Seq(Key), Within(part, order)
  PROVE  Distinct(part)
<1>1. ASSUME NEW i \in 1..Len(part), NEW j \in 1..Len(part), i < j PROVE part[i] # part[j]
  <2>1. PICK a, b \in 1..Len(order) : a < b /\ part[i] = order[a] /\ part[j] = order[b]
    BY <1>1 DEF Within
  <2>2. QED
    BY <2>1 DEF Distinct
<1>2. QED
  BY <1>1 DEF Distinct

LEMMA WithoutOK ==
  ASSUME NEW order \in Seq(Key), Distinct(order), NEW k \in Key
  PROVE  LET w == Without(order, k)
         IN /\ w \in Seq(Key) /\ Len(w) <= Len(order) /\ Within(w, order)
            /\ ~Has(order, k) => w = order
            /\ Has(order, k) => Len(w) = Len(order) - 1
            /\ \A i \in 1..Len(w) : w[i] # k
            /\ \A x \in Key : x # k /\ Has(order, x) => Has(w, x)
<1> DEFINE w == Without(order, k)
           n == Len(order) - 1
           p == Position(order, k)
<1>1. CASE ~Has(order, k)
  <2>1. w = order
    BY <1>1 DEF Without
  <2>2. Within(w, order)
    BY <2>1 DEF Within
  <2>3. \A i \in 1..Len(order) : order[i] # k
    BY <1>1 DEF Has
  <2>4. QED
    BY <1>1, <2>1, <2>2, <2>3
<1>2. CASE Has(order, k)
  <2>1. p \in 1..Len(order) /\ order[p] = k /\ n \in Nat
    BY <1>2 DEF Has, Position
  <2>2. w = [i \in 1..n |-> order[IF i < p THEN i ELSE i + 1]]
    BY <1>2 DEF Without
  <2> HIDE DEF p
  <2>3. \A i \in 1..n : (IF i < p THEN i ELSE i + 1) \in 1..Len(order)
    BY <2>1
  <2>4. \A i \in 1..n : w[i] \in Key
    BY <2>2, <2>3
  <2>5. w \in Seq(Key) /\ Len(w) = n
    BY <2>1, <2>2, <2>4
  <2> HIDE DEF w
  <2>6. Within(w, order)
    <3>1. \A i \in 1..n : \E a \in 1..Len(order) : w[i] = order[a]
      BY <2>2, <2>3
    <3>2. ASSUME NEW i \in 1..n, NEW j \in 1..n, i < j
          PROVE  \E a, b \in 1..Len(order) : a < b /\ w[i] = order[a] /\ w[j] = order[b]
      <4> DEFINE a == IF i < p THEN i ELSE i + 1
                 b == IF j < p THEN j ELSE j + 1
      <4>1. a \in 1..Len(order) /\ b \in 1..Len(order) /\ a < b
        BY <2>1, <3>2
      <4>2. w[i] = order[a] /\ w[j] = order[b]
        BY <2>2
      <4> HIDE DEF a, b
      <4>3. QED
        BY <4>1, <4>2
    <3>3. QED
      BY <2>5, <3>1, <3>2 DEF Within
  <2>7. ASSUME NEW i \in 1..n PROVE w[i] # k
    <3> DEFINE a == IF i < p THEN i ELSE i + 1
    <3>1. a \in 1..Len(order) /\ a # p /\ w[i] = order[a]
      BY <2>1, <2>2, <2>7
    <3> HIDE DEF a
    <3>2. a < p \/ p < a
      BY <2>1, <3>1
    <3>3. QED
      BY <2>1, <3>1, <3>2 DEF Distinct
  <2>8. ASSUME NEW x \in Key, x # k, Has(order, x) PROVE Has(w, x)
    <3>1. PICK a \in 1..Len(order) : order[a] = x
      BY <2>8 DEF Has
    <3>2. a # p
      BY <2>1, <2>8, <3>1
    <3> DEFINE i == IF a < p THEN a ELSE a - 1
    <3>3. i \in 1..n /\ (IF i < p THEN i ELSE i + 1) = a
      BY <2>1, <3>1, <3>2
    <3> HIDE DEF i
    <3>4. w[i] = x
      BY <2>2, <3>1, <3>3
    <3>5. QED
      BY <2>5, <3>3, <3>4 DEF Has
  <2>9. QED
    BY <1>2, <2>1, <2>5, <2>6, <2>7, <2>8 DEF w
<1>3. QED
  BY <1>1, <1>2

\* There is room for one more, and only the first entry has gone for it.
LEMMA KeptOK ==
  ASSUME NEW w \in Seq(Key), Len(w) <= MaxKeys
  PROVE  /\ Kept(w) \in Seq(Key) /\ Len(Kept(w)) < MaxKeys /\ Within(Kept(w), w)
         /\ \A x \in Key : Has(w, x) /\ ~Has(Kept(w), x) => Len(w) = MaxKeys /\ w[1] = x
<1>1. CASE Len(w) >= MaxKeys
  <2>1. w # <<>> /\ Len(w) = MaxKeys /\ Kept(w) = Tail(w)
    BY <1>1, LimiterTypes DEF Kept
  <2>2. /\ Kept(w) \in Seq(Key) /\ Len(Kept(w)) = Len(w) - 1
        /\ \A i \in 1..Len(Kept(w)) : Kept(w)[i] = w[i + 1]
    BY <2>1, HeadTailProperties
  <2>3. Within(Kept(w), w)
    BY <2>2 DEF Within
  <2>4. ASSUME NEW x \in Key, Has(w, x), ~Has(Kept(w), x) PROVE w[1] = x
    <3>1. PICK a \in 1..Len(w) : w[a] = x
      BY <2>4 DEF Has
    <3>2. CASE a # 1
      <4>1. a - 1 \in 1..Len(Kept(w)) /\ (a - 1) + 1 = a
        BY <2>2, <3>1, <3>2
      <4>2. Kept(w)[a - 1] = x
        BY <2>2, <3>1, <4>1
      <4>3. QED
        BY <2>2, <2>4, <4>1, <4>2 DEF Has
    <3>3. QED
      BY <3>1, <3>2
  <2>5. QED
    BY <2>1, <2>2, <2>3, <2>4, LimiterTypes
<1>2. CASE ~(Len(w) >= MaxKeys)
  <2>1. Kept(w) = w
    BY <1>2 DEF Kept
  <2>2. QED
    BY <1>2, <2>1, LimiterTypes DEF Within
<1>3. QED
  BY <1>1, <1>2

\* A request puts its key last and leaves the others as they were, but for the
\* first, when the table is full and the key was not in it.
LEMMA OrderedOK ==
  ASSUME NEW order \in Seq(Key), Distinct(order), Len(order) <= MaxKeys, NEW k \in Key
  PROVE  LET after == Ordered(order, k)
             n == Len(after)
         IN /\ after \in Seq(Key) /\ n \in 1..MaxKeys /\ Distinct(after) /\ after[n] = k
            /\ \A i \in 1..(n - 1) : after[i] # k
            /\ \A i, j \in 1..(n - 1) : i < j =>
                 \E a, b \in 1..Len(order) : a < b /\ after[i] = order[a] /\ after[j] = order[b]
            /\ \A i \in 1..(n - 1) : \E a \in 1..Len(order) : after[i] = order[a]
            /\ \A x \in Key : Has(order, x) /\ ~Has(after, x) =>
                 Len(order) = MaxKeys /\ order[1] = x /\ ~Has(order, k)
<1> DEFINE w == Without(order, k)
           kept == Kept(w)
           after == Ordered(order, k)
           n == Len(after)
<1>1. /\ w \in Seq(Key) /\ Len(w) <= Len(order) /\ Within(w, order)
      /\ ~Has(order, k) => w = order
      /\ Has(order, k) => Len(w) = Len(order) - 1
      /\ \A i \in 1..Len(w) : w[i] # k
      /\ \A x \in Key : x # k /\ Has(order, x) => Has(w, x)
  BY WithoutOK
<1> HIDE DEF w
<1>2. /\ kept \in Seq(Key) /\ Len(kept) < MaxKeys /\ Within(kept, w)
      /\ \A x \in Key : Has(w, x) /\ ~Has(kept, x) => Len(w) = MaxKeys /\ w[1] = x
  BY <1>1, KeptOK, LimiterTypes
<1>3. after = Append(kept, k)
  BY DEF Ordered, w
<1> HIDE DEF kept, after
<1>4. /\ after \in Seq(Key) /\ n = Len(kept) + 1 /\ after[n] = k
      /\ \A i \in 1..Len(kept) : after[i] = kept[i]
  BY <1>2, <1>3, AppendProperties
<1>5. n \in 1..MaxKeys /\ n - 1 = Len(kept)
  BY <1>2, <1>4, LimiterTypes
<1>6. ASSUME NEW i \in 1..(n - 1) PROVE after[i] # k /\ \E a \in 1..Len(order) : after[i] = order[a]
  <2>1. PICK c \in 1..Len(w) : kept[i] = w[c]
    BY <1>2, <1>5 DEF Within
  <2>2. PICK a \in 1..Len(order) : w[c] = order[a]
    BY <1>1 DEF Within
  <2>3. QED
    BY <1>1, <1>4, <1>5, <2>1, <2>2
<1>7. ASSUME NEW i \in 1..(n - 1), NEW j \in 1..(n - 1), i < j
      PROVE  \E a, b \in 1..Len(order) : a < b /\ after[i] = order[a] /\ after[j] = order[b]
  <2>0. i \in 1..Len(kept) /\ j \in 1..Len(kept)
    BY <1>5
  <2>1. PICK c, d \in 1..Len(w) : c < d /\ kept[i] = w[c] /\ kept[j] = w[d]
    BY <1>2, <1>7, <2>0 DEF Within
  <2>2. PICK a, b \in 1..Len(order) : a < b /\ w[c] = order[a] /\ w[d] = order[b]
    BY <1>1, <2>1 DEF Within
  <2>3. after[i] = order[a] /\ after[j] = order[b]
    BY <1>4, <1>5, <2>1, <2>2
  <2>4. QED
    BY <2>2, <2>3
<1>8. Distinct(after)
  <2>1. ASSUME NEW i \in 1..n, NEW j \in 1..n, i < j PROVE after[i] # after[j]
    <3>1. i \in 1..(n - 1) /\ n \in Nat
      BY <1>5, <2>1
    <3>2. CASE j = n
      BY <1>4, <1>6, <3>1, <3>2
    <3>3. CASE j # n
      <4>1. j \in 1..(n - 1)
        BY <3>1, <3>3
      <4>2. PICK a, b \in 1..Len(order) : a < b /\ after[i] = order[a] /\ after[j] = order[b]
        BY <1>7, <2>1, <3>1, <4>1
      <4>3. QED
        BY <4>2 DEF Distinct
    <3>4. QED
      BY <3>2, <3>3
  <2>2. QED
    BY <2>1 DEF Distinct
<1>9. ASSUME NEW x \in Key, Has(order, x), ~Has(after, x)
      PROVE  Len(order) = MaxKeys /\ order[1] = x /\ ~Has(order, k)
  <2>1. x # k
    BY <1>4, <1>5, <1>9 DEF Has
  <2>2. ~Has(kept, x)
    <3>1. ASSUME NEW i \in 1..Len(kept), kept[i] = x PROVE FALSE
      BY <1>2, <1>4, <1>9, <3>1 DEF Has
    <3>2. QED
      BY <1>2, <3>1 DEF Has
  <2>3. Has(w, x) /\ Len(w) = MaxKeys /\ w[1] = x
    BY <1>1, <1>2, <1>9, <2>1, <2>2
  <2>4. ~Has(order, k)
    BY <1>1, <2>3, LimiterTypes
  <2>5. QED
    BY <1>1, <2>3, <2>4
<1>10. QED
  <2>1. \A i, j \in 1..(n - 1) : i < j =>
          \E a, b \in 1..Len(order) : a < b /\ after[i] = order[a] /\ after[j] = order[b]
    BY <1>7
  <2>2. \A i \in 1..(n - 1) : \E a \in 1..Len(order) : after[i] = order[a]
    BY <1>6
  <2>3. QED
    BY <1>4, <1>5, <1>6, <1>8, <1>9, <2>1, <2>2, Zenon DEF after

\* Who is evicted has seen MaxKeys other keys ask: those behind it, and the one
\* that takes its place.
LEMMA Crowd ==
  ASSUME NEW order \in Seq(Key), Distinct(order), Len(order) = MaxKeys, NEW k \in Key,
         ~Has(order, k), NEW S, IsFiniteSet(S), \A j \in 2..Len(order) : order[j] \in S
  PROVE  Cardinality(S \cup {k}) >= MaxKeys
<1> DEFINE T == S \cup {k}
           f == [j \in 1..MaxKeys |-> IF j = 1 THEN k ELSE order[j]]
<1>1. IsFiniteSet(T) /\ Cardinality(T) \in Nat
  BY FS_AddElement, FS_CardinalityType
<1>2. MaxKeys \in Nat \ {0} /\ Cardinality(1..MaxKeys) = MaxKeys
  BY LimiterTypes, FS_Interval
<1>3. f \in [1..MaxKeys -> T]
  BY <1>2
<1>4. \A i \in 1..Len(order) : order[i] # k
  BY DEF Has
<1>5. ASSUME NEW i \in 1..MaxKeys, NEW j \in 1..MaxKeys, i < j PROVE f[i] # f[j]
  <2>1. f[j] = order[j] /\ j \in 1..Len(order)
    BY <1>2, <1>5
  <2>2. CASE i = 1
    BY <1>4, <2>1, <2>2
  <2>3. CASE i # 1
    BY <1>5, <2>1, <2>3 DEF Distinct
  <2>4. QED
    BY <2>2, <2>3
<1> HIDE DEF f
<1>6. \A i, j \in 1..MaxKeys : f[i] = f[j] => i = j
  <2>1. \A i, j \in 1..MaxKeys : i < j \/ j < i \/ i = j
    BY <1>2
  <2>2. QED
    BY <1>5, <2>1
<1>7. f \in Injection(1..MaxKeys, T)
  BY <1>3, <1>6 DEF Injection, IsInjective
<1> HIDE DEF T
<1>8. Cardinality(1..MaxKeys) <= Cardinality(T)
  BY <1>1, <1>7, FS_Injection
<1>9. QED
  BY <1>1, <1>2, <1>8 DEF T

-----------------------------------------------------------------------------
(* The limiter and the meter                                               *)

\* The tokens the bucket of Mine would have, had nothing been rounded off since
\* its last request
Worth(b) == AtMost(FullNs, b.tokens * NsPerMs + b.idle)

\* While Mine has a bucket the meter has no less, and those behind it have asked
\* since it did; once it has lost it enough others have asked, unless it is full.
LimiterOK(bs, m) ==
  /\ bs \in [order : Seq(Key), mine : Bucket] /\ Len(bs.order) <= MaxKeys
  /\ Distinct(bs.order)
  /\ m \in Meter /\ IsFiniteSet(m.others) /\ m.exact >= 0
  /\ \A i \in 1..Len(bs.order) : bs.order[i] = Mine =>
       /\ m.exact >= Worth(bs.mine)
       /\ \A j \in 1..Len(bs.order) : i < j => bs.order[j] \in m.others
  /\ ~Has(bs.order, Mine) => m.exact = FullNs \/ Cardinality(m.others) >= MaxKeys

\* Rounding a time down to milliseconds never gains any.
LEMMA FloorBelow ==
  ASSUME NEW ns \in Nat
  PROVE  ns \div NsPerMs \in Nat /\ (ns \div NsPerMs) * NsPerMs <= ns
BY LimiterTypes, SMT

LEMMA Times ==
  ASSUME NEW a \in Int PROVE a * NsPerMs \in Int /\ (a >= 0 => a * NsPerMs >= 0)
BY LimiterTypes, SMT

LEMMA TimesSum ==
  ASSUME NEW a \in Int, NEW b \in Int
  PROVE  /\ (a + b) * NsPerMs = a * NsPerMs + b * NsPerMs
         /\ (a - b) * NsPerMs = a * NsPerMs - b * NsPerMs
BY LimiterTypes, SMT

LEMMA TimesMore ==
  ASSUME NEW a \in Int, NEW b \in Int, a <= b PROVE a * NsPerMs <= b * NsPerMs
BY LimiterTypes, SMT

\* What a request finds is worth no more than what was there.
LEMMA RefillOK ==
  ASSUME NEW b \in Bucket
  PROVE  /\ Refill(b) \in Bucket /\ Refill(b).idle = 0
         /\ Refill(b).tokens * NsPerMs <= Worth(b)
         /\ Refill(b).tokens * NsPerMs \in Int /\ Worth(b) \in Int
<1> DEFINE gain == b.idle \div NsPerMs
           tokens == AtMost(FullMs, b.tokens + gain)
<1>1. b.tokens \in 0..FullMs /\ b.idle \in Nat
  BY LimiterTypes DEF Bucket
<1>2. gain \in Nat /\ gain * NsPerMs <= b.idle
  BY <1>1, FloorBelow
<1> HIDE DEF gain
<1>3. /\ tokens \in 0..FullMs /\ tokens <= b.tokens + gain
      /\ tokens \in Int /\ b.tokens + gain \in Int /\ tokens <= FullMs /\ FullMs \in Int
  BY <1>1, <1>2, LimiterTypes DEF AtMost
<1>4. Refill(b) = [b EXCEPT !.tokens = tokens, !.idle = 0]
  BY DEF Refill, gain
<1> HIDE DEF tokens
<1>5. Refill(b) \in Bucket /\ Refill(b).tokens = tokens /\ Refill(b).idle = 0
  <2>1. tokens \in 0..FullMs /\ 0 \in 0..FullNs
    BY <1>3, LimiterTypes
  <2>2. QED
    BY <1>4, <2>1 DEF Bucket
<1>6. /\ tokens * NsPerMs <= (b.tokens + gain) * NsPerMs /\ tokens * NsPerMs \in Int
      /\ tokens * NsPerMs <= FullMs * NsPerMs
  BY <1>3, Times, TimesMore
<1>7. /\ (b.tokens + gain) * NsPerMs = b.tokens * NsPerMs + gain * NsPerMs
      /\ b.tokens * NsPerMs \in Int /\ gain * NsPerMs \in Int
  <2>1. b.tokens \in Int /\ gain \in Int
    BY <1>1, <1>2
  <2>2. QED
    BY <2>1, Times, TimesSum
<1>8. FullMs * NsPerMs = FullNs /\ FullNs \in Int
  BY LimiterTypes DEF FullNs
<1>9. tokens * NsPerMs <= Worth(b) /\ Worth(b) \in Int
  <2> DEFINE t == tokens * NsPerMs
             u == b.tokens * NsPerMs
             g == gain * NsPerMs
  <2>1. t \in Int /\ u \in Int /\ g \in Int /\ t <= u + g /\ t <= FullNs /\ g <= b.idle
    BY <1>2, <1>6, <1>7, <1>8
  <2>2. Worth(b) = AtMost(FullNs, u + b.idle)
    BY DEF Worth
  <2> HIDE DEF t, u, g
  <2>3. t <= AtMost(FullNs, u + b.idle) /\ AtMost(FullNs, u + b.idle) \in Int
    BY <1>1, <1>8, <2>1 DEF AtMost
  <2>4. QED
    BY <2>2, <2>3 DEF t
<1>10. QED
  BY <1>5, <1>6, <1>9

\* Mine asks: what it is allowed is paid for by the meter.
LEMMA MineAsks ==
  ASSUME NEW bs, NEW m, LimiterOK(bs, m)
  PROVE  LimiterOK(AfterRequest(bs, Mine), Charged(m, Allowed(bs)))
<1> DEFINE b == BucketFor(bs)
           order == Ordered(bs.order, Mine)
           n == Len(order)
           exact == IF Cardinality(m.others) >= MaxKeys THEN FullNs ELSE m.exact
           after == AfterRequest(bs, Mine)
           charged == Charged(m, Allowed(bs))
<1>1. /\ bs.order \in Seq(Key) /\ Distinct(bs.order) /\ Len(bs.order) <= MaxKeys
      /\ bs.mine \in Bucket /\ m.exact \in Int /\ m.exact >= 0
  BY DEF LimiterOK, Meter
<1>2. exact \in Int /\ FullNs \in Nat /\ FullMs \in Nat
  BY <1>1, LimiterTypes
<1>3. b \in Bucket /\ b.idle = 0 /\ b.tokens \in 0..FullMs /\ b.tokens * NsPerMs \in Int
        /\ exact >= b.tokens * NsPerMs
  <2>1. CASE Has(bs.order, Mine)
    <3>1. PICK i \in 1..Len(bs.order) : bs.order[i] = Mine
      BY <1>1, <2>1 DEF Has
    <3>2. m.exact >= Worth(bs.mine)
      BY <3>1 DEF LimiterOK
    <3>3. b = Refill(bs.mine)
      BY <2>1 DEF BucketFor
    <3>4. b \in Bucket /\ b.idle = 0 /\ b.tokens * NsPerMs <= Worth(bs.mine)
            /\ Worth(bs.mine) \in Int /\ b.tokens * NsPerMs \in Int
      BY <1>1, <3>3, RefillOK
    <3> HIDE DEF b
    <3>5. b.tokens \in 0..FullMs
      BY <3>4 DEF Bucket
    <3>6. b.tokens * NsPerMs <= FullMs * NsPerMs
      <4>1. b.tokens \in Int /\ FullMs \in Int /\ b.tokens <= FullMs
        BY <1>2, <3>5
      <4>2. QED
        BY <4>1, TimesMore
    <3>7. FullNs >= b.tokens * NsPerMs
      BY <1>2, <3>4, <3>6 DEF FullNs
    <3>8. m.exact >= b.tokens * NsPerMs
      BY <1>1, <3>2, <3>4
    <3>9. QED
      BY <3>4, <3>5, <3>7, <3>8
  <2>2. CASE ~Has(bs.order, Mine)
    <3>1. b = NewBucket
      BY <2>2 DEF BucketFor
    <3>2. b \in Bucket /\ b.idle = 0 /\ b.tokens = FullMs
      BY <1>2, <3>1 DEF NewBucket, Bucket
    <3>3. exact = FullNs
      BY <2>2 DEF LimiterOK
    <3>4. b.tokens * NsPerMs = FullNs
      BY <3>2 DEF FullNs
    <3> HIDE DEF b, exact
    <3>5. QED
      BY <1>2, <3>2, <3>3, <3>4
  <2>3. QED
    BY <2>1, <2>2
<1>4. Allowed(bs) <=> b.tokens >= RefillMs
  BY DEF Allowed, Allows
<1>5. after = [order |-> order, mine |-> Spend(b)]
  BY DEF AfterRequest
<1>6. charged = [exact |-> IF Allowed(bs) THEN exact - RefillMs * NsPerMs ELSE exact,
                 others |-> {}]
  BY DEF Charged
<1>7. /\ order \in Seq(Key) /\ n \in 1..MaxKeys /\ Distinct(order) /\ order[n] = Mine
      /\ \A i \in 1..(n - 1) : order[i] # Mine
  BY <1>1, LimiterTypes, OrderedOK
<1> HIDE DEF b, order, exact, after, charged
<1>8. /\ Spend(b) \in Bucket /\ Spend(b).idle = 0 /\ Spend(b).tokens \in Nat
      /\ charged.exact \in Int /\ charged.exact >= Spend(b).tokens * NsPerMs
      /\ Spend(b).tokens * NsPerMs \in Int
  <2>1. CASE Allowed(bs)
    <3>1. Spend(b) = [b EXCEPT !.tokens = b.tokens - RefillMs]
      BY <1>4, <2>1 DEF Spend, Allows
    <3>2. b.tokens - RefillMs \in 0..FullMs
      BY <1>2, <1>3, <1>4, <2>1, LimiterTypes
    <3>3. Spend(b) \in Bucket /\ Spend(b).tokens = b.tokens - RefillMs /\ Spend(b).idle = 0
      BY <1>3, <3>1, <3>2 DEF Bucket
    <3>4. /\ (b.tokens - RefillMs) * NsPerMs = b.tokens * NsPerMs - RefillMs * NsPerMs
          /\ RefillMs * NsPerMs \in Int
      <4>1. b.tokens \in Int /\ RefillMs \in Int
        BY <1>3, LimiterTypes
      <4>2. QED
        BY <4>1, Times, TimesSum
    <3>5. charged.exact = exact - RefillMs * NsPerMs
      BY <1>6, <2>1
    <3>6. QED
      BY <1>2, <1>3, <3>2, <3>3, <3>4, <3>5
  <2>2. CASE ~Allowed(bs)
    BY <1>2, <1>3, <1>4, <1>6, <2>2 DEF Spend, Allows
  <2>3. QED
    BY <2>1, <2>2
<1>9. charged.exact >= 0 /\ charged.exact >= Worth(Spend(b))
  <2> DEFINE t == Spend(b).tokens * NsPerMs
  <2>1. t \in Int /\ t >= 0 /\ charged.exact >= t
    <3>1. Spend(b).tokens \in Int /\ Spend(b).tokens >= 0
      BY <1>8
    <3>2. QED
      BY <1>8, <3>1, Times
  <2>2. Worth(Spend(b)) = AtMost(FullNs, t + 0)
    BY <1>8 DEF Worth
  <2> HIDE DEF t
  <2>3. QED
    BY <1>2, <1>8, <2>1, <2>2 DEF AtMost
<1>10. charged \in Meter /\ IsFiniteSet(charged.others)
  BY <1>6, <1>8, FS_EmptySet DEF Meter
<1>11. after.order = order /\ after.mine = Spend(b)
         /\ after \in [order : Seq(Key), mine : Bucket]
  BY <1>5, <1>7, <1>8
<1>12. Has(order, Mine)
  BY <1>7 DEF Has
<1>13. ASSUME NEW i \in 1..n, order[i] = Mine, NEW j \in 1..n, i < j PROVE FALSE
  BY <1>7, <1>13
<1>14. QED
  BY <1>7, <1>9, <1>10, <1>11, <1>12, <1>13 DEF LimiterOK, after, charged

\* Another key asks: either Mine keeps its place before the ones that have asked
\* since, or it goes, and enough have.
LEMMA OtherAsks ==
  ASSUME NEW bs, NEW m, LimiterOK(bs, m), NEW k \in Key \ {Mine}
  PROVE  LimiterOK(AfterRequest(bs, k), Passed(m, k))
<1> DEFINE order == Ordered(bs.order, k)
           n == Len(order)
           after == AfterRequest(bs, k)
           passed == Passed(m, k)
<1>1. /\ bs.order \in Seq(Key) /\ Distinct(bs.order) /\ Len(bs.order) <= MaxKeys
      /\ bs.mine \in Bucket /\ m.exact \in Int /\ m.exact >= 0 /\ k \in Key
      /\ m.others \subseteq Key /\ IsFiniteSet(m.others) /\ Mine \in Key
  BY LimiterTypes DEF LimiterOK, Meter
<1>2. /\ order \in Seq(Key) /\ n \in 1..MaxKeys /\ Distinct(order) /\ order[n] = k
      /\ \A i, j \in 1..(n - 1) : i < j =>
           \E a, b \in 1..Len(bs.order) :
             a < b /\ order[i] = bs.order[a] /\ order[j] = bs.order[b]
      /\ \A i \in 1..(n - 1) : \E a \in 1..Len(bs.order) : order[i] = bs.order[a]
      /\ \A x \in Key : Has(bs.order, x) /\ ~Has(order, x) =>
           Len(bs.order) = MaxKeys /\ bs.order[1] = x /\ ~Has(bs.order, k)
  BY <1>1, OrderedOK, ZenonT(60)
<1>3. after = [order |-> order, mine |-> IF Has(order, Mine) THEN bs.mine ELSE NewBucket]
  BY DEF AfterRequest
<1>4. passed = [m EXCEPT !.others = m.others \cup {k}]
  BY DEF Passed
<1>5. passed \in Meter /\ passed.exact = m.exact /\ passed.others = m.others \cup {k}
  BY <1>1, <1>4 DEF LimiterOK, Meter
<1>6. /\ IsFiniteSet(m.others \cup {k}) /\ Cardinality(m.others) \in Nat
      /\ Cardinality(m.others \cup {k}) \in Nat
      /\ Cardinality(m.others \cup {k}) >= Cardinality(m.others)
  <2>1. /\ IsFiniteSet(m.others \cup {k})
        /\ Cardinality(m.others \cup {k}) =
             IF k \in m.others THEN Cardinality(m.others) ELSE Cardinality(m.others) + 1
    BY <1>1, FS_AddElement
  <2>2. Cardinality(m.others) \in Nat
    BY <1>1, FS_CardinalityType
  <2>3. QED
    BY <2>1, <2>2
<1> HIDE DEF order, after, passed
<1>7. NewBucket \in Bucket
  BY LimiterTypes DEF NewBucket, Bucket
<1>8. /\ after.order = order /\ after \in [order : Seq(Key), mine : Bucket]
      /\ Has(order, Mine) => after.mine = bs.mine
  BY <1>1, <1>2, <1>3, <1>7
<1>9. ASSUME NEW i \in 1..n, order[i] = Mine
      PROVE  /\ passed.exact >= Worth(bs.mine)
             /\ \A j \in 1..n : i < j => order[j] \in passed.others
  <2>1. i \in 1..(n - 1) /\ n \in Nat
    BY <1>2, <1>9
  <2>2. PICK a \in 1..Len(bs.order) : bs.order[a] = Mine
    BY <1>2, <1>9, <2>1
  <2>3. m.exact >= Worth(bs.mine) /\ \A j \in 1..Len(bs.order) : a < j => bs.order[j] \in m.others
    BY <2>2 DEF LimiterOK
  <2>4. ASSUME NEW j \in 1..n, i < j PROVE order[j] \in passed.others
    <3>1. CASE j = n
      BY <1>2, <1>5, <3>1
    <3>2. CASE j # n
      <4>1. j \in 1..(n - 1)
        BY <2>1, <3>2
      <4>2. PICK c, d \in 1..Len(bs.order) :
              c < d /\ order[i] = bs.order[c] /\ order[j] = bs.order[d]
        BY <1>2, <2>1, <2>4, <4>1
      <4>3. bs.order[c] = Mine
        BY <1>9, <4>2
      <4>4. bs.order[d] \in m.others
        BY <4>2, <4>3 DEF LimiterOK
      <4>5. QED
        BY <1>5, <4>2, <4>4
    <3>3. QED
      BY <3>1, <3>2
  <2>5. QED
    BY <1>5, <2>3, <2>4
<1>10. ASSUME ~Has(order, Mine)
       PROVE  passed.exact = FullNs \/ Cardinality(passed.others) >= MaxKeys
  <2>1. CASE ~Has(bs.order, Mine)
    <3>1. m.exact = FullNs \/ Cardinality(m.others) >= MaxKeys
      BY <2>1 DEF LimiterOK
    <3>2. QED
      BY <1>5, <1>6, <3>1, LimiterTypes
  <2>2. CASE Has(bs.order, Mine)
    <3>1. Len(bs.order) = MaxKeys /\ bs.order[1] = Mine /\ ~Has(bs.order, k)
      BY <1>1, <1>2, <1>10, <2>2
    <3>2. 1 \in 1..Len(bs.order)
      BY <3>1, LimiterTypes
    <3>3. \A j \in 1..Len(bs.order) : 1 < j => bs.order[j] \in m.others
      BY <3>1, <3>2 DEF LimiterOK
    <3>4. \A j \in 2..Len(bs.order) : bs.order[j] \in m.others
      BY <3>3
    <3>5. QED
      BY <1>1, <1>5, <3>1, <3>4, Crowd
  <2>3. QED
    BY <2>1, <2>2
<1>11. ASSUME NEW i \in 1..n, order[i] = Mine PROVE after.mine = bs.mine
  BY <1>2, <1>8, <1>11 DEF Has
<1>12. QED
  BY <1>1, <1>2, <1>5, <1>6, <1>8, <1>9, <1>10, <1>11 DEF LimiterOK, after, passed

\* Time passes for both.
LEMMA AgedOK ==
  ASSUME NEW bs, NEW m, LimiterOK(bs, m)
  PROVE  LimiterOK(Aged(bs), Ticked(m))
<1> DEFINE b == [bs.mine EXCEPT !.idle = AtMost(@ + 1, FullNs)]
           e == AtMost(m.exact + 1, FullNs)
<1>1. /\ bs \in [order : Seq(Key), mine : Bucket] /\ bs.mine \in Bucket /\ m \in Meter
      /\ m.exact \in Int /\ m.exact >= 0 /\ FullNs \in Nat
  BY LimiterTypes DEF LimiterOK, Meter
<1>2. Ticked(m) \in Meter /\ Ticked(m).exact = e /\ Ticked(m).others = m.others
        /\ e \in Int /\ e >= 0 /\ (m.exact = FullNs => e = FullNs)
  BY <1>1 DEF Ticked, Meter, AtMost
<1>3. CASE ~Has(bs.order, Mine)
  <2>1. Aged(bs) = bs
    BY <1>3 DEF Aged
  <2>2. \A i \in 1..Len(bs.order) : bs.order[i] # Mine
    BY <1>1, <1>3 DEF Has
  <2> HIDE DEF e
  <2>3. QED
    BY <1>2, <1>3, <2>1, <2>2 DEF LimiterOK
<1>4. CASE Has(bs.order, Mine)
  <2>1. Aged(bs) = [bs EXCEPT !.mine.idle = AtMost(@ + 1, FullNs)]
    BY <1>4 DEF Aged
  <2>2. b \in Bucket /\ b.tokens = bs.mine.tokens /\ b.idle = AtMost(bs.mine.idle + 1, FullNs)
    BY <1>1 DEF Bucket, AtMost
  <2>3. Aged(bs) = [bs EXCEPT !.mine = b]
    BY <1>1, <2>1
  <2>4. Aged(bs) \in [order : Seq(Key), mine : Bucket] /\ Aged(bs).order = bs.order
          /\ Aged(bs).mine = b
    BY <1>1, <2>2, <2>3
  <2>5. m.exact >= Worth(bs.mine) => e >= Worth(b)
    <3> DEFINE t == bs.mine.tokens * NsPerMs
    <3>1. t \in Int /\ t >= 0 /\ bs.mine.idle \in Nat
      <4>1. bs.mine.tokens \in Int /\ bs.mine.tokens >= 0 /\ bs.mine.idle \in Nat
        BY <1>1, LimiterTypes DEF Bucket
      <4>2. QED
        BY <4>1, Times
    <3>2. Worth(bs.mine) = AtMost(FullNs, t + bs.mine.idle)
            /\ Worth(b) = AtMost(FullNs, t + AtMost(bs.mine.idle + 1, FullNs))
      BY <2>2 DEF Worth
    <3> HIDE DEF t, b
    <3>3. QED
      BY <1>1, <3>1, <3>2 DEF AtMost
  <2> HIDE DEF b, e
  <2>6. QED
    BY <1>2, <1>4, <2>4, <2>5 DEF LimiterOK
<1>5. QED
  BY <1>3, <1>4

-----------------------------------------------------------------------------
(* The loop and the server.  An illegal move is outstanding from its choice  *)
(* until the server has applied or refused it; what is outstanding and what  *)
(* has struck never exceed what was chosen.                                  *)

Counted(move) == ~move.legal /\ move.game = game.id

LateCounted == {move \in late : Counted(move)}

Pending == call # NoTurn /\ call.kind = "move" /\ call.stage \in {"sent", "admitted"}

Outstanding == Cardinality(LateCounted) + (IF Pending /\ Counted(call.of) THEN 1 ELSE 0)

StrikesCovered == illegal = StrikeLimit \/ game.strikes + Outstanding <= illegal

\* No request is about a game that has not begun.
NothingAhead ==
  /\ \A move \in late : move.game <= game.id
  /\ call # NoTurn /\ call.kind = "move" => call.of \in Move /\ call.of.game <= game.id
  /\ call # NoTurn /\ call.stage = "turn" => call.of \in Turn /\ call.of.game <= game.id
  /\ call # NoTurn /\ call.kind = "poll" => call.stage # "done"
  /\ loop.pc = "think" => loop.turn \in Turn /\ loop.turn.game <= game.id

GameShape == ~game.over => game.ply < MaxPly /\ game.strikes < StrikeLimit

IInv ==
  /\ TypeOK /\ IsFiniteSet(late) /\ LimiterOK(buckets, meter)
  /\ NothingAhead /\ GameShape /\ StrikesCovered

LEMMA ClientTypes ==
  /\ Mine \in Key /\ InitialBackoff \in Nat \ {0} /\ MaxBackoff \in Nat \ {0}
  /\ IdleSleep \in Nat \ {0} /\ RetryAfter \in Nat \ {0} /\ StrikeLimit \in Nat \ {0}
  /\ InitialBackoff <= MaxBackoff /\ MaxGame \in Nat \ {0} /\ MaxPly \in Nat \ {0}
  /\ MaxLate \in Nat
  BY ClientAssumption, LimiterAssumption

LoopType ==
  [pc : {"poll", "wait", "think", "sleep", "stopped"},
   backoff : InitialBackoff..MaxBackoff, sleep : Nat, turn : Turn \cup {NoTurn}]

GameType == [id : 1..MaxGame, ply : 0..MaxPly, over : BOOLEAN, strikes : 0..StrikeLimit]

LEMMA TypeParts ==
  TypeOK <=> /\ loop \in LoopType
             /\ call \in Call \cup {NoTurn}
             /\ late \in SUBSET Move /\ Cardinality(late) <= MaxLate
             /\ game \in GameType
             /\ buckets \in [order : Seq(Key), mine : Bucket]
             /\ Len(buckets.order) <= MaxKeys /\ meter \in Meter
             /\ illegal \in 0..StrikeLimit
  BY DEF TypeOK, LoopType, GameType

LEMMA TypeNext ==
  ASSUME loop' \in LoopType, call' \in Call \cup {NoTurn},
         late' \in SUBSET Move, Cardinality(late') <= MaxLate, game' \in GameType,
         LimiterOK(buckets', meter'), illegal' \in 0..StrikeLimit
  PROVE  TypeOK'
  BY DEF TypeOK, LoopType, GameType, LimiterOK

\* One element more or less.
LEMMA OneMore ==
  ASSUME NEW S, IsFiniteSet(S), NEW e
  PROVE  /\ IsFiniteSet(S \cup {e}) /\ Cardinality(S) \in Nat
         /\ Cardinality(S \cup {e}) \in Nat /\ Cardinality(S \cup {e}) <= Cardinality(S) + 1
<1>1. Cardinality(S) \in Nat
  BY FS_CardinalityType
<1>2. IsFiniteSet(S \cup {e})
  BY FS_AddElement
<1>3. Cardinality(S \cup {e}) = IF e \in S THEN Cardinality(S) ELSE Cardinality(S) + 1
  BY FS_AddElement
<1>4. QED
  BY <1>1, <1>2, <1>3

LEMMA OneLess ==
  ASSUME NEW S, IsFiniteSet(S), NEW e
  PROVE  /\ IsFiniteSet(S \ {e}) /\ Cardinality(S) \in Nat /\ Cardinality(S \ {e}) \in Nat
         /\ Cardinality(S \ {e}) = IF e \in S THEN Cardinality(S) - 1 ELSE Cardinality(S)
<1>1. Cardinality(S) \in Nat
  BY FS_CardinalityType
<1>2. IsFiniteSet(S \ {e})
  BY FS_RemoveElement
<1>3. Cardinality(S \ {e}) = IF e \in S THEN Cardinality(S) - 1 ELSE Cardinality(S)
  BY FS_RemoveElement
<1>4. Cardinality(S \ {e}) \in Nat
  BY <1>2, FS_CardinalityType
<1>5. QED
  BY <1>1, <1>2, <1>3, <1>4

LEMMA InitEstablishes == Init => IInv
<1> SUFFICES ASSUME Init PROVE IInv
  OBVIOUS
<1>1. Cardinality({}) = 0 /\ IsFiniteSet({})
  BY FS_EmptySet
<1>2. LimiterOK(buckets, meter)
  <2>1. /\ buckets = NoBuckets /\ meter = NewMeter /\ NewBucket \in Bucket
    BY LimiterTypes DEF Init, NewBucket, Bucket
  <2>2. /\ buckets \in [order : Seq(Key), mine : Bucket] /\ Len(buckets.order) = 0
        /\ buckets.order = <<>>
    BY <2>1 DEF NoBuckets
  <2>3. meter \in Meter /\ IsFiniteSet(meter.others) /\ meter.exact = FullNs
    BY <1>1, <2>1, LimiterTypes DEF NewMeter, Meter
  <2>4. QED
    BY <2>2, <2>3, LimiterTypes DEF LimiterOK, Distinct
<1>3. loop \in LoopType /\ game \in GameType
  BY ClientTypes DEF Init, LoopType, GameType
<1>4. TypeOK
  BY <1>1, <1>2, <1>3, ClientTypes, LimiterTypes, TypeParts DEF Init, LimiterOK
<1>5. LateCounted = {}
  BY DEF Init, LateCounted
<1>6. Outstanding = 0
  BY <1>1, <1>5 DEF Init, Outstanding, Pending
<1>7. QED
  BY <1>1, <1>2, <1>4, <1>6, ClientTypes
  DEF Init, IInv, NothingAhead, GameShape, StrikesCovered

\* How many late moves count.
LEMMA LateCount ==
  ASSUME IInv
  PROVE  /\ IsFiniteSet(LateCounted) /\ Cardinality(LateCounted) \in Nat
         /\ Outstanding \in Nat
<1>1. IsFiniteSet(LateCounted)
  BY FS_Subset DEF IInv, LateCounted
<1>2. Cardinality(LateCounted) \in Nat
  BY <1>1, FS_CardinalityType
<1>3. QED
  BY <1>1, <1>2 DEF Outstanding

\* A step of the client that keeps the game and lets nothing new out.
LEMMA Covered ==
  ASSUME IInv, UNCHANGED <<late, game, illegal>>, Pending' => UNCHANGED call
  PROVE  StrikesCovered'
<1>1. LateCounted' = LateCounted
  BY DEF LateCounted, Counted
<1>2. Outstanding' <= Outstanding /\ Outstanding' \in Nat
  <2>1. Pending' /\ Counted(call.of)' => Pending /\ Counted(call.of)
    BY DEF Pending, Counted
  <2>2. QED
    BY <1>1, <2>1, LateCount DEF Outstanding
<1>3. game.strikes \in Int /\ illegal \in Int
  BY TypeParts, ClientTypes DEF IInv, GameType
<1>4. QED
  BY <1>2, <1>3, LateCount DEF IInv, StrikesCovered

LEMMA LoopSteps ==
  ASSUME loop \in LoopType
  PROVE  /\ \A pc \in {"poll", "wait", "stopped"} : [loop EXCEPT !.pc = pc] \in LoopType
         /\ \A t \in Nat : Sleeping(loop, t) \in LoopType
         /\ BackingOff(loop) \in LoopType
         /\ Polled(loop) \in LoopType
         /\ \A t \in Turn : [Polled(loop) EXCEPT !.pc = "think", !.turn = t] \in LoopType
<1>1. \A pc \in {"poll", "wait", "stopped"} : [loop EXCEPT !.pc = pc] \in LoopType
  BY DEF LoopType
<1>2. ASSUME NEW l \in LoopType, NEW t \in Nat PROVE Sleeping(l, t) \in LoopType
  BY DEF LoopType, Sleeping
<1>3. AtMost(2 * loop.backoff, MaxBackoff) \in InitialBackoff..MaxBackoff /\ loop.backoff \in Nat
  BY ClientTypes DEF LoopType, AtMost
<1>4. BackingOff(loop) \in LoopType
  <2>1. Sleeping(loop, loop.backoff) \in LoopType
    BY <1>2, <1>3
  <2>2. Sleeping(loop, loop.backoff).backoff = loop.backoff
    BY DEF LoopType, Sleeping
  <2>3. ASSUME NEW l \in LoopType, NEW b \in InitialBackoff..MaxBackoff
        PROVE [l EXCEPT !.backoff = b] \in LoopType
    BY DEF LoopType
  <2>4. BackingOff(loop) =
          [Sleeping(loop, loop.backoff) EXCEPT !.backoff = AtMost(2 * loop.backoff, MaxBackoff)]
    BY <2>2 DEF BackingOff
  <2>5. QED
    BY <1>3, <2>1, <2>3, <2>4
<1>5. Polled(loop) \in LoopType
  BY ClientTypes DEF LoopType, Polled
<1>6. ASSUME NEW l \in LoopType, NEW t \in Turn
      PROVE [l EXCEPT !.pc = "think", !.turn = t] \in LoopType
  BY DEF LoopType
<1>7. QED
  BY <1>1, <1>2, <1>4, <1>5, <1>6

\* What a submission does to the game: a strike only for a move that counts.
LEMMA PlayedOK ==
  ASSUME IInv, NEW move \in Move, game' = Played(game, move)
  PROVE  /\ game' \in GameType /\ game'.id = game.id /\ GameShape'
         /\ \/ game'.strikes = game.strikes
            \/ game'.strikes = game.strikes + 1 /\ Counted(move)
<1>1. game \in GameType /\ GameShape
  BY TypeParts DEF IInv
<1>2. CASE game.over \/ game.id # move.game \/ game.ply # move.ply
  BY <1>1, <1>2 DEF Played, GameShape
<1>3. CASE ~(game.over \/ game.id # move.game \/ game.ply # move.ply) /\ move.legal
  <2>1. game' = [game EXCEPT !.ply = @ + 1, !.over = game.ply + 1 = MaxPly]
    BY <1>3 DEF Played
  <2>2. game.ply + 1 \in 0..MaxPly /\ (game.ply + 1 = MaxPly) \in BOOLEAN
    BY <1>1, <1>3, ClientTypes DEF GameShape, GameType
  <2>3. /\ game' \in GameType /\ game'.id = game.id /\ game'.strikes = game.strikes
        /\ game'.ply = game.ply + 1 /\ game'.over = (game.ply + 1 = MaxPly)
    BY <1>1, <2>1, <2>2 DEF GameType
  <2>4. game.strikes < StrikeLimit /\ game.ply + 1 <= MaxPly
    BY <1>1, <1>3, <2>2 DEF GameShape
  <2>5. ~game'.over => game.ply + 1 # MaxPly
    BY <2>3
  <2>6. GameShape'
    BY <2>2, <2>3, <2>4, <2>5, ClientTypes DEF GameShape
  <2>7. QED
    BY <2>3, <2>6
<1>4. CASE ~(game.over \/ game.id # move.game \/ game.ply # move.ply) /\ ~move.legal
  <2>1. game' = [game EXCEPT !.strikes = @ + 1, !.over = game.strikes + 1 = StrikeLimit]
    BY <1>4 DEF Played
  <2>2. game.strikes + 1 \in 0..StrikeLimit /\ (game.strikes + 1 = StrikeLimit) \in BOOLEAN
    BY <1>1, <1>4, ClientTypes DEF GameShape, GameType
  <2>3. /\ game' \in GameType /\ game'.id = game.id /\ game'.strikes = game.strikes + 1
        /\ game'.ply = game.ply /\ game'.over = (game.strikes + 1 = StrikeLimit)
    BY <1>1, <2>1, <2>2 DEF GameType
  <2>4. game.ply < MaxPly /\ game.strikes + 1 <= StrikeLimit
    BY <1>1, <1>4, <2>2 DEF GameShape
  <2>5. Counted(move)
    BY <1>4 DEF Counted
  <2>6. ~game'.over => game.strikes + 1 # StrikeLimit
    BY <2>3
  <2>7. GameShape'
    BY <2>2, <2>3, <2>4, <2>6, ClientTypes DEF GameShape
  <2>8. QED
    BY <2>3, <2>5, <2>7
<1>5. QED
  BY <1>2, <1>3, <1>4

\* The facts of the invariant in the form the steps use them.
LEMMA Facts ==
  ASSUME IInv
  PROVE  /\ loop \in LoopType /\ game \in GameType /\ illegal \in 0..StrikeLimit
         /\ call \in Call \cup {NoTurn} /\ late \in SUBSET Move /\ IsFiniteSet(late)
         /\ game.id \in Nat /\ game.strikes \in Nat /\ illegal \in Nat
         /\ Cardinality(late) <= MaxLate /\ LimiterOK(buckets, meter)
         /\ NothingAhead /\ GameShape
<1>1. /\ loop \in LoopType /\ game \in GameType /\ illegal \in 0..StrikeLimit
      /\ call \in Call \cup {NoTurn} /\ late \in SUBSET Move
      /\ Cardinality(late) <= MaxLate
  BY TypeParts DEF IInv
<1>2. game.id \in Nat /\ game.strikes \in Nat /\ illegal \in Nat
  BY <1>1, ClientTypes DEF GameType
<1>3. QED
  BY <1>1, <1>2 DEF IInv

LEMMA ClientSteps ==
  ASSUME IInv, SendPoll \/ Choose \/ Receive \/ GiveUp PROVE IInv'
<1> USE Facts
<1>1. CASE SendPoll
  <2>1. loop' \in LoopType /\ loop'.pc = "wait"
    BY <1>1, LoopSteps DEF SendPoll, LoopType
  <2>2. call' \in Call /\ call'.kind = "poll" /\ call'.stage = "sent"
    BY <1>1 DEF SendPoll, Call
  <2>3. StrikesCovered'
    BY <1>1, <2>2, Covered DEF SendPoll, Pending
  <2>4. TypeOK'
    BY <1>1, <2>1, <2>2, TypeNext DEF SendPoll
  <2>5. QED
    BY <1>1, <2>1, <2>2, <2>3, <2>4 DEF SendPoll, IInv, NothingAhead, GameShape
<1>2. CASE Choose
  <2>1. loop.turn \in Turn /\ loop.turn.game <= game.id
    BY <1>2 DEF Choose, NothingAhead
  <2>2. PICK legal \in BOOLEAN :
          /\ call' = [kind |-> "move", stage |-> "sent",
                      of |-> [game |-> loop.turn.game, ply |-> loop.turn.ply, legal |-> legal]]
          /\ illegal' = IF legal \/ loop.turn.game # game.id THEN illegal
                        ELSE AtMost(illegal + 1, StrikeLimit)
    BY <1>2 DEF Choose
  <2> DEFINE m == [game |-> loop.turn.game, ply |-> loop.turn.ply, legal |-> legal]
  <2>3. m \in Move /\ m.game <= game.id /\ m.legal = legal /\ m.game = loop.turn.game
    BY <2>1 DEF Turn, Move
  <2>4. /\ call' \in Call /\ call'.kind = "move" /\ call'.stage = "sent" /\ call'.of = m
    BY <2>2, <2>3 DEF Call
  <2>5. loop' \in LoopType /\ loop'.pc = "wait"
    BY <1>2 DEF Choose, LoopType
  <2>6. illegal' \in 0..StrikeLimit
    BY <2>2, ClientTypes DEF AtMost
  <2>7. StrikesCovered'
    <3>1. LateCounted' = LateCounted /\ UNCHANGED game
      BY <1>2 DEF Choose, LateCounted, Counted
    <3>2. CASE Counted(m)
      <4>1. illegal' = AtMost(illegal + 1, StrikeLimit)
        BY <2>2, <2>3, <3>2 DEF Counted
      <4>2. Outstanding' <= Outstanding + 1 /\ Outstanding' \in Nat
        BY <3>1, LateCount DEF Outstanding
      <4>3. QED
        BY <3>1, <4>1, <4>2, LateCount, ClientTypes DEF IInv, StrikesCovered, AtMost
    <3>3. CASE ~Counted(m)
      <4>1. ~Counted(call.of)'
        BY <2>4, <3>1, <3>3 DEF Counted
      <4>2. Outstanding' <= Outstanding /\ Outstanding' \in Nat
        BY <3>1, <4>1, LateCount DEF Outstanding
      <4>3. illegal' = illegal
        BY <2>2, <2>3, <3>3 DEF Counted
      <4>4. QED
        BY <3>1, <4>2, <4>3, LateCount DEF IInv, StrikesCovered
    <3>4. QED
      BY <3>2, <3>3
  <2>8. TypeOK'
    BY <1>2, <2>4, <2>5, <2>6, TypeNext DEF Choose
  <2>9. QED
    BY <1>2, <2>3, <2>4, <2>5, <2>7, <2>8 DEF Choose, IInv, NothingAhead, GameShape
<1>3. CASE Receive
  <2>1. call \in Call /\ call.stage \in Answer /\ call' = NoTurn
    BY <1>3 DEF Receive
  <2>2. loop' \in LoopType /\ (loop'.pc = "think" => loop'.turn \in Turn /\ loop'.turn.game <= game.id)
    <3>1. CASE call.kind = "poll"
      <4>1. call.stage # "done" /\ (call.stage = "turn" => call.of \in Turn /\ call.of.game <= game.id)
        BY <1>3, <3>1 DEF Receive, NothingAhead
      <4>2. loop' = AfterPoll(loop, call)
        BY <1>3, <3>1 DEF Receive
      <4>3. CASE call.stage = "turn"
        <5>1. loop' = [Polled(loop) EXCEPT !.pc = "think", !.turn = call.of]
          BY <4>2, <4>3 DEF AfterPoll
        <5>2. loop' \in LoopType
          BY <4>1, <4>3, <5>1, LoopSteps
        <5>3. loop'.turn = call.of
          BY <5>1, LoopSteps DEF LoopType
        <5>4. QED
          BY <4>1, <4>3, <5>2, <5>3
      <4>4. CASE call.stage = "nothing"
        <5>1. loop' = Sleeping(Polled(loop), IdleSleep)
          BY <4>2, <4>4 DEF AfterPoll
        <5>2. loop' \in LoopType /\ loop'.pc = "sleep"
          BY <5>1, LoopSteps, ClientTypes, ZenonT(40) DEF LoopType, Sleeping
        <5>3. QED
          BY <5>2
      <4>5. CASE call.stage = "limited"
        <5>1. loop' = Sleeping(loop, RetryAfter)
          BY <4>2, <4>5 DEF AfterPoll
        <5>2. loop' \in LoopType /\ loop'.pc = "sleep"
          BY <5>1, LoopSteps, ClientTypes, ZenonT(40) DEF LoopType, Sleeping
        <5>3. QED
          BY <5>2
      <4>6. CASE call.stage = "failed"
        <5>1. loop' = BackingOff(loop)
          BY <4>2, <4>6 DEF AfterPoll
        <5>2. BackingOff(loop).pc = "sleep"
          BY DEF LoopType, BackingOff, Sleeping
        <5>3. QED
          BY <5>1, <5>2, LoopSteps
      <4>7. CASE call.stage = "refused"
        <5>1. loop' = [loop EXCEPT !.pc = "stopped"]
          BY <4>2, <4>7 DEF AfterPoll
        <5>2. loop' \in LoopType /\ loop'.pc = "stopped"
          BY <5>1, LoopSteps, ZenonT(40) DEF LoopType
        <5>3. QED
          BY <5>2
      <4>8. QED
        BY <2>1, <4>1, <4>3, <4>4, <4>5, <4>6, <4>7 DEF Answer
    <3>2. CASE call.kind = "move"
      <4>1. \/ loop' = Sleeping(loop, RetryAfter)
            \/ loop' = [loop EXCEPT !.pc = "stopped"]
            \/ loop' = [loop EXCEPT !.pc = "poll"]
        BY <1>3, <3>2 DEF Receive, AfterMove
      <4>2. loop' \in LoopType
        BY <4>1, LoopSteps, ClientTypes
      <4>3. loop'.pc # "think"
        BY <4>1 DEF Sleeping, LoopType
      <4>4. QED
        BY <4>2, <4>3
    <3>3. QED
      BY <2>1, <3>1, <3>2 DEF Call
  <2>3. StrikesCovered'
    BY <1>3, <2>1, Covered DEF Receive, Pending
  <2>4. TypeOK'
    BY <1>3, <2>1, <2>2, TypeNext DEF Receive
  <2>5. QED
    BY <1>3, <2>1, <2>2, <2>3, <2>4 DEF Receive, IInv, NothingAhead, GameShape
<1>4. CASE GiveUp
  <2>1. call \in Call /\ call' = NoTurn /\ UNCHANGED <<game, buckets, meter, illegal>> /\ call # NoTurn
    BY <1>4 DEF GiveUp
  <2>2. loop' \in LoopType /\ loop'.pc # "think"
    <3>1. loop' = [loop EXCEPT !.pc = "poll"] \/ loop' = BackingOff(loop)
      BY <1>4 DEF GiveUp
    <3>2. BackingOff(loop).pc = "sleep" /\ [loop EXCEPT !.pc = "poll"].pc = "poll"
      BY DEF LoopType, BackingOff, Sleeping
    <3>3. QED
      BY <3>1, <3>2, LoopSteps
  <2>3. CASE late' = late
    <3>1. StrikesCovered'
      BY <2>1, <2>3, Covered DEF Pending
    <3>2. TypeOK'
      BY <2>1, <2>2, <2>3, TypeNext
    <3>3. QED
      BY <2>1, <2>2, <2>3, <3>1, <3>2 DEF IInv, NothingAhead, GameShape
  <2>4. CASE /\ call.kind = "move" /\ call.stage \in {"sent", "admitted"}
             /\ Cardinality(late) < MaxLate
             /\ late' = late \cup {call.of}
    <3> DEFINE m == call.of
    <3>1. m \in Move /\ m.game <= game.id
      BY <2>1, <2>4 DEF NothingAhead
    <3>2. /\ IsFiniteSet(late') /\ Cardinality(late') <= Cardinality(late) + 1
          /\ Cardinality(late) \in Nat /\ Cardinality(late') \in Nat
      BY <2>4, OneMore
    <3>3. StrikesCovered'
      <4>1. CASE Counted(m)
        <5>1. LateCounted' = LateCounted \cup {m}
          BY <2>1, <2>4, <4>1 DEF LateCounted, Counted
        <5>2. Cardinality(LateCounted') <= Cardinality(LateCounted) + 1
          BY <5>1, LateCount, OneMore
        <5>3. Cardinality(LateCounted') \in Nat
          BY <5>1, LateCount, OneMore
        <5>4. Outstanding = Cardinality(LateCounted) + 1
          BY <2>1, <2>4, <4>1 DEF Outstanding, Pending
        <5>5. Outstanding' = Cardinality(LateCounted')
          BY <2>1, <5>3 DEF Outstanding, Pending
        <5>6. QED
          BY <2>1, <5>2, <5>3, <5>4, <5>5, LateCount DEF IInv, StrikesCovered
      <4>2. CASE ~Counted(m)
        <5>1. LateCounted' = LateCounted
          BY <2>1, <2>4, <4>2 DEF LateCounted, Counted
        <5>2. Outstanding' <= Outstanding /\ Outstanding' \in Nat
          BY <2>1, <5>1, LateCount DEF Outstanding, Pending
        <5>3. QED
          BY <2>1, <5>2, LateCount DEF IInv, StrikesCovered
      <4>3. QED
        BY <4>1, <4>2
    <3>4. TypeOK'
      BY <2>1, <2>2, <2>4, <3>1, <3>2, ClientTypes, TypeNext
    <3>5. QED
      BY <2>1, <2>2, <2>4, <3>1, <3>2, <3>3, <3>4 DEF IInv, NothingAhead, GameShape
  <2>5. QED
    BY <1>4, <2>3, <2>4 DEF GiveUp
<1>5. QED
  BY <1>1, <1>2, <1>3, <1>4

\* A step that answers the request, and does nothing else but use the limiter.
LEMMA AnswerOnly ==
  ASSUME IInv, UNCHANGED <<loop, late, game, illegal>>, call' \in Call,
         LimiterOK(buckets', meter'),
         call'.kind = "move" => /\ call.kind = "move" /\ call # NoTurn
                                /\ call'.of = call.of
                                /\ call.stage \in {"sent", "admitted"},
         call'.stage = "turn" => call'.of \in Turn /\ call'.of.game <= game.id,
         call'.kind = "poll" => call'.stage # "done"
  PROVE  IInv'
<1> USE Facts
<1>1. StrikesCovered'
  <2>1. LateCounted' = LateCounted
    BY DEF LateCounted, Counted
  <2>2. Pending' /\ Counted(call.of)' => Pending /\ Counted(call.of)
    BY DEF Pending, Counted
  <2>3. Outstanding' <= Outstanding /\ Outstanding' \in Nat
    BY <2>1, <2>2, LateCount DEF Outstanding
  <2>4. QED
    BY <2>3, LateCount DEF IInv, StrikesCovered
<1>3. TypeOK'
  BY TypeNext
<1>4. NothingAhead'
  BY DEF NothingAhead
<1>5. QED
  BY <1>1, <1>3, <1>4 DEF IInv, GameShape

LEMMA CallKept ==
  ASSUME NEW c \in Call, NEW stage \in {"sent", "admitted"} \cup Answer
  PROVE  /\ [c EXCEPT !.stage = stage] \in Call
         /\ [c EXCEPT !.stage = stage].kind = c.kind
         /\ [c EXCEPT !.stage = stage].of = c.of
         /\ [c EXCEPT !.stage = stage].stage = stage
  BY DEF Call

LEMMA ServerSteps ==
  ASSUME IInv,
         \/ Admit \/ AnswerTurn \/ AnswerNothing \/ AnswerMove
         \/ \E stage \in {"failed", "refused"} : Fail(stage)
  PROVE  IInv'
<1> USE Facts
<1>a. LimiterOK(buckets, meter)
  BY DEF IInv
<1>1. CASE Admit
  <2>1. call \in Call /\ call # NoTurn /\ call.stage = "sent"
    BY <1>1 DEF Admit
  <2>2. PICK stage \in {"admitted", "limited"} : call' = [call EXCEPT !.stage = stage]
    BY <1>1 DEF Admit
  <2>3. LimiterOK(buckets', meter')
    BY <1>1, MineAsks DEF Admit
  <2>4. stage \in {"sent", "admitted"} \cup Answer /\ stage # "turn" /\ stage # "done"
    BY <2>2 DEF Answer
  <2>5. call' \in Call /\ call'.kind = call.kind /\ call'.of = call.of /\ call'.stage = stage
    BY <2>1, <2>2, <2>4, CallKept
  <2>6. QED
    BY <1>1, <2>1, <2>3, <2>4, <2>5, AnswerOnly DEF Admit
<1>2. CASE AnswerTurn
  <2>1. call \in Call /\ call # NoTurn /\ call.kind = "poll" /\ ~game.over
    BY <1>2 DEF AnswerTurn, MyTurn
  <2> DEFINE t == [game |-> game.id, ply |-> game.ply]
  <2>2. t \in Turn /\ t.game = game.id
    BY DEF Turn, GameType
  <2>3. call' = [call EXCEPT !.stage = "turn", !.of = t]
    BY <1>2 DEF AnswerTurn
  <2>4. call' \in Call /\ call'.kind = "poll" /\ call'.of = t /\ call'.stage = "turn"
    BY <2>1, <2>2, <2>3 DEF Call, Answer
  <2>5. LimiterOK(buckets', meter') /\ UNCHANGED <<loop, late, game, illegal>>
    BY <1>2, <1>a DEF AnswerTurn
  <2>6. QED
    BY <2>2, <2>4, <2>5, AnswerOnly
<1>3. CASE AnswerNothing
  <2>1. call \in Call /\ call # NoTurn /\ call.kind = "poll"
    BY <1>3 DEF AnswerNothing
  <2>2. call' \in Call /\ call'.kind = "poll" /\ call'.stage = "nothing"
    BY <1>3, <2>1, CallKept DEF AnswerNothing, Answer
  <2>3. LimiterOK(buckets', meter') /\ UNCHANGED <<loop, late, game, illegal>>
    BY <1>3, <1>a DEF AnswerNothing
  <2>4. QED
    BY <2>2, <2>3, AnswerOnly
<1>4. CASE AnswerMove
  <2>1. call \in Call /\ call # NoTurn /\ call.kind = "move" /\ call.stage = "admitted"
    BY <1>4 DEF AnswerMove
  <2>2. call.of \in Move /\ call.of.game <= game.id
    BY <2>1 DEF NothingAhead
  <2>3. call' \in Call /\ call'.kind = "move" /\ call'.stage = "done" /\ call'.of = call.of
    BY <1>4, <2>1, CallKept DEF AnswerMove, Answer
  <2>4. PICK m \in Move : m = call.of
    BY <2>2
  <2>5. game' = Played(game, m)
    BY <1>4, <2>4 DEF AnswerMove
  <2>6. /\ game' \in GameType /\ game'.id = game.id /\ GameShape'
        /\ \/ game'.strikes = game.strikes
           \/ game'.strikes = game.strikes + 1 /\ Counted(m)
    BY <2>5, PlayedOK
  <2>7. UNCHANGED <<loop, late, buckets, meter, illegal>>
    BY <1>4 DEF AnswerMove
  <2>8. StrikesCovered'
    <3>1. LateCounted' = LateCounted
      BY <2>6, <2>7 DEF LateCounted, Counted
    <3>2. Outstanding' = Cardinality(LateCounted)
      BY <2>3, <3>1, LateCount DEF Outstanding, Pending
    <3>3. Counted(m) => Outstanding = Cardinality(LateCounted) + 1
      BY <2>1, <2>4 DEF Outstanding, Pending
    <3>4. Outstanding >= Cardinality(LateCounted)
      BY LateCount DEF Outstanding
    <3>5. game'.strikes + Outstanding' <= game.strikes + Outstanding /\ game'.strikes \in Nat
      BY <2>6, <3>2, <3>3, <3>4, LateCount
    <3>6. QED
      BY <2>7, <3>2, <3>5, LateCount DEF IInv, StrikesCovered
  <2>9. TypeOK'
    BY <2>3, <2>6, <2>7, TypeNext
  <2>10. NothingAhead'
    BY <2>2, <2>3, <2>6, <2>7 DEF NothingAhead
  <2>11. QED
    BY <1>a, <2>6, <2>7, <2>8, <2>9, <2>10 DEF IInv
<1>5. ASSUME NEW stage \in {"failed", "refused"}, Fail(stage) PROVE IInv'
  <2>1. call \in Call /\ call # NoTurn /\ call.stage \in {"sent", "admitted"}
    BY <1>5 DEF Fail
  <2>2. call' \in Call /\ call'.kind = call.kind /\ call'.of = call.of /\ call'.stage = stage
    BY <1>5, <2>1, CallKept DEF Fail, Answer
  <2>3. LimiterOK(buckets', meter') /\ UNCHANGED <<loop, late, game, illegal>>
    BY <1>5, <1>a DEF Fail
  <2>4. QED
    BY <1>5, <2>1, <2>2, <2>3, AnswerOnly
<1>6. QED
  BY <1>1, <1>2, <1>3, <1>4, <1>5

LEMMA OtherSteps ==
  ASSUME IInv,
         \/ \E move \in late : ArriveLate(move)
         \/ OpponentMoves \/ NextGame \/ OtherRequest \/ Pass
  PROVE  IInv'
<1> USE Facts
<1>a. LimiterOK(buckets, meter) /\ StrikesCovered
  BY DEF IInv
<1>1. ASSUME NEW move \in late, ArriveLate(move) PROVE IInv'
  <2>1. PICK m \in Move : m = move
    OBVIOUS
  <2>2. /\ game' \in GameType /\ game'.id = game.id /\ GameShape'
        /\ \/ game'.strikes = game.strikes
           \/ game'.strikes = game.strikes + 1 /\ Counted(m)
    <3>1. CASE game' = game
      BY <3>1 DEF GameShape
    <3>2. CASE game' = Played(game, m)
      BY <3>2, PlayedOK
    <3>3. QED
      BY <1>1, <2>1, <3>1, <3>2 DEF ArriveLate
  <2>3. late' = late \ {m} /\ m \in late /\ UNCHANGED <<loop, call, illegal>>
    BY <1>1, <2>1 DEF ArriveLate
  <2>4. IsFiniteSet(late') /\ Cardinality(late') <= MaxLate
    <3>1. IsFiniteSet(late) /\ Cardinality(late) <= MaxLate /\ Cardinality(late) \in Nat
      BY ClientTypes, FS_CardinalityType
    <3>2. /\ IsFiniteSet(late \ {m})
          /\ Cardinality(late \ {m}) =
               IF m \in late THEN Cardinality(late) - 1 ELSE Cardinality(late)
      BY <3>1, FS_RemoveElement
    <3>3. Cardinality(late \ {m}) <= MaxLate
      BY <2>3, <3>1, <3>2, ClientAssumption
    <3>4. QED
      BY <2>3, <3>2, <3>3
  <2>5. LimiterOK(buckets', meter')
    BY <1>1, MineAsks DEF ArriveLate
  <2>6. StrikesCovered'
    <3>1. LateCounted' = LateCounted \ {m}
      BY <2>2, <2>3 DEF LateCounted, Counted
    <3>2. /\ Cardinality(LateCounted') \in Nat
          /\ Cardinality(LateCounted') =
               IF m \in LateCounted THEN Cardinality(LateCounted) - 1 ELSE Cardinality(LateCounted)
      BY <3>1, LateCount, OneLess
    <3>3. m \in LateCounted <=> Counted(m)
      BY <2>3 DEF LateCounted
    <3>4. (Pending /\ Counted(call.of))' = (Pending /\ Counted(call.of))
      BY <2>2, <2>3 DEF Pending, Counted
    <3>5. game'.strikes + Outstanding' <= game.strikes + Outstanding
            /\ game'.strikes \in Nat /\ Outstanding' \in Nat
      BY <2>2, <3>2, <3>3, <3>4, LateCount DEF Outstanding
    <3>6. QED
      BY <1>a, <2>3, <3>5, LateCount DEF StrikesCovered
  <2>7. TypeOK'
    BY <2>2, <2>3, <2>4, <2>5, TypeNext
  <2>8. NothingAhead'
    BY <2>2, <2>3 DEF NothingAhead
  <2>9. QED
    BY <2>2, <2>4, <2>5, <2>6, <2>7, <2>8 DEF IInv
<1>2. CASE OpponentMoves
  <2>1. game' = [game EXCEPT !.ply = @ + 1, !.over = game.ply + 1 = MaxPly] /\ ~game.over
    BY <1>2 DEF OpponentMoves
  <2>2. game.ply + 1 \in 0..MaxPly /\ (game.ply + 1 = MaxPly) \in BOOLEAN
    BY <2>1, ClientTypes DEF GameShape, GameType
  <2>3. /\ game' \in GameType /\ game'.id = game.id /\ game'.strikes = game.strikes
        /\ game'.ply = game.ply + 1 /\ game'.over = (game.ply + 1 = MaxPly)
    BY <2>1, <2>2 DEF GameType
  <2>4. ~game'.over => game.ply + 1 # MaxPly
    BY <2>3
  <2>5. GameShape'
    BY <2>1, <2>2, <2>3, <2>4, ClientTypes DEF GameShape
  <2>6. UNCHANGED <<loop, call, late, buckets, meter, illegal>>
    BY <1>2 DEF OpponentMoves
  <2>7. StrikesCovered'
    <3>1. LateCounted' = LateCounted
      BY <2>3, <2>6 DEF LateCounted, Counted
    <3>2. (Pending /\ Counted(call.of))' = (Pending /\ Counted(call.of))
      BY <2>3, <2>6 DEF Pending, Counted
    <3>3. QED
      BY <1>a, <2>3, <2>6, <3>1, <3>2 DEF StrikesCovered, Outstanding
  <2>8. TypeOK'
    BY <2>3, <2>6, TypeNext
  <2>9. NothingAhead'
    BY <2>3, <2>6 DEF NothingAhead
  <2>10. QED
    BY <1>a, <2>5, <2>6, <2>7, <2>8, <2>9 DEF IInv
<1>3. CASE NextGame
  <2>1. /\ game' = [id |-> game.id + 1, ply |-> 0, over |-> FALSE, strikes |-> 0]
        /\ illegal' = 0 /\ game.id < MaxGame /\ UNCHANGED <<loop, call, late, buckets, meter>>
    BY <1>3 DEF NextGame
  <2>2. game.id + 1 \in 1..MaxGame
    BY <2>1, ClientTypes DEF GameType
  <2>3. game' \in GameType /\ game'.id = game.id + 1 /\ GameShape' /\ game'.strikes = 0
    BY <2>1, <2>2, ClientTypes DEF GameType, GameShape
  <2>4. StrikesCovered'
    <3>1. LateCounted' = {}
      <4>1. ASSUME NEW m \in late PROVE ~Counted(m)'
        <5>1. m.game <= game.id /\ m.game \in Nat
          BY <4>1, ClientTypes DEF NothingAhead, Move
        <5>2. QED
          BY <2>3, <5>1 DEF Counted
      <4>2. QED
        BY <2>1, <4>1 DEF LateCounted
    <3>2. ~(Pending /\ Counted(call.of))'
      <4>1. ASSUME call # NoTurn, call.kind = "move" PROVE ~Counted(call.of)'
        <5>1. call.of.game <= game.id /\ call.of.game \in Nat
          BY <4>1, ClientTypes DEF NothingAhead, Move
        <5>2. QED
          BY <2>1, <2>3, <5>1 DEF Counted
      <4>2. QED
        BY <2>1, <4>1 DEF Pending
    <3>3. Cardinality({}) = 0
      BY FS_EmptySet
    <3>4. QED
      BY <2>1, <2>3, <3>1, <3>2, <3>3 DEF StrikesCovered, Outstanding
  <2>5. TypeOK'
    BY <2>1, <2>3, ClientTypes, TypeNext
  <2>6. NothingAhead'
    <3>1. \A m \in late : m.game \in Nat
      BY ClientTypes DEF Move
    <3>2. /\ call # NoTurn /\ call.kind = "move" => call.of.game \in Nat
          /\ call # NoTurn /\ call.stage = "turn" => call.of.game \in Nat
          /\ loop.pc = "think" => loop.turn.game \in Nat
      BY ClientTypes DEF NothingAhead, Move, Turn
    <3>3. QED
      BY <2>1, <2>3, <3>1, <3>2 DEF NothingAhead
  <2>7. QED
    BY <1>a, <2>1, <2>3, <2>4, <2>5, <2>6 DEF IInv
<1>4. ASSUME UNCHANGED <<call, late, game, illegal>>, loop' \in LoopType,
             loop'.pc = "think" => loop'.turn = loop.turn /\ loop.pc = "think",
             LimiterOK(buckets', meter')
      PROVE IInv'
  <2>1. StrikesCovered'
    BY <1>4, Covered
  <2>2. TypeOK'
    BY <1>4, TypeNext
  <2>3. NothingAhead'
    BY <1>4 DEF NothingAhead
  <2>4. QED
    BY <1>4, <2>1, <2>2, <2>3 DEF IInv, GameShape
<1>5. CASE OtherRequest
  <2>1. LimiterOK(buckets', meter')
    BY <1>5, <1>a, OtherAsks DEF OtherRequest
  <2>2. QED
    BY <1>4, <1>5, <2>1 DEF OtherRequest
<1>6. CASE Pass
  <2>1. LimiterOK(buckets', meter')
    BY <1>6, <1>a, AgedOK DEF Pass
  <2>2. loop' \in LoopType /\ (loop'.pc = "think" => loop'.turn = loop.turn /\ loop.pc = "think")
    <3>1. loop \in LoopType
      BY ClientTypes
    <3>2. CASE loop.pc # "sleep"
      BY <1>6, <3>1, <3>2 DEF Pass
    <3>3. CASE loop.pc = "sleep" /\ loop.sleep > 1
      <4>1. loop' = [loop EXCEPT !.sleep = @ - 1]
        BY <1>6, <3>3 DEF Pass
      <4>2. loop.sleep - 1 \in Nat
        BY <3>1, <3>3 DEF LoopType
      <4>3. QED
        BY <3>1, <3>3, <4>1, <4>2 DEF LoopType
    <3>4. CASE loop.pc = "sleep" /\ ~(loop.sleep > 1)
      <4>1. loop' = [loop EXCEPT !.sleep = 0, !.pc = "poll"]
        BY <1>6, <3>4 DEF Pass
      <4>2. QED
        BY <3>1, <4>1 DEF LoopType
    <3>5. QED
      BY <3>2, <3>3, <3>4
  <2>3. QED
    BY <1>4, <1>6, <2>1, <2>2 DEF Pass
<1>7. QED
  BY <1>1, <1>2, <1>3, <1>5, <1>6

LEMMA StepPreserves == IInv /\ [Next]_vars => IInv'
<1> SUFFICES ASSUME IInv, [Next]_vars PROVE IInv'
  OBVIOUS
<1>1. CASE Next
  BY <1>1, ClientSteps, ServerSteps, OtherSteps DEF Next
<1>2. CASE UNCHANGED vars
  BY <1>2 DEF vars, IInv, TypeOK, NothingAhead, GameShape, StrikesCovered, Outstanding,
              LateCounted, Pending, Counted
<1>3. QED
  BY <1>1, <1>2

\* The strengthened invariant holds of every reachable state.
THEOREM Inductive == Spec => []IInv
  BY InitEstablishes, StepPreserves, PTL DEF Spec

\* Client and server stay in their types: the backoff in its bounds, the table
\* of the limiter in its size, a game in its plies and strikes.
THEOREM TypeCorrect == Spec => []TypeOK
<1>1. IInv => TypeOK
  BY DEF IInv
<1>2. QED
  BY <1>1, Inductive, PTL

\* What the limiter allows a key is always paid for by a bucket that rounds
\* nothing and is not in the table: it fills anew only when MaxKeys other keys
\* have asked between two requests of the key.  Rounding elapsed time down at
\* every request only loses, and eviction is by least recent use.
THEOREM NeverAboveRateAlways == Spec => []NeverAboveRate
<1>1. IInv => NeverAboveRate
  BY DEF IInv, LimiterOK, NeverAboveRate
<1>2. QED
  BY <1>1, Inductive, PTL

\* Every strike is for an illegal choice of its own, whatever was lost, given
\* up, or arrived late.
THEOREM StrikesEarnedAlways == Spec => []StrikesEarned
<1>1. ASSUME IInv PROVE StrikesEarned
  BY <1>1, Facts, LateCount, ClientTypes DEF IInv, StrikesCovered, StrikesEarned, GameType
<1>2. QED
  BY <1>1, Inductive, PTL
=============================================================================
