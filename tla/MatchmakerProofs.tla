--------------------------- MODULE MatchmakerProofs ---------------------------
(***************************************************************************)
(* Proofs about the policy and the tick that asks it, for any bots,        *)
(* anchors, owners and ratings:                                            *)
(*                                                                         *)
(*   PairingSoundAlways        pairs are disjoint and seated together, and *)
(*                             no two are left that were allowed to meet   *)
(*   RelaxedWaitsAloneAlways   whoever has waited is left out only alone   *)
(*   CountersFollowSeatsAlways the counters of idle ticks follow the seats *)
(*                                                                         *)
(* The policy is two walks over a sorted pool, functions by recursion on   *)
(* the turn.  That a pool can be sorted, that a walk exists, and what it   *)
(* has done after each turn are inductions, by a least counterexample: of  *)
(* the sizes or turns at which a claim fails there would be a least one.   *)
(* PairingsOK is what the policy promises of any pool; the rest is that    *)
(* the pool stays as it was until the tick is over.                        *)
(***************************************************************************)
EXTENDS Matchmaker, FiniteSetTheorems, SequenceTheorems, WellFoundedInduction, TLAPS

-----------------------------------------------------------------------------
(* The order of the policy.                                                *)

\* A set of numbers that is not empty has a least one.
LEMMA LeastNat ==
  ASSUME NEW S \in SUBSET Nat, S # {}
  PROVE  \E n \in S : \A m \in S : n <= m
<1> DEFINE R == OpToRel(<, Nat)
<1>1. \A m, n \in Nat : m < n => <<m, n>> \in R
  BY SMT DEF OpToRel
<1>2. IsWellFoundedOn(R, Nat)
  BY NatLessThanWellFounded, Zenon
<1> HIDE DEF R
<1>3. PICK n \in S : \A m \in S : ~(<<m, n>> \in R)
  BY <1>2, WFMin
<1>4. \A m \in S : ~(m < n)
  BY <1>1, <1>3
<1>5. QED
  BY <1>4

\* LeastOf finds it.
LEMMA LeastOfIs ==
  ASSUME NEW S \in SUBSET Nat, S # {}
  PROVE  LeastOf(S) \in S /\ \A m \in S : LeastOf(S) <= m
BY LeastNat DEF LeastOf

\* All keys can be compared.
Keyed == \A b \in BotId : bots[b].games_played \in Int

LEMMA BeforeIs ==
  ASSUME Keyed, NEW a \in BotId, NEW b \in BotId, NEW c \in BotId
  PROVE  /\ Before(a, b) /\ Before(b, c) => Before(a, c)
         /\ a # b => Before(a, b) \/ Before(b, a)
         /\ ~Before(a, a)
<1>1. PICK x, y, z \in Int : /\ x = bots[a].games_played /\ y = bots[b].games_played
                            /\ z = bots[c].games_played
  BY DEF Keyed
<1>2. PICK r, s, t \in Int : r = Rating[a] /\ s = Rating[b] /\ t = Rating[c]
  BY MatchmakerAssumption
<1>3. a \in Nat /\ b \in Nat /\ c \in Nat
  BY MatchmakerAssumption
<1>4. QED
  BY <1>1, <1>2, <1>3 DEF Before

\* The one that comes last
LastOf(m, S) == m \in S /\ \A x \in S : x # m => Before(x, m)

\* Every set of bots has one.
LEMMA LastExists ==
  ASSUME Keyed, NEW S \in SUBSET BotId, S # {}
  PROVE  \E m : LastOf(m, S)
<1> DEFINE Bad == {T \in SUBSET S : T # {} /\ ~ \E m : LastOf(m, T)}
           Sizes == {Cardinality(T) : T \in Bad}
<1> SUFFICES ASSUME Bad # {} PROVE FALSE
  OBVIOUS
<1>1. IsFiniteSet(S)
  BY MatchmakerAssumption, FS_Subset
<1>2. \A T \in SUBSET S : IsFiniteSet(T) /\ Cardinality(T) \in Nat
  BY <1>1, FS_Subset, FS_CardinalityType
<1>3. Sizes \in SUBSET Nat /\ Sizes # {}
  BY <1>2
<1>4. PICK n \in Sizes : \A m \in Sizes : n <= m
  BY <1>3, LeastNat
<1>5. PICK T \in Bad : n = Cardinality(T)
  OBVIOUS
<1>6. PICK x : x \in T
  OBVIOUS
<1> DEFINE rest == T \ {x}
<1>7. rest \in SUBSET S /\ Cardinality(rest) = Cardinality(T) - 1 /\ Cardinality(T) \in Nat
  BY <1>2, <1>6, FS_RemoveElement
<1>8. CASE rest = {}
  <2>1. LastOf(x, T)
    BY <1>6, <1>8 DEF LastOf
  <2>2. QED
    BY <2>1
<1>9. CASE rest # {}
  <2> HIDE DEF Bad
  <2>1. T \in SUBSET S /\ T # {} /\ ~ \E m : LastOf(m, T)
    BY DEF Bad
  <2>2. rest \in Bad => n <= Cardinality(rest)
    BY <1>4
  <2>3. n \in Nat /\ Cardinality(rest) = n - 1
    BY <1>5, <1>7
  <2>4. rest \notin Bad
    BY <2>2, <2>3
  <2>5. PICK m : LastOf(m, rest)
    BY <1>7, <1>9, <2>4 DEF Bad
  <2>6. m \in BotId /\ x \in BotId /\ m # x /\ m \in T /\ T \in SUBSET S
    BY <1>6, <2>1, <2>5 DEF LastOf
  <2>7. CASE Before(x, m)
    <3>1. LastOf(m, T)
      BY <2>5, <2>6, <2>7 DEF LastOf
    <3>2. QED
      BY <2>1, <3>1
  <2>8. CASE Before(m, x)
    <3>1. ASSUME NEW y \in T, y # x PROVE Before(y, x)
      <4>1. y = m \/ Before(y, m)
        BY <2>5, <3>1 DEF LastOf
      <4>2. y \in BotId
        BY <2>6
      <4>3. QED
        BY <2>6, <2>8, <4>1, <4>2, BeforeIs
    <3>2. LastOf(x, T)
      BY <1>6, <3>1 DEF LastOf
    <3>3. QED
      BY <2>1, <3>2
  <2>9. QED
    BY <2>1, <2>6, <2>7, <2>8, BeforeIs
<1>10. QED
  BY <1>8, <1>9

Sorted(s, T) ==
  /\ s \in [1..Cardinality(T) -> T]
  /\ \A i, j \in 1..Cardinality(T) : i < j => Before(s[i], s[j])

\* Every set of bots can be sorted.
LEMMA SortedExists ==
  ASSUME Keyed, NEW S \in SUBSET BotId
  PROVE  \E s : Sorted(s, S)
<1> DEFINE Bad == {T \in SUBSET S : ~ \E s : Sorted(s, T)}
           Sizes == {Cardinality(T) : T \in Bad}
<1> SUFFICES ASSUME Bad # {} PROVE FALSE
  OBVIOUS
<1>1. IsFiniteSet(S)
  BY MatchmakerAssumption, FS_Subset
<1>2. \A T \in SUBSET S : IsFiniteSet(T) /\ Cardinality(T) \in Nat
  BY <1>1, FS_Subset, FS_CardinalityType
<1>3. Sizes \in SUBSET Nat /\ Sizes # {}
  BY <1>2
<1>4. PICK n \in Sizes : \A m \in Sizes : n <= m
  BY <1>3, LeastNat
<1>5. PICK T \in Bad : n = Cardinality(T)
  OBVIOUS
<1>6. CASE T = {}
  <2>1. Cardinality(T) = 0
    BY <1>6, FS_EmptySet
  <2>2. Sorted([i \in 1..0 |-> i], T)
    BY <1>6, <2>1 DEF Sorted
  <2>3. QED
    BY <2>2
<1>7. CASE T # {}
  <2>1. PICK m : LastOf(m, T)
    BY <1>7, LastExists
  <2> DEFINE rest == T \ {m}
  <2>2. rest \in SUBSET S /\ Cardinality(rest) = n - 1 /\ n \in Nat /\ m \in T
    BY <1>2, <1>5, <2>1, FS_RemoveElement DEF LastOf
  <2>3. rest \in Bad => n <= Cardinality(rest)
    BY <1>4
  <2>4. rest \notin Bad
    BY <2>2, <2>3
  <2>5. PICK r : Sorted(r, rest)
    BY <2>2, <2>4
  <2> DEFINE s == [i \in 1..n |-> IF i = n THEN m ELSE r[i]]
  <2>6. r \in [1..(n - 1) -> rest] /\ \A i, j \in 1..(n - 1) : i < j => Before(r[i], r[j])
    BY <2>2, <2>5 DEF Sorted
  <2>7. \A i \in 1..n : i # n => i \in 1..(n - 1)
    BY <2>2
  <2>8. \A i \in 1..n : i # n => r[i] \in rest
    BY <2>6, <2>7
  <2>9. s \in [1..n -> T]
    BY <2>2, <2>8
  <2>10. ASSUME NEW i \in 1..n, NEW j \in 1..n, i < j PROVE Before(s[i], s[j])
    <3>1. i # n
      BY <2>2, <2>10
    <3>2. s[i] = r[i] /\ r[i] \in T /\ r[i] # m
      BY <2>8, <3>1
    <3>3. CASE j = n
      BY <2>1, <3>2, <3>3 DEF LastOf
    <3>4. CASE j # n
      BY <2>6, <2>7, <2>10, <3>1, <3>4
    <3>5. QED
      BY <3>3, <3>4
  <2> HIDE DEF s
  <2>11. Sorted(s, T)
    BY <1>5, <2>9, <2>10 DEF Sorted
  <2>12. QED
    BY <2>11
<1>8. QED
  BY <1>6, <1>7

\* s has every member of S once.
Lists(s, S) ==
  /\ Len(s) \in Nat /\ DOMAIN s = 1..Len(s)
  /\ \A i \in 1..Len(s) : s[i] \in S
  /\ \A i, j \in 1..Len(s) : s[i] = s[j] => i = j
  /\ \A x \in S : \E i \in 1..Len(s) : s[i] = x
  /\ Len(s) = Cardinality(S)

LEMMA InOrderIs ==
  ASSUME Keyed, NEW S \in SUBSET BotId
  PROVE  Lists(InOrder(S), S)
<1> DEFINE n == Cardinality(S)
           s == InOrder(S)
<1>1. IsFiniteSet(S) /\ n \in Nat
  BY MatchmakerAssumption, FS_Subset, FS_CardinalityType
<1>2. Sorted(s, S)
  BY SortedExists DEF Sorted, InOrder
<1> HIDE DEF s
<1>3. s \in [1..n -> S] /\ \A i, j \in 1..n : i < j => Before(s[i], s[j])
  BY <1>2 DEF Sorted
<1>4. \A i, j \in 1..n : s[i] = s[j] => i = j
  <2>1. ASSUME NEW i \in 1..n, NEW j \in 1..n, s[i] = s[j], i # j PROVE FALSE
    <3>1. i < j \/ j < i
      BY <1>1, <2>1
    <3>2. Before(s[i], s[i])
      BY <1>3, <2>1, <3>1
    <3>3. s[i] \in BotId
      BY <1>3
    <3>4. QED
      BY <3>2, <3>3, BeforeIs
  <2>2. QED
    BY <2>1
<1>5. s \in Injection(1..n, S)
  BY <1>3, <1>4 DEF Injection, IsInjective
<1>6. Cardinality(1..n) = n
  <2>1. Cardinality(1..n) = IF 1 > n THEN 0 ELSE n - 1 + 1
    BY <1>1, FS_Interval
  <2>2. QED
    BY <1>1, <2>1
<1>7. s \in Surjection(1..n, S)
  BY <1>1, <1>5, <1>6, FS_Injection
<1>8. Len(s) = n
  BY <1>1, <1>3, LenProperties
<1>9. \A x \in S : \E i \in 1..n : s[i] = x
  BY <1>7 DEF Surjection
<1>10. DOMAIN s = 1..n /\ \A i \in 1..n : s[i] \in S
  BY <1>3
<1>11. QED
  BY <1>1, <1>4, <1>8, <1>9, <1>10 DEF Lists, s

-----------------------------------------------------------------------------
(* The walks.  Each is a function by recursion on the turn; that there is  *)
(* such a function is shown by a least counterexample.                     *)

\* A value for each turn, the first given and each other got from the one before
Steps(f, turn, start, n) ==
  /\ DOMAIN f = 0..n
  /\ f[0] = start
  /\ \A k \in 1..n : f[k] = turn[<<k, f[k - 1]>>]

LEMMA StepsExist ==
  ASSUME NEW n \in Nat, NEW D, NEW start \in D, NEW turn \in [(1..n) \X D -> D]
  PROVE  \E f \in [0..n -> D] : Steps(f, turn, start, n)
<1> DEFINE Exists(m) == \E f \in [0..m -> D] : Steps(f, turn, start, m)
           Bad == {m \in 0..n : ~Exists(m)}
<1> SUFFICES ASSUME Bad # {} PROVE FALSE
  <2>1. n \in 0..n
    OBVIOUS
  <2>2. n \notin Bad => Exists(n)
    BY <2>1
  <2>3. QED
    BY <2>2, Zenon
<1>1. Bad \in SUBSET Nat
  OBVIOUS
<1>2. PICK m \in Bad : \A x \in Bad : m <= x
  BY <1>1, LeastNat, Zenon
<1>3. m \in 0..n /\ ~Exists(m)
  OBVIOUS
<1>4. CASE m = 0
  <2> DEFINE f == [i \in 0..0 |-> start]
  <2>1. f \in [0..0 -> D] /\ Steps(f, turn, start, 0)
    BY DEF Steps
  <2>2. Exists(0)
    BY <2>1
  <2>3. QED
    BY <1>3, <1>4, <2>2
<1>5. CASE m # 0
  <2>1. m \in Nat /\ m - 1 \in 0..n /\ m \in 1..n /\ ~(m <= m - 1)
    BY <1>3, <1>5
  <2>2. m - 1 \notin Bad
    BY <1>2, <2>1, Zenon
  <2>3. Exists(m - 1)
    BY <2>1, <2>2
  <2> HIDE DEF Exists, Bad
  <2>4. PICK f \in [0..(m - 1) -> D] : Steps(f, turn, start, m - 1)
    BY <2>3 DEF Exists
  <2> DEFINE g == [k \in 0..m |-> IF k = m THEN turn[<<m, f[m - 1]>>] ELSE f[k]]
  <2>5. f[m - 1] \in D
    BY <2>1
  <2>6. <<m, f[m - 1]>> \in (1..n) \X D
    BY <2>1, <2>5
  <2>7. turn[<<m, f[m - 1]>>] \in D
    BY <2>6
  <2>8. \A k \in 0..m : k # m => k \in 0..(m - 1)
    BY <2>1
  <2>9. g \in [0..m -> D]
    BY <2>7, <2>8
  <2>10. g[0] = start
    BY <1>5, <2>1, <2>4 DEF Steps
  <2>11. ASSUME NEW k \in 1..m PROVE g[k] = turn[<<k, g[k - 1]>>]
    <3>1. k \in 0..m /\ k - 1 \in 0..m /\ k - 1 # m
      BY <2>1
    <3>2. g[k - 1] = f[k - 1]
      BY <3>1
    <3>3. CASE k = m
      BY <3>1, <3>2, <3>3
    <3>4. CASE k # m
      <4>1. k \in 1..(m - 1)
        BY <2>1, <3>4
      <4>2. g[k] = f[k]
        BY <3>1, <3>4
      <4>3. f[k] = turn[<<k, f[k - 1]>>]
        BY <2>4, <4>1 DEF Steps
      <4>4. QED
        BY <3>2, <4>2, <4>3
    <3>5. QED
      BY <3>3, <3>4
  <2> HIDE DEF g
  <2>12. DOMAIN g = 0..m
    BY <2>9
  <2>13. Steps(g, turn, start, m)
    BY <2>10, <2>11, <2>12 DEF Steps
  <2>14. QED
    BY <1>3, <2>9, <2>13 DEF Exists
<1>6. QED
  BY <1>4, <1>5

-----------------------------------------------------------------------------
(* What pair_bots pairs.                                                   *)

\* The function of the walk in PairBots
PairWalk(order) ==
  CHOOSE walk : walk = [k \in 0..Len(order) |->
                          IF k = 0 THEN {} ELSE PairingTurn(order, k, walk[k - 1])]

LEMMA PairBotsIs ==
  ASSUME NEW S
  PROVE  PairBots(S) = PairWalk(InOrder(S))[Len(InOrder(S))]
BY Zenon DEF PairBots, PairWalk

\* A turn adds the pair of its bot and a later one, both free and allowed to
\* meet, or the bot is taken or has nobody to meet.
Joins(order, k, done, next) ==
  \E j \in 1..Len(order) :
    /\ k < j
    /\ order[k] \notin UNION done /\ order[j] \notin UNION done
    /\ Allowed(order[k], order[j])
    /\ next = done \cup {{order[k], order[j]}}

PassesBy(order, k, done) ==
  \/ order[k] \in UNION done
  \/ \A j \in 1..Len(order) :
       k < j => order[j] \in UNION done \/ ~Allowed(order[k], order[j])

LEMMA PairingTurnIs ==
  ASSUME NEW order, Len(order) \in Nat, NEW k \in 1..Len(order), NEW done
  PROVE  \/ Joins(order, k, done, PairingTurn(order, k, done))
         \/ PairingTurn(order, k, done) = done /\ PassesBy(order, k, done)
<1> DEFINE partners == {j \in k + 1 .. Len(order) :
                          /\ order[j] \notin UNION done
                          /\ Allowed(order[k], order[j])}
<1>1. PairingTurn(order, k, done) =
        IF order[k] \in UNION done \/ partners = {} THEN done
        ELSE done \cup {{order[k], order[LeastOf(partners)]}}
  BY Zenon DEF PairingTurn
<1>2. \A j \in 1..Len(order) : k < j => j \in k + 1 .. Len(order)
  OBVIOUS
<1>3. CASE order[k] \in UNION done
  BY <1>1, <1>3 DEF PassesBy
<1>4. CASE partners = {}
  <2>1. \A j \in k + 1 .. Len(order) : order[j] \in UNION done \/ ~Allowed(order[k], order[j])
    BY <1>4
  <2>2. PassesBy(order, k, done)
    BY <1>2, <2>1, Zenon DEF PassesBy
  <2>3. QED
    BY <1>1, <1>4, <2>2
<1>5. CASE order[k] \notin UNION done /\ partners # {}
  <2>1. partners \in SUBSET Nat
    OBVIOUS
  <2>2. PICK j : j = LeastOf(partners)
    OBVIOUS
  <2>3. j \in partners
    BY <1>5, <2>1, <2>2, LeastOfIs, Zenon
  <2>4. j \in 1..Len(order) /\ k < j /\ order[j] \notin UNION done /\ Allowed(order[k], order[j])
    BY <2>3
  <2>5. PairingTurn(order, k, done) = done \cup {{order[k], order[j]}}
    BY <1>1, <1>5, <2>2, Zenon
  <2>6. QED
    BY <1>5, <2>4, <2>5, Zenon DEF Joins
<1>6. QED
  BY <1>3, <1>4, <1>5

\* The pairs on the way.
PairsOf(done, S) ==
  \A g \in done : \E a, b \in S : a # b /\ g = {a, b} /\ Allowed(a, b)

Apart(done) == \A g, h \in done : g # h => g \cap h = {}

Settled(order, k, done) ==
  \A i \in 1..k : \A j \in 1..Len(order) :
    i < j /\ order[i] \notin UNION done /\ order[j] \notin UNION done
      => ~Allowed(order[i], order[j])

Walked(order, k, done, S) == PairsOf(done, S) /\ Apart(done) /\ Settled(order, k, done)

LEMMA TurnOK ==
  ASSUME NEW S \in SUBSET BotId, NEW order, Lists(order, S),
         NEW k \in 1..Len(order), NEW done, Walked(order, k - 1, done, S)
  PROVE  Walked(order, k, PairingTurn(order, k, done), S)
<1> DEFINE n == Len(order)
<1>1. /\ n \in Nat
      /\ \A i \in 1..n : order[i] \in S
      /\ \A i, j \in 1..n : order[i] = order[j] => i = j
  BY DEF Lists
<1>2. PairsOf(done, S) /\ Apart(done) /\ Settled(order, k - 1, done)
  BY DEF Walked
<1>3. \A i \in 1..k : i = k \/ i \in 1..(k - 1)
  BY <1>1
<1>4. CASE PairingTurn(order, k, done) = done /\ PassesBy(order, k, done)
  <2>1. Settled(order, k, done)
    <3>1. ASSUME NEW i \in 1..k, NEW j \in 1..n, i < j,
                 order[i] \notin UNION done, order[j] \notin UNION done
          PROVE  ~Allowed(order[i], order[j])
      <4>1. CASE i = k
        BY <1>4, <3>1, <4>1, Zenon DEF PassesBy
      <4>2. CASE i \in 1..(k - 1)
        BY <1>2, <3>1, <4>2, Zenon DEF Settled
      <4>3. QED
        BY <1>3, <4>1, <4>2
    <3>2. QED
      BY <3>1, Zenon DEF Settled
  <2>2. QED
    BY <1>2, <1>4, <2>1, Zenon DEF Walked
<1>5. CASE Joins(order, k, done, PairingTurn(order, k, done))
  <2>1. PICK j \in 1..n :
          /\ k < j
          /\ order[k] \notin UNION done /\ order[j] \notin UNION done
          /\ Allowed(order[k], order[j])
          /\ PairingTurn(order, k, done) = done \cup {{order[k], order[j]}}
    BY <1>5, Zenon DEF Joins
  <2>2. PICK a, b : a = order[k] /\ b = order[j]
    OBVIOUS
  <2>3. a \in S /\ b \in S /\ a # b
    BY <1>1, <2>1, <2>2
  <2> DEFINE next == done \cup {{a, b}}
  <2>4. PairsOf(next, S)
    BY <1>2, <2>1, <2>2, <2>3, Zenon DEF PairsOf
  <2>5. Apart(next)
    <3>1. \A g \in done : g \cap {a, b} = {} /\ {a, b} \cap g = {}
      BY <2>1, <2>2
    <3>2. QED
      BY <1>2, <3>1, Zenon DEF Apart
  <2>6. UNION next = (UNION done) \cup {a, b}
    OBVIOUS
  <2>7. Settled(order, k, next)
    <3>1. ASSUME NEW i \in 1..k, NEW x \in 1..n, i < x,
                 order[i] \notin UNION next, order[x] \notin UNION next
          PROVE  ~Allowed(order[i], order[x])
      <4>1. order[i] \notin UNION done /\ order[x] \notin UNION done /\ i # k
        BY <2>2, <2>6, <3>1
      <4>2. i \in 1..(k - 1)
        BY <1>3, <4>1
      <4>3. QED
        BY <1>2, <3>1, <4>1, <4>2, Zenon DEF Settled
    <3>2. QED
      BY <3>1, Zenon DEF Settled
  <2>8. PairingTurn(order, k, done) = next
    BY <2>1, <2>2
  <2> HIDE DEF next
  <2>9. QED
    BY <2>4, <2>5, <2>7, <2>8, Zenon DEF Walked
<1>6. QED
  BY <1>1, <1>4, <1>5, PairingTurnIs, Zenon

LEMMA PairIsGame ==
  ASSUME NEW a \in BotId, NEW b \in BotId
  PROVE  {a, b} \in Game
BY DEF Game

LEMMA TurnType ==
  ASSUME NEW S \in SUBSET BotId, NEW order, Lists(order, S),
         NEW k \in 1..Len(order), NEW done \in SUBSET Game
  PROVE  PairingTurn(order, k, done) \in SUBSET Game
<1>1. Len(order) \in Nat /\ \A i \in 1..Len(order) : order[i] \in BotId
  BY DEF Lists
<1>2. CASE PairingTurn(order, k, done) = done
  BY <1>2
<1>3. CASE Joins(order, k, done, PairingTurn(order, k, done))
  <2>1. PICK j \in 1..Len(order) :
          PairingTurn(order, k, done) = done \cup {{order[k], order[j]}}
    BY <1>3, Zenon DEF Joins
  <2>2. {order[k], order[j]} \in Game
    BY <1>1, PairIsGame, Zenon
  <2>3. QED
    BY <2>1, <2>2
<1>4. QED
  BY <1>1, <1>2, <1>3, PairingTurnIs, Zenon

LEMMA PairWalkIs ==
  ASSUME NEW S \in SUBSET BotId, NEW order, Lists(order, S)
  PROVE  /\ PairWalk(order)[0] = {}
         /\ \A k \in 1..Len(order) :
              PairWalk(order)[k] = PairingTurn(order, k, PairWalk(order)[k - 1])
<1> DEFINE n == Len(order)
           D == SUBSET Game
           turn == [p \in (1..n) \X D |-> PairingTurn(order, p[1], p[2])]
<1>1. n \in Nat
  BY DEF Lists
<1>2. \A p \in (1..n) \X D : PairingTurn(order, p[1], p[2]) \in D
  <2>1. ASSUME NEW p \in (1..n) \X D PROVE PairingTurn(order, p[1], p[2]) \in D
    <3>1. p[1] \in 1..n /\ p[2] \in SUBSET Game
      OBVIOUS
    <3>2. QED
      BY <3>1, TurnType, Zenon
  <2>2. QED
    BY <2>1
<1>3. turn \in [(1..n) \X D -> D]
  BY <1>2
<1>4. {} \in D
  OBVIOUS
<1>5. \A k \in 1..n : \A d \in D : turn[<<k, d>>] = PairingTurn(order, k, d)
  OBVIOUS
<1> HIDE DEF turn, D
<1>6. PICK f \in [0..n -> D] : Steps(f, turn, {}, n)
  BY <1>1, <1>3, <1>4, StepsExist, Zenon
<1>7. \A k \in 1..n : k - 1 \in 0..n /\ k # 0 /\ k \in 0..n
  BY <1>1
<1>8. \A k \in 0..n : k = 0 \/ k \in 1..n
  BY <1>1
<1>9. \A k \in 1..n : f[k] = PairingTurn(order, k, f[k - 1])
  BY <1>5, <1>6, <1>7, Zenon DEF Steps
<1>10. f[0] = {}
  BY <1>6, Zenon DEF Steps
<1>11. f = [k \in 0..n |-> IF k = 0 THEN {} ELSE PairingTurn(order, k, f[k - 1])]
  <2>1. \A k \in 0..n : f[k] = IF k = 0 THEN {} ELSE PairingTurn(order, k, f[k - 1])
    BY <1>8, <1>9, <1>10, Zenon
  <2>2. QED
    BY <2>1
<1>12. PairWalk(order) =
         [k \in 0..n |-> IF k = 0 THEN {} ELSE PairingTurn(order, k, PairWalk(order)[k - 1])]
  BY <1>11, Zenon DEF PairWalk
<1> DEFINE w == PairWalk(order)
<1>13. w = [k \in 0..n |-> IF k = 0 THEN {} ELSE PairingTurn(order, k, w[k - 1])]
  BY <1>12
<1>14. 0 \in 0..n
  BY <1>1
<1> HIDE DEF w
<1>15. \A k \in 0..n : w[k] = IF k = 0 THEN {} ELSE PairingTurn(order, k, w[k - 1])
  BY <1>13
<1>16. w[0] = {} /\ \A k \in 1..n : w[k] = PairingTurn(order, k, w[k - 1])
  BY <1>7, <1>14, <1>15, Zenon
<1>17. QED
  BY <1>16 DEF w

LEMMA AllowedEither ==
  ASSUME NEW a, NEW b
  PROVE  Allowed(a, b) => Allowed(b, a)
<1>1. {a, b} = {b, a}
  OBVIOUS
<1>2. QED
  BY <1>1, Zenon DEF Allowed, Relaxed

\* pair_bots pairs bots of its pool that are allowed to meet, each at most once,
\* and leaves no two of them that are.
LEMMA PairBotsOK ==
  ASSUME Keyed, NEW S \in SUBSET BotId
  PROVE  /\ PairsOf(PairBots(S), S)
         /\ Apart(PairBots(S))
         /\ \A a, b \in S \ UNION PairBots(S) : a # b => ~Allowed(a, b)
<1> DEFINE order == InOrder(S)
           n == Len(order)
           w == PairWalk(order)
<1>1. Lists(order, S)
  BY InOrderIs, Zenon
<1>2. n \in Nat /\ \A x \in S : \E i \in 1..n : order[i] = x
  BY <1>1 DEF Lists
<1>3. w[0] = {} /\ \A k \in 1..n : w[k] = PairingTurn(order, k, w[k - 1])
  BY <1>1, PairWalkIs, Zenon
<1>4. PairBots(S) = w[n]
  BY PairBotsIs, Zenon
<1> HIDE DEF w, order
<1> DEFINE Bad == {k \in 0..n : ~Walked(order, k, w[k], S)}
<1>5. Bad = {}
  <2> SUFFICES ASSUME Bad # {} PROVE FALSE
    OBVIOUS
  <2>1. Bad \in SUBSET Nat
    BY <1>2
  <2>2. PICK k \in Bad : \A x \in Bad : k <= x
    BY <2>1, LeastNat, Zenon
  <2>3. k \in 0..n /\ ~Walked(order, k, w[k], S)
    OBVIOUS
  <2>4. CASE k = 0
    <3>1. \A x : ~(x \in 1..0)
      OBVIOUS
    <3>2. Settled(order, 0, {})
      BY <3>1, Zenon DEF Settled
    <3>3. PairsOf({}, S) /\ Apart({})
      BY DEF PairsOf, Apart
    <3>4. QED
      BY <1>3, <2>3, <2>4, <3>2, <3>3, Zenon DEF Walked
  <2>5. CASE k # 0
    <3>1. k \in 1..n /\ k - 1 \in 0..n /\ ~(k <= k - 1)
      BY <1>2, <2>3, <2>5
    <3>2. k - 1 \notin Bad
      BY <2>2, <3>1, Zenon
    <3>3. Walked(order, k - 1, w[k - 1], S)
      BY <3>1, <3>2
    <3>4. Walked(order, k, PairingTurn(order, k, w[k - 1]), S)
      BY <1>1, <3>1, <3>3, TurnOK, Zenon
    <3>5. QED
      BY <1>3, <2>3, <3>1, <3>4, Zenon
  <2>6. QED
    BY <2>4, <2>5
<1>6. Walked(order, n, PairBots(S), S)
  <2>1. n \in 0..n
    BY <1>2
  <2>2. n \notin Bad
    BY <1>5, Zenon
  <2>3. Walked(order, n, w[n], S)
    BY <2>1, <2>2
  <2>4. QED
    BY <1>4, <2>3, Zenon
<1>7. ASSUME NEW a \in S \ UNION PairBots(S), NEW b \in S \ UNION PairBots(S), a # b,
             Allowed(a, b)
      PROVE  FALSE
  <2>1. PICK i \in 1..n : order[i] = a
    BY <1>2
  <2>2. PICK j \in 1..n : order[j] = b
    BY <1>2
  <2>3. i < j \/ j < i
    BY <1>2, <1>7, <2>1, <2>2
  <2>4. Settled(order, n, PairBots(S))
    BY <1>6, Zenon DEF Walked
  <2>5. a \notin UNION PairBots(S) /\ b \notin UNION PairBots(S)
    OBVIOUS
  <2>6. CASE i < j
    BY <1>7, <2>1, <2>2, <2>4, <2>5, <2>6, Zenon DEF Settled
  <2>7. CASE j < i
    <3>1. Allowed(b, a)
      BY <1>7, AllowedEither, Zenon
    <3>2. QED
      BY <2>1, <2>2, <2>4, <2>5, <2>7, <3>1, Zenon DEF Settled
  <2>8. QED
    BY <2>3, <2>6, <2>7
<1>8. QED
  BY <1>6, <1>7, Zenon DEF Walked

-----------------------------------------------------------------------------
(* What offer_anchors offers.                                              *)

LEMMA NearestAnchorIs ==
  ASSUME NEW c \in BotId, NEW S \in SUBSET BotId, S # {}
  PROVE  NearestAnchor(c, S) \in S
<1>1. \A x \in S : Distance(c, x) \in Nat /\ x \in Nat
  BY MatchmakerAssumption DEF Distance
<1> DEFINE Distances == {Distance(c, x) : x \in S}
<1>2. Distances \in SUBSET Nat /\ Distances # {}
  BY <1>1
<1>3. PICK d \in Distances : \A x \in Distances : d <= x
  BY <1>2, LeastNat, Zenon
<1> DEFINE Closest == {x \in S : Distance(c, x) = d}
<1>4. Closest \in SUBSET Nat /\ Closest # {}
  BY <1>1
<1>5. PICK a \in Closest : \A x \in Closest : a <= x
  BY <1>4, LeastNat, Zenon
<1>6. a \in S /\ Distance(c, a) = d
  OBVIOUS
<1>7. ASSUME NEW x \in S
      PROVE  \/ Distance(c, a) < Distance(c, x)
             \/ Distance(c, a) = Distance(c, x) /\ a <= x
  <2>1. d <= Distance(c, x) /\ d \in Nat /\ Distance(c, x) \in Nat
    BY <1>1, <1>2, <1>3
  <2>2. Distance(c, x) = d => a <= x
    BY <1>5
  <2>3. QED
    BY <1>6, <2>1, <2>2
<1>8. QED
  BY <1>6, <1>7 DEF NearestAnchor

\* The function of the walk in OfferAnchors
OfferWalk(order, anchors) ==
  CHOOSE walk : walk = [k \in 0..Len(order) |->
                          IF k = 0 THEN {} ELSE OfferTurn(order, anchors, k, walk[k - 1])]

LEMMA OfferAnchorsIs ==
  ASSUME NEW idle, NEW anchors
  PROVE  OfferAnchors(idle, anchors) = OfferWalk(InOrder(idle), anchors)[Len(InOrder(idle))]
BY Zenon DEF OfferAnchors, OfferWalk

\* A bot is offered an anchor that nobody was offered, or finds none near.
Offers(order, anchors, k, done, next) ==
  \E a \in anchors : a \notin UNION done /\ next = done \cup {{order[k], a}}

NoneNear(c, anchors, done) ==
  \A a \in anchors : a \in UNION done \/ ~ShouldOfferAnchor(c, a)

LEMMA OfferTurnIs ==
  ASSUME NEW order, NEW anchors \in SUBSET BotId, NEW k, order[k] \in BotId, NEW done
  PROVE  \/ Offers(order, anchors, k, done, OfferTurn(order, anchors, k, done))
         \/ /\ OfferTurn(order, anchors, k, done) = done
            /\ NoneNear(order[k], anchors, done)
<1> DEFINE available == anchors \ UNION done
           near == {a \in available : ShouldOfferAnchor(order[k], a)}
<1>1. OfferTurn(order, anchors, k, done) =
        IF near = {} THEN done ELSE done \cup {{order[k], NearestAnchor(order[k], available)}}
  BY Zenon DEF OfferTurn
<1>2. CASE near = {}
  <2>1. NoneNear(order[k], anchors, done)
    BY <1>2 DEF NoneNear
  <2>2. QED
    BY <1>1, <1>2, <2>1
<1>3. CASE near # {}
  <2>1. available \in SUBSET BotId /\ available # {}
    BY <1>3
  <2>2. PICK a : a = NearestAnchor(order[k], available)
    OBVIOUS
  <2>3. a \in available
    BY <2>1, <2>2, NearestAnchorIs, Zenon
  <2>4. a \in anchors /\ a \notin UNION done
    BY <2>3
  <2>5. OfferTurn(order, anchors, k, done) = done \cup {{order[k], a}}
    BY <1>1, <1>3, <2>2, Zenon
  <2>6. QED
    BY <2>4, <2>5, Zenon DEF Offers
<1>4. QED
  BY <1>2, <1>3

OffersOf(order, anchors, k, done) ==
  \A o \in done : \E i \in 1..k : \E a \in anchors : o = {order[i], a}

Asked(order, anchors, k, done) ==
  \A i \in 1..k : order[i] \in UNION done \/ NoneNear(order[i], anchors, done)

Offered(order, anchors, k, done) ==
  OffersOf(order, anchors, k, done) /\ Apart(done) /\ Asked(order, anchors, k, done)

LEMMA OfferOK ==
  ASSUME NEW idle \in SUBSET BotId, NEW anchors \in SUBSET BotId, idle \cap anchors = {},
         NEW order, Lists(order, idle),
         NEW k \in 1..Len(order), NEW done, Offered(order, anchors, k - 1, done)
  PROVE  Offered(order, anchors, k, OfferTurn(order, anchors, k, done))
<1> DEFINE n == Len(order)
<1>1. /\ n \in Nat
      /\ \A i \in 1..n : order[i] \in idle
      /\ \A i, j \in 1..n : order[i] = order[j] => i = j
  BY DEF Lists
<1>2. OffersOf(order, anchors, k - 1, done) /\ Apart(done) /\ Asked(order, anchors, k - 1, done)
  BY DEF Offered
<1>3. /\ \A i \in 1..k : i = k \/ i \in 1..(k - 1)
      /\ \A i \in 1..(k - 1) : i \in 1..k /\ i \in 1..n /\ i # k
  BY <1>1
<1>4. CASE /\ OfferTurn(order, anchors, k, done) = done
           /\ NoneNear(order[k], anchors, done)
  <2>1. OffersOf(order, anchors, k, done)
    BY <1>2, <1>3, Zenon DEF OffersOf
  <2>2. Asked(order, anchors, k, done)
    BY <1>2, <1>3, <1>4, Zenon DEF Asked
  <2>3. QED
    BY <1>2, <1>4, <2>1, <2>2, Zenon DEF Offered
<1>5. CASE Offers(order, anchors, k, done, OfferTurn(order, anchors, k, done))
  <2>1. PICK a \in anchors :
          a \notin UNION done /\ OfferTurn(order, anchors, k, done) = done \cup {{order[k], a}}
    BY <1>5, Zenon DEF Offers
  <2>2. PICK c : c = order[k]
    OBVIOUS
  <2>3. c \in idle /\ c \notin anchors
    BY <1>1, <2>2
  <2> DEFINE next == done \cup {{c, a}}
  <2>4. k \in 1..k
    BY <1>1
  <2>5. OffersOf(order, anchors, k, next)
    <3>1. ASSUME NEW o \in next PROVE \E i \in 1..k : \E x \in anchors : o = {order[i], x}
      <4>1. CASE o \in done
        BY <1>2, <1>3, <4>1, Zenon DEF OffersOf
      <4>2. CASE o = {c, a}
        BY <2>1, <2>2, <2>4, <4>2, Zenon
      <4>3. QED
        BY <4>1, <4>2
    <3>2. QED
      BY <3>1, Zenon DEF OffersOf
  <2>6. Apart(next)
    <3>1. ASSUME NEW g \in done PROVE g \cap {c, a} = {} /\ {c, a} \cap g = {}
      <4>1. PICK i \in 1..(k - 1), x \in anchors : g = {order[i], x}
        BY <1>2, Zenon DEF OffersOf
      <4>2. order[i] # c /\ order[i] # a /\ x # c
        BY <1>1, <1>3, <2>2, <2>3
      <4>3. a \notin g
        BY <2>1
      <4>4. QED
        BY <4>1, <4>2, <4>3
    <3>2. QED
      BY <1>2, <3>1, Zenon DEF Apart
  <2>7. UNION next = (UNION done) \cup {c, a}
    OBVIOUS
  <2>8. Asked(order, anchors, k, next)
    <3>1. ASSUME NEW i \in 1..k, order[i] \notin UNION next
          PROVE  NoneNear(order[i], anchors, next)
      <4>1. i \in 1..(k - 1) /\ order[i] \notin UNION done
        BY <1>3, <2>2, <2>7, <3>1
      <4>2. NoneNear(order[i], anchors, done)
        BY <1>2, <4>1, Zenon DEF Asked
      <4>3. QED
        BY <2>7, <4>2 DEF NoneNear
    <3>2. QED
      BY <3>1, Zenon DEF Asked
  <2>9. OfferTurn(order, anchors, k, done) = next
    BY <2>1, <2>2
  <2> HIDE DEF next
  <2>10. QED
    BY <2>5, <2>6, <2>8, <2>9, Zenon DEF Offered
<1>6. order[k] \in BotId
  BY <1>1
<1>7. \/ Offers(order, anchors, k, done, OfferTurn(order, anchors, k, done))
      \/ /\ OfferTurn(order, anchors, k, done) = done
         /\ NoneNear(order[k], anchors, done)
  BY <1>6, OfferTurnIs
<1>8. QED
  BY <1>4, <1>5, <1>7

LEMMA OfferType ==
  ASSUME NEW anchors \in SUBSET BotId, NEW order, NEW k, order[k] \in BotId,
         NEW done \in SUBSET Game
  PROVE  OfferTurn(order, anchors, k, done) \in SUBSET Game
<1>1. CASE OfferTurn(order, anchors, k, done) = done
  BY <1>1
<1>2. CASE Offers(order, anchors, k, done, OfferTurn(order, anchors, k, done))
  <2>1. PICK a \in anchors : OfferTurn(order, anchors, k, done) = done \cup {{order[k], a}}
    BY <1>2, Zenon DEF Offers
  <2>2. a \in BotId
    OBVIOUS
  <2>3. {order[k], a} \in Game
    BY <2>2, PairIsGame, Zenon
  <2>4. QED
    BY <2>1, <2>3
<1>3. \/ Offers(order, anchors, k, done, OfferTurn(order, anchors, k, done))
      \/ /\ OfferTurn(order, anchors, k, done) = done
         /\ NoneNear(order[k], anchors, done)
  BY OfferTurnIs
<1>4. QED
  BY <1>1, <1>2, <1>3

LEMMA OfferWalkIs ==
  ASSUME NEW idle \in SUBSET BotId, NEW anchors \in SUBSET BotId,
         NEW order, Lists(order, idle)
  PROVE  /\ OfferWalk(order, anchors)[0] = {}
         /\ \A k \in 1..Len(order) :
              OfferWalk(order, anchors)[k] =
                OfferTurn(order, anchors, k, OfferWalk(order, anchors)[k - 1])
<1> DEFINE n == Len(order)
           D == SUBSET Game
           turn == [p \in (1..n) \X D |-> OfferTurn(order, anchors, p[1], p[2])]
<1>1. n \in Nat /\ \A i \in 1..n : order[i] \in BotId
  BY DEF Lists
<1>2. \A p \in (1..n) \X D : OfferTurn(order, anchors, p[1], p[2]) \in D
  <2>1. ASSUME NEW p \in (1..n) \X D PROVE OfferTurn(order, anchors, p[1], p[2]) \in D
    <3>1. p[1] \in 1..n /\ p[2] \in SUBSET Game
      OBVIOUS
    <3>2. order[p[1]] \in BotId
      BY <1>1, <3>1
    <3>3. QED
      BY <3>1, <3>2, OfferType
  <2>2. QED
    BY <2>1
<1>3. turn \in [(1..n) \X D -> D]
  BY <1>2
<1>4. {} \in D
  OBVIOUS
<1>5. \A k \in 1..n : \A d \in D : turn[<<k, d>>] = OfferTurn(order, anchors, k, d)
  OBVIOUS
<1> HIDE DEF turn, D
<1>6. PICK f \in [0..n -> D] : Steps(f, turn, {}, n)
  BY <1>1, <1>3, <1>4, StepsExist, Zenon
<1>7. \A k \in 1..n : k - 1 \in 0..n /\ k # 0 /\ k \in 0..n
  BY <1>1
<1>8. \A k \in 0..n : k = 0 \/ k \in 1..n
  BY <1>1
<1>9. \A k \in 1..n : f[k] = OfferTurn(order, anchors, k, f[k - 1])
  BY <1>5, <1>6, <1>7, Zenon DEF Steps
<1>10. f[0] = {}
  BY <1>6, Zenon DEF Steps
<1>11. f = [k \in 0..n |-> IF k = 0 THEN {} ELSE OfferTurn(order, anchors, k, f[k - 1])]
  <2>1. \A k \in 0..n : f[k] = IF k = 0 THEN {} ELSE OfferTurn(order, anchors, k, f[k - 1])
    BY <1>8, <1>9, <1>10, Zenon
  <2>2. QED
    BY <2>1
<1> DEFINE w == OfferWalk(order, anchors)
<1>12. w = [k \in 0..n |-> IF k = 0 THEN {} ELSE OfferTurn(order, anchors, k, w[k - 1])]
  BY <1>11, Zenon DEF OfferWalk
<1>13. 0 \in 0..n
  BY <1>1
<1> HIDE DEF w
<1>14. \A k \in 0..n : w[k] = IF k = 0 THEN {} ELSE OfferTurn(order, anchors, k, w[k - 1])
  BY <1>12
<1>15. w[0] = {} /\ \A k \in 1..n : w[k] = OfferTurn(order, anchors, k, w[k - 1])
  BY <1>7, <1>13, <1>14, Zenon
<1>16. QED
  BY <1>15 DEF w

\* offer_anchors offers to bots of its list an anchor each, no anchor twice, and
\* a bot goes without only if the anchors within its window are all spent.
LEMMA OfferAnchorsOK ==
  ASSUME Keyed, NEW idle \in SUBSET BotId, NEW anchors \in SUBSET BotId,
         idle \cap anchors = {}
  PROVE  /\ \A o \in OfferAnchors(idle, anchors) : \E c \in idle, a \in anchors : o = {c, a}
         /\ Apart(OfferAnchors(idle, anchors))
         /\ \A c \in idle : \/ c \in UNION OfferAnchors(idle, anchors)
                            \/ NoneNear(c, anchors, OfferAnchors(idle, anchors))
<1> DEFINE order == InOrder(idle)
           n == Len(order)
           w == OfferWalk(order, anchors)
<1>1. Lists(order, idle)
  BY InOrderIs, Zenon
<1>2. /\ n \in Nat
      /\ \A x \in idle : \E i \in 1..n : order[i] = x
      /\ \A i \in 1..n : order[i] \in idle
  BY <1>1 DEF Lists
<1>3. w[0] = {} /\ \A k \in 1..n : w[k] = OfferTurn(order, anchors, k, w[k - 1])
  BY <1>1, OfferWalkIs
<1>4. OfferAnchors(idle, anchors) = w[n]
  BY OfferAnchorsIs, Zenon
<1> HIDE DEF w, order
<1> DEFINE Bad == {k \in 0..n : ~Offered(order, anchors, k, w[k])}
<1>5. Bad = {}
  <2> SUFFICES ASSUME Bad # {} PROVE FALSE
    OBVIOUS
  <2>1. Bad \in SUBSET Nat
    BY <1>2
  <2>2. PICK k \in Bad : \A x \in Bad : k <= x
    BY <2>1, LeastNat, Zenon
  <2>3. k \in 0..n /\ ~Offered(order, anchors, k, w[k])
    OBVIOUS
  <2>4. CASE k = 0
    <3>1. \A x : ~(x \in 1..0)
      OBVIOUS
    <3>2. Asked(order, anchors, 0, {})
      BY <3>1, Zenon DEF Asked
    <3>3. OffersOf(order, anchors, 0, {}) /\ Apart({})
      BY DEF OffersOf, Apart
    <3>4. QED
      BY <1>3, <2>3, <2>4, <3>2, <3>3, Zenon DEF Offered
  <2>5. CASE k # 0
    <3>1. k \in 1..n /\ k - 1 \in 0..n /\ ~(k <= k - 1)
      BY <1>2, <2>3, <2>5
    <3>2. k - 1 \notin Bad
      BY <2>2, <3>1, Zenon
    <3>3. Offered(order, anchors, k - 1, w[k - 1])
      BY <3>1, <3>2
    <3>4. Offered(order, anchors, k, OfferTurn(order, anchors, k, w[k - 1]))
      BY <1>1, <3>1, <3>3, OfferOK, Zenon
    <3>5. QED
      BY <1>3, <2>3, <3>1, <3>4, Zenon
  <2>6. QED
    BY <2>4, <2>5
<1>6. Offered(order, anchors, n, OfferAnchors(idle, anchors))
  <2>1. n \in 0..n
    BY <1>2
  <2>2. n \notin Bad
    BY <1>5, Zenon
  <2>3. Offered(order, anchors, n, w[n])
    BY <2>1, <2>2
  <2>4. QED
    BY <1>4, <2>3, Zenon
<1>7. OffersOf(order, anchors, n, OfferAnchors(idle, anchors))
  BY <1>6, Zenon DEF Offered
<1>8. Asked(order, anchors, n, OfferAnchors(idle, anchors))
  BY <1>6, Zenon DEF Offered
<1>9. \A o \in OfferAnchors(idle, anchors) : \E c \in idle, a \in anchors : o = {c, a}
  BY <1>2, <1>7, Zenon DEF OffersOf
<1>10. \A c \in idle : \/ c \in UNION OfferAnchors(idle, anchors)
                       \/ NoneNear(c, anchors, OfferAnchors(idle, anchors))
  BY <1>2, <1>8, Zenon DEF Asked
<1>11. QED
  BY <1>6, <1>9, <1>10, Zenon DEF Offered

-----------------------------------------------------------------------------
(* What a tick makes of both.                                              *)

\* Two different bots of the pool, not both anchors
PairingOf(g, pool) == \E a, b \in pool : a # b /\ g = {a, b} /\ ~({a, b} \subseteq Anchor)

LEMMA PairedIs ==
  ASSUME NEW S, NEW done, PairsOf(done, S), NEW g \in done
  PROVE  PairingOf(g, S)
<1>1. PICK a, b \in S : a # b /\ g = {a, b} /\ Allowed(a, b)
  BY DEF PairsOf
<1>2. ~({a, b} \subseteq Anchor)
  BY <1>1, Zenon DEF Allowed
<1>3. QED
  BY <1>1, <1>2, Zenon DEF PairingOf

\* An offer that is accepted is the pairing.
LEMMA AcceptedIs ==
  ASSUME Keyed, NEW c \in BotId, NEW a \in BotId, NEW g \in PairBots({c, a})
  PROVE  g = {c, a} /\ PairingOf(g, {c, a})
<1>1. {c, a} \in SUBSET BotId
  OBVIOUS
<1>2. PairsOf(PairBots({c, a}), {c, a})
  BY <1>1, PairBotsOK, Zenon
<1>3. PICK x, y \in {c, a} : x # y /\ g = {x, y}
  BY <1>2, Zenon DEF PairsOf
<1>4. QED
  BY <1>2, <1>3, PairedIs

\* An offer the policy allows is accepted.
LEMMA AllowedAccepted ==
  ASSUME Keyed, NEW c \in BotId, NEW a \in BotId, c # a, Allowed(c, a)
  PROVE  {c, a} \in PairBots({c, a})
<1> DEFINE S == {c, a}
<1>1. S \in SUBSET BotId
  OBVIOUS
<1>2. \A x, y \in S \ UNION PairBots(S) : x # y => ~Allowed(x, y)
  BY <1>1, PairBotsOK, Zenon
<1>3. PairBots(S) # {}
  <2>1. ASSUME PairBots(S) = {} PROVE FALSE
    <3>1. UNION PairBots(S) = {}
      BY <2>1
    <3>2. c \in S \ UNION PairBots(S) /\ a \in S \ UNION PairBots(S)
      BY <3>1
    <3>3. QED
      BY <1>2, <3>2, Zenon
  <2>2. QED
    BY <2>1
<1>4. PICK g : g \in PairBots(S)
  BY <1>3
<1>5. g = S
  BY <1>4, AcceptedIs, Zenon
<1>6. QED
  BY <1>4, <1>5, Zenon

PairingsSound(pairings, pool) ==
  /\ \A g \in pairings : PairingOf(g, pool)
  /\ Apart(pairings)

\* Of two competitors left out, neither may meet the other; and one left out that
\* has waited finds no anchor near.
LeftOut(pairings, pool) ==
  /\ \A a, b \in (pool \ Anchor) \ UNION pairings : a # b => ~Allowed(a, b)
  /\ \A c \in (pool \ Anchor) \ UNION pairings : unpaired_ticks[c] >= RelaxAfter =>
       \A a \in pool \cap Anchor : ~ShouldOfferAnchor(c, a)

LEMMA PairingsOK ==
  ASSUME Keyed, NEW pool \in SUBSET BotId
  PROVE  PairingsSound(Pairings(pool), pool) /\ LeftOut(Pairings(pool), pool)
<1> DEFINE competitors == pool \ Anchor
           anchors == pool \cap Anchor
           paired == PairBots(competitors)
           idle == competitors \ UNION paired
           offers == OfferAnchors(idle, anchors)
           all == paired \cup UNION {PairBots(o) : o \in offers}
<1>1. Pairings(pool) = all
  BY Zenon DEF Pairings
<1>2. /\ competitors \in SUBSET BotId /\ anchors \in SUBSET BotId /\ idle \in SUBSET BotId
      /\ competitors \in SUBSET pool /\ anchors \in SUBSET pool /\ idle \in SUBSET competitors
      /\ anchors \in SUBSET Anchor
  OBVIOUS
<1>3. competitors \cap Anchor = {} /\ idle \cap anchors = {} /\ idle \cap UNION paired = {}
  OBVIOUS
<1> HIDE DEF competitors, anchors
<1>4. /\ PairsOf(paired, competitors)
      /\ Apart(paired)
      /\ \A a, b \in idle : a # b => ~Allowed(a, b)
  BY <1>2, PairBotsOK, Zenon
<1> HIDE DEF paired
<1> HIDE DEF idle
<1>5. /\ \A o \in offers : \E c \in idle, a \in anchors : o = {c, a}
      /\ Apart(offers)
      /\ \A c \in idle : c \in UNION offers \/ NoneNear(c, anchors, offers)
  BY <1>2, <1>3, OfferAnchorsOK
<1> HIDE DEF offers
<1>6. ASSUME NEW g \in all, g \notin paired
      PROVE  g \in offers /\ \E c \in idle, a \in anchors : g = {c, a} /\ PairingOf(g, {c, a})
  <2>1. PICK o \in offers : g \in PairBots(o)
    BY <1>6
  <2>2. PICK c \in idle, a \in anchors : o = {c, a}
    BY <1>5, <2>1, Zenon
  <2>3. c \in BotId /\ a \in BotId
    BY <1>2
  <2>4. g = {c, a} /\ PairingOf(g, {c, a})
    BY <2>1, <2>2, <2>3, AcceptedIs, Zenon
  <2>5. QED
    BY <2>1, <2>2, <2>4, Zenon
<1>7. ASSUME NEW g \in all PROVE PairingOf(g, pool)
  <2>1. CASE g \in paired
    <3>1. PairingOf(g, competitors)
      BY <1>4, <2>1, PairedIs, Zenon
    <3>2. QED
      BY <1>2, <3>1 DEF PairingOf
  <2>2. CASE g \notin paired
    <3>1. PICK c \in idle, a \in anchors : PairingOf(g, {c, a})
      BY <1>6, <2>2, Zenon
    <3>2. c \in pool /\ a \in pool
      BY <1>2
    <3>3. QED
      BY <3>1, <3>2 DEF PairingOf
  <2>3. QED
    BY <2>1, <2>2
<1>8. ASSUME NEW g \in all, NEW h \in all, g # h PROVE g \cap h = {}
  <2>1. \A x \in paired : x \subseteq competitors /\ x \subseteq UNION paired
    BY <1>4 DEF PairsOf
  <2>2. \A x \in paired : \A c \in idle, a \in anchors : x \cap {c, a} = {} /\ {c, a} \cap x = {}
    BY <1>2, <1>3, <2>1
  <2>3. CASE g \in paired /\ h \in paired
    BY <1>4, <1>8, <2>3, Zenon DEF Apart
  <2>4. CASE g \in paired /\ h \notin paired
    BY <1>6, <2>2, <2>4, Zenon
  <2>5. CASE g \notin paired /\ h \in paired
    BY <1>6, <2>2, <2>5, Zenon
  <2>6. CASE g \notin paired /\ h \notin paired
    BY <1>5, <1>6, <1>8, <2>6, Zenon DEF Apart
  <2>7. QED
    BY <2>3, <2>4, <2>5, <2>6
<1>9. ASSUME NEW c \in competitors \ UNION all PROVE c \in idle
  BY DEF idle
<1>10. ASSUME NEW c \in competitors \ UNION all, unpaired_ticks[c] >= RelaxAfter,
              NEW a \in anchors, ShouldOfferAnchor(c, a)
       PROVE  FALSE
  <2>1. c \in idle /\ c \in BotId /\ c \notin Anchor
    BY <1>2, <1>3, <1>9
  <2>2. ASSUME NEW x \in BotId, x # c PROVE Allowed(c, x)
    BY <1>10, <2>1 DEF Allowed, Relaxed
  <2>3. \A x \in idle : x = c
    BY <1>2, <1>4, <2>1, <2>2
  <2>4. UNION offers # {}
    <3>1. CASE c \in UNION offers
      BY <3>1
    <3>2. CASE NoneNear(c, anchors, offers)
      BY <1>10, <3>2, Zenon DEF NoneNear
    <3>3. QED
      BY <1>5, <2>1, <3>1, <3>2, Zenon
  <2>5. PICK o \in offers : TRUE
    BY <2>4
  <2>6. PICK x \in anchors : o = {c, x}
    BY <1>5, <2>3, Zenon
  <2>7. x \in BotId /\ c # x
    BY <1>2, <2>1
  <2>8. o \in PairBots(o)
    BY <2>1, <2>2, <2>6, <2>7, AllowedAccepted
  <2>9. o \in all /\ c \in o
    BY <2>6, <2>8
  <2>10. QED
    BY <2>9
<1>11. PairingsSound(all, pool)
  BY <1>7, <1>8 DEF PairingsSound, Apart
<1>12. \A a, b \in competitors \ UNION all : a # b => ~Allowed(a, b)
  BY <1>4, <1>9
<1> HIDE DEF all
<1>13. LeftOut(all, pool)
  BY <1>10, <1>12 DEF LeftOut, competitors, anchors
<1>14. QED
  BY <1>1, <1>11, <1>13

-----------------------------------------------------------------------------
(* The seats.                                                              *)

\* Whoever has a game has it with its players, and nobody else has it.
SeatedIn(s) ==
  \A b \in BotId : s[b] # NoGame =>
    PairingOf(s[b], BotId) /\ \A x \in BotId : s[x] = s[b] <=> x \in s[b]

LEMMA PairingIsGame ==
  ASSUME NEW pool \in SUBSET BotId, NEW g, PairingOf(g, pool)
  PROVE  g \in Game /\ g \subseteq pool /\ g # NoGame /\ PairingOf(g, BotId)
<1>1. PICK a, b \in pool : a # b /\ g = {a, b} /\ ~({a, b} \subseteq Anchor)
  BY DEF PairingOf
<1>2. a \in BotId /\ b \in BotId
  OBVIOUS
<1>3. g \in Game
  BY <1>1, <1>2, PairIsGame, Zenon
<1>4. g # NoGame
  BY <1>3, MatchmakerAssumption
<1>5. QED
  BY <1>1, <1>2, <1>3, <1>4 DEF PairingOf

\* A commit seats the players of disjoint pairs who all were free.
LEMMA SeatsTaken ==
  ASSUME NEW s, SeatedIn(s), NEW pool \in SUBSET BotId, \A b \in pool : s[b] = NoGame,
         NEW made, \A g \in made : PairingOf(g, pool), Apart(made),
         NEW t, t = [b \in BotId |-> IF b \in UNION made
                                     THEN CHOOSE g \in made : b \in g ELSE s[b]]
  PROVE  SeatedIn(t) /\ \A b \in UNION made : b \in BotId /\ t[b] \in made
<1>1. \A g \in made : g \in Game /\ g \subseteq pool /\ g # NoGame /\ PairingOf(g, BotId)
  BY PairingIsGame, Zenon
<1>2. ASSUME NEW g \in made, NEW b \in g PROVE t[b] = g /\ b \in BotId /\ s[b] = NoGame
  <2>1. b \in BotId /\ b \in pool /\ b \in UNION made
    BY <1>1
  <2>2. t[b] = CHOOSE h \in made : b \in h
    BY <2>1
  <2>3. \A h \in made : b \in h => h = g
    BY <1>2 DEF Apart
  <2>4. QED
    BY <2>1, <2>2, <2>3
<1>3. \A b \in BotId : b \notin UNION made => t[b] = s[b]
  OBVIOUS
<1>4. ASSUME NEW b \in UNION made PROVE b \in BotId /\ b \in t[b] /\ t[b] \in made
  BY <1>2
<1>5. ASSUME NEW b \in BotId, t[b] # NoGame
      PROVE  PairingOf(t[b], BotId) /\ \A x \in BotId : t[x] = t[b] <=> x \in t[b]
  <2>1. CASE b \in UNION made
    <3>1. PICK g \in made : b \in g /\ t[b] = g
      BY <1>4, <2>1
    <3>2. ASSUME NEW x \in BotId, t[x] = g PROVE x \in g
      <4>1. CASE x \in UNION made
        BY <1>4, <3>2, <4>1
      <4>2. CASE x \notin UNION made
        <5>1. s[x] = g /\ g # NoGame
          BY <1>1, <1>3, <3>2, <4>2
        <5>2. s[b] = g
          BY <3>1, <5>1 DEF SeatedIn
        <5>3. QED
          BY <1>2, <3>1, <5>1, <5>2
      <4>3. QED
        BY <4>1, <4>2
    <3>3. QED
      BY <1>1, <1>2, <3>1, <3>2
  <2>2. CASE b \notin UNION made
    <3>1. t[b] = s[b] /\ s[b] # NoGame
      BY <1>3, <1>5, <2>2
    <3>2. PairingOf(s[b], BotId) /\ \A x \in BotId : s[x] = s[b] <=> x \in s[b]
      BY <3>1 DEF SeatedIn
    <3>3. ASSUME NEW x \in BotId, x \in s[b] PROVE t[x] = s[b]
      <4>1. s[x] = s[b]
        BY <3>2, <3>3
      <4>2. x \notin UNION made
        BY <1>2, <3>1, <4>1
      <4>3. QED
        BY <1>3, <4>1, <4>2
    <3>4. ASSUME NEW x \in BotId, t[x] = s[b] PROVE x \in s[b]
      <4>1. CASE x \in UNION made
        BY <1>4, <3>4, <4>1
      <4>2. CASE x \notin UNION made
        BY <1>3, <3>2, <3>4, <4>2
      <4>3. QED
        BY <4>1, <4>2
    <3>5. QED
      BY <3>1, <3>2, <3>3, <3>4
  <2>3. QED
    BY <2>1, <2>2
<1> HIDE DEF SeatedIn
<1>6. SeatedIn(t)
  BY <1>5 DEF SeatedIn
<1>7. QED
  BY <1>4, <1>6

\* A game that ends leaves the others as they are.
LEMMA SeatsLeft ==
  ASSUME NEW s, SeatedIn(s), NEW c \in BotId, s[c] # NoGame,
         NEW t, t = [b \in BotId |-> IF b \in s[c] THEN NoGame ELSE s[b]]
  PROVE  SeatedIn(t)
<1>1. ASSUME NEW b \in BotId, t[b] # NoGame
      PROVE  PairingOf(t[b], BotId) /\ \A x \in BotId : t[x] = t[b] <=> x \in t[b]
  <2>1. b \notin s[c] /\ t[b] = s[b] /\ s[b] # NoGame
    BY <1>1
  <2>2. PairingOf(s[b], BotId) /\ \A x \in BotId : s[x] = s[b] <=> x \in s[b]
    BY <2>1 DEF SeatedIn
  <2>3. s[b] # s[c]
    BY <2>1, <2>2
  <2>4. ASSUME NEW x \in BotId PROVE t[x] = s[b] <=> x \in s[b]
    <3>1. x \in s[b] => s[x] = s[b]
      BY <2>2
    <3>2. x \in s[c] => s[x] = s[c]
      BY DEF SeatedIn
    <3>3. t[x] = IF x \in s[c] THEN NoGame ELSE s[x]
      OBVIOUS
    <3>4. QED
      BY <2>1, <2>2, <2>3, <3>1, <3>2, <3>3
  <2>5. QED
    BY <2>1, <2>2, <2>4
<1>2. QED
  BY <1>1 DEF SeatedIn

-----------------------------------------------------------------------------
(* The columns.                                                            *)

Columns(N) == [BotId -> [games_played : N, last_opponent_id : BotId \cup {NoBot}]]

LEMMA RelativeType ==
  ASSUME NEW columns \in Columns(Nat)
  PROVE  Relative(columns) \in Columns(0..MaxSpread)
<1> DEFINE played == {columns[b].games_played : b \in Competitor}
           games == LeastOf(played)
<1>1. \A b \in BotId : /\ columns[b].games_played \in Nat
                       /\ columns[b].last_opponent_id \in BotId \cup {NoBot}
                       /\ columns[b] \in [games_played : Nat,
                                          last_opponent_id : BotId \cup {NoBot}]
  BY DEF Columns
<1>2. played \in SUBSET Nat
  BY <1>1 DEF Competitor
<1>3. MaxSpread \in Nat
  BY MatchmakerAssumption
<1>4. ASSUME NEW b \in BotId
      PROVE  (IF b \in Anchor THEN 0 ELSE Capped(columns[b].games_played - games))
               \in 0..MaxSpread
  <2>1. CASE b \in Anchor
    BY <1>3, <2>1
  <2>2. CASE b \notin Anchor
    <3>1. columns[b].games_played \in played
      BY <2>2 DEF Competitor
    <3>2. played # {}
      BY <3>1
    <3>3. games \in played /\ \A m \in played : games <= m
      BY <1>2, <3>2, LeastOfIs, Zenon
    <3>4. games \in Nat /\ games <= columns[b].games_played /\ columns[b].games_played \in Nat
      BY <1>2, <3>1, <3>3
    <3> HIDE DEF games, played
    <3>5. Capped(columns[b].games_played - games) \in 0..MaxSpread
      BY <1>3, <3>4 DEF Capped
    <3>6. QED
      BY <2>2, <3>5
  <2>3. QED
    BY <2>1, <2>2
<1>5. Relative(columns) =
        [b \in BotId |-> [columns[b] EXCEPT !.games_played =
           IF b \in Anchor THEN 0 ELSE Capped(columns[b].games_played - games)]]
  BY DEF Relative
<1> HIDE DEF games
<1>6. QED
  BY <1>1, <1>4, <1>5 DEF Columns

LEMMA RememberingType ==
  ASSUME NEW columns \in Columns(Nat), NEW game, PairingOf(game, BotId)
  PROVE  /\ Remembering(columns, game) \in Columns(Nat)
         /\ Counted(Remembering(columns, game), game) \in Columns(Nat)
<1>1. PICK x, y \in BotId : x # y /\ game = {x, y}
  BY DEF PairingOf
<1>2. ASSUME NEW b \in game PROVE (CHOOSE z \in game : z # b) \in BotId
  <2>1. \E z \in game : z # b
    BY <1>1
  <2>2. (CHOOSE z \in game : z # b) \in game
    BY <2>1
  <2>3. QED
    BY <1>1, <2>2
<1>3. Remembering(columns, game) \in Columns(Nat)
  BY <1>2 DEF Remembering, Columns
<1>4. ASSUME NEW c \in Columns(Nat) PROVE Counted(c, game) \in Columns(Nat)
  BY DEF Counted, Columns
<1>5. QED
  BY <1>3, <1>4

-----------------------------------------------------------------------------
(* The inductive invariant.                                                *)

\* What the open transaction works on: a pool of bots that are free, and the
\* policy's choice among them.
TickHolds ==
  IF tick.open
  THEN /\ \A b \in tick.pool : seats[b] = NoGame
       /\ PairingsSound(tick.made \cup tick.failed, tick.pool)
       /\ LeftOut(tick.made \cup tick.failed, tick.pool)
  ELSE tick = Closed

IInv == TypeOK /\ SeatedIn(seats) /\ TickHolds

LEMMA TypeKeyed == TypeOK => Keyed
<1> SUFFICES ASSUME TypeOK, NEW b \in BotId PROVE bots[b].games_played \in Int
  BY DEF Keyed
<1>1. bots[b].games_played \in 0..MaxSpread
  BY DEF TypeOK
<1>2. QED
  BY <1>1, MatchmakerAssumption

LEMMA ClosedType ==
  Closed \in [open : BOOLEAN, pool : SUBSET BotId, made : SUBSET Game, failed : SUBSET Game]
BY DEF Closed

LEMMA InitOK == Init => IInv
<1> SUFFICES ASSUME Init PROVE IInv
  OBVIOUS
<1>1. TypeOK
  <2>1. 0 \in 0..MaxSpread /\ 0 \in 0..RelaxAfter
    BY MatchmakerAssumption
  <2>2. QED
    BY <2>1, ClosedType DEF Init, TypeOK
<1>2. SeatedIn(seats)
  BY DEF Init, SeatedIn
<1>3. TickHolds
  BY DEF Init, TickHolds, Closed
<1>4. QED
  BY <1>1, <1>2, <1>3 DEF IInv

LEMMA TickBodyOK == IInv /\ TickBody => IInv'
<1> SUFFICES ASSUME IInv, TickBody PROVE IInv'
  OBVIOUS
<1>1. PICK failed \in SUBSET Pairings(Pool) :
        tick' = [open |-> TRUE, pool |-> Pool,
                 made |-> Pairings(Pool) \ failed, failed |-> failed]
  BY DEF TickBody
<1>2. UNCHANGED <<bots, seats, unpaired_ticks, polling>>
  BY DEF TickBody
<1>3. Keyed /\ Pool \in SUBSET BotId /\ \A b \in Pool : seats[b] = NoGame
  BY TypeKeyed DEF IInv, Pool
<1>4. PairingsSound(Pairings(Pool), Pool) /\ LeftOut(Pairings(Pool), Pool)
  BY <1>3, PairingsOK, Zenon
<1>5. PICK pairings, pool : pairings = Pairings(Pool) /\ pool = Pool
  OBVIOUS
<1>6. /\ tick'.open /\ tick'.pool = pool
      /\ tick'.made = pairings \ failed /\ tick'.failed = failed
      /\ failed \subseteq pairings
  BY <1>1, <1>5
<1>7. tick'.made \cup tick'.failed = pairings
  BY <1>6
<1>8. \A g \in pairings : g \in Game
  BY <1>3, <1>4, <1>5, PairingIsGame DEF PairingsSound
<1>9. TypeOK'
  <2>1. tick' \in [open : BOOLEAN, pool : SUBSET BotId, made : SUBSET Game,
                   failed : SUBSET Game]
    BY <1>1, <1>3, <1>5, <1>8
  <2>2. QED
    BY <1>2, <2>1 DEF IInv, TypeOK
<1>10. SeatedIn(seats')
  BY <1>2 DEF IInv
<1>11. LeftOut(pairings, pool)'
  BY <1>2, <1>4, <1>5 DEF LeftOut, Allowed, Relaxed
<1>12. TickHolds'
  BY <1>2, <1>3, <1>4, <1>5, <1>6, <1>7, <1>11 DEF TickHolds
<1>13. QED
  BY <1>9, <1>10, <1>12 DEF IInv

LEMMA CountType ==
  ASSUME NEW n \in 0..RelaxAfter, n < RelaxAfter
  PROVE  n + 1 \in 0..RelaxAfter
BY MatchmakerAssumption

\* A commit makes of each count nothing, one more or the same.
LEMMA CountersAre ==
  ASSUME TypeOK, RecordPairingOutcome, NEW b \in BotId
  PROVE  /\ unpaired_ticks'[b] \in 0..RelaxAfter
         /\ unpaired_ticks'[b] # unpaired_ticks[b] =>
              \/ b \in UNION tick.made /\ unpaired_ticks'[b] = 0
              \/ /\ b \in tick.pool /\ b \notin UNION tick.made
                 /\ unpaired_ticks'[b] = unpaired_ticks[b] + 1
<1>1. unpaired_ticks[b] \in 0..RelaxAfter /\ 0 \in 0..RelaxAfter
  BY MatchmakerAssumption DEF TypeOK
<1>2. unpaired_ticks'[b] =
        IF b \in UNION tick.made THEN 0
        ELSE IF b \in tick.pool /\ unpaired_ticks[b] < RelaxAfter
        THEN unpaired_ticks[b] + 1 ELSE unpaired_ticks[b]
  BY DEF RecordPairingOutcome
<1>3. QED
  BY <1>1, <1>2, CountType

\* A commit seats the pairs made and nobody else.
LEMMA CommitSeats ==
  ASSUME IInv, TickCommit
  PROVE  /\ SeatedIn(seats')
         /\ \A b \in UNION tick.made : seats'[b] \in tick.made
         /\ \A b \in BotId : b \notin UNION tick.made => seats'[b] = seats[b]
         /\ \A g \in tick.made : g \in Game /\ g # NoGame
         /\ \A b \in tick.pool : seats[b] = NoGame
<1>1. PICK s, t, made, pool : s = seats /\ t = seats' /\ made = tick.made /\ pool = tick.pool
  OBVIOUS
<1>2. t = [b \in BotId |-> IF b \in UNION made THEN CHOOSE g \in made : b \in g ELSE s[b]]
  BY <1>1 DEF TickCommit
<1>3. tick.open /\ pool \in SUBSET BotId /\ SeatedIn(s)
  BY <1>1 DEF IInv, TypeOK, TickCommit
<1>4. (\A b \in pool : s[b] = NoGame) /\ PairingsSound(made \cup tick.failed, pool)
  BY <1>1, <1>3 DEF IInv, TickHolds
<1>5. (\A g \in made : PairingOf(g, pool)) /\ Apart(made)
  BY <1>4 DEF PairingsSound, Apart
<1>6. SeatedIn(t) /\ \A b \in UNION made : b \in BotId /\ t[b] \in made
  BY <1>2, <1>3, <1>4, <1>5, SeatsTaken, Zenon
<1>7. \A g \in made : g \in Game /\ g # NoGame
  BY <1>3, <1>5, PairingIsGame, Zenon
<1>8. \A b \in BotId : b \notin UNION made => t[b] = s[b]
  BY <1>2
<1>9. QED
  BY <1>1, <1>4, <1>6, <1>7, <1>8

LEMMA TickCommitOK == IInv /\ TickCommit => IInv'
<1> SUFFICES ASSUME IInv, TickCommit PROVE IInv'
  OBVIOUS
<1>1. /\ SeatedIn(seats')
      /\ \A b \in UNION tick.made : seats'[b] \in tick.made
      /\ \A b \in BotId : b \notin UNION tick.made => seats'[b] = seats[b]
      /\ \A g \in tick.made : g \in Game
  BY CommitSeats
<1>2. seats' \in [BotId -> Game \cup {NoGame}]
  <2>1. seats' = [b \in BotId |-> seats'[b]]
    BY DEF TickCommit
  <2>2. \A b \in BotId : seats[b] \in Game \cup {NoGame}
    BY DEF IInv, TypeOK
  <2>3. \A b \in BotId : seats'[b] \in Game \cup {NoGame}
    BY <1>1, <2>2
  <2>4. QED
    BY <2>1, <2>3
<1>3. unpaired_ticks' \in [BotId -> 0..RelaxAfter]
  <2>1. \A b \in BotId : unpaired_ticks'[b] \in 0..RelaxAfter
    BY CountersAre DEF IInv, TickCommit
  <2>2. unpaired_ticks' = [b \in BotId |-> unpaired_ticks'[b]]
    BY DEF TickCommit, RecordPairingOutcome
  <2>3. QED
    BY <2>1, <2>2
<1>4. tick' = Closed /\ UNCHANGED <<bots, polling>>
  BY DEF TickCommit
<1>5. TypeOK'
  BY <1>2, <1>3, <1>4, ClosedType DEF IInv, TypeOK
<1>6. TickHolds'
  BY <1>4 DEF TickHolds, Closed
<1>7. QED
  BY <1>1, <1>5, <1>6 DEF IInv

LEMMA TickRollbackOK == IInv /\ TickRollback => IInv'
<1> SUFFICES ASSUME IInv, TickRollback PROVE IInv'
  OBVIOUS
<1>1. tick' = Closed /\ UNCHANGED <<bots, seats, unpaired_ticks, polling>>
  BY DEF TickRollback
<1>2. TypeOK'
  BY <1>1, ClosedType DEF IInv, TypeOK
<1>3. SeatedIn(seats')
  BY <1>1 DEF IInv
<1>4. TickHolds'
  BY <1>1 DEF TickHolds, Closed
<1>5. QED
  BY <1>2, <1>3, <1>4 DEF IInv

LEMMA GameEndsOK ==
  ASSUME IInv, NEW game \in Games, GameEnds(game)
  PROVE  IInv'
<1>1. PICK c \in BotId : game = seats[c] /\ seats[c] # NoGame
  BY DEF Games
<1>2. seats' = [b \in BotId |-> IF b \in game THEN NoGame ELSE seats[b]]
  BY DEF GameEnds
<1>3. tick = Closed /\ UNCHANGED <<unpaired_ticks, polling, tick>>
  BY DEF GameEnds, IInv, TickHolds
<1>4. SeatedIn(seats')
  <2>1. PICK s, t : s = seats /\ t = seats'
    OBVIOUS
  <2>2. t = [b \in BotId |-> IF b \in s[c] THEN NoGame ELSE s[b]] /\ SeatedIn(s) /\ s[c] # NoGame
    BY <1>1, <1>2, <2>1 DEF IInv
  <2>3. SeatedIn(t)
    BY <2>2, SeatsLeft, Zenon
  <2>4. QED
    BY <2>1, <2>3
<1>5. PairingOf(game, BotId)
  BY <1>1 DEF IInv, SeatedIn
<1>6. bots' \in Columns(0..MaxSpread)
  <2>1. bots \in Columns(Nat)
    <3>1. \A n \in 0..MaxSpread : n \in Nat
      BY MatchmakerAssumption
    <3>2. QED
      BY <3>1 DEF IInv, TypeOK, Columns
  <2>2. PICK columns \in {Remembering(bots, game), Counted(Remembering(bots, game), game)} :
          bots' = Relative(columns)
    BY DEF GameEnds
  <2>3. columns \in Columns(Nat)
    BY <1>5, <2>1, <2>2, RememberingType
  <2>4. QED
    BY <2>2, <2>3, RelativeType
<1>7. seats' \in [BotId -> Game \cup {NoGame}]
  BY <1>2 DEF IInv, TypeOK
<1>8. TypeOK'
  BY <1>3, <1>6, <1>7 DEF IInv, TypeOK, Columns
<1>9. TickHolds'
  BY <1>3 DEF TickHolds, Closed
<1>10. QED
  BY <1>4, <1>8, <1>9 DEF IInv

LEMMA PollingOK ==
  ASSUME IInv, NEW b \in Competitor, Polls(b) \/ Lapses(b)
  PROVE  IInv'
<1>1. UNCHANGED <<bots, seats, unpaired_ticks, tick>> /\ polling' \in SUBSET Competitor
  BY DEF Polls, Lapses, IInv, TypeOK
<1>2. TypeOK'
  BY <1>1 DEF IInv, TypeOK
<1>3. TickHolds'
  BY <1>1 DEF IInv, TickHolds, LeftOut, Allowed, Relaxed
<1>4. QED
  BY <1>1, <1>2, <1>3 DEF IInv

LEMMA RestartOK == IInv /\ Restart => IInv'
<1> SUFFICES ASSUME IInv, Restart PROVE IInv'
  OBVIOUS
<1>1. /\ seats' = [b \in BotId |-> NoGame]
      /\ unpaired_ticks' = [b \in BotId |-> 0]
      /\ polling' = {} /\ tick' = Closed /\ UNCHANGED bots
  BY DEF Restart
<1>2. TypeOK'
  <2>1. 0 \in 0..RelaxAfter
    BY MatchmakerAssumption
  <2>2. QED
    BY <1>1, <2>1, ClosedType DEF IInv, TypeOK
<1>3. SeatedIn(seats')
  BY <1>1 DEF SeatedIn
<1>4. TickHolds'
  BY <1>1 DEF TickHolds, Closed
<1>5. QED
  BY <1>2, <1>3, <1>4 DEF IInv

LEMMA StepOK == IInv /\ [Next]_vars => IInv'
<1> SUFFICES ASSUME IInv, [Next]_vars PROVE IInv'
  OBVIOUS
<1>1. CASE UNCHANGED vars
  BY <1>1 DEF vars, IInv, TypeOK, TickHolds, LeftOut, Allowed, Relaxed
<1>2. CASE TickBody \/ TickCommit \/ TickRollback \/ Restart
  BY <1>2, TickBodyOK, TickCommitOK, TickRollbackOK, RestartOK
<1>3. CASE \E game \in Games : GameEnds(game)
  BY <1>3, GameEndsOK
<1>4. CASE \E b \in Competitor : Polls(b) \/ Lapses(b)
  BY <1>4, PollingOK
<1>5. QED
  BY <1>1, <1>2, <1>3, <1>4 DEF Next

-----------------------------------------------------------------------------
(* The theorems.                                                           *)

LEMMA Inductive == Spec => []IInv
BY InitOK, StepOK, PTL DEF Spec

LEMMA SoundNow == IInv => PairingSound
<1> SUFFICES ASSUME IInv PROVE PairingSound
  OBVIOUS
<1>1. SeatsPaired
  <2>1. ASSUME NEW game \in Games
        PROVE  /\ \A b \in BotId : seats[b] = game <=> b \in game
               /\ ~(game \subseteq Anchor)
    <3>1. PICK c \in BotId : game = seats[c] /\ seats[c] # NoGame
      BY DEF Games
    <3>2. PairingOf(game, BotId) /\ \A b \in BotId : seats[b] = game <=> b \in game
      BY <3>1 DEF IInv, SeatedIn
    <3>3. QED
      BY <3>2 DEF PairingOf
  <2>2. \A g, h \in tick.made : g # h => g \cap h = {}
    <3>1. CASE tick.open
      BY <3>1 DEF IInv, TickHolds, PairingsSound, Apart
    <3>2. CASE ~tick.open
      BY <3>2 DEF IInv, TickHolds, Closed
    <3>3. QED
      BY <3>1, <3>2
  <2>3. QED
    BY <2>1, <2>2 DEF SeatsPaired
<1>2. Maximal
  BY DEF IInv, TickHolds, LeftOut, Maximal, LeftIdle, Competitor
<1>3. QED
  BY <1>1, <1>2 DEF PairingSound, IInv

\* Whatever the pool, the policy and the units that fail: bots are paired one to
\* one and seated together, and no two are left that were allowed to meet.
THEOREM PairingSoundAlways == Spec => []PairingSound
BY Inductive, SoundNow, PTL

LEMMA WaitsAloneNow == IInv => RelaxedWaitsAlone
<1> SUFFICES ASSUME IInv, tick.open, NEW c \in LeftIdle \cap Competitor,
                    unpaired_ticks[c] >= RelaxAfter
             PROVE  /\ LeftIdle \cap Competitor = {c}
                    /\ \A a \in tick.pool \cap Anchor : ~ShouldOfferAnchor(c, a)
  BY DEF RelaxedWaitsAlone
<1> DEFINE left == (tick.pool \ Anchor) \ UNION (tick.made \cup tick.failed)
<1>1. LeftOut(tick.made \cup tick.failed, tick.pool)
  BY DEF IInv, TickHolds
<1>2. LeftIdle \cap Competitor \subseteq left
  BY DEF LeftIdle, Competitor
<1>3. \A a \in tick.pool \cap Anchor : ~ShouldOfferAnchor(c, a)
  BY <1>1, <1>2 DEF LeftOut
<1>4. ASSUME NEW x \in LeftIdle \cap Competitor, x # c PROVE FALSE
  <2>1. ~Allowed(c, x)
    BY <1>1, <1>2, <1>4 DEF LeftOut
  <2>2. c \notin Anchor
    BY DEF Competitor
  <2>3. QED
    BY <2>1, <2>2 DEF Allowed, Relaxed
<1>5. QED
  BY <1>3, <1>4

\* A competitor that has waited long enough is left out only alone and with no
\* anchor of the pool near.
THEOREM RelaxedWaitsAloneAlways == Spec => []RelaxedWaitsAlone
BY Inductive, WaitsAloneNow, PTL

\* A counter goes up only with a commit that leaves its bot without a seat, and to
\* nothing only with one that seats it, or with the process.
THEOREM CountersFollowSeatsAlways == Spec => CountersFollowSeats
<1> DEFINE Follows ==
      \A b \in BotId : unpaired_ticks'[b] # unpaired_ticks[b] =>
        \/ unpaired_ticks'[b] = unpaired_ticks[b] + 1 /\ TickCommit /\ seats'[b] = NoGame
        \/ unpaired_ticks'[b] = 0 /\ (seats'[b] # NoGame \/ Restart)
<1>1. IInv /\ [Next]_vars => [Follows]_vars
  <2> SUFFICES ASSUME IInv, [Next]_vars PROVE [Follows]_vars
    OBVIOUS
  <2>1. CASE TickCommit
    <3>1. ASSUME NEW b \in BotId, unpaired_ticks'[b] # unpaired_ticks[b]
          PROVE  \/ unpaired_ticks'[b] = unpaired_ticks[b] + 1 /\ seats'[b] = NoGame
                 \/ unpaired_ticks'[b] = 0 /\ seats'[b] # NoGame
      <4>1. \/ b \in UNION tick.made /\ unpaired_ticks'[b] = 0
            \/ /\ b \in tick.pool /\ b \notin UNION tick.made
               /\ unpaired_ticks'[b] = unpaired_ticks[b] + 1
        BY <2>1, <3>1, CountersAre DEF IInv, TickCommit
      <4>2. /\ b \in UNION tick.made => seats'[b] \in tick.made
            /\ b \notin UNION tick.made => seats'[b] = seats[b]
            /\ \A g \in tick.made : g # NoGame
            /\ b \in tick.pool => seats[b] = NoGame
        BY <2>1, CommitSeats
      <4>3. QED
        BY <4>1, <4>2
    <3>2. QED
      BY <2>1, <3>1
  <2>2. CASE Restart
    <3>1. \A b \in BotId : unpaired_ticks'[b] = 0
      BY <2>2 DEF Restart
    <3>2. QED
      BY <2>2, <3>1
  <2>3. CASE TickBody \/ TickRollback
    BY <2>3 DEF TickBody, TickRollback
  <2>4. CASE \E game \in Games : GameEnds(game)
    BY <2>4 DEF GameEnds
  <2>5. CASE \E b \in Competitor : Polls(b) \/ Lapses(b)
    BY <2>5 DEF Polls, Lapses
  <2>6. QED
    BY <2>1, <2>2, <2>3, <2>4, <2>5 DEF Next, vars
<1>2. QED
  BY <1>1, Inductive, PTL DEF Spec, CountersFollowSeats

=============================================================================
