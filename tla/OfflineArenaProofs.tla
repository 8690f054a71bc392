-------------------------- MODULE OfflineArenaProofs --------------------------
(***************************************************************************)
(* Proofs about the starter kit's arena, for any bots, numbers of games,   *)
(* time control and increment, and any cap on the plies:                   *)
(*                                                                         *)
(*   ThinkingIsPaidAlways    every instant a bot thinks is paid for        *)
(*   BlamesTheMoverAlways    the bot that is called and blamed is the      *)
(*                           mover's                                       *)
(*   PlaysAMatchAlways       every game is one that chess_core.match       *)
(*                           allows: the refinement, step by step          *)
(*   ReportSoundAlways       the schedule is fair, and the printed table   *)
(*                           is what the list of results gives             *)
(*                                                                         *)
(* The first three rest on IInv, which places the loop of run_single_game  *)
(* between its program points: the clock runs for the side to move, and a  *)
(* bot is only called in an undecided position on a delivered clock.  The  *)
(* last needs what three recursions compute (the flattened schedule, the   *)
(* ratings replayed game by game, and the sum of a table).  An induction   *)
(* over data is done here as a least counterexample: of the sizes at which *)
(* a claim fails there would be a least one, and the recursion reduces it  *)
(* to a smaller one.                                                       *)
(***************************************************************************)
EXTENDS OfflineArena, SequenceTheorems, FiniteSetTheorems, NaturalsInduction,
        WellFoundedInduction, TLAPS

-----------------------------------------------------------------------------
(* What FlattenSeq returns: its argument's sequences, one after another.   *)
(* The library defines it by recursion, so what is shown of it is shown by *)
(* a least counterexample.                                                 *)

\* A set of numbers that is not empty has a least one.
LEMMA LeastNat ==
  ASSUME NEW S \in SUBSET Nat, S # {}
  PROVE  \E n \in S : \A m \in S : n <= m
<1> DEFINE R == OpToRel(<, Nat)
<1>1. \A m, n \in Nat : m < n => <<m, n>> \in R
  BY SMT DEF OpToRel
<1>2. IsWellFoundedOn(R, Nat)
  BY NatLessThanWellFounded, Zenon
<1> HIDE DEF R
<1>3. PICK n \in S : \A m \in S : ~(<<m, n>> \in R)
  BY <1>2, WFMin
<1>4. \A m \in S : ~(m < n)
  BY <1>1, <1>3
<1>5. QED
  BY <1>4

\* The concatenations of the first sequences, by their number
Concats(seqs) ==
  CHOOSE f : f = [i \in 1..Len(seqs) |-> IF i = 1 THEN seqs[i] ELSE f[i - 1] \o seqs[i]]

\* FlattenSeq is the last of the concatenations of its argument.
LEMMA FlattenIs ==
  ASSUME NEW seqs, Len(seqs) # 0
  PROVE  FlattenSeq(seqs) = Concats(seqs)[Len(seqs)]
BY Zenon DEF FlattenSeq, Concats

ConcatsTo(f, seqs, n) ==
  /\ DOMAIN f = 1..n
  /\ \A i \in 1..n : f[i] = IF i = 1 THEN seqs[i] ELSE f[i - 1] \o seqs[i]

\* There are concatenations up to any number of the sequences.
LEMMA ConcatsToExist ==
  ASSUME NEW seqs
  PROVE  \A n \in Nat : \E f : ConcatsTo(f, seqs, n)
<1> DEFINE Bad == {n \in Nat : ~ \E f : ConcatsTo(f, seqs, n)}
<1> SUFFICES ASSUME Bad # {} PROVE FALSE
  OBVIOUS
<1>1. PICK n \in Bad : \A m \in Bad : n <= m
  BY LeastNat
<1>2. n # 0
  <2>1. ConcatsTo([i \in 1..0 |-> seqs], seqs, 0)
    BY DEF ConcatsTo
  <2>2. QED
    BY <1>1, <2>1
<1>3. n - 1 \in Nat /\ n - 1 \notin Bad
  BY <1>1, <1>2
<1>4. PICK f : ConcatsTo(f, seqs, n - 1)
  BY <1>3
<1> DEFINE Step(i) == IF i = 1 THEN seqs[i] ELSE f[i - 1] \o seqs[i]
           g == [i \in 1..n |-> Step(i)]
<1>5. ASSUME NEW i \in 1..(n - 1) PROVE f[i] = Step(i)
  BY <1>4 DEF ConcatsTo
<1>6. ASSUME NEW i \in 1..n, i # 1 PROVE g[i - 1] = f[i - 1]
  <2>1. i - 1 \in 1..(n - 1) /\ i - 1 \in 1..n
    BY <1>1, <1>6
  <2>2. QED
    BY <1>5, <2>1
<1>7. ASSUME NEW i \in 1..n
      PROVE  g[i] = IF i = 1 THEN seqs[i] ELSE g[i - 1] \o seqs[i]
  BY <1>6
<1>8. DOMAIN g = 1..n
  OBVIOUS
<1> HIDE DEF g
<1>9. ConcatsTo(g, seqs, n)
  BY <1>7, <1>8 DEF ConcatsTo
<1>10. QED
  BY <1>1, <1>9

\* Each concatenation is the one before it, and one sequence more.
LEMMA ConcatsAre ==
  ASSUME NEW seqs, Len(seqs) \in Nat
  PROVE  ConcatsTo(Concats(seqs), seqs, Len(seqs))
<1>1. PICK f : ConcatsTo(f, seqs, Len(seqs))
  BY ConcatsToExist
<1> DEFINE Solves(h) ==
      h = [i \in 1..Len(seqs) |-> IF i = 1 THEN seqs[i] ELSE h[i - 1] \o seqs[i]]
<1>2. \E h : h = [i \in 1..Len(seqs) |-> f[i]] /\ Solves(h)
  <2> DEFINE h == [i \in 1..Len(seqs) |-> f[i]]
  <2>1. ASSUME NEW i \in 1..Len(seqs)
        PROVE  h[i] = IF i = 1 THEN seqs[i] ELSE h[i - 1] \o seqs[i]
    <3>1. f[i] = IF i = 1 THEN seqs[i] ELSE f[i - 1] \o seqs[i]
      BY <1>1 DEF ConcatsTo
    <3>2. i # 1 => i - 1 \in 1..Len(seqs)
      OBVIOUS
    <3>3. QED
      BY <3>1, <3>2
  <2> HIDE DEF h
  <2>2. h = [i \in 1..Len(seqs) |-> IF i = 1 THEN seqs[i] ELSE h[i - 1] \o seqs[i]]
    BY <2>1 DEF h
  <2>3. QED
    BY <2>2 DEF h
<1>3. Solves(Concats(seqs))
  BY <1>2, Zenon DEF Concats
<1>4. QED
  BY <1>3 DEF ConcatsTo

\* F is the first n of seqs one after another: the k-th ends at off[k].
Blocks(F, seqs, n, off) ==
  /\ off \in [0..n -> Nat]
  /\ off[0] = 0
  /\ Len(F) = off[n]
  /\ \A k \in 1..n : off[k] = off[k - 1] + Len(seqs[k])
  /\ \A k \in 1..n : \A i \in 1..Len(seqs[k]) : F[off[k - 1] + i] = seqs[k][i]
  /\ \A k \in 0..n : off[k] <= off[n]
  /\ \A j \in 1..off[n] : \E k \in 1..n : j - off[k - 1] \in 1..Len(seqs[k])

\* The concatenation of one sequence more holds the blocks it held, and one
\* more behind them.
LEMMA AddBlock ==
  ASSUME NEW S, NEW seqs \in Seq(Seq(S)), NEW n \in Nat, n + 1 <= Len(seqs),
         NEW F \in Seq(S), NEW off, Blocks(F, seqs, n, off)
  PROVE  /\ F \o seqs[n + 1] \in Seq(S)
         /\ \E new : Blocks(F \o seqs[n + 1], seqs, n + 1, new)
<1> DEFINE last == seqs[n + 1]
           G == F \o last
           new == [k \in 0..(n + 1) |-> IF k <= n THEN off[k] ELSE off[n] + Len(last)]
<1>1. /\ last \in Seq(S) /\ G \in Seq(S) /\ Len(last) \in Nat /\ Len(F) \in Nat
      /\ Len(G) = Len(F) + Len(last)
      /\ \A i \in 1..Len(G) : G[i] = IF i <= Len(F) THEN F[i] ELSE last[i - Len(F)]
      /\ \A k \in 1..n : Len(seqs[k]) \in Nat
  <2>1. \A k \in 1..(n + 1) : seqs[k] \in Seq(S)
    BY ElementOfSeq
  <2>2. last \in Seq(S)
    BY <2>1
  <2>3. QED
    BY <2>1, <2>2, ConcatProperties, LenProperties
<1>2. /\ off \in [0..n -> Nat] /\ Len(F) = off[n] /\ off[n] \in Nat
      /\ \A k \in 0..n : off[k] \in Nat /\ off[k] <= off[n]
  BY DEF Blocks
<1>3. /\ new \in [0..(n + 1) -> Nat] /\ new[0] = 0 /\ new[n + 1] = off[n] + Len(last)
      /\ \A k \in 0..n : new[k] = off[k]
  BY <1>1, <1>2 DEF Blocks
<1> HIDE DEF G, new, last
<1>4. Len(G) = new[n + 1]
  BY <1>1, <1>2, <1>3
<1>5. ASSUME NEW k \in 1..(n + 1)
      PROVE  /\ new[k] = new[k - 1] + Len(seqs[k])
             /\ \A i \in 1..Len(seqs[k]) : G[new[k - 1] + i] = seqs[k][i]
  <2>1. CASE k = n + 1
    <3>1. k - 1 = n /\ seqs[k] = last /\ new[k - 1] = Len(F)
      BY <1>2, <1>3, <2>1 DEF last
    <3>2. ASSUME NEW i \in 1..Len(last)
          PROVE  G[Len(F) + i] = last[i]
      <4>1. Len(F) + i \in 1..Len(G) /\ ~(Len(F) + i <= Len(F)) /\ Len(F) + i - Len(F) = i
        BY <1>1
      <4>2. QED
        BY <1>1, <4>1
    <3>3. QED
      BY <1>2, <1>3, <2>1, <3>1, <3>2
  <2>2. CASE k # n + 1
    <3>1. k \in 1..n /\ k - 1 \in 0..n /\ k \in 0..n
      BY <2>2
    <3>2. new[k] = off[k] /\ new[k - 1] = off[k - 1] /\ off[k] <= Len(F) /\ off[k - 1] \in Nat
      BY <1>2, <1>3, <3>1
    <3>3. off[k] = off[k - 1] + Len(seqs[k])
          /\ \A i \in 1..Len(seqs[k]) : F[off[k - 1] + i] = seqs[k][i]
      BY <3>1 DEF Blocks
    <3>4. ASSUME NEW i \in 1..Len(seqs[k])
          PROVE  G[off[k - 1] + i] = F[off[k - 1] + i]
      <4>1. PICK a, b, c, d \in Nat :
              a = off[k - 1] /\ b = Len(seqs[k]) /\ c = Len(F) /\ d = Len(last)
        BY <1>1, <3>1, <3>2
      <4>2. i \in 1..b /\ a + b <= c /\ Len(G) = c + d
        BY <1>1, <3>2, <3>3, <4>1
      <4>3. a + i \in 1..(c + d) /\ a + i <= c
        BY <4>2
      <4>4. off[k - 1] + i \in 1..Len(G) /\ off[k - 1] + i <= Len(F)
        BY <4>1, <4>2, <4>3
      <4>5. QED
        BY <1>1, <4>4
    <3>5. QED
      BY <3>2, <3>3, <3>4
  <2>3. QED
    BY <2>1, <2>2
<1>6. ASSUME NEW k \in 0..(n + 1)
      PROVE  new[k] <= new[n + 1]
  <2>1. CASE k \in 0..n
    <3>1. new[k] = off[k] /\ off[k] \in Nat /\ off[k] <= off[n]
      BY <1>2, <1>3, <2>1
    <3>2. QED
      BY <1>1, <1>2, <1>3, <3>1
  <2>2. CASE k = n + 1
    BY <1>1, <1>2, <1>3, <2>2
  <2>3. QED
    BY <2>1, <2>2
<1>7. ASSUME NEW j \in 1..new[n + 1]
      PROVE  \E k \in 1..(n + 1) : j - new[k - 1] \in 1..Len(seqs[k])
  <2>1. CASE j <= off[n]
    <3>1. j \in 1..off[n]
      BY <1>2, <1>3, <2>1
    <3>2. PICK k \in 1..n : j - off[k - 1] \in 1..Len(seqs[k])
      BY <3>1 DEF Blocks
    <3>3. k - 1 \in 0..n /\ k \in 1..(n + 1)
      OBVIOUS
    <3>4. QED
      BY <1>3, <3>2, <3>3
  <2>2. CASE j > off[n]
    <3>1. j - new[(n + 1) - 1] \in 1..Len(seqs[n + 1])
      BY <1>1, <1>2, <1>3, <2>2 DEF last
    <3>2. QED
      BY <3>1
  <2>3. QED
    BY <1>2, <1>3, <2>1, <2>2
<1>8. Blocks(G, seqs, n + 1, new)
  BY <1>3, <1>4, <1>5, <1>6, <1>7 DEF Blocks
<1>9. QED
  BY <1>1, <1>8 DEF G, last

\* A flattened sequence is the blocks of its argument, one behind another.
LEMMA FlattenBlocks ==
  ASSUME NEW S, NEW seqs \in Seq(Seq(S)), seqs # <<>>
  PROVE  /\ FlattenSeq(seqs) \in Seq(S)
         /\ \E off : Blocks(FlattenSeq(seqs), seqs, Len(seqs), off)
<1> DEFINE f == Concats(seqs)
           N == Len(seqs)
           Good(n) == f[n] \in Seq(S) /\ \E off : Blocks(f[n], seqs, n, off)
           Bad == {n \in 1..N : ~Good(n)}
<1>1. N \in Nat /\ N # 0
  BY EmptySeq, LenProperties
<1>2. ConcatsTo(f, seqs, N)
  BY <1>1, ConcatsAre
<1>3. FlattenSeq(seqs) = f[N]
  BY <1>1, FlattenIs
<1>4. \A k \in 1..N : seqs[k] \in Seq(S)
  BY <1>1, ElementOfSeq
<1> HIDE DEF f
<1>5. Bad = {}
  <2> SUFFICES ASSUME Bad # {} PROVE FALSE
    OBVIOUS
  <2>1. PICK n \in Bad : \A m \in Bad : n <= m
    <3>1. Bad \in SUBSET Nat
      BY <1>1
    <3>2. QED
      BY <3>1, LeastNat
  <2>2. n \in 1..N
    OBVIOUS
  <2>3. CASE n = 1
    <3>1. f[1] = seqs[1] /\ seqs[1] \in Seq(S) /\ Len(seqs[1]) \in Nat
      BY <1>2, <1>4, <2>2, <2>3, LenProperties DEF ConcatsTo
    <3> DEFINE off == [k \in 0..1 |-> IF k = 0 THEN 0 ELSE Len(seqs[1])]
    <3>2. off \in [0..1 -> Nat] /\ off[0] = 0 /\ off[1] = Len(seqs[1]) /\ off[1 - 1] = 0
      BY <3>1
    <3> HIDE DEF off
    <3>3. \A k \in 1..1 : k = 1
      OBVIOUS
    <3>4. \A i \in 1..Len(seqs[1]) : off[1 - 1] + i = i
      BY <3>1, <3>2
    <3>5. \A j \in 1..off[1] : j - off[1 - 1] \in 1..Len(seqs[1])
      BY <3>1, <3>2
    <3>6. \A k \in 0..1 : off[k] <= off[1]
      BY <3>1, <3>2
    <3>7. Blocks(f[1], seqs, 1, off)
      BY <3>1, <3>2, <3>3, <3>4, <3>5, <3>6 DEF Blocks
    <3>8. QED
      BY <2>3, <3>1, <3>7
  <2>4. CASE n # 1
    <3>1. n - 1 \in 1..N /\ n - 1 \in Nat /\ (n - 1) + 1 = n
      BY <1>1, <2>2, <2>4
    <3>2. n - 1 \notin Bad
      <4>1. n - 1 \in Bad => n <= n - 1
        BY <2>1
      <4>2. ~(n <= n - 1)
        BY <3>1
      <4>3. QED
        BY <4>1, <4>2
    <3>3. Good(n - 1)
      BY <3>1, <3>2
    <3>4. f[n] = f[n - 1] \o seqs[n]
      BY <1>2, <2>2, <2>4 DEF ConcatsTo
    <3>5. PICK off : Blocks(f[n - 1], seqs, n - 1, off)
      BY <3>3
    <3>6. (n - 1) + 1 <= Len(seqs)
      BY <1>1, <2>2
    <3>7. /\ f[n - 1] \o seqs[(n - 1) + 1] \in Seq(S)
          /\ \E new : Blocks(f[n - 1] \o seqs[(n - 1) + 1], seqs, (n - 1) + 1, new)
      BY <3>1, <3>3, <3>5, <3>6, AddBlock
    <3>8. Good(n)
      BY <3>1, <3>4, <3>7
    <3>9. QED
      BY <3>8
  <2>5. QED
    BY <2>3, <2>4
<1>6. N \in 1..N /\ N \notin Bad
  BY <1>1, <1>5
<1>7. QED
  BY <1>3, <1>6

-----------------------------------------------------------------------------
(* The schedule.                                                           *)

\* A list of names, each of them once
Distinct(bot_names) ==
  /\ bot_names \in Seq(ToSet(bot_names)) /\ bot_names # <<>>
  /\ \A i, j \in 1..Len(bot_names) : bot_names[i] = bot_names[j] => i = j

Row(bot_names, i) == [j \in 1..(Len(bot_names) - i) |-> <<bot_names[i], bot_names[i + j]>>]

Names2(bot_names) == ToSet(bot_names) \X ToSet(bot_names)

\* The k-th pairing is that of the i-th name with the one j places later.
LEMMA PairingsAre ==
  ASSUME NEW bot_names, Distinct(bot_names)
  PROVE  /\ Pairings(bot_names) \in Seq(Names2(bot_names))
         /\ \E at \in [0..Len(bot_names) -> Nat] :
              /\ \A k \in 1..Len(Pairings(bot_names)) :
                   \E i \in 1..Len(bot_names) : \E j \in 1..(Len(bot_names) - i) :
                     k = at[i - 1] + j /\ Pairings(bot_names)[k] = <<bot_names[i], bot_names[i + j]>>
              /\ \A i \in 1..Len(bot_names) : \A j \in 1..(Len(bot_names) - i) :
                   /\ at[i - 1] + j \in 1..Len(Pairings(bot_names))
                   /\ Pairings(bot_names)[at[i - 1] + j] = <<bot_names[i], bot_names[i + j]>>
<1> DEFINE n == Len(bot_names)
           rows == [i \in 1..n |-> Row(bot_names, i)]
           P == Pairings(bot_names)
<1>1. n \in Nat /\ n # 0 /\ DOMAIN bot_names = 1..n /\ \A i \in 1..n : bot_names[i] \in ToSet(bot_names)
  BY EmptySeq, LenProperties, ElementOfSeq DEF Distinct
<1>2. P = FlattenSeq(rows)
  BY <1>1 DEF Pairings, Row
<1>3. ASSUME NEW i \in 1..n
      PROVE  /\ Row(bot_names, i) \in Seq(Names2(bot_names))
             /\ Len(Row(bot_names, i)) = n - i
             /\ \A j \in 1..(n - i) : Row(bot_names, i)[j] = <<bot_names[i], bot_names[i + j]>>
  <2>1. n - i \in Nat /\ \A j \in 1..(n - i) : i + j \in 1..n
    BY <1>1
  <2>2. \A j \in 1..(n - i) : <<bot_names[i], bot_names[i + j]>> \in Names2(bot_names)
    BY <1>1, <2>1 DEF Names2
  <2>3. QED
    BY <2>1, <2>2 DEF Row
<1>4. rows \in Seq(Seq(Names2(bot_names))) /\ rows # <<>> /\ Len(rows) = n
  <2>1. \A i \in 1..n : Row(bot_names, i) \in Seq(Names2(bot_names))
    BY <1>3
  <2>2. rows \in Seq(Seq(Names2(bot_names))) /\ Len(rows) = n
    BY <1>1, <2>1
  <2>3. QED
    BY <1>1, <2>2, EmptySeq
<1>5. \A i \in 1..n : rows[i] = Row(bot_names, i)
  OBVIOUS
<1> HIDE DEF rows, P
<1>6. P \in Seq(Names2(bot_names))
  BY <1>2, <1>4, FlattenBlocks
<1>7. PICK at : Blocks(P, rows, n, at)
  BY <1>2, <1>4, FlattenBlocks
<1>8. at \in [0..n -> Nat] /\ Len(P) = at[n]
  BY <1>7 DEF Blocks
<1>9. ASSUME NEW k \in 1..Len(P)
      PROVE  \E i \in 1..n : \E j \in 1..(n - i) :
               k = at[i - 1] + j /\ P[k] = <<bot_names[i], bot_names[i + j]>>
  <2>1. PICK i \in 1..n : k - at[i - 1] \in 1..Len(rows[i])
    BY <1>7, <1>8 DEF Blocks
  <2> DEFINE j == k - at[i - 1]
  <2>2. j \in 1..(n - i)
    BY <1>3, <1>5, <2>1
  <2>3. k = at[i - 1] + j
    <3>1. at[i - 1] \in Nat /\ k \in Int
      BY <1>1, <1>8
    <3>2. QED
      BY <3>1
  <2>4. P[at[i - 1] + j] = rows[i][j]
    BY <1>7, <2>1 DEF Blocks
  <2>5. rows[i][j] = <<bot_names[i], bot_names[i + j]>>
    BY <1>3, <1>5, <2>2
  <2> HIDE DEF j
  <2>6. QED
    BY <2>2, <2>3, <2>4, <2>5
<1>10. ASSUME NEW i \in 1..n, NEW j \in 1..(n - i)
       PROVE  at[i - 1] + j \in 1..Len(P) /\ P[at[i - 1] + j] = <<bot_names[i], bot_names[i + j]>>
  <2>1. rows[i] = Row(bot_names, i) /\ Len(rows[i]) = n - i
    BY <1>3, <1>5
  <2>2. i - 1 \in 0..n /\ i \in 0..n
    BY <1>1
  <2>3. at[i] = at[i - 1] + (n - i) /\ at[i] <= at[n] /\ at[i - 1] \in Nat /\ at[n] \in Nat
    BY <1>1, <1>7, <1>8, <2>1, <2>2 DEF Blocks
  <2>4. at[i - 1] + j \in 1..Len(P)
    BY <1>1, <1>8, <2>3
  <2>5. P[at[i - 1] + j] = rows[i][j]
    BY <1>7, <2>1 DEF Blocks
  <2>6. QED
    BY <1>3, <2>1, <2>4, <2>5
<1>11. QED
  BY <1>6, <1>8, <1>9, <1>10 DEF P

\* Two different names are paired once, in one order or the other, and nobody
\* is paired with itself.
LEMMA PairsOnce ==
  ASSUME NEW bot_names, Distinct(bot_names)
  PROVE  LET P == Pairings(bot_names)
         IN /\ P \in Seq(Names2(bot_names))
            /\ \A k \in 1..Len(P) : P[k][1] # P[k][2]
            /\ \A p \in Names2(bot_names) :
                 p[1] # p[2] => \E k \in 1..Len(P) : p \in {P[k], Swapped(P[k])}
            /\ \A k, l \in 1..Len(P) : P[k] \in {P[l], Swapped(P[l])} => k = l
<1> DEFINE n == Len(bot_names)
           P == Pairings(bot_names)
<1>1. /\ n \in Nat /\ DOMAIN bot_names = 1..n
      /\ \A i, j \in 1..n : bot_names[i] = bot_names[j] => i = j
  BY LenProperties DEF Distinct
<1>2. P \in Seq(Names2(bot_names))
  BY PairingsAre
<1>3. PICK at \in [0..n -> Nat] :
        /\ \A k \in 1..Len(P) : \E i \in 1..n : \E j \in 1..(n - i) :
             k = at[i - 1] + j /\ P[k] = <<bot_names[i], bot_names[i + j]>>
        /\ \A i \in 1..n : \A j \in 1..(n - i) :
             at[i - 1] + j \in 1..Len(P) /\ P[at[i - 1] + j] = <<bot_names[i], bot_names[i + j]>>
  BY PairingsAre
<1> HIDE DEF P
<1>4. ASSUME NEW k \in 1..Len(P)
      PROVE  P[k][1] # P[k][2]
  <2>1. PICK i \in 1..n : \E j \in 1..(n - i) : P[k] = <<bot_names[i], bot_names[i + j]>>
    BY <1>3
  <2>2. PICK j \in 1..(n - i) : P[k] = <<bot_names[i], bot_names[i + j]>>
    BY <2>1
  <2>3. i + j \in 1..n /\ i + j # i
    BY <1>1
  <2>4. P[k][1] = bot_names[i] /\ P[k][2] = bot_names[i + j]
    BY <2>2
  <2>5. QED
    BY <1>1, <2>3, <2>4
<1>5. ASSUME NEW p \in Names2(bot_names), p[1] # p[2]
      PROVE  \E k \in 1..Len(P) : p \in {P[k], Swapped(P[k])}
  <2>1. PICK i, j \in 1..n : p = <<bot_names[i], bot_names[j]>>
    <3>1. PICK x, y \in ToSet(bot_names) : p = <<x, y>>
      BY DEF Names2
    <3>2. PICK i \in 1..n : x = bot_names[i]
      BY <1>1 DEF ToSet
    <3>3. PICK j \in 1..n : y = bot_names[j]
      BY <1>1 DEF ToSet
    <3>4. QED
      BY <3>1, <3>2, <3>3
  <2>2. i # j
    BY <1>5, <2>1
  <2>3. CASE i < j
    <3>1. j - i \in 1..(n - i) /\ i + (j - i) = j
      BY <1>1, <2>3
    <3>2. PICK k \in 1..Len(P) : P[k] = <<bot_names[i], bot_names[i + (j - i)]>>
      BY <1>3, <3>1
    <3>3. P[k] = p
      BY <2>1, <3>1, <3>2
    <3>4. QED
      BY <3>3
  <2>4. CASE j < i
    <3>1. i - j \in 1..(n - j) /\ j + (i - j) = i
      BY <1>1, <2>4
    <3>2. PICK k \in 1..Len(P) : P[k] = <<bot_names[j], bot_names[j + (i - j)]>>
      BY <1>3, <3>1
    <3>3. P[k] = <<bot_names[j], bot_names[i]>>
      BY <3>1, <3>2
    <3>4. Swapped(P[k]) = p
      BY <2>1, <3>3 DEF Swapped
    <3>5. QED
      BY <3>4
  <2>5. QED
    BY <1>1, <2>2, <2>3, <2>4
<1>6. ASSUME NEW k \in 1..Len(P), NEW l \in 1..Len(P), P[k] \in {P[l], Swapped(P[l])}
      PROVE  k = l
  <2>1. PICK i \in 1..n : \E j \in 1..(n - i) :
          k = at[i - 1] + j /\ P[k] = <<bot_names[i], bot_names[i + j]>>
    BY <1>3
  <2>2. PICK j \in 1..(n - i) : k = at[i - 1] + j /\ P[k] = <<bot_names[i], bot_names[i + j]>>
    BY <2>1
  <2>3. PICK x \in 1..n : \E y \in 1..(n - x) :
          l = at[x - 1] + y /\ P[l] = <<bot_names[x], bot_names[x + y]>>
    BY <1>3
  <2>4. PICK y \in 1..(n - x) : l = at[x - 1] + y /\ P[l] = <<bot_names[x], bot_names[x + y]>>
    BY <2>3
  <2>5. i + j \in 1..n /\ x + y \in 1..n
    BY <1>1
  <2>6. CASE P[k] = P[l]
    <3>1. bot_names[i] = bot_names[x] /\ bot_names[i + j] = bot_names[x + y]
      BY <2>2, <2>4, <2>6
    <3>2. i = x /\ i + j = x + y
      BY <1>1, <2>5, <3>1
    <3>3. i = x /\ j = y
      BY <3>2
    <3>4. QED
      BY <2>2, <2>4, <3>3
  <2>7. CASE P[k] = Swapped(P[l])
    <3>1. bot_names[i] = bot_names[x + y] /\ bot_names[i + j] = bot_names[x]
      BY <2>2, <2>4, <2>7 DEF Swapped
    <3>2. i = x + y /\ i + j = x
      BY <1>1, <2>5, <3>1
    <3>3. FALSE
      BY <3>2
    <3>4. QED
      BY <3>3
  <2>8. QED
    BY <1>6, <2>6, <2>7
<1>7. QED
  BY <1>2, <1>4, <1>5, <1>6 DEF P

\* Of n places in a row, every other one: as many first ones as second ones, but
\* for the last.
Odds(a, n) == {a + j : j \in {i \in 1..n : i % 2 = 1}}

Evens(a, n) == {a + j : j \in {i \in 1..n : i % 2 # 1}}

\* Of the first n numbers, the odd ones are as many as the even ones or one more.
LEMMA Alternating ==
  ASSUME NEW a \in Nat
  PROVE  \A n \in Nat :
           /\ IsFiniteSet(Odds(a, n)) /\ IsFiniteSet(Evens(a, n))
           /\ Cardinality(Odds(a, n)) \in Nat /\ Cardinality(Evens(a, n)) \in Nat
           /\ Cardinality(Odds(a, n)) = Cardinality(Evens(a, n)) + (n % 2)
<1> DEFINE Good(n) ==
             /\ IsFiniteSet(Odds(a, n)) /\ IsFiniteSet(Evens(a, n))
             /\ Cardinality(Odds(a, n)) \in Nat /\ Cardinality(Evens(a, n)) \in Nat
             /\ Cardinality(Odds(a, n)) = Cardinality(Evens(a, n)) + (n % 2)
           Bad == {n \in Nat : ~Good(n)}
<1> SUFFICES ASSUME Bad # {} PROVE FALSE
  OBVIOUS
<1>1. PICK n \in Bad : \A m \in Bad : n <= m
  BY LeastNat
<1>2. CASE n = 0
  <2>1. Odds(a, 0) = {} /\ Evens(a, 0) = {}
    BY DEF Odds, Evens
  <2>2. 0 % 2 = 0
    OBVIOUS
  <2>3. /\ IsFiniteSet(Odds(a, 0)) /\ Cardinality(Odds(a, 0)) = 0
        /\ IsFiniteSet(Evens(a, 0)) /\ Cardinality(Evens(a, 0)) = 0
    BY <2>1, FS_EmptySet
  <2>4. Good(0)
    BY <2>2, <2>3
  <2>5. QED
    BY <1>1, <1>2, <2>4
<1>3. CASE n # 0
  <2> DEFINE m == n - 1
  <2>1. m \in Nat /\ n = m + 1
    BY <1>1, <1>3
  <2>2. Good(m)
    <3>1. m \in Bad => n <= m
      BY <1>1
    <3>2. QED
      BY <2>1, <3>1
  <2> HIDE DEF m
  <2>3. \A i \in 1..n : i \in 1..m \/ i = n
    BY <2>1
  <2>4. \A i \in 1..m : i \in 1..n
    BY <2>1
  <2>5. CASE n % 2 = 1
    <3>1. Odds(a, n) = Odds(a, m) \cup {a + n} /\ a + n \notin Odds(a, m)
      <4>1. \A j \in 1..m : a + j # a + n
        BY <2>1
      <4>2. n \in 1..n
        BY <2>1
      <4>3. QED
        BY <2>3, <2>4, <2>5, <4>1, <4>2 DEF Odds
    <3>2. Evens(a, n) = Evens(a, m)
      BY <2>3, <2>4, <2>5 DEF Evens
    <3>3. m % 2 = 0
      BY <2>1, <2>5
    <3>4. /\ IsFiniteSet(Odds(a, n)) /\ Cardinality(Odds(a, n)) = Cardinality(Odds(a, m)) + 1
      BY <2>2, <3>1, FS_AddElement
    <3>5. Good(n)
      BY <2>2, <2>5, <3>2, <3>3, <3>4
    <3>6. QED
      BY <1>1, <3>5
  <2>6. CASE n % 2 # 1
    <3>1. Evens(a, n) = Evens(a, m) \cup {a + n} /\ a + n \notin Evens(a, m)
      <4>1. \A j \in 1..m : a + j # a + n
        BY <2>1
      <4>2. n \in 1..n
        BY <2>1
      <4>3. QED
        BY <2>3, <2>4, <2>6, <4>1, <4>2 DEF Evens
    <3>2. Odds(a, n) = Odds(a, m)
      BY <2>3, <2>4, <2>6 DEF Odds
    <3>3. m % 2 = 1 /\ n % 2 = 0
      BY <2>1, <2>6
    <3>4. /\ IsFiniteSet(Evens(a, n)) /\ Cardinality(Evens(a, n)) = Cardinality(Evens(a, m)) + 1
      BY <2>2, <3>1, FS_AddElement
    <3>5. Good(n)
      BY <2>2, <3>2, <3>3, <3>4
    <3>6. QED
      BY <1>1, <3>5
  <2>7. QED
    BY <2>5, <2>6
<1>4. QED
  BY <1>2, <1>3

\* The games of a pairing: as many as of any other, or one more.
LEMMA GamesAre ==
  ASSUME NEW total \in Nat, NEW n \in Nat, n # 0
  PROVE  \A k \in 1..n : /\ GamesOf(k, total, n) \in Nat
                         /\ \A l \in 1..n : GamesOf(k, total, n) <= GamesOf(l, total, n) + 1
<1>1. total \div n \in Nat
  OBVIOUS
<1>2. QED
  BY <1>1 DEF GamesOf

\* The first k pairings play k times the quotient, and the remainder as far as it goes.
GamesUpTo(k, total, n) ==
  k * (total \div n) + (IF k <= total % n THEN k ELSE total % n)

\* The games of all pairings are the games asked for.
LEMMA GamesAddUp ==
  ASSUME NEW total \in Nat, NEW n \in Nat, n # 0
  PROVE  /\ GamesUpTo(0, total, n) = 0
         /\ GamesUpTo(n, total, n) = total
         /\ \A k \in 1..n : GamesUpTo(k, total, n) = GamesUpTo(k - 1, total, n) + GamesOf(k, total, n)
<1>1. PICK q, r \in Nat : q = total \div n /\ r = total % n /\ r < n /\ total = n * q + r
  <2>1. total \div n \in Nat /\ total % n \in 0..(n - 1) /\ total = n * (total \div n) + (total % n)
    OBVIOUS
  <2>2. QED
    BY <2>1
<1>2. GamesUpTo(0, total, n) = 0
  BY <1>1 DEF GamesUpTo
<1>3. GamesUpTo(n, total, n) = total
  BY <1>1 DEF GamesUpTo
<1>4. ASSUME NEW k \in 1..n
      PROVE  GamesUpTo(k, total, n) = GamesUpTo(k - 1, total, n) + GamesOf(k, total, n)
  <2>1. k * q = (k - 1) * q + q
    <3>1. \A a, b \in Int : a * b = (a - 1) * b + b
      OBVIOUS
    <3>2. QED
      BY <3>1
  <2>2. (IF k <= r THEN k ELSE r) = (IF k - 1 <= r THEN k - 1 ELSE r) + (IF k <= r THEN 1 ELSE 0)
    BY <1>1
  <2>3. (k - 1) * q \in Int /\ k * q \in Int
    BY <1>1
  <2>4. QED
    BY <1>1, <2>1, <2>2, <2>3 DEF GamesUpTo, GamesOf
<1>5. QED
  BY <1>2, <1>3, <1>4

\* Swapping twice is not swapping, and two different bots make two pairings.
LEMMA SwappedIs ==
  ASSUME NEW N, NEW p \in N \X N
  PROVE  /\ Swapped(p) \in N \X N /\ Swapped(p)[1] = p[2] /\ Swapped(p)[2] = p[1]
         /\ Swapped(Swapped(p)) = p
         /\ p[1] # p[2] => Swapped(p) # p
<1>1. PICK x, y \in N : p = <<x, y>>
  OBVIOUS
<1>2. Swapped(p) = <<y, x>>
  BY <1>1 DEF Swapped
<1>3. QED
  BY <1>1, <1>2 DEF Swapped

\* The games of one pairing, by their colours.
LEMMA BlockIs ==
  ASSUME NEW N, NEW p \in N \X N, NEW n \in Nat
  PROVE  /\ Block(p, n) \in Seq(N \X N) /\ Len(Block(p, n)) = n
         /\ \A j \in 1..n : Block(p, n)[j] = IF j % 2 = 1 THEN p ELSE Swapped(p)
<1>1. Swapped(p) \in N \X N
  BY SwappedIs
<1> DEFINE f == [i \in 1..n |-> IF i % 2 = 1 THEN p ELSE Swapped(p)]
<1>2. f \in [1..n -> N \X N]
  BY <1>1
<1>3. \A j \in 1..n : f[j] = IF j % 2 = 1 THEN p ELSE Swapped(p)
  OBVIOUS
<1>4. Block(p, n) = f
  BY DEF Block
<1> HIDE DEF f
<1>5. f \in Seq(N \X N) /\ Len(f) = n
  BY <1>2
<1>6. QED
  BY <1>3, <1>4, <1>5

\* The games of the k-th pairing follow those of the pairings before it, its
\* first name White in the odd ones.
PlacedAt(s, P, k, first, count) ==
  /\ first \in Nat /\ count \in Nat /\ first + count <= Len(s)
  /\ \A j \in 1..count : s[first + j] = IF j % 2 = 1 THEN P[k] ELSE Swapped(P[k])

\* The schedule is the blocks of its pairings, one after another.
LEMMA ScheduleBlocks ==
  ASSUME NEW bot_names, Distinct(bot_names), NEW total \in Nat, Pairings(bot_names) # <<>>
  PROVE  LET P == Pairings(bot_names)
             s == BuildSchedule(bot_names, total)
         IN /\ s \in Seq(Names2(bot_names)) /\ Len(s) = total
            /\ \E first :
                 /\ \A k \in 1..Len(P) : PlacedAt(s, P, k, first[k], GamesOf(k, total, Len(P)))
                 /\ \A i \in 1..total : \E k \in 1..Len(P) :
                      i - first[k] \in 1..GamesOf(k, total, Len(P))
<1> DEFINE P == Pairings(bot_names)
           m == Len(P)
           G(k) == GamesOf(k, total, m)
           s == BuildSchedule(bot_names, total)
           blocks == [k \in DOMAIN P |-> Block(P[k], G(k))]
<1>1. P \in Seq(Names2(bot_names)) /\ P # <<>>
  BY PairsOnce
<1>2. s = FlattenSeq(blocks)
  BY <1>1 DEF BuildSchedule
<1> HIDE DEF P, s
<1>3. m \in Nat /\ m # 0 /\ DOMAIN P = 1..m /\ \A k \in 1..m : P[k] \in Names2(bot_names)
  BY <1>1, EmptySeq, LenProperties, ElementOfSeq
<1>4. \A k \in 1..m : G(k) \in Nat
  BY <1>3, GamesAre
<1>5. ASSUME NEW k \in 1..m
      PROVE  /\ blocks[k] \in Seq(Names2(bot_names)) /\ Len(blocks[k]) = G(k)
             /\ \A j \in 1..G(k) : blocks[k][j] = IF j % 2 = 1 THEN P[k] ELSE Swapped(P[k])
  <2>1. P[k] \in ToSet(bot_names) \X ToSet(bot_names) /\ G(k) \in Nat
    BY <1>3, <1>4 DEF Names2
  <2>2. blocks[k] = Block(P[k], G(k))
    BY <1>3
  <2> HIDE DEF blocks, G
  <2>3. /\ Block(P[k], G(k)) \in Seq(Names2(bot_names)) /\ Len(Block(P[k], G(k))) = G(k)
        /\ \A j \in 1..G(k) :
             Block(P[k], G(k))[j] = IF j % 2 = 1 THEN P[k] ELSE Swapped(P[k])
    <3>1. PICK p \in ToSet(bot_names) \X ToSet(bot_names), n \in Nat : p = P[k] /\ n = G(k)
      BY <2>1
    <3>2. /\ Block(p, n) \in Seq(ToSet(bot_names) \X ToSet(bot_names)) /\ Len(Block(p, n)) = n
          /\ \A j \in 1..n : Block(p, n)[j] = IF j % 2 = 1 THEN p ELSE Swapped(p)
      BY BlockIs
    <3>3. QED
      BY <3>1, <3>2 DEF Names2
  <2>4. QED
    BY <2>2, <2>3
<1>6. blocks \in Seq(Seq(Names2(bot_names))) /\ Len(blocks) = m /\ blocks # <<>>
  <2>1. blocks \in [1..m -> Seq(Names2(bot_names))]
    BY <1>3, <1>5
  <2> HIDE DEF blocks
  <2>2. blocks \in Seq(Seq(Names2(bot_names))) /\ Len(blocks) = m
    BY <1>3, <2>1
  <2>3. QED
    BY <1>3, <2>2, EmptySeq
<1> HIDE DEF blocks
<1>7. s \in Seq(Names2(bot_names)) /\ \E off : Blocks(s, blocks, m, off)
  BY <1>2, <1>6, FlattenBlocks
<1>8. PICK off : Blocks(s, blocks, m, off)
  BY <1>7
<1>9. /\ off \in [0..m -> Nat] /\ off[0] = 0 /\ Len(s) = off[m]
      /\ \A k \in 1..m : off[k] = off[k - 1] + G(k)
      /\ \A k \in 0..m : off[k] <= off[m]
  BY <1>5, <1>8 DEF Blocks
<1>10. off[m] = total
  <2> DEFINE Upto(k) == GamesUpTo(k, total, m)
             Bad == {k \in 0..m : off[k] # Upto(k)}
  <2>1. /\ Upto(0) = 0 /\ Upto(m) = total
        /\ \A k \in 1..m : Upto(k) = Upto(k - 1) + G(k)
    BY <1>3, GamesAddUp
  <2> HIDE DEF Upto
  <2>2. Bad = {}
    <3> SUFFICES ASSUME Bad # {} PROVE FALSE
      OBVIOUS
    <3>1. Bad \in SUBSET Nat
      BY <1>3
    <3>2. PICK k \in Bad : \A l \in Bad : k <= l
      BY <3>1, LeastNat
    <3>3. k # 0
      BY <1>9, <2>1
    <3>4. k \in 1..m /\ k - 1 \in 0..m /\ ~(k <= k - 1)
      BY <1>3, <3>3
    <3>5. k - 1 \notin Bad
      BY <3>2, <3>4
    <3>6. off[k - 1] = Upto(k - 1)
      BY <3>4, <3>5
    <3>7. off[k] = Upto(k)
      BY <1>9, <2>1, <3>4, <3>6
    <3>8. QED
      BY <3>7
  <2>3. m \in 0..m
    BY <1>3
  <2>4. QED
    BY <2>1, <2>2, <2>3
<1> DEFINE first == [k \in 1..m |-> off[k - 1]]
<1>11. ASSUME NEW k \in 1..m
       PROVE  PlacedAt(s, P, k, first[k], G(k))
  <2>1. k - 1 \in 0..m /\ k \in 0..m
    BY <1>3
  <2>2. first[k] = off[k - 1] /\ off[k - 1] \in Nat /\ off[k - 1] + G(k) <= Len(s)
    BY <1>9, <2>1
  <2>3. \A j \in 1..G(k) : s[off[k - 1] + j] = blocks[k][j]
    BY <1>5, <1>8 DEF Blocks
  <2>4. QED
    BY <1>4, <1>5, <2>2, <2>3 DEF PlacedAt
<1>12. ASSUME NEW i \in 1..total
       PROVE  \E k \in 1..m : i - first[k] \in 1..G(k)
  <2>1. PICK k \in 1..m : i - off[k - 1] \in 1..Len(blocks[k])
    BY <1>8, <1>10 DEF Blocks
  <2>2. QED
    BY <1>5, <2>1
<1> HIDE DEF first
<1>13. QED
  BY <1>7, <1>9, <1>10, <1>11, <1>12 DEF s, P

\* Where the games of one pairing are.
LEMMA GamesOfPairing ==
  ASSUME NEW bot_names, Distinct(bot_names), NEW total \in Nat, Pairings(bot_names) # <<>>,
         NEW p \in Names2(bot_names), p[1] # p[2]
  PROVE  LET s == BuildSchedule(bot_names, total)
             m == Len(Pairings(bot_names))
         IN \E k \in 1..m : \E a \in Nat :
              /\ Between(s, p) = (a + 1)..(a + GamesOf(k, total, m))
              /\ \/ /\ AsGiven(s, p) = Odds(a, GamesOf(k, total, m))
                    /\ AsGiven(s, Swapped(p)) = Evens(a, GamesOf(k, total, m))
                 \/ /\ AsGiven(s, p) = Evens(a, GamesOf(k, total, m))
                    /\ AsGiven(s, Swapped(p)) = Odds(a, GamesOf(k, total, m))
<1> DEFINE P == Pairings(bot_names)
           m == Len(P)
           G(k) == GamesOf(k, total, m)
           s == BuildSchedule(bot_names, total)
<1>1. /\ P \in Seq(Names2(bot_names)) /\ \A k \in 1..m : P[k] \in Names2(bot_names) /\ P[k][1] # P[k][2]
      /\ \A k, l \in 1..m : P[k] \in {P[l], Swapped(P[l])} => k = l
  BY PairsOnce, ElementOfSeq
<1>2. PICK k \in 1..m : p \in {P[k], Swapped(P[k])}
  BY PairsOnce
<1>3. s \in Seq(Names2(bot_names)) /\ Len(s) = total /\ DOMAIN s = 1..total
  BY ScheduleBlocks, LenProperties
<1>4. PICK first : /\ \A l \in 1..m : PlacedAt(s, P, l, first[l], G(l))
                   /\ \A i \in 1..total : \E l \in 1..m : i - first[l] \in 1..G(l)
  BY ScheduleBlocks
<1> HIDE DEF s, P
<1> DEFINE a == first[k]
           q == P[k]
           n == G(k)
<1>5. a \in Nat /\ n \in Nat /\ a + n <= total
      /\ \A j \in 1..n : s[a + j] = IF j % 2 = 1 THEN q ELSE Swapped(q)
  BY <1>3, <1>4 DEF PlacedAt
<1>6. /\ q \in Names2(bot_names) /\ Swapped(q) # q /\ Swapped(Swapped(q)) = q
  <2>1. q \in Names2(bot_names) /\ q[1] # q[2]
    BY <1>1
  <2> HIDE DEF q
  <2>2. q \in ToSet(bot_names) \X ToSet(bot_names)
    BY <2>1 DEF Names2
  <2>3. QED
    BY <2>1, <2>2, SwappedIs
<1>7. ASSUME NEW i \in 1..total, s[i] \in {q, Swapped(q)}
      PROVE  i - a \in 1..n
  <2>1. PICK l \in 1..m : i - first[l] \in 1..G(l)
    BY <1>4
  <2>2. PlacedAt(s, P, l, first[l], G(l))
    BY <1>4
  <2>3. first[l] \in Nat /\ first[l] + (i - first[l]) = i
    BY <2>2 DEF PlacedAt
  <2>4. s[i] \in {P[l], Swapped(P[l])}
    <3>1. s[first[l] + (i - first[l])] \in {P[l], Swapped(P[l])}
      BY <2>1, <2>2 DEF PlacedAt
    <3>2. QED
      BY <2>3, <3>1
  <2>5. Swapped(Swapped(P[l])) = P[l]
    <3>1. P[l] \in Names2(bot_names)
      BY <1>1
    <3>2. PICK o \in ToSet(bot_names) \X ToSet(bot_names) : o = P[l]
      BY <3>1 DEF Names2
    <3>3. QED
      BY <3>2, SwappedIs
  <2>6. P[k] \in {P[l], Swapped(P[l])}
    BY <1>6, <1>7, <2>4, <2>5
  <2>7. k = l
    BY <1>1, <2>6
  <2>8. QED
    BY <2>1, <2>7
<1> HIDE DEF a, q, n
<1>8. ASSUME NEW i \in 1..total, i - a \in 1..n
      PROVE  s[i] = IF (i - a) % 2 = 1 THEN q ELSE Swapped(q)
  <2>1. a + (i - a) = i
    BY <1>5
  <2>2. s[a + (i - a)] = IF (i - a) % 2 = 1 THEN q ELSE Swapped(q)
    BY <1>5, <1>8
  <2>3. QED
    BY <2>1, <2>2
<1>9. \A j \in 1..n : a + j \in 1..total /\ (a + j) - a = j
  BY <1>5
<1>10. AsGiven(s, q) = Odds(a, n)
  <2>1. ASSUME NEW i \in AsGiven(s, q) PROVE i \in Odds(a, n)
    <3>1. i \in 1..total /\ s[i] = q
      BY <1>3 DEF AsGiven
    <3>2. i - a \in 1..n /\ (i - a) % 2 = 1 /\ i = a + (i - a)
      BY <1>5, <1>6, <1>7, <1>8, <3>1
    <3>3. QED
      BY <3>2 DEF Odds
  <2>2. ASSUME NEW i \in Odds(a, n) PROVE i \in AsGiven(s, q)
    <3>1. PICK j \in 1..n : j % 2 = 1 /\ i = a + j
      BY DEF Odds
    <3>2. QED
      BY <1>3, <1>5, <1>9, <3>1 DEF AsGiven
  <2>3. QED
    BY <2>1, <2>2
<1>11. AsGiven(s, Swapped(q)) = Evens(a, n)
  <2>1. ASSUME NEW i \in AsGiven(s, Swapped(q)) PROVE i \in Evens(a, n)
    <3>1. i \in 1..total /\ s[i] = Swapped(q)
      BY <1>3 DEF AsGiven
    <3>2. i - a \in 1..n /\ (i - a) % 2 # 1 /\ i = a + (i - a)
      BY <1>5, <1>6, <1>7, <1>8, <3>1
    <3>3. QED
      BY <3>2 DEF Evens
  <2>2. ASSUME NEW i \in Evens(a, n) PROVE i \in AsGiven(s, Swapped(q))
    <3>1. PICK j \in 1..n : j % 2 # 1 /\ i = a + j
      BY DEF Evens
    <3>2. QED
      BY <1>3, <1>5, <1>9, <3>1 DEF AsGiven
  <2>3. QED
    BY <2>1, <2>2
<1>12. Odds(a, n) \cup Evens(a, n) = (a + 1)..(a + n)
  <2>1. \A i \in (a + 1)..(a + n) : i - a \in 1..n /\ i = a + (i - a)
    BY <1>5
  <2>2. \A j \in 1..n : a + j \in (a + 1)..(a + n)
    BY <1>5
  <2>3. ASSUME NEW i \in (a + 1)..(a + n) PROVE i \in Odds(a, n) \cup Evens(a, n)
    BY <2>1 DEF Odds, Evens
  <2>4. QED
    BY <2>2, <2>3 DEF Odds, Evens
<1>13. CASE p = q
  BY <1>5, <1>10, <1>11, <1>12, <1>13 DEF Between, n, s, P
<1>14. CASE p = Swapped(q)
  <2>1. Swapped(p) = q
    BY <1>6, <1>14
  <2>2. QED
    BY <1>5, <1>10, <1>11, <1>12, <1>14, <2>1 DEF Between, n, s, P
<1>15. QED
  BY <1>2, <1>13, <1>14 DEF q

\* The schedule is fair, for any number of names and of games.
LEMMA Fair ==
  ASSUME Distinct(names), NEW total \in Nat
  PROVE  FairFor(total, BuildSchedule(names, total))
<1> DEFINE pairs == {p \in ToSet(names) \X ToSet(names) : p[1] # p[2]}
           P == Pairings(names)
           m == Len(P)
           s == BuildSchedule(names, total)
           G(k) == GamesOf(k, total, m)
<1> SUFFICES ASSUME pairs # {}
             PROVE  /\ Len(s) = total
                    /\ ToSet(s) \subseteq pairs
                    /\ \A p \in pairs :
                         /\ Cardinality(AsGiven(s, p)) - Cardinality(AsGiven(s, Swapped(p))) \in {-1, 0, 1}
                         /\ \A q \in pairs : Cardinality(Between(s, p)) <= Cardinality(Between(s, q)) + 1
  BY DEF FairFor
<1>1. \A p \in pairs : p \in Names2(names) /\ p[1] # p[2]
  BY DEF Names2
<1>2. P \in Seq(Names2(names)) /\ P # <<>>
  <2>1. PICK p \in pairs : TRUE
    OBVIOUS
  <2>2. P \in Seq(Names2(names)) /\ \E k \in 1..Len(P) : p \in {P[k], Swapped(P[k])}
    BY <1>1, PairsOnce
  <2>3. QED
    BY <2>2, EmptySeq
<1>3. m \in Nat /\ m # 0 /\ \A k \in 1..m : P[k] \in Names2(names) /\ P[k][1] # P[k][2]
  <2>1. m \in Nat /\ m # 0
    BY <1>2, EmptySeq, LenProperties
  <2>2. QED
    BY <1>2, <2>1, PairsOnce, ElementOfSeq
<1>4. s \in Seq(Names2(names)) /\ Len(s) = total
  BY <1>2, ScheduleBlocks
<1>5. ToSet(s) \subseteq pairs
  <2>1. PICK first : /\ \A k \in 1..m : PlacedAt(s, P, k, first[k], G(k))
                     /\ \A i \in 1..total : \E k \in 1..m : i - first[k] \in 1..G(k)
    BY <1>2, ScheduleBlocks
  <2> HIDE DEF s, P
  <2>2. ASSUME NEW i \in 1..total PROVE s[i] \in pairs
    <3>1. PICK k \in 1..m : i - first[k] \in 1..G(k)
      BY <2>1
    <3>2. PlacedAt(s, P, k, first[k], G(k))
      BY <2>1
    <3>3. first[k] + (i - first[k]) = i
      BY <3>2 DEF PlacedAt
    <3>4. s[first[k] + (i - first[k])] \in {P[k], Swapped(P[k])}
      BY <3>1, <3>2 DEF PlacedAt
    <3>5. s[i] \in {P[k], Swapped(P[k])}
      BY <3>3, <3>4
    <3>6. P[k] \in ToSet(names) \X ToSet(names) /\ P[k][1] # P[k][2]
      BY <1>3 DEF Names2
    <3>7. /\ Swapped(P[k]) \in ToSet(names) \X ToSet(names)
          /\ Swapped(P[k])[1] = P[k][2] /\ Swapped(P[k])[2] = P[k][1]
      BY <3>6, SwappedIs
    <3>8. QED
      BY <3>5, <3>6, <3>7
  <2>3. DOMAIN s = 1..total
    BY <1>4, LenProperties
  <2>4. QED
    BY <2>2, <2>3 DEF ToSet
<1>6. ASSUME NEW p \in pairs
      PROVE  /\ Cardinality(AsGiven(s, p)) - Cardinality(AsGiven(s, Swapped(p))) \in {-1, 0, 1}
             /\ \E k \in 1..m : Cardinality(Between(s, p)) = G(k)
  <2>1. PICK k \in 1..m : \E a \in Nat :
          /\ Between(s, p) = (a + 1)..(a + G(k))
          /\ \/ AsGiven(s, p) = Odds(a, G(k)) /\ AsGiven(s, Swapped(p)) = Evens(a, G(k))
             \/ AsGiven(s, p) = Evens(a, G(k)) /\ AsGiven(s, Swapped(p)) = Odds(a, G(k))
    BY <1>1, <1>2, GamesOfPairing
  <2>2. PICK a \in Nat :
          /\ Between(s, p) = (a + 1)..(a + G(k))
          /\ \/ AsGiven(s, p) = Odds(a, G(k)) /\ AsGiven(s, Swapped(p)) = Evens(a, G(k))
             \/ AsGiven(s, p) = Evens(a, G(k)) /\ AsGiven(s, Swapped(p)) = Odds(a, G(k))
    BY <2>1
  <2>3. G(k) \in Nat
    BY <1>3, GamesAre
  <2> HIDE DEF G, s
  <2>4. PICK n \in Nat : n = G(k)
    BY <2>3
  <2>5. Cardinality((a + 1)..(a + n)) = n
    BY FS_Interval
  <2>6. PICK x, y \in Nat : /\ x = Cardinality(Odds(a, n)) /\ y = Cardinality(Evens(a, n))
                            /\ x = y + (n % 2)
    BY Alternating
  <2>7. n % 2 \in {0, 1}
    BY SMT
  <2>8. x - y \in {-1, 0, 1} /\ y - x \in {-1, 0, 1}
    BY <2>6, <2>7
  <2>9. Cardinality(AsGiven(s, p)) - Cardinality(AsGiven(s, Swapped(p))) \in {-1, 0, 1}
    BY <2>2, <2>4, <2>6, <2>8
  <2>10. QED
    BY <2>2, <2>4, <2>5, <2>9
<1>7. ASSUME NEW p \in pairs, NEW q \in pairs
      PROVE  Cardinality(Between(s, p)) <= Cardinality(Between(s, q)) + 1
  <2>1. PICK k \in 1..m : Cardinality(Between(s, p)) = G(k)
    BY <1>6
  <2>2. PICK l \in 1..m : Cardinality(Between(s, q)) = G(l)
    BY <1>6
  <2>3. G(k) <= G(l) + 1
    BY <1>3, GamesAre
  <2>4. QED
    BY <2>1, <2>2, <2>3
<1>8. QED
  BY <1>4, <1>5, <1>6, <1>7

Opponents(bot_names) == {p \in Names2(bot_names) : p[1] # p[2]}

\* The schedule of any list of names pairs different names of the list.
LEMMA ScheduleType ==
  ASSUME NEW bot_names, Distinct(bot_names), NEW total \in Nat
  PROVE  BuildSchedule(bot_names, total) \in Seq(Opponents(bot_names))
<1> DEFINE P == Pairings(bot_names)
           m == Len(P)
           s == BuildSchedule(bot_names, total)
           G(k) == GamesOf(k, total, m)
<1>1. CASE P = <<>>
  <2>1. s = <<>>
    BY <1>1 DEF BuildSchedule
  <2>2. QED
    BY <2>1, EmptySeq
<1>2. CASE P # <<>>
  <2>1. s \in Seq(Names2(bot_names)) /\ Len(s) = total
    BY <1>2, ScheduleBlocks
  <2>2. PICK first : /\ \A k \in 1..m : PlacedAt(s, P, k, first[k], G(k))
                     /\ \A i \in 1..total : \E k \in 1..m : i - first[k] \in 1..G(k)
    BY <1>2, ScheduleBlocks
  <2>3. \A k \in 1..m : P[k] \in Opponents(bot_names) /\ Swapped(P[k]) \in Opponents(bot_names)
    <3>1. ASSUME NEW k \in 1..m
          PROVE  P[k] \in Opponents(bot_names) /\ Swapped(P[k]) \in Opponents(bot_names)
      <4>1. P[k] \in ToSet(bot_names) \X ToSet(bot_names) /\ P[k][1] # P[k][2]
        BY <1>2, PairsOnce, ElementOfSeq DEF Names2
      <4>2. QED
        BY <4>1, SwappedIs DEF Opponents, Names2
    <3>2. QED
      BY <3>1
  <2> HIDE DEF s, P
  <2>4. ASSUME NEW i \in 1..total PROVE s[i] \in Opponents(bot_names)
    <3>1. PICK k \in 1..m : i - first[k] \in 1..G(k)
      BY <2>2
    <3>2. PlacedAt(s, P, k, first[k], G(k))
      BY <2>2
    <3>3. first[k] + (i - first[k]) = i
      BY <3>2 DEF PlacedAt
    <3>4. s[first[k] + (i - first[k])] \in {P[k], Swapped(P[k])}
      BY <3>1, <3>2 DEF PlacedAt
    <3>5. QED
      BY <2>3, <3>3, <3>4
  <2>5. s \in [1..total -> Opponents(bot_names)]
    BY <2>1, <2>4, LenProperties
  <2>6. s \in Seq(Opponents(bot_names))
    BY <2>5
  <2>7. QED
    BY <2>6 DEF s
<1>3. QED
  BY <1>1, <1>2

\* The names that the command line can give are such a list.
LEMMA NamesDistinct ==
  ASSUME NEW n \in 1..Cardinality(Bot)
  PROVE  Distinct(SubSeq(SetToSeq(Bot), 1, n))
<1> DEFINE N == Cardinality(Bot)
           f == SetToSeq(Bot)
           s == SubSeq(f, 1, n)
<1>1. N \in Nat /\ ExistsBijection(1..N, Bot)
  BY FS_CardinalityType, OfflineArenaAssumption
<1>2. PICK g : g \in Bijection(1..N, Bot)
  BY <1>1 DEF ExistsBijection
<1>3. g \in [1..N -> Bot] /\ IsInjective(g)
  BY <1>2 DEF Bijection, Injection, Surjection, IsInjective
<1>4. f \in [1..N -> Bot] /\ IsInjective(f)
  BY <1>3, Zenon DEF SetToSeq
<1> HIDE DEF f
<1>5. f \in Seq(Bot) /\ Len(f) = N
  BY <1>1, <1>4
<1>6. n \in Nat /\ n # 0 /\ n <= N
  BY <1>1
<1>7. /\ s \in Seq(Bot) /\ Len(s) = n /\ \A i \in 1..n : s[i] = f[i]
  <2>1. 1 \in Nat /\ 1 \in 1..(Len(f) + 1) /\ n \in 0..Len(f)
    BY <1>5, <1>6
  <2>2. s \in Seq(Bot)
    BY <1>5, <1>6, SubSeqProperties
  <2>3. Len(s) = n
    BY <1>5, <1>6, SubSeqProperties
  <2>4. QED
    BY <1>5, <1>6, <2>2, <2>3, SubSeqProperties
<1> HIDE DEF s
<1>8. \A i, j \in 1..n : s[i] = s[j] => i = j
  BY <1>4, <1>5, <1>6, <1>7 DEF IsInjective
<1>9. s \in Seq(ToSet(s))
  <2>1. DOMAIN s = 1..n
    BY <1>7, LenProperties
  <2>2. s \in [1..n -> ToSet(s)]
    BY <1>7, <2>1 DEF ToSet
  <2>3. QED
    BY <1>6, <2>2
<1>10. s # <<>>
  BY <1>6, <1>7, EmptySeq
<1>11. QED
  BY <1>7, <1>8, <1>9, <1>10 DEF Distinct, s, f

-----------------------------------------------------------------------------
(* The inductive invariant.                                                *)

Termination == {"checkmate", "adjudicated", "crash", "flag", "illegal_forfeit"} \cup DrawRules

\* A result of two different bots of the list
Entry(bot_names) ==
  {r \in [white : ToSet(bot_names), black : ToSet(bot_names), result : Outcome,
          termination : Termination, ply : Nat,
          white_rating : Int \cup {NoValue}, black_rating : Int \cup {NoValue}] :
     r.white # r.black}

\* The tables of main: no more results than games, and one to record once a
\* game has returned.
Tournament ==
  /\ Distinct(names)
  /\ schedule \in Seq(Opponents(names))
  /\ results \in Seq(Entry(names))
  /\ Len(results) <= Len(schedule)
  /\ phase \in {"loop", "thinking"} => Len(results) < Len(schedule)
  /\ phase = "returned" => results # <<>>

\* The locals of run_single_game.
Game ==
  /\ phase \in {"between", "loop", "thinking", "returned", "done", "died"}
  /\ turn \in Color /\ board_turn \in Color /\ asked \in Color \cup {NoValue}
  /\ verdict \in Verdict \cup {NoValue}
  /\ clock \in ClockState /\ clock.increment_ns = Increment
  /\ clock.delivered_to_mover = 1 => clock.turn_started_mono \in Int
  /\ ply \in 0..PlyCap
  /\ attempts \in [Color -> 0..3]
  /\ now \in Nat /\ thought \in Nat /\ tidy \in BOOLEAN

\* What holds at the place where the loop is: the clock runs for the side to
\* move, a bot is only called in a position that is not decided and on a
\* delivered clock, and before the loop everything is fresh.
AtWork ==
  /\ phase \in {"loop", "thinking"} =>
       /\ clock.to_move = turn
       /\ \A c \in Color : attempts[c] # 3
       /\ tidy => board_turn = turn
  /\ phase = "thinking" =>
       /\ clock.delivered_to_mover = 1
       /\ verdict = NoValue /\ ply < PlyCap
       /\ asked \in Color
       /\ tidy => asked = board_turn
  /\ phase = "died" => verdict = NoValue /\ ply < PlyCap /\ asked \in Color
  /\ phase = "between" =>
       /\ turn = "white" /\ board_turn = "white" /\ asked = NoValue
       /\ verdict = NoValue /\ ply = 0
       /\ clock.to_move = "white"
       /\ \A c \in Color : attempts[c] = 0

IInv == Tournament /\ Game /\ AtWork /\ ThinkingIsPaid /\ BlamesTheMover

\* The loser of a game is one of the two sides.
LEMMA LossOfType ==
  \A c \in Color : LossOf(c) \in {"white_win", "black_win"} /\ OtherColor(c) \in Color
                   /\ OtherColor(c) # c
BY DEF LossOf, Color, OtherColor

\* What the loop starts with.
LEMMA FreshOK ==
  ASSUME FreshLocals, phase' = "between"
  PROVE  Game' /\ AtWork' /\ ThinkingIsPaid' /\ BlamesTheMover'
<1>1. TimeControl \in Int /\ Increment \in Int /\ PlyCap \in Nat
  BY OfflineArenaAssumption
<1>2. /\ clock' = CreateClock(TimeControl, Increment, "white", 0)
      /\ clock'.ns = [c \in Color |-> TimeControl] /\ clock'.increment_ns = Increment
      /\ clock'.to_move = "white" /\ clock'.delivered_to_mover = 0
  BY DEF FreshLocals, CreateClock
<1>3. clock' \in ClockState
  BY <1>1, <1>2 DEF CreateClock, ClockState, Color
<1>4. Game' /\ AtWork'
  BY <1>1, <1>2, <1>3 DEF FreshLocals, Game, AtWork, Color
<1>5. clock'.ns["white"] = TimeControl /\ clock'.ns["black"] = TimeControl
  BY <1>2 DEF Color
<1>6. Increment * 0 = 0
  BY <1>1
<1>7. ThinkingIsPaid'
  BY <1>1, <1>2, <1>5, <1>6 DEF FreshLocals, ThinkingIsPaid
<1>8. BlamesTheMover'
  BY DEF BlamesTheMover
<1>9. QED
  BY <1>4, <1>7, <1>8

\* The arena starts in the invariant.
LEMMA InitOK == Init => IInv
<1> SUFFICES ASSUME Init PROVE IInv
  OBVIOUS
<1>1. Distinct(names)
  BY NamesDistinct DEF Init
<1>2. schedule \in Seq(Opponents(names))
  <2>1. PICK total \in 0..MaxGames : schedule = BuildSchedule(names, total)
    BY DEF Init
  <2>2. total \in Nat
    BY OfflineArenaAssumption
  <2>3. QED
    BY <1>1, <2>1, <2>2, ScheduleType
<1>3. Tournament
  <2>1. results = <<>> /\ phase = "between"
    BY DEF Init
  <2>2. results \in Seq(Entry(names)) /\ Len(results) = 0 /\ Len(schedule) \in Nat
    BY <1>2, <2>1, EmptySeq, LenProperties
  <2>3. QED
    BY <1>1, <1>2, <2>1, <2>2 DEF Tournament
<1>4. TimeControl \in Int /\ Increment \in Int /\ PlyCap \in Nat
  BY OfflineArenaAssumption
<1>5. /\ clock = CreateClock(TimeControl, Increment, "white", 0)
      /\ clock.ns = [c \in Color |-> TimeControl] /\ clock.increment_ns = Increment
      /\ clock.to_move = "white" /\ clock.delivered_to_mover = 0
  BY DEF Init, CreateClock
<1>6. clock \in ClockState
  BY <1>4, <1>5 DEF CreateClock, ClockState, Color
<1>7. Game /\ AtWork
  BY <1>4, <1>5, <1>6 DEF Init, Game, AtWork, Color
<1>8. clock.ns["white"] = TimeControl /\ clock.ns["black"] = TimeControl
  BY <1>5 DEF Color
<1>9. Increment * 0 = 0
  BY <1>4
<1>10. ThinkingIsPaid
  BY <1>4, <1>5, <1>8, <1>9 DEF Init, ThinkingIsPaid
<1>11. BlamesTheMover
  BY DEF BlamesTheMover, Init
<1>12. QED
  BY <1>3, <1>7, <1>10, <1>11 DEF IInv

\* A game that returns adds one result, between the two names that the schedule
\* has for it.
LEMMA ReturnOK ==
  ASSUME Tournament, ply \in Nat, phase \in {"loop", "thinking"},
         NEW t \in Termination, NEW r \in Outcome, Return(t, r)
  PROVE  /\ Tournament' /\ phase' = "returned"
         /\ Len(results') = Len(results) + 1 /\ Len(results) \in Nat
         /\ \A n \in 1..Len(results) : results'[n] = results[n]
         /\ Last(results') = results'[Len(results) + 1]
         /\ Last(results').termination = t /\ Last(results').result = r /\ Last(results').ply = ply
         /\ Front(results') = results
<1> DEFINE n == Len(results) + 1
           e == [white |-> schedule[n][1], black |-> schedule[n][2],
                 result |-> r, termination |-> t, ply |-> ply,
                 white_rating |-> NoValue, black_rating |-> NoValue]
<1>1. /\ schedule \in Seq(Opponents(names)) /\ results \in Seq(Entry(names))
      /\ Len(results) \in Nat /\ Len(schedule) \in Nat /\ Len(results) < Len(schedule)
  BY LenProperties DEF Tournament
<1>2. schedule[n] \in Opponents(names)
  <2>1. n \in 1..Len(schedule)
    BY <1>1
  <2>2. QED
    BY <1>1, <2>1, ElementOfSeq
<1>3. schedule[n][1] \in ToSet(names) /\ schedule[n][2] \in ToSet(names) /\ schedule[n][1] # schedule[n][2]
  BY <1>2 DEF Opponents, Names2
<1>4. e \in Entry(names)
  BY <1>3 DEF Entry
<1>5. phase' = "returned" /\ results' = Append(results, e) /\ UNCHANGED <<names, schedule>>
  BY DEF Return
<1>6. e.termination = t /\ e.result = r /\ e.ply = ply
  OBVIOUS
<1> HIDE DEF e
<1>7. /\ results' \in Seq(Entry(names)) /\ Len(results') = n
      /\ results'[n] = e /\ \A i \in 1..Len(results) : results'[i] = results[i]
  BY <1>1, <1>4, <1>5, AppendProperties
<1>8. results' # <<>>
  BY <1>1, <1>7, EmptySeq
<1>9. Tournament'
  BY <1>1, <1>5, <1>7, <1>8 DEF Tournament
<1>10. Last(results') = results'[n]
  BY <1>7 DEF Last
<1>11. Front(results') = results
  <2>1. Len(results') - 1 = Len(results)
    BY <1>1, <1>7
  <2>2. Front(results') = SubSeq(results', 1, Len(results))
    BY <2>1 DEF Front
  <2> DEFINE f == SubSeq(results', 1, Len(results))
  <2>3. /\ f \in Seq(Entry(names)) /\ Len(f) = Len(results)
        /\ \A i \in 1..Len(results) : f[i] = results'[i]
    BY <1>1, <1>7
  <2> HIDE DEF f
  <2>4. f = results
    BY <1>1, <1>7, <2>3, SeqEqual
  <2>5. QED
    BY <2>2, <2>4 DEF f
<1>12. QED
  BY <1>1, <1>5, <1>6, <1>7, <1>9, <1>10, <1>11

\* What the clocks have paid, and what the clock that runs has not paid yet
Paid(c, p) == 2 * TimeControl + Increment * p - (c.ns["white"] + c.ns["black"])

Running(c, t) == IF c.delivered_to_mover = 1 THEN t - c.turn_started_mono ELSE 0

\* What was paid and what runs are whole numbers of nanoseconds.
LEMMA PaidIs ==
  ASSUME Game
  PROVE  /\ Paid(clock, ply) \in Int /\ Running(clock, now) \in Int
         /\ ThinkingIsPaid <=> /\ thought <= Paid(clock, ply) + Running(clock, now)
                               /\ Paid(clock, ply) + Running(clock, now) <= now
<1>1. /\ clock.ns["white"] \in Int /\ clock.ns["black"] \in Int
      /\ clock.delivered_to_mover = 1 => clock.turn_started_mono \in Int
      /\ ply \in Int /\ now \in Int /\ TimeControl \in Int /\ Increment \in Int
  BY OfflineArenaAssumption DEF Game, ClockState, Color
<1>2. Increment * ply \in Int
  BY <1>1
<1>3. Paid(clock, ply) \in Int /\ Running(clock, now) \in Int
  BY <1>1, <1>2 DEF Paid, Running
<1>4. QED
  BY <1>3 DEF ThinkingIsPaid, Paid, Running

\* A call takes time from nobody else.
LEMMA CallEndsOK ==
  ASSUME Game, AtWork, ThinkingIsPaid, CallEnds, clock' = clock
  PROVE  /\ now' \in Nat /\ thought' \in Nat /\ board_turn' \in Color /\ tidy' \in BOOLEAN
         /\ tidy' => tidy /\ board_turn' = board_turn
         /\ UNCHANGED <<turn, verdict, ply, asked>>
         /\ ThinkingIsPaid'
<1>1. PICK d \in Nat : now' = now + d /\ thought' = thought + d
  BY OfflineArenaAssumption DEF CallEnds
<1>2. PICK left \in BOOLEAN : /\ board_turn' = IF left THEN OtherColor(board_turn) ELSE board_turn
                              /\ tidy' = (tidy /\ ~left)
  BY DEF CallEnds
<1>3. UNCHANGED <<turn, verdict, ply, asked>>
  BY DEF CallEnds
<1>4. board_turn' \in Color /\ tidy' \in BOOLEAN /\ (tidy' => tidy /\ board_turn' = board_turn)
  BY <1>2, LossOfType DEF Game
<1>5. now' \in Nat /\ thought' \in Nat /\ now \in Nat /\ thought \in Nat
  BY <1>1 DEF Game
<1>6. clock.delivered_to_mover = 1 /\ clock.turn_started_mono \in Int
  BY DEF CallEnds, AtWork, Game
<1>7. PICK p, t \in Int : p = Paid(clock, ply) /\ t = clock.turn_started_mono
                          /\ thought <= p + (now - t) /\ p + (now - t) <= now
  BY <1>6, PaidIs DEF Running
<1>8. thought' <= p + (now' - t) /\ p + (now' - t) <= now'
  BY <1>1, <1>5, <1>7
<1>9. ThinkingIsPaid'
  <2>1. Paid(clock, ply) = 2 * TimeControl + Increment * ply - (clock.ns["white"] + clock.ns["black"])
    BY DEF Paid
  <2>2. QED
    BY <1>3, <1>6, <1>7, <1>8, <2>1 DEF ThinkingIsPaid
<1>10. QED
  BY <1>3, <1>4, <1>5, <1>9

\* A game that ends while a bot was called ends against the side of the board
\* that came back.
LEMMA CallReturns ==
  ASSUME IInv, CallEnds, clock' = clock, attempts' \in [Color -> 0..3],
         NEW t \in {"crash", "flag", "illegal_forfeit"}, Return(t, LossOf(board_turn'))
  PROVE  IInv'
<1>1. /\ now' \in Nat /\ thought' \in Nat /\ board_turn' \in Color /\ tidy' \in BOOLEAN
      /\ tidy' => tidy /\ board_turn' = board_turn
      /\ UNCHANGED <<turn, verdict, ply, asked>> /\ ThinkingIsPaid'
  BY CallEndsOK DEF IInv
<1>2. ply \in Nat /\ phase = "thinking"
  BY OfflineArenaAssumption DEF IInv, Game, CallEnds
<1>3. t \in Termination /\ LossOf(board_turn') \in Outcome
  BY <1>1, LossOfType DEF Termination, Outcome
<1>4. Tournament' /\ phase' = "returned" /\ Last(results').result = LossOf(board_turn')
  BY <1>2, <1>3, ReturnOK DEF IInv
<1>5. Game'
  BY <1>1, <1>4 DEF IInv, Game
<1>6. AtWork'
  BY <1>4 DEF AtWork
<1>7. BlamesTheMover'
  BY <1>1, <1>2, <1>4 DEF IInv, AtWork, BlamesTheMover
<1>8. QED
  BY <1>1, <1>4, <1>5, <1>6, <1>7 DEF IInv

\* Entering run_single_game keeps the invariant.
LEMMA StartGameOK ==
  ASSUME IInv, StartGame
  PROVE  IInv'
<1>1. UNCHANGED <<names, schedule, results, turn, board_turn, verdict, clock, ply, attempts, now,
                  asked, tidy, thought>> /\ phase = "between" /\ phase' = "loop"
      /\ Len(results) < Len(schedule)
  BY DEF StartGame, game
<1>2. Tournament'
  BY <1>1 DEF IInv, Tournament
<1>3. Game' /\ AtWork'
  BY <1>1 DEF IInv, Game, AtWork
<1>4. ThinkingIsPaid' /\ BlamesTheMover'
  BY <1>1 DEF IInv, ThinkingIsPaid, BlamesTheMover
<1>5. QED
  BY <1>2, <1>3, <1>4 DEF IInv

\* Printing the table keeps the invariant.
LEMMA FinishOK ==
  ASSUME IInv, Finish
  PROVE  IInv'
<1>1. UNCHANGED <<names, schedule, results, turn, board_turn, verdict, clock, ply, attempts, now,
                  asked, tidy, thought>> /\ phase' = "done"
  BY DEF Finish, game
<1>2. Tournament' /\ Game' /\ AtWork'
  BY <1>1 DEF IInv, Tournament, Game, AtWork
<1>3. ThinkingIsPaid' /\ BlamesTheMover'
  BY <1>1 DEF IInv, ThinkingIsPaid, BlamesTheMover
<1>4. QED
  BY <1>2, <1>3 DEF IInv

\* The two ends that no bot is blamed for.
LEMMA OnTheBoardOK ==
  ASSUME IInv, NaturalEnd \/ Adjudicate
  PROVE  IInv'
<1>1. UNCHANGED <<turn, board_turn, verdict, clock, ply, attempts, now, asked, tidy, thought>>
      /\ phase = "loop"
  BY DEF NaturalEnd, Adjudicate, game
<1>2. PICK t \in Termination, r \in Outcome :
        Return(t, r) /\ t \notin {"crash", "flag", "illegal_forfeit"}
  <2>1. CASE NaturalEnd
    <3>1. verdict \in Verdict
      BY <2>1 DEF NaturalEnd, IInv, Game
    <3>2. verdict.termination \in {"checkmate"} \cup DrawRules /\ verdict.result \in Outcome
      BY <3>1 DEF Verdict
    <3>3. QED
      BY <2>1, <3>2, OfflineArenaAssumption DEF NaturalEnd, Termination
  <2>2. CASE Adjudicate
    BY <2>2 DEF Adjudicate, Termination, Outcome
  <2>3. QED
    BY <2>1, <2>2
<1>3. ply \in Nat
  BY OfflineArenaAssumption DEF IInv, Game
<1>4. Tournament' /\ phase' = "returned" /\ Last(results').termination = t
  BY <1>1, <1>2, <1>3, ReturnOK DEF IInv
<1>5. Game' /\ AtWork'
  BY <1>1, <1>4 DEF IInv, Game, AtWork
<1>6. ThinkingIsPaid'
  BY <1>1 DEF IInv, ThinkingIsPaid
<1>7. BlamesTheMover'
  BY <1>2, <1>4 DEF BlamesTheMover
<1>8. QED
  BY <1>4, <1>5, <1>6, <1>7 DEF IInv

\* Delivering a position starts the clock once and takes nothing from it.
LEMMA DeliverIs ==
  ASSUME NEW c \in ClockState, NEW t \in Int
  PROVE  /\ DeliverPosition(c, t) \in ClockState
         /\ DeliverPosition(c, t).ns = c.ns
         /\ DeliverPosition(c, t).increment_ns = c.increment_ns
         /\ DeliverPosition(c, t).to_move = c.to_move
         /\ DeliverPosition(c, t).delivered_to_mover = 1
         /\ DeliverPosition(c, t).turn_started_mono =
              IF c.delivered_to_mover = 1 THEN c.turn_started_mono ELSE t
<1> DEFINE new == [c EXCEPT !.turn_started_mono = t, !.delivered_to_mover = 1]
<1>1. CASE c.delivered_to_mover = 1
  BY <1>1 DEF DeliverPosition
<1>2. CASE c.delivered_to_mover # 1
  <2>1. DeliverPosition(c, t) = new
    BY <1>2 DEF DeliverPosition
  <2>2. /\ new.ns = c.ns /\ new.increment_ns = c.increment_ns /\ new.to_move = c.to_move
        /\ new.delivered_to_mover = 1 /\ new.turn_started_mono = t
    BY DEF ClockState
  <2>3. new \in ClockState
    BY DEF ClockState
  <2> HIDE DEF new
  <2>4. QED
    BY <1>2, <2>1, <2>2, <2>3
<1>3. QED
  BY <1>1, <1>2

\* Calling a bot keeps the invariant: what is paid so far is unchanged.
LEMMA CallBotOK ==
  ASSUME IInv, CallBot
  PROVE  IInv'
<1>1. /\ phase = "loop" /\ phase' = "thinking" /\ verdict = NoValue /\ ply < PlyCap
      /\ asked' = board_turn /\ clock' = DeliverPosition(clock, now')
      /\ UNCHANGED <<names, schedule, results, turn, board_turn, verdict, ply, attempts, tidy, thought>>
  BY DEF CallBot
<1>2. PICK gap \in Nat : now' = now + gap
  BY OfflineArenaAssumption DEF CallBot
<1>3. now \in Nat /\ now' \in Nat /\ thought \in Nat /\ clock \in ClockState
  BY <1>2 DEF IInv, Game
<1>4. /\ clock' \in ClockState /\ clock'.ns = clock.ns /\ clock'.increment_ns = clock.increment_ns
      /\ clock'.to_move = clock.to_move /\ clock'.delivered_to_mover = 1
      /\ clock'.turn_started_mono =
           IF clock.delivered_to_mover = 1 THEN clock.turn_started_mono ELSE now'
  BY <1>1, <1>3, DeliverIs
<1>5. Tournament'
  BY <1>1 DEF IInv, Tournament
<1>6. clock'.turn_started_mono \in Int
  BY <1>3, <1>4 DEF IInv, Game
<1>7. Game'
  BY <1>1, <1>3, <1>4, <1>6 DEF IInv, Game
<1>8. AtWork'
  BY <1>1, <1>4 DEF IInv, Game, AtWork
<1>9. ThinkingIsPaid'
  <2>1. PICK p \in Int : p = Paid(clock, ply)
    BY PaidIs DEF IInv
  <2>2. p = 2 * TimeControl + Increment * ply - (clock.ns["white"] + clock.ns["black"])
    BY <2>1 DEF Paid
  <2>3. thought <= p + Running(clock, now) /\ p + Running(clock, now) <= now
    BY <2>1, PaidIs DEF IInv
  <2>4. thought <= p + (now' - clock'.turn_started_mono) /\ p + (now' - clock'.turn_started_mono) <= now'
    <3>1. CASE clock.delivered_to_mover = 1
      BY <1>2, <1>3, <1>4, <1>6, <2>3, <3>1 DEF Running
    <3>2. CASE clock.delivered_to_mover # 1
      BY <1>2, <1>3, <1>4, <2>3, <3>2 DEF Running
    <3>3. QED
      BY <3>1, <3>2
  <2>5. QED
    BY <1>1, <1>4, <2>2, <2>4 DEF ThinkingIsPaid
<1>10. BlamesTheMover'
  BY <1>1, <1>4 DEF IInv, AtWork, BlamesTheMover
<1>11. QED
  BY <1>5, <1>7, <1>8, <1>9, <1>10 DEF IInv

\* What a move that does not flag leaves of the clock: the mover has paid for the
\* time since its position was delivered and has its increment.
LEMMA AccountIs ==
  ASSUME NEW c \in ClockState, NEW t \in Int, c.turn_started_mono \in Int,
         ~AccountMoveAndSwitch(c, t, t).flagged
  PROVE  LET new == AccountMoveAndSwitch(c, t, t).new_clock
         IN /\ new \in ClockState /\ new.increment_ns = c.increment_ns
            /\ new.to_move = OtherColor(c.to_move) /\ new.delivered_to_mover = 0
            /\ new.ns["white"] + new.ns["black"] =
                 (c.ns["white"] + c.ns["black"]) - (t - c.turn_started_mono) + c.increment_ns
<1> DEFINE mover == c.to_move
           remaining == c.ns[mover] - (t - c.turn_started_mono)
           new == [c EXCEPT !.ns[mover] = remaining + c.increment_ns,
                            !.to_move = OtherColor(mover), !.to_move_since_mono = t,
                            !.turn_started_mono = NoTime, !.delivered_to_mover = 0]
<1>1. /\ c.ns \in [Color -> Int] /\ mover \in Color /\ c.increment_ns \in Int /\ OtherColor(mover) \in Color
  BY LossOfType DEF ClockState
<1>2. ~(remaining <= 0)
  BY DEF AccountMoveAndSwitch
<1>3. AccountMoveAndSwitch(c, t, t).new_clock = new
  BY <1>2 DEF AccountMoveAndSwitch
<1>4. /\ new.ns = [c.ns EXCEPT ![mover] = remaining + c.increment_ns]
      /\ new.increment_ns = c.increment_ns /\ new.to_move = OtherColor(mover)
      /\ new.to_move_since_mono = t /\ new.turn_started_mono = NoTime /\ new.delivered_to_mover = 0
  BY DEF ClockState
<1>5. new.ns \in [Color -> Int]
  BY <1>1, <1>4
<1>6. new \in ClockState
  BY <1>1, <1>4, <1>5 DEF ClockState
<1>7. new.ns["white"] + new.ns["black"] =
        (c.ns["white"] + c.ns["black"]) - (t - c.turn_started_mono) + c.increment_ns
  <2> DEFINE v == [c.ns EXCEPT ![mover] = remaining + c.increment_ns]
  <2>1. CASE mover = "white"
    <3>1. v["white"] = remaining + c.increment_ns /\ v["black"] = c.ns["black"]
      BY <1>1, <2>1 DEF Color
    <3>2. c.ns["white"] \in Int /\ c.ns["black"] \in Int
      BY <1>1 DEF Color
    <3>3. QED
      BY <1>1, <1>4, <2>1, <3>1, <3>2
  <2>2. CASE mover = "black"
    <3>1. v["black"] = remaining + c.increment_ns /\ v["white"] = c.ns["white"]
      BY <1>1, <2>2 DEF Color
    <3>2. c.ns["white"] \in Int /\ c.ns["black"] \in Int
      BY <1>1 DEF Color
    <3>3. QED
      BY <1>1, <1>4, <2>2, <3>1, <3>2
  <2>3. QED
    BY <1>1, <2>1, <2>2 DEF Color
<1> HIDE DEF new
<1>8. QED
  BY <1>3, <1>4, <1>6, <1>7

\* What the position can say of a mover's move.
LEMMA VerdictIs ==
  ASSUME NEW mover \in Color, NEW v \in PositionVerdict(mover)
  PROVE  /\ v \in Verdict \cup {NoValue}
         /\ v # NoValue =>
              \/ v.termination = "checkmate" /\ v.result \in {"white_win", "black_win"}
              \/ v.termination \in DrawRules /\ v.result = "draw"
<1>1. OtherColor(mover) \in Color /\ LossOf(OtherColor(mover)) \in {"white_win", "black_win"}
  BY LossOfType
<1>2. CASE v = NoValue
  BY <1>2
<1>3. CASE v = [termination |-> "checkmate", result |-> LossOf(OtherColor(mover))]
  BY <1>1, <1>3 DEF Verdict, Outcome
<1>4. CASE v \in [termination : DrawRules, result : {"draw"}]
  BY <1>4 DEF Verdict, Outcome
<1>5. QED
  BY <1>2, <1>3, <1>4 DEF PositionVerdict

\* A legal move keeps the invariant: the mover pays the time since it was
\* first handed the position.
LEMMA BotMovesOK ==
  ASSUME IInv, BotMoves
  PROVE  IInv'
<1>1. /\ phase = "thinking" /\ phase' = "loop" /\ ply' = ply + 1
      /\ turn' = OtherColor(turn) /\ board_turn' = turn' /\ verdict' \in PositionVerdict(turn)
      /\ UNCHANGED <<names, schedule, results, attempts, asked, tidy>>
  BY DEF BotMoves
<1>2. PICK d \in Nat : now' = now + d /\ thought' = thought + d
  BY OfflineArenaAssumption DEF BotMoves
<1>3. ~AccountMoveAndSwitch(clock, now', now').flagged
      /\ clock' = AccountMoveAndSwitch(clock, now', now').new_clock
  BY DEF BotMoves, Accounted
<1>4. /\ now \in Nat /\ now' \in Nat /\ thought \in Nat /\ thought' \in Nat /\ clock \in ClockState
      /\ clock.delivered_to_mover = 1 /\ clock.turn_started_mono \in Int
      /\ clock.increment_ns = Increment /\ clock.to_move = turn
      /\ ply \in Nat /\ ply < PlyCap /\ PlyCap \in Nat
      /\ TimeControl \in Int /\ Increment \in Int
  BY <1>1, <1>2, OfflineArenaAssumption DEF IInv, Game, AtWork
<1>5. /\ clock' \in ClockState /\ clock'.increment_ns = Increment
      /\ clock'.to_move = OtherColor(turn) /\ clock'.delivered_to_mover = 0
      /\ clock'.ns["white"] + clock'.ns["black"] =
           (clock.ns["white"] + clock.ns["black"]) - (now' - clock.turn_started_mono) + Increment
  BY <1>3, <1>4, AccountIs
<1>6. turn \in Color /\ turn' \in Color
  BY <1>1, LossOfType DEF IInv, Game
<1>7. verdict' \in Verdict \cup {NoValue}
  BY <1>1, <1>6, VerdictIs
<1>8. Tournament'
  BY <1>1 DEF IInv, Tournament
<1>9. Game'
  BY <1>1, <1>4, <1>5, <1>6, <1>7 DEF IInv, Game
<1>10. AtWork'
  BY <1>1, <1>5 DEF IInv, AtWork
<1>11. ThinkingIsPaid'
  <2>1. PICK a, b, t, i \in Int : /\ a = clock.ns["white"] + clock.ns["black"]
                                  /\ b = clock'.ns["white"] + clock'.ns["black"]
                                  /\ t = clock.turn_started_mono /\ i = Increment * ply
    <3>1. clock.ns \in [Color -> Int] /\ clock'.ns \in [Color -> Int]
      BY <1>4, <1>5 DEF ClockState
    <3>2. Increment * ply \in Int
      BY <1>4
    <3>3. QED
      BY <1>4, <3>1, <3>2 DEF Color
  <2>2. b = a - (now' - t) + Increment
    BY <1>5, <2>1
  <2>3. Increment * (ply + 1) = i + Increment
    BY <1>4, <2>1
  <2>4. /\ thought <= (2 * TimeControl + i - a) + (now - t)
        /\ (2 * TimeControl + i - a) + (now - t) <= now
    BY <1>4, <2>1 DEF IInv, ThinkingIsPaid
  <2>5. /\ thought' <= 2 * TimeControl + (i + Increment) - b
        /\ 2 * TimeControl + (i + Increment) - b <= now'
    BY <1>2, <1>4, <2>1, <2>2, <2>4
  <2>6. /\ thought' <= (2 * TimeControl + Increment * ply' - b) + 0
        /\ (2 * TimeControl + Increment * ply' - b) + 0 <= now'
    BY <1>1, <1>4, <2>1, <2>3, <2>5
  <2>7. QED
    BY <1>5, <2>1, <2>6 DEF ThinkingIsPaid
<1>12. BlamesTheMover'
  BY <1>1 DEF BlamesTheMover
<1>13. QED
  BY <1>8, <1>9, <1>10, <1>11, <1>12 DEF IInv

\* A call that raises, overruns, or answers with nothing or an illegal move.
LEMMA BotFailsOK ==
  ASSUME IInv, BotRaises \/ BotOverdue \/ BotReturnsNone \/ BotMovesIllegally
  PROVE  IInv'
<1>1. CallEnds /\ clock' = clock /\ phase = "thinking"
  BY DEF BotRaises, BotOverdue, BotReturnsNone, BotMovesIllegally, CallEnds
<1>2. attempts \in [Color -> 0..3] /\ \A c \in Color : attempts[c] # 3
  BY <1>1 DEF IInv, Game, AtWork
<1>3. /\ now' \in Nat /\ thought' \in Nat /\ board_turn' \in Color /\ tidy' \in BOOLEAN
      /\ tidy' => tidy /\ board_turn' = board_turn
      /\ UNCHANGED <<turn, verdict, ply, asked>> /\ ThinkingIsPaid'
  BY <1>1, CallEndsOK DEF IInv
<1>4. CASE BotRaises
  BY <1>1, <1>2, <1>4, CallReturns DEF BotRaises
<1>5. CASE BotOverdue
  BY <1>1, <1>2, <1>5, CallReturns DEF BotOverdue
<1>6. CASE BotReturnsNone
  <2>1. phase' = "died" /\ UNCHANGED <<names, schedule, results, attempts>>
    BY <1>6 DEF BotReturnsNone
  <2>2. Tournament'
    BY <2>1 DEF IInv, Tournament
  <2>3. Game' /\ AtWork'
    BY <1>1, <1>3, <2>1 DEF IInv, Game, AtWork
  <2>4. BlamesTheMover'
    BY <2>1 DEF BlamesTheMover
  <2>5. QED
    BY <1>3, <2>2, <2>3, <2>4 DEF IInv
<1>7. CASE BotMovesIllegally
  <2>1. attempts' = [attempts EXCEPT ![board_turn'] = @ + 1]
    BY <1>7 DEF BotMovesIllegally
  <2>2. attempts' \in [Color -> 0..3]
    BY <1>2, <1>3, <2>1
  <2>3. CASE attempts'[board_turn'] >= 3
    <3>1. Return("illegal_forfeit", LossOf(board_turn'))
      BY <1>7, <2>3 DEF BotMovesIllegally
    <3>2. QED
      BY <1>1, <2>2, <3>1, CallReturns
  <2>4. CASE ~(attempts'[board_turn'] >= 3)
    <3>1. phase' = "loop" /\ UNCHANGED <<names, schedule, results, tracker>>
      BY <1>7, <2>4 DEF BotMovesIllegally
    <3>2. \A c \in Color : attempts'[c] # 3
      BY <1>2, <1>3, <2>1, <2>2, <2>4
    <3>3. Tournament'
      BY <1>1, <3>1 DEF IInv, Tournament
    <3>4. Game'
      BY <1>1, <1>3, <2>2, <3>1 DEF IInv, Game
    <3>5. AtWork'
      BY <1>1, <1>3, <3>1, <3>2 DEF IInv, AtWork
    <3>6. BlamesTheMover'
      BY <3>1 DEF BlamesTheMover
    <3>7. QED
      BY <1>3, <3>3, <3>4, <3>5, <3>6 DEF IInv
  <2>5. QED
    BY <2>3, <2>4
<1>8. QED
  BY <1>4, <1>5, <1>6, <1>7

\* The two ratings are written beside the last result; the rest of it, and of the
\* list, stays.
Played(e) == <<e.white, e.black, e.result, e.termination, e.ply>>

Annotated(s, x, y) == [s EXCEPT ![Len(s)].white_rating = x, ![Len(s)].black_rating = y]

\* What is written, and what is kept
LEMMA AnnotatedIs ==
  ASSUME NEW N, NEW s \in Seq(Entry(N)), s # <<>>, NEW x \in Int, NEW y \in Int
  PROVE  LET new == Annotated(s, x, y)
         IN /\ new \in Seq(Entry(N)) /\ Len(new) = Len(s) /\ new # <<>>
            /\ \A n \in 1..Len(s) : Played(new[n]) = Played(s[n])
            /\ \A n \in 1..Len(s) : n # Len(s) => new[n] = s[n]
            /\ new[Len(s)].white_rating = x /\ new[Len(s)].black_rating = y
<1> DEFINE k == Len(s)
           e == [s[k] EXCEPT !.white_rating = x, !.black_rating = y]
           new == Annotated(s, x, y)
           t == [s EXCEPT ![k] = e]
<1>1. k \in Nat /\ k # 0 /\ k \in 1..k /\ \A n \in 1..k : s[n] \in Entry(N)
  BY EmptySeq, LenProperties, ElementOfSeq
<1>2. DOMAIN s = 1..k /\ s = [n \in 1..k |-> s[n]]
  BY LenProperties
<1>3. new = t
  BY <1>1, <1>2 DEF Annotated
<1>4. /\ e \in Entry(N) /\ Played(e) = Played(s[k])
      /\ e.white_rating = x /\ e.black_rating = y
  <2>1. s[k] \in Entry(N)
    BY <1>1
  <2>2. /\ e.white = s[k].white /\ e.black = s[k].black /\ e.result = s[k].result
        /\ e.termination = s[k].termination /\ e.ply = s[k].ply
        /\ e.white_rating = x /\ e.black_rating = y
    BY <2>1 DEF Entry
  <2>3. e \in Entry(N)
    BY <2>1, <2>2 DEF Entry
  <2>4. QED
    BY <2>2, <2>3 DEF Played
<1> HIDE DEF e, new
<1>5. t \in [1..k -> Entry(N)] /\ t[k] = e /\ \A n \in 1..k : n # k => t[n] = s[n]
  BY <1>1, <1>2, <1>4
<1> HIDE DEF t
<1>6. t \in Seq(Entry(N)) /\ Len(t) = k
  BY <1>1, <1>5
<1>7. t # <<>>
  BY <1>1, <1>6, EmptySeq
<1>8. \A n \in 1..k : Played(t[n]) = Played(s[n])
  BY <1>4, <1>5
<1>9. QED
  BY <1>3, <1>4, <1>5, <1>6, <1>7, <1>8 DEF new

\* The gain of a winner is a whole number.
LEMMA WinGainType ==
  \A diff \in Int : WinGain(diff) \in Int
<1> SUFFICES ASSUME NEW diff \in Int PROVE WinGain(diff) \in Int
  OBVIOUS
<1> DEFINE S == {k \in 1..K_FACTOR : diff <= Threshold[k]}
<1>1. IsFiniteSet(1..K_FACTOR)
  <2>1. 1 \in Int /\ K_FACTOR \in Int
    BY DEF K_FACTOR
  <2>2. QED
    BY <2>1, FS_Interval
<1>2. IsFiniteSet(S)
  BY <1>1, FS_Subset
<1>3. Cardinality(S) \in Nat
  BY <1>2, FS_CardinalityType
<1>4. QED
  BY <1>3 DEF WinGain

\* White's gain, as a reader would compute it from a result.  Black's is its
\* negative.
ScoreOf(before, r) ==
  CASE r.result = "white_win" -> WinGain(before[r.white] - before[r.black])
    [] r.result = "draw" -> DrawGain(before[r.white] - before[r.black])
    [] r.result = "black_win" -> -WinGain(before[r.black] - before[r.white])

\* White gains what the reader computes, and Black loses as much.
LEMMA GainsAre ==
  ASSUME NEW N, NEW before \in [N -> Int], NEW r, r.white \in N, r.black \in N, r.result \in Outcome
  PROVE  /\ ScoreOf(before, r) \in Int
         /\ Gains(before[r.white], before[r.black], r.result).white = ScoreOf(before, r)
         /\ Gains(before[r.white], before[r.black], r.result).black = -ScoreOf(before, r)
<1>1. PICK x, y \in Int : x = before[r.white] /\ y = before[r.black]
  OBVIOUS
<1>2. x - y \in Int /\ y - x \in Int
  BY <1>1
<1>3. PICK p, q \in Int : p = WinGain(x - y) /\ q = WinGain(y - x)
  BY <1>2, WinGainType
<1>4. CASE r.result = "white_win"
  BY <1>1, <1>3, <1>4 DEF ScoreOf, Gains, RatingExchange
<1>5. CASE r.result = "draw"
  <2>1. K_FACTOR \div 2 \in Int
    BY DEF K_FACTOR
  <2>2. DrawGain(x - y) \in Int
    BY <1>3, <2>1 DEF DrawGain
  <2>3. QED
    BY <1>1, <1>5, <2>2 DEF ScoreOf, Gains, DrawExchange
<1>6. CASE r.result = "black_win"
  BY <1>1, <1>3, <1>6 DEF ScoreOf, Gains, RatingExchange
<1>7. QED
  BY <1>4, <1>5, <1>6 DEF Outcome

-----------------------------------------------------------------------------
(* The tables of the tracker.                                              *)

Tracked ==
  /\ ratings \in [ToSet(names) -> Int]
  /\ wins \in [ToSet(names) -> Nat] /\ losses \in [ToSet(names) -> Nat]
  /\ draws \in [ToSet(names) -> Nat] /\ games_played \in [ToSet(names) -> Nat]

\* Recording a game keeps the invariant.
LEMMA RecordGameOK ==
  ASSUME IInv, Tracked, RecordGame
  PROVE  IInv'
<1> DEFINE r == Last(results)
<1>1. /\ phase = "returned" /\ phase' = "between" /\ FreshLocals /\ UNCHANGED <<names, schedule>>
      /\ results' = Annotated(results, ratings[r.white], ratings[r.black])
  BY DEF RecordGame, Annotated
<1>2. results \in Seq(Entry(names)) /\ results # <<>> /\ r = results[Len(results)]
  BY <1>1 DEF IInv, Tournament, Last
<1>3. r \in Entry(names)
  BY <1>2, EmptySeq, LenProperties, ElementOfSeq
<1>4. r.white \in ToSet(names) /\ r.black \in ToSet(names)
  BY <1>3 DEF Entry
<1>5. ratings[r.white] \in Int /\ ratings[r.black] \in Int
  BY <1>4 DEF Tracked
<1>6. results' \in Seq(Entry(names)) /\ Len(results') = Len(results) /\ results' # <<>>
  BY <1>1, <1>2, <1>5, AnnotatedIs
<1>7. Tournament'
  BY <1>1, <1>6 DEF IInv, Tournament
<1>8. QED
  BY <1>1, <1>7, FreshOK DEF IInv

\* A counter that is bumped is a counter.
LEMMA BumpType ==
  ASSUME NEW N, NEW counter \in [N -> Nat], NEW who
  PROVE  Bump(counter, who) \in [N -> Nat]
BY DEF Bump

\* Every step keeps the types of the tracker's tables.
LEMMA TrackedStep ==
  ASSUME IInv, Tracked, [Next]_vars
  PROVE  Tracked'
<1>1. CASE RecordGame
  <2> DEFINE r == Last(results)
             gain == Gains(ratings[r.white], ratings[r.black], r.result)
             winner == CASE r.result = "white_win" -> {r.white}
                         [] r.result = "black_win" -> {r.black}
                         [] r.result = "draw" -> {}
             both == {r.white, r.black}
  <2>1. /\ names' = names
        /\ ratings' = [ratings EXCEPT ![r.white] = @ + gain.white, ![r.black] = @ + gain.black]
        /\ wins' = Bump(wins, winner)
        /\ losses' = Bump(losses, IF winner = {} THEN {} ELSE both \ winner)
        /\ draws' = Bump(draws, IF winner = {} THEN both ELSE {})
        /\ games_played' = Bump(games_played, both)
    BY <1>1 DEF RecordGame
  <2>2. results \in Seq(Entry(names)) /\ results # <<>>
    BY <1>1 DEF IInv, Tournament, RecordGame
  <2>3. r \in Entry(names)
    BY <2>2, EmptySeq, LenProperties, ElementOfSeq DEF Last
  <2>4. r.white \in ToSet(names) /\ r.black \in ToSet(names) /\ r.result \in Outcome
    BY <2>3 DEF Entry
  <2>5. gain.white \in Int /\ gain.black \in Int
    BY <2>4, GainsAre DEF Tracked
  <2> HIDE DEF r, gain, winner, both
  <2>6. ratings' \in [ToSet(names) -> Int]
    BY <2>1, <2>4, <2>5 DEF Tracked
  <2>7. /\ wins' \in [ToSet(names) -> Nat] /\ losses' \in [ToSet(names) -> Nat]
        /\ draws' \in [ToSet(names) -> Nat] /\ games_played' \in [ToSet(names) -> Nat]
    BY <2>1, BumpType DEF Tracked
  <2>8. QED
    BY <2>1, <2>6, <2>7 DEF Tracked
<1>2. CASE ~RecordGame
  <2>1. UNCHANGED <<names, tracker>>
    BY <1>2 DEF Next, Play, vars, StartGame, NaturalEnd, Adjudicate, CallBot, BotRaises, BotOverdue,
                BotReturnsNone, BotMovesIllegally, BotMoves, Finish, Return
  <2>2. QED
    BY <2>1 DEF Tracked, tracker
<1>3. QED
  BY <1>1, <1>2

\* Every step keeps the invariant.
LEMMA StepOK ==
  ASSUME IInv, Tracked, [Next]_vars
  PROVE  IInv'
<1>1. CASE UNCHANGED vars
  <2>1. Tournament' /\ Game' /\ AtWork'
    BY <1>1 DEF IInv, vars, game, Tournament, Game, AtWork
  <2>2. ThinkingIsPaid' /\ BlamesTheMover'
    BY <1>1 DEF IInv, vars, game, ThinkingIsPaid, BlamesTheMover
  <2>3. QED
    BY <2>1, <2>2 DEF IInv
<1>2. CASE StartGame
  BY <1>2, StartGameOK
<1>3. CASE NaturalEnd \/ Adjudicate
  BY <1>3, OnTheBoardOK
<1>4. CASE CallBot
  BY <1>4, CallBotOK
<1>5. CASE BotRaises \/ BotOverdue \/ BotReturnsNone \/ BotMovesIllegally
  BY <1>5, BotFailsOK
<1>6. CASE BotMoves
  BY <1>6, BotMovesOK
<1>7. CASE RecordGame
  BY <1>7, RecordGameOK
<1>8. CASE Finish
  BY <1>8, FinishOK
<1>9. QED
  BY <1>1, <1>2, <1>3, <1>4, <1>5, <1>6, <1>7, <1>8 DEF Next, Play

\* The tracker starts with tables.
LEMMA TrackedInit == Init => Tracked
BY DEF Init, Tracked, STARTING_RATING

\* The invariant holds in every state.
THEOREM Inductive == Spec => [](IInv /\ Tracked)
<1>1. Init => IInv /\ Tracked
  BY InitOK, TrackedInit
<1>2. IInv /\ Tracked /\ [Next]_vars => IInv' /\ Tracked'
  BY StepOK, TrackedStep
<1>3. QED
  BY <1>1, <1>2, PTL DEF Spec

\* Every instant that a bot thinks is paid from a clock, those of its illegal
\* attempts included, and no clock pays for more than has passed: for any time
\* control and increment, any bots and any length of game.
THEOREM ThinkingIsPaidAlways == Spec => []ThinkingIsPaid
<1>1. IInv => ThinkingIsPaid
  BY DEF IInv
<1>2. QED
  BY <1>1, Inductive, PTL

\* While every bot gives its board back as it got it, the loop calls the bot of
\* the side to move, whose clock runs, and a game lost otherwise than on the
\* board is lost by the bot called last, for any number of bots and games.
THEOREM BlamesTheMoverAlways == Spec => []BlamesTheMover
<1>1. IInv => BlamesTheMover
  BY DEF IInv
<1>2. QED
  BY <1>1, Inductive, PTL

-----------------------------------------------------------------------------
(* Every game of the arena is a match of chess_core.match.                 *)

MatchStep(n) == [M(n)!Next]_(M(n)!state)

View(n) == <<MatchStatus(n), MatchPly(n), MatchResult(n), MatchTermination(n)>>

\* What is recorded of a game, as the match has it
Ended(e) ==
  <<"finished", e.ply, e.result, IF e.termination = "crash" THEN "abandoned" ELSE e.termination>>

\* The game that is being played, as the match has it
Going(v, p, a) ==
  IF v # NoValue THEN <<"finished", p, v.result, v.termination>>
  ELSE IF p >= PlyCap THEN <<"finished", p, "draw", "adjudicated">>
  ELSE <<IF a = NoValue THEN "pending" ELSE "active", p, NoValue, NoValue>>

Unborn == <<"free", 0, NoValue, NoValue>>

\* The n-th match, by whether the n-th game is over, under way or to come.
LEMMA ViewIs ==
  ASSUME results \in Seq(Entry(names)), NEW n \in Nat
  PROVE  /\ n \in 1..Len(results) => View(n) = Ended(results[n])
         /\ Current(n) => View(n) = Going(verdict, ply, asked)
         /\ n \notin 1..Len(results) /\ ~Current(n) => View(n) = Unborn
<1>1. Len(results) \in Nat /\ DOMAIN results = 1..Len(results)
  BY LenProperties
<1>2. n \in 1..Len(results) => View(n) = Ended(results[n])
  BY <1>1 DEF View, Ended, MatchStatus, MatchPly, MatchResult, MatchTermination, Current
<1>3. Current(n) => View(n) = Going(verdict, ply, asked)
  BY <1>1 DEF View, Going, MatchStatus, MatchPly, MatchResult, MatchTermination, Current, Decided
<1>4. n \notin 1..Len(results) /\ ~Current(n) => View(n) = Unborn
  BY <1>1 DEF View, Unborn, MatchStatus, MatchPly, MatchResult, MatchTermination, Current, Decided
<1>5. QED
  BY <1>2, <1>3, <1>4

\* The same of the state after a step.
LEMMA ViewIsAfter ==
  ASSUME results' \in Seq(Entry(names)'), NEW n \in Nat
  PROVE  /\ n \in 1..Len(results') => View(n)' = Ended(results'[n])
         /\ Current(n)' => View(n)' = Going(verdict', ply', asked')
         /\ n \notin 1..Len(results') /\ ~Current(n)' => View(n)' = Unborn
<1>1. Len(results') \in Nat /\ DOMAIN results' = 1..Len(results')
  BY LenProperties
<1>2. n \in 1..Len(results') => View(n)' = Ended(results'[n])
  BY <1>1 DEF View, Ended, MatchStatus, MatchPly, MatchResult, MatchTermination, Current
<1>3. Current(n)' => View(n)' = Going(verdict', ply', asked')
  BY <1>1 DEF View, Going, MatchStatus, MatchPly, MatchResult, MatchTermination, Current, Decided
<1>4. n \notin 1..Len(results') /\ ~Current(n)' => View(n)' = Unborn
  BY <1>1 DEF View, Unborn, MatchStatus, MatchPly, MatchResult, MatchTermination, Current, Decided
<1>5. QED
  BY <1>2, <1>3, <1>4

\* No result is lost or changed but for the ratings beside it, and only a game
\* that returns adds one.
LEMMA ResultsKept ==
  ASSUME IInv, Tracked, [Next]_vars
  PROVE  /\ \A n \in 1..Len(results) : Played(results'[n]) = Played(results[n])
         /\ \/ Len(results') = Len(results)
            \/ Len(results') = Len(results) + 1 /\ phase' = "returned"
<1>1. CASE RecordGame
  <2> DEFINE r == Last(results)
  <2>1. phase = "returned" /\ results' = Annotated(results, ratings[r.white], ratings[r.black])
    BY <1>1 DEF RecordGame, Annotated
  <2>2. results \in Seq(Entry(names)) /\ results # <<>> /\ r = results[Len(results)]
    BY <2>1 DEF IInv, Tournament, Last
  <2>3. r \in Entry(names)
    BY <2>2, EmptySeq, LenProperties, ElementOfSeq
  <2>4. ratings[r.white] \in Int /\ ratings[r.black] \in Int
    BY <2>3 DEF Tracked, Entry
  <2> HIDE DEF r
  <2>5. QED
    BY <2>1, <2>2, <2>4, AnnotatedIs
<1>2. CASE \E t \in Termination, r \in Outcome : phase \in {"loop", "thinking"} /\ Return(t, r)
  <2>1. ply \in Nat
    BY OfflineArenaAssumption DEF IInv, Game
  <2>2. QED
    BY <1>2, <2>1, ReturnOK DEF IInv
<1>3. CASE results' = results
  BY <1>3
<1>4. ASSUME NaturalEnd
      PROVE  \E t \in Termination, r \in Outcome : phase \in {"loop", "thinking"} /\ Return(t, r)
  <2>1. verdict \in Verdict /\ phase = "loop" /\ Return(verdict.termination, verdict.result)
    BY <1>4 DEF NaturalEnd, IInv, Game
  <2>2. verdict.termination \in Termination /\ verdict.result \in Outcome
    BY <2>1 DEF Verdict, Termination
  <2>3. QED
    BY <2>1, <2>2
<1>5. ASSUME Adjudicate
      PROVE  \E t \in Termination, r \in Outcome : phase \in {"loop", "thinking"} /\ Return(t, r)
  BY <1>5 DEF Adjudicate, Termination, Outcome
<1>6. ASSUME CallEnds, NEW t \in {"crash", "flag", "illegal_forfeit"}, Return(t, LossOf(board_turn'))
      PROVE  \E u \in Termination, r \in Outcome : phase \in {"loop", "thinking"} /\ Return(u, r)
  <2>1. phase = "thinking" /\ board_turn' \in Color
    BY <1>6, LossOfType DEF IInv, Game, CallEnds
  <2>2. t \in Termination /\ LossOf(board_turn') \in Outcome
    BY <2>1, LossOfType DEF Termination, Outcome
  <2>3. QED
    BY <1>6, <2>1, <2>2
<1>7. CASE UNCHANGED vars \/ StartGame \/ CallBot \/ BotReturnsNone \/ BotMoves \/ Finish
  BY <1>3, <1>7 DEF vars, StartGame, CallBot, BotReturnsNone, BotMoves, Finish
<1>8. CASE BotRaises
  BY <1>2, <1>6, <1>8 DEF BotRaises
<1>9. CASE BotOverdue
  BY <1>2, <1>6, <1>9 DEF BotOverdue
<1>10. CASE BotMovesIllegally
  BY <1>2, <1>3, <1>6, <1>10 DEF BotMovesIllegally
<1>11. QED
  BY <1>1, <1>2, <1>4, <1>5, <1>7, <1>8, <1>9, <1>10 DEF Next, Play

\* The game being played ends without a move.
LEMMA LosesAMatch ==
  ASSUME IInv, IInv', CallEnds, NEW t \in {"crash", "flag", "illegal_forfeit"},
         Return(t, LossOf(board_turn')), NEW n \in Nat, n = Len(results) + 1
  PROVE  MatchStep(n)
<1>1. phase = "thinking" /\ board_turn' \in Color /\ ply \in Nat /\ UNCHANGED ply
  BY LossOfType, OfflineArenaAssumption DEF IInv, Game, CallEnds
<1>2. PICK r \in {"white_win", "black_win"} : r = LossOf(board_turn')
  BY <1>1, LossOfType
<1>3. t \in Termination /\ r \in Outcome
  BY DEF Termination, Outcome
<1>4. /\ Len(results') = n /\ results'[n].termination = t /\ results'[n].result = r
      /\ results'[n].ply = ply /\ Len(results) \in Nat
  BY <1>1, <1>2, <1>3, ReturnOK DEF IInv
<1>5. View(n) = <<"active", ply, NoValue, NoValue>>
  <2>1. Current(n)
    BY <1>1 DEF Current
  <2>2. verdict = NoValue /\ ply < PlyCap /\ asked # NoValue /\ ~(ply >= PlyCap)
    BY <1>1, OfflineArenaAssumption DEF IInv, Game, AtWork
  <2>3. QED
    BY <2>1, <2>2, ViewIs DEF IInv, Tournament, Going
<1> DEFINE u == IF t = "crash" THEN "abandoned" ELSE t
<1>6. View(n)' = <<"finished", ply, r, u>>
  <2>1. n \in 1..Len(results')
    BY <1>4
  <2>2. results' \in Seq(Entry(names)')
    BY DEF IInv, Tournament
  <2>3. QED
    BY <1>4, <2>1, <2>2, ViewIsAfter DEF Ended
<1>7. /\ MatchStatus(n) = "active" /\ MatchStatus(n)' = "finished" /\ MatchPly(n)' = MatchPly(n)
      /\ MatchResult(n)' = r /\ MatchTermination(n)' = u
  BY <1>5, <1>6 DEF View
<1>8. u \in {"flag", "illegal_forfeit", "resignation", "abandoned"} /\ u \notin M(n)!AbortReasons
  BY DEF M!AbortReasons
<1> HIDE DEF u
<1>9. M(n)!TransitionToTerminal(u, r)
  BY <1>7, <1>8 DEF M!TransitionToTerminal, M!Ended
<1>10. QED
  BY <1>8, <1>9 DEF MatchStep, M!Next, M!EndWithoutMove

\* The game being played goes on, or is decided, by a move.
LEMMA MovesAMatch ==
  ASSUME IInv, IInv', BotMoves, NEW n \in Nat, n = Len(results) + 1
  PROVE  MatchStep(n)
<1>1. /\ phase = "thinking" /\ phase' = "loop" /\ ply' = ply + 1 /\ verdict' \in PositionVerdict(turn)
      /\ UNCHANGED <<results, asked>>
  BY DEF BotMoves
<1>2. verdict = NoValue /\ ply < PlyCap /\ asked # NoValue /\ ~(ply >= PlyCap) /\ turn \in Color
  BY <1>1, OfflineArenaAssumption DEF IInv, Game, AtWork
<1>3. View(n) = <<"active", ply, NoValue, NoValue>>
  <2>1. Current(n)
    BY <1>1 DEF Current
  <2>2. QED
    BY <1>2, <2>1, ViewIs DEF IInv, Tournament, Going
<1>4. View(n)' = Going(verdict', ply', asked')
  <2>1. Current(n)'
    BY <1>1 DEF Current
  <2>2. results' \in Seq(Entry(names)')
    BY DEF IInv, Tournament
  <2>3. QED
    BY <2>1, <2>2, ViewIsAfter
<1>5. /\ MatchStatus(n) = "active" /\ MatchPly(n) = ply
      /\ MatchResult(n) = NoValue /\ MatchTermination(n) = NoValue
  BY <1>3 DEF View
<1>6. CASE verdict' # NoValue
  <2>1. /\ MatchStatus(n)' = "finished" /\ MatchPly(n)' = ply + 1
        /\ MatchResult(n)' = verdict'.result /\ MatchTermination(n)' = verdict'.termination
    BY <1>1, <1>4, <1>6 DEF View, Going
  <2>2. CASE verdict'.termination = "checkmate" /\ verdict'.result \in {"white_win", "black_win"}
    <3>1. PICK r \in {"white_win", "black_win"} : r = verdict'.result
      BY <2>2
    <3>2. M(n)!Becomes(M(n)!AfterMove(TRUE, "checkmate", r))
      BY <1>5, <2>1, <2>2, <3>1 DEF M!Becomes, M!AfterMove
    <3>3. QED
      BY <1>5, <3>2 DEF MatchStep, M!Next, M!TransitionAfterMove
  <2>3. CASE verdict'.termination \in DrawRules /\ verdict'.result = "draw"
    <3>1. PICK t \in DrawRules : t = verdict'.termination
      BY <2>3
    <3>2. M(n)!Becomes(M(n)!AfterMove(TRUE, t, "draw"))
      BY <1>5, <2>1, <2>3, <3>1 DEF M!Becomes, M!AfterMove
    <3>3. QED
      BY <1>5, <3>2 DEF MatchStep, M!Next, M!TransitionAfterMove
  <2>4. QED
    BY <1>1, <1>2, <1>6, <2>2, <2>3, VerdictIs
<1>7. CASE verdict' = NoValue
  <2>1. /\ MatchStatus(n)' = (IF ply + 1 >= PlyCap THEN "finished" ELSE "active")
        /\ MatchPly(n)' = ply + 1
        /\ MatchResult(n)' = (IF ply + 1 >= PlyCap THEN "draw" ELSE NoValue)
        /\ MatchTermination(n)' = (IF ply + 1 >= PlyCap THEN "adjudicated" ELSE NoValue)
    BY <1>1, <1>2, <1>4, <1>7 DEF View, Going
  <2>2. M(n)!Becomes(M(n)!AfterMove(FALSE, NoValue, NoValue))
    BY <1>5, <2>1 DEF M!Becomes, M!AfterMove
  <2>3. QED
    BY <1>5, <2>2 DEF MatchStep, M!Next, M!TransitionAfterMove
<1>8. QED
  BY <1>6, <1>7

\* A step that leaves what is seen of a match is a stutter of it.
LEMMA Stutters ==
  ASSUME NEW n, View(n)' = View(n)
  PROVE  MatchStep(n)
BY DEF MatchStep, View, M!state

\* Every step of the arena is a step or a stutter of each match.
LEMMA MatchSteps ==
  ASSUME IInv, Tracked, IInv', [Next]_vars, NEW n \in 1..MaxGames
  PROVE  MatchStep(n)
<1>1. n \in Nat /\ n # 0 /\ results \in Seq(Entry(names)) /\ results' \in Seq(Entry(names)')
      /\ Len(results) \in Nat
  BY OfflineArenaAssumption, LenProperties DEF IInv, Tournament
<1>2. /\ \A k \in 1..Len(results) : Played(results'[k]) = Played(results[k])
      /\ \/ Len(results') = Len(results)
         \/ Len(results') = Len(results) + 1 /\ phase' = "returned"
  BY ResultsKept
<1>3. CASE n \in 1..Len(results)
  <2>1. n \in 1..Len(results')
    BY <1>1, <1>2, <1>3
  <2>2. Played(results'[n]) = Played(results[n])
    BY <1>2, <1>3
  <2>3. Ended(results'[n]) = Ended(results[n])
    BY <2>2 DEF Played, Ended
  <2>4. View(n)' = View(n)
    BY <1>1, <1>3, <2>1, <2>3, ViewIs, ViewIsAfter
  <2>5. QED
    BY <2>4, Stutters
<1>4. CASE n > Len(results) + 1
  <2>1. n \notin 1..Len(results) /\ n \notin 1..Len(results') /\ ~Current(n) /\ ~Current(n)'
    BY <1>1, <1>2, <1>4 DEF Current
  <2>2. View(n)' = View(n)
    BY <1>1, <2>1, ViewIs, ViewIsAfter
  <2>3. QED
    BY <2>2, Stutters
<1>5. CASE n = Len(results) + 1
  <2>1. n \notin 1..Len(results)
    BY <1>1, <1>5
  <2>2. CASE StartGame
    <3>1. /\ phase = "between" /\ phase' = "loop" /\ UNCHANGED <<results, verdict, ply, asked>>
          /\ verdict = NoValue /\ ply = 0 /\ asked = NoValue /\ ~(0 >= PlyCap)
      BY <2>2, OfflineArenaAssumption DEF StartGame, game, IInv, AtWork
    <3>2. ~Current(n) /\ Current(n)'
      BY <1>5, <3>1 DEF Current
    <3>3. View(n) = Unborn /\ View(n)' = <<"pending", 0, NoValue, NoValue>>
      BY <1>1, <2>1, <3>1, <3>2, ViewIs, ViewIsAfter DEF Going
    <3>4. M(n)!CreateMatch
      BY <3>3 DEF View, Unborn, M!CreateMatch
    <3>5. QED
      BY <3>4 DEF MatchStep, M!Next
  <2>3. CASE RecordGame \/ Finish
    <3>1. phase \in {"returned", "between"} /\ phase' \in {"between", "done"}
      BY <2>3 DEF RecordGame, Finish
    <3>2. ~Current(n) /\ ~Current(n)' /\ n \notin 1..Len(results')
      BY <1>1, <1>2, <1>5, <3>1 DEF Current
    <3>3. View(n)' = View(n)
      BY <1>1, <2>1, <3>2, ViewIs, ViewIsAfter
    <3>4. QED
      BY <3>3, Stutters
  <2>4. CASE NaturalEnd \/ Adjudicate
    <3>1. PICK t \in Termination, r \in Outcome :
            /\ phase = "loop" /\ Return(t, r) /\ t # "crash"
            /\ Going(verdict, ply, asked) = <<"finished", ply, r, t>>
      <4>1. CASE NaturalEnd
        <5>1. verdict \in Verdict /\ verdict # NoValue /\ phase = "loop"
              /\ Return(verdict.termination, verdict.result)
          BY <4>1 DEF NaturalEnd, IInv, Game
        <5>2. verdict.termination \in {"checkmate"} \cup DrawRules /\ verdict.result \in Outcome
          BY <5>1 DEF Verdict
        <5>3. QED
          BY <5>1, <5>2, OfflineArenaAssumption DEF Termination, Going
      <4>2. CASE Adjudicate
        BY <4>2 DEF Adjudicate, Termination, Outcome, Going
      <4>3. QED
        BY <2>4, <4>1, <4>2
    <3>2. ply \in Nat
      BY OfflineArenaAssumption DEF IInv, Game
    <3>3. /\ Len(results') = n /\ results'[n].termination = t /\ results'[n].result = r
          /\ results'[n].ply = ply
      BY <1>5, <3>1, <3>2, ReturnOK DEF IInv
    <3>4. Current(n) /\ n \in 1..Len(results')
      BY <1>1, <1>5, <3>1, <3>3 DEF Current
    <3>5. View(n)' = View(n)
      BY <1>1, <3>1, <3>3, <3>4, ViewIs, ViewIsAfter DEF Ended
    <3>6. QED
      BY <3>5, Stutters
  <2>5. CASE CallBot
    <3>1. /\ phase = "loop" /\ phase' = "thinking" /\ verdict = NoValue /\ ply < PlyCap
          /\ asked' = board_turn /\ UNCHANGED <<results, verdict, ply>>
      BY <2>5 DEF CallBot
    <3>2. asked' # NoValue /\ ~(ply >= PlyCap) /\ ply' = ply /\ verdict' = NoValue
      BY <3>1, OfflineArenaAssumption DEF IInv, Game
    <3>3. Current(n) /\ Current(n)'
      BY <1>5, <3>1 DEF Current
    <3>4. /\ View(n) = <<IF asked = NoValue THEN "pending" ELSE "active", ply, NoValue, NoValue>>
          /\ View(n)' = <<"active", ply, NoValue, NoValue>>
      BY <1>1, <3>1, <3>2, <3>3, ViewIs, ViewIsAfter DEF Going
    <3>5. CASE asked = NoValue
      <4>1. M(n)!TransitionToActive
        BY <3>4, <3>5 DEF View, M!TransitionToActive
      <4>2. QED
        BY <4>1 DEF MatchStep, M!Next
    <3>6. CASE asked # NoValue
      BY <3>4, <3>6, Stutters
    <3>7. QED
      BY <3>5, <3>6
  <2>6. CASE BotRaises
    BY <1>1, <1>5, <2>6, LosesAMatch DEF BotRaises
  <2>7. CASE BotOverdue
    BY <1>1, <1>5, <2>7, LosesAMatch DEF BotOverdue
  <2>8. CASE BotMovesIllegally /\ attempts'[board_turn'] >= 3
    BY <1>1, <1>5, <2>8, LosesAMatch DEF BotMovesIllegally
  <2>9. CASE BotReturnsNone \/ (BotMovesIllegally /\ ~(attempts'[board_turn'] >= 3))
    <3>1. CallEnds /\ phase' \in {"loop", "died"} /\ results' = results
      BY <2>9 DEF BotReturnsNone, BotMovesIllegally
    <3>2. phase = "thinking" /\ UNCHANGED <<verdict, ply, asked>>
      BY <3>1 DEF CallEnds
    <3>3. Current(n) /\ Current(n)'
      BY <1>5, <3>1, <3>2 DEF Current
    <3>4. View(n)' = View(n)
      BY <1>1, <3>2, <3>3, ViewIs, ViewIsAfter
    <3>5. QED
      BY <3>4, Stutters
  <2>10. CASE BotMoves
    BY <1>1, <1>5, <2>10, MovesAMatch
  <2>11. CASE UNCHANGED vars
    <3>1. UNCHANGED <<results, phase, verdict, ply, asked>>
      BY <2>11 DEF vars, game
    <3>2. Current(n)' = Current(n)
      BY <3>1 DEF Current
    <3>3. View(n)' = View(n)
      BY <1>1, <2>1, <3>1, <3>2, ViewIs, ViewIsAfter
    <3>4. QED
      BY <3>3, Stutters
  <2>12. QED
    BY <2>2, <2>3, <2>4, <2>5, <2>6, <2>7, <2>8, <2>9, <2>10, <2>11 DEF Next, Play
<1>6. QED
  BY <1>1, <1>3, <1>4, <1>5

\* Every match starts free.
LEMMA MatchInit ==
  ASSUME Init, NEW n \in 1..MaxGames
  PROVE  M(n)!Init
<1>1. results = <<>> /\ phase = "between" /\ n \in Nat /\ n # 0
  BY OfflineArenaAssumption DEF Init
<1>2. results \in Seq(Entry(names)) /\ Len(results) = 0 /\ ~Current(n) /\ n \notin 1..Len(results)
  BY <1>1, EmptySeq DEF Current
<1>3. View(n) = Unborn
  BY <1>1, <1>2, ViewIs
<1>4. QED
  BY <1>3 DEF View, Unborn, M!Init

\* Every game of the arena goes through the states of a match of match.py and
\* no others, for any number of bots, games and plies: what decides a game on
\* the server decides it here, in the same order, and is what is recorded.
THEOREM PlaysAMatchAlways == Spec => PlaysAMatch
<1> DEFINE A == \A n \in 1..MaxGames : [M(n)!Next]_(M(n)!state)
           Start == \A n \in 1..MaxGames : M(n)!Init
<1>1. Init => Start
  BY MatchInit
<1>2. IInv /\ Tracked /\ IInv' /\ [Next]_vars => A
  BY MatchSteps DEF MatchStep
<1>3. Spec => Start
  BY <1>1 DEF Spec
<1>4. Spec => [][A]_vars
  BY <1>2, Inductive, PTL DEF Spec
<1>5. QED
  BY <1>3, <1>4 DEF PlaysAMatch

-----------------------------------------------------------------------------
(* The ratings recomputed from the results.  They are defined by recursion *)
(* over the number of games, so that the recursion has a solution, and what *)
(* it depends on, is shown by a least counterexample.                      *)

Replay(bot_names, res) ==
  CHOOSE f : f = [n \in Nat |->
    IF n = 0 THEN [b \in ToSet(bot_names) |-> STARTING_RATING]
    ELSE LET before == f[n - 1]
             r == res[n]
             score == CASE r.result = "white_win" -> WinGain(before[r.white] - before[r.black])
                        [] r.result = "draw" -> DrawGain(before[r.white] - before[r.black])
                        [] r.result = "black_win" -> -WinGain(before[r.black] - before[r.white])
         IN [before EXCEPT ![r.white] = @ + score, ![r.black] = @ - score]]

\* RatingsAfter replays the results.
LEMMA RatingsAfterIs == RatingsAfter = Replay(names, results)
BY Zenon DEF RatingsAfter, Replay

Scored(before, r) ==
  [before EXCEPT ![r.white] = @ + ScoreOf(before, r), ![r.black] = @ - ScoreOf(before, r)]

Start(bot_names) == [b \in ToSet(bot_names) |-> STARTING_RATING]

\* f holds the ratings after each of the first n results.
ReplaysTo(f, bot_names, res, n) ==
  \A k \in 0..n : f[k] = IF k = 0 THEN Start(bot_names) ELSE Scored(f[k - 1], res[k])

\* A replay of the first n results exists.
LEMMA ReplaysToExist ==
  ASSUME NEW bot_names, NEW res
  PROVE  \A n \in Nat : \E f : ReplaysTo(f, bot_names, res, n)
<1> DEFINE Bad == {n \in Nat : ~ \E f : ReplaysTo(f, bot_names, res, n)}
<1> SUFFICES ASSUME Bad # {} PROVE FALSE
  OBVIOUS
<1>1. PICK n \in Bad : \A m \in Bad : n <= m
  BY LeastNat
<1>2. CASE n = 0
  <2> DEFINE f == [k \in 0..0 |-> Start(bot_names)]
  <2>1. ReplaysTo(f, bot_names, res, 0)
    BY DEF ReplaysTo
  <2>2. QED
    BY <1>1, <1>2, <2>1
<1>3. CASE n # 0
  <2>1. n - 1 \in Nat /\ n - 1 \notin Bad
    BY <1>1, <1>3
  <2>2. PICK f : ReplaysTo(f, bot_names, res, n - 1)
    BY <2>1
  <2> DEFINE Step(k) == IF k = 0 THEN Start(bot_names) ELSE Scored(f[k - 1], res[k])
             g == [k \in 0..n |-> Step(k)]
  <2>3. ASSUME NEW k \in 0..(n - 1) PROVE f[k] = Step(k)
    BY <2>2 DEF ReplaysTo
  <2>4. ASSUME NEW k \in 0..n, k # 0 PROVE g[k - 1] = f[k - 1]
    <3>1. k - 1 \in 0..(n - 1) /\ k - 1 \in 0..n
      BY <1>1, <2>4
    <3>2. g[k - 1] = Step(k - 1)
      BY <3>1
    <3> HIDE DEF g, Step
    <3>3. QED
      BY <2>3, <3>1, <3>2
  <2>5. \A k \in 0..n : g[k] = Step(k)
    OBVIOUS
  <2> HIDE DEF g
  <2>6. ASSUME NEW k \in 0..n
        PROVE  g[k] = IF k = 0 THEN Start(bot_names) ELSE Scored(g[k - 1], res[k])
    BY <2>4, <2>5
  <2>7. ReplaysTo(g, bot_names, res, n)
    BY <2>6 DEF ReplaysTo
  <2>8. QED
    BY <1>1, <2>7
<1>4. QED
  BY <1>2, <1>3

\* Two replays agree as long as the games they replay have the same players and
\* results.
SameGames(r, s) == r.white = s.white /\ r.black = s.black /\ r.result = s.result

LEMMA ReplaysAgree ==
  ASSUME NEW bot_names, NEW res, NEW more, NEW f, NEW g, NEW n \in Nat, NEW m \in Nat,
         ReplaysTo(f, bot_names, res, n), ReplaysTo(g, bot_names, more, m), n <= m,
         \A k \in 1..n : SameGames(res[k], more[k])
  PROVE  \A k \in 0..n : f[k] = g[k]
<1> DEFINE Bad == {k \in 0..n : f[k] # g[k]}
<1> SUFFICES ASSUME Bad # {} PROVE FALSE
  OBVIOUS
<1>1. PICK k \in Bad : \A j \in Bad : k <= j
  <2>1. Bad \in SUBSET Nat
    OBVIOUS
  <2>2. QED
    BY <2>1, LeastNat
<1>2. k \in 0..n /\ k \in 0..m
  OBVIOUS
<1>3. k # 0
  BY <1>1, <1>2 DEF ReplaysTo
<1>4. k - 1 \in 0..n /\ k \in 1..n /\ ~(k <= k - 1)
  BY <1>2, <1>3
<1>5. f[k - 1] = g[k - 1]
  <2>1. k - 1 \notin Bad
    BY <1>1, <1>4
  <2>2. QED
    BY <1>4, <2>1
<1>6. f[k] = Scored(f[k - 1], res[k]) /\ g[k] = Scored(g[k - 1], more[k])
  BY <1>2, <1>3 DEF ReplaysTo
<1>7. Scored(f[k - 1], res[k]) = Scored(g[k - 1], more[k])
  BY <1>4, <1>5 DEF SameGames, Scored, ScoreOf
<1>8. QED
  BY <1>6, <1>7

\* The recursion has a solution, and Replay is one.
LEMMA ReplayIs ==
  ASSUME NEW bot_names, NEW res, NEW n \in Nat
  PROVE  ReplaysTo(Replay(bot_names, res), bot_names, res, n)
<1> DEFINE upto(k) == CHOOSE f : ReplaysTo(f, bot_names, res, k)
           h == [k \in Nat |-> upto(k)[k]]
           Value(f, k) == IF k = 0 THEN Start(bot_names) ELSE Scored(f[k - 1], res[k])
<1>1. \A k \in Nat : ReplaysTo(upto(k), bot_names, res, k)
  BY ReplaysToExist
<1>2. ASSUME NEW k \in Nat PROVE h[k] = Value(h, k)
  <2>1. h[k] = upto(k)[k]
    OBVIOUS
  <2>2. upto(k)[k] = Value(upto(k), k)
    BY <1>1 DEF ReplaysTo
  <2>3. CASE k = 0
    BY <2>1, <2>2, <2>3
  <2>4. CASE k # 0
    <3>1. k - 1 \in Nat /\ k - 1 <= k
      BY <2>4
    <3>2. \A j \in 1..(k - 1) : SameGames(res[j], res[j])
      BY DEF SameGames
    <3>3. ReplaysTo(upto(k), bot_names, res, k) /\ ReplaysTo(upto(k - 1), bot_names, res, k - 1)
      BY <1>1, <3>1
    <3>4. h[k - 1] = upto(k - 1)[k - 1]
      BY <3>1
    <3> HIDE DEF upto, h
    <3>5. \A j \in 0..(k - 1) : upto(k - 1)[j] = upto(k)[j]
      BY <3>1, <3>2, <3>3, ReplaysAgree
    <3>6. upto(k)[k - 1] = h[k - 1]
      BY <3>1, <3>4, <3>5
    <3>7. QED
      BY <2>1, <2>2, <2>4, <3>6
  <2>5. QED
    BY <2>3, <2>4
<1>3. DOMAIN h = Nat
  OBVIOUS
<1> DEFINE Solves(f) == f = [k \in Nat |-> Value(f, k)]
<1>4. \E f : Solves(f)
  <2>1. h = [k \in Nat |-> h[k]]
    OBVIOUS
  <2> HIDE DEF h, Value
  <2>2. [k \in Nat |-> h[k]] = [k \in Nat |-> Value(h, k)]
    BY <1>2
  <2>3. Solves(h)
    BY <2>1, <2>2
  <2>4. QED
    BY <2>3
<1>5. Replay(bot_names, res) = CHOOSE f : Solves(f)
  BY Zenon DEF Replay, Scored, ScoreOf, Start
<1>6. Solves(Replay(bot_names, res))
  <2> HIDE DEF Solves
  <2>1. QED
    BY <1>4, <1>5
<1>7. \A k \in Nat : Replay(bot_names, res)[k] = Value(Replay(bot_names, res), k)
  <2> DEFINE f == Replay(bot_names, res)
  <2>1. f = [k \in Nat |-> Value(f, k)]
    BY <1>6
  <2> HIDE DEF f, Value
  <2>2. \A k \in Nat : f[k] = Value(f, k)
    BY <2>1
  <2>3. QED
    BY <2>2 DEF f
<1>8. QED
  BY <1>7 DEF ReplaysTo

\* The ratings after n games of a list of results, and after one more.
LEMMA ReplayNext ==
  ASSUME NEW bot_names, NEW res, NEW n \in Nat
  PROVE  /\ Replay(bot_names, res)[0] = Start(bot_names)
         /\ Replay(bot_names, res)[n + 1] = Scored(Replay(bot_names, res)[n], res[n + 1])
<1>1. ReplaysTo(Replay(bot_names, res), bot_names, res, n + 1)
  BY ReplayIs
<1>2. 0 \in 0..(n + 1) /\ n + 1 \in 0..(n + 1) /\ n + 1 # 0 /\ (n + 1) - 1 = n
  OBVIOUS
<1>3. QED
  BY <1>1, <1>2 DEF ReplaysTo

\* Lists of results that begin alike replay alike.
LEMMA ReplayPrefix ==
  ASSUME NEW bot_names, NEW res, NEW more, NEW n \in Nat,
         \A k \in 1..n : SameGames(res[k], more[k])
  PROVE  \A k \in 0..n : Replay(bot_names, res)[k] = Replay(bot_names, more)[k]
<1>1. ReplaysTo(Replay(bot_names, res), bot_names, res, n)
  BY ReplayIs
<1>2. ReplaysTo(Replay(bot_names, more), bot_names, more, n)
  BY ReplayIs
<1>3. n <= n
  OBVIOUS
<1>4. QED
  BY <1>1, <1>2, <1>3, ReplaysAgree

-----------------------------------------------------------------------------
(* The sum of a table of ratings.  The fold takes its entries in an order  *)
(* of its own, one by one.                                                 *)

Pick(S) == CHOOSE x \in S : TRUE

Total(f) == FoldFunction(+, 0, f)

Sums(f, S) ==
  CHOOSE g : g = [s \in SUBSET S |-> IF s = {} THEN 0 ELSE f[Pick(s)] + g[s \ {Pick(s)}]]

\* The fold is the recursive sum over its whole domain.
LEMMA FoldIs ==
  ASSUME NEW f
  PROVE  Total(f) = Sums(f, DOMAIN f)[DOMAIN f]
BY Zenon DEF Total, FoldFunction, FoldFunctionOnSet, MapThenFoldSet, Sums, Pick

UpTo(S, n) == {s \in SUBSET S : Cardinality(s) <= n}

SumsUpTo(g, f, S, n) ==
  /\ DOMAIN g = UpTo(S, n)
  /\ \A s \in UpTo(S, n) : g[s] = IF s = {} THEN 0 ELSE f[Pick(s)] + g[s \ {Pick(s)}]

\* Taking out what the fold picks leaves a set smaller by one.
LEMMA Smaller ==
  ASSUME NEW S, IsFiniteSet(S), NEW s \in SUBSET S, s # {}
  PROVE  /\ Pick(s) \in s /\ Pick(s) \in S /\ s \ {Pick(s)} \in SUBSET S
         /\ Cardinality(s) \in Nat /\ Cardinality(s) # 0
         /\ Cardinality(s \ {Pick(s)}) = Cardinality(s) - 1
<1>1. Pick(s) \in s
  BY DEF Pick
<1>2. IsFiniteSet(s)
  BY FS_Subset
<1>3. Cardinality(s) \in Nat /\ Cardinality(s) # 0
  BY <1>2, FS_CardinalityType, FS_EmptySet
<1>4. Cardinality(s \ {Pick(s)}) = Cardinality(s) - 1
  BY <1>1, <1>2, FS_RemoveElement
<1>5. QED
  BY <1>1, <1>3, <1>4

\* There are sums for all sets of up to n entries.
LEMMA SumsUpToExist ==
  ASSUME NEW S, IsFiniteSet(S), NEW f
  PROVE  \A n \in Nat : \E g : SumsUpTo(g, f, S, n)
<1> DEFINE Bad == {n \in Nat : ~ \E g : SumsUpTo(g, f, S, n)}
<1> SUFFICES ASSUME Bad # {} PROVE FALSE
  OBVIOUS
<1>1. PICK n \in Bad : \A m \in Bad : n <= m
  BY LeastNat
<1>2. CASE n = 0
  <2> DEFINE g == [s \in UpTo(S, 0) |-> 0]
  <2>1. ASSUME NEW s \in UpTo(S, 0) PROVE s = {}
    <3>1. s \in SUBSET S /\ Cardinality(s) <= 0
      BY DEF UpTo
    <3>2. s # {} => Cardinality(s) \in Nat /\ Cardinality(s) # 0
      BY <3>1, Smaller
    <3>3. QED
      BY <3>1, <3>2
  <2>2. SumsUpTo(g, f, S, 0)
    BY <2>1 DEF SumsUpTo
  <2>3. QED
    BY <1>1, <1>2, <2>2
<1>3. CASE n # 0
  <2>1. n - 1 \in Nat /\ n - 1 \notin Bad
    BY <1>1, <1>3
  <2>2. PICK g : SumsUpTo(g, f, S, n - 1)
    BY <2>1
  <2> DEFINE Step(s) == IF s = {} THEN 0 ELSE f[Pick(s)] + g[s \ {Pick(s)}]
             h == [s \in UpTo(S, n) |-> Step(s)]
  <2>3. ASSUME NEW s \in UpTo(S, n), s # {}
        PROVE  s \ {Pick(s)} \in UpTo(S, n - 1) /\ s \ {Pick(s)} \in UpTo(S, n)
    <3>1. s \in SUBSET S /\ Cardinality(s) <= n
      BY DEF UpTo
    <3>2. /\ s \ {Pick(s)} \in SUBSET S /\ Cardinality(s) \in Nat
          /\ Cardinality(s \ {Pick(s)}) = Cardinality(s) - 1
      BY <2>3, <3>1, Smaller
    <3>3. Cardinality(s \ {Pick(s)}) <= n - 1 /\ Cardinality(s \ {Pick(s)}) <= n
      BY <2>1, <3>1, <3>2
    <3>4. QED
      BY <3>2, <3>3 DEF UpTo
  <2>4. \A s \in UpTo(S, n - 1) : g[s] = Step(s)
    BY <2>2 DEF SumsUpTo
  <2>5. \A s \in UpTo(S, n) : h[s] = Step(s)
    OBVIOUS
  <2>6. DOMAIN h = UpTo(S, n)
    OBVIOUS
  <2> HIDE DEF h
  <2>7. ASSUME NEW s \in UpTo(S, n)
        PROVE  h[s] = IF s = {} THEN 0 ELSE f[Pick(s)] + h[s \ {Pick(s)}]
    <3>1. CASE s # {}
      <4>1. h[s \ {Pick(s)}] = g[s \ {Pick(s)}]
        BY <2>3, <2>4, <2>5, <3>1
      <4>2. QED
        BY <2>5, <3>1, <4>1
    <3>2. QED
      BY <2>5, <3>1
  <2>8. SumsUpTo(h, f, S, n)
    BY <2>6, <2>7 DEF SumsUpTo
  <2>9. QED
    BY <1>1, <2>8
<1>4. QED
  BY <1>2, <1>3

\* The recursion of the sums has a solution.
LEMMA SumsAre ==
  ASSUME NEW S, IsFiniteSet(S), NEW f
  PROVE  \A s \in SUBSET S :
           Sums(f, S)[s] = IF s = {} THEN 0 ELSE f[Pick(s)] + Sums(f, S)[s \ {Pick(s)}]
<1> DEFINE Value(g, s) == IF s = {} THEN 0 ELSE f[Pick(s)] + g[s \ {Pick(s)}]
           Solves(g) == g = [s \in SUBSET S |-> Value(g, s)]
<1>1. Cardinality(S) \in Nat
  BY FS_CardinalityType
<1>2. PICK g : SumsUpTo(g, f, S, Cardinality(S))
  BY <1>1, SumsUpToExist
<1>3. UpTo(S, Cardinality(S)) = SUBSET S
  BY <1>1, FS_Subset DEF UpTo
<1> DEFINE h == [s \in SUBSET S |-> g[s]]
<1>4. \A s \in SUBSET S : h[s] = Value(h, s)
  <2>1. \A s \in SUBSET S : g[s] = Value(g, s)
    BY <1>2, <1>3 DEF SumsUpTo
  <2>2. ASSUME NEW s \in SUBSET S PROVE h[s] = Value(h, s)
    <3>1. s # {} => s \ {Pick(s)} \in SUBSET S
      OBVIOUS
    <3>2. QED
      BY <2>1, <3>1
  <2>3. QED
    BY <2>2
<1>5. \E e : Solves(e)
  <2> HIDE DEF h, Value
  <2>1. h = [s \in SUBSET S |-> h[s]]
    BY DEF h
  <2>2. h = [s \in SUBSET S |-> Value(h, s)]
    BY <1>4, <2>1
  <2>3. QED
    BY <2>2
<1>6. Sums(f, S) = CHOOSE e : Solves(e)
  BY Zenon DEF Sums
<1>7. Solves(Sums(f, S))
  <2> HIDE DEF Solves
  <2>1. QED
    BY <1>5, <1>6
<1> DEFINE t == Sums(f, S)
<1>8. t = [s \in SUBSET S |-> Value(t, s)]
  BY <1>7
<1> HIDE DEF t, Value
<1>9. \A s \in SUBSET S : t[s] = Value(t, s)
  BY <1>8
<1>10. QED
  BY <1>9 DEF t, Value

Plus(f, x, d) == [f EXCEPT ![x] = @ + d]

\* What is added to one entry is added to the sum.
LEMMA SumMoves ==
  ASSUME NEW S, IsFiniteSet(S), NEW f \in [S -> Int], NEW x \in S, NEW d \in Int
  PROVE  /\ Plus(f, x, d) \in [S -> Int]
         /\ Total(f) \in Int /\ Total(Plus(f, x, d)) = Total(f) + d
<1> DEFINE g == Plus(f, x, d)
           F == Sums(f, S)
           G == Sums(g, S)
           Good(s) == F[s] \in Int /\ G[s] = F[s] + (IF x \in s THEN d ELSE 0)
           Bad == {s \in SUBSET S : ~Good(s)}
           Sizes == {Cardinality(s) : s \in Bad}
<1>1. /\ \A s \in SUBSET S : F[s] = IF s = {} THEN 0 ELSE f[Pick(s)] + F[s \ {Pick(s)}]
      /\ \A s \in SUBSET S : G[s] = IF s = {} THEN 0 ELSE g[Pick(s)] + G[s \ {Pick(s)}]
  <2>1. \A s \in SUBSET S : F[s] = IF s = {} THEN 0 ELSE f[Pick(s)] + F[s \ {Pick(s)}]
    BY SumsAre
  <2>2. \A s \in SUBSET S : G[s] = IF s = {} THEN 0 ELSE g[Pick(s)] + G[s \ {Pick(s)}]
    BY SumsAre
  <2>3. QED
    BY <2>1, <2>2
<1>2. g \in [S -> Int] /\ DOMAIN f = S /\ DOMAIN g = S
  BY DEF Plus
<1>3. \A y \in S : f[y] \in Int /\ g[y] = f[y] + (IF y = x THEN d ELSE 0)
  BY DEF Plus
<1> HIDE DEF g
<1>4. Total(f) = F[S] /\ Total(g) = G[S]
  BY <1>2, FoldIs
<1> HIDE DEF F, G
<1>5. Bad = {}
  <2> SUFFICES ASSUME Bad # {} PROVE FALSE
    OBVIOUS
  <2>1. Sizes \in SUBSET Nat /\ Sizes # {}
    BY FS_Subset, FS_CardinalityType
  <2>2. PICK n \in Sizes : \A m \in Sizes : n <= m
    BY <2>1, LeastNat
  <2>3. PICK s \in Bad : n = Cardinality(s)
    OBVIOUS
  <2>4. s # {}
    <3>1. F[{}] = 0 /\ G[{}] = 0
      BY <1>1
    <3>2. Good({})
      BY <3>1
    <3>3. QED
      BY <3>2
  <2> DEFINE p == Pick(s)
             rest == s \ {p}
  <2>5. p \in s /\ p \in S /\ rest \in SUBSET S /\ Cardinality(s) \in Nat
        /\ Cardinality(rest) = Cardinality(s) - 1
    BY <2>4, Smaller
  <2>6. F[s] = f[p] + F[rest] /\ G[s] = g[p] + G[rest]
    BY <1>1, <2>4
  <2> HIDE DEF p, rest
  <2>7. Good(rest)
    <3>1. rest \in Bad => n <= Cardinality(rest)
      BY <2>2
    <3>2. rest \notin Bad
      BY <2>3, <2>5, <3>1
    <3>3. QED
      BY <2>5, <3>2
  <2>8. f[p] \in Int /\ g[p] = f[p] + (IF p = x THEN d ELSE 0)
    BY <1>3, <2>5
  <2>9. CASE p = x
    <3>1. x \in s /\ x \notin rest
      BY <2>5, <2>9 DEF rest
    <3>2. QED
      BY <2>6, <2>7, <2>8, <2>9, <3>1
  <2>10. CASE p # x
    <3>1. x \in s <=> x \in rest
      BY <2>10 DEF rest
    <3>2. QED
      BY <2>6, <2>7, <2>8, <2>10, <3>1
  <2>11. QED
    BY <2>9, <2>10
<1>6. Good(S)
  BY <1>5
<1>7. QED
  BY <1>2, <1>4, <1>6 DEF g

\* The sum of equal entries
LEMMA SumOfEqual ==
  ASSUME NEW S, IsFiniteSet(S), NEW c \in Int
  PROVE  Total([x \in S |-> c]) = c * Cardinality(S)
<1> DEFINE f == [x \in S |-> c]
           F == Sums(f, S)
           Bad == {s \in SUBSET S : F[s] # c * Cardinality(s)}
           Sizes == {Cardinality(s) : s \in Bad}
<1>1. \A s \in SUBSET S : F[s] = IF s = {} THEN 0 ELSE f[Pick(s)] + F[s \ {Pick(s)}]
  BY SumsAre
<1>2. Total(f) = F[S]
  BY FoldIs
<1>3. \A y \in S : f[y] = c
  OBVIOUS
<1> HIDE DEF F, f
<1>4. Bad = {}
  <2> SUFFICES ASSUME Bad # {} PROVE FALSE
    OBVIOUS
  <2>1. Sizes \in SUBSET Nat /\ Sizes # {}
    BY FS_Subset, FS_CardinalityType
  <2>2. PICK n \in Sizes : \A m \in Sizes : n <= m
    BY <2>1, LeastNat
  <2>3. PICK s \in Bad : n = Cardinality(s)
    OBVIOUS
  <2>4. s # {}
    <3>1. c * 0 = 0
      OBVIOUS
    <3>2. F[{}] = c * Cardinality({})
      BY <1>1, <3>1, FS_EmptySet
    <3>3. QED
      BY <3>2
  <2> DEFINE p == Pick(s)
             rest == s \ {p}
  <2>5. p \in s /\ p \in S /\ rest \in SUBSET S /\ Cardinality(s) \in Nat
        /\ Cardinality(rest) = Cardinality(s) - 1
    BY <2>4, Smaller
  <2>6. F[s] = f[p] + F[rest]
    BY <1>1, <2>4
  <2> HIDE DEF p, rest
  <2>7. F[rest] = c * Cardinality(rest)
    <3>1. rest \in Bad => n <= Cardinality(rest)
      BY <2>2
    <3>2. rest \notin Bad
      BY <2>3, <2>5, <3>1
    <3>3. QED
      BY <2>5, <3>2
  <2>8. \A m \in Nat : c + c * (m - 1) = c * m
    OBVIOUS
  <2>9. F[s] = c * Cardinality(s)
    BY <1>3, <2>5, <2>6, <2>7, <2>8
  <2>10. QED
    BY <2>9
<1>5. QED
  BY <1>2, <1>4 DEF f

-----------------------------------------------------------------------------
(* The standings.                                                          *)

Among(rec, S, b) == {n \in DOMAIN rec : rec[n].result \in S /\ b \in {rec[n].white, rec[n].black}}

Won(rec, b) ==
  {n \in DOMAIN rec : \/ rec[n].white = b /\ rec[n].result = "white_win"
                      \/ rec[n].black = b /\ rec[n].result = "black_win"}

Decisive == {"white_win", "black_win"}

\* The totals of one bot
Counts(rec, b, w, l, d, g) ==
  /\ g = Cardinality(Among(rec, Outcome, b))
  /\ d = Cardinality(Among(rec, {"draw"}, b))
  /\ w = Cardinality(Won(rec, b))
  /\ l = Cardinality(Among(rec, Decisive, b)) - Cardinality(Won(rec, b))

\* What StandingsReplay says, of the recorded games alone
Replayed(bot_names, rec, rt, w, l, d, g) ==
  /\ rt = Replay(bot_names, rec)[Len(rec)]
  /\ \A n \in 1..Len(rec) :
       /\ rec[n].white_rating = Replay(bot_names, rec)[n - 1][rec[n].white]
       /\ rec[n].black_rating = Replay(bot_names, rec)[n - 1][rec[n].black]
  /\ \A b \in ToSet(bot_names) : Counts(rec, b, w[b], l[b], d[b], g[b])
  /\ Total(rt) = STARTING_RATING * Len(bot_names)

Standing == Replayed(names, Recorded, ratings, wins, losses, draws, games_played)

\* The recorded games are the first of the results.
LEMMA RecordedIs ==
  ASSUME Tournament
  PROVE  /\ Recorded \in Seq(Entry(names)) /\ Len(Recorded) \in Nat
         /\ \A n \in 1..Len(Recorded) : Recorded[n] = results[n]
         /\ phase = "returned" => Len(results) = Len(Recorded) + 1
<1>1. results \in Seq(Entry(names)) /\ Len(results) \in Nat
  BY LenProperties DEF Tournament
<1>2. CASE phase = "returned"
  <2>1. Recorded = SubSeq(results, 1, Len(results) - 1)
    BY <1>2 DEF Recorded, Front
  <2>2. Len(results) # 0
    BY <1>1, <1>2, EmptySeq DEF Tournament
  <2>3. PICK m \in Nat : m = Len(results) - 1
    BY <1>1, <2>2
  <2> DEFINE f == SubSeq(results, 1, m)
  <2>4. f \in Seq(Entry(names)) /\ Len(f) = m /\ \A n \in 1..m : f[n] = results[n]
    <3>1. m <= Len(results)
      BY <1>1, <2>3
    <3>2. 1 \in 1..(Len(results) + 1) /\ m \in 0..Len(results)
      BY <1>1, <3>1
    <3>3. f \in Seq(Entry(names)) /\ f = [i \in 1..(m - 1 + 1) |-> results[1 + i - 1]]
      BY <1>1, <3>1, <3>2
    <3>4. m - 1 + 1 = m /\ \A i \in 1..m : 1 + i - 1 = i
      OBVIOUS
    <3> HIDE DEF f
    <3>5. f = [i \in 1..m |-> results[1 + i - 1]]
      BY <3>3, <3>4
    <3>6. Len(f) = m
      BY <3>3, <3>5, LenProperties
    <3>7. QED
      BY <3>3, <3>4, <3>5, <3>6
  <2> HIDE DEF f
  <2>5. QED
    BY <1>1, <1>2, <2>1, <2>2, <2>3, <2>4 DEF f
<1>3. CASE phase # "returned"
  BY <1>1, <1>3 DEF Recorded
<1>4. QED
  BY <1>2, <1>3

\* The property says what Standing says.
LEMMA StandingIs ==
  ASSUME Tournament
  PROVE  StandingsReplay <=> Standing
<1> DEFINE n == Len(Recorded)
<1>1. /\ n \in Nat /\ DOMAIN Recorded = 1..n
      /\ \A k \in 1..n : Recorded[k] = results[k]
  BY RecordedIs, LenProperties
<1>2. \A k \in 0..n : RatingsAfter[k] = Replay(names, Recorded)[k]
  <2>1. \A k \in 1..n : SameGames(results[k], Recorded[k])
    BY <1>1 DEF SameGames
  <2>2. \A k \in 0..n : Replay(names, results)[k] = Replay(names, Recorded)[k]
    BY <1>1, <2>1, ReplayPrefix
  <2>3. QED
    BY <2>2, RatingsAfterIs
<1>3. n \in 0..n /\ \A k \in 1..n : k - 1 \in 0..n
  BY <1>1
<1> HIDE DEF n
<1>4. ratings = RatingsAfter[n] <=> ratings = Replay(names, Recorded)[n]
  BY <1>2, <1>3
<1>5. ASSUME NEW k \in DOMAIN Recorded
      PROVE  RatingsAfter[k - 1] = Replay(names, Recorded)[k - 1]
  BY <1>1, <1>2, <1>3
<1>6. Total(ratings) = FoldFunction(+, 0, ratings)
  BY DEF Total
<1> DEFINE Headers(before) ==
             \A k \in 1..n : /\ Recorded[k].white_rating = before[k - 1][Recorded[k].white]
                            /\ Recorded[k].black_rating = before[k - 1][Recorded[k].black]
           Table == \A b \in ToSet(names) :
                      LET of(S) == Cardinality({k \in DOMAIN Recorded : Recorded[k].result \in S /\
                                                  b \in {Recorded[k].white, Recorded[k].black}})
                          won == Cardinality({k \in DOMAIN Recorded :
                                    \/ Recorded[k].white = b /\ Recorded[k].result = "white_win"
                                    \/ Recorded[k].black = b /\ Recorded[k].result = "black_win"})
                      IN /\ games_played[b] = of(Outcome)
                         /\ draws[b] = of({"draw"})
                         /\ wins[b] = won
                         /\ losses[b] = of({"white_win", "black_win"}) - won
           Tallied == \A b \in ToSet(names) :
                        Counts(Recorded, b, wins[b], losses[b], draws[b], games_played[b])
<1>7. Headers(RatingsAfter) <=> Headers(Replay(names, Recorded))
  <2>1. \A k \in 1..n : RatingsAfter[k - 1] = Replay(names, Recorded)[k - 1]
    BY <1>1, <1>5
  <2>2. QED
    BY <2>1, Zenon
<1>8. Table <=> Tallied
  BY Zenon DEF Counts, Among, Won, Decisive
<1>9. StandingsReplay <=> /\ ratings = RatingsAfter[n] /\ Headers(RatingsAfter) /\ Table
                          /\ FoldFunction(+, 0, ratings) = STARTING_RATING * Len(names)
  BY <1>1, Zenon DEF StandingsReplay, n
<1>10. Standing <=> /\ ratings = Replay(names, Recorded)[n] /\ Headers(Replay(names, Recorded))
                    /\ Tallied /\ Total(ratings) = STARTING_RATING * Len(names)
  BY Zenon DEF Standing, Replayed, n
<1> HIDE DEF Headers, Table, Tallied
<1>11. QED
  BY <1>4, <1>6, <1>7, <1>8, <1>9, <1>10

\* The names are as many as the bots they name.
LEMMA AsManyNames ==
  ASSUME NEW bot_names, Distinct(bot_names)
  PROVE  IsFiniteSet(ToSet(bot_names)) /\ Cardinality(ToSet(bot_names)) = Len(bot_names)
<1> DEFINE n == Len(bot_names)
<1>1. n \in Nat /\ DOMAIN bot_names = 1..n /\ bot_names \in [1..n -> ToSet(bot_names)]
  BY LenProperties DEF Distinct
<1>2. bot_names \in Injection(1..n, ToSet(bot_names))
  BY <1>1 DEF Injection, IsInjective, Distinct
<1>3. bot_names \in Surjection(1..n, ToSet(bot_names))
  BY <1>1 DEF Surjection, ToSet
<1>4. IsFiniteSet(1..n) /\ Cardinality(1..n) = n
  <2>1. Cardinality(1..n) = IF 1 > n THEN 0 ELSE n - 1 + 1
    BY <1>1, FS_Interval
  <2>2. IsFiniteSet(1..n)
    BY <1>1, FS_Interval
  <2>3. QED
    BY <1>1, <2>1, <2>2
<1>5. QED
  BY <1>2, <1>3, <1>4, FS_Bijection DEF Bijection, ExistsBijection

\* Before the first game
LEMMA StandingInit == Init => Standing
<1> SUFFICES ASSUME Init PROVE Standing
  OBVIOUS
<1>1. Distinct(names)
  BY NamesDistinct DEF Init
<1>2. Recorded = <<>> /\ Len(Recorded) = 0 /\ DOMAIN Recorded = {}
  BY EmptySeq DEF Init, Recorded
<1>3. ratings = Start(names)
  BY DEF Init, Start
<1>4. Replay(names, Recorded)[0] = Start(names)
  BY ReplayNext
<1>5. ASSUME NEW b \in ToSet(names)
      PROVE  Counts(Recorded, b, wins[b], losses[b], draws[b], games_played[b])
  <2>1. wins[b] = 0 /\ losses[b] = 0 /\ draws[b] = 0 /\ games_played[b] = 0
    BY DEF Init
  <2>2. Cardinality({}) = 0
    BY FS_EmptySet
  <2>3. /\ Among(Recorded, Outcome, b) = {} /\ Among(Recorded, {"draw"}, b) = {}
        /\ Among(Recorded, Decisive, b) = {} /\ Won(Recorded, b) = {}
    BY <1>2 DEF Among, Won
  <2>4. QED
    BY <2>1, <2>2, <2>3 DEF Counts
<1>6. Total(ratings) = STARTING_RATING * Len(names)
  <2>1. IsFiniteSet(ToSet(names)) /\ Cardinality(ToSet(names)) = Len(names)
    BY <1>1, AsManyNames
  <2>2. STARTING_RATING \in Int
    BY DEF STARTING_RATING
  <2>3. QED
    BY <1>3, <2>1, <2>2, SumOfEqual DEF Start
<1>7. \A n \in 1..Len(Recorded) : FALSE
  BY <1>2
<1>8. QED
  BY <1>2, <1>3, <1>4, <1>5, <1>6, <1>7 DEF Standing, Replayed

\* more is rec with one game more, e.
OneMore(rec, more, e) ==
  /\ Len(rec) \in Nat /\ Len(more) = Len(rec) + 1
  /\ DOMAIN rec = 1..Len(rec) /\ DOMAIN more = 1..(Len(rec) + 1)
  /\ \A n \in 1..Len(rec) : more[n] = rec[n]
  /\ more[Len(rec) + 1] = e

\* 1 for a bot that is one of them
In(b, who) == IF b \in who THEN 1 ELSE 0

\* Counting one number more, for those that it counts for.
LEMMA CountNext ==
  ASSUME NEW n \in Nat, NEW A \in SUBSET (1..n), NEW b, NEW who,
         NEW more, more = A \cup (IF b \in who THEN {n + 1} ELSE {})
  PROVE  Cardinality(A) \in Nat /\ Cardinality(more) = Cardinality(A) + In(b, who)
<1>1. IsFiniteSet(1..n)
  <2>1. 1 \in Int /\ n \in Int
    OBVIOUS
  <2>2. QED
    BY <2>1, FS_Interval
<1>2. IsFiniteSet(A)
  BY <1>1, FS_Subset
<1>3. Cardinality(A) \in Nat
  BY <1>2, FS_CardinalityType
<1>4. CASE b \in who
  <2>1. n + 1 \notin A
    OBVIOUS
  <2>2. Cardinality(A \cup {n + 1}) = Cardinality(A) + 1
    BY <1>2, <2>1, FS_AddElement
  <2>3. QED
    BY <1>3, <1>4, <2>2 DEF In
<1>5. CASE b \notin who
  <2>1. more = A
    BY <1>5
  <2>2. QED
    BY <1>3, <1>5, <2>1 DEF In
<1>6. QED
  BY <1>4, <1>5

\* The players of a game that ended in one of these results
Players(S, e) == IF e.result \in S THEN {e.white, e.black} ELSE {}

\* The games that a bot has with one of the results in S, after one game more.
LEMMA AmongNext ==
  ASSUME NEW rec, NEW more, NEW e, OneMore(rec, more, e), NEW S, NEW b
  PROVE  /\ Cardinality(Among(rec, S, b)) \in Nat
         /\ Cardinality(Among(more, S, b)) = Cardinality(Among(rec, S, b)) + In(b, Players(S, e))
<1>1. Among(rec, S, b) \in SUBSET (1..Len(rec))
  BY DEF Among, OneMore
<1>2. Among(more, S, b) = Among(rec, S, b)
                            \cup (IF b \in Players(S, e) THEN {Len(rec) + 1} ELSE {})
  <2>1. 1..(Len(rec) + 1) = (1..Len(rec)) \cup {Len(rec) + 1}
    BY DEF OneMore
  <2>2. QED
    BY <2>1 DEF Among, OneMore, Players
<1>3. Len(rec) \in Nat
  BY DEF OneMore
<1>4. QED
  BY <1>1, <1>2, <1>3, CountNext

Winner(e) == CASE e.result = "white_win" -> {e.white}
               [] e.result = "black_win" -> {e.black}
               [] e.result = "draw" -> {}

\* The games that a bot has won, after one game more.
LEMMA WonNext ==
  ASSUME NEW rec, NEW more, NEW e, OneMore(rec, more, e), e.result \in Outcome, NEW b
  PROVE  /\ Cardinality(Won(rec, b)) \in Nat
         /\ Cardinality(Won(more, b)) = Cardinality(Won(rec, b)) + In(b, Winner(e))
<1>1. Won(rec, b) \in SUBSET (1..Len(rec))
  BY DEF Won, OneMore
<1>2. Won(more, b) = Won(rec, b) \cup (IF b \in Winner(e) THEN {Len(rec) + 1} ELSE {})
  <2>1. 1..(Len(rec) + 1) = (1..Len(rec)) \cup {Len(rec) + 1}
    BY DEF OneMore
  <2>2. b \in Winner(e) <=> \/ e.white = b /\ e.result = "white_win"
                            \/ e.black = b /\ e.result = "black_win"
    BY DEF Winner, Outcome
  <2>3. QED
    BY <2>1, <2>2 DEF Won, OneMore
<1>3. Len(rec) \in Nat
  BY DEF OneMore
<1> DEFINE A == Won(rec, b)
           B == Won(more, b)
           who == Winner(e)
<1> HIDE DEF A, B, who
<1>4. PICK n \in Nat : n = Len(rec)
  BY <1>3
<1>5. A \in SUBSET (1..n) /\ B = A \cup (IF b \in who THEN {n + 1} ELSE {})
  BY <1>1, <1>2, <1>4 DEF A, B, who
<1>6. QED
  BY <1>5, CountNext DEF A, B, who

\* A counter after Bump.
LEMMA BumpAt ==
  ASSUME NEW N, NEW b \in N, NEW c \in [N -> Nat], NEW who
  PROVE  Bump(c, who)[b] = c[b] + In(b, who)
BY DEF Bump, In

\* Who record_game counts, by the result
LEMMA Tally ==
  ASSUME NEW e, e.white # e.black, e.result \in Outcome, NEW b
  PROVE  LET both == {e.white, e.black}
             winner == Winner(e)
         IN /\ both = Players(Outcome, e)
            /\ (IF winner = {} THEN both ELSE {}) = Players({"draw"}, e)
            /\ In(b, IF winner = {} THEN {} ELSE both \ winner)
                 = In(b, Players(Decisive, e)) - In(b, winner)
<1>1. CASE e.result = "draw"
  BY <1>1 DEF Winner, Players, In, Decisive, Outcome
<1>2. CASE e.result = "white_win"
  BY <1>2 DEF Winner, Players, In, Decisive, Outcome
<1>3. CASE e.result = "black_win"
  BY <1>3 DEF Winner, Players, In, Decisive, Outcome
<1>4. QED
  BY <1>1, <1>2, <1>3 DEF Outcome

\* What record_game counts is what the list of games then holds.
LEMMA CountsNext ==
  ASSUME NEW N, NEW b \in N, NEW rec, NEW more, NEW e, OneMore(rec, more, e),
         e.white # e.black, e.result \in Outcome,
         NEW w \in [N -> Nat], NEW l \in [N -> Nat], NEW d \in [N -> Nat], NEW g \in [N -> Nat],
         Counts(rec, b, w[b], l[b], d[b], g[b])
  PROVE  LET both == {e.white, e.black}
             winner == Winner(e)
         IN Counts(more, b, Bump(w, winner)[b],
                            Bump(l, IF winner = {} THEN {} ELSE both \ winner)[b],
                            Bump(d, IF winner = {} THEN both ELSE {})[b],
                            Bump(g, both)[b])
<1> DEFINE both == {e.white, e.black}
           winner == Winner(e)
           losers == IF winner = {} THEN {} ELSE both \ winner
           drawn == IF winner = {} THEN both ELSE {}
<1>1. /\ both = Players(Outcome, e) /\ drawn = Players({"draw"}, e)
      /\ In(b, losers) = In(b, Players(Decisive, e)) - In(b, winner)
  BY Tally
<1> HIDE DEF both, winner, losers, drawn
<1>2. /\ Bump(g, both)[b] = g[b] + In(b, both) /\ Bump(d, drawn)[b] = d[b] + In(b, drawn)
      /\ Bump(w, winner)[b] = w[b] + In(b, winner) /\ Bump(l, losers)[b] = l[b] + In(b, losers)
  BY BumpAt
<1>3. PICK x, y \in Nat : x = Cardinality(Among(rec, Decisive, b)) /\ y = Cardinality(Won(rec, b))
  BY AmongNext, WonNext
<1>4. /\ Cardinality(Among(more, Decisive, b)) = x + In(b, Players(Decisive, e))
      /\ Cardinality(Won(more, b)) = y + In(b, winner)
  BY <1>3, AmongNext, WonNext DEF winner
<1>5. l[b] = x - y /\ w[b] = y
  BY <1>3 DEF Counts
<1>6. \A who : In(b, who) \in Int
  BY DEF In
<1>7. Bump(l, losers)[b] = Cardinality(Among(more, Decisive, b)) - Cardinality(Won(more, b))
  BY <1>1, <1>2, <1>3, <1>4, <1>5, <1>6
<1>8. Bump(w, winner)[b] = Cardinality(Won(more, b))
  BY <1>2, <1>4, <1>5
<1>9. Bump(g, both)[b] = Cardinality(Among(more, Outcome, b))
  BY <1>1, <1>2, AmongNext DEF Counts
<1>10. Bump(d, drawn)[b] = Cardinality(Among(more, {"draw"}, b))
  BY <1>1, <1>2, AmongNext DEF Counts
<1>11. QED
  BY <1>7, <1>8, <1>9, <1>10 DEF Counts, both, winner, losers, drawn

\* No rating point is made or lost.
LEMMA SumScored ==
  ASSUME NEW N, IsFiniteSet(N), NEW before \in [N -> Int],
         NEW e, e.white \in N, e.black \in N, e.white # e.black, e.result \in Outcome
  PROVE  Total(Scored(before, e)) = Total(before)
<1>1. PICK s \in Int, x, y \in N : s = ScoreOf(before, e) /\ x = e.white /\ y = e.black /\ x # y
  BY GainsAre
<1> DEFINE once == Plus(before, x, s)
           twice == Plus(once, y, -s)
<1>2. Scored(before, e) = twice
  BY <1>1 DEF Scored, Plus
<1>3. once \in [N -> Int] /\ Total(before) \in Int /\ Total(once) = Total(before) + s
  BY SumMoves
<1>4. -s \in Int
  OBVIOUS
<1> HIDE DEF once
<1>5. Total(twice) = Total(once) + (-s)
  BY <1>3, <1>4, SumMoves
<1> HIDE DEF twice
<1>6. QED
  BY <1>2, <1>3, <1>5

Continues(rec, more, n) == \A k \in 1..n : more[k] = rec[k]

Agree(f, g, n) == \A k \in 0..n : f[k] = g[k]

\* The replay of one game more.
LEMMA ReplayMore ==
  ASSUME NEW bot_names, NEW rec, NEW more, NEW n \in Nat, Continues(rec, more, n)
  PROVE  /\ Agree(Replay(bot_names, rec), Replay(bot_names, more), n)
         /\ Replay(bot_names, more)[n + 1] = Scored(Replay(bot_names, rec)[n], more[n + 1])
<1>1. \A k \in 1..n : SameGames(rec[k], more[k])
  BY DEF SameGames, Continues
<1>2. \A k \in 0..n : Replay(bot_names, rec)[k] = Replay(bot_names, more)[k]
  BY <1>1, ReplayPrefix
<1>3. Replay(bot_names, more)[n + 1] = Scored(Replay(bot_names, more)[n], more[n + 1])
  BY ReplayNext
<1>4. n \in 0..n
  OBVIOUS
<1>5. QED
  BY <1>2, <1>3, <1>4 DEF Agree

\* A game more, scored with the ratings before it, keeps the table of ratings
\* what the list of games gives.
LEMMA ReplayedNext ==
  ASSUME NEW bot_names, Distinct(bot_names),
         NEW rec, NEW more, NEW e \in Entry(bot_names), OneMore(rec, more, e),
         NEW rt \in [ToSet(bot_names) -> Int],
         NEW w \in [ToSet(bot_names) -> Nat], NEW l \in [ToSet(bot_names) -> Nat],
         NEW d \in [ToSet(bot_names) -> Nat], NEW g \in [ToSet(bot_names) -> Nat],
         Replayed(bot_names, rec, rt, w, l, d, g),
         e.white_rating = rt[e.white], e.black_rating = rt[e.black]
  PROVE  LET both == {e.white, e.black}
             winner == Winner(e)
         IN Replayed(bot_names, more, Scored(rt, e), Bump(w, winner),
                     Bump(l, IF winner = {} THEN {} ELSE both \ winner),
                     Bump(d, IF winner = {} THEN both ELSE {}), Bump(g, both))
<1> DEFINE N == ToSet(bot_names)
           both == {e.white, e.black}
           winner == Winner(e)
           losers == IF winner = {} THEN {} ELSE both \ winner
           drawn == IF winner = {} THEN both ELSE {}
           old == Replay(bot_names, rec)
           new == Replay(bot_names, more)
<1>1. /\ e.white \in N /\ e.black \in N /\ e.result \in Outcome /\ e.white # e.black
  BY DEF Entry
<1>2. PICK n \in Nat : n = Len(rec) /\ Len(more) = n + 1
  BY DEF OneMore
<1>3. more[n + 1] = e /\ \A k \in 1..n : more[k] = rec[k]
  BY <1>2 DEF OneMore
<1>4. /\ rt = old[n] /\ Total(rt) = STARTING_RATING * Len(bot_names)
      /\ \A k \in 1..n : /\ rec[k].white_rating = old[k - 1][rec[k].white]
                        /\ rec[k].black_rating = old[k - 1][rec[k].black]
  BY <1>2 DEF Replayed
<1>5. ASSUME NEW b \in N PROVE Counts(rec, b, w[b], l[b], d[b], g[b])
  BY Zenon DEF Replayed
<1>6. (\A k \in 0..n : old[k] = new[k]) /\ new[n + 1] = Scored(rt, e)
  <2>1. Continues(rec, more, n)
    BY <1>3 DEF Continues
  <2>2. Agree(old, new, n)
    BY <2>1, ReplayMore
  <2>3. new[n + 1] = Scored(old[n], more[n + 1])
    BY <2>1, ReplayMore
  <2>4. QED
    BY <1>3, <1>4, <2>2, <2>3 DEF Agree
<1> HIDE DEF old, new
<1>7. ASSUME NEW k \in 1..Len(more)
      PROVE  /\ more[k].white_rating = new[k - 1][more[k].white]
             /\ more[k].black_rating = new[k - 1][more[k].black]
  <2>1. CASE k = n + 1
    <3>1. k - 1 = n /\ n \in 0..n /\ more[k] = e
      BY <1>3, <2>1
    <3>2. QED
      BY <1>4, <1>6, <3>1
  <2>2. CASE k # n + 1
    <3>1. k \in 1..n /\ k - 1 \in 0..n
      BY <1>2, <2>2
    <3>2. QED
      BY <1>3, <1>4, <1>6, <3>1, Zenon
  <2>3. QED
    BY <2>1, <2>2
<1>8. ASSUME NEW b \in N
      PROVE  Counts(more, b, Bump(w, winner)[b], Bump(l, losers)[b], Bump(d, drawn)[b], Bump(g, both)[b])
  BY <1>1, <1>5, CountsNext, Zenon
<1>9. Total(Scored(rt, e)) = STARTING_RATING * Len(bot_names)
  <2>1. IsFiniteSet(N)
    BY AsManyNames
  <2>2. Total(Scored(rt, e)) = Total(rt)
    BY <1>1, <2>1, SumScored, Zenon
  <2>3. QED
    BY <1>4, <2>2
<1> HIDE DEF both, winner, losers, drawn
<1>10. Replayed(bot_names, more, Scored(rt, e), Bump(w, winner), Bump(l, losers),
                Bump(d, drawn), Bump(g, both))
  BY <1>2, <1>6, <1>7, <1>8, <1>9, Zenon DEF Replayed, new
<1>11. QED
  BY <1>10 DEF both, winner, losers, drawn

\* The result that is recorded, beside the ratings its players held
LEMMA LastRecorded ==
  ASSUME Tournament, Tracked, RecordGame
  PROVE  LET e == results'[Len(results)]
             r == Last(results)
         IN /\ OneMore(Recorded, Recorded', e)
            /\ e \in Entry(names) /\ Played(e) = Played(r)
            /\ e.white_rating = ratings[r.white] /\ e.black_rating = ratings[r.black]
<1> DEFINE r == Last(results)
           e == results'[Len(results)]
<1>1. /\ phase = "returned" /\ phase' = "between"
      /\ results' = Annotated(results, ratings[r.white], ratings[r.black])
  BY DEF RecordGame, Annotated
<1>2. results \in Seq(Entry(names)) /\ results # <<>> /\ r = results[Len(results)]
  BY <1>1 DEF Tournament, Last
<1>3. PICK m \in Nat : m = Len(Recorded) /\ Len(results) = m + 1
  BY <1>1, RecordedIs
<1>4. DOMAIN Recorded = 1..m /\ \A n \in 1..m : Recorded[n] = results[n]
  BY <1>3, RecordedIs, LenProperties
<1>5. r \in Entry(names)
  BY <1>2, EmptySeq, LenProperties, ElementOfSeq
<1>6. PICK x, y \in Int : x = ratings[r.white] /\ y = ratings[r.black]
  BY <1>5 DEF Entry, Tracked
<1>7. /\ results' \in Seq(Entry(names)) /\ Len(results') = Len(results)
      /\ \A n \in 1..Len(results) : Played(results'[n]) = Played(results[n])
      /\ \A n \in 1..Len(results) : n # Len(results) => results'[n] = results[n]
      /\ e.white_rating = x /\ e.black_rating = y
  BY <1>1, <1>2, <1>6, AnnotatedIs
<1>8. Recorded' = results'
  BY <1>1 DEF Recorded
<1> HIDE DEF r, e
<1>9. m + 1 \in 1..(m + 1) /\ \A n \in 1..m : n \in 1..(m + 1) /\ n # m + 1
  OBVIOUS
<1>10. Played(e) = Played(r) /\ \A n \in 1..m : results'[n] = Recorded[n]
  BY <1>2, <1>3, <1>4, <1>7, <1>9 DEF e
<1>11. DOMAIN results' = 1..(m + 1)
  BY <1>3, <1>7, LenProperties
<1>12. e \in Entry(names)
  BY <1>3, <1>7, <1>9, ElementOfSeq DEF e
<1>13. OneMore(Recorded, Recorded', e)
  BY <1>3, <1>4, <1>7, <1>8, <1>10, <1>11 DEF OneMore, e
<1>14. QED
  BY <1>6, <1>7, <1>10, <1>12, <1>13 DEF e, r

\* Every step keeps the standings what the recorded games give.
LEMMA StandingStep ==
  ASSUME IInv, Tracked, Standing, [Next]_vars
  PROVE  Standing'
<1>1. CASE RecordGame
  <2> DEFINE r == Last(results)
             e == results'[Len(results)]
             gain == Gains(ratings[r.white], ratings[r.black], r.result)
             both == {r.white, r.black}
             winner == Winner(r)
  <2>1. /\ names' = names
        /\ ratings' = [ratings EXCEPT ![r.white] = @ + gain.white, ![r.black] = @ + gain.black]
        /\ wins' = Bump(wins, winner)
        /\ losses' = Bump(losses, IF winner = {} THEN {} ELSE both \ winner)
        /\ draws' = Bump(draws, IF winner = {} THEN both ELSE {})
        /\ games_played' = Bump(games_played, both)
    BY <1>1 DEF RecordGame, Winner
  <2>2. /\ OneMore(Recorded, Recorded', e) /\ e \in Entry(names) /\ Played(e) = Played(r)
        /\ e.white_rating = ratings[r.white] /\ e.black_rating = ratings[r.black]
    BY <1>1, LastRecorded DEF IInv
  <2> HIDE DEF e, r
  <2>3. e.white = r.white /\ e.black = r.black /\ e.result = r.result
    BY <2>2 DEF Played
  <2>4. e.white \in ToSet(names) /\ e.black \in ToSet(names) /\ e.result \in Outcome /\ e.white # e.black
    BY <2>2 DEF Entry
  <2>5. ratings' = Scored(ratings, e)
    <3>1. PICK s \in Int : s = ScoreOf(ratings, e) /\ gain.white = s /\ gain.black = -s
      BY <2>3, <2>4, GainsAre DEF Tracked
    <3>2. \A a \in Int : a + (-s) = a - s
      OBVIOUS
    <3> HIDE DEF gain
    <3>3. QED
      BY <2>1, <2>3, <2>4, <3>1, <3>2 DEF Scored, Tracked
  <2>6. /\ wins' = Bump(wins, Winner(e))
        /\ losses' = Bump(losses, IF Winner(e) = {} THEN {} ELSE {e.white, e.black} \ Winner(e))
        /\ draws' = Bump(draws, IF Winner(e) = {} THEN {e.white, e.black} ELSE {})
        /\ games_played' = Bump(games_played, {e.white, e.black})
    <3>1. Winner(e) = Winner(r)
      BY <2>3 DEF Winner
    <3>2. QED
      BY <2>1, <2>3, <3>1
  <2>7. Distinct(names)
    BY DEF IInv, Tournament
  <2>8. Replayed(names, Recorded', ratings', wins', losses', draws', games_played')
    <3>1. PICK rec, more, rt, w, l, d, g : 
            /\ rec = Recorded /\ more = Recorded' /\ rt = ratings
            /\ w = wins /\ l = losses /\ d = draws /\ g = games_played
      OBVIOUS
    <3>2. e.white_rating = rt[e.white] /\ e.black_rating = rt[e.black]
      BY <2>2, <2>3, <3>1
    <3>3. Replayed(names, rec, rt, w, l, d, g) /\ OneMore(rec, more, e)
      BY <2>2, <3>1 DEF Standing
    <3>4. /\ rt \in [ToSet(names) -> Int]
          /\ w \in [ToSet(names) -> Nat] /\ l \in [ToSet(names) -> Nat]
          /\ d \in [ToSet(names) -> Nat] /\ g \in [ToSet(names) -> Nat]
      BY <3>1 DEF Tracked
    <3>5. Replayed(names, more, Scored(rt, e), Bump(w, Winner(e)),
                   Bump(l, IF Winner(e) = {} THEN {} ELSE {e.white, e.black} \ Winner(e)),
                   Bump(d, IF Winner(e) = {} THEN {e.white, e.black} ELSE {}),
                   Bump(g, {e.white, e.black}))
      BY <2>2, <2>7, <3>2, <3>3, <3>4, ReplayedNext
    <3>6. QED
      BY <2>5, <2>6, <3>1, <3>5
  <2>9. QED
    BY <2>1, <2>8 DEF Standing
<1>2. CASE ~RecordGame
  <2>1. UNCHANGED <<names, tracker>>
    BY <1>2 DEF Next, Play, vars, StartGame, NaturalEnd, Adjudicate, CallBot, BotRaises, BotOverdue,
                BotReturnsNone, BotMovesIllegally, BotMoves, Finish, Return
  <2>2. Recorded' = Recorded
    <3>1. CASE UNCHANGED <<phase, results>>
      BY <3>1 DEF Recorded
    <3>2. CASE results' = results /\ phase # "returned" /\ phase' # "returned"
      BY <3>2 DEF Recorded
    <3>3. ASSUME NEW t \in Termination, NEW o \in Outcome, Return(t, o), phase \in {"loop", "thinking"}
          PROVE  Recorded' = Recorded
      <4>1. ply \in Nat
        BY OfflineArenaAssumption DEF IInv, Game
      <4>2. phase' = "returned" /\ Front(results') = results
        BY <3>3, <4>1, ReturnOK DEF IInv
      <4>3. QED
        BY <3>3, <4>2 DEF Recorded
    <3>4. CASE StartGame \/ CallBot \/ BotReturnsNone \/ BotMoves \/ Finish
      BY <3>2, <3>4 DEF StartGame, CallBot, BotReturnsNone, BotMoves, Finish, CallEnds
    <3>5. CASE UNCHANGED vars
      BY <3>1, <3>5 DEF vars
    <3>6. CASE NaturalEnd
      <4>1. verdict \in Verdict
        BY <3>6 DEF NaturalEnd, IInv, Game
      <4>2. verdict.termination \in Termination /\ verdict.result \in Outcome
        BY <4>1 DEF Verdict, Termination
      <4>3. QED
        BY <3>3, <3>6, <4>2 DEF NaturalEnd
    <3>7. CASE Adjudicate
      BY <3>3, <3>7 DEF Adjudicate, Termination, Outcome
    <3>8. CASE BotRaises
      BY <3>3, <3>8 DEF BotRaises, CallEnds, Termination, Outcome, LossOf
    <3>9. CASE BotOverdue
      BY <3>3, <3>9 DEF BotOverdue, CallEnds, Termination, Outcome, LossOf
    <3>10. CASE BotMovesIllegally
      <4>1. CASE attempts'[board_turn'] >= 3
        BY <3>3, <3>10, <4>1 DEF BotMovesIllegally, CallEnds, Termination, Outcome, LossOf
      <4>2. CASE ~(attempts'[board_turn'] >= 3)
        BY <3>2, <3>10, <4>2 DEF BotMovesIllegally, CallEnds
      <4>3. QED
        BY <4>1, <4>2
    <3>11. QED
      BY <1>2, <3>4, <3>5, <3>6, <3>7, <3>8, <3>9, <3>10 DEF Next, Play
  <2>3. QED
    BY <2>1, <2>2 DEF Standing, tracker
<1>3. QED
  BY <1>1, <1>2

\* TypeOK is part of the invariant.
LEMMA Types == IInv /\ Tracked => TypeOK
<1> SUFFICES ASSUME IInv, Tracked PROVE TypeOK
  OBVIOUS
<1>1. schedule \in Seq(Names2(names))
  <2>1. Opponents(names) \subseteq Names2(names)
    BY DEF Opponents
  <2>2. schedule \in Seq(Opponents(names))
    BY DEF IInv, Tournament
  <2>3. QED
    BY <2>1, <2>2
<1>2. Len(results) <= Len(schedule)
  BY DEF IInv, Tournament
<1>3. \A c \in Color : attempts[c] = 3 => phase # "loop" /\ phase # "thinking"
  BY DEF IInv, AtWork
<1>4. \A counter \in {wins, losses, draws, games_played} : counter \in [ToSet(names) -> Nat]
  BY DEF Tracked
<1>5. QED
  BY <1>1, <1>2, <1>3, <1>4 DEF TypeOK, IInv, Game, Tracked, Names2

\* The list of bots that main builds gives a fair schedule for any number of
\* games.
LEMMA FairNames == IInv => ScheduleFair
<1> SUFFICES ASSUME IInv PROVE ScheduleFair
  OBVIOUS
<1>1. Distinct(names)
  BY DEF IInv, Tournament
<1>2. ASSUME NEW total \in (IF phase = "done" THEN 0..(2 * Len(Pairings(names)) + 1) ELSE {})
      PROVE  total \in Nat
  OBVIOUS
<1>3. QED
  BY <1>1, <1>2, Fair DEF ScheduleFair

\* The table printed at the end and the headers of the PGN file follow from the
\* list of results, no rating point is made or lost, and the schedule that was
\* played is fair: for any bots, any number of games, and any lengths of games.
THEOREM ReportSoundAlways == Spec => []ReportSound
<1>1. Init => Standing
  BY StandingInit
<1>2. IInv /\ Tracked /\ Standing /\ [Next]_vars => Standing'
  BY StandingStep
<1>3. IInv /\ Tracked /\ Standing => ReportSound
  <2>1. IInv /\ Standing => StandingsReplay
    BY StandingIs DEF IInv
  <2>2. QED
    BY <2>1, Types, FairNames DEF ReportSound
<1>4. QED
  BY <1>1, <1>2, <1>3, Inductive, PTL DEF Spec

=============================================================================
