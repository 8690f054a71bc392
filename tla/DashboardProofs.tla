--------------------------- MODULE DashboardProofs ---------------------------
(***************************************************************************)
(* That the page of dashboard.js is of one run of the server and of its    *)
(* types, for any number of games, requests, restarts and events, and that *)
(* the hub's queue stays in its bound.                                     *)
(*                                                                         *)
(* drainBuffer and Txn.flush are folds over sequences of any length: the   *)
(* first part shows that such a fold has a value, by a least               *)
(* counterexample, and the lemmas on each carry a fact along its prefixes. *)
(***************************************************************************)
EXTENDS Dashboard, FiniteSetTheorems, SequenceTheorems, WellFoundedInduction, TLAPS

-----------------------------------------------------------------------------
(* Folds.                                                                  *)

\* A set of numbers that is not empty has a least one.
LEMMA LeastNat ==
  ASSUME NEW S \in SUBSET Nat, S # {}
  PROVE  \E n \in S : \A m \in S : n <= m
<1> DEFINE R == OpToRel(<, Nat)
<1>1. \A m, n \in Nat : m < n => <<m, n>> \in R
  BY SMT DEF OpToRel
<1>2. IsWellFoundedOn(R, Nat)
  BY NatLessThanWellFounded, Zenon
<1> HIDE DEF R
<1>3. PICK n \in S : \A m \in S : ~(<<m, n>> \in R)
  BY <1>2, WFMin
<1>4. \A m \in S : ~(m < n)
  BY <1>1, <1>3
<1>5. QED
  BY <1>4

\* A set that has 0, and with each number up to n the next, has all of them.
LEMMA UpTo ==
  ASSUME NEW n \in Nat, NEW S, 0 \in S, \A k \in 1..n : k - 1 \in S => k \in S
  PROVE  n \in S
<1> DEFINE Bad == {k \in 0..n : k \notin S}
<1>1. ASSUME Bad # {} PROVE FALSE
  <2>0. Bad \in SUBSET Nat
    OBVIOUS
  <2>1. PICK k \in Bad : \A m \in Bad : k <= m
    BY <1>1, <2>0, LeastNat, Zenon
  <2>2. k \in 1..n /\ k - 1 \in 0..n /\ ~(k <= k - 1)
    OBVIOUS
  <2>3. k - 1 \in S
    BY <2>1, <2>2
  <2>4. QED
    BY <2>2, <2>3
<1>2. QED
  BY <1>1

\* FoldLeft takes the largest index out of a set of them and folds the rest first.
LEMMA MaxIs ==
  ASSUME NEW m \in Nat \ {0}, NEW T \in SUBSET (1..m), m \in T
  PROVE  Max(T) = m /\ T \ {m} \in SUBSET (1..(m - 1))
<1>1. \A x \in T : m >= x
  OBVIOUS
<1>2. \A y \in T : (\A x \in T : y >= x) => y = m
  OBVIOUS
<1>3. Max(T) = m
  BY <1>1, <1>2 DEF Max
<1>4. \A x \in T : x # m => x \in 1..(m - 1)
  OBVIOUS
<1>5. T \ {m} \in SUBSET (1..(m - 1))
  BY <1>4
<1>6. QED
  BY <1>3, <1>5

LEMMA MaxIn ==
  ASSUME NEW n \in Nat, NEW T \in SUBSET (1..n), T # {}
  PROVE  Max(T) \in T /\ T \ {Max(T)} \in SUBSET (1..n)
<1> DEFINE Above == {n - x : x \in T}
<1>1. Above \in SUBSET Nat /\ Above # {}
  <2>1. \A x \in T : n - x \in Nat
    OBVIOUS
  <2>2. PICK x \in T : TRUE
    OBVIOUS
  <2>3. n - x \in Above
    OBVIOUS
  <2>4. QED
    BY <2>1, <2>3
<1>2. PICK d \in Above : \A e \in Above : d <= e
  BY <1>1, LeastNat, Zenon
<1>3. PICK m \in T : d = n - m
  OBVIOUS
<1>4. \A x \in T : m >= x
  BY <1>2, <1>3
<1>5. Max(T) \in T
  BY <1>4, Zenon DEF Max
<1>6. QED
  BY <1>5

LEMMA UpToIs ==
  ASSUME NEW m \in Nat \ {0}
  PROVE  Max(1..m) = m /\ (1..m) \ {m} = 1..(m - 1) /\ 1..m # {}
<1>1. m \in 1..m /\ 1..m \in SUBSET (1..m)
  OBVIOUS
<1>2. Max(1..m) = m
  BY <1>1, MaxIs
<1>3. \A x : x \in (1..m) \ {m} <=> x \in 1..(m - 1)
  OBVIOUS
<1>4. (1..m) \ {m} = 1..(m - 1)
  BY <1>3
<1>5. QED
  BY <1>1, <1>2, <1>4

\* The values of a fold on the sets of indices, each from a smaller one
Folds(it, step, base, s, n) ==
  /\ it[{}] = base
  /\ \A T \in SUBSET (1..n) : T # {} => it[T] = step[<<it[T \ {Max(T)}], s[Max(T)]>>]

LEMMA FoldsExist ==
  ASSUME NEW n \in Nat, NEW D, NEW E, NEW base \in D, NEW s \in [1..n -> E],
         NEW step \in [D \X E -> D]
  PROVE  \E it \in [SUBSET (1..n) -> D] : Folds(it, step, base, s, n)
<1> DEFINE Exists(m) == \E it \in [SUBSET (1..m) -> D] : Folds(it, step, base, s, m)
           Good == {m \in 0..n : Exists(m)}
<1>1. 0 \in Good
  <2> DEFINE it == [T \in SUBSET (1..0) |-> base]
  <2>1. \A T \in SUBSET (1..0) : T = {}
    OBVIOUS
  <2>2. it \in [SUBSET (1..0) -> D] /\ Folds(it, step, base, s, 0)
    BY <2>1 DEF Folds
  <2>3. Exists(0)
    BY <2>2
  <2> HIDE DEF Exists
  <2>4. QED
    BY <2>3
<1>2. ASSUME NEW m \in 1..n, m - 1 \in Good PROVE m \in Good
  <2>1. m \in Nat \ {0} /\ m \in 0..n
    OBVIOUS
  <2>3. Exists(m - 1)
    BY <1>2
  <2> HIDE DEF Exists
  <2>4. PICK f \in [SUBSET (1..(m - 1)) -> D] : Folds(f, step, base, s, m - 1)
    BY <2>3 DEF Exists
  <2> DEFINE Below == SUBSET (1..(m - 1))
             it == [T \in SUBSET (1..m) |->
                      IF m \in T THEN step[<<f[T \ {m}], s[m]>>] ELSE f[T]]
  <2>5. \A T \in SUBSET (1..m) :
          /\ m \in T => T \ {m} \in Below /\ Max(T) = m
          /\ m \notin T => T \in Below
    <3>1. ASSUME NEW T \in SUBSET (1..m), m \in T PROVE T \ {m} \in Below /\ Max(T) = m
      BY <2>1, <3>1, MaxIs
    <3>2. ASSUME NEW T \in SUBSET (1..m), m \notin T PROVE T \in Below
      BY <2>1, <3>2
    <3>3. QED
      BY <3>1, <3>2
  <2>6. \A T \in Below : T \in SUBSET (1..m) /\ m \notin T
    BY <2>1
  <2>7. s[m] \in E
    BY <2>1
  <2>8. \A T \in Below : f[T] \in D /\ step[<<f[T], s[m]>>] \in D
    BY <2>4, <2>7
  <2>9. it \in [SUBSET (1..m) -> D]
    BY <2>5, <2>8
  <2>10. \A T \in Below : it[T] = f[T]
    BY <2>6
  <2>11. it[{}] = base
    BY <2>4, <2>10 DEF Folds
  <2>12. ASSUME NEW T \in SUBSET (1..m), T # {}
         PROVE  it[T] = step[<<it[T \ {Max(T)}], s[Max(T)]>>]
    <3>1. CASE m \in T
      <4>1. T \ {m} \in Below /\ Max(T) = m
        BY <2>5, <3>1
      <4>2. it[T \ {m}] = f[T \ {m}]
        BY <2>10, <4>1
      <4>3. it[T] = step[<<f[T \ {m}], s[m]>>]
        BY <3>1
      <4>4. QED
        BY <4>1, <4>2, <4>3
    <3>2. CASE m \notin T
      <4>1. T \in Below /\ T \ {Max(T)} \in Below
        BY <2>5, <3>2
      <4>2. f[T] = step[<<f[T \ {Max(T)}], s[Max(T)]>>]
        BY <2>4, <2>12, <4>1 DEF Folds
      <4>3. QED
        BY <2>10, <4>1, <4>2
    <3>3. QED
      BY <3>1, <3>2
  <2> HIDE DEF it, Below
  <2>13. Folds(it, step, base, s, m)
    BY <2>11, <2>12 DEF Folds
  <2>14. Exists(m)
    BY <2>9, <2>13 DEF Exists
  <2>15. QED
    BY <2>1, <2>14
<1>3. QED
  <2> HIDE DEF Exists
  <2>1. n \in Good
    BY <1>1, <1>2, UpTo
  <2>2. Exists(n)
    BY <2>1
  <2>3. QED
    BY <2>2 DEF Exists

-----------------------------------------------------------------------------
(* The page.                                                               *)

Boards == UNION {[S -> Board] : S \in SUBSET GameId}

Page == [ready : BOOLEAN, buffer : Seq(Envelope), runId : 0..MaxRun \cup {NoRun},
         lastSeq : -1..MaxSeq, boards : Boards, resync : BOOLEAN]

\* A page whose boards are all of the run it believes in
Sound == {b \in Page : \A g \in DOMAIN b.boards : b.boards[g].run = b.runId}

LEMMA BoardsIs ==
  ASSUME NEW f, DOMAIN f \in SUBSET GameId, f = [g \in DOMAIN f |-> f[g]],
         \A g \in DOMAIN f : f[g] \in Board
  PROVE  f \in Boards
BY DEF Boards

LEMMA BoardsAre ==
  ASSUME NEW f \in Boards
  PROVE  /\ DOMAIN f \in SUBSET GameId /\ f = [g \in DOMAIN f |-> f[g]]
         /\ \A g \in DOMAIN f : f[g] \in Board
BY DEF Boards

LEMMA HandleSound ==
  ASSUME NEW b \in Sound, NEW envelope \in Envelope, envelope.run = b.runId
  PROVE  Handle(b, envelope) \in Sound
<1> DEFINE g == envelope.data.game
           known == g \in DOMAIN b.boards
           board == [ply |-> envelope.data.ply, run |-> envelope.run]
           shown == [b.boards EXCEPT ![g] = board]
           rest == [x \in DOMAIN b.boards \ {g} |-> b.boards[x]]
<1>1. b \in Page /\ \A x \in DOMAIN b.boards : b.boards[x].run = b.runId
  BY DEF Sound
<1>2. /\ envelope.data.type \in {"game_created", "move_played", "game_ended"}
      /\ board \in Board /\ board.run = b.runId
  BY DEF Envelope, Event, Board
<1>3. b.boards \in Boards
  BY <1>1 DEF Page
<1>4. /\ DOMAIN b.boards \in SUBSET GameId
      /\ \A x \in DOMAIN b.boards : b.boards[x] \in Board
  BY <1>3, BoardsAre
<1>5. ASSUME NEW r \in BOOLEAN PROVE [b EXCEPT !.resync = r] \in Sound
  BY <1>1 DEF Sound, Page
<1>6. CASE envelope.data.type = "game_created"
  <2>1. Handle(b, envelope) = [b EXCEPT !.resync = @ \/ ~known]
    BY <1>6 DEF Handle
  <2>2. (b.resync \/ ~known) \in BOOLEAN
    OBVIOUS
  <2>3. QED
    BY <1>5, <2>1, <2>2
<1>7. CASE envelope.data.type = "move_played"
  <2>1. CASE known
    <3>1. Handle(b, envelope) = [b EXCEPT !.boards = shown]
      BY <1>7, <2>1 DEF Handle
    <3>2. DOMAIN shown = DOMAIN b.boards /\ shown = [x \in DOMAIN shown |-> shown[x]]
      OBVIOUS
    <3>3. \A x \in DOMAIN shown : shown[x] \in Board /\ shown[x].run = b.runId
      BY <1>1, <1>2, <1>4, <2>1
    <3> HIDE DEF shown
    <3>4. shown \in Boards
      BY <1>4, <3>2, <3>3, BoardsIs
    <3>5. QED
      BY <1>1, <3>1, <3>3, <3>4 DEF Sound, Page
  <2>2. CASE ~known
    <3>1. Handle(b, envelope) = [b EXCEPT !.resync = TRUE]
      BY <1>7, <2>2 DEF Handle
    <3>2. QED
      BY <1>5, <3>1
  <2>3. QED
    BY <2>1, <2>2
<1>8. CASE envelope.data.type = "game_ended"
  <2>1. Handle(b, envelope) = [b EXCEPT !.boards = rest, !.resync = TRUE]
    BY <1>8 DEF Handle
  <2>2. DOMAIN rest \in SUBSET DOMAIN b.boards /\ rest = [x \in DOMAIN rest |-> rest[x]]
    OBVIOUS
  <2>3. \A x \in DOMAIN rest : rest[x] \in Board /\ rest[x].run = b.runId
    BY <1>1, <1>4
  <2> HIDE DEF rest
  <2>4. rest \in Boards
    BY <1>4, <2>2, <2>3, BoardsIs
  <2>5. QED
    BY <1>1, <2>1, <2>3, <2>4 DEF Sound, Page
<1>9. QED
  BY <1>2, <1>6, <1>7, <1>8

LEMMA SeenSound ==
  ASSUME NEW b \in Sound, NEW envelope \in Envelope
  PROVE  /\ [b EXCEPT !.lastSeq = envelope.seq] \in Sound
         /\ [b EXCEPT !.lastSeq = envelope.seq].runId = b.runId
<1>1. envelope.seq \in -1..MaxSeq
  BY StreamAssumption DEF Envelope
<1>2. QED
  BY <1>1 DEF Sound, Page

LEMMA DrainOneSound ==
  ASSUME NEW b \in Sound, NEW envelope \in Envelope
  PROVE  DrainOne(b, envelope) \in Sound
<1>1. CASE envelope.run = b.runId /\ envelope.seq > b.lastSeq
  <2>1. PICK seen : seen = [b EXCEPT !.lastSeq = envelope.seq]
    OBVIOUS
  <2>2. seen \in Sound /\ seen.runId = envelope.run
    BY <1>1, <2>1, SeenSound
  <2>3. DrainOne(b, envelope) = Handle(seen, envelope)
    BY <1>1, <2>1, Zenon DEF DrainOne
  <2>4. QED
    BY <2>2, <2>3, HandleSound
<1>2. CASE ~(envelope.run = b.runId /\ envelope.seq > b.lastSeq)
  <2>1. DrainOne(b, envelope) = b
    BY <1>2, Zenon DEF DrainOne
  <2>2. QED
    BY <2>1
<1>3. QED
  BY <1>1, <1>2

\* What FoldLeft makes of DrainOne
DrainFold(base, s) ==
  CHOOSE it : it = [T \in SUBSET DOMAIN s |->
                      IF T = {} THEN base ELSE DrainOne(it[T \ {Max(T)}], s[Max(T)])]

LEMMA DrainSound ==
  ASSUME NEW b \in Sound
  PROVE  DrainBuffer(b) \in Sound
<1> DEFINE base == [b EXCEPT !.buffer = <<>>, !.ready = TRUE]
           s == b.buffer
           n == Len(s)
           step == [p \in Sound \X Envelope |-> DrainOne(p[1], p[2])]
           IsFold(it) == it = [T \in SUBSET (1..n) |->
                                 IF T = {} THEN base
                                 ELSE DrainOne(it[T \ {Max(T)}], s[Max(T)])]
<1>1. s \in Seq(Envelope) /\ <<>> \in Seq(Envelope)
  BY DEF Sound, Page
<1>2. n \in Nat /\ DOMAIN s = 1..n /\ s \in [1..n -> Envelope]
  BY <1>1
<1>3. base \in Sound
  BY <1>1 DEF Sound, Page
<1>4. step \in [Sound \X Envelope -> Sound]
  BY DrainOneSound
<1>5. DrainBuffer(b) = DrainFold(base, s)[DOMAIN s]
  BY Zenon DEF DrainBuffer, DrainFold, FoldLeft, MapThenFoldSet
<1> HIDE DEF base, s, n
<1>6. \E it : IsFold(it)
  <2> HIDE DEF step
  <2>1. PICK it \in [SUBSET (1..n) -> Sound] : Folds(it, step, base, s, n)
    BY <1>2, <1>3, <1>4, FoldsExist
  <2> USE DEF step
  <2>2. ASSUME NEW T \in SUBSET (1..n), T # {}
        PROVE  it[T] = DrainOne(it[T \ {Max(T)}], s[Max(T)])
    <3>1. Max(T) \in 1..n /\ T \ {Max(T)} \in SUBSET (1..n)
      BY <1>2, <2>2, MaxIn
    <3>2. <<it[T \ {Max(T)}], s[Max(T)]>> \in Sound \X Envelope
      BY <1>2, <2>1, <3>1
    <3>3. it[T] = step[<<it[T \ {Max(T)}], s[Max(T)]>>]
      BY <2>1, <2>2 DEF Folds
    <3>4. QED
      BY <3>2, <3>3
  <2>3. it[{}] = base
    BY <2>1 DEF Folds
  <2>4. it = [T \in SUBSET (1..n) |-> it[T]]
    BY <2>1
  <2>5. [T \in SUBSET (1..n) |-> it[T]] =
        [T \in SUBSET (1..n) |-> IF T = {} THEN base
                                 ELSE DrainOne(it[T \ {Max(T)}], s[Max(T)])]
    BY <2>2, <2>3, Zenon
  <2>6. QED
    BY <2>4, <2>5, Zenon
<1>7. PICK it : it = DrainFold(base, s)
  OBVIOUS
<1>8. IsFold(it)
  BY <1>2, <1>6, <1>7, Zenon DEF DrainFold
<1> HIDE DEF step
<1> DEFINE Good == {k \in 0..n : it[1..k] \in Sound}
<1>9. 0 \in Good
  <2>1. 1..0 = {} /\ 1..0 \in SUBSET (1..n)
    OBVIOUS
  <2>2. it[1..0] = base
    BY <1>8, <2>1
  <2>3. QED
    BY <1>2, <1>3, <2>2
<1>10. ASSUME NEW k \in 1..n, k - 1 \in Good PROVE k \in Good
  <2>1. k \in Nat \ {0} /\ it[1..(k - 1)] \in Sound
    BY <1>2, <1>10
  <2>2. 1..k \in SUBSET (1..n)
    BY <1>2
  <2>3. 1..k # {} /\ Max(1..k) = k /\ (1..k) \ {k} = 1..(k - 1)
    BY <2>1, UpToIs
  <2>4. it[1..k] = DrainOne(it[1..(k - 1)], s[k])
    BY <1>8, <2>2, <2>3
  <2>5. QED
    BY <1>2, <2>1, <2>4, DrainOneSound
<1>11. n \in Good
  BY <1>2, <1>9, <1>10, UpTo
<1>12. QED
  BY <1>2, <1>5, <1>7, <1>11

LEMMA ReceiveSound ==
  ASSUME NEW b \in Sound, NEW envelope \in Envelope
  PROVE  Receive(b, envelope) \in Sound
<1>1. CASE ~b.ready
  <2>1. Receive(b, envelope) = [b EXCEPT !.buffer = Append(b.buffer, envelope)]
    BY <1>1 DEF Receive
  <2>2. Append(b.buffer, envelope) \in Seq(Envelope)
    BY AppendProperties DEF Sound, Page
  <2>3. QED
    BY <2>1, <2>2 DEF Sound, Page
<1>2. CASE b.ready /\ envelope.run # b.runId
  <2>1. Receive(b, envelope) = [b EXCEPT !.resync = TRUE]
    BY <1>2 DEF Receive
  <2>2. QED
    BY <2>1 DEF Sound, Page
<1>3. CASE b.ready /\ envelope.run = b.runId /\ envelope.seq <= b.lastSeq
  <2>1. Receive(b, envelope) = b
    BY <1>3 DEF Receive
  <2>2. QED
    BY <2>1
<1>4. CASE b.ready /\ envelope.run = b.runId /\ ~(envelope.seq <= b.lastSeq)
  <2>1. PICK seen : seen = [b EXCEPT !.lastSeq = envelope.seq]
    OBVIOUS
  <2>2. seen \in Sound /\ seen.runId = envelope.run
    BY <1>4, <2>1, SeenSound
  <2>3. Receive(b, envelope) = Handle(seen, envelope)
    BY <1>4, <2>1, Zenon DEF Receive
  <2>4. QED
    BY <2>2, <2>3, HandleSound
<1>5. QED
  BY <1>1, <1>2, <1>3, <1>4

-----------------------------------------------------------------------------
(* The hub.                                                                *)

Queues(S) == [open : BOOLEAN, queue : Seq(S)]

\* The hub's client: its queue is bounded.
HubClient == {c \in Queues(Envelope) : Len(c.queue) <= QueueMax}

LEMMA OfferType ==
  ASSUME NEW S, NEW c \in Queues(S), NEW envelope \in S
  PROVE  /\ Offer(c, envelope) \in Queues(S)
         /\ Len(c.queue) <= QueueMax => Len(Offer(c, envelope).queue) <= QueueMax
<1>1. c.queue \in Seq(S) /\ c.open \in BOOLEAN /\ Len(c.queue) \in Nat
  BY DEF Queues
<1>2. QueueMax \in Nat \ {0}
  BY StreamAssumption
<1>3. CASE Len(c.queue) = QueueMax
  <2> DEFINE q == Append(Tail(c.queue), envelope)
  <2>1. c.queue # <<>>
    BY <1>1, <1>2, <1>3, EmptySeq
  <2>2. Tail(c.queue) \in Seq(S) /\ Len(Tail(c.queue)) = Len(c.queue) - 1
    BY <1>1, <2>1, HeadTailProperties
  <2>3. q \in Seq(S) /\ Len(q) = QueueMax
    BY <1>1, <1>2, <1>3, <2>2, AppendProperties
  <2>4. Offer(c, envelope) = [c EXCEPT !.queue = q]
    BY <1>3 DEF Offer
  <2> HIDE DEF q
  <2>5. QED
    BY <1>2, <2>3, <2>4 DEF Queues
<1>4. CASE Len(c.queue) # QueueMax
  <2> DEFINE q == Append(c.queue, envelope)
  <2>1. q \in Seq(S) /\ Len(q) = Len(c.queue) + 1
    BY <1>1, AppendProperties
  <2>2. Offer(c, envelope) = [c EXCEPT !.queue = q]
    BY <1>4 DEF Offer
  <2> HIDE DEF q
  <2>3. QED
    BY <1>1, <1>2, <1>4, <2>1, <2>2 DEF Queues
<1>5. QED
  BY <1>3, <1>4

LEMMA PublishType ==
  ASSUME NEW S, NEW hub, hub.seq \in Nat, hub.client \in Queues(S),
         NEW event, NEW soon \in BOOLEAN,
         [run |-> run, seq |-> hub.seq + 1, data |-> event] \in S
  PROVE  LET after == Publish(hub, event, soon)
         IN /\ after \in [seq : Nat, client : Queues(S)]
            /\ after.seq = hub.seq + 1
            /\ Len(hub.client.queue) <= QueueMax => Len(after.client.queue) <= QueueMax
<1> DEFINE envelope == [run |-> run, seq |-> hub.seq + 1, data |-> event]
           c == IF hub.client.open /\ ~Throttled(event, soon)
                THEN Offer(hub.client, envelope) ELSE hub.client
<1>1. Publish(hub, event, soon) = [seq |-> hub.seq + 1, client |-> c]
  BY Zenon DEF Publish
<1> HIDE DEF envelope
<1>2. /\ c \in Queues(S)
      /\ Len(hub.client.queue) <= QueueMax => Len(c.queue) <= QueueMax
  BY OfferType DEF envelope
<1> HIDE DEF c
<1>3. QED
  BY <1>1, <1>2

\* What FoldLeft makes of Publish
PublishFold(base, s, soon) ==
  CHOOSE it : it = [T \in SUBSET DOMAIN s |->
                      IF T = {} THEN base ELSE Publish(it[T \ {Max(T)}], s[Max(T)], soon)]

\* A flush numbers its events one by one, and leaves the queue in its bounds.
LEMMA FlushPublishes ==
  ASSUME run \in 0..MaxRun, seq \in Nat, NEW s \in Seq(Event), seq + Len(s) <= MaxSeq,
         client \in HubClient, NEW soon \in BOOLEAN
  PROVE  LET hub == FoldLeft(LAMBDA h, event : Publish(h, event, soon),
                             [seq |-> seq, client |-> client], s)
         IN hub.seq = seq + Len(s) /\ hub.client \in HubClient
<1> DEFINE base == [seq |-> seq, client |-> client]
           n == Len(s)
           Loose == [run : 0..MaxRun, seq : Nat, data : Event]
           Hub == [seq : Nat, client : Queues(Loose)]
           step == [p \in Hub \X Event |-> Publish(p[1], p[2], soon)]
           IsFold(it) == it = [T \in SUBSET (1..n) |->
                                 IF T = {} THEN base
                                 ELSE Publish(it[T \ {Max(T)}], s[Max(T)], soon)]
<1>1. n \in Nat /\ DOMAIN s = 1..n /\ s \in [1..n -> Event]
  OBVIOUS
<1>2. base \in Hub
  <2>1. client.queue \in Seq(Loose)
    <3>1. client.queue \in Seq(Envelope)
      BY DEF HubClient, Queues
    <3>2. \A e \in Envelope : e \in Loose
      BY StreamAssumption DEF Envelope
    <3> HIDE DEF Loose, Hub, step, IsFold, base
    <3>3. QED
      BY <3>1, <3>2
  <2>2. client \in Queues(Loose)
    BY <2>1 DEF HubClient, Queues
  <2>3. QED
    BY <2>2
<1>3. step \in [Hub \X Event -> Hub]
  <2>1. ASSUME NEW hub \in Hub, NEW event \in Event
        PROVE  Publish(hub, event, soon) \in Hub
    <3>1. [run |-> run, seq |-> hub.seq + 1, data |-> event] \in Loose
      OBVIOUS
    <3>2. hub.seq \in Nat /\ hub.client \in Queues(Loose)
      OBVIOUS
    <3> HIDE DEF Loose
    <3>3. QED
      BY <3>1, <3>2, PublishType
  <2>2. QED
    BY <2>1
<1>4. FoldLeft(LAMBDA h, event : Publish(h, event, soon), base, s)
      = PublishFold(base, s, soon)[DOMAIN s]
  BY Zenon DEF PublishFold, FoldLeft, MapThenFoldSet
<1> HIDE DEF n, Hub
<1>6. \E it : IsFold(it)
  <2> HIDE DEF step, base
  <2>1. PICK it \in [SUBSET (1..n) -> Hub] : Folds(it, step, base, s, n)
    BY <1>1, <1>2, <1>3, FoldsExist
  <2> USE DEF step
  <2>2. ASSUME NEW T \in SUBSET (1..n), T # {}
        PROVE  it[T] = Publish(it[T \ {Max(T)}], s[Max(T)], soon)
    <3>1. Max(T) \in 1..n /\ T \ {Max(T)} \in SUBSET (1..n)
      BY <1>1, <2>2, MaxIn
    <3>2. <<it[T \ {Max(T)}], s[Max(T)]>> \in Hub \X Event
      BY <1>1, <2>1, <3>1
    <3>3. it[T] = step[<<it[T \ {Max(T)}], s[Max(T)]>>]
      BY <2>1, <2>2 DEF Folds
    <3>4. QED
      BY <3>2, <3>3
  <2>3. it[{}] = base
    BY <2>1 DEF Folds
  <2>4. it = [T \in SUBSET (1..n) |-> it[T]]
    BY <2>1
  <2>5. [T \in SUBSET (1..n) |-> it[T]] =
        [T \in SUBSET (1..n) |-> IF T = {} THEN base
                                 ELSE Publish(it[T \ {Max(T)}], s[Max(T)], soon)]
    BY <2>2, <2>3, Zenon
  <2>6. QED
    BY <2>4, <2>5, Zenon
<1>7. PICK it : it = PublishFold(base, s, soon)
  OBVIOUS
<1>8. IsFold(it)
  BY <1>1, <1>6, <1>7, Zenon DEF PublishFold
<1> HIDE DEF step
<1> DEFINE Right(k) == it[1..k].seq = seq + k /\ it[1..k].client \in HubClient
           Good == {k \in 0..n : Right(k)}
<1>9. 0 \in Good
  <2>1. 1..0 = {} /\ 1..0 \in SUBSET (1..n)
    OBVIOUS
  <2>2. it[1..0] = base
    BY <1>8, <2>1
  <2>3. QED
    BY <1>1, <2>2
<1>10. ASSUME NEW k \in 1..n, k - 1 \in Good PROVE k \in Good
  <2>1. k \in Nat \ {0} /\ Right(k - 1)
    BY <1>1, <1>10
  <2>2. 1..k \in SUBSET (1..n)
    BY <1>1
  <2>3. 1..k # {} /\ Max(1..k) = k /\ (1..k) \ {k} = 1..(k - 1)
    BY <2>1, UpToIs
  <2> DEFINE hub == it[1..(k - 1)]
  <2>4. it[1..k] = Publish(hub, s[k], soon)
    BY <1>8, <2>2, <2>3
  <2>5. hub.seq = seq + (k - 1) /\ hub.client \in HubClient
    BY <2>1
  <2> HIDE DEF hub
  <2>6. /\ hub.seq \in Nat /\ hub.seq + 1 = seq + k
        /\ hub.client \in Queues(Envelope) /\ Len(hub.client.queue) <= QueueMax
    BY <2>1, <2>5 DEF HubClient
  <2>7. [run |-> run, seq |-> hub.seq + 1, data |-> s[k]] \in Envelope
    <3>1. seq + k \in 0..MaxSeq
      BY <1>1, StreamAssumption DEF n
    <3>2. QED
      BY <1>1, <2>6, <3>1 DEF Envelope
  <2>8. /\ Publish(hub, s[k], soon).seq = seq + k
        /\ Publish(hub, s[k], soon).client \in HubClient
    BY <2>6, <2>7, PublishType DEF HubClient
  <2>9. QED
    BY <1>1, <2>4, <2>8
<1>11. n \in Good
  BY <1>1, <1>9, <1>10, UpTo
<1>12. QED
  BY <1>1, <1>4, <1>7, <1>11 DEF n

-----------------------------------------------------------------------------
(* The invariant.  A commit leaves room for the numbers of its events, so   *)
(* that a flush numbers them below MaxSeq.                                  *)

RoomToFlush == seq + Len(unflushed) <= MaxSeq

IInv == TypeOK /\ RunsNotMixed /\ RoomToFlush

Game == [status : {"free", "live", "ended"}, ply : 0..MaxPly]

RequestState == [pc : {"none", "sent", "reading", "answered", "failed"},
                 rows : Rows, run : 0..MaxRun, event_id : 0..MaxSeq]

LEMMA IInvIs ==
  IInv <=> /\ games \in [GameId -> Game] /\ run \in 0..MaxRun /\ seq \in 0..MaxSeq
           /\ unflushed \in Seq(Event) /\ Len(unflushed) <= 2
           /\ featured \in GameId \cup {NoGame}
           /\ client \in HubClient
           /\ request \in [Request -> RequestState]
           /\ browser \in Sound
           /\ RoomToFlush
BY Zenon DEF IInv, TypeOK, ServerTypeOK, RunsNotMixed, Game, RequestState, HubClient, Queues,
   Sound, Page, Boards

LEMMA IInvIsNext ==
  IInv' <=> /\ games' \in [GameId -> Game] /\ run' \in 0..MaxRun /\ seq' \in 0..MaxSeq
            /\ unflushed' \in Seq(Event) /\ Len(unflushed') <= 2
            /\ featured' \in GameId \cup {NoGame}
            /\ client' \in HubClient
            /\ request' \in [Request -> RequestState]
            /\ browser' \in Sound
            /\ RoomToFlush'
BY Zenon DEF IInv, TypeOK, ServerTypeOK, RunsNotMixed, Game, RequestState, HubClient, Queues,
   Sound, Page, Boards

LEMMA RowsAre ==
  /\ NoRows \in Rows
  /\ games \in [GameId -> Game] => ActiveSummaries \in Rows
  /\ \A rows \in Rows : /\ DOMAIN rows \in SUBSET GameId
                        /\ \A g \in DOMAIN rows : rows[g] \in 0..MaxPly
<1>1. NoRows \in Rows
  <2>1. {} \in SUBSET GameId /\ NoRows \in [{} -> 0..MaxPly]
    BY DEF NoRows
  <2>2. QED
    BY <2>1 DEF Rows
<1>2. ASSUME games \in [GameId -> Game] PROVE ActiveSummaries \in Rows
  <2>1. Live \in SUBSET GameId /\ ActiveSummaries \in [Live -> 0..MaxPly]
    BY <1>2 DEF Live, ActiveSummaries, Game
  <2>2. QED
    BY <2>1 DEF Rows
<1>3. ASSUME NEW rows \in Rows
      PROVE  /\ DOMAIN rows \in SUBSET GameId
             /\ \A g \in DOMAIN rows : rows[g] \in 0..MaxPly
  BY DEF Rows
<1>4. QED
  BY <1>1, <1>2, <1>3

LEMMA AdoptSound ==
  ASSUME NEW b \in Sound, NEW answer \in RequestState
  PROVE  Adopt(b, answer) \in Sound
<1> DEFINE boards == [g \in DOMAIN answer.rows |-> [ply |-> answer.rows[g], run |-> answer.run]]
<1>1. /\ answer.rows \in Rows /\ answer.run \in 0..MaxRun /\ answer.event_id \in -1..MaxSeq
  BY StreamAssumption DEF RequestState
<1>2. /\ DOMAIN answer.rows \in SUBSET GameId
      /\ \A g \in DOMAIN answer.rows : answer.rows[g] \in 0..MaxPly
  BY <1>1, RowsAre
<1>3. DOMAIN boards \in SUBSET GameId /\ boards = [g \in DOMAIN boards |-> boards[g]]
  BY <1>2
<1>4. \A g \in DOMAIN boards : boards[g] \in Board /\ boards[g].run = answer.run
  BY <1>1, <1>2 DEF Board
<1>5. Adopt(b, answer) = [b EXCEPT !.runId = answer.run, !.lastSeq = answer.event_id,
                                   !.boards = boards]
  BY DEF Adopt
<1> HIDE DEF boards
<1>6. boards \in Boards
  BY <1>3, <1>4, BoardsIs
<1>7. QED
  BY <1>1, <1>4, <1>5, <1>6 DEF Sound, Page

LEMMA AfterSnapshotSound ==
  ASSUME NEW b \in Sound, NEW r PROVE AfterSnapshot(b, r) \in Sound
<1>1. CASE b.ready \/ r # First
  BY <1>1 DEF AfterSnapshot
<1>2. CASE ~(b.ready \/ r # First)
  BY <1>2, DrainSound DEF AfterSnapshot
<1>3. QED
  BY <1>1, <1>2

LEMMA ClientsAre == NewClient \in HubClient /\ Gone \in HubClient
<1>1. <<>> \in Seq(Envelope) /\ Len(<<>>) = 0
  OBVIOUS
<1>2. QED
  BY <1>1, StreamAssumption DEF NewClient, Gone, HubClient, Queues

LEMMA RequestsAre ==
  \A pc \in {"none", "sent", "failed"} : [NoRequest EXCEPT !.pc = pc] \in RequestState
BY RowsAre, StreamAssumption DEF NoRequest, RequestState

LEMMA InitOK == Init => IInv
<1> SUFFICES ASSUME Init PROVE IInv
  OBVIOUS
<1>1. games \in [GameId -> Game] /\ run \in 0..MaxRun /\ seq \in 0..MaxSeq
  BY StreamAssumption DEF Init, ServerInit, Game
<1>2. unflushed \in Seq(Event) /\ Len(unflushed) = 0 /\ featured = NoGame
  BY DEF Init, ServerInit
<1>3. client \in HubClient
  BY ClientsAre DEF Init
<1>4. request \in [Request -> RequestState]
  <2>1. NoRequest = [NoRequest EXCEPT !.pc = "none"]
    BY DEF NoRequest
  <2>2. NoRequest \in RequestState /\ [NoRequest EXCEPT !.pc = "sent"] \in RequestState
    BY <2>1, RequestsAre
  <2>3. QED
    BY <2>2, Zenon DEF Init
<1>5. browser \in Sound
  <2> DEFINE none == [g \in {} |-> 0]
  <2>1. DOMAIN none = {} /\ none \in [{} -> Board] /\ {} \in SUBSET GameId
    OBVIOUS
  <2>2. browser = [ready |-> FALSE, buffer |-> <<>>, runId |-> NoRun, lastSeq |-> -1,
                   boards |-> none, resync |-> FALSE]
    BY DEF Init
  <2> HIDE DEF none
  <2>3. none \in Boards
    BY <2>1 DEF Boards
  <2>4. -1 \in -1..MaxSeq /\ <<>> \in Seq(Envelope)
    BY StreamAssumption
  <2>5. QED
    BY <2>1, <2>2, <2>3, <2>4 DEF Sound, Page
<1>6. RoomToFlush
  BY <1>1, <1>2 DEF RoomToFlush
<1>7. QED
  BY <1>1, <1>2, <1>3, <1>4, <1>5, <1>6, IInvIs

LEMMA CommitOK ==
  ASSUME IInv, NEW g \in GameId, NEW row \in Game, NEW events \in Seq(Event),
         Len(events) <= 2, Commit(g, row, events), browser' = browser
  PROVE  IInv'
<1>1. /\ games' = [games EXCEPT ![g] = row] /\ unflushed' = events
      /\ seq' = seq /\ seq + Len(events) <= MaxSeq
      /\ run' = run /\ featured' = featured /\ client' = client /\ request' = request
  BY DEF Commit
<1>2. games' \in [GameId -> Game]
  BY <1>1, IInvIs
<1>3. RoomToFlush'
  BY <1>1 DEF RoomToFlush
<1>4. QED
  BY <1>1, <1>2, <1>3, IInvIs, IInvIsNext

LEMMA WriteOK ==
  ASSUME IInv, NEW g \in GameId, CreateGame(g) \/ PlayMove(g) \/ EndGame(g),
         browser' = browser
  PROVE  IInv'
<1>0. games[g] \in Game
  BY IInvIs
<1>1. ASSUME NEW type \in {"game_created", "move_played", "game_ended"}, NEW ply \in 0..MaxPly
      PROVE  Emitted(type, g, ply) \in Event
  BY DEF Emitted, Event
<1>2. CASE CreateGame(g)
  <2> DEFINE event == Emitted("game_created", g, 0)
  <2>1. 0 \in 0..MaxPly
    BY StreamAssumption
  <2>2. [status |-> "live", ply |-> 0] \in Game
    BY <2>1 DEF Game
  <2>3. event \in Event
    BY <1>1, <2>1
  <2>4. Commit(g, [status |-> "live", ply |-> 0], <<event>>)
    BY <1>2 DEF CreateGame
  <2> HIDE DEF event
  <2>5. <<event>> \in Seq(Event) /\ Len(<<event>>) <= 2
    BY <2>3
  <2>6. QED
    BY <2>2, <2>4, <2>5, CommitOK
<1>3. CASE PlayMove(g)
  <2> DEFINE next == games[g].ply + 1
             moved == Emitted("move_played", g, next)
             ended == Emitted("game_ended", g, next)
  <2>1. next \in 0..MaxPly
    <3>1. games[g].ply \in 0..MaxPly
      BY <1>0 DEF Game
    <3>2. games[g].ply < MaxPly
      BY <1>3, Zenon DEF PlayMove
    <3>3. QED
      BY <3>1, <3>2, StreamAssumption
  <2>2. moved \in Event /\ ended \in Event
    BY <1>1, <2>1
  <2>3. \/ Commit(g, [status |-> "live", ply |-> next], <<moved>>)
        \/ Commit(g, [status |-> "ended", ply |-> next], <<moved, ended>>)
    BY <1>3 DEF PlayMove
  <2> HIDE DEF next, moved, ended
  <2>4. [status |-> "live", ply |-> next] \in Game /\ [status |-> "ended", ply |-> next] \in Game
    BY <2>1 DEF Game
  <2>5. /\ <<moved>> \in Seq(Event) /\ Len(<<moved>>) <= 2
        /\ <<moved, ended>> \in Seq(Event) /\ Len(<<moved, ended>>) <= 2
    BY <2>2
  <2>6. QED
    BY <2>3, <2>4, <2>5, CommitOK
<1>4. CASE EndGame(g)
  <2> DEFINE event == Emitted("game_ended", g, games[g].ply)
  <2>1. [games[g] EXCEPT !.status = "ended"] \in Game
    BY <1>0 DEF Game
  <2>2. games[g].ply \in 0..MaxPly
    BY <1>0 DEF Game
  <2>3. event \in Event
    BY <1>1, <2>2
  <2>4. Commit(g, [games[g] EXCEPT !.status = "ended"], <<event>>)
    BY <1>4 DEF EndGame
  <2> HIDE DEF event
  <2>5. <<event>> \in Seq(Event) /\ Len(<<event>>) <= 2
    BY <2>3
  <2>6. QED
    BY <2>1, <2>4, <2>5, CommitOK
<1>5. QED
  BY <1>2, <1>3, <1>4

LEMMA FlushOK == ASSUME IInv, FlushStep PROVE IInv'
<1>1. PICK soon \in BOOLEAN :
        LET hub == FoldLeft(LAMBDA h, event : Publish(h, event, soon),
                            [seq |-> seq, client |-> client], unflushed)
        IN seq' = hub.seq /\ client' = hub.client
  BY Zenon DEF FlushStep, Flush
<1>2. /\ run \in 0..MaxRun /\ seq \in Nat /\ unflushed \in Seq(Event)
      /\ seq + Len(unflushed) <= MaxSeq /\ client \in HubClient
  BY IInvIs DEF RoomToFlush
<1>3. seq' = seq + Len(unflushed) /\ client' \in HubClient
  BY <1>1, <1>2, FlushPublishes
<1>4. seq' \in 0..MaxSeq
  BY <1>2, <1>3, StreamAssumption
<1>5. /\ unflushed' = <<>> /\ games' = games /\ run' = run /\ featured' = featured
      /\ request' = request /\ browser' = browser
  BY Zenon DEF FlushStep, Flush
<1>6. unflushed' \in Seq(Event) /\ Len(unflushed') = 0
  BY <1>5
<1>7. RoomToFlush'
  BY <1>4, <1>6 DEF RoomToFlush
<1>8. QED
  BY <1>3, <1>4, <1>5, <1>6, <1>7, IInvIs, IInvIsNext

LEMMA RestartOK == ASSUME IInv, Restart PROVE IInv'
<1>1. /\ run < MaxRun /\ run' = run + 1 /\ seq' = 0 /\ unflushed' = <<>>
      /\ featured' = NoGame /\ client' = Gone
      /\ browser' = [browser EXCEPT !.resync = browser.resync \/ client.open]
  BY DEF Restart, RestartServer
<1>2. games' \in [GameId -> Game]
  <2>1. games \in [GameId -> Game]
    BY IInvIs
  <2>2. \A g \in GameId : [games[g] EXCEPT !.status = "ended"] \in Game
    BY <2>1 DEF Game
  <2>3. QED
    BY <2>1, <2>2 DEF Restart, RestartServer
<1>3. request' \in [Request -> RequestState]
  <2>1. request \in [Request -> RequestState]
    BY IInvIs
  <2>2. [NoRequest EXCEPT !.pc = "failed"] \in RequestState
    BY RequestsAre
  <2>3. QED
    BY <2>1, <2>2, Zenon DEF Restart
<1>4. browser' \in Sound
  <2>1. (browser.resync \/ client.open) \in BOOLEAN
    OBVIOUS
  <2>2. QED
    BY <1>1, <2>1, IInvIs DEF Sound, Page
<1>5. run' \in 0..MaxRun /\ seq' \in 0..MaxSeq
  BY <1>1, IInvIs, StreamAssumption
<1>6. unflushed' \in Seq(Event) /\ Len(unflushed') = 0
  BY <1>1
<1>7. RoomToFlush'
  BY <1>1, <1>6, StreamAssumption DEF RoomToFlush
<1>8. QED
  BY <1>1, <1>2, <1>3, <1>4, <1>5, <1>6, <1>7, ClientsAre, IInvIsNext

\* A step of the connection, of a request or of the page
LEMMA OutsideWrites ==
  ASSUME IInv, UNCHANGED <<games, run, seq, unflushed>>,
         featured' \in GameId \cup {NoGame}, client' \in HubClient,
         request' \in [Request -> RequestState], browser' \in Sound
  PROVE  IInv'
<1>1. RoomToFlush'
  BY IInvIs DEF RoomToFlush
<1>2. QED
  BY <1>1, IInvIs, IInvIsNext

LEMMA DeliverOK == ASSUME IInv, Deliver PROVE IInv'
<1>1. /\ client.queue # <<>> /\ client' = [client EXCEPT !.queue = Tail(client.queue)]
      /\ browser' = Receive(browser, Head(client.queue))
      /\ UNCHANGED <<games, run, seq, unflushed, featured, request>>
  BY DEF Deliver
<1>2. client \in HubClient /\ browser \in Sound
  BY IInvIs
<1>3. client.queue \in Seq(Envelope) /\ Len(client.queue) <= QueueMax
  BY <1>2 DEF HubClient, Queues
<1>4. /\ Head(client.queue) \in Envelope /\ Tail(client.queue) \in Seq(Envelope)
      /\ Len(Tail(client.queue)) = Len(client.queue) - 1
  BY <1>1, <1>3, HeadTailProperties
<1>5. client' \in HubClient
  <2>1. PICK q : q = Tail(client.queue)
    OBVIOUS
  <2>2. client' = [client EXCEPT !.queue = q] /\ q \in Seq(Envelope)
    BY <1>1, <1>4, <2>1
  <2>3. Len(q) <= QueueMax
    BY <1>3, <1>4, <2>1, StreamAssumption
  <2>4. QED
    BY <1>2, <2>2, <2>3 DEF HubClient, Queues
<1>6. browser' \in Sound
  BY <1>1, <1>2, <1>4, ReceiveSound
<1>7. QED
  BY <1>1, <1>5, <1>6, IInvIs, OutsideWrites

LEMMA ConnectionOK == ASSUME IInv, Disconnect \/ Reconnect PROVE IInv'
<1>1. client' \in HubClient /\ UNCHANGED <<games, run, seq, unflushed, featured, request>>
  BY ClientsAre DEF Disconnect, Reconnect
<1>2. browser' \in Sound
  <2>1. browser \in Sound
    BY IInvIs
  <2>2. browser' = browser \/ browser' = [browser EXCEPT !.resync = TRUE]
    BY DEF Disconnect, Reconnect
  <2>3. QED
    BY <2>1, <2>2 DEF Sound, Page
<1>3. QED
  BY <1>1, <1>2, IInvIs, OutsideWrites

LEMMA RequestOK ==
  ASSUME IInv, NEW r \in Request,
         \/ ReadStep(r) \/ AnswerStep(r) \/ Refresh(r) \/ ResyncFires(r)
         \/ ApplySnapshot(r) \/ FetchFails(r)
  PROVE  IInv'
<1>1. /\ games \in [GameId -> Game] /\ run \in 0..MaxRun /\ seq \in 0..MaxSeq
      /\ featured \in GameId \cup {NoGame} /\ client \in HubClient
      /\ request \in [Request -> RequestState] /\ browser \in Sound
      /\ request[r] \in RequestState
  BY IInvIs
<1>2. ASSUME NEW state \in RequestState, request' = [request EXCEPT ![r] = state]
      PROVE  request' \in [Request -> RequestState]
  BY <1>1, <1>2
<1>3. CASE ReadStep(r)
  <2> DEFINE state == [request[r] EXCEPT !.pc = "reading", !.rows = ActiveSummaries]
  <2>1. state \in RequestState
    BY <1>1, RowsAre DEF RequestState
  <2>2. request' = [request EXCEPT ![r] = state]
    BY <1>1, <1>3 DEF ReadStep, ReadSummaries
  <2> HIDE DEF state
  <2>3. UNCHANGED <<games, run, seq, unflushed, featured, client, browser>>
    BY <1>3 DEF ReadStep, ReadSummaries
  <2>4. QED
    BY <1>1, <1>2, <2>1, <2>2, <2>3, OutsideWrites
<1>4. CASE AnswerStep(r)
  <2> DEFINE state == [request[r] EXCEPT !.pc = "answered", !.run = run, !.event_id = seq]
  <2>1. state \in RequestState
    BY <1>1 DEF RequestState
  <2>2. request' = [request EXCEPT ![r] = state]
    BY <1>1, <1>4 DEF AnswerStep, AnswerState
  <2> HIDE DEF state
  <2>3. UNCHANGED <<games, run, seq, unflushed, client, browser>>
    BY <1>4 DEF AnswerStep, AnswerState
  <2>4. featured' \in GameId \cup {NoGame}
    <3>1. request[r].rows \in Rows
      BY <1>1 DEF RequestState
    <3>2. DOMAIN request[r].rows \in SUBSET GameId
      BY <3>1, RowsAre
    <3>3. featured' \in Selectable(DOMAIN request[r].rows)
      BY <1>4 DEF AnswerStep, AnswerState
    <3>4. QED
      BY <3>2, <3>3 DEF Selectable
  <2>5. QED
    BY <1>1, <1>2, <2>1, <2>2, <2>3, <2>4, OutsideWrites
<1>5. CASE Refresh(r) \/ ResyncFires(r)
  <2> DEFINE state == [request[r] EXCEPT !.pc = "sent"]
  <2>1. state \in RequestState
    BY <1>1 DEF RequestState
  <2>2. request' = [request EXCEPT ![r] = state]
    BY <1>1, <1>5 DEF Refresh, ResyncFires, Send
  <2> HIDE DEF state
  <2>3. UNCHANGED <<games, run, seq, unflushed, featured, client>>
    BY <1>5 DEF Refresh, ResyncFires, Send
  <2>4. browser' = browser \/ browser' = [browser EXCEPT !.resync = FALSE]
    BY <1>5 DEF Refresh, ResyncFires
  <2>5. browser' \in Sound
    BY <1>1, <2>4 DEF Sound, Page
  <2>6. QED
    BY <1>1, <1>2, <2>1, <2>2, <2>3, <2>5, OutsideWrites
<1>6. CASE ApplySnapshot(r) \/ FetchFails(r)
  <2>1. NoRequest \in RequestState
    <3>1. NoRequest = [NoRequest EXCEPT !.pc = "none"]
      BY DEF NoRequest
    <3>2. QED
      BY <3>1, RequestsAre
  <2>2. request' = [request EXCEPT ![r] = NoRequest]
    BY <1>6 DEF ApplySnapshot, FetchFails, Done
  <2>3. UNCHANGED <<games, run, seq, unflushed, featured, client>>
    BY <1>6 DEF ApplySnapshot, FetchFails
  <2>4. \/ browser' = AfterSnapshot(Adopt(browser, request[r]), r)
        \/ browser' = AfterSnapshot(browser, r)
    BY <1>6 DEF ApplySnapshot, FetchFails
  <2>5. browser' \in Sound
    BY <1>1, <2>4, AdoptSound, AfterSnapshotSound
  <2>6. QED
    BY <1>1, <1>2, <2>1, <2>2, <2>3, <2>5, OutsideWrites
<1>7. QED
  BY <1>3, <1>4, <1>5, <1>6

LEMMA StepOK == IInv /\ [Next]_vars => IInv'
<1> SUFFICES ASSUME IInv, [Next]_vars PROVE IInv'
  OBVIOUS
<1>1. ASSUME NEW g \in GameId, CreateGame(g) \/ PlayMove(g) \/ EndGame(g), UNCHANGED browser
      PROVE  IInv'
  BY <1>1, WriteOK
<1>2. CASE FlushStep
  BY <1>2, FlushOK
<1>3. CASE Restart
  BY <1>3, RestartOK
<1>4. CASE Deliver
  BY <1>4, DeliverOK
<1>5. CASE Disconnect \/ Reconnect
  BY <1>5, ConnectionOK
<1>6. ASSUME NEW r \in Request,
             \/ ReadStep(r) \/ AnswerStep(r) \/ Refresh(r) \/ ResyncFires(r)
             \/ ApplySnapshot(r) \/ FetchFails(r)
      PROVE  IInv'
  BY <1>6, RequestOK
<1>7. CASE UNCHANGED vars
  BY <1>7, IInvIs, OutsideWrites DEF vars
<1>8. QED
  BY <1>1, <1>2, <1>3, <1>4, <1>5, <1>6, <1>7 DEF Next

\* The strengthened invariant holds of every reachable state.
THEOREM PageInductive == Spec => []IInv
  BY InitOK, StepOK, PTL DEF Spec

\* dashboard.js never shows boards of two runs of the server at once, and what
\* it holds, its buffer and the hub's queue stay in their types: for any number
\* of games, requests, restarts, events and places in the queue.
THEOREM PageSoundAlways == Spec => []PageSound
<1>1. IInv => PageSound
  BY DEF IInv, PageSound
<1>2. QED
  BY <1>1, PageInductive, PTL

=============================================================================
