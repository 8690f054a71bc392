-------------------------- MODULE TurnRoutesProofs --------------------------
(***************************************************************************)
(* That the registry of waiters can be relied on, for any number of bots,  *)
(* games, polls and submissions: each bot has at most one live waiter, it  *)
(* is the one registered, and no poll is held, unwoken, while its bot has  *)
(* a game, except while the wake is on its way.                            *)
(***************************************************************************)
EXTENDS TurnRoutes, SequenceTheorems, TLAPS

\* The wake of r's bot is committed and not yet flushed.
Waking(r) == flush # None /\ Sender[r] \in flush.wake

\* What one poll may rely on.  Its game was read from the seat, so that it is
\* live for as long as no wake says otherwise.
PollOK(r) ==
  /\ Busy(r) => poll[r].superseded \/ waiters[Sender[r]] = r
  /\ waiters[Sender[r]] = r => Busy(r) /\ ~poll[r].superseded
  /\ poll[r].superseded => poll[r].event
  /\ poll[r].pc = "hold" =>
       poll[r].event \/ seats[Sender[r]] = None \/ Waking(r)
  /\ poll[r].pc = "game" =>
       /\ poll[r].game \in GameId
       /\ poll[r].event \/ seats[Sender[r]] = poll[r].game \/ Waking(r)

WaitersOwn == \A b \in Bot : waiters[b] # None => Sender[waiters[b]] = b

\* As committed, a bot is seated only in a live game of its own.
SeatsLive ==
  \A b \in Bot : seats[b] # None =>
    rows[seats[b]].status = "live" /\ b \in Players(seats[b])

\* A poll that waits for a flush finds its position in what is put.
PutsOwn ==
  flush # None /\ flush.by \in Poll => Sender[flush.by] \in DOMAIN flush.put

ClaimsRead == \A s \in Submit : submit[s].pc # "idle" => submit[s].claim \in Position

IInv ==
  /\ TypeOK
  /\ \A r \in Poll : PollOK(r)
  /\ WaitersOwn
  /\ SeatsLive
  /\ PutsOwn
  /\ ClaimsRead

-----------------------------------------------------------------------------
(* Types                                                                   *)

LEMMA NoneIsNobody ==
  /\ None \notin Bot /\ None \notin GameId /\ None \notin Poll /\ None \notin Deferred
  /\ \A g \in GameId : White[g] \in Bot /\ Black[g] \in Bot
  /\ \A g \in GameId : Players(g) \subseteq Bot
  /\ \A q \in Poll \cup Submit : Sender[q] \in Bot
  BY RoutesAssumption DEF Players

LEMMA IdleTyped ==
  /\ IdlePoll \in PollState
  /\ [pc |-> "idle", claim |-> None, mover |-> None] \in SubmitState
  BY DEF IdlePoll, PollState, SubmitState

\* <<>> as a function of no bot
LEMMA NothingPut == <<>> \in [{} -> Position]
<1>1. <<>> \in Seq(Position) /\ Len(<<>>) = 0
  BY EmptySeq
<1>2. <<>> \in [1..0 -> Position]
  BY <1>1, LenProperties
<1>3. 1..0 = {}
  OBVIOUS
<1>4. QED
  BY <1>2, <1>3

LEMMA CommitTyped ==
  ASSUME NEW pop \in SUBSET Bot, NEW wake \in SUBSET Bot,
         NEW by \in Poll \cup Submit \cup {"ticker"},
         NEW S \in SUBSET Bot, NEW put \in [S -> Position],
         Commit(pop, put, wake, by)
  PROVE  /\ flush' \in Deferred /\ flush' # None
         /\ flush'.wake = wake /\ flush'.put = put /\ flush'.by = by
         /\ DOMAIN put = S
<1>1. put \in UNION {[T -> Position] : T \in SUBSET Bot}
  OBVIOUS
<1>2. flush' \in Deferred
  BY <1>1 DEF Commit, Deferred
<1>3. QED
  BY <1>2, NoneIsNobody DEF Commit

LEMMA InitEstablishes == Init => IInv
<1> SUFFICES ASSUME Init PROVE IInv
  OBVIOUS
<1>1. rows \in [GameId -> Row]
  BY RoutesAssumption DEF Init, Row
<1>2. TypeOK
  BY <1>1, IdleTyped DEF Init, TypeOK
<1>3. \A r \in Poll : PollOK(r)
  BY NoneIsNobody DEF Init, PollOK, Busy, IdlePoll
<1>4. WaitersOwn /\ SeatsLive /\ PutsOwn /\ ClaimsRead
  BY DEF Init, WaitersOwn, SeatsLive, PutsOwn, ClaimsRead
<1>5. QED
  BY <1>2, <1>3, <1>4 DEF IInv

-----------------------------------------------------------------------------
(* The steps of a poll: what is common to them is that one poll takes a new *)
(* state, and that it is still the registered one if it was, or is dropped. *)

LEMMA SubmitOnly ==
  ASSUME IInv, UNCHANGED <<rows, seats, flush, mailbox, waiters, poll>>,
         submit' \in [Submit -> SubmitState], ClaimsRead'
  PROVE  IInv'
<1>1. TypeOK'
  BY DEF IInv, TypeOK
<1>2. \A r \in Poll : PollOK(r)'
  BY DEF IInv, PollOK, Busy, Waking
<1>3. WaitersOwn' /\ SeatsLive' /\ PutsOwn'
  BY DEF IInv, WaitersOwn, SeatsLive, PutsOwn
<1>4. QED
  BY <1>1, <1>2, <1>3 DEF IInv

\* r goes on, still what it was in the registry.
LEMMA PollGoesOn ==
  ASSUME IInv, NEW r \in Poll, UNCHANGED <<rows, seats, flush, waiters, submit>>,
         mailbox' \in [Bot -> Position \cup {None}],
         NEW p \in PollState, poll' = [poll EXCEPT ![r] = p],
         Busy(r), p.pc # "idle",
         p.superseded = poll[r].superseded, p.event = poll[r].event,
         p.pc = "hold" => p.event \/ seats[Sender[r]] = None \/ Waking(r),
         p.pc = "game" => p.game \in GameId /\ seats[Sender[r]] = p.game
  PROVE  IInv'
<1>1. TypeOK'
  BY DEF IInv, TypeOK
<1>2. ASSUME NEW q \in Poll PROVE PollOK(q)'
  <2>1. poll'[q] = IF q = r THEN p ELSE poll[q]
    BY DEF IInv, TypeOK
  <2>2. PollOK(q) /\ PollOK(r)
    BY DEF IInv
  <2>3. QED
    BY <2>1, <2>2 DEF PollOK, Busy, Waking
<1>3. WaitersOwn' /\ SeatsLive' /\ PutsOwn' /\ ClaimsRead'
  BY DEF IInv, WaitersOwn, SeatsLive, PutsOwn, ClaimsRead
<1>4. QED
  BY <1>1, <1>2, <1>3 DEF IInv

\* r is answered.
LEMMA PollEnds ==
  ASSUME IInv, NEW r \in Poll, UNCHANGED <<rows, seats, flush, submit>>,
         mailbox' \in [Bot -> Position \cup {None}],
         NEW answer \in Position \cup Reason, Answer(r, answer)
  PROVE  IInv'
<1> DEFINE p == [IdlePoll EXCEPT !.answer = answer]
<1>0. p \in PollState /\ p.pc = "idle" /\ ~p.superseded
  BY DEF IdlePoll, PollState
<1> HIDE DEF p
<1>1. poll' = [poll EXCEPT ![r] = p] /\ waiters' = Discarded(r)
  BY DEF Answer, p
<1>2. waiters' \in [Bot -> Poll \cup {None}]
  BY <1>1 DEF IInv, TypeOK, Discarded
<1>3. TypeOK'
  BY <1>0, <1>1, <1>2 DEF IInv, TypeOK
<1>4. ASSUME NEW q \in Poll PROVE PollOK(q)'
  <2>1. poll'[q] = IF q = r THEN p ELSE poll[q]
    BY <1>1 DEF IInv, TypeOK
  <2>2. waiters'[Sender[q]] =
          IF Sender[q] = Sender[r] /\ waiters[Sender[q]] = r THEN None ELSE waiters[Sender[q]]
    BY <1>1, NoneIsNobody DEF IInv, TypeOK, Discarded
  <2>3. PollOK(q)
    BY DEF IInv
  <2>4. QED
    BY <1>0, <2>1, <2>2, <2>3, NoneIsNobody DEF PollOK, Busy, Waking
<1>5. WaitersOwn'
  BY <1>1, NoneIsNobody DEF IInv, TypeOK, WaitersOwn, Discarded
<1>6. SeatsLive' /\ PutsOwn' /\ ClaimsRead'
  BY DEF IInv, SeatsLive, PutsOwn, ClaimsRead
<1>7. QED
  BY <1>3, <1>4, <1>5, <1>6 DEF IInv

LEMMA SaysNothing ==
  ASSUME IInv, NEW r \in Poll, UNCHANGED <<rows, seats, flush, submit>>,
         mailbox' \in [Bot -> Position \cup {None}],
         Busy(r), NothingToSay(r),
         poll[r].event \/ seats[Sender[r]] = None \/ Waking(r)
  PROVE  IInv'
<1>1. CASE poll[r].first
  <2> DEFINE p == [poll[r] EXCEPT !.pc = "hold"]
  <2>1. p \in PollState /\ p.pc = "hold" /\ p.superseded = poll[r].superseded
          /\ p.event = poll[r].event
    BY DEF IInv, TypeOK, PollState
  <2>2. poll' = [poll EXCEPT ![r] = p] /\ waiters' = waiters
    BY <1>1 DEF NothingToSay
  <2> HIDE DEF p
  <2>3. QED
    BY <2>1, <2>2, PollGoesOn
<1>2. CASE ~poll[r].first
  <2>1. Answer(r, WaitingForPairing)
    BY <1>2 DEF NothingToSay
  <2>2. QED
    BY <2>1, PollEnds DEF Reason
<1>3. QED
  BY <1>1, <1>2

LEMMA RegisterKeeps == ASSUME IInv, NEW r \in Poll, Register(r) PROVE IInv'
<1> DEFINE begun == [IdlePoll EXCEPT !.pc = "seat", !.past = OverAlready]
           evicted(q) == [poll[q] EXCEPT !.superseded = TRUE, !.event = TRUE]
<1>1. begun \in PollState /\ begun.pc = "seat" /\ ~begun.superseded
  BY DEF IdlePoll, PollState, OverAlready
<1>2. ASSUME NEW q \in Poll
      PROVE  /\ evicted(q) \in PollState /\ evicted(q).pc = poll[q].pc
             /\ evicted(q).superseded /\ evicted(q).event /\ evicted(q).game = poll[q].game
  BY DEF IInv, TypeOK, PollState
<1>3. poll' = [q \in Poll |-> IF q = r THEN begun
                              ELSE IF q = waiters[Sender[r]] THEN evicted(q) ELSE poll[q]]
  BY DEF Register
<1> HIDE DEF begun, evicted
<1>4. poll' \in [Poll -> PollState]
  BY <1>1, <1>2, <1>3 DEF IInv, TypeOK
<1>5. waiters' = [waiters EXCEPT ![Sender[r]] = r]
  BY DEF Register
<1>6. TypeOK'
  BY <1>4, <1>5 DEF IInv, TypeOK, Register
<1>7. ASSUME NEW q \in Poll PROVE PollOK(q)'
  <2>1. poll'[q] = IF q = r THEN begun
                   ELSE IF q = waiters[Sender[r]] THEN evicted(q) ELSE poll[q]
    BY <1>3
  <2>2. waiters'[Sender[q]] = IF Sender[q] = Sender[r] THEN r ELSE waiters[Sender[q]]
    BY <1>5, NoneIsNobody DEF IInv, TypeOK
  <2>3. PollOK(q) /\ seats' = seats /\ flush' = flush
    BY DEF IInv, Register
  <2>4. CASE q = r
    BY <1>1, <2>1, <2>2, <2>4 DEF PollOK, Busy
  <2>5. CASE q # r /\ q = waiters[Sender[r]]
    <3>1. Sender[q] = Sender[r]
      BY <2>5, NoneIsNobody DEF IInv, WaitersOwn
    <3>2. QED
      BY <3>1, <1>2, <2>1, <2>2, <2>3, <2>5 DEF PollOK, Busy, Waking
  <2>6. CASE q # r /\ q # waiters[Sender[r]]
    BY <2>1, <2>2, <2>3, <2>6 DEF PollOK, Busy, Waking
  <2>7. QED
    BY <2>4, <2>5, <2>6
<1>8. WaitersOwn'
  BY <1>5, NoneIsNobody DEF IInv, TypeOK, WaitersOwn
<1>9. SeatsLive' /\ PutsOwn' /\ ClaimsRead'
  BY DEF IInv, SeatsLive, PutsOwn, ClaimsRead, Register
<1>10. QED
  BY <1>6, <1>7, <1>8, <1>9 DEF IInv

LEMMA ReadSeatKeeps == ASSUME IInv, NEW r \in Poll, ReadSeat(r) PROVE IInv'
<1>1. mailbox' \in [Bot -> Position \cup {None}]
  BY DEF ReadSeat, IInv, TypeOK
<1>2. CASE seats[Sender[r]] = None
  BY <1>1, <1>2, SaysNothing DEF ReadSeat, Busy
<1>3. CASE seats[Sender[r]] # None
  <2> DEFINE p == [poll[r] EXCEPT !.pc = "game", !.game = seats[Sender[r]]]
  <2>1. seats[Sender[r]] \in GameId
    BY <1>3, NoneIsNobody DEF IInv, TypeOK
  <2>2. p \in PollState /\ p.pc = "game" /\ p.game = seats[Sender[r]]
          /\ p.superseded = poll[r].superseded /\ p.event = poll[r].event
    BY <2>1 DEF IInv, TypeOK, PollState
  <2>3. poll' = [poll EXCEPT ![r] = p]
    <3>1. poll' = [poll EXCEPT ![r].pc = "game", ![r].game = seats[Sender[r]]]
      BY <1>3 DEF ReadSeat
    <3>2. QED
      BY <3>1 DEF IInv, TypeOK, PollState
  <2> HIDE DEF p
  <2>4. QED
    BY <1>1, <1>3, <2>1, <2>2, <2>3, PollGoesOn DEF ReadSeat, Busy
<1>4. QED
  BY <1>2, <1>3

\* The game that was read from the seat and is not live any more has ended
\* since, and its wake is on the way or has arrived.
LEMMA ReadGameKeeps == ASSUME IInv, NEW r \in Poll, ReadGame(r) PROVE IInv'
<1> DEFINE b == Sender[r]
           row == rows[poll[r].game]
           position == [game |-> poll[r].game, ply |-> row.ply]
           served == row.status = "live" /\ IsPayloadFor(mailbox[b], position)
<1>1. poll[r].pc = "game" /\ Busy(r) /\ PollOK(r)
  BY DEF ReadGame, Busy, IInv
<1>2. poll[r].game \in GameId /\ b \in Bot
  BY <1>1, NoneIsNobody DEF PollOK
<1>3. mailbox' \in [Bot -> Position \cup {None}]
  BY DEF ReadGame, IInv, TypeOK
<1>4. UNCHANGED <<rows, seats, flush, submit>>
  BY DEF ReadGame
<1>5. CASE row.status # "live"
  <2>1. NothingToSay(r)
    BY <1>5 DEF ReadGame
  <2>2. poll[r].event \/ seats[b] = None \/ Waking(r)
    BY <1>1, <1>2, <1>5, NoneIsNobody DEF PollOK, IInv, SeatsLive
  <2>3. QED
    BY <1>1, <1>3, <1>4, <2>1, <2>2, SaysNothing
<1>6. CASE served
  <2>1. mailbox[b] \in Position
    <3>1. row.ply \in 0..MaxPly
      BY <1>2 DEF IInv, TypeOK, Row
    <3>2. QED
      BY <1>2, <1>6, <3>1 DEF IsPayloadFor, Position
  <2>2. Answer(r, mailbox[b])
    BY <1>6 DEF ReadGame
  <2>3. QED
    BY <1>3, <1>4, <2>1, <2>2, PollEnds
<1>7. CASE row.status = "live" /\ ~served /\ Mover(poll[r].game, row.ply) # b
  <2>1. Answer(r, NotYourTurn)
    BY <1>7 DEF ReadGame
  <2>2. QED
    BY <1>3, <1>4, <2>1, PollEnds DEF Reason
<1>8. CASE row.status = "live" /\ ~served /\ Mover(poll[r].game, row.ply) = b
  <2> DEFINE p == [poll[r] EXCEPT !.pc = "deliver"]
  <2>1. p \in PollState /\ p.pc = "deliver"
          /\ p.superseded = poll[r].superseded /\ p.event = poll[r].event
    BY DEF IInv, TypeOK, PollState
  <2>2. poll' = [poll EXCEPT ![r] = p] /\ waiters' = waiters
    BY <1>8 DEF ReadGame
  <2> HIDE DEF p
  <2>3. QED
    BY <1>1, <1>3, <1>4, <2>1, <2>2, PollGoesOn
<1>9. QED
  BY <1>5, <1>6, <1>7, <1>8

LEMMA WokenKeeps == ASSUME IInv, NEW r \in Poll, Woken(r) PROVE IInv'
<1>1. mailbox' \in [Bot -> Position \cup {None}] /\ UNCHANGED <<rows, seats, flush, submit>>
  BY DEF Woken, IInv, TypeOK
<1>2. CASE poll[r].superseded
  BY <1>1, <1>2, PollEnds DEF Woken, Reason
<1>3. CASE ~poll[r].superseded
  <2> DEFINE p == [poll[r] EXCEPT !.pc = "seat", !.first = FALSE]
  <2>1. p \in PollState /\ p.pc = "seat"
          /\ p.superseded = poll[r].superseded /\ p.event = poll[r].event
    BY DEF IInv, TypeOK, PollState
  <2>2. poll' = [poll EXCEPT ![r] = p] /\ waiters' = waiters
    <3>1. poll' = [poll EXCEPT ![r].pc = "seat", ![r].first = FALSE] /\ waiters' = waiters
      BY <1>3 DEF Woken
    <3>2. QED
      BY <3>1 DEF IInv, TypeOK, PollState
  <2>3. Busy(r)
    BY DEF Woken, Busy
  <2> HIDE DEF p
  <2>4. QED
    BY <1>1, <2>1, <2>2, <2>3, PollGoesOn
<1>4. QED
  BY <1>2, <1>3

LEMMA HoldOverKeeps == ASSUME IInv, NEW r \in Poll, HoldOver(r) PROVE IInv'
<1>1. mailbox' \in [Bot -> Position \cup {None}]
  BY DEF HoldOver, IInv, TypeOK
<1>2. QED
  BY <1>1, PollEnds DEF HoldOver, Reason

-----------------------------------------------------------------------------
(* Sections.  A commit leaves waiters and polls alone but for the request  *)
(* that waits for it: whoever loses a game or gains one is in its wake.    *)

LEMMA Committed ==
  ASSUME IInv, flush = None, UNCHANGED waiters,
         rows' \in [GameId -> Row], seats' \in [Bot -> GameId \cup {None}],
         mailbox' \in [Bot -> Position \cup {None}],
         NEW pop \in SUBSET Bot, NEW wake \in SUBSET Bot,
         NEW by \in Poll \cup Submit \cup {"ticker"},
         NEW S \in SUBSET Bot, NEW put \in [S -> Position], Commit(pop, put, wake, by),
         by \in Poll => Sender[by] \in S,
         poll' \in [Poll -> PollState], submit' \in [Submit -> SubmitState],
         \A q \in Poll : \/ poll'[q] = poll[q]
                         \/ /\ Busy(q) /\ poll'[q].pc = "flush"
                            /\ poll'[q].superseded = poll[q].superseded
                            /\ poll'[q].event = poll[q].event,
         \A b \in Bot : seats'[b] = seats[b] \/ b \in wake,
         SeatsLive', ClaimsRead'
  PROVE  IInv'
<1>1. /\ flush' \in Deferred /\ flush' # None
      /\ flush'.wake = wake /\ flush'.put = put /\ flush'.by = by /\ DOMAIN put = S
  BY CommitTyped
<1>2. TypeOK'
  BY <1>1 DEF IInv, TypeOK
<1>3. ASSUME NEW q \in Poll PROVE PollOK(q)'
  <2>1. PollOK(q) /\ ~Waking(q)
    BY DEF IInv, Waking
  <2>2. seats'[Sender[q]] = seats[Sender[q]] \/ Waking(q)'
    BY <1>1, NoneIsNobody DEF Waking
  <2>3. CASE poll'[q] = poll[q]
    BY <2>1, <2>2, <2>3 DEF PollOK, Busy
  <2>4. CASE Busy(q) /\ poll'[q].pc = "flush" /\ poll'[q].superseded = poll[q].superseded
               /\ poll'[q].event = poll[q].event
    BY <2>1, <2>4 DEF PollOK, Busy
  <2>5. QED
    BY <2>3, <2>4
<1>4. PutsOwn'
  BY <1>1 DEF PutsOwn
<1>5. WaitersOwn'
  BY DEF IInv, WaitersOwn
<1>6. QED
  BY <1>2, <1>3, <1>4, <1>5 DEF IInv

LEMMA PairKeeps == ASSUME IInv, NEW g \in GameId, Pair(g) PROVE IInv'
<1>1. flush = None /\ UNCHANGED waiters /\ \A q \in Poll : poll'[q] = poll[q]
  BY DEF Pair, LockFree
<1>2. rows' \in [GameId -> Row]
  BY DEF Pair, IInv, TypeOK, Row
<1>3. seats' \in [Bot -> GameId \cup {None}]
  BY DEF Pair, IInv, TypeOK
<1>4. \A b \in Bot : seats'[b] = seats[b] \/ b \in Players(g)
  BY DEF Pair, IInv, TypeOK
<1>5. SeatsLive'
  <2> SUFFICES ASSUME NEW b \in Bot, seats'[b] # None
               PROVE  rows'[seats'[b]].status = "live" /\ b \in Players(seats'[b])
    BY DEF SeatsLive
  <2>1. CASE b \in Players(g)
    BY <2>1 DEF Pair, IInv, TypeOK, Row
  <2>2. CASE b \notin Players(g)
    <3>1. seats'[b] = seats[b] /\ seats[b] \in GameId
      BY <1>4, <2>2 DEF IInv, TypeOK
    <3>2. rows[seats[b]].status = "live" /\ b \in Players(seats[b])
      BY <3>1 DEF IInv, SeatsLive
    <3>3. rows[g].status = "free"
      BY DEF Pair
    <3>4. QED
      BY <3>1, <3>2, <3>3 DEF Pair, IInv, TypeOK
  <2>3. QED
    BY <2>1, <2>2
<1>6. ClaimsRead'
  BY DEF Pair, IInv, ClaimsRead
<1>7. poll' \in [Poll -> PollState] /\ submit' \in [Submit -> SubmitState]
        /\ mailbox' \in [Bot -> Position \cup {None}]
  BY DEF Pair, IInv, TypeOK
<1>8. Commit({}, <<>>, Players(g), "ticker")
  BY DEF Pair
<1>9. QED
  BY <1>1, <1>2, <1>3, <1>4, <1>5, <1>6, <1>7, <1>8, Committed, NothingPut, NoneIsNobody,
     RoutesAssumption

\* Whoever sat in a game that ends was one of its players.
LEMMA UnseatsPlayers ==
  ASSUME IInv, NEW g \in GameId, rows' \in [GameId -> Row],
         \A h \in GameId \ {g} : rows'[h] = rows[h],
         seats' = [b \in Bot |-> IF seats[b] = g THEN None ELSE seats[b]]
  PROVE  /\ seats' \in [Bot -> GameId \cup {None}]
         /\ \A b \in Bot : seats'[b] = seats[b] \/ b \in Players(g)
         /\ SeatsLive'
<1>1. seats' \in [Bot -> GameId \cup {None}]
  BY DEF IInv, TypeOK
<1>2. \A b \in Bot : seats'[b] = seats[b] \/ b \in Players(g)
  BY NoneIsNobody DEF IInv, SeatsLive
<1>3. SeatsLive'
  BY DEF IInv, TypeOK, SeatsLive, Players
<1>4. QED
  BY <1>1, <1>2, <1>3

LEMMA EndGameKeeps == ASSUME IInv, NEW g \in GameId, EndGame(g) PROVE IInv'
<1>1. flush = None /\ UNCHANGED waiters /\ \A q \in Poll : poll'[q] = poll[q]
  BY DEF EndGame, LockFree
<1>2. rows' \in [GameId -> Row] /\ \A h \in GameId \ {g} : rows'[h] = rows[h]
  <2>1. rows' = [rows EXCEPT ![g] = [@ EXCEPT !.status = "ended", !.delivered = 0]]
    BY DEF EndGame, Ended, IInv, TypeOK, Row
  <2>2. QED
    BY <2>1, ZenonT(40) DEF IInv, TypeOK, Row
<1>3. /\ seats' \in [Bot -> GameId \cup {None}]
      /\ \A b \in Bot : seats'[b] = seats[b] \/ b \in Players(g)
      /\ SeatsLive'
  BY <1>2, UnseatsPlayers DEF EndGame, Ended
<1>4. ClaimsRead'
  BY DEF EndGame, IInv, ClaimsRead
<1>5. poll' \in [Poll -> PollState] /\ submit' \in [Submit -> SubmitState]
        /\ mailbox' \in [Bot -> Position \cup {None}]
  BY DEF EndGame, IInv, TypeOK
<1>6. Commit(Players(g), <<>>, Players(g), "ticker")
  BY DEF EndGame, Ended
<1>7. QED
  BY <1>1, <1>2, <1>3, <1>4, <1>5, <1>6, Committed, NothingPut, NoneIsNobody,
     RoutesAssumption

LEMMA DeliverKeeps == ASSUME IInv, NEW r \in Poll, Deliver(r) PROVE IInv'
<1> DEFINE b == Sender[r]
           g == seats[b]
           position == [game |-> g, ply |-> rows[g].ply]
<1>1. /\ flush = None /\ Busy(r) /\ b \in Bot /\ UNCHANGED <<seats, submit>>
      /\ mailbox' \in [Bot -> Position \cup {None}]
  BY NoneIsNobody DEF Deliver, LockFree, Busy, IInv, TypeOK
<1>2. CASE g = None
  <2>1. NothingToSay(r) /\ UNCHANGED <<rows, flush>>
    BY <1>2 DEF Deliver
  <2>2. QED
    BY <1>1, <1>2, <2>1, SaysNothing
<1>3. CASE g # None
  <2>1. g \in GameId /\ rows[g].status = "live" /\ position \in Position
    BY <1>1, <1>3 DEF IInv, TypeOK, SeatsLive, Position, Row
  <2>2. /\ rows' = [rows EXCEPT ![g].delivered = 1]
        /\ Commit({}, [c \in {b} |-> position], {}, r)
        /\ poll' = [poll EXCEPT ![r].pc = "flush", ![r].game = g]
        /\ UNCHANGED waiters
    BY <1>3 DEF Deliver
  <2>3. rows' \in [GameId -> Row]
    BY <2>1, <2>2 DEF IInv, TypeOK, Row
  <2>4. SeatsLive'
    BY <1>1, <2>1, <2>2 DEF IInv, TypeOK, SeatsLive, Row
  <2>5. poll' = [poll EXCEPT ![r] = [@ EXCEPT !.pc = "flush", !.game = g]]
    BY <2>2 DEF IInv, TypeOK, PollState
  <2>6. /\ poll' \in [Poll -> PollState]
        /\ poll'[r].pc = "flush" /\ poll'[r].superseded = poll[r].superseded
        /\ poll'[r].event = poll[r].event
        /\ \A q \in Poll \ {r} : poll'[q] = poll[q]
    BY <2>1, <2>5, ZenonT(40) DEF IInv, TypeOK, PollState
  <2>7. ClaimsRead' /\ submit' \in [Submit -> SubmitState]
          /\ seats' \in [Bot -> GameId \cup {None}]
    BY <1>1 DEF IInv, TypeOK, ClaimsRead
  <2>8. [c \in {b} |-> position] \in [{b} -> Position] /\ {b} \in SUBSET Bot
    BY <1>1, <2>1
  <2> HIDE DEF position, g
  <2>9. \A q \in Poll : \/ poll'[q] = poll[q]
                         \/ /\ Busy(q) /\ poll'[q].pc = "flush"
                            /\ poll'[q].superseded = poll[q].superseded
                            /\ poll'[q].event = poll[q].event
    BY <1>1, <2>6
  <2>10. QED
    BY <1>1, <2>2, <2>3, <2>4, <2>6, <2>7, <2>8, <2>9, Committed
<1>4. QED
  BY <1>2, <1>3

\* The row of a move, and that of a move that ends the game
LEMMA MovedRow ==
  ASSUME NEW g \in GameId, rows \in [GameId -> Row], rows[g].status = "live",
         rows[g].ply + 1 <= MaxPly
  PROVE  LET moved == [rows EXCEPT ![g].ply = @ + 1, ![g].delivered = 0]
             ended == [moved EXCEPT ![g].status = "ended"]
         IN /\ moved \in [GameId -> Row] /\ ended \in [GameId -> Row]
            /\ moved[g].status = "live" /\ moved[g].ply = rows[g].ply + 1
            /\ ended[g].status = "ended"
            /\ \A h \in GameId \ {g} : moved[h] = rows[h] /\ ended[h] = rows[h]
<1> DEFINE moved == [rows EXCEPT ![g].ply = @ + 1, ![g].delivered = 0]
           ended == [moved EXCEPT ![g].status = "ended"]
           row == [status |-> "live", ply |-> rows[g].ply + 1, delivered |-> 0]
           last == [status |-> "ended", ply |-> rows[g].ply + 1, delivered |-> 0]
<1>1. rows[g] = [status |-> rows[g].status, ply |-> rows[g].ply, delivered |-> rows[g].delivered]
        /\ rows[g].ply \in 0..MaxPly
  BY DEF Row
<1>2. row \in Row /\ last \in Row
  BY <1>1, RoutesAssumption DEF Row
<1>3. [rows[g] EXCEPT !.ply = rows[g].ply + 1] =
        [status |-> "live", ply |-> rows[g].ply + 1, delivered |-> rows[g].delivered]
  BY <1>1
<1>4. moved = [rows EXCEPT ![g] = row]
  <2> DEFINE half == [rows EXCEPT ![g].ply = @ + 1]
  <2>1. half = [rows EXCEPT ![g] = [rows[g] EXCEPT !.ply = rows[g].ply + 1]]
    OBVIOUS
  <2>2. half[g] = [status |-> "live", ply |-> rows[g].ply + 1, delivered |-> rows[g].delivered]
    BY <2>1, <1>3
  <2>3. moved = [half EXCEPT ![g].delivered = 0]
    BY DEF moved
  <2> HIDE DEF half
  <2>4. [half[g] EXCEPT !.delivered = 0] = row
    BY <2>2
  <2>5. moved = [half EXCEPT ![g] = row]
    BY <2>3, <2>4
  <2> HIDE DEF row, moved
  <2>6. QED
    BY <2>1, <2>5
<1>5. ended = [rows EXCEPT ![g] = last]
  <2> HIDE DEF moved
  <2>1. moved[g] = row
    BY <1>4
  <2>2. [moved[g] EXCEPT !.status = "ended"] = last
    BY <2>1
  <2>3. QED
    BY <1>4, <2>2
<1>6. QED
  BY <1>2, <1>4, <1>5

LEMMA MoveKeeps ==
  ASSUME IInv, NEW p \in Position, NEW by \in Submit \cup {"ticker"},
         LockFree, MoveAt(p, by), UNCHANGED <<mailbox, waiters, poll>>,
         submit' \in [Submit -> SubmitState], ClaimsRead'
  PROVE  IInv'
<1> DEFINE moved == [rows EXCEPT ![p.game].ply = @ + 1, ![p.game].delivered = 0]
<1>1. flush = None /\ UNCHANGED waiters /\ Applicable(p)
  BY DEF MoveAt, LockFree
<1>2. p.game \in GameId /\ p.ply \in 0..MaxPly
  BY DEF Position
<1>3. rows[p.game] \in Row /\ rows[p.game].status = "live" /\ rows[p.game].ply = p.ply
  BY <1>1, <1>2 DEF IInv, TypeOK, Applicable
<1>4. by \notin Poll
  BY RoutesAssumption
<1>5. poll' \in [Poll -> PollState] /\ mailbox' \in [Bot -> Position \cup {None}]
        /\ \A q \in Poll : poll'[q] = poll[q]
  BY DEF IInv, TypeOK
<1>6. /\ moved \in [GameId -> Row]
      /\ [moved EXCEPT ![p.game].status = "ended"] \in [GameId -> Row]
      /\ moved[p.game].status = "live"
      /\ \A h \in GameId \ {p.game} :
           moved[h] = rows[h] /\ [moved EXCEPT ![p.game].status = "ended"][h] = rows[h]
  <2>1. p.ply + 1 < MaxPly \/ p.ply + 1 <= MaxPly
    BY DEF MoveAt
  <2>2. rows[p.game].ply + 1 <= MaxPly
    BY <1>2, <1>3, <2>1, RoutesAssumption
  <2>3. QED
    BY <1>2, <1>3, <2>2, MovedRow DEF IInv, TypeOK
<1>7. CASE /\ p.ply + 1 < MaxPly
           /\ rows' = moved
           /\ Commit({Mover(p.game, p.ply)}, <<>>, {}, by)
           /\ UNCHANGED seats
  <2> HIDE DEF moved
  <2>1. rows' \in [GameId -> Row]
    BY <1>6, <1>7
  <2>2. SeatsLive' /\ seats' \in [Bot -> GameId \cup {None}]
    BY <1>2, <1>6, <1>7 DEF IInv, TypeOK, SeatsLive
  <2>3. {Mover(p.game, p.ply)} \in SUBSET Bot
    BY <1>2, NoneIsNobody DEF Mover
  <2> HIDE DEF moved
  <2>4. QED
    BY <1>1, <1>4, <1>5, <1>7, <2>1, <2>2, <2>3, Committed, NothingPut
<1>8. CASE /\ p.ply + 1 <= MaxPly
           /\ rows' = [moved EXCEPT ![p.game].status = "ended"]
           /\ seats' = [b \in Bot |-> IF seats[b] = p.game THEN None ELSE seats[b]]
           /\ Commit(Players(p.game), <<>>, Players(p.game), by)
  <2>1. rows' \in [GameId -> Row] /\ \A h \in GameId \ {p.game} : rows'[h] = rows[h]
    BY <1>6, <1>8
  <2>2. Players(p.game) \in SUBSET Bot
    BY <1>2, NoneIsNobody
  <2> HIDE DEF moved
  <2>3. /\ seats' \in [Bot -> GameId \cup {None}]
        /\ \A b \in Bot : seats'[b] = seats[b] \/ b \in Players(p.game)
        /\ SeatsLive'
    BY <1>2, <1>8, <2>1, UnseatsPlayers
  <2>4. QED
    BY <1>1, <1>4, <1>5, <1>8, <2>1, <2>2, <2>3, Committed, NothingPut
<1>9. QED
  BY <1>7, <1>8 DEF MoveAt

LEMMA ApplyMoveKeeps == ASSUME IInv, NEW s \in Submit, ApplyMove(s) PROVE IInv'
<1>1. submit[s].claim \in Position
  BY DEF ApplyMove, IInv, ClaimsRead
<1>2. submit' \in [Submit -> SubmitState] /\ ClaimsRead'
  BY <1>1 DEF ApplyMove, IInv, TypeOK, ClaimsRead, SubmitState
<1>3. QED
  BY <1>1, <1>2, MoveKeeps DEF ApplyMove

LEMMA AnotherMovesKeeps == ASSUME IInv, NEW p \in Position, AnotherMoves(p) PROVE IInv'
<1>1. submit' \in [Submit -> SubmitState] /\ ClaimsRead'
  BY DEF AnotherMoves, IInv, TypeOK, ClaimsRead
<1>2. QED
  BY <1>1, MoveKeeps DEF AnotherMoves

-----------------------------------------------------------------------------
(* The flush.  Whoever is in the wake and not yet woken is registered, so   *)
(* that the wake reaches it.                                                *)

LEMMA FlushKeeps ==
  ASSUME IInv, NEW by, NEW change \in [Poll -> PollState], Flushed(by, change),
         waiters' \in [Bot -> Poll \cup {None}], WaitersOwn',
         submit' \in [Submit -> SubmitState], ClaimsRead',
         \A q \in Poll :
           \/ /\ change[q] = poll[q]
              /\ waiters'[Sender[q]] = q <=> waiters[Sender[q]] = q
           \/ /\ change[q].pc = "idle" /\ ~change[q].superseded
              /\ waiters'[Sender[q]] # q
  PROVE  IInv'
<1> DEFINE reached(q) == \E b \in flush.wake : waiters[b] = q
           woken(q) == [change[q] EXCEPT !.event = TRUE]
<1>1. flush \in Deferred /\ flush' = None /\ UNCHANGED <<rows, seats>>
  BY DEF Flushed, IInv, TypeOK
<1>2. mailbox' \in [Bot -> Position \cup {None}]
  <2>1. PICK S \in SUBSET Bot : flush.put \in [S -> Position]
    BY <1>1 DEF Deferred
  <2>2. DOMAIN flush.put = S /\ \A b \in S : flush.put[b] \in Position
    BY <2>1
  <2>3. mailbox' = [b \in Bot |-> IF b \in flush.pop THEN None
                                  ELSE IF b \in DOMAIN flush.put THEN flush.put[b]
                                  ELSE mailbox[b]]
    BY DEF Flushed
  <2>4. QED
    BY <2>2, <2>3 DEF IInv, TypeOK
<1>3. poll' = [q \in Poll |-> IF reached(q) THEN woken(q) ELSE change[q]]
  BY DEF Flushed
<1>4. ASSUME NEW q \in Poll
      PROVE  /\ woken(q) \in PollState /\ woken(q).event
             /\ woken(q).pc = change[q].pc /\ woken(q).superseded = change[q].superseded
             /\ woken(q).game = change[q].game
  <2>1. change[q] \in PollState
    OBVIOUS
  <2>2. QED
    BY <2>1 DEF PollState
<1> HIDE DEF woken
<1>5. TypeOK'
  BY <1>1, <1>2, <1>3, <1>4 DEF IInv, TypeOK
<1>6. ASSUME NEW q \in Poll PROVE PollOK(q)'
  <2>1. poll'[q] = IF reached(q) THEN woken(q) ELSE change[q]
    BY <1>3
  <2>2. PollOK(q) /\ seats' = seats
    BY <1>1 DEF IInv
  <2>3. CASE change[q] = poll[q] /\ (waiters'[Sender[q]] = q <=> waiters[Sender[q]] = q)
    <3>1. Waking(q) /\ ~poll[q].event /\ Busy(q) => reached(q)
      BY <2>2 DEF PollOK, Waking
    <3> HIDE DEF reached
    <3>2. QED
      BY <1>4, <2>1, <2>2, <2>3, <3>1 DEF PollOK, Busy
  <2>4. CASE change[q].pc = "idle" /\ ~change[q].superseded /\ waiters'[Sender[q]] # q
    BY <1>4, <2>1, <2>4 DEF PollOK, Busy
  <2>5. QED
    BY <2>3, <2>4
<1>7. SeatsLive' /\ PutsOwn'
  BY <1>1 DEF IInv, SeatsLive, PutsOwn
<1>8. QED
  BY <1>5, <1>6, <1>7 DEF IInv

LEMMA TickerFlushedKeeps == ASSUME IInv, TickerFlushed PROVE IInv'
<1>1. /\ waiters' \in [Bot -> Poll \cup {None}] /\ WaitersOwn'
      /\ submit' \in [Submit -> SubmitState] /\ ClaimsRead'
      /\ UNCHANGED waiters /\ poll \in [Poll -> PollState] /\ Flushed("ticker", poll)
  BY DEF TickerFlushed, IInv, TypeOK, WaitersOwn, ClaimsRead
<1>2. QED
  BY <1>1, FlushKeeps

LEMMA DeliveredKeeps == ASSUME IInv, NEW r \in Poll, Delivered(r) PROVE IInv'
<1> DEFINE p == [IdlePoll EXCEPT !.answer = flush.put[Sender[r]]]
           change == [poll EXCEPT ![r] = p]
<1>1. /\ flush # None /\ flush \in Deferred /\ flush.by = r
      /\ waiters' = Discarded(r) /\ UNCHANGED submit /\ Flushed(r, change)
  BY DEF Delivered, Flushed, IInv, TypeOK
<1>2. flush.put[Sender[r]] \in Position
  <2>1. PICK S \in SUBSET Bot : flush.put \in [S -> Position]
    BY <1>1 DEF Deferred
  <2>2. Sender[r] \in DOMAIN flush.put
    BY <1>1 DEF IInv, PutsOwn
  <2>3. QED
    BY <2>1, <2>2
<1>3. p \in PollState /\ p.pc = "idle" /\ ~p.superseded
  BY <1>2 DEF IdlePoll, PollState
<1> HIDE DEF p
<1>4. change \in [Poll -> PollState]
        /\ \A q \in Poll : change[q] = IF q = r THEN p ELSE poll[q]
  BY <1>3 DEF IInv, TypeOK
<1>5. waiters' \in [Bot -> Poll \cup {None}] /\ WaitersOwn'
  BY <1>1, NoneIsNobody DEF IInv, TypeOK, WaitersOwn, Discarded
<1>6. \A q \in Poll : waiters'[Sender[q]] =
        IF Sender[q] = Sender[r] /\ waiters[Sender[q]] = r THEN None ELSE waiters[Sender[q]]
  BY <1>1, NoneIsNobody DEF IInv, TypeOK, Discarded
<1>7. submit' \in [Submit -> SubmitState] /\ ClaimsRead'
  BY <1>1 DEF IInv, TypeOK, ClaimsRead
<1> HIDE DEF change
<1>8. ASSUME NEW q \in Poll
      PROVE  \/ /\ change[q] = poll[q]
                /\ waiters'[Sender[q]] = q <=> waiters[Sender[q]] = q
             \/ /\ change[q].pc = "idle" /\ ~change[q].superseded
                /\ waiters'[Sender[q]] # q
  BY <1>3, <1>4, <1>6, NoneIsNobody
<1>9. QED
  BY <1>1, <1>4, <1>5, <1>7, <1>8, FlushKeeps

LEMMA RefusedKeeps ==
  ASSUME IInv, NEW s \in Submit, Refused(s)
  PROVE  submit' \in [Submit -> SubmitState] /\ ClaimsRead'
  BY IdleTyped DEF Refused, IInv, TypeOK, ClaimsRead

LEMMA AppliedKeeps == ASSUME IInv, NEW s \in Submit, Applied(s) PROVE IInv'
<1>1. /\ waiters' \in [Bot -> Poll \cup {None}] /\ WaitersOwn'
      /\ UNCHANGED waiters /\ poll \in [Poll -> PollState] /\ Flushed(s, poll)
  BY DEF Applied, IInv, TypeOK, WaitersOwn
<1>2. submit' \in [Submit -> SubmitState] /\ ClaimsRead'
  BY RefusedKeeps DEF Applied
<1>3. QED
  BY <1>1, <1>2, FlushKeeps

-----------------------------------------------------------------------------
(* Submissions outside the lock                                            *)

LEMMA ClaimKeeps == ASSUME IInv, NEW s \in Submit, Claim(s) PROVE IInv'
<1>1. PICK p \in Position :
        submit' = [submit EXCEPT ![s].pc = "read", ![s].claim = p]
  BY DEF Claim
<1>2. submit' \in [Submit -> SubmitState] /\ ClaimsRead'
  BY <1>1, ZenonT(40) DEF IInv, TypeOK, ClaimsRead, SubmitState
<1>3. QED
  BY <1>2, SubmitOnly DEF Claim

LEMMA ReadClaimKeeps == ASSUME IInv, NEW s \in Submit, ReadClaim(s) PROVE IInv'
<1> DEFINE p == submit[s].claim
<1>1. p \in Position /\ p.game \in GameId
  BY DEF ReadClaim, IInv, ClaimsRead, Position
<1>2. Mover(p.game, rows[p.game].ply) \in Bot
  BY <1>1, NoneIsNobody DEF Mover
<1>3. CASE submit' = [submit EXCEPT ![s].pc = "apply"]
  BY <1>3, SubmitOnly, <1>1, ZenonT(40) DEF ReadClaim, IInv, TypeOK, ClaimsRead, SubmitState
<1>4. CASE submit' = [submit EXCEPT ![s].pc = "seat",
                                    ![s].mover = Mover(p.game, rows[p.game].ply)]
  <2>1. submit' \in [Submit -> SubmitState]
    BY <1>2, <1>4, ZenonT(40) DEF IInv, TypeOK, SubmitState
  <2>2. ClaimsRead'
    BY <1>1, <1>4 DEF IInv, TypeOK, ClaimsRead, SubmitState
  <2>3. QED
    BY <2>1, <2>2, SubmitOnly DEF ReadClaim
<1>5. QED
  BY <1>3, <1>4 DEF ReadClaim

LEMMA CheckSeatKeeps == ASSUME IInv, NEW s \in Submit, CheckSeat(s) PROVE IInv'
<1>1. CASE Refused(s)
  BY <1>1, RefusedKeeps, SubmitOnly DEF CheckSeat
<1>2. CASE submit' = [submit EXCEPT ![s].pc = "apply"]
  <2>1. submit' \in [Submit -> SubmitState] /\ ClaimsRead'
    BY <1>2 DEF CheckSeat, IInv, TypeOK, ClaimsRead, SubmitState
  <2>2. QED
    BY <2>1, SubmitOnly DEF CheckSeat
<1>3. QED
  BY <1>1, <1>2 DEF CheckSeat

LEMMA ApplyRefusedKeeps == ASSUME IInv, NEW s \in Submit, ApplyRefused(s) PROVE IInv'
  BY RefusedKeeps, SubmitOnly DEF ApplyRefused

-----------------------------------------------------------------------------
(* The invariant and what follows from it                                  *)

LEMMA StutterKeeps == ASSUME IInv, UNCHANGED vars PROVE IInv'
<1>1. submit' \in [Submit -> SubmitState] /\ ClaimsRead'
  BY DEF vars, IInv, TypeOK, ClaimsRead
<1>2. QED
  BY <1>1, SubmitOnly DEF vars

LEMMA Inductive == IInv /\ [Next]_vars => IInv'
<1> SUFFICES ASSUME IInv, [Next]_vars PROVE IInv'
  OBVIOUS
<1>1. ASSUME NEW g \in GameId, Pair(g) \/ EndGame(g) PROVE IInv'
  BY <1>1, PairKeeps, EndGameKeeps
<1>2. CASE TickerFlushed
  BY <1>2, TickerFlushedKeeps
<1>3. ASSUME NEW r \in Poll, Register(r) \/ PollStep(r) PROVE IInv'
  BY <1>3, RegisterKeeps, ReadSeatKeeps, ReadGameKeeps, DeliverKeeps, DeliveredKeeps,
     WokenKeeps, HoldOverKeeps DEF PollStep
<1>4. ASSUME NEW s \in Submit, Claim(s) \/ SubmitStep(s) PROVE IInv'
  BY <1>4, ClaimKeeps, ReadClaimKeeps, CheckSeatKeeps, ApplyRefusedKeeps, ApplyMoveKeeps,
     AppliedKeeps DEF SubmitStep
<1>5. CASE UNCHANGED vars
  BY <1>5, StutterKeeps
<1>6. ASSUME NEW p \in Position, AnotherMoves(p) PROVE IInv'
  BY <1>6, AnotherMovesKeeps
<1>7. QED
  BY <1>1, <1>2, <1>3, <1>4, <1>5, <1>6 DEF Next

LEMMA Sound == IInv => WaitersSound
<1> SUFFICES ASSUME IInv PROVE WaitersSound
  OBVIOUS
<1>1. OneWaiter
  BY DEF IInv, PollOK, OneWaiter
<1>2. HeldMeansUnseated
  BY DEF IInv, PollOK, HeldMeansUnseated, Waking
<1>3. QED
  BY <1>1, <1>2 DEF IInv, WaitersSound

LEMMA InvariantAlways == Spec => []IInv
  BY InitEstablishes, Inductive, PTL DEF Spec

\* The registry of waiters (registry.py) names, for each bot, the one poll that
\* counts, and no wake is lost: _resolve_turn's reads through the second
\* connection, made before a section committed and acted on after it flushed,
\* never leave a poll holding while its bot has a game.
THEOREM WaitersSoundAlways == Spec => []WaitersSound
  BY InvariantAlways, Sound, PTL

-----------------------------------------------------------------------------
(* That no poll is answered with a position over before it began: what is  *)
(* over stays over, and what a flush hands to a poll is still to be played.*)

Over(p) == rows[p.game].status = "ended" \/ rows[p.game].ply > p.ply

PastOver == \A r \in Poll : \A p \in poll[r].past : Over(p)

PutCurrent ==
  flush # None /\ flush.by \in Poll => ~Over(flush.put[Sender[flush.by]])

LEMMA OverStays ==
  ASSUME IInv, [Next]_vars, NEW p \in Position, Over(p) PROVE Over(p)'
<1>0. rows \in [GameId -> Row] /\ p.game \in GameId /\ p.ply \in Nat
        /\ rows[p.game].ply \in Nat
  BY RoutesAssumption DEF IInv, TypeOK, Position, Row
<1>1. CASE rows' = rows
  BY <1>1 DEF Over
<1>2. ASSUME NEW g \in GameId, Pair(g) PROVE Over(p)'
  BY <1>0, <1>2 DEF Pair, Over
<1>3. ASSUME NEW g \in GameId, EndGame(g) PROVE Over(p)'
  BY <1>0, <1>3 DEF EndGame, Ended, Over
<1>4. ASSUME NEW r \in Poll, Deliver(r) PROVE Over(p)'
  <2>1. CASE rows' = rows
    BY <1>1, <2>1
  <2>2. CASE rows' # rows
    <3> DEFINE g == seats[Sender[r]]
    <3>1. g \in GameId /\ rows' = [rows EXCEPT ![g].delivered = 1]
      BY <1>4, <2>2, NoneIsNobody DEF Deliver, IInv, TypeOK
    <3>2. rows[g] \in Row
      BY <1>0, <3>1
    <3> HIDE DEF g
    <3>3. rows'[p.game].status = rows[p.game].status /\ rows'[p.game].ply = rows[p.game].ply
      BY <1>0, <3>1, <3>2 DEF Row
    <3>4. QED
      BY <3>3 DEF Over
  <2>3. QED
    BY <2>1, <2>2
<1>5. ASSUME NEW c \in Position, NEW by, MoveAt(c, by) PROVE Over(p)'
  <2> DEFINE g == c.game
             moved == [rows EXCEPT ![g].ply = @ + 1, ![g].delivered = 0]
             ended == [moved EXCEPT ![g].status = "ended"]
  <2>1. g \in GameId /\ rows[g].status = "live" /\ rows[g].ply + 1 <= MaxPly
    <3>1. g \in GameId /\ c.ply \in 0..MaxPly
      BY DEF Position
    <3>2. rows[g].status = "live" /\ rows[g].ply = c.ply
      BY <1>5 DEF MoveAt, Applicable
    <3>3. c.ply + 1 <= MaxPly
      <4>1. MaxPly \in Nat
        BY RoutesAssumption
      <4>2. c.ply + 1 < MaxPly \/ c.ply + 1 <= MaxPly
        BY <1>5 DEF MoveAt
      <4>3. QED
        BY <3>1, <4>1, <4>2
    <3>4. QED
      BY <3>1, <3>2, <3>3
  <2>2. rows' = moved \/ rows' = ended
    BY <1>5 DEF MoveAt
  <2> HIDE DEF g
  <2>3. /\ moved[g].status = "live" /\ moved[g].ply = rows[g].ply + 1
        /\ ended[g].status = "ended"
        /\ \A h \in GameId \ {g} : moved[h] = rows[h] /\ ended[h] = rows[h]
    BY <1>0, <2>1, MovedRow
  <2> HIDE DEF moved, ended
  <2>4. CASE p.game # g
    BY <1>0, <2>2, <2>3, <2>4 DEF Over
  <2>5. CASE p.game = g
    BY <1>0, <2>1, <2>2, <2>3, <2>5 DEF Over
  <2>6. QED
    BY <2>4, <2>5
<1>6. QED
  <2>1. CASE TickerFlushed
    BY <2>1, <1>1 DEF TickerFlushed, Flushed
  <2>2. ASSUME NEW r \in Poll, Register(r) \/ PollStep(r) PROVE Over(p)'
    <3>1. Deliver(r) \/ rows' = rows
      BY <2>2 DEF PollStep, Register, ReadSeat, ReadGame, Delivered, Flushed, Woken, HoldOver
    <3>2. QED
      BY <3>1, <1>1, <1>4
  <2>3. ASSUME NEW s \in Submit, Claim(s) \/ SubmitStep(s) PROVE Over(p)'
    <3>1. ApplyMove(s) \/ rows' = rows
      BY <2>3 DEF SubmitStep, Claim, ReadClaim, CheckSeat, ApplyRefused, Applied, Flushed
    <3>2. ApplyMove(s) => submit[s].claim \in Position /\ MoveAt(submit[s].claim, s)
      BY DEF ApplyMove, IInv, ClaimsRead
    <3>3. QED
      BY <3>1, <3>2, <1>1, <1>5
  <2>4. ASSUME NEW c \in Position, AnotherMoves(c) PROVE Over(p)'
    BY <2>4, <1>5 DEF AnotherMoves
  <2>5. QED
    BY <1>1, <1>2, <1>3, <2>1, <2>2, <2>3, <2>4 DEF Next, vars

Current == IInv /\ PutCurrent

\* The three ways in which a step may change a poll, as far as its answer and
\* what it knows to be over are concerned
Kept(r, p) ==
  /\ p.past = poll[r].past /\ p.answer = poll[r].answer
  /\ p.pc = "idle" <=> poll[r].pc = "idle"

Begins(r, p) ==
  /\ poll[r].pc = "idle" /\ p.pc # "idle"
  /\ p.past = OverAlready /\ p.answer = None

Ends(r, p) ==
  /\ p.pc = "idle" /\ p.past = {}
  /\ p.answer \in Reason \/ (p.answer \in Position /\ ~Over(p.answer))

Moves(r, p) == Kept(r, p) \/ Ends(r, p)

LEMMA PollMoves ==
  ASSUME Current, [Next]_vars, NEW r \in Poll
  PROVE  Moves(r, poll'[r]) \/ (Begins(r, poll'[r]) /\ rows' = rows)
<1>0. poll \in [Poll -> PollState] /\ IInv
  BY DEF Current, IInv, TypeOK
<1>1. CASE poll'[r] = poll[r]
  BY <1>1 DEF Moves, Kept
<1>2. ASSUME NEW q \in Poll, NEW answer, Answer(q, answer),
             answer \in Reason \/ (answer \in Position /\ ~Over(answer))
      PROVE  Moves(r, poll'[r])
  BY <1>0, <1>2 DEF Answer, IdlePoll, Moves, Kept, Ends
<1>3. ASSUME NEW q \in Poll, NothingToSay(q), Busy(q)
      PROVE  Moves(r, poll'[r])
  <2>1. CASE poll[q].first
    <3>1. poll' = [poll EXCEPT ![q].pc = "hold"]
      BY <1>3, <2>1 DEF NothingToSay
    <3>2. QED
      BY <1>0, <1>3, <3>1 DEF PollState, Moves, Kept, Busy
  <2>2. CASE ~poll[q].first
    BY <1>2, <1>3, <2>2 DEF NothingToSay, Reason
  <2>3. QED
    BY <2>1, <2>2
<1>4. ASSUME NEW by, NEW change, Flushed(by, change), Moves(r, change[r]),
             change[r] \in PollState
      PROVE  Moves(r, poll'[r])
  <2> DEFINE woken == [change[r] EXCEPT !.event = TRUE]
  <2>1. woken.past = change[r].past /\ woken.answer = change[r].answer
          /\ woken.pc = change[r].pc
    BY <1>4 DEF PollState
  <2>2. poll'[r] = change[r] \/ poll'[r] = woken
    BY <1>4 DEF Flushed
  <2> HIDE DEF woken
  <2>3. QED
    BY <1>4, <2>1, <2>2 DEF Moves, Kept, Ends
<1>5. ASSUME NEW q \in Poll, Register(q)
      PROVE  Moves(r, poll'[r]) \/ (Begins(r, poll'[r]) /\ rows' = rows)
  <2>1. CASE r = q
    BY <1>5, <2>1 DEF Register, IdlePoll, Begins
  <2>2. CASE r # q
    <3>1. poll'[r] = poll[r] \/ poll'[r] = [poll[r] EXCEPT !.superseded = TRUE, !.event = TRUE]
      BY <1>5, <2>2 DEF Register
    <3>2. QED
      BY <1>0, <3>1 DEF PollState, Moves, Kept
  <2>3. QED
    BY <2>1, <2>2
<1>6. ASSUME NEW q \in Poll, PollStep(q)
      PROVE  Moves(r, poll'[r])
  <2>1. CASE ReadSeat(q)
    <3>1. \/ NothingToSay(q)
          \/ poll' = [poll EXCEPT ![q].pc = "game", ![q].game = seats[Sender[q]]]
      BY <2>1 DEF ReadSeat
    <3>2. Busy(q)
      BY <2>1 DEF ReadSeat, Busy
    <3>3. QED
      BY <1>0, <1>3, <3>1, <3>2 DEF PollState, Moves, Kept, Busy
  <2>2. CASE ReadGame(q)
    <3> DEFINE g == poll[q].game
               position == [game |-> g, ply |-> rows[g].ply]
    <3>1. g \in GameId /\ Busy(q)
      BY <1>0, <2>2 DEF ReadGame, IInv, PollOK, Busy
    <3>2. position \in Position /\ (rows[g].status = "live" => ~Over(position))
      <4>1. rows[g].ply \in 0..MaxPly
        BY <1>0, <3>1 DEF IInv, TypeOK, Row
      <4>2. QED
        BY <3>1, <4>1, RoutesAssumption DEF Position, Over
    <3>3. \/ NothingToSay(q)
          \/ rows[g].status = "live" /\ Answer(q, position)
          \/ Answer(q, NotYourTurn)
          \/ poll' = [poll EXCEPT ![q].pc = "deliver"]
      BY <2>2 DEF ReadGame, IsPayloadFor
    <3> HIDE DEF position
    <3>4. CASE poll' = [poll EXCEPT ![q].pc = "deliver"]
      BY <1>0, <3>1, <3>4 DEF PollState, Moves, Kept, Busy
    <3>5. QED
      BY <1>2, <1>3, <3>1, <3>2, <3>3, <3>4 DEF Reason
  <2>3. CASE Deliver(q)
    <3>1. \/ NothingToSay(q)
          \/ poll' = [poll EXCEPT ![q].pc = "flush", ![q].game = seats[Sender[q]]]
      BY <2>3 DEF Deliver
    <3>2. Busy(q)
      BY <2>3 DEF Deliver, Busy
    <3>3. QED
      BY <1>0, <1>3, <3>1, <3>2 DEF PollState, Moves, Kept, Busy
  <2>4. CASE Delivered(q)
    <3> DEFINE answer == flush.put[Sender[q]]
               p == [IdlePoll EXCEPT !.answer = answer]
               change == [poll EXCEPT ![q] = p]
    <3>1. Flushed(q, change)
      BY <2>4 DEF Delivered
    <3>2. answer \in Position /\ ~Over(answer)
      <4>1. flush # None /\ flush \in Deferred /\ flush.by = q
        BY <1>0, <2>4 DEF Delivered, Flushed, IInv, TypeOK
      <4>2. PICK S \in SUBSET Bot : flush.put \in [S -> Position]
        BY <4>1 DEF Deferred
      <4>3. QED
        BY <1>0, <4>1, <4>2 DEF IInv, PutsOwn, Current, PutCurrent
    <3> HIDE DEF answer
    <3>3. p \in PollState /\ Ends(q, p)
      BY <3>2 DEF IdlePoll, PollState, Ends
    <3> HIDE DEF p
    <3>4. change[r] \in PollState /\ Moves(r, change[r])
      BY <1>0, <3>3 DEF Moves, Kept
    <3> HIDE DEF change
    <3>5. QED
      BY <1>4, <3>1, <3>4
  <2>5. CASE Woken(q)
    <3>1. \/ Answer(q, Superseded)
          \/ poll' = [poll EXCEPT ![q].pc = "seat", ![q].first = FALSE]
      BY <2>5 DEF Woken
    <3>2. poll[q].pc = "hold" /\ poll[q] \in PollState
      BY <1>0, <2>5 DEF Woken
    <3>3. CASE poll' = [poll EXCEPT ![q].pc = "seat", ![q].first = FALSE]
      <4> DEFINE p == [poll[q] EXCEPT !.pc = "seat", !.first = FALSE]
      <4>1. p.past = poll[q].past /\ p.answer = poll[q].answer /\ p.pc = "seat"
        BY <3>2 DEF PollState
      <4>2. poll' = [poll EXCEPT ![q] = p]
        BY <1>0, <3>3 DEF PollState
      <4> HIDE DEF p
      <4>3. poll'[r] = IF r = q THEN p ELSE poll[r]
        BY <1>0, <4>2
      <4>4. QED
        BY <3>2, <4>1, <4>3 DEF Moves, Kept
    <3>4. QED
      BY <1>2, <3>1, <3>3 DEF Reason
  <2>6. CASE HoldOver(q)
    BY <1>2, <2>6 DEF HoldOver, Reason
  <2>7. QED
    BY <1>6, <2>1, <2>2, <2>3, <2>4, <2>5, <2>6 DEF PollStep
<1>7. ASSUME NEW by, Flushed(by, poll)
      PROVE  Moves(r, poll'[r])
  <2>1. Moves(r, poll[r])
    BY DEF Moves, Kept
  <2>2. QED
    BY <1>0, <1>4, <1>7, <2>1
<1>8. ASSUME NEW s \in Submit, Claim(s) \/ SubmitStep(s)
      PROVE  Moves(r, poll'[r])
  <2>1. poll' = poll \/ Flushed(s, poll)
    BY <1>8 DEF Claim, SubmitStep, ReadClaim, CheckSeat, ApplyRefused, ApplyMove, Applied
  <2>2. CASE poll' = poll
    BY <2>2 DEF Moves, Kept
  <2>3. CASE Flushed(s, poll)
    BY <1>7, <2>3
  <2>4. QED
    BY <2>1, <2>2, <2>3
<1>9. QED
  <2>1. ASSUME NEW g \in GameId, Pair(g) \/ EndGame(g) PROVE poll'[r] = poll[r]
    BY <2>1 DEF Pair, EndGame
  <2>2. CASE TickerFlushed
    BY <1>7, <2>2 DEF TickerFlushed
  <2>3. ASSUME NEW p \in Position, AnotherMoves(p) PROVE poll'[r] = poll[r]
    BY <2>3 DEF AnotherMoves
  <2>4. QED
    BY <1>1, <1>5, <1>6, <1>8, <2>1, <2>2, <2>3 DEF Next, vars

\* Rows change only when no section has a flush to come.
LEMMA PutStays == Current /\ [Next]_vars => PutCurrent'
<1> SUFFICES ASSUME Current, [Next]_vars, flush' # None, flush'.by \in Poll
             PROVE  ~Over(flush.put[Sender[flush.by]])'
  BY DEF PutCurrent
<1>0. IInv
  BY DEF Current
<1>1. CASE flush' = flush /\ rows' = rows
  BY <1>1 DEF Current, PutCurrent, Over
<1>2. ASSUME NEW pop, NEW put, NEW wake, NEW by, Commit(pop, put, wake, by)
      PROVE  by \in Poll
  BY <1>2 DEF Commit
<1>3. "ticker" \notin Poll /\ \A s \in Submit : s \notin Poll
  BY RoutesAssumption
<1>4. /\ ~\E g \in GameId : Pair(g) \/ EndGame(g)
      /\ ~\E p \in Position : AnotherMoves(p)
  BY <1>2, <1>3 DEF Pair, EndGame, Ended, AnotherMoves, MoveAt
<1>5. CASE TickerFlushed
  BY <1>5 DEF TickerFlushed, Flushed
<1>6. ASSUME NEW s \in Submit, Claim(s) \/ SubmitStep(s) PROVE flush' = flush /\ rows' = rows
  <2>1. ~ApplyMove(s) /\ ~Applied(s)
    BY <1>2, <1>3 DEF ApplyMove, MoveAt, Applied, Flushed
  <2>2. QED
    BY <1>6, <2>1 DEF Claim, SubmitStep, ReadClaim, CheckSeat, ApplyRefused
<1>7. ASSUME NEW r \in Poll, Deliver(r), flush' # flush
      PROVE  ~Over(flush.put[Sender[flush.by]])'
  <2> DEFINE b == Sender[r]
             g == seats[b]
             position == [game |-> g, ply |-> rows[g].ply]
  <2>1. /\ b \in Bot /\ g \in GameId
        /\ rows' = [rows EXCEPT ![g].delivered = 1]
        /\ Commit({}, [c \in {b} |-> position], {}, r)
    BY <1>0, <1>7, NoneIsNobody DEF Deliver, IInv, TypeOK
  <2>2. rows[g] \in Row /\ rows[g].status = "live"
    BY <1>0, <2>1, NoneIsNobody DEF IInv, TypeOK, SeatsLive
  <2>3. rows'[g].status = "live" /\ rows'[g].ply = rows[g].ply /\ rows[g].ply \in Nat
    BY <1>0, <2>1, <2>2, RoutesAssumption DEF IInv, TypeOK, Row
  <2>4. flush'.by = r /\ flush'.put = [c \in {b} |-> position]
    BY <2>1 DEF Commit
  <2>5. flush'.put[Sender[flush'.by]] = position
    BY <2>4
  <2>6. QED
    BY <2>3, <2>5 DEF Over
<1>8. ASSUME NEW r \in Poll, Register(r) \/ PollStep(r)
      PROVE  (flush' = flush /\ rows' = rows) \/ (Deliver(r) /\ flush' # flush)
  <2>1. CASE Deliver(r)
    <3>1. flush = None /\ (seats[Sender[r]] = None => UNCHANGED <<rows, flush>>)
            /\ (seats[Sender[r]] # None => flush' # flush)
      BY <2>1 DEF Deliver, LockFree
    <3>2. QED
      BY <2>1, <3>1
  <2>2. QED
    BY <1>8, <2>1
       DEF Register, PollStep, ReadSeat, ReadGame, Delivered, Flushed, Woken, HoldOver
<1>9. QED
  BY <1>1, <1>4, <1>5, <1>6, <1>7, <1>8 DEF Next, vars

\* What polls know, and that one under way has no answer yet
KnownOver ==
  /\ Current
  /\ PastOver
  /\ \A r \in Poll : Busy(r) => poll[r].answer = None

LEMMA KnownOverInductive == KnownOver /\ [Next]_vars => KnownOver'
<1> SUFFICES ASSUME KnownOver, [Next]_vars PROVE KnownOver'
  OBVIOUS
<1>1. Current' /\ IInv
  BY Inductive, PutStays DEF KnownOver, Current
<1>2. ASSUME NEW r \in Poll, NEW p \in poll'[r].past PROVE Over(p)'
  <2>1. CASE Moves(r, poll'[r])
    <3>1. p \in poll[r].past
      BY <1>2, <2>1 DEF Moves, Kept, Ends
    <3>2. p \in Position /\ Over(p)
      BY <1>1, <3>1 DEF IInv, TypeOK, PollState, KnownOver, PastOver
    <3>3. QED
      BY <1>1, <3>2, OverStays
  <2>2. CASE Begins(r, poll'[r]) /\ rows' = rows
    BY <1>2, <2>2 DEF Begins, OverAlready, Over
  <2>3. QED
    BY <2>1, <2>2, PollMoves DEF KnownOver
<1>3. ASSUME NEW r \in Poll, Busy(r)' PROVE poll'[r].answer = None
  BY <1>3, PollMoves DEF KnownOver, Busy, Moves, Kept, Ends, Begins
<1>4. QED
  BY <1>1, <1>2, <1>3 DEF KnownOver, PastOver

LEMMA KnownOverAlways == Spec => []KnownOver
<1>1. Init => KnownOver
  BY InitEstablishes DEF Init, KnownOver, Current, PutCurrent, PastOver, Busy, IdlePoll
<1>2. QED
  BY <1>1, KnownOverInductive, PTL DEF Spec

\* A poll is never answered with a position that was over before it began: the
\* entry of the mailbox is compared with the rows as they are read, and what a
\* delivery puts is handed over under the same lock.
THEOREM AnswersCurrentAlways == Spec => AnswersCurrent
<1>1. ASSUME KnownOver, [Next]_vars, NEW r \in Poll,
             poll'[r].answer \in Position, Busy(r)
      PROVE  poll'[r].answer \notin poll[r].past
  <2>1. poll[r].answer = None /\ \A p \in poll[r].past : Over(p)
    BY <1>1 DEF KnownOver, PastOver
  <2>2. poll'[r].answer \notin Reason \cup {None}
    BY <1>1, RoutesAssumption DEF Reason
  <2>3. ~Over(poll'[r].answer)
    BY <1>1, <2>1, <2>2, PollMoves DEF KnownOver, Moves, Kept, Ends, Begins
  <2>4. QED
    BY <2>1, <2>3
<1>2. KnownOver /\ [Next]_vars =>
        [\A r \in Poll :
           poll'[r].answer \in Position /\ Busy(r) => poll'[r].answer \notin poll[r].past]_vars
  BY <1>1
<1>3. QED
  BY <1>2, KnownOverAlways, PTL DEF Spec, AnswersCurrent

-----------------------------------------------------------------------------
(* The check before the transaction: what it compares is the side to move  *)
(* at the ply that is claimed, and the claim does not change under it.     *)

Checked(s, state) ==
  LET side == Mover(state.claim.game, state.claim.ply)
  IN /\ state.pc \in {"idle", "read"} => state.mover = None
     /\ state.pc = "seat" => state.mover = side
     /\ state.pc = "apply" => state.mover = None \/ (state.mover = side /\ side = Sender[s])

ClaimsChecked == IInv /\ \A s \in Submit : Checked(s, submit[s])

LEMMA CheckedStays ==
  ASSUME ClaimsChecked, [Next]_vars, NEW s \in Submit
  PROVE  Checked(s, submit'[s])
<1>0. submit \in [Submit -> SubmitState] /\ submit[s] \in SubmitState /\ Checked(s, submit[s])
  BY DEF ClaimsChecked, IInv, TypeOK
<1>1. CASE submit'[s] = submit[s]
  BY <1>0, <1>1 DEF Checked
<1>2. ASSUME NEW t \in Submit, Refused(t) PROVE Checked(s, submit'[s])
  BY <1>0, <1>2 DEF Refused, Checked
<1>3. ASSUME NEW t \in Submit, Claim(t) PROVE Checked(s, submit'[s])
  BY <1>0, <1>3 DEF Claim, Checked, SubmitState
<1>4. ASSUME NEW t \in Submit, ReadClaim(t) PROVE Checked(s, submit'[s])
  <2> DEFINE p == submit[t].claim
  <2>1. CASE rows[p.game].ply # p.ply \/ rows[p.game].status # "live"
    <3>1. submit[t].pc = "read" /\ submit' = [submit EXCEPT ![t].pc = "apply"]
      BY <1>4, <2>1 DEF ReadClaim
    <3>2. QED
      BY <1>0, <3>1 DEF Checked, SubmitState
  <2>2. CASE ~(rows[p.game].ply # p.ply \/ rows[p.game].status # "live")
    <3>1. submit' = [submit EXCEPT ![t].pc = "seat", ![t].mover = Mover(p.game, p.ply)]
      BY <1>4, <2>2 DEF ReadClaim
    <3>2. QED
      BY <1>0, <3>1 DEF Checked, SubmitState
  <2>3. QED
    BY <2>1, <2>2
<1>5. ASSUME NEW t \in Submit, CheckSeat(t) PROVE Checked(s, submit'[s])
  <2>1. CASE Refused(t)
    BY <1>2, <2>1
  <2>2. CASE ~Refused(t)
    <3>1. /\ submit[t].pc = "seat" /\ submit[t].mover = Sender[t]
          /\ submit' = [submit EXCEPT ![t].pc = "apply"]
      BY <1>5, <2>2 DEF CheckSeat
    <3>2. QED
      BY <1>0, <3>1 DEF Checked, SubmitState
  <2>3. QED
    BY <2>1, <2>2
<1>6. ASSUME NEW t \in Submit, ApplyMove(t) PROVE Checked(s, submit'[s])
  <2>1. submit' = [submit EXCEPT ![t].pc = "flush"]
    BY <1>6 DEF ApplyMove
  <2>2. QED
    BY <1>0, <2>1 DEF Checked, SubmitState
<1>7. ASSUME NEW t \in Submit, Claim(t) \/ SubmitStep(t) PROVE Checked(s, submit'[s])
  BY <1>2, <1>3, <1>4, <1>5, <1>6, <1>7 DEF SubmitStep, ApplyRefused, Applied
<1>8. ASSUME NEW r \in Poll, Register(r) \/ PollStep(r) PROVE submit' = submit
  BY <1>8 DEF Register, PollStep, ReadSeat, ReadGame, Deliver, Delivered, Woken, HoldOver
<1>9. QED
  BY <1>1, <1>7, <1>8 DEF Next, Pair, EndGame, AnotherMoves, TickerFlushed, vars

\* A live game seats both its players; with SeatsLive, they sit nowhere else.
LiveSeated ==
  \A g \in GameId : rows[g].status = "live" => \A b \in Players(g) : seats[b] = g

\* Rows that are live stay seated: whoever is unseated was in the game that ends,
\* and whoever is seated sat nowhere.
LEMMA LiveSeatedStays == IInv /\ LiveSeated /\ [Next]_vars => LiveSeated'
<1> SUFFICES ASSUME IInv, LiveSeated, [Next]_vars PROVE LiveSeated'
  OBVIOUS
<1>0. /\ rows \in [GameId -> Row] /\ seats \in [Bot -> GameId \cup {None}]
      /\ \A g \in GameId : Players(g) \subseteq Bot /\ g # None
  BY NoneIsNobody DEF IInv, TypeOK
<1>1. CASE UNCHANGED <<rows, seats>>
  BY <1>1 DEF LiveSeated
<1>2. ASSUME NEW g \in GameId, Pair(g) PROVE LiveSeated'
  <2>1. ASSUME NEW h \in GameId, rows'[h].status = "live", NEW b \in Players(h)
        PROVE  seats'[b] = h
    <3>1. CASE h = g
      BY <1>0, <1>2, <3>1 DEF Pair
    <3>2. CASE h # g
      <4>1. rows[h].status = "live" /\ seats[b] = h
        BY <1>0, <1>2, <2>1, <3>2 DEF Pair, LiveSeated
      <4>2. b \notin Players(g)
        BY <1>0, <1>2, <4>1 DEF Pair
      <4>3. QED
        BY <1>0, <1>2, <4>1, <4>2 DEF Pair
    <3>3. QED
      BY <3>1, <3>2
  <2>2. QED
    BY <2>1 DEF LiveSeated
<1>3. ASSUME NEW g \in GameId, rows'[g].status = "ended",
             \A h \in GameId \ {g} : rows'[h] = rows[h],
             seats' = [b \in Bot |-> IF seats[b] = g THEN None ELSE seats[b]]
      PROVE  LiveSeated'
  BY <1>0, <1>3 DEF LiveSeated
<1>4. ASSUME NEW g \in GameId, rows'[g].status = rows[g].status,
             \A h \in GameId \ {g} : rows'[h] = rows[h], UNCHANGED seats
      PROVE  LiveSeated'
  BY <1>0, <1>4 DEF LiveSeated
<1>5. ASSUME NEW g \in GameId, EndGame(g) PROVE LiveSeated'
  <2>1. rows'[g].status = "ended" /\ \A h \in GameId \ {g} : rows'[h] = rows[h]
    BY <1>0, <1>5 DEF EndGame, Ended, Row
  <2>2. QED
    BY <1>3, <1>5, <2>1 DEF EndGame, Ended
<1>6. ASSUME NEW r \in Poll, Register(r) \/ PollStep(r) PROVE LiveSeated'
  <2>1. CASE Deliver(r) /\ rows' # rows
    <3> DEFINE g == seats[Sender[r]]
    <3>1. g \in GameId /\ rows' = [rows EXCEPT ![g].delivered = 1] /\ UNCHANGED seats
      BY <2>1, NoneIsNobody DEF Deliver, IInv, TypeOK
    <3> HIDE DEF g
    <3>2. rows'[g].status = rows[g].status /\ \A h \in GameId \ {g} : rows'[h] = rows[h]
      BY <1>0, <3>1 DEF Row
    <3>3. QED
      BY <1>4, <3>1, <3>2
  <2>2. CASE ~(Deliver(r) /\ rows' # rows)
    <3>1. UNCHANGED <<rows, seats>>
      BY <1>6, <2>2
         DEF PollStep, Register, ReadSeat, ReadGame, Deliver, Delivered, Flushed, Woken, HoldOver
    <3>2. QED
      BY <1>1, <3>1
  <2>3. QED
    BY <2>1, <2>2
<1>7. ASSUME NEW p \in Position, NEW by, MoveAt(p, by) PROVE LiveSeated'
  <2> DEFINE g == p.game
             moved == [rows EXCEPT ![g].ply = @ + 1, ![g].delivered = 0]
             ended == [moved EXCEPT ![g].status = "ended"]
  <2>1. g \in GameId /\ rows[g].status = "live" /\ rows[g].ply + 1 <= MaxPly
    <3>1. /\ g \in GameId /\ p.ply \in 0..MaxPly /\ MaxPly \in Nat
          /\ rows[g].status = "live" /\ rows[g].ply = p.ply
      BY <1>7, RoutesAssumption DEF MoveAt, Applicable, Position
    <3>2. p.ply + 1 < MaxPly \/ p.ply + 1 <= MaxPly
      BY <1>7 DEF MoveAt
    <3>3. QED
      BY <3>1, <3>2
  <2>2. \/ rows' = moved /\ UNCHANGED seats
        \/ /\ rows' = ended
           /\ seats' = [b \in Bot |-> IF seats[b] = g THEN None ELSE seats[b]]
    BY <1>7 DEF MoveAt
  <2> HIDE DEF g
  <2>3. /\ moved[g].status = "live" /\ ended[g].status = "ended"
        /\ \A h \in GameId \ {g} : moved[h] = rows[h] /\ ended[h] = rows[h]
    BY <1>0, <2>1, MovedRow
  <2> HIDE DEF moved, ended
  <2>4. QED
    BY <1>3, <1>4, <2>1, <2>2, <2>3
<1>8. ASSUME NEW s \in Submit, Claim(s) \/ SubmitStep(s) PROVE LiveSeated'
  <2>1. ApplyMove(s) \/ UNCHANGED <<rows, seats>>
    BY <1>8 DEF SubmitStep, Claim, ReadClaim, CheckSeat, ApplyRefused, Applied, Flushed
  <2>2. ApplyMove(s) => submit[s].claim \in Position /\ MoveAt(submit[s].claim, s)
    BY DEF ApplyMove, IInv, ClaimsRead
  <2>3. QED
    BY <1>1, <1>7, <2>1, <2>2
<1>9. ASSUME NEW p \in Position, AnotherMoves(p) PROVE LiveSeated'
  BY <1>7, <1>9 DEF AnotherMoves
<1>10. CASE TickerFlushed
  BY <1>1, <1>10 DEF TickerFlushed, Flushed
<1>11. QED
  BY <1>1, <1>2, <1>5, <1>6, <1>8, <1>9, <1>10 DEF Next, vars

\* Only its own section takes a submission from its claim to the flush.
LEMMA OnlyItsMove ==
  ASSUME ClaimsChecked, [Next]_vars, NEW s \in Submit,
         submit[s].pc = "apply", submit'[s].pc = "flush"
  PROVE  ApplyMove(s)
<1>0. submit \in [Submit -> SubmitState]
  BY DEF ClaimsChecked, IInv, TypeOK
<1>1. ASSUME NEW t \in Submit, Claim(t) \/ ReadClaim(t) \/ CheckSeat(t) \/ Refused(t)
      PROVE  submit[t].pc # "apply" \/ submit'[t].pc # "flush" \/ submit' = submit
  BY <1>0, <1>1 DEF Claim, ReadClaim, CheckSeat, Refused
<1>2. submit' # submit
  OBVIOUS
<1>3. PICK t \in Submit : Claim(t) \/ SubmitStep(t)
  BY <1>2 DEF Next, vars, Pair, EndGame, AnotherMoves, TickerFlushed, Register, PollStep, ReadSeat,
              ReadGame, Deliver, Delivered, Woken, HoldOver
<1>4. \A u \in Submit \ {t} : submit'[u] = submit[u]
  BY <1>0, <1>3 DEF SubmitStep, Claim, ReadClaim, CheckSeat, ApplyRefused, ApplyMove, Applied,
                    Refused
<1>5. t = s
  BY <1>4
<1>6. QED
  BY <1>1, <1>2, <1>3, <1>5 DEF SubmitStep, ApplyRefused, Applied

\* The check of _mover_seat, made outside the lock on rows that may be out of
\* date, holds where it is used: the row that is moved is at the ply that was
\* compared, by the compare-and-set of the transaction; and it is live, so that
\* the side to move still sits in it.
THEOREM CheckedClaimsSoundAlways == Spec => CheckedClaimsSound
<1>1. Init => ClaimsChecked /\ LiveSeated
  BY InitEstablishes DEF Init, ClaimsChecked, Checked, LiveSeated
<1>2. ClaimsChecked /\ LiveSeated /\ [Next]_vars => (ClaimsChecked /\ LiveSeated)'
  BY Inductive, CheckedStays, LiveSeatedStays DEF ClaimsChecked
<1>3. ASSUME ClaimsChecked, LiveSeated, [Next]_vars, NEW s \in Submit,
             submit[s].pc = "apply", submit'[s].pc = "flush", submit[s].mover # None
      PROVE  LET g == submit[s].claim.game
             IN /\ Sender[s] = Mover(g, rows[g].ply)
                /\ seats[Sender[s]] = g
  <2> DEFINE p == submit[s].claim
  <2>1. ApplyMove(s)
    BY <1>3, OnlyItsMove
  <2>2. rows[p.game].ply = p.ply /\ rows[p.game].status = "live"
    BY <2>1 DEF ApplyMove, MoveAt, Applicable
  <2>3. Sender[s] = Mover(p.game, p.ply)
    BY <1>3 DEF ClaimsChecked, Checked
  <2>4. p.game \in GameId /\ Sender[s] \in Players(p.game)
    BY <1>3, <2>3 DEF ClaimsChecked, IInv, ClaimsRead, Position, Mover, Players
  <2>5. QED
    BY <1>3, <2>2, <2>3, <2>4 DEF LiveSeated
<1>4. ClaimsChecked /\ LiveSeated /\ [Next]_vars =>
        [\A s \in Submit :
           submit[s].pc = "apply" /\ submit'[s].pc = "flush" /\ submit[s].mover # None =>
             LET g == submit[s].claim.game
             IN /\ Sender[s] = Mover(g, rows[g].ply)
                /\ seats[Sender[s]] = g]_vars
  BY <1>3
<1>5. QED
  BY <1>1, <1>2, <1>4, PTL DEF Spec, CheckedClaimsSound
=============================================================================
