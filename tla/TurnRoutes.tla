----------------------------- MODULE TurnRoutes -----------------------------
(***************************************************************************)
(* The long poll and the submission at the grain of their awaits.          *)
(* GET /bots/me/turn and POST /games/{id}/moves read through a second      *)
(* connection, outside the write lock, and act later on what they read;    *)
(* several requests of one bot may be under way at once.  Between the      *)
(* COMMIT of a section and its flush the rows are visible and the mailbox  *)
(* and the waiters are not yet changed.                                    *)
(*                                                                         *)
(* Clocks, strikes and ratings are left to Arena: a game here is a ply, a  *)
(* delivery and whether it is over.                                        *)
(***************************************************************************)
EXTENDS Naturals, FiniteSets

CONSTANTS
  Bot,
  GameId,
  White, Black,    \* the players of each game
  Poll, Submit,    \* requests, and
  Sender,          \* the bot each one comes from
  None,            \* nobody, no game, no payload
  NotYourTurn, WaitingForPairing, Superseded   \* answers without a position

CONSTANT MaxPly    \* bound of the model: the ply that ends a game

Position == [game : GameId, ply : 0..MaxPly]

\* What a section that has committed has yet to apply.
Deferred ==
  [pop : SUBSET Bot, put : UNION {[S -> Position] : S \in SUBSET Bot},
   wake : SUBSET Bot, by : Poll \cup Submit \cup {"ticker"}]

ASSUME RoutesAssumption ==
  /\ White \in [GameId -> Bot] /\ Black \in [GameId -> Bot]
  /\ \A g \in GameId : White[g] # Black[g]
  /\ Poll \cap Submit = {}
  /\ Sender \in [Poll \cup Submit -> Bot]
  /\ None \notin Bot \cup GameId \cup Poll \cup Deferred
  /\ Position \cap {None, NotYourTurn, WaitingForPairing, Superseded} = {}
  /\ "ticker" \notin Poll \cup Submit
  /\ MaxPly \in Nat \ {0}

VARIABLES
  rows,            \* games, as committed
  seats,           \* seats, as committed
  flush,           \* what the section that has committed has yet to apply
  mailbox,         \* state.mailbox
  waiters,         \* WaiterRegistry._waiters
  poll,            \* each long poll
  submit           \* each submission

vars == <<rows, seats, flush, mailbox, waiters, poll, submit>>

Row ==
  {row \in [status : {"free", "live", "ended"}, ply : 0..MaxPly, delivered : {0, 1}] :
     row.status # "live" => row.delivered = 0}

\* What a request answers: a position, or one of the reasons for having none.
Reason == {NotYourTurn, WaitingForPairing, Superseded}

PollState ==
  [pc : {"idle", "seat", "game", "deliver", "flush", "hold"},
   first : BOOLEAN,           \* the resolve before the hold, or the one after
   game : GameId \cup {None},
   event : BOOLEAN,           \* Waiter.event, Waiter.superseded
   superseded : BOOLEAN,
   answer : Position \cup Reason \cup {None},
   past : SUBSET Position]    \* positions already over when the poll began

SubmitState ==
  [pc : {"idle", "read", "seat", "apply", "flush"},
   claim : Position \cup {None},
   mover : Bot \cup {None}]

Mover(g, ply) == IF ply % 2 = 0 THEN White[g] ELSE Black[g]

Players(g) == {White[g], Black[g]}

IdlePoll ==
  [pc |-> "idle", first |-> TRUE, game |-> None, event |-> FALSE,
   superseded |-> FALSE, answer |-> None, past |-> {}]

Init ==
  /\ rows = [g \in GameId |-> [status |-> "free", ply |-> 0, delivered |-> 0]]
  /\ seats = [b \in Bot |-> None]
  /\ flush = None
  /\ mailbox = [b \in Bot |-> None]
  /\ waiters = [b \in Bot |-> None]
  /\ poll = [r \in Poll |-> IdlePoll]
  /\ submit = [s \in Submit |-> [pc |-> "idle", claim |-> None, mover |-> None]]

-----------------------------------------------------------------------------
(* Critical sections: the rows change at COMMIT, the rest at the flush.    *)

LockFree == flush = None

\* The deferred changes: entries popped and put, bots woken, and the request
\* that goes on when they are made.
Commit(pop, put, wake, by) ==
  flush' = [pop |-> pop, put |-> put, wake |-> wake, by |-> by]

\* The section of the request or of the ticker releases the lock.
Flushed(by, change) ==
  /\ flush # None
  /\ flush.by = by
  /\ flush' = None
  /\ mailbox' = [b \in Bot |-> IF b \in flush.pop THEN None
                               ELSE IF b \in DOMAIN flush.put THEN flush.put[b]
                               ELSE mailbox[b]]
  /\ poll' = [r \in Poll |->
                LET woken == [change[r] EXCEPT !.event = TRUE]
                IN IF \E b \in flush.wake : waiters[b] = r THEN woken ELSE change[r]]
  /\ UNCHANGED <<rows, seats>>

Ended(g, by) ==
  /\ rows' = [rows EXCEPT ![g].status = "ended", ![g].delivered = 0]
  /\ seats' = [b \in Bot |-> IF seats[b] = g THEN None ELSE seats[b]]
  /\ Commit(Players(g), <<>>, Players(g), by)

\* create_game_locked, from the ticker
Pair(g) ==
  /\ LockFree
  /\ rows[g].status = "free"
  /\ \A b \in Players(g) : seats[b] = None
  /\ rows' = [rows EXCEPT ![g].status = "live"]
  /\ seats' = [b \in Bot |-> IF b \in Players(g) THEN g ELSE seats[b]]
  /\ Commit({}, <<>>, Players(g), "ticker")
  /\ UNCHANGED <<mailbox, waiters, poll, submit>>

\* _end_game_locked, from the ticker, an admin or a resignation
EndGame(g) ==
  /\ LockFree
  /\ rows[g].status = "live"
  /\ Ended(g, "ticker")
  /\ UNCHANGED <<mailbox, waiters, poll, submit>>

TickerFlushed ==
  /\ Flushed("ticker", poll)
  /\ UNCHANGED <<waiters, submit>>

-----------------------------------------------------------------------------
(* GET /bots/me/turn                                                       *)

\* Mutant of Discarded: whoever is registered is dropped.
DiscardedAny(r) == [waiters EXCEPT ![Sender[r]] = None]

\* Only if it is still the registered one: a superseded waiter must not evict
\* its successor.
Discarded(r) ==
  [waiters EXCEPT ![Sender[r]] = IF @ = r THEN None ELSE @]

Answer(r, answer) ==
  /\ poll' = [poll EXCEPT ![r] = [IdlePoll EXCEPT !.answer = answer]]
  /\ waiters' = Discarded(r)

\* None from the resolve: hold the first time, say so the second.
NothingToSay(r) ==
  IF poll[r].first
  THEN poll' = [poll EXCEPT ![r].pc = "hold"] /\ UNCHANGED waiters
  ELSE Answer(r, WaitingForPairing)

OverAlready ==
  {p \in Position : rows[p.game].status = "ended" \/ rows[p.game].ply > p.ply}

\* _record_poll has had the lock and is done; then the waiter is registered,
\* and the newcomer evicts the incumbent.
Register(r) ==
  LET b == Sender[r]
      incumbent == waiters[b]
      begun == [IdlePoll EXCEPT !.pc = "seat", !.past = OverAlready]
  IN /\ LockFree
     /\ poll[r].pc = "idle"
     /\ waiters' = [waiters EXCEPT ![b] = r]
     /\ poll' = [q \in Poll |->
                   IF q = r THEN begun
                   ELSE IF q = incumbent
                   THEN [poll[q] EXCEPT !.superseded = TRUE, !.event = TRUE]
                   ELSE poll[q]]
     /\ UNCHANGED <<rows, seats, flush, mailbox, submit>>

\* _resolve_turn: the seat
ReadSeat(r) ==
  LET g == seats[Sender[r]]
  IN /\ poll[r].pc = "seat"
     /\ IF g = None
        THEN NothingToSay(r)
        ELSE /\ poll' = [poll EXCEPT ![r].pc = "game", ![r].game = g]
             /\ UNCHANGED waiters
     /\ UNCHANGED <<rows, seats, flush, mailbox, submit>>

\* Mutant of IsPayloadFor: the position is not compared.
IsPayloadForAnyPosition(payload, position) == payload # None

IsPayloadFor(payload, position) == payload = position

\* The game; then, with no await between them, the mailbox and the turn check.
ReadGame(r) ==
  LET b   == Sender[r]
      g   == poll[r].game
      row == rows[g]
      position == [game |-> g, ply |-> row.ply]
      held == mailbox[b]
      served == row.status = "live" /\ IsPayloadFor(held, position)
  IN /\ poll[r].pc = "game"
     /\ mailbox' = IF row.status = "live" /\ held # None /\ ~served
                   THEN [mailbox EXCEPT ![b] = None] ELSE mailbox
     /\ IF row.status # "live" THEN NothingToSay(r)
        ELSE IF served THEN Answer(r, held)
        ELSE IF Mover(g, row.ply) # b THEN Answer(r, NotYourTurn)
        ELSE poll' = [poll EXCEPT ![r].pc = "deliver"] /\ UNCHANGED waiters
     /\ UNCHANGED <<rows, seats, flush, submit>>

\* deliver_for_poll.  The game is looked up afresh by the seat; the turn is not.
Deliver(r) ==
  LET b == Sender[r]
      g == seats[b]
      position == [game |-> g, ply |-> rows[g].ply]
  IN /\ LockFree
     /\ poll[r].pc = "deliver"
     /\ IF g = None
        THEN NothingToSay(r) /\ UNCHANGED <<rows, flush>>
        ELSE /\ rows' = [rows EXCEPT ![g].delivered = 1]
             /\ Commit({}, [c \in {b} |-> position], {}, r)
             /\ poll' = [poll EXCEPT ![r].pc = "flush", ![r].game = g]
             /\ UNCHANGED waiters
     /\ UNCHANGED <<seats, mailbox, submit>>

\* The flush puts the payload and the request takes it at once.
Delivered(r) ==
  /\ poll[r].pc = "flush"
  /\ Flushed(r, [poll EXCEPT ![r] = [IdlePoll EXCEPT !.answer = flush.put[Sender[r]]]])
  /\ waiters' = Discarded(r)
  /\ UNCHANGED submit

\* The event is set: superseded, or look again.
Woken(r) ==
  /\ poll[r].pc = "hold"
  /\ poll[r].event
  /\ IF poll[r].superseded
     THEN Answer(r, Superseded)
     ELSE /\ poll' = [poll EXCEPT ![r].pc = "seat", ![r].first = FALSE]
          /\ UNCHANGED waiters
  /\ UNCHANGED <<rows, seats, flush, mailbox, submit>>

\* Mutant of HoldOver: a hold has no end.
HoldOverNever(r) == FALSE /\ UNCHANGED vars

\* poll_hold_seconds are over.
HoldOver(r) ==
  /\ poll[r].pc = "hold"
  /\ Answer(r, WaitingForPairing)
  /\ UNCHANGED <<rows, seats, flush, mailbox, submit>>

-----------------------------------------------------------------------------
(* POST /games/{id}/moves                                                  *)

Refused(s) ==
  submit' = [submit EXCEPT ![s] = [pc |-> "idle", claim |-> None, mover |-> None]]

\* A client claims a game and a ply of it; at MaxPly there is none to move.
Claim(s) ==
  /\ submit[s].pc = "idle"
  /\ \E p \in {q \in Position : q.ply < MaxPly} :
       submit' = [submit EXCEPT ![s].pc = "read", ![s].claim = p]
  /\ UNCHANGED <<rows, seats, flush, mailbox, waiters, poll>>

\* _mover_seat: a ply that is not the current one is left to the CAS.
ReadClaim(s) ==
  LET p == submit[s].claim
      row == rows[p.game]
  IN /\ submit[s].pc = "read"
     /\ submit' = IF row.ply # p.ply \/ row.status # "live"
                  THEN [submit EXCEPT ![s].pc = "apply"]
                  ELSE [submit EXCEPT ![s].pc = "seat",
                                      ![s].mover = Mover(p.game, row.ply)]
     /\ UNCHANGED <<rows, seats, flush, mailbox, waiters, poll>>

\* The caller's seat, then the turn, against the row as it was read.
CheckSeat(s) ==
  /\ submit[s].pc = "seat"
  /\ IF seats[Sender[s]] # submit[s].claim.game \/ submit[s].mover # Sender[s]
     THEN Refused(s)
     ELSE submit' = [submit EXCEPT ![s].pc = "apply"]
  /\ UNCHANGED <<rows, seats, flush, mailbox, waiters, poll>>

\* Mutant of Applicable: the ply is not compared.
ApplicableAnyPly(p) ==
  /\ rows[p.game].status = "live"
  /\ rows[p.game].delivered = 1

\* The from-state predicate of apply_move, then whether it was delivered.
Applicable(p) ==
  /\ rows[p.game].ply = p.ply
  /\ rows[p.game].status = "live"
  /\ rows[p.game].delivered = 1

\* A stale claim changes nothing, and nor does a refused move here.
ApplyRefused(s) ==
  /\ LockFree
  /\ submit[s].pc = "apply"
  /\ Refused(s)
  /\ UNCHANGED <<rows, seats, flush, mailbox, waiters, poll>>

\* A legal move at position p: the game goes on, or ends with it.
MoveAt(p, by) ==
  LET moved == [rows EXCEPT ![p.game].ply = @ + 1, ![p.game].delivered = 0]
  IN /\ Applicable(p)
     /\ \/ /\ p.ply + 1 < MaxPly
           /\ rows' = moved
           /\ Commit({Mover(p.game, p.ply)}, <<>>, {}, by)
           /\ UNCHANGED seats
        \/ /\ p.ply + 1 <= MaxPly
           /\ rows' = [moved EXCEPT ![p.game].status = "ended"]
           /\ seats' = [b \in Bot |-> IF seats[b] = p.game THEN None ELSE seats[b]]
           /\ Commit(Players(p.game), <<>>, Players(p.game), by)

ApplyMove(s) ==
  /\ LockFree
  /\ submit[s].pc = "apply"
  /\ MoveAt(submit[s].claim, s)
  /\ submit' = [submit EXCEPT ![s].pc = "flush"]
  /\ UNCHANGED <<mailbox, waiters, poll>>

\* The move of a submission that is not among those followed: up to its section
\* a submission changes nothing, so that all that is seen of it is this step and
\* the flush.
AnotherMoves(p) ==
  /\ LockFree
  /\ MoveAt(p, "ticker")
  /\ UNCHANGED <<mailbox, waiters, poll, submit>>

Applied(s) ==
  /\ submit[s].pc = "flush"
  /\ Flushed(s, poll)
  /\ Refused(s)
  /\ UNCHANGED waiters

PollStep(r) ==
  \/ ReadSeat(r) \/ ReadGame(r) \/ Deliver(r) \/ Delivered(r)
  \/ Woken(r) \/ HoldOver(r)

SubmitStep(s) ==
  \/ ReadClaim(s) \/ CheckSeat(s) \/ ApplyRefused(s) \/ ApplyMove(s) \/ Applied(s)

Next ==
  \/ \E g \in GameId : Pair(g) \/ EndGame(g)
  \/ \E p \in Position : AnotherMoves(p)
  \/ TickerFlushed
  \/ \E r \in Poll : Register(r) \/ PollStep(r)
  \/ \E s \in Submit : Claim(s) \/ SubmitStep(s)

Spec == Init /\ [][Next]_vars

\* The loop resumes what is ready, a hold times out, and asyncio.Lock serves
\* its waiters in turn.
FairSpec ==
  /\ Spec
  /\ WF_vars(TickerFlushed)
  /\ \A r \in Poll : WF_vars(PollStep(r)) /\ SF_vars(Deliver(r))
  /\ \A s \in Submit : WF_vars(Applied(s))

-----------------------------------------------------------------------------
(* Properties.                                                             *)

Busy(r) == poll[r].pc # "idle"

TypeOK ==
  /\ rows \in [GameId -> Row]
  /\ seats \in [Bot -> GameId \cup {None}]
  /\ flush \in Deferred \cup {None}
  /\ mailbox \in [Bot -> Position \cup {None}]
  /\ waiters \in [Bot -> Poll \cup {None}]
  /\ poll \in [Poll -> PollState]
  /\ submit \in [Submit -> SubmitState]

\* No wake is lost: while a poll is held and has not been woken, its bot has
\* no game, except while the wake itself is on its way.
HeldMeansUnseated ==
  \A r \in Poll :
    poll[r].pc = "hold" /\ ~poll[r].event =>
      \/ seats[Sender[r]] = None
      \/ flush # None /\ Sender[r] \in flush.wake

\* One live waiter per bot: of two polls of a bot under way one is superseded,
\* and the registry names the other, so that a wake reaches it.
OneWaiter ==
  \A r \in Poll :
    /\ Busy(r) => poll[r].superseded \/ waiters[Sender[r]] = r
    /\ waiters[Sender[r]] = r => Busy(r) /\ ~poll[r].superseded

\* The registry of waiters can be relied on: it names the poll that counts, and
\* through it no wake is lost.
WaitersSound == TypeOK /\ OneWaiter /\ HeldMeansUnseated

\* A poll is never answered with a position that was over before it began: the
\* mailbox may lag behind the rows, and keeps entries of earlier plies and
\* even of an earlier game, but none of those is served.
AnswersCurrent ==
  [][\A r \in Poll :
       poll'[r].answer \in Position /\ Busy(r) => poll'[r].answer \notin poll[r].past]_vars

\* Every poll is answered.
PollsAnswered == \A r \in Poll : Busy(r) ~> ~Busy(r)

\* The clock of a turn is started by the poll of the bot whose turn it is.
DeliveredToMover ==
  [][\A g \in GameId :
       rows[g].delivered = 0 /\ rows'[g].delivered = 1 =>
         \E r \in Poll : poll'[r].pc = "flush" /\ Sender[r] = Mover(g, rows[g].ply)]_vars

\* The check before the transaction holds in it: when the move of a caller that
\* was compared is applied, it is the caller's turn in the game as it then is,
\* and the caller still sits there, however much was committed since the check.
\* (routes_play.py: the check is made on rows read without the lock; that the ply
\* is compared again in the transaction is what makes it safe.)
CheckedClaimsSound ==
  [][\A s \in Submit :
       submit[s].pc = "apply" /\ submit'[s].pc = "flush" /\ submit[s].mover # None =>
         LET g == submit[s].claim.game
         IN /\ Sender[s] = Mover(g, rows[g].ply)
            /\ seats[Sender[s]] = g]_vars

\* A move that is applied is made by the side to move at its ply.
MovedByMover ==
  [][\A s \in Submit :
       submit[s].pc = "apply" /\ submit'[s].pc = "flush" =>
         Sender[s] = Mover(submit[s].claim.game, submit[s].claim.ply)]_vars
=============================================================================
