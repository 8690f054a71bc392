------------------------------- MODULE Arena -------------------------------
(***************************************************************************)
(* The game server at the grain of its transactions.  Every write of       *)
(* chess_server goes through critical_section, which holds the one write   *)
(* lock from BEGIN to COMMIT, so a request handler is one atomic action on *)
(* the tables (Txn models the section itself).  The ticker's transaction   *)
(* is long and reads the clock more than once, so it is taken apart: one   *)
(* action per unit of work, and while it runs no other writer acts.        *)
(*                                                                         *)
(* A tick that is cancelled or raises rolls the whole transaction back,    *)
(* and nobody else sees a row of it before COMMIT: to the tables it is a   *)
(* tick that has not started yet.                                          *)
(***************************************************************************)
EXTENDS GameRow, Elo, FiniteSetsExt

CONSTANTS
  GameId,          \* games.id, handed out in increasing order
  NoGame,          \* no row in seats
  Anchor,          \* the bots seeded by the server: is_anchor = 1
  Owner,           \* names of participants; "server" is reserved
  AnchorRating,    \* their fixed ratings
  PlyCap,          \* rules.PLY_CAP
  StrikeLimit,     \* ILLEGAL_STRIKE_LIMIT
  Grace,           \* DELIVERY_GRACE_NS
  Recency,         \* POLL_RECENCY_NS
  Baseline         \* what the monotonic clock may read when a process starts

\* Bounds of the model, absent from the code.
CONSTANTS
  MaxNow,          \* last instant
  TickLag,         \* longest time from the start of a tick to the start of the next
  PairUntil,       \* last tick that pairs
  MayPause         \* whether an admin ever pauses

ASSUME ArenaAssumption ==
  /\ GameId \subseteq Nat
  /\ NoGame \notin GameId
  /\ Anchor \subseteq BotId
  /\ "server" \notin Owner
  /\ AnchorRating \in [Anchor -> Int]
  /\ PlyCap \in Nat \ {0}
  /\ StrikeLimit \in Nat \ {0}
  /\ Grace \in Nat
  /\ Recency \in Nat
  /\ Baseline \subseteq Nat /\ Baseline # {}
  /\ MaxNow \in Nat /\ TickLag \in Nat /\ PairUntil \in Nat
  /\ MayPause \in BOOLEAN

\* A new clock shows something, and an increment adds something, in the
\* milliseconds of the table.
ASSUME LimitsAssumption == NsToMs(TimeControl) >= 1 /\ NsToMs(Increment) >= 1

VARIABLES
  registered,      \* ids with a row in bots
  bots,            \* the row of each bot
  games,           \* the row of each game
  seats,           \* the game each bot is seated in
  ratingHistory,   \* rating_history
  paused,          \* app_state.matchmaking_paused
  now,             \* time.monotonic_ns()
  tick             \* the ticker: where it is, when it started, what is left

vars == <<registered, bots, games, seats, ratingHistory, paused, now, tick>>

BotRow ==
  [owner : Owner \cup {"server"},
   rating : Int,
   wins : Nat, losses : Nat, draws : Nat, games_played : Nat,
   last_poll_mono : Int \cup {NoTime},
   last_color : Color \cup {NoValue},
   last_opponent_id : BotId \cup {NoBot},
   white_count : Nat]

HistoryRow ==
  [bot_id : BotId, game_id : GameId,
   rating_before : Int, rating_after : Int, delta : Int]

\* "matchmaking" to "flag" are inside the transaction; "choosing" is the
\* anchor's own code running between its delivery and its move.
TickPc ==
  {"asleep", "waiting", "matchmaking", "anchors", "choosing", "grace", "flag"}

HoldsLock == tick.pc \notin {"asleep", "waiting"}

Live == {g \in GameId : IsLive(games[g])}

InsertBot(b, owner) ==
  [owner |-> owner,
   rating |-> IF b \in Anchor THEN AnchorRating[b] ELSE STARTING_RATING,
   wins |-> 0, losses |-> 0, draws |-> 0, games_played |-> 0,
   last_poll_mono |-> NoTime, last_color |-> NoValue,
   last_opponent_id |-> NoBot, white_count |-> 0]

\* The anchors are seeded and recovery has run before the socket opens.
Init ==
  /\ registered = Anchor
  /\ bots = [b \in BotId |-> InsertBot(b, "server")]
  /\ games = [g \in GameId |-> FreeRow]
  /\ seats = [b \in BotId |-> NoGame]
  /\ ratingHistory = {}
  /\ paused = FALSE
  /\ now \in Baseline
  /\ tick = [pc |-> "asleep", started |-> now, pool |-> {}, todo |-> {}]

-----------------------------------------------------------------------------
(* Rating and ending a game: engine/rating.py, engine/games.py             *)

OutcomeFor(row, b, result) ==
  LET won == IF b = row.white_bot_id THEN "white_win" ELSE "black_win"
  IN IF result = "draw" THEN "draw" ELSE IF result = won THEN "win" ELSE "loss"

\* derive_rating_updates: the delta of each bot that gets a history row.  Two
\* anchors never meet; the code raises if they do.
RatingDeltas(row, result) ==
  LET white == row.white_bot_id
      black == row.black_bot_id
      draw  == DrawExchange(bots[white].rating, bots[black].rating)
      loser  == IF result = "white_win" THEN black ELSE white
      winner == IF result = "white_win" THEN white ELSE black
      decisive == RatingExchange(bots[winner].rating, bots[loser].rating)
      Opponent(b) == IF b = white THEN black ELSE white
  IN IF Players(row) \cap Anchor = {}
     THEN IF result = "draw"
          THEN [b \in Players(row) |-> IF b = white THEN draw.white ELSE draw.black]
          ELSE [b \in Players(row) |-> IF b = winner THEN decisive.winner
                                                     ELSE decisive.loser]
     ELSE [b \in Players(row) \ Anchor |->
             OneSidedExchange(bots[b].rating, bots[Opponent(b)].rating,
                              OutcomeFor(row, b, result))]

\* Mutants of CountResult: only the winner's rating is written; a draw is not
\* a game played.
CountResultWinnerOnly(bot, delta, outcome) ==
  [bot EXCEPT !.rating = IF outcome = "loss" THEN @ ELSE @ + delta,
              !.wins = IF outcome = "win" THEN @ + 1 ELSE @,
              !.losses = IF outcome = "loss" THEN @ + 1 ELSE @,
              !.draws = IF outcome = "draw" THEN @ + 1 ELSE @,
              !.games_played = @ + 1]

CountResultDrawsUncounted(bot, delta, outcome) ==
  [bot EXCEPT !.rating = @ + delta,
              !.wins = IF outcome = "win" THEN @ + 1 ELSE @,
              !.losses = IF outcome = "loss" THEN @ + 1 ELSE @,
              !.draws = IF outcome = "draw" THEN @ + 1 ELSE @,
              !.games_played = IF outcome = "draw" THEN @ ELSE @ + 1]

\* update_rating_and_counters, run for both players when there is a result
CountResult(bot, delta, outcome) ==
  [bot EXCEPT !.rating = @ + delta,
              !.wins = IF outcome = "win" THEN @ + 1 ELSE @,
              !.losses = IF outcome = "loss" THEN @ + 1 ELSE @,
              !.draws = IF outcome = "draw" THEN @ + 1 ELSE @,
              !.games_played = @ + 1]

\* update_pool_history, run on aborts as well
RememberGame(bot, row, b) ==
  [bot EXCEPT
     !.last_color = IF b = row.white_bot_id THEN "white" ELSE "black",
     !.last_opponent_id = IF b = row.white_bot_id THEN row.black_bot_id
                                                  ELSE row.white_bot_id,
     !.white_count = IF b = row.white_bot_id THEN @ + 1 ELSE @]

\* Mutant of IsRated: games between bots of one owner count.
IsRatedWhoeverOwns(row, result, termination) ==
  termination \notin Rule1Unrates /\ result # NoValue

IsRated(row, result, termination) ==
  row.rated = 1 /\ termination \notin Rule1Unrates /\ result # NoValue

\* _end_game_locked, given the row of g as the transaction has it
EndGame(g, row, status, result, termination) ==
  LET deltas == IF IsRated(row, result, termination)
                THEN RatingDeltas(row, result) ELSE <<>>
      DeltaOf(b) == IF b \in DOMAIN deltas THEN deltas[b] ELSE 0
      Counted(b) == IF result = NoValue THEN bots[b]
                    ELSE CountResult(bots[b], DeltaOf(b), OutcomeFor(row, b, result))
  IN /\ games' = [games EXCEPT ![g] = CasTerminate(row, status, result, termination)]
     /\ bots' = [b \in BotId |-> IF b \in Players(row)
                                 THEN RememberGame(Counted(b), row, b)
                                 ELSE bots[b]]
     /\ ratingHistory' = ratingHistory \cup
          {[bot_id |-> b, game_id |-> g, rating_before |-> bots[b].rating,
            rating_after |-> bots[b].rating + deltas[b], delta |-> deltas[b]] :
             b \in DOMAIN deltas}
     /\ seats' = [b \in BotId |-> IF seats[b] = g THEN NoGame ELSE seats[b]]

FinaliseGame(g, row, result, termination) ==
  EndGame(g, row, "finished", result, termination)

AbortGame(g, row, termination) == EndGame(g, row, "aborted", NoValue, termination)

ForfeitGame(g, row, mover) ==
  EndGame(g, row, "finished", OppositeWin(mover), "illegal_forfeit")

\* sum_deltas_by_bot
TotalDelta(entries) == MapThenSumSet(LAMBDA h : h.delta, entries)

EntriesOf(b) == {h \in ratingHistory : h.bot_id = b}

SumDeltasByBot(b) == TotalDelta(EntriesOf(b))

OnlyGame(g, row) ==
  /\ games' = [games EXCEPT ![g] = row]
  /\ UNCHANGED <<bots, seats, ratingHistory>>

-----------------------------------------------------------------------------
(* A submission: apply_move_locked on the current ply of a live game.  A   *)
(* stale ply, an ended game and an undelivered position change nothing.    *)

Submitted(g) == IsLive(games[g]) /\ games[g].delivered_to_mover = 1

\* The flag is asked before the move is looked at.
MoveTooLate(g) ==
  /\ Submitted(g)
  /\ HasFlagged(ClockFromGame(games[g]), now)
  /\ FinaliseGame(g, games[g], OppositeWin(games[g].to_move), "flag")

InTime(g) == Submitted(g) /\ ~HasFlagged(ClockFromGame(games[g]), now)

\* _reject_locked commits a strike and touches neither ply nor clock.
MoveRejected(g) ==
  LET mover  == games[g].to_move
      struck == CasAddStrike(games[g], mover)
  IN /\ InTime(g)
     /\ IF struck.strikes[mover] >= StrikeLimit
        THEN ForfeitGame(g, struck, mover)
        ELSE OnlyGame(g, struck)

\* detect_termination of the position reached: what a legal move may end in
MoveEnd ==
  [is_terminal : {FALSE}] \cup
  [is_terminal : {TRUE}, termination : {"checkmate"} \cup DrawRules]

MoveAccepted(g) ==
  LET row   == games[g]
      moved == CasApplyMove(row, AccountMoveAndSwitch(ClockFromGame(row), now, now).new_clock)
  IN /\ InTime(g)
     /\ \E end \in MoveEnd :
          IF end.is_terminal
          THEN FinaliseGame(g, moved,
                 IF end.termination = "checkmate"
                 THEN OppositeWin(moved.to_move) ELSE "draw",
                 end.termination)
          ELSE IF moved.ply >= PlyCap
          THEN FinaliseGame(g, moved, "draw", "adjudicated")
          ELSE OnlyGame(g, moved)

-----------------------------------------------------------------------------
(* Requests.  Each takes the write lock, so none runs inside a tick.       *)

\* Mutant of Request: the write lock is not taken.
RequestUnlocked == UNCHANGED <<now, tick>>

Request == ~HoldsLock /\ UNCHANGED <<now, tick>>

\* POST /bots
RegisterBot(b) ==
  /\ Request
  /\ b \notin registered
  /\ registered' = registered \cup {b}
  /\ \E owner \in Owner : bots' = [bots EXCEPT ![b] = InsertBot(b, owner)]
  /\ UNCHANGED <<games, seats, ratingHistory, paused>>

\* GET /bots/me/turn, its first transaction: _record_poll
RecordPoll(b) ==
  /\ Request
  /\ b \in registered \ Anchor
  /\ bots' = [bots EXCEPT ![b].last_poll_mono = now]
  /\ UNCHANGED <<registered, games, seats, ratingHistory, paused>>

\* Its second: deliver_for_poll.  The row comes from the seat alone; whether b
\* is the mover was asked before the lock was taken, on another connection,
\* so nothing is assumed of it here (TurnRoutes models the two together).
DeliverForPoll(b) ==
  LET g == seats[b]
  IN /\ Request
     /\ b \in registered \ Anchor
     /\ g # NoGame
     /\ CanDeliver(games[g], games[g].ply)
     /\ OnlyGame(g, CasDeliver(games[g], games[g].ply, now))
     /\ UNCHANGED <<registered, paused>>

\* POST /games/{id}/moves
SubmitMove(g) ==
  /\ Request
  /\ MoveTooLate(g) \/ MoveRejected(g) \/ MoveAccepted(g)
  /\ UNCHANGED <<registered, paused>>

\* POST /games/{id}/resign: the resigner loses, whoever is to move.
Resign(b) ==
  LET g == seats[b]
      c == IF games[g].white_bot_id = b THEN "white" ELSE "black"
  IN /\ Request
     /\ b \in registered \ Anchor
     /\ g # NoGame
     /\ IsLive(games[g])
     /\ FinaliseGame(g, games[g], OppositeWin(c), "resignation")
     /\ UNCHANGED <<registered, paused>>

\* Mutant of AdminAbort: an ended game is aborted too.
AdminAbortAny(g) ==
  /\ Request
  /\ games[g].status # "free"
  /\ AbortGame(g, games[g], "admin_abort")
  /\ UNCHANGED <<registered, paused>>

\* POST /admin/games/{id}/abort
AdminAbort(g) ==
  /\ Request
  /\ IsLive(games[g])
  /\ AbortGame(g, games[g], "admin_abort")
  /\ UNCHANGED <<registered, paused>>

\* POST /admin/matchmaking/pause and /resume touch no table and take no lock.
SetPaused ==
  /\ MayPause
  /\ paused' = ~paused
  /\ UNCHANGED <<registered, bots, games, seats, ratingHistory, now, tick>>

-----------------------------------------------------------------------------
(* The ticker.                                                             *)

\* The start is read before the lock is asked for and is the tick's time from
\* there on, however long the wait.
TickStart ==
  /\ tick.pc = "asleep"
  /\ tick' = [tick EXCEPT !.pc = "waiting", !.started = now]
  /\ UNCHANGED <<registered, bots, games, seats, ratingHistory, paused, now>>

\* Mutant of Pool: a seated bot that polls stays in the pool.
PoolWithSeated ==
  {b \in registered :
     \/ b \in Anchor
     \/ /\ bots[b].last_poll_mono # NoTime
        /\ bots[b].last_poll_mono >= WindowStartMono(tick.started, Recency)}

\* list_pool_candidates
Pool ==
  {b \in registered :
     /\ seats[b] = NoGame
     /\ \/ b \in Anchor
        \/ /\ bots[b].last_poll_mono # NoTime
           /\ bots[b].last_poll_mono >= WindowStartMono(tick.started, Recency)}

\* BEGIN, then the matchmaking step's guard and its snapshot
TickBegin ==
  /\ tick.pc = "waiting"
  /\ tick' = [tick EXCEPT !.pc = "matchmaking", !.pool = IF paused THEN {} ELSE Pool]
  /\ UNCHANGED <<registered, bots, games, seats, ratingHistory, paused, now>>

RatedAtCreation(white, black) ==
  IF bots[white].owner = bots[black].owner THEN 0 ELSE 1

\* One pairing of the snapshot.  Which pairings the policy makes is the
\* matchmaker's business; that they are disjoint and never join two anchors
\* is all that is assumed of it here.
CreateGame(white, black) ==
  LET g == CHOOSE g \in GameId : /\ games[g].status = "free"
                                 /\ \A h \in GameId : games[h].status = "free" => g <= h
  IN /\ tick.pc = "matchmaking"
     /\ tick.started <= PairUntil
     /\ {white, black} \subseteq tick.pool
     /\ white # black
     /\ ~({white, black} \subseteq Anchor)
     /\ \E h \in GameId : games[h].status = "free"
     /\ games' = [games EXCEPT ![g] =
                    InsertGame(white, black, RatedAtCreation(white, black), tick.started)]
     /\ seats' = [seats EXCEPT ![white] = g, ![black] = g]
     /\ tick' = [tick EXCEPT !.pool = @ \ {white, black}]
     /\ UNCHANGED <<registered, bots, ratingHistory, paused, now>>

\* list_anchor_to_move, read once when the step starts
MatchmakingDone ==
  /\ tick.pc = "matchmaking"
  /\ tick' = [tick EXCEPT !.pc = "anchors", !.pool = {},
                          !.todo = {g \in Live : MoverId(games[g]) \in Anchor}]
  /\ UNCHANGED <<registered, bots, games, seats, ratingHistory, paused, now>>

\* The lists are ordered by id.
NextUnit == CHOOSE g \in tick.todo : \A h \in tick.todo : g <= h

UnitDone(pc) == tick' = [tick EXCEPT !.pc = pc, !.todo = @ \ {NextUnit}]

\* The call is itself the delivery, at the tick's start.
AnchorDelivered ==
  LET g == NextUnit
  IN /\ tick.pc = "anchors"
     /\ tick.todo # {}
     /\ OnlyGame(g, CasDeliver(games[g], games[g].ply, tick.started))
     /\ tick' = [tick EXCEPT !.pc = "choosing"]
     /\ UNCHANGED <<registered, paused, now>>

\* The move takes the clients' path, at the time it is made.
AnchorMoved ==
  LET g == NextUnit
  IN /\ tick.pc = "choosing"
     /\ MoveTooLate(g) \/ MoveAccepted(g)
     /\ UnitDone("anchors")
     /\ UNCHANGED <<registered, paused, now>>

\* No such player, or its code raised: the savepoint is rolled back, so the
\* unit is as if it had not delivered either.
AnchorFailed ==
  /\ tick.pc = "anchors"
  /\ tick.todo # {}
  /\ UnitDone("anchors")
  /\ UNCHANGED <<registered, bots, games, seats, ratingHistory, paused, now>>

\* Mutant of AnchorsDone: only games that have begun are swept.
AnchorsDoneActiveOnly ==
  /\ tick.pc = "anchors"
  /\ tick.todo = {}
  /\ tick' = [tick EXCEPT !.pc = "grace",
                          !.todo = {g \in Live : /\ games[g].delivered_to_mover = 0
                                                 /\ games[g].status = "active"}]
  /\ UNCHANGED <<registered, bots, games, seats, ratingHistory, paused, now>>

\* list_undelivered_non_terminal
AnchorsDone ==
  /\ tick.pc = "anchors"
  /\ tick.todo = {}
  /\ tick' = [tick EXCEPT !.pc = "grace",
                          !.todo = {g \in Live : games[g].delivered_to_mover = 0}]
  /\ UNCHANGED <<registered, bots, games, seats, ratingHistory, paused, now>>

\* Mutant of GraceUnit: the grace ends an instant early.
GraceUnitEarly ==
  LET g   == NextUnit
      row == games[g]
  IN /\ tick.pc = "grace"
     /\ tick.todo # {}
     /\ UnitDone("grace")
     /\ IF tick.started - row.to_move_since_mono < Grace
        THEN UNCHANGED <<bots, games, seats, ratingHistory>>
        ELSE IF row.ply = 0
        THEN AbortGame(g, row, "no_show")
        ELSE FinaliseGame(g, row, OppositeWin(row.to_move), "abandoned")
     /\ UNCHANGED <<registered, paused, now>>

GraceUnit ==
  LET g   == NextUnit
      row == games[g]
  IN /\ tick.pc = "grace"
     /\ tick.todo # {}
     /\ UnitDone("grace")
     /\ IF ~CheckDeliveryTimeout(ClockFromGame(row), tick.started, Grace)
        THEN UNCHANGED <<bots, games, seats, ratingHistory>>
        ELSE IF row.ply = 0
        THEN AbortGame(g, row, "no_show")
        ELSE FinaliseGame(g, row, OppositeWin(row.to_move), "abandoned")
     /\ UNCHANGED <<registered, paused, now>>

\* list_delivered_active
GraceDone ==
  /\ tick.pc = "grace"
  /\ tick.todo = {}
  /\ tick' = [tick EXCEPT !.pc = "flag",
                          !.todo = {g \in GameId : /\ games[g].delivered_to_mover = 1
                                                   /\ games[g].status = "active"}]
  /\ UNCHANGED <<registered, bots, games, seats, ratingHistory, paused, now>>

FlagUnit ==
  LET g   == NextUnit
      row == games[g]
  IN /\ tick.pc = "flag"
     /\ tick.todo # {}
     /\ UnitDone("flag")
     /\ IF HasFlagged(ClockFromGame(row), tick.started)
        THEN FinaliseGame(g, row, OppositeWin(row.to_move), "flag")
        ELSE UNCHANGED <<bots, games, seats, ratingHistory>>
     /\ UNCHANGED <<registered, paused, now>>

\* The presence step writes no row; COMMIT, and the ticker sleeps.
TickEnd ==
  /\ tick.pc = "flag"
  /\ tick.todo = {}
  /\ tick' = [tick EXCEPT !.pc = "asleep"]
  /\ UNCHANGED <<registered, bots, games, seats, ratingHistory, paused, now>>

TickStep ==
  \/ TickStart
  \/ TickBegin
  \/ \E white, black \in BotId : CreateGame(white, black)
  \/ MatchmakingDone
  \/ AnchorDelivered \/ AnchorMoved \/ AnchorFailed \/ AnchorsDone
  \/ GraceUnit \/ GraceDone
  \/ FlagUnit \/ TickEnd

-----------------------------------------------------------------------------
(* Time, and a crash with the recovery that follows it.                    *)

Advance ==
  /\ now < MaxNow
  /\ now - tick.started < TickLag
  /\ now' = now + 1
  /\ UNCHANGED <<registered, bots, games, seats, ratingHistory, paused, tick>>

\* Mutant of Restart: the poll times of the dead process are kept.
RestartKeepsPolls ==
  /\ ~HoldsLock
  /\ games' = [g \in GameId |-> AbortNonTerminal(games[g])]
  /\ seats' = [b \in BotId |-> NoGame]
  /\ paused' = FALSE
  /\ now' \in Baseline
  /\ tick' = [pc |-> "asleep", started |-> now', pool |-> {}, todo |-> {}]
  /\ UNCHANGED <<registered, bots, ratingHistory>>

\* The process dies at any moment; an open transaction dies with it.  The new
\* one recovers before it serves: recover_locked, with a new clock baseline.
Restart ==
  /\ ~HoldsLock
  /\ games' = [g \in GameId |-> AbortNonTerminal(games[g])]
  /\ seats' = [b \in BotId |-> NoGame]
  /\ bots' = [b \in BotId |-> [bots[b] EXCEPT !.last_poll_mono = NoTime]]
  /\ paused' = FALSE
  /\ now' \in Baseline
  /\ tick' = [pc |-> "asleep", started |-> now', pool |-> {}, todo |-> {}]
  /\ UNCHANGED <<registered, ratingHistory>>

Next ==
  \/ \E b \in BotId : RegisterBot(b) \/ RecordPoll(b) \/ DeliverForPoll(b) \/ Resign(b)
  \/ \E g \in GameId : SubmitMove(g) \/ AdminAbort(g)
  \/ SetPaused
  \/ TickStep
  \/ Advance
  \/ Restart

Spec == Init /\ [][Next]_vars

-----------------------------------------------------------------------------
(* Properties.                                                             *)

\* Every variable holds what its column or attribute can hold.
TypeOK ==
  /\ registered \in SUBSET BotId
  /\ bots \in [BotId -> BotRow]
  /\ games \in [GameId -> Row]
  /\ seats \in [BotId -> GameId \cup {NoGame}]
  /\ ratingHistory \in SUBSET HistoryRow
  /\ paused \in BOOLEAN
  /\ now \in Nat
  /\ tick \in [pc : TickPc, started : Int, pool : SUBSET BotId, todo : SUBSET GameId]

\* A bot is seated in a game exactly while that game is live and the bot plays
\* in it: no end of a game, by whichever of seven paths, leaves a seat behind
\* (the bot would never be paired again) and none frees the seat of a game
\* that goes on.
SeatIffLive ==
  \A b \in BotId, g \in GameId :
    seats[b] = g <=> IsLive(games[g]) /\ b \in Players(games[g])

\* The columns the sweeps select by agree with each other: a position is
\* delivered exactly when its turn has started, a live game is pending exactly
\* until its first delivery, and an ended one is never delivered (it would be
\* swept on every tick for ever).
DeliveryShape ==
  \A g \in GameId :
    LET row == games[g]
    IN /\ row.delivered_to_mover = 1 <=> row.turn_started_mono # NoTime
       /\ row.delivered_to_mover = 1 => row.status = "active"
       /\ row.status = "active" => row.ply > 0 \/ row.delivered_to_mover = 1
       /\ row.status = "pending" => row.ply = 0

\* What an ended game says of itself: aborted games have no result and are
\* unrated, finished games have a result and a reason that is not an abort's.
EndShape ==
  \A g \in GameId :
    LET row == games[g]
    IN /\ row.status = "aborted" =>
            row.result = NoValue /\ row.rated = 0 /\ row.termination \in Rule1Unrates
       /\ row.status = "finished" =>
            row.result # NoValue /\ row.termination \notin Rule1Unrates \cup {NoValue}
       /\ row.status \in {"free"} \cup NonTerminal =>
            row.result = NoValue /\ row.termination = NoValue

\* A game is rated once and only if it should be: rating_history holds exactly
\* one row per competitor of each finished rated game and none for any other
\* game, so its UNIQUE constraint never fires and no game is rated twice
\* however its end raced with another.
RatedExactlyOnce ==
  \A g \in GameId :
    LET entries == {h \in ratingHistory : h.game_id = g}
    IN /\ {h.bot_id : h \in entries} =
            IF games[g].status = "finished" /\ games[g].rated = 1
            THEN Players(games[g]) \ Anchor ELSE {}
       /\ \A h1, h2 \in entries : h1.bot_id = h2.bot_id => h1 = h2

\* Between two competitors the exchange is zero-sum.
ZeroSum ==
  \A h1, h2 \in ratingHistory :
    h1.game_id = h2.game_id /\ h1.bot_id # h2.bot_id => h1.delta + h2.delta = 0

\* The identity of check_consistency, which the server asks only at startup: a
\* competitor's rating is the starting rating plus every delta recorded for it.
RatingConsistent ==
  \A b \in BotId \ Anchor : bots[b].rating = STARTING_RATING + SumDeltasByBot(b)

\* The counters of a bot count the finished games it plays in, by outcome.
FinishedAs(b, outcome) ==
  {g \in GameId : /\ games[g].status = "finished"
                  /\ b \in Players(games[g])
                  /\ OutcomeFor(games[g], b, games[g].result) = outcome}

CountersMatchGames ==
  \A b \in BotId :
    /\ bots[b].wins = Cardinality(FinishedAs(b, "win"))
    /\ bots[b].losses = Cardinality(FinishedAs(b, "loss"))
    /\ bots[b].draws = Cardinality(FinishedAs(b, "draw"))
    /\ bots[b].games_played = bots[b].wins + bots[b].losses + bots[b].draws

\* No live game has reached a limit that should have ended it: the cap on
\* plies, the strike limit, or a clock with nothing on it (the increment is at
\* least a millisecond, so rounding a clock down to the table never empties it).
LiveWithinLimits ==
  \A g \in Live :
    /\ games[g].ply < PlyCap
    /\ \A c \in Color : games[g].strikes[c] < StrikeLimit /\ games[g].ms[c] >= 1

\* Nothing the server compares with the present lies in the future: a stamp
\* taken before a restart would, if the new clock starts lower.
StampsInThePast ==
  /\ tick.started <= now
  /\ \A b \in BotId : bots[b].last_poll_mono # NoTime => bots[b].last_poll_mono <= now
  /\ \A g \in Live :
       /\ games[g].to_move_since_mono <= now
       /\ games[g].turn_started_mono # NoTime => games[g].turn_started_mono <= now

\* Every row is one that the statements of the sweeps, the limits of a game and
\* the clocks were written for, after any path and any restart.
RowsSound ==
  TypeOK /\ DeliveryShape /\ EndShape /\ LiveWithinLimits /\ StampsInThePast

\* The rows a sweep listed when it began are still what it listed when it
\* comes to them: each is live, and delivered or not as the list required.
SweepListsFresh ==
  \A g \in tick.todo :
    /\ IsLive(games[g])
    /\ tick.pc \in {"anchors", "choosing"} => MoverId(games[g]) \in Anchor
    /\ tick.pc = "grace" => games[g].delivered_to_mover = 0
    /\ tick.pc = "flag" => games[g].delivered_to_mover = 1

\* The rows of ended games are history: nothing writes them again, in this run
\* of the server or a later one.
TerminalFrozen ==
  [][\A g \in GameId : games[g].status \in Terminal => games'[g] = games[g]]_vars

\* Nobody loses a game unearned.  A loss on time befalls the side to move,
\* delivered and out of time at the instant of the decision, although the
\* ticker decides with the time it read before it had the lock; a game is
\* abandoned by, or a no-show of, a side whose grace is over; and a forfeit
\* takes the strikes of the side that loses.
Ends(g, reason) == games[g].termination = NoValue /\ games'[g].termination = reason

LossesEarned ==
  [][\A g \in GameId :
       LET row == games[g]
       IN /\ Ends(g, "flag") =>
               /\ row.delivered_to_mover = 1
               /\ HasFlagged(ClockFromGame(row), now)
               /\ games'[g].result = OppositeWin(row.to_move)
          /\ Ends(g, "abandoned") \/ Ends(g, "no_show") =>
               CheckDeliveryTimeout(ClockFromGame(row), now, Grace)
          /\ Ends(g, "abandoned") =>
               row.ply > 0 /\ games'[g].result = OppositeWin(row.to_move)
          /\ Ends(g, "illegal_forfeit") =>
               \E c \in Color : /\ games'[g].strikes[c] = StrikeLimit
                                /\ games'[g].result = OppositeWin(c)]_vars

\* Each game goes through the states of Match and no others: M(g)!Spec for
\* every g, with the quantifier inside the temporal operator.
M(g) == INSTANCE Match WITH
          status <- games[g].status, ply <- games[g].ply,
          result <- games[g].result, termination <- games[g].termination

ImplementsMatch ==
  /\ \A g \in GameId : M(g)!Init
  /\ [][\A g \in GameId : [M(g)!Next]_(M(g)!state)]_vars

\* can_transition, which the server never calls: the table of legal changes of
\* status that the tests of match.py pin.
StatusChangesLegal ==
  [][\A g \in GameId :
       games[g].status \in NonTerminal /\ games'[g].status # games[g].status =>
         M(g)!CanTransition(games[g].status, games'[g].status)]_vars

\* The clock never runs on time before the position was the mover's to see.
ChargedFromHandover ==
  \A g \in Live :
    games[g].turn_started_mono # NoTime =>
      games[g].turn_started_mono >= games[g].to_move_since_mono

-----------------------------------------------------------------------------
(* Progress: time passes, ticks run, and a tick is not cancelled for ever. *)

FairSpec ==
  /\ Spec
  /\ WF_vars(Advance)
  /\ WF_vars(TickStep)

\* Every game ends, whatever its players do: a bot that never polls runs into
\* the grace, one that never moves into its flag, an anchor that fails into
\* the grace, and play itself into the cap.
GamesEnd ==
  \A g \in GameId : games[g].status \in NonTerminal ~> games[g].status \in Terminal
=============================================================================
