---------------------------- MODULE OfflineArena ----------------------------
(***************************************************************************)
(* The starter kit's arena.py: a round robin played in one process, one    *)
(* game after another, with the rules of chess_core but none of the        *)
(* server.  The bots are arbitrary code: a call of one takes any time, and *)
(* answers with a legal move, an illegal one, nothing, or an exception.    *)
(* It is handed the arena's own board object, so it may also give it back  *)
(* with a move of its search still pushed.                                 *)
(*                                                                         *)
(* Left out: what is only printed (move times, flag and illegal totals),   *)
(* the openings (White is to move in every one of the book), and the PGN   *)
(* text.  Instants are counted from the start of each game, since none is  *)
(* compared across games.                                                  *)
(***************************************************************************)
EXTENDS Clock, Elo, SequencesExt

CONSTANTS
  Bot,            \* the bots that can be loaded
  MaxGames,       \* the largest --games of the instance
  TimeControl,    \* --time-control, in nanoseconds
  Increment,      \* --increment, in nanoseconds
  MaxThink,       \* the longest call of a bot
  MaxGap,         \* the longest time the loop itself takes before a call
  PlyCap,         \* rules.PLY_CAP
  DrawRules,      \* the terminations of a drawn position
  NoValue         \* None

VARIABLES
  names,          \* bot_names: the file stems, each once
  schedule,
  phase,          \* where main or run_single_game is
  turn,           \* the side to move in fen
  board_turn,     \* board.turn, the side to move on the board handed out
  verdict,        \* detect_termination(fen, history_fens)
  clock, ply, attempts, now,
  results,        \* all_results, the last one still to be recorded when phase = "returned"
  ratings, wins, losses, draws, games_played,
  \* History, read by no action:
  asked,          \* the side whose bot is or was called last
  tidy,           \* no bot of this game has given its board back changed
  thought         \* the time bots have been thinking in this game

game == <<turn, board_turn, verdict, clock, ply, attempts, now, asked, tidy, thought>>
tracker == <<ratings, wins, losses, draws, games_played>>
vars == <<names, schedule, phase, game, results, tracker>>

Outcome == {"white_win", "black_win", "draw"}

\* What detect_termination answers of a position that ends the game
Verdict == [termination : {"checkmate"} \cup DrawRules, result : Outcome]

\* The time control is any integer that the command line was given.
ASSUME OfflineArenaAssumption ==
  /\ IsFiniteSet(Bot)
  /\ MaxGames \in Nat /\ MaxThink \in Nat /\ MaxGap \in Nat
  /\ TimeControl \in Int /\ Increment \in Int
  /\ PlyCap \in Nat \ {0}
  /\ DrawRules \subseteq {"stalemate", "insufficient", "fifty_move", "threefold"}
  /\ NoValue \notin Color \cup Int \cup Verdict

LossOf(c) == IF c = "white" THEN "black_win" ELSE "white_win"

-----------------------------------------------------------------------------
(* The schedule. *)

\* Every pair of names once, in the order of the two nested loops.
Pairings(bot_names) ==
  FlattenSeq([i \in DOMAIN bot_names |->
               [j \in 1..(Len(bot_names) - i) |-> <<bot_names[i], bot_names[i + j]>>]])

\* Whoever is White next time.
Swapped(pairing) == <<pairing[2], pairing[1]>>

\* The odd games go to the earliest pairings.
GamesOf(k, total_games, n_pairings) ==
  total_games \div n_pairings + (IF k <= total_games % n_pairings THEN 1 ELSE 0)

\* Colours alternate within a pairing.
Block(pairing, n_games) ==
  [i \in 1..n_games |-> IF i % 2 = 1 THEN pairing ELSE Swapped(pairing)]

BuildSchedule(bot_names, total_games) ==
  LET pairings == Pairings(bot_names)
  IN IF pairings = <<>> THEN <<>>
     ELSE FlattenSeq([k \in DOMAIN pairings |->
                       Block(pairings[k], GamesOf(k, total_games, Len(pairings)))])

-----------------------------------------------------------------------------
(* One game: the loop of run_single_game. *)

\* Two paths with one stem are one entry of bot_moves, so one name is possible.
Init ==
  /\ \E n \in 1..Cardinality(Bot) : names = SubSeq(SetToSeq(Bot), 1, n)
  /\ \E total \in 0..MaxGames : schedule = BuildSchedule(names, total)
  /\ phase = "between"
  /\ turn = "white" /\ board_turn = "white" /\ verdict = NoValue
  /\ clock = CreateClock(TimeControl, Increment, "white", 0)
  /\ ply = 0 /\ attempts = [c \in Color |-> 0] /\ now = 0
  /\ asked = NoValue /\ tidy = TRUE /\ thought = 0
  /\ results = <<>>
  /\ ratings = [b \in ToSet(names) |-> STARTING_RATING]
  /\ wins = [b \in ToSet(names) |-> 0]
  /\ losses = wins /\ draws = wins /\ games_played = wins

\* The locals of run_single_game, as the next call of it will set them.
FreshLocals ==
  /\ turn' = "white" /\ board_turn' = "white" /\ verdict' = NoValue
  /\ clock' = CreateClock(TimeControl, Increment, "white", 0)
  /\ ply' = 0 /\ attempts' = [c \in Color |-> 0] /\ now' = 0
  /\ asked' = NoValue /\ tidy' = TRUE /\ thought' = 0

StartGame ==
  /\ phase = "between"
  /\ Len(results) < Len(schedule)
  /\ phase' = "loop"
  /\ UNCHANGED <<names, schedule, game, results, tracker>>

\* return GameResult(...).
Return(termination, result) ==
  /\ phase' = "returned"
  /\ results' = Append(results,
       [white |-> schedule[Len(results) + 1][1], black |-> schedule[Len(results) + 1][2],
        result |-> result, termination |-> termination, ply |-> ply,
        white_rating |-> NoValue, black_rating |-> NoValue])
  /\ UNCHANGED <<names, schedule, tracker>>

\* Mutant of NaturalEnd: the cap is looked at first.
NaturalEndBeforeCap ==
  /\ phase = "loop" /\ verdict # NoValue
  /\ IF ply >= PlyCap THEN Return("adjudicated", "draw")
                      ELSE Return(verdict.termination, verdict.result)
  /\ UNCHANGED game

\* The position ends the game.
NaturalEnd ==
  /\ phase = "loop" /\ verdict # NoValue
  /\ Return(verdict.termination, verdict.result)
  /\ UNCHANGED game

\* Only a game the position does not end is adjudicated.
Adjudicate ==
  /\ phase = "loop" /\ verdict = NoValue
  /\ ply >= PlyCap
  /\ Return("adjudicated", "draw")
  /\ UNCHANGED game

\* Deliver, which on a second attempt changes nothing, and call the bot of
\* the side to move on the board.
CallBot ==
  /\ phase = "loop" /\ verdict = NoValue
  /\ ply < PlyCap
  /\ \E gap \in 0..MaxGap : now' = now + gap
  /\ clock' = DeliverPosition(clock, now')
  /\ asked' = board_turn
  /\ phase' = "thinking"
  /\ UNCHANGED <<names, schedule, results, tracker,
                 turn, board_turn, verdict, ply, attempts, tidy, thought>>

\* The call ends, after any time, with the board as it was or with one move
\* more on it: the parity of what was pushed is all the loop ever reads.
CallEnds ==
  /\ phase = "thinking"
  /\ \E d \in 0..MaxThink : now' = now + d /\ thought' = thought + d
  /\ \E left \in BOOLEAN :
       /\ board_turn' = IF left THEN OtherColor(board_turn) ELSE board_turn
       /\ tidy' = (tidy /\ ~left)
  /\ UNCHANGED <<turn, verdict, ply, asked>>

\* The exception is caught and the side to move on the board has lost, the
\* clock unread.
BotRaises ==
  /\ CallEnds
  /\ Return("crash", LossOf(board_turn'))
  /\ UNCHANGED <<clock, attempts>>

Accounted == AccountMoveAndSwitch(clock, now', now')

BotOverdue ==
  /\ CallEnds
  /\ Accounted.flagged
  /\ Return("flag", LossOf(board_turn'))
  /\ UNCHANGED <<clock, attempts>>

\* move.uci() of None raises outside the try: the program ends, and with it
\* every result, since the PGN is written after the last game.
BotReturnsNone ==
  /\ CallEnds
  /\ ~Accounted.flagged
  /\ phase' = "died"
  /\ UNCHANGED <<names, schedule, results, tracker, clock, attempts>>

\* Mutant of BotMovesIllegally: the clock is handed out anew for the retry.
BotMovesIllegallyFresh ==
  /\ CallEnds
  /\ ~Accounted.flagged
  /\ attempts' = [attempts EXCEPT ![board_turn'] = @ + 1]
  /\ clock' = [clock EXCEPT !.delivered_to_mover = 0]
  /\ IF attempts'[board_turn'] >= 3
     THEN Return("illegal_forfeit", LossOf(board_turn'))
     ELSE /\ phase' = "loop"
          /\ UNCHANGED <<names, schedule, results, tracker>>

\* Mutant of BotMovesIllegally: an attempt before the third is not kept.
BotMovesIllegallyForgotten ==
  /\ CallEnds
  /\ ~Accounted.flagged
  /\ phase' = "loop"
  /\ UNCHANGED <<names, schedule, results, tracker, clock, attempts>>

\* A strike against the side to move on the board.  The retry keeps the fen,
\* the board as it came back, and the clock that is already running.
BotMovesIllegally ==
  /\ CallEnds
  /\ ~Accounted.flagged
  /\ attempts' = [attempts EXCEPT ![board_turn'] = @ + 1]
  /\ IF attempts'[board_turn'] >= 3
     THEN Return("illegal_forfeit", LossOf(board_turn'))
     ELSE /\ phase' = "loop"
          /\ UNCHANGED <<names, schedule, results, tracker>>
  /\ UNCHANGED clock

PositionVerdict(mover) ==
  {NoValue, [termination |-> "checkmate", result |-> LossOf(OtherColor(mover))]}
    \cup [termination : DrawRules, result : {"draw"}]

\* Mutant of BotMoves: the board is not rebuilt from the new fen.
BotMovesOldBoard ==
  /\ phase = "thinking"
  /\ \E d \in 0..MaxThink : now' = now + d /\ thought' = thought + d
  /\ ~Accounted.flagged
  /\ turn' = OtherColor(turn)
  /\ verdict' \in PositionVerdict(turn)
  /\ clock' = Accounted.new_clock
  /\ ply' = ply + 1
  /\ phase' = "loop"
  /\ UNCHANGED <<names, schedule, results, tracker, board_turn, attempts, asked, tidy>>

\* Legal in fen: the new fen, and a new board from it whatever came back.
BotMoves ==
  /\ phase = "thinking"
  /\ \E d \in 0..MaxThink : now' = now + d /\ thought' = thought + d
  /\ ~Accounted.flagged
  /\ turn' = OtherColor(turn)
  /\ board_turn' = turn'
  /\ verdict' \in PositionVerdict(turn)
  /\ clock' = Accounted.new_clock
  /\ ply' = ply + 1
  /\ phase' = "loop"
  /\ UNCHANGED <<names, schedule, results, tracker, attempts, asked, tidy>>

-----------------------------------------------------------------------------
(* The tournament. *)

\* What each side gains: by how compute_rating_exchange and
\* compute_draw_exchange are called for the result.
Gains(white_rating, black_rating, result) ==
  CASE result = "draw" -> DrawExchange(white_rating, black_rating)
    [] result = "white_win" ->
         LET x == RatingExchange(white_rating, black_rating)
         IN [white |-> x.winner, black |-> x.loser]
    [] result = "black_win" ->
         LET x == RatingExchange(black_rating, white_rating)
         IN [white |-> x.loser, black |-> x.winner]

Bump(counter, who) == [b \in DOMAIN counter |-> counter[b] + (IF b \in who THEN 1 ELSE 0)]

\* Mutant of RecordGame: the headers are read after the ratings moved.
RecordGameHeadersLate ==
  /\ phase = "returned"
  /\ LET r == Last(results)
         gain == Gains(ratings[r.white], ratings[r.black], r.result)
     IN /\ ratings' = [ratings EXCEPT ![r.white] = @ + gain.white, ![r.black] = @ + gain.black]
        /\ wins' = Bump(wins, IF r.result = "draw" THEN {} ELSE
                              {IF r.result = "white_win" THEN r.white ELSE r.black})
        /\ losses' = Bump(losses, IF r.result = "draw" THEN {} ELSE
                                  {IF r.result = "white_win" THEN r.black ELSE r.white})
        /\ draws' = Bump(draws, IF r.result = "draw" THEN {r.white, r.black} ELSE {})
        /\ games_played' = Bump(games_played, {r.white, r.black})
        /\ results' = [results EXCEPT ![Len(results)].white_rating = ratings'[r.white],
                                      ![Len(results)].black_rating = ratings'[r.black]]
  /\ phase' = "between"
  /\ FreshLocals
  /\ UNCHANGED <<names, schedule>>

\* main's body after run_single_game, record_game included.
RecordGame ==
  /\ phase = "returned"
  /\ LET r == Last(results)
         gain == Gains(ratings[r.white], ratings[r.black], r.result)
         winner == CASE r.result = "white_win" -> {r.white}
                     [] r.result = "black_win" -> {r.black}
                     [] r.result = "draw" -> {}
         both == {r.white, r.black}
     IN /\ results' = [results EXCEPT ![Len(results)].white_rating = ratings[r.white],
                                      ![Len(results)].black_rating = ratings[r.black]]
        /\ ratings' = [ratings EXCEPT ![r.white] = @ + gain.white, ![r.black] = @ + gain.black]
        /\ wins' = Bump(wins, winner)
        /\ losses' = Bump(losses, IF winner = {} THEN {} ELSE both \ winner)
        /\ draws' = Bump(draws, IF winner = {} THEN both ELSE {})
        /\ games_played' = Bump(games_played, both)
  /\ phase' = "between"
  /\ FreshLocals
  /\ UNCHANGED <<names, schedule>>

\* print_results and export_to_pgn.
Finish ==
  /\ phase = "between"
  /\ Len(results) = Len(schedule)
  /\ phase' = "done"
  /\ UNCHANGED <<names, schedule, game, results, tracker>>

Play == NaturalEnd \/ Adjudicate \/ CallBot \/ BotRaises \/ BotOverdue
          \/ BotReturnsNone \/ BotMovesIllegally \/ BotMoves

Next == StartGame \/ Play \/ RecordGame \/ Finish

Spec == Init /\ [][Next]_vars

\* One thread, and every call of a bot returns.
FairSpec == Spec /\ WF_vars(Next)

-----------------------------------------------------------------------------
(* What it promises. *)

\* Types, at the bounds of the instance.
TypeOK ==
  /\ schedule \in Seq(ToSet(names) \X ToSet(names))
  /\ phase \in {"between", "loop", "thinking", "returned", "done", "died"}
  /\ turn \in Color /\ board_turn \in Color /\ asked \in Color \cup {NoValue}
  /\ clock \in ClockState
  /\ ply \in 0..PlyCap
  /\ attempts \in [Color -> 0..3]
  /\ \A c \in Color : attempts[c] = 3 => phase # "loop" /\ phase # "thinking"
  /\ Len(results) <= Len(schedule)
  /\ ratings \in [ToSet(names) -> Int]
  /\ \A counter \in {wins, losses, draws, games_played} : counter \in [ToSet(names) -> Nat]
  /\ tidy \in BOOLEAN

\* The games of a schedule in which p[1] is White and p[2] Black.
AsGiven(s, p) == {i \in DOMAIN s : s[i] = p}

Between(s, p) == AsGiven(s, p) \cup AsGiven(s, Swapped(p))

\* build_schedule, for every number of games: exactly that many, nobody
\* against itself, no pairing more than one game ahead of another, and in
\* each pairing neither side with more than one White more than the other.
FairFor(total, s) ==
  LET pairs == {p \in ToSet(names) \X ToSet(names) : p[1] # p[2]}
  IN pairs # {} =>
       /\ Len(s) = total
       /\ ToSet(s) \subseteq pairs
       /\ \A p \in pairs :
            /\ Cardinality(AsGiven(s, p)) - Cardinality(AsGiven(s, Swapped(p))) \in {-1, 0, 1}
            /\ \A q \in pairs : Cardinality(Between(s, p)) <= Cardinality(Between(s, q)) + 1

ScheduleFair ==
  \A total \in IF phase = "done" THEN 0..(2 * Len(Pairings(names)) + 1) ELSE {} :
    FairFor(total, BuildSchedule(names, total))

\* The games that have been recorded.
Recorded == IF phase = "returned" THEN Front(results) ELSE results

\* The ratings after the first n recorded games, recomputed from the results.
RatingsAfter[n \in Nat] ==
  IF n = 0 THEN [b \in ToSet(names) |-> STARTING_RATING]
  ELSE LET before == RatingsAfter[n - 1]
           r == results[n]
           score == CASE r.result = "white_win" -> WinGain(before[r.white] - before[r.black])
                      [] r.result = "draw" -> DrawGain(before[r.white] - before[r.black])
                      [] r.result = "black_win" -> -WinGain(before[r.black] - before[r.white])
       IN [before EXCEPT ![r.white] = @ + score, ![r.black] = @ - score]

\* The table printed at the end and the headers of the PGN file are what a
\* reader would recompute from the list of results: the ratings, the totals,
\* and beside each game the ratings its players held going into it.  No
\* rating point is made or lost.
StandingsReplay ==
  /\ ratings = RatingsAfter[Len(Recorded)]
  /\ \A n \in DOMAIN Recorded :
       /\ Recorded[n].white_rating = RatingsAfter[n - 1][Recorded[n].white]
       /\ Recorded[n].black_rating = RatingsAfter[n - 1][Recorded[n].black]
  /\ \A b \in ToSet(names) :
       LET of(S) == Cardinality({n \in DOMAIN Recorded : Recorded[n].result \in S /\
                                   b \in {Recorded[n].white, Recorded[n].black}})
           won == Cardinality({n \in DOMAIN Recorded :
                                 \/ Recorded[n].white = b /\ Recorded[n].result = "white_win"
                                 \/ Recorded[n].black = b /\ Recorded[n].result = "black_win"})
       IN /\ games_played[b] = of(Outcome)
          /\ draws[b] = of({"draw"})
          /\ wins[b] = won
          /\ losses[b] = of({"white_win", "black_win"}) - won
  /\ FoldFunction(+, 0, ratings) = STARTING_RATING * Len(names)

\* What the tournament reports: a fair schedule, and a table that follows from
\* the games of it.
ReportSound == TypeOK /\ ScheduleFair /\ StandingsReplay

\* Every instant a bot thinks is paid from a clock, those of its illegal
\* attempts included, and no clock pays for more than has passed.
ThinkingIsPaid ==
  LET paid == 2 * TimeControl + Increment * ply - (clock.ns["white"] + clock.ns["black"])
      running == IF clock.delivered_to_mover = 1 THEN now - clock.turn_started_mono ELSE 0
  IN thought <= paid + running /\ paid + running <= now

\* While every bot gives its board back as it got it, the bot called is the
\* one of the side to move, whose clock runs, and a game lost otherwise than
\* on the board is lost by the bot called last.
BlamesTheMover ==
  tidy =>
    /\ phase = "thinking" => asked = turn /\ clock.to_move = turn
    /\ phase = "returned" /\ Last(results).termination \in {"crash", "flag", "illegal_forfeit"}
         => Last(results).result = LossOf(asked)

\* The design's line about a bot that raises: it forfeits the game.
RaisingForfeits ==
  phase = "returned" /\ Last(results).termination = "crash"
    => Last(results).result = LossOf(asked)

(* The n-th game as chess_core.match has it.  A position that ends the game *)
(* has ended it there already, though the loop only looks next time round;  *)
(* a crash is what the server can only see as an abandoned game.            *)
Current(n) == n = Len(results) + 1 /\ phase \in {"loop", "thinking", "died"}

Decided == verdict # NoValue \/ ply >= PlyCap

MatchStatus(n) ==
  CASE n \in DOMAIN results -> "finished"
    [] Current(n) -> IF Decided THEN "finished"
                     ELSE IF asked = NoValue THEN "pending" ELSE "active"
    [] OTHER -> "free"

MatchPly(n) ==
  IF n \in DOMAIN results THEN results[n].ply ELSE IF Current(n) THEN ply ELSE 0

MatchResult(n) ==
  CASE n \in DOMAIN results -> results[n].result
    [] Current(n) /\ Decided -> IF verdict # NoValue THEN verdict.result ELSE "draw"
    [] OTHER -> NoValue

MatchTermination(n) ==
  CASE n \in DOMAIN results ->
         IF results[n].termination = "crash" THEN "abandoned" ELSE results[n].termination
    [] Current(n) /\ Decided -> IF verdict # NoValue THEN verdict.termination ELSE "adjudicated"
    [] OTHER -> NoValue

M(n) == INSTANCE Match WITH status <- MatchStatus(n), ply <- MatchPly(n),
                            result <- MatchResult(n), termination <- MatchTermination(n)

\* Every game of the arena is a game chess_core.match allows: what decides
\* it on the server decides it here, in the same order, and what has been
\* decided is what is recorded.
PlaysAMatch ==
  /\ \A n \in 1..MaxGames : M(n)!Init
  /\ [][\A n \in 1..MaxGames : [M(n)!Next]_(M(n)!state)]_vars

\* The tournament ends, however its bots play: its games are bounded by the
\* cap and the strikes, and only a bot that returns nothing cuts it short.
Finishes == <>(phase \in {"done", "died"})
=============================================================================
