---------------------------- MODULE ArenaProofs ----------------------------
(***************************************************************************)
(* The theorems behind the runs of Arena, for any number of bots, games,   *)
(* clocks, ratings and restarts.  In order: the tables agree with each     *)
(* other and with the ticker's list after every transaction; what one step *)
(* may do to the row of one game, and what follows from it (limits,        *)
(* stamps, losses, the life cycle of match.py); the books, which are the   *)
(* ratings, the counters and rating_history.                               *)
(*                                                                         *)
(* The last part is about ClockLedger, one game's clock.  It is here for   *)
(* the lemmas on a row that begin the module, which Arena's theorems and   *)
(* the ledger's need alike.                                                *)
(***************************************************************************)
EXTENDS Arena, ClockLedger, FiniteSetTheorems, WellFoundedInduction, TLAPS

-----------------------------------------------------------------------------
(* Statements on a row: the type of what each leaves, and the columns it   *)
(* changes.                                                                *)

\* Converting to whole milliseconds and back loses less than one.
LEMMA RoundTripNs ==
  ASSUME NEW ns \in Int
  PROVE  /\ NsToMs(ns) \in Int
         /\ MsToNs(NsToMs(ns)) \in Int
         /\ MsToNs(NsToMs(ns)) <= ns
         /\ ns - (NsPerMs - 1) <= MsToNs(NsToMs(ns))
BY ClockAssumption, SMT DEF NsToMs, MsToNs

\* Converting whole milliseconds to nanoseconds and back is exact.
LEMMA RoundTripMs ==
  ASSUME NEW ms \in Int
  PROVE  MsToNs(ms) \in Int /\ NsToMs(MsToNs(ms)) = ms
BY ClockAssumption, SMT DEF NsToMs, MsToNs

\* A row inserted by the matchmaker.
LEMMA InsertGameType ==
  ASSUME NEW white \in BotId \cup {NoBot}, NEW black \in BotId \cup {NoBot},
         NEW rated \in {0, 1}, NEW now_mono \in Int
  PROVE  /\ InsertGame(white, black, rated, now_mono) \in Row
         /\ InsertGame(white, black, rated, now_mono) =
              [white_bot_id |-> white, black_bot_id |-> black, status |-> "pending",
               result |-> NoValue, termination |-> NoValue, ply |-> 0,
               to_move |-> "white", ms |-> [c \in Color |-> NsToMs(TimeControl)],
               to_move_since_mono |-> now_mono, turn_started_mono |-> NoTime,
               delivered_to_mover |-> 0, rated |-> rated,
               strikes |-> [c \in Color |-> 0]]
<1> DEFINE ms == [c \in Color |-> NsToMs(TimeControl)]
           strikes == [c \in Color |-> 0]
           clock == CreateClock(TimeControl, Increment, "white", now_mono)
           inserted == [white_bot_id |-> white, black_bot_id |-> black,
                        status |-> "pending", result |-> NoValue,
                        termination |-> NoValue, ply |-> 0, to_move |-> "white",
                        ms |-> ms, to_move_since_mono |-> now_mono,
                        turn_started_mono |-> NoTime, delivered_to_mover |-> 0,
                        rated |-> rated, strikes |-> strikes]
<1>1. [c \in Color |-> NsToMs(clock.ns[c])] = ms
  BY DEF CreateClock
<1>2. /\ clock.to_move = "white" /\ clock.to_move_since_mono = now_mono
      /\ clock.turn_started_mono = NoTime /\ clock.delivered_to_mover = 0
  BY DEF CreateClock
<1>3. ms \in [Color -> Int] /\ strikes \in [Color -> Nat]
  BY RowAssumption, RoundTripNs
<1>4. "white" \in Color /\ "pending" \in Status
  BY DEF Color, Status, NonTerminal
<1> HIDE DEF clock, ms
<1>5. InsertGame(white, black, rated, now_mono) =
        [[FreeRow EXCEPT !.white_bot_id = white, !.black_bot_id = black,
                         !.status = "pending", !.rated = rated]
          EXCEPT !.ms = ms, !.to_move = "white", !.to_move_since_mono = now_mono,
                 !.turn_started_mono = NoTime, !.delivered_to_mover = 0]
  BY <1>1, <1>2 DEF InsertGame, ClockToGameFields, clock
<1>6. FreeRow = [white_bot_id |-> NoBot, black_bot_id |-> NoBot, status |-> "free",
                 result |-> NoValue, termination |-> NoValue, ply |-> 0,
                 to_move |-> "white", ms |-> [c \in Color |-> 0],
                 to_move_since_mono |-> 0, turn_started_mono |-> NoTime,
                 delivered_to_mover |-> 0, rated |-> 0, strikes |-> strikes]
  BY DEF FreeRow
<1> HIDE DEF strikes
<1>7. InsertGame(white, black, rated, now_mono) = inserted
  BY <1>5, <1>6, ZenonT(60)
<1>8. inserted \in Row
  BY <1>3, <1>4 DEF Row
<1>9. QED
  BY <1>7, <1>8 DEF ms, strikes

LEMMA FreeRowType == FreeRow \in Row
BY DEF FreeRow, Row, Status, Color

LEMMA CasDeliverType ==
  ASSUME NEW row \in Row, NEW ply, NEW now_mono \in Int
  PROVE  CasDeliver(row, ply, now_mono) \in Row
BY ZenonT(60) DEF CasDeliver, Row, Status, NonTerminal

LEMMA CasAddStrikeType ==
  ASSUME NEW row \in Row, NEW c \in Color
  PROVE  CasAddStrike(row, c) \in Row
BY DEF CasAddStrike, Row

LEMMA CasTerminateType ==
  ASSUME NEW row \in Row, NEW status \in Terminal,
         NEW result \in Result \cup {NoValue}, NEW termination \in Termination
  PROVE  CasTerminate(row, status, result, termination) \in Row
<1> DEFINE rated == IF termination \in Rule1Unrates THEN 0 ELSE row.rated
<1>1. rated \in {0, 1}
  BY DEF Row
<1>2. CasTerminate(row, status, result, termination) =
        [row EXCEPT !.status = status, !.result = result, !.termination = termination,
                    !.rated = rated, !.delivered_to_mover = 0,
                    !.turn_started_mono = NoTime]
  BY DEF CasTerminate
<1> HIDE DEF rated
<1>3. status \in Status
  BY DEF Status
<1>4. QED
  BY <1>1, <1>2, <1>3, ZenonT(60) DEF Row

LEMMA AbortNonTerminalType ==
  ASSUME NEW row \in Row
  PROVE  AbortNonTerminal(row) \in Row
<1>1. "aborted" \in Status /\ "server_restart" \in Termination
  BY DEF Status, Terminal, Termination, Rule1Unrates
<1>2. QED
  BY <1>1 DEF AbortNonTerminal, Row

\* A move that is in time: the mover's clock is settled and rounded down, the
\* other's is untouched, and the turn passes undelivered.
Moved(row, now_mono) ==
  CasApplyMove(row, AccountMoveAndSwitch(ClockFromGame(row), now_mono, now_mono).new_clock)

LEMMA MovedRow ==
  ASSUME NEW row \in Row, NEW now_mono \in Int,
         row.turn_started_mono \in Int,
         ~HasFlagged(ClockFromGame(row), now_mono)
  PROVE  LET left == MsToNs(row.ms[row.to_move]) - (now_mono - row.turn_started_mono)
         IN /\ left \in Int /\ left > 0
            /\ NsToMs(left + MsToNs(NsToMs(Increment))) \in Int
            /\ Moved(row, now_mono) =
                 [row EXCEPT
                    !.ms[row.to_move] = NsToMs(left + MsToNs(NsToMs(Increment))),
                    !.to_move = OtherColor(row.to_move),
                    !.to_move_since_mono = now_mono,
                    !.turn_started_mono = NoTime,
                    !.delivered_to_mover = 0,
                    !.ply = @ + 1]
            /\ Moved(row, now_mono) \in Row
<1> DEFINE left == MsToNs(row.ms[row.to_move]) - (now_mono - row.turn_started_mono)
           clock == ClockFromGame(row)
           inc == MsToNs(NsToMs(Increment))
           new == AccountMoveAndSwitch(clock, now_mono, now_mono).new_clock
           settled == [row EXCEPT
                    !.ms[row.to_move] = NsToMs(left + inc),
                    !.to_move = OtherColor(row.to_move),
                    !.to_move_since_mono = now_mono,
                    !.turn_started_mono = NoTime,
                    !.delivered_to_mover = 0,
                    !.ply = @ + 1]
<1>1. /\ row.to_move \in Color /\ row.ms \in [Color -> Int] /\ row.ply \in Nat
      /\ row.turn_started_mono # NoTime
  BY ClockAssumption DEF Row
<1>2. left \in Int /\ inc \in Int
  BY <1>1, RoundTripMs, RoundTripNs, RowAssumption
<1>3. RemainingNs(clock, clock.to_move, now_mono) = left
  BY <1>1 DEF RemainingNs, ClockFromGame
<1>4. left > 0
  BY <1>2, <1>3 DEF HasFlagged
<1>5. NsToMs(left + inc) \in Int
  BY <1>2, RoundTripNs
<1>6. /\ clock.ns = [c \in Color |-> MsToNs(row.ms[c])]
      /\ clock.to_move = row.to_move
      /\ clock.increment_ns = inc
      /\ clock.turn_started_mono = row.turn_started_mono
      /\ DOMAIN clock = {"ns", "increment_ns", "to_move", "to_move_since_mono",
                         "turn_started_mono", "delivered_to_mover"}
  BY DEF ClockFromGame
<1> HIDE DEF clock, inc
<1>7. /\ new.ns = [c \in Color |-> IF c = row.to_move THEN left + inc ELSE MsToNs(row.ms[c])]
      /\ new.to_move = OtherColor(row.to_move)
      /\ new.to_move_since_mono = now_mono
      /\ new.turn_started_mono = NoTime
      /\ new.delivered_to_mover = 0
  <2> DEFINE remaining == clock.ns[clock.to_move] - (now_mono - clock.turn_started_mono)
             settledNs == IF remaining <= 0 THEN remaining
                                            ELSE remaining + clock.increment_ns
  <2>1. new = [clock EXCEPT !.ns = [clock.ns EXCEPT ![clock.to_move] = settledNs],
                            !.to_move = OtherColor(clock.to_move),
                            !.to_move_since_mono = now_mono,
                            !.turn_started_mono = NoTime,
                            !.delivered_to_mover = 0]
    BY Zenon DEF AccountMoveAndSwitch
  <2>2. remaining = left
    BY <1>1, <1>6
  <2> HIDE DEF left, remaining
  <2>3. settledNs = left + inc
    BY <1>2, <1>4, <1>6, <2>2
  <2> HIDE DEF settledNs
  <2>4. new = [clock EXCEPT !.ns[clock.to_move] = left + inc,
                            !.to_move = OtherColor(clock.to_move),
                            !.to_move_since_mono = now_mono,
                            !.turn_started_mono = NoTime,
                            !.delivered_to_mover = 0]
    BY <2>1, <2>3
  <2>5. QED
    BY <1>1, <1>6, <2>4
<1>8. [c \in Color |-> NsToMs(new.ns[c])] = [row.ms EXCEPT ![row.to_move] = NsToMs(left + inc)]
  BY <1>1, <1>7, RoundTripMs
<1>9. Moved(row, now_mono) = settled
  <2> HIDE DEF new, left
  <2>1. Moved(row, now_mono) =
          [[row EXCEPT !.ms = [row.ms EXCEPT ![row.to_move] = NsToMs(left + inc)],
                       !.to_move = OtherColor(row.to_move),
                       !.to_move_since_mono = now_mono,
                       !.turn_started_mono = NoTime,
                       !.delivered_to_mover = 0] EXCEPT !.ply = @ + 1]
    BY <1>7, <1>8 DEF Moved, CasApplyMove, ClockToGameFields, new, clock
  <2>2. QED
    BY <1>1, <2>1
<1>10. settled \in Row
  <2>1. OtherColor(row.to_move) \in Color
    BY DEF OtherColor, Color
  <2>2. [row.ms EXCEPT ![row.to_move] = NsToMs(left + inc)] \in [Color -> Int]
    BY <1>1, <1>5
  <2> DEFINE ms == [row.ms EXCEPT ![row.to_move] = NsToMs(left + inc)]
             turn == OtherColor(row.to_move)
             next == row.ply + 1
  <2> HIDE DEF left, ms, turn, next
  <2>3. settled = [row EXCEPT !.ms = ms, !.to_move = turn, !.to_move_since_mono = now_mono,
                              !.turn_started_mono = NoTime, !.delivered_to_mover = 0,
                              !.ply = next]
    BY DEF ms, turn, next
  <2>4. ms \in [Color -> Int] /\ turn \in Color /\ next \in Nat
    BY <1>1, <2>1, <2>2 DEF ms, turn, next
  <2> HIDE DEF settled
  <2>5. QED
    BY <1>1, <2>3, <2>4 DEF Row
<1>11. QED
  BY <1>2, <1>4, <1>5, <1>9, <1>10 DEF inc

-----------------------------------------------------------------------------
(* One row.                                                                *)

\* DeliveryShape and EndShape of one row, and the players of a game that
\* exists: two bots.
RowShape(row) ==
  /\ row.delivered_to_mover = 1 <=> row.turn_started_mono # NoTime
  /\ row.delivered_to_mover = 1 => row.status = "active"
  /\ row.status = "active" => row.ply > 0 \/ row.delivered_to_mover = 1
  /\ row.status = "pending" => row.ply = 0
  /\ row.status = "aborted" =>
       row.result = NoValue /\ row.rated = 0 /\ row.termination \in Rule1Unrates
  /\ row.status = "finished" =>
       row.result # NoValue /\ row.termination \notin Rule1Unrates \cup {NoValue}
  /\ row.status \in {"free"} \cup NonTerminal =>
       row.result = NoValue /\ row.termination = NoValue
  /\ row.status # "free" =>
       /\ row.white_bot_id \in BotId /\ row.black_bot_id \in BotId
       /\ row.white_bot_id # row.black_bot_id

SamePlayers(row, new) ==
  new.white_bot_id = row.white_bot_id /\ new.black_bot_id = row.black_bot_id

\* What a statement that goes on with a game leaves.
GoesOn(row, new) ==
  /\ new \in Row /\ RowShape(new) /\ IsLive(new)
  /\ SamePlayers(row, new)

LEMMA LiveGoesOn ==
  ASSUME NEW row \in Row, RowShape(row), IsLive(row)
  PROVE  GoesOn(row, row)
BY DEF GoesOn, SamePlayers

LEMMA DeliverGoesOn ==
  ASSUME NEW row \in Row, RowShape(row), IsLive(row), NEW now_mono \in Int
  PROVE  /\ GoesOn(row, CasDeliver(row, row.ply, now_mono))
         /\ CasDeliver(row, row.ply, now_mono).to_move = row.to_move
<1>1. CasDeliver(row, row.ply, now_mono) \in Row
  BY CasDeliverType
<1>2. CASE ~CanDeliver(row, row.ply)
  BY <1>2, LiveGoesOn DEF CasDeliver
<1>3. CASE CanDeliver(row, row.ply)
  <2> DEFINE new == [row EXCEPT !.turn_started_mono = now_mono,
                                !.delivered_to_mover = 1, !.status = "active"]
  <2>1. CasDeliver(row, row.ply, now_mono) = new
    BY <1>3 DEF CasDeliver
  <2>2. /\ new.turn_started_mono = now_mono /\ new.delivered_to_mover = 1
        /\ new.status = "active" /\ new.result = row.result
        /\ new.termination = row.termination /\ new.to_move = row.to_move
        /\ new.white_bot_id = row.white_bot_id /\ new.black_bot_id = row.black_bot_id
    BY DEF Row
  <2> HIDE DEF new
  <2>3. RowShape(new)
    BY <2>2, ClockAssumption DEF RowShape, IsLive, NonTerminal
  <2>4. QED
    BY <1>1, <2>1, <2>2, <2>3 DEF GoesOn, SamePlayers, IsLive, NonTerminal
<1>4. QED
  BY <1>2, <1>3

LEMMA StrikeGoesOn ==
  ASSUME NEW row \in Row, RowShape(row), IsLive(row), NEW c \in Color
  PROVE  GoesOn(row, CasAddStrike(row, c))
<1> DEFINE new == CasAddStrike(row, c)
<1>1. new \in Row
  BY CasAddStrikeType
<1>2. /\ new.turn_started_mono = row.turn_started_mono
      /\ new.delivered_to_mover = row.delivered_to_mover
      /\ new.status = row.status /\ new.ply = row.ply
      /\ new.result = row.result /\ new.termination = row.termination
      /\ new.white_bot_id = row.white_bot_id /\ new.black_bot_id = row.black_bot_id
  BY DEF CasAddStrike, Row
<1> HIDE DEF new
<1>3. RowShape(new)
  BY <1>2 DEF RowShape, IsLive, NonTerminal
<1>4. QED
  BY <1>1, <1>2, <1>3 DEF GoesOn, SamePlayers, IsLive, new

LEMMA MoveGoesOn ==
  ASSUME NEW row \in Row, RowShape(row), row.delivered_to_mover = 1,
         NEW now_mono \in Int, ~HasFlagged(ClockFromGame(row), now_mono)
  PROVE  GoesOn(row, Moved(row, now_mono))
<1> DEFINE left == MsToNs(row.ms[row.to_move]) - (now_mono - row.turn_started_mono)
           ms == NsToMs(left + MsToNs(NsToMs(Increment)))
           new == [row EXCEPT !.ms[row.to_move] = ms,
                              !.to_move = OtherColor(row.to_move),
                              !.to_move_since_mono = now_mono,
                              !.turn_started_mono = NoTime,
                              !.delivered_to_mover = 0,
                              !.ply = @ + 1]
<1>1. row.turn_started_mono \in Int
  BY DEF RowShape, Row
<1>2. Moved(row, now_mono) = new /\ Moved(row, now_mono) \in Row
  BY <1>1, MovedRow
<1> HIDE DEF ms
<1>3. /\ new.turn_started_mono = NoTime /\ new.delivered_to_mover = 0
      /\ new.status = row.status /\ new.ply = row.ply + 1
      /\ new.result = row.result /\ new.termination = row.termination
      /\ new.white_bot_id = row.white_bot_id /\ new.black_bot_id = row.black_bot_id
  BY DEF Row
<1>4. row.status = "active" /\ row.ply \in Nat
  BY DEF RowShape, Row
<1> HIDE DEF new
<1>5. RowShape(new)
  BY <1>3, <1>4 DEF RowShape, NonTerminal
<1>6. QED
  BY <1>2, <1>3, <1>4, <1>5 DEF GoesOn, SamePlayers, IsLive, NonTerminal

\* The ways a game may end, as the callers of _end_game_locked have them.
LegalEnd(status, result, termination) ==
  \/ /\ status = "aborted" /\ result = NoValue
     /\ termination \in Rule1Unrates
  \/ /\ status = "finished" /\ result \in Result
     /\ termination \in Termination \ Rule1Unrates

LEMMA TerminateShape ==
  ASSUME NEW row \in Row, RowShape(row), IsLive(row),
         NEW status, NEW result, NEW termination,
         LegalEnd(status, result, termination)
  PROVE  LET new == CasTerminate(row, status, result, termination)
         IN /\ new \in Row /\ RowShape(new) /\ new.status = status
            /\ new.rated = IF termination \in Rule1Unrates THEN 0 ELSE row.rated
            /\ SamePlayers(row, new)
<1> DEFINE new == CasTerminate(row, status, result, termination)
<1>1. /\ status \in Terminal /\ result \in Result \cup {NoValue}
      /\ termination \in Termination
  BY DEF LegalEnd, Terminal, Termination
<1>2. new \in Row
  BY <1>1, CasTerminateType
<1>3. /\ new.turn_started_mono = NoTime /\ new.delivered_to_mover = 0
      /\ new.status = status /\ new.result = result /\ new.termination = termination
      /\ new.rated = IF termination \in Rule1Unrates THEN 0 ELSE row.rated
      /\ new.white_bot_id = row.white_bot_id /\ new.black_bot_id = row.black_bot_id
  BY DEF CasTerminate, Row
<1> HIDE DEF new
<1>4. /\ row.white_bot_id \in BotId /\ row.black_bot_id \in BotId
      /\ row.white_bot_id # row.black_bot_id
  BY DEF RowShape, IsLive, NonTerminal
<1>5. RowShape(new)
  <2>1. CASE status = "aborted"
    BY <1>3, <1>4, <2>1 DEF RowShape, LegalEnd, NonTerminal
  <2>2. CASE status = "finished"
    BY <1>3, <1>4, <2>2, RowAssumption DEF RowShape, LegalEnd, NonTerminal
  <2>3. QED
    BY <2>1, <2>2 DEF LegalEnd
<1>6. QED
  BY <1>2, <1>3, <1>5 DEF new, SamePlayers

-----------------------------------------------------------------------------
(* Rating.                                                                 *)

LEMMA GainType ==
  ASSUME NEW diff \in Int
  PROVE  WinGain(diff) \in Int /\ DrawGain(diff) \in Int /\ LossGain(diff) \in Int
<1> DEFINE S == {k \in 1..K_FACTOR : diff <= Threshold[k]}
<1>1. IsFiniteSet(1..K_FACTOR)
  <2>1. K_FACTOR \in Int
    BY DEF K_FACTOR
  <2>2. QED
    BY <2>1, FS_Interval
<1>2. IsFiniteSet(S)
  BY <1>1, FS_Subset
<1>3. Cardinality(S) \in Nat
  BY <1>2, FS_CardinalityType
<1>4. WinGain(diff) \in Int
  BY <1>3 DEF WinGain
<1>5. K_FACTOR = 24 /\ K_FACTOR \div 2 \in Int
  BY DEF K_FACTOR
<1>6. QED
  BY <1>4, <1>5 DEF DrawGain, LossGain

BotsTyped == bots \in [BotId -> BotRow]

LEMMA OutcomeIsOne ==
  ASSUME NEW row, NEW b, NEW result
  PROVE  OutcomeFor(row, b, result) \in {"win", "draw", "loss"}
BY DEF OutcomeFor

\* Competitors get a delta and anchors none; two competitors exchange points.
LEMMA DeltasType ==
  ASSUME BotsTyped, NEW row \in Row, NEW result,
         row.white_bot_id \in BotId, row.black_bot_id \in BotId,
         row.white_bot_id # row.black_bot_id
  PROVE  LET deltas == RatingDeltas(row, result)
         IN /\ DOMAIN deltas = Players(row) \ Anchor
            /\ \A b \in Players(row) \ Anchor : deltas[b] \in Int
            /\ \A b, c \in Players(row) \ Anchor : b # c => deltas[b] + deltas[c] = 0
<1> DEFINE white == row.white_bot_id
           black == row.black_bot_id
           deltas == RatingDeltas(row, result)
           Opponent(b) == IF b = white THEN black ELSE white
           loser == IF result = "white_win" THEN black ELSE white
           winner == IF result = "white_win" THEN white ELSE black
<1>1. \A b \in BotId : bots[b].rating \in Int
  BY DEF BotsTyped, BotRow
<1>2. Players(row) = {white, black}
  BY DEF Players
<1>3. CASE Players(row) \cap Anchor # {}
  <2>1. deltas = [b \in Players(row) \ Anchor |->
                    OneSidedExchange(bots[b].rating, bots[Opponent(b)].rating,
                                     OutcomeFor(row, b, result))]
    BY <1>3 DEF RatingDeltas
  <2>2. ASSUME NEW b \in Players(row) \ Anchor
        PROVE  OneSidedExchange(bots[b].rating, bots[Opponent(b)].rating,
                                OutcomeFor(row, b, result)) \in Int
    <3>1. bots[b].rating \in Int /\ bots[Opponent(b)].rating \in Int
      BY <1>1, <1>2
    <3> DEFINE diff == bots[b].rating - bots[Opponent(b)].rating
               outcome == OutcomeFor(row, b, result)
    <3>2. WinGain(diff) \in Int /\ DrawGain(diff) \in Int /\ LossGain(diff) \in Int
      BY <3>1, GainType
    <3>3. outcome \in {"win", "draw", "loss"}
      BY OutcomeIsOne
    <3> HIDE DEF outcome
    <3>4. OneSidedExchange(bots[b].rating, bots[Opponent(b)].rating, outcome) \in Int
      BY <3>2, <3>3 DEF OneSidedExchange
    <3>5. QED
      BY <3>4 DEF outcome
  <2>3. \A b, c \in Players(row) \ Anchor : b = c
    BY <1>2, <1>3
  <2> HIDE DEF deltas
  <2>4. DOMAIN deltas = Players(row) \ Anchor /\ \A b \in Players(row) \ Anchor : deltas[b] \in Int
    BY <2>1, <2>2
  <2>5. QED
    BY <2>3, <2>4 DEF deltas
<1>4. CASE Players(row) \cap Anchor = {}
  <2>1. Players(row) \ Anchor = {white, black}
    BY <1>2, <1>4
  <2>2. CASE result = "draw"
    <3> DEFINE gain == DrawGain(bots[white].rating - bots[black].rating)
    <3>1. gain \in Int
      BY <1>1, GainType
    <3>2. deltas = [b \in Players(row) |-> IF b = white THEN gain ELSE -gain]
      BY <1>4, <2>2 DEF RatingDeltas, DrawExchange
    <3> HIDE DEF gain, deltas
    <3>3. DOMAIN deltas = {white, black} /\ deltas[white] = gain /\ deltas[black] = -gain
      BY <1>2, <3>2
    <3>4. gain + (-gain) = 0 /\ (-gain) + gain = 0 /\ -gain \in Int
      BY <3>1
    <3>5. QED
      BY <2>1, <3>1, <3>3, <3>4 DEF deltas
  <2>3. CASE result # "draw"
    <3> DEFINE gain == WinGain(bots[winner].rating - bots[loser].rating)
    <3>1. gain \in Int
      BY <1>1, GainType
    <3>2. deltas = [b \in Players(row) |-> IF b = winner THEN gain ELSE -gain]
      BY <1>4, <2>3 DEF RatingDeltas, RatingExchange
    <3> HIDE DEF gain, deltas
    <3>3. DOMAIN deltas = {white, black} /\ deltas[winner] = gain /\ deltas[loser] = -gain
      BY <1>2, <3>2
    <3>4. gain + (-gain) = 0 /\ (-gain) + gain = 0 /\ -gain \in Int
      BY <3>1
    <3>5. {white, black} = {winner, loser}
      OBVIOUS
    <3> HIDE DEF winner, loser
    <3>6. QED
      BY <2>1, <3>1, <3>3, <3>4, <3>5 DEF deltas
  <2>4. QED
    BY <2>2, <2>3
<1>5. QED
  BY <1>3, <1>4

LEMMA CountResultType ==
  ASSUME NEW bot \in BotRow, NEW delta \in Int, NEW outcome
  PROVE  CountResult(bot, delta, outcome) \in BotRow
<1> DEFINE rating == bot.rating + delta
           wins == IF outcome = "win" THEN bot.wins + 1 ELSE bot.wins
           losses == IF outcome = "loss" THEN bot.losses + 1 ELSE bot.losses
           draws == IF outcome = "draw" THEN bot.draws + 1 ELSE bot.draws
           played == bot.games_played + 1
<1>1. /\ rating \in Int /\ wins \in Nat /\ losses \in Nat /\ draws \in Nat
      /\ played \in Nat
  BY DEF BotRow
<1> HIDE DEF rating, wins, losses, draws, played
<1>2. CountResult(bot, delta, outcome) =
        [bot EXCEPT !.rating = rating, !.wins = wins, !.losses = losses,
                    !.draws = draws, !.games_played = played]
  BY Zenon DEF CountResult, rating, wins, losses, draws, played
<1>3. QED
  BY <1>1, <1>2, ZenonT(60) DEF BotRow

LEMMA RememberGameType ==
  ASSUME NEW bot \in BotRow, NEW row \in Row, NEW b \in BotId
  PROVE  RememberGame(bot, row, b) \in BotRow
<1> DEFINE colour == IF b = row.white_bot_id THEN "white" ELSE "black"
           opponent == IF b = row.white_bot_id THEN row.black_bot_id ELSE row.white_bot_id
           whites == IF b = row.white_bot_id THEN bot.white_count + 1 ELSE bot.white_count
<1>1. /\ colour \in Color /\ opponent \in BotId \cup {NoBot} /\ whites \in Nat
  BY DEF BotRow, Row, Color
<1> HIDE DEF colour, opponent, whites
<1>2. RememberGame(bot, row, b) =
        [bot EXCEPT !.last_color = colour, !.last_opponent_id = opponent,
                    !.white_count = whites]
  BY Zenon DEF RememberGame, colour, opponent, whites
<1>3. QED
  BY <1>1, <1>2, ZenonT(60) DEF BotRow

-----------------------------------------------------------------------------
(* The tables.                                                             *)

TablesOK ==
  /\ BotsTyped
  /\ games \in [GameId -> Row]
  /\ seats \in [BotId -> GameId \cup {NoGame}]
  /\ ratingHistory \in SUBSET HistoryRow
  /\ \A g \in GameId : RowShape(games[g])
  /\ SeatIffLive
  /\ RatedExactlyOnce
  /\ ZeroSum

OthersKept(g) == \A h \in GameId : h # g => games'[h] = games[h]

\* Who has rows in rating_history for a game.
Paid(row) == IF row.status = "finished" /\ row.rated = 1 THEN Players(row) \ Anchor ELSE {}

\* A statement that goes on with a live game keeps the tables in step.
LEMMA OnlyGameOK ==
  ASSUME TablesOK, NEW g \in GameId, IsLive(games[g]),
         NEW row, GoesOn(games[g], row), OnlyGame(g, row)
  PROVE  TablesOK' /\ OthersKept(g)
<1>1. /\ games' = [games EXCEPT ![g] = row] /\ row \in Row /\ RowShape(row)
      /\ IsLive(row) /\ Players(row) = Players(games[g])
      /\ bots' = bots /\ seats' = seats /\ ratingHistory' = ratingHistory
  BY DEF OnlyGame, GoesOn, SamePlayers, Players
<1>2. /\ games' \in [GameId -> Row] /\ games'[g] = row
      /\ \A h \in GameId : h # g => games'[h] = games[h]
  BY <1>1 DEF TablesOK
<1>3. \A h \in GameId : RowShape(games'[h])
  BY <1>1, <1>2 DEF TablesOK
<1>4. SeatIffLive'
  BY <1>1, <1>2 DEF TablesOK, SeatIffLive
<1>5. \A h \in GameId : Paid(games'[h]) = Paid(games[h])
  BY <1>1, <1>2 DEF Paid, IsLive, NonTerminal
<1>6. RatedExactlyOnce'
  BY <1>1, <1>5 DEF TablesOK, RatedExactlyOnce, Paid
<1>7. QED
  BY <1>1, <1>2, <1>3, <1>4, <1>6 DEF TablesOK, BotsTyped, ZeroSum, OthersKept

\* Ending a live game keeps the tables in step: its seats are freed, its
\* players remember it, and it is rated here or never.
LEMMA EndGameOK ==
  ASSUME TablesOK, NEW g \in GameId, IsLive(games[g]),
         NEW row, GoesOn(games[g], row),
         NEW status, NEW result, NEW termination,
         LegalEnd(status, result, termination),
         EndGame(g, row, status, result, termination)
  PROVE  TablesOK' /\ OthersKept(g)
<1> DEFINE new == CasTerminate(row, status, result, termination)
           rated == IsRated(row, result, termination)
           deltas == IF rated THEN RatingDeltas(row, result) ELSE <<>>
           DeltaOf(b) == IF b \in DOMAIN deltas THEN deltas[b] ELSE 0
           Counted(b) == IF result = NoValue THEN bots[b]
                         ELSE CountResult(bots[b], DeltaOf(b), OutcomeFor(row, b, result))
           HistoryOf(b) == [bot_id |-> b, game_id |-> g, rating_before |-> bots[b].rating,
                            rating_after |-> bots[b].rating + deltas[b],
                            delta |-> deltas[b]]
<1>1. /\ row \in Row /\ RowShape(row) /\ IsLive(row) /\ Players(row) = Players(games[g])
      /\ row.white_bot_id \in BotId /\ row.black_bot_id \in BotId
      /\ row.white_bot_id # row.black_bot_id
  BY DEF GoesOn, SamePlayers, Players, RowShape, IsLive, NonTerminal
<1>2. /\ new \in Row /\ RowShape(new) /\ new.status = status
      /\ new.rated = IF termination \in Rule1Unrates THEN 0 ELSE row.rated
      /\ Players(new) = Players(row)
  BY <1>1, TerminateShape DEF SamePlayers, Players
<1>3. /\ games' = [games EXCEPT ![g] = new]
      /\ bots' = [b \in BotId |-> IF b \in Players(row)
                                  THEN RememberGame(Counted(b), row, b)
                                  ELSE bots[b]]
      /\ ratingHistory' = ratingHistory \cup {HistoryOf(b) : b \in DOMAIN deltas}
      /\ seats' = [b \in BotId |-> IF seats[b] = g THEN NoGame ELSE seats[b]]
  BY Zenon DEF EndGame
<1>4. /\ DOMAIN deltas = IF rated THEN Players(row) \ Anchor ELSE {}
      /\ \A b \in DOMAIN deltas : deltas[b] \in Int
      /\ \A b, c \in DOMAIN deltas : b # c => deltas[b] + deltas[c] = 0
  <2>1. CASE rated
    BY <1>1, <2>1, DeltasType DEF TablesOK
  <2>2. CASE ~rated
    BY <2>2
  <2>3. QED
    BY <2>1, <2>2
<1>5. Paid(new) = DOMAIN deltas
  <2>1. CASE status = "aborted"
    BY <1>2, <1>4, <2>1 DEF Paid, IsRated, LegalEnd
  <2>2. CASE status = "finished"
    BY <1>2, <1>4, <2>2, RowAssumption DEF Paid, IsRated, LegalEnd
  <2>3. QED
    BY <2>1, <2>2 DEF LegalEnd
<1>6. DOMAIN deltas \subseteq BotId
  BY <1>1, <1>4 DEF Players
<1>7. \A b \in BotId : bots[b] \in BotRow /\ bots[b].rating \in Int
  BY DEF TablesOK, BotsTyped, BotRow
<1> HIDE DEF new, rated, deltas
<1>8. \A b \in BotId : Counted(b) \in BotRow
  <2> SUFFICES ASSUME NEW b \in BotId PROVE Counted(b) \in BotRow
    OBVIOUS
  <2>1. DeltaOf(b) \in Int
    BY <1>4
  <2> HIDE DEF DeltaOf
  <2>2. QED
    BY <1>7, <2>1, CountResultType
<1> HIDE DEF Counted
<1>9. BotsTyped'
  BY <1>1, <1>3, <1>7, <1>8, RememberGameType DEF BotsTyped
<1>10. /\ games' \in [GameId -> Row] /\ games'[g] = new
       /\ \A h \in GameId : h # g => games'[h] = games[h]
  BY <1>2, <1>3 DEF TablesOK
<1>11. \A h \in GameId : RowShape(games'[h])
  BY <1>2, <1>10 DEF TablesOK
<1>12. ~IsLive(new)
  BY <1>2 DEF LegalEnd, IsLive, NonTerminal
<1>13. seats' \in [BotId -> GameId \cup {NoGame}] /\ SeatIffLive'
  <2>1. seats' \in [BotId -> GameId \cup {NoGame}]
    BY <1>3 DEF TablesOK
  <2>2. ASSUME NEW b \in BotId, NEW h \in GameId
        PROVE  seats'[b] = h <=> IsLive(games'[h]) /\ b \in Players(games'[h])
    <3>1. seats'[b] = IF seats[b] = g THEN NoGame ELSE seats[b]
      BY <1>3
    <3>2. NoGame # h
      BY ArenaAssumption
    <3>3. CASE h = g
      BY <1>10, <1>12, <3>1, <3>2, <3>3
    <3>4. CASE h # g
      BY <1>10, <3>1, <3>2, <3>4 DEF TablesOK, SeatIffLive
    <3>5. QED
      BY <3>3, <3>4
  <2>3. QED
    BY <2>1, <2>2 DEF SeatIffLive
<1>14. \A b \in DOMAIN deltas :
         /\ HistoryOf(b) \in HistoryRow
         /\ HistoryOf(b).bot_id = b /\ HistoryOf(b).game_id = g
         /\ HistoryOf(b).delta = deltas[b]
  BY <1>4, <1>6, <1>7 DEF HistoryRow
<1>15. \A h \in ratingHistory : h.game_id # g
  <2>1. {h.bot_id : h \in {x \in ratingHistory : x.game_id = g}} = {}
    BY DEF TablesOK, RatedExactlyOnce, IsLive, NonTerminal
  <2>2. QED
    BY <2>1
<1> HIDE DEF HistoryOf
<1>16. ratingHistory' \in SUBSET HistoryRow
  BY <1>3, <1>14 DEF TablesOK
<1>17. RatedExactlyOnce'
  <2> SUFFICES ASSUME NEW k \in GameId
               PROVE  /\ {h.bot_id : h \in {x \in ratingHistory' : x.game_id = k}} =
                           Paid(games'[k])
                      /\ \A h1, h2 \in {x \in ratingHistory' : x.game_id = k} :
                           h1.bot_id = h2.bot_id => h1 = h2
    BY DEF RatedExactlyOnce, Paid
  <2>1. CASE k = g
    <3>1. {x \in ratingHistory' : x.game_id = k} = {HistoryOf(b) : b \in DOMAIN deltas}
      BY <1>3, <1>14, <1>15, <2>1
    <3>2. QED
      BY <1>5, <1>10, <1>14, <2>1, <3>1
  <2>2. CASE k # g
    <3>1. {x \in ratingHistory' : x.game_id = k} = {x \in ratingHistory : x.game_id = k}
      BY <1>3, <1>14, <2>2
    <3>2. games'[k] = games[k]
      BY <1>10, <2>2
    <3>3. QED
      BY <3>1, <3>2 DEF TablesOK, RatedExactlyOnce, Paid
  <2>3. QED
    BY <2>1, <2>2
<1>18. ZeroSum'
  <2> SUFFICES ASSUME NEW h1 \in ratingHistory', NEW h2 \in ratingHistory',
                      h1.game_id = h2.game_id, h1.bot_id # h2.bot_id
               PROVE  h1.delta + h2.delta = 0
    BY DEF ZeroSum
  <2>1. CASE h1.game_id = g
    <3>1. PICK b \in DOMAIN deltas : h1 = HistoryOf(b)
      BY <1>3, <1>15, <2>1
    <3>2. PICK c \in DOMAIN deltas : h2 = HistoryOf(c)
      BY <1>3, <1>15, <2>1
    <3>3. QED
      BY <1>4, <1>14, <3>1, <3>2
  <2>2. CASE h1.game_id # g
    <3>1. h1 \in ratingHistory /\ h2 \in ratingHistory
      BY <1>3, <1>14, <2>2
    <3>2. QED
      BY <3>1 DEF TablesOK, ZeroSum
  <2>3. QED
    BY <2>1, <2>2
<1>19. QED
  BY <1>9, <1>10, <1>11, <1>13, <1>16, <1>17, <1>18 DEF TablesOK, OthersKept

\* The result that goes against a side.
LEMMA OppositeWinType ==
  ASSUME NEW c
  PROVE  OppositeWin(c) \in Result
BY DEF OppositeWin, Result

\* The two things a statement of the engine does to a live game.
Continues(g) == \E row : GoesOn(games[g], row) /\ OnlyGame(g, row)

Concludes(g) ==
  \E row, status, result, termination :
    /\ GoesOn(games[g], row)
    /\ LegalEnd(status, result, termination)
    /\ EndGame(g, row, status, result, termination)

\* A submission, whichever of its ends it has.
LEMMA SubmissionIs ==
  ASSUME TablesOK, now \in Int, NEW g \in GameId,
         MoveTooLate(g) \/ MoveRejected(g) \/ MoveAccepted(g)
  PROVE  IsLive(games[g]) /\ (Continues(g) \/ Concludes(g))
<1>1. games[g] \in Row /\ RowShape(games[g])
  BY DEF TablesOK
<1>2. IsLive(games[g]) /\ games[g].delivered_to_mover = 1
  BY DEF MoveTooLate, MoveRejected, MoveAccepted, InTime, Submitted
<1>3. CASE MoveTooLate(g)
  <2>1. LegalEnd("finished", OppositeWin(games[g].to_move), "flag")
    BY OppositeWinType DEF LegalEnd, Termination, Rule1Unrates
  <2>2. QED
    BY <1>1, <1>2, <1>3, <2>1, LiveGoesOn DEF MoveTooLate, FinaliseGame, Concludes
<1>4. CASE MoveRejected(g)
  <2> DEFINE mover == games[g].to_move
             struck == CasAddStrike(games[g], mover)
  <2>1. GoesOn(games[g], struck)
    BY <1>1, <1>2, StrikeGoesOn DEF Row
  <2>2. LegalEnd("finished", OppositeWin(mover), "illegal_forfeit")
    BY OppositeWinType DEF LegalEnd, Termination, Rule1Unrates
  <2>3. \/ EndGame(g, struck, "finished", OppositeWin(mover), "illegal_forfeit")
        \/ OnlyGame(g, struck)
    BY <1>4 DEF MoveRejected, ForfeitGame
  <2> HIDE DEF struck
  <2>4. QED
    BY <1>2, <2>1, <2>2, <2>3 DEF Continues, Concludes
<1>5. CASE MoveAccepted(g)
  <2> DEFINE moved == Moved(games[g], now)
  <2>1. GoesOn(games[g], moved)
    BY <1>1, <1>2, <1>5, MoveGoesOn DEF MoveAccepted, InTime
  <2>2. PICK end \in MoveEnd :
          IF end.is_terminal
          THEN FinaliseGame(g, moved,
                 IF end.termination = "checkmate"
                 THEN OppositeWin(moved.to_move) ELSE "draw",
                 end.termination)
          ELSE IF moved.ply >= PlyCap
          THEN FinaliseGame(g, moved, "draw", "adjudicated")
          ELSE OnlyGame(g, moved)
    BY <1>5, Zenon DEF MoveAccepted, Moved
  <2> HIDE DEF moved
  <2>3. CASE end.is_terminal
    <3> DEFINE result == IF end.termination = "checkmate"
                         THEN OppositeWin(moved.to_move) ELSE "draw"
    <3>1. end.termination \in {"checkmate"} \cup DrawRules
      BY <2>3 DEF MoveEnd
    <3>2. result \in Result
      BY OppositeWinType DEF Result
    <3>3. EndGame(g, moved, "finished", result, end.termination)
      BY <2>2, <2>3 DEF FinaliseGame
    <3> HIDE DEF result
    <3>4. LegalEnd("finished", result, end.termination)
      BY <3>1, <3>2, RowAssumption DEF LegalEnd, Termination, Rule1Unrates
    <3>5. QED
      BY <1>2, <2>1, <3>3, <3>4 DEF Concludes
  <2>4. CASE ~end.is_terminal
    <3>1. LegalEnd("finished", "draw", "adjudicated")
      BY DEF LegalEnd, Termination, Rule1Unrates, Result
    <3>2. \/ EndGame(g, moved, "finished", "draw", "adjudicated")
          \/ OnlyGame(g, moved)
      BY <2>2, <2>4 DEF FinaliseGame
    <3>3. QED
      BY <1>2, <2>1, <3>1, <3>2 DEF Continues, Concludes
  <2>5. QED
    BY <2>3, <2>4
<1>6. QED
  BY <1>2, <1>3, <1>4, <1>5

LEMMA SubmissionOK ==
  ASSUME TablesOK, now \in Int, NEW g \in GameId,
         MoveTooLate(g) \/ MoveRejected(g) \/ MoveAccepted(g)
  PROVE  TablesOK' /\ OthersKept(g) /\ IsLive(games[g])
<1>1. IsLive(games[g]) /\ (Continues(g) \/ Concludes(g))
  BY SubmissionIs
<1>2. CASE Continues(g)
  BY <1>1, <1>2, OnlyGameOK DEF Continues
<1>3. CASE Concludes(g)
  BY <1>1, <1>3, EndGameOK DEF Concludes
<1>4. QED
  BY <1>1, <1>2, <1>3

-----------------------------------------------------------------------------
(* The inductive invariant.                                                *)

\* Where the ticker stands: outside its sweeps it has no list, an anchor that
\* is choosing is choosing for a game of the list, and nobody in the snapshot
\* that pairs has been seated since.
TickShape ==
  /\ tick.pc \in {"asleep", "waiting", "matchmaking"} => tick.todo = {}
  /\ tick.pc = "matchmaking" => \A b \in tick.pool : seats[b] = NoGame
  /\ tick.pc = "choosing" => tick.todo # {}
  /\ SweepListsFresh

IInv ==
  /\ TypeOK
  /\ \A g \in GameId : RowShape(games[g])
  /\ SeatIffLive
  /\ RatedExactlyOnce
  /\ ZeroSum
  /\ TickShape

LEMMA TablesOfIInv == IInv => TablesOK
BY DEF IInv, TablesOK, TypeOK, BotsTyped

LEMMA InitOK == Init => IInv
<1> SUFFICES ASSUME Init PROVE IInv
  OBVIOUS
<1>1. FreeRow \in Row
  BY FreeRowType
<1>2. /\ FreeRow.status = "free" /\ FreeRow.delivered_to_mover = 0
      /\ FreeRow.turn_started_mono = NoTime /\ FreeRow.result = NoValue
      /\ FreeRow.termination = NoValue
  BY DEF FreeRow
<1>3. RowShape(FreeRow) /\ ~IsLive(FreeRow)
  BY <1>2 DEF RowShape, IsLive, NonTerminal
<1>4. ASSUME NEW b \in BotId PROVE InsertBot(b, "server") \in BotRow
  <2> DEFINE rating == IF b \in Anchor THEN AnchorRating[b] ELSE STARTING_RATING
  <2>1. rating \in Int
    BY ArenaAssumption DEF STARTING_RATING
  <2> HIDE DEF rating
  <2>2. InsertBot(b, "server") =
          [owner |-> "server", rating |-> rating,
           wins |-> 0, losses |-> 0, draws |-> 0, games_played |-> 0,
           last_poll_mono |-> NoTime, last_color |-> NoValue,
           last_opponent_id |-> NoBot, white_count |-> 0]
    BY DEF InsertBot, rating
  <2>3. QED
    BY <2>1, <2>2 DEF BotRow
<1>5. now \in Nat
  BY ArenaAssumption DEF Init
<1>6. TypeOK
  <2>1. tick \in [pc : TickPc, started : Int, pool : SUBSET BotId, todo : SUBSET GameId]
    BY <1>5 DEF Init, TickPc
  <2>2. bots \in [BotId -> BotRow] /\ games \in [GameId -> Row]
    BY <1>1, <1>4 DEF Init
  <2>3. QED
    BY <1>5, <2>1, <2>2, ArenaAssumption DEF Init, TypeOK
<1>7. SeatIffLive
  BY <1>3, ArenaAssumption DEF Init, SeatIffLive
<1>8. RatedExactlyOnce /\ ZeroSum
  BY <1>2 DEF Init, RatedExactlyOnce, ZeroSum
<1>9. TickShape
  BY DEF Init, TickShape, SweepListsFresh
<1>10. QED
  BY <1>3, <1>6, <1>7, <1>8, <1>9 DEF Init, IInv

\* A list ordered by id has a first entry.
LEMMA LeastId ==
  ASSUME NEW S \in SUBSET Nat, S # {}
  PROVE  \E g \in S : \A h \in S : g <= h
<1> DEFINE R == OpToRel(<, Nat)
<1>1. \A g, h \in Nat : h < g => <<h, g>> \in R
  BY SMT DEF OpToRel
<1>2. IsWellFoundedOn(R, Nat)
  BY NatLessThanWellFounded, Zenon
<1> HIDE DEF R
<1>3. PICK g \in S : \A h \in S : ~(<<h, g>> \in R)
  BY <1>2, WFMin
<1>4. \A h \in S : ~(h < g)
  BY <1>1, <1>3
<1>5. QED
  BY <1>4

LEMMA ListedGame ==
  ASSUME TypeOK, tick.todo # {}
  PROVE  NextUnit \in tick.todo /\ NextUnit \in GameId
<1>1. tick.todo \subseteq GameId /\ GameId \subseteq Nat
  BY ArenaAssumption DEF TypeOK
<1>2. \E g \in tick.todo : \A h \in tick.todo : g <= h
  BY <1>1, LeastId
<1>3. QED
  BY <1>1, <1>2 DEF NextUnit

\* A request leaves the ticker where it is, outside its transaction.
LEMMA RequestOK ==
  ASSUME IInv, Request, TablesOK', registered' \in SUBSET BotId, paused' = paused
  PROVE  IInv'
<1>1. tick.pc \in {"asleep", "waiting"} /\ tick' = tick /\ now' = now
  BY DEF Request, HoldsLock
<1>2. TypeOK'
  BY <1>1 DEF IInv, TypeOK, TablesOK, BotsTyped
<1>3. TickShape'
  BY <1>1 DEF IInv, TickShape, SweepListsFresh
<1>4. QED
  BY <1>2, <1>3 DEF IInv, TablesOK

\* A unit of a sweep writes at most the game it is for.
LEMMA UnitOK ==
  ASSUME IInv, tick.todo # {}, TablesOK', OthersKept(NextUnit),
         NEW pc, UnitDone(pc), <<tick.pc, pc>> \in
           {<<"anchors", "anchors">>, <<"choosing", "anchors">>,
            <<"grace", "grace">>, <<"flag", "flag">>},
         UNCHANGED <<registered, paused, now>>
  PROVE  IInv'
<1>1. /\ tick \in [pc : TickPc, started : Int, pool : SUBSET BotId, todo : SUBSET GameId]
      /\ NextUnit \in tick.todo
  BY ListedGame DEF IInv, TypeOK
<1>2. /\ tick' = [tick EXCEPT !.pc = pc, !.todo = @ \ {NextUnit}]
      /\ pc \in {"anchors", "grace", "flag"}
  BY DEF UnitDone
<1>3. /\ tick'.pc = pc /\ tick'.todo = tick.todo \ {NextUnit}
      /\ tick' \in [pc : TickPc, started : Int, pool : SUBSET BotId, todo : SUBSET GameId]
  BY <1>1, <1>2 DEF TickPc
<1>4. TypeOK'
  BY <1>3 DEF IInv, TypeOK, TablesOK, BotsTyped
<1>5. \A g \in tick'.todo : g \in tick.todo /\ games'[g] = games[g]
  BY <1>1, <1>3 DEF OthersKept
<1>6. SweepListsFresh'
  BY <1>3, <1>5 DEF IInv, TickShape, SweepListsFresh
<1>7. TickShape'
  BY <1>2, <1>3, <1>6 DEF TickShape
<1>8. QED
  BY <1>4, <1>7 DEF IInv, TablesOK

\* A step of the ticker that writes no table.
LEMMA TickOnlyOK ==
  ASSUME IInv, tick' \in [pc : TickPc, started : Int, pool : SUBSET BotId, todo : SUBSET GameId],
         TickShape',
         UNCHANGED <<registered, bots, games, seats, ratingHistory, paused, now>>
  PROVE  IInv'
BY DEF IInv, TypeOK, SeatIffLive, RatedExactlyOnce, ZeroSum

-----------------------------------------------------------------------------
(* Requests.                                                               *)

\* The columns of bots that no other table depends on.
LEMMA BotsOnlyOK ==
  ASSUME TablesOK, BotsTyped', UNCHANGED <<games, seats, ratingHistory>>
  PROVE  TablesOK'
BY DEF TablesOK, SeatIffLive, RatedExactlyOnce, ZeroSum

LEMMA RegisterBotOK ==
  ASSUME IInv, NEW b \in BotId, RegisterBot(b)
  PROVE  IInv'
<1>1. PICK owner \in Owner : bots' = [bots EXCEPT ![b] = InsertBot(b, owner)]
  BY DEF RegisterBot
<1> DEFINE rating == IF b \in Anchor THEN AnchorRating[b] ELSE STARTING_RATING
<1>2. rating \in Int
  BY ArenaAssumption DEF STARTING_RATING
<1> HIDE DEF rating
<1>3. InsertBot(b, owner) =
        [owner |-> owner, rating |-> rating,
         wins |-> 0, losses |-> 0, draws |-> 0, games_played |-> 0,
         last_poll_mono |-> NoTime, last_color |-> NoValue,
         last_opponent_id |-> NoBot, white_count |-> 0]
  BY DEF InsertBot, rating
<1>4. InsertBot(b, owner) \in BotRow
  BY <1>2, <1>3 DEF BotRow
<1>5. BotsTyped'
  BY <1>1, <1>4 DEF IInv, TypeOK, BotsTyped
<1>6. TablesOK'
  BY <1>5, TablesOfIInv, BotsOnlyOK DEF RegisterBot
<1>7. QED
  BY <1>6, RequestOK DEF RegisterBot, IInv, TypeOK

LEMMA RecordPollOK ==
  ASSUME IInv, NEW b \in BotId, RecordPoll(b)
  PROVE  IInv'
<1>1. bots \in [BotId -> BotRow] /\ now \in Int
  BY DEF IInv, TypeOK
<1>2. [bots[b] EXCEPT !.last_poll_mono = now] \in BotRow
  BY <1>1 DEF BotRow
<1>3. BotsTyped'
  BY <1>1, <1>2 DEF RecordPoll, BotsTyped
<1>4. TablesOK'
  BY <1>3, TablesOfIInv, BotsOnlyOK DEF RecordPoll
<1>5. QED
  BY <1>4, RequestOK DEF RecordPoll, IInv, TypeOK

LEMMA DeliverForPollOK ==
  ASSUME IInv, NEW b \in BotId, DeliverForPoll(b)
  PROVE  IInv'
<1> DEFINE g == seats[b]
<1>1. g \in GameId /\ games[g] \in Row /\ RowShape(games[g]) /\ now \in Int
  BY DEF IInv, TypeOK, DeliverForPoll
<1>2. IsLive(games[g]) /\ OnlyGame(g, CasDeliver(games[g], games[g].ply, now))
  BY DEF DeliverForPoll, CanDeliver
<1>3. GoesOn(games[g], CasDeliver(games[g], games[g].ply, now))
  BY <1>1, <1>2, DeliverGoesOn
<1> HIDE DEF g
<1>4. TablesOK'
  BY <1>1, <1>2, <1>3, OnlyGameOK, TablesOfIInv
<1>5. QED
  BY <1>4, RequestOK DEF DeliverForPoll, IInv, TypeOK

LEMMA SubmitMoveOK ==
  ASSUME IInv, NEW g \in GameId, SubmitMove(g)
  PROVE  IInv' /\ OthersKept(g) /\ IsLive(games[g])
<1>1. now \in Int
  BY DEF IInv, TypeOK
<1>2. TablesOK' /\ OthersKept(g) /\ IsLive(games[g])
  BY <1>1, SubmissionOK, TablesOfIInv DEF SubmitMove
<1>3. QED
  BY <1>2, RequestOK DEF SubmitMove, IInv, TypeOK

LEMMA ResignOK ==
  ASSUME IInv, NEW b \in BotId, Resign(b)
  PROVE  IInv' /\ seats[b] \in GameId /\ OthersKept(seats[b]) /\ IsLive(games[seats[b]])
<1> DEFINE g == seats[b]
           c == IF games[g].white_bot_id = b THEN "white" ELSE "black"
<1>1. g \in GameId /\ games[g] \in Row /\ RowShape(games[g])
  BY DEF IInv, TypeOK, Resign
<1>2. IsLive(games[g]) /\ EndGame(g, games[g], "finished", OppositeWin(c), "resignation")
  BY DEF Resign, FinaliseGame
<1>3. LegalEnd("finished", OppositeWin(c), "resignation")
  BY OppositeWinType DEF LegalEnd, Termination, Rule1Unrates
<1> HIDE DEF g, c
<1>4. TablesOK' /\ OthersKept(g)
  BY <1>1, <1>2, <1>3, LiveGoesOn, EndGameOK, TablesOfIInv
<1>5. IInv'
  BY <1>4, RequestOK DEF Resign, IInv, TypeOK
<1>6. QED
  BY <1>1, <1>2, <1>4, <1>5 DEF g

LEMMA AdminAbortOK ==
  ASSUME IInv, NEW g \in GameId, AdminAbort(g)
  PROVE  IInv' /\ OthersKept(g) /\ IsLive(games[g])
<1>1. games[g] \in Row /\ RowShape(games[g])
  BY DEF IInv, TypeOK
<1>2. IsLive(games[g]) /\ EndGame(g, games[g], "aborted", NoValue, "admin_abort")
  BY DEF AdminAbort, AbortGame
<1>3. LegalEnd("aborted", NoValue, "admin_abort")
  BY DEF LegalEnd, Rule1Unrates
<1>4. TablesOK' /\ OthersKept(g)
  BY <1>1, <1>2, <1>3, LiveGoesOn, EndGameOK, TablesOfIInv
<1>5. QED
  BY <1>2, <1>4, RequestOK DEF AdminAbort, IInv, TypeOK

-----------------------------------------------------------------------------
(* The ticker.                                                             *)

\* Ending the game a sweep is at.
LEMMA SweptOK ==
  ASSUME IInv, tick.todo # {}, tick.pc \in {"grace", "flag"},
         UnitDone(tick.pc), UNCHANGED <<registered, paused, now>>,
         \/ UNCHANGED <<bots, games, seats, ratingHistory>>
         \/ \E status, result, termination :
              /\ LegalEnd(status, result, termination)
              /\ EndGame(NextUnit, games[NextUnit], status, result, termination)
  PROVE  IInv' /\ NextUnit \in GameId /\ OthersKept(NextUnit) /\ IsLive(games[NextUnit])
<1> DEFINE g == NextUnit
<1>1. g \in tick.todo /\ g \in GameId
  BY ListedGame DEF IInv
<1>2. IsLive(games[g]) /\ games[g] \in Row /\ RowShape(games[g])
  BY <1>1 DEF IInv, TickShape, SweepListsFresh, TypeOK
<1>3. TablesOK' /\ OthersKept(g)
  <2>1. CASE UNCHANGED <<bots, games, seats, ratingHistory>>
    BY <2>1, TablesOfIInv
       DEF TablesOK, BotsTyped, SeatIffLive, RatedExactlyOnce, ZeroSum, OthersKept
  <2>2. CASE \E status, result, termination :
               /\ LegalEnd(status, result, termination)
               /\ EndGame(g, games[g], status, result, termination)
    BY <1>1, <1>2, <2>2, LiveGoesOn, EndGameOK, TablesOfIInv
  <2>3. QED
    BY <2>1, <2>2
<1>4. IInv'
  BY <1>3, UnitOK
<1>5. QED
  BY <1>1, <1>2, <1>3, <1>4

LEMMA GraceUnitOK ==
  ASSUME IInv, GraceUnit
  PROVE  IInv' /\ NextUnit \in GameId /\ OthersKept(NextUnit) /\ IsLive(games[NextUnit])
<1> DEFINE row == games[NextUnit]
<1>1. /\ LegalEnd("aborted", NoValue, "no_show")
      /\ LegalEnd("finished", OppositeWin(row.to_move), "abandoned")
  BY OppositeWinType DEF LegalEnd, Termination, Rule1Unrates
<1>2. \/ UNCHANGED <<bots, games, seats, ratingHistory>>
      \/ EndGame(NextUnit, row, "aborted", NoValue, "no_show")
      \/ EndGame(NextUnit, row, "finished", OppositeWin(row.to_move), "abandoned")
  BY DEF GraceUnit, AbortGame, FinaliseGame
<1>3. /\ tick.todo # {} /\ tick.pc = "grace" /\ UnitDone("grace")
      /\ UNCHANGED <<registered, paused, now>>
  BY DEF GraceUnit
<1>4. QED
  BY <1>1, <1>2, <1>3, SweptOK

LEMMA FlagUnitOK ==
  ASSUME IInv, FlagUnit
  PROVE  IInv' /\ NextUnit \in GameId /\ OthersKept(NextUnit) /\ IsLive(games[NextUnit])
<1> DEFINE row == games[NextUnit]
<1>1. LegalEnd("finished", OppositeWin(row.to_move), "flag")
  BY OppositeWinType DEF LegalEnd, Termination, Rule1Unrates
<1>2. \/ UNCHANGED <<bots, games, seats, ratingHistory>>
      \/ EndGame(NextUnit, row, "finished", OppositeWin(row.to_move), "flag")
  BY DEF FlagUnit, FinaliseGame
<1>3. /\ tick.todo # {} /\ tick.pc = "flag" /\ UnitDone("flag")
      /\ UNCHANGED <<registered, paused, now>>
  BY DEF FlagUnit
<1>4. QED
  BY <1>1, <1>2, <1>3, SweptOK

LEMMA CreateGameOK ==
  ASSUME IInv, NEW white \in BotId, NEW black \in BotId, CreateGame(white, black)
  PROVE  IInv' /\ \A g \in GameId : games[g].status # "free" => games'[g] = games[g]
<1> DEFINE free == {h \in GameId : games[h].status = "free"}
           g == CHOOSE g \in GameId : /\ games[g].status = "free"
                                      /\ \A h \in GameId : games[h].status = "free" => g <= h
           rated == RatedAtCreation(white, black)
           new == InsertGame(white, black, rated, tick.started)
<1>1. g \in GameId /\ games[g].status = "free"
  <2>1. free \in SUBSET Nat /\ free # {}
    BY ArenaAssumption DEF CreateGame
  <2>2. \E k \in free : \A h \in free : k <= h
    BY <2>1, LeastId
  <2>3. QED
    BY <2>2
<1>2. /\ tick.pc = "matchmaking" /\ white # black
      /\ white \in tick.pool /\ black \in tick.pool
      /\ games' = [games EXCEPT ![g] = new]
      /\ seats' = [seats EXCEPT ![white] = g, ![black] = g]
      /\ tick' = [tick EXCEPT !.pool = @ \ {white, black}]
      /\ UNCHANGED <<registered, bots, ratingHistory, paused, now>>
  BY Zenon DEF CreateGame
<1>3. rated \in {0, 1} /\ tick.started \in Int
  BY DEF RatedAtCreation, IInv, TypeOK
<1> HIDE DEF g, rated
<1>4. /\ new \in Row
      /\ new = [white_bot_id |-> white, black_bot_id |-> black, status |-> "pending",
                result |-> NoValue, termination |-> NoValue, ply |-> 0,
                to_move |-> "white", ms |-> [c \in Color |-> NsToMs(TimeControl)],
                to_move_since_mono |-> tick.started, turn_started_mono |-> NoTime,
                delivered_to_mover |-> 0, rated |-> rated,
                strikes |-> [c \in Color |-> 0]]
  BY <1>3, InsertGameType, ZenonT(40)
<1> HIDE DEF new
<1>5. RowShape(new) /\ IsLive(new) /\ Players(new) = {white, black}
  BY <1>2, <1>4 DEF RowShape, IsLive, NonTerminal, Players
<1>6. /\ games' \in [GameId -> Row] /\ games'[g] = new
      /\ \A h \in GameId : h # g => games'[h] = games[h]
  BY <1>1, <1>2, <1>4 DEF IInv, TypeOK
<1>7. \A h \in GameId : RowShape(games'[h])
  BY <1>5, <1>6 DEF IInv
<1>8. /\ seats' \in [BotId -> GameId \cup {NoGame}]
      /\ \A b \in BotId : seats'[b] = IF b \in {white, black} THEN g ELSE seats[b]
      /\ seats[white] = NoGame /\ seats[black] = NoGame
  BY <1>1, <1>2 DEF IInv, TypeOK, TickShape
<1>9. SeatIffLive'
  <2> SUFFICES ASSUME NEW b \in BotId, NEW h \in GameId
               PROVE  seats'[b] = h <=> IsLive(games'[h]) /\ b \in Players(games'[h])
    BY DEF SeatIffLive
  <2>1. seats[b] = h <=> IsLive(games[h]) /\ b \in Players(games[h])
    BY DEF IInv, SeatIffLive
  <2>2. NoGame # h /\ ~IsLive(games[g])
    BY <1>1, ArenaAssumption DEF IsLive, NonTerminal
  <2>3. CASE h = g
    BY <1>5, <1>6, <1>8, <2>1, <2>2, <2>3
  <2>4. CASE h # g
    BY <1>6, <1>8, <2>1, <2>2, <2>4
  <2>5. QED
    BY <2>3, <2>4
<1>10. RatedExactlyOnce'
  <2>1. \A h \in GameId : Paid(games'[h]) = Paid(games[h])
    BY <1>1, <1>5, <1>6 DEF Paid, IsLive, NonTerminal
  <2>2. QED
    BY <1>2, <2>1 DEF IInv, RatedExactlyOnce, Paid
<1>11. tick' \in [pc : TickPc, started : Int, pool : SUBSET BotId, todo : SUBSET GameId]
  BY <1>2 DEF IInv, TypeOK
<1>12. TypeOK' /\ ZeroSum'
  BY <1>2, <1>6, <1>8, <1>11 DEF IInv, TypeOK, ZeroSum
<1>13. TickShape'
  <2>1. /\ tick'.pc = "matchmaking" /\ tick'.todo = {}
        /\ tick'.pool = tick.pool \ {white, black}
    BY <1>2 DEF IInv, TypeOK, TickShape
  <2>2. \A b \in tick'.pool : seats'[b] = NoGame
    BY <1>2, <1>8, <1>11, <2>1 DEF IInv, TypeOK, TickShape
  <2>3. QED
    BY <2>1, <2>2 DEF TickShape, SweepListsFresh
<1>14. \A h \in GameId : games[h].status # "free" => games'[h] = games[h]
  BY <1>1, <1>6
<1>15. QED
  BY <1>7, <1>9, <1>10, <1>12, <1>13, <1>14 DEF IInv

LEMMA AnchorDeliveredOK ==
  ASSUME IInv, AnchorDelivered
  PROVE  IInv' /\ NextUnit \in GameId /\ OthersKept(NextUnit) /\ IsLive(games[NextUnit])
<1> DEFINE g == NextUnit
           row == games[g]
           new == CasDeliver(row, row.ply, tick.started)
<1>1. g \in tick.todo /\ g \in GameId
  BY ListedGame DEF IInv, AnchorDelivered
<1>2. /\ tick.pc = "anchors" /\ OnlyGame(g, new)
      /\ tick' = [tick EXCEPT !.pc = "choosing"]
      /\ UNCHANGED <<registered, paused, now>>
  BY DEF AnchorDelivered
<1>3. IsLive(row) /\ row \in Row /\ RowShape(row) /\ tick.started \in Int
  BY <1>1 DEF IInv, TickShape, SweepListsFresh, TypeOK
<1>4. GoesOn(row, new) /\ new.to_move = row.to_move
  BY <1>3, DeliverGoesOn
<1> HIDE DEF new, g
<1>5. TablesOK' /\ OthersKept(g)
  BY <1>1, <1>2, <1>3, <1>4, OnlyGameOK, TablesOfIInv
<1>6. games'[g] = new
  BY <1>1, <1>2 DEF IInv, TypeOK, OnlyGame
<1>7. MoverId(new) = MoverId(row)
  BY <1>4 DEF GoesOn, SamePlayers, MoverId, BotOf
<1>8. /\ tick' \in [pc : TickPc, started : Int, pool : SUBSET BotId, todo : SUBSET GameId]
      /\ tick'.pc = "choosing" /\ tick'.todo = tick.todo
      /\ tick.todo \subseteq GameId /\ tick.todo # {}
  BY <1>2 DEF IInv, TypeOK, TickPc, AnchorDelivered
<1>9. ASSUME NEW h \in tick.todo
      PROVE  IsLive(games'[h]) /\ MoverId(games'[h]) \in Anchor
  <2>1. h \in GameId /\ IsLive(games[h]) /\ MoverId(games[h]) \in Anchor
    BY <1>2, <1>8 DEF IInv, TickShape, SweepListsFresh
  <2>2. CASE h = g
    BY <1>4, <1>6, <1>7, <2>1, <2>2 DEF GoesOn
  <2>3. CASE h # g
    BY <1>5, <2>1, <2>3 DEF OthersKept
  <2>4. QED
    BY <2>2, <2>3
<1>10. TickShape'
  BY <1>8, <1>9 DEF TickShape, SweepListsFresh
<1>11. TypeOK'
  BY <1>2, <1>5, <1>8 DEF IInv, TypeOK, TablesOK, BotsTyped
<1>12. QED
  BY <1>1, <1>3, <1>5, <1>10, <1>11 DEF IInv, TablesOK, g

LEMMA AnchorMovedOK ==
  ASSUME IInv, AnchorMoved
  PROVE  IInv' /\ NextUnit \in GameId /\ OthersKept(NextUnit) /\ IsLive(games[NextUnit])
<1>1. tick.todo # {} /\ NextUnit \in GameId /\ now \in Int
  BY ListedGame DEF IInv, TypeOK, TickShape, AnchorMoved
<1>2. TablesOK' /\ OthersKept(NextUnit) /\ IsLive(games[NextUnit])
  BY <1>1, SubmissionOK, TablesOfIInv DEF AnchorMoved
<1>3. /\ tick.pc = "choosing" /\ UnitDone("anchors")
      /\ UNCHANGED <<registered, paused, now>>
  BY DEF AnchorMoved
<1>4. IInv'
  BY <1>1, <1>2, <1>3, UnitOK
<1>5. QED
  BY <1>1, <1>2, <1>4

LEMMA TickStepOK ==
  ASSUME IInv, TickStep
  PROVE  IInv'
<1> DEFINE TickType ==
      [pc : TickPc, started : Int, pool : SUBSET BotId, todo : SUBSET GameId]
<1>1. tick \in TickType /\ now \in Int /\ registered \subseteq BotId
  BY DEF IInv, TypeOK
<1>2. CASE TickStart
  <2>1. tick' \in TickType /\ tick'.pc = "waiting" /\ tick'.todo = {}
    BY <1>1, <1>2 DEF TickStart, TickPc, IInv, TickShape
  <2>2. TickShape'
    BY <2>1 DEF TickShape, SweepListsFresh
  <2>3. QED
    BY <1>2, <2>1, <2>2, TickOnlyOK DEF TickStart
<1>3. CASE TickBegin
  <2> DEFINE pool == IF paused THEN {} ELSE Pool
  <2>1. pool \subseteq BotId /\ \A b \in pool : seats[b] = NoGame
    BY <1>1 DEF Pool
  <2> HIDE DEF pool
  <2>2. tick' = [tick EXCEPT !.pc = "matchmaking", !.pool = pool]
    BY <1>3, Zenon DEF TickBegin, pool
  <2>3. /\ tick' \in TickType /\ tick'.pc = "matchmaking" /\ tick'.todo = {}
        /\ tick'.pool = pool
    BY <1>1, <1>3, <2>1, <2>2 DEF TickBegin, TickPc, IInv, TickShape
  <2>4. TickShape'
    BY <1>3, <2>1, <2>3 DEF TickBegin, TickShape, SweepListsFresh
  <2>5. QED
    BY <1>3, <2>3, <2>4, TickOnlyOK DEF TickBegin
<1>4. CASE \E white, black \in BotId : CreateGame(white, black)
  BY <1>4, CreateGameOK
<1>5. CASE MatchmakingDone
  <2> DEFINE todo == {g \in Live : MoverId(games[g]) \in Anchor}
  <2>1. todo \subseteq GameId /\ \A g \in todo : IsLive(games[g]) /\ MoverId(games[g]) \in Anchor
    BY DEF Live
  <2> HIDE DEF todo
  <2>2. tick' \in TickType /\ tick'.pc = "anchors" /\ tick'.todo = todo
    BY <1>1, <1>5, <2>1 DEF MatchmakingDone, TickPc, todo
  <2>3. TickShape'
    BY <1>5, <2>1, <2>2 DEF MatchmakingDone, TickShape, SweepListsFresh
  <2>4. QED
    BY <1>5, <2>2, <2>3, TickOnlyOK DEF MatchmakingDone
<1>6. CASE AnchorDelivered
  BY <1>6, AnchorDeliveredOK
<1>7. CASE AnchorMoved
  BY <1>7, AnchorMovedOK
<1>8. CASE AnchorFailed
  <2>1. TablesOK' /\ OthersKept(NextUnit)
    BY <1>8, TablesOfIInv
       DEF AnchorFailed, TablesOK, BotsTyped, SeatIffLive, RatedExactlyOnce, ZeroSum, OthersKept
  <2>2. QED
    BY <1>8, <2>1, UnitOK DEF AnchorFailed
<1>9. CASE AnchorsDone
  <2> DEFINE todo == {g \in Live : games[g].delivered_to_mover = 0}
  <2>1. todo \subseteq GameId /\ \A g \in todo : IsLive(games[g]) /\ games[g].delivered_to_mover = 0
    BY DEF Live
  <2> HIDE DEF todo
  <2>2. tick' \in TickType /\ tick'.pc = "grace" /\ tick'.todo = todo
    BY <1>1, <1>9, <2>1 DEF AnchorsDone, TickPc, todo
  <2>3. TickShape'
    BY <1>9, <2>1, <2>2 DEF AnchorsDone, TickShape, SweepListsFresh
  <2>4. QED
    BY <1>9, <2>2, <2>3, TickOnlyOK DEF AnchorsDone
<1>10. CASE GraceUnit
  BY <1>10, GraceUnitOK
<1>11. CASE GraceDone
  <2> DEFINE todo == {g \in GameId : /\ games[g].delivered_to_mover = 1
                                      /\ games[g].status = "active"}
  <2>1. todo \subseteq GameId /\ \A g \in todo : IsLive(games[g]) /\ games[g].delivered_to_mover = 1
    BY DEF IsLive, NonTerminal
  <2> HIDE DEF todo
  <2>2. tick' \in TickType /\ tick'.pc = "flag" /\ tick'.todo = todo
    BY <1>1, <1>11, <2>1 DEF GraceDone, TickPc, todo
  <2>3. TickShape'
    BY <1>11, <2>1, <2>2 DEF GraceDone, TickShape, SweepListsFresh
  <2>4. QED
    BY <1>11, <2>2, <2>3, TickOnlyOK DEF GraceDone
<1>12. CASE FlagUnit
  BY <1>12, FlagUnitOK
<1>13. CASE TickEnd
  <2>1. tick' \in TickType /\ tick'.pc = "asleep" /\ tick'.todo = {}
    BY <1>1, <1>13 DEF TickEnd, TickPc
  <2>2. TickShape'
    BY <2>1 DEF TickShape, SweepListsFresh
  <2>3. QED
    BY <1>13, <2>1, <2>2, TickOnlyOK DEF TickEnd
<1>14. QED
  BY <1>2, <1>3, <1>4, <1>5, <1>6, <1>7, <1>8, <1>9, <1>10, <1>11, <1>12, <1>13
     DEF TickStep

-----------------------------------------------------------------------------
(* Time, pausing and restarts.                                             *)

LEMMA AdvanceOK ==
  ASSUME IInv, Advance
  PROVE  IInv'
BY DEF IInv, TypeOK, SeatIffLive, RatedExactlyOnce, ZeroSum, TickShape, SweepListsFresh,
       Advance

LEMMA SetPausedOK ==
  ASSUME IInv, SetPaused
  PROVE  IInv'
BY DEF IInv, TypeOK, SeatIffLive, RatedExactlyOnce, ZeroSum, TickShape, SweepListsFresh,
       SetPaused

\* Recovery aborts what was live, unrated, and leaves the rest alone.
LEMMA RecoveredRow ==
  ASSUME NEW row \in Row, RowShape(row)
  PROVE  /\ AbortNonTerminal(row) \in Row /\ RowShape(AbortNonTerminal(row))
         /\ ~IsLive(AbortNonTerminal(row))
         /\ Paid(AbortNonTerminal(row)) = Paid(row)
         /\ ~IsLive(row) => AbortNonTerminal(row) = row
<1> DEFINE new == AbortNonTerminal(row)
<1>1. new \in Row
  BY AbortNonTerminalType
<1>2. CASE ~IsLive(row)
  BY <1>2 DEF AbortNonTerminal
<1>3. CASE IsLive(row)
  <2>1. /\ new.status = "aborted" /\ new.termination = "server_restart"
        /\ new.rated = 0 /\ new.delivered_to_mover = 0 /\ new.turn_started_mono = NoTime
        /\ new.result = row.result
        /\ new.white_bot_id = row.white_bot_id /\ new.black_bot_id = row.black_bot_id
    BY <1>3 DEF AbortNonTerminal, Row
  <2> HIDE DEF new
  <2>2. RowShape(new)
    BY <1>3, <2>1 DEF RowShape, IsLive, NonTerminal, Rule1Unrates
  <2>3. ~IsLive(new) /\ Paid(new) = Paid(row)
    BY <1>3, <2>1 DEF Paid, IsLive, NonTerminal
  <2>4. QED
    BY <1>1, <1>3, <2>2, <2>3 DEF new
<1>4. QED
  BY <1>1, <1>2, <1>3

LEMMA RestartOK ==
  ASSUME IInv, Restart
  PROVE  IInv' /\ \A g \in GameId : ~IsLive(games[g]) => games'[g] = games[g]
<1>1. \A g \in GameId : games[g] \in Row /\ RowShape(games[g])
  BY DEF IInv, TypeOK
<1>2. /\ games' \in [GameId -> Row]
      /\ \A g \in GameId : /\ RowShape(games'[g]) /\ ~IsLive(games'[g])
                           /\ Paid(games'[g]) = Paid(games[g])
                           /\ ~IsLive(games[g]) => games'[g] = games[g]
  BY <1>1, RecoveredRow DEF Restart
<1>3. bots' \in [BotId -> BotRow]
  <2>1. \A b \in BotId : [bots[b] EXCEPT !.last_poll_mono = NoTime] \in BotRow
    BY DEF IInv, TypeOK, BotRow
  <2>2. QED
    BY <2>1 DEF Restart
<1>4. now' \in Nat
  BY ArenaAssumption DEF Restart
<1>5. /\ tick' \in [pc : TickPc, started : Int, pool : SUBSET BotId, todo : SUBSET GameId]
      /\ tick'.pc = "asleep" /\ tick'.todo = {}
  BY <1>4 DEF Restart, TickPc
<1>6. TypeOK'
  BY <1>2, <1>3, <1>4, <1>5 DEF Restart, IInv, TypeOK
<1>7. SeatIffLive'
  BY <1>2, ArenaAssumption DEF Restart, SeatIffLive
<1>8. RatedExactlyOnce' /\ ZeroSum'
  BY <1>2 DEF Restart, IInv, RatedExactlyOnce, ZeroSum, Paid
<1>9. TickShape'
  BY <1>5 DEF TickShape, SweepListsFresh
<1>10. QED
  BY <1>2, <1>6, <1>7, <1>8, <1>9 DEF IInv

-----------------------------------------------------------------------------
(* The theorems.                                                           *)

\* The invariant the theorems rest on: the tables agree with each other, and
\* with the list the ticker is working through.
THEOREM Inductive == Spec => []IInv
<1>1. IInv /\ [Next]_vars => IInv'
  <2> SUFFICES ASSUME IInv, [Next]_vars PROVE IInv'
    OBVIOUS
  <2>1. CASE \E b \in BotId : RegisterBot(b) \/ RecordPoll(b) \/ DeliverForPoll(b) \/ Resign(b)
    BY <2>1, RegisterBotOK, RecordPollOK, DeliverForPollOK, ResignOK
  <2>2. CASE \E g \in GameId : SubmitMove(g) \/ AdminAbort(g)
    BY <2>2, SubmitMoveOK, AdminAbortOK
  <2>3. CASE SetPaused
    BY <2>3, SetPausedOK
  <2>4. CASE TickStep
    BY <2>4, TickStepOK
  <2>5. CASE Advance
    BY <2>5, AdvanceOK
  <2>6. CASE Restart
    BY <2>6, RestartOK
  <2>7. CASE UNCHANGED vars
    BY <2>7 DEF vars, IInv, TypeOK, SeatIffLive, RatedExactlyOnce, ZeroSum, TickShape,
                SweepListsFresh
  <2>8. QED
    BY <2>1, <2>2, <2>3, <2>4, <2>5, <2>6, <2>7 DEF Next
<1>2. QED
  BY <1>1, InitOK, PTL DEF Spec

\* Every column holds what it can hold, whatever the requests, the ticks, the
\* crashes and the sizes of the tables.
THEOREM TypeAlways == Spec => []TypeOK
<1>1. IInv => TypeOK
  BY DEF IInv
<1>2. QED
  BY <1>1, Inductive, PTL

\* No path of _end_game_locked, no recovery and no pairing leaves a bot seated
\* in a game that is over, or a player of a live game without its seat.
THEOREM SeatIffLiveAlways == Spec => []SeatIffLive
<1>1. IInv => SeatIffLive
  BY DEF IInv
<1>2. QED
  BY <1>1, Inductive, PTL

\* rating_history has one row per competitor of a finished rated game and none
\* for any other: its UNIQUE constraint never fires, and no end is rated twice.
THEOREM RatedExactlyOnceAlways == Spec => []RatedExactlyOnce
<1>1. IInv => RatedExactlyOnce
  BY DEF IInv
<1>2. QED
  BY <1>1, Inductive, PTL

\* What one competitor gains the other loses, for every pair of ratings.
THEOREM ZeroSumAlways == Spec => []ZeroSum
<1>1. IInv => ZeroSum
  BY DEF IInv
<1>2. QED
  BY <1>1, Inductive, PTL

\* The list a sweep of the ticker read when it started stays true for every
\* row it has still to come to, whatever the units before it did.
THEOREM SweepListsFreshAlways == Spec => []SweepListsFresh
<1>1. IInv => SweepListsFresh
  BY DEF IInv, TickShape
<1>2. QED
  BY <1>1, Inductive, PTL

\* The flags of a row that the sweeps select by agree with each other, and an
\* ended game is never delivered.
THEOREM DeliveryShapeAlways == Spec => []DeliveryShape
<1>1. IInv => DeliveryShape
  BY DEF IInv, RowShape, DeliveryShape
<1>2. QED
  BY <1>1, Inductive, PTL

\* An aborted game has no result and is unrated, a finished one has a result
\* and a reason of its own.
THEOREM EndShapeAlways == Spec => []EndShape
<1>1. IInv => EndShape
  BY DEF IInv, RowShape, EndShape
<1>2. QED
  BY <1>1, Inductive, PTL

\* The row of an ended game is never written again: each writer that does not
\* compare and swap on a live status (the sweeps, recovery, pairing) reaches
\* only rows that are live or free.
THEOREM TerminalFrozenAlways == Spec => TerminalFrozen
<1> DEFINE Frozen == \A g \in GameId : games[g].status \in Terminal => games'[g] = games[g]
<1>1. IInv /\ [Next]_vars => [Frozen]_vars
  <2> SUFFICES ASSUME IInv, Next PROVE Frozen
    OBVIOUS
  <2>1. \A g \in GameId : games[g].status \in Terminal =>
          ~IsLive(games[g]) /\ games[g].status # "free"
    BY DEF Terminal, IsLive, NonTerminal
  <2>2. ASSUME NEW g \in GameId, OthersKept(g), IsLive(games[g]) PROVE Frozen
    BY <2>1, <2>2 DEF OthersKept
  <2>3. ASSUME games' = games PROVE Frozen
    BY <2>3
  <2>4. CASE \E b \in BotId : RegisterBot(b) \/ RecordPoll(b)
    BY <2>3, <2>4 DEF RegisterBot, RecordPoll
  <2>5. ASSUME NEW b \in BotId, DeliverForPoll(b) PROVE Frozen
    <3>1. seats[b] \in GameId
      BY <2>5 DEF DeliverForPoll, IInv, TypeOK
    <3>2. IsLive(games[seats[b]]) /\ OthersKept(seats[b])
      BY <2>5, <3>1 DEF DeliverForPoll, CanDeliver, OnlyGame, OthersKept, IInv, TypeOK
    <3>3. QED
      BY <2>2, <3>1, <3>2
  <2>6. CASE \E b \in BotId : Resign(b)
    BY <2>2, <2>6, ResignOK
  <2>7. CASE \E g \in GameId : SubmitMove(g) \/ AdminAbort(g)
    BY <2>2, <2>7, SubmitMoveOK, AdminAbortOK
  <2>8. CASE SetPaused \/ Advance
    BY <2>3, <2>8 DEF SetPaused, Advance
  <2>9. CASE TickStep
    <3>1. CASE \E white, black \in BotId : CreateGame(white, black)
      BY <2>1, <3>1, CreateGameOK
    <3>2. CASE AnchorDelivered \/ AnchorMoved \/ GraceUnit \/ FlagUnit
      BY <2>2, <3>2, AnchorDeliveredOK, AnchorMovedOK, GraceUnitOK, FlagUnitOK
    <3>3. CASE TickStart \/ TickBegin \/ MatchmakingDone \/ AnchorFailed \/ AnchorsDone
               \/ GraceDone \/ TickEnd
      BY <2>3, <3>3 DEF TickStart, TickBegin, MatchmakingDone, AnchorFailed, AnchorsDone,
                        GraceDone, TickEnd
    <3>4. QED
      BY <2>9, <3>1, <3>2, <3>3 DEF TickStep
  <2>10. CASE Restart
    BY <2>1, <2>10, RestartOK
  <2>11. QED
    BY <2>4, <2>5, <2>6, <2>7, <2>8, <2>9, <2>10 DEF Next
<1>2. QED
  BY <1>1, Inductive, PTL DEF Spec, TerminalFrozen

-----------------------------------------------------------------------------
(* The changes of a row.                                                   *)

EndsWith(g, row, status, result, termination) ==
  games'[g] = CasTerminate(row, status, result, termination)

Loses(g, row, c, termination) == EndsWith(g, row, "finished", OppositeWin(c), termination)

Creates(g) ==
  /\ games[g].status = "free"
  /\ \E white, black \in BotId, rated \in {0, 1} :
       games'[g] = InsertGame(white, black, rated, tick.started)

Delivers(g) ==
  /\ IsLive(games[g])
  /\ \E t \in {now, tick.started} : games'[g] = CasDeliver(games[g], games[g].ply, t)

StrikesBelow(g) ==
  LET struck == CasAddStrike(games[g], games[g].to_move)
  IN /\ InTime(g)
     /\ games'[g] = struck
     /\ ~(struck.strikes[games[g].to_move] >= StrikeLimit)

Forfeits(g) ==
  LET struck == CasAddStrike(games[g], games[g].to_move)
  IN /\ InTime(g)
     /\ struck.strikes[games[g].to_move] >= StrikeLimit
     /\ Loses(g, struck, games[g].to_move, "illegal_forfeit")

MovesOn(g) ==
  /\ InTime(g)
  /\ games'[g] = Moved(games[g], now)
  /\ ~(Moved(games[g], now).ply >= PlyCap)

MoveEnds(g) ==
  LET moved == Moved(games[g], now)
  IN /\ InTime(g)
     /\ \/ Loses(g, moved, moved.to_move, "checkmate")
        \/ \E rule \in DrawRules : EndsWith(g, moved, "finished", "draw", rule)
        \/ moved.ply >= PlyCap /\ EndsWith(g, moved, "finished", "draw", "adjudicated")

FlagFalls(g) ==
  /\ IsLive(games[g])
  /\ games[g].delivered_to_mover = 1
  /\ \E t \in {now, tick.started} : HasFlagged(ClockFromGame(games[g]), t)
  /\ Loses(g, games[g], games[g].to_move, "flag")

GraceOver(g) ==
  /\ IsLive(games[g])
  /\ CheckDeliveryTimeout(ClockFromGame(games[g]), tick.started, Grace)
  /\ IF games[g].ply = 0
     THEN EndsWith(g, games[g], "aborted", NoValue, "no_show")
     ELSE Loses(g, games[g], games[g].to_move, "abandoned")

Resigns(g) ==
  IsLive(games[g]) /\ \E c \in Color : Loses(g, games[g], c, "resignation")

Aborts(g) == IsLive(games[g]) /\ EndsWith(g, games[g], "aborted", NoValue, "admin_abort")

Recovers(g) == games'[g] = AbortNonTerminal(games[g]) /\ Restart

Change(g) ==
  \/ Creates(g) \/ Delivers(g) \/ StrikesBelow(g) \/ MovesOn(g)
  \/ Forfeits(g) \/ MoveEnds(g) \/ FlagFalls(g) \/ GraceOver(g)
  \/ Resigns(g) \/ Aborts(g) \/ Recovers(g)

Unchanged(g) == games'[g] = games[g]

LEMMA SubmissionChanges ==
  ASSUME IInv, NEW g \in GameId, MoveTooLate(g) \/ MoveRejected(g) \/ MoveAccepted(g)
  PROVE  Change(g)
<1>1. games \in [GameId -> Row]
  BY DEF IInv, TypeOK
<1>2. CASE MoveTooLate(g)
  <2>1. FlagFalls(g)
    BY <1>1, <1>2 DEF MoveTooLate, FlagFalls, Submitted, FinaliseGame, EndGame, Loses, EndsWith
  <2>2. QED
    BY <2>1 DEF Change
<1>3. CASE MoveRejected(g)
  <2> DEFINE struck == CasAddStrike(games[g], games[g].to_move)
  <2>1. InTime(g) /\ IF struck.strikes[games[g].to_move] >= StrikeLimit
                     THEN ForfeitGame(g, struck, games[g].to_move)
                     ELSE OnlyGame(g, struck)
    BY <1>3 DEF MoveRejected
  <2> HIDE DEF struck
  <2>2. CASE struck.strikes[games[g].to_move] >= StrikeLimit
    <3>1. Forfeits(g)
      BY <1>1, <2>1, <2>2 DEF Forfeits, ForfeitGame, EndGame, Loses, EndsWith, struck
    <3>2. QED
      BY <3>1 DEF Change
  <2>3. CASE ~(struck.strikes[games[g].to_move] >= StrikeLimit)
    <3>1. StrikesBelow(g)
      BY <1>1, <2>1, <2>3 DEF StrikesBelow, OnlyGame, struck
    <3>2. QED
      BY <3>1 DEF Change
  <2>4. QED
    BY <2>2, <2>3
<1>4. CASE MoveAccepted(g)
  <2> DEFINE moved == Moved(games[g], now)
  <2>1. PICK end \in MoveEnd :
          IF end.is_terminal
          THEN FinaliseGame(g, moved,
                 IF end.termination = "checkmate"
                 THEN OppositeWin(moved.to_move) ELSE "draw",
                 end.termination)
          ELSE IF moved.ply >= PlyCap
          THEN FinaliseGame(g, moved, "draw", "adjudicated")
          ELSE OnlyGame(g, moved)
    BY <1>4, Zenon DEF MoveAccepted, Moved
  <2>2. InTime(g)
    BY <1>4 DEF MoveAccepted
  <2> HIDE DEF moved
  <2>3. CASE end.is_terminal /\ end.termination = "checkmate"
    <3>1. EndGame(g, moved, "finished", OppositeWin(moved.to_move), "checkmate")
      BY <2>1, <2>3 DEF FinaliseGame
    <3>2. MoveEnds(g)
      BY <1>1, <2>2, <3>1 DEF MoveEnds, EndGame, Loses, EndsWith, moved
    <3>3. QED
      BY <3>2 DEF Change
  <2>4. CASE end.is_terminal /\ end.termination # "checkmate"
    <3>1. end.termination \in DrawRules
      BY <2>4 DEF MoveEnd
    <3>2. EndGame(g, moved, "finished", "draw", end.termination)
      BY <2>1, <2>4 DEF FinaliseGame
    <3>3. MoveEnds(g)
      BY <1>1, <2>2, <3>1, <3>2 DEF MoveEnds, EndGame, EndsWith, moved
    <3>4. QED
      BY <3>3 DEF Change
  <2>5. CASE ~end.is_terminal /\ moved.ply >= PlyCap
    <3>1. EndGame(g, moved, "finished", "draw", "adjudicated")
      BY <2>1, <2>5 DEF FinaliseGame
    <3>2. MoveEnds(g)
      BY <1>1, <2>2, <2>5, <3>1 DEF MoveEnds, EndGame, EndsWith, moved
    <3>3. QED
      BY <3>2 DEF Change
  <2>6. CASE ~end.is_terminal /\ ~(moved.ply >= PlyCap)
    <3>1. OnlyGame(g, moved)
      BY <2>1, <2>6
    <3>2. MovesOn(g)
      BY <1>1, <2>2, <2>6, <3>1 DEF MovesOn, OnlyGame, moved
    <3>3. QED
      BY <3>2 DEF Change
  <2>7. QED
    BY <2>3, <2>4, <2>5, <2>6
<1>5. QED
  BY <1>2, <1>3, <1>4

LEMMA Changes ==
  ASSUME IInv, [Next]_vars, NEW g \in GameId
  PROVE  Unchanged(g) \/ Change(g)
<1>1. games \in [GameId -> Row]
  BY DEF IInv, TypeOK
<1>2. CASE games' = games
  BY <1>2 DEF Unchanged
<1>3. ASSUME NEW h \in GameId, OthersKept(h), h # g PROVE Unchanged(g)
  BY <1>3 DEF OthersKept, Unchanged
<1>4. ASSUME NEW b \in BotId, DeliverForPoll(b) PROVE Unchanged(g) \/ Change(g)
  <2> DEFINE h == seats[b]
  <2>1. h \in GameId /\ games' = [games EXCEPT ![h] = CasDeliver(games[h], games[h].ply, now)]
        /\ IsLive(games[h])
    BY <1>4 DEF DeliverForPoll, OnlyGame, CanDeliver, IInv, TypeOK
  <2> HIDE DEF h
  <2>2. CASE h # g
    BY <1>1, <2>1, <2>2 DEF Unchanged
  <2>3. CASE h = g
    BY <1>1, <2>1, <2>3 DEF Change, Delivers
  <2>4. QED
    BY <2>2, <2>3
<1>5. ASSUME NEW b \in BotId, Resign(b) PROVE Unchanged(g) \/ Change(g)
  <2> DEFINE h == seats[b]
             c == IF games[h].white_bot_id = b THEN "white" ELSE "black"
  <2>1. h \in GameId /\ OthersKept(h) /\ IsLive(games[h])
    BY <1>5, ResignOK
  <2>2. EndGame(h, games[h], "finished", OppositeWin(c), "resignation") /\ c \in Color
    BY <1>5 DEF Resign, FinaliseGame, Color
  <2> HIDE DEF h, c
  <2>3. CASE h # g
    BY <1>3, <2>1, <2>3
  <2>4. CASE h = g
    <3>1. Resigns(g)
      BY <1>1, <2>1, <2>2, <2>4 DEF Resigns, EndGame, Loses, EndsWith
    <3>2. QED
      BY <3>1 DEF Change
  <2>5. QED
    BY <2>3, <2>4
<1>6. ASSUME NEW h \in GameId, SubmitMove(h) PROVE Unchanged(g) \/ Change(g)
  <2>1. OthersKept(h)
    BY <1>6, SubmitMoveOK
  <2>2. Change(h)
    BY <1>6, SubmissionChanges DEF SubmitMove
  <2>3. QED
    BY <1>3, <2>1, <2>2
<1>7. ASSUME NEW h \in GameId, AdminAbort(h) PROVE Unchanged(g) \/ Change(g)
  <2>1. OthersKept(h)
    BY <1>7, AdminAbortOK
  <2>2. Aborts(h)
    BY <1>1, <1>7 DEF AdminAbort, Aborts, AbortGame, EndGame, EndsWith
  <2>3. QED
    BY <1>3, <2>1, <2>2 DEF Change
<1>8. ASSUME NEW white \in BotId, NEW black \in BotId, CreateGame(white, black)
      PROVE  Unchanged(g) \/ Change(g)
  <2> DEFINE h == CHOOSE h \in GameId : /\ games[h].status = "free"
                                       /\ \A k \in GameId : games[k].status = "free" => h <= k
             rated == RatedAtCreation(white, black)
             new == InsertGame(white, black, rated, tick.started)
  <2>1. games' = [games EXCEPT ![h] = new]
    BY <1>8, Zenon DEF CreateGame
  <2>2. rated \in {0, 1}
    BY DEF RatedAtCreation
  <2>3. games[g].status # "free" => Unchanged(g)
    BY <1>8, CreateGameOK DEF Unchanged
  <2> HIDE DEF h, rated
  <2>4. games'[g] = games[g] \/ games'[g] = new
    BY <1>1, <2>1
  <2>5. CASE games[g].status = "free" /\ games'[g] = new
    <3>1. Creates(g)
      BY <2>2, <2>5 DEF Creates
    <3>2. QED
      BY <3>1 DEF Change
  <2>6. QED
    BY <2>3, <2>4, <2>5 DEF Unchanged
<1>9. ASSUME AnchorDelivered \/ AnchorMoved \/ GraceUnit \/ FlagUnit
      PROVE  Unchanged(g) \/ Change(g)
  <2> DEFINE h == NextUnit
  <2>1. h \in GameId /\ OthersKept(h) /\ IsLive(games[h])
    BY <1>9, AnchorDeliveredOK, AnchorMovedOK, GraceUnitOK, FlagUnitOK
  <2>2. CASE AnchorDelivered
    <3>1. games' = [games EXCEPT ![h] = CasDeliver(games[h], games[h].ply, tick.started)]
      BY <2>2 DEF AnchorDelivered, OnlyGame
    <3> HIDE DEF h
    <3>2. Delivers(h)
      BY <1>1, <2>1, <3>1 DEF Delivers
    <3>3. QED
      BY <1>3, <2>1, <3>2 DEF Change
  <2>3. CASE AnchorMoved
    <3>1. Change(h)
      BY <2>1, <2>3, SubmissionChanges DEF AnchorMoved
    <3> HIDE DEF h
    <3>2. QED
      BY <1>3, <2>1, <3>1
  <2>4. CASE GraceUnit
    <3>1. \/ UNCHANGED <<bots, games, seats, ratingHistory>>
          \/ /\ CheckDeliveryTimeout(ClockFromGame(games[h]), tick.started, Grace)
             /\ IF games[h].ply = 0
                THEN EndGame(h, games[h], "aborted", NoValue, "no_show")
                ELSE EndGame(h, games[h], "finished", OppositeWin(games[h].to_move), "abandoned")
      BY <2>4 DEF GraceUnit, AbortGame, FinaliseGame
    <3> HIDE DEF h
    <3>2. games' = games \/ GraceOver(h)
      BY <1>1, <2>1, <3>1 DEF GraceOver, EndGame, Loses, EndsWith
    <3>3. QED
      BY <1>2, <1>3, <2>1, <3>2 DEF Change
  <2>5. CASE FlagUnit
    <3>1. \/ UNCHANGED <<bots, games, seats, ratingHistory>>
          \/ /\ HasFlagged(ClockFromGame(games[h]), tick.started)
             /\ EndGame(h, games[h], "finished", OppositeWin(games[h].to_move), "flag")
      BY <2>5 DEF FlagUnit, FinaliseGame
    <3>2. games[h].delivered_to_mover = 1
      BY <2>5, ListedGame DEF FlagUnit, IInv, TickShape, SweepListsFresh
    <3> HIDE DEF h
    <3>3. games' = games \/ FlagFalls(h)
      BY <1>1, <2>1, <3>1, <3>2 DEF FlagFalls, EndGame, Loses, EndsWith
    <3>4. QED
      BY <1>2, <1>3, <2>1, <3>3 DEF Change
  <2>6. QED
    BY <1>9, <2>2, <2>3, <2>4, <2>5
<1>10. CASE Restart
  BY <1>10 DEF Restart, Change, Recovers
<1>11. CASE TickStep
  <2>1. CASE TickStart \/ TickBegin \/ MatchmakingDone \/ AnchorFailed \/ AnchorsDone
             \/ GraceDone \/ TickEnd
    BY <1>2, <2>1 DEF TickStart, TickBegin, MatchmakingDone, AnchorFailed, AnchorsDone,
                      GraceDone, TickEnd
  <2>2. QED
    BY <1>8, <1>9, <1>11, <2>1 DEF TickStep
<1>12. CASE (\E b \in BotId : RegisterBot(b) \/ RecordPoll(b)) \/ SetPaused \/ Advance
            \/ UNCHANGED vars
  BY <1>2, <1>12 DEF RegisterBot, RecordPoll, SetPaused, Advance, vars
<1>13. QED
  BY <1>4, <1>5, <1>6, <1>7, <1>10, <1>11, <1>12 DEF Next

-----------------------------------------------------------------------------
(* What each change leaves in the columns.                                 *)

LEMMA TerminateFields ==
  ASSUME NEW row \in Row, NEW status, NEW result, NEW termination
  PROVE  LET new == CasTerminate(row, status, result, termination)
         IN /\ new.status = status /\ new.result = result /\ new.termination = termination
            /\ new.ply = row.ply /\ new.strikes = row.strikes /\ new.to_move = row.to_move
  BY DEF CasTerminate, Row

LEMMA StrikeFields ==
  ASSUME NEW row \in Row, NEW c \in Color
  PROVE  LET new == CasAddStrike(row, c)
         IN /\ new \in Row
            /\ new.status = row.status /\ new.result = row.result
            /\ new.termination = row.termination /\ new.ply = row.ply /\ new.ms = row.ms
            /\ new.to_move_since_mono = row.to_move_since_mono
            /\ new.turn_started_mono = row.turn_started_mono
            /\ new.strikes = [row.strikes EXCEPT ![c] = @ + 1]
<1> DEFINE strikes == [row.strikes EXCEPT ![c] = @ + 1]
<1>1. CasAddStrike(row, c) = [row EXCEPT !.strikes = strikes]
  BY DEF CasAddStrike
<1> HIDE DEF strikes
<1>2. QED
  BY <1>1, CasAddStrikeType DEF Row, strikes

LEMMA DeliverFields ==
  ASSUME NEW row \in Row, NEW t \in Int
  PROVE  LET new == CasDeliver(row, row.ply, t)
         IN \/ new = row
            \/ /\ IsLive(row) /\ new.status = "active" /\ new.result = row.result
               /\ new.termination = row.termination /\ new.ply = row.ply /\ new.ms = row.ms
               /\ new.to_move_since_mono = row.to_move_since_mono
               /\ new.turn_started_mono = t /\ new.strikes = row.strikes
  BY DEF CasDeliver, CanDeliver, Row

\* The mover, who is not out of time, keeps at least a millisecond: what was
\* left is positive, and the increment is at least one.
LEMMA MovedFields ==
  ASSUME IInv, NEW g \in GameId, InTime(g)
  PROVE  LET row == games[g]
             new == Moved(row, now)
         IN /\ new \in Row
            /\ new.status = row.status /\ new.result = row.result
            /\ new.termination = row.termination /\ new.ply = row.ply + 1
            /\ new.strikes = row.strikes
            /\ \A c \in Color : new.ms[c] = row.ms[c] \/ new.ms[c] >= 1
            /\ new.to_move_since_mono = now /\ new.turn_started_mono = NoTime
            /\ row.status = "active" /\ IsLive(row) /\ row.delivered_to_mover = 1
<1> DEFINE row == games[g]
           left == MsToNs(row.ms[row.to_move]) - (now - row.turn_started_mono)
           inc == MsToNs(NsToMs(Increment))
           kept == NsToMs(left + inc)
           ms == [row.ms EXCEPT ![row.to_move] = kept]
           new == Moved(row, now)
<1>1. row \in Row /\ RowShape(row) /\ now \in Int /\ IsLive(row) /\ row.delivered_to_mover = 1
  BY DEF IInv, TypeOK, InTime, Submitted
<1>2. row.turn_started_mono \in Int /\ row.status = "active"
  BY <1>1 DEF RowShape, Row
<1>3. ~HasFlagged(ClockFromGame(row), now)
  BY DEF InTime
<1> HIDE DEF row
<1>4. /\ left \in Int /\ left > 0 /\ kept \in Int /\ new \in Row
      /\ new = [row EXCEPT !.ms[row.to_move] = kept,
                          !.to_move = OtherColor(row.to_move),
                          !.to_move_since_mono = now,
                          !.turn_started_mono = NoTime,
                          !.delivered_to_mover = 0,
                          !.ply = @ + 1]
  BY <1>1, <1>2, <1>3, MovedRow
<1>5. kept >= 1
  <2>1. NsToMs(Increment) \in Int /\ NsToMs(Increment) >= 1
    BY RoundTripNs, RowAssumption, LimitsAssumption
  <2> DEFINE k == NsToMs(Increment)
  <2> HIDE DEF left, k
  <2>2. inc = k * NsPerMs
    BY DEF MsToNs, k
  <2>3. k >= 1 /\ k \in Int /\ NsPerMs \in Nat \ {0}
    BY <2>1, ClockAssumption DEF k
  <2>4. k * NsPerMs \in Int /\ k * NsPerMs >= NsPerMs
    BY <2>3, SMT
  <2>5. left + inc \in Int /\ left + inc >= NsPerMs
    BY <1>4, <2>2, <2>3, <2>4
  <2> HIDE DEF inc
  <2>6. (left + inc) \div NsPerMs >= 1
    BY <2>3, <2>5, SMT
  <2>7. QED
    BY <2>6 DEF NsToMs
<1> HIDE DEF left, kept, new
<1>6. new = [row EXCEPT !.ms = ms, !.to_move = OtherColor(row.to_move),
                        !.to_move_since_mono = now, !.turn_started_mono = NoTime,
                        !.delivered_to_mover = 0, !.ply = @ + 1]
  BY <1>4
<1>7. \A c \in Color : ms[c] = row.ms[c] \/ ms[c] = kept
  BY <1>1 DEF Row
<1> HIDE DEF ms
<1>8. /\ new.status = row.status /\ new.result = row.result
      /\ new.termination = row.termination /\ new.ply = row.ply + 1
      /\ new.strikes = row.strikes /\ new.ms = ms
      /\ new.to_move_since_mono = now /\ new.turn_started_mono = NoTime
  BY <1>1, <1>6 DEF Row
<1>9. QED
  BY <1>1, <1>2, <1>4, <1>5, <1>7, <1>8 DEF row, new

-----------------------------------------------------------------------------
(* The limits of a live game                                               *)

LimitsOK(row) ==
  IsLive(row) =>
    /\ row.ply < PlyCap
    /\ \A c \in Color : row.strikes[c] < StrikeLimit /\ row.ms[c] >= 1

LEMMA EndedLimits ==
  ASSUME NEW row \in Row, NEW status \in Terminal, NEW result, NEW termination
  PROVE  ~IsLive(CasTerminate(row, status, result, termination))
  BY TerminateFields DEF IsLive, NonTerminal, Terminal

\* The changes that end a game leave a row that is not live.
EndsGame(g) ==
  Forfeits(g) \/ MoveEnds(g) \/ FlagFalls(g) \/ GraceOver(g) \/ Resigns(g) \/ Aborts(g)
    \/ Recovers(g)

LEMMA EndedIsDead ==
  ASSUME IInv, NEW g \in GameId, EndsGame(g)
  PROVE  ~IsLive(games'[g])
<1>1. games[g] \in Row /\ RowShape(games[g])
  BY DEF IInv, TypeOK
<1>2. "finished" \in Terminal /\ "aborted" \in Terminal /\ games[g].to_move \in Color
  BY <1>1 DEF Terminal, Row
<1>3. CASE Forfeits(g)
  <2> DEFINE struck == CasAddStrike(games[g], games[g].to_move)
  <2>1. struck \in Row
    BY <1>1, <1>2, StrikeFields
  <2>2. games'[g] =
          CasTerminate(struck, "finished", OppositeWin(games[g].to_move), "illegal_forfeit")
    BY <1>3 DEF Forfeits, Loses, EndsWith
  <2> HIDE DEF struck
  <2>3. QED
    BY <1>2, <2>1, <2>2, EndedLimits
<1>4. CASE MoveEnds(g)
  <2>1. Moved(games[g], now) \in Row
    BY <1>4, MovedFields DEF MoveEnds
  <2>2. QED
    BY <1>2, <1>4, <2>1, EndedLimits DEF MoveEnds, Loses, EndsWith
<1>5. CASE FlagFalls(g) \/ GraceOver(g) \/ Resigns(g) \/ Aborts(g)
  BY <1>1, <1>2, <1>5, EndedLimits DEF FlagFalls, GraceOver, Resigns, Aborts, Loses, EndsWith
<1>6. CASE Recovers(g)
  BY <1>1, <1>6, RecoveredRow DEF Recovers
<1>7. QED
  BY <1>3, <1>4, <1>5, <1>6 DEF EndsGame

LEMMA LimitsKept ==
  ASSUME IInv, [Next]_vars, NEW g \in GameId, LimitsOK(games[g])
  PROVE  LimitsOK(games'[g])
<1>1. /\ games[g] \in Row /\ RowShape(games[g]) /\ games[g].to_move \in Color
      /\ now \in Int /\ tick.started \in Int
  BY DEF IInv, TypeOK, Row
<1>2. CASE EndsGame(g)
  BY <1>2, EndedIsDead DEF LimitsOK
<1>3. CASE Creates(g)
  <2>1. PICK white \in BotId, black \in BotId, rated \in {0, 1} :
          games'[g] = InsertGame(white, black, rated, tick.started)
    BY <1>3 DEF Creates
  <2>2. white \in BotId \cup {NoBot} /\ black \in BotId \cup {NoBot} /\ tick.started \in Int
    BY <1>1
  <2>3. InsertGame(white, black, rated, tick.started) =
          [white_bot_id |-> white, black_bot_id |-> black, status |-> "pending",
           result |-> NoValue, termination |-> NoValue, ply |-> 0,
           to_move |-> "white", ms |-> [c \in Color |-> NsToMs(TimeControl)],
           to_move_since_mono |-> tick.started, turn_started_mono |-> NoTime,
           delivered_to_mover |-> 0, rated |-> rated,
           strikes |-> [c \in Color |-> 0]]
    BY <2>2, InsertGameType
  <2>4. QED
    BY <2>1, <2>3, ArenaAssumption, LimitsAssumption DEF LimitsOK
<1>4. CASE Delivers(g)
  BY <1>1, <1>4, DeliverFields DEF Delivers, LimitsOK
<1>5. CASE StrikesBelow(g)
  <2> DEFINE struck == CasAddStrike(games[g], games[g].to_move)
  <2>1. /\ struck.ply = games[g].ply /\ struck.ms = games[g].ms
        /\ struck.strikes = [games[g].strikes EXCEPT ![games[g].to_move] = @ + 1]
    BY <1>1, StrikeFields
  <2>2. /\ games'[g] = struck /\ IsLive(games[g])
        /\ ~(struck.strikes[games[g].to_move] >= StrikeLimit)
    BY <1>5 DEF StrikesBelow, InTime, Submitted
  <2>3. games[g].strikes \in [Color -> Nat] /\ StrikeLimit \in Nat
    BY <1>1, ArenaAssumption DEF Row
  <2> HIDE DEF struck
  <2>4. \A c \in Color : struck.strikes[c] < StrikeLimit
    BY <1>1, <2>1, <2>2, <2>3 DEF LimitsOK
  <2>5. QED
    BY <2>1, <2>2, <2>4 DEF LimitsOK
<1>6. CASE MovesOn(g)
  <2> DEFINE new == Moved(games[g], now)
  <2>1. /\ new \in Row /\ new.strikes = games[g].strikes /\ IsLive(games[g])
        /\ \A c \in Color : new.ms[c] = games[g].ms[c] \/ new.ms[c] >= 1
    BY <1>6, MovedFields DEF MovesOn
  <2>2. games'[g] = new /\ ~(new.ply >= PlyCap)
    BY <1>6 DEF MovesOn
  <2> HIDE DEF new
  <2>3. new.ply < PlyCap
    BY <2>1, <2>2, ArenaAssumption DEF Row
  <2>4. QED
    BY <2>1, <2>2, <2>3 DEF LimitsOK
<1>7. CASE Unchanged(g)
  BY <1>7 DEF Unchanged
<1>8. QED
  BY <1>2, <1>3, <1>4, <1>5, <1>6, <1>7, Changes DEF Change, EndsGame

-----------------------------------------------------------------------------
(* Stamps                                                                  *)

StampsOK(row, t) ==
  IsLive(row) =>
    /\ row.to_move_since_mono <= t
    /\ row.turn_started_mono # NoTime => row.turn_started_mono <= t

PollsOK == \A b \in BotId : bots[b].last_poll_mono # NoTime => bots[b].last_poll_mono <= now

LEMMA TimePasses ==
  ASSUME IInv, [Next]_vars, tick.started <= now
  PROVE  /\ tick'.started <= now'
         /\ now' >= now \/ Restart
<1>1. now \in Int /\ tick.started \in Int
        /\ tick \in [pc : TickPc, started : Int, pool : SUBSET BotId, todo : SUBSET GameId]
  BY DEF IInv, TypeOK
<1>2. CASE Restart
  <2>1. now' \in Nat
    BY <1>2, ArenaAssumption DEF Restart
  <2>2. QED
    BY <1>2, <2>1 DEF Restart
<1>3. CASE Advance
  BY <1>1, <1>3 DEF Advance
<1>4. CASE UNCHANGED <<now, tick>>
  BY <1>1, <1>4
<1>5. CASE TickStep
  <2>1. now' = now
    BY <1>5 DEF TickStep, TickStart, TickBegin, CreateGame, MatchmakingDone, AnchorDelivered,
                AnchorMoved, AnchorFailed, AnchorsDone, GraceUnit, GraceDone, FlagUnit, TickEnd
  <2>2. CASE TickStart
    BY <1>1, <2>1, <2>2 DEF TickStart
  <2>3. CASE ~TickStart
    <3>1. \/ \E pc, pool, todo : tick' = [tick EXCEPT !.pc = pc, !.pool = pool, !.todo = todo]
          \/ \E pc, pool : tick' = [tick EXCEPT !.pc = pc, !.pool = pool]
          \/ \E pc, todo : tick' = [tick EXCEPT !.pc = pc, !.todo = todo]
          \/ \E pool : tick' = [tick EXCEPT !.pool = pool]
          \/ \E pc : tick' = [tick EXCEPT !.pc = pc]
      BY <1>5, <2>3, Zenon DEF TickStep, TickBegin, CreateGame, MatchmakingDone, AnchorDelivered,
                AnchorMoved, AnchorFailed, AnchorsDone, GraceUnit, GraceDone, FlagUnit, TickEnd,
                UnitDone
    <3>2. tick'.started = tick.started
      BY <1>1, <3>1
    <3>3. QED
      BY <1>1, <2>1, <3>2
  <2>4. QED
    BY <2>2, <2>3
<1>6. CASE \E b \in BotId : RegisterBot(b) \/ RecordPoll(b) \/ DeliverForPoll(b) \/ Resign(b)
  BY <1>4, <1>6 DEF RegisterBot, RecordPoll, DeliverForPoll, Resign, Request
<1>7. CASE \E g \in GameId : SubmitMove(g) \/ AdminAbort(g)
  BY <1>4, <1>7 DEF SubmitMove, AdminAbort, Request
<1>8. QED
  BY <1>2, <1>3, <1>4, <1>5, <1>6, <1>7 DEF Next, SetPaused, vars

LEMMA StampsKept ==
  ASSUME IInv, IInv', [Next]_vars, tick.started <= now, NEW g \in GameId, StampsOK(games[g], now)
  PROVE  StampsOK(games'[g], now')
<1>1. /\ games[g] \in Row /\ RowShape(games[g]) /\ games[g].to_move \in Color
      /\ now \in Int /\ tick.started \in Int /\ now' \in Int
      /\ games[g].to_move_since_mono \in Int
      /\ games[g].turn_started_mono # NoTime => games[g].turn_started_mono \in Int
  BY DEF IInv, TypeOK, Row
<1>2. CASE Restart
  <2>1. ~IsLive(games'[g])
    BY <1>1, <1>2, RecoveredRow DEF Restart
  <2>2. QED
    BY <2>1 DEF StampsOK
<1> SUFFICES ASSUME ~Restart, now' >= now PROVE StampsOK(games'[g], now')
  BY <1>2, TimePasses
<1>3. CASE EndsGame(g)
  BY <1>3, EndedIsDead DEF StampsOK
<1>4. CASE Creates(g)
  <2>1. PICK white \in BotId, black \in BotId, rated \in {0, 1} :
          games'[g] = InsertGame(white, black, rated, tick.started)
    BY <1>4 DEF Creates
  <2>2. games'[g].to_move_since_mono = tick.started /\ games'[g].turn_started_mono = NoTime
    BY <1>1, <2>1, InsertGameType
  <2>3. QED
    BY <1>1, <2>2 DEF StampsOK
<1>5. CASE Delivers(g)
  <2>1. PICK t \in {now, tick.started} : games'[g] = CasDeliver(games[g], games[g].ply, t)
    BY <1>5 DEF Delivers
  <2>2. t \in Int /\ t <= now /\ IsLive(games[g])
    BY <1>1, <1>5, <2>1 DEF Delivers
  <2>3. \/ games'[g] = games[g]
        \/ /\ games'[g].to_move_since_mono = games[g].to_move_since_mono
           /\ games'[g].turn_started_mono = t
    BY <1>1, <2>1, <2>2, DeliverFields
  <2>4. QED
    BY <1>1, <2>2, <2>3 DEF StampsOK
<1>6. CASE StrikesBelow(g)
  <2> DEFINE struck == CasAddStrike(games[g], games[g].to_move)
  <2>1. /\ struck.status = games[g].status
        /\ struck.to_move_since_mono = games[g].to_move_since_mono
        /\ struck.turn_started_mono = games[g].turn_started_mono
    BY <1>1, StrikeFields
  <2>2. games'[g] = struck
    BY <1>6 DEF StrikesBelow
  <2> HIDE DEF struck
  <2>3. QED
    BY <1>1, <2>1, <2>2 DEF StampsOK, IsLive
<1>7. CASE MovesOn(g)
  <2>1. games'[g] = Moved(games[g], now) /\ InTime(g)
    BY <1>7 DEF MovesOn
  <2>2. games'[g].to_move_since_mono = now /\ games'[g].turn_started_mono = NoTime
    BY <2>1, MovedFields
  <2>3. QED
    BY <1>1, <2>2 DEF StampsOK
<1>8. CASE Unchanged(g)
  BY <1>1, <1>8 DEF Unchanged, StampsOK
<1>9. QED
  BY <1>3, <1>4, <1>5, <1>6, <1>7, <1>8, Changes DEF Change, EndsGame

LEMMA PollsKept ==
  ASSUME IInv, IInv', [Next]_vars, tick.started <= now, PollsOK
  PROVE  PollsOK'
<1>1. /\ now \in Int /\ now' \in Int /\ bots \in [BotId -> BotRow]
      /\ \A b \in BotId : bots[b].last_poll_mono # NoTime => bots[b].last_poll_mono \in Int
  BY DEF IInv, TypeOK, BotRow
<1>2. CASE Restart
  <2>1. \A b \in BotId : bots'[b].last_poll_mono = NoTime
    BY <1>1, <1>2 DEF Restart, BotRow
  <2>2. QED
    BY <2>1 DEF PollsOK
<1> SUFFICES ASSUME ~Restart, now' >= now, NEW b \in BotId,
                    bots'[b].last_poll_mono # NoTime,
                    bots'[b].last_poll_mono # bots[b].last_poll_mono
             PROVE  bots'[b].last_poll_mono <= now'
  BY <1>1, <1>2, TimePasses DEF PollsOK
<1>3. CASE UNCHANGED bots
  BY <1>3
<1>4. ASSUME NEW h \in GameId, NEW row, NEW status, NEW result, NEW termination,
             EndGame(h, row, status, result, termination)
      PROVE  FALSE
  <2>1. bots'[b] = bots[b] \/ \E bot : /\ bots'[b] = RememberGame(bot, row, b)
                                       /\ \/ bot = bots[b]
                                          \/ \E delta, outcome :
                                               bot = CountResult(bots[b], delta, outcome)
    BY <1>4, Zenon DEF EndGame
  <2>2. PICK bot : /\ bots'[b] = RememberGame(bot, row, b)
                   /\ \/ bot = bots[b]
                      \/ \E delta, outcome : bot = CountResult(bots[b], delta, outcome)
    BY <2>1
  <2>3. bot.last_poll_mono = bots[b].last_poll_mono /\ DOMAIN bot = DOMAIN bots[b]
    BY <1>1, <2>2, ZenonT(40) DEF CountResult, BotRow
  <2>4. bots'[b].last_poll_mono = bot.last_poll_mono
    BY <1>1, <2>2, <2>3 DEF RememberGame, BotRow
  <2>5. QED
    BY <2>3, <2>4
<1>5. ASSUME NEW c \in BotId, RegisterBot(c) PROVE bots'[b].last_poll_mono <= now'
  BY <1>1, <1>5 DEF RegisterBot, InsertBot
<1>6. ASSUME NEW c \in BotId, RecordPoll(c) PROVE bots'[b].last_poll_mono <= now'
  <2>1. bots'[b].last_poll_mono = now /\ now' = now
    BY <1>1, <1>6 DEF RecordPoll, Request, BotRow
  <2>2. QED
    BY <1>1, <2>1
<1>7. ASSUME NEW h \in GameId, MoveTooLate(h) \/ MoveRejected(h) \/ MoveAccepted(h) PROVE FALSE
  BY <1>3, <1>4, <1>7, Zenon
  DEF MoveTooLate, MoveRejected, MoveAccepted, ForfeitGame, FinaliseGame, OnlyGame
<1>8. CASE TickStep
  <2>1. CASE AnchorMoved
    BY <1>7, <2>1, AnchorMovedOK DEF AnchorMoved
  <2>2. CASE GraceUnit \/ FlagUnit
    <3>1. NextUnit \in GameId
      BY <2>2, GraceUnitOK, FlagUnitOK
    <3>2. QED
      BY <1>3, <1>4, <2>2, <3>1, Zenon DEF GraceUnit, FlagUnit, AbortGame, FinaliseGame
  <2>3. CASE ~(AnchorMoved \/ GraceUnit \/ FlagUnit)
    <3>1. UNCHANGED bots
      BY <1>8, <2>3 DEF TickStep, TickStart, TickBegin, CreateGame, MatchmakingDone,
        AnchorDelivered, AnchorFailed, AnchorsDone, GraceDone, TickEnd, OnlyGame
    <3>2. QED
      BY <1>3, <3>1
  <2>4. QED
    BY <2>1, <2>2, <2>3
<1>9. ASSUME NEW c \in BotId, DeliverForPoll(c) \/ Resign(c) PROVE FALSE
  <2>1. seats[c] \in GameId
    BY <1>9, ResignOK DEF DeliverForPoll, IInv, TypeOK
  <2>2. QED
    BY <1>3, <1>4, <1>9, <2>1, Zenon DEF DeliverForPoll, Resign, OnlyGame, FinaliseGame
<1>10. ASSUME NEW h \in GameId, SubmitMove(h) \/ AdminAbort(h) PROVE FALSE
  BY <1>4, <1>7, <1>10, Zenon DEF SubmitMove, AdminAbort, AbortGame
<1>11. CASE SetPaused \/ Advance \/ UNCHANGED vars
  BY <1>3, <1>11 DEF SetPaused, Advance, vars
<1>12. QED
  BY <1>5, <1>6, <1>8, <1>9, <1>10, <1>11 DEF Next

RInv ==
  /\ IInv
  /\ tick.started <= now
  /\ PollsOK
  /\ \A g \in GameId : LimitsOK(games[g]) /\ StampsOK(games[g], now)

LEMMA RInvInit == Init => RInv
<1> SUFFICES ASSUME Init PROVE RInv
  OBVIOUS
<1>1. IInv
  BY InitOK
<1>2. now \in Int /\ tick.started = now
  BY <1>1 DEF Init, IInv, TypeOK
<1>3. \A b \in BotId : bots[b].last_poll_mono = NoTime
  BY DEF Init, InsertBot
<1>4. \A g \in GameId : ~IsLive(games[g])
  BY DEF Init, FreeRow, IsLive, NonTerminal
<1>5. QED
  BY <1>1, <1>2, <1>3, <1>4 DEF RInv, PollsOK, LimitsOK, StampsOK

LEMMA RInvStep == RInv /\ IInv' /\ [Next]_vars => RInv'
<1> SUFFICES ASSUME RInv, IInv', [Next]_vars PROVE RInv'
  OBVIOUS
<1>1. tick'.started <= now'
  BY TimePasses DEF RInv
<1>2. PollsOK'
  BY PollsKept DEF RInv
<1>3. ASSUME NEW g \in GameId PROVE LimitsOK(games'[g]) /\ StampsOK(games'[g], now')
  BY <1>3, LimitsKept, StampsKept DEF RInv
<1>4. QED
  BY <1>1, <1>2, <1>3 DEF RInv

LEMMA RowsInductive == Spec => []RInv
<1>1. Init => RInv
  BY RInvInit
<1>2. RInv /\ IInv /\ IInv' /\ [Next]_vars => RInv'
  BY RInvStep
<1>3. Spec => []IInv
  BY Inductive
<1>4. QED
  BY <1>1, <1>2, <1>3, PTL DEF Spec

\* Every row a statement of the server reads is one it was written for: no
\* live game is past a limit that should have ended it, and no stamp, of this
\* process or of one before it, lies in the future of the clock it meets.
THEOREM RowsSoundAlways == Spec => []RowsSound
<1>1. RInv => RowsSound
  <2> SUFFICES ASSUME RInv PROVE RowsSound
    OBVIOUS
  <2>1. TypeOK /\ DeliveryShape /\ EndShape
    BY DEF RInv, IInv, RowShape, DeliveryShape, EndShape
  <2>2. LiveWithinLimits
    BY DEF RInv, LimitsOK, LiveWithinLimits, Live
  <2>3. StampsInThePast
    BY DEF RInv, StampsOK, PollsOK, StampsInThePast, Live
  <2>4. QED
    BY <2>1, <2>2, <2>3 DEF RowsSound
<1>2. QED
  BY <1>1, RowsInductive, PTL

-----------------------------------------------------------------------------
(* Losses                                                                  *)

\* A side that had run out at an instant of the past has run out now.
LEMMA FlagStays ==
  ASSUME NEW row \in Row, NEW t \in Int, NEW u \in Int, t <= u, row.turn_started_mono # NoTime,
         HasFlagged(ClockFromGame(row), t)
  PROVE  HasFlagged(ClockFromGame(row), u)
<1> DEFINE ns == MsToNs(row.ms[row.to_move])
           clock == ClockFromGame(row)
<1>1. row.to_move \in Color /\ row.ms[row.to_move] \in Int /\ row.turn_started_mono \in Int
  BY DEF Row
<1>2. ns \in Int
  BY <1>1, ClockAssumption DEF MsToNs
<1>3. clock.ns[clock.to_move] = ns /\ clock.turn_started_mono = row.turn_started_mono
  BY <1>1 DEF ClockFromGame
<1> HIDE DEF ns, clock
<1>4. \A i \in Int : RemainingNs(clock, clock.to_move, i) = ns - (i - row.turn_started_mono)
  BY <1>3 DEF RemainingNs
<1>5. RemainingNs(clock, clock.to_move, t) <= 0
  BY DEF HasFlagged, clock
<1>6. RemainingNs(clock, clock.to_move, u) <= 0
  BY <1>1, <1>2, <1>4, <1>5
<1>7. QED
  BY <1>6 DEF HasFlagged, clock

LEMMA GraceStaysOver ==
  ASSUME NEW row \in Row, NEW t \in Int, NEW u \in Int, t <= u,
         CheckDeliveryTimeout(ClockFromGame(row), t, Grace)
  PROVE  CheckDeliveryTimeout(ClockFromGame(row), u, Grace)
<1>1. row.to_move_since_mono \in Int /\ Grace \in Int
  BY ArenaAssumption DEF Row
<1>2. QED
  BY <1>1 DEF CheckDeliveryTimeout, ClockFromGame

\* The changes that leave a game going keep its reason of ending, and what it
\* says of its result.
LEMMA GoingOn ==
  ASSUME IInv, NEW g \in GameId, Creates(g) \/ Delivers(g) \/ StrikesBelow(g) \/ MovesOn(g)
  PROVE  games'[g].termination = games[g].termination /\ games'[g].result = games[g].result
<1>1. /\ games[g] \in Row /\ RowShape(games[g]) /\ games[g].to_move \in Color
      /\ now \in Int /\ tick.started \in Int
  BY DEF IInv, TypeOK, Row
<1>2. CASE Creates(g)
  <2>1. PICK white \in BotId, black \in BotId, rated \in {0, 1} :
          games'[g] = InsertGame(white, black, rated, tick.started)
    BY <1>2 DEF Creates
  <2>2. games'[g].termination = NoValue /\ games'[g].result = NoValue
    BY <1>1, <2>1, InsertGameType
  <2>3. QED
    BY <1>1, <1>2, <2>2 DEF Creates, RowShape
<1>3. CASE Delivers(g)
  BY <1>1, <1>3, DeliverFields DEF Delivers
<1>4. CASE StrikesBelow(g)
  <2> DEFINE struck == CasAddStrike(games[g], games[g].to_move)
  <2>1. struck.termination = games[g].termination /\ struck.result = games[g].result
    BY <1>1, StrikeFields
  <2>2. games'[g] = struck
    BY <1>4 DEF StrikesBelow
  <2> HIDE DEF struck
  <2>3. QED
    BY <2>1, <2>2
<1>5. CASE MovesOn(g)
  BY <1>5, MovedFields DEF MovesOn
<1>6. QED
  BY <1>2, <1>3, <1>4, <1>5

Earned(g) ==
  LET row == games[g]
  IN /\ Ends(g, "flag") =>
          /\ row.delivered_to_mover = 1
          /\ HasFlagged(ClockFromGame(row), now)
          /\ games'[g].result = OppositeWin(row.to_move)
     /\ Ends(g, "abandoned") \/ Ends(g, "no_show") =>
          CheckDeliveryTimeout(ClockFromGame(row), now, Grace)
     /\ Ends(g, "abandoned") =>
          row.ply > 0 /\ games'[g].result = OppositeWin(row.to_move)
     /\ Ends(g, "illegal_forfeit") =>
          \E c \in Color : /\ games'[g].strikes[c] = StrikeLimit
                           /\ games'[g].result = OppositeWin(c)

LEMMA EarnedStep ==
  ASSUME RInv, [Next]_vars, NEW g \in GameId
  PROVE  Earned(g)
<1>1. /\ games[g] \in Row /\ RowShape(games[g]) /\ games[g].to_move \in Color
      /\ now \in Int /\ tick.started \in Int /\ tick.started <= now
      /\ games[g].ply \in Nat /\ IInv /\ LimitsOK(games[g])
  BY DEF RInv, IInv, TypeOK, Row
<1>2. NoValue \notin {"flag", "abandoned", "no_show", "illegal_forfeit"}
  BY RowAssumption DEF Termination, Rule1Unrates
<1> DEFINE Unearned == {"flag", "abandoned", "no_show", "illegal_forfeit"}
           reason == games'[g].termination
<1>3. games[g].termination = NoValue /\ reason \in Unearned => Earned(g)
  <2> SUFFICES ASSUME games[g].termination = NoValue, reason \in Unearned PROVE Earned(g)
    OBVIOUS
  <2>1. ~Unchanged(g)
    BY <1>2 DEF Unchanged
  <2>2. ~(Creates(g) \/ Delivers(g) \/ StrikesBelow(g) \/ MovesOn(g))
    BY <1>1, <1>2, GoingOn
  <2>3. CASE Forfeits(g)
    <3> DEFINE c == games[g].to_move
               struck == CasAddStrike(games[g], c)
               new == CasTerminate(struck, "finished", OppositeWin(c), "illegal_forfeit")
    <3>1. struck \in Row /\ struck.strikes = [games[g].strikes EXCEPT ![c] = @ + 1]
      BY <1>1, StrikeFields
    <3>2. games[g].strikes[c] \in Nat /\ games[g].strikes[c] < StrikeLimit
      BY <1>1, <2>3 DEF Forfeits, InTime, Submitted, LimitsOK, Row
    <3>3. struck.strikes[c] = games[g].strikes[c] + 1
      BY <1>1, <3>1 DEF Row
    <3>4. struck.strikes[c] >= StrikeLimit /\ games'[g] = new
      BY <2>3 DEF Forfeits, Loses, EndsWith
    <3> HIDE DEF struck
    <3>5. /\ new.strikes = struck.strikes /\ new.result = OppositeWin(c)
          /\ new.termination = "illegal_forfeit"
      BY <3>1, TerminateFields
    <3> HIDE DEF new
    <3>6. struck.strikes[c] = StrikeLimit
      BY <3>2, <3>3, <3>4, ArenaAssumption
    <3>7. QED
      BY <1>1, <3>4, <3>5, <3>6 DEF Earned, Ends
  <2>4. CASE MoveEnds(g)
    <3> DEFINE moved == Moved(games[g], now)
    <3>1. moved \in Row
      BY <1>1, <2>4, MovedFields DEF MoveEnds
    <3>2. \E result : \E termination \in DrawRules \cup {"checkmate", "adjudicated"} :
            games'[g] = CasTerminate(moved, "finished", result, termination)
      BY <2>4 DEF MoveEnds, Loses, EndsWith
    <3> HIDE DEF moved
    <3>3. reason \in DrawRules \cup {"checkmate", "adjudicated"}
      BY <3>1, <3>2, TerminateFields
    <3>4. QED
      BY <3>3, RowAssumption
  <2>5. CASE FlagFalls(g)
    <3>1. /\ games'[g].termination = "flag"
          /\ games'[g].result = OppositeWin(games[g].to_move)
      BY <1>1, <2>5, TerminateFields DEF FlagFalls, Loses, EndsWith
    <3>2. games[g].delivered_to_mover = 1 /\ games[g].turn_started_mono # NoTime
      BY <1>1, <2>5 DEF FlagFalls, RowShape
    <3>3. HasFlagged(ClockFromGame(games[g]), now)
      BY <1>1, <2>5, <3>2, FlagStays DEF FlagFalls
    <3>4. QED
      BY <3>1, <3>2, <3>3 DEF Earned, Ends
  <2>6. CASE GraceOver(g)
    <3>1. CheckDeliveryTimeout(ClockFromGame(games[g]), now, Grace)
      BY <1>1, <2>6, GraceStaysOver DEF GraceOver
    <3>2. \/ games'[g].termination = "no_show"
          \/ /\ games[g].ply # 0 /\ games'[g].termination = "abandoned"
             /\ games'[g].result = OppositeWin(games[g].to_move)
      BY <1>1, <2>6, TerminateFields DEF GraceOver, Loses, EndsWith
    <3>3. QED
      BY <1>1, <3>1, <3>2 DEF Earned, Ends
  <2>7. CASE Resigns(g) \/ Aborts(g)
    <3>1. reason \in {"resignation", "admin_abort"}
      BY <1>1, <2>7, TerminateFields DEF Resigns, Aborts, Loses, EndsWith
    <3>2. QED
      BY <3>1
  <2>8. CASE Recovers(g)
    <3>1. reason \in {games[g].termination, "server_restart"}
      BY <1>1, <2>8 DEF Recovers, AbortNonTerminal, Row
    <3>2. QED
      BY <1>2, <3>1
  <2>9. QED
    BY <1>1, <2>1, <2>2, <2>3, <2>4, <2>5, <2>6, <2>7, <2>8, Changes DEF Change
<1>4. CASE ~(games[g].termination = NoValue /\ reason \in Unearned)
  BY <1>4 DEF Earned, Ends
<1>5. QED
  BY <1>3, <1>4

\* No flag falls early, although the ticker decides with the time it read
\* before it had the lock; no grace is cut short; no forfeit is declared for
\* fewer strikes than the limit, or for more.
THEOREM LossesEarnedAlways == Spec => LossesEarned
<1> DEFINE A == \A g \in GameId : Earned(g)
<1>1. RInv /\ [Next]_vars => [A]_vars
  BY EarnedStep
<1>2. Spec => [][A]_vars
  BY <1>1, RowsInductive, PTL DEF Spec
<1>3. QED
  BY <1>2 DEF LossesEarned, Earned

-----------------------------------------------------------------------------
(* Each row implements the life cycle of match.py.                         *)

\* An id without a row counts no plies.
FreshOK(row) == row.status = "free" => row.ply = 0

MInv == RInv /\ \A g \in GameId : FreshOK(games[g])

\* The step of Match that a change of a row is, or none.
MatchStep(g) == M(g)!Next \/ UNCHANGED M(g)!state

LEMMA ToTerminal ==
  ASSUME NEW g \in GameId, NEW row \in Row, NEW status, NEW result, NEW termination,
         IsLive(games[g]), row.ply = games[g].ply,
         EndsWith(g, row, status, result, termination),
         \/ /\ status = "aborted" /\ result = NoValue
            /\ termination \in {"no_show", "server_restart", "admin_abort"}
         \/ /\ status = "finished" /\ result \in {"white_win", "black_win"}
            /\ termination \in {"flag", "illegal_forfeit", "resignation", "abandoned"}
  PROVE  MatchStep(g)
<1>1. /\ games'[g].status = status /\ games'[g].result = result
      /\ games'[g].termination = termination /\ games'[g].ply = games[g].ply
  BY TerminateFields DEF EndsWith
<1>2. games[g].status \notin {"finished", "aborted", "free"}
  BY DEF IsLive, NonTerminal
<1>3. M(g)!TransitionToTerminal(termination, result)
  BY <1>1, <1>2 DEF M!TransitionToTerminal, M!AbortReasons, M!Ended
<1>4. M(g)!EndWithoutMove
  BY <1>3 DEF M!EndWithoutMove, M!AbortReasons
<1>5. QED
  BY <1>4 DEF MatchStep, M!Next

LEMMA MatchSteps ==
  ASSUME MInv, [Next]_vars, NEW g \in GameId
  PROVE  MatchStep(g) /\ FreshOK(games'[g])
<1>1. /\ games[g] \in Row /\ RowShape(games[g]) /\ games[g].to_move \in Color
      /\ now \in Int /\ tick.started \in Int /\ games[g].ply \in Nat
      /\ IInv /\ FreshOK(games[g])
      /\ IsLive(games[g]) => games[g].result = NoValue /\ games[g].termination = NoValue
  BY DEF MInv, RInv, IInv, TypeOK, Row, RowShape, IsLive
<1>2. \A c \in Color : OppositeWin(c) \in {"white_win", "black_win"}
  BY DEF OppositeWin
<1> DEFINE Same == /\ games'[g].status = games[g].status /\ games'[g].ply = games[g].ply
                   /\ games'[g].result = games[g].result
                   /\ games'[g].termination = games[g].termination
<1>3. Same => MatchStep(g) /\ FreshOK(games'[g])
  BY <1>1 DEF MatchStep, M!state, FreshOK
<1>4. CASE Unchanged(g)
  BY <1>3, <1>4 DEF Unchanged
<1>5. CASE Creates(g)
  <2>1. PICK white \in BotId, black \in BotId, rated \in {0, 1} :
          games'[g] = InsertGame(white, black, rated, tick.started)
    BY <1>5 DEF Creates
  <2>2. games'[g].status = "pending" /\ games'[g].ply = 0
    BY <1>1, <2>1, InsertGameType
  <2>3. M(g)!CreateMatch
    BY <1>1, <1>5, <2>2, GoingOn DEF M!CreateMatch, Creates, FreshOK
  <2>4. QED
    BY <2>2, <2>3 DEF MatchStep, M!Next, FreshOK
<1>6. CASE Delivers(g)
  <2>1. \/ Same
        \/ /\ games'[g].status = "active" /\ games'[g].ply = games[g].ply
           /\ games'[g].result = games[g].result
           /\ games'[g].termination = games[g].termination
    BY <1>1, <1>6, DeliverFields DEF Delivers
  <2>2. games[g].status \in {"pending", "active"}
    BY <1>6 DEF Delivers, IsLive, NonTerminal
  <2>3. Same \/ M(g)!TransitionToActive
    BY <2>1, <2>2 DEF M!TransitionToActive
  <2>4. QED
    BY <1>3, <2>1, <2>3 DEF MatchStep, M!Next, FreshOK
<1>7. CASE StrikesBelow(g)
  <2> DEFINE struck == CasAddStrike(games[g], games[g].to_move)
  <2>1. /\ struck.status = games[g].status /\ struck.ply = games[g].ply
        /\ struck.result = games[g].result /\ struck.termination = games[g].termination
    BY <1>1, StrikeFields
  <2>2. games'[g] = struck
    BY <1>7 DEF StrikesBelow
  <2> HIDE DEF struck
  <2>3. QED
    BY <1>3, <2>1, <2>2
<1>8. ASSUME InTime(g), NEW new, new = Moved(games[g], now)
      PROVE  /\ new \in Row /\ new.ply = games[g].ply + 1 /\ new.status = "active"
             /\ games[g].status = "active" /\ new.to_move \in Color
             /\ new.result = NoValue /\ new.termination = NoValue
  BY <1>1, <1>8, MovedFields DEF Row
<1>9. CASE MovesOn(g)
  <2> DEFINE new == Moved(games[g], now)
  <2>1. InTime(g) /\ games'[g] = new /\ ~(new.ply >= PlyCap)
    BY <1>9 DEF MovesOn
  <2>2. /\ new.ply = games[g].ply + 1 /\ new.status = "active" /\ games[g].status = "active"
        /\ new.result = NoValue /\ new.termination = NoValue
    BY <1>8, <2>1
  <2> HIDE DEF new
  <2>3. M(g)!TransitionAfterMove
    BY <2>1, <2>2 DEF M!TransitionAfterMove, M!Becomes, M!AfterMove
  <2>4. QED
    BY <2>1, <2>2, <2>3 DEF MatchStep, M!Next, FreshOK
<1>10. CASE MoveEnds(g)
  <2> DEFINE new == Moved(games[g], now)
  <2>1. /\ InTime(g)
        /\ \/ Loses(g, new, new.to_move, "checkmate")
           \/ \E rule \in DrawRules : EndsWith(g, new, "finished", "draw", rule)
           \/ new.ply >= PlyCap /\ EndsWith(g, new, "finished", "draw", "adjudicated")
    BY <1>10 DEF MoveEnds
  <2>2. new \in Row /\ new.ply = games[g].ply + 1 /\ games[g].status = "active"
        /\ new.to_move \in Color
    BY <1>8, <2>1
  <2> HIDE DEF new
  <2>3. ASSUME NEW result, NEW termination, EndsWith(g, new, "finished", result, termination)
        PROVE  /\ games'[g].status = "finished" /\ games'[g].result = result
               /\ games'[g].termination = termination /\ games'[g].ply = games[g].ply + 1
    BY <2>2, <2>3, TerminateFields DEF EndsWith
  <2>4. CASE Loses(g, new, new.to_move, "checkmate")
    <3>1. PICK result \in {"white_win", "black_win"} :
            EndsWith(g, new, "finished", result, "checkmate")
      BY <1>2, <2>2, <2>4 DEF Loses
    <3>2. M(g)!Becomes(M(g)!AfterMove(TRUE, "checkmate", result))
      BY <2>3, <3>1 DEF M!Becomes, M!AfterMove
    <3>3. QED
      BY <2>2, <2>3, <3>1, <3>2 DEF MatchStep, M!Next, M!TransitionAfterMove, FreshOK
  <2>5. CASE \E rule \in DrawRules : EndsWith(g, new, "finished", "draw", rule)
    <3>1. PICK rule \in DrawRules : EndsWith(g, new, "finished", "draw", rule)
      BY <2>5
    <3>2. M(g)!Becomes(M(g)!AfterMove(TRUE, rule, "draw"))
      BY <2>3, <3>1 DEF M!Becomes, M!AfterMove
    <3>3. QED
      BY <2>2, <2>3, <3>1, <3>2 DEF MatchStep, M!Next, M!TransitionAfterMove, FreshOK
  <2>6. CASE new.ply >= PlyCap /\ EndsWith(g, new, "finished", "draw", "adjudicated")
    <3>1. M(g)!Becomes(M(g)!AfterMove(FALSE, NoValue, NoValue))
      BY <2>2, <2>3, <2>6 DEF M!Becomes, M!AfterMove
    <3>2. QED
      BY <2>2, <2>3, <2>6, <3>1 DEF MatchStep, M!Next, M!TransitionAfterMove, FreshOK
  <2>7. QED
    BY <2>1, <2>4, <2>5, <2>6
<1>11. CASE Forfeits(g) \/ FlagFalls(g) \/ GraceOver(g) \/ Resigns(g) \/ Aborts(g)
  <2>1. IsLive(games[g])
    BY <1>11 DEF Forfeits, FlagFalls, GraceOver, Resigns, Aborts, InTime, Submitted
  <2>2. ASSUME Forfeits(g) PROVE MatchStep(g)
    <3> DEFINE struck == CasAddStrike(games[g], games[g].to_move)
    <3>1. struck \in Row /\ struck.ply = games[g].ply
      BY <1>1, StrikeFields
    <3>2. EndsWith(g, struck, "finished", OppositeWin(games[g].to_move), "illegal_forfeit")
      BY <2>2 DEF Forfeits, Loses
    <3> HIDE DEF struck
    <3>3. QED
      BY <1>1, <1>2, <2>1, <3>1, <3>2, ToTerminal
  <2>3. ASSUME FlagFalls(g) PROVE MatchStep(g)
    BY <1>1, <1>2, <2>1, <2>3, ToTerminal DEF FlagFalls, Loses
  <2>4. ASSUME GraceOver(g) PROVE MatchStep(g)
    BY <1>1, <1>2, <2>1, <2>4, ToTerminal DEF GraceOver, Loses
  <2>5. ASSUME Resigns(g) PROVE MatchStep(g)
    BY <1>1, <1>2, <2>1, <2>5, ToTerminal DEF Resigns, Loses
  <2>6. ASSUME Aborts(g) PROVE MatchStep(g)
    BY <1>1, <2>1, <2>6, ToTerminal DEF Aborts
  <2>7. MatchStep(g)
    BY <1>11, <2>2, <2>3, <2>4, <2>5, <2>6
  <2>8. CASE ~Forfeits(g)
    <3>1. games'[g].status \in {"finished", "aborted"}
      BY <1>1, <1>11, <2>8, TerminateFields
      DEF FlagFalls, GraceOver, Resigns, Aborts, Loses, EndsWith
    <3>2. QED
      BY <2>7, <3>1 DEF FreshOK
  <2>9. CASE Forfeits(g)
    <3> DEFINE struck == CasAddStrike(games[g], games[g].to_move)
    <3>1. struck \in Row
      BY <1>1, StrikeFields
    <3>2. games'[g] =
            CasTerminate(struck, "finished", OppositeWin(games[g].to_move), "illegal_forfeit")
      BY <2>9 DEF Forfeits, Loses, EndsWith
    <3> HIDE DEF struck
    <3>3. games'[g].status = "finished"
      BY <3>1, <3>2, TerminateFields
    <3>4. QED
      BY <2>7, <3>3 DEF FreshOK
  <2>10. QED
    BY <2>8, <2>9
<1>12. CASE Recovers(g)
  <2>1. CASE ~IsLive(games[g])
    BY <1>1, <1>3, <1>12, <2>1, RecoveredRow DEF Recovers
  <2>2. CASE IsLive(games[g])
    <3>1. /\ games'[g].status = "aborted" /\ games'[g].termination = "server_restart"
          /\ games'[g].result = NoValue /\ games'[g].ply = games[g].ply
      BY <1>1, <1>12, <2>2 DEF Recovers, AbortNonTerminal, Row
    <3>2. games[g].status \notin {"finished", "aborted", "free"}
      BY <2>2 DEF IsLive, NonTerminal
    <3>3. M(g)!TransitionToTerminal("server_restart", NoValue)
      BY <3>1, <3>2 DEF M!TransitionToTerminal, M!AbortReasons, M!Ended
    <3>4. QED
      BY <3>1, <3>3 DEF MatchStep, M!Next, M!EndWithoutMove, M!AbortReasons, FreshOK
  <2>3. QED
    BY <2>1, <2>2
<1>13. QED
  BY <1>1, <1>4, <1>5, <1>6, <1>7, <1>9, <1>10, <1>11, <1>12, Changes DEF Change

\* Every row goes through the states of a match of match.py and no others: each
\* statement that writes one is a transition function of that module or leaves
\* the match as it was, for any number of games and bots.
THEOREM ImplementsMatchAlways == Spec => ImplementsMatch
<1> DEFINE A == \A g \in GameId : [M(g)!Next]_(M(g)!state)
           Start == \A g \in GameId : M(g)!Init
<1>1. Init => Start
  BY DEF Init, M!Init, FreeRow
<1>2. Init => MInv
  BY RInvInit DEF MInv, Init, FreshOK, FreeRow
<1>3. MInv /\ RInv' /\ [Next]_vars => MInv'
  BY MatchSteps DEF MInv
<1>4. MInv /\ [Next]_vars => [A]_vars
  BY MatchSteps DEF MatchStep
<1>5. Spec => Start
  BY <1>1 DEF Spec
<1>6. Spec => [][A]_vars
  BY <1>2, <1>3, <1>4, RowsInductive, PTL DEF Spec
<1>7. QED
  BY <1>5, <1>6 DEF ImplementsMatch

-----------------------------------------------------------------------------
(* The sum of a table's deltas.  The fold takes its entries in an order of *)
(* its own; that it is the sum in any order is shown by a least            *)
(* counterexample, as the induction theorems cannot be used.               *)

Pick(S) == CHOOSE h \in S : TRUE

Sums(S) == CHOOSE f : f = [s \in SUBSET S |->
                             IF s = {} THEN 0 ELSE Pick(s).delta + f[s \ {Pick(s)}]]

LEMMA TotalIs ==
  ASSUME NEW S
  PROVE TotalDelta(S) = Sums(S)[S]
BY Zenon DEF TotalDelta, MapThenSumSet, MapThenFoldSet, Sums, Pick

IsSums(f, S) ==
  f = [s \in SUBSET S |-> IF s = {} THEN 0 ELSE Pick(s).delta + f[s \ {Pick(s)}]]

Deltas(S) == IsFiniteSet(S) /\ \A h \in S : h.delta \in Int

UpTo(S, n) == {s \in SUBSET S : Cardinality(s) <= n}

\* The recursion on the subsets of at most n entries has a solution.
Solves(f, S, n) ==
  /\ f \in [UpTo(S, n) -> Int]
  /\ \A s \in UpTo(S, n) :
       f[s] = IF s = {} THEN 0 ELSE Pick(s).delta + f[s \ {Pick(s)}]

LEMMA Smaller ==
  ASSUME NEW S, IsFiniteSet(S), NEW s \in SUBSET S, NEW h \in s
  PROVE  /\ IsFiniteSet(s) /\ Cardinality(s) \in Nat /\ Cardinality(s) # 0
         /\ s \ {h} \in SUBSET S /\ Cardinality(s \ {h}) = Cardinality(s) - 1
<1>1. IsFiniteSet(s)
  BY FS_Subset
<1>2. Cardinality(s) \in Nat /\ Cardinality(s \ {h}) = Cardinality(s) - 1
  BY <1>1, FS_CardinalityType, FS_RemoveElement
<1>3. Cardinality(s) # 0
  BY <1>1, FS_EmptySet
<1>4. QED
  BY <1>1, <1>2, <1>3

LEMMA PickIn ==
  ASSUME NEW s, s # {}
  PROVE  Pick(s) \in s
BY DEF Pick

LEMMA Solvable ==
  ASSUME NEW S, Deltas(S)
  PROVE  \A n \in Nat : \E f : Solves(f, S, n)
<1> DEFINE Bad == {n \in Nat : ~ \E f : Solves(f, S, n)}
<1> SUFFICES ASSUME Bad # {} PROVE FALSE
  OBVIOUS
<1>1. PICK n \in Bad : \A m \in Bad : n <= m
  BY LeastId
<1>2. ASSUME NEW s \in SUBSET S, s # {}
      PROVE  /\ Pick(s) \in s /\ Pick(s).delta \in Int
             /\ Cardinality(s) \in Nat /\ Cardinality(s) # 0
             /\ s \ {Pick(s)} \in SUBSET S /\ Cardinality(s \ {Pick(s)}) = Cardinality(s) - 1
  BY <1>2, PickIn, Smaller DEF Deltas
<1>3. CASE n = 0
  <2> DEFINE f == [s \in UpTo(S, 0) |-> 0]
  <2>1. ASSUME NEW s \in UpTo(S, 0) PROVE s = {}
    <3>1. s \in SUBSET S /\ Cardinality(s) <= 0
      BY DEF UpTo
    <3>2. ~(Cardinality(s) \in Nat /\ Cardinality(s) # 0)
      BY <3>1
    <3>3. QED
      BY <1>2, <3>1, <3>2
  <2>2. Solves(f, S, 0)
    BY <2>1 DEF Solves
  <2>3. QED
    BY <1>3, <2>2
<1>4. CASE n # 0
  <2>1. n - 1 \in Nat /\ n - 1 \notin Bad
    BY <1>1, <1>4
  <2>2. PICK f : Solves(f, S, n - 1)
    BY <2>1
  <2> DEFINE Step(s) == IF s = {} THEN 0 ELSE Pick(s).delta + f[s \ {Pick(s)}]
             g == [s \in UpTo(S, n) |-> Step(s)]
  <2>3. ASSUME NEW s \in UpTo(S, n), s # {}
        PROVE  s \ {Pick(s)} \in UpTo(S, n - 1) /\ s \ {Pick(s)} \in UpTo(S, n)
    BY <1>2, <2>1, <2>3 DEF UpTo
  <2>4. \A s \in UpTo(S, n - 1) : f[s] \in Int /\ f[s] = Step(s)
    BY <2>2 DEF Solves
  <2>5. ASSUME NEW s \in UpTo(S, n)
        PROVE  Step(s) \in Int
    <3>1. CASE s # {}
      <4>1. f[s \ {Pick(s)}] \in Int /\ Pick(s).delta \in Int
        BY <1>2, <2>3, <2>4, <3>1 DEF UpTo
      <4>2. QED
        BY <3>1, <4>1
    <3>2. QED
      BY <3>1
  <2>6. ASSUME NEW s \in UpTo(S, n)
        PROVE  g[s] = IF s = {} THEN 0 ELSE Pick(s).delta + g[s \ {Pick(s)}]
    <3>1. g[s] = Step(s)
      OBVIOUS
    <3>2. CASE s # {}
      <4>1. g[s \ {Pick(s)}] = Step(s \ {Pick(s)}) /\ Step(s \ {Pick(s)}) = f[s \ {Pick(s)}]
        BY <2>3, <2>4, <3>2
      <4>2. QED
        BY <3>1, <3>2, <4>1
    <3>3. QED
      BY <3>1, <3>2
  <2>7. g \in [UpTo(S, n) -> Int]
    BY <2>5
  <2> HIDE DEF g
  <2>8. Solves(g, S, n)
    BY <2>6, <2>7 DEF Solves
  <2>9. QED
    BY <1>1, <2>8
<1>5. QED
  BY <1>3, <1>4

LEMMA SumsExist ==
  ASSUME NEW S, Deltas(S)
  PROVE  IsSums(Sums(S), S)
<1>1. IsFiniteSet(S) /\ Cardinality(S) \in Nat
  BY FS_CardinalityType DEF Deltas
<1>2. PICK f : Solves(f, S, Cardinality(S))
  BY <1>1, Solvable
<1>3. UpTo(S, Cardinality(S)) = SUBSET S
  BY <1>1, FS_Subset DEF UpTo
<1>4. IsSums(f, S)
  BY <1>2, <1>3 DEF Solves, IsSums
<1>5. QED
  BY <1>4 DEF Sums, IsSums

\* The sum over a part does not depend on the whole it is a part of.
LEMMA SumsAgree ==
  ASSUME NEW S, Deltas(S), NEW T \in SUBSET S
  PROVE  \A s \in SUBSET T : Sums(S)[s] = Sums(T)[s] /\ Sums(S)[s] \in Int
<1>1. Deltas(T)
  BY FS_Subset DEF Deltas
<1>2. IsSums(Sums(S), S) /\ IsSums(Sums(T), T)
  BY <1>1, SumsExist
<1> DEFINE f == Sums(S)
           g == Sums(T)
           Bad == {s \in SUBSET T : ~(f[s] = g[s] /\ f[s] \in Int)}
           Sizes == {Cardinality(s) : s \in Bad}
<1>3. /\ \A s \in SUBSET S : f[s] = IF s = {} THEN 0 ELSE Pick(s).delta + f[s \ {Pick(s)}]
      /\ \A s \in SUBSET T : g[s] = IF s = {} THEN 0 ELSE Pick(s).delta + g[s \ {Pick(s)}]
  BY <1>2, Zenon DEF IsSums
<1> HIDE DEF f, g
<1> SUFFICES ASSUME Bad # {} PROVE FALSE
  BY DEF f, g
<1>4. Sizes \subseteq Nat /\ Sizes # {}
  BY <1>1, FS_Subset, FS_CardinalityType DEF Deltas
<1>5. PICK n \in Sizes : \A m \in Sizes : n <= m
  BY <1>4, LeastId
<1>6. PICK s \in Bad : n = Cardinality(s)
  BY <1>5
<1>7. s # {}
  BY <1>3, <1>6
<1>8. /\ Pick(s) \in s /\ Pick(s).delta \in Int /\ Cardinality(s) \in Nat
      /\ s \ {Pick(s)} \in SUBSET T /\ Cardinality(s \ {Pick(s)}) = Cardinality(s) - 1
  BY <1>1, <1>6, <1>7, PickIn, Smaller DEF Deltas
<1> DEFINE rest == s \ {Pick(s)}
<1>9. rest \notin Bad
  <2>1. rest \in Bad => n <= Cardinality(rest)
    BY <1>5
  <2>2. QED
    BY <1>6, <1>8, <2>1
<1>10. f[rest] = g[rest] /\ f[rest] \in Int
  BY <1>8, <1>9
<1>11. f[s] = Pick(s).delta + f[rest] /\ g[s] = Pick(s).delta + g[rest]
  BY <1>3, <1>6, <1>7
<1>12. f[s] = g[s] /\ f[s] \in Int
  BY <1>8, <1>10, <1>11
<1>13. QED
  BY <1>6, <1>12

\* The sum by the entry it takes first, which is any of them.
LEMMA TotalPicks ==
  ASSUME NEW S, Deltas(S)
  PROVE  /\ TotalDelta(S) \in Int
         /\ TotalDelta(S) = IF S = {} THEN 0 ELSE Pick(S).delta + TotalDelta(S \ {Pick(S)})
<1>1. IsSums(Sums(S), S)
  BY SumsExist
<1>2. /\ Sums(S)[S] \in Int
      /\ Sums(S)[S] = IF S = {} THEN 0 ELSE Pick(S).delta + Sums(S)[S \ {Pick(S)}]
  <2>1. S \in SUBSET S
    OBVIOUS
  <2>2. Sums(S)[S] \in Int
    BY <2>1, SumsAgree
  <2>3. Sums(S)[S] = IF S = {} THEN 0 ELSE Pick(S).delta + Sums(S)[S \ {Pick(S)}]
    BY <1>1, <2>1, Zenon DEF IsSums
  <2>4. QED
    BY <2>2, <2>3
<1>3. Sums(S)[S \ {Pick(S)}] = Sums(S \ {Pick(S)})[S \ {Pick(S)}]
  BY SumsAgree
<1>4. QED
  BY <1>2, <1>3, TotalIs

LEMMA TotalTakes ==
  ASSUME NEW S, Deltas(S), NEW h \in S
  PROVE  TotalDelta(S) = h.delta + TotalDelta(S \ {h})
<1> DEFINE Bad == {s \in SUBSET S : \E x \in s : TotalDelta(s) # x.delta + TotalDelta(s \ {x})}
           Sizes == {Cardinality(s) : s \in Bad}
<1> SUFFICES ASSUME Bad # {} PROVE FALSE
  OBVIOUS
<1>1. \A s \in SUBSET S : Deltas(s)
  BY FS_Subset DEF Deltas
<1>2. Sizes \subseteq Nat /\ Sizes # {}
  BY <1>1, FS_CardinalityType DEF Deltas
<1>3. PICK n \in Sizes : \A m \in Sizes : n <= m
  BY <1>2, LeastId
<1>4. PICK s \in Bad : n = Cardinality(s)
  BY <1>3
<1>5. PICK x \in s : TotalDelta(s) # x.delta + TotalDelta(s \ {x})
  OBVIOUS
<1> DEFINE p == Pick(s)
           both == (s \ {p}) \ {x}
<1>6. s # {} /\ p \in s /\ s \in SUBSET S
  BY <1>5, PickIn
<1>7. TotalDelta(s) = p.delta + TotalDelta(s \ {p})
  BY <1>1, <1>6, TotalPicks
<1> HIDE DEF p
<1>8. p # x
  BY <1>5, <1>7
<1>9. ASSUME NEW y \in s PROVE s \ {y} \in SUBSET S /\ s \ {y} \notin Bad
  <2>1. Cardinality(s) \in Nat /\ Cardinality(s \ {y}) = Cardinality(s) - 1
    BY <1>1, <1>6, Smaller DEF Deltas
  <2>2. s \ {y} \in Bad => n <= Cardinality(s \ {y})
    BY <1>3
  <2>3. ~(n <= Cardinality(s \ {y}))
    BY <1>4, <2>1
  <2>4. s \ {y} \in SUBSET S
    BY <1>6
  <2>5. QED
    BY <2>2, <2>3, <2>4
<1>10. TotalDelta(s \ {p}) = x.delta + TotalDelta(both)
  BY <1>6, <1>8, <1>9
<1>11. TotalDelta(s \ {x}) = p.delta + TotalDelta(both)
  <2>1. (s \ {x}) \ {p} = both
    OBVIOUS
  <2>2. QED
    BY <1>6, <1>8, <1>9, <2>1
<1>12. /\ x.delta \in Int /\ p.delta \in Int /\ TotalDelta(both) \in Int
       /\ TotalDelta(s \ {p}) \in Int /\ TotalDelta(s \ {x}) \in Int
  BY <1>1, <1>6, TotalPicks DEF Deltas
<1>13. QED
  BY <1>5, <1>7, <1>10, <1>11, <1>12

LEMMA TotalAdds ==
  ASSUME NEW S, Deltas(S), NEW h, h \notin S, h.delta \in Int
  PROVE  TotalDelta(S \cup {h}) = TotalDelta(S) + h.delta /\ TotalDelta(S) \in Int
<1>1. Deltas(S \cup {h})
  BY FS_AddElement DEF Deltas
<1>2. (S \cup {h}) \ {h} = S
  OBVIOUS
<1>3. TotalDelta(S \cup {h}) = h.delta + TotalDelta(S)
  BY <1>1, <1>2, TotalTakes
<1>4. TotalDelta(S) \in Int
  BY TotalPicks
<1>5. QED
  BY <1>3, <1>4

LEMMA TotalOfNone == TotalDelta({}) = 0
BY FS_EmptySet, TotalPicks DEF Deltas

-----------------------------------------------------------------------------
(* The books: ratings, counters and history against the games.             *)

\* What a step does to the tables of games and bots.
LEMMA Kinds ==
  ASSUME IInv, [Next]_vars
  PROVE  \/ \E g \in GameId : IsLive(games[g]) /\ (Continues(g) \/ Concludes(g))
         \/ \E b \in BotId : RegisterBot(b) \/ RecordPoll(b)
         \/ \E white, black \in BotId : CreateGame(white, black)
         \/ Restart
         \/ UNCHANGED <<bots, games, seats, ratingHistory>>
<1> DEFINE Goal == \E g \in GameId : IsLive(games[g]) /\ (Continues(g) \/ Concludes(g))
<1>1. TablesOK /\ now \in Int /\ tick.started \in Int
  BY TablesOfIInv DEF IInv, TypeOK
<1>2. \A g \in GameId : games[g] \in Row /\ RowShape(games[g])
  BY <1>1 DEF TablesOK
<1>3. ASSUME NEW b \in BotId, DeliverForPoll(b) PROVE Goal
  <2> DEFINE g == seats[b]
             new == CasDeliver(games[g], games[g].ply, now)
  <2>1. g \in GameId /\ IsLive(games[g]) /\ OnlyGame(g, new)
    BY <1>1, <1>3 DEF DeliverForPoll, CanDeliver, TablesOK
  <2>2. GoesOn(games[g], new)
    BY <1>1, <1>2, <2>1, DeliverGoesOn
  <2>3. QED
    BY <2>1, <2>2 DEF Continues
<1>4. ASSUME NEW b \in BotId, Resign(b) PROVE Goal
  <2> DEFINE g == seats[b]
             c == IF games[g].white_bot_id = b THEN "white" ELSE "black"
  <2>1. /\ g \in GameId /\ IsLive(games[g])
        /\ EndGame(g, games[g], "finished", OppositeWin(c), "resignation")
    BY <1>1, <1>4 DEF Resign, FinaliseGame, TablesOK
  <2>2. LegalEnd("finished", OppositeWin(c), "resignation")
    BY OppositeWinType DEF LegalEnd, Termination, Rule1Unrates
  <2>3. GoesOn(games[g], games[g])
    BY <1>2, <2>1, LiveGoesOn
  <2>4. QED
    BY <2>1, <2>2, <2>3 DEF Concludes
<1>5. ASSUME NEW g \in GameId, SubmitMove(g) PROVE Goal
  BY <1>1, <1>5, SubmissionIs DEF SubmitMove
<1>6. ASSUME NEW g \in GameId, AdminAbort(g) PROVE Goal
  <2>1. LegalEnd("aborted", NoValue, "admin_abort")
    BY DEF LegalEnd, Rule1Unrates
  <2>2. QED
    BY <1>2, <1>6, <2>1, LiveGoesOn DEF AdminAbort, AbortGame, Concludes
<1>7. ASSUME AnchorDelivered \/ AnchorMoved \/ GraceUnit \/ FlagUnit
      PROVE  Goal \/ UNCHANGED <<bots, games, seats, ratingHistory>>
  <2> DEFINE g == NextUnit
  <2>1. g \in GameId /\ IsLive(games[g])
    BY <1>7, AnchorDeliveredOK, AnchorMovedOK, GraceUnitOK, FlagUnitOK
  <2>2. games[g] \in Row /\ RowShape(games[g]) /\ GoesOn(games[g], games[g])
    BY <1>2, <2>1, LiveGoesOn
  <2>3. CASE AnchorDelivered
    <3>1. GoesOn(games[g], CasDeliver(games[g], games[g].ply, tick.started))
      BY <1>1, <2>1, <2>2, DeliverGoesOn
    <3>2. QED
      BY <2>1, <2>3, <3>1 DEF AnchorDelivered, Continues
  <2>4. CASE AnchorMoved
    BY <1>1, <2>1, <2>4, SubmissionIs DEF AnchorMoved
  <2>5. CASE GraceUnit \/ FlagUnit
    <3> DEFINE row == games[g]
    <3>1. /\ LegalEnd("aborted", NoValue, "no_show")
          /\ LegalEnd("finished", OppositeWin(row.to_move), "abandoned")
          /\ LegalEnd("finished", OppositeWin(row.to_move), "flag")
      BY OppositeWinType DEF LegalEnd, Termination, Rule1Unrates
    <3>2. \/ UNCHANGED <<bots, games, seats, ratingHistory>>
          \/ EndGame(g, row, "aborted", NoValue, "no_show")
          \/ EndGame(g, row, "finished", OppositeWin(row.to_move), "abandoned")
          \/ EndGame(g, row, "finished", OppositeWin(row.to_move), "flag")
      BY <2>5 DEF GraceUnit, FlagUnit, AbortGame, FinaliseGame
    <3>3. QED
      BY <2>1, <2>2, <3>1, <3>2 DEF Concludes
  <2>6. QED
    BY <1>7, <2>3, <2>4, <2>5
<1>8. CASE TickStart \/ TickBegin \/ MatchmakingDone \/ AnchorFailed \/ AnchorsDone
           \/ GraceDone \/ TickEnd \/ SetPaused \/ Advance \/ UNCHANGED vars
  BY <1>8 DEF TickStart, TickBegin, MatchmakingDone, AnchorFailed, AnchorsDone,
              GraceDone, TickEnd, SetPaused, Advance, vars
<1>9. QED
  BY <1>3, <1>4, <1>5, <1>6, <1>7, <1>8 DEF Next, TickStep

\* Nobody is taken off the list of bots, and only bots on it are paired.
LEMMA OnlyRegisteredPool ==
  ASSUME IInv, [Next]_vars, tick.pool \subseteq registered
  PROVE  registered \subseteq registered' /\ tick'.pool \subseteq registered'
<1>1. tick \in [pc : TickPc, started : Int, pool : SUBSET BotId, todo : SUBSET GameId]
  BY DEF IInv, TypeOK
<1>2. CASE \E b \in BotId : RegisterBot(b)
  BY <1>2 DEF RegisterBot, Request
<1>3. CASE \E b \in BotId : RecordPoll(b) \/ DeliverForPoll(b) \/ Resign(b)
  BY <1>3 DEF RecordPoll, DeliverForPoll, Resign, Request
<1>4. CASE \E g \in GameId : SubmitMove(g) \/ AdminAbort(g)
  BY <1>4 DEF SubmitMove, AdminAbort, Request
<1>5. CASE TickBegin
  <2> DEFINE pool == IF paused THEN {} ELSE Pool
  <2>1. pool \subseteq registered
    BY DEF Pool
  <2> HIDE DEF pool
  <2>2. tick' = [tick EXCEPT !.pc = "matchmaking", !.pool = pool] /\ registered' = registered
    BY <1>5, Zenon DEF TickBegin, pool
  <2>3. QED
    BY <1>1, <2>1, <2>2
<1>6. CASE \E white, black \in BotId : CreateGame(white, black)
  <2>1. PICK white \in BotId, black \in BotId : CreateGame(white, black)
    BY <1>6
  <2>2. tick' = [tick EXCEPT !.pool = @ \ {white, black}] /\ registered' = registered
    BY <2>1, Zenon DEF CreateGame
  <2>3. QED
    BY <1>1, <2>2
<1>7. CASE TickStart \/ MatchmakingDone \/ AnchorDelivered \/ AnchorMoved \/ AnchorFailed
           \/ AnchorsDone \/ GraceUnit \/ GraceDone \/ FlagUnit \/ TickEnd
  <2>1. registered' = registered
    BY <1>7 DEF TickStart, MatchmakingDone, AnchorDelivered, AnchorMoved, AnchorFailed,
                AnchorsDone, GraceUnit, GraceDone, FlagUnit, TickEnd
  <2>2. tick'.pool = tick.pool \/ tick'.pool = {}
    BY <1>1, <1>7 DEF TickStart, MatchmakingDone, AnchorDelivered, AnchorMoved, AnchorFailed,
                AnchorsDone, GraceUnit, GraceDone, FlagUnit, TickEnd, UnitDone
  <2>3. QED
    BY <2>1, <2>2
<1>8. CASE SetPaused \/ Advance \/ Restart \/ UNCHANGED vars
  BY <1>8 DEF SetPaused, Advance, Restart, vars
<1>9. QED
  BY <1>2, <1>3, <1>4, <1>5, <1>6, <1>7, <1>8 DEF Next, TickStep

\* The players of every game that exists have registered.
PlayersRegistered ==
  /\ tick.pool \subseteq registered
  /\ \A g \in GameId : games[g].status # "free" => Players(games[g]) \subseteq registered

LEMMA EndedFields ==
  ASSUME NEW row \in Row, NEW status, NEW result, NEW termination
  PROVE  LET new == CasTerminate(row, status, result, termination)
         IN /\ new.status = status /\ new.result = result
            /\ new.white_bot_id = row.white_bot_id /\ new.black_bot_id = row.black_bot_id
BY DEF CasTerminate, Row

LEMMA PairedRow ==
  ASSUME NEW white \in BotId, NEW black \in BotId, NEW rated \in {0, 1}, NEW t \in Int
  PROVE  LET new == InsertGame(white, black, rated, t)
         IN /\ new.white_bot_id = white /\ new.black_bot_id = black
            /\ new.status = "pending"
<1> DEFINE new == InsertGame(white, black, rated, t)
<1>1. new = [white_bot_id |-> white, black_bot_id |-> black, status |-> "pending",
             result |-> NoValue, termination |-> NoValue, ply |-> 0,
             to_move |-> "white", ms |-> [c \in Color |-> NsToMs(TimeControl)],
             to_move_since_mono |-> t, turn_started_mono |-> NoTime,
             delivered_to_mover |-> 0, rated |-> rated,
             strikes |-> [c \in Color |-> 0]]
  BY InsertGameType, ZenonT(40)
<1>2. QED
  BY <1>1

\* Only pairing brings players to a game.
LEMMA WhoPlays ==
  ASSUME IInv, [Next]_vars, NEW g \in GameId, games'[g].status # "free"
  PROVE  \/ games[g].status # "free" /\ Players(games'[g]) = Players(games[g])
         \/ Players(games'[g]) \subseteq tick.pool
<1>1. games \in [GameId -> Row]
  BY DEF IInv, TypeOK
<1>2. ASSUME NEW h \in GameId, IsLive(games[h]), NEW row, GoesOn(games[h], row), OnlyGame(h, row)
      PROVE  games[g].status # "free" /\ Players(games'[g]) = Players(games[g])
  BY <1>1, <1>2 DEF OnlyGame, GoesOn, SamePlayers, Players, IsLive, NonTerminal
<1>3. ASSUME NEW h \in GameId, IsLive(games[h]), NEW row, GoesOn(games[h], row),
             NEW status, NEW result, NEW termination,
             EndGame(h, row, status, result, termination)
      PROVE  games[g].status # "free" /\ Players(games'[g]) = Players(games[g])
  <2> DEFINE new == CasTerminate(row, status, result, termination)
  <2>1. new.white_bot_id = row.white_bot_id /\ new.black_bot_id = row.black_bot_id
    BY <1>3, EndedFields DEF GoesOn
  <2>2. games' = [games EXCEPT ![h] = new]
    BY <1>3 DEF EndGame
  <2> HIDE DEF new
  <2>3. QED
    BY <1>1, <1>3, <2>1, <2>2 DEF GoesOn, SamePlayers, Players, IsLive, NonTerminal
<1>4. CASE \E h \in GameId : IsLive(games[h]) /\ (Continues(h) \/ Concludes(h))
  BY <1>2, <1>3, <1>4 DEF Continues, Concludes
<1>5. ASSUME NEW white \in BotId, NEW black \in BotId, CreateGame(white, black)
      PROVE  \/ games[g].status # "free" /\ Players(games'[g]) = Players(games[g])
             \/ Players(games'[g]) \subseteq tick.pool
  <2> DEFINE h == CHOOSE h \in GameId : /\ games[h].status = "free"
                                       /\ \A k \in GameId : games[k].status = "free" => h <= k
             rated == RatedAtCreation(white, black)
             new == InsertGame(white, black, rated, tick.started)
  <2>1. games' = [games EXCEPT ![h] = new] /\ {white, black} \subseteq tick.pool
    BY <1>5, Zenon DEF CreateGame
  <2>2. rated \in {0, 1} /\ tick.started \in Int
    BY DEF RatedAtCreation, IInv, TypeOK
  <2> HIDE DEF h, rated
  <2>3. new.white_bot_id = white /\ new.black_bot_id = black
    BY <2>2, PairedRow
  <2> HIDE DEF new
  <2>4. games'[g] = games[g] \/ games'[g] = new
    BY <1>1, <2>1
  <2>5. QED
    BY <2>1, <2>3, <2>4 DEF Players
<1>6. CASE Restart
  <2>1. games'[g] = AbortNonTerminal(games[g]) /\ games[g] \in Row
    BY <1>1, <1>6 DEF Restart
  <2>2. /\ games'[g].white_bot_id = games[g].white_bot_id
        /\ games'[g].black_bot_id = games[g].black_bot_id
        /\ IsLive(games[g]) \/ games'[g] = games[g]
    BY <2>1 DEF AbortNonTerminal, Row
  <2>3. QED
    BY <2>2 DEF Players, IsLive, NonTerminal
<1>7. CASE games' = games
  BY <1>7
<1>8. QED
  BY <1>4, <1>5, <1>6, <1>7, Kinds DEF RegisterBot, RecordPoll

LEMMA PlayersRegisteredKept ==
  ASSUME IInv, [Next]_vars, PlayersRegistered
  PROVE  PlayersRegistered'
BY WhoPlays, OnlyRegisteredPool DEF PlayersRegistered

-----------------------------------------------------------------------------
(* What the end of a game writes in the books.                             *)

LEMMA CountResultFields ==
  ASSUME NEW bot \in BotRow, NEW delta \in Int, NEW outcome
  PROVE  LET new == CountResult(bot, delta, outcome)
         IN /\ new \in BotRow
            /\ new.rating = bot.rating + delta
            /\ new.wins = IF outcome = "win" THEN bot.wins + 1 ELSE bot.wins
            /\ new.losses = IF outcome = "loss" THEN bot.losses + 1 ELSE bot.losses
            /\ new.draws = IF outcome = "draw" THEN bot.draws + 1 ELSE bot.draws
            /\ new.games_played = bot.games_played + 1
<1>1. CountResult(bot, delta, outcome) \in BotRow
  BY CountResultType
<1>2. QED
  BY <1>1, ZenonT(60) DEF CountResult, BotRow

\* The columns the identities are about.
SameBooks(new, bot) ==
  /\ new.rating = bot.rating
  /\ new.wins = bot.wins /\ new.losses = bot.losses /\ new.draws = bot.draws
  /\ new.games_played = bot.games_played

LEMMA RememberGameBooks ==
  ASSUME NEW bot \in BotRow, NEW row, NEW b
  PROVE  SameBooks(RememberGame(bot, row, b), bot)
<1> DEFINE colour == IF b = row.white_bot_id THEN "white" ELSE "black"
           opponent == IF b = row.white_bot_id THEN row.black_bot_id ELSE row.white_bot_id
           whites == IF b = row.white_bot_id THEN bot.white_count + 1 ELSE bot.white_count
<1> HIDE DEF colour, opponent, whites
<1>1. RememberGame(bot, row, b) =
        [bot EXCEPT !.last_color = colour, !.last_opponent_id = opponent,
                    !.white_count = whites]
  BY Zenon DEF RememberGame, colour, opponent, whites
<1>2. QED
  BY <1>1 DEF SameBooks, BotRow

\* The history row of a bot for a game.
HistoryOf(b, g, delta) ==
  [bot_id |-> b, game_id |-> g, rating_before |-> bots[b].rating,
   rating_after |-> bots[b].rating + delta, delta |-> delta]

\* An end rates the competitors of a rated game, counts a result for both
\* players, and leaves the books of everyone else alone.
LEMMA EndGameBooks ==
  ASSUME TablesOK, NEW g \in GameId, IsLive(games[g]),
         NEW row, GoesOn(games[g], row),
         NEW status, NEW result, NEW termination,
         LegalEnd(status, result, termination),
         EndGame(g, row, status, result, termination)
  PROVE  \E deltas :
           /\ DOMAIN deltas \subseteq Players(row) \ Anchor
           /\ \A b \in DOMAIN deltas : deltas[b] \in Int
           /\ result = NoValue => DOMAIN deltas = {}
           /\ ratingHistory' = ratingHistory \cup {HistoryOf(b, g, deltas[b]) : b \in DOMAIN deltas}
           /\ \A b \in BotId :
                IF b \in Players(row) /\ result # NoValue
                THEN LET outcome == OutcomeFor(row, b, result)
                         delta == IF b \in DOMAIN deltas THEN deltas[b] ELSE 0
                     IN SameBooks(bots'[b], CountResult(bots[b], delta, outcome))
                ELSE SameBooks(bots'[b], bots[b])
<1> DEFINE rated == IsRated(row, result, termination)
           deltas == IF rated THEN RatingDeltas(row, result) ELSE <<>>
           DeltaOf(b) == IF b \in DOMAIN deltas THEN deltas[b] ELSE 0
           Counted(b) == IF result = NoValue THEN bots[b]
                         ELSE CountResult(bots[b], DeltaOf(b), OutcomeFor(row, b, result))
<1>1. /\ row \in Row /\ RowShape(row) /\ IsLive(row)
      /\ row.white_bot_id \in BotId /\ row.black_bot_id \in BotId
      /\ row.white_bot_id # row.black_bot_id
  BY DEF GoesOn, RowShape, IsLive, NonTerminal
<1>2. /\ DOMAIN deltas = IF rated THEN Players(row) \ Anchor ELSE {}
      /\ \A b \in DOMAIN deltas : deltas[b] \in Int
  <2>1. CASE rated
    BY <1>1, <2>1, DeltasType DEF TablesOK
  <2>2. CASE ~rated
    BY <2>2
  <2>3. QED
    BY <2>1, <2>2
<1>3. /\ bots' = [b \in BotId |-> IF b \in Players(row)
                                  THEN RememberGame(Counted(b), row, b)
                                  ELSE bots[b]]
      /\ ratingHistory' = ratingHistory \cup {HistoryOf(b, g, deltas[b]) : b \in DOMAIN deltas}
  BY Zenon DEF EndGame, HistoryOf
<1>4. result = NoValue => ~rated
  BY DEF IsRated
<1> HIDE DEF rated, deltas
<1>5. ASSUME NEW b \in BotId
      PROVE  bots[b] \in BotRow /\ DeltaOf(b) \in Int /\ Counted(b) \in BotRow
  <2>1. DeltaOf(b) \in Int
    BY <1>2
  <2>2. bots[b] \in BotRow
    BY DEF TablesOK, BotsTyped
  <2> HIDE DEF DeltaOf
  <2>3. QED
    BY <2>1, <2>2, CountResultType
<1>6. ASSUME NEW b \in BotId
      PROVE  IF b \in Players(row) /\ result # NoValue
             THEN SameBooks(bots'[b], CountResult(bots[b], DeltaOf(b), OutcomeFor(row, b, result)))
             ELSE SameBooks(bots'[b], bots[b])
  <2>1. CASE b \in Players(row)
    <3>1. bots'[b] = RememberGame(Counted(b), row, b)
      BY <1>3, <2>1
    <3>2. SameBooks(bots'[b], Counted(b))
      BY <1>5, <3>1, RememberGameBooks
    <3>3. QED
      BY <2>1, <3>2
  <2>2. CASE b \notin Players(row)
    BY <1>3, <2>2 DEF SameBooks
  <2>3. QED
    BY <2>1, <2>2
<1> HIDE DEF Counted
<1>7. /\ DOMAIN deltas \subseteq Players(row) \ Anchor
      /\ result = NoValue => DOMAIN deltas = {}
  BY <1>2, <1>4
<1>8. QED
  BY <1>2, <1>3, <1>6, <1>7, Zenon

-----------------------------------------------------------------------------
(* The identities.                                                         *)

Finished == {g \in GameId : games[g].status = "finished"}

Identities ==
  /\ IsFiniteSet(ratingHistory) /\ IsFiniteSet(Finished)
  /\ RatingConsistent
  /\ CountersMatchGames

LEMMA EntriesTyped ==
  ASSUME IInv, IsFiniteSet(ratingHistory), NEW b
  PROVE  Deltas(EntriesOf(b))
<1>1. EntriesOf(b) \subseteq ratingHistory /\ ratingHistory \subseteq HistoryRow
  BY DEF EntriesOf, IInv, TypeOK
<1>2. QED
  BY <1>1, FS_Subset DEF Deltas, HistoryRow

\* A step that leaves the books and the finished games alone.
LEMMA IdentitiesStay ==
  ASSUME Identities, ratingHistory' = ratingHistory,
         \A b \in BotId : SameBooks(bots'[b], bots[b]),
         \A g \in GameId :
           games[g].status = "finished" \/ games'[g].status = "finished" =>
             games'[g] = games[g]
  PROVE  Identities'
<1>1. Finished' = Finished
  BY DEF Finished
<1>2. \A b, outcome : FinishedAs(b, outcome)' = FinishedAs(b, outcome)
  BY DEF FinishedAs
<1>3. \A b : SumDeltasByBot(b)' = SumDeltasByBot(b)
  BY DEF SumDeltasByBot, EntriesOf
<1>4. RatingConsistent'
  BY <1>3 DEF Identities, RatingConsistent, SameBooks
<1>5. CountersMatchGames'
  BY <1>2 DEF Identities, CountersMatchGames, SameBooks
<1>6. QED
  BY <1>1, <1>4, <1>5 DEF Identities

LEMMA ConcludesKeepsIdentities ==
  ASSUME IInv, Identities, NEW g \in GameId, IsLive(games[g]), Concludes(g)
  PROVE  Identities'
<1>1. PICK row, status, result, termination :
        /\ GoesOn(games[g], row) /\ LegalEnd(status, result, termination)
        /\ EndGame(g, row, status, result, termination)
  BY DEF Concludes
<1> DEFINE new == CasTerminate(row, status, result, termination)
<1>2. TablesOK /\ games \in [GameId -> Row] /\ games[g].status # "finished"
  BY TablesOfIInv DEF IInv, TypeOK, IsLive, NonTerminal
<1>3. /\ row \in Row /\ Players(row) = Players(games[g])
      /\ new.status = status /\ new.result = result
      /\ new.white_bot_id = row.white_bot_id /\ new.black_bot_id = row.black_bot_id
  BY <1>1, EndedFields DEF GoesOn, SamePlayers, Players
<1>4. games'[g] = new /\ \A h \in GameId : h # g => games'[h] = games[h]
  BY <1>1, <1>2 DEF EndGame
<1>5. PICK deltas :
        /\ DOMAIN deltas \subseteq Players(row) \ Anchor
        /\ \A b \in DOMAIN deltas : deltas[b] \in Int
        /\ result = NoValue => DOMAIN deltas = {}
        /\ ratingHistory' = ratingHistory \cup {HistoryOf(b, g, deltas[b]) : b \in DOMAIN deltas}
        /\ \A b \in BotId :
             IF b \in Players(row) /\ result # NoValue
             THEN LET outcome == OutcomeFor(row, b, result)
                      delta == IF b \in DOMAIN deltas THEN deltas[b] ELSE 0
                  IN SameBooks(bots'[b], CountResult(bots[b], delta, outcome))
             ELSE SameBooks(bots'[b], bots[b])
  BY <1>1, <1>2, EndGameBooks, Zenon
<1> HIDE DEF new
<1> DEFINE Delta(b) == IF b \in DOMAIN deltas THEN deltas[b] ELSE 0
           Scores(b) == b \in Players(row) /\ result # NoValue
           Outcome(b) == OutcomeFor(row, b, result)
<1>6. \A b \in BotId :
        /\ bots[b] \in BotRow /\ Delta(b) \in Int
        /\ IF Scores(b) THEN SameBooks(bots'[b], CountResult(bots[b], Delta(b), Outcome(b)))
                        ELSE SameBooks(bots'[b], bots[b])
  BY <1>2, <1>5 DEF TablesOK, BotsTyped
<1>7. \A b \in BotId : Outcome(b) \in {"win", "draw", "loss"}
  BY OutcomeIsOne
<1>8. status = "finished" <=> result # NoValue
  BY <1>1, RowAssumption DEF LegalEnd
<1>9. \A b, outcome :
        FinishedAs(b, outcome)' = IF Scores(b) /\ Outcome(b) = outcome
                                  THEN FinishedAs(b, outcome) \cup {g}
                                  ELSE FinishedAs(b, outcome)
  <2>1. Players(new) = Players(row) /\ \A b : OutcomeFor(new, b, result) = Outcome(b)
    BY <1>3 DEF Players, OutcomeFor
  <2> SUFFICES ASSUME NEW b, NEW outcome, NEW h \in GameId
               PROVE  h \in FinishedAs(b, outcome)' <=>
                        \/ h \in FinishedAs(b, outcome)
                        \/ h = g /\ Scores(b) /\ Outcome(b) = outcome
    BY DEF FinishedAs
  <2>2. CASE h = g
    BY <1>2, <1>3, <1>4, <1>8, <2>1, <2>2 DEF FinishedAs
  <2>3. CASE h # g
    BY <1>4, <2>3 DEF FinishedAs
  <2>4. QED
    BY <2>2, <2>3
<1>10. ASSUME NEW b, NEW outcome
       PROVE  /\ Cardinality(FinishedAs(b, outcome)) \in Nat
              /\ Cardinality(FinishedAs(b, outcome)') =
                   IF Scores(b) /\ Outcome(b) = outcome
                   THEN Cardinality(FinishedAs(b, outcome)) + 1
                   ELSE Cardinality(FinishedAs(b, outcome))
  <2>1. IsFiniteSet(FinishedAs(b, outcome)) /\ g \notin FinishedAs(b, outcome)
    <3>1. FinishedAs(b, outcome) \subseteq Finished /\ g \notin Finished
      BY <1>2 DEF FinishedAs, Finished
    <3>2. QED
      BY <3>1, FS_Subset DEF Identities
  <2>2. QED
    BY <1>9, <2>1, FS_AddElement, FS_CardinalityType
<1>11. IsFiniteSet(Finished')
  <2>1. Finished' \subseteq Finished \cup {g}
    BY <1>4 DEF Finished
  <2>2. QED
    BY <2>1, FS_Subset, FS_AddElement DEF Identities
<1>12. IsFiniteSet(ratingHistory')
  <2> DEFINE added == {HistoryOf(b, g, deltas[b]) : b \in DOMAIN deltas}
             white == HistoryOf(row.white_bot_id, g, deltas[row.white_bot_id])
             black == HistoryOf(row.black_bot_id, g, deltas[row.black_bot_id])
  <2>1. added \subseteq {white} \cup {black}
    BY <1>5 DEF Players
  <2> HIDE DEF added, white, black
  <2>2. IsFiniteSet({white} \cup {black})
    BY FS_Singleton, FS_Union
  <2>3. IsFiniteSet(added)
    BY <2>1, <2>2, FS_Subset
  <2>4. QED
    BY <1>5, <2>3, FS_Union DEF Identities, added
<1>13. CountersMatchGames'
  <2> SUFFICES ASSUME NEW b \in BotId
               PROVE  /\ bots'[b].wins = Cardinality(FinishedAs(b, "win")')
                      /\ bots'[b].losses = Cardinality(FinishedAs(b, "loss")')
                      /\ bots'[b].draws = Cardinality(FinishedAs(b, "draw")')
                      /\ bots'[b].games_played = bots'[b].wins + bots'[b].losses + bots'[b].draws
    BY DEF CountersMatchGames
  <2>1. /\ bots[b].wins = Cardinality(FinishedAs(b, "win"))
        /\ bots[b].losses = Cardinality(FinishedAs(b, "loss"))
        /\ bots[b].draws = Cardinality(FinishedAs(b, "draw"))
        /\ bots[b].games_played = bots[b].wins + bots[b].losses + bots[b].draws
        /\ bots[b].wins \in Nat /\ bots[b].losses \in Nat /\ bots[b].draws \in Nat
    BY <1>10 DEF Identities, CountersMatchGames
  <2>2. CASE ~Scores(b)
    BY <1>6, <1>10, <2>1, <2>2 DEF SameBooks
  <2>3. CASE Scores(b)
    <3> DEFINE counted == CountResult(bots[b], Delta(b), Outcome(b))
    <3>1. /\ counted.wins = IF Outcome(b) = "win" THEN bots[b].wins + 1 ELSE bots[b].wins
          /\ counted.losses = IF Outcome(b) = "loss" THEN bots[b].losses + 1 ELSE bots[b].losses
          /\ counted.draws = IF Outcome(b) = "draw" THEN bots[b].draws + 1 ELSE bots[b].draws
          /\ counted.games_played = bots[b].games_played + 1
      BY <1>6, CountResultFields
    <3>2. SameBooks(bots'[b], counted)
      BY <1>6, <2>3
    <3> HIDE DEF counted, Outcome, Scores, Delta
    <3>3. QED
      BY <1>7, <1>10, <2>1, <2>3, <3>1, <3>2 DEF SameBooks
  <2>4. QED
    BY <2>2, <2>3
<1>14. RatingConsistent'
  <2> SUFFICES ASSUME NEW b \in BotId \ Anchor
               PROVE  bots'[b].rating = STARTING_RATING + SumDeltasByBot(b)'
    BY DEF RatingConsistent
  <2>1. /\ bots[b].rating = STARTING_RATING + TotalDelta(EntriesOf(b))
        /\ Deltas(EntriesOf(b)) /\ TotalDelta(EntriesOf(b)) \in Int
    BY EntriesTyped, TotalPicks DEF Identities, RatingConsistent, SumDeltasByBot
  <2>2. bots'[b].rating = bots[b].rating + Delta(b)
    <3>1. CASE Scores(b)
      BY <1>6, <3>1, CountResultFields DEF SameBooks
    <3>2. CASE ~Scores(b)
      <4>1. Delta(b) = 0
        BY <1>5, <3>2
      <4>2. bots[b].rating \in Int
        BY <1>6 DEF BotRow
      <4>3. QED
        BY <1>6, <3>2, <4>1, <4>2 DEF SameBooks
    <3>3. QED
      BY <3>1, <3>2
  <2>3. \A c \in DOMAIN deltas :
          /\ HistoryOf(c, g, deltas[c]).bot_id = c
          /\ HistoryOf(c, g, deltas[c]).delta = deltas[c]
          /\ HistoryOf(c, g, deltas[c]).game_id = g
    BY DEF HistoryOf
  <2>4. \A h \in ratingHistory : h.game_id # g
    <3>1. {h.bot_id : h \in {x \in ratingHistory : x.game_id = g}} = {}
      BY <1>2 DEF IInv, RatedExactlyOnce
    <3>2. QED
      BY <3>1
  <2>5. CASE b \in DOMAIN deltas
    <3> DEFINE h == HistoryOf(b, g, deltas[b])
    <3>1. EntriesOf(b)' = EntriesOf(b) \cup {h} /\ h \notin EntriesOf(b)
      BY <1>5, <2>3, <2>4, <2>5 DEF EntriesOf
    <3>2. h.delta = deltas[b] /\ deltas[b] \in Int
      BY <1>5, <2>3, <2>5
    <3> HIDE DEF h
    <3>3. TotalDelta(EntriesOf(b)') = TotalDelta(EntriesOf(b)) + deltas[b]
      BY <2>1, <3>1, <3>2, TotalAdds
    <3>4. QED
      BY <2>1, <2>2, <2>5, <3>2, <3>3 DEF SumDeltasByBot, STARTING_RATING
  <2>6. CASE b \notin DOMAIN deltas
    <3>1. EntriesOf(b)' = EntriesOf(b)
      BY <1>5, <2>3, <2>6 DEF EntriesOf
    <3>2. QED
      BY <2>1, <2>2, <2>6, <3>1 DEF SumDeltasByBot, STARTING_RATING
  <2>7. QED
    BY <2>5, <2>6
<1>15. QED
  BY <1>11, <1>12, <1>13, <1>14 DEF Identities

\* A bot that registers has played nothing.
LEMMA RegisterBotKeepsIdentities ==
  ASSUME IInv, PlayersRegistered, Identities, NEW b \in BotId, RegisterBot(b)
  PROVE  Identities'
<1>1. PICK owner \in Owner : bots' = [bots EXCEPT ![b] = InsertBot(b, owner)]
  BY DEF RegisterBot
<1>2. /\ b \notin registered /\ games' = games /\ ratingHistory' = ratingHistory
      /\ bots \in [BotId -> BotRow]
  BY DEF RegisterBot, IInv, TypeOK
<1>3. \A c \in BotId : c # b => bots'[c] = bots[c]
  BY <1>1, <1>2
<1>4. /\ bots'[b].rating = IF b \in Anchor THEN AnchorRating[b] ELSE STARTING_RATING
      /\ bots'[b].wins = 0 /\ bots'[b].losses = 0 /\ bots'[b].draws = 0
      /\ bots'[b].games_played = 0
  BY <1>1, <1>2 DEF InsertBot
<1>5. Finished' = Finished /\ \A c, outcome : FinishedAs(c, outcome)' = FinishedAs(c, outcome)
  BY <1>2 DEF Finished, FinishedAs
<1>6. \A c : SumDeltasByBot(c)' = SumDeltasByBot(c)
  BY <1>2 DEF SumDeltasByBot, EntriesOf
<1>7. \A g \in GameId : games[g].status = "finished" => b \notin Players(games[g])
  BY <1>2 DEF PlayersRegistered
<1>8. \A outcome : FinishedAs(b, outcome) = {}
  BY <1>7 DEF FinishedAs
<1>9. EntriesOf(b) = {}
  <2> SUFFICES ASSUME NEW h \in ratingHistory, h.bot_id = b PROVE FALSE
    BY DEF EntriesOf
  <2>1. h.game_id \in GameId
    BY DEF IInv, TypeOK, HistoryRow
  <2>2. h.bot_id \in Paid(games[h.game_id])
    BY <2>1 DEF IInv, RatedExactlyOnce, Paid
  <2>3. QED
    BY <1>7, <2>1, <2>2 DEF Paid
<1>10. CountersMatchGames'
  <2>1. Cardinality({}) = 0
    BY FS_EmptySet
  <2> SUFFICES ASSUME NEW c \in BotId
               PROVE  /\ bots'[c].wins = Cardinality(FinishedAs(c, "win"))
                      /\ bots'[c].losses = Cardinality(FinishedAs(c, "loss"))
                      /\ bots'[c].draws = Cardinality(FinishedAs(c, "draw"))
                      /\ bots'[c].games_played = bots'[c].wins + bots'[c].losses + bots'[c].draws
    BY <1>5 DEF CountersMatchGames
  <2>2. CASE c = b
    BY <1>4, <1>8, <2>1, <2>2
  <2>3. CASE c # b
    BY <1>3, <2>3 DEF Identities, CountersMatchGames
  <2>4. QED
    BY <2>2, <2>3
<1>11. RatingConsistent'
  <2> SUFFICES ASSUME NEW c \in BotId \ Anchor
               PROVE  bots'[c].rating = STARTING_RATING + SumDeltasByBot(c)
    BY <1>6 DEF RatingConsistent
  <2>1. CASE c = b
    BY <1>4, <1>9, <2>1, TotalOfNone DEF SumDeltasByBot, STARTING_RATING
  <2>2. CASE c # b
    BY <1>3, <2>2 DEF Identities, RatingConsistent
  <2>3. QED
    BY <2>1, <2>2
<1>12. QED
  BY <1>2, <1>5, <1>10, <1>11 DEF Identities

LEMMA IdentitiesStep ==
  ASSUME IInv, PlayersRegistered, Identities, [Next]_vars
  PROVE  Identities'
<1>1. /\ games \in [GameId -> Row] /\ bots \in [BotId -> BotRow]
      /\ \A b \in BotId : SameBooks(bots[b], bots[b])
  BY DEF IInv, TypeOK, SameBooks
<1>2. ASSUME NEW g \in GameId, IsLive(games[g]), Continues(g) PROVE Identities'
  <2>1. PICK row : GoesOn(games[g], row) /\ OnlyGame(g, row)
    BY <1>2 DEF Continues
  <2>2. bots' = bots /\ ratingHistory' = ratingHistory /\ games' = [games EXCEPT ![g] = row]
    BY <2>1 DEF OnlyGame
  <2>3. row.status # "finished" /\ games[g].status # "finished"
    BY <1>2, <2>1 DEF GoesOn, IsLive, NonTerminal
  <2>4. QED
    BY <1>1, <2>2, <2>3, IdentitiesStay
<1>3. ASSUME NEW b \in BotId, RecordPoll(b) PROVE Identities'
  <2>1. /\ bots' = [bots EXCEPT ![b].last_poll_mono = now]
        /\ games' = games /\ ratingHistory' = ratingHistory
    BY <1>3 DEF RecordPoll
  <2>2. \A c \in BotId : SameBooks(bots'[c], bots[c])
    BY <1>1, <2>1 DEF SameBooks, BotRow
  <2>3. QED
    BY <2>1, <2>2, IdentitiesStay
<1>4. ASSUME NEW white \in BotId, NEW black \in BotId, CreateGame(white, black) PROVE Identities'
  <2>1. \A g \in GameId : games[g].status # "free" => games'[g] = games[g]
    BY <1>4, CreateGameOK
  <2>2. \A g \in GameId : games[g].status = "free" => games'[g].status # "finished"
    <3> DEFINE h == CHOOSE h \in GameId : /\ games[h].status = "free"
                                         /\ \A k \in GameId : games[k].status = "free" => h <= k
               rated == RatedAtCreation(white, black)
               new == InsertGame(white, black, rated, tick.started)
    <3>1. games' = [games EXCEPT ![h] = new]
      BY <1>4, Zenon DEF CreateGame
    <3>2. rated \in {0, 1} /\ tick.started \in Int
      BY DEF RatedAtCreation, IInv, TypeOK
    <3> HIDE DEF h, rated
    <3>3. new.status = "pending"
      BY <3>2, PairedRow
    <3> HIDE DEF new
    <3>4. QED
      BY <1>1, <3>1, <3>3
  <2>3. UNCHANGED <<bots, ratingHistory>>
    BY <1>4 DEF CreateGame
  <2>4. QED
    BY <1>1, <2>1, <2>2, <2>3, IdentitiesStay
<1>5. CASE Restart
  <2>1. \A g \in GameId : ~IsLive(games[g]) => games'[g] = games[g]
    BY <1>5, RestartOK
  <2>2. ASSUME NEW g \in GameId, IsLive(games[g]) PROVE games'[g].status = "aborted"
    <3>1. games'[g] = AbortNonTerminal(games[g]) /\ games[g] \in Row
      BY <1>1, <1>5 DEF Restart
    <3>2. QED
      BY <2>2, <3>1 DEF AbortNonTerminal, Row
  <2>3. /\ ratingHistory' = ratingHistory
        /\ bots' = [b \in BotId |-> [bots[b] EXCEPT !.last_poll_mono = NoTime]]
    BY <1>5 DEF Restart
  <2>4. \A b \in BotId : SameBooks(bots'[b], bots[b])
    BY <1>1, <2>3 DEF SameBooks, BotRow
  <2>5. QED
    BY <2>1, <2>2, <2>3, <2>4, IdentitiesStay DEF IsLive, NonTerminal
<1>6. CASE UNCHANGED <<bots, games, seats, ratingHistory>>
  BY <1>1, <1>6, IdentitiesStay
<1>7. QED
  BY <1>2, <1>3, <1>4, <1>5, <1>6, Kinds, ConcludesKeepsIdentities, RegisterBotKeepsIdentities

LEMMA IdentitiesInit == Init => PlayersRegistered /\ Identities
<1> SUFFICES ASSUME Init PROVE PlayersRegistered /\ Identities
  OBVIOUS
<1>1. \A g \in GameId : games[g].status = "free"
  BY DEF Init, FreeRow
<1>2. Finished = {} /\ ratingHistory = {} /\ tick.pool = {}
  BY <1>1 DEF Finished, Init
<1>3. \A b, outcome : FinishedAs(b, outcome) = {}
  BY <1>1 DEF FinishedAs
<1>4. ASSUME NEW b \in BotId
      PROVE  /\ bots[b].rating = IF b \in Anchor THEN AnchorRating[b] ELSE STARTING_RATING
             /\ bots[b].wins = 0 /\ bots[b].losses = 0 /\ bots[b].draws = 0
             /\ bots[b].games_played = 0
  <2>1. bots[b] = InsertBot(b, "server")
    BY DEF Init
  <2>2. QED
    BY <2>1 DEF InsertBot
<1>5. CountersMatchGames
  <2>1. Cardinality({}) = 0
    BY FS_EmptySet
  <2>2. \A b, outcome : Cardinality(FinishedAs(b, outcome)) = 0
    BY <1>3, <2>1
  <2>3. QED
    BY <1>4, <2>2 DEF CountersMatchGames
<1>6. RatingConsistent
  <2>1. \A b : SumDeltasByBot(b) = 0
    BY <1>2, TotalOfNone DEF SumDeltasByBot, EntriesOf
  <2>2. QED
    BY <1>4, <2>1 DEF RatingConsistent, STARTING_RATING
<1>7. QED
  BY <1>1, <1>2, <1>5, <1>6, FS_EmptySet DEF PlayersRegistered, Identities

LEMMA BooksInductive == Spec => [](PlayersRegistered /\ Identities)
<1>1. IInv /\ PlayersRegistered /\ Identities /\ [Next]_vars => (PlayersRegistered /\ Identities)'
  BY PlayersRegisteredKept, IdentitiesStep
<1>2. QED
  BY <1>1, IdentitiesInit, Inductive, PTL DEF Spec

\* The one alarm of the server against rating twice, asked only at startup,
\* never rings: a competitor's rating is the starting rating plus the deltas
\* on record for it, after every transaction and every restart.
THEOREM RatingConsistentAlways == Spec => []RatingConsistent
<1>1. Identities => RatingConsistent
  BY DEF Identities
<1>2. QED
  BY <1>1, BooksInductive, PTL

\* The counters a bot is shown on the leaderboard are the finished games it
\* played in, by outcome, anchors included.
THEOREM CountersMatchGamesAlways == Spec => []CountersMatchGames
<1>1. Identities => CountersMatchGames
  BY DEF Identities
<1>2. QED
  BY <1>1, BooksInductive, PTL

-----------------------------------------------------------------------------
(* The clock and the stopwatch (ClockLedger).                              *)

\* The turn is stamped exactly while the position is delivered, and the game
\* of the ledger never ends.
TurnShape ==
  /\ IsLive(ledger)
  /\ ledger.delivered_to_mover = 1 <=> ledger.turn_started_mono \in Int

LedgerIInv == LedgerTypeOK /\ TurnShape /\ LedgerAgrees

\* What each side has left, in the columns of the row.
LEMMA RemainingOfRow ==
  ASSUME NEW r \in Row, NEW c \in Color, NEW n \in Int
  PROVE  /\ RemainingNs(ClockFromGame(r), c, n) =
              IF c # r.to_move \/ r.turn_started_mono = NoTime
              THEN MsToNs(r.ms[c])
              ELSE MsToNs(r.ms[c]) - (n - r.turn_started_mono)
         /\ MsToNs(r.ms[c]) \in Int
<1>1. r.ms[c] \in Int
  BY DEF Row
<1>2. QED
  BY <1>1, RoundTripMs DEF RemainingNs, ClockFromGame

\* One more move gives one more increment and rounds once more.
LEMMA OneMoreMove ==
  ASSUME NEW m \in Int, NEW k \in Int
  PROVE  m * k \in Int /\ (m + 1) * k = m * k + k
BY SMT

\* A settled clock on its way through the table.
LEMMA RoundedSum ==
  ASSUME NEW left \in Int, NEW inc \in Int
  PROVE  /\ MsToNs(NsToMs(left + inc)) \in Int
         /\ MsToNs(NsToMs(left + inc)) <= left + inc
         /\ left + inc - (NsPerMs - 1) <= MsToNs(NsToMs(left + inc))
BY ClockAssumption, SMT DEF NsToMs, MsToNs

LEMMA LedgerInitOK == LedgerInit => LedgerIInv
<1> SUFFICES ASSUME LedgerInit PROVE LedgerIInv
  OBVIOUS
<1>1. /\ ledger \in Row
      /\ ledger = [white_bot_id |-> NoBot, black_bot_id |-> NoBot, status |-> "pending",
                   result |-> NoValue, termination |-> NoValue, ply |-> 0,
                   to_move |-> "white", ms |-> [c \in Color |-> NsToMs(TimeControl)],
                   to_move_since_mono |-> instant, turn_started_mono |-> NoTime,
                   delivered_to_mover |-> 0, rated |-> 1,
                   strikes |-> [c \in Color |-> 0]]
  BY InsertGameType DEF LedgerInit
<1>2. LedgerTypeOK
  BY <1>1 DEF LedgerInit, LedgerTypeOK
<1>3. TurnShape
  BY <1>1, ClockAssumption DEF TurnShape, IsLive, NonTerminal
<1>4. ASSUME NEW c \in Color
      PROVE  Remaining(c) = Exact(c) /\ Remaining(c) \in Int /\ moves[c] = 0
  <2>1. Remaining(c) = MsToNs(NsToMs(TimeControl)) /\ Remaining(c) \in Int
    BY <1>1, RemainingOfRow DEF Remaining, LedgerInit
  <2>2. MsToNs(NsToMs(Increment)) \in Int
    BY RowAssumption, RoundTripNs
  <2>3. QED
    BY <2>1, <2>2 DEF LedgerInit, Exact
<1>5. LedgerAgrees
  BY <1>4, ClockAssumption DEF LedgerAgrees
<1>6. QED
  BY <1>2, <1>3, <1>5 DEF LedgerIInv

LEMMA LedgerDeliverOK == LedgerIInv /\ Deliver => LedgerIInv'
<1> SUFFICES ASSUME LedgerIInv, Deliver PROVE LedgerIInv'
  OBVIOUS
<1> USE DEF LedgerIInv
<1>1. ledger \in Row /\ instant \in Int
  BY DEF LedgerTypeOK
<1>2. LedgerTypeOK'
  BY <1>1, CasDeliverType DEF Deliver, LedgerTypeOK
<1>3. CASE ~CanDeliver(ledger, ledger.ply)
  <2>1. UNCHANGED ledgerVars
    BY <1>3 DEF Deliver, CasDeliver, ledgerVars
  <2>2. QED
    BY <1>2, <2>1 DEF ledgerVars, TurnShape, IsLive, LedgerAgrees, Remaining, Exact
<1>4. CASE CanDeliver(ledger, ledger.ply)
  <2>1. /\ ledger' = [ledger EXCEPT !.turn_started_mono = instant, !.delivered_to_mover = 1,
                                    !.status = "active"]
        /\ ledger' \in Row
    BY <1>2, <1>4 DEF Deliver, CasDeliver, LedgerTypeOK
  <2>2. TurnShape'
    BY <1>1, <2>1 DEF TurnShape, IsLive, NonTerminal, Row
  <2>3. ASSUME NEW c \in Color
        PROVE  Remaining(c)' = Remaining(c) /\ Exact(c)' = Exact(c)
    <3>1. ledger.turn_started_mono = NoTime
      BY <1>1, <1>4 DEF CanDeliver, TurnShape, Row
    <3>2. /\ RemainingNs(ClockFromGame(ledger), c, instant) = MsToNs(ledger.ms[c])
          /\ MsToNs(ledger.ms[c]) \in Int
      BY <1>1, <3>1, RemainingOfRow
    <3>3. ledger'.ms = ledger.ms /\ ledger'.turn_started_mono = instant
      BY <1>1, <2>1 DEF Row
    <3>4. RemainingNs(ClockFromGame(ledger'), c, instant) = MsToNs(ledger.ms[c])
      <4>1. RemainingNs(ClockFromGame(ledger'), c, instant) =
              IF c # ledger'.to_move \/ ledger'.turn_started_mono = NoTime
              THEN MsToNs(ledger'.ms[c])
              ELSE MsToNs(ledger'.ms[c]) - (instant - ledger'.turn_started_mono)
        BY <1>1, <2>1, RemainingOfRow
      <4>2. MsToNs(ledger.ms[c]) - (instant - instant) = MsToNs(ledger.ms[c])
        BY <1>1, <3>2
      <4>3. QED
        BY <3>3, <4>1, <4>2
    <3>5. QED
      BY <3>2, <3>4 DEF Remaining, Exact, Deliver
  <2>4. LedgerAgrees'
    BY <2>3 DEF LedgerAgrees, Deliver
  <2>5. QED
    BY <1>2, <2>2, <2>4
<1>5. QED
  BY <1>3, <1>4

LEMMA LedgerMoveOK == LedgerIInv /\ Move => LedgerIInv'
<1> SUFFICES ASSUME LedgerIInv, Move PROVE LedgerIInv'
  OBVIOUS
<1> USE DEF LedgerIInv
<1> DEFINE mover == ledger.to_move
           left == MsToNs(ledger.ms[mover]) - (instant - ledger.turn_started_mono)
           inc == MsToNs(NsToMs(Increment))
<1>1. /\ ledger \in Row /\ instant \in Int /\ mover \in Color /\ ledger.ms \in [Color -> Int]
      /\ ledger.turn_started_mono \in Int /\ ledger.turn_started_mono # NoTime
      /\ moves \in [Color -> Nat] /\ stopwatch \in [Color -> Nat]
  BY ClockAssumption DEF LedgerTypeOK, Move, Playable, TurnShape, Row
<1>2. /\ left \in Int
      /\ ledger' = [ledger EXCEPT
                   !.ms[mover] = NsToMs(left + inc),
                   !.to_move = OtherColor(mover),
                   !.to_move_since_mono = instant,
                   !.turn_started_mono = NoTime,
                   !.delivered_to_mover = 0,
                   !.ply = @ + 1]
      /\ ledger' \in Row
  BY <1>1, MovedRow DEF Move, Moved, Playable
<1>3. inc \in Int
  BY RowAssumption, RoundTripNs
<1>4. /\ ledger'.ms = [ledger.ms EXCEPT ![mover] = NsToMs(left + inc)]
      /\ ledger'.turn_started_mono = NoTime /\ ledger'.delivered_to_mover = 0
      /\ ledger'.status = ledger.status
  BY <1>1, <1>2 DEF Row
<1>5. moves' = [moves EXCEPT ![mover] = @ + 1] /\ instant' = instant /\ stopwatch' = stopwatch
  BY DEF Move
<1> HIDE DEF left
<1>6. LedgerTypeOK'
  BY <1>1, <1>2, <1>5 DEF LedgerTypeOK
<1>7. TurnShape'
  BY <1>4, ClockAssumption DEF TurnShape, IsLive
<1>8. ASSUME NEW c \in Color
      PROVE  /\ Remaining(c)' <= Exact(c)'
             /\ Exact(c)' - moves'[c] * (NsPerMs - 1) <= Remaining(c)'
  <2> DEFINE base == MsToNs(NsToMs(TimeControl))
  <2>1. /\ Remaining(c) <= Exact(c)
        /\ Exact(c) - moves[c] * (NsPerMs - 1) <= Remaining(c)
    BY DEF LedgerAgrees
  <2>2. /\ base \in Int /\ NsPerMs - 1 \in Int /\ moves[c] \in Int /\ stopwatch[c] \in Int
    BY <1>1, ClockAssumption, RowAssumption, RoundTripNs
  <2>3. Remaining(c)' = MsToNs(ledger'.ms[c])
    BY <1>1, <1>2, <1>4, <1>5, RemainingOfRow, ZenonT(60) DEF Remaining
  <2>4. /\ Exact(c) = base + moves[c] * inc - stopwatch[c]
        /\ Exact(c)' = base + moves'[c] * inc - stopwatch[c]
    BY <1>5 DEF Exact
  <2>5. CASE c = mover
    <3>1. Remaining(c) = left
      BY <1>1, <2>5, RemainingOfRow DEF Remaining, left
    <3>2. ledger'.ms[c] = NsToMs(left + inc) /\ moves'[c] = moves[c] + 1
      BY <1>1, <1>4, <1>5, <2>5
    <3>3. /\ Remaining(c)' \in Int
          /\ Remaining(c)' <= left + inc
          /\ left + inc - (NsPerMs - 1) <= Remaining(c)'
      BY <1>2, <1>3, <2>3, <3>2, RoundedSum
    <3>4. /\ moves'[c] * inc = moves[c] * inc + inc
          /\ moves'[c] * (NsPerMs - 1) = moves[c] * (NsPerMs - 1) + (NsPerMs - 1)
          /\ moves[c] * inc \in Int /\ moves[c] * (NsPerMs - 1) \in Int
      BY <1>3, <2>2, <3>2, OneMoreMove, ZenonT(60)
    <3> DEFINE owed == moves[c] * inc
               lost == moves[c] * (NsPerMs - 1)
               round == NsPerMs - 1
    <3> HIDE DEF base, inc, owed, lost
    <3>5. Exact(c) = base + owed - stopwatch[c] /\ Exact(c)' = base + (owed + inc) - stopwatch[c]
      BY <2>4, <3>4 DEF owed
    <3>6. Exact(c) - lost <= left /\ left <= Exact(c)
      BY <2>1, <3>1 DEF lost
    <3>7. Exact(c)' - (lost + round) <= Remaining(c)' /\ Remaining(c)' <= Exact(c)'
      <4>1. lost \in Int /\ owed \in Int /\ round \in Int
        BY <2>2, <3>4 DEF lost, owed
      <4> HIDE DEF round
      <4>2. left + inc - round <= Remaining(c)'
        BY <3>3 DEF round
      <4>3. QED
        BY <1>2, <1>3, <2>2, <3>3, <3>5, <3>6, <4>1, <4>2
    <3>8. QED
      BY <3>4, <3>7 DEF lost
  <2>6. CASE c # mover
    <3>1. Remaining(c) = MsToNs(ledger.ms[c])
      BY <1>1, <2>6, RemainingOfRow DEF Remaining
    <3>2. ledger'.ms[c] = ledger.ms[c] /\ moves'[c] = moves[c]
      BY <1>1, <1>4, <1>5, <2>6
    <3>3. QED
      BY <2>1, <2>3, <2>4, <3>1, <3>2
  <2>7. QED
    BY <2>5, <2>6
<1>9. LedgerAgrees'
  BY <1>8 DEF LedgerAgrees
<1>10. QED
  BY <1>6, <1>7, <1>9

LEMMA LedgerRejectOK == LedgerIInv /\ Reject => LedgerIInv'
<1> SUFFICES ASSUME LedgerIInv, Reject PROVE LedgerIInv'
  OBVIOUS
<1> USE DEF LedgerIInv
<1>1. ledger \in Row /\ ledger.to_move \in Color
  BY DEF LedgerTypeOK, Row
<1>2. ledger' \in Row
  BY <1>1, CasAddStrikeType DEF Reject
<1>3. /\ ledger'.ms = ledger.ms /\ ledger'.to_move = ledger.to_move
      /\ ledger'.status = ledger.status
      /\ ledger'.turn_started_mono = ledger.turn_started_mono
      /\ ledger'.delivered_to_mover = ledger.delivered_to_mover
      /\ ledger'.to_move_since_mono = ledger.to_move_since_mono
  BY <1>1 DEF Reject, CasAddStrike, Row
<1>4. LedgerTypeOK' /\ TurnShape'
  BY <1>2, <1>3 DEF LedgerTypeOK, TurnShape, IsLive, Reject
<1>5. ClockFromGame(ledger') = ClockFromGame(ledger)
  BY <1>3 DEF ClockFromGame
<1>6. LedgerAgrees'
  BY <1>5 DEF LedgerAgrees, Remaining, Exact, Reject
<1>7. QED
  BY <1>4, <1>6

LEMMA ElapseOK == LedgerIInv /\ Elapse => LedgerIInv'
<1> SUFFICES ASSUME LedgerIInv, Elapse PROVE LedgerIInv'
  OBVIOUS
<1> USE DEF LedgerIInv
<1>1. /\ ledger \in Row /\ instant \in Nat /\ ledger.to_move \in Color
      /\ stopwatch \in [Color -> Nat] /\ moves \in [Color -> Nat]
      /\ ledger.turn_started_mono \in Int \cup {NoTime}
      /\ ledger' = ledger /\ instant' = instant + 1 /\ moves' = moves
  BY DEF LedgerTypeOK, Row, Elapse
<1>2. stopwatch' \in [Color -> Nat]
  BY <1>1 DEF Elapse
<1>3. LedgerTypeOK' /\ TurnShape'
  BY <1>1, <1>2 DEF LedgerTypeOK, TurnShape, IsLive
<1>4. ASSUME NEW c \in Color
      PROVE  LET burnt == IF ledger.delivered_to_mover = 1 /\ c = ledger.to_move THEN 1 ELSE 0
             IN /\ Remaining(c) \in Int /\ Exact(c) \in Int
                /\ Remaining(c)' = Remaining(c) - burnt
                /\ Exact(c)' = Exact(c) - burnt
  <2> DEFINE burnt == IF ledger.delivered_to_mover = 1 /\ c = ledger.to_move THEN 1 ELSE 0
  <2>1. /\ Remaining(c) \in Int
        /\ Remaining(c)' = Remaining(c) - burnt
    <3> DEFINE ms == MsToNs(ledger.ms[c])
               started == ledger.turn_started_mono
    <3>1. /\ ms \in Int
          /\ Remaining(c) = IF c # ledger.to_move \/ started = NoTime
                            THEN ms ELSE ms - (instant - started)
      BY <1>1, RemainingOfRow DEF Remaining
    <3>2. Remaining(c)' = IF c # ledger.to_move \/ started = NoTime
                          THEN ms ELSE ms - ((instant + 1) - started)
      <4> DEFINE next == instant + 1
      <4>1. next \in Int /\ ledger \in Row /\ instant' = next
        BY <1>1
      <4>2. Remaining(c)' = RemainingNs(ClockFromGame(ledger), c, next)
        BY <1>1, <4>1 DEF Remaining, RemainingNs, ClockFromGame
      <4> HIDE DEF next
      <4>3. RemainingNs(ClockFromGame(ledger), c, next) =
              IF c # ledger.to_move \/ ledger.turn_started_mono = NoTime
              THEN MsToNs(ledger.ms[c])
              ELSE MsToNs(ledger.ms[c]) - (next - ledger.turn_started_mono)
        BY <4>1, RemainingOfRow
      <4>4. QED
        BY <4>2, <4>3 DEF next
    <3>3. ledger.delivered_to_mover = 1 <=> started # NoTime
      BY <1>1, ClockAssumption DEF TurnShape
    <3>4. started \in Int \cup {NoTime}
      BY <1>1
    <3> HIDE DEF ms, started
    <3>5. QED
      BY <1>1, <3>1, <3>2, <3>3, <3>4
  <2>2. stopwatch'[c] = stopwatch[c] + burnt
    BY <1>1 DEF Elapse
  <2>3. /\ MsToNs(NsToMs(TimeControl)) \in Int
        /\ moves[c] * MsToNs(NsToMs(Increment)) \in Int
    BY <1>1, RowAssumption, RoundTripNs, OneMoreMove
  <2>4. Exact(c) \in Int /\ Exact(c)' = Exact(c) - burnt
    BY <1>1, <2>2, <2>3 DEF Exact
  <2>5. QED
    BY <2>1, <2>4
<1>5. LedgerAgrees'
  <2> SUFFICES ASSUME NEW c \in Color
               PROVE  /\ Remaining(c)' <= Exact(c)'
                      /\ Exact(c)' - moves[c] * (NsPerMs - 1) <= Remaining(c)'
    BY <1>1 DEF LedgerAgrees
  <2> DEFINE lost == moves[c] * (NsPerMs - 1)
  <2>1. lost \in Int
    BY <1>1, ClockAssumption, OneMoreMove
  <2>2. Remaining(c) <= Exact(c) /\ Exact(c) - lost <= Remaining(c)
    BY DEF LedgerAgrees
  <2> HIDE DEF lost
  <2>3. Remaining(c)' <= Exact(c)' /\ Exact(c)' - lost <= Remaining(c)'
    BY <1>4, <2>1, <2>2
  <2>4. QED
    BY <2>3 DEF lost
<1>6. QED
  BY <1>3, <1>5

\* The strengthened invariant of the ledger holds of every reachable state.
THEOREM LedgerInductive == LedgerSpec => []LedgerIInv
<1>1. LedgerIInv /\ [LedgerNext]_ledgerVars => LedgerIInv'
  <2> SUFFICES ASSUME LedgerIInv, [LedgerNext]_ledgerVars PROVE LedgerIInv'
    OBVIOUS
  <2>1. CASE Deliver
    BY <2>1, LedgerDeliverOK
  <2>2. CASE Move
    BY <2>2, LedgerMoveOK
  <2>3. CASE Reject
    BY <2>3, LedgerRejectOK
  <2>4. CASE Elapse
    BY <2>4, ElapseOK
  <2>5. CASE UNCHANGED ledgerVars
    BY <2>5
    DEF LedgerIInv, LedgerTypeOK, TurnShape, IsLive, LedgerAgrees, Remaining, Exact, ledgerVars
  <2>6. QED
    BY <2>1, <2>2, <2>3, <2>4, <2>5 DEF LedgerNext
<1>2. QED
  BY <1>1, LedgerInitOK, PTL DEF LedgerSpec

\* The clock the server decides by (the row of games read back through
\* _clock_from_game) never shows more than the exact time left, and less by
\* under a millisecond per move made: for every time control and increment.
THEOREM LedgerAgreesAlways == LedgerSpec => []LedgerAgrees
<1>1. LedgerIInv => LedgerAgrees
  BY DEF LedgerIInv
<1>2. QED
  BY <1>1, LedgerInductive, PTL

\* has_flagged is right up to that rounding: a player whose exact time is over
\* has flagged, and nobody flags with a millisecond per move to spare.
THEOREM FlagAgreesAlways == LedgerSpec => []FlagAgrees
<1>1. LedgerIInv => FlagAgrees
  <2> SUFFICES ASSUME LedgerIInv PROVE FlagAgrees
    OBVIOUS
  <2> DEFINE c == ledger.to_move
             lost == moves[c] * (NsPerMs - 1)
  <2>1. ledger \in Row /\ c \in Color /\ instant \in Int /\ moves \in [Color -> Nat]
        /\ ledger.turn_started_mono \in Int \cup {NoTime} /\ stopwatch \in [Color -> Nat]
    BY DEF LedgerIInv, LedgerTypeOK, Row
  <2>2. HasFlagged(ClockFromGame(ledger), instant) <=> Remaining(c) <= 0
    BY DEF HasFlagged, Remaining, ClockFromGame
  <2>3. Remaining(c) \in Int
    BY <2>1, RemainingOfRow DEF Remaining
  <2>4. Exact(c) \in Int
    BY <2>1, RowAssumption, RoundTripNs, OneMoreMove DEF Exact
  <2>5. lost \in Int
    BY <2>1, ClockAssumption, OneMoreMove
  <2>6. Remaining(c) <= Exact(c) /\ Exact(c) - lost <= Remaining(c)
    BY <2>1 DEF LedgerIInv, LedgerAgrees
  <2> HIDE DEF lost
  <2>7. (Exact(c) <= 0 => Remaining(c) <= 0) /\ (Remaining(c) <= 0 => Exact(c) <= lost)
    BY <2>3, <2>4, <2>5, <2>6
  <2>8. QED
    BY <2>2, <2>7 DEF FlagAgrees, lost
<1>2. QED
  BY <1>1, LedgerInductive, PTL
=============================================================================
