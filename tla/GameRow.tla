------------------------------ MODULE GameRow ------------------------------
(***************************************************************************)
(* One row of the games table and the statements that write it             *)
(* (store/repositories.py, store/schema.py).  Each statement is an         *)
(* operator from the row it matched to the row it leaves; the WHERE clause *)
(* is a predicate of its own, because what a caller does when no row       *)
(* matches differs from one statement to the next.                         *)
(***************************************************************************)
EXTENDS Clock

CONSTANTS
  DrawRules,      \* the TerminationReasons of a move that are draws
  BotId,          \* bots.id
  NoBot,          \* SQL NULL in a column that refers to a bot
  NoValue,        \* SQL NULL in result and termination
  TimeControl,    \* RATED_TIME_CONTROL_NS
  Increment       \* RATED_INCREMENT_NS

NonTerminal == {"pending", "active"}

Terminal == {"finished", "aborted"}

\* "free" is an id no row has been inserted under yet.
Status == {"free"} \cup NonTerminal \cup Terminal

Result == {"white_win", "black_win", "draw"}

\* The reasons that take a game off the rating list.
Rule1Unrates == {"no_show", "server_restart", "admin_abort"}

Termination ==
  DrawRules \cup Rule1Unrates \cup
  {"checkmate", "resignation", "flag", "illegal_forfeit", "crash", "abandoned",
   "adjudicated"}

ASSUME RowAssumption ==
  /\ DrawRules \subseteq {"stalemate", "insufficient", "fifty_move", "threefold"}
  /\ NoBot \notin BotId
  /\ NoValue \notin Result \cup Termination
  /\ TimeControl \in Nat
  /\ Increment \in Nat

Row ==
  [white_bot_id : BotId \cup {NoBot},
   black_bot_id : BotId \cup {NoBot},
   status : Status,
   result : Result \cup {NoValue},
   termination : Termination \cup {NoValue},
   ply : Nat,
   to_move : Color,
   ms : [Color -> Int],
   to_move_since_mono : Int,
   turn_started_mono : Int \cup {NoTime},
   delivered_to_mover : {0, 1},
   rated : {0, 1},
   strikes : [Color -> Nat]]

FreeRow ==
  [white_bot_id |-> NoBot, black_bot_id |-> NoBot, status |-> "free",
   result |-> NoValue, termination |-> NoValue, ply |-> 0, to_move |-> "white",
   ms |-> [c \in Color |-> 0], to_move_since_mono |-> 0,
   turn_started_mono |-> NoTime, delivered_to_mover |-> 0, rated |-> 0,
   strikes |-> [c \in Color |-> 0]]

IsLive(row) == row.status \in NonTerminal

Players(row) == {row.white_bot_id, row.black_bot_id}

BotOf(row, c) == IF c = "white" THEN row.white_bot_id ELSE row.black_bot_id

MoverId(row) == BotOf(row, row.to_move)

\* The one ms -> ns boundary.  The increment went through its own column.
ClockFromGame(row) ==
  [ns |-> [c \in Color |-> MsToNs(row.ms[c])],
   increment_ns |-> MsToNs(NsToMs(Increment)),
   to_move |-> row.to_move,
   to_move_since_mono |-> row.to_move_since_mono,
   turn_started_mono |-> row.turn_started_mono,
   delivered_to_mover |-> row.delivered_to_mover]

\* The one ns -> ms boundary, as the columns it writes.
ClockToGameFields(row, clock) ==
  [row EXCEPT
     !.ms = [c \in Color |-> NsToMs(clock.ns[c])],
     !.to_move = clock.to_move,
     !.to_move_since_mono = clock.to_move_since_mono,
     !.turn_started_mono = clock.turn_started_mono,
     !.delivered_to_mover = clock.delivered_to_mover]

InsertGame(white, black, rated, now_mono) ==
  ClockToGameFields(
    [FreeRow EXCEPT !.white_bot_id = white, !.black_bot_id = black,
                    !.status = "pending", !.rated = rated],
    CreateClock(TimeControl, Increment, "white", now_mono))

\* rowcount 0 (already delivered) is free, never a conflict.
CanDeliver(row, ply) == row.ply = ply /\ row.delivered_to_mover = 0 /\ IsLive(row)

\* Mutant of CasDeliver: the status is left for a later statement.
CasDeliverStatusKept(row, ply, now_mono) ==
  IF CanDeliver(row, ply)
  THEN [row EXCEPT !.turn_started_mono = now_mono, !.delivered_to_mover = 1]
  ELSE row

\* Mutant of CasDeliver: a second delivery restarts the turn.
CasDeliverAgain(row, ply, now_mono) ==
  IF row.ply = ply /\ IsLive(row)
  THEN [row EXCEPT !.turn_started_mono = now_mono, !.delivered_to_mover = 1,
                   !.status = "active"]
  ELSE row

CasDeliver(row, ply, now_mono) ==
  IF CanDeliver(row, ply)
  THEN [row EXCEPT !.turn_started_mono = now_mono, !.delivered_to_mover = 1,
                   !.status = "active"]
  ELSE row

\* The side to move after the move comes from the position; it is always the
\* other side, which is what the clock switched to.
CasApplyMove(row, clock) ==
  [ClockToGameFields(row, clock) EXCEPT !.ply = @ + 1]

CasAddStrike(row, c) == [row EXCEPT !.strikes[c] = @ + 1]

CasTerminate(row, status, result, termination) ==
  [row EXCEPT
     !.status = status, !.result = result, !.termination = termination,
     !.rated = IF termination \in Rule1Unrates THEN 0 ELSE @,
     !.delivered_to_mover = 0, !.turn_started_mono = NoTime]

\* Recovery's sweep leaves result as it was: NULL on a live row.
AbortNonTerminal(row) ==
  IF IsLive(row)
  THEN [row EXCEPT !.status = "aborted", !.termination = "server_restart",
                   !.rated = 0, !.delivered_to_mover = 0,
                   !.turn_started_mono = NoTime]
  ELSE row

\* The side named loses.
OppositeWin(c) == IF c = "white" THEN "black_win" ELSE "white_win"
=============================================================================
