------------------------------- MODULE Clock -------------------------------
(***************************************************************************)
(* The clock arithmetic of chess_core/clock.py: every rule about time that *)
(* decides a game.  Instants and durations are integers of nanoseconds;    *)
(* the rows of the games table hold whole milliseconds, so a clock that    *)
(* goes to the table and comes back is rounded down.                       *)
(***************************************************************************)
EXTENDS Integers

CONSTANTS
  NsPerMs,      \* nanoseconds per millisecond (1 000 000 in the code)
  NoTime        \* SQL NULL in a *_mono column

ASSUME ClockAssumption ==
  /\ NsPerMs \in Nat \ {0}
  /\ NoTime \notin Int

Color == {"white", "black"}

OtherColor(c) == IF c = "white" THEN "black" ELSE "white"

MsToNs(ms) == ms * NsPerMs

NsToMs(ns) == ns \div NsPerMs

\* types.ClockState; ns[c] is white_ns or black_ns.  time_control_ns is not a
\* field here: no rule reads it after creation.
ClockState ==
  [ns : [Color -> Int],
   increment_ns : Int,
   to_move : Color,
   to_move_since_mono : Int,
   turn_started_mono : Int \cup {NoTime},
   delivered_to_mover : {0, 1}]

CreateClock(time_control_ns, increment_ns, to_move, now_mono) ==
  [ns |-> [c \in Color |-> time_control_ns],
   increment_ns |-> increment_ns,
   to_move |-> to_move,
   to_move_since_mono |-> now_mono,
   turn_started_mono |-> NoTime,
   delivered_to_mover |-> 0]

\* Re-delivery returns the clock it was given.
DeliverPosition(clock, now_mono) ==
  IF clock.delivered_to_mover = 1
  THEN clock
  ELSE [clock EXCEPT !.turn_started_mono = now_mono, !.delivered_to_mover = 1]

\* The oldest reading still inside a window: the bound of a SQL filter.
WindowStartMono(now_mono, window_ns) == now_mono - window_ns

IsWithin(earlier_mono, now_mono, window_ns) == now_mono - earlier_mono <= window_ns

\* Only the side to move burns time, and only once its position is delivered.
RemainingNs(clock, c, now_mono) ==
  IF c # clock.to_move \/ clock.turn_started_mono = NoTime
  THEN clock.ns[c]
  ELSE clock.ns[c] - (now_mono - clock.turn_started_mono)

\* Mutant of HasFlagged: a clock at exactly zero plays on.
HasFlaggedStrict(clock, now_mono) == RemainingNs(clock, clock.to_move, now_mono) < 0

HasFlagged(clock, now_mono) == RemainingNs(clock, clock.to_move, now_mono) <= 0

\* Deduct, flag, increment only when not flagged, then switch: one step.  The
\* caller has checked that the position was delivered (the code raises).
AccountMoveAndSwitch(clock, receive_mono, now_mono) ==
  LET mover     == clock.to_move
      remaining == clock.ns[mover] - (receive_mono - clock.turn_started_mono)
      flagged   == remaining <= 0
  IN [flagged |-> flagged,
      new_clock |->
        [clock EXCEPT
           !.ns[mover] = IF flagged THEN remaining ELSE remaining + clock.increment_ns,
           !.to_move = OtherColor(mover),
           !.to_move_since_mono = now_mono,
           !.turn_started_mono = NoTime,
           !.delivered_to_mover = 0]]

\* Strict, where IsWithin is inclusive.
CheckDeliveryTimeout(clock, now_mono, grace_ns) ==
  /\ clock.delivered_to_mover # 1
  /\ now_mono - clock.to_move_since_mono > grace_ns
=============================================================================
