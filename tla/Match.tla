------------------------------- MODULE Match -------------------------------
(***************************************************************************)
(* The state machine of one game as chess_core/match.py states it: a       *)
(* MatchState and the transition functions.  It knows nothing of seats,    *)
(* clocks or the ticker; it is what a game promises to the rest.           *)
(***************************************************************************)
EXTENDS Naturals

CONSTANTS PlyCap, NoValue, DrawRules

VARIABLES status, ply, result, termination

state == <<status, ply, result, termination>>

AbortReasons == {"no_show", "server_restart", "admin_abort"}

Ended == {"finished", "aborted"}

\* "free" precedes create_match: the game does not exist yet.
Init ==
  /\ status = "free"
  /\ ply = 0
  /\ result = NoValue
  /\ termination = NoValue

CreateMatch ==
  /\ status = "free"
  /\ status' = "pending"
  /\ UNCHANGED <<ply, result, termination>>

TransitionToActive ==
  /\ status = "pending"
  /\ status' = "active"
  /\ UNCHANGED <<ply, result, termination>>

\* A terminal position first, the cap second, else the game goes on.
AfterMove(is_terminal, move_termination, move_result) ==
  LET new_ply == ply + 1
  IN IF is_terminal
     THEN [status |-> "finished", ply |-> new_ply,
           result |-> move_result, termination |-> move_termination]
     ELSE IF new_ply >= PlyCap
     THEN [status |-> "finished", ply |-> new_ply,
           result |-> "draw", termination |-> "adjudicated"]
     ELSE [status |-> "active", ply |-> new_ply,
           result |-> NoValue, termination |-> NoValue]

Becomes(m) ==
  /\ status' = m.status
  /\ ply' = m.ply
  /\ result' = m.result
  /\ termination' = m.termination

TransitionAfterMove ==
  /\ status = "active"
  /\ \/ Becomes(AfterMove(FALSE, NoValue, NoValue))
     \/ \E r \in {"white_win", "black_win"} : Becomes(AfterMove(TRUE, "checkmate", r))
     \/ \E t \in DrawRules : Becomes(AfterMove(TRUE, t, "draw"))

\* transition_to_terminal refuses an ended game and nothing else.
TransitionToTerminal(t, r) ==
  /\ status \notin Ended \cup {"free"}
  /\ status' = IF t \in AbortReasons THEN "aborted" ELSE "finished"
  /\ result' = r
  /\ termination' = t
  /\ UNCHANGED ply

EndWithoutMove ==
  \/ \E t \in AbortReasons : TransitionToTerminal(t, NoValue)
  \/ \E t \in {"flag", "illegal_forfeit", "resignation", "abandoned"},
        r \in {"white_win", "black_win"} : TransitionToTerminal(t, r)

Next == CreateMatch \/ TransitionToActive \/ TransitionAfterMove \/ EndWithoutMove

Spec == Init /\ [][Next]_state

\* can_transition, the module's own table of legal moves between statuses.
CanTransition(from, to) ==
  \/ from = "pending" /\ to \in {"active", "aborted"}
  \/ from = "active" /\ to \in {"finished", "aborted"}
=============================================================================
