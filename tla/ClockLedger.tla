---------------------------- MODULE ClockLedger ----------------------------
(***************************************************************************)
(* One game's clock, as the server keeps it, beside a stopwatch it does    *)
(* not have.  The server stores whole milliseconds, stamps a turn's start  *)
(* on delivery and settles the account on each move; the stopwatch counts  *)
(* every instant a delivered position was in front of its mover.  The two  *)
(* must tell the same time.                                                *)
(***************************************************************************)
EXTENDS GameRow

CONSTANTS MaxInstant, MaxPly     \* bounds of the model

ASSUME LedgerAssumption == MaxInstant \in Nat /\ MaxPly \in Nat

VARIABLES
  ledger,          \* the row of the game
  instant,         \* time.monotonic_ns()
  stopwatch,       \* how long each side had its position before it
  moves            \* how many each side made

ledgerVars == <<ledger, instant, stopwatch, moves>>

LedgerInit ==
  /\ instant = 0
  /\ ledger = InsertGame(NoBot, NoBot, 1, instant)
  /\ stopwatch = [c \in Color |-> 0]
  /\ moves = [c \in Color |-> 0]

\* A poll, the first of the turn or any later one.
Deliver ==
  /\ ledger' = CasDeliver(ledger, ledger.ply, instant)
  /\ UNCHANGED <<instant, stopwatch, moves>>

Playable == ledger.delivered_to_mover = 1 /\ ~HasFlagged(ClockFromGame(ledger), instant)

Move ==
  /\ Playable
  /\ ledger.ply < MaxPly
  /\ ledger' = CasApplyMove(ledger, AccountMoveAndSwitch(ClockFromGame(ledger),
                                                        instant, instant).new_clock)
  /\ moves' = [moves EXCEPT ![ledger.to_move] = @ + 1]
  /\ UNCHANGED <<instant, stopwatch>>

\* An illegal attempt: the turn goes on.
Reject ==
  /\ Playable
  /\ ledger.strikes[ledger.to_move] < 2
  /\ ledger' = CasAddStrike(ledger, ledger.to_move)
  /\ UNCHANGED <<instant, stopwatch, moves>>

Elapse ==
  /\ instant < MaxInstant
  /\ instant' = instant + 1
  /\ stopwatch' = IF ledger.delivered_to_mover = 1
                  THEN [stopwatch EXCEPT ![ledger.to_move] = @ + 1]
                  ELSE stopwatch
  /\ UNCHANGED <<ledger, moves>>

LedgerNext == Deliver \/ Move \/ Reject \/ Elapse

LedgerSpec == LedgerInit /\ [][LedgerNext]_ledgerVars

-----------------------------------------------------------------------------
\* The time c should have left: what it was given, less what it used.
Exact(c) ==
  MsToNs(NsToMs(TimeControl)) + moves[c] * MsToNs(NsToMs(Increment)) - stopwatch[c]

Remaining(c) == RemainingNs(ClockFromGame(ledger), c, instant)

LedgerTypeOK ==
  /\ ledger \in Row
  /\ instant \in Nat
  /\ stopwatch \in [Color -> Nat]
  /\ moves \in [Color -> Nat]

\* The clock the server decides by never shows more than the exact time left,
\* and what rounding to milliseconds takes is under one millisecond per move
\* made: no poll, refused move or wait for delivery costs or earns anything.
LedgerAgrees ==
  \A c \in Color :
    /\ Remaining(c) <= Exact(c)
    /\ Exact(c) - moves[c] * (NsPerMs - 1) <= Remaining(c)

\* Hence a player whose exact time is over has flagged, and one who has flagged
\* had less left than the milliseconds rounding took.
FlagAgrees ==
  LET c == ledger.to_move
  IN /\ Exact(c) <= 0 => HasFlagged(ClockFromGame(ledger), instant)
     /\ HasFlagged(ClockFromGame(ledger), instant) => Exact(c) <= moves[c] * (NsPerMs - 1)
=============================================================================
