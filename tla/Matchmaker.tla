----------------------------- MODULE Matchmaker -----------------------------
(***************************************************************************)
(* Who meets whom: chess_core/matchmaker.py, engine/pool.py and the        *)
(* matchmaking step of engine/ticker.py.  Arena lets a tick seat any two   *)
(* bots of the pool; here the choice is the policy's, and what the policy  *)
(* remembers is the state: the pool columns of bots, the counter of idle   *)
(* ticks kept by the process, and the rows a tick has written and not yet  *)
(* committed.                                                              *)
(*                                                                         *)
(* Only the order of games_played is ever asked, so it is kept relative to *)
(* the least of them.  Colours decide nothing here and are left to Arena.  *)
(* While matchmaking is paused the step returns before it reads anything:  *)
(* to this module that is a tick that does not happen.                     *)
(***************************************************************************)
EXTENDS Integers, FiniteSets, Sequences

CONSTANTS
  BotId,           \* bots.id; ids are compared, so they are numbers
  Anchor,          \* bots with is_anchor = 1
  OwnerOf,         \* bots.owner
  Rating,          \* bots.rating, which no step here moves
  Window,          \* ANCHOR_RATING_WINDOW
  RelaxAfter,      \* idle ticks after which _allowed relaxes: 3
  NoBot,           \* last_opponent_id IS NULL
  NoGame           \* no row in seats

\* A bound of the model, absent from the code.
CONSTANT
  MaxSpread        \* how far games_played may drift apart

Competitor == BotId \ Anchor

\* A game, as the set of its players
Game == {{a, b} : a, b \in BotId}

ASSUME MatchmakerAssumption ==
  /\ BotId \subseteq Nat /\ IsFiniteSet(BotId)
  /\ Anchor \subseteq BotId
  /\ Rating \in [BotId -> Int]
  /\ DOMAIN OwnerOf = BotId
  /\ Window \in Nat
  /\ RelaxAfter \in Nat \ {0}
  /\ NoBot \notin BotId /\ NoGame \notin Game
  /\ MaxSpread \in Nat \ {0}

VARIABLES
  bots,            \* the pool columns of each bot
  seats,           \* the game each bot is seated in, as its two players
  unpaired_ticks,  \* state.unpaired_ticks; an absent entry is 0
  polling,         \* competitors whose last poll is within POLL_RECENCY_NS
  tick             \* the ticker's open transaction

vars == <<bots, seats, unpaired_ticks, polling, tick>>

TypeOK ==
  /\ bots \in [BotId -> [games_played : 0..MaxSpread,
                         last_opponent_id : BotId \cup {NoBot}]]
  /\ seats \in [BotId -> Game \cup {NoGame}]
  /\ unpaired_ticks \in [BotId -> 0..RelaxAfter]
  /\ polling \in SUBSET Competitor
  /\ tick \in [open : BOOLEAN, pool : SUBSET BotId,
               made : SUBSET Game, failed : SUBSET Game]

Closed == [open |-> FALSE, pool |-> {}, made |-> {}, failed |-> {}]

Init ==
  /\ bots = [b \in BotId |-> [games_played |-> 0, last_opponent_id |-> NoBot]]
  /\ seats = [b \in BotId |-> NoGame]
  /\ unpaired_ticks = [b \in BotId |-> 0]
  /\ polling = {}
  /\ tick = Closed

-----------------------------------------------------------------------------
(* The policy, a function of the snapshot                                  *)

\* list_pool_candidates
Pool == {b \in BotId : seats[b] = NoGame /\ (b \in Anchor \/ b \in polling)}

Relaxed(a, b) ==
  unpaired_ticks[a] >= RelaxAfter \/ unpaired_ticks[b] >= RelaxAfter

\* Mutant of Allowed: both sides must have waited.
AllowedBothWaited(a, b) ==
  /\ \/ unpaired_ticks[a] >= RelaxAfter /\ unpaired_ticks[b] >= RelaxAfter
     \/ /\ OwnerOf[a] # OwnerOf[b]
        /\ bots[a].last_opponent_id # b
        /\ bots[b].last_opponent_id # a
  /\ ~({a, b} \subseteq Anchor)

\* Mutant of Allowed: no relaxation, however long a bot has waited.
AllowedStrictly(a, b) ==
  /\ OwnerOf[a] # OwnerOf[b]
  /\ bots[a].last_opponent_id # b
  /\ bots[b].last_opponent_id # a
  /\ ~({a, b} \subseteq Anchor)

\* _allowed
Allowed(a, b) ==
  /\ \/ Relaxed(a, b)
     \/ /\ OwnerOf[a] # OwnerOf[b]
        /\ bots[a].last_opponent_id # b
        /\ bots[b].last_opponent_id # a
  /\ ~({a, b} \subseteq Anchor)

\* The sort key (games_played, rating, bot_id)
Before(a, b) ==
  LET x == bots[a].games_played
      y == bots[b].games_played
  IN \/ x < y
     \/ x = y /\ Rating[a] < Rating[b]
     \/ x = y /\ Rating[a] = Rating[b] /\ a < b

\* The bots of S in the order of their keys, each once
InOrder(S) ==
  CHOOSE s \in [1..Cardinality(S) -> S] :
    \A i, j \in 1..Cardinality(S) : i < j => Before(s[i], s[j])

LeastOf(S) == CHOOSE x \in S : \A y \in S : x <= y

\* Mutant of PairBots: a bot is offered its neighbour and nobody else.
PairBotsAdjacent(pool) ==
  LET order == InOrder(pool)
      walk[k \in 0..Len(order)] ==
        IF k = 0 THEN {}
        ELSE LET done == walk[k - 1]
             IN IF \/ k = Len(order)
                   \/ order[k] \in UNION done
                   \/ ~Allowed(order[k], order[k + 1])
                THEN done ELSE done \cup {{order[k], order[k + 1]}}
  IN walk[Len(order)]

\* The turn of the k-th bot of the order in pair_bots, after the pairs done:
\* unless it is taken, it takes the first partner after it that is free and
\* allowed, or stays unpaired for this tick.
PairingTurn(order, k, done) ==
  LET partners == {j \in k + 1 .. Len(order) :
                     /\ order[j] \notin UNION done
                     /\ Allowed(order[k], order[j])}
  IN IF order[k] \in UNION done \/ partners = {} THEN done
     ELSE done \cup {{order[k], order[LeastOf(partners)]}}

\* pair_bots.  walk[k] are the pairs made once the first k bots had their turn.
PairBots(pool) ==
  LET order == InOrder(pool)
      walk[k \in 0..Len(order)] ==
        IF k = 0 THEN {} ELSE PairingTurn(order, k, walk[k - 1])
  IN walk[Len(order)]

Distance(a, b) ==
  IF Rating[a] < Rating[b] THEN Rating[b] - Rating[a] ELSE Rating[a] - Rating[b]

\* should_offer_anchor, asked only of bots that are idle
ShouldOfferAnchor(c, a) == Distance(c, a) <= Window

NearestAnchor(c, available) ==
  CHOOSE a \in available : \A x \in available :
    \/ Distance(c, a) < Distance(c, x)
    \/ Distance(c, a) = Distance(c, x) /\ a <= x

\* The k-th of the idle is offered the nearest anchor that nobody was offered
\* before it.
OfferTurn(order, anchors, k, done) ==
  LET available == anchors \ UNION done
      near == {a \in available : ShouldOfferAnchor(order[k], a)}
  IN IF near = {} THEN done
     ELSE done \cup {{order[k], NearestAnchor(order[k], available)}}

\* offer_anchors
OfferAnchors(idle, anchors) ==
  LET order == InOrder(idle)
      walk[k \in 0..Len(order)] ==
        IF k = 0 THEN {} ELSE OfferTurn(order, anchors, k, walk[k - 1])
  IN walk[Len(order)]

\* What step_matchmaking asks of the policy.  The competitors pair with each
\* other first; an offer is a pairing only if pair_bots accepts it.
Pairings(pool) ==
  LET competitors == pool \ Anchor
      paired == PairBots(competitors)
      offers == OfferAnchors(competitors \ UNION paired, pool \cap Anchor)
  IN paired \cup UNION {PairBots(o) : o \in offers}

-----------------------------------------------------------------------------
(* The step inside the ticker's transaction                                *)

\* Each pairing is a unit of its own; any of them may be rolled back.
TickBody ==
  /\ ~tick.open
  /\ \E failed \in SUBSET Pairings(Pool) :
       tick' = [open |-> TRUE, pool |-> Pool,
                made |-> Pairings(Pool) \ failed, failed |-> failed]
  /\ UNCHANGED <<bots, seats, unpaired_ticks, polling>>

\* _record_pairing_outcome.  Nothing tells a count above the limit from the
\* limit, so the count stays there.
RecordPairingOutcome ==
  unpaired_ticks' =
    [b \in BotId |->
       IF b \in UNION tick.made THEN 0
       ELSE IF b \in tick.pool /\ unpaired_ticks[b] < RelaxAfter
       THEN unpaired_ticks[b] + 1 ELSE unpaired_ticks[b]]

\* COMMIT, then the deferred change
TickCommit ==
  /\ tick.open
  /\ seats' = [b \in BotId |->
                 IF b \in UNION tick.made
                 THEN CHOOSE g \in tick.made : b \in g
                 ELSE seats[b]]
  /\ RecordPairingOutcome
  /\ tick' = Closed
  /\ UNCHANGED <<bots, polling>>

\* Mutant of TickRollback: the counters were changed inside the transaction.
TickRollbackCounted ==
  /\ tick.open
  /\ RecordPairingOutcome
  /\ tick' = Closed
  /\ UNCHANGED <<bots, seats, polling>>

\* The tick was cancelled or raised: no row and no counter is left of it.
TickRollback ==
  /\ tick.open
  /\ tick' = Closed
  /\ UNCHANGED <<bots, seats, unpaired_ticks, polling>>

-----------------------------------------------------------------------------
(* The rest of the server, as far as the pool sees it                      *)

\* update_pool_history for both players
Remembering(columns, game) ==
  [b \in BotId |->
     IF b \in game
     THEN [columns[b] EXCEPT !.last_opponent_id = CHOOSE x \in game : x # b]
     ELSE columns[b]]

Capped(n) == IF n > MaxSpread THEN MaxSpread ELSE n

\* Counts relative to the least of them; beyond MaxSpread they are not told
\* apart.  The games of anchors are in no order anybody asks for.
Relative(columns) ==
  LET games == LeastOf({columns[b].games_played : b \in Competitor})
  IN [b \in BotId |->
        [columns[b] EXCEPT !.games_played = IF b \in Anchor THEN 0 ELSE Capped(@ - games)]]

Counted(columns, game) ==
  [b \in BotId |-> IF b \in game
                   THEN [columns[b] EXCEPT !.games_played = @ + 1] ELSE columns[b]]

Games == {seats[b] : b \in BotId} \ {NoGame}

\* _end_game_locked: the history columns follow the game even if it is
\* aborted; games_played counts the games that have a result.
GameEnds(game) ==
  /\ ~tick.open
  /\ \E columns \in {Remembering(bots, game), Counted(Remembering(bots, game), game)} :
       bots' = Relative(columns)
  /\ seats' = [b \in BotId |-> IF b \in game THEN NoGame ELSE seats[b]]
  /\ UNCHANGED <<unpaired_ticks, polling, tick>>

\* A competitor polls, or five seconds have gone by since it did.
Polls(b) ==
  /\ ~tick.open
  /\ polling' = polling \cup {b}
  /\ UNCHANGED <<bots, seats, unpaired_ticks, tick>>

Lapses(b) ==
  /\ polling' = polling \ {b}
  /\ UNCHANGED <<bots, seats, unpaired_ticks, tick>>

\* recover_locked: live games are aborted in one statement, which leaves the
\* pool columns alone; nobody has polled the new process, and its counters are
\* empty.
Restart ==
  /\ seats' = [b \in BotId |-> NoGame]
  /\ unpaired_ticks' = [b \in BotId |-> 0]
  /\ polling' = {}
  /\ tick' = Closed
  /\ UNCHANGED bots

Next ==
  \/ TickBody \/ TickCommit \/ TickRollback
  \/ \E game \in Games : GameEnds(game)
  \/ \E b \in Competitor : Polls(b) \/ Lapses(b)
  \/ Restart

Spec == Init /\ [][Next]_vars

\* The ticker goes on: again and again a tick commits.  A game that began
\* ends (Arena shows that it must), and restarts come to an end.
FairSpec ==
  /\ Spec
  /\ []<><<TickCommit>>_vars
  /\ \A b \in BotId : []<>(seats[b] = NoGame)
  /\ <>[][~Restart]_vars

-----------------------------------------------------------------------------
(* Properties                                                              *)

\* A bot is seated in one game, with the other player of that game, and no
\* game joins two anchors, whatever units failed.
SeatsPaired ==
  /\ \A game \in Games :
       /\ \A b \in BotId : seats[b] = game <=> b \in game
       /\ ~(game \subseteq Anchor)
  /\ \A g, h \in tick.made : g # h => g \cap h = {}

LeftIdle == tick.pool \ UNION (tick.made \cup tick.failed)

\* The walk leaves no two competitors unpaired that were allowed to meet.
Maximal ==
  tick.open =>
    \A a, b \in LeftIdle \cap Competitor : a # b => ~Allowed(a, b)

\* A tick pairs bots one to one, and as many as the policy lets it.
PairingSound == TypeOK /\ SeatsPaired /\ Maximal

\* A competitor that has been idle for RelaxAfter ticks is left out only if every
\* other competitor of the pool has a game and no anchor of the pool is within
\* its window: neither the owner, nor the last opponent, nor an offer spent on
\* somebody else keeps it waiting any longer.
RelaxedWaitsAlone ==
  tick.open =>
    \A c \in LeftIdle \cap Competitor :
      unpaired_ticks[c] >= RelaxAfter =>
        /\ LeftIdle \cap Competitor = {c}
        /\ \A a \in tick.pool \cap Anchor : ~ShouldOfferAnchor(c, a)

\* The process's counters move with the tables: up for a bot that a committed
\* tick left without a seat, to nothing for one it seated.
CountersFollowSeats ==
  [][\A b \in BotId : unpaired_ticks'[b] # unpaired_ticks[b] =>
       \/ unpaired_ticks'[b] = unpaired_ticks[b] + 1 /\ TickCommit /\ seats'[b] = NoGame
       \/ unpaired_ticks'[b] = 0 /\ (seats'[b] # NoGame \/ Restart)]_vars

\* Once all competitors poll and no pairing fails any more, each of them is
\* seated again and again, whatever the games do but end.
EverySeatedAgain ==
  \A b \in Competitor :
    <>[](polling = Competitor /\ tick.failed = {}) => []<>(seats[b] # NoGame)
=============================================================================
