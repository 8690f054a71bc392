# Chess arena: models, checks and proofs

A TLA+ development kept beside the chess arena server: a FastAPI process with one
SQLite file, in which bots register, poll for their turn, submit moves and are rated,
under a clock the server keeps and a ticker that pairs bots and ends overdue games.

Contents

1. The system and its components
2. The hard behaviours
3. Modules, and how they correspond to the code
4. Runs: questions, bounds, what they show
5. Fairness
6. Disagreements between code and documents
7. Proofs
8. What is only model-checked, what is not modelled
9. What is left

## 1. The system and its components

One Python process, one asyncio event loop, one writer connection used by one executor
thread, one reader connection used by another. Every write goes through
`critical_section`, which holds the global `write_lock` from `BEGIN IMMEDIATE` to
`COMMIT` or `ROLLBACK`. HTTP handlers and the ticker are coroutines of that loop.

| component | source | state | operations | talks to | correct when |
|---|---|---|---|---|---|
| game clock | `chess_core/clock.py` | none (pure) | create, deliver, remaining, flagged, account a move, delivery timeout | called by engine | agrees with an exact stopwatch |
| match life cycle | `chess_core/match.py` | none (pure) | activate, after a move, terminate, `can_transition` | called by runner | statuses only go forward |
| Elo | `chess_core/elo.py` | none (pure) | decisive, drawn and one-sided exchange | `engine/rating.py` | zero-sum, computed from the old ratings |
| matchmaking policy | `chess_core/matchmaker.py`, `engine/pool.py` | none; reads `unpaired_ticks` | `pair_bots`, `offer_anchors` | ticker | disjoint pairs, no anchor pair, nobody starves |
| rules of chess | `chess_core/rules.py` | none (pure, python-chess) | legal moves, apply, detect termination | runner | |
| tables | `store/repositories.py`, `schema.py` | `bots`, `games`, `seats`, `moves`, `rating_history` | compare-and-set statements | everything | a statement that matches no row raises |
| transactions | `store/txn.py`, `db.py` | `write_lock`, the connection, `Txn.events`, `Txn.deferred`, `_next_seq` | section, savepoint, emit, defer, flush | executor thread, event sink | atomic, isolated, published only after commit |
| game engine | `engine/games.py`, `runner.py`, `rating.py` | the tables, caches of `engine/state.py` | create, deliver, move, strike, finish, abort, forfeit, resign | inside a section | each game ends once and is rated once |
| ticker | `engine/ticker.py` | metrics | matchmaking, anchors, delivery grace, flag, presence | one section per tick, one savepoint per unit | every game ends, no loss unearned |
| turn delivery | `engine/mailbox.py`, `api/routes_bots.py`, `routes_play.py` | `state.mailbox`, `WaiterRegistry` | long poll, delivery, submission, resignation | reader connection, then a section | no lost wake, nothing outdated served |
| recovery | `store/recovery.py`, `run.py` | run id | abort live games, free seats, forget poll times | at startup | nothing of the old clock survives |
| administration | `api/admin.py` | `matchmaking_paused` | abort, pause, resume, consistency check | section | |
| reference bots | `engine/reference_bots.py` | anchors in `bots` | seed, choose a move | ticker | |
| supervisor, probe | `engine/supervisor.py` | the ticker's task, restarts | warn, cancel and replace, probe | ticker, section | never two tickers |
| process caches | `engine/state.py` | history, SANs, presence, unpaired ticks | changed only by deferred calls | engine | never ahead of the tables |
| event stream | `api/sse.py` | a bounded queue per client, coalescing times | subscribe, publish, stream | `Txn.flush` | order kept, no lost wake |
| featured game | `api/featured.py` | held game and since when | current | `/state` | holds at least 20 s |
| public routes, health | `api/routes_public.py`, `health.py` | none | reads | reader | a snapshot's event id matches its rows |
| rate limiter | `api/rate_limit.py` | a token bucket per key, least recently used first out | allow | every authenticated route | bounded rate, bounded memory |
| Python client | `chess_client/client.py` | token, back-off | register, poll loop, submit | HTTP | never resends a move |
| offline arena | `chess-bot-starter-kit/arena.py` | tracker, schedule | play a game, schedule, tally | chess_core | same clock rules as the server |
| dashboard | `web/*.js` | snapshot, last seq, buffer | receive, snapshot, resync | `/state`, `/events` | converges to the server |
| authentication, settings, errors, wiring | `api/auth.py`, `settings.py`, `errors.py`, `app.py` | none of their own | | | |

## 2. The hard behaviours

* **Many ends of one game.** Mate or draw, adjudication, illegal forfeit, flag (on the
  move path and in the sweep), abandonment, no-show, resignation, admin abort, restart.
  They race; each writes four tables.
* **A tick is long and its time is old.** It reads the clock, waits for the lock, then
  decides for many games with that reading, while anchors really spend time inside it.
* **Cancellation at any await.** The supervisor cancels a late ticker, the probe is run
  under `wait_for`, shutdown cancels both; statements run on another thread meanwhile.
* **Two connections.** A poll or a submission reads outside the lock and acts inside it;
  after `COMMIT` the rows are visible before the mailbox and waiters have changed.
* **Several requests of one bot.** A client that gave up on a poll sends another.
* **Restart.** Stamps of `time.monotonic_ns` do not survive a process.
* **Rounding.** Nanoseconds in memory, whole milliseconds in the table, and again in the
  rate limiter, which rounds at every request.
* **Starvation.** The pairing order gives no precedence to whoever has waited longest; owner
  and rematch limits can leave the same bots over, tick after tick.
* **A stream that loses.** A browser's queue is bounded and moves are coalesced; a snapshot
  is fetched beside the stream, and either may belong to a run of the server that is over.
* **Timers that watch tasks.** The supervisor replaces a ticker by how old its last tick is,
  and a cancelled task may end late, or never.
* **An unreliable network.** A move whose answer is lost was perhaps played.
* **Foreign code on shared data.** The offline arena hands a bot its own board object.

`PROJECT.json` lists each hazard at the line where it bites and the properties that
would catch it.

## 3. Modules, and how they correspond to the code

```
Clock   Elo      Match (abstract)
   \     |         ^  INSTANCE, one per game: Arena, OfflineArena
  GameRow|         |
   |   \ |         |
   |    Arena -----+  MCArena          Txn            TurnRoutes --- MCTurnRoutes
   |
  ClockLedger                          Matchmaker --- MCMatchmaker    Supervisor

  EventStream <-- Dashboard            RateLimiter <-- Client         OfflineArena (Clock, Elo)

  proofs, each of the module it is named after: ArenaProofs (of ClockLedger, too),
  MatchmakerProofs, TxnProofs, TurnRoutesProofs, ClientProofs, SupervisorProofs,
  OfflineArenaProofs, DashboardProofs
```

**Clock** – `clock.py` as operators on a clock record, with the conversions `ms_to_ns`
and `ns_to_ms` as what they do: multiplication and floor division by `NsPerMs`, which is
a constant, so that rounding matters in a small instance.

**GameRow** – a row of `games` and the statements of `GameRepo` as operators from row to
row. A `WHERE` clause that does not match raises `CASConflict` in the code and rolls the
unit back; callers here state it as a guard or show that it always matches. The columns
nothing is decided by (FEN, wall-clock texts, source) are left out; the two clocks and
the two strike counters are functions of the colour. Status "free" stands for an id
that has no row yet.

**Match** – the state machine of `match.py`, by itself. It is the abstract
specification: `Arena` is shown to move every game only along its transitions, and so is
`OfflineArena`.

**Elo** – the three exchanges. `10 ** (d/400)` is not for TLC, so the rounded gain is
given by the rating differences at which it changes (a table of integers computed from
the same formula), which is the function `round(K * (1 - expected))` exactly, for every
difference.

**Arena** – the game server at the grain of its transactions. Variables: the tables
(`bots`, `games`, `seats`, `ratingHistory`, with `registered` for which bots have a
row), `paused`, `now` for the monotonic clock and `tick` for the ticker's position.
A request is one action, because its section excludes every other writer; the ticker's
section is taken apart, one action per unit, because it reads the clock while it runs.
`HoldsLock` is what keeps requests out of it. A tick that fails or is cancelled rolls
back as a whole and is, to the tables, a tick that has not begun; a unit that fails
(`AnchorFailed`) is rolled back to its savepoint. `Restart` is a crash at any moment
outside a transaction, or inside one whose effects are lost, and the recovery before
the socket opens. The chess of a move is a choice: legal or not, and if legal what it
ends in. The matchmaker is any choice of disjoint pairs that are not two anchors, which
includes what the real one (`Matchmaker`) chooses.

**ClockLedger** – one game's clock beside a stopwatch the server does not have, which
counts every instant a delivered position lay before its mover. Its state has names of its
own (`ledger` is the row, `LedgerSpec` the specification) so that `ArenaProofs` can speak of
both systems.

**Txn** – `critical_section` at the grain of its statements. A task sends a statement to
the executor and waits; the executor runs them in order; a cancellation may strike at
any await. A statement sent through `_finish` is waited for even then and the
cancellation raised after it; a repository's write is awaited barely, and when cancelled
may still run or be taken back. A body is `Units` units, in a savepoint each for the
ticker, and each may raise after its write. A unit that wrote adds an item to
`buffer`, which stands for `txn.events` and `txn.deferred` at once; a savepoint that fails
cuts it back to its length `at_entry`, and `Flush` numbers and publishes it after the
commit, in its order. The health tick takes a number outside any transaction.

**TurnRoutes** – `get_turn` and `submit_move` at the grain of their awaits, with the
mailbox, the waiter registry, and the gap between `COMMIT` and flush (`flush`, which
holds the deferred pops, puts and wakes of the section). A game is only a ply, a delivery
and a status; `Arena` has the rest. `poll[r].past` and `submit[s].mover` remember what a
request saw, for the properties. A submission changes nothing before its section, so of the
many that are not followed only the move is seen (`AnotherMoves`, the same `MoveAt` as of one
that is).

**Matchmaker** – `pair_bots`, `offer_anchors` and the matchmaking step of a tick. A pool is
put in the policy's order (games played, rating, id) and walked greedily as the code does, a
bot's turn (`PairingTurn`, `OfferTurn`) after the other: `Allowed` is owner and rematch
limits and their relaxation after `RelaxAfter` idle ticks; anchors are offered to who is
left, nearest first, inside the rating window. `TickBody` is the transaction, whose pairings
may each fail and be rolled back to their savepoint; `TickCommit` writes the counters of
`state.unpaired_ticks`, `TickRollback` does not. Only the order of `games_played` is ever
asked, so it is kept relative to the least.

**EventStream** – the hub: `publish` to a bounded queue that drops its oldest, the throttle
that coalesces the moves of a game, the featured game, and `GET /state` with the two
moments at which it reads (`ReadSummaries`, then `AnswerState` with the event id). A commit
and its flush are two steps.

**Dashboard** – `web/dashboard.js` on that stream: envelopes buffered while the first
snapshot is under way, gaps, ids at or below the snapshot's, failed fetches, periodic
refresh, resync, and answers of a run that is over. EXTENDS `EventStream`, so server,
stream and browser are one specification.

**RateLimiter** – `rate_limit.py`: the keys of the table in order of use, evicted at the
limit, and the bucket of one of them, `Mine`, refilled and floored at every request. What is in
another key's bucket decides that key's answers and nothing else, so it is left out; `Mine` may
be any key. The operators of the meter (`Charged`, `Passed`, `Ticked`) are no part of the code:
they measure from outside the table what `Mine` is allowed, against a bucket that rounds nothing
and that no eviction touches, and count the other keys that have asked since `Mine` did.

**Client** – `client.py`'s loop (poll, choose, submit, sleep, back off) against a server
reduced to turn, ply, strikes and the limiter, over a network in which a request or its
answer may be lost and a request given up may still arrive. EXTENDS `RateLimiter`. Its variable
`meter` is a history: the limiter's answers depend on `buckets` only.

**Supervisor** – `supervisor.py`, the loop of `ticker.py`, and the lifespan of `app.py`.
A tick is how long it takes and how it ends: it completes, raises, or is wedged. A
cancelled task ends at its next await, later, or not at all: the error of the statement
that `_finish` waits for replaces the cancellation (`LoseCancellation`). `age` is measured
from the last completed tick's *start*, as `last_tick_mono` is.

**OfflineArena** – the starter kit's `arena.py`: the schedule, the game loop with its clock,
attempts and forfeits, and the table of results. A bot is any code: it takes any time, and
answers legally, illegally, not at all, with an exception, or with the board it was handed
changed (`board_turn` beside `turn`). A bot that returns `None` ends the whole tournament
(phase "died") because the raise is outside the runner's `try`.

**MCArena**, **MCTurnRoutes**, **MCMatchmaker** – ratings, owners, players and senders of
the small instances, and symmetry sets.

In every module a mutant of a definition, named after it, stands just before it.

## 4. Runs: questions, bounds, what they show

| run | asks | bounds and why they suffice |
|---|---|---|
| `Arena` | Do seats, counters, ratings and history always agree with the games, and are the lists a tick works through still true when it comes to each game? `SeatIffLive`, `SweepListsFresh`, `RatedExactlyOnce`, `ZeroSum`, `RatingConsistent`, `CountersMatchGames`, `TerminalFrozen` | two competitors, of one owner or of two, two anchors, two games: at once (four bots, in every mix) or in a row (with ratings that have moved), rated, one-sided and unrated. Cap 1, one strike, two instants, pairing in the ticks of the first; bots of a kind are interchangeable, and owners |
| `ArenaAnchor` | Is every loss earned, every limit enforced, every row coherent, every game a `Match`? `RowsSound` (types, delivery and end shapes, limits, stamps), `LossesEarned`, `ImplementsMatch` | one competitor, one anchor, one game of up to three plies (each colour moves, the clock is settled and rounded with two nanoseconds to the millisecond), instants 0 to 3, a tick that may last as long as the run |
| `ArenaProgress` | Does every game end? `GamesEnd` | one game; time up to 5. A bound on time cuts fairness short: with 3 or 4 the clock stops before the last sweep can see a flag, with 5 it does not |
| `ClockLedger` | Does the table's clock tell the exact time? `LedgerAgrees`, `FlagAgrees` | grain 3, control 7, increment 5 (neither a multiple of the grain), 12 instants, 5 plies. Proved without bounds, too |
| `Txn` | Are sections atomic and isolated, is what they tell outside true, and do they end? `AllOrNothing`, `Isolated`, `ToldSound`, `SectionsEnd` | the ticker and two requests, two units each, two cancellations: one may strike while a section unwinds from the other |
| `TurnRoutes` | Is no wake lost, one waiter registered, nothing outdated served, every poll answered? `WaitersSound`, `AnswersCurrent`, `CheckedClaimsSound`, `PollsAnswered` | two polls and a submission of one bot, any moves of the opponent and of the bot's own other submissions, over two games with the colours swapped, two plies: enough for a left-over of an earlier game at the same ply, and for a game that has moved on between a check and its use; about 450,000 states |
| `Matchmaker` | Are pairs disjoint and maximal, does nobody wait past the relaxation with a partner at hand, do the counters follow the tables, and is everyone seated again? `PairingSound`, `RelaxedWaitsAlone`, `CountersFollowSeats`, `EverySeatedAgain` | three competitors of two owners and an anchor in the window of some: both limits bite, an odd one is always left, and who is odd depends on the order. `RelaxAfter` 2, so that a counter is above 0 and not yet relaxed; about a million states |
| `Dashboard` | Is a page of one run, and does it come to show the tables? `PageSound`, `Converges` | one game, one ply, two requests under way at once (the one of the dead run and the one of the new), a queue of one (so that it overflows), three events and one restart; about 450,000 states |
| `Client` | Is the rate held, every strike earned, every turn played? `NeverAboveRate`, `StrikesEarned`, `TurnsArePlayed` | three keys and room for two, so that it takes both others to evict a key, and an order of eviction that is not that of use takes one; a burst of two, two nanoseconds to the millisecond (frequent requests lose to the floor); two games of two plies, two strikes, one request that may arrive late |
| `Supervisor` | Never two tickers, never a closed store under one, the healthy spared, the wedged replaced, the stop complete? `NeverTwoTickers`, `ClosedMeansStopped`, `HealthyLeftAlone`, `WedgedGivesWay`, `StopCompletes` | two tasks (the old and the new), restart at 7, ticks of up to 3 and a pause of 1: exactly the margin the assumption asks for, so that one instant more is caught |
| `OfflineArena` | Are schedule, clocks, blame, results and end what the runner promises? `ReportSound`, `ThinkingIsPaid`, `BlamesTheMover`, `PlaysAMatch`, `Finishes` | up to three bots (one is what two files of one name leave), up to two games of two plies, control 2, increment 1, calls of up to 2. The schedule is checked for every number of games up to two rounds and one |
| `TxnBegin` | see section 6 | |

Every run explores all its states; together the passing ones take every action. Each
property is also checked against a mutant of the code's model (`PROJECT.json`,
"mutants"): the run must find the property violated there.

Bounds of the models that are not in the code: `Arena` `MaxNow` (time stops), `TickLag`
(how late the ticker may be; with it time waits for the ticker), `PairUntil` (pairing
stops), `MayPause` (a paused tick does what an unpaused one does that pairs nobody, so the
largest instance leaves pausing out); `Txn` `Units`, `MaxCancels`, `MaxHealth`;
`TurnRoutes` `MaxPly` (a claim is of an earlier ply) and the fixed players of each game; `ClockLedger` `MaxInstant`, `MaxPly`;
`Matchmaker` `MaxSpread` (how far games played may drift apart); `EventStream` `MaxPly`,
`MaxSeq`, `MaxRun`; `Client` `MaxGame`, `MaxPly`, `MaxLate`; `Supervisor` `MaxLost`
(`MaxTick`, the longest tick that is not wedged, is an assumption about the machine);
`OfflineArena` `MaxGames`, `MaxThink`, `MaxGap`. `Txn`'s sections are entered once each, so
that its system stops; `OfflineArena` and `Supervisor` really end.

## 5. Fairness

* `Arena!FairSpec`: weak fairness of time and of the ticker's steps. `run_ticker` loops
  for ever, catches what a tick raises, and the supervisor replaces a ticker that stops
  (`Supervisor!WedgedGivesWay`); the write lock is held by no request for ever
  (`Txn!SectionsEnd`). No fairness is assumed of any bot. An anchor may fail at every unit.
* `Txn!FairSpec`: the executor's thread runs what is queued and the loop resumes a
  coroutine whose statement is done. Acquiring the lock needs none for the property
  checked: it speaks of sections that have begun.
* `TurnRoutes!FairSpec`: the loop resumes a poll, a hold times out, the sections that
  hold the lock release it, and `asyncio.Lock` serves its waiters in turn, hence strong
  fairness of the delivery that waits for it.
* `Matchmaker!FairSpec`: ticks commit again and again, every bot's game ends (which
  `Arena!GamesEnd` shows) and restarts come to an end. `EverySeatedAgain` adds, as its own
  premise, that all competitors go on polling and that pairings stop failing: the
  relaxation gives a bot the right to be paired but no precedence in the order, so a
  pairing that failed for ever could take its partner for ever.
* `Dashboard!FairSpec`: weak fairness of the flush, the delivery, the refresh timer and the
  handling of a failed fetch; strong fairness of some request being read, answered and
  applied: connections may break and requests fail, but not every one for ever.
* `Client!FairSpec`: time passes, and the client's and the server's steps that time waits
  for are taken. That calls stop failing is the premise of `TurnsArePlayed`, not of the
  specification. Without it the property is false: a move that is lost makes the loop poll
  again at once, each poll costs a token, and an adversary who loses just the moves starves
  the bot.
* `Supervisor!FairSpec`: time passes, timers that are due fire, and a cancelled task comes
  to its end unless its cancellation is replaced. No tick needs to end.
* `OfflineArena!FairSpec`: one thread, and every call of a bot returns.

## 6. Disagreements between code and documents

`TxnBegin` is the run that must fail, and the finding in `PROJECT.json`: a task cancelled
while `BEGIN IMMEDIATE` runs leaves the section with the transaction open, because that
statement is awaited before the `try` (`txn.py:137`); every later `BEGIN` then fails. The
docstring four lines above promises exactly one `COMMIT` or `ROLLBACK` before the lock is
released.

The others are properties of the modules, with a configuration of their own that TLC
refutes when it is run by hand (`tlc -config X.cfg M`):

| configuration, module | property | what the code does, and what says otherwise |
|---|---|---|
| `ArenaCharge`, `MCArena` | `ChargedFromHandover` | `step_anchor_moves` delivers at the tick's start. A move that commits while the ticker waits for the lock makes the anchor's turn start before the position existed. The design says a bot is never charged before the position was sent |
| `ArenaStatus`, `MCArena` | `StatusChangesLegal` | `resign_game` finishes a game that is still pending. `can_transition`, its tests and the design's diagram forbid it. (The server never calls it) |
| `TxnCommit`, `Txn` | `CommittedIsApplied` | a task cancelled while `COMMIT` runs has committed, but its deferred changes and its events are dropped |
| `TurnRoutesDeliver`, `MCTurnRoutes` | `DeliveredToMover` | a poll asks whose turn it is, waits for the lock, and delivers what is then the turn of the opponent if its own bot moved meanwhile |
| `TurnRoutesClaim`, `MCTurnRoutes` | `MovedByMover` | the check before a submission looks at the caller only when the game is at the claimed ply when it reads. `CheckedClaimsSound` is the part of its argument that holds: where the caller was compared, it is the side to move in the row as it is when the move is applied |
| `ClientBurst`, `Client` | `ExtraBurstsEnd` | `rate_limit.py:22` says that an evicted bucket restarts full, "which at worst grants one extra burst". That is so of one eviction (`NeverAboveRate` says what it takes), not of a key: each time as many other keys as the table holds have asked since its last request it has a full bucket again, without end |
| `DashboardRows`, `Dashboard` | `RowsReachEventId` | `dashboard_state` reads its rows, then the event id (`routes_public.py:114`); the comment above it gives the order as the reason no event is skipped. An event that lands between the two is in neither: its id is at or below the one reported, and its change is not in the rows. The page recovers with the next refresh, which is why `Converges` holds |
| `OfflineArenaCrash`, `OfflineArena` | `RaisingForfeits` | a bot that raises after pushing an odd number of moves on the board it was handed is credited with the win: the result is read off `board.turn` (`arena.py:189`). The design's taxonomy says a crash forfeits the game. `BlamesTheMover` holds under the premise that boards come back as they were |

Three behaviours no document speaks of, met while modelling: a bot that returns `None`
ends the offline tournament and loses every finished game; two bots whose files share a
stem are one bot to the schedule, which may then be empty; a cancellation that is replaced
by an SQL error at shutdown leaves the lifespan waiting for a ticker that goes on (phase
"hanging" in `Supervisor`).

## 7. Proofs

`ArenaProofs` opens with the lemmas about one row, which its theorems about `Arena` and about
`ClockLedger` both need: milliseconds survive a trip through nanoseconds (`RoundTripMs`), nanoseconds lose less than
one millisecond (`RoundTripNs`), each statement returns a row when given one, and `MovedRow`
says which columns a move in time changes. They assume `ClockAssumption` and `RowAssumption`:
the grain is a positive natural, the controls are naturals, and the values that stand for NULL
are none of the values they stand beside.

Of **`ClockLedger`** it proves, for every `NsPerMs`, `TimeControl`, `Increment`, `MaxInstant`
and `MaxPly`,

* `LedgerAgreesAlways`: `LedgerSpec => []LedgerAgrees`
* `FlagAgreesAlways`: `LedgerSpec => []FlagAgrees`

`LedgerAgrees` is not inductive: whether an instant is charged depends on whether the
turn's start is stamped, and the stopwatch runs on the delivery flag. `LedgerIInv` adds the type
of the row and `TurnShape`, that the two columns agree. A move is the step with arithmetic
in it: the new account is the old one less the elapsed time plus the increment, rounded
down, and `RoundedSum` bounds what the rounding takes. A first delivery starts the turn at
this instant and so takes nothing, a later one and a strike change no clock, an instant
moves the stopwatch and the running turn together. `FlagAgrees` follows because the flag is
asked of the same remaining time.

Of **`Arena`** it proves, for any number of bots, anchors, owners and games, any ratings,
limits and clock baselines (`ArenaAssumption`), `TypeAlways`, `SeatIffLiveAlways`,
`RatedExactlyOnceAlways`, `ZeroSumAlways`, `SweepListsFreshAlways`, `DeliveryShapeAlways`,
`EndShapeAlways`, `TerminalFrozenAlways`, and the theorems on rows and books below.

None of those about tables is inductive alone. A unit of a sweep ends the game it is at without
looking at its status again; that this game is live follows from the list being fresh, and
that the list stays fresh follows from a unit writing only its own game and from no request
running inside the tick. A game is rated when it ends because it was live, so it had no rows
of history; that its players have deltas that cancel needs them to be two different bots.
A pairing seats two bots because the snapshot it pairs from has nobody seated in it. So
`IInv` is the conjunction of the invariants with `RowShape` (the shape of every row, its
players included) and `TickShape` (where the ticker is, what its list and its snapshot may
hold). The argument has three layers: what a statement leaves of a row (`DeliverGoesOn`,
`StrikeGoesOn`, `MoveGoesOn`, `TerminateShape`, `RecoveredRow`); what the two ways to write
a live game do to the tables (`OnlyGameOK`, `EndGameOK`), which is where seats, ratings and
history are; and one lemma per action, by which of the two it takes and where it leaves the
ticker (`RequestOK`, `UnitOK`, `TickOnlyOK`). `LeastId` is why a sweep always has a next
game. `TerminalFrozen` is read off the same lemmas: each action writes one live game, a free
row, or, in recovery, the live ones.

Its second part proves the three properties of the run `ArenaAnchor`:

* `RowsSoundAlways`: `Spec => []RowsSound`
* `LossesEarnedAlways`: `Spec => LossesEarned`
* `ImplementsMatchAlways`: `Spec => ImplementsMatch`

All three rest on one lemma, `Changes`: whatever the step, the row of a given game is
untouched or undergoes one of eleven changes (created, delivered, struck, moved, or ended in
one of seven ways), each with the conditions the code had checked. `RInv` adds to `IInv` that
the tick's time is not ahead of the clock, that live rows are within their limits
(`LimitsOK`) and that stamps and poll times are past (`StampsOK`, `PollsOK`). A live clock is
never empty because a move is accepted only with time left and adds the increment, which is
where `LimitsAssumption` is needed: control and increment are at least a millisecond, as the
server's constants are. A loss is earned because what was due at the tick's old time is due
now (`FlagStays`, `GraceStaysOver`), and a forfeit has exactly the limit's strikes because
one fewer was there before. For the refinement each change is one transition of `Match` or
none (`MatchSteps`), with `FreshOK`, that an id without a row counts no plies.

Its third part proves the books of the run `Arena`, `RatingConsistentAlways` and
`CountersMatchGamesAlways`. `Kinds` sorts the steps: a live game goes on or is concluded, a
bot registers or polls, a pair is made, the server restarts, or no table changes. Only a
conclusion touches ratings, counters and history, and `EndGameBooks` says what it writes. A
counter grows by one because the game that ends was not among the finished ones; a rating
moves by the delta whose history row is new, because a live game has none
(`RatedExactlyOnce`). A bot that registers starts at zero because nobody has played before
registering (`PlayersRegistered`: a pair comes from the snapshot, the snapshot from the list
of bots). `GameId` may be infinite, so that the finished games and the history are finite is
part of the invariant (`Identities`). The sum is the library's fold, which takes the rows in
an order of its own; `TotalTakes`, that it is the sum in any order, is an induction over
finite sets, done by a least counterexample (`LeastId`) since the library's induction
theorems cannot be used.

**`TxnProofs`** proves `IsolatedAlways`, `AllOrNothingAlways` and `ToldSoundAlways` for any
number of tasks, units, cancellations and health ticks. The argument is about one task, the holder of the
lock (`HolderOK`): at each place of its section, what of its statements may still be queued
(`QueueOK`: at most a write that was cancelled, then at most the statement it waits for),
what the connection holds of it (`RowsOK`) and what is on disk (`DiskOK`). Every other task
has nothing anywhere. A late write is harmless because the `ROLLBACK` is behind it in the
queue; that is the whole reason the executor has one thread.

For `ToldSound` two more parts go beside it. `BuffersOK`: a task's buffer ascends and holds only
units it keeps, and until a savepoint is over perhaps the unit in hand, behind the `at_entry`
items that were there before. This is where cutting back is needed: a unit that failed must
leave the buffer as its savepoint found it. `ToldInv`: what is told is on disk, is numbered
from 0 without a hole, ascends within a task, and is only of tasks that are done, so that each
tells once. A flush appends the whole buffer behind what is there
(`TellsBatch`), whose rows its `COMMIT` has just put on disk.

**`MatchmakerProofs`** proves `PairingSoundAlways`, `RelaxedWaitsAloneAlways` and
`CountersFollowSeatsAlways` for any bots, anchors, owners, ratings, window and limits
(`MatchmakerAssumption`). The first half is about the policy, a pure function. `BeforeIs`,
that the sort key orders any two bots; `SortedExists` and `InOrderIs`, that a pool can be
sorted and its order lists each bot once; `PairWalkIs` and `OfferWalkIs`, that the recursions
over the turns have a value. `Walked` is the invariant of `pair_bots` from one turn to the
next: the pairs so far are allowed and disjoint, and no bot that has had its turn is free
together with a later one it may meet. `Offered` is that of `offer_anchors`. From both,
`PairingsOK`: of any pool the pairs are disjoint, and of the competitors left out no two may
meet, and none that has waited has an anchor near. All these are inductions by a least
counterexample, as in `OfflineArenaProofs` below.

The second half is about the tick. `TickHolds` keeps for as long as the transaction is open
what was true when the pool was read: its bots are free, and what was paired is the policy's
choice, for the columns and counters as they still are. `SeatedIn` is the shape of the seats;
`SeatsTaken` and `SeatsLeft` are the two ways to write them.

**`TurnRoutesProofs`** proves `WaitersSoundAlways`, `AnswersCurrentAlways` and
`CheckedClaimsSoundAlways` for any bots, games and requests. `PollOK` says what a poll may
rely on at each await: the game it read from its seat is live for as long as no wake on its
way says otherwise. `AnswersCurrent` needs that what is over stays over (`OverStays`), that
the mailbox is only given positions that are not (`PutCurrent`), and how a poll moves
(`PollMoves`). `CheckedClaimsSound` speaks of the row at the moment of the move, and has three
parts: what was compared stays what the submission carries (`CheckedStays`), the move goes
through only at the claimed ply of a live game (`OnlyItsMove`, the compare-and-set), and a live
game seats both its players (`LiveSeated`, an invariant of its own), so that the caller still
sits there.

**`ClientProofs`** proves `TypeCorrect`, `NeverAboveRateAlways` and `StrikesEarnedAlways`.
The limiter's `LimiterOK` relates the table to the meter. While `Mine` has a bucket, the meter
has at least what that bucket is worth with the time since its last request: what flooring loses
below a millisecond is lost for good (`RefillOK`). And every key behind `Mine` in the order has
asked since `Mine` did, so when `Mine` is first in a full table and a key that is not there asks,
`MaxKeys` others have: `Crowd` counts them through an injection from the places of the table. What
`get`, `move_to_end` and `popitem` leave of the order is `OrderedOK`. For the strikes, `StrikesCovered`
counts the illegal moves that may still be counted: strikes, plus illegal moves of this game
given up and under way, plus the one being waited for, are no more than were chosen.

**`SupervisorProofs`** proves `TypeCorrect`, `TwoTickersNever`, `ClosesLast` and
`HealthySpared`. The strengthening is that only the task known as `app_state.ticker_task`
can be alive (`OnlyCurrentLives`), and for the last that a healthy ticker's age leaves room
for the rest of its pause and its tick (`HealthyIsFresh`), which uses the assumption
`2 * MaxTick + Interval <= TickRestart`.

**`OfflineArenaProofs`** proves, for any bots, numbers of games, plies, times of thought, and
any control and increment of the command line (`OfflineArenaAssumption`),

* `ThinkingIsPaidAlways`, `BlamesTheMoverAlways`: `Spec => []ThinkingIsPaid` and
  `Spec => []BlamesTheMover`
* `PlaysAMatchAlways`: `Spec => PlaysAMatch`, the refinement of `Match`
* `ReportSoundAlways`: `Spec => []ReportSound`

The first three rest on `IInv`, which places the loop of `run_single_game` (`AtWork`): the clock
runs for the side to move, a bot is called only in an undecided position, below the cap and on
a delivered clock, nobody in the loop is out of attempts, and before a game everything is
fresh. Each step of the loop then is one transition of the abstract game or none
(`MatchSteps`).

The last is about what is printed, and is where recursions have to be reasoned about: the
schedule is a flattened sequence, the ratings of the reference are replayed game by game, and
a table's total is a fold over a set. The prover cannot instantiate an induction theorem, but
it can argue by a least counterexample: of the lengths at which a claim fails there is a least
one (`LeastNat`, from `WFMin`), and one unfolding of the recursion leads from it to a smaller.
`FlattenBlocks` says where the games of each block are in the flattened schedule, which gives
each pairing its games (`GamesOfPairing`) with the colours alternating (`Alternating`) and the
numbers within one of each other (`Fair`); `ReplayNext` and `ReplayPrefix` that a result more
is an update more; `SumMoves` that moving one summand moves the sum. `Standing` is the
invariant: table and ratings are those of the results recorded so far. An increment or control
may be negative or zero, as the command line admits.

**`DashboardProofs`** proves `PageSoundAlways` (`Spec => []PageSound`) for any number of games,
requests, restarts, events and places in the queue (`StreamAssumption`). Two steps apply
a whole sequence at once: `drainBuffer` the envelopes that came before the first snapshot, and
a flush the events of its section. `FoldsExist` shows that such a fold has a value, `UpTo` (an
induction over the numbers below a bound, again by a least counterexample) carries a fact along
its prefixes: `DrainSound` that no envelope of another run touches a board, `FlushPublishes`
that events are numbered one after the other and the queue stays in its bound. The invariant
adds `RoomToFlush`: a commit leaves room in the model's bound `MaxSeq` for the numbers of its
events. An answer of an older run may overtake the present one, and the page then believes in
that older run: what makes this sound is that it replaces every board with the run
(`AdoptSound`), and that from then on it takes envelopes of no other run.

## 8. What is only model-checked, what is not modelled

Liveness (`GamesEnd`, `SectionsEnd`, `PollsAnswered`, `EverySeatedAgain`, `Converges`,
`TurnsArePlayed`, `WedgedGivesWay`, `StopCompletes`, `Finishes`) is out of the prover's reach
and is checked by TLC. Every safety property the runs check is proved.

A type invariant is not a run's property by itself: it is a conjunct of `RowsSound`,
`ToldSound`, `WaitersSound`, `PairingSound`, `PageSound` and `ReportSound`, and is proved with
it.

Not modelled: positions and legality in `rules.py` and python-chess (`OfflineArena` has the
order of its verdicts); what bots and anchors choose; the presence events and history
caches, which decide nothing; delete-all and the reports of administration; hashing of
tokens, settings, response texts, HTML and drawing; the client's registration and
resignation; wall-clock time, which nothing is decided by; move times, printed totals and
PGN text of the offline arena, and `replay_game`. SQLite is taken to do what it documents: a
transaction is atomic and durable, and the reader sees committed rows.

## 9. What is left

* `Arena` with the choice of pairs of `Matchmaker` as one specification: `Arena` now allows
  every choice the policy could make, which is sound for its safety properties.
* The presence set and the history cache beside the tables; both are memos that a rollback
  must not leave ahead.
