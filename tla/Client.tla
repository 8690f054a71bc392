------------------------------- MODULE Client -------------------------------
(***************************************************************************)
(* The loop of chess_client/client.py against a server that is reduced to  *)
(* what the loop can tell of it: whose turn it is, the compare-and-set of a*)
(* move on its game and ply, strikes, and the rate limiter, with a network *)
(* and a server that fail.  A request the client has given up may still    *)
(* reach the server.                                                       *)
(*                                                                         *)
(* The bot has the even plies of every game.  409, 403, 400 and 200 are one*)
(* answer, "done": the loop logs them and polls again.                     *)
(***************************************************************************)
EXTENDS RateLimiter

\* Mine is the key of this bot.
CONSTANTS
  StrikeLimit,     \* strikes that forfeit
  InitialBackoff,  \* INITIAL_BACKOFF_SECONDS
  MaxBackoff,      \* MAX_BACKOFF_SECONDS
  IdleSleep,       \* IDLE_SECONDS
  RetryAfter,      \* the server's Retry-After
  NoTurn           \* no turn is held, or no call is out

\* Bounds of the model, absent from the code.
CONSTANTS
  MaxGame,         \* games of the bot, one after another
  MaxPly,          \* plies of a game
  MaxLate          \* given-up requests that may still arrive

ASSUME ClientAssumption ==
  /\ {InitialBackoff, MaxBackoff, IdleSleep, RetryAfter, StrikeLimit} \subseteq Nat \ {0}
  /\ InitialBackoff <= MaxBackoff
  /\ MaxGame \in Nat \ {0} /\ MaxPly \in Nat \ {0} /\ MaxLate \in Nat

VARIABLES
  loop,            \* the client: [pc, backoff, sleep, turn]
  call,            \* the request it waits on, or NoTurn
  late,            \* moves it gave up, still on their way
  game,            \* the server's current game: [id, ply, over, strikes]
  buckets,         \* the server's limiter
  meter,           \* the meter of Mine; no code reads it
  illegal          \* illegal moves chosen in the game, up to StrikeLimit; no code reads it

vars == <<loop, call, late, game, buckets, meter, illegal>>

Turn == [game : 1..MaxGame, ply : 0..MaxPly]

Move == [game : 1..MaxGame, ply : 0..MaxPly, legal : BOOLEAN]

Answer == {"turn", "nothing", "done", "limited", "failed", "refused"}

Call == [kind : {"poll", "move"}, stage : {"sent", "admitted"} \cup Answer,
         of : Turn \cup Move \cup {NoTurn}]

TypeOK ==
  /\ loop \in [pc : {"poll", "wait", "think", "sleep", "stopped"},
               backoff : InitialBackoff..MaxBackoff, sleep : Nat, turn : Turn \cup {NoTurn}]
  /\ call \in Call \cup {NoTurn}
  /\ late \in SUBSET Move /\ Cardinality(late) <= MaxLate
  /\ game \in [id : 1..MaxGame, ply : 0..MaxPly, over : BOOLEAN, strikes : 0..StrikeLimit]
  /\ buckets \in [order : Seq(Key), mine : Bucket] /\ Len(buckets.order) <= MaxKeys
  /\ meter \in Meter
  /\ illegal \in 0..StrikeLimit

Init ==
  /\ loop = [pc |-> "poll", backoff |-> InitialBackoff, sleep |-> 0, turn |-> NoTurn]
  /\ call = NoTurn
  /\ late = {}
  /\ game = [id |-> 1, ply |-> 0, over |-> FALSE, strikes |-> 0]
  /\ buckets = NoBuckets
  /\ meter = NewMeter
  /\ illegal = 0

MyTurn == ~game.over /\ game.ply % 2 = 0

-----------------------------------------------------------------------------
(* The client                                                              *)

SendPoll ==
  /\ loop.pc = "poll"
  /\ call' = [kind |-> "poll", stage |-> "sent", of |-> NoTurn]
  /\ loop' = [loop EXCEPT !.pc = "wait"]
  /\ UNCHANGED <<late, game, buckets, meter, illegal>>

\* _play_turn up to the request: the bot chooses, well or badly.
Choose ==
  /\ loop.pc = "think"
  /\ \E legal \in BOOLEAN :
       /\ call' = [kind |-> "move", stage |-> "sent",
                   of |-> [game |-> loop.turn.game, ply |-> loop.turn.ply, legal |-> legal]]
       /\ illegal' = IF legal \/ loop.turn.game # game.id THEN illegal
                     ELSE AtMost(illegal + 1, StrikeLimit)
  /\ loop' = [loop EXCEPT !.pc = "wait", !.turn = NoTurn]
  /\ UNCHANGED <<late, game, buckets, meter>>

Sleeping(l, time) == [l EXCEPT !.pc = "sleep", !.sleep = time]

BackingOff(l) == [Sleeping(l, l.backoff) EXCEPT !.backoff = AtMost(2 * @, MaxBackoff)]

Polled(l) == [l EXCEPT !.backoff = InitialBackoff]

\* Mutant of AfterPoll: the wait the server asks for is not kept.
AfterPollImpatient(l, c) ==
  CASE c.stage = "turn"    -> [Polled(l) EXCEPT !.pc = "think", !.turn = c.of]
    [] c.stage = "nothing" -> Sleeping(Polled(l), IdleSleep)
    [] c.stage = "limited" -> [l EXCEPT !.pc = "poll"]
    [] c.stage = "failed"  -> BackingOff(l)
    [] c.stage = "refused" -> [l EXCEPT !.pc = "stopped"]

\* run, on what _poll returned or raised
AfterPoll(l, c) ==
  CASE c.stage = "turn"    -> [Polled(l) EXCEPT !.pc = "think", !.turn = c.of]
    [] c.stage = "nothing" -> Sleeping(Polled(l), IdleSleep)
    [] c.stage = "limited" -> Sleeping(l, RetryAfter)
    [] c.stage = "failed"  -> BackingOff(l)
    [] c.stage = "refused" -> [l EXCEPT !.pc = "stopped"]

\* _play_turn, on what _submit returned or raised
AfterMove(l, c) ==
  CASE c.stage = "limited" -> Sleeping(l, RetryAfter)
    [] c.stage = "refused" -> [l EXCEPT !.pc = "stopped"]
    [] OTHER               -> [l EXCEPT !.pc = "poll"]

Receive ==
  /\ call # NoTurn /\ call.stage \in Answer
  /\ loop' = IF call.kind = "poll" THEN AfterPoll(loop, call) ELSE AfterMove(loop, call)
  /\ call' = NoTurn
  /\ UNCHANGED <<late, game, buckets, meter, illegal>>

\* Mutant of GiveUp: a move whose answer is lost is sent again.
GiveUpResending ==
  /\ call # NoTurn
  /\ IF call.kind = "move"
     THEN /\ call' = [call EXCEPT !.stage = "sent"] /\ loop' = loop
     ELSE /\ call' = NoTurn /\ loop' = BackingOff(loop)
  /\ UNCHANGED <<late, game, buckets, meter, illegal>>

\* httpx.RequestError: the connection fails or the time is over.  A move on its
\* way, or its answer, may be lost, and the move may also arrive later.
GiveUp ==
  /\ call # NoTurn
  /\ IF call.kind = "move"
     THEN loop' = [loop EXCEPT !.pc = "poll"]
     ELSE loop' = BackingOff(loop)
  /\ \/ late' = late
     \/ /\ call.kind = "move" /\ call.stage \in {"sent", "admitted"}
        /\ Cardinality(late) < MaxLate
        /\ late' = late \cup {call.of}
  /\ call' = NoTurn
  /\ UNCHANGED <<game, buckets, meter, illegal>>

-----------------------------------------------------------------------------
(* The server                                                              *)

\* enforce_rate_limit
Admit ==
  /\ call # NoTurn /\ call.stage = "sent"
  /\ call' = [call EXCEPT !.stage = IF Allowed(buckets) THEN "admitted" ELSE "limited"]
  /\ buckets' = AfterRequest(buckets, Mine)
  /\ meter' = Charged(meter, Allowed(buckets))
  /\ UNCHANGED <<loop, late, game, illegal>>

\* A poll may be held before it is answered.
AnswerTurn ==
  /\ call # NoTurn /\ call.kind = "poll" /\ call.stage = "admitted"
  /\ MyTurn
  /\ call' = [call EXCEPT !.stage = "turn", !.of = [game |-> game.id, ply |-> game.ply]]
  /\ UNCHANGED <<loop, late, game, buckets, meter, illegal>>

AnswerNothing ==
  /\ call # NoTurn /\ call.kind = "poll" /\ call.stage = "admitted"
  /\ ~MyTurn
  /\ call' = [call EXCEPT !.stage = "nothing"]
  /\ UNCHANGED <<loop, late, game, buckets, meter, illegal>>

\* The game after a submission: the compare-and-set on game and ply
Played(g, move) ==
  IF g.over \/ g.id # move.game \/ g.ply # move.ply THEN g
  ELSE IF move.legal THEN [g EXCEPT !.ply = @ + 1, !.over = g.ply + 1 = MaxPly]
  ELSE [g EXCEPT !.strikes = @ + 1, !.over = g.strikes + 1 = StrikeLimit]

AnswerMove ==
  /\ call # NoTurn /\ call.kind = "move" /\ call.stage = "admitted"
  /\ game' = Played(game, call.of)
  /\ call' = [call EXCEPT !.stage = "done"]
  /\ UNCHANGED <<loop, late, buckets, meter, illegal>>

\* A given-up move arrives, past the limiter or not.
ArriveLate(move) ==
  /\ move \in late
  /\ late' = late \ {move}
  /\ game' = IF Allowed(buckets) THEN Played(game, move) ELSE game
  /\ buckets' = AfterRequest(buckets, Mine)
  /\ meter' = Charged(meter, Allowed(buckets))
  /\ UNCHANGED <<loop, call, illegal>>

\* 500, or the token is not known any more
Fail(stage) ==
  /\ call # NoTurn /\ call.stage \in {"sent", "admitted"}
  /\ call' = [call EXCEPT !.stage = stage]
  /\ UNCHANGED <<loop, late, game, buckets, meter, illegal>>

OpponentMoves ==
  /\ ~game.over /\ ~MyTurn
  /\ game' = [game EXCEPT !.ply = @ + 1, !.over = game.ply + 1 = MaxPly]
  /\ UNCHANGED <<loop, call, late, buckets, meter, illegal>>

NextGame ==
  /\ game.over /\ game.id < MaxGame
  /\ game' = [id |-> game.id + 1, ply |-> 0, over |-> FALSE, strikes |-> 0]
  /\ illegal' = 0
  /\ UNCHANGED <<loop, call, late, buckets, meter>>

OtherRequest ==
  /\ \E k \in Key \ {Mine} :
       buckets' = AfterRequest(buckets, k) /\ meter' = Passed(meter, k)
  /\ UNCHANGED <<loop, call, late, game, illegal>>

Pass ==
  /\ buckets' = Aged(buckets)
  /\ meter' = Ticked(meter)
  /\ loop' = IF loop.pc # "sleep" THEN loop
             ELSE IF loop.sleep > 1 THEN [loop EXCEPT !.sleep = @ - 1]
             ELSE [loop EXCEPT !.sleep = 0, !.pc = "poll"]
  /\ UNCHANGED <<call, late, game, illegal>>

-----------------------------------------------------------------------------

Next ==
  \/ SendPoll \/ Choose \/ Receive \/ GiveUp
  \/ Admit \/ AnswerTurn \/ AnswerNothing \/ AnswerMove
  \/ \E move \in late : ArriveLate(move)
  \/ \E stage \in {"failed", "refused"} : Fail(stage)
  \/ OpponentMoves \/ NextGame \/ OtherRequest
  \/ Pass

Spec == Init /\ [][Next]_vars

\* A fault of the network or of the server
Faulty == GiveUp \/ \E stage \in {"failed", "refused"} : Fail(stage)

\* Time passes, and what is not in time's way goes on.
FairSpec ==
  /\ Spec
  /\ WF_vars(Pass)
  /\ WF_vars(SendPoll \/ Choose \/ Admit \/ AnswerTurn \/ AnswerNothing \/ AnswerMove \/ Receive)

-----------------------------------------------------------------------------
(* Properties                                                              *)

\* A key is allowed no more than its burst and its rate, in whatever rhythm it
\* asks and however often its bucket is evicted, unless as many other keys as the
\* table holds have asked between two requests of its own: only then does its
\* burst begin anew.  (rate_limit.py: tokens are floored at every request, the
\* least recently used bucket goes first and restarts full.)
NeverAboveRate == meter.exact >= 0

\* An evicted bucket restarts before it would have been full.
BurstAnew == meter.exact < FullNs /\ ~Has(buckets.order, Mine) /\ Has(buckets'.order, Mine)

\* rate_limit.py says that an evicted bucket "at worst grants one extra burst".
\* Were that so of a key as a whole, its bursts anew would come to an end.
ExtraBurstsEnd == <>[][~BurstAnew]_vars

\* Every strike is for an illegal move of its own: neither a lost answer nor a
\* late request makes one bad choice count twice.
StrikesEarned == game.strikes <= illegal

\* Once the faults are over every turn of the bot is played, or its game ends,
\* whatever was lost, is late or was used up of the limiter before; only a loop
\* that was told to stop does not come back.
TurnsArePlayed ==
  <>[][~Faulty]_vars =>
    \A g \in 1..MaxGame, p \in 0..MaxPly :
      (MyTurn /\ game.id = g /\ game.ply = p)
        ~> (loop.pc = "stopped" \/ game.over \/ game.id # g \/ game.ply # p)
=============================================================================
