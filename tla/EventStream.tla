---------------------------- MODULE EventStream ----------------------------
(***************************************************************************)
(* What the server shows to a browser: the hub and its stream (api/sse.py),*)
(* the featured game (api/featured.py) and GET /state                      *)
(* (api/routes_public.py).  The tables are reduced to what a board shows,  *)
(* a game's status and ply; Txn shows that an event follows its COMMIT and *)
(* that seq is contiguous, and between the two the tables are ahead of the *)
(* events.                                                                 *)
(*                                                                         *)
(* A write is split in COMMIT and flush, a snapshot in the read of its     *)
(* rows and the rest of its handler: at both places another coroutine      *)
(* runs.                                                                   *)
(***************************************************************************)
EXTENDS Integers, FiniteSets, SequencesExt

CONSTANTS
  GameId,          \* games.id
  Request,         \* GET /state requests that may be under way at once
  QueueMax,        \* CLIENT_QUEUE_MAX
  NoGame           \* featured_game_id is None

\* Bounds of the model, absent from the code.
CONSTANTS
  MaxPly,          \* the last ply of a game
  MaxSeq,          \* events of one run
  MaxRun           \* restarts

ASSUME StreamAssumption ==
  /\ NoGame \notin GameId
  /\ QueueMax \in Nat \ {0}
  /\ MaxPly \in Nat /\ MaxSeq \in Nat /\ MaxRun \in Nat

VARIABLES
  games,           \* the committed row of each game: [status, ply]
  run,             \* current_run_id()
  seq,             \* current_seq()
  unflushed,       \* events of a section between its COMMIT and its flush
  featured,        \* hub.featured_game_id, which is the selector's held_game_id
  client,          \* the hub's Client of the one browser: [open, queue]
  request          \* each GET /state: [pc, rows, run, event_id]

Event == [type : {"game_created", "move_played", "game_ended"},
          game : GameId, ply : 0..MaxPly]

Envelope == [run : 0..MaxRun, seq : 0..MaxSeq, data : Event]

\* Active summaries: the ply of each live game
Rows == UNION {[S -> 0..MaxPly] : S \in SUBSET GameId}

NoRows == [g \in {} |-> 0]

ServerTypeOK ==
  /\ games \in [GameId -> [status : {"free", "live", "ended"}, ply : 0..MaxPly]]
  /\ run \in 0..MaxRun
  /\ seq \in 0..MaxSeq
  /\ unflushed \in Seq(Event) /\ Len(unflushed) <= 2
  /\ featured \in GameId \cup {NoGame}
  /\ client \in [open : BOOLEAN, queue : Seq(Envelope)]
  /\ Len(client.queue) <= QueueMax
  /\ request \in [Request -> [pc : {"none", "sent", "reading", "answered", "failed"},
                              rows : Rows, run : 0..MaxRun, event_id : 0..MaxSeq]]

NewClient == [open |-> TRUE, queue |-> <<>>]

Gone == [open |-> FALSE, queue |-> <<>>]

NoRequest == [pc |-> "none", rows |-> NoRows, run |-> 0, event_id |-> 0]

\* server_run_started was seq 0 and nobody had subscribed.
ServerInit ==
  /\ games = [g \in GameId |-> [status |-> "free", ply |-> 0]]
  /\ run = 0
  /\ seq = 0
  /\ unflushed = <<>>
  /\ featured = NoGame

Live == {g \in GameId : games[g].status = "live"}

ActiveSummaries == [g \in Live |-> games[g].ply]

-----------------------------------------------------------------------------
(* A write: the rows at COMMIT, the events at the flush that follows       *)

Commit(g, row, events) ==
  /\ unflushed = <<>>
  /\ seq + Len(events) <= MaxSeq
  /\ games' = [games EXCEPT ![g] = row]
  /\ unflushed' = events
  /\ UNCHANGED <<run, seq, featured, client, request>>

Emitted(type, g, ply) == [type |-> type, game |-> g, ply |-> ply]

CreateGame(g) ==
  /\ games[g].status = "free"
  /\ Commit(g, [status |-> "live", ply |-> 0], <<Emitted("game_created", g, 0)>>)

\* A move goes on or is the last one.
PlayMove(g) ==
  LET next == games[g].ply + 1
      moved == Emitted("move_played", g, next)
  IN /\ games[g].status = "live"
     /\ games[g].ply < MaxPly
     /\ \/ Commit(g, [status |-> "live", ply |-> next], <<moved>>)
        \/ Commit(g, [status |-> "ended", ply |-> next],
                  <<moved, Emitted("game_ended", g, next)>>)

\* Resignation, flag, grace or abort
EndGame(g) ==
  /\ games[g].status = "live"
  /\ Commit(g, [games[g] EXCEPT !.status = "ended"],
            <<Emitted("game_ended", g, games[g].ply)>>)

\* Client.offer: a full deque drops its oldest entry.
Offer(c, envelope) ==
  [c EXCEPT !.queue = IF Len(@) = QueueMax THEN Append(Tail(@), envelope)
                                           ELSE Append(@, envelope)]

\* _throttled: a move of a board nobody watches, within MOVE_COALESCE_NS of
\* another one.  Time is not modelled: "soon" says whether that is so.
Throttled(event, soon) ==
  event.type = "move_played" /\ event.game # featured /\ soon

\* _take_seq and Hub.publish.  A throttled move uses up its number.
Publish(hub, event, soon) ==
  LET envelope == [run |-> run, seq |-> hub.seq + 1, data |-> event]
  IN [seq |-> hub.seq + 1,
      client |-> IF hub.client.open /\ ~Throttled(event, soon)
                 THEN Offer(hub.client, envelope) ELSE hub.client]

\* Txn.flush: all events of the section, without an await.  A section holds at
\* most one move.
Flush ==
  /\ unflushed # <<>>
  /\ \E soon \in BOOLEAN :
       LET hub == FoldLeft(LAMBDA h, event : Publish(h, event, soon),
                           [seq |-> seq, client |-> client], unflushed)
       IN seq' = hub.seq /\ client' = hub.client
  /\ unflushed' = <<>>
  /\ UNCHANGED <<games, run, featured, request>>

-----------------------------------------------------------------------------
(* GET /state                                                              *)

\* list_active_summaries, on the reader connection
ReadSummaries(r) ==
  /\ request[r].pc = "sent"
  /\ request' = [request EXCEPT ![r].pc = "reading", ![r].rows = ActiveSummaries]
  /\ UNCHANGED <<games, run, seq, unflushed, featured, client>>

\* FeaturedSelector.current, of the rows read.  Ratings and the hold are not
\* modelled: the game shown stays while it is active, or the hold is over and
\* another active game is better.
Selectable(active) == IF active = {} THEN {NoGame} ELSE active

\* The rest of dashboard_state, when the loop comes back to it: the number and
\* the run of now, with the rows of then.
AnswerState(r) ==
  /\ request[r].pc = "reading"
  /\ request' = [request EXCEPT ![r].pc = "answered", ![r].run = run, ![r].event_id = seq]
  /\ featured' \in Selectable(DOMAIN request[r].rows)
  /\ UNCHANGED <<games, run, seq, unflushed, client>>

-----------------------------------------------------------------------------
\* The process dies and another recovers: live games are aborted before the
\* socket opens, a new run counts its events from zero, the connection and
\* every request not yet answered are lost.
RestartServer ==
  /\ run < MaxRun
  /\ run' = run + 1
  /\ seq' = 0
  /\ games' = [g \in GameId |-> IF g \in Live THEN [games[g] EXCEPT !.status = "ended"]
                                              ELSE games[g]]
  /\ unflushed' = <<>>
  /\ featured' = NoGame
=============================================================================
