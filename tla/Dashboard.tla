----------------------------- MODULE Dashboard -----------------------------
(***************************************************************************)
(* web/dashboard.js: one browser that subscribes to the events, asks for a *)
(* snapshot, applies what it buffered meanwhile, and from then on applies  *)
(* events as they come and replaces everything it shows by a snapshot every*)
(* fifteen seconds, or two seconds after something it could not apply.     *)
(*                                                                         *)
(* The connection may break and requests may fail; frames that are in the  *)
(* network are frames not yet taken from the hub's queue.  Panels, clocks  *)
(* and the leaderboard are left out: a board is a game, its ply and the    *)
(* run that reported it.                                                   *)
(***************************************************************************)
EXTENDS EventStream

CONSTANT NoRun     \* runId is null

VARIABLE
  browser          \* [ready, buffer, runId, lastSeq, boards, resync]

vars == <<games, run, seq, unflushed, featured, client, request, browser>>

Board == [ply : 0..MaxPly, run : 0..MaxRun]

TypeOK ==
  /\ ServerTypeOK
  /\ browser \in [ready : BOOLEAN, buffer : Seq(Envelope), runId : 0..MaxRun \cup {NoRun},
                  lastSeq : -1..MaxSeq,
                  boards : UNION {[S -> Board] : S \in SUBSET GameId},
                  resync : BOOLEAN]

\* The request init waits for
First == CHOOSE r \in Request : TRUE

\* init: connect, then the first snapshot
Init ==
  /\ ServerInit
  /\ client = NewClient
  /\ request = [r \in Request |-> IF r = First THEN [NoRequest EXCEPT !.pc = "sent"]
                                             ELSE NoRequest]
  /\ browser = [ready |-> FALSE, buffer |-> <<>>, runId |-> NoRun, lastSeq |-> -1,
                boards |-> [g \in {} |-> 0], resync |-> FALSE]

-----------------------------------------------------------------------------
(* Events                                                                  *)

\* onMove and onEnd, and what makes handle ask for a snapshot
Handle(b, envelope) ==
  LET g == envelope.data.game
      known == g \in DOMAIN b.boards
  IN CASE envelope.data.type = "game_created" ->
            [b EXCEPT !.resync = @ \/ ~known]
       [] envelope.data.type = "move_played" ->
            IF known THEN [b EXCEPT !.boards[g] = [ply |-> envelope.data.ply,
                                                   run |-> envelope.run]]
            ELSE [b EXCEPT !.resync = TRUE]
       [] envelope.data.type = "game_ended" ->
            [b EXCEPT !.boards = [x \in DOMAIN @ \ {g} |-> @[x]], !.resync = TRUE]

\* receive
Receive(b, envelope) ==
  IF ~b.ready THEN [b EXCEPT !.buffer = Append(@, envelope)]
  ELSE IF envelope.run # b.runId THEN [b EXCEPT !.resync = TRUE]
  ELSE IF envelope.seq <= b.lastSeq THEN b
  ELSE Handle([b EXCEPT !.lastSeq = envelope.seq], envelope)

\* stream yields the oldest envelope of the queue.  Its wake flag is left out:
\* nothing else runs between its last look at the queue and its wait, and a
\* heartbeat ends every wait.
Deliver ==
  /\ client.queue # <<>>
  /\ client' = [client EXCEPT !.queue = Tail(@)]
  /\ browser' = Receive(browser, Head(client.queue))
  /\ UNCHANGED <<games, run, seq, unflushed, featured, request>>

\* The connection breaks and onerror asks for a snapshot; the browser connects
\* again on its own, to a new and empty queue.
Disconnect ==
  /\ client.open
  /\ client' = Gone
  /\ browser' = [browser EXCEPT !.resync = TRUE]
  /\ UNCHANGED <<games, run, seq, unflushed, featured, request>>

Reconnect ==
  /\ ~client.open
  /\ client' = NewClient
  /\ UNCHANGED <<games, run, seq, unflushed, featured, request, browser>>

-----------------------------------------------------------------------------
(* Snapshots                                                               *)

Send(r) ==
  /\ request[r].pc = "none"
  /\ request' = [request EXCEPT ![r].pc = "sent"]
  /\ UNCHANGED <<games, run, seq, unflushed, featured, client>>

\* The interval, which init sets once the buffer is drained
Refresh(r) == browser.ready /\ Send(r) /\ UNCHANGED browser

\* scheduleResync's timer, which may run before that
ResyncFires(r) ==
  /\ browser.resync
  /\ Send(r)
  /\ browser' = [browser EXCEPT !.resync = FALSE]

\* drainBuffer: isNewer admits events of the run shown, after the snapshot.
DrainOne(b, envelope) ==
  IF envelope.run = b.runId /\ envelope.seq > b.lastSeq
  THEN Handle([b EXCEPT !.lastSeq = envelope.seq], envelope) ELSE b

DrainBuffer(b) ==
  FoldLeft(DrainOne, [b EXCEPT !.buffer = <<>>, !.ready = TRUE], b.buffer)

\* Only the first snapshot is followed by a drain, in the same turn.
AfterSnapshot(b, r) == IF b.ready \/ r # First THEN b ELSE DrainBuffer(b)

\* Mutant of Adopt: boards are added and not replaced.
AdoptMerging(b, answer) ==
  [b EXCEPT !.runId = answer.run, !.lastSeq = answer.event_id,
            !.boards = [g \in DOMAIN b.boards \cup DOMAIN answer.rows |->
                          IF g \in DOMAIN answer.rows
                          THEN [ply |-> answer.rows[g], run |-> answer.run]
                          ELSE b.boards[g]]]

\* snapshot, once the answer is here
Adopt(b, answer) ==
  [b EXCEPT !.runId = answer.run, !.lastSeq = answer.event_id,
            !.boards = [g \in DOMAIN answer.rows |->
                          [ply |-> answer.rows[g], run |-> answer.run]]]

Done(r) == request' = [request EXCEPT ![r] = NoRequest]

ApplySnapshot(r) ==
  /\ request[r].pc = "answered"
  /\ browser' = AfterSnapshot(Adopt(browser, request[r]), r)
  /\ Done(r)
  /\ UNCHANGED <<games, run, seq, unflushed, featured, client>>

\* Mutant of FetchFails: the rejection is not caught, and ends init.
FetchFailsUncaught(r) ==
  /\ request[r].pc # "none"
  /\ Done(r)
  /\ UNCHANGED <<games, run, seq, unflushed, featured, client, browser>>

\* fetch rejects; the page goes on with what it has.
FetchFails(r) ==
  /\ request[r].pc # "none"
  /\ browser' = AfterSnapshot(browser, r)
  /\ Done(r)
  /\ UNCHANGED <<games, run, seq, unflushed, featured, client>>

\* An answer already sent may still arrive.
Restart ==
  /\ RestartServer
  /\ client' = Gone
  /\ request' = [r \in Request |->
                   IF request[r].pc \in {"sent", "reading"}
                   THEN [NoRequest EXCEPT !.pc = "failed"] ELSE request[r]]
  /\ browser' = [browser EXCEPT !.resync = browser.resync \/ client.open]

-----------------------------------------------------------------------------

FlushStep == Flush /\ UNCHANGED browser

ReadStep(r) == ReadSummaries(r) /\ UNCHANGED browser

AnswerStep(r) == AnswerState(r) /\ UNCHANGED browser

Next ==
  \/ \E g \in GameId :
       /\ CreateGame(g) \/ PlayMove(g) \/ EndGame(g)
       /\ UNCHANGED browser
  \/ FlushStep
  \/ Restart
  \/ Deliver \/ Disconnect \/ Reconnect
  \/ \E r \in Request :
       \/ ReadStep(r) \/ AnswerStep(r)
       \/ Refresh(r) \/ ResyncFires(r)
       \/ ApplySnapshot(r) \/ FetchFails(r)

Spec == Init /\ [][Next]_vars

\* The interval timer and the handlers go on, some request succeeds now and
\* then, and the browser takes what the connection brings.
FairSpec ==
  /\ Spec
  /\ WF_vars(FlushStep) /\ WF_vars(Deliver)
  /\ WF_vars(\E r \in Request : Refresh(r))
  /\ WF_vars(\E r \in Request : request[r].pc = "failed" /\ FetchFails(r))
  /\ SF_vars(\E r \in Request : ReadStep(r))
  /\ SF_vars(\E r \in Request : AnswerStep(r))
  /\ SF_vars(\E r \in Request : ApplySnapshot(r))

-----------------------------------------------------------------------------
(* Properties                                                              *)

\* Every board shown comes from the run the page believes in, however a
\* restart, a broken connection and answers under way interleave.
RunsNotMixed ==
  \A g \in DOMAIN browser.boards : browser.boards[g].run = browser.runId

\* What the page holds is of its types, and of one run.
PageSound == TypeOK /\ RunsNotMixed

InSync ==
  /\ browser.runId = run
  /\ DOMAIN browser.boards = Live
  /\ \A g \in Live : browser.boards[g].ply = games[g].ply

\* When nothing happens any more the page shows the tables, whatever events,
\* answers and connections were lost or overtaken before.
Converges == <>[]InSync

\* The comment at api/routes_public.py:112: no event up to event_id is missing
\* from the rows of the snapshot.  When every commit has been flushed, event_id
\* counts them all, so the rows must be those of now.
RowsReachEventId ==
  [][\A r \in Request :
       /\ request[r].pc = "reading" /\ request'[r].pc = "answered"
       /\ unflushed = <<>>
       => request[r].rows = ActiveSummaries]_vars
=============================================================================
