-------------------------------- MODULE Txn --------------------------------
(***************************************************************************)
(* store/txn.py: the single writer.  A task holds the write lock from      *)
(* BEGIN to COMMIT or ROLLBACK, but its statements run on another thread,  *)
(* the one thread of the connection's executor, in the order in which they *)
(* were queued; and the task may be cancelled at any of its awaits.  A     *)
(* statement sent through _finish is waited for even then, one sent by a   *)
(* repository is not.                                                      *)
(*                                                                         *)
(* The body of a section is a few units of work, each one write with the   *)
(* event and the process-state change that go with it.  The ticker wraps a *)
(* unit in a savepoint and survives its failure; a request does not.       *)
(***************************************************************************)
EXTENDS Integers, Sequences, FiniteSets

CONSTANTS
  Task,            \* coroutines that enter a critical section
  Ticker,          \* those whose units have savepoints
  NoTask           \* nobody holds the lock

\* Bounds of the model.
CONSTANTS
  Units,           \* units of work in a body
  MaxCancels,      \* cancellations
  MaxHealth        \* health ticks

ASSUME TxnAssumption ==
  /\ Ticker \subseteq Task
  /\ NoTask \notin Task
  /\ Units \in Nat \ {0} /\ MaxCancels \in Nat /\ MaxHealth \in Nat

VARIABLES
  lock,            \* the holder of write_lock
  conn,            \* the writer connection: [in_transaction, rows, saved]
  committed,       \* rows on disk
  queue,           \* statements handed to the executor, oldest first
  task,            \* each coroutine: where it is and what it holds
  applied,         \* process-state changes made
  published,       \* what the sink was given: [seq, event]
  next_seq,        \* _next_seq
  cancels          \* cancellations so far

vars == <<lock, conn, committed, queue, task, applied, published, next_seq, cancels>>

Row == Task \X (1..Units)

HealthTick == <<"health_tick">>

\* "answer" is the outcome of the statement the task waits for; "raising" the
\* exception on its way out of the unit.
Pc ==
  {"idle", "begin", "savepoint", "write", "release", "rollback_to",
   "release_after", "commit", "rollback", "done"}

\* "buffer" is txn.events and txn.deferred: a unit adds an item to each, so both
\* are the same sequence of units; "at_entry" its length when the savepoint was
\* entered.
TaskState ==
  [pc : Pc,
   answer : {"none", "ok", "error"},
   cancelled : BOOLEAN,
   raising : {"nothing", "conflict", "cancelled"},
   unit : 1..(Units + 1),
   kept : SUBSET (1..Units),
   buffer : Seq(1..Units),
   at_entry : Nat]

Init ==
  /\ lock = NoTask
  /\ conn = [in_transaction |-> FALSE, rows |-> {}, saved |-> {}]
  /\ committed = {}
  /\ queue = <<>>
  /\ task = [t \in Task |->
       [pc |-> "idle", answer |-> "none", cancelled |-> FALSE, raising |-> "nothing",
        unit |-> 1, kept |-> {}, buffer |-> <<>>, at_entry |-> 0]]
  /\ applied = {}
  /\ published = <<>>
  /\ next_seq = 0
  /\ cancels = 0

-----------------------------------------------------------------------------
(* The executor's thread.                                                  *)

\* What a statement does to the connection and the disk.  Outside a
\* transaction a write commits by itself (isolation_level=None).
Ran(stmt, in_transaction, rows, saved, disk, answer) ==
  /\ conn' = [in_transaction |-> in_transaction, rows |-> rows, saved |-> saved]
  /\ committed' = disk
  /\ task' = IF task[stmt.task].pc = stmt.sql
             THEN [task EXCEPT ![stmt.task].answer = answer]
             ELSE task     \* its await was cancelled

Run(stmt) ==
  LET row == <<stmt.task, task[stmt.task].unit>>
      same == Ran(stmt, conn.in_transaction, conn.rows, conn.saved, committed, "error")
  IN CASE stmt.sql = "begin" ->
            IF conn.in_transaction THEN same
            ELSE Ran(stmt, TRUE, {}, {}, committed, "ok")
       [] stmt.sql = "write" ->
            IF conn.in_transaction
            THEN Ran(stmt, TRUE, conn.rows \cup {row}, conn.saved, committed, "ok")
            ELSE Ran(stmt, FALSE, {}, {}, committed \cup {row}, "ok")
       [] stmt.sql = "savepoint" ->
            Ran(stmt, TRUE, conn.rows, conn.rows, committed, "ok")
       [] stmt.sql = "rollback_to" ->
            Ran(stmt, TRUE, conn.saved, conn.saved, committed, "ok")
       [] stmt.sql \in {"release", "release_after"} ->
            Ran(stmt, TRUE, conn.rows, {}, committed, "ok")
       [] stmt.sql = "commit" ->
            IF conn.in_transaction
            THEN Ran(stmt, FALSE, {}, {}, committed \cup conn.rows, "ok") ELSE same
       [] stmt.sql = "rollback" ->
            IF conn.in_transaction
            THEN Ran(stmt, FALSE, {}, {}, committed, "ok") ELSE same

\* Mutant of Execute: an executor of several threads.
ExecuteAny ==
  \E i \in DOMAIN queue :
    /\ Run(queue[i])
    /\ queue' = SubSeq(queue, 1, i - 1) \o SubSeq(queue, i + 1, Len(queue))
    /\ UNCHANGED <<lock, applied, published, next_seq, cancels>>

Execute ==
  /\ queue # <<>>
  /\ Run(Head(queue))
  /\ queue' = Tail(queue)
  /\ UNCHANGED <<lock, applied, published, next_seq, cancels>>

-----------------------------------------------------------------------------
(* The coroutines, on the event loop.                                      *)

\* Send sql and wait for it there; changed is the task's state otherwise.
SendVia(q, t, changed, sql) ==
  /\ queue' = Append(q, [task |-> t, sql |-> sql])
  /\ task' = [task EXCEPT ![t] = [changed EXCEPT !.pc = sql, !.answer = "none"]]

Send(t, changed, sql) == SendVia(queue, t, changed, sql)

NoFlush == UNCHANGED <<applied, published, next_seq>>

Quiet == UNCHANGED <<conn, committed, cancels>>

\* The lock is released and the section is over.
Leave(t, changed) ==
  /\ lock' = NoTask
  /\ task' = [task EXCEPT ![t] = [changed EXCEPT !.pc = "done", !.answer = "none"]]
  /\ UNCHANGED queue

\* The body goes on with its next unit, or ends.
Continue(t, changed) ==
  IF changed.unit > Units THEN Send(t, changed, "commit")
  ELSE IF t \in Ticker
       THEN Send(t, [changed EXCEPT !.at_entry = Len(changed.buffer)], "savepoint")
       ELSE Send(t, changed, "write")

\* async with write_lock; BEGIN IMMEDIATE
Acquire(t) ==
  /\ task[t].pc = "idle"
  /\ lock = NoTask
  /\ lock' = t
  /\ Send(t, task[t], "begin")
  /\ NoFlush /\ Quiet

Answered(t, sql) == task[t].pc = sql /\ task[t].answer # "none"

\* _finish raises when the statement is done: the statement's own error, or
\* the cancellation it held meanwhile.
Raises(t) == task[t].answer = "error" \/ task[t].cancelled

\* BEGIN is awaited before the try, so a failure here is not rolled back.
Begun(t) ==
  /\ Answered(t, "begin")
  /\ IF Raises(t)
     THEN Leave(t, [task[t] EXCEPT !.cancelled = FALSE])
     ELSE Continue(t, task[t]) /\ UNCHANGED lock
  /\ NoFlush /\ Quiet

\* The savepoint is awaited before its try, too: the whole section rolls back.
SavepointMade(t) ==
  /\ Answered(t, "savepoint")
  /\ IF Raises(t)
     THEN Send(t, [task[t] EXCEPT !.cancelled = FALSE], "rollback")
     ELSE Send(t, task[t], "write")
  /\ UNCHANGED lock
  /\ NoFlush /\ Quiet

\* Mutant of Written: a failed unit is released, not rolled back to.
WrittenNoRollbackTo(t) ==
  LET self == task[t]
      buffered == [self EXCEPT !.buffer = Append(@, self.unit)]
  IN /\ Answered(t, "write")
     /\ ~self.cancelled
     /\ \/ IF t \in Ticker
           THEN Send(t, buffered, "release")
           ELSE Continue(t, [buffered EXCEPT !.kept = @ \cup {self.unit},
                                             !.unit = @ + 1])
        \/ Send(t, [buffered EXCEPT !.raising = "conflict"],
                IF t \in Ticker THEN "release_after" ELSE "rollback")
     /\ UNCHANGED lock
     /\ NoFlush /\ Quiet

\* The write is done; emit and defer; the rest of the unit succeeds or raises
\* (a CASConflict, an IntegrityError).
Written(t) ==
  LET self == task[t]
      buffered == [self EXCEPT !.buffer = Append(@, self.unit)]
  IN /\ Answered(t, "write")
     /\ ~self.cancelled
     /\ \/ IF t \in Ticker
           THEN Send(t, buffered, "release")
           ELSE Continue(t, [buffered EXCEPT !.kept = @ \cup {self.unit},
                                             !.unit = @ + 1])
        \/ Send(t, [buffered EXCEPT !.raising = "conflict"],
                IF t \in Ticker THEN "rollback_to" ELSE "rollback")
     /\ UNCHANGED lock
     /\ NoFlush /\ Quiet

\* The bare await of a repository is cancelled at once.  The write is taken
\* back if the thread has not begun it; otherwise it is still under way.  The
\* queue holds nothing else: what the task sent before is done, and nobody else
\* has the lock.
WriteCancelled(t) ==
  /\ task[t].pc = "write"
  /\ task[t].cancelled
  /\ \E q \in {queue, <<>>} :
       SendVia(q, t, [task[t] EXCEPT !.cancelled = FALSE, !.raising = "cancelled"],
               IF t \in Ticker THEN "rollback_to" ELSE "rollback")
  /\ UNCHANGED lock
  /\ NoFlush /\ Quiet

Released(t) ==
  /\ Answered(t, "release")
  /\ IF Raises(t)
     THEN Send(t, [task[t] EXCEPT !.cancelled = FALSE], "rollback")
     ELSE Continue(t, [task[t] EXCEPT !.kept = @ \cup {task[t].unit}, !.unit = @ + 1])
  /\ UNCHANGED lock
  /\ NoFlush /\ Quiet

RolledBackTo(t) ==
  /\ Answered(t, "rollback_to")
  /\ IF Raises(t)
     THEN Send(t, [task[t] EXCEPT !.cancelled = FALSE], "rollback")
     ELSE Send(t, task[t], "release_after")
  /\ UNCHANGED lock
  /\ NoFlush /\ Quiet

\* Mutant of ReleasedAfter: the buffers are not truncated.
ReleasedAfterKeepingBuffers(t) ==
  LET self == task[t]
  IN /\ Answered(t, "release_after")
     /\ IF Raises(t) \/ self.raising = "cancelled"
        THEN Send(t, [self EXCEPT !.cancelled = FALSE], "rollback")
        ELSE Continue(t, [self EXCEPT !.raising = "nothing", !.unit = @ + 1])
     /\ UNCHANGED lock
     /\ NoFlush /\ Quiet

\* The buffers are cut back to their length at entry; the ticker swallows a
\* conflict and goes on, and nobody swallows a cancellation.
ReleasedAfter(t) ==
  LET self == task[t]
      cut  == [self EXCEPT !.buffer = SubSeq(@, 1, self.at_entry)]
  IN /\ Answered(t, "release_after")
     /\ IF Raises(t)
        THEN Send(t, [self EXCEPT !.cancelled = FALSE], "rollback")
        ELSE IF self.raising = "cancelled" THEN Send(t, cut, "rollback")
        ELSE Continue(t, [cut EXCEPT !.raising = "nothing", !.unit = @ + 1])
     /\ UNCHANGED lock
     /\ NoFlush /\ Quiet

\* Txn.flush: the deferred changes, then a seq for each event, then the sink.
Flush(t) ==
  LET buffer == task[t].buffer
  IN /\ applied' = applied \cup {<<t, buffer[i]>> : i \in DOMAIN buffer}
     /\ published' = published \o
          [i \in DOMAIN buffer |-> [seq |-> next_seq + i - 1, event |-> <<t, buffer[i]>>]]
     /\ next_seq' = next_seq + Len(buffer)

\* COMMIT is awaited in the else branch: raising there skips the flush.
Committed(t) ==
  /\ Answered(t, "commit")
  /\ Leave(t, [task[t] EXCEPT !.cancelled = FALSE, !.buffer = <<>>])
  /\ IF Raises(t) THEN NoFlush ELSE Flush(t)
  /\ Quiet

\* Mutant of RolledBack: one that raises is tried again.
RolledBackRetried(t) ==
  /\ Answered(t, "rollback")
  /\ IF Raises(t)
     THEN Send(t, task[t], "rollback") /\ UNCHANGED lock
     ELSE Leave(t, [task[t] EXCEPT !.buffer = <<>>])
  /\ NoFlush /\ Quiet

RolledBack(t) ==
  /\ Answered(t, "rollback")
  /\ Leave(t, [task[t] EXCEPT !.cancelled = FALSE, !.buffer = <<>>])
  /\ NoFlush /\ Quiet

\* take_seq, for the one event that belongs to no transaction
PublishHealthTick ==
  /\ Cardinality({i \in DOMAIN published : published[i].event = HealthTick}) < MaxHealth
  /\ published' = Append(published, [seq |-> next_seq, event |-> HealthTick])
  /\ next_seq' = next_seq + 1
  /\ UNCHANGED <<lock, conn, committed, queue, task, applied, cancels>>

\* The supervisor cancels a ticker that is late, wait_for a probe that is.
Cancel(t) ==
  /\ cancels < MaxCancels
  /\ task[t].pc \notin {"idle", "done"}
  /\ ~task[t].cancelled
  /\ task' = [task EXCEPT ![t].cancelled = TRUE]
  /\ cancels' = cancels + 1
  /\ UNCHANGED <<lock, conn, committed, queue, applied, published, next_seq>>

Resume(t) ==
  \/ Begun(t) \/ SavepointMade(t) \/ Written(t) \/ WriteCancelled(t)
  \/ Released(t) \/ RolledBackTo(t) \/ ReleasedAfter(t)
  \/ Committed(t) \/ RolledBack(t)

Done == (\A t \in Task : task[t].pc = "done") /\ UNCHANGED vars

Next ==
  \/ Execute
  \/ \E t \in Task : Acquire(t) \/ Resume(t) \/ Cancel(t)
  \/ PublishHealthTick
  \/ Done

Spec == Init /\ [][Next]_vars

\* The thread runs what it is given and the loop resumes what is ready.
FairSpec ==
  /\ Spec
  /\ WF_vars(Execute)
  /\ \A t \in Task : WF_vars(Resume(t))

-----------------------------------------------------------------------------
(* Properties.                                                             *)

TypeOK ==
  /\ lock \in Task \cup {NoTask}
  /\ conn \in [in_transaction : BOOLEAN, rows : SUBSET Row, saved : SUBSET Row]
  /\ committed \in SUBSET Row
  /\ queue \in Seq([task : Task, sql : Pc])
  /\ task \in [Task -> TaskState]
  /\ applied \in SUBSET Row
  /\ next_seq \in Nat
  /\ cancels \in 0..MaxCancels

OnDisk(t) == {u \in 1..Units : <<t, u>> \in committed}

\* A section is all or nothing, unit by unit: what is on disk of a task is
\* nothing or exactly the units that ended well, whatever was cancelled, and
\* nothing at all of one that was rolled back.
AllOrNothing ==
  \A t \in Task :
    /\ OnDisk(t) \in {{}, task[t].kept}
    /\ task[t].pc \notin {"commit", "done"} => OnDisk(t) = {}

\* The rows a task is working on are seen by no other task's transaction.
Isolated ==
  \A r \in conn.rows : lock = r[1]

\* Nobody is told of, and no cache holds, what is not on disk.
NothingEscapes ==
  /\ applied \subseteq committed
  /\ \A i \in DOMAIN published :
       published[i].event # HealthTick => published[i].event \in committed

\* The subscribers' gap check: what is published is numbered 0, 1, 2, ... and
\* a rolled-back section leaves no hole.
SeqContiguous ==
  /\ next_seq = Len(published)
  /\ \A i \in DOMAIN published : published[i].seq = i - 1

\* A section's events are told in the order in which its units emitted them, and
\* none of them twice.
ToldInOrder ==
  \A i, j \in DOMAIN published :
    LET first == published[i].event
        second == published[j].event
    IN i < j /\ first # HealthTick /\ second # HealthTick /\ first[1] = second[1]
         => first[2] < second[2]

\* What is told outside is on disk, once and in order.
ToldSound == TypeOK /\ NothingEscapes /\ SeqContiguous /\ ToldInOrder

\* Every section ends and lets go of the lock, however it is cancelled and
\* whatever its statements answer.
SectionsEnd ==
  \A t \in Task : task[t].pc # "idle" ~> task[t].pc = "done" /\ lock # t

\* The lock is never released with a transaction still open.
ClosedBeforeRelease == lock = NoTask => ~conn.in_transaction

\* What a section deferred is applied once it has committed.
CommittedIsApplied ==
  \A t \in Task : task[t].pc = "done" => {t} \X OnDisk(t) \subseteq applied
=============================================================================
