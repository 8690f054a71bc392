----------------------------- MODULE TxnProofs -----------------------------
(***************************************************************************)
(* That sections are isolated and atomic, and that what is told outside is *)
(* on disk, once and in order, for any number of coroutines, of units and  *)
(* of cancellations.  The first argument is about one task, the holder of  *)
(* the lock: what of its statements may still be queued, and what the      *)
(* connection holds of it, at each place where it can be.  The second is   *)
(* about the buffer of a section: the units it tells of, in order, and how *)
(* it splits at the entry of the savepoint.                                *)
(***************************************************************************)
EXTENDS Txn, SequenceTheorems, TLAPS

\* Places inside the body, where the transaction is open and a unit is at work
Body == {"savepoint", "write", "release", "rollback_to", "release_after"}

Outside == {"idle", "done"}

Stmt == [task : Task, sql : Pc]

Connection == [in_transaction : BOOLEAN, rows : SUBSET Row, saved : SUBSET Row]

Types ==
  /\ lock \in Task \cup {NoTask}
  /\ conn \in Connection
  /\ committed \in SUBSET Row
  /\ queue \in Seq(Stmt)
  /\ task \in [Task -> TaskState]

Sent(t, sql) == [task |-> t, sql |-> sql]

\* What is queued of the holder: the statement it waits for and, before it, at
\* most the write whose await was cancelled.
QueueOK(t, s, q) ==
  IF s.answer # "none" THEN q = <<>>
  ELSE \/ q = <<Sent(t, s.pc)>>
       \/ /\ s.pc \in {"rollback", "rollback_to"}
          /\ s.unit <= Units
          /\ q = <<Sent(t, "write"), Sent(t, s.pc)>>

Own(t) == {t} \X (1..Units)

Whole(t, s) == {t} \X s.kept

Partial(t, s) == Whole(t, s) \cup {<<t, s.unit>>}

\* What the connection holds of the holder: the units that ended well, and the
\* one at work where it is not yet released or rolled back to.
RowsOK(t, s, c) ==
  /\ s.answer = "error" => s.pc = "begin"
  /\ s.pc \in Body => c.in_transaction /\ s.unit <= Units
  /\ s.pc \in Body \ {"write"} => t \in Ticker
  /\ s.pc = "begin" =>
       /\ c.rows = {} /\ c.saved = {}
       /\ s.kept = {} /\ s.unit = 1
       /\ s.answer = "ok" => c.in_transaction
  /\ s.pc = "savepoint" =>
       /\ c.rows = Whole(t, s)
       /\ c.saved = IF s.answer = "none" THEN {} ELSE Whole(t, s)
  /\ s.pc = "write" =>
       /\ c.rows = IF s.answer = "none" THEN Whole(t, s) ELSE Partial(t, s)
       /\ c.saved = IF t \in Ticker THEN Whole(t, s) ELSE {}
  /\ s.pc = "release" =>
       /\ c.rows = Partial(t, s)
       /\ c.saved = IF s.answer = "none" THEN Whole(t, s) ELSE {}
  /\ s.pc = "rollback_to" =>
       /\ c.rows = Whole(t, s) \/ (s.answer = "none" /\ c.rows = Partial(t, s))
       /\ c.saved = Whole(t, s)
  /\ s.pc = "release_after" =>
       /\ c.rows = Whole(t, s)
       /\ c.saved = IF s.answer = "none" THEN Whole(t, s) ELSE {}
  /\ s.pc = "commit" =>
       /\ c.saved = {}
       /\ IF s.answer = "none" THEN c.in_transaction /\ c.rows = Whole(t, s) ELSE c.rows = {}
  /\ s.pc = "rollback" =>
       IF s.answer = "none"
       THEN c.in_transaction /\ c.rows \subseteq Own(t) /\ c.saved \subseteq Own(t)
       ELSE c.rows = {} /\ c.saved = {}

\* What is on disk of a task: nothing before its COMMIT has run, and then all
\* it has kept.
Stored(t, disk) == {u \in 1..Units : <<t, u>> \in disk}

DiskOK(t, s, disk) ==
  /\ Stored(t, disk) = {} \/ Stored(t, disk) = s.kept
  /\ s.pc \notin {"commit", "done"} => Stored(t, disk) = {}
  /\ s.pc = "commit" => Stored(t, disk) = IF s.answer = "none" THEN {} ELSE s.kept

FreshOK(s) == s.pc = "idle" => s.kept = {} /\ s.unit = 1

HolderOK(t, s, c, q) ==
  /\ s.pc \notin Outside
  /\ QueueOK(t, s, q)
  /\ RowsOK(t, s, c)

IInv ==
  /\ Types
  /\ \A t \in Task : t # lock => task[t].pc \in Outside
  /\ \A t \in Task : FreshOK(task[t]) /\ DiskOK(t, task[t], committed)
  /\ lock = NoTask => queue = <<>> /\ conn.rows = {} /\ conn.saved = {}
  /\ lock \in Task => HolderOK(lock, task[lock], conn, queue)

LEMMA InitEstablishes == Init => IInv
<1> SUFFICES ASSUME Init PROVE IInv
  OBVIOUS
<1>1. 1 \in 1..(Units + 1)
  BY TxnAssumption
<1>2. [pc |-> "idle", answer |-> "none", cancelled |-> FALSE, raising |-> "nothing",
       unit |-> 1, kept |-> {}, buffer |-> <<>>, at_entry |-> 0] \in TaskState
  BY <1>1, EmptySeq DEF TaskState, Pc
<1>3. Types
  BY <1>2, EmptySeq DEF Init, Types, Connection
<1>4. QED
  BY <1>3, TxnAssumption DEF Init, IInv, Outside, FreshOK, DiskOK, Stored

-----------------------------------------------------------------------------
(* Steps of the holder                                                     *)

LEMMA AppendSecond ==
  ASSUME NEW S, NEW a \in S, NEW b \in S
  PROVE  Append(<<a>>, b) = <<a, b>>
<1> DEFINE l == Append(<<a>>, b)
           r == <<a, b>>
<1>1. <<a>> \in Seq(S) /\ Len(<<a>>) = 1
  OBVIOUS
<1>2. l \in Seq(S) /\ Len(l) = 2 /\ l[1] = a /\ l[2] = b
  BY <1>1, AppendProperties
<1>3. r \in Seq(S) /\ Len(r) = 2 /\ r[1] = a /\ r[2] = b
  OBVIOUS
<1>4. \A i \in 1..Len(l) : l[i] = r[i]
  BY <1>2, <1>3
<1>5. Len(l) = Len(r)
  BY <1>2, <1>3
<1> HIDE DEF l, r
<1>6. l = r
  BY <1>2, <1>3, <1>4, <1>5, SeqEqual
<1>7. QED
  BY <1>6 DEF l, r

\* It sends a statement.
LEMMA SendOK ==
  ASSUME IInv, NEW t \in Task, lock = t, lock' = lock, conn' = conn, committed' = committed,
         NEW s \in TaskState, task' = [task EXCEPT ![t] = s],
         s.answer = "none", s.pc \notin Outside,
         DiskOK(t, s, committed), RowsOK(t, s, conn),
         NEW q, queue' = Append(q, Sent(t, s.pc)),
         \/ q = <<>>
         \/ q = <<Sent(t, "write")>> /\ s.pc \in {"rollback", "rollback_to"} /\ s.unit <= Units
  PROVE  IInv'
<1>1. Sent(t, s.pc) \in Stmt /\ Sent(t, "write") \in Stmt
  BY DEF Sent, Stmt, TaskState, Pc
<1>2. QueueOK(t, s, queue') /\ queue' \in Seq(Stmt)
  <2>1. CASE q = <<>>
    BY <1>1, <2>1 DEF QueueOK
  <2>2. CASE q = <<Sent(t, "write")>> /\ s.pc \in {"rollback", "rollback_to"} /\ s.unit <= Units
    <3>1. queue' = <<Sent(t, "write"), Sent(t, s.pc)>>
      BY <1>1, <2>2, AppendSecond
    <3>2. <<Sent(t, "write"), Sent(t, s.pc)>> \in Seq(Stmt)
      BY <1>1
    <3>3. QED
      BY <2>2, <3>1, <3>2 DEF QueueOK
  <2>3. QED
    BY <2>1, <2>2
<1>3. Types'
  BY <1>2 DEF IInv, Types
<1>4. task'[t] = s /\ \A u \in Task : u # t => task'[u] = task[u]
  BY DEF IInv, Types
<1>5. HolderOK(t, s, conn, queue')
  BY <1>2 DEF HolderOK
<1>6. FreshOK(s)
  BY DEF FreshOK, Outside
<1>7. \A u \in Task : u # lock' => task'[u].pc \in Outside
  BY <1>4 DEF IInv
<1>8. \A u \in Task : FreshOK(task'[u]) /\ DiskOK(u, task'[u], committed')
  BY <1>4, <1>6 DEF IInv
<1>9. lock' # NoTask
  BY TxnAssumption
<1>10. HolderOK(lock', task'[lock'], conn', queue')
  BY <1>4, <1>5
<1>11. QED
  BY <1>3, <1>7, <1>8, <1>9, <1>10 DEF IInv

\* It leaves, with nothing queued and nothing in the connection.
LEMMA LeaveOK ==
  ASSUME IInv, NEW t \in Task, lock = t, lock' = NoTask, conn' = conn, committed' = committed,
         NEW s \in TaskState, task' = [task EXCEPT ![t] = s],
         s.pc = "done", DiskOK(t, s, committed),
         queue' = queue, queue = <<>>, conn.rows = {}, conn.saved = {}
  PROVE  IInv'
<1>1. Types'
  BY DEF IInv, Types
<1>2. task'[t] = s /\ \A u \in Task : u # t => task'[u] = task[u]
  BY DEF IInv, Types
<1>3. FreshOK(s)
  BY DEF FreshOK
<1>4. \A u \in Task : u # lock' => task'[u].pc \in Outside
  BY <1>2 DEF IInv, Outside
<1>5. \A u \in Task : FreshOK(task'[u]) /\ DiskOK(u, task'[u], committed')
  BY <1>2, <1>3 DEF IInv
<1>6. lock' \notin Task
  BY TxnAssumption
<1>7. QED
  BY <1>1, <1>4, <1>5, <1>6 DEF IInv

\* The task that is neither idle nor done is the holder, and what it waits for
\* is all that is queued.
LEMMA HolderIs ==
  ASSUME IInv, NEW t \in Task, task[t].pc \notin Outside
  PROVE  /\ lock = t
         /\ HolderOK(t, task[t], conn, queue)
         /\ DiskOK(t, task[t], committed)
         /\ task[t] \in TaskState
<1>1. lock = t
  BY DEF IInv
<1>2. QED
  BY <1>1 DEF IInv, Types

\* The state a task is in when it has sent its next statement, or left.
Moved(s, sql) == [s EXCEPT !.pc = sql, !.answer = "none"]

LEMMA MovedOn ==
  ASSUME NEW s \in TaskState, NEW sql \in Pc
  PROVE  /\ Moved(s, sql) \in TaskState
         /\ Moved(s, sql).pc = sql /\ Moved(s, sql).answer = "none"
         /\ Moved(s, sql).unit = s.unit /\ Moved(s, sql).kept = s.kept
         /\ Moved(s, sql).buffer = s.buffer /\ Moved(s, sql).at_entry = s.at_entry
  BY DEF Moved, TaskState

LEMMA AcquireOK ==
  ASSUME IInv, NEW t \in Task, Acquire(t)
  PROVE  IInv'
<1> DEFINE s == Moved(task[t], "begin")
<1>1. task[t] \in TaskState /\ task[t].pc = "idle"
  BY DEF IInv, Types, Acquire
<1>2. /\ s \in TaskState /\ s.pc = "begin" /\ s.answer = "none"
      /\ s.unit = task[t].unit /\ s.kept = task[t].kept
  BY <1>1, MovedOn DEF Pc
<1>3. s.kept = {} /\ s.unit = 1
  BY <1>1, <1>2 DEF IInv, FreshOK
<1>4. lock' = t /\ conn' = conn /\ committed' = committed /\ task' = [task EXCEPT ![t] = s]
  BY DEF Acquire, Send, SendVia, Quiet, Moved
<1>5. queue = <<>> /\ conn.rows = {} /\ conn.saved = {}
  BY DEF IInv, Acquire
<1>6. queue' = <<Sent(t, "begin")>>
  BY <1>5 DEF Acquire, Send, SendVia, Sent
<1>7. HolderOK(t, s, conn, queue')
  BY <1>2, <1>3, <1>5, <1>6 DEF HolderOK, QueueOK, RowsOK, Outside, Body
<1>8. Types'
  <2>1. queue' \in Seq(Stmt)
    BY <1>6 DEF Stmt, Sent, Pc
  <2>2. QED
    BY <1>2, <1>4, <2>1 DEF IInv, Types
<1>9. task'[t] = s /\ \A u \in Task : u # t => task'[u] = task[u]
  BY <1>4 DEF IInv, Types
<1>10. FreshOK(s) /\ DiskOK(t, s, committed)
  BY <1>1, <1>2, <1>3 DEF IInv, FreshOK, DiskOK
<1>11. \A u \in Task : u # lock' => task'[u].pc \in Outside
  BY <1>4, <1>9, TxnAssumption DEF IInv, Acquire
<1>12. \A u \in Task : FreshOK(task'[u]) /\ DiskOK(u, task'[u], committed')
  BY <1>4, <1>9, <1>10 DEF IInv
<1>13. lock' # NoTask
  BY <1>4, TxnAssumption
<1>14. QED
  BY <1>4, <1>7, <1>8, <1>9, <1>11, <1>12, <1>13 DEF IInv

-----------------------------------------------------------------------------
(* One lemma per step of a coroutine                                       *)

\* A step of the holder that sends its next statement: what is left to show is
\* what the connection holds.
LEMMA Sends ==
  ASSUME IInv, NEW t \in Task, task[t].pc \notin Outside \cup {"commit"},
         lock' = lock, Quiet,
         NEW s \in TaskState, NEW sql \in Pc \ Outside,
         NEW q, SendVia(q, t, s, sql),
         \/ q = <<>>
         \/ q = <<Sent(t, "write")>> /\ sql \in {"rollback", "rollback_to"} /\ s.unit <= Units,
         RowsOK(t, Moved(s, sql), conn)
  PROVE  IInv'
<1>1. lock = t /\ DiskOK(t, task[t], committed)
  BY HolderIs
<1>2. /\ Moved(s, sql) \in TaskState
      /\ Moved(s, sql).pc = sql /\ Moved(s, sql).answer = "none"
      /\ Moved(s, sql).unit = s.unit
  BY MovedOn
<1>3. DiskOK(t, Moved(s, sql), committed)
  <2>1. Stored(t, committed) = {}
    BY <1>1 DEF DiskOK, Outside
  <2>2. QED
    BY <1>2, <2>1 DEF DiskOK
<1>4. /\ task' = [task EXCEPT ![t] = Moved(s, sql)]
      /\ queue' = Append(q, Sent(t, sql))
      /\ conn' = conn /\ committed' = committed
  BY DEF SendVia, Quiet, Moved, Sent
<1>5. QED
  BY <1>1, <1>2, <1>3, <1>4, SendOK

\* The body goes on: the connection holds the units kept so far.
LEMMA Continues ==
  ASSUME IInv, NEW t \in Task, task[t].pc \notin Outside \cup {"commit"},
         lock' = lock, Quiet, queue = <<>>,
         NEW s \in TaskState, Continue(t, s),
         conn.in_transaction, conn.rows = Whole(t, s), conn.saved = {}
  PROVE  IInv'
<1>1. s.unit \in Nat /\ Units \in Nat
  BY TxnAssumption DEF TaskState
<1> DEFINE entered == [s EXCEPT !.at_entry = Len(s.buffer)]
<1>2. /\ entered \in TaskState
      /\ entered.unit = s.unit /\ entered.kept = s.kept
  BY LenProperties DEF TaskState
<1> HIDE DEF entered
<1>3. ASSUME NEW to \in TaskState, to.unit = s.unit, to.kept = s.kept,
             NEW sql \in Pc \ Outside, Send(t, to, sql),
             IF s.unit > Units THEN sql = "commit"
             ELSE sql = IF t \in Ticker THEN "savepoint" ELSE "write"
      PROVE  IInv'
  <2>1. /\ Moved(to, sql).pc = sql /\ Moved(to, sql).answer = "none"
        /\ Moved(to, sql).unit = s.unit /\ Moved(to, sql).kept = s.kept
    BY <1>3, MovedOn
  <2>2. RowsOK(t, Moved(to, sql), conn)
    BY <1>1, <1>3, <2>1 DEF RowsOK, Body, Whole
  <2>3. QED
    BY <1>3, <2>2, Sends DEF Send
<1>4. {"commit", "savepoint", "write"} \subseteq Pc \ Outside
  BY DEF Pc, Outside
<1>5. CASE s.unit > Units
  BY <1>3, <1>4, <1>5 DEF Continue
<1>6. CASE ~(s.unit > Units) /\ t \in Ticker
  BY <1>2, <1>3, <1>4, <1>6 DEF Continue, entered
<1>7. CASE ~(s.unit > Units) /\ t \notin Ticker
  BY <1>3, <1>4, <1>7 DEF Continue
<1>8. QED
  BY <1>5, <1>6, <1>7

LEMMA UncancelledType ==
  ASSUME NEW s \in TaskState
  PROVE  LET calm == [s EXCEPT !.cancelled = FALSE]
         IN /\ calm \in TaskState
            /\ calm.unit = s.unit /\ calm.kept = s.kept /\ calm.pc = s.pc
            /\ calm.buffer = s.buffer /\ calm.at_entry = s.at_entry
  BY DEF TaskState

\* Raising inside the body: the section rolls back.
LEMMA RollsBack ==
  ASSUME IInv, NEW t \in Task, task[t].pc \in Body,
         lock' = lock, Quiet, queue = <<>>,
         NEW s \in TaskState, Send(t, s, "rollback")
  PROVE  IInv'
<1>1. HolderOK(t, task[t], conn, queue) /\ task[t] \in TaskState /\ lock = t
  BY HolderIs DEF Body, Outside
<1>2. /\ conn.in_transaction
      /\ conn.rows \subseteq Own(t) /\ conn.saved \subseteq Own(t)
  <2>1. task[t].unit \in 1..Units /\ task[t].kept \subseteq 1..Units
    BY <1>1, TxnAssumption DEF HolderOK, RowsOK, TaskState, Body
  <2>2. Whole(t, task[t]) \subseteq Own(t) /\ Partial(t, task[t]) \subseteq Own(t)
    BY <2>1 DEF Whole, Partial, Own
  <2>3. QED
    BY <1>1, <2>2 DEF HolderOK, RowsOK, Body
<1>3. Moved(s, "rollback").pc = "rollback" /\ Moved(s, "rollback").answer = "none"
  BY MovedOn DEF Pc
<1>4. RowsOK(t, Moved(s, "rollback"), conn)
  BY <1>2, <1>3 DEF RowsOK, Body
<1>5. QED
  BY <1>4, Sends DEF Send, Outside, Body, Pc

LEMMA BegunOK ==
  ASSUME IInv, NEW t \in Task, Begun(t)
  PROVE  IInv'
<1>1. task[t].pc = "begin" /\ task[t].answer # "none" /\ Quiet
  BY DEF Begun, Answered
<1>2. /\ lock = t /\ HolderOK(t, task[t], conn, queue) /\ task[t] \in TaskState
      /\ DiskOK(t, task[t], committed)
  BY <1>1, HolderIs DEF Outside
<1>3. queue = <<>> /\ conn.rows = {} /\ conn.saved = {} /\ task[t].kept = {}
  BY <1>1, <1>2 DEF HolderOK, QueueOK, RowsOK
<1>4. CASE Raises(t)
  <2> DEFINE calm == [task[t] EXCEPT !.cancelled = FALSE]
             s == Moved(calm, "done")
  <2>1. calm \in TaskState
    BY <1>2, UncancelledType
  <2>2. s \in TaskState /\ s.pc = "done"
    BY <2>1, MovedOn DEF Pc
  <2>3. lock' = NoTask /\ task' = [task EXCEPT ![t] = s] /\ queue' = queue
    BY <1>4 DEF Begun, Leave, Moved
  <2>4. DiskOK(t, s, committed)
    BY <1>1, <1>2, <2>2 DEF DiskOK
  <2> HIDE DEF s
  <2>5. QED
    BY <1>1, <1>2, <1>3, <2>2, <2>3, <2>4, LeaveOK DEF Quiet
<1>5. CASE ~Raises(t)
  <2>1. task[t].answer = "ok"
    BY <1>1, <1>2, <1>5 DEF Raises, TaskState
  <2>2. conn.in_transaction
    BY <1>1, <1>2, <2>1 DEF HolderOK, RowsOK
  <2>3. Whole(t, task[t]) = {}
    BY <1>3 DEF Whole
  <2>4. Continue(t, task[t]) /\ lock' = lock
    BY <1>5 DEF Begun
  <2>5. QED
    BY <1>1, <1>2, <1>3, <2>2, <2>3, <2>4, Continues DEF Outside
<1>6. QED
  BY <1>4, <1>5

LEMMA SavepointMadeOK ==
  ASSUME IInv, NEW t \in Task, SavepointMade(t)
  PROVE  IInv'
<1>1. task[t].pc = "savepoint" /\ task[t].answer # "none" /\ Quiet /\ lock' = lock
  BY DEF SavepointMade, Answered
<1>2. /\ HolderOK(t, task[t], conn, queue) /\ task[t] \in TaskState
  BY <1>1, HolderIs DEF Outside
<1>3. queue = <<>>
  BY <1>1, <1>2 DEF HolderOK, QueueOK
<1>4. CASE Raises(t)
  BY <1>1, <1>2, <1>3, <1>4, UncancelledType, RollsBack DEF SavepointMade, Body
<1>5. CASE ~Raises(t)
  <2> DEFINE s == Moved(task[t], "write")
  <2>1. /\ s.pc = "write" /\ s.answer = "none"
        /\ s.unit = task[t].unit /\ s.kept = task[t].kept
    BY <1>2, MovedOn DEF Pc
  <2>2. Whole(t, s) = Whole(t, task[t])
    BY <2>1 DEF Whole
  <2> HIDE DEF s
  <2>3. RowsOK(t, s, conn)
    BY <1>1, <1>2, <2>1, <2>2 DEF HolderOK, RowsOK, Body
  <2>4. QED
    BY <1>1, <1>2, <1>3, <1>5, <2>3, Sends DEF SavepointMade, Send, Outside, Pc, s
<1>6. QED
  BY <1>4, <1>5

LEMMA WrittenOK ==
  ASSUME IInv, NEW t \in Task, Written(t)
  PROVE  IInv'
<1> DEFINE self == task[t]
           buffered == [self EXCEPT !.buffer = Append(@, self.unit)]
<1>1. self.pc = "write" /\ self.answer # "none" /\ Quiet /\ lock' = lock
  BY DEF Written, Answered
<1>2. /\ HolderOK(t, self, conn, queue) /\ self \in TaskState
  BY <1>1, HolderIs DEF Outside
<1>3. queue = <<>> /\ conn.in_transaction /\ self.unit \in 1..Units
  BY <1>1, <1>2, TxnAssumption DEF HolderOK, QueueOK, RowsOK, Body, TaskState
<1>4. /\ conn.rows = Partial(t, self)
      /\ conn.saved = IF t \in Ticker THEN Whole(t, self) ELSE {}
  BY <1>1, <1>2 DEF HolderOK, RowsOK
<1>5. /\ buffered \in TaskState
      /\ buffered.unit = self.unit /\ buffered.kept = self.kept
  <2>1. Append(self.buffer, self.unit) \in Seq(1..Units)
    BY <1>2, <1>3, AppendProperties DEF TaskState
  <2>2. QED
    BY <1>2, <2>1 DEF TaskState
<1>6. CASE t \in Ticker /\ Send(t, buffered, "release")
  <2> DEFINE s == Moved(buffered, "release")
  <2>1. /\ s.pc = "release" /\ s.answer = "none"
        /\ s.unit = self.unit /\ s.kept = self.kept
    <3>1. "release" \in Pc
      BY DEF Pc
    <3> HIDE DEF buffered
    <3>2. QED
      BY <1>5, <3>1, MovedOn
  <2>2. Partial(t, s) = Partial(t, self) /\ Whole(t, s) = Whole(t, self)
    BY <2>1 DEF Partial, Whole
  <2> HIDE DEF s
  <2>3. RowsOK(t, s, conn)
    BY <1>3, <1>4, <1>6, <2>1, <2>2 DEF RowsOK, Body
  <2> HIDE DEF buffered
  <2>4. QED
    BY <1>1, <1>3, <1>5, <1>6, <2>3, Sends DEF Send, Outside, Pc, s
<1>7. ASSUME t \notin Ticker,
             Continue(t, [buffered EXCEPT !.kept = @ \cup {self.unit}, !.unit = @ + 1])
      PROVE  IInv'
  <2> DEFINE s == [buffered EXCEPT !.kept = @ \cup {self.unit}, !.unit = @ + 1]
  <2> HIDE DEF buffered
  <2>1. s \in TaskState /\ s.kept = self.kept \cup {self.unit}
    <3>1. self.unit + 1 \in 1..(Units + 1) /\ self.kept \cup {self.unit} \in SUBSET (1..Units)
      BY <1>2, <1>3, TxnAssumption DEF TaskState
    <3>2. QED
      BY <1>5, <3>1 DEF TaskState
  <2>2. Whole(t, s) = Partial(t, self)
    BY <2>1 DEF Whole, Partial
  <2> HIDE DEF s
  <2>3. Continue(t, s)
    BY <1>7 DEF s
  <2>4. QED
    BY <1>1, <1>3, <1>4, <1>7, <2>1, <2>2, <2>3, Continues DEF Outside
<1>8. ASSUME Send(t, [buffered EXCEPT !.raising = "conflict"],
                  IF t \in Ticker THEN "rollback_to" ELSE "rollback")
      PROVE  IInv'
  <2> DEFINE raised == [buffered EXCEPT !.raising = "conflict"]
  <2>1. /\ raised \in TaskState
        /\ raised.unit = self.unit /\ raised.kept = self.kept
    BY <1>5 DEF TaskState
  <2> HIDE DEF buffered
  <2>2. CASE t \in Ticker
    <3> DEFINE s == Moved(raised, "rollback_to")
    <3>1. /\ s.pc = "rollback_to" /\ s.answer = "none"
          /\ s.unit = self.unit /\ s.kept = self.kept
      <4>1. "rollback_to" \in Pc
        BY DEF Pc
      <4> HIDE DEF raised
      <4>2. QED
        BY <2>1, <4>1, MovedOn
    <3>2. Partial(t, s) = Partial(t, self) /\ Whole(t, s) = Whole(t, self)
      BY <3>1 DEF Partial, Whole
    <3> HIDE DEF s
    <3>3. RowsOK(t, s, conn)
      BY <1>3, <1>4, <2>2, <3>1, <3>2 DEF RowsOK, Body
    <3> HIDE DEF raised
    <3>4. SendVia(queue, t, raised, "rollback_to")
      BY <1>8, <2>2 DEF Send, raised
    <3>5. QED
      BY <1>1, <1>3, <2>1, <3>3, <3>4, Sends DEF Outside, Pc, s
  <2>3. CASE t \notin Ticker
    <3> HIDE DEF raised
    <3>1. Send(t, raised, "rollback")
      BY <1>8, <2>3 DEF raised
    <3>2. QED
      BY <1>1, <1>3, <2>1, <3>1, RollsBack DEF Body
  <2>4. QED
    BY <2>2, <2>3
<1>9. QED
  BY <1>6, <1>7, <1>8 DEF Written

LEMMA WriteCancelledOK ==
  ASSUME IInv, NEW t \in Task, WriteCancelled(t)
  PROVE  IInv'
<1> DEFINE s == [task[t] EXCEPT !.cancelled = FALSE, !.raising = "cancelled"]
           sql == IF t \in Ticker THEN "rollback_to" ELSE "rollback"
<1>1. task[t].pc = "write" /\ Quiet /\ lock' = lock
  BY DEF WriteCancelled
<1>2. HolderOK(t, task[t], conn, queue) /\ task[t] \in TaskState
  BY <1>1, HolderIs DEF Outside
<1>3. PICK q \in {queue, <<>>} : SendVia(q, t, s, sql)
  BY DEF WriteCancelled
<1>4. /\ s \in TaskState
      /\ s.unit = task[t].unit /\ s.kept = task[t].kept
  BY <1>2 DEF TaskState
<1>5. task[t].unit \in 1..Units /\ conn.in_transaction /\ task[t].kept \subseteq 1..Units
  BY <1>1, <1>2, TxnAssumption DEF HolderOK, RowsOK, Body, TaskState
<1>6. q = <<>> \/ q = <<Sent(t, "write")>>
  BY <1>1, <1>2, <1>3 DEF HolderOK, QueueOK
<1> DEFINE m == Moved(s, sql)
<1>s. sql \in Pc
  BY DEF Pc
<1> HIDE DEF s, sql
<1>7. /\ m.pc = sql /\ m.answer = "none"
      /\ m.unit = task[t].unit /\ m.kept = task[t].kept
  BY <1>4, <1>s, MovedOn
<1>8. Partial(t, m) = Partial(t, task[t]) /\ Whole(t, m) = Whole(t, task[t])
  BY <1>7 DEF Partial, Whole
<1>9. Whole(t, task[t]) \subseteq Own(t) /\ Partial(t, task[t]) \subseteq Own(t)
  BY <1>5 DEF Whole, Partial, Own
<1>10. /\ conn.rows = Whole(t, task[t]) \/ conn.rows = Partial(t, task[t])
       /\ conn.saved = IF t \in Ticker THEN Whole(t, task[t]) ELSE {}
  BY <1>1, <1>2 DEF HolderOK, RowsOK
<1> HIDE DEF m
<1>11. RowsOK(t, m, conn)
  <2>1. CASE t \in Ticker
    <3>1. m.pc = "rollback_to"
      BY <1>7, <2>1 DEF sql
    <3>2. m.unit <= Units
      BY <1>5, <1>7, TxnAssumption
    <3>3. /\ conn.rows = Whole(t, m) \/ conn.rows = Partial(t, m)
          /\ conn.saved = Whole(t, m)
      BY <1>8, <1>10, <2>1
    <3>4. m.answer = "none" /\ conn.in_transaction
      BY <1>5, <1>7
    <3> HIDE DEF sql
    <3>5. QED
      BY <2>1, <3>1, <3>2, <3>3, <3>4 DEF RowsOK, Body
  <2>2. CASE t \notin Ticker
    <3>1. m.pc = "rollback"
      BY <1>7, <2>2 DEF sql
    <3>2. conn.rows \subseteq Own(t) /\ conn.saved \subseteq Own(t)
      BY <1>9, <1>10, <2>2
    <3>3. QED
      BY <1>5, <1>7, <3>1, <3>2 DEF RowsOK, Body
  <2>3. QED
    BY <2>1, <2>2
<1>12. sql \in Pc \ Outside /\ sql \in {"rollback", "rollback_to"}
  BY DEF Pc, Outside, sql
<1>13. task[t].pc \notin Outside \cup {"commit"} /\ s.unit <= Units
  BY <1>1, <1>4, <1>5, TxnAssumption DEF Outside
<1>14. QED
  BY <1>1, <1>3, <1>4, <1>6, <1>11, <1>12, <1>13, Sends DEF m

LEMMA ReleasedOK ==
  ASSUME IInv, NEW t \in Task, Released(t)
  PROVE  IInv'
<1>1. task[t].pc = "release" /\ task[t].answer # "none" /\ Quiet /\ lock' = lock
  BY DEF Released, Answered
<1>2. /\ HolderOK(t, task[t], conn, queue) /\ task[t] \in TaskState
  BY <1>1, HolderIs DEF Outside
<1>3. queue = <<>>
  BY <1>1, <1>2 DEF HolderOK, QueueOK
<1>4. CASE Raises(t)
  BY <1>1, <1>2, <1>3, <1>4, UncancelledType, RollsBack DEF Released, Body
<1>5. CASE ~Raises(t)
  <2> DEFINE s == [task[t] EXCEPT !.kept = @ \cup {task[t].unit}, !.unit = @ + 1]
  <2>1. /\ conn.in_transaction /\ task[t].unit \in 1..Units
        /\ conn.rows = Partial(t, task[t]) /\ conn.saved = {}
    BY <1>1, <1>2, TxnAssumption DEF HolderOK, RowsOK, Body, TaskState
  <2>2. s \in TaskState /\ s.kept = task[t].kept \cup {task[t].unit}
    <3>1. /\ task[t].unit + 1 \in 1..(Units + 1)
          /\ task[t].kept \cup {task[t].unit} \in SUBSET (1..Units)
      BY <1>2, <2>1, TxnAssumption DEF TaskState
    <3>2. QED
      BY <1>2, <3>1 DEF TaskState
  <2>3. Whole(t, s) = Partial(t, task[t])
    BY <2>2 DEF Whole, Partial
  <2>4. Continue(t, s)
    BY <1>5 DEF Released
  <2> HIDE DEF s
  <2>5. QED
    BY <1>1, <1>3, <2>1, <2>2, <2>3, <2>4, Continues DEF Outside
<1>6. QED
  BY <1>4, <1>5

\* A buffer cut back to its length at entry.
LEMMA PrefixIs ==
  ASSUME NEW S, NEW b \in Seq(S), NEW n \in Nat, n <= Len(b)
  PROVE  LET p == SubSeq(b, 1, n)
         IN p \in Seq(S) /\ Len(p) = n /\ \A i \in 1..n : p[i] = b[i]
<1>1. \A i \in 1..n : b[i] \in S
  BY LenProperties, ElementOfSeq
<1>2. Len(b) \in Nat
  BY LenProperties
<1>3. QED
  BY <1>1, <1>2, SubSeqProperties

LEMMA RolledBackToOK ==
  ASSUME IInv, NEW t \in Task, RolledBackTo(t)
  PROVE  IInv'
<1>1. task[t].pc = "rollback_to" /\ task[t].answer # "none" /\ Quiet /\ lock' = lock
  BY DEF RolledBackTo, Answered
<1>2. /\ HolderOK(t, task[t], conn, queue) /\ task[t] \in TaskState
  BY <1>1, HolderIs DEF Outside
<1>3. queue = <<>>
  BY <1>1, <1>2 DEF HolderOK, QueueOK
<1>4. CASE Raises(t)
  BY <1>1, <1>2, <1>3, <1>4, UncancelledType, RollsBack DEF RolledBackTo, Body
<1>5. CASE ~Raises(t)
  <2> DEFINE s == Moved(task[t], "release_after")
  <2>1. /\ s.pc = "release_after" /\ s.answer = "none"
        /\ s.unit = task[t].unit /\ s.kept = task[t].kept
    BY <1>2, MovedOn DEF Pc
  <2>2. Whole(t, s) = Whole(t, task[t])
    BY <2>1 DEF Whole
  <2> HIDE DEF s
  <2>3. RowsOK(t, s, conn)
    BY <1>1, <1>2, <2>1, <2>2 DEF HolderOK, RowsOK, Body
  <2>4. QED
    BY <1>1, <1>2, <1>3, <1>5, <2>3, Sends DEF RolledBackTo, Send, Outside, Pc, s
<1>6. QED
  BY <1>4, <1>5

LEMMA ReleasedAfterOK ==
  ASSUME IInv, NEW t \in Task, ReleasedAfter(t), task[t].at_entry <= Len(task[t].buffer)
  PROVE  IInv'
<1> DEFINE self == task[t]
           cut == [self EXCEPT !.buffer = SubSeq(@, 1, self.at_entry)]
<1>1. self.pc = "release_after" /\ self.answer # "none" /\ Quiet /\ lock' = lock
  BY DEF ReleasedAfter, Answered
<1>2. /\ HolderOK(t, self, conn, queue) /\ self \in TaskState
  BY <1>1, HolderIs DEF Outside
<1>3. queue = <<>>
  BY <1>1, <1>2 DEF HolderOK, QueueOK
<1>4. /\ cut \in TaskState
      /\ cut.unit = self.unit /\ cut.kept = self.kept
  <2>1. SubSeq(self.buffer, 1, self.at_entry) \in Seq(1..Units)
    BY <1>2, PrefixIs DEF TaskState
  <2>2. QED
    BY <1>2, <2>1 DEF TaskState
<1>5. CASE Raises(t)
  BY <1>1, <1>2, <1>3, <1>5, UncancelledType, RollsBack DEF ReleasedAfter, Body
<1>6. CASE ~Raises(t) /\ self.raising = "cancelled"
  <2>1. Send(t, cut, "rollback")
    BY <1>6 DEF ReleasedAfter
  <2> HIDE DEF cut
  <2>2. QED
    BY <1>1, <1>3, <1>4, <2>1, RollsBack DEF Body
<1>7. CASE ~Raises(t) /\ self.raising # "cancelled"
  <2> DEFINE s == [cut EXCEPT !.raising = "nothing", !.unit = @ + 1]
  <2>1. /\ conn.in_transaction /\ self.unit \in 1..Units
        /\ conn.rows = Whole(t, self) /\ conn.saved = {}
    BY <1>1, <1>2, TxnAssumption DEF HolderOK, RowsOK, Body, TaskState
  <2>2. Continue(t, s)
    BY <1>7 DEF ReleasedAfter
  <2> HIDE DEF cut
  <2>3. s \in TaskState /\ s.kept = self.kept
    <3>1. self.unit + 1 \in 1..(Units + 1)
      BY <2>1, TxnAssumption
    <3>2. QED
      BY <1>4, <3>1 DEF TaskState
  <2>4. Whole(t, s) = Whole(t, self)
    BY <2>3 DEF Whole
  <2> HIDE DEF s
  <2>5. QED
    BY <1>1, <1>3, <2>1, <2>2, <2>3, <2>4, Continues DEF Outside
<1>8. QED
  BY <1>5, <1>6, <1>7

\* The two ways a section closes: both leave the connection empty.
LEMMA Closes ==
  ASSUME IInv, NEW t \in Task, task[t].pc \in {"commit", "rollback"}, task[t].answer # "none",
         Quiet,
         Leave(t, [task[t] EXCEPT !.cancelled = FALSE, !.buffer = <<>>])
  PROVE  IInv'
<1> DEFINE c == [task[t] EXCEPT !.cancelled = FALSE, !.buffer = <<>>]
           s == Moved(c, "done")
<1>1. /\ lock = t /\ HolderOK(t, task[t], conn, queue) /\ task[t] \in TaskState
      /\ DiskOK(t, task[t], committed)
  BY HolderIs DEF Outside
<1>2. c \in TaskState /\ c.kept = task[t].kept
  BY <1>1, EmptySeq DEF TaskState
<1>3. lock' = NoTask /\ task' = [task EXCEPT ![t] = s] /\ queue' = queue
  BY DEF Leave, Moved
<1> HIDE DEF c
<1>4. s \in TaskState /\ s.pc = "done" /\ s.kept = task[t].kept
  BY <1>2, MovedOn DEF Pc
<1> HIDE DEF s
<1>5. DiskOK(t, s, committed)
  BY <1>1, <1>4 DEF DiskOK
<1>6. queue = <<>> /\ conn.rows = {} /\ conn.saved = {}
  BY <1>1 DEF HolderOK, QueueOK, RowsOK
<1>7. QED
  BY <1>1, <1>3, <1>4, <1>5, <1>6, LeaveOK DEF Quiet

LEMMA ResumeOK ==
  ASSUME IInv, NEW t \in Task, Resume(t),
         task[t].pc = "release_after" => task[t].at_entry <= Len(task[t].buffer)
  PROVE  IInv'
<1>1. ASSUME Committed(t) PROVE IInv'
  BY <1>1, Closes DEF Committed, Answered
<1>2. ASSUME RolledBack(t) PROVE IInv'
  BY <1>2, Closes DEF RolledBack, Answered
<1>3. ASSUME ReleasedAfter(t) PROVE IInv'
  BY <1>3, ReleasedAfterOK DEF ReleasedAfter, Answered
<1>4. QED
  BY <1>1, <1>2, <1>3, BegunOK, SavepointMadeOK, WrittenOK, WriteCancelledOK, ReleasedOK,
     RolledBackToOK DEF Resume

-----------------------------------------------------------------------------
(* The executor                                                            *)

\* A statement that runs is the holder's.  Either it is the one the holder waits
\* for, and was alone, or it is the write it no longer waits for.
LEMMA HeadIs ==
  ASSUME IInv, queue # <<>>
  PROVE  /\ lock \in Task
         /\ task[lock].answer = "none"
         /\ \/ /\ Head(queue) = Sent(lock, task[lock].pc)
               /\ Tail(queue) = <<>>
            \/ /\ task[lock].pc \in {"rollback", "rollback_to"}
               /\ task[lock].unit <= Units
               /\ Head(queue) = Sent(lock, "write")
               /\ Tail(queue) = <<Sent(lock, task[lock].pc)>>
<1>1. lock \in Task
  BY DEF IInv, Types
<1>2. QueueOK(lock, task[lock], queue)
  BY <1>1 DEF IInv, HolderOK
<1>3. task[lock].answer = "none"
  BY <1>2 DEF QueueOK
<1>4. CASE queue = <<Sent(lock, task[lock].pc)>>
  <2>1. Head(queue) = Sent(lock, task[lock].pc) /\ Tail(queue) = <<>>
    BY <1>4
  <2>2. QED
    BY <1>1, <1>3, <2>1
<1>5. CASE queue = <<Sent(lock, "write"), Sent(lock, task[lock].pc)>>
  <2>1. Head(queue) = Sent(lock, "write") /\ Tail(queue) = <<Sent(lock, task[lock].pc)>>
    BY <1>5
  <2>2. task[lock].pc \in {"rollback", "rollback_to"} /\ task[lock].unit <= Units
    <3>1. queue # <<Sent(lock, task[lock].pc)>>
      BY <1>5
    <3>2. QED
      BY <1>2, <1>3, <3>1 DEF QueueOK
  <2>3. QED
    BY <1>1, <1>3, <2>1, <2>2
<1>6. QED
  BY <1>2, <1>3, <1>4, <1>5 DEF QueueOK

\* It runs and the holder has its answer.
LEMMA AnsweredOK ==
  ASSUME IInv, NEW t \in Task, lock = t, lock' = lock,
         task[t].answer = "none",
         NEW a \in {"ok", "error"}, task' = [task EXCEPT ![t].answer = a],
         queue' = <<>>, conn' \in Connection, committed' \in SUBSET Row,
         \A u \in Task : u # t => Stored(u, committed') = Stored(u, committed),
         RowsOK(t, [task[t] EXCEPT !.answer = a], conn'),
         DiskOK(t, [task[t] EXCEPT !.answer = a], committed')
  PROVE  IInv'
<1> DEFINE s == [task[t] EXCEPT !.answer = a]
<1>1. task[t] \in TaskState /\ task[t].pc \notin Outside
  BY DEF IInv, Types, HolderOK
<1>2. s \in TaskState /\ s.pc = task[t].pc /\ s.answer = a
  BY <1>1 DEF TaskState
<1>3. task' = [task EXCEPT ![t] = s]
  BY DEF IInv, Types
<1> HIDE DEF s
<1>4. Types'
  BY <1>2, <1>3, EmptySeq DEF IInv, Types
<1>5. task'[t] = s /\ \A u \in Task : u # t => task'[u] = task[u]
  BY <1>3 DEF IInv, Types
<1>6. HolderOK(t, s, conn', queue')
  BY <1>1, <1>2 DEF HolderOK, QueueOK, s
<1>7. FreshOK(s)
  BY <1>1, <1>2 DEF FreshOK, Outside
<1>8. \A u \in Task : u # lock' => task'[u].pc \in Outside
  BY <1>5 DEF IInv
<1>9. \A u \in Task : u # t => DiskOK(u, task'[u], committed')
  BY <1>5 DEF IInv, DiskOK
<1>10. \A u \in Task : FreshOK(task'[u]) /\ DiskOK(u, task'[u], committed')
  BY <1>5, <1>7, <1>9 DEF IInv, s
<1>11. lock' # NoTask
  BY TxnAssumption
<1>12. QED
  BY <1>4, <1>5, <1>6, <1>8, <1>10, <1>11 DEF IInv

\* The write whose await was cancelled runs after all, and is rolled back next.
LEMMA LateWriteOK ==
  ASSUME IInv, NEW t \in Task, lock = t, lock' = lock, task[t].answer = "none",
         task[t].pc \in {"rollback", "rollback_to"}, task[t].unit <= Units,
         task' = task, committed' = committed,
         queue' = <<Sent(t, task[t].pc)>>,
         conn' = [in_transaction |-> TRUE, rows |-> conn.rows \cup {<<t, task[t].unit>>},
                  saved |-> conn.saved]
  PROVE  IInv'
<1>1. /\ HolderOK(t, task[t], conn, queue) /\ task[t] \in TaskState
      /\ conn \in Connection
  BY HolderIs DEF Outside, IInv, Types
<1>2. task[t].unit \in 1..Units /\ <<t, task[t].unit>> \in Row /\ <<t, task[t].unit>> \in Own(t)
  BY <1>1, TxnAssumption DEF TaskState, Row, Own
<1>3. conn' \in Connection
  BY <1>1, <1>2 DEF Connection
<1>4. Sent(t, task[t].pc) \in Stmt
  BY <1>1 DEF Sent, Stmt, TaskState
<1>5. Types'
  BY <1>3, <1>4 DEF IInv, Types
<1>6. RowsOK(t, task[t], conn')
  <2>1. CASE task[t].pc = "rollback"
    BY <1>1, <1>2, <2>1 DEF HolderOK, RowsOK, Body
  <2>2. CASE task[t].pc = "rollback_to"
    <3>1. /\ conn.rows = Whole(t, task[t]) \/ conn.rows = Partial(t, task[t])
          /\ conn.saved = Whole(t, task[t]) /\ t \in Ticker
      BY <1>1, <2>2 DEF HolderOK, RowsOK, Body
    <3>2. conn'.rows = Partial(t, task[t]) /\ conn'.saved = Whole(t, task[t])
      BY <3>1 DEF Partial
    <3>3. QED
      BY <2>2, <3>1, <3>2 DEF RowsOK, Body
  <2>3. QED
    BY <2>1, <2>2
<1>7. HolderOK(t, task[t], conn', queue')
  BY <1>1, <1>6 DEF HolderOK, QueueOK
<1>8. lock' # NoTask
  BY TxnAssumption
<1>9. QED
  BY <1>5, <1>7, <1>8 DEF IInv

\* What each statement does to what the connection holds of its sender.
LEMMA ExecuteOK ==
  ASSUME IInv, Execute
  PROVE  IInv'
<1> DEFINE t == lock
           self == task[t]
           stmt == Head(queue)
           ok == [self EXCEPT !.answer = "ok"]
<1>1. queue # <<>> /\ Run(stmt) /\ queue' = Tail(queue) /\ lock' = lock
  BY DEF Execute
<1>2. t \in Task /\ self.answer = "none"
  BY <1>1, HeadIs
<1>3. /\ HolderOK(t, self, conn, queue) /\ DiskOK(t, self, committed)
      /\ self \in TaskState /\ conn \in Connection /\ committed \in SUBSET Row
  BY <1>2 DEF IInv, Types
<1>4. /\ ok \in TaskState /\ ok.answer = "ok"
      /\ ok.pc = self.pc /\ ok.unit = self.unit /\ ok.kept = self.kept
  BY <1>3 DEF TaskState
<1>5. Whole(t, ok) = Whole(t, self) /\ Partial(t, ok) = Partial(t, self)
  BY <1>4 DEF Whole, Partial
<1>6. Whole(t, self) \in SUBSET Row
  BY <1>2, <1>3 DEF Whole, TaskState, Row
<1>7. self.pc \notin Outside
  BY <1>3 DEF HolderOK
<1> HIDE DEF ok
<1>8. ASSUME stmt = Sent(t, "write"), self.pc \in {"rollback", "rollback_to"}, self.unit <= Units,
             Tail(queue) = <<Sent(t, self.pc)>>
      PROVE  IInv'
  <2>1. conn.in_transaction
    BY <1>2, <1>3, <1>8 DEF HolderOK, RowsOK, Body
  <2>2. stmt.task = t /\ stmt.sql = "write" /\ task[stmt.task].pc # stmt.sql
    BY <1>8 DEF Sent
  <2>3. Ran(stmt, TRUE, conn.rows \cup {<<stmt.task, task[stmt.task].unit>>}, conn.saved,
            committed, "ok")
    BY <1>1, <2>1, <2>2 DEF Run
  <2>4. QED
    BY <1>1, <1>2, <1>8, <2>2, <2>3, LateWriteOK DEF Ran
<1>9. ASSUME stmt = Sent(t, self.pc), Tail(queue) = <<>>
      PROVE  IInv'
  <2>1. stmt.task = t /\ stmt.sql = self.pc /\ queue' = <<>>
    BY <1>1, <1>9 DEF Sent
  <2>2. ASSUME NEW open \in BOOLEAN, NEW rows \in SUBSET Row, NEW saved \in SUBSET Row,
               NEW answer \in {"ok", "error"},
               Ran(stmt, open, rows, saved, committed, answer),
               RowsOK(t, [self EXCEPT !.answer = answer],
                      [in_transaction |-> open, rows |-> rows, saved |-> saved]),
               self.pc # "commit"
        PROVE  IInv'
    <3>1. task' = [task EXCEPT ![t].answer = answer] /\ committed' = committed
      BY <2>1, <2>2 DEF Ran
    <3>2. conn' = [in_transaction |-> open, rows |-> rows, saved |-> saved]
      BY <2>2 DEF Ran
    <3>3. conn' \in Connection
      BY <2>2, <3>2 DEF Connection
    <3>4. DiskOK(t, [self EXCEPT !.answer = answer], committed)
      <4>1. /\ [self EXCEPT !.answer = answer].pc = self.pc
            /\ [self EXCEPT !.answer = answer].kept = self.kept
        BY <1>3 DEF TaskState
      <4>2. QED
        BY <1>3, <2>2, <4>1 DEF DiskOK
    <3>5. QED
      BY <1>1, <1>2, <1>3, <2>1, <2>2, <3>1, <3>2, <3>3, <3>4, AnsweredOK
  <2>3. CASE self.pc = "begin"
    <3>1. conn.rows = {} /\ conn.saved = {} /\ self.kept = {} /\ self.unit = 1
      BY <1>3, <2>3 DEF HolderOK, RowsOK
    <3>2. CASE conn.in_transaction
      <4> DEFINE err == [self EXCEPT !.answer = "error"]
      <4>1. Ran(stmt, TRUE, {}, {}, committed, "error")
        BY <1>1, <1>3, <2>1, <2>3, <3>1, <3>2 DEF Run, Connection
      <4>2. /\ err.pc = "begin" /\ err.answer = "error"
            /\ err.kept = {} /\ err.unit = 1
        BY <1>3, <2>3, <3>1 DEF TaskState
      <4> HIDE DEF err
      <4>3. RowsOK(t, err, [in_transaction |-> TRUE, rows |-> {}, saved |-> {}])
        BY <4>2 DEF RowsOK, Body
      <4>4. QED
        BY <2>2, <2>3, <4>1, <4>3 DEF err
    <3>3. CASE ~conn.in_transaction
      <4>1. Ran(stmt, TRUE, {}, {}, committed, "ok")
        BY <1>1, <2>1, <2>3, <3>3 DEF Run
      <4>2. RowsOK(t, ok, [in_transaction |-> TRUE, rows |-> {}, saved |-> {}])
        BY <1>4, <2>3, <3>1 DEF RowsOK, Body
      <4>3. QED
        BY <2>2, <2>3, <4>1, <4>2 DEF ok
    <3>4. QED
      BY <3>2, <3>3
  <2>4. CASE self.pc = "savepoint"
    <3>1. Ran(stmt, TRUE, conn.rows, conn.rows, committed, "ok")
      BY <1>1, <2>1, <2>4 DEF Run
    <3>2. /\ conn.rows = Whole(t, self) /\ self.unit <= Units /\ t \in Ticker
      BY <1>3, <2>4 DEF HolderOK, RowsOK, Body
    <3>3. RowsOK(t, ok, [in_transaction |-> TRUE, rows |-> conn.rows, saved |-> conn.rows])
      BY <1>4, <1>5, <2>4, <3>2 DEF RowsOK, Body
    <3>4. QED
      BY <1>6, <2>2, <2>4, <3>1, <3>2, <3>3 DEF ok
  <2>5. CASE self.pc = "write"
    <3>1. /\ conn.rows = Whole(t, self) /\ self.unit <= Units /\ conn.in_transaction
          /\ conn.saved = IF t \in Ticker THEN Whole(t, self) ELSE {}
      BY <1>2, <1>3, <2>5 DEF HolderOK, RowsOK, Body
    <3>2. Ran(stmt, TRUE, Partial(t, self), conn.saved, committed, "ok")
      <4>1. Ran(stmt, TRUE, conn.rows \cup {<<t, self.unit>>}, conn.saved, committed, "ok")
        BY <1>1, <2>1, <2>5, <3>1 DEF Run
      <4>2. QED
        BY <3>1, <4>1 DEF Partial
    <3>3. Partial(t, self) \in SUBSET Row
      BY <1>2, <1>3, <1>6, <3>1, TxnAssumption DEF Partial, TaskState, Row
    <3>4. RowsOK(t, ok, [in_transaction |-> TRUE, rows |-> Partial(t, self), saved |-> conn.saved])
      BY <1>4, <1>5, <2>5, <3>1 DEF RowsOK, Body
    <3>5. conn.saved \in SUBSET Row
      BY <1>3 DEF Connection
    <3>6. QED
      BY <2>2, <2>5, <3>2, <3>3, <3>4, <3>5 DEF ok
  <2>6. CASE self.pc = "release"
    <3>1. Ran(stmt, TRUE, conn.rows, {}, committed, "ok")
      BY <1>1, <2>1, <2>6 DEF Run
    <3>2. conn.rows = Partial(t, self) /\ self.unit <= Units /\ t \in Ticker
      BY <1>3, <2>6 DEF HolderOK, RowsOK, Body
    <3>3. RowsOK(t, ok, [in_transaction |-> TRUE, rows |-> conn.rows, saved |-> {}])
      BY <1>4, <1>5, <2>6, <3>2 DEF RowsOK, Body
    <3>4. conn.rows \in SUBSET Row
      BY <1>3 DEF Connection
    <3>5. QED
      BY <2>2, <2>6, <3>1, <3>3, <3>4 DEF ok
  <2>7. CASE self.pc = "rollback_to"
    <3>1. Ran(stmt, TRUE, conn.saved, conn.saved, committed, "ok")
      BY <1>1, <2>1, <2>7 DEF Run
    <3>2. conn.saved = Whole(t, self) /\ self.unit <= Units /\ t \in Ticker
      BY <1>3, <2>7 DEF HolderOK, RowsOK, Body
    <3>3. RowsOK(t, ok, [in_transaction |-> TRUE, rows |-> conn.saved, saved |-> conn.saved])
      BY <1>4, <1>5, <2>7, <3>2 DEF RowsOK, Body
    <3>4. QED
      BY <1>6, <2>2, <2>7, <3>1, <3>2, <3>3 DEF ok
  <2>8. CASE self.pc = "release_after"
    <3>1. Ran(stmt, TRUE, conn.rows, {}, committed, "ok")
      BY <1>1, <2>1, <2>8 DEF Run
    <3>2. conn.rows = Whole(t, self) /\ self.unit <= Units /\ t \in Ticker
      BY <1>3, <2>8 DEF HolderOK, RowsOK, Body
    <3>3. RowsOK(t, ok, [in_transaction |-> TRUE, rows |-> conn.rows, saved |-> {}])
      BY <1>4, <1>5, <2>8, <3>2 DEF RowsOK, Body
    <3>4. QED
      BY <1>6, <2>2, <2>8, <3>1, <3>2, <3>3 DEF ok
  <2>9. CASE self.pc = "rollback"
    <3>1. conn.in_transaction
      BY <1>2, <1>3, <2>9 DEF HolderOK, RowsOK
    <3>2. Ran(stmt, FALSE, {}, {}, committed, "ok")
      BY <1>1, <2>1, <2>9, <3>1 DEF Run
    <3>3. RowsOK(t, ok, [in_transaction |-> FALSE, rows |-> {}, saved |-> {}])
      BY <1>4, <2>9 DEF RowsOK, Body
    <3>4. QED
      BY <2>2, <2>9, <3>2, <3>3 DEF ok
  <2>10. CASE self.pc = "commit"
    <3>1. conn.in_transaction /\ conn.rows = Whole(t, self)
      BY <1>2, <1>3, <2>10 DEF HolderOK, RowsOK
    <3>2. Ran(stmt, FALSE, {}, {}, committed \cup Whole(t, self), "ok")
      BY <1>1, <2>1, <2>10, <3>1 DEF Run
    <3>3. /\ task' = [task EXCEPT ![t].answer = "ok"]
          /\ committed' = committed \cup Whole(t, self)
          /\ conn' = [in_transaction |-> FALSE, rows |-> {}, saved |-> {}]
      BY <2>1, <3>2 DEF Ran
    <3>4. Stored(t, committed) = {}
      BY <1>2, <1>3, <2>10 DEF DiskOK
    <3>5. Stored(t, committed') = self.kept
      <4>1. self.kept \subseteq 1..Units
        BY <1>3 DEF TaskState
      <4>2. QED
        BY <3>3, <3>4, <4>1 DEF Stored, Whole
    <3>6. \A u \in Task : u # t => Stored(u, committed') = Stored(u, committed)
      BY <3>3 DEF Stored, Whole
    <3>7. DiskOK(t, ok, committed')
      BY <1>4, <2>10, <3>5 DEF DiskOK
    <3>8. RowsOK(t, ok, conn')
      BY <1>4, <2>10, <3>3 DEF RowsOK, Body
    <3>9. conn' \in Connection /\ committed' \in SUBSET Row
      BY <1>3, <1>6, <3>3 DEF Connection
    <3>10. QED
      BY <1>1, <1>2, <2>1, <3>3, <3>6, <3>7, <3>8, <3>9, AnsweredOK DEF ok
  <2>11. self.pc \in {"begin", "savepoint", "write", "release", "rollback_to",
                      "release_after", "commit", "rollback"}
    BY <1>3, <1>7 DEF TaskState, Pc, Outside
  <2>12. QED
    BY <2>3, <2>4, <2>5, <2>6, <2>7, <2>8, <2>9, <2>10, <2>11
<1>10. QED
  BY <1>1, <1>8, <1>9, HeadIs

-----------------------------------------------------------------------------
(* The buffers.  What a task holds back is the units that ended well, in   *)
(* order, and between the write of a unit and the end of its savepoint the *)
(* unit at work too; what was there at entry to the savepoint is kept.     *)

Held(s) == {s.buffer[i] : i \in DOMAIN s.buffer}

Increasing(b) == \A i, j \in DOMAIN b : i < j => b[i] < b[j]

BufferOK(t, s) ==
  /\ \A u \in s.kept : u < s.unit
  /\ Increasing(s.buffer)
  /\ s.pc \in {"idle", "begin", "savepoint", "write", "commit"} => Held(s) \subseteq s.kept
  /\ s.pc \in {"release", "rollback_to", "release_after"} =>
       Held(s) \subseteq s.kept \cup {s.unit}
  /\ t \in Ticker /\ s.pc \in Body =>
       /\ s.at_entry <= Len(s.buffer)
       /\ \A i \in 1..s.at_entry : s.buffer[i] \in s.kept

BuffersOK == \A t \in Task : BufferOK(t, task[t])

LEMMA InitBuffers == Init => BuffersOK
  BY DEF Init, BuffersOK, BufferOK, Held, Increasing, Body

\* A buffer is cut within its length.
LEMMA EntryWithin ==
  ASSUME IInv, BuffersOK, NEW t \in Task, task[t].pc = "release_after"
  PROVE  task[t].at_entry <= Len(task[t].buffer)
<1>1. t \in Ticker
  BY HolderIs DEF HolderOK, RowsOK, Outside, Body
<1>2. QED
  BY <1>1 DEF BuffersOK, BufferOK, Body

LEMMA OneMoves ==
  ASSUME IInv, BuffersOK, NEW t \in Task, NEW s, task' = [task EXCEPT ![t] = s], BufferOK(t, s)
  PROVE  BuffersOK'
<1>1. task'[t] = s /\ \A u \in Task : u # t => task'[u] = task[u]
  BY DEF IInv, Types
<1>2. QED
  BY <1>1 DEF BuffersOK

\* Once it rolls back or is over, nothing is asked of what a task held.
LEMMA GivesUp ==
  ASSUME IInv, BuffersOK, NEW t \in Task, NEW s \in TaskState,
         NEW pc \in {"rollback", "done"}, task' = [task EXCEPT ![t] = Moved(s, pc)],
         \A u \in s.kept : u < s.unit, Increasing(s.buffer)
  PROVE  BuffersOK'
<1> DEFINE m == Moved(s, pc)
<1>1. m.pc = pc /\ m.kept = s.kept /\ m.unit = s.unit /\ m.buffer = s.buffer
  <2>1. pc \in Pc
    BY DEF Pc
  <2>2. QED
    BY <2>1, MovedOn
<1> HIDE DEF m
<1>2. BufferOK(t, m)
  BY <1>1 DEF BufferOK, Body
<1>3. QED
  BY <1>2, OneMoves DEF m

\* A move that changes nothing of what the task holds.
LEMMA Keeps ==
  ASSUME IInv, BuffersOK, NEW t \in Task, NEW s \in TaskState, NEW pc \in Pc,
         s.kept = task[t].kept, s.unit = task[t].unit,
         s.buffer = task[t].buffer, s.at_entry = task[t].at_entry,
         task' = [task EXCEPT ![t] = Moved(s, pc)],
         \/ pc \in {"rollback", "done"}
         \/ task[t].pc = "idle" /\ pc = "begin"
         \/ task[t].pc = "savepoint" /\ pc = "write"
         \/ task[t].pc = "write" /\ pc = "rollback_to"
         \/ task[t].pc = "rollback_to" /\ pc = "release_after"
  PROVE  BuffersOK'
<1> DEFINE m == Moved(s, pc)
<1>1. /\ m.pc = pc /\ m.kept = task[t].kept /\ m.unit = task[t].unit
      /\ m.buffer = task[t].buffer /\ m.at_entry = task[t].at_entry
  BY MovedOn
<1>2. BufferOK(t, task[t])
  BY DEF BuffersOK
<1>3. Held(m) = Held(task[t])
  BY <1>1 DEF Held
<1> HIDE DEF m
<1>4. BufferOK(t, m)
  BY <1>1, <1>2, <1>3 DEF BufferOK, Body
<1>5. QED
  BY <1>4, OneMoves DEF m

\* The body goes on with a buffer of kept units only.
LEMMA GoesOn ==
  ASSUME IInv, BuffersOK, NEW t \in Task, NEW s \in TaskState, Continue(t, s),
         \A u \in s.kept : u < s.unit, Increasing(s.buffer), Held(s) \subseteq s.kept
  PROVE  BuffersOK'
<1> DEFINE entered == [s EXCEPT !.at_entry = Len(s.buffer)]
<1>1. /\ entered \in TaskState
      /\ entered.unit = s.unit /\ entered.kept = s.kept /\ entered.buffer = s.buffer
      /\ entered.at_entry = Len(s.buffer)
  BY LenProperties DEF TaskState
<1> HIDE DEF entered
<1>2. \A i \in 1..Len(s.buffer) : s.buffer[i] \in s.kept
  <2>1. DOMAIN s.buffer = 1..Len(s.buffer)
    BY LenProperties DEF TaskState
  <2>2. QED
    BY <2>1 DEF Held
<1>3. ASSUME Send(t, entered, "savepoint") PROVE BuffersOK'
  <2> DEFINE m == Moved(entered, "savepoint")
  <2>1. /\ m.pc = "savepoint" /\ m.kept = s.kept /\ m.unit = s.unit
        /\ m.buffer = s.buffer /\ m.at_entry = Len(s.buffer)
    <3>1. "savepoint" \in Pc
      BY DEF Pc
    <3>2. QED
      BY <1>1, <3>1, MovedOn
  <2>2. task' = [task EXCEPT ![t] = m]
    BY <1>3 DEF Send, SendVia, Moved
  <2>3. Len(s.buffer) <= Len(s.buffer)
    BY LenProperties DEF TaskState
  <2> HIDE DEF m
  <2>4. BufferOK(t, m)
    BY <1>2, <2>1, <2>3 DEF BufferOK, Held
  <2>5. QED
    BY <2>2, <2>4, OneMoves
<1>4. ASSUME NEW pc \in {"commit", "write"}, Send(t, s, pc), pc = "write" => t \notin Ticker
      PROVE  BuffersOK'
  <2> DEFINE m == Moved(s, pc)
  <2>1. m.pc = pc /\ m.kept = s.kept /\ m.unit = s.unit /\ m.buffer = s.buffer
    <3>1. pc \in Pc
      BY DEF Pc
    <3>2. QED
      BY <3>1, MovedOn
  <2>2. task' = [task EXCEPT ![t] = m]
    BY <1>4 DEF Send, SendVia, Moved
  <2> HIDE DEF m
  <2>3. BufferOK(t, m)
    BY <1>4, <2>1 DEF BufferOK, Held, Body
  <2>4. QED
    BY <2>2, <2>3, OneMoves
<1>5. QED
  BY <1>3, <1>4 DEF Continue, entered

\* What a unit emits comes after all that was kept.
LEMMA AppendsLast ==
  ASSUME NEW s \in TaskState, s.unit <= Units, \A u \in s.kept : u < s.unit,
         Increasing(s.buffer), Held(s) \subseteq s.kept
  PROVE  LET longer == [s EXCEPT !.buffer = Append(@, s.unit)]
         IN /\ longer \in TaskState
            /\ longer.kept = s.kept /\ longer.unit = s.unit /\ longer.at_entry = s.at_entry
            /\ longer.pc = s.pc
            /\ Increasing(longer.buffer)
            /\ Held(longer) \subseteq s.kept \cup {s.unit}
            /\ Len(longer.buffer) = Len(s.buffer) + 1
            /\ \A i \in 1..Len(s.buffer) : longer.buffer[i] = s.buffer[i]
<1> DEFINE b == s.buffer
           a == Append(b, s.unit)
           longer == [s EXCEPT !.buffer = Append(@, s.unit)]
<1>1. s.unit \in 1..Units /\ b \in Seq(1..Units)
  BY TxnAssumption DEF TaskState
<1>2. /\ a \in Seq(1..Units) /\ Len(a) = Len(b) + 1
      /\ \A i \in 1..Len(b) : a[i] = b[i]
      /\ a[Len(b) + 1] = s.unit
  BY <1>1, AppendProperties
<1>3. /\ Len(b) \in Nat /\ DOMAIN b = 1..Len(b) /\ DOMAIN a = 1..(Len(b) + 1)
  BY <1>1, <1>2, LenProperties
<1>4. \A i \in 1..Len(b) : b[i] \in s.kept /\ b[i] < s.unit
  BY <1>3 DEF Held
<1>5. longer \in TaskState /\ longer.buffer = a
  BY <1>2 DEF TaskState
<1>6. /\ longer.kept = s.kept /\ longer.unit = s.unit /\ longer.at_entry = s.at_entry
      /\ longer.pc = s.pc
  BY DEF TaskState
<1> HIDE DEF a
<1>7. Increasing(a)
  <2>1. SUFFICES ASSUME NEW i \in 1..(Len(b) + 1), NEW j \in 1..(Len(b) + 1), i < j
                 PROVE  a[i] < a[j]
    BY <1>3 DEF Increasing
  <2>2. i \in 1..Len(b) /\ a[i] = b[i]
    BY <1>2, <1>3, <2>1
  <2>3. CASE j = Len(b) + 1
    BY <1>2, <1>4, <2>2, <2>3
  <2>4. CASE j # Len(b) + 1
    <3>1. j \in 1..Len(b) /\ a[j] = b[j]
      BY <1>2, <1>3, <2>4
    <3>2. b[i] < b[j]
      BY <1>3, <2>1, <2>2, <3>1 DEF Increasing
    <3>3. QED
      BY <2>2, <3>1, <3>2
  <2>5. QED
    BY <2>3, <2>4
<1>8. \A i \in 1..(Len(b) + 1) : a[i] \in s.kept \cup {s.unit}
  BY <1>2, <1>3, <1>4
<1> HIDE DEF longer, b
<1>9. Held(longer) \subseteq s.kept \cup {s.unit}
  BY <1>3, <1>5, <1>8 DEF Held
<1>10. QED
  BY <1>2, <1>5, <1>6, <1>7, <1>9 DEF longer, b

\* What is left of a buffer cut back to its length at entry is kept.
LEMMA CutsBack ==
  ASSUME NEW s \in TaskState, Increasing(s.buffer), s.at_entry <= Len(s.buffer),
         \A i \in 1..s.at_entry : s.buffer[i] \in s.kept
  PROVE  LET cut == [s EXCEPT !.buffer = SubSeq(@, 1, s.at_entry)]
         IN /\ cut \in TaskState
            /\ cut.kept = s.kept /\ cut.unit = s.unit
            /\ Increasing(cut.buffer)
            /\ Held(cut) \subseteq s.kept
<1> DEFINE p == SubSeq(s.buffer, 1, s.at_entry)
           cut == [s EXCEPT !.buffer = SubSeq(@, 1, s.at_entry)]
<1>1. /\ p \in Seq(1..Units) /\ Len(p) = s.at_entry
      /\ \A i \in 1..s.at_entry : p[i] = s.buffer[i]
  BY PrefixIs DEF TaskState
<1>2. DOMAIN p = 1..s.at_entry /\ DOMAIN s.buffer = 1..Len(s.buffer)
  BY <1>1, LenProperties DEF TaskState
<1>3. s.at_entry \in Nat /\ Len(s.buffer) \in Nat
  BY LenProperties DEF TaskState
<1>4. cut \in TaskState /\ cut.buffer = p /\ cut.kept = s.kept /\ cut.unit = s.unit
  BY <1>1 DEF TaskState
<1> HIDE DEF p, cut
<1>5. Increasing(p)
  BY <1>1, <1>2, <1>3 DEF Increasing
<1>6. Held(cut) \subseteq s.kept
  BY <1>1, <1>2, <1>4 DEF Held
<1>7. QED
  BY <1>4, <1>5, <1>6 DEF cut

LEMMA WrittenBuffers ==
  ASSUME IInv, BuffersOK, NEW t \in Task, Written(t)
  PROVE  BuffersOK'
<1> DEFINE self == task[t]
           longer == [self EXCEPT !.buffer = Append(@, self.unit)]
<1>1. self.pc = "write"
  BY DEF Written, Answered
<1>2. self \in TaskState /\ self.unit <= Units
  BY <1>1, HolderIs DEF HolderOK, RowsOK, Outside, Body
<1>3. /\ \A u \in self.kept : u < self.unit
      /\ Increasing(self.buffer) /\ Held(self) \subseteq self.kept
      /\ t \in Ticker => /\ self.at_entry <= Len(self.buffer)
                         /\ \A i \in 1..self.at_entry : self.buffer[i] \in self.kept
  BY <1>1 DEF BuffersOK, BufferOK, Body
<1>4. /\ longer \in TaskState
      /\ longer.kept = self.kept /\ longer.unit = self.unit /\ longer.at_entry = self.at_entry
      /\ Increasing(longer.buffer)
      /\ Held(longer) \subseteq self.kept \cup {self.unit}
      /\ Len(longer.buffer) = Len(self.buffer) + 1
      /\ \A i \in 1..Len(self.buffer) : longer.buffer[i] = self.buffer[i]
  BY <1>2, <1>3, AppendsLast
<1> HIDE DEF longer
<1>5. ASSUME NEW s \in TaskState, s.kept = self.kept, s.unit = self.unit,
             s.buffer = longer.buffer, s.at_entry = self.at_entry,
             t \in Ticker, NEW pc \in {"release", "rollback_to"}, Send(t, s, pc)
      PROVE  BuffersOK'
  <2> DEFINE m == Moved(s, pc)
  <2>1. /\ m.pc = pc /\ m.kept = self.kept /\ m.unit = self.unit
        /\ m.buffer = longer.buffer /\ m.at_entry = self.at_entry
    <3>1. pc \in Pc
      BY DEF Pc
    <3>2. QED
      BY <1>5, <3>1, MovedOn
  <2>2. task' = [task EXCEPT ![t] = m]
    BY <1>5 DEF Send, SendVia, Moved
  <2> HIDE DEF m
  <2>3. Held(m) = Held(longer)
    BY <2>1 DEF Held
  <2>4. Len(self.buffer) \in Nat /\ self.at_entry \in Nat
    BY <1>2, LenProperties DEF TaskState
  <2>5. BufferOK(t, m)
    BY <1>3, <1>4, <1>5, <2>1, <2>3, <2>4 DEF BufferOK, Body
  <2>6. QED
    BY <2>2, <2>5, OneMoves
<1>6. CASE t \in Ticker /\ Send(t, longer, "release")
  BY <1>4, <1>5, <1>6
<1>7. ASSUME t \notin Ticker,
             Continue(t, [longer EXCEPT !.kept = @ \cup {self.unit}, !.unit = @ + 1])
      PROVE  BuffersOK'
  <2> DEFINE s == [longer EXCEPT !.kept = @ \cup {self.unit}, !.unit = @ + 1]
  <2>1. /\ s \in TaskState /\ s.kept = self.kept \cup {self.unit}
        /\ s.unit = self.unit + 1 /\ s.buffer = longer.buffer
    <3>1. self.unit + 1 \in 1..(Units + 1) /\ self.kept \cup {self.unit} \in SUBSET (1..Units)
      BY <1>2, TxnAssumption DEF TaskState
    <3>2. QED
      BY <1>4, <3>1 DEF TaskState
  <2>2. Continue(t, s)
    BY <1>7
  <2> HIDE DEF s
  <2>3. \A u \in s.kept : u < s.unit
    BY <1>2, <1>3, <2>1, TxnAssumption DEF TaskState
  <2>4. Held(s) \subseteq s.kept
    BY <1>4, <2>1 DEF Held
  <2>5. QED
    BY <1>4, <2>1, <2>2, <2>3, <2>4, GoesOn
<1>8. ASSUME Send(t, [longer EXCEPT !.raising = "conflict"],
                  IF t \in Ticker THEN "rollback_to" ELSE "rollback")
      PROVE  BuffersOK'
  <2> DEFINE s == [longer EXCEPT !.raising = "conflict"]
  <2>1. /\ s \in TaskState /\ s.kept = self.kept /\ s.unit = self.unit
        /\ s.buffer = longer.buffer /\ s.at_entry = self.at_entry
    BY <1>4 DEF TaskState
  <2>2. Send(t, s, IF t \in Ticker THEN "rollback_to" ELSE "rollback")
    BY <1>8
  <2> HIDE DEF s
  <2>3. CASE t \in Ticker
    BY <1>5, <2>1, <2>2, <2>3
  <2>4. CASE t \notin Ticker
    <3>1. task' = [task EXCEPT ![t] = Moved(s, "rollback")]
      BY <2>2, <2>4 DEF Send, SendVia, Moved
    <3>2. QED
      BY <1>3, <1>4, <2>1, <3>1, GivesUp
  <2>5. QED
    BY <2>3, <2>4
<1>9. QED
  BY <1>6, <1>7, <1>8 DEF Written, longer

LEMMA ReleasedBuffers ==
  ASSUME IInv, BuffersOK, NEW t \in Task, Released(t)
  PROVE  BuffersOK'
<1> DEFINE self == task[t]
<1>1. self.pc = "release"
  BY DEF Released, Answered
<1>2. self \in TaskState /\ self.unit <= Units
  BY <1>1, HolderIs DEF HolderOK, RowsOK, Outside, Body
<1>3. BufferOK(t, self)
  BY DEF BuffersOK
<1>4. CASE Raises(t)
  <2> DEFINE calm == [self EXCEPT !.cancelled = FALSE]
  <2>1. /\ calm \in TaskState /\ calm.unit = self.unit /\ calm.kept = self.kept
        /\ calm.buffer = self.buffer /\ calm.at_entry = self.at_entry
    BY <1>2, UncancelledType
  <2>2. task' = [task EXCEPT ![t] = Moved(calm, "rollback")]
    BY <1>4 DEF Released, Send, SendVia, Moved
  <2> HIDE DEF calm
  <2>3. QED
    BY <2>1, <2>2, Keeps DEF Pc
<1>5. CASE ~Raises(t)
  <2> DEFINE s == [self EXCEPT !.kept = @ \cup {self.unit}, !.unit = @ + 1]
  <2>1. /\ s \in TaskState /\ s.kept = self.kept \cup {self.unit}
        /\ s.unit = self.unit + 1 /\ s.buffer = self.buffer
    <3>1. self.unit + 1 \in 1..(Units + 1) /\ self.kept \cup {self.unit} \in SUBSET (1..Units)
      BY <1>2, TxnAssumption DEF TaskState
    <3>2. QED
      BY <1>2, <3>1 DEF TaskState
  <2>2. Continue(t, s)
    BY <1>5 DEF Released
  <2> HIDE DEF s
  <2>3. \A u \in s.kept : u < s.unit
    BY <1>2, <1>3, <2>1, TxnAssumption DEF TaskState, BufferOK
  <2>4. Held(s) \subseteq s.kept /\ Increasing(s.buffer)
    BY <1>1, <1>3, <2>1 DEF Held, BufferOK
  <2>5. QED
    BY <2>1, <2>2, <2>3, <2>4, GoesOn
<1>6. QED
  BY <1>4, <1>5

LEMMA ReleasedAfterBuffers ==
  ASSUME IInv, BuffersOK, NEW t \in Task, ReleasedAfter(t)
  PROVE  BuffersOK'
<1> DEFINE self == task[t]
           cut == [self EXCEPT !.buffer = SubSeq(@, 1, self.at_entry)]
<1>1. self.pc = "release_after"
  BY DEF ReleasedAfter, Answered
<1>2. self \in TaskState /\ self.unit <= Units /\ t \in Ticker
  BY <1>1, HolderIs DEF HolderOK, RowsOK, Outside, Body
<1>3. BufferOK(t, self)
  BY DEF BuffersOK
<1>4. /\ cut \in TaskState /\ cut.kept = self.kept /\ cut.unit = self.unit
      /\ Increasing(cut.buffer) /\ Held(cut) \subseteq self.kept
  <2>1. /\ Increasing(self.buffer) /\ self.at_entry <= Len(self.buffer)
        /\ \A i \in 1..self.at_entry : self.buffer[i] \in self.kept
    BY <1>1, <1>2, <1>3 DEF BufferOK, Body
  <2>2. QED
    BY <1>2, <2>1, CutsBack
<1>5. \A u \in self.kept : u < self.unit
  BY <1>3 DEF BufferOK
<1> HIDE DEF cut
<1>6. CASE Raises(t)
  <2> DEFINE calm == [self EXCEPT !.cancelled = FALSE]
  <2>1. /\ calm \in TaskState /\ calm.unit = self.unit /\ calm.kept = self.kept
        /\ calm.buffer = self.buffer /\ calm.at_entry = self.at_entry
    BY <1>2, UncancelledType
  <2>2. task' = [task EXCEPT ![t] = Moved(calm, "rollback")]
    BY <1>6 DEF ReleasedAfter, Send, SendVia, Moved
  <2> HIDE DEF calm
  <2>3. QED
    BY <2>1, <2>2, Keeps DEF Pc
<1>7. CASE ~Raises(t) /\ self.raising = "cancelled"
  <2>1. task' = [task EXCEPT ![t] = Moved(cut, "rollback")]
    BY <1>7 DEF ReleasedAfter, Send, SendVia, Moved, cut
  <2>2. QED
    BY <1>4, <1>5, <2>1, GivesUp
<1>8. CASE ~Raises(t) /\ self.raising # "cancelled"
  <2> DEFINE s == [cut EXCEPT !.raising = "nothing", !.unit = @ + 1]
  <2>1. Continue(t, s)
    BY <1>8 DEF ReleasedAfter, cut
  <2>2. /\ s \in TaskState /\ s.kept = self.kept
        /\ s.unit = self.unit + 1 /\ s.buffer = cut.buffer
    <3>1. self.unit + 1 \in 1..(Units + 1)
      BY <1>2, TxnAssumption DEF TaskState
    <3>2. QED
      BY <1>4, <3>1 DEF TaskState
  <2> HIDE DEF s
  <2>3. \A u \in s.kept : u < s.unit
    BY <1>2, <1>5, <2>2, TxnAssumption DEF TaskState
  <2>4. Held(s) \subseteq s.kept /\ Increasing(s.buffer)
    BY <1>4, <2>2 DEF Held
  <2>5. QED
    BY <2>1, <2>2, <2>3, <2>4, GoesOn
<1>9. QED
  BY <1>6, <1>7, <1>8

\* The steps that leave the buffer as it is.
LEMMA QuietBuffers ==
  ASSUME IInv, BuffersOK, NEW t \in Task,
         \/ Acquire(t) \/ Begun(t) \/ SavepointMade(t) \/ WriteCancelled(t) \/ RolledBackTo(t)
  PROVE  BuffersOK'
<1>1. task[t] \in TaskState /\ BufferOK(t, task[t])
  BY DEF IInv, Types, BuffersOK
<1> DEFINE calm == [task[t] EXCEPT !.cancelled = FALSE]
           stop == [task[t] EXCEPT !.cancelled = FALSE, !.raising = "cancelled"]
<1>2. /\ calm \in TaskState /\ calm.unit = task[t].unit /\ calm.kept = task[t].kept
      /\ calm.buffer = task[t].buffer /\ calm.at_entry = task[t].at_entry
  BY <1>1, UncancelledType
<1>3. /\ stop \in TaskState /\ stop.unit = task[t].unit /\ stop.kept = task[t].kept
      /\ stop.buffer = task[t].buffer /\ stop.at_entry = task[t].at_entry
  BY <1>1 DEF TaskState
<1>4. CASE Acquire(t)
  <2>1. task' = [task EXCEPT ![t] = Moved(task[t], "begin")] /\ task[t].pc = "idle"
    BY <1>4 DEF Acquire, Send, SendVia, Moved
  <2>2. QED
    BY <1>1, <2>1, Keeps DEF Pc
<1>5. CASE Begun(t)
  <2>1. task[t].pc = "begin"
    BY <1>5 DEF Begun, Answered
  <2>2. CASE Raises(t)
    <3>1. task' = [task EXCEPT ![t] = Moved(calm, "done")]
      BY <1>5, <2>2 DEF Begun, Leave, Moved
    <3> HIDE DEF calm
    <3>2. QED
      BY <1>2, <3>1, Keeps DEF Pc
  <2>3. CASE ~Raises(t)
    <3>1. Continue(t, task[t])
      BY <1>5, <2>3 DEF Begun
    <3>2. QED
      BY <1>1, <2>1, <3>1, GoesOn DEF BufferOK
  <2>4. QED
    BY <2>2, <2>3
<1>6. CASE SavepointMade(t)
  <2>1. /\ task[t].pc = "savepoint"
        /\ \/ task' = [task EXCEPT ![t] = Moved(calm, "rollback")]
           \/ task' = [task EXCEPT ![t] = Moved(task[t], "write")]
    BY <1>6 DEF SavepointMade, Answered, Send, SendVia, Moved
  <2> HIDE DEF calm
  <2>2. QED
    BY <1>1, <1>2, <2>1, Keeps DEF Pc
<1>7. CASE WriteCancelled(t)
  <2>1. /\ task[t].pc = "write"
        /\ \/ task' = [task EXCEPT ![t] = Moved(stop, "rollback")]
           \/ task' = [task EXCEPT ![t] = Moved(stop, "rollback_to")]
    BY <1>7 DEF WriteCancelled, SendVia, Moved
  <2> HIDE DEF stop
  <2>2. QED
    BY <1>3, <2>1, Keeps DEF Pc
<1>8. CASE RolledBackTo(t)
  <2>1. /\ task[t].pc = "rollback_to"
        /\ \/ task' = [task EXCEPT ![t] = Moved(calm, "rollback")]
           \/ task' = [task EXCEPT ![t] = Moved(task[t], "release_after")]
    BY <1>8 DEF RolledBackTo, Answered, Send, SendVia, Moved
  <2> HIDE DEF calm
  <2>2. QED
    BY <1>1, <1>2, <2>1, Keeps DEF Pc
<1>9. QED
  BY <1>4, <1>5, <1>6, <1>7, <1>8

\* The section is over and its buffer empty.
LEMMA ClosedBuffers ==
  ASSUME IInv, BuffersOK, NEW t \in Task, Committed(t) \/ RolledBack(t)
  PROVE  BuffersOK'
<1> DEFINE c == [task[t] EXCEPT !.cancelled = FALSE, !.buffer = <<>>]
<1>1. task' = [task EXCEPT ![t] = Moved(c, "done")]
  BY DEF Committed, RolledBack, Leave, Moved
<1>2. c \in TaskState /\ c.unit = task[t].unit /\ c.kept = task[t].kept /\ c.buffer = <<>>
  BY EmptySeq DEF IInv, Types, TaskState
<1> HIDE DEF c
<1>3. Increasing(c.buffer)
  BY <1>2 DEF Increasing
<1>4. \A u \in c.kept : u < c.unit
  BY <1>2 DEF BuffersOK, BufferOK
<1>5. QED
  BY <1>1, <1>2, <1>3, <1>4, GivesUp

\* Neither an answer nor a cancellation touches what a task holds.
LEMMA UntouchedBuffers ==
  ASSUME IInv, BuffersOK, NEW t \in Task,
         \/ \E a \in {"ok", "error"} : task' = [task EXCEPT ![t].answer = a]
         \/ task' = [task EXCEPT ![t].cancelled = TRUE]
  PROVE  BuffersOK'
<1> DEFINE s == task'[t]
<1>1. task[t] \in TaskState /\ BufferOK(t, task[t])
  BY DEF IInv, Types, BuffersOK
<1>2. task' = [task EXCEPT ![t] = s]
  BY DEF IInv, Types
<1>3. /\ s.pc = task[t].pc /\ s.kept = task[t].kept /\ s.unit = task[t].unit
      /\ s.buffer = task[t].buffer /\ s.at_entry = task[t].at_entry
  BY <1>1 DEF IInv, Types, TaskState
<1> HIDE DEF s
<1>4. BufferOK(t, s)
  BY <1>1, <1>3 DEF BufferOK, Held
<1>5. QED
  BY <1>2, <1>4, OneMoves

\* What the thread does to the tasks: nothing, or one gets its answer.
LEMMA RunAnswers ==
  ASSUME IInv, Execute
  PROVE  /\ task' = task \/ \E t \in Task : \E a \in {"ok", "error"} :
                              task' = [task EXCEPT ![t].answer = a]
         /\ committed \subseteq committed'
<1>1. Head(queue) \in Stmt
  BY HeadTailProperties DEF IInv, Types, Execute
<1>2. PICK stmt : stmt = Head(queue)
  OBVIOUS
<1>3. Run(stmt) /\ stmt.task \in Task /\ stmt.sql \in Pc
  BY <1>1, <1>2 DEF Execute, Stmt
<1>4. ASSUME NEW open, NEW rows, NEW saved, NEW disk, NEW answer \in {"ok", "error"},
             Ran(stmt, open, rows, saved, disk, answer), committed \subseteq disk
      PROVE  /\ task' = task \/ \E t \in Task : \E a \in {"ok", "error"} :
                                  task' = [task EXCEPT ![t].answer = a]
             /\ committed \subseteq committed'
  BY <1>3, <1>4 DEF Ran
<1>5. stmt.sql # "idle" /\ stmt.sql # "done"
  <2>1. stmt.sql \in {task[lock].pc, "write"} /\ lock \in Task
    BY <1>2, HeadIs DEF Execute, Sent
  <2>2. QED
    BY <2>1 DEF IInv, HolderOK, Outside
<1>6. QED
  BY <1>3, <1>4, <1>5 DEF Run, Pc

LEMMA BuffersStep == IInv /\ BuffersOK /\ [Next]_vars => BuffersOK'
<1> SUFFICES ASSUME IInv, BuffersOK, [Next]_vars PROVE BuffersOK'
  OBVIOUS
<1>1. ASSUME UNCHANGED task PROVE BuffersOK'
  BY <1>1 DEF BuffersOK
<1>2. CASE PublishHealthTick \/ Done \/ UNCHANGED vars
  BY <1>1, <1>2 DEF PublishHealthTick, Done, vars
<1>3. CASE Execute
  BY <1>1, <1>3, RunAnswers, UntouchedBuffers
<1>4. ASSUME NEW t \in Task, Acquire(t) \/ Resume(t) \/ Cancel(t) PROVE BuffersOK'
  <2>1. ASSUME Cancel(t) PROVE BuffersOK'
    BY <2>1, UntouchedBuffers DEF Cancel
  <2>2. QED
    BY <1>4, <2>1, QuietBuffers, WrittenBuffers, ReleasedBuffers, ReleasedAfterBuffers,
       ClosedBuffers DEF Resume
<1>5. QED
  BY <1>2, <1>3, <1>4 DEF Next

-----------------------------------------------------------------------------
(* What is told outside                                                    *)

Item == [seq : Nat, event : Row \cup {HealthTick}]

\* Only a section that is done has told anything, so each tells once.
ToldInv ==
  /\ applied \subseteq committed
  /\ published \in Seq(Item)
  /\ SeqContiguous
  /\ \A i \in DOMAIN published : published[i].event # HealthTick =>
       published[i].event \in committed /\ task[published[i].event[1]].pc = "done"
  /\ ToldInOrder
  /\ cancels \in 0..MaxCancels

LEMMA InitTold == Init => ToldInv
<1> SUFFICES ASSUME Init PROVE ToldInv
  OBVIOUS
<1>1. published \in Seq(Item) /\ Len(published) = 0 /\ DOMAIN published = {}
  BY EmptySeq DEF Init
<1>2. QED
  BY <1>1, TxnAssumption DEF Init, ToldInv, SeqContiguous, ToldInOrder

\* A health tick is no row's event.
LEMMA TickIsNoRow ==
  ASSUME NEW r \in Row
  PROVE  r # HealthTick
<1>1. PICK t \in Task, u \in 1..Units : r = <<t, u>>
  BY DEF Row
<1>2. Len(<<t, u>>) = 2 /\ Len(HealthTick) = 1
  BY DEF HealthTick
<1>3. QED
  BY <1>1, <1>2

\* Steps that tell nothing: no row leaves the disk, and who is done stays so.
LEMMA TellsNothing ==
  ASSUME IInv, ToldInv, NoFlush, committed \subseteq committed', cancels' \in 0..MaxCancels,
         \A u \in Task : task[u].pc = "done" => task'[u].pc = "done"
  PROVE  ToldInv'
<1>1. /\ applied' = applied /\ published' = published /\ next_seq' = next_seq
  BY DEF NoFlush
<1>2. published \in Seq(Item) /\ DOMAIN published = 1..Len(published)
  BY LenProperties DEF ToldInv
<1>3. \A i \in DOMAIN published : published[i].event # HealthTick =>
        published[i].event \in committed' /\ task'[published[i].event[1]].pc = "done"
  <2>1. SUFFICES ASSUME NEW i \in DOMAIN published, published[i].event # HealthTick
                 PROVE  published[i].event \in committed' /\ task'[published[i].event[1]].pc = "done"
    OBVIOUS
  <2>2. published[i].event \in Row
    <3>1. published[i] \in Item
      BY <1>2, <2>1, ElementOfSeq
    <3>2. QED
      BY <2>1, <3>1 DEF Item
  <2>3. published[i].event[1] \in Task
    BY <2>2 DEF Row
  <2>4. QED
    BY <2>1, <2>3 DEF ToldInv
<1>4. SeqContiguous' /\ ToldInOrder'
  BY <1>1 DEF ToldInv, SeqContiguous, ToldInOrder
<1>5. QED
  BY <1>1, <1>3, <1>4 DEF ToldInv

\* A task's own steps move nobody else, and it was not done.
LEMMA MovesItself ==
  ASSUME IInv, NEW t \in Task, Acquire(t) \/ Resume(t) \/ Cancel(t)
  PROVE  /\ task[t].pc # "done"
         /\ \A u \in Task : u # t => task'[u] = task[u]
         /\ committed' = committed
         /\ cancels' \in {cancels, cancels + 1}
         /\ cancels' # cancels => cancels < MaxCancels
<1>1. CASE Acquire(t)
  BY <1>1 DEF Acquire, Send, SendVia, Quiet, IInv, Types
<1>2. CASE Cancel(t)
  BY <1>2 DEF Cancel, IInv, Types
<1>3. CASE Begun(t)
  BY <1>3 DEF Begun, Answered, Continue, Leave, Send, SendVia, Quiet, IInv, Types
<1>4. CASE SavepointMade(t)
  BY <1>4 DEF SavepointMade, Answered, Send, SendVia, Quiet, IInv, Types
<1>5. CASE Written(t)
  BY <1>5 DEF Written, Answered, Continue, Send, SendVia, Quiet, IInv, Types
<1>6. CASE WriteCancelled(t)
  BY <1>6 DEF WriteCancelled, SendVia, Quiet, IInv, Types
<1>7. CASE Released(t)
  BY <1>7 DEF Released, Answered, Continue, Send, SendVia, Quiet, IInv, Types
<1>8. CASE RolledBackTo(t)
  BY <1>8 DEF RolledBackTo, Answered, Send, SendVia, Quiet, IInv, Types
<1>9. CASE ReleasedAfter(t)
  BY <1>9 DEF ReleasedAfter, Answered, Continue, Send, SendVia, Quiet, IInv, Types
<1>10. CASE Committed(t) \/ RolledBack(t)
  BY <1>10 DEF Committed, RolledBack, Answered, Leave, Quiet, IInv, Types
<1>11. QED
  BY <1>1, <1>2, <1>3, <1>4, <1>5, <1>6, <1>7, <1>8, <1>9, <1>10 DEF Resume

\* An item of c is one of a or, after them, one of b.
Splits(c, a, b) ==
  \A i \in 1..(Len(a) + Len(b)) :
    \/ i \in 1..Len(a) /\ c[i] = a[i]
    \/ \E m \in 1..Len(b) : i = Len(a) + m /\ c[i] = b[m]

LEMMA ConcatSplits ==
  ASSUME NEW S, NEW a \in Seq(S), NEW b \in Seq(S)
  PROVE  a \o b \in Seq(S) /\ Len(a \o b) = Len(a) + Len(b) /\ Splits(a \o b, a, b)
<1> DEFINE c == a \o b
<1>1. /\ c \in Seq(S) /\ Len(c) = Len(a) + Len(b)
      /\ \A i \in 1..(Len(a) + Len(b)) : c[i] = IF i <= Len(a) THEN a[i] ELSE b[i - Len(a)]
  BY ConcatProperties
<1>2. Len(a) \in Nat /\ Len(b) \in Nat
  BY LenProperties
<1> HIDE DEF c
<1>3. ASSUME NEW i \in 1..(Len(a) + Len(b)), ~(i <= Len(a))
      PROVE  \E m \in 1..Len(b) : i = Len(a) + m /\ c[i] = b[m]
  <2>1. i - Len(a) \in 1..Len(b) /\ i = Len(a) + (i - Len(a))
    BY <1>2, <1>3
  <2>2. c[i] = b[i - Len(a)]
    BY <1>1, <1>3
  <2>3. QED
    BY <2>1, <2>2
<1>4. \A i \in 1..(Len(a) + Len(b)) : i <= Len(a) => i \in 1..Len(a) /\ c[i] = a[i]
  BY <1>1, <1>2
<1>5. Splits(c, a, b)
  BY <1>3, <1>4 DEF Splits
<1>6. QED
  BY <1>1, <1>5 DEF c

\* A batch is told: each item has the next number and is on disk, and the batch
\* is in order.
LEMMA TellsBatch ==
  ASSUME IInv, ToldInv, NEW t \in Task, task[t].pc # "done",
         NEW b \in Seq(1..Units), Increasing(b),
         \A i \in DOMAIN b : <<t, b[i]>> \in committed,
         applied' = applied \cup {<<t, b[i]>> : i \in DOMAIN b},
         published' = published \o
           [i \in DOMAIN b |-> [seq |-> next_seq + i - 1, event |-> <<t, b[i]>>]],
         next_seq' = next_seq + Len(b),
         committed' = committed, cancels' = cancels,
         task'[t].pc = "done", \A u \in Task : u # t => task'[u] = task[u]
  PROVE  ToldInv'
<1> DEFINE batch == [i \in DOMAIN b |-> [seq |-> next_seq + i - 1, event |-> <<t, b[i]>>]]
<1>0. PICK n \in Nat, k \in Nat : n = Len(published) /\ k = Len(b)
  BY LenProperties DEF ToldInv
<1>1. next_seq = n /\ DOMAIN published = 1..n /\ published \in Seq(Item)
  BY <1>0, LenProperties DEF ToldInv, SeqContiguous
<1>2. DOMAIN b = 1..k /\ \A i \in 1..k : b[i] \in 1..Units
  BY <1>0, LenProperties, ElementOfSeq
<1>3. \A i \in 1..k : [seq |-> next_seq + i - 1, event |-> <<t, b[i]>>] \in Item
  BY <1>1, <1>2 DEF Item, Row
<1>4. batch \in Seq(Item) /\ Len(batch) = k
  BY <1>2, <1>3, IsASeq
<1>5. \A i \in 1..k : /\ batch[i].seq = n + i - 1
                     /\ batch[i].event[1] = t /\ batch[i].event[2] = b[i]
                     /\ batch[i].event \in committed
  BY <1>1, <1>2
<1>6. published' = published \o batch /\ next_seq' = n + k
  BY <1>0, <1>1
<1> HIDE DEF batch
<1>7. /\ published' \in Seq(Item) /\ Len(published') = n + k
      /\ DOMAIN published' = 1..(n + k)
      /\ \A i \in 1..(n + k) :
           \/ i \in 1..n /\ published'[i] = published[i]
           \/ \E m \in 1..k : i = n + m /\ published'[i] = batch[m]
  <2>1. n = Len(published) /\ k = Len(batch)
    BY <1>0, <1>4
  <2>2. /\ published' \in Seq(Item) /\ Len(published') = Len(published) + Len(batch)
        /\ Splits(published', published, batch)
    BY <1>1, <1>4, <1>6, ConcatSplits
  <2>3. DOMAIN published' = 1..Len(published')
    BY <2>2, LenProperties
  <2>4. QED
    BY <2>1, <2>2, <2>3 DEF Splits
<1>9. ASSUME NEW i \in 1..n, published[i].event # HealthTick
      PROVE  /\ published[i].event \in committed
             /\ published[i].event[1] \in Task \ {t}
             /\ task[published[i].event[1]].pc = "done"
  <2>1. published[i].event \in Row
    BY <1>1, <1>9 DEF ToldInv, IInv, Types
  <2>2. published[i].event[1] \in Task
    BY <2>1 DEF Row
  <2>3. published[i].event \in committed /\ task[published[i].event[1]].pc = "done"
    BY <1>1, <1>9 DEF ToldInv
  <2>4. QED
    BY <2>2, <2>3
<1>10. SeqContiguous'
  <2>1. \A i \in 1..n : published[i].seq = i - 1
    BY <1>1 DEF ToldInv, SeqContiguous
  <2>2. \A i \in 1..(n + k) : published'[i].seq = i - 1
    <3>1. SUFFICES ASSUME NEW i \in 1..(n + k) PROVE published'[i].seq = i - 1
      OBVIOUS
    <3>2. CASE i \in 1..n /\ published'[i] = published[i]
      BY <2>1, <3>2
    <3>3. ASSUME NEW m \in 1..k, i = n + m, published'[i] = batch[m]
          PROVE  published'[i].seq = i - 1
      <4>1. published'[i].seq = n + m - 1
        BY <1>5, <3>3
      <4>2. i - 1 = n + m - 1
        BY <3>3
      <4>3. QED
        BY <4>1, <4>2
    <3>4. QED
      BY <1>7, <3>2, <3>3
  <2>3. QED
    BY <1>6, <1>7, <2>2 DEF SeqContiguous
<1>11. \A i \in 1..(n + k) : published'[i].event # HealthTick =>
         published'[i].event \in committed' /\ task'[published'[i].event[1]].pc = "done"
  <2>1. SUFFICES ASSUME NEW i \in 1..(n + k), published'[i].event # HealthTick
                 PROVE  /\ published'[i].event \in committed
                        /\ task'[published'[i].event[1]].pc = "done"
    OBVIOUS
  <2>2. CASE i \in 1..n /\ published'[i] = published[i]
    BY <1>9, <2>1, <2>2
  <2>3. CASE \E m \in 1..k : i = n + m /\ published'[i] = batch[m]
    BY <1>5, <2>3
  <2>4. QED
    BY <1>7, <2>2, <2>3
<1>12. ToldInOrder'
  <2>1. SUFFICES ASSUME NEW i \in 1..(n + k), NEW j \in 1..(n + k), i < j,
                        published'[i].event # HealthTick, published'[j].event # HealthTick,
                        published'[i].event[1] = published'[j].event[1]
                 PROVE  published'[i].event[2] < published'[j].event[2]
    BY <1>7 DEF ToldInOrder
  <2>2. CASE /\ i \in 1..n /\ published'[i] = published[i]
             /\ j \in 1..n /\ published'[j] = published[j]
    BY <1>1, <2>1, <2>2 DEF ToldInv, ToldInOrder
  <2>3. ASSUME i \in 1..n, published'[i] = published[i],
               NEW m \in 1..k, published'[j] = batch[m]
        PROVE  FALSE
    <3>1. published'[j].event[1] = t
      BY <1>5, <2>3
    <3>2. published'[i].event[1] # t
      BY <1>9, <2>1, <2>3
    <3>3. QED
      BY <2>1, <3>1, <3>2
  <2>4. ASSUME NEW m \in 1..k, i = n + m, published'[i] = batch[m]
        PROVE  published'[i].event[2] < published'[j].event[2]
    <3>1. PICK l \in 1..k : j = n + l /\ published'[j] = batch[l]
      <4>1. j \notin 1..n
        BY <2>1, <2>4
      <4>2. QED
        BY <1>7, <4>1
    <3>2. m < l
      BY <2>1, <2>4, <3>1
    <3>3. b[m] < b[l]
      BY <1>2, <3>2 DEF Increasing
    <3>4. QED
      BY <1>5, <2>4, <3>1, <3>3
  <2>5. QED
    BY <1>7, <2>2, <2>3, <2>4
<1>13. applied' \subseteq committed'
  BY DEF ToldInv
<1>14. QED
  BY <1>7, <1>10, <1>11, <1>12, <1>13 DEF ToldInv

LEMMA CommittedTells ==
  ASSUME IInv, BuffersOK, ToldInv, NEW t \in Task, Committed(t)
  PROVE  ToldInv'
<1>1. task[t].pc = "commit" /\ task[t].answer # "none" /\ Quiet
  BY DEF Committed, Answered
<1>2. /\ task[t] \in TaskState /\ DiskOK(t, task[t], committed) /\ BufferOK(t, task[t])
  BY <1>1 DEF IInv, Types, BuffersOK
<1>3. task'[t].pc = "done" /\ \A u \in Task : u # t => task'[u] = task[u]
  BY DEF Committed, Leave, IInv, Types, TaskState
<1>4. CASE Raises(t)
  BY <1>1, <1>3, <1>4, TellsNothing DEF Committed, Quiet, ToldInv
<1>5. CASE ~Raises(t)
  <2> DEFINE b == task[t].buffer
  <2>1. b \in Seq(1..Units) /\ Increasing(b)
    BY <1>2 DEF TaskState, BufferOK
  <2>2. \A i \in DOMAIN b : <<t, b[i]>> \in committed
    <3>1. Held(task[t]) \subseteq Stored(t, committed)
      BY <1>1, <1>2 DEF DiskOK, BufferOK
    <3>2. QED
      BY <3>1 DEF Held, Stored
  <2>3. Flush(t)
    BY <1>5 DEF Committed
  <2>4. /\ applied' = applied \cup {<<t, b[i]>> : i \in DOMAIN b}
        /\ published' = published \o
             [i \in DOMAIN b |-> [seq |-> next_seq + i - 1, event |-> <<t, b[i]>>]]
        /\ next_seq' = next_seq + Len(b)
    BY <2>3 DEF Flush
  <2> HIDE DEF b
  <2>5. QED
    BY <1>1, <1>3, <2>1, <2>2, <2>4, TellsBatch DEF Quiet
<1>6. QED
  BY <1>4, <1>5

LEMMA TickTells ==
  ASSUME IInv, ToldInv, PublishHealthTick
  PROVE  ToldInv'
<1> DEFINE n == Len(published)
           item == [seq |-> next_seq, event |-> HealthTick]
<1>1. n \in Nat /\ next_seq = n /\ DOMAIN published = 1..n /\ published \in Seq(Item)
  BY LenProperties DEF ToldInv, SeqContiguous
<1>2. item \in Item /\ item.seq = n /\ item.event = HealthTick
  BY <1>1 DEF Item
<1>3. published' = Append(published, item) /\ next_seq' = n + 1
  BY <1>1 DEF PublishHealthTick
<1> HIDE DEF item
<1>4. /\ published' \in Seq(Item) /\ Len(published') = n + 1
      /\ DOMAIN published' = 1..(n + 1)
      /\ \A i \in 1..n : published'[i] = published[i]
      /\ published'[n + 1] = item
  BY <1>1, <1>2, <1>3, AppendProperties, LenProperties
<1>5. \A i \in 1..(n + 1) : i \in 1..n \/ i = n + 1
  BY <1>1
<1> HIDE DEF n
<1>6. SeqContiguous'
  <2>1. \A i \in 1..n : published[i].seq = i - 1
    BY <1>1 DEF ToldInv, SeqContiguous
  <2>2. \A i \in 1..(n + 1) : published'[i].seq = i - 1
    BY <1>1, <1>2, <1>4, <1>5, <2>1
  <2>3. QED
    BY <1>3, <1>4, <2>2 DEF SeqContiguous
<1>7. \A i \in DOMAIN published' : published'[i].event # HealthTick =>
        /\ i \in 1..n /\ published'[i] = published[i]
  BY <1>2, <1>4, <1>5
<1>8. ToldInOrder'
  BY <1>1, <1>7 DEF ToldInv, ToldInOrder
<1>9. /\ applied' = applied /\ committed' = committed /\ task' = task /\ cancels' = cancels
  BY DEF PublishHealthTick
<1>10. QED
  BY <1>1, <1>4, <1>6, <1>7, <1>8, <1>9 DEF ToldInv

LEMMA ToldStep == IInv /\ BuffersOK /\ ToldInv /\ [Next]_vars => ToldInv'
<1> SUFFICES ASSUME IInv, BuffersOK, ToldInv, [Next]_vars PROVE ToldInv'
  OBVIOUS
<1>1. ASSUME UNCHANGED vars PROVE ToldInv'
  BY <1>1 DEF vars, ToldInv, SeqContiguous, ToldInOrder
<1>2. CASE Execute
  <2>1. \A u \in Task : task[u].pc = "done" => task'[u].pc = "done"
    <3>1. ASSUME NEW t \in Task, NEW a \in {"ok", "error"},
                 task' = [task EXCEPT ![t].answer = a]
          PROVE  \A u \in Task : task'[u].pc = task[u].pc
      BY <3>1 DEF IInv, Types, TaskState
    <3>2. QED
      BY <1>2, <3>1, RunAnswers
  <2>2. QED
    BY <1>2, <2>1, RunAnswers, TellsNothing DEF Execute, NoFlush, ToldInv
<1>3. ASSUME NEW t \in Task, Acquire(t) \/ Resume(t) \/ Cancel(t) PROVE ToldInv'
  <2>1. CASE Committed(t)
    BY <2>1, CommittedTells
  <2>2. CASE ~Committed(t)
    <3>1. NoFlush
      BY <1>3, <2>2 DEF Acquire, Cancel, Resume, Begun, SavepointMade, Written,
         WriteCancelled, Released, RolledBackTo, ReleasedAfter, RolledBack, NoFlush
    <3>2. cancels' \in 0..MaxCancels
      BY <1>3, MovesItself, TxnAssumption DEF ToldInv
    <3>3. \A u \in Task : task[u].pc = "done" => task'[u].pc = "done"
      BY <1>3, MovesItself
    <3>4. QED
      BY <1>3, <3>1, <3>2, <3>3, MovesItself, TellsNothing
  <2>3. QED
    BY <2>1, <2>2
<1>4. CASE PublishHealthTick
  BY <1>4, TickTells
<1>5. QED
  BY <1>1, <1>2, <1>3, <1>4 DEF Next, Done

-----------------------------------------------------------------------------
(* The theorems                                                            *)

LEMMA CancelOK ==
  ASSUME IInv, NEW t \in Task, Cancel(t)
  PROVE  IInv'
<1> DEFINE s == [task[t] EXCEPT !.cancelled = TRUE]
<1>1. task[t].pc \notin Outside
  BY DEF Cancel, Outside
<1>2. /\ lock = t /\ HolderOK(t, task[t], conn, queue)
      /\ DiskOK(t, task[t], committed) /\ task[t] \in TaskState
  BY <1>1, HolderIs
<1>3. /\ s \in TaskState
      /\ s.pc = task[t].pc /\ s.answer = task[t].answer
      /\ s.unit = task[t].unit /\ s.kept = task[t].kept
  BY <1>2 DEF TaskState
<1>4. task' = [task EXCEPT ![t] = s]
  BY DEF Cancel, IInv, Types
<1>5. Whole(t, s) = Whole(t, task[t]) /\ Partial(t, s) = Partial(t, task[t])
  BY <1>3 DEF Whole, Partial
<1>6. /\ lock' = lock /\ conn' = conn /\ committed' = committed /\ queue' = queue
  BY DEF Cancel
<1> HIDE DEF s
<1>7. Types'
  BY <1>3, <1>4, <1>6 DEF IInv, Types
<1>8. task'[t] = s /\ \A u \in Task : u # t => task'[u] = task[u]
  BY <1>4 DEF IInv, Types
<1>9. RowsOK(t, s, conn) /\ QueueOK(t, s, queue)
  BY <1>2, <1>3, <1>5 DEF HolderOK, RowsOK, QueueOK, Body
<1>10. HolderOK(t, s, conn, queue)
  BY <1>1, <1>3, <1>9 DEF HolderOK
<1>11. FreshOK(s) /\ DiskOK(t, s, committed)
  BY <1>1, <1>2, <1>3 DEF FreshOK, DiskOK, Outside
<1>12. lock \in Task /\ lock # NoTask
  BY <1>2, TxnAssumption
<1>13. \A u \in Task : u # lock' => task'[u].pc \in Outside
  BY <1>2, <1>6, <1>8 DEF IInv
<1>14. \A u \in Task : FreshOK(task'[u]) /\ DiskOK(u, task'[u], committed')
  BY <1>6, <1>8, <1>11 DEF IInv
<1>15. HolderOK(lock', task'[lock'], conn', queue')
  BY <1>2, <1>6, <1>8, <1>10
<1>16. QED
  BY <1>6, <1>7, <1>12, <1>13, <1>14, <1>15 DEF IInv

LEMMA StepPreserves == IInv /\ BuffersOK /\ [Next]_vars => IInv'
<1> SUFFICES ASSUME IInv, BuffersOK, [Next]_vars PROVE IInv'
  OBVIOUS
<1>1. ASSUME UNCHANGED <<lock, conn, committed, queue, task>> PROVE IInv'
  BY <1>1 DEF IInv, Types
<1>2. CASE PublishHealthTick \/ Done \/ UNCHANGED vars
  BY <1>1, <1>2 DEF PublishHealthTick, Done, vars
<1>3. CASE Execute
  BY <1>3, ExecuteOK
<1>4. ASSUME NEW t \in Task, Acquire(t) \/ Resume(t) \/ Cancel(t) PROVE IInv'
  <2>1. ASSUME Resume(t) PROVE IInv'
    BY <2>1, EntryWithin, ResumeOK
  <2>2. QED
    BY <1>4, <2>1, AcquireOK, CancelOK
<1>5. QED
  BY <1>2, <1>3, <1>4 DEF Next

\* The strengthened invariant holds of every reachable state.
THEOREM Inductive == Spec => [](IInv /\ BuffersOK)
<1>1. Init => IInv /\ BuffersOK
  BY InitEstablishes, InitBuffers
<1>2. IInv /\ BuffersOK /\ [Next]_vars => (IInv /\ BuffersOK)'
  BY StepPreserves, BuffersStep
<1>3. QED
  BY <1>1, <1>2, PTL DEF Spec

\* The open transaction has rows of nobody but the holder of the lock, for any
\* number of coroutines and wherever they are cancelled.
THEOREM IsolatedAlways == Spec => []Isolated
<1>1. ASSUME IInv PROVE Isolated
  <2>1. CASE lock = NoTask
    BY <1>1, <2>1 DEF IInv, Isolated
  <2>2. CASE lock \in Task
    <3>1. /\ RowsOK(lock, task[lock], conn) /\ task[lock] \in TaskState
          /\ task[lock].pc \notin Outside
      BY <1>1, <2>2 DEF IInv, HolderOK, Types
    <3>2. \A r \in Whole(lock, task[lock]) \cup Partial(lock, task[lock]) \cup Own(lock) :
            r[1] = lock
      BY DEF Whole, Partial, Own
    <3>3. \/ conn.rows = {}
          \/ conn.rows = Whole(lock, task[lock])
          \/ conn.rows = Partial(lock, task[lock])
          \/ conn.rows \subseteq Own(lock)
      BY <3>1 DEF RowsOK, Outside, TaskState, Pc
    <3>4. QED
      BY <3>2, <3>3 DEF Isolated
  <2>3. QED
    BY <1>1, <2>1, <2>2 DEF IInv, Types
<1>2. QED
  BY <1>1, Inductive, PTL

\* On disk is, of every coroutine, nothing or just the units that ended well,
\* and nothing before its COMMIT: for any number of coroutines, units, and
\* cancellations, whatever a unit raised and whichever write ran late.
THEOREM AllOrNothingAlways == Spec => []AllOrNothing
<1>1. ASSUME IInv PROVE AllOrNothing
  BY <1>1 DEF IInv, DiskOK, Stored, OnDisk, AllOrNothing
<1>2. QED
  BY <1>1, Inductive, PTL

\* What is told outside is on disk, is numbered without a gap, and is told once
\* and in the order of the units: for any number of coroutines, units, health
\* ticks and cancellations.
THEOREM ToldSoundAlways == Spec => []ToldSound
<1>1. Init => ToldInv
  BY InitTold
<1>2. IInv /\ BuffersOK /\ ToldInv /\ [Next]_vars => ToldInv'
  BY ToldStep
<1>3. ASSUME IInv, ToldInv PROVE ToldSound
  <2>1. TypeOK
    <3>1. next_seq \in Nat
      BY <1>3, LenProperties DEF ToldInv, SeqContiguous
    <3>2. QED
      BY <1>3, <3>1 DEF IInv, Types, ToldInv, TypeOK, Connection, Stmt
  <2>2. QED
    BY <1>3, <2>1 DEF ToldInv, ToldSound, NothingEscapes
<1>4. QED
  BY <1>1, <1>2, <1>3, Inductive, PTL DEF Spec
=============================================================================
