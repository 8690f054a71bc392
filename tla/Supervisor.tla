----------------------------- MODULE Supervisor -----------------------------
(***************************************************************************)
(* engine/supervisor.py, the loop of engine/ticker.py it watches, and the  *)
(* lifespan of api/app.py that starts and stops both.  A tick is reduced to*)
(* how long it takes and how it ends: it completes, raises, or is wedged on*)
(* an await.                                                               *)
(*                                                                         *)
(* Time passes in units, and only when no timer is due and no task waits   *)
(* for its first turn: the loop runs what is ready.  A cancelled task ends *)
(* at its next await, or later when _finish holds the cancellation back,   *)
(* or not at all when the statement it waits for fails: the error takes the*)
(* cancellation's place and run_ticker goes on.                            *)
(***************************************************************************)
EXTENDS Integers, FiniteSets

CONSTANTS
  TaskId,          \* ticker tasks that may exist at once, with the ended ones
  TickRestart,     \* TICK_RESTART_NS
  Period,          \* SUPERVISOR_PERIOD_SECONDS
  CancelWait,      \* CANCEL_WAIT_SECONDS
  Interval,        \* TICK_INTERVAL_SECONDS
  MaxTick          \* the longest tick that is not wedged

\* Bound of the model, absent from the code.
CONSTANT MaxLost   \* cancellations replaced by an error

\* A completed tick is dated by its start: two ticks and the pause between them
\* must fit in TICK_RESTART_NS.
ASSUME SupervisorAssumption ==
  /\ Cardinality(TaskId) >= 2
  /\ {TickRestart, Period, CancelWait, Interval, MaxTick} \subseteq Nat \ {0}
  /\ MaxLost \in Nat
  /\ 2 * MaxTick + Interval <= TickRestart

VARIABLES
  ticker,          \* each task: [pc, left, spent, cancelled, wedged, well]
  current,         \* app_state.ticker_task, which is the supervisor's task
  age,             \* now - metrics.last_tick_mono, as far as it matters
  sup,             \* the supervisor: [pc, left]
  phase,           \* the lifespan
  lost             \* cancellations replaced so far

vars == <<ticker, current, age, sup, phase, lost>>

Old == TickRestart + 1

\* "well": the last tick to end completed, within MaxTick, and none is wedged; no
\* code reads it.
TickerState ==
  [pc : {"free", "spawned", "ticking", "asleep", "done"},
   left : 0..Interval, spent : 0..Old,
   cancelled : BOOLEAN, wedged : BOOLEAN, well : BOOLEAN]

TypeOK ==
  /\ ticker \in [TaskId -> TickerState]
  /\ current \in TaskId
  /\ age \in 0..Old
  /\ sup \in [pc : {"asleep", "waiting", "health", "done"}, left : 0..(Period + CancelWait)]
  /\ phase \in {"up", "stopping", "hanging", "closed"}
  /\ lost \in 0..MaxLost

Task(pc) == [pc |-> pc, left |-> 0, spent |-> 0,
             cancelled |-> FALSE, wedged |-> FALSE, well |-> TRUE]

Alive(t) == ticker[t].pc \in {"spawned", "ticking", "asleep"}

Asleep == [pc |-> "asleep", left |-> Period]

\* lifespan, once recovery is done: the age is seeded, both are started.
Init ==
  /\ current = CHOOSE t \in TaskId : TRUE
  /\ ticker = [t \in TaskId |-> Task(IF t = current THEN "spawned" ELSE "free")]
  /\ age = 0
  /\ sup = Asleep
  /\ phase = "up"
  /\ lost = 0

-----------------------------------------------------------------------------
(* run_ticker                                                              *)

StartTick(t) == [ticker[t] EXCEPT !.pc = "ticking", !.spent = 0, !.left = 0]

\* Mutant of FirstTurn: the age of the tick before is not overwritten.
FirstTurnUnseeded(t) ==
  /\ ticker[t].pc = "spawned" /\ ~ticker[t].cancelled
  /\ ticker' = [ticker EXCEPT ![t] = StartTick(t)]
  /\ UNCHANGED <<current, age, sup, phase, lost>>

\* A task cancelled before it ever ran does not run.
FirstTurn(t) ==
  /\ ticker[t].pc = "spawned" /\ ~ticker[t].cancelled
  /\ age' = 0
  /\ ticker' = [ticker EXCEPT ![t] = StartTick(t)]
  /\ UNCHANGED <<current, sup, phase, lost>>

Wake(t) ==
  /\ ticker[t].pc = "asleep" /\ ticker[t].left = 0 /\ ~ticker[t].cancelled
  /\ ticker' = [ticker EXCEPT ![t] = StartTick(t)]
  /\ UNCHANGED <<current, age, sup, phase, lost>>

Paused(t, well) ==
  [ticker[t] EXCEPT !.pc = "asleep", !.left = Interval, !.spent = 0,
                    !.wedged = FALSE, !.well = well]

\* last_tick_mono is the start of the tick, not its end.
CompleteTick(t) ==
  /\ ticker[t].pc = "ticking" /\ ~ticker[t].cancelled
  /\ age' = ticker[t].spent
  /\ ticker' = [ticker EXCEPT ![t] = Paused(t, ticker[t].spent <= MaxTick)]
  /\ UNCHANGED <<current, sup, phase, lost>>

RaiseTick(t) ==
  /\ ticker[t].pc = "ticking" /\ ~ticker[t].cancelled
  /\ ticker' = [ticker EXCEPT ![t] = Paused(t, FALSE)]
  /\ UNCHANGED <<current, age, sup, phase, lost>>

Wedge(t) ==
  /\ ticker[t].pc = "ticking" /\ ~ticker[t].wedged
  /\ ticker' = [ticker EXCEPT ![t].wedged = TRUE, ![t].well = FALSE]
  /\ UNCHANGED <<current, age, sup, phase, lost>>

\* The cancellation is raised in the task.
End(t) ==
  /\ Alive(t) /\ ticker[t].cancelled
  /\ ticker' = [ticker EXCEPT ![t] = Task("done")]
  /\ UNCHANGED <<current, age, sup, phase, lost>>

\* _finish raises the statement's error in place of the cancellation, and
\* run_ticker logs it.  A lifespan that sent it waits for ever.
LoseCancellation(t) ==
  /\ ticker[t].pc = "ticking" /\ ticker[t].cancelled
  /\ lost < MaxLost
  /\ lost' = lost + 1
  /\ ticker' = [ticker EXCEPT ![t] = [Paused(t, FALSE) EXCEPT !.cancelled = FALSE]]
  /\ phase' = IF phase = "stopping" THEN "hanging" ELSE phase
  /\ UNCHANGED <<current, age, sup>>

-----------------------------------------------------------------------------
(* Supervisor                                                              *)

Cancelled(t) == IF Alive(t) THEN [ticker EXCEPT ![t].cancelled = TRUE] ELSE ticker

Stale == age > TickRestart

\* Mutant of Decide: it observes and does not act.
DecideLogging ==
  /\ sup.pc = "asleep" /\ sup.left = 0
  /\ sup' = [pc |-> "health", left |-> 0]
  /\ UNCHANGED <<ticker, current, age, phase, lost>>

\* _decide, up to the wait.  The warning changes nothing.
Decide ==
  /\ sup.pc = "asleep" /\ sup.left = 0
  /\ IF Stale
     THEN /\ ticker' = Cancelled(current)
          /\ sup' = [pc |-> "waiting", left |-> CancelWait]
     ELSE /\ ticker' = ticker
          /\ sup' = [pc |-> "health", left |-> 0]
  /\ UNCHANGED <<current, age, phase, lost>>

Spawn ==
  \E t \in TaskId :
    /\ ~Alive(t) /\ t # current
    /\ current' = t
    /\ ticker' = [ticker EXCEPT ![t] = Task("spawned")]

\* Mutant of Replace: the replacement does not wait for the end of the old one.
ReplaceAnyway ==
  /\ sup.pc = "waiting"
  /\ ~Alive(current) \/ sup.left = 0
  /\ Spawn
  /\ sup' = [pc |-> "health", left |-> 0]
  /\ UNCHANGED <<age, phase, lost>>

Replace ==
  /\ sup.pc = "waiting"
  /\ ~Alive(current)
  /\ Spawn
  /\ sup' = [pc |-> "health", left |-> 0]
  /\ UNCHANGED <<age, phase, lost>>

DoNotReplace ==
  /\ sup.pc = "waiting" /\ sup.left = 0
  /\ Alive(current)
  /\ sup' = [pc |-> "health", left |-> 0]
  /\ UNCHANGED <<ticker, current, age, phase, lost>>

\* on_health, which may take its time or raise, and the sleep that follows
Health ==
  /\ sup.pc = "health"
  /\ sup' = Asleep
  /\ UNCHANGED <<ticker, current, age, phase, lost>>

-----------------------------------------------------------------------------
(* The end of lifespan                                                     *)

\* Mutant of StopSupervisor: the ticker is stopped and the supervisor is not.
StopTickerOnly ==
  /\ phase = "up"
  /\ phase' = "stopping"
  /\ ticker' = Cancelled(current)
  /\ UNCHANGED <<current, age, sup, lost>>

\* Mutant of StopSupervisor: the ticker is waited for and not cancelled.
StopWithoutCancel ==
  /\ phase = "up"
  /\ phase' = "stopping"
  /\ sup' = [pc |-> "done", left |-> 0]
  /\ UNCHANGED <<ticker, current, age, lost>>

\* The supervisor ends at the await it is at, and then the ticker is cancelled.
StopSupervisor ==
  /\ phase = "up"
  /\ phase' = "stopping"
  /\ sup' = [pc |-> "done", left |-> 0]
  /\ ticker' = Cancelled(current)
  /\ UNCHANGED <<current, age, lost>>

Close ==
  /\ phase = "stopping" /\ ticker[current].pc = "done"
  /\ phase' = "closed"
  /\ UNCHANGED <<ticker, current, age, sup, lost>>

-----------------------------------------------------------------------------

\* Something is due now, and the loop turns to it before time passes.
Due ==
  \/ \E t \in TaskId :
       /\ ~ticker[t].cancelled
       /\ \/ ticker[t].pc = "spawned"
          \/ ticker[t].pc = "asleep" /\ ticker[t].left = 0
          \/ ticker[t].pc = "ticking" /\ ~ticker[t].wedged /\ ticker[t].spent = MaxTick
  \/ sup.pc = "asleep" /\ sup.left = 0
  \/ sup.pc = "waiting" /\ (sup.left = 0 \/ ~Alive(current))

Less(n) == IF n > 0 THEN n - 1 ELSE 0

More(n) == IF n < Old THEN n + 1 ELSE Old

Pass ==
  /\ ~Due /\ phase # "closed"
  /\ age' = More(age)
  /\ ticker' = [t \in TaskId |->
                  [ticker[t] EXCEPT !.left = Less(@),
                                    !.spent = IF ticker[t].pc = "ticking" THEN More(@) ELSE @]]
  /\ sup' = [sup EXCEPT !.left = Less(@)]
  /\ UNCHANGED <<current, phase, lost>>

TickerStep(t) ==
  FirstTurn(t) \/ Wake(t) \/ CompleteTick(t) \/ RaiseTick(t) \/ Wedge(t)

SupervisorStep == Decide \/ Replace \/ DoNotReplace \/ Health

Next ==
  \/ \E t \in TaskId : TickerStep(t) \/ End(t) \/ LoseCancellation(t)
  \/ SupervisorStep
  \/ StopSupervisor \/ Close
  \/ Pass

Spec == Init /\ [][Next]_vars

\* Time passes, due timers and the supervisor's reads are served, and a
\* cancelled task ends.  No tick needs to end.
FairSpec ==
  /\ Spec
  /\ WF_vars(Pass) /\ WF_vars(SupervisorStep) /\ WF_vars(Close)
  /\ \A t \in TaskId : WF_vars(FirstTurn(t) \/ Wake(t)) /\ WF_vars(End(t))

-----------------------------------------------------------------------------
(* Properties                                                              *)

\* Two tickers are worse than none: no replacement while the old one lives.
NeverTwoTickers == \A t, u \in TaskId : Alive(t) /\ Alive(u) => t = u

\* store.close comes when no ticker is left, whatever the supervisor was doing
\* when the lifespan ended.
ClosedMeansStopped == phase = "closed" => \A t \in TaskId : ~Alive(t)

\* A ticker whose last tick completed in time and which is not wedged is never
\* cancelled by the supervisor, not even right after a replacement.
HealthyLeftAlone ==
  [][\A t \in TaskId :
       ~ticker[t].cancelled /\ ticker'[t].cancelled /\ phase' = "up" => ~ticker[t].well]_vars

\* A wedged ticker gives way, although it may take several cancellations, or
\* the server stops.
WedgedGivesWay == \A t \in TaskId : ticker[t].wedged ~> ~ticker[t].wedged \/ phase # "up"

\* A lifespan that ends comes to its close, unless the one cancellation it
\* sends is replaced by an error.
StopCompletes ==
  phase = "stopping" ~> phase \in {"closed", "hanging"}
=============================================================================
