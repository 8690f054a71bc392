-------------------------- MODULE SupervisorProofs --------------------------
(***************************************************************************)
(* That the supervisor never runs two tickers, and that the store is not   *)
(* closed under one, for every number of tasks and every length of the     *)
(* timers.  Both rest on one fact the two properties do not say: only the  *)
(* task everybody else knows as app_state.ticker_task can be alive.        *)
(***************************************************************************)
EXTENDS Supervisor, FiniteSetTheorems, TLAPS

OnlyCurrentLives == \A t \in TaskId : Alive(t) => t = current

\* Once the lifespan ends nothing is left that could start a ticker.
StoppedForGood == phase # "up" => sup.pc = "done"

ClosedAfterEnd == phase = "closed" => ~Alive(current)

IInv == TypeOK /\ OnlyCurrentLives /\ StoppedForGood /\ ClosedAfterEnd

LEMMA ConstantTypes ==
  /\ TickRestart \in Nat /\ Period \in Nat \ {0} /\ CancelWait \in Nat \ {0}
  /\ Interval \in Nat \ {0} /\ MaxTick \in Nat \ {0} /\ MaxLost \in Nat
  /\ Old \in Nat /\ Old > 0
  BY SupervisorAssumption DEF Old

LEMMA SomeTask == TaskId # {}
<1>1. Cardinality({}) = 0
  BY FS_EmptySet
<1>2. QED
  BY <1>1, SupervisorAssumption

\* The states a step of a ticker leaves behind are states of a ticker.
LEMMA TaskType ==
  \A pc \in {"free", "spawned", "ticking", "asleep", "done"} : Task(pc) \in TickerState
  BY ConstantTypes DEF Task, TickerState

LEMMA StepTypes ==
  ASSUME TypeOK, NEW t \in TaskId
  PROVE  /\ ticker[t] \in TickerState
         /\ StartTick(t) \in TickerState
         /\ \A well \in BOOLEAN : Paused(t, well) \in TickerState
         /\ \A well \in BOOLEAN : [Paused(t, well) EXCEPT !.cancelled = FALSE] \in TickerState
<1>0. 0 \in 0..Old /\ 0 \in 0..Interval
  BY ConstantTypes
<1>1. ticker[t] \in TickerState
  BY DEF TypeOK
<1>2. StartTick(t) \in TickerState
  BY <1>0, <1>1 DEF TickerState, StartTick
<1>3. ASSUME NEW well \in BOOLEAN PROVE Paused(t, well) \in TickerState
  <2>1. Interval \in 0..Interval
    BY ConstantTypes
  <2>2. QED
    BY <1>0, <1>1, <2>1 DEF TickerState, Paused
<1>4. ASSUME NEW s \in TickerState PROVE [s EXCEPT !.cancelled = FALSE] \in TickerState
  BY DEF TickerState
<1>5. QED
  BY <1>1, <1>2, <1>3, <1>4

LEMMA CancelledType ==
  ASSUME TypeOK
  PROVE  /\ Cancelled(current) \in [TaskId -> TickerState]
         /\ \A t \in TaskId : Cancelled(current)[t].pc = ticker[t].pc
<1>1. \A t \in TaskId : ticker[t] \in TickerState
  BY DEF TypeOK
<1>2. \A t \in TaskId : [ticker[t] EXCEPT !.cancelled = TRUE] \in TickerState
  BY <1>1 DEF TickerState
<1>3. \A t \in TaskId : [ticker[t] EXCEPT !.cancelled = TRUE].pc = ticker[t].pc
  BY <1>1 DEF TickerState
<1>4. QED
  BY <1>1, <1>2, <1>3 DEF Cancelled, TypeOK

LEMMA InitEstablishes == Init => IInv
<1> SUFFICES ASSUME Init PROVE IInv
  OBVIOUS
<1>1. current \in TaskId
  BY SomeTask DEF Init
<1>2. TypeOK
  BY <1>1, TaskType, ConstantTypes DEF Init, TypeOK, Asleep
<1>3. QED
  BY <1>1, <1>2 DEF Init, IInv, OnlyCurrentLives, StoppedForGood, ClosedAfterEnd, Alive, Task, Asleep

\* A step of one task that is alive already, and leaves current and the
\* supervisor alone.
LEMMA OneTask ==
  ASSUME IInv, NEW t \in TaskId, Alive(t),
         NEW s \in TickerState, ticker' = [ticker EXCEPT ![t] = s],
         current' = current, sup' = sup,
         age' \in 0..Old, lost' \in 0..MaxLost,
         \/ phase' = phase
         \/ phase = "stopping" /\ phase' = "hanging"
  PROVE  IInv'
<1>1. TypeOK'
  BY DEF IInv, TypeOK
<1>2. \A u \in TaskId \ {t} : Alive(u)' = Alive(u)
  BY DEF Alive, IInv, TypeOK
<1>3. OnlyCurrentLives'
  BY <1>2 DEF IInv, OnlyCurrentLives
<1>4. phase' # "closed"
  BY DEF IInv, ClosedAfterEnd, OnlyCurrentLives
<1>5. QED
  BY <1>1, <1>3, <1>4 DEF IInv, StoppedForGood, ClosedAfterEnd

\* A step that changes no task's place in its life.
LEMMA SameLives ==
  ASSUME IInv, \A t \in TaskId : ticker'[t].pc = ticker[t].pc, current' = current,
         TypeOK',
         phase' = phase \/ (phase = "up" /\ phase' = "stopping"),
         phase' # "up" => sup'.pc = "done"
  PROVE  IInv'
<1>1. \A t \in TaskId : Alive(t)' = Alive(t)
  BY DEF Alive
<1>2. QED
  BY <1>1 DEF IInv, TypeOK, OnlyCurrentLives, StoppedForGood, ClosedAfterEnd

LEMMA StepPreserves == IInv /\ [Next]_vars => IInv'
<1> SUFFICES ASSUME IInv, [Next]_vars PROVE IInv'
  OBVIOUS
<1> USE DEF IInv
<1>a. age \in 0..Old /\ lost \in 0..MaxLost
  BY DEF TypeOK
<1>1. ASSUME NEW t \in TaskId, FirstTurn(t) PROVE IInv'
  <2>1. Alive(t)
    BY <1>1 DEF FirstTurn, Alive
  <2>2. age' \in 0..Old
    BY <1>1, ConstantTypes DEF FirstTurn
  <2>3. StartTick(t) \in TickerState
    BY StepTypes
  <2>4. QED
    BY <1>1, <1>a, <2>1, <2>2, <2>3, OneTask DEF FirstTurn
<1>2. ASSUME NEW t \in TaskId, Wake(t) PROVE IInv'
  <2>1. Alive(t)
    BY <1>2 DEF Wake, Alive
  <2>2. QED
    BY <1>2, <1>a, <2>1, OneTask, StepTypes DEF Wake
<1>3. ASSUME NEW t \in TaskId, CompleteTick(t) PROVE IInv'
  <2>1. Alive(t)
    BY <1>3 DEF CompleteTick, Alive
  <2>2. Paused(t, ticker[t].spent <= MaxTick) \in TickerState
    <3>1. (ticker[t].spent <= MaxTick) \in BOOLEAN
      OBVIOUS
    <3>2. QED
      BY <3>1, StepTypes
  <2>3. ticker[t].spent \in 0..Old
    BY StepTypes DEF TickerState
  <2>4. QED
    BY <1>3, <1>a, <2>1, <2>2, <2>3, OneTask DEF CompleteTick
<1>4. ASSUME NEW t \in TaskId, RaiseTick(t) PROVE IInv'
  <2>1. Alive(t)
    BY <1>4 DEF RaiseTick, Alive
  <2>2. QED
    BY <1>4, <1>a, <2>1, OneTask, StepTypes DEF RaiseTick
<1>5. ASSUME NEW t \in TaskId, Wedge(t) PROVE IInv'
  <2>1. Alive(t)
    BY <1>5 DEF Wedge, Alive
  <2> DEFINE s == [ticker[t] EXCEPT !.wedged = TRUE, !.well = FALSE]
  <2>2. s \in TickerState
    BY StepTypes DEF TickerState
  <2>3. ticker' = [ticker EXCEPT ![t] = s]
    BY <1>5 DEF Wedge, TypeOK
  <2>4. QED
    BY <1>5, <1>a, <2>1, <2>2, <2>3, OneTask DEF Wedge
<1>6. ASSUME NEW t \in TaskId, End(t) PROVE IInv'
  BY <1>6, <1>a, OneTask, TaskType DEF End
<1>7. ASSUME NEW t \in TaskId, LoseCancellation(t) PROVE IInv'
  <2>1. Alive(t)
    BY <1>7 DEF LoseCancellation, Alive
  <2>2. lost' \in 0..MaxLost
    BY <1>7, <1>a, ConstantTypes DEF LoseCancellation
  <2>3. QED
    BY <1>7, <1>a, <2>1, <2>2, OneTask, StepTypes DEF LoseCancellation
<1>8. CASE Decide
  <2>1. TypeOK'
    BY <1>8, CancelledType, ConstantTypes DEF Decide, TypeOK
  <2>2. phase = "up"
    BY <1>8 DEF Decide, StoppedForGood
  <2>3. QED
    BY <1>8, <2>1, <2>2, SameLives, CancelledType DEF Decide
<1>9. CASE Replace
  <2>1. PICK t \in TaskId : /\ ~Alive(t) /\ t # current
                            /\ current' = t
                            /\ ticker' = [ticker EXCEPT ![t] = Task("spawned")]
    BY <1>9 DEF Replace, Spawn
  <2>2. \A u \in TaskId : ~Alive(u)
    BY <1>9 DEF Replace, OnlyCurrentLives
  <2>3. \A u \in TaskId \ {t} : ~Alive(u)'
    BY <2>1, <2>2 DEF Alive, TypeOK
  <2>4. phase = "up"
    BY <1>9 DEF Replace, StoppedForGood
  <2>5. TypeOK'
    BY <1>9, <2>1, TaskType, ConstantTypes DEF Replace, TypeOK
  <2>6. QED
    BY <1>9, <2>1, <2>3, <2>4, <2>5
    DEF Replace, OnlyCurrentLives, StoppedForGood, ClosedAfterEnd
<1>10. CASE DoNotReplace
  <2>1. phase = "up"
    BY <1>10 DEF DoNotReplace, StoppedForGood
  <2>2. TypeOK'
    BY <1>10, ConstantTypes DEF DoNotReplace, TypeOK
  <2>3. QED
    BY <1>10, <2>1, <2>2, SameLives DEF DoNotReplace
<1>11. CASE Health
  <2>1. phase = "up"
    BY <1>11 DEF Health, StoppedForGood
  <2>2. TypeOK'
    BY <1>11, ConstantTypes DEF Health, Asleep, TypeOK
  <2>3. QED
    BY <1>11, <2>1, <2>2, SameLives DEF Health
<1>12. CASE StopSupervisor
  <2>1. TypeOK'
    BY <1>12, CancelledType, ConstantTypes DEF StopSupervisor, TypeOK
  <2>2. QED
    BY <1>12, <2>1, SameLives, CancelledType DEF StopSupervisor
<1>13. CASE Close
  <2>1. ~Alive(current)
    BY <1>13 DEF Close, Alive
  <2>2. QED
    BY <1>13, <2>1 DEF Close, TypeOK, OnlyCurrentLives, StoppedForGood, ClosedAfterEnd, Alive
<1>14. CASE Pass
  <2>1. \A n \in 0..Interval : Less(n) \in 0..Interval
    BY ConstantTypes DEF Less
  <2>2. \A n \in 0..Old : More(n) \in 0..Old
    BY ConstantTypes DEF More
  <2>3. \A n \in 0..(Period + CancelWait) : Less(n) \in 0..(Period + CancelWait)
    BY ConstantTypes DEF Less
  <2>4. \A t \in TaskId : ticker[t] \in TickerState
    BY DEF TypeOK
  <2>5. \A t \in TaskId : ticker'[t] \in TickerState /\ ticker'[t].pc = ticker[t].pc
    BY <1>14, <2>1, <2>2, <2>4 DEF Pass, TickerState
  <2>6. ticker' \in [TaskId -> TickerState]
    BY <1>14, <2>5 DEF Pass
  <2>7. TypeOK' /\ sup'.pc = sup.pc
    BY <1>14, <2>2, <2>3, <2>6 DEF Pass, TypeOK
  <2>8. QED
    BY <1>14, <2>5, <2>7, SameLives DEF Pass, StoppedForGood
<1>15. CASE UNCHANGED vars
  BY <1>15 DEF vars, TypeOK, OnlyCurrentLives, StoppedForGood, ClosedAfterEnd, Alive
<1>16. QED
  BY <1>1, <1>2, <1>3, <1>4, <1>5, <1>6, <1>7, <1>8, <1>9, <1>10, <1>11, <1>12, <1>13, <1>14, <1>15
  DEF Next, TickerStep, SupervisorStep

\* The strengthened invariant holds of every reachable state.
THEOREM Inductive == Spec => []IInv
  BY InitEstablishes, StepPreserves, PTL DEF Spec

\* The state of the supervisor and of its tickers stays in its types.
THEOREM TypeCorrect == Spec => []TypeOK
<1>1. IInv => TypeOK
  BY DEF IInv
<1>2. QED
  BY <1>1, Inductive, PTL

\* supervisor.py's first promise, for any number of tasks and any timers:
\* "two tickers are worse than none".
THEOREM TwoTickersNever == Spec => []NeverTwoTickers
<1>1. IInv => NeverTwoTickers
  BY DEF IInv, OnlyCurrentLives, NeverTwoTickers
<1>2. QED
  BY <1>1, Inductive, PTL

\* lifespan closes the store when no ticker is left to use it.
THEOREM ClosesLast == Spec => []ClosedMeansStopped
<1>1. IInv => ClosedMeansStopped
  BY DEF IInv, OnlyCurrentLives, ClosedAfterEnd, ClosedMeansStopped
<1>2. QED
  BY <1>1, Inductive, PTL

-----------------------------------------------------------------------------
(* Why a healthy ticker is never cancelled: the age the supervisor reads is  *)
(* bounded by where the ticker is in its cycle, and the bound stays below    *)
(* the threshold by SupervisorAssumption.                                    *)

Healthy(t) == Alive(t) /\ ~ticker[t].cancelled /\ ticker[t].well

FreshFor(t) ==
  /\ ~ticker[t].wedged
  /\ ticker[t].pc = "spawned" =>
       sup.pc \in {"health", "done"} \/ (sup.pc = "asleep" /\ sup.left > 0)
  /\ ticker[t].pc = "asleep" => age + ticker[t].left <= MaxTick + Interval
  /\ ticker[t].pc = "ticking" =>
       ticker[t].spent <= MaxTick /\ age <= MaxTick + Interval + ticker[t].spent

HealthyIsFresh == \A t \in TaskId : Healthy(t) => FreshFor(t)

LEMMA InitFresh == Init => HealthyIsFresh
  BY ConstantTypes DEF Init, HealthyIsFresh, Healthy, FreshFor, Alive, Task, Asleep

LEMMA PassKeepsFresh ==
  ASSUME IInv, HealthyIsFresh, Pass PROVE HealthyIsFresh'
<1> SUFFICES ASSUME NEW t \in TaskId, Healthy(t)' PROVE FreshFor(t)'
  BY DEF HealthyIsFresh
<1>1. /\ ticker[t] \in TickerState
      /\ ticker'[t] = [ticker[t] EXCEPT !.left = Less(@),
                         !.spent = IF ticker[t].pc = "ticking" THEN More(@) ELSE @]
  BY DEF IInv, TypeOK, Pass
<1>2. /\ ticker'[t].pc = ticker[t].pc /\ ticker'[t].left = Less(ticker[t].left)
      /\ ticker'[t].wedged = ticker[t].wedged
      /\ ticker'[t].cancelled = ticker[t].cancelled /\ ticker'[t].well = ticker[t].well
      /\ ticker[t].pc = "ticking" => ticker'[t].spent = More(ticker[t].spent)
  BY <1>1 DEF TickerState
<1>3. Healthy(t)
  BY <1>2 DEF Healthy, Alive
<1>4. FreshFor(t) /\ ~ticker[t].cancelled
  BY <1>3 DEF HealthyIsFresh, Healthy
<1>5. /\ ticker[t].pc # "spawned"
      /\ ticker[t].pc = "asleep" => ticker[t].left # 0
      /\ ticker[t].pc = "ticking" => ticker[t].spent # MaxTick
      /\ ~ticker'[t].wedged
  BY <1>2, <1>4 DEF Pass, Due, FreshFor
<1>6. age' <= age + 1 /\ age \in Nat /\ age' \in Nat
  <2>1. age \in 0..Old /\ age' = IF age < Old THEN age + 1 ELSE Old
    BY DEF Pass, More, IInv, TypeOK
  <2>2. Old \in Nat
    BY ConstantTypes
  <2>3. QED
    BY <2>1, <2>2
<1>7. ticker[t].left \in 0..Interval /\ ticker[t].spent \in 0..Old
  BY <1>1 DEF TickerState
<1>8. CASE ticker[t].pc = "asleep"
  <2>1. ticker'[t].left = ticker[t].left - 1
    BY <1>2, <1>5, <1>7, <1>8, ConstantTypes DEF Less
  <2>2. age + ticker[t].left <= MaxTick + Interval
    BY <1>4, <1>8 DEF FreshFor
  <2>3. age' + ticker'[t].left <= MaxTick + Interval
    BY <2>1, <2>2, <1>6, <1>7, ConstantTypes
  <2>4. QED
    BY <2>3, <1>2, <1>5, <1>8 DEF FreshFor
<1>9. CASE ticker[t].pc = "ticking"
  <2>1. /\ ticker[t].spent <= MaxTick
        /\ age <= MaxTick + Interval + ticker[t].spent
    BY <1>4, <1>9 DEF FreshFor
  <2>2. ticker[t].spent < MaxTick /\ MaxTick < Old
    BY <2>1, <1>5, <1>7, <1>9, ConstantTypes, SupervisorAssumption DEF Old
  <2>3. ticker'[t].spent = ticker[t].spent + 1
    BY <2>2, <1>2, <1>7, <1>9, ConstantTypes DEF More
  <2>4. ticker'[t].spent <= MaxTick /\ age' <= MaxTick + Interval + ticker'[t].spent
    BY <2>1, <2>2, <2>3, <1>6, <1>7, ConstantTypes
  <2>5. QED
    BY <2>4, <1>2, <1>5, <1>9 DEF FreshFor
<1>10. QED
  BY <1>3, <1>5, <1>8, <1>9 DEF Healthy, Alive

\* A step that leaves age and every ticker as they are, and the supervisor no
\* nearer to a decision.
LEMMA SupervisorKeepsFresh ==
  ASSUME HealthyIsFresh, ticker' = ticker, age' = age,
         \/ sup' = sup
         \/ sup'.pc \in {"health", "done"}
         \/ sup'.pc = "asleep" /\ sup'.left > 0
  PROVE  HealthyIsFresh'
<1> SUFFICES ASSUME NEW t \in TaskId, Healthy(t)' PROVE FreshFor(t)'
  BY DEF HealthyIsFresh
<1>1. FreshFor(t)
  BY DEF HealthyIsFresh, Healthy, Alive
<1>2. QED
  BY <1>1 DEF FreshFor

\* A step of the one task that is alive, to a state that is fresh if healthy.
LEMMA TaskKeepsFresh ==
  ASSUME IInv, NEW t \in TaskId, Alive(t), NEW s \in TickerState,
         ticker' = [ticker EXCEPT ![t] = s],
         Healthy(t)' => FreshFor(t)'
  PROVE  HealthyIsFresh'
<1>1. \A u \in TaskId \ {t} : ~Alive(u)'
  BY DEF IInv, OnlyCurrentLives, Alive, TypeOK
<1>2. QED
  BY <1>1 DEF HealthyIsFresh, Healthy

LEMMA StepKeepsFresh == IInv /\ HealthyIsFresh /\ [Next]_vars => HealthyIsFresh'
<1> SUFFICES ASSUME IInv, HealthyIsFresh, [Next]_vars PROVE HealthyIsFresh'
  OBVIOUS
<1>a. \A t \in TaskId : ticker[t] \in TickerState
  BY DEF IInv, TypeOK
<1>b. age \in Nat /\ ticker \in [TaskId -> TickerState] /\ current \in TaskId
  BY ConstantTypes DEF IInv, TypeOK
<1>c. ASSUME NEW t \in TaskId, Healthy(t) PROVE FreshFor(t)
  BY <1>c DEF HealthyIsFresh
<1>1. ASSUME NEW t \in TaskId, FirstTurn(t) PROVE HealthyIsFresh'
  <2> DEFINE s == StartTick(t)
  <2>1. Alive(t) /\ ~ticker[t].cancelled
    BY <1>1 DEF FirstTurn, Alive
  <2>2. s \in TickerState /\ ticker' = [ticker EXCEPT ![t] = s] /\ age' = 0
    BY <1>1, StepTypes DEF FirstTurn, IInv
  <2>3. s.pc = "ticking" /\ s.spent = 0 /\ s.wedged = ticker[t].wedged /\ s.well = ticker[t].well
    BY <1>a DEF StartTick, TickerState
  <2>4. ticker'[t] = s
    BY <2>2, <1>b
  <2>5. ASSUME Healthy(t)' PROVE FreshFor(t)'
    <3>1. ~ticker[t].wedged
      BY <2>1, <2>3, <2>4, <2>5, <1>c DEF Healthy, FreshFor
    <3>2. QED
      BY <3>1, <2>2, <2>3, <2>4, ConstantTypes DEF FreshFor
  <2>6. QED
    BY <2>1, <2>2, <2>5, TaskKeepsFresh
<1>2. ASSUME NEW t \in TaskId, Wake(t) PROVE HealthyIsFresh'
  <2> DEFINE s == StartTick(t)
  <2>1. Alive(t) /\ ~ticker[t].cancelled /\ ticker[t].pc = "asleep" /\ ticker[t].left = 0
    BY <1>2 DEF Wake, Alive
  <2>2. s \in TickerState /\ ticker' = [ticker EXCEPT ![t] = s] /\ age' = age
    BY <1>2, StepTypes DEF Wake, IInv
  <2>3. s.pc = "ticking" /\ s.spent = 0 /\ s.wedged = ticker[t].wedged /\ s.well = ticker[t].well
    BY <1>a DEF StartTick, TickerState
  <2>4. ticker'[t] = s
    BY <2>2, <1>b
  <2>5. ASSUME Healthy(t)' PROVE FreshFor(t)'
    <3>1. ~ticker[t].wedged /\ age + 0 <= MaxTick + Interval
      BY <2>1, <2>3, <2>4, <2>5, <1>c DEF Healthy, FreshFor
    <3>2. QED
      BY <3>1, <2>2, <2>3, <2>4, <1>b, ConstantTypes DEF FreshFor
  <2>6. QED
    BY <2>1, <2>2, <2>5, TaskKeepsFresh
<1>3. ASSUME NEW t \in TaskId, CompleteTick(t) PROVE HealthyIsFresh'
  <2> DEFINE well == ticker[t].spent <= MaxTick
             s == Paused(t, well)
  <2>1. Alive(t)
    BY <1>3 DEF CompleteTick, Alive
  <2>2. well \in BOOLEAN
    OBVIOUS
  <2>3. s \in TickerState
    BY <2>2, StepTypes DEF IInv
  <2>4. ticker' = [ticker EXCEPT ![t] = s] /\ age' = ticker[t].spent
    BY <1>3 DEF CompleteTick
  <2>5. s.pc = "asleep" /\ s.left = Interval /\ ~s.wedged /\ s.well = well
    BY <1>a DEF Paused, TickerState
  <2>6. ticker'[t] = s
    BY <2>4, <1>b
  <2>7. ASSUME Healthy(t)' PROVE FreshFor(t)'
    <3>1. ticker[t].spent <= MaxTick
      BY <2>5, <2>6, <2>7 DEF Healthy
    <3>2. ticker[t].spent \in Nat
      BY <1>a, ConstantTypes DEF TickerState
    <3>3. QED
      BY <3>1, <3>2, <2>4, <2>5, <2>6, ConstantTypes DEF FreshFor
  <2> HIDE DEF s
  <2>8. QED
    BY <2>1, <2>3, <2>4, <2>7, TaskKeepsFresh
<1>4. ASSUME NEW t \in TaskId, NEW s \in TickerState, Alive(t), ~s.well,
             ticker' = [ticker EXCEPT ![t] = s]
      PROVE HealthyIsFresh'
  <2>1. ticker'[t] = s
    BY <1>4, <1>b
  <2>2. QED
    BY <1>4, <2>1, TaskKeepsFresh DEF Healthy
<1>5. ASSUME NEW t \in TaskId, RaiseTick(t) \/ Wedge(t) \/ LoseCancellation(t)
      PROVE HealthyIsFresh'
  <2>1. Alive(t)
    BY <1>5 DEF RaiseTick, Wedge, LoseCancellation, Alive
  <2>2. PICK s \in TickerState : ~s.well /\ ticker' = [ticker EXCEPT ![t] = s]
    <3>1. CASE RaiseTick(t)
      <4>1. Paused(t, FALSE) \in TickerState /\ Paused(t, FALSE).well = FALSE
        BY <1>a, StepTypes, ZenonT(40) DEF Paused, IInv, TickerState
      <4>2. QED
        BY <3>1, <4>1 DEF RaiseTick
    <3>2. CASE Wedge(t)
      <4> DEFINE w == [ticker[t] EXCEPT !.wedged = TRUE, !.well = FALSE]
      <4>1. w \in TickerState /\ w.well = FALSE
        BY <1>a DEF TickerState
      <4>2. ticker' = [ticker EXCEPT ![t] = w]
        BY <3>2, <1>b DEF Wedge
      <4>3. QED
        BY <4>1, <4>2
    <3>3. CASE LoseCancellation(t)
      <4> DEFINE w == [Paused(t, FALSE) EXCEPT !.cancelled = FALSE]
      <4>1. w \in TickerState
        BY StepTypes DEF IInv
      <4>2. w.well = FALSE
        BY <1>a DEF Paused, TickerState
      <4>3. ticker' = [ticker EXCEPT ![t] = w]
        BY <3>3 DEF LoseCancellation
      <4> HIDE DEF w
      <4>4. QED
        BY <4>1, <4>2, <4>3
    <3>4. QED
      BY <1>5, <3>1, <3>2, <3>3
  <2>3. QED
    BY <1>4, <2>1, <2>2
<1>6. ASSUME NEW t \in TaskId, End(t) PROVE HealthyIsFresh'
  <2>1. Alive(t) /\ ticker' = [ticker EXCEPT ![t] = Task("done")] /\ Task("done") \in TickerState
    BY <1>6, TaskType DEF End
  <2>2. ticker'[t].pc = "done"
    BY <2>1, <1>b DEF Task
  <2>3. ~Healthy(t)'
    BY <2>2 DEF Healthy, Alive
  <2>4. QED
    BY <2>1, <2>3, TaskKeepsFresh
<1>7. ASSUME ticker' = Cancelled(current) PROVE HealthyIsFresh'
  <2>0. PICK c \in TaskId : c = current
    BY <1>b
  <2>1. CASE Alive(c)
    <3> DEFINE s == [ticker[c] EXCEPT !.cancelled = TRUE]
    <3>1. s \in TickerState /\ s.cancelled
      BY <1>a DEF TickerState
    <3>2. ticker' = [ticker EXCEPT ![c] = s] /\ ticker'[c] = s
      BY <1>7, <1>b, <2>0, <2>1 DEF Cancelled
    <3>3. ~Healthy(c)'
      BY <3>1, <3>2 DEF Healthy
    <3>4. QED
      BY <2>1, <3>1, <3>2, <3>3, TaskKeepsFresh
  <2>2. CASE ~Alive(c)
    <3>1. ticker' = ticker
      BY <1>7, <2>0, <2>2 DEF Cancelled
    <3>2. \A t \in TaskId : ~Alive(t)'
      BY <2>0, <2>2, <3>1 DEF IInv, OnlyCurrentLives, Alive
    <3>3. QED
      BY <3>2 DEF HealthyIsFresh, Healthy
  <2>3. QED
    BY <2>1, <2>2
<1>8. CASE Decide
  <2>1. CASE Stale
    BY <1>7, <1>8, <2>1 DEF Decide
  <2>2. CASE ~Stale
    <3>1. ticker' = ticker /\ age' = age /\ sup'.pc = "health"
      BY <1>8, <2>2 DEF Decide
    <3>2. QED
      BY <3>1, SupervisorKeepsFresh
  <2>3. QED
    BY <2>1, <2>2
<1>9. CASE Replace
  <2>1. PICK t \in TaskId : /\ ~Alive(t) /\ t # current
                            /\ ticker' = [ticker EXCEPT ![t] = Task("spawned")]
    BY <1>9 DEF Replace, Spawn
  <2>2. \A u \in TaskId : ~Alive(u)
    BY <1>9 DEF Replace, IInv, OnlyCurrentLives
  <2>3. \A u \in TaskId \ {t} : ~Alive(u)'
    BY <1>b, <2>1, <2>2 DEF Alive
  <2>4. sup'.pc = "health" /\ ticker'[t].pc = "spawned" /\ ~ticker'[t].wedged
    BY <1>9, <1>b, <2>1 DEF Replace, Task
  <2>5. QED
    BY <2>3, <2>4 DEF HealthyIsFresh, Healthy, FreshFor
<1>10. CASE DoNotReplace
  BY <1>10, SupervisorKeepsFresh DEF DoNotReplace
<1>11. CASE Health
  <2>1. sup'.pc = "asleep" /\ sup'.left > 0
    BY <1>11, ConstantTypes DEF Health, Asleep
  <2>2. QED
    BY <1>11, <2>1, SupervisorKeepsFresh DEF Health
<1>12. CASE StopSupervisor
  BY <1>7, <1>12 DEF StopSupervisor
<1>13. CASE Close
  BY <1>13, SupervisorKeepsFresh DEF Close
<1>14. CASE Pass
  BY <1>14, PassKeepsFresh
<1>15. CASE UNCHANGED vars
  BY <1>15, SupervisorKeepsFresh DEF vars
<1>16. QED
  BY <1>1, <1>2, <1>3, <1>5, <1>6, <1>8, <1>9, <1>10, <1>11, <1>12, <1>13, <1>14, <1>15
  DEF Next, TickerStep, SupervisorStep

\* The only step that cancels while the lifespan is up is a decision on a
\* stale age, which no fresh ticker has.
LEMMA FreshIsSpared ==
  ASSUME IInv, HealthyIsFresh, [Next]_vars, NEW t \in TaskId,
         ~ticker[t].cancelled, ticker'[t].cancelled, phase' = "up"
  PROVE  ~ticker[t].well
<1>a. \A u \in TaskId : ticker[u] \in TickerState
  BY DEF IInv, TypeOK
<1>b. age \in Nat /\ ticker \in [TaskId -> TickerState]
  BY ConstantTypes DEF IInv, TypeOK
<1>1. Decide
  <2>1. ASSUME NEW u \in TaskId, TickerStep(u) \/ End(u) \/ LoseCancellation(u) PROVE FALSE
    <3>1. ASSUME NEW s, ticker' = [ticker EXCEPT ![u] = s], ~s.cancelled \/ s.cancelled = ticker[u].cancelled
          PROVE FALSE
      BY <3>1, <1>b
    <3>2. ~StartTick(u).cancelled \/ StartTick(u).cancelled = ticker[u].cancelled
      BY <1>a DEF StartTick, TickerState
    <3>3. \A well \in BOOLEAN : Paused(u, well).cancelled = ticker[u].cancelled
      BY <1>a DEF Paused, TickerState
    <3>4. CASE FirstTurn(u) \/ Wake(u)
      BY <3>1, <3>2, <3>4 DEF FirstTurn, Wake
    <3>5. CASE CompleteTick(u)
      <4>1. (ticker[u].spent <= MaxTick) \in BOOLEAN
        OBVIOUS
      <4>2. QED
        BY <3>1, <3>3, <3>5, <4>1 DEF CompleteTick
    <3>6. CASE RaiseTick(u)
      BY <3>1, <3>3, <3>6 DEF RaiseTick
    <3>7. CASE Wedge(u)
      <4> DEFINE w == [ticker[u] EXCEPT !.wedged = TRUE, !.well = FALSE]
      <4>1. w.cancelled = ticker[u].cancelled
        BY <1>a DEF TickerState
      <4>2. ticker' = [ticker EXCEPT ![u] = w]
        BY <3>7, <1>b DEF Wedge
      <4>3. QED
        BY <3>1, <4>1, <4>2
    <3>8. CASE End(u)
      <4>1. ~Task("done").cancelled
        BY DEF Task
      <4>2. QED
        BY <3>1, <3>8, <4>1 DEF End
    <3>9. CASE LoseCancellation(u)
      <4>1. ~[Paused(u, FALSE) EXCEPT !.cancelled = FALSE].cancelled
        BY <1>a DEF Paused, TickerState
      <4>2. QED
        BY <3>1, <3>9, <4>1 DEF LoseCancellation
    <3>10. QED
      BY <2>1, <3>4, <3>5, <3>6, <3>7, <3>8, <3>9 DEF TickerStep
  <2>2. ~Replace
    <3>1. ASSUME NEW u \in TaskId, ticker' = [ticker EXCEPT ![u] = Task("spawned")] PROVE FALSE
      BY <3>1, <1>b DEF Task
    <3>2. QED
      BY <3>1 DEF Replace, Spawn
  <2>3. ~Pass
    <3>1. ASSUME Pass PROVE ticker'[t].cancelled = ticker[t].cancelled
      BY <3>1, <1>a DEF Pass, TickerState
    <3>2. QED
      BY <3>1
  <2>4. QED
    BY <2>1, <2>2, <2>3
    DEF Next, SupervisorStep, vars, DoNotReplace, Health, StopSupervisor, Close
<1>2. Stale /\ sup.pc = "asleep" /\ sup.left = 0 /\ ticker' = Cancelled(current)
  BY <1>1 DEF Decide
<1>3. Alive(t)
  <2>1. Alive(current)
    BY <1>2 DEF Cancelled
  <2>2. t = current
    BY <1>2, <1>b, <2>1 DEF Cancelled
  <2>3. QED
    BY <2>1, <2>2
<1>4. ASSUME ticker[t].well PROVE FALSE
  <2>1. FreshFor(t)
    BY <1>3, <1>4 DEF HealthyIsFresh, Healthy
  <2>2. ticker[t].pc \in {"asleep", "ticking"}
    BY <1>2, <1>3, <2>1 DEF FreshFor, Alive
  <2>3. ticker[t].left \in Nat /\ ticker[t].spent \in Nat
    BY <1>a, ConstantTypes DEF TickerState
  <2>4. age <= 2 * MaxTick + Interval
    BY <1>b, <2>1, <2>2, <2>3, ConstantTypes DEF FreshFor
  <2>5. QED
    BY <1>2, <1>b, <2>4, ConstantTypes, SupervisorAssumption DEF Stale
<1>5. QED
  BY <1>4

\* A ticker whose last tick completed in time and which is not wedged is never
\* cancelled by the supervisor: for every tick bound and pause that fit twice,
\* and once, into TICK_RESTART_NS.
THEOREM HealthySpared == Spec => HealthyLeftAlone
<1>1. Spec => []HealthyIsFresh
  <2>1. Init => HealthyIsFresh
    BY InitFresh
  <2>2. QED
    BY <2>1, Inductive, StepKeepsFresh, PTL DEF Spec
<1>2. IInv /\ HealthyIsFresh /\ [Next]_vars =>
        [\A t \in TaskId :
           ~ticker[t].cancelled /\ ticker'[t].cancelled /\ phase' = "up" => ~ticker[t].well]_vars
  BY FreshIsSpared
<1>3. QED
  BY <1>1, <1>2, Inductive, PTL DEF Spec, HealthyLeftAlone
=============================================================================
