--------------------------- MODULE SchedulersProofs ---------------------------
(***************************************************************************)
(* Proofs about Schedulers for any intervals, offsets, limits of age,      *)
(* lengths of runs and failures: runs stay on the phase of their interval, *)
(* a forecast works on weather of its own boundary, and the health report  *)
(* tells what the scaler will find.                                        *)
(***************************************************************************)
EXTENDS Schedulers, TLAPS

-----------------------------------------------------------------------------
(* Arithmetic modulo an interval.                                          *)

\* Quotient and remainder.
LEMMA ModDef ==
  ASSUME NEW a \in Int, NEW b \in Nat \ {0}
  PROVE  a % b \in 0..(b - 1) /\ a \div b \in Int /\ a = b * (a \div b) + (a % b)
  OBVIOUS

\* A remainder of 0 is divisibility.
LEMMA ModZero ==
  ASSUME NEW a \in Int, NEW b \in Nat \ {0}
  PROVE  a % b = 0 <=> \E k \in Int : a = b * k
<1>1. a % b = 0 => a = b * (a \div b)
  BY ModDef
<1>2. ASSUME NEW k \in Int, a = b * k PROVE a % b = 0
  BY <1>2
<1> QED  BY <1>1, <1>2, ModDef

\* Sums of multiples.
LEMMA ModSum ==
  ASSUME NEW a \in Int, NEW c \in Int, NEW d \in Int, NEW b \in Nat \ {0},
         a % b = 0, c % b = 0, d = a + c
  PROVE  d % b = 0
<1>1. PICK k \in Int : a = b * k
  BY ModZero
<1>2. PICK l \in Int : c = b * l
  BY ModZero
<1>3. d = b * (k + l) /\ k + l \in Int
  BY <1>1, <1>2
<1>4. \E m \in Int : d = b * m
  BY <1>3, Zenon
<1> QED  BY <1>4, ModZero

\* What a multiple leaves of a multiple.
LEMMA ModDifference ==
  ASSUME NEW a \in Int, NEW c \in Int, NEW d \in Int, NEW b \in Nat \ {0},
         a % b = 0, c % b = 0, d = a - c
  PROVE  d % b = 0
<1>1. PICK k \in Int : a = b * k
  BY ModZero
<1>2. PICK l \in Int : c = b * l
  BY ModZero
<1>3. d = b * (k - l) /\ k - l \in Int
  BY <1>1, <1>2
<1>4. \E m \in Int : d = b * m
  BY <1>3, Zenon
<1> QED  BY <1>4, ModZero

\* The time to the next multiple.
LEMMA ModRest ==
  ASSUME NEW a \in Int, NEW b \in Nat \ {0}
  PROVE  LET r == (b - (a % b)) % b IN r \in 0..(b - 1) /\ (a + r) % b = 0
<1> DEFINE m == a % b
<1>1. m \in 0..(b - 1) /\ a \div b \in Int /\ a = b * (a \div b) + m
  BY ModDef
<1> HIDE DEF m
<1>2. CASE m = 0
  <2>1. (b - m) % b = 0
    BY <1>2
  <2>2. a % b = 0
    BY <1>2 DEF m
  <2> QED  BY <2>1, <2>2 DEF m
<1>3. CASE m # 0
  <2>1. b - m \in 0..(b - 1)
    BY <1>1, <1>3
  <2>2. (b - m) % b = b - m
    BY <2>1
  <2>3. a + (b - m) = b * ((a \div b) + 1)
    BY <1>1
  <2>4. \E k \in Int : a + (b - m) = b * k
    <3>1. (a \div b) + 1 \in Int
      BY <1>1
    <3> QED  BY <2>3, <3>1, Zenon
  <2>5. a + (b - m) \in Int
    BY <1>1
  <2>6. (a + (b - m)) % b = 0
    BY <2>4, <2>5, ModZero
  <2> QED  BY <2>1, <2>2, <2>6 DEF m
<1> QED  BY <1>2, <1>3

\* A clock that turns over.
LEMMA ClockTurns ==
  ASSUME NEW n \in Nat \ {0}, NEW c \in 0..(n - 1)
  PROVE  (c + 1) % n \in 0..(n - 1) /\ (c + 1) % n = IF c + 1 = n THEN 0 ELSE c + 1
  OBVIOUS

\* A multiple is no smaller.
LEMMA ModSmaller == ASSUME NEW n \in Nat \ {0}, NEW b \in Nat \ {0}, n % b = 0 PROVE b <= n
<1>1. PICK k \in Int : n = b * k
  BY ModZero
<1>2. k >= 1
  <2>1. k < 1 => b * k <= 0
    OBVIOUS
  <2> QED  BY <1>1, <2>1
<1>3. b * k >= b
  BY <1>2
<1> QED  BY <1>1, <1>3

\* Multiples leave gaps.
LEMMA ModGap ==
  ASSUME NEW a \in Int, NEW b \in Nat \ {0}, a % b = 0
  PROVE  a <= -b \/ a = 0 \/ a >= b
<1>1. PICK k \in Int : a = b * k
  BY ModZero
<1>2. k >= 1 => b * k >= b
  OBVIOUS
<1>3. k <= -1 => b * k <= -b
  OBVIOUS
<1>4. k = 0 => b * k = 0
  OBVIOUS
<1> QED  BY <1>1, <1>2, <1>3, <1>4

-----------------------------------------------------------------------------
(* The schedulers by name.                                                 *)

USE SchedulersAssumption

\* There are four of them.
LEMMA SchedulesAre ==
  /\ Schedules = {"weather", "forecast", "traffic", "accuracy"}
  /\ Aligned \subseteq Schedules /\ Listed \subseteq Schedules
  /\ \A p \in Pods : Tasks(p) \subseteq Schedules
  BY DEF Schedules, Pods, Tasks, Aligned, Listed

\* The hour is a part of the interval.
LEMMA HourFits == Hour <= Interval /\ MaxRun < Interval /\ Interval % Interval = 0
<1>1. Hour <= Interval
  BY ModSmaller
<1>2. Interval % Interval = 0
  <2>1. Interval = Interval * 1
    OBVIOUS
  <2> QED  BY <2>1, ModZero
<1> QED  BY <1>1, <1>2

\* Intervals and offsets, and that a run fits into the interval of a task
\* that is aligned.
LEMMA EveryType ==
  /\ \A s \in Schedules : Every[s] \in Nat \ {0}
  /\ \A s \in Aligned : /\ Offset[s] \in 0..(Every[s] - 1) /\ Interval % Every[s] = 0
                        /\ MaxRun < Every[s]
<1>1. /\ Every["weather"] = Interval /\ Every["forecast"] = Interval
      /\ Every["traffic"] = Short /\ Every["accuracy"] = Hour
      /\ Offset["weather"] = 0 /\ Offset["forecast"] = ForecastOffset
      /\ Offset["accuracy"] = CheckOffset
  BY DEF Every, Offset
<1> QED  BY <1>1, SchedulesAre, HourFits DEF Aligned

-----------------------------------------------------------------------------
(* Type correctness.                                                       *)

\* The variables of run_loop, and the rest.
LoopType ==
  /\ clock \in 0..(Interval - 1)
  /\ pc \in [Schedules -> {"off", "sleep", "run"}]
  /\ left \in [Schedules -> Nat] /\ \A s \in Schedules : left[s] <= Every[s]
  /\ ran \in [Schedules -> 0..MaxRun]
  /\ slip \in [Aligned -> 0..MaxFaults]

WorkType ==
  /\ err \in [Schedules -> {None, "text", "empty"}]
  /\ rows \in 0..Oldest \union {None} /\ doc \in 0..Oldest \union {None}
  /\ missed \in BOOLEAN /\ lapse \in BOOLEAN
  /\ faults \in 0..MaxFaults

\* TypeOK in its parts.
LEMMA TypeParts == (TypeOK <=> LoopType /\ WorkType) /\ (LoopType' /\ WorkType' => TypeOK')
  BY DEF TypeOK, LoopType, WorkType

\* A failure is counted up to its bound.
LEMMA FaultType == ASSUME faults \in 0..MaxFaults, Fault PROVE faults' \in 0..MaxFaults
  BY DEF Fault

\* Ages are natural numbers, and Oldest is no limit to two intervals.
LEMMA OldestType ==
  /\ Oldest \in Nat /\ 2 * Interval < Oldest /\ MaxRun < Oldest /\ 0 \in 0..Oldest
<1>1. Interval \in Nat /\ WeatherMaxAge \in Nat /\ 2 * Interval \in Nat
  OBVIOUS
<1>2. Oldest \in Nat /\ 2 * Interval < Oldest
  BY <1>1 DEF Oldest
<1> QED  BY <1>1, <1>2, HourFits

\* An age grows by one at most.
LEMMA OlderType ==
  ASSUME NEW age \in 0..Oldest \union {None}
  PROVE  /\ Older(age) \in 0..Oldest \union {None}
         /\ age = None <=> Older(age) = None
         /\ age # None => age \in Nat /\ Older(age) \in Nat /\ Older(age) <= age + 1
  BY OldestType DEF Older

\* The sleep before the first run ends on the phase.
LEMMA BoundaryPhase ==
  ASSUME LoopType, NEW s \in Schedules
  PROVE  /\ Boundary(s) \in 0..Every[s]
         /\ s \in Aligned => (clock - Offset[s] + Boundary(s)) % Every[s] = 0
<1>1. CASE s \in Aligned
  <2> DEFINE x == clock - Offset[s]
  <2>1. x \in Int /\ Every[s] \in Nat \ {0}
    BY <1>1, EveryType DEF LoopType
  <2>2. Boundary(s) = (Every[s] - (x % Every[s])) % Every[s]
    BY <1>1 DEF Boundary
  <2> HIDE DEF x
  <2>3. Boundary(s) \in 0..(Every[s] - 1) /\ (x + Boundary(s)) % Every[s] = 0
    BY <2>1, <2>2, ModRest
  <2> QED  BY <2>1, <2>3 DEF x
<1>2. CASE s \notin Aligned
  BY <1>2, EveryType DEF Boundary
<1> QED  BY <1>1, <1>2

\* The sleep after a run is what the interval leaves.
LEMMA PauseType ==
  ASSUME LoopType, NEW s \in Schedules
  PROVE  /\ Pause(s) \in Nat /\ Pause(s) <= Every[s]
         /\ s \in Aligned => Pause(s) = Every[s] - ran[s] /\ Pause(s) > 0
  BY EveryType DEF Pause, LoopType

\* What run_loop does after a run.
LEMMA RestStep ==
  ASSUME LoopType, NEW s \in Schedules, Rest(s)
  PROVE  /\ LoopType' /\ clock' = clock /\ slip' = slip
         /\ pc[s] = "run"
         /\ \A t \in Schedules : /\ pc'[t] = IF t = s THEN "sleep" ELSE pc[t]
                                 /\ left'[t] = IF t = s THEN Pause(s) ELSE left[t]
                                 /\ ran'[t] = IF t = s THEN 0 ELSE ran[t]
<1>1. 0 \in 0..MaxRun
  OBVIOUS
<1> QED  BY <1>1, PauseType DEF Rest, LoopType

\* Time passes for everybody.
LEMMA PassStep ==
  ASSUME LoopType, WorkType, Pass
  PROVE  /\ clock' \in 0..(Interval - 1)
         /\ clock' = IF clock + 1 = Interval THEN 0 ELSE clock + 1
         /\ pc' = pc /\ err' = err /\ lapse' = lapse
         /\ left' \in [Schedules -> Nat] /\ ran' \in [Schedules -> 0..MaxRun]
         /\ \A s \in Schedules :
              /\ left'[s] <= Every[s]
              /\ left'[s] = IF pc[s] = "sleep" /\ left[s] > 0 THEN left[s] - 1 ELSE left[s]
              /\ ran'[s] = IF pc[s] = "run" THEN ran[s] + 1 ELSE ran[s]
         /\ rows' = Older(rows) /\ doc' = Older(doc)
         /\ rows' \in 0..Oldest \union {None} /\ doc' \in 0..Oldest \union {None}
<1>1. clock' \in 0..(Interval - 1) /\ clock' = IF clock + 1 = Interval THEN 0 ELSE clock + 1
  BY ClockTurns DEF Pass, LoopType
<1>2. /\ pc' = pc /\ err' = err /\ lapse' = lapse
      /\ rows' = Older(rows) /\ doc' = Older(doc)
  BY DEF Pass
<1>3. rows' \in 0..Oldest \union {None} /\ doc' \in 0..Oldest \union {None}
  BY <1>2, OlderType DEF WorkType
<1>4. /\ left' = [s \in Schedules |->
                    IF pc[s] = "sleep" /\ left[s] > 0 THEN left[s] - 1 ELSE left[s]]
      /\ ran' = [s \in Schedules |-> IF pc[s] = "run" THEN ran[s] + 1 ELSE ran[s]]
  BY DEF Pass
<1>5. \A s \in Schedules : /\ left'[s] \in Nat /\ left'[s] <= Every[s]
                           /\ ran'[s] \in 0..MaxRun
  <2> SUFFICES ASSUME NEW s \in Schedules
               PROVE  left'[s] \in Nat /\ left'[s] <= Every[s] /\ ran'[s] \in 0..MaxRun
    OBVIOUS
  <2>1. left[s] \in Nat /\ left[s] <= Every[s] /\ ran[s] \in 0..MaxRun /\ Every[s] \in Nat
    BY EveryType DEF LoopType
  <2>2. left'[s] \in Nat /\ left'[s] <= Every[s]
    BY <1>4, <2>1
  <2>3. pc[s] = "run" => ran[s] < MaxRun
    BY DEF Pass
  <2> QED  BY <1>4, <2>1, <2>2, <2>3
<1> QED  BY <1>1, <1>2, <1>3, <1>4, <1>5

\* A run of s ends, whatever its outcome.
RunEnds(s) == Run(s) \/ (s = "weather" /\ CollectNothing) \/ RunError(s)

\* The kinds of steps.
LEMMA Kinds ==
  Next <=> \/ Tick \/ LateTick
           \/ \E p \in Pods : Start(p) \/ Stop(p)
           \/ \E s \in Schedules : Wake(s) \/ RunEnds(s)
  BY SchedulesAre DEF Next, Trouble, RunEnds

\* Whatever the outcome, run_loop goes to sleep.
LEMMA RunEndsStep ==
  ASSUME LoopType, WorkType, NEW s \in Schedules, RunEnds(s)
  PROVE  /\ Rest(s) /\ WorkType' /\ faults' \in Nat /\ faults' >= faults
         /\ \A t \in Schedules : t # s => err'[t] = err[t]
         /\ s # "weather" => rows' = rows /\ missed' = missed
         /\ s # "forecast" => doc' = doc /\ lapse' = lapse
<1> USE DEF WorkType
<1>1. \A n \in 0..ran["forecast"] : n \in 0..Oldest
  BY OldestType, SchedulesAre DEF LoopType
<1>2. 0 \in 0..Oldest
  BY OldestType
<1>3. /\ Rest(s)
      /\ \E e \in {None, "text", "empty"} : err' = [err EXCEPT ![s] = e]
  BY DEF RunEnds, Run, CollectWeather, CollectNothing, ForecastRun, ForecastNothing, PlainRun,
         RunError, Rest, Succeeded, Failed
<1>4. faults' = faults \/ Fault
  BY DEF RunEnds, Run, CollectWeather, CollectNothing, ForecastRun, ForecastNothing, PlainRun,
         RunError
<1>5. faults' \in 0..MaxFaults /\ faults' >= faults
  BY <1>4 DEF Fault
<1>6. /\ rows' = rows \/ rows' \in Rows
      /\ missed' \in BOOLEAN
      /\ s # "weather" => rows' = rows /\ missed' = missed
  BY DEF RunEnds, Run, CollectWeather, CollectNothing, ForecastRun, ForecastNothing, PlainRun,
         RunError
<1>9. rows' \in 0..Oldest \union {None}
  BY <1>2, <1>6, OldestType, SchedulesAre DEF Rows, LoopType
<1>7. /\ UNCHANGED <<doc, lapse>> \/ Publish
      /\ s # "forecast" => doc' = doc /\ lapse' = lapse
  BY DEF RunEnds, Run, CollectWeather, CollectNothing, ForecastRun, ForecastNothing, PlainRun,
         RunError
<1>8. doc' \in 0..Oldest \union {None} /\ lapse' \in BOOLEAN
  BY <1>1, <1>7 DEF Publish
<1> QED  BY <1>3, <1>5, <1>6, <1>7, <1>8, <1>9

\* The initial state.
LEMMA TypeInit == Init => TypeOK
<1> SUFFICES ASSUME Init PROVE TypeOK
  OBVIOUS
<1>1. 0 \in 0..MaxRun /\ 0 \in 0..MaxFaults
  OBVIOUS
<1>2. LoopType
  BY <1>1, EveryType DEF Init, LoopType
<1>3. WorkType
  BY <1>1 DEF Init, WorkType
<1> QED  BY <1>2, <1>3, TypeParts

\* Every step.
LEMMA TypeNext == ASSUME TypeOK, InPhase, [Next]_vars PROVE TypeOK'
<1>1. LoopType /\ WorkType
  BY TypeParts
<1>2. LoopType' /\ WorkType'
  <2>1. ASSUME NEW p \in Pods, Start(p) PROVE LoopType' /\ WorkType'
    <3>1. \A s \in Schedules : Boundary(s) \in Nat /\ Boundary(s) <= Every[s]
      BY <1>1, BoundaryPhase, EveryType
    <3>2. LoopType'
      BY <1>1, <2>1, <3>1 DEF Start, LoopType
    <3> QED  BY <1>1, <2>1, <3>2 DEF Start, WorkType, report
  <2>2. ASSUME NEW s \in Schedules, Wake(s) PROVE LoopType' /\ WorkType'
    BY <1>1, <2>2 DEF Wake, LoopType, WorkType, report
  <2>3. ASSUME NEW s \in Schedules, RunEnds(s) PROVE LoopType' /\ WorkType'
    BY <1>1, <2>3, RunEndsStep, RestStep
  <2>4. CASE Tick
    BY <1>1, <2>4, PassStep DEF Tick, LoopType, WorkType
  <2>5. CASE LateTick
    <3>1. faults' \in 0..MaxFaults /\ faults' = faults + 1
      BY <1>1, <2>5 DEF LateTick, Fault, WorkType
    <3>2. slip' = [s \in Aligned |-> IF s \in Due THEN slip[s] + 1 ELSE slip[s]]
      BY <2>5 DEF LateTick
    <3>3. \A s \in Aligned : slip'[s] \in 0..MaxFaults
      BY <1>1, <3>1, <3>2 DEF LoopType, WorkType, InPhase
    <3>4. missed' \in BOOLEAN
      BY <1>1, <2>5 DEF LateTick, WorkType
    <3>5. Pass
      BY <2>5 DEF LateTick
    <3> QED  BY <1>1, <3>1, <3>2, <3>3, <3>4, <3>5, PassStep DEF LoopType, WorkType
  <2>6. ASSUME NEW p \in Pods, Stop(p) PROVE LoopType' /\ WorkType'
    <3>1. 0 \in 0..MaxRun /\ 0 \in 0..MaxFaults /\ 0 \in 0..Oldest
      BY OldestType
    <3>2. LoopType'
      BY <1>1, <2>6, <3>1, EveryType DEF Stop, LoopType
    <3>3. faults' \in 0..MaxFaults
      BY <1>1, <2>6, FaultType DEF Stop, WorkType
    <3>4. rows' = rows \/ rows' \in Rows
      BY <2>6 DEF Stop
    <3>5. rows' \in 0..Oldest \union {None}
      BY <1>1, <3>4, OldestType, SchedulesAre DEF Rows, LoopType, WorkType
    <3>6. doc' \in 0..Oldest \union {None}
      BY <1>1, <2>6, <3>1 DEF Stop, WorkType
    <3>7. missed' \in BOOLEAN /\ lapse' \in BOOLEAN
      BY <1>1, <2>6 DEF Stop, WorkType
    <3>8. err' \in [Schedules -> {None, "text", "empty"}]
      BY <1>1, <2>6 DEF Stop, WorkType
    <3> QED  BY <1>1, <2>6, <3>2, <3>3, <3>5, <3>6, <3>7, <3>8 DEF WorkType
  <2>7. CASE UNCHANGED vars
    BY <1>1, <2>7 DEF vars, LoopType, WorkType
  <2> QED  BY <2>1, <2>2, <2>3, <2>4, <2>5, <2>6, <2>7, Kinds
<1> QED  BY <1>2, TypeParts

-----------------------------------------------------------------------------
(* InPhase and PodsWhole.                                                  *)

\* Where the run of s began, or will begin, on a clock that was never late.
Moment(s) ==
  clock + (IF pc[s] = "sleep" THEN left[s] ELSE -ran[s]) - slip[s] - Offset[s]

\* InPhase is about that moment.
LEMMA MomentPhase ==
  ASSUME LoopType, InPhase, NEW s \in Aligned
  PROVE  /\ Moment(s) \in Int /\ Every[s] \in Nat \ {0} /\ slip[s] <= faults
         /\ pc[s] # "off" => Moment(s) % Every[s] = 0
         /\ pc[s] = "off" => slip[s] = 0
<1>1. /\ s \in Schedules /\ Every[s] \in Nat \ {0}
      /\ clock \in Int /\ left[s] \in Int /\ ran[s] \in Int /\ slip[s] \in Int /\ Offset[s] \in Int
      /\ pc[s] \in {"off", "sleep", "run"}
  BY EveryType, SchedulesAre DEF LoopType
<1> QED  BY <1>1 DEF Moment, InPhase, Phase

\* And so after a step.
LEMMA NextMoments ==
  ASSUME LoopType',
         \A s \in Aligned :
           /\ pc'[s] # "off" => Moment(s)' % Every[s] = 0
           /\ pc'[s] = "off" => slip'[s] = 0
           /\ slip'[s] <= faults'
  PROVE  InPhase'
  BY DEF Moment, InPhase, Phase

\* A moment that moves by whole intervals stays on the phase.
LEMMA MomentMoves ==
  ASSUME NEW s \in Aligned, NEW x \in Int, NEW y \in Int, x % Every[s] = 0,
         y \in {x, x + Every[s], x - Interval}
  PROVE  y % Every[s] = 0
<1>1. Every[s] \in Nat \ {0} /\ Interval % Every[s] = 0 /\ Every[s] \in Int /\ Interval \in Int
  BY EveryType, SchedulesAre
<1>2. Every[s] % Every[s] = 0
  <2>1. Every[s] = Every[s] * 1
    BY <1>1
  <2> QED  BY <1>1, <2>1, ModZero
<1>3. CASE y = x
  BY <1>3
<1>4. CASE y = x + Every[s]
  BY <1>1, <1>2, <1>4, ModSum
<1>5. CASE y = x - Interval
  BY <1>1, <1>5, ModDifference
<1> QED  BY <1>3, <1>4, <1>5

\* Steps of the loop.
LEMMA PhaseLoop ==
  ASSUME LoopType, LoopType', WorkType, InPhase, PodsWhole, NEW s \in Schedules,
         Wake(s) \/ RunEnds(s)
  PROVE  InPhase'
<1> SUFFICES ASSUME NEW t \in Aligned
             PROVE  /\ pc'[t] # "off" => Moment(t)' % Every[t] = 0
                    /\ pc'[t] = "off" => slip'[t] = 0
                    /\ slip'[t] <= faults'
  BY NextMoments
<1>1. /\ t \in Schedules /\ clock \in Int /\ left[t] \in Int /\ ran[t] \in Int
      /\ slip[t] \in Int /\ Offset[t] \in Int /\ Every[t] \in Int /\ faults \in Int
  BY EveryType, SchedulesAre DEF LoopType, WorkType
<1>2. CASE Wake(s)
  <2>1. /\ clock' = clock /\ left' = left /\ ran' = ran /\ slip' = slip /\ faults' = faults
        /\ pc'[t] = IF t = s THEN "run" ELSE pc[t]
    BY <1>1, <1>2 DEF Wake, LoopType
  <2>2. t = s => pc[t] = "sleep" /\ left[t] = 0 /\ ran[t] = 0
    BY <1>2 DEF Wake, PodsWhole
  <2>3. Moment(t)' = Moment(t)
    BY <1>1, <2>1, <2>2 DEF Moment
  <2> QED  BY <2>1, <2>2, <2>3, MomentPhase
<1>3. CASE RunEnds(s)
  <2>1. /\ clock' = clock /\ slip' = slip /\ faults' \in Nat /\ faults' >= faults
        /\ pc[s] = "run"
        /\ pc'[t] = IF t = s THEN "sleep" ELSE pc[t]
        /\ left'[t] = IF t = s THEN Pause(s) ELSE left[t]
        /\ ran'[t] = IF t = s THEN 0 ELSE ran[t]
    BY <1>1, <1>3, RunEndsStep, RestStep
  <2>2. t = s => Pause(s) = Every[t] - ran[t]
    BY PauseType
  <2>3. Moment(t)' = IF t = s THEN Moment(t) + Every[t] ELSE Moment(t)
    BY <1>1, <2>1, <2>2 DEF Moment
  <2>4. Moment(t)' \in Int
    BY <1>1, <2>3, MomentPhase
  <2>5. pc'[t] # "off" => pc[t] # "off"
    BY <2>1
  <2>6. pc'[t] # "off" => Moment(t)' % Every[t] = 0
    BY <2>3, <2>4, <2>5, MomentPhase, MomentMoves
  <2>7. slip'[t] <= faults'
    BY <1>1, <2>1, MomentPhase
  <2> QED  BY <2>1, <2>6, <2>7, MomentPhase
<1> QED  BY <1>2, <1>3

\* A minute later the moment is the same, or a turn of the clock earlier.
LEMMA MomentSum ==
  ASSUME NEW c \in Int, NEW d, NEW a \in Int, NEW b \in Int, NEW m \in Int, NEW n \in Int,
         NEW o \in Int, NEW turn \in Int,
         d = c + 1 \/ d = c + 1 - turn, b - n = a - m - 1
  PROVE  d + b - n - o \in {c + a - m - o, c + a - m - o - turn}
OBVIOUS

\* Time.
LEMMA PhasePass ==
  ASSUME LoopType, LoopType', WorkType, InPhase, Tick \/ LateTick
  PROVE  InPhase'
<1> SUFFICES ASSUME NEW t \in Aligned
             PROVE  /\ pc'[t] # "off" => Moment(t)' % Every[t] = 0
                    /\ pc'[t] = "off" => slip'[t] = 0
                    /\ slip'[t] <= faults'
  BY NextMoments
<1>1. /\ t \in Schedules /\ clock \in Int /\ left[t] \in Nat /\ ran[t] \in Int
      /\ slip[t] \in Int /\ Offset[t] \in Int /\ Every[t] \in Int /\ faults \in Int
      /\ pc[t] \in {"off", "sleep", "run"}
  BY EveryType, SchedulesAre DEF LoopType, WorkType
<1>2. Pass
  BY DEF Tick, LateTick
<1>3. /\ clock' = IF clock + 1 = Interval THEN 0 ELSE clock + 1
      /\ pc' = pc
      /\ left'[t] = IF pc[t] = "sleep" /\ left[t] > 0 THEN left[t] - 1 ELSE left[t]
      /\ ran'[t] = IF pc[t] = "run" THEN ran[t] + 1 ELSE ran[t]
  BY <1>1, <1>2, PassStep
<1>4. /\ slip'[t] = IF pc[t] = "sleep" /\ left[t] = 0 THEN slip[t] + 1 ELSE slip[t]
      /\ faults' \in Int /\ faults' >= faults
      /\ slip'[t] # slip[t] => faults' = faults + 1
  <2>1. CASE Tick
    <3>1. t \notin Due /\ slip' = slip /\ faults' = faults
      BY <2>1 DEF Tick
    <3> QED  BY <1>1, <3>1 DEF Due
  <2>2. CASE LateTick
    <3>1. slip' = [s \in Aligned |-> IF s \in Due THEN slip[s] + 1 ELSE slip[s]]
          /\ faults' = faults + 1
      BY <2>2 DEF LateTick, Fault
    <3> QED  BY <1>1, <3>1 DEF Due
  <2> QED  BY <2>1, <2>2
<1>5. pc[t] # "off" => Moment(t)' \in {Moment(t), Moment(t) - Interval}
  <2> DEFINE away == IF pc[t] = "sleep" THEN left[t] ELSE -ran[t]
  <2>1. clock' = clock + 1 \/ clock' = clock + 1 - Interval
    BY <1>1, <1>3
  <2>2. away \in Int /\ Interval \in Int
    BY <1>1
  <2>3. pc[t] # "off" => away' - slip'[t] = away - slip[t] - 1
    BY <1>1, <1>3, <1>4
  <2>4. away' \in Int /\ slip'[t] \in Int
    BY <1>1, <1>3, <1>4
  <2>5. Moment(t) = clock + away - slip[t] - Offset[t]
        /\ Moment(t)' = clock' + away' - slip'[t] - Offset[t]
    BY DEF Moment
  <2>6. SUFFICES ASSUME pc[t] # "off"
                 PROVE  Moment(t)' \in {Moment(t), Moment(t) - Interval}
    OBVIOUS
  <2>7. clock' + away' - slip'[t] - Offset[t]
          \in {clock + away - slip[t] - Offset[t], clock + away - slip[t] - Offset[t] - Interval}
    <3> HIDE DEF away
    <3>1. away' - slip'[t] = away - slip[t] - 1
      BY <2>3, <2>6
    <3> QED  BY <1>1, <2>1, <2>2, <2>4, <3>1, MomentSum
  <2> HIDE DEF away
  <2> QED  BY <1>1, <2>2, <2>5, <2>7
<1>6. pc[t] # "off" => Moment(t)' % Every[t] = 0
  BY <1>5, MomentPhase, MomentMoves
<1>7. slip'[t] <= faults'
  BY <1>1, <1>4, MomentPhase
<1> QED  BY <1>1, <1>3, <1>4, <1>6, <1>7, MomentPhase

\* The start and the end of a pod.
LEMMA PhasePods ==
  ASSUME LoopType, LoopType', WorkType, InPhase, NEW p \in Pods, Start(p) \/ Stop(p)
  PROVE  InPhase'
<1> SUFFICES ASSUME NEW t \in Aligned
             PROVE  /\ pc'[t] # "off" => Moment(t)' % Every[t] = 0
                    /\ pc'[t] = "off" => slip'[t] = 0
                    /\ slip'[t] <= faults'
  BY NextMoments
<1>1. /\ t \in Schedules /\ clock \in Int /\ left[t] \in Nat /\ ran[t] \in Int
      /\ slip[t] \in Int /\ Offset[t] \in Int /\ Every[t] \in Int /\ faults \in Nat
  BY EveryType, SchedulesAre DEF LoopType, WorkType
<1>2. CASE Start(p)
  <2>1. /\ clock' = clock /\ ran' = ran /\ slip' = slip /\ faults' = faults
        /\ pc'[t] = IF t \in Tasks(p) THEN "sleep" ELSE pc[t]
        /\ left'[t] = IF t \in Tasks(p) THEN Boundary(t) ELSE left[t]
        /\ t \in Tasks(p) => pc[t] = "off"
    BY <1>1, <1>2 DEF Start
  <2>2. CASE t \in Tasks(p)
    <3>1. slip[t] = 0
      BY <2>1, <2>2, MomentPhase
    <3>2. Boundary(t) \in Int /\ (clock - Offset[t] + Boundary(t)) % Every[t] = 0
      BY <1>1, BoundaryPhase
    <3>3. Moment(t)' = clock - Offset[t] + Boundary(t)
      BY <1>1, <2>1, <2>2, <3>1, <3>2 DEF Moment
    <3> QED  BY <2>1, <2>2, <3>2, <3>3, MomentPhase
  <2>3. CASE t \notin Tasks(p)
    <3>1. Moment(t)' = Moment(t)
      BY <2>1, <2>3 DEF Moment
    <3> QED  BY <2>1, <2>3, <3>1, MomentPhase
  <2> QED  BY <2>2, <2>3
<1>3. CASE Stop(p)
  <2>1. /\ clock' = clock /\ faults' = faults + 1
        /\ pc'[t] = IF t \in Tasks(p) THEN "off" ELSE pc[t]
        /\ left'[t] = IF t \in Tasks(p) THEN 0 ELSE left[t]
        /\ ran'[t] = IF t \in Tasks(p) THEN 0 ELSE ran[t]
        /\ slip'[t] = IF t \in Tasks(p) THEN 0 ELSE slip[t]
    BY <1>1, <1>3 DEF Stop, Fault
  <2>2. CASE t \in Tasks(p)
    BY <1>1, <2>1, <2>2
  <2>3. CASE t \notin Tasks(p)
    <3>1. Moment(t)' = Moment(t)
      BY <2>1, <2>3 DEF Moment
    <3> QED  BY <1>1, <2>1, <2>3, <3>1, MomentPhase
  <2> QED  BY <2>2, <2>3
<1> QED  BY <1>2, <1>3

\* InPhase holds on.
LEMMA PhaseNext ==
  ASSUME TypeOK, TypeOK', InPhase, PodsWhole, [Next]_vars PROVE InPhase'
<1>1. LoopType /\ WorkType /\ LoopType'
  BY TypeParts DEF TypeOK, LoopType
<1>2. CASE UNCHANGED vars
  BY <1>2 DEF vars, InPhase, Phase
<1>3. CASE Next
  BY <1>1, <1>3, Kinds, PhaseLoop, PhasePass, PhasePods
<1> QED  BY <1>2, <1>3

\* PodsWhole holds on.
LEMMA PodsNext == ASSUME TypeOK, PodsWhole, [Next]_vars PROVE PodsWhole'
<1>1. LoopType /\ WorkType
  BY TypeParts
<1>2. \A p \in Pods : \A s \in Tasks(p) : s \in Schedules
  BY SchedulesAre
<1>3. \A p, q \in Pods : \A s : s \in Tasks(p) /\ s \in Tasks(q) => p = q
  BY DEF Pods, Tasks
<1>4. ASSUME NEW s \in Schedules, Wake(s) PROVE PodsWhole'
  BY <1>1, <1>2, <1>4 DEF Wake, PodsWhole, LoopType
<1>5. ASSUME NEW s \in Schedules, RunEnds(s) PROVE PodsWhole'
  BY <1>1, <1>2, <1>5, RunEndsStep, RestStep DEF PodsWhole
<1>6. CASE Tick \/ LateTick
  <2>1. Pass
    BY <1>6 DEF Tick, LateTick
  <2> QED  BY <1>1, <2>1, PassStep DEF PodsWhole
<1>7. ASSUME NEW p \in Pods, Start(p) PROVE PodsWhole'
  BY <1>1, <1>2, <1>3, <1>7 DEF Start, PodsWhole
<1>8. ASSUME NEW p \in Pods, Stop(p) PROVE PodsWhole'
  BY <1>1, <1>2, <1>3, <1>8 DEF Stop, PodsWhole
<1>9. CASE UNCHANGED vars
  BY <1>9 DEF vars, PodsWhole
<1> QED  BY <1>4, <1>5, <1>6, <1>7, <1>8, <1>9, Kinds

-----------------------------------------------------------------------------
(* WeatherKnown and DocKnown.                                              *)

\* The types these two are about, of one task.
LEMMA TaskType ==
  ASSUME LoopType, WorkType, NEW s \in {"weather", "forecast"}
  PROVE  /\ s \in Schedules /\ s \in Aligned /\ Every[s] = Interval
         /\ pc[s] \in {"off", "sleep", "run"} /\ left[s] \in Nat /\ ran[s] \in Nat
         /\ ran[s] <= MaxRun /\ slip[s] \in Nat
         /\ rows # None => rows \in Nat
         /\ doc # None => doc \in Nat
  BY SchedulesAre DEF LoopType, WorkType, Aligned, Every

\* A step of another task.
LEMMA OtherTask ==
  ASSUME LoopType, WorkType, NEW s \in {"weather", "forecast"}, NEW t \in Schedules, t # s,
         Wake(t) \/ RunEnds(t)
  PROVE  /\ pc'[s] = pc[s] /\ left'[s] = left[s] /\ ran'[s] = ran[s] /\ slip' = slip
         /\ err'[s] = err[s]
         /\ s = "weather" => rows' = rows /\ missed' = missed
         /\ s = "forecast" => doc' = doc /\ lapse' = lapse
<1>1. s \in Schedules
  BY TaskType
<1>2. CASE Wake(t)
  BY <1>1, <1>2 DEF Wake, LoopType, report
<1>3. CASE RunEnds(t)
  <2>1. Rest(t) /\ err'[s] = err[s]
    BY <1>1, <1>3, RunEndsStep
  <2>2. CASE s = "weather"
    BY <1>1, <1>3, <2>1, <2>2, RestStep DEF RunEnds, Run, ForecastRun, ForecastNothing, PlainRun,
       RunError
  <2>3. CASE s = "forecast"
    BY <1>1, <1>3, <2>1, <2>3, RestStep, RunEndsStep
  <2> QED  BY <2>2, <2>3
<1> QED  BY <1>2, <1>3

\* Time, for one task.
LEMMA TaskPass ==
  ASSUME LoopType, WorkType, NEW s \in {"weather", "forecast"}, Tick \/ LateTick
  PROVE  /\ pc'[s] = pc[s]
         /\ left'[s] = IF pc[s] = "sleep" /\ left[s] > 0 THEN left[s] - 1 ELSE left[s]
         /\ ran'[s] = IF pc[s] = "run" THEN ran[s] + 1 ELSE ran[s]
         /\ slip'[s] = IF pc[s] = "sleep" /\ left[s] = 0 THEN slip[s] + 1 ELSE slip[s]
         /\ pc["weather"] = "sleep" /\ left["weather"] = 0 => missed'
         /\ missed => missed'
<1>1. /\ s \in Schedules /\ s \in Aligned /\ left[s] \in Nat /\ slip[s] \in Nat
      /\ "weather" \in Schedules
  BY SchedulesAre, TaskType
<1>2. Pass
  BY DEF Tick, LateTick
<1>3. CASE Tick
  <2>1. s \notin Due /\ "weather" \notin Due /\ slip' = slip /\ missed' = missed
    BY <1>3 DEF Tick
  <2> QED  BY <1>1, <1>2, <2>1, PassStep DEF Due
<1>4. CASE LateTick
  <2>1. slip' = [t \in Aligned |-> IF t \in Due THEN slip[t] + 1 ELSE slip[t]]
        /\ missed' = (missed \/ "weather" \in Due)
    BY <1>4 DEF LateTick
  <2>2. missed \/ "weather" \in Due => missed'
    BY <2>1
  <2> QED  BY <1>1, <1>2, <2>1, <2>2, PassStep DEF Due
<1> QED  BY <1>3, <1>4

\* WeatherKnown holds on: the sleep after a run that collected is what the
\* interval leaves, and whatever is late counts as missed.
LEMMA WeatherNext ==
  ASSUME TypeOK, PodsWhole, WeatherKnown, [Next]_vars PROVE WeatherKnown'
<1> SUFFICES ASSUME ~missed'
             PROVE  /\ OnTime' /\ rows' # None /\ pc'["weather"] # "off"
                    /\ pc'["weather"] = "sleep" => rows' + left'["weather"] <= Interval
                    /\ pc'["weather"] = "run" => rows' <= Interval + ran'["weather"]
  BY DEF WeatherKnown
<1>1. LoopType /\ WorkType
  BY TypeParts
<1>2. /\ "weather" \in Schedules /\ Every["weather"] = Interval
      /\ pc["weather"] \in {"off", "sleep", "run"} /\ left["weather"] \in Nat
      /\ ran["weather"] \in Nat /\ ran["weather"] <= MaxRun
      /\ rows # None => rows \in Nat
  BY <1>1, TaskType, SchedulesAre
<1>3. ASSUME /\ pc'["weather"] = pc["weather"] /\ left'["weather"] = left["weather"]
             /\ ran'["weather"] = ran["weather"] /\ slip'["weather"] = slip["weather"]
             /\ rows' = rows /\ missed' = missed
      PROVE  WeatherKnown'
  BY <1>3 DEF WeatherKnown, OnTime
<1>4. CASE Wake("weather")
  <2>1. /\ left["weather"] = 0 /\ pc["weather"] = "sleep" /\ ran["weather"] = 0
        /\ pc'["weather"] = "run" /\ UNCHANGED <<left, ran, slip, rows, missed>>
    BY <1>1, <1>2, <1>4 DEF Wake, LoopType, PodsWhole, report
  <2> QED  BY <1>2, <2>1 DEF WeatherKnown, OnTime
<1>5. CASE RunEnds("weather")
  <2>1. CollectWeather
    BY <1>5 DEF RunEnds, Run, PlainRun, RunError, CollectNothing
  <2>2. OnTime /\ rows' \in 0..ran["weather"]
    BY <2>1 DEF CollectWeather, Rows
  <2>3. /\ slip' = slip /\ pc'["weather"] = "sleep"
        /\ left'["weather"] = Interval - ran["weather"]
    BY <1>1, <1>2, <2>1, RestStep, PauseType DEF CollectWeather, Aligned
  <2>4. rows' \in Nat /\ rows' <= ran["weather"] /\ rows' # None
    BY <1>2, <2>2, NoneAssumption
  <2> QED  BY <1>2, <2>2, <2>3, <2>4 DEF OnTime
<1>6. ASSUME NEW s \in Schedules, s # "weather", Wake(s) \/ RunEnds(s) PROVE WeatherKnown'
  BY <1>1, <1>3, <1>6, OtherTask
<1>7. CASE Tick \/ LateTick
  <2>1. ~missed /\ ~(pc["weather"] = "sleep" /\ left["weather"] = 0)
    BY <1>1, <1>7, TaskPass
  <2>2. rows \in Nat /\ rows' # None /\ rows' \in Nat /\ rows' <= rows + 1
    <3>1. rows # None /\ rows' = Older(rows)
      BY <1>1, <1>7, <2>1, PassStep DEF WeatherKnown, Tick, LateTick
    <3> QED  BY <1>1, <3>1, OlderType DEF WorkType
  <2>3. /\ pc'["weather"] = pc["weather"] /\ slip'["weather"] = slip["weather"]
        /\ pc["weather"] = "sleep" => left'["weather"] = left["weather"] - 1
        /\ pc["weather"] = "run" => ran'["weather"] = ran["weather"] + 1
    BY <1>1, <1>2, <1>7, <2>1, TaskPass
  <2> QED  BY <1>2, <2>1, <2>2, <2>3 DEF WeatherKnown, OnTime
<1>8. ASSUME NEW p \in Pods, Start(p) \/ Stop(p) PROVE WeatherKnown'
  <2>1. missed \/ (Stop(p) /\ p = "weather-cron") => missed'
    BY <1>8 DEF Start, Stop
  <2>2. ~missed /\ pc["weather"] # "off"
    BY <2>1 DEF WeatherKnown
  <2>3. p = "predict"
    BY <1>8, <2>1, <2>2 DEF Start, Stop, Pods, Tasks
  <2>4. "weather" \notin Tasks(p) /\ "weather" \in Aligned
    BY <2>3 DEF Tasks, Aligned
  <2>5. /\ pc'["weather"] = pc["weather"] /\ left'["weather"] = left["weather"]
        /\ ran'["weather"] = ran["weather"] /\ slip'["weather"] = slip["weather"]
        /\ rows' = rows
    BY <1>2, <1>8, <2>3, <2>4 DEF Start, Stop, report
  <2> QED  BY <2>2, <2>5 DEF WeatherKnown, OnTime
<1>9. ASSUME UNCHANGED vars PROVE WeatherKnown'
  BY <1>3, <1>9 DEF vars
<1>10. WeatherKnown' => /\ OnTime' /\ rows' # None /\ pc'["weather"] # "off"
                        /\ pc'["weather"] = "sleep" => rows' + left'["weather"] <= Interval
                        /\ pc'["weather"] = "run" => rows' <= Interval + ran'["weather"]
  BY DEF WeatherKnown
<1> QED  BY <1>4, <1>5, <1>6, <1>7, <1>8, <1>9, <1>10, Kinds

\* DocKnown holds on: the last run published a document no older than
\* itself, or failed with a text.
LEMMA DocNext ==
  ASSUME TypeOK, PodsWhole, DocKnown, [Next]_vars PROVE DocKnown'
<1>1. LoopType /\ WorkType
  BY TypeParts
<1>2. /\ "forecast" \in Schedules /\ Every["forecast"] = Interval
      /\ pc["forecast"] \in {"off", "sleep", "run"} /\ left["forecast"] \in Nat
      /\ ran["forecast"] \in Nat /\ ran["forecast"] <= MaxRun /\ slip["forecast"] \in Nat
      /\ doc # None => doc \in Nat
      /\ err["forecast"] \in {None, "text", "empty"}
      /\ Interval \in Nat
  BY <1>1, TaskType, SchedulesAre DEF WorkType
<1>3. ASSUME /\ pc'["forecast"] = pc["forecast"] /\ left'["forecast"] = left["forecast"]
             /\ ran'["forecast"] = ran["forecast"] /\ slip'["forecast"] = slip["forecast"]
             /\ err'["forecast"] = err["forecast"] /\ doc' = doc /\ lapse' = lapse
      PROVE  DocKnown'
  BY <1>3 DEF DocKnown
<1>4. CASE Wake("forecast")
  <2>1. /\ left["forecast"] = 0 /\ pc["forecast"] = "sleep" /\ ran["forecast"] = 0
        /\ pc'["forecast"] = "run" /\ UNCHANGED <<left, ran, slip, err, doc, lapse>>
    BY <1>1, <1>2, <1>4 DEF Wake, LoopType, PodsWhole, report
  <2> QED  BY <1>2, <2>1 DEF DocKnown
<1>5. CASE RunEnds("forecast")
  <2>1. /\ Rest("forecast")
        /\ \/ err'["forecast"] = None /\ Publish
           \/ err'["forecast"] = "text" /\ (UNCHANGED <<doc, lapse>> \/ Publish)
    BY <1>1, <1>2, <1>5 DEF RunEnds, Run, ForecastRun, ForecastNothing, PlainRun, RunError,
       Succeeded, Failed, WorkType
  <2>2. /\ slip' = slip /\ pc["forecast"] = "run" /\ pc'["forecast"] = "sleep"
        /\ left'["forecast"] = Interval - ran["forecast"]
    BY <1>1, <1>2, <2>1, RestStep, PauseType DEF Aligned
  <2>3. Publish => doc' # None /\ doc' \in Nat /\ doc' <= ran["forecast"]
    BY <1>2 DEF Publish
  <2>4. left'["forecast"] # 0
    BY <1>2, <2>2, HourFits
  <2>5. None # "text" /\ None # "empty"
    BY NoneAssumption
  <2>6. CASE err'["forecast"] = None /\ Publish
    <3>1. doc' + left'["forecast"] <= Interval
      BY <1>2, <2>2, <2>3, <2>6
    <3> QED  BY <2>2, <2>3, <2>4, <2>5, <2>6, <3>1, <1>2 DEF DocKnown
  <2>7. CASE err'["forecast"] = "text" /\ UNCHANGED <<doc, lapse>>
    BY <2>2, <2>5, <2>7 DEF DocKnown
  <2>8. CASE err'["forecast"] = "text" /\ Publish
    BY <2>2, <2>3, <2>5, <2>8 DEF DocKnown
  <2> QED  BY <2>1, <2>6, <2>7, <2>8
<1>6. ASSUME NEW s \in Schedules, s # "forecast", Wake(s) \/ RunEnds(s) PROVE DocKnown'
  BY <1>1, <1>3, <1>6, OtherTask
<1>7. CASE Tick \/ LateTick
  <2>1. doc' = Older(doc) /\ lapse' = lapse /\ err' = err
    BY <1>1, <1>7, PassStep DEF Tick, LateTick
  <2>2. doc # None => doc' # None /\ doc' \in Nat /\ doc' <= doc + 1
    BY <1>1, <2>1, OlderType DEF WorkType
  <2>3. /\ pc'["forecast"] = pc["forecast"]
        /\ left'["forecast"] = IF pc["forecast"] = "sleep" /\ left["forecast"] > 0
                               THEN left["forecast"] - 1 ELSE left["forecast"]
        /\ ran'["forecast"] = IF pc["forecast"] = "run"
                              THEN ran["forecast"] + 1 ELSE ran["forecast"]
        /\ slip'["forecast"] = IF pc["forecast"] = "sleep" /\ left["forecast"] = 0
                               THEN slip["forecast"] + 1 ELSE slip["forecast"]
    BY <1>1, <1>7, TaskPass
  <2>4. CASE lapse
    BY <2>1, <2>4 DEF DocKnown
  <2>5. CASE ~lapse
    <3>1. doc # None /\ doc \in Nat /\ pc["forecast"] # "off"
      BY <1>2, <2>5 DEF DocKnown
    <3>2. CASE pc["forecast"] = "run"
      BY <1>2, <2>1, <2>2, <2>3, <2>5, <3>1, <3>2 DEF DocKnown
    <3>3. CASE pc["forecast"] = "sleep"
      BY <1>2, <2>1, <2>2, <2>3, <2>5, <3>1, <3>3 DEF DocKnown
    <3> QED  BY <1>2, <3>1, <3>2, <3>3
  <2> QED  BY <2>4, <2>5
<1>8. ASSUME NEW p \in Pods, Start(p) \/ Stop(p) PROVE DocKnown'
  <2>1. CASE p = "weather-cron"
    <3>1. "forecast" \notin Tasks(p) /\ "forecast" \in Aligned
      BY <2>1 DEF Tasks, Aligned
    <3>2. lapse => lapse'
      BY <1>8 DEF Start, Stop
    <3>3. /\ pc'["forecast"] = pc["forecast"] /\ left'["forecast"] = left["forecast"]
          /\ ran'["forecast"] = ran["forecast"] /\ slip'["forecast"] = slip["forecast"]
          /\ err'["forecast"] = err["forecast"] /\ doc' = doc
      BY <1>2, <1>8, <2>1, <3>1 DEF Start, Stop, report
    <3> QED  BY <3>2, <3>3 DEF DocKnown
  <2>2. CASE p = "predict"
    <3>1. "forecast" \in Tasks(p)
      BY <2>2 DEF Tasks
    <3>2. CASE Start(p)
      <4>1. pc["forecast"] = "off" /\ lapse' = lapse /\ err' = err
        BY <3>1, <3>2 DEF Start, report
      <4>2. lapse
        BY <4>1 DEF DocKnown
      <4> QED  BY <4>1, <4>2 DEF DocKnown
    <3>3. CASE Stop(p)
      <4>1. p = "predict" => lapse'
        BY <3>3 DEF Stop
      <4>2. err'["forecast"] = None /\ None # "empty"
        BY <1>2, <3>1, <3>3, NoneAssumption DEF Stop
      <4> QED  BY <2>2, <4>1, <4>2 DEF DocKnown
    <3> QED  BY <1>8, <3>2, <3>3
  <2> QED  BY <2>1, <2>2 DEF Pods
<1>9. ASSUME UNCHANGED vars PROVE DocKnown'
  BY <1>3, <1>9 DEF vars
<1> QED  BY <1>4, <1>5, <1>6, <1>7, <1>8, <1>9, Kinds

-----------------------------------------------------------------------------
(* The theorems.                                                           *)

\* Nothing has run yet.
LEMMA InvInit == Init => IInv
<1> SUFFICES ASSUME Init PROVE IInv
  OBVIOUS
<1>1. TypeOK
  BY TypeInit
<1>2. InPhase
  BY SchedulesAre DEF Init, InPhase
<1>3. PodsWhole
  BY SchedulesAre DEF Init, PodsWhole
<1>4. WeatherKnown
  BY DEF Init, WeatherKnown
<1>5. DocKnown
  BY SchedulesAre, NoneAssumption DEF Init, DocKnown
<1> QED  BY <1>1, <1>2, <1>3, <1>4, <1>5 DEF IInv

\* Every step preserves the invariant.
LEMMA InvNext == IInv /\ [Next]_vars => IInv'
<1> SUFFICES ASSUME IInv, [Next]_vars PROVE IInv'
  OBVIOUS
<1>1. TypeOK /\ InPhase /\ PodsWhole /\ WeatherKnown /\ DocKnown
  BY DEF IInv
<1>2. TypeOK'
  BY <1>1, TypeNext
<1>3. InPhase' /\ PodsWhole' /\ WeatherKnown' /\ DocKnown'
  BY <1>1, <1>2, PhaseNext, PodsNext, WeatherNext, DocNext
<1> QED  BY <1>2, <1>3 DEF IInv

\* The inductive invariant holds in every state.
THEOREM Invariance == Spec => []IInv
  BY InvInit, InvNext, PTL DEF Spec

\* Type correctness: among others, no sleep is longer than the interval.
THEOREM TypeCorrect == Spec => []TypeOK
<1>1. IInv => TypeOK
  BY DEF IInv
<1> QED  BY <1>1, Invariance, PTL

\* The moment of a run that goes on.
LEMMA RunMoment ==
  ASSUME LoopType, NEW s \in Aligned, pc[s] = "run"
  PROVE  Moment(s) = clock - ran[s] - slip[s] - Offset[s]
<1>1. /\ clock \in Int /\ ran[s] \in Int /\ slip[s] \in Int /\ Offset[s] \in Int
      /\ Moment(s) = clock + (-ran[s]) - slip[s] - Offset[s]
  BY EveryType, SchedulesAre DEF LoopType, Moment
<1> QED  BY <1>1

\* IntervalScheduler.run_loop: neither the length of the runs nor their
\* failures move a task off its phase.
THEOREM RunsOnPhase == Spec => []OnPhase
<1>1. ASSUME IInv PROVE OnPhase
  <2> SUFFICES ASSUME NEW s \in Aligned, pc[s] = "run"
               PROVE  (clock - ran[s] - slip[s] - Offset[s]) % Every[s] = 0
    BY DEF OnPhase
  <2>1. LoopType /\ InPhase
    BY <1>1, TypeParts DEF IInv
  <2>2. Moment(s) % Every[s] = 0
    BY <2>1, MomentPhase
  <2>3. Moment(s) = clock - ran[s] - slip[s] - Offset[s]
    BY <2>1, RunMoment
  <2> QED  BY <2>2, <2>3
<1>2. IInv => OnPhase
  BY <1>1
<1> QED  BY <1>2, Invariance, PTL

\* weather_align_offset_seconds and prediction_align_offset_seconds: the
\* forecast finds the weather of its own boundary.
THEOREM WeatherIsFresh == Spec => []FreshWeather
<1>1. ASSUME IInv PROVE FreshWeather
  <2> SUFFICES ASSUME pc["forecast"] = "run", ran["forecast"] = 0, ~missed
               PROVE  rows # None /\ rows <= ForecastOffset + slip["forecast"]
    BY DEF FreshWeather
  <2> DEFINE w == slip["weather"]
             f == ForecastOffset + slip["forecast"]
  <2>1. LoopType /\ WorkType /\ InPhase /\ WeatherKnown
    BY <1>1, TypeParts DEF IInv
  <2>2. /\ "weather" \in Aligned /\ "forecast" \in Aligned
        /\ Every["weather"] = Interval /\ Every["forecast"] = Interval
        /\ Offset["weather"] = 0 /\ Offset["forecast"] = ForecastOffset
        /\ Interval \in Nat \ {0} /\ ForecastOffset \in Nat /\ ForecastOffset < Interval
    BY DEF Aligned, Every, Offset
  <2>3. /\ clock \in Nat /\ clock < Interval
        /\ left["weather"] \in Nat /\ ran["weather"] \in Nat /\ ran["weather"] <= MaxRun
        /\ w \in Nat /\ f \in Nat /\ ForecastOffset <= f
        /\ rows # None => rows \in Nat
        /\ pc["weather"] \in {"off", "sleep", "run"}
    BY <2>1, <2>2, TaskType DEF LoopType
  <2>4. rows # None /\ w + MaxRun < ForecastOffset /\ pc["weather"] # "off"
    BY <2>1 DEF WeatherKnown, OnTime
  <2>5. Moment("forecast") = clock - f
    <3>1. slip["forecast"] \in Nat
      BY <2>1, TaskType DEF LoopType
    <3>2. Moment("forecast") = clock - ran["forecast"] - slip["forecast"] - Offset["forecast"]
      BY <2>1, <2>2, RunMoment
    <3> QED  BY <2>2, <2>3, <3>1, <3>2
  <2>6. clock = f \/ clock + Interval <= f
    <3>1. (clock - f) % Interval = 0
      BY <2>1, <2>2, <2>5, MomentPhase
    <3>2. clock - f \in Int /\ clock - f < Interval
      BY <2>2, <2>3
    <3> HIDE DEF f
    <3>3. clock - f <= -Interval \/ clock - f = 0 \/ clock - f >= Interval
      BY <2>2, <3>1, <3>2, ModGap
    <3> QED  BY <2>2, <2>3, <3>2, <3>3
  <2>7. CASE pc["weather"] = "sleep"
    <3>1. rows + left["weather"] <= Interval
      BY <2>1, <2>7 DEF WeatherKnown
    <3>2. Moment("weather") = clock + left["weather"] - w
      BY <2>2, <2>3, <2>7 DEF Moment
    <3>3. (clock + left["weather"] - w) % Interval = 0 /\ clock + left["weather"] - w \in Int
      BY <2>1, <2>2, <2>3, <2>7, <3>2, MomentPhase
    <3> HIDE DEF f, w
    <3>4. \/ clock + left["weather"] - w <= -Interval
          \/ clock + left["weather"] - w = 0
          \/ clock + left["weather"] - w >= Interval
      BY <2>2, <3>3, ModGap
    <3>5. rows <= f
      BY <2>2, <2>3, <2>4, <2>6, <3>1, <3>4
    <3> QED  BY <2>4, <3>5 DEF f
  <2>8. CASE pc["weather"] = "run"
    <3>1. rows <= Interval + ran["weather"]
      BY <2>1, <2>8 DEF WeatherKnown
    <3>2. Moment("weather") = clock - ran["weather"] - w
      BY <2>2, <2>3, <2>8 DEF Moment
    <3>3. (clock - ran["weather"] - w) % Interval = 0 /\ clock - ran["weather"] - w \in Int
      BY <2>1, <2>2, <2>3, <2>8, <3>2, MomentPhase
    <3> HIDE DEF f, w
    <3>4. \/ clock - ran["weather"] - w <= -Interval
          \/ clock - ran["weather"] - w = 0
          \/ clock - ran["weather"] - w >= Interval
      BY <2>2, <3>3, ModGap
    <3>5. rows <= f
      BY <2>2, <2>3, <2>4, <2>6, <3>1, <3>4
    <3> QED  BY <2>4, <3>5 DEF f
  <2> QED  BY <2>3, <2>4, <2>7, <2>8
<1>2. IInv => FreshWeather
  BY <1>1
<1> QED  BY <1>2, Invariance, PTL

\* HealthService and the scaler: while the report is healthy the scaler has
\* a prediction it may use, but for the moments until the next is there.
THEOREM HealthyIsNotBlind == Spec => []BlindNotHealthy
<1>1. ASSUME IInv PROVE BlindNotHealthy
  <2> SUFFICES ASSUME Serving = "healthy", doc > MaxAge, ~lapse, pc["forecast"] # "run"
               PROVE  "forecast" \in Due
    BY DEF BlindNotHealthy
  <2>1. LoopType /\ WorkType /\ DocKnown
    BY <1>1, TypeParts DEF IInv
  <2>2. /\ "forecast" \in Schedules /\ "forecast" \in Listed
        /\ pc["forecast"] \in {"off", "sleep", "run"} /\ left["forecast"] \in Nat
        /\ doc # None => doc \in Nat
        /\ err["forecast"] \in {None, "text", "empty"}
        /\ Interval \in Nat /\ MaxAge \in Nat
    BY <2>1, TaskType DEF WorkType, Listed
  <2>3. CheckSchedulers = "healthy"
    BY DEF Serving, Health, Worse, CheckSchedulers
  <2>4. err["forecast"] = None
    BY <2>1, <2>2, <2>3 DEF CheckSchedulers, DocKnown
  <2>5. doc \in Nat /\ pc["forecast"] = "sleep"
    BY <2>1, <2>2 DEF DocKnown
  <2>6. left["forecast"] # 0 => doc + left["forecast"] <= Interval
    BY <2>1, <2>2, <2>4, <2>5 DEF DocKnown
  <2>7. left["forecast"] = 0
    BY <2>2, <2>5, <2>6, AgesAssumption
  <2> QED  BY <2>2, <2>5, <2>7 DEF Due
<1>2. IInv => BlindNotHealthy
  BY <1>1
<1> QED  BY <1>2, Invariance, PTL

\* HealthService: no warning while every run does its work in time.
THEOREM NoAlarmIsFalse == Spec => []NoFalseAlarm
<1>1. ASSUME IInv PROVE NoFalseAlarm
  <2> SUFFICES ASSUME \A p \in Pods : \E s \in Tasks(p) : pc[s] # "off",
                      ~missed, ~lapse, slip["forecast"] + MaxRun <= Interval,
                      \A s \in Listed : err[s] = None
               PROVE  Serving = "healthy"
    BY DEF NoFalseAlarm
  <2>1. LoopType /\ WorkType /\ PodsWhole /\ WeatherKnown /\ DocKnown
    BY <1>1, TypeParts DEF IInv
  <2>2. /\ pc["forecast"] \in {"off", "sleep", "run"} /\ left["forecast"] \in Nat
        /\ pc["weather"] \in {"off", "sleep", "run"} /\ left["weather"] \in Nat
        /\ ran["forecast"] \in Nat /\ ran["forecast"] <= MaxRun
        /\ ran["weather"] \in Nat /\ ran["weather"] <= MaxRun /\ slip["forecast"] \in Nat
        /\ doc # None => doc \in Nat
        /\ rows # None => rows \in Nat
        /\ Interval \in Nat /\ WeatherMaxAge \in Nat /\ MaxRun \in Nat /\ MaxRun <= Interval
    BY <2>1, TaskType, HourFits
  <2>3. CheckPrediction({}) = "healthy"
    <3>1. doc # None /\ doc <= 2 * Interval
      <4>1. doc # None /\ pc["forecast"] # "off" /\ err["forecast"] = None
        BY <2>1 DEF DocKnown, Listed
      <4>2. CASE pc["forecast"] = "sleep"
        BY <2>1, <2>2, <4>1, <4>2 DEF DocKnown
      <4>3. CASE pc["forecast"] = "run"
        BY <2>1, <2>2, <4>1, <4>3 DEF DocKnown
      <4> QED  BY <2>2, <4>1, <4>2, <4>3
    <3> QED  BY <2>2, <3>1 DEF CheckPrediction, AgeCheck
  <2>4. CheckWeather({}) = "healthy"
    <3>1. rows # None /\ rows <= Interval + MaxRun
      BY <2>1, <2>2 DEF WeatherKnown
    <3> QED  BY <2>2, <3>1, AgesAssumption DEF CheckWeather, AgeCheck
  <2>5. CheckSchedulers = "healthy"
    <3>1. \A s \in Listed : pc[s] # "off"
      BY <2>1 DEF PodsWhole, Pods, Tasks, Listed
    <3>2. \A s \in Listed : err[s] # "text"
      BY NoneAssumption
    <3> QED  BY <3>1, <3>2 DEF CheckSchedulers
  <2> QED  BY <2>3, <2>4, <2>5 DEF Serving, Health, Worse
<1>2. IInv => NoFalseAlarm
  BY <1>1
<1> QED  BY <1>2, Invariance, PTL
===============================================================================
