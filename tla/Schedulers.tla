------------------------------ MODULE Schedulers ------------------------------
(***************************************************************************)
(* The schedulers of predict and weather-cron, each an IntervalScheduler   *)
(* task in the event loop of its pod, on one clock: the first run waits    *)
(* for a boundary of the day, every later one for what the interval leaves *)
(* after the run before.  Beside them the health report of predict, which  *)
(* is made from what the runs leave behind.                                *)
(*                                                                         *)
(* The scaling and backup schedulers differ from the traffic scheduler in  *)
(* their intervals only.  The clock is scaled, its unit is not a minute:   *)
(* what matters is which of two moments comes first.                       *)
(***************************************************************************)
EXTENDS Integers

CONSTANTS
  Interval,        \* weather_interval_seconds and prediction_interval_seconds
  Hour,            \* accuracy_check_interval_seconds
  Short,           \* traffic_aggregate_interval_seconds
  ForecastOffset,  \* prediction_align_offset_seconds
  CheckOffset,     \* accuracy_check_align_offset_seconds
  MaxAge,          \* prediction_max_age_seconds
  WeatherMaxAge,   \* health_weather_max_age_seconds
  MaxRun,          \* bound: the longest run, with its retries
  None,            \* no file, no last_error
  MaxFaults        \* bound: failed runs, late wake-ups, restarts

ASSUME SchedulersAssumption ==
  /\ {Interval, Hour, Short} \subseteq Nat \ {0} /\ Interval % Hour = 0
  /\ ForecastOffset \in 0..(Interval - 1) /\ CheckOffset \in 0..(Hour - 1)
  /\ {MaxAge, WeatherMaxAge, MaxFaults} \subseteq Nat
  /\ MaxRun \in Nat /\ MaxRun < Hour
  /\ None \notin Nat

ASSUME NoneAssumption == None \notin {"text", "empty"}

\* The two limits of age the health report and the scaler go by leave room
\* for the interval they are about, as config.py has them.
ASSUME AgesAssumption == Interval <= MaxAge /\ Interval + MaxRun <= WeatherMaxAge

VARIABLES
  clock,   \* time of day, modulo the longest interval
  pc,      \* pc[s]: no task, asleep or in run_once
  left,    \* left[s]: what is left of the sleep
  ran,     \* ran[s]: duration of the run so far
  err,     \* err[s]: last_error
  rows,    \* age of the first row of the weather CSV
  doc,     \* age of predictions/latest.json
  slip,    \* history, slip[s]: how late the task of s has been woken in all
  missed,  \* history: the weather of the last boundary was not collected
  lapse,   \* history: predict was started anew after its last document
  faults

report == <<err, rows, doc>>
vars == <<clock, pc, left, ran, err, rows, doc, slip, missed, lapse, faults>>

Pods        == {"weather-cron", "predict"}
Tasks(p)    == IF p = "weather-cron" THEN {"weather"} ELSE {"forecast", "traffic", "accuracy"}
Schedules   == UNION {Tasks(p) : p \in Pods}
\* The schedulers that HealthService is given: all of predict but one.
Listed      == {"forecast", "traffic"}
Aligned     == {"weather", "forecast", "accuracy"}

Every  == [weather |-> Interval, forecast |-> Interval, traffic |-> Short, accuracy |-> Hour]
Offset == [weather |-> 0, forecast |-> ForecastOffset, accuracy |-> CheckOffset]

\* Nothing distinguishes ages beyond this one.
Oldest == 1 + (IF 2 * Interval > WeatherMaxAge THEN 2 * Interval ELSE WeatherMaxAge)

Init ==
  /\ clock \in 0..(Interval - 1)
  /\ pc = [s \in Schedules |-> "off"]
  /\ left = [s \in Schedules |-> 0] /\ ran = [s \in Schedules |-> 0]
  /\ err = [s \in Schedules |-> None]
  /\ rows = None /\ doc = None
  /\ slip = [s \in Aligned |-> 0] /\ missed = TRUE /\ lapse = TRUE
  /\ faults = 0

Fault == faults < MaxFaults /\ faults' = faults + 1

-----------------------------------------------------------------------------
(* run_loop.                                                               *)

\* Mutant: the offset is left out.
BoundaryNoOffset(s) == IF s \in Aligned THEN (Every[s] - (clock % Every[s])) % Every[s] ELSE 0

\* _seconds_until_next_boundary.
Boundary(s) ==
  IF s \in Aligned THEN (Every[s] - ((clock - Offset[s]) % Every[s])) % Every[s] ELSE 0

\* lifespan: every scheduler of the pod gets its task.
Start(p) ==
  /\ \A s \in Tasks(p) : pc[s] = "off"
  /\ pc' = [s \in Schedules |-> IF s \in Tasks(p) THEN "sleep" ELSE pc[s]]
  /\ left' = [s \in Schedules |-> IF s \in Tasks(p) THEN Boundary(s) ELSE left[s]]
  /\ UNCHANGED <<clock, ran, report, slip, missed, lapse, faults>>

Wake(s) ==
  /\ pc[s] = "sleep" /\ left[s] = 0
  /\ pc' = [pc EXCEPT ![s] = "run"]
  /\ UNCHANGED <<clock, left, ran, report, slip, missed, lapse, faults>>

\* Mutant: no max(0, ...).
PauseNegative(s) == Every[s] - ran[s]

\* Mutant: the whole interval is slept off after the run.
PauseWhole(s) == Every[s]

Pause(s) == IF ran[s] < Every[s] THEN Every[s] - ran[s] ELSE 0

\* _execute comes back and the loop goes to sleep, whatever run_once did.
Rest(s) ==
  /\ pc[s] = "run"
  /\ pc' = [pc EXCEPT ![s] = "sleep"]
  /\ left' = [left EXCEPT ![s] = Pause(s)]
  /\ ran' = [ran EXCEPT ![s] = 0]
  /\ UNCHANGED <<clock, slip>>

-----------------------------------------------------------------------------
(* What a run leaves behind.                                               *)

Succeeded(s) == err' = [err EXCEPT ![s] = None]

\* Mutant: last_error is not kept.
FailedQuietly(s) == Succeeded(s)

\* str(exc) is "" for some exceptions of a plain run; the service of the
\* forecast wraps whatever went wrong in an error with a text.
Failed(s) ==
  \E e \in IF s = "forecast" THEN {"text"} ELSE {"text", "empty"} : err' = [err EXCEPT ![s] = e]

\* On time means: before the forecast of this boundary can start.
OnTime == slip["weather"] + MaxRun < ForecastOffset

\* The rows begin, but for minutes, with the moment of the run at which
\* Open-Meteo was asked.
Rows == 0..ran["weather"]

CollectWeather ==
  /\ Rest("weather") /\ Succeeded("weather")
  /\ rows' \in Rows /\ missed' = ~OnTime
  /\ UNCHANGED <<doc, lapse, faults>>

\* collect() swallows an ExternalApiError: to the scheduler it is a success.
CollectNothing ==
  /\ Rest("weather") /\ Fault
  /\ Succeeded("weather") \/ Failed("weather")
  /\ missed' = TRUE
  /\ UNCHANGED <<rows, doc, lapse>>

\* generated_at is some moment of the run.
Publish == doc' \in 0..ran["forecast"] /\ lapse' = FALSE

ForecastRun ==
  /\ Rest("forecast") /\ Succeeded("forecast")
  /\ rows # None
  /\ Publish
  /\ UNCHANGED <<rows, missed, faults>>

\* No weather yet: PredictionError.
ForecastNothing ==
  /\ Rest("forecast") /\ Failed("forecast")
  /\ rows = None
  /\ UNCHANGED <<rows, doc, missed, lapse, faults>>

PlainRun(s) ==
  /\ s \in {"traffic", "accuracy"}
  /\ Rest(s) /\ Succeeded(s)
  /\ UNCHANGED <<rows, doc, missed, lapse, faults>>

\* Mutant: an exception ends the loop.
RunErrorEnds(s) ==
  /\ s # "weather" /\ pc[s] = "run" /\ Failed(s) /\ Fault
  /\ pc' = [pc EXCEPT ![s] = "off"] /\ ran' = [ran EXCEPT ![s] = 0]
  /\ UNCHANGED <<clock, left, slip, rows, doc, missed, lapse>>

\* The model cannot be loaded, S3 or RDS do not answer.  A document may have
\* been published before the run failed.
RunError(s) ==
  /\ s # "weather" /\ Rest(s) /\ Failed(s) /\ Fault
  /\ \/ UNCHANGED <<doc, lapse>>
     \/ s = "forecast" /\ rows # None /\ Publish
  /\ UNCHANGED <<rows, missed>>

-----------------------------------------------------------------------------
(* Time, and the end of a pod.                                             *)

Older(age) == IF age = None THEN None ELSE IF age < Oldest THEN age + 1 ELSE age

Due == {s \in Schedules : pc[s] = "sleep" /\ left[s] = 0}

Pass ==
  /\ \A s \in Schedules : pc[s] = "run" => ran[s] < MaxRun
  /\ clock' = (clock + 1) % Interval
  /\ left' = [s \in Schedules |-> IF pc[s] = "sleep" /\ left[s] > 0 THEN left[s] - 1 ELSE left[s]]
  /\ ran' = [s \in Schedules |-> IF pc[s] = "run" THEN ran[s] + 1 ELSE ran[s]]
  /\ rows' = Older(rows) /\ doc' = Older(doc)
  /\ UNCHANGED <<pc, err, lapse>>

Tick == Pass /\ Due = {} /\ UNCHANGED <<slip, missed, faults>>

\* The loop comes late to a task that is due: it was busy, or every sleep
\* was a little too long and this is the sum of it.
LateTick ==
  /\ Pass /\ Due \intersect Aligned # {} /\ Fault
  /\ slip' = [s \in Aligned |-> IF s \in Due THEN slip[s] + 1 ELSE slip[s]]
  /\ missed' = (missed \/ "weather" \in Due)

\* SIGTERM: stop() and cancel().  The thread of a forecast run still comes
\* to its end before the process does; a crash is the end of both.
Stop(p) ==
  /\ \A s \in Tasks(p) : pc[s] # "off"
  /\ Fault
  /\ pc' = [s \in Schedules |-> IF s \in Tasks(p) THEN "off" ELSE pc[s]]
  /\ left' = [s \in Schedules |-> IF s \in Tasks(p) THEN 0 ELSE left[s]]
  /\ ran' = [s \in Schedules |-> IF s \in Tasks(p) THEN 0 ELSE ran[s]]
  /\ err' = [s \in Schedules |-> IF s \in Tasks(p) THEN None ELSE err[s]]
  /\ slip' = [s \in Aligned |-> IF s \in Tasks(p) THEN 0 ELSE slip[s]]
  /\ \/ rows' \in Rows /\ p = "weather-cron" /\ pc["weather"] = "run"
     \/ UNCHANGED rows
  /\ \/ doc' = 0 /\ p = "predict" /\ pc["forecast"] = "run" /\ rows # None
     \/ UNCHANGED doc
  /\ missed' = (missed \/ p = "weather-cron")
  /\ lapse' = (lapse \/ p = "predict")
  /\ UNCHANGED clock

-----------------------------------------------------------------------------
(* HealthService.                                                          *)

Worse(a, b) == IF "unhealthy" \in {a, b} THEN "unhealthy"
               ELSE IF "warning" \in {a, b} THEN "warning" ELSE "healthy"

AgeCheck(age, limit) == IF age = None \/ age > limit THEN "warning" ELSE "healthy"

CheckSchedulers ==
  IF \E s \in Listed : pc[s] = "off" THEN "unhealthy"
  ELSE IF \E s \in Listed : err[s] = "text" THEN "warning" ELSE "healthy"

\* Mutant: a forecast has to be as young as its interval.
CheckPredictionOnce(unread) ==
  IF "prediction" \in unread THEN "unhealthy" ELSE AgeCheck(doc, Interval)

\* A file that S3 fails to deliver is unhealthy whatever its age.
CheckPrediction(unread) ==
  IF "prediction" \in unread THEN "unhealthy" ELSE AgeCheck(doc, 2 * Interval)

CheckWeather(unread) ==
  IF "weather" \in unread THEN "unhealthy" ELSE AgeCheck(rows, WeatherMaxAge)

\* The queue and the model are what S3 and SQS say at this moment, unread the
\* files that S3 fails to deliver.
Health(queue, model, unread) ==
  Worse(Worse(queue, model),
        Worse(Worse(CheckPrediction(unread), CheckWeather(unread)), CheckSchedulers))

\* The report of a moment when SQS and S3 answer.
Serving == Health("healthy", "healthy", {})

-----------------------------------------------------------------------------
Run(s) == \/ s = "weather" /\ CollectWeather
          \/ s = "forecast" /\ (ForecastRun \/ ForecastNothing)
          \/ PlainRun(s)

Trouble == \/ CollectNothing \/ LateTick
           \/ \E s \in Schedules : RunError(s)
           \/ \E p \in Pods : Stop(p)

Next == \/ Tick \/ Trouble
        \/ \E p \in Pods : Start(p)
        \/ \E s \in Schedules : Wake(s) \/ Run(s)

\* Time passes, pods are started again, tasks that are due are woken, and no
\* run goes on for ever: every call in it has a timeout.
Spec == /\ Init /\ [][Next]_vars
        /\ WF_vars(Tick)
        /\ \A p \in Pods : WF_vars(Start(p))
        /\ \A s \in Schedules : WF_vars(Wake(s)) /\ WF_vars(Run(s))

-----------------------------------------------------------------------------
(* Properties.                                                             *)

TypeOK ==
  /\ clock \in 0..(Interval - 1)
  /\ pc \in [Schedules -> {"off", "sleep", "run"}]
  /\ left \in [Schedules -> Nat] /\ \A s \in Schedules : left[s] <= Every[s]
  /\ ran \in [Schedules -> 0..MaxRun]
  /\ err \in [Schedules -> {None, "text", "empty"}]
  /\ rows \in 0..Oldest \union {None} /\ doc \in 0..Oldest \union {None}
  /\ slip \in [Aligned -> 0..MaxFaults]
  /\ missed \in BOOLEAN /\ lapse \in BOOLEAN
  /\ faults \in 0..MaxFaults

\* The clock is read once, before the first run.  Neither the length of the
\* runs nor their failures move the later ones off the boundary: a run
\* starts as late as its task was ever woken late, never more and never
\* less, and only a new pod sets it right.
OnPhase ==
  \A s \in Aligned :
    pc[s] = "run" => (clock - ran[s] - slip[s] - Offset[s]) % Every[s] = 0

\* The three minutes between the two pods are enough: a forecast that starts
\* works on weather of its own boundary, unless that was not collected or
\* weather-cron has slipped behind.
FreshWeather ==
  pc["forecast"] = "run" /\ ran["forecast"] = 0 /\ ~missed =>
    rows # None /\ rows <= ForecastOffset + slip["forecast"]

\* prediction_max_age_seconds is the interval and the health report only
\* warns after two.  Still, while the report is healthy the scaler lacks a
\* prediction only in the moments before the next one is there, or when
\* predict was started anew and waits for a boundary.
BlindNotHealthy ==
  Serving = "healthy" /\ doc > MaxAge => lapse \/ pc["forecast"] = "run" \/ "forecast" \in Due

\* The report warns of nothing while every run did its work in time, also the
\* forecast, however late it was woken, if it still ended within its interval.
NoFalseAlarm ==
  /\ \A p \in Pods : \E s \in Tasks(p) : pc[s] # "off"
  /\ ~missed /\ ~lapse /\ slip["forecast"] + MaxRun <= Interval
  /\ \A s \in Listed : err[s] = None
  => Serving = "healthy"

\* Once nothing fails any more there is always a document that is about as
\* young as the interval allows.
Recovers == <>[](doc # None /\ doc <= Interval + MaxRun)
-----------------------------------------------------------------------------
(* The inductive invariant behind the properties.                          *)

\* A moment that is t away is on the phase of s.
Phase(s, t) == (clock + t - slip[s] - Offset[s]) % Every[s] = 0

\* Asleep, the task will wake on its phase; running, it began on it.
InPhase ==
  \A s \in Aligned :
    /\ pc[s] = "sleep" => Phase(s, left[s])
    /\ pc[s] = "run" => Phase(s, -ran[s])
    /\ pc[s] = "off" => slip[s] = 0
    /\ slip[s] <= faults

\* Only a run takes time, and the tasks of a pod begin and end together.
PodsWhole ==
  /\ \A s \in Schedules : pc[s] # "run" => ran[s] = 0
  /\ \A p \in Pods : \A s, t \in Tasks(p) : pc[s] = "off" => pc[t] = "off"

\* How old the weather can be, as long as none was missed.
WeatherKnown ==
  ~missed =>
    /\ OnTime /\ rows # None /\ pc["weather"] # "off"
    /\ pc["weather"] = "sleep" => rows + left["weather"] <= Interval
    /\ pc["weather"] = "run" => rows <= Interval + ran["weather"]

\* How old the document can be, as long as the last run published it.
DocKnown ==
  /\ err["forecast"] # "empty"
  /\ ~lapse => doc # None /\ pc["forecast"] # "off"
  /\ ~lapse /\ err["forecast"] = None =>
       /\ pc["forecast"] = "sleep" =>
            doc + left["forecast"]
              <= Interval + (IF left["forecast"] = 0 THEN slip["forecast"] ELSE 0)
       /\ pc["forecast"] = "run" => doc <= Interval + slip["forecast"] + ran["forecast"]

IInv == TypeOK /\ InPhase /\ PodsWhole /\ WeatherKnown /\ DocKnown
=============================================================================
