# HailCast in TLA+

Specifications of the HailCast backend (`src/backend`, `src/ml`): modules that
follow the code, TLC runs that check them on small instances, and TLAPS proofs
of every safety property for all values of the constants. `PROJECT.json` says for every definition which lines it models.

## The system

A taxi call is accepted by **call-api**, queued in **SQS**, and put on record
in **RDS** by **workers**, whose number KEDA scales. **predict** sets the
minimum of that number ahead of demand: it forecasts the demand from the
weather, measures the traffic of the last hour and patches the ScaledObject.
Hours the forecast missed become notes, from which a **retrain job** improves
the model. A **simulator** produces traffic.

| component | state it keeps | operations | hard behaviour | what makes it correct |
|---|---|---|---|---|
| call-api, SQS, worker, RDS | queue with receive counts, `calls` table, open transactions, `_running` | `accept_call`; `poll_once`, `_process_message`, `_handle_poison`, SIGTERM | redelivery, duplicates, several workers, crash between commit and delete, errors whose effect is unknown | an accepted call is never lost, recorded once, recorded in the end; malformed bodies leave the queue |
| traffic counter and aggregator | `_count`, one shard file per pod, history, `traffic.json` | `record`, `flush`; `aggregate` | threads race, files shared without a clock, failed writes, dead pods | no call vanishes without a failure; the hourly sum is bounded and ends |
| scaler | `minReplicaCount`, `last_scaling_at`, `_reactive_hold`, event table | `run_scaling`, `GET /scaling/status` | retries of a patch that took effect, restart, a second thread on the same field | cooldown, hold, convergence to what forecast and traffic ask for |
| forecast | weather CSV, `latest.json`, `latest.csv`, `predictions` table, pod history | `collect`, `run_forecast`, `snapshot_current_hour`, `pod_forecast` | runs that fail half-way, stale documents, hour boundaries | publication order, the item of this hour is used, the graph fills up |
| accuracy check, retrain job, ModelLoader | DynamoDB notes with a mark, model and metadata in S3, the loaded model | `check_and_record`, `retrain_trigger.main`, `load_latest` | failure between upload and marks, two jobs at once, a load in the middle of an upload, two pods in a rollout | a used-up note was learned and reaches the forecasts; repeats need a mishap or jobs that overlap; a model keeps what its version stands for |
| simulator | `running`, rate, k6 process, counters | start, stop, increase, decrease, reset, burst, relay | failing or dying k6, requests under a lock with calls in between | what is shown is what k6 does; counters balance |
| IntervalScheduler, health report | the sleep of each task, `last_error`; ages of what the runs leave | `run_loop`, `stop`; `GET /health` | failing and long runs, two pods on one clock, late wake-ups, restarts | runs stay on their boundary, the forecast finds fresh weather, the report is neither blind nor alarmed for nothing |
| service page of the frontend | status shown, one reference to a poll timer | `handleCall`, `pollStatus`, leaving the page | answers out of order, a page left with a POST on its way, a network that fails | "done" is true, no timer is lost, every timer stops |
| dashboard's traffic history | none of its own | `traffic_history` | a history that moves while buckets are cut from a window | shows every point of the window once |
| other dashboards and routers, status scheduler, ML numerics, settings, deployment | none that matters | reads, plots, computes | | not modelled, see below |

Components meet in shared stores only: SQS and RDS between call-api and worker,
files in S3 between call-api's counters and predict and between weather-cron
and predict, RDS between predict's own schedulers, DynamoDB and S3 between
predict and the retrain job. `PROJECT.json` lists under `hazards` what is hard
to test in each, at its line, and which property is about it.

## The modules

**CallLedger** is the promise of the call pipeline to the caller of `POST
/call`: sent, answered, recorded once. **CallPipeline** is the code below that
promise. Its `pc[w]` is the next access of worker `w` to SQS or RDS, because
only there others can come between: `Receive` (`receive_messages`), `Select`,
`Insert`, `Commit`, `Ack` of `_process_message`, `DropPoison` and `KeepPoison`
of `_handle_poison`. `session[w]` is the row in its open transaction. For every
access there is an action for its failure, with the effect done and not done
where the caller cannot know: `PublishError`, `DbError`, `CommitError`,
`AckError`. `Crash`, `Stop` and `Restart` are the life of the pod. SQS is
modelled from its use: `VisibilityTimeout`, `SlowWorker` (the timeout passes
while the worker goes on), `Redeliver`, `PublishTwice`. `Ledger` instantiates
CallLedger with the refinement mapping.

**TrafficPipeline** has per pod the counter, the count a flush has taken and
not yet written, and the shard; and for the aggregator its place between
listing, reading, appending and publishing. A `Tick` is one interval, in which
each process runs once; ages of shards and points count ticks. `TrafficGraph`
is DashboardService's `traffic_history` on the published history: the window
and its buckets, newest first.

**Scaler** follows `run_scaling` from `Skip` and `ReadForecast` to `SaveEvent`,
with `Baseline` for the decision engine and `Adjust` for the reactive layer.
The status request is `StatusSelect` and `StatusAssign`, on the field the
scaling thread uses. Percentages stand for the watermarks, ticks for time.

**Forecast** has the runs of weather-cron and of the prediction service, write
by write, the two rules that find the item of the hour (`ScalerItem`,
`DashboardDemand`), and the snapshot and graph of PodForecastService. A
document's items are known by their place; its age in hours says how far each
is from now. The timestamped copy and the CSV, which nothing reads, are one
write. `Scale`, `ScaleNothing` and `ScaleError` are the scaler runs of an hour
as far as `last_predicted_demand` goes, `Check` is the check at :59 that pairs
this demand with the weather of the hour; `lapse` remembers that all scaler
runs of an hour failed.

**Retrain** keeps a note per hour and, for the stored model, how often each
note was learned. `CheckHour` is the check of `AccuracyCheckService` with the
threshold of `PredictionAccuracyLogger`; each job is `Scan`, `Train` (which
starts with the download), `UploadModel`, `UploadMetadata` and `Mark`, one note
at a time, and jobs overlap. `LoadMetadata` and `LoadModel` are ModelLoader's
two reads. Nothing in the repository keeps two jobs apart: `clash` remembers
that one uploaded over a model it had not downloaded, and what is promised is
promised while there was none; `overlap` remembers that a job scanned while
another was at work. A version is the second of its upload; two
uploads within one second, which only a clash comes near, are left out.

**Simulator** splits a control request where it leaves the event loop for k6:
the request up to there, `StopOld` and `Popen` in the thread, `Answer` or
`Reset` back in the loop. `Relay`, `RelayDone` and the bursts take no lock and
run in between; `K6Ends` and `PodRestart` come at any time.

**Schedulers** is `IntervalScheduler.run_loop` for the tasks of predict and
weather-cron on one clock: `Start` with the way to the first `Boundary`,
`Wake`, and `Rest` with the `Pause` that is left of the interval after a run.
The runs are only what they leave behind: the ages of the weather CSV and of
the forecast document, and `last_error`. `Serving` is HealthService's report
made of these, at a moment when SQS and S3 answer. `LateTick` lets the event
loop be late; `slip`, `missed` and `lapse` remember how late a task has been
woken in all, that the weather of the last boundary is not there, and that
predict waits for its first document. The clock is scaled; only the order of
the moments counts.

**ServicePage** is `ServicePage.tsx` on top of CallLedger: only the promise of
the pipeline is used, so what holds here holds on top of CallPipeline, too.
`Tick` sends a status request without waiting for the answer to the one
before; the counts `asked`, `found` and `missing` are requests and answers on
their way, delivered in any order. `visit` tells one opening of the page from
the next, since the handlers of a page that was left go on. `overlapped`
remembers that a request outlasted the poll interval: the page does not tell
the answers apart, and promises nothing then (ServicePage.tsx:44).

An operator that a comment calls a mutant is a plausible bug in the definition
that follows it; `PROJECT.json` pairs it with the property that finds it.

## The runs

| run | properties | shows |
|---|---|---|
| `pipeline_safety` | NoCallLost, LedgerSafety | a call is in the queue or in RDS at every moment, and recorded once |
| `pipeline_liveness` | LedgerPromise, QueueDrains | what was answered 202 is recorded; the queue drains; bad bodies leave |
| `traffic` | TypeOK, CallsConserved, OvercountBounded, GraphComplete, QuietEnds | calls are conserved, the overcount is bounded, the graph shows all of its window, silence is shown as 0 |
| `scaler` | BumpsJustified, CooldownKept, HoldKept, ForecastReached, BaselineWithoutTraffic | the cooldown survives failures and restarts, what is held is not undercut; bumps do not add up beyond what traffic accounts for; the replicas converge |
| `simulator` | RateAgrees, CountersBalance, AnswersTrue, BurstSent | no k6 lives unseen, shown rate and real rate agree; counters balance; bursts end |
| `retrain` | MarkedIsLearned, ReuseNeedsFault, LabelHolds, ModelGrows, MarkedIsUsed | marks follow the upload; without overlapping jobs a note is learned again only after a fault, with them once by each; nothing is unlearned; a version keeps its promise; what is marked reaches the forecasts |
| `forecast` | TypeOK, PublishedFirst, DemandNear, NotePairs, OnePointAnHour, GraphFilled | publication order, the right item, notes that pair demand and weather of one hour, recovery of the graph |
| `schedulers` | TypeOK, OnPhase, FreshWeather, BlindNotHealthy, NoFalseAlarm, Recovers | runs stay on their boundary, three minutes between the pods suffice, the health report is right in both directions, forecasts come back after any failure |
| `service_page` | TypeOK, DoneIsTrue, NoLostTimer, QueuedIsWaitedFor, TimersStop | the page tells the truth and lets go of every timer, whatever order its answers come in between two ticks |

CallPipeline, Scaler, Simulator and Retrain have a TypeOK as well; it is proved for
every value of the constants, so no run repeats it. Every inductive invariant
below (`IInv`, `ReuseInv`) was an invariant of these runs before it was proved.

Three runs show where the code does not do what its comments say:

| run | property | what happens |
|---|---|---|
| `scaler_forecast` | NeverBelowForecast | the bump starts from the current replicas: high traffic gives fewer replicas than the forecast alone would |
| `traffic_real` | HourlyIsReal | a shard is added up by two aggregations between two flushes: `hourly_requests` exceeds the calls made, with no failure |
| `forecast_match` | SameDemand | between :00 and :03 the scaler borrows the last item, the dashboard shows none |

Smaller disagreements met on the way have no run of their own. When k6 is
restarted and the launch fails, `running` stays true without a process, which
the comment at `k6_runner.py:37` would not let one expect; RateAgrees and
AnswersTrue say what does hold. The retrain job compares its minimum before it
drops the notes it cannot use (`retrain_trigger.py:219`), so it may train on
fewer. `traffic_history` leaves out the newest points when `bucket_seconds`
does not divide the window; GraphComplete is stated where it does. The
ConfigMap lets a document be used for 5 h, "an hour of slack"
(`02-configmap.yaml:24`), but it has four hours: when the next forecast run
fails, the sixth hour begins with the scaler back at the first item
(`scaler_service.py:115`). DemandNear says when.

A property that has to excuse a case in which the code does not keep it names
that case by a history variable (`record`, `clash`, `overlap`, `lapse`,
`missed`, `overlapped`), and the note of the hazard in `PROJECT.json` says what
the code does then.

### Bounds

| run | bounds | why they are enough |
|---|---|---|
| pipeline | 2 workers, batch 2, one call stored at most twice and one malformed body (liveness: stored once), RetryLimit 1, MaxReceives 2, MaxFaults 3 and 2 | calls share nothing but the batch, so one call with two copies in two hands and a neighbour in the batch is every conflict there is; three faults allow a crash, a redelivery and a failing answer in one behaviour. Workers and copies are symmetric (safety run only) |
| traffic | 2 pods, 2 calls, StaleAfter 1, MaxPoints 3, Hour 4, BucketSize 2, MaxFaults 2 | two buckets of two in the graph's window; keeps the order of the deployed values: staleness (30 s) < history (1080 points, 36 min) < hour |
| scaler | demand 10 per pod, buffer 1, 1..3 replicas, watermarks 80/40 %, step 1, Cooldown 2, MaxChanges 3, MaxFaults 2 | the highest traffic fills three replicas to more than 80 %, so a bump may end one above the limit; every branch of the decision occurs: below, between and above the watermarks, clamped at both ends, a forecast that comes and goes; StartReplicas 0 is a ScaledObject deployed with no minimum |
| forecast | Interval = Horizon = 2 h, MaxAge 3 h, Reach 6 h, history of 2 points, MaxFaults 2 | as deployed (4 h, 4 h, 5 h, 30 h) the document ends exactly where the next begins and is used an hour longer (`forecast_match` has the default, no hour more); Reach allows (Reach - Horizon) / Interval = 2 missed weather runs, 6 as deployed. A third would leave no rows, DemandNear's stated limit |
| retrain | 2 hours, 2 jobs, MinRecords 2, MaxFaults 1 | a batch of one (forced), of two, and one with a note put meanwhile; two jobs in every interleaving with a load; one mishap at every step. Both bounds of ReuseNeedsFault are reached: two learnings after one mishap without overlap, two without a mishap with it. It is 4 at most here, so MaxLearned 5 never bites. Ends when hours and faults run out, so deadlock is not checked |
| schedulers | Interval 6, Hour 3, Short 1, ForecastOffset 3, CheckOffset 2, MaxAge 6, WeatherMaxAge 8, MaxRun 2, MaxFaults 2 | the order of the deployed moments: a weather run ends before the forecast offset, the longest run is longer than the short interval and shorter than the hour, the interval < the age that alarms < two intervals; every clock time is a start. Two faults suffice to miss a document and then the weather |
| service_page | 2 calls, 1 stamp, MaxPolls 2 (deployed 20), MaxTicks 3, 2 visits, MaxFaults 1 | a second call, also from a second visit, while the first has its answers on their way; MaxTicks leaves room for a tick more than the page should need. Ends when calls and visits are used up, so deadlock is not checked |
| simulator | Step 2, 0..3, one burst of up to 2 (one more is asked), concurrency 1, 2 relayed calls, MaxFaults 2 | the second press is cut at the limit; a burst has to wait; two failures hit one request and the next |

`MaxFaults` counts failed or doubtful accesses, crashes, restarts, late
wake-ups, lost requests and, in Forecast, a skipped backup. `MaxReceives`, `MaxCalls`, `MaxChanges` and
`MaxLearned` bound counters the code does not bound.

### Fairness

- CallPipeline: a worker that can go on does (`run_forever` has no exit but
  `stop`), a pod that ended is restarted by Kubernetes, a visibility timeout
  passes. Strong fairness of delivery: SQS does not pass over a message that
  becomes available again and again. Failures are never fair.
- TrafficPipeline, Scaler, Forecast: `run_loop` catches what a run raises and
  runs again, so the steps of a run and the next interval are weakly fair.
- Simulator: threads and tasks go on, every relayed call ends by
  `relay_timeout_seconds` at the latest. Nobody has to press anything.
- Retrain: loads only, since every forecast run loads the model. Jobs are
  started by hand and may stop anywhere.
- Schedulers: time passes, Kubernetes starts a pod again, a task that is due
  is woken, and a run ends, as every call in it has a timeout. MaxRun is kept
  by the guard of time itself.
- ServicePage: timers tick, handlers run, call-api answers. That a worker
  records a call is not assumed: the page has to let go without it.

## What is proved

Every invariant and every action property of the passing runs is proved for
all values of the constants. Each proof goes from an inductive invariant `IInv`
with a lemma per action; the theorems combine the lemmas. The assumptions are
those the modules name: `PipelineAssumption` and the like for the ranges of the
constants, `NoneAssumption` that a missing value is none of the values, and
those mentioned below. MaxFaults, MaxCalls and the other bounds are constants
too, so nothing depends on their being small.

### The call pipeline (`CallPipelineProofs`)

| theorem | says |
|---|---|
| `TypeCorrect` | `Spec => []TypeOK` |
| `Invariance` | `Spec => []IInv` |
| `CallsNotLost` | `Spec => []NoCallLost` |
| `Idempotent` | a row stays, its completion is never replaced |
| `LedgerImplemented` | `Spec => Ledger!Safety`, step simulation included |

NoCallLost is not inductive: deleting a message is harmless only because the
row was committed before (`AckInv`), which holds because the transaction about
to be committed has a completed row of the current call (`SessionInv`,
`BatchInv`) and only such rows are committed (`RowsInv`). That a completion is
not replaced needs that of two workers that both found no row only one gets
past the unique index (`OneInserter`), so that the row a session read is still
the row that is there.

### The traffic pipeline (`TrafficProofs`)

| theorem | says |
|---|---|
| `TypeCorrect` | `Spec => []TypeOK` |
| `NoCallVanishes` | `Spec => []CallsConserved` |
| `OvercountIsBounded` | `Spec => []OvercountBounded` |
| `GraphHidesNothing` | `Spec => []GraphComplete` |

For any finite set of pods. CallsConserved needs that a flush begins with empty
hands (`OneFlush`). OvercountBounded follows from an account (`ReadingsPaid`):
a written call is worth StaleAfter + 1 readings; those it has had are in the
history and the running sum, those it can still have are owed by its shard, one
for every tick until it is stale, and this tick's only while it is unread
(`OneRun`). GraphComplete is not about steps: that each point of the window
falls into exactly one bucket is arithmetic, and the sum over the buckets and
the sum over the points are then exchanged.

The community modules define sums by folds and those by CHOOSE of a recursive
function. The proofs expand them once, show that a sum over a finite set or a
sequence obeys its recursion, and go by induction in a first-order form: the
set of the numbers, or finite subsets, for which a statement fails has no least
element.

### The scaler (`ScalerProofs`)

| theorem | says |
|---|---|
| `TypeCorrect` | `Spec => []TypeOK` |
| `HoldIsKept` | `Spec => HoldKept` |
| `CooldownIsKept` | `Spec => CooldownKept` |
| `BumpsAreJustified` | `Spec => []BumpsJustified` |

HoldKept needs that a run patches what it read and decided, no less than the
hold (`DecisionFresh`). CooldownKept needs to know where the moment of the last
change is on record, and that it is the same in every place the scaler looks
(`ChangeKnown`): in the event table, in `last_scaling_at`, or nowhere. Only
then does having passed the cooldown mean anything (`CooldownPassed`). A bump is
not cut at `scaling_max_replicas`, and hold and cooldown let it be repeated;
still it starts from replicas that the traffic of that moment fills, and what is
held or about to be patched is no more than such a bump (`WantsJustified`).

### The forecast (`ForecastProofs`)

| theorem | says |
|---|---|
| `TypeCorrect` | `Spec => []TypeOK` |
| `DocumentsArePublished` | `Spec => []PublishedFirst` |
| `NotesPair` | `Spec => []NotePairs` |
| `HistoryIsOrdered` | `Spec => []OnePointAnHour` |
| `DemandIsNear` | `Spec => []DemandNear` |

`AgeAssumption` is that a document is used at least as long as it has hours. If
that is all, as with the defaults of the code, DemandNear leaves the scaler only
the items of this hour and the last; the ConfigMap's hour more adds the first
item of an old document. That a document has
all its hours follows from the age of the weather it was made of, which grows
by an interval with every failure (`WholeDocs`); `Enough` says that the reach
of the CSV covers that. A note pairs demand and weather of one hour because the
item the scaler used is that of the weather the check finds, except between the
arrival of a new document and the next scaler run (`PairKnown`); `InTurn` says
that such a run still comes before the check.

### Notes and models (`RetrainProofs`)

| theorem | says |
|---|---|
| `TypeCorrect` | `Spec => []TypeOK` |
| `Invariance` | `Spec => []IInv` |
| `MarkedLearned` | `Spec => []MarkedIsLearned` |
| `LabelsHold` | `Spec => []LabelHolds` |
| `Grows` | `Spec => ModelGrows` |
| `ReuseIsPaidFor` | `Spec => []ReuseNeedsFault` |

For any hours, any finite set of jobs, any threshold, with uploads enabled or
not. A mark is harmless only because the batch is in the published model by
then (`UploadedInv`), which holds because what is uploaded extends what was
downloaded by the batch (`BaseInv`) and no upload in between took anything away.
LabelHolds needs that metadata are read before the model and that what they
promise is kept by every later model (`PromiseInv`), and that the metadata a
job is about to write are no more than what it stored (`UploadedInv` again).
While there is no clash every upload grows the model: `StoreModelEffect` is the
lemma all of these rest on.

ReuseNeedsFault has an invariant of its own, `ReuseInv`. Without overlapping
jobs (`OneAtATime`) a note that is `Due`, that is not marked nor between an
upload and its mark, has been learned only as often as something went wrong; an
upload is of a note that was due, and after it none of its batch is. Jobs that
overlap learn a note one after the other even if nothing fails, since the scan
comes before the download (`retrain_trigger.py:214`, `:124`). Then each has one
turn per mishap at learning a note: `Turns(h)` are the jobs that can still upload a
model with note `h` before the next mishap, and what the stored model, and each
model about to be uploaded, has learned of `h` leaves room for them
(`TurnsLeft`). An upload uses up a turn; a mark takes the turns of all who
would scan again; only a mishap gives every job a new one.

### The simulator (`SimulatorProofs`)

| theorem | says |
|---|---|
| `Invariance` | `Spec => []IInv` |
| `TypeCorrect` | `Spec => []TypeOK` |
| `RatesAgree` | `Spec => []RateAgrees` |
| `AnswersAreTrue` | `Spec => AnswersTrue` |
| `CountsBalance` | `Spec => []CountersBalance` |

For any finite set of bursts. RateAgrees only speaks of the time between two
requests; a k6 that outlived its kill may send at an older rate, but is shown
as running, so that the next stop tries again. `JobInv` says what a request under way has found out: once the old
process is gone there is none, a new one has the rate that is shown, and a
request that goes straight to its answer found everything as it should be. The
calls of the bursts are counted by the places they take in the semaphores
(`Places`), so that sending and finishing a call adds and removes one place;
`AskedFirst` says that a burst that is asked for finds its semaphore free.

### The schedulers (`SchedulersProofs`)

| theorem | says |
|---|---|
| `TypeCorrect` | `Spec => []TypeOK` |
| `RunsOnPhase` | `Spec => []OnPhase` |
| `WeatherIsFresh` | `Spec => []FreshWeather` |
| `HealthyIsNotBlind` | `Spec => []BlindNotHealthy` |
| `NoAlarmIsFalse` | `Spec => []NoFalseAlarm` |

For any intervals, offsets and lengths of runs, as long as the long interval is
a multiple of the hour, no run is longer than an hour, and the ages that alarm
leave room for the interval (`AgesAssumption`). What stays on its phase is the
moment a task will wake, or began, less what it has slipped in all (`InPhase`):
a fact about remainders. The ages of weather and document are bounded by what
is left of the sleep and by the length of the run (`WeatherKnown`, `DocKnown`).
That the weather a forecast finds is of its own boundary is because the phases of
the two tasks are remainders of one interval, so two moments of one phase are
the same or a whole interval apart (`ModGap`). The proof of NoFalseAlarm showed
its premise: a forecast may slip by as much as still lets its run end within
the interval, no more.

### The service page (`ServicePageProofs`)

| theorem | says |
|---|---|
| `TypeCorrect` | `Spec => []TypeOK` |
| `DoneTrue` | `Spec => []DoneIsTrue` |
| `NoTimerLost` | `Spec => []NoLostTimer` |
| `QueuedWaits` | `Spec => []QueuedIsWaitedFor` |

For any calls, stamps and visits. The properties hold as long as no request
outlasted the poll interval, but the page has to be understood for any order of
answers (`CallInv`); until then each visit has at most one call that can still
change the page, with at most one request under way, and while the page is open
that is the call it speaks of (`OneAtATime`).

### What is only model-checked

Liveness, which is out of the prover's reach like ENABLED: LedgerPromise,
QueueDrains, QuietEnds, ForecastReached, BaselineWithoutTraffic, BurstSent,
MarkedIsUsed, GraphFilled, Recovers and TimersStop. The modules declare no
RECURSIVE operator. That the three violations happen is shown by TLC's
counterexamples.

## What is not modelled

- The status scheduler of the simulator writes a file that nothing reads.
- The dashboard page, the remaining dashboard and prediction routers only read
  and format. Of the health report, queue and model are what SQS and S3 say at
  that moment, and a file that cannot be read is unhealthy; the properties are
  about reports of moments when all of them answer (`Serving`).
- `list_keys` returns one page of at most 1000 keys; TrafficPipeline lists the
  shards of all its pods.
- The numerical code under `src/ml` needs real data; the models take a
  prediction to be any demand. `train.py` is run again by a developer, on data
  that is not in the repository, and replaces the model with what was learned
  since.
- Settings, logging, metrics and wiring appear as CONSTANTS or not at all. The
  content of calls, the actual replicas read for the graph, bucket and schema
  creation, scripts and manifests are left out.
- Two pods of predict during a rollout appear only where they meet in a store
  (Retrain's `CheckAgain`). `IntervalScheduler` reckons in UTC, so there is no
  hour that comes twice.

## Plan

Done: all modules above, and the proofs of their safety properties.

Extensions left:

1. An abstract traffic meter that TrafficPipeline refines, and an abstract
   autoscaler (replicas follow a target, not down before the cooldown) for
   Scaler.
2. Two pods of predict during a rollout in TrafficPipeline and Forecast.

Theorems: the refinements above, step by step, once they are stated. What the
liveness properties need of safety (that a step they wait for stays possible)
can be proved without ENABLED and would shorten the distance to them.
