-------------------------------- MODULE Forecast --------------------------------
(***************************************************************************)
(* The way of a forecast: weather-cron writes the weather CSV, predict's   *)
(* PredictionService makes a document from it and saves that to the JSON   *)
(* file (GET /prediction/latest), to a CSV file and to RDS, one after the  *)
(* other.  The scaler and the dashboard read the newest batch in RDS, each *)
(* with a rule of its own for the item that stands for this hour; the      *)
(* dashboard keeps a point of every hour for the past of its graph.        *)
(*                                                                         *)
(* One tick is an hour.  weather-cron runs at :00 and the forecast at :03  *)
(* of every Interval-th hour; the scaler runs at any time, the backup of   *)
(* the graph once an hour at no fixed minute.  A file or a document is     *)
(* kept with its age in hours, so an item's distance from this hour is     *)
(* what matters of its target_time.                                        *)
(***************************************************************************)
EXTENDS Integers, Sequences, FiniteSetsExt

CONSTANTS
  Interval,  \* weather_interval_seconds and prediction_interval_seconds, in hours
  Reach,     \* weather_forecast_hours
  Horizon,   \* prediction_horizon_hours
  MaxAge,    \* prediction_max_age_seconds, in hours
  MaxPoints, \* _HISTORY_MAX_POINTS of the pod history
  Demands,   \* what the model may predict
  None,      \* no file, no batch, no demand
  MaxFaults  \* bound: failed runs, bad weather data, restarts

ASSUME ForecastAssumption ==
  /\ Interval \in Nat \ {0} /\ Reach \in Nat /\ Horizon \in Nat \ {0} /\ MaxAge \in Nat
  /\ MaxPoints \in Nat \ {0}
  /\ Demands \subseteq Nat /\ None \notin Nat /\ MaxFaults \in Nat

\* A forecast is used at least as long as it has hours: by default both are
\* four, the ConfigMap makes the age five.
ASSUME AgeAssumption == Horizon <= MaxAge

ASSUME NoneAssumption ==
  /\ None \notin Int
  /\ None \notin [age : Int, bad : BOOLEAN]
  /\ None \notin [age : Int, items : Seq(Demands)]
  /\ None \notin [doc : [age : Int, items : Seq(Demands)], copies : Nat]
  /\ None \notin [age : Int, ahead : Int, lapse : BOOLEAN]
  /\ None \notin [demand : Int, weather : Int \union {None}, lapse : BOOLEAN]
  /\ None \notin [predicted : Nat \union {None}]

VARIABLES
  phase,       \* hours since the last run of the schedulers
  weatherDue,  \* the weather run of this hour is still to come
  forecastDue, \* the forecast run of this hour is still to come
  weather,     \* the weather CSV: its age, and whether a row lacks a value
  pc,          \* the next write of the forecast run
  doc,         \* its document
  json,        \* predictions/latest.json
  db,          \* newest batch of the prediction table: document and copies
  used,        \* last_predicted_demand, as the item it was taken from: its age,
               \* the hours it was ahead of then; as history, whether the runs
               \* of a whole hour have failed since
  scaleDue,    \* the last scaler run before :59 is still to come
  checkDue,    \* the check at :59 is still to come
  note,        \* the note of this hour: how far ahead the demand and the
               \* weather are that it pairs
  backupDue,   \* the backup run of this hour is still to come
  draft,       \* the point a backup run is about to write
  podHistory,  \* dashboard/pod-history.json: age and prediction of each point
  faults

scaler == <<used, scaleDue, checkDue, note>>
backup == <<backupDue, draft, podHistory>>
vars == <<phase, weatherDue, forecastDue, weather, pc, doc, json, db, scaler, backup, faults>>

\* Nothing distinguishes ages beyond this one.
Oldest    == Reach + MaxAge
Documents == [age : 0..Oldest, items : UNION {[1..n -> Demands] : n \in 1..Horizon}]

Init ==
  /\ phase = 0 /\ weatherDue = TRUE /\ forecastDue = TRUE
  /\ weather = None
  /\ pc = "idle" /\ doc = None /\ json = None /\ db = None
  /\ used = None /\ scaleDue = TRUE /\ checkDue = TRUE /\ note = None
  /\ backupDue = TRUE /\ draft = None /\ podHistory = <<>>
  /\ faults = 0

Fault == faults < MaxFaults /\ faults' = faults + 1

-----------------------------------------------------------------------------
(* WeatherService.collect.                                                 *)

Collect ==
  /\ weatherDue /\ weatherDue' = FALSE
  /\ weather' = [age |-> 0, bad |-> FALSE]
  /\ UNCHANGED <<phase, forecastDue, pc, doc, json, db, scaler, faults, backup>>

\* Open-Meteo does not know a temperature: the row is written without it.
CollectBad ==
  /\ weatherDue /\ weatherDue' = FALSE
  /\ weather' = [age |-> 0, bad |-> TRUE]
  /\ Fault
  /\ UNCHANGED <<phase, forecastDue, pc, doc, json, db, scaler, backup>>

\* All retries failed: the old file stays.
CollectError ==
  /\ weatherDue /\ weatherDue' = FALSE
  /\ Fault
  /\ UNCHANGED <<phase, forecastDue, weather, pc, doc, json, db, scaler, backup>>

-----------------------------------------------------------------------------
(* PredictionService.run_forecast.                                         *)

\* Mutant: every hour of the CSV.
AllSteps == Reach - weather.age

\* The next hours the CSV has rows for, at most Horizon.
Steps == LET left == Reach - weather.age IN IF left < Horizon THEN left ELSE Horizon

Readable == weather # None /\ ~weather.bad /\ Steps > 0

\* Load the model and the rows, predict hour by hour.
Predict ==
  /\ forecastDue /\ pc = "idle" /\ ~weatherDue
  /\ forecastDue' = FALSE
  /\ Readable
  /\ \E items \in [1..Steps -> Demands] : doc' = [age |-> 0, items |-> items]
  /\ pc' = "json"
  /\ UNCHANGED <<phase, weatherDue, weather, json, db, scaler, faults, backup>>

\* PredictionError, or float("") of a row without a value.
PredictNothing ==
  /\ forecastDue /\ pc = "idle" /\ ~weatherDue
  /\ forecastDue' = FALSE
  /\ ~Readable
  /\ UNCHANGED <<phase, weatherDue, weather, pc, doc, json, db, scaler, faults, backup>>

WriteJson ==
  /\ pc = "json"
  /\ json' = doc
  /\ pc' = "csv"
  /\ UNCHANGED <<phase, weatherDue, forecastDue, weather, doc, db, scaler, faults, backup>>

\* The copy under history/ and the CSV: nothing reads these files.
WriteCsv ==
  /\ pc = "csv"
  /\ pc' = "db"
  /\ UNCHANGED <<phase, weatherDue, forecastDue, weather, doc, json, db, scaler, faults, backup>>

WriteDb ==
  /\ pc = "db"
  /\ db' = [doc |-> doc, copies |-> 1]
  /\ pc' = "idle" /\ doc' = None
  /\ UNCHANGED <<phase, weatherDue, forecastDue, weather, json, scaler, faults, backup>>

\* The answer to a commit is lost and the retry inserts the rows again.
WriteDbTwice ==
  /\ pc = "db"
  /\ db' = [doc |-> doc, copies |-> 2]
  /\ pc' = "idle" /\ doc' = None
  /\ Fault
  /\ UNCHANGED <<phase, weatherDue, forecastDue, weather, json, scaler, backup>>

\* Mutant: the document goes to the database before anything else.
RunErrorDbFirst ==
  /\ pc # "idle"
  /\ db' = [doc |-> doc, copies |-> 1]
  /\ pc' = "idle" /\ doc' = None
  /\ Fault
  /\ UNCHANGED <<phase, weatherDue, forecastDue, weather, json, scaler, backup>>

\* The write under way is done or not.
WrittenOrNot == \/ UNCHANGED <<json, db>>
                \/ pc = "json" /\ json' = doc /\ UNCHANGED db
                \/ pc = "db" /\ db' = [doc |-> doc, copies |-> 1] /\ UNCHANGED json

\* All retries of a write fail: the run is over.
RunError ==
  /\ pc # "idle"
  /\ WrittenOrNot
  /\ pc' = "idle" /\ doc' = None
  /\ Fault
  /\ UNCHANGED <<phase, weatherDue, forecastDue, weather, scaler, backup>>

\* The run fails before its first write: the model cannot be loaded.
ModelError ==
  /\ forecastDue /\ pc = "idle"
  /\ forecastDue' = FALSE
  /\ Fault
  /\ UNCHANGED <<phase, weatherDue, weather, pc, doc, json, db, scaler, backup>>

-----------------------------------------------------------------------------
(* The readers of the newest batch.                                        *)

Abs(n) == IF n < 0 THEN -n ELSE n

\* Hours from this hour to the target_time of an item.
Ahead(d, i) == i - 1 - d.age

\* Hours between the target_time of an item and the hour that comes in
\* ahead hours.
Distance(d, i, ahead) == Abs(Ahead(d, i) - ahead)

\* Mutant: the first item, as before the change of 2026-07-27.
FirstItem(d) == 1

Nearest(d, ahead) ==
  CHOOSE i \in DOMAIN d.items :
    \A j \in DOMAIN d.items : \/ Distance(d, i, ahead) < Distance(d, j, ahead)
                              \/ Distance(d, i, ahead) = Distance(d, j, ahead) /\ i <= j

\* ScalerService._current_demand: the nearest item unless it is more than a
\* window away, then the first.  Copies of an item count once.
ScalerItem(d) == IF Distance(d, Nearest(d, 0), 0) > 1 THEN 1 ELSE Nearest(d, 0)

\* PodForecastService._nearest_total: copies are added up, and an item a
\* whole window away does not count.
DashboardDemand(batch, ahead) ==
  LET d == batch.doc
      i == Nearest(d, ahead)
  IN  IF Distance(d, i, ahead) >= 1 THEN None ELSE batch.copies * d.items[i]

\* In the last hour only up to the minute the document was made, the minute
\* of the forecast run when this hour has one.
Usable == db # None
          /\ \/ db.doc.age < MaxAge
             \/ db.doc.age = MaxAge /\ (phase = 0 => forecastDue)

\* From that minute on.
Expired == db # None => \/ db.doc.age > MaxAge
                        \/ db.doc.age = MaxAge /\ ~forecastDue

\* No forecast run of this hour is still to come.
Settled == ~forecastDue /\ pc = "idle"

\* run_scaling up to the demand it decides with.
Scale ==
  /\ Usable
  /\ used' = [age |-> 0, ahead |-> Ahead(db.doc, ScalerItem(db.doc)), lapse |-> FALSE]
  /\ scaleDue' = (scaleDue /\ ~Settled)
  /\ UNCHANGED <<phase, weatherDue, forecastDue, weather, pc, doc, json, db, checkDue, note, faults,
                 backup>>

\* No valid prediction, or too old a one.
ScaleNothing ==
  /\ Expired /\ Settled
  /\ scaleDue /\ scaleDue' = FALSE
  /\ UNCHANGED <<phase, weatherDue, forecastDue, weather, pc, doc, json, db, used, checkDue, note,
                 faults, backup>>

\* RDS fails every run of the hour: the demand of the last one stays.
ScaleError ==
  /\ scaleDue /\ scaleDue' = FALSE
  /\ Settled
  /\ used' = IF used = None THEN None ELSE [used EXCEPT !.lapse = TRUE]
  /\ Fault
  /\ UNCHANGED <<phase, weatherDue, forecastDue, weather, pc, doc, json, db, checkDue, note, backup>>

\* Mutant: the hour is not cut off, and :59 is nearest to the next one.
NextWeatherAhead ==
  IF db = None \/ Distance(db.doc, Nearest(db.doc, 1), 1) > 1 THEN None
  ELSE Ahead(db.doc, Nearest(db.doc, 1))

\* AccuracyCheckService._find_weather_item.
WeatherAhead ==
  IF db = None \/ Distance(db.doc, Nearest(db.doc, 0), 0) > 1 THEN None
  ELSE Ahead(db.doc, Nearest(db.doc, 0))

\* check_and_record at :59, where the demand turns out underestimated.
Check ==
  /\ checkDue /\ checkDue' = FALSE
  /\ ~scaleDue
  /\ note' = IF used = None THEN None
             ELSE [demand |-> used.ahead - used.age, weather |-> WeatherAhead, lapse |-> used.lapse]
  /\ UNCHANGED <<phase, weatherDue, forecastDue, weather, pc, doc, json, db, used, scaleDue, faults,
                 backup>>

-----------------------------------------------------------------------------
(* PodForecastService: the hourly point and the graph.                     *)

\* snapshot_current_hour up to the write; only one run reads and writes the
\* file, so reading it belongs to the write.
TakeSnapshot ==
  /\ backupDue /\ backupDue' = FALSE
  /\ draft' = [predicted |-> IF db = None THEN None ELSE DashboardDemand(db, 0)]
  /\ UNCHANGED <<phase, weatherDue, forecastDue, weather, pc, doc, json, db, scaler, podHistory,
                 faults>>

\* Mutant: a second snapshot of the hour is one more point.
EveryPoint(h) == h

\* Mutant: the history is begun anew instead of read.
NoPoints(h) == <<>>

\* The history without a point of this hour, in its order.
PastPoints(h) ==
  LET past    == {i \in DOMAIN h : h[i].age # 0}
      Rank(i) == Cardinality({j \in past : j <= i})
  IN  [n \in 1..Cardinality(past) |-> h[CHOOSE i \in past : Rank(i) = n]]

LastPoints(h) == IF Len(h) > MaxPoints THEN SubSeq(h, Len(h) - MaxPoints + 1, Len(h)) ELSE h

\* The sort that the code does before the cut finds the points in order.
Snapshot == podHistory' = LastPoints(
              Append(PastPoints(podHistory), [age |-> 0, predicted |-> draft.predicted]))

WriteSnapshot ==
  /\ draft # None /\ draft' = None
  /\ Snapshot
  /\ UNCHANGED <<phase, weatherDue, forecastDue, weather, pc, doc, json, db, scaler, backupDue,
                 faults>>

\* The run fails, its write done or not, or the drift of the scheduler, which
\* is not aligned, skips an hour.
SnapshotError ==
  /\ backupDue \/ draft # None
  /\ \/ draft # None /\ Snapshot
     \/ UNCHANGED podHistory
  /\ backupDue' = FALSE /\ draft' = None
  /\ Fault
  /\ UNCHANGED <<phase, weatherDue, forecastDue, weather, pc, doc, json, db, scaler>>

\* pod_forecast: the past from the file, this hour and the next ones from
\* the newest batch.
Graph(ahead) ==
  LET points == {i \in DOMAIN podHistory : podHistory[i].age = -ahead}
  IN  IF ahead < 0 THEN IF points = {} THEN None ELSE podHistory[Max(points)].predicted
      ELSE IF db = None THEN None ELSE DashboardDemand(db, ahead)

-----------------------------------------------------------------------------
\* The predict pod restarts.  Its forecast scheduler waits for the next
\* boundary, so a run that was under way is not repeated; the backup
\* scheduler runs at once.
Restart ==
  /\ WrittenOrNot
  /\ pc' = "idle" /\ doc' = None
  /\ used' = None /\ scaleDue' = TRUE
  /\ checkDue' \in {checkDue, FALSE}
  /\ \/ draft # None /\ Snapshot
     \/ UNCHANGED podHistory
  /\ backupDue' = TRUE /\ draft' = None
  /\ Fault
  /\ UNCHANGED <<phase, weatherDue, forecastDue, weather, note>>

Older(d) == IF d = None THEN None ELSE [d EXCEPT !.age = IF @ < Oldest THEN @ + 1 ELSE @]

\* The next hour; the runs of this one are over.
Tick ==
  /\ pc = "idle" /\ draft = None
  /\ ~weatherDue /\ ~forecastDue /\ ~backupDue /\ ~scaleDue /\ ~checkDue
  /\ phase' = (phase + 1) % Interval
  /\ weatherDue' = (phase' = 0) /\ forecastDue' = (phase' = 0)
  /\ weather' = Older(weather) /\ json' = Older(json) /\ used' = Older(used)
  /\ db' = IF db = None THEN None ELSE [db EXCEPT !.doc = Older(@)]
  /\ backupDue' = TRUE /\ scaleDue' = TRUE /\ checkDue' = TRUE /\ note' = None
  /\ podHistory' = [i \in DOMAIN podHistory |-> [podHistory[i] EXCEPT !.age = @ + 1]]
  /\ UNCHANGED <<pc, doc, draft, faults>>

Run == Collect \/ Predict \/ PredictNothing \/ WriteJson \/ WriteCsv \/ WriteDb

Backup == TakeSnapshot \/ WriteSnapshot

Judge == Scale \/ ScaleNothing \/ Check

Trouble == \/ CollectBad \/ CollectError \/ WriteDbTwice \/ RunError \/ ModelError
           \/ SnapshotError \/ ScaleError \/ Restart

Next == Run \/ Backup \/ Judge \/ Trouble \/ Tick

\* The schedulers go on whatever a run raises.
Spec == Init /\ [][Next]_vars /\ WF_vars(Run) /\ WF_vars(Backup)
        /\ WF_vars(Judge) /\ WF_vars(Tick)

-----------------------------------------------------------------------------
(* Properties.                                                             *)

TypeOK ==
  /\ phase \in 0..(Interval - 1)
  /\ weatherDue \in BOOLEAN /\ forecastDue \in BOOLEAN
  /\ weather \in [age : 0..Oldest, bad : BOOLEAN] \union {None}
  /\ pc \in {"idle", "json", "csv", "db"}
  /\ doc \in Documents \union {None} /\ json \in Documents \union {None}
  /\ db \in [doc : Documents, copies : {1, 2}] \union {None}
  /\ used \in [age : 0..Oldest, ahead : -Oldest..Horizon, lapse : BOOLEAN] \union {None}
  /\ scaleDue \in BOOLEAN /\ checkDue \in BOOLEAN
  /\ note \in [demand : Int, weather : {-1, 0, None}, lapse : BOOLEAN] \union {None}
  /\ backupDue \in BOOLEAN
  /\ draft \in [predicted : Nat \union {None}] \union {None}
  /\ podHistory \in Seq([age : Nat, predicted : Nat \union {None}])
  /\ Len(podHistory) <= MaxPoints
  /\ faults \in 0..MaxFaults

\* What the scaler decides on was published first: a run that fails half-way
\* leaves the database behind the JSON file and never ahead of it.
PublishedFirst == db # None => json # None /\ json.age <= db.doc.age

\* No more runs failed than the reach of the CSV covers, which is
\* (Reach - Horizon) \div Interval of them.
Enough == faults * Interval + Horizon <= Reach

\* A forecast for this hour: while the CSV has rows enough, the scaler decides
\* with the item of this hour or of the hour before.  Only where a document is
\* used longer than it has hours, by an hour in the ConfigMap and not at all
\* by default, a missing successor sends it back to the first item.
DemandNear ==
  Enough /\ used # None => used.ahead \in {-1, 0} \/ used.ahead \in -MaxAge..(-Horizon - 1)

\* last_predicted_demand is whatever the scaler used last, but a note that can
\* be trained with pairs the demand and the weather of one and the same hour,
\* this one or the one before, also when forecast runs fail; only an hour in
\* which every scaler run failed spoils it.
NotePairs ==
  note # None /\ note.weather # None /\ ~note.lapse =>
    note.demand = note.weather /\ note.weather \in {-1, 0}

\* An hour has one point of the history, in the order of the hours, also
\* when a restarted pod takes the snapshot of the hour again.
OnePointAnHour == \A i, j \in DOMAIN podHistory : i < j => podHistory[i].age > podHistory[j].age

\* Once nothing fails any more the graph shows a prediction for every hour,
\* past or future, but those after the end of the document and the hours in
\* which the forecast runs: their point may have been taken before the run,
\* when the document of the last run has no item left.
GraphFilled ==
  <>[](\A ahead \in (1 - MaxPoints)..Horizon :
         \/ Graph(ahead) # None
         \/ (phase + ahead) % Interval = 0
         \/ db # None /\ db.doc.age + ahead >= Horizon)

\* scaler_service.py, _current_demand: the scaler and the graph of the
\* dashboard find the demand of this hour by the same logic.
SameDemand == Usable => db.doc.items[ScalerItem(db.doc)] = DashboardDemand(db, 0)

-----------------------------------------------------------------------------
(* The inductive invariant.                                                *)

\* A run has its document until its last write.
Writing ==
  /\ (pc = "idle") <=> (doc = None)
  /\ doc # None => doc.age = 0
  /\ pc \in {"csv", "db"} => json = doc

\* weather-cron and the forecast only run in their hour; the last scaler run
\* of an hour comes after them.
InTurn ==
  /\ weatherDue \/ forecastDue => phase = 0
  /\ ~scaleDue => Settled

\* A document covers no hour the CSV does not.
Covered ==
  /\ doc # None => Len(doc.items) <= Reach
  /\ db # None => Len(db.doc.items) <= Reach

WholeDocs ==
  Enough => /\ weather # None =>
                 weather.age <= phase + faults * Interval + (IF weatherDue THEN Interval ELSE 0)
            /\ doc # None => Len(doc.items) = Horizon
            /\ db # None => Len(db.doc.items) = Horizon

\* The demand of the scaler is that of the weather the check finds.
Paired ==
  /\ used.age <= db.doc.age
  /\ WeatherAhead # None => used.ahead - used.age = WeatherAhead

\* It is unless a run failed, or the scaler has yet to see a new document.
PairKnown ==
  used # None /\ ~used.lapse =>
    db # None /\ (Paired \/ (scaleDue /\ db.doc.age < MaxAge))

IInv == /\ TypeOK /\ Writing /\ InTurn /\ Covered /\ WholeDocs
        /\ PublishedFirst /\ PairKnown /\ NotePairs /\ OnePointAnHour
=============================================================================
