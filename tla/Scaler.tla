------------------------------- MODULE Scaler -------------------------------
(***************************************************************************)
(* The predictive scaler of backend/predict: ScalerService.run_scaling,    *)
(* once per interval in a thread of its own, against the minReplicaCount   *)
(* of the KEDA ScaledObject; the ScalingEvent table; and the HTTP thread   *)
(* of GET /scaling/status, which shares last_scaling_at with it.           *)
(*                                                                         *)
(* One tick of time is one scaling interval.  A moment is kept as its age  *)
(* in ticks, which stops growing at Cooldown: older is all alike.          *)
(* The forecast is what DbPredictionReader and _current_demand make of the *)
(* prediction table, Absent when there is none or it is too old; traffic   *)
(* is hourly_requests of dashboard/traffic.json.  Both may change at any   *)
(* moment, MaxChanges times.  Failures use up MaxFaults.                   *)
(***************************************************************************)
EXTENDS Integers

CONSTANTS
  DemandPerPod,  \* scaling_demand_per_pod
  BufferPods,    \* scaling_buffer_pods
  MinReplicas,   \* scaling_min_replicas
  MaxReplicas,   \* scaling_max_replicas
  HighPercent,   \* scaling_watermark_high, in percent
  LowPercent,    \* scaling_watermark_low, in percent
  ReactiveStep,  \* scaling_reactive_step
  Cooldown,      \* scaling_cooldown_seconds, in ticks
  Demands,       \* demands the forecast may name
  Traffics,      \* values of hourly_requests
  StartReplicas, \* minReplicaCount the ScaledObject is deployed with
  Absent,        \* None
  MaxChanges,    \* bound: changes of forecast and traffic
  MaxFaults      \* bound: failures and restarts

ASSUME ScalerAssumption ==
  /\ DemandPerPod \in Nat \ {0} /\ BufferPods \in Nat
  /\ MinReplicas \in Nat \ {0} /\ MaxReplicas \in Nat /\ MinReplicas <= MaxReplicas
  /\ HighPercent \in Nat /\ LowPercent \in Nat /\ LowPercent < HighPercent
  /\ ReactiveStep \in Nat \ {0}
  /\ Cooldown \in Nat \ {0}
  /\ Demands \subseteq Nat /\ Traffics \subseteq Nat /\ StartReplicas \subseteq Nat
  /\ Absent \notin Int
  /\ MaxChanges \in Nat /\ MaxFaults \in Nat

VARIABLES
  forecast,   \* demand forecast for this hour, or Absent
  traffic,    \* hourly_requests, or Absent
  replicas,   \* spec.minReplicaCount of the ScaledObject
  hold,       \* _reactive_hold_replicas
  last,       \* age of last_scaling_at, or Absent
  event,      \* age of the newest ScalingEvent row, or Absent
  pc,         \* the next request of run_scaling
  job,        \* its local variables: baseline, current, desired
  due,        \* the interval has passed
  statusPc,   \* the HTTP thread inside cooldown_remaining
  statusRead, \* what it read from the database
  changes, faults,
  sinceChange, \* history: age of the last change of replicas
  record       \* history: where that change is on record, see Records

inputs  == <<forecast, traffic>>
status  == <<statusPc, statusRead>>
budgets == <<changes, faults>>
history == <<sinceChange, record>>
vars == <<forecast, traffic, replicas, hold, last, event, pc, job, due, statusPc, statusRead,
          changes, faults, sinceChange, record>>

Ages == 0..Cooldown \union {Absent}

\* In memory and in the database, in memory alone, or nowhere.
Records == {"saved", "memory", "lost"}

-----------------------------------------------------------------------------
(* ScalingDecisionEngine.decide.                                           *)

Ceil(a, b) == (a + b - 1) \div b

Clamp(n) == IF n > MaxReplicas THEN MaxReplicas ELSE IF n < MinReplicas THEN MinReplicas ELSE n

Baseline(demand) == Clamp(IF demand = 0 THEN 1 ELSE Ceil(demand, DemandPerPod) + BufferPods)

Larger(a, b) == IF a > b THEN a ELSE b

-----------------------------------------------------------------------------
(* G2, _apply_reactive_adjustment: the pair of desired replicas and hold.  *)

\* No capacity counts as full utilization.
AtOrAboveHigh(current) ==
  LET capacity == current * DemandPerPod
  IN  IF capacity > 0 THEN 100 * traffic >= HighPercent * capacity ELSE HighPercent <= 100

AtOrBelowLow(current) ==
  LET capacity == current * DemandPerPod
  IN  IF capacity > 0 THEN 100 * traffic <= LowPercent * capacity ELSE LowPercent >= 100

\* Mutant: the reactive layer without traffic data keeps what it holds.
WithoutTrafficHolds(baseline) ==
  [desired |-> IF hold = Absent THEN baseline ELSE Larger(hold, baseline), hold |-> hold]

WithoutTraffic(baseline) == [desired |-> baseline, hold |-> Absent]

\* Mutants: one of the two is forgotten.
HeldOnly(baseline)  == [desired |-> hold, hold |-> hold]
HeldNever(baseline) == [desired |-> baseline, hold |-> hold]

\* Mutant: what is held is raised again.
HeldHigher(baseline) ==
  [desired |-> Larger(hold + ReactiveStep, baseline), hold |-> hold + ReactiveStep]

Held(baseline) == [desired |-> Larger(hold, baseline), hold |-> hold]

Adjust(baseline, current) ==
  IF traffic = Absent THEN WithoutTraffic(baseline)
  ELSE IF hold # Absent /\ ~AtOrBelowLow(current) THEN Held(baseline)
  ELSE IF AtOrAboveHigh(current)
       THEN [desired |-> current + ReactiveStep, hold |-> current + ReactiveStep]
  ELSE IF AtOrBelowLow(current) /\ baseline < current
       THEN [desired |-> Larger(baseline, current - ReactiveStep), hold |-> Absent]
  ELSE [desired |-> baseline, hold |-> Absent]

-----------------------------------------------------------------------------
NoJob == [baseline |-> 0, current |-> 0, desired |-> 0]

Init ==
  /\ forecast \in Demands \union {Absent}
  /\ traffic \in Traffics \union {Absent}
  /\ replicas \in StartReplicas
  /\ hold = Absent /\ last = Absent /\ event = Absent
  /\ pc = "idle" /\ job = NoJob /\ due = TRUE
  /\ statusPc = "idle" /\ statusRead = Absent
  /\ changes = 0 /\ faults = 0
  /\ sinceChange = Absent /\ record = "saved"

Fault == faults < MaxFaults /\ faults' = faults + 1

Done == pc' = "idle" /\ job' = NoJob

-----------------------------------------------------------------------------
(* run_scaling.                                                            *)

\* No usable forecast: nothing is done in this run.
Skip ==
  /\ pc = "idle" /\ due
  /\ forecast = Absent
  /\ due' = FALSE
  /\ UNCHANGED <<inputs, replicas, hold, last, event, pc, job, status, budgets, history>>

ReadForecast ==
  /\ pc = "idle" /\ due
  /\ forecast # Absent
  /\ due' = FALSE
  /\ pc' = "keda_read"
  /\ job' = [NoJob EXCEPT !.baseline = Baseline(forecast)]
  /\ UNCHANGED <<inputs, replicas, hold, last, event, status, budgets, history>>

\* All retries of the read failed.
ReadError ==
  /\ pc = "keda_read"
  /\ Done /\ Fault
  /\ UNCHANGED <<inputs, replicas, hold, last, event, due, status, changes, history>>

\* Read minReplicaCount.
ReadReplicas ==
  /\ pc = "keda_read"
  /\ pc' = "decide"
  /\ job' = [job EXCEPT !.current = replicas]
  /\ UNCHANGED <<inputs, replicas, hold, last, event, due, status, budgets, history>>

\* Read the traffic, adjust, and keep the hold whatever becomes of the rest.
Decide ==
  LET adjusted == Adjust(job.baseline, job.current)
  IN  /\ pc = "decide"
      /\ hold' = adjusted.hold
      /\ IF adjusted.desired = job.current
         THEN Done
         ELSE /\ job' = [job EXCEPT !.desired = adjusted.desired]
              /\ pc' = IF adjusted.desired < job.current THEN "cooldown" ELSE "patch"
      /\ UNCHANGED <<inputs, replicas, last, event, due, status, budgets, history>>

\* Mutant: the cooldown looks at the memory of this process alone.
CheckCooldownMemory ==
  /\ pc = "cooldown"
  /\ IF last \in 0..(Cooldown - 1)
     THEN Done
     ELSE pc' = "patch" /\ UNCHANGED job
  /\ UNCHANGED <<inputs, replicas, hold, last, event, due, status, budgets, history>>

\* cooldown_remaining: the memory, else the newest event of the database,
\* which is then remembered.
CheckCooldown ==
  LET known == IF last # Absent THEN last ELSE event
  IN  /\ pc = "cooldown"
      /\ last' = known
      /\ IF known \in 0..(Cooldown - 1)
         THEN Done
         ELSE pc' = "patch" /\ UNCHANGED job
      /\ UNCHANGED <<inputs, replicas, hold, event, due, status, budgets, history>>

\* The query for the newest event fails.
CooldownError ==
  /\ pc = "cooldown"
  /\ last = Absent
  /\ Done /\ Fault
  /\ UNCHANGED <<inputs, replicas, hold, last, event, due, status, changes, history>>

\* patch_min_replicas: patch and read back; then last_scaling_at = now.
Patch ==
  /\ pc = "patch"
  /\ replicas' = job.desired
  /\ last' = 0
  /\ pc' = "save"
  /\ sinceChange' = 0
  /\ record' = "memory"
  /\ UNCHANGED <<inputs, hold, event, job, due, status, budgets>>

\* Every attempt failed; the server may have applied one of them all the
\* same, when only the reading back failed.
PatchError ==
  /\ pc = "patch"
  /\ \/ UNCHANGED <<replicas, history>>
     \/ /\ replicas' = job.desired
        /\ sinceChange' = 0
        /\ record' = "lost"
  /\ Done /\ Fault
  /\ UNCHANGED <<inputs, hold, last, event, due, status, changes>>

SaveEvent ==
  /\ pc = "save"
  /\ event' = 0
  /\ record' = IF record = "memory" THEN "saved" ELSE record
  /\ Done
  /\ UNCHANGED <<inputs, replicas, hold, last, due, status, budgets, sinceChange>>

\* The change is made and remembered, the row is not written.
SaveError ==
  /\ pc = "save"
  /\ Done /\ Fault
  /\ UNCHANGED <<inputs, replicas, hold, last, event, due, status, changes, history>>

-----------------------------------------------------------------------------
(* GET /scaling/status: cooldown_remaining in another thread.              *)

StatusSelect ==
  /\ statusPc = "idle"
  /\ last = Absent
  /\ statusPc' = "assign"
  /\ statusRead' = event
  /\ UNCHANGED <<inputs, replicas, hold, last, event, pc, job, due, budgets, history>>

\* The assignment is made whatever last_scaling_at has become meanwhile.
StatusAssign ==
  /\ statusPc = "assign"
  /\ statusPc' = "idle" /\ statusRead' = Absent
  /\ last' = IF statusRead # Absent THEN statusRead ELSE last
  /\ record' = IF statusRead \in {Absent, sinceChange} THEN record ELSE "lost"
  /\ UNCHANGED <<inputs, replicas, hold, event, pc, job, due, budgets, sinceChange>>

-----------------------------------------------------------------------------
(* The surroundings.                                                       *)

\* The predict pod is restarted: what is only in memory is gone.  A patch
\* under way may still be applied.
Restart ==
  /\ pc' = "idle" /\ job' = NoJob
  /\ hold' = Absent /\ last' = Absent
  /\ statusPc' = "idle" /\ statusRead' = Absent
  /\ due' = TRUE
  /\ \/ /\ UNCHANGED <<replicas, sinceChange>>
        /\ record' = IF record = "memory" THEN "lost" ELSE record
     \/ /\ pc = "patch"
        /\ replicas' = job.desired
        /\ sinceChange' = 0
        /\ record' = "lost"
  /\ Fault
  /\ UNCHANGED <<inputs, event, changes>>

\* A new forecast, another hour, or a forecast grown too old; new traffic.
Change ==
  /\ changes < MaxChanges
  /\ changes' = changes + 1
  /\ \/ forecast' \in (Demands \union {Absent}) \ {forecast} /\ UNCHANGED traffic
     \/ traffic' \in (Traffics \union {Absent}) \ {traffic} /\ UNCHANGED forecast
  /\ UNCHANGED <<replicas, hold, last, event, pc, job, due, status, faults, history>>

Older(age) == IF age \in 0..(Cooldown - 1) THEN age + 1 ELSE age

\* The next interval of the scaling scheduler.
Tick ==
  /\ pc = "idle" /\ ~due
  /\ due' = TRUE
  /\ last' = Older(last) /\ event' = Older(event)
  /\ statusRead' = Older(statusRead) /\ sinceChange' = Older(sinceChange)
  /\ UNCHANGED <<inputs, replicas, hold, pc, job, statusPc, budgets, record>>

-----------------------------------------------------------------------------
Run == \/ Skip \/ ReadForecast \/ ReadReplicas \/ Decide
       \/ CheckCooldown \/ Patch \/ SaveEvent

Trouble == ReadError \/ CooldownError \/ PatchError \/ SaveError \/ Restart

Next == Run \/ Trouble \/ StatusSelect \/ StatusAssign \/ Change \/ Tick

\* The scheduler runs again after every interval, failed run or not.
Spec == Init /\ [][Next]_vars /\ WF_vars(Run) /\ WF_vars(Tick)

-----------------------------------------------------------------------------
(* Properties.                                                             *)

TypeOK ==
  /\ forecast \in Demands \union {Absent}
  /\ traffic \in Traffics \union {Absent}
  /\ replicas \in Nat
  /\ hold \in Nat \union {Absent}
  /\ last \in Ages /\ event \in Ages /\ statusRead \in Ages /\ sinceChange \in Ages
  /\ pc \in {"idle", "keda_read", "decide", "cooldown", "patch", "save"}
  /\ job \in [baseline : 0..MaxReplicas, current : Nat, desired : Nat]
  /\ due \in BOOLEAN /\ record \in Records
  /\ statusPc \in {"idle", "assign"}
  /\ changes \in 0..MaxChanges /\ faults \in 0..MaxFaults

\* README: scaling down waits for the cooldown, and restarts do not matter
\* since the event is in the database.  Replicas go down sooner after a
\* change only when that change is on record nowhere the scaler looks: it was
\* applied and reading it back failed, the pod died before its event was
\* saved, or the status request put an older moment over it.
CooldownKept == [][replicas' < replicas =>
                     sinceChange \notin 0..(Cooldown - 1) \/ record = "lost"]_vars

\* Hysteresis: while the scaler holds reactively raised replicas, it never
\* lowers them below the hold, even when the forecast falls or patches fail.
HoldKept == [][replicas' < replicas /\ hold # Absent => replicas' >= hold]_vars

\* There may be n replicas: so many are configured, or some traffic fills all
\* of them but the last bump up to the high watermark.
Justified(n) ==
  \/ n <= MaxReplicas
  \/ \E start \in StartReplicas : n <= start
  \/ \E t \in Traffics : HighPercent * DemandPerPod * (n - ReactiveStep) <= 100 * t

\* The limit of the configuration binds the forecast only, a bump goes beyond
\* it.  But bumps do not add up: neither a hold given up and taken again, nor a
\* scale-down the cooldown puts off, nor patches repeated after failures and
\* restarts raise the replicas further than traffic that was there accounts for.
BumpsJustified == Justified(replicas)

\* With a usable forecast the replicas end at or above what it asks for,
\* whatever traffic, failures and restarts did before.
ForecastReached ==
  <>[](forecast # Absent) => <>[](forecast # Absent => replicas >= Baseline(forecast))

\* Without traffic data the reactive layer is off: the replicas end exactly
\* where the forecast puts them, no earlier bump or hold survives.
BaselineWithoutTraffic ==
  <>[](forecast # Absent /\ traffic = Absent)
    => <>[](forecast # Absent => replicas = Baseline(forecast))

\* G2's docstring: the traffic adjusts on top of the forecast baseline.  So
\* no change by the scaler leaves fewer replicas than the baseline it used.
NeverBelowForecast == [][replicas' # replicas => replicas' >= job.baseline]_vars
-----------------------------------------------------------------------------
(* The inductive invariant behind the safety properties.                   *)

\* A run that has decided patches the replicas it has read, to something it
\* also wants to hold.
DecisionFresh ==
  /\ pc \in {"decide", "cooldown", "patch"} => job.current = replicas
  /\ pc \in {"cooldown", "patch"} /\ hold # Absent => job.desired >= hold

\* What is known of the last change: whatever the cooldown goes by is
\* as old as the last change, unless that is on record nowhere.
ChangeKnown ==
  /\ record = "saved" => event = sinceChange /\ last \in {Absent, sinceChange}
  /\ record = "memory" => last = sinceChange /\ sinceChange # Absent
  /\ pc = "save" => sinceChange = 0 /\ record # "saved"

\* A run lowers replicas only after the cooldown has let it through.
CooldownPassed ==
  pc = "patch" /\ job.desired < job.current =>
    sinceChange \notin 0..(Cooldown - 1) \/ record = "lost"

\* There may be as many replicas as are held, or as a run wants.
WantsJustified ==
  /\ hold # Absent => Justified(hold)
  /\ pc \in {"cooldown", "patch"} => Justified(job.desired)

IInv == TypeOK /\ DecisionFresh /\ ChangeKnown /\ CooldownPassed /\ BumpsJustified /\ WantsJustified
=============================================================================
