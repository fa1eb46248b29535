----------------------------- MODULE ScalerProofs -----------------------------
(***************************************************************************)
(* Proofs about Scaler for any thresholds, limits, cooldown, demands and   *)
(* traffic: held replicas are not lowered, a scale-down waits for the      *)
(* cooldown after every change that is on record, and bumps do not add up. *)
(***************************************************************************)
EXTENDS Scaler, TLAPS

USE ScalerAssumption

-----------------------------------------------------------------------------
(* The decision.                                                           *)

\* Clamp ends between the limits.
LEMMA ClampRange == ASSUME NEW n \in Int PROVE Clamp(n) \in MinReplicas..MaxReplicas
  BY DEF Clamp

\* So does the baseline of any demand.
LEMMA BaselineRange ==
  ASSUME NEW demand \in Nat PROVE Baseline(demand) \in MinReplicas..MaxReplicas
<1>1. Ceil(demand, DemandPerPod) \in Int
  BY DEF Ceil
<1>2. Ceil(demand, DemandPerPod) + BufferPods \in Int
  BY <1>1
<1> QED  BY <1>2, ClampRange DEF Baseline

\* _apply_reactive_adjustment returns numbers, and never wants less than it
\* holds from then on.
LEMMA AdjustCovers ==
  ASSUME hold \in Nat \union {Absent}, NEW baseline \in Nat, NEW current \in Nat
  PROVE  LET adjusted == Adjust(baseline, current)
         IN  /\ adjusted.desired \in Nat
             /\ adjusted.hold \in Nat \union {Absent}
             /\ adjusted.hold # Absent => adjusted.desired >= adjusted.hold
<1>1. CASE traffic = Absent
  BY <1>1 DEF Adjust, WithoutTraffic
<1>2. CASE traffic # Absent /\ hold # Absent /\ ~AtOrBelowLow(current)
  BY <1>2 DEF Adjust, Held, Larger
<1>3. CASE traffic # Absent /\ ~(hold # Absent /\ ~AtOrBelowLow(current))
  BY <1>3 DEF Adjust, Larger
<1> QED  BY <1>1, <1>2, <1>3

\* Fewer replicas need no more than those that may be.
LEMMA JustifiedLess ==
  ASSUME NEW n \in Int, NEW m \in Int, n <= m, Justified(m) PROVE Justified(n)
<1>1. CASE m <= MaxReplicas
  BY <1>1 DEF Justified
<1>2. CASE \E start \in StartReplicas : m <= start
  <2>1. PICK start \in StartReplicas : m <= start
    BY <1>2
  <2>2. n <= start
    BY <2>1
  <2> QED  BY <2>1, <2>2 DEF Justified
<1>3. ASSUME NEW t \in Traffics, HighPercent * DemandPerPod * (m - ReactiveStep) <= 100 * t
      PROVE  Justified(n)
  <2> DEFINE k == HighPercent * DemandPerPod
             a == n - ReactiveStep
             b == m - ReactiveStep
  <2>1. k \in Nat /\ a \in Int /\ b \in Int /\ a <= b
    OBVIOUS
  <2>2. k * b <= 100 * t /\ 100 * t \in Int
    BY <1>3
  <2> HIDE DEF k, a, b
  <2>3. k * a <= k * b /\ k * a \in Int /\ k * b \in Int
    BY <2>1
  <2>4. k * a <= 100 * t
    BY <2>2, <2>3
  <2> QED  BY <2>4 DEF Justified, k, a
<1> QED  BY <1>1, <1>2, <1>3 DEF Justified

\* A bump starts where the traffic is at the high watermark.
LEMMA BumpJustified ==
  ASSUME traffic \in Traffics, NEW current \in Nat, AtOrAboveHigh(current)
  PROVE  Justified(current + ReactiveStep)
<1> DEFINE c == current * DemandPerPod
<1>1. c \in Nat /\ traffic \in Nat /\ current + ReactiveStep - ReactiveStep = current
  OBVIOUS
<1>2. HighPercent * DemandPerPod * current = HighPercent * c
  OBVIOUS
<1>3. HighPercent * c <= 100 * traffic
  <2> HIDE DEF c
  <2>1. CASE c > 0
    BY <1>1, <2>1 DEF AtOrAboveHigh, c
  <2>2. CASE c = 0
    BY <1>1, <2>2
  <2> QED  BY <1>1, <2>1, <2>2
<1> HIDE DEF c
<1> QED  BY <1>1, <1>2, <1>3 DEF Justified

\* _apply_reactive_adjustment asks for nothing the traffic or the limits do
\* not account for, and holds no such thing.
LEMMA AdjustJustified ==
  ASSUME traffic \in Traffics \union {Absent}, hold \in Nat \union {Absent},
         hold # Absent => Justified(hold),
         NEW baseline \in 0..MaxReplicas, NEW current \in Nat, Justified(current)
  PROVE  LET adjusted == Adjust(baseline, current)
         IN  /\ Justified(adjusted.desired)
             /\ adjusted.hold # Absent => Justified(adjusted.hold)
<1>1. Justified(baseline)
  BY DEF Justified
<1>2. CASE traffic = Absent
  BY <1>1, <1>2 DEF Adjust, WithoutTraffic
<1>3. CASE traffic # Absent /\ hold # Absent /\ ~AtOrBelowLow(current)
  BY <1>1, <1>3 DEF Adjust, Held, Larger
<1>4. CASE traffic # Absent /\ ~(hold # Absent /\ ~AtOrBelowLow(current))
  <2>1. AtOrAboveHigh(current) => Justified(current + ReactiveStep)
    BY <1>4, BumpJustified
  <2>2. Justified(current - ReactiveStep)
    BY JustifiedLess
  <2>3. Justified(Larger(baseline, current - ReactiveStep))
    BY <1>1, <2>2 DEF Larger
  <2> QED  BY <1>1, <1>4, <2>1, <2>3 DEF Adjust
<1> QED  BY <1>2, <1>3, <1>4

-----------------------------------------------------------------------------
(* Type correctness.                                                       *)

\* A failure is counted up to its bound.
LEMMA FaultType == ASSUME faults \in 0..MaxFaults, Fault PROVE faults' \in 0..MaxFaults
  BY DEF Fault

\* An age stays one as it grows, and only a known age does.
LEMMA OlderType ==
  ASSUME NEW age \in Ages
  PROVE  /\ Older(age) \in Ages
         /\ Older(age) \in 0..(Cooldown - 1) => age \in 0..(Cooldown - 1)
         /\ age = Absent <=> Older(age) = Absent
  BY DEF Ages, Older

\* Zero is an age.
LEMMA ZeroAge == 0 \in Ages
  BY DEF Ages

\* The initial state.
LEMMA TypeInit == Init => TypeOK
<1>1. 0 \in 0..MaxReplicas /\ 0 \in 0..MaxChanges /\ 0 \in 0..MaxFaults
  OBVIOUS
<1> QED  BY <1>1 DEF Init, TypeOK, NoJob, Ages, Records

\* A run ends.
LEMMA DoneType ==
  ASSUME Done
  PROVE  pc' = "idle" /\ job' \in [baseline : 0..MaxReplicas, current : Nat, desired : Nat]
<1>1. 0 \in 0..MaxReplicas
  OBVIOUS
<1> QED  BY <1>1 DEF Done, NoJob

\* The steps of a run.
LEMMA TypeRun == ASSUME TypeOK, Run PROVE TypeOK'
<1> USE DEF TypeOK
<1>1. CASE Skip
  BY <1>1 DEF Skip, inputs, status, budgets, history
<1>2. CASE ReadForecast
  <2>1. Baseline(forecast) \in 0..MaxReplicas
    BY <1>2, BaselineRange DEF ReadForecast
  <2>2. job' \in [baseline : 0..MaxReplicas, current : Nat, desired : Nat]
    BY <1>2, <2>1 DEF ReadForecast, NoJob
  <2> QED  BY <1>2, <2>2 DEF ReadForecast, inputs, status, budgets, history
<1>3. CASE ReadReplicas
  BY <1>3 DEF ReadReplicas, inputs, status, budgets, history
<1>4. CASE Decide
  <2> DEFINE adjusted == Adjust(job.baseline, job.current)
  <2>1. adjusted.desired \in Nat /\ adjusted.hold \in Nat \union {Absent}
    BY AdjustCovers
  <2>2. job' \in [baseline : 0..MaxReplicas, current : Nat, desired : Nat]
    BY <1>4, <2>1, DoneType DEF Decide
  <2>3. pc' \in {"idle", "cooldown", "patch"}
    BY <1>4 DEF Decide, Done
  <2>4. hold' = adjusted.hold
    BY <1>4 DEF Decide
  <2> HIDE DEF adjusted
  <2> QED  BY <1>4, <2>1, <2>2, <2>3, <2>4 DEF Decide, inputs, status, budgets, history
<1>5. CASE CheckCooldown
  <2>1. job' \in [baseline : 0..MaxReplicas, current : Nat, desired : Nat]
    BY <1>5, DoneType DEF CheckCooldown
  <2>2. pc' \in {"idle", "patch"}
    BY <1>5 DEF CheckCooldown, Done
  <2> QED  BY <1>5, <2>1, <2>2 DEF CheckCooldown, inputs, status, budgets, history
<1>6. CASE Patch
  BY <1>6, ZeroAge DEF Patch, inputs, status, budgets, history, Records
<1>7. CASE SaveEvent
  BY <1>7, ZeroAge, DoneType DEF SaveEvent, inputs, status, budgets, history, Records
<1> QED  BY <1>1, <1>2, <1>3, <1>4, <1>5, <1>6, <1>7 DEF Run

\* Failures and restarts.
LEMMA TypeTrouble == ASSUME TypeOK, Trouble PROVE TypeOK'
<1>1. faults' \in 0..MaxFaults
  BY FaultType DEF TypeOK, Trouble, ReadError, CooldownError, PatchError, SaveError, Restart
<1>2. pc' = "idle" /\ job' \in [baseline : 0..MaxReplicas, current : Nat, desired : Nat]
  BY DoneType DEF Trouble, ReadError, CooldownError, PatchError, SaveError, Restart, Done
<1> USE <1>1, <1>2 DEF TypeOK
<1>3. CASE ReadError \/ CooldownError \/ SaveError
  BY <1>3 DEF ReadError, CooldownError, SaveError, inputs, status, history
<1>4. CASE PatchError
  BY <1>4, ZeroAge DEF PatchError, inputs, status, history, Records
<1>5. CASE Restart
  BY <1>5, ZeroAge DEF Restart, inputs, history, Records, Ages
<1> QED  BY <1>3, <1>4, <1>5 DEF Trouble

\* The HTTP thread and the surroundings.
LEMMA TypeAround ==
  ASSUME TypeOK, StatusSelect \/ StatusAssign \/ Change \/ Tick PROVE TypeOK'
<1> USE DEF TypeOK
<1>1. CASE StatusSelect
  BY <1>1 DEF StatusSelect, inputs, budgets, history
<1>2. CASE StatusAssign
  BY <1>2 DEF StatusAssign, inputs, budgets, Ages, Records
<1>3. CASE Change
  BY <1>3 DEF Change, status, history
<1>4. CASE Tick
  BY <1>4, OlderType DEF Tick, inputs, budgets
<1> QED  BY <1>1, <1>2, <1>3, <1>4

-----------------------------------------------------------------------------
(* The inductive invariant.                                                *)

\* DecisionFresh: replicas change only when the run that has read them is
\* over its decision, and AdjustCovers.
LEMMA FreshNext == ASSUME TypeOK, DecisionFresh, [Next]_vars PROVE DecisionFresh'
<1> USE DEF DecisionFresh
<1>1. CASE Run
  <2>1. CASE Decide
    <3> DEFINE adjusted == Adjust(job.baseline, job.current)
    <3>1. adjusted.desired \in Nat /\ (adjusted.hold # Absent => adjusted.desired >= adjusted.hold)
      BY AdjustCovers DEF TypeOK
    <3>2. hold' = adjusted.hold /\ replicas' = replicas
      BY <2>1 DEF Decide
    <3>3. CASE adjusted.desired = job.current
      BY <2>1, <3>3 DEF Decide, Done
    <3>4. CASE adjusted.desired # job.current
      <4>1. job'.desired = adjusted.desired /\ job'.current = job.current
        BY <2>1, <3>4 DEF Decide, TypeOK
      <4>2. pc = "decide"
        BY <2>1 DEF Decide
      <4> HIDE DEF adjusted
      <4> QED  BY <3>1, <3>2, <4>1, <4>2
    <3> QED  BY <3>3, <3>4
  <2>2. CASE Run /\ ~Decide
    BY <2>2 DEF Run, Skip, ReadForecast, ReadReplicas, CheckCooldown, Patch, SaveEvent, Done, TypeOK
  <2> QED  BY <1>1, <2>1, <2>2
<1>2. CASE Trouble
  BY <1>2 DEF Trouble, ReadError, CooldownError, PatchError, SaveError, Restart, Done
<1>3. CASE StatusSelect \/ StatusAssign \/ Change \/ Tick \/ UNCHANGED vars
  BY <1>3 DEF StatusSelect, StatusAssign, Change, Tick, vars
<1> QED  BY <1>1, <1>2, <1>3 DEF Next

\* ChangeKnown: a run records a change in memory, then in the database; the
\* status request and a restart can only lose it.
LEMMA KnownNext == ASSUME TypeOK, ChangeKnown, [Next]_vars PROVE ChangeKnown'
<1> USE DEF ChangeKnown
<1>1. CASE Run
  <2>1. CASE CheckCooldown
    BY <2>1 DEF CheckCooldown, Done, history
  <2>2. CASE Skip \/ ReadForecast \/ ReadReplicas
    BY <2>2 DEF Skip, ReadForecast, ReadReplicas, history
  <2>3. CASE Decide
    BY <2>3 DEF Decide, Done, history
  <2>4. CASE Patch \/ SaveEvent
    BY <2>4 DEF Patch, SaveEvent, Done, history, TypeOK, Records
  <2> QED  BY <1>1, <2>1, <2>2, <2>3, <2>4 DEF Run
<1>2. CASE Trouble
  BY <1>2 DEF Trouble, ReadError, CooldownError, PatchError, SaveError, Restart, Done, history
<1>3. CASE StatusSelect \/ StatusAssign \/ Change
  BY <1>3 DEF StatusSelect, StatusAssign, Change, history
<1>4. CASE Tick
  BY <1>4 DEF Tick, Older
<1>5. CASE UNCHANGED vars
  BY <1>5 DEF vars
<1> QED  BY <1>1, <1>2, <1>3, <1>4, <1>5 DEF Next

\* CooldownPassed: what the cooldown goes by is as old as the last change.
LEMMA PassedNext ==
  ASSUME TypeOK, ChangeKnown, CooldownPassed, [Next]_vars PROVE CooldownPassed'
<1> USE DEF CooldownPassed
<1>1. CASE Run
  <2>1. CASE CheckCooldown
    <3> DEFINE known == IF last # Absent THEN last ELSE event
    <3>1. CASE known \in 0..(Cooldown - 1)
      BY <2>1, <3>1 DEF CheckCooldown, Done
    <3>2. CASE known \notin 0..(Cooldown - 1)
      <4>1. record = "lost" \/ known = sinceChange \/ sinceChange = Absent
        BY DEF ChangeKnown, TypeOK, Records
      <4>2. sinceChange' = sinceChange /\ record' = record
        BY <2>1 DEF CheckCooldown, history
      <4> QED  BY <3>2, <4>1, <4>2
    <3> QED  BY <3>1, <3>2
  <2>2. CASE Decide
    BY <2>2, AdjustCovers DEF Decide, Done, TypeOK
  <2>3. CASE Skip \/ ReadForecast \/ ReadReplicas \/ Patch \/ SaveEvent
    BY <2>3 DEF Skip, ReadForecast, ReadReplicas, Patch, SaveEvent, Done
  <2> QED  BY <1>1, <2>1, <2>2, <2>3 DEF Run
<1>2. CASE Trouble
  BY <1>2 DEF Trouble, ReadError, CooldownError, PatchError, SaveError, Restart, Done
<1>3. CASE StatusSelect \/ StatusAssign \/ Change
  BY <1>3 DEF StatusSelect, StatusAssign, Change, history
<1>4. CASE Tick \/ UNCHANGED vars
  BY <1>4 DEF Tick, vars
<1> QED  BY <1>1, <1>2, <1>3, <1>4 DEF Next

\* Only a patch changes the replicas, to what the run has decided.
LEMMA ReplicasChange ==
  ASSUME [Next]_vars, replicas' # replicas PROVE pc = "patch" /\ replicas' = job.desired
<1>1. ~(StatusSelect \/ StatusAssign \/ Change \/ Tick \/ UNCHANGED vars)
  BY DEF StatusSelect, StatusAssign, Change, Tick, vars
<1>2. CASE Run
  BY <1>2 DEF Run, Skip, ReadForecast, ReadReplicas, Decide, CheckCooldown, Patch, SaveEvent
<1>3. CASE Trouble
  BY <1>3 DEF Trouble, ReadError, CooldownError, PatchError, SaveError, Restart
<1> QED  BY <1>1, <1>2, <1>3 DEF Next

\* BumpsJustified: only decisions raise what is wanted, and they are
\* justified by AdjustJustified.
LEMMA JustifiedNext ==
  ASSUME TypeOK, DecisionFresh, BumpsJustified, WantsJustified, [Next]_vars
  PROVE  BumpsJustified' /\ WantsJustified'
<1>1. BumpsJustified'
  <2>1. replicas' = replicas \/ (pc = "patch" /\ replicas' = job.desired)
    BY ReplicasChange
  <2> QED  BY <2>1 DEF BumpsJustified, WantsJustified, Justified
<1>2. CASE Decide
  <2> DEFINE adjusted == Adjust(job.baseline, job.current)
  <2>1. /\ traffic \in Traffics \union {Absent} /\ hold \in Nat \union {Absent}
        /\ hold # Absent => Justified(hold)
        /\ job.baseline \in 0..MaxReplicas /\ job.current \in Nat /\ Justified(job.current)
    BY <1>2 DEF Decide, TypeOK, DecisionFresh, BumpsJustified, WantsJustified
  <2>2. Justified(adjusted.desired) /\ (adjusted.hold # Absent => Justified(adjusted.hold))
    BY <2>1, AdjustJustified
  <2>3. hold' = adjusted.hold /\ (pc' \in {"cooldown", "patch"} => job'.desired = adjusted.desired)
    BY <1>2 DEF Decide, Done, TypeOK
  <2> HIDE DEF adjusted
  <2>4. WantsJustified'
    BY <2>2, <2>3 DEF WantsJustified, Justified
  <2> QED  BY <1>1, <2>4
<1>3. CASE ~Decide
  <2>1. hold' \in {hold, Absent}
    BY <1>3 DEF Next, Run, Trouble, Skip, ReadForecast, ReadReplicas, CheckCooldown, Patch, SaveEvent,
                ReadError, CooldownError, PatchError, SaveError, Restart, StatusSelect, StatusAssign,
                Change, Tick, vars
  <2>2. pc' \in {"cooldown", "patch"} => pc \in {"cooldown", "patch"} /\ job' = job
    BY <1>3 DEF Next, Run, Trouble, Skip, ReadForecast, ReadReplicas, CheckCooldown, Patch, SaveEvent,
                ReadError, CooldownError, PatchError, SaveError, Restart, StatusSelect, StatusAssign,
                Change, Tick, vars, Done
  <2>3. WantsJustified'
    BY <2>1, <2>2 DEF WantsJustified, Justified
  <2> QED  BY <1>1, <2>3
<1> QED  BY <1>2, <1>3

\* Nothing was changed or decided yet.
LEMMA InvInit == Init => IInv
<1>1. Init => TypeOK
  BY TypeInit
<1>2. Init => DecisionFresh /\ ChangeKnown /\ CooldownPassed
  BY DEF Init, DecisionFresh, ChangeKnown, CooldownPassed
<1>3. Init => BumpsJustified /\ WantsJustified
  <2> SUFFICES ASSUME Init PROVE BumpsJustified /\ WantsJustified
    OBVIOUS
  <2>1. replicas \in StartReplicas /\ replicas <= replicas /\ hold = Absent /\ pc = "idle"
    BY DEF Init
  <2> QED  BY <2>1 DEF BumpsJustified, WantsJustified, Justified
<1> QED  BY <1>1, <1>2, <1>3 DEF IInv

\* Every step preserves the invariant.
LEMMA InvNext == IInv /\ [Next]_vars => IInv'
<1> SUFFICES ASSUME IInv, [Next]_vars PROVE IInv'
  OBVIOUS
<1>1. TypeOK /\ DecisionFresh /\ ChangeKnown /\ CooldownPassed /\ BumpsJustified /\ WantsJustified
  BY DEF IInv
<1>2. TypeOK'
  <2>1. CASE UNCHANGED vars
    BY <1>1, <2>1 DEF TypeOK, vars
  <2> QED  BY <1>1, <2>1, TypeRun, TypeTrouble, TypeAround DEF Next
<1>3. DecisionFresh' /\ ChangeKnown' /\ CooldownPassed'
  BY <1>1, FreshNext, KnownNext, PassedNext
<1>4. BumpsJustified' /\ WantsJustified'
  BY <1>1, JustifiedNext
<1> QED  BY <1>2, <1>3, <1>4 DEF IInv

-----------------------------------------------------------------------------
(* The theorems.                                                           *)

\* The inductive invariant holds in every state.
THEOREM Invariance == Spec => []IInv
  BY InvInit, InvNext, PTL DEF Spec

\* Type correctness: every variable keeps its type, the baseline within the
\* limits of the configuration.
THEOREM TypeCorrect == Spec => []TypeOK
<1>1. IInv => TypeOK
  BY DEF IInv
<1> QED  BY <1>1, Invariance, PTL

\* _apply_reactive_adjustment: bumps do not add up to more replicas than some
\* traffic accounts for.
THEOREM BumpsAreJustified == Spec => []BumpsJustified
<1>1. IInv => BumpsJustified
  BY DEF IInv
<1> QED  BY <1>1, Invariance, PTL

\* ScalerService and ScalingDecisionEngine: replicas raised for traffic are
\* not lowered while they are held.
THEOREM HoldIsKept == Spec => HoldKept
<1> DEFINE A == replicas' < replicas /\ hold # Absent => replicas' >= hold
<1>1. ASSUME IInv, [Next]_vars PROVE [A]_vars
  <2> SUFFICES ASSUME replicas' < replicas, hold # Absent PROVE replicas' >= hold
    BY <1>1
  <2>1. replicas' # replicas
    BY <1>1 DEF IInv, TypeOK
  <2>2. pc = "patch" /\ replicas' = job.desired
    BY <1>1, <2>1, ReplicasChange
  <2> QED  BY <1>1, <2>2 DEF IInv, DecisionFresh
<1>2. IInv /\ [Next]_vars => [A]_vars
  BY <1>1
<1> QED  BY <1>2, Invariance, PTL DEF Spec, HoldKept

\* README and cooldown_remaining: a scale-down waits for the cooldown after
\* the last change, unless that is on record nowhere.
THEOREM CooldownIsKept == Spec => CooldownKept
<1> DEFINE A == replicas' < replicas => sinceChange \notin 0..(Cooldown - 1) \/ record = "lost"
<1>1. ASSUME IInv, [Next]_vars PROVE [A]_vars
  <2> SUFFICES ASSUME replicas' < replicas
               PROVE  sinceChange \notin 0..(Cooldown - 1) \/ record = "lost"
    BY <1>1
  <2>1. replicas' # replicas
    BY <1>1 DEF IInv, TypeOK
  <2>2. pc = "patch" /\ replicas' = job.desired
    BY <1>1, <2>1, ReplicasChange
  <2> QED  BY <1>1, <2>2 DEF IInv, DecisionFresh, CooldownPassed
<1>2. IInv /\ [Next]_vars => [A]_vars
  BY <1>1
<1> QED  BY <1>2, Invariance, PTL DEF Spec, CooldownKept
===============================================================================
