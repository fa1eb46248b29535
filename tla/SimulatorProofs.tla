---------------------------- MODULE SimulatorProofs ----------------------------
(***************************************************************************)
(* Proofs about Simulator for any step, limits, number of bursts, calls    *)
(* and failures: what the simulator shows between two control requests is  *)
(* what k6 does, and a request is answered with what it asked for.         *)
(***************************************************************************)
EXTENDS Simulator, FiniteSetTheorems, TLAPS

USE SimulatorAssumption

-----------------------------------------------------------------------------
(* Helpers the actions share.                                              *)

\* A rate stays in its limits, and pressing "increase" never ends at 0.
LEMMA AdjustRange ==
  ASSUME tps \in 0..MaxTps, NEW delta \in {Step, -Step}
  PROVE  Adjust(delta) \in 0..MaxTps /\ (delta = Step => Adjust(delta) > 0)
  BY DEF Adjust

\* The types of what control requests work on, and of all the rest.
ControlType ==
  /\ running \in BOOLEAN /\ tps \in 0..MaxTps
  /\ k6 \in [state : {"none", "alive", "killed", "dead"}, rate : 0..MaxTps]
  /\ job \in [op : {"none", "start", "stop", "reset", "increase", "decrease"},
              pc : {"free", "launch", "popen", "started", "kill", "stopped", "answer"}]

TrafficType ==
  /\ burst \in [Bursts -> [waiting : 0..BurstMax, out : 0..Concurrency, asked : BOOLEAN]]
  /\ relays \in Nat /\ sent \in Nat
  /\ generated \in Nat /\ success \in Nat /\ queued \in Nat /\ fail \in Nat /\ carried \in Nat

\* TypeOK in its parts.
LEMMA TypeParts == TypeOK <=> ControlType /\ TrafficType /\ faults \in 0..MaxFaults
  BY DEF TypeOK, ControlType, TrafficType

\* So after a step.
LEMMA NextTypeParts == ControlType' /\ TrafficType' /\ faults' \in 0..MaxFaults => TypeOK'
  BY DEF TypeOK, ControlType, TrafficType

\* The steps of control requests; the others leave running, tps, k6 and job.
Control == \/ Request \/ Working \/ StopTimeout \/ PopenError \/ K6Ends

Calls == Relay \/ RelayDone \/ \E b \in Bursts : Bursting(b) \/ \E n \in 1..(BurstMax + 1) : Burst(b, n)

\* What the bursts may be.
BurstTypes == [Bursts -> [waiting : 0..BurstMax, out : 0..Concurrency, asked : BOOLEAN]]

\* The places taken, of any bursts.
PlacesOf(f) == {place \in Bursts \X (1..Concurrency) : place[2] <= f[place[1]].out}

\* They can be counted.
LEMMA PlacesCounted ==
  ASSUME NEW f
  PROVE  IsFiniteSet(PlacesOf(f)) /\ Cardinality(PlacesOf(f)) \in Nat
<1>1. IsFiniteSet(1..Concurrency)
  BY FS_Interval
<1>2. IsFiniteSet(Bursts \X (1..Concurrency))
  BY <1>1, BurstsAssumption, FS_Product
<1>3. PlacesOf(f) \subseteq Bursts \X (1..Concurrency)
  BY DEF PlacesOf
<1>4. IsFiniteSet(PlacesOf(f))
  BY <1>2, <1>3, FS_Subset
<1> QED  BY <1>4, FS_CardinalityType

\* A burst that sends one more call takes one more place.
LEMMA PlaceTaken ==
  ASSUME NEW f \in BurstTypes, NEW g \in BurstTypes, NEW b \in Bursts,
         g[b].out = f[b].out + 1, \A c \in Bursts : c # b => g[c].out = f[c].out
  PROVE  Cardinality(PlacesOf(g)) = Cardinality(PlacesOf(f)) + 1
<1> DEFINE n == g[b].out
<1>1. \A c \in Bursts : f[c].out \in 0..Concurrency /\ g[c].out \in 0..Concurrency
  BY DEF BurstTypes
<1>2. n \in 1..Concurrency /\ <<b, n>> \notin PlacesOf(f)
  BY <1>1 DEF PlacesOf
<1>3. PlacesOf(g) = PlacesOf(f) \union {<<b, n>>}
  <2>1. ASSUME NEW c \in Bursts, NEW m \in 1..Concurrency
        PROVE  m <= g[c].out <=> m <= f[c].out \/ (c = b /\ m = n)
    BY <1>1
  <2>2. \A p \in Bursts \X (1..Concurrency) :
          p[2] <= g[p[1]].out <=> p[2] <= f[p[1]].out \/ p = <<b, n>>
    BY <2>1
  <2> QED  BY <1>2, <2>2 DEF PlacesOf
<1>4. IsFiniteSet(PlacesOf(f))
  BY PlacesCounted
<1> HIDE DEF n
<1> QED  BY <1>2, <1>3, <1>4, FS_AddElement

\* Without calls out no place is taken.
LEMMA NoPlace ==
  ASSUME NEW f, \A b \in Bursts : f[b].out = 0
  PROVE  Cardinality(PlacesOf(f)) = 0
<1>1. PlacesOf(f) = {}
  BY DEF PlacesOf
<1> QED  BY <1>1, FS_EmptySet

\* The calls that are out, before a step and after it.
LEMMA OutIs ==
  Out = relays + Cardinality(PlacesOf(burst)) /\ Out' = relays' + Cardinality(PlacesOf(burst'))
BY DEF Out, Places, PlacesOf

-----------------------------------------------------------------------------
(* Type correctness.                                                       *)

\* A failure is counted up to its bound.
LEMMA FaultType == ASSUME faults \in 0..MaxFaults, Fault PROVE faults' \in 0..MaxFaults
  BY DEF Fault

\* Counting an answer.
LEMMA SettleType ==
  ASSUME success \in Nat, queued \in Nat, fail \in Nat, Settle
  PROVE  success' \in Nat /\ queued' \in Nat /\ fail' \in Nat
  BY DEF Settle

\* Relayed calls and bursts.
LEMMA TypeCalls == ASSUME TypeOK, Calls PROVE TypeOK'
<1>1. UNCHANGED control /\ UNCHANGED faults
  BY DEF Calls, Bursting, Relay, RelayDone, BurstSend, BurstDone, Burst
<1>2. ControlType' /\ faults' \in 0..MaxFaults
  BY <1>1, TypeParts DEF ControlType, control
<1>3. TrafficType
  BY TypeParts
<1>4. ASSUME Relay PROVE TrafficType'
  BY <1>3, <1>4 DEF Relay, TrafficType
<1>5. ASSUME RelayDone PROVE TrafficType'
  <2>1. success' \in Nat /\ queued' \in Nat /\ fail' \in Nat
    BY <1>3, <1>5, SettleType DEF RelayDone, TrafficType
  <2> QED  BY <1>3, <1>5, <2>1 DEF RelayDone, TrafficType
<1>6. ASSUME NEW b \in Bursts, BurstSend(b) PROVE TrafficType'
  <2>1. burst[b].waiting - 1 \in 0..BurstMax /\ burst[b].out + 1 \in 0..Concurrency
    BY <1>3, <1>6 DEF BurstSend, TrafficType
  <2> QED  BY <1>3, <1>6, <2>1 DEF BurstSend, TrafficType
<1>7. ASSUME NEW b \in Bursts, BurstDone(b) PROVE TrafficType'
  <2>1. success' \in Nat /\ queued' \in Nat /\ fail' \in Nat
    BY <1>3, <1>7, SettleType DEF BurstDone, TrafficType
  <2>2. burst[b].out - 1 \in 0..Concurrency
    BY <1>3, <1>7 DEF BurstDone, TrafficType
  <2> QED  BY <1>3, <1>7, <2>1, <2>2 DEF BurstDone, TrafficType
<1>8. ASSUME NEW b \in Bursts, NEW n \in 1..(BurstMax + 1), Burst(b, n) PROVE TrafficType'
  <2>1. (IF n > BurstMax THEN BurstMax ELSE n) \in 0..BurstMax
    OBVIOUS
  <2> QED  BY <1>3, <1>8, <2>1 DEF Burst, TrafficType, counters
<1>9. TrafficType'
  BY <1>4, <1>5, <1>6, <1>7, <1>8 DEF Calls, Bursting
<1> QED  BY <1>2, <1>9, NextTypeParts

\* Control requests.
LEMMA TypeControl == ASSUME TypeOK, Control PROVE TypeOK'
<1>1. ControlType /\ TrafficType /\ faults \in 0..MaxFaults
  BY TypeParts
<1>2. faults' \in 0..MaxFaults
  BY <1>1, FaultType DEF Control, Request, Start, Press, Halt, Working, StopOld, Popen, Answer, Reset,
                         StopTimeout, PopenError, K6Ends
<1>3. TrafficType'
  <2>1. CASE Reset
    <3>1. Out \in Nat
      BY <1>1, OutIs, PlacesCounted DEF TrafficType
    <3> QED  BY <1>1, <2>1, <3>1 DEF Reset, TrafficType, traffic
  <2>2. CASE UNCHANGED <<traffic, counters, carried>>
    BY <1>1, <2>2 DEF TrafficType, traffic, counters
  <2> QED  BY <2>1, <2>2 DEF Control, Request, Start, Press, Halt, Working, StopOld, Popen, Answer,
                             StopTimeout, PopenError, K6Ends
<1>4. ControlType'
  <2>1. ASSUME NEW delta \in {Step, -Step} PROVE Adjust(delta) \in 0..MaxTps
    BY <1>1, AdjustRange DEF ControlType
  <2>2. CASE Start
    BY <1>1, <2>1, <2>2 DEF Start, Begin, ControlType
  <2>3. CASE Press("increase", Step) \/ Press("decrease", -Step)
    BY <1>1, <2>1, <2>3 DEF Press, Begin, ControlType
  <2>4. CASE Halt("stop") \/ Halt("reset")
    BY <1>1, <2>4 DEF Halt, Begin, ControlType
  <2>5. CASE StopOld \/ Popen
    BY <1>1, <2>5 DEF StopOld, Popen, NoProcess, ControlType
  <2>6. CASE Answer \/ Reset
    <3>1. running' \in BOOLEAN
      BY <1>1, <2>6 DEF Answer, Reset, Marked, ControlType
    <3>2. tps' \in 0..MaxTps /\ k6' = k6 /\ job' = NoJob
      BY <1>1, <2>6 DEF Answer, Reset, Release, ControlType
    <3> QED  BY <1>1, <3>1, <3>2 DEF NoJob, ControlType
  <2>7. CASE StopTimeout \/ PopenError \/ K6Ends
    BY <1>1, <2>7 DEF StopTimeout, PopenError, K6Ends, Release, NoJob, ControlType
  <2> QED  BY <2>2, <2>3, <2>4, <2>5, <2>6, <2>7 DEF Control, Request, Working
<1> QED  BY <1>2, <1>3, <1>4, NextTypeParts

\* A pod that begins anew.
LEMMA TypeRestart == ASSUME TypeOK, PodRestart PROVE TypeOK'
<1>1. TrafficType /\ faults' \in 0..MaxFaults
  BY TypeParts, FaultType DEF PodRestart
<1>2. \A b \in Bursts : [burst[b] EXCEPT !.waiting = 0, !.out = 0]
                          \in [waiting : 0..BurstMax, out : 0..Concurrency, asked : BOOLEAN]
  <2> SUFFICES ASSUME NEW b \in Bursts
               PROVE  [burst[b] EXCEPT !.waiting = 0, !.out = 0]
                        \in [waiting : 0..BurstMax, out : 0..Concurrency, asked : BOOLEAN]
    OBVIOUS
  <2>1. burst[b] \in [waiting : 0..BurstMax, out : 0..Concurrency, asked : BOOLEAN]
    BY <1>1 DEF TrafficType
  <2>2. 0 \in 0..BurstMax /\ 0 \in 0..Concurrency
    OBVIOUS
  <2> QED  BY <2>1, <2>2
<1>3. TrafficType'
  BY <1>1, <1>2 DEF PodRestart, TrafficType
<1>4. ControlType'
  <2>1. 0 \in 0..MaxTps
    OBVIOUS
  <2> QED  BY <2>1 DEF PodRestart, NoProcess, NoJob, ControlType
<1> QED  BY <1>1, <1>3, <1>4, NextTypeParts

-----------------------------------------------------------------------------
(* The two counts.                                                         *)

\* Every step keeps the two counts apart by the calls that are out.
LEMMA Balance ==
  ASSUME TrafficType, AskedFirst, CountersBalance, Calls \/ Control \/ PodRestart
  PROVE  AskedFirst' /\ CountersBalance'
<1> DEFINE n == Cardinality(PlacesOf(burst))
           m == Cardinality(PlacesOf(burst'))
<1>1. n \in Nat /\ m \in Nat /\ Out = relays + n /\ Out' = relays' + m
  BY PlacesCounted, OutIs
<1>2. burst \in BurstTypes /\ relays \in Nat /\ generated \in Nat /\ success \in Nat
      /\ queued \in Nat /\ fail \in Nat /\ carried \in Nat
  BY DEF TrafficType, BurstTypes
<1>3. generated + carried = success + fail + Out /\ queued <= success
  BY DEF CountersBalance
<1> HIDE DEF n, m
<1>4. CASE Relay
  <2>1. burst' = burst /\ relays' = relays + 1 /\ generated' = generated + 1
        /\ UNCHANGED <<success, queued, fail, carried>>
    BY <1>4 DEF Relay
  <2>2. m = n
    BY <2>1 DEF m, n
  <2> QED  BY <1>1, <1>2, <1>3, <2>1, <2>2 DEF CountersBalance, AskedFirst
<1>5. CASE RelayDone
  <2>1. burst' = burst /\ relays' = relays - 1 /\ Settle /\ UNCHANGED <<generated, carried>>
    BY <1>5 DEF RelayDone
  <2>2. m = n
    BY <2>1 DEF m, n
  <2>3. AskedFirst'
    BY <2>1 DEF AskedFirst
  <2>4. queued' <= success'
    BY <1>2, <1>3, <2>1 DEF Settle
  <2>5. Out \in Int /\ Out' = Out - 1
    BY <1>1, <1>2, <2>1, <2>2
  <2>6. ASSUME success' = success + 1, fail' = fail PROVE CountersBalance'
    BY <1>2, <1>3, <2>1, <2>4, <2>5, <2>6 DEF CountersBalance
  <2>7. ASSUME success' = success, fail' = fail + 1 PROVE CountersBalance'
    BY <1>2, <1>3, <2>1, <2>4, <2>5, <2>7 DEF CountersBalance
  <2> QED  BY <2>1, <2>3, <2>6, <2>7 DEF Settle
<1>6. ASSUME NEW b \in Bursts, NEW k \in 1..(BurstMax + 1), Burst(b, k)
      PROVE  AskedFirst' /\ CountersBalance'
  <2>1. ~burst[b].asked /\ UNCHANGED <<relays, generated, success, queued, fail, carried>>
    BY <1>6 DEF Burst, counters
  <2>2. /\ burst'[b].out = 0 /\ burst'[b].asked
        /\ \A c \in Bursts : c # b => burst'[c] = burst[c]
    BY <1>2, <1>6 DEF Burst, BurstTypes
  <2>3. \A c \in Bursts : burst'[c].out = burst[c].out
    BY <2>1, <2>2 DEF AskedFirst
  <2>4. m = n
    <3>1. PlacesOf(burst') = PlacesOf(burst)
      BY <2>3 DEF PlacesOf
    <3> QED  BY <3>1 DEF m, n
  <2>5. AskedFirst'
    BY <2>2 DEF AskedFirst
  <2> QED  BY <1>1, <1>3, <2>1, <2>4, <2>5 DEF CountersBalance
<1>7. ASSUME NEW b \in Bursts, BurstSend(b) PROVE AskedFirst' /\ CountersBalance'
  <2>1. /\ burst[b].waiting > 0 /\ burst[b].out < Concurrency
        /\ generated' = generated + 1 /\ UNCHANGED <<relays, success, queued, fail, carried>>
        /\ burst' = [burst EXCEPT ![b].waiting = @ - 1, ![b].out = @ + 1]
    BY <1>7 DEF BurstSend
  <2>2. burst' \in BurstTypes /\ burst'[b].out = burst[b].out + 1 /\ burst'[b].asked = burst[b].asked
        /\ \A c \in Bursts : c # b => burst'[c] = burst[c]
    BY <1>2, <2>1 DEF BurstTypes
  <2>3. m = n + 1
    BY <1>2, <2>2, PlaceTaken DEF m, n
  <2>4. AskedFirst'
    <3>1. burst[b].asked
      BY <2>1 DEF AskedFirst
    <3> QED  BY <2>2, <3>1 DEF AskedFirst
  <2> QED  BY <1>1, <1>2, <1>3, <2>1, <2>3, <2>4 DEF CountersBalance
<1>8. ASSUME NEW b \in Bursts, BurstDone(b) PROVE AskedFirst' /\ CountersBalance'
  <2>1. /\ burst[b].out > 0 /\ Settle /\ UNCHANGED <<relays, generated, carried>>
        /\ burst' = [burst EXCEPT ![b].out = @ - 1]
    BY <1>8 DEF BurstDone
  <2>2. burst' \in BurstTypes /\ burst[b].out = burst'[b].out + 1 /\ burst'[b].asked = burst[b].asked
        /\ \A c \in Bursts : c # b => burst'[c] = burst[c]
    BY <1>2, <2>1 DEF BurstTypes
  <2>3. n = m + 1
    BY <1>2, <2>2, PlaceTaken DEF m, n
  <2>4. success' + fail' = success + fail + 1 /\ queued' <= success'
        /\ success' \in Nat /\ fail' \in Nat
    BY <1>2, <1>3, <2>1 DEF Settle
  <2>5. AskedFirst'
    <3>1. burst[b].asked
      BY <2>1 DEF AskedFirst
    <3> QED  BY <2>2, <3>1 DEF AskedFirst
  <2> QED  BY <1>1, <1>2, <1>3, <2>1, <2>3, <2>4, <2>5 DEF CountersBalance
<1>9. CASE PodRestart
  <2>1. generated' = 0 /\ carried' = 0 /\ success' = 0 /\ queued' = 0 /\ fail' = 0 /\ relays' = 0
        /\ burst' = [b \in Bursts |-> [burst[b] EXCEPT !.waiting = 0, !.out = 0]]
    BY <1>9 DEF PodRestart
  <2>2. \A b \in Bursts : burst'[b].out = 0 /\ burst'[b].waiting = 0
    BY <1>2, <2>1 DEF BurstTypes
  <2>3. m = 0
    BY <2>2, NoPlace DEF m
  <2>4. AskedFirst'
    BY <2>2 DEF AskedFirst
  <2>5. CountersBalance'
    <3>1. generated' = 0 /\ carried' = 0 /\ success' = 0 /\ queued' = 0 /\ fail' = 0 /\ relays' = 0
      BY <2>1
    <3>2. Out' = 0
      BY <1>1, <2>3, <3>1
    <3> QED  BY <3>1, <3>2 DEF CountersBalance
  <2> QED  BY <2>4, <2>5
<1>10. CASE Reset
  <2>1. generated' = 0 /\ carried' = Out /\ success' = 0 /\ queued' = 0 /\ fail' = 0
        /\ UNCHANGED <<burst, relays>>
    BY <1>10 DEF Reset, traffic
  <2>2. m = n
    BY <2>1 DEF m, n
  <2> QED  BY <1>1, <1>2, <2>1, <2>2 DEF CountersBalance, AskedFirst
<1>11. CASE Control /\ ~Reset
  <2>1. UNCHANGED <<burst, relays, generated, success, queued, fail, carried>>
    BY <1>11 DEF Control, Request, Start, Press, Halt, Working, StopOld, Popen, Answer, StopTimeout,
                 PopenError, K6Ends, traffic, counters
  <2>2. m = n
    BY <2>1 DEF m, n
  <2> QED  BY <1>1, <1>3, <2>1, <2>2 DEF CountersBalance, AskedFirst
<1> QED  BY <1>4, <1>5, <1>6, <1>7, <1>8, <1>9, <1>10, <1>11 DEF Calls, Bursting

-----------------------------------------------------------------------------
(* The request under way.                                                  *)

\* Every step of a control request keeps what it has found out about k6.
LEMMA JobControl == ASSUME IInv, Control PROVE JobInv'
<1>1. ControlType
  BY TypeParts DEF IInv
<1>2. CASE Start
  BY <1>1, <1>2 DEF Start, Begin, IInv, JobInv, Shown, RateShown, ControlType
<1>3. CASE Press("increase", Step)
  <2>1. Adjust(Step) > 0 /\ tps' = Adjust(Step)
    BY <1>1, <1>3, AdjustRange DEF ControlType, Press
  <2>2. job'.op = "increase" /\ job'.pc = IF Adjust(Step) = tps /\ running THEN "answer" ELSE "launch"
    BY <1>3, <2>1 DEF Press, Begin
  <2>3. job.op = "none" /\ UNCHANGED <<running, k6>>
    BY <1>3 DEF Press, Begin
  <2> QED  BY <2>1, <2>2, <2>3 DEF IInv, JobInv, Shown, RateShown
<1>4. CASE Press("decrease", -Step)
  <2>1. tps' = Adjust(-Step) /\ job.op = "none" /\ UNCHANGED <<running, k6>>
    BY <1>4 DEF Press, Begin
  <2>2. job'.op = "decrease" /\ job'.pc \in {"answer", "launch", "kill"}
    BY <1>4 DEF Press, Begin
  <2>3. job'.pc = "answer" => tps' = tps \/ ~running
    BY <1>4 DEF Press, Begin
  <2> QED  BY <2>1, <2>2, <2>3 DEF IInv, JobInv, Shown, RateShown
<1>5. CASE Halt("stop") \/ Halt("reset")
  BY <1>1, <1>5 DEF Halt, Begin, IInv, JobInv, Shown, RateShown, ControlType
<1>6. CASE StopOld \/ Popen
  BY <1>1, <1>6 DEF StopOld, Popen, NoProcess, IInv, JobInv, Shown, RateShown, ControlType
<1>7. CASE Answer \/ Reset
  <2>1. job' = NoJob /\ k6' = k6
    BY <1>7 DEF Answer, Reset, Release
  <2>2. Shown' /\ RateShown'
    <3>1. CASE Answer
      BY <3>1 DEF Answer, Marked, IInv, JobInv, Shown, RateShown
    <3>2. CASE Reset
      BY <3>2 DEF Reset, IInv, JobInv, Shown, RateShown
    <3> QED  BY <1>7, <3>1, <3>2
  <2> QED  BY <2>1, <2>2 DEF NoJob, JobInv
<1>8. CASE StopTimeout \/ PopenError
  BY <1>1, <1>8 DEF StopTimeout, PopenError, Release, NoJob, IInv, JobInv, Shown, RateShown, ControlType
<1>9. CASE K6Ends
  BY <1>1, <1>9 DEF K6Ends, IInv, JobInv, Shown, RateShown, ControlType
<1> QED  BY <1>2, <1>3, <1>4, <1>5, <1>6, <1>7, <1>8, <1>9 DEF Control, Request, Working

\* The start.
LEMMA InvInit == Init => IInv
<1> SUFFICES ASSUME Init PROVE IInv
  OBVIOUS
<1>1. 0 \in 0..MaxTps /\ 0 \in 0..BurstMax /\ 0 \in 0..Concurrency /\ 0 \in 0..MaxFaults
  OBVIOUS
<1>2. ControlType
  BY <1>1 DEF Init, NoProcess, NoJob, ControlType
<1>3. TrafficType
  BY <1>1 DEF Init, NoBurst, TrafficType
<1>4. JobInv
  BY DEF Init, NoProcess, NoJob, JobInv, Shown, RateShown
<1>5. AskedFirst /\ CountersBalance
  <2>1. \A b \in Bursts : burst[b].out = 0 /\ burst[b].waiting = 0
    BY DEF Init, NoBurst
  <2>2. Out = 0
    BY <2>1, OutIs, NoPlace DEF Init
  <2> QED  BY <2>1, <2>2 DEF Init, AskedFirst, CountersBalance
<1> QED  BY <1>1, <1>2, <1>3, <1>4, <1>5, TypeParts DEF Init, IInv

\* Every step.
LEMMA InvNext == IInv /\ [Next]_vars => IInv'
<1> SUFFICES ASSUME IInv, [Next]_vars PROVE IInv'
  OBVIOUS
<1>0. ASSUME Calls \/ Control \/ PodRestart PROVE AskedFirst' /\ CountersBalance'
  BY <1>0, Balance, TypeParts DEF IInv
<1>1. CASE Control
  BY <1>0, <1>1, TypeControl, JobControl DEF IInv
<1>2. CASE Calls
  <2>1. UNCHANGED control
    BY <1>2 DEF Calls, Bursting, Relay, RelayDone, BurstSend, BurstDone, Burst
  <2> QED  BY <1>0, <1>2, <2>1, TypeCalls DEF IInv, JobInv, Shown, RateShown, control
<1>3. CASE PodRestart
  <2>1. JobInv'
    BY <1>3 DEF PodRestart, NoProcess, NoJob, JobInv, Shown, RateShown
  <2> QED  BY <1>0, <1>3, <2>1, TypeRestart DEF IInv
<1>4. CASE UNCHANGED vars
  BY <1>4 DEF vars, IInv, TypeOK, JobInv, Shown, RateShown, AskedFirst, CountersBalance, Out, Places
<1> QED  BY <1>1, <1>2, <1>3, <1>4 DEF Next, Control, Calls

-----------------------------------------------------------------------------
(* The theorems.                                                           *)

\* At every step of a control request its state says the truth about k6.
THEOREM Invariance == Spec => []IInv
  BY InvInit, InvNext, PTL DEF Spec

\* Rates stay between the limits, bursts within the semaphore, counters
\* never go below 0.
THEOREM TypeCorrect == Spec => []TypeOK
<1>1. IInv => TypeOK
  BY DEF IInv
<1> QED  BY <1>1, Invariance, PTL

\* K6Runner and SimulatorState: between control requests a living k6 is shown
\* as running, with its rate, whatever failed before.
THEOREM RatesAgree == Spec => []RateAgrees
<1>1. IInv => RateAgrees
  BY DEF IInv, JobInv, Shown, RateShown, RateAgrees
<1> QED  BY <1>1, Invariance, PTL

\* The snapshot a request answers with is what it asked for.
THEOREM AnswersAreTrue == Spec => AnswersTrue
<1> DEFINE A == job.op # "none" /\ job'.op = "none" /\ faults' = faults =>
                  /\ job.op \in {"start", "increase"} => running'
                  /\ job.op \in {"stop", "reset"} => ~running'
<1>1. ASSUME IInv, [Next]_vars PROVE [A]_vars
  <2> SUFFICES ASSUME job.op # "none", job'.op = "none", faults' = faults, Next PROVE A
    BY <1>1
  <2>1. ControlType /\ faults \in 0..MaxFaults
    BY <1>1, TypeParts DEF IInv
  <2>2. ~PodRestart /\ ~StopTimeout /\ ~PopenError /\ ~K6Ends
    <3>1. ~Fault
      BY <2>1 DEF Fault
    <3> QED  BY <3>1 DEF PodRestart, StopTimeout, PopenError, K6Ends
  <2>3. ~Request
    BY DEF Request, Start, Press, Halt, Begin
  <2>4. ~Calls
    BY DEF Calls, Bursting, Relay, RelayDone, BurstSend, BurstDone, Burst, control
  <2>5. CASE StopOld \/ Popen
    BY <2>1, <2>5 DEF StopOld, Popen, ControlType
  <2>6. CASE Answer
    BY <1>1, <2>1, <2>6 DEF Answer, Marked, IInv, JobInv
  <2>7. CASE Reset
    BY <2>7 DEF Reset
  <2> QED  BY <2>2, <2>3, <2>4, <2>5, <2>6, <2>7 DEF Next, Working, Calls
<1>2. IInv /\ [Next]_vars => [A]_vars
  BY <1>1
<1> QED  BY <1>2, Invariance, PTL DEF Spec, AnswersTrue

\* relay_call and burst count a call when it is sent and when it is answered:
\* the counts differ by the calls that are out, whatever is reset meanwhile.
THEOREM CountsBalance == Spec => []CountersBalance
<1>1. IInv => CountersBalance
  BY DEF IInv
<1> QED  BY <1>1, Invariance, PTL
================================================================================
