------------------------------- MODULE Simulator -------------------------------
(***************************************************************************)
(* The traffic simulator: SimulatorService with its SimulatorState and     *)
(* K6Runner.  The control requests hold _control_lock from their first     *)
(* step to their answer and wait for k6 in a thread meanwhile; relayed     *)
(* calls and bursts never take that lock and run in between, and the k6    *)
(* process may end at any moment.                                          *)
(***************************************************************************)
EXTENDS Integers, FiniteSets

CONSTANTS
  Step,        \* traffic_step
  MinTps,      \* min_tps
  MaxTps,      \* max_tps
  Concurrency, \* burst_concurrency
  Bursts,      \* bursts somebody will ask for
  BurstMax,    \* burst_max_count
  MaxCalls,    \* bound: calls k6 sends
  MaxFaults    \* bound: failures of k6

ASSUME SimulatorAssumption ==
  /\ Step \in Nat \ {0} /\ MinTps \in Nat /\ MaxTps \in Nat \ {0} /\ MinTps <= MaxTps
  /\ Concurrency \in Nat \ {0} /\ BurstMax \in Nat
  /\ MaxCalls \in Nat /\ MaxFaults \in Nat

ASSUME BurstsAssumption == IsFiniteSet(Bursts)

VARIABLES
  running,  \* SimulatorState.running
  tps,      \* current_tps
  k6,       \* K6Runner._process: none, alive, killed (in vain), dead; its rate
  job,      \* the request that holds the lock: its name and its next step
  burst,    \* burst[b]: calls of burst b that wait for the semaphore or are out
  relays,   \* calls of k6 on their way to call-api
  sent,     \* calls k6 has sent
  generated, success, queued, fail,  \* the statistics
  carried,  \* history: calls that were on their way at the last reset
  faults

control  == <<running, tps, k6, job>>
counters == <<generated, success, queued, fail>>
traffic  == <<burst, relays, sent>>
vars == <<running, tps, k6, job, burst, relays, sent, generated, success, queued, fail, carried,
          faults>>

NoProcess == [state |-> "none", rate |-> 0]
NoJob     == [op |-> "none", pc |-> "free"]
NoBurst   == [waiting |-> 0, out |-> 0, asked |-> FALSE]

Init ==
  /\ running = FALSE /\ tps = 0
  /\ k6 = NoProcess /\ job = NoJob
  /\ burst = [b \in Bursts |-> NoBurst]
  /\ relays = 0 /\ sent = 0
  /\ generated = 0 /\ success = 0 /\ queued = 0 /\ fail = 0
  /\ carried = 0 /\ faults = 0

Fault == faults < MaxFaults /\ faults' = faults + 1

\* The places of the bursts' semaphores that are taken, each by a call.
Places == {place \in Bursts \X (1..Concurrency) : place[2] <= burst[place[1]].out}

\* The calls that are out.
Out == relays + Cardinality(Places)

-----------------------------------------------------------------------------
(* The control requests up to their first wait for k6.                     *)

Adjust(delta) ==
  LET capped == IF tps + delta > MaxTps THEN MaxTps ELSE tps + delta
  IN  IF capped < MinTps THEN MinTps ELSE capped

\* Holding the lock, the next step is pc: launch or kill k6, or answer.
Begin(op, pc) == job.op = "none" /\ job' = [op |-> op, pc |-> pc]

Start ==
  /\ Begin("start", IF running THEN "answer" ELSE "launch")
  /\ tps' = IF ~running /\ tps <= 0 THEN Adjust(Step) ELSE tps
  /\ UNCHANGED <<running, k6, traffic, counters, carried, faults>>

\* Mutant: the same rate needs no new k6, as before fix B-2.
PressOnlyChanges(op, delta) ==
  LET target == Adjust(delta)
  IN  /\ tps' = target
      /\ Begin(op, IF target = tps THEN "answer"
                   ELSE IF target > 0 THEN "launch"
                   ELSE IF running THEN "kill" ELSE "answer")
      /\ UNCHANGED <<running, k6, traffic, counters, carried, faults>>

\* Mutant: the rate of a running k6 is changed on paper only.
PressOnPaper(op, delta) ==
  LET target == Adjust(delta)
  IN  /\ tps' = target
      /\ Begin(op, IF running /\ target > 0 THEN "answer"
                   ELSE IF target > 0 THEN "launch"
                   ELSE IF running THEN "kill" ELSE "answer")
      /\ UNCHANGED <<running, k6, traffic, counters, carried, faults>>

\* increase and decrease, with _apply_rate.
Press(op, delta) ==
  LET target == Adjust(delta)
  IN  /\ tps' = target
      /\ Begin(op, IF target = tps /\ running THEN "answer"
                   ELSE IF target > 0 THEN "launch"
                   ELSE IF running THEN "kill" ELSE "answer")
      /\ UNCHANGED <<running, k6, traffic, counters, carried, faults>>

\* stop and reset, and the shutdown of the pod, which is a stop.
Halt(op) ==
  /\ Begin(op, IF running THEN "kill" ELSE "answer")
  /\ UNCHANGED <<running, tps, k6, traffic, counters, carried, faults>>

-----------------------------------------------------------------------------
(* K6Runner, in a thread: start stops what there is first.                 *)

Release == job' = NoJob

StopOld ==
  /\ job.pc \in {"kill", "launch"}
  /\ k6' = NoProcess
  /\ job' = [job EXCEPT !.pc = IF job.pc = "kill" THEN "stopped" ELSE "popen"]
  /\ UNCHANGED <<running, tps, traffic, counters, carried, faults>>

\* Neither terminate nor kill ends the process in time: TimeoutExpired.
StopTimeout ==
  /\ job.pc \in {"kill", "launch"}
  /\ k6.state \in {"alive", "killed"}
  /\ k6' = [k6 EXCEPT !.state = "killed"]
  /\ Release /\ Fault
  /\ UNCHANGED <<running, tps, traffic, counters, carried>>

Popen ==
  /\ job.pc = "popen"
  /\ k6' = [state |-> "alive", rate |-> tps]
  /\ job' = [job EXCEPT !.pc = "started"]
  /\ UNCHANGED <<running, tps, traffic, counters, carried, faults>>

\* OSError becomes AppError: the request fails, running stays as it was.
PopenError ==
  /\ job.pc = "popen"
  /\ Release /\ Fault
  /\ UNCHANGED <<running, tps, k6, traffic, counters, carried>>

\* k6 crashes, is killed for memory, or its 24 hours are over.
K6Ends ==
  /\ k6.state \in {"alive", "killed"}
  /\ k6' = [k6 EXCEPT !.state = "dead"]
  /\ Fault
  /\ UNCHANGED <<running, tps, job, traffic, counters, carried>>

-----------------------------------------------------------------------------
(* Back in the event loop: mark, and answer with the snapshot.             *)

Marked == CASE job.pc = "started" -> TRUE
            [] job.pc = "stopped" -> FALSE
            [] OTHER -> running

Answer ==
  /\ job.pc \in {"started", "stopped", "answer"}
  /\ job.op # "reset"
  /\ running' = Marked
  /\ Release
  /\ UNCHANGED <<tps, k6, traffic, counters, carried, faults>>

\* Mutant: a reset that keeps the failures.
ResetKeepsFail ==
  /\ job.op = "reset" /\ job.pc \in {"stopped", "answer"}
  /\ running' = FALSE /\ tps' = 0
  /\ generated' = 0 /\ success' = 0 /\ queued' = 0 /\ UNCHANGED fail
  /\ carried' = Out
  /\ Release
  /\ UNCHANGED <<k6, traffic, faults>>

\* Calls on their way are not waited for: they are counted afterwards.
Reset ==
  /\ job.op = "reset" /\ job.pc \in {"stopped", "answer"}
  /\ running' = FALSE /\ tps' = 0
  /\ generated' = 0 /\ success' = 0 /\ queued' = 0 /\ fail' = 0
  /\ carried' = Out
  /\ Release
  /\ UNCHANGED <<k6, traffic, faults>>

-----------------------------------------------------------------------------
(* relay_call and burst.                                                   *)

\* call-api answers 202, another success, or an error or nothing in time.
Settle == \/ success' = success + 1 /\ queued' = queued + 1 /\ UNCHANGED fail
          \/ success' = success + 1 /\ UNCHANGED <<queued, fail>>
          \/ fail' = fail + 1 /\ UNCHANGED <<success, queued>>

Relay ==
  /\ k6.state \in {"alive", "killed"}
  /\ sent < MaxCalls
  /\ sent' = sent + 1 /\ relays' = relays + 1
  /\ generated' = generated + 1
  /\ UNCHANGED <<control, burst, success, queued, fail, carried, faults>>

RelayDone ==
  /\ relays > 0
  /\ relays' = relays - 1
  /\ Settle
  /\ UNCHANGED <<control, burst, sent, generated, carried, faults>>

Burst(b, count) ==
  /\ ~burst[b].asked
  /\ burst' = [burst EXCEPT ![b] =
       [waiting |-> IF count > BurstMax THEN BurstMax ELSE count, out |-> 0, asked |-> TRUE]]
  /\ UNCHANGED <<control, relays, sent, counters, carried, faults>>

\* Every burst has a semaphore of its own.
BurstSend(b) ==
  /\ burst[b].waiting > 0 /\ burst[b].out < Concurrency
  /\ burst' = [burst EXCEPT ![b].waiting = @ - 1, ![b].out = @ + 1]
  /\ generated' = generated + 1
  /\ UNCHANGED <<control, relays, sent, success, queued, fail, carried, faults>>

\* Mutant: only a call that succeeds gives its place free.
BurstDoneOnSuccess(b) ==
  /\ burst[b].out > 0
  /\ Settle
  /\ burst' = IF success' > success THEN [burst EXCEPT ![b].out = @ - 1] ELSE burst
  /\ UNCHANGED <<control, relays, sent, generated, carried, faults>>

BurstDone(b) ==
  /\ burst[b].out > 0
  /\ Settle
  /\ burst' = [burst EXCEPT ![b].out = @ - 1]
  /\ UNCHANGED <<control, relays, sent, generated, carried, faults>>

\* The liveness probe fails or the node goes: everything is in memory.
PodRestart ==
  /\ running' = FALSE /\ tps' = 0
  /\ k6' = NoProcess /\ job' = NoJob
  /\ burst' = [b \in Bursts |-> [burst[b] EXCEPT !.waiting = 0, !.out = 0]]
  /\ relays' = 0
  /\ generated' = 0 /\ success' = 0 /\ queued' = 0 /\ fail' = 0
  /\ carried' = 0
  /\ Fault
  /\ UNCHANGED sent

-----------------------------------------------------------------------------
Request == \/ Start \/ Press("increase", Step) \/ Press("decrease", -Step)
           \/ Halt("stop") \/ Halt("reset")

Working == StopOld \/ Popen \/ Answer \/ Reset

Bursting(b) == BurstSend(b) \/ BurstDone(b)

Next == \/ Request \/ Working
        \/ StopTimeout \/ PopenError \/ K6Ends \/ PodRestart
        \/ Relay \/ RelayDone
        \/ \E b \in Bursts : Bursting(b) \/ \E n \in 1..(BurstMax + 1) : Burst(b, n)

\* Threads and tasks go on; every relayed call ends, after relay_timeout at
\* the latest.
Spec == /\ Init /\ [][Next]_vars
        /\ WF_vars(Working)
        /\ \A b \in Bursts : WF_vars(Bursting(b))

-----------------------------------------------------------------------------
(* Properties.                                                             *)

TypeOK ==
  /\ running \in BOOLEAN
  /\ tps \in 0..MaxTps
  /\ k6 \in [state : {"none", "alive", "killed", "dead"}, rate : 0..MaxTps]
  /\ job \in [op : {"none", "start", "stop", "reset", "increase", "decrease"},
              pc : {"free", "launch", "popen", "started", "kill", "stopped", "answer"}]
  /\ burst \in [Bursts -> [waiting : 0..BurstMax, out : 0..Concurrency, asked : BOOLEAN]]
  /\ {relays, sent, generated, success, queued, fail, carried} \subseteq Nat
  /\ faults \in 0..MaxFaults

\* Between two control requests a k6 that lives is shown as running, so that a
\* stop reaches it, also one that outlived its kill; and unless that happened
\* it sends at the rate that is shown, whatever failed in earlier requests.
RateAgrees == job.op = "none" =>
  /\ k6.state \in {"alive", "killed"} => running
  /\ k6.state = "alive" => k6.rate = tps

\* The snapshot a control request answers with says what was asked for: also
\* at the upper limit and after a stop, which keeps the rate (fix B-2).
AnswersTrue == [][job.op # "none" /\ job'.op = "none" /\ faults' = faults =>
                    /\ job.op \in {"start", "increase"} => running'
                    /\ job.op \in {"stop", "reset"} => ~running']_vars

\* Calls are counted twice, when sent and when answered, by tasks a reset
\* does not wait for.  The two counts differ by exactly the calls on their
\* way now and those on their way at the last reset.
CountersBalance == generated + carried = success + fail + Out /\ queued <= success

\* Every call of a burst gets its turn, also when calls before it fail and
\* when the simulator is stopped or reset meanwhile.
BurstSent == \A b \in Bursts : burst[b].waiting > 0 ~> burst[b].waiting = 0 /\ burst[b].out = 0
-----------------------------------------------------------------------------
(* The inductive invariant.                                                *)

\* A process that lives is one that is shown, and runs at the rate shown.
Shown     == k6.state \in {"alive", "killed"} => running
RateShown == k6.state = "alive" => k6.rate = tps

\* What the request under way has found out about k6 so far.
JobInv ==
  /\ job.op = "none" <=> job.pc = "free"
  /\ job.pc # "started" => Shown
  /\ job.pc \in {"free", "answer"} => RateShown
  /\ job.pc \in {"popen", "stopped"} => k6.state = "none"
  /\ job.pc = "started" => k6.rate = tps
  /\ job.op \in {"start", "increase"} =>
       /\ job.pc \in {"launch", "popen", "started", "answer"}
       /\ job.pc = "answer" => running
  /\ job.op \in {"stop", "reset"} =>
       /\ job.pc \in {"kill", "stopped", "answer"}
       /\ job.pc = "answer" => ~running

\* A burst has no calls before it was asked for.
AskedFirst == \A b \in Bursts : ~burst[b].asked => burst[b].waiting = 0 /\ burst[b].out = 0

IInv == TypeOK /\ JobInv /\ AskedFirst /\ CountersBalance
=============================================================================
