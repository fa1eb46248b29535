----------------------------- MODULE TrafficPipeline -----------------------------
(***************************************************************************)
(* The traffic figures: every call-api pod counts the calls it accepts     *)
(* (TrafficCounter) and writes the count of each interval to a shard file  *)
(* of its own; predict's TrafficAggregatorService adds the shards up,      *)
(* appends the sum to a history and publishes the sum of the last hour in  *)
(* dashboard/traffic.json, which the scaler reads.                         *)
(*                                                                         *)
(* Pods and aggregator share files and no clock: within one interval (a    *)
(* Tick) each of them runs once, in any order, and reads and writes of     *)
(* different processes interleave.  A moment is kept as its age in ticks,  *)
(* which stops growing where the code no longer tells ages apart.          *)
(***************************************************************************)
EXTENDS Naturals, SequencesExt, FiniteSetsExt

CONSTANTS
  Pods,        \* instances of call-api; a restarted pod is another instance
  None,        \* no file, no flush under way
  StaleAfter,  \* _STALE_AFTER_SECONDS, in ticks
  Hour,        \* the 3600 seconds of _trailing_hour_sum, in ticks
  MaxPoints,   \* _HISTORY_MAX_POINTS
  BucketSize,  \* bucket_seconds of a request for the graph, in ticks
  MaxCalls,    \* bound: calls in one behaviour
  MaxFaults    \* bound: failed writes, failed runs, dead pods

ASSUME TrafficAssumption ==
  /\ StaleAfter \in Nat /\ Hour \in Nat /\ MaxPoints \in Nat \ {0}
  /\ BucketSize \in Nat \ {0}
  /\ MaxCalls \in Nat /\ MaxFaults \in Nat
  /\ IsFiniteSet(Pods)

ASSUME NoneAssumption ==
  None \notin Nat /\ None \notin [count : 0..MaxCalls, age : 0..(StaleAfter + 1)]

VARIABLES
  pod,       \* pod[p]: not started yet, up, or down for good
  counter,   \* counter[p]: TrafficCounter._count
  taken,     \* taken[p]: the count a flush holds before its write, or None
  flushDue,  \* flushDue[p]: the flush of this interval is still to come
  shard,     \* shard[p]: traffic/instances/<p>.json, count and age, or None
  aggPc,     \* the next access of aggregate() to the store
  aggDue,    \* the aggregation of this interval is still to come
  unread,    \* shards of the listing that aggregate() has not read yet
  total,     \* its running sum
  history,   \* the history file: requests and age of each point
  hourly,    \* hourly_requests of dashboard/traffic.json
  faults,
  calls,     \* history: calls recorded so far
  written,   \* history: calls that some flush has written to a shard
  lost       \* history: calls that a failure has taken away

podVars == <<pod, counter, taken, flushDue>>
aggVars == <<aggPc, aggDue, unread, total, history, hourly>>
ghosts  == <<calls, written, lost>>
vars == <<pod, counter, taken, flushDue, shard, aggPc, aggDue, unread, total, history, hourly,
          faults, calls, written, lost>>

Init ==
  /\ pod \in [Pods -> {"new", "up"}]
  /\ counter = [p \in Pods |-> 0]
  /\ taken = [p \in Pods |-> None]
  /\ flushDue = [p \in Pods |-> TRUE]
  /\ shard = [p \in Pods |-> None]
  /\ aggPc = "idle" /\ aggDue = TRUE /\ unread = {} /\ total = 0
  /\ history = <<>> /\ hourly = 0
  /\ faults = 0 /\ calls = 0 /\ written = 0 /\ lost = 0

Fault == faults < MaxFaults /\ faults' = faults + 1

InHand(p) == IF taken[p] = None THEN 0 ELSE taken[p]

-----------------------------------------------------------------------------
(* call-api.                                                               *)

\* accept_call after the publish.
Record(p) ==
  /\ pod[p] = "up"
  /\ calls < MaxCalls
  /\ calls' = calls + 1
  /\ counter' = [counter EXCEPT ![p] = @ + 1]
  /\ UNCHANGED <<pod, taken, flushDue, shard, aggVars, faults, written, lost>>

\* flush: read and reset under the lock that record also takes.
Flush(p) ==
  /\ pod[p] = "up" /\ flushDue[p]
  /\ flushDue' = [flushDue EXCEPT ![p] = FALSE]
  /\ taken' = [taken EXCEPT ![p] = counter[p]]
  /\ counter' = [counter EXCEPT ![p] = 0]
  /\ UNCHANGED <<pod, shard, aggVars, faults, ghosts>>

Written(p) ==
  /\ shard' = [shard EXCEPT ![p] = [count |-> taken[p], age |-> 0]]
  /\ written' = written + taken[p]

\* Mutant: the counter is reset once the write has succeeded.
WriteThenReset(p) ==
  /\ pod[p] = "up" /\ taken[p] # None
  /\ Written(p)
  /\ taken' = [taken EXCEPT ![p] = None]
  /\ counter' = [counter EXCEPT ![p] = 0]
  /\ UNCHANGED <<pod, flushDue, aggVars, faults, calls, lost>>

\* flush: the write, outside the lock; a zero is written too.
WriteShard(p) ==
  /\ pod[p] = "up" /\ taken[p] # None
  /\ Written(p)
  /\ taken' = [taken EXCEPT ![p] = None]
  /\ UNCHANGED <<pod, counter, flushDue, aggVars, faults, calls, lost>>

\* The write fails, or only seems to: the count is not put back.
WriteError(p) ==
  /\ pod[p] = "up" /\ taken[p] # None
  /\ \/ Written(p) /\ UNCHANGED lost
     \/ lost' = lost + taken[p] /\ UNCHANGED <<shard, written>>
  /\ taken' = [taken EXCEPT ![p] = None]
  /\ Fault
  /\ UNCHANGED <<pod, counter, flushDue, aggVars, calls>>

\* The pod ends: nothing flushes the last count, the shard file stays.
PodDown(p) ==
  /\ pod[p] = "up"
  /\ pod' = [pod EXCEPT ![p] = "down"]
  /\ lost' = lost + counter[p] + InHand(p)
  /\ counter' = [counter EXCEPT ![p] = 0]
  /\ taken' = [taken EXCEPT ![p] = None]
  /\ Fault
  /\ UNCHANGED <<flushDue, shard, aggVars, calls, written>>

PodUp(p) ==
  /\ pod[p] = "new"
  /\ pod' = [pod EXCEPT ![p] = "up"]
  /\ flushDue' = [flushDue EXCEPT ![p] = TRUE]
  /\ UNCHANGED <<counter, taken, shard, aggVars, faults, ghosts>>

-----------------------------------------------------------------------------
(* predict: aggregate.                                                     *)

\* All files of the directory: list_keys asks for one page, which holds the
\* files of a thousand pods.
ListShards ==
  /\ aggPc = "idle" /\ aggDue
  /\ aggDue' = FALSE
  /\ aggPc' = "read"
  /\ unread' = {p \in Pods : shard[p] # None}
  /\ total' = 0
  /\ UNCHANGED <<podVars, shard, history, hourly, faults, ghosts>>

\* Mutant: files of dead pods are summed for ever.
FreshAlways(p) == TRUE

\* A shard not written for longer than StaleAfter belongs to a dead pod.
Fresh(p) == shard[p].age <= StaleAfter

ReadShard(p) ==
  /\ aggPc = "read" /\ p \in unread
  /\ unread' = unread \ {p}
  /\ total' = total + (IF Fresh(p) THEN shard[p].count ELSE 0)
  /\ UNCHANGED <<podVars, shard, aggPc, aggDue, history, hourly, faults, ghosts>>

\* Mutant: the history is never cut.
AllPoints(h) == h

LastPoints(h) == IF Len(h) > MaxPoints THEN SubSeq(h, Len(h) - MaxPoints + 1, Len(h)) ELSE h

Append1(h) == LastPoints(Append(h, [requests |-> total, age |-> 0]))

AppendHistory ==
  /\ aggPc = "read" /\ unread = {}
  /\ history' = Append1(history)
  /\ aggPc' = "publish"
  /\ UNCHANGED <<podVars, shard, aggDue, unread, total, hourly, faults, ghosts>>

TrailingHourSum(h) == FoldSeq(LAMBDA point, sum :
                        (IF point.age <= Hour THEN point.requests ELSE 0) + sum, 0, h)

Idle == aggPc' = "idle" /\ unread' = {} /\ total' = 0

PublishTraffic ==
  /\ aggPc = "publish"
  /\ hourly' = TrailingHourSum(history)
  /\ Idle
  /\ UNCHANGED <<podVars, shard, aggDue, history, faults, ghosts>>

\* A run fails at any access, or the predict pod dies in it; the write under
\* way may have been done.
AggregateError ==
  /\ aggPc # "idle"
  /\ \/ UNCHANGED <<history, hourly>>
     \/ aggPc = "read" /\ unread = {} /\ history' = Append1(history) /\ UNCHANGED hourly
     \/ aggPc = "publish" /\ hourly' = TrailingHourSum(history) /\ UNCHANGED history
  /\ Idle
  /\ Fault
  /\ UNCHANGED <<podVars, shard, aggDue, ghosts>>

-----------------------------------------------------------------------------
(* predict: DashboardService.traffic_history, the graph of the last window  *)
(* ticks in buckets, asked for at a moment of the clock.                   *)

BucketStart(t) == t - (t % BucketSize)

\* Mutant: as many buckets as fit into the window.
BucketsThatFit(window) == window \div BucketSize

\* One more, since a window that begins within a bucket ends within one.
BucketCount(window) == window \div BucketSize + 1

\* The requests of bucket i, of the points that are not older than the window.
Bucket(now, window, i) ==
  LET start == BucketStart(now - window) + i * BucketSize
      InBucket(point) == point.age <= window /\ BucketStart(now - point.age) = start
  IN  FoldSeq(LAMBDA point, sum : (IF InBucket(point) THEN point.requests ELSE 0) + sum, 0, history)

TrafficGraph(now, window) == [i \in 0..(BucketCount(window) - 1) |-> Bucket(now, window, i)]

-----------------------------------------------------------------------------
Older(age, limit) == IF age <= limit THEN age + 1 ELSE age

\* The next interval; every run of this one is over by then.
Tick ==
  /\ aggPc = "idle" /\ ~aggDue
  /\ \A p \in Pods : pod[p] = "up" => ~flushDue[p] /\ taken[p] = None
  /\ aggDue' = TRUE
  /\ flushDue' = [p \in Pods |-> TRUE]
  /\ shard' = [p \in Pods |->
       IF shard[p] = None THEN None ELSE [shard[p] EXCEPT !.age = Older(@, StaleAfter)]]
  /\ history' = [i \in DOMAIN history |-> [history[i] EXCEPT !.age = Older(@, Hour)]]
  /\ UNCHANGED <<pod, counter, taken, aggPc, unread, total, hourly, faults, ghosts>>

Counting(p) == Flush(p) \/ WriteShard(p)

Aggregating == \/ ListShards \/ AppendHistory \/ PublishTraffic
               \/ \E p \in Pods : ReadShard(p)

Next == \/ \E p \in Pods : \/ Record(p) \/ Counting(p)
                           \/ WriteError(p) \/ PodDown(p) \/ PodUp(p)
        \/ Aggregating \/ AggregateError
        \/ Tick

\* Both schedulers run again after every interval, failed run or not.
Spec == /\ Init /\ [][Next]_vars
        /\ \A p \in Pods : WF_vars(Counting(p))
        /\ WF_vars(Aggregating) /\ WF_vars(Tick)

-----------------------------------------------------------------------------
(* Properties.                                                             *)

TypeOK ==
  /\ pod \in [Pods -> {"new", "up", "down"}]
  /\ counter \in [Pods -> 0..MaxCalls]
  /\ taken \in [Pods -> 0..MaxCalls \union {None}]
  /\ flushDue \in [Pods -> BOOLEAN]
  /\ shard \in [Pods -> [count : 0..MaxCalls, age : 0..(StaleAfter + 1)] \union {None}]
  /\ aggPc \in {"idle", "read", "publish"} /\ aggDue \in BOOLEAN
  /\ unread \subseteq Pods /\ total \in Nat
  /\ history \in Seq([requests : Nat, age : 0..(Hour + 1)]) /\ Len(history) <= MaxPoints
  /\ hourly \in Nat
  /\ faults \in 0..MaxFaults
  /\ calls \in 0..MaxCalls /\ written \in 0..MaxCalls /\ lost \in 0..MaxCalls

\* Record and flush race on every request: still each call is in exactly one
\* place, the counter, the hands of one flush or one written shard, unless a
\* failed write or a dead pod took it away.
CallsConserved ==
  calls = written + lost
          + MapThenSumSet(LAMBDA p : counter[p] + InHand(p), Pods)

\* The shard of an idle pod is read again by every aggregation until the pod
\* overwrites it or it is stale.  That is all the error there is: no call is
\* summed more often than once per tick of the staleness window.
OvercountBounded == hourly <= (StaleAfter + 1) * calls

\* Whatever died or failed on the way, hourly_requests is 0 for good some
\* time after the last call: no shard, no history point keeps it up.
QuietEnds == <>[](hourly = 0)

\* The graph of the dashboard hides nothing: at any moment of the clock each
\* point of the window is in one of its buckets, as long as the buckets divide
\* the window.  (With 60 s in buckets of 50 s the newest may be missing.)
GraphComplete ==
  LET window == BucketSize * (Hour \div BucketSize)
      points == FoldSeq(LAMBDA point, sum :
                  (IF point.age <= window THEN point.requests ELSE 0) + sum, 0, history)
  IN  \A now \in (Hour + 1)..(Hour + BucketSize) :
        LET graph == TrafficGraph(now, window)
        IN  MapThenSumSet(LAMBDA i : graph[i], DOMAIN graph) = points

\* constants.py: dashboard/traffic.json is the sum of the real calls of the
\* last hour.  So it never exceeds the calls made at all.
HourlyIsReal == hourly <= calls
-----------------------------------------------------------------------------
(* The inductive invariant behind CallsConserved and OvercountBounded.     *)

\* A flush begins with empty hands.
OneFlush == \A p \in Pods : flushDue[p] \/ pod[p] # "up" => taken[p] = None

\* Only shards that are there are read, once in a tick.
OneRun == /\ \A p \in unread : shard[p] # None
          /\ IF aggPc = "idle" THEN unread = {} ELSE ~aggDue

\* How many aggregations will still add up the shard of p as it is now: one
\* in every tick until it is stale, this tick if it is still to be read.
Readings(p) == IF Fresh(p) THEN (StaleAfter - shard[p].age) + (IF aggDue \/ p \in unread THEN 1 ELSE 0)
                           ELSE 0

Owed(p) == IF shard[p] = None THEN 0 ELSE shard[p].count * Readings(p)

Requests(h) == FoldSeq(LAMBDA point, sum : point.requests + sum, 0, h)

\* A written call is worth StaleAfter + 1 readings: those it has had are in
\* the history or the running sum, the others are still to come.
ReadingsPaid ==
  Requests(history) + (IF aggPc = "read" THEN total ELSE 0) + MapThenSumSet(LAMBDA p : Owed(p), Pods)
    <= (StaleAfter + 1) * written

IInv == TypeOK /\ OneFlush /\ OneRun /\ CallsConserved /\ ReadingsPaid /\ OvercountBounded
=============================================================================
