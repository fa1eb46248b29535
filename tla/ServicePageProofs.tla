--------------------------- MODULE ServicePageProofs ---------------------------
(***************************************************************************)
(* Proofs about ServicePage for any calls, visits, polls, ticks and lost   *)
(* requests: as long as no status request outlasts the poll interval, the  *)
(* page loses no timer, says done of recorded calls only, and says queued  *)
(* while it waits.                                                         *)
(***************************************************************************)
EXTENDS ServicePage, TLAPS

USE ServicePageAssumption

-----------------------------------------------------------------------------
(* Type correctness.                                                       *)

\* Status requests are counted in natural numbers.
LEMMA OpenNat == ASSUME PollType PROVE \A c \in Calls : Open(c) \in Nat
  BY DEF PollType, Open

\* A failure is counted up to its bound.
LEMMA FaultType == ASSUME faults \in 0..MaxFaults, Fault PROVE faults' \in 0..MaxFaults
  BY DEF Fault

\* Stopping a timer leaves calls in the references.
LEMMA StopType ==
  ASSUME TypeOK, NEW v \in Visits, StopPolling(v)
  PROVE  ref' \in [Visits -> Calls \union {None}] /\ live' \subseteq Calls
  BY DEF TypeOK, StopPolling

\* A handler shows one of the four words.
LEMMA ShowType ==
  ASSUME TypeOK, NEW c \in Calls, NEW s \in {"idle", "queued", "done", "error"}, Show(c, s)
  PROVE  status' \in {"idle", "queued", "done", "error"}
  BY DEF TypeOK, Show

\* The steps of the page.
LEMMA TypePage ==
  ASSUME TypeOK, PollType, CallInv,
         OpenPage \/ LeavePage \/ \E c \in Calls : HandleCall(c)
  PROVE  TypeOK' /\ PollType'
<1> USE DEF backend, page, timers, polls
<1>1. CASE OpenPage
  BY <1>1 DEF OpenPage, TypeOK, PollType
<1>2. CASE LeavePage
  BY <1>2 DEF LeavePage, TypeOK, PollType
<1>3. ASSUME NEW c \in Calls, HandleCall(c) PROVE TypeOK' /\ PollType'
  <2>1. visit \in Visits
    BY <1>3 DEF HandleCall, CallInv
  <2>2. ref' \in [Visits -> Calls \union {None}] /\ live' \subseteq Calls
    BY <1>3, <2>1, StopType DEF HandleCall
  <2>3. madeIn' \in [Calls -> 0..MaxVisits] /\ posting' \subseteq Calls
    BY <1>3 DEF HandleCall, TypeOK
  <2> QED  BY <1>3, <2>2, <2>3 DEF HandleCall, TypeOK, PollType
<1> QED  BY <1>1, <1>2, <1>3

\* The answers to a POST.
LEMMA TypePost ==
  ASSUME TypeOK, PollType, CallInv, NEW c \in Calls,
         PostQueued(c) \/ PostFailed(c) \/ PostBroken(c)
  PROVE  TypeOK' /\ PollType'
<1> USE DEF backend, page, timers, polls
<1>1. CASE PostQueued(c)
  <2>1. madeIn[c] \in Visits
    BY <1>1 DEF PostQueued, CallInv, Active
  <2>2. ref' \in [Visits -> Calls \union {None}] /\ live' \subseteq Calls
    BY <1>1, <2>1 DEF PostQueued, TypeOK
  <2> QED  BY <1>1, <2>2 DEF PostQueued, TypeOK, PollType
<1>2. CASE PostFailed(c)
  BY <1>2, ShowType DEF PostFailed, TypeOK, PollType
<1>3. CASE PostBroken(c)
  BY <1>3, ShowType, FaultType DEF PostBroken, TypeOK, PollType
<1> QED  BY <1>1, <1>2, <1>3

\* Status requests: none is dealt with twice.
LEMMA TypePoll ==
  ASSUME TypeOK, PollType, CallInv, NEW c \in Calls,
         Tick(c) \/ GetStatus(c) \/ GetStatusLost(c) \/ Done(c) \/ NotYet(c)
  PROVE  TypeOK' /\ PollType'
<1> USE DEF backend, page, timers, polls, Open
<1>1. CASE Tick(c)
  <2>1. ticks' \in [Calls -> 0..MaxTicks] /\ asked' \in [Calls -> Nat]
    BY <1>1 DEF Tick, TypeOK, PollType
  <2>2. \A d \in Calls : Open(d)' <= ticks'[d]
    BY <1>1 DEF Tick, TypeOK, PollType
  <2>3. overlapped' \in BOOLEAN
    BY <1>1 DEF Tick, TypeOK
  <2> QED  BY <1>1, <2>1, <2>2, <2>3 DEF Tick, TypeOK, PollType
<1>2. CASE GetStatus(c)
  <2>1. asked' \in [Calls -> Nat] /\ found' \in [Calls -> Nat] /\ missing' \in [Calls -> Nat]
    BY <1>2 DEF GetStatus, PollType
  <2>2. \A d \in Calls : Open(d)' = Open(d)
    BY <1>2 DEF GetStatus, PollType
  <2> QED  BY <1>2, <2>1, <2>2 DEF GetStatus, TypeOK, PollType
<1>3. CASE GetStatusLost(c)
  <2>1. asked' \in [Calls -> Nat] /\ missing' \in [Calls -> Nat]
    BY <1>3 DEF GetStatusLost, PollType
  <2>2. \A d \in Calls : Open(d)' = Open(d)
    BY <1>3 DEF GetStatusLost, PollType
  <2> QED  BY <1>3, <2>1, <2>2, FaultType DEF GetStatusLost, TypeOK, PollType
<1>4. ASSUME Done(c) \/ NotYet(c) PROVE madeIn[c] \in Visits
  BY <1>4 DEF Done, NotYet, CallInv, Active, PollType
<1>5. CASE Done(c)
  <2>1. found' \in [Calls -> Nat]
    BY <1>5 DEF Done, PollType
  <2>2. \A d \in Calls : Open(d)' <= Open(d)
    BY <1>5 DEF Done, PollType
  <2>3. ref' \in [Visits -> Calls \union {None}] /\ live' \subseteq Calls
    BY <1>4, <1>5, StopType DEF Done
  <2>4. status' \in {"idle", "queued", "done", "error"}
    BY <1>5, ShowType DEF Done
  <2>5. \A d \in Calls : Open(d)' <= ticks'[d]
    BY <1>5, <2>1, <2>2 DEF Done, TypeOK, PollType
  <2> QED  BY <1>5, <2>1, <2>3, <2>4, <2>5 DEF Done, TypeOK, PollType
<1>6. CASE NotYet(c)
  <2>1. missing' \in [Calls -> Nat]
    BY <1>6 DEF NotYet, PollType
  <2>2. \A d \in Calls : Open(d)' <= Open(d)
    BY <1>6 DEF NotYet, PollType
  <2>3. ref' \in [Visits -> Calls \union {None}] /\ live' \subseteq Calls
    BY <1>4, <1>6, StopType DEF NotYet, TypeOK
  <2>4. \A d \in Calls : Open(d)' <= ticks'[d]
    BY <1>6, <2>1, <2>2 DEF NotYet, TypeOK, PollType
  <2> QED  BY <1>6, <2>1, <2>3, <2>4 DEF NotYet, TypeOK, PollType
<1> QED  BY <1>1, <1>2, <1>3, <1>5, <1>6

\* The backend changes nothing but its own variables.
LEMMA TypeBackend ==
  ASSUME TypeOK, PollType, NEW c \in Calls, Served(c) \/ Accepted(c) \/ Recorded(c)
  PROVE  TypeOK' /\ PollType'
<1> USE DEF backend, page, timers, polls, Backend
<1>1. CASE Served(c)
  BY <1>1 DEF Served, Ledger!Answer, TypeOK, PollType
<1>2. CASE Accepted(c)
  BY <1>2 DEF Accepted, Ledger!Send, Ledger!Refuse, TypeOK, PollType
<1>3. CASE Recorded(c)
  BY <1>3 DEF Recorded, Ledger!Record, TypeOK, PollType
<1> QED  BY <1>1, <1>2, <1>3

-----------------------------------------------------------------------------
(* CallInv.                                                                *)

\* The initial state.
LEMMA InvInit == Init => IInv
<1>1. 0 \in 0..MaxVisits /\ 0 \in 0..MaxTicks /\ 0 \in 0..MaxFaults
  OBVIOUS
<1>2. Init => PollType /\ \A c \in Calls : Open(c) = 0 /\ ticks[c] = 0
  BY DEF Init, PollType, Open
<1>3. Init => TypeOK
  <2> SUFFICES ASSUME Init PROVE TypeOK
    OBVIOUS
  <2>1. answer \in [Calls -> {"queued", "error", "lost", None}]
        /\ sent \subseteq Calls /\ recorded \in [Calls -> Stamps \union {None}]
    BY DEF Init, Ledger!Init
  <2>2. /\ madeIn \in [Calls -> 0..MaxVisits] /\ ref \in [Visits -> Calls \union {None}]
        /\ ticks \in [Calls -> 0..MaxTicks]
    BY <1>1 DEF Init
  <2>3. \A c \in Calls : asked[c] + found[c] + missing[c] <= ticks[c]
    BY <1>2 DEF Open
  <2> QED  BY <1>1, <2>1, <2>2, <2>3 DEF Init, TypeOK
<1>4. Init => CallInv /\ OneAtATime /\ StatusTrue
  BY DEF Init, CallInv, OneAtATime, StatusTrue, Active, Open, Busy
<1> QED  BY <1>2, <1>3, <1>4 DEF IInv

\* The button and the clean-up.
LEMMA CallPage ==
  ASSUME TypeOK, PollType, CallInv,
         OpenPage \/ LeavePage \/ \E c \in Calls : HandleCall(c)
  PROVE  CallInv'
<1> USE DEF backend, page, timers, polls, Active, Open, CallInv
<1>1. CASE OpenPage
  BY <1>1 DEF OpenPage, TypeOK, Visits
<1>2. CASE LeavePage
  BY <1>2 DEF LeavePage, TypeOK
<1>3. ASSUME NEW c \in Calls, HandleCall(c) PROVE CallInv'
  <2>1. visit \in Visits /\ visit # 0
    BY <1>3 DEF HandleCall, Visits
  <2>2. c \notin live /\ Open(c) = 0
    <3>1. ~Active(c)
      BY <1>3 DEF HandleCall, Visits
    <3> QED  BY <3>1, OpenNat
  <2>3. \A d \in Calls : madeIn'[d] = IF d = c THEN visit ELSE madeIn[d]
    BY <1>3 DEF HandleCall, TypeOK
  <2>4. \A v \in Visits : ref'[v] = IF v = visit THEN None ELSE ref[v]
    BY <1>3 DEF HandleCall, StopPolling, TypeOK
  <2>5. \A v \in Visits : ref'[v] # None => ref'[v] # c
    BY <1>3, <2>4 DEF HandleCall, Visits
  <2>6. /\ posting' = posting \union {c} /\ live' \subseteq live
        /\ visit' = visit /\ shown' = shown
        /\ UNCHANGED <<asked, found, missing, recorded>>
    BY <1>3 DEF HandleCall, StopPolling
  <2> QED  BY <2>1, <2>2, <2>3, <2>4, <2>5, <2>6 DEF TypeOK
<1> QED  BY <1>1, <1>2, <1>3

\* The answers to a POST.
LEMMA CallPost ==
  ASSUME TypeOK, PollType, CallInv, NEW c \in Calls,
         PostQueued(c) \/ PostFailed(c) \/ PostBroken(c)
  PROVE  CallInv'
<1> USE DEF backend, page, timers, polls, Active, Open, CallInv
<1>1. CASE PostQueued(c)
  <2>1. madeIn[c] \in Visits /\ Open(c) = 0 /\ c \notin live
    BY <1>1 DEF PostQueued
  <2>2. \A v \in Visits : ref'[v] = IF v = madeIn[c] THEN c ELSE ref[v]
    BY <1>1, <2>1 DEF PostQueued, TypeOK
  <2> QED  BY <1>1, <2>1, <2>2 DEF PostQueued, TypeOK
<1>2. CASE PostFailed(c) \/ PostBroken(c)
  BY <1>2 DEF PostFailed, PostBroken, TypeOK
<1> QED  BY <1>1, <1>2

\* Status requests.
LEMMA CallPoll ==
  ASSUME TypeOK, PollType, CallInv, NEW c \in Calls,
         Tick(c) \/ GetStatus(c) \/ GetStatusLost(c) \/ Done(c) \/ NotYet(c)
  PROVE  CallInv'
<1> USE DEF backend, page, timers, polls, Active, Open
<1>1. CASE Tick(c)
  BY <1>1 DEF Tick, TypeOK, PollType, CallInv
<1>2. CASE GetStatus(c)
  BY <1>2 DEF GetStatus, TypeOK, PollType, CallInv
<1>3. CASE GetStatusLost(c)
  BY <1>3 DEF GetStatusLost, TypeOK, PollType, CallInv
<1>4. CASE Done(c) \/ NotYet(c)
  <2>1. \A d \in Calls : found'[d] <= found[d] /\ Open(d)' <= Open(d) /\ Open(d)' \in Nat
    BY <1>4 DEF Done, NotYet, PollType
  <2>2. madeIn[c] \in Visits
    BY <1>4 DEF Done, NotYet, CallInv, PollType
  <2>3. live' \subseteq live /\ \A v \in Visits : ref'[v] \in {None, ref[v]}
    BY <1>4, <2>2 DEF Done, NotYet, StopPolling, TypeOK
  <2>4. UNCHANGED <<shown, visit, madeIn, posting, recorded>>
    BY <1>4 DEF Done, NotYet
  <2>5. \A d \in Calls : Active(d)' => Active(d)
    BY <2>1, <2>3, <2>4 DEF PollType
  <2>6. \A d \in posting : Open(d)' = 0
    BY <2>1 DEF TypeOK, PollType, CallInv
  <2>7. \A d \in Calls : found'[d] > 0 => found[d] > 0
    BY <1>4 DEF Done, NotYet, PollType
  <2> HIDE DEF Active, Open
  <2> QED  BY <2>3, <2>4, <2>5, <2>6, <2>7 DEF CallInv, Visits
<1> QED  BY <1>1, <1>2, <1>3, <1>4

\* The backend: a call on record stays there.
LEMMA CallBackend ==
  ASSUME TypeOK, CallInv, NEW c \in Calls, Served(c) \/ Accepted(c) \/ Recorded(c)
  PROVE  CallInv' /\ \A d \in Calls : recorded[d] # None => recorded'[d] # None
<1>1. \A d \in Calls : recorded[d] # None => recorded'[d] # None
  BY DEF Served, Accepted, Recorded, Backend, Ledger!Answer, Ledger!Send, Ledger!Refuse,
         Ledger!Record, TypeOK
<1>2. UNCHANGED <<page, timers, polls, overlapped, faults>>
  BY DEF Served, Accepted, Recorded, Backend
<1> QED  BY <1>1, <1>2 DEF page, timers, polls, CallInv, Active, Open

-----------------------------------------------------------------------------
(* OneAtATime and StatusTrue, as long as nothing has overlapped.           *)

Quiet == TypeOK /\ PollType /\ CallInv /\ OneAtATime /\ StatusTrue

\* The button and the clean-up.  The button works only while the page waits
\* for nothing, so that no call of the visit is active.
LEMMA QuietPage ==
  ASSUME Quiet, OpenPage \/ LeavePage \/ \E c \in Calls : HandleCall(c)
  PROVE  OneAtATime' /\ StatusTrue'
<1> USE DEF backend, page, timers, polls, Open, Quiet, Busy
<1>1. CASE OpenPage
  <2>1. \A d \in Calls : madeIn[d] # visit'
    BY <1>1 DEF OpenPage, CallInv, TypeOK
  <2>2. \A d \in Calls : (Active(d)' <=> Active(d)) /\ Open(d)' = Open(d)
    BY <1>1 DEF OpenPage, Active
  <2>3. OneAtATime'
    BY <1>1, <2>1, <2>2 DEF OpenPage, OneAtATime
  <2>4. StatusTrue'
    BY <1>1 DEF OpenPage, StatusTrue
  <2> QED  BY <2>3, <2>4
<1>2. CASE LeavePage
  <2>1. \A d \in Calls : (Active(d)' => Active(d)) /\ Open(d)' = Open(d)
    BY <1>2 DEF LeavePage, Active
  <2>2. OneAtATime'
    BY <1>2, <2>1 DEF LeavePage, OneAtATime
  <2> QED  BY <1>2, <2>2 DEF LeavePage, StatusTrue
<1>3. ASSUME NEW c \in Calls, HandleCall(c) PROVE OneAtATime' /\ StatusTrue'
  <2>1. \A d \in Calls : Active(d) => madeIn[d] # visit
    BY <1>3 DEF HandleCall, OneAtATime
  <2>2. ~Active(c) /\ visit \in Visits
    BY <1>3 DEF HandleCall, CallInv, Visits
  <2>3. \A d \in Calls : madeIn'[d] = IF d = c THEN visit ELSE madeIn[d]
    BY <1>3 DEF HandleCall, TypeOK
  <2>4. \A d \in Calls : (Active(d)' <=> Active(d) \/ d = c) /\ Open(d)' = Open(d)
    <3>1. \A d \in live : d # ref[visit]
      <4> SUFFICES ASSUME NEW d \in live, d = ref[visit] PROVE FALSE
        OBVIOUS
      <4>1. d \in Calls /\ Active(d) /\ ref[visit] # None
        BY DEF TypeOK, Active
      <4> QED  BY <2>1, <2>2, <4>1 DEF CallInv
    <3>2. live' = live
      BY <1>3, <3>1 DEF HandleCall, StopPolling
    <3> QED  BY <1>3, <3>2 DEF HandleCall, Active
  <2>5. live' \subseteq live /\ \A v \in Visits : v # visit => ref'[v] = ref[v]
    BY <1>3 DEF HandleCall, StopPolling, TypeOK
  <2>6. shown' /\ status' = "queued" /\ current' = c /\ visit' = visit /\ c \in posting'
    BY <1>3 DEF HandleCall
  <2>7. \A d \in live' : d \in Calls /\ d # c /\ Active(d) /\ madeIn[d] # visit
    BY <2>1, <2>2, <2>5 DEF TypeOK, Active
  <2>8. \A d \in live' : ref'[madeIn'[d]] = d
    BY <2>3, <2>5, <2>7 DEF OneAtATime, CallInv
  <2>9. \A d \in Calls : Open(d)' <= 1
    BY <2>4 DEF OneAtATime
  <2>10. \A d, e \in Calls : Active(d)' /\ Active(e)' /\ madeIn'[d] = madeIn'[e] => d = e
    BY <2>1, <2>3, <2>4 DEF OneAtATime
  <2>11. \A d \in Calls : shown' /\ Active(d)' /\ madeIn'[d] = visit' => Busy' /\ d = current'
    BY <2>1, <2>3, <2>4, <2>6
  <2>12. OneAtATime'
    BY <2>8, <2>9, <2>10, <2>11 DEF OneAtATime
  <2>13. StatusTrue'
    BY <2>3, <2>6 DEF StatusTrue
  <2> QED  BY <2>12, <2>13
<1> QED  BY <1>1, <1>2, <1>3

\* The answers to a POST.
LEMMA QuietPost ==
  ASSUME Quiet, NEW c \in Calls, PostQueued(c) \/ PostFailed(c) \/ PostBroken(c)
  PROVE  OneAtATime' /\ StatusTrue'
<1> USE DEF backend, page, timers, polls, Open, Quiet, Busy
<1>1. c \in posting /\ Active(c) /\ madeIn[c] \in Visits
  BY DEF PostQueued, PostFailed, PostBroken, CallInv, Active
<1>2. CASE PostQueued(c)
  <2>1. \A d \in Calls : (Active(d)' <=> Active(d)) /\ Open(d)' = Open(d)
    BY <1>1, <1>2 DEF PostQueued, Active
  <2>2. \A v \in Visits : ref'[v] = IF v = madeIn[c] THEN c ELSE ref[v]
    BY <1>1, <1>2 DEF PostQueued, TypeOK
  <2>3. \A d \in live' : ref'[madeIn[d]] = d
    <3> SUFFICES ASSUME NEW d \in live' PROVE ref'[madeIn[d]] = d
      OBVIOUS
    <3>1. d \in Calls /\ Active(d)
      BY <1>1, <1>2 DEF PostQueued, TypeOK, Active
    <3>2. madeIn[d] = madeIn[c] => d = c
      BY <1>1, <3>1 DEF OneAtATime
    <3>3. d # c => d \in live
      BY <1>2 DEF PostQueued
    <3> QED  BY <1>1, <2>2, <3>1, <3>2, <3>3 DEF OneAtATime, CallInv
  <2>4. OneAtATime'
    BY <1>2, <2>1, <2>3 DEF PostQueued, OneAtATime
  <2>5. StatusTrue'
    BY <1>2 DEF PostQueued, StatusTrue, GaveUp
  <2> QED  BY <2>4, <2>5
<1>3. CASE PostFailed(c) \/ PostBroken(c)
  <2>1. /\ posting' = posting \ {c} /\ Show(c, "error")
        /\ UNCHANGED <<recorded, visit, shown, madeIn, current, timers, polls>>
    BY <1>3 DEF PostFailed, PostBroken
  <2>2. \A d \in Calls : (Active(d)' <=> Active(d) /\ d # c) /\ Open(d)' = Open(d)
    BY <1>1, <2>1 DEF CallInv, Active
  <2>3. shown /\ madeIn[c] = visit => Busy /\ c = current
    BY <1>1 DEF OneAtATime
  <2>4. status' = IF shown /\ madeIn[c] = visit THEN "error" ELSE status
    BY <2>1 DEF Show
  <2>5. OneAtATime'
    BY <1>1, <2>1, <2>2, <2>3, <2>4 DEF OneAtATime
  <2>6. StatusTrue'
    BY <1>1, <2>1, <2>3, <2>4 DEF StatusTrue, GaveUp
  <2> QED  BY <2>5, <2>6
<1> QED  BY <1>2, <1>3

\* Asking: a tick that overlaps nothing finds nothing outstanding.
LEMMA QuietAsk ==
  ASSUME Quiet, NEW c \in Calls, ~overlapped',
         Tick(c) \/ GetStatus(c) \/ GetStatusLost(c)
  PROVE  OneAtATime' /\ StatusTrue'
<1> USE DEF backend, page, timers, polls, Quiet, Busy
<1>1. UNCHANGED <<recorded, visit, shown, status, madeIn, current, posting, ref, live>>
  BY DEF Tick, GetStatus, GetStatusLost
<1>2. Active(c)
  BY DEF Tick, GetStatus, GetStatusLost, Active, Open, PollType
<1>3. \A d \in Calls : Open(d)' <= 1 /\ (Active(d)' => Active(d))
  <2>1. CASE Tick(c)
    <3>1. \A d \in Calls : madeIn[d] = madeIn[c] => Open(d) = 0
      <4>1. Outstanding(madeIn[c]) = {}
        BY <2>1 DEF Tick
      <4>2. \A d \in Calls : madeIn[d] = madeIn[c] => ~(Open(d) > 0)
        BY <4>1 DEF Outstanding, Open
      <4> QED  BY <4>2, OpenNat
    <3>2. \A d \in Calls : Open(d)' = IF d = c THEN Open(d) + 1 ELSE Open(d)
      BY <2>1 DEF Tick, Open, PollType
    <3>3. \A d \in Calls : Open(d) <= 1 /\ Open(d) \in Nat
      BY DEF OneAtATime, Open, PollType
    <3> QED  BY <1>1, <1>2, <3>1, <3>2, <3>3 DEF Active
  <2>2. CASE GetStatus(c) \/ GetStatusLost(c)
    <3>1. \A d \in Calls : Open(d)' = Open(d)
      BY <2>2 DEF GetStatus, GetStatusLost, Open, PollType
    <3> QED  BY <1>1, <3>1 DEF OneAtATime, Active
  <2> QED  BY <2>1, <2>2
<1>4. OneAtATime'
  BY <1>1, <1>3 DEF OneAtATime
<1>5. GaveUp => GaveUp'
  <2>1. current # None /\ ticks[current] >= MaxPolls => ticks'[current] >= MaxPolls
    BY DEF Tick, GetStatus, GetStatusLost, TypeOK
  <2> QED  BY <1>1, <2>1 DEF GaveUp
<1> QED  BY <1>1, <1>4, <1>5 DEF StatusTrue

\* Answers: the one status request of the call is dealt with, and what the
\* reference holds is its timer.
LEMMA QuietAnswer ==
  ASSUME Quiet, NEW c \in Calls, Done(c) \/ NotYet(c)
  PROVE  OneAtATime' /\ StatusTrue'
<1> USE DEF backend, page, timers, polls, Quiet, Busy
<1>1. UNCHANGED <<recorded, visit, shown, madeIn, current, posting, ticks>>
  BY DEF Done, NotYet
<1>2. Active(c) /\ Open(c) = 1 /\ madeIn[c] \in Visits /\ c \notin posting
  BY DEF Done, NotYet, Active, Open, PollType, OneAtATime, CallInv
<1>3. \A d \in Calls : Open(d)' = IF d = c THEN 0 ELSE Open(d)
  BY <1>2 DEF Done, NotYet, Open, PollType
<1>4. live' \subseteq live /\ \A v \in Visits : v # madeIn[c] => ref'[v] = ref[v]
  BY <1>2 DEF Done, NotYet, StopPolling, TypeOK
<1>5. \A d \in Calls : Active(d)' => Active(d)
  BY <1>1, <1>2, <1>3, <1>4 DEF Active
<1>6. \A d \in live : d # c => madeIn[d] \in Visits /\ madeIn[d] # madeIn[c]
  BY <1>2 DEF OneAtATime, Active, CallInv, TypeOK
<1>7. c \in live => ref[madeIn[c]] = c
  BY DEF OneAtATime
<1>8. \A d \in live : d # c => d # ref[madeIn[c]]
  BY <1>2, <1>6 DEF CallInv, TypeOK
<1>9. \A d \in live : d # c => d \in live'
  BY <1>8 DEF Done, NotYet, StopPolling
<1>10. shown /\ madeIn[c] = visit => Busy /\ c = current
  BY <1>2 DEF OneAtATime
<1>11. CASE Done(c)
  <2>1. status' = IF shown /\ madeIn[c] = visit THEN "done" ELSE status
    BY <1>11 DEF Done, Show
  <2>2. ~Active(c)'
    <3>1. c \notin live'
      BY <1>7, <1>11 DEF Done, StopPolling
    <3> QED  BY <1>1, <1>2, <1>3, <3>1 DEF Active
  <2>3. \A d \in live' : ref'[madeIn'[d]] = d
    BY <1>1, <1>4, <1>6, <1>7, <1>11 DEF OneAtATime, Done, StopPolling
  <2>4. \A d \in Calls : shown' /\ Active(d)' /\ madeIn'[d] = visit' => Busy' /\ d = current'
    BY <1>1, <1>2, <1>5, <2>1, <2>2 DEF OneAtATime
  <2>5. \A d \in Calls : Open(d)' <= 1
    BY <1>3 DEF OneAtATime
  <2>6. OneAtATime'
    BY <1>1, <1>5, <2>3, <2>4, <2>5 DEF OneAtATime
  <2>7. recorded[c] # None
    BY <1>11 DEF Done, CallInv
  <2>8. CASE shown /\ madeIn[c] = visit
    BY <1>1, <1>10, <2>1, <2>6, <2>7, <2>8 DEF StatusTrue
  <2>9. CASE ~(shown /\ madeIn[c] = visit)
    BY <1>1, <1>9, <2>1, <2>6, <2>9 DEF StatusTrue, GaveUp
  <2> QED  BY <2>6, <2>8, <2>9
<1>12. CASE NotYet(c)
  <2>1. status' = status
    BY <1>12 DEF NotYet
  <2>2. ticks[c] < MaxPolls => live' = live /\ ref' = ref
    BY <1>12 DEF NotYet, TypeOK
  <2>3. ticks[c] >= MaxPolls => c \notin live'
    BY <1>7, <1>12 DEF NotYet, StopPolling
  <2>4. \A d \in live' : ref'[madeIn'[d]] = d
    BY <1>1, <1>4, <1>6, <2>2, <2>3 DEF OneAtATime, TypeOK
  <2>5. \A d \in Calls : Open(d)' <= 1
    BY <1>3 DEF OneAtATime
  <2>6. OneAtATime'
    BY <1>1, <1>5, <2>1, <2>4, <2>5 DEF OneAtATime
  <2>7. Busy => current \in posting' \/ current \in live' \/ GaveUp'
    BY <1>1, <1>2, <1>9, <2>2 DEF StatusTrue, GaveUp, TypeOK
  <2> QED  BY <1>1, <2>1, <2>6, <2>7 DEF StatusTrue
<1> QED  BY <1>11, <1>12

\* The backend.
LEMMA QuietBackend ==
  ASSUME Quiet, NEW c \in Calls, Served(c) \/ Accepted(c) \/ Recorded(c)
  PROVE  OneAtATime' /\ StatusTrue'
<1>1. \A d \in Calls : recorded[d] # None => recorded'[d] # None
  BY CallBackend DEF Quiet
<1>2. UNCHANGED <<page, timers, polls, overlapped, faults>>
  BY DEF Served, Accepted, Recorded, Backend
<1> QED  BY <1>1, <1>2 DEF page, timers, polls, Quiet, OneAtATime, StatusTrue, Active, Open,
                           Busy, GaveUp

-----------------------------------------------------------------------------
(* The theorems.                                                           *)

\* What has overlapped stays so.
LEMMA OverlappedStays == ASSUME Next, overlapped \in BOOLEAN PROVE overlapped => overlapped'
  BY DEF Next, OpenPage, LeavePage, HandleCall, Handlers, PostQueued, PostFailed, Done, NotYet,
         Tick, GetStatus, PostBroken, GetStatusLost, Served, Accepted, Recorded, Backend

\* Every step preserves the invariant.
LEMMA InvNext == IInv /\ [Next]_vars => IInv'
<1> SUFFICES ASSUME IInv, [Next]_vars PROVE IInv'
  OBVIOUS
<1>1. CASE UNCHANGED vars
  BY <1>1 DEF vars, backend, page, timers, polls, IInv, TypeOK, PollType, CallInv, OneAtATime,
              StatusTrue, Active, Open, Busy, GaveUp
<1>2. CASE Next
  <2>1. TypeOK /\ PollType /\ CallInv
    BY DEF IInv
  <2>2. TypeOK' /\ PollType' /\ CallInv'
    BY <1>2, <2>1, TypePage, TypePost, TypePoll, TypeBackend, CallPage, CallPost, CallPoll,
       CallBackend DEF Next, Handlers
  <2>3. ASSUME ~overlapped' PROVE OneAtATime' /\ StatusTrue'
    <3>1. Quiet
      BY <1>2, <2>1, <2>3, OverlappedStays DEF IInv, Quiet, TypeOK
    <3> QED  BY <1>2, <2>3, <3>1, QuietPage, QuietPost, QuietAsk, QuietAnswer, QuietBackend
             DEF Next, Handlers
  <2> QED  BY <2>2, <2>3 DEF IInv
<1> QED  BY <1>1, <1>2

\* The inductive invariant holds in every state.
THEOREM Invariance == Spec => []IInv
  BY InvInit, InvNext, PTL DEF Spec

\* Type correctness: among others, no more status requests are on their way
\* than the timer has ticked.
THEOREM TypeCorrect == Spec => []TypeOK
<1>1. IInv => TypeOK
  BY DEF IInv
<1> QED  BY <1>1, Invariance, PTL

\* ServicePage.tsx: a page that says done shows a call that is on record.
THEOREM DoneTrue == Spec => []DoneIsTrue
<1>1. IInv => DoneIsTrue
  BY DEF IInv, StatusTrue, DoneIsTrue
<1> QED  BY <1>1, Invariance, PTL

\* ServicePage.tsx, stopPolling: the reference of the page holds every timer that ticks.
THEOREM NoTimerLost == Spec => []NoLostTimer
<1>1. IInv => NoLostTimer
  BY DEF IInv, OneAtATime, NoLostTimer
<1> QED  BY <1>1, Invariance, PTL

\* The page says queued only while it waits, or after all its attempts.
THEOREM QueuedWaits == Spec => []QueuedIsWaitedFor
<1>1. IInv => QueuedIsWaitedFor
  BY DEF IInv, StatusTrue, QueuedIsWaitedFor
<1> QED  BY <1>1, Invariance, PTL
================================================================================
