------------------------------ MODULE ServicePage ------------------------------
(***************************************************************************)
(* The service page of the frontend on top of the call pipeline: the       *)
(* button sends POST /call, and once that is answered an interval timer    *)
(* asks for the status of the call until its row is there or the page      *)
(* gives up.  Of the backend only what CallLedger promises is used.  The   *)
(* answers to status requests arrive in any order, also after the timer    *)
(* was stopped, after another call was made and after the page was left:   *)
(* everything the handlers share is the status on the page and the one     *)
(* reference to a timer.                                                   *)
(***************************************************************************)
EXTENDS Naturals, FiniteSets

CONSTANTS
  Calls,     \* request ids, one for each time the button is pressed
  Stamps,    \* values calls.processed_at can take
  None,
  MaxPolls,  \* MAX_POLL_ATTEMPTS
  MaxTicks,  \* bound: ticks of one timer
  MaxVisits, \* bound: times the page is opened
  MaxFaults  \* bound: requests the network loses

ASSUME ServicePageAssumption ==
  /\ MaxPolls \in Nat \ {0} /\ MaxTicks \in Nat /\ MaxTicks >= MaxPolls
  /\ MaxVisits \in Nat \ {0} /\ MaxFaults \in Nat /\ None \notin Calls

VARIABLES
  answer, sent, recorded,  \* the backend, see CallLedger
  visit,      \* which opening of the page this is
  shown,      \* the page is open
  status,     \* the status it shows
  madeIn,     \* madeIn[c]: the visit in which call c was made, 0 for none
  current,    \* the last call made in this visit
  posting,    \* calls whose POST the page waits for
  ref,        \* ref[v]: pollTimerRef of visit v, None or the call it polls
  live,       \* calls whose timer ticks
  ticks,      \* ticks[c]: attempts of the timer of c
  asked,      \* asked[c]: status requests on their way to call-api
  found,      \* found[c]: answers DONE on their way to the page
  missing,    \* missing[c]: answers 404, and errors, on their way
  overlapped, \* history: a timer ticked while an answer was outstanding
  faults

Ledger == INSTANCE CallLedger

backend == <<answer, sent, recorded>>
page    == <<visit, shown, status, madeIn, current, posting>>
timers  == <<ref, live, ticks>>
polls   == <<asked, found, missing>>
vars == <<backend, page, timers, polls, overlapped, faults>>

Visits == 1..MaxVisits

Init ==
  /\ Ledger!Init
  /\ visit = 0 /\ shown = FALSE /\ status = "idle"
  /\ madeIn = [c \in Calls |-> 0] /\ current = None /\ posting = {}
  /\ ref = [v \in Visits |-> None] /\ live = {} /\ ticks = [c \in Calls |-> 0]
  /\ asked = [c \in Calls |-> 0]
  /\ found = [c \in Calls |-> 0] /\ missing = [c \in Calls |-> 0]
  /\ overlapped = FALSE /\ faults = 0

Fault == faults < MaxFaults /\ faults' = faults + 1

\* Calls of a visit with a status request that is not dealt with.
Outstanding(v) == {c \in Calls : madeIn[c] = v /\ asked[c] + found[c] + missing[c] > 0}

\* The handlers of a page that was left go on, but show nothing.
Show(c, s) == status' = IF shown /\ madeIn[c] = visit THEN s ELSE status

\* stopPolling in a handler of visit v: whatever timer the reference holds.
StopPolling(v) == live' = live \ {ref[v]} /\ ref' = [ref EXCEPT ![v] = None]

-----------------------------------------------------------------------------
(* The page.                                                               *)

OpenPage ==
  /\ ~shown /\ visit < MaxVisits
  /\ shown' = TRUE /\ visit' = visit + 1
  /\ status' = "idle" /\ current' = None
  /\ UNCHANGED <<backend, madeIn, posting, timers, polls, overlapped, faults>>

\* The clean-up of the effect: it can stop a timer, not a POST.
LeavePage ==
  /\ shown /\ shown' = FALSE
  /\ live' = live \ {ref[visit]}
  /\ UNCHANGED <<backend, visit, status, madeIn, current, posting, ref, ticks, polls, overlapped,
                 faults>>

\* Mutant: the button is not disabled while the page is busy.
HandleCallBusy(c) ==
  /\ shown /\ madeIn[c] = 0
  /\ StopPolling(visit)
  /\ status' = "queued" /\ current' = c
  /\ madeIn' = [madeIn EXCEPT ![c] = visit] /\ posting' = posting \union {c}
  /\ UNCHANGED <<backend, visit, shown, ticks, polls, overlapped, faults>>

\* handleCall up to the request.
HandleCall(c) ==
  /\ shown /\ status # "queued" /\ madeIn[c] = 0
  /\ StopPolling(visit)
  /\ status' = "queued" /\ current' = c
  /\ madeIn' = [madeIn EXCEPT ![c] = visit] /\ posting' = posting \union {c}
  /\ UNCHANGED <<backend, visit, shown, ticks, polls, overlapped, faults>>

\* 202: the timer is started, also on a page that was left meanwhile.
PostQueued(c) ==
  /\ c \in posting /\ answer[c] = "queued"
  /\ posting' = posting \ {c}
  /\ ref' = [ref EXCEPT ![madeIn[c]] = c] /\ live' = live \union {c}
  /\ UNCHANGED <<backend, visit, shown, status, madeIn, current, ticks, polls, overlapped, faults>>

\* Mutant: nothing is said of a POST that failed.
PostFailedQuietly(c) ==
  /\ c \in posting /\ answer[c] \in {"error", "lost"}
  /\ posting' = posting \ {c}
  /\ UNCHANGED <<backend, visit, shown, status, madeIn, current, timers, polls, overlapped, faults>>

\* !res.ok, or no answer at all.
PostFailed(c) ==
  /\ c \in posting /\ answer[c] \in {"error", "lost"}
  /\ posting' = posting \ {c}
  /\ Show(c, "error")
  /\ UNCHANGED <<backend, visit, shown, madeIn, current, timers, polls, overlapped, faults>>

\* The connection breaks on the side of the browser, before or after
\* call-api has seen the request.
PostBroken(c) ==
  /\ c \in posting /\ Fault
  /\ posting' = posting \ {c}
  /\ Show(c, "error")
  /\ UNCHANGED <<backend, visit, shown, madeIn, current, timers, polls, overlapped>>

-----------------------------------------------------------------------------
(* pollStatus.                                                             *)

\* Mutant: attempts are not counted.
TickUncounted(c) ==
  /\ c \in live /\ ticks[c] < MaxTicks
  /\ asked' = [asked EXCEPT ![c] = @ + 1]
  /\ overlapped' = (overlapped \/ Outstanding(madeIn[c]) # {})
  /\ UNCHANGED <<backend, page, timers, found, missing, faults>>

\* A tick does not wait for the answer to the one before.
Tick(c) ==
  /\ c \in live /\ ticks[c] < MaxTicks
  /\ ticks' = [ticks EXCEPT ![c] = @ + 1]
  /\ asked' = [asked EXCEPT ![c] = @ + 1]
  /\ overlapped' = (overlapped \/ Outstanding(madeIn[c]) # {})
  /\ UNCHANGED <<backend, page, ref, live, found, missing, faults>>

\* GET /call/{id}: the row of the call, which is DONE, or 404.
GetStatus(c) ==
  /\ asked[c] > 0
  /\ asked' = [asked EXCEPT ![c] = @ - 1]
  /\ IF recorded[c] # None
     THEN found' = [found EXCEPT ![c] = @ + 1] /\ UNCHANGED missing
     ELSE missing' = [missing EXCEPT ![c] = @ + 1] /\ UNCHANGED found
  /\ UNCHANGED <<backend, page, timers, overlapped, faults>>

GetStatusLost(c) ==
  /\ asked[c] > 0 /\ Fault
  /\ asked' = [asked EXCEPT ![c] = @ - 1]
  /\ missing' = [missing EXCEPT ![c] = @ + 1]
  /\ UNCHANGED <<backend, page, timers, found, overlapped>>

Done(c) ==
  /\ found[c] > 0
  /\ found' = [found EXCEPT ![c] = @ - 1]
  /\ Show(c, "done")
  /\ StopPolling(madeIn[c])
  /\ UNCHANGED <<backend, visit, shown, madeIn, current, posting, ticks, asked, missing,
                 overlapped, faults>>

\* Mutant: the timer is never stopped unless the call is done.
NotYetForEver(c) ==
  /\ missing[c] > 0
  /\ missing' = [missing EXCEPT ![c] = @ - 1]
  /\ UNCHANGED <<backend, page, timers, asked, found, overlapped, faults>>

\* The page stays queued; after MaxPolls attempts it gives up.
NotYet(c) ==
  /\ missing[c] > 0
  /\ missing' = [missing EXCEPT ![c] = @ - 1]
  /\ IF ticks[c] >= MaxPolls THEN StopPolling(madeIn[c]) ELSE UNCHANGED <<ref, live>>
  /\ UNCHANGED <<backend, page, ticks, asked, found, overlapped, faults>>

-----------------------------------------------------------------------------
(* The backend takes its steps for calls the page has made.                *)

Backend(c, step) ==
  madeIn[c] # 0 /\ step /\ UNCHANGED <<page, timers, polls, overlapped, faults>>

Served(c) == Backend(c, Ledger!Answer(c))

Accepted(c) == Backend(c, Ledger!Send(c) \/ Ledger!Refuse(c))

Recorded(c) == Backend(c, Ledger!Record(c))

-----------------------------------------------------------------------------
Handlers(c) == PostQueued(c) \/ PostFailed(c) \/ Done(c) \/ NotYet(c)

Next == \/ OpenPage \/ LeavePage
        \/ \E c \in Calls : \/ HandleCall(c) \/ Handlers(c) \/ Tick(c) \/ GetStatus(c)
                            \/ PostBroken(c) \/ GetStatusLost(c)
                            \/ Served(c) \/ Accepted(c) \/ Recorded(c)

\* Timers tick, handlers run, and call-api answers.  Nobody has to press a
\* button, and when a worker records a call is not for the page to know.
Spec == /\ Init /\ [][Next]_vars
        /\ \A c \in Calls : /\ WF_vars(Handlers(c)) /\ WF_vars(Tick(c)) /\ WF_vars(GetStatus(c))
                            /\ WF_vars(Accepted(c)) /\ WF_vars(Served(c))

-----------------------------------------------------------------------------
(* Properties.  A status request that outlasts the poll interval breaks    *)
(* each of them but the first: its answer is taken for one to the call     *)
(* that is current when it comes, and it stops that call's timer.          *)

GaveUp == current # None /\ ticks[current] >= MaxPolls

Busy == shown /\ status = "queued"

TypeOK ==
  /\ answer \in [Calls -> {"queued", "error", "lost", None}]
  /\ sent \subseteq Calls /\ recorded \in [Calls -> Stamps \union {None}]
  /\ visit \in 0..MaxVisits /\ shown \in BOOLEAN
  /\ status \in {"idle", "queued", "done", "error"}
  /\ madeIn \in [Calls -> 0..MaxVisits] /\ current \in Calls \union {None}
  /\ posting \subseteq Calls
  /\ ref \in [Visits -> Calls \union {None}] /\ live \subseteq Calls
  /\ ticks \in [Calls -> 0..MaxTicks]
  /\ \A c \in Calls : asked[c] + found[c] + missing[c] <= ticks[c]
  /\ overlapped \in BOOLEAN /\ faults \in 0..MaxFaults

\* The page says done only when the call made last is on record.
DoneIsTrue == shown /\ status = "done" /\ ~overlapped => recorded[current] # None

\* No timer is lost: the one reference of a page finds every timer that
\* ticks, also that of a page that was left while its POST was on the way.
NoLostTimer == \A c \in live : overlapped \/ ref[madeIn[c]] = c

\* A page that says queued is waiting for an answer, or has given up after
\* all its attempts and not before.
QueuedIsWaitedFor ==
  Busy /\ ~overlapped => current \in posting \/ current \in live \/ GaveUp

\* Every timer stops, also when the call is never recorded and on a page
\* that was left.
TimersStop == \A c \in Calls : c \in live ~> c \notin live \/ overlapped
-----------------------------------------------------------------------------
(* The inductive invariant behind the properties.                          *)

\* Status requests of c that are not dealt with.
Open(c) == asked[c] + found[c] + missing[c]

\* Something of c is under way that can still change the page.
Active(c) == c \in posting \/ c \in live \/ Open(c) > 0

PollType == asked \in [Calls -> Nat] /\ found \in [Calls -> Nat] /\ missing \in [Calls -> Nat]

\* Holds for every call, overlapped or not.
CallInv ==
  /\ shown => visit \in Visits
  /\ \A c \in Calls : madeIn[c] <= visit /\ (Active(c) => madeIn[c] \in Visits)
  /\ \A c \in posting : c \notin live /\ Open(c) = 0
  /\ \A v \in Visits : ref[v] # None => madeIn[ref[v]] = v
  /\ \A c \in Calls : found[c] > 0 => recorded[c] # None

\* At most one call of a visit is active, with one status request at most;
\* while the page is open that is the current call, and the page says queued.
OneAtATime ==
  /\ \A c \in Calls : Open(c) <= 1
  /\ \A c, d \in Calls : Active(c) /\ Active(d) /\ madeIn[c] = madeIn[d] => c = d
  /\ \A c \in Calls : shown /\ Active(c) /\ madeIn[c] = visit => Busy /\ c = current
  /\ \A c \in live : ref[madeIn[c]] = c

\* What the page says of the current call is so.
StatusTrue ==
  /\ shown /\ status = "done" => current \in Calls /\ recorded[current] # None
  /\ Busy => /\ current \in Calls /\ madeIn[current] = visit
             /\ current \in posting \/ current \in live \/ GaveUp

IInv == TypeOK /\ PollType /\ CallInv /\ (overlapped \/ (OneAtATime /\ StatusTrue))
=============================================================================
