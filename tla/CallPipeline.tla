---------------------------- MODULE CallPipeline ----------------------------
(***************************************************************************)
(* The life of a taxi call: POST /call (backend/call-api), the SQS queue,  *)
(* the worker pods (backend/worker) and the calls table in RDS.            *)
(*                                                                         *)
(* One action per step between two waits on another process: a handler of  *)
(* call-api, one request of a worker to SQS or to the database, and what   *)
(* SQS itself does (visibility timeout, redelivery).  A worker is a        *)
(* single thread; different workers interleave at every such step.  What   *)
(* can fail is a separate action that uses up one of MaxFaults: an         *)
(* AwsError, a database error, a dead pod, SIGTERM, a worker slower than   *)
(* the visibility timeout, a duplicate of SQS.                             *)
(***************************************************************************)
EXTENDS Naturals, Sequences, FiniteSets

CONSTANTS
  Calls,        \* request ids that call-api will generate
  Malformed,    \* the body CallMessage.from_body rejects
  Messages,     \* SQS messages
  Body,         \* Body[m]: the request id in the body of m, or Malformed
  Workers,      \* worker pods
  None,         \* no row, no answer
  BatchSize,    \* sqs_batch_size
  RetryLimit,   \* sqs_retry_count
  MaxReceives,  \* bound: ApproximateReceiveCount stops counting here
  MaxFaults     \* bound: failures of any kind in one behaviour

ASSUME BodyAssumption == /\ Body \in [Messages -> Calls \union {Malformed}]
                         /\ Malformed \notin Calls
                         /\ None \notin Calls
ASSUME BoundsAssumption == /\ BatchSize \in Nat \ {0}
                           /\ RetryLimit \in Nat
                           /\ MaxReceives \in Nat
                           /\ RetryLimit < MaxReceives
                           /\ MaxFaults \in Nat

VARIABLES
  reply,     \* reply[c]: how far POST /call for c has come
  mstate,    \* mstate[m]: where SQS has message m
  receives,  \* receives[m]: ApproximateReceiveCount
  holder,    \* holder[m]: the worker with the latest receipt handle of m
  rows,      \* rows[c]: the committed row of table calls with call_id = c
  pc,        \* pc[w]: the next request of worker w
  running,   \* running[w]: WorkerService._running
  batch,     \* batch[w]: the deliveries still to process, current one first
  session,   \* session[w]: the row the open transaction will commit
  faults     \* failures so far

queueVars  == <<mstate, receives, holder>>
workerVars == <<pc, running, batch, session>>
vars == <<reply, mstate, receives, holder, rows, pc, running, batch, session, faults>>

Status     == {"QUEUED", "PROCESSING", "DONE", "FAILED"}
Deliveries == [msg : Messages, count : 1..MaxReceives]
Row        == [status : Status, processed_at : Deliveries \union {None},
               receive_count : 1..MaxReceives]
ASSUME NoneAssumption == None \notin Row \union Deliveries \union Workers

QueueStates == {"absent", "visible", "inflight", "deleted"}
Busy        == {"handle", "insert", "commit", "ack"}

-----------------------------------------------------------------------------
(* StateManager: the status of a call.  A transition that is not allowed   *)
(* is logged and applied nevertheless.                                     *)

\* The time of the transition stands for the delivery that made it.
MarkDone(row, d) == [row EXCEPT !.status = "DONE", !.processed_at = d]

NewRow(d) == [status |-> "PROCESSING", processed_at |-> None, receive_count |-> d.count]

\* Mutant: mark_done without looking at the status first.
DuplicateRestamps(row, d) == MarkDone([row EXCEPT !.receive_count = d.count], d)

\* The same call delivered again: the count is overwritten, the rest stays.
Duplicate(row, d) ==
  LET counted == [row EXCEPT !.receive_count = d.count]
  IN  IF row.status # "DONE" THEN MarkDone(counted, d) ELSE counted

-----------------------------------------------------------------------------
Init ==
  /\ reply = [c \in Calls |-> "none"]
  \* Malformed bodies come from other producers and are in the queue already.
  /\ mstate = [m \in Messages |-> IF Body[m] = Malformed THEN "visible" ELSE "absent"]
  /\ receives = [m \in Messages |-> 0]
  /\ holder = [m \in Messages |-> None]
  /\ rows = [c \in Calls |-> None]
  /\ pc = [w \in Workers |-> "poll"]
  /\ running = [w \in Workers |-> TRUE]
  /\ batch = [w \in Workers |-> <<>>]
  /\ session = [w \in Workers |-> None]
  /\ faults = 0

Fault == faults < MaxFaults /\ faults' = faults + 1

-----------------------------------------------------------------------------
(* POST /call: CallService.accept_call.                                    *)

Unsent(c) == {m \in Messages : Body[m] = c /\ mstate[m] = "absent"}

Enqueue(ms) == mstate' = [m \in Messages |-> IF m \in ms THEN "visible" ELSE mstate[m]]

Publish(c) ==
  /\ reply[c] = "none"
  /\ \E m \in Unsent(c) : Enqueue({m})
  /\ reply' = [reply EXCEPT ![c] = "published"]
  /\ UNCHANGED <<receives, holder, rows, workerVars, faults>>

\* botocore repeats a send whose answer was lost: two messages, one body.
PublishTwice(c) ==
  /\ reply[c] = "none"
  /\ Cardinality(Unsent(c)) > 1
  /\ Enqueue(Unsent(c))
  /\ reply' = [reply EXCEPT ![c] = "published"]
  /\ Fault
  /\ UNCHANGED <<receives, holder, rows, workerVars>>

\* AwsError becomes a 502; SQS may have stored the message all the same.
PublishError(c) ==
  /\ reply[c] = "none"
  /\ \/ UNCHANGED mstate
     \/ \E m \in Unsent(c) : Enqueue({m})
  /\ reply' = [reply EXCEPT ![c] = "error"]
  /\ Fault
  /\ UNCHANGED <<receives, holder, rows, workerVars>>

Respond(c) ==
  /\ reply[c] = "published"
  /\ reply' = [reply EXCEPT ![c] = "queued"]
  /\ UNCHANGED <<queueVars, rows, workerVars, faults>>

\* The call-api pod dies between the publish and the 202.
ApiCrash(c) ==
  /\ reply[c] = "published"
  /\ reply' = [reply EXCEPT ![c] = "lost"]
  /\ Fault
  /\ UNCHANGED <<queueVars, rows, workerVars>>

-----------------------------------------------------------------------------
(* WorkerService.run_forever and poll_once.                                *)

\* ReceiveMessage on SQS: the messages become invisible and are counted.
Take(ms, h) ==
  /\ mstate' = [m \in Messages |-> IF m \in ms THEN "inflight" ELSE mstate[m]]
  /\ receives' = [m \in Messages |->
       IF m \in ms /\ receives[m] < MaxReceives THEN receives[m] + 1 ELSE receives[m]]
  /\ holder' = [m \in Messages |-> IF m \in ms THEN h ELSE holder[m]]

Visible == {m \in Messages : mstate[m] = "visible"}

\* A standard queue delivers up to BatchSize messages, in any order.
Orders == UNION {{o \in [1..n -> Visible] : \A i, j \in 1..n : o[i] = o[j] => i = j} :
                   n \in 1..BatchSize}

Receive(w, order) ==
  /\ pc[w] = "poll" /\ running[w]
  /\ Take({order[i] : i \in DOMAIN order}, w)
  /\ batch' = [batch EXCEPT ![w] =
       [i \in DOMAIN order |-> [msg |-> order[i], count |-> receives'[order[i]]]]]
  /\ pc' = [pc EXCEPT ![w] = "handle"]
  /\ UNCHANGED <<reply, rows, running, session, faults>>

\* The answer of SQS is lost: the messages are hidden, nobody works on them.
\* The worker logs the AwsError, sleeps and polls again.
ReceiveError(w) ==
  /\ pc[w] = "poll" /\ running[w]
  /\ \E m \in Visible : Take({m}, None)
  /\ Fault
  /\ UNCHANGED <<reply, rows, workerVars>>

\* The long poll ends without a message.
EmptyPoll(w) == pc[w] = "poll" /\ running[w] /\ Visible = {} /\ UNCHANGED vars

Current(w) == Head(batch[w])
CallOf(w)  == Body[Current(w).msg]

\* The next message of the batch, or back to the top of run_forever.
Continue(w, rest) ==
  /\ batch' = [batch EXCEPT ![w] = rest]
  /\ session' = [session EXCEPT ![w] = None]
  /\ pc' = [pc EXCEPT ![w] = IF rest = <<>> THEN "poll" ELSE "handle"]

\* Deleting with the latest receipt handle works; with an older one SQS
\* reports success and may keep the message.
Delete(w, m) ==
  \E s \in {"deleted"} \union (IF holder[m] = w THEN {} ELSE {mstate[m]}) :
    mstate' = [mstate EXCEPT ![m] = s]

-----------------------------------------------------------------------------
(* WorkerService._process_message.                                         *)

OverLimit(d) == d.count > RetryLimit

\* _handle_poison below the limit: the message is kept.
KeepPoison(w) ==
  /\ pc[w] = "handle"
  /\ CallOf(w) = Malformed
  /\ ~OverLimit(Current(w))
  /\ Continue(w, Tail(batch[w]))
  /\ UNCHANGED <<reply, queueVars, rows, running, faults>>

\* _handle_poison over the limit: the message is deleted.
DropPoison(w) ==
  /\ pc[w] = "handle"
  /\ CallOf(w) = Malformed
  /\ OverLimit(Current(w))
  /\ Delete(w, Current(w).msg)
  /\ Continue(w, Tail(batch[w]))
  /\ UNCHANGED <<reply, receives, holder, rows, running, faults>>

\* Begin a transaction and look the call up.
Select(w) ==
  LET d == Current(w)
      row == rows[CallOf(w)]
  IN  /\ pc[w] = "handle"
      /\ CallOf(w) # Malformed
      /\ IF row = None
         THEN /\ pc' = [pc EXCEPT ![w] = "insert"]
              /\ UNCHANGED session
         ELSE /\ pc' = [pc EXCEPT ![w] = "commit"]
              /\ session' = [session EXCEPT ![w] = Duplicate(row, d)]
      /\ UNCHANGED <<reply, queueVars, rows, running, batch, faults>>

\* Worker v holds the unique-index lock on call c with an uncommitted row.
Inserting(v, c) == pc[v] = "commit" /\ CallOf(v) = c /\ rows[c] = None

\* Flush the INSERT.  It waits for another worker's uncommitted row of the
\* same call; a committed one makes it fail on unique(call_id), which is a
\* DatabaseError: the message is kept.
Insert(w) ==
  LET c == CallOf(w)
      d == Current(w)
  IN  /\ pc[w] = "insert"
      /\ \A v \in Workers : ~Inserting(v, c)
      /\ IF rows[c] = None
         THEN /\ session' = [session EXCEPT ![w] = MarkDone(NewRow(d), d)]
              /\ pc' = [pc EXCEPT ![w] = "commit"]
              /\ UNCHANGED batch
         ELSE Continue(w, Tail(batch[w]))
      /\ UNCHANGED <<reply, queueVars, rows, running, faults>>

Commit(w) ==
  /\ pc[w] = "commit"
  /\ rows' = [rows EXCEPT ![CallOf(w)] = session[w]]
  /\ session' = [session EXCEPT ![w] = None]
  /\ pc' = [pc EXCEPT ![w] = "ack"]
  /\ UNCHANGED <<reply, queueVars, running, batch, faults>>

\* Mutant: a redelivered message is taken for one already deleted.
AckFirstOnly(w) ==
  /\ pc[w] = "ack"
  /\ IF Current(w).count = 1 THEN Delete(w, Current(w).msg) ELSE UNCHANGED mstate
  /\ Continue(w, Tail(batch[w]))
  /\ UNCHANGED <<reply, receives, holder, rows, running, faults>>

\* delete_message, only after the commit.
Ack(w) ==
  /\ pc[w] = "ack"
  /\ Delete(w, Current(w).msg)
  /\ Continue(w, Tail(batch[w]))
  /\ UNCHANGED <<reply, receives, holder, rows, running, faults>>

-----------------------------------------------------------------------------
(* What fails under a worker.                                              *)

\* Mutant: the DatabaseError is logged and the ACK follows.
DbErrorAcked(w) ==
  /\ \/ pc[w] = "handle" /\ CallOf(w) # Malformed
     \/ pc[w] = "insert"
  /\ pc' = [pc EXCEPT ![w] = "ack"]
  /\ Fault
  /\ UNCHANGED <<reply, queueVars, rows, running, batch, session>>

\* A DatabaseError from the SELECT or the INSERT: the message is kept.
DbError(w) ==
  /\ \/ pc[w] = "handle" /\ CallOf(w) # Malformed
     \/ pc[w] = "insert"
  /\ Continue(w, Tail(batch[w]))
  /\ Fault
  /\ UNCHANGED <<reply, queueVars, rows, running>>

Deleting(w) == \/ pc[w] = "ack"
               \/ pc[w] = "handle" /\ CallOf(w) = Malformed /\ OverLimit(Current(w))

\* An AwsError from delete_message leaves poll_once: the rest of the batch
\* is abandoned.  SQS may have deleted the message.
AckError(w) ==
  /\ Deleting(w)
  /\ \/ UNCHANGED mstate
     \/ Delete(w, Current(w).msg)
  /\ Continue(w, <<>>)
  /\ Fault
  /\ UNCHANGED <<reply, receives, holder, rows, running>>

Die(w) ==
  /\ pc' = [pc EXCEPT ![w] = "down"]
  /\ batch' = [batch EXCEPT ![w] = <<>>]
  /\ session' = [session EXCEPT ![w] = None]

\* session_scope raises the driver's own error from commit(), which neither
\* _process_message nor run_forever catches: the process ends.  The database
\* may have committed.
CommitError(w) ==
  /\ pc[w] = "commit"
  /\ \/ UNCHANGED rows
     \/ rows' = [rows EXCEPT ![CallOf(w)] = session[w]]
  /\ Die(w)
  /\ Fault
  /\ UNCHANGED <<reply, queueVars, running>>

Crash(w) ==
  /\ pc[w] # "down"
  /\ Die(w)
  /\ Fault
  /\ UNCHANGED <<reply, queueVars, rows, running>>

\* SIGTERM: the current batch is still processed.
Stop(w) ==
  /\ pc[w] # "down" /\ running[w]
  /\ running' = [running EXCEPT ![w] = FALSE]
  /\ Fault
  /\ UNCHANGED <<reply, queueVars, rows, pc, batch, session>>

Exit(w) ==
  /\ pc[w] = "poll" /\ ~running[w]
  /\ pc' = [pc EXCEPT ![w] = "down"]
  /\ UNCHANGED <<reply, queueVars, rows, running, batch, session, faults>>

\* Kubernetes starts the pod again.
Restart(w) ==
  /\ pc[w] = "down"
  /\ pc' = [pc EXCEPT ![w] = "poll"]
  /\ running' = [running EXCEPT ![w] = TRUE]
  /\ UNCHANGED <<reply, queueVars, rows, batch, session, faults>>

-----------------------------------------------------------------------------
(* What SQS does by itself.                                                *)

InWork(m) == \E w \in Workers : holder[m] = w /\ \E i \in DOMAIN batch[w] : batch[w][i].msg = m

\* The visibility timeout of a message nobody works on any more.
VisibilityTimeout(m) ==
  /\ mstate[m] = "inflight"
  /\ ~InWork(m)
  /\ mstate' = [mstate EXCEPT ![m] = "visible"]
  /\ UNCHANGED <<reply, receives, holder, rows, workerVars, faults>>

\* The worker needs longer than the visibility timeout.
SlowWorker(m) ==
  /\ mstate[m] = "inflight"
  /\ InWork(m)
  /\ mstate' = [mstate EXCEPT ![m] = "visible"]
  /\ Fault
  /\ UNCHANGED <<reply, receives, holder, rows, workerVars>>

\* At-least-once: a deleted message is delivered again.
Redeliver(m) ==
  /\ mstate[m] = "deleted"
  /\ mstate' = [mstate EXCEPT ![m] = "visible"]
  /\ Fault
  /\ UNCHANGED <<reply, receives, holder, rows, workerVars>>

-----------------------------------------------------------------------------
Api(c) == Publish(c) \/ PublishTwice(c) \/ PublishError(c) \/ Respond(c) \/ ApiCrash(c)

\* What a live worker does without outside help.
Step(w) == \/ KeepPoison(w) \/ DropPoison(w)
           \/ Select(w) \/ Insert(w) \/ Commit(w) \/ Ack(w)
           \/ EmptyPoll(w) \/ Exit(w) \/ Restart(w)

Trouble(w) == \/ ReceiveError(w) \/ DbError(w) \/ AckError(w) \/ CommitError(w)
              \/ Crash(w) \/ Stop(w)

Sqs(m) == VisibilityTimeout(m) \/ SlowWorker(m) \/ Redeliver(m)

Next == \/ \E c \in Calls : Api(c)
        \/ \E w \in Workers : Step(w) \/ Trouble(w) \/ \E o \in Orders : Receive(w, o)
        \/ \E m \in Messages : Sqs(m)

Spec == Init /\ [][Next]_vars

\* Message m is among those some worker receives.
Deliver(m) == \E w \in Workers, o \in Orders :
                /\ m \in {o[i] : i \in DOMAIN o}
                /\ Receive(w, o)

\* Workers and SQS go on, pods are restarted, and SQS does not pass over a
\* message that is available again and again.
Fairness == /\ \A w \in Workers : WF_vars(Step(w))
            /\ \A m \in Messages : WF_vars(VisibilityTimeout(m)) /\ SF_vars(Deliver(m))

FairSpec == Spec /\ Fairness

-----------------------------------------------------------------------------
(* Properties.                                                             *)

TypeOK ==
  /\ reply \in [Calls -> {"none", "published", "queued", "error", "lost"}]
  /\ mstate \in [Messages -> QueueStates]
  /\ receives \in [Messages -> 0..MaxReceives]
  /\ holder \in [Messages -> Workers \union {None}]
  /\ rows \in [Calls -> Row \union {None}]
  /\ pc \in [Workers -> Busy \union {"poll", "down"}]
  /\ running \in [Workers -> BOOLEAN]
  /\ batch \in [Workers -> Seq(Deliveries)]
  /\ session \in [Workers -> Row \union {None}]
  /\ faults \in 0..MaxFaults

OnQueue(c) == \E m \in Messages : Body[m] = c /\ mstate[m] \in {"visible", "inflight"}

\* The worker ACKs only after the commit (worker_service.py, step 3): a call
\* that reached the queue is at every moment still in the queue or in RDS,
\* whatever fails and however often it is delivered.
NoCallLost == \A c \in Calls :
                reply[c] \in {"published", "queued", "lost"} => OnQueue(c) \/ rows[c] # None

\* Idempotence: however a call is delivered again (visibility timeout, two
\* copies, two workers at once), its row is inserted once and the completion
\* it recorded is never replaced.
DoneOnce == [][\A c \in Calls : rows[c] # None =>
                 /\ rows'[c] # None
                 /\ rows'[c].processed_at = rows[c].processed_at]_vars

\* Every message of a batch that a failed ACK or a dead pod abandoned is
\* taken up again: nothing stays in the queue for ever.
QueueDrains == \A m \in Messages : mstate[m] = "visible" ~> mstate[m] = "deleted"

-----------------------------------------------------------------------------
(* What makes NoCallLost and DoneOnce inductive.                           *)

Completed(row) == row \in Row /\ row.status = "DONE" /\ row.processed_at \in Deliveries

\* A busy worker has a current message; past the parse it names a call.
BatchInv == \A w \in Workers :
  /\ pc[w] \in Busy => batch[w] # <<>>
  /\ pc[w] \in {"insert", "commit", "ack"} => CallOf(w) \in Calls

\* Only completed rows are committed: PROCESSING stays inside a transaction.
RowsInv == \A c \in Calls : rows[c] # None => Completed(rows[c])

\* A transaction about to commit keeps the completion of a row that exists.
SessionInv == \A w \in Workers : pc[w] = "commit" =>
  /\ Completed(session[w])
  /\ rows[CallOf(w)] # None => session[w].processed_at = rows[CallOf(w)].processed_at

\* The unique index lets one uncommitted row of a call through.
OneInserter == \A c \in Calls : \A v, w \in Workers :
                 Inserting(v, c) /\ Inserting(w, c) => v = w

\* The row of a call is committed before its message is deleted.
AckInv == \A w \in Workers : pc[w] = "ack" => rows[CallOf(w)] # None

\* Whatever is in the queue or in a worker's hands was sent by POST /call.
SentInv ==
  /\ \A m \in Messages : Body[m] \in Calls /\ mstate[m] # "absent" => reply[Body[m]] # "none"
  /\ \A w \in Workers : \A i \in DOMAIN batch[w] : mstate[batch[w][i].msg] # "absent"

IInv == TypeOK /\ BatchInv /\ RowsInv /\ SessionInv /\ OneInserter /\ AckInv /\ NoCallLost

-----------------------------------------------------------------------------
(* The abstract promise.                                                   *)

Ledger == INSTANCE CallLedger WITH
  Stamps   <- Deliveries,
  answer   <- [c \in Calls |->
                 IF reply[c] \in {"none", "published"} THEN None ELSE reply[c]],
  sent     <- {c \in Calls : reply[c] # "none"},
  recorded <- [c \in Calls |-> IF rows[c] = None THEN None ELSE rows[c].processed_at]

LedgerSafety   == Ledger!Safety
LedgerPromise  == Ledger!QueuedIsRecorded
=============================================================================
