------------------------- MODULE CallPipelineProofs -------------------------
(***************************************************************************)
(* Proofs about CallPipeline for any number of calls, messages, workers    *)
(* and failures: the inductive invariant IInv, and from it that no call is *)
(* lost, that a completion is never replaced, and that the pipeline        *)
(* implements the safety part of CallLedger.                               *)
(***************************************************************************)
EXTENDS CallPipeline, FiniteSetTheorems, TLAPS

USE BodyAssumption, BoundsAssumption, NoneAssumption

-----------------------------------------------------------------------------
(* Helpers the actions share.                                              *)

\* The constants' derived sets.
LEMMA Counts == 1..MaxReceives \subseteq Nat /\ 1 \in 1..MaxReceives
  OBVIOUS

\* A non-empty batch has a current delivery, and what is left is a batch.
LEMMA HeadTail ==
  ASSUME NEW s \in Seq(Deliveries), s # <<>>
  PROVE  Head(s) \in Deliveries /\ Tail(s) \in Seq(Deliveries)
  OBVIOUS

\* The fields of a delivery.
LEMMA DeliveryFields ==
  ASSUME NEW d \in Deliveries
  PROVE  d.msg \in Messages /\ d.count \in 1..MaxReceives
  BY DEF Deliveries

\* The row that flush inserts and mark_done completes.
LEMMA NewRowCompleted ==
  ASSUME NEW d \in Deliveries
  PROVE  Completed(MarkDone(NewRow(d), d))
  BY DeliveryFields DEF Completed, MarkDone, NewRow, Row, Status

\* A duplicate delivery of a completed call leaves its completion alone.
LEMMA DuplicateCompleted ==
  ASSUME NEW d \in Deliveries, NEW row, Completed(row)
  PROVE  /\ Completed(Duplicate(row, d))
         /\ Duplicate(row, d).processed_at = row.processed_at
  BY DeliveryFields DEF Completed, Duplicate, MarkDone, Row, Status

\* The current message of a busy worker.
LEMMA CurrentType ==
  ASSUME TypeOK, BatchInv, NEW w \in Workers, pc[w] \in Busy
  PROVE  /\ Current(w) \in Deliveries
         /\ Current(w).msg \in Messages
         /\ Tail(batch[w]) \in Seq(Deliveries)
         /\ CallOf(w) \in Calls \union {Malformed}
         /\ CallOf(w) = Body[Current(w).msg]
<1>1. batch[w] \in Seq(Deliveries) /\ batch[w] # <<>>
  BY DEF TypeOK, BatchInv
<1>2. Current(w) \in Deliveries /\ Tail(batch[w]) \in Seq(Deliveries)
  BY <1>1, HeadTail DEF Current
<1> QED  BY <1>2, DeliveryFields DEF CallOf

\* Going on to the rest of the batch.
LEMMA ContinueType ==
  ASSUME TypeOK, NEW w \in Workers, NEW rest \in Seq(Deliveries), Continue(w, rest)
  PROVE  /\ batch' \in [Workers -> Seq(Deliveries)]
         /\ session' \in [Workers -> Row \union {None}]
         /\ pc' \in [Workers -> Busy \union {"poll", "down"}]
         /\ pc'[w] \in {"poll", "handle"}
         /\ pc'[w] = "handle" => batch'[w] # <<>>
         /\ \A v \in Workers \ {w} : pc'[v] = pc[v] /\ batch'[v] = batch[v] /\ session'[v] = session[v]
  BY DEF TypeOK, Continue, Busy

\* A dead process forgets everything.
LEMMA DieType ==
  ASSUME TypeOK, NEW w \in Workers, Die(w)
  PROVE  /\ batch' \in [Workers -> Seq(Deliveries)]
         /\ session' \in [Workers -> Row \union {None}]
         /\ pc' \in [Workers -> Busy \union {"poll", "down"}]
         /\ pc'[w] = "down"
         /\ \A v \in Workers \ {w} : pc'[v] = pc[v] /\ batch'[v] = batch[v] /\ session'[v] = session[v]
<1>1. <<>> \in Seq(Deliveries)
  OBVIOUS
<1> QED  BY <1>1 DEF TypeOK, Die, Busy

\* A delete request touches one message, and only towards "deleted".
LEMMA DeleteType ==
  ASSUME TypeOK, NEW w, NEW m \in Messages, Delete(w, m)
  PROVE  /\ mstate' \in [Messages -> QueueStates]
         /\ \A n \in Messages \ {m} : mstate'[n] = mstate[n]
<1>1. PICK s \in {"deleted"} \union {mstate[m]} : mstate' = [mstate EXCEPT ![m] = s]
  BY DEF Delete
<1>2. s \in QueueStates
  BY DEF TypeOK, QueueStates
<1> QED  BY <1>1, <1>2 DEF TypeOK

\* What SQS does with the messages it hands out.
LEMMA TakeType ==
  ASSUME TypeOK, NEW ms \in SUBSET Messages, NEW h \in Workers \union {None}, Take(ms, h)
  PROVE  /\ mstate' \in [Messages -> QueueStates]
         /\ receives' \in [Messages -> 0..MaxReceives]
         /\ holder' \in [Messages -> Workers \union {None}]
         /\ \A m \in ms : mstate'[m] = "inflight" /\ receives'[m] \in 1..MaxReceives
         /\ \A m \in Messages \ ms : mstate'[m] = mstate[m]
  BY DEF TypeOK, Take, QueueStates

\* The batch a worker makes of what it received.
LEMMA ReceivedBatch ==
  ASSUME TypeOK, NEW w \in Workers, NEW o \in Orders, Receive(w, o)
  PROVE  /\ batch'[w] \in Seq(Deliveries)
         /\ batch'[w] # <<>>
         /\ {o[i] : i \in DOMAIN o} \in SUBSET Visible
<1>1. PICK n \in 1..BatchSize : o \in [1..n -> Visible]
  BY DEF Orders
<1>2. n \in Nat /\ n >= 1 /\ Visible \subseteq Messages
  BY <1>1 DEF Visible
<1>3. {o[i] : i \in DOMAIN o} \in SUBSET Visible
  BY <1>1
<1>4. \A i \in 1..n : receives'[o[i]] \in 1..MaxReceives /\ o[i] \in Messages
  BY <1>1, <1>2, <1>3, TakeType DEF Receive
<1> DEFINE b == [i \in 1..n |-> [msg |-> o[i], count |-> receives'[o[i]]]]
<1>5. b \in [1..n -> Deliveries]
  BY <1>4 DEF Deliveries
<1>6. b \in Seq(Deliveries) /\ Len(b) = n
  BY <1>2, <1>5
<1>7. b # <<>>
  BY <1>2, <1>6
<1>8. batch'[w] = b
  BY <1>1 DEF Receive, TypeOK
<1> QED  BY <1>3, <1>6, <1>7, <1>8

-----------------------------------------------------------------------------
(* The initial state, and steps that leave the workers and the rows alone. *)

\* The initial state satisfies the inductive invariant.
LEMMA InitInv == Init => IInv
<1> SUFFICES ASSUME Init PROVE IInv
  OBVIOUS
<1>1. TypeOK
  <2>1. batch \in [Workers -> Seq(Deliveries)]
    BY DEF Init
  <2> QED  BY <2>1 DEF Init, TypeOK, QueueStates, Busy
<1>2. BatchInv /\ SessionInv /\ OneInserter /\ AckInv
  BY DEF Init, BatchInv, SessionInv, OneInserter, Inserting, AckInv, Busy
<1>3. RowsInv /\ NoCallLost
  BY DEF Init, RowsInv, NoCallLost
<1> QED  BY <1>1, <1>2, <1>3 DEF IInv

\* What the workers are doing, and the rows, are all BatchInv to AckInv see.
LEMMA WorkersUnchanged ==
  ASSUME IInv, UNCHANGED <<rows, pc, batch, session>>
  PROVE  BatchInv' /\ RowsInv' /\ SessionInv' /\ OneInserter' /\ AckInv'
  BY DEF IInv, BatchInv, RowsInv, SessionInv, OneInserter, AckInv, Inserting, CallOf, Current

\* Messages that are available stay so while nobody deletes any.
LEMMA KeptOnQueue ==
  ASSUME IInv, NEW c \in Calls, OnQueue(c),
         \A m \in Messages : mstate[m] \in {"visible", "inflight"} =>
                               mstate'[m] \in {"visible", "inflight"}
  PROVE  OnQueue(c)'
  BY DEF OnQueue

\* Sending makes messages visible and hides none.
LEMMA EnqueueKeeps ==
  ASSUME IInv, NEW ms \in SUBSET Messages, Enqueue(ms)
  PROVE  /\ mstate' \in [Messages -> QueueStates]
         /\ \A m \in Messages : mstate[m] \in {"visible", "inflight"} =>
                                  mstate'[m] \in {"visible", "inflight"}
         /\ \A m \in ms : mstate'[m] = "visible"
  BY DEF IInv, TypeOK, Enqueue, QueueStates

\* A failure stays within the bound.
LEMMA FaultType ==
  ASSUME TypeOK, Fault
  PROVE  faults' \in 0..MaxFaults
  BY DEF TypeOK, Fault

\* No step of POST /call breaks the invariant.
LEMMA ApiInv ==
  ASSUME IInv, NEW c \in Calls, Api(c)
  PROVE  IInv'
<1>1. CASE Publish(c)
  <2>1. PICK m \in Unsent(c) : Enqueue({m})
    BY <1>1 DEF Publish
  <2>2. m \in Messages /\ Body[m] = c
    BY DEF Unsent
  <2>3. TypeOK'
    BY <1>1, <2>1, <2>2, EnqueueKeeps DEF IInv, TypeOK, Publish, workerVars
  <2>4. OnQueue(c)'
    BY <2>1, <2>2, EnqueueKeeps DEF OnQueue
  <2>5. NoCallLost'
    BY <1>1, <2>1, <2>2, <2>4, EnqueueKeeps, KeptOnQueue
       DEF IInv, TypeOK, NoCallLost, Publish
  <2> QED  BY <1>1, <2>3, <2>5, WorkersUnchanged DEF IInv, Publish, workerVars
<1>2. CASE PublishTwice(c)
  <2>1. PICK m : m \in Unsent(c)
    <3>1. Unsent(c) # {}
      BY <1>2, FS_EmptySet DEF PublishTwice
    <3> QED  BY <3>1
  <2>2. m \in Messages /\ Body[m] = c /\ Unsent(c) \subseteq Messages
    BY <2>1 DEF Unsent
  <2>3. TypeOK'
    BY <1>2, <2>2, EnqueueKeeps, FaultType DEF IInv, TypeOK, PublishTwice, workerVars
  <2>4. OnQueue(c)'
    BY <1>2, <2>1, <2>2, EnqueueKeeps DEF OnQueue, PublishTwice
  <2>5. NoCallLost'
    <3>1. \A n \in Messages : mstate[n] \in {"visible", "inflight"} =>
                                  mstate'[n] \in {"visible", "inflight"}
      BY <1>2, <2>2, EnqueueKeeps DEF PublishTwice
    <3> QED  BY <1>2, <2>4, <3>1, KeptOnQueue DEF IInv, TypeOK, NoCallLost, PublishTwice
  <2> QED  BY <1>2, <2>3, <2>5, WorkersUnchanged DEF IInv, PublishTwice, workerVars
<1>3. CASE PublishError(c)
  <2>1. /\ mstate' \in [Messages -> QueueStates]
        /\ \A m \in Messages : mstate[m] \in {"visible", "inflight"} =>
                                 mstate'[m] \in {"visible", "inflight"}
    <3>1. CASE UNCHANGED mstate
      BY <3>1 DEF IInv, TypeOK
    <3>2. CASE \E m \in Unsent(c) : Enqueue({m})
      BY <3>2, EnqueueKeeps DEF Unsent
    <3> QED  BY <1>3, <3>1, <3>2 DEF PublishError
  <2>2. TypeOK'
    BY <1>3, <2>1, FaultType DEF IInv, TypeOK, PublishError, workerVars
  <2>3. NoCallLost'
    BY <1>3, <2>1, KeptOnQueue DEF IInv, TypeOK, NoCallLost, PublishError
  <2> QED  BY <1>3, <2>2, <2>3, WorkersUnchanged DEF IInv, PublishError, workerVars
<1>4. CASE Respond(c) \/ ApiCrash(c)
  <2>1. TypeOK'
    BY <1>4, FaultType DEF IInv, TypeOK, Respond, ApiCrash, workerVars, queueVars
  <2>2. NoCallLost'
    BY <1>4 DEF IInv, TypeOK, NoCallLost, OnQueue, Respond, ApiCrash, queueVars
  <2> QED  BY <1>4, <2>1, <2>2, WorkersUnchanged DEF IInv, Respond, ApiCrash, workerVars
<1> QED  BY <1>1, <1>2, <1>3, <1>4 DEF Api

\* Nor does what SQS does by itself.
LEMMA SqsInv ==
  ASSUME IInv, NEW m \in Messages, Sqs(m)
  PROVE  IInv'
<1>1. /\ mstate' = [mstate EXCEPT ![m] = "visible"]
      /\ UNCHANGED <<reply, receives, holder, rows, workerVars>>
      /\ faults' \in 0..MaxFaults
  BY FaultType DEF IInv, TypeOK, Sqs, VisibilityTimeout, SlowWorker, Redeliver
<1>2. TypeOK'
  BY <1>1 DEF IInv, TypeOK, QueueStates, workerVars
<1>3. NoCallLost'
  BY <1>1, KeptOnQueue DEF IInv, TypeOK, NoCallLost
<1> QED  BY <1>1, <1>2, <1>3, WorkersUnchanged DEF IInv, workerVars

-----------------------------------------------------------------------------
(* The steps of a worker.                                                  *)

\* Worker w goes on to a message it has not looked up yet, or dies; the rows
\* stay: nobody's transaction is affected.
LEMMA LetGo ==
  ASSUME IInv, NEW w \in Workers, UNCHANGED rows,
         pc'[w] \in {"poll", "down", "handle"},
         pc'[w] = "handle" => batch'[w] # <<>>,
         \A v \in Workers \ {w} : pc'[v] = pc[v] /\ batch'[v] = batch[v] /\ session'[v] = session[v]
  PROVE  BatchInv' /\ RowsInv' /\ SessionInv' /\ OneInserter' /\ AckInv'
  BY DEF IInv, BatchInv, RowsInv, SessionInv, OneInserter, AckInv, Inserting, CallOf, Current, Busy

\* Deleting the message of a recorded call, or of no call, loses none.
LEMMA SafeDelete ==
  ASSUME IInv, NEW m \in Messages, UNCHANGED <<reply, rows>>,
         \/ UNCHANGED mstate
         \/ \A n \in Messages \ {m} : mstate'[n] = mstate[n],
         Body[m] \in Calls => rows[Body[m]] # None
  PROVE  NoCallLost'
  BY DEF IInv, NoCallLost, OnQueue

\* A worker receives a batch.
LEMMA ReceiveInv ==
  ASSUME IInv, NEW w \in Workers, NEW o \in Orders, Receive(w, o)
  PROVE  IInv'
<1> DEFINE got == {o[i] : i \in DOMAIN o}
<1>1. TypeOK /\ Take(got, w) /\ got \in SUBSET Visible /\ batch'[w] \in Seq(Deliveries) /\ batch'[w] # <<>>
  BY ReceivedBatch DEF IInv, Receive
<1>2. got \in SUBSET Messages
  BY <1>1 DEF Visible
<1>3. /\ mstate' \in [Messages -> QueueStates]
      /\ receives' \in [Messages -> 0..MaxReceives]
      /\ holder' \in [Messages -> Workers \union {None}]
      /\ \A m \in got : mstate'[m] = "inflight"
      /\ \A m \in Messages \ got : mstate'[m] = mstate[m]
  <2> HIDE DEF got
  <2> QED  BY <1>1, <1>2, TakeType
<1>4. batch' \in [Workers -> Seq(Deliveries)] /\ pc' = [pc EXCEPT ![w] = "handle"]
  BY <1>1 DEF Receive, TypeOK
<1>5. TypeOK'
  BY <1>1, <1>3, <1>4 DEF TypeOK, Receive, Busy
<1>6. \A v \in Workers \ {w} : pc'[v] = pc[v] /\ batch'[v] = batch[v] /\ session'[v] = session[v]
  BY <1>1 DEF Receive, TypeOK
<1>7. BatchInv' /\ RowsInv' /\ SessionInv' /\ OneInserter' /\ AckInv'
  BY <1>1, <1>4, <1>6, LetGo DEF Receive, TypeOK
<1>8. NoCallLost'
  BY <1>3, KeptOnQueue DEF IInv, NoCallLost, Receive
<1> QED  BY <1>5, <1>7, <1>8 DEF IInv

\* A receive whose answer is lost hides messages and deletes none.
LEMMA ReceiveErrorInv ==
  ASSUME IInv, NEW w \in Workers, ReceiveError(w)
  PROVE  IInv'
<1>1. PICK m \in Visible : Take({m}, None)
  BY DEF ReceiveError
<1>2. m \in Messages
  BY DEF Visible
<1>3. /\ mstate' \in [Messages -> QueueStates]
      /\ receives' \in [Messages -> 0..MaxReceives]
      /\ holder' \in [Messages -> Workers \union {None}]
      /\ mstate'[m] = "inflight"
      /\ \A n \in Messages \ {m} : mstate'[n] = mstate[n]
  BY <1>1, <1>2, TakeType DEF IInv
<1>4. TypeOK'
  BY <1>3, FaultType DEF IInv, TypeOK, ReceiveError, workerVars
<1>5. NoCallLost'
  BY <1>3, KeptOnQueue DEF IInv, NoCallLost, ReceiveError
<1> QED  BY <1>4, <1>5, WorkersUnchanged DEF IInv, ReceiveError, workerVars

\* Every step that ends the work on the current message without a commit.
LEMMA EndMessageInv ==
  ASSUME IInv, NEW w \in Workers,
         KeepPoison(w) \/ DropPoison(w) \/ Ack(w) \/ DbError(w) \/ AckError(w)
  PROVE  IInv'
<1> DEFINE m == Current(w).msg
<1>1. pc[w] \in Busy /\ TypeOK /\ BatchInv /\ AckInv
  BY DEF IInv, KeepPoison, DropPoison, Ack, DbError, AckError, Deleting, Busy
<1>2. m \in Messages /\ Tail(batch[w]) \in Seq(Deliveries) /\ CallOf(w) = Body[m]
  BY <1>1, CurrentType
<1> HIDE DEF m
<1>3. PICK rest \in Seq(Deliveries) : Continue(w, rest)
  <2>1. <<>> \in Seq(Deliveries)
    OBVIOUS
  <2> QED  BY <1>2, <2>1 DEF KeepPoison, DropPoison, Ack, DbError, AckError
<1>4. \/ UNCHANGED mstate
      \/ /\ Delete(w, m)
         /\ Body[m] \in Calls => rows[Body[m]] # None
  BY <1>1, <1>2 DEF m, KeepPoison, DropPoison, Ack, DbError, AckError, Deleting, queueVars, AckInv
<1>5. /\ mstate' \in [Messages -> QueueStates]
      /\ NoCallLost'
  <2>1. UNCHANGED <<reply, rows>>
    BY DEF KeepPoison, DropPoison, Ack, DbError, AckError
  <2>2. CASE UNCHANGED mstate
    BY <2>1, <2>2 DEF IInv, TypeOK, NoCallLost, OnQueue
  <2>3. CASE Delete(w, m) /\ (Body[m] \in Calls => rows[Body[m]] # None)
    BY <1>1, <1>2, <2>1, <2>3, DeleteType, SafeDelete
  <2> QED  BY <1>4, <2>2, <2>3
<1>6. /\ UNCHANGED <<reply, receives, holder, rows, running>>
      /\ faults' \in 0..MaxFaults
  BY <1>1, FaultType DEF TypeOK, KeepPoison, DropPoison, Ack, DbError, AckError, queueVars
<1>7. TypeOK'
  BY <1>1, <1>3, <1>5, <1>6, ContinueType DEF TypeOK
<1>8. BatchInv' /\ RowsInv' /\ SessionInv' /\ OneInserter' /\ AckInv'
  BY <1>1, <1>3, <1>6, ContinueType, LetGo
<1> QED  BY <1>5, <1>7, <1>8 DEF IInv

\* The lookup of a call: its row stays, or the session keeps the completion.
LEMMA SelectInv ==
  ASSUME IInv, NEW w \in Workers, Select(w)
  PROVE  IInv'
<1> DEFINE d == Current(w)
           c == CallOf(w)
<1>1. /\ TypeOK /\ BatchInv /\ pc[w] = "handle" /\ batch[w] # <<>>
      /\ d \in Deliveries /\ c \in Calls
  BY CurrentType DEF IInv, Select, Busy, BatchInv
<1>2. UNCHANGED <<reply, mstate, receives, holder, rows, running, batch, faults>>
  BY DEF Select, queueVars
<1>3. CASE rows[c] = None
  <2>1. pc' = [pc EXCEPT ![w] = "insert"] /\ UNCHANGED session
    BY <1>3 DEF Select
  <2>2. TypeOK'
    BY <1>1, <1>2, <2>1 DEF TypeOK, Busy
  <2>3. BatchInv' /\ RowsInv' /\ SessionInv' /\ OneInserter' /\ AckInv'
    BY <1>1, <1>2, <2>1
       DEF IInv, TypeOK, BatchInv, RowsInv, SessionInv, OneInserter, AckInv, Inserting, CallOf, Current, Busy
  <2> QED  BY <1>2, <2>2, <2>3 DEF IInv, NoCallLost, OnQueue
<1>4. CASE rows[c] # None
  <2>1. pc' = [pc EXCEPT ![w] = "commit"] /\ session' = [session EXCEPT ![w] = Duplicate(rows[c], d)]
    BY <1>4 DEF Select
  <2>2. /\ Completed(Duplicate(rows[c], d))
        /\ Duplicate(rows[c], d).processed_at = rows[c].processed_at
    BY <1>1, <1>4, DuplicateCompleted DEF IInv, RowsInv
  <2>3. TypeOK'
    BY <1>1, <1>2, <2>1, <2>2 DEF TypeOK, Busy, Completed
  <2>4. BatchInv' /\ RowsInv' /\ AckInv'
    BY <1>1, <1>2, <2>1 DEF IInv, TypeOK, BatchInv, RowsInv, AckInv, CallOf, Current, Busy
  <2>5. SessionInv'
    BY <1>1, <1>2, <2>1, <2>2 DEF IInv, TypeOK, SessionInv, CallOf, Current
  <2>6. OneInserter'
    BY <1>1, <1>2, <1>4, <2>1 DEF IInv, TypeOK, OneInserter, Inserting, CallOf, Current
  <2> QED  BY <1>2, <2>3, <2>4, <2>5, <2>6 DEF IInv, NoCallLost, OnQueue
<1> QED  BY <1>3, <1>4

\* The INSERT: one worker gets past the unique index.
LEMMA InsertInv ==
  ASSUME IInv, NEW w \in Workers, Insert(w)
  PROVE  IInv'
<1> DEFINE d == Current(w)
           c == CallOf(w)
<1>1. /\ TypeOK /\ BatchInv /\ pc[w] = "insert" /\ batch[w] # <<>>
      /\ d \in Deliveries /\ c \in Calls /\ Tail(batch[w]) \in Seq(Deliveries)
  BY CurrentType DEF IInv, Insert, Busy, BatchInv
<1>2. UNCHANGED <<reply, mstate, receives, holder, rows, running, faults>>
  BY DEF Insert, queueVars
<1>3. CASE rows[c] = None
  <2>1. /\ pc' = [pc EXCEPT ![w] = "commit"]
        /\ session' = [session EXCEPT ![w] = MarkDone(NewRow(d), d)]
        /\ UNCHANGED batch
        /\ \A v \in Workers : ~Inserting(v, c)
    BY <1>3 DEF Insert
  <2>2. Completed(MarkDone(NewRow(d), d))
    BY <1>1, NewRowCompleted
  <2>3. TypeOK'
    BY <1>1, <1>2, <2>1, <2>2 DEF TypeOK, Busy, Completed
  <2>4. BatchInv' /\ RowsInv' /\ AckInv'
    BY <1>1, <1>2, <2>1 DEF IInv, TypeOK, BatchInv, RowsInv, AckInv, CallOf, Current, Busy
  <2>5. SessionInv'
    BY <1>1, <1>2, <1>3, <2>1, <2>2 DEF IInv, TypeOK, SessionInv, CallOf, Current
  <2>6. OneInserter'
    BY <1>1, <1>2, <1>3, <2>1 DEF IInv, TypeOK, OneInserter, Inserting, CallOf, Current
  <2> QED  BY <1>2, <2>3, <2>4, <2>5, <2>6 DEF IInv, NoCallLost, OnQueue
<1>4. CASE rows[c] # None
  <2>1. Continue(w, Tail(batch[w]))
    BY <1>4 DEF Insert
  <2>2. TypeOK'
    BY <1>1, <1>2, <2>1, ContinueType DEF TypeOK
  <2>3. BatchInv' /\ RowsInv' /\ SessionInv' /\ OneInserter' /\ AckInv'
    BY <1>1, <1>2, <2>1, ContinueType, LetGo
  <2> QED  BY <1>2, <2>2, <2>3 DEF IInv, NoCallLost, OnQueue
<1> QED  BY <1>3, <1>4

\* What a commit does to the rows: a completed row appears, or a row keeps
\* its completion.
LEMMA CommitRows ==
  ASSUME IInv, NEW w \in Workers, pc[w] = "commit",
         rows' = [rows EXCEPT ![CallOf(w)] = session[w]]
  PROVE  /\ CallOf(w) \in Calls
         /\ rows' \in [Calls -> Row \union {None}]
         /\ RowsInv'
         /\ rows'[CallOf(w)] # None
         /\ \A c \in Calls : rows[c] # None =>
              rows'[c] # None /\ rows'[c].processed_at = rows[c].processed_at
         /\ \A c \in Calls : c # CallOf(w) => rows'[c] = rows[c]
<1>1. CallOf(w) \in Calls /\ rows \in [Calls -> Row \union {None}] /\ Completed(session[w])
  BY DEF IInv, TypeOK, BatchInv, SessionInv
<1>2. session[w] \in Row /\ session[w] # None
  BY <1>1 DEF Completed
<1>3. rows[CallOf(w)] # None => session[w].processed_at = rows[CallOf(w)].processed_at
  BY DEF IInv, SessionInv
<1>4. RowsInv'
  BY <1>1 DEF IInv, RowsInv, Completed
<1> QED  BY <1>1, <1>2, <1>3, <1>4

\* After a commit of w every other worker's transaction is still in order.
LEMMA CommitOthers ==
  ASSUME IInv, NEW w \in Workers, pc[w] = "commit",
         rows' = [rows EXCEPT ![CallOf(w)] = session[w]],
         pc'[w] \in {"ack", "down"},
         \A v \in Workers \ {w} : pc'[v] = pc[v] /\ session'[v] = session[v],
         \A v \in Workers \ {w} : batch'[v] = batch[v],
         pc'[w] = "ack" => batch'[w] = batch[w]
  PROVE  BatchInv' /\ SessionInv' /\ OneInserter' /\ AckInv'
<1> DEFINE c == CallOf(w)
<1>1. /\ c \in Calls /\ rows'[c] # None
      /\ \A b \in Calls : rows[b] # None =>
           rows'[b] # None /\ rows'[b].processed_at = rows[b].processed_at
      /\ \A b \in Calls : b # c => rows'[b] = rows[b]
  BY CommitRows
<1>2. rows'[c] = session[w]
  BY <1>1 DEF IInv, TypeOK
<1>3. \A v \in Workers \ {w} : CallOf(v)' = CallOf(v)
  BY DEF CallOf, Current
<1>4. BatchInv'
  BY <1>1, <1>3 DEF IInv, BatchInv, CallOf, Current, Busy
<1>5. SessionInv'
  <2> SUFFICES ASSUME NEW v \in Workers, pc'[v] = "commit"
               PROVE  /\ Completed(session'[v])
                      /\ rows'[CallOf(v)'] # None =>
                           session'[v].processed_at = rows'[CallOf(v)'].processed_at
    BY DEF SessionInv, Completed, Row, Deliveries
  <2>1. v # w /\ pc[v] = "commit" /\ CallOf(v)' = CallOf(v) /\ session'[v] = session[v]
    BY <1>3
  <2>2. /\ CallOf(v) \in Calls /\ Completed(session[v])
        /\ rows[CallOf(v)] # None => session[v].processed_at = rows[CallOf(v)].processed_at
    BY <2>1 DEF IInv, BatchInv, SessionInv
  <2>3. CASE CallOf(v) = c /\ rows[c] = None
    \* Both would hold the index lock on c.
    <3>1. Inserting(v, c) /\ Inserting(w, c)
      BY <2>1, <2>3 DEF Inserting
    <3> QED  BY <1>1, <2>1, <3>1 DEF IInv, OneInserter
  <2>4. CASE CallOf(v) # c \/ rows[c] # None
    BY <1>1, <2>1, <2>2, <2>4
  <2> QED  BY <2>3, <2>4
<1>6. OneInserter'
  BY <1>1, <1>3 DEF IInv, OneInserter, Inserting
<1>7. AckInv'
  <2> SUFFICES ASSUME NEW v \in Workers, pc'[v] = "ack"
               PROVE  rows'[CallOf(v)'] # None
    BY DEF AckInv
  <2>1. CASE v = w
    BY <1>1, <2>1 DEF CallOf, Current
  <2>2. CASE v # w
    BY <1>1, <1>3, <2>2 DEF IInv, AckInv, BatchInv
  <2> QED  BY <2>1, <2>2
<1> QED  BY <1>4, <1>5, <1>6, <1>7

\* The commit, by the only worker that may insert the call.
LEMMA CommitInv ==
  ASSUME IInv, NEW w \in Workers, Commit(w)
  PROVE  IInv'
<1>1. /\ TypeOK /\ pc[w] = "commit" /\ rows' = [rows EXCEPT ![CallOf(w)] = session[w]]
      /\ session' = [session EXCEPT ![w] = None] /\ pc' = [pc EXCEPT ![w] = "ack"]
      /\ UNCHANGED <<reply, mstate, receives, holder, running, batch, faults>>
  BY DEF IInv, Commit, queueVars
<1>2. TypeOK'
  BY <1>1, CommitRows DEF TypeOK, Busy
<1>3. BatchInv' /\ SessionInv' /\ OneInserter' /\ AckInv'
  BY <1>1, CommitOthers DEF TypeOK
<1>4. RowsInv'
  BY <1>1, CommitRows
<1>5. NoCallLost'
  BY <1>1, CommitRows DEF IInv, NoCallLost, OnQueue
<1> QED  BY <1>2, <1>3, <1>4, <1>5 DEF IInv

\* A worker that dies leaves rows and messages behind.
LEMMA DownInv ==
  ASSUME IInv, NEW w \in Workers, CommitError(w) \/ Crash(w)
  PROVE  IInv'
<1>1. /\ TypeOK /\ Die(w) /\ UNCHANGED <<reply, mstate, receives, holder, running>>
      /\ faults' \in 0..MaxFaults
  BY FaultType DEF IInv, CommitError, Crash, queueVars
<1>2. /\ batch' \in [Workers -> Seq(Deliveries)]
      /\ session' \in [Workers -> Row \union {None}]
      /\ pc' \in [Workers -> Busy \union {"poll", "down"}]
      /\ pc'[w] = "down"
      /\ \A v \in Workers \ {w} : pc'[v] = pc[v] /\ batch'[v] = batch[v] /\ session'[v] = session[v]
  BY <1>1, DieType
<1>3. CASE UNCHANGED rows
  <2>1. TypeOK'
    BY <1>1, <1>2, <1>3 DEF TypeOK
  <2>2. BatchInv' /\ RowsInv' /\ SessionInv' /\ OneInserter' /\ AckInv'
    BY <1>2, <1>3, LetGo
  <2> QED  BY <1>1, <1>3, <2>1, <2>2 DEF IInv, NoCallLost, OnQueue
<1>4. CASE pc[w] = "commit" /\ rows' = [rows EXCEPT ![CallOf(w)] = session[w]]
  <2>1. TypeOK'
    BY <1>1, <1>2, <1>4, CommitRows DEF TypeOK
  <2>2. BatchInv' /\ SessionInv' /\ OneInserter' /\ AckInv'
    BY <1>2, <1>4, CommitOthers
  <2>3. RowsInv' /\ NoCallLost'
    BY <1>1, <1>4, CommitRows DEF IInv, NoCallLost, OnQueue
  <2> QED  BY <2>1, <2>2, <2>3 DEF IInv
<1> QED  BY <1>3, <1>4 DEF CommitError, Crash

\* Polling, stopping, leaving and coming back.
LEMMA LifecycleInv ==
  ASSUME IInv, NEW w \in Workers, Stop(w) \/ Exit(w) \/ Restart(w) \/ EmptyPoll(w)
  PROVE  IInv'
<1>1. /\ TypeOK
      /\ UNCHANGED <<reply, mstate, receives, holder, rows, batch, session>>
      /\ pc' = pc \/ \E s \in {"down", "poll"} : pc' = [pc EXCEPT ![w] = s]
      /\ running' \in [Workers -> BOOLEAN]
      /\ faults' \in 0..MaxFaults
  BY FaultType DEF IInv, TypeOK, Stop, Exit, Restart, EmptyPoll, queueVars, vars
<1>2. TypeOK'
  BY <1>1 DEF TypeOK, Busy
<1>3. BatchInv' /\ RowsInv' /\ SessionInv' /\ OneInserter' /\ AckInv'
  <2>1. CASE pc' = pc
    BY <1>1, <2>1, WorkersUnchanged
  <2>2. CASE \E s \in {"down", "poll"} : pc' = [pc EXCEPT ![w] = s]
    BY <1>1, <2>2, LetGo DEF TypeOK
  <2> QED  BY <1>1, <2>1, <2>2
<1> QED  BY <1>1, <1>2, <1>3 DEF IInv, NoCallLost, OnQueue

-----------------------------------------------------------------------------
(* The theorems.                                                           *)

\* Stuttering.
LEMMA StutterInv == IInv /\ UNCHANGED vars => IInv'
<1> SUFFICES ASSUME IInv, UNCHANGED vars PROVE IInv'
  OBVIOUS
<1>1. TypeOK' /\ NoCallLost'
  BY DEF IInv, TypeOK, NoCallLost, OnQueue, vars
<1> QED  BY <1>1, WorkersUnchanged DEF IInv, vars

\* The invariant is inductive.
LEMMA NextInv == IInv /\ [Next]_vars => IInv'
<1> SUFFICES ASSUME IInv, Next PROVE IInv'
  BY StutterInv
<1>1. ASSUME NEW c \in Calls, Api(c) PROVE IInv'
  BY <1>1, ApiInv
<1>2. ASSUME NEW w \in Workers, Step(w) PROVE IInv'
  BY <1>2, EndMessageInv, SelectInv, InsertInv, CommitInv, LifecycleInv DEF Step
<1>3. ASSUME NEW w \in Workers, Trouble(w) PROVE IInv'
  BY <1>3, ReceiveErrorInv, EndMessageInv, DownInv, LifecycleInv DEF Trouble
<1>4. ASSUME NEW w \in Workers, NEW o \in Orders, Receive(w, o) PROVE IInv'
  BY <1>4, ReceiveInv
<1>5. ASSUME NEW m \in Messages, Sqs(m) PROVE IInv'
  BY <1>5, SqsInv
<1> QED  BY <1>1, <1>2, <1>3, <1>4, <1>5 DEF Next

\* The inductive invariant holds in every behaviour of the pipeline.
THEOREM Invariance == Spec => []IInv
  BY InitInv, NextInv, PTL DEF Spec

\* Every variable keeps its type.
THEOREM TypeCorrect == Spec => []TypeOK
<1>1. IInv => TypeOK
  BY DEF IInv
<1> QED  BY <1>1, Invariance, PTL

\* A call that reached the queue is in the queue or on record for ever,
\* through any number of redeliveries, crashes and failed requests.
THEOREM CallsNotLost == Spec => []NoCallLost
<1>1. IInv => NoCallLost
  BY DEF IInv
<1> QED  BY <1>1, Invariance, PTL

\* A step either commits the session of a worker or leaves the rows alone.
LEMMA RowsStep ==
  ASSUME IInv, [Next]_vars
  PROVE  \/ UNCHANGED rows
         \/ \E w \in Workers : /\ pc[w] = "commit"
                               /\ rows' = [rows EXCEPT ![CallOf(w)] = session[w]]
                               /\ UNCHANGED reply
<1>1. ASSUME NEW c \in Calls, Api(c) PROVE UNCHANGED rows
  BY <1>1 DEF Api, Publish, PublishTwice, PublishError, Respond, ApiCrash
<1>2. ASSUME NEW w \in Workers, Step(w) \/ Trouble(w)
      PROVE  \/ UNCHANGED rows
             \/ /\ pc[w] = "commit"
                /\ rows' = [rows EXCEPT ![CallOf(w)] = session[w]]
                /\ UNCHANGED reply
  BY <1>2 DEF Step, Trouble, KeepPoison, DropPoison, Select, Insert, Commit, Ack, EmptyPoll,
              Exit, Restart, ReceiveError, DbError, AckError, CommitError, Crash, Stop, vars
<1>3. ASSUME NEW w \in Workers, NEW o \in Orders, Receive(w, o) PROVE UNCHANGED rows
  BY <1>3 DEF Receive
<1>4. ASSUME NEW m \in Messages, Sqs(m) PROVE UNCHANGED rows
  BY <1>4 DEF Sqs, VisibilityTimeout, SlowWorker, Redeliver
<1> QED  BY <1>1, <1>2, <1>3, <1>4 DEF Next, vars

\* A call is inserted once and its completion is never replaced, however
\* many workers get it delivered at once.
THEOREM Idempotent == Spec => DoneOnce
<1>1. IInv /\ [Next]_vars => [\A c \in Calls : rows[c] # None =>
                 /\ rows'[c] # None
                 /\ rows'[c].processed_at = rows[c].processed_at]_vars
  <2> SUFFICES ASSUME IInv, [Next]_vars, NEW c \in Calls, rows[c] # None
               PROVE  rows'[c] # None /\ rows'[c].processed_at = rows[c].processed_at
    OBVIOUS
  <2> QED  BY RowsStep, CommitRows
<1> QED  BY <1>1, Invariance, PTL DEF Spec, DoneOnce

-----------------------------------------------------------------------------
(* The pipeline implements CallLedger.                                     *)

\* Going on or dying leaves a worker with deliveries it already had.
LEMMA FewerDeliveries ==
  ASSUME TypeOK, NEW w \in Workers,
         \/ batch[w] # <<>> /\ Continue(w, Tail(batch[w]))
         \/ Continue(w, <<>>)
         \/ Die(w)
  PROVE  \A v \in Workers : \A i \in DOMAIN batch'[v] :
           \E j \in DOMAIN batch[v] : batch'[v][i] = batch[v][j]
<1> SUFFICES ASSUME NEW v \in Workers, NEW i \in DOMAIN batch'[v]
             PROVE  \E j \in DOMAIN batch[v] : batch'[v][i] = batch[v][j]
  OBVIOUS
<1>1. CASE v # w
  BY <1>1 DEF TypeOK, Continue, Die
<1>2. CASE v = w /\ batch[w] # <<>> /\ Continue(w, Tail(batch[w]))
  <2>1. batch[w] \in Seq(Deliveries) /\ batch'[w] = Tail(batch[w])
    BY <1>2 DEF TypeOK, Continue
  <2>2. i + 1 \in DOMAIN batch[w] /\ Tail(batch[w])[i] = batch[w][i + 1]
    BY <1>2, <2>1
  <2> QED  BY <1>2, <2>1, <2>2
<1>3. CASE v = w /\ (Continue(w, <<>>) \/ Die(w))
  BY <1>3 DEF TypeOK, Continue, Die
<1> QED  BY <1>1, <1>2, <1>3

\* Steps under which SentInv is plainly kept: nothing leaves or enters
\* "absent", no call is taken back, no worker gets a new delivery.
LEMMA SentKept ==
  ASSUME IInv, SentInv,
         \A m \in Messages : mstate'[m] = "absent" <=> mstate[m] = "absent",
         \A c \in Calls : reply[c] # "none" => reply'[c] # "none",
         \A v \in Workers : \A i \in DOMAIN batch'[v] :
           \E j \in DOMAIN batch[v] : batch'[v][i] = batch[v][j]
  PROVE  SentInv'
<1>1. ASSUME NEW v \in Workers, NEW i \in DOMAIN batch'[v]
      PROVE  mstate'[batch'[v][i].msg] # "absent"
  <2>1. PICK j \in DOMAIN batch[v] : batch'[v][i] = batch[v][j]
    OBVIOUS
  <2>2. batch[v][j].msg \in Messages
    BY DeliveryFields DEF IInv, TypeOK
  <2> QED  BY <2>1, <2>2 DEF SentInv
<1>2. ASSUME NEW m \in Messages, Body[m] \in Calls, mstate'[m] # "absent"
      PROVE  reply'[Body[m]] # "none"
  BY <1>2 DEF SentInv
<1> QED  BY <1>1, <1>2 DEF SentInv

\* POST /call answers for the messages it sends.
LEMMA SentApi ==
  ASSUME IInv, SentInv, NEW c \in Calls, Api(c)
  PROVE  SentInv'
<1>1. /\ UNCHANGED batch
      /\ reply'[c] # "none"
      /\ \A b \in Calls \ {c} : reply'[b] = reply[b]
      /\ \A m \in Messages : mstate[m] # "absent" => mstate'[m] # "absent"
      /\ \A m \in Messages : mstate'[m] # mstate[m] => Body[m] = c
  <2>1. \A ms \in SUBSET Unsent(c) : Enqueue(ms) =>
          /\ \A m \in Messages : mstate[m] # "absent" => mstate'[m] # "absent"
          /\ \A m \in Messages : mstate'[m] # mstate[m] => Body[m] = c
    BY DEF Enqueue, Unsent
  <2>2. CASE Publish(c)
    BY <2>1, <2>2 DEF Publish, IInv, TypeOK, workerVars
  <2>3. CASE PublishTwice(c)
    BY <2>1, <2>3 DEF PublishTwice, IInv, TypeOK, workerVars
  <2>4. CASE PublishError(c)
    BY <2>1, <2>4 DEF PublishError, IInv, TypeOK, workerVars
  <2>5. CASE Respond(c) \/ ApiCrash(c)
    BY <2>5 DEF Respond, ApiCrash, IInv, TypeOK, workerVars, queueVars
  <2> QED  BY <2>2, <2>3, <2>4, <2>5 DEF Api
<1>2. \A w \in Workers : \A i \in DOMAIN batch[w] : batch[w][i].msg \in Messages
  BY DeliveryFields DEF IInv, TypeOK
<1> QED  BY <1>1, <1>2 DEF SentInv

\* What a worker receives was in the queue.
LEMMA SentReceive ==
  ASSUME IInv, SentInv, NEW w \in Workers, NEW o \in Orders, Receive(w, o)
  PROVE  SentInv'
<1> DEFINE got == {o[i] : i \in DOMAIN o}
<1>1. TypeOK /\ got \in SUBSET Visible /\ got \in SUBSET Messages /\ Take(got, w)
  BY ReceivedBatch DEF IInv, Receive, Visible
<1>2. /\ \A m \in got : mstate'[m] = "inflight" /\ mstate[m] = "visible"
      /\ \A m \in Messages \ got : mstate'[m] = mstate[m]
  <2>1. \A m \in got : mstate[m] = "visible"
    BY <1>1 DEF Visible
  <2> HIDE DEF got
  <2> QED  BY <1>1, <2>1, TakeType
<1>3. ASSUME NEW v \in Workers, NEW i \in DOMAIN batch'[v]
      PROVE  mstate'[batch'[v][i].msg] # "absent"
  <2>1. CASE v = w
    <3>1. batch'[w] = [k \in DOMAIN o |-> [msg |-> o[k], count |-> receives'[o[k]]]]
      BY <1>1 DEF Receive, TypeOK
    <3>2. batch'[v][i].msg \in got
      BY <2>1, <3>1
    <3> QED  BY <1>2, <3>2
  <2>2. CASE v # w
    <3>1. batch'[v] = batch[v] /\ batch[v][i].msg \in Messages
      BY <1>1, <2>2, DeliveryFields DEF Receive, TypeOK
    <3> QED  BY <1>2, <3>1 DEF SentInv
  <2> QED  BY <2>1, <2>2
<1>4. ASSUME NEW m \in Messages, Body[m] \in Calls, mstate'[m] # "absent"
      PROVE  reply'[Body[m]] # "none"
  BY <1>2, <1>4 DEF SentInv, Receive
<1> QED  BY <1>3, <1>4 DEF SentInv

\* A worker only deletes messages that were sent.
LEMMA SentWorker ==
  ASSUME IInv, SentInv, NEW w \in Workers, Step(w) \/ Trouble(w)
  PROVE  SentInv'
<1>1. TypeOK /\ BatchInv
  BY DEF IInv
<1>2. CASE ReceiveError(w)
  <2>1. PICK m \in Visible : Take({m}, None)
    BY <1>2 DEF ReceiveError
  <2>2. m \in Messages /\ mstate[m] = "visible"
    BY DEF Visible
  <2>3. mstate'[m] = "inflight" /\ \A n \in Messages \ {m} : mstate'[n] = mstate[n]
    BY <1>1, <2>1, <2>2, TakeType
  <2> QED  BY <1>2, <2>2, <2>3, SentKept DEF ReceiveError, workerVars
<1>3. CASE KeepPoison(w) \/ DropPoison(w) \/ Ack(w) \/ DbError(w) \/ AckError(w)
  <2> DEFINE m == Current(w).msg
  <2>1. pc[w] \in Busy /\ batch[w] # <<>>
    BY <1>1, <1>3 DEF KeepPoison, DropPoison, Ack, DbError, AckError, Deleting, Busy, BatchInv
  <2>2. m \in Messages /\ mstate[m] # "absent"
    <3>1. batch[w] \in Seq(Deliveries) /\ 1 \in DOMAIN batch[w] /\ Current(w) = batch[w][1]
      BY <1>1, <2>1 DEF TypeOK, Current
    <3> QED  BY <1>1, <2>1, <3>1, CurrentType DEF SentInv
  <2>3. UNCHANGED mstate \/ Delete(w, m)
    BY <1>3 DEF KeepPoison, DropPoison, Ack, DbError, AckError, queueVars
  <2>4. \A n \in Messages : mstate'[n] = "absent" <=> mstate[n] = "absent"
    <3> HIDE DEF m
    <3>1. CASE Delete(w, m)
      <4>1. mstate'[m] \in {"deleted", mstate[m]}
        BY <1>1, <2>2, <3>1 DEF Delete, TypeOK
      <4> QED  BY <1>1, <2>2, <3>1, <4>1, DeleteType
    <3> QED  BY <2>3, <3>1
  <2>5. \/ Continue(w, Tail(batch[w]))
        \/ Continue(w, <<>>)
    BY <1>3 DEF KeepPoison, DropPoison, Ack, DbError, AckError
  <2>6. UNCHANGED reply
    BY <1>3 DEF KeepPoison, DropPoison, Ack, DbError, AckError
  <2> QED  BY <1>1, <2>1, <2>4, <2>5, <2>6, FewerDeliveries, SentKept
<1>4. CASE CommitError(w) \/ Crash(w)
  BY <1>1, <1>4, FewerDeliveries, SentKept DEF CommitError, Crash, queueVars
<1>5. CASE Insert(w) /\ Continue(w, Tail(batch[w]))
  <2>1. batch[w] # <<>>
    BY <1>1, <1>5 DEF Insert, BatchInv, Busy
  <2> QED  BY <1>1, <1>5, <2>1, FewerDeliveries, SentKept DEF Insert, queueVars
<1>6. CASE UNCHANGED <<reply, mstate, batch>>
  BY <1>6, SentKept
<1> QED
  BY <1>2, <1>3, <1>4, <1>5, <1>6
     DEF Step, Trouble, Select, Insert, Commit, EmptyPoll, Exit, Restart, Stop, queueVars, vars

\* Whatever is delivered was sent, in every behaviour.
LEMMA SentInvariance == Spec => []SentInv
<1>1. Init => SentInv
  BY DEF Init, SentInv
<1>2. IInv /\ SentInv /\ [Next]_vars => SentInv'
  <2> SUFFICES ASSUME IInv, SentInv, [Next]_vars PROVE SentInv'
    OBVIOUS
  <2>1. CASE UNCHANGED vars
    BY <2>1, SentKept DEF vars
  <2>2. ASSUME NEW m \in Messages, Sqs(m) PROVE SentInv'
    <3>1. /\ mstate' = [mstate EXCEPT ![m] = "visible"] /\ mstate[m] # "absent"
          /\ UNCHANGED <<reply, batch>>
      BY <2>2 DEF Sqs, VisibilityTimeout, SlowWorker, Redeliver, workerVars
    <3> QED  BY <3>1, SentKept DEF IInv, TypeOK
  <2> QED  BY <2>1, <2>2, SentApi, SentWorker, SentReceive DEF Next
<1> QED  BY <1>1, <1>2, Invariance, PTL DEF Spec

\* Every step of the pipeline is a step of the ledger or none at all.
LEMMA LedgerStep ==
  ASSUME IInv, SentInv, [Next]_vars
  PROVE  [Ledger!Next]_Ledger!ledgerVars
<1> USE DEF Ledger!ledgerVars, Ledger!Next, Ledger!Send, Ledger!Refuse, Ledger!Answer, Ledger!Record
<1>1. CASE UNCHANGED <<reply, rows>>
  BY <1>1
<1>2. ASSUME NEW c \in Calls, Api(c) PROVE [Ledger!Next]_Ledger!ledgerVars
  <2>1. UNCHANGED rows
    BY <1>2 DEF Api, Publish, PublishTwice, PublishError, Respond, ApiCrash
  <2>2. CASE Publish(c) \/ PublishTwice(c)
    <3>1. reply[c] = "none" /\ reply' = [reply EXCEPT ![c] = "published"]
      BY <2>2 DEF Publish, PublishTwice
    <3>2. Ledger!Send(c)
      BY <2>1, <3>1 DEF IInv, TypeOK
    <3> QED  BY <3>2
  <2>3. CASE PublishError(c)
    <3>1. reply[c] = "none" /\ reply' = [reply EXCEPT ![c] = "error"]
      BY <2>3 DEF PublishError
    <3>2. /\ c \notin {b \in Calls : reply[b] # "none"}
          /\ {b \in Calls : reply[b] # "none"}' = {b \in Calls : reply[b] # "none"} \union {c}
      BY <3>1 DEF IInv, TypeOK
    <3>3. \A b \in Calls : reply'[b] = IF b = c THEN "error" ELSE reply[b]
      BY <3>1 DEF IInv, TypeOK
    <3>4. [b \in Calls |-> IF reply'[b] \in {"none", "published"} THEN None ELSE reply'[b]]
          = [[b \in Calls |-> IF reply[b] \in {"none", "published"} THEN None ELSE reply[b]]
               EXCEPT ![c] = "error"]
      BY <3>3
    <3>5. Ledger!Refuse(c)
      BY <2>1, <3>2, <3>4
    <3> QED  BY <3>5
  <2>4. CASE Respond(c) \/ ApiCrash(c)
    <3>1. PICK a \in {"queued", "lost"} : reply[c] = "published" /\ reply' = [reply EXCEPT ![c] = a]
      BY <2>4 DEF Respond, ApiCrash
    <3>2. Ledger!Answer(c)
      BY <2>1, <3>1 DEF IInv, TypeOK
    <3> QED  BY <3>2
  <2> QED  BY <1>2, <2>2, <2>3, <2>4 DEF Api
<1>3. ASSUME NEW w \in Workers, pc[w] = "commit",
             rows' = [rows EXCEPT ![CallOf(w)] = session[w]], UNCHANGED reply
      PROVE  [Ledger!Next]_Ledger!ledgerVars
  <2> DEFINE c == CallOf(w)
  <2>1. /\ c \in Calls /\ rows'[c] = session[w] /\ rows'[c] # None
        /\ \A b \in Calls : rows[b] # None =>
             rows'[b] # None /\ rows'[b].processed_at = rows[b].processed_at
        /\ \A b \in Calls : b # c => rows'[b] = rows[b]
    BY <1>3, CommitRows DEF IInv, TypeOK
  <2>2. CASE rows[c] # None
    <3>1. \A b \in Calls : /\ rows[b] = None <=> rows'[b] = None
                           /\ rows[b] # None => rows'[b].processed_at = rows[b].processed_at
      BY <2>1, <2>2
    <3> QED  BY <1>3, <3>1
  <2>3. CASE rows[c] = None
    <3>1. session[w].processed_at \in Deliveries
      BY <1>3 DEF IInv, SessionInv, Completed
    <3>2. reply[c] # "none"
      <4>1. pc[w] \in Busy /\ batch[w] # <<>> /\ batch[w] \in Seq(Deliveries)
        BY <1>3 DEF IInv, TypeOK, BatchInv, Busy
      <4>2. 1 \in DOMAIN batch[w] /\ Current(w) = batch[w][1] /\ Current(w).msg \in Messages
        BY <4>1, CurrentType DEF Current, IInv
      <4> QED  BY <2>1, <4>2 DEF SentInv, CallOf
    <3>3. [b \in Calls |-> IF rows'[b] = None THEN None ELSE rows'[b].processed_at]
          = [[b \in Calls |-> IF rows[b] = None THEN None ELSE rows[b].processed_at]
               EXCEPT ![c] = session[w].processed_at]
      BY <2>1
    <3>4. Ledger!Record(c)
      <4> HIDE DEF c
      <4> QED  BY <1>3, <2>1, <2>3, <3>1, <3>2, <3>3
    <3> QED  BY <2>1, <3>4
  <2> QED  BY <2>2, <2>3
<1>4. \/ UNCHANGED <<reply, rows>>
      \/ \E c \in Calls : Api(c)
      \/ \E w \in Workers : /\ pc[w] = "commit"
                            /\ rows' = [rows EXCEPT ![CallOf(w)] = session[w]]
                            /\ UNCHANGED reply
  <2>1. UNCHANGED reply \/ \E c \in Calls : Api(c)
    BY DEF Next, vars, Step, Trouble, KeepPoison, DropPoison, Select, Insert, Commit, Ack,
           EmptyPoll, Exit, Restart, ReceiveError, DbError, AckError, CommitError, Crash, Stop,
           Receive, Sqs, VisibilityTimeout, SlowWorker, Redeliver
  <2> QED  BY <2>1, RowsStep
<1> QED  BY <1>1, <1>2, <1>3, <1>4

\* The pipeline implements the ledger: at most one record per call, never
\* replaced, only of calls that were sent.
THEOREM LedgerImplemented == Spec => LedgerSafety
<1>1. Init => Ledger!Init
  BY DEF Init, Ledger!Init
<1>2. IInv /\ SentInv /\ [Next]_vars => [Ledger!Next]_Ledger!ledgerVars
  BY LedgerStep
<1> QED  BY <1>1, <1>2, Invariance, SentInvariance, PTL DEF Spec, LedgerSafety, Ledger!Safety

=============================================================================
