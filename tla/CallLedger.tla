----------------------------- MODULE CallLedger -----------------------------
(***************************************************************************)
(* What the call pipeline (call-api, SQS, worker, RDS) promises to the     *)
(* caller of POST /call: a call is put on record at most once, the moment  *)
(* it was completed never changes afterwards, only calls somebody sent are *)
(* recorded, and a call that was answered "202 QUEUED" is recorded in the  *)
(* end.  Nothing here knows of queues, deliveries or workers.              *)
(***************************************************************************)
CONSTANTS Calls,   \* request ids of POST /call
          Stamps,  \* values calls.processed_at can take
          None     \* "no value"

VARIABLES
  answer,    \* answer[c]: None, or what the caller of POST /call was told
  sent,      \* calls whose handler has reached the queue
  recorded   \* recorded[c]: None, or the processed_at of the row of call c

ledgerVars == <<answer, sent, recorded>>

Answers == {"queued", "error", "lost"}

Init == /\ answer = [c \in Calls |-> None]
        /\ sent = {}
        /\ recorded = [c \in Calls |-> None]

Send(c) == /\ c \notin sent
           /\ sent' = sent \union {c}
           /\ UNCHANGED <<answer, recorded>>

\* A call that could not be sent is answered with an error at once.
Refuse(c) == /\ c \notin sent
             /\ sent' = sent \union {c}
             /\ answer' = [answer EXCEPT ![c] = "error"]
             /\ UNCHANGED recorded

Answer(c) == /\ c \in sent
             /\ answer[c] = None
             /\ \E a \in {"queued", "lost"} : answer' = [answer EXCEPT ![c] = a]
             /\ UNCHANGED <<sent, recorded>>

Record(c) == /\ c \in sent
             /\ recorded[c] = None
             /\ \E s \in Stamps : recorded' = [recorded EXCEPT ![c] = s]
             /\ UNCHANGED <<answer, sent>>

Next == \E c \in Calls : Send(c) \/ Refuse(c) \/ Answer(c) \/ Record(c)

Safety == Init /\ [][Next]_ledgerVars

\* Who was told "202 QUEUED" can rely on the call.
QueuedIsRecorded == \A c \in Calls : answer[c] = "queued" ~> recorded[c] # None

Spec == Safety /\ QueuedIsRecorded
=============================================================================
