-------------------------------- MODULE Retrain --------------------------------
(***************************************************************************)
(* The retraining loop.  Once an hour predict's AccuracyCheckService puts  *)
(* a note into DynamoDB when the demand was underestimated; the job        *)
(* ml/retrain_trigger.py, started by hand or by a CronJob, scans the       *)
(* notes, continues the training of the model in S3 with the unused ones,  *)
(* uploads the result and marks the notes as used, one request each.  The  *)
(* forecast runs of predict load the model through a ModelLoader, which    *)
(* looks at the version in metadata.json first.                            *)
(*                                                                         *)
(* A note is identified by its hour.  A model is known by how often it has *)
(* learned each note.                                                      *)
(***************************************************************************)
EXTENDS Naturals, FiniteSets

CONSTANTS
  Hours,          \* target hours, 1..n
  Jobs,           \* runs of retrain_trigger.py that may overlap
  None,           \* no note, nothing loaded
  Predictions,    \* values of last_predicted_demand
  Actuals,        \* values of hourly_requests
  ErrorPercent,   \* prediction_accuracy_error_threshold, in percent
  MinRecords,     \* MIN_RECORDS_FOR_TRAINING
  UploadEnabled,  \* ml_s3_upload_enabled
  MaxLearned,     \* bound: a job does not learn a note more often than this
  MaxFaults       \* bound: failures, and repeated checks of an hour

ASSUME RetrainAssumption ==
  /\ Hours \subseteq Nat \ {0}
  /\ Predictions \subseteq Nat /\ Actuals \subseteq Nat /\ ErrorPercent \in Nat
  /\ MinRecords \in Nat /\ UploadEnabled \in BOOLEAN
  /\ MaxLearned \in Nat /\ MaxFaults \in Nat

ASSUME JobsAssumption == IsFiniteSet(Jobs)

ASSUME NoneAssumption ==
  /\ None \notin [trained : BOOLEAN, complete : BOOLEAN]
  /\ None \notin [version : Nat, promised : SUBSET Hours]
  /\ None \notin [version : Nat, promised : SUBSET Hours, known : SUBSET Hours]

VARIABLES
  hour,     \* the last hour whose minute :59 has come
  notes,    \* notes[h]: the item of hour h
  model,    \* models/latest/model.pkl: model[h] is how often it learned h
  metadata, \* models/latest/metadata.json: its version; as history, the
            \* notes known to the model it was written for
  pc,       \* pc[j]: the next step of job j
  batch,    \* batch[j]: what it scanned, then what it trains with or marks
  base,     \* base[j]: its copy of the model
  seen,     \* history, seen[j]: the model job j downloaded
  loading,  \* the metadata a forecast run has read, None between loads
  loaded,   \* the model predict holds: version, and the notes it knows;
            \* as history, those known to the model of that version
  clash,    \* history: a job has replaced a model it had not downloaded
  overlap,  \* history: a job has scanned the notes while another was at work
  faults

published == <<model, metadata, clash>>
jobs      == <<pc, batch, base, seen, overlap>>
predict   == <<loading, loaded>>
vars == <<hour, notes, published, jobs, predict, faults>>

Note     == [trained : BOOLEAN, complete : BOOLEAN]
Models   == [Hours -> 0..MaxLearned]
Metadata == [version : Nat, promised : SUBSET Hours]
Loaded   == [version : Nat, promised : SUBSET Hours, known : SUBSET Hours]
Untaught == [h \in Hours |-> 0]

Known(m) == {h \in Hours : m[h] > 0}

\* The first model comes from train.py and has learned no note.
Init ==
  /\ hour = 0
  /\ notes = [h \in Hours |-> None]
  /\ model = Untaught
  /\ metadata = [version |-> 0, promised |-> {}]
  /\ pc = [j \in Jobs |-> "idle"]
  /\ batch = [j \in Jobs |-> {}]
  /\ base = [j \in Jobs |-> Untaught] /\ seen = [j \in Jobs |-> Untaught]
  /\ loading = None /\ loaded = None
  /\ clash = FALSE /\ overlap = FALSE
  /\ faults = 0

Fault == faults < MaxFaults /\ faults' = faults + 1

-----------------------------------------------------------------------------
(* PredictionAccuracyLogger.record_if_needed.                              *)

Miss(predicted, actual) ==
  /\ actual > predicted
  /\ 100 * (actual - predicted) >= ErrorPercent * (IF predicted < 1 THEN 1 ELSE predicted)

\* The item of an hour, incomplete when no forecast item gave the weather.
Put(h) == \E complete \in BOOLEAN :
            notes' = [notes EXCEPT ![h] = [trained |-> FALSE, complete |-> complete]]

\* check_and_record at :59.
CheckHour ==
  /\ hour + 1 \in Hours
  /\ hour' = hour + 1
  /\ \E p \in Predictions, a \in Actuals :
       IF Miss(p, a) THEN Put(hour + 1) ELSE UNCHANGED notes
  /\ UNCHANGED <<published, jobs, predict, faults>>

\* The old and the new pod of a rollout both check the hour: the second item
\* replaces the first, mark and all.
CheckAgain ==
  /\ hour \in Hours
  /\ \E p \in Predictions, a \in Actuals : Miss(p, a)
  /\ Put(hour)
  /\ Fault
  /\ UNCHANGED <<hour, published, jobs, predict>>

-----------------------------------------------------------------------------
(* retrain_trigger.py.                                                     *)

Goto(j, step) == pc' = [pc EXCEPT ![j] = step]

Finish(j) ==
  /\ Goto(j, "idle")
  /\ batch' = [batch EXCEPT ![j] = {}]
  /\ base' = [base EXCEPT ![j] = Untaught] /\ seen' = [seen EXCEPT ![j] = Untaught]
  /\ UNCHANGED overlap

Untrained == {h \in Hours : notes[h] # None /\ ~notes[h].trained}

Usable(hs) == {h \in hs : notes[h].complete}

\* Scan the table and decide whether the notes suffice, or --force is given;
\* the confirmation of the prompt is part of starting the job.
Scan(j, forced) ==
  /\ pc[j] = "idle"
  /\ Cardinality(Untrained) >= MinRecords \/ forced
  /\ Usable(Untrained) # {}
  /\ batch' = [batch EXCEPT ![j] = Usable(Untrained)]
  /\ Goto(j, "train")
  /\ overlap' = (overlap \/ \E other \in Jobs : pc[other] # "idle")
  /\ UNCHANGED <<hour, notes, published, base, seen, predict, faults>>

\* Mutant: the booster is not handed to fit as init_model.
TrainFromScratch(j) ==
  /\ pc[j] = "train"
  /\ base' = [base EXCEPT ![j] = [h \in Hours |-> IF h \in batch[j] THEN 1 ELSE 0]]
  /\ seen' = [seen EXCEPT ![j] = model]
  /\ Goto(j, "upload")
  /\ UNCHANGED <<hour, notes, published, batch, overlap, predict, faults>>

\* continue_train: download the model and add trees for the batch.
Train(j) ==
  /\ pc[j] = "train"
  /\ \A h \in batch[j] : model[h] < MaxLearned
  /\ base' = [base EXCEPT ![j] = [h \in Hours |-> model[h] + (IF h \in batch[j] THEN 1 ELSE 0)]]
  /\ seen' = [seen EXCEPT ![j] = model]
  /\ Goto(j, "upload")
  /\ UNCHANGED <<hour, notes, published, batch, overlap, predict, faults>>

\* Mutant: the file that was downloaded is uploaded again.
StoreOldModel(j) == model' = seen[j] /\ clash' = (clash \/ model # seen[j])

\* upload_continued_model: first the model, whatever is there by now.
StoreModel(j) == model' = base[j] /\ clash' = (clash \/ model # seen[j])

StoreMetadata(j) ==
  metadata' = [version |-> metadata.version + 1, promised |-> Known(base[j])]

\* Without ml_s3_upload_enabled the model stays in /tmp.
UploadModel(j) ==
  /\ pc[j] = "upload"
  /\ IF UploadEnabled THEN StoreModel(j) /\ Goto(j, "metadata")
                      ELSE UNCHANGED <<model, clash>> /\ Goto(j, "mark")
  /\ UNCHANGED <<hour, notes, metadata, batch, base, seen, overlap, predict, faults>>

\* Mutant: a failed upload is logged, and the job goes on.
UploadErrorGoesOn(j) ==
  /\ pc[j] \in {"upload", "metadata"} /\ UploadEnabled
  /\ Goto(j, IF pc[j] = "upload" THEN "metadata" ELSE "mark")
  /\ Fault
  /\ UNCHANGED <<hour, notes, published, batch, base, seen, overlap, predict>>

\* S3 fails, the object stored or not: an AwsError ends the job.
UploadError(j) ==
  /\ pc[j] \in {"upload", "metadata"} /\ UploadEnabled
  /\ \/ UNCHANGED published
     \/ pc[j] = "upload" /\ StoreModel(j) /\ UNCHANGED metadata
     \/ pc[j] = "metadata" /\ StoreMetadata(j) /\ UNCHANGED <<model, clash>>
  /\ Finish(j)
  /\ Fault
  /\ UNCHANGED <<hour, notes, predict>>

UploadMetadata(j) ==
  /\ pc[j] = "metadata"
  /\ StoreMetadata(j)
  /\ Goto(j, "mark")
  /\ UNCHANGED <<hour, notes, model, clash, batch, base, seen, overlap, predict, faults>>

\* Mutant: the request sets nothing.
MarkNothing(j, h) ==
  /\ pc[j] = "mark" /\ h \in batch[j]
  /\ batch' = [batch EXCEPT ![j] = @ \ {h}]
  /\ UNCHANGED <<hour, notes, published, pc, base, seen, overlap, predict, faults>>

\* mark_used_as_trained.
Mark(j, h) ==
  /\ pc[j] = "mark" /\ h \in batch[j]
  /\ notes' = [notes EXCEPT ![h].trained = TRUE]
  /\ batch' = [batch EXCEPT ![j] = @ \ {h}]
  /\ UNCHANGED <<hour, published, pc, base, seen, overlap, predict, faults>>

\* A mark fails; DynamoDB may have made it.  The others are not tried.
MarkError(j, h) ==
  /\ pc[j] = "mark" /\ h \in batch[j]
  /\ notes' \in {notes, [notes EXCEPT ![h].trained = TRUE]}
  /\ Finish(j)
  /\ Fault
  /\ UNCHANGED <<hour, published, predict>>

Exit(j) ==
  /\ pc[j] = "mark" /\ batch[j] = {}
  /\ Finish(j)
  /\ UNCHANGED <<hour, notes, published, predict, faults>>

\* No tree was added, the download failed, or the pod of the job dies.
JobFails(j) ==
  /\ pc[j] # "idle"
  /\ Finish(j)
  /\ Fault
  /\ UNCHANGED <<hour, notes, published, predict>>

-----------------------------------------------------------------------------
(* ModelLoader.load_latest, by the one forecast scheduler of predict.      *)

\* Mutant: what is loaded stays.
LoadOnce ==
  /\ loading = None /\ loaded = None
  /\ loading' = metadata
  /\ UNCHANGED <<hour, notes, published, jobs, loaded, faults>>

\* Read the metadata; with the version that is held already the load ends.
LoadMetadata ==
  /\ loading = None
  /\ loaded # None => loaded.version # metadata.version
  /\ loading' = metadata
  /\ UNCHANGED <<hour, notes, published, jobs, loaded, faults>>

\* Download what is there now and keep it under the version read before.
LoadModel ==
  /\ loading # None /\ loading' = None
  /\ loaded' = [version |-> loading.version, promised |-> loading.promised, known |-> Known(model)]
  /\ UNCHANGED <<hour, notes, published, jobs, faults>>

\* The download fails, or predict is started anew.
LoadError ==
  /\ loading # None /\ loading' = None
  /\ loaded' \in {loaded, None}
  /\ Fault
  /\ UNCHANGED <<hour, notes, published, jobs>>

-----------------------------------------------------------------------------
Work(j) == \/ Train(j) \/ UploadModel(j) \/ UploadMetadata(j) \/ UploadError(j)
           \/ Exit(j) \/ JobFails(j)
           \/ \E f \in BOOLEAN : Scan(j, f)
           \/ \E h \in Hours : Mark(j, h) \/ MarkError(j, h)

Load == LoadMetadata \/ LoadModel

Next == \/ CheckHour \/ CheckAgain \/ \E j \in Jobs : Work(j)
        \/ Load \/ LoadError

\* Every forecast run loads the model; nobody has to start a job.
Spec == Init /\ [][Next]_vars /\ WF_vars(Load)

-----------------------------------------------------------------------------
(* Properties.                                                             *)

TypeOK ==
  /\ hour \in Hours \union {0}
  /\ notes \in [Hours -> Note \union {None}]
  /\ model \in Models /\ metadata \in Metadata
  /\ pc \in [Jobs -> {"idle", "train", "upload", "metadata", "mark"}]
  /\ batch \in [Jobs -> SUBSET Hours]
  /\ base \in [Jobs -> Models] /\ seen \in [Jobs -> Models]
  /\ loading \in Metadata \union {None} /\ loaded \in Loaded \union {None}
  /\ clash \in BOOLEAN /\ overlap \in BOOLEAN
  /\ faults \in 0..MaxFaults

\* No note is used up for nothing: one that is marked, and will never be
\* looked at again, has been learned by the published model, whichever step
\* of a job failed.  Two jobs at once can break this, but only when one
\* uploads over a model that has changed since it downloaded it.
MarkedIsLearned == UploadEnabled /\ ~clash =>
  \A h \in Hours : notes[h] # None /\ notes[h].trained => model[h] > 0

\* As long as no two jobs overlap, a note is learned once, and learned again
\* only after a mishap: one that failed to mark it, or put it again.  Jobs
\* that overlap work on notes they scanned before the other's marks, so they
\* may all learn a note without any mishap, but each of them once per mishap.
ReuseNeedsFault ==
  \A h \in Hours : model[h] <= (IF overlap THEN Cardinality(Jobs) ELSE 1) * (1 + faults)

\* Nor does the published model forget what it learned.
ModelGrows == [][~clash' => \A h \in Hours : model'[h] >= model[h]]_vars

\* Two objects make a model and no transaction ties them together, but the
\* model a forecast uses knows all that its version stands for: a load that
\* meets an upload gets too new a model for its label and never too old a one.
LabelHolds == loaded # None /\ ~clash => loaded.promised \subseteq loaded.known

\* What a note has to teach reaches the forecasts: once it is marked, predict
\* comes to hold a model that learned it, whatever failed before.
MarkedIsUsed ==
  UploadEnabled => \A h \in Hours :
    (notes[h] # None /\ notes[h].trained) ~> (clash \/ (loaded # None /\ h \in loaded.known))
-----------------------------------------------------------------------------
(* The inductive invariant behind MarkedIsLearned and LabelHolds.          *)

\* A job only works on notes that exist.
BatchInv == \A j \in Jobs : \A h \in batch[j] : notes[h] # None

\* What is about to be uploaded extends what was downloaded by the batch.
BaseInv ==
  \A j \in Jobs : pc[j] = "upload" =>
    /\ \A h \in Hours : base[j][h] >= seen[j][h]
    /\ \A h \in batch[j] : base[j][h] > 0

\* From the upload to the last mark the published model has the batch, and
\* all that the metadata to be written will stand for.
UploadedInv ==
  ~clash => \A j \in Jobs :
    /\ pc[j] = "metadata" => Known(base[j]) \subseteq Known(model)
    /\ UploadEnabled /\ pc[j] \in {"metadata", "mark"} => batch[j] \subseteq Known(model)

\* Metadata promise no more than the model keeps, also when they were read
\* before the model.
PromiseInv ==
  ~clash => /\ metadata.promised \subseteq Known(model)
            /\ loading # None => loading.promised \subseteq Known(model)

IInv == /\ TypeOK /\ BatchInv /\ BaseInv /\ UploadedInv /\ PromiseInv
        /\ MarkedIsLearned /\ LabelHolds

-----------------------------------------------------------------------------
(* The inductive invariant behind ReuseNeedsFault.                         *)

\* Only hours that have come have a note, only jobs at work a batch.
NotesPast == \A h \in Hours : h > hour => notes[h] = None

IdleEmpty == \A j \in Jobs : pc[j] = "idle" => batch[j] = {}

\* The jobs that can upload a model with note h before the next mishap: those
\* on their way to it, and while h is not marked those that are to scan again.
\* A job that has uploaded h and marks its batch is not among them.
Turns(h) ==
  {j \in Jobs : IF h \in batch[j] THEN pc[j] \in {"train", "upload"}
                                 ELSE notes[h] = None \/ ~notes[h].trained}

Limit == Cardinality(Jobs) * (1 + faults)

\* With jobs that overlap every job has one turn per mishap, and an upload
\* uses it up.
TurnsLeft ==
  \A h \in Hours :
    /\ model[h] + Cardinality(Turns(h)) <= Limit
    /\ \A j \in Jobs : pc[j] = "upload" =>
         base[j][h] + Cardinality(IF h \in batch[j] THEN Turns(h) \ {j} ELSE Turns(h)) <= Limit

TurnsInv == NotesPast /\ IdleEmpty /\ TurnsLeft

\* A note that can still be learned without another mishap.
Due(h) == /\ notes[h] = None \/ ~notes[h].trained
          /\ \A j \in Jobs : h \in batch[j] => pc[j] \in {"train", "upload"}

\* One job at a time has the notes as it scanned them and uploads what it
\* downloaded and its batch; a note that is due was learned for mishaps only.
OneAtATime ==
  ~overlap =>
    /\ \A i, j \in Jobs : pc[i] # "idle" /\ pc[j] # "idle" => i = j
    /\ \A j \in Jobs : pc[j] \in {"train", "upload"} =>
         \A h \in batch[j] : ~notes[h].trained
    /\ \A j \in Jobs : pc[j] = "upload" =>
         \A h \in Hours : base[j][h] <= model[h] + (IF h \in batch[j] THEN 1 ELSE 0)
    /\ \A h \in Hours : model[h] <= (IF Due(h) THEN 0 ELSE 1) + faults

ReuseInv == TurnsInv /\ OneAtATime
=============================================================================
